------------------------------ MODULE MCBindings ------------------------------
(* Threads as model values, calls of init_dds as records.                  *)
EXTENDS Bindings

CONSTANTS t1, t2, t3

Calls ==
    {[port |-> 7601, peers |-> {<<"127.0.0.1", 7601>>, <<"127.0.0.1", 7602>>},
      domain |-> 7, interface |-> "127.0.0.1"],
     [port |-> 0, peers |-> {}, domain |-> 233, interface |-> ""]}

\* With the first participant the context is fixed for good and nothing that follows
\* depends on it: of the processes that differ only in their context, the one that never
\* called init_dds is followed beyond that point.
FollowedFurther == participant # {} => g_cfg = NoConfig
==============================================================================
