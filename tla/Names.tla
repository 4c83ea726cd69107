-------------------------------- MODULE Names --------------------------------
(***************************************************************************)
(* ROS names, the DDS names of their topics and types (names.cpp) and what *)
(* the graph snapshot makes of a DDS name (graph.cpp).  A name is the      *)
(* sequence of its pieces: "/ns/a" is <<"/", "ns", "/", "a">>.             *)
(***************************************************************************)
EXTENDS Naturals, Sequences, SequencesExt

\* What a function that throws returns.
Error == <<"error">>

ValidFqn(fqn) ==
    /\ fqn # << >> /\ Head(fqn) = "/"
    /\ Len(fqn) > 1 => Last(fqn) # "/"
    /\ \A i \in 1..(Len(fqn) - 1) : ~(fqn[i] = "/" /\ fqn[i + 1] = "/")

\* Every mapping validates the name it is given.
Checked(fqn, dds) == IF ValidFqn(fqn) THEN dds ELSE Error

ros_to_dds_topic_name(fqn) == Checked(fqn, <<"rt">> \o fqn)
ros_to_dds_request_topic_name(fqn) == Checked(fqn, <<"rq">> \o fqn \o <<"Request">>)
ros_to_dds_reply_topic_name(fqn) == Checked(fqn, <<"rr">> \o fqn \o <<"Reply">>)

make_fq_node_name(ns, name) ==
    IF \/ name = << >> \/ "/" \in ToSet(name)
       \/ ns = << >> \/ Head(ns) # "/" \/ (Len(ns) > 1 /\ Last(ns) = "/")
    THEN Error
    ELSE IF ns = <<"/">> THEN <<"/">> \o name ELSE ns \o <<"/">> \o name

expand_topic_name(topic, ns) ==
    IF topic = << >> THEN Error
    ELSE IF Head(topic) = "/" THEN topic
    ELSE IF "/" \in ToSet(topic) THEN Error
    ELSE IF ns = <<"/">> \/ ns = << >> THEN <<"/">> \o topic
    ELSE ns \o <<"/">> \o topic

dds_type_nameMutant(type) ==
    LET cut == CHOOSE i \in DOMAIN type : type[i] = "/"
    IN  IF "::" \in ToSet(type) THEN type
        ELSE IF "/" \notin ToSet(type) THEN Error
        ELSE SubSeq(type, 1, cut - 1) \o <<"::dds_::">>
                \o SubSeq(type, cut + 1, Len(type)) \o <<"_">>
\* The first slash of what stands before the last one becomes "::".
dds_type_name(type) ==
    LET cut == CHOOSE i \in DOMAIN type :
                   type[i] = "/" /\ \A j \in (i + 1)..Len(type) : type[j] # "/"
        dds_ns == SubSeq(type, 1, cut - 1)
    IN  IF "::" \in ToSet(type) THEN type
        ELSE IF "/" \notin ToSet(type) THEN Error
        ELSE ReplaceFirstSubSeq(<<"::">>, <<"/">>, dds_ns) \o <<"::dds_::">>
                \o SubSeq(type, cut + 1, Len(type)) \o <<"_">>

\* MessageType<>::dds_name() of generated code, for pkg/kind/name.
dds_name(pkg, kind, name) == <<pkg, "::", kind, "::dds_::">> \o name \o <<"_">>

-----------------------------------------------------------------------------
(* GraphMonitor::snapshot_json: the ROS name of a DDS topic, and whether   *)
(* it is shown as a topic, as a service or not at all.                     *)

\* The built-in topics "DCPS..." and "d*..." are never created by a node.
is_plumbing_topic(dds) ==
    dds \in {<<"ros_discovery_info">>, <<"rt", "/", "rosout">>, <<"rt", "/", "parameter_events">>}

ShownMutant(dds) ==
    CASE IsPrefix(<<"rq", "/">>, dds) /\ Len(dds) > 3
           -> [as |-> "service", name |-> SubSeq(dds, 2, Len(dds))]
      [] IsPrefix(<<"rt", "/">>, dds) /\ Len(dds) > 2 /\ ~is_plumbing_topic(dds)
           -> [as |-> "topic", name |-> SubSeq(dds, 2, Len(dds))]
      [] OTHER -> [as |-> "nothing", name |-> << >>]
\* The piece "Request" is the last of the name; "rq/Request" is too short.
Shown(dds) ==
    CASE IsPrefix(<<"rq", "/">>, dds) /\ Len(dds) > 3 /\ Last(dds) = "Request"
           -> [as |-> "service", name |-> SubSeq(dds, 2, Len(dds) - 1)]
      [] IsPrefix(<<"rt", "/">>, dds) /\ Len(dds) > 2 /\ ~is_plumbing_topic(dds)
           -> [as |-> "topic", name |-> SubSeq(dds, 2, Len(dds))]
      [] OTHER -> [as |-> "nothing", name |-> << >>]
==============================================================================
