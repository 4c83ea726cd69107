------------------------------- MODULE Context -------------------------------
(***************************************************************************)
(* The process-wide DDS context (entities.cpp): created once, by the first *)
(* thread that needs it, from the environment and from what init_dds       *)
(* stored before.  configure() looks at g_ctx under g_cfg_mtx, the         *)
(* constructor reads g_cfg under it, but g_ctx is set after the            *)
(* constructor has released it.                                            *)
(***************************************************************************)
EXTENDS Integers, Sequences

CONSTANTS
    Users,          \* threads that create nodes or call init_dds
    EnvDomain,      \* ROS_DOMAIN_ID as strtol reads it, 0 if unset
    LocalhostOnly,  \* ROS_LOCALHOST_ONLY is "1" or "true"
    Uri,            \* CYCLONEDDS_URI is set
    InitCalls       \* arguments of init_dds: [port, peers, domain, interface]

ASSUME ContextAssumption ==
    /\ EnvDomain \in Int /\ LocalhostOnly \in BOOLEAN /\ Uri \in BOOLEAN
    /\ \A c \in InitCalls : c.port \in Int /\ c.domain \in Int

VARIABLES
    g_cfg,          \* the overrides stored last, or NoConfig
    g_ctx,          \* [domain_id, config_xml], or NoContext
    g_ctx_once,     \* "unset", "running" or "done"
    built,          \* what the constructor has put together
    at,             \* each user's way through instance()
    unseen          \* whether overrides were stored that the constructor has missed

contextVars == <<g_cfg, g_ctx, g_ctx_once, built, at, unseen>>

NoConfig == [domain_id |-> -1, config_xml |-> << >>]
NoContext == [domain_id |-> -1, config_xml |-> << >>]

ContextInit ==
    /\ g_cfg = NoConfig /\ g_ctx = NoContext /\ built = NoContext
    /\ g_ctx_once = "unset" /\ at = [t \in Users |-> "out"] /\ unseen = FALSE

env_domain_id == IF EnvDomain < 0 \/ EnvDomain > 232 THEN 0 ELSE EnvDomain

\* A peer is <<host, port>>.  With none to dial the participant dials its own listener.
tcp_config_xml(port, peers, interface) ==
    LET self == <<IF interface = "" THEN "127.0.0.1" ELSE interface, port>>
    IN  [port |-> port, interface |-> interface, peers |-> IF peers = {} THEN {self} ELSE peers]

\* InitDds_; of the own addresses only the loopback one is taken out.
Overrides(c) ==
    [domain_id |-> IF c.domain >= 0 THEN c.domain ELSE -1,
     config_xml |->
        IF c.port > 0
        THEN <<tcp_config_xml(c.port, c.peers \ {<<"127.0.0.1", c.port>>}, c.interface)>>
        ELSE << >>]

ContextOf(cfg) ==
    [domain_id |-> IF cfg.domain_id >= 0 THEN cfg.domain_id ELSE env_domain_id,
     config_xml |-> cfg.config_xml]

ConfigurableMutant == TRUE
Configurable == g_ctx = NoContext

\* A call with arguments out of range, or after the context exists, throws.
InitDds(t, c) ==
    /\ at[t] = "out" /\ c.port <= 65535 /\ c.domain <= 232 /\ Configurable
    /\ g_cfg' = Overrides(c)
    /\ unseen' = \E u \in Users : at[u] = "assign" /\ built # ContextOf(g_cfg')
    /\ UNCHANGED <<g_ctx, g_ctx_once, built, at>>

\* instance(): the first thread constructs, the others wait until it is done.
BeginInstance(t) ==
    /\ at[t] = "out" /\ at' = [at EXCEPT ![t] = "construct"]
    /\ g_ctx_once = "unset" /\ g_ctx_once' = "running"
    /\ UNCHANGED <<g_cfg, g_ctx, built, unseen>>

Construct(t) ==
    /\ at[t] = "construct" /\ at' = [at EXCEPT ![t] = "assign"]
    /\ built' = ContextOf(g_cfg)
    /\ UNCHANGED <<g_cfg, g_ctx, g_ctx_once, unseen>>

Assign(t) ==
    /\ at[t] = "assign" /\ at' = [at EXCEPT ![t] = "out"]
    /\ g_ctx' = built /\ g_ctx_once' = "done"
    /\ UNCHANGED <<g_cfg, built, unseen>>

HasInstance == g_ctx_once = "done"

-----------------------------------------------------------------------------
(* Participant's constructor: fragments of configuration, the later ones   *)
(* win.                                                                    *)

default_config_xml == IF LocalhostOnly /\ ~Uri THEN <<"localhost">> ELSE << >>
DomainConfig == default_config_xml \o g_ctx.config_xml \o (IF Uri THEN <<"uri">> ELSE << >>)
Participant == [domain_id |-> g_ctx.domain_id, config |-> DomainConfig]
==============================================================================
