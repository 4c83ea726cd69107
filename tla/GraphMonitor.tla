---------------------------- MODULE GraphMonitor ----------------------------
(***************************************************************************)
(* rcl::GraphMonitor (graph.cpp): a thread that follows the DDS built-in   *)
(* topics, ros_discovery_info and rosout, and a snapshot of what it knows. *)
(*                                                                         *)
(* The readers are DDS's.  A built-in reader keeps, for every participant  *)
(* or endpoint, that something changed; taking it yields the instance's    *)
(* state at that time.  ros_discovery_info is read with keep_last(1) and   *)
(* without keys (raw_eqkey), so the reader holds one sample: the newest.   *)
(***************************************************************************)
EXTENDS Naturals, Sequences, FiniteSets

CONSTANTS
    Peers,          \* participants of the domain, the monitor's own among them
    Self,           \* the monitor's participant
    Endpoints,      \* writers and readers
    Home,           \* the participant of each endpoint
    Writers,        \* the endpoints that write
    Topic,          \* the topic of each endpoint
    Kind,           \* by its prefix: "topic", "service" (requests) or "other"
    Plumbing,       \* topics that every node writes or reads
    Enclave,        \* what each participant's USER_DATA names, or NoName
    NodeName,       \* the node each participant announces on ros_discovery_info
    NoName,
    Ros,            \* peers that announce the GIDs of their endpoints
    Batch,          \* kBuiltinBatch
    MaxLogs,        \* kMaxLogs
    Records,        \* bound: log records published
    MayFail         \* whether dds_waitset_wait may fail

ASSUME GraphAssumption ==
    /\ Self \in Peers /\ Home \in [Endpoints -> Peers] /\ Writers \subseteq Endpoints
    /\ Batch \in Nat \ {0} /\ MaxLogs \in Nat \ {0} /\ Records \in Nat
    /\ MayFail \in BOOLEAN

\* What resolve_node shows of a participant without a name, "participant:" and its GUID.
Anonymous(p) == <<"participant", p>>

\* Node names and enclaves are fully qualified: they begin with a slash.
ASSUME NameAssumption == \A p \in Peers : Anonymous(Self) \notin {NodeName[p], Enclave[p]}

Slots == {"stop", "part", "pub", "sub", "discovery", "rosout"}

VARIABLES
    \* the domain
    present,        \* participants on the domain
    departed,       \* participants that left; a GUID does not come back
    exists,         \* live endpoints
    deleted,        \* endpoints that were deleted
    announced,      \* the last announcement of each participant present
    written,        \* log records published so far
    \* the monitor's readers
    unreadPeers, unreadEnds,    \* instances with news in the built-in readers
    sample,         \* ros_discovery_info: {} or {the newest unread announcement}
    unreadLogs,     \* rosout: unread records
    \* GraphMonitor::Impl
    participants,   \* participants with an entry
    endpoints,      \* endpoints with an entry
    discovery,      \* announcements kept, one per participant
    logs,
    running, stopGuard,
    tpc,            \* the thread: "test", "wait", "poll" or "ended"
    triggered,      \* slots left of this wait's
    dpc             \* the destructor: "none", "flag", "join" or "done"

domainVars == <<present, departed, exists, deleted, announced, written>>
readerVars == <<unreadPeers, unreadEnds, sample, unreadLogs>>
graphVars == <<participants, endpoints, discovery, logs>>
threadVars == <<running, stopGuard, tpc, triggered, dpc>>
vars == <<domainVars, readerVars, graphVars, threadVars>>

\* The constructor: the participant and its readers, which live as long as the monitor.
Init ==
    /\ present = {Self} /\ departed = {} /\ deleted = {} /\ announced = {}
    /\ exists = {e \in Endpoints : Home[e] = Self} /\ written = 0
    /\ unreadPeers = {Self} /\ unreadEnds = exists /\ sample = {} /\ unreadLogs = << >>
    /\ participants = {} /\ endpoints = {} /\ discovery = {} /\ logs = << >>
    /\ running = TRUE /\ stopGuard = FALSE /\ tpc = "test" /\ triggered = {}
    /\ dpc = "none"

-----------------------------------------------------------------------------
(* The domain.                                                             *)

Join(p) ==
    /\ p \notin present \cup departed
    /\ present' = present \cup {p} /\ unreadPeers' = unreadPeers \cup {p}
    /\ UNCHANGED <<departed, exists, deleted, announced, written, unreadEnds, sample,
                   unreadLogs, graphVars, threadVars>>

\* A participant leaves with its endpoints, which DDS disposes of too.
Leave(p) ==
    LET es == {e \in exists : Home[e] = p} IN
    /\ p \in present \ {Self}
    /\ present' = present \ {p} /\ departed' = departed \cup {p}
    /\ exists' = exists \ es /\ deleted' = deleted \cup es
    /\ announced' = {n \in announced : n.peer # p}
    /\ unreadPeers' = unreadPeers \cup {p} /\ unreadEnds' = unreadEnds \cup es
    /\ UNCHANGED <<written, sample, unreadLogs, graphVars, threadVars>>

Create(e) ==
    /\ Home[e] \in present /\ e \notin exists \cup deleted
    /\ exists' = exists \cup {e} /\ unreadEnds' = unreadEnds \cup {e}
    /\ UNCHANGED <<present, departed, deleted, announced, written, unreadPeers, sample,
                   unreadLogs, graphVars, threadVars>>

Delete(e) ==
    /\ e \in exists /\ Home[e] # Self
    /\ exists' = exists \ {e} /\ deleted' = deleted \cup {e}
    /\ unreadEnds' = unreadEnds \cup {e}
    /\ UNCHANGED <<present, departed, announced, written, unreadPeers, sample,
                   unreadLogs, graphVars, threadVars>>

\* A participant publishes its node, with the GIDs of its endpoints if it is a ROS
\* peer, whenever that has changed.
Announce(p) ==
    /\ p \in present \ {Self}
    /\ LET m == [peer |-> p, node |-> NodeName[p],
                 gids |-> {e \in exists : Home[e] = p /\ p \in Ros}]
       IN  /\ m \notin announced
           /\ sample' = {m}
           /\ announced' = {n \in announced : n.peer # p} \cup {m}
    /\ UNCHANGED <<present, departed, exists, deleted, written, unreadPeers, unreadEnds,
                   unreadLogs, graphVars, threadVars>>

\* The newest n elements of s.
Newest(s, n) == IF Len(s) > n THEN SubSeq(s, Len(s) - n + 1, Len(s)) ELSE s

\* A log record is published; the reader keeps the newest MaxLogs.
Log ==
    /\ written < Records /\ written' = written + 1
    /\ unreadLogs' = Newest(Append(unreadLogs, written + 1), MaxLogs)
    /\ UNCHANGED <<present, departed, exists, deleted, announced, unreadPeers,
                   unreadEnds, sample, graphVars, threadVars>>

-----------------------------------------------------------------------------
(* The polling thread.                                                     *)

\* while (running.load())
Test ==
    /\ tpc = "test"
    /\ tpc' = IF running THEN "wait" ELSE "ended"
    /\ UNCHANGED <<domainVars, readerVars, graphVars, running, stopGuard, triggered,
                   dpc>>

Ready ==
    {s \in Slots :
        \/ s = "stop" /\ stopGuard
        \/ s = "part" /\ unreadPeers # {}
        \/ s = "pub" /\ unreadEnds \cap Writers # {}
        \/ s = "sub" /\ unreadEnds \ Writers # {}
        \/ s = "discovery" /\ sample # {}
        \/ s = "rosout" /\ unreadLogs # << >>}

\* dds_waitset_wait returns all that is triggered: there are fewer slots than room.
WaitReturns ==
    /\ tpc = "wait" /\ tpc' = "poll"
    /\ Ready # {} /\ triggered' = Ready
    /\ UNCHANGED <<domainVars, readerVars, graphVars, running, stopGuard, dpc>>

\* ... or an error, which ends the thread.
WaitFails ==
    /\ MayFail /\ tpc = "wait" /\ tpc' = "ended"
    /\ UNCHANGED <<domainVars, readerVars, graphVars, running, stopGuard, triggered,
                   dpc>>

\* The next slot, in the waitset's order, which is not specified.
Poll(s) == tpc = "poll" /\ s \in triggered /\ triggered' = triggered \ {s}

\* kStopSlot: the guard was triggered, so taking it returns true.
Stopped ==
    /\ Poll("stop")
    /\ stopGuard' = FALSE
    /\ tpc' = IF stopGuard THEN "ended" ELSE tpc
    /\ UNCHANGED <<domainVars, readerVars, graphVars, running, dpc>>

\* dds_take of at most Batch of the instances with news.
Taken(unread) ==
    {t \in SUBSET unread :
        IF Cardinality(unread) < Batch THEN t = unread ELSE Cardinality(t) = Batch}

\* A departed participant takes its discovery entry and endpoints with it.
Retired(gone) == {e \in endpoints : Home[e] \notin gone}

poll_participants ==
    /\ Poll("part")
    /\ \E t \in Taken(unreadPeers) :
         LET gone == t \ present IN
         /\ unreadPeers' = unreadPeers \ t
         /\ participants' = (participants \cup (t \cap present)) \ gone
         /\ discovery' = {m \in discovery : m.peer \notin gone}
         /\ endpoints' = Retired(gone)
    /\ UNCHANGED <<domainVars, unreadEnds, sample, unreadLogs, logs, running, stopGuard,
                   tpc, dpc>>

\* A live endpoint is entered, another erased.
FollowedMutant(t) == endpoints \cup (t \cap exists)
Followed(t) == (endpoints \cup (t \cap exists)) \ (t \ exists)

poll_builtin(slot, mine) ==
    /\ Poll(slot)
    /\ \E t \in Taken(unreadEnds \cap mine) :
         /\ unreadEnds' = unreadEnds \ t
         /\ endpoints' = Followed(t)
    /\ UNCHANGED <<domainVars, unreadPeers, sample, unreadLogs, participants, discovery,
                   logs, running, stopGuard, tpc, dpc>>

\* discovery[key] = the announcement taken.
poll_discovery ==
    /\ Poll("discovery")
    /\ sample' = {}
    /\ discovery' = {m \in discovery : \A n \in sample : m.peer # n.peer} \cup sample
    /\ UNCHANGED <<domainVars, unreadPeers, unreadEnds, unreadLogs, participants,
                   endpoints, logs, running, stopGuard, tpc, dpc>>

\* push_back each record, and pop_front while there are too many.
TrimmedMutant(s) == Newest(s, MaxLogs - 1)
Trimmed(s) == Newest(s, MaxLogs)

poll_rosout ==
    /\ Poll("rosout")
    /\ unreadLogs' = << >>
    /\ logs' = Trimmed(logs \o unreadLogs)
    /\ UNCHANGED <<domainVars, unreadPeers, unreadEnds, sample, participants, endpoints,
                   discovery, running, stopGuard, tpc, dpc>>

\* All slots polled.
NextRound ==
    /\ tpc = "poll" /\ triggered = {} /\ tpc' = "test"
    /\ UNCHANGED <<domainVars, readerVars, graphVars, running, stopGuard, triggered,
                   dpc>>

-----------------------------------------------------------------------------
(* The destructor, on another thread.                                      *)

Destroy ==
    /\ dpc = "none" /\ dpc' = "flag"
    /\ running' = FALSE
    /\ UNCHANGED <<domainVars, readerVars, graphVars, stopGuard, tpc, triggered>>

TriggerMutant == UNCHANGED stopGuard
Trigger == stopGuard' = TRUE

TriggerStop ==
    /\ dpc = "flag" /\ dpc' = "join"
    /\ Trigger
    /\ UNCHANGED <<domainVars, readerVars, graphVars, running, tpc, triggered>>

Joined ==
    /\ dpc = "join" /\ tpc = "ended" /\ dpc' = "done"
    /\ UNCHANGED <<domainVars, readerVars, graphVars, running, stopGuard, tpc,
                   triggered>>

-----------------------------------------------------------------------------
Domain ==
    \/ \E p \in Peers : Join(p) \/ Leave(p) \/ Announce(p)
    \/ \E e \in Endpoints : Create(e) \/ Delete(e)
    \/ Log

Thread ==
    \/ Test \/ WaitReturns \/ Stopped \/ poll_participants
    \/ poll_builtin("pub", Writers) \/ poll_builtin("sub", Endpoints \ Writers)
    \/ poll_discovery \/ poll_rosout \/ NextRound

Next == Domain \/ Thread \/ WaitFails \/ Destroy \/ TriggerStop \/ Joined

\* The threads are scheduled.
Spec ==
    /\ Init /\ [][Next]_vars
    /\ WF_vars(Thread) /\ WF_vars(TriggerStop) /\ WF_vars(Joined)

-----------------------------------------------------------------------------
(* snapshot_json(), which reads the state under mtx.                       *)

VisibleMutant(p) == TRUE
Visible(p) == p # Self

Live == {e \in endpoints : Visible(Home[e])}

\* resolve_node: the announcement that lists the endpoint, else the enclave, else the
\* participant's GUID.
Owners(e) == {m.node : m \in {n \in discovery : n.peer = Home[e] /\ e \in n.gids}}
EnclaveOf(p) == IF p \in participants THEN Enclave[p] ELSE NoName
resolve_node(e) ==
    IF Owners(e) # {} THEN CHOOSE n \in Owners(e) : TRUE
    ELSE IF EnclaveOf(Home[e]) # NoName THEN EnclaveOf(Home[e])
    ELSE Anonymous(Home[e])

SnapshotNodes ==
    {resolve_node(e) : e \in Live}
    \cup {m.node : m \in {n \in discovery : Visible(n.peer)}}
    \cup ({EnclaveOf(p) : p \in {q \in participants : Visible(q)}} \ {NoName})

\* Writers and readers of each topic, by node, and the edges between them.
By(t, es) == {resolve_node(e) : e \in {f \in Live \cap es : Topic[f] = t}}
is_plumbing_topic(t) == t \in Plumbing
Drawn(t) == Kind[t] \in {"topic", "service"} /\ ~is_plumbing_topic(t)
SnapshotEdges ==
    UNION {{[source |-> w, target |-> r, topic |-> t, kind |-> Kind[t]] :
              w \in By(t, Writers), r \in By(t, Endpoints \ Writers)} :
            t \in {u \in {Topic[e] : e \in Live} : Drawn(u)}}

\* The "topics" and "services" sections: their writers and readers.
Listed(kind) ==
    {[name |-> t, writers |-> By(t, Writers), readers |-> By(t, Endpoints \ Writers)] :
        t \in {u \in {Topic[e] : e \in Live} : Kind[u] = kind /\ Drawn(u)}}

\* The document, as the sets its sections render.
snapshot_json ==
    [nodes |-> SnapshotNodes, topics |-> Listed("topic"), services |-> Listed("service"),
     edges |-> SnapshotEdges,
     endpoints |-> {[gid |-> e, participant |-> Home[e], node |-> resolve_node(e)] :
                      e \in Live},
     logs |-> logs]

-----------------------------------------------------------------------------
(* Properties.                                                             *)

\* The thread has nothing left to take.
Quiet == tpc = "wait" /\ Ready = {}

\* When it has caught up the monitor knows exactly the participants and endpoints of
\* the domain, in whatever order and batches their comings and goings were taken
\* (poll_participants, poll_builtin).
CaughtUp == Quiet => endpoints = exists /\ participants = present

\* "The monitor's own endpoints are excluded": no section of a snapshot shows anything
\* of Self, also not before its participant is known (snapshot_json, resolve_node).
ObserverInvisible ==
    LET j == snapshot_json
        own == Anonymous(Self)
    IN  /\ own \notin j.nodes
        /\ \A t \in j.topics \cup j.services : own \notin t.writers \cup t.readers
        /\ \A d \in j.edges : own \notin {d.source, d.target}
        /\ \A e \in j.endpoints : e.participant # Self

\* "a bounded ring of the most recent rt/rosout records": the bound of the reader and
\* that of the ring together keep the newest records, in order, without a gap.
LogsAreNewest ==
    Quiet => snapshot_json.logs = Newest([i \in 1..written |-> i], MaxLogs)

\* The destructor's join returns: the flag and the guard reach the thread wherever
\* it is (~Impl, run).
StopEnds == dpc = "flag" ~> dpc = "done"

\* "authoritative node names and endpoint ownership for ROS 2 peers": when it has caught
\* up the monitor holds the announcements of the participants present, and no others.
DiscoveryIsCurrent == Quiet => discovery = announced
=============================================================================
