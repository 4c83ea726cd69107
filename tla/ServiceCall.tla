------------------------------ MODULE ServiceCall ------------------------------
(***************************************************************************)
(* rcl::Client and rcl::Service (service.hpp): request/response over a     *)
(* pair of DDS topics.                                                     *)
(*                                                                         *)
(* All clients of a service share its reply topic, so every reply reaches  *)
(* every client; several servers of one name answer every request, so a    *)
(* request may be answered more than once; either message may be lost.     *)
(* Callers are threads using call() or async_send_request(); the responses *)
(* of a client are dispatched by one other thread, its executor's.         *)
(*                                                                         *)
(* call() keeps its promise on the stack and lends dispatch() a pointer to *)
(* it.  A caller has one such slot: promise[c] is the promise living there *)
(* now, and a pointer made by an earlier call of c still points there.     *)
(***************************************************************************)
EXTENDS Naturals, FiniteSets

CONSTANTS
    Clients,    \* rcl::Client objects; each is its own random client_id_
    Callers,    \* threads calling them
    ClientOf,   \* the client each caller uses
    Servers,    \* rcl::Service objects of the service name
    Timeouts,   \* whether call() may time out
    Lossy,      \* whether messages may be lost and a server's callback fail
    MaxSeq      \* bound: requests per client

ASSUME ConstantsAssumption ==
    /\ ClientOf \in [Callers -> Clients]
    /\ Timeouts \in BOOLEAN /\ Lossy \in BOOLEAN
    /\ MaxSeq \in Nat

Headers == [client : Clients, seq : Nat]             \* ServiceHeader
Replies == [head : Headers, body : Headers]          \* body: the request answered
Entries == [seq : Nat, kind : {"sync", "async"}, by : Callers]

VARIABLES
    nextSeq,    \* next_sequence_ of each client
    pending,    \* pending_ of each client: a set of Entries
    inbox,      \* replies in each client's response_reader_
    inhand,     \* the entry dispatch() moved out of pending_, with the response
    requests,   \* requests in each server's request_reader_
    cpc,        \* where each caller is
    sending,    \* its kind of call and sequence number
    promise,    \* the promise in its stack slot: {} or {[seq, value]}
    claimed,    \* ghost: sequence numbers dispatch() has moved out
    withdrawn,  \* ghost: those whose sender erased its entry and threw
    answers,    \* ghost: what callers and callbacks got: {[asked, body]}
    dangling    \* ghost: some set_value went through a pointer to a dead promise

vars == <<nextSeq, pending, inbox, inhand, requests, cpc, sending, promise,
          claimed, withdrawn, answers, dangling>>

Idle == [kind |-> "async", seq |-> 0]

Init ==
    /\ nextSeq = [k \in Clients |-> 0]
    /\ pending = [k \in Clients |-> {}]
    /\ inbox = [k \in Clients |-> {}]
    /\ inhand = [k \in Clients |-> {}]
    /\ requests = [s \in Servers |-> {}]
    /\ cpc = [c \in Callers |-> "idle"]
    /\ sending = [c \in Callers |-> Idle]
    /\ promise = [c \in Callers |-> {}]
    /\ claimed = [k \in Clients |-> {}]
    /\ withdrawn = [k \in Clients |-> {}]
    /\ answers = {}
    /\ dangling = FALSE

Header(c) == [client |-> ClientOf[c], seq |-> sending[c].seq]
Entry(c) == [seq |-> sending[c].seq, kind |-> sending[c].kind, by |-> c]

-----------------------------------------------------------------------------
(* The callers.                                                            *)

\* call() or async_send_request(): ++next_sequence_, which is atomic.
Begin(c, kind) ==
    LET k == ClientOf[c] IN
    /\ cpc[c] = "idle" /\ cpc' = [cpc EXCEPT ![c] = "register"]
    /\ nextSeq[k] < MaxSeq
    /\ nextSeq' = [nextSeq EXCEPT ![k] = @ + 1]
    /\ sending' = [sending EXCEPT ![c] = [kind |-> kind, seq |-> nextSeq[k] + 1]]
    /\ promise' = [promise EXCEPT ![c] =
           IF kind = "sync" THEN {[seq |-> nextSeq[k] + 1, value |-> {}]} ELSE {}]
    /\ UNCHANGED <<pending, inbox, inhand, requests, claimed, withdrawn, answers,
                   dangling>>

\* Requests without a callback are registered too.
RegisteredMutant(c) == {e \in {Entry(c)} : e.kind = "sync"}
Registered(c) == {Entry(c)}

\* pending_[seq] = ... under pending_mtx_.
Register(c) ==
    /\ cpc[c] = "register" /\ cpc' = [cpc EXCEPT ![c] = "write"]
    /\ pending' = [pending EXCEPT ![ClientOf[c]] = @ \cup Registered(c)]
    /\ UNCHANGED <<nextSeq, inbox, inhand, requests, sending, promise, claimed,
                   withdrawn, answers, dangling>>

\* The request is written and reaches all servers, or some if messages get lost.
Write(c) ==
    /\ cpc[c] = "write"
    /\ cpc' = [cpc EXCEPT ![c] = IF sending[c].kind = "sync" THEN "wait" ELSE "idle"]
    /\ \E got \in SUBSET Servers :
         /\ Lossy \/ got = Servers
         /\ requests' = [s \in Servers |->
                IF s \in got THEN requests[s] \cup {Header(c)} ELSE requests[s]]
    /\ UNCHANGED <<nextSeq, pending, inbox, inhand, sending, promise, claimed,
                   withdrawn, answers, dangling>>

\* request_writer_->write returns false.
WriteFails(c) ==
    /\ cpc[c] = "write" /\ cpc' = [cpc EXCEPT ![c] = "withdraw"]
    /\ UNCHANGED <<nextSeq, pending, inbox, inhand, requests, sending, promise,
                   claimed, withdrawn, answers, dangling>>

\* future.wait_for gives up; the response may still come in before the erase.
TimesOut(c) ==
    /\ Timeouts
    /\ cpc[c] = "wait" /\ cpc' = [cpc EXCEPT ![c] = "withdraw"]
    /\ \A p \in promise[c] : p.value = {}
    /\ UNCHANGED <<nextSeq, pending, inbox, inhand, requests, sending, promise,
                   claimed, withdrawn, answers, dangling>>

\* pending_.erase(seq) under pending_mtx_ and throw, after a failed write or a
\* timeout.  Leaving call() destroys the promise.
WithdrawMutant(c) ==
    /\ cpc[c] = "withdraw" /\ cpc' = [cpc EXCEPT ![c] = "idle"]
    /\ withdrawn' = [withdrawn EXCEPT ![ClientOf[c]] = @ \cup {sending[c].seq}]
    /\ promise' = [promise EXCEPT ![c] = {}]
    /\ UNCHANGED <<nextSeq, pending, inbox, inhand, requests, sending, claimed,
                   answers, dangling>>

Withdraw(c) ==
    /\ cpc[c] = "withdraw" /\ cpc' = [cpc EXCEPT ![c] = "idle"]
    /\ pending' = [pending EXCEPT ![ClientOf[c]] =
                       {p \in @ : p.seq # sending[c].seq}]
    /\ withdrawn' = [withdrawn EXCEPT ![ClientOf[c]] = @ \cup {sending[c].seq}]
    /\ promise' = [promise EXCEPT ![c] = {}]
    /\ UNCHANGED <<nextSeq, inbox, inhand, requests, sending, claimed, answers,
                   dangling>>

\* future.get() and return, which destroys the promise.
Receive(c) ==
    /\ cpc[c] = "wait" /\ cpc' = [cpc EXCEPT ![c] = "idle"]
    /\ \E p \in promise[c] : \E v \in p.value :
         answers' = answers \cup {[asked |-> Header(c), body |-> v]}
    /\ promise' = [promise EXCEPT ![c] = {}]
    /\ UNCHANGED <<nextSeq, pending, inbox, inhand, requests, sending, claimed,
                   withdrawn, dangling>>

-----------------------------------------------------------------------------
(* The servers and the dispatch of responses.                              *)

\* The reply echoes the request's header.
ReplyMutant(r, s) == {[head |-> h, body |-> r] : h \in requests[s]}
Reply(r, s) == {[head |-> r, body |-> r]}

\* Service::dispatch takes one request, runs the callback and writes the reply;
\* all clients of the service receive it.
Serve(s, r) ==
    /\ r \in requests[s]
    /\ requests' = [requests EXCEPT ![s] = @ \ {r}]
    /\ \E m \in Reply(r, s), got \in SUBSET Clients :
         /\ Lossy \/ got = Clients
         /\ inbox' = [k \in Clients |->
                IF k \in got THEN inbox[k] \cup {m} ELSE inbox[k]]
    /\ UNCHANGED <<nextSeq, pending, inhand, cpc, sending, promise, claimed,
                   withdrawn, answers, dangling>>

\* The entry a reply is for: other clients' replies are not ours, and a reply
\* whose entry was claimed or withdrawn has none.
MatchShifted(k, m) == {p \in pending[k] : m.head.client = k /\ p.seq > m.head.seq}
Match(k, m) == {p \in pending[k] : m.head.client = k /\ p.seq = m.head.seq}

\* pending_.erase(it), after the entry was moved out.
LeftPending(k, ps) == pending[k] \ ps

\* Client::dispatch takes one response up to the release of pending_mtx_.  It is
\* dropped when it is malformed, which Lossy allows, or when nothing matches.
Claim(k, m) ==
    /\ inhand[k] = {}
    /\ m \in inbox[k] /\ inbox' = [inbox EXCEPT ![k] = @ \ {m}]
    /\ \E ps \in {Match(k, m)} \cup {d \in {{}} : Lossy} :
         /\ pending' = [pending EXCEPT ![k] = LeftPending(k, ps)]
         /\ claimed' = [claimed EXCEPT ![k] = @ \cup {p.seq : p \in ps}]
         /\ inhand' = [inhand EXCEPT ![k] =
                           {[entry |-> p, body |-> m.body] : p \in ps}]
    /\ UNCHANGED <<nextSeq, requests, cpc, sending, promise, withdrawn, answers,
                   dangling>>

\* p.on_response(resp), outside the lock.
RunCallback(k, h) ==
    /\ h \in inhand[k] /\ inhand' = [inhand EXCEPT ![k] = {}]
    /\ h.entry.kind = "async"
    /\ answers' = answers \cup
           {[asked |-> [client |-> k, seq |-> h.entry.seq], body |-> h.body]}
    /\ UNCHANGED <<nextSeq, pending, inbox, requests, cpc, sending, promise,
                   claimed, withdrawn, dangling>>

\* set_value: a second one throws, which dispatch() catches.
Fill(q, v) == [seq |-> q.seq, value |-> IF q.value = {} THEN {v} ELSE q.value]

\* p.sync_promise->set_value(resp), outside the lock.  If the call is over the
\* write goes to freed stack: into nothing, or into the promise of the caller's
\* next call when that occupies the same slot and is still empty.
SetPromise(k, h) ==
    LET c == h.entry.by IN
    /\ h \in inhand[k] /\ inhand' = [inhand EXCEPT ![k] = {}]
    /\ h.entry.kind = "sync"
    /\ dangling' = (dangling \/ \A q \in promise[c] : q.seq # h.entry.seq)
    /\ \/ promise' = [promise EXCEPT ![c] = {Fill(q, h.body) : q \in @}]
       \/ /\ \A q \in promise[c] : q.seq # h.entry.seq
          /\ UNCHANGED promise
    /\ UNCHANGED <<nextSeq, pending, inbox, requests, cpc, sending, claimed,
                   withdrawn, answers>>

-----------------------------------------------------------------------------
\* A caller inside the library, apart from the choice to give up waiting.
Proceed(c) == Register(c) \/ Write(c) \/ Withdraw(c) \/ Receive(c)

DispatchResponses(k) ==
    \/ \E m \in inbox[k] : Claim(k, m)
    \/ \E h \in inhand[k] : RunCallback(k, h) \/ SetPromise(k, h)

Next ==
    \/ \E c \in Callers :
         \/ \E kind \in {"sync", "async"} : Begin(c, kind)
         \/ Proceed(c) \/ WriteFails(c) \/ TimesOut(c)
    \/ \E s \in Servers : \E r \in requests[s] : Serve(s, r)
    \/ \E k \in Clients : DispatchResponses(k)

Spec == Init /\ [][Next]_vars

\* Callers run on, and executors spin for every server and every client.
FairSpec ==
    /\ Spec
    /\ \A c \in Callers : WF_vars(Proceed(c))
    /\ \A s \in Servers : WF_vars(\E r \in requests[s] : Serve(s, r))
    /\ \A k \in Clients : WF_vars(DispatchResponses(k))

-----------------------------------------------------------------------------
(* Properties.                                                             *)

PendingSeqs(k) == {p.seq : p \in pending[k]}

\* Every variable stays in the set its declaration names.
TypeOK ==
    /\ nextSeq \in [Clients -> Nat]
    /\ pending \in [Clients -> SUBSET Entries]
    /\ inbox \in [Clients -> SUBSET Replies]
    /\ inhand \in [Clients -> SUBSET [entry : Entries, body : Headers]]
    /\ requests \in [Servers -> SUBSET Headers]
    /\ cpc \in [Callers -> {"idle", "register", "write", "wait", "withdraw"}]
    /\ sending \in [Callers -> [kind : {"sync", "async"}, seq : Nat]]
    /\ promise \in [Callers -> SUBSET [seq : Nat, value : SUBSET Headers]]
    /\ claimed \in [Clients -> SUBSET Nat]
    /\ withdrawn \in [Clients -> SUBSET Nat]
    /\ answers \in SUBSET [asked : Headers, body : Headers]
    /\ dangling \in BOOLEAN

\* "responses can never race the registration": a reply to a client that nobody
\* has claimed or withdrawn finds its entry in pending_ (send_request registers
\* before it writes).
RegisteredBeforeReply ==
    \A k \in Clients : \A m \in inbox[k] :
        m.head.client = k =>
            m.head.seq \in PendingSeqs(k) \cup claimed[k] \cup withdrawn[k]

\* However many servers answer, dispatch() completes a request at most once:
\* the entry it moved out is no longer there for a second reply.
CompletedOnce == \A k \in Clients : PendingSeqs(k) \cap claimed[k] = {}

\* A promise pointer in pending_ points to the live promise of the call that
\* registered it, as long as no dead promise was written to: a call() that gives
\* up takes its entry out first.
PendingPointersLive ==
    ~dangling => \A k \in Clients : \A p \in pending[k] : p.kind = "sync" =>
        \E q \in promise[p.by] : q.seq = p.seq /\ ClientOf[p.by] = k

\* Every response a caller or a callback gets answers the request it was sent
\* for, and no other client's, as long as no dead promise was written to.
AnswersMatch == ~dangling => \A a \in answers : a.asked = a.body

\* "complete the matching futures/callbacks": the same without the proviso.
CallGetsOwnResponse == \A a \in answers : a.asked = a.body

\* A request that was registered is claimed by dispatch() or withdrawn, when no
\* message is lost and executors spin.
EveryRequestEnds ==
    \A k \in Clients : \A n \in 1..MaxSeq :
        n \in PendingSeqs(k) ~> n \in claimed[k] \cup withdrawn[k]
===============================================================================
