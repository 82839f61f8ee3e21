---------------------------- MODULE HttpSessions ----------------------------
(***************************************************************************)
(* CappedSessionManager of src/http_transport.rs: the session manager that *)
(* the streamable HTTP transport calls.  It wraps the session map of the   *)
(* MCP library (external), caps its size, keeps an activity record per     *)
(* session and runs a reaper that closes idle sessions.                    *)
(*                                                                         *)
(* Every await and every critical section of the activity lock is a step.  *)
(* The monotonic clock is abstracted: an activity record is stale once     *)
(* idle_timeout has gone by since last_seen, which may happen at any time. *)
(***************************************************************************)
EXTENDS Naturals, FiniteSets

CONSTANTS
    Ids,          \* session identifiers, drawn at random and never reused
    Reqs,         \* request handlers of the HTTP service
    MaxSessions,  \* server.http_max_sessions
    NoId, NoReq

ASSUME LimitIsNatural == MaxSessions \in Nat
ASSUME IdsFinite == IsFiniteSet(Ids) /\ NoId \notin Ids
ASSUME ReqsFinite == IsFiniteSet(Reqs) /\ NoReq \notin Reqs

VARIABLES
    sessions,    \* inner.sessions: the library's map of live sessions
    issued,      \* identifiers handed out so far
    activity,    \* the activity map
    createLock,  \* holder of create_lock
    req,         \* what each handler is doing, and for which session
    reaper,      \* position of reap_stale
    gone         \* sessions whose client has disappeared

vars == <<sessions, issued, activity, createLock, req, reaper, gone>>

SessionActivity == [tracked : BOOLEAN, stale : BOOLEAN, streams : Nat]
Untracked == [tracked |-> FALSE, stale |-> FALSE, streams |-> 0]
ActivityNow == [tracked |-> TRUE, stale |-> FALSE, streams |-> 0]

Idle == [pc |-> "idle", id |-> NoId]
At(pc, id) == [pc |-> pc, id |-> id]

Init ==
    /\ sessions = {} /\ issued = {} /\ gone = {}
    /\ activity = [i \in Ids |-> Untracked]
    /\ createLock = NoReq
    /\ req = [r \in Reqs |-> Idle]
    /\ reaper = [pc |-> "sleep", id |-> NoId, todo |-> {}]

----------------------------------------------------------------------------
(* create_session: the capacity is checked and used under create_lock.     *)

\* A fault: the handler does not wait for the lock.
LockIgnored(r) ==
    /\ req[r].pc = "idle"
    /\ createLock' = r
    /\ req' = [req EXCEPT ![r] = At("check", NoId)]
    /\ UNCHANGED <<sessions, issued, activity, reaper, gone>>

LockCreate(r) ==
    /\ req[r].pc = "idle" /\ createLock = NoReq
    /\ createLock' = r
    /\ req' = [req EXCEPT ![r] = At("check", NoId)]
    /\ UNCHANGED <<sessions, issued, activity, reaper, gone>>

EnsureCapacity(r) ==
    /\ req[r].pc = "check"
    /\ IF Cardinality(sessions) >= MaxSessions
       THEN req' = [req EXCEPT ![r] = Idle] /\ createLock' = NoReq
       ELSE req' = [req EXCEPT ![r] = At("create", NoId)] /\ UNCHANGED createLock
    /\ UNCHANGED <<sessions, issued, activity, reaper, gone>>

InnerCreate(r) ==
    /\ req[r].pc = "create"
    /\ \E i \in Ids \ issued :
          /\ sessions' = sessions \cup {i}
          /\ issued' = issued \cup {i}
          /\ req' = [req EXCEPT ![r] = At("insert", i)]
    /\ UNCHANGED <<activity, createLock, reaper, gone>>

InsertActivity(r) ==
    /\ req[r].pc = "insert"
    /\ activity' = [activity EXCEPT ![req[r].id] = ActivityNow]
    /\ createLock' = NoReq
    /\ req' = [req EXCEPT ![r] = Idle]
    /\ UNCHANGED <<sessions, issued, reaper, gone>>

\* The client hangs up while create_session awaits: its future is dropped and
\* the lock guard with it.
CancelCreate(r) ==
    /\ req[r].pc \in {"check", "create"}
    /\ createLock' = NoReq
    /\ req' = [req EXCEPT ![r] = Idle]
    /\ UNCHANGED <<sessions, issued, activity, reaper, gone>>

----------------------------------------------------------------------------
(* Requests on a session: the library is called first, and only then is    *)
(* the activity map updated.                                               *)

\* Clients learn an identifier from the answer to create_session.
Known == {i \in issued : \A r \in Reqs : req[r] # At("insert", i)}

\* initialize_session, has_session, accept_message: the inner call succeeded.
InnerAccept(r) ==
    /\ req[r].pc = "idle"
    /\ \E i \in (sessions \cap Known) \ gone : req' = [req EXCEPT ![r] = At("touch", i)]
    /\ UNCHANGED <<sessions, issued, activity, createLock, reaper, gone>>

Touched(i) == IF activity[i].tracked THEN [activity EXCEPT ![i].stale = FALSE] ELSE activity

Touch(r) ==
    /\ req[r].pc = "touch"
    /\ activity' = Touched(req[r].id)
    /\ req' = [req EXCEPT ![r] = Idle]
    /\ UNCHANGED <<sessions, issued, createLock, reaper, gone>>

\* create_stream, create_standalone_stream, resume: the inner call succeeded.
InnerStream(r) ==
    /\ req[r].pc = "idle"
    /\ \E i \in (sessions \cap Known) \ gone : req' = [req EXCEPT ![r] = At("track", i)]
    /\ UNCHANGED <<sessions, issued, activity, createLock, reaper, gone>>

\* A fault: the stream is not counted.
Uncounted(r) ==
    /\ req[r].pc = "track"
    /\ activity' = [activity EXCEPT ![req[r].id].tracked = TRUE, ![req[r].id].stale = FALSE]
    /\ req' = [req EXCEPT ![r] = At("stream", req[r].id)]
    /\ UNCHANGED <<sessions, issued, createLock, reaper, gone>>

\* A record that has been removed in the meantime is created anew.
TrackStream(r) ==
    /\ req[r].pc = "track"
    /\ activity' = [activity EXCEPT ![req[r].id] =
                       [tracked |-> TRUE, stale |-> FALSE, streams |-> @.streams + 1]]
    /\ req' = [req EXCEPT ![r] = At("stream", req[r].id)]
    /\ UNCHANGED <<sessions, issued, createLock, reaper, gone>>

\* poll_next delivers an item.
StreamItem(r) ==
    /\ req[r].pc = "stream" /\ req[r].id \in sessions \ gone
    /\ activity' = Touched(req[r].id)
    /\ UNCHANGED <<sessions, issued, createLock, req, reaper, gone>>

\* A fault: the last stream to end takes the record with it.
ForgetOnDrop(r) ==
    /\ req[r].pc = "stream"
    /\ activity' = [activity EXCEPT ![req[r].id] =
                       IF @.streams <= 1 THEN Untracked ELSE [@ EXCEPT !.streams = @ - 1]]
    /\ req' = [req EXCEPT ![r] = Idle]
    /\ UNCHANGED <<sessions, issued, createLock, reaper, gone>>

\* saturating_sub
Decremented(n) == IF n = 0 THEN 0 ELSE n - 1

DropStream(r) ==
    /\ req[r].pc = "stream"
    /\ activity' = [activity EXCEPT ![req[r].id] =
                       IF @.tracked
                       THEN [tracked |-> TRUE, stale |-> FALSE, streams |-> Decremented(@.streams)]
                       ELSE @]
    /\ req' = [req EXCEPT ![r] = Idle]
    /\ UNCHANGED <<sessions, issued, createLock, reaper, gone>>

\* close_session, called for a DELETE and when the library ends a session.
\* Closing the handle may fail after the session has left the map: the record
\* is then kept for the reaper.
InnerClose(r) ==
    /\ req[r].pc = "idle"
    /\ \E i \in Known :
          /\ sessions' = sessions \ {i}
          /\ \E pc \in IF i \in sessions THEN {"untrack", "idle"} ELSE {"untrack"} :
                req' = [req EXCEPT ![r] = IF pc = "idle" THEN Idle ELSE At(pc, i)]
    /\ UNCHANGED <<issued, activity, createLock, reaper, gone>>

RemoveActivity(r) ==
    /\ req[r].pc = "untrack"
    /\ activity' = [activity EXCEPT ![req[r].id] = Untracked]
    /\ req' = [req EXCEPT ![r] = Idle]
    /\ UNCHANGED <<sessions, issued, createLock, reaper, gone>>

----------------------------------------------------------------------------
(* spawn_reaper and reap_stale.                                            *)

Stale(i) == activity[i].tracked /\ activity[i].stale /\ activity[i].streams = 0

CollectStale ==
    /\ reaper.pc = "sleep"
    /\ reaper' = [reaper EXCEPT !.pc = "next", !.todo = {i \in Ids : Stale(i)}]
    /\ UNCHANGED <<sessions, issued, activity, createLock, req, gone>>

RecheckStale ==
    /\ reaper.pc = "next"
    /\ \E i \in reaper.todo :
          reaper' = [pc |-> IF Stale(i) THEN "close" ELSE "next",
                     id |-> IF Stale(i) THEN i ELSE NoId,
                     todo |-> reaper.todo \ {i}]
    /\ UNCHANGED <<sessions, issued, activity, createLock, req, gone>>

\* A fault: the session is forgotten without being closed.
ForgetSession ==
    /\ reaper.pc = "close"
    /\ reaper' = [reaper EXCEPT !.pc = "remove"]
    /\ UNCHANGED <<sessions, issued, activity, createLock, req, gone>>

\* An error of the library is only logged.
ReapClose ==
    /\ reaper.pc = "close"
    /\ sessions' = sessions \ {reaper.id}
    /\ reaper' = [reaper EXCEPT !.pc = "remove"]
    /\ UNCHANGED <<issued, activity, createLock, req, gone>>

ReapRemove ==
    /\ reaper.pc = "remove"
    /\ activity' = [activity EXCEPT ![reaper.id] = Untracked]
    /\ reaper' = [reaper EXCEPT !.pc = "next", !.id = NoId]
    /\ UNCHANGED <<sessions, issued, createLock, req, gone>>

ReapDone ==
    /\ reaper.pc = "next" /\ reaper.todo = {}
    /\ reaper' = [reaper EXCEPT !.pc = "sleep"]
    /\ UNCHANGED <<sessions, issued, activity, createLock, req, gone>>

\* The cancellation token of the server is only looked at while sleeping.
StopReaper ==
    /\ reaper.pc = "sleep"
    /\ reaper' = [reaper EXCEPT !.pc = "stopped"]
    /\ UNCHANGED <<sessions, issued, activity, createLock, req, gone>>

----------------------------------------------------------------------------
(* The environment: time passes, clients disappear.                        *)

GrowStale(i) ==
    /\ activity[i].tracked /\ ~activity[i].stale
    /\ activity' = [activity EXCEPT ![i].stale = TRUE]
    /\ UNCHANGED <<sessions, issued, createLock, req, reaper, gone>>

Abandon(i) ==
    /\ i \in issued \ gone
    /\ gone' = gone \cup {i}
    /\ UNCHANGED <<sessions, issued, activity, createLock, req, reaper>>

Creating(r) == LockCreate(r) \/ EnsureCapacity(r) \/ InnerCreate(r) \/ CancelCreate(r)
Calling(r) == InnerAccept(r) \/ InnerStream(r) \/ StreamItem(r) \/ InnerClose(r)
Finishing(r) == InsertActivity(r) \/ Touch(r) \/ TrackStream(r) \/ RemoveActivity(r)
Reaping == CollectStale \/ RecheckStale \/ ReapClose \/ ReapRemove \/ ReapDone

Next ==
    \/ \E r \in Reqs : Creating(r) \/ Calling(r) \/ Finishing(r) \/ DropStream(r)
    \/ Reaping \/ StopReaper
    \/ \E i \in Ids : GrowStale(i) \/ Abandon(i)

Spec == Init /\ [][Next]_vars

\* Handlers finish the critical section they are about to enter, a connection
\* whose client has gone is torn down, the reaper keeps looping, time passes.
FairSpec ==
    /\ Spec
    /\ \A r \in Reqs :
          /\ WF_vars(Finishing(r))
          /\ WF_vars(req[r].id \in gone /\ DropStream(r))
    /\ WF_vars(Reaping)
    /\ \A i \in Ids : WF_vars(GrowStale(i))

----------------------------------------------------------------------------
(* Properties.                                                             *)

TypeOK ==
    /\ sessions \subseteq issued /\ issued \subseteq Ids /\ gone \subseteq issued
    /\ activity \in [Ids -> SessionActivity]
    /\ createLock \in Reqs \cup {NoReq}
    /\ req \in [Reqs -> [pc : {"idle", "check", "create", "insert", "touch", "track", "stream", "untrack"},
                         id : Ids \cup {NoId}]]
    /\ reaper \in [pc : {"sleep", "next", "close", "remove", "stopped"},
                   id : Ids \cup {NoId}, todo : SUBSET Ids]

\* The server never retains more than http_max_sessions sessions, although the
\* capacity is read before the session is created: create_lock makes the two
\* one step as far as other creations go.
CapacityHeld == Cardinality(sessions) <= MaxSessions

\* Every live session has an activity record, or its creator is about to insert
\* one.  Only recorded sessions can be reaped, so a session without a record
\* would occupy a place of the cap until the process ends.
SessionsTracked ==
    \A i \in sessions :
        \/ activity[i].tracked
        \/ \E r \in Reqs : req[r] = At("insert", i)

\* The stream count of a live session is the number of streams that are open on
\* it, so one that lost its streams can become stale and one that has streams
\* cannot be collected.  Counts of closed sessions may be off.
Streaming(i) == {r \in Reqs : req[r] = At("stream", i)}
StreamsCounted == \A i \in sessions : activity[i].streams = Cardinality(Streaming(i))

\* docs/operations.md: idle sessions are reaped "while active SSE streams remain
\* protected".  The reaper re-checks the count before it awaits the lock of the
\* session map; a stream that opens in between is cut off.
ActiveStreamsProtected ==
    [][\A i \in sessions : reaper' # reaper /\ i \notin sessions' => Streaming(i) = {}]_vars

\* A session whose client has gone is eventually closed and forgotten, also when
\* it was abandoned in the middle of a request, with open streams, or when an
\* explicit close failed half-way; unless the server is shutting down.
AbandonedAreReaped ==
    \A i \in Ids :
        i \in gone ~> (i \notin sessions /\ ~activity[i].tracked) \/ reaper.pc = "stopped"
=============================================================================
