------------------------- MODULE HttpSessionsProofs -------------------------
(***************************************************************************)
(* Proofs about HttpSessions for any finite sets of sessions and handlers  *)
(* and any cap.                                                            *)
(***************************************************************************)
EXTENDS HttpSessions, FiniteSetTheorems, TLAPS

(* What the positions of the handlers and of the reaper say about the two  *)
(* maps: creators hold create_lock, one that passed the check has room, an *)
(* identifier not yet handed out is nobody's but its creator's, and who is *)
(* about to remove a record knows its session to be closed.                *)
LockHeld ==
    \A r \in Reqs : req[r].pc \in {"check", "create", "insert"} => createLock = r

RoomLeft ==
    \A r \in Reqs : req[r].pc = "create" => Cardinality(sessions) + 1 <= MaxSessions

IdsIssued ==
    /\ \A r \in Reqs :
          /\ req[r].pc \in {"insert", "touch", "track", "stream", "untrack"} => req[r].id \in issued
          /\ req[r].pc \in {"idle", "check", "create"} => req[r].id = NoId
    /\ \A i \in Ids : i \notin issued => ~activity[i].tracked /\ activity[i].streams = 0
    /\ reaper.todo \subseteq issued
    /\ reaper.pc \in {"close", "remove"} => reaper.id \in issued

NewIdsPrivate ==
    \A r, q \in Reqs : req[r].pc = "insert" /\ q # r => req[q].id # req[r].id

ClosedFirst ==
    /\ \A r \in Reqs : req[r].pc = "untrack" => req[r].id \notin sessions
    /\ reaper.pc = "remove" => reaper.id \notin sessions

IInv ==
    /\ TypeOK /\ LockHeld /\ RoomLeft /\ IdsIssued /\ NewIdsPrivate /\ ClosedFirst
    /\ CapacityHeld /\ SessionsTracked /\ StreamsCounted

(* A handler position as a record.                                         *)
LEMMA Positions ==
    ASSUME NEW p, NEW i
    PROVE  At(p, i).pc = p /\ At(p, i).id = i /\ Idle.pc = "idle" /\ Idle.id = NoId
BY DEF At, Idle

(* The sets that are counted are finite.                                   *)
LEMMA Finiteness ==
    ASSUME TypeOK
    PROVE  /\ IsFiniteSet(sessions) /\ Cardinality(sessions) \in Nat
           /\ \A i \in Ids : IsFiniteSet(Streaming(i)) /\ Cardinality(Streaming(i)) \in Nat
<1>1. IsFiniteSet(sessions)
  BY IdsFinite, FS_Subset DEF TypeOK
<1>2. \A i \in Ids : IsFiniteSet(Streaming(i))
  BY ReqsFinite, FS_Subset DEF Streaming
<1> QED BY <1>1, <1>2, FS_CardinalityType

(* The invariant holds of the empty session manager.                       *)
LEMMA InitIInv == Init => IInv
<1> SUFFICES ASSUME Init PROVE IInv
  OBVIOUS
<1>1. Cardinality(sessions) = 0
  BY FS_EmptySet DEF Init
<1>2. CapacityHeld
  BY <1>1, LimitIsNatural DEF CapacityHeld
<1> QED
  BY <1>2, ReqsFinite, IdsFinite DEF Init, IInv, TypeOK, LockHeld, RoomLeft, IdsIssued,
        NewIdsPrivate, ClosedFirst,
        SessionsTracked, StreamsCounted, Idle, Untracked, SessionActivity

(* The placeholder is no identifier.                                       *)
LEMMA NoIdFact == NoId \notin Ids
BY IdsFinite

(* Replacing a record, or its stale flag, by a well-typed one.             *)
LEMMA StaleTyped ==
    ASSUME activity \in [Ids -> SessionActivity], NEW i \in Ids, NEW b \in BOOLEAN
    PROVE  [activity EXCEPT ![i].stale = b] \in [Ids -> SessionActivity]
<1>1. activity[i] \in SessionActivity
  OBVIOUS
<1>2. [activity[i] EXCEPT !.stale = b] \in SessionActivity
  BY <1>1 DEF SessionActivity
<1> QED BY <1>2

(* The record a dropped stream leaves behind.                              *)
LEMMA DroppedTyped ==
    ASSUME NEW a \in SessionActivity
    PROVE  [tracked |-> TRUE, stale |-> FALSE, streams |-> Decremented(a.streams)] \in SessionActivity
BY DEF SessionActivity, Decremented

(* Every step keeps the types.                                             *)
LEMMA TypesKept == IInv /\ [Next]_vars => TypeOK'
<1> SUFFICES ASSUME IInv, [Next]_vars PROVE TypeOK'
  OBVIOUS
<1>1. ASSUME NEW r \in Reqs, LockCreate(r) PROVE TypeOK'
  BY <1>1, Positions, NoIdFact DEF IInv, TypeOK, At, IdsIssued, LockCreate
<1>2. ASSUME NEW r \in Reqs, EnsureCapacity(r) PROVE TypeOK'
  BY <1>2, Positions, NoIdFact DEF IInv, TypeOK, At, Idle, IdsIssued, EnsureCapacity
<1>3. ASSUME NEW r \in Reqs, InnerCreate(r) PROVE TypeOK'
  BY <1>3, Positions, NoIdFact DEF IInv, TypeOK, At, IdsIssued, InnerCreate
<1>4. ASSUME NEW r \in Reqs, CancelCreate(r) PROVE TypeOK'
  BY <1>4, Positions, NoIdFact DEF IInv, TypeOK, Idle, IdsIssued, CancelCreate
<1>5. ASSUME NEW r \in Reqs, InnerAccept(r) PROVE TypeOK'
  BY <1>5, Positions, NoIdFact DEF IInv, TypeOK, At, Known, IdsIssued, InnerAccept
<1>6. ASSUME NEW r \in Reqs, InnerStream(r) PROVE TypeOK'
  BY <1>6, Positions, NoIdFact DEF IInv, TypeOK, At, Known, IdsIssued, InnerStream
<1>7. ASSUME NEW r \in Reqs, StreamItem(r) PROVE TypeOK'
<2>1. req[r].id \in Ids
  BY <1>7, Positions, NoIdFact DEF IInv, TypeOK, IdsIssued, StreamItem
<2>2. activity' \in [Ids -> SessionActivity]
  BY <1>7, <2>1, StaleTyped DEF IInv, TypeOK, Touched, StreamItem
<2> QED
  BY <1>7, <2>2 DEF IInv, TypeOK, StreamItem
<1>8. ASSUME NEW r \in Reqs, InnerClose(r) PROVE TypeOK'
  BY <1>8, Positions, NoIdFact DEF IInv, TypeOK, At, Idle, Known, IdsIssued, InnerClose
<1>9. ASSUME NEW r \in Reqs, InsertActivity(r) PROVE TypeOK'
  BY <1>9, Positions, NoIdFact DEF IInv, TypeOK, SessionActivity, ActivityNow, Idle,
        IdsIssued, InsertActivity
<1>10. ASSUME NEW r \in Reqs, Touch(r) PROVE TypeOK'
<2>1. req[r].id \in Ids
  BY <1>10, Positions, NoIdFact DEF IInv, TypeOK, IdsIssued, Touch
<2>2. activity' \in [Ids -> SessionActivity]
  BY <1>10, <2>1, StaleTyped DEF IInv, TypeOK, Touched, Touch
<2> QED
  BY <1>10, <2>2 DEF IInv, TypeOK, Idle, Touch
<1>11. ASSUME NEW r \in Reqs, TrackStream(r) PROVE TypeOK'
  BY <1>11, Positions, NoIdFact DEF IInv, TypeOK, SessionActivity, At, IdsIssued,
        TrackStream
<1>12. ASSUME NEW r \in Reqs, RemoveActivity(r) PROVE TypeOK'
  BY <1>12, Positions, NoIdFact DEF IInv, TypeOK, SessionActivity, Untracked, Idle,
        IdsIssued, RemoveActivity
<1>13. ASSUME NEW r \in Reqs, DropStream(r) PROVE TypeOK'
<2>1. req[r].id \in Ids /\ activity[req[r].id] \in SessionActivity
  BY <1>13, Positions, NoIdFact DEF IInv, TypeOK, IdsIssued, DropStream
<2>2. activity' \in [Ids -> SessionActivity]
  BY <1>13, <2>1, DroppedTyped DEF IInv, TypeOK, DropStream
<2> QED
  BY <1>13, <2>2 DEF IInv, TypeOK, Idle, DropStream
<1>14. ASSUME CollectStale PROVE TypeOK'
  BY <1>14, Positions, NoIdFact DEF IInv, TypeOK, Stale, IdsIssued, CollectStale
<1>15. ASSUME RecheckStale PROVE TypeOK'
  BY <1>15, Positions, NoIdFact DEF IInv, TypeOK, Stale, IdsIssued, RecheckStale
<1>16. ASSUME ReapClose PROVE TypeOK'
  BY <1>16, Positions, NoIdFact DEF IInv, TypeOK, IdsIssued, ReapClose
<1>17. ASSUME ReapRemove PROVE TypeOK'
  BY <1>17, Positions, NoIdFact DEF IInv, TypeOK, SessionActivity, Untracked,
        IdsIssued, ReapRemove
<1>18. ASSUME ReapDone PROVE TypeOK'
  BY <1>18, Positions, NoIdFact DEF IInv, TypeOK, IdsIssued, ReapDone
<1>19. ASSUME StopReaper PROVE TypeOK'
  BY <1>19, Positions, NoIdFact DEF IInv, TypeOK, IdsIssued, StopReaper
<1>20. ASSUME NEW i \in Ids, GrowStale(i) PROVE TypeOK'
<2>1. activity' \in [Ids -> SessionActivity]
  BY <1>20, StaleTyped DEF IInv, TypeOK, GrowStale
<2> QED
  BY <1>20, <2>1 DEF IInv, TypeOK, GrowStale
<1>21. ASSUME NEW i \in Ids, Abandon(i) PROVE TypeOK'
  BY <1>21, Positions, NoIdFact DEF IInv, TypeOK, IdsIssued, Abandon
<1>22. ASSUME UNCHANGED vars PROVE TypeOK'
  BY <1>22, Positions DEF IInv, TypeOK, IdsIssued, vars
<1> QED
  BY <1>1, <1>2, <1>3, <1>4, <1>5, <1>6, <1>7, <1>8, <1>9, <1>10, <1>11, <1>12, <1>13,
        <1>14, <1>15, <1>16, <1>17, <1>18, <1>19, <1>20, <1>21, <1>22
        DEF Next, Creating, Calling, Finishing, Reaping

(* Only the holder of create_lock creates.                                 *)
LEMMA LockKept == IInv /\ [Next]_vars => LockHeld'
<1> SUFFICES ASSUME IInv, [Next]_vars PROVE LockHeld'
  OBVIOUS
<1>1. ASSUME NEW r \in Reqs, LockCreate(r) PROVE LockHeld'
  BY <1>1, ReqsFinite, Positions, NoIdFact DEF IInv, TypeOK, LockHeld, At, LockCreate
<1>2. ASSUME NEW r \in Reqs, EnsureCapacity(r) PROVE LockHeld'
  BY <1>2, ReqsFinite, Positions, NoIdFact
        DEF IInv, TypeOK, LockHeld, At, Idle, EnsureCapacity
<1>3. ASSUME NEW r \in Reqs, InnerCreate(r) PROVE LockHeld'
  BY <1>3, ReqsFinite, Positions, NoIdFact DEF IInv, TypeOK, LockHeld, At, InnerCreate
<1>4. ASSUME NEW r \in Reqs, CancelCreate(r) PROVE LockHeld'
  BY <1>4, ReqsFinite, Positions, NoIdFact DEF IInv, TypeOK, LockHeld, Idle, CancelCreate
<1>5. ASSUME NEW r \in Reqs, InnerAccept(r) PROVE LockHeld'
  BY <1>5, ReqsFinite, Positions, NoIdFact DEF IInv, TypeOK, LockHeld, At, InnerAccept
<1>6. ASSUME NEW r \in Reqs, InnerStream(r) PROVE LockHeld'
  BY <1>6, ReqsFinite, Positions, NoIdFact DEF IInv, TypeOK, LockHeld, At, InnerStream
<1>7. ASSUME NEW r \in Reqs, StreamItem(r) PROVE LockHeld'
  BY <1>7, ReqsFinite, Positions, NoIdFact DEF IInv, TypeOK, LockHeld, StreamItem
<1>8. ASSUME NEW r \in Reqs, InnerClose(r) PROVE LockHeld'
  BY <1>8, ReqsFinite, Positions, NoIdFact
        DEF IInv, TypeOK, LockHeld, At, Idle, InnerClose
<1>9. ASSUME NEW r \in Reqs, InsertActivity(r) PROVE LockHeld'
  BY <1>9, ReqsFinite, Positions, NoIdFact
        DEF IInv, TypeOK, LockHeld, Idle, InsertActivity
<1>10. ASSUME NEW r \in Reqs, Touch(r) PROVE LockHeld'
  BY <1>10, ReqsFinite, Positions, NoIdFact DEF IInv, TypeOK, LockHeld, Idle, Touch
<1>11. ASSUME NEW r \in Reqs, TrackStream(r) PROVE LockHeld'
  BY <1>11, ReqsFinite, Positions, NoIdFact DEF IInv, TypeOK, LockHeld, At, TrackStream
<1>12. ASSUME NEW r \in Reqs, RemoveActivity(r) PROVE LockHeld'
  BY <1>12, ReqsFinite, Positions, NoIdFact
        DEF IInv, TypeOK, LockHeld, Idle, RemoveActivity
<1>13. ASSUME NEW r \in Reqs, DropStream(r) PROVE LockHeld'
  BY <1>13, ReqsFinite, Positions, NoIdFact DEF IInv, TypeOK, LockHeld, Idle, DropStream
<1>14. ASSUME CollectStale PROVE LockHeld'
  BY <1>14, ReqsFinite, Positions, NoIdFact DEF IInv, TypeOK, LockHeld, CollectStale
<1>15. ASSUME RecheckStale PROVE LockHeld'
  BY <1>15, ReqsFinite, Positions, NoIdFact DEF IInv, TypeOK, LockHeld, RecheckStale
<1>16. ASSUME ReapClose PROVE LockHeld'
  BY <1>16, ReqsFinite, Positions, NoIdFact DEF IInv, TypeOK, LockHeld, ReapClose
<1>17. ASSUME ReapRemove PROVE LockHeld'
  BY <1>17, ReqsFinite, Positions, NoIdFact DEF IInv, TypeOK, LockHeld, ReapRemove
<1>18. ASSUME ReapDone PROVE LockHeld'
  BY <1>18, ReqsFinite, Positions, NoIdFact DEF IInv, TypeOK, LockHeld, ReapDone
<1>19. ASSUME StopReaper PROVE LockHeld'
  BY <1>19, ReqsFinite, Positions, NoIdFact DEF IInv, TypeOK, LockHeld, StopReaper
<1>20. ASSUME NEW i \in Ids, GrowStale(i) PROVE LockHeld'
  BY <1>20, ReqsFinite, Positions, NoIdFact DEF IInv, TypeOK, LockHeld, GrowStale
<1>21. ASSUME NEW i \in Ids, Abandon(i) PROVE LockHeld'
  BY <1>21, ReqsFinite, Positions, NoIdFact DEF IInv, TypeOK, LockHeld, Abandon
<1>22. ASSUME UNCHANGED vars PROVE LockHeld'
  BY <1>22, ReqsFinite, Positions DEF IInv, TypeOK, LockHeld, vars
<1> QED
  BY <1>1, <1>2, <1>3, <1>4, <1>5, <1>6, <1>7, <1>8, <1>9, <1>10, <1>11, <1>12, <1>13,
        <1>14, <1>15, <1>16, <1>17, <1>18, <1>19, <1>20, <1>21, <1>22
        DEF Next, Creating, Calling, Finishing, Reaping

(* Identifiers in use have been issued.                                    *)
LEMMA IssuedKept == IInv /\ [Next]_vars => IdsIssued'
<1> SUFFICES ASSUME IInv, [Next]_vars PROVE IdsIssued'
  OBVIOUS
<1>1. ASSUME NEW r \in Reqs, LockCreate(r) PROVE IdsIssued'
  BY <1>1, Positions, NoIdFact DEF IInv, TypeOK, IdsIssued, At, LockCreate
<1>2. ASSUME NEW r \in Reqs, EnsureCapacity(r) PROVE IdsIssued'
  BY <1>2, Positions, NoIdFact DEF IInv, TypeOK, IdsIssued, At, Idle, EnsureCapacity
<1>3. ASSUME NEW r \in Reqs, InnerCreate(r) PROVE IdsIssued'
  BY <1>3, Positions, NoIdFact DEF IInv, TypeOK, IdsIssued, At, InnerCreate
<1>4. ASSUME NEW r \in Reqs, CancelCreate(r) PROVE IdsIssued'
  BY <1>4, Positions, NoIdFact DEF IInv, TypeOK, IdsIssued, Idle, CancelCreate
<1>5. ASSUME NEW r \in Reqs, InnerAccept(r) PROVE IdsIssued'
  BY <1>5, Positions, NoIdFact DEF IInv, TypeOK, IdsIssued, At, Known, InnerAccept
<1>6. ASSUME NEW r \in Reqs, InnerStream(r) PROVE IdsIssued'
  BY <1>6, Positions, NoIdFact DEF IInv, TypeOK, IdsIssued, At, Known, InnerStream
<1>7. ASSUME NEW r \in Reqs, StreamItem(r) PROVE IdsIssued'
  BY <1>7, Positions, NoIdFact DEF IInv, TypeOK, IdsIssued, SessionActivity, Touched,
        StreamItem
<1>8. ASSUME NEW r \in Reqs, InnerClose(r) PROVE IdsIssued'
  BY <1>8, Positions, NoIdFact DEF IInv, TypeOK, IdsIssued, At, Idle, Known, InnerClose
<1>9. ASSUME NEW r \in Reqs, InsertActivity(r) PROVE IdsIssued'
  BY <1>9, Positions, NoIdFact DEF IInv, TypeOK, IdsIssued, Idle, SessionActivity,
        ActivityNow, InsertActivity
<1>10. ASSUME NEW r \in Reqs, Touch(r) PROVE IdsIssued'
  BY <1>10, Positions, NoIdFact DEF IInv, TypeOK, IdsIssued, Idle, SessionActivity,
        Touched, Touch
<1>11. ASSUME NEW r \in Reqs, TrackStream(r) PROVE IdsIssued'
  BY <1>11, Positions, NoIdFact DEF IInv, TypeOK, IdsIssued, At, SessionActivity,
        TrackStream
<1>12. ASSUME NEW r \in Reqs, RemoveActivity(r) PROVE IdsIssued'
  BY <1>12, Positions, NoIdFact DEF IInv, TypeOK, IdsIssued, Idle, SessionActivity,
        Untracked, RemoveActivity
<1>13. ASSUME NEW r \in Reqs, DropStream(r) PROVE IdsIssued'
  BY <1>13, Positions, NoIdFact DEF IInv, TypeOK, IdsIssued, Idle, SessionActivity,
        Decremented, DropStream
<1>14. ASSUME CollectStale PROVE IdsIssued'
  BY <1>14, Positions, NoIdFact DEF IInv, TypeOK, IdsIssued, Stale, CollectStale
<1>15. ASSUME RecheckStale PROVE IdsIssued'
  BY <1>15, Positions, NoIdFact DEF IInv, TypeOK, IdsIssued, Stale, RecheckStale
<1>16. ASSUME ReapClose PROVE IdsIssued'
  BY <1>16, Positions, NoIdFact DEF IInv, TypeOK, IdsIssued, ReapClose
<1>17. ASSUME ReapRemove PROVE IdsIssued'
  BY <1>17, Positions, NoIdFact DEF IInv, TypeOK, IdsIssued, SessionActivity,
        Untracked, ReapRemove
<1>18. ASSUME ReapDone PROVE IdsIssued'
  BY <1>18, Positions, NoIdFact DEF IInv, TypeOK, IdsIssued, ReapDone
<1>19. ASSUME StopReaper PROVE IdsIssued'
  BY <1>19, Positions, NoIdFact DEF IInv, TypeOK, IdsIssued, StopReaper
<1>20. ASSUME NEW i \in Ids, GrowStale(i) PROVE IdsIssued'
  BY <1>20, Positions, NoIdFact DEF IInv, TypeOK, IdsIssued, SessionActivity, GrowStale
<1>21. ASSUME NEW i \in Ids, Abandon(i) PROVE IdsIssued'
  BY <1>21, Positions, NoIdFact DEF IInv, TypeOK, IdsIssued, Abandon
<1>22. ASSUME UNCHANGED vars PROVE IdsIssued'
  BY <1>22, Positions DEF IInv, TypeOK, IdsIssued, vars
<1> QED
  BY <1>1, <1>2, <1>3, <1>4, <1>5, <1>6, <1>7, <1>8, <1>9, <1>10, <1>11, <1>12, <1>13,
        <1>14, <1>15, <1>16, <1>17, <1>18, <1>19, <1>20, <1>21, <1>22
        DEF Next, Creating, Calling, Finishing, Reaping

(* A new identifier is known to its creator only.                          *)
LEMMA PrivateKept == IInv /\ [Next]_vars => NewIdsPrivate'
<1> SUFFICES ASSUME IInv, [Next]_vars PROVE NewIdsPrivate'
  OBVIOUS
<1>1. ASSUME NEW r \in Reqs, LockCreate(r) PROVE NewIdsPrivate'
  BY <1>1, Positions, NoIdFact DEF IInv, TypeOK, IdsIssued, LockHeld, NewIdsPrivate,
        At, LockCreate
<1>2. ASSUME NEW r \in Reqs, EnsureCapacity(r) PROVE NewIdsPrivate'
  BY <1>2, Positions, NoIdFact DEF IInv, TypeOK, IdsIssued, LockHeld, NewIdsPrivate,
        At, Idle, EnsureCapacity
<1>3. ASSUME NEW r \in Reqs, InnerCreate(r) PROVE NewIdsPrivate'
  BY <1>3, Positions, NoIdFact DEF IInv, TypeOK, IdsIssued, LockHeld, NewIdsPrivate,
        At, InnerCreate
<1>4. ASSUME NEW r \in Reqs, CancelCreate(r) PROVE NewIdsPrivate'
  BY <1>4, Positions, NoIdFact DEF IInv, TypeOK, IdsIssued, LockHeld, NewIdsPrivate,
        Idle, CancelCreate
<1>5. ASSUME NEW r \in Reqs, InnerAccept(r) PROVE NewIdsPrivate'
  BY <1>5, Positions, NoIdFact DEF IInv, TypeOK, IdsIssued, LockHeld, NewIdsPrivate,
        At, Known, InnerAccept
<1>6. ASSUME NEW r \in Reqs, InnerStream(r) PROVE NewIdsPrivate'
  BY <1>6, Positions, NoIdFact DEF IInv, TypeOK, IdsIssued, LockHeld, NewIdsPrivate,
        At, Known, InnerStream
<1>7. ASSUME NEW r \in Reqs, StreamItem(r) PROVE NewIdsPrivate'
  BY <1>7, Positions, NoIdFact DEF IInv, TypeOK, IdsIssued, LockHeld, NewIdsPrivate,
        StreamItem
<1>8. ASSUME NEW r \in Reqs, InnerClose(r) PROVE NewIdsPrivate'
  BY <1>8, Positions, NoIdFact DEF IInv, TypeOK, IdsIssued, LockHeld, NewIdsPrivate,
        At, Idle, Known, InnerClose
<1>9. ASSUME NEW r \in Reqs, InsertActivity(r) PROVE NewIdsPrivate'
  BY <1>9, Positions, NoIdFact DEF IInv, TypeOK, IdsIssued, LockHeld, NewIdsPrivate,
        Idle, InsertActivity
<1>10. ASSUME NEW r \in Reqs, Touch(r) PROVE NewIdsPrivate'
  BY <1>10, Positions, NoIdFact DEF IInv, TypeOK, IdsIssued, LockHeld, NewIdsPrivate,
        Idle, Touch
<1>11. ASSUME NEW r \in Reqs, TrackStream(r) PROVE NewIdsPrivate'
  BY <1>11, Positions, NoIdFact DEF IInv, TypeOK, IdsIssued, LockHeld, NewIdsPrivate,
        At, TrackStream
<1>12. ASSUME NEW r \in Reqs, RemoveActivity(r) PROVE NewIdsPrivate'
  BY <1>12, Positions, NoIdFact DEF IInv, TypeOK, IdsIssued, LockHeld, NewIdsPrivate,
        Idle, RemoveActivity
<1>13. ASSUME NEW r \in Reqs, DropStream(r) PROVE NewIdsPrivate'
  BY <1>13, Positions, NoIdFact DEF IInv, TypeOK, IdsIssued, LockHeld, NewIdsPrivate,
        Idle, DropStream
<1>14. ASSUME CollectStale PROVE NewIdsPrivate'
  BY <1>14, Positions, NoIdFact DEF IInv, TypeOK, IdsIssued, LockHeld, NewIdsPrivate,
        CollectStale
<1>15. ASSUME RecheckStale PROVE NewIdsPrivate'
  BY <1>15, Positions, NoIdFact DEF IInv, TypeOK, IdsIssued, LockHeld, NewIdsPrivate,
        RecheckStale
<1>16. ASSUME ReapClose PROVE NewIdsPrivate'
  BY <1>16, Positions, NoIdFact DEF IInv, TypeOK, IdsIssued, LockHeld, NewIdsPrivate,
        ReapClose
<1>17. ASSUME ReapRemove PROVE NewIdsPrivate'
  BY <1>17, Positions, NoIdFact DEF IInv, TypeOK, IdsIssued, LockHeld, NewIdsPrivate,
        ReapRemove
<1>18. ASSUME ReapDone PROVE NewIdsPrivate'
  BY <1>18, Positions, NoIdFact DEF IInv, TypeOK, IdsIssued, LockHeld, NewIdsPrivate,
        ReapDone
<1>19. ASSUME StopReaper PROVE NewIdsPrivate'
  BY <1>19, Positions, NoIdFact DEF IInv, TypeOK, IdsIssued, LockHeld, NewIdsPrivate,
        StopReaper
<1>20. ASSUME NEW i \in Ids, GrowStale(i) PROVE NewIdsPrivate'
  BY <1>20, Positions, NoIdFact DEF IInv, TypeOK, IdsIssued, LockHeld, NewIdsPrivate,
        GrowStale
<1>21. ASSUME NEW i \in Ids, Abandon(i) PROVE NewIdsPrivate'
  BY <1>21, Positions, NoIdFact DEF IInv, TypeOK, IdsIssued, LockHeld, NewIdsPrivate,
        Abandon
<1>22. ASSUME UNCHANGED vars PROVE NewIdsPrivate'
  BY <1>22, Positions DEF IInv, TypeOK, IdsIssued, LockHeld, NewIdsPrivate, vars
<1> QED
  BY <1>1, <1>2, <1>3, <1>4, <1>5, <1>6, <1>7, <1>8, <1>9, <1>10, <1>11, <1>12, <1>13,
        <1>14, <1>15, <1>16, <1>17, <1>18, <1>19, <1>20, <1>21, <1>22
        DEF Next, Creating, Calling, Finishing, Reaping

(* A record is removed after its session.                                  *)
LEMMA ClosedKept == IInv /\ [Next]_vars => ClosedFirst'
<1> SUFFICES ASSUME IInv, [Next]_vars PROVE ClosedFirst'
  OBVIOUS
<1>1. ASSUME NEW r \in Reqs, LockCreate(r) PROVE ClosedFirst'
  BY <1>1, Positions, NoIdFact DEF IInv, TypeOK, IdsIssued, ClosedFirst, At, LockCreate
<1>2. ASSUME NEW r \in Reqs, EnsureCapacity(r) PROVE ClosedFirst'
  BY <1>2, Positions, NoIdFact DEF IInv, TypeOK, IdsIssued, ClosedFirst, At, Idle,
        EnsureCapacity
<1>3. ASSUME NEW r \in Reqs, InnerCreate(r) PROVE ClosedFirst'
  BY <1>3, Positions, NoIdFact DEF IInv, TypeOK, IdsIssued, ClosedFirst, At, InnerCreate
<1>4. ASSUME NEW r \in Reqs, CancelCreate(r) PROVE ClosedFirst'
  BY <1>4, Positions, NoIdFact DEF IInv, TypeOK, IdsIssued, ClosedFirst, Idle,
        CancelCreate
<1>5. ASSUME NEW r \in Reqs, InnerAccept(r) PROVE ClosedFirst'
  BY <1>5, Positions, NoIdFact DEF IInv, TypeOK, IdsIssued, ClosedFirst, At, Known,
        InnerAccept
<1>6. ASSUME NEW r \in Reqs, InnerStream(r) PROVE ClosedFirst'
  BY <1>6, Positions, NoIdFact DEF IInv, TypeOK, IdsIssued, ClosedFirst, At, Known,
        InnerStream
<1>7. ASSUME NEW r \in Reqs, StreamItem(r) PROVE ClosedFirst'
  BY <1>7, Positions, NoIdFact DEF IInv, TypeOK, IdsIssued, ClosedFirst, StreamItem
<1>8. ASSUME NEW r \in Reqs, InnerClose(r) PROVE ClosedFirst'
  BY <1>8, Positions, NoIdFact DEF IInv, TypeOK, IdsIssued, ClosedFirst, At, Idle,
        Known, InnerClose
<1>9. ASSUME NEW r \in Reqs, InsertActivity(r) PROVE ClosedFirst'
  BY <1>9, Positions, NoIdFact DEF IInv, TypeOK, IdsIssued, ClosedFirst, Idle,
        InsertActivity
<1>10. ASSUME NEW r \in Reqs, Touch(r) PROVE ClosedFirst'
  BY <1>10, Positions, NoIdFact DEF IInv, TypeOK, IdsIssued, ClosedFirst, Idle, Touch
<1>11. ASSUME NEW r \in Reqs, TrackStream(r) PROVE ClosedFirst'
  BY <1>11, Positions, NoIdFact DEF IInv, TypeOK, IdsIssued, ClosedFirst, At, TrackStream
<1>12. ASSUME NEW r \in Reqs, RemoveActivity(r) PROVE ClosedFirst'
  BY <1>12, Positions, NoIdFact DEF IInv, TypeOK, IdsIssued, ClosedFirst, Idle,
        RemoveActivity
<1>13. ASSUME NEW r \in Reqs, DropStream(r) PROVE ClosedFirst'
  BY <1>13, Positions, NoIdFact DEF IInv, TypeOK, IdsIssued, ClosedFirst, Idle, DropStream
<1>14. ASSUME CollectStale PROVE ClosedFirst'
  BY <1>14, Positions, NoIdFact DEF IInv, TypeOK, IdsIssued, ClosedFirst, Stale,
        CollectStale
<1>15. ASSUME RecheckStale PROVE ClosedFirst'
  BY <1>15, Positions, NoIdFact DEF IInv, TypeOK, IdsIssued, ClosedFirst, Stale,
        RecheckStale
<1>16. ASSUME ReapClose PROVE ClosedFirst'
  BY <1>16, Positions, NoIdFact DEF IInv, TypeOK, IdsIssued, ClosedFirst, ReapClose
<1>17. ASSUME ReapRemove PROVE ClosedFirst'
  BY <1>17, Positions, NoIdFact DEF IInv, TypeOK, IdsIssued, ClosedFirst, ReapRemove
<1>18. ASSUME ReapDone PROVE ClosedFirst'
  BY <1>18, Positions, NoIdFact DEF IInv, TypeOK, IdsIssued, ClosedFirst, ReapDone
<1>19. ASSUME StopReaper PROVE ClosedFirst'
  BY <1>19, Positions, NoIdFact DEF IInv, TypeOK, IdsIssued, ClosedFirst, StopReaper
<1>20. ASSUME NEW i \in Ids, GrowStale(i) PROVE ClosedFirst'
  BY <1>20, Positions, NoIdFact DEF IInv, TypeOK, IdsIssued, ClosedFirst, GrowStale
<1>21. ASSUME NEW i \in Ids, Abandon(i) PROVE ClosedFirst'
  BY <1>21, Positions, NoIdFact DEF IInv, TypeOK, IdsIssued, ClosedFirst, Abandon
<1>22. ASSUME UNCHANGED vars PROVE ClosedFirst'
  BY <1>22, Positions DEF IInv, TypeOK, IdsIssued, ClosedFirst, vars
<1> QED
  BY <1>1, <1>2, <1>3, <1>4, <1>5, <1>6, <1>7, <1>8, <1>9, <1>10, <1>11, <1>12, <1>13,
        <1>14, <1>15, <1>16, <1>17, <1>18, <1>19, <1>20, <1>21, <1>22
        DEF Next, Creating, Calling, Finishing, Reaping

(* No live session loses its record.                                       *)
LEMMA TrackedKept == IInv /\ [Next]_vars => SessionsTracked'
<1> SUFFICES ASSUME IInv, [Next]_vars PROVE SessionsTracked'
  OBVIOUS
<1>1. ASSUME NEW r \in Reqs, LockCreate(r) PROVE SessionsTracked'
  BY <1>1, Positions, NoIdFact DEF IInv, TypeOK, IdsIssued, ClosedFirst, NewIdsPrivate,
        SessionsTracked, At, LockCreate
<1>2. ASSUME NEW r \in Reqs, EnsureCapacity(r) PROVE SessionsTracked'
  BY <1>2, Positions, NoIdFact DEF IInv, TypeOK, IdsIssued, ClosedFirst, NewIdsPrivate,
        SessionsTracked, At, Idle, EnsureCapacity
<1>3. ASSUME NEW r \in Reqs, InnerCreate(r) PROVE SessionsTracked'
  BY <1>3, Positions, NoIdFact DEF IInv, TypeOK, IdsIssued, ClosedFirst, NewIdsPrivate,
        SessionsTracked, At, InnerCreate
<1>4. ASSUME NEW r \in Reqs, CancelCreate(r) PROVE SessionsTracked'
  BY <1>4, Positions, NoIdFact DEF IInv, TypeOK, IdsIssued, ClosedFirst, NewIdsPrivate,
        SessionsTracked, At, Idle, CancelCreate
<1>5. ASSUME NEW r \in Reqs, InnerAccept(r) PROVE SessionsTracked'
  BY <1>5, Positions, NoIdFact DEF IInv, TypeOK, IdsIssued, ClosedFirst, NewIdsPrivate,
        SessionsTracked, At, Known, InnerAccept
<1>6. ASSUME NEW r \in Reqs, InnerStream(r) PROVE SessionsTracked'
  BY <1>6, Positions, NoIdFact DEF IInv, TypeOK, IdsIssued, ClosedFirst, NewIdsPrivate,
        SessionsTracked, At, Known, InnerStream
<1>7. ASSUME NEW r \in Reqs, StreamItem(r) PROVE SessionsTracked'
  BY <1>7, Positions, NoIdFact DEF IInv, TypeOK, IdsIssued, ClosedFirst, NewIdsPrivate,
        SessionsTracked, At, Touched, SessionActivity, StreamItem
<1>8. ASSUME NEW r \in Reqs, InnerClose(r) PROVE SessionsTracked'
  BY <1>8, Positions, NoIdFact DEF IInv, TypeOK, IdsIssued, ClosedFirst, NewIdsPrivate,
        SessionsTracked, At, Idle, Known, InnerClose
<1>9. ASSUME NEW r \in Reqs, InsertActivity(r) PROVE SessionsTracked'
  BY <1>9, Positions, NoIdFact DEF IInv, TypeOK, IdsIssued, ClosedFirst, NewIdsPrivate,
        SessionsTracked, At, Idle, ActivityNow, SessionActivity, InsertActivity
<1>10. ASSUME NEW r \in Reqs, Touch(r) PROVE SessionsTracked'
  BY <1>10, Positions, NoIdFact DEF IInv, TypeOK, IdsIssued, ClosedFirst,
        NewIdsPrivate, SessionsTracked, At, Idle, Touched, SessionActivity, Touch
<1>11. ASSUME NEW r \in Reqs, TrackStream(r) PROVE SessionsTracked'
  BY <1>11, Positions, NoIdFact DEF IInv, TypeOK, IdsIssued, ClosedFirst,
        NewIdsPrivate, SessionsTracked, At, SessionActivity, TrackStream
<1>12. ASSUME NEW r \in Reqs, RemoveActivity(r) PROVE SessionsTracked'
  BY <1>12, Positions, NoIdFact DEF IInv, TypeOK, IdsIssued, ClosedFirst,
        NewIdsPrivate, SessionsTracked, At, Idle, Untracked, SessionActivity,
        RemoveActivity
<1>13. ASSUME NEW r \in Reqs, DropStream(r) PROVE SessionsTracked'
  BY <1>13, Positions, NoIdFact DEF IInv, TypeOK, IdsIssued, ClosedFirst,
        NewIdsPrivate, SessionsTracked, At, Idle, Decremented, SessionActivity, DropStream
<1>14. ASSUME CollectStale PROVE SessionsTracked'
  BY <1>14, Positions, NoIdFact DEF IInv, TypeOK, IdsIssued, ClosedFirst,
        NewIdsPrivate, SessionsTracked, At, CollectStale
<1>15. ASSUME RecheckStale PROVE SessionsTracked'
  BY <1>15, Positions, NoIdFact DEF IInv, TypeOK, IdsIssued, ClosedFirst,
        NewIdsPrivate, SessionsTracked, At, RecheckStale
<1>16. ASSUME ReapClose PROVE SessionsTracked'
  BY <1>16, Positions, NoIdFact DEF IInv, TypeOK, IdsIssued, ClosedFirst,
        NewIdsPrivate, SessionsTracked, At, ReapClose
<1>17. ASSUME ReapRemove PROVE SessionsTracked'
  BY <1>17, Positions, NoIdFact DEF IInv, TypeOK, IdsIssued, ClosedFirst,
        NewIdsPrivate, SessionsTracked, At, Untracked, SessionActivity, ReapRemove
<1>18. ASSUME ReapDone PROVE SessionsTracked'
  BY <1>18, Positions, NoIdFact DEF IInv, TypeOK, IdsIssued, ClosedFirst,
        NewIdsPrivate, SessionsTracked, At, ReapDone
<1>19. ASSUME StopReaper PROVE SessionsTracked'
  BY <1>19, Positions, NoIdFact DEF IInv, TypeOK, IdsIssued, ClosedFirst,
        NewIdsPrivate, SessionsTracked, At, StopReaper
<1>20. ASSUME NEW i \in Ids, GrowStale(i) PROVE SessionsTracked'
  BY <1>20, Positions, NoIdFact DEF IInv, TypeOK, IdsIssued, ClosedFirst,
        NewIdsPrivate, SessionsTracked, At, SessionActivity, GrowStale
<1>21. ASSUME NEW i \in Ids, Abandon(i) PROVE SessionsTracked'
  BY <1>21, Positions, NoIdFact DEF IInv, TypeOK, IdsIssued, ClosedFirst,
        NewIdsPrivate, SessionsTracked, At, Abandon
<1>22. ASSUME UNCHANGED vars PROVE SessionsTracked'
  BY <1>22, Positions DEF IInv, TypeOK, IdsIssued, ClosedFirst, NewIdsPrivate,
        SessionsTracked, At, vars
<1> QED
  BY <1>1, <1>2, <1>3, <1>4, <1>5, <1>6, <1>7, <1>8, <1>9, <1>10, <1>11, <1>12, <1>13,
        <1>14, <1>15, <1>16, <1>17, <1>18, <1>19, <1>20, <1>21, <1>22
        DEF Next, Creating, Calling, Finishing, Reaping

(* The size of the session map after a close and after a creation.         *)
LEMMA SessionsShrink ==
    ASSUME TypeOK, NEW i
    PROVE  Cardinality(sessions \ {i}) \in Nat /\ Cardinality(sessions \ {i}) <= Cardinality(sessions)
<1>1. IsFiniteSet(sessions) /\ sessions \ {i} \subseteq sessions
  BY Finiteness
<1> QED BY <1>1, FS_Subset, FS_CardinalityType

(* A new session adds one.                                                 *)
LEMMA SessionsGrow ==
    ASSUME TypeOK, NEW i, i \notin sessions
    PROVE  Cardinality(sessions \cup {i}) = Cardinality(sessions) + 1
BY Finiteness, FS_AddElement

(* Who passed the capacity check still has room.                           *)
LEMMA RoomKept == IInv /\ [Next]_vars => RoomLeft'
<1> SUFFICES ASSUME IInv, [Next]_vars PROVE RoomLeft'
  OBVIOUS
<1>1. ASSUME NEW r \in Reqs, LockCreate(r) PROVE RoomLeft'
  BY <1>1, ReqsFinite, Positions, NoIdFact
        DEF IInv, TypeOK, LockHeld, RoomLeft, At, LockCreate
<1>2. ASSUME NEW r \in Reqs, EnsureCapacity(r) PROVE RoomLeft'
<2>1. sessions' = sessions /\ Cardinality(sessions) \in Nat
  BY <1>2, Finiteness DEF IInv, EnsureCapacity
<2>2. \A q \in Reqs : req'[q].pc = "create" => req[q].pc = "create" \/ ~(Cardinality(sessions) >= MaxSessions)
  BY <1>2, Positions DEF IInv, TypeOK, EnsureCapacity
<2> QED BY <2>1, <2>2, LimitIsNatural DEF IInv, RoomLeft
<1>3. ASSUME NEW r \in Reqs, InnerCreate(r) PROVE RoomLeft'
  BY <1>3, ReqsFinite, Positions, NoIdFact
        DEF IInv, TypeOK, LockHeld, RoomLeft, At, InnerCreate
<1>4. ASSUME NEW r \in Reqs, CancelCreate(r) PROVE RoomLeft'
  BY <1>4, ReqsFinite, Positions, NoIdFact
        DEF IInv, TypeOK, LockHeld, RoomLeft, Idle, CancelCreate
<1>5. ASSUME NEW r \in Reqs, InnerAccept(r) PROVE RoomLeft'
  BY <1>5, ReqsFinite, Positions, NoIdFact
        DEF IInv, TypeOK, LockHeld, RoomLeft, At, InnerAccept
<1>6. ASSUME NEW r \in Reqs, InnerStream(r) PROVE RoomLeft'
  BY <1>6, ReqsFinite, Positions, NoIdFact
        DEF IInv, TypeOK, LockHeld, RoomLeft, At, InnerStream
<1>7. ASSUME NEW r \in Reqs, StreamItem(r) PROVE RoomLeft'
  BY <1>7, ReqsFinite, Positions, NoIdFact
        DEF IInv, TypeOK, LockHeld, RoomLeft, StreamItem
<1>8. ASSUME NEW r \in Reqs, InnerClose(r) PROVE RoomLeft'
<2>1. PICK i \in Known : sessions' = sessions \ {i}
  BY <1>8 DEF InnerClose
<2>2. Cardinality(sessions') <= Cardinality(sessions) /\ Cardinality(sessions') \in Nat /\ Cardinality(sessions) \in Nat
  BY <2>1, SessionsShrink, Finiteness DEF IInv
<2>3. \A q \in Reqs : req'[q].pc = "create" => req[q].pc = "create"
  BY <1>8, Positions DEF IInv, TypeOK, InnerClose
<2> QED BY <2>2, <2>3, LimitIsNatural DEF IInv, RoomLeft
<1>9. ASSUME NEW r \in Reqs, InsertActivity(r) PROVE RoomLeft'
  BY <1>9, ReqsFinite, Positions, NoIdFact
        DEF IInv, TypeOK, LockHeld, RoomLeft, Idle, InsertActivity
<1>10. ASSUME NEW r \in Reqs, Touch(r) PROVE RoomLeft'
  BY <1>10, ReqsFinite, Positions, NoIdFact
        DEF IInv, TypeOK, LockHeld, RoomLeft, Idle, Touch
<1>11. ASSUME NEW r \in Reqs, TrackStream(r) PROVE RoomLeft'
  BY <1>11, ReqsFinite, Positions, NoIdFact
        DEF IInv, TypeOK, LockHeld, RoomLeft, At, TrackStream
<1>12. ASSUME NEW r \in Reqs, RemoveActivity(r) PROVE RoomLeft'
  BY <1>12, ReqsFinite, Positions, NoIdFact
        DEF IInv, TypeOK, LockHeld, RoomLeft, Idle, RemoveActivity
<1>13. ASSUME NEW r \in Reqs, DropStream(r) PROVE RoomLeft'
  BY <1>13, ReqsFinite, Positions, NoIdFact
        DEF IInv, TypeOK, LockHeld, RoomLeft, Idle, DropStream
<1>14. ASSUME CollectStale PROVE RoomLeft'
  BY <1>14, ReqsFinite, Positions, NoIdFact
        DEF IInv, TypeOK, LockHeld, RoomLeft, CollectStale
<1>15. ASSUME RecheckStale PROVE RoomLeft'
  BY <1>15, ReqsFinite, Positions, NoIdFact
        DEF IInv, TypeOK, LockHeld, RoomLeft, RecheckStale
<1>16. ASSUME ReapClose PROVE RoomLeft'
<2>1. sessions' = sessions \ {reaper.id} /\ req' = req
  BY <1>16 DEF ReapClose
<2>2. Cardinality(sessions') <= Cardinality(sessions) /\ Cardinality(sessions') \in Nat /\ Cardinality(sessions) \in Nat
  BY <2>1, SessionsShrink, Finiteness DEF IInv
<2> QED BY <2>1, <2>2, LimitIsNatural DEF IInv, RoomLeft
<1>17. ASSUME ReapRemove PROVE RoomLeft'
  BY <1>17, ReqsFinite, Positions, NoIdFact
        DEF IInv, TypeOK, LockHeld, RoomLeft, ReapRemove
<1>18. ASSUME ReapDone PROVE RoomLeft'
  BY <1>18, ReqsFinite, Positions, NoIdFact DEF IInv, TypeOK, LockHeld, RoomLeft, ReapDone
<1>19. ASSUME StopReaper PROVE RoomLeft'
  BY <1>19, ReqsFinite, Positions, NoIdFact
        DEF IInv, TypeOK, LockHeld, RoomLeft, StopReaper
<1>20. ASSUME NEW i \in Ids, GrowStale(i) PROVE RoomLeft'
  BY <1>20, ReqsFinite, Positions, NoIdFact
        DEF IInv, TypeOK, LockHeld, RoomLeft, GrowStale
<1>21. ASSUME NEW i \in Ids, Abandon(i) PROVE RoomLeft'
  BY <1>21, ReqsFinite, Positions, NoIdFact DEF IInv, TypeOK, LockHeld, RoomLeft, Abandon
<1>22. ASSUME UNCHANGED vars PROVE RoomLeft'
  BY <1>22, ReqsFinite, Positions DEF IInv, TypeOK, LockHeld, RoomLeft, vars
<1> QED
  BY <1>1, <1>2, <1>3, <1>4, <1>5, <1>6, <1>7, <1>8, <1>9, <1>10, <1>11, <1>12, <1>13,
        <1>14, <1>15, <1>16, <1>17, <1>18, <1>19, <1>20, <1>21, <1>22
        DEF Next, Creating, Calling, Finishing, Reaping

(* The cap holds.                                                          *)
LEMMA CapacityKept == IInv /\ [Next]_vars => CapacityHeld'
<1> SUFFICES ASSUME IInv, [Next]_vars PROVE CapacityHeld'
  OBVIOUS
<1>1. ASSUME NEW r \in Reqs, LockCreate(r) PROVE CapacityHeld'
  BY <1>1, Positions, NoIdFact DEF IInv, CapacityHeld, LockCreate
<1>2. ASSUME NEW r \in Reqs, EnsureCapacity(r) PROVE CapacityHeld'
  BY <1>2, Positions, NoIdFact DEF IInv, CapacityHeld, EnsureCapacity
<1>3. ASSUME NEW r \in Reqs, InnerCreate(r) PROVE CapacityHeld'
<2>1. PICK i \in Ids \ issued : sessions' = sessions \cup {i}
  BY <1>3 DEF InnerCreate
<2>2. Cardinality(sessions') = Cardinality(sessions) + 1
  BY <2>1, SessionsGrow DEF IInv, TypeOK
<2> QED BY <1>3, <2>2 DEF IInv, RoomLeft, CapacityHeld, InnerCreate
<1>4. ASSUME NEW r \in Reqs, CancelCreate(r) PROVE CapacityHeld'
  BY <1>4, Positions, NoIdFact DEF IInv, CapacityHeld, CancelCreate
<1>5. ASSUME NEW r \in Reqs, InnerAccept(r) PROVE CapacityHeld'
  BY <1>5, Positions, NoIdFact DEF IInv, CapacityHeld, InnerAccept
<1>6. ASSUME NEW r \in Reqs, InnerStream(r) PROVE CapacityHeld'
  BY <1>6, Positions, NoIdFact DEF IInv, CapacityHeld, InnerStream
<1>7. ASSUME NEW r \in Reqs, StreamItem(r) PROVE CapacityHeld'
  BY <1>7, Positions, NoIdFact DEF IInv, CapacityHeld, StreamItem
<1>8. ASSUME NEW r \in Reqs, InnerClose(r) PROVE CapacityHeld'
<2>1. PICK i \in Known : sessions' = sessions \ {i}
  BY <1>8 DEF InnerClose
<2> QED BY <2>1, SessionsShrink, Finiteness, LimitIsNatural DEF IInv, CapacityHeld
<1>9. ASSUME NEW r \in Reqs, InsertActivity(r) PROVE CapacityHeld'
  BY <1>9, Positions, NoIdFact DEF IInv, CapacityHeld, InsertActivity
<1>10. ASSUME NEW r \in Reqs, Touch(r) PROVE CapacityHeld'
  BY <1>10, Positions, NoIdFact DEF IInv, CapacityHeld, Touch
<1>11. ASSUME NEW r \in Reqs, TrackStream(r) PROVE CapacityHeld'
  BY <1>11, Positions, NoIdFact DEF IInv, CapacityHeld, TrackStream
<1>12. ASSUME NEW r \in Reqs, RemoveActivity(r) PROVE CapacityHeld'
  BY <1>12, Positions, NoIdFact DEF IInv, CapacityHeld, RemoveActivity
<1>13. ASSUME NEW r \in Reqs, DropStream(r) PROVE CapacityHeld'
  BY <1>13, Positions, NoIdFact DEF IInv, CapacityHeld, DropStream
<1>14. ASSUME CollectStale PROVE CapacityHeld'
  BY <1>14, Positions, NoIdFact DEF IInv, CapacityHeld, CollectStale
<1>15. ASSUME RecheckStale PROVE CapacityHeld'
  BY <1>15, Positions, NoIdFact DEF IInv, CapacityHeld, RecheckStale
<1>16. ASSUME ReapClose PROVE CapacityHeld'
<2>1. sessions' = sessions \ {reaper.id}
  BY <1>16 DEF ReapClose
<2> QED BY <2>1, SessionsShrink, Finiteness, LimitIsNatural DEF IInv, CapacityHeld
<1>17. ASSUME ReapRemove PROVE CapacityHeld'
  BY <1>17, Positions, NoIdFact DEF IInv, CapacityHeld, ReapRemove
<1>18. ASSUME ReapDone PROVE CapacityHeld'
  BY <1>18, Positions, NoIdFact DEF IInv, CapacityHeld, ReapDone
<1>19. ASSUME StopReaper PROVE CapacityHeld'
  BY <1>19, Positions, NoIdFact DEF IInv, CapacityHeld, StopReaper
<1>20. ASSUME NEW i \in Ids, GrowStale(i) PROVE CapacityHeld'
  BY <1>20, Positions, NoIdFact DEF IInv, CapacityHeld, GrowStale
<1>21. ASSUME NEW i \in Ids, Abandon(i) PROVE CapacityHeld'
  BY <1>21, Positions, NoIdFact DEF IInv, CapacityHeld, Abandon
<1>22. ASSUME UNCHANGED vars PROVE CapacityHeld'
  BY <1>22, Positions DEF IInv, CapacityHeld, vars
<1> QED
  BY <1>1, <1>2, <1>3, <1>4, <1>5, <1>6, <1>7, <1>8, <1>9, <1>10, <1>11, <1>12, <1>13,
        <1>14, <1>15, <1>16, <1>17, <1>18, <1>19, <1>20, <1>21, <1>22
        DEF Next, Creating, Calling, Finishing, Reaping

(* A handler that neither opens nor ends a stream leaves the streams alone. *)
LEMMA StreamsUnaffected ==
    ASSUME NEW r \in Reqs, req[r].pc # "stream", req'[r].pc # "stream",
           \A q \in Reqs : q # r => req'[q] = req[q]
    PROVE  \A i \in Ids : Streaming(i)' = Streaming(i)
BY DEF Streaming, At

(* Counts stay exact where streams and counts are left alone.              *)
LEMMA CountsUnaffected ==
    ASSUME IInv, sessions' \subseteq sessions,
           \A i \in Ids : Streaming(i)' = Streaming(i),
           \A i \in Ids : i \in sessions => activity'[i].streams = activity[i].streams
    PROVE  StreamsCounted'
BY DEF IInv, TypeOK, StreamsCounted

(* Stream counts of live sessions stay exact.                              *)
LEMMA CountsKept == IInv /\ [Next]_vars => StreamsCounted'
<1> SUFFICES ASSUME IInv, [Next]_vars PROVE StreamsCounted'
  OBVIOUS
<1>1. ASSUME NEW r \in Reqs, LockCreate(r) PROVE StreamsCounted'
<2>1. req[r].pc # "stream" /\ req'[r].pc # "stream" /\ \A q \in Reqs : q # r => req'[q] = req[q]
  BY <1>1, Positions DEF IInv, TypeOK, LockCreate
<2>2. \A i \in Ids : Streaming(i)' = Streaming(i)
  BY <2>1, StreamsUnaffected
<2>3. sessions' \subseteq sessions /\ \A i \in Ids : i \in sessions => activity'[i].streams = activity[i].streams
  BY <1>1, NoIdFact DEF IInv, TypeOK, LockCreate
<2> QED BY <2>2, <2>3, CountsUnaffected
<1>2. ASSUME NEW r \in Reqs, EnsureCapacity(r) PROVE StreamsCounted'
<2>1. PICK p \in {Idle, At("create", NoId)} : req' = [req EXCEPT ![r] = p]
  BY <1>2 DEF EnsureCapacity
<2>2. req[r].pc # "stream" /\ req'[r].pc # "stream" /\ \A q \in Reqs : q # r => req'[q] = req[q]
  BY <1>2, <2>1, Positions DEF IInv, TypeOK, EnsureCapacity
<2>3. \A i \in Ids : Streaming(i)' = Streaming(i)
  BY <2>2, StreamsUnaffected
<2>4. sessions' \subseteq sessions /\ \A i \in Ids : i \in sessions => activity'[i].streams = activity[i].streams
  BY <1>2, NoIdFact DEF IInv, TypeOK, EnsureCapacity
<2> QED BY <2>3, <2>4, CountsUnaffected
<1>3. ASSUME NEW r \in Reqs, InnerCreate(r) PROVE StreamsCounted'
<2>1. PICK i \in Ids \ issued : /\ sessions' = sessions \cup {i}
                                /\ req' = [req EXCEPT ![r] = At("insert", i)]
  BY <1>3 DEF InnerCreate
<2>2. req[r].pc # "stream" /\ req'[r].pc # "stream" /\ \A q \in Reqs : q # r => req'[q] = req[q]
  BY <1>3, <2>1, Positions DEF IInv, TypeOK, InnerCreate
<2>3. \A j \in Ids : Streaming(j)' = Streaming(j)
  BY <2>2, StreamsUnaffected
<2>4. activity' = activity /\ activity[i].streams = 0
  BY <1>3 DEF IInv, IdsIssued, InnerCreate
<2>5. Streaming(i) = {}
  BY <2>1, Positions DEF IInv, IdsIssued, Streaming
<2> QED BY <2>1, <2>3, <2>4, <2>5, FS_EmptySet DEF IInv, TypeOK, StreamsCounted
<1>4. ASSUME NEW r \in Reqs, CancelCreate(r) PROVE StreamsCounted'
<2>1. req[r].pc # "stream" /\ req'[r].pc # "stream" /\ \A q \in Reqs : q # r => req'[q] = req[q]
  BY <1>4, Positions DEF IInv, TypeOK, CancelCreate
<2>2. \A i \in Ids : Streaming(i)' = Streaming(i)
  BY <2>1, StreamsUnaffected
<2>3. sessions' \subseteq sessions /\ \A i \in Ids : i \in sessions => activity'[i].streams = activity[i].streams
  BY <1>4, NoIdFact DEF IInv, TypeOK, CancelCreate
<2> QED BY <2>2, <2>3, CountsUnaffected
<1>5. ASSUME NEW r \in Reqs, InnerAccept(r) PROVE StreamsCounted'
<2>1. req[r].pc # "stream" /\ req'[r].pc # "stream" /\ \A q \in Reqs : q # r => req'[q] = req[q]
  BY <1>5, Positions DEF IInv, TypeOK, InnerAccept
<2>2. \A i \in Ids : Streaming(i)' = Streaming(i)
  BY <2>1, StreamsUnaffected
<2>3. sessions' \subseteq sessions /\ \A i \in Ids : i \in sessions => activity'[i].streams = activity[i].streams
  BY <1>5, NoIdFact DEF IInv, TypeOK, InnerAccept
<2> QED BY <2>2, <2>3, CountsUnaffected
<1>6. ASSUME NEW r \in Reqs, InnerStream(r) PROVE StreamsCounted'
<2>1. req[r].pc # "stream" /\ req'[r].pc # "stream" /\ \A q \in Reqs : q # r => req'[q] = req[q]
  BY <1>6, Positions DEF IInv, TypeOK, InnerStream
<2>2. \A i \in Ids : Streaming(i)' = Streaming(i)
  BY <2>1, StreamsUnaffected
<2>3. sessions' \subseteq sessions /\ \A i \in Ids : i \in sessions => activity'[i].streams = activity[i].streams
  BY <1>6, NoIdFact DEF IInv, TypeOK, InnerStream
<2> QED BY <2>2, <2>3, CountsUnaffected
<1>7. ASSUME NEW r \in Reqs, StreamItem(r) PROVE StreamsCounted'
<2>1. \A i \in Ids : Streaming(i)' = Streaming(i)
  BY <1>7 DEF Streaming, StreamItem
<2>2. sessions' \subseteq sessions /\ \A i \in Ids : i \in sessions => activity'[i].streams = activity[i].streams
  BY <1>7, NoIdFact DEF IInv, TypeOK, Touched, IdsIssued, SessionActivity, StreamItem
<2> QED BY <2>1, <2>2, CountsUnaffected
<1>8. ASSUME NEW r \in Reqs, InnerClose(r) PROVE StreamsCounted'
<2>1. PICK p \in {Idle} \cup {At("untrack", i) : i \in Known} : req' = [req EXCEPT ![r] = p]
  BY <1>8, Zenon DEF InnerClose
<2>2. p.pc # "stream"
  BY Positions
<2>3. req[r].pc # "stream" /\ req'[r].pc # "stream" /\ \A q \in Reqs : q # r => req'[q] = req[q]
  BY <1>8, <2>1, <2>2 DEF IInv, TypeOK, InnerClose
<2>4. \A i \in Ids : Streaming(i)' = Streaming(i)
  BY <2>3, StreamsUnaffected
<2>5. sessions' \subseteq sessions /\ \A i \in Ids : i \in sessions => activity'[i].streams = activity[i].streams
  BY <1>8, NoIdFact DEF IInv, TypeOK, InnerClose
<2> QED BY <2>4, <2>5, CountsUnaffected
<1>9. ASSUME NEW r \in Reqs, InsertActivity(r) PROVE StreamsCounted'
<2>1. PICK i \in Ids :
        /\ i = req[r].id /\ sessions' = sessions
        /\ \A j \in Ids : activity'[j].streams = IF j = i THEN 0 ELSE activity[j].streams
  BY <1>9, NoIdFact DEF IInv, TypeOK, IdsIssued, ActivityNow, InsertActivity
<2>2. req[r].pc # "stream" /\ req'[r].pc # "stream" /\ \A q \in Reqs : q # r => req'[q] = req[q]
  BY <1>9, Positions DEF IInv, TypeOK, InsertActivity
<2>3. \A j \in Ids : Streaming(j)' = Streaming(j)
  BY <2>2, StreamsUnaffected
<2>4. \A q \in Reqs : q # r => req[q].id # i
  BY <1>9, <2>1 DEF IInv, NewIdsPrivate, InsertActivity
<2>5. \A q \in Reqs : req[q] # At("stream", i)
  BY <2>2, <2>4, Positions
<2>6. Streaming(i) = {}
  BY <2>5 DEF Streaming
<2>7. \A j \in sessions : activity[j].streams = Cardinality(Streaming(j)) /\ j \in Ids
  BY DEF IInv, TypeOK, StreamsCounted
<2>8. \A j \in sessions : j # i => activity'[j].streams = Cardinality(Streaming(j)')
  BY <2>1, <2>3, <2>7
<2>9. activity'[i].streams = Cardinality(Streaming(i)')
  BY <2>1, <2>3, <2>6, FS_EmptySet
<2> QED BY <2>1, <2>8, <2>9 DEF StreamsCounted
<1>10. ASSUME NEW r \in Reqs, Touch(r) PROVE StreamsCounted'
<2>1. req[r].pc # "stream" /\ req'[r].pc # "stream" /\ \A q \in Reqs : q # r => req'[q] = req[q]
  BY <1>10, Positions DEF IInv, TypeOK, Touch
<2>2. \A i \in Ids : Streaming(i)' = Streaming(i)
  BY <2>1, StreamsUnaffected
<2>3. sessions' \subseteq sessions /\ \A i \in Ids : i \in sessions => activity'[i].streams = activity[i].streams
  BY <1>10, NoIdFact DEF IInv, TypeOK, Touched, IdsIssued, SessionActivity, Touch
<2> QED BY <2>2, <2>3, CountsUnaffected
<1>11. ASSUME NEW r \in Reqs, TrackStream(r) PROVE StreamsCounted'
<2>1. PICK i \in Ids : i = req[r].id /\ sessions' = sessions
  BY <1>11, NoIdFact DEF IInv, TypeOK, IdsIssued, TrackStream
<2>2. \A j \in Ids : activity'[j].streams = IF j = i THEN activity[j].streams + 1 ELSE activity[j].streams
  BY <1>11, <2>1 DEF IInv, TypeOK, TrackStream
<2>3. Streaming(i)' = Streaming(i) \cup {r} /\ r \notin Streaming(i)
  BY <1>11, <2>1, Positions DEF IInv, TypeOK, Streaming, TrackStream
<2>4. \A j \in Ids : j # i => Streaming(j)' = Streaming(j)
  BY <1>11, <2>1, Positions DEF IInv, TypeOK, Streaming, TrackStream
<2>5. Cardinality(Streaming(i)') = Cardinality(Streaming(i)) + 1
  BY <2>1, <2>3, Finiteness, FS_AddElement DEF IInv
<2>6. \A j \in sessions : activity[j].streams = Cardinality(Streaming(j)) /\ j \in Ids
  BY DEF IInv, TypeOK, StreamsCounted
<2>7. \A j \in sessions : j # i => activity'[j].streams = Cardinality(Streaming(j)')
  BY <2>2, <2>4, <2>6
<2>8. i \in sessions => activity'[i].streams = Cardinality(Streaming(i)')
  BY <2>1, <2>2, <2>5, <2>6
<2> QED BY <2>1, <2>7, <2>8 DEF StreamsCounted
<1>12. ASSUME NEW r \in Reqs, RemoveActivity(r) PROVE StreamsCounted'
<2>1. req[r].pc # "stream" /\ req'[r].pc # "stream" /\ \A q \in Reqs : q # r => req'[q] = req[q]
  BY <1>12, Positions DEF IInv, TypeOK, RemoveActivity
<2>2. \A i \in Ids : Streaming(i)' = Streaming(i)
  BY <2>1, StreamsUnaffected
<2>3. sessions' \subseteq sessions /\ \A i \in Ids : i \in sessions => activity'[i].streams = activity[i].streams
  BY <1>12, NoIdFact DEF IInv, TypeOK, ClosedFirst, IdsIssued, RemoveActivity
<2> QED BY <2>2, <2>3, CountsUnaffected
<1>13. ASSUME NEW r \in Reqs, DropStream(r) PROVE StreamsCounted'
<2>1. PICK i \in Ids : i = req[r].id /\ sessions' = sessions
  BY <1>13, NoIdFact DEF IInv, TypeOK, IdsIssued, DropStream
<2>2. Streaming(i)' = Streaming(i) \ {r} /\ r \in Streaming(i)
  BY <1>13, <2>1, Positions DEF IInv, TypeOK, Streaming, At, Idle, DropStream
<2>3. \A j \in Ids : j # i => Streaming(j)' = Streaming(j)
  BY <1>13, <2>1, Positions DEF IInv, TypeOK, Streaming, At, Idle, DropStream
<2>4. /\ Cardinality(Streaming(i)') = Cardinality(Streaming(i)) - 1
      /\ Cardinality(Streaming(i)) # 0 /\ Cardinality(Streaming(i)) \in Nat
  BY <2>1, <2>2, Finiteness, FS_RemoveElement, FS_EmptySet DEF IInv
<2>5. \A j \in Ids : j # i => activity'[j] = activity[j]
  BY <1>13, <2>1 DEF IInv, TypeOK, DropStream
<2>6. i \in sessions => activity[i].tracked
  BY <1>13, <2>1, Positions DEF IInv, SessionsTracked, NewIdsPrivate, DropStream
<2>7. i \in sessions => activity'[i].streams = Decremented(activity[i].streams)
  BY <1>13, <2>1, <2>6 DEF IInv, TypeOK, DropStream
<2>8. i \in sessions => activity'[i].streams = activity[i].streams - 1
  BY <2>1, <2>4, <2>7 DEF IInv, StreamsCounted, Decremented
<2>9. \A j \in sessions : activity[j].streams = Cardinality(Streaming(j)) /\ j \in Ids
  BY DEF IInv, TypeOK, StreamsCounted
<2>10. \A j \in sessions : j # i => activity'[j].streams = Cardinality(Streaming(j)')
  BY <2>3, <2>5, <2>9
<2>11. i \in sessions => activity'[i].streams = Cardinality(Streaming(i)')
  BY <2>4, <2>8, <2>9
<2> QED BY <2>1, <2>10, <2>11 DEF StreamsCounted
<1>14. ASSUME CollectStale PROVE StreamsCounted'
<2>1. \A i \in Ids : Streaming(i)' = Streaming(i)
  BY <1>14 DEF Streaming, CollectStale
<2>2. sessions' \subseteq sessions /\ \A i \in Ids : i \in sessions => activity'[i].streams = activity[i].streams
  BY <1>14, NoIdFact DEF IInv, TypeOK, CollectStale
<2> QED BY <2>1, <2>2, CountsUnaffected
<1>15. ASSUME RecheckStale PROVE StreamsCounted'
<2>1. \A i \in Ids : Streaming(i)' = Streaming(i)
  BY <1>15 DEF Streaming, RecheckStale
<2>2. sessions' \subseteq sessions /\ \A i \in Ids : i \in sessions => activity'[i].streams = activity[i].streams
  BY <1>15, NoIdFact DEF IInv, TypeOK, RecheckStale
<2> QED BY <2>1, <2>2, CountsUnaffected
<1>16. ASSUME ReapClose PROVE StreamsCounted'
<2>1. \A i \in Ids : Streaming(i)' = Streaming(i)
  BY <1>16 DEF Streaming, ReapClose
<2>2. sessions' \subseteq sessions /\ \A i \in Ids : i \in sessions => activity'[i].streams = activity[i].streams
  BY <1>16, NoIdFact DEF IInv, TypeOK, ReapClose
<2> QED BY <2>1, <2>2, CountsUnaffected
<1>17. ASSUME ReapRemove PROVE StreamsCounted'
<2>1. \A i \in Ids : Streaming(i)' = Streaming(i)
  BY <1>17 DEF Streaming, ReapRemove
<2>2. sessions' \subseteq sessions /\ \A i \in Ids : i \in sessions => activity'[i].streams = activity[i].streams
  BY <1>17, NoIdFact DEF IInv, TypeOK, ClosedFirst, IdsIssued, ReapRemove
<2> QED BY <2>1, <2>2, CountsUnaffected
<1>18. ASSUME ReapDone PROVE StreamsCounted'
<2>1. \A i \in Ids : Streaming(i)' = Streaming(i)
  BY <1>18 DEF Streaming, ReapDone
<2>2. sessions' \subseteq sessions /\ \A i \in Ids : i \in sessions => activity'[i].streams = activity[i].streams
  BY <1>18, NoIdFact DEF IInv, TypeOK, ReapDone
<2> QED BY <2>1, <2>2, CountsUnaffected
<1>19. ASSUME StopReaper PROVE StreamsCounted'
<2>1. \A i \in Ids : Streaming(i)' = Streaming(i)
  BY <1>19 DEF Streaming, StopReaper
<2>2. sessions' \subseteq sessions /\ \A i \in Ids : i \in sessions => activity'[i].streams = activity[i].streams
  BY <1>19, NoIdFact DEF IInv, TypeOK, StopReaper
<2> QED BY <2>1, <2>2, CountsUnaffected
<1>20. ASSUME NEW i \in Ids, GrowStale(i) PROVE StreamsCounted'
<2>1. \A j \in Ids : Streaming(j)' = Streaming(j)
  BY <1>20 DEF Streaming, GrowStale
<2>2. sessions' \subseteq sessions /\ \A j \in Ids : j \in sessions => activity'[j].streams = activity[j].streams
  BY <1>20, NoIdFact DEF IInv, TypeOK, SessionActivity, GrowStale
<2> QED BY <2>1, <2>2, CountsUnaffected
<1>21. ASSUME NEW i \in Ids, Abandon(i) PROVE StreamsCounted'
<2>1. \A j \in Ids : Streaming(j)' = Streaming(j)
  BY <1>21 DEF Streaming, Abandon
<2>2. sessions' \subseteq sessions /\ \A j \in Ids : j \in sessions => activity'[j].streams = activity[j].streams
  BY <1>21, NoIdFact DEF IInv, TypeOK, Abandon
<2> QED BY <2>1, <2>2, CountsUnaffected
<1>22. ASSUME UNCHANGED vars PROVE StreamsCounted'
  BY <1>22, Positions DEF IInv, TypeOK, StreamsCounted, Streaming, vars
<1> QED
  BY <1>1, <1>2, <1>3, <1>4, <1>5, <1>6, <1>7, <1>8, <1>9, <1>10, <1>11, <1>12, <1>13,
        <1>14, <1>15, <1>16, <1>17, <1>18, <1>19, <1>20, <1>21, <1>22
        DEF Next, Creating, Calling, Finishing, Reaping

(* The invariant is inductive, hence it always holds.                      *)
LEMMA Invariance == Spec => []IInv
<1>1. IInv /\ [Next]_vars => IInv'
  BY TypesKept, LockKept, RoomKept, IssuedKept, PrivateKept, ClosedKept, CapacityKept,
        TrackedKept, CountsKept DEF IInv
<1> QED BY <1>1, InitIInv, PTL DEF Spec

(* The server never retains more than http_max_sessions sessions, however  *)
(* many handlers create sessions at once.                                  *)
THEOREM CapacityIsHeld == Spec => []CapacityHeld
<1>1. IInv => CapacityHeld
  BY DEF IInv
<1> QED BY <1>1, Invariance, PTL

(* Every live session can be found by the reaper, or is about to be.       *)
THEOREM SessionsAreTracked == Spec => []SessionsTracked
<1>1. IInv => SessionsTracked
  BY DEF IInv
<1> QED BY <1>1, Invariance, PTL

(* The activity record of a live session counts its open streams exactly.  *)
THEOREM StreamsAreCounted == Spec => []StreamsCounted
<1>1. IInv => StreamsCounted
  BY DEF IInv
<1> QED BY <1>1, Invariance, PTL

(* The session manager is type correct.                                    *)
THEOREM SessionTypes == Spec => []TypeOK
<1>1. IInv => TypeOK
  BY DEF IInv
<1> QED BY <1>1, Invariance, PTL
=============================================================================
