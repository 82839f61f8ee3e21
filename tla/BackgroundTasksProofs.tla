----------------------- MODULE BackgroundTasksProofs -----------------------
(***************************************************************************)
(* Proofs about BackgroundTasks for any finite set of operations and any   *)
(* set of tasks.                                                           *)
(***************************************************************************)
EXTENDS BackgroundTasks, FiniteSetTheorems, TLAPS

(* The inductive invariant: the four safety properties, and the fact that  *)
(* links the local admissions_drained to the timed-out path.               *)
TimedOutNotDrained == stop \in {"wait", "close", "flag"} => ~drained

IInv ==
  /\ TypeOK
  /\ CountMatchesHolders
  /\ NoLostWakeUp
  /\ TimedOutNotDrained
  /\ GateHolds
  /\ NothingSpawnedBehindShutdown

(* An operation that moves between states of the same side of the counter  *)
(* leaves the set of counted operations alone.                             *)
LEMMA CountedUnchanged ==
  ASSUME NEW o \in Ops, op \in [Ops -> OpStates], NEW s,
         op' = [op EXCEPT ![o] = s],
         op[o] \in {"counted", "backout", "admitted", "inline"}
           <=> s \in {"counted", "backout", "admitted", "inline"}
  PROVE  Counted' = Counted
BY DEF Counted

(* A step that touches neither the counter nor an operation keeps the count. *)
LEMMA CountedFrame ==
  ASSUME CountMatchesHolders, UNCHANGED <<op, embed_admissions>>
  PROVE  CountMatchesHolders'
BY DEF CountMatchesHolders, Counted

(* Incrementing: BeginCount adds one operation to the counted ones.        *)
LEMMA CountedAdd ==
  ASSUME NEW o \in Ops, op \in [Ops -> OpStates], CountMatchesHolders,
         op[o] = "begin", op' = [op EXCEPT ![o] = "counted"],
         embed_admissions' = embed_admissions + 1
  PROVE  CountMatchesHolders'
<1>1. Counted' = Counted \union {o} /\ o \notin Counted
  BY DEF Counted
<1>2. IsFiniteSet(Counted)
  BY OpsFinite, FS_Subset DEF Counted
<1>3. Cardinality(Counted \union {o}) = Cardinality(Counted) + 1
  BY <1>1, <1>2, FS_AddElement
<1> QED BY <1>1, <1>3 DEF CountMatchesHolders

(* Decrementing: a counted operation leaves, so the counter was positive.  *)
LEMMA CountedRemove ==
  ASSUME NEW o \in Ops, op \in [Ops -> OpStates], CountMatchesHolders,
         embed_admissions \in Nat,
         op[o] \in {"counted", "backout", "admitted", "inline"},
         NEW s \in {"swap", "notify", "idle"},
         op' = [op EXCEPT ![o] = s],
         embed_admissions' = embed_admissions - 1
  PROVE  CountMatchesHolders' /\ embed_admissions' \in Nat
<1>1. Counted' = Counted \ {o} /\ o \in Counted
  BY DEF Counted
<1>2. IsFiniteSet(Counted)
  BY OpsFinite, FS_Subset DEF Counted
<1>3. /\ Cardinality(Counted \ {o}) = Cardinality(Counted) - 1
      /\ Cardinality(Counted \ {o}) \in Nat
  BY <1>1, <1>2, FS_RemoveElement, FS_CardinalityType
<1> QED BY <1>1, <1>3 DEF CountMatchesHolders

(* The invariant holds of fresh BackgroundTasks.                           *)
LEMMA InitIInv == Init => IInv
<1> SUFFICES ASSUME Init PROVE IInv
  OBVIOUS
<1>1. Counted = {}
  BY DEF Init, Counted
<1>2. CountMatchesHolders
  BY <1>1, FS_EmptySet DEF Init, CountMatchesHolders
<1> QED
  BY <1>2 DEF Init, IInv, TypeOK, OpStates, StopStates, NoLostWakeUp,
              TimedOutNotDrained, GateHolds, NothingSpawnedBehindShutdown

(* Every step preserves the invariant: operations first, then shutdown.    *)
LEMMA NextIInv == IInv /\ [Next]_vars => IInv'
<1> SUFFICES ASSUME IInv, [Next]_vars PROVE IInv'
  OBVIOUS
<1> USE DEF IInv, TypeOK, NoLostWakeUp, TimedOutNotDrained, GateHolds,
            NothingSpawnedBehindShutdown, Admitted, OpStates, StopStates,
            flags, joinSets, stopVars
<1>0. TypeOK /\ op \in [Ops -> OpStates] /\ embed_admissions \in Nat
  BY DEF TypeOK
<1>1. ASSUME NEW o \in Ops, BeginCheck(o) PROVE IInv'
  <2>1. CountMatchesHolders'
    BY <1>0, <1>1, CountedUnchanged DEF BeginCheck, Move, CountMatchesHolders
  <2> QED BY <2>1, <1>1 DEF BeginCheck, Move
<1>2. ASSUME NEW o \in Ops, BeginRecheck(o) PROVE IInv'
  <2>1. CountMatchesHolders'
    BY <1>0, <1>2, CountedUnchanged DEF BeginRecheck, Move, CountMatchesHolders
  <2> QED BY <2>1, <1>2 DEF BeginRecheck, Move
<1>3. ASSUME NEW o \in Ops, SpawnRejected(o) PROVE IInv'
  <2>1. CountMatchesHolders'
    BY <1>0, <1>3, CountedUnchanged DEF SpawnRejected, Move, CountMatchesHolders
  <2> QED BY <2>1, <1>3 DEF SpawnRejected, Move
<1>4. ASSUME NEW o \in Ops, DropSwapReset(o) PROVE IInv'
  <2>1. PICK s \in {"reopenSpawns", "notify"} : op' = [op EXCEPT ![o] = s]
    BY <1>4 DEF DropSwapReset, Move
  <2>2. Counted' = Counted
    BY <1>0, <1>4, <2>1, CountedUnchanged DEF DropSwapReset, Move
  <2>3. CountMatchesHolders'
    BY <1>4, <2>2 DEF DropSwapReset, CountMatchesHolders
  <2> QED BY <2>1, <2>3, <1>4 DEF DropSwapReset, Move
<1>5. ASSUME NEW o \in Ops, DropReopenSpawns(o) PROVE IInv'
  <2>1. CountMatchesHolders'
    BY <1>0, <1>5, CountedUnchanged DEF DropReopenSpawns, Move, CountMatchesHolders
  <2> QED BY <2>1, <1>5 DEF DropReopenSpawns, Move
<1>6. ASSUME NEW o \in Ops, DropReopen(o) PROVE IInv'
  <2>1. CountMatchesHolders'
    BY <1>0, <1>6, CountedUnchanged DEF DropReopen, Move, CountMatchesHolders
  <2> QED BY <2>1, <1>6 DEF DropReopen, Move
<1>7. ASSUME NEW o \in Ops, Notify(o) PROVE IInv'
  <2>1. CountMatchesHolders'
    BY <1>0, <1>7, CountedUnchanged DEF Notify, Move, CountMatchesHolders
  <2> QED BY <2>1, <1>7 DEF Notify, Move, NotifyWaiters
<1>8. ASSUME NEW o \in Ops, BeginCount(o) PROVE IInv'
  <2>1. CountMatchesHolders'
    BY <1>0, <1>8, CountedAdd DEF BeginCount, Move
  <2> QED BY <2>1, <1>8 DEF BeginCount, Move
<1>9. ASSUME NEW o \in Ops, BackOut(o) PROVE IInv'
  <2>1. CountMatchesHolders' /\ embed_admissions' \in Nat
    BY <1>0, <1>9, CountedRemove DEF BackOut, Move
  <2> QED BY <2>1, <1>9 DEF BackOut, Move
<1>10. ASSUME NEW o \in Ops, DropAdmission(o) PROVE IInv'
  <2>1. CountMatchesHolders' /\ embed_admissions' \in Nat
    BY <1>0, <1>10, CountedRemove DEF DropAdmission, Move
  <2> QED BY <2>1, <1>10 DEF DropAdmission, Move
<1>11. ASSUME NEW o \in Ops, NEW t \in Tasks, SpawnAdmitted(o, t) PROVE IInv'
  BY <1>11, CountedFrame DEF SpawnAdmitted, ReapAndSpawn, Completed
<1>12. ASSUME NEW t \in Tasks, SpawnBestEffort(t) PROVE IInv'
  BY <1>12, CountedFrame DEF SpawnBestEffort, ReapAndSpawn, Completed
<1>13. ASSUME NEW t \in Tasks, TaskCompletes(t) PROVE IInv'
  BY <1>13, CountedFrame DEF TaskCompletes
<1>14. ASSUME NEW t \in Tasks, TaskStops(t) PROVE IInv'
  BY <1>14, CountedFrame DEF TaskStops
<1>15. ASSUME ShutdownBegins PROVE IInv'
  BY <1>15, CountedFrame DEF ShutdownBegins, Goto
<1>16. ASSUME ArmWaiter PROVE IInv'
  BY <1>16, CountedFrame DEF ArmWaiter, Goto
<1>17. ASSUME WakeUp PROVE IInv'
  BY <1>17, CountedFrame DEF WakeUp, Goto
<1>18. ASSUME AdmissionDeadline PROVE IInv'
  BY <1>18, CountedFrame DEF AdmissionDeadline, Goto
<1>19. ASSUME CloseAdmittedSpawns PROVE IInv'
  BY <1>19, CountedFrame DEF CloseAdmittedSpawns, Goto
<1>20. ASSUME RequestReset PROVE IInv'
  BY <1>20, CountedFrame DEF RequestReset, Goto
<1>21. ASSUME TakeTasks PROVE IInv'
  BY <1>21, CountedFrame DEF TakeTasks, Goto
<1>22. ASSUME JoinTasks PROVE IInv'
  BY <1>22, CountedFrame DEF JoinTasks, Goto
<1>23. ASSUME JoinDeadline PROVE IInv'
  BY <1>23, CountedFrame DEF JoinDeadline, Goto
<1>24. ASSUME CleanupEnds PROVE IInv'
  BY <1>24, CountedFrame DEF CleanupEnds, Goto
<1>25. ASSUME ShutdownReopensSpawns PROVE IInv'
  BY <1>25, CountedFrame DEF ShutdownReopensSpawns, Goto
<1>26. ASSUME ShutdownReopens PROVE IInv'
  BY <1>26, CountedFrame DEF ShutdownReopens, Goto
<1>27. ASSUME ShutdownReturns PROVE IInv'
  BY <1>27, CountedFrame DEF ShutdownReturns, Goto
<1>28. ASSUME CheckAdmissions PROVE IInv'
  <2>1. CountMatchesHolders'
    BY <1>28, CountedFrame DEF CheckAdmissions
  <2>2. embed_admissions = 0 => Counted = {}
    <3>1. IsFiniteSet(Counted)
      BY OpsFinite, FS_Subset DEF Counted
    <3> QED BY <3>1, FS_EmptySet DEF CountMatchesHolders
  <2>3. embed_admissions = 0 => Admitted = {}
    BY <2>2 DEF Counted, Admitted
  <2> QED BY <2>1, <2>3, <1>28 DEF CheckAdmissions
<1>29. ASSUME SkipBestEffort PROVE IInv'
  BY <1>29, CountedFrame DEF SkipBestEffort, Completed
<1>30. CASE UNCHANGED vars
  BY <1>30, CountedFrame DEF vars
<1> QED
  BY <1>1, <1>2, <1>3, <1>4, <1>5, <1>6, <1>7, <1>8, <1>9, <1>10, <1>11,
     <1>12, <1>13, <1>14, <1>15, <1>16, <1>17, <1>18, <1>19, <1>20, <1>21,
     <1>22, <1>23, <1>24, <1>25, <1>26, <1>27, <1>28, <1>29, <1>30
  DEF Next, OpStep, ShutdownStep

(* The invariant holds in every reachable state.                           *)
THEOREM Invariance == Spec => []IInv
BY InitIInv, NextIInv, PTL DEF Spec

(* The admission counter of background_tasks.rs never drifts: each return  *)
(* and drop path undoes exactly the increment it owns.                     *)
THEOREM CounterIsExact == Spec => []CountMatchesHolders
BY Invariance, PTL DEF IInv

(* The waiter of wait_for_embed_admissions_until is never left behind by   *)
(* the last admission.                                                     *)
THEOREM WakeUpIsNeverLost == Spec => []NoLostWakeUp
BY Invariance, PTL DEF IInv

(* A shutdown that saw the counter at zero owns the gate: no admission     *)
(* exists until the gate reopens.                                          *)
THEOREM GateIsSound == Spec => []GateHolds
BY Invariance, PTL DEF IInv

(* The JoinSet that shutdown leaves behind stays empty while the gate is   *)
(* closed, so the set it took is all the work there is.                    *)
THEOREM TakenSetIsComplete == Spec => []NothingSpawnedBehindShutdown
BY Invariance, PTL DEF IInv
=============================================================================
