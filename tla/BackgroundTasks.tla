--------------------------- MODULE BackgroundTasks ---------------------------
(***************************************************************************)
(* The coordinator of tracked background work (src/background_tasks.rs):   *)
(* operations reserve an embed admission before they write, spawn tasks    *)
(* under it and drop it; shutdown closes the gate, waits for the           *)
(* admissions to drain, takes the JoinSet and joins it until a deadline.   *)
(*                                                                         *)
(* One action per atomic access to shared state.  What happens while the   *)
(* mutex of the JoinSet is held is one action.  Atomics are modelled as    *)
(* sequentially consistent.  shutdown is called by one caller, any number  *)
(* of times in a row.                                                      *)
(***************************************************************************)
EXTENDS Naturals, FiniteSets

CONSTANTS Ops,    \* operations that take an EmbedAdmission
          Tasks   \* identities of the tasks a JoinSet can hold

ASSUME OpsFinite == IsFiniteSet(Ops)

VARIABLES
  shutting_down,                  \* AtomicBool
  admitted_spawns_closed,         \* AtomicBool
  reset_after_admission_timeout,  \* AtomicBool
  embed_admissions,               \* AtomicUsize
  waiter,      \* the Notified future of the shutdown caller
  tasks,       \* the shared JoinSet
  taken,       \* the JoinSet shutdown took
  taskState,   \* what each task is doing
  op,          \* where each operation stands
  stop,        \* where shutdown_with_cleanup stands
  drained      \* its local admissions_drained

flags == <<shutting_down, admitted_spawns_closed, reset_after_admission_timeout>>
joinSets == <<tasks, taken, taskState>>
stopVars == <<stop, drained>>
vars == <<flags, embed_admissions, waiter, joinSets, op, stopVars>>

OpStates == {"idle", "begin", "counted", "backout", "admitted", "inline",
             "swap", "reopenSpawns", "reopen", "notify"}
StopStates == {"idle", "arm", "check", "wait", "close", "flag", "take", "join",
               "cleanup", "reopenSpawns", "reopen", "return"}

\* The operations whose increment of embed_admissions has not been undone.
Counted == {o \in Ops : op[o] \in {"counted", "backout", "admitted", "inline"}}

\* The operations that own an EmbedAdmission guard.
Admitted == {o \in Ops : op[o] \in {"admitted", "inline"}}

\* notify_waiters completes the Notified futures that already exist.
NotifyWaiters == waiter' = IF waiter = "armed" THEN "notified" ELSE waiter

Move(o, from, to) == op[o] = from /\ op' = [op EXCEPT ![o] = to]

Goto(from, to) == stop = from /\ stop' = to

Init ==
  /\ shutting_down = FALSE
  /\ admitted_spawns_closed = FALSE
  /\ reset_after_admission_timeout = FALSE
  /\ embed_admissions = 0
  /\ waiter = "none"
  /\ tasks = {}
  /\ taken = {}
  /\ taskState = [t \in Tasks |-> "free"]
  /\ op = [o \in Ops |-> "idle"]
  /\ stop = "idle"
  /\ drained = FALSE

-----------------------------------------------------------------------------
(* begin_embed_admission *)

BeginCheck(o) ==
  /\ ~shutting_down
  /\ Move(o, "idle", "begin")
  /\ UNCHANGED <<flags, embed_admissions, waiter, joinSets, stopVars>>

BeginCount(o) ==
  /\ Move(o, "begin", "counted")
  /\ embed_admissions' = embed_admissions + 1
  /\ UNCHANGED <<flags, waiter, joinSets, stopVars>>

\* A fault: the admission is granted without a second look at the gate.
BeginWithoutRecheck(o) ==
  /\ Move(o, "counted", "admitted")
  /\ UNCHANGED <<flags, embed_admissions, waiter, joinSets, stopVars>>

BeginRecheck(o) ==
  /\ Move(o, "counted", IF shutting_down THEN "backout" ELSE "admitted")
  /\ UNCHANGED <<flags, embed_admissions, waiter, joinSets, stopVars>>

\* A fault: backing out forgets to take the admission off the counter.
BackOutKeepsCount(o) ==
  /\ Move(o, "backout", IF embed_admissions = 1 THEN "notify" ELSE "idle")
  /\ UNCHANGED <<flags, embed_admissions, waiter, joinSets, stopVars>>

\* A fault: backing out forgets to wake the shutdown it delayed.
BackOutSilently(o) ==
  /\ Move(o, "backout", "idle")
  /\ embed_admissions' = embed_admissions - 1
  /\ UNCHANGED <<flags, waiter, joinSets, stopVars>>

BackOut(o) ==
  /\ Move(o, "backout", IF embed_admissions = 1 THEN "notify" ELSE "idle")
  /\ embed_admissions' = embed_admissions - 1
  /\ UNCHANGED <<flags, waiter, joinSets, stopVars>>

-----------------------------------------------------------------------------
(* Spawning; the completed tasks of the JoinSet are reaped first. *)

Completed == {t \in tasks : taskState[t] = "done"}

\* A best-effort spawn that finds the gate closed has reaped all the same.
SkipBestEffort ==
  /\ shutting_down
  /\ Completed # {}
  /\ tasks' = tasks \ Completed
  /\ taskState' = [u \in Tasks |-> IF u \in Completed THEN "free" ELSE taskState[u]]
  /\ UNCHANGED <<flags, embed_admissions, waiter, taken, op, stopVars>>

ReapAndSpawn(t) ==
  /\ taskState[t] = "free"
  /\ tasks' = (tasks \ Completed) \union {t}
  /\ taskState' = [u \in Tasks |-> IF u = t THEN "running"
                                   ELSE IF u \in Completed THEN "free"
                                   ELSE taskState[u]]

\* A fault: best-effort work is queued whatever the state of the gate.
SpawnBestEffortUngated(t) ==
  /\ ReapAndSpawn(t)
  /\ UNCHANGED <<flags, embed_admissions, waiter, taken, op, stopVars>>

SpawnBestEffort(t) ==
  /\ ~shutting_down
  /\ ReapAndSpawn(t)
  /\ UNCHANGED <<flags, embed_admissions, waiter, taken, op, stopVars>>

\* A fault: a timed-out shutdown does not stop admitted spawns.
SpawnAdmittedUngated(o, t) ==
  /\ op[o] = "admitted"
  /\ ReapAndSpawn(t)
  /\ UNCHANGED <<flags, embed_admissions, waiter, taken, op, stopVars>>

SpawnAdmitted(o, t) ==
  /\ op[o] = "admitted"
  /\ ~admitted_spawns_closed
  /\ ReapAndSpawn(t)
  /\ UNCHANGED <<flags, embed_admissions, waiter, taken, op, stopVars>>

\* The caller learns of the rejection and finishes its work inline.
SpawnRejected(o) ==
  /\ admitted_spawns_closed
  /\ Move(o, "admitted", "inline")
  /\ UNCHANGED <<flags, embed_admissions, waiter, joinSets, stopVars>>

TaskCompletes(t) ==
  /\ taskState[t] = "running"
  /\ taskState' = [taskState EXCEPT ![t] = "done"]
  /\ UNCHANGED <<flags, embed_admissions, waiter, tasks, taken, op, stopVars>>

\* An aborted task stops at its next suspension point.
TaskStops(t) ==
  /\ taskState[t] = "aborted"
  /\ taskState' = [taskState EXCEPT ![t] = "free"]
  /\ UNCHANGED <<flags, embed_admissions, waiter, tasks, taken, op, stopVars>>

-----------------------------------------------------------------------------
(* Drop of an EmbedAdmission *)

DropAdmission(o) ==
  /\ op[o] \in {"admitted", "inline"}
  /\ op' = [op EXCEPT ![o] = IF embed_admissions = 1 THEN "swap" ELSE "idle"]
  /\ embed_admissions' = embed_admissions - 1
  /\ UNCHANGED <<flags, waiter, joinSets, stopVars>>

DropSwapReset(o) ==
  /\ Move(o, "swap", IF reset_after_admission_timeout THEN "reopenSpawns" ELSE "notify")
  /\ reset_after_admission_timeout' = FALSE
  /\ UNCHANGED <<shutting_down, admitted_spawns_closed, embed_admissions, waiter,
                 joinSets, stopVars>>

DropReopenSpawns(o) ==
  /\ Move(o, "reopenSpawns", "reopen")
  /\ admitted_spawns_closed' = FALSE
  /\ UNCHANGED <<shutting_down, reset_after_admission_timeout, embed_admissions, waiter,
                 joinSets, stopVars>>

DropReopen(o) ==
  /\ Move(o, "reopen", "notify")
  /\ shutting_down' = FALSE
  /\ UNCHANGED <<admitted_spawns_closed, reset_after_admission_timeout, embed_admissions,
                 waiter, joinSets, stopVars>>

Notify(o) ==
  /\ Move(o, "notify", "idle")
  /\ NotifyWaiters
  /\ UNCHANGED <<flags, embed_admissions, joinSets, stopVars>>

-----------------------------------------------------------------------------
(* shutdown_with_cleanup *)

ShutdownBegins ==
  /\ Goto("idle", "arm")
  /\ shutting_down' = TRUE
  /\ UNCHANGED <<admitted_spawns_closed, reset_after_admission_timeout, embed_admissions,
                 waiter, joinSets, op, drained>>

\* The Notified future is created, and so registered, before the counter is read.
ArmWaiter ==
  /\ Goto("arm", "check")
  /\ waiter' = "armed"
  /\ UNCHANGED <<flags, embed_admissions, joinSets, op, drained>>

CheckAdmissions ==
  /\ stop = "check"
  /\ stop' = IF embed_admissions = 0 THEN "take" ELSE "wait"
  /\ drained' = (embed_admissions = 0)
  /\ UNCHANGED <<flags, embed_admissions, waiter, joinSets, op>>

WakeUp ==
  /\ waiter = "notified"
  /\ Goto("wait", "arm")
  /\ UNCHANGED <<flags, embed_admissions, waiter, joinSets, op, drained>>

AdmissionDeadline ==
  /\ Goto("wait", "close")
  /\ UNCHANGED <<flags, embed_admissions, waiter, joinSets, op, drained>>

CloseAdmittedSpawns ==
  /\ Goto("close", "flag")
  /\ admitted_spawns_closed' = TRUE
  /\ UNCHANGED <<shutting_down, reset_after_admission_timeout, embed_admissions, waiter,
                 joinSets, op, drained>>

RequestReset ==
  /\ Goto("flag", "take")
  /\ reset_after_admission_timeout' = TRUE
  /\ UNCHANGED <<shutting_down, admitted_spawns_closed, embed_admissions, waiter,
                 joinSets, op, drained>>

TakeTasks ==
  /\ Goto("take", IF drained THEN "join" ELSE "cleanup")
  /\ taken' = tasks
  /\ tasks' = {}
  /\ UNCHANGED <<flags, embed_admissions, waiter, taskState, op, drained>>

\* join_next until the set is empty.
JoinTasks ==
  /\ \A t \in taken : taskState[t] = "done"
  /\ Goto("join", "reopenSpawns")
  /\ UNCHANGED <<flags, embed_admissions, waiter, joinSets, op, drained>>

JoinDeadline ==
  /\ Goto("join", "cleanup")
  /\ UNCHANGED <<flags, embed_admissions, waiter, joinSets, op, drained>>

\* cleanup().await has returned.
CleanupEnds ==
  /\ Goto("cleanup", IF drained THEN "reopenSpawns" ELSE "return")
  /\ UNCHANGED <<flags, embed_admissions, waiter, joinSets, op, drained>>

ShutdownReopensSpawns ==
  /\ Goto("reopenSpawns", "reopen")
  /\ admitted_spawns_closed' = FALSE
  /\ UNCHANGED <<shutting_down, reset_after_admission_timeout, embed_admissions, waiter,
                 joinSets, op, drained>>

ShutdownReopens ==
  /\ Goto("reopen", "return")
  /\ shutting_down' = FALSE
  /\ UNCHANGED <<admitted_spawns_closed, reset_after_admission_timeout, embed_admissions,
                 waiter, joinSets, op, drained>>

\* The taken JoinSet goes out of scope: what still runs is aborted.
ShutdownReturns ==
  /\ Goto("return", "idle")
  /\ waiter' = "none"
  /\ taken' = {}
  /\ taskState' = [t \in Tasks |-> IF t \notin taken THEN taskState[t]
                                   ELSE IF taskState[t] = "running" THEN "aborted"
                                   ELSE "free"]
  /\ UNCHANGED <<flags, embed_admissions, tasks, op, drained>>

-----------------------------------------------------------------------------

OpStep(o) ==
  \/ BeginCount(o) \/ BeginRecheck(o) \/ BackOut(o)
  \/ SpawnRejected(o)
  \/ DropAdmission(o) \/ DropSwapReset(o) \/ DropReopenSpawns(o) \/ DropReopen(o)
  \/ Notify(o)

ShutdownStep ==
  \/ ArmWaiter \/ CheckAdmissions \/ WakeUp
  \/ CloseAdmittedSpawns \/ RequestReset \/ TakeTasks
  \/ JoinTasks \/ JoinDeadline \/ CleanupEnds
  \/ ShutdownReopensSpawns \/ ShutdownReopens \/ ShutdownReturns

Next ==
  \/ \E o \in Ops : BeginCheck(o) \/ OpStep(o) \/ \E t \in Tasks : SpawnAdmitted(o, t)
  \/ \E t \in Tasks : SpawnBestEffort(t) \/ TaskCompletes(t) \/ TaskStops(t)
  \/ SkipBestEffort
  \/ ShutdownBegins \/ AdmissionDeadline \/ ShutdownStep

Spec == Init /\ [][Next]_vars

(* Handlers run to completion, so an admission is dropped in the end, and   *)
(* the timer of shutdown fires.  No fairness on AdmissionDeadline: while    *)
(* admissions are awaited, only a notification may be counted on.  None on *)
(* TaskCompletes: a provider may hang.                                     *)
Fairness == (\A o \in Ops : WF_vars(OpStep(o))) /\ WF_vars(ShutdownStep)

FairSpec == Spec /\ Fairness

-----------------------------------------------------------------------------
(* Properties *)

TypeOK ==
  /\ shutting_down \in BOOLEAN
  /\ admitted_spawns_closed \in BOOLEAN
  /\ reset_after_admission_timeout \in BOOLEAN
  /\ embed_admissions \in Nat
  /\ waiter \in {"none", "armed", "notified"}
  /\ tasks \in SUBSET Tasks
  /\ taken \in SUBSET Tasks
  /\ taskState \in [Tasks -> {"free", "running", "done", "aborted"}]
  /\ op \in [Ops -> OpStates]
  /\ stop \in StopStates
  /\ drained \in BOOLEAN

(* The counter is the number of operations that incremented it and have not *)
(* undone it, through every interleaving of begin, back out and drop: the   *)
(* debug_assert "embed admission count must stay positive" can never fire.  *)
CountMatchesHolders == embed_admissions = Cardinality(Counted)

(* "a final drop cannot race with notified().await and lose the wake-up":   *)
(* when shutdown waits on an unnotified future although the counter is 0,   *)
(* some operation is still on its way to notify_waiters.                    *)
NoLostWakeUp ==
  stop = "wait" /\ waiter = "armed" /\ embed_admissions = 0
    => \E o \in Ops : op[o] \in {"swap", "reopenSpawns", "reopen", "notify"}

(* Once shutdown has seen the admissions drain, and as long as the gate it  *)
(* closed is closed, nobody holds an admission: the check-count-recheck of  *)
(* begin_embed_admission against the store-then-read of shutdown.           *)
GateHolds == drained /\ stop \in {"take", "join", "cleanup", "reopenSpawns"}
               /\ shutting_down => Admitted = {}

(* Work cannot slip in behind a shutdown that has taken the JoinSet: with   *)
(* the gate closed (and, after a timeout, admitted spawns closed) the fresh *)
(* JoinSet stays empty, so what shutdown joins or drops is all there is.    *)
NothingSpawnedBehindShutdown ==
  /\ stop \in {"join", "cleanup", "reopenSpawns"} /\ shutting_down
  /\ drained \/ admitted_spawns_closed
  => tasks = {}

(* Shutdown does not wait for its deadline behind a gate that is closed:    *)
(* the last drop, or the last back-out, wakes it.                           *)
NotifiedBehindClosedGate ==
  []<>(stop \notin {"arm", "check", "wait"} \/ ~shutting_down)

(* "background tasks should recover once timed-out admissions drain": with  *)
(* every operation and shutdown at rest, the gate is open.                  *)
RecoversOnceDrained ==
  stop = "idle" /\ (\A o \in Ops : op[o] = "idle") => ~shutting_down
=============================================================================
