------------------------ MODULE ProviderRecoveryProofs ------------------------
(***************************************************************************)
(* Proofs about ProviderRecovery for any finite set of memories and any    *)
(* limits.                                                                 *)
(***************************************************************************)
EXTENDS ProviderRecovery, FiniteSetTheorems, TLAPS

Busy == {m \in Mems : InProvider(m)}

(* What the circuit says about the permits: the health probe calls only    *)
(* while the circuit is open, and then one permit at least is free.        *)
CircuitOpen ==
    /\ probe.pc = "check" => ~available
    /\ Taken <= Permits
    /\ ~available => Taken <= Permits - 1

(* Only the scheduling of a drain holds claimed rows.                      *)
GotOnlyScheduling == worker.pc # "schedule" => worker.got = {}

IInv == TypeOK /\ CircuitOpen /\ GotOnlyScheduling /\ LeasesAreCarried

(* The constant records have their types.                                  *)
LEMMA Records ==
    /\ NoTask \in TaskRecords /\ NoTask.pc = "none"
    /\ Waiting \in WorkerRecords /\ Waiting.pc = "wait" /\ Waiting.got = {}
    /\ Draining \in WorkerRecords /\ Draining.pc = "health" /\ Draining.got = {}
BY DEF NoTask, Waiting, Draining, TaskRecords, WorkerRecords

(* A task is queued with the token of its lease, if any.                   *)
LEMMA QueuedRecord ==
    /\ Queued(TRUE) \in TaskRecords /\ Queued(TRUE).pc = "queued" /\ Queued(TRUE).token
    /\ Queued(FALSE) \in TaskRecords /\ Queued(FALSE).pc = "queued"
BY DEF Queued, NoTask, TaskRecords

(* A call that is issued again.                                            *)
LEMMA CallRecord ==
    ASSUME NEW r \in TaskRecords, NEW a \in Nat, NEW b \in BOOLEAN
    PROVE  [r EXCEPT !.pc = "call", !.attempt = a, !.tainted = b] \in TaskRecords
BY DEF TaskRecords

(* The permits that are taken are a number.                                *)
LEMMA BusyFinite == IsFiniteSet(Busy) /\ Cardinality(Busy) \in Nat
BY RejectableAreMemories, FS_Subset, FS_CardinalityType DEF Busy

(* A step that takes or returns no permit keeps the number of the taken.   *)
LEMMA SameTaken ==
    ASSUME \A m \in Mems : InProvider(m)' <=> InProvider(m),
           (worker'.pc = "check") <=> (worker.pc = "check")
    PROVE  Taken' = Taken
<1>1. Busy' = Busy
  BY DEF Busy
<1> QED BY <1>1 DEF Taken, Busy

(* A task that leaves the provider returns its permit.                     *)
LEMMA OneLess ==
    ASSUME NEW m \in Mems, InProvider(m), ~InProvider(m)',
           \A n \in Mems \ {m} : InProvider(n)' <=> InProvider(n), UNCHANGED worker
    PROVE  Taken' = Taken - 1
<1>1. Busy' = Busy \ {m} /\ m \in Busy
  BY DEF Busy
<1>2. Cardinality(Busy') = Cardinality(Busy) - 1
  BY <1>1, BusyFinite, FS_RemoveElement
<1> QED BY <1>2, BusyFinite DEF Taken, Busy

(* A task that enters it takes one.                                        *)
LEMMA OneMore ==
    ASSUME NEW m \in Mems, ~InProvider(m), InProvider(m)',
           \A n \in Mems \ {m} : InProvider(n)' <=> InProvider(n), UNCHANGED worker
    PROVE  Taken' = Taken + 1
<1>1. Busy' = Busy \cup {m} /\ m \notin Busy
  BY DEF Busy
<1>2. Cardinality(Busy') = Cardinality(Busy) + 1
  BY <1>1, BusyFinite, FS_AddElement
<1> QED BY <1>2, BusyFinite DEF Taken, Busy

(* So does the worker with its health check.                               *)
LEMMA WorkerTaken ==
    ASSUME UNCHANGED task
    PROVE  /\ Taken \in Nat
           /\ worker.pc # "check" /\ worker'.pc = "check" => Taken' = Taken + 1
           /\ worker.pc = "check" /\ worker'.pc # "check" => Taken' = Taken - 1
<1>1. Busy' = Busy
  BY DEF Busy, InProvider
<1> QED BY <1>1, BusyFinite DEF Taken, Busy

(* The number of taken permits is a natural number.                        *)
LEMMA TakenNat == Taken \in Nat
BY BusyFinite DEF Taken, Busy

(* The invariant holds when the process starts.                            *)
LEMMA InitIInv == Init => IInv
<1> SUFFICES ASSUME Init PROVE IInv
  OBVIOUS
<1>1. TypeOK
  BY Records, RejectableAreMemories, SomePermit DEF Init, TypeOK, TaskRecords, WorkerRecords
<1>2. Taken = 0
  <2>1. Busy = {}
    BY Records DEF Init, Busy, InProvider
  <2> QED BY <2>1, Records, FS_EmptySet DEF Taken, Busy, Init
<1>3. CircuitOpen
  BY <1>2, SomePermit DEF CircuitOpen, Init
<1>4. GotOnlyScheduling /\ LeasesAreCarried
  BY Records DEF GotOnlyScheduling, LeasesAreCarried, Init
<1> QED BY <1>1, <1>3, <1>4 DEF IInv

(* An outage marks the calls under way.                                    *)
LEMMA GoDownKeeps ==
    ASSUME IInv, GoDown
    PROVE  IInv'
<1> USE DEF GoDown, provider, circuit, store, IInv
<1>0. worker' \in WorkerRecords /\ worker'.pc = worker.pc /\ worker'.got = worker.got
  BY DEF TypeOK, WorkerRecords
<1>7. \A m \in Mems : task'[m] \in TaskRecords /\ task'[m].pc = task[m].pc /\ task'[m].token = task[m].token
  BY DEF TypeOK, TaskRecords
<1>5. probe' \in [pc : {"sleep", "check", "notify"}, tainted : BOOLEAN]
  BY DEF TypeOK
<1>6. outages' \in Nat /\ outages' <= MaxOutages
  BY SomePermit DEF TypeOK
<1>1. TypeOK'
  BY Records, <1>0, <1>5, <1>6, <1>7 DEF TypeOK
<1>2. CircuitOpen'
  <2>1. Taken' = Taken
    BY <1>0, <1>7, SameTaken, Records DEF InProvider, TypeOK, TaskRecords
  <2> QED BY <2>1, Records DEF CircuitOpen, TypeOK
<1>3. GotOnlyScheduling'
  BY Records, <1>0 DEF GotOnlyScheduling, TypeOK, WorkerRecords
<1>4. LeasesAreCarried'
  BY Records, <1>0, <1>7 DEF LeasesAreCarried, GotOnlyScheduling, TypeOK, TaskRecords, WorkerRecords
<1> QED BY <1>1, <1>2, <1>3, <1>4

(* The provider comes back.                                                *)
LEMMA ComeBackKeeps ==
    ASSUME IInv, ComeBack
    PROVE  IInv'
<1> USE DEF ComeBack, provider, circuit, store, IInv
<1>1. TypeOK'
  BY Records DEF TypeOK
<1>2. CircuitOpen'
  <2>1. Taken' = Taken
    BY SameTaken, Records DEF InProvider, TypeOK, TaskRecords
  <2> QED BY <2>1 DEF CircuitOpen
<1>3. GotOnlyScheduling'
  BY Records DEF GotOnlyScheduling, TypeOK, WorkerRecords
<1>4. LeasesAreCarried'
  BY Records DEF LeasesAreCarried, GotOnlyScheduling, TypeOK, TaskRecords, WorkerRecords
<1> QED BY <1>1, <1>2, <1>3, <1>4

(* A writer commits a row.                                                 *)
LEMMA WriteKeeps ==
    ASSUME IInv, NEW m \in Mems, Write(m)
    PROVE  IInv'
<1> USE DEF Write, provider, circuit, store, IInv
<1>1. TypeOK'
  BY Records DEF TypeOK
<1>2. CircuitOpen'
  <2>1. Taken' = Taken
    BY SameTaken, Records DEF InProvider, TypeOK, TaskRecords
  <2> QED BY <2>1 DEF CircuitOpen
<1>3. GotOnlyScheduling'
  BY Records DEF GotOnlyScheduling, TypeOK, WorkerRecords
<1>4. LeasesAreCarried'
  BY Records DEF LeasesAreCarried, GotOnlyScheduling, TypeOK, TaskRecords, WorkerRecords
<1> QED BY <1>1, <1>2, <1>3, <1>4

(* A writer spawns the embed task of its row.                              *)
LEMMA SpawnEmbedKeeps ==
    ASSUME IInv, NEW m \in Mems, SpawnEmbed(m)
    PROVE  IInv'
<1> USE DEF SpawnEmbed, provider, circuit, store, IInv, Queue
<1>0. task'[m] \in TaskRecords /\ DOMAIN task' = Mems
  BY QueuedRecord DEF TypeOK
<1>1. TypeOK'
  BY Records, <1>0 DEF TypeOK
<1>2. CircuitOpen'
  <2>1. Taken' = Taken
    BY SameTaken, QueuedRecord DEF InProvider, TypeOK
  <2> QED BY <2>1 DEF CircuitOpen
<1>3. GotOnlyScheduling'
  BY Records DEF GotOnlyScheduling, TypeOK, WorkerRecords
<1>4. LeasesAreCarried'
  BY Records, QueuedRecord DEF LeasesAreCarried, GotOnlyScheduling, TypeOK, TaskRecords, WorkerRecords
<1> QED BY <1>1, <1>2, <1>3, <1>4

(* A task takes a permit, or fails while the circuit is open.              *)
LEMMA EmbedKeeps ==
    ASSUME IInv, NEW m \in Mems, Embed(m)
    PROVE  IInv'
<1> USE DEF Embed, provider, circuit, store, IInv
<1>0. task'[m] \in TaskRecords /\ DOMAIN task' = Mems
  BY Records, QueuedRecord DEF TypeOK, TaskRecords
<1>1. TypeOK'
  BY Records, <1>0 DEF TypeOK
<1>2. CircuitOpen'
  <2>1. CASE available
    <3>1. ~InProvider(m) /\ InProvider(m)'
      BY <2>1 DEF InProvider, TypeOK, TaskRecords
    <3>2. \A n \in Mems \ {m} : InProvider(n)' <=> InProvider(n)
      BY DEF InProvider, TypeOK, TaskRecords
    <3>3. Taken' = Taken + 1
      BY <3>1, <3>2, OneMore
    <3> QED BY <2>1, <3>3, TakenNat, SomePermit DEF CircuitOpen
  <2>2. CASE ~available
    <3>1. Taken' = Taken
      BY <2>2, SameTaken DEF InProvider, TypeOK, TaskRecords
    <3> QED BY <3>1 DEF CircuitOpen
  <2> QED BY <2>1, <2>2
<1>3. GotOnlyScheduling'
  BY Records DEF GotOnlyScheduling, TypeOK, WorkerRecords
<1>4. LeasesAreCarried'
  BY Records DEF LeasesAreCarried, GotOnlyScheduling, TypeOK, TaskRecords, WorkerRecords
<1> QED BY <1>1, <1>2, <1>3, <1>4

(* A call that succeeds returns its permit.                                *)
LEMMA EmbedOkKeeps ==
    ASSUME IInv, NEW m \in Mems, EmbedOk(m)
    PROVE  IInv'
<1> USE DEF EmbedOk, provider, circuit, store, IInv
<1>0. task'[m] \in TaskRecords /\ DOMAIN task' = Mems
  BY Records, QueuedRecord DEF TypeOK, TaskRecords
<1>1. TypeOK'
  BY Records, <1>0 DEF TypeOK
<1>2. CircuitOpen'
  <2>1. Taken' = Taken - 1
    <3>1. InProvider(m) /\ ~InProvider(m)'
      BY DEF InProvider, TypeOK, TaskRecords
    <3>2. \A n \in Mems \ {m} : InProvider(n)' <=> InProvider(n)
      BY DEF InProvider, TypeOK, TaskRecords
    <3> QED BY <3>1, <3>2, OneLess
  <2> QED BY <2>1, TakenNat, SomePermit DEF CircuitOpen
<1>3. GotOnlyScheduling'
  BY Records DEF GotOnlyScheduling, TypeOK, WorkerRecords
<1>4. LeasesAreCarried'
  BY Records DEF LeasesAreCarried, GotOnlyScheduling, TypeOK, TaskRecords, WorkerRecords
<1> QED BY <1>1, <1>2, <1>3, <1>4

(* So does one that is rejected.                                           *)
LEMMA EmbedRejectedKeeps ==
    ASSUME IInv, NEW m \in Mems, EmbedRejected(m)
    PROVE  IInv'
<1> USE DEF EmbedRejected, provider, circuit, store, IInv
<1>0. task'[m] \in TaskRecords /\ DOMAIN task' = Mems
  BY Records, QueuedRecord DEF TypeOK, TaskRecords
<1>1. TypeOK'
  BY Records, <1>0 DEF TypeOK
<1>2. CircuitOpen'
  <2>1. Taken' = Taken - 1
    <3>1. InProvider(m) /\ ~InProvider(m)'
      BY DEF InProvider, TypeOK, TaskRecords
    <3>2. \A n \in Mems \ {m} : InProvider(n)' <=> InProvider(n)
      BY DEF InProvider, TypeOK, TaskRecords
    <3> QED BY <3>1, <3>2, OneLess
  <2> QED BY <2>1, TakenNat, SomePermit DEF CircuitOpen
<1>3. GotOnlyScheduling'
  BY Records DEF GotOnlyScheduling, TypeOK, WorkerRecords
<1>4. LeasesAreCarried'
  BY Records DEF LeasesAreCarried, GotOnlyScheduling, TypeOK, TaskRecords, WorkerRecords
<1> QED BY <1>1, <1>2, <1>3, <1>4

(* One that failed for good opens the circuit, after a permit was returned.*)
LEMMA EmbedTransientKeeps ==
    ASSUME IInv, NEW m \in Mems, EmbedTransient(m)
    PROVE  IInv'
<1> USE DEF EmbedTransient, provider, circuit, store, IInv, Retried
<1>0. task'[m] \in TaskRecords /\ DOMAIN task' = Mems
  BY Records, QueuedRecord DEF TypeOK, TaskRecords
<1>1. TypeOK'
  BY Records, <1>0 DEF TypeOK
<1>2. CircuitOpen'
  <2>1. CASE task[m].attempt < MaxRetries
    <3>1. Taken' = Taken
      BY <2>1, SameTaken DEF InProvider, TypeOK, TaskRecords, Retried
    <3> QED BY <2>1, <3>1 DEF CircuitOpen
  <2>2. CASE ~(task[m].attempt < MaxRetries)
    <3>1. InProvider(m) /\ ~InProvider(m)'
      BY <2>2 DEF InProvider, TypeOK, TaskRecords
    <3>2. \A n \in Mems \ {m} : InProvider(n)' <=> InProvider(n)
      BY <2>2 DEF InProvider, TypeOK, TaskRecords
    <3>3. Taken' = Taken - 1
      BY <3>1, <3>2, OneLess
    <3> QED BY <2>2, <3>3, TakenNat, SomePermit DEF CircuitOpen
  <2> QED BY <2>1, <2>2
<1>3. GotOnlyScheduling'
  BY Records DEF GotOnlyScheduling, TypeOK, WorkerRecords
<1>4. LeasesAreCarried'
  BY Records DEF LeasesAreCarried, GotOnlyScheduling, TypeOK, TaskRecords, WorkerRecords
<1> QED BY <1>1, <1>2, <1>3, <1>4

(* A 429 is retried or ends the call.                                      *)
LEMMA EmbedLimitedKeeps ==
    ASSUME IInv, NEW m \in Mems, EmbedLimited(m)
    PROVE  IInv'
<1> USE DEF EmbedLimited, provider, circuit, store, IInv, Retried
<1>0. task'[m] \in TaskRecords /\ DOMAIN task' = Mems
  BY Records, QueuedRecord DEF TypeOK, TaskRecords
<1>1. TypeOK'
  BY Records, <1>0 DEF TypeOK
<1>2. CircuitOpen'
  <2>1. CASE Retried(m)
    <3>1. Taken' = Taken
      BY <2>1, SameTaken DEF InProvider, TypeOK, TaskRecords
    <3> QED BY <3>1 DEF CircuitOpen
  <2>2. CASE task' = [task EXCEPT ![m] = [@ EXCEPT !.pc = "failed"]]
    <3>1. InProvider(m) /\ ~InProvider(m)'
      BY <2>2 DEF InProvider, TypeOK, TaskRecords
    <3>2. \A n \in Mems \ {m} : InProvider(n)' <=> InProvider(n)
      BY <2>2 DEF InProvider, TypeOK, TaskRecords
    <3>3. Taken' = Taken - 1
      BY <3>1, <3>2, OneLess
    <3> QED BY <3>3, TakenNat, SomePermit DEF CircuitOpen
  <2> QED BY <2>1, <2>2
<1>3. GotOnlyScheduling'
  BY Records DEF GotOnlyScheduling, TypeOK, WorkerRecords
<1>4. LeasesAreCarried'
  BY Records DEF LeasesAreCarried, GotOnlyScheduling, TypeOK, TaskRecords, WorkerRecords
<1> QED BY <1>1, <1>2, <1>3, <1>4

(* A retry keeps its permit.                                               *)
LEMMA RetryEmbedKeeps ==
    ASSUME IInv, NEW m \in Mems, RetryEmbed(m)
    PROVE  IInv'
<1> USE DEF RetryEmbed, provider, circuit, store, IInv
<1>0. task'[m] \in TaskRecords /\ DOMAIN task' = Mems
  <2>1. task[m].attempt + 1 \in Nat
    BY DEF TypeOK, TaskRecords
  <2>3. (~up) \in BOOLEAN
    BY SMT
  <2>2. PICK a \in Nat, b \in BOOLEAN : task'[m] = [task[m] EXCEPT !.pc = "call", !.attempt = a, !.tainted = b]
    BY <2>1, <2>3 DEF TypeOK
  <2>4. task[m] \in TaskRecords /\ DOMAIN task' = Mems
    BY DEF TypeOK
  <2>5. [task[m] EXCEPT !.pc = "call", !.attempt = a, !.tainted = b] \in TaskRecords
    BY <2>4, CallRecord
  <2> QED BY <2>2, <2>4, <2>5
<1>1. TypeOK'
  BY Records, <1>0 DEF TypeOK
<1>2. CircuitOpen'
  <2>1. Taken' = Taken
    BY SameTaken, Records DEF InProvider, TypeOK, TaskRecords
  <2> QED BY <2>1 DEF CircuitOpen
<1>3. GotOnlyScheduling'
  BY Records DEF GotOnlyScheduling, TypeOK, WorkerRecords
<1>4. LeasesAreCarried'
  BY Records DEF LeasesAreCarried, GotOnlyScheduling, TypeOK, TaskRecords, WorkerRecords
<1> QED BY <1>1, <1>2, <1>3, <1>4

(* The vector is stored and the lease ends with the task.                  *)
LEMMA ApplyVectorKeeps ==
    ASSUME IInv, NEW m \in Mems, ApplyVector(m)
    PROVE  IInv'
<1> USE DEF ApplyVector, provider, circuit, store, IInv
<1>0. task'[m] \in TaskRecords /\ DOMAIN task' = Mems
  BY Records, QueuedRecord DEF TypeOK, TaskRecords
<1>1. TypeOK'
  BY Records, <1>0 DEF TypeOK
<1>2. CircuitOpen'
  <2>1. Taken' = Taken
    BY SameTaken, Records DEF InProvider, TypeOK, TaskRecords
  <2> QED BY <2>1 DEF CircuitOpen
<1>3. GotOnlyScheduling'
  BY Records DEF GotOnlyScheduling, TypeOK, WorkerRecords
<1>4. LeasesAreCarried'
  BY Records DEF LeasesAreCarried, GotOnlyScheduling, TypeOK, TaskRecords, WorkerRecords
<1> QED BY <1>1, <1>2, <1>3, <1>4

(* A failed task gives its lease back.                                     *)
LEMMA GiveUpKeeps ==
    ASSUME IInv, NEW m \in Mems, GiveUp(m)
    PROVE  IInv'
<1> USE DEF GiveUp, provider, circuit, store, IInv
<1>0. task'[m] \in TaskRecords /\ DOMAIN task' = Mems
  BY Records, QueuedRecord DEF TypeOK, TaskRecords
<1>1. TypeOK'
  BY Records, <1>0 DEF TypeOK
<1>2. CircuitOpen'
  <2>1. Taken' = Taken
    BY SameTaken, Records DEF InProvider, TypeOK, TaskRecords
  <2> QED BY <2>1 DEF CircuitOpen
<1>3. GotOnlyScheduling'
  BY Records DEF GotOnlyScheduling, TypeOK, WorkerRecords
<1>4. LeasesAreCarried'
  BY Records DEF LeasesAreCarried, GotOnlyScheduling, TypeOK, TaskRecords, WorkerRecords
<1> QED BY <1>1, <1>2, <1>3, <1>4

(* The probe calls while the circuit is open.                              *)
LEMMA ProbeCallKeeps ==
    ASSUME IInv, ProbeCall
    PROVE  IInv'
<1> USE DEF ProbeCall, provider, circuit, store, IInv
<1>1. TypeOK'
  BY Records DEF TypeOK
<1>2. CircuitOpen'
  <2>1. Taken' = Taken
    BY SameTaken, Records DEF InProvider, TypeOK, TaskRecords
  <2> QED BY <2>1, Records DEF CircuitOpen, TypeOK
<1>3. GotOnlyScheduling'
  BY Records DEF GotOnlyScheduling, TypeOK, WorkerRecords
<1>4. LeasesAreCarried'
  BY Records DEF LeasesAreCarried, GotOnlyScheduling, TypeOK, TaskRecords, WorkerRecords
<1> QED BY <1>1, <1>2, <1>3, <1>4

(* A probe that gets through closes the circuit.                           *)
LEMMA ProbeOkKeeps ==
    ASSUME IInv, ProbeOk
    PROVE  IInv'
<1> USE DEF ProbeOk, provider, circuit, store, IInv
<1>1. TypeOK'
  BY Records DEF TypeOK
<1>2. CircuitOpen'
  <2>1. Taken' = Taken
    BY SameTaken, Records DEF InProvider, TypeOK, TaskRecords
  <2> QED BY <2>1, Records DEF CircuitOpen, TypeOK
<1>3. GotOnlyScheduling'
  BY Records DEF GotOnlyScheduling, TypeOK, WorkerRecords
<1>4. LeasesAreCarried'
  BY Records DEF LeasesAreCarried, GotOnlyScheduling, TypeOK, TaskRecords, WorkerRecords
<1> QED BY <1>1, <1>2, <1>3, <1>4

(* A probe that does not leaves it open.                                   *)
LEMMA ProbeFailsKeeps ==
    ASSUME IInv, ProbeFails
    PROVE  IInv'
<1> USE DEF ProbeFails, provider, circuit, store, IInv
<1>1. TypeOK'
  BY Records DEF TypeOK
<1>2. CircuitOpen'
  <2>1. Taken' = Taken
    BY SameTaken, Records DEF InProvider, TypeOK, TaskRecords
  <2> QED BY <2>1, Records DEF CircuitOpen, TypeOK
<1>3. GotOnlyScheduling'
  BY Records DEF GotOnlyScheduling, TypeOK, WorkerRecords
<1>4. LeasesAreCarried'
  BY Records DEF LeasesAreCarried, GotOnlyScheduling, TypeOK, TaskRecords, WorkerRecords
<1> QED BY <1>1, <1>2, <1>3, <1>4

(* The worker is told.                                                     *)
LEMMA NotifyKeeps ==
    ASSUME IInv, Notify
    PROVE  IInv'
<1> USE DEF Notify, provider, circuit, store, IInv
<1>1. TypeOK'
  BY Records DEF TypeOK
<1>2. CircuitOpen'
  <2>1. Taken' = Taken
    BY SameTaken, Records DEF InProvider, TypeOK, TaskRecords
  <2> QED BY <2>1, Records DEF CircuitOpen, TypeOK
<1>3. GotOnlyScheduling'
  BY Records DEF GotOnlyScheduling, TypeOK, WorkerRecords
<1>4. LeasesAreCarried'
  BY Records DEF LeasesAreCarried, GotOnlyScheduling, TypeOK, TaskRecords, WorkerRecords
<1> QED BY <1>1, <1>2, <1>3, <1>4

(* The worker starts to drain.                                             *)
LEMMA NotifiedKeeps ==
    ASSUME IInv, Notified
    PROVE  IInv'
<1> USE DEF Notified, provider, circuit, store, IInv
<1>0. worker' \in WorkerRecords
  BY Records DEF TypeOK, WorkerRecords
<1>1. TypeOK'
  BY Records, <1>0 DEF TypeOK
<1>2. CircuitOpen'
  <2>1. Taken' = Taken
    BY SameTaken, Records DEF InProvider, TypeOK, TaskRecords
  <2> QED BY <2>1 DEF CircuitOpen
<1>3. GotOnlyScheduling'
  BY Records DEF GotOnlyScheduling, TypeOK, WorkerRecords
<1>4. LeasesAreCarried'
  BY Records DEF LeasesAreCarried, GotOnlyScheduling, TypeOK, TaskRecords, WorkerRecords
<1> QED BY <1>1, <1>2, <1>3, <1>4

(* The health check takes a permit, or ends while the circuit is open.     *)
LEMMA HealthCheckKeeps ==
    ASSUME IInv, HealthCheck
    PROVE  IInv'
<1> USE DEF HealthCheck, provider, circuit, store, IInv
<1>0. worker' \in WorkerRecords
  BY Records DEF TypeOK, WorkerRecords
<1>1. TypeOK'
  BY Records, <1>0 DEF TypeOK
<1>2. CircuitOpen'
  <2>1. CASE available
    <3>1. worker'.pc = "check"
      BY <2>1, Records DEF WorkerRecords
    <3>2. Taken' = Taken + 1
      BY <3>1, WorkerTaken
    <3> QED BY <2>1, <3>2, TakenNat, SomePermit DEF CircuitOpen
  <2>2. CASE ~available
    <3>1. Taken' = Taken
      BY <2>2, SameTaken, Records DEF InProvider
    <3> QED BY <3>1 DEF CircuitOpen
  <2> QED BY <2>1, <2>2
<1>3. GotOnlyScheduling'
  BY Records DEF GotOnlyScheduling, TypeOK, WorkerRecords
<1>4. LeasesAreCarried'
  BY Records DEF LeasesAreCarried, GotOnlyScheduling, TypeOK, TaskRecords, WorkerRecords
<1> QED BY <1>1, <1>2, <1>3, <1>4

(* A health check that succeeds lets the drain claim.                      *)
LEMMA HealthyKeeps ==
    ASSUME IInv, Healthy
    PROVE  IInv'
<1> USE DEF Healthy, provider, circuit, store, IInv
<1>0. worker' \in WorkerRecords
  BY Records DEF TypeOK, WorkerRecords
<1>1. TypeOK'
  BY Records, <1>0 DEF TypeOK
<1>2. CircuitOpen'
  <2>1. Taken' = Taken \/ Taken' = Taken - 1
    BY WorkerTaken, SameTaken, Records DEF InProvider, TypeOK, TaskRecords
  <2> QED BY <2>1, TakenNat, SomePermit DEF CircuitOpen
<1>3. GotOnlyScheduling'
  BY Records DEF GotOnlyScheduling, TypeOK, WorkerRecords
<1>4. LeasesAreCarried'
  BY Records DEF LeasesAreCarried, GotOnlyScheduling, TypeOK, TaskRecords, WorkerRecords
<1> QED BY <1>1, <1>2, <1>3, <1>4

(* One that fails ends the drain.                                          *)
LEMMA UnhealthyKeeps ==
    ASSUME IInv, Unhealthy
    PROVE  IInv'
<1> USE DEF Unhealthy, provider, circuit, store, IInv
<1>0. worker' \in WorkerRecords
  BY Records DEF TypeOK, WorkerRecords
<1>1. TypeOK'
  BY Records, <1>0 DEF TypeOK
<1>2. CircuitOpen'
  <2>1. Taken' = Taken \/ Taken' = Taken - 1
    BY WorkerTaken, SameTaken, Records DEF InProvider, TypeOK, TaskRecords
  <2> QED BY <2>1, TakenNat, SomePermit DEF CircuitOpen
<1>3. GotOnlyScheduling'
  BY Records DEF GotOnlyScheduling, TypeOK, WorkerRecords
<1>4. LeasesAreCarried'
  BY Records DEF LeasesAreCarried, GotOnlyScheduling, TypeOK, TaskRecords, WorkerRecords
<1> QED BY <1>1, <1>2, <1>3, <1>4

(* The drain leases rows.                                                  *)
LEMMA ClaimKeeps ==
    ASSUME IInv, Claim
    PROVE  IInv'
<1> USE DEF Claim, provider, circuit, store, IInv
<1>0. PICK S \in SUBSET Mems : claimed' = claimed \cup S /\ worker' = [worker EXCEPT !.pc = "schedule", !.got = S]
  BY DEF Claimable, kSubset
<1>5. worker' \in WorkerRecords /\ worker'.got = S
  BY <1>0 DEF TypeOK, WorkerRecords
<1>1. TypeOK'
  BY Records, <1>0, <1>5 DEF TypeOK
<1>2. CircuitOpen'
  <2>1. Taken' = Taken
    BY SameTaken, <1>0, Records DEF InProvider, TypeOK, TaskRecords
  <2> QED BY <2>1 DEF CircuitOpen
<1>3. GotOnlyScheduling'
  BY Records, <1>0, <1>5 DEF GotOnlyScheduling, TypeOK, WorkerRecords
<1>4. LeasesAreCarried'
  BY Records, <1>0, <1>5 DEF LeasesAreCarried, GotOnlyScheduling, TypeOK, TaskRecords, WorkerRecords
<1> QED BY <1>1, <1>2, <1>3, <1>4

(* Each is handed to a task, or its lease is given back.                   *)
LEMMA ScheduleKeeps ==
    ASSUME IInv, NEW m \in Mems, Schedule(m)
    PROVE  IInv'
<1> USE DEF Schedule, provider, circuit, store, IInv, Queue
<1>0. worker' \in WorkerRecords /\ worker'.got = worker.got \ {m} /\ worker'.pc = worker.pc
  <2>1. CASE task[m].pc = "none"
    <3>1. worker.queued + 1 \in Nat
      BY DEF TypeOK, WorkerRecords
    <3>2. PICK n \in Nat : worker' = [worker EXCEPT !.got = worker.got \ {m}, !.queued = n]
      BY <2>1, <3>1
    <3> QED BY Zenon, <3>2 DEF TypeOK, WorkerRecords
  <2>2. CASE task[m].pc # "none"
    BY <2>2 DEF TypeOK, WorkerRecords
  <2> QED BY <2>1, <2>2
<1>5. task' \in [Mems -> TaskRecords]
  BY QueuedRecord DEF TypeOK
<1>1. TypeOK'
  BY Records, <1>0, <1>5 DEF TypeOK
<1>2. CircuitOpen'
  <2>1. Taken' = Taken
    BY <1>0, SameTaken, QueuedRecord DEF InProvider, TypeOK
  <2> QED BY <2>1 DEF CircuitOpen
<1>3. GotOnlyScheduling'
  BY Records, <1>0, <1>5 DEF GotOnlyScheduling, TypeOK, WorkerRecords
<1>4. LeasesAreCarried'
  <2>1. ASSUME NEW n \in claimed', n # m
        PROVE  n \in worker'.got \/ (task'[n].pc # "none" /\ task'[n].token)
    <3>1. n \in claimed /\ task'[n] = task[n]
      BY <2>1 DEF TypeOK
    <3> QED BY <1>0, <2>1, <3>1 DEF LeasesAreCarried
  <2>2. m \in claimed' => task'[m].pc # "none" /\ task'[m].token
    BY QueuedRecord DEF TypeOK
  <2> QED BY Records, <2>1, <2>2 DEF LeasesAreCarried, GotOnlyScheduling, TypeOK, TaskRecords, WorkerRecords
<1> QED BY <1>1, <1>2, <1>3, <1>4

(* A drain that queued nothing ends.                                       *)
LEMMA ScheduledKeeps ==
    ASSUME IInv, Scheduled
    PROVE  IInv'
<1> USE DEF Scheduled, provider, circuit, store, IInv
<1>0. worker' \in WorkerRecords
  BY Records DEF TypeOK, WorkerRecords
<1>1. TypeOK'
  BY Records, <1>0 DEF TypeOK
<1>2. CircuitOpen'
  <2>1. Taken' = Taken
    BY SameTaken, Records DEF InProvider, TypeOK, TaskRecords
  <2> QED BY <2>1 DEF CircuitOpen
<1>3. GotOnlyScheduling'
  BY Records DEF GotOnlyScheduling, TypeOK, WorkerRecords
<1>4. LeasesAreCarried'
  BY Records DEF LeasesAreCarried, GotOnlyScheduling, TypeOK, TaskRecords, WorkerRecords
<1> QED BY <1>1, <1>2, <1>3, <1>4

(* Every step keeps the invariant.                                         *)
LEMMA NextIInv == IInv /\ [Next]_vars => IInv'
<1> SUFFICES ASSUME IInv, [Next]_vars PROVE IInv'
  OBVIOUS
<1>1. CASE GoDown \/ ComeBack
  BY <1>1, GoDownKeeps, ComeBackKeeps
<1>2. CASE Probe
  BY <1>2, ProbeCallKeeps, ProbeOkKeeps, ProbeFailsKeeps, NotifyKeeps DEF Probe
<1>3. CASE Worker
  BY <1>3, NotifiedKeeps, HealthCheckKeeps, HealthyKeeps, UnhealthyKeeps,
     ClaimKeeps, ScheduledKeeps, ScheduleKeeps DEF Worker
<1>4. ASSUME NEW m \in Mems, Write(m) \/ EmbedStep(m) PROVE IInv'
  BY <1>4, WriteKeeps, SpawnEmbedKeeps, EmbedKeeps, EmbedOkKeeps,
     EmbedRejectedKeeps, EmbedTransientKeeps, EmbedLimitedKeeps, RetryEmbedKeeps,
     ApplyVectorKeeps, GiveUpKeeps DEF EmbedStep, Answer
<1>5. CASE UNCHANGED vars
  <2> USE <1>5 DEF vars, IInv
  <2>1. TypeOK'
    BY DEF TypeOK
  <2>2. CircuitOpen'
    BY SameTaken DEF CircuitOpen, InProvider
  <2>3. GotOnlyScheduling' /\ LeasesAreCarried'
    BY DEF GotOnlyScheduling, LeasesAreCarried
  <2> QED BY <2>1, <2>2, <2>3
<1> QED BY <1>1, <1>2, <1>3, <1>4, <1>5 DEF Next

(* The calls under way are among the taken permits, but for the probe's.   *)
LEMMA CallsTaken == IInv => CallsBounded
<1> SUFFICES ASSUME IInv PROVE CallsBounded
  OBVIOUS
<1> DEFINE Calling == {m \in Mems : task[m].pc = "call"}
<1>1. IsFiniteSet(Calling) /\ Cardinality(Calling) <= Cardinality(Busy) /\ Cardinality(Calling) \in Nat
  BY BusyFinite, FS_Subset, FS_CardinalityType DEF Busy, InProvider
<1>2. Cardinality(Calling) + (IF worker.pc = "check" THEN 1 ELSE 0) <= Taken
  BY <1>1, BusyFinite DEF Taken, Busy
<1> HIDE DEF Calling
<1>3. CASE probe.pc = "check"
  <2>1. Taken <= Permits - 1
    BY <1>3 DEF IInv, CircuitOpen
  <2>2. ProviderCalls <= Taken + 1
    BY <1>1, <1>2, <1>3, TakenNat DEF ProviderCalls, Calling
  <2>3. ProviderCalls \in Nat
    BY <1>1 DEF ProviderCalls, Calling
  <2> QED BY <2>1, <2>2, <2>3, TakenNat, SomePermit DEF CallsBounded
<1>4. CASE probe.pc # "check"
  <2>1. ProviderCalls <= Taken /\ ProviderCalls \in Nat
    BY <1>1, <1>2, <1>4, TakenNat DEF ProviderCalls, Calling
  <2> QED BY <2>1, TakenNat, SomePermit DEF CallsBounded, IInv, CircuitOpen
<1> QED BY <1>3, <1>4

(* The state of the provider stack, of the worker and of the tasks has its *)
(* type, for any number of memories, permits and retries.                  *)
THEOREM RecoveryTypes == Spec => []TypeOK
<1>1. IInv => TypeOK
  BY DEF IInv
<1> QED BY <1>1, InitIInv, NextIInv, PTL DEF Spec

(* limits.max_concurrent_embedding_requests bounds the calls under way at  *)
(* the provider, those of the tasks (embed), of the worker's health check  *)
(* and of the health probe, which takes no permit (limited.rs,             *)
(* resilient.rs).                                                          *)
THEOREM CallsAreBounded == Spec => []CallsBounded
BY InitIInv, NextIInv, CallsTaken, PTL DEF Spec

(* Every re-embed lease of a process is carried by its worker or by a task *)
(* that gives it back (main.rs, drain_unembedded; orchestrator,            *)
(* apply_embedding_result and the release after a failure).                *)
THEOREM EveryLeaseIsCarried == Spec => []LeasesAreCarried
<1>1. IInv => LeasesAreCarried
  BY DEF IInv
<1> QED BY <1>1, InitIInv, NextIInv, PTL DEF Spec
=============================================================================
