-------------------------- MODULE ProviderRecovery --------------------------
(***************************************************************************)
(* The provider stack of one process and the worker that repairs the       *)
(* backlog: the concurrency limit (embedding/limited.rs) around the        *)
(* circuit breaker with its retries and its health probe                   *)
(* (embedding/resilient.rs), and the recovery worker of main.rs, which     *)
(* drains unembedded memories at start-up and after each recovery.         *)
(*                                                                         *)
(* Chunks hold one memory: a larger chunk that is rejected is repeated     *)
(* item by item, through the same path.  Queries of searches take it too   *)
(* and are left out.  Revisions, shutdown, crashes and lapsed leases are   *)
(* the business of EmbedPipeline.  Delays pass at any moment.              *)
(***************************************************************************)
EXTENDS Naturals, FiniteSets, FiniteSetsExt

CONSTANTS
    Mems,         \* memories
    Rejectable,   \* memories whose content the provider may reject for good
    Permits,      \* limits.max_concurrent_embedding_requests
    MaxRetries,   \* limits.embedding_max_retries
    ClaimLimit,   \* limits.max_reembed_limit
    MaxOutages    \* bound: outages of the provider

ASSUME RejectableAreMemories == Rejectable \subseteq Mems /\ IsFiniteSet(Mems)
ASSUME SomePermit == {Permits, ClaimLimit} \subseteq Nat \ {0} /\ {MaxRetries, MaxOutages} \subseteq Nat

VARIABLES
    up, outages,  \* the provider, and how often it went down
    rejects,      \* the memories it rejects for good
    limiting,     \* whether it may answer 429
    available,    \* the circuit: ResilientEmbedding.available
    probe,        \* position of the health probe
    permit,       \* the permit stored by recovery_notify
    worker,       \* the recovery worker: position, claimed rows, rows queued
    mem,          \* the store: state of each memory
    claimed,      \* memories under a re-embed lease
    unspawned,    \* memories committed by a writer that has yet to spawn
    task          \* the embed task of each memory (one: in-flight keys)

vars == <<up, outages, rejects, limiting, available, probe, permit, worker, mem, claimed, unspawned, task>>
provider == <<up, outages, rejects, limiting>>
circuit == <<available, probe, permit>>
store == <<mem, claimed, unspawned>>

TaskRecords ==
    [pc : {"none", "queued", "call", "backoff", "done", "failed"}, attempt : Nat, tainted : BOOLEAN, token : BOOLEAN]
WorkerRecords ==
    [pc : {"wait", "health", "check", "claim", "schedule"}, got : SUBSET Mems, queued : Nat, tainted : BOOLEAN]

\* A call notes whether the provider was down at any time since it was issued:
\* such a call may fail even if the provider is up again when it returns.
NoTask == [pc |-> "none", attempt |-> 0, tainted |-> FALSE, token |-> FALSE]
Waiting == [pc |-> "wait", got |-> {}, queued |-> 0, tainted |-> FALSE]
Draining == [pc |-> "health", got |-> {}, queued |-> 0, tainted |-> FALSE]

Init ==
    /\ up \in BOOLEAN /\ outages = (IF up THEN 0 ELSE 1) /\ outages <= MaxOutages
    /\ limiting \in BOOLEAN /\ rejects = IF limiting THEN Rejectable ELSE {}
    /\ available = up                     \* the health check of new_with_clock
    /\ probe = [pc |-> "sleep", tainted |-> FALSE]
    /\ permit = FALSE
    /\ worker = Draining                  \* the drain at start-up
    /\ mem \in [Mems -> {"absent", "pending"}]
    /\ claimed = {} /\ unspawned = {}
    /\ task = [m \in Mems |-> NoTask]

\* Permits of the limit that are taken.
InProvider(m) == task[m].pc \in {"call", "backoff"}
Taken == Cardinality({m \in Mems : InProvider(m)}) + (IF worker.pc = "check" THEN 1 ELSE 0)

----------------------------------------------------------------------------
(* The provider (external).                                                *)

GoDown ==
    /\ up /\ outages < MaxOutages
    /\ up' = FALSE /\ outages' = outages + 1
    /\ probe' = [probe EXCEPT !.tainted = probe.pc = "check"]
    /\ worker' = [worker EXCEPT !.tainted = worker.pc = "check"]
    /\ task' = [m \in Mems |-> [task[m] EXCEPT !.tainted = task[m].pc = "call"]]
    /\ UNCHANGED <<rejects, limiting, available, permit, store>>

ComeBack ==
    /\ ~up /\ up' = TRUE
    /\ UNCHANGED <<outages, rejects, limiting, circuit, store, worker, task>>

\* Outcomes of a call.
Fails(tainted) == ~up \/ tainted
Succeeds == up

----------------------------------------------------------------------------
(* Writers: the row is committed first, its task is spawned afterwards.    *)

Write(m) ==
    /\ mem[m] = "absent"
    /\ mem' = [mem EXCEPT ![m] = "pending"]
    /\ unspawned' = unspawned \cup {m}
    /\ UNCHANGED <<provider, circuit, claimed, worker, task>>

Queued(token) == [NoTask EXCEPT !.pc = "queued", !.token = token]
Queue(m, token) == task' = [task EXCEPT ![m] = Queued(token)]

\* A task in flight for the same revision makes this one a duplicate.
SpawnEmbed(m) ==
    /\ m \in unspawned
    /\ unspawned' = unspawned \ {m}
    /\ IF task[m].pc = "none" THEN Queue(m, FALSE) ELSE UNCHANGED task
    /\ UNCHANGED <<provider, circuit, mem, claimed, worker>>

----------------------------------------------------------------------------
(* embed: limit, circuit, attempts.                                        *)

Embed(m) ==
    /\ task[m].pc = "queued" /\ Taken < Permits
    /\ task' = [task EXCEPT ![m] =
                   IF available THEN [@ EXCEPT !.pc = "call", !.tainted = ~up]
                                ELSE [@ EXCEPT !.pc = "failed"]]
    /\ UNCHANGED <<provider, circuit, store, worker>>

EmbedOk(m) ==
    /\ task[m].pc = "call" /\ Succeeds /\ m \notin rejects
    /\ task' = [task EXCEPT ![m] = [@ EXCEPT !.pc = "done"]]
    /\ UNCHANGED <<provider, circuit, store, worker>>

EmbedRejected(m) ==
    /\ task[m].pc = "call" /\ Succeeds /\ m \in rejects
    /\ task' = [task EXCEPT ![m] = [@ EXCEPT !.pc = "failed"]]
    /\ UNCHANGED <<provider, circuit, store, worker>>

\* retry_transient: back off while retries are left.
Retried(m) == task' = [task EXCEPT ![m] = [@ EXCEPT !.pc = "backoff"]]

EmbedTransient(m) ==
    /\ task[m].pc = "call" /\ Fails(task[m].tainted)
    /\ IF task[m].attempt < MaxRetries
       THEN Retried(m) /\ UNCHANGED available
       ELSE /\ task' = [task EXCEPT ![m] = [@ EXCEPT !.pc = "failed"]]
            /\ available' = FALSE          \* handle_embed_error
    /\ UNCHANGED <<provider, probe, permit, store, worker>>

\* HTTP 429: never opens the circuit; a Retry-After beyond the maximal delay
\* ends the attempts at once.
EmbedLimited(m) ==
    /\ limiting /\ task[m].pc = "call" /\ Succeeds
    /\ \/ task[m].attempt < MaxRetries /\ Retried(m)
       \/ task' = [task EXCEPT ![m] = [@ EXCEPT !.pc = "failed"]]
    /\ UNCHANGED <<provider, circuit, store, worker>>

RetryEmbed(m) ==
    /\ task[m].pc = "backoff"
    /\ task' = [task EXCEPT ![m] = [@ EXCEPT !.pc = "call", !.attempt = task[m].attempt + 1, !.tainted = ~up]]
    /\ UNCHANGED <<provider, circuit, store, worker>>

\* apply_embedding_result: set_embedding also clears the claim.
ApplyVector(m) ==
    /\ task[m].pc = "done"
    /\ mem' = [mem EXCEPT ![m] = "embedded"]
    /\ claimed' = claimed \ {m}
    /\ task' = [task EXCEPT ![m] = NoTask]
    /\ UNCHANGED <<provider, circuit, unspawned, worker>>

\* A fault: the claim of a failed embedding is kept.
KeepClaim(m) ==
    /\ task[m].pc = "failed"
    /\ task' = [task EXCEPT ![m] = NoTask]
    /\ UNCHANGED <<provider, circuit, store, worker>>

GiveUp(m) ==
    /\ task[m].pc = "failed"
    /\ claimed' = IF task[m].token THEN claimed \ {m} ELSE claimed
    /\ task' = [task EXCEPT ![m] = NoTask]
    /\ UNCHANGED <<provider, circuit, mem, unspawned, worker>>

----------------------------------------------------------------------------
(* spawn_health_probe: calls the provider past the limit.                  *)

\* A fault: the provider is probed at every tick.
ProbeAlways ==
    /\ probe.pc = "sleep"
    /\ probe' = [pc |-> "check", tainted |-> ~up]
    /\ UNCHANGED <<provider, available, permit, store, worker, task>>

\* An available provider is not probed.
ProbeCall ==
    /\ probe.pc = "sleep" /\ ~available
    /\ probe' = [pc |-> "check", tainted |-> ~up]
    /\ UNCHANGED <<provider, available, permit, store, worker, task>>

\* A 429 counts as reached.
ProbeOk ==
    /\ probe.pc = "check" /\ Succeeds
    /\ available' = TRUE
    /\ probe' = [pc |-> "notify", tainted |-> FALSE]
    /\ UNCHANGED <<provider, permit, store, worker, task>>

ProbeFails ==
    /\ probe.pc = "check" /\ Fails(probe.tainted)
    /\ probe' = [pc |-> "sleep", tainted |-> FALSE]
    /\ UNCHANGED <<provider, available, permit, store, worker, task>>

\* A fault: the worker is not told.
SkipNotify ==
    /\ probe.pc = "notify"
    /\ probe' = [probe EXCEPT !.pc = "sleep"]
    /\ UNCHANGED <<provider, available, permit, store, worker, task>>

\* notify_one leaves a permit when nobody waits.
Notify ==
    /\ probe.pc = "notify"
    /\ permit' = TRUE
    /\ probe' = [probe EXCEPT !.pc = "sleep"]
    /\ UNCHANGED <<provider, available, store, worker, task>>

----------------------------------------------------------------------------
(* spawn_recovery_reembed and drain_unembedded.                            *)

Notified ==
    /\ worker.pc = "wait" /\ permit
    /\ permit' = FALSE
    /\ worker' = Draining
    /\ UNCHANGED <<provider, available, probe, store, task>>

\* reembed begins with a health check, through the limit and the circuit; any
\* error ends the drain and leaves the circuit as it is.
HealthCheck ==
    /\ worker.pc = "health" /\ Taken < Permits
    /\ worker' = IF available THEN [Draining EXCEPT !.pc = "check", !.tainted = ~up] ELSE Waiting
    /\ UNCHANGED <<provider, circuit, store, task>>

Healthy ==
    /\ worker.pc = "check" /\ Succeeds
    /\ worker' = [Draining EXCEPT !.pc = "claim"]
    /\ UNCHANGED <<provider, circuit, store, task>>

\* A fault: the drain goes on after an error.
DrainAgain ==
    /\ worker.pc = "check" /\ (Fails(worker.tainted) \/ limiting)
    /\ worker' = Draining
    /\ UNCHANGED <<provider, circuit, store, task>>

Unhealthy ==
    /\ worker.pc = "check" /\ (Fails(worker.tainted) \/ limiting)
    /\ worker' = Waiting
    /\ UNCHANGED <<provider, circuit, store, task>>

\* claim_for_reembed leases as many unleased rows as the limit allows.
Claimable == {m \in Mems : mem[m] = "pending" /\ m \notin claimed}

Claim ==
    /\ worker.pc = "claim"
    /\ \E S \in kSubset(Min({ClaimLimit, Cardinality(Claimable)}), Claimable) :
          /\ claimed' = claimed \cup S
          /\ worker' = [worker EXCEPT !.pc = "schedule", !.got = S]
    /\ UNCHANGED <<provider, circuit, mem, unspawned, task>>

\* prepare_work: a row whose task is in flight is skipped and its claim released.
Schedule(m) ==
    /\ worker.pc = "schedule" /\ m \in worker.got
    /\ IF task[m].pc = "none"
       THEN /\ Queue(m, TRUE)
            /\ worker' = [worker EXCEPT !.got = @ \ {m}, !.queued = @ + 1]
            /\ UNCHANGED claimed
       ELSE /\ claimed' = claimed \ {m}
            /\ worker' = [worker EXCEPT !.got = @ \ {m}]
            /\ UNCHANGED task
    /\ UNCHANGED <<provider, circuit, mem, unspawned>>

\* Queued(0) ends the drain, Queued(n) asks for more.
Scheduled ==
    /\ worker.pc = "schedule" /\ worker.got = {}
    /\ worker' = IF worker.queued = 0 THEN Waiting ELSE Draining
    /\ UNCHANGED <<provider, circuit, store, task>>

----------------------------------------------------------------------------
Answer(m) == EmbedOk(m) \/ EmbedRejected(m) \/ EmbedTransient(m) \/ EmbedLimited(m)
EmbedStep(m) ==
    SpawnEmbed(m) \/ Embed(m) \/ Answer(m) \/ RetryEmbed(m) \/ ApplyVector(m) \/ GiveUp(m)
Probe == ProbeCall \/ ProbeOk \/ ProbeFails \/ Notify
Worker ==
    \/ Notified \/ HealthCheck \/ Healthy \/ Unhealthy \/ Claim \/ Scheduled
    \/ \E m \in Mems : Schedule(m)

Next ==
    \/ GoDown \/ ComeBack \/ Probe \/ Worker
    \/ \E m \in Mems : Write(m) \/ EmbedStep(m)

Spec == Init /\ [][Next]_vars

\* Timers fire and calls return (they carry a timeout), so tasks, probe and
\* worker keep moving; a task that competes for permits is served in turn
\* (tokio's semaphore is fair).
FairSpec ==
    /\ Spec
    /\ \A m \in Mems : WF_vars(EmbedStep(m)) /\ SF_vars(Embed(m))
    /\ WF_vars(Probe) /\ WF_vars(Worker) /\ SF_vars(HealthCheck)

----------------------------------------------------------------------------
(* Properties.                                                             *)

TypeOK ==
    /\ up \in BOOLEAN /\ available \in BOOLEAN /\ permit \in BOOLEAN
    /\ outages \in Nat /\ outages <= MaxOutages
    /\ rejects \subseteq Rejectable /\ limiting \in BOOLEAN
    /\ probe \in [pc : {"sleep", "check", "notify"}, tainted : BOOLEAN]
    /\ worker \in WorkerRecords
    /\ mem \in [Mems -> {"absent", "pending", "embedded"}]
    /\ claimed \subseteq Mems /\ unspawned \subseteq Mems
    /\ task \in [Mems -> TaskRecords]

\* Every lease of the process is carried by its worker or by a task that holds
\* the token: a failed, skipped or coalesced embedding gives its lease back, so
\* the next drain can claim the row without waiting for the lease to lapse.
LeasesAreCarried ==
    \A m \in claimed : m \in worker.got \/ (task[m].pc # "none" /\ task[m].token)

\* max_concurrent_embedding_requests bounds all calls under way at the provider,
\* the health probe's included, although the probe calls past the limit: it
\* calls only while the circuit is open, the circuit opens only as a call ends,
\* and no call starts while it is open.
ProviderCalls ==
    Cardinality({m \in Mems : task[m].pc = "call"})
      + (IF worker.pc = "check" THEN 1 ELSE 0) + (IF probe.pc = "check" THEN 1 ELSE 0)
CallsBounded == ProviderCalls <= Permits

\* main.rs says that drain_unembedded re-embeds "all unembedded memories in
\* batches, returning the total queued": a drain ends, whatever the provider does.
EveryDrainReturns == (worker.pc # "wait") ~> (worker.pc = "wait")

\* With a provider that neither rejects nor limits, a drain ends: one that fails
\* opens the circuit, which fails the next health check, and one that answers
\* empties the backlog.
Obliging == rejects = {} /\ ~limiting
DrainReturns == Obliging => EveryDrainReturns

\* With such a provider a memory left behind by an outage is embedded after the
\* recovery, whatever is written meanwhile, provided that nothing started in the outage lingers on: no
\* task, no spawn to come, no drain past its health check.
Calm ==
    /\ unspawned = {} /\ \A m \in Mems : task[m].pc = "none"
    /\ worker.pc \in {"wait", "health"}
OutageBacklogIsEmbedded ==
    \A m \in Mems :
        (Obliging /\ mem[m] = "pending" /\ ~available /\ Calm /\ []up) ~> (mem[m] = "embedded")

\* main.rs says that the worker "re-embeds unembedded memories whenever the
\* embedding provider recovers from an outage": if outages end, no memory
\* stays without a vector.
EverythingEmbedded ==
    \A m \in Mems : Obliging /\ <>[]up => (mem[m] = "pending" ~> mem[m] = "embedded")
=============================================================================
