---------------------------- MODULE EmbedPipeline ----------------------------
(***************************************************************************)
(* Store-then-embed: the embedding orchestrator of every LocalHold process *)
(* (embedding/orchestrator) over one shared memory store (store/crud.rs,   *)
(* store/admin.rs, store/sqlite.rs).                                       *)
(*                                                                         *)
(* A write commits a memory without a vector and leaves the embedding to a *)
(* background task; a bulk re-embed leases unembedded rows under a claim   *)
(* token and hands them to background tasks in chunks.  Every store call   *)
(* is one write transaction, hence one step; every await between two of    *)
(* them is a place where any other step may happen.                        *)
(*                                                                         *)
(* A shutdown takes the steps of shutdown_with_cleanup; its admission      *)
(* counter and its wake-ups are in BackgroundTasks.  Time is abstract: a   *)
(* lease may lapse, a deadline may pass, at any moment.                    *)
(***************************************************************************)
EXTENDS Naturals, FiniteSets

CONSTANTS
    Ids,          \* memory identifiers, never reused
    Contents,     \* memory texts
    Profiles,     \* vector spaces an embedding provider can be configured for
    Procs,        \* LocalHold processes sharing the store
    Slots,        \* operations and tasks one process runs at a time
    Absent,       \* (abstract) the memory does not exist
    NoVector,     \* the memory has no vector
    NoProfile,    \* no vector space is recorded; a provider that is disabled
    ChunkSize,    \* embedding_batch_size
    ClaimLimit,   \* bound on the rows of one bulk re-embed
    MaxRevision,  \* bound on content updates of one memory
    MaxTokens,    \* bound on bulk re-embeds
    MaxStops,     \* bound on shutdowns
    MaxFaults     \* bound on crashes, failed store calls, lapses and reindexes

ASSUME ChunkSizePositive == ChunkSize \in Nat \ {0}
ASSUME BoundsAreNaturals == {ClaimLimit, MaxRevision, MaxTokens, MaxStops, MaxFaults} \subseteq Nat
ASSUME AbsencesAreDistinct ==
    /\ Absent \notin Contents /\ NoProfile \notin Profiles
    /\ NoVector \notin [content : Contents, profile : Profiles \cup {NoProfile}]

VARIABLES
    row,        \* row[i]: the memories row and its embedding columns
    vec,        \* vec[i]: the vector of i (map and vector table), or NoVector
    profile,    \* the embedding_profile singleton, or NoProfile
    nextToken,  \* claim tokens are fresh
    batch,      \* batch[<<p, s>>]: one operation or background task of p
    inflight,   \* inflight[p]: inflight_embeds of p
    active,     \* active[p]: active_claimed_embeds of p
    proc,       \* proc[p]: shutdown stage and flags, configured provider
    detached,   \* store calls of dropped tasks that still run
    stops,      \* shutdowns so far
    faults      \* faults so far

db == <<row, vec, profile>>
guards == <<inflight, active>>
vars == <<row, vec, profile, nextToken, batch, inflight, active, proc, detached, stops, faults>>

Batches == Procs \X Slots
Host(b) == b[1]
Work == [id : Ids, content : Contents, rev : Nat]
Vectors == [content : Contents, profile : Profiles]
Key(w) == <<w.id, w.rev>>
ActiveClaim(w, t) == [id |-> w.id, rev |-> w.rev, token |-> t]
Claims == [id : Ids, rev : Nat, token : Nat]

Rows == [status : {"unborn", "live", "gone"}, content : Contents \cup {Absent},
         rev : Nat, has : BOOLEAN, token : Nat, lapsed : BOOLEAN]

(***************************************************************************)
(* A batch.  by: an operation holds an admission until it returns; a task  *)
(* is in the join set until a shutdown takes it ("taken").  rest: work of  *)
(* later chunks.  todo: work of this chunk not yet prepared, not yet       *)
(* applied or not yet released.  held: work whose guards the batch owns.   *)
(* ok: work the provider embedded.  undo: work whose claim is released by  *)
(* the store call in progress.  token: its claim token, 0 for none.        *)
(***************************************************************************)
Pcs == {"idle", "admitted", "read", "schedule", "prepare", "reprepare", "embed", "apply", "reject", "leaving"}
BatchRecords ==
    [pc : Pcs, by : {"op", "task", "taken"}, token : Nat, rest : SUBSET Work,
     todo : SUBSET Work, held : SUBSET Work, ok : SUBSET Work, undo : SUBSET Work]
Idle == [pc |-> "idle", by |-> "op", token |-> 0, rest |-> {}, todo |-> {},
         held |-> {}, ok |-> {}, undo |-> {}]

(***************************************************************************)
(* A process.  shutting, closed, reset: shutting_down,                     *)
(* admitted_spawns_closed and reset_after_admission_timeout.  snapshot:    *)
(* the claims its cleanup has yet to release.  released (history): those   *)
(* it has called the store for.                                            *)
(***************************************************************************)
Stages == {"down", "serving", "waiting", "drained", "joining", "expiring", "ending",
           "refusing", "overdue", "overrun", "dropping"}
ProcRecords ==
    [stage : Stages, shutting : BOOLEAN, closed : BOOLEAN, reset : BOOLEAN,
     profile : Profiles \cup {NoProfile}, snapshot : SUBSET Claims, released : SUBSET Claims]
Down == [stage |-> "down", shutting |-> FALSE, closed |-> FALSE, reset |-> FALSE,
         profile |-> NoProfile, snapshot |-> {}, released |-> {}]

Init ==
    /\ row = [i \in Ids |-> [status |-> "unborn", content |-> Absent, rev |-> 0,
                             has |-> FALSE, token |-> 0, lapsed |-> FALSE]]
    /\ vec = [i \in Ids |-> NoVector]
    /\ profile = NoProfile
    /\ nextToken = 1
    /\ batch = [b \in Batches |-> Idle]
    /\ inflight = [p \in Procs |-> {}]
    /\ active = [p \in Procs |-> {}]
    /\ proc = [p \in Procs |-> Down]
    /\ detached = {}
    /\ stops = 0
    /\ faults = 0

Unclaimed(r) == [r EXCEPT !.token = 0, !.lapsed = FALSE]
Unembedded(r) == [r EXCEPT !.has = FALSE, !.token = 0, !.lapsed = FALSE]
SetProc(p, new) == proc' = [proc EXCEPT ![p] = new]

Fault == faults < MaxFaults /\ faults' = faults + 1
Running(p) == proc[p].stage # "down"
Become(b, new) == batch' = [batch EXCEPT ![b] = new]
Free(b) == Running(Host(b)) /\ batch[b].pc = "idle"

(***************************************************************************)
(* The store: one definition per transaction.                              *)
(***************************************************************************)

\* A fault: the vector is written whatever the row's revision is by now.
WritableAnyRevision(w, pr) ==
    /\ pr = NoProfile \/ pr = profile
    /\ row[w.id].status = "live"

\* A fault: the vector space is verified at startup only.
WritableAnyProfile(w, pr) ==
    /\ row[w.id].status = "live"
    /\ row[w.id].rev = w.rev

\* The row has the revision the vector was computed for, and the vector space
\* of the writer is the one the store records (set_embedding).
Writable(w, pr) ==
    /\ pr = NoProfile \/ pr = profile
    /\ row[w.id].status = "live"
    /\ row[w.id].rev = w.rev

SetEmbedding(w, pr) ==
    /\ vec' = [vec EXCEPT ![w.id] = [content |-> w.content, profile |-> pr]]
    /\ row' = [row EXCEPT ![w.id] = [Unclaimed(row[w.id]) EXCEPT !.has = TRUE]]
    /\ UNCHANGED profile

\* The claim is cleared only if the row still carries this very claim.
ReleaseClaim(i, rev, t) ==
    /\ row' = IF /\ row[i].status = "live" /\ ~row[i].has
                 /\ row[i].rev = rev /\ row[i].token = t
              THEN [row EXCEPT ![i] = Unclaimed(row[i])]
              ELSE row
    /\ UNCHANGED <<vec, profile>>

\* A store call either runs or reports an error; an error may hide a commit.
CallFails(committed) == Fault /\ (committed \/ UNCHANGED db)

(***************************************************************************)
(* Processes.                                                              *)
(***************************************************************************)

\* Startup verifies the configured vector space against the recorded one and
\* stamps it into a store that has neither a profile nor vectors; a mismatch
\* stops startup.  A disabled provider verifies nothing.
Start(p, pr) ==
    /\ proc[p].stage = "down"
    /\ \/ pr = NoProfile /\ UNCHANGED profile
       \/ pr # NoProfile /\ profile = pr /\ UNCHANGED profile
       \/ /\ pr # NoProfile /\ profile = NoProfile
          /\ \A i \in Ids : vec[i] = NoVector
          /\ profile' = pr
    /\ SetProc(p, [Down EXCEPT !.stage = "serving", !.profile = pr])
    /\ UNCHANGED <<row, vec, nextToken, batch, guards, detached, faults, stops>>

\* `hold embeddings reindex`: drops every vector and claim, records the space.
Reindex(pr) ==
    /\ Fault
    /\ profile' = pr
    /\ vec' = [i \in Ids |-> NoVector]
    /\ row' = [i \in Ids |-> Unembedded(row[i])]
    /\ UNCHANGED <<nextToken, batch, guards, proc, detached, stops>>

(***************************************************************************)
(* Operations.  An operation is admitted before it writes and keeps its    *)
(* admission until it returns.                                             *)
(***************************************************************************)
Admitted(b) == batch[b].by = "op" /\ batch[b].pc \notin {"idle", "read", "leaving"}

Admit(b) ==
    /\ Free(b)
    /\ ~proc[Host(b)].shutting
    /\ Become(b, [Idle EXCEPT !.pc = "admitted"])
    /\ UNCHANGED <<db, nextToken, guards, proc, detached, faults, stops>>

\* The operation has nothing (more) to schedule, or its write was refused.  It
\* gives its admission up: the last one looks at the reset flag next.  A begin that
\* is about to back out may keep it from being the last; a flag that is not set
\* by now is read at once, for a later reading is that of a later return.
OpReturns(b) ==
    /\ \/ batch[b].pc = "admitted"
       \/ batch[b].pc = "schedule" /\ batch[b].rest = {}
    /\ \/ Become(b, Idle)
       \/ /\ proc[Host(b)].reset
          /\ \A c \in Batches : Host(c) = Host(b) /\ Admitted(c) => c = b
          /\ Become(b, [Idle EXCEPT !.pc = "leaving"])
    /\ UNCHANGED <<db, nextToken, guards, proc, detached, faults, stops>>

\* The last admission to end after a timed-out shutdown reopens the process.
LastDropped(b) ==
    /\ batch[b].pc = "leaving"
    /\ Become(b, Idle)
    /\ IF proc[Host(b)].reset
       THEN SetProc(Host(b), [proc[Host(b)] EXCEPT !.reset = FALSE, !.closed = FALSE, !.shutting = FALSE])
       ELSE UNCHANGED proc
    /\ UNCHANGED <<db, nextToken, guards, detached, faults, stops>>

NewWork(S, f, rev) == {[id |-> i, content |-> f[i], rev |-> rev[i]] : i \in S}

\* store_and_embed and its batch forms: the rows are committed without vectors.
Store(b, S, f) ==
    /\ batch[b].pc = "admitted"
    /\ S # {} /\ \A i \in S : row[i].status = "unborn"
    /\ row' = [i \in Ids |-> IF i \in S THEN [row[i] EXCEPT !.status = "live", !.content = f[i]]
                                        ELSE row[i]]
    /\ Become(b, [batch[b] EXCEPT !.pc = "schedule", !.rest = NewWork(S, f, [i \in S |-> 0])])
    /\ UNCHANGED <<vec, profile, nextToken, guards, proc, detached, faults, stops>>

\* A content update drops the vector and the claim and advances the revision.
Update(b, i, c) ==
    /\ batch[b].pc = "admitted"
    /\ row[i].status = "live" /\ row[i].rev < MaxRevision
    /\ row' = [row EXCEPT ![i] = [Unembedded(row[i]) EXCEPT !.content = c, !.rev = row[i].rev + 1]]
    /\ vec' = [vec EXCEPT ![i] = NoVector]
    /\ Become(b, [batch[b] EXCEPT !.pc = "schedule",
                     !.rest = {[id |-> i, content |-> c, rev |-> row[i].rev + 1]}])
    /\ UNCHANGED <<profile, nextToken, guards, proc, detached, faults, stops>>

\* Deletes and expiry; the vector goes with the row (cascade and trigger).
Delete(S) ==
    /\ \E p \in Procs : Running(p)
    /\ S # {} /\ \A i \in S : row[i].status = "live"
    /\ row' = [i \in Ids |-> IF i \in S THEN [Unembedded(row[i]) EXCEPT !.status = "gone", !.content = Absent]
                                        ELSE row[i]]
    /\ vec' = [i \in Ids |-> IF i \in S THEN NoVector ELSE vec[i]]
    /\ UNCHANGED <<profile, nextToken, batch, guards, proc, detached, faults, stops>>

\* A fault: a row under another claim is claimed again.
ClaimableUnderClaim(i) == row[i].status = "live" /\ ~row[i].has

Claimable(i) ==
    /\ row[i].status = "live" /\ ~row[i].has
    /\ row[i].token = 0 \/ row[i].lapsed

\* claim_for_reembed: which claimable rows are taken depends on the caller's
\* scope and on age; the provider has just passed its health check.
Claim(b, S) ==
    /\ batch[b].pc = "admitted"
    /\ proc[Host(b)].profile # NoProfile
    /\ S # {} /\ Cardinality(S) <= ClaimLimit /\ \A i \in S : Claimable(i)
    /\ nextToken <= MaxTokens
    /\ row' = [i \in Ids |-> IF i \in S THEN [row[i] EXCEPT !.token = nextToken, !.lapsed = FALSE]
                                        ELSE row[i]]
    /\ nextToken' = nextToken + 1
    /\ Become(b, [batch[b] EXCEPT !.pc = "schedule", !.token = nextToken,
                     !.rest = NewWork(S, [i \in S |-> row[i].content], [i \in S |-> row[i].rev])])
    /\ UNCHANGED <<vec, profile, guards, proc, detached, faults, stops>>

LeaseLapses(i) ==
    /\ row[i].token # 0 /\ ~row[i].lapsed
    /\ Fault
    /\ row' = [row EXCEPT ![i] = [row[i] EXCEPT !.lapsed = TRUE]]
    /\ UNCHANGED <<vec, profile, nextToken, batch, guards, proc, detached, stops>>

(***************************************************************************)
(* Re-embedding one memory by id reads the content and the revision in two *)
(* statements, and only then asks for admission (get_for_reembed).         *)
(***************************************************************************)
ReadContent(b, i) ==
    /\ Free(b)
    /\ proc[Host(b)].profile # NoProfile
    /\ row[i].status = "live"
    /\ Become(b, [Idle EXCEPT !.pc = "read",
                     !.rest = {[id |-> i, content |-> row[i].content, rev |-> 0]}])
    /\ UNCHANGED <<db, nextToken, guards, proc, detached, faults, stops>>

ReadRevision(b) ==
    /\ batch[b].pc = "read"
    /\ \E w \in batch[b].rest :
         IF row[w.id].status = "live" /\ ~proc[Host(b)].shutting
         THEN Become(b, [batch[b] EXCEPT !.pc = "schedule",
                            !.rest = {[w EXCEPT !.rev = row[w.id].rev]}])
         ELSE Become(b, Idle)
    /\ UNCHANGED <<db, nextToken, guards, proc, detached, faults, stops>>

(***************************************************************************)
(* Scheduling: the work is prepared and spawned chunk by chunk.            *)
(***************************************************************************)
TakeChunk(b, S) ==
    /\ batch[b].pc = "schedule"
    /\ S # {} /\ S \subseteq batch[b].rest
    /\ \/ Cardinality(S) = ChunkSize
       \/ S = batch[b].rest /\ Cardinality(S) < ChunkSize
    /\ Become(b, [batch[b] EXCEPT !.pc = "prepare", !.todo = S, !.rest = @ \ S])
    /\ UNCHANGED <<db, nextToken, guards, proc, detached, faults, stops>>

Track(p, w, t) ==
    /\ inflight' = [inflight EXCEPT ![p] = @ \cup {Key(w)}]
    /\ active' = [active EXCEPT ![p] = IF t = 0 THEN @ ELSE @ \cup {ActiveClaim(w, t)}]

\* Dropping a guard removes its entry from the set it points into.
DropGuards(p, W, t) ==
    /\ inflight' = [inflight EXCEPT ![p] = @ \ {Key(w) : w \in W}]
    /\ active' = [active EXCEPT ![p] = @ \ {ActiveClaim(w, t) : w \in W}]

\* A fault: a duplicate is skipped and its claim forgotten.
PrepareForgetsClaim(b, w) ==
    /\ batch[b].pc \in {"prepare", "reprepare"}
    /\ batch[b].undo = {} /\ w \in batch[b].todo
    /\ IF Key(w) \in inflight[Host(b)]
       THEN Become(b, [batch[b] EXCEPT !.todo = @ \ {w}]) /\ UNCHANGED guards
       ELSE /\ Become(b, [batch[b] EXCEPT !.todo = @ \ {w}, !.held = @ \cup {w}])
            /\ Track(Host(b), w, batch[b].token)
    /\ UNCHANGED <<db, nextToken, proc, detached, faults, stops>>

\* prepare_work: an already in-flight revision is skipped and its claim released.
Prepare(b, w) ==
    /\ batch[b].pc \in {"prepare", "reprepare"}
    /\ batch[b].undo = {} /\ w \in batch[b].todo
    /\ IF Key(w) \in inflight[Host(b)]
       THEN /\ Become(b, [batch[b] EXCEPT !.todo = @ \ {w},
                             !.undo = IF batch[b].token = 0 THEN {} ELSE {w}])
            /\ UNCHANGED guards
       ELSE /\ Become(b, [batch[b] EXCEPT !.todo = @ \ {w}, !.held = @ \cup {w}])
            /\ Track(Host(b), w, batch[b].token)
    /\ UNCHANGED <<db, nextToken, proc, detached, faults, stops>>

Prepared(b) ==
    /\ batch[b].pc \in {"prepare", "reprepare"}
    /\ batch[b].todo = {} /\ batch[b].undo = {}

\* Every item of the chunk was a duplicate.
NothingToSpawn(b) ==
    /\ Prepared(b) /\ batch[b].held = {}
    /\ Become(b, [batch[b] EXCEPT !.pc = "schedule"])
    /\ UNCHANGED <<db, nextToken, guards, proc, detached, faults, stops>>

\* The chunk becomes a task of the join set; the guards move into it.
Spawn(b, t) ==
    /\ Prepared(b) /\ batch[b].held # {} /\ batch[b].pc = "prepare"
    /\ ~proc[Host(b)].closed
    /\ Host(t) = Host(b) /\ t # b /\ batch[t].pc = "idle"
    /\ batch' = [batch EXCEPT
                   ![t] = [Idle EXCEPT !.pc = "embed", !.by = "task", !.token = batch[b].token,
                                       !.held = batch[b].held],
                   ![b] = [batch[b] EXCEPT !.pc = "schedule", !.held = {}]]
    /\ UNCHANGED <<db, nextToken, guards, proc, detached, faults, stops>>

\* A fault: the guards of a refused task are leaked.
SpawnRefusedLeaks(b) ==
    /\ Prepared(b) /\ batch[b].held # {} /\ batch[b].pc = "prepare"
    /\ proc[Host(b)].closed
    /\ Become(b, [batch[b] EXCEPT !.pc = IF batch[b].token = 0 THEN "reprepare" ELSE "reject",
                     !.todo = batch[b].held, !.held = {}])
    /\ UNCHANGED <<db, nextToken, guards, proc, detached, faults, stops>>

\* A timed-out shutdown refuses the task and drops it with its guards: claimed
\* work has its claims released, other work is prepared again and run inline.
SpawnRefused(b) ==
    /\ Prepared(b) /\ batch[b].held # {} /\ batch[b].pc = "prepare"
    /\ proc[Host(b)].closed
    /\ DropGuards(Host(b), batch[b].held, batch[b].token)
    /\ Become(b, [batch[b] EXCEPT !.pc = IF batch[b].token = 0 THEN "reprepare" ELSE "reject",
                     !.todo = batch[b].held, !.held = {}])
    /\ UNCHANGED <<db, nextToken, proc, detached, faults, stops>>

RunInline(b) ==
    /\ Prepared(b) /\ batch[b].held # {} /\ batch[b].pc = "reprepare"
    /\ Become(b, [batch[b] EXCEPT !.pc = "embed"])
    /\ UNCHANGED <<db, nextToken, guards, proc, detached, faults, stops>>

ReleaseRejected(b, w) ==
    /\ batch[b].pc = "reject" /\ batch[b].undo = {} /\ w \in batch[b].todo
    /\ Become(b, [batch[b] EXCEPT !.todo = @ \ {w}, !.undo = {w}])
    /\ UNCHANGED <<db, nextToken, guards, proc, detached, faults, stops>>

(***************************************************************************)
(* Running a batch.  The provider embeds any part of the chunk: all, none  *)
(* (the batch failed), or some (the inputs were retried one by one).       *)
(***************************************************************************)

ExecuteChunk(b, ok) ==
    /\ batch[b].pc = "embed"
    /\ ok \subseteq batch[b].held
    /\ proc[Host(b)].profile = NoProfile => ok = {}
    /\ Become(b, [batch[b] EXCEPT !.pc = "apply", !.todo = batch[b].held, !.ok = ok])
    /\ UNCHANGED <<db, nextToken, guards, proc, detached, faults, stops>>

Applying(b, w) == batch[b].pc = "apply" /\ batch[b].undo = {} /\ w \in batch[b].todo

\* The item is finished: its guards are dropped with it.
Finish(b, w) ==
    /\ Become(b, [batch[b] EXCEPT !.todo = @ \ {w}, !.held = @ \ {w}, !.undo = {}])
    /\ DropGuards(Host(b), {w}, batch[b].token)

\* Failed work is finished once its claim, if it has one, is released.
GiveUp(b, w) ==
    IF batch[b].token = 0
    THEN Finish(b, w)
    ELSE Become(b, [batch[b] EXCEPT !.undo = {w}]) /\ UNCHANGED guards

ApplyStored(b, w) ==
    /\ Applying(b, w) /\ w \in batch[b].ok
    /\ Writable(w, proc[Host(b)].profile)
    /\ SetEmbedding(w, proc[Host(b)].profile)
    /\ Finish(b, w)
    /\ UNCHANGED <<nextToken, proc, detached, faults, stops>>

ApplyRefused(b, w) ==
    /\ Applying(b, w)
    /\ w \in batch[b].ok => ~Writable(w, proc[Host(b)].profile)
    /\ GiveUp(b, w)
    /\ UNCHANGED <<db, nextToken, proc, detached, faults, stops>>

ApplyErrors(b, w) ==
    /\ Applying(b, w) /\ w \in batch[b].ok
    /\ Writable(w, proc[Host(b)].profile)
    /\ CallFails(SetEmbedding(w, proc[Host(b)].profile))
    /\ GiveUp(b, w)
    /\ UNCHANGED <<nextToken, proc, detached, stops>>

\* The release returns, having run or failed; in a run batch the item ends.
Released(b, w) ==
    IF batch[b].pc = "apply"
    THEN Finish(b, w)
    ELSE Become(b, [batch[b] EXCEPT !.undo = {}]) /\ UNCHANGED guards

Release(b, w) ==
    /\ w \in batch[b].undo
    /\ ReleaseClaim(w.id, w.rev, batch[b].token)
    /\ Released(b, w)
    /\ UNCHANGED <<nextToken, proc, detached, faults, stops>>

ReleaseErrors(b, w) ==
    /\ w \in batch[b].undo
    /\ CallFails(ReleaseClaim(w.id, w.rev, batch[b].token))
    /\ Released(b, w)
    /\ UNCHANGED <<nextToken, proc, detached, stops>>

BatchEnds(b) ==
    /\ batch[b].pc \in {"apply", "reject"} /\ batch[b].todo = {} /\ batch[b].undo = {}
    /\ Become(b, IF batch[b].by = "op" THEN [batch[b] EXCEPT !.pc = "schedule", !.ok = {}] ELSE Idle)
    /\ UNCHANGED <<db, nextToken, guards, proc, detached, faults, stops>>

(***************************************************************************)
(* Shutdown of one process, and what a dropped task leaves behind.         *)
(***************************************************************************)
Goto(p, stage) == SetProc(p, [proc[p] EXCEPT !.stage = stage])

BeginShutdown(p) ==
    /\ proc[p].stage = "serving"
    /\ stops < MaxStops /\ stops' = stops + 1
    /\ SetProc(p, [proc[p] EXCEPT !.stage = "waiting", !.shutting = TRUE])
    /\ UNCHANGED <<db, nextToken, batch, guards, detached, faults>>

AdmissionsDrain(p) ==
    /\ proc[p].stage = "waiting"
    /\ \A b \in Batches : Host(b) = p => ~Admitted(b)
    /\ Goto(p, "drained")
    /\ UNCHANGED <<db, nextToken, batch, guards, detached, faults, stops>>

\* Admitted spawns are refused, then the last admission is asked to reopen; it
\* may already have ended when the deadline passes.
AdmissionsTimeOut(p) ==
    /\ proc[p].stage = "waiting"
    /\ SetProc(p, [proc[p] EXCEPT !.stage = "refusing", !.closed = TRUE])
    /\ UNCHANGED <<db, nextToken, batch, guards, detached, faults, stops>>

RequestReset(p) ==
    /\ proc[p].stage = "refusing"
    /\ SetProc(p, [proc[p] EXCEPT !.stage = "overdue", !.reset = TRUE])
    /\ UNCHANGED <<db, nextToken, batch, guards, detached, faults, stops>>

\* The join set is taken.  A task spawned from here on is not in it.
TakeTasks(p) ==
    /\ proc[p].stage \in {"drained", "overdue"}
    /\ Goto(p, IF proc[p].stage = "drained" THEN "joining" ELSE "overrun")
    /\ batch' = [b \in Batches |-> IF Host(b) = p /\ batch[b].by = "task"
                                   THEN [batch[b] EXCEPT !.by = "taken"] ELSE batch[b]]
    /\ UNCHANGED <<db, nextToken, guards, detached, faults, stops>>

\* The deadline has passed: the cleanup copies the set of active claims.
CleanupBegins(p) ==
    /\ proc[p].stage \in {"joining", "overrun"}
    /\ SetProc(p, [proc[p] EXCEPT !.stage = IF proc[p].stage = "joining" THEN "expiring" ELSE "dropping",
                                 !.snapshot = active[p]])
    /\ UNCHANGED <<db, nextToken, batch, guards, detached, faults, stops>>

\* release_active_embedding_claims, one store call per claim of the snapshot.
CleanupCall(p, c, succeeds) ==
    /\ c \in proc[p].snapshot
    /\ IF succeeds THEN ReleaseClaim(c.id, c.rev, c.token) /\ UNCHANGED faults
                   ELSE CallFails(ReleaseClaim(c.id, c.rev, c.token))
    /\ SetProc(p, [proc[p] EXCEPT !.snapshot = proc[p].snapshot \ {c}, !.released = proc[p].released \cup {c}])
    /\ UNCHANGED <<nextToken, batch, guards, detached, stops>>

Taken(p) == {b \in Batches : Host(b) = p /\ batch[b].by = "taken"}

\* A store call a task has issued outlives the task.
Call(b, w) == [set |-> w \notin batch[b].undo, work |-> w, token |-> batch[b].token,
               profile |-> proc[Host(b)].profile]
IssuableCalls(b) ==
    {Call(b, w) : w \in batch[b].undo}
        \cup {Call(b, w) : w \in {v \in batch[b].ok \cap batch[b].todo : Applying(b, v)}}

\* The batches B are dropped: their guards go, at most one call of each goes on.
DropBatches(p, B) ==
    /\ batch' = [b \in Batches |-> IF b \in B THEN Idle ELSE batch[b]]
    /\ inflight' = [inflight EXCEPT ![p] = @ \ {Key(w) : w \in UNION {batch[b].held : b \in B}}]
    /\ active' = [active EXCEPT ![p] = @ \ UNION {{ActiveClaim(w, batch[b].token) : w \in batch[b].held} : b \in B}]
    /\ \E left \in SUBSET UNION {IssuableCalls(b) : b \in B} :
          /\ \A b \in B : Cardinality(left \cap IssuableCalls(b)) <= 1
          /\ detached' = detached \cup left

\* Unless it timed out on the admissions, the shutdown reopens the process.
ShutdownReopens(p) ==
    /\ \/ proc[p].stage = "joining" /\ Taken(p) = {}
       \/ proc[p].stage = "expiring" /\ proc[p].snapshot = {}
    /\ SetProc(p, [proc[p] EXCEPT !.stage = "ending", !.shutting = FALSE, !.closed = FALSE])
    /\ UNCHANGED <<db, nextToken, batch, guards, detached, faults, stops>>

\* Returning drops the taken join set, which aborts what is left in it.
ShutdownReturns(p) ==
    /\ proc[p].stage = "ending" \/ (proc[p].stage = "dropping" /\ proc[p].snapshot = {})
    /\ Goto(p, "serving")
    /\ DropBatches(p, Taken(p))
    /\ UNCHANGED <<db, nextToken, faults, stops>>

Exit(p) ==
    /\ proc[p].stage = "serving"
    /\ \A b \in Batches : Host(b) = p => batch[b].pc = "idle"
    /\ SetProc(p, Down)
    /\ UNCHANGED <<db, nextToken, batch, guards, detached, faults, stops>>

\* A crash, or an exit that does not wait for what still runs.
Crash(p) ==
    /\ Running(p)
    /\ Fault
    /\ SetProc(p, Down)
    /\ DropBatches(p, {b \in Batches : Host(b) = p})
    /\ UNCHANGED <<db, nextToken, stops>>

DetachedRuns(d) ==
    /\ IF ~d.set THEN ReleaseClaim(d.work.id, d.work.rev, d.token)
       ELSE IF Writable(d.work, d.profile) THEN SetEmbedding(d.work, d.profile) ELSE UNCHANGED db
    /\ detached' = detached \ {d}
    /\ UNCHANGED <<nextToken, batch, guards, proc, faults, stops>>

OpStep(b) ==
    \/ Admit(b) \/ OpReturns(b) \/ LastDropped(b)
    \/ \E S \in SUBSET Ids : \E f \in [S -> Contents] : Store(b, S, f)
    \/ \E i \in Ids, c \in Contents : Update(b, i, c)
    \/ \E S \in SUBSET Ids : Claim(b, S)
    \/ \E S \in SUBSET batch[b].rest : TakeChunk(b, S)
    \/ \E w \in batch[b].todo : Prepare(b, w) \/ ReleaseRejected(b, w)
    \/ NothingToSpawn(b) \/ SpawnRefused(b) \/ RunInline(b)
    \/ \E t \in Batches : Spawn(b, t)

RunStep(b) ==
    \/ \E ok \in SUBSET batch[b].held : ExecuteChunk(b, ok)
    \/ \E w \in batch[b].todo : ApplyStored(b, w) \/ ApplyRefused(b, w) \/ ApplyErrors(b, w)
    \/ \E w \in batch[b].undo : Release(b, w) \/ ReleaseErrors(b, w)
    \/ BatchEnds(b)

ProcStep(p) ==
    \/ \E pr \in Profiles \cup {NoProfile} : Start(p, pr)
    \/ BeginShutdown(p) \/ AdmissionsDrain(p) \/ AdmissionsTimeOut(p) \/ RequestReset(p)
    \/ TakeTasks(p) \/ CleanupBegins(p) \/ ShutdownReopens(p)
    \/ \E c \in proc[p].snapshot, succeeds \in BOOLEAN : CleanupCall(p, c, succeeds)
    \/ ShutdownReturns(p) \/ Exit(p) \/ Crash(p)

StoreStep ==
    \/ \E S \in SUBSET Ids : Delete(S)
    \/ \E i \in Ids : LeaseLapses(i)
    \/ \E pr \in Profiles : Reindex(pr)
    \/ \E d \in detached : DetachedRuns(d)

\* Everything except re-embedding one memory by id.
BulkNext ==
    \/ \E b \in Batches : OpStep(b) \/ RunStep(b)
    \/ \E p \in Procs : ProcStep(p)
    \/ StoreStep

SingleStep(b) == ReadRevision(b) \/ \E i \in Ids : ReadContent(b, i)

Next == BulkNext \/ \E b \in Batches : SingleStep(b)

BulkSpec == Init /\ [][BulkNext]_vars
Spec == Init /\ [][Next]_vars

(***************************************************************************)
(* Properties.                                                             *)
(***************************************************************************)
Calls == [set : BOOLEAN, work : Work, token : Nat, profile : Profiles \cup {NoProfile}]

\* Every variable of the orchestrators and of the store has its declared shape.
TypeOK ==
    /\ row \in [Ids -> Rows]
    /\ \A i \in Ids : row[i].status = "live" => row[i].content \in Contents
    /\ vec \in [Ids -> Vectors \cup {NoVector}]
    /\ profile \in Profiles \cup {NoProfile}
    /\ nextToken \in Nat \ {0}
    /\ batch \in [Batches -> BatchRecords]
    /\ inflight \in [Procs -> SUBSET (Ids \X Nat)]
    /\ active \in [Procs -> SUBSET Claims]
    /\ proc \in [Procs -> ProcRecords]
    /\ detached \in SUBSET Calls
    /\ stops \in Nat
    /\ faults \in Nat

WorkOf(r) == r.rest \cup r.todo \cup r.held \cup r.undo \cup r.ok
Carried(b) == WorkOf(batch[b])

\* has_embedding and the vector table agree, and a stored vector is the vector
\* of the memory's present content in the recorded vector space: the revision
\* and profile checks of set_embedding keep stale vectors out.
VectorsCurrent ==
    \A i \in Ids :
        /\ row[i].has => row[i].status = "live"
        /\ vec[i] = IF row[i].has THEN [content |-> row[i].content, profile |-> profile]
                                  ELSE NoVector

\* Work that passes the revision check carries the content of that revision,
\* whoever captured it and however long ago.
Faithful(w) ==
    /\ row[w.id].status # "unborn"
    /\ w.rev <= row[w.id].rev
    /\ row[w.id].status = "live" /\ w.rev = row[w.id].rev => w.content = row[w.id].content

WorkFaithful ==
    /\ \A b \in Batches : \A w \in Carried(b) : Faithful(w)
    /\ \A d \in detached : Faithful(d.work)

\* The in-flight and active-claim sets of a process are exactly what its batches
\* hold, and no revision is held twice: no guard is leaked by a refused spawn,
\* an aborted task or a duplicate, and none is dropped early.
GuardsExact ==
    \A p \in Procs :
        LET mine == {b \in Batches : Host(b) = p} IN
        /\ inflight[p] = {Key(w) : w \in UNION {batch[b].held : b \in mine}}
        /\ active[p] = UNION {{ActiveClaim(w, batch[b].token) : w \in batch[b].held} :
                                 b \in {c \in mine : batch[c].token # 0}}
        /\ \A b, c \in mine : \A v \in batch[b].held, w \in batch[c].held :
              Key(v) = Key(w) => b = c /\ v = w

\* A claim on an unembedded memory is carried by a batch that will embed it or
\* release it: without faults no claim is left to its lease, not by skipped
\* duplicates, refused spawns, failed embeddings or a timed-out shutdown.
ClaimsAreCarried ==
    faults = 0 =>
        \A i \in Ids : row[i].status = "live" /\ row[i].token # 0 =>
            \/ \E b \in Batches : /\ batch[b].token = row[i].token
                                  /\ \E w \in Carried(b) : Key(w) = <<i, row[i].rev>>
            \/ \E d \in detached : d.token = row[i].token /\ Key(d.work) = <<i, row[i].rev>>

\* A claim the cleanup of a timed-out shutdown has handed back.
HandedBack(b, w) == ActiveClaim(w, batch[b].token) \in proc[Host(b)].released

\* Two bulk re-embeds, of one process or of two, never embed the same revision:
\* while leases hold, the claim keeps the others away.  The one exception is a
\* claim that a timed-out shutdown has handed back while its task still runs.
NoDoubleInference ==
    faults = 0 =>
        \A b, c \in Batches :
            /\ b # c /\ batch[b].token # 0 /\ batch[c].token # 0
            /\ {batch[b].pc, batch[c].pc} \subseteq {"embed", "apply"}
            => \A v \in batch[b].held, w \in batch[c].held :
                  Key(v) = Key(w) => HandedBack(b, v) \/ HandedBack(c, w)

\* The store and its pipeline implement the abstract index: whatever the tasks,
\* claims, leases, crashes and reindexes do, each step leaves the index alone or
\* is one atomic write, removal, indexing or rebuild.
Abstract == INSTANCE EmbeddingIndex
                WITH content <- [i \in Ids |-> IF row[i].status = "live" THEN row[i].content ELSE Absent],
                     index <- vec, space <- profile
ImplementsIndex == Abstract!Spec
=============================================================================
