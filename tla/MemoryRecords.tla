---------------------------- MODULE MemoryRecords ----------------------------
(***************************************************************************)
(* The rows of the memories table and everyone who writes them: requests,  *)
(* the optimistic editor of the operator UI, bulk requests, expiry cleanup,*)
(* scope reassignment and consolidation (store/crud.rs, store/admin.rs,    *)
(* types.rs, and the multi-call operations of engine.rs).                  *)
(*                                                                         *)
(* One store call is one BEGIN IMMEDIATE transaction, hence one step.  An  *)
(* operation that makes several calls (a bulk request, a consolidation, an *)
(* edit) keeps what it read in a variable of its own and anything may      *)
(* happen before its next call.                                            *)
(***************************************************************************)
EXTENDS Naturals, FiniteSets

CONSTANTS
    Ids,             \* memory identifiers, never reused
    NoId,            \* no identifier
    Principals,      \* authenticated callers
    NoOwner,         \* a memory without a source agent
    Policies,        \* access policies
    Bodies,          \* memory texts
    Attrs,           \* values of every other column, of the entities and of the metadata
    Profiles,        \* ordered context memberships
    Keep,            \* an update leaves the field alone
    Drafts,          \* the memories callers store
    Updates,         \* the updates callers send
    Editors,         \* open editors of the operator UI
    Consolidators,   \* consolidation requests in progress
    ListLimit,       \* max_list_limit
    CandidateLimit,  \* consolidation_candidate_limit
    MaxNow,          \* bound on the wall clock
    MaxRevision      \* bound on the revisions of one row

Ttls == {"none", "pending", "past"}
DraftRecords ==
    [owner : Principals \cup {NoOwner}, policy : Policies, body : Bodies, profile : Profiles,
     ttl : {"none", "pending"}]
UpdateRecords ==
    [body : Bodies \cup {Keep}, attrs : Attrs \cup {Keep}, policy : Policies \cup {Keep},
     ttl : {"none", "pending"} \cup {Keep}, profile : Profiles \cup {Keep}]

ASSUME PoliciesAreTyped ==
    Policies \subseteq [type : {"public", "restricted", "redacted"}, allowed : SUBSET Principals]
ASSUME DraftsAreTyped == Drafts \subseteq DraftRecords
ASSUME UpdatesAreTyped == Updates \subseteq UpdateRecords
ASSUME NamesAreDistinct ==
    /\ NoId \notin Ids /\ NoOwner \notin Principals
    /\ \A V \in {Bodies, Attrs, Policies, Profiles, Ttls} : Keep \notin V
ASSUME BoundsAreNaturals == {ListLimit, CandidateLimit, MaxNow, MaxRevision} \subseteq Nat
ASSUME ValuesExist == Policies # {} /\ Bodies # {} /\ Attrs # {} /\ Profiles # {} /\ Principals # {}

VARIABLES
    row,     \* row[i]: the memories row of i
    tombs,   \* memory_tombstones
    editor,  \* editor[e]: the record an editor opened
    bulk,    \* the bulk request between its list call and its write call
    plan     \* plan[k]: consolidation k between its list call and its last merge

vars == <<row, tombs, editor, bulk, plan>>

Rows ==
    [status : {"unborn", "live", "gone"}, owner : Principals \cup {NoOwner}, policy : Policies,
     body : Bodies, attrs : Attrs, ttl : Ttls, profile : Profiles, sup : Ids \cup {NoId},
     emb : BOOLEAN, updated : Nat, rev : Nat]
Tombstones == [id : Ids, owner : Principals \cup {NoOwner}, policy : Policies]
EditorRecords == [st : {"closed", "open", "applied"}, by : Principals, id : Ids \cup {NoId}, seen : Rows]
BulkRequests == [by : Principals, ids : SUBSET Ids]
Snapshots == [id : Ids, rev : Nat, profile : Profiles]
Plans == [by : Principals, todo : SUBSET [member : Snapshots, rep : Snapshots]]

Blank(status) ==
    [status |-> status, owner |-> NoOwner, policy |-> CHOOSE p \in Policies : TRUE,
     body |-> CHOOSE b \in Bodies : TRUE, attrs |-> CHOOSE a \in Attrs : TRUE, ttl |-> "none",
     profile |-> CHOOSE c \in Profiles : TRUE, sup |-> NoId, emb |-> FALSE, updated |-> 0, rev |-> 0]
Closed == [st |-> "closed", by |-> CHOOSE p \in Principals : TRUE, id |-> NoId, seen |-> Blank("unborn")]
NoBulk == [by |-> CHOOSE p \in Principals : TRUE, ids |-> {}]
NoPlan == [by |-> CHOOSE p \in Principals : TRUE, todo |-> {}]

TypeOK ==
    /\ row \in [Ids -> Rows]
    /\ tombs \subseteq Tombstones
    /\ editor \in [Editors -> EditorRecords]
    /\ bulk \in BulkRequests
    /\ plan \in [Consolidators -> Plans]

Live(i) == row[i].status = "live"
LiveIds == {i \in Ids : Live(i)}

-----------------------------------------------------------------------------
(* Who may read and write a memory.                                        *)

WriteAccess(r, p) ==
    \/ r.owner = p
    \/ r.policy.type = "public" /\ r.owner = NoOwner
    \/ r.policy.type = "restricted" /\ p \in r.policy.allowed

AccessLevel(r, p) ==
    IF \/ r.policy.type = "public"
       \/ r.owner = p
       \/ r.policy.type = "restricted" /\ p \in r.policy.allowed
    THEN "full"
    ELSE IF r.policy.type = "redacted" THEN "redacted" ELSE "denied"

\* Only a full view carries the optimistic revision.
Openable(i, p) == Live(i) /\ row[i].ttl # "past" /\ AccessLevel(row[i], p) = "full"
Listable(i, p) == Live(i) /\ row[i].ttl # "past" /\ AccessLevel(row[i], p) # "denied"

-----------------------------------------------------------------------------
(* What one transaction does to the rows.                                  *)

\* A fault: the timestamp is the clock's.
ClockUpdated(now, previous) == now
NextUpdated(now, previous) == IF now > previous THEN now ELSE previous + 1

\* build_set_clause with apply_update_inner, and the revision the callers add
\* for an update of metadata or memberships alone.
Touches(u) == \E f \in {"body", "attrs", "policy", "ttl", "profile"} : u[f] # Keep
Changed(old, new) == IF new = Keep THEN old ELSE new
Updated(r, u, now) ==
    [r EXCEPT !.body = Changed(@, u.body),
              !.attrs = Changed(@, u.attrs),
              !.policy = Changed(@, u.policy),
              !.ttl = Changed(@, u.ttl),
              !.profile = Changed(@, u.profile),
              !.emb = @ /\ u.body = Keep,
              !.updated = IF u.body = Keep THEN @ ELSE NextUpdated(now, @),
              !.rev = IF Touches(u) THEN @ + 1 ELSE @]

\* Row r superseded by new, or released.
MarkedBy(r, new) == [r EXCEPT !.sup = new, !.rev = @ + 1]

\* A deleted row takes its metadata, entities and memberships with it; the
\* trigger releases the rows it superseded.
WithoutRows(D) ==
    [i \in Ids |->
        IF i \in D THEN Blank("gone")
        ELSE IF Live(i) /\ row[i].sup \in D THEN MarkedBy(row[i], NoId)
        ELSE row[i]]
WithTombstones(D) ==
    {t \in tombs : t.id \notin D}
        \cup {[id |-> i, owner |-> row[i].owner, policy |-> row[i].policy] : i \in D}
DeleteRows(D) ==
    /\ row' = WithoutRows(D)
    /\ tombs' = WithTombstones(D)

Inserted(d) ==
    [Blank("live") EXCEPT !.owner = d.owner, !.policy = d.policy, !.body = d.body,
                          !.profile = d.profile, !.ttl = d.ttl, !.rev = 1]

\* A fault: the mark does not advance the revision.
SupersededNoRevision(f, old, new) == [f EXCEPT ![old] = [@ EXCEPT !.sup = new]]
\* Superseded(f, old, new): mark_superseded on the rows f.
Superseded(f, old, new) == [f EXCEPT ![old] = MarkedBy(@, new)]
Supersedable(i) == Live(i) /\ row[i].sup = NoId /\ row[i].rev < MaxRevision

-----------------------------------------------------------------------------
(* Requests of one store call.                                             *)

\* Marked(f, old, new): f with old, if any, marked as superseded by new.
Marked(f, old, new) == IF old = NoId THEN f ELSE Superseded(f, old, new)

\* The new row and the mark on the one it supersedes commit together; a memory
\* that is gone or already superseded fails the whole call.
Store(i, d, old) ==
    /\ row[i].status = "unborn" /\ (old # NoId => Supersedable(old))
    /\ row' = Marked([row EXCEPT ![i] = Inserted(d)], old, i)
    /\ UNCHANGED <<tombs, editor, bulk, plan>>

\* A batch commits every item or none.
StoreBatch(i, j, d, old) ==
    /\ i # j /\ {row[i].status, row[j].status} = {"unborn"} /\ (old # NoId => Supersedable(old))
    /\ row' = Marked([row EXCEPT ![i] = Inserted(d), ![j] = Inserted(d)], old, j)
    /\ UNCHANGED <<tombs, editor, bulk, plan>>

\* An authorized update; one that changes nothing still commits.
Update(i, p, u, now) ==
    /\ Live(i) /\ WriteAccess(row[i], p) /\ row[i].rev < MaxRevision
    /\ row' = [row EXCEPT ![i] = Updated(@, u, now)]
    /\ UNCHANGED <<tombs, editor, bulk, plan>>

Annotated(r, a) == [r EXCEPT !.attrs = a, !.rev = @ + 1]
UpsertMetadata(i, a) ==
    /\ Live(i) /\ row[i].rev < MaxRevision
    /\ row' = [row EXCEPT ![i] = Annotated(@, a)]
    /\ UNCHANGED <<tombs, editor, bulk, plan>>

Delete(i, p) ==
    /\ Live(i) /\ WriteAccess(row[i], p)
    /\ DeleteRows({i})
    /\ UNCHANGED <<editor, bulk, plan>>

\* Every writable memory of one scope moves in one transaction.
Reassign(p, c, d) ==
    LET M == {i \in LiveIds : row[i].profile = c /\ WriteAccess(row[i], p)}
    IN  /\ c # d /\ M # {} /\ \A i \in M : row[i].rev < MaxRevision
        /\ row' = [i \in Ids |-> IF i \in M THEN [row[i] EXCEPT !.profile = d, !.rev = @ + 1] ELSE row[i]]
        /\ UNCHANGED <<tombs, editor, bulk, plan>>

\* A fault: expiry cleanup leaves no tombstone.
EvictWithoutTombstones(D) ==
    /\ D # {}
    /\ row' = WithoutRows(D)
    /\ UNCHANGED <<tombs, editor, bulk, plan>>
EvictExpired(D) ==
    /\ D # {}
    /\ DeleteRows(D)
    /\ UNCHANGED <<editor, bulk, plan>>
EvictAuthorized(p) == EvictExpired({i \in LiveIds : row[i].ttl = "past" /\ WriteAccess(row[i], p)})
EvictAll == EvictExpired({i \in LiveIds : row[i].ttl = "past"})

\* The orchestrator applies a vector (EmbedPipeline); no revision of the record.
SetEmbedding(i) ==
    /\ Live(i) /\ ~row[i].emb
    /\ row' = [row EXCEPT ![i] = [@ EXCEPT !.emb = TRUE]]
    /\ UNCHANGED <<tombs, editor, bulk, plan>>

Expire(i) ==
    /\ Live(i) /\ row[i].ttl = "pending"
    /\ row' = [row EXCEPT ![i] = [@ EXCEPT !.ttl = "past"]]
    /\ UNCHANGED <<tombs, editor, bulk, plan>>

-----------------------------------------------------------------------------
(* The optimistic editor: read now, write or delete later if the revision  *)
(* still is the one that was read.                                         *)

Open(e, p, i) ==
    /\ editor[e].st # "open" /\ Openable(i, p)
    /\ editor' = [editor EXCEPT ![e] = [st |-> "open", by |-> p, id |-> i, seen |-> row[i]]]
    /\ UNCHANGED <<row, tombs, bulk, plan>>

Unmodified(e) ==
    LET i == editor[e].id
    IN  /\ editor[e].st = "open" /\ Live(i)
        /\ WriteAccess(row[i], editor[e].by)
        /\ row[i].rev = editor[e].seen.rev

\* The editor may bring the vector of its new text.
Saved(r, u, now, vector) == [Updated(r, u, now) EXCEPT !.emb = @ \/ vector]
SaveIfUnmodified(e, u, now, vector) ==
    /\ Unmodified(e) /\ row[editor[e].id].rev < MaxRevision
    /\ vector => u.body # Keep
    /\ row' = [row EXCEPT ![editor[e].id] = Saved(@, u, now, vector)]
    /\ editor' = [editor EXCEPT ![e] = [Closed EXCEPT !.st = "applied"]]
    /\ UNCHANGED <<tombs, bulk, plan>>

DeleteIfUnmodified(e) ==
    /\ Unmodified(e)
    /\ DeleteRows({editor[e].id})
    /\ editor' = [editor EXCEPT ![e] = [Closed EXCEPT !.st = "applied"]]
    /\ UNCHANGED <<bulk, plan>>

\* Not found, denied or in conflict: the write changes nothing.
RefuseEdit(e) ==
    /\ editor[e].st = "open" /\ ~Unmodified(e)
    /\ editor' = [editor EXCEPT ![e] = Closed]
    /\ UNCHANGED <<row, tombs, bulk, plan>>

-----------------------------------------------------------------------------
(* Bulk requests: one call lists, the next one writes what was listed and  *)
(* checks every row's authorization again, not the filter.                 *)

BulkList(p, S) ==
    /\ bulk.ids = {} /\ S # {} /\ Cardinality(S) <= ListLimit
    /\ \A i \in S : Listable(i, p)
    /\ bulk' = [by |-> p, ids |-> S]
    /\ UNCHANGED <<row, tombs, editor, plan>>

BulkTargets == {i \in bulk.ids : Live(i) /\ WriteAccess(row[i], bulk.by)}

BulkDelete ==
    /\ bulk.ids # {}
    /\ DeleteRows(BulkTargets)
    /\ bulk' = NoBulk
    /\ UNCHANGED <<editor, plan>>

BulkUpdate(u) ==
    /\ bulk.ids # {} /\ u.body = Keep /\ u.ttl = Keep /\ u.profile = Keep
    /\ \A i \in BulkTargets : row[i].rev < MaxRevision
    /\ row' = [i \in Ids |-> IF i \in BulkTargets THEN Updated(row[i], u, 0) ELSE row[i]]
    /\ bulk' = NoBulk
    /\ UNCHANGED <<tombs, editor, plan>>

-----------------------------------------------------------------------------
(* Consolidation: list the candidates, group the similar ones of one       *)
(* context profile, then supersede every member of a group by its          *)
(* representative, each in a transaction of its own.                       *)

Candidate(i, p) ==
    Live(i) /\ row[i].emb /\ row[i].sup = NoId /\ row[i].ttl # "past" /\ WriteAccess(row[i], p)
SnapshotOf(i) == [id |-> i, rev |-> row[i].rev, profile |-> row[i].profile]

\* rep[i]: the representative of the group of i, i itself when it is in none.
\* Which candidates are similar, and which was used last, is arbitrary.
Groupings(C) ==
    {rep \in [C -> C] : \A i \in C : rep[rep[i]] = rep[i] /\ row[rep[i]].profile = row[i].profile}

Merges(C, rep) ==
    {[member |-> SnapshotOf(i), rep |-> SnapshotOf(rep[i])] : i \in {j \in C : rep[j] # j}}

Consolidate(k, p, C) ==
    /\ plan[k].todo = {} /\ Cardinality(C) \in 2..CandidateLimit
    /\ \A i \in C : Candidate(i, p)
    /\ \E rep \in Groupings(C) :
         /\ Merges(C, rep) # {}
         /\ plan' = [plan EXCEPT ![k] = [by |-> p, todo |-> Merges(C, rep)]]
    /\ UNCHANGED <<row, tombs, editor, bulk>>

Unchanged(s) == Live(s.id) /\ row[s.id].rev = s.rev /\ row[s.id].profile = s.profile

\* A fault: only the member's revision is compared.
MergeableMemberOnly(p, m) ==
    /\ m.member.id # m.rep.id /\ m.member.profile = m.rep.profile
    /\ Unchanged(m.member) /\ Live(m.rep.id)
    /\ WriteAccess(row[m.member.id], p)
    /\ row[m.member.id].sup = NoId
\* mark_superseded_by_authorized_audited_if_unchanged.
Mergeable(p, m) ==
    /\ m.member.id # m.rep.id /\ m.member.profile = m.rep.profile
    /\ Unchanged(m.member) /\ Unchanged(m.rep)
    /\ WriteAccess(row[m.member.id], p)
    /\ row[m.member.id].sup = NoId

Without(pl, m) == IF pl.todo = {m} THEN NoPlan ELSE [pl EXCEPT !.todo = @ \ {m}]

Merge(k, m) ==
    /\ m \in plan[k].todo /\ Mergeable(plan[k].by, m) /\ row[m.member.id].rev < MaxRevision
    /\ row' = Superseded(row, m.member.id, m.rep.id)
    /\ plan' = [plan EXCEPT ![k] = Without(@, m)]
    /\ UNCHANGED <<tombs, editor, bulk>>

\* Not found, denied or changed: the member is skipped.
SkipMerge(k, m) ==
    /\ m \in plan[k].todo /\ ~Mergeable(plan[k].by, m)
    /\ plan' = [plan EXCEPT ![k] = Without(@, m)]
    /\ UNCHANGED <<row, tombs, editor, bulk>>

\* A failed call ends the operation; what it merged so far stays merged.
AbandonMerges(k) ==
    /\ plan[k].todo # {}
    /\ plan' = [plan EXCEPT ![k] = NoPlan]
    /\ UNCHANGED <<row, tombs, editor, bulk>>

-----------------------------------------------------------------------------
Init ==
    /\ row = [i \in Ids |-> Blank("unborn")]
    /\ tombs = {}
    /\ editor = [e \in Editors |-> Closed]
    /\ bulk = NoBulk
    /\ plan = [k \in Consolidators |-> NoPlan]

StoreStep ==
    \E i \in Ids, d \in Drafts, old \in Ids \cup {NoId} :
        Store(i, d, old) \/ \E j \in Ids : StoreBatch(i, j, d, old)

RequestStep ==
    \E p \in Principals :
        \/ \E i \in Ids, u \in Updates, now \in 0..MaxNow : Update(i, p, u, now)
        \/ \E i \in Ids : Delete(i, p)
        \/ \E c, d \in Profiles : Reassign(p, c, d)
        \/ EvictAuthorized(p)
        \/ \E S \in SUBSET Ids : BulkList(p, S)
        \/ \E k \in Consolidators, C \in SUBSET Ids : Consolidate(k, p, C)

EditorStep ==
    \E e \in Editors :
        \/ \E p \in Principals, i \in Ids : Open(e, p, i)
        \/ \E u \in Updates, now \in 0..MaxNow, vector \in BOOLEAN : SaveIfUnmodified(e, u, now, vector)
        \/ DeleteIfUnmodified(e)
        \/ RefuseEdit(e)

Next ==
    \/ StoreStep
    \/ RequestStep
    \/ EditorStep
    \/ \E i \in Ids, a \in Attrs : UpsertMetadata(i, a)
    \/ EvictAll
    \/ \E i \in Ids : SetEmbedding(i) \/ Expire(i)
    \/ BulkDelete \/ \E u \in Updates : BulkUpdate(u)
    \/ \E k \in Consolidators :
          (\E m \in plan[k].todo : Merge(k, m) \/ SkipMerge(k, m)) \/ AbandonMerges(k)

Spec == Init /\ [][Next]_vars

-----------------------------------------------------------------------------
(* What the revision covers: everything but the vector and the passing of  *)
(* time.                                                                   *)
Versioned(r) == [r EXCEPT !.emb = FALSE, !.ttl = IF @ = "past" THEN "pending" ELSE @]

\* An optimistic save or delete that is applied finds the record exactly as the
\* editor saw it: no write of a request, a merge, a reassignment or the release
\* of a superseded memory is overwritten unseen.
NoLostUpdate ==
    [][\A e \in Editors :
          editor[e].st = "open" /\ editor'[e].st = "applied" =>
              /\ Live(editor[e].id)
              /\ Versioned(row[editor[e].id]) = Versioned(editor[e].seen)]_vars

\* updated_at identifies the text of a memory, also when the wall clock steps
\* back between two updates (next_memory_revision).
UpdatedIdentifiesBody ==
    \A e \in Editors :
        LET r == row[editor[e].id]
        IN  editor[e].st = "open" /\ Live(editor[e].id) /\ r.updated = editor[e].seen.updated =>
                r.body = editor[e].seen.body

\* Superseded memories lead to one that exists and is not superseded: concurrent
\* consolidations never supersede memories by each other, which would hide all of
\* them from recall, and the deletion of a superseder releases what it superseded.
SupersessionWellFounded ==
    /\ \A S \in (SUBSET Ids) \ {{}} : \E i \in S : ~Live(i) \/ row[i].sup \notin S
    /\ \A i \in LiveIds : row[i].sup # NoId => Live(row[i].sup)

\* A memory is superseded at most once, and then by a memory that is itself not
\* superseded and, unless it is the memory being stored, has the same ordered
\* contexts: consolidation never hides a fact behind one that is hidden itself or
\* belongs to another context.
MergeKeepsTheFact ==
    [][\A i \in Ids :
          LET s == row'[i].sup
          IN  Live(i) /\ s \notin {row[i].sup, NoId} =>
                  /\ row[i].sup = NoId
                  /\ row'[s].status = "live" /\ row'[s].sup = NoId
                  /\ row[s].status = "unborn" \/ row[s].profile = row[i].profile]_vars

\* Every deletion, by whichever path, leaves a tombstone with the owner and the
\* policy the memory had last, and tombstones are never lost or rewritten.
TombstonesKeepAuthority ==
    [][/\ tombs \subseteq tombs'
       /\ \A i \in LiveIds :
             row'[i].status = "gone" =>
                 [id |-> i, owner |-> row[i].owner, policy |-> row[i].policy] \in tombs']_vars

=============================================================================
