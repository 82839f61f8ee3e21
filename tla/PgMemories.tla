------------------------------ MODULE PgMemories ------------------------------
(***************************************************************************)
(* The memories and memory_embeddings tables of the PostgreSQL backend     *)
(* (store/postgres.rs), statement by statement.  Unlike SQLite's write     *)
(* transactions, which are one step in EmbedPipeline and MemoryRecords,    *)
(* these interleave: what one statement read may be old when the next one  *)
(* runs, and only row locks, table locks and predicates that are checked   *)
(* again keep the outcome right.                                           *)
(*                                                                         *)
(* Pending writes stay in tx[t] until the transaction commits with its     *)
(* last statement.  Claims are left to EmbedPipeline: a claim is a single  *)
(* statement.                                                              *)
(***************************************************************************)
EXTENDS PgLocks

CONSTANTS
    Ids,          \* memory identifiers, never reused, in the order of sort_unstable
    NoId,         \* no memory
    Contents,     \* memory texts
    Absent,       \* (abstract) the memory does not exist
    Profiles,     \* vector spaces
    NoVector,     \* the memory has no vector
    NoProfile,    \* no vector space is recorded
    MaxOps        \* bound on the transactions begun

ASSUME IdsAreOrdered == Ids \subseteq Nat /\ {NoId, Whole} \cap Ids = {}
ASSUME BoundIsNatural == MaxOps \in Nat
ASSUME AbsencesAreDistinct ==
    /\ Absent \notin Contents /\ NoProfile \notin Profiles
    /\ NoVector \notin [content : Contents, profile : Profiles]

VARIABLES
    row,      \* row[i]: the committed memories row of i
    born,     \* the memories in the order of created_at
    vec,      \* vec[i]: the committed memory_embeddings row of i, or NoVector
    profile,  \* the committed embedding_profile singleton, or NoProfile
    tx,       \* tx[t]: the transaction of connection t
    ops       \* transactions begun so far

vars == <<held, row, born, vec, profile, tx, ops>>
db == <<row, born, vec, profile>>

Vectors == [content : Contents, profile : Profiles]
Rows ==
    [st : {"unborn", "live", "gone"}, content : Contents \cup {Absent}, emb : Nat, rec : Nat, has : BOOLEAN,
     sup : Ids \cup {NoId}]
Blank(st) == [st |-> st, content |-> Absent, emb |-> 0, rec |-> 0, has |-> FALSE, sup |-> NoId]

\* ids: the memory the transaction is about, the member and the representative of
\* a merge, or what a bulk update has yet to reach.  seen: what the caller knew of
\* them when it made the request.  wrow, wvec: the pending row and vector.
\* touched: other rows written, by a bulk update or by the release of a deletion.
Pcs == {"idle", "profile", "revision", "vector", "mark", "lock", "write", "unvector", "free", "remove",
        "first", "second", "supersede", "each", "touch", "tables", "stamp"}
Transactions ==
    [op : {"none", "embed", "update", "save", "delete", "merge", "bulk", "reindex", "verify"}, pc : Pcs,
     ids : Seq(Ids), seen : Seq(Rows), content : Contents \cup {Absent}, space : Profiles \cup {NoProfile},
     wrow : Rows, wvec : Vectors \cup {NoVector}, touched : SUBSET Ids]
Idle ==
    [op |-> "none", pc |-> "idle", ids |-> <<>>, seen |-> <<>>, content |-> Absent, space |-> NoProfile,
     wrow |-> Blank("unborn"), wvec |-> NoVector, touched |-> {}]

TypeOK ==
    /\ row \in [Ids -> Rows] /\ born \in Seq(Ids) /\ vec \in [Ids -> Vectors \cup {NoVector}]
    /\ profile \in Profiles \cup {NoProfile}
    /\ tx \in [Txs -> Transactions]
    /\ held \in [Txs -> SUBSET [table : {"memories", "embeddings", "profile", "adopt"}, key : Ids \cup {Whole},
                                mode : RowModes \cup TableModes]]
    /\ ops \in 0..MaxOps

Live(i) == row[i].st = "live"
At(t, pc) == tx[t].pc = pc
Id(t) == tx[t].ids[1]

-----------------------------------------------------------------------------
(* The locks of each statement, in the order they are taken.               *)

Row(i, mode) == LockOn("memories", i, mode)
Vec(i) == LockOn("embeddings", i, "update")
Read(name) == <<Table(name, "accessShare")>>
\* A fault: the row is read and not locked.
PlainRead(i) == <<Table("memories", "accessShare")>>
ForUpdate(i) == <<Table("memories", "rowShare"), Row(i, "update")>>
Write(i) == <<Table("memories", "rowExclusive"), Row(i, "noKeyUpdate")>>

\* INSERT ... ON CONFLICT DO UPDATE takes the key; a new row checks its foreign key.
Insert(t, i) ==
    <<Table("embeddings", "rowExclusive"), Vec(i)>>
        \o IF vec[i] = NoVector THEN <<Row(i, "keyShare")>> ELSE <<>>
DeleteVector(i) ==
    <<Table("embeddings", "rowExclusive")>> \o IF vec[i] = NoVector THEN <<>> ELSE <<Vec(i)>>
SupersededBy(i) == {j \in Ids : Live(j) /\ row[j].sup = i}
Release(i) == <<Table("memories", "rowExclusive")>> \o SetToSeq({Row(j, "noKeyUpdate") : j \in SupersededBy(i)})
\* lock_present_managed_tables, then lock_embedding_profile.
Rebuild ==
    <<Table("memories", "accessExclusive"), Table("embeddings", "accessExclusive"),
      Table("profile", "accessExclusive"), Advisory("adopt")>>
Adopt == <<Advisory("adopt"), Table("profile", "accessShare"), Table("embeddings", "accessShare"),
           Table("profile", "rowExclusive")>>

\* A fault: the member is locked before the representative.
LockOrderUnsorted(ids) == ids
\* The rows of a merge are locked in the order of their identifiers.
LockOrder(ids) == IF ids[1] < ids[2] THEN ids ELSE Reverse(ids)

Locks(t) ==
    CASE At(t, "profile")   -> Read("profile")
      [] At(t, "revision")  -> Read("memories")
      [] At(t, "vector")    -> Insert(t, Id(t))
      [] At(t, "mark")      -> Write(Id(t))
      [] At(t, "lock")      -> ForUpdate(Id(t))
      [] At(t, "write")     -> Write(Id(t))
      [] At(t, "unvector")  -> DeleteVector(Id(t))
      [] At(t, "free")      -> Release(Id(t))
      [] At(t, "remove")    -> DeleteVector(Id(t))
      [] At(t, "first")     -> ForUpdate(LockOrder(tx[t].ids)[1])
      [] At(t, "second")    -> ForUpdate(LockOrder(tx[t].ids)[2])
      [] At(t, "supersede") -> Write(Id(t))
      [] At(t, "each")      -> ForUpdate(Id(t))
      [] At(t, "touch")     -> Write(Id(t))
      [] At(t, "tables")    -> Rebuild
      [] At(t, "stamp")     -> Adopt
      [] OTHER              -> <<>>

WaitsFor == [t \in Txs |-> UNION {Blockers(t, l) : l \in Missing(t, Locks(t))}]
Ready(t, pc) == At(t, pc) /\ Missing(t, Locks(t)) = {}

Acquire(t) ==
    \E l \in Missing(t, Locks(t)) :
        /\ Blockers(t, l) = {}
        /\ held' = [held EXCEPT ![t] = @ \cup {l}]
        /\ UNCHANGED <<db, tx, ops>>

-----------------------------------------------------------------------------
(* Beginning and ending.                                                   *)

Begin(t, op, pc, ids, content, space) ==
    /\ At(t, "idle") /\ ops < MaxOps /\ ops' = ops + 1
    /\ tx' = [tx EXCEPT ![t] = [Idle EXCEPT !.op = op, !.pc = pc, !.ids = ids, !.content = content, !.space = space,
                                            !.seen = [k \in DOMAIN ids |-> row[ids[k]]]]]
    /\ UNCHANGED <<held, db>>

Continue(t, state) == tx' = [tx EXCEPT ![t] = state] /\ UNCHANGED <<held, db, ops>>
Goto(t, pc) == Continue(t, [tx[t] EXCEPT !.pc = pc])
End(t) ==
    /\ tx' = [tx EXCEPT ![t] = Idle]
    /\ held' = [held EXCEPT ![t] = {}]
    /\ UNCHANGED ops
Rollback(t) == End(t) /\ UNCHANGED db

\* The victim of the deadlock detector, a lock timeout, a lost connection, a
\* request whose future is dropped.
Abort(t) == ~At(t, "idle") /\ Rollback(t)

-----------------------------------------------------------------------------
(* set_embedding: check the space, check the revision, write the vector,   *)
(* mark the row if its revision still is the expected one.                 *)

StartEmbed(t, i) == Live(i) /\ profile # NoProfile /\ Begin(t, "embed", "profile", <<i>>, row[i].content, profile)

\* ensure_embedding_profile_matches_tx, for set_embedding and for a save that
\* brings its vector.
CheckProfile(t) ==
    /\ Ready(t, "profile")
    /\ IF profile = tx[t].space THEN Goto(t, IF tx[t].op = "embed" THEN "revision" ELSE "vector") ELSE Rollback(t)

\* A plain read: the row may change before the next statement.
CheckRevision(t) ==
    /\ Ready(t, "revision")
    /\ IF Live(Id(t)) /\ row[Id(t)].emb = tx[t].seen[1].emb THEN Goto(t, "vector") ELSE Rollback(t)

\* insert_embedding; the foreign key refuses a memory that is gone.
InsertVector(t) ==
    /\ Ready(t, "vector")
    /\ IF Live(Id(t))
       THEN Continue(t, [tx[t] EXCEPT !.pc = "mark", !.wvec = [content |-> tx[t].content, profile |-> tx[t].space]])
       ELSE Rollback(t)

\* A fault: the row is marked whatever its revision.
MarkableAnyRevision(t) == Live(Id(t))
\* The predicate of the UPDATE, checked on the row as it is once it is locked.
Markable(t) == Live(Id(t)) /\ row[Id(t)].emb = tx[t].seen[1].emb

\* What the transaction has written to its row so far.
Pending(t) == IF tx[t].op = "embed" THEN row[Id(t)] ELSE tx[t].wrow

MarkEmbedded(t) ==
    /\ Ready(t, "mark")
    /\ IF tx[t].op = "embed" => Markable(t)
       THEN /\ row' = [row EXCEPT ![Id(t)] = [Pending(t) EXCEPT !.has = TRUE]]
            /\ vec' = [vec EXCEPT ![Id(t)] = tx[t].wvec]
            /\ End(t) /\ UNCHANGED <<born, profile>>
       ELSE Rollback(t)

-----------------------------------------------------------------------------
(* update, update_if_unmodified: lock the row, compare, write it and drop  *)
(* its vector; a save may bring the vector of the new text.                *)

StartUpdate(t, i, c) == Live(i) /\ Begin(t, "update", "lock", <<i>>, c, NoProfile)
StartSave(t, i, c, space) == Live(i) /\ space \in {NoProfile, profile} /\ Begin(t, "save", "lock", <<i>>, c, space)

\* fetch_memory_by_id_for_update_tx and the comparison of record_revision.
LockRow(t) ==
    /\ Ready(t, "lock")
    /\ IF Live(Id(t)) /\ (tx[t].op = "save" => row[Id(t)].rec = tx[t].seen[1].rec)
       THEN Goto(t, IF tx[t].op = "delete" THEN "free" ELSE "write")
       ELSE Rollback(t)

\* A fault: the flag is not cleared.
RewrittenStillEmbedded(r, c) == [r EXCEPT !.content = c, !.emb = @ + 1, !.rec = @ + 1]
Rewritten(r, c) == [r EXCEPT !.content = c, !.emb = @ + 1, !.rec = @ + 1, !.has = FALSE]

\* apply_update_tx
WriteRow(t) ==
    /\ Ready(t, "write")
    /\ Continue(t, [tx[t] EXCEPT !.pc = "unvector", !.wrow = Rewritten(row[Id(t)], tx[t].content)])

\* delete_embedding_tx; a save with a vector goes on, any other commits.
DropVector(t) ==
    /\ Ready(t, "unvector")
    /\ \/ tx[t].space # NoProfile /\ Goto(t, "profile")
       \/ /\ tx[t].space = NoProfile
          /\ row' = [row EXCEPT ![Id(t)] = tx[t].wrow]
          /\ vec' = [vec EXCEPT ![Id(t)] = NoVector]
          /\ End(t) /\ UNCHANGED <<born, profile>>

-----------------------------------------------------------------------------
(* delete: lock the row, release the rows it supersedes, remove it.        *)

StartDelete(t, i) == Live(i) /\ Begin(t, "delete", "lock", <<i>>, Absent, NoProfile)

FreeSuperseded(t) ==
    /\ Ready(t, "free")
    /\ Continue(t, [tx[t] EXCEPT !.pc = "remove", !.touched = SupersededBy(Id(t))])

\* DELETE cascades to the vector, and ON DELETE SET NULL clears what is left.
RemoveRow(t) ==
    /\ Ready(t, "remove")
    /\ row' = [j \in Ids |->
                  IF j = Id(t) THEN Blank("gone")
                  ELSE IF j \in tx[t].touched THEN [row[j] EXCEPT !.sup = NoId, !.rec = @ + 1]
                  ELSE IF row[j].sup = Id(t) THEN [row[j] EXCEPT !.sup = NoId]
                  ELSE row[j]]
    /\ vec' = [vec EXCEPT ![Id(t)] = NoVector]
    /\ End(t) /\ UNCHANGED <<born, profile>>

-----------------------------------------------------------------------------
(* mark_superseded_by_authorized_audited_if_unchanged.                     *)

StartMerge(t, m, r) ==
    /\ m # r /\ Live(m) /\ Live(r) /\ row[m].sup = NoId /\ row[r].sup = NoId
    /\ Begin(t, "merge", "first", <<m, r>>, Absent, NoProfile)

LockFirst(t) == Ready(t, "first") /\ Goto(t, "second")

\* A fault: the representative is not compared.
UnchangedMember(t) == Live(tx[t].ids[1]) /\ Live(tx[t].ids[2]) /\ row[tx[t].ids[1]].rec = tx[t].seen[1].rec
Unchanged(t) == \A k \in 1..2 : Live(tx[t].ids[k]) /\ row[tx[t].ids[k]].rec = tx[t].seen[k].rec

LockSecond(t) ==
    /\ Ready(t, "second")
    /\ IF Unchanged(t) /\ row[Id(t)].sup = NoId THEN Goto(t, "supersede") ELSE Rollback(t)

Supersede(t) ==
    /\ Ready(t, "supersede")
    /\ row' = [row EXCEPT ![Id(t)] = [@ EXCEPT !.sup = tx[t].ids[2], !.rec = @ + 1]]
    /\ End(t) /\ UNCHANGED <<born, vec, profile>>

-----------------------------------------------------------------------------
(* bulk_update: the listed memories are locked and written one by one, the  *)
(* newest first, in one transaction; their texts and vectors stay.         *)

Listed(S) == Reverse(SelectSeq(born, LAMBDA i : i \in S))
StartBulk(t, S) ==
    /\ S # {} /\ \A i \in S : Live(i)
    /\ Begin(t, "bulk", "each", Listed(S), Absent, NoProfile)

\* The bulk update is done with its first memory, having written these.
NextMemory(t, touched) ==
    IF Len(tx[t].ids) > 1
    THEN Continue(t, [tx[t] EXCEPT !.pc = "each", !.ids = Tail(@), !.touched = touched])
    ELSE /\ row' = [j \in Ids |-> IF j \in touched THEN [row[j] EXCEPT !.rec = @ + 1] ELSE row[j]]
         /\ End(t) /\ UNCHANGED <<born, vec, profile>>

\* A memory that is gone by now, or that the caller may not write, is skipped.
LockEach(t) ==
    /\ Ready(t, "each")
    /\ \/ Live(Id(t)) /\ Goto(t, "touch")
       \/ NextMemory(t, tx[t].touched)

Touch(t) == Ready(t, "touch") /\ NextMemory(t, tx[t].touched \cup {Id(t)})

-----------------------------------------------------------------------------
(* The vector space.                                                       *)

StartReindex(t, pr) == Begin(t, "reindex", "tables", <<>>, Absent, pr)
StartVerify(t, pr) == Begin(t, "verify", "stamp", <<>>, Absent, pr)

\* reindex_embeddings: every table is locked before the first change.
Reindex(t) ==
    /\ Ready(t, "tables")
    /\ row' = [i \in Ids |-> [row[i] EXCEPT !.has = FALSE]]
    /\ vec' = [i \in Ids |-> NoVector]
    /\ profile' = tx[t].space
    /\ End(t) /\ UNCHANGED born

\* verify_embedding_profile
Verify(t) ==
    /\ Ready(t, "stamp")
    /\ IF profile = NoProfile /\ \A i \in Ids : vec[i] = NoVector
       THEN profile' = tx[t].space /\ End(t) /\ UNCHANGED <<row, born, vec>>
       ELSE Rollback(t)

\* A new row is nobody else's until it commits.
Store(i, c) ==
    /\ row[i].st = "unborn"
    /\ \A t \in Txs : Table("memories", "accessExclusive") \notin held[t]
    /\ row' = [row EXCEPT ![i] = [Blank("live") EXCEPT !.content = c, !.rec = 1]]
    /\ born' = Append(born, i)
    /\ UNCHANGED <<held, vec, profile, tx, ops>>

-----------------------------------------------------------------------------
Init ==
    /\ held = [t \in Txs |-> {}]
    /\ row = [i \in Ids |-> Blank("unborn")]
    /\ born = <<>>
    /\ vec = [i \in Ids |-> NoVector]
    /\ profile = NoProfile
    /\ tx = [t \in Txs |-> Idle]
    /\ ops = 0

Start(t) ==
    \/ \E i \in Ids :
          \/ StartEmbed(t, i) \/ StartDelete(t, i)
          \/ \E c \in Contents : StartUpdate(t, i, c) \/ \E s \in Profiles \cup {NoProfile} : StartSave(t, i, c, s)
          \/ \E r \in Ids : StartMerge(t, i, r)
    \/ \E S \in SUBSET Ids : StartBulk(t, S)
    \/ \E pr \in Profiles : StartReindex(t, pr) \/ StartVerify(t, pr)

Statement(t) ==
    \/ CheckProfile(t) \/ CheckRevision(t) \/ InsertVector(t) \/ MarkEmbedded(t)
    \/ LockRow(t) \/ WriteRow(t) \/ DropVector(t)
    \/ FreeSuperseded(t) \/ RemoveRow(t)
    \/ LockFirst(t) \/ LockSecond(t) \/ Supersede(t)
    \/ LockEach(t) \/ Touch(t)
    \/ Reindex(t) \/ Verify(t)

Next ==
    \/ \E t \in Txs : Start(t) \/ Acquire(t) \/ Statement(t) \/ Abort(t)
    \/ \E i \in Ids, c \in Contents : Store(i, c)

Spec == Init /\ [][Next]_vars

-----------------------------------------------------------------------------
\* has_embedding is set exactly for the memories that have a vector row, and only
\* for existing memories: two tables written by separate statements never disagree.
FlagExact == \A i \in Ids : (vec[i] # NoVector <=> row[i].has) /\ (row[i].has => Live(i))

\* A save that commits finds the row as the editor saw it: the comparison cannot
\* be overtaken by an update, alone or in bulk, a merge or the release of a
\* superseded memory.
NoLostUpdate ==
    [][\A t \in Txs :
          tx[t].op = "save" /\ tx'[t].op = "none" /\ row' # row =>
              LET seen == tx[t].seen[1]
              IN  row[Id(t)] = [seen EXCEPT !.has = row[Id(t)].has]]_vars

\* Concurrent merges never supersede memories by each other, and never by a
\* memory that is gone.
SupersessionWellFounded ==
    /\ \A S \in (SUBSET Ids) \ {{}} : \E i \in S : ~Live(i) \/ row[i].sup \notin S
    /\ \A i \in Ids : Live(i) /\ row[i].sup # NoId => Live(row[i].sup)

\* Updates, saves and merges never wait for each other in a circle: a merge locks
\* its memories in the order of their identifiers.  Nor do updates, saves and bulk
\* updates: a bulk update locks in the order of creation, whichever memories it
\* lists.  A merge and a bulk update do not agree on an order, and can deadlock.
RecordWritersNeverDeadlock ==
    \A writers \in {{"update", "save", "merge"}, {"update", "save", "bulk"}} :
        \A S \in SUBSET {t \in Txs : tx[t].op \in writers} : ~Deadlocked(S, WaitsFor)

\* The statements together implement the abstract index: a transaction that
\* commits is one atomic write, removal, indexing or rebuild.
Abstract == INSTANCE EmbeddingIndex
                WITH content <- [i \in Ids |-> IF Live(i) THEN row[i].content ELSE Absent],
                     index <- vec, space <- profile
ImplementsIndex == Abstract!Spec
=============================================================================
