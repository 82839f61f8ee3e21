------------------------------ MODULE PgContexts ------------------------------
(***************************************************************************)
(* The governed context catalogue on PostgreSQL (store/context_store.rs    *)
(* from line 2066, store/postgres.rs): the transactions that are one step  *)
(* in Contexts, here statement by statement with the locks they take.      *)
(*                                                                         *)
(* A transaction checks first and writes later.  The property is that what *)
(* it checked still holds when it commits, so that it could as well have   *)
(* been one step.  The exception is the kind of a context: no transaction  *)
(* that finds a kind enabled keeps it so until it commits.                 *)
(***************************************************************************)
EXTENDS Contexts, PgLocks

CONSTANTS
    NoMem,    \* no memory
    MaxOps    \* bound on the transactions begun

ASSUME RequestNames == NoMem \notin Mems /\ Whole \notin Ctxs \cup Mems /\ MaxOps \in Nat

VARIABLES
    tx,   \* tx[t]: the transaction of connection t
    ops   \* transactions begun so far

vars == <<ctx, enabled, required, default, mem, held, tx, ops>>

Ops == {"none", "create", "parent", "lifecycle", "grants", "define", "policy", "rollback", "join", "reassign",
        "register"}
Pcs == {"idle", "tables", "exists", "insert", "table", "own", "cycle", "set", "default", "policy", "claim", "erase",
        "member", "share", "use", "replace", "resolve", "make", "move", "ensure", "redefine"}

\* c: the context it is about.  want: the row, or the changed fields of the row,
\* it asks for.  m, s: a memory and its new memberships.  made: c is a pending
\* insertion of this transaction.
Transactions ==
    [op : Ops, pc : Pcs, by : Principals, c : Ctxs \cup {NoCtx}, want : Rows, m : Mems \cup {NoMem}, s : Seq(Ctxs),
     made : BOOLEAN]
Idle ==
    [op |-> "none", pc |-> "idle", by |-> CHOOSE p \in Principals : TRUE, c |-> NoCtx, want |-> Absent("none"),
     m |-> NoMem, s |-> <<>>, made |-> FALSE]

TypeOK ==
    /\ CatalogueTypeOK
    /\ tx \in [Txs -> Transactions]
    /\ \A t \in Txs : \A l \in held[t] : l.mode \in RowModes \cup TableModes
    /\ ops \in 0..MaxOps

\* Two contexts were created earlier; one of them may be shared with everybody,
\* the others are compatibility contexts.
Init ==
    /\ \E C \in kSubset(2, Ctxs) : \E key \in [C -> Keys], owner \in [C -> Principals], shared \in C \cup {NoCtx} :
          /\ \A c, d \in C : c # d => <<owner[c], key[c]>> # <<owner[d], key[d]>>
          /\ ctx = [c \in Ctxs |->
                      IF c \in C
                      THEN [Draft(owner[c], Custom, key[c], NoCtx, c # shared)
                              EXCEPT !.grants = IF c = shared THEN Principals ELSE {}]
                      ELSE Absent("none")]
    /\ enabled = Kinds /\ required = {}
    /\ default = [k \in Kinds |-> NoCtx]
    /\ \E p \in Principals : mem = [m \in Mems |-> Stored(p, <<>>, Unresolved)]
    /\ held = [t \in Txs |-> {}]
    /\ tx = [t \in Txs |-> Idle]
    /\ ops = 0

At(t, pc) == tx[t].pc = pc

-----------------------------------------------------------------------------
(* The locks of each statement.                                            *)

Row(c, mode) == LockOn("contexts", c, mode)
Memory(m) == {LockOn("memories", m, "update")}
\* FOR UPDATE on one context, FOR KEY SHARE on some.
ForUpdate(c) == {Table("contexts", "rowShare"), Row(c, "update")}
\* A fault: the contexts are read and not locked.
NotLocked(C) == {Table("contexts", "accessShare")}
KeyShare(C) == {Table("contexts", "rowShare")} \cup {Row(c, "keyShare") : c \in C}
\* The foreign keys of a row inserted or updated.
ForeignKeys(C) == {Row(c, "keyShare") : c \in C \ {NoCtx}}
\* The unique key of owner, kind and key.
UniqueKey(r) == {LockOn("keys", <<r.owner, r.key>>, "update")}

CreateTables ==
    {Table("contexts", "shareRowExclusive"), Table("aliases", "shareRowExclusive"),
      Table("grants", "shareRowExclusive")}

ParentTable == {Table("contexts", "shareRowExclusive")}

\* What the last statement of an owner's change writes.
Written(t) ==
    CASE tx[t].op = "parent"    -> {Table("contexts", "rowExclusive")} \cup ForeignKeys({tx[t].want.parent})
      [] tx[t].op = "lifecycle" -> {Table("contexts", "rowExclusive")}
      [] tx[t].op = "define"    -> {Table("contexts", "rowExclusive"), Table("aliases", "rowExclusive")}
      [] OTHER                  -> {Table("grants", "rowExclusive")}

Locks(t) ==
    LET q == tx[t]
    IN  CASE q.pc = "tables"  -> CreateTables
          [] q.pc = "insert"  -> {Table("contexts", "rowExclusive")} \cup UniqueKey(q.want) \cup ForeignKeys({q.want.parent})
          [] q.pc = "table"   -> ParentTable
          [] q.pc = "own"     -> ForUpdate(q.c)
          [] q.pc = "set"     -> Written(t)
          [] q.pc = "default" -> KeyShare({q.c} \ {NoCtx})
          [] q.pc = "claim"   -> ForUpdate(q.c)
          [] q.pc = "erase"   -> {Table("contexts", "rowExclusive")}
          [] q.pc = "member"  -> Memory(q.m)
          [] q.pc = "share"   -> KeyShare(Range(q.s))
          [] q.pc = "make"    -> {Table("contexts", "rowExclusive")} \cup UniqueKey(q.want)
          [] q.pc = "replace" -> ForeignKeys(Range(q.s))
          [] q.pc = "move"    -> ForeignKeys(Range(Repointed(mem[q.m].ctxs, q.c)))
          [] q.pc = "ensure"  -> {Table("contexts", "rowExclusive")} \cup UniqueKey(q.want)
                                    \cup {Row(c, "noKeyUpdate") : c \in OwnedCustom(q.by, q.want.key)}
          [] q.pc = "redefine" -> ForeignKeys({q.want.parent}) \cup {Table("aliases", "rowExclusive")}
          [] OTHER            -> {}

\* A statement waits until none of its locks is taken and takes them together.
\* Taking them one by one would only add deadlocks, which Abort resolves.
Ready(t, pc) == At(t, pc) /\ \A l \in Locks(t) : Blockers(t, l) = {}

-----------------------------------------------------------------------------
(* Beginning and ending.                                                   *)

Begin(t, state) ==
    /\ At(t, "idle") /\ ops < MaxOps /\ ops' = ops + 1
    /\ tx' = [tx EXCEPT ![t] = state]
    /\ UNCHANGED <<catalogue, held>>

Continue(t, state) ==
    /\ tx' = [tx EXCEPT ![t] = state]
    /\ held' = [held EXCEPT ![t] = @ \cup Locks(t)]
    /\ UNCHANGED <<catalogue, ops>>
Goto(t, pc) == Continue(t, [tx[t] EXCEPT !.pc = pc])
End(t) ==
    /\ tx' = [tx EXCEPT ![t] = Idle]
    /\ held' = [held EXCEPT ![t] = {}]
    /\ UNCHANGED ops
RollbackTx(t) == End(t) /\ UNCHANGED catalogue

\* The victim of the deadlock detector, a lock timeout, a dropped request.
Abort(t) == ~At(t, "idle") /\ RollbackTx(t)

-----------------------------------------------------------------------------
(* create_context                                                          *)

StartCreate(t, p, c, key, parent, legacy) ==
    Begin(t, [Idle EXCEPT !.op = "create", !.pc = "tables", !.by = p, !.c = c,
                          !.want = Draft(p, Custom, key, parent, legacy)])
LockTables(t) == Ready(t, "tables") /\ Goto(t, "exists")
\* A fault: only the caller's own contexts are looked at.
CheckCreateOwned(t) ==
    /\ At(t, "exists")
    /\ IF OwnedCustom(tx[t].by, tx[t].want.key) = {} THEN Goto(t, "insert") ELSE RollbackTx(t)
CheckCreate(t) ==
    /\ At(t, "exists")
    /\ IF CreateAllowed(tx[t].by, Custom, tx[t].want.key, tx[t].want.parent) THEN Goto(t, "insert") ELSE RollbackTx(t)
InsertContext(t) ==
    /\ Ready(t, "insert") /\ ctx[tx[t].c].st = "none"
    /\ IF tx[t].want.parent # NoCtx => Exists(tx[t].want.parent)
       THEN ctx' = [ctx EXCEPT ![tx[t].c] = tx[t].want] /\ End(t) /\ UNCHANGED <<enabled, required, default, mem>>
       ELSE RollbackTx(t)

-----------------------------------------------------------------------------
(* Changes by the owner: set_context_parent under a table lock; lifecycle, *)
(* grants and definition under the row lock of                             *)
(* require_postgres_mutable_owned_context.                                 *)

StartChange(t, p, op, c, want) ==
    /\ Exists(c)
    /\ Begin(t, [Idle EXCEPT !.op = op, !.pc = IF op = "parent" THEN "table" ELSE "own", !.by = p, !.c = c, !.want = want])
LockTable(t) == Ready(t, "table") /\ Goto(t, IF tx[t].op = "parent" THEN "own" ELSE "ensure")
CheckOwner(t) ==
    /\ Ready(t, "own")
    /\ IF MutableOwned(tx[t].c, tx[t].by) THEN Goto(t, IF tx[t].op = "parent" THEN "cycle" ELSE "set") ELSE RollbackTx(t)
CheckCycle(t) ==
    LET parent == tx[t].want.parent
    IN  /\ At(t, "cycle")
        /\ IF (parent # NoCtx => UseAllowed(parent, tx[t].by, TRUE)) /\ ParentAllowed(tx[t].c, parent)
           THEN Goto(t, "set") ELSE RollbackTx(t)

Changed(r, op, want) ==
    CASE op = "parent"    -> [r EXCEPT !.parent = want.parent]
      [] op = "lifecycle" -> [r EXCEPT !.st = want.st]
      [] op = "define"    -> [r EXCEPT !.aliases = want.aliases]
      [] OTHER            -> [r EXCEPT !.grants = want.grants]

WriteChange(t) ==
    /\ Ready(t, "set")
    /\ ctx' = Touch(tx[t].c, Changed(ctx[tx[t].c], tx[t].op, tx[t].want))
    /\ End(t) /\ UNCHANGED <<enabled, required, default, mem>>

-----------------------------------------------------------------------------
(* upsert_context_kind_policy: the default is locked against removal.      *)

StartPolicy(t, p, c) == Begin(t, [Idle EXCEPT !.op = "policy", !.pc = "default", !.by = p, !.c = c])
CheckDefault(t) ==
    /\ Ready(t, "default")
    /\ IF tx[t].c # NoCtx => Active(tx[t].c) THEN Goto(t, "policy") ELSE RollbackTx(t)
WritePolicy(t) ==
    /\ At(t, "policy")
    /\ default' = [default EXCEPT ![Custom] = tx[t].c]
    /\ End(t) /\ UNCHANGED <<ctx, enabled, required, mem>>

-----------------------------------------------------------------------------
(* rollback_unreferenced_legacy_context: the row is locked, then deleted   *)
(* if nothing refers to it; the DELETE sees what is committed by then.     *)

StartRollback(t, p, c) == Exists(c) /\ Begin(t, [Idle EXCEPT !.op = "rollback", !.pc = "claim", !.by = p, !.c = c])
LockForRollback(t) ==
    /\ Ready(t, "claim")
    /\ IF Exists(tx[t].c) THEN Goto(t, "erase") ELSE RollbackTx(t)
Erase(t) ==
    /\ Ready(t, "erase")
    /\ ctx' = RolledBack({tx[t].c}, tx[t].by)
    /\ End(t) /\ UNCHANGED <<enabled, required, default, mem>>

-----------------------------------------------------------------------------
(* replace_memory_contexts and every governed store: lock the contexts,    *)
(* check them, write the memberships.                                      *)

StartJoin(t, p, m, s) == Begin(t, [Idle EXCEPT !.op = "join", !.pc = "member", !.by = p, !.m = m, !.s = s])
LockMemory(t) ==
    /\ Ready(t, "member")
    /\ IF Writable(tx[t].m, tx[t].by) THEN Goto(t, IF tx[t].op = "join" THEN "share" ELSE "resolve") ELSE RollbackTx(t)
LockContexts(t) == Ready(t, "share") /\ Goto(t, "use")
CheckUse(t) ==
    LET preserved == Range(mem[tx[t].m].ctxs)
    IN  /\ At(t, "use")
        /\ IF \A c \in Range(tx[t].s) : UseAllowed(c, tx[t].by, c \notin preserved) THEN Goto(t, "replace") ELSE RollbackTx(t)
ReplaceMemberships(t) ==
    /\ Ready(t, "replace") /\ mem[tx[t].m].rev < MaxRevision
    /\ IF \A c \in Range(tx[t].s) : Exists(c)
       THEN /\ mem' = [mem EXCEPT ![tx[t].m] = Replaced(@, tx[t].s, ScopeOf(tx[t].s))]
            /\ End(t) /\ UNCHANGED <<ctx, enabled, required, default>>
       ELSE RollbackTx(t)

-----------------------------------------------------------------------------
(* reassign_scope: find the target without a lock, or insert it unless its *)
(* unique key is taken by then; the foreign key of the membership decides  *)
(* whether it still exists.                                                *)

StartReassign(t, p, m, c, key) ==
    Begin(t, [Idle EXCEPT !.op = "reassign", !.pc = "member", !.by = p, !.m = m, !.c = c,
                          !.want = Draft(p, Custom, key, NoCtx, TRUE)])

Resolve(t) ==
    LET p == tx[t].by
        key == tx[t].want.key
        owned == OwnedCustom(p, key)
    IN  /\ At(t, "resolve")
        /\ \/ /\ Custom \in enabled
              /\ \/ \E c \in owned : Active(c) /\ Continue(t, [tx[t] EXCEPT !.pc = "move", !.c = c])
                 \/ \E c \in ByKey(p, key) :
                       owned = {} /\ ByKey(p, key) = {c} /\ Continue(t, [tx[t] EXCEPT !.pc = "move", !.c = c])
                 \/ owned = {} /\ ByKey(p, key) = {} /\ Goto(t, "make")
           \/ Custom \notin enabled /\ RollbackTx(t)
           \/ (\E c \in owned : ~Active(c)) /\ RollbackTx(t)
           \/ owned = {} /\ Cardinality(ByKey(p, key)) > 1 /\ RollbackTx(t)

\* ON CONFLICT DO NOTHING, and then the winner of the unique key.
MakeTarget(t) ==
    LET owned == OwnedCustom(tx[t].by, tx[t].want.key)
    IN  /\ Ready(t, "make") /\ ctx[tx[t].c].st = "none"
        /\ \/ owned = {} /\ Continue(t, [tx[t] EXCEPT !.pc = "move", !.made = TRUE])
           \/ \E c \in owned : Active(c) /\ Continue(t, [tx[t] EXCEPT !.pc = "move", !.c = c])
           \/ (\E c \in owned : ~Active(c)) /\ RollbackTx(t)

\* The new row, if any, the audit of the target and the membership commit together.
Move(t) ==
    LET q == tx[t]
        r == IF q.made THEN q.want ELSE ctx[q.c]
        s == Repointed(mem[q.m].ctxs, q.c)
    IN  /\ Ready(t, "move") /\ mem[q.m].rev < MaxRevision
        /\ IF q.made \/ Exists(q.c)
           THEN /\ ctx' = Touch(q.c, r)
                /\ mem' = [mem EXCEPT ![q.m] = Replaced(@, s, r.key)]
                /\ End(t) /\ UNCHANGED <<enabled, required, default>>
           ELSE RollbackTx(t)

-----------------------------------------------------------------------------
(* register_postgres_legacy_scope_context: the hierarchy is locked as for  *)
(* set_context_parent, the row itself is not; the parent it names exists.  *)

StartRegister(t, p, c, key, parent, aliases) ==
    Begin(t, [Idle EXCEPT !.op = "register", !.pc = "table", !.by = p, !.c = c,
                          !.want = [Draft(p, Custom, key, parent, TRUE) EXCEPT !.aliases = aliases]])

\* ensure_private_postgres_admin_scope_context for the scope and for its parent,
\* then the cycle check.
EnsureScope(t) ==
    LET q == tx[t]
        Found(c) == Ensured(q.by, q.want.key, c)
                    /\ (q.want.parent # NoCtx => Active(q.want.parent) /\ ParentAllowed(c, q.want.parent))
        found == {c \in OwnedCustom(q.by, q.want.key) \cup {q.c} : Found(c)}
    IN  /\ Ready(t, "ensure") /\ ctx[q.c].st = "none"
        /\ \/ \E c \in found : Continue(t, [q EXCEPT !.pc = "redefine", !.c = c, !.made = (ctx[c].st = "none")])
           \/ found = {} /\ RollbackTx(t)
Redefine(t) ==
    LET q == tx[t]
        r == IF q.made THEN q.want ELSE ctx[q.c]
    IN  /\ Ready(t, "redefine")
        /\ IF q.want.parent # NoCtx => Exists(q.want.parent)
           THEN /\ ctx' = Touch(q.c, [r EXCEPT !.parent = q.want.parent, !.aliases = q.want.aliases])
                /\ End(t) /\ UNCHANGED <<enabled, required, default, mem>>
           ELSE RollbackTx(t)

-----------------------------------------------------------------------------
\* upsert_context_kind: one statement.  It takes FOR NO KEY UPDATE on the row of
\* the kind, which conflicts neither with the FOR KEY SHARE of a membership write
\* nor with the tables create_context locks, and so waits for nobody here.
SetKind(on) == UpsertKind(Custom, on) /\ UNCHANGED <<held, tx, ops>>

-----------------------------------------------------------------------------
\* A new context takes an identifier no other transaction is about to use.
Fresh(c) == ctx[c].st = "none" /\ \A t \in Txs : tx[t].c # c
Existing == {c \in Ctxs : Exists(c)}

StartOwner(t, p, c) ==
    \/ \E parent \in (Existing \cup {NoCtx}) \ {ctx[c].parent} :
          StartChange(t, p, "parent", c, [ctx[c] EXCEPT !.parent = parent])
    \/ \E st \in {"active", "archived"} \ {ctx[c].st} : StartChange(t, p, "lifecycle", c, [ctx[c] EXCEPT !.st = st])
    \/ \E G \in {{}, Principals} \ {ctx[c].grants} : StartChange(t, p, "grants", c, [ctx[c] EXCEPT !.grants = G])
    \/ \E k \in Keys : StartChange(t, p, "define", c, [ctx[c] EXCEPT !.aliases = {k}])

Start(t) ==
    At(t, "idle") /\ ops < MaxOps /\ \E p \in Principals :
        \/ \E c \in Ctxs, key \in Keys : Fresh(c) /\ StartCreate(t, p, c, key, NoCtx, TRUE)
        \/ \E c \in Ctxs, key \in Keys, parent \in Existing : Fresh(c) /\ StartCreate(t, p, c, key, parent, FALSE)
        \/ \E c \in Existing : MutableOwned(c, p) /\ StartOwner(t, p, c)
        \/ \E c \in Existing \cup {NoCtx} : StartPolicy(t, p, c)
        \/ \E c \in Existing : StartRollback(t, p, c)
        \/ \E m \in Mems : \E s \in {x \in SeqOf(Existing, 2) : IsInjective(x)} : StartJoin(t, p, m, s)
        \/ \E m \in Mems, c \in Ctxs, key \in Keys : Fresh(c) /\ StartReassign(t, p, m, c, key)
        \/ \E c \in Ctxs, key \in Keys, parent \in {d \in Existing : MutableOwned(d, p)} \cup {NoCtx},
              A \in {{}, Keys} : Fresh(c) /\ StartRegister(t, p, c, key, parent, A \ {key})

Statement(t) ==
    \/ LockTables(t) \/ CheckCreate(t) \/ InsertContext(t)
    \/ LockTable(t) \/ CheckOwner(t) \/ CheckCycle(t) \/ WriteChange(t)
    \/ CheckDefault(t) \/ WritePolicy(t)
    \/ LockForRollback(t) \/ Erase(t)
    \/ LockMemory(t) \/ LockContexts(t) \/ CheckUse(t) \/ ReplaceMemberships(t)
    \/ Resolve(t) \/ MakeTarget(t) \/ Move(t)
    \/ EnsureScope(t) \/ Redefine(t)

Next ==
    \/ \E t \in Txs : Start(t) \/ Statement(t) \/ Abort(t)
    \/ \E on \in BOOLEAN : SetKind(on)

Spec == Init /\ [][Next]_vars

-----------------------------------------------------------------------------
(* Properties.                                                             *)

\* No context is its own ancestor, although two owners may each attach a part of
\* the hierarchy below the other's at the same time (set_context_parent,
\* register_postgres_legacy_scope_context).
HierarchyAcyclic == \A c \in Ctxs : ctx[c].parent # NoCtx => c \notin Ancestors(ctx[c].parent)

\* A membership, a parent and a policy default name contexts that exist, whatever
\* rollback_unreferenced_legacy_context deletes meanwhile; no foreign key
\* protects the default, which is kept in JSON.
ReferencesExist ==
    /\ \A m \in Mems : \A c \in Range(mem[m].ctxs) : Exists(c)
    /\ \A c \in Ctxs : Exists(c) /\ ctx[c].parent # NoCtx => Exists(ctx[c].parent)
    /\ \A k \in Kinds : default[k] # NoCtx => Exists(default[k])

\* What the governed transaction of t checked before it wrote.  Three checks are
\* not kept: set_context_parent does not lock the grants, so a grant of the parent
\* may be revoked in between; reassignment and registration look without a lock
\* for the contexts that others own; and a kind may be disabled meanwhile.
Usable(c, p, requireActive) == Visible(c, p) /\ (requireActive => Active(c))
Holds(t) ==
    LET q == tx[t]
    IN  CASE q.op = "create" -> /\ q.want.parent # NoCtx => Usable(q.want.parent, q.by, TRUE)
                                /\ Find(q.by, TRUE, {Custom}, q.want.key) = {}
          [] q.op = "parent" -> /\ MutableOwned(q.c, q.by) /\ ParentAllowed(q.c, q.want.parent)
                                /\ q.want.parent # NoCtx => Active(q.want.parent)
          [] q.op \in {"lifecycle", "grants", "define"} -> MutableOwned(q.c, q.by)
          [] q.op = "policy" -> q.c # NoCtx => Active(q.c)
          [] q.op = "join" -> /\ Writable(q.m, q.by)
                              /\ \A c \in Range(q.s) : Usable(c, q.by, c \notin Range(mem[q.m].ctxs))
          [] q.op \in {"reassign", "register"} -> q.made => OwnedCustom(q.by, q.want.key) = {}
          [] OTHER -> TRUE

\* A transaction that writes commits in a state in which its checks still hold,
\* that of the kind apart: no archive, revocation, grant, alias or new context can
\* slip in between the check and the write.
ChecksHoldAtCommit == [][\A t \in Txs : catalogue' # catalogue /\ tx[t] # tx'[t] => Holds(t)]_vars
=============================================================================
