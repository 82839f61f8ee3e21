-------------------------------- MODULE PgLocks --------------------------------
(***************************************************************************)
(* The locks of PostgreSQL as the PostgreSQL backend of LocalHold relies   *)
(* on them (store/postgres.rs, store/context_store.rs).  A transaction     *)
(* asks for the locks of a statement one after the other, keeps every lock *)
(* until it ends, and waits while another transaction holds a conflicting  *)
(* one.  Transactions run at READ COMMITTED: a statement that has its      *)
(* locks reads what is committed by then, and its own writes.              *)
(***************************************************************************)
EXTENDS Naturals, Sequences, FiniteSets, SequencesExt

CONSTANTS Txs,     \* connections, each running one transaction at a time
          Whole    \* a lock on a table, not on one of its rows

VARIABLE held      \* held[t]: the locks of transaction t

\* Row locks: FOR KEY SHARE (taken by a foreign key check), FOR NO KEY UPDATE
\* (UPDATE), FOR UPDATE (also DELETE).  Table locks: ACCESS SHARE (SELECT), ROW
\* SHARE (SELECT ... FOR ...), ROW EXCLUSIVE (INSERT, UPDATE, DELETE), SHARE ROW
\* EXCLUSIVE and ACCESS EXCLUSIVE (LOCK TABLE).  An advisory lock is exclusive.
RowModes == {"keyShare", "noKeyUpdate", "update"}
TableModes == {"accessShare", "rowShare", "rowExclusive", "shareRowExclusive", "accessExclusive"}

Conflicting ==
    {{"keyShare", "update"}, {"noKeyUpdate"}, {"noKeyUpdate", "update"}, {"update"},
     {"rowExclusive", "shareRowExclusive"}, {"shareRowExclusive"}}
        \cup {{"accessExclusive", m} : m \in TableModes}
Conflict(m, n) == {m, n} \in Conflicting

LockOn(table, key, mode) == [table |-> table, key |-> key, mode |-> mode]
Table(name, mode) == LockOn(name, Whole, mode)
Advisory(name) == LockOn(name, Whole, "update")

Blockers(t, l) ==
    {u \in Txs \ {t} :
        \E h \in held[u] : h.table = l.table /\ h.key = l.key /\ Conflict(h.mode, l.mode)}

\* The first lock of the sequence that t does not hold yet, if any.
Missing(t, locks) ==
    {locks[k] : k \in {j \in DOMAIN locks : /\ locks[j] \notin held[t]
                                             /\ \A i \in 1..(j - 1) : locks[i] \in held[t]}}

\* waits[t]: who t waits for.  A minimal set of transactions that wait for each
\* other never moves again until the deadlock detector ends one of them.
Knot(S, waits) == S # {} /\ \A t \in S : waits[t] \cap S # {}
Deadlocked(S, waits) == Knot(S, waits) /\ \A R \in SUBSET S : Knot(R, waits) => R = S
=============================================================================
