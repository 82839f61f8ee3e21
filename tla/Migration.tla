------------------------------ MODULE Migration ------------------------------
(***************************************************************************)
(* `hold migrate sqlite-to-postgres` (store/migration.rs) beside the       *)
(* commands of SqliteFiles.  It reads the SQLite database in one read      *)
(* transaction and without a lease, and writes into a PostgreSQL target    *)
(* that must be empty, in one transaction that locks every table.  A       *)
(* server may already be running on the target, and may write to it        *)
(* whenever the tables are not locked.                                     *)
(*                                                                         *)
(* The eighteen tables are three groups here, copied in the order of the   *)
(* code: memories with entities, vectors and supersession links; metadata  *)
(* and contexts, whose rows refer to memories; the logs.  A row is the     *)
(* contents it came from.  Each write to SQLite adds one audit entry, so   *)
(* the contents numbered v have audit ids up to v.                         *)
(***************************************************************************)
EXTENDS SqliteFiles, Sequences

CONSTANT MaxOwn    \* bound on rows the target's own server writes

ASSUME MaxOwnIsNatural == MaxOwn \in Nat

VARIABLES
    target,  \* schema: it has tables; rows: imported; own: written by its server; seq: its audit sequence; locked
    mig      \* the migration: where it is, the contents it reads, what it has exported and imported

migVars == <<target, mig>>
allVars == <<vars, migVars>>

Groups == <<"memories", "contexts", "logs">>
Tables == {Groups[i] : i \in 1..Len(Groups)}
NoMigration == [pc |-> "off", reads |-> 0, source |-> {}, in |-> {}]

MInit ==
    /\ Init
    /\ target \in [schema : BOOLEAN, rows : {{}}, own : {{}}, seq : {0}, locked : {FALSE}]
    /\ mig = NoMigration

MTypeOK ==
    /\ TypeOK
    /\ target.schema \in BOOLEAN /\ target.locked \in BOOLEAN /\ target.seq \in Nat
    /\ target.rows \subseteq Tables \X Nat
    /\ \A r \in target.own : r.id \in Nat /\ r.late \in BOOLEAN
    /\ mig.source \subseteq Tables \X Nat /\ mig.in \subseteq Tables \X Nat /\ mig.reads \in Nat

MAt(place) == mig.pc = place
MGoes(place) == mig' = [mig EXCEPT !.pc = place]
KeepSqlite == UNCHANGED <<db, copies, lease, writer, pc, command, last, promised>>
KeepRest == KeepSqlite /\ UNCHANGED <<starts, faults>>

\* The transaction, if one is open, is rolled back; a sequence that was set stays set.
Fails == mig' = NoMigration /\ target' = [target EXCEPT !.locked = FALSE]

-----------------------------------------------------------------------------
(* The export.                                                             *)

\* The read transaction begins with the check of the source's schema.
ExportBegins ==
    /\ MAt("off") /\ starts < MaxStarts /\ starts' = starts + 1
    /\ Current(db) /\ mig' = [NoMigration EXCEPT !.pc = "export", !.reads = db.data]
    /\ KeepSqlite /\ UNCHANGED <<faults, target>>

\* A fault: every table is read as it is when its turn comes.
ReadNow(t) == <<t, db.data>>
\* One read transaction sees one state of the database.
ReadInTransaction(t) == <<t, mig.reads>>
Export ==
    /\ MAt("export") /\ KeepRest /\ UNCHANGED target
    /\ LET t == Groups[Cardinality(mig.source) + 1] IN
       mig' = [mig EXCEPT !.source = @ \cup {ReadInTransaction(t)},
                          !.pc = IF Cardinality(mig.source) + 1 = Len(Groups) THEN "preflight" ELSE "export"]

-----------------------------------------------------------------------------
(* The import.                                                             *)

TargetIsEmpty == target.rows = {} /\ target.own = {}

\* preflight_empty_postgres_target, on a connection of its own; a dry run ends here.
Preflight ==
    /\ MAt("preflight") /\ KeepRest
    /\ \/ TargetIsEmpty /\ MGoes("openTarget") /\ UNCHANGED target
       \/ Fails
\* PostgresStore::open with auto_migrate
OpenTarget == MAt("openTarget") /\ target' = [target EXCEPT !.schema = TRUE] /\ MGoes("lock") /\ KeepRest
\* lock_postgres_user_tables: no transaction of the server is left open.
LockTables == MAt("lock") /\ target' = [target EXCEPT !.locked = TRUE] /\ MGoes("recount") /\ KeepRest

\* A fault: the count of the preflight is trusted.
TrustPreflight == MAt("recount") /\ KeepRest /\ MGoes("import") /\ UNCHANGED target
\* The tables are counted again now that nobody else can write.
Recount ==
    /\ MAt("recount") /\ KeepRest
    /\ IF TargetIsEmpty THEN MGoes("import") /\ UNCHANGED target ELSE Fails

\* import_postgres, group by group
Import ==
    /\ MAt("import") /\ KeepRest /\ UNCHANGED target
    /\ LET t == Groups[Cardinality(mig.in) + 1] IN
       mig' = [mig EXCEPT !.in = @ \cup {r \in mig.source : r[1] = t},
                          !.pc = IF Cardinality(mig.in) + 1 = Len(Groups) THEN "sequences" ELSE "import"]

\* The largest audit id among the rows.
LastAudit(rows) == LET ids == {r[2] : r \in {x \in rows : x[1] = "logs"}}
                   IN  CHOOSE n \in ids : \A m \in ids : m <= n
\* A fault: the ids of the import are left to the sequence.
KeepSequences == MAt("sequences") /\ MGoes("verify") /\ KeepRest /\ UNCHANGED target
\* reset_postgres_audit_sequence; setval is not undone by a rollback.
ResetSequences ==
    /\ MAt("sequences") /\ MGoes("verify") /\ KeepRest
    /\ target' = [target EXCEPT !.seq = LastAudit(mig.in)]

\* verify_counts, verify_migrated_values: what is read back in the same transaction must be the export.
Verify == MAt("verify") /\ mig.in = mig.source /\ MGoes("commit") /\ KeepRest /\ UNCHANGED target
Commit ==
    /\ MAt("commit") /\ KeepRest /\ mig' = NoMigration
    /\ target' = [target EXCEPT !.rows = @ \cup mig.in, !.locked = FALSE]

\* Any step may fail, a lock may time out, the process may die.
MigrationFails == ~MAt("off") /\ Fault /\ Fails /\ KeepSqlite /\ UNCHANGED starts

\* A write of the server on the target, with the next audit id.
TargetWrites ==
    /\ target.schema /\ ~target.locked /\ Cardinality(target.own) < MaxOwn
    /\ target' = [target EXCEPT !.seq = @ + 1,
                                !.own = @ \cup {[id |-> target.seq + 1, late |-> target.rows # {}]}]
    /\ KeepRest /\ UNCHANGED mig

Migrates == ExportBegins \/ Export \/ Preflight \/ OpenTarget \/ LockTables \/ Recount \/ Import
            \/ ResetSequences \/ Verify \/ Commit \/ MigrationFails \/ TargetWrites

MNext == (Next /\ UNCHANGED migVars) \/ Migrates
MSpec == MInit /\ [][MNext]_allVars

-----------------------------------------------------------------------------
(***************************************************************************)
(* What a migration brings over is one state of the SQLite database, in    *)
(* all tables; it never joins rows the target already had, and the target  *)
(* goes on with audit ids that the imported rows do not use.  This holds   *)
(* while SQLite is written, upgraded, restored, and while the target's     *)
(* server writes, whenever a migration fails and is tried again.           *)
(***************************************************************************)
MigratedWhole ==
    target.rows # {} =>
        \E v \in 0..last :
            /\ target.rows = Tables \X {v}
            /\ \A r \in target.own : r.late /\ r.id > v
=============================================================================
