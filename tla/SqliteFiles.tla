----------------------------- MODULE SqliteFiles -----------------------------
(***************************************************************************)
(* The SQLite database as a file (store/backup.rs, store/sqlite_lease.rs,  *)
(* store/sqlite.rs).  Servers open it, upgrade its schema and write to it; *)
(* `hold backup`, `hold restore`, `hold embeddings reindex` and the reader *)
(* `hold ui` run beside them, each in a process of its own, and any of     *)
(* them may die between two steps.  A lease, a lock on a file beside the   *)
(* database, is shared by all who have the database open and exclusive to  *)
(* a restore.                                                              *)
(*                                                                         *)
(* A file is abstracted to whether SQLite can read it, its schema version  *)
(* and the number of its contents: every write makes new contents.  The    *)
(* sidecar files go with the database.  Vectors are derived data and not   *)
(* part of the contents.  A SQLite transaction, and so the copy of one     *)
(* database over another by the backup API, is atomic and durable.         *)
(***************************************************************************)
EXTENDS Naturals, FiniteSets

CONSTANTS
    Procs,      \* processes that use the database
    Nobody,     \* no process
    Dests,      \* paths an operator names for backups
    MaxStarts,  \* bound on commands started
    MaxWrites,  \* bound on contents written
    MaxFaults   \* bound on crashes and failed steps

ASSUME NobodyIsNoProcess == Nobody \notin Procs
ASSUME BoundsAreNatural == {MaxStarts, MaxWrites, MaxFaults} \subseteq Nat

VARIABLES
    db,          \* the file at the configured path
    backups,     \* backups[d]: the file at a path named by an operator
    preUpgrade,  \* preUpgrade[n]: the copy kept by the n-th command before an upgrade
    recovery,    \* recovery[n]: the copy kept by the n-th command, a restore
    lease,       \* lease[p]: the lease p holds
    writer,      \* who holds the write lock of the database over several steps
    pc,          \* pc[p]: where p is in the command it runs
    run,         \* run[p]: the number of that command
    from,        \* from[p]: the file it stages
    aim,         \* aim[p]: its destination
    kept,        \* kept[p]: how a restore saved the database
    starts,      \* commands started so far
    last,        \* the number of the newest contents
    faults,      \* faults so far
    promised     \* (history) files whose contents a command replaced or reported as backed up

command == <<run, from, aim, kept>>
copies == <<backups, preUpgrade, recovery>>
vars == <<db, copies, lease, writer, pc, command, starts, last, faults, promised>>

Runs == 1..MaxStarts

\* raw: SQLite cannot read it; torn: not yet written to its end.
Files == [kind : {"none", "empty", "torn", "raw", "sqlite"}, ver : {"old", "new"}, data : Nat]
NoFile == [kind |-> "none", ver |-> "new", data |-> 0]
Empty == [NoFile EXCEPT !.kind = "empty"]
Torn == [NoFile EXCEPT !.kind = "torn"]
Raw == [kind |-> "raw", ver |-> "new", data |-> 1]
Sqlite(ver, data) == [kind |-> "sqlite", ver |-> ver, data |-> data]
Present(f) == f.kind # "none"
Readable(f) == f.kind \in {"empty", "sqlite"}
Current(f) == f.kind = "sqlite" /\ f.ver = "new"

Init ==
    /\ db \in {NoFile, Raw, Sqlite("old", 1), Sqlite("new", 1)}
    /\ backups \in [Dests -> {NoFile, Sqlite("old", 0), Sqlite("new", 0)}]
    /\ preUpgrade = [n \in Runs |-> NoFile] /\ recovery = [n \in Runs |-> NoFile]
    /\ lease = [p \in Procs |-> "none"] /\ writer = Nobody
    /\ pc = [p \in Procs |-> "off"] /\ run = [p \in Procs |-> 0]
    /\ from = [p \in Procs |-> NoFile] /\ aim = [p \in Procs |-> Nobody] /\ kept = [p \in Procs |-> "none"]
    /\ starts = 0 /\ last = 1 /\ faults = 0 /\ promised = {}

TypeOK ==
    /\ db \in Files /\ backups \in [Dests -> Files]
    /\ preUpgrade \in [Runs -> Files] /\ recovery \in [Runs -> Files]
    /\ lease \in [Procs -> {"none", "shared", "exclusive"}] /\ writer \in Procs \cup {Nobody}
    /\ pc \in [Procs -> STRING] /\ run \in [Procs -> Nat] /\ from \in [Procs -> Files]
    /\ aim \in [Procs -> Dests \cup {Nobody}] /\ kept \in [Procs -> {"none", "sqlite", "raw"}]
    /\ starts \in 0..MaxStarts /\ last \in Nat /\ faults \in 0..MaxFaults /\ promised \subseteq Files

At(p, place) == pc[p] = place
Moves(p, place) == pc' = [pc EXCEPT ![p] = place]
Goes(p, place) == Moves(p, place) /\ UNCHANGED command
Fault == faults < MaxFaults /\ faults' = faults + 1
NoFault == UNCHANGED faults
KeepFiles == UNCHANGED <<db, copies, last, promised>>
KeepLocks == UNCHANGED <<lease, writer>>

\* A command begins: nothing is held yet.
Begins(p, place, staged, dest) ==
    /\ At(p, "off") /\ starts < MaxStarts /\ starts' = starts + 1
    /\ Moves(p, place) /\ run' = [run EXCEPT ![p] = starts + 1]
    /\ from' = [from EXCEPT ![p] = staged] /\ aim' = [aim EXCEPT ![p] = dest] /\ UNCHANGED kept
\* It ends, or dies: whatever it holds is released, and its staging file is gone or of no account.
Ends(p) ==
    /\ Moves(p, "off") /\ run' = [run EXCEPT ![p] = 0] /\ from' = [from EXCEPT ![p] = NoFile]
    /\ aim' = [aim EXCEPT ![p] = Nobody] /\ kept' = [kept EXCEPT ![p] = "none"]
    /\ lease' = [lease EXCEPT ![p] = "none"]
    /\ writer' = IF writer = p THEN Nobody ELSE writer
    /\ UNCHANGED starts

\* What is replaced must survive in a copy.
Owed(f) == IF f.kind \in {"sqlite", "raw"} THEN {f} ELSE {}

-----------------------------------------------------------------------------
(* The lease.                                                              *)

\* SqliteDatabaseLease::shared waits for a restore to end.
SharedFree == \A q \in Procs : lease[q] # "exclusive"
TakeShared(p, place) ==
    /\ SharedFree /\ lease' = [lease EXCEPT ![p] = "shared"] /\ Goes(p, place)
    /\ KeepFiles /\ NoFault /\ UNCHANGED <<writer, starts>>

\* A fault: a restore only keeps other restores away.
FreeOfRestores(p) == \A q \in Procs \ {p} : lease[q] # "exclusive"
\* try_exclusive does not wait.
ExclusiveFree(p) == \A q \in Procs \ {p} : lease[q] = "none"

-----------------------------------------------------------------------------
(* Opening the database: open_with_clock, init_schema.                     *)

StartServer(p) == Begins(p, "server", NoFile, Nobody) /\ KeepFiles /\ KeepLocks /\ NoFault
\* reindex_embeddings creates the file and probes it before it has a lease.
StartReindex(p) ==
    /\ Present(db) => Readable(db)
    /\ Begins(p, "server", NoFile, Nobody)
    /\ db' = IF Present(db) THEN db ELSE Empty
    /\ KeepLocks /\ NoFault /\ UNCHANGED <<copies, last, promised>>
OpenLease(p) == At(p, "server") /\ TakeShared(p, "leased")
\* create_secure_database_if_missing; a file that SQLite cannot read ends the start.
OpenCreates(p) ==
    /\ At(p, "leased") /\ NoFault /\ UNCHANGED <<copies, last, promised>>
    /\ \/ /\ db' = IF Present(db) THEN db ELSE Empty
          /\ Readable(db') /\ Goes(p, "open") /\ KeepLocks /\ UNCHANGED starts
       \/ Present(db) /\ ~Readable(db) /\ UNCHANGED db /\ Ends(p)

NeedsBackup == db.kind = "sqlite" /\ db.ver = "old"
\* init_schema reads the version again once it holds the write lock.
BeginUpgrade(p) ==
    /\ At(p, "open") /\ writer = Nobody /\ writer' = p
    /\ Goes(p, IF NeedsBackup THEN "retain" ELSE "migrate")
    /\ KeepFiles /\ NoFault /\ UNCHANGED <<lease, starts>>

\* A fault: any earlier copy of that schema version will do.
ReusableByVersion(f) == f.kind = "sqlite" /\ f.ver = db.ver
\* reusable_pre_upgrade_backup: an intact copy with the fingerprint of the database as it is now.
Reusable(f) == f.kind = "sqlite" /\ f = db
Retain(p) ==
    /\ At(p, "retain") /\ NoFault /\ KeepLocks /\ UNCHANGED <<db, backups, recovery, starts, last, promised>>
    /\ IF \E n \in Runs : Reusable(preUpgrade[n])
       THEN Goes(p, "migrate") /\ UNCHANGED preUpgrade
       ELSE Goes(p, "copy") /\ preUpgrade' = [preUpgrade EXCEPT ![run[p]] = Torn]
\* create_pre_upgrade_backup fills the name it reserved, or gives it up.
CopyRetained(p) ==
    /\ At(p, "copy") /\ UNCHANGED <<db, backups, recovery, last, promised>>
    /\ \/ /\ preUpgrade' = [preUpgrade EXCEPT ![run[p]] = db]
          /\ Goes(p, "migrate") /\ NoFault /\ KeepLocks /\ UNCHANGED starts
       \/ preUpgrade' = [preUpgrade EXCEPT ![run[p]] = NoFile] /\ Fault /\ Ends(p)
\* The rest of init_schema is one transaction, which may fail as a whole.
Migrate(p) ==
    /\ At(p, "migrate") /\ UNCHANGED <<copies, last>>
    /\ \/ /\ db' = Sqlite("new", db.data) /\ promised' = promised \cup (IF NeedsBackup THEN {db} ELSE {})
          /\ writer' = Nobody /\ Goes(p, "serving") /\ NoFault /\ UNCHANGED <<lease, starts>>
       \/ Fault /\ Ends(p) /\ UNCHANGED <<db, promised>>

Write(p) ==
    /\ At(p, "serving") /\ writer = Nobody /\ last < MaxWrites
    /\ last' = last + 1 /\ db' = [db EXCEPT !.data = last + 1]
    /\ KeepLocks /\ NoFault /\ UNCHANGED <<copies, pc, command, starts, promised>>
Close(p) == (At(p, "serving") \/ At(p, "reading")) /\ Ends(p) /\ KeepFiles /\ NoFault

\* open_read_only_with_clock: an existing database of the present version, or nothing.
OpenReadOnly(p) ==
    /\ Present(db) /\ SharedFree /\ Current(db)
    /\ Begins(p, "reading", NoFile, Nobody) /\ lease' = [lease EXCEPT ![p] = "shared"]
    /\ KeepFiles /\ NoFault /\ UNCHANGED writer

\* A release before the upgrade writes in its own schema, not during a restore (the operator's duty).
OlderWrites ==
    /\ NeedsBackup /\ SharedFree /\ writer = Nobody /\ last < MaxWrites
    /\ last' = last + 1 /\ db' = [db EXCEPT !.data = last + 1]
    /\ KeepLocks /\ NoFault /\ UNCHANGED <<copies, pc, command, starts, promised>>

-----------------------------------------------------------------------------
(* hold backup: backup_sync_with_policy.                                   *)

StartBackup(p, d) ==
    /\ Present(db) /\ ~Present(backups[d])
    /\ Begins(p, "backup", NoFile, d)
    /\ KeepFiles /\ KeepLocks /\ NoFault
BackupLease(p) == At(p, "backup") /\ TakeShared(p, "snapshot")
\* The staged copy is the database at one instant; only the present schema passes the inspection.
Snapshot(p) ==
    /\ At(p, "snapshot") /\ KeepFiles
    /\ \/ /\ Current(db) /\ NoFault /\ KeepLocks /\ UNCHANGED starts
          /\ Moves(p, "publish") /\ from' = [from EXCEPT ![p] = db] /\ UNCHANGED <<run, aim, kept>>
       \/ (IF Current(db) THEN Fault ELSE NoFault) /\ Ends(p)

\* A fault: the backup is moved over whatever is at its destination.
PublishOver(p) ==
    /\ At(p, "publish") /\ backups' = [backups EXCEPT ![aim[p]] = from[p]]
    /\ promised' = promised \cup {from[p]}
    /\ Ends(p) /\ NoFault /\ UNCHANGED <<db, preUpgrade, recovery, last>>
\* publish_no_clobber: a link to a name that has appeared since is refused.
Publish(p) ==
    LET d == aim[p] IN
    /\ At(p, "publish") /\ Ends(p) /\ NoFault /\ UNCHANGED <<db, preUpgrade, recovery, last>>
    /\ IF Present(backups[d])
       THEN UNCHANGED <<backups, promised>>
       ELSE /\ backups' = [backups EXCEPT ![d] = from[p]]
            /\ promised' = promised \cup {from[p]}

-----------------------------------------------------------------------------
(* hold restore: restore_sync_with_replace_policy.                         *)

Copies == {backups[d] : d \in Dests} \cup {preUpgrade[n] : n \in Runs} \cup {recovery[n] : n \in Runs}

\* Staging: the backup is copied, upgraded to the present schema and inspected.
StartRestore(p, f) ==
    /\ f.kind = "sqlite"
    /\ Begins(p, "staged", [f EXCEPT !.ver = "new"], Nobody)
    /\ KeepFiles /\ KeepLocks /\ NoFault
\* Without the lease, or in a dry run, the restore ends here.
TryExclusive(p) ==
    /\ At(p, "staged") /\ KeepFiles /\ NoFault
    /\ \/ /\ ExclusiveFree(p) /\ lease' = [lease EXCEPT ![p] = "exclusive"]
          /\ Goes(p, "quiesced") /\ UNCHANGED <<writer, starts>>
       \/ Ends(p)
\* create_recovery_snapshot: published whole, or else a raw copy under the final name is begun.
SaveRecovery(p) ==
    /\ At(p, "quiesced") /\ KeepLocks /\ UNCHANGED <<db, backups, preUpgrade, starts, last, promised>>
    /\ \/ ~Present(db) /\ Goes(p, "create") /\ NoFault /\ UNCHANGED recovery
       \/ /\ Readable(db) /\ NoFault
          /\ recovery' = [recovery EXCEPT ![run[p]] = db]
          /\ Moves(p, "replace") /\ kept' = [kept EXCEPT ![p] = "sqlite"] /\ UNCHANGED <<run, from, aim>>
       \/ /\ Present(db) /\ (IF Readable(db) THEN Fault ELSE NoFault)
          /\ recovery' = [recovery EXCEPT ![run[p]] = Torn] /\ Goes(p, "saveRaw")
\* copy_raw_sqlite_bundle
SaveRaw(p) ==
    /\ At(p, "saveRaw") /\ UNCHANGED <<db, backups, preUpgrade, last, promised>>
    /\ \/ /\ recovery' = [recovery EXCEPT ![run[p]] = db]
          /\ Moves(p, "remove") /\ kept' = [kept EXCEPT ![p] = "raw"] /\ UNCHANGED <<run, from, aim>>
          /\ NoFault /\ KeepLocks /\ UNCHANGED starts
       \/ recovery' = [recovery EXCEPT ![run[p]] = NoFile] /\ Fault /\ Ends(p)

\* A database that was missing is created first, unless it has appeared meanwhile.
CreateTarget(p) ==
    /\ At(p, "create") /\ NoFault /\ UNCHANGED <<copies, last, promised>>
    /\ \/ ~Present(db) /\ db' = Empty /\ Goes(p, "replace") /\ KeepLocks /\ UNCHANGED starts
       \/ Present(db) /\ UNCHANGED db /\ Ends(p)
\* replace_from_snapshot: one transaction; the restore may also fail after it, when it syncs.
Replace(p) ==
    /\ At(p, "replace") /\ UNCHANGED <<copies, last>>
    /\ \/ /\ db' = from[p] /\ promised' = promised \cup Owed(db)
          /\ Goes(p, "validate") /\ NoFault /\ KeepLocks /\ UNCHANGED starts
       \/ /\ Fault /\ Ends(p)
          /\ IF kept[p] = "none"
             THEN db' = NoFile /\ UNCHANGED promised
             ELSE \/ UNCHANGED <<db, promised>>
                  \/ db' = from[p] /\ promised' = promised \cup Owed(db)

\* replace_over_raw_target: SQLite cannot write over this file, so it is removed and made again.
RemoveRaw(p) ==
    /\ At(p, "remove") /\ KeepLocks /\ UNCHANGED <<copies, starts, last>>
    /\ promised' = promised \cup Owed(db)
    /\ \/ db' = NoFile /\ Goes(p, "createRaw") /\ NoFault
       \/ db' \in {db, NoFile} /\ Goes(p, "rollback") /\ Fault
CreateRaw(p) ==
    /\ At(p, "createRaw") /\ NoFault /\ KeepLocks /\ UNCHANGED <<copies, starts, last, promised>>
    /\ IF Present(db) THEN UNCHANGED db /\ Goes(p, "rollback") ELSE db' = Empty /\ Goes(p, "replaceRaw")
ReplaceRaw(p) ==
    /\ At(p, "replaceRaw") /\ KeepLocks /\ UNCHANGED <<copies, starts, last, promised>>
    /\ \/ db' = from[p] /\ Goes(p, "validate") /\ NoFault
       \/ db' \in {db, from[p]} /\ Goes(p, "rollback") /\ Fault
\* The restored database is inspected once more; rollback_invalid_restore undoes it.
Validate(p) ==
    /\ At(p, "validate") /\ UNCHANGED <<copies, last, promised>>
    /\ \/ Ends(p) /\ NoFault /\ UNCHANGED db
       \/ /\ Fault /\ Ends(p)
          /\ \/ kept[p] = "none" /\ db' = NoFile
             \/ kept[p] = "sqlite" /\ db' = recovery[run[p]]
       \/ kept[p] = "raw" /\ Fault /\ Goes(p, "rollback") /\ KeepLocks /\ UNCHANGED <<db, starts>>

\* restore_raw_bundle: what is there is removed and the saved bundle copied back.
Rollback(p) ==
    /\ At(p, "rollback") /\ UNCHANGED <<copies, last, promised>>
    /\ \/ db' = NoFile /\ Goes(p, "refill") /\ NoFault /\ KeepLocks /\ UNCHANGED starts
       \/ db' \in {db, NoFile} /\ Fault /\ Ends(p)
RefillBegins(p) ==
    /\ At(p, "refill") /\ NoFault /\ UNCHANGED <<copies, last, promised>>
    /\ \/ ~Present(db) /\ db' = Torn /\ Goes(p, "refilling") /\ KeepLocks /\ UNCHANGED starts
       \/ Present(db) /\ db' = NoFile /\ Ends(p)
RefillEnds(p) ==
    /\ At(p, "refilling") /\ Ends(p) /\ UNCHANGED <<copies, last, promised>>
    /\ \/ db' = recovery[run[p]] /\ NoFault
       \/ db' = NoFile /\ Fault

-----------------------------------------------------------------------------
\* The operating system frees the locks of a process that dies; SQLite undoes its transaction.
Crash(p) == ~At(p, "off") /\ Fault /\ Ends(p) /\ KeepFiles

Opens(p) == StartServer(p) \/ StartReindex(p) \/ OpenLease(p) \/ OpenCreates(p) \/ BeginUpgrade(p)
            \/ Retain(p) \/ CopyRetained(p) \/ Migrate(p) \/ OpenReadOnly(p)
Uses(p) == Write(p) \/ Close(p)
Backup(p) == (\E d \in Dests : StartBackup(p, d)) \/ BackupLease(p) \/ Snapshot(p) \/ Publish(p)
Restore(p) == (\E f \in Copies : StartRestore(p, f)) \/ TryExclusive(p) \/ SaveRecovery(p) \/ SaveRaw(p)
              \/ CreateTarget(p) \/ Replace(p) \/ RemoveRaw(p) \/ CreateRaw(p) \/ ReplaceRaw(p)
              \/ Validate(p) \/ Rollback(p) \/ RefillBegins(p) \/ RefillEnds(p)

Next == (\E p \in Procs : Opens(p) \/ Uses(p) \/ Backup(p) \/ Restore(p) \/ Crash(p)) \/ OlderWrites
Spec == Init /\ [][Next]_vars

-----------------------------------------------------------------------------
(***************************************************************************)
(* Nothing is lost: a backup that was reported, a database as it was       *)
(* before its upgrade and a database as it was when a restore replaced or  *)
(* removed it are each still whole in some copy, whatever other commands   *)
(* ran meanwhile and wherever they died.                                   *)
(***************************************************************************)
NothingLost == promised \subseteq Copies
=============================================================================
