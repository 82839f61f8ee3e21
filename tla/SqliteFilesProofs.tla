-------------------------- MODULE SqliteFilesProofs --------------------------
(***************************************************************************)
(* No copy the program promised is lost, for any number of processes,      *)
(* paths, commands, writes and faults.                                     *)
(***************************************************************************)
EXTENDS Migration, FiniteSetTheorems, TLAPS

Shapes ==
    /\ db \in Files /\ backups \in [Dests -> Files]
    /\ preUpgrade \in [Runs -> Files] /\ recovery \in [Runs -> Files]
    /\ lease \in [Procs -> {"none", "shared", "exclusive"}] /\ writer \in Procs \cup {Nobody}
    /\ DOMAIN pc = Procs /\ run \in [Procs -> Nat] /\ from \in [Procs -> Files]
    /\ aim \in [Procs -> Dests \cup {Nobody}] /\ kept \in [Procs -> {"none", "sqlite", "raw"}]
    /\ starts \in Nat /\ last \in Nat /\ promised \subseteq Files

\* What a process that has come so far holds.
UnderShared == {"leased", "open", "retain", "copy", "migrate", "serving", "reading", "snapshot", "publish"}
UnderExclusive == {"quiesced", "saveRaw", "create", "replace", "remove", "createRaw", "replaceRaw", "validate",
                   "rollback", "refill", "refilling"}
Leases ==
    /\ \A p \in Procs : /\ pc[p] \in UnderShared => lease[p] = "shared"
                        /\ pc[p] \in UnderExclusive => lease[p] = "exclusive"
                        /\ pc[p] \in {"retain", "copy", "migrate"} => writer = p
    /\ \A p, q \in Procs : p # q /\ lease[p] = "exclusive" => lease[q] = "none"

\* The names of its copies are its own, and not used before it fills them.
Names ==
    /\ \A p \in Procs : pc[p] # "off" => run[p] \in Runs /\ run[p] <= starts
    /\ \A p, q \in Procs : p # q /\ pc[p] # "off" /\ pc[q] # "off" => run[p] # run[q]
    /\ \A n \in Runs : n > starts => preUpgrade[n] = NoFile /\ recovery[n] = NoFile
    /\ \A p \in Procs :
          /\ pc[p] \in {"server", "leased", "open", "retain"} => preUpgrade[run[p]] = NoFile
          /\ pc[p] = "copy" => preUpgrade[run[p]] = Torn
          /\ pc[p] \in {"staged", "quiesced"} => recovery[run[p]] = NoFile
          /\ pc[p] = "saveRaw" => recovery[run[p]] = Torn
          /\ pc[p] \in {"backup", "snapshot", "publish"} => aim[p] \in Dests

\* What is about to be replaced has been copied, and is still what was copied.
SavedBy(p) ==
    /\ pc[p] = "migrate" /\ NeedsBackup => \E n \in Runs : preUpgrade[n] = db
    /\ pc[p] = "saveRaw" => Present(db)
    /\ pc[p] \in {"off", "staged", "quiesced", "create"} => kept[p] = "none"
    /\ pc[p] = "replace" /\ kept[p] = "none" => db = Empty
    /\ pc[p] = "replace" /\ kept[p] # "none" => Present(db) /\ recovery[run[p]] = db
    /\ pc[p] = "remove" => Present(db) /\ recovery[run[p]] = db
    /\ pc[p] = "publish" => from[p].kind = "sqlite"
Saved == \A p \in Procs : SavedBy(p)

Whole == \A c \in promised : c.kind \in {"sqlite", "raw"} /\ c \in Copies

IInv == Shapes /\ Leases /\ Names /\ Saved /\ Whole

(* The files with a name of their own: their kinds tell them apart.        *)
LEMMA FileFacts ==
    /\ NoFile \in Files /\ Torn \in Files /\ Empty \in Files
    /\ NoFile.kind = "none" /\ Torn.kind = "torn" /\ Empty.kind = "empty"
<1>1. NoFile \in Files BY Zenon DEF NoFile, Files
<1>2. Torn = [kind |-> "torn", ver |-> "new", data |-> 0] BY DEF Torn, NoFile
<1>3. Empty = [kind |-> "empty", ver |-> "new", data |-> 0] BY DEF Empty, NoFile
<1> QED BY <1>1, <1>2, <1>3, Zenon DEF Files, NoFile

(* The next number of a command names copies nobody has used.              *)
LEMMA NextRun == ASSUME starts \in Nat, starts < MaxStarts PROVE starts + 1 \in Runs
BY BoundsAreNatural DEF Runs

(* While a restore holds the lease nobody else has the database open, and  *)
(* while anybody has it open no restore holds the lease.                   *)
LEMMA Apart ==
    ASSUME Shapes, Leases, NEW p \in Procs, NEW q \in Procs, p # q
    PROVE  /\ pc[p] \in UnderExclusive => pc[q] \notin UnderShared /\ pc[q] \notin UnderExclusive
           /\ pc[p] \in UnderShared => pc[q] \notin UnderExclusive
BY Zenon DEF Shapes, Leases

(* A process that does not have the database open has nothing at stake.    *)
LEMMA OutsideSaved ==
    ASSUME NEW q \in Procs, SavedBy(q), pc[q] \notin UnderShared, pc[q] \notin UnderExclusive,
           pc'[q] = pc[q], kept'[q] = kept[q]
    PROVE  SavedBy(q)'
BY Zenon DEF SavedBy, UnderShared, UnderExclusive

(* Upgraded and written databases are files again.                         *)
LEMMA Rewritten ==
    ASSUME NEW f \in Files, NEW n \in Nat
    PROVE  /\ Sqlite("new", f.data) \in Files /\ Sqlite("new", f.data).ver = "new"
           /\ [f EXCEPT !.data = n] \in Files /\ [f EXCEPT !.ver = "new"] \in Files
           /\ [f EXCEPT !.data = n].kind = f.kind /\ [f EXCEPT !.data = n].ver = f.ver
BY Zenon DEF Files, Sqlite

(* A command that begins gets a number of its own.                         *)
LEMMA BeginsNames ==
    ASSUME IInv, NEW p \in Procs, NEW place \in {"server", "reading", "backup", "staged"}, NEW f, NEW d,
           Begins(p, place, f, d), place = "backup" => d \in Dests, UNCHANGED <<preUpgrade, recovery>>
    PROVE  Names'
<1>1. starts \in Nat /\ starts < MaxStarts /\ starts' = starts + 1 /\ starts + 1 \in Runs
  BY NextRun, Zenon DEF IInv, Shapes, Begins
<1>2. /\ pc' = [pc EXCEPT ![p] = place] /\ run' = [run EXCEPT ![p] = starts + 1]
      /\ aim' = [aim EXCEPT ![p] = d]
      /\ DOMAIN pc = Procs /\ run \in [Procs -> Nat] /\ aim \in [Procs -> Dests \cup {Nobody}]
  BY Zenon DEF Begins, Moves, IInv, Shapes
<1>3. /\ pc'[p] = place /\ run'[p] = starts + 1 /\ aim'[p] = d
      /\ \A q \in Procs \ {p} : pc'[q] = pc[q] /\ run'[q] = run[q] /\ aim'[q] = aim[q]
  BY <1>2, Zenon
<1>4. \A q \in Procs : pc[q] # "off" => run[q] \in Runs /\ run[q] \in Nat /\ run[q] <= starts
  BY <1>2, Zenon DEF IInv, Names
<1>5. \A q \in Procs : pc'[q] # "off" => run'[q] \in Runs /\ run'[q] <= starts'
  BY <1>1, <1>3, <1>4
<1>6. \A q, r \in Procs : q # r /\ pc'[q] # "off" /\ pc'[r] # "off" => run'[q] # run'[r]
  <2> SUFFICES ASSUME NEW q \in Procs, NEW r \in Procs, q # r, pc'[q] # "off", pc'[r] # "off"
               PROVE  run'[q] # run'[r]
    BY Zenon
  <2>1. CASE q = p BY <2>1, <1>1, <1>3, <1>4
  <2>2. CASE r = p BY <2>2, <1>1, <1>3, <1>4
  <2>3. CASE q # p /\ r # p BY <2>3, <1>3 DEF IInv, Names
  <2> QED BY <2>1, <2>2, <2>3, Zenon
<1>7. \A n \in Runs : n > starts => preUpgrade[n] = NoFile /\ recovery[n] = NoFile
  BY Zenon DEF IInv, Names
<1>8. \A n \in Runs : n > starts' => preUpgrade'[n] = NoFile /\ recovery'[n] = NoFile
  <2> SUFFICES ASSUME NEW n \in Runs, n > starts' PROVE preUpgrade[n] = NoFile /\ recovery[n] = NoFile
    BY Zenon
  <2>1. n \in Nat BY BoundsAreNatural DEF Runs
  <2> QED BY <2>1, <1>1, <1>7
<1>9. preUpgrade[starts + 1] = NoFile /\ recovery[starts + 1] = NoFile
  BY <1>1, <1>7
<1> QED BY <1>3, <1>5, <1>6, <1>8, <1>9 DEF IInv, Names

(* A server starts.                                                        *)
LEMMA StartServerKeeps == ASSUME IInv, NEW p \in Procs, StartServer(p) PROVE IInv'
<1> USE DEF StartServer, At, Begins, Moves, KeepLocks, KeepFiles, NoFault, command, copies
<1>1. Shapes' BY FileFacts DEF IInv, Shapes, Names
<1>2. Leases' BY DEF IInv, Shapes, Leases, UnderShared, UnderExclusive
<1>3. Names' BY BeginsNames DEF IInv, Shapes, Names
<1>4. Saved' BY DEF IInv, Shapes, Saved, SavedBy, NeedsBackup, Present
<1>5. Whole' BY FileFacts DEF IInv, Shapes, Names, Whole, Copies
<1> QED BY <1>1, <1>2, <1>3, <1>4, <1>5, Zenon DEF IInv

(* A reindex starts, and may create the file.                              *)
LEMMA StartReindexKeeps == ASSUME IInv, NEW p \in Procs, StartReindex(p) PROVE IInv'
<1> USE DEF StartReindex, At, Begins, Moves, KeepLocks, KeepFiles, NoFault, command, copies
<1>1. Shapes' BY FileFacts DEF IInv, Shapes, Names
<1>2. Leases' BY DEF IInv, Shapes, Leases, UnderShared, UnderExclusive
<1>3. Names' BY BeginsNames DEF IInv, Shapes, Names
<1>4. Saved' BY Apart, FileFacts DEF IInv, Shapes, Leases, Saved, SavedBy, Names, NeedsBackup, Present, UnderShared, UnderExclusive
<1>5. Whole' BY FileFacts DEF IInv, Shapes, Names, Whole, Copies
<1> QED BY <1>1, <1>2, <1>3, <1>4, <1>5, Zenon DEF IInv

(* A reader opens the database.                                            *)
LEMMA OpenReadOnlyKeeps == ASSUME IInv, NEW p \in Procs, OpenReadOnly(p) PROVE IInv'
<1> USE DEF OpenReadOnly, At, Begins, Moves, KeepLocks, KeepFiles, NoFault, command, copies, SharedFree
<1>1. Shapes' BY FileFacts DEF IInv, Shapes, Names
<1>2. Leases' BY Zenon DEF IInv, Shapes, Leases, UnderShared, UnderExclusive
<1>3. Names' BY BeginsNames DEF IInv, Shapes, Names
<1>4. Saved' BY DEF IInv, Shapes, Saved, SavedBy, NeedsBackup, Present
<1>5. Whole' BY FileFacts DEF IInv, Shapes, Names, Whole, Copies
<1> QED BY <1>1, <1>2, <1>3, <1>4, <1>5, Zenon DEF IInv

(* A backup starts.                                                        *)
LEMMA StartBackupKeeps == ASSUME IInv, NEW p \in Procs, NEW d \in Dests, StartBackup(p, d) PROVE IInv'
<1> USE DEF StartBackup, At, Begins, Moves, KeepLocks, KeepFiles, NoFault, command, copies
<1>1. Shapes' BY FileFacts DEF IInv, Shapes, Names
<1>2. Leases' BY DEF IInv, Shapes, Leases, UnderShared, UnderExclusive
<1>3. Names' BY BeginsNames DEF IInv, Shapes, Names
<1>4. Saved' BY DEF IInv, Shapes, Saved, SavedBy, NeedsBackup, Present
<1>5. Whole' BY FileFacts DEF IInv, Shapes, Names, Whole, Copies
<1> QED BY <1>1, <1>2, <1>3, <1>4, <1>5, Zenon DEF IInv

(* A restore starts.                                                       *)
LEMMA StartRestoreKeeps == ASSUME IInv, NEW p \in Procs, NEW f \in Files, StartRestore(p, f) PROVE IInv'
<1> USE DEF StartRestore, At, Begins, Moves, KeepLocks, KeepFiles, NoFault, command, copies
<1>0. [f EXCEPT !.ver = "new"] \in Files BY Rewritten
<1>1. Shapes' BY <1>0 DEF IInv, Shapes, Names
<1>2. Leases' BY DEF IInv, Shapes, Leases, UnderShared, UnderExclusive
<1>3. Names' BY BeginsNames DEF IInv, Shapes, Names
<1>4. Saved' BY DEF IInv, Shapes, Saved, SavedBy, NeedsBackup, Present
<1>5. Whole' BY FileFacts DEF IInv, Shapes, Names, Whole, Copies
<1> QED BY <1>1, <1>2, <1>3, <1>4, <1>5, Zenon DEF IInv

(* The lease of a server.                                                  *)
LEMMA OpenLeaseKeeps == ASSUME IInv, NEW p \in Procs, OpenLease(p) PROVE IInv'
<1> USE DEF OpenLease, At, Goes, Moves, KeepLocks, KeepFiles, NoFault, command, copies, TakeShared, SharedFree
<1>1. Shapes' BY FileFacts, Zenon DEF IInv, Shapes, Names
<1>2. Leases' BY Zenon DEF IInv, Shapes, Leases, UnderShared, UnderExclusive
<1>3. Names' BY DEF IInv, Shapes, Names
<1>4. Saved' BY DEF IInv, Shapes, Saved, SavedBy, NeedsBackup, Present
<1>5. Whole' BY FileFacts DEF IInv, Shapes, Names, Whole, Copies
<1> QED BY <1>1, <1>2, <1>3, <1>4, <1>5, Zenon DEF IInv

(* The lease of a backup.                                                  *)
LEMMA BackupLeaseKeeps == ASSUME IInv, NEW p \in Procs, BackupLease(p) PROVE IInv'
<1> USE DEF BackupLease, At, Goes, Moves, KeepLocks, KeepFiles, NoFault, command, copies, TakeShared, SharedFree
<1>1. Shapes' BY FileFacts, Zenon DEF IInv, Shapes, Names
<1>2. Leases' BY Zenon DEF IInv, Shapes, Leases, UnderShared, UnderExclusive
<1>3. Names' BY DEF IInv, Shapes, Names
<1>4. Saved' BY DEF IInv, Shapes, Saved, SavedBy, NeedsBackup, Present
<1>5. Whole' BY FileFacts DEF IInv, Shapes, Names, Whole, Copies
<1> QED BY <1>1, <1>2, <1>3, <1>4, <1>5, Zenon DEF IInv

(* The file is created or found.                                           *)
LEMMA OpenCreatesKeeps == ASSUME IInv, NEW p \in Procs, OpenCreates(p) PROVE IInv'
<1> USE DEF OpenCreates, At, Goes, Moves, Ends, KeepLocks, KeepFiles, NoFault, Fault, command, copies
<1>1. Shapes' BY FileFacts DEF IInv, Shapes, Names
<1>2. Leases' BY DEF IInv, Shapes, Leases, UnderShared, UnderExclusive
<1>3. Names' BY DEF IInv, Shapes, Names
<1>4. Saved' BY Apart, FileFacts DEF IInv, Shapes, Leases, Saved, SavedBy, Names, NeedsBackup, Present, UnderShared, UnderExclusive
<1>5. Whole' BY FileFacts DEF IInv, Shapes, Names, Whole, Copies
<1> QED BY <1>1, <1>2, <1>3, <1>4, <1>5, Zenon DEF IInv

(* The write lock for the upgrade.                                         *)
LEMMA BeginUpgradeKeeps == ASSUME IInv, NEW p \in Procs, BeginUpgrade(p) PROVE IInv'
<1> USE DEF BeginUpgrade, At, Goes, Moves, KeepLocks, KeepFiles, NoFault, command, copies
<1>1. Shapes' BY FileFacts, Zenon DEF IInv, Shapes, Names
<1>2. Leases' BY NobodyIsNoProcess DEF IInv, Shapes, Leases, UnderShared, UnderExclusive
<1>3. Names' BY DEF IInv, Shapes, Names
<1>4. Saved' BY Apart DEF IInv, Shapes, Leases, Saved, SavedBy, Names, NeedsBackup, UnderShared, UnderExclusive
<1>5. Whole' BY FileFacts DEF IInv, Shapes, Names, Whole, Copies
<1> QED BY <1>1, <1>2, <1>3, <1>4, <1>5, Zenon DEF IInv

(* A copy is found, or its name reserved.                                  *)
LEMMA RetainKeeps == ASSUME IInv, NEW p \in Procs, Retain(p) PROVE IInv'
<1> USE DEF Retain, At, Goes, Moves, KeepLocks, KeepFiles, NoFault, command, copies
<1>1. Shapes' BY FileFacts DEF IInv, Shapes, Names
<1>2. Leases' BY DEF IInv, Shapes, Leases, UnderShared, UnderExclusive
<1>3. Names' BY DEF IInv, Shapes, Names
<1>4. Saved' BY Apart DEF IInv, Shapes, Leases, Saved, SavedBy, Names, NeedsBackup, Reusable, UnderShared, UnderExclusive
<1>5. Whole' BY FileFacts DEF IInv, Shapes, Names, Whole, Copies
<1> QED BY <1>1, <1>2, <1>3, <1>4, <1>5, Zenon DEF IInv

(* The reserved copy is filled or given up.                                *)
LEMMA CopyRetainedKeeps == ASSUME IInv, NEW p \in Procs, CopyRetained(p) PROVE IInv'
<1> USE DEF CopyRetained, At, Goes, Moves, Ends, KeepLocks, KeepFiles, NoFault, Fault, command, copies
<1>1. Shapes' BY FileFacts DEF IInv, Shapes, Names
<1>2. Leases' BY DEF IInv, Shapes, Leases, UnderShared, UnderExclusive
<1>3. Names' BY DEF IInv, Shapes, Names
<1>4. Saved' BY Apart DEF IInv, Shapes, Leases, Saved, SavedBy, Names, NeedsBackup, UnderShared, UnderExclusive
<1>5. Whole' BY FileFacts DEF IInv, Shapes, Names, Whole, Copies
<1> QED BY <1>1, <1>2, <1>3, <1>4, <1>5, Zenon DEF IInv

(* The upgrade.                                                            *)
LEMMA MigrateKeeps == ASSUME IInv, NEW p \in Procs, Migrate(p) PROVE IInv'
<1> USE DEF Migrate, At, Goes, Moves, Ends, KeepLocks, KeepFiles, NoFault, Fault, command, copies
<1>0. db' \in Files /\ promised' \subseteq Files BY Rewritten DEF IInv, Shapes
<1>1. Shapes'
  <2>1. CASE UNCHANGED faults BY <2>1, <1>0, FileFacts DEF IInv, Shapes
  <2>2. CASE faults' # faults BY <2>2, <1>0, FileFacts DEF IInv, Shapes
  <2> QED BY <2>1, <2>2, Zenon
<1>2. Leases' BY DEF IInv, Shapes, Leases, UnderShared, UnderExclusive
<1>3. Names' BY DEF IInv, Shapes, Names
<1>4. Saved' BY Apart, Rewritten DEF IInv, Shapes, Leases, Saved, SavedBy, Names, NeedsBackup, Present, UnderShared, UnderExclusive
<1>5. Whole' BY FileFacts DEF IInv, Shapes, Names, Saved, SavedBy, Whole, Copies, NeedsBackup
<1> QED BY <1>1, <1>2, <1>3, <1>4, <1>5, Zenon DEF IInv

(* A write of a server.                                                    *)
LEMMA WriteKeeps == ASSUME IInv, NEW p \in Procs, Write(p) PROVE IInv'
<1> USE DEF Write, At, Goes, Moves, KeepLocks, KeepFiles, NoFault, command, copies
<1>a. db \in Files /\ last + 1 \in Nat BY DEF IInv, Shapes
<1>b. [db EXCEPT !.data = last + 1] \in Files BY <1>a, Rewritten
<1>0. db' \in Files /\ last' \in Nat BY <1>a, <1>b, Zenon
<1>1. Shapes' BY <1>0, Zenon DEF IInv, Shapes, Names
<1>2. Leases' BY Zenon DEF IInv, Shapes, Leases, UnderShared, UnderExclusive
<1>3. Names' BY Zenon DEF IInv, Shapes, Names
<1>4. Saved' BY Apart, Rewritten, NobodyIsNoProcess DEF IInv, Shapes, Leases, Saved, SavedBy, Names, NeedsBackup, Present, UnderShared, UnderExclusive
<1>5. Whole' BY FileFacts DEF IInv, Shapes, Names, Whole, Copies
<1> QED BY <1>1, <1>2, <1>3, <1>4, <1>5, Zenon DEF IInv

(* A process closes the database.                                          *)
LEMMA CloseKeeps == ASSUME IInv, NEW p \in Procs, Close(p) PROVE IInv'
<1> USE DEF Close, At, Goes, Moves, Ends, KeepLocks, KeepFiles, NoFault, Fault, command, copies
<1>1. Shapes' BY FileFacts, Zenon DEF IInv, Shapes, Names
<1>2. Leases' BY DEF IInv, Shapes, Leases, UnderShared, UnderExclusive
<1>3. Names' BY DEF IInv, Shapes, Names
<1>4. Saved' BY DEF IInv, Shapes, Saved, SavedBy, NeedsBackup, Present
<1>5. Whole' BY FileFacts DEF IInv, Shapes, Names, Whole, Copies
<1> QED BY <1>1, <1>2, <1>3, <1>4, <1>5, Zenon DEF IInv

(* A write of an earlier release.                                          *)
LEMMA OlderWritesKeeps == ASSUME IInv, OlderWrites PROVE IInv'
<1> USE DEF OlderWrites, At, Goes, Moves, KeepLocks, KeepFiles, NoFault, command, copies, SharedFree
<1>a. db \in Files /\ last + 1 \in Nat BY DEF IInv, Shapes
<1>b. [db EXCEPT !.data = last + 1] \in Files BY <1>a, Rewritten
<1>0. db' \in Files /\ last' \in Nat BY <1>a, <1>b, Zenon
<1>1. Shapes' BY <1>0, Zenon DEF IInv, Shapes, Names
<1>2. Leases' BY Zenon DEF IInv, Shapes, Leases, UnderShared, UnderExclusive
<1>3. Names' BY Zenon DEF IInv, Shapes, Names
<1>4. Saved' BY Apart, Rewritten, NobodyIsNoProcess DEF IInv, Shapes, Leases, Saved, SavedBy, Names, NeedsBackup, Present, UnderShared, UnderExclusive
<1>5. Whole' BY FileFacts DEF IInv, Shapes, Names, Whole, Copies
<1> QED BY <1>1, <1>2, <1>3, <1>4, <1>5, Zenon DEF IInv

(* A backup copies the database.                                           *)
LEMMA SnapshotKeeps == ASSUME IInv, NEW p \in Procs, Snapshot(p) PROVE IInv'
<1> USE DEF Snapshot, At, Goes, Moves, Ends, KeepLocks, KeepFiles, NoFault, Fault, command, copies, Current
<1>1. Shapes' BY FileFacts DEF IInv, Shapes, Names
<1>2. Leases' BY DEF IInv, Shapes, Leases, UnderShared, UnderExclusive
<1>3. Names' BY DEF IInv, Shapes, Names
<1>4. Saved' BY DEF IInv, Shapes, Saved, SavedBy, NeedsBackup, Present
<1>5. Whole' BY FileFacts DEF IInv, Shapes, Names, Whole, Copies
<1> QED BY <1>1, <1>2, <1>3, <1>4, <1>5, Zenon DEF IInv

(* A backup is published.                                                  *)
LEMMA PublishKeeps == ASSUME IInv, NEW p \in Procs, Publish(p) PROVE IInv'
<1> USE DEF Publish, At, Goes, Moves, Ends, KeepLocks, KeepFiles, NoFault, Fault, command, copies, Present
<1>1. Shapes' BY FileFacts DEF IInv, Shapes, Names
<1>2. Leases' BY DEF IInv, Shapes, Leases, UnderShared, UnderExclusive
<1>3. Names' BY DEF IInv, Shapes, Names
<1>4. Saved' BY DEF IInv, Shapes, Saved, SavedBy, NeedsBackup, Present
<1>5. Whole' BY FileFacts DEF IInv, Shapes, Names, Saved, SavedBy, Whole, Copies
<1> QED BY <1>1, <1>2, <1>3, <1>4, <1>5, Zenon DEF IInv

(* A restore takes the lease.                                              *)
LEMMA TryExclusiveKeeps == ASSUME IInv, NEW p \in Procs, TryExclusive(p) PROVE IInv'
<1> USE DEF TryExclusive, At, Goes, Moves, Ends, KeepLocks, KeepFiles, NoFault, Fault, command, copies, ExclusiveFree
<1>1. Shapes' BY FileFacts DEF IInv, Shapes, Names
<1>2. Leases' BY DEF IInv, Shapes, Leases, UnderShared, UnderExclusive
<1>3. Names' BY DEF IInv, Shapes, Names
<1>4. Saved' BY DEF IInv, Shapes, Saved, SavedBy, NeedsBackup, Present
<1>5. Whole' BY FileFacts DEF IInv, Shapes, Names, Whole, Copies
<1> QED BY <1>1, <1>2, <1>3, <1>4, <1>5, Zenon DEF IInv

(* A restore copies the database, or begins to copy its bytes.             *)
LEMMA SaveRecoveryKeeps == ASSUME IInv, NEW p \in Procs, SaveRecovery(p) PROVE IInv'
<1> USE DEF SaveRecovery, At, Goes, Moves, Ends, KeepLocks, KeepFiles, NoFault, Fault, command, copies, Readable, Present
<1>1. Shapes' BY FileFacts DEF IInv, Shapes, Names
<1>2. Leases' BY DEF IInv, Shapes, Leases, UnderShared, UnderExclusive
<1>3. Names' BY DEF IInv, Shapes, Names
<1>4. Saved'
  <2>1. \A q \in Procs \ {p} : pc[q] \notin UnderShared /\ pc[q] \notin UnderExclusive
    BY Apart, Zenon DEF IInv, UnderExclusive
  <2>2. \A q \in Procs \ {p} : pc'[q] = pc[q] /\ kept'[q] = kept[q]
    BY Zenon DEF IInv, Shapes
  <2>3. \A q \in Procs \ {p} : SavedBy(q)'
    BY Zenon, <2>1, <2>2, OutsideSaved DEF IInv, Saved
  <2>4. SavedBy(p)'
    BY FileFacts DEF IInv, Shapes, Saved, SavedBy, Names, Present
  <2> QED BY <2>3, <2>4, Zenon DEF Saved
<1>5. Whole' BY FileFacts DEF IInv, Shapes, Names, Whole, Copies
<1> QED BY <1>1, <1>2, <1>3, <1>4, <1>5, Zenon DEF IInv

(* The bytes are copied.                                                   *)
LEMMA SaveRawKeeps == ASSUME IInv, NEW p \in Procs, SaveRaw(p) PROVE IInv'
<1> USE DEF SaveRaw, At, Goes, Moves, Ends, KeepLocks, KeepFiles, NoFault, Fault, command, copies
<1>1. Shapes' BY FileFacts DEF IInv, Shapes, Names
<1>2. Leases' BY DEF IInv, Shapes, Leases, UnderShared, UnderExclusive
<1>3. Names' BY DEF IInv, Shapes, Names
<1>4. Saved'
  <2>1. \A q \in Procs \ {p} : pc[q] \notin UnderShared /\ pc[q] \notin UnderExclusive
    BY Apart, Zenon DEF IInv, UnderExclusive
  <2>2. \A q \in Procs \ {p} : pc'[q] = pc[q] /\ kept'[q] = kept[q]
    BY Zenon DEF IInv, Shapes
  <2>3. \A q \in Procs \ {p} : SavedBy(q)'
    BY Zenon, <2>1, <2>2, OutsideSaved DEF IInv, Saved
  <2>4. SavedBy(p)'
    BY FileFacts DEF IInv, Shapes, Saved, SavedBy, Names, Present
  <2> QED BY <2>3, <2>4, Zenon DEF Saved
<1>5. Whole' BY FileFacts DEF IInv, Shapes, Names, Whole, Copies
<1> QED BY <1>1, <1>2, <1>3, <1>4, <1>5, Zenon DEF IInv

(* A missing database is created.                                          *)
LEMMA CreateTargetKeeps == ASSUME IInv, NEW p \in Procs, CreateTarget(p) PROVE IInv'
<1> USE DEF CreateTarget, At, Goes, Moves, Ends, KeepLocks, KeepFiles, NoFault, Fault, command, copies, Present
<1>1. Shapes' BY FileFacts DEF IInv, Shapes, Names
<1>2. Leases' BY DEF IInv, Shapes, Leases, UnderShared, UnderExclusive
<1>3. Names' BY DEF IInv, Shapes, Names
<1>4. Saved'
  <2>1. \A q \in Procs \ {p} : pc[q] \notin UnderShared /\ pc[q] \notin UnderExclusive
    BY Apart, Zenon DEF IInv, UnderExclusive
  <2>2. \A q \in Procs \ {p} : pc'[q] = pc[q] /\ kept'[q] = kept[q]
    BY Zenon DEF IInv, Shapes
  <2>3. \A q \in Procs \ {p} : SavedBy(q)'
    BY Zenon, <2>1, <2>2, OutsideSaved DEF IInv, Saved
  <2>4. SavedBy(p)'
    BY FileFacts DEF IInv, Shapes, Saved, SavedBy, Names, Present
  <2> QED BY <2>3, <2>4, Zenon DEF Saved
<1>5. Whole' BY FileFacts DEF IInv, Shapes, Names, Whole, Copies
<1> QED BY <1>1, <1>2, <1>3, <1>4, <1>5, Zenon DEF IInv

(* The database is replaced.                                               *)
LEMMA ReplaceKeeps == ASSUME IInv, NEW p \in Procs, Replace(p) PROVE IInv'
<1> USE DEF Replace, At, Goes, Moves, Ends, KeepLocks, KeepFiles, NoFault, Fault, command, copies, Owed
<1>1. Shapes' BY FileFacts DEF IInv, Shapes, Names
<1>2. Leases' BY DEF IInv, Shapes, Leases, UnderShared, UnderExclusive
<1>3. Names' BY DEF IInv, Shapes, Names
<1>4. Saved'
  <2>1. \A q \in Procs \ {p} : pc[q] \notin UnderShared /\ pc[q] \notin UnderExclusive
    BY Apart, Zenon DEF IInv, UnderExclusive
  <2>2. \A q \in Procs \ {p} : pc'[q] = pc[q] /\ kept'[q] = kept[q]
    BY Zenon DEF IInv, Shapes
  <2>3. \A q \in Procs \ {p} : SavedBy(q)'
    BY Zenon, <2>1, <2>2, OutsideSaved DEF IInv, Saved
  <2>4. SavedBy(p)'
    BY FileFacts DEF IInv, Shapes, Saved, SavedBy, Names, Present
  <2> QED BY <2>3, <2>4, Zenon DEF Saved
<1>5. Whole' BY FileFacts DEF IInv, Shapes, Names, Saved, SavedBy, Whole, Copies
<1> QED BY <1>1, <1>2, <1>3, <1>4, <1>5, Zenon DEF IInv

(* An unreadable database is removed.                                      *)
LEMMA RemoveRawKeeps == ASSUME IInv, NEW p \in Procs, RemoveRaw(p) PROVE IInv'
<1> USE DEF RemoveRaw, At, Goes, Moves, Ends, KeepLocks, KeepFiles, NoFault, Fault, command, copies, Owed
<1>1. Shapes' BY FileFacts, Zenon DEF IInv, Shapes, Names
<1>2. Leases' BY DEF IInv, Shapes, Leases, UnderShared, UnderExclusive
<1>3. Names' BY DEF IInv, Shapes, Names
<1>4. Saved'
  <2>1. \A q \in Procs \ {p} : pc[q] \notin UnderShared /\ pc[q] \notin UnderExclusive
    BY Apart, Zenon DEF IInv, UnderExclusive
  <2>2. \A q \in Procs \ {p} : pc'[q] = pc[q] /\ kept'[q] = kept[q]
    BY Zenon DEF IInv, Shapes
  <2>3. \A q \in Procs \ {p} : SavedBy(q)'
    BY Zenon, <2>1, <2>2, OutsideSaved DEF IInv, Saved
  <2>4. SavedBy(p)'
    BY FileFacts DEF IInv, Shapes, Saved, SavedBy, Names, Present
  <2> QED BY <2>3, <2>4, Zenon DEF Saved
<1>5. Whole' BY FileFacts DEF IInv, Shapes, Names, Saved, SavedBy, Whole, Copies
<1> QED BY <1>1, <1>2, <1>3, <1>4, <1>5, Zenon DEF IInv

(* It is created anew.                                                     *)
LEMMA CreateRawKeeps == ASSUME IInv, NEW p \in Procs, CreateRaw(p) PROVE IInv'
<1> USE DEF CreateRaw, At, Goes, Moves, KeepLocks, KeepFiles, NoFault, command, copies, Present
<1>1. Shapes' BY FileFacts, Zenon DEF IInv, Shapes, Names
<1>2. Leases' BY DEF IInv, Shapes, Leases, UnderShared, UnderExclusive
<1>3. Names' BY DEF IInv, Shapes, Names
<1>4. Saved'
  <2>1. \A q \in Procs \ {p} : pc[q] \notin UnderShared /\ pc[q] \notin UnderExclusive
    BY Apart, Zenon DEF IInv, UnderExclusive
  <2>2. \A q \in Procs \ {p} : pc'[q] = pc[q] /\ kept'[q] = kept[q]
    BY Zenon DEF IInv, Shapes
  <2>3. \A q \in Procs \ {p} : SavedBy(q)'
    BY Zenon, <2>1, <2>2, OutsideSaved DEF IInv, Saved
  <2>4. SavedBy(p)'
    BY FileFacts DEF IInv, Shapes, Saved, SavedBy, Names, Present
  <2> QED BY <2>3, <2>4, Zenon DEF Saved
<1>5. Whole' BY FileFacts DEF IInv, Shapes, Names, Whole, Copies
<1> QED BY <1>1, <1>2, <1>3, <1>4, <1>5, Zenon DEF IInv

(* It is filled.                                                           *)
LEMMA ReplaceRawKeeps == ASSUME IInv, NEW p \in Procs, ReplaceRaw(p) PROVE IInv'
<1> USE DEF ReplaceRaw, At, Goes, Moves, Ends, KeepLocks, KeepFiles, NoFault, Fault, command, copies
<1>1. Shapes' BY FileFacts DEF IInv, Shapes, Names
<1>2. Leases' BY DEF IInv, Shapes, Leases, UnderShared, UnderExclusive
<1>3. Names' BY DEF IInv, Shapes, Names
<1>4. Saved'
  <2>1. \A q \in Procs \ {p} : pc[q] \notin UnderShared /\ pc[q] \notin UnderExclusive
    BY Apart, Zenon DEF IInv, UnderExclusive
  <2>2. \A q \in Procs \ {p} : pc'[q] = pc[q] /\ kept'[q] = kept[q]
    BY Zenon DEF IInv, Shapes
  <2>3. \A q \in Procs \ {p} : SavedBy(q)'
    BY Zenon, <2>1, <2>2, OutsideSaved DEF IInv, Saved
  <2>4. SavedBy(p)'
    BY FileFacts DEF IInv, Shapes, Saved, SavedBy, Names, Present
  <2> QED BY <2>3, <2>4, Zenon DEF Saved
<1>5. Whole' BY FileFacts DEF IInv, Shapes, Names, Whole, Copies
<1> QED BY <1>1, <1>2, <1>3, <1>4, <1>5, Zenon DEF IInv

(* The restored database is inspected, or undone.                          *)
LEMMA ValidateKeeps == ASSUME IInv, NEW p \in Procs, Validate(p) PROVE IInv'
<1> USE DEF Validate, At, Goes, Moves, Ends, KeepLocks, KeepFiles, NoFault, Fault, command, copies
<1>1. Shapes' BY FileFacts DEF IInv, Shapes, Names
<1>2. Leases' BY DEF IInv, Shapes, Leases, UnderShared, UnderExclusive
<1>3. Names' BY DEF IInv, Shapes, Names
<1>4. Saved'
  <2>1. \A q \in Procs \ {p} : pc[q] \notin UnderShared /\ pc[q] \notin UnderExclusive
    BY Apart, Zenon DEF IInv, UnderExclusive
  <2>2. \A q \in Procs \ {p} : pc'[q] = pc[q] /\ kept'[q] = kept[q]
    BY Zenon DEF IInv, Shapes
  <2>3. \A q \in Procs \ {p} : SavedBy(q)'
    BY Zenon, <2>1, <2>2, OutsideSaved DEF IInv, Saved
  <2>4. SavedBy(p)'
    BY FileFacts DEF IInv, Shapes, Saved, SavedBy, Names, Present
  <2> QED BY <2>3, <2>4, Zenon DEF Saved
<1>5. Whole' BY FileFacts DEF IInv, Shapes, Names, Whole, Copies
<1> QED BY <1>1, <1>2, <1>3, <1>4, <1>5, Zenon DEF IInv

(* The rollback removes what was restored.                                 *)
LEMMA RollbackKeeps == ASSUME IInv, NEW p \in Procs, Rollback(p) PROVE IInv'
<1> USE DEF Rollback, At, Goes, Moves, Ends, KeepLocks, KeepFiles, NoFault, Fault, command, copies
<1>1. Shapes' BY FileFacts DEF IInv, Shapes, Names
<1>2. Leases' BY DEF IInv, Shapes, Leases, UnderShared, UnderExclusive
<1>3. Names' BY DEF IInv, Shapes, Names
<1>4. Saved'
  <2>1. \A q \in Procs \ {p} : pc[q] \notin UnderShared /\ pc[q] \notin UnderExclusive
    BY Apart, Zenon DEF IInv, UnderExclusive
  <2>2. \A q \in Procs \ {p} : pc'[q] = pc[q] /\ kept'[q] = kept[q]
    BY Zenon DEF IInv, Shapes
  <2>3. \A q \in Procs \ {p} : SavedBy(q)'
    BY Zenon, <2>1, <2>2, OutsideSaved DEF IInv, Saved
  <2>4. SavedBy(p)'
    BY FileFacts, Zenon DEF IInv, Shapes, Saved, SavedBy, Names, Present
  <2> QED BY <2>3, <2>4, Zenon DEF Saved
<1>5. Whole' BY FileFacts DEF IInv, Shapes, Names, Whole, Copies
<1> QED BY <1>1, <1>2, <1>3, <1>4, <1>5, Zenon DEF IInv

(* The rollback begins to copy the bytes back.                             *)
LEMMA RefillBeginsKeeps == ASSUME IInv, NEW p \in Procs, RefillBegins(p) PROVE IInv'
<1> USE DEF RefillBegins, At, Goes, Moves, Ends, KeepLocks, KeepFiles, NoFault, Fault, command, copies, Present
<1>1. Shapes' BY FileFacts DEF IInv, Shapes, Names
<1>2. Leases' BY DEF IInv, Shapes, Leases, UnderShared, UnderExclusive
<1>3. Names' BY DEF IInv, Shapes, Names
<1>4. Saved'
  <2>1. \A q \in Procs \ {p} : pc[q] \notin UnderShared /\ pc[q] \notin UnderExclusive
    BY Apart, Zenon DEF IInv, UnderExclusive
  <2>2. \A q \in Procs \ {p} : pc'[q] = pc[q] /\ kept'[q] = kept[q]
    BY Zenon DEF IInv, Shapes
  <2>3. \A q \in Procs \ {p} : SavedBy(q)'
    BY Zenon, <2>1, <2>2, OutsideSaved DEF IInv, Saved
  <2>4. SavedBy(p)'
    BY FileFacts DEF IInv, Shapes, Saved, SavedBy, Names, Present
  <2> QED BY <2>3, <2>4, Zenon DEF Saved
<1>5. Whole' BY FileFacts DEF IInv, Shapes, Names, Whole, Copies
<1> QED BY <1>1, <1>2, <1>3, <1>4, <1>5, Zenon DEF IInv

(* The rollback ends.                                                      *)
LEMMA RefillEndsKeeps == ASSUME IInv, NEW p \in Procs, RefillEnds(p) PROVE IInv'
<1> USE DEF RefillEnds, At, Goes, Moves, Ends, KeepLocks, KeepFiles, NoFault, Fault, command, copies
<1>1. Shapes' BY FileFacts DEF IInv, Shapes, Names
<1>2. Leases' BY DEF IInv, Shapes, Leases, UnderShared, UnderExclusive
<1>3. Names' BY DEF IInv, Shapes, Names
<1>4. Saved'
  <2>1. \A q \in Procs \ {p} : pc[q] \notin UnderShared /\ pc[q] \notin UnderExclusive
    BY Apart, Zenon DEF IInv, UnderExclusive
  <2>2. \A q \in Procs \ {p} : pc'[q] = pc[q] /\ kept'[q] = kept[q]
    BY Zenon DEF IInv, Shapes
  <2>3. \A q \in Procs \ {p} : SavedBy(q)'
    BY Zenon, <2>1, <2>2, OutsideSaved DEF IInv, Saved
  <2>4. SavedBy(p)'
    BY FileFacts, Zenon DEF IInv, Shapes, Saved, SavedBy, Names, Present
  <2> QED BY <2>3, <2>4, Zenon DEF Saved
<1>5. Whole' BY FileFacts DEF IInv, Shapes, Names, Whole, Copies
<1> QED BY <1>1, <1>2, <1>3, <1>4, <1>5, Zenon DEF IInv

(* A process dies.                                                         *)
LEMMA CrashKeeps == ASSUME IInv, NEW p \in Procs, Crash(p) PROVE IInv'
<1> USE DEF Crash, At, Goes, Moves, Ends, KeepLocks, KeepFiles, NoFault, Fault, command, copies
<1>1. Shapes' BY FileFacts, Zenon DEF IInv, Shapes, Names
<1>2. Leases' BY DEF IInv, Shapes, Leases, UnderShared, UnderExclusive
<1>3. Names' BY DEF IInv, Shapes, Names
<1>4. Saved' BY DEF IInv, Shapes, Saved, SavedBy, NeedsBackup, Present
<1>5. Whole' BY FileFacts DEF IInv, Shapes, Names, Whole, Copies
<1> QED BY <1>1, <1>2, <1>3, <1>4, <1>5, Zenon DEF IInv

(* Initially nothing is promised and nobody has begun.                     *)
LEMMA InitIInv == Init => IInv
<1> SUFFICES ASSUME Init PROVE IInv
  BY Zenon
<1>1. Raw \in Files /\ \A v \in {"old", "new"}, n \in Nat : Sqlite(v, n) \in Files
  BY Zenon DEF Raw, Sqlite, Files
<1>2. Shapes BY <1>1, FileFacts DEF Init, Shapes
<1>3. Leases BY Zenon DEF Init, Leases, UnderShared, UnderExclusive
<1>4. Names BY Zenon DEF Init, Names
<1>5. Saved BY Zenon DEF Init, Saved, SavedBy
<1>6. Whole BY Zenon DEF Init, Whole
<1> QED BY <1>2, <1>3, <1>4, <1>5, <1>6, Zenon DEF IInv

(* Every step keeps the invariant.                                         *)
LEMMA NextIInv == IInv /\ [Next]_vars => IInv'
<1> SUFFICES ASSUME IInv, [Next]_vars PROVE IInv'
  BY Zenon
<1>1. ASSUME NEW p \in Procs, Opens(p) PROVE IInv'
  BY <1>1, StartServerKeeps, StartReindexKeeps, OpenLeaseKeeps, OpenCreatesKeeps, BeginUpgradeKeeps, RetainKeeps,
     CopyRetainedKeeps, MigrateKeeps, OpenReadOnlyKeeps, Zenon DEF Opens
<1>2. ASSUME NEW p \in Procs, Uses(p) PROVE IInv'
  BY <1>2, WriteKeeps, CloseKeeps, Zenon DEF Uses
<1>3. ASSUME NEW p \in Procs, Backup(p) PROVE IInv'
  BY <1>3, StartBackupKeeps, BackupLeaseKeeps, SnapshotKeeps, PublishKeeps, Zenon DEF Backup
<1>4. ASSUME NEW p \in Procs, Restore(p) PROVE IInv'
  <2>1. Copies \subseteq Files BY Zenon DEF IInv, Shapes, Copies
  <2> QED BY <1>4, <2>1, StartRestoreKeeps, TryExclusiveKeeps, SaveRecoveryKeeps, SaveRawKeeps, CreateTargetKeeps, ReplaceKeeps,
          RemoveRawKeeps, CreateRawKeeps, ReplaceRawKeeps, ValidateKeeps, RollbackKeeps, RefillBeginsKeeps,
          RefillEndsKeeps DEF Restore
<1>5. ASSUME NEW p \in Procs, Crash(p) PROVE IInv'
  BY <1>5, CrashKeeps, Zenon
<1>6. CASE OlderWrites BY <1>6, OlderWritesKeeps, Zenon
<1>7. CASE UNCHANGED vars
  <2> USE <1>7 DEF vars, copies, command, IInv
  <2>1. Shapes' BY Zenon DEF Shapes
  <2>2. Leases' BY Zenon DEF Leases
  <2>3. Names' BY Zenon DEF Names
  <2>4. Saved' BY Zenon DEF Saved, SavedBy, NeedsBackup, Present
  <2>5. Whole' BY Zenon DEF Whole, Copies
  <2> QED BY <2>1, <2>2, <2>3, <2>4, <2>5, Zenon
<1> QED BY <1>1, <1>2, <1>3, <1>4, <1>5, <1>6, <1>7, Zenon DEF Next

(***************************************************************************)
(* Whatever backup.rs and sqlite.rs promise to keep stays whole in a copy: *)
(* a reported backup, a database before its upgrade, a database that a     *)
(* restore replaced.                                                       *)
(***************************************************************************)
THEOREM NothingIsLost == Spec => []NothingLost
<1>1. IInv => NothingLost BY Zenon DEF IInv, Whole, NothingLost
<1> QED BY InitIInv, NextIInv, <1>1, PTL DEF Spec

-----------------------------------------------------------------------------
(* The migration to PostgreSQL.                                            *)

\* Contents are numbered as they are written, wherever they have been copied.
Numbered ==
    /\ last \in Nat \ {0} /\ db.data <= last
    /\ \A d \in Dests : backups[d].data <= last
    /\ \A n \in Runs : preUpgrade[n].data <= last /\ recovery[n].data <= last
    /\ \A p \in Procs : from[p].data <= last

(* What the commands put in place of a file holds contents already written. *)
LEMMA DataFacts ==
    ASSUME NEW f \in Files, NEW n \in Nat
    PROVE  /\ NoFile.data = 0 /\ Torn.data = 0 /\ Empty.data = 0 /\ Raw.data = 1 /\ f.data \in Nat
           /\ Sqlite("new", f.data).data = f.data /\ [f EXCEPT !.ver = "new"].data = f.data
           /\ [f EXCEPT !.data = n].data = n
           /\ Sqlite("old", n).data = n /\ Sqlite("new", n).data = n
BY Zenon DEF NoFile, Torn, Empty, Raw, Files, Sqlite

(* A step of the commands writes the next contents, or copies earlier ones. *)
LEMMA CommandsNumber ==
    ASSUME IInv, Numbered, NEW p \in Procs, Opens(p) \/ Uses(p) \/ Backup(p) \/ Restore(p) \/ Crash(p)
    PROVE  Numbered'
<1>0. /\ NoFile.data = 0 /\ Torn.data = 0 /\ Empty.data = 0 /\ last \in Nat \ {0}
      /\ db.data \in Nat /\ Sqlite("new", db.data).data = db.data
      /\ [db EXCEPT !.data = last + 1].data = last + 1
  BY DataFacts DEF IInv, Shapes, Numbered
<1>f. \A f \in Copies : f.data \in Nat /\ f.data <= last /\ [f EXCEPT !.ver = "new"].data = f.data
  BY DataFacts DEF IInv, Shapes, Numbered, Copies
<1>d. /\ \A d \in Dests : backups[d].data \in Nat
      /\ \A n \in Runs : preUpgrade[n].data \in Nat /\ recovery[n].data \in Nat
      /\ \A q \in Procs : from[q].data \in Nat
  BY DataFacts DEF IInv, Shapes
<1>r. /\ pc[p] # "off" => run[p] \in Runs
      /\ pc[p] = "publish" => aim[p] \in Dests
  BY Zenon DEF IInv, Names
<1>s. Shapes BY Zenon DEF IInv
<1> USE <1>0, <1>d, <1>s DEF Shapes, Numbered
<1>1. CASE StartServer(p) BY <1>1 DEF StartServer, Begins, Ends, Moves, Goes, TakeShared, KeepFiles, command, copies
<1>2. CASE StartReindex(p) BY <1>2 DEF StartReindex, Begins, Ends, Moves, Goes, TakeShared, KeepFiles, command, copies
<1>3. CASE OpenLease(p) BY <1>3, Zenon DEF OpenLease, Begins, Ends, Moves, Goes, TakeShared, KeepFiles, command, copies
<1>4. CASE OpenCreates(p) BY <1>4 DEF OpenCreates, Begins, Ends, Moves, Goes, TakeShared, KeepFiles, command, copies
<1>5. CASE BeginUpgrade(p) BY <1>5, Zenon DEF BeginUpgrade, Begins, Ends, Moves, Goes, TakeShared, KeepFiles, command, copies
<1>6. CASE Retain(p) BY <1>6 DEF Retain, Begins, Ends, Moves, Goes, TakeShared, KeepFiles, command, copies
<1>7. CASE CopyRetained(p)
  <2>1. UNCHANGED <<db, last, backups, recovery>> BY <1>7, Zenon DEF CopyRetained
  <2>2. \E f \in {db, NoFile} : preUpgrade' = [preUpgrade EXCEPT ![run[p]] = f] BY <1>7, Zenon DEF CopyRetained
  <2>3. from' = from \/ from' = [from EXCEPT ![p] = NoFile] BY <1>7, Zenon DEF CopyRetained, Ends, Moves, Goes, command
  <2>4. \A n \in Runs : preUpgrade'[n].data <= last BY <2>2
  <2>5. \A q \in Procs : from'[q].data <= last BY <2>3
  <2> QED BY <2>1, <2>4, <2>5, Zenon
<1>8. CASE Migrate(p) BY <1>8 DEF Migrate, Begins, Ends, Moves, Goes, TakeShared, KeepFiles, command, copies
<1>9. CASE OpenReadOnly(p) BY <1>9 DEF OpenReadOnly, Begins, Ends, Moves, Goes, TakeShared, KeepFiles, command, copies
<1>10. CASE Write(p) BY <1>10 DEF Write, Begins, Ends, Moves, Goes, TakeShared, KeepFiles, command, copies
<1>11. CASE Close(p) BY <1>11 DEF Close, Begins, Ends, Moves, Goes, TakeShared, KeepFiles, command, copies
<1>12. CASE BackupLease(p) BY <1>12, Zenon DEF BackupLease, Begins, Ends, Moves, Goes, TakeShared, KeepFiles, command, copies
<1>13. CASE Snapshot(p) BY <1>13 DEF Snapshot, Begins, Ends, Moves, Goes, TakeShared, KeepFiles, command, copies
<1>14. CASE Publish(p) BY <1>14, <1>r DEF Publish, At, Begins, Ends, Moves, Goes, TakeShared, KeepFiles, command, copies
<1>15. CASE TryExclusive(p) BY <1>15 DEF TryExclusive, Begins, Ends, Moves, Goes, TakeShared, KeepFiles, command, copies
<1>16. CASE SaveRecovery(p) BY <1>16 DEF SaveRecovery, Begins, Ends, Moves, Goes, TakeShared, KeepFiles, command, copies
<1>17. CASE SaveRaw(p)
  <2>1. UNCHANGED <<db, last, backups, preUpgrade>> BY <1>17, Zenon DEF SaveRaw
  <2>2. \E f \in {db, NoFile} : recovery' = [recovery EXCEPT ![run[p]] = f] BY <1>17, Zenon DEF SaveRaw
  <2>3. from' = from \/ from' = [from EXCEPT ![p] = NoFile] BY <1>17, Zenon DEF SaveRaw, Ends, Moves, Goes, command
  <2>4. \A n \in Runs : recovery'[n].data <= last BY <2>2
  <2>5. \A q \in Procs : from'[q].data <= last BY <2>3
  <2> QED BY <2>1, <2>4, <2>5, Zenon
<1>18. CASE CreateTarget(p) BY <1>18 DEF CreateTarget, Begins, Ends, Moves, Goes, TakeShared, KeepFiles, command, copies
<1>19. CASE Replace(p) BY <1>19 DEF Replace, Begins, Ends, Moves, Goes, TakeShared, KeepFiles, command, copies
<1>20. CASE RemoveRaw(p) BY <1>20 DEF RemoveRaw, Begins, Ends, Moves, Goes, TakeShared, KeepFiles, command, copies
<1>21. CASE CreateRaw(p) BY <1>21 DEF CreateRaw, Begins, Ends, Moves, Goes, TakeShared, KeepFiles, command, copies
<1>22. CASE ReplaceRaw(p) BY <1>22, Zenon DEF ReplaceRaw, Begins, Ends, Moves, Goes, TakeShared, KeepFiles, command, copies
<1>23. CASE Validate(p) BY <1>23, <1>r DEF Validate, At, Begins, Ends, Moves, Goes, TakeShared, KeepFiles, command, copies
<1>24. CASE Rollback(p) BY <1>24 DEF Rollback, Begins, Ends, Moves, Goes, TakeShared, KeepFiles, command, copies
<1>25. CASE RefillBegins(p) BY <1>25 DEF RefillBegins, Begins, Ends, Moves, Goes, TakeShared, KeepFiles, command, copies
<1>26. CASE RefillEnds(p) BY <1>26, <1>r DEF RefillEnds, At, Begins, Ends, Moves, Goes, TakeShared, KeepFiles, command, copies
<1>27. CASE Crash(p) BY <1>27 DEF Crash, Begins, Ends, Moves, Goes, TakeShared, KeepFiles, command, copies
<1>28. CASE \E d \in Dests : StartBackup(p, d) BY <1>28 DEF StartBackup, Begins, Ends, Moves, Goes, TakeShared, KeepFiles, command, copies
<1>29. CASE \E f \in Copies : StartRestore(p, f) BY <1>29, <1>f DEF StartRestore, Begins, Ends, Moves, Goes, TakeShared, KeepFiles, command, copies
<1> QED
  BY <1>1, <1>2, <1>3, <1>4, <1>5, <1>6, <1>7, <1>8, <1>9, <1>10, <1>11, <1>12, <1>13, <1>14, <1>15, <1>16, <1>17, <1>18, <1>19, <1>20, <1>21, <1>22, <1>23, <1>24, <1>25, <1>26, <1>27, <1>28, <1>29 DEF Opens, Uses, Backup, Restore

(* Init numbers the first contents 1.                                      *)
LEMMA InitNumbered == Init => Numbered
<1> SUFFICES ASSUME Init PROVE Numbered
  BY Zenon
<1>1. /\ NoFile.data = 0 /\ Raw.data = 1 /\ Sqlite("old", 1).data = 1 /\ Sqlite("new", 1).data = 1
      /\ Sqlite("old", 0).data = 0 /\ Sqlite("new", 0).data = 0
  BY FileFacts, DataFacts, Zenon
<1>2. db.data \in {0, 1} BY <1>1, Zenon DEF Init
<1>3. \A d \in Dests : backups[d].data = 0 BY <1>1, Zenon DEF Init
<1> QED BY <1>1, <1>2, <1>3 DEF Init, Numbered

(* Every step of the commands, and of an earlier release, numbers what it writes. *)
LEMMA NextNumbered ==
    ASSUME IInv, Numbered, [Next]_vars
    PROVE  Numbered' /\ last' \in Nat /\ last <= last'
<1>1. CASE \E p \in Procs : Opens(p) \/ Uses(p) \/ Backup(p) \/ Restore(p) \/ Crash(p)
  <2>1. Numbered' BY <1>1, CommandsNumber
  <2>2. last' = last \/ last' = last + 1
    BY <1>1 DEF Opens, Uses, Backup, Restore, Crash, StartServer, StartReindex, OpenLease, OpenCreates, BeginUpgrade,
       Retain, CopyRetained, Migrate, OpenReadOnly, Write, Close, StartBackup, BackupLease, Snapshot, Publish,
       StartRestore, TryExclusive, SaveRecovery, SaveRaw, CreateTarget, Replace, RemoveRaw, CreateRaw, ReplaceRaw,
       Validate, Rollback, RefillBegins, RefillEnds, TakeShared, KeepFiles
  <2> QED BY <2>1, <2>2 DEF Numbered
<1>2. CASE OlderWrites
  <2>1. [db EXCEPT !.data = last + 1].data = last + 1 BY DataFacts DEF IInv, Shapes, Numbered
  <2>2. \A f \in Files : f.data \in Nat BY DataFacts, Zenon
  <2> QED BY <1>2, <2>1, <2>2 DEF OlderWrites, Numbered, copies, command, IInv, Shapes
<1>3. CASE UNCHANGED vars
  BY <1>3 DEF vars, copies, command, Numbered
<1> QED BY <1>1, <1>2, <1>3, Zenon DEF Next

\* The first k groups of the contents numbered v.
Copied(k, v) == {<<Groups[i], v>> : i \in 1..k}

Importing == {"import", "sequences", "verify", "commit"}
MigrationPlaces == {"off", "export", "preflight", "openTarget", "lock", "recount"} \cup Importing

\* The export holds the groups of one contents, in order; the import follows it
\* into tables that nobody else can write to and that were empty when it began.
Exported ==
    /\ mig \in [pc : MigrationPlaces, reads : Nat, source : SUBSET (Tables \X Nat), in : SUBSET (Tables \X Nat)]
    /\ mig.reads <= last
    /\ mig.pc = "export" => \E k \in 0..2 : mig.source = Copied(k, mig.reads)
    /\ mig.pc \in MigrationPlaces \ {"off", "export"} => mig.source = Copied(3, mig.reads)
    /\ mig.pc \in MigrationPlaces \ Importing => mig.in = {}
    /\ mig.pc = "import" => \E k \in 0..2 : mig.in = Copied(k, mig.reads)
    /\ mig.pc \in Importing \ {"import"} => mig.in = Copied(3, mig.reads)

Received ==
    /\ target \in [schema : BOOLEAN, rows : SUBSET (Tables \X Nat), own : SUBSET [id : Nat, late : BOOLEAN],
                   seq : Nat, locked : BOOLEAN]
    /\ mig.pc \in Importing \cup {"recount"} => target.locked
    /\ mig.pc \in Importing => TargetIsEmpty
    /\ mig.pc \in {"verify", "commit"} => target.seq = mig.reads
    /\ target.rows # {} =>
          \E v \in 0..last : /\ target.rows = Tables \X {v} /\ v <= target.seq
                             /\ \A r \in target.own : r.late /\ r.id > v

MIInv == IInv /\ Numbered /\ Exported /\ Received

(* The groups in their order.                                              *)
LEMMA GroupFacts ==
    /\ Groups[1] = "memories" /\ Groups[2] = "contexts" /\ Groups[3] = "logs" /\ Len(Groups) = 3
    /\ Tables = {"memories", "contexts", "logs"}
<1>1. Groups[1] = "memories" /\ Groups[2] = "contexts" /\ Groups[3] = "logs" /\ Len(Groups) = 3
  BY Zenon DEF Groups
<1>2. 1..3 = {1, 2, 3} OBVIOUS
<1>3. Tables = {Groups[i] : i \in {1, 2, 3}} BY <1>1, <1>2, Zenon DEF Tables
<1> QED BY <1>1, <1>3, Zenon

(* The groups of one contents, written out.                                *)
LEMMA CopiedFacts ==
    ASSUME NEW v
    PROVE  /\ Copied(0, v) = {} /\ Copied(1, v) = {<<"memories", v>>}
           /\ Copied(2, v) = {<<"memories", v>>, <<"contexts", v>>}
           /\ Copied(3, v) = {<<"memories", v>>, <<"contexts", v>>, <<"logs", v>>}
           /\ Copied(3, v) = Tables \X {v}
<1>1. 1..0 = {} /\ 1..1 = {1} /\ 1..2 = {1, 2} /\ 1..3 = {1, 2, 3} OBVIOUS
<1>2. Copied(0, v) = {} BY <1>1, Zenon DEF Copied
<1>3. Copied(1, v) = {<<Groups[i], v>> : i \in {1}} BY <1>1, Zenon DEF Copied
<1>4. Copied(2, v) = {<<Groups[i], v>> : i \in {1, 2}} BY <1>1, Zenon DEF Copied
<1>5. Copied(3, v) = {<<Groups[i], v>> : i \in {1, 2, 3}} BY <1>1, Zenon DEF Copied
<1>6. Tables \X {v} = {<<"memories", v>>, <<"contexts", v>>, <<"logs", v>>} BY GroupFacts
<1> QED BY <1>2, <1>3, <1>4, <1>5, <1>6, GroupFacts

(* The number of groups copied says which group is next.                   *)
LEMMA CopiedCounts ==
    ASSUME NEW v, NEW k \in 0..2
    PROVE  /\ Cardinality(Copied(k, v)) = k
           /\ Copied(k, v) \cup {<<Groups[k + 1], v>>} = Copied(k + 1, v)
           /\ {r \in Copied(3, v) : r[1] = Groups[k + 1]} = {<<Groups[k + 1], v>>}
<1> DEFINE a == <<"memories", v>>
           b == <<"contexts", v>>
<1>1. a # b BY Zenon
<1>2. IsFiniteSet({}) /\ Cardinality({}) = 0 BY FS_EmptySet, Zenon
<1>3. IsFiniteSet({a}) /\ Cardinality({a}) = 1 BY FS_Singleton
<1>4. {a} \cup {b} = {a, b} /\ b \notin {a} BY <1>1, Zenon
<1>5. Cardinality({a, b}) = 2
  <2> HIDE DEF a, b
  <2>1. Cardinality({a} \cup {b}) = Cardinality({a}) + 1 BY <1>3, <1>4, FS_AddElement, Zenon
  <2> QED BY <2>1, <1>3, <1>4
<1>6. k = 0 \/ k = 1 \/ k = 2 OBVIOUS
<1>7. Cardinality(Copied(k, v)) = k BY <1>2, <1>3, <1>5, <1>6, CopiedFacts, Zenon
<1>8. Copied(k, v) \cup {<<Groups[k + 1], v>>} = Copied(k + 1, v)
  <2>1. CASE k = 0 BY <2>1, CopiedFacts, GroupFacts
  <2>2. CASE k = 1 BY <2>2, CopiedFacts, GroupFacts
  <2>3. CASE k = 2 BY <2>3, CopiedFacts, GroupFacts
  <2> QED BY <1>6, <2>1, <2>2, <2>3, Zenon
<1>9. {r \in Copied(3, v) : r[1] = Groups[k + 1]} = {<<Groups[k + 1], v>>}
  <2>1. CASE k = 0 BY <2>1, CopiedFacts, GroupFacts
  <2>2. CASE k = 1 BY <2>2, CopiedFacts, GroupFacts
  <2>3. CASE k = 2 BY <2>3, CopiedFacts, GroupFacts
  <2> QED BY <1>6, <2>1, <2>2, <2>3, Zenon
<1> QED BY <1>7, <1>8, <1>9, Zenon

(* The sequence continues after the contents that were imported.           *)
LEMMA LastAuditOfCopied == ASSUME NEW v \in Nat PROVE LastAudit(Copied(3, v)) = v
<1> DEFINE ids == {r[2] : r \in {x \in Copied(3, v) : x[1] = "logs"}}
<1>1. {x \in Copied(3, v) : x[1] = "logs"} = {<<"logs", v>>} BY CopiedCounts, GroupFacts
<1>2. ids = {v}
  <2>1. ids = {r[2] : r \in {<<"logs", v>>}} BY <1>1, Zenon
  <2>2. <<"logs", v>>[2] = v BY Zenon
  <2> QED BY <2>1, <2>2, Zenon
<1>3. LastAudit(Copied(3, v)) = CHOOSE n \in ids : \A m \in ids : m <= n BY Zenon DEF LastAudit
<1> HIDE DEF ids
<1> QED BY <1>2, <1>3

(* The commands on SQLite leave the migration alone, and only add contents. *)
LEMMA CommandsKeepMigration ==
    ASSUME MIInv, [Next]_vars, UNCHANGED migVars
    PROVE  MIInv'
<1>1. IInv' BY NextIInv, Zenon DEF MIInv
<1>2. Numbered' /\ last \in Nat /\ last' \in Nat /\ last <= last'
  BY NextNumbered, Zenon DEF MIInv, Numbered
<1>3. mig' = mig /\ target' = target BY Zenon DEF migVars
<1>4. Exported'
  <2>1. mig.reads \in Nat BY Zenon DEF MIInv, Exported
  <2>2. mig'.reads <= last' BY <2>1, <1>2, <1>3 DEF MIInv, Exported
  <2> QED BY <2>2, <1>3, Zenon DEF MIInv, Exported
<1>5. Received'
  <2>1. \A v \in 0..last : v \in 0..last' BY <1>2
  <2> QED BY <2>1, <1>3, Zenon DEF MIInv, Received, TargetIsEmpty
<1> QED BY <1>1, <1>2, <1>4, <1>5, Zenon DEF MIInv

(* The migration leaves the files of SQLite alone; its start counts as a command. *)
LEMMA MigrationKeepsFiles ==
    ASSUME IInv, Numbered, KeepSqlite, starts' = starts \/ starts' = starts + 1
    PROVE  IInv' /\ Numbered'
<1> USE DEF KeepSqlite, copies, command
<1>1. starts \in Nat /\ starts' \in Nat /\ starts <= starts' BY DEF IInv, Shapes
<1>2. Shapes' BY <1>1, Zenon DEF IInv, Shapes
<1>3. Leases' BY Zenon DEF IInv, Leases
<1>4. Names'
  <2>1. \A p \in Procs : pc[p] # "off" => run[p] <= starts'
    BY <1>1 DEF IInv, Shapes, Names
  <2>2. \A n \in Runs : n > starts' => n > starts
    BY <1>1, BoundsAreNatural DEF Runs
  <2> QED BY <2>1, <2>2, Zenon DEF IInv, Names
<1>5. Saved' BY Zenon DEF IInv, Saved, SavedBy, NeedsBackup, Present
<1>6. Whole' BY DEF IInv, Whole, Copies
<1>7. Numbered' BY Zenon DEF Numbered
<1> QED BY <1>2, <1>3, <1>4, <1>5, <1>6, <1>7, Zenon DEF IInv

(* A migration that begins reads the database as it is.                    *)
LEMMA ExportBeginsKeeps == ASSUME MIInv, ExportBegins PROVE Exported' /\ Received'
<1>1. mig' = [pc |-> "export", reads |-> db.data, source |-> {}, in |-> {}] /\ target' = target /\ last' = last
  BY DEF ExportBegins, NoMigration, KeepSqlite
<1>2. db.data \in Nat /\ db.data <= last
  BY Zenon DEF MIInv, Numbered, IInv, Shapes, Files
<1>3. Exported'
  <2>1. {} = Copied(0, db.data) /\ 0 \in 0..2 BY CopiedFacts
  <2> QED BY <1>1, <1>2, <2>1, Zenon DEF Exported, MigrationPlaces, Importing
<1>4. Received' BY <1>1, Zenon DEF MIInv, Received, TargetIsEmpty, Importing
<1> QED BY <1>3, <1>4, Zenon

(* The export reads the next group of the same contents.                   *)
LEMMA ExportKeeps == ASSUME MIInv, Export PROVE Exported' /\ Received'
<1>1. PICK k \in 0..2 : mig.source = Copied(k, mig.reads) BY Zenon DEF Export, MAt, MIInv, Exported
<1> DEFINE v == mig.reads
<1>2. /\ v \in Nat /\ v <= last /\ mig.in = {} /\ last' = last /\ target' = target
  BY Zenon DEF Export, MAt, MIInv, Exported, KeepRest, KeepSqlite, MigrationPlaces, Importing
<1>3. mig' = [mig EXCEPT !.source = mig.source \cup {ReadInTransaction(Groups[Cardinality(mig.source) + 1])},
                         !.pc = IF Cardinality(mig.source) + 1 = Len(Groups) THEN "preflight" ELSE "export"]
  BY Zenon DEF Export
<1>4. mig' = [mig EXCEPT !.source = Copied(k + 1, v), !.pc = IF k + 1 = 3 THEN "preflight" ELSE "export"]
  <2>1. Cardinality(mig.source) = k /\ Len(Groups) = 3 BY <1>1, CopiedCounts, GroupFacts, Zenon
  <2>2. mig.source \cup {ReadInTransaction(Groups[k + 1])} = Copied(k + 1, v)
    BY <1>1, CopiedCounts, Zenon DEF ReadInTransaction
  <2> QED BY <1>3, <2>1, <2>2, Zenon
<1>5. Copied(k + 1, v) \subseteq Tables \X Nat
  <2>1. k + 1 = 1 \/ k + 1 = 2 \/ k + 1 = 3 OBVIOUS
  <2> HIDE DEF v
  <2> QED BY <2>1, <1>2, CopiedFacts, GroupFacts
<1>6. k + 1 # 3 => k + 1 \in 0..2 OBVIOUS
<1> HIDE DEF v
<1>7. mig'.reads = v /\ mig'.in = {} /\ mig'.source = Copied(k + 1, v)
      /\ mig'.pc = (IF k + 1 = 3 THEN "preflight" ELSE "export")
      /\ mig' \in [pc : MigrationPlaces, reads : Nat, source : SUBSET (Tables \X Nat), in : SUBSET (Tables \X Nat)]
  BY <1>2, <1>4, <1>5 DEF MIInv, Exported, MigrationPlaces, v
<1>8. Exported' BY <1>2, <1>6, <1>7, Zenon DEF Exported, MigrationPlaces, Importing
<1>9. Received' BY <1>2, <1>7, Zenon DEF MIInv, Received, TargetIsEmpty, Importing
<1> QED BY <1>8, <1>9, Zenon

(* A migration that fails leaves the target as it was, its sequence apart. *)
LEMMA FailsKeeps == ASSUME MIInv, Fails, last' = last PROVE Exported' /\ Received'
<1>1. mig' = NoMigration /\ target' = [target EXCEPT !.locked = FALSE] BY Zenon DEF Fails
<1>2. Exported'
  <2>1. last \in Nat BY Zenon DEF MIInv, Numbered
  <2> QED BY <1>1, <2>1 DEF Exported, NoMigration, MigrationPlaces, Importing
<1>3. /\ target'.rows = target.rows /\ target'.own = target.own /\ target'.seq = target.seq
      /\ target' \in [schema : BOOLEAN, rows : SUBSET (Tables \X Nat), own : SUBSET [id : Nat, late : BOOLEAN],
                      seq : Nat, locked : BOOLEAN]
  BY <1>1 DEF MIInv, Received
<1>4. mig'.pc = "off" BY <1>1, Zenon DEF NoMigration
<1>5. Received' BY <1>3, <1>4, Zenon DEF MIInv, Received, Importing
<1> QED BY <1>2, <1>5, Zenon

(* The steps that prepare the target.                                      *)
LEMMA PrepareKeeps == ASSUME MIInv, Preflight \/ OpenTarget \/ LockTables \/ Recount PROVE Exported' /\ Received'
<1>0. last' = last BY Zenon DEF Preflight, OpenTarget, LockTables, Recount, KeepRest, KeepSqlite
<1>1. CASE Fails BY <1>0, <1>1, FailsKeeps, Zenon
<1>2. CASE ~Fails
  <2>1. PICK place \in {"openTarget", "lock", "recount", "import"} :
          /\ mig' = [mig EXCEPT !.pc = place]
          /\ mig.pc \in {"preflight", "openTarget", "lock", "recount"}
          /\ place = "import" => target' = target /\ TargetIsEmpty /\ mig.pc = "recount"
          /\ place = "recount" => target' = [target EXCEPT !.locked = TRUE]
          /\ target' = target \/ target' = [target EXCEPT !.locked = TRUE] \/ target' = [target EXCEPT !.schema = TRUE]
    BY <1>2, Zenon DEF Preflight, OpenTarget, LockTables, Recount, MGoes, MAt
  <2>2. /\ mig'.reads = mig.reads /\ mig'.in = mig.in /\ mig'.source = mig.source /\ mig'.pc = place
        /\ mig' \in [pc : MigrationPlaces, reads : Nat, source : SUBSET (Tables \X Nat), in : SUBSET (Tables \X Nat)]
    BY <2>1, Zenon DEF MIInv, Exported, MigrationPlaces, Importing
  <2>3. mig.in = {} /\ mig.source = Copied(3, mig.reads)
    BY <2>1, Zenon DEF MIInv, Exported, MigrationPlaces, Importing
  <2>4. Exported'
    <3>1. {} = Copied(0, mig.reads) /\ 0 \in 0..2 BY CopiedFacts
    <3> QED BY <1>0, <2>2, <2>3, <3>1, Zenon DEF MIInv, Exported, MigrationPlaces, Importing
  <2>5. /\ target'.rows = target.rows /\ target'.own = target.own /\ target'.seq = target.seq
        /\ place \in {"recount", "import"} => target'.locked
        /\ target' \in [schema : BOOLEAN, rows : SUBSET (Tables \X Nat), own : SUBSET [id : Nat, late : BOOLEAN],
                        seq : Nat, locked : BOOLEAN]
    BY <2>1 DEF MIInv, Received
  <2>6. Received' BY <1>0, <2>1, <2>2, <2>5, Zenon DEF MIInv, Received, Importing, TargetIsEmpty
  <2> QED BY <2>4, <2>6, Zenon
<1> QED BY <1>1, <1>2, Zenon

(* The import takes the next group of the export.                          *)
LEMMA ImportKeeps == ASSUME MIInv, Import PROVE Exported' /\ Received'
<1>1. PICK k \in 0..2 : mig.in = Copied(k, mig.reads) BY Zenon DEF Import, MAt, MIInv, Exported
<1> DEFINE v == mig.reads
<1>2. /\ v \in Nat /\ v <= last /\ mig.source = Copied(3, v) /\ last' = last /\ target' = target
      /\ target.locked /\ TargetIsEmpty
  BY Zenon DEF Import, MAt, MIInv, Exported, Received, KeepRest, KeepSqlite, MigrationPlaces, Importing
<1>3. mig' = [mig EXCEPT !.in = mig.in \cup {r \in mig.source : r[1] = Groups[Cardinality(mig.in) + 1]},
                         !.pc = IF Cardinality(mig.in) + 1 = Len(Groups) THEN "sequences" ELSE "import"]
  BY Zenon DEF Import
<1>4. mig' = [mig EXCEPT !.in = Copied(k + 1, v), !.pc = IF k + 1 = 3 THEN "sequences" ELSE "import"]
  <2>1. Cardinality(mig.in) = k /\ Len(Groups) = 3 BY <1>1, CopiedCounts, GroupFacts, Zenon
  <2>2. {r \in mig.source : r[1] = Groups[k + 1]} = {<<Groups[k + 1], v>>} BY <1>2, CopiedCounts, Zenon
  <2>3. mig.in \cup {<<Groups[k + 1], v>>} = Copied(k + 1, v) BY <1>1, CopiedCounts, Zenon
  <2> QED BY <1>3, <2>1, <2>2, <2>3, Zenon
<1>5. Copied(k + 1, v) \subseteq Tables \X Nat
  <2>1. k + 1 = 1 \/ k + 1 = 2 \/ k + 1 = 3 OBVIOUS
  <2> HIDE DEF v
  <2> QED BY <2>1, <1>2, CopiedFacts, GroupFacts
<1>6. k + 1 # 3 => k + 1 \in 0..2 OBVIOUS
<1> HIDE DEF v
<1>7. mig'.reads = v /\ mig'.source = Copied(3, v) /\ mig'.in = Copied(k + 1, v)
      /\ mig'.pc = (IF k + 1 = 3 THEN "sequences" ELSE "import")
      /\ mig' \in [pc : MigrationPlaces, reads : Nat, source : SUBSET (Tables \X Nat), in : SUBSET (Tables \X Nat)]
  BY <1>2, <1>4, <1>5 DEF MIInv, Exported, MigrationPlaces, Importing, v
<1>8. Exported' BY <1>2, <1>6, <1>7, Zenon DEF Exported, MigrationPlaces, Importing
<1>9. Received' BY <1>2, <1>7, Zenon DEF MIInv, Received, TargetIsEmpty, Importing
<1> QED BY <1>8, <1>9, Zenon

(* The sequence is set, the rows are compared with the export.             *)
LEMMA CheckKeeps == ASSUME MIInv, ResetSequences \/ Verify PROVE Exported' /\ Received'
<1>1. last' = last BY Zenon DEF ResetSequences, Verify, KeepRest, KeepSqlite
<1>2. /\ mig.pc \in {"sequences", "verify"} /\ mig.reads \in Nat /\ mig.in = Copied(3, mig.reads)
      /\ mig.source = Copied(3, mig.reads) /\ target.locked /\ TargetIsEmpty
  BY Zenon DEF ResetSequences, Verify, MAt, MIInv, Exported, Received, MigrationPlaces, Importing
<1>3. PICK place \in {"verify", "commit"} : mig' = [mig EXCEPT !.pc = place]
  BY Zenon DEF ResetSequences, Verify, MGoes
<1>4. /\ mig'.reads = mig.reads /\ mig'.in = mig.in /\ mig'.source = mig.source /\ mig'.pc = place
      /\ mig' \in [pc : MigrationPlaces, reads : Nat, source : SUBSET (Tables \X Nat), in : SUBSET (Tables \X Nat)]
  BY <1>3, Zenon DEF MIInv, Exported, MigrationPlaces, Importing
<1>5. Exported' BY <1>1, <1>2, <1>4, Zenon DEF MIInv, Exported, MigrationPlaces, Importing
<1>6. target' = [target EXCEPT !.seq = mig.reads]
  <2>1. CASE ResetSequences BY <2>1, <1>2, LastAuditOfCopied, Zenon DEF ResetSequences
  <2>2. CASE Verify BY <2>2, Zenon DEF Verify, MAt, MIInv, Received
  <2> QED BY <2>1, <2>2, Zenon
<1>7. /\ target'.rows = {} /\ target'.own = {} /\ target'.seq = mig.reads /\ target'.locked
      /\ target' \in [schema : BOOLEAN, rows : SUBSET (Tables \X Nat), own : SUBSET [id : Nat, late : BOOLEAN],
                      seq : Nat, locked : BOOLEAN]
  BY <1>2, <1>6, Zenon DEF MIInv, Received, TargetIsEmpty
<1>8. Received' BY <1>4, <1>7, Zenon DEF Received, TargetIsEmpty
<1> QED BY <1>5, <1>8, Zenon

(* The commit shows all groups of one contents to the target's server.     *)
LEMMA CommitKeeps == ASSUME MIInv, Commit PROVE Exported' /\ Received'
<1>1. /\ mig.reads \in Nat /\ mig.reads <= last /\ mig.in = Copied(3, mig.reads) /\ last' = last /\ last \in Nat
      /\ TargetIsEmpty /\ target.seq = mig.reads
  BY Zenon DEF Commit, MAt, MIInv, Exported, Received, Numbered, KeepRest, KeepSqlite, MigrationPlaces, Importing
<1>2. mig' = NoMigration /\ target' = [target EXCEPT !.rows = target.rows \cup mig.in, !.locked = FALSE]
  BY Zenon DEF Commit
<1>3. mig.in = Tables \X {mig.reads} BY <1>1, CopiedFacts, Zenon
<1>4. Exported' BY <1>1, <1>2 DEF Exported, NoMigration, MigrationPlaces, Importing
<1>5. mig.in \subseteq Tables \X Nat BY Zenon DEF MIInv, Exported
<1>6. /\ target'.rows = mig.in /\ target'.own = {} /\ target'.seq = mig.reads
      /\ target' \in [schema : BOOLEAN, rows : SUBSET (Tables \X Nat), own : SUBSET [id : Nat, late : BOOLEAN],
                      seq : Nat, locked : BOOLEAN]
  BY <1>1, <1>2, <1>5 DEF MIInv, Received, TargetIsEmpty
<1>7. mig'.pc = "off" BY <1>2, Zenon DEF NoMigration
<1>8. mig.reads \in 0..last' /\ mig.reads <= mig.reads BY <1>1
<1>9. Received' BY <1>3, <1>6, <1>7, <1>8, Zenon DEF Received, Importing
<1> QED BY <1>4, <1>9, Zenon

(* The target's server writes after the import, with ids of its own.       *)
LEMMA TargetWritesKeeps == ASSUME MIInv, TargetWrites PROVE Exported' /\ Received'
<1>1. /\ last' = last /\ mig' = mig /\ ~target.locked
      /\ target' = [target EXCEPT !.seq = target.seq + 1,
                                  !.own = target.own \cup {[id |-> target.seq + 1, late |-> target.rows # {}]}]
  BY Zenon DEF TargetWrites, KeepRest, KeepSqlite
<1>2. Exported' BY <1>1, Zenon DEF MIInv, Exported
<1> DEFINE w == [id |-> target.seq + 1, late |-> target.rows # {}]
<1>3. target.seq \in Nat /\ w \in [id : Nat, late : BOOLEAN] BY DEF MIInv, Received
<1>4. w.id = target.seq + 1 /\ w.late = (target.rows # {}) BY Zenon
<1> HIDE DEF w
<1>5. /\ target'.rows = target.rows /\ target'.own = target.own \cup {w} /\ target'.seq = target.seq + 1
      /\ target' \in [schema : BOOLEAN, rows : SUBSET (Tables \X Nat), own : SUBSET [id : Nat, late : BOOLEAN],
                      seq : Nat, locked : BOOLEAN]
  BY <1>1, <1>3 DEF MIInv, Received, w
<1>6. mig.pc \notin Importing \cup {"recount"} BY <1>1, Zenon DEF MIInv, Received
<1>7. ASSUME target'.rows # {}
      PROVE  \E v \in 0..last : /\ target'.rows = Tables \X {v} /\ v <= target'.seq
                                /\ \A r \in target'.own : r.late /\ r.id > v
  <2>1. PICK v \in 0..last : /\ target.rows = Tables \X {v} /\ v <= target.seq
                             /\ \A r \in target.own : r.late /\ r.id > v
    BY <1>5, <1>7, Zenon DEF MIInv, Received
  <2>2. v \in Nat BY DEF MIInv, Numbered
  <2>3. v <= target'.seq /\ w.id > v BY <2>1, <2>2, <1>3, <1>4, <1>5
  <2>4. w.late BY <1>4, <1>5, <1>7, Zenon
  <2> QED BY <2>1, <2>3, <2>4, <1>5, Zenon
<1>8. Received'
  <2>1. mig'.pc \notin {"verify", "commit"} /\ mig'.pc \notin Importing BY <1>1, <1>6, Zenon DEF Importing
  <2> QED BY <1>1, <1>5, <1>6, <1>7, <2>1, Zenon DEF Received
<1> QED BY <1>2, <1>8, Zenon

(* Every step keeps the invariant.                                         *)
LEMMA MNextMIInv == MIInv /\ [MNext]_allVars => MIInv'
<1> SUFFICES ASSUME MIInv, [MNext]_allVars PROVE MIInv'
  BY Zenon
<1>1. CASE [Next]_vars /\ UNCHANGED migVars BY <1>1, CommandsKeepMigration, Zenon
<1>2. CASE Migrates
  <2>1. KeepSqlite /\ (starts' = starts \/ starts' = starts + 1)
    BY <1>2, Zenon DEF Migrates, ExportBegins, Export, Preflight, OpenTarget, LockTables, Recount, Import, ResetSequences,
       Verify, Commit, MigrationFails, TargetWrites, KeepRest
  <2>2. IInv' /\ Numbered' BY <2>1, MigrationKeepsFiles, Zenon DEF MIInv
  <2>3. ASSUME MigrationFails PROVE Exported' /\ Received'
    BY <2>1, <2>3, FailsKeeps, Zenon DEF MigrationFails, KeepSqlite
  <2>4. Exported' /\ Received'
    BY <1>2, <2>3, ExportBeginsKeeps, ExportKeeps, PrepareKeeps, ImportKeeps, CheckKeeps, CommitKeeps,
       TargetWritesKeeps, Zenon DEF Migrates
  <2> QED BY <2>2, <2>4, Zenon DEF MIInv
<1> QED BY <1>1, <1>2, Zenon DEF MNext, allVars

(* Before any migration the target holds nothing.                          *)
LEMMA InitMIInv == MInit => MIInv
<1> SUFFICES ASSUME MInit PROVE MIInv
  BY Zenon
<1>1. IInv /\ Numbered BY InitIInv, InitNumbered, Zenon DEF MInit
<1>2. Exported
  <2>1. last \in Nat BY <1>1, Zenon DEF Numbered
  <2> QED BY <2>1 DEF MInit, NoMigration, Exported, MigrationPlaces, Importing
<1>3. Received
  <2>1. mig.pc = "off" BY Zenon DEF MInit, NoMigration
  <2>2. target.schema \in BOOLEAN /\ target.rows = {} /\ target.own = {} /\ target.seq = 0 /\ target.locked = FALSE
    BY DEF MInit
  <2>3. PICK b \in BOOLEAN : target = [schema |-> b, rows |-> {}, own |-> {}, seq |-> 0, locked |-> FALSE]
    BY DEF MInit
  <2>4. target \in [schema : BOOLEAN, rows : SUBSET (Tables \X Nat), own : SUBSET [id : Nat, late : BOOLEAN],
                    seq : Nat, locked : BOOLEAN]
    <3> DEFINE R == SUBSET (Tables \X Nat)
               O == SUBSET [id : Nat, late : BOOLEAN]
    <3>1. {} \in R /\ {} \in O BY Zenon
    <3> HIDE DEF R, O
    <3>2. target \in [schema : BOOLEAN, rows : R, own : O, seq : Nat, locked : BOOLEAN] BY <2>3, <3>1, Zenon
    <3> QED BY <3>2, Zenon DEF R, O
  <2> QED BY <2>1, <2>2, <2>4, Zenon DEF Received, Importing
<1> QED BY <1>1, <1>2, <1>3, Zenon DEF MIInv

(***************************************************************************)
(* What migration.rs brings to PostgreSQL is one state of the database in  *)
(* all tables, in a target that held nothing else, and the audit ids of    *)
(* the target go on above the imported ones; while SQLite is written,      *)
(* upgraded and restored, while the target's server writes, and however    *)
(* often a migration fails and is tried again.                             *)
(***************************************************************************)
THEOREM MigrationIsWhole == MSpec => []MigratedWhole
<1>1. MIInv => MigratedWhole BY Zenon DEF MIInv, Received, MigratedWhole
<1> QED BY InitMIInv, MNextMIInv, <1>1, PTL DEF MSpec

(* A migration beside the commands takes no copy away either.              *)
THEOREM NothingIsLostMigrating == MSpec => []NothingLost
<1>1. MIInv => NothingLost BY Zenon DEF MIInv, IInv, Whole, NothingLost
<1> QED BY InitMIInv, MNextMIInv, <1>1, PTL DEF MSpec

=============================================================================
