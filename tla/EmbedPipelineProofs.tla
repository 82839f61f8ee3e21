------------------------- MODULE EmbedPipelineProofs -------------------------
(***************************************************************************)
(* Proofs about EmbedPipeline for every number of memories, texts, vector  *)
(* spaces, processes and slots, and for every bound.                       *)
(***************************************************************************)
EXTENDS EmbedPipeline, TLAPS

(***************************************************************************)
(* Shapes.                                                                 *)
(***************************************************************************)
DbTyped ==
    /\ row \in [Ids -> Rows]
    /\ \A i \in Ids : row[i].status = "live" => row[i].content \in Contents
    /\ vec \in [Ids -> Vectors \cup {NoVector}]
    /\ profile \in Profiles \cup {NoProfile}

GuardsTyped ==
    /\ inflight \in [Procs -> SUBSET (Ids \X Nat)]
    /\ active \in [Procs -> SUBSET Claims]

(* The type invariant splits into store, batches, guards and processes.     *)
LEMMA TypeOKSplits ==
    TypeOK <=> /\ DbTyped /\ GuardsTyped
               /\ nextToken \in Nat \ {0}
               /\ batch \in [Batches -> BatchRecords]
               /\ proc \in [Procs -> ProcRecords]
               /\ detached \in SUBSET Calls
               /\ stops \in Nat /\ faults \in Nat
BY Zenon DEF TypeOK, DbTyped, GuardsTyped, ProcRecords

(* Orchestrators and store start in a state of the declared shape.         *)
LEMMA InitTypeOK == Init => TypeOK
<1> SUFFICES ASSUME Init PROVE TypeOK
  BY Zenon
<1>1. DbTyped
  BY Zenon DEF Init, DbTyped, Rows
<1>2. GuardsTyped
  BY Zenon DEF Init, GuardsTyped
<1>3. Idle \in BatchRecords
  BY Zenon DEF Idle, BatchRecords, Pcs
<1>4. Down \in ProcRecords
  BY Zenon DEF Down, ProcRecords, Stages
<1> QED BY <1>1, <1>2, <1>3, <1>4, TypeOKSplits DEF Init

(* Clearing a claim or a vector keeps the shape of a row.                  *)
LEMMA ClearedRow ==
    ASSUME NEW r \in Rows
    PROVE  /\ Unclaimed(r) \in Rows /\ Unembedded(r) \in Rows
           /\ Unclaimed(r).status = r.status /\ Unembedded(r).status = r.status
           /\ Unclaimed(r).content = r.content /\ Unembedded(r).content = r.content
           /\ Unclaimed(r).rev = r.rev /\ Unembedded(r).rev = r.rev
           /\ Unclaimed(r).has = r.has /\ ~Unembedded(r).has
<1>1. Unclaimed(r) \in Rows
  BY Zenon DEF Rows, Unclaimed
<1>2. Unembedded(r) \in Rows
  BY Zenon DEF Rows, Unembedded
<1> QED BY <1>1, <1>2, Zenon DEF Rows, Unclaimed, Unembedded

(***************************************************************************)
(* The store: each transaction keeps the store in shape, keeps the vectors *)
(* current, and keeps captured work faithful.                              *)
(***************************************************************************)
DbInv == DbTyped /\ VectorsCurrent

Keeps == \A w \in Work : Faithful(w) => Faithful(w)'

(***************************************************************************)
(* Batches: what they carry is faithful, and only a process that runs and  *)
(* has a provider holds embedded work.                                     *)
(***************************************************************************)
Sound(b, r) ==
    /\ \A w \in WorkOf(r) : Faithful(w)
    /\ r.pc = "idle" => r.ok = {} /\ r.undo = {}
    /\ r.pc # "idle" => Running(Host(b))
    /\ r.ok # {} => proc[Host(b)].profile # NoProfile

BatchesSound == batch \in [Batches -> BatchRecords] /\ \A b \in Batches : Sound(b, batch[b])

CallsSound ==
    \A d \in detached : d \in Calls /\ Faithful(d.work) /\ (d.set => d.profile \in Profiles)

Counted == stops \in Nat /\ faults \in Nat

IInv ==
    /\ DbInv /\ GuardsTyped /\ nextToken \in Nat \ {0} /\ BatchesSound
    /\ proc \in [Procs -> ProcRecords] /\ CallsSound /\ Counted

(* The record r carries no more than o did.                                *)
Follows(o, r) ==
    /\ r \in BatchRecords
    /\ WorkOf(r) \subseteq WorkOf(o)
    /\ r.ok \subseteq o.ok
    /\ r.pc = "idle" => r.ok = {} /\ r.undo = {}
    /\ r.pc # "idle" => o.pc # "idle"

(* Process p goes on under the provider it has, if it runs.                *)
HostKept(p) == Running(p) => Running(p)' /\ proc'[p].profile = proc[p].profile

(* What the fields of a batch are.                                         *)
LEMMA BatchFields ==
    ASSUME NEW o \in BatchRecords
    PROVE  /\ o.pc \in Pcs /\ o.by \in {"op", "task", "taken"} /\ o.token \in Nat
           /\ o.rest \in SUBSET Work /\ o.todo \in SUBSET Work /\ o.held \in SUBSET Work
           /\ o.ok \in SUBSET Work /\ o.undo \in SUBSET Work
BY Zenon DEF BatchRecords

(* The batch, its host and its process have their shapes.                  *)
LEMMA BatchAt ==
    ASSUME IInv, NEW b \in Batches
    PROVE  /\ batch[b] \in BatchRecords /\ Sound(b, batch[b]) /\ Host(b) \in Procs
           /\ proc[Host(b)] \in ProcRecords
BY Zenon DEF IInv, BatchesSound, Batches, Host

(* The record n of a batch that has just written or claimed W.             *)
Scheduled(o, n, W) ==
    /\ n \in BatchRecords /\ n.pc = "schedule" /\ n.ok = o.ok
    /\ WorkOf(n) \subseteq W \cup WorkOf(o)

(***************************************************************************)
(* Steps of one process.                                                   *)
(***************************************************************************)

(* Process p moves to these field values (flags aside), the others stay.   *)
Moves(p, stage, prof, snapshot, released) ==
    /\ proc' \in [Procs -> ProcRecords]
    /\ \A q \in Procs : q # p => proc'[q] = proc[q]
    /\ proc'[p].stage = stage /\ proc'[p].profile = prof
    /\ proc'[p].snapshot = snapshot /\ proc'[p].released = released

(* Process p moves to this stage and keeps its provider and its claims.    *)
Enters(p, stage) == Moves(p, stage, proc[p].profile, proc[p].snapshot, proc[p].released)

(* The fields of a changed record.                                         *)
LEMMA MovesTo ==
    ASSUME IInv, NEW p \in Procs, NEW n \in ProcRecords, SetProc(p, n)
    PROVE  Moves(p, n.stage, n.profile, n.snapshot, n.released)
BY Zenon DEF IInv, SetProc, Moves

(* What each step makes of the record of its process.                      *)
LEMMA ProcMoves ==
    ASSUME IInv, NEW p \in Procs
    PROVE  LET o == proc[p] IN
           /\ \A pr \in Profiles \cup {NoProfile} : Start(p, pr) => Moves(p, "serving", pr, {}, {})
           /\ BeginShutdown(p) => Enters(p, "waiting")
           /\ AdmissionsDrain(p) => Enters(p, "drained")
           /\ AdmissionsTimeOut(p) => Enters(p, "refusing")
           /\ RequestReset(p) => Enters(p, "overdue")
           /\ TakeTasks(p) => Enters(p, IF o.stage = "drained" THEN "joining" ELSE "overrun")
           /\ CleanupBegins(p) => Moves(p, IF o.stage = "joining" THEN "expiring" ELSE "dropping",
                                        o.profile, active[p], o.released)
           /\ \A c \in Claims, s \in BOOLEAN :
                 CleanupCall(p, c, s) => Moves(p, o.stage, o.profile, o.snapshot \ {c}, o.released \cup {c})
           /\ ShutdownReopens(p) => Enters(p, "ending")
           /\ ShutdownReturns(p) => Enters(p, "serving")
           /\ Exit(p) \/ Crash(p) => Moves(p, "down", NoProfile, {}, {})
           /\ \A b \in Batches : LastDropped(b) /\ Host(b) = p => Enters(p, o.stage)
<1> DEFINE o == proc[p]
           moved(s) == [o EXCEPT !.stage = s]
           shut(s) == [o EXCEPT !.stage = s, !.shutting = TRUE]
           shut2(s) == [o EXCEPT !.stage = s, !.closed = TRUE]
           shut3(s) == [o EXCEPT !.stage = s, !.reset = TRUE]
           open(s) == [o EXCEPT !.stage = s, !.shutting = FALSE, !.closed = FALSE]
           open2 == [o EXCEPT !.reset = FALSE, !.closed = FALSE, !.shutting = FALSE]
           snap(s) == [o EXCEPT !.stage = s, !.snapshot = active[p]]
           rel(c) == [o EXCEPT !.snapshot = o.snapshot \ {c}, !.released = o.released \cup {c}]
           begun(pr) == [Down EXCEPT !.stage = "serving", !.profile = pr]
           Same(n, s) == /\ n \in ProcRecords /\ n.stage = s /\ n.profile = o.profile
                         /\ n.snapshot = o.snapshot /\ n.released = o.released
<1>0. o \in ProcRecords /\ proc \in [Procs -> ProcRecords] /\ active[p] \in SUBSET Claims /\ o.stage \in Stages
  BY Zenon DEF IInv, GuardsTyped, ProcRecords
<1>1. \A s \in Stages : Same(moved(s), s) /\ Same(open(s), s)
  <2> HIDE DEF o
  <2> QED BY <1>0, Zenon DEF ProcRecords
<1>2. \A s \in Stages : Same(shut(s), s) /\ Same(shut2(s), s) /\ Same(shut3(s), s)
  <2> HIDE DEF o
  <2> QED BY <1>0, Zenon DEF ProcRecords
<1>3. Same(open2, o.stage)
  <2> HIDE DEF o
  <2> QED BY <1>0, Zenon DEF ProcRecords
<1>4. \A s \in Stages : /\ snap(s) \in ProcRecords /\ snap(s).stage = s /\ snap(s).profile = o.profile
                        /\ snap(s).snapshot = active[p] /\ snap(s).released = o.released
  <2> HIDE DEF o
  <2> QED BY <1>0, Zenon DEF ProcRecords
<1>5. \A c \in Claims : /\ rel(c) \in ProcRecords /\ rel(c).stage = o.stage /\ rel(c).profile = o.profile
                        /\ rel(c).snapshot = o.snapshot \ {c} /\ rel(c).released = o.released \cup {c}
  <2> HIDE DEF o
  <2> QED BY <1>0, Zenon DEF ProcRecords
<1>6. /\ Down \in ProcRecords /\ Down.stage = "down" /\ Down.profile = NoProfile
      /\ Down.snapshot = {} /\ Down.released = {}
  BY Zenon DEF Down, ProcRecords, Stages
<1>7. \A pr \in Profiles \cup {NoProfile} :
          /\ begun(pr) \in ProcRecords /\ begun(pr).stage = "serving" /\ begun(pr).profile = pr
          /\ begun(pr).snapshot = {} /\ begun(pr).released = {}
  BY Zenon DEF Down, ProcRecords, Stages
<1>8. \A n \in ProcRecords : SetProc(p, n) => Moves(p, n.stage, n.profile, n.snapshot, n.released)
  BY MovesTo, Zenon
<1>9. {"serving", "waiting", "drained", "refusing", "overdue", "joining", "overrun", "expiring", "dropping",
       "ending"} \subseteq Stages
  BY Zenon DEF Stages
<1>10. \A n, s : Same(n, s) /\ SetProc(p, n) => Enters(p, s)
  BY <1>8, Zenon DEF Enters
<1>11. ASSUME NEW pr \in Profiles \cup {NoProfile}, Start(p, pr) PROVE Moves(p, "serving", pr, {}, {})
  <2>1. SetProc(p, begun(pr))
    BY <1>11, Zenon DEF Start
  <2>2. /\ begun(pr) \in ProcRecords /\ begun(pr).stage = "serving" /\ begun(pr).profile = pr
        /\ begun(pr).snapshot = {} /\ begun(pr).released = {}
    BY <1>7, Zenon
  <2> HIDE DEF begun
  <2>3. Moves(p, begun(pr).stage, begun(pr).profile, begun(pr).snapshot, begun(pr).released)
    BY <1>8, <2>1, <2>2, Zenon
  <2> QED BY <2>2, <2>3
<1>12. /\ BeginShutdown(p) => SetProc(p, shut("waiting"))
       /\ AdmissionsDrain(p) => SetProc(p, moved("drained"))
       /\ AdmissionsTimeOut(p) => SetProc(p, shut2("refusing"))
       /\ RequestReset(p) => SetProc(p, shut3("overdue"))
       /\ ShutdownReopens(p) => SetProc(p, open("ending"))
       /\ ShutdownReturns(p) => SetProc(p, moved("serving"))
  BY Zenon DEF BeginShutdown, AdmissionsDrain, AdmissionsTimeOut, RequestReset, ShutdownReopens, ShutdownReturns, Goto
<1>13. /\ TakeTasks(p) => SetProc(p, moved(IF o.stage = "drained" THEN "joining" ELSE "overrun"))
       /\ CleanupBegins(p) => SetProc(p, snap(IF o.stage = "joining" THEN "expiring" ELSE "dropping"))
       /\ \A c \in Claims, s \in BOOLEAN : CleanupCall(p, c, s) => SetProc(p, rel(c))
       /\ Exit(p) \/ Crash(p) => SetProc(p, Down)
  BY Zenon DEF TakeTasks, Goto, CleanupBegins, CleanupCall, Exit, Crash
<1>14. ASSUME NEW b \in Batches, LastDropped(b), Host(b) = p PROVE SetProc(p, open2) \/ proc' = proc
  BY <1>14, Zenon DEF LastDropped
<1>15. proc' = proc => Enters(p, o.stage)
  BY <1>0, Zenon DEF Enters, Moves
<1>16. (IF o.stage = "drained" THEN "joining" ELSE "overrun") \in Stages
  BY <1>9, Zenon
<1>17. (IF o.stage = "joining" THEN "expiring" ELSE "dropping") \in Stages
  BY <1>9, Zenon
<1> HIDE DEF o, moved, shut, shut2, shut3, open, open2, snap, rel, begun
<1>18. /\ BeginShutdown(p) => Enters(p, "waiting")
       /\ AdmissionsDrain(p) => Enters(p, "drained")
       /\ AdmissionsTimeOut(p) => Enters(p, "refusing")
       /\ RequestReset(p) => Enters(p, "overdue")
       /\ ShutdownReopens(p) => Enters(p, "ending")
       /\ ShutdownReturns(p) => Enters(p, "serving")
  BY <1>1, <1>2, <1>9, <1>10, <1>12, Zenon
<1>19. TakeTasks(p) => Enters(p, IF o.stage = "drained" THEN "joining" ELSE "overrun")
  BY <1>1, <1>10, <1>13, <1>16, Zenon
<1>20. CleanupBegins(p) => Moves(p, IF o.stage = "joining" THEN "expiring" ELSE "dropping",
                                o.profile, active[p], o.released)
  BY <1>4, <1>8, <1>13, <1>17, Zenon
<1>21. \A c \in Claims, s \in BOOLEAN :
          CleanupCall(p, c, s) => Moves(p, o.stage, o.profile, o.snapshot \ {c}, o.released \cup {c})
  BY <1>5, <1>8, <1>13, Zenon
<1>22. Exit(p) \/ Crash(p) => Moves(p, "down", NoProfile, {}, {})
  BY <1>6, <1>8, <1>13, Zenon
<1>23. \A b \in Batches : LastDropped(b) /\ Host(b) = p => Enters(p, o.stage)
  BY <1>3, <1>10, <1>14, <1>15, Zenon
<1> QED BY <1>11, <1>18, <1>19, <1>20, <1>21, <1>22, <1>23, Zenon DEF o

(* A process that runs goes on under its provider.                          *)
Stays == proc' \in [Procs -> ProcRecords] /\ \A p \in Procs : HostKept(p)

(* A process that enters another stage stays.                               *)
LEMMA EntersStays ==
    ASSUME NEW p \in Procs, NEW stage, NEW snapshot, NEW released,
           Moves(p, stage, proc[p].profile, snapshot, released), stage # "down"
    PROVE  Stays
BY Zenon DEF Moves, Stays, HostKept, Running

(* The invariant holds of an empty store.                                  *)
LEMMA InitIInv == Init => IInv
<1> SUFFICES ASSUME Init PROVE IInv
  BY Zenon
<1>1. TypeOK
  BY InitTypeOK, Zenon
<1>2. VectorsCurrent
  BY Zenon DEF Init, VectorsCurrent
<1>3. Idle.pc = "idle" /\ Idle.ok = {} /\ Idle.undo = {} /\ WorkOf(Idle) = {}
  BY Zenon DEF Idle, WorkOf
<1>4. BatchesSound
  <2>1. \A b \in Batches : batch[b] = Idle
    BY Zenon DEF Init
  <2>2. batch \in [Batches -> BatchRecords]
    BY <1>1, Zenon DEF TypeOK
  <2> QED BY <1>3, <2>1, <2>2, Zenon DEF BatchesSound, Sound
<1>5. CallsSound
  BY Zenon DEF Init, CallsSound
<1> QED BY <1>1, <1>2, <1>4, <1>5, TypeOKSplits, Zenon DEF IInv, DbInv, Counted

(* Every step keeps the invariant.                                         *)
LEMMA StepIInv == IInv /\ [BulkNext]_vars => IInv'
(* What a change of one row must satisfy.                                  *)
<1>OneRow.
    ASSUME DbTyped, NEW i \in Ids, NEW n \in Rows, row' = [row EXCEPT ![i] = n],
           n.status = row[i].status, n.content = row[i].content, n.rev = row[i].rev
    PROVE  /\ row' \in [Ids -> Rows]
           /\ \A j \in Ids : row'[j].status = "live" => row'[j].content \in Contents
           /\ Keeps
  BY <1>OneRow DEF DbTyped, Keeps, Faithful, Work, Rows

(* A vector accepted by the revision and profile checks is current.        *)
<1>SetEmbeddingKeeps.
    ASSUME DbInv, NEW w \in Work, NEW pr \in Profiles, Writable(w, pr), Faithful(w), SetEmbedding(w, pr)
    PROVE  DbInv' /\ Keeps
  <2> USE <1>SetEmbeddingKeeps
  <2> DEFINE r == Unclaimed(row[w.id])
             n == [r EXCEPT !.has = TRUE]
  <2>0. w.id \in Ids /\ w.content \in Contents /\ row[w.id] \in Rows
    BY Zenon DEF Work, DbInv, DbTyped
  <2>1. r \in Rows /\ r.status = row[w.id].status /\ r.content = row[w.id].content /\ r.rev = row[w.id].rev
    BY <2>0, ClearedRow, Zenon
  <2> HIDE DEF r
  <2>2. n \in Rows /\ n.has /\ n.status = row[w.id].status /\ n.content = row[w.id].content /\ n.rev = row[w.id].rev
    BY <2>1, Zenon DEF Rows
  <2>3. row' = [row EXCEPT ![w.id] = n] /\ profile' = profile
    BY Zenon DEF SetEmbedding, r
  <2> HIDE DEF n
  <2>4. row' \in [Ids -> Rows] /\ (\A i \in Ids : row'[i].status = "live" => row'[i].content \in Contents) /\ Keeps
    BY <2>0, <2>2, <2>3, <1>OneRow, Zenon DEF DbInv
  <2>5. [content |-> w.content, profile |-> pr] \in Vectors
    BY <2>0, Zenon DEF Vectors
  <2>6. pr = profile /\ row[w.id].status = "live" /\ w.content = row[w.id].content
    BY <2>0, AbsencesAreDistinct, Zenon DEF Writable, Faithful
  <2>7. DbTyped'
    BY <2>3, <2>4, <2>5, Zenon DEF DbInv, DbTyped, SetEmbedding
  <2>8. VectorsCurrent'
    BY <2>0, <2>2, <2>3, <2>6, Zenon DEF DbInv, DbTyped, VectorsCurrent, SetEmbedding
  <2> QED BY <2>4, <2>7, <2>8, Zenon DEF DbInv

(* Releasing a claim touches neither content, revision nor vector.         *)
<1>ReleaseClaimKeeps.
    ASSUME DbInv, NEW i \in Ids, NEW rev, NEW t, ReleaseClaim(i, rev, t)
    PROVE  DbInv' /\ Keeps
  <2> USE <1>ReleaseClaimKeeps
  <2> DEFINE n == Unclaimed(row[i])
  <2>0. row[i] \in Rows
    BY Zenon DEF DbInv, DbTyped
  <2>1. /\ n \in Rows /\ n.status = row[i].status /\ n.content = row[i].content
        /\ n.rev = row[i].rev /\ n.has = row[i].has
    BY <2>0, ClearedRow, Zenon
  <2>2. row' = row \/ row' = [row EXCEPT ![i] = n]
    BY Zenon DEF ReleaseClaim
  <2> HIDE DEF n
  <2>3. CASE row' = row
    BY <2>3, Zenon DEF DbInv, DbTyped, VectorsCurrent, Keeps, Faithful, ReleaseClaim
  <2>4. CASE row' = [row EXCEPT ![i] = n]
    <3>1. row' \in [Ids -> Rows] /\ (\A j \in Ids : row'[j].status = "live" => row'[j].content \in Contents) /\ Keeps
      BY <2>1, <2>4, <1>OneRow, Zenon DEF DbInv
    <3>2. VectorsCurrent'
      BY <2>1, <2>4 DEF DbInv, DbTyped, VectorsCurrent, ReleaseClaim
    <3> QED BY <3>1, <3>2, Zenon DEF DbInv, DbTyped, ReleaseClaim
  <2> QED BY <2>2, <2>3, <2>4, Zenon

(* A lapsing lease changes nothing that work or vectors depend on.         *)
<1>LapseKeeps.
    ASSUME DbInv, NEW i \in Ids, LeaseLapses(i)
    PROVE  DbInv' /\ Keeps
  <2> USE <1>LapseKeeps
  <2> DEFINE n == [row[i] EXCEPT !.lapsed = TRUE]
  <2>0. row[i] \in Rows
    BY Zenon DEF DbInv, DbTyped
  <2>1. /\ n \in Rows /\ n.status = row[i].status /\ n.content = row[i].content
        /\ n.rev = row[i].rev /\ n.has = row[i].has
    BY <2>0, Zenon DEF Rows
  <2>2. row' = [row EXCEPT ![i] = n] /\ vec' = vec /\ profile' = profile
    BY Zenon DEF LeaseLapses
  <2> HIDE DEF n
  <2>3. row' \in [Ids -> Rows] /\ (\A j \in Ids : row'[j].status = "live" => row'[j].content \in Contents) /\ Keeps
    BY <2>1, <2>2, <1>OneRow, Zenon DEF DbInv
  <2>4. VectorsCurrent'
    BY <2>1, <2>2, Zenon DEF DbInv, DbTyped, VectorsCurrent
  <2> QED BY <2>2, <2>3, <2>4, Zenon DEF DbInv, DbTyped

(* A reindex drops every vector and keeps every revision.                  *)
<1>ReindexKeeps.
    ASSUME DbInv, NEW pr \in Profiles, Reindex(pr)
    PROVE  DbInv' /\ Keeps
  <2> USE <1>ReindexKeeps
  <2>1. \A i \in Ids : /\ Unembedded(row[i]) \in Rows /\ ~Unembedded(row[i]).has
                       /\ Unembedded(row[i]).status = row[i].status
                       /\ Unembedded(row[i]).content = row[i].content
                       /\ Unembedded(row[i]).rev = row[i].rev
    BY ClearedRow, Zenon DEF DbInv, DbTyped
  <2>2. \A i \in Ids : row'[i] = Unembedded(row[i])
    BY Zenon DEF Reindex
  <2>3. row' \in [Ids -> Rows]
    BY <2>1, Zenon DEF Reindex
  <2>4. DbTyped'
    BY <2>1, <2>2, <2>3, Zenon DEF DbInv, DbTyped, Reindex
  <2>5. VectorsCurrent'
    BY <2>1, <2>2, Zenon DEF VectorsCurrent, Reindex
  <2>6. Keeps
    BY <2>1, <2>2 DEF Keeps, Faithful, Work
  <2> QED BY <2>4, <2>5, <2>6, Zenon DEF DbInv

(* Startup stamps a vector space only into a store without vectors.        *)
<1>StartKeeps.
    ASSUME DbInv, NEW p \in Procs, NEW pr \in Profiles \cup {NoProfile}, Start(p, pr)
    PROVE  DbInv' /\ Keeps
  <2> USE <1>StartKeeps
  <2>1. row' = row /\ vec' = vec /\ profile' \in Profiles \cup {NoProfile}
    BY Zenon DEF Start, DbInv, DbTyped
  <2>2. profile' = profile \/ \A i \in Ids : vec[i] = NoVector
    BY Zenon DEF Start
  <2>3. ASSUME NEW i \in Ids, row[i].has PROVE vec[i] # NoVector
    <3>1. row[i].content \in Contents /\ profile \in Profiles \cup {NoProfile}
      BY <2>3, Zenon DEF DbInv, DbTyped, VectorsCurrent
    <3>2. vec[i] = [content |-> row[i].content, profile |-> profile]
      BY <2>3, Zenon DEF DbInv, VectorsCurrent
    <3> QED BY <3>1, <3>2, AbsencesAreDistinct
  <2>4. VectorsCurrent'
    BY <2>1, <2>2, <2>3, Zenon DEF DbInv, VectorsCurrent
  <2> QED BY <2>1, <2>4, Zenon DEF DbInv, DbTyped, Keeps, Faithful

(* New rows have no vectors and no older work.                             *)
<1>StoreKeeps.
    ASSUME DbInv, NEW b \in Batches, NEW S \in SUBSET Ids, NEW f \in [S -> Contents], Store(b, S, f)
    PROVE  /\ DbInv' /\ Keeps
           /\ \A w \in NewWork(S, f, [i \in S |-> 0]) : w \in Work /\ Faithful(w)'
  <2> USE <1>StoreKeeps
  <2> DEFINE n(i) == [row[i] EXCEPT !.status = "live", !.content = f[i]]
  <2>1. \A i \in Ids : row[i] \in Rows
    BY Zenon DEF DbInv, DbTyped
  <2>2. \A i \in S : n(i) \in Rows /\ n(i).status = "live" /\ n(i).content = f[i]
                     /\ n(i).rev = row[i].rev /\ n(i).has = row[i].has /\ row[i].status = "unborn"
    BY <2>1, ZenonT(30) DEF Store, Rows
  <2>3. /\ row' = [i \in Ids |-> IF i \in S THEN n(i) ELSE row[i]]
        /\ vec' = vec /\ profile' = profile
    BY Zenon DEF Store
  <2> HIDE DEF n
  <2>4. row' \in [Ids -> Rows] /\ \A i \in Ids : row'[i].status = "live" => row'[i].content \in Contents
    BY <2>1, <2>2, <2>3, Zenon DEF DbInv, DbTyped
  <2>5. VectorsCurrent'
    BY <2>1, <2>2, <2>3, Zenon DEF DbInv, VectorsCurrent
  <2>6. Keeps
    BY <2>1, <2>2, <2>3, Zenon DEF Keeps, Faithful, Work
  <2>7. \A w \in NewWork(S, f, [i \in S |-> 0]) : w \in Work /\ Faithful(w)'
    <3> SUFFICES ASSUME NEW i \in S
                 PROVE  LET w == [id |-> i, content |-> f[i], rev |-> 0] IN w \in Work /\ Faithful(w)'
      BY Zenon DEF NewWork
    <3>1. row'[i] \in Rows /\ row'[i].rev \in Nat
      BY <2>4, Zenon DEF Rows
    <3> QED BY <2>2, <2>3, <3>1 DEF Work, Faithful
  <2> QED BY <2>3, <2>4, <2>5, <2>6, <2>7, Zenon DEF DbInv, DbTyped

(* An update drops the vector with the content and leaves every captured   *)
(* work behind a revision.                                                 *)
<1>UpdateKeeps.
    ASSUME DbInv, NEW b \in Batches, NEW i \in Ids, NEW c \in Contents, Update(b, i, c)
    PROVE  /\ DbInv' /\ Keeps
           /\ \A w \in {[id |-> i, content |-> c, rev |-> row[i].rev + 1]} : w \in Work /\ Faithful(w)'
  <2> USE <1>UpdateKeeps
  <2> DEFINE r == Unembedded(row[i])
             k == row[i].rev + 1
             n == [r EXCEPT !.content = c, !.rev = k]
  <2>0. row[i] \in Rows /\ row[i].rev \in Nat /\ k \in Nat /\ row[i].status = "live"
    BY DEF DbInv, DbTyped, Rows, Update
  <2>1. r \in Rows /\ ~r.has /\ r.status = "live"
    BY <2>0, ClearedRow, Zenon
  <2> HIDE DEF r, k
  <2>2. n \in Rows /\ ~n.has /\ n.status = "live" /\ n.content = c /\ n.rev = k
    <3>1. k \in Nat
      BY <2>0, Zenon
    <3>2. n \in Rows /\ n.content = c /\ n.rev = k /\ n.has = r.has /\ n.status = r.status
      BY <2>1, <3>1, Zenon DEF Rows
    <3> QED BY <2>1, <3>2, Zenon
  <2>3. row' = [row EXCEPT ![i] = n] /\ vec' = [vec EXCEPT ![i] = NoVector] /\ profile' = profile
    BY Zenon DEF Update, r, k
  <2> HIDE DEF n
  <2>4. DbTyped'
    BY <2>2, <2>3, Zenon DEF DbInv, DbTyped
  <2>5. VectorsCurrent'
    BY <2>2, <2>3, Zenon DEF DbInv, DbTyped, VectorsCurrent
  <2>6. Keeps
    <3> SUFFICES ASSUME NEW w \in Work, Faithful(w) PROVE Faithful(w)'
      BY Zenon DEF Keeps
    <3>0. w.id \in Ids /\ w.rev \in Nat
      BY Zenon DEF Work
    <3>1. CASE w.id = i
      BY <2>0, <2>2, <2>3, <3>0, <3>1 DEF Faithful, DbInv, DbTyped, k
    <3>2. CASE w.id # i
      BY <2>3, <3>0, <3>2, Zenon DEF Faithful, DbInv, DbTyped
    <3> QED BY <3>1, <3>2, Zenon
  <2>7. [id |-> i, content |-> c, rev |-> row[i].rev + 1] \in Work
    BY <2>0, Zenon DEF Work, k
  <2>8. row'[i] = n
    BY <2>3, Zenon DEF DbInv, DbTyped
  <2>9. ASSUME NEW w, w = [id |-> i, content |-> c, rev |-> row[i].rev + 1] PROVE Faithful(w)'
    BY <2>0, <2>2, <2>8, <2>9 DEF Faithful, k
  <2> QED BY <2>4, <2>5, <2>6, <2>7, <2>9, Zenon DEF DbInv

(* Deletion takes the vector with the row.                                 *)
<1>DeleteKeeps.
    ASSUME DbInv, NEW S \in SUBSET Ids, Delete(S)
    PROVE  DbInv' /\ Keeps
  <2> USE <1>DeleteKeeps
  <2> DEFINE r(i) == Unembedded(row[i])
             n(i) == [r(i) EXCEPT !.status = "gone", !.content = Absent]
  <2>1. \A i \in Ids : row[i] \in Rows
    BY Zenon DEF DbInv, DbTyped
  <2>2. \A i \in Ids : r(i) \in Rows /\ ~r(i).has /\ r(i).rev = row[i].rev
    BY <2>1, ClearedRow, Zenon
  <2> HIDE DEF r
  <2>3. \A i \in Ids : n(i) \in Rows /\ ~n(i).has /\ n(i).status = "gone" /\ n(i).rev = row[i].rev
    BY <2>2, Zenon DEF Rows
  <2>4. /\ row' = [i \in Ids |-> IF i \in S THEN n(i) ELSE row[i]]
        /\ vec' = [i \in Ids |-> IF i \in S THEN NoVector ELSE vec[i]]
        /\ profile' = profile
        /\ \A i \in S : row[i].status = "live"
    BY Zenon DEF Delete, r
  <2> HIDE DEF n
  <2>5. DbTyped'
    BY <2>1, <2>3, <2>4, Zenon DEF DbInv, DbTyped
  <2>6. VectorsCurrent'
    BY <2>3, <2>4, Zenon DEF DbInv, DbTyped, VectorsCurrent
  <2>7. Keeps
    BY <2>1, <2>3, <2>4, Zenon DEF Keeps, Faithful, Work
  <2> QED BY <2>5, <2>6, <2>7, Zenon DEF DbInv

(* A claim captures content and revision in the transaction that marks it. *)
<1>ClaimKeeps.
    ASSUME DbInv, nextToken \in Nat, NEW b \in Batches, NEW S \in SUBSET Ids, Claim(b, S)
    PROVE  /\ DbInv' /\ Keeps
           /\ \A w \in NewWork(S, [i \in S |-> row[i].content], [i \in S |-> row[i].rev]) :
                 w \in Work /\ Faithful(w)'
  <2> USE <1>ClaimKeeps
  <2> DEFINE n(i) == [row[i] EXCEPT !.token = nextToken, !.lapsed = FALSE]
  <2>1. \A i \in Ids : row[i] \in Rows
    BY Zenon DEF DbInv, DbTyped
  <2>2. \A i \in Ids : n(i) \in Rows /\ n(i).status = row[i].status /\ n(i).content = row[i].content
                       /\ n(i).rev = row[i].rev /\ n(i).has = row[i].has
    BY <2>1, Zenon DEF Rows
  <2>3. /\ row' = [i \in Ids |-> IF i \in S THEN n(i) ELSE row[i]]
        /\ vec' = vec /\ profile' = profile
        /\ \A i \in S : row[i].status = "live"
    BY Zenon DEF Claim, Claimable
  <2> HIDE DEF n
  <2>4. DbTyped'
    BY <2>1, <2>2, <2>3, Zenon DEF DbInv, DbTyped
  <2>5. VectorsCurrent'
    BY <2>1, <2>2, <2>3 DEF DbInv, VectorsCurrent
  <2>6. Keeps
    BY <2>1, <2>2, <2>3, Zenon DEF Keeps, Faithful, Work
  <2>7. ASSUME NEW i \in S, NEW w, w = [id |-> i, content |-> row[i].content, rev |-> row[i].rev]
        PROVE  w \in Work /\ Faithful(w)'
    <3>1. row[i].rev \in Nat /\ row[i].content \in Contents
      BY <2>1, <2>3, Zenon DEF Rows, DbInv, DbTyped
    <3>2. row'[i].rev = row[i].rev /\ row'[i].content = row[i].content /\ row'[i].status = "live"
      BY <2>2, <2>3, Zenon
    <3> QED BY <2>7, <3>1, <3>2 DEF Work, Faithful
  <2>8. ASSUME NEW w \in NewWork(S, [i \in S |-> row[i].content], [i \in S |-> row[i].rev])
        PROVE  w \in Work /\ Faithful(w)'
    <3>1. PICK i \in S : w = [id |-> i, content |-> row[i].content, rev |-> row[i].rev]
      BY Zenon DEF NewWork
    <3> QED BY <2>7, <3>1, Zenon
  <2> QED BY <2>4, <2>5, <2>6, <2>8, Zenon DEF DbInv

(* The work of a batch is work.                                            *)
<1>WorkTyped. \A r \in BatchRecords : WorkOf(r) \subseteq Work
  BY Zenon DEF BatchRecords, WorkOf

(* Batches that carry no more than before stay sound.                      *)
<1>BatchesFollow.
    ASSUME BatchesSound, Keeps, batch' \in [Batches -> BatchRecords],
           \A b \in Batches : /\ Follows(batch[b], batch'[b])
                              /\ batch'[b].pc = "idle" \/ HostKept(Host(b))
    PROVE  BatchesSound'
  <2> USE <1>BatchesFollow
  <2> SUFFICES ASSUME NEW b \in Batches PROVE Sound(b, batch[b])'
    BY Zenon DEF BatchesSound
  <2>1. Sound(b, batch[b]) /\ Follows(batch[b], batch'[b]) /\ batch[b] \in BatchRecords
    BY Zenon DEF BatchesSound
  <2>2. \A w \in WorkOf(batch'[b]) : Faithful(w)'
    BY <2>1, <1>WorkTyped, Zenon DEF Sound, Follows, Keeps
  <2>3. (WorkOf(batch[b]))' = WorkOf(batch'[b])
    BY Zenon DEF WorkOf
  <2> QED BY <2>1, <2>2, <2>3, Zenon DEF Sound, Follows, HostKept, Running

(* One batch moves on and carries no more than before.                     *)
<1>BatchFollows.
    ASSUME BatchesSound, Keeps, NEW b \in Batches, NEW r, Become(b, r), Follows(batch[b], r),
           \A c \in Batches : HostKept(Host(c))
    PROVE  BatchesSound'
  <2> USE <1>BatchFollows
  <2>1. batch' \in [Batches -> BatchRecords]
    BY Zenon DEF BatchesSound, Become, Follows
  <2>2. \A c \in Batches : Follows(batch[c], batch'[c])
    BY Zenon DEF BatchesSound, Become, Follows, Sound
  <2> QED BY <2>1, <2>2, <1>BatchesFollow, Zenon

(* One batch takes new work.                                               *)
<1>BatchBecomes.
    ASSUME BatchesSound, Keeps, NEW b \in Batches, NEW r \in BatchRecords, Become(b, r),
           r.pc # "idle", Running(Host(b)), \A w \in WorkOf(r) : Faithful(w)',
           r.ok # {} => proc[Host(b)].profile # NoProfile, proc' = proc
    PROVE  BatchesSound'
  <2> USE <1>BatchBecomes
  <2>1. batch' \in [Batches -> BatchRecords] /\ batch'[b] = r
    BY Zenon DEF BatchesSound, Become
  <2> SUFFICES ASSUME NEW c \in Batches PROVE Sound(c, batch[c])'
    BY <2>1, Zenon DEF BatchesSound
  <2>2. (WorkOf(batch[c]))' = WorkOf(batch'[c])
    BY Zenon DEF WorkOf
  <2>3. CASE c = b
    BY <2>1, <2>2, <2>3, Zenon DEF Sound, Running
  <2>4. CASE c # b
    <3>1. batch'[c] = batch[c] /\ Sound(c, batch[c]) /\ batch[c] \in BatchRecords
      BY <2>4, Zenon DEF BatchesSound, Become
    <3>2. \A w \in WorkOf(batch[c]) : Faithful(w)'
      BY <3>1, <1>WorkTyped, Zenon DEF Sound, Keeps
    <3> QED BY <2>2, <3>1, <3>2, Zenon DEF Sound, Running
  <2> QED BY <2>3, <2>4, Zenon

(***************************************************************************)
(* Frames.                                                                 *)
(***************************************************************************)

(* A step that leaves the store alone leaves work faithful.                *)
<1>StoreAlone. ASSUME DbInv, UNCHANGED db PROVE DbInv' /\ Keeps
  BY <1>StoreAlone, Zenon DEF db, DbInv, DbTyped, VectorsCurrent, Keeps, Faithful

(* Detached calls stay sound while work stays faithful.                    *)
<1>CallsKept.
    ASSUME CallsSound, Keeps, detached' \subseteq detached PROVE CallsSound'
  <2> USE <1>CallsKept
  <2> SUFFICES ASSUME NEW d \in detached' PROVE d \in Calls /\ Faithful(d.work)' /\ (d.set => d.profile \in Profiles)
    BY Zenon DEF CallsSound
  <2>1. d \in Calls /\ Faithful(d.work) /\ (d.set => d.profile \in Profiles)
    BY Zenon DEF CallsSound
  <2>2. d.work \in Work
    BY <2>1, Zenon DEF Calls
  <2> QED BY <2>1, <2>2, Zenon DEF Keeps

(* Guards of one process change to guards.                                 *)
<1>GuardsKept.
    ASSUME GuardsTyped, NEW p \in Procs, NEW t \in Nat, NEW w \in Work, NEW W,
           Track(p, w, t) \/ DropGuards(p, W, t) \/ UNCHANGED guards
    PROVE  GuardsTyped'
  <2> USE <1>GuardsKept
  <2>1. CASE UNCHANGED guards
    BY <2>1, Zenon DEF GuardsTyped, guards
  <2>2. CASE Track(p, w, t)
    <3>1. Key(w) \in Ids \X Nat /\ ActiveClaim(w, t) \in Claims
      BY Zenon DEF Work, Key, ActiveClaim, Claims
    <3> QED BY <2>2, <3>1, Zenon DEF Track, GuardsTyped
  <2>3. CASE DropGuards(p, W, t)
    BY <2>3, Zenon DEF DropGuards, GuardsTyped
  <2> QED BY <2>1, <2>2, <2>3, Zenon

(* A step of one batch that leaves store, processes and counters alone and *)
(* carries no more than before.                                            *)
<1>QuietStep.
    ASSUME IInv, NEW b \in Batches, NEW r, Become(b, r), Follows(batch[b], r), GuardsTyped',
           UNCHANGED <<db, nextToken, proc, detached, faults, stops>>
    PROVE  IInv'
  <2> USE <1>QuietStep
  <2>1. DbInv' /\ Keeps
    BY <1>StoreAlone, Zenon DEF IInv
  <2>2. BatchesSound'
    BY <2>1, <1>BatchFollows, Zenon DEF IInv, HostKept, Running
  <2>3. CallsSound'
    BY <2>1, <1>CallsKept, Zenon DEF IInv
  <2> QED BY <2>1, <2>2, <2>3, Zenon DEF IInv, Counted

(***************************************************************************)
(* Steps of one batch on its own: scheduling, and the end of a batch.      *)
(***************************************************************************)

(* Records reached by these steps carry no more than the record before.    *)
<1>FollowingRecords.
    ASSUME NEW o \in BatchRecords, o.pc # "idle", NEW w \in o.todo
    PROVE  /\ Follows(o, [o EXCEPT !.todo = o.todo \ {w}, !.undo = {}])
           /\ Follows(o, [o EXCEPT !.todo = o.todo \ {w}, !.undo = {w}])
           /\ Follows(o, [o EXCEPT !.todo = o.todo \ {w}, !.held = o.held \cup {w}])
           /\ Follows(o, [o EXCEPT !.undo = {w}])
  <2> USE <1>FollowingRecords
  <2>2. Follows(o, [o EXCEPT !.todo = o.todo \ {w}, !.undo = {}])
    BY Zenon DEF Follows, BatchRecords, WorkOf
  <2>3. Follows(o, [o EXCEPT !.todo = o.todo \ {w}, !.undo = {w}])
    BY Zenon DEF Follows, BatchRecords, WorkOf
  <2>4. Follows(o, [o EXCEPT !.todo = o.todo \ {w}, !.held = o.held \cup {w}])
    BY Zenon DEF Follows, BatchRecords, WorkOf
  <2>5. Follows(o, [o EXCEPT !.undo = {w}])
    BY Zenon DEF Follows, BatchRecords, WorkOf
  <2> QED BY <2>2, <2>3, <2>4, <2>5, Zenon

(* The same of records that end a chunk or a batch.                        *)
<1>EndingRecords.
    ASSUME NEW o \in BatchRecords, o.pc # "idle", NEW pc \in Pcs \ {"idle"}
    PROVE  /\ Follows(o, [o EXCEPT !.pc = pc])
           /\ Follows(o, [o EXCEPT !.pc = pc, !.todo = o.held, !.held = {}])
           /\ Follows(o, [o EXCEPT !.pc = pc, !.held = {}])
           /\ Follows(o, [o EXCEPT !.pc = pc, !.ok = {}])
           /\ Follows(o, [o EXCEPT !.undo = {}])
  <2> USE <1>EndingRecords
  <2>1. Follows(o, [o EXCEPT !.pc = pc])
    BY Zenon DEF Follows, BatchRecords, WorkOf
  <2>2. Follows(o, [o EXCEPT !.pc = pc, !.todo = o.held, !.held = {}])
    BY Zenon DEF Follows, BatchRecords, WorkOf
  <2>3. Follows(o, [o EXCEPT !.pc = pc, !.held = {}])
    BY Zenon DEF Follows, BatchRecords, WorkOf
  <2>4. Follows(o, [o EXCEPT !.pc = pc, !.ok = {}])
    BY Zenon DEF Follows, BatchRecords, WorkOf
  <2>5. Follows(o, [o EXCEPT !.undo = {}])
    BY Zenon DEF Follows, BatchRecords, WorkOf
  <2> QED BY <2>1, <2>2, <2>3, <2>4, <2>5, Zenon

(* The same of a record whose item w is finished.                          *)
<1>FinishedRecord.
    ASSUME NEW o \in BatchRecords, o.pc # "idle", NEW w
    PROVE  Follows(o, [o EXCEPT !.todo = o.todo \ {w}, !.held = o.held \ {w}, !.undo = {}])
  BY <1>FinishedRecord, Zenon DEF Follows, BatchRecords, WorkOf

(* A batch that ends carries nothing; one that is taken, what it carried.  *)
<1>PlainRecords.
    ASSUME NEW o \in BatchRecords, o.pc = "idle" => o.ok = {} /\ o.undo = {}
    PROVE  Follows(o, Idle) /\ Follows(o, o) /\ Follows(o, [o EXCEPT !.by = "taken"])
  <2> USE <1>PlainRecords
  <2>1. Follows(o, Idle)
    BY Zenon DEF Follows, BatchRecords, WorkOf, Idle, Pcs
  <2>2. Follows(o, o)
    BY Zenon DEF Follows
  <2>3. Follows(o, [o EXCEPT !.by = "taken"])
    BY Zenon DEF Follows, BatchRecords, WorkOf
  <2> QED BY <2>1, <2>2, <2>3, Zenon

(* Cutting the next chunk.                                                 *)
<1>TakeChunkStep.
    ASSUME IInv, NEW b \in Batches, NEW S \in SUBSET batch[b].rest, TakeChunk(b, S)
    PROVE  IInv'
  <2> USE <1>TakeChunkStep
  <2> DEFINE o == batch[b]
             n == [o EXCEPT !.pc = "prepare", !.todo = S, !.rest = o.rest \ S]
  <2>1. o \in BatchRecords /\ o.pc # "idle"
    BY BatchAt, Zenon DEF TakeChunk
  <2>2. Become(b, n) /\ UNCHANGED <<db, nextToken, guards, proc, detached, faults, stops>>
    BY Zenon DEF TakeChunk
  <2>3. Follows(o, n)
    <3> HIDE DEF o
    <3>1. S \in SUBSET o.rest
      BY Zenon DEF o
    <3> QED BY <2>1, <3>1, ZenonT(30) DEF Follows, BatchRecords, WorkOf, Pcs
  <2>4. GuardsTyped'
    BY <2>2, Zenon DEF IInv, GuardsTyped, guards
  <2> HIDE DEF n
  <2> QED BY <2>2, <2>3, <2>4, <1>QuietStep, Zenon

(* Preparing one item: duplicate, claimed duplicate, or tracked.           *)
<1>PrepareStep.
    ASSUME IInv, NEW b \in Batches, NEW w \in batch[b].todo, Prepare(b, w)
    PROVE  IInv'
  <2> USE <1>PrepareStep
  <2> DEFINE o == batch[b]
             u == [o EXCEPT !.todo = o.todo \ {w}, !.undo = {}]
             v == [o EXCEPT !.todo = o.todo \ {w}, !.undo = {w}]
             h == [o EXCEPT !.todo = o.todo \ {w}, !.held = o.held \cup {w}]
  <2>1. o \in BatchRecords /\ o.pc # "idle" /\ o.token \in Nat /\ w \in Work /\ Host(b) \in Procs
    BY BatchAt, BatchFields, Zenon DEF Prepare
  <2>2. Follows(o, u) /\ Follows(o, v) /\ Follows(o, h)
    BY <2>1, <1>FollowingRecords, Zenon
  <2>3. UNCHANGED <<db, nextToken, proc, detached, faults, stops>>
    BY Zenon DEF Prepare
  <2>4. \/ Become(b, u) /\ UNCHANGED guards
        \/ Become(b, v) /\ UNCHANGED guards
        \/ Become(b, h) /\ Track(Host(b), w, o.token)
    BY Zenon DEF Prepare
  <2> HIDE DEF u, v, h
  <2>5. GuardsTyped'
    BY <2>1, <2>4, <1>GuardsKept, Zenon DEF IInv
  <2> QED BY <2>2, <2>3, <2>4, <2>5, <1>QuietStep, Zenon

(* Nothing to spawn, run inline, end of a batch.                           *)
<1>EndingStep.
    ASSUME IInv, NEW b \in Batches, NothingToSpawn(b) \/ RunInline(b) \/ BatchEnds(b)
    PROVE  IInv'
  <2> USE <1>EndingStep
  <2> DEFINE o == batch[b]
             s == [o EXCEPT !.pc = "schedule"]
             e == [o EXCEPT !.pc = "embed"]
             k == [o EXCEPT !.pc = "schedule", !.ok = {}]
  <2>1. o \in BatchRecords /\ o.pc # "idle"
    BY BatchAt, Zenon DEF NothingToSpawn, RunInline, BatchEnds, Prepared
  <2>2. Follows(o, s) /\ Follows(o, e) /\ Follows(o, k) /\ Follows(o, Idle)
    BY <2>1, <1>EndingRecords, <1>PlainRecords, Zenon DEF Pcs
  <2>3. UNCHANGED <<db, nextToken, guards, proc, detached, faults, stops>>
    BY Zenon DEF NothingToSpawn, RunInline, BatchEnds
  <2>4. Become(b, s) \/ Become(b, e) \/ Become(b, k) \/ Become(b, Idle)
    BY Zenon DEF NothingToSpawn, RunInline, BatchEnds
  <2> HIDE DEF s, e, k
  <2>5. GuardsTyped'
    BY <2>3, Zenon DEF IInv, GuardsTyped, guards
  <2> QED BY <2>2, <2>3, <2>4, <2>5, <1>QuietStep, Zenon

(* A refused task gives up its guards; a rejected claim is to be released. *)
<1>RefusalStep.
    ASSUME IInv, NEW b \in Batches,
           SpawnRefused(b) \/ \E w \in batch[b].todo : ReleaseRejected(b, w)
    PROVE  IInv'
  <2> USE <1>RefusalStep
  <2> DEFINE o == batch[b]
             q == [o EXCEPT !.pc = "reprepare", !.todo = o.held, !.held = {}]
             j == [o EXCEPT !.pc = "reject", !.todo = o.held, !.held = {}]
  <2>1. o \in BatchRecords /\ o.pc # "idle" /\ o.token \in Nat /\ o.held \in SUBSET Work /\ Host(b) \in Procs
    BY BatchAt, BatchFields, Zenon DEF SpawnRefused, ReleaseRejected, Prepared
  <2>2. CASE SpawnRefused(b)
    <3>1. Follows(o, q) /\ Follows(o, j)
      BY <2>1, <1>EndingRecords, Zenon DEF Pcs
    <3>2. /\ UNCHANGED <<db, nextToken, proc, detached, faults, stops>>
          /\ Become(b, q) \/ Become(b, j)
          /\ DropGuards(Host(b), o.held, o.token)
          /\ o.held # {}
      BY <2>2, ZenonT(30) DEF SpawnRefused
    <3> HIDE DEF q, j
    <3>3. GuardsTyped'
      BY <2>1, <3>2, <1>GuardsKept, Zenon DEF IInv
    <3> QED BY <3>1, <3>2, <3>3, <1>QuietStep, Zenon
  <2>3. ASSUME NEW w \in o.todo, ReleaseRejected(b, w) PROVE IInv'
    <3> DEFINE v == [o EXCEPT !.todo = o.todo \ {w}, !.undo = {w}]
    <3>1. Follows(o, v)
      BY <2>1, <1>FollowingRecords, Zenon
    <3>2. Become(b, v) /\ UNCHANGED <<db, nextToken, guards, proc, detached, faults, stops>>
      BY <2>3, Zenon DEF ReleaseRejected
    <3> HIDE DEF v
    <3>3. GuardsTyped'
      BY <3>2, Zenon DEF IInv, GuardsTyped, guards
    <3> QED BY <3>1, <3>2, <3>3, <1>QuietStep, Zenon
  <2> QED BY <2>2, <2>3, Zenon

(* Finishing an item, giving it up, or seeing its claim released carries   *)
(* no more than before.                                                    *)
<1>FinishFollows.
    ASSUME IInv, NEW b \in Batches, batch[b].pc # "idle", NEW w \in Work,
           Finish(b, w) \/ Released(b, w) \/ (w \in batch[b].todo /\ GiveUp(b, w))
    PROVE  GuardsTyped' /\ \E r : Become(b, r) /\ Follows(batch[b], r)
  <2> USE <1>FinishFollows
  <2> DEFINE o == batch[b]
             d == [o EXCEPT !.todo = o.todo \ {w}, !.held = o.held \ {w}, !.undo = {}]
             u == [o EXCEPT !.undo = {w}]
             x == [o EXCEPT !.undo = {}]
  <2>1. o \in BatchRecords /\ o.token \in Nat /\ Host(b) \in Procs
    BY BatchAt, BatchFields, Zenon
  <2>2. Follows(o, d) /\ (w \in o.todo => Follows(o, u)) /\ Follows(o, x)
    <3>1. Follows(o, d)
      BY <2>1, <1>FinishedRecord, ZenonT(30)
    <3>2. ASSUME w \in o.todo PROVE Follows(o, u)
      BY <2>1, <3>2, <1>FollowingRecords, ZenonT(30)
    <3>3. Follows(o, x)
      BY <2>1, <1>EndingRecords, "embed" \in Pcs \ {"idle"}, ZenonT(30) DEF Pcs
    <3> QED BY <3>1, <3>2, <3>3, Zenon
  <2>3. \/ Become(b, d) /\ DropGuards(Host(b), {w}, o.token)
        \/ w \in o.todo /\ Become(b, u) /\ UNCHANGED guards
        \/ Become(b, x) /\ UNCHANGED guards
    BY Zenon DEF Finish, GiveUp, Released
  <2> HIDE DEF d, u, x
  <2>4. GuardsTyped'
    BY <2>1, <2>3, <1>GuardsKept, Zenon DEF IInv
  <2> QED BY <2>2, <2>3, <2>4, Zenon

(* A store call of a batch returns.                                        *)
<1>CallStep.
    ASSUME IInv, DbInv', Keeps, NEW b \in Batches, batch[b].pc # "idle", NEW w \in Work,
           Finish(b, w) \/ Released(b, w) \/ (w \in batch[b].todo /\ GiveUp(b, w)),
           UNCHANGED <<nextToken, proc, detached, stops>>, faults' \in Nat
    PROVE  IInv'
  <2> USE <1>CallStep
  <2>1. GuardsTyped'
    BY <1>FinishFollows, Zenon
  <2>2. PICK r : Become(b, r) /\ Follows(batch[b], r)
    BY <1>FinishFollows, Zenon
  <2>3. BatchesSound'
    BY <2>2, <1>BatchFollows, Zenon DEF IInv, HostKept, Running
  <2>4. CallsSound'
    BY <1>CallsKept, Zenon DEF IInv
  <2> QED BY <2>1, <2>3, <2>4, Zenon DEF IInv, Counted

(* The vector of an item is stored, refused, or the call fails.            *)
<1>ApplyStep.
    ASSUME IInv, NEW b \in Batches, NEW w \in batch[b].todo,
           ApplyStored(b, w) \/ ApplyRefused(b, w) \/ ApplyErrors(b, w)
    PROVE  IInv'
  <2> USE <1>ApplyStep
  <2> DEFINE pr == proc[Host(b)].profile
  <2>1. w \in Work /\ Faithful(w) /\ batch[b].pc # "idle" /\ DbInv
    BY BatchAt, BatchFields, ZenonT(30) DEF ApplyStored, ApplyRefused, ApplyErrors, Applying, Sound, WorkOf, IInv
  <2>2. w \in batch[b].ok => pr \in Profiles
    BY BatchAt, Zenon DEF Sound, ProcRecords
  <2>3. ASSUME Writable(w, pr), SetEmbedding(w, pr), w \in batch[b].ok PROVE DbInv' /\ Keeps
    BY <2>1, <2>2, <2>3, <1>SetEmbeddingKeeps, Zenon
  <2>4. DbInv' /\ Keeps
    <3>1. CASE ApplyStored(b, w)
      BY <3>1, <2>3, Zenon DEF ApplyStored
    <3>2. CASE ApplyRefused(b, w)
      BY <3>2, <2>1, <1>StoreAlone, Zenon DEF ApplyRefused
    <3>3. CASE ApplyErrors(b, w)
      BY <3>3, <2>1, <2>3, <1>StoreAlone, Zenon DEF ApplyErrors, CallFails
    <3> QED BY <3>1, <3>2, <3>3, Zenon
  <2>5. faults' \in Nat
    BY DEF IInv, Counted, ApplyStored, ApplyRefused, ApplyErrors, CallFails, Fault
  <2>6. /\ Finish(b, w) \/ GiveUp(b, w)
        /\ UNCHANGED <<nextToken, proc, detached, stops>>
    BY Zenon DEF ApplyStored, ApplyRefused, ApplyErrors
  <2> QED BY <2>1, <2>4, <2>5, <2>6, <1>CallStep, Zenon

(* The release of a claim runs or fails.                                   *)
<1>ReleaseStep.
    ASSUME IInv, NEW b \in Batches, NEW w \in batch[b].undo, Release(b, w) \/ ReleaseErrors(b, w)
    PROVE  IInv'
  <2> USE <1>ReleaseStep
  <2>1. w \in Work /\ DbInv /\ w.id \in Ids /\ batch[b].pc # "idle"
    BY BatchAt, BatchFields, Zenon DEF IInv, Work, Sound
  <2>2. DbInv' /\ Keeps
    BY <2>1, <1>StoreAlone, <1>ReleaseClaimKeeps, Zenon DEF Release, ReleaseErrors, CallFails
  <2>3. faults' \in Nat /\ Released(b, w) /\ UNCHANGED <<nextToken, proc, detached, stops>>
    BY DEF IInv, Counted, Release, ReleaseErrors, CallFails, Fault
  <2> QED BY <2>1, <2>2, <2>3, <1>CallStep, Zenon

(***************************************************************************)
(* Steps that bring new work, or new owners of work.                       *)
(***************************************************************************)

(* Admission, and the end of an operation with the process it may reopen.  *)
<1>AdmissionStep.
    ASSUME IInv, NEW b \in Batches, Admit(b) \/ OpReturns(b) \/ LastDropped(b)
    PROVE  IInv'
  <2> USE <1>AdmissionStep
  <2> DEFINE a == [Idle EXCEPT !.pc = "admitted"]
             l == [Idle EXCEPT !.pc = "leaving"]
  <2>1. DbInv' /\ Keeps /\ GuardsTyped' /\ nextToken' \in Nat \ {0} /\ Counted'
    <3>1. UNCHANGED <<db, guards, nextToken, faults, stops>>
      BY Zenon DEF Admit, OpReturns, LastDropped
    <3> QED BY <3>1, <1>StoreAlone, Zenon DEF IInv, GuardsTyped, guards, Counted
  <2>2. CallsSound'
    BY <2>1, <1>CallsKept, Zenon DEF IInv, Admit, OpReturns, LastDropped
  <2>3. CASE Admit(b)
    <3>1. a \in BatchRecords /\ a.pc # "idle" /\ a.ok = {} /\ WorkOf(a) = {}
      BY Zenon DEF Idle, BatchRecords, Pcs, WorkOf
    <3>2. Become(b, a) /\ Running(Host(b)) /\ proc' = proc
      BY <2>3, Zenon DEF Admit, Free
    <3> HIDE DEF a
    <3>3. BatchesSound'
      BY <2>1, <3>1, <3>2, <1>BatchBecomes, Zenon DEF IInv
    <3> QED BY <2>1, <2>2, <3>2, <3>3, Zenon DEF IInv
  <2>4. CASE OpReturns(b) \/ LastDropped(b)
    <3>1. proc' = proc \/ Enters(Host(b), proc[Host(b)].stage)
      BY <2>4, BatchAt, ProcMoves, Zenon DEF OpReturns
    <3>2. Running(Host(b)) /\ batch[b].pc # "idle"
      BY <2>4, BatchAt, Zenon DEF OpReturns, LastDropped, Sound
    <3>3. proc' \in [Procs -> ProcRecords] /\ \A c \in Batches : HostKept(Host(c))
      <4>1. CASE proc' = proc
        BY <4>1, Zenon DEF IInv, HostKept, Running
      <4>2. CASE Enters(Host(b), proc[Host(b)].stage)
        BY <3>2, <4>2, BatchAt, EntersStays, Zenon DEF Enters, Stays, Running
      <4> QED BY <3>1, <4>1, <4>2, Zenon
    <3>4. Follows(batch[b], Idle)
      BY <1>PlainRecords, BatchAt, Zenon DEF Sound
    <3>5. Follows(batch[b], l)
      BY <3>2, Zenon DEF Follows, Idle, BatchRecords, Pcs, WorkOf
    <3>6. Become(b, Idle) \/ Become(b, l)
      BY <2>4, Zenon DEF OpReturns, LastDropped
    <3> HIDE DEF l
    <3>7. BatchesSound'
      BY <2>1, <3>3, <3>4, <3>5, <3>6, <1>BatchFollows, Zenon DEF IInv
    <3> QED BY <2>1, <2>2, <3>3, <3>7, Zenon DEF IInv
  <2> QED BY <2>3, <2>4, Zenon

(* What a write or a claim makes of its batch.                             *)
<1>ScheduledRecord.
    ASSUME NEW o \in BatchRecords, NEW W \in SUBSET Work, NEW t \in Nat
    PROVE  /\ Scheduled(o, [o EXCEPT !.pc = "schedule", !.rest = W], W)
           /\ Scheduled(o, [o EXCEPT !.pc = "schedule", !.token = t, !.rest = W], W)
  <2> USE <1>ScheduledRecord
  <2>1. Scheduled(o, [o EXCEPT !.pc = "schedule", !.rest = W], W)
    BY Zenon DEF Scheduled, BatchRecords, Pcs, WorkOf
  <2>2. Scheduled(o, [o EXCEPT !.pc = "schedule", !.token = t, !.rest = W], W)
    BY Zenon DEF Scheduled, BatchRecords, Pcs, WorkOf
  <2> QED BY <2>1, <2>2, Zenon

(* A write or a claim commits and its work is handed to the batch.          *)
<1>WriteStep.
    ASSUME IInv, DbInv', Keeps, NEW b \in Batches, batch[b].pc = "admitted",
           NEW W \in SUBSET Work, \A w \in W : Faithful(w)', NEW t \in Nat,
           \/ Become(b, [batch[b] EXCEPT !.pc = "schedule", !.rest = W])
           \/ Become(b, [batch[b] EXCEPT !.pc = "schedule", !.token = t, !.rest = W]),
           UNCHANGED <<guards, proc, detached, faults, stops>>, nextToken' \in Nat \ {0}
    PROVE  IInv'
  <2> USE <1>WriteStep
  <2> DEFINE o == batch[b]
  <2>1. o \in BatchRecords /\ Sound(b, o) /\ Running(Host(b))
    BY BatchAt, Zenon DEF Sound
  <2>2. \A w \in WorkOf(o) : Faithful(w)'
    BY <2>1, <1>WorkTyped, Zenon DEF Sound, Keeps
  <2>3. o.ok # {} => proc[Host(b)].profile # NoProfile
    BY <2>1, Zenon DEF Sound
  <2>4. PICK n : Scheduled(o, n, W) /\ Become(b, n)
    <3> DEFINE x == [o EXCEPT !.pc = "schedule", !.rest = W]
               y == [o EXCEPT !.pc = "schedule", !.token = t, !.rest = W]
    <3>1. Scheduled(o, x, W) /\ Scheduled(o, y, W)
      BY <2>1, <1>ScheduledRecord, Zenon
    <3>2. Become(b, x) \/ Become(b, y)
      BY Zenon
    <3> HIDE DEF x, y
    <3> QED BY <3>1, <3>2, Zenon
  <2>5. n \in BatchRecords /\ n.pc # "idle" /\ n.ok = o.ok /\ \A w \in WorkOf(n) : Faithful(w)'
    BY <2>2, <2>4, Zenon DEF Scheduled
  <2>6. BatchesSound'
    BY <2>1, <2>3, <2>4, <2>5, <1>BatchBecomes, Zenon DEF IInv
  <2>7. CallsSound'
    BY <1>CallsKept, Zenon DEF IInv
  <2> QED BY <2>6, <2>7, Zenon DEF IInv, GuardsTyped, guards, Counted

(* Operations that write rows.                                             *)
<1>StoreStepKeeps.
    ASSUME IInv, NEW b \in Batches, NEW S \in SUBSET Ids, NEW f \in [S -> Contents], Store(b, S, f)
    PROVE  IInv'
  <2> USE <1>StoreStepKeeps
  <2>1. DbInv' /\ Keeps /\ \A w \in NewWork(S, f, [i \in S |-> 0]) : w \in Work /\ Faithful(w)'
    BY <1>StoreKeeps, Zenon DEF IInv
  <2>2. /\ batch[b].pc = "admitted"
        /\ Become(b, [batch[b] EXCEPT !.pc = "schedule", !.rest = NewWork(S, f, [i \in S |-> 0])])
        /\ UNCHANGED <<guards, proc, detached, faults, stops>> /\ nextToken' \in Nat \ {0}
    BY Zenon DEF Store, IInv
  <2>3. PICK W : W = NewWork(S, f, [i \in S |-> 0])
    BY Zenon
  <2> QED BY <2>1, <2>2, <2>3, <1>WriteStep, 0 \in Nat, ZenonT(30)

(* The same for a content update.                                          *)
<1>UpdateStepKeeps.
    ASSUME IInv, NEW b \in Batches, NEW i \in Ids, NEW c \in Contents, Update(b, i, c)
    PROVE  IInv'
  <2> USE <1>UpdateStepKeeps
  <2>0. PICK W : W = {[id |-> i, content |-> c, rev |-> row[i].rev + 1]}
    BY Zenon
  <2>1. DbInv' /\ Keeps /\ \A w \in W : w \in Work /\ Faithful(w)'
    BY <2>0, <1>UpdateKeeps, Zenon DEF IInv
  <2>2. /\ batch[b].pc = "admitted"
        /\ Become(b, [batch[b] EXCEPT !.pc = "schedule", !.rest = W])
        /\ UNCHANGED <<guards, proc, detached, faults, stops>> /\ nextToken' \in Nat \ {0}
    BY <2>0, Zenon DEF Update, IInv
  <2> QED BY <2>1, <2>2, <1>WriteStep, 0 \in Nat, ZenonT(30)

(* The same for a bulk claim.                                              *)
<1>ClaimStepKeeps.
    ASSUME IInv, NEW b \in Batches, NEW S \in SUBSET Ids, Claim(b, S)
    PROVE  IInv'
  <2> USE <1>ClaimStepKeeps
  <2>0. PICK W : W = NewWork(S, [i \in S |-> row[i].content], [i \in S |-> row[i].rev])
    BY Zenon
  <2>1. DbInv' /\ Keeps /\ \A w \in W : w \in Work /\ Faithful(w)'
    BY <2>0, <1>ClaimKeeps, Zenon DEF IInv
  <2>2. /\ batch[b].pc = "admitted"
        /\ Become(b, [batch[b] EXCEPT !.pc = "schedule", !.token = nextToken, !.rest = W])
        /\ UNCHANGED <<guards, proc, detached, faults, stops>> /\ nextToken' = nextToken + 1
    BY <2>0, Zenon DEF Claim
  <2>3. nextToken \in Nat /\ nextToken' \in Nat \ {0}
    BY <2>2 DEF IInv
  <2> QED BY <2>1, <2>2, <2>3, <1>WriteStep, Zenon

(* The provider answers for a part of the chunk.                           *)
<1>ExecuteStep.
    ASSUME IInv, NEW b \in Batches, NEW ok \in SUBSET batch[b].held, ExecuteChunk(b, ok)
    PROVE  IInv'
  <2> USE <1>ExecuteStep
  <2> DEFINE o == batch[b]
             n == [o EXCEPT !.pc = "apply", !.todo = o.held, !.ok = ok]
  <2>1. o \in BatchRecords /\ Sound(b, o) /\ Running(Host(b)) /\ ok \in SUBSET o.held
    BY BatchAt, Zenon DEF Sound, ExecuteChunk
  <2>2. DbInv' /\ Keeps
    BY <1>StoreAlone, Zenon DEF IInv, ExecuteChunk
  <2>3. \A w \in WorkOf(o) : Faithful(w)'
    BY <2>1, <2>2, <1>WorkTyped, Zenon DEF Sound, Keeps
  <2>4. Become(b, n) /\ (ok # {} => proc[Host(b)].profile # NoProfile)
    BY Zenon DEF ExecuteChunk
  <2>5. UNCHANGED <<nextToken, guards, proc, detached, faults, stops>>
    BY Zenon DEF ExecuteChunk
  <2> HIDE DEF o
  <2>6. n \in BatchRecords /\ n.pc = "apply" /\ n.ok = ok /\ WorkOf(n) \subseteq WorkOf(o)
    BY <2>1, Zenon DEF BatchRecords, Pcs, WorkOf
  <2> HIDE DEF n
  <2>7. BatchesSound'
    BY <2>1, <2>2, <2>3, <2>4, <2>5, <2>6, <1>BatchBecomes, Zenon DEF IInv
  <2>8. CallsSound'
    BY <2>2, <2>5, <1>CallsKept, Zenon DEF IInv
  <2> QED BY <2>2, <2>5, <2>7, <2>8, Zenon DEF IInv, GuardsTyped, guards, Counted

(* The chunk and its guards move to a task of the same process.            *)
<1>SpawnStep.
    ASSUME IInv, NEW b \in Batches, NEW t \in Batches, Spawn(b, t)
    PROVE  IInv'
  <2> USE <1>SpawnStep
  <2> DEFINE o == batch[b]
             m == [Idle EXCEPT !.pc = "embed", !.by = "task", !.token = o.token, !.held = o.held]
             n == [o EXCEPT !.pc = "schedule", !.held = {}]
  <2>1. o \in BatchRecords /\ Sound(b, o) /\ o.pc # "idle" /\ Running(Host(b))
    BY BatchAt, Zenon DEF Sound, Spawn, Prepared
  <2>2. /\ UNCHANGED <<db, nextToken, guards, proc, detached, faults, stops>>
        /\ Host(t) = Host(b) /\ t # b
        /\ batch' = [batch EXCEPT ![t] = m, ![b] = n]
    BY Zenon DEF Spawn
  <2>3. DbInv' /\ Keeps
    BY <2>2, <1>StoreAlone, Zenon DEF IInv
  <2>4. \A w \in WorkOf(o) : Faithful(w)'
    BY <2>1, <2>3, <1>WorkTyped, Zenon DEF Sound, Keeps
  <2> DEFINE mid == [batch EXCEPT ![t] = m]
  <2>5. m \in BatchRecords /\ m.pc = "embed" /\ m.ok = {} /\ WorkOf(m) \subseteq WorkOf(o) /\ m.undo = {}
    <3>1. o.token \in Nat /\ o.held \in SUBSET Work /\ o.held \subseteq WorkOf(o)
      BY <2>1, BatchFields, Zenon DEF WorkOf
    <3> HIDE DEF o
    <3>2. /\ Idle \in BatchRecords /\ Idle.rest = {} /\ Idle.todo = {} /\ Idle.ok = {} /\ Idle.undo = {}
      BY Zenon DEF Idle, BatchRecords, Pcs
    <3>3. /\ m \in BatchRecords /\ m.pc = "embed" /\ m.rest = {} /\ m.todo = {} /\ m.held = o.held
          /\ m.ok = {} /\ m.undo = {}
      BY <3>1, <3>2, Zenon DEF BatchRecords, Pcs
    <3> HIDE DEF m
    <3> QED BY <3>1, <3>3, Zenon DEF WorkOf
  <2>6. n \in BatchRecords /\ n.pc = "schedule" /\ n.ok = o.ok /\ WorkOf(n) \subseteq WorkOf(o)
    <3> HIDE DEF o
    <3> QED BY <2>1, Zenon DEF BatchRecords, Pcs, WorkOf
  <2> HIDE DEF m, n
  <2>7. batch' \in [Batches -> BatchRecords] /\ batch'[t] = m /\ batch'[b] = n
        /\ \A c \in Batches \ {b, t} : batch'[c] = batch[c]
    BY <2>2, <2>5, <2>6, Zenon DEF IInv, BatchesSound
  <2>8. ASSUME NEW c \in Batches PROVE Sound(c, batch[c])'
    <3>1. (WorkOf(batch[c]))' = WorkOf(batch'[c])
      BY Zenon DEF WorkOf
    <3>2. CASE c = t
      BY <2>1, <2>2, <2>4, <2>5, <2>7, <3>1, <3>2, Zenon DEF Sound, Running
    <3>3. CASE c = b
      BY <2>1, <2>2, <2>4, <2>6, <2>7, <3>1, <3>3, Zenon DEF Sound, Running
    <3>4. CASE c \notin {b, t}
      <4>1. batch'[c] = batch[c] /\ Sound(c, batch[c]) /\ batch[c] \in BatchRecords
        BY <2>7, <3>4, BatchAt, Zenon
      <4>2. \A w \in WorkOf(batch[c]) : Faithful(w)'
        BY <2>3, <4>1, <1>WorkTyped, Zenon DEF Sound, Keeps
      <4> QED BY <2>2, <3>1, <4>1, <4>2, Zenon DEF Sound, Running
    <3> QED BY <3>2, <3>3, <3>4, Zenon
  <2>9. BatchesSound'
    BY <2>7, <2>8, Zenon DEF BatchesSound
  <2>10. CallsSound'
    BY <2>2, <2>3, <1>CallsKept, Zenon DEF IInv
  <2> QED BY <2>2, <2>3, <2>9, <2>10, Zenon DEF IInv, GuardsTyped, guards, Counted

(* Steps of one batch.                                                     *)
<1>BatchStep.
    ASSUME IInv, NEW b \in Batches, OpStep(b) \/ RunStep(b) PROVE IInv'
  BY <1>BatchStep, Zenon, <1>AdmissionStep, <1>StoreStepKeeps, <1>UpdateStepKeeps, <1>ClaimStepKeeps, <1>TakeChunkStep, <1>PrepareStep,
     <1>RefusalStep, <1>EndingStep, <1>SpawnStep, <1>ExecuteStep, <1>ApplyStep, <1>ReleaseStep
     DEF OpStep, RunStep

(* Batches kept or taken by a shutdown stay sound.                         *)
<1>BatchesStay.
    ASSUME IInv, Keeps, NEW p \in Procs, Stays, TakeTasks(p) \/ UNCHANGED batch
    PROVE  BatchesSound' /\ proc' \in [Procs -> ProcRecords]
  <2> USE <1>BatchesStay
  <2>1. proc' \in [Procs -> ProcRecords] /\ \A b \in Batches : HostKept(Host(b))
    BY BatchAt, Zenon DEF Stays
  <2>2. \A b \in Batches : Follows(batch[b], batch[b]) /\ Follows(batch[b], [batch[b] EXCEPT !.by = "taken"])
    BY BatchAt, <1>PlainRecords, Zenon DEF Sound
  <2>3. batch' \in [Batches -> BatchRecords] /\ \A b \in Batches : Follows(batch[b], batch'[b])
    <3>1. CASE UNCHANGED batch
      BY <2>2, <3>1, Zenon DEF IInv, BatchesSound
    <3>2. CASE TakeTasks(p)
      <4> DEFINE n2(b) == [batch[b] EXCEPT !.by = "taken"]
      <4>1. \A b \in Batches : Follows(batch[b], n2(b)) /\ n2(b) \in BatchRecords /\ batch[b] \in BatchRecords
        BY <2>2, BatchAt, Zenon DEF Follows
      <4>2. batch' = [b \in Batches |-> IF Host(b) = p /\ batch[b].by = "task" THEN n2(b) ELSE batch[b]]
        BY <3>2, Zenon DEF TakeTasks
      <4> HIDE DEF n2
      <4> QED BY <2>2, <4>1, <4>2, Zenon
    <3> QED BY <3>1, <3>2, Zenon
  <2> QED BY <2>1, <2>3, <1>BatchesFollow, Zenon DEF IInv

(* Steps of a process that drop no batch.                                  *)
<1>StayingStep.
    ASSUME IInv, DbInv', Keeps, NEW p \in Procs, Stays, TakeTasks(p) \/ UNCHANGED batch,
           UNCHANGED <<nextToken, guards, detached>>, Counted'
    PROVE  IInv'
  <2> USE <1>StayingStep
  <2>1. BatchesSound' /\ proc' \in [Procs -> ProcRecords]
    BY <1>BatchesStay, Zenon
  <2>2. CallsSound'
    BY <1>CallsKept, Zenon DEF IInv
  <2> QED BY <2>1, <2>2, Zenon DEF IInv, GuardsTyped, guards

(* Startup.                                                                *)
<1>StartStep.
    ASSUME IInv, NEW p \in Procs, NEW pr \in Profiles \cup {NoProfile}, Start(p, pr)
    PROVE  IInv'
  <2> USE <1>StartStep
  <2>1. DbInv' /\ Keeps
    BY <1>StartKeeps, Zenon DEF IInv
  <2>2. Moves(p, "serving", pr, {}, {}) /\ ~Running(p)
    BY ProcMoves, Zenon DEF Start, Running
  <2>3. Stays
    BY <2>2, Zenon DEF Stays, Moves, HostKept, Running
  <2> QED BY <2>1, <2>3, <1>StayingStep, Zenon DEF IInv, Counted, Start

(* The stages of a shutdown before anything is dropped.                     *)
<1>ShutdownStep.
    ASSUME IInv, NEW p \in Procs,
           \/ BeginShutdown(p) \/ AdmissionsDrain(p) \/ AdmissionsTimeOut(p) \/ RequestReset(p)
           \/ TakeTasks(p) \/ CleanupBegins(p) \/ ShutdownReopens(p)
    PROVE  IInv'
  <2> USE <1>ShutdownStep
  <2>1. UNCHANGED <<db, nextToken, guards, detached, faults>> /\ Counted'
    BY DEF BeginShutdown, AdmissionsDrain, AdmissionsTimeOut, RequestReset, TakeTasks, CleanupBegins,
           ShutdownReopens, IInv, Counted
  <2>2. DbInv' /\ Keeps
    BY <2>1, <1>StoreAlone, Zenon DEF IInv
  <2>3. TakeTasks(p) \/ UNCHANGED batch
    BY Zenon DEF BeginShutdown, AdmissionsDrain, AdmissionsTimeOut, RequestReset, CleanupBegins, ShutdownReopens
  <2>4. \/ \E s \in {"waiting", "drained", "refusing", "overdue", "joining", "overrun", "ending"} : Enters(p, s)
        \/ \E s \in {"expiring", "dropping"} : Moves(p, s, proc[p].profile, active[p], proc[p].released)
    BY ProcMoves, Zenon
  <2>5. Stays
    BY <2>4, EntersStays, Zenon DEF Enters
  <2> QED BY <2>1, <2>2, <2>3, <2>5, <1>StayingStep, Zenon

(* One claim of the snapshot is released, or its release fails.             *)
<1>CleanupStep.
    ASSUME IInv, NEW p \in Procs, NEW c \in proc[p].snapshot, NEW s \in BOOLEAN, CleanupCall(p, c, s)
    PROVE  IInv'
  <2> USE <1>CleanupStep
  <2>1. proc[p] \in ProcRecords
    BY Zenon DEF IInv
  <2>2. c \in Claims
    BY <2>1, Zenon DEF ProcRecords
  <2>3. c.id \in Ids
    BY <2>2, Zenon DEF Claims
  <2>4. DbInv' /\ Keeps
    BY <2>3, <1>ReleaseClaimKeeps, <1>StoreAlone, Zenon DEF CleanupCall, CallFails, IInv
  <2>5. Counted' /\ UNCHANGED <<batch, nextToken, guards, detached>>
    BY DEF CleanupCall, CallFails, Fault, IInv, Counted
  <2>6. Moves(p, proc[p].stage, proc[p].profile, proc[p].snapshot \ {c}, proc[p].released \cup {c})
    BY <2>2, ProcMoves, Zenon
  <2>7. Stays
    BY <2>6, Zenon DEF Stays, Moves, HostKept, Running
  <2> QED BY <2>4, <2>5, <2>7, <1>StayingStep, Zenon

(* The calls a dropped batch leaves behind are sound.                      *)
<1>IssuedCall.
    ASSUME IInv, NEW b \in Batches, NEW d \in IssuableCalls(b)
    PROVE  d \in Calls /\ Faithful(d.work) /\ (d.set => d.profile \in Profiles)
  <2> USE <1>IssuedCall
  <2> DEFINE o == batch[b]
  <2>1. o \in BatchRecords /\ Sound(b, o) /\ proc[Host(b)] \in ProcRecords
    BY BatchAt, Zenon
  <2>2. PICK w \in o.undo \cup o.ok : d = Call(b, w)
    BY Zenon DEF IssuableCalls
  <2>3. w \in Work /\ Faithful(w) /\ o.token \in Nat
    BY <2>1, BatchFields, Zenon DEF Sound, WorkOf
  <2>4. proc[Host(b)].profile \in Profiles \cup {NoProfile}
    BY <2>1, Zenon DEF ProcRecords
  <2>5. d = [set |-> w \notin o.undo, work |-> w, token |-> o.token, profile |-> proc[Host(b)].profile]
    BY <2>2, Zenon DEF Call
  <2>6. d \in Calls /\ d.work = w /\ d.profile = proc[Host(b)].profile /\ (d.set => w \in o.ok)
    <3>1. PICK x \in BOOLEAN : x <=> w \notin o.undo
      BY Zenon
    <3>2. d = [set |-> x, work |-> w, token |-> o.token, profile |-> proc[Host(b)].profile]
      BY <2>5, <3>1, Zenon
    <3>3. d.set => w \in o.ok
      BY <2>2, <3>1, <3>2
    <3> QED BY <2>3, <2>4, <3>2, <3>3, Zenon DEF Calls
  <2> QED BY <2>1, <2>3, <2>4, <2>6, Zenon DEF Sound

(* Dropping batches of one process.                                        *)
<1>DropKeeps.
    ASSUME IInv, Keeps, NEW p \in Procs, NEW B \in SUBSET Batches, DropBatches(p, B),
           \A b \in Batches \ B : HostKept(Host(b))
    PROVE  BatchesSound' /\ GuardsTyped' /\ CallsSound'
  <2> USE <1>DropKeeps
  <2>1. batch' = [b \in Batches |-> IF b \in B THEN Idle ELSE batch[b]]
    BY Zenon DEF DropBatches
  <2>2. \A b \in Batches : Follows(batch[b], Idle) /\ Follows(batch[b], batch[b])
    BY BatchAt, <1>PlainRecords, Zenon DEF Sound
  <2>3. Idle \in BatchRecords /\ Idle.pc = "idle"
    BY Zenon DEF Idle, BatchRecords, Pcs
  <2>4. batch' \in [Batches -> BatchRecords]
    BY <2>1, <2>3, Zenon DEF IInv, BatchesSound
  <2>5. \A b \in Batches : Follows(batch[b], batch'[b]) /\ (batch'[b].pc = "idle" \/ HostKept(Host(b)))
    BY <2>1, <2>2, <2>3, Zenon
  <2>6. BatchesSound'
    BY <2>4, <2>5, <1>BatchesFollow, Zenon DEF IInv
  <2>7. GuardsTyped'
    BY Zenon DEF DropBatches, IInv, GuardsTyped
  <2>8. ASSUME NEW d \in detached'
        PROVE  d \in Calls /\ Faithful(d.work)' /\ (d.set => d.profile \in Profiles)
    <3>1. d \in detached \/ \E b \in B : d \in IssuableCalls(b)
      BY <2>8, Zenon DEF DropBatches
    <3>2. d \in Calls /\ Faithful(d.work) /\ (d.set => d.profile \in Profiles)
      BY <3>1, <1>IssuedCall, Zenon DEF IInv, CallsSound
    <3>3. d.work \in Work
      BY <3>2, Zenon DEF Calls
    <3> QED BY <3>2, <3>3, Zenon DEF Keeps
  <2> QED BY <2>6, <2>7, <2>8, Zenon DEF CallsSound

(* A shutdown returns, a process exits or crashes.                          *)
<1>EndStep.
    ASSUME IInv, NEW p \in Procs, ShutdownReturns(p) \/ Exit(p) \/ Crash(p)
    PROVE  IInv'
  <2> USE <1>EndStep
  <2>1. UNCHANGED <<db, nextToken, stops>> /\ Counted'
    BY DEF ShutdownReturns, Exit, Crash, Fault, IInv, Counted
  <2>2. DbInv' /\ Keeps
    BY <2>1, <1>StoreAlone, Zenon DEF IInv
  <2>3. Down \in ProcRecords /\ proc[p] \in ProcRecords
    BY Zenon DEF Down, ProcRecords, Stages, IInv
  <2>4. CASE ShutdownReturns(p)
    <3>2. Enters(p, "serving") /\ DropBatches(p, Taken(p))
      BY <2>4, ProcMoves, Zenon DEF ShutdownReturns
    <3>4. proc' \in [Procs -> ProcRecords] /\ \A b \in Batches : HostKept(Host(b))
      BY <3>2, BatchAt, EntersStays, Zenon DEF Enters, Stays
    <3>5. Taken(p) \in SUBSET Batches
      BY Zenon DEF Taken
    <3>6. BatchesSound' /\ GuardsTyped' /\ CallsSound'
      BY <2>2, <3>2, <3>4, <3>5, <1>DropKeeps, Zenon
    <3> QED BY <2>1, <2>2, <3>4, <3>6, Zenon DEF IInv
  <2>5. CASE Crash(p)
    <3> DEFINE B == {b \in Batches : Host(b) = p}
    <3>1. SetProc(p, Down) /\ DropBatches(p, B)
      BY <2>5, Zenon DEF Crash
    <3>2. proc' \in [Procs -> ProcRecords] /\ \A b \in Batches \ B : HostKept(Host(b))
      BY <2>3, <3>1, BatchAt, Zenon DEF SetProc, IInv, HostKept, Running
    <3>3. BatchesSound' /\ GuardsTyped' /\ CallsSound'
      BY <2>2, <3>1, <3>2, <1>DropKeeps, Zenon
    <3> QED BY <2>1, <2>2, <3>2, <3>3, Zenon DEF IInv
  <2>6. CASE Exit(p)
    <3>1. SetProc(p, Down) /\ UNCHANGED <<batch, guards, detached>>
          /\ \A b \in Batches : Host(b) = p => batch[b].pc = "idle"
      BY <2>6, Zenon DEF Exit
    <3>2. proc' \in [Procs -> ProcRecords]
          /\ \A b \in Batches : batch'[b].pc = "idle" \/ HostKept(Host(b))
      BY <2>3, <3>1, BatchAt, Zenon DEF SetProc, IInv, HostKept, Running
    <3>3. \A b \in Batches : Follows(batch[b], batch'[b])
      BY <3>1, BatchAt, <1>PlainRecords, Zenon DEF Sound
    <3>4. BatchesSound'
      BY <2>2, <3>1, <3>2, <3>3, <1>BatchesFollow, Zenon DEF IInv, BatchesSound
    <3>5. CallsSound'
      BY <2>2, <3>1, <1>CallsKept, Zenon DEF IInv
    <3> QED BY <2>1, <2>2, <3>1, <3>2, <3>4, <3>5, ZenonT(30) DEF IInv, GuardsTyped, guards
  <2> QED BY <2>4, <2>5, <2>6, Zenon

(***************************************************************************)
(* The whole specification.                                                *)
(***************************************************************************)

(* A store call that outlived its task.                                    *)
<1>DetachedKeeps.
    ASSUME IInv, NEW d \in detached, DetachedRuns(d) PROVE DbInv' /\ Keeps
  <2> USE <1>DetachedKeeps
  <2>1. d \in Calls /\ Faithful(d.work) /\ (d.set => d.profile \in Profiles) /\ DbInv
    BY Zenon DEF IInv, CallsSound
  <2>2. d.work \in Work /\ d.work.id \in Ids
    BY <2>1, Zenon DEF Calls, Work
  <2>3. CASE ~d.set
    BY <2>1, <2>2, <2>3, <1>ReleaseClaimKeeps, Zenon DEF DetachedRuns
  <2>4. CASE d.set /\ Writable(d.work, d.profile)
    BY <2>1, <2>2, <2>4, <1>SetEmbeddingKeeps, Zenon DEF DetachedRuns
  <2>5. CASE d.set /\ ~Writable(d.work, d.profile)
    BY <2>1, <2>5, <1>StoreAlone, Zenon DEF DetachedRuns
  <2> QED BY <2>3, <2>4, <2>5, Zenon

(* Deletions, lapsing leases, reindexes and detached calls.                *)
<1>StoreSideStep.
    ASSUME IInv, StoreStep PROVE IInv'
  <2> USE <1>StoreSideStep
  <2>1. DbInv' /\ Keeps
    BY <1>DeleteKeeps, <1>LapseKeeps, <1>ReindexKeeps, <1>DetachedKeeps, Zenon DEF IInv, StoreStep
  <2>2. /\ UNCHANGED <<nextToken, batch, guards, proc>> /\ Counted' /\ detached' \subseteq detached
    <3>1. \A S : Delete(S) => UNCHANGED <<nextToken, batch, guards, proc, detached, faults, stops>>
      BY Zenon DEF Delete
    <3>2. \A i : LeaseLapses(i) => Fault /\ UNCHANGED <<nextToken, batch, guards, proc, detached, stops>>
      BY Zenon DEF LeaseLapses
    <3>3. \A pr : Reindex(pr) => Fault /\ UNCHANGED <<nextToken, batch, guards, proc, detached, stops>>
      BY Zenon DEF Reindex
    <3>4. \A d : DetachedRuns(d) => detached' = detached \ {d} /\ UNCHANGED <<nextToken, batch, guards, proc, faults, stops>>
      BY Zenon DEF DetachedRuns
    <3> QED BY <3>1, <3>2, <3>3, <3>4 DEF StoreStep, Fault, IInv, Counted
  <2>3. \A b \in Batches : Follows(batch[b], batch'[b]) /\ HostKept(Host(b))
    BY <2>2, BatchAt, <1>PlainRecords, Zenon DEF Sound, HostKept, Running
  <2>4. BatchesSound'
    BY <2>1, <2>2, <2>3, <1>BatchesFollow, Zenon DEF IInv, BatchesSound
  <2>5. CallsSound'
    BY <2>1, <2>2, <1>CallsKept, Zenon DEF IInv
  <2> QED BY <2>1, <2>2, <2>4, <2>5, Zenon DEF IInv, GuardsTyped, guards

<1> SUFFICES ASSUME IInv, [BulkNext]_vars PROVE IInv'
  BY Zenon
<1>1. ASSUME NEW b \in Batches, OpStep(b) \/ RunStep(b) PROVE IInv'
  BY <1>1, <1>BatchStep, Zenon
<1>2. ASSUME NEW p \in Procs, ProcStep(p) PROVE IInv'
  BY <1>2, <1>StartStep, <1>ShutdownStep, <1>CleanupStep, <1>EndStep, Zenon DEF ProcStep
<1>3. CASE StoreStep
  BY <1>3, <1>StoreSideStep, Zenon
<1>4. CASE UNCHANGED vars
  <2>1. DbInv' /\ Keeps
    BY <1>4, <1>StoreAlone, Zenon DEF vars, db, IInv
  <2>2. \A b \in Batches : Follows(batch[b], batch'[b]) /\ HostKept(Host(b))
    BY <1>4, BatchAt, <1>PlainRecords, Zenon DEF vars, Sound, HostKept, Running
  <2>3. BatchesSound'
    BY <1>4, <2>1, <2>2, <1>BatchesFollow, Zenon DEF vars, IInv, BatchesSound
  <2>4. CallsSound'
    BY <1>4, <2>1, <1>CallsKept, Zenon DEF vars, IInv
  <2> QED BY <1>4, <2>1, <2>3, <2>4, Zenon DEF vars, IInv, GuardsTyped, Counted
<1> QED BY <1>1, <1>2, <1>3, <1>4, Zenon DEF BulkNext

(* The invariant implies the properties that are model-checked.            *)
LEMMA IInvImplies == IInv => TypeOK /\ VectorsCurrent /\ WorkFaithful
<1> SUFFICES ASSUME IInv PROVE TypeOK /\ VectorsCurrent /\ WorkFaithful
  BY Zenon
<1>1. TypeOK
  BY TypeOKSplits, Zenon DEF IInv, DbInv, BatchesSound, CallsSound, Counted
<1>2. WorkFaithful
  BY Zenon DEF WorkFaithful, IInv, BatchesSound, Sound, CallsSound, Carried
<1> QED BY <1>1, <1>2, Zenon DEF IInv, DbInv

(* Without re-embedding by id, no interleaving of writes, tasks, bulk       *)
(* claims, shutdowns, aborted calls, crashes and reindexes lets set_embedding *)
(* store a vector of another text or another vector space.                 *)
THEOREM VectorsAreCurrent == BulkSpec => []VectorsCurrent
<1> QED BY InitIInv, StepIInv, IInvImplies, PTL DEF BulkSpec

(* Work captured by the orchestrator stays faithful to its revision until  *)
(* it is dropped: why the revision check of set_embedding suffices.        *)
THEOREM CapturedWorkIsFaithful == BulkSpec => []WorkFaithful
<1> QED BY InitIInv, StepIInv, IInvImplies, PTL DEF BulkSpec

(* Type correctness of orchestrators and store.                            *)
THEOREM PipelineTypes == BulkSpec => []TypeOK
<1> QED BY InitIInv, StepIInv, IInvImplies, PTL DEF BulkSpec

(***************************************************************************)
(* Refinement: every step is a step of EmbeddingIndex or leaves it alone.   *)
(***************************************************************************)
Sim == Abstract!Next \/ UNCHANGED Abstract!vars

(* Every step of the pipeline is a step of the index or leaves it alone.    *)
LEMMA StepSim == IInv /\ [BulkNext]_vars => [Abstract!Next]_(Abstract!vars)
(* Claims and leases are invisible to the index.                           *)
<1>IndexSame.
    ASSUME vec' = vec, profile' = profile,
           \A i \in Ids : row'[i].status = row[i].status /\ row'[i].content = row[i].content
    PROVE  Sim
  BY <1>IndexSame, Zenon DEF Sim, Abstract!vars

(* An accepted vector indexes the present text in the present space.       *)
<1>SetEmbeddingIndexes.
    ASSUME DbInv, NEW w \in Work, NEW pr \in Profiles, Writable(w, pr), Faithful(w), SetEmbedding(w, pr)
    PROVE  Sim
  <2> USE <1>SetEmbeddingIndexes
  <2> DEFINE r == Unclaimed(row[w.id])
             n == [r EXCEPT !.has = TRUE]
  <2>0. w.id \in Ids /\ w.content \in Contents /\ row[w.id] \in Rows
    BY Zenon DEF Work, DbInv, DbTyped
  <2>1. r \in Rows /\ r.status = row[w.id].status /\ r.content = row[w.id].content
    BY <2>0, ClearedRow, Zenon
  <2> HIDE DEF r
  <2>2. n.status = row[w.id].status /\ n.content = row[w.id].content
    BY <2>1, Zenon DEF Rows
  <2>3. row' = [row EXCEPT ![w.id] = n] /\ profile' = profile
        /\ vec' = [vec EXCEPT ![w.id] = [content |-> w.content, profile |-> pr]]
    BY Zenon DEF SetEmbedding, r
  <2> HIDE DEF n
  <2>4. pr = profile /\ pr # NoProfile /\ row[w.id].status = "live" /\ w.content = row[w.id].content
        /\ w.content # Absent
    BY <2>0, AbsencesAreDistinct, Zenon DEF Writable, Faithful
  <2>5. \A i \in Ids : row'[i].status = row[i].status /\ row'[i].content = row[i].content
    BY <2>2, <2>3, Zenon DEF DbInv, DbTyped
  <2>6. Abstract!Index(w.id)
    BY <2>0, <2>3, <2>4, <2>5, ZenonT(30) DEF Abstract!Index
  <2> QED BY <2>0, <2>6, Zenon DEF Sim, Abstract!Next

(* Releasing a claim is invisible.                                         *)
<1>ReleaseClaimIndex.
    ASSUME DbInv, NEW i \in Ids, NEW rev, NEW t, ReleaseClaim(i, rev, t) PROVE Sim
  <2> USE <1>ReleaseClaimIndex
  <2> DEFINE n == Unclaimed(row[i])
  <2>1. n.status = row[i].status /\ n.content = row[i].content
    BY ClearedRow, Zenon DEF DbInv, DbTyped
  <2>2. (row' = row \/ row' = [row EXCEPT ![i] = n]) /\ vec' = vec /\ profile' = profile
    BY Zenon DEF ReleaseClaim
  <2> HIDE DEF n
  <2> QED BY <2>1, <2>2, <1>IndexSame, Zenon DEF DbInv, DbTyped

(* A step that leaves the store alone leaves the index alone.              *)
<1>StoreAloneIndex. ASSUME UNCHANGED db PROVE Sim
  BY <1>StoreAloneIndex, <1>IndexSame, Zenon DEF db

(* Stores and updates write, deletions remove.                             *)
<1>WritesIndex.
    ASSUME DbInv, NEW b \in Batches, NEW S \in SUBSET Ids, NEW f \in [S -> Contents], Store(b, S, f)
    PROVE  Sim
  <2> USE <1>WritesIndex
  <2> DEFINE n(i) == [row[i] EXCEPT !.status = "live", !.content = f[i]]
  <2>1. \A i \in Ids : row[i] \in Rows
    BY Zenon DEF DbInv, DbTyped
  <2>2. \A i \in S : n(i).status = "live" /\ n(i).content = f[i] /\ row[i].status = "unborn"
    BY <2>1, Zenon DEF Store, Rows
  <2>3. row' = [i \in Ids |-> IF i \in S THEN n(i) ELSE row[i]] /\ vec' = vec /\ profile' = profile
    BY Zenon DEF Store
  <2> HIDE DEF n
  <2>4. \A i \in S : vec[i] = NoVector
    BY <2>2, Zenon DEF DbInv, VectorsCurrent
  <2>5. vec = [i \in Ids |-> IF i \in S THEN NoVector ELSE vec[i]]
    BY <2>4, Zenon DEF DbInv, DbTyped
  <2>6. Abstract!Write(S, f)
    BY <2>2, <2>3, <2>5, Zenon DEF Abstract!Write
  <2> QED BY <2>6, Zenon DEF Sim, Abstract!Next

(* An update writes one text.                                              *)
<1>UpdateIndex.
    ASSUME DbInv, NEW b \in Batches, NEW i \in Ids, NEW c \in Contents, Update(b, i, c)
    PROVE  Sim
  <2> USE <1>UpdateIndex
  <2> DEFINE r == Unembedded(row[i])
             k == row[i].rev + 1
             n == [r EXCEPT !.content = c, !.rev = k]
             f == [j \in {i} |-> c]
  <2>0. row[i] \in Rows /\ row[i].rev \in Nat /\ k \in Nat /\ row[i].status = "live"
    BY DEF DbInv, DbTyped, Rows, Update
  <2>1. r \in Rows /\ r.status = "live"
    BY <2>0, ClearedRow, Zenon
  <2> HIDE DEF r, k
  <2>2. n.status = r.status /\ n.content = c
    BY <2>1, Zenon DEF Rows
  <2>3. row' = [row EXCEPT ![i] = n] /\ vec' = [vec EXCEPT ![i] = NoVector] /\ profile' = profile
    BY Zenon DEF Update, r, k
  <2> HIDE DEF n
  <2>4. f \in [{i} -> Contents] /\ {i} \in SUBSET Ids
    BY Zenon
  <2>5. Abstract!Write({i}, f)
    BY <2>0, <2>1, <2>2, <2>3, Zenon DEF Abstract!Write, DbInv, DbTyped
  <2> HIDE DEF f
  <2> QED BY <2>4, <2>5, Zenon DEF Sim, Abstract!Next

(* A deletion removes.                                                     *)
<1>DeleteIndex.
    ASSUME DbInv, NEW S \in SUBSET Ids, Delete(S) PROVE Sim
  <2> USE <1>DeleteIndex
  <2> DEFINE r(i) == Unembedded(row[i])
             n(i) == [r(i) EXCEPT !.status = "gone", !.content = Absent]
  <2>1. \A i \in Ids : r(i) \in Rows
    BY ClearedRow, Zenon DEF DbInv, DbTyped
  <2> HIDE DEF r
  <2>2. \A i \in Ids : n(i).status = "gone"
    BY <2>1, Zenon DEF Rows
  <2>3. /\ row' = [i \in Ids |-> IF i \in S THEN n(i) ELSE row[i]]
        /\ vec' = [i \in Ids |-> IF i \in S THEN NoVector ELSE vec[i]]
        /\ profile' = profile
    BY Zenon DEF Delete, r
  <2> HIDE DEF n
  <2>4. Abstract!Remove(S)
    BY <2>2, <2>3, Zenon DEF Abstract!Remove
  <2> QED BY <2>4, Zenon DEF Sim, Abstract!Next

(* Claims and lapses are invisible.                                        *)
<1>ClaimIndex.
    ASSUME DbInv, (\E b \in Batches, S \in SUBSET Ids : Claim(b, S)) \/ (\E i \in Ids : LeaseLapses(i))
    PROVE  Sim
  <2> USE <1>ClaimIndex
  <2> DEFINE n(i) == [row[i] EXCEPT !.token = nextToken, !.lapsed = FALSE]
             m(i) == [row[i] EXCEPT !.lapsed = TRUE]
  <2>1. \A i \in Ids : row[i] \in Rows
    BY Zenon DEF DbInv, DbTyped
  <2>2. \A i \in Ids : n(i).status = row[i].status /\ n(i).content = row[i].content
    BY <2>1, Zenon DEF Rows
  <2>3. \A i \in Ids : m(i).status = row[i].status /\ m(i).content = row[i].content
    BY <2>1, Zenon DEF Rows
  <2>4. /\ vec' = vec /\ profile' = profile
        /\ \/ \E S \in SUBSET Ids : row' = [i \in Ids |-> IF i \in S THEN n(i) ELSE row[i]]
           \/ \E i \in Ids : row' = [row EXCEPT ![i] = m(i)]
    BY Zenon DEF Claim, LeaseLapses
  <2> HIDE DEF n, m
  <2>5. \A i \in Ids : row'[i].status = row[i].status /\ row'[i].content = row[i].content
    BY <2>2, <2>3, <2>4 DEF DbInv, DbTyped
  <2> QED BY <2>4, <2>5, <1>IndexSame, Zenon

(* A reindex rebuilds.                                                     *)
<1>ReindexIndex.
    ASSUME DbInv, NEW pr \in Profiles, Reindex(pr) PROVE Sim
  <2> USE <1>ReindexIndex
  <2> DEFINE n(i) == Unembedded(row[i])
  <2>1. \A i \in Ids : n(i).status = row[i].status /\ n(i).content = row[i].content
    BY ClearedRow, Zenon DEF DbInv, DbTyped
  <2>2. row' = [i \in Ids |-> n(i)] /\ vec' = [i \in Ids |-> NoVector] /\ profile' = pr
    BY Zenon DEF Reindex
  <2> HIDE DEF n
  <2>3. Abstract!Rebuild(pr)
    BY <2>1, <2>2, Zenon DEF Abstract!Rebuild
  <2> QED BY <2>3, Zenon DEF Sim, Abstract!Next

(* Startup adopts a space only over an empty index.                        *)
<1>StartIndex.
    ASSUME NEW p \in Procs, NEW pr \in Profiles \cup {NoProfile}, Start(p, pr) PROVE Sim
  <2> USE <1>StartIndex
  <2>1. row' = row /\ vec' = vec
    BY Zenon DEF Start
  <2>2. \/ profile' = profile
        \/ pr \in Profiles /\ profile = NoProfile /\ (\A i \in Ids : vec[i] = NoVector) /\ profile' = pr
    BY Zenon DEF Start
  <2>3. CASE profile' = profile
    BY <2>1, <2>3, <1>IndexSame, Zenon
  <2>4. CASE pr \in Profiles /\ profile = NoProfile /\ (\A i \in Ids : vec[i] = NoVector) /\ profile' = pr
    <3>1. Abstract!Adopt(pr)
      BY <2>1, <2>4, Zenon DEF Abstract!Adopt
    <3> QED BY <2>4, <3>1, Zenon DEF Sim, Abstract!Next
  <2> QED BY <2>2, <2>3, <2>4, Zenon

(* Steps of one batch.                                                     *)
<1>BatchIndex.
    ASSUME IInv, NEW b \in Batches, OpStep(b) \/ RunStep(b) PROVE Sim
  <2> USE <1>BatchIndex
  <2> DEFINE pr == proc[Host(b)].profile
  <2>0. DbInv
    BY Zenon DEF IInv
  <2>1. ASSUME NEW w \in batch[b].todo, ApplyStored(b, w) \/ ApplyErrors(b, w) PROVE Sim
    <3>1. w \in Work /\ Faithful(w) /\ pr \in Profiles
      BY <2>1, BatchAt, BatchFields, ZenonT(30) DEF ApplyStored, ApplyErrors, Sound, WorkOf, ProcRecords
    <3>2. UNCHANGED db \/ (Writable(w, pr) /\ SetEmbedding(w, pr))
      BY <2>1, Zenon DEF ApplyStored, ApplyErrors, CallFails
    <3> QED BY <2>0, <3>1, <3>2, <1>SetEmbeddingIndexes, <1>StoreAloneIndex, Zenon
  <2>2. ASSUME NEW w \in batch[b].undo, Release(b, w) \/ ReleaseErrors(b, w) PROVE Sim
    <3>1. w.id \in Ids
      BY BatchAt, BatchFields, Zenon DEF Work
    <3>2. UNCHANGED db \/ ReleaseClaim(w.id, w.rev, batch[b].token)
      BY <2>2, Zenon DEF Release, ReleaseErrors, CallFails
    <3> QED BY <2>0, <3>1, <3>2, <1>ReleaseClaimIndex, <1>StoreAloneIndex, Zenon
  <2>3. CASE OpStep(b)
    <3>1. ASSUME \/ Admit(b) \/ OpReturns(b) \/ LastDropped(b) \/ NothingToSpawn(b) \/ SpawnRefused(b) \/ RunInline(b)
                 \/ \E S \in SUBSET batch[b].rest : TakeChunk(b, S)
                 \/ \E w \in batch[b].todo : Prepare(b, w) \/ ReleaseRejected(b, w)
                 \/ \E t \in Batches : Spawn(b, t)
          PROVE  UNCHANGED db
      BY <3>1, ZenonT(30) DEF Admit, OpReturns, LastDropped, NothingToSpawn, SpawnRefused, RunInline, TakeChunk, Prepare,
                  ReleaseRejected, Spawn
    <3> QED BY <2>0, <2>3, <3>1, <1>WritesIndex, <1>UpdateIndex, <1>ClaimIndex, <1>StoreAloneIndex, ZenonT(30) DEF OpStep
  <2>4. CASE RunStep(b)
    <3>1. ASSUME \/ \E ok \in SUBSET batch[b].held : ExecuteChunk(b, ok)
                 \/ \E w \in batch[b].todo : ApplyRefused(b, w)
                 \/ BatchEnds(b)
          PROVE  UNCHANGED db
      BY <3>1, ZenonT(30) DEF ExecuteChunk, ApplyRefused, BatchEnds
    <3> QED BY <2>1, <2>2, <2>4, <3>1, <1>StoreAloneIndex, ZenonT(30) DEF RunStep
  <2> QED BY <2>3, <2>4, Zenon

(* Steps of one process.                                                   *)
<1>ProcIndex.
    ASSUME IInv, NEW p \in Procs, ProcStep(p) PROVE Sim
  <2> USE <1>ProcIndex
  <2>1. ASSUME NEW c \in proc[p].snapshot, NEW s \in BOOLEAN, CleanupCall(p, c, s) PROVE Sim
    <3>1. c \in Claims
      BY Zenon DEF IInv, ProcRecords
    <3>2. c.id \in Ids
      BY <3>1, Zenon DEF Claims
    <3>3. UNCHANGED db \/ ReleaseClaim(c.id, c.rev, c.token)
      BY <2>1, Zenon DEF CleanupCall, CallFails
    <3> QED BY <3>2, <3>3, <1>ReleaseClaimIndex, <1>StoreAloneIndex, Zenon DEF IInv
  <2>2. ASSUME \/ BeginShutdown(p) \/ AdmissionsDrain(p) \/ AdmissionsTimeOut(p) \/ RequestReset(p)
               \/ TakeTasks(p) \/ CleanupBegins(p) \/ ShutdownReopens(p) \/ ShutdownReturns(p) \/ Exit(p) \/ Crash(p)
        PROVE  UNCHANGED db
    BY <2>2, Zenon DEF BeginShutdown, AdmissionsDrain, AdmissionsTimeOut, RequestReset, TakeTasks, CleanupBegins,
                       ShutdownReopens, ShutdownReturns, Exit, Crash
  <2> QED BY <2>1, <2>2, <1>StartIndex, <1>StoreAloneIndex, Zenon DEF ProcStep

(* A call that outlived its task.                                          *)
<1>DetachedIndex.
    ASSUME IInv, NEW d \in detached, DetachedRuns(d) PROVE Sim
  <2> USE <1>DetachedIndex
  <2>1. d \in Calls /\ Faithful(d.work) /\ (d.set => d.profile \in Profiles) /\ DbInv
    BY Zenon DEF IInv, CallsSound
  <2>2. d.work \in Work /\ d.work.id \in Ids
    BY <2>1, Zenon DEF Calls, Work
  <2>3. CASE ~d.set
    BY <2>1, <2>2, <2>3, <1>ReleaseClaimIndex, Zenon DEF DetachedRuns
  <2>4. CASE d.set /\ Writable(d.work, d.profile)
    BY <2>1, <2>2, <2>4, <1>SetEmbeddingIndexes, Zenon DEF DetachedRuns
  <2>5. CASE d.set /\ ~Writable(d.work, d.profile)
    BY <2>5, <1>StoreAloneIndex, Zenon DEF DetachedRuns
  <2> QED BY <2>3, <2>4, <2>5, Zenon

<1> SUFFICES ASSUME IInv, [BulkNext]_vars PROVE Sim
  BY Zenon DEF Sim
<1>1. CASE StoreStep
  BY <1>1, <1>DeleteIndex, <1>ClaimIndex, <1>ReindexIndex, <1>DetachedIndex, Zenon DEF StoreStep, IInv
<1>2. CASE UNCHANGED vars
  BY <1>2, <1>StoreAloneIndex, Zenon DEF vars, db
<1> QED BY <1>1, <1>2, <1>BatchIndex, <1>ProcIndex, Zenon DEF BulkNext

(* The empty store is an empty index.                                      *)
LEMMA InitSim == Init => Abstract!Init
<1> SUFFICES ASSUME Init PROVE Abstract!Init
  BY Zenon
<1>1. \A i \in Ids : row[i].status # "live"
  BY Zenon DEF Init
<1> QED BY <1>1, Zenon DEF Init, Abstract!Init

(* Store, claims, tasks, shutdown, crashes and reindexing together implement *)
(* the abstract index: a memory is only ever indexed by its present text.   *)
THEOREM PipelineImplementsIndex == BulkSpec => ImplementsIndex
<1> QED BY InitIInv, StepIInv, InitSim, StepSim, PTL DEF BulkSpec, ImplementsIndex, Abstract!Spec

-----------------------------------------------------------------------------
(***************************************************************************)
(* The in-process guards and the durable claims: the guard sets are        *)
(* exactly what the batches hold, and a claim is always carried by a batch *)
(* that will write or release it.                                          *)
(***************************************************************************)

(***************************************************************************)
(* What each step makes of the record of its batch.                        *)
(***************************************************************************)
Alone(b) == \A c \in Batches : c # b => batch'[c] = batch[c]

(* Batch b moves to these field values (ok aside), the others stay.        *)
Turns(b, pc, by, token, rest, todo, held, undo) ==
    /\ Alone(b)
    /\ batch'[b].pc = pc /\ batch'[b].by = by /\ batch'[b].token = token
    /\ batch'[b].rest = rest /\ batch'[b].todo = todo
    /\ batch'[b].held = held /\ batch'[b].undo = undo

(* The fields of a changed record.                                         *)
LEMMA TurnsTo ==
    ASSUME IInv, NEW b \in Batches, NEW r, Become(b, r)
    PROVE  Turns(b, r.pc, r.by, r.token, r.rest, r.todo, r.held, r.undo)
BY Zenon DEF IInv, BatchesSound, Become, Turns, Alone

(* Admission and the end of an operation.                                  *)
LEMMA AdmissionTurns ==
    ASSUME IInv, NEW b \in Batches
    PROVE  /\ Admit(b) => Turns(b, "admitted", "op", 0, {}, {}, {}, {})
           /\ OpReturns(b) \/ LastDropped(b) => \E pc \in {"idle", "leaving"} : Turns(b, pc, "op", 0, {}, {}, {}, {})
<1> DEFINE a == [Idle EXCEPT !.pc = "admitted"]
           l == [Idle EXCEPT !.pc = "leaving"]
<1>0. l = [pc |-> "leaving", by |-> "op", token |-> 0, rest |-> {}, todo |-> {},
           held |-> {}, ok |-> {}, undo |-> {}]
  BY DEF Idle
<1>1. a = [pc |-> "admitted", by |-> "op", token |-> 0, rest |-> {}, todo |-> {},
           held |-> {}, ok |-> {}, undo |-> {}]
  BY DEF Idle
<1>2. Admit(b) => Become(b, a)
  BY Zenon DEF Admit
<1>5. OpReturns(b) \/ LastDropped(b) => Become(b, Idle) \/ Become(b, l)
  BY Zenon DEF OpReturns, LastDropped
<1> HIDE DEF a, l
<1>3. Admit(b) => Turns(b, "admitted", "op", 0, {}, {}, {}, {})
  BY <1>1, <1>2, TurnsTo
<1>4. Become(b, Idle) => Turns(b, "idle", "op", 0, {}, {}, {}, {})
  BY TurnsTo DEF Idle
<1>6. Become(b, l) => Turns(b, "leaving", "op", 0, {}, {}, {}, {})
  BY <1>0, TurnsTo
<1> QED BY <1>3, <1>4, <1>5, <1>6, Zenon

(* Writes and claims hand work to the operation.                           *)
LEMMA WriteTurns ==
    ASSUME IInv, NEW b \in Batches, NEW S \in SUBSET Ids
    PROVE  LET o == batch[b] IN
           /\ \A f \in [S -> Contents] : Store(b, S, f) =>
                Turns(b, "schedule", o.by, o.token, NewWork(S, f, [i \in S |-> 0]), o.todo, o.held, o.undo)
           /\ \A i \in Ids, c \in Contents : Update(b, i, c) =>
                Turns(b, "schedule", o.by, o.token, {[id |-> i, content |-> c, rev |-> row[i].rev + 1]},
                      o.todo, o.held, o.undo)
           /\ Claim(b, S) =>
                Turns(b, "schedule", o.by, nextToken,
                      NewWork(S, [i \in S |-> row[i].content], [i \in S |-> row[i].rev]),
                      o.todo, o.held, o.undo)
<1> DEFINE o == batch[b]
           n(W) == [o EXCEPT !.pc = "schedule", !.rest = W]
           m(W) == [o EXCEPT !.pc = "schedule", !.token = nextToken, !.rest = W]
<1>1. o \in BatchRecords
  BY BatchAt, Zenon
<1>2. \A W : /\ n(W).pc = "schedule" /\ n(W).by = o.by /\ n(W).token = o.token /\ n(W).rest = W
             /\ n(W).todo = o.todo /\ n(W).held = o.held /\ n(W).undo = o.undo
  <2> HIDE DEF o
  <2> QED BY <1>1, Zenon DEF BatchRecords
<1>3. \A W : /\ m(W).pc = "schedule" /\ m(W).by = o.by /\ m(W).token = nextToken /\ m(W).rest = W
             /\ m(W).todo = o.todo /\ m(W).held = o.held /\ m(W).undo = o.undo
  <2> HIDE DEF o
  <2> QED BY <1>1, Zenon DEF BatchRecords
<1>4. \A W : Become(b, n(W)) => Turns(b, "schedule", o.by, o.token, W, o.todo, o.held, o.undo)
  <2> SUFFICES ASSUME NEW W, Become(b, n(W))
               PROVE  Turns(b, "schedule", o.by, o.token, W, o.todo, o.held, o.undo)
    BY Zenon
  <2> HIDE DEF n, o
  <2> QED BY <1>2, TurnsTo
<1>5. \A W : Become(b, m(W)) => Turns(b, "schedule", o.by, nextToken, W, o.todo, o.held, o.undo)
  <2> SUFFICES ASSUME NEW W, Become(b, m(W))
               PROVE  Turns(b, "schedule", o.by, nextToken, W, o.todo, o.held, o.undo)
    BY Zenon
  <2> HIDE DEF m, o
  <2> QED BY <1>3, TurnsTo
<1>6. ASSUME NEW f \in [S -> Contents], Store(b, S, f)
      PROVE  Turns(b, "schedule", o.by, o.token, NewWork(S, f, [i \in S |-> 0]), o.todo, o.held, o.undo)
  BY <1>4, <1>6, Zenon DEF Store
<1>7. ASSUME NEW i \in Ids, NEW c \in Contents, Update(b, i, c)
      PROVE  Turns(b, "schedule", o.by, o.token, {[id |-> i, content |-> c, rev |-> row[i].rev + 1]},
                   o.todo, o.held, o.undo)
  BY <1>4, <1>7, Zenon DEF Update
<1>8. ASSUME Claim(b, S)
      PROVE  Turns(b, "schedule", o.by, nextToken,
                   NewWork(S, [i \in S |-> row[i].content], [i \in S |-> row[i].rev]), o.todo, o.held, o.undo)
  BY <1>5, <1>8, Zenon DEF Claim
<1> QED BY <1>6, <1>7, <1>8, Zenon

(* The fields of a record after each kind of change a step makes to it.    *)
LEMMA ChangedFields ==
    ASSUME NEW o \in BatchRecords, NEW pc, NEW R, NEW T, NEW H, NEW U
    PROVE  LET Fields(n, npc, rest, todo, held, undo) ==
                 /\ n.pc = npc /\ n.by = o.by /\ n.token = o.token /\ n.rest = rest
                 /\ n.todo = todo /\ n.held = held /\ n.undo = undo
           IN  /\ Fields([o EXCEPT !.pc = pc], pc, o.rest, o.todo, o.held, o.undo)
               /\ Fields([o EXCEPT !.pc = pc, !.todo = T, !.rest = R], pc, R, T, o.held, o.undo)
               /\ Fields([o EXCEPT !.pc = pc, !.todo = T, !.held = H], pc, o.rest, T, H, o.undo)
               /\ Fields([o EXCEPT !.pc = pc, !.todo = T, !.ok = R], pc, o.rest, T, o.held, o.undo)
               /\ Fields([o EXCEPT !.pc = pc, !.ok = R], pc, o.rest, o.todo, o.held, o.undo)
               /\ Fields([o EXCEPT !.todo = T, !.undo = U], o.pc, o.rest, T, o.held, U)
               /\ Fields([o EXCEPT !.todo = T, !.held = H], o.pc, o.rest, T, H, o.undo)
               /\ Fields([o EXCEPT !.todo = T, !.held = H, !.undo = U], o.pc, o.rest, T, H, U)
               /\ Fields([o EXCEPT !.undo = U], o.pc, o.rest, o.todo, o.held, U)
BY Zenon DEF BatchRecords

(* Scheduling.                                                             *)
LEMMA ScheduleTurns ==
    ASSUME IInv, NEW b \in Batches
    PROVE  LET o == batch[b] IN
           /\ \A S : TakeChunk(b, S) => Turns(b, "prepare", o.by, o.token, o.rest \ S, S, o.held, o.undo)
           /\ \A w : Prepare(b, w) /\ Key(w) \in inflight[Host(b)] =>
                Turns(b, o.pc, o.by, o.token, o.rest, o.todo \ {w}, o.held, IF o.token = 0 THEN {} ELSE {w})
           /\ \A w : Prepare(b, w) /\ Key(w) \notin inflight[Host(b)] =>
                Turns(b, o.pc, o.by, o.token, o.rest, o.todo \ {w}, o.held \cup {w}, o.undo)
           /\ NothingToSpawn(b) => Turns(b, "schedule", o.by, o.token, o.rest, o.todo, o.held, o.undo)
           /\ SpawnRefused(b) =>
                Turns(b, IF o.token = 0 THEN "reprepare" ELSE "reject", o.by, o.token, o.rest, o.held, {}, o.undo)
           /\ RunInline(b) => Turns(b, "embed", o.by, o.token, o.rest, o.todo, o.held, o.undo)
           /\ \A w : ReleaseRejected(b, w) =>
                Turns(b, o.pc, o.by, o.token, o.rest, o.todo \ {w}, o.held, {w})
<1> DEFINE o == batch[b]
<1>0. o \in BatchRecords
  BY BatchAt, Zenon
<1>1. ASSUME NEW S, TakeChunk(b, S)
      PROVE  Turns(b, "prepare", o.by, o.token, o.rest \ S, S, o.held, o.undo)
  <2> DEFINE n == [o EXCEPT !.pc = "prepare", !.todo = S, !.rest = o.rest \ S]
  <2>1. Become(b, n)
    BY <1>1, Zenon DEF TakeChunk
  <2>2. /\ n.pc = "prepare" /\ n.by = o.by /\ n.token = o.token /\ n.rest = o.rest \ S
        /\ n.todo = S /\ n.held = o.held /\ n.undo = o.undo
    BY <1>0, ChangedFields
  <2> HIDE DEF n, o
  <2> QED BY <2>1, <2>2, TurnsTo, Zenon
<1>2. ASSUME NEW w, Prepare(b, w), Key(w) \in inflight[Host(b)]
      PROVE  Turns(b, o.pc, o.by, o.token, o.rest, o.todo \ {w}, o.held, IF o.token = 0 THEN {} ELSE {w})
  <2> DEFINE U == IF o.token = 0 THEN {} ELSE {w}
             n == [o EXCEPT !.todo = o.todo \ {w}, !.undo = U]
  <2>1. Become(b, n)
    BY <1>2, Zenon DEF Prepare
  <2>2. /\ n.pc = o.pc /\ n.by = o.by /\ n.token = o.token /\ n.rest = o.rest
        /\ n.todo = o.todo \ {w} /\ n.held = o.held /\ n.undo = U
    <3> HIDE DEF U
    <3> QED BY <1>0, ChangedFields
  <2> HIDE DEF n, o, U
  <2>3. Turns(b, o.pc, o.by, o.token, o.rest, o.todo \ {w}, o.held, U)
    BY <2>1, <2>2, TurnsTo, Zenon
  <2> QED BY <2>3, Zenon DEF U
<1>3. ASSUME NEW w, Prepare(b, w), Key(w) \notin inflight[Host(b)]
      PROVE  Turns(b, o.pc, o.by, o.token, o.rest, o.todo \ {w}, o.held \cup {w}, o.undo)
  <2> DEFINE n == [o EXCEPT !.todo = o.todo \ {w}, !.held = o.held \cup {w}]
  <2>1. Become(b, n)
    BY <1>3, Zenon DEF Prepare
  <2>2. /\ n.pc = o.pc /\ n.by = o.by /\ n.token = o.token /\ n.rest = o.rest
        /\ n.todo = o.todo \ {w} /\ n.held = o.held \cup {w} /\ n.undo = o.undo
    BY <1>0, ChangedFields
  <2> HIDE DEF n, o
  <2> QED BY <2>1, <2>2, TurnsTo, Zenon
<1>4. ASSUME NEW pc, Become(b, [o EXCEPT !.pc = pc])
      PROVE  Turns(b, pc, o.by, o.token, o.rest, o.todo, o.held, o.undo)
  <2> DEFINE n == [o EXCEPT !.pc = pc]
  <2>1. /\ n.pc = pc /\ n.by = o.by /\ n.token = o.token /\ n.rest = o.rest
        /\ n.todo = o.todo /\ n.held = o.held /\ n.undo = o.undo
    BY <1>0, ChangedFields
  <2>2. Become(b, n)
    BY <1>4, Zenon
  <2> HIDE DEF n, o
  <2> QED BY <2>1, <2>2, TurnsTo, Zenon
<1>5. ASSUME SpawnRefused(b)
      PROVE  Turns(b, IF o.token = 0 THEN "reprepare" ELSE "reject", o.by, o.token, o.rest, o.held, {}, o.undo)
  <2> DEFINE pc == IF o.token = 0 THEN "reprepare" ELSE "reject"
             n == [o EXCEPT !.pc = pc, !.todo = o.held, !.held = {}]
  <2>1. Become(b, n)
    BY <1>5, Zenon DEF SpawnRefused
  <2>2. /\ n.pc = pc /\ n.by = o.by /\ n.token = o.token /\ n.rest = o.rest
        /\ n.todo = o.held /\ n.held = {} /\ n.undo = o.undo
    <3> HIDE DEF pc
    <3> QED BY <1>0, ChangedFields
  <2> HIDE DEF n, o, pc
  <2>3. Turns(b, pc, o.by, o.token, o.rest, o.held, {}, o.undo)
    BY <2>1, <2>2, TurnsTo, Zenon
  <2> QED BY <2>3, Zenon DEF pc
<1>6. ASSUME NEW w, ReleaseRejected(b, w)
      PROVE  Turns(b, o.pc, o.by, o.token, o.rest, o.todo \ {w}, o.held, {w})
  <2> DEFINE n == [o EXCEPT !.todo = o.todo \ {w}, !.undo = {w}]
  <2>1. Become(b, n)
    BY <1>6, Zenon DEF ReleaseRejected
  <2>2. /\ n.pc = o.pc /\ n.by = o.by /\ n.token = o.token /\ n.rest = o.rest
        /\ n.todo = o.todo \ {w} /\ n.held = o.held /\ n.undo = {w}
    BY <1>0, ChangedFields
  <2> HIDE DEF n, o
  <2> QED BY <2>1, <2>2, TurnsTo, Zenon
<1>7. NothingToSpawn(b) => Turns(b, "schedule", o.by, o.token, o.rest, o.todo, o.held, o.undo)
  BY <1>4, Zenon DEF NothingToSpawn
<1>8. RunInline(b) => Turns(b, "embed", o.by, o.token, o.rest, o.todo, o.held, o.undo)
  BY <1>4, Zenon DEF RunInline
<1> QED BY <1>1, <1>2, <1>3, <1>5, <1>6, <1>7, <1>8, Zenon

(* Running a batch.                                                        *)
LEMMA RunTurns ==
    ASSUME IInv, NEW b \in Batches
    PROVE  LET o == batch[b] IN
           /\ \A ok : ExecuteChunk(b, ok) => Turns(b, "apply", o.by, o.token, o.rest, o.held, o.held, o.undo)
           /\ \A w : Finish(b, w) => Turns(b, o.pc, o.by, o.token, o.rest, o.todo \ {w}, o.held \ {w}, {})
           /\ \A w : GiveUp(b, w) /\ o.token # 0 =>
                Turns(b, o.pc, o.by, o.token, o.rest, o.todo, o.held, {w})
           /\ \A w : Released(b, w) /\ o.pc # "apply" =>
                Turns(b, o.pc, o.by, o.token, o.rest, o.todo, o.held, {})
           /\ BatchEnds(b) /\ o.by = "op" =>
                Turns(b, "schedule", o.by, o.token, o.rest, o.todo, o.held, o.undo)
           /\ BatchEnds(b) /\ o.by # "op" => Turns(b, "idle", "op", 0, {}, {}, {}, {})
<1> DEFINE o == batch[b]
<1>0. o \in BatchRecords
  BY BatchAt, Zenon
<1>1. ASSUME NEW ok, ExecuteChunk(b, ok)
      PROVE  Turns(b, "apply", o.by, o.token, o.rest, o.held, o.held, o.undo)
  <2> DEFINE n == [o EXCEPT !.pc = "apply", !.todo = o.held, !.ok = ok]
  <2>1. Become(b, n)
    BY <1>1, Zenon DEF ExecuteChunk
  <2>2. /\ n.pc = "apply" /\ n.by = o.by /\ n.token = o.token /\ n.rest = o.rest
        /\ n.todo = o.held /\ n.held = o.held /\ n.undo = o.undo
    BY <1>0, ChangedFields
  <2> HIDE DEF n, o
  <2> QED BY <2>1, <2>2, TurnsTo, Zenon
<1>2. ASSUME NEW w, Finish(b, w)
      PROVE  Turns(b, o.pc, o.by, o.token, o.rest, o.todo \ {w}, o.held \ {w}, {})
  <2> DEFINE n == [o EXCEPT !.todo = o.todo \ {w}, !.held = o.held \ {w}, !.undo = {}]
  <2>1. Become(b, n)
    BY <1>2, Zenon DEF Finish
  <2>2. /\ n.pc = o.pc /\ n.by = o.by /\ n.token = o.token /\ n.rest = o.rest
        /\ n.todo = o.todo \ {w} /\ n.held = o.held \ {w} /\ n.undo = {}
    BY <1>0, ChangedFields
  <2> HIDE DEF n, o
  <2> QED BY <2>1, <2>2, TurnsTo, Zenon
<1>3. ASSUME NEW U, Become(b, [o EXCEPT !.undo = U])
      PROVE  Turns(b, o.pc, o.by, o.token, o.rest, o.todo, o.held, U)
  <2> DEFINE n == [o EXCEPT !.undo = U]
  <2>1. /\ n.pc = o.pc /\ n.by = o.by /\ n.token = o.token /\ n.rest = o.rest
        /\ n.todo = o.todo /\ n.held = o.held /\ n.undo = U
    BY <1>0, ChangedFields
  <2>2. Become(b, n)
    BY <1>3, Zenon
  <2> HIDE DEF n, o
  <2> QED BY <2>1, <2>2, TurnsTo, Zenon
<1>4. ASSUME BatchEnds(b), o.by = "op"
      PROVE  Turns(b, "schedule", o.by, o.token, o.rest, o.todo, o.held, o.undo)
  <2> DEFINE n == [o EXCEPT !.pc = "schedule", !.ok = {}]
  <2>1. Become(b, n)
    BY <1>4, Zenon DEF BatchEnds
  <2>2. /\ n.pc = "schedule" /\ n.by = o.by /\ n.token = o.token /\ n.rest = o.rest
        /\ n.todo = o.todo /\ n.held = o.held /\ n.undo = o.undo
    BY <1>0, ChangedFields
  <2> HIDE DEF n, o
  <2> QED BY <2>1, <2>2, TurnsTo, Zenon
<1>5. ASSUME BatchEnds(b), o.by # "op" PROVE Turns(b, "idle", "op", 0, {}, {}, {}, {})
  BY <1>5, TurnsTo DEF BatchEnds, Idle
<1>6. ASSUME NEW w, GiveUp(b, w), o.token # 0
      PROVE  Turns(b, o.pc, o.by, o.token, o.rest, o.todo, o.held, {w})
  BY <1>3, <1>6, Zenon DEF GiveUp
<1>7. ASSUME NEW w, Released(b, w), o.pc # "apply"
      PROVE  Turns(b, o.pc, o.by, o.token, o.rest, o.todo, o.held, {})
  BY <1>3, <1>7, Zenon DEF Released
<1> QED BY <1>1, <1>2, <1>4, <1>5, <1>6, <1>7, Zenon

(* The chunk of b moves to the task t.                                     *)
LEMMA SpawnTurns ==
    ASSUME IInv, NEW b \in Batches, NEW t \in Batches, Spawn(b, t)
    PROVE  LET o == batch[b] IN
           /\ t # b /\ \A c \in Batches \ {b, t} : batch'[c] = batch[c]
           /\ batch'[b].pc = "schedule" /\ batch'[b].by = o.by /\ batch'[b].token = o.token
           /\ batch'[b].rest = o.rest /\ batch'[b].todo = o.todo /\ batch'[b].held = {}
           /\ batch'[b].undo = o.undo
           /\ batch'[t].pc = "embed" /\ batch'[t].by = "task" /\ batch'[t].token = o.token
           /\ batch'[t].rest = {} /\ batch'[t].todo = {} /\ batch'[t].held = o.held
           /\ batch'[t].undo = {}
<1> DEFINE o == batch[b]
           m == [Idle EXCEPT !.pc = "embed", !.by = "task", !.token = o.token, !.held = o.held]
           n == [o EXCEPT !.pc = "schedule", !.held = {}]
<1>1. o \in BatchRecords /\ batch \in [Batches -> BatchRecords]
  BY BatchAt, Zenon DEF IInv, BatchesSound
<1>2. t # b /\ batch' = [batch EXCEPT ![t] = m, ![b] = n]
  BY Zenon DEF Spawn
<1> HIDE DEF o
<1>3. /\ m.pc = "embed" /\ m.by = "task" /\ m.token = o.token /\ m.rest = {} /\ m.todo = {}
      /\ m.held = o.held /\ m.undo = {}
  BY Zenon DEF Idle
<1>4. /\ n.pc = "schedule" /\ n.by = o.by /\ n.token = o.token /\ n.rest = o.rest /\ n.todo = o.todo
      /\ n.held = {} /\ n.undo = o.undo
  BY <1>1, Zenon DEF BatchRecords
<1> HIDE DEF m, n
<1>5. batch'[t] = m /\ batch'[b] = n /\ \A c \in Batches \ {b, t} : batch'[c] = batch[c]
  BY <1>1, <1>2, Zenon
<1> QED BY <1>2, <1>3, <1>4, <1>5, Zenon DEF o

(* A shutdown takes the join set: only the owner of a task changes.        *)
LEMMA TakeTurns ==
    ASSUME IInv, NEW p \in Procs, TakeTasks(p), NEW c \in Batches
    PROVE  LET o == batch[c] IN
           /\ batch'[c].by = IF Host(c) = p /\ o.by = "task" THEN "taken" ELSE o.by
           /\ batch'[c].pc = o.pc /\ batch'[c].token = o.token /\ batch'[c].rest = o.rest
           /\ batch'[c].todo = o.todo /\ batch'[c].held = o.held /\ batch'[c].undo = o.undo
<1> DEFINE o == batch[c]
           n == [o EXCEPT !.by = "taken"]
<1>1. o \in BatchRecords
  BY BatchAt, Zenon
<1>2. batch'[c] = IF Host(c) = p /\ o.by = "task" THEN n ELSE o
  BY Zenon DEF TakeTasks
<1>3. /\ n.by = "taken" /\ n.pc = o.pc /\ n.token = o.token /\ n.rest = o.rest
      /\ n.todo = o.todo /\ n.held = o.held /\ n.undo = o.undo
  <2> HIDE DEF o
  <2> QED BY <1>1, Zenon DEF BatchRecords
<1> HIDE DEF n, o
<1> QED BY <1>2, <1>3, Zenon DEF o

(* Dropped batches are idle, the others stay.                              *)
LEMMA DropTurns ==
    ASSUME IInv, NEW p \in Procs, NEW B \in SUBSET Batches, DropBatches(p, B)
    PROVE  /\ \A c \in B : batch'[c] = Idle
           /\ \A c \in Batches \ B : batch'[c] = batch[c]
BY Zenon DEF DropBatches

(***************************************************************************)
(* The shape of a batch at each point of its run.                          *)
(***************************************************************************)
Shape(r) ==
    /\ r.pc \in {"idle", "admitted", "leaving"} => r.rest = {} /\ r.token = 0
    /\ r.pc \in {"idle", "admitted", "schedule", "leaving"} => r.todo = {} /\ r.held = {} /\ r.undo = {}
    /\ r.pc = "reject" => r.held = {} /\ r.token # 0
    /\ r.pc = "reprepare" => r.token = 0
    /\ r.pc = "embed" => r.todo = {} /\ r.undo = {}
    /\ r.pc = "apply" => r.todo = r.held /\ r.undo \subseteq r.held
    /\ r.by # "op" => r.pc \in {"embed", "apply"} /\ r.rest = {}
    /\ r.by = "op" /\ r.pc \in {"embed", "apply"} => r.token = 0
    /\ r.token = 0 => r.undo = {}
    /\ \A v, w \in r.undo : v = w

Shapes == \A b \in Batches : Shape(batch[b])

(* So does every step.                                                     *)
LEMMA StepShapes == IInv /\ Shapes /\ [BulkNext]_vars => Shapes'
(* Every batch but b keeps its record, and b gets a record in shape.        *)
<1>ShapesFollow.
    ASSUME Shapes, NEW b \in Batches, Alone(b), Shape(batch'[b]) PROVE Shapes'
  <2> USE <1>ShapesFollow
  <2> SUFFICES ASSUME NEW c \in Batches PROVE Shape(batch'[c])
    BY Zenon DEF Shapes, Shape
  <2> QED BY Zenon DEF Shapes, Alone

(* The steps of an operation keep the shapes.                              *)
<1>OpShapes.
    ASSUME IInv, Shapes, NEW b \in Batches, OpStep(b) PROVE Shapes'
  <2> USE <1>OpShapes
  <2> DEFINE o == batch[b]
  <2>0. Shape(o)
    BY Zenon DEF Shapes
  <2>1. CASE Admit(b) \/ OpReturns(b) \/ LastDropped(b)
    BY <2>1, AdmissionTurns, <1>ShapesFollow, Zenon DEF Turns, Shape
  <2>2. ASSUME NEW S \in SUBSET Ids, (\E f \in [S -> Contents] : Store(b, S, f)) \/ Claim(b, S) PROVE Shapes'
    <3>1. PICK t, W : Turns(b, "schedule", o.by, t, W, o.todo, o.held, o.undo)
      BY <2>2, WriteTurns, Zenon
    <3>2. o.pc = "admitted"
      BY <2>2, Zenon DEF Store, Claim
    <3> QED BY <2>0, <3>1, <3>2, <1>ShapesFollow, Zenon DEF Turns, Shape
  <2>3. ASSUME NEW i \in Ids, NEW c \in Contents, Update(b, i, c) PROVE Shapes'
    <3>1. PICK W : Turns(b, "schedule", o.by, o.token, W, o.todo, o.held, o.undo)
      BY <2>3, WriteTurns, {} \in SUBSET Ids, Zenon
    <3>2. o.pc = "admitted"
      BY <2>3, Zenon DEF Update
    <3> QED BY <2>0, <3>1, <3>2, <1>ShapesFollow, Zenon DEF Turns, Shape
  <2>4. ASSUME NEW S, TakeChunk(b, S) PROVE Shapes'
    <3>1. o.pc = "schedule" /\ Turns(b, "prepare", o.by, o.token, o.rest \ S, S, o.held, o.undo)
      BY <2>4, ScheduleTurns, Zenon DEF TakeChunk
    <3> QED BY <2>0, <3>1, <1>ShapesFollow, Zenon DEF Turns, Shape
  <2>5. ASSUME NEW w, Prepare(b, w) PROVE Shapes'
    <3>1. o.pc \in {"prepare", "reprepare"} /\ o.undo = {}
      BY <2>5, Zenon DEF Prepare
    <3>2. PICK H, U : /\ Turns(b, o.pc, o.by, o.token, o.rest, o.todo \ {w}, H, U)
                      /\ U = {} \/ (U = {w} /\ o.token # 0)
      BY <2>5, <3>1, ScheduleTurns, Zenon
    <3> QED BY <2>0, <3>1, <3>2, <1>ShapesFollow, Zenon DEF Turns, Shape
  <2>6. ASSUME NothingToSpawn(b) PROVE Shapes'
    <3>1. /\ Turns(b, "schedule", o.by, o.token, o.rest, o.todo, o.held, o.undo)
          /\ o.pc \in {"prepare", "reprepare"} /\ o.todo = {} /\ o.undo = {} /\ o.held = {}
      BY <2>6, ScheduleTurns, Zenon DEF NothingToSpawn, Prepared
    <3> QED BY <2>0, <3>1, <1>ShapesFollow, Zenon DEF Turns, Shape
  <2>7. ASSUME SpawnRefused(b) PROVE Shapes'
    <3>1. /\ Turns(b, IF o.token = 0 THEN "reprepare" ELSE "reject", o.by, o.token, o.rest, o.held, {}, o.undo)
          /\ o.pc = "prepare" /\ o.undo = {}
      BY <2>7, ScheduleTurns, Zenon DEF SpawnRefused, Prepared
    <3> QED BY <2>0, <3>1, <1>ShapesFollow, Zenon DEF Turns, Shape
  <2>8. ASSUME RunInline(b) PROVE Shapes'
    <3>1. /\ Turns(b, "embed", o.by, o.token, o.rest, o.todo, o.held, o.undo)
          /\ o.pc = "reprepare" /\ o.todo = {} /\ o.undo = {}
      BY <2>8, ScheduleTurns, Zenon DEF RunInline, Prepared
    <3> QED BY <2>0, <3>1, <1>ShapesFollow, Zenon DEF Turns, Shape
  <2>9. ASSUME NEW w, ReleaseRejected(b, w) PROVE Shapes'
    <3>1. o.pc = "reject" /\ Turns(b, o.pc, o.by, o.token, o.rest, o.todo \ {w}, o.held, {w})
      BY <2>9, ScheduleTurns, Zenon DEF ReleaseRejected
    <3> QED BY <2>0, <3>1, <1>ShapesFollow, Zenon DEF Turns, Shape
  <2>10. ASSUME NEW t \in Batches, Spawn(b, t) PROVE Shapes'
    <3>1. o.pc = "prepare" /\ o.todo = {} /\ o.undo = {}
      BY <2>10, Zenon DEF Spawn, Prepared
    <3>2. Shape(batch'[b]) /\ Shape(batch'[t]) /\ \A c \in Batches \ {b, t} : batch'[c] = batch[c]
      BY <2>0, <2>10, <3>1, SpawnTurns, Zenon DEF Shape
    <3>3. \A c \in Batches : Shape(batch'[c])
      BY <3>2, Zenon DEF Shapes
    <3> QED BY <3>3, Zenon DEF Shapes, Shape
  <2> QED BY <2>1, <2>2, <2>3, <2>4, <2>5, <2>6, <2>7, <2>8, <2>9, <2>10, Zenon DEF OpStep

(* The steps of a run keep the shapes.                                     *)
<1>RunShapes.
    ASSUME IInv, Shapes, NEW b \in Batches, RunStep(b) PROVE Shapes'
  <2> USE <1>RunShapes
  <2> DEFINE o == batch[b]
  <2>0. Shape(o)
    BY Zenon DEF Shapes
  <2>1. ASSUME NEW ok, ExecuteChunk(b, ok) PROVE Shapes'
    <3>1. o.pc = "embed" /\ Turns(b, "apply", o.by, o.token, o.rest, o.held, o.held, o.undo)
      BY <2>1, RunTurns, Zenon DEF ExecuteChunk
    <3> QED BY <2>0, <3>1, <1>ShapesFollow, Zenon DEF Turns, Shape
  <2>2. ASSUME NEW w, o.pc = "apply", Finish(b, w) PROVE Shapes'
    <3>1. Turns(b, o.pc, o.by, o.token, o.rest, o.todo \ {w}, o.held \ {w}, {})
      BY <2>2, RunTurns, Zenon
    <3> QED BY <2>0, <2>2, <3>1, <1>ShapesFollow, Zenon DEF Turns, Shape
  <2>3. ASSUME NEW w, o.pc = "apply", w \in o.todo, GiveUp(b, w) PROVE Shapes'
    <3>1. CASE o.token = 0
      BY <2>2, <2>3, <3>1, Zenon DEF GiveUp
    <3>2. CASE o.token # 0
      <4>1. Turns(b, o.pc, o.by, o.token, o.rest, o.todo, o.held, {w})
        BY <2>3, <3>2, RunTurns, Zenon
      <4> QED BY <2>0, <2>3, <3>2, <4>1, <1>ShapesFollow, Zenon DEF Turns, Shape
    <3> QED BY <3>1, <3>2, Zenon
  <2>4. ASSUME NEW w, Released(b, w) PROVE Shapes'
    <3>1. CASE o.pc = "apply"
      BY <2>2, <2>4, <3>1, Zenon DEF Released
    <3>2. CASE o.pc # "apply"
      <4>1. Turns(b, o.pc, o.by, o.token, o.rest, o.todo, o.held, {})
        BY <2>4, <3>2, RunTurns, Zenon
      <4> QED BY <2>0, <3>2, <4>1, <1>ShapesFollow, Zenon DEF Turns, Shape
    <3> QED BY <3>1, <3>2, Zenon
  <2>5. ASSUME BatchEnds(b) PROVE Shapes'
    <3>1. o.pc \in {"apply", "reject"} /\ o.todo = {} /\ o.undo = {}
      BY <2>5, Zenon DEF BatchEnds
    <3>2. CASE o.by = "op"
      <4>1. Turns(b, "schedule", o.by, o.token, o.rest, o.todo, o.held, o.undo)
        BY <2>5, <3>2, RunTurns, Zenon
      <4> QED BY <2>0, <3>1, <3>2, <4>1, <1>ShapesFollow, Zenon DEF Turns, Shape
    <3>3. CASE o.by # "op"
      BY <2>5, <3>3, RunTurns, <1>ShapesFollow, Zenon DEF Turns, Shape
    <3> QED BY <3>2, <3>3, Zenon
  <2> QED BY <2>1, <2>2, <2>3, <2>4, <2>5, Zenon
          DEF RunStep, ApplyStored, ApplyRefused, ApplyErrors, Applying, Release, ReleaseErrors

<1> SUFFICES ASSUME IInv, Shapes, [BulkNext]_vars PROVE Shapes'
  BY Zenon
<1>1. ASSUME UNCHANGED batch PROVE Shapes'
  BY <1>1, Zenon DEF Shapes, Shape
<1>2. ASSUME NEW p \in Procs, TakeTasks(p) PROVE Shapes'
  <2> SUFFICES ASSUME NEW c \in Batches PROVE Shape(batch'[c])
    BY Zenon DEF Shapes, Shape
  <2> QED BY <1>2, TakeTurns DEF Shapes, Shape
<1>3. ASSUME NEW p \in Procs, NEW B \in SUBSET Batches, DropBatches(p, B) PROVE Shapes'
  <2> SUFFICES ASSUME NEW c \in Batches PROVE Shape(batch'[c])
    BY Zenon DEF Shapes, Shape
  <2>1. Shape(Idle)
    BY Zenon DEF Shape, Idle
  <2> QED BY <1>3, <2>1, DropTurns, Zenon DEF Shapes
<1>4. ASSUME NEW p \in Procs, ProcStep(p) PROVE Shapes'
  <2>1. Taken(p) \in SUBSET Batches /\ {b \in Batches : Host(b) = p} \in SUBSET Batches
    BY Zenon DEF Taken
  <2>2. CASE ShutdownReturns(p)
    BY <1>3, <2>1, <2>2, Zenon DEF ShutdownReturns
  <2>3. CASE Crash(p)
    BY <1>3, <2>1, <2>3, Zenon DEF Crash
  <2>4. CASE TakeTasks(p)
    BY <1>2, <2>4, Zenon
  <2>5. CASE \/ \E pr \in Profiles \cup {NoProfile} : Start(p, pr)
             \/ BeginShutdown(p) \/ AdmissionsDrain(p) \/ AdmissionsTimeOut(p) \/ RequestReset(p)
             \/ CleanupBegins(p) \/ ShutdownReopens(p) \/ Exit(p)
             \/ \E c \in proc[p].snapshot, s \in BOOLEAN : CleanupCall(p, c, s)
    BY <1>1, <2>5, Zenon DEF Start, BeginShutdown, AdmissionsDrain, AdmissionsTimeOut, RequestReset,
                             CleanupBegins, ShutdownReopens, Exit, CleanupCall
  <2> QED BY <1>4, <2>2, <2>3, <2>4, <2>5, Zenon DEF ProcStep
<1>5. CASE StoreStep
  BY <1>1, <1>5, Zenon DEF StoreStep, Delete, LeaseLapses, Reindex, DetachedRuns
<1>6. CASE UNCHANGED vars
  BY <1>1, <1>6, Zenon DEF vars
<1> QED BY <1>4, <1>5, <1>6, <1>OpShapes, <1>RunShapes, Zenon DEF BulkNext

(***************************************************************************)
(* The guard sets are what the batches hold.                               *)
(***************************************************************************)
HeldIn(w, b) == /\ Key(w) \in inflight[Host(b)]
                /\ batch[b].token # 0 => ActiveClaim(w, batch[b].token) \in active[Host(b)]

GuardSets ==
    /\ \A b \in Batches : \A w \in batch[b].held : HeldIn(w, b)
    /\ \A p \in Procs : \A k \in inflight[p] :
          \E b \in Batches : Host(b) = p /\ \E w \in batch[b].held : k = Key(w)
    /\ \A p \in Procs : \A a \in active[p] :
          \E b \in Batches : /\ Host(b) = p /\ batch[b].token # 0
                             /\ \E w \in batch[b].held : a = ActiveClaim(w, batch[b].token)
    /\ \A b, c \in Batches : Host(b) = Host(c) =>
          \A v \in batch[b].held, w \in batch[c].held : Key(v) = Key(w) => b = c /\ v = w

(* The pointwise form says what GuardsExact says.                          *)
LEMMA GuardSetsExact == GuardSets => GuardsExact
<1> SUFFICES ASSUME GuardSets, NEW p \in Procs
             PROVE  LET mine == {b \in Batches : Host(b) = p} IN
                    /\ inflight[p] \subseteq {Key(w) : w \in UNION {batch[b].held : b \in mine}}
                    /\ {Key(w) : w \in UNION {batch[b].held : b \in mine}} \subseteq inflight[p]
                    /\ active[p] \subseteq UNION {{ActiveClaim(w, batch[b].token) : w \in batch[b].held} :
                                                     b \in {c \in mine : batch[c].token # 0}}
                    /\ UNION {{ActiveClaim(w, batch[b].token) : w \in batch[b].held} :
                                 b \in {c \in mine : batch[c].token # 0}} \subseteq active[p]
                    /\ \A b, c \in mine : \A v \in batch[b].held, w \in batch[c].held :
                          Key(v) = Key(w) => b = c /\ v = w
  BY Zenon DEF GuardsExact
<1> DEFINE mine == {b \in Batches : Host(b) = p}
<1> DEFINE claims(b) == {ActiveClaim(w, batch[b].token) : w \in batch[b].held}
           all == UNION {batch[b].held : b \in mine}
<1>0. \A w : w \in all <=> \E b \in Batches : Host(b) = p /\ w \in batch[b].held
  BY Zenon
<1>1. inflight[p] \subseteq {Key(w) : w \in all}
  <2> HIDE DEF all
  <2> QED BY <1>0 DEF GuardSets
<1>2. {Key(w) : w \in all} \subseteq inflight[p]
  <2> HIDE DEF all
  <2> QED BY <1>0 DEF GuardSets, HeldIn
<1>3. active[p] \subseteq UNION {claims(b) : b \in {c \in mine : batch[c].token # 0}}
  <2> SUFFICES ASSUME NEW a \in active[p] PROVE \E b \in {c \in mine : batch[c].token # 0} : a \in claims(b)
    <3> HIDE DEF claims
    <3> QED BY Zenon
  <2> QED BY DEF GuardSets
<1>4. UNION {claims(b) : b \in {c \in mine : batch[c].token # 0}} \subseteq active[p]
  <2> SUFFICES ASSUME NEW b \in mine, batch[b].token # 0, NEW a \in claims(b) PROVE a \in active[p]
    BY Zenon
  <2> QED BY DEF GuardSets, HeldIn
<1>5. \A b, c \in mine : \A v \in batch[b].held, w \in batch[c].held : Key(v) = Key(w) => b = c /\ v = w
  BY Zenon DEF GuardSets
<1> QED BY <1>1, <1>2, <1>3, <1>4, <1>5, Zenon

(* Guards, and what is held under which token, are as before.              *)
HoldsSame ==
    /\ UNCHANGED guards
    /\ \A c \in Batches : batch'[c].held = batch[c].held
                          /\ (batch[c].held # {} => batch'[c].token = batch[c].token)

(* So does every step.                                                     *)
LEMMA StepGuards == IInv /\ Shapes /\ GuardSets /\ [BulkNext]_vars => GuardSets'
<1>HoldsSameGuards. ASSUME GuardSets, HoldsSame PROVE GuardSets'
  <2> USE <1>HoldsSameGuards
  <2> USE DEF HoldsSame, guards
  <2>1. \A b \in Batches : \A w \in batch'[b].held : HeldIn(w, b)'
    BY Zenon DEF GuardSets, HeldIn
  <2>2. \A p \in Procs : \A k \in inflight'[p] :
          \E b \in Batches : Host(b) = p /\ \E w \in batch'[b].held : k = Key(w)
    BY DEF GuardSets
  <2>3. \A p \in Procs : \A a \in active'[p] :
          \E b \in Batches : /\ Host(b) = p /\ batch'[b].token # 0
                             /\ \E w \in batch'[b].held : a = ActiveClaim(w, batch'[b].token)
    <3> SUFFICES ASSUME NEW p \in Procs, NEW a \in active[p]
                 PROVE  \E b \in Batches : /\ Host(b) = p /\ batch'[b].token # 0
                                           /\ \E w \in batch'[b].held : a = ActiveClaim(w, batch'[b].token)
      BY Zenon
    <3>1. PICK b \in Batches : /\ Host(b) = p /\ batch[b].token # 0
                               /\ \E w \in batch[b].held : a = ActiveClaim(w, batch[b].token)
      BY Zenon DEF GuardSets
    <3>2. batch'[b].held = batch[b].held /\ batch'[b].token = batch[b].token
      BY <3>1, Zenon
    <3> QED BY <3>1, <3>2, Zenon
  <2>4. \A b, c \in Batches : Host(b) = Host(c) =>
          \A v \in batch'[b].held, w \in batch'[c].held : Key(v) = Key(w) => b = c /\ v = w
    BY DEF GuardSets
  <2> QED BY <2>1, <2>2, <2>3, <2>4, Zenon DEF GuardSets

(* Dropping guards of process p: the keys K and the claims A go, and with  *)
(* them exactly the work held under these keys.                            *)
<1>DropsGuards.
    ASSUME GuardSets, NEW p \in Procs, NEW K, NEW A,
           inflight \in [Procs -> SUBSET (Ids \X Nat)], active \in [Procs -> SUBSET Claims],
           inflight' = [inflight EXCEPT ![p] = @ \ K], active' = [active EXCEPT ![p] = @ \ A],
           \A c \in Batches : /\ batch'[c].held \subseteq batch[c].held
                              /\ batch'[c].held # {} => batch'[c].token = batch[c].token,
           \A c \in Batches : \A w \in batch[c].held :
               w \in batch'[c].held <=> (Host(c) = p => Key(w) \notin K),
           \A c \in Batches : \A w \in batch[c].held : Host(c) = p /\ batch[c].token # 0 =>
               (ActiveClaim(w, batch[c].token) \in A <=> Key(w) \in K)
    PROVE  GuardSets'
  <2> USE <1>DropsGuards
  <2>1. /\ \A q \in Procs : q # p => inflight'[q] = inflight[q] /\ active'[q] = active[q]
        /\ inflight'[p] = inflight[p] \ K /\ active'[p] = active[p] \ A
    BY Zenon
  <2>2. ASSUME NEW b \in Batches, NEW w \in batch'[b].held PROVE HeldIn(w, b)'
    <3>1. w \in batch[b].held /\ batch'[b].token = batch[b].token /\ HeldIn(w, b) /\ Host(b) \in Procs
      BY <2>2, Zenon DEF GuardSets, Batches, Host
    <3>2. CASE Host(b) = p
      BY <2>1, <2>2, <3>1, <3>2, Zenon DEF HeldIn
    <3>3. CASE Host(b) # p
      BY <2>1, <3>1, <3>3, Zenon DEF HeldIn
    <3> QED BY <3>2, <3>3, Zenon
  <2>3. ASSUME NEW q \in Procs, NEW k \in inflight'[q]
        PROVE  \E b \in Batches : Host(b) = q /\ \E w \in batch'[b].held : k = Key(w)
    <3>1. k \in inflight[q] /\ (q = p => k \notin K)
      BY <2>1, <2>3, Zenon
    <3>2. PICK b \in Batches : Host(b) = q /\ \E w \in batch[b].held : k = Key(w)
      BY <3>1 DEF GuardSets
    <3> QED BY <3>1, <3>2, Zenon
  <2>4. ASSUME NEW q \in Procs, NEW a \in active'[q]
        PROVE  \E b \in Batches : /\ Host(b) = q /\ batch'[b].token # 0
                                  /\ \E w \in batch'[b].held : a = ActiveClaim(w, batch'[b].token)
    <3>1. a \in active[q] /\ (q = p => a \notin A)
      BY <2>1, <2>4, Zenon
    <3>2. PICK b \in Batches : /\ Host(b) = q /\ batch[b].token # 0
                               /\ \E w \in batch[b].held : a = ActiveClaim(w, batch[b].token)
      BY <3>1 DEF GuardSets
    <3>3. PICK w \in batch[b].held : a = ActiveClaim(w, batch[b].token)
      BY <3>2, Zenon
    <3>4. w \in batch'[b].held
      BY <3>1, <3>2, <3>3, Zenon
    <3>5. batch'[b].token = batch[b].token
      BY <3>4, Zenon
    <3> QED BY <3>2, <3>3, <3>4, <3>5, Zenon
  <2>5. \A b, c \in Batches : Host(b) = Host(c) =>
          \A v \in batch'[b].held, w \in batch'[c].held : Key(v) = Key(w) => b = c /\ v = w
    BY DEF GuardSets
  <2> QED BY <2>2, <2>3, <2>4, <2>5, Zenon DEF GuardSets

(* A work item not in flight is tracked and held.                          *)
<1>TrackGuards.
    ASSUME IInv, GuardSets, NEW b \in Batches, NEW w, Alone(b), Key(w) \notin inflight[Host(b)],
           batch'[b].token = batch[b].token, batch'[b].held = batch[b].held \cup {w},
           Track(Host(b), w, batch[b].token)
    PROVE  GuardSets'
  <2> USE <1>TrackGuards
  <2> DEFINE p == Host(b)
  <2>0. p \in Procs /\ GuardsTyped
    BY BatchAt, Zenon DEF IInv
  <2>1. /\ \A q \in Procs : q # p => inflight'[q] = inflight[q] /\ active'[q] = active[q]
        /\ inflight'[p] = inflight[p] \cup {Key(w)}
        /\ active'[p] = IF batch[b].token = 0 THEN active[p] ELSE active[p] \cup {ActiveClaim(w, batch[b].token)}
    BY <2>0, Zenon DEF Track, GuardsTyped
  <2>2. ASSUME NEW c \in Batches, NEW v \in batch'[c].held PROVE HeldIn(v, c)'
    <3>1. Host(c) \in Procs
      BY BatchAt, Zenon
    <3>2. CASE c = b /\ v = w
      BY <2>1, <3>2, Zenon DEF HeldIn
    <3>3. CASE ~(c = b /\ v = w)
      <4>1. v \in batch[c].held /\ batch'[c].token = batch[c].token /\ HeldIn(v, c)
        BY <2>2, <3>3, Zenon DEF Alone, GuardSets
      <4> QED BY <2>1, <3>1, <4>1, Zenon DEF HeldIn
    <3> QED BY <3>2, <3>3, Zenon
  <2>3. \A c \in Batches : batch'[c].token = batch[c].token /\ batch[c].held \subseteq batch'[c].held
    BY Zenon DEF Alone
  <2>4. ASSUME NEW q \in Procs, NEW k \in inflight'[q]
        PROVE  \E c \in Batches : Host(c) = q /\ \E v \in batch'[c].held : k = Key(v)
    <3>1. CASE q = p /\ k = Key(w)
      BY <3>1, Zenon
    <3>2. CASE k \in inflight[q]
      BY <2>3, <3>2 DEF GuardSets
    <3> QED BY <2>1, <2>4, <3>1, <3>2, Zenon
  <2>5. ASSUME NEW q \in Procs, NEW a \in active'[q]
        PROVE  \E c \in Batches : /\ Host(c) = q /\ batch'[c].token # 0
                                  /\ \E v \in batch'[c].held : a = ActiveClaim(v, batch'[c].token)
    <3>1. CASE q = p /\ a = ActiveClaim(w, batch[b].token) /\ batch[b].token # 0
      BY <3>1, Zenon
    <3>2. CASE a \in active[q]
      BY <2>3, <3>2 DEF GuardSets
    <3> QED BY <2>1, <2>5, <3>1, <3>2, Zenon
  <2>6. ASSUME NEW c \in Batches, NEW d \in Batches, Host(c) = Host(d),
               NEW u \in batch'[c].held, NEW v \in batch'[d].held, Key(u) = Key(v)
        PROVE  c = d /\ u = v
    <3>1. ASSUME NEW x \in Batches, Host(x) = p, NEW y \in batch[x].held PROVE Key(y) # Key(w)
      BY <3>1, Zenon DEF GuardSets, HeldIn
    <3>2. (u \in batch[c].held \/ (c = b /\ u = w)) /\ (v \in batch[d].held \/ (d = b /\ v = w))
      BY <2>6, Zenon DEF Alone
    <3> QED BY <2>6, <3>1, <3>2 DEF GuardSets
  <2> QED BY <2>2, <2>4, <2>5, <2>6, Zenon DEF GuardSets

(* The guards of a spawned chunk move with it.                             *)
<1>SpawnGuards.
    ASSUME IInv, Shapes, GuardSets, NEW b \in Batches, NEW t \in Batches, Spawn(b, t)
    PROVE  GuardSets'
  <2> USE <1>SpawnGuards
  <2>1. /\ t # b /\ Host(t) = Host(b) /\ UNCHANGED guards
        /\ batch[t].held = {} /\ batch'[b].held = {} /\ batch'[t].held = batch[b].held
        /\ batch'[t].token = batch[b].token
        /\ \A c \in Batches \ {b, t} : batch'[c] = batch[c]
    <3>1. Host(t) = Host(b) /\ UNCHANGED guards /\ batch[t].pc = "idle"
      BY Zenon DEF Spawn
    <3>2. batch[t].held = {}
      BY <3>1, Zenon DEF Shapes, Shape
    <3> QED BY <3>1, <3>2, SpawnTurns
  <2>2. ASSUME NEW c \in Batches, NEW w \in batch'[c].held
        PROVE  \E d \in Batches : /\ Host(d) = Host(c) /\ batch'[c].token = batch[d].token /\ w \in batch[d].held
                                  /\ d = (IF c = t THEN b ELSE c)
    BY <2>1, <2>2, Zenon
  <2>3. ASSUME NEW d \in Batches, NEW w \in batch[d].held
        PROVE  \E c \in Batches : Host(d) = Host(c) /\ batch'[c].token = batch[d].token /\ w \in batch'[c].held
    BY <2>1, <2>3, Zenon
  <2>4. ASSUME NEW c \in Batches, NEW w \in batch'[c].held PROVE HeldIn(w, c)'
    <3>1. PICK d \in Batches : Host(d) = Host(c) /\ batch'[c].token = batch[d].token /\ w \in batch[d].held
      BY <2>2, <2>4, Zenon
    <3> QED BY <2>1, <3>1, Zenon DEF GuardSets, HeldIn, guards
  <2>5. ASSUME NEW q \in Procs, NEW k \in inflight'[q]
        PROVE  \E c \in Batches : Host(c) = q /\ \E v \in batch'[c].held : k = Key(v)
    <3>1. PICK d \in Batches : Host(d) = q /\ \E v \in batch[d].held : k = Key(v)
      BY <2>1, <2>5, Zenon DEF GuardSets, guards
    <3> QED BY <2>3, <3>1, Zenon
  <2>6. ASSUME NEW q \in Procs, NEW a \in active'[q]
        PROVE  \E c \in Batches : /\ Host(c) = q /\ batch'[c].token # 0
                                  /\ \E v \in batch'[c].held : a = ActiveClaim(v, batch'[c].token)
    <3>1. PICK d \in Batches : /\ Host(d) = q /\ batch[d].token # 0
                               /\ \E v \in batch[d].held : a = ActiveClaim(v, batch[d].token)
      BY <2>1, <2>6 DEF GuardSets, guards
    <3> QED BY <2>3, <3>1
  <2>7. ASSUME NEW c \in Batches, NEW d \in Batches, Host(c) = Host(d),
               NEW u \in batch'[c].held, NEW v \in batch'[d].held, Key(u) = Key(v)
        PROVE  c = d /\ u = v
    <3> DEFINE was(x) == IF x = t THEN b ELSE x
    <3>1. /\ was(c) \in Batches /\ was(d) \in Batches /\ Host(was(c)) = Host(was(d))
          /\ u \in batch[was(c)].held /\ v \in batch[was(d)].held
      BY <2>2, <2>7, Zenon
    <3>2. was(c) = was(d) /\ u = v
      BY <2>7, <3>1 DEF GuardSets
    <3>3. c # b /\ d # b
      BY <2>1, <2>7, Zenon
    <3> QED BY <3>2, <3>3, Zenon
  <2> QED BY <2>4, <2>5, <2>6, <2>7, Zenon DEF GuardSets

(* The guards of W, held by b, are dropped with W.                         *)
<1>DropHeld.
    ASSUME IInv, GuardSets, NEW b \in Batches, NEW W \in SUBSET batch[b].held, Alone(b),
           batch'[b].token = batch[b].token, batch'[b].held = batch[b].held \ W,
           DropGuards(Host(b), W, batch[b].token)
    PROVE  GuardSets'
  <2> USE <1>DropHeld
  <2> DEFINE p == Host(b)
             K == {Key(w) : w \in W}
             A == {ActiveClaim(w, batch[b].token) : w \in W}
  <2>0. p \in Procs /\ GuardsTyped
    BY BatchAt, Zenon DEF IInv
  <2>1. inflight' = [inflight EXCEPT ![p] = @ \ K] /\ active' = [active EXCEPT ![p] = @ \ A]
    BY Zenon DEF DropGuards
  <2>2. \A c \in Batches : batch'[c].held \subseteq batch[c].held /\ batch'[c].token = batch[c].token
    BY Zenon DEF Alone
  <2>3. ASSUME NEW c \in Batches, NEW v \in batch[c].held, Host(c) = p
        PROVE  Key(v) \in K <=> c = b /\ v \in W
    BY <2>3 DEF GuardSets
  <2>4. ASSUME NEW c \in Batches, NEW v \in batch[c].held, Host(c) = p
        PROVE  ActiveClaim(v, batch[c].token) \in A <=> Key(v) \in K
    <3>1. ASSUME NEW w \in W, ActiveClaim(v, batch[c].token) = ActiveClaim(w, batch[b].token)
          PROVE  Key(v) = Key(w)
      BY <3>1, Zenon DEF ActiveClaim, Key
    <3>2. c = b /\ v \in W => ActiveClaim(v, batch[c].token) \in A
      BY Zenon
    <3>3. ActiveClaim(v, batch[c].token) \in A => Key(v) \in K
      BY <3>1, Zenon
    <3> QED BY <2>3, <2>4, <3>2, <3>3, Zenon
  <2>5. \A c \in Batches : \A v \in batch[c].held :
          v \in batch'[c].held <=> (Host(c) = p => Key(v) \notin K)
    BY <2>3, Zenon DEF Alone
  <2> HIDE DEF K, A
  <2> QED BY <2>0, <2>1, <2>2, <2>4, <2>5, <1>DropsGuards, Zenon DEF GuardsTyped

(* Dropping batches of one process drops exactly their guards.             *)
<1>DropBatchesGuards.
    ASSUME IInv, GuardSets, NEW p \in Procs, NEW B \in SUBSET Batches,
           \A b \in B : Host(b) = p, DropBatches(p, B)
    PROVE  GuardSets'
  <2> USE <1>DropBatchesGuards
  <2> DEFINE K == {Key(w) : w \in UNION {batch[b].held : b \in B}}
             A == UNION {{ActiveClaim(w, batch[b].token) : w \in batch[b].held} : b \in B}
  <2>0. GuardsTyped
    BY Zenon DEF IInv
  <2>1. inflight' = [inflight EXCEPT ![p] = @ \ K] /\ active' = [active EXCEPT ![p] = @ \ A]
    BY Zenon DEF DropBatches
  <2>2. \A c \in Batches : batch'[c] = IF c \in B THEN Idle ELSE batch[c]
    BY Zenon DEF DropBatches
  <2>3. \A k : k \in K <=> \E b \in B : \E w \in batch[b].held : k = Key(w)
    BY Zenon
  <2>4. \A a : a \in A <=> \E b \in B : \E w \in batch[b].held : a = ActiveClaim(w, batch[b].token)
    OBVIOUS
  <2> HIDE DEF K, A
  <2>5. ASSUME NEW c \in Batches, NEW v \in batch[c].held, Host(c) = p
        PROVE  Key(v) \in K <=> c \in B
    BY <2>3, <2>5 DEF GuardSets
  <2>6. ASSUME NEW c \in Batches, NEW v \in batch[c].held, Host(c) = p
        PROVE  ActiveClaim(v, batch[c].token) \in A <=> Key(v) \in K
    <3>1. ASSUME NEW b \in B, NEW w \in batch[b].held,
                 ActiveClaim(v, batch[c].token) = ActiveClaim(w, batch[b].token)
          PROVE  Key(v) = Key(w)
      BY <3>1, Zenon DEF ActiveClaim, Key
    <3> QED BY <2>3, <2>4, <2>5, <2>6, <3>1, Zenon
  <2>7. Idle.held = {}
    BY Zenon DEF Idle
  <2>8. \A c \in Batches : /\ batch'[c].held \subseteq batch[c].held
                           /\ batch'[c].held # {} => batch'[c].token = batch[c].token
    BY <2>2, <2>7, Zenon
  <2>9. \A c \in Batches : \A v \in batch[c].held :
          v \in batch'[c].held <=> (Host(c) = p => Key(v) \notin K)
    BY <2>2, <2>5, <2>7, Zenon
  <2> QED BY <2>0, <2>1, <2>6, <2>8, <2>9, <1>DropsGuards, Zenon DEF GuardsTyped

(* A batch alone moves on without touching what it holds.                  *)
<1>TurnHoldsSame.
    ASSUME GuardSets, NEW b \in Batches, NEW pc, NEW by, NEW token, NEW rest, NEW todo, NEW held, NEW undo,
           Turns(b, pc, by, token, rest, todo, held, undo), held = batch[b].held,
           held = {} \/ token = batch[b].token, UNCHANGED guards
    PROVE  GuardSets'
  BY <1>TurnHoldsSame, <1>HoldsSameGuards, Zenon DEF HoldsSame, Turns, Alone

(* Operations keep the guard sets exact.                                   *)
<1>OpGuards.
    ASSUME IInv, Shapes, GuardSets, NEW b \in Batches, OpStep(b) PROVE GuardSets'
  <2> USE <1>OpGuards
  <2> DEFINE o == batch[b]
  <2>0. Shape(o)
    BY Zenon DEF Shapes
  <2>1. CASE Admit(b) \/ OpReturns(b) \/ LastDropped(b)
    <3>1. o.held = {} /\ UNCHANGED guards
      BY <2>0, <2>1, Zenon DEF Admit, OpReturns, LastDropped, Free, Shape
    <3> QED BY <2>1, <3>1, AdmissionTurns, <1>TurnHoldsSame, Zenon
  <2>2. ASSUME NEW S \in SUBSET Ids, (\E f \in [S -> Contents] : Store(b, S, f)) \/ Claim(b, S) PROVE GuardSets'
    <3>1. PICK t, W : Turns(b, "schedule", o.by, t, W, o.todo, o.held, o.undo)
      BY <2>2, WriteTurns, Zenon
    <3>2. o.held = {} /\ UNCHANGED guards
      BY <2>0, <2>2, Zenon DEF Store, Claim, Shape
    <3> QED BY <3>1, <3>2, <1>TurnHoldsSame, Zenon
  <2>3. ASSUME NEW i \in Ids, NEW c \in Contents, Update(b, i, c) PROVE GuardSets'
    <3>1. PICK W : Turns(b, "schedule", o.by, o.token, W, o.todo, o.held, o.undo)
      BY <2>3, WriteTurns, {} \in SUBSET Ids, Zenon
    <3>2. UNCHANGED guards
      BY <2>3, Zenon DEF Update
    <3> QED BY <3>1, <3>2, <1>TurnHoldsSame, Zenon
  <2>4. ASSUME NEW S, TakeChunk(b, S) PROVE GuardSets'
    <3>1. UNCHANGED guards
      BY <2>4, Zenon DEF TakeChunk
    <3> QED BY <2>4, <3>1, ScheduleTurns, <1>TurnHoldsSame, Zenon
  <2>5. ASSUME NEW w, Prepare(b, w) PROVE GuardSets'
    <3>1. CASE Key(w) \in inflight[Host(b)]
      <4>1. UNCHANGED guards
        BY <2>5, <3>1, Zenon DEF Prepare
      <4>2. PICK U : Turns(b, o.pc, o.by, o.token, o.rest, o.todo \ {w}, o.held, U)
        BY <2>5, <3>1, ScheduleTurns, Zenon
      <4> QED BY <4>1, <4>2, <1>TurnHoldsSame, Zenon
    <3>2. CASE Key(w) \notin inflight[Host(b)]
      <4>1. Track(Host(b), w, o.token)
        BY <2>5, <3>2, Zenon DEF Prepare
      <4>2. Turns(b, o.pc, o.by, o.token, o.rest, o.todo \ {w}, o.held \cup {w}, o.undo)
        BY <2>5, <3>2, ScheduleTurns, Zenon
      <4>3. Alone(b) /\ batch'[b].token = o.token /\ batch'[b].held = o.held \cup {w}
        BY <4>2, Zenon DEF Turns
      <4> QED BY <3>2, <4>1, <4>3, <1>TrackGuards, Zenon
    <3> QED BY <3>1, <3>2, Zenon
  <2>6. CASE NothingToSpawn(b) \/ RunInline(b)
    <3>1. UNCHANGED guards
      BY <2>6, Zenon DEF NothingToSpawn, RunInline
    <3> QED BY <2>6, <3>1, ScheduleTurns, <1>TurnHoldsSame, Zenon
  <2>7. ASSUME SpawnRefused(b) PROVE GuardSets'
    <3>1. DropGuards(Host(b), o.held, o.token)
      BY <2>7, Zenon DEF SpawnRefused
    <3>2. Alone(b) /\ batch'[b].token = o.token /\ batch'[b].held = o.held \ o.held
      BY <2>7, ScheduleTurns, Zenon DEF Turns
    <3>3. o.held \in SUBSET o.held
      BY Zenon
    <3> QED BY <3>1, <3>2, <3>3, <1>DropHeld, Zenon
  <2>8. ASSUME NEW w, ReleaseRejected(b, w) PROVE GuardSets'
    <3>1. UNCHANGED guards
      BY <2>8, Zenon DEF ReleaseRejected
    <3> QED BY <2>8, <3>1, ScheduleTurns, <1>TurnHoldsSame, Zenon
  <2> QED BY <2>1, <2>2, <2>3, <2>4, <2>5, <2>6, <2>7, <2>8, <1>SpawnGuards, Zenon DEF OpStep

(* So do runs.                                                             *)
<1>RunGuards.
    ASSUME IInv, Shapes, GuardSets, NEW b \in Batches, RunStep(b) PROVE GuardSets'
  <2> USE <1>RunGuards
  <2> DEFINE o == batch[b]
  <2>0. Shape(o)
    BY Zenon DEF Shapes
  <2>1. ASSUME NEW ok, ExecuteChunk(b, ok) PROVE GuardSets'
    <3>1. UNCHANGED guards
      BY <2>1, Zenon DEF ExecuteChunk
    <3> QED BY <2>1, <3>1, RunTurns, <1>TurnHoldsSame, Zenon
  <2>2. ASSUME NEW w \in o.held, Finish(b, w) PROVE GuardSets'
    <3>1. Alone(b) /\ batch'[b].token = o.token /\ batch'[b].held = o.held \ {w}
      BY <2>2, RunTurns, Zenon DEF Turns
    <3>2. DropGuards(Host(b), {w}, o.token) /\ {w} \in SUBSET o.held
      BY <2>2, Zenon DEF Finish
    <3> QED BY <3>1, <3>2, <1>DropHeld, Zenon
  <2>3. ASSUME NEW w \in o.held, GiveUp(b, w) PROVE GuardSets'
    <3>1. CASE o.token = 0
      BY <2>2, <2>3, <3>1, Zenon DEF GiveUp
    <3>2. CASE o.token # 0
      <4>1. UNCHANGED guards
        BY <2>3, <3>2, Zenon DEF GiveUp
      <4> QED BY <2>3, <3>2, <4>1, RunTurns, <1>TurnHoldsSame, Zenon
    <3> QED BY <3>1, <3>2, Zenon
  <2>4. ASSUME NEW w \in o.undo, Released(b, w) PROVE GuardSets'
    <3>1. CASE o.pc = "apply"
      BY <2>0, <2>2, <2>4, <3>1, Zenon DEF Released, Shape
    <3>2. CASE o.pc # "apply"
      <4>1. UNCHANGED guards
        BY <2>4, <3>2, Zenon DEF Released
      <4> QED BY <2>4, <3>2, <4>1, RunTurns, <1>TurnHoldsSame, Zenon
    <3> QED BY <3>1, <3>2, Zenon
  <2>5. ASSUME BatchEnds(b) PROVE GuardSets'
    <3>1. o.held = {} /\ UNCHANGED guards
      BY <2>0, <2>5, Zenon DEF BatchEnds, Shape
    <3> QED BY <2>5, <3>1, RunTurns, <1>TurnHoldsSame, Zenon
  <2>6. ASSUME NEW w \in o.todo, ApplyStored(b, w) \/ ApplyRefused(b, w) \/ ApplyErrors(b, w) PROVE GuardSets'
    <3>1. w \in o.held
      BY <2>0, <2>6, Zenon DEF ApplyStored, ApplyRefused, ApplyErrors, Applying, Shape
    <3> QED BY <2>2, <2>3, <2>6, <3>1, Zenon DEF ApplyStored, ApplyRefused, ApplyErrors
  <2> QED BY <2>1, <2>4, <2>5, <2>6, Zenon DEF RunStep, Release, ReleaseErrors

<1> SUFFICES ASSUME IInv, Shapes, GuardSets, [BulkNext]_vars PROVE GuardSets'
  BY Zenon
<1>1. ASSUME UNCHANGED batch, UNCHANGED guards PROVE GuardSets'
  BY <1>1, <1>HoldsSameGuards, Zenon DEF HoldsSame
<1>2. ASSUME NEW p \in Procs, TakeTasks(p), UNCHANGED guards PROVE GuardSets'
  BY <1>2, TakeTurns, <1>HoldsSameGuards, Zenon DEF HoldsSame
<1>3. ASSUME NEW p \in Procs, ProcStep(p) PROVE GuardSets'
  <2>1. CASE ShutdownReturns(p)
    <3>1. Taken(p) \in SUBSET Batches /\ (\A b \in Taken(p) : Host(b) = p) /\ DropBatches(p, Taken(p))
      BY <2>1, Zenon DEF Taken, ShutdownReturns
    <3> QED BY <3>1, <1>DropBatchesGuards, Zenon
  <2>2. CASE Crash(p)
    <3> DEFINE B == {b \in Batches : Host(b) = p}
    <3>1. B \in SUBSET Batches /\ (\A b \in B : Host(b) = p) /\ DropBatches(p, B)
      BY <2>2, Zenon DEF Crash
    <3> HIDE DEF B
    <3> QED BY <3>1, <1>DropBatchesGuards, Zenon
  <2>3. CASE TakeTasks(p)
    BY <1>2, <2>3, Zenon DEF TakeTasks
  <2>4. CASE \/ \E pr \in Profiles \cup {NoProfile} : Start(p, pr)
             \/ BeginShutdown(p) \/ AdmissionsDrain(p) \/ AdmissionsTimeOut(p) \/ RequestReset(p)
             \/ CleanupBegins(p) \/ ShutdownReopens(p) \/ Exit(p)
             \/ \E c \in proc[p].snapshot, s \in BOOLEAN : CleanupCall(p, c, s)
    BY <1>1, <2>4, Zenon DEF Start, BeginShutdown, AdmissionsDrain, AdmissionsTimeOut, RequestReset,
                             CleanupBegins, ShutdownReopens, Exit, CleanupCall
  <2> QED BY <1>3, <2>1, <2>2, <2>3, <2>4, Zenon DEF ProcStep
<1>4. CASE StoreStep
  BY <1>1, <1>4, Zenon DEF StoreStep, Delete, LeaseLapses, Reindex, DetachedRuns
<1>5. CASE UNCHANGED vars
  BY <1>1, <1>5, Zenon DEF vars, guards
<1> QED BY <1>3, <1>4, <1>5, <1>OpGuards, <1>RunGuards, Zenon DEF BulkNext

(* Nothing runs and nothing is guarded at first.                           *)
LEMMA InitGuards == Init => Shapes /\ GuardSets
<1> SUFFICES ASSUME Init PROVE Shapes /\ GuardSets
  BY Zenon
<1>1. \A b \in Batches : batch[b] = Idle
  BY Zenon DEF Init
<1>2. Shape(Idle) /\ Idle.held = {}
  BY Zenon DEF Shape, Idle
<1>3. \A p \in Procs : inflight[p] = {} /\ active[p] = {}
  BY Zenon DEF Init
<1> QED BY <1>1, <1>2, <1>3, Zenon DEF Shapes, GuardSets

(* No interleaving of operations, tasks, refused spawns, duplicates,        *)
(* shutdowns and crashes leaks a guard of inflight_embeds or               *)
(* active_claimed_embeds, drops one early, or lets two batches of a process *)
(* hold one revision.                                                      *)
THEOREM GuardsAreExact == BulkSpec => []GuardsExact
<1> QED BY InitIInv, StepIInv, InitGuards, StepShapes, StepGuards, GuardSetsExact, PTL DEF BulkSpec

(***************************************************************************)
(* Claims: every claim on an unembedded row is carried by a batch.  The    *)
(* strengthening says which part of a batch carries it, and that the       *)
(* cleanup of a shutdown has every claim of the tasks it will drop before   *)
(* it.                                                                     *)
(***************************************************************************)
Unfinished(r) == r.rest \cup r.todo \cup r.held \cup r.undo

(* The row still carries the claim t on the revision of w.                 *)
Claiming(w, t) == row[w.id].token = t /\ row[w.id].rev = w.rev

RowClaims == \A i \in Ids : row[i].token # 0 => row[i].status = "live" /\ ~row[i].has

TokensKnown ==
    /\ \A b \in Batches : batch[b].token < nextToken
    /\ \A i \in Ids : row[i].token < nextToken

ClaimsHeld ==
    \A i \in Ids : row[i].token # 0 =>
        \E b \in Batches : /\ batch[b].token = row[i].token
                           /\ \E w \in Unfinished(batch[b]) : Key(w) = <<i, row[i].rev>>

(* A shutdown that will drop what it has taken, and the claims its cleanup  *)
(* has yet to release.                                                     *)
Cleaning(p) == proc[p].stage \in {"expiring", "dropping", "ending"}
Pending(p) == IF proc[p].stage = "ending" THEN {} ELSE proc[p].snapshot

SnapshotCovers ==
    \A p \in Procs : Cleaning(p) =>
        \A b \in Taken(p) : batch[b].token # 0 => \A w \in batch[b].held :
            Claiming(w, batch[b].token) => ActiveClaim(w, batch[b].token) \in Pending(p)

CInv == RowClaims /\ TokensKnown /\ (faults = 0 => ClaimsHeld /\ SnapshotCovers)

(* Rows keep their claim or lose it.                                       *)
RowsRelease ==
    \A i \in Ids : row'[i].token = 0 \/ /\ row'[i].token = row[i].token /\ row'[i].rev = row[i].rev
                                        /\ row'[i].status = row[i].status /\ row'[i].has = row[i].has

(* Work whose claim the row keeps stays with a batch of the same claim.    *)
CarrierKept ==
    \A b \in Batches : batch[b].token # 0 => \A w \in Unfinished(batch[b]) :
        row'[w.id].token = batch[b].token /\ row'[w.id].rev = w.rev =>
            \E c \in Batches : batch'[c].token = batch[b].token /\ w \in Unfinished(batch'[c])

(* What a shutdown has taken only shrinks, and its snapshot stays.         *)
TakenKept ==
    \A p \in Procs : Cleaning(p)' =>
        /\ Cleaning(p) /\ Pending(p)' = Pending(p)
        /\ \A b \in Batches : Host(b) = p /\ batch'[b].by = "taken" =>
              /\ batch[b].by = "taken" /\ batch'[b].token = batch[b].token
              /\ batch'[b].held \subseteq batch[b].held

(* No process changes its stage or its snapshot.                           *)
ProcsStay == \A p \in Procs : proc'[p].stage = proc[p].stage /\ proc'[p].snapshot = proc[p].snapshot

(* Every step keeps claims carried.                                        *)
LEMMA StepClaims == IInv /\ Shapes /\ GuardSets /\ CInv /\ [BulkNext]_vars => CInv'
(* The fields of a row whose claim or vector is cleared.                   *)
<1>ClearedToken. \A r \in Rows : Unclaimed(r).token = 0 /\ Unembedded(r).token = 0
  BY Zenon DEF Rows, Unclaimed, Unembedded

(* Storing a vector clears the claim.                                      *)
<1>SetEmbeddingReleases.
    ASSUME DbInv, NEW w, w.id \in Ids, NEW pr, SetEmbedding(w, pr)
    PROVE  RowsRelease /\ row'[w.id].token = 0
  <2> USE <1>SetEmbeddingReleases
  <2> DEFINE r == Unclaimed(row[w.id])
             n == [r EXCEPT !.has = TRUE]
  <2>1. r \in Rows /\ r.token = 0
    BY ClearedRow, <1>ClearedToken, Zenon DEF DbInv, DbTyped
  <2> HIDE DEF r
  <2>2. n.token = 0
    BY <2>1, Zenon DEF Rows
  <2>3. row' = [row EXCEPT ![w.id] = n]
    BY Zenon DEF SetEmbedding, r
  <2> HIDE DEF n
  <2> QED BY <2>2, <2>3, Zenon DEF RowsRelease, DbInv, DbTyped

(* Releasing a claim clears it if the row still carries it.                *)
<1>ReleaseReleases.
    ASSUME DbInv, RowClaims, NEW i \in Ids, NEW rev, NEW t, ReleaseClaim(i, rev, t)
    PROVE  RowsRelease /\ (t # 0 => ~(row'[i].token = t /\ row'[i].rev = rev))
  <2> USE <1>ReleaseReleases
  <2> DEFINE r == Unclaimed(row[i])
  <2>1. r.token = 0
    BY <1>ClearedToken, Zenon DEF DbInv, DbTyped
  <2>2. row' = IF row[i].status = "live" /\ ~row[i].has /\ row[i].rev = rev /\ row[i].token = t
               THEN [row EXCEPT ![i] = r] ELSE row
    BY Zenon DEF ReleaseClaim
  <2> HIDE DEF r
  <2>3. RowsRelease
    BY <2>1, <2>2, Zenon DEF RowsRelease, DbInv, DbTyped
  <2>4. ASSUME t # 0, row'[i].token = t, row'[i].rev = rev PROVE FALSE
    <3>1. CASE row' = row
      BY <2>1, <2>2, <2>4, <3>1, Zenon DEF RowClaims, DbInv, DbTyped
    <3>2. CASE row' = [row EXCEPT ![i] = r]
      BY <2>1, <2>4, <3>2, Zenon DEF DbInv, DbTyped
    <3> QED BY <2>2, <3>1, <3>2, Zenon
  <2> QED BY <2>3, <2>4, Zenon

(* A store that is left alone.                                             *)
<1>RowsAlone. ASSUME UNCHANGED db PROVE RowsRelease
  BY <1>RowsAlone, Zenon DEF db, RowsRelease

(* Writes, deletions, lapses and reindexes claim nothing.                  *)
<1>WritesRelease.
    ASSUME DbInv, RowClaims,
           \/ \E b \in Batches, S \in SUBSET Ids : \E f \in [S -> Contents] : Store(b, S, f)
           \/ \E b \in Batches, i \in Ids, c \in Contents : Update(b, i, c)
           \/ \E S \in SUBSET Ids : Delete(S)
           \/ \E i \in Ids : LeaseLapses(i)
           \/ \E pr \in Profiles : Reindex(pr)
    PROVE  RowsRelease
  <2> USE <1>WritesRelease
  <2>0. \A i \in Ids : row[i] \in Rows
    BY Zenon DEF DbInv, DbTyped
  <2> DEFINE u(i) == Unembedded(row[i])
  <2>00. \A i \in Ids : u(i) \in Rows /\ u(i).token = 0
    BY <2>0, ClearedRow, <1>ClearedToken, Zenon
  <2> HIDE DEF u
  <2>1. ASSUME NEW b \in Batches, NEW S \in SUBSET Ids, NEW f \in [S -> Contents], Store(b, S, f) PROVE RowsRelease
    <3> DEFINE n(i) == [row[i] EXCEPT !.status = "live", !.content = f[i]]
    <3>1. \A i \in S : n(i).token = row[i].token
      BY <2>0, Zenon DEF Rows
    <3>2. row' = [i \in Ids |-> IF i \in S THEN n(i) ELSE row[i]] /\ \A i \in S : row[i].status = "unborn"
      BY <2>1, Zenon DEF Store
    <3> HIDE DEF n
    <3> QED BY <3>1, <3>2, Zenon DEF RowsRelease, RowClaims
  <2>2. ASSUME NEW b \in Batches, NEW i \in Ids, NEW c \in Contents, Update(b, i, c) PROVE RowsRelease
    <3> DEFINE k == row[i].rev + 1
               n == [u(i) EXCEPT !.content = c, !.rev = k]
    <3>1. row' = [row EXCEPT ![i] = n]
      BY <2>2, Zenon DEF Update, u
    <3> HIDE DEF k
    <3>2. n.token = 0
      BY <2>00, Zenon DEF Rows
    <3> HIDE DEF n
    <3> QED BY <3>1, <3>2, Zenon DEF RowsRelease, DbInv, DbTyped
  <2>3. ASSUME NEW S \in SUBSET Ids, Delete(S) PROVE RowsRelease
    <3> DEFINE n(i) == [u(i) EXCEPT !.status = "gone", !.content = Absent]
    <3>1. row' = [i \in Ids |-> IF i \in S THEN n(i) ELSE row[i]]
      BY <2>3, Zenon DEF Delete, u
    <3>2. \A i \in Ids : n(i).token = 0
      BY <2>00, Zenon DEF Rows
    <3> HIDE DEF n
    <3> QED BY <3>1, <3>2, Zenon DEF RowsRelease
  <2>4. ASSUME NEW i \in Ids, LeaseLapses(i) PROVE RowsRelease
    <3> DEFINE n == [row[i] EXCEPT !.lapsed = TRUE]
    <3>1. row' = [row EXCEPT ![i] = n]
      BY <2>4, Zenon DEF LeaseLapses
    <3>2. n.token = row[i].token /\ n.rev = row[i].rev /\ n.status = row[i].status /\ n.has = row[i].has
      BY <2>0, Zenon DEF Rows
    <3> HIDE DEF n
    <3> QED BY <3>1, <3>2, Zenon DEF RowsRelease, DbInv, DbTyped
  <2>5. ASSUME NEW pr \in Profiles, Reindex(pr) PROVE RowsRelease
    <3>1. row' = [i \in Ids |-> u(i)]
      BY <2>5, Zenon DEF Reindex, u
    <3> QED BY <2>00, <3>1, Zenon DEF RowsRelease
  <2> QED BY <2>1, <2>2, <2>3, <2>4, <2>5, Zenon

(* The rows' claims stay claims of unembedded rows under known tokens.      *)
<1>RowsStay.
    ASSUME IInv, RowClaims, TokensKnown, RowsRelease, nextToken' = nextToken,
           \A b \in Batches : batch'[b].token = 0 \/ \E c \in Batches : batch'[b].token = batch[c].token
    PROVE  RowClaims' /\ TokensKnown'
  <2> USE <1>RowsStay
  <2>1. nextToken \in Nat \ {0}
    BY Zenon DEF IInv
  <2>2. RowClaims'
    BY Zenon DEF RowClaims, RowsRelease
  <2>3. \A b \in Batches : batch'[b].token < nextToken
    BY <2>1 DEF TokensKnown
  <2>4. \A i \in Ids : row'[i].token < nextToken
    BY <2>1 DEF TokensKnown, RowsRelease
  <2> QED BY <2>2, <2>3, <2>4, Zenon DEF TokensKnown

(* Claims stay carried.                                                    *)
<1>ClaimsStay.
    ASSUME ClaimsHeld, RowsRelease, CarrierKept PROVE ClaimsHeld'
  <2> USE <1>ClaimsStay
  <2> SUFFICES ASSUME NEW i \in Ids, row'[i].token # 0
               PROVE  \E b \in Batches : /\ batch'[b].token = row'[i].token
                                         /\ \E w \in Unfinished(batch'[b]) : Key(w) = <<i, row'[i].rev>>
    BY Zenon DEF ClaimsHeld, Unfinished
  <2>1. row'[i].token = row[i].token /\ row'[i].rev = row[i].rev
    BY Zenon DEF RowsRelease
  <2>2. PICK b \in Batches : /\ batch[b].token = row[i].token
                             /\ \E w \in Unfinished(batch[b]) : Key(w) = <<i, row[i].rev>>
    BY <2>1, Zenon DEF ClaimsHeld
  <2>3. PICK w \in Unfinished(batch[b]) : Key(w) = <<i, row[i].rev>>
    BY <2>2, Zenon
  <2>4. w.id = i /\ w.rev = row[i].rev
    BY <2>3, Zenon DEF Key
  <2>5. PICK c \in Batches : batch'[c].token = batch[b].token /\ w \in Unfinished(batch'[c])
    BY <2>1, <2>2, <2>4 DEF CarrierKept
  <2> QED BY <2>1, <2>2, <2>3, <2>5, Zenon

(* The snapshot goes on covering what was taken.                           *)
<1>SnapshotStays.
    ASSUME IInv, SnapshotCovers, RowsRelease, TakenKept PROVE SnapshotCovers'
  <2> USE <1>SnapshotStays
  <2> SUFFICES ASSUME NEW p \in Procs, Cleaning(p)', NEW b \in Batches, Host(b) = p, batch'[b].by = "taken",
                      batch'[b].token # 0, NEW w \in batch'[b].held,
                      row'[w.id].token = batch'[b].token, row'[w.id].rev = w.rev
               PROVE  ActiveClaim(w, batch'[b].token) \in Pending(p)'
    BY Zenon DEF SnapshotCovers, Taken, Claiming
  <2>1. /\ Cleaning(p) /\ Pending(p)' = Pending(p) /\ batch[b].by = "taken"
        /\ batch'[b].token = batch[b].token /\ w \in batch[b].held
    BY Zenon DEF TakenKept
  <2>2. w.id \in Ids
    BY <2>1, BatchAt, BatchFields, Zenon DEF Work
  <2>3. Claiming(w, batch[b].token)
    BY <2>1, <2>2, Zenon DEF RowsRelease, Claiming
  <2> QED BY <2>1, <2>3, Zenon DEF SnapshotCovers, Taken

(* One batch moves on: it keeps what the rows still claim for it.          *)
<1>TurnClaims.
    ASSUME IInv, CInv, NEW b \in Batches,
           NEW pc, NEW by, NEW token, NEW rest, NEW todo, NEW held, NEW undo,
           Turns(b, pc, by, token, rest, todo, held, undo), RowsRelease, nextToken' = nextToken,
           token \in {0, batch[b].token},
           by = "op" \/ (by = batch[b].by /\ token = batch[b].token /\ held \subseteq batch[b].held),
           batch[b].token # 0 => \A w \in Unfinished(batch[b]) :
               row'[w.id].token = batch[b].token /\ row'[w.id].rev = w.rev =>
                   token = batch[b].token /\ w \in rest \cup todo \cup held \cup undo,
           ProcsStay, faults' = 0 => faults = 0
    PROVE  CInv'
  <2> USE <1>TurnClaims
  <2>1. RowClaims' /\ TokensKnown'
    <3>1. \A c \in Batches : batch'[c].token = 0 \/ \E d \in Batches : batch'[c].token = batch[d].token
      BY Zenon DEF Turns, Alone
    <3> QED BY <3>1, <1>RowsStay, Zenon DEF CInv
  <2>2. CarrierKept
    <3> SUFFICES ASSUME NEW c \in Batches, batch[c].token # 0, NEW w \in Unfinished(batch[c]),
                        row'[w.id].token = batch[c].token, row'[w.id].rev = w.rev
                 PROVE  batch'[c].token = batch[c].token /\ w \in Unfinished(batch'[c])
      BY Zenon DEF CarrierKept
    <3>1. CASE c = b
      BY <3>1, Zenon DEF Turns, Unfinished
    <3>2. CASE c # b
      BY <3>2, Zenon DEF Turns, Alone
    <3> QED BY <3>1, <3>2, Zenon
  <2>3. TakenKept
    BY Zenon DEF TakenKept, ProcsStay, Cleaning, Pending, Turns, Alone
  <2>4. ASSUME faults' = 0 PROVE ClaimsHeld' /\ SnapshotCovers'
    BY <2>2, <2>3, <2>4, <1>ClaimsStay, <1>SnapshotStays, Zenon DEF CInv
  <2> QED BY <2>1, <2>4, Zenon DEF CInv

(* A bulk claim: fresh token, and the operation carries all it claimed.    *)
<1>ClaimClaims.
    ASSUME IInv, Shapes, CInv, NEW b \in Batches, NEW S \in SUBSET Ids, Claim(b, S) PROVE CInv'
  <2> USE <1>ClaimClaims
  <2> DEFINE o == batch[b]
             W == NewWork(S, [i \in S |-> row[i].content], [i \in S |-> row[i].rev])
             n(i) == [row[i] EXCEPT !.token = nextToken, !.lapsed = FALSE]
  <2>1. /\ o.pc = "admitted" /\ \A i \in S : Claimable(i)
        /\ row' = [i \in Ids |-> IF i \in S THEN n(i) ELSE row[i]]
        /\ nextToken' = nextToken + 1 /\ UNCHANGED <<proc, faults>>
    BY Zenon DEF Claim
  <2>2. \A i \in Ids : /\ n(i).token = nextToken /\ n(i).rev = row[i].rev
                       /\ n(i).status = row[i].status /\ n(i).has = row[i].has
    <3>1. \A i \in Ids : row[i] \in Rows
      BY Zenon DEF IInv, DbInv, DbTyped
    <3> QED BY <3>1, Zenon DEF Rows
  <2>3. o.by = "op" /\ Unfinished(o) = {} /\ Turns(b, "schedule", o.by, nextToken, W, o.todo, o.held, o.undo)
    BY <2>1, WriteTurns, Zenon DEF Shapes, Shape, Unfinished
  <2>4. nextToken \in Nat \ {0} /\ \A c \in Batches : batch[c].token \in Nat
    BY BatchAt, BatchFields, Zenon DEF IInv
  <2>5. \A i \in S : [id |-> i, content |-> row[i].content, rev |-> row[i].rev] \in W
    BY Zenon DEF NewWork
  <2> HIDE DEF n, W
  <2>6. \A i \in Ids : /\ i \in S => row'[i].token = nextToken
                       /\ i \notin S => row'[i].token = row[i].token
                       /\ row'[i].rev = row[i].rev /\ row'[i].status = row[i].status /\ row'[i].has = row[i].has
    BY <2>1, <2>2, Zenon
  <2>7. RowClaims'
    BY <2>1, <2>6, Zenon DEF RowClaims, Claimable, CInv
  <2>8. TokensKnown'
    <3>1. \A c \in Batches : batch'[c].token < nextToken'
      <4>1. \A c \in Batches : batch[c].token < nextToken
        BY Zenon DEF CInv, TokensKnown
      <4> QED BY <2>1, <2>3, <2>4, <4>1 DEF Turns, Alone
    <3>2. \A i \in Ids : row'[i].token < nextToken'
      <4>1. \A i \in Ids : row[i].token < nextToken /\ row[i].token \in Nat
        BY Zenon DEF CInv, TokensKnown, IInv, DbInv, DbTyped, Rows
      <4> QED BY <2>1, <2>4, <2>6, <4>1
    <3> QED BY <3>1, <3>2, Zenon DEF TokensKnown
  <2>9. ASSUME faults = 0 PROVE ClaimsHeld'
    <3> SUFFICES ASSUME NEW i \in Ids, row'[i].token # 0
                 PROVE  \E c \in Batches : /\ batch'[c].token = row'[i].token
                                           /\ \E w \in Unfinished(batch'[c]) : Key(w) = <<i, row'[i].rev>>
      BY Zenon DEF ClaimsHeld, Unfinished
    <3>1. CASE i \in S
      <4> DEFINE w == [id |-> i, content |-> row[i].content, rev |-> row[i].rev]
      <4>1. w \in Unfinished(batch'[b]) /\ batch'[b].token = nextToken
        BY <2>3, <2>5, <3>1, Zenon DEF Turns, Unfinished
      <4>2. Key(w) = <<i, row'[i].rev>>
        BY <2>6, Zenon DEF Key
      <4> QED BY <2>6, <3>1, <4>1, <4>2, Zenon
    <3>2. CASE i \notin S
      <4>1. PICK c \in Batches : /\ batch[c].token = row[i].token
                                 /\ \E w \in Unfinished(batch[c]) : Key(w) = <<i, row[i].rev>>
        BY <2>6, <2>9, <3>2, Zenon DEF CInv, ClaimsHeld
      <4>2. c # b
        BY <2>3, <4>1, Zenon
      <4>3. batch'[c] = batch[c]
        BY <2>3, <4>2, Zenon DEF Turns, Alone
      <4> QED BY <2>6, <3>2, <4>1, <4>3, Zenon
    <3> QED BY <3>1, <3>2, Zenon
  <2>10. ASSUME faults = 0 PROVE SnapshotCovers'
    <3> SUFFICES ASSUME NEW p \in Procs, Cleaning(p)', NEW c \in Batches, Host(c) = p, batch'[c].by = "taken",
                        batch'[c].token # 0, NEW w \in batch'[c].held,
                        row'[w.id].token = batch'[c].token, row'[w.id].rev = w.rev
                 PROVE  ActiveClaim(w, batch'[c].token) \in Pending(p)'
      BY Zenon DEF SnapshotCovers, Taken, Claiming
    <3>1. c # b /\ batch'[c] = batch[c]
      BY <2>3, Zenon DEF Turns, Alone
    <3>2. w.id \in Ids /\ batch[c].token < nextToken
      BY <3>1, BatchAt, BatchFields DEF Work, CInv, TokensKnown
    <3>3. w.id \notin S
      BY <2>4, <2>6, <3>1, <3>2
    <3>4. Claiming(w, batch[c].token) /\ Cleaning(p)
      BY <2>1, <2>6, <3>1, <3>2, <3>3, Zenon DEF Claiming, Cleaning
    <3>5. Pending(p)' = Pending(p)
      BY <2>1, Zenon DEF Pending
    <3> QED BY <2>10, <3>1, <3>4, <3>5, Zenon DEF CInv, SnapshotCovers, Taken
  <2> QED BY <2>1, <2>7, <2>8, <2>9, <2>10, Zenon DEF CInv

(* A process that changes nothing but its flags.                           *)
<1>FlagsOnly.
    ASSUME IInv, NEW b \in Batches, LastDropped(b) \/ UNCHANGED proc PROVE ProcsStay
  <2> USE <1>FlagsOnly
  <2>1. CASE LastDropped(b)
    <3>1. Enters(Host(b), proc[Host(b)].stage)
      BY <2>1, BatchAt, ProcMoves, Zenon
    <3> QED BY <3>1, Zenon DEF Enters, Moves, ProcsStay
  <2>2. CASE UNCHANGED proc
    BY <2>2, Zenon DEF ProcsStay
  <2> QED BY <2>1, <2>2, Zenon

(* Operations keep claims carried.                                         *)
<1>OpClaims.
    ASSUME IInv, Shapes, CInv, NEW b \in Batches, OpStep(b) PROVE CInv'
  <2> USE <1>OpClaims
  <2> DEFINE o == batch[b]
  <2>0. Shape(o) /\ DbInv /\ RowClaims
    BY Zenon DEF Shapes, IInv, CInv
  <2>1. CASE Admit(b) \/ OpReturns(b) \/ LastDropped(b)
    <3>1. Unfinished(o) = {}
      BY <2>0, <2>1, Zenon DEF Admit, OpReturns, LastDropped, Free, Shape, Unfinished
    <3>2. ProcsStay
      BY <2>1, <1>FlagsOnly, Zenon DEF Admit, OpReturns, LastDropped
    <3>3. RowsRelease /\ UNCHANGED <<nextToken, faults>>
      BY <2>1, <1>RowsAlone, Zenon DEF Admit, OpReturns, LastDropped
    <3> QED BY <2>1, <3>1, <3>2, <3>3, AdmissionTurns, <1>TurnClaims, Zenon
  <2>2. ASSUME NEW S \in SUBSET Ids, NEW f \in [S -> Contents], Store(b, S, f) PROVE CInv'
    <3>1. PICK W : Turns(b, "schedule", o.by, o.token, W, o.todo, o.held, o.undo)
      BY <2>2, WriteTurns, Zenon
    <3>2. o.by = "op" /\ Unfinished(o) = {}
      BY <2>0, <2>2, Zenon DEF Store, Shape, Unfinished
    <3>3. ProcsStay /\ UNCHANGED <<nextToken, faults>>
      BY <2>2, <1>FlagsOnly, Zenon DEF Store
    <3>4. RowsRelease
      BY <2>0, <2>2, <1>WritesRelease, Zenon
    <3> QED BY <3>1, <3>2, <3>3, <3>4, <1>TurnClaims, Zenon
  <2>3. ASSUME NEW i \in Ids, NEW c \in Contents, Update(b, i, c) PROVE CInv'
    <3>1. PICK W : Turns(b, "schedule", o.by, o.token, W, o.todo, o.held, o.undo)
      BY <2>3, WriteTurns, {} \in SUBSET Ids, Zenon
    <3>2. o.by = "op" /\ Unfinished(o) = {}
      BY <2>0, <2>3, Zenon DEF Update, Shape, Unfinished
    <3>3. ProcsStay /\ UNCHANGED <<nextToken, faults>>
      BY <2>3, <1>FlagsOnly, Zenon DEF Update
    <3>4. RowsRelease
      BY <2>0, <2>3, <1>WritesRelease, Zenon
    <3> QED BY <3>1, <3>2, <3>3, <3>4, <1>TurnClaims, Zenon
  <2>4. ASSUME \/ \E S : TakeChunk(b, S)
               \/ \E w : Prepare(b, w) \/ ReleaseRejected(b, w)
               \/ NothingToSpawn(b) \/ SpawnRefused(b) \/ RunInline(b)
               \/ \E t \in Batches : Spawn(b, t)
        PROVE  /\ o.by = "op" /\ o.pc \in {"schedule", "prepare", "reprepare", "reject"}
               /\ ProcsStay /\ RowsRelease /\ UNCHANGED <<nextToken, faults>>
    <3>1. o.pc \in {"schedule", "prepare", "reprepare", "reject"}
      BY <2>4, Zenon DEF TakeChunk, Prepare, ReleaseRejected, NothingToSpawn, SpawnRefused, RunInline, Spawn, Prepared
    <3>2. UNCHANGED <<db, proc, nextToken, faults>>
      BY <2>4, Zenon DEF TakeChunk, Prepare, ReleaseRejected, NothingToSpawn, SpawnRefused, RunInline, Spawn
    <3> QED BY <2>0, <3>1, <3>2, <1>FlagsOnly, <1>RowsAlone, Zenon DEF Shape
  <2>5. ASSUME NEW S, TakeChunk(b, S) PROVE CInv'
    <3>1. Turns(b, "prepare", o.by, o.token, o.rest \ S, S, o.held, o.undo)
      BY <2>5, ScheduleTurns, Zenon
    <3>2. o.todo = {}
      BY <2>0, <2>5, Zenon DEF TakeChunk, Shape
    <3>3. \A w \in Unfinished(o) : w \in (o.rest \ S) \cup S \cup o.held \cup o.undo
      BY <3>2, Zenon DEF Unfinished
    <3> QED BY <2>4, <2>5, <3>1, <3>3, <1>TurnClaims
  <2>6. ASSUME NEW w, Prepare(b, w) PROVE CInv'
    <3>1. o.undo = {}
      BY <2>6, Zenon DEF Prepare
    <3>2. PICK H, U : /\ Turns(b, o.pc, o.by, o.token, o.rest, o.todo \ {w}, H, U)
                      /\ o.held \subseteq H /\ (o.token # 0 => w \in H \cup U)
      <4>1. CASE Key(w) \in inflight[Host(b)]
        <5>1. Turns(b, o.pc, o.by, o.token, o.rest, o.todo \ {w}, o.held, IF o.token = 0 THEN {} ELSE {w})
          BY <2>6, <4>1, ScheduleTurns, Zenon
        <5>2. o.token # 0 => w \in o.held \cup (IF o.token = 0 THEN {} ELSE {w})
          BY Zenon
        <5> QED BY <5>1, <5>2, Zenon
      <4>2. CASE Key(w) \notin inflight[Host(b)]
        <5>1. Turns(b, o.pc, o.by, o.token, o.rest, o.todo \ {w}, o.held \cup {w}, o.undo)
          BY <2>6, <4>2, ScheduleTurns, Zenon
        <5>2. o.held \subseteq o.held \cup {w} /\ w \in (o.held \cup {w}) \cup o.undo
          BY Zenon
        <5> QED BY <5>1, <5>2, Zenon
      <4> QED BY <4>1, <4>2, Zenon
    <3>3. o.token # 0 => \A v \in Unfinished(o) : v \in o.rest \cup (o.todo \ {w}) \cup H \cup U
      BY <3>1, <3>2, Zenon DEF Unfinished
    <3> QED BY <2>4, <2>6, <3>2, <3>3, <1>TurnClaims
  <2>7. CASE NothingToSpawn(b) \/ RunInline(b)
    <3>1. PICK pc : Turns(b, pc, o.by, o.token, o.rest, o.todo, o.held, o.undo)
      BY <2>7, ScheduleTurns, Zenon
    <3>2. \A v \in Unfinished(o) : v \in o.rest \cup o.todo \cup o.held \cup o.undo
      BY Zenon DEF Unfinished
    <3> QED BY <2>4, <2>7, <3>1, <3>2, <1>TurnClaims
  <2>8. CASE SpawnRefused(b)
    <3>1. PICK pc : Turns(b, pc, o.by, o.token, o.rest, o.held, {}, o.undo)
      BY <2>8, ScheduleTurns, Zenon
    <3>2. \A v \in Unfinished(o) : v \in o.rest \cup o.held \cup {} \cup o.undo
      BY <2>8, Zenon DEF Unfinished, SpawnRefused, Prepared
    <3> QED BY <2>4, <2>8, <3>1, <3>2, <1>TurnClaims
  <2>9. ASSUME NEW w, ReleaseRejected(b, w) PROVE CInv'
    <3>1. Turns(b, o.pc, o.by, o.token, o.rest, o.todo \ {w}, o.held, {w})
      BY <2>9, ScheduleTurns, Zenon
    <3>2. \A v \in Unfinished(o) : v \in o.rest \cup (o.todo \ {w}) \cup o.held \cup {w}
      BY <2>9, Zenon DEF Unfinished, ReleaseRejected
    <3> QED BY <2>4, <2>9, <3>1, <3>2, <1>TurnClaims
  <2>10. ASSUME NEW t \in Batches, Spawn(b, t) PROVE CInv'
    <3>1. /\ t # b /\ batch[t].pc = "idle" /\ o.todo = {} /\ o.undo = {}
          /\ \A c \in Batches \ {b, t} : batch'[c] = batch[c]
          /\ batch'[b].token = o.token /\ batch'[t].token = o.token
          /\ Unfinished(batch'[b]) = o.rest /\ Unfinished(batch'[t]) = o.held
          /\ batch'[b].by = o.by /\ batch'[t].by = "task"
      <4>1. batch[t].pc = "idle" /\ o.todo = {} /\ o.undo = {}
        BY <2>10, Zenon DEF Spawn, Prepared
      <4> QED BY <2>10, <4>1, SpawnTurns DEF Unfinished
    <3>2. batch[t].token = 0
      BY <3>1, Zenon DEF Shapes, Shape
    <3>3. CarrierKept
      <4> SUFFICES ASSUME NEW c \in Batches, batch[c].token # 0, NEW w \in Unfinished(batch[c])
                   PROVE  \E d \in Batches : batch'[d].token = batch[c].token /\ w \in Unfinished(batch'[d])
        BY Zenon DEF CarrierKept
      <4>1. CASE c = b
        <5>1. w \in o.rest \/ w \in o.held
          BY <3>1, <4>1, Zenon DEF Unfinished
        <5> QED BY <3>1, <4>1, <5>1, Zenon
      <4>2. CASE c # b
        BY <3>1, <3>2, <4>2, Zenon
      <4> QED BY <4>1, <4>2, Zenon
    <3>4. TakenKept
      <4>1. \A c \in Batches : batch'[c].by = "taken" => batch'[c] = batch[c]
        BY <2>4, <2>10, <3>1, Zenon
      <4> QED BY <2>4, <2>10, <4>1, Zenon DEF TakenKept, ProcsStay, Cleaning, Pending
    <3>5. RowClaims' /\ TokensKnown'
      <4>1. \A c \in Batches : \E d \in Batches : batch'[c].token = batch[d].token
        BY <3>1, Zenon
      <4> QED BY <2>4, <2>10, <4>1, <1>RowsStay, Zenon DEF CInv
    <3> QED BY <2>4, <2>10, <3>3, <3>4, <3>5, <1>ClaimsStay, <1>SnapshotStays, Zenon DEF CInv
  <2> QED BY <2>1, <2>2, <2>3, <2>5, <2>6, <2>7, <2>8, <2>9, <2>10, <1>ClaimClaims, Zenon DEF OpStep

(* Runs keep claims carried: an item ends with its vector stored or its    *)
(* claim released.                                                         *)
<1>RunClaims.
    ASSUME IInv, Shapes, CInv, NEW b \in Batches, RunStep(b) PROVE CInv'
  <2> USE <1>RunClaims
  <2> DEFINE o == batch[b]
  <2>0. Shape(o) /\ DbInv /\ RowClaims /\ faults \in Nat
    BY Zenon DEF Shapes, IInv, CInv, Counted
  <2>1. RowsRelease
    <3>1. ASSUME NEW w \in o.todo \cup o.undo PROVE w.id \in Ids
      BY BatchAt, BatchFields, Zenon DEF Work
    <3>2. ASSUME NEW w \in o.todo, ApplyStored(b, w) \/ ApplyRefused(b, w) \/ ApplyErrors(b, w) PROVE RowsRelease
      BY <2>0, <3>1, <3>2, <1>SetEmbeddingReleases, <1>RowsAlone, Zenon DEF ApplyStored, ApplyRefused, ApplyErrors, CallFails
    <3>3. ASSUME NEW w \in o.undo, Release(b, w) \/ ReleaseErrors(b, w) PROVE RowsRelease
      BY <2>0, <3>1, <3>3, <1>ReleaseReleases, <1>RowsAlone, Zenon DEF Release, ReleaseErrors, CallFails
    <3>4. ASSUME (\E ok \in SUBSET o.held : ExecuteChunk(b, ok)) \/ BatchEnds(b) PROVE RowsRelease
      BY <3>4, <1>RowsAlone, Zenon DEF ExecuteChunk, BatchEnds
    <3> QED BY <3>2, <3>3, <3>4, Zenon DEF RunStep
  <2>2. UNCHANGED <<nextToken, proc>> /\ (faults' = 0 => faults = 0 /\ faults' = faults)
    <3>1. Fault => faults' # 0
      BY <2>0 DEF Fault
    <3>2. UNCHANGED <<nextToken, proc>> /\ (Fault \/ UNCHANGED faults)
      BY Zenon DEF RunStep, ExecuteChunk, ApplyStored, ApplyRefused, ApplyErrors, Release, ReleaseErrors,
                   BatchEnds, CallFails
    <3> QED BY <3>1, <3>2, Zenon
  <2>3. ProcsStay
    BY <2>2, <1>FlagsOnly, Zenon
  <2>4. ASSUME NEW ok, ExecuteChunk(b, ok) PROVE CInv'
    <3>1. Turns(b, "apply", o.by, o.token, o.rest, o.held, o.held, o.undo)
      BY <2>4, RunTurns, Zenon
    <3>2. \A v \in Unfinished(o) : v \in o.rest \cup o.held \cup o.held \cup o.undo
      BY <2>0, <2>4, Zenon DEF ExecuteChunk, Shape, Unfinished
    <3> QED BY <2>1, <2>2, <2>3, <3>1, <3>2, <1>TurnClaims
  <2>5. ASSUME NEW w, Finish(b, w), o.pc = "apply", o.undo \subseteq {w},
               o.token = 0 \/ faults' # 0 \/ ~(row'[w.id].token = o.token /\ row'[w.id].rev = w.rev)
        PROVE  CInv'
    <3>1. Turns(b, o.pc, o.by, o.token, o.rest, o.todo \ {w}, o.held \ {w}, {})
      BY <2>5, RunTurns, Zenon
    <3>2. RowClaims' /\ TokensKnown'
      <4>1. \A c \in Batches : \E d \in Batches : batch'[c].token = batch[d].token
        BY <3>1, Zenon DEF Turns, Alone
      <4> QED BY <2>1, <2>2, <4>1, <1>RowsStay, Zenon DEF CInv
    <3>3. CASE faults' # 0
      BY <3>2, <3>3, Zenon DEF CInv
    <3>4. CASE faults' = 0
      <4>1. o.token # 0 => \A v \in Unfinished(o) :
              row'[v.id].token = o.token /\ row'[v.id].rev = v.rev =>
                  v \in o.rest \cup (o.todo \ {w}) \cup (o.held \ {w}) \cup {}
        BY <2>5, <3>4, Zenon DEF Unfinished
      <4> QED BY <2>1, <2>2, <2>3, <3>1, <4>1, <1>TurnClaims
    <3> QED BY <3>3, <3>4, Zenon
  <2>6. ASSUME NEW w \in o.todo, o.pc = "apply", o.undo = {}, GiveUp(b, w) PROVE CInv'
    <3>1. CASE o.token = 0
      BY <2>5, <2>6, <3>1, Zenon DEF GiveUp
    <3>2. CASE o.token # 0
      <4>1. Turns(b, o.pc, o.by, o.token, o.rest, o.todo, o.held, {w})
        BY <2>6, <3>2, RunTurns, Zenon
      <4>2. \A v \in Unfinished(o) : v \in o.rest \cup o.todo \cup o.held \cup {w}
        BY <2>6, Zenon DEF Unfinished
      <4> QED BY <2>1, <2>2, <2>3, <4>1, <4>2, <1>TurnClaims
    <3> QED BY <3>1, <3>2, Zenon
  <2>7. ASSUME NEW w \in o.todo, ApplyStored(b, w) PROVE CInv'
    <3>1. w.id \in Ids
      BY BatchAt, BatchFields, Zenon DEF Work
    <3>2. row'[w.id].token = 0 /\ Finish(b, w) /\ o.pc = "apply" /\ o.undo = {}
      BY <2>0, <2>7, <3>1, <1>SetEmbeddingReleases, Zenon DEF ApplyStored, Applying
    <3> QED BY <2>5, <3>2, Zenon
  <2>8. ASSUME NEW w \in o.todo, ApplyRefused(b, w) \/ ApplyErrors(b, w) PROVE CInv'
    BY <2>6, <2>8, Zenon DEF ApplyRefused, ApplyErrors, Applying
  <2>9. ASSUME NEW w \in o.undo, Release(b, w) \/ ReleaseErrors(b, w) PROVE CInv'
    <3>1. w.id \in Ids /\ o.undo = {w} /\ o.token # 0 /\ Released(b, w)
      BY <2>0, <2>9, BatchAt, BatchFields, Zenon DEF Work, Shape, Release, ReleaseErrors
    <3>2. faults' # 0 \/ ~(row'[w.id].token = o.token /\ row'[w.id].rev = w.rev)
      <4>1. CASE Release(b, w)
        BY <2>0, <3>1, <4>1, <1>ReleaseReleases, Zenon DEF Release
      <4>2. CASE ReleaseErrors(b, w)
        BY <2>0, <4>2 DEF ReleaseErrors, CallFails, Fault
      <4> QED BY <2>9, <4>1, <4>2, Zenon
    <3>3. CASE o.pc = "apply"
      BY <2>5, <3>1, <3>2, <3>3, Zenon DEF Released
    <3>4. CASE o.pc # "apply"
      <4>1. Turns(b, o.pc, o.by, o.token, o.rest, o.todo, o.held, {})
        BY <3>1, <3>4, RunTurns, Zenon
      <4>2. RowClaims' /\ TokensKnown'
        <5>1. \A c \in Batches : \E d \in Batches : batch'[c].token = batch[d].token
          BY <4>1, Zenon DEF Turns, Alone
        <5> QED BY <2>1, <2>2, <5>1, <1>RowsStay, Zenon DEF CInv
      <4>3. CASE faults' # 0
        BY <4>2, <4>3, Zenon DEF CInv
      <4>4. CASE faults' = 0
        <5>1. \A v \in Unfinished(o) : row'[v.id].token = o.token /\ row'[v.id].rev = v.rev =>
                v \in o.rest \cup o.todo \cup o.held \cup {}
          BY <3>1, <3>2, <4>4, Zenon DEF Unfinished
        <5> QED BY <2>1, <2>2, <2>3, <4>1, <5>1, <1>TurnClaims
      <4> QED BY <4>3, <4>4, Zenon
    <3> QED BY <3>3, <3>4, Zenon
  <2>10. ASSUME BatchEnds(b) PROVE CInv'
    <3>1. Unfinished(o) = o.rest /\ (o.by # "op" => Unfinished(o) = {})
      BY <2>0, <2>10, Zenon DEF BatchEnds, Shape, Unfinished
    <3>2. CASE o.by = "op"
      <4>1. Turns(b, "schedule", o.by, o.token, o.rest, o.todo, o.held, o.undo)
        BY <2>10, <3>2, RunTurns, Zenon
      <4>2. \A v \in Unfinished(o) : v \in o.rest \cup o.todo \cup o.held \cup o.undo
        BY Zenon DEF Unfinished
      <4> QED BY <2>1, <2>2, <2>3, <4>1, <4>2, <1>TurnClaims
    <3>3. CASE o.by # "op"
      BY <2>1, <2>2, <2>3, <2>10, <3>1, <3>3, RunTurns, <1>TurnClaims, Zenon
    <3> QED BY <3>2, <3>3, Zenon
  <2> QED BY <2>4, <2>7, <2>8, <2>9, <2>10, Zenon DEF RunStep

(* A step of process p: the other processes and their batches stay.         *)
<1>ProcSnapshot.
    ASSUME IInv, SnapshotCovers, RowsRelease, NEW p \in Procs,
           \A q \in Procs : q # p => proc'[q] = proc[q],
           \A b \in Batches : Host(b) # p => batch'[b] = batch[b],
           Cleaning(p)' =>
               \A b \in Batches : Host(b) = p /\ batch'[b].by = "taken" /\ batch'[b].token # 0 =>
                   \A w \in batch'[b].held :
                       row'[w.id].token = batch'[b].token /\ row'[w.id].rev = w.rev =>
                           ActiveClaim(w, batch'[b].token) \in Pending(p)'
    PROVE  SnapshotCovers'
  <2> USE <1>ProcSnapshot
  <2> SUFFICES ASSUME NEW q \in Procs, Cleaning(q)', NEW b \in Batches, Host(b) = q, batch'[b].by = "taken",
                      batch'[b].token # 0, NEW w \in batch'[b].held,
                      row'[w.id].token = batch'[b].token, row'[w.id].rev = w.rev
               PROVE  ActiveClaim(w, batch'[b].token) \in Pending(q)'
    BY Zenon DEF SnapshotCovers, Taken, Claiming
  <2>1. CASE q = p
    BY <2>1, Zenon
  <2>2. CASE q # p
    <3>1. batch'[b] = batch[b] /\ Cleaning(q) /\ Pending(q)' = Pending(q)
      BY <2>2, Zenon DEF Cleaning, Pending
    <3>2. w.id \in Ids
      BY <3>1, BatchAt, BatchFields DEF Work
    <3>3. Claiming(w, batch[b].token)
      BY <3>1, <3>2, Zenon DEF RowsRelease, Claiming
    <3> QED BY <3>1, <3>3, Zenon DEF SnapshotCovers, Taken
  <2> QED BY <2>1, <2>2, Zenon

(* Batches that are kept or taken carry what they carried.                 *)
<1>KeptCarriers.
    ASSUME IInv, \A c \in Batches : /\ batch'[c].token = batch[c].token
                                    /\ batch'[c].rest = batch[c].rest /\ batch'[c].todo = batch[c].todo
                                    /\ batch'[c].held = batch[c].held /\ batch'[c].undo = batch[c].undo
    PROVE  CarrierKept
  BY <1>KeptCarriers, Zenon DEF CarrierKept, Unfinished

(* Steps of a process that drop no batch and call no store.                *)
<1>StageClaims.
    ASSUME IInv, GuardSets, CInv, NEW p \in Procs,
           \/ \E pr \in Profiles \cup {NoProfile} : Start(p, pr)
           \/ BeginShutdown(p) \/ AdmissionsDrain(p) \/ AdmissionsTimeOut(p) \/ RequestReset(p)
           \/ TakeTasks(p) \/ CleanupBegins(p) \/ ShutdownReopens(p) \/ Exit(p)
    PROVE  CInv'
  <2> USE <1>StageClaims
  <2>1. UNCHANGED <<row, nextToken, guards, faults>>
    BY Zenon DEF Start, BeginShutdown, AdmissionsDrain, AdmissionsTimeOut, RequestReset, TakeTasks,
                 CleanupBegins, ShutdownReopens, Exit, db
  <2>2. RowsRelease
    BY <2>1, Zenon DEF RowsRelease
  <2>3. TakeTasks(p) \/ UNCHANGED batch
    BY Zenon DEF Start, BeginShutdown, AdmissionsDrain, AdmissionsTimeOut, RequestReset, TakeTasks,
                 CleanupBegins, ShutdownReopens, Exit
  <2>4. \A c \in Batches : /\ batch'[c].token = batch[c].token
                           /\ batch'[c].rest = batch[c].rest /\ batch'[c].todo = batch[c].todo
                           /\ batch'[c].held = batch[c].held /\ batch'[c].undo = batch[c].undo
    BY <2>3, TakeTurns, Zenon
  <2>5. \A c \in Batches : Host(c) # p => batch'[c] = batch[c]
    BY <2>3, Zenon DEF TakeTasks
  <2>6. RowClaims' /\ TokensKnown'
    BY <2>1, <2>2, <2>4, <1>RowsStay, Zenon DEF CInv
  <2>7. CarrierKept
    BY <2>4, <1>KeptCarriers, Zenon
  <2>8. PICK stage, prof, snapshot, released : Moves(p, stage, prof, snapshot, released)
    BY ProcMoves, Zenon DEF Enters
  <2>9. \/ ~Cleaning(p)'
        \/ Cleaning(p)' /\ Pending(p)' = active[p]
        \/ Cleaning(p) /\ UNCHANGED batch /\ Pending(p)' = Pending(p)
        \/ Taken(p) = {} /\ UNCHANGED batch
    <3>1. CASE ShutdownReopens(p)
      <4>1. Enters(p, "ending") /\ UNCHANGED batch
        BY <3>1, ProcMoves, Zenon DEF ShutdownReopens
      <4>2. Pending(p)' = {}
        BY <4>1, Zenon DEF Enters, Moves, Pending
      <4>3. CASE proc[p].stage = "expiring" /\ proc[p].snapshot = {}
        BY <4>1, <4>2, <4>3, Zenon DEF Cleaning, Pending
      <4> QED BY <3>1, <4>1, <4>3, Zenon DEF ShutdownReopens
    <3>2. CASE CleanupBegins(p)
      <4>1. PICK s \in {"expiring", "dropping"} : Moves(p, s, proc[p].profile, active[p], proc[p].released)
        BY <3>2, ProcMoves, Zenon
      <4> QED BY <4>1, Zenon DEF Moves, Cleaning, Pending
    <3>3. CASE ~(ShutdownReopens(p) \/ CleanupBegins(p))
      <4>1. proc'[p].stage \in {"serving", "waiting", "drained", "refusing", "overdue", "joining", "overrun", "down"}
        BY <3>3, ProcMoves, Zenon DEF Enters, Moves
      <4> QED BY <4>1, Zenon DEF Cleaning
    <3> QED BY <3>1, <3>2, <3>3, Zenon
  <2>10. ASSUME faults = 0 PROVE SnapshotCovers'
    <3>1. ASSUME Cleaning(p)', NEW b \in Batches, Host(b) = p, batch'[b].by = "taken", batch'[b].token # 0,
                 NEW w \in batch'[b].held, row'[w.id].token = batch'[b].token, row'[w.id].rev = w.rev
          PROVE  ActiveClaim(w, batch'[b].token) \in Pending(p)'
      <4>1. CASE Pending(p)' = active[p]
        BY <2>4, <3>1, <4>1, Zenon DEF GuardSets, HeldIn
      <4>2. CASE Cleaning(p) /\ UNCHANGED batch /\ Pending(p)' = Pending(p)
        <5>1. b \in Taken(p) /\ Claiming(w, batch[b].token)
          BY <2>1, <3>1, <4>2, Zenon DEF Taken, Claiming
        <5> QED BY <2>10, <3>1, <4>2, <5>1, Zenon DEF CInv, SnapshotCovers
      <4>3. CASE Taken(p) = {} /\ UNCHANGED batch
        BY <3>1, <4>3, Zenon DEF Taken
      <4> QED BY <2>9, <3>1, <4>1, <4>2, <4>3, Zenon
    <3>2. \A q \in Procs : q # p => proc'[q] = proc[q]
      BY <2>8, Zenon DEF Moves
    <3> QED BY <2>2, <2>5, <2>10, <3>1, <3>2, <1>ProcSnapshot, Zenon DEF CInv
  <2> QED BY <2>1, <2>2, <2>6, <2>7, <2>10, <1>ClaimsStay, Zenon DEF CInv

(* The cleanup releases one claim of its snapshot.                         *)
<1>CleanupClaims.
    ASSUME IInv, CInv, NEW p \in Procs, NEW c \in proc[p].snapshot, NEW s \in BOOLEAN, CleanupCall(p, c, s)
    PROVE  CInv'
  <2> USE <1>CleanupClaims
  <2>0. proc[p] \in ProcRecords /\ proc \in [Procs -> ProcRecords] /\ c \in Claims /\ faults \in Nat /\ DbInv
    BY Zenon DEF IInv, ProcRecords, Counted
  <2>2. UNCHANGED <<nextToken, batch>>
    BY Zenon DEF CleanupCall
  <2>3. proc'[p].stage = proc[p].stage /\ proc'[p].snapshot = proc[p].snapshot \ {c}
        /\ \A q \in Procs : q # p => proc'[q] = proc[q]
    <3>1. Moves(p, proc[p].stage, proc[p].profile, proc[p].snapshot \ {c}, proc[p].released \cup {c})
      BY <2>0, ProcMoves, Zenon
    <3> QED BY <3>1, Zenon DEF Moves
  <2>4. c.id \in Ids
    BY <2>0, Zenon DEF Claims
  <2>5. RowsRelease
    BY <2>0, <2>4, <1>ReleaseReleases, <1>RowsAlone, Zenon DEF CleanupCall, CallFails, CInv
  <2>6. RowClaims' /\ TokensKnown'
    BY <2>2, <2>5, <1>RowsStay, Zenon DEF CInv
  <2>7. ASSUME faults' = 0
        PROVE  faults = 0 /\ (c.token # 0 => ~(row'[c.id].token = c.token /\ row'[c.id].rev = c.rev))
    <3>1. ReleaseClaim(c.id, c.rev, c.token) /\ faults = 0
      BY <2>0, <2>7 DEF CleanupCall, CallFails, Fault
    <3> QED BY <2>0, <2>4, <3>1, <1>ReleaseReleases, Zenon DEF CInv
  <2>8. ASSUME faults' = 0 PROVE SnapshotCovers'
    <3>1. ASSUME Cleaning(p)', NEW b \in Batches, Host(b) = p, batch'[b].by = "taken", batch'[b].token # 0,
                 NEW w \in batch'[b].held, row'[w.id].token = batch'[b].token, row'[w.id].rev = w.rev
          PROVE  ActiveClaim(w, batch'[b].token) \in Pending(p)'
      <4>1. w.id \in Ids /\ Cleaning(p) /\ batch[b].by = "taken" /\ w \in batch[b].held /\ batch[b].token # 0
        BY <2>2, <2>3, <3>1, BatchAt, BatchFields DEF Work, Cleaning
      <4>2. Claiming(w, batch[b].token)
        BY <2>2, <2>5, <3>1, <4>1, Zenon DEF RowsRelease, Claiming
      <4>3. ActiveClaim(w, batch[b].token) \in Pending(p)
        BY <2>7, <2>8, <3>1, <4>1, <4>2, Zenon DEF CInv, SnapshotCovers, Taken
      <4>4. ActiveClaim(w, batch[b].token) # c
        <5>1. ASSUME ActiveClaim(w, batch[b].token) = c
              PROVE  c.id = w.id /\ c.rev = w.rev /\ c.token = batch[b].token
          BY <5>1, Zenon DEF ActiveClaim
        <5> QED BY <2>2, <2>7, <2>8, <3>1, <5>1, Zenon
      <4> QED BY <2>2, <2>3, <4>3, <4>4, Zenon DEF Pending
    <3> QED BY <2>2, <2>3, <2>5, <2>7, <2>8, <3>1, <1>ProcSnapshot, Zenon DEF CInv
  <2>9. CarrierKept
    BY <2>2, <1>KeptCarriers, Zenon
  <2> QED BY <2>5, <2>6, <2>7, <2>8, <2>9, <1>ClaimsStay, Zenon DEF CInv

(* A returning shutdown drops tasks whose claims its cleanup has released. *)
<1>ReturnClaims.
    ASSUME IInv, Shapes, CInv, NEW p \in Procs, ShutdownReturns(p) PROVE CInv'
  <2> USE <1>ReturnClaims
  <2>1. /\ DropBatches(p, Taken(p)) /\ UNCHANGED <<row, nextToken, faults>>
        /\ Enters(p, "serving")
    BY ProcMoves, Zenon DEF ShutdownReturns, db
  <2>2. proc'[p].stage = "serving" /\ \A q \in Procs : q # p => proc'[q] = proc[q]
    BY <2>1, Zenon DEF Enters, Moves
  <2>3. \A c \in Batches : batch'[c] = IF c \in Taken(p) THEN Idle ELSE batch[c]
    BY <2>1, Zenon DEF DropBatches
  <2>4. Idle.token = 0
    BY Zenon DEF Idle
  <2>5. RowsRelease
    BY <2>1, Zenon DEF RowsRelease
  <2>6. RowClaims' /\ TokensKnown'
    BY <2>1, <2>3, <2>4, <2>5, <1>RowsStay, Zenon DEF CInv
  <2>7. SnapshotCovers => SnapshotCovers'
    <3>1. \A b \in Batches : Host(b) # p => batch'[b] = batch[b]
      BY <2>3, Zenon DEF Taken
    <3>2. ~Cleaning(p)'
      BY <2>2, Zenon DEF Cleaning
    <3> QED BY <2>2, <2>5, <3>1, <3>2, <1>ProcSnapshot, Zenon
  <2>8. ASSUME SnapshotCovers PROVE CarrierKept
    <3> SUFFICES ASSUME NEW b \in Batches, batch[b].token # 0, NEW w \in Unfinished(batch[b]),
                        Claiming(w, batch[b].token)
                 PROVE  batch'[b] = batch[b]
      BY <2>1, Zenon DEF CarrierKept, Claiming
    <3> SUFFICES ASSUME b \in Taken(p) PROVE FALSE
      BY <2>3, Zenon
    <3>1. batch[b].by = "taken" /\ Host(b) = p /\ Shape(batch[b])
      BY Zenon DEF Taken, Shapes
    <3>2. w \in batch[b].held
      BY <3>1, Zenon DEF Shape, Unfinished
    <3>3. Cleaning(p) /\ Pending(p) = {}
      BY Zenon DEF ShutdownReturns, Cleaning, Pending
    <3> QED BY <2>8, <3>2, <3>3, Zenon DEF SnapshotCovers
  <2> QED BY <2>1, <2>5, <2>6, <2>7, <2>8, <1>ClaimsStay, Zenon DEF CInv

(* The whole of a process.                                                 *)
<1>ProcClaims.
    ASSUME IInv, Shapes, GuardSets, CInv, NEW p \in Procs, ProcStep(p) PROVE CInv'
  <2> USE <1>ProcClaims
  <2>1. CASE Crash(p)
    <3> DEFINE B == {b \in Batches : Host(b) = p}
    <3>1. /\ DropBatches(p, B) /\ UNCHANGED <<row, nextToken>> /\ faults' # 0
      BY <2>1 DEF Crash, Fault, db, IInv, Counted
    <3>2. \A c \in Batches : batch'[c] = IF c \in B THEN Idle ELSE batch[c]
      BY <3>1, Zenon DEF DropBatches
    <3>3. Idle.token = 0 /\ RowsRelease
      BY <3>1, Zenon DEF Idle, RowsRelease
    <3>4. RowClaims' /\ TokensKnown'
      BY <3>1, <3>2, <3>3, <1>RowsStay, Zenon DEF CInv
    <3> QED BY <3>1, <3>4, Zenon DEF CInv
  <2> QED BY <2>1, <1>StageClaims, <1>CleanupClaims, <1>ReturnClaims, Zenon DEF ProcStep

(* Deletions, lapses, reindexes and detached calls.                        *)
<1>StoreClaims.
    ASSUME IInv, CInv, StoreStep \/ UNCHANGED vars PROVE CInv'
  <2> USE <1>StoreClaims
  <2>1. UNCHANGED <<nextToken, batch, proc>> /\ (faults' = 0 => faults = 0)
    <3>1. Fault => faults' # 0
      BY DEF Fault, IInv, Counted
    <3>2. UNCHANGED <<nextToken, batch, proc>> /\ (Fault \/ UNCHANGED faults)
      BY Zenon DEF StoreStep, Delete, LeaseLapses, Reindex, DetachedRuns, vars
    <3> QED BY <3>1, <3>2, Zenon
  <2>2. RowsRelease
    <3>1. DbInv /\ RowClaims
      BY Zenon DEF IInv, CInv
    <3>2. ASSUME NEW d \in detached, DetachedRuns(d) PROVE RowsRelease
      <4>1. d.work.id \in Ids
        BY Zenon DEF IInv, CallsSound, Calls, Work
      <4> QED BY <3>1, <3>2, <4>1, <1>SetEmbeddingReleases, <1>ReleaseReleases, <1>RowsAlone, Zenon DEF DetachedRuns
    <3>3. CASE UNCHANGED vars
      BY <3>3, <1>RowsAlone, Zenon DEF vars, db
    <3> QED BY <3>1, <3>2, <3>3, <1>WritesRelease, Zenon DEF StoreStep
  <2>3. RowClaims' /\ TokensKnown'
    BY <2>1, <2>2, <1>RowsStay, Zenon DEF CInv
  <2>4. CarrierKept /\ TakenKept
    BY <2>1, <1>KeptCarriers, Zenon DEF TakenKept, Cleaning, Pending
  <2> QED BY <2>1, <2>2, <2>3, <2>4, <1>ClaimsStay, <1>SnapshotStays, Zenon DEF CInv

<1> QED BY <1>OpClaims, <1>RunClaims, <1>ProcClaims, <1>StoreClaims, Zenon DEF BulkNext

(* No row is claimed at first, and tokens start at one.                    *)
LEMMA InitClaims == Init => CInv
<1> SUFFICES ASSUME Init PROVE CInv
  BY Zenon
<1>1. \A i \in Ids : row[i].token = 0
  BY Zenon DEF Init
<1>2. \A b \in Batches : batch[b].token = 0
  BY Zenon DEF Init, Idle
<1>3. \A p \in Procs : ~Cleaning(p)
  BY Zenon DEF Init, Cleaning, Down
<1> QED BY <1>1, <1>2, <1>3 DEF CInv, RowClaims, TokensKnown, ClaimsHeld, SnapshotCovers, Init

(* What a batch has not finished is part of what it carries.               *)
LEMMA CInvCarries == CInv => ClaimsAreCarried
<1> SUFFICES ASSUME CInv, faults = 0, NEW i \in Ids, row[i].token # 0
             PROVE  \E b \in Batches : /\ batch[b].token = row[i].token
                                       /\ \E w \in Carried(b) : Key(w) = <<i, row[i].rev>>
  BY Zenon DEF ClaimsAreCarried
<1> QED BY Zenon DEF CInv, ClaimsHeld, Carried, WorkOf, Unfinished

(* Without faults no claim is left to its lease: skipped duplicates,        *)
(* refused spawns, failed embeddings and timed-out shutdowns all leave a    *)
(* batch that will embed the claimed revision or release it.               *)
THEOREM EveryClaimIsCarried == BulkSpec => []ClaimsAreCarried
<1> QED BY InitIInv, StepIInv, InitGuards, StepShapes, StepGuards, InitClaims, StepClaims, CInvCarries, PTL
        DEF BulkSpec
==============================================================================
