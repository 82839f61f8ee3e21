------------------------ MODULE EmbedExclusionProofs -------------------------
(***************************************************************************)
(* Proofs about the exclusion that the claims of EmbedPipeline provide:    *)
(* while nothing fails, two claimed batches embed the same revision only   *)
(* if a cleanup has handed the claim of one of them back.                  *)
(***************************************************************************)
EXTENDS EmbedPipelineProofs

(***************************************************************************)
(* Tidy batches: the work of one claim is divided among its operation and  *)
(* tasks, every row in one place.                                          *)
(***************************************************************************)
Split(r) ==
    r.token # 0 =>
        /\ \A v, w \in Unfinished(r) : v.id = w.id => v = w
        /\ r.rest \cap (r.todo \cup r.held \cup r.undo) = {}
        /\ r.pc # "apply" => r.todo \cap r.held = {} /\ r.undo \cap (r.todo \cup r.held) = {}

Separate ==
    \A b, c \in Batches : b # c /\ batch[b].token # 0 /\ batch[b].token = batch[c].token =>
        \A v \in Unfinished(batch[b]), w \in Unfinished(batch[c]) : v.id # w.id

Tidy == Separate /\ \A b \in Batches : batch[b].pc # "read" /\ Split(batch[b])

(* Every step keeps batches tidy.                                          *)
LEMMA StepTidy == IInv /\ Shapes /\ CInv /\ Tidy /\ [BulkNext]_vars => Tidy'
(* A batch that keeps some of its work, in one place each.                 *)
<1>TurnTidy.
    ASSUME Tidy, NEW b \in Batches, NEW pc, NEW by, NEW token, NEW rest, NEW todo, NEW held, NEW undo,
           Turns(b, pc, by, token, rest, todo, held, undo), pc # "read",
           \/ token = 0
           \/ /\ token = batch[b].token
              /\ rest \cup todo \cup held \cup undo \subseteq Unfinished(batch[b])
              /\ rest \cap (todo \cup held \cup undo) = {}
              /\ pc # "apply" => todo \cap held = {} /\ undo \cap (todo \cup held) = {}
    PROVE  Tidy'
  <2> USE <1>TurnTidy
  <2>1. /\ \A c \in Batches : c # b => batch'[c] = batch[c]
        /\ batch'[b].pc = pc /\ batch'[b].token = token /\ batch'[b].rest = rest /\ batch'[b].todo = todo
        /\ batch'[b].held = held /\ batch'[b].undo = undo
    BY Zenon DEF Turns, Alone
  <2>2. token # 0 => token = batch[b].token /\ Unfinished(batch'[b]) \subseteq Unfinished(batch[b])
    BY <2>1, Zenon DEF Unfinished
  <2>3. Split(batch'[b])
    <3> SUFFICES ASSUME token # 0
                 PROVE  /\ \A v, w \in Unfinished(batch'[b]) : v.id = w.id => v = w
                        /\ rest \cap (todo \cup held \cup undo) = {}
                        /\ pc # "apply" => todo \cap held = {} /\ undo \cap (todo \cup held) = {}
      BY <2>1, Zenon DEF Split
    <3>1. \A v, w \in Unfinished(batch[b]) : v.id = w.id => v = w
      BY <2>2, Zenon DEF Tidy, Split
    <3> QED BY <2>2, <3>1, Zenon
  <2>4. ASSUME NEW c \in Batches PROVE (batch[c].pc # "read")' /\ Split(batch[c])'
    <3>1. Split(batch[c])' <=> Split(batch'[c])
      BY Zenon DEF Split, Unfinished
    <3> QED BY <2>1, <2>3, <3>1, Zenon DEF Tidy
  <2>5. ASSUME NEW c \in Batches, NEW d \in Batches, c # d, batch'[c].token # 0, batch'[c].token = batch'[d].token,
               NEW v \in Unfinished(batch'[c]), NEW w \in Unfinished(batch'[d])
        PROVE  v.id # w.id
    <3>1. ASSUME NEW x \in Batches, batch'[x].token # 0
          PROVE  batch[x].token = batch'[x].token /\ Unfinished(batch'[x]) \subseteq Unfinished(batch[x])
      BY <2>1, <2>2, <3>1, Zenon
    <3> QED BY <2>5, <3>1 DEF Tidy, Separate
  <2>6. Separate'
    BY <2>5, Zenon DEF Separate, Unfinished
  <2> QED BY <2>4, <2>6, Zenon DEF Tidy

(* Batches that keep their work, whoever owns them, or are dropped.        *)
<1>KeptTidy.
    ASSUME Tidy, \A c \in Batches :
             \/ batch'[c] = Idle
             \/ /\ batch'[c].pc = batch[c].pc /\ batch'[c].token = batch[c].token
                /\ batch'[c].rest = batch[c].rest /\ batch'[c].todo = batch[c].todo
                /\ batch'[c].held = batch[c].held /\ batch'[c].undo = batch[c].undo
    PROVE  Tidy'
  <2> USE <1>KeptTidy
  <2>1. Idle.token = 0 /\ Idle.pc = "idle"
    BY Zenon DEF Idle
  <2>2. \A c \in Batches : batch'[c].token # 0 =>
          batch'[c].token = batch[c].token /\ Unfinished(batch'[c]) = Unfinished(batch[c])
    BY <2>1, Zenon DEF Unfinished
  <2>3. Separate'
    <3> SUFFICES ASSUME NEW c \in Batches, NEW d \in Batches, c # d, batch'[c].token # 0,
                        batch'[c].token = batch'[d].token,
                        NEW v \in Unfinished(batch'[c]), NEW w \in Unfinished(batch'[d])
                 PROVE  v.id # w.id
      BY Zenon DEF Separate, Unfinished
    <3> QED BY <2>2 DEF Tidy, Separate
  <2>4. ASSUME NEW c \in Batches PROVE batch'[c].pc # "read" /\ Split(batch'[c])
    <3>1. CASE batch'[c] = Idle
      BY <2>1, <3>1, Zenon DEF Split
    <3>2. CASE batch'[c] # Idle
      <4>1. batch[c].pc # "read" /\ Split(batch[c])
        BY Zenon DEF Tidy
      <4> QED BY <2>2, <3>2, <4>1, Zenon DEF Split
    <3> QED BY <3>1, <3>2, Zenon
  <2>5. \A c \in Batches : Split(batch[c])' <=> Split(batch'[c])
    BY Zenon DEF Split, Unfinished
  <2> QED BY <2>3, <2>4, <2>5, Zenon DEF Tidy

(* A claim's work has one item per row, under a token of its own.          *)
<1>ClaimTidy.
    ASSUME IInv, Shapes, CInv, Tidy, NEW b \in Batches, NEW S \in SUBSET Ids, Claim(b, S) PROVE Tidy'
  <2> USE <1>ClaimTidy
  <2> DEFINE o == batch[b]
             W == NewWork(S, [i \in S |-> row[i].content], [i \in S |-> row[i].rev])
  <2>1. o.pc = "admitted"
    BY Zenon DEF Claim
  <2>2. /\ \A c \in Batches : c # b => batch'[c] = batch[c]
        /\ batch'[b].pc = "schedule" /\ batch'[b].token = nextToken /\ batch'[b].rest = W
        /\ batch'[b].todo = {} /\ batch'[b].held = {} /\ batch'[b].undo = {}
    BY <2>1, WriteTurns, Zenon DEF Turns, Alone, Shapes, Shape
  <2>3. \A v, w \in W : v.id = w.id => v = w
    <3> SUFFICES ASSUME NEW v \in W, NEW w \in W, v.id = w.id PROVE v = w
      BY Zenon
    <3>1. PICK i \in S : v = [id |-> i, content |-> row[i].content, rev |-> row[i].rev]
      BY Zenon DEF NewWork
    <3>2. PICK j \in S : w = [id |-> j, content |-> row[j].content, rev |-> row[j].rev]
      BY Zenon DEF NewWork
    <3>3. i = j
      BY <3>1, <3>2, Zenon
    <3> QED BY <3>1, <3>2, <3>3, Zenon
  <2> HIDE DEF W
  <2>4. \A c \in Batches : c # b => batch'[c].token # nextToken
    <3>1. \A c \in Batches : batch[c].token < nextToken /\ batch[c].token \in Nat /\ nextToken \in Nat
      BY BatchAt, BatchFields, Zenon DEF CInv, TokensKnown, IInv
    <3> QED BY <2>2, <3>1
  <2>5. Separate'
    <3> SUFFICES ASSUME NEW c \in Batches, NEW d \in Batches, c # d, batch'[c].token # 0,
                        batch'[c].token = batch'[d].token,
                        NEW v \in Unfinished(batch'[c]), NEW w \in Unfinished(batch'[d])
                 PROVE  v.id # w.id
      BY Zenon DEF Separate, Unfinished
    <3>1. c # b /\ d # b
      BY <2>2, <2>4, Zenon
    <3> QED BY <2>2, <3>1 DEF Tidy, Separate
  <2>6. Split(batch'[b])
    BY <2>2, <2>3, Zenon DEF Split, Unfinished
  <2>7. \A c \in Batches : batch'[c].pc # "read" /\ Split(batch'[c])
    BY <2>2, <2>6, Zenon DEF Tidy
  <2>8. \A c \in Batches : Split(batch[c])' <=> Split(batch'[c])
    BY Zenon DEF Split, Unfinished
  <2> QED BY <2>5, <2>7, <2>8, Zenon DEF Tidy

(* A spawn divides the chunk's work from the rest.                         *)
<1>SpawnTidy.
    ASSUME IInv, Shapes, Tidy, NEW b \in Batches, NEW t \in Batches, Spawn(b, t) PROVE Tidy'
  <2> USE <1>SpawnTidy
  <2> DEFINE o == batch[b]
  <2>1. /\ t # b /\ batch[t].pc = "idle" /\ o.todo = {} /\ o.undo = {} /\ o.pc = "prepare"
        /\ \A c \in Batches \ {b, t} : batch'[c] = batch[c]
        /\ batch'[b].token = o.token /\ batch'[t].token = o.token
        /\ batch'[b].pc = "schedule" /\ batch'[t].pc = "embed"
        /\ batch'[b].rest = o.rest /\ batch'[b].todo = {} /\ batch'[b].held = {} /\ batch'[b].undo = {}
        /\ batch'[t].rest = {} /\ batch'[t].todo = {} /\ batch'[t].held = o.held /\ batch'[t].undo = {}
    <3>1. batch[t].pc = "idle" /\ o.todo = {} /\ o.undo = {} /\ o.pc = "prepare"
      BY Zenon DEF Spawn, Prepared
    <3> QED BY <3>1, SpawnTurns
  <2>2. Unfinished(batch'[b]) = o.rest /\ Unfinished(batch'[t]) = o.held /\ Unfinished(o) = o.rest \cup o.held
    BY <2>1, Zenon DEF Unfinished
  <2>3. Split(o)
    BY Zenon DEF Tidy
  <2>4. Split(batch'[b]) /\ Split(batch'[t])
    BY <2>1, <2>2, <2>3 DEF Split
  <2>5. \A c \in Batches : batch'[c].pc # "read" /\ Split(batch'[c])
    BY <2>1, <2>4, Zenon DEF Tidy
  <2>6. batch[t].token = 0
    BY <2>1, Zenon DEF Shapes, Shape
  <2>7. ASSUME NEW v \in o.rest, NEW w \in o.held, o.token # 0 PROVE v.id # w.id
    BY <2>2, <2>3, <2>7, Zenon DEF Split
  <2>8. ASSUME NEW c \in Batches \ {b, t}, o.token # 0, batch[c].token = o.token,
               NEW v \in Unfinished(o), NEW w \in Unfinished(batch[c])
        PROVE  v.id # w.id
    BY <2>8, Zenon DEF Tidy, Separate
  <2>9. Separate'
    <3> SUFFICES ASSUME NEW c \in Batches, NEW d \in Batches, c # d, batch'[c].token # 0,
                        batch'[c].token = batch'[d].token,
                        NEW v \in Unfinished(batch'[c]), NEW w \in Unfinished(batch'[d])
                 PROVE  v.id # w.id
      BY Zenon DEF Separate, Unfinished
    <3>1. CASE c \in {b, t} /\ d \in {b, t}
      BY <2>1, <2>2, <2>7, <3>1
    <3>2. CASE c \notin {b, t} /\ d \notin {b, t}
      <4>1. batch'[c] = batch[c] /\ batch'[d] = batch[d]
        BY <2>1, <3>2, Zenon
      <4> QED BY <4>1, Zenon DEF Tidy, Separate
    <3>3. CASE c \in {b, t} /\ d \notin {b, t}
      <4>1. batch'[d] = batch[d] /\ batch'[c].token = o.token /\ v \in Unfinished(o)
        BY <2>1, <2>2, <3>3, Zenon
      <4> QED BY <2>8, <3>3, <4>1, Zenon
    <3>4. CASE c \notin {b, t} /\ d \in {b, t}
      <4>1. batch'[c] = batch[c] /\ batch'[d].token = o.token /\ w \in Unfinished(o)
        BY <2>1, <2>2, <3>4, Zenon
      <4> QED BY <2>8, <3>4, <4>1, Zenon
    <3> QED BY <3>1, <3>2, <3>3, <3>4, Zenon
  <2>10. \A c \in Batches : Split(batch[c])' <=> Split(batch'[c])
    BY Zenon DEF Split, Unfinished
  <2> QED BY <2>5, <2>9, <2>10, Zenon DEF Tidy

(* The steps of an operation keep batches tidy.                            *)
<1>OpTidy.
    ASSUME IInv, Shapes, CInv, Tidy, NEW b \in Batches, OpStep(b) PROVE Tidy'
  <2> USE <1>OpTidy
  <2> DEFINE o == batch[b]
  <2>0. Shape(o) /\ Split(o) /\ o.pc # "read"
    BY Zenon DEF Shapes, Tidy
  <2>1. CASE Admit(b) \/ OpReturns(b) \/ LastDropped(b)
    BY <2>1, AdmissionTurns, <1>TurnTidy, Zenon
  <2>2. ASSUME NEW S \in SUBSET Ids, NEW f \in [S -> Contents], Store(b, S, f) PROVE Tidy'
    <3>1. o.token = 0
      BY <2>0, <2>2, Zenon DEF Store, Shape
    <3> QED BY <2>2, <3>1, WriteTurns, <1>TurnTidy, Zenon
  <2>3. ASSUME NEW i \in Ids, NEW c \in Contents, Update(b, i, c) PROVE Tidy'
    <3>1. o.token = 0
      BY <2>0, <2>3, Zenon DEF Update, Shape
    <3>2. PICK W : Turns(b, "schedule", o.by, o.token, W, o.todo, o.held, o.undo)
      BY <2>3, WriteTurns, {} \in SUBSET Ids, Zenon
    <3> QED BY <3>1, <3>2, <1>TurnTidy, Zenon
  <2>4. ASSUME NEW S, TakeChunk(b, S) PROVE Tidy'
    <3>1. Turns(b, "prepare", o.by, o.token, o.rest \ S, S, o.held, o.undo)
      BY <2>4, ScheduleTurns, Zenon
    <3>2. o.held = {} /\ o.undo = {} /\ S \subseteq o.rest
      BY <2>0, <2>4, Zenon DEF TakeChunk, Shape
    <3>3. (o.rest \ S) \cup S \cup o.held \cup o.undo \subseteq Unfinished(o)
      BY <3>2, Zenon DEF Unfinished
    <3>4. (o.rest \ S) \cap (S \cup o.held \cup o.undo) = {} /\ S \cap o.held = {} /\ o.undo \cap (S \cup o.held) = {}
      BY <3>2, Zenon
    <3> QED BY <3>1, <3>3, <3>4, <1>TurnTidy, Zenon
  <2>5. ASSUME NEW w, Prepare(b, w) PROVE Tidy'
    <3>1. o.undo = {} /\ w \in o.todo /\ o.pc \in {"prepare", "reprepare"}
      BY <2>5, Zenon DEF Prepare
    <3>2. CASE o.token = 0
      <4>1. PICK H, U : Turns(b, o.pc, o.by, o.token, o.rest, o.todo \ {w}, H, U)
        BY <2>5, ScheduleTurns, Zenon
      <4> QED BY <2>0, <3>2, <4>1, <1>TurnTidy, Zenon
    <3>3. CASE o.token # 0 /\ Key(w) \in inflight[Host(b)]
      <4>1. Turns(b, o.pc, o.by, o.token, o.rest, o.todo \ {w}, o.held, {w})
        BY <2>5, <3>3, ScheduleTurns, Zenon
      <4>2. /\ o.rest \cap ((o.todo \ {w}) \cup o.held \cup {w}) = {} /\ (o.todo \ {w}) \cap o.held = {}
            /\ {w} \cap ((o.todo \ {w}) \cup o.held) = {}
            /\ o.rest \cup (o.todo \ {w}) \cup o.held \cup {w} \subseteq Unfinished(o)
        BY <2>0, <3>1, <3>3 DEF Split, Unfinished
      <4> QED BY <2>0, <4>1, <4>2, <1>TurnTidy, Zenon
    <3>4. CASE o.token # 0 /\ Key(w) \notin inflight[Host(b)]
      <4>1. Turns(b, o.pc, o.by, o.token, o.rest, o.todo \ {w}, o.held \cup {w}, o.undo)
        BY <2>5, <3>4, ScheduleTurns, Zenon
      <4>2. /\ o.rest \cap ((o.todo \ {w}) \cup (o.held \cup {w}) \cup o.undo) = {}
            /\ (o.todo \ {w}) \cap (o.held \cup {w}) = {}
            /\ o.undo \cap ((o.todo \ {w}) \cup (o.held \cup {w})) = {}
            /\ o.rest \cup (o.todo \ {w}) \cup (o.held \cup {w}) \cup o.undo \subseteq Unfinished(o)
        BY <2>0, <3>1, <3>4 DEF Split, Unfinished
      <4> QED BY <2>0, <4>1, <4>2, <1>TurnTidy, Zenon
    <3> QED BY <3>2, <3>3, <3>4, Zenon
  <2>6. CASE NothingToSpawn(b) \/ RunInline(b)
    <3>1. PICK pc : Turns(b, pc, o.by, o.token, o.rest, o.todo, o.held, o.undo) /\ pc # "read" /\ o.pc # "apply"
      BY <2>6, ScheduleTurns, Zenon DEF NothingToSpawn, RunInline, Prepared
    <3>2. o.rest \cup o.todo \cup o.held \cup o.undo \subseteq Unfinished(o)
      BY Zenon DEF Unfinished
    <3> QED BY <2>0, <3>1, <3>2, <1>TurnTidy, Zenon DEF Split
  <2>7. CASE SpawnRefused(b)
    <3>1. o.undo = {} /\ o.todo = {}
      BY <2>7, Zenon DEF SpawnRefused, Prepared
    <3>2. PICK pc : Turns(b, pc, o.by, o.token, o.rest, o.held, {}, o.undo) /\ pc # "read"
      BY <2>7, ScheduleTurns
    <3>3. /\ o.rest \cup o.held \cup {} \cup o.undo \subseteq Unfinished(o)
          /\ o.held \cap {} = {} /\ o.undo \cap (o.held \cup {}) = {}
          /\ o.token # 0 => o.rest \cap (o.held \cup {} \cup o.undo) = {}
      BY <2>0, <3>1, Zenon DEF Unfinished, Split
    <3> QED BY <3>2, <3>3, <1>TurnTidy, Zenon
  <2>8. ASSUME NEW w, ReleaseRejected(b, w) PROVE Tidy'
    <3>1. o.undo = {} /\ w \in o.todo /\ o.pc = "reject" /\ o.held = {} /\ o.token # 0
      BY <2>0, <2>8, Zenon DEF ReleaseRejected, Shape
    <3>2. Turns(b, o.pc, o.by, o.token, o.rest, o.todo \ {w}, o.held, {w})
      BY <2>8, ScheduleTurns, Zenon
    <3>3. /\ o.rest \cup (o.todo \ {w}) \cup o.held \cup {w} \subseteq Unfinished(o)
          /\ (o.todo \ {w}) \cap o.held = {} /\ {w} \cap ((o.todo \ {w}) \cup o.held) = {}
          /\ o.rest \cap ((o.todo \ {w}) \cup o.held \cup {w}) = {}
      BY <2>0, <3>1, Zenon DEF Unfinished, Split
    <3> QED BY <2>0, <3>2, <3>3, <1>TurnTidy, Zenon
  <2> QED BY <2>1, <2>2, <2>3, <2>4, <2>5, <2>6, <2>7, <2>8, <1>ClaimTidy, <1>SpawnTidy, Zenon DEF OpStep

(* So do the steps of a run.                                               *)
<1>RunTidy.
    ASSUME IInv, Shapes, Tidy, NEW b \in Batches, RunStep(b) PROVE Tidy'
  <2> USE <1>RunTidy
  <2> DEFINE o == batch[b]
  <2>0. Shape(o) /\ Split(o) /\ o.pc # "read"
    BY Zenon DEF Shapes, Tidy
  <2>1. ASSUME NEW ok, ExecuteChunk(b, ok) PROVE Tidy'
    <3>1. Turns(b, "apply", o.by, o.token, o.rest, o.held, o.held, o.undo)
      BY <2>1, RunTurns, Zenon
    <3>2. /\ o.rest \cup o.held \cup o.held \cup o.undo \subseteq Unfinished(o)
          /\ o.token # 0 => o.rest \cap (o.held \cup o.held \cup o.undo) = {}
      BY <2>0, Zenon DEF Unfinished, Split
    <3> QED BY <3>1, <3>2, <1>TurnTidy, Zenon
  <2>2. ASSUME NEW w, o.pc = "apply", Finish(b, w) PROVE Tidy'
    <3>1. Turns(b, o.pc, o.by, o.token, o.rest, o.todo \ {w}, o.held \ {w}, {})
      BY <2>2, RunTurns, Zenon
    <3>2. /\ o.rest \cup (o.todo \ {w}) \cup (o.held \ {w}) \cup {} \subseteq Unfinished(o)
          /\ o.token # 0 => o.rest \cap ((o.todo \ {w}) \cup (o.held \ {w}) \cup {}) = {}
      BY <2>0, Zenon DEF Unfinished, Split
    <3> QED BY <2>2, <3>1, <3>2, <1>TurnTidy, Zenon
  <2>3. ASSUME NEW w, o.pc = "apply", w \in o.todo, GiveUp(b, w) PROVE Tidy'
    <3>1. CASE o.token = 0
      BY <2>2, <2>3, <3>1, Zenon DEF GiveUp
    <3>2. CASE o.token # 0
      <4>1. Turns(b, o.pc, o.by, o.token, o.rest, o.todo, o.held, {w})
        BY <2>3, <3>2, RunTurns, Zenon
      <4>2. /\ o.rest \cup o.todo \cup o.held \cup {w} \subseteq Unfinished(o)
            /\ o.rest \cap (o.todo \cup o.held \cup {w}) = {}
        BY <2>0, <2>3, <3>2, Zenon DEF Unfinished, Split
      <4> QED BY <2>3, <4>1, <4>2, <1>TurnTidy, Zenon
    <3> QED BY <3>1, <3>2, Zenon
  <2>4. ASSUME NEW w, Released(b, w) PROVE Tidy'
    <3>1. CASE o.pc = "apply"
      BY <2>2, <2>4, <3>1, Zenon DEF Released
    <3>2. CASE o.pc # "apply"
      <4>1. Turns(b, o.pc, o.by, o.token, o.rest, o.todo, o.held, {})
        BY <2>4, <3>2, RunTurns, Zenon
      <4>2. /\ o.rest \cup o.todo \cup o.held \cup {} \subseteq Unfinished(o)
            /\ o.token # 0 => /\ o.rest \cap (o.todo \cup o.held \cup {}) = {}
                              /\ o.todo \cap o.held = {} /\ {} \cap (o.todo \cup o.held) = {}
        BY <2>0, <3>2, Zenon DEF Unfinished, Split
      <4> QED BY <2>0, <4>1, <4>2, <1>TurnTidy, Zenon
    <3> QED BY <3>1, <3>2, Zenon
  <2>5. ASSUME BatchEnds(b) PROVE Tidy'
    <3>1. o.todo = {} /\ o.held = {} /\ o.undo = {}
      BY <2>0, <2>5, Zenon DEF BatchEnds, Shape
    <3>2. CASE o.by = "op"
      <4>1. Turns(b, "schedule", o.by, o.token, o.rest, o.todo, o.held, o.undo)
        BY <2>5, <3>2, RunTurns, Zenon
      <4>2. /\ o.rest \cup o.todo \cup o.held \cup o.undo \subseteq Unfinished(o)
            /\ o.rest \cap (o.todo \cup o.held \cup o.undo) = {}
            /\ o.todo \cap o.held = {} /\ o.undo \cap (o.todo \cup o.held) = {}
        BY <3>1, Zenon DEF Unfinished
      <4> QED BY <4>1, <4>2, <1>TurnTidy, Zenon
    <3>3. CASE o.by # "op"
      BY <2>5, <3>3, RunTurns, <1>TurnTidy, Zenon
    <3> QED BY <3>2, <3>3, Zenon
  <2> QED BY <2>1, <2>2, <2>3, <2>4, <2>5, Zenon
          DEF RunStep, ApplyStored, ApplyRefused, ApplyErrors, Applying, Release, ReleaseErrors

<1> SUFFICES ASSUME IInv, Shapes, CInv, Tidy, [BulkNext]_vars PROVE Tidy'
  BY Zenon
<1>1. ASSUME NEW p \in Procs, ProcStep(p) PROVE Tidy'
  <2>1. TakeTasks(p) \/ UNCHANGED batch \/ \E B \in SUBSET Batches : DropBatches(p, B)
    <3>1. Taken(p) \in SUBSET Batches /\ {b \in Batches : Host(b) = p} \in SUBSET Batches
      BY Zenon DEF Taken
    <3> QED BY <1>1, <3>1, Zenon DEF ProcStep, Start, BeginShutdown, AdmissionsDrain, AdmissionsTimeOut,
               RequestReset, CleanupBegins, CleanupCall, ShutdownReopens, ShutdownReturns, Exit, Crash
  <2>2. CASE TakeTasks(p)
    BY <2>2, TakeTurns, <1>KeptTidy, Zenon
  <2>3. CASE UNCHANGED batch
    BY <2>3, <1>KeptTidy, Zenon
  <2>4. ASSUME NEW B \in SUBSET Batches, DropBatches(p, B) PROVE Tidy'
    BY <2>4, DropTurns, <1>KeptTidy, Zenon
  <2> QED BY <2>1, <2>2, <2>3, <2>4, Zenon
<1>2. ASSUME StoreStep \/ UNCHANGED vars PROVE Tidy'
  <2>1. UNCHANGED batch
    BY <1>2, Zenon DEF StoreStep, Delete, LeaseLapses, Reindex, DetachedRuns, vars
  <2> QED BY <2>1, <1>KeptTidy, Zenon
<1> QED BY <1>1, <1>2, <1>OpTidy, <1>RunTidy, Zenon DEF BulkNext

(***************************************************************************)
(* One embedding of a revision at a time.  A step of a batch that neither  *)
(* starts an operation, claims nor spawns: the batch ends, or goes on with *)
(* some of its work under its claim.                                       *)
(***************************************************************************)
Continues(b) ==
    /\ Alone(b)
    /\ \/ batch'[b].token = 0
       \/ batch'[b].token = batch[b].token /\ Unfinished(batch'[b]) \subseteq Unfinished(batch[b])

(* The fields of the new record say so.                                    *)
LEMMA TurnContinues ==
    ASSUME NEW b \in Batches, NEW pc, NEW by, NEW token, NEW rest, NEW todo, NEW held, NEW undo,
           Turns(b, pc, by, token, rest, todo, held, undo),
           token = 0 \/ (token = batch[b].token /\ rest \cup todo \cup held \cup undo \subseteq Unfinished(batch[b]))
    PROVE  Continues(b)
BY Zenon DEF Turns, Continues, Unfinished

(* Operations.                                                             *)
LEMMA OpContinues ==
    ASSUME IInv, Shapes, NEW b \in Batches, OpStep(b)
    PROVE  \/ Continues(b) \/ Admit(b)
           \/ \E S \in SUBSET Ids : Claim(b, S)
           \/ \E t \in Batches : Spawn(b, t)
<1> DEFINE o == batch[b]
<1>0. Shape(o)
  BY Zenon DEF Shapes
<1>1. CASE OpReturns(b) \/ LastDropped(b)
  BY <1>1, AdmissionTurns, TurnContinues, Zenon
<1>2. ASSUME NEW S \in SUBSET Ids, NEW f \in [S -> Contents], Store(b, S, f) PROVE Continues(b)
  <2>1. o.token = 0
    BY <1>0, <1>2, Zenon DEF Store, Shape
  <2> QED BY <1>2, <2>1, WriteTurns, TurnContinues, Zenon
<1>3. ASSUME NEW i \in Ids, NEW c \in Contents, Update(b, i, c) PROVE Continues(b)
  <2>1. o.token = 0
    BY <1>0, <1>3, Zenon DEF Update, Shape
  <2>2. PICK W : Turns(b, "schedule", o.by, o.token, W, o.todo, o.held, o.undo)
    BY <1>3, WriteTurns, {} \in SUBSET Ids, Zenon
  <2> QED BY <2>1, <2>2, TurnContinues, Zenon
<1>4. ASSUME NEW S, TakeChunk(b, S) PROVE Continues(b)
  <2>1. Turns(b, "prepare", o.by, o.token, o.rest \ S, S, o.held, o.undo)
    BY <1>4, ScheduleTurns, Zenon
  <2>2. (o.rest \ S) \cup S \cup o.held \cup o.undo \subseteq Unfinished(o)
    BY <1>4, Zenon DEF Unfinished, TakeChunk
  <2> QED BY <2>1, <2>2, TurnContinues, Zenon
<1>5. ASSUME NEW w, Prepare(b, w) PROVE Continues(b)
  <2>1. o.undo = {} /\ w \in o.todo
    BY <1>5, Zenon DEF Prepare
  <2>2. CASE Key(w) \in inflight[Host(b)]
    <3> DEFINE U == IF o.token = 0 THEN {} ELSE {w}
    <3>1. Turns(b, o.pc, o.by, o.token, o.rest, o.todo \ {w}, o.held, U)
      BY <1>5, <2>2, ScheduleTurns, Zenon
    <3>2. o.rest \cup (o.todo \ {w}) \cup o.held \cup U \subseteq Unfinished(o)
      BY <2>1, Zenon DEF Unfinished
    <3> HIDE DEF U
    <3> QED BY <2>1, <3>1, <3>2, TurnContinues, Zenon
  <2>3. CASE Key(w) \notin inflight[Host(b)]
    <3>1. Turns(b, o.pc, o.by, o.token, o.rest, o.todo \ {w}, o.held \cup {w}, o.undo)
      BY <1>5, <2>3, ScheduleTurns, Zenon
    <3>2. o.rest \cup (o.todo \ {w}) \cup (o.held \cup {w}) \cup o.undo \subseteq Unfinished(o)
      BY <2>1, Zenon DEF Unfinished
    <3> QED BY <2>1, <3>1, <3>2, TurnContinues, Zenon
  <2> QED BY <2>2, <2>3, Zenon
<1>6. CASE NothingToSpawn(b) \/ RunInline(b)
  <2>1. PICK pc : Turns(b, pc, o.by, o.token, o.rest, o.todo, o.held, o.undo)
    BY <1>6, ScheduleTurns, Zenon
  <2>2. o.rest \cup o.todo \cup o.held \cup o.undo \subseteq Unfinished(o)
    BY <1>6, Zenon DEF Unfinished, NothingToSpawn, RunInline, Prepared
  <2> QED BY <2>1, <2>2, TurnContinues, Zenon
<1>7. CASE SpawnRefused(b)
  <2>1. PICK pc : Turns(b, pc, o.by, o.token, o.rest, o.held, {}, o.undo)
    BY <1>7, ScheduleTurns, Zenon
  <2>2. o.rest \cup o.held \cup {} \cup o.undo \subseteq Unfinished(o)
    BY <1>7, Zenon DEF Unfinished, SpawnRefused, Prepared
  <2> QED BY <2>1, <2>2, TurnContinues, Zenon
<1>8. ASSUME NEW w, ReleaseRejected(b, w) PROVE Continues(b)
  <2>1. w \in o.todo
    BY <1>8, Zenon DEF ReleaseRejected
  <2>2. Turns(b, o.pc, o.by, o.token, o.rest, o.todo \ {w}, o.held, {w})
    BY <1>8, ScheduleTurns, Zenon
  <2>3. o.rest \cup (o.todo \ {w}) \cup o.held \cup {w} \subseteq Unfinished(o)
    BY <2>1, Zenon DEF Unfinished
  <2> QED BY <2>1, <2>2, <2>3, TurnContinues, Zenon
<1> QED BY <1>1, <1>2, <1>3, <1>4, <1>5, <1>6, <1>7, <1>8, Zenon DEF OpStep

(* Runs; a released item is no longer the batch's.                         *)
LEMMA RunContinues ==
    ASSUME IInv, Shapes, Tidy, NEW b \in Batches, RunStep(b)
    PROVE  /\ Continues(b)
           /\ \A w \in batch[b].undo : Release(b, w) => batch[b].token # 0 /\ w \notin Unfinished(batch'[b])
<1> DEFINE o == batch[b]
<1>0. Shape(o) /\ Split(o)
  BY Zenon DEF Shapes, Tidy
<1>1. ASSUME NEW ok, ExecuteChunk(b, ok) PROVE Continues(b)
  <2>1. Turns(b, "apply", o.by, o.token, o.rest, o.held, o.held, o.undo)
    BY <1>1, RunTurns, Zenon DEF ExecuteChunk
  <2>2. o.rest \cup o.held \cup o.held \cup o.undo \subseteq Unfinished(o)
    BY Zenon DEF Unfinished
  <2> QED BY <2>1, <2>2, TurnContinues, Zenon
<1>2. ASSUME NEW w, o.pc = "apply", Finish(b, w)
      PROVE  Continues(b) /\ (w \in o.undo => w \notin Unfinished(batch'[b]))
  <2>1. Turns(b, o.pc, o.by, o.token, o.rest, o.todo \ {w}, o.held \ {w}, {})
    BY <1>2, RunTurns, Zenon
  <2>2. o.rest \cup (o.todo \ {w}) \cup (o.held \ {w}) \cup {} \subseteq Unfinished(o)
    BY Zenon DEF Unfinished
  <2>3. w \in o.undo => w \notin o.rest
    BY <1>0, Zenon DEF Split, Shape
  <2>4. Unfinished(batch'[b]) = o.rest \cup (o.todo \ {w}) \cup (o.held \ {w})
    BY <2>1, Zenon DEF Turns, Unfinished
  <2> QED BY <1>2, <2>1, <2>2, <2>3, <2>4, TurnContinues, Zenon
<1>3. ASSUME NEW w, o.pc = "apply", w \in o.todo, GiveUp(b, w) PROVE Continues(b)
  <2>1. CASE o.token = 0
    BY <1>2, <1>3, <2>1, Zenon DEF GiveUp
  <2>2. CASE o.token # 0
    <3>1. Turns(b, o.pc, o.by, o.token, o.rest, o.todo, o.held, {w})
      BY <1>3, <2>2, RunTurns, Zenon
    <3>2. o.rest \cup o.todo \cup o.held \cup {w} \subseteq Unfinished(o)
      BY <1>3, Zenon DEF Unfinished
    <3> QED BY <1>3, <3>1, <3>2, TurnContinues
  <2> QED BY <2>1, <2>2, Zenon
<1>4. ASSUME NEW w \in o.undo, Released(b, w)
      PROVE  Continues(b) /\ o.token # 0 /\ w \notin Unfinished(batch'[b])
  <2>0. o.token # 0
    BY <1>0, <1>4, Zenon DEF Shape
  <2>1. CASE o.pc = "apply"
    BY <1>2, <1>4, <2>0, <2>1, Zenon DEF Released
  <2>2. CASE o.pc # "apply"
    <3>1. Turns(b, o.pc, o.by, o.token, o.rest, o.todo, o.held, {})
      BY <1>4, <2>2, RunTurns, Zenon
    <3>2. o.rest \cup o.todo \cup o.held \cup {} \subseteq Unfinished(o)
      BY Zenon DEF Unfinished
    <3>3. w \notin o.rest \cup o.todo \cup o.held
      BY <1>0, <1>4, <2>0, <2>2, Zenon DEF Split
    <3>4. Unfinished(batch'[b]) = o.rest \cup o.todo \cup o.held
      BY <3>1, Zenon DEF Turns, Unfinished
    <3> QED BY <2>0, <3>1, <3>2, <3>3, <3>4, TurnContinues, Zenon
  <2> QED BY <2>1, <2>2, Zenon
<1>5. ASSUME BatchEnds(b) PROVE Continues(b)
  <2>1. CASE o.by = "op"
    <3>1. Turns(b, "schedule", o.by, o.token, o.rest, o.todo, o.held, o.undo)
      BY <1>5, <2>1, RunTurns, Zenon DEF BatchEnds
    <3>2. o.rest \cup o.todo \cup o.held \cup o.undo \subseteq Unfinished(o)
      BY Zenon DEF Unfinished
    <3> QED BY <3>1, <3>2, TurnContinues, Zenon
  <2>2. CASE o.by # "op"
    BY <1>5, <2>2, RunTurns, TurnContinues, Zenon
  <2> QED BY <2>1, <2>2, Zenon
<1>6. Continues(b)
  BY <1>1, <1>2, <1>3, <1>4, <1>5, Zenon
     DEF RunStep, ApplyStored, ApplyRefused, ApplyErrors, Applying, Release, ReleaseErrors
<1> QED BY <1>4, <1>6, Zenon DEF Release

(***************************************************************************)
(* Claimed work is exclusive, except what a cleanup has handed back.       *)
(***************************************************************************)
Unlapsed == \A i \in Ids : ~row[i].lapsed

(* The row of unembedded claimed work still carries the claim.             *)
Exclusive ==
    \A b \in Batches : batch[b].token # 0 => \A w \in Unfinished(batch[b]) :
        row[w.id].status = "live" /\ row[w.id].rev = w.rev /\ ~row[w.id].has =>
            row[w.id].token = batch[b].token \/ HandedBack(b, w)

Apart ==
    \A b, c \in Batches : b # c /\ batch[b].token # 0 /\ batch[c].token # 0 =>
        \A v \in Unfinished(batch[b]), w \in Unfinished(batch[c]) :
            Key(v) = Key(w) => HandedBack(b, v) \/ HandedBack(c, w)

(* A cleanup releases only claims of its own process, a detached call only  *)
(* one that no batch carries.                                              *)
SnapshotOwn ==
    \A p \in Procs : \A a \in proc[p].snapshot :
        /\ a.token # 0 /\ a.token < nextToken
        /\ \A b \in Batches : batch[b].token = a.token =>
              \A w \in Unfinished(batch[b]) : w.id = a.id => Host(b) = p

DetachedApart ==
    \A d \in detached :
        /\ d.token < nextToken
        /\ \A b \in Batches : d.token # 0 /\ batch[b].token = d.token =>
              \A w \in Unfinished(batch[b]) : w.id # d.work.id

EInv == Unlapsed /\ Exclusive /\ Apart /\ SnapshotOwn /\ DetachedApart

Exclusion == faults = 0 => EInv

(* The same, after a step.                                                 *)
BackNext(c, w) == ActiveClaim(w, batch'[c].token) \in proc'[Host(c)].released

(* The work of c was the work of b.                                        *)
Heir(c, b) ==
    /\ batch'[c].token = batch[b].token /\ Unfinished(batch'[c]) \subseteq Unfinished(batch[b])
    /\ Host(c) = Host(b) /\ proc[Host(b)].released \subseteq proc'[Host(b)].released

Inherits(c) == batch'[c].token = 0 \/ Unfinished(batch'[c]) = {} \/ \E b \in Batches : Heir(c, b)

(* The work of c is newly claimed.                                         *)
Fresh(c) ==
    /\ batch'[c].token = nextToken
    /\ \A w \in Unfinished(batch'[c]) :
          /\ row'[w.id].token = nextToken
          /\ \A d \in Batches : d # c /\ batch'[d].token # 0 =>
                \A v \in Unfinished(batch'[d]) : Key(v) = Key(w) => BackNext(d, v)

(* No batch carries the claim t on revision n of row i, unless handed back. *)
Unheld(i, n, t) ==
    \A c \in Batches : batch'[c].token = t /\ t # 0 =>
        \A v \in Unfinished(batch'[c]) : v.id = i /\ v.rev = n => BackNext(c, v)

(* A row that lacks its vector lacked it before, and kept its claim unless  *)
(* no batch carries it.                                                    *)
RowAges(i) ==
    /\ row'[i].lapsed => row[i].lapsed
    /\ row'[i].status = "live" /\ ~row'[i].has =>
          \/ row[i].status = "unborn"
          \/ row'[i].rev > row[i].rev
          \/ /\ row[i].status = "live" /\ ~row[i].has /\ row'[i].rev = row[i].rev
             /\ row'[i].token = row[i].token \/ Unheld(i, row[i].rev, row[i].token)

(* Snapshots and detached calls of a step.                                 *)
SnapshotsFollow ==
    \A p \in Procs : \A a \in proc'[p].snapshot :
        \/ a \in proc[p].snapshot
        \/ /\ a.token # 0 /\ a.token < nextToken
           /\ \A b \in Batches : batch'[b].token = a.token =>
                 \A w \in Unfinished(batch'[b]) : w.id = a.id => Host(b) = p

CallsFollow ==
    \A d \in detached' :
        \/ d \in detached
        \/ /\ d.token < nextToken
           /\ \A b \in Batches : d.token # 0 /\ batch'[b].token = d.token =>
                 \A w \in Unfinished(batch'[b]) : w.id # d.work.id

(* Every step keeps claims exclusive, while nothing fails.                 *)
LEMMA StepExclusion == IInv /\ Shapes /\ GuardSets /\ CInv /\ Tidy /\ Exclusion /\ [BulkNext]_vars => Exclusion'
(* What was handed back stays so with the work.                            *)
<1>HeirBack.
    ASSUME NEW b \in Batches, NEW c \in Batches, Heir(c, b), NEW w, HandedBack(b, w) PROVE BackNext(c, w)
  BY <1>HeirBack, Zenon DEF Heir, HandedBack, BackNext

(* Work that stays with its claim stays exclusive.                         *)
<1>ExclusiveStays.
    ASSUME IInv, Exclusive, \A c \in Batches : Inherits(c) \/ Fresh(c), \A i \in Ids : RowAges(i)
    PROVE  Exclusive'
  <2> USE <1>ExclusiveStays
  <2> SUFFICES ASSUME NEW c \in Batches, batch'[c].token # 0, NEW w \in Unfinished(batch'[c]),
                      row'[w.id].status = "live", row'[w.id].rev = w.rev, ~row'[w.id].has
               PROVE  row'[w.id].token = batch'[c].token \/ BackNext(c, w)
    BY Zenon DEF Exclusive, HandedBack, BackNext, Unfinished
  <2>1. CASE Fresh(c)
    BY <2>1, Zenon DEF Fresh
  <2>2. CASE Inherits(c)
    <3>1. PICK b \in Batches : Heir(c, b)
      BY <2>2, Zenon DEF Inherits
    <3>2. w \in Unfinished(batch[b]) /\ batch[b].token = batch'[c].token /\ batch[b].token # 0
      BY <3>1, Zenon DEF Heir
    <3>3. w \in Work /\ Faithful(w)
      BY <3>2, BatchAt, BatchFields, Zenon DEF Unfinished, Sound, WorkOf
    <3>4. w.id \in Ids /\ w.rev \in Nat /\ row[w.id].rev \in Nat
      BY <3>3, Zenon DEF Work, IInv, DbInv, DbTyped, Rows
    <3>5. /\ row[w.id].status = "live" /\ ~row[w.id].has /\ row'[w.id].rev = row[w.id].rev
          /\ row'[w.id].token = row[w.id].token \/ Unheld(w.id, row[w.id].rev, row[w.id].token)
      BY <3>3, <3>4 DEF RowAges, Faithful
    <3>6. row[w.id].token = batch[b].token \/ HandedBack(b, w)
      BY <3>2, <3>5, Zenon DEF Exclusive
    <3>7. Unheld(w.id, row[w.id].rev, row[w.id].token) /\ row[w.id].token = batch[b].token => BackNext(c, w)
      BY <3>2, <3>5, Zenon DEF Unheld
    <3> QED BY <3>1, <3>2, <3>5, <3>6, <3>7, <1>HeirBack, Zenon
  <2> QED BY <2>1, <2>2, Zenon

(* Two batches do not come to share a revision.                            *)
<1>ApartStays.
    ASSUME Apart, Tidy', \A c \in Batches : Inherits(c) \/ Fresh(c) PROVE Apart'
  <2> USE <1>ApartStays
  <2> SUFFICES ASSUME NEW c \in Batches, NEW d \in Batches, c # d, batch'[c].token # 0, batch'[d].token # 0,
                      NEW v \in Unfinished(batch'[c]), NEW w \in Unfinished(batch'[d]), Key(v) = Key(w)
               PROVE  BackNext(c, v) \/ BackNext(d, w)
    BY Zenon DEF Apart, HandedBack, BackNext, Unfinished, Key
  <2>1. CASE Fresh(c) \/ Fresh(d)
    BY <2>1, Zenon DEF Fresh
  <2>2. CASE Inherits(c) /\ Inherits(d)
    <3>1. PICK b \in Batches : Heir(c, b)
      BY <2>2, Zenon DEF Inherits
    <3>2. PICK e \in Batches : Heir(d, e)
      BY <2>2, Zenon DEF Inherits
    <3>3. CASE b # e
      <4>1. HandedBack(b, v) \/ HandedBack(e, w)
        BY <3>1, <3>2, <3>3, Zenon DEF Heir, Apart
      <4> QED BY <3>1, <3>2, <4>1, <1>HeirBack, Zenon
    <3>4. CASE b = e
      <4>1. batch'[c].token = batch'[d].token
        BY <3>1, <3>2, <3>4, Zenon DEF Heir
      <4>2. v.id # w.id
        BY <4>1, Zenon DEF Tidy, Separate, Unfinished
      <4> QED BY <4>2, Zenon DEF Key
    <3> QED BY <3>3, <3>4, Zenon
  <2> QED BY <2>1, <2>2, Zenon

(* A step whose work, rows, snapshots and calls follow keeps claims        *)
(* exclusive.                                                              *)
<1>ExclusionStays.
    ASSUME IInv, EInv, Tidy', \A c \in Batches : Inherits(c) \/ Fresh(c), \A i \in Ids : RowAges(i),
           SnapshotsFollow, CallsFollow, nextToken' \in {nextToken, nextToken + 1}, IInv'
    PROVE  EInv'
  <2> USE <1>ExclusionStays
  <2>1. Unlapsed'
    BY Zenon DEF EInv, Unlapsed, RowAges
  <2>2. Exclusive' /\ Apart'
    BY <1>ExclusiveStays, <1>ApartStays, Zenon DEF EInv
  <2>3. nextToken \in Nat /\ nextToken' \in Nat /\ nextToken <= nextToken'
    BY DEF IInv
  <2>4. ASSUME NEW p \in Procs, NEW a \in proc'[p].snapshot
        PROVE  /\ a.token # 0 /\ a.token < nextToken'
               /\ \A c \in Batches : batch'[c].token = a.token =>
                     \A w \in Unfinished(batch'[c]) : w.id = a.id => Host(c) = p
    <3>0. a.token \in Nat
      BY DEF IInv, ProcRecords, Claims
    <3>1. CASE a \notin proc[p].snapshot
      BY <2>3, <3>0, <3>1 DEF SnapshotsFollow
    <3>2. CASE a \in proc[p].snapshot
      <4>1. a.token # 0 /\ a.token < nextToken
        BY <3>2, Zenon DEF EInv, SnapshotOwn
      <4>2. ASSUME NEW c \in Batches, batch'[c].token = a.token, NEW w \in Unfinished(batch'[c]), w.id = a.id
            PROVE  Host(c) = p
        <5>1. Inherits(c)
          BY <2>3, <3>0, <4>1, <4>2 DEF Fresh
        <5>2. PICK b \in Batches : Heir(c, b)
          BY <4>1, <4>2, <5>1, Zenon DEF Inherits
        <5> QED BY <3>2, <4>2, <5>2, Zenon DEF Heir, EInv, SnapshotOwn
      <4> QED BY <2>3, <3>0, <4>1, <4>2
    <3> QED BY <3>1, <3>2, Zenon
  <2>5. SnapshotOwn'
    BY <2>4, Zenon DEF SnapshotOwn, Unfinished
  <2>6. ASSUME NEW d \in detached'
        PROVE  /\ d.token < nextToken'
               /\ \A c \in Batches : d.token # 0 /\ batch'[c].token = d.token =>
                     \A w \in Unfinished(batch'[c]) : w.id # d.work.id
    <3>0. d.token \in Nat
      BY Zenon DEF IInv, CallsSound, Calls
    <3>1. CASE d \notin detached
      BY <2>3, <3>0, <3>1 DEF CallsFollow
    <3>2. CASE d \in detached
      <4>1. d.token < nextToken
        BY <3>2, Zenon DEF EInv, DetachedApart
      <4>2. ASSUME NEW c \in Batches, d.token # 0, batch'[c].token = d.token, NEW w \in Unfinished(batch'[c])
            PROVE  w.id # d.work.id
        <5>1. Inherits(c)
          BY <2>3, <3>0, <4>1, <4>2 DEF Fresh
        <5>2. PICK b \in Batches : Heir(c, b)
          BY <4>2, <5>1, Zenon DEF Inherits
        <5> QED BY <3>2, <4>2, <5>2, Zenon DEF Heir, EInv, DetachedApart
      <4> QED BY <2>3, <3>0, <4>1, <4>2
    <3> QED BY <3>1, <3>2, Zenon
  <2>7. DetachedApart'
    BY <2>6, Zenon DEF DetachedApart, Unfinished
  <2> QED BY <2>1, <2>2, <2>5, <2>7, Zenon DEF EInv

(* A store that is left alone.                                             *)
<1>SameAges. ASSUME row' = row, NEW i \in Ids PROVE RowAges(i)
  <2> USE <1>SameAges
  <2>1. row'[i] = row[i]
    BY Zenon
  <2> QED BY <2>1, Zenon DEF RowAges

(* A row that is cleared of its claim has no lapsed one.                   *)
<1>ClearedLapse. \A r \in Rows : Unclaimed(r).lapsed = FALSE /\ Unembedded(r).lapsed = FALSE
  BY Zenon DEF Rows, Unclaimed, Unembedded

(* Storing a vector.                                                       *)
<1>SetEmbeddingAges.
    ASSUME DbInv, NEW w, w.id \in Ids, NEW pr, SetEmbedding(w, pr), NEW i \in Ids PROVE RowAges(i)
  <2> USE <1>SetEmbeddingAges
  <2> DEFINE r == Unclaimed(row[w.id])
             n == [r EXCEPT !.has = TRUE]
  <2>1. r \in Rows /\ r.lapsed = FALSE
    BY ClearedRow, <1>ClearedLapse, Zenon DEF DbInv, DbTyped
  <2>2. row' = [row EXCEPT ![w.id] = n]
    BY Zenon DEF SetEmbedding
  <2> HIDE DEF r
  <2>3. n.has /\ ~n.lapsed
    BY <2>1, Zenon DEF Rows
  <2> HIDE DEF n
  <2>4. CASE i = w.id
    <3>1. row'[i] = n
      BY <2>2, <2>4, Zenon DEF DbInv, DbTyped
    <3> QED BY <2>3, <3>1, Zenon DEF RowAges
  <2>5. CASE i # w.id
    <3>1. row'[i] = row[i]
      BY <2>2, <2>5, Zenon DEF DbInv, DbTyped
    <3> QED BY <3>1, Zenon DEF RowAges
  <2> QED BY <2>4, <2>5, Zenon

(* Releasing a claim that no batch carries, unless handed back.            *)
<1>ReleaseAges.
    ASSUME DbInv, NEW j \in Ids, NEW rev, NEW t, ReleaseClaim(j, rev, t), Unheld(j, rev, t), NEW i \in Ids
    PROVE  RowAges(i)
  <2> USE <1>ReleaseAges
  <2> DEFINE n == Unclaimed(row[j])
  <2>1. n.status = row[j].status /\ n.has = row[j].has /\ n.rev = row[j].rev /\ ~n.lapsed
    <3>1. row[j] \in Rows
      BY Zenon DEF DbInv, DbTyped
    <3> QED BY <3>1, ClearedRow, <1>ClearedLapse, Zenon
  <2>2. row' = row \/ (row[j].token = t /\ row[j].rev = rev /\ row' = [row EXCEPT ![j] = n])
    BY Zenon DEF ReleaseClaim
  <2> HIDE DEF n
  <2>3. CASE row' = row
    BY <2>3, <1>SameAges, Zenon
  <2>4. CASE row[j].token = t /\ row[j].rev = rev /\ row' = [row EXCEPT ![j] = n]
    <3>1. CASE i = j
      <4>1. row'[i] = n
        BY <2>4, <3>1, Zenon DEF DbInv, DbTyped
      <4> QED BY <2>1, <2>4, <3>1, <4>1, Zenon DEF RowAges
    <3>2. CASE i # j
      <4>1. row'[i] = row[i]
        BY <2>4, <3>2, Zenon DEF DbInv, DbTyped
      <4> QED BY <4>1, Zenon DEF RowAges
    <3> QED BY <3>1, <3>2, Zenon
  <2> QED BY <2>2, <2>3, <2>4, Zenon

(* Writes, deletions and claims.                                           *)
<1>WriteAges.
    ASSUME DbInv, NEW j \in Ids,
           \/ \E b \in Batches, S \in SUBSET Ids : \E f \in [S -> Contents] : Store(b, S, f)
           \/ \E b \in Batches, i \in Ids, c \in Contents : Update(b, i, c)
           \/ \E S \in SUBSET Ids : Delete(S)
    PROVE  RowAges(j)
  <2> USE <1>WriteAges
  <2>0. \A i \in Ids : row[i] \in Rows
    BY Zenon DEF DbInv, DbTyped
  <2> DEFINE u(i) == Unembedded(row[i])
  <2>00. \A i \in Ids : u(i) \in Rows /\ ~u(i).lapsed
    BY <2>0, ClearedRow, <1>ClearedLapse, Zenon
  <2> HIDE DEF u
  <2>1. ASSUME NEW b \in Batches, NEW S \in SUBSET Ids, NEW f \in [S -> Contents], Store(b, S, f) PROVE RowAges(j)
    <3> DEFINE n(i) == [row[i] EXCEPT !.status = "live", !.content = f[i]]
    <3>1. \A i \in S : n(i).lapsed = row[i].lapsed
      BY <2>0, Zenon DEF Rows
    <3>2. row' = [i \in Ids |-> IF i \in S THEN n(i) ELSE row[i]] /\ \A i \in S : row[i].status = "unborn"
      BY <2>1, Zenon DEF Store
    <3> HIDE DEF n
    <3>3. CASE j \in S
      <4>1. row'[j] = n(j) /\ row[j].status = "unborn"
        BY <3>2, <3>3, Zenon
      <4> QED BY <3>1, <3>3, <4>1, Zenon DEF RowAges
    <3>4. CASE j \notin S
      <4>1. row'[j] = row[j]
        BY <3>2, <3>4, Zenon
      <4> QED BY <4>1, Zenon DEF RowAges
    <3> QED BY <3>3, <3>4, Zenon
  <2>2. ASSUME NEW b \in Batches, NEW i \in Ids, NEW c \in Contents, Update(b, i, c) PROVE RowAges(j)
    <3> DEFINE k == row[i].rev + 1
               n == [u(i) EXCEPT !.content = c, !.rev = k]
    <3>0. row[i].rev \in Nat
      BY <2>0, Zenon DEF Rows
    <3>1. row' = [row EXCEPT ![i] = n]
      BY <2>2, Zenon DEF Update, u
    <3>5. k > row[i].rev
      BY <3>0
    <3> HIDE DEF k
    <3>2. n.rev = k /\ ~n.lapsed
      BY <2>00, Zenon DEF Rows
    <3> HIDE DEF n
    <3>3. CASE j = i
      <4>1. row'[j] = n
        BY <3>1, <3>3, Zenon DEF DbInv, DbTyped
      <4> QED BY <3>2, <3>3, <3>5, <4>1, Zenon DEF RowAges
    <3>4. CASE j # i
      <4>1. row'[j] = row[j]
        BY <3>1, <3>4, Zenon DEF DbInv, DbTyped
      <4> QED BY <4>1, Zenon DEF RowAges
    <3> QED BY <3>3, <3>4, Zenon
  <2>3. ASSUME NEW S \in SUBSET Ids, Delete(S) PROVE RowAges(j)
    <3> DEFINE n(i) == [u(i) EXCEPT !.status = "gone", !.content = Absent]
    <3>1. row' = [i \in Ids |-> IF i \in S THEN n(i) ELSE row[i]]
      BY <2>3, Zenon DEF Delete, u
    <3>2. \A i \in Ids : n(i).status = "gone" /\ ~n(i).lapsed
      BY <2>00, Zenon DEF Rows
    <3>3. "gone" # "live"
      BY Zenon
    <3> HIDE DEF n
    <3>4. CASE j \in S
      <4>1. row'[j] = n(j)
        BY <3>1, <3>4, Zenon
      <4>2. row'[j].status # "live" /\ ~row'[j].lapsed
        BY <3>2, <3>3, <4>1, Zenon
      <4> QED BY <4>2, Zenon DEF RowAges
    <3>5. CASE j \notin S
      <4>1. row'[j] = row[j]
        BY <3>1, <3>5, Zenon
      <4> QED BY <4>1, Zenon DEF RowAges
    <3> QED BY <3>4, <3>5, Zenon
  <2> QED BY <2>1, <2>2, <2>3, Zenon

(* A claim takes rows that carry none.                                     *)
<1>ClaimAges.
    ASSUME DbInv, Unlapsed, NEW b \in Batches, NEW S \in SUBSET Ids, Claim(b, S), NEW i \in Ids
    PROVE  /\ RowAges(i)
           /\ i \in S => row[i].token = 0 /\ row[i].status = "live" /\ ~row[i].has /\ row'[i].token = nextToken
  <2> USE <1>ClaimAges
  <2> DEFINE n(j) == [row[j] EXCEPT !.token = nextToken, !.lapsed = FALSE]
  <2>1. row' = [j \in Ids |-> IF j \in S THEN n(j) ELSE row[j]] /\ \A j \in S : Claimable(j)
    BY Zenon DEF Claim
  <2>2. /\ n(i).token = nextToken /\ ~n(i).lapsed /\ n(i).status = row[i].status
        /\ n(i).has = row[i].has /\ n(i).rev = row[i].rev
    BY DEF DbInv, DbTyped, Rows
  <2>3. i \in S => row[i].token = 0 /\ row[i].status = "live" /\ ~row[i].has
    BY <2>1, Zenon DEF Claimable, Unlapsed
  <2> HIDE DEF n
  <2>4. CASE i \in S
    <3>1. row'[i] = n(i)
      BY <2>1, <2>4, Zenon
    <3>2. Unheld(i, row[i].rev, row[i].token)
      BY <2>3, <2>4, Zenon DEF Unheld
    <3>3. RowAges(i)
      BY <2>2, <2>3, <2>4, <3>1, <3>2, Zenon DEF RowAges
    <3> QED BY <2>2, <2>3, <2>4, <3>1, <3>3, Zenon
  <2>5. CASE i \notin S
    <3>1. row'[i] = row[i]
      BY <2>1, <2>5, Zenon
    <3>2. RowAges(i)
      BY <3>1, Zenon DEF RowAges
    <3> QED BY <2>5, <3>2, Zenon
  <2> QED BY <2>4, <2>5, Zenon

(* A batch keeps its work, or part of it, in a process that stays.         *)
<1>KeptInherits.
    ASSUME NEW c \in Batches, batch'[c].token = batch[c].token,
           Unfinished(batch'[c]) \subseteq Unfinished(batch[c]),
           proc[Host(c)].released \subseteq proc'[Host(c)].released
    PROVE  Inherits(c)
  <2> USE <1>KeptInherits
  <2>1. Heir(c, c)
    BY Zenon DEF Heir
  <2> QED BY <2>1, Zenon DEF Inherits

(* A batch that goes on, or ends, hands nothing to another.                *)
<1>ContinuesInherits.
    ASSUME NEW b \in Batches, Continues(b), NEW c \in Batches, proc'[Host(c)].released = proc[Host(c)].released
    PROVE  Inherits(c)
  <2> USE <1>ContinuesInherits
  <2>1. CASE batch'[c].token = 0
    BY <2>1, Zenon DEF Inherits
  <2>2. CASE batch'[c].token # 0
    <3>1. batch'[c].token = batch[c].token /\ Unfinished(batch'[c]) \subseteq Unfinished(batch[c])
      BY <2>2, Zenon DEF Continues, Alone
    <3> QED BY <3>1, <1>KeptInherits, Zenon
  <2> QED BY <2>1, <2>2, Zenon

(* Snapshots and calls that a step of a batch or of the store leaves.      *)
<1>SnapshotsLeft.
    ASSUME \A p \in Procs : proc'[p].snapshot = proc[p].snapshot, detached' \subseteq detached
    PROVE  SnapshotsFollow /\ CallsFollow
  BY <1>SnapshotsLeft, Zenon DEF SnapshotsFollow, CallsFollow

(* A claim's work is fresh.                                                *)
<1>ClaimExclusion.
    ASSUME IInv, IInv', Shapes, Tidy', EInv, NEW b \in Batches, NEW S \in SUBSET Ids, Claim(b, S) PROVE EInv'
  <2> USE <1>ClaimExclusion
  <2> DEFINE W == NewWork(S, [i \in S |-> row[i].content], [i \in S |-> row[i].rev])
  <2>1. DbInv /\ Unlapsed /\ Exclusive
    BY Zenon DEF IInv, EInv
  <2>2. batch[b].pc = "admitted" /\ nextToken' = nextToken + 1 /\ UNCHANGED <<proc, detached>>
    BY Zenon DEF Claim
  <2>3. /\ \A c \in Batches : c # b => batch'[c] = batch[c]
        /\ batch'[b].token = nextToken /\ Unfinished(batch'[b]) = W
    <3> DEFINE o == batch[b]
    <3>1. Turns(b, "schedule", o.by, nextToken, W, o.todo, o.held, o.undo)
      BY WriteTurns, Zenon
    <3>2. o.todo = {} /\ o.held = {} /\ o.undo = {}
      BY <2>2, Zenon DEF Shapes, Shape
    <3> HIDE DEF o, W
    <3> QED BY <3>1, <3>2, Zenon DEF Turns, Alone, Unfinished
  <2>4. \A w \in W : w.id \in S /\ w.rev = row[w.id].rev
    BY DEF NewWork
  <2> HIDE DEF W
  <2>6. ASSUME NEW w \in W, NEW d \in Batches, d # b, batch'[d].token # 0,
               NEW v \in Unfinished(batch'[d]), Key(v) = Key(w)
        PROVE  BackNext(d, v)
    <3>1. batch'[d] = batch[d] /\ batch[d].token \in Nat
      BY <2>3, <2>6, BatchAt, BatchFields, Zenon
    <3>2. v.id = w.id /\ v.rev = w.rev
      BY <2>6, Zenon DEF Key
    <3>3. row[w.id].token = 0 /\ row[w.id].status = "live" /\ ~row[w.id].has /\ row[w.id].rev = w.rev
      BY <2>1, <2>4, <1>ClaimAges, Zenon
    <3>4. HandedBack(d, v)
      BY <2>1, <2>6, <3>1, <3>2, <3>3 DEF Exclusive
    <3> QED BY <2>2, <3>1, <3>4, Zenon DEF HandedBack, BackNext
  <2>7. Fresh(b)
    BY <2>1, <2>3, <2>4, <2>6, <1>ClaimAges, Zenon DEF Fresh
  <2>8. ASSUME NEW c \in Batches, c # b PROVE Inherits(c)
    BY <2>2, <2>3, <2>8, <1>KeptInherits, Zenon
  <2>9. SnapshotsFollow /\ CallsFollow
    BY <2>2, <1>SnapshotsLeft, Zenon
  <2>10. \A i \in Ids : RowAges(i)
    BY <2>1, <1>ClaimAges, Zenon
  <2> QED BY <2>2, <2>7, <2>8, <2>9, <2>10, <1>ExclusionStays, Zenon

(* A spawn hands the chunk to a task of the same process.                  *)
<1>SpawnExclusion.
    ASSUME IInv, IInv', Shapes, Tidy', EInv, NEW b \in Batches, NEW t \in Batches, Spawn(b, t) PROVE EInv'
  <2> USE <1>SpawnExclusion
  <2>1. Host(t) = Host(b) /\ UNCHANGED <<row, nextToken, proc, detached>>
    BY Zenon DEF Spawn, db
  <2>3. /\ t # b /\ \A c \in Batches \ {b, t} : batch'[c] = batch[c]
        /\ batch'[b].token = batch[b].token /\ batch'[t].token = batch[b].token
        /\ Unfinished(batch'[b]) \subseteq Unfinished(batch[b])
        /\ Unfinished(batch'[t]) \subseteq Unfinished(batch[b])
    BY SpawnTurns DEF Unfinished
  <2>4. ASSUME NEW c \in Batches PROVE Inherits(c)
    <3>1. CASE c \in {b, t}
      <4>1. Heir(c, b)
        BY <2>1, <2>3, <3>1, Zenon DEF Heir
      <4> QED BY <4>1, Zenon DEF Inherits
    <3>2. CASE c \notin {b, t}
      BY <2>1, <2>3, <3>2, <1>KeptInherits, Zenon
    <3> QED BY <3>1, <3>2, Zenon
  <2>5. SnapshotsFollow /\ CallsFollow
    BY <2>1, <1>SnapshotsLeft, Zenon
  <2>6. \A i \in Ids : RowAges(i)
    BY <2>1, <1>SameAges, Zenon
  <2> QED BY <2>1, <2>4, <2>5, <2>6, <1>ExclusionStays, Zenon

(* The steps of an operation.                                              *)
<1>OpExclusion.
    ASSUME IInv, IInv', Shapes, Tidy, Tidy', EInv, NEW b \in Batches, OpStep(b) PROVE EInv'
  <2> USE <1>OpExclusion
  <2>1. CASE \E S \in SUBSET Ids : Claim(b, S)
    BY <2>1, <1>ClaimExclusion, Zenon
  <2>2. CASE \E t \in Batches : Spawn(b, t)
    BY <2>2, <1>SpawnExclusion, Zenon
  <2>3. CASE ~(\E S \in SUBSET Ids : Claim(b, S)) /\ ~(\E t \in Batches : Spawn(b, t))
    <3>1. /\ UNCHANGED <<nextToken, detached>>
          /\ UNCHANGED proc \/ LastDropped(b)
      BY <2>3, Zenon DEF OpStep, Admit, OpReturns, LastDropped, Store, Update, TakeChunk, Prepare, ReleaseRejected,
         NothingToSpawn, SpawnRefused, RunInline
    <3>2. \/ \E S \in SUBSET Ids : \E f \in [S -> Contents] : Store(b, S, f)
          \/ \E i \in Ids, c \in Contents : Update(b, i, c)
          \/ UNCHANGED row
      BY <2>3, Zenon DEF OpStep, Admit, OpReturns, LastDropped, TakeChunk, Prepare, ReleaseRejected,
         NothingToSpawn, SpawnRefused, RunInline, db
    <3>3. \A i \in Ids : RowAges(i)
      BY <3>2, <1>WriteAges, <1>SameAges, Zenon DEF IInv
    <3>4. Continues(b)
      <4>1. CASE Admit(b)
        BY <4>1, AdmissionTurns, TurnContinues, Zenon
      <4> QED BY <2>3, <4>1, OpContinues, Zenon
    <3>7. \A p \in Procs : proc'[p].snapshot = proc[p].snapshot /\ proc'[p].released = proc[p].released
      <4>1. CASE LastDropped(b)
        <5>1. Host(b) \in Procs /\ Enters(Host(b), proc[Host(b)].stage)
          BY <4>1, BatchAt, ProcMoves, Zenon
        <5> QED BY <5>1, Zenon DEF Enters, Moves
      <4> QED BY <3>1, <4>1, Zenon
    <3>5. \A c \in Batches : Inherits(c)
      BY <3>4, <3>7, BatchAt, <1>ContinuesInherits, Zenon
    <3>6. SnapshotsFollow /\ CallsFollow
      BY <3>1, <3>7, <1>SnapshotsLeft, Zenon
    <3> QED BY <3>1, <3>3, <3>5, <3>6, <1>ExclusionStays, Zenon
  <2> QED BY <2>1, <2>2, <2>3, Zenon

(* The steps of a run.                                                     *)
<1>RunExclusion.
    ASSUME IInv, IInv', Shapes, Tidy, Tidy', EInv, faults' = 0, NEW b \in Batches, RunStep(b) PROVE EInv'
  <2> USE <1>RunExclusion
  <2> DEFINE o == batch[b]
  <2>0. DbInv /\ faults \in Nat /\ Split(o)
    BY Zenon DEF IInv, Counted, Tidy
  <2>1. UNCHANGED <<nextToken, proc, detached>>
    BY Zenon DEF RunStep, ExecuteChunk, ApplyStored, ApplyRefused, ApplyErrors, Release, ReleaseErrors, BatchEnds
  <2>2. ~Fault
    BY <2>0 DEF Fault
  <2>3. Continues(b) /\ Alone(b)
    BY RunContinues, Zenon DEF Continues
  <2>4. \A c \in Batches : Inherits(c)
    BY <2>1, <2>3, <1>ContinuesInherits, Zenon
  <2>5. SnapshotsFollow /\ CallsFollow
    BY <2>1, <1>SnapshotsLeft, Zenon
  <2>6. \A w \in o.todo \cup o.undo : w.id \in Ids
    BY BatchAt, BatchFields, Zenon DEF Work
  <2>7. ASSUME NEW w \in o.undo, Release(b, w), NEW i \in Ids PROVE RowAges(i)
    <3>1. o.token # 0 /\ w \notin Unfinished(batch'[b]) /\ w \in Unfinished(o)
      BY <2>7, RunContinues, Zenon DEF Unfinished
    <3>2. Unheld(w.id, w.rev, o.token)
      <4> SUFFICES ASSUME NEW c \in Batches, batch'[c].token = o.token, NEW v \in Unfinished(batch'[c]), v.id = w.id
                   PROVE  FALSE
        BY Zenon DEF Unheld
      <4>1. CASE c = b
        <5>1. v \in Unfinished(o)
          BY <2>3, <3>1, <4>1, Zenon DEF Continues
        <5>2. v = w
          BY <2>0, <3>1, <5>1, Zenon DEF Split
        <5> QED BY <3>1, <4>1, <5>2, Zenon
      <4>2. CASE c # b
        <5>1. batch'[c] = batch[c]
          BY <2>3, <4>2, Zenon DEF Alone
        <5> QED BY <3>1, <4>2, <5>1, Zenon DEF Tidy, Separate
      <4> QED BY <4>1, <4>2, Zenon
    <3> QED BY <2>0, <2>6, <2>7, <3>2, <1>ReleaseAges, Zenon DEF Release
  <2>8. ASSUME NEW w \in o.todo, ApplyStored(b, w), NEW i \in Ids PROVE RowAges(i)
    BY <2>0, <2>6, <2>8, <1>SetEmbeddingAges, Zenon DEF ApplyStored
  <2>9. \/ \E w \in o.undo : Release(b, w)
        \/ \E w \in o.todo : ApplyStored(b, w)
        \/ UNCHANGED row
    BY <2>2, Zenon DEF RunStep, ExecuteChunk, ApplyRefused, ApplyErrors, ReleaseErrors, BatchEnds, CallFails, db
  <2>10. \A i \in Ids : RowAges(i)
    BY <2>7, <2>8, <2>9, <1>SameAges, Zenon
  <2> QED BY <2>1, <2>4, <2>5, <2>10, <1>ExclusionStays, Zenon

(* The store's steps.                                                      *)
<1>StoreExclusion.
    ASSUME IInv, IInv', Tidy', EInv, faults' = 0, StoreStep \/ UNCHANGED vars PROVE EInv'
  <2> USE <1>StoreExclusion
  <2>0. DbInv /\ ~Fault
    BY DEF IInv, Counted, Fault
  <2>1. UNCHANGED <<nextToken, batch, proc>> /\ detached' \subseteq detached
    <3>1. UNCHANGED <<nextToken, batch, proc>> /\ (UNCHANGED detached \/ \E d \in detached : detached' = detached \ {d})
      BY Zenon DEF StoreStep, Delete, LeaseLapses, Reindex, DetachedRuns, vars
    <3> QED BY <3>1, Zenon
  <2>2. \A c \in Batches : Inherits(c)
    BY <2>1, <1>KeptInherits, Zenon
  <2>3. ASSUME NEW d \in detached, DetachedRuns(d), NEW i \in Ids PROVE RowAges(i)
    <3>1. d.work.id \in Ids
      BY Zenon DEF IInv, CallsSound, Calls, Work
    <3>2. Unheld(d.work.id, d.work.rev, d.token)
      BY <2>1, <2>3, Zenon DEF Unheld, EInv, DetachedApart
    <3> QED BY <2>0, <2>3, <3>1, <3>2, <1>ReleaseAges, <1>SetEmbeddingAges, <1>SameAges, Zenon DEF DetachedRuns, db
  <2>4. \/ \E S \in SUBSET Ids : Delete(S)
        \/ \E d \in detached : DetachedRuns(d)
        \/ UNCHANGED row
    BY <2>0, Zenon DEF StoreStep, LeaseLapses, Reindex, vars, db
  <2>5. \A i \in Ids : RowAges(i)
    BY <2>0, <2>3, <2>4, <1>SameAges, <1>WriteAges, Zenon
  <2>6. SnapshotsFollow /\ CallsFollow
    BY <2>1, <1>SnapshotsLeft, Zenon
  <2> QED BY <2>1, <2>2, <2>5, <2>6, <1>ExclusionStays, Zenon

(* The batches of a process keep their work and what was handed back.      *)
<1>MovesInherit.
    ASSUME IInv, NEW p \in Procs, NEW s, NEW pr, NEW x, NEW r, Moves(p, s, pr, x, r), proc[p].released \subseteq r,
           NEW c \in Batches, batch'[c].token = batch[c].token, Unfinished(batch'[c]) \subseteq Unfinished(batch[c])
    PROVE  Inherits(c)
  <2> USE <1>MovesInherit
  <2>1. proc[Host(c)].released \subseteq proc'[Host(c)].released
    BY BatchAt, Zenon DEF Moves
  <2> QED BY <2>1, <1>KeptInherits, Zenon

(* Snapshots that a step of p leaves or shrinks.                           *)
<1>SnapshotsShrink.
    ASSUME NEW p \in Procs, NEW s, NEW pr, NEW x, NEW r, Moves(p, s, pr, x, r), x \subseteq proc[p].snapshot
    PROVE  SnapshotsFollow
  BY <1>SnapshotsShrink, Zenon DEF SnapshotsFollow, Moves

(* Taking the join set.                                                    *)
<1>TakeInherits.
    ASSUME IInv, NEW p \in Procs, TakeTasks(p), NEW c \in Batches
    PROVE  /\ batch'[c].token = batch[c].token /\ Unfinished(batch'[c]) = Unfinished(batch[c])
  BY <1>TakeInherits, TakeTurns, Zenon DEF Unfinished

(* The owner of an active claim is the only batch that carries it.         *)
<1>ActiveOwner.
    ASSUME GuardSets, TokensKnown, Tidy, NEW p \in Procs, NEW a \in active[p]
    PROVE  /\ a.token # 0 /\ a.token < nextToken
           /\ \A c \in Batches : batch[c].token = a.token => \A w \in Unfinished(batch[c]) :
                 w.id = a.id => Host(c) = p
  <2> USE <1>ActiveOwner
  <2>1. PICK b \in Batches : /\ Host(b) = p /\ batch[b].token # 0
                             /\ \E w \in batch[b].held : a = ActiveClaim(w, batch[b].token)
    BY DEF GuardSets
  <2>2. PICK v \in batch[b].held : a = ActiveClaim(v, batch[b].token)
    BY <2>1, Zenon
  <2>3. a.id = v.id /\ a.token = batch[b].token /\ v \in Unfinished(batch[b])
    BY <2>2, Zenon DEF ActiveClaim, Unfinished
  <2>4. ASSUME NEW c \in Batches, batch[c].token = a.token, NEW w \in Unfinished(batch[c]), w.id = a.id PROVE c = b
    BY <2>1, <2>3, <2>4, Zenon DEF Tidy, Separate
  <2> QED BY <2>1, <2>2, <2>3, <2>4, Zenon DEF TokensKnown

(* Starting and exiting: no batch runs.                                    *)
<1>IdleExclusion.
    ASSUME IInv, IInv', Shapes, Tidy', EInv, NEW p \in Procs,
           (\E pr \in Profiles \cup {NoProfile} : Start(p, pr)) \/ Exit(p)
    PROVE  EInv'
  <2> USE <1>IdleExclusion
  <2>1. UNCHANGED <<row, nextToken, detached, batch>>
    BY Zenon DEF Start, Exit, db
  <2>2. \A i \in Ids : RowAges(i)
    BY <2>1, <1>SameAges, Zenon
  <2>3. CallsFollow
    BY <2>1, Zenon DEF CallsFollow
  <2>4. PICK s, pr : Moves(p, s, pr, {}, {})
    BY ProcMoves, Zenon
  <2>5. ASSUME NEW c \in Batches PROVE Inherits(c)
    <3>1. CASE Host(c) = p
      <4>1. batch[c].pc = "idle"
        BY <3>1, BatchAt, Zenon DEF Start, Exit, Sound, Running
      <4> QED BY <2>1, <4>1, Zenon DEF Shapes, Shape, Inherits
    <3>2. CASE Host(c) # p
      <4>1. proc'[Host(c)] = proc[Host(c)]
        BY <2>4, <3>2, BatchAt, Zenon DEF Moves
      <4> QED BY <2>1, <4>1, <1>KeptInherits, Zenon
    <3> QED BY <3>1, <3>2, Zenon
  <2>6. SnapshotsFollow
    BY <2>4, <1>SnapshotsShrink, Zenon
  <2> QED BY <2>1, <2>2, <2>3, <2>5, <2>6, <1>ExclusionStays

(* The stages of a shutdown: nothing is handed over, and the snapshot is    *)
(* of the active claims of the process.                                    *)
<1>StageExclusion.
    ASSUME IInv, IInv', GuardSets, TokensKnown, Tidy, Tidy', EInv, NEW p \in Procs,
           \/ BeginShutdown(p) \/ AdmissionsDrain(p) \/ AdmissionsTimeOut(p) \/ RequestReset(p)
           \/ TakeTasks(p) \/ CleanupBegins(p) \/ ShutdownReopens(p)
    PROVE  EInv'
  <2> USE <1>StageExclusion
  <2>1. UNCHANGED <<row, nextToken, detached>>
    BY Zenon DEF BeginShutdown, AdmissionsDrain, AdmissionsTimeOut, RequestReset, TakeTasks, CleanupBegins,
                 ShutdownReopens, db
  <2>2. \A i \in Ids : RowAges(i)
    BY <2>1, <1>SameAges, Zenon
  <2>3. CallsFollow
    BY <2>1, Zenon DEF CallsFollow
  <2>4. \A c \in Batches : batch'[c].token = batch[c].token /\ Unfinished(batch'[c]) = Unfinished(batch[c])
    <3>1. TakeTasks(p) \/ UNCHANGED batch
      BY Zenon DEF BeginShutdown, AdmissionsDrain, AdmissionsTimeOut, RequestReset, CleanupBegins, ShutdownReopens
    <3> QED BY <3>1, <1>TakeInherits, Zenon
  <2>5. PICK s, x : Moves(p, s, proc[p].profile, x, proc[p].released) /\ x \in {proc[p].snapshot, active[p]}
    BY ProcMoves, Zenon DEF Enters
  <2>6. \A c \in Batches : Inherits(c)
    BY <2>4, <2>5, <1>MovesInherit, Zenon
  <2>7. SnapshotsFollow
    <3>1. CASE x = proc[p].snapshot
      BY <2>5, <3>1, <1>SnapshotsShrink, Zenon
    <3>2. CASE x = active[p]
      <4> SUFFICES ASSUME NEW q \in Procs, NEW a \in proc'[q].snapshot, a \notin proc[q].snapshot
                   PROVE  /\ a.token # 0 /\ a.token < nextToken
                          /\ \A b \in Batches : batch'[b].token = a.token =>
                                \A w \in Unfinished(batch'[b]) : w.id = a.id => Host(b) = q
        BY Zenon DEF SnapshotsFollow
      <4>1. q = p /\ a \in active[p]
        BY <2>5, <3>2, Zenon DEF Moves
      <4> QED BY <2>4, <4>1, <1>ActiveOwner
    <3> QED BY <2>5, <3>1, <3>2, Zenon
  <2> QED BY <2>1, <2>2, <2>3, <2>6, <2>7, <1>ExclusionStays, Zenon

(* The cleanup hands a claim of its process back.                          *)
<1>CleanupExclusion.
    ASSUME IInv, IInv', Tidy', EInv, faults' = 0, NEW p \in Procs, NEW a \in proc[p].snapshot, NEW s \in BOOLEAN,
           CleanupCall(p, a, s)
    PROVE  EInv'
  <2> USE <1>CleanupExclusion
  <2> DEFINE o == proc[p]
  <2>0. DbInv /\ ~Fault /\ a \in Claims /\ a.id \in Ids
    BY DEF IInv, Counted, Fault, ProcRecords, Claims
  <2>1. UNCHANGED <<nextToken, batch, detached>> /\ ReleaseClaim(a.id, a.rev, a.token)
    BY <2>0, Zenon DEF CleanupCall, CallFails
  <2>2. Moves(p, o.stage, o.profile, o.snapshot \ {a}, o.released \cup {a})
    BY <2>0, ProcMoves, Zenon
  <2>3. o.snapshot \ {a} \subseteq o.snapshot /\ o.released \subseteq o.released \cup {a}
    BY Zenon
  <2>4. \A c \in Batches : Inherits(c)
    BY <2>1, <2>2, <2>3, <1>MovesInherit, Zenon
  <2>5. Unheld(a.id, a.rev, a.token)
    <3> SUFFICES ASSUME NEW c \in Batches, batch'[c].token = a.token, NEW v \in Unfinished(batch'[c]),
                        v.id = a.id, v.rev = a.rev
                 PROVE  BackNext(c, v)
      BY Zenon DEF Unheld
    <3>1. Host(c) = p
      BY <2>1, Zenon DEF EInv, SnapshotOwn
    <3>2. ActiveClaim(v, batch'[c].token) = a
      BY <2>0, Zenon DEF ActiveClaim, Claims
    <3>3. a \in proc'[p].released
      BY <2>2, Zenon DEF Moves
    <3> QED BY <3>1, <3>2, <3>3, Zenon DEF BackNext
  <2>6. \A i \in Ids : RowAges(i)
    BY <2>0, <2>1, <2>5, <1>ReleaseAges, Zenon
  <2>7. CallsFollow
    BY <2>1, Zenon DEF CallsFollow
  <2>8. SnapshotsFollow
    BY <2>2, <2>3, <1>SnapshotsShrink, Zenon
  <2> QED BY <2>1, <2>4, <2>6, <2>7, <2>8, <1>ExclusionStays, Zenon

(* A returning shutdown drops what it has taken; a call that goes on is of *)
(* work that no other batch carries.                                       *)
<1>ReturnExclusion.
    ASSUME IInv, IInv', TokensKnown, Tidy, Tidy', EInv, NEW p \in Procs, ShutdownReturns(p)
    PROVE  EInv'
  <2> USE <1>ReturnExclusion
  <2> DEFINE o == proc[p]
  <2>1. UNCHANGED <<row, nextToken>> /\ DropBatches(p, Taken(p))
    BY Zenon DEF ShutdownReturns, db
  <2>2. \A c \in Batches : batch'[c] = IF c \in Taken(p) THEN Idle ELSE batch[c]
    BY <2>1, Zenon DEF DropBatches
  <2>3. Idle.token = 0
    BY Zenon DEF Idle
  <2>4. Moves(p, "serving", o.profile, o.snapshot, o.released)
    BY ProcMoves, Zenon DEF Enters
  <2>7. ASSUME NEW c \in Batches PROVE Inherits(c)
    <3>1. CASE c \in Taken(p)
      BY <2>2, <2>3, <3>1, Zenon DEF Inherits
    <3>2. CASE c \notin Taken(p)
      BY <2>2, <2>4, <3>2, <1>MovesInherit, Zenon
    <3> QED BY <3>1, <3>2, Zenon
  <2>8. \A i \in Ids : RowAges(i)
    BY <2>1, <1>SameAges, Zenon
  <2>9. SnapshotsFollow
    BY <2>4, <1>SnapshotsShrink, Zenon
  <2>10. CallsFollow
    <3> SUFFICES ASSUME NEW d \in detached', d \notin detached
                 PROVE  /\ d.token < nextToken
                        /\ \A c \in Batches : d.token # 0 /\ batch'[c].token = d.token =>
                              \A w \in Unfinished(batch'[c]) : w.id # d.work.id
      BY Zenon DEF CallsFollow
    <3>1. PICK b \in Taken(p) : d \in IssuableCalls(b)
      BY <2>1, Zenon DEF DropBatches
    <3>2. b \in Batches
      BY <3>1, Zenon DEF Taken
    <3>3. PICK v \in Unfinished(batch[b]) : d = Call(b, v)
      BY <3>1, <3>2, Zenon DEF IssuableCalls, Unfinished
    <3>4. d.token = batch[b].token /\ d.work = v
      BY <3>3, Zenon DEF Call
    <3>5. ASSUME NEW c \in Batches, d.token # 0, batch'[c].token = d.token, NEW w \in Unfinished(batch'[c])
          PROVE  w.id # d.work.id
      <4>1. c \notin Taken(p) /\ batch'[c] = batch[c]
        BY <2>2, <2>3, <3>5, Zenon
      <4>2. c # b
        BY <3>1, <4>1, Zenon
      <4> QED BY <3>2, <3>3, <3>4, <3>5, <4>1, <4>2 DEF Tidy, Separate
    <3> QED BY <3>2, <3>4, <3>5, Zenon DEF TokensKnown
  <2> QED BY <2>1, <2>7, <2>8, <2>9, <2>10, <1>ExclusionStays

<1> SUFFICES ASSUME IInv, Shapes, GuardSets, CInv, Tidy, Exclusion, [BulkNext]_vars, faults' = 0
             PROVE  EInv'
  BY Zenon DEF Exclusion
<1>1. IInv' /\ Tidy' /\ TokensKnown
  BY StepIInv, StepTidy, Zenon DEF CInv
<1>2. faults \in Nat
  BY Zenon DEF IInv, Counted
<1>3. Fault \/ UNCHANGED faults
  <2>1. ASSUME NEW b \in Batches, OpStep(b) \/ RunStep(b) PROVE Fault \/ UNCHANGED faults
    BY <2>1, Zenon DEF OpStep, RunStep, Admit, OpReturns, LastDropped, Store, Update, Claim, TakeChunk, Prepare,
       ReleaseRejected, NothingToSpawn, SpawnRefused, RunInline, Spawn, ExecuteChunk, ApplyStored, ApplyRefused,
       ApplyErrors, Release, ReleaseErrors, BatchEnds, CallFails
  <2>2. ASSUME NEW p \in Procs, ProcStep(p) PROVE Fault \/ UNCHANGED faults
    BY <2>2, Zenon DEF ProcStep, Start, BeginShutdown, AdmissionsDrain, AdmissionsTimeOut, RequestReset, TakeTasks,
                 CleanupBegins, CleanupCall, ShutdownReopens, ShutdownReturns, Exit, Crash, CallFails
  <2>3. ASSUME StoreStep \/ UNCHANGED vars PROVE Fault \/ UNCHANGED faults
    BY <2>3, Zenon DEF StoreStep, Delete, LeaseLapses, Reindex, DetachedRuns, vars
  <2> QED BY <2>1, <2>2, <2>3, Zenon DEF BulkNext
<1>4. faults = 0 /\ ~Fault
  BY <1>2, <1>3 DEF Fault
<1>5. EInv
  BY <1>4, Zenon DEF Exclusion
<1>6. ASSUME NEW p \in Procs, ProcStep(p) PROVE EInv'
  <2>1. ~Crash(p)
    BY <1>4, Zenon DEF Crash
  <2> QED BY <1>1, <1>5, <1>6, <2>1, <1>IdleExclusion, <1>StageExclusion, <1>CleanupExclusion, <1>ReturnExclusion, Zenon
          DEF ProcStep
<1> QED BY <1>1, <1>5, <1>6, <1>OpExclusion, <1>RunExclusion, <1>StoreExclusion, Zenon DEF BulkNext

(* Nothing is claimed at first.                                            *)
LEMMA InitExclusion == Init => Tidy /\ EInv
<1> SUFFICES ASSUME Init PROVE Tidy /\ EInv
  BY Zenon
<1>1. \A b \in Batches : batch[b].token = 0 /\ batch[b].pc = "idle"
  BY Zenon DEF Init, Idle
<1>2. \A p \in Procs : proc[p].snapshot = {}
  BY Zenon DEF Init, Down
<1>3. Tidy
  BY <1>1, Zenon DEF Tidy, Separate, Split
<1>4. Unlapsed
  BY Zenon DEF Init, Unlapsed
<1>5. Exclusive /\ Apart /\ SnapshotOwn /\ DetachedApart
  BY <1>1, <1>2, Zenon DEF Exclusive, Apart, SnapshotOwn, DetachedApart, Init
<1> QED BY <1>3, <1>4, <1>5, Zenon DEF EInv

(* Two bulk re-embeds never embed the same revision while leases hold and   *)
(* no call fails, for any processes, shutdowns, operations, rows and chunk  *)
(* sizes, unless the cleanup of a timed-out shutdown has handed the claim   *)
(* of one of them back.                                                    *)
THEOREM RevisionsEmbedOnce == BulkSpec => []NoDoubleInference
<1>1. Exclusion => NoDoubleInference
  BY Zenon DEF Exclusion, EInv, Apart, NoDoubleInference, Unfinished
<1>2. Init => Exclusion
  BY InitExclusion, Zenon DEF Exclusion
<1> QED BY <1>1, <1>2, InitIInv, StepIInv, InitGuards, StepShapes, StepGuards, InitClaims, StepClaims,
           InitExclusion, StepTidy, StepExclusion, PTL
        DEF BulkSpec
==============================================================================
