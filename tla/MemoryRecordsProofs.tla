------------------------- MODULE MemoryRecordsProofs -------------------------
(***************************************************************************)
(* Proofs about MemoryRecords for any identifiers, owners, policies,       *)
(* editors and consolidations.                                             *)
(*                                                                         *)
(* The argument: a live row only ever moves on (Later), whoever writes it. *)
(* What an editor or a consolidation read therefore is a past of the row,  *)
(* and an equal revision means that it still is its present.               *)
(***************************************************************************)
EXTENDS MemoryRecords, TLAPS

(* Row r is row s or a later version of it.                                *)
Later(r, s) ==
    /\ r.rev >= s.rev /\ r.updated >= s.updated
    /\ r.updated = s.updated => r.body = s.body
    /\ r.rev = s.rev => Versioned(r) = Versioned(s)

(* A row is inserted once, moves on while it lives and is deleted once.    *)
MovesOn(r, s) ==
    /\ r.status = "gone" => s.status = "gone"
    /\ r.status = "live" => s.status \in {"live", "gone"}
    /\ r.status = "live" /\ s.status = "live" => Later(s, r)
Evolves == \A i \in Ids : row'[i] \in Rows /\ MovesOn(row[i], row'[i])

(* What was read earlier.                                                  *)
EditorsSee ==
    \A e \in Editors : editor[e].st = "open" =>
        /\ editor[e].id \in Ids /\ row[editor[e].id].status # "unborn"
        /\ Live(editor[e].id) => Later(row[editor[e].id], editor[e].seen)
Seen(s) ==
    /\ row[s.id].status # "unborn"
    /\ Live(s.id) => row[s.id].rev >= s.rev /\ (row[s.id].rev = s.rev => row[s.id].sup = NoId)
PlansSee == \A k \in Consolidators : \A m \in plan[k].todo : Seen(m.member) /\ Seen(m.rep)

TombsOfGone == \A t \in tombs : row[t.id].status = "gone"

IInv == TypeOK /\ EditorsSee /\ PlansSee /\ TombsOfGone /\ SupersessionWellFounded

-----------------------------------------------------------------------------
(* One row.                                                                *)

(* The fields of a row have their types.                                   *)
LEMMA RowFields ==
    ASSUME NEW r \in Rows
    PROVE  /\ r.status \in {"unborn", "live", "gone"} /\ r.sup \in Ids \cup {NoId}
           /\ r.rev \in Nat /\ r.updated \in Nat /\ r.emb \in BOOLEAN /\ r.ttl \in Ttls
           /\ r.body \in Bodies /\ r.attrs \in Attrs /\ r.profile \in Profiles
           /\ r.policy \in Policies /\ r.owner \in Principals \cup {NoOwner}
BY DEF Rows

(* A row as the sum of its fields.                                         *)
LEMMA RowOfFields ==
    ASSUME NEW st \in {"unborn", "live", "gone"}, NEW ow \in Principals \cup {NoOwner}, NEW po \in Policies,
           NEW bo \in Bodies, NEW at \in Attrs, NEW tt \in Ttls, NEW pr \in Profiles,
           NEW su \in Ids \cup {NoId}, NEW em \in BOOLEAN, NEW up \in Nat, NEW re \in Nat
    PROVE  [status |-> st, owner |-> ow, policy |-> po, body |-> bo, attrs |-> at, ttl |-> tt,
            profile |-> pr, sup |-> su, emb |-> em, updated |-> up, rev |-> re] \in Rows
BY DEF Rows

(* A blank row.                                                            *)
LEMMA BlankRow ==
    ASSUME NEW st \in {"unborn", "live", "gone"}
    PROVE  /\ Blank(st) \in Rows /\ Blank(st).status = st /\ Blank(st).sup = NoId
           /\ Blank(st).emb = FALSE /\ Blank(st).updated = 0
<1>1. /\ (CHOOSE p \in Policies : TRUE) \in Policies /\ (CHOOSE b \in Bodies : TRUE) \in Bodies
      /\ (CHOOSE a \in Attrs : TRUE) \in Attrs /\ (CHOOSE c \in Profiles : TRUE) \in Profiles
  BY ValuesExist
<1>2. "none" \in Ttls /\ NoOwner \in Principals \cup {NoOwner} /\ NoId \in Ids \cup {NoId} /\ FALSE \in BOOLEAN /\ 0 \in Nat
  BY DEF Ttls
<1> QED BY <1>1, <1>2, RowOfFields DEF Blank

(* A stored memory.                                                        *)
LEMMA InsertedRow ==
    ASSUME NEW d \in DraftRecords
    PROVE  Inserted(d) \in Rows /\ Inserted(d).status = "live" /\ Inserted(d).sup = NoId
<1>1. Blank("live") \in Rows /\ Blank("live").status = "live" /\ Blank("live").sup = NoId
  BY BlankRow
<1>2. /\ d.owner \in Principals \cup {NoOwner} /\ d.policy \in Policies /\ d.body \in Bodies
      /\ d.profile \in Profiles /\ d.ttl \in Ttls /\ 1 \in Nat
  BY DEF DraftRecords, Ttls
<1> HIDE DEF Blank
<1> QED BY <1>1, <1>2 DEF Inserted, Rows

(* Rows that differ in their vector and in the passing of time only.       *)
LEMMA SameVersion ==
    ASSUME NEW r \in Rows, NEW s \in Rows,
           r.status = s.status, r.owner = s.owner, r.policy = s.policy, r.body = s.body,
           r.attrs = s.attrs, r.profile = s.profile, r.sup = s.sup, r.updated = s.updated, r.rev = s.rev,
           r.ttl = s.ttl \/ (s.ttl = "pending" /\ r.ttl = "past")
    PROVE  Versioned(r) = Versioned(s)
BY DEF Rows, Versioned

(* The revision covers the supersession, the contexts and the text.        *)
LEMMA VersionCovers ==
    ASSUME NEW r \in Rows, NEW s \in Rows, Versioned(r) = Versioned(s)
    PROVE  r.sup = s.sup /\ r.profile = s.profile /\ r.body = s.body
<1>1. \A x \in Rows : Versioned(x).sup = x.sup /\ Versioned(x).profile = x.profile /\ Versioned(x).body = x.body
  BY DEF Rows, Versioned
<1> QED BY <1>1

(* Later is a preorder.                                                    *)
LEMMA LaterItself ==
    ASSUME NEW r \in Rows
    PROVE  Later(r, r)
BY RowFields DEF Later

(* And it is transitive.                                                   *)
LEMMA LaterChains ==
    ASSUME NEW r \in Rows, NEW s \in Rows, NEW t \in Rows, Later(r, s), Later(s, t)
    PROVE  Later(r, t)
BY RowFields DEF Later

(* A write that advances the revision and leaves the text alone moves on.  *)
LEMMA RevisionMovesOn ==
    ASSUME NEW r \in Rows, NEW s \in Rows, r.rev = s.rev + 1, r.updated = s.updated, r.body = s.body
    PROVE  Later(r, s)
BY RowFields DEF Later

(* A row that is superseded or released.                                   *)
LEMMA MarkedRow ==
    ASSUME NEW r \in Rows, NEW x \in Ids \cup {NoId}
    PROVE  LET s == MarkedBy(r, x)
           IN  s \in Rows /\ s.status = r.status /\ s.sup = x /\ s.profile = r.profile /\ Later(s, r)
<1>a. PICK v \in Nat : v = r.rev + 1
  BY RowFields
<1> DEFINE s == MarkedBy(r, x)
<1>b. s = [r EXCEPT !.sup = x, !.rev = v]
  BY <1>a DEF MarkedBy
<1>1. /\ s \in Rows /\ s.status = r.status /\ s.sup = x /\ s.profile = r.profile
      /\ s.rev = v /\ s.updated = r.updated /\ s.body = r.body
  BY <1>b DEF Rows
<1> HIDE DEF s
<1>2. Later(s, r)
  BY <1>1, <1>a, RevisionMovesOn
<1> QED BY <1>1, <1>2 DEF s

(* A row moved to other contexts.                                          *)
LEMMA MovedRow ==
    ASSUME NEW r \in Rows, NEW c \in Profiles
    PROVE  LET s == [r EXCEPT !.profile = c, !.rev = @ + 1]
           IN  s \in Rows /\ s.status = r.status /\ s.sup = r.sup /\ Later(s, r)
<1>a. PICK v \in Nat : v = r.rev + 1
  BY RowFields
<1> DEFINE s == [r EXCEPT !.profile = c, !.rev = @ + 1]
<1>b. s = [r EXCEPT !.profile = c, !.rev = v]
  BY <1>a
<1>1. /\ s \in Rows /\ s.status = r.status /\ s.sup = r.sup
      /\ s.rev = v /\ s.updated = r.updated /\ s.body = r.body
  BY <1>b DEF Rows
<1> HIDE DEF s
<1>2. Later(s, r)
  BY <1>1, <1>a, RevisionMovesOn
<1> QED BY <1>1, <1>2 DEF s

(* A row with other metadata.                                              *)
LEMMA AnnotatedRow ==
    ASSUME NEW r \in Rows, NEW a \in Attrs
    PROVE  LET s == Annotated(r, a)
           IN  s \in Rows /\ s.status = r.status /\ s.sup = r.sup /\ Later(s, r)
<1>a. PICK v \in Nat : v = r.rev + 1
  BY RowFields
<1> DEFINE s == Annotated(r, a)
<1>b. s = [r EXCEPT !.attrs = a, !.rev = v]
  BY <1>a DEF Annotated
<1>1. /\ s \in Rows /\ s.status = r.status /\ s.sup = r.sup
      /\ s.rev = v /\ s.updated = r.updated /\ s.body = r.body
  BY <1>b DEF Rows
<1> HIDE DEF s
<1>2. Later(s, r)
  BY <1>1, <1>a, RevisionMovesOn
<1> QED BY <1>1, <1>2 DEF s

(* A row with or without its vector.                                       *)
LEMMA EmbeddedRow ==
    ASSUME NEW r \in Rows, NEW b \in BOOLEAN
    PROVE  LET s == [r EXCEPT !.emb = b]
           IN  s \in Rows /\ s.status = r.status /\ s.sup = r.sup /\ Later(s, r)
<1> DEFINE s == [r EXCEPT !.emb = b]
<1>1. /\ s \in Rows /\ s.status = r.status /\ s.owner = r.owner /\ s.policy = r.policy /\ s.body = r.body
      /\ s.attrs = r.attrs /\ s.profile = r.profile /\ s.sup = r.sup /\ s.updated = r.updated
      /\ s.rev = r.rev /\ s.ttl = r.ttl
  BY DEF Rows
<1> HIDE DEF s
<1>2. Versioned(s) = Versioned(r)
  BY <1>1, SameVersion
<1>3. Later(s, r)
  BY <1>1, <1>2, RowFields DEF Later
<1> QED BY <1>1, <1>3 DEF s

(* A row that has expired.                                                 *)
LEMMA ExpiredRow ==
    ASSUME NEW r \in Rows, r.ttl = "pending"
    PROVE  LET s == [r EXCEPT !.ttl = "past"]
           IN  s \in Rows /\ s.status = r.status /\ s.sup = r.sup /\ Later(s, r)
<1> DEFINE s == [r EXCEPT !.ttl = "past"]
<1>1. /\ s \in Rows /\ s.status = r.status /\ s.owner = r.owner /\ s.policy = r.policy /\ s.body = r.body
      /\ s.attrs = r.attrs /\ s.profile = r.profile /\ s.sup = r.sup /\ s.updated = r.updated
      /\ s.rev = r.rev /\ s.ttl = "past"
  BY DEF Rows, Ttls
<1> HIDE DEF s
<1>2. Versioned(s) = Versioned(r)
  BY <1>1, SameVersion
<1>3. Later(s, r)
  BY <1>1, <1>2, RowFields DEF Later
<1> QED BY <1>1, <1>3 DEF s

(* An update.                                                              *)
LEMMA UpdatedRow ==
    ASSUME NEW r \in Rows, NEW u \in UpdateRecords, NEW now \in Nat
    PROVE  LET s == Updated(r, u, now)
           IN  s \in Rows /\ s.status = r.status /\ s.sup = r.sup /\ Later(s, r)
<1> DEFINE s == Updated(r, u, now)
<1>f. /\ r.rev \in Nat /\ r.updated \in Nat /\ r.emb \in BOOLEAN
  BY RowFields
<1>1. /\ Changed(r.body, u.body) \in Bodies /\ Changed(r.attrs, u.attrs) \in Attrs
      /\ Changed(r.policy, u.policy) \in Policies /\ Changed(r.ttl, u.ttl) \in Ttls
      /\ Changed(r.profile, u.profile) \in Profiles
  BY RowFields DEF Changed, UpdateRecords, Ttls
<1>2. PICK e \in BOOLEAN : e = (r.emb /\ u.body = Keep)
  BY <1>f
<1>3. PICK t \in Nat : t = (IF u.body = Keep THEN r.updated ELSE NextUpdated(now, r.updated))
  BY <1>f DEF NextUpdated
<1>4. PICK v \in Nat : v = (IF Touches(u) THEN r.rev + 1 ELSE r.rev)
  BY <1>f
<1>p. PICK b \in Bodies, a \in Attrs, p \in Policies, l \in Ttls, c \in Profiles :
         /\ b = Changed(r.body, u.body) /\ a = Changed(r.attrs, u.attrs) /\ p = Changed(r.policy, u.policy)
         /\ l = Changed(r.ttl, u.ttl) /\ c = Changed(r.profile, u.profile)
  BY <1>1
<1>5. s = [r EXCEPT !.body = b, !.attrs = a, !.policy = p, !.ttl = l, !.profile = c,
                    !.emb = e, !.updated = t, !.rev = v]
  BY <1>2, <1>3, <1>4, <1>p DEF Updated
<1>6. /\ s \in Rows /\ s.status = r.status /\ s.sup = r.sup /\ s.owner = r.owner /\ s.updated = t /\ s.rev = v
      /\ s.body = b /\ s.attrs = a /\ s.policy = p /\ s.ttl = l /\ s.profile = c
  <2>1. /\ r = [status |-> r.status, owner |-> r.owner, policy |-> r.policy, body |-> r.body,
                attrs |-> r.attrs, ttl |-> r.ttl, profile |-> r.profile, sup |-> r.sup, emb |-> r.emb,
                updated |-> r.updated, rev |-> r.rev]
    BY DEF Rows
  <2>2. s = [status |-> r.status, owner |-> r.owner, policy |-> p, body |-> b, attrs |-> a, ttl |-> l,
             profile |-> c, sup |-> r.sup, emb |-> e, updated |-> t, rev |-> v]
    BY <2>1, <1>5
  <2> HIDE DEF s
  <2>3. s \in Rows
    BY <2>2, RowFields DEF Rows
  <2> QED BY <2>2, <2>3
<1> HIDE DEF s
<1>7. v >= r.rev /\ t >= r.updated /\ (t = r.updated => u.body = Keep)
  BY <1>3, <1>4, <1>f DEF NextUpdated
<1>8. v = r.rev => Versioned(s) = Versioned(r)
  <2>1. SUFFICES ASSUME v = r.rev PROVE Versioned(s) = Versioned(r)
    OBVIOUS
  <2>2. ~Touches(u)
    BY <2>1, <1>4, <1>f
  <2>3. u["body"] = Keep /\ u["attrs"] = Keep /\ u["policy"] = Keep /\ u["ttl"] = Keep /\ u["profile"] = Keep
    BY <2>2 DEF Touches
  <2>4. u.body = Keep /\ u.attrs = Keep /\ u.policy = Keep /\ u.ttl = Keep /\ u.profile = Keep
    BY <2>3
  <2>5. t = r.updated
    BY <2>4, <1>3
  <2>6. b = r.body /\ a = r.attrs /\ p = r.policy /\ l = r.ttl /\ c = r.profile
    BY <2>4, <1>p DEF Changed
  <2> QED BY <2>1, <2>5, <2>6, <1>6, SameVersion
<1>9. Later(s, r)
  BY <1>6, <1>7, <1>8, <1>p DEF Later, Changed
<1> QED BY <1>6, <1>9 DEF s

-----------------------------------------------------------------------------
(* What a step does to the rows and the tombstones: the invariants of them *)
(* and the two action properties, in one predicate.                        *)
FactKept ==
    \A i \in Ids :
        LET s == row'[i].sup
        IN  Live(i) /\ s \notin {row[i].sup, NoId} =>
                /\ row[i].sup = NoId
                /\ row'[s].status = "live" /\ row'[s].sup = NoId
                /\ row[s].status = "unborn" \/ row[s].profile = row[i].profile
AuthorityKept ==
    /\ tombs \subseteq tombs'
    /\ \A i \in LiveIds :
          row'[i].status = "gone" =>
              [id |-> i, owner |-> row[i].owner, policy |-> row[i].policy] \in tombs'
RowStep ==
    /\ row' \in [Ids -> Rows] /\ Evolves
    /\ tombs' \subseteq Tombstones /\ TombsOfGone'
    /\ SupersessionWellFounded'
    /\ FactKept /\ AuthorityKept

(* A step that changes neither who lives nor who supersedes whom.          *)
LEMMA PlainStep ==
    ASSUME IInv, row' \in [Ids -> Rows], UNCHANGED tombs,
           \A i \in Ids : /\ row'[i].status = row[i].status /\ row'[i].sup = row[i].sup
                          /\ Later(row'[i], row[i])
    PROVE  RowStep
<1>1. Evolves
  BY DEF Evolves, MovesOn
<1>2. tombs' \subseteq Tombstones /\ TombsOfGone'
  BY DEF IInv, TypeOK, TombsOfGone, Tombstones
<1>3. SupersessionWellFounded'
  <2>1. row \in [Ids -> Rows]
    BY DEF IInv, TypeOK
  <2>2. \A i \in Ids : Live(i)' <=> Live(i)
    BY DEF Live
  <2>3. ASSUME NEW S \in (SUBSET Ids) \ {{}} PROVE \E i \in S : ~Live(i)' \/ row'[i].sup \notin S
    BY <2>2 DEF IInv, SupersessionWellFounded
  <2>4. ASSUME NEW i \in Ids, Live(i)', row'[i].sup # NoId PROVE Live(row[i].sup)' /\ row'[i].sup = row[i].sup
    BY <2>1, <2>2, <2>4, RowFields DEF IInv, SupersessionWellFounded, LiveIds
  <2> QED BY <2>3, <2>4 DEF SupersessionWellFounded, LiveIds, Live
<1>4. FactKept
  BY DEF FactKept
<1>5. AuthorityKept
  BY DEF AuthorityKept, LiveIds, Live
<1> QED BY <1>1, <1>2, <1>3, <1>4, <1>5 DEF RowStep

(* A step that writes one row so.                                          *)
LEMMA PlainWrite ==
    ASSUME IInv, NEW j \in Ids, NEW s \in Rows, row' = [row EXCEPT ![j] = s], UNCHANGED tombs,
           s.status = row[j].status, s.sup = row[j].sup, Later(s, row[j])
    PROVE  RowStep
<1>1. row \in [Ids -> Rows]
  BY DEF IInv, TypeOK
<1>2. row' \in [Ids -> Rows]
  BY <1>1
<1>3. ASSUME NEW i \in Ids
      PROVE  row'[i].status = row[i].status /\ row'[i].sup = row[i].sup /\ Later(row'[i], row[i])
  BY <1>1, LaterItself
<1> QED BY <1>2, <1>3, PlainStep

(* A step that leaves rows and tombstones alone.                           *)
LEMMA NoWrite ==
    ASSUME IInv, UNCHANGED <<row, tombs>>
    PROVE  RowStep
<1>1. row \in [Ids -> Rows]
  BY DEF IInv, TypeOK
<1>2. \A i \in Ids : row'[i].status = row[i].status /\ row'[i].sup = row[i].sup /\ Later(row'[i], row[i])
  BY <1>1, LaterItself
<1> QED BY <1>1, <1>2, PlainStep

(* The deletion of live rows.                                              *)
LEMMA DeletionStep ==
    ASSUME IInv, NEW D \in SUBSET LiveIds, DeleteRows(D)
    PROVE  RowStep
<1>t. row \in [Ids -> Rows] /\ tombs \subseteq Tombstones
  BY DEF IInv, TypeOK
<1>d. D \subseteq Ids /\ \A i \in D : Live(i)
  BY DEF LiveIds
<1>0. ASSUME NEW i \in Ids
      PROVE  /\ row'[i] \in Rows
             /\ i \in D => row'[i].status = "gone" /\ row'[i].sup = NoId
             /\ i \notin D => /\ row'[i].status = row[i].status /\ Later(row'[i], row[i])
                              /\ row'[i].sup = row[i].sup \/ row'[i].sup = NoId
                              /\ Live(i) => row'[i].sup \notin D
  <2>r. row[i] \in Rows
    BY <1>t
  <2>n. NoId \notin D
    BY <1>d, NamesAreDistinct
  <2>1. CASE i \in D
    <3>1. row'[i] = Blank("gone")
      BY <2>1 DEF DeleteRows, WithoutRows
    <3> QED BY <2>1, <3>1, BlankRow
  <2>2. CASE i \notin D /\ Live(i) /\ row[i].sup \in D
    <3>1. row'[i] = MarkedBy(row[i], NoId)
      BY <2>2 DEF DeleteRows, WithoutRows
    <3>3. row'[i] \in Rows /\ row'[i].status = row[i].status /\ row'[i].sup = NoId /\ Later(row'[i], row[i])
      BY <2>r, <3>1, MarkedRow
    <3> QED BY <2>2, <2>n, <3>3
  <2>3. CASE i \notin D /\ ~(Live(i) /\ row[i].sup \in D)
    <3>1. row'[i] = row[i]
      BY <2>3 DEF DeleteRows, WithoutRows
    <3> QED BY <2>3, <3>1, <2>r, LaterItself
  <2> QED BY <2>1, <2>2, <2>3
<1>1. row' \in [Ids -> Rows]
  <2>1. row' = [i \in Ids |-> row'[i]]
    BY DEF DeleteRows, WithoutRows
  <2> QED BY <2>1, <1>0
<1>2. Evolves
  BY <1>0, <1>d DEF Evolves, MovesOn, Live
<1>3. tombs' \subseteq Tombstones
  BY <1>t, <1>d, RowFields DEF DeleteRows, WithTombstones, Tombstones
<1>4. TombsOfGone'
  <2> SUFFICES ASSUME NEW t \in tombs' PROVE row'[t.id].status = "gone"
    BY DEF TombsOfGone
  <2>1. CASE t \in tombs /\ t.id \notin D
    BY <2>1, <1>0, <1>t DEF IInv, TombsOfGone, Tombstones
  <2>2. CASE \E i \in D : t = [id |-> i, owner |-> row[i].owner, policy |-> row[i].policy]
    BY <2>2, <1>0, <1>d
  <2> QED BY <2>1, <2>2 DEF DeleteRows, WithTombstones
<1>5. SupersessionWellFounded'
  <2>1. ASSUME NEW S \in (SUBSET Ids) \ {{}} PROVE \E i \in S : ~Live(i)' \/ row'[i].sup \notin S
    <3>1. CASE \E i \in S : i \in D
      BY <3>1, <1>0, <1>d DEF Live
    <3>2. CASE \A i \in S : i \notin D
      <4>1. PICK i \in S : ~Live(i) \/ row[i].sup \notin S
        BY DEF IInv, SupersessionWellFounded
      <4>2. NoId \notin S
        BY NamesAreDistinct
      <4> QED BY <3>2, <4>1, <4>2, <1>0 DEF Live
    <3> QED BY <3>1, <3>2
  <2>2. ASSUME NEW i \in Ids, Live(i)', row'[i].sup # NoId PROVE row'[row'[i].sup].status = "live"
    <3>1. i \notin D /\ Live(i) /\ row'[i].sup = row[i].sup /\ row[i].sup \notin D
      BY <2>2, <1>0 DEF Live
    <3>2. row[i].sup \in Ids /\ Live(row[i].sup)
      BY <2>2, <3>1, <1>t, RowFields DEF IInv, SupersessionWellFounded, LiveIds
    <3> QED BY <3>1, <3>2, <1>0 DEF Live
  <2> QED BY <2>1, <2>2 DEF SupersessionWellFounded, LiveIds, Live
<1>6. FactKept
  BY <1>0 DEF FactKept
<1>7. AuthorityKept
  <2>1. tombs \subseteq tombs'
    <3>1. \A t \in tombs : t.id \notin D
      BY <1>d, <1>t DEF IInv, TombsOfGone, Live
    <3> QED BY <3>1 DEF DeleteRows, WithTombstones
  <2>2. ASSUME NEW i \in LiveIds, row'[i].status = "gone"
        PROVE  [id |-> i, owner |-> row[i].owner, policy |-> row[i].policy] \in tombs'
    <3>1. i \in D
      BY <2>2, <1>0 DEF LiveIds, Live
    <3> QED BY <3>1 DEF DeleteRows, WithTombstones
  <2> QED BY <2>1, <2>2 DEF AuthorityKept
<1> QED BY <1>1, <1>2, <1>3, <1>4, <1>5, <1>6, <1>7 DEF RowStep

(* The insertion of the rows N and the supersession of old, if any, by x:  *)
(* x ends no chain that leads back to old, since it is not superseded.     *)
LEMMA SupersessionStep ==
    ASSUME IInv, row' \in [Ids -> Rows], UNCHANGED tombs,
           NEW N \in SUBSET Ids, NEW old \in Ids \cup {NoId}, NEW x \in Ids,
           \A i \in N : row[i].status = "unborn" /\ row'[i].status = "live" /\ row'[i].sup = NoId,
           old # NoId => /\ row[old].status = "live" /\ row[old].sup = NoId /\ old # x
                         /\ row'[old].status = "live" /\ row'[old].sup = x /\ Later(row'[old], row[old])
                         /\ row'[x].status = "live" /\ row'[x].sup = NoId
                         /\ row[x].status = "unborn" \/ row[x].profile = row[old].profile,
           \A i \in Ids : i \notin N /\ i # old => row'[i] = row[i]
    PROVE  RowStep
<1>t. row \in [Ids -> Rows]
  BY DEF IInv, TypeOK
<1>n. NoId \notin Ids
  BY NamesAreDistinct
<1>1. Evolves
  <2> SUFFICES ASSUME NEW i \in Ids PROVE row'[i] \in Rows /\ MovesOn(row[i], row'[i])
    BY DEF Evolves
  <2>1. row[i] \in Rows /\ row'[i] \in Rows
    BY <1>t
  <2>2. CASE i \in N
    BY <2>1, <2>2 DEF MovesOn
  <2>3. CASE i \notin N /\ i = old
    BY <2>1, <2>3, <1>n DEF MovesOn
  <2>4. CASE i \notin N /\ i # old
    BY <2>1, <2>4, LaterItself DEF MovesOn
  <2> QED BY <2>2, <2>3, <2>4
<1>2. tombs' \subseteq Tombstones /\ TombsOfGone'
  <2> SUFFICES ASSUME NEW t \in tombs' PROVE t \in Tombstones /\ row'[t.id].status = "gone"
    BY DEF TombsOfGone
  <2>1. t \in Tombstones /\ t.id \in Ids /\ row[t.id].status = "gone"
    BY DEF IInv, TypeOK, TombsOfGone, Tombstones
  <2>2. t.id \notin N /\ t.id # old
    BY <2>1, <1>n
  <2> QED BY <2>1, <2>2
<1>3. SupersessionWellFounded'
  <2>1. ASSUME NEW S \in (SUBSET Ids) \ {{}} PROVE \E i \in S : ~Live(i)' \/ row'[i].sup \notin S
    <3>n. NoId \notin S
      BY <1>n
    <3>1. CASE old # NoId /\ x \in S
      BY <3>1, <3>n
    <3>2. CASE \E i \in S : i \in N
      BY <3>2, <3>n
    <3>3. CASE x \notin S /\ old \in S
      BY <3>3, <3>n
    <3>4. CASE old \notin S /\ \A i \in S : i \notin N
      <4>1. PICK i \in S : ~Live(i) \/ row[i].sup \notin S
        BY DEF IInv, SupersessionWellFounded
      <4>2. row'[i] = row[i]
        BY <3>4
      <4> QED BY <4>1, <4>2 DEF Live
    <3> QED BY <3>1, <3>2, <3>3, <3>4, <3>n
  <2>2. ASSUME NEW i \in Ids, Live(i)', row'[i].sup # NoId PROVE row'[row'[i].sup].status = "live"
    <3>1. CASE i \in N
      BY <3>1, <2>2
    <3>2. CASE i \notin N /\ i = old
      BY <3>2, <1>n
    <3>3. CASE i \notin N /\ i # old
      <4>1. row'[i] = row[i]
        BY <3>3
      <4>2. row[i].sup \in Ids /\ Live(row[i].sup)
        BY <4>1, <2>2, <1>t, RowFields DEF IInv, SupersessionWellFounded, LiveIds, Live
      <4>3. row[i].sup \notin N
        BY <4>2 DEF Live
      <4> QED BY <4>1, <4>2, <4>3, <1>n DEF Live
    <3> QED BY <3>1, <3>2, <3>3
  <2> QED BY <2>1, <2>2 DEF SupersessionWellFounded, LiveIds, Live
<1>4. FactKept
  <2> SUFFICES ASSUME NEW i \in Ids, Live(i), row'[i].sup \notin {row[i].sup, NoId}
               PROVE  /\ row[i].sup = NoId
                      /\ row'[row'[i].sup].status = "live" /\ row'[row'[i].sup].sup = NoId
                      /\ \/ row[row'[i].sup].status = "unborn"
                         \/ row[row'[i].sup].profile = row[i].profile
    BY DEF FactKept
  <2>1. i = old
    BY DEF Live
  <2> QED BY <2>1, <1>n
<1>5. AuthorityKept
  <2> SUFFICES ASSUME NEW i \in LiveIds PROVE row'[i].status # "gone"
    BY DEF AuthorityKept
  <2> QED BY <1>n DEF LiveIds, Live
<1> QED BY <1>1, <1>2, <1>3, <1>4, <1>5 DEF RowStep

(* The mark on one row.                                                    *)
LEMMA SupersededRows ==
    ASSUME NEW f \in [Ids -> Rows], NEW old \in Ids, NEW x \in Ids
    PROVE  LET g == Superseded(f, old, x)
           IN  /\ g \in [Ids -> Rows] /\ g[old].status = f[old].status /\ g[old].sup = x /\ Later(g[old], f[old])
               /\ \A i \in Ids : i # old => g[i] = f[i]
<1>1. /\ MarkedBy(f[old], x) \in Rows /\ MarkedBy(f[old], x).status = f[old].status
      /\ MarkedBy(f[old], x).sup = x /\ Later(MarkedBy(f[old], x), f[old])
  BY MarkedRow
<1> QED BY <1>1 DEF Superseded

(* A memory is stored.                                                     *)
LEMMA StoreRows ==
    ASSUME IInv, NEW i \in Ids, NEW d \in Drafts, NEW old \in Ids \cup {NoId}, Store(i, d, old)
    PROVE  RowStep
<1>t. row \in [Ids -> Rows] /\ NoId \notin Ids
  BY NamesAreDistinct DEF IInv, TypeOK
<1>d. Inserted(d) \in Rows /\ Inserted(d).status = "live" /\ Inserted(d).sup = NoId
  BY DraftsAreTyped, InsertedRow
<1>s. /\ UNCHANGED tombs /\ row[i].status = "unborn"
      /\ old # NoId => old \in Ids /\ row[old].status = "live" /\ row[old].sup = NoId /\ old # i
  BY DEF Store, Supersedable, Live
<1> DEFINE f == [row EXCEPT ![i] = Inserted(d)]
<1>f. f \in [Ids -> Rows] /\ f[i] = Inserted(d) /\ \A k \in Ids : k # i => f[k] = row[k]
  BY <1>t, <1>d
<1>m. row' = Marked(f, old, i)
  BY DEF Store
<1> DEFINE N == {i}
<1>n. N \in SUBSET Ids /\ \A k \in Ids : k \in N <=> k = i
  OBVIOUS
<1> HIDE DEF f, N
<1>1. row' \in [Ids -> Rows] /\ row'[i] = Inserted(d) /\ \A k \in Ids : k \notin N /\ k # old => row'[k] = row[k]
  <2>1. CASE old = NoId
    BY <2>1, <1>m, <1>f, <1>n DEF Marked
  <2>2. CASE old # NoId
    BY <2>2, <1>m, <1>f, <1>n, <1>s, SupersededRows DEF Marked
  <2> QED BY <2>1, <2>2
<1>2. old # NoId => row'[old].status = "live" /\ row'[old].sup = i /\ Later(row'[old], row[old])
  BY <1>m, <1>f, <1>s, SupersededRows DEF Marked
<1>3. \A k \in N : row[k].status = "unborn" /\ row'[k].status = "live" /\ row'[k].sup = NoId
  BY <1>1, <1>d, <1>s, <1>n
<1>4. old # NoId => /\ row[old].status = "live" /\ row[old].sup = NoId /\ old # i
                    /\ row'[old].status = "live" /\ row'[old].sup = i /\ Later(row'[old], row[old])
                    /\ row'[i].status = "live" /\ row'[i].sup = NoId
                    /\ row[i].status = "unborn" \/ row[i].profile = row[old].profile
  BY <1>1, <1>2, <1>d, <1>s
<1> QED BY <1>1, <1>3, <1>4, <1>n, <1>s, SupersessionStep

(* Two memories are stored in one transaction.                             *)
LEMMA StoreBatchRows ==
    ASSUME IInv, NEW i \in Ids, NEW j \in Ids, NEW d \in Drafts, NEW old \in Ids \cup {NoId},
           StoreBatch(i, j, d, old)
    PROVE  RowStep
<1>t. row \in [Ids -> Rows] /\ NoId \notin Ids
  BY NamesAreDistinct DEF IInv, TypeOK
<1>d. Inserted(d) \in Rows /\ Inserted(d).status = "live" /\ Inserted(d).sup = NoId
  BY DraftsAreTyped, InsertedRow
<1>u. UNCHANGED tombs /\ row[i].status = "unborn" /\ row[j].status = "unborn" /\ i # j
  BY DEF StoreBatch
<1>s. old # NoId => /\ old \in Ids /\ row[old].status = "live" /\ row[old].sup = NoId
                    /\ old # i /\ old # j
  BY <1>u DEF StoreBatch, Supersedable, Live
<1> DEFINE f == [row EXCEPT ![i] = Inserted(d), ![j] = Inserted(d)]
<1>f. /\ f \in [Ids -> Rows] /\ f[i] = Inserted(d) /\ f[j] = Inserted(d)
      /\ \A k \in Ids : k # i /\ k # j => f[k] = row[k]
  BY <1>t, <1>d, <1>u
<1>m. row' = Marked(f, old, j)
  BY DEF StoreBatch
<1> DEFINE N == {i, j}
<1>n. N \in SUBSET Ids /\ \A k \in Ids : k \in N <=> k = i \/ k = j
  OBVIOUS
<1> HIDE DEF f, N
<1>1. /\ row' \in [Ids -> Rows] /\ row'[i] = Inserted(d) /\ row'[j] = Inserted(d)
      /\ \A k \in Ids : k \notin N /\ k # old => row'[k] = row[k]
  <2>1. CASE old = NoId
    BY <2>1, <1>m, <1>f, <1>n DEF Marked
  <2>2. CASE old # NoId
    BY <2>2, <1>m, <1>f, <1>n, <1>s, SupersededRows DEF Marked
  <2> QED BY <2>1, <2>2
<1>2. old # NoId => row'[old].status = "live" /\ row'[old].sup = j /\ Later(row'[old], row[old])
  BY <1>m, <1>f, <1>s, SupersededRows DEF Marked
<1>3. \A k \in N : row[k].status = "unborn" /\ row'[k].status = "live" /\ row'[k].sup = NoId
  BY <1>1, <1>d, <1>u, <1>n
<1>4. old # NoId => /\ row[old].status = "live" /\ row[old].sup = NoId /\ old # j
                    /\ row'[old].status = "live" /\ row'[old].sup = j /\ Later(row'[old], row[old])
                    /\ row'[j].status = "live" /\ row'[j].sup = NoId
                    /\ row[j].status = "unborn" \/ row[j].profile = row[old].profile
  BY <1>1, <1>2, <1>d, <1>s, <1>u
<1> QED BY <1>1, <1>3, <1>4, <1>n, <1>u, SupersessionStep

(* A consolidation supersedes a member by its representative: an equal     *)
(* revision means that the representative still is superseded by nobody.   *)
LEMMA MergeRows ==
    ASSUME IInv, NEW k \in Consolidators, NEW m \in plan[k].todo, Merge(k, m)
    PROVE  RowStep
<1>t. row \in [Ids -> Rows] /\ NoId \notin Ids
  BY NamesAreDistinct DEF IInv, TypeOK
<1>m. m \in [member : Snapshots, rep : Snapshots]
  BY DEF IInv, TypeOK, Plans
<1> DEFINE i == m.member.id
           x == m.rep.id
<1>1. i \in Ids /\ x \in Ids /\ i # x
  BY <1>m DEF Snapshots, Merge, Mergeable
<1>2. /\ row[i].status = "live" /\ row[x].status = "live" /\ row[i].sup = NoId
      /\ row[x].profile = row[i].profile /\ row[x].rev = m.rep.rev
  BY DEF Merge, Mergeable, Unchanged, Live
<1>3. row[x].sup = NoId
  BY <1>2 DEF IInv, PlansSee, Seen, Live
<1>4. row' = Superseded(row, i, x) /\ UNCHANGED tombs
  BY DEF Merge
<1> HIDE DEF i, x
<1>5. /\ row' \in [Ids -> Rows] /\ row'[i].status = "live" /\ row'[i].sup = x /\ Later(row'[i], row[i])
      /\ \A j \in Ids : j # i => row'[j] = row[j]
  BY <1>1, <1>2, <1>4, <1>t, SupersededRows
<1>6. row'[x].status = "live" /\ row'[x].sup = NoId
  BY <1>1, <1>2, <1>3, <1>5
<1> DEFINE N == {j \in Ids : FALSE}
<1>7. N \in SUBSET Ids /\ \A j \in N : FALSE
  OBVIOUS
<1> HIDE DEF N
<1>8. i \in Ids \cup {NoId}
  BY <1>1
<1> QED BY <1>1, <1>2, <1>4, <1>5, <1>6, <1>7, <1>8, SupersessionStep

(* An update of one row.                                                   *)
LEMMA UpdateRows ==
    ASSUME IInv, NEW i \in Ids, NEW p, NEW u \in Updates, NEW now \in 0..MaxNow, Update(i, p, u, now)
    PROVE  RowStep
<1>1. row \in [Ids -> Rows] /\ u \in UpdateRecords /\ now \in Nat
  BY UpdatesAreTyped, BoundsAreNaturals DEF IInv, TypeOK
<1>2. row' = [row EXCEPT ![i] = Updated(row[i], u, now)] /\ UNCHANGED tombs
  BY DEF Update
<1> QED BY <1>1, <1>2, UpdatedRow, PlainWrite

(* Metadata is written.                                                    *)
LEMMA UpsertMetadataRows ==
    ASSUME IInv, NEW i \in Ids, NEW a \in Attrs, UpsertMetadata(i, a)
    PROVE  RowStep
<1>1. row \in [Ids -> Rows]
  BY DEF IInv, TypeOK
<1>2. row' = [row EXCEPT ![i] = Annotated(row[i], a)] /\ UNCHANGED tombs
  BY DEF UpsertMetadata
<1> QED BY <1>1, <1>2, AnnotatedRow, PlainWrite

(* A vector is applied.                                                    *)
LEMMA SetEmbeddingRows ==
    ASSUME IInv, NEW i \in Ids, SetEmbedding(i)
    PROVE  RowStep
<1>1. row \in [Ids -> Rows]
  BY DEF IInv, TypeOK
<1>2. row' = [row EXCEPT ![i] = [row[i] EXCEPT !.emb = TRUE]] /\ UNCHANGED tombs
  BY DEF SetEmbedding
<1>3. LET s == [row[i] EXCEPT !.emb = TRUE]
      IN  s \in Rows /\ s.status = row[i].status /\ s.sup = row[i].sup /\ Later(s, row[i])
  BY <1>1, EmbeddedRow
<1> QED BY <1>2, <1>3, PlainWrite

(* Time passes.                                                            *)
LEMMA ExpireRows ==
    ASSUME IInv, NEW i \in Ids, Expire(i)
    PROVE  RowStep
<1>1. row \in [Ids -> Rows]
  BY DEF IInv, TypeOK
<1>2. row' = [row EXCEPT ![i] = [row[i] EXCEPT !.ttl = "past"]] /\ UNCHANGED tombs /\ row[i].ttl = "pending"
  BY DEF Expire
<1>3. LET s == [row[i] EXCEPT !.ttl = "past"]
      IN  s \in Rows /\ s.status = row[i].status /\ s.sup = row[i].sup /\ Later(s, row[i])
  BY <1>1, <1>2, ExpiredRow
<1> QED BY <1>2, <1>3, PlainWrite

(* A scope is moved.                                                       *)
LEMMA ReassignRows ==
    ASSUME IInv, NEW p, NEW c \in Profiles, NEW d \in Profiles, Reassign(p, c, d)
    PROVE  RowStep
<1>t. row \in [Ids -> Rows]
  BY DEF IInv, TypeOK
<1>1. PICK M \in SUBSET Ids :
         row' = [i \in Ids |-> IF i \in M THEN [row[i] EXCEPT !.profile = d, !.rev = @ + 1] ELSE row[i]]
  BY DEF Reassign, LiveIds
<1>2. ASSUME NEW i \in Ids
      PROVE  /\ row'[i] \in Rows
             /\ row'[i].status = row[i].status /\ row'[i].sup = row[i].sup /\ Later(row'[i], row[i])
  <2>1. CASE i \in M
    <3>1. row'[i] = [row[i] EXCEPT !.profile = d, !.rev = @ + 1]
      BY <1>1, <2>1
    <3>2. LET s == [row[i] EXCEPT !.profile = d, !.rev = @ + 1]
          IN  s \in Rows /\ s.status = row[i].status /\ s.sup = row[i].sup /\ Later(s, row[i])
      BY <1>t, MovedRow
    <3> QED BY <3>1, <3>2
  <2>2. CASE i \notin M
    BY <1>1, <1>t, <2>2, LaterItself
  <2> QED BY <2>1, <2>2
<1>3. row' \in [Ids -> Rows]
  <2>1. row' = [i \in Ids |-> row'[i]]
    BY <1>1
  <2> QED BY <2>1, <1>2
<1>4. UNCHANGED tombs
  BY DEF Reassign
<1> QED BY <1>2, <1>3, <1>4, PlainStep

(* A bulk update.                                                          *)
LEMMA BulkUpdateRows ==
    ASSUME IInv, NEW u \in Updates, BulkUpdate(u)
    PROVE  RowStep
<1>t. row \in [Ids -> Rows] /\ u \in UpdateRecords /\ 0 \in Nat
  BY UpdatesAreTyped DEF IInv, TypeOK
<1>1. row' = [i \in Ids |-> IF i \in BulkTargets THEN Updated(row[i], u, 0) ELSE row[i]] /\ UNCHANGED tombs
  BY DEF BulkUpdate
<1>2. ASSUME NEW i \in Ids
      PROVE  /\ row'[i] \in Rows
             /\ row'[i].status = row[i].status /\ row'[i].sup = row[i].sup /\ Later(row'[i], row[i])
  BY <1>t, <1>1, UpdatedRow, LaterItself
<1>3. row' \in [Ids -> Rows]
  <2>1. row' = [i \in Ids |-> row'[i]]
    BY <1>1
  <2> QED BY <2>1, <1>2
<1> QED BY <1>1, <1>2, <1>3, PlainStep

(* The optimistic save.                                                    *)
LEMMA SaveRows ==
    ASSUME IInv, NEW e \in Editors, NEW u \in Updates, NEW now \in 0..MaxNow, NEW vector \in BOOLEAN,
           SaveIfUnmodified(e, u, now, vector)
    PROVE  RowStep
<1>1. row \in [Ids -> Rows] /\ u \in UpdateRecords /\ now \in Nat
  BY UpdatesAreTyped, BoundsAreNaturals DEF IInv, TypeOK
<1>2. editor[e].st = "open" /\ editor[e].id \in Ids
  BY DEF SaveIfUnmodified, Unmodified, IInv, EditorsSee
<1> DEFINE i == editor[e].id
           r == Updated(row[i], u, now)
           s == Saved(row[i], u, now, vector)
<1>3. row' = [row EXCEPT ![i] = s] /\ UNCHANGED tombs
  BY DEF SaveIfUnmodified
<1>4. r \in Rows /\ r.status = row[i].status /\ r.sup = row[i].sup /\ Later(r, row[i])
  BY <1>1, <1>2, UpdatedRow
<1>5. PICK b \in BOOLEAN : s = [r EXCEPT !.emb = b]
  BY <1>4, RowFields DEF Saved
<1> HIDE DEF r, s
<1>6. LET z == [r EXCEPT !.emb = b]
      IN  z \in Rows /\ z.status = r.status /\ z.sup = r.sup /\ Later(z, r)
  BY <1>4, EmbeddedRow
<1>7. s \in Rows /\ s.status = row[i].status /\ s.sup = row[i].sup
  BY <1>4, <1>5, <1>6
<1>8. Later(s, row[i])
  BY <1>1, <1>2, <1>4, <1>5, <1>6, LaterChains
<1> QED BY <1>2, <1>3, <1>7, <1>8, PlainWrite

-----------------------------------------------------------------------------
(* What the editors and the consolidations read.                           *)

(* What was read of a row stays a past of it.                              *)
LEMMA SeenStays ==
    ASSUME IInv, RowStep, NEW s \in Snapshots, Seen(s)
    PROVE  Seen(s)'
<1>1. s.id \in Ids /\ s.rev \in Nat
  BY DEF Snapshots
<1>2. /\ row[s.id] \in Rows /\ row'[s.id] \in Rows /\ MovesOn(row[s.id], row'[s.id])
  BY <1>1 DEF IInv, TypeOK, RowStep, Evolves
<1>3. row[s.id].status \in {"live", "gone"} /\ row[s.id].rev \in Nat /\ row'[s.id].rev \in Nat
  BY <1>2, RowFields DEF Seen
<1>4. row'[s.id].status # "unborn"
  BY <1>2, <1>3 DEF MovesOn
<1>5. ASSUME row'[s.id].status = "live"
      PROVE  row'[s.id].rev >= s.rev /\ (row'[s.id].rev = s.rev => row'[s.id].sup = NoId)
  <2>1. row[s.id].status = "live" /\ Later(row'[s.id], row[s.id])
    BY <1>2, <1>3, <1>5 DEF MovesOn
  <2>2. row[s.id].rev >= s.rev /\ (row[s.id].rev = s.rev => row[s.id].sup = NoId)
    BY <2>1 DEF Seen, Live
  <2>3. row'[s.id].rev >= row[s.id].rev
    BY <2>1 DEF Later
  <2>4. row'[s.id].rev = row[s.id].rev => row'[s.id].sup = row[s.id].sup
    BY <2>1, <1>2, VersionCovers DEF Later
  <2> QED BY <2>2, <2>3, <2>4, <1>1, <1>3
<1> QED BY <1>4, <1>5 DEF Seen, Live

(* A step that opens no editor and lists no candidates.                    *)
LEMMA ReadsStay ==
    ASSUME IInv, RowStep,
           editor' \in [Editors -> EditorRecords],
           \A e \in Editors : editor'[e].st = "open" => editor'[e] = editor[e],
           bulk' \in BulkRequests,
           plan' \in [Consolidators -> Plans],
           \A k \in Consolidators : plan'[k].todo \subseteq plan[k].todo
    PROVE  IInv'
<1>1. TypeOK'
  BY DEF TypeOK, RowStep
<1>2. EditorsSee'
  <2> SUFFICES ASSUME NEW e \in Editors, editor'[e].st = "open"
               PROVE  /\ editor'[e].id \in Ids /\ row'[editor'[e].id].status # "unborn"
                      /\ row'[editor'[e].id].status = "live" => Later(row'[editor'[e].id], editor'[e].seen)
    BY DEF EditorsSee, Live
  <2> DEFINE i == editor[e].id
             s == editor[e].seen
  <2>1. editor'[e] = editor[e] /\ editor[e].st = "open"
    OBVIOUS
  <2>2. i \in Ids /\ row[i].status # "unborn" /\ (row[i].status = "live" => Later(row[i], s)) /\ s \in Rows
    BY <2>1 DEF IInv, EditorsSee, Live, TypeOK, EditorRecords
  <2>3. row[i] \in Rows /\ row'[i] \in Rows /\ MovesOn(row[i], row'[i])
    BY <2>2 DEF IInv, TypeOK, RowStep, Evolves
  <2> HIDE DEF i, s
  <2>4. row'[i].status # "unborn" /\ (row'[i].status = "live" => row[i].status = "live" /\ Later(row'[i], row[i]))
    BY <2>2, <2>3, RowFields DEF MovesOn
  <2>5. row'[i].status = "live" => Later(row'[i], s)
    BY <2>2, <2>3, <2>4, LaterChains
  <2> QED BY <2>1, <2>2, <2>4, <2>5 DEF i, s
<1>3. PlansSee'
  <2> SUFFICES ASSUME NEW k \in Consolidators, NEW m \in plan'[k].todo
               PROVE  Seen(m.member)' /\ Seen(m.rep)'
    BY DEF PlansSee
  <2>1. m \in plan[k].todo /\ m.member \in Snapshots /\ m.rep \in Snapshots
    BY DEF IInv, TypeOK, Plans
  <2>2. Seen(m.member) /\ Seen(m.rep)
    BY <2>1 DEF IInv, PlansSee
  <2> QED BY <2>1, <2>2, SeenStays
<1> QED BY <1>1, <1>2, <1>3 DEF IInv, RowStep

(* A step that leaves the readers alone.                                   *)
LEMMA OnlyRows ==
    ASSUME IInv, RowStep, UNCHANGED <<editor, bulk, plan>>
    PROVE  IInv'
BY ReadsStay DEF IInv, TypeOK

(* The idle values of the readers have their types.                        *)
LEMMA IdleValues ==
    /\ Closed \in EditorRecords /\ [Closed EXCEPT !.st = "applied"] \in EditorRecords
    /\ Closed.st = "closed" /\ [Closed EXCEPT !.st = "applied"].st = "applied"
    /\ NoBulk \in BulkRequests /\ NoPlan \in Plans /\ NoPlan.todo = {}
<1>1. (CHOOSE p \in Principals : TRUE) \in Principals
  BY ValuesExist
<1>2. Blank("unborn") \in Rows
  BY BlankRow
<1> QED BY <1>1, <1>2 DEF Closed, NoBulk, NoPlan, EditorRecords, BulkRequests, Plans

(* An editor opens a row.                                                  *)
LEMMA OpenKeeps ==
    ASSUME IInv, NEW e \in Editors, NEW p \in Principals, NEW i \in Ids, Open(e, p, i)
    PROVE  IInv'
<1>t. row \in [Ids -> Rows] /\ editor \in [Editors -> EditorRecords]
  BY DEF IInv, TypeOK
<1> DEFINE n == [st |-> "open", by |-> p, id |-> i, seen |-> row[i]]
<1>1. n \in EditorRecords /\ n.id = i /\ n.seen = row[i]
  BY <1>t DEF EditorRecords
<1>2. editor' = [editor EXCEPT ![e] = n] /\ UNCHANGED <<row, tombs, bulk, plan>> /\ row[i].status = "live"
  BY DEF Open, Openable, Live
<1> HIDE DEF n
<1>3. TypeOK'
  BY <1>1, <1>2 DEF IInv, TypeOK
<1>4. EditorsSee'
  BY <1>1, <1>2, <1>t, LaterItself DEF IInv, EditorsSee, Live
<1> QED BY <1>2, <1>3, <1>4 DEF IInv, PlansSee, Seen, TombsOfGone, SupersessionWellFounded, LiveIds, Live

(* A consolidation lists its candidates: none of them is superseded.       *)
LEMMA ConsolidateKeeps ==
    ASSUME IInv, NEW k \in Consolidators, NEW p \in Principals, NEW C \in SUBSET Ids, Consolidate(k, p, C)
    PROVE  IInv'
<1>t. row \in [Ids -> Rows] /\ plan \in [Consolidators -> Plans]
  BY DEF IInv, TypeOK
<1>1. PICK rep \in Groupings(C) : plan' = [plan EXCEPT ![k] = [by |-> p, todo |-> Merges(C, rep)]]
  BY DEF Consolidate
<1>2. rep \in [C -> C]
  BY DEF Groupings
<1>3. UNCHANGED <<row, tombs, editor, bulk>>
  BY DEF Consolidate
<1>4. ASSUME NEW i \in C
      PROVE  SnapshotOf(i) \in Snapshots /\ Seen(SnapshotOf(i))
  <2>1. row[i] \in Rows /\ Live(i) /\ row[i].sup = NoId
    BY <1>t DEF Consolidate, Candidate
  <2>2. row[i].rev \in Nat /\ row[i].profile \in Profiles /\ row[i].status = "live"
    BY <2>1, RowFields DEF Live
  <2>3. SnapshotOf(i) \in Snapshots /\ SnapshotOf(i).id = i /\ SnapshotOf(i).rev = row[i].rev
    BY <2>2 DEF SnapshotOf, Snapshots
  <2>4. row[i].rev >= row[i].rev
    BY <2>2
  <2> HIDE DEF SnapshotOf
  <2> QED BY <2>1, <2>2, <2>3, <2>4 DEF Seen
<1>5. ASSUME NEW m \in Merges(C, rep)
      PROVE  m \in [member : Snapshots, rep : Snapshots] /\ Seen(m.member) /\ Seen(m.rep)
  <2>1. PICK i \in C : m = [member |-> SnapshotOf(i), rep |-> SnapshotOf(rep[i])]
    BY DEF Merges
  <2>2. rep[i] \in C
    BY <1>2
  <2> QED BY <2>1, <2>2, <1>4
<1>6. [by |-> p, todo |-> Merges(C, rep)] \in Plans
  BY <1>5 DEF Plans
<1>7. TypeOK'
  BY <1>1, <1>3, <1>6 DEF IInv, TypeOK
<1>8. PlansSee'
  <2> SUFFICES ASSUME NEW c \in Consolidators, NEW m \in plan'[c].todo
               PROVE  Seen(m.member) /\ Seen(m.rep)
    BY <1>3 DEF PlansSee, Seen, Live
  <2>1. CASE c = k
    BY <2>1, <1>1, <1>5, <1>t
  <2>2. CASE c # k
    BY <2>2, <1>1, <1>t DEF IInv, PlansSee
  <2> QED BY <2>1, <2>2
<1> QED BY <1>3, <1>7, <1>8 DEF IInv, EditorsSee, TombsOfGone, SupersessionWellFounded, LiveIds, Live

(* Expired rows are deleted.                                               *)
LEMMA EvictRows ==
    ASSUME IInv, NEW D \in SUBSET LiveIds, EvictExpired(D)
    PROVE  RowStep /\ IInv'
<1>1. RowStep
  BY DeletionStep DEF EvictExpired
<1> QED BY <1>1, OnlyRows DEF EvictExpired

(* Requests, bulk requests and expiry cleanup delete live rows only.       *)
LEMMA DeletesKeep ==
    ASSUME IInv, \/ \E i \in Ids, p \in Principals : Delete(i, p)
                 \/ \E p \in Principals : EvictAuthorized(p)
                 \/ EvictAll
                 \/ BulkDelete
    PROVE  RowStep /\ IInv'
<1>1. ASSUME NEW i \in Ids, NEW p \in Principals, Delete(i, p) PROVE RowStep /\ IInv'
  <2>1. {i} \in SUBSET LiveIds /\ DeleteRows({i}) /\ UNCHANGED <<editor, bulk, plan>>
    BY <1>1 DEF Delete, LiveIds
  <2> QED BY <2>1, DeletionStep, OnlyRows
<1>2. ASSUME NEW p \in Principals, EvictAuthorized(p) PROVE RowStep /\ IInv'
  <2> DEFINE D == {i \in LiveIds : row[i].ttl = "past" /\ WriteAccess(row[i], p)}
  <2>1. D \in SUBSET LiveIds /\ EvictExpired(D)
    BY <1>2 DEF EvictAuthorized
  <2> QED BY <2>1, EvictRows
<1>3. ASSUME EvictAll PROVE RowStep /\ IInv'
  <2> DEFINE D == {i \in LiveIds : row[i].ttl = "past"}
  <2>1. D \in SUBSET LiveIds /\ EvictExpired(D)
    BY <1>3 DEF EvictAll
  <2> QED BY <2>1, EvictRows
<1>4. ASSUME BulkDelete PROVE RowStep /\ IInv'
  <2>1. BulkTargets \in SUBSET LiveIds
    BY DEF BulkTargets, LiveIds, IInv, TypeOK, BulkRequests
  <2>2. RowStep
    BY <1>4, <2>1, DeletionStep DEF BulkDelete
  <2> QED BY <1>4, <2>2, ReadsStay, IdleValues DEF BulkDelete, IInv, TypeOK
<1> QED BY <1>1, <1>2, <1>3, <1>4

(* The plain requests.                                                     *)
LEMMA RequestsKeep ==
    ASSUME IInv, \/ StoreStep
                 \/ \E p \in Principals, i \in Ids, u \in Updates, now \in 0..MaxNow : Update(i, p, u, now)
                 \/ \E p \in Principals, c, d \in Profiles : Reassign(p, c, d)
                 \/ \E i \in Ids, a \in Attrs : UpsertMetadata(i, a)
                 \/ \E i \in Ids : SetEmbedding(i) \/ Expire(i)
    PROVE  RowStep /\ IInv'
<1>1. RowStep
  <2>1. CASE StoreStep
    BY <2>1, StoreRows, StoreBatchRows DEF StoreStep
  <2>2. CASE \E p \in Principals, i \in Ids, u \in Updates, now \in 0..MaxNow : Update(i, p, u, now)
    BY <2>2, UpdateRows
  <2>3. CASE \E p \in Principals, c, d \in Profiles : Reassign(p, c, d)
    BY <2>3, ReassignRows
  <2>4. CASE \E i \in Ids, a \in Attrs : UpsertMetadata(i, a)
    BY <2>4, UpsertMetadataRows
  <2>5. CASE \E i \in Ids : SetEmbedding(i) \/ Expire(i)
    BY <2>5, SetEmbeddingRows, ExpireRows
  <2> QED BY <2>1, <2>2, <2>3, <2>4, <2>5
<1>2. UNCHANGED <<editor, bulk, plan>>
  BY DEF StoreStep, Store, StoreBatch, Update, Reassign, UpsertMetadata, SetEmbedding, Expire
<1> QED BY <1>1, <1>2, OnlyRows

(* The editors: an applied save or delete found the row as it was read.    *)
EditApplied ==
    \A e \in Editors :
        editor[e].st = "open" /\ editor'[e].st = "applied" =>
            /\ Live(editor[e].id)
            /\ Versioned(row[editor[e].id]) = Versioned(editor[e].seen)

(* Every step of an editor.                                                *)
LEMMA EditorsKeep ==
    ASSUME IInv, EditorStep
    PROVE  RowStep /\ IInv' /\ EditApplied
<1>t. editor \in [Editors -> EditorRecords]
  BY DEF IInv, TypeOK
<1>1. PICK e \in Editors :
        \/ \E p \in Principals, i \in Ids : Open(e, p, i)
        \/ \E u \in Updates, now \in 0..MaxNow, vector \in BOOLEAN : SaveIfUnmodified(e, u, now, vector)
        \/ DeleteIfUnmodified(e)
        \/ RefuseEdit(e)
  BY DEF EditorStep
<1>2. CASE \E p \in Principals, i \in Ids : Open(e, p, i)
  <2>1. RowStep
    BY <1>2, NoWrite DEF Open
  <2>2. IInv'
    BY <1>2, OpenKeeps
  <2>3. EditApplied
    BY <1>2, <1>t DEF EditApplied, Open
  <2> QED BY <2>1, <2>2, <2>3
<1>3. CASE RefuseEdit(e)
  <2>1. RowStep
    BY <1>3, NoWrite DEF RefuseEdit
  <2>0. editor' = [editor EXCEPT ![e] = Closed] /\ UNCHANGED <<bulk, plan>>
    BY <1>3 DEF RefuseEdit
  <2>2. IInv'
    BY <2>0, <2>1, <1>t, ReadsStay, IdleValues DEF IInv, TypeOK
  <2>3. EditApplied
    BY <2>0, <1>t, IdleValues DEF EditApplied
  <2> QED BY <2>1, <2>2, <2>3
<1>4. ASSUME Unmodified(e), RowStep, UNCHANGED <<bulk, plan>>,
             editor' = [editor EXCEPT ![e] = [Closed EXCEPT !.st = "applied"]]
      PROVE  RowStep /\ IInv' /\ EditApplied
  <2>1. editor' \in [Editors -> EditorRecords]
    BY <1>4, <1>t, IdleValues
  <2>2. \A d \in Editors : editor'[d].st = "open" => editor'[d] = editor[d]
    BY <1>4, <1>t, IdleValues
  <2>3. IInv'
    BY <1>4, <2>1, <2>2, ReadsStay DEF IInv, TypeOK
  <2>4. EditApplied
    <3>1. Live(editor[e].id) /\ row[editor[e].id].rev = editor[e].seen.rev /\ editor[e].st = "open"
      BY <1>4 DEF Unmodified
    <3>2. Versioned(row[editor[e].id]) = Versioned(editor[e].seen)
      BY <3>1 DEF IInv, EditorsSee, Later
    <3> QED BY <1>4, <1>t, <3>1, <3>2 DEF EditApplied
  <2> QED BY <1>4, <2>3, <2>4
<1>5. CASE \E u \in Updates, now \in 0..MaxNow, vector \in BOOLEAN : SaveIfUnmodified(e, u, now, vector)
  <2>1. RowStep
    BY <1>5, SaveRows
  <2> QED BY <1>4, <1>5, <2>1 DEF SaveIfUnmodified
<1>6. CASE DeleteIfUnmodified(e)
  <2>1. {editor[e].id} \in SUBSET LiveIds
    BY <1>6 DEF DeleteIfUnmodified, Unmodified, IInv, EditorsSee, LiveIds
  <2>2. RowStep
    BY <1>6, <2>1, DeletionStep DEF DeleteIfUnmodified
  <2> QED BY <1>4, <1>6, <2>2 DEF DeleteIfUnmodified
<1> QED BY <1>1, <1>2, <1>3, <1>5, <1>6

(* Bulk requests and consolidations.                                       *)
LEMMA PlansKeep ==
    ASSUME IInv, \/ \E p \in Principals, S \in SUBSET Ids : BulkList(p, S)
                 \/ \E u \in Updates : BulkUpdate(u)
                 \/ \E k \in Consolidators, p \in Principals, C \in SUBSET Ids : Consolidate(k, p, C)
                 \/ \E k \in Consolidators :
                       (\E m \in plan[k].todo : Merge(k, m) \/ SkipMerge(k, m)) \/ AbandonMerges(k)
    PROVE  RowStep /\ IInv'
<1>t. plan \in [Consolidators -> Plans]
  BY DEF IInv, TypeOK
<1>1. ASSUME NEW p \in Principals, NEW S \in SUBSET Ids, BulkList(p, S) PROVE RowStep /\ IInv'
  <2>1. RowStep
    BY <1>1, NoWrite DEF BulkList
  <2>2. bulk' \in BulkRequests
    BY <1>1 DEF BulkList, BulkRequests
  <2> QED BY <1>1, <2>1, <2>2, ReadsStay DEF BulkList, IInv, TypeOK
<1>2. ASSUME NEW u \in Updates, BulkUpdate(u) PROVE RowStep /\ IInv'
  <2>1. RowStep
    BY <1>2, BulkUpdateRows
  <2> QED BY <1>2, <2>1, ReadsStay, IdleValues DEF BulkUpdate, IInv, TypeOK
<1>3. ASSUME NEW k \in Consolidators, NEW p \in Principals, NEW C \in SUBSET Ids, Consolidate(k, p, C)
      PROVE  RowStep /\ IInv'
  <2>1. RowStep
    BY <1>3, NoWrite DEF Consolidate
  <2> QED BY <1>3, <2>1, ConsolidateKeeps
<1>4. ASSUME NEW k \in Consolidators, NEW q \in Plans, q.todo \subseteq plan[k].todo, RowStep,
             plan' = [plan EXCEPT ![k] = q], UNCHANGED <<editor, bulk>>
      PROVE  IInv'
  BY <1>4, <1>t, ReadsStay DEF IInv, TypeOK
<1>5. ASSUME NEW k \in Consolidators, NEW m \in plan[k].todo
      PROVE  Without(plan[k], m) \in Plans /\ Without(plan[k], m).todo \subseteq plan[k].todo
  BY <1>t, IdleValues DEF Without, Plans
<1>6. ASSUME NEW k \in Consolidators, NEW m \in plan[k].todo, Merge(k, m) PROVE RowStep /\ IInv'
  <2>1. RowStep
    BY <1>6, MergeRows
  <2>2. plan' = [plan EXCEPT ![k] = Without(plan[k], m)] /\ UNCHANGED <<editor, bulk>>
    BY <1>6 DEF Merge
  <2> QED BY <1>4, <1>5, <2>1, <2>2
<1>7. ASSUME NEW k \in Consolidators, NEW m \in plan[k].todo, SkipMerge(k, m) PROVE RowStep /\ IInv'
  <2>1. RowStep
    BY <1>7, NoWrite DEF SkipMerge
  <2>2. plan' = [plan EXCEPT ![k] = Without(plan[k], m)] /\ UNCHANGED <<editor, bulk>>
    BY <1>7 DEF SkipMerge
  <2> QED BY <1>4, <1>5, <2>1, <2>2
<1>8. ASSUME NEW k \in Consolidators, AbandonMerges(k) PROVE RowStep /\ IInv'
  <2>1. RowStep
    BY <1>8, NoWrite DEF AbandonMerges
  <2>2. plan' = [plan EXCEPT ![k] = NoPlan] /\ UNCHANGED <<editor, bulk>>
    BY <1>8 DEF AbandonMerges
  <2> QED BY <1>4, <2>1, <2>2, IdleValues
<1> QED BY <1>1, <1>2, <1>3, <1>6, <1>7, <1>8

-----------------------------------------------------------------------------
(* The invariant holds of an empty store.                                  *)
LEMMA InitIInv == Init => IInv
<1> SUFFICES ASSUME Init PROVE IInv
  OBVIOUS
<1>1. \A i \in Ids : row[i] \in Rows /\ row[i].status = "unborn"
  BY BlankRow DEF Init
<1>2. TypeOK
  BY IdleValues, BlankRow DEF Init, TypeOK
<1>3. EditorsSee /\ PlansSee /\ TombsOfGone
  BY IdleValues DEF Init, EditorsSee, PlansSee, TombsOfGone
<1>4. SupersessionWellFounded
  <2>1. \A i \in Ids : ~Live(i)
    BY <1>1 DEF Live
  <2>2. LiveIds = {}
    BY <2>1 DEF LiveIds
  <2>3. ASSUME NEW S \in (SUBSET Ids) \ {{}} PROVE \E i \in S : ~Live(i) \/ row[i].sup \notin S
    BY <2>1
  <2> QED BY <2>2, <2>3 DEF SupersessionWellFounded
<1> QED BY <1>2, <1>3, <1>4 DEF IInv

(* Every step keeps it.                                                    *)
LEMMA NextIInv ==
    ASSUME IInv, Next
    PROVE  RowStep /\ IInv' /\ EditApplied
<1>1. CASE EditorStep
  BY <1>1, EditorsKeep
<1>2. CASE ~EditorStep
  <2>1. RowStep /\ IInv'
    BY <1>2, DeletesKeep, RequestsKeep, PlansKeep DEF Next, RequestStep
  <2>2. UNCHANGED editor
    BY <1>2 DEF Next, RequestStep, StoreStep, Store, StoreBatch, Update, Delete, Reassign, EvictAuthorized,
                EvictExpired, BulkList, Consolidate, UpsertMetadata, EvictAll, SetEmbedding, Expire,
                BulkDelete, BulkUpdate, Merge, SkipMerge, AbandonMerges
  <2>3. EditApplied
    BY <2>2 DEF EditApplied
  <2> QED BY <2>1, <2>3
<1> QED BY <1>1, <1>2

(* So does a step of another component.                                    *)
LEMMA StutterIInv ==
    ASSUME IInv, UNCHANGED vars
    PROVE  RowStep /\ IInv' /\ EditApplied
<1>1. RowStep
  BY NoWrite DEF vars
<1> QED BY <1>1, OnlyRows DEF vars, EditApplied

(* The inductive invariant.                                                *)
THEOREM RecordInvariant == Spec => []IInv
<1>1. IInv /\ [Next]_vars => IInv'
  BY NextIInv, StutterIInv
<1> QED BY InitIInv, <1>1, PTL DEF Spec

(* Every variable has its type.                                            *)
THEOREM RecordTypes == Spec => []TypeOK
<1>1. IInv => TypeOK
  BY DEF IInv
<1> QED BY RecordInvariant, <1>1, PTL

(* updated_at identifies the text of a memory to whoever read it, whatever *)
(* the wall clock does (next_memory_revision).                             *)
THEOREM UpdatedIsAVersion == Spec => []UpdatedIdentifiesBody
<1>1. IInv => UpdatedIdentifiesBody
  BY DEF IInv, EditorsSee, UpdatedIdentifiesBody, Later
<1> QED BY RecordInvariant, <1>1, PTL

(* Superseded memories always lead to one that lives and is not            *)
(* superseded, with any number of concurrent consolidations.               *)
THEOREM SupersessionEnds == Spec => []SupersessionWellFounded
<1>1. IInv => SupersessionWellFounded
  BY DEF IInv
<1> QED BY RecordInvariant, <1>1, PTL

(* An optimistic write overwrites nothing that its editor has not seen.    *)
THEOREM EditsLoseNothing == Spec => NoLostUpdate
<1>1. IInv /\ [Next]_vars => [EditApplied]_vars
  BY NextIInv
<1> QED BY RecordInvariant, <1>1, PTL DEF Spec, NoLostUpdate, EditApplied

(* A memory is superseded once, by one that is not superseded itself and   *)
(* has the same contexts or is the memory being stored.                    *)
THEOREM MergesKeepFacts == Spec => MergeKeepsTheFact
<1>1. IInv /\ [Next]_vars => [FactKept]_vars
  BY NextIInv DEF RowStep
<1> QED BY RecordInvariant, <1>1, PTL DEF Spec, MergeKeepsTheFact, FactKept

(* Every deletion leaves the owner and the policy of the memory behind,    *)
(* and no later step loses or rewrites them.                               *)
THEOREM TombstonesStay == Spec => TombstonesKeepAuthority
<1>1. IInv /\ [Next]_vars => [AuthorityKept]_vars
  BY NextIInv DEF RowStep
<1> QED BY RecordInvariant, <1>1, PTL DEF Spec, TombstonesKeepAuthority, AuthorityKept
=============================================================================
