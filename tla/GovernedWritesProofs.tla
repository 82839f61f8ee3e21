------------------------- MODULE GovernedWritesProofs -------------------------
(***************************************************************************)
(* Proofs about the requests and administration of GovernedWrites.         *)
(***************************************************************************)
EXTENDS GovernedWrites, FiniteSetTheorems, NaturalsInduction, WellFoundedInduction, TLAPS

(***************************************************************************)
(* Positions of a sequence, picked in order.                               *)
(***************************************************************************)

(* A set of naturals that is not empty has a least element.                *)
LEMMA LeastNatural ==
    ASSUME NEW T \in SUBSET Nat, T # {}
    PROVE  \E n \in T : \A m \in T : n <= m
<1>1. IsWellFoundedOn(OpToRel(<, Nat), Nat) BY NatLessThanWellFounded
<1>2. PICK n \in T : \A m \in T : ~(<<m, n>> \in OpToRel(<, Nat))
  BY <1>1, WFMin
<1>3. \A m \in T : ~(m < n) BY <1>2 DEF OpToRel
<1> QED BY <1>3

(* Every place up to the number of positions is taken by one of them.      *)
LEMMA PositionOfRank ==
    ASSUME NEW n \in Nat, NEW I \in SUBSET (1..n), NEW k \in 1..Cardinality(I)
    PROVE  \E i \in I : Cardinality({j \in I : j < i}) = k - 1
<1> DEFINE Below(i) == {j \in I : j < i}
           Free == {r \in 1..Cardinality(I) : ~\E i \in I : Cardinality(Below(i)) = r - 1}
<1>0. \A i \in I : i \in Nat OBVIOUS
<1>1. IsFiniteSet(1..n) BY FS_Interval
<1>2. IsFiniteSet(I) /\ Cardinality(I) \in Nat BY <1>1, FS_Subset, FS_CardinalityType
<1>3. SUFFICES ASSUME Free # {} PROVE FALSE
  BY Zenon
<1>4. PICK r \in Free : \A q \in Free : r <= q
  <2>1. Free \in SUBSET Nat BY <1>2
  <2> QED BY <1>3, <2>1, LeastNatural
<1>5. r \in 1..Cardinality(I) /\ r \in Nat BY <1>2
<1>6. CASE r = 1
  <2>1. I # {} BY <1>2, <1>5, FS_EmptySet
  <2>2. PICK i \in I : \A j \in I : i <= j BY <2>1, LeastNatural
  <2>3. Below(i) = {}
    <3>1. \A j \in I : ~(j < i) BY <1>0, <2>2
    <3> QED BY <3>1, Zenon
  <2>4. Cardinality(Below(i)) = r - 1 BY <1>6, <2>3, FS_EmptySet
  <2> QED BY <2>4, <1>4
<1>7. CASE r # 1
  <2>1. r - 1 \in 1..Cardinality(I) /\ r - 1 \notin Free BY <1>2, <1>4, <1>5, <1>7
  <2>2. PICK h \in I : Cardinality(Below(h)) = (r - 1) - 1 BY <2>1, Zenon
  <2> DEFINE Upto == {j \in I : j <= h}
             Above == {j \in I : h < j}
  <2> HIDE DEF Free
  <2>3. Upto = Below(h) \cup {h} /\ h \notin Below(h)
    <3>1. ~(h < h) /\ \A j \in I : j <= h <=> (j < h \/ j = h) BY <1>0
    <3> QED BY <3>1, Zenon
  <2>4. IsFiniteSet(Below(h)) BY <1>2, FS_Subset, Zenon
  <2>5. Cardinality(Upto) = r - 1
    <3>1. Cardinality(Below(h) \cup {h}) = Cardinality(Below(h)) + 1 BY <2>3, <2>4, FS_AddElement
    <3> HIDE DEF Below, Upto
    <3> QED BY <2>2, <2>3, <3>1, <1>5
  <2>6. Above # {}
    <3>1. SUFFICES ASSUME Above = {} PROVE FALSE
      BY Zenon
    <3>2. \A j \in I : j <= h BY <1>0, <3>1
    <3>3. Upto = I BY <3>2, Zenon
    <3> HIDE DEF Upto
    <3> QED BY <3>3, <2>5, <1>2, <1>5
  <2>7. PICK i \in Above : \A j \in Above : i <= j
    <3>1. Above \in SUBSET Nat BY <1>0, Zenon
    <3> QED BY <3>1, <2>6, LeastNatural
  <2>8. Below(i) = Upto
    <3>1. \A j \in I : j < i <=> j <= h
      <4> SUFFICES ASSUME NEW j \in I PROVE j < i <=> j <= h
        BY Zenon
      <4>1. i \in Nat /\ j \in Nat /\ h \in Nat /\ h < i BY <1>0, <2>7, Zenon
      <4>2. h < j => i <= j BY <2>7, Zenon
      <4> HIDE DEF Above
      <4> QED BY <4>1, <4>2
    <3> QED BY <3>1, Zenon
  <2>9. i \in I /\ Cardinality(Below(i)) = r - 1 BY <2>5, <2>7, <2>8, Zenon
  <2> QED BY <2>9, <1>4, Zenon DEF Free
<1> QED BY <1>6, <1>7, Zenon

(* What is picked from a sequence is a sequence of its elements.           *)
LEMMA PickedFacts ==
    ASSUME NEW S, NEW s \in Seq(S), NEW I \in SUBSET (1..Len(s))
    PROVE  /\ Picked(s, I) \in Seq(S) /\ Len(Picked(s, I)) = Cardinality(I)
           /\ \A k \in 1..Cardinality(I) : \E i \in I : Picked(s, I)[k] = s[i]
<1> DEFINE pos(k) == CHOOSE i \in I : Cardinality({j \in I : j < i}) = k - 1
<1>1. Len(s) \in Nat OBVIOUS
<1>2. Cardinality(I) \in Nat
  <2>1. IsFiniteSet(1..Len(s)) BY <1>1, FS_Interval
  <2> QED BY <2>1, FS_Subset, FS_CardinalityType
<1>3. \A k \in 1..Cardinality(I) : pos(k) \in I BY <1>1, PositionOfRank
<1>4. Picked(s, I) = [k \in 1..Cardinality(I) |-> s[pos(k)]] BY Zenon DEF Picked
<1> HIDE DEF pos
<1>5. \A k \in 1..Cardinality(I) : s[pos(k)] \in S
  <2>1. \A i \in I : s[i] \in S
    <3>1. \A i \in 1..Len(s) : s[i] \in S OBVIOUS
    <3> QED BY <3>1, Zenon
  <2> QED BY <1>3, <2>1, Zenon
<1> DEFINE n == Cardinality(I)
<1>6. n \in Nat /\ Picked(s, I) = [k \in 1..n |-> s[pos(k)]] BY <1>2, <1>4, Zenon
<1>7. \A k \in 1..n : s[pos(k)] \in S BY <1>5, Zenon
<1> HIDE DEF n
<1>8. Picked(s, I) \in Seq(S) /\ Len(Picked(s, I)) = n BY <1>6, <1>7
<1>9. \A k \in 1..n : Picked(s, I)[k] = s[pos(k)] BY <1>6, Zenon
<1> QED BY <1>3, <1>8, <1>9, Zenon DEF n

-----------------------------------------------------------------------------
(***************************************************************************)
(* The catalogue.                                                          *)
(***************************************************************************)
Good == ScopeCacheExact /\ ReferencesExist /\ HierarchyAcyclic

(* A row nothing has been said about.                                      *)
LEMMA AbsentFacts ==
    ASSUME NEW st \in {"none", "active", "deleted"}
    PROVE  Absent(st) \in Rows /\ Absent(st).st = st
<1>1. (CHOOSE p \in Principals : TRUE) \in Principals /\ (CHOOSE k \in Keys : TRUE) \in Keys
  BY CatalogueNames, Zenon
<1>2. {} \in SUBSET Principals /\ {} \in SUBSET Keys BY Zenon
<1>3. Custom \in Kinds BY CatalogueNames, Zenon
<1> QED BY <1>1, <1>2, <1>3, Zenon DEF Rows, Absent

NewContext(p, kind, key, parent) == Draft(p, kind, key, parent, FALSE)

(* The row of a new context.                                               *)
LEMMA NewContextFacts ==
    ASSUME NEW p \in Principals, NEW kind \in Kinds, NEW key \in Keys, NEW parent \in Ctxs \cup {NoCtx}
    PROVE  /\ NewContext(p, kind, key, parent) \in Rows
           /\ NewContext(p, kind, key, parent).st = "active"
           /\ NewContext(p, kind, key, parent).key = key
           /\ NewContext(p, kind, key, parent).parent = parent
<1> DEFINE a == Absent("active")
<1>1. a \in Rows /\ a.st = "active" BY AbsentFacts, Zenon
<1>2. NewContext(p, kind, key, parent) =
        [a EXCEPT !.owner = p, !.kind = kind, !.key = key, !.parent = parent, !.legacy = FALSE]
  BY Zenon DEF Draft, NewContext
<1> HIDE DEF a
<1> DEFINE row == [a EXCEPT !.owner = p, !.kind = kind, !.key = key, !.parent = parent, !.legacy = FALSE]
<1>3. row \in Rows BY <1>1 DEF Rows
<1>4. row.st = a.st BY <1>1, Zenon DEF Rows
<1>5. row.key = key BY <1>1, Zenon DEF Rows
<1>6. row.parent = parent BY <1>1, Zenon DEF Rows
<1> HIDE DEF row
<1> QED BY <1>1, <1>2, <1>3, <1>4, <1>5, <1>6, Zenon DEF row

PrivateScope(p, key) == Draft(p, Custom, key, NoCtx, TRUE)

(* The row of a private compatibility context.                             *)
LEMMA PrivateScopeFacts ==
    ASSUME NEW p \in Principals, NEW key \in Keys
    PROVE  /\ PrivateScope(p, key) \in Rows /\ PrivateScope(p, key).st = "active"
           /\ PrivateScope(p, key).key = key /\ PrivateScope(p, key).parent = NoCtx
<1> DEFINE row == PrivateScope(p, key)
           a == Absent("active")
<1>1. Custom \in Kinds /\ NoCtx \in Ctxs \cup {NoCtx} BY CatalogueNames, Zenon
<1>2. a \in Rows /\ a.st = "active" BY AbsentFacts, Zenon
<1>3. row = [a EXCEPT !.owner = p, !.kind = Custom, !.key = key, !.parent = NoCtx, !.legacy = TRUE]
  BY Zenon DEF Draft, PrivateScope
<1> HIDE DEF a, row
<1>4. row \in Rows BY <1>1, <1>2, <1>3 DEF Rows
<1>5. row.st = a.st BY <1>2, <1>3, Zenon DEF Rows
<1>6. row.key = key BY <1>2, <1>3, Zenon DEF Rows
<1>7. row.parent = NoCtx BY <1>2, <1>3, Zenon DEF Rows
<1> QED BY <1>2, <1>4, <1>5, <1>6, <1>7, Zenon DEF row

(* A change of one row, recorded in its audit trail.                       *)
LEMMA TouchFacts ==
    ASSUME ctx \in [Ctxs -> Rows], NEW c \in Ctxs, NEW row \in Rows, ctx' = Touch(c, row)
    PROVE  /\ ctx' \in [Ctxs -> Rows] /\ \A d \in Ctxs : d # c => ctx'[d] = ctx[d]
           /\ ctx'[c].st = row.st /\ ctx'[c].key = row.key /\ ctx'[c].parent = row.parent
<1>1. [row EXCEPT !.touched = TRUE] \in Rows BY DEF Rows
<1>2. /\ [row EXCEPT !.touched = TRUE].st = row.st /\ [row EXCEPT !.touched = TRUE].key = row.key
      /\ [row EXCEPT !.touched = TRUE].parent = row.parent
  BY Zenon DEF Rows
<1> QED BY <1>1, <1>2, Zenon DEF Touch

ParentsExist == \A c \in Ctxs : Exists(c) /\ ctx[c].parent # NoCtx => Exists(ctx[c].parent)
MemoryFine(m) == mem[m].scope = ScopeOf(mem[m].ctxs) /\ \A c \in Range(mem[m].ctxs) : Exists(c)
DefaultFine(k) == default[k] # NoCtx => Exists(default[k])
InUse(c) == Referenced(c) \/ \E k \in Kinds : default[k] = c

(* While contexts in use keep their keys and parents exist, memories and   *)
(* policy defaults keep what they refer to.                                *)
LEMMA CatalogueChange ==
    ASSUME CatalogueTypeOK, ScopeCacheExact, ReferencesExist,
           \A c \in Ctxs : Exists(c) /\ InUse(c) => Exists(c)' /\ ctx'[c].key = ctx[c].key,
           ParentsExist',
           \A m \in Mems : mem'[m] = mem[m] \/ MemoryFine(m)',
           \A k \in Kinds : default'[k] = default[k] \/ DefaultFine(k)'
    PROVE  ScopeCacheExact' /\ ReferencesExist'
<1>1. ASSUME NEW m \in Mems PROVE mem[m].ctxs \in Seq(Ctxs)
  BY <1>1, Zenon DEF CatalogueTypeOK, Memories
<1>2. ASSUME NEW m \in Mems, NEW c \in Range(mem[m].ctxs)
      PROVE  c \in Ctxs /\ Exists(c)' /\ ctx'[c].key = ctx[c].key
  <2>1. c \in Ctxs BY <1>1, <1>2 DEF Range
  <2>2. Exists(c) /\ InUse(c) BY <1>2, Zenon DEF ReferencesExist, InUse, Referenced
  <2> QED BY <2>1, <2>2, Zenon
<1>3. ASSUME NEW m \in Mems, mem'[m] = mem[m] PROVE ScopeOf(mem[m].ctxs)' = ScopeOf(mem[m].ctxs)
  <2>1. mem[m].ctxs \in Seq(Ctxs) BY <1>1, <1>3, Zenon
  <2>2. CASE mem[m].ctxs = <<>> BY <1>3, <2>2, Zenon DEF ScopeOf
  <2>3. CASE mem[m].ctxs # <<>>
    <3>1. 1 \in DOMAIN mem[m].ctxs BY <2>1, <2>3
    <3>2. mem[m].ctxs[1] \in Range(mem[m].ctxs) BY <3>1, Zenon DEF Range
    <3>3. ctx'[mem[m].ctxs[1]].key = ctx[mem[m].ctxs[1]].key BY <1>2, <1>3, <3>2, Zenon
    <3> QED BY <1>3, <2>3, <3>3, Zenon DEF ScopeOf
  <2> QED BY <2>2, <2>3, Zenon
<1>4. ScopeCacheExact' BY <1>3, Zenon DEF ScopeCacheExact, MemoryFine
<1>5. \A m \in Mems : \A c \in Range(mem'[m].ctxs) : Exists(c)' BY <1>2, Zenon DEF MemoryFine
<1>6. ASSUME NEW k \in Kinds PROVE DefaultFine(k)'
  <2>1. CASE default'[k] = default[k] /\ default[k] # NoCtx
    <3>1. default[k] \in Ctxs BY <2>1, Zenon DEF CatalogueTypeOK
    <3>2. Exists(default[k]) /\ InUse(default[k]) BY <2>1, Zenon DEF ReferencesExist, InUse
    <3>3. Exists(default[k])' BY <3>1, <3>2, <2>1, Zenon
    <3> QED BY <2>1, <3>3, Zenon DEF DefaultFine
  <2> QED BY <2>1, Zenon DEF DefaultFine
<1>7. ReferencesExist' BY <1>5, <1>6, Zenon DEF ReferencesExist, ParentsExist, DefaultFine
<1> QED BY <1>4, <1>7, Zenon

(* The parent of an ancestor is an ancestor, and so is the context itself. *)
LEMMA AncestorsClosed ==
    ASSUME CatalogueTypeOK, NEW c \in Ctxs
    PROVE  /\ c \in Ancestors(c)
           /\ \A a \in Ancestors(c) : ctx[a].parent \in Ctxs => ctx[a].parent \in Ancestors(c)
<1>1. c \in Ancestors(c) BY Zenon DEF Ancestors
<1>2. ASSUME NEW a \in Ancestors(c), ctx[a].parent \in Ctxs,
             NEW S \in SUBSET Ctxs, c \in S, UpwardClosed(S)
      PROVE  ctx[a].parent \in S
  <2>1. a \in S BY <1>2, Zenon DEF Ancestors
  <2>2. ctx[a].parent # NoCtx BY <1>2, CatalogueNames, Zenon
  <2> QED BY <1>2, <2>1, <2>2, Zenon DEF UpwardClosed
<1> QED BY <1>1, <1>2, Zenon DEF Ancestors

(* The ancestors of a context that exists exist.                           *)
LEMMA AncestorsExist ==
    ASSUME CatalogueTypeOK, ReferencesExist, NEW c \in Ctxs, Exists(c)
    PROVE  \A a \in Ancestors(c) : Exists(a)
<1> DEFINE S == {d \in Ctxs : Exists(d)}
<1>1. UpwardClosed(S)
  <2> SUFFICES ASSUME NEW d \in S, ctx[d].parent # NoCtx PROVE ctx[d].parent \in S
    BY Zenon DEF UpwardClosed
  <2>1. ctx[d].parent \in Ctxs BY Zenon DEF CatalogueTypeOK, Rows
  <2> QED BY <2>1, Zenon DEF ReferencesExist
<1> QED BY <1>1, Zenon DEF Ancestors

(* Contexts that keep their parents, or get none, close no cycle.          *)
LEMMA SameParents ==
    ASSUME HierarchyAcyclic,
           \A d \in Ctxs : Exists(d)' => (Exists(d) /\ ctx'[d].parent = ctx[d].parent) \/ ctx'[d].parent = NoCtx
    PROVE  HierarchyAcyclic'
<1> SUFFICES ASSUME NEW S \in (SUBSET Ctxs) \ {{}}, \A c \in S : Exists(c)' /\ ctx'[c].parent \in S PROVE FALSE
  BY Zenon DEF HierarchyAcyclic
<1>1. NoCtx \notin S BY CatalogueNames, Zenon
<1>2. \A c \in S : Exists(c) /\ ctx[c].parent \in S BY <1>1, Zenon
<1> QED BY <1>2, Zenon DEF HierarchyAcyclic

(* One context gets a parent that is not below it.                         *)
LEMMA NewParent ==
    ASSUME CatalogueTypeOK, HierarchyAcyclic, NEW c \in Ctxs, NEW parent \in Ctxs \cup {NoCtx},
           ParentAllowed(c, parent), ctx'[c].parent = parent,
           \A d \in Ctxs : d # c /\ Exists(d)' =>
               (Exists(d) /\ ctx'[d].parent = ctx[d].parent) \/ ctx'[d].parent = NoCtx
    PROVE  HierarchyAcyclic'
<1> SUFFICES ASSUME NEW S \in (SUBSET Ctxs) \ {{}}, \A d \in S : Exists(d)' /\ ctx'[d].parent \in S PROVE FALSE
  BY Zenon DEF HierarchyAcyclic
<1>1. NoCtx \notin S BY CatalogueNames, Zenon
<1>2. \A d \in S : d # c => Exists(d) /\ ctx[d].parent \in S BY <1>1, Zenon
<1>3. CASE c \notin S BY <1>2, <1>3, Zenon DEF HierarchyAcyclic
<1>4. CASE c \in S
  <2> DEFINE T == S \cap Ancestors(parent)
  <2>1. parent \in S BY <1>4, Zenon
  <2>2. parent \in Ctxs /\ parent # NoCtx BY <1>1, <2>1, Zenon
  <2>3. parent \in T BY <2>1, <2>2, AncestorsClosed, Zenon
  <2>4. c \notin T BY <2>2, Zenon DEF ParentAllowed
  <2>5. \A d \in T : Exists(d) /\ ctx[d].parent \in T
    <3> SUFFICES ASSUME NEW d \in T PROVE Exists(d) /\ ctx[d].parent \in T
      BY Zenon
    <3>1. Exists(d) /\ ctx[d].parent \in S BY <1>2, <2>4, Zenon
    <3> QED BY <3>1, <2>2, AncestorsClosed, Zenon
  <2>6. T \in (SUBSET Ctxs) \ {{}} BY <2>3, Zenon
  <2> HIDE DEF T
  <2> QED BY <2>5, <2>6, Zenon DEF HierarchyAcyclic
<1> QED BY <1>3, <1>4, Zenon

(* A row is changed in place.                                              *)
LEMMA TouchKeeps ==
    ASSUME CatalogueTypeOK, Good, NEW c \in Ctxs, NEW row \in Rows, ctx' = Touch(c, row),
           UNCHANGED <<enabled, required, default, mem>>, Exists(c), row.st \in {"active", "archived"},
           row.key = ctx[c].key,
           row.parent # ctx[c].parent => /\ ParentAllowed(c, row.parent)
                                         /\ row.parent # NoCtx => Exists(row.parent)
    PROVE  CatalogueTypeOK' /\ Good'
<1>1. /\ ctx' \in [Ctxs -> Rows] /\ \A d \in Ctxs : d # c => ctx'[d] = ctx[d]
      /\ ctx'[c].st = row.st /\ ctx'[c].key = row.key /\ ctx'[c].parent = row.parent
  BY TouchFacts, Zenon DEF CatalogueTypeOK
<1>2. CatalogueTypeOK' BY <1>1, Zenon DEF CatalogueTypeOK
<1>3. \A d \in Ctxs : Exists(d)' <=> Exists(d) BY <1>1, Zenon DEF Exists
<1>4. \A d \in Ctxs : Exists(d) => Exists(d)' /\ ctx'[d].key = ctx[d].key BY <1>1, <1>3, Zenon
<1>5. \A d \in Ctxs : ctx'[d].parent \in Ctxs \cup {NoCtx} BY <1>1, Zenon DEF Rows
<1>6. ParentsExist'
  <2> SUFFICES ASSUME NEW d \in Ctxs, Exists(d), ctx'[d].parent # NoCtx PROVE Exists(ctx'[d].parent)
    BY <1>3, <1>5, Zenon DEF ParentsExist
  <2>1. CASE ctx'[d].parent = ctx[d].parent BY <2>1, Zenon DEF Good, ReferencesExist
  <2>2. CASE ctx'[d].parent # ctx[d].parent BY <1>1, <2>2, Zenon
  <2> QED BY <2>1, <2>2, Zenon
<1>7. ScopeCacheExact' /\ ReferencesExist' BY <1>4, <1>6, CatalogueChange, Zenon DEF Good
<1>8. HierarchyAcyclic'
  <2>1. CASE row.parent = ctx[c].parent BY <1>1, <1>3, <2>1, SameParents, Zenon DEF Good
  <2>2. CASE row.parent # ctx[c].parent
    <3>1. row.parent \in Ctxs \cup {NoCtx} BY Zenon DEF Rows
    <3>2. \A d \in Ctxs : d # c /\ Exists(d)' => Exists(d) /\ ctx'[d].parent = ctx[d].parent BY <1>1, <1>3, Zenon
    <3> QED BY <1>1, <2>2, <3>1, <3>2, NewParent, Zenon DEF Good
  <2> QED BY <2>1, <2>2, Zenon
<1> QED BY <1>2, <1>7, <1>8, Zenon DEF Good

(* A context is created.                                                   *)
LEMMA InsertKeeps ==
    ASSUME CatalogueTypeOK, Good, NEW c \in Ctxs, NEW row \in Rows, Insert(c, row),
           UNCHANGED <<enabled, required, default, mem>>, row.st = "active",
           row.parent # NoCtx => Exists(row.parent)
    PROVE  CatalogueTypeOK' /\ Good'
<1>1. /\ ctx' \in [Ctxs -> Rows] /\ ctx'[c] = row /\ \A d \in Ctxs : d # c => ctx'[d] = ctx[d]
      /\ ctx[c].st = "none"
  BY Zenon DEF Insert, CatalogueTypeOK
<1>2. CatalogueTypeOK' BY <1>1, Zenon DEF CatalogueTypeOK
<1>3. ~Exists(c) /\ Exists(c)' BY <1>1, Zenon DEF Exists
<1>4. \A d \in Ctxs : Exists(d) => Exists(d)' /\ ctx'[d] = ctx[d] BY <1>1, <1>3, Zenon DEF Exists
<1>5. \A d \in Ctxs : ctx'[d].parent \in Ctxs \cup {NoCtx} BY <1>1, Zenon DEF Rows
<1>6. ParentsExist'
  <2> SUFFICES ASSUME NEW d \in Ctxs, Exists(d)', ctx'[d].parent # NoCtx PROVE Exists(ctx'[d].parent)
    BY <1>4, <1>5, Zenon DEF ParentsExist
  <2>1. CASE d = c BY <1>1, <2>1, Zenon
  <2>2. CASE d # c BY <1>1, <2>2, Zenon DEF Good, ReferencesExist, Exists
  <2> QED BY <2>1, <2>2, Zenon
<1>7. ScopeCacheExact' /\ ReferencesExist' BY <1>4, <1>6, CatalogueChange, Zenon DEF Good
<1>8. HierarchyAcyclic'
  <2>1. row.parent \in Ctxs \cup {NoCtx} BY Zenon DEF Rows
  <2>2. ParentAllowed(c, row.parent) BY <1>3, <2>1, AncestorsExist, Zenon DEF ParentAllowed, Good
  <2>3. \A d \in Ctxs : d # c /\ Exists(d)' => Exists(d) /\ ctx'[d].parent = ctx[d].parent BY <1>1, Zenon DEF Exists
  <2> QED BY <1>1, <2>1, <2>2, <2>3, NewParent, Zenon DEF Good
<1> QED BY <1>2, <1>7, <1>8, Zenon DEF Good

(* Memories change while the catalogue stays.                              *)
LEMMA MemoriesChange ==
    ASSUME CatalogueTypeOK, Good, UNCHANGED <<ctx, enabled, required, default>>, mem' \in [Mems -> Memories],
           \A m \in Mems : mem'[m] = mem[m] \/ MemoryFine(m)'
    PROVE  CatalogueTypeOK' /\ Good'
<1>1. CatalogueTypeOK' BY Zenon DEF CatalogueTypeOK
<1>2. \A d \in Ctxs : Exists(d)' <=> Exists(d) BY Zenon DEF Exists
<1>3. ParentsExist' BY Zenon DEF ParentsExist, Good, ReferencesExist, Exists
<1>4. ScopeCacheExact' /\ ReferencesExist' BY <1>2, <1>3, CatalogueChange, Zenon DEF Good
<1>5. HierarchyAcyclic' BY <1>2, SameParents, Zenon DEF Good
<1> QED BY <1>1, <1>4, <1>5, Zenon DEF Good

(* The rows that administration writes.                                    *)
LEMMA ParentWritten ==
    ASSUME NEW row \in Rows, NEW v \in Ctxs \cup {NoCtx}
    PROVE  /\ [row EXCEPT !.parent = v] \in Rows
           /\ [row EXCEPT !.parent = v].parent = v
           /\ [row EXCEPT !.parent = v].st = row.st
           /\ [row EXCEPT !.parent = v].key = row.key
BY Zenon DEF Rows

LEMMA StateWritten ==
    ASSUME NEW row \in Rows, NEW v \in {"active", "archived"}
    PROVE  /\ [row EXCEPT !.st = v] \in Rows
           /\ [row EXCEPT !.st = v].st = v
           /\ [row EXCEPT !.st = v].key = row.key
           /\ [row EXCEPT !.st = v].parent = row.parent
BY Zenon DEF Rows

LEMMA GrantsWritten ==
    ASSUME NEW row \in Rows, NEW v \in SUBSET Principals
    PROVE  /\ [row EXCEPT !.grants = v] \in Rows
           /\ [row EXCEPT !.grants = v].st = row.st
           /\ [row EXCEPT !.grants = v].key = row.key
           /\ [row EXCEPT !.grants = v].parent = row.parent
BY Zenon DEF Rows

LEMMA AliasesWritten ==
    ASSUME NEW row \in Rows, NEW v \in SUBSET Keys
    PROVE  /\ [row EXCEPT !.aliases = v] \in Rows
           /\ [row EXCEPT !.aliases = v].st = row.st
           /\ [row EXCEPT !.aliases = v].key = row.key
           /\ [row EXCEPT !.aliases = v].parent = row.parent
BY Zenon DEF Rows

(* set_context_parent                                                      *)
LEMMA SetParentKeeps ==
    ASSUME CatalogueTypeOK, Good, NEW c \in Ctxs, NEW parent \in Ctxs \cup {NoCtx}, NEW p \in Principals,
           SetParent(c, parent, p)
    PROVE  CatalogueTypeOK' /\ Good'
<1> DEFINE row == [ctx[c] EXCEPT !.parent = parent]
<1>1. ctx[c] \in Rows BY Zenon DEF CatalogueTypeOK
<1>2. row \in Rows /\ row.st = ctx[c].st /\ row.key = ctx[c].key /\ row.parent = parent
  BY <1>1, ParentWritten, Zenon
<1>3. ctx' = Touch(c, row) /\ UNCHANGED <<enabled, required, default, mem>> BY Zenon DEF SetParent
<1>4. /\ Exists(c) /\ ctx[c].st \in {"active", "archived"} /\ ParentAllowed(c, parent)
      /\ parent # NoCtx => Exists(parent)
  BY Zenon DEF SetParent, MutableOwned, UseAllowed, Visible, Exists
<1> HIDE DEF row
<1> QED BY <1>2, <1>3, <1>4, TouchKeeps, Zenon

(* set_context_lifecycle                                                   *)
LEMMA SetLifecycleKeeps ==
    ASSUME CatalogueTypeOK, Good, NEW c \in Ctxs, NEW st \in {"active", "archived"}, NEW p \in Principals,
           SetLifecycle(c, st, p)
    PROVE  CatalogueTypeOK' /\ Good'
<1> DEFINE row == [ctx[c] EXCEPT !.st = st]
<1>1. ctx[c] \in Rows BY Zenon DEF CatalogueTypeOK
<1>2. row \in Rows /\ row.st = st /\ row.key = ctx[c].key /\ row.parent = ctx[c].parent
  BY <1>1, StateWritten
<1>3. ctx' = Touch(c, row) /\ UNCHANGED <<enabled, required, default, mem>> BY Zenon DEF SetLifecycle
<1>4. Exists(c) BY Zenon DEF SetLifecycle, MutableOwned
<1> HIDE DEF row
<1> QED BY <1>2, <1>3, <1>4, TouchKeeps, Zenon

(* grant_context_use, revoke_context_use, replace_context_grants           *)
LEMMA GrantsKeep ==
    ASSUME CatalogueTypeOK, Good, NEW c \in Ctxs, NEW q \in Principals, NEW G \in SUBSET Principals,
           NEW p \in Principals, GrantUse(c, q, p) \/ RevokeUse(c, q, p) \/ ReplaceGrants(c, G, p)
    PROVE  CatalogueTypeOK' /\ Good'
<1>1. ctx[c] \in Rows BY Zenon DEF CatalogueTypeOK
<1>2. ctx[c].grants \in SUBSET Principals BY <1>1, Zenon DEF Rows
<1>3. PICK H \in SUBSET Principals : ctx' = Touch(c, [ctx[c] EXCEPT !.grants = H])
  <2>1. ctx[c].grants \cup {q} \in SUBSET Principals /\ ctx[c].grants \ {q} \in SUBSET Principals BY <1>2, Zenon
  <2> QED BY <2>1, Zenon DEF GrantUse, RevokeUse, ReplaceGrants
<1> DEFINE row == [ctx[c] EXCEPT !.grants = H]
<1>4. row \in Rows /\ row.st = ctx[c].st /\ row.key = ctx[c].key /\ row.parent = ctx[c].parent
  BY <1>1, GrantsWritten, Zenon
<1>5. Exists(c) /\ ctx[c].st \in {"active", "archived"} /\ UNCHANGED <<enabled, required, default, mem>>
  BY Zenon DEF GrantUse, RevokeUse, ReplaceGrants, MutableOwned, Exists
<1>6. ctx' = Touch(c, row) BY <1>3, Zenon
<1> HIDE DEF row
<1> QED BY <1>4, <1>5, <1>6, TouchKeeps, Zenon

(* update_context_definition                                               *)
LEMMA UpdateDefinitionKeeps ==
    ASSUME CatalogueTypeOK, Good, NEW c \in Ctxs, NEW A \in SUBSET Keys, NEW p \in Principals,
           UpdateDefinition(c, A, p)
    PROVE  CatalogueTypeOK' /\ Good'
<1> DEFINE row == [ctx[c] EXCEPT !.aliases = A]
<1>1. ctx[c] \in Rows BY Zenon DEF CatalogueTypeOK
<1>2. row \in Rows /\ row.st = ctx[c].st /\ row.key = ctx[c].key /\ row.parent = ctx[c].parent
  BY <1>1, AliasesWritten, Zenon
<1>3. ctx' = Touch(c, row) /\ UNCHANGED <<enabled, required, default, mem>> BY Zenon DEF UpdateDefinition
<1>4. Exists(c) /\ ctx[c].st \in {"active", "archived"} BY Zenon DEF UpdateDefinition, MutableOwned, Exists
<1> HIDE DEF row
<1> QED BY <1>2, <1>3, <1>4, TouchKeeps, Zenon

(* upsert_context_kind, upsert_kind_policy                                 *)
LEMMA OperatorKeeps ==
    ASSUME CatalogueTypeOK, Good, NEW kind \in Kinds, NEW c \in Ctxs \cup {NoCtx}, NEW b \in BOOLEAN,
           UpsertKind(kind, b) \/ UpsertKindPolicy(kind, c, b)
    PROVE  CatalogueTypeOK' /\ Good'
<1>1. ctx' = ctx /\ mem' = mem BY Zenon DEF UpsertKind, UpsertKindPolicy
<1>2. default' = default \/ (default' = [default EXCEPT ![kind] = c] /\ (c # NoCtx => Exists(c)))
  BY Zenon DEF UpsertKind, UpsertKindPolicy, Active, Exists
<1>3. CatalogueTypeOK'
  <2>1. enabled' \subseteq Kinds /\ required' \subseteq Kinds BY Zenon DEF UpsertKind, UpsertKindPolicy, CatalogueTypeOK
  <2>2. default' \in [Kinds -> Ctxs \cup {NoCtx}] BY <1>2, Zenon DEF CatalogueTypeOK
  <2> QED BY <1>1, <2>1, <2>2, Zenon DEF CatalogueTypeOK
<1>4. \A k \in Kinds : default'[k] = default[k] \/ DefaultFine(k)'
  <2> SUFFICES ASSUME NEW k \in Kinds, default'[k] # default[k] PROVE DefaultFine(k)'
    BY Zenon
  <2>1. default'[k] = c /\ (c # NoCtx => Exists(c)) BY <1>2, Zenon DEF CatalogueTypeOK
  <2>2. c # NoCtx => Exists(c)' BY <1>1, <2>1, Zenon DEF Exists
  <2> QED BY <2>1, <2>2, Zenon DEF DefaultFine, Exists
<1>5. \A d \in Ctxs : Exists(d)' <=> Exists(d) BY <1>1, Zenon DEF Exists
<1>6. ParentsExist' BY <1>1, Zenon DEF ParentsExist, Good, ReferencesExist, Exists
<1>7. ScopeCacheExact' /\ ReferencesExist' BY <1>1, <1>4, <1>5, <1>6, CatalogueChange, Zenon DEF Good
<1>8. HierarchyAcyclic' BY <1>1, <1>5, SameParents, Zenon DEF Good
<1> QED BY <1>3, <1>7, <1>8, Zenon DEF Good

(* rollback_unreferenced_legacy_context                                    *)
LEMMA RolledBackKeeps ==
    ASSUME CatalogueTypeOK, Good, NEW c \in Ctxs, NEW p \in Principals, ctx' = RolledBack({c}, p),
           UNCHANGED <<enabled, required, default, mem>>
    PROVE  CatalogueTypeOK' /\ Good'
<1>1. /\ \A d \in Ctxs : ctx'[d] = IF d = c /\ Removable(c, p) THEN Absent("deleted") ELSE ctx[d]
      /\ ctx' \in [Ctxs -> Rows]
  BY AbsentFacts, Zenon DEF RolledBack, CatalogueTypeOK
<1>2. CatalogueTypeOK' BY <1>1, Zenon DEF CatalogueTypeOK
<1>3. \A d \in Ctxs : Exists(d)' => Exists(d) /\ ctx'[d] = ctx[d] BY <1>1, AbsentFacts, Zenon DEF Exists
<1>4. \A d \in Ctxs : Exists(d) => ctx'[d] = ctx[d] \/ (d = c /\ Removable(c, p)) BY <1>1, Zenon
<1>5. \A d \in Ctxs : Exists(d) /\ InUse(d) => Exists(d)' /\ ctx'[d].key = ctx[d].key
  BY <1>4, Zenon DEF Removable, InUse, Exists
<1>6. ParentsExist'
  <2> SUFFICES ASSUME NEW d \in Ctxs, Exists(d)', ctx'[d].parent # NoCtx PROVE Exists(ctx[d].parent)'
    BY <1>3, Zenon DEF ParentsExist
  <2>1. Exists(d) /\ ctx'[d] = ctx[d] BY <1>3, Zenon
  <2>2. ctx[d].parent \in Ctxs BY <2>1, Zenon DEF CatalogueTypeOK, Rows
  <2>3. Exists(ctx[d].parent) BY <2>1, Zenon DEF Good, ReferencesExist
  <2>4. ctx'[ctx[d].parent] = ctx[ctx[d].parent] BY <1>4, <2>1, <2>2, <2>3, Zenon DEF Removable
  <2> QED BY <2>1, <2>3, <2>4, Zenon DEF Exists
<1>7. ScopeCacheExact' /\ ReferencesExist' BY <1>5, <1>6, CatalogueChange, Zenon DEF Good
<1>8. HierarchyAcyclic' BY <1>3, SameParents, Zenon DEF Good
<1> QED BY <1>2, <1>7, <1>8, Zenon DEF Good

(* The new primary membership, followed by picked ones.                    *)
LEMMA HeadFacts ==
    ASSUME NEW S, NEW s \in Seq(S), NEW I \in SUBSET (1..Len(s)), NEW c \in S
    PROVE  /\ <<c>> \o Picked(s, I) \in Seq(S) /\ <<c>> \o Picked(s, I) # <<>>
           /\ (<<c>> \o Picked(s, I))[1] = c
           /\ Range(<<c>> \o Picked(s, I)) \subseteq {c} \cup Range(s)
<1> DEFINE t == Picked(s, I)
<1>1. t \in Seq(S) /\ Len(t) = Cardinality(I) /\ \A k \in 1..Cardinality(I) : \E i \in I : t[k] = s[i]
  BY PickedFacts
<1>2. \A k \in 1..Len(t) : t[k] \in Range(s)
  <2>1. \A i \in I : s[i] \in Range(s)
    <3>1. \A i \in I : i \in DOMAIN s OBVIOUS
    <3> QED BY <3>1, Zenon DEF Range
  <2> QED BY <1>1, <2>1, Zenon
<1>3. t \in Seq(S) BY <1>1, Zenon
<1> HIDE DEF t
<1>4. <<c>> \o t \in Seq(S) /\ <<c>> \o t # <<>> /\ (<<c>> \o t)[1] = c BY <1>3
<1>5. \A k \in DOMAIN (<<c>> \o t) : (<<c>> \o t)[k] \in {c} \cup Range(s)
  <2> SUFFICES ASSUME NEW k \in DOMAIN (<<c>> \o t) PROVE (<<c>> \o t)[k] \in {c} \cup Range(s)
    BY Zenon
  <2>1. k \in 1..(1 + Len(t)) BY <1>3
  <2>2. CASE k = 1 BY <1>4, <2>2, Zenon
  <2>3. CASE k # 1
    <3>1. k - 1 \in 1..Len(t) /\ (<<c>> \o t)[k] = t[k - 1] BY <1>3, <2>1, <2>3
    <3> QED BY <1>2, <3>1, Zenon
  <2> QED BY <2>2, <2>3, Zenon
<1>6. Range(<<c>> \o t) \subseteq {c} \cup Range(s) BY <1>5, Zenon DEF Range
<1> QED BY <1>4, <1>6, Zenon DEF t

(* A repointed memory is in contexts.                                      *)
LEMMA RepointedSeq ==
    ASSUME NEW s \in Seq(Ctxs), NEW c \in Ctxs
    PROVE  Repointed(s, c) \in Seq(Ctxs)
<1> DEFINE I == {i \in 2..Len(s) : s[i] # c}
<1>1. I \in SUBSET (1..Len(s)) OBVIOUS
<1> HIDE DEF I
<1>2. /\ <<c>> \o Picked(s, I) \in Seq(Ctxs) /\ <<c>> \o Picked(s, I) # <<>>
      /\ (<<c>> \o Picked(s, I))[1] = c
      /\ Range(<<c>> \o Picked(s, I)) \subseteq {c} \cup Range(s)
  BY <1>1, HeadFacts, Zenon
<1> QED BY <1>2, Zenon DEF Repointed, I

(* What a replacement of memberships writes.                               *)
LEMMA ReplacedFacts ==
    ASSUME NEW r \in Memories, NEW s \in Seq(Ctxs), NEW scope \in Keys \cup {Unresolved}
    PROVE  /\ Replaced(r, s, scope) \in Memories
           /\ Replaced(r, s, scope).st = r.st /\ Replaced(r, s, scope).rev = r.rev + 1
           /\ Replaced(r, s, scope).ctxs = s /\ Replaced(r, s, scope).scope = scope
<1> DEFINE n == r.rev + 1
           row == [r EXCEPT !.ctxs = s, !.scope = scope, !.rev = n]
<1>1. n \in Nat BY DEF Memories
<1>2. Replaced(r, s, scope) = row BY Zenon DEF Replaced
<1> HIDE DEF n
<1>3. row \in Memories BY <1>1 DEF Memories
<1>4. row.st = r.st BY Zenon DEF Memories
<1>5. row.rev = n BY Zenon DEF Memories
<1>6. row.ctxs = s BY Zenon DEF Memories
<1>7. row.scope = scope BY Zenon DEF Memories
<1> QED BY <1>2, <1>3, <1>4, <1>5, <1>6, <1>7, Zenon DEF n

(* The scope of memberships that exist is a key.                           *)
LEMMA ScopeOfKey ==
    ASSUME CatalogueTypeOK, NEW s \in Seq(Ctxs)
    PROVE  ScopeOf(s) \in Keys \cup {Unresolved}
<1>1. CASE s = <<>> BY <1>1, Zenon DEF ScopeOf
<1>2. CASE s # <<>>
  <2>1. s[1] \in Ctxs BY <1>2
  <2>2. ctx[s[1]].key \in Keys BY <2>1, Zenon DEF CatalogueTypeOK, Rows
  <2> QED BY <1>2, <2>2, Zenon DEF ScopeOf
<1> QED BY <1>1, <1>2, Zenon

(* What insert_memory_contexts accepts exists.                             *)
LEMMA AllowedFacts ==
    ASSUME NEW s, NEW preserved, NEW scope, NEW p, MembershipsAllowed(s, preserved, scope, p)
    PROVE  s \in Seq(Ctxs) /\ scope = ScopeOf(s) /\ \A c \in Range(s) : Exists(c)
BY Zenon DEF MembershipsAllowed, UseAllowed, Visible

(* A replacement of the memberships of one memory.                         *)
LEMMA ReplaceKeeps ==
    ASSUME CatalogueTypeOK, Good, NEW m \in Mems, NEW s, NEW preserved, NEW p,
           MembershipsAllowed(s, preserved, ScopeOf(s), p),
           mem' = [mem EXCEPT ![m] = Replaced(mem[m], s, ScopeOf(s))],
           UNCHANGED <<ctx, enabled, required, default>>
    PROVE  CatalogueTypeOK' /\ Good'
<1>1. s \in Seq(Ctxs) /\ \A c \in Range(s) : Exists(c) BY AllowedFacts, Zenon
<1>2. ScopeOf(s) \in Keys \cup {Unresolved} BY <1>1, ScopeOfKey, Zenon
<1>3. mem[m] \in Memories BY Zenon DEF CatalogueTypeOK
<1> DEFINE row == Replaced(mem[m], s, ScopeOf(s))
<1>4. row \in Memories /\ row.ctxs = s /\ row.scope = ScopeOf(s) BY <1>1, <1>2, <1>3, ReplacedFacts
<1>5. mem' = [mem EXCEPT ![m] = row] BY Zenon
<1> HIDE DEF row
<1>6. mem' \in [Mems -> Memories] /\ mem'[m] = row /\ \A n \in Mems : n # m => mem'[n] = mem[n]
  BY <1>4, <1>5, Zenon DEF CatalogueTypeOK
<1>7. ScopeOf(s)' = ScopeOf(s) /\ \A c \in Range(s) : Exists(c)' BY <1>1, Zenon DEF ScopeOf, Exists
<1>8. MemoryFine(m)' BY <1>4, <1>6, <1>7, Zenon DEF MemoryFine, ScopeOf, Exists
<1> QED BY <1>6, <1>8, MemoriesChange, Zenon

(* delete_memory                                                           *)
LEMMA DeleteKeeps ==
    ASSUME CatalogueTypeOK, Good, NEW m \in Mems, NEW p, DeleteMemory(m, p)
    PROVE  CatalogueTypeOK' /\ Good'
<1> DEFINE row == NoMemory("gone")
<1>1. (CHOOSE q \in Principals : TRUE) \in Principals BY CatalogueNames, Zenon
<1>2. row \in Memories /\ row.ctxs = <<>> /\ row.scope = Unresolved BY <1>1 DEF NoMemory, Memories
<1>3. mem' = [mem EXCEPT ![m] = row] /\ UNCHANGED <<ctx, enabled, required, default>> BY Zenon DEF DeleteMemory
<1> HIDE DEF row
<1>4. mem' \in [Mems -> Memories] /\ mem'[m] = row /\ \A n \in Mems : n # m => mem'[n] = mem[n]
  BY <1>2, <1>3, Zenon DEF CatalogueTypeOK
<1>5. Range(<<>>) = {} BY DEF Range
<1>6. MemoryFine(m)' BY <1>2, <1>4, <1>5, Zenon DEF MemoryFine, ScopeOf
<1> QED BY <1>3, <1>4, <1>6, MemoriesChange, Zenon

(* The row that ensure_private_legacy_scope_context finds or makes.        *)
LEMMA EnsuredFacts ==
    ASSUME CatalogueTypeOK, NEW p \in Principals, NEW key \in Keys, NEW c \in Ctxs, Ensured(p, key, c)
    PROVE  /\ EnsuredRow(p, key, c) \in Rows /\ EnsuredRow(p, key, c).st = "active"
           /\ Exists(c) => EnsuredRow(p, key, c) = ctx[c]
           /\ ~Exists(c) => EnsuredRow(p, key, c).parent = NoCtx
<1>1. CASE Exists(c)
  <2>1. EnsuredRow(p, key, c) = ctx[c] BY <1>1, Zenon DEF EnsuredRow, PrivateScope
  <2>2. ctx[c].st = "active" BY <1>1, Zenon DEF Ensured, Active, Exists
  <2> QED BY <1>1, <2>1, <2>2, Zenon DEF CatalogueTypeOK
<1>2. CASE ~Exists(c)
  <2>1. EnsuredRow(p, key, c) = PrivateScope(p, key) BY <1>2, Zenon DEF EnsuredRow, PrivateScope
  <2>3. /\ PrivateScope(p, key) \in Rows /\ PrivateScope(p, key).st = "active"
        /\ PrivateScope(p, key).parent = NoCtx
    BY PrivateScopeFacts, Zenon
  <2> QED BY <1>2, <2>1, <2>3, Zenon
<1> QED BY <1>1, <1>2, Zenon

(* register_legacy_scope_context                                           *)
LEMMA RegisterKeeps ==
    ASSUME CatalogueTypeOK, Good, NEW p \in Principals, NEW key \in Keys, NEW c \in Ctxs, NEW A \in SUBSET Keys,
           NEW parent \in Ctxs \cup {NoCtx}, NEW parentKey \in Keys,
           RegisterScope(p, key, c, A, parent, parentKey)
    PROVE  CatalogueTypeOK' /\ Good'
<1> DEFINE own == EnsuredRow(p, key, c)
           row == [own EXCEPT !.aliases = A, !.parent = parent, !.touched = TRUE]
           up == EnsuredRow(p, parentKey, parent)
<1>1. own \in Rows /\ own.st = "active" /\ (Exists(c) => own = ctx[c])
  BY EnsuredFacts, Zenon DEF RegisterScope
<1>2. ParentAllowed(c, parent) /\ (parent # NoCtx => Ensured(p, parentKey, parent))
  BY Zenon DEF RegisterScope
<1>3. parent # NoCtx => parent \in Ctxs /\ parent # c BY <1>2, AncestorsClosed, Zenon DEF ParentAllowed
<1>4. parent # NoCtx => /\ up \in Rows /\ up.st = "active" /\ (Exists(parent) => up = ctx[parent])
                        /\ (~Exists(parent) => up.parent = NoCtx)
  BY <1>2, <1>3, EnsuredFacts, Zenon
<1>5. /\ \A d \in Ctxs : ctx'[d] = IF d = c THEN row ELSE IF d = parent THEN up ELSE ctx[d]
      /\ ctx' = [d \in Ctxs |-> ctx'[d]]
      /\ UNCHANGED <<enabled, required, default, mem>>
  BY Zenon DEF RegisterScope
<1> HIDE DEF own, up
<1>6. row \in Rows BY <1>1 DEF Rows
<1>7. row.st = own.st BY <1>1, Zenon DEF Rows
<1>8. row.key = own.key BY <1>1, Zenon DEF Rows
<1>9. row.parent = parent BY <1>1, Zenon DEF Rows
<1> HIDE DEF row
<1>10. NoCtx \notin Ctxs BY CatalogueNames, Zenon
<1>11. \A d \in Ctxs : ctx'[d] \in Rows BY <1>4, <1>5, <1>6, <1>10, Zenon DEF CatalogueTypeOK
<1>12. CatalogueTypeOK' BY <1>5, <1>11, Zenon DEF CatalogueTypeOK
<1>13. \A d \in Ctxs : Exists(d) => Exists(d)' /\ ctx'[d].key = ctx[d].key
  BY <1>1, <1>4, <1>5, <1>7, <1>8, <1>10, Zenon DEF Exists
<1>14. \A d \in Ctxs : d # c /\ Exists(d)' =>
          (Exists(d) /\ ctx'[d].parent = ctx[d].parent) \/ ctx'[d].parent = NoCtx
  BY <1>4, <1>5, <1>10, Zenon DEF Exists
<1>15. ParentsExist'
  <2> SUFFICES ASSUME NEW d \in Ctxs, Exists(d)', ctx'[d].parent # NoCtx PROVE Exists(ctx[d].parent)'
    BY Zenon DEF ParentsExist
  <2>1. CASE d = c
    <3>1. ctx'[d].parent = parent /\ parent # NoCtx BY <1>5, <1>9, <2>1, Zenon
    <3>2. ctx'[parent].st = "active" BY <1>3, <1>4, <1>5, <3>1, Zenon
    <3> QED BY <3>1, <3>2, Zenon DEF Exists
  <2>2. CASE d # c
    <3>1. Exists(d) /\ ctx'[d].parent = ctx[d].parent BY <1>14, <2>2, Zenon
    <3>2. ctx[d].parent \in Ctxs BY <3>1, Zenon DEF CatalogueTypeOK, Rows
    <3>3. Exists(ctx[d].parent) BY <3>1, Zenon DEF Good, ReferencesExist
    <3> QED BY <1>13, <3>1, <3>2, <3>3, Zenon DEF Exists
  <2> QED BY <2>1, <2>2, Zenon
<1>16. ScopeCacheExact' /\ ReferencesExist' BY <1>5, <1>13, <1>15, CatalogueChange, Zenon DEF Good
<1>17. ctx'[c].parent = parent BY <1>5, <1>9, Zenon
<1>18. HierarchyAcyclic' BY <1>2, <1>14, <1>17, NewParent, Zenon DEF Good
<1> QED BY <1>12, <1>16, <1>18, Zenon DEF Good

(* The context that takes over the memories of a scope.                    *)
LEMMA ReassignTargetFacts ==
    ASSUME CatalogueTypeOK, NEW p \in Principals, NEW key \in Keys, NEW c \in Ctxs, ReassignTarget(p, key, c),
           ctx' = IF ctx[c].st = "none"
                  THEN [ctx EXCEPT ![c] = [Draft(p, Custom, key, NoCtx, TRUE) EXCEPT !.touched = TRUE]]
                  ELSE Touch(c, ctx[c])
    PROVE  /\ ctx' \in [Ctxs -> Rows] /\ \A d \in Ctxs : d # c => ctx'[d] = ctx[d]
           /\ Exists(c)' /\ (Exists(c) => ctx'[c].key = ctx[c].key)
           /\ (Exists(c) /\ ctx'[c].parent = ctx[c].parent) \/ ctx'[c].parent = NoCtx
<1>1. CASE ctx[c].st = "none"
  <2> DEFINE row == PrivateScope(p, key)
  <2>2. /\ PrivateScope(p, key) \in Rows /\ PrivateScope(p, key).st = "active"
        /\ PrivateScope(p, key).parent = NoCtx
    BY PrivateScopeFacts, Zenon
  <2>3. ctx' = Touch(c, row) BY <1>1, Zenon DEF Touch, PrivateScope
  <2> HIDE DEF row
  <2>4. /\ ctx' \in [Ctxs -> Rows] /\ \A e \in Ctxs : e # c => ctx'[e] = ctx[e]
        /\ ctx'[c].st = row.st /\ ctx'[c].parent = row.parent
    BY <2>2, <2>3, TouchFacts, Zenon DEF CatalogueTypeOK, row
  <2>5. ~Exists(c) BY <1>1, Zenon DEF Exists
  <2> QED BY <2>2, <2>4, <2>5, Zenon DEF Exists, row
<1>2. CASE ctx[c].st # "none"
  <2>1. Exists(c)
    <3>1. c \in OwnedCustom(p, key) \/ c \in ByKey(p, key) BY <1>2, Zenon DEF ReassignTarget
    <3> QED BY <3>1, Zenon DEF OwnedCustom, ByKey, Visible
  <2>2. ctx[c] \in Rows /\ ctx' = Touch(c, ctx[c]) BY <1>2, Zenon DEF CatalogueTypeOK
  <2>3. /\ ctx' \in [Ctxs -> Rows] /\ \A e \in Ctxs : e # c => ctx'[e] = ctx[e]
        /\ ctx'[c].st = ctx[c].st /\ ctx'[c].key = ctx[c].key /\ ctx'[c].parent = ctx[c].parent
    BY <2>2, TouchFacts, Zenon DEF CatalogueTypeOK
  <2> QED BY <2>1, <2>3, Zenon DEF Exists
<1> QED BY <1>1, <1>2

(* reassign_legacy_scope                                                   *)
LEMMA ReassignKeeps ==
    ASSUME CatalogueTypeOK, Good, NEW p \in Principals, NEW from \in Keys \cup {Unresolved}, NEW key \in Keys,
           NEW c \in Ctxs, ReassignScope(p, from, key, c)
    PROVE  CatalogueTypeOK' /\ Good'
<1> DEFINE M == {m \in Mems : Writable(m, p) /\ mem[m].scope = from}
           row(m) == Replaced(mem[m], Repointed(mem[m].ctxs, c), ctx'[c].key)
<1>1. /\ ctx' \in [Ctxs -> Rows] /\ \A d \in Ctxs : d # c => ctx'[d] = ctx[d]
      /\ Exists(c)' /\ (Exists(c) => ctx'[c].key = ctx[c].key)
      /\ (Exists(c) /\ ctx'[c].parent = ctx[c].parent) \/ ctx'[c].parent = NoCtx
  BY ReassignTargetFacts, Zenon DEF ReassignScope
<1>2. /\ mem' = [m \in Mems |-> IF m \in M THEN row(m) ELSE mem[m]]
      /\ UNCHANGED <<enabled, required, default>>
  BY Zenon DEF ReassignScope
<1>3. ctx'[c].key \in Keys BY <1>1, Zenon DEF Rows
<1>4. \A d \in Ctxs : Exists(d) => Exists(d)' /\ ctx'[d].key = ctx[d].key BY <1>1, Zenon DEF Exists
<1>5. ASSUME NEW m \in Mems
      PROVE  /\ Repointed(mem[m].ctxs, c) \in Seq(Ctxs) /\ Repointed(mem[m].ctxs, c) # <<>>
             /\ Repointed(mem[m].ctxs, c)[1] = c
             /\ \A d \in Range(Repointed(mem[m].ctxs, c)) : Exists(d)'
  <2> DEFINE s == mem[m].ctxs
             I == {i \in 2..Len(s) : s[i] # c}
  <2>1. s \in Seq(Ctxs) BY <1>5, Zenon DEF CatalogueTypeOK, Memories
  <2>2. \A d \in Range(s) : d \in Ctxs /\ Exists(d)
    <3>1. \A d \in Range(s) : d \in Ctxs BY <2>1 DEF Range
    <3> QED BY <1>5, <3>1, Zenon DEF Good, ReferencesExist
  <2> HIDE DEF s
  <2>3. I \in SUBSET (1..Len(s)) BY <2>1
  <2> HIDE DEF I
  <2>4. /\ <<c>> \o Picked(s, I) \in Seq(Ctxs) /\ <<c>> \o Picked(s, I) # <<>>
        /\ (<<c>> \o Picked(s, I))[1] = c
        /\ Range(<<c>> \o Picked(s, I)) \subseteq {c} \cup Range(s)
    BY <2>1, <2>3, HeadFacts, Zenon
  <2>5. \A d \in Range(<<c>> \o Picked(s, I)) : Exists(d)' BY <1>1, <1>4, <2>2, <2>4, Zenon
  <2> QED BY <2>4, <2>5, Zenon DEF Repointed, s, I
<1>6. ASSUME NEW m \in Mems
      PROVE  /\ row(m) \in Memories /\ row(m).ctxs = Repointed(mem[m].ctxs, c) /\ row(m).scope = ctx'[c].key
  <2>1. mem[m] \in Memories BY <1>6, Zenon DEF CatalogueTypeOK
  <2>2. Repointed(mem[m].ctxs, c) \in Seq(Ctxs) BY <1>5, <1>6, Zenon
  <2>3. ctx'[c].key \in Keys \cup {Unresolved} BY <1>3, Zenon
  <2> QED BY <2>1, <2>2, <2>3, ReplacedFacts
<1> HIDE DEF row, M
<1>7. mem' \in [Mems -> Memories] /\ \A m \in Mems : mem'[m] = mem[m] \/ mem'[m] = row(m)
  BY <1>2, <1>6, Zenon DEF CatalogueTypeOK
<1>8. ASSUME NEW m \in Mems, mem'[m] = row(m) PROVE MemoryFine(m)'
  <2>1. mem'[m].ctxs = Repointed(mem[m].ctxs, c) /\ mem'[m].scope = ctx'[c].key BY <1>6, <1>8, Zenon
  <2>2. /\ mem'[m].ctxs # <<>> /\ mem'[m].ctxs[1] = c /\ \A d \in Range(mem'[m].ctxs) : Exists(d)'
    BY <1>5, <1>8, <2>1, Zenon
  <2> QED BY <2>1, <2>2, Zenon DEF MemoryFine, ScopeOf
<1>9. CatalogueTypeOK' BY <1>1, <1>2, <1>7, Zenon DEF CatalogueTypeOK
<1>10. \A d \in Ctxs : Exists(d)' => (Exists(d) /\ ctx'[d].parent = ctx[d].parent) \/ ctx'[d].parent = NoCtx
  BY <1>1, Zenon DEF Exists
<1>11. ParentsExist'
  <2> SUFFICES ASSUME NEW d \in Ctxs, Exists(d)', ctx'[d].parent # NoCtx PROVE Exists(ctx[d].parent)'
    BY Zenon DEF ParentsExist
  <2>1. Exists(d) /\ ctx'[d].parent = ctx[d].parent BY <1>10, Zenon
  <2>2. ctx[d].parent \in Ctxs BY <2>1, Zenon DEF CatalogueTypeOK, Rows
  <2>3. Exists(ctx[d].parent) BY <2>1, Zenon DEF Good, ReferencesExist
  <2> QED BY <1>4, <2>1, <2>2, <2>3, Zenon DEF Exists
<1>12. ScopeCacheExact' /\ ReferencesExist' BY <1>2, <1>4, <1>7, <1>8, <1>11, CatalogueChange, Zenon DEF Good
<1>13. HierarchyAcyclic' BY <1>10, SameParents, Zenon DEF Good
<1> QED BY <1>9, <1>12, <1>13, Zenon DEF Good

-----------------------------------------------------------------------------
(***************************************************************************)
(* The requests.                                                           *)
(***************************************************************************)
Chosen(q) == UNION {Range(q.picks[i]) : i \in DOMAIN q.picks}
Resolving == {"find", "create", "refind", "select"}
Creating == {"exact", "confirm", "make"}
Reading == {"read", "members", "count"}

\* What a request made is chosen for the memory it is about to write, until then
\* its candidate; a request that fails goes through the rollback.
RequestShape(q) ==
    /\ q.pc \in Resolving \cup Creating => q.items # <<>>
    /\ q.pc \in Creating \cup {"idle"} => q.made = {}
    /\ q.pc \in {"find", "create", "refind", "commit"} => q.made \subseteq Chosen(q)
    /\ q.pc = "select" => q.made \subseteq Chosen(q) \cup {q.cand}
    /\ q.pc \in {"select"} \cup Reading => q.cand \in Ctxs
    /\ q.pc \in {"read", "members"} => q.made \subseteq {q.cand}
    /\ q.pc \in {"count", "complete", "save"} => Len(q.picks) = 1 /\ q.made \subseteq Range(q.picks[1])
    /\ q.op = "reviseScope" /\ q.pc \in Resolving => q.picks = <<>>
    /\ q.op \in {"reviseScope", "reviseContexts"} => q.target \in Mems
    /\ q.op = "contextCreate" => q.pc \in Creating
    /\ q.pc \in Reading => q.op = "reviseScope"
    /\ q.pc = "save" => q.op # "remember"

\* What a revision with a legacy scope has read is the memory as it is, as long
\* as the memory has the revision that was read.
SameRevision(q, M) == M[q.target].st = "live" /\ M[q.target].rev = q.rev
SeenPart(q, M) ==
    LET s == M[q.target].ctxs
    IN  \E V \in SUBSET DOMAIN s :
          q.seen = Cardinality(V) /\ q.picks[1] = <<q.cand>> \o Picked(s, {i \in 2..Len(s) : i \in V /\ s[i] # q.cand})
ReadsCurrent(q, M) ==
    q.op = "reviseScope" /\ q.pc \in {"members", "count", "complete", "save"} =>
        /\ M[q.target].st # "none" /\ q.cand \in Ctxs
        /\ M[q.target].st = "live" => q.rev <= M[q.target].rev
        /\ q.pc = "count" /\ SameRevision(q, M) => SeenPart(q, M)
        /\ q.pc \in {"complete", "save"} /\ SameRevision(q, M) =>
              q.picks[1] = Repointed(M[q.target].ctxs, q.cand)

IInv ==
    /\ TypeOK /\ Good
    /\ \A r \in Reqs : RequestShape(req[r]) /\ ReadsCurrent(req[r], mem)

Moved(q, pc) == [q EXCEPT !.pc = pc]
Considering(q, c) == [q EXCEPT !.pc = "select", !.cand = c]
Makes(q, c) == [q EXCEPT !.pc = "select", !.cand = c, !.made = @ \cup {c}]
Selected(q, pc) == [q EXCEPT !.pc = pc, !.items = Tail(@), !.picks = Append(@, <<q.cand>>)]
Reads(q, rev) == [q EXCEPT !.pc = "members", !.rev = rev]
Sees(q, seen, s) == [q EXCEPT !.pc = "count", !.seen = seen, !.picks = <<s>>]
Undone(q, c) == [q EXCEPT !.made = @ \ {c}]

(* The request goes on to another step.                                    *)
LEMMA MovedFacts ==
    ASSUME NEW q \in Requests, NEW pc \in Steps
    PROVE  /\ Moved(q, pc) \in Requests
           /\ Moved(q, pc).pc = pc
           /\ Moved(q, pc).op = q.op
           /\ Moved(q, pc).by = q.by
           /\ Moved(q, pc).items = q.items
           /\ Moved(q, pc).cand = q.cand
           /\ Moved(q, pc).picks = q.picks
           /\ Moved(q, pc).made = q.made
           /\ Moved(q, pc).target = q.target
           /\ Moved(q, pc).rev = q.rev
           /\ Moved(q, pc).seen = q.seen
<1>80. Moved(q, pc) = [q EXCEPT !.pc = pc] BY Zenon DEF Moved
<1> DEFINE n == Moved(q, pc)
<1>81. n = [q EXCEPT !.pc = pc] BY <1>80, Zenon
<1> HIDE DEF n
<1>0. n \in Requests BY <1>81 DEF Requests, Steps
<1>1. n.pc = pc BY <1>81, Zenon DEF Requests
<1>2. n.op = q.op BY <1>81, Zenon DEF Requests
<1>3. n.by = q.by BY <1>81, Zenon DEF Requests
<1>4. n.items = q.items BY <1>81, Zenon DEF Requests
<1>5. n.cand = q.cand BY <1>81, Zenon DEF Requests
<1>6. n.picks = q.picks BY <1>81, Zenon DEF Requests
<1>7. n.made = q.made BY <1>81, Zenon DEF Requests
<1>8. n.target = q.target BY <1>81, Zenon DEF Requests
<1>9. n.rev = q.rev BY <1>81, Zenon DEF Requests
<1>10. n.seen = q.seen BY <1>81, Zenon DEF Requests
<1> QED BY <1>0, <1>1, <1>2, <1>3, <1>4, <1>5, <1>6, <1>7, <1>8, <1>9, <1>10, Zenon DEF n

(* A context was found.                                                    *)
LEMMA ConsideringFacts ==
    ASSUME NEW q \in Requests, NEW c \in Ctxs
    PROVE  /\ Considering(q, c) \in Requests
           /\ Considering(q, c).pc = "select"
           /\ Considering(q, c).op = q.op
           /\ Considering(q, c).by = q.by
           /\ Considering(q, c).items = q.items
           /\ Considering(q, c).cand = c
           /\ Considering(q, c).picks = q.picks
           /\ Considering(q, c).made = q.made
           /\ Considering(q, c).target = q.target
           /\ Considering(q, c).rev = q.rev
           /\ Considering(q, c).seen = q.seen
<1>80. Considering(q, c) = [q EXCEPT !.pc = "select", !.cand = c] BY Zenon DEF Considering
<1> DEFINE n == Considering(q, c)
<1>81. n = [q EXCEPT !.pc = "select", !.cand = c] BY <1>80, Zenon
<1> HIDE DEF n
<1>0. n \in Requests BY <1>81 DEF Requests, Steps
<1>1. n.pc = "select" BY <1>81, Zenon DEF Requests
<1>2. n.op = q.op BY <1>81, Zenon DEF Requests
<1>3. n.by = q.by BY <1>81, Zenon DEF Requests
<1>4. n.items = q.items BY <1>81, Zenon DEF Requests
<1>5. n.cand = c BY <1>81, Zenon DEF Requests
<1>6. n.picks = q.picks BY <1>81, Zenon DEF Requests
<1>7. n.made = q.made BY <1>81, Zenon DEF Requests
<1>8. n.target = q.target BY <1>81, Zenon DEF Requests
<1>9. n.rev = q.rev BY <1>81, Zenon DEF Requests
<1>10. n.seen = q.seen BY <1>81, Zenon DEF Requests
<1> QED BY <1>0, <1>1, <1>2, <1>3, <1>4, <1>5, <1>6, <1>7, <1>8, <1>9, <1>10, Zenon DEF n

(* A context was made.                                                     *)
LEMMA MakesFacts ==
    ASSUME NEW q \in Requests, NEW c \in Ctxs
    PROVE  /\ Makes(q, c) \in Requests
           /\ Makes(q, c).pc = "select"
           /\ Makes(q, c).op = q.op
           /\ Makes(q, c).by = q.by
           /\ Makes(q, c).items = q.items
           /\ Makes(q, c).cand = c
           /\ Makes(q, c).picks = q.picks
           /\ Makes(q, c).made = q.made \cup {c}
           /\ Makes(q, c).target = q.target
           /\ Makes(q, c).rev = q.rev
           /\ Makes(q, c).seen = q.seen
<1> DEFINE newmade == q.made \cup {c}
<1>91. newmade \in SUBSET Ctxs BY Zenon DEF Requests
<1>80. Makes(q, c) = [q EXCEPT !.pc = "select", !.cand = c, !.made = newmade] BY Zenon DEF Makes
<1> HIDE DEF newmade
<1> DEFINE n == Makes(q, c)
<1>81. n = [q EXCEPT !.pc = "select", !.cand = c, !.made = newmade] BY <1>80, Zenon
<1> HIDE DEF n
<1>0. n \in Requests BY <1>91, <1>81 DEF Requests, Steps
<1>1. n.pc = "select" BY <1>81, Zenon DEF Requests
<1>2. n.op = q.op BY <1>81, Zenon DEF Requests
<1>3. n.by = q.by BY <1>81, Zenon DEF Requests
<1>4. n.items = q.items BY <1>81, Zenon DEF Requests
<1>5. n.cand = c BY <1>81, Zenon DEF Requests
<1>6. n.picks = q.picks BY <1>81, Zenon DEF Requests
<1>7. n.made = newmade BY <1>81, Zenon DEF Requests
<1>8. n.target = q.target BY <1>81, Zenon DEF Requests
<1>9. n.rev = q.rev BY <1>81, Zenon DEF Requests
<1>10. n.seen = q.seen BY <1>81, Zenon DEF Requests
<1> QED BY <1>0, <1>1, <1>2, <1>3, <1>4, <1>5, <1>6, <1>7, <1>8, <1>9, <1>10, Zenon DEF n, newmade

(* A context was selected.                                                 *)
LEMMA SelectedFacts ==
    ASSUME NEW q \in Requests, NEW pc \in Steps, q.items # <<>>, q.cand \in Ctxs
    PROVE  /\ Selected(q, pc) \in Requests
           /\ Selected(q, pc).pc = pc
           /\ Selected(q, pc).op = q.op
           /\ Selected(q, pc).by = q.by
           /\ Selected(q, pc).items = Tail(q.items)
           /\ Selected(q, pc).cand = q.cand
           /\ Selected(q, pc).picks = Append(q.picks, <<q.cand>>)
           /\ Selected(q, pc).made = q.made
           /\ Selected(q, pc).target = q.target
           /\ Selected(q, pc).rev = q.rev
           /\ Selected(q, pc).seen = q.seen
<1> DEFINE newitems == Tail(q.items)
           newpicks == Append(q.picks, <<q.cand>>)
<1>91. newitems \in Seq(Keys) BY DEF Requests
<1>92. newpicks \in Seq(Seq(Ctxs)) BY DEF Requests
<1>80. Selected(q, pc) = [q EXCEPT !.pc = pc, !.items = newitems, !.picks = newpicks] BY Zenon DEF Selected
<1> HIDE DEF newitems, newpicks
<1> DEFINE n == Selected(q, pc)
<1>81. n = [q EXCEPT !.pc = pc, !.items = newitems, !.picks = newpicks] BY <1>80, Zenon
<1> HIDE DEF n
<1>0. n \in Requests BY <1>91, <1>92, <1>81 DEF Requests, Steps
<1>1. n.pc = pc BY <1>81, Zenon DEF Requests
<1>2. n.op = q.op BY <1>81, Zenon DEF Requests
<1>3. n.by = q.by BY <1>81, Zenon DEF Requests
<1>4. n.items = newitems BY <1>81, Zenon DEF Requests
<1>5. n.cand = q.cand BY <1>81, Zenon DEF Requests
<1>6. n.picks = newpicks BY <1>81, Zenon DEF Requests
<1>7. n.made = q.made BY <1>81, Zenon DEF Requests
<1>8. n.target = q.target BY <1>81, Zenon DEF Requests
<1>9. n.rev = q.rev BY <1>81, Zenon DEF Requests
<1>10. n.seen = q.seen BY <1>81, Zenon DEF Requests
<1> QED BY <1>0, <1>1, <1>2, <1>3, <1>4, <1>5, <1>6, <1>7, <1>8, <1>9, <1>10, Zenon DEF n, newitems, newpicks

(* A memory was read.                                                      *)
LEMMA ReadsFacts ==
    ASSUME NEW q \in Requests, NEW rev \in Nat
    PROVE  /\ Reads(q, rev) \in Requests
           /\ Reads(q, rev).pc = "members"
           /\ Reads(q, rev).op = q.op
           /\ Reads(q, rev).by = q.by
           /\ Reads(q, rev).items = q.items
           /\ Reads(q, rev).cand = q.cand
           /\ Reads(q, rev).picks = q.picks
           /\ Reads(q, rev).made = q.made
           /\ Reads(q, rev).target = q.target
           /\ Reads(q, rev).rev = rev
           /\ Reads(q, rev).seen = q.seen
<1>80. Reads(q, rev) = [q EXCEPT !.pc = "members", !.rev = rev] BY Zenon DEF Reads
<1> DEFINE n == Reads(q, rev)
<1>81. n = [q EXCEPT !.pc = "members", !.rev = rev] BY <1>80, Zenon
<1> HIDE DEF n
<1>0. n \in Requests BY <1>81 DEF Requests, Steps
<1>1. n.pc = "members" BY <1>81, Zenon DEF Requests
<1>2. n.op = q.op BY <1>81, Zenon DEF Requests
<1>3. n.by = q.by BY <1>81, Zenon DEF Requests
<1>4. n.items = q.items BY <1>81, Zenon DEF Requests
<1>5. n.cand = q.cand BY <1>81, Zenon DEF Requests
<1>6. n.picks = q.picks BY <1>81, Zenon DEF Requests
<1>7. n.made = q.made BY <1>81, Zenon DEF Requests
<1>8. n.target = q.target BY <1>81, Zenon DEF Requests
<1>9. n.rev = rev BY <1>81, Zenon DEF Requests
<1>10. n.seen = q.seen BY <1>81, Zenon DEF Requests
<1> QED BY <1>0, <1>1, <1>2, <1>3, <1>4, <1>5, <1>6, <1>7, <1>8, <1>9, <1>10, Zenon DEF n

(* Its memberships were read.                                              *)
LEMMA SeesFacts ==
    ASSUME NEW q \in Requests, NEW seen \in Nat, NEW s \in Seq(Ctxs)
    PROVE  /\ Sees(q, seen, s) \in Requests
           /\ Sees(q, seen, s).pc = "count"
           /\ Sees(q, seen, s).op = q.op
           /\ Sees(q, seen, s).by = q.by
           /\ Sees(q, seen, s).items = q.items
           /\ Sees(q, seen, s).cand = q.cand
           /\ Sees(q, seen, s).picks = <<s>>
           /\ Sees(q, seen, s).made = q.made
           /\ Sees(q, seen, s).target = q.target
           /\ Sees(q, seen, s).rev = q.rev
           /\ Sees(q, seen, s).seen = seen
<1> DEFINE newpicks == <<s>>
<1>91. newpicks \in Seq(Seq(Ctxs)) BY DEF Requests
<1>80. Sees(q, seen, s) = [q EXCEPT !.pc = "count", !.seen = seen, !.picks = newpicks] BY Zenon DEF Sees
<1> HIDE DEF newpicks
<1> DEFINE n == Sees(q, seen, s)
<1>81. n = [q EXCEPT !.pc = "count", !.seen = seen, !.picks = newpicks] BY <1>80, Zenon
<1> HIDE DEF n
<1>0. n \in Requests BY <1>91, <1>81 DEF Requests, Steps
<1>1. n.pc = "count" BY <1>81, Zenon DEF Requests
<1>2. n.op = q.op BY <1>81, Zenon DEF Requests
<1>3. n.by = q.by BY <1>81, Zenon DEF Requests
<1>4. n.items = q.items BY <1>81, Zenon DEF Requests
<1>5. n.cand = q.cand BY <1>81, Zenon DEF Requests
<1>6. n.picks = newpicks BY <1>81, Zenon DEF Requests
<1>7. n.made = q.made BY <1>81, Zenon DEF Requests
<1>8. n.target = q.target BY <1>81, Zenon DEF Requests
<1>9. n.rev = q.rev BY <1>81, Zenon DEF Requests
<1>10. n.seen = seen BY <1>81, Zenon DEF Requests
<1> QED BY <1>0, <1>1, <1>2, <1>3, <1>4, <1>5, <1>6, <1>7, <1>8, <1>9, <1>10, Zenon DEF n, newpicks

(* A context was taken back.                                               *)
LEMMA UndoneFacts ==
    ASSUME NEW q \in Requests, NEW c \in Ctxs
    PROVE  /\ Undone(q, c) \in Requests
           /\ Undone(q, c).pc = q.pc
           /\ Undone(q, c).op = q.op
           /\ Undone(q, c).by = q.by
           /\ Undone(q, c).items = q.items
           /\ Undone(q, c).cand = q.cand
           /\ Undone(q, c).picks = q.picks
           /\ Undone(q, c).made = q.made \ {c}
           /\ Undone(q, c).target = q.target
           /\ Undone(q, c).rev = q.rev
           /\ Undone(q, c).seen = q.seen
<1> DEFINE newmade == q.made \ {c}
<1>91. newmade \in SUBSET Ctxs BY Zenon DEF Requests
<1>80. Undone(q, c) = [q EXCEPT !.made = newmade] BY Zenon DEF Undone
<1> HIDE DEF newmade
<1> DEFINE n == Undone(q, c)
<1>81. n = [q EXCEPT !.made = newmade] BY <1>80, Zenon
<1> HIDE DEF n
<1>0. n \in Requests BY <1>91, <1>81 DEF Requests, Steps
<1>1. n.pc = q.pc BY <1>81, Zenon DEF Requests
<1>2. n.op = q.op BY <1>81, Zenon DEF Requests
<1>3. n.by = q.by BY <1>81, Zenon DEF Requests
<1>4. n.items = q.items BY <1>81, Zenon DEF Requests
<1>5. n.cand = q.cand BY <1>81, Zenon DEF Requests
<1>6. n.picks = q.picks BY <1>81, Zenon DEF Requests
<1>7. n.made = newmade BY <1>81, Zenon DEF Requests
<1>8. n.target = q.target BY <1>81, Zenon DEF Requests
<1>9. n.rev = q.rev BY <1>81, Zenon DEF Requests
<1>10. n.seen = q.seen BY <1>81, Zenon DEF Requests
<1> QED BY <1>0, <1>1, <1>2, <1>3, <1>4, <1>5, <1>6, <1>7, <1>8, <1>9, <1>10, Zenon DEF n, newmade

(* A request that has nothing to do.                                       *)
LEMMA IdleFacts ==
    /\ Idle \in Requests /\ Idle.pc = "idle" /\ Idle.op = "remember" /\ Idle.made = {} /\ Idle.cand = NoCtx
    /\ Idle.picks = <<>> /\ Idle.target = NoMem /\ Idle.rev = 0
<1>1. (CHOOSE p \in Principals : TRUE) \in Principals /\ Custom \in Kinds BY CatalogueNames, Zenon
<1>2. <<>> \in Seq(Keys) /\ <<>> \in Seq(Seq(Ctxs)) /\ {} \in SUBSET Ctxs OBVIOUS
<1>3. Idle \in Requests BY <1>1, <1>2, Zenon DEF Idle, Requests, Steps, Ops
<1> QED BY <1>3, Zenon DEF Idle

MemoriesAge ==
    \A m \in Mems : mem[m].st # "none" =>
        /\ mem'[m].st # "none"
        /\ mem'[m] = mem[m] \/ mem'[m].st # "live" \/ (mem[m].st = "live" /\ mem[m].rev < mem'[m].rev)
LeavesNothing ==
    \A r \in Reqs, p \in Principals : \A c \in req[r].made \ req'[r].made : p = req[r].by => ~Removable(c, p)'
RevisionPreserves(r) ==
    LET m == req[r].target
    IN  req[r].op = "reviseScope" /\ req[r].pc = "save" /\ req'[r].pc = "idle" /\ mem' # mem =>
            mem'[m].ctxs = Repointed(mem[m].ctxs, req[r].cand)
StepFine == IInv' /\ LeavesNothing /\ \A r \in Reqs : RevisionPreserves(r)

(* What a revision has read survives what others do to the memory.         *)
LEMMA ReadsStayCurrent ==
    ASSUME CatalogueTypeOK, CatalogueTypeOK', MemoriesAge, NEW q \in Requests, RequestShape(q), ReadsCurrent(q, mem)
    PROVE  ReadsCurrent(q, mem')
<1> SUFFICES ASSUME q.op = "reviseScope", q.pc \in {"members", "count", "complete", "save"}
             PROVE  ReadsCurrent(q, mem')
  BY Zenon DEF ReadsCurrent
<1> DEFINE m == q.target
<1>1. m \in Mems BY Zenon DEF RequestShape
<1>2. mem[m].st # "none" /\ q.cand \in Ctxs BY Zenon DEF ReadsCurrent
<1>3. mem'[m].st # "none" BY <1>1, <1>2, Zenon DEF MemoriesAge
<1>4. CASE mem'[m] = mem[m] BY <1>4, Zenon DEF ReadsCurrent, SameRevision, SeenPart
<1>5. CASE mem'[m].st # "live" BY <1>2, <1>3, <1>5, Zenon DEF ReadsCurrent, SameRevision
<1>6. CASE mem[m].st = "live" /\ mem[m].rev < mem'[m].rev
  <2>1. q.rev <= mem[m].rev BY <1>6, Zenon DEF ReadsCurrent
  <2>2. q.rev \in Nat BY Zenon DEF Requests
  <2>3. mem[m] \in Memories /\ mem'[m] \in Memories BY <1>1, Zenon DEF CatalogueTypeOK
  <2>4. mem[m].rev \in Nat /\ mem'[m].rev \in Nat BY <2>3, Zenon DEF Memories
  <2> DEFINE old == mem[m].rev
             new == mem'[m].rev
  <2>5. old \in Nat /\ new \in Nat /\ old < new /\ q.rev <= old BY <1>6, <2>1, <2>4, Zenon
  <2> HIDE DEF old, new
  <2>6. q.rev <= new /\ new # q.rev BY <2>2, <2>5
  <2> QED BY <1>2, <1>3, <2>6, Zenon DEF ReadsCurrent, SameRevision, new
<1> QED BY <1>1, <1>2, <1>4, <1>5, <1>6, Zenon DEF MemoriesAge

(* One request moves.                                                      *)
LEMMA RequestMoves ==
    ASSUME IInv, CatalogueTypeOK', Good', issued' \in 0..MaxIssued, MemoriesAge,
           NEW r \in Reqs, NEW n \in Requests, req' = [req EXCEPT ![r] = n], RequestShape(n), ReadsCurrent(n, mem'),
           \A p \in Principals : \A c \in req[r].made \ n.made : p = req[r].by => ~Removable(c, p)',
           req[r].op = "reviseScope" /\ req[r].pc = "save" /\ n.pc = "idle" /\ mem' # mem =>
               mem'[req[r].target].ctxs = Repointed(mem[req[r].target].ctxs, req[r].cand)
    PROVE  StepFine
<1>1. req \in [Reqs -> Requests] BY Zenon DEF IInv, TypeOK
<1>2. req' \in [Reqs -> Requests] /\ req'[r] = n /\ \A q \in Reqs : q # r => req'[q] = req[q] BY <1>1, Zenon
<1>3. ASSUME NEW q \in Reqs PROVE RequestShape(req'[q]) /\ ReadsCurrent(req'[q], mem')
  <2>1. CASE q = r BY <1>2, <2>1, Zenon
  <2>2. CASE q # r
    <3>1. req'[q] = req[q] /\ req[q] \in Requests BY <1>1, <1>2, <1>3, <2>2, Zenon
    <3>2. CatalogueTypeOK /\ RequestShape(req[q]) /\ ReadsCurrent(req[q], mem) BY <1>3, Zenon DEF IInv, TypeOK
    <3>3. ReadsCurrent(req[q], mem') BY <3>1, <3>2, ReadsStayCurrent, Zenon
    <3> QED BY <3>1, <3>2, <3>3, Zenon
  <2> QED BY <2>1, <2>2, Zenon
<1>4. \A q \in Reqs : RequestShape(req[q])' /\ ReadsCurrent(req[q], mem)'
  BY <1>3, Zenon DEF RequestShape, ReadsCurrent, SameRevision, SeenPart, Chosen
<1>5. IInv' BY <1>2, <1>4, Zenon DEF IInv, TypeOK
<1>6. LeavesNothing BY <1>2, Zenon DEF LeavesNothing
<1>7. \A q \in Reqs : RevisionPreserves(q)
  <2>1. ASSUME NEW q \in Reqs, q # r PROVE RevisionPreserves(q)
    <3>1. req'[q] = req[q] BY <1>2, <2>1, Zenon
    <3>2. req[q].pc = "save" => req[q].pc # "idle" BY Zenon
    <3> QED BY <3>1, <3>2, Zenon DEF RevisionPreserves
  <2>2. RevisionPreserves(r) BY <1>2, Zenon DEF RevisionPreserves
  <2> QED BY <2>1, <2>2, Zenon
<1> QED BY <1>5, <1>6, <1>7, Zenon DEF StepFine

(* While the catalogue stays, what is good stays good.                     *)
LEMMA CatalogueStays ==
    ASSUME CatalogueTypeOK, Good, UNCHANGED catalogue
    PROVE  CatalogueTypeOK' /\ Good' /\ MemoriesAge
<1>1. ctx' = ctx /\ enabled' = enabled /\ required' = required /\ default' = default /\ mem' = mem
  BY Zenon DEF catalogue
<1>2. mem' \in [Mems -> Memories] /\ \A m \in Mems : mem'[m] = mem[m] BY <1>1, Zenon DEF CatalogueTypeOK
<1>3. CatalogueTypeOK' /\ Good' BY <1>1, <1>2, MemoriesChange, Zenon
<1> QED BY <1>1, <1>3, Zenon DEF MemoriesAge

(* One request moves while the catalogue stays, and keeps what it made.    *)
LEMMA QuietMoves ==
    ASSUME IInv, UNCHANGED catalogue, issued' \in 0..MaxIssued,
           NEW r \in Reqs, NEW n \in Requests, req' = [req EXCEPT ![r] = n], RequestShape(n), ReadsCurrent(n, mem),
           req[r].made \subseteq n.made
    PROVE  StepFine
<1>1. CatalogueTypeOK' /\ Good' /\ MemoriesAge BY CatalogueStays, Zenon DEF IInv, TypeOK
<1>2. mem' = mem BY Zenon DEF catalogue
<1>3. ReadsCurrent(n, mem') BY <1>2, Zenon
<1>4. req[r].made \ n.made = {} BY Zenon
<1> QED BY <1>1, <1>2, <1>3, <1>4, RequestMoves, Zenon

(* An idle request is in order.                                            *)
LEMMA IdleShape ==
    ASSUME NEW M
    PROVE  RequestShape(Idle) /\ ReadsCurrent(Idle, M)
<1>1. Idle.pc = "idle" /\ Idle.op = "remember" /\ Idle.made = {} BY IdleFacts, Zenon
<1>2. RequestShape(Idle) BY <1>1, Zenon DEF RequestShape, Resolving, Creating, Reading
<1>3. ReadsCurrent(Idle, M) BY <1>1, Zenon DEF ReadsCurrent
<1> QED BY <1>2, <1>3, Zenon

(* A request that fails.                                                   *)
LEMMA FailMoves ==
    ASSUME IInv, UNCHANGED <<catalogue, issued>>, NEW r \in Reqs, Fail(r), req[r].pc \notin Creating
    PROVE  StepFine
<1> DEFINE q == req[r]
<1>1. q \in Requests /\ RequestShape(q) /\ issued' \in 0..MaxIssued /\ UNCHANGED catalogue
  BY Zenon DEF IInv, TypeOK
<1>2. CASE q.made = {}
  <2>1. req' = [req EXCEPT ![r] = Idle] BY <1>2, Zenon DEF Fail, Become
  <2> QED BY <1>1, <1>2, <2>1, IdleFacts, IdleShape, QuietMoves
<1>3. CASE q.made # {}
  <2> DEFINE n == Moved(q, "rollback")
  <2>1. req' = [req EXCEPT ![r] = n] BY <1>3, Zenon DEF Fail, Goto, Become, Moved
  <2>2. "rollback" \in Steps BY Zenon DEF Steps
  <2>3. n \in Requests /\ n.pc = "rollback" /\ n.op = q.op /\ n.made = q.made /\ n.target = q.target
    BY <1>1, <2>2, MovedFacts, Zenon
  <2> HIDE DEF n
  <2>4. RequestShape(n) BY <1>1, <2>3, Zenon DEF RequestShape, Resolving, Creating, Reading
  <2>5. ReadsCurrent(n, mem) BY <2>3, Zenon DEF ReadsCurrent
  <2> QED BY <1>1, <2>1, <2>3, <2>4, <2>5, QuietMoves, Zenon
<1> QED BY <1>2, <1>3, Zenon

(* A context is found for the current item.                                *)
LEMMA ConsideringMoves ==
    ASSUME IInv, UNCHANGED <<catalogue, issued>>, NEW r \in Reqs, NEW c \in Ctxs, req[r].pc \in {"find", "refind"},
           req' = [req EXCEPT ![r] = Considering(req[r], c)]
    PROVE  StepFine
<1> DEFINE q == req[r]
           n == Considering(q, c)
<1>1. q \in Requests /\ RequestShape(q) /\ issued' \in 0..MaxIssued /\ UNCHANGED catalogue
  BY Zenon DEF IInv, TypeOK
<1>2. /\ n \in Requests /\ n.pc = "select" /\ n.op = q.op /\ n.items = q.items /\ n.cand = c /\ n.picks = q.picks
      /\ n.made = q.made /\ n.target = q.target
  BY <1>1, ConsideringFacts
<1>3. req' = [req EXCEPT ![r] = n] BY Zenon
<1> HIDE DEF n
<1>4. Chosen(n) = Chosen(q) BY <1>2, Zenon DEF Chosen
<1>5. q.items # <<>> /\ q.made \subseteq Chosen(q) /\ q.op # "contextCreate"
  BY <1>1, Zenon DEF RequestShape, Resolving, Creating
<1>6. RequestShape(n) BY <1>1, <1>2, <1>4, <1>5, Zenon DEF RequestShape, Resolving, Creating, Reading
<1>7. ReadsCurrent(n, mem) BY <1>2, Zenon DEF ReadsCurrent
<1> QED BY <1>1, <1>2, <1>3, <1>6, <1>7, QuietMoves, Zenon

(* resolve_legacy_context_selection goes on without a context.             *)
LEMMA ResolvingMoves ==
    ASSUME IInv, UNCHANGED <<catalogue, issued>>, NEW r \in Reqs, NEW pc \in {"create", "refind"},
           req[r].pc \in {"find", "create"}, Goto(r, pc)
    PROVE  StepFine
<1> DEFINE q == req[r]
           n == Moved(q, pc)
<1>1. q \in Requests /\ RequestShape(q) /\ issued' \in 0..MaxIssued /\ UNCHANGED catalogue
  BY Zenon DEF IInv, TypeOK
<1>2. pc \in Steps BY Zenon DEF Steps
<1>3. /\ n \in Requests /\ n.pc = pc /\ n.op = q.op /\ n.items = q.items /\ n.picks = q.picks
      /\ n.made = q.made /\ n.target = q.target
  BY <1>1, <1>2, MovedFacts, Zenon
<1>4. req' = [req EXCEPT ![r] = n] BY Zenon DEF Goto, Become, Moved
<1> HIDE DEF n
<1>5. Chosen(n) = Chosen(q) BY <1>3, Zenon DEF Chosen
<1>6. q.items # <<>> /\ q.made \subseteq Chosen(q) /\ q.op # "contextCreate"
  BY <1>1, Zenon DEF RequestShape, Resolving, Creating
<1>7. RequestShape(n) BY <1>1, <1>3, <1>5, <1>6, Zenon DEF RequestShape, Resolving, Creating, Reading
<1>8. ReadsCurrent(n, mem) BY <1>3, Zenon DEF ReadsCurrent
<1> QED BY <1>1, <1>3, <1>4, <1>7, <1>8, QuietMoves, Zenon

(* find_context_records, before and after a failed creation.               *)
LEMMA FindMoves ==
    ASSUME IInv, NEW r \in Reqs, FindScope(r) \/ RefindScope(r) \/ CreateScopeFails(r)
    PROVE  StepFine
<1>1. UNCHANGED <<catalogue, issued>> BY Zenon DEF FindScope, RefindScope, CreateScopeFails
<1>2. req[r].pc \notin Creating BY Zenon DEF FindScope, RefindScope, CreateScopeFails, At, Creating
<1> DEFINE found == Find(req[r].by, FALSE, Kinds, Head(req[r].items))
<1>3. found \subseteq Ctxs BY Zenon DEF Find
<1>4. CASE FindScope(r)
  <2>1. \/ \E c \in found : Become(r, [req[r] EXCEPT !.pc = "select", !.cand = c])
        \/ Goto(r, "create") \/ Fail(r)
    BY <1>4, Zenon DEF FindScope
  <2>2. req[r].pc = "find" BY <1>4, Zenon DEF FindScope, At
  <2>3. ASSUME NEW c \in found, Become(r, [req[r] EXCEPT !.pc = "select", !.cand = c]) PROVE StepFine
    <3>1. req' = [req EXCEPT ![r] = Considering(req[r], c)] BY <2>3, Zenon DEF Become, Considering
    <3> QED BY <1>1, <1>3, <2>2, <3>1, ConsideringMoves, Zenon
  <2>4. CASE Goto(r, "create") BY <1>1, <2>2, <2>4, ResolvingMoves, Zenon
  <2>5. CASE Fail(r) BY <1>1, <1>2, <2>5, FailMoves, Zenon
  <2> QED BY <2>1, <2>3, <2>4, <2>5, Zenon
<1>5. CASE RefindScope(r)
  <2>1. (\E c \in found : Become(r, [req[r] EXCEPT !.pc = "select", !.cand = c])) \/ Fail(r)
    BY <1>5, Zenon DEF RefindScope
  <2>2. req[r].pc = "refind" BY <1>5, Zenon DEF RefindScope, At
  <2>3. ASSUME NEW c \in found, Become(r, [req[r] EXCEPT !.pc = "select", !.cand = c]) PROVE StepFine
    <3>1. req' = [req EXCEPT ![r] = Considering(req[r], c)] BY <2>3, Zenon DEF Become, Considering
    <3> QED BY <1>1, <1>3, <2>2, <3>1, ConsideringMoves, Zenon
  <2>4. CASE Fail(r) BY <1>1, <1>2, <2>4, FailMoves, Zenon
  <2> QED BY <2>1, <2>3, <2>4, Zenon
<1>6. CASE CreateScopeFails(r)
  <2>1. req[r].pc = "create" /\ Goto(r, "refind") BY <1>6, Zenon DEF CreateScopeFails, At
  <2> QED BY <1>1, <2>1, ResolvingMoves, Zenon
<1> QED BY <1>4, <1>5, <1>6, Zenon

(* create_context for a legacy scope.                                      *)
LEMMA CreateScopeMoves ==
    ASSUME IInv, NEW r \in Reqs, NEW c \in Ctxs, CreateScope(r, c)
    PROVE  StepFine
<1> DEFINE q == req[r]
           n == Makes(q, c)
           row == PrivateScope(q.by, Head(q.items))
<1>1. q \in Requests /\ RequestShape(q) /\ q.pc = "create" BY Zenon DEF IInv, TypeOK, CreateScope, At
<1>2. q.items # <<>> /\ q.made \subseteq Chosen(q) /\ q.op # "contextCreate"
  BY <1>1, Zenon DEF RequestShape, Resolving, Creating
<1>3. q.by \in Principals /\ Head(q.items) \in Keys
  <2>1. q.items \in Seq(Keys) /\ q.by \in Principals BY <1>1, Zenon DEF Requests
  <2> QED BY <1>2, <2>1
<1>4. row \in Rows /\ row.st = "active" /\ row.parent = NoCtx BY <1>3, PrivateScopeFacts, Zenon
<1>5. Insert(c, row) /\ UNCHANGED <<enabled, required, default, mem, issued>>
  BY Zenon DEF CreateScope, PrivateScope
<1> HIDE DEF row
<1>6. CatalogueTypeOK' /\ Good' BY <1>4, <1>5, InsertKeeps, Zenon DEF IInv, TypeOK
<1>7. mem' = mem /\ issued' \in 0..MaxIssued BY <1>5, Zenon DEF IInv, TypeOK
<1>8. MemoriesAge BY <1>7, Zenon DEF MemoriesAge
<1>9. req' = [req EXCEPT ![r] = n] BY Zenon DEF CreateScope, Become, Makes
<1>10. /\ n \in Requests /\ n.pc = "select" /\ n.op = q.op /\ n.items = q.items /\ n.cand = c /\ n.picks = q.picks
       /\ n.made = q.made \cup {c} /\ n.target = q.target
  BY <1>1, MakesFacts
<1> HIDE DEF n
<1>11. Chosen(n) = Chosen(q) BY <1>10, Zenon DEF Chosen
<1>12. RequestShape(n) BY <1>1, <1>2, <1>10, <1>11, Zenon DEF RequestShape, Resolving, Creating, Reading
<1>13. ReadsCurrent(n, mem') BY <1>10, Zenon DEF ReadsCurrent
<1>14. q.made \ n.made = {} BY <1>10, Zenon
<1> QED BY <1>6, <1>7, <1>8, <1>9, <1>10, <1>12, <1>13, <1>14, RequestMoves, Zenon

(* One more sequence of memberships.                                       *)
LEMMA ChosenAppend ==
    ASSUME NEW picks \in Seq(Seq(Ctxs)), NEW s \in Seq(Ctxs)
    PROVE  /\ DOMAIN picks \subseteq DOMAIN Append(picks, s)
           /\ \A i \in DOMAIN picks : Append(picks, s)[i] = picks[i]
           /\ \E i \in DOMAIN Append(picks, s) : Append(picks, s)[i] = s
<1>1. Len(picks) + 1 \in DOMAIN Append(picks, s) /\ Append(picks, s)[Len(picks) + 1] = s OBVIOUS
<1>2. DOMAIN picks \subseteq DOMAIN Append(picks, s) OBVIOUS
<1>3. \A i \in DOMAIN picks : Append(picks, s)[i] = picks[i] OBVIOUS
<1> QED BY <1>1, <1>2, <1>3, Zenon

(* All but the first of several items.                                     *)
LEMMA TailOfMany ==
    ASSUME NEW s \in Seq(Keys), Len(s) > 1
    PROVE  Tail(s) # <<>>
<1>1. Len(Tail(s)) = Len(s) - 1 /\ Len(s) \in Nat /\ Len(<<>>) = 0 OBVIOUS
<1> DEFINE k == Len(s)
           l == Len(Tail(s))
<1>2. k \in Nat /\ k > 1 /\ l = k - 1 BY <1>1, Zenon
<1> HIDE DEF k, l
<1>3. l # 0 BY <1>2
<1> QED BY <1>1, <1>3, Zenon DEF l

(* resolve_context_selection for the chosen context.                       *)
LEMMA SelectScopeMoves ==
    ASSUME IInv, NEW r \in Reqs, SelectScope(r)
    PROVE  StepFine
<1> DEFINE q == req[r]
           pc == IF q.op = "reviseScope" THEN "read" ELSE IF Len(q.items) > 1 THEN "find" ELSE "commit"
           n == Selected(q, pc)
<1>1. q \in Requests /\ RequestShape(q) /\ q.pc = "select" /\ UNCHANGED <<catalogue, issued>>
  BY Zenon DEF IInv, TypeOK, SelectScope, At
<1>2. q.items # <<>> /\ q.made \subseteq Chosen(q) \cup {q.cand} /\ q.op # "contextCreate" /\ q.cand \in Ctxs
  BY <1>1, Zenon DEF RequestShape, Resolving, Creating
<1>3. issued' \in 0..MaxIssued /\ UNCHANGED catalogue BY <1>1, Zenon DEF IInv, TypeOK
<1>4. CASE req' = [req EXCEPT ![r] = n]
  <2>1. pc \in Steps BY Zenon DEF Steps
  <2>2. /\ q.op = "reviseScope" => pc = "read"
        /\ q.op # "reviseScope" => pc \in {"find", "commit"}
        /\ pc = "find" => Len(q.items) > 1
    BY Zenon
  <2> DEFINE step == pc
  <2>3. step \in Steps /\ n = Selected(q, step) BY <2>1, Zenon
  <2> HIDE DEF step, n
  <2>4. /\ n \in Requests /\ n.pc = step /\ n.op = q.op /\ n.items = Tail(q.items) /\ n.cand = q.cand
        /\ n.picks = Append(q.picks, <<q.cand>>) /\ n.made = q.made /\ n.target = q.target
    BY <1>1, <1>2, <2>3, SelectedFacts
  <2>5. q.picks \in Seq(Seq(Ctxs)) /\ q.items \in Seq(Keys) BY <1>1, Zenon DEF Requests
  <2>6. <<q.cand>> \in Seq(Ctxs) /\ q.cand \in Range(<<q.cand>>)
    <3>1. <<q.cand>> \in Seq(Ctxs) BY <1>2
    <3>2. 1 \in DOMAIN <<q.cand>> /\ <<q.cand>>[1] = q.cand OBVIOUS
    <3> QED BY <3>1, <3>2, Zenon DEF Range
  <2>7. /\ DOMAIN q.picks \subseteq DOMAIN n.picks /\ \A i \in DOMAIN q.picks : n.picks[i] = q.picks[i]
        /\ \E i \in DOMAIN n.picks : n.picks[i] = <<q.cand>>
    <3> DEFINE old == q.picks
               one == <<q.cand>>
    <3>1. old \in Seq(Seq(Ctxs)) /\ one \in Seq(Ctxs) BY <2>5, <2>6, Zenon
    <3> HIDE DEF old, one
    <3>2. /\ DOMAIN old \subseteq DOMAIN Append(old, one)
          /\ \A i \in DOMAIN old : Append(old, one)[i] = old[i]
          /\ \E i \in DOMAIN Append(old, one) : Append(old, one)[i] = one
      BY <3>1, ChosenAppend, Zenon
    <3> QED BY <2>4, <3>2, Zenon DEF old, one
  <2>8. Chosen(q) \cup {q.cand} \subseteq Chosen(n)
    <3>1. Chosen(q) \subseteq Chosen(n) BY <2>7, Zenon DEF Chosen
    <3>2. q.cand \in Chosen(n) BY <2>6, <2>7, Zenon DEF Chosen
    <3> QED BY <3>1, <3>2, Zenon
  <2>9. step = "find" => n.items # <<>>
    <3>1. Len(q.items) > 1 => Tail(q.items) # <<>> BY <2>5, TailOfMany, Zenon
    <3> QED BY <2>2, <2>4, <3>1, Zenon DEF step
  <2>10. q.op = "reviseScope" => q.made \subseteq {q.cand}
    <3>1. q.op = "reviseScope" => q.picks = <<>> BY <1>1, Zenon DEF RequestShape, Resolving
    <3>2. DOMAIN <<>> = {} OBVIOUS
    <3> QED BY <1>2, <3>1, <3>2, Zenon DEF Chosen
  <2>11. /\ q.op = "reviseScope" => step = "read" /\ q.target \in Mems
         /\ q.op # "reviseScope" => step \in {"find", "commit"}
    BY <1>1, <2>2, Zenon DEF RequestShape, step
  <2>12. n.made \subseteq Chosen(n) BY <1>2, <2>4, <2>8, Zenon
  <2>13. q.op = "reviseContexts" => q.target \in Mems BY <1>1, Zenon DEF RequestShape
  <2>14. RequestShape(n)
    BY <1>2, <2>4, <2>9, <2>10, <2>11, <2>12, <2>13, Zenon DEF RequestShape, Resolving, Creating, Reading
  <2>15. ReadsCurrent(n, mem) BY <2>4, <2>11, Zenon DEF ReadsCurrent
  <2> QED BY <1>3, <1>4, <2>4, <2>14, <2>15, QuietMoves, Zenon
<1>5. CASE Fail(r)
  <2>1. q.pc \notin Creating BY <1>1, Zenon DEF Creating
  <2> QED BY <1>1, <1>5, <2>1, FailMoves, Zenon
<1>6. req' = [req EXCEPT ![r] = n] \/ Fail(r) BY Zenon DEF SelectScope, Become, Selected
<1> QED BY <1>4, <1>5, <1>6, Zenon

(* A stored memory.                                                        *)
LEMMA StoredFacts ==
    ASSUME NEW p \in Principals, NEW s \in Seq(Ctxs), NEW scope \in Keys \cup {Unresolved}
    PROVE  /\ Stored(p, s, scope) \in Memories /\ Stored(p, s, scope).ctxs = s
           /\ Stored(p, s, scope).scope = scope
BY Zenon DEF Stored, Memories

(* A context that a memory is in is not taken back.                        *)
LEMMA ReferencedStays ==
    ASSUME NEW m \in Mems, NEW c \in Range(mem'[m].ctxs)
    PROVE  \A p \in Principals : ~Removable(c, p)'
<1>1. Referenced(c)' BY Zenon DEF Referenced
<1> QED BY <1>1, Zenon DEF Removable

(* store_memory and batch_store_with_metadata_contexts                     *)
LEMMA CommitMoves ==
    ASSUME IInv, NEW r \in Reqs, NEW ms \in [DOMAIN req[r].picks -> Mems], CommitRemember(r, ms)
    PROVE  StepFine
<1> DEFINE q == req[r]
           picks == q.picks
           scopes == [i \in DOMAIN picks |-> ScopeOf(picks[i])]
           at(m) == CHOOSE j \in DOMAIN ms : ms[j] = m
           row(i) == Stored(q.by, picks[i], scopes[i])
<1>1. /\ CatalogueTypeOK /\ Good /\ q \in Requests /\ RequestShape(q)
      /\ q.pc = "commit" /\ q.op = "remember" /\ IsInjective(ms)
  BY Zenon DEF IInv, TypeOK, CommitRemember, At
<1>2. /\ \A i \in DOMAIN picks : mem[ms[i]].st = "none" /\ MembershipsAllowed(picks[i], {}, scopes[i], q.by)
      /\ mem' = [m \in Mems |-> IF m \in Range(ms) THEN row(at(m)) ELSE mem[m]]
      /\ req' = [req EXCEPT ![r] = Idle] /\ UNCHANGED <<ctx, enabled, required, default, issued>>
  BY Zenon DEF CommitRemember, Become
<1>3. q.by \in Principals BY <1>1, Zenon DEF Requests
<1>4. ASSUME NEW i \in DOMAIN picks
      PROVE  /\ row(i) \in Memories /\ row(i).ctxs = picks[i] /\ row(i).scope = ScopeOf(picks[i])
             /\ \A c \in Range(picks[i]) : Exists(c)
  <2>1. MembershipsAllowed(picks[i], {}, scopes[i], q.by) BY <1>2, <1>4, Zenon
  <2>2. picks[i] \in Seq(Ctxs) /\ scopes[i] = ScopeOf(picks[i]) /\ \A c \in Range(picks[i]) : Exists(c)
    BY <2>1, AllowedFacts, Zenon
  <2>3. scopes[i] \in Keys \cup {Unresolved} BY <1>1, <2>2, ScopeOfKey, Zenon
  <2> HIDE DEF scopes
  <2>4. row(i) \in Memories /\ row(i).ctxs = picks[i] /\ row(i).scope = scopes[i]
    BY <1>3, <2>2, <2>3, StoredFacts, Zenon
  <2> QED BY <2>2, <2>4, Zenon
<1>5. \A i \in DOMAIN picks : ms[i] \in Mems /\ ms[i] \in Range(ms) /\ at(ms[i]) = i
  <2>1. DOMAIN ms = DOMAIN picks BY Zenon
  <2>2. \A i, j \in DOMAIN ms : ms[i] = ms[j] => i = j BY <1>1, Zenon DEF IsInjective
  <2>3. \A i \in DOMAIN picks : at(ms[i]) \in DOMAIN ms /\ ms[at(ms[i])] = ms[i] BY <2>1, Zenon
  <2> HIDE DEF at
  <2> QED BY <2>1, <2>2, <2>3, Zenon DEF Range
<1>6. \A m \in Range(ms) : \E i \in DOMAIN picks : m = ms[i] BY Zenon DEF Range
<1> HIDE DEF row, at
<1>7. \A i \in DOMAIN picks : mem'[ms[i]] = row(i) BY <1>2, <1>5, Zenon
<1>8. \A m \in Mems : mem'[m] = mem[m] \/ \E i \in DOMAIN picks : m = ms[i] /\ mem'[m] = row(i)
  BY <1>2, <1>6, <1>7, Zenon
<1>9. mem' \in [Mems -> Memories]
  <2>1. \A m \in Mems : mem'[m] \in Memories BY <1>1, <1>4, <1>8, Zenon DEF CatalogueTypeOK
  <2> QED BY <1>2, <2>1, Zenon
<1>10. \A m \in Mems : mem'[m] = mem[m] \/ MemoryFine(m)'
  <2> SUFFICES ASSUME NEW m \in Mems, NEW i \in DOMAIN picks, mem'[m] = row(i) PROVE MemoryFine(m)'
    BY <1>8, Zenon
  <2>1. mem'[m].ctxs = picks[i] /\ mem'[m].scope = ScopeOf(picks[i]) /\ \A c \in Range(picks[i]) : Exists(c)
    BY <1>4, Zenon
  <2> QED BY <1>2, <2>1, Zenon DEF MemoryFine, ScopeOf, Exists
<1>11. CatalogueTypeOK' /\ Good' BY <1>1, <1>2, <1>9, <1>10, MemoriesChange, Zenon
<1>12. MemoriesAge BY <1>2, <1>8, Zenon DEF MemoriesAge
<1>13. \A p \in Principals : \A c \in q.made \ Idle.made : p = q.by => ~Removable(c, p)'
  <2> SUFFICES ASSUME NEW c \in q.made PROVE \A p \in Principals : ~Removable(c, p)'
    BY Zenon
  <2>1. PICK i \in DOMAIN picks : c \in Range(picks[i]) BY <1>1, Zenon DEF RequestShape, Chosen
  <2>2. ms[i] \in Mems /\ c \in Range(mem'[ms[i]].ctxs) BY <1>4, <1>5, <1>7, <2>1, Zenon
  <2> QED BY <2>2, ReferencedStays, Zenon
<1>14. issued' \in 0..MaxIssued BY <1>2, Zenon DEF IInv, TypeOK
<1>15. Idle \in Requests /\ RequestShape(Idle) /\ ReadsCurrent(Idle, mem') BY IdleFacts, IdleShape, Zenon
<1>16. q.op # "reviseScope" BY <1>1, Zenon
<1> QED BY <1>2, <1>11, <1>12, <1>13, <1>14, <1>15, <1>16, RequestMoves, Zenon

(* A commit or a save is refused.                                          *)
LEMMA RefusedMoves ==
    ASSUME IInv, NEW r \in Reqs, CommitFails(r) \/ SaveFails(r)
    PROVE  StepFine
<1>1. UNCHANGED <<catalogue, issued>> /\ Fail(r) BY Zenon DEF CommitFails, SaveFails
<1>2. req[r].pc \notin Creating BY Zenon DEF CommitFails, SaveFails, At, Creating
<1> QED BY <1>1, <1>2, FailMoves, Zenon

(* get_memory for a revision.                                              *)
LEMMA ReadMoves ==
    ASSUME IInv, NEW r \in Reqs, ReadMemory(r)
    PROVE  StepFine
<1> DEFINE q == req[r]
           m == mem[q.target]
           n == Reads(q, m.rev)
<1>1. /\ CatalogueTypeOK /\ q \in Requests /\ RequestShape(q) /\ q.pc = "read" /\ UNCHANGED <<catalogue, issued>>
      /\ issued' \in 0..MaxIssued /\ UNCHANGED catalogue
  BY Zenon DEF IInv, TypeOK, ReadMemory, At
<1>2. q.op = "reviseScope" /\ q.target \in Mems /\ q.cand \in Ctxs /\ q.made \subseteq {q.cand}
  BY <1>1, Zenon DEF RequestShape, Reading
<1>3. CASE m.st = "live"
  <2>1. req' = [req EXCEPT ![r] = n] BY <1>3, Zenon DEF ReadMemory, Become, Reads
  <2>2. m \in Memories BY <1>1, <1>2, Zenon DEF CatalogueTypeOK
  <2>3. m.rev \in Nat BY <2>2, Zenon DEF Memories
  <2>4. /\ n \in Requests /\ n.pc = "members" /\ n.op = q.op /\ n.cand = q.cand /\ n.made = q.made
        /\ n.target = q.target /\ n.rev = m.rev
    BY <1>1, <2>3, ReadsFacts, Zenon
  <2> HIDE DEF n
  <2>5. RequestShape(n) BY <1>2, <2>4, Zenon DEF RequestShape, Resolving, Creating, Reading
  <2>6. n.rev <= m.rev
    <3> DEFINE k == m.rev
    <3>1. k \in Nat /\ n.rev = k BY <2>3, <2>4, Zenon
    <3> HIDE DEF k
    <3>2. n.rev <= k BY <3>1
    <3> QED BY <3>2, Zenon DEF k
  <2>7. ReadsCurrent(n, mem) BY <1>2, <1>3, <2>4, <2>6, Zenon DEF ReadsCurrent
  <2> QED BY <1>1, <2>1, <2>4, <2>5, <2>7, QuietMoves, Zenon
<1>4. CASE m.st # "live"
  <2>1. Fail(r) BY <1>4, Zenon DEF ReadMemory
  <2>2. q.pc \notin Creating BY <1>1, Zenon DEF Creating
  <2> QED BY <1>1, <2>1, <2>2, FailMoves, Zenon
<1> QED BY <1>3, <1>4, Zenon

(* get_memory_contexts for a revision.                                     *)
LEMMA MembersMoves ==
    ASSUME IInv, NEW r \in Reqs, ReadMemberships(r)
    PROVE  StepFine
<1> DEFINE q == req[r]
           m == mem[q.target]
           s == m.ctxs
           V == {i \in DOMAIN s : Visible(s[i], q.by)}
           I == {i \in 2..Len(s) : Visible(s[i], q.by) /\ s[i] # q.cand}
           t == <<q.cand>> \o Picked(s, I)
           n == Sees(q, Cardinality(V), t)
<1>1. /\ CatalogueTypeOK /\ q \in Requests /\ RequestShape(q) /\ ReadsCurrent(q, mem) /\ q.pc = "members"
      /\ UNCHANGED <<catalogue, issued>> /\ issued' \in 0..MaxIssued /\ UNCHANGED catalogue
  BY Zenon DEF IInv, TypeOK, ReadMemberships, At
<1>2. q.op = "reviseScope" /\ q.target \in Mems /\ q.cand \in Ctxs /\ q.made \subseteq {q.cand}
  BY <1>1, Zenon DEF RequestShape, Reading
<1>3. CASE m.st = "live"
  <2>1. req' = [req EXCEPT ![r] = n] BY <1>3, Zenon DEF ReadMemberships, WithPrimary, Become, Sees
  <2>2. m \in Memories BY <1>1, <1>2, Zenon DEF CatalogueTypeOK
  <2>3. s \in Seq(Ctxs) BY <2>2, Zenon DEF Memories
  <2>4. DOMAIN s = 1..Len(s) /\ Len(s) \in Nat BY <2>3
  <2>5. I \in SUBSET (1..Len(s)) /\ V \in SUBSET DOMAIN s BY <2>4
  <2>6. Cardinality(V) \in Nat
    <3>1. IsFiniteSet(1..Len(s)) BY <2>4, FS_Interval
    <3>2. V \subseteq 1..Len(s) BY <2>4, <2>5, Zenon
    <3> QED BY <3>1, <3>2, FS_Subset, FS_CardinalityType, Zenon
  <2>7. I = {i \in 2..Len(s) : i \in V /\ s[i] # q.cand}
    <3>1. \A i \in 2..Len(s) : i \in DOMAIN s BY <2>4
    <3> QED BY <3>1, Zenon
  <2> DEFINE k == Cardinality(V)
  <2>8. t \in Seq(Ctxs) /\ t # <<>> /\ t[1] = q.cand
    <3> DEFINE c == q.cand
    <3>1. c \in Ctxs BY <1>2, Zenon
    <3> HIDE DEF I, s, c
    <3>2. I \in SUBSET (1..Len(s)) BY <2>5, Zenon
    <3>3. /\ <<c>> \o Picked(s, I) \in Seq(Ctxs) /\ <<c>> \o Picked(s, I) # <<>>
          /\ (<<c>> \o Picked(s, I))[1] = c
          /\ Range(<<c>> \o Picked(s, I)) \subseteq {c} \cup Range(s)
      BY <2>3, <3>1, <3>2, HeadFacts, Zenon
    <3> QED BY <3>3, Zenon DEF c
  <2>9. q.cand \in Range(t)
    <3> HIDE DEF t
    <3>1. 1 \in DOMAIN t BY <2>8
    <3> QED BY <2>8, <3>1, Zenon DEF Range
  <2>10. k \in Nat BY <2>6, Zenon
  <2> HIDE DEF k, t
  <2>11. n = Sees(q, k, t) BY Zenon DEF k
  <2> HIDE DEF n
  <2>12. /\ n \in Requests /\ n.pc = "count" /\ n.op = q.op /\ n.cand = q.cand /\ n.made = q.made
         /\ n.target = q.target /\ n.rev = q.rev /\ n.seen = k /\ n.picks = <<t>>
    BY <1>1, <2>8, <2>10, <2>11, SeesFacts, Zenon
  <2>13. Len(n.picks) = 1 /\ n.picks[1] = t BY <2>12
  <2>14. RequestShape(n) BY <1>2, <2>9, <2>12, <2>13, Zenon DEF RequestShape, Resolving, Creating, Reading
  <2>15. SeenPart(n, mem)
    <3>1. t = <<q.cand>> \o Picked(s, {i \in 2..Len(s) : i \in V /\ s[i] # q.cand}) BY <2>7, Zenon DEF t
    <3> HIDE DEF V
    <3> QED BY <2>5, <2>12, <2>13, <3>1, Zenon DEF SeenPart, k
  <2>16. mem[q.target].st = "live" => q.rev <= mem[q.target].rev BY <1>1, <1>2, Zenon DEF ReadsCurrent
  <2>17. mem[q.target].st # "none" BY <1>3, Zenon
  <2>18. ReadsCurrent(n, mem) BY <1>2, <2>12, <2>15, <2>16, <2>17, Zenon DEF ReadsCurrent
  <2> QED BY <1>1, <2>1, <2>12, <2>14, <2>18, QuietMoves, Zenon
<1>4. CASE m.st # "live"
  <2>1. Fail(r) BY <1>4, Zenon DEF ReadMemberships
  <2>2. q.pc \notin Creating BY <1>1, Zenon DEF Creating
  <2> QED BY <1>1, <2>1, <2>2, FailMoves, Zenon
<1> QED BY <1>3, <1>4, Zenon

(* Positions that are as many as all of them are all of them.              *)
LEMMA AllSeen ==
    ASSUME NEW s \in Seq(Ctxs), NEW V \in SUBSET DOMAIN s, Cardinality(V) = Len(s)
    PROVE  V = DOMAIN s
<1>1. DOMAIN s = 1..Len(s) /\ Len(s) \in Nat OBVIOUS
<1> DEFINE k == Len(s)
<1>2. k \in Nat /\ V \in SUBSET (1..k) /\ Cardinality(V) = k BY <1>1, Zenon
<1> HIDE DEF k
<1>3. IsFiniteSet(1..k) /\ Cardinality(1..k) = k
  <2>1. Cardinality(1..k) = IF 1 > k THEN 0 ELSE k - 1 + 1 BY <1>2, FS_Interval
  <2> QED BY <1>2, <2>1, FS_Interval
<1>4. Cardinality(V) = Cardinality(1..k) => V = 1..k BY <1>2, <1>3, FS_Subset, Zenon
<1> QED BY <1>1, <1>2, <1>3, <1>4, Zenon DEF k

(* The number of memberships is that of the visible ones.                  *)
LEMMA CountMoves ==
    ASSUME IInv, NEW r \in Reqs, CountMemberships(r)
    PROVE  StepFine
<1> DEFINE q == req[r]
           s == mem[q.target].ctxs
           n == Moved(q, "complete")
<1>1. /\ CatalogueTypeOK /\ q \in Requests /\ RequestShape(q) /\ ReadsCurrent(q, mem) /\ q.pc = "count"
      /\ UNCHANGED <<catalogue, issued>> /\ issued' \in 0..MaxIssued /\ UNCHANGED catalogue
  BY Zenon DEF IInv, TypeOK, CountMemberships, At
<1>2. q.op = "reviseScope" /\ q.target \in Mems BY <1>1, Zenon DEF RequestShape, Reading
<1>3. CASE Goto(r, "complete") /\ Len(s) = q.seen
  <2>1. req' = [req EXCEPT ![r] = n] BY <1>3, Zenon DEF Goto, Become, Moved
  <2>2. "complete" \in Steps BY Zenon DEF Steps
  <2>3. /\ n \in Requests /\ n.pc = "complete" /\ n.op = q.op /\ n.cand = q.cand /\ n.made = q.made
        /\ n.target = q.target /\ n.rev = q.rev /\ n.picks = q.picks
    BY <1>1, <2>2, MovedFacts, Zenon
  <2> HIDE DEF n
  <2>4. RequestShape(n) BY <1>1, <1>2, <2>3, Zenon DEF RequestShape, Resolving, Creating, Reading
  <2>5. s \in Seq(Ctxs)
    <3>1. mem[q.target] \in Memories BY <1>1, <1>2, Zenon DEF CatalogueTypeOK
    <3> QED BY <3>1, Zenon DEF Memories
  <2>6. SameRevision(q, mem) => q.picks[1] = Repointed(s, q.cand)
    <3> SUFFICES ASSUME SameRevision(q, mem) PROVE q.picks[1] = Repointed(s, q.cand)
      BY Zenon
    <3>1. SeenPart(q, mem) BY <1>1, <1>2, Zenon DEF ReadsCurrent
    <3>2. PICK V \in SUBSET DOMAIN s :
            /\ q.seen = Cardinality(V)
            /\ q.picks[1] = <<q.cand>> \o Picked(s, {i \in 2..Len(s) : i \in V /\ s[i] # q.cand})
      BY <3>1, Zenon DEF SeenPart
    <3>3. V = DOMAIN s
      <4> HIDE DEF s
      <4>1. Cardinality(V) = Len(s) BY <1>3, <3>2, Zenon
      <4> QED BY <2>5, <4>1, AllSeen, Zenon
    <3>4. \A i \in 2..Len(s) : i \in DOMAIN s
      <4> HIDE DEF s
      <4> QED BY <2>5
    <3>5. {i \in 2..Len(s) : i \in V /\ s[i] # q.cand} = {i \in 2..Len(s) : s[i] # q.cand} BY <3>3, <3>4, Zenon
    <3> QED BY <3>2, <3>5, Zenon DEF Repointed
  <2>7. mem[q.target].st # "none" /\ q.cand \in Ctxs /\ (mem[q.target].st = "live" => q.rev <= mem[q.target].rev)
    BY <1>1, <1>2, Zenon DEF ReadsCurrent
  <2>8. ReadsCurrent(n, mem) BY <2>3, <2>6, <2>7, Zenon DEF ReadsCurrent, SameRevision
  <2> QED BY <1>1, <2>1, <2>3, <2>4, <2>8, QuietMoves, Zenon
<1>4. CASE Fail(r)
  <2>1. q.pc \notin Creating BY <1>1, Zenon DEF Creating
  <2> QED BY <1>1, <1>4, <2>1, FailMoves, Zenon
<1> QED BY <1>3, <1>4, Zenon DEF CountMemberships

(* resolve_context_selection for a whole selection.                        *)
LEMMA CompleteMoves ==
    ASSUME IInv, NEW r \in Reqs, SelectComplete(r)
    PROVE  StepFine
<1> DEFINE q == req[r]
           pc == IF q.op = "remember" THEN "commit" ELSE "save"
           n == Moved(q, pc)
<1>1. /\ CatalogueTypeOK /\ q \in Requests /\ RequestShape(q) /\ ReadsCurrent(q, mem) /\ q.pc = "complete"
      /\ UNCHANGED <<catalogue, issued>> /\ issued' \in 0..MaxIssued /\ UNCHANGED catalogue
  BY Zenon DEF IInv, TypeOK, SelectComplete, At
<1>2. CASE Goto(r, pc)
  <2>1. req' = [req EXCEPT ![r] = n] BY <1>2, Zenon DEF Goto, Become, Moved
  <2>2. pc \in Steps BY Zenon DEF Steps
  <2>3. (q.op = "remember" => pc = "commit") /\ (q.op # "remember" => pc = "save") BY Zenon
  <2> HIDE DEF pc
  <2>4. /\ n \in Requests /\ n.pc = pc /\ n.op = q.op /\ n.cand = q.cand /\ n.made = q.made
        /\ n.target = q.target /\ n.rev = q.rev /\ n.picks = q.picks
    BY <1>1, <2>2, MovedFacts, Zenon
  <2> HIDE DEF n
  <2>5. q.made \subseteq Chosen(q)
    <3>1. Len(q.picks) = 1 /\ q.made \subseteq Range(q.picks[1]) BY <1>1, Zenon DEF RequestShape
    <3>2. q.picks \in Seq(Seq(Ctxs)) BY <1>1, Zenon DEF Requests
    <3>3. 1 \in DOMAIN q.picks BY <3>1, <3>2
    <3> QED BY <3>1, <3>3, Zenon DEF Chosen
  <2>6. Chosen(n) = Chosen(q) BY <2>4, Zenon DEF Chosen
  <2>7. RequestShape(n) BY <1>1, <2>3, <2>4, <2>5, <2>6, Zenon DEF RequestShape, Resolving, Creating, Reading
  <2>8. ReadsCurrent(n, mem) BY <1>1, <2>3, <2>4, Zenon DEF ReadsCurrent, SameRevision
  <2> QED BY <1>1, <2>1, <2>4, <2>7, <2>8, QuietMoves, Zenon
<1>3. CASE Fail(r)
  <2>1. q.pc \notin Creating BY <1>1, Zenon DEF Creating
  <2> QED BY <1>1, <1>3, <2>1, FailMoves, Zenon
<1> QED BY <1>2, <1>3, Zenon DEF SelectComplete

(* update_memory_if_unmodified_with_metadata_contexts and                  *)
(* update_memory_with_metadata_contexts                                    *)
LEMMA SaveMoves ==
    ASSUME IInv, NEW r \in Reqs, SaveMemory(r)
    PROVE  StepFine
<1> DEFINE q == req[r]
           m == q.target
           s == q.picks[1]
<1>1. /\ CatalogueTypeOK /\ Good /\ q \in Requests /\ RequestShape(q) /\ ReadsCurrent(q, mem) /\ q.pc = "save"
      /\ issued' \in 0..MaxIssued
  BY Zenon DEF IInv, TypeOK, SaveMemory, At
<1>2. /\ Writable(m, q.by) /\ (q.op = "reviseScope" => mem[m].rev = q.rev)
      /\ MembershipsAllowed(s, Range(mem[m].ctxs), ScopeOf(s), q.by)
      /\ mem' = [mem EXCEPT ![m] = Replaced(mem[m], s, ScopeOf(s))]
      /\ req' = [req EXCEPT ![r] = Idle] /\ UNCHANGED <<ctx, enabled, required, default>>
  BY Zenon DEF SaveMemory, SaveAllowed, Become
<1>3. m \in Mems
  <2>1. q.op \in {"reviseScope", "reviseContexts"}
    <3>1. q.op \in Ops BY <1>1, Zenon DEF Requests
    <3>2. q.op # "remember" /\ q.op # "contextCreate" BY <1>1, Zenon DEF RequestShape, Creating
    <3> QED BY <3>1, <3>2, Zenon DEF Ops
  <2> QED BY <1>1, <2>1, Zenon DEF RequestShape
<1>4. CatalogueTypeOK' /\ Good' BY <1>1, <1>2, <1>3, ReplaceKeeps, Zenon
<1>5. /\ mem[m] \in Memories /\ mem[m].st = "live" /\ s \in Seq(Ctxs) /\ ScopeOf(s) \in Keys \cup {Unresolved}
  <2>1. s \in Seq(Ctxs) BY <1>2, AllowedFacts, Zenon
  <2>2. ScopeOf(s) \in Keys \cup {Unresolved} BY <1>1, <2>1, ScopeOfKey, Zenon
  <2> QED BY <1>1, <1>2, <1>3, <2>1, <2>2, Zenon DEF CatalogueTypeOK, Writable
<1> DEFINE row == Replaced(mem[m], s, ScopeOf(s))
<1>6. row.st = "live" /\ row.rev = mem[m].rev + 1 /\ row.ctxs = s BY <1>5, ReplacedFacts
<1>7. mem'[m] = row /\ \A k \in Mems : k # m => mem'[k] = mem[k] BY <1>1, <1>2, <1>3, Zenon DEF CatalogueTypeOK
<1> HIDE DEF row
<1>8. mem[m].rev < row.rev
  <2> DEFINE old == mem[m].rev
             new == row.rev
  <2>1. old \in Nat BY <1>5, Zenon DEF Memories
  <2>2. new = old + 1 BY <1>6, Zenon
  <2> HIDE DEF old, new
  <2>3. old < new BY <2>1, <2>2
  <2> QED BY <2>3, Zenon DEF old, new
<1>9. MemoriesAge BY <1>5, <1>6, <1>7, <1>8, Zenon DEF MemoriesAge
<1>10. \A p \in Principals : \A c \in q.made \ Idle.made : p = q.by => ~Removable(c, p)'
  <2> SUFFICES ASSUME NEW c \in q.made PROVE \A p \in Principals : ~Removable(c, p)'
    BY Zenon
  <2>1. c \in Range(mem'[m].ctxs) BY <1>1, <1>6, <1>7, Zenon DEF RequestShape
  <2> QED BY <1>3, <2>1, ReferencedStays, Zenon
<1>11. q.op = "reviseScope" => mem'[m].ctxs = Repointed(mem[m].ctxs, q.cand)
  BY <1>1, <1>2, <1>5, <1>6, <1>7, Zenon DEF ReadsCurrent, SameRevision
<1>12. Idle \in Requests /\ RequestShape(Idle) /\ ReadsCurrent(Idle, mem') BY IdleFacts, IdleShape, Zenon
<1> QED BY <1>1, <1>2, <1>4, <1>9, <1>10, <1>11, <1>12, RequestMoves, Zenon

(* context_create up to its creation.                                      *)
LEMMA CreatingMoves ==
    ASSUME IInv, NEW r \in Reqs, FindExact(r) \/ ConfirmDistinct(r) \/ MakeFails(r)
    PROVE  StepFine
<1> DEFINE q == req[r]
<1>1. /\ q \in Requests /\ RequestShape(q) /\ q.pc \in Creating /\ UNCHANGED catalogue /\ issued' \in 0..MaxIssued
      /\ \/ \E pc \in {"confirm", "make"} : Goto(r, pc)
         \/ Become(r, Idle)
  <2>1. UNCHANGED <<catalogue, issued>> BY Zenon DEF FindExact, ConfirmDistinct, MakeFails
  <2> QED BY <2>1, Zenon DEF IInv, TypeOK, FindExact, ConfirmDistinct, MakeFails, At, Creating
<1>2. q.made = {} /\ q.items # <<>> BY <1>1, Zenon DEF RequestShape
<1>3. ASSUME NEW pc \in {"confirm", "make"}, Goto(r, pc) PROVE StepFine
  <2> DEFINE n == Moved(q, pc)
  <2>1. req' = [req EXCEPT ![r] = n] BY <1>3, Zenon DEF Goto, Become, Moved
  <2>2. pc \in Steps BY <1>3, Zenon DEF Steps
  <2>3. /\ n \in Requests /\ n.pc = pc /\ n.op = q.op /\ n.items = q.items /\ n.made = q.made /\ n.target = q.target
    BY <1>1, <2>2, MovedFacts, Zenon
  <2> HIDE DEF n
  <2>4. RequestShape(n) BY <1>1, <1>2, <1>3, <2>3, Zenon DEF RequestShape, Resolving, Creating, Reading
  <2>5. ReadsCurrent(n, mem) BY <1>3, <2>3, Zenon DEF ReadsCurrent
  <2> QED BY <1>1, <2>1, <2>3, <2>4, <2>5, QuietMoves, Zenon
<1>4. CASE Become(r, Idle)
  <2>1. req' = [req EXCEPT ![r] = Idle] BY <1>4, Zenon DEF Become
  <2>2. q.made \subseteq Idle.made BY <1>2, Zenon
  <2> QED BY <1>1, <2>1, <2>2, IdleFacts, IdleShape, QuietMoves, Zenon
<1> QED BY <1>1, <1>3, <1>4, Zenon

(* create_context                                                          *)
LEMMA MakeMoves ==
    ASSUME IInv, NEW r \in Reqs, NEW c \in Ctxs, MakeContext(r, c)
    PROVE  StepFine
<1> DEFINE q == req[r]
           row == NewContext(q.by, q.kind, q.items[1], q.parent)
<1>1. q \in Requests /\ RequestShape(q) /\ q.pc = "make" BY Zenon DEF IInv, TypeOK, MakeContext, At
<1>2. q.items # <<>> /\ q.made = {} BY <1>1, Zenon DEF RequestShape, Creating
<1>3. q.by \in Principals /\ q.kind \in Kinds /\ q.parent \in Ctxs \cup {NoCtx} /\ q.items[1] \in Keys
  <2>1. q.items \in Seq(Keys) /\ q.by \in Principals /\ q.kind \in Kinds /\ q.parent \in Ctxs \cup {NoCtx}
    BY <1>1, Zenon DEF Requests
  <2> QED BY <1>2, <2>1
<1>4. row \in Rows /\ row.st = "active" /\ row.parent = q.parent
  <2> DEFINE by == q.by
             kind == q.kind
             key == q.items[1]
             parent == q.parent
  <2>1. by \in Principals /\ kind \in Kinds /\ parent \in Ctxs \cup {NoCtx} /\ key \in Keys BY <1>3, Zenon
  <2> HIDE DEF by, kind, key, parent
  <2>2. /\ NewContext(by, kind, key, parent) \in Rows /\ NewContext(by, kind, key, parent).st = "active"
        /\ NewContext(by, kind, key, parent).key = key /\ NewContext(by, kind, key, parent).parent = parent
    BY <2>1, NewContextFacts
  <2> QED BY <2>2, Zenon DEF by, kind, key, parent
<1>5. /\ Insert(c, row) /\ UNCHANGED <<enabled, required, default, mem, issued>>
      /\ q.parent # NoCtx => Exists(q.parent)
  BY Zenon DEF MakeContext, CreateAllowed, UseAllowed, Visible, NewContext
<1> HIDE DEF row
<1>6. CatalogueTypeOK' /\ Good' BY <1>4, <1>5, InsertKeeps, Zenon DEF IInv, TypeOK
<1>7. mem' = mem /\ issued' \in 0..MaxIssued BY <1>5, Zenon DEF IInv, TypeOK
<1>8. MemoriesAge BY <1>7, Zenon DEF MemoriesAge
<1>9. req' = [req EXCEPT ![r] = Idle] BY Zenon DEF MakeContext, Become
<1>10. Idle \in Requests /\ RequestShape(Idle) /\ ReadsCurrent(Idle, mem') BY IdleFacts, IdleShape, Zenon
<1>11. q.made \ Idle.made = {} BY <1>2, Zenon
<1> QED BY <1>6, <1>7, <1>8, <1>9, <1>10, <1>11, RequestMoves, Zenon

(* What a rollback does not remove it could not.                           *)
LEMMA RolledBackGone ==
    ASSUME CatalogueTypeOK, NEW c \in Ctxs, NEW p \in Principals, ctx' = RolledBack({c}, p),
           UNCHANGED <<enabled, required, default, mem>>
    PROVE  ~Removable(c, p)'
<1>1. CASE Removable(c, p)
  <2>1. ctx'[c] = Absent("deleted") BY <1>1, Zenon DEF RolledBack
  <2>2. Absent("deleted").st = "deleted" BY AbsentFacts, Zenon
  <2> QED BY <2>1, <2>2, Zenon DEF Removable, Exists
<1>2. CASE ~Removable(c, p)
  <2>1. ctx' = [d \in Ctxs |-> ctx[d]] BY <1>2, Zenon DEF RolledBack
  <2>2. ctx' = ctx BY <2>1, Zenon DEF CatalogueTypeOK
  <2> QED BY <1>2, <2>2, Zenon DEF Removable, Referenced, Exists
<1> QED BY <1>1, <1>2, Zenon

(* rollback_created_legacy_contexts                                        *)
LEMMA RollbackMoves ==
    ASSUME IInv, NEW r \in Reqs, NEW c \in Ctxs, Rollback(r, c)
    PROVE  StepFine
<1> DEFINE q == req[r]
           n == IF q.made = {c} THEN Idle ELSE Undone(q, c)
<1>1. CatalogueTypeOK /\ Good /\ q \in Requests /\ RequestShape(q) /\ q.pc = "rollback"
  BY Zenon DEF IInv, TypeOK, Rollback, At
<1>2. /\ ctx' = RolledBack({c}, q.by) /\ UNCHANGED <<enabled, required, default, mem, issued>>
      /\ req' = [req EXCEPT ![r] = n]
  BY Zenon DEF Rollback, Become, Undone
<1>3. q.by \in Principals BY <1>1, Zenon DEF Requests
<1>4. CatalogueTypeOK' /\ Good' BY <1>1, <1>2, <1>3, RolledBackKeeps, Zenon
<1>5. mem' = mem /\ issued' \in 0..MaxIssued BY <1>2, Zenon DEF IInv, TypeOK
<1>6. MemoriesAge BY <1>5, Zenon DEF MemoriesAge
<1>7. n \in Requests /\ RequestShape(n) /\ ReadsCurrent(n, mem') /\ q.made \ n.made \subseteq {c}
  <2>1. CASE q.made = {c} BY <2>1, IdleFacts, IdleShape, Zenon
  <2>2. CASE q.made # {c}
    <3> DEFINE u == Undone(q, c)
    <3>1. u \in Requests /\ u.pc = q.pc /\ u.op = q.op /\ u.made = q.made \ {c} /\ u.target = q.target
      BY <1>1, UndoneFacts, Zenon
    <3>2. n = u BY <2>2, Zenon
    <3> HIDE DEF n, u
    <3>3. RequestShape(u) BY <1>1, <3>1, Zenon DEF RequestShape, Resolving, Creating, Reading
    <3>4. ReadsCurrent(u, mem') BY <1>1, <3>1, Zenon DEF ReadsCurrent
    <3> QED BY <3>1, <3>2, <3>3, <3>4, Zenon
  <2> QED BY <2>1, <2>2, Zenon
<1> HIDE DEF n
<1>8. \A p \in Principals : p = q.by => ~Removable(c, p)' BY <1>1, <1>2, RolledBackGone, Zenon
<1>9. \A p \in Principals : \A d \in q.made \ n.made : p = q.by => ~Removable(d, p)' BY <1>7, <1>8, Zenon
<1>10. q.pc # "save" BY <1>1, Zenon
<1> QED BY <1>2, <1>4, <1>5, <1>6, <1>7, <1>9, <1>10, RequestMoves, Zenon

(* What a request step does.                                               *)
LEMMA RequestStepFine ==
    ASSUME IInv, RequestStep
    PROVE  StepFine
<1>1. PICK r \in Reqs :
        \/ FindScope(r) \/ CreateScopeFails(r) \/ RefindScope(r) \/ SelectScope(r)
        \/ \E c \in Ctxs : CreateScope(r, c) \/ MakeContext(r, c) \/ Rollback(r, c)
        \/ \E ms \in [DOMAIN req[r].picks -> Mems] : CommitRemember(r, ms)
        \/ CommitFails(r)
        \/ ReadMemory(r) \/ ReadMemberships(r) \/ CountMemberships(r) \/ SelectComplete(r)
        \/ SaveMemory(r) \/ SaveFails(r)
        \/ FindExact(r) \/ ConfirmDistinct(r) \/ MakeFails(r)
  BY Zenon DEF RequestStep
<1>2. CASE FindScope(r) \/ RefindScope(r) \/ CreateScopeFails(r) BY <1>2, FindMoves, Zenon
<1>3. CASE SelectScope(r) BY <1>3, SelectScopeMoves, Zenon
<1>4. ASSUME NEW c \in Ctxs, CreateScope(r, c) \/ MakeContext(r, c) \/ Rollback(r, c) PROVE StepFine
  BY <1>4, CreateScopeMoves, MakeMoves, RollbackMoves, Zenon
<1>5. ASSUME NEW ms \in [DOMAIN req[r].picks -> Mems], CommitRemember(r, ms) PROVE StepFine
  BY <1>5, CommitMoves, Zenon
<1>6. CASE CommitFails(r) \/ SaveFails(r) BY <1>6, RefusedMoves, Zenon
<1>7. CASE ReadMemory(r) BY <1>7, ReadMoves, Zenon
<1>8. CASE ReadMemberships(r) BY <1>8, MembersMoves, Zenon
<1>9. CASE CountMemberships(r) BY <1>9, CountMoves, Zenon
<1>10. CASE SelectComplete(r) BY <1>10, CompleteMoves, Zenon
<1>11. CASE SaveMemory(r) BY <1>11, SaveMoves, Zenon
<1>12. CASE FindExact(r) \/ ConfirmDistinct(r) \/ MakeFails(r) BY <1>12, CreatingMoves, Zenon
<1> QED BY <1>1, <1>2, <1>3, <1>4, <1>5, <1>6, <1>7, <1>8, <1>9, <1>10, <1>11, <1>12, Zenon

(* An issued request or change is counted.                                 *)
LEMMA IssueCounts ==
    ASSUME TypeOK, Issue
    PROVE  issued' \in 0..MaxIssued
<1>1. MaxIssued \in Nat BY RequestNames, Zenon
<1> QED BY <1>1 DEF TypeOK, Issue

(* remember, remember_many and handoff begin.                              *)
LEMMA StartRememberMoves ==
    ASSUME IInv, NEW r \in Reqs, NEW p \in Principals, 
           NEW keys \in Seq(Keys), keys # <<>>,
           StartRemember(r, p, keys)
    PROVE  StepFine
<1> DEFINE i == Idle
<1>1. keys \in Seq(Keys) /\ keys # <<>> BY Zenon
<1> DEFINE n == [i EXCEPT !.pc = "find", !.op = "remember", !.by = p, !.items = keys]
<1>2. req' = [req EXCEPT ![r] = n] /\ Issue /\ UNCHANGED catalogue /\ req[r].pc = "idle"
  BY Zenon DEF StartRemember, Become, At
<1>3. i \in Requests /\ i.made = {} BY IdleFacts, Zenon
<1> HIDE DEF i
<1>4. n \in Requests BY <1>1, <1>3 DEF Requests, Steps, Ops
<1>5. n.pc = "find" BY <1>3, Zenon DEF Requests
<1>6. n.op = "remember" BY <1>3, Zenon DEF Requests
<1>7. n.made = i.made BY <1>3, Zenon DEF Requests
<1>8. n.items = keys BY <1>3, Zenon DEF Requests
<1> HIDE DEF n
<1>9. RequestShape(n) BY <1>1, <1>3, <1>5, <1>6, <1>7, <1>8, Zenon DEF RequestShape, Resolving, Creating, Reading
<1>10. ReadsCurrent(n, mem) BY <1>5, <1>6, <1>7, <1>8, Zenon DEF ReadsCurrent
<1>11. req[r].made = {} BY <1>2, Zenon DEF IInv, RequestShape
<1>12. issued' \in 0..MaxIssued BY <1>2, IssueCounts, Zenon DEF IInv
<1> QED BY <1>2, <1>4, <1>9, <1>10, <1>11, <1>12, QuietMoves, Zenon

(* revise begins with a legacy scope.                                      *)
LEMMA StartReviseScopeMoves ==
    ASSUME IInv, NEW r \in Reqs, NEW p \in Principals, 
           NEW m \in Mems, NEW key \in Keys,
           StartReviseScope(r, p, m, key)
    PROVE  StepFine
<1> DEFINE one == <<key>>
           i == Idle
<1>1. one \in Seq(Keys) /\ one # <<>> OBVIOUS
<1> DEFINE n == [i EXCEPT !.pc = "find", !.op = "reviseScope", !.by = p, !.items = one, !.target = m]
<1>2. req' = [req EXCEPT ![r] = n] /\ Issue /\ UNCHANGED catalogue /\ req[r].pc = "idle"
  BY Zenon DEF StartReviseScope, Become, At
<1>3. i \in Requests /\ i.made = {} /\ i.picks = <<>> BY IdleFacts, Zenon
<1> HIDE DEF i, one
<1>4. n \in Requests BY <1>1, <1>3 DEF Requests, Steps, Ops
<1>5. n.pc = "find" BY <1>3, Zenon DEF Requests
<1>6. n.op = "reviseScope" BY <1>3, Zenon DEF Requests
<1>7. n.made = i.made BY <1>3, Zenon DEF Requests
<1>8. n.items = one BY <1>3, Zenon DEF Requests
<1>9. n.target = m BY <1>3, Zenon DEF Requests
<1>10. n.picks = i.picks BY <1>3, Zenon DEF Requests
<1> HIDE DEF n
<1>11. RequestShape(n) BY <1>1, <1>3, <1>5, <1>6, <1>7, <1>8, <1>9, <1>10, Zenon DEF RequestShape, Resolving, Creating, Reading
<1>12. ReadsCurrent(n, mem) BY <1>5, <1>6, <1>7, <1>8, <1>9, Zenon DEF ReadsCurrent
<1>13. req[r].made = {} BY <1>2, Zenon DEF IInv, RequestShape
<1>14. issued' \in 0..MaxIssued BY <1>2, IssueCounts, Zenon DEF IInv
<1> QED BY <1>2, <1>4, <1>11, <1>12, <1>13, <1>14, QuietMoves, Zenon

(* remember begins with an envelope.                                       *)
LEMMA StartRememberContextsMoves ==
    ASSUME IInv, NEW r \in Reqs, NEW p \in Principals, NEW s \in Seq(Ctxs), StartRememberContexts(r, p, s)
    PROVE  StepFine
<1> DEFINE one == <<s>>
           i == Idle
<1>1. one \in Seq(Seq(Ctxs)) /\ Len(one) = 1 OBVIOUS
<1> DEFINE n == [i EXCEPT !.pc = "complete", !.op = "remember", !.by = p, !.picks = one]
<1>2. req' = [req EXCEPT ![r] = n] /\ Issue /\ UNCHANGED catalogue /\ req[r].pc = "idle"
  BY Zenon DEF StartRememberContexts, Become, At
<1>3. i \in Requests /\ i.made = {} BY IdleFacts, Zenon
<1> HIDE DEF i, one
<1>4. n \in Requests BY <1>1, <1>3 DEF Requests, Steps, Ops
<1>5. n.pc = "complete" BY <1>3, Zenon DEF Requests
<1>6. n.op = "remember" BY <1>3, Zenon DEF Requests
<1>7. n.made = i.made BY <1>3, Zenon DEF Requests
<1>8. n.picks = one BY <1>3, Zenon DEF Requests
<1> HIDE DEF n
<1>9. RequestShape(n) BY <1>1, <1>3, <1>5, <1>6, <1>7, <1>8, Zenon DEF RequestShape, Resolving, Creating, Reading
<1>10. ReadsCurrent(n, mem) BY <1>5, <1>6, <1>7, <1>8, Zenon DEF ReadsCurrent
<1>11. req[r].made = {} BY <1>2, Zenon DEF IInv, RequestShape
<1>12. issued' \in 0..MaxIssued BY <1>2, IssueCounts, Zenon DEF IInv
<1> QED BY <1>2, <1>4, <1>9, <1>10, <1>11, <1>12, QuietMoves, Zenon

(* revise begins with an envelope.                                         *)
LEMMA StartReviseContextsMoves ==
    ASSUME IInv, NEW r \in Reqs, NEW p \in Principals, 
           NEW m \in Mems, NEW s \in Seq(Ctxs),
           StartReviseContexts(r, p, m, s)
    PROVE  StepFine
<1> DEFINE one == <<s>>
           i == Idle
<1>1. one \in Seq(Seq(Ctxs)) /\ Len(one) = 1 OBVIOUS
<1> DEFINE n == [i EXCEPT !.pc = "complete", !.op = "reviseContexts", !.by = p, !.target = m, !.picks = one]
<1>2. req' = [req EXCEPT ![r] = n] /\ Issue /\ UNCHANGED catalogue /\ req[r].pc = "idle"
  BY Zenon DEF StartReviseContexts, Become, At
<1>3. i \in Requests /\ i.made = {} BY IdleFacts, Zenon
<1> HIDE DEF i, one
<1>4. n \in Requests BY <1>1, <1>3 DEF Requests, Steps, Ops
<1>5. n.pc = "complete" BY <1>3, Zenon DEF Requests
<1>6. n.op = "reviseContexts" BY <1>3, Zenon DEF Requests
<1>7. n.made = i.made BY <1>3, Zenon DEF Requests
<1>8. n.picks = one BY <1>3, Zenon DEF Requests
<1>9. n.target = m BY <1>3, Zenon DEF Requests
<1> HIDE DEF n
<1>10. RequestShape(n) BY <1>1, <1>3, <1>5, <1>6, <1>7, <1>8, <1>9, Zenon DEF RequestShape, Resolving, Creating, Reading
<1>11. ReadsCurrent(n, mem) BY <1>5, <1>6, <1>7, <1>8, <1>9, Zenon DEF ReadsCurrent
<1>12. req[r].made = {} BY <1>2, Zenon DEF IInv, RequestShape
<1>13. issued' \in 0..MaxIssued BY <1>2, IssueCounts, Zenon DEF IInv
<1> QED BY <1>2, <1>4, <1>10, <1>11, <1>12, <1>13, QuietMoves, Zenon

(* context_create begins.                                                  *)
LEMMA StartContextCreateMoves ==
    ASSUME IInv, NEW r \in Reqs, NEW p \in Principals, 
           NEW kind \in Kinds, NEW key \in Keys, NEW parent \in Ctxs \cup {NoCtx}, NEW confirmed \in SUBSET Ctxs,
           StartContextCreate(r, p, kind, key, parent, confirmed)
    PROVE  StepFine
<1> DEFINE one == <<key>>
           i == Idle
<1>1. one \in Seq(Keys) /\ one # <<>> OBVIOUS
<1> DEFINE n == [i EXCEPT !.pc = "exact", !.op = "contextCreate", !.by = p, !.kind = kind, !.items = one, !.parent = parent, !.confirmed = confirmed]
<1>2. req' = [req EXCEPT ![r] = n] /\ Issue /\ UNCHANGED catalogue /\ req[r].pc = "idle"
  BY Zenon DEF StartContextCreate, Become, At
<1>3. i \in Requests /\ i.made = {} BY IdleFacts, Zenon
<1> HIDE DEF i, one
<1>4. n \in Requests BY <1>1, <1>3 DEF Requests, Steps, Ops
<1>5. n.pc = "exact" BY <1>3, Zenon DEF Requests
<1>6. n.op = "contextCreate" BY <1>3, Zenon DEF Requests
<1>7. n.made = i.made BY <1>3, Zenon DEF Requests
<1>8. n.items = one BY <1>3, Zenon DEF Requests
<1> HIDE DEF n
<1>9. RequestShape(n) BY <1>1, <1>3, <1>5, <1>6, <1>7, <1>8, Zenon DEF RequestShape, Resolving, Creating, Reading
<1>10. ReadsCurrent(n, mem) BY <1>5, <1>6, <1>7, <1>8, Zenon DEF ReadsCurrent
<1>11. req[r].made = {} BY <1>2, Zenon DEF IInv, RequestShape
<1>12. issued' \in 0..MaxIssued BY <1>2, IssueCounts, Zenon DEF IInv
<1> QED BY <1>2, <1>4, <1>9, <1>10, <1>11, <1>12, QuietMoves, Zenon

(* What a caller selects is a sequence of contexts.                        *)
LEMMA SelectionFacts ==
    Selections \subseteq Seq(Ctxs)
<1> SUFFICES ASSUME NEW s \in Selections PROVE s \in Seq(Ctxs)
  BY Zenon
<1>1. PICK n \in 0..MaxContexts : s \in [1..n -> {c \in Ctxs : Exists(c)}] BY Zenon DEF Selections
<1>2. n \in Nat BY RequestNames
<1>3. s \in [1..n -> Ctxs] BY <1>1, Zenon
<1> QED BY <1>2, <1>3

(* What a request that begins does.                                        *)
LEMMA StartStepFine ==
    ASSUME IInv, StartStep
    PROVE  StepFine
<1>1. PICK r \in Reqs, p \in Principals :
        \/ \E n \in 1..MaxItems : \E keys \in [1..n -> Keys] : StartRemember(r, p, keys)
        \/ \E s \in Selections : StartRememberContexts(r, p, s)
        \/ \E m \in {n \in Mems : mem[n].st = "live"} :
              \/ \E key \in Keys : StartReviseScope(r, p, m, key)
              \/ \E s \in Selections : StartReviseContexts(r, p, m, s)
        \/ \E kind \in Kinds, key \in Keys, parent \in {c \in Ctxs : Exists(c)} \cup {NoCtx} :
              \E confirmed \in {{}, FuzzyCandidates(p, kind, key)} :
                  StartContextCreate(r, p, kind, key, parent, confirmed)
  BY Zenon DEF StartStep
<1>2. ASSUME NEW n \in 1..MaxItems, NEW keys \in [1..n -> Keys], StartRemember(r, p, keys) PROVE StepFine
  <2>1. n \in Nat /\ n # 0 BY RequestNames
  <2>2. keys \in Seq(Keys) /\ keys # <<>> BY <2>1
  <2> QED BY <1>2, <2>2, StartRememberMoves, Zenon
<1>3. ASSUME NEW s \in Selections, StartRememberContexts(r, p, s) PROVE StepFine
  BY <1>3, SelectionFacts, StartRememberContextsMoves, Zenon
<1>4. ASSUME NEW m \in Mems, NEW key \in Keys, StartReviseScope(r, p, m, key) PROVE StepFine
  BY <1>4, StartReviseScopeMoves, Zenon
<1>5. ASSUME NEW m \in Mems, NEW s \in Selections, StartReviseContexts(r, p, m, s) PROVE StepFine
  BY <1>5, SelectionFacts, StartReviseContextsMoves, Zenon
<1>6. ASSUME NEW kind \in Kinds, NEW key \in Keys, NEW parent \in {c \in Ctxs : Exists(c)} \cup {NoCtx},
             NEW confirmed \in {{}, FuzzyCandidates(p, kind, key)},
             StartContextCreate(r, p, kind, key, parent, confirmed)
      PROVE  StepFine
  <2>1. confirmed \in SUBSET Ctxs BY <1>6, Zenon DEF FuzzyCandidates
  <2>2. parent \in Ctxs \cup {NoCtx} BY <1>6, Zenon
  <2> QED BY <1>6, <2>1, <2>2, StartContextCreateMoves, Zenon
<1> QED BY <1>1, <1>2, <1>3, <1>4, <1>5, <1>6, Zenon

(* A replacement is a later revision.                                      *)
LEMMA RevisionGrows ==
    ASSUME NEW r \in Memories, NEW s \in Seq(Ctxs), NEW scope \in Keys \cup {Unresolved}
    PROVE  Replaced(r, s, scope).st = r.st /\ r.rev < Replaced(r, s, scope).rev
<1>1. Replaced(r, s, scope).st = r.st /\ Replaced(r, s, scope).rev = r.rev + 1 BY ReplacedFacts
<1> DEFINE old == r.rev
           new == Replaced(r, s, scope).rev
<1>2. old \in Nat /\ new = old + 1 BY <1>1, Zenon DEF Memories
<1> HIDE DEF old, new
<1>3. old < new BY <1>2
<1> QED BY <1>1, <1>3, Zenon DEF old, new

(* No change of the catalogue or of a memory takes a memory back.          *)
LEMMA ChangesAge ==
    ASSUME CatalogueTypeOK, NEW p \in Principals,
           \/ \E m \in Mems : MemoryChange(p, m)
           \/ \E from \in Keys \cup {Unresolved}, key \in Keys, c \in Ctxs : ReassignScope(p, from, key, c)
    PROVE  MemoriesAge
<1>1. ASSUME NEW m \in Mems, DeleteMemory(m, p) PROVE MemoriesAge
  <2>1. mem' = [mem EXCEPT ![m] = NoMemory("gone")] BY <1>1, Zenon DEF DeleteMemory
  <2>2. NoMemory("gone").st = "gone" BY Zenon DEF NoMemory
  <2>3. mem'[m].st = "gone" /\ \A k \in Mems : k # m => mem'[k] = mem[k]
    BY <2>1, <2>2, Zenon DEF CatalogueTypeOK
  <2> QED BY <2>3, Zenon DEF MemoriesAge
<1>2. ASSUME NEW m \in Mems, NEW s, ReplaceMemoryContexts(m, s, p) PROVE MemoriesAge
  <2>1. /\ mem' = [mem EXCEPT ![m] = Replaced(mem[m], s, ScopeOf(s))] /\ mem[m].st = "live"
        /\ MembershipsAllowed(s, Range(mem[m].ctxs), ScopeOf(s), p)
    BY <1>2, Zenon DEF ReplaceMemoryContexts, Writable
  <2>2. s \in Seq(Ctxs) BY <2>1, AllowedFacts, Zenon
  <2>3. ScopeOf(s) \in Keys \cup {Unresolved} BY <2>2, ScopeOfKey, Zenon
  <2>4. mem[m] \in Memories BY <1>2, Zenon DEF CatalogueTypeOK
  <2> DEFINE row == Replaced(mem[m], s, ScopeOf(s))
  <2>5. row.st = mem[m].st /\ mem[m].rev < row.rev BY <2>2, <2>3, <2>4, RevisionGrows, Zenon
  <2>6. mem'[m] = row /\ \A k \in Mems : k # m => mem'[k] = mem[k] BY <1>2, <2>1, Zenon DEF CatalogueTypeOK
  <2> HIDE DEF row
  <2> QED BY <2>1, <2>5, <2>6, Zenon DEF MemoriesAge
<1>3. ASSUME NEW from \in Keys \cup {Unresolved}, NEW key \in Keys, NEW c \in Ctxs, ReassignScope(p, from, key, c)
      PROVE  MemoriesAge
  <2> DEFINE M == {m \in Mems : Writable(m, p) /\ mem[m].scope = from}
             row(m) == Replaced(mem[m], Repointed(mem[m].ctxs, c), ctx'[c].key)
  <2>1. mem' = [m \in Mems |-> IF m \in M THEN row(m) ELSE mem[m]] BY <1>3, Zenon DEF ReassignScope
  <2>2. ctx'[c].key \in Keys \cup {Unresolved}
    <3>1. ctx' \in [Ctxs -> Rows] BY <1>3, ReassignTargetFacts, Zenon DEF ReassignScope
    <3> QED BY <1>3, <3>1, Zenon DEF Rows
  <2>3. ASSUME NEW m \in M PROVE mem[m].st = "live" /\ row(m).st = "live" /\ mem[m].rev < row(m).rev
    <3>1. mem[m] \in Memories /\ mem[m].st = "live" BY <2>3, Zenon DEF CatalogueTypeOK, Writable
    <3>2. mem[m].ctxs \in Seq(Ctxs) BY <3>1, Zenon DEF Memories
    <3>3. Repointed(mem[m].ctxs, c) \in Seq(Ctxs) BY <1>3, <3>2, RepointedSeq, Zenon
    <3>4. row(m).st = mem[m].st /\ mem[m].rev < row(m).rev BY <2>2, <3>1, <3>3, RevisionGrows, Zenon
    <3> QED BY <3>1, <3>4, Zenon
  <2> HIDE DEF row, M
  <2>4. \A m \in Mems : mem'[m] = mem[m] \/ (m \in M /\ mem'[m] = row(m)) BY <2>1, Zenon
  <2> QED BY <2>3, <2>4, Zenon DEF MemoriesAge
<1> QED BY <1>1, <1>2, <1>3, Zenon DEF MemoryChange

(* What administration and the operator do.                                *)
LEMMA ChangeStepFine ==
    ASSUME IInv, ChangeStep
    PROVE  StepFine
<1>1. CatalogueTypeOK /\ Good BY Zenon DEF IInv, TypeOK
<1>2. issued' \in 0..MaxIssued /\ req' = req BY IssueCounts, Zenon DEF ChangeStep, IInv
<1>3. \/ \E p \in Principals : (\E c \in Ctxs : ContextChange(p, c)) \/ (\E m \in Mems : MemoryChange(p, m))
      \/ OperatorChange
  BY Zenon DEF ChangeStep
<1>4. CatalogueTypeOK' /\ Good' /\ MemoriesAge
  <2>1. ASSUME NEW p \in Principals, NEW c \in Ctxs,
               \/ \E parent \in Ctxs \cup {NoCtx} : SetParent(c, parent, p)
               \/ \E st \in {"active", "archived"} : SetLifecycle(c, st, p)
               \/ \E q \in Principals : GrantUse(c, q, p) \/ RevokeUse(c, q, p)
               \/ \E G \in SUBSET Principals : ReplaceGrants(c, G, p)
               \/ \E A \in SUBSET Keys : UpdateDefinition(c, A, p)
        PROVE  CatalogueTypeOK' /\ Good' /\ MemoriesAge
    <3>1. mem' = mem
      BY <2>1, Zenon DEF SetParent, SetLifecycle, GrantUse, RevokeUse, ReplaceGrants, UpdateDefinition
    <3>2. MemoriesAge BY <3>1, Zenon DEF MemoriesAge
    <3>3. {} \in SUBSET Principals BY Zenon
    <3> QED BY <1>1, <2>1, <3>2, <3>3, SetParentKeeps, SetLifecycleKeeps, GrantsKeep, UpdateDefinitionKeeps, Zenon
  <2>2. ASSUME NEW p \in Principals, NEW c \in Ctxs, NEW key \in Keys, NEW parentKey \in Keys, NEW A \in SUBSET Keys,
               NEW parent \in Ctxs \cup {NoCtx}, RegisterScope(p, key, c, A, parent, parentKey)
        PROVE  CatalogueTypeOK' /\ Good' /\ MemoriesAge
    <3>1. mem' = mem BY <2>2, Zenon DEF RegisterScope
    <3>2. MemoriesAge BY <3>1, Zenon DEF MemoriesAge
    <3> QED BY <1>1, <2>2, <3>2, RegisterKeeps, Zenon
  <2>3. ASSUME NEW p \in Principals, NEW c \in Ctxs, NEW from \in Keys \cup {Unresolved}, NEW key \in Keys,
               ReassignScope(p, from, key, c)
        PROVE  CatalogueTypeOK' /\ Good' /\ MemoriesAge
    BY <1>1, <2>3, ReassignKeeps, ChangesAge, Zenon
  <2>4. ASSUME NEW p \in Principals, NEW m \in Mems, MemoryChange(p, m)
        PROVE  CatalogueTypeOK' /\ Good' /\ MemoriesAge
    <3>1. MemoriesAge BY <1>1, <2>4, ChangesAge, Zenon
    <3>2. CASE DeleteMemory(m, p) BY <1>1, <2>4, <3>1, <3>2, DeleteKeeps, Zenon
    <3>3. ASSUME NEW s, ReplaceMemoryContexts(m, s, p) PROVE CatalogueTypeOK' /\ Good'
      <4>1. /\ MembershipsAllowed(s, Range(mem[m].ctxs), ScopeOf(s), p)
            /\ mem' = [mem EXCEPT ![m] = Replaced(mem[m], s, ScopeOf(s))]
            /\ UNCHANGED <<ctx, enabled, required, default>>
        BY <3>3, Zenon DEF ReplaceMemoryContexts
      <4> QED BY <1>1, <2>4, <4>1, ReplaceKeeps, Zenon
    <3> QED BY <2>4, <3>1, <3>2, <3>3, Zenon DEF MemoryChange
  <2>5. ASSUME OperatorChange PROVE CatalogueTypeOK' /\ Good' /\ MemoriesAge
    <3>1. mem' = mem BY <2>5, Zenon DEF OperatorChange, UpsertKind, UpsertKindPolicy
    <3>2. MemoriesAge BY <3>1, Zenon DEF MemoriesAge
    <3>3. PICK kind \in Kinds, c \in Ctxs \cup {NoCtx}, b \in BOOLEAN : UpsertKind(kind, b) \/ UpsertKindPolicy(kind, c, b)
      BY <2>5, Zenon DEF OperatorChange
    <3> QED BY <1>1, <3>2, <3>3, OperatorKeeps, Zenon
  <2> QED BY <1>3, <2>1, <2>2, <2>3, <2>4, <2>5, Zenon DEF ContextChange
<1>5. ASSUME NEW r \in Reqs PROVE RequestShape(req[r]) /\ ReadsCurrent(req[r], mem')
  <2>1. req[r] \in Requests /\ RequestShape(req[r]) /\ ReadsCurrent(req[r], mem) BY <1>5, Zenon DEF IInv, TypeOK
  <2>2. ReadsCurrent(req[r], mem') BY <1>1, <1>4, <2>1, ReadsStayCurrent, Zenon
  <2> QED BY <2>1, <2>2, Zenon
<1>6. \A r \in Reqs : RequestShape(req'[r]) /\ ReadsCurrent(req'[r], mem') BY <1>2, <1>5, Zenon
<1>7. \A r \in Reqs : RequestShape(req[r])' /\ ReadsCurrent(req[r], mem)'
  BY <1>6, Zenon DEF RequestShape, ReadsCurrent, SameRevision, SeenPart, Chosen
<1>8. IInv' BY <1>2, <1>4, <1>7, Zenon DEF IInv, TypeOK
<1>9. LeavesNothing BY <1>2, Zenon DEF LeavesNothing
<1>10. \A r \in Reqs : RevisionPreserves(r) BY <1>2, Zenon DEF RevisionPreserves
<1> QED BY <1>8, <1>9, <1>10, Zenon DEF StepFine

(* Every step keeps the invariant and its promises.                        *)
LEMMA NextFine ==
    ASSUME IInv, [Next]_vars
    PROVE  StepFine
<1>1. CASE Next BY <1>1, StartStepFine, RequestStepFine, ChangeStepFine, Zenon DEF Next
<1>2. CASE UNCHANGED vars
  <2>1. UNCHANGED catalogue /\ issued' = issued /\ req' = req /\ mem' = mem BY <1>2, Zenon DEF vars, catalogue
  <2>2. CatalogueTypeOK' /\ Good' BY <2>1, CatalogueStays, Zenon DEF IInv, TypeOK
  <2>3. \A r \in Reqs : RequestShape(req'[r]) /\ ReadsCurrent(req'[r], mem') BY <2>1, Zenon DEF IInv
  <2>4. \A r \in Reqs : RequestShape(req[r])' /\ ReadsCurrent(req[r], mem)'
    BY <2>3, Zenon DEF RequestShape, ReadsCurrent, SameRevision, SeenPart, Chosen
  <2>5. IInv' BY <2>1, <2>2, <2>4, Zenon DEF IInv, TypeOK
  <2>6. LeavesNothing BY <2>1, Zenon DEF LeavesNothing
  <2>7. \A r \in Reqs : RevisionPreserves(r) BY <2>1, Zenon DEF RevisionPreserves
  <2> QED BY <2>5, <2>6, <2>7, Zenon DEF StepFine
<1> QED BY <1>1, <1>2, Zenon

(* The catalogue at the start.                                             *)
LEMMA InitGood ==
    ASSUME CatalogueInit
    PROVE  CatalogueTypeOK /\ Good
<1>1. PICK c \in Ctxs, p \in Principals, kind \in Kinds \ {Custom}, key \in Keys, M \in SUBSET Mems :
        /\ Cardinality(M) <= 1
        /\ ctx = [d \in Ctxs |->
                    IF d = c THEN [Draft(p, kind, key, NoCtx, FALSE) EXCEPT !.grants = Principals]
                    ELSE Absent("none")]
        /\ enabled = Kinds /\ required = {}
        /\ default = [k \in Kinds |-> NoCtx]
        /\ \E q \in Principals :
              mem = [m \in Mems |-> IF m \in M THEN Stored(q, <<c>>, key) ELSE NoMemory("none")]
  BY Zenon DEF CatalogueInit
<1> DEFINE new == NewContext(p, kind, key, NoCtx)
           row == [new EXCEPT !.grants = Principals]
<1>2. /\ new \in Rows /\ new.st = "active" /\ new.key = key /\ new.parent = NoCtx
  <2>1. kind \in Kinds /\ NoCtx \in Ctxs \cup {NoCtx} BY Zenon
  <2> QED BY <2>1, NewContextFacts
<1>3. ctx = [d \in Ctxs |-> IF d = c THEN row ELSE Absent("none")] BY <1>1, Zenon DEF NewContext
<1> HIDE DEF new
<1>4. Principals \in SUBSET Principals BY Zenon
<1>5. row \in Rows /\ row.st = new.st /\ row.key = new.key /\ row.parent = new.parent BY <1>2, <1>4, GrantsWritten, Zenon
<1> HIDE DEF row
<1>6. Absent("none") \in Rows /\ Absent("none").st = "none" BY AbsentFacts, Zenon
<1>7. ctx \in [Ctxs -> Rows] /\ ctx[c] = row /\ \A d \in Ctxs : d # c => ~Exists(d)
  BY <1>3, <1>5, <1>6, Zenon DEF Exists
<1>8. Exists(c) /\ ctx[c].key = key /\ \A d \in Ctxs : Exists(d) => ctx[d].parent = NoCtx
  BY <1>2, <1>5, <1>7, Zenon DEF Exists
<1>9. PICK q \in Principals : mem = [m \in Mems |-> IF m \in M THEN Stored(q, <<c>>, key) ELSE NoMemory("none")]
  BY <1>1, Zenon
<1> DEFINE one == <<c>>
<1>10. one \in Seq(Ctxs) /\ one # <<>> /\ one[1] = c /\ \A d \in Range(one) : d = c BY DEF Range
<1> HIDE DEF one
<1>11. /\ Stored(q, one, key) \in Memories /\ Stored(q, one, key).ctxs = one /\ Stored(q, one, key).scope = key
  <2>1. key \in Keys \cup {Unresolved} BY Zenon
  <2> QED BY <1>10, <2>1, StoredFacts
<1>12. NoMemory("none") \in Memories /\ NoMemory("none").st = "none" /\ NoMemory("none").ctxs = <<>>
  <2>1. (CHOOSE a \in Principals : TRUE) \in Principals BY CatalogueNames, Zenon
  <2> QED BY <2>1 DEF NoMemory, Memories
<1>13. \A m \in Mems : mem[m] = Stored(q, one, key) \/ mem[m] = NoMemory("none") BY <1>9, Zenon DEF one
<1>14. mem \in [Mems -> Memories]
  <2>1. \A m \in Mems : mem[m] \in Memories BY <1>11, <1>12, <1>13, Zenon
  <2> QED BY <1>9, <2>1, Zenon
<1>15. default \in [Kinds -> Ctxs \cup {NoCtx}] /\ \A k \in Kinds : default[k] = NoCtx BY <1>1, Zenon
<1>16. CatalogueTypeOK BY <1>1, <1>7, <1>14, <1>15, Zenon DEF CatalogueTypeOK
<1>17. ScopeCacheExact
  <2>1. ScopeOf(one) = key BY <1>8, <1>10, Zenon DEF ScopeOf
  <2>2. NoMemory("none").st # "live" BY <1>12, Zenon
  <2> QED BY <1>11, <1>13, <2>1, <2>2, Zenon DEF ScopeCacheExact
<1>18. ReferencesExist
  <2>1. Range(<<>>) = {} BY DEF Range
  <2>2. \A m \in Mems : \A d \in Range(mem[m].ctxs) : Exists(d) BY <1>8, <1>10, <1>11, <1>12, <1>13, <2>1, Zenon
  <2> QED BY <1>8, <1>15, <2>2, Zenon DEF ReferencesExist
<1>19. HierarchyAcyclic
  <2> SUFFICES ASSUME NEW S \in (SUBSET Ctxs) \ {{}} PROVE \E d \in S : ~Exists(d) \/ ctx[d].parent \notin S
    BY Zenon DEF HierarchyAcyclic
  <2>1. PICK d \in S : d \in Ctxs BY Zenon
  <2>2. NoCtx \notin S BY CatalogueNames, Zenon
  <2> QED BY <1>8, <2>1, <2>2, Zenon
<1> QED BY <1>16, <1>17, <1>18, <1>19, Zenon DEF Good

(* The invariant holds at the start.                                       *)
LEMMA InitIInv ==
    ASSUME Init
    PROVE  IInv
<1>1. CatalogueTypeOK /\ Good BY InitGood, Zenon DEF Init
<1>2. issued \in 0..MaxIssued
  <2>1. MaxIssued \in Nat /\ issued = 0 BY RequestNames, Zenon DEF Init
  <2> QED BY <2>1
<1>3. \A r \in Reqs : req[r] = Idle BY Zenon DEF Init
<1>4. req \in [Reqs -> Requests] BY IdleFacts, Zenon DEF Init
<1> QED BY <1>1, <1>2, <1>3, <1>4, IdleShape, Zenon DEF IInv, TypeOK

-----------------------------------------------------------------------------
(* The invariant, and what every step promises, of every behaviour.        *)
LEMMA AlwaysFine ==
    Spec => []IInv /\ [][LeavesNothing]_vars /\ [][\A r \in Reqs : RevisionPreserves(r)]_vars
<1>1. Init => IInv BY InitIInv, Zenon
<1>2. IInv /\ [Next]_vars => IInv' BY NextFine, Zenon DEF StepFine
<1>3. IInv /\ [Next]_vars => LeavesNothing BY NextFine, Zenon DEF StepFine
<1>4. IInv /\ [Next]_vars => \A r \in Reqs : RevisionPreserves(r) BY NextFine, Zenon DEF StepFine
<1> QED BY <1>1, <1>2, <1>3, <1>4, PTL DEF Spec

(* The rows of the catalogue, the memories and the requests keep their     *)
(* form.                                                                   *)
THEOREM TypeCorrect == Spec => []TypeOK
<1>1. IInv => TypeOK BY Zenon DEF IInv
<1> QED BY <1>1, AlwaysFine, PTL

(* The scope cache of a live memory is the key of its first membership,    *)
(* whatever requests, administration and rollbacks do in between           *)
(* (insert_memory_contexts, reassign_legacy_scope).                        *)
THEOREM ScopesAreExact == Spec => []ScopeCacheExact
<1>1. IInv => ScopeCacheExact BY Zenon DEF IInv, Good
<1> QED BY <1>1, AlwaysFine, PTL

(* No membership, parent or policy default refers to a context that a      *)
(* rollback removed (rollback_unreferenced_legacy_context).                *)
THEOREM NothingDangles == Spec => []ReferencesExist
<1>1. IInv => ReferencesExist BY Zenon DEF IInv, Good
<1> QED BY <1>1, AlwaysFine, PTL

(* Reparenting, registration and creation never close a cycle of parents   *)
(* (set_context_parent, register_legacy_scope_context, create_context).    *)
THEOREM HierarchyStaysAcyclic == Spec => []HierarchyAcyclic
<1>1. IInv => HierarchyAcyclic BY Zenon DEF IInv, Good
<1> QED BY <1>1, AlwaysFine, PTL

(* A request lets go of a private context it made only when a memory is in *)
(* it, or after rollback_created_legacy_contexts found nothing to remove.  *)
THEOREM RequestsCleanUp == Spec => NothingLeftBehind
<1>1. [][LeavesNothing]_vars => NothingLeftBehind
  <2>1. LeavesNothing => \A r \in Reqs, p \in Principals : \A c \in req[r].made \ req'[r].made :
                            p = req[r].by => ~Removable(c, p)'
    BY Zenon DEF LeavesNothing
  <2> QED BY <2>1, PTL DEF NothingLeftBehind
<1> QED BY <1>1, AlwaysFine, PTL

(* The optimistic update of revise with a legacy scope replaces exactly    *)
(* the primary membership of the memory it commits to                      *)
(* (update_memory_if_unmodified_with_metadata_contexts).                   *)
THEOREM RevisionsPreserve == Spec => LegacyRevisePreserves
<1>1. [][\A r \in Reqs : RevisionPreserves(r)]_vars => LegacyRevisePreserves
  <2>1. (\A r \in Reqs : RevisionPreserves(r)) =>
          \A r \in Reqs :
             LET m == req[r].target
             IN  req[r].op = "reviseScope" /\ req[r].pc = "save" /\ req'[r].pc = "idle" /\ mem' # mem =>
                     mem'[m].ctxs = Repointed(mem[m].ctxs, req[r].cand)
    BY Zenon DEF RevisionPreserves
  <2> QED BY <2>1, PTL DEF LegacyRevisePreserves
<1> QED BY <1>1, AlwaysFine, PTL
=============================================================================
