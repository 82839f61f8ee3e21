------------------------------- MODULE Contexts -------------------------------
(***************************************************************************)
(* The governed context catalogue and the memberships of memories, as the  *)
(* SQLite backend keeps them (store/context_store.rs, store/admin.rs and   *)
(* the membership half of store/crud.rs).  Each action is one BEGIN        *)
(* IMMEDIATE transaction; a request made of several of them is in          *)
(* GovernedWrites.                                                         *)
(*                                                                         *)
(* Identities, hints and relations are left out: an identity is looked up  *)
(* like an alias, a hint never decides an exact match.  So are the frozen  *)
(* contexts a migration leaves, which no operation changes.                *)
(***************************************************************************)
EXTENDS Naturals, Sequences, FiniteSets, Functions

CONSTANTS
    Ctxs,         \* context identifiers, never reused
    NoCtx,        \* no context
    Principals,   \* authenticated callers
    Keys,         \* normalized context keys
    Unresolved,   \* UNRESOLVED_CONTEXT_KEY, inbox/unresolved
    Similar,      \* pairs of keys the fuzzy matcher scores at least 0.72
    Kinds,        \* context kinds
    Custom,       \* the kind of private compatibility contexts
    Mems,         \* memory identifiers, never reused
    MaxRevision   \* bound on the record revision of one memory

ASSUME CatalogueNames ==
    /\ NoCtx \notin Ctxs /\ Unresolved \notin Keys
    /\ Custom \in Kinds /\ Similar \subseteq Keys \X Keys /\ MaxRevision \in Nat
    /\ Principals # {} /\ Keys # {}

VARIABLES
    ctx,       \* ctx[c]: the contexts row of c, its grants, aliases and audit trail
    enabled,   \* enabled context kinds
    required,  \* kinds an operator policy requires of every governed write
    default,   \* default[k]: default_context_id of the policy of kind k
    mem        \* mem[m]: the memberships and scope cache of memory m

catalogue == <<ctx, enabled, required, default, mem>>

Rows ==
    [st : {"none", "active", "archived", "deleted"}, owner : Principals, kind : Kinds, key : Keys,
     parent : Ctxs \cup {NoCtx}, grants : SUBSET Principals, aliases : SUBSET Keys,
     legacy : BOOLEAN,   \* created by the action legacy_scope_context_created
     touched : BOOLEAN]  \* audited again since
Memories ==
    [st : {"none", "live", "gone"}, owner : Principals, ctxs : Seq(Ctxs), scope : Keys \cup {Unresolved},
     rev : Nat]

Absent(st) ==
    [st |-> st, owner |-> CHOOSE p \in Principals : TRUE, kind |-> Custom, key |-> CHOOSE k \in Keys : TRUE,
     parent |-> NoCtx, grants |-> {}, aliases |-> {}, legacy |-> FALSE, touched |-> FALSE]
NoMemory(st) ==
    [st |-> st, owner |-> CHOOSE p \in Principals : TRUE, ctxs |-> <<>>, scope |-> Unresolved, rev |-> 0]

CatalogueTypeOK ==
    /\ ctx \in [Ctxs -> Rows]
    /\ enabled \subseteq Kinds /\ required \subseteq Kinds
    /\ default \in [Kinds -> Ctxs \cup {NoCtx}]
    /\ mem \in [Mems -> Memories]

Draft(p, kind, key, parent, legacy) ==
    [Absent("active") EXCEPT !.owner = p, !.kind = kind, !.key = key, !.parent = parent, !.legacy = legacy]

Stored(p, s, scope) == [st |-> "live", owner |-> p, ctxs |-> s, scope |-> scope, rev |-> 1]

\* An operator has prepared one context for every caller, and at most one memory
\* is in it.
CatalogueInit ==
    \E c \in Ctxs, p \in Principals, kind \in Kinds \ {Custom}, key \in Keys, M \in SUBSET Mems :
        /\ Cardinality(M) <= 1
        /\ ctx = [d \in Ctxs |->
                    IF d = c THEN [Draft(p, kind, key, NoCtx, FALSE) EXCEPT !.grants = Principals]
                    ELSE Absent("none")]
        /\ enabled = Kinds /\ required = {}
        /\ default = [k \in Kinds |-> NoCtx]
        /\ \E q \in Principals :
              mem = [m \in Mems |-> IF m \in M THEN Stored(q, <<c>>, key) ELSE NoMemory("none")]

-----------------------------------------------------------------------------
(* Reading the catalogue.                                                  *)

Exists(c) == ctx[c].st \in {"active", "archived"}
Active(c) == ctx[c].st = "active"
Visible(c, p) == Exists(c) /\ (ctx[c].owner = p \/ p \in ctx[c].grants)

\* context_use_allowed
UseAllowed(c, p, requireActive) ==
    Visible(c, p) /\ ctx[c].kind \in enabled /\ (requireActive => Active(c))

\* find_context_records by key; kinds is the singleton of a kind, or Kinds.
Find(p, includeArchived, kinds, key) ==
    {c \in Ctxs : /\ Visible(c, p) /\ (includeArchived \/ Active(c))
                  /\ ctx[c].kind \in kinds
                  /\ (ctx[c].key = key \/ key \in ctx[c].aliases)}
FindActive(p, c) == {d \in {c} \cap Ctxs : Visible(d, p) /\ Active(d)}

\* fuzzy_context_candidates
FuzzyCandidates(p, kind, key) ==
    {c \in Ctxs : /\ Visible(c, p) /\ Active(c) /\ ctx[c].kind = kind
                  /\ ctx[c].key # key /\ <<key, ctx[c].key>> \in Similar}

\* The WITH RECURSIVE ancestors of a context, itself included.
UpwardClosed(S) == \A c \in S : ctx[c].parent \in S \cup {NoCtx}
Ancestors(c) == {a \in Ctxs : \A S \in SUBSET Ctxs : c \in S /\ UpwardClosed(S) => a \in S}

\* expand_context_selection without descendants fails on a selected context that
\* is not visible or not active and on an ancestor that is not visible.
Expands(s, p) ==
    \A c \in Range(s) : FindActive(p, c) # {} /\ \A a \in Ancestors(c) : Visible(a, p)

ScopeOf(s) == IF s = <<>> THEN Unresolved ELSE ctx[s[1]].key
\* The elements of s at the positions I, in their order.
Picked(s, I) == [k \in 1..Cardinality(I) |-> s[CHOOSE i \in I : Cardinality({j \in I : j < i}) = k - 1]]
Referenced(c) == \E m \in Mems : c \in Range(mem[m].ctxs)

-----------------------------------------------------------------------------
(* Creating, changing and rolling back contexts.                           *)

\* What create_context checks inside its transaction; it implies the unique key
\* of owner, kind and key.
CreateAllowed(p, kind, key, parent) ==
    /\ kind \in enabled
    /\ parent # NoCtx => UseAllowed(parent, p, TRUE)
    /\ Find(p, TRUE, {kind}, key) = {}

Insert(c, row) ==
    /\ ctx[c].st = "none"
    /\ ctx' = [ctx EXCEPT ![c] = row]

MutableOwned(c, p) == Exists(c) /\ ctx[c].owner = p

\* A fault: the search for ancestors begins above the new parent.
ParentNotBelow(c, parent) ==
    parent # NoCtx /\ ctx[parent].parent # NoCtx => c \notin Ancestors(ctx[parent].parent)
\* The cycle check of set_context_parent and of register_legacy_scope_context.
ParentAllowed(c, parent) == parent # NoCtx => c \notin Ancestors(parent)

Touch(c, row) == [ctx EXCEPT ![c] = [row EXCEPT !.touched = TRUE]]

SetParent(c, parent, p) ==
    /\ MutableOwned(c, p)
    /\ parent # NoCtx => UseAllowed(parent, p, TRUE)
    /\ ParentAllowed(c, parent)
    /\ ctx' = Touch(c, [ctx[c] EXCEPT !.parent = parent])
    /\ UNCHANGED <<enabled, required, default, mem>>

\* Memberships, children and policy defaults keep an archived context.
SetLifecycle(c, st, p) ==
    /\ MutableOwned(c, p) /\ st \in {"active", "archived"}
    /\ ctx' = Touch(c, [ctx[c] EXCEPT !.st = st])
    /\ UNCHANGED <<enabled, required, default, mem>>

GrantUse(c, grantee, p) ==
    /\ MutableOwned(c, p)
    /\ ctx' = Touch(c, [ctx[c] EXCEPT !.grants = @ \cup {grantee}])
    /\ UNCHANGED <<enabled, required, default, mem>>

RevokeUse(c, grantee, p) ==
    /\ MutableOwned(c, p)
    /\ ctx' = Touch(c, [ctx[c] EXCEPT !.grants = @ \ {grantee}])
    /\ UNCHANGED <<enabled, required, default, mem>>

ReplaceGrants(c, grantees, p) ==
    /\ MutableOwned(c, p)
    /\ ctx' = Touch(c, [ctx[c] EXCEPT !.grants = grantees])
    /\ UNCHANGED <<enabled, required, default, mem>>

\* The key is immutable, and no alias is compared with another context's key.
UpdateDefinition(c, aliases, p) ==
    /\ MutableOwned(c, p)
    /\ ctx' = Touch(c, [ctx[c] EXCEPT !.aliases = aliases])
    /\ UNCHANGED <<enabled, required, default, mem>>

UpsertKind(kind, on) ==
    /\ enabled' = IF on THEN enabled \cup {kind} ELSE enabled \ {kind}
    /\ UNCHANGED <<ctx, required, default, mem>>

\* validate_policy_default, with the operator's layer.
UpsertKindPolicy(kind, c, require) ==
    /\ c # NoCtx => Active(c) /\ ctx[c].kind = kind
    /\ default' = [default EXCEPT ![kind] = c]
    /\ required' = IF require THEN required \cup {kind} ELSE required \ {kind}
    /\ UNCHANGED <<ctx, enabled, mem>>

\* A fault: policy defaults, which no foreign key protects, are not looked at.
RemovableDefault(c, p) ==
    /\ Exists(c) /\ ctx[c].owner = p /\ ctx[c].kind = Custom
    /\ ctx[c].legacy /\ ~ctx[c].touched
    /\ ~Referenced(c)
    /\ \A d \in Ctxs : Exists(d) => ctx[d].parent # c
    /\ ctx[c].grants = {} /\ ctx[c].aliases = {}

\* The WHERE clause of rollback_unreferenced_legacy_context.
Removable(c, p) ==
    /\ Exists(c) /\ ctx[c].owner = p /\ ctx[c].kind = Custom
    /\ ctx[c].legacy /\ ~ctx[c].touched
    /\ ~Referenced(c)
    /\ \A d \in Ctxs : Exists(d) => ctx[d].parent # c
    /\ ctx[c].grants = {} /\ ctx[c].aliases = {}
    /\ \A k \in Kinds : default[k] # c

RolledBack(C, p) ==
    [c \in Ctxs |-> IF c \in C /\ Removable(c, p) THEN Absent("deleted") ELSE ctx[c]]

-----------------------------------------------------------------------------
(* Memberships.                                                            *)

\* insert_memory_contexts: memberships are contexts, unique and usable, an archived one
\* only when the memory already had it; the caller's scope is the key of the
\* first.
MembershipsAllowed(s, preserved, scope, p) ==
    /\ s \in Seq(Ctxs) /\ IsInjective(s)
    /\ \A c \in Range(s) : UseAllowed(c, p, c \notin preserved)
    /\ scope = ScopeOf(s)

Writable(m, p) == mem[m].st = "live" /\ mem[m].owner = p

\* A fault: the scope cache keeps the scope of the replaced memberships.
ReplacedStaleScope(r, s, scope) == [r EXCEPT !.ctxs = s, !.rev = @ + 1]

\* replace_memory_contexts_sqlite_tx with the caller's revision.
Replaced(r, s, scope) == [r EXCEPT !.ctxs = s, !.scope = scope, !.rev = @ + 1]

ReplaceMemoryContexts(m, s, p) ==
    /\ Writable(m, p) /\ mem[m].rev < MaxRevision
    /\ MembershipsAllowed(s, Range(mem[m].ctxs), ScopeOf(s), p)
    /\ mem' = [mem EXCEPT ![m] = Replaced(@, s, ScopeOf(s))]
    /\ UNCHANGED <<ctx, enabled, required, default>>

DeleteMemory(m, p) ==
    /\ Writable(m, p)
    /\ mem' = [mem EXCEPT ![m] = NoMemory("gone")]
    /\ UNCHANGED <<ctx, enabled, required, default>>

-----------------------------------------------------------------------------
(* Legacy scope administration.                                            *)

OwnedCustom(p, key) == {c \in Ctxs : Exists(c) /\ ctx[c].owner = p /\ ctx[c].kind = Custom /\ ctx[c].key = key}

\* ensure_private_legacy_scope_context: an owned active scope, or a new one for a
\* key that no visible context holds.
Ensured(p, key, c) ==
    \/ c \in OwnedCustom(p, key) /\ Active(c)
    \/ OwnedCustom(p, key) = {} /\ Find(p, TRUE, Kinds, key) = {} /\ ctx[c].st = "none"
EnsuredRow(p, key, c) == IF Exists(c) THEN ctx[c] ELSE Draft(p, Custom, key, NoCtx, TRUE)

\* The scope is created or redefined, together with the parent it names.
RegisterScope(p, key, c, aliases, parent, parentKey) ==
    /\ Ensured(p, key, c)
    /\ parent # NoCtx => Ensured(p, parentKey, parent) /\ key # parentKey
    /\ ParentAllowed(c, parent)
    /\ ctx' = [d \in Ctxs |->
                  IF d = c THEN [EnsuredRow(p, key, c) EXCEPT !.aliases = aliases, !.parent = parent, !.touched = TRUE]
                  ELSE IF d = parent THEN EnsuredRow(p, parentKey, d)
                  ELSE ctx[d]]
    /\ UNCHANGED <<enabled, required, default, mem>>

\* resolve_or_create_private_legacy_context: the principal's own custom context,
\* else the only visible active one with that key, else a new one.  The kind of
\* the visible one is not asked for.
ByKey(p, key) == {c \in Ctxs : Visible(c, p) /\ Active(c) /\ ctx[c].key = key}
ReassignTarget(p, key, c) ==
    /\ Custom \in enabled
    /\ \/ c \in OwnedCustom(p, key) /\ Active(c)
       \/ OwnedCustom(p, key) = {} /\ ByKey(p, key) = {c}
       \/ OwnedCustom(p, key) = {} /\ ByKey(p, key) = {} /\ ctx[c].st = "none"

\* The target takes the place of the primary membership.
Repointed(s, c) == <<c>> \o Picked(s, {i \in 2..Len(s) : s[i] # c})

ReassignScope(p, from, key, c) ==
    LET M == {m \in Mems : Writable(m, p) /\ mem[m].scope = from}
    IN  /\ M # {} /\ \A m \in M : mem[m].rev < MaxRevision
        /\ ReassignTarget(p, key, c)
        /\ ctx' = IF ctx[c].st = "none"
                  THEN [ctx EXCEPT ![c] = [Draft(p, Custom, key, NoCtx, TRUE) EXCEPT !.touched = TRUE]]
                  ELSE Touch(c, ctx[c])
        /\ mem' = [m \in Mems |-> IF m \in M THEN Replaced(mem[m], Repointed(mem[m].ctxs, c), ctx'[c].key)
                                  ELSE mem[m]]
        /\ UNCHANGED <<enabled, required, default>>
=============================================================================
