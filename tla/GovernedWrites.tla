---------------------------- MODULE GovernedWrites ----------------------------
(***************************************************************************)
(* Requests of the MCP server that write memories under governed contexts  *)
(* (server/mod.rs): remember, remember_many and handoff, the two forms of  *)
(* revise, and context_create.  A request makes several store calls, and   *)
(* other requests, administration and the operator change the catalogue    *)
(* between any two of them.                                                *)
(*                                                                         *)
(* A legacy scope that no visible context holds makes a private context    *)
(* before the memory is written; a request that fails afterwards takes it  *)
(* back.                                                                   *)
(***************************************************************************)
EXTENDS Contexts

CONSTANTS
    Reqs,        \* requests in progress
    NoMem,       \* no memory
    MaxItems,    \* max_batch_size
    MaxContexts, \* bound on the memberships a caller selects
    MaxIssued    \* bound on the requests and administrative changes issued

ASSUME RequestNames == NoMem \notin Mems /\ {MaxItems, MaxContexts, MaxIssued} \subseteq Nat

VARIABLES
    req,      \* req[r]: the state of request r
    issued    \* requests and administrative changes so far

vars == <<ctx, enabled, required, default, mem, req, issued>>

Steps == {"idle", "find", "create", "refind", "select", "commit",        \* remember
          "read", "members", "count", "complete", "save",                \* revise
          "exact", "confirm", "make",                                    \* context_create
          "rollback"}
Ops == {"remember", "reviseScope", "reviseContexts", "contextCreate"}

\* items: the legacy scopes not resolved yet, the current one first.  picks: the
\* memberships chosen so far, one sequence for each item.  made: the contexts this
\* request created.  cand: the context the current step is about.
Requests ==
    [pc : Steps, op : Ops, by : Principals, items : Seq(Keys), cand : Ctxs \cup {NoCtx},
     picks : Seq(Seq(Ctxs)), made : SUBSET Ctxs, target : Mems \cup {NoMem}, rev : Nat,
     seen : Nat, kind : Kinds, confirmed : SUBSET Ctxs, parent : Ctxs \cup {NoCtx}]
Idle ==
    [pc |-> "idle", op |-> "remember", by |-> CHOOSE p \in Principals : TRUE, items |-> <<>>, cand |-> NoCtx,
     picks |-> <<>>, made |-> {}, target |-> NoMem, rev |-> 0, seen |-> 0, kind |-> Custom, confirmed |-> {},
     parent |-> NoCtx]

TypeOK ==
    /\ CatalogueTypeOK
    /\ req \in [Reqs -> Requests]
    /\ issued \in 0..MaxIssued

Init == CatalogueInit /\ req = [r \in Reqs |-> Idle] /\ issued = 0

Issue == issued < MaxIssued /\ issued' = issued + 1
At(r, pc) == req[r].pc = pc
Become(r, state) == req' = [req EXCEPT ![r] = state]
Goto(r, pc) == Become(r, [req[r] EXCEPT !.pc = pc])

\* A fault: a request that fails forgets the context it made.
FailForgetting(r) == Become(r, Idle)

\* Every error path after a creation goes through the rollback.
Fail(r) == IF req[r].made = {} THEN Become(r, Idle) ELSE Goto(r, "rollback")

\* resolve_context_selection with explicit references: every reference is a
\* visible active context, the selection expands, and every required kind is
\* among the selected ones.
Selects(s, p) ==
    /\ s # <<>> /\ \A c \in Range(s) : FindActive(p, c) # {}
    /\ Expands(s, p)
    /\ \A k \in required : \E c \in Range(s) : ctx[c].kind = k
\* allow_unresolved selects nothing unless some kind is required.
Deferred(s) == s = <<>> /\ required = {}

-----------------------------------------------------------------------------
(* remember, remember_many, handoff: resolve every item, then store all.   *)

StartRemember(r, p, keys) ==
    /\ At(r, "idle") /\ Issue
    /\ Become(r, [Idle EXCEPT !.pc = "find", !.op = "remember", !.by = p, !.items = keys])
    /\ UNCHANGED catalogue

\* With an envelope the caller names the contexts, or defers.
StartRememberContexts(r, p, s) ==
    /\ At(r, "idle") /\ Issue
    /\ Become(r, [Idle EXCEPT !.pc = "complete", !.op = "remember", !.by = p, !.picks = <<s>>])
    /\ UNCHANGED catalogue

\* resolve_legacy_context_selection: exactly one match is taken, none asks for a
\* private context, several are an error.
FindScope(r) ==
    /\ At(r, "find")
    /\ LET found == Find(req[r].by, FALSE, Kinds, Head(req[r].items))
       IN  \/ \E c \in found : found = {c} /\ Become(r, [req[r] EXCEPT !.pc = "select", !.cand = c])
           \/ found = {} /\ Goto(r, "create")
           \/ Cardinality(found) > 1 /\ Fail(r)
    /\ UNCHANGED <<catalogue, issued>>

CreateScope(r, c) ==
    /\ At(r, "create") /\ CreateAllowed(req[r].by, Custom, Head(req[r].items), NoCtx)
    /\ Insert(c, Draft(req[r].by, Custom, Head(req[r].items), NoCtx, TRUE))
    /\ Become(r, [req[r] EXCEPT !.pc = "select", !.cand = c, !.made = @ \cup {c}])
    /\ UNCHANGED <<enabled, required, default, mem, issued>>

CreateScopeFails(r) ==
    /\ At(r, "create") /\ ~CreateAllowed(req[r].by, Custom, Head(req[r].items), NoCtx)
    /\ Goto(r, "refind")
    /\ UNCHANGED <<catalogue, issued>>

\* Another request may have made the context meanwhile.
RefindScope(r) ==
    /\ At(r, "refind")
    /\ LET found == Find(req[r].by, FALSE, Kinds, Head(req[r].items))
       IN  \/ \E c \in found : found = {c} /\ Become(r, [req[r] EXCEPT !.pc = "select", !.cand = c])
           \/ Cardinality(found) # 1 /\ Fail(r)
    /\ UNCHANGED <<catalogue, issued>>

\* The chosen context, alone, must make a valid selection.
SelectScope(r) ==
    /\ At(r, "select")
    /\ \/ /\ Selects(<<req[r].cand>>, req[r].by)
          /\ Become(r, [req[r] EXCEPT
                !.pc = IF req[r].op = "reviseScope" THEN "read" ELSE IF Len(req[r].items) > 1 THEN "find" ELSE "commit",
                !.items = Tail(@), !.picks = Append(@, <<req[r].cand>>)])
       \/ ~Selects(<<req[r].cand>>, req[r].by) /\ Fail(r)
    /\ UNCHANGED <<catalogue, issued>>

\* store_memory / batch_store_with_metadata_contexts: one transaction for all.
CommitRemember(r, ms) ==
    LET picks == req[r].picks
        scopes == [i \in DOMAIN picks |-> ScopeOf(picks[i])]
    IN  /\ At(r, "commit") /\ req[r].op = "remember" /\ IsInjective(ms)
        /\ \A i \in DOMAIN picks : mem[ms[i]].st = "none"
                                   /\ MembershipsAllowed(picks[i], {}, scopes[i], req[r].by)
        /\ mem' = [m \in Mems |->
                      IF m \in Range(ms)
                      THEN LET i == CHOOSE j \in DOMAIN ms : ms[j] = m IN Stored(req[r].by, picks[i], scopes[i])
                      ELSE mem[m]]
        /\ Become(r, Idle)
        /\ UNCHANGED <<ctx, enabled, required, default, issued>>

CommitFails(r) ==
    /\ At(r, "commit")
    /\ \E i \in DOMAIN req[r].picks :
         ~MembershipsAllowed(req[r].picks[i], {}, ScopeOf(req[r].picks[i]), req[r].by)
    /\ Fail(r)
    /\ UNCHANGED <<catalogue, issued>>

-----------------------------------------------------------------------------
(* revise with a legacy scope: only the primary membership is replaced, by *)
(* an optimistic update of the memory that was read.                       *)

StartReviseScope(r, p, m, key) ==
    /\ At(r, "idle") /\ Issue
    /\ Become(r, [Idle EXCEPT !.pc = "find", !.op = "reviseScope", !.by = p, !.items = <<key>>, !.target = m])
    /\ UNCHANGED catalogue

ReadMemory(r) ==
    /\ At(r, "read")
    /\ LET m == mem[req[r].target]
       IN  IF m.st = "live" THEN Become(r, [req[r] EXCEPT !.pc = "members", !.rev = m.rev]) ELSE Fail(r)
    /\ UNCHANGED <<catalogue, issued>>

\* A fault: the old primary membership stays, behind the new one.
WithPrimaryKept(c, s, p) == <<c>> \o Picked(s, {i \in DOMAIN s : Visible(s[i], p) /\ s[i] # c})

\* get_memory_contexts returns the visible memberships with their ordinals; the
\* selected context goes first, the ones of a later ordinal follow.
WithPrimary(c, s, p) == <<c>> \o Picked(s, {i \in 2..Len(s) : Visible(s[i], p) /\ s[i] # c})
ReadMemberships(r) ==
    /\ At(r, "members")
    /\ LET m == mem[req[r].target]
           visible == {i \in DOMAIN m.ctxs : Visible(m.ctxs[i], req[r].by)}
       IN  IF m.st = "live"
           THEN Become(r, [req[r] EXCEPT !.pc = "count", !.seen = Cardinality(visible),
                                         !.picks = <<WithPrimary(req[r].cand, m.ctxs, req[r].by)>>])
           ELSE Fail(r)
    /\ UNCHANGED <<catalogue, issued>>

\* A membership the caller cannot see cannot be preserved.
CountMemberships(r) ==
    /\ At(r, "count")
    /\ IF Writable(req[r].target, req[r].by) /\ Len(mem[req[r].target].ctxs) = req[r].seen
       THEN Goto(r, "complete") ELSE Fail(r)
    /\ UNCHANGED <<catalogue, issued>>

SelectComplete(r) ==
    /\ At(r, "complete")
    /\ LET s == req[r].picks[1]
       IN  IF Selects(s, req[r].by) \/ Deferred(s)
           THEN Goto(r, IF req[r].op = "remember" THEN "commit" ELSE "save")
           ELSE Fail(r)
    /\ UNCHANGED <<catalogue, issued>>

\* update_memory_if_unmodified_with_metadata_contexts for a legacy scope,
\* update_memory_with_metadata_contexts for an envelope.
SaveAllowed(r) ==
    LET m == req[r].target
        s == req[r].picks[1]
    IN  /\ Writable(m, req[r].by)
        /\ req[r].op = "reviseScope" => mem[m].rev = req[r].rev
        /\ MembershipsAllowed(s, Range(mem[m].ctxs), ScopeOf(s), req[r].by)

SaveMemory(r) ==
    LET m == req[r].target
        s == req[r].picks[1]
    IN  /\ At(r, "save") /\ SaveAllowed(r) /\ mem[m].rev < MaxRevision
        /\ mem' = [mem EXCEPT ![m] = Replaced(@, s, ScopeOf(s))]
        /\ Become(r, Idle)
        /\ UNCHANGED <<ctx, enabled, required, default, issued>>

SaveFails(r) ==
    /\ At(r, "save") /\ ~SaveAllowed(r)
    /\ Fail(r)
    /\ UNCHANGED <<catalogue, issued>>

\* revise with an envelope: the memberships are replaced as a whole.
StartReviseContexts(r, p, m, s) ==
    /\ At(r, "idle") /\ Issue
    /\ Become(r, [Idle EXCEPT !.pc = "complete", !.op = "reviseContexts", !.by = p, !.target = m, !.picks = <<s>>])
    /\ UNCHANGED catalogue

-----------------------------------------------------------------------------
(* context_create: reuse an exact match, ask to confirm the similar ones,  *)
(* create.                                                                 *)

StartContextCreate(r, p, kind, key, parent, confirmed) ==
    /\ At(r, "idle") /\ Issue
    /\ Become(r, [Idle EXCEPT !.pc = "exact", !.op = "contextCreate", !.by = p, !.kind = kind, !.items = <<key>>,
                              !.parent = parent, !.confirmed = confirmed])
    /\ UNCHANGED catalogue

\* An exact match, active or archived, ends the request: reused or refused.
FindExact(r) ==
    LET q == req[r]
    IN  /\ At(r, "exact")
        /\ IF /\ Find(q.by, TRUE, {q.kind}, q.items[1]) = {}
              /\ q.parent # NoCtx => Expands(<<q.parent>>, q.by)
           THEN Goto(r, "confirm") ELSE Become(r, Idle)
        /\ UNCHANGED <<catalogue, issued>>

ConfirmDistinct(r) ==
    LET q == req[r]
        similar == FuzzyCandidates(q.by, q.kind, q.items[1])
    IN  /\ At(r, "confirm")
        /\ IF Find(q.by, FALSE, {q.kind}, q.items[1]) = {} /\ (similar # {} => similar = q.confirmed)
           THEN Goto(r, "make") ELSE Become(r, Idle)
        /\ UNCHANGED <<catalogue, issued>>

\* create_context repeats both checks; a conflict answers with the winner, if any.
MakeContext(r, c) ==
    LET q == req[r]
    IN  /\ At(r, "make")
        /\ CreateAllowed(q.by, q.kind, q.items[1], q.parent)
        /\ FuzzyCandidates(q.by, q.kind, q.items[1]) = q.confirmed
        /\ Insert(c, Draft(q.by, q.kind, q.items[1], q.parent, FALSE))
        /\ Become(r, Idle)
        /\ UNCHANGED <<enabled, required, default, mem, issued>>

MakeFails(r) ==
    LET q == req[r]
    IN  /\ At(r, "make")
        /\ \/ ~CreateAllowed(q.by, q.kind, q.items[1], q.parent)
           \/ FuzzyCandidates(q.by, q.kind, q.items[1]) # q.confirmed
        /\ Become(r, Idle)
        /\ UNCHANGED <<catalogue, issued>>

-----------------------------------------------------------------------------
(* rollback_created_legacy_contexts: one transaction for each context.     *)

Rollback(r, c) ==
    /\ At(r, "rollback") /\ c \in req[r].made
    /\ ctx' = RolledBack({c}, req[r].by)
    /\ Become(r, IF req[r].made = {c} THEN Idle ELSE [req[r] EXCEPT !.made = @ \ {c}])
    /\ UNCHANGED <<enabled, required, default, mem, issued>>

-----------------------------------------------------------------------------
Selections == {s \in UNION {[1..n -> {c \in Ctxs : Exists(c)}] : n \in 0..MaxContexts} : IsInjective(s)}

\* Callers name contexts and memories they were shown.
StartStep ==
    issued < MaxIssued /\ \E r \in {q \in Reqs : At(q, "idle")}, p \in Principals :
        \/ \E n \in 1..MaxItems : \E keys \in [1..n -> Keys] : StartRemember(r, p, keys)
        \/ \E s \in Selections : StartRememberContexts(r, p, s)
        \/ \E m \in {n \in Mems : mem[n].st = "live"} :
              \/ \E key \in Keys : StartReviseScope(r, p, m, key)
              \/ \E s \in Selections : StartReviseContexts(r, p, m, s)
        \/ \E kind \in Kinds, key \in Keys, parent \in {c \in Ctxs : Exists(c)} \cup {NoCtx} :
              \E confirmed \in {{}, FuzzyCandidates(p, kind, key)} :
                  StartContextCreate(r, p, kind, key, parent, confirmed)

RequestStep ==
    \E r \in Reqs :
        \/ FindScope(r) \/ CreateScopeFails(r) \/ RefindScope(r) \/ SelectScope(r)
        \/ \E c \in Ctxs : CreateScope(r, c) \/ MakeContext(r, c) \/ Rollback(r, c)
        \/ \E ms \in [DOMAIN req[r].picks -> Mems] : CommitRemember(r, ms)
        \/ CommitFails(r)
        \/ ReadMemory(r) \/ ReadMemberships(r) \/ CountMemberships(r) \/ SelectComplete(r)
        \/ SaveMemory(r) \/ SaveFails(r)
        \/ FindExact(r) \/ ConfirmDistinct(r) \/ MakeFails(r)

ContextChange(p, c) ==
    \/ \E parent \in Ctxs \cup {NoCtx} : SetParent(c, parent, p)
    \/ \E st \in {"active", "archived"} : SetLifecycle(c, st, p)
    \/ \E q \in Principals : GrantUse(c, q, p) \/ RevokeUse(c, q, p)
    \/ \E G \in SUBSET Principals : ReplaceGrants(c, G, p)
    \/ \E A \in SUBSET Keys : UpdateDefinition(c, A, p)
    \/ \E key, parentKey \in Keys, A \in SUBSET Keys, parent \in Ctxs \cup {NoCtx} :
          RegisterScope(p, key, c, A, parent, parentKey)
    \/ \E from \in Keys \cup {Unresolved}, key \in Keys : ReassignScope(p, from, key, c)

MemoryChange(p, m) == DeleteMemory(m, p) \/ \E s \in Selections : ReplaceMemoryContexts(m, s, p)

OperatorChange ==
    \/ \E kind \in Kinds, on \in BOOLEAN : UpsertKind(kind, on)
    \/ \E kind \in Kinds, c \in Ctxs \cup {NoCtx}, require \in BOOLEAN : UpsertKindPolicy(kind, c, require)

ChangeStep ==
    /\ Issue
    /\ \/ \E p \in Principals : (\E c \in Ctxs : ContextChange(p, c)) \/ (\E m \in Mems : MemoryChange(p, m))
       \/ OperatorChange
    /\ UNCHANGED req

Next == StartStep \/ RequestStep \/ ChangeStep

Spec == Init /\ [][Next]_vars

-----------------------------------------------------------------------------
\* The scope cache of a memory (source_conversation and memory_metadata.scope_key)
\* always is the key of its first membership, or inbox/unresolved without one:
\* legacy readers and governed readers agree.
ScopeCacheExact == \A m \in Mems : mem[m].st = "live" => mem[m].scope = ScopeOf(mem[m].ctxs)

\* Nothing refers to a context that is gone: no membership, no child, no policy
\* default, also after a failed request took back a context that others had
\* found meanwhile.
ReferencesExist ==
    /\ \A m \in Mems : \A c \in Range(mem[m].ctxs) : Exists(c)
    /\ \A c \in Ctxs : Exists(c) /\ ctx[c].parent # NoCtx => Exists(ctx[c].parent)
    /\ \A k \in Kinds : default[k] # NoCtx => Exists(default[k])

\* The hierarchy has no cycle, whoever reparents or registers what meanwhile.
HierarchyAcyclic == \A S \in (SUBSET Ctxs) \ {{}} : \E c \in S : ~Exists(c) \/ ctx[c].parent \notin S

\* A request never lets go of a private context it made while that context still
\* is an unused one it could have taken back.
NothingLeftBehind ==
    [][\A r \in Reqs, p \in Principals : \A c \in req[r].made \ req'[r].made :
          p = req[r].by => ~Removable(c, p)']_vars

\* revise with a legacy scope replaces the primary membership of the memory as it
\* is when the update commits and preserves every other one, in its order.
LegacyRevisePreserves ==
    [][\A r \in Reqs :
          LET m == req[r].target
          IN  req[r].op = "reviseScope" /\ req[r].pc = "save" /\ req'[r].pc = "idle" /\ mem' # mem =>
                  mem'[m].ctxs = Repointed(mem[m].ctxs, req[r].cand)]_vars
=============================================================================
