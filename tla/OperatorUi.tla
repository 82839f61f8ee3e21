------------------------------ MODULE OperatorUi ------------------------------
(***************************************************************************)
(* The terminal browser `hold ui` (ui/app.rs, ui/mod.rs).  One loop takes  *)
(* key presses and the results of spawned tasks; the tasks read and write  *)
(* the store while other clients change it, and finish in any order.  A    *)
(* result says which request it answers by a generation number.            *)
(*                                                                         *)
(* A memory is abstracted to its record revision and the revision at which *)
(* what is kept beside its row, the metadata and the memberships, last     *)
(* changed; a context to its lifecycle; a draft to its text.  The cursor,  *)
(* panes, scrolling, status line, the history of a memory, the search      *)
(* modes and the other facets of a context are left out.                   *)
(* Nothing is said of what happens after the loop has ended, and the       *)
(* terminal's input is assumed not to end before the operator quits.       *)
(***************************************************************************)
EXTENDS Naturals, FiniteSets

CONSTANTS
    Ids,          \* memories of the store
    NoId,         \* no memory
    Ctxs,         \* governed contexts
    NoCtx,        \* no context
    Texts,        \* draft texts that parse to a change
    NoDraft,      \* no draft is open
    Original,     \* the text a draft starts with
    Same,         \* another text that parses to no change
    MaxEffort,    \* bound on the refreshes and saves asked for, and the changes by other clients, in all
    MaxInFlight   \* bound on the reads in flight when a refresh or a context edit is asked for

ASSUME AbsencesAreDistinct ==
    /\ NoId \notin Ids /\ NoCtx \notin Ctxs
    /\ Texts \cap {NoDraft, Original, Same} = {} /\ Cardinality({NoDraft, Original, Same}) = 3
ASSUME BoundsAreNatural == MaxEffort \in Nat /\ MaxInFlight \in Nat

VARIABLES
    memory,     \* memory[i]: the row of i in the store
    catalogue,  \* catalogue[c]: the context c in the store
    mode,       \* the input mode
    list,       \* the memory table: generation, loading, rows, query given?
    side,       \* the sidebar: generation, contexts known, contexts selected
    detail,     \* the memory inspected
    edit,       \* its draft
    manager,    \* the context administered, and the draft of a pane
    op,         \* generation of saves and deletions, one in flight?
    reads,      \* listings in flight
    catalogs,   \* catalogues in flight
    writes,     \* saves and deletions in flight
    busy,       \* what the loop itself is waiting for
    spent,      \* refreshes and saves asked for, and changes by other clients, so far
    over        \* has the operator quit?

store == <<memory, catalogue>>
dialog == <<mode, detail, edit, manager>>
tasks == <<reads, catalogs, writes>>
vars == <<store, dialog, list, side, op, tasks, busy, spent, over>>

Memories == [st : {"live", "gone"}, rev : Nat, parts : Nat]
Lifecycles == {"active", "archived", "absent"}
Drafts == Texts \cup {NoDraft, Original, Same}
Modes == {"browse", "search", "detail", "edit", "confirmDelete", "confirmDiscard", "manager", "managerEdit",
          "confirmManager"}

\* parts is 0 when it could not be read.
Details == [id : Ids \cup {NoId}, rev : Nat, parts : Nat]
NoDetail == [id |-> NoId, rev |-> 0, parts |-> 0]
Nothing == [c \in Ctxs |-> "absent"]
NoManager == [ctx |-> NoCtx, draft |-> NoDraft]

Writes ==
    [gen : Nat, kind : {"save", "delete"}, rev : Nat, seen : Details, text : Drafts, now : Details,
     pc : {"write", "memory", "parts", "updated", "invisible", "unrefreshed", "missing", "deleted", "failed"}]

TypeOK ==
    /\ memory \in [Ids -> Memories] /\ catalogue \in [Ctxs -> Lifecycles]
    /\ mode \in Modes /\ detail \in Details /\ edit \in Drafts /\ manager \in [ctx : Ctxs \cup {NoCtx}, draft : Drafts]
    /\ list \in [gen : Nat, loading : BOOLEAN, rows : SUBSET Ids, query : BOOLEAN]
    /\ side \in [gen : Nat, known : [Ctxs -> Lifecycles], sel : SUBSET Ctxs]
    /\ op \in [gen : Nat, pending : BOOLEAN]
    /\ reads \subseteq [gen : Nat, st : {"sent", "rows"}, ids : SUBSET Ids]
    /\ catalogs \subseteq [gen : Nat, st : {"sent", "records"}, known : [Ctxs -> Lifecycles]]
    /\ writes \subseteq Writes
    /\ busy \in [pc : {"no", "parts", "apply", "reload"}, now : Details]
    /\ spent \in 0..MaxEffort /\ over \in BOOLEAN

Unlisted == [gen |-> 0, loading |-> FALSE, rows |-> {}, query |-> FALSE]
Uncatalogued == [gen |-> 0, known |-> Nothing, sel |-> {}]
Reads(gen) == [gen |-> gen, st |-> "sent", ids |-> {}]
Idle == [pc |-> "no", now |-> NoDetail]
Init ==
    /\ memory = [i \in Ids |-> [st |-> "live", rev |-> 1, parts |-> 1]]
    /\ catalogue = [c \in Ctxs |-> "active"]
    /\ mode = "browse" /\ detail = NoDetail /\ edit = NoDraft /\ manager = NoManager
    /\ list = [Unlisted EXCEPT !.gen = 1, !.loading = TRUE]
    /\ side = [Uncatalogued EXCEPT !.known = catalogue]
    /\ op = [gen |-> 0, pending |-> FALSE]
    /\ reads = {Reads(1)} /\ catalogs = {} /\ writes = {}
    /\ busy = Idle /\ spent = 0 /\ over = FALSE

Live(i) == memory[i].st = "live"
Catalogs(gen) == [gen |-> gen, st |-> "sent", known |-> side.known]

\* Room for another refresh, save or change by another client.
Spend == spent < MaxEffort /\ spent' = spent + 1
Ask == Spend /\ Cardinality(reads) + Cardinality(catalogs) <= MaxInFlight

\* The loop takes a key in the given mode, or a result.
Looping == ~over /\ busy.pc = "no"
Key(m) == Looping /\ mode = m

-----------------------------------------------------------------------------
(* Refreshing.                                                             *)

\* refresh: a new generation of the listing.
Refresh(l) ==
    /\ list' = [l EXCEPT !.gen = @ + 1, !.loading = TRUE]
    /\ reads' = reads \cup {Reads(l.gen + 1)}
\* refresh_context_catalog: a new generation of the sidebar.
RefreshCatalog(s) ==
    /\ side' = [s EXCEPT !.gen = @ + 1]
    /\ catalogs' = catalogs \cup {Catalogs(s.gen + 1)}
KeepLists == UNCHANGED <<list, reads>>
KeepCatalogs == UNCHANGED <<side, catalogs>>

\* What the expansion of the selection depends on.
Effective(s) == IF s.sel = {} THEN {} ELSE {<<c, s.known[c], c \in s.sel>> : c \in Ctxs}

\* spawn_list, spawn_search: the query finds some of the memories.
ListReads(r, S) ==
    /\ ~over /\ r \in reads /\ r.st = "sent" /\ S \subseteq {i \in Ids : Live(i)}
    /\ reads' = (reads \ {r}) \cup {[r EXCEPT !.st = "rows", !.ids = S]}
    /\ UNCHANGED <<store, dialog, list, side, op, catalogs, writes, busy, spent, over>>
CatalogReads(k) ==
    /\ ~over /\ k \in catalogs /\ k.st = "sent"
    /\ catalogs' = (catalogs \ {k}) \cup {[k EXCEPT !.st = "records", !.known = catalogue]}
    /\ UNCHANGED <<store, dialog, list, side, op, reads, writes, busy, spent, over>>

\* A fault: rows are shown whatever they answer.
AnyRows(r) == TRUE
\* on_data: a listing of another generation is dropped.
CurrentRows(r) == r.gen = list.gen
ListKeeps == UNCHANGED <<store, dialog, side, op, catalogs, writes, busy, spent, over>>
OnRows(r) ==
    /\ Looping /\ r \in reads /\ r.st = "rows" /\ reads' = reads \ {r}
    /\ list' = IF CurrentRows(r) THEN [list EXCEPT !.loading = FALSE, !.rows = r.ids] ELSE list
    /\ ListKeeps
\* The listing failed; so does one of too many contexts, at once.
OnListFailed(r) ==
    /\ Looping /\ r \in reads /\ r.st = "sent" /\ reads' = reads \ {r}
    /\ list' = IF CurrentRows(r) THEN [list EXCEPT !.loading = FALSE] ELSE list
    /\ ListKeeps

\* apply_context_catalog: contexts that are gone or archived are no longer selected.
Applied(known) ==
    [side EXCEPT !.known = known, !.sel = {c \in @ : known[c] = "active"}]
CatalogArrives(k, known) ==
    /\ Looping /\ k \in catalogs /\ catalogs' = catalogs \ {k}
    /\ side' = IF k.gen = side.gen THEN Applied(known) ELSE side
    /\ IF Effective(side') # Effective(side) THEN Refresh(list) ELSE KeepLists
    /\ UNCHANGED <<store, dialog, op, writes, busy, spent, over>>
OnCatalog(k) == k.st = "records" /\ CatalogArrives(k, k.known)
\* The contexts could not be read but the memories counted: an empty catalogue.
OnCatalogEmpty(k) == k.st = "sent" /\ CatalogArrives(k, Nothing)
\* The count failed.
OnCatalogFailed(k) ==
    /\ Looping /\ k \in catalogs /\ k.st = "sent" /\ catalogs' = catalogs \ {k}
    /\ UNCHANGED <<store, dialog, list, side, op, reads, writes, busy, spent, over>>

-----------------------------------------------------------------------------
(* Browsing and searching.                                                 *)

BrowseKeeps == UNCHANGED <<store, detail, edit, manager, op, writes, busy, over>>

\* `r`, and `a`, which shows or hides the archived contexts.
KeyRefreshAll ==
    /\ Key("browse") /\ Ask /\ Refresh(list) /\ RefreshCatalog(side)
    /\ BrowseKeeps /\ UNCHANGED mode
KeyShowArchived ==
    /\ Key("browse") /\ Ask /\ RefreshCatalog(side) /\ KeepLists
    /\ BrowseKeeps /\ UNCHANGED mode
\* toggle_cursor_context on an active context, and clearing the selection; a denial changes nothing.
KeySelect(S) ==
    /\ Key("browse") /\ Ask
    /\ \/ S = {}
       \/ \E c \in Ctxs : side.known[c] = "active" /\ S = (side.sel \ {c}) \cup ({c} \ side.sel)
    /\ side' = [side EXCEPT !.sel = S] /\ Refresh(list)
    /\ BrowseKeeps /\ UNCHANGED <<mode, catalogs>>
\* toggle_context_descendants, and cycle_mode while there is a query.
KeyRerun ==
    /\ Key("browse") /\ Ask /\ Refresh(list)
    /\ BrowseKeeps /\ KeepCatalogs /\ UNCHANGED mode
KeyClearQuery ==
    /\ Key("browse") /\ Ask /\ list.query /\ Refresh([list EXCEPT !.query = FALSE])
    /\ BrowseKeeps /\ KeepCatalogs /\ UNCHANGED mode
KeySearch ==
    /\ Key("browse") /\ mode' = "search"
    /\ BrowseKeeps /\ UNCHANGED spent /\ KeepCatalogs /\ KeepLists
KeyType ==
    /\ Key("search") /\ \E q \in BOOLEAN : list' = [list EXCEPT !.query = q]
    /\ BrowseKeeps /\ UNCHANGED spent /\ KeepCatalogs /\ UNCHANGED <<mode, reads>>
KeyRunSearch ==
    /\ Key("search") /\ Ask /\ mode' = "browse" /\ Refresh(list)
    /\ BrowseKeeps /\ KeepCatalogs
KeyLeaveSearch ==
    /\ Key("search") /\ mode' = "browse"
    /\ BrowseKeeps /\ UNCHANGED spent /\ KeepCatalogs /\ KeepLists

\* request_quit: not while a change is in flight.
QuitAllowed == ~op.pending
\* The view is dropped, and with it the receiver of the tasks' results.
KeyQuit ==
    /\ Looping /\ QuitAllowed /\ over' = TRUE
    /\ mode' = "browse" /\ detail' = NoDetail /\ edit' = NoDraft /\ manager' = NoManager
    /\ list' = Unlisted /\ reads' = {} /\ side' = Uncatalogued /\ catalogs' = {}
    /\ UNCHANGED <<store, op, writes, busy, spent>>

-----------------------------------------------------------------------------
(* Inspecting a memory: the memory is read first, and then, by separate    *)
(* calls, its metadata and its memberships.                                *)

Found(i) == [id |-> i, rev |-> memory[i].rev, parts |-> 0]
PartsOf(i) == IF Live(i) THEN memory[i].parts ELSE 0

OpenKeeps == UNCHANGED <<store, edit, manager, list, side, op, tasks, spent, over>>

\* open_detail: nothing opens when the memory is gone or unreadable.
KeyOpen(i) ==
    /\ Key("browse") /\ i \in list.rows /\ Live(i)
    /\ busy' = [pc |-> "parts", now |-> Found(i)]
    /\ OpenKeeps /\ UNCHANGED <<mode, detail>>
\* load_detail_metadata, load_detail_contexts: a failure leaves them out.
OpenParts ==
    /\ busy.pc = "parts" /\ busy' = Idle
    /\ \E v \in {0, PartsOf(busy.now.id)} : detail' = [busy.now EXCEPT !.parts = v]
    /\ mode' = "detail" /\ OpenKeeps

DialogKeeps == UNCHANGED <<store, list, side, op, tasks, busy, spent, over>>

KeyClose ==
    /\ Key("detail") /\ detail' = NoDetail /\ mode' = "browse"
    /\ UNCHANGED <<edit, manager>> /\ DialogKeeps
KeyEdit ==
    /\ Key("detail") /\ ~op.pending /\ edit' = Original /\ mode' = "edit"
    /\ UNCHANGED <<detail, manager>> /\ DialogKeeps
KeyDelete ==
    /\ Key("detail") /\ ~op.pending /\ mode' = "confirmDelete"
    /\ UNCHANGED <<detail, edit, manager>> /\ DialogKeeps

\* A fault: the draft accepts keys while it is being saved.
EditTakesAll == Key("edit")
\* key_edit: no key is taken while a change is in flight.
EditTakes == Key("edit") /\ ~op.pending
KeyEditText(t) ==
    /\ EditTakes /\ t \in Drafts \ {NoDraft, edit} /\ edit' = t
    /\ UNCHANGED <<mode, detail, manager>> /\ DialogKeeps
KeyEditEsc ==
    /\ EditTakes
    /\ IF edit = Original THEN mode' = "detail" /\ edit' = NoDraft ELSE mode' = "confirmDiscard" /\ UNCHANGED edit
    /\ UNCHANGED <<detail, manager>> /\ DialogKeeps
\* spawn_save without a change to hold.
KeySaveNothing ==
    /\ EditTakes /\ edit \in {Original, Same} /\ edit' = NoDraft /\ mode' = "detail"
    /\ UNCHANGED <<detail, manager>> /\ DialogKeeps
KeyDiscard(yes) ==
    /\ Key("confirmDiscard") /\ mode' = IF yes THEN "detail" ELSE "edit"
    /\ edit' = IF yes THEN NoDraft ELSE edit
    /\ UNCHANGED <<detail, manager>> /\ DialogKeeps
KeyKeep ==
    /\ Key("confirmDelete") /\ ~op.pending /\ mode' = "detail"
    /\ UNCHANGED <<detail, edit, manager>> /\ DialogKeeps

-----------------------------------------------------------------------------
(* Saving and deleting.                                                    *)

\* A fault: the revision to expect is read when the save begins.
ExpectedNow(d) == memory[d.id].rev
\* The revision the save must still find: that of the memory on display.
ExpectedRevision(d) == d.rev
\* A listing in flight is no longer waited for.
Invalidated(l) == [l EXCEPT !.gen = @ + 1, !.loading = FALSE]

\* What spawn_save and spawn_delete do before the task runs.
Begin(kind) ==
    /\ Spend
    /\ op' = [gen |-> op.gen + 1, pending |-> TRUE]
    /\ list' = Invalidated(list)
    /\ writes' = writes \cup {[gen |-> op.gen + 1, kind |-> kind, rev |-> ExpectedRevision(detail), seen |-> detail,
                              text |-> edit, now |-> NoDetail, pc |-> "write"]}
    /\ UNCHANGED <<store, dialog, side, reads, catalogs, busy, over>>
KeySave == EditTakes /\ edit \in Texts /\ Begin("save")
KeyConfirmDelete == Key("confirmDelete") /\ ~op.pending /\ Begin("delete")

Becomes(w, x) == writes' = (writes \ {w}) \cup {x}
WriteKeeps == UNCHANGED <<catalogue, dialog, list, side, op, reads, catalogs, busy, spent, over>>

\* The row of a memory after a change, of what is kept beside it or not: the revision counts every change.
Revised(m, beside) == [m EXCEPT !.rev = @ + 1, !.parts = IF beside THEN m.rev + 1 ELSE @]
Matches(w) == Live(w.seen.id) /\ memory[w.seen.id].rev = w.rev

\* The task's write finds the revision expected, and is applied.
SaveApplies(w) ==
    /\ ~over /\ w \in writes /\ w.pc = "write" /\ Matches(w) /\ w.kind = "save"
    /\ \E beside \in BOOLEAN : memory' = [memory EXCEPT ![w.seen.id] = Revised(@, beside)]
    /\ Becomes(w, [w EXCEPT !.pc = "memory"]) /\ WriteKeeps
DeleteApplies(w) ==
    /\ ~over /\ w \in writes /\ w.pc = "write" /\ Matches(w) /\ w.kind = "delete"
    /\ memory' = [memory EXCEPT ![w.seen.id].st = "gone"]
    /\ Becomes(w, [w EXCEPT !.pc = "deleted"]) /\ WriteKeeps
\* It finds no memory, or a conflict, or an error.
WriteRefused(w) ==
    /\ ~over /\ w \in writes /\ w.pc = "write" /\ UNCHANGED memory
    /\ \/ ~Live(w.seen.id) /\ Becomes(w, [w EXCEPT !.pc = "missing"])
       \/ Becomes(w, [w EXCEPT !.pc = "failed"])
    /\ WriteKeeps
\* refresh_updated_detail.
RereadMemory(w) ==
    /\ ~over /\ w \in writes /\ w.pc = "memory" /\ UNCHANGED memory
    /\ \/ Becomes(w, IF Live(w.seen.id) THEN [w EXCEPT !.pc = "parts", !.now = Found(w.seen.id)]
                     ELSE [w EXCEPT !.pc = "invisible"])
       \/ Becomes(w, [w EXCEPT !.pc = "unrefreshed"])
    /\ WriteKeeps
RereadParts(w) ==
    /\ ~over /\ w \in writes /\ w.pc = "parts" /\ UNCHANGED memory
    /\ \E v \in {0, PartsOf(w.seen.id)} : Becomes(w, [w EXCEPT !.pc = "updated", !.now.parts = v])
    /\ WriteKeeps

Settled(pcs, w) == Looping /\ w \in writes /\ w.pc \in pcs /\ w.gen = op.gen /\ writes' = writes \ {w}
NoLongerPending == op' = [op EXCEPT !.pending = FALSE]
\* apply_updated_memory: the results of a query are asked for again.
OnUpdated(w) ==
    /\ Settled({"updated"}, w) /\ NoLongerPending
    /\ detail' = w.now /\ edit' = NoDraft /\ mode' = "detail"
    /\ IF list.query THEN Refresh(list) ELSE KeepLists
    /\ KeepCatalogs /\ UNCHANGED <<store, manager, busy, spent, over>>
\* remove_memory_from_view.
OnRemoved(w) ==
    /\ Settled({"invisible", "unrefreshed", "missing", "deleted"}, w) /\ NoLongerPending
    /\ list' = [list EXCEPT !.rows = @ \ {w.seen.id}]
    /\ detail' = NoDetail /\ edit' = NoDraft /\ mode' = "browse"
    /\ IF w.pc # "unrefreshed" THEN RefreshCatalog(side) ELSE KeepCatalogs
    /\ UNCHANGED <<store, manager, reads, busy, spent, over>>
OnFailed(w) ==
    /\ Settled({"failed"}, w) /\ NoLongerPending
    /\ mode' = IF mode = "confirmDelete" THEN "detail" ELSE mode
    /\ KeepLists /\ KeepCatalogs /\ UNCHANGED <<store, detail, edit, manager, busy, spent, over>>

-----------------------------------------------------------------------------
(* The context manager: everything it does is awaited by the loop.         *)

Loaded(c) == [ctx |-> c, draft |-> NoDraft]

KeyManager(c) ==
    /\ Key("browse") /\ side.known[c] # "absent" /\ manager' = Loaded(c) /\ mode' = "manager"
    /\ UNCHANGED <<detail, edit>> /\ DialogKeeps
KeyManagerClose ==
    /\ Key("manager") /\ manager' = NoManager /\ mode' = "browse"
    /\ UNCHANGED <<detail, edit>> /\ DialogKeeps
\* begin_context_manager_edit in some pane.
KeyManagerEdit ==
    /\ Key("manager") /\ manager' = [manager EXCEPT !.draft = Original] /\ mode' = "managerEdit"
    /\ UNCHANGED <<detail, edit>> /\ DialogKeeps
KeyManagerText(t) ==
    /\ Key("managerEdit") /\ ~op.pending /\ t \in (Texts \cup {Original}) \ {manager.draft}
    /\ manager' = [manager EXCEPT !.draft = t]
    /\ UNCHANGED <<mode, detail, edit>> /\ DialogKeeps
KeyManagerEsc ==
    /\ Key("managerEdit") /\ ~op.pending
    /\ IF manager.draft = Original THEN mode' = "manager" /\ manager' = [manager EXCEPT !.draft = NoDraft]
       ELSE mode' = "confirmManager" /\ UNCHANGED manager
    /\ UNCHANGED <<detail, edit>> /\ DialogKeeps
KeyManagerDiscard(yes) ==
    /\ Key("confirmManager") /\ mode' = IF yes THEN "manager" ELSE "managerEdit"
    /\ manager' = IF yes THEN [manager EXCEPT !.draft = NoDraft] ELSE manager
    /\ UNCHANGED <<detail, edit>> /\ DialogKeeps
KeyManagerSave ==
    /\ Key("managerEdit") /\ ~op.pending /\ Ask
    /\ op' = [op EXCEPT !.pending = TRUE] /\ busy' = [busy EXCEPT !.pc = "apply"]
    /\ UNCHANGED <<store, dialog, list, side, tasks, over>>

\* apply_context_manager_edit in the pane edited: refused, the draft stays open.
ManagerApplies ==
    /\ busy.pc = "apply" /\ NoLongerPending
    /\ \/ /\ \E x \in {"active", "archived"} : catalogue' = [catalogue EXCEPT ![manager.ctx] = x]
          /\ busy' = [busy EXCEPT !.pc = "reload"]
       \/ UNCHANGED catalogue /\ busy' = Idle
    /\ UNCHANGED <<memory, dialog, list, side, tasks, spent, over>>
\* The manager is loaded again, or given up.
ManagerReloads ==
    /\ busy.pc = "reload" /\ busy' = Idle /\ Refresh(list)
    /\ \/ /\ manager' = Loaded(manager.ctx) /\ mode' = "manager"
          /\ RefreshCatalog([side EXCEPT !.sel = IF catalogue[manager.ctx] = "active" THEN @ ELSE @ \ {manager.ctx}])
       \/ manager' = NoManager /\ mode' = "browse" /\ RefreshCatalog(side)
    /\ UNCHANGED <<store, detail, edit, op, writes, spent, over>>

-----------------------------------------------------------------------------
(* Other clients of the store.                                             *)

OthersKeep == ~over /\ Spend /\ UNCHANGED <<dialog, list, side, op, tasks, busy, over>>
OtherRevises(i) ==
    /\ Live(i) /\ \E beside \in BOOLEAN : memory' = [memory EXCEPT ![i] = Revised(@, beside)]
    /\ OthersKeep /\ UNCHANGED catalogue
OtherDeletes(i) ==
    /\ Live(i) /\ memory' = [memory EXCEPT ![i].st = "gone"]
    /\ OthersKeep /\ UNCHANGED catalogue
OtherAdministers(c) ==
    /\ \E x \in {"active", "archived"} \ {catalogue[c]} : catalogue' = [catalogue EXCEPT ![c] = x]
    /\ OthersKeep /\ UNCHANGED memory

-----------------------------------------------------------------------------
Tasks ==
    \/ \E r \in reads, S \in SUBSET Ids : ListReads(r, S)
    \/ \E k \in catalogs : CatalogReads(k)
    \/ \E w \in writes : SaveApplies(w) \/ DeleteApplies(w) \/ WriteRefused(w)
                         \/ RereadMemory(w) \/ RereadParts(w)
OnData ==
    \/ \E r \in reads : OnRows(r) \/ OnListFailed(r)
    \/ \E k \in catalogs : OnCatalog(k) \/ OnCatalogEmpty(k) \/ OnCatalogFailed(k)
    \/ \E w \in writes : OnUpdated(w) \/ OnRemoved(w) \/ OnFailed(w)
Awaited == OpenParts \/ ManagerApplies \/ ManagerReloads
OnEvent ==
    \/ KeyRefreshAll \/ KeyShowArchived \/ KeyRerun \/ KeyClearQuery
    \/ \E S \in SUBSET Ctxs : KeySelect(S)
    \/ KeySearch \/ KeyType \/ KeyRunSearch \/ KeyLeaveSearch \/ KeyQuit
    \/ \E i \in Ids : KeyOpen(i)
    \/ KeyClose \/ KeyEdit \/ KeyDelete \/ KeyEditEsc \/ KeySaveNothing \/ KeyKeep \/ KeySave \/ KeyConfirmDelete
    \/ \E t \in Drafts : KeyEditText(t) \/ KeyManagerText(t)
    \/ \E yes \in BOOLEAN : KeyDiscard(yes) \/ KeyManagerDiscard(yes)
    \/ \E c \in Ctxs : KeyManager(c)
    \/ KeyManagerEdit \/ KeyManagerClose \/ KeyManagerEsc \/ KeyManagerSave
Others ==
    \/ \E i \in Ids : OtherRevises(i) \/ OtherDeletes(i)
    \/ \E c \in Ctxs : OtherAdministers(c)
Next == OnEvent \/ OnData \/ Awaited \/ Tasks \/ Others

Spec == Init /\ [][Next]_vars

-----------------------------------------------------------------------------
(* Properties.                                                             *)

\* The two marks of waiting are exact.  `pending` is up exactly while one save, deletion or context edit is in
\* flight, the one whose answer will be taken, and the operator cannot leave before it has come.  `loading` is up
\* exactly while the listing it waits for is still to come: a save, a deletion, a late listing or a catalogue
\* that arrives meanwhile neither ends the wait early nor leaves it without end.
WaitsExact ==
    /\ op.pending <=> (writes # {} \/ busy.pc = "apply")
    /\ Cardinality(writes) <= 1 /\ \A w \in writes : w.gen = op.gen
    /\ over => writes = {}
    /\ ~over => (list.loading <=> \E r \in reads : r.gen = list.gen)

\* A save that is applied found the memory, its metadata and its memberships as the operator saw them when
\* the draft was opened, however many reads of however many calls had put them on display.
SavesWhatWasShown ==
    [][\A w \in writes : SaveApplies(w) =>
          LET now == memory[w.seen.id] IN
          /\ w.seen.rev = now.rev /\ w.seen.parts \in {0, now.parts}]_vars

\* A changed draft ends by the operator's own keys, or by the answer to the save of this very text;
\* a refused save and every other message leave it alone.
DraftNeverLost ==
    [][/\ (edit \in Texts /\ edit' # edit) =>
             \/ mode = "edit" /\ edit' # NoDraft
             \/ mode = "confirmDiscard" \/ over'
             \/ \E w \in writes : w.text = edit /\ w.pc # "failed" /\ w \notin writes'
       /\ (manager.draft \in Texts /\ manager'.draft # manager.draft) =>
             \/ mode = "confirmManager" \/ over'
             \/ mode = "managerEdit" /\ (manager'.draft # NoDraft \/ busy.pc = "reload")]_vars
=============================================================================
