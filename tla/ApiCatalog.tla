------------------------------- MODULE ApiCatalog -------------------------------
(***************************************************************************)
(* The API catalogue: useApiCatalog.ts, which loads the inventory of a      *)
(* workspace page by page and keeps the lists it completed, against         *)
(* list_api_endpoints (commands/api_inventory.rs and store/api_inventory/   *)
(* query.rs), where a cursor names the last operation of a page.  The index *)
(* changes between two pages, and another workspace may be opened.          *)
(***************************************************************************)
EXTENDS Integers, Sequences, FiniteSets, FiniteSetsExt, SequencesExt

CONSTANTS
    Operations,        \* ids of operations, numbers: the order of the inventory
    AllOperations,     \* the empty query
    NarrowQueries,     \* the other ones
    Matching,          \* what a narrow query finds
    CatalogPage,       \* PAGE_SIZE
    MaxEndpoints,      \* MAX_ENDPOINTS
    CacheSize,         \* of completedCache
    CatalogRoots,      \* workspaces
    Scanned,           \* inventories that an opening may find
    MaxCatalogActs     \* bound on what the user and the worker do

ASSUME ApiCatalogAssumption ==
    /\ Operations \subseteq Nat /\ IsFiniteSet(Operations) /\ AllOperations \notin NarrowQueries
    /\ CatalogRoots # {}
    /\ Scanned \subseteq SUBSET Operations /\ Matching \in [NarrowQueries -> SUBSET Operations]
    /\ {CatalogPage, MaxEndpoints, CacheSize} \subseteq Nat \ {0} /\ MaxCatalogActs \in Nat

VARIABLES
    servedRoot,       \* the workspace that the backend has open
    inventory,        \* the operations of its index
    catalogRoot,      \* workspaceId and workspaceGeneration of the renderer
    catalogEra,
    catalogQuery,     \* normalizedQuery
    debouncedQuery,
    catalog,          \* what the hook returns for its key
    load,             \* the loop of the newest effect; a cancelled one changes nothing
    completed,        \* completedCache, the oldest entry first
    catalogSwitched,  \* the backend has opened a workspace that is not yet adopted
    catalogActs

catalogVars == <<servedRoot, inventory, catalogRoot, catalogEra, catalogQuery, debouncedQuery,
                 catalog, load, completed, catalogSwitched, catalogActs>>

CatalogQueries == NarrowQueries \cup {AllOperations}
MaxPages == (MaxEndpoints + CatalogPage - 1) \div CatalogPage
NoCursor == -1

FoundIn(operations, q) ==
    IF q = AllOperations THEN operations ELSE operations \cap Matching[q]
Found(q) == FoundIn(inventory, q)

\* A list with, as history, what its load could have found: the operations that were
\* there from its beginning to its end, at any time, and with its last page.
Keys == [root : CatalogRoots, era : Nat, query : CatalogQueries]
Lists == [key : Keys, items : SUBSET Operations, steady : SUBSET Operations,
          ever : SUBSET Operations, last : SUBSET Operations]
EmptyList(key) == [key |-> key, items |-> {}, steady |-> {}, ever |-> {}, last |-> {}]

\* The answer that is under way.
NoAnswer == [items |-> {}, total |-> 0, next |-> NoCursor]

CatalogTypeOK ==
    /\ servedRoot \in CatalogRoots /\ inventory \subseteq Operations
    /\ catalogRoot \in CatalogRoots /\ catalogEra \in Nat
    /\ catalogQuery \in CatalogQueries /\ debouncedQuery \in CatalogQueries
    /\ catalog \in [phase : {"loading", "ready", "error"}, list : Lists]
    /\ load \in [stage : {"none", "asked", "served", "answered", "failed"}, list : Lists,
                 cursor : Operations \cup {NoCursor}, visited : SUBSET Operations,
                 pages : 0..MaxPages,
                 answer : [items : SUBSET Operations, total : Nat,
                           next : Operations \cup {NoCursor}]]
    /\ completed \in Seq(Lists) /\ Len(completed) <= CacheSize
    /\ catalogSwitched \in BOOLEAN /\ catalogActs \in 0..MaxCatalogActs

Key == [root |-> catalogRoot, era |-> catalogEra, query |-> debouncedQuery]

NoKey == [root |-> CHOOSE w \in CatalogRoots : TRUE, era |-> 0, query |-> AllOperations]
NoLoad == [stage |-> "none", list |-> EmptyList(NoKey), cursor |-> NoCursor,
           visited |-> {}, pages |-> 0, answer |-> NoAnswer]
FirstLoad(key, found) ==
    [NoLoad EXCEPT !.stage = "asked",
                   !.list = [EmptyList(key) EXCEPT !.steady = found, !.ever = found]]

CatalogInit ==
    /\ servedRoot = NoKey.root /\ inventory \in Scanned
    /\ catalogRoot = servedRoot /\ catalogEra = 1
    /\ catalogQuery = AllOperations /\ debouncedQuery = AllOperations
    /\ catalog = [phase |-> "loading", list |-> EmptyList(Key)]
    /\ load = FirstLoad(Key, inventory)
    /\ completed = <<>> /\ catalogSwitched = FALSE /\ catalogActs = 0

--------------------------------------------------------------------------------
(* The hook.                                                               *)

CatalogActs == catalogActs < MaxCatalogActs /\ catalogActs' = catalogActs + 1

\* Seeded fault: a list is kept for its workspace and query only.
SameList(key, kept) == key.root = kept.root /\ key.query = kept.query

IsCompleted(key, kept) == key = kept

\* The effect for a key: a list that was completed is shown, another is loaded.
LoadCatalog(key, found) ==
    LET ready == {i \in DOMAIN completed : IsCompleted(key, completed[i].key)}
    IN  \/ \E i \in ready :
             catalog' = [phase |-> "ready", list |-> completed[i]] /\ load' = NoLoad
        \/ /\ ready = {} /\ load' = FirstLoad(key, found)
           /\ catalog' = [phase |-> "loading", list |-> EmptyList(key)]

TypeCatalogQuery(q) ==
    /\ CatalogActs /\ q # catalogQuery /\ catalogQuery' = q
    /\ UNCHANGED <<servedRoot, inventory, catalogRoot, catalogEra, debouncedQuery, catalog,
                   load, completed, catalogSwitched>>

\* The timer of 180 ms.  The effect follows a change of the query only.
DebounceCatalog ==
    /\ catalogQuery # debouncedQuery /\ debouncedQuery' = catalogQuery
    /\ LoadCatalog([Key EXCEPT !.query = catalogQuery], Found(catalogQuery))
    /\ UNCHANGED <<servedRoot, inventory, catalogRoot, catalogEra, catalogQuery, completed,
                   catalogSwitched, catalogActs>>

RetryCatalog ==
    /\ CatalogActs /\ catalog.phase = "error"
    /\ LoadCatalog(Key, Found(debouncedQuery))
    /\ UNCHANGED <<servedRoot, inventory, catalogRoot, catalogEra, catalogQuery,
                   debouncedQuery, completed, catalogSwitched>>

\* The catalogue is left and shown again: completedCache is of the module.
ReturnToCatalog ==
    /\ CatalogActs /\ catalogQuery' = AllOperations /\ debouncedQuery' = AllOperations
    /\ LoadCatalog([Key EXCEPT !.query = AllOperations], Found(AllOperations))
    /\ UNCHANGED <<servedRoot, inventory, catalogRoot, catalogEra, completed, catalogSwitched>>

\* cacheCompleted: an entry of the same key is replaced, the oldest leaves a full cache.
Remember(list) ==
    LET same == {i \in DOMAIN completed : completed[i].key = list.key}
        others == IF same = {} THEN completed ELSE RemoveAt(completed, CHOOSE i \in same : TRUE)
    IN  Append(IF Len(others) = CacheSize THEN Tail(others) ELSE others, list)

\* Seeded fault: the list ends with the cursors, whatever their total says.
StoppedWithTheCursor(items, total) == FALSE

StoppedEarly(items, total) == Cardinality(items) < total

\* The body of the loop.
EndLoad(phase, list) ==
    /\ catalog' = [phase |-> phase, list |-> list] /\ load' = NoLoad
    /\ completed' = IF phase = "ready" THEN Remember(list) ELSE completed

TakePage ==
    /\ load.stage \in {"answered", "failed"}
    /\ LET page == load.answer
           list == [load.list EXCEPT !.items = @ \cup page.items]
       IN  IF load.stage = "failed" \/ page.total > MaxEndpoints
           THEN EndLoad("error", load.list)
           ELSE IF page.next = NoCursor
           THEN EndLoad(IF StoppedEarly(list.items, page.total) THEN "error" ELSE "ready", list)
           ELSE IF page.next \in load.visited \/ load.pages + 1 = MaxPages
           THEN EndLoad("error", list)
           ELSE /\ catalog' = [phase |-> "loading", list |-> list]
                /\ load' = [load EXCEPT !.stage = "asked", !.list = list, !.cursor = page.next,
                                        !.visited = @ \cup {page.next}, !.pages = @ + 1,
                                        !.answer = NoAnswer]
                /\ UNCHANGED completed
    /\ UNCHANGED <<servedRoot, inventory, catalogRoot, catalogEra, catalogQuery,
                   debouncedQuery, catalogSwitched, catalogActs>>

--------------------------------------------------------------------------------
(* list_api_endpoints.                                                     *)

\* A page of operations, in their order.
FirstOf(operations) ==
    {o \in operations : Cardinality({p \in operations : p < o}) < CatalogPage}

\* Under the lock of the store: the cursor is looked for, the whole is counted and one
\* operation more than the page is read.
ServePage ==
    /\ load.stage = "asked"
    /\ LET found == Found(load.list.key.query)
           rest == {o \in found : o > load.cursor}
           page == FirstOf(rest)
       IN  IF \/ load.list.key.root # servedRoot
              \/ load.cursor # NoCursor /\ load.cursor \notin found
           THEN load' = [load EXCEPT !.stage = "failed"]
           ELSE load' = [load EXCEPT !.stage = "served", !.list.last = found, !.answer =
                    [items |-> page, total |-> Cardinality(found),
                     next |-> IF page = rest THEN NoCursor ELSE Max(page)]]
    /\ UNCHANGED <<servedRoot, inventory, catalogRoot, catalogEra, catalogQuery,
                   debouncedQuery, catalog, completed, catalogSwitched, catalogActs>>

\* while_workspace_current, or an error of the database.
EndPage ==
    /\ load.stage = "served"
    /\ \/ load.list.key.root = servedRoot /\ load' = [load EXCEPT !.stage = "answered"]
       \/ load' = [load EXCEPT !.stage = "failed"]
    /\ UNCHANGED <<servedRoot, inventory, catalogRoot, catalogEra, catalogQuery,
                   debouncedQuery, catalog, completed, catalogSwitched, catalogActs>>

--------------------------------------------------------------------------------
(* The index and the openings.                                             *)

\* History: what the load under way could still find.
Witnessed(root, operations) ==
    LET found == FoundIn(operations, load.list.key.query)
    IN  IF load.stage = "none" \/ load.list.key.root # root THEN load
        ELSE [load EXCEPT !.list.steady = @ \cap found, !.list.ever = @ \cup found]

\* A commit of the worker; one file at a time, of one operation here.
ChangeInventory(operations) ==
    /\ Cardinality(operations \ inventory) <= 1 /\ Cardinality(inventory \ operations) <= 1
    /\ CatalogActs /\ operations # inventory /\ inventory' = operations
    /\ load' = Witnessed(servedRoot, operations)
    /\ UNCHANGED <<servedRoot, catalogRoot, catalogEra, catalogQuery, debouncedQuery, catalog,
                   completed, catalogSwitched>>

\* The backend has switched.  An opening that is cancelled changes nothing here.
OpenCatalogRoot(w, operations) ==
    /\ CatalogActs /\ ~catalogSwitched /\ catalogSwitched' = TRUE
    /\ servedRoot' = w /\ inventory' = operations /\ load' = Witnessed(w, operations)
    /\ UNCHANGED <<catalogRoot, catalogEra, catalogQuery, debouncedQuery, catalog, completed>>

\* adoptWorkspace: the id and the generation change, also for the same workspace.
AdoptCatalog ==
    /\ catalogSwitched /\ catalogSwitched' = FALSE
    /\ catalogRoot' = servedRoot /\ catalogEra' = catalogEra + 1
    /\ LoadCatalog([root |-> servedRoot, era |-> catalogEra + 1, query |-> debouncedQuery],
                   Found(debouncedQuery))
    /\ UNCHANGED <<servedRoot, inventory, catalogQuery, debouncedQuery, completed, catalogActs>>

CatalogNext ==
    \/ \E q \in CatalogQueries : TypeCatalogQuery(q)
    \/ DebounceCatalog \/ RetryCatalog \/ ReturnToCatalog
    \/ TakePage \/ ServePage \/ EndPage
    \/ \E operations \in SUBSET Operations : ChangeInventory(operations)
    \/ \E w \in CatalogRoots, operations \in Scanned : OpenCatalogRoot(w, operations)
    \/ AdoptCatalog

--------------------------------------------------------------------------------
(* Properties.                                                             *)

\* useApiCatalog and list_api_endpoints: a list that is shown as complete is of the
\* open workspace and of the query, and whatever the index did while its pages were
\* read, it holds every operation that was there all the time and none that never
\* was; it misses no more operations of the index that its last page saw than it
\* shows ones that are gone.  An index that stands still is listed exactly, a change
\* may pass unseen only by such an exchange.  And a catalogue that is loading has a
\* loop that will end it, with a list or with an error.
CatalogIsWhole ==
    LET list == catalog.list IN
    /\ catalog.phase = "ready" =>
         /\ list.key = Key
         /\ list.steady \subseteq list.items /\ list.items \subseteq list.ever
         /\ Cardinality(list.last \ list.items) <= Cardinality(list.items \ list.last)
         /\ Cardinality(list.items) <= CatalogPage * MaxPages
    /\ catalog.phase = "loading" <=> load.stage # "none"
CatalogInv == CatalogTypeOK /\ CatalogIsWhole
================================================================================
