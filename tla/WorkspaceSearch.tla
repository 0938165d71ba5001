---------------------------- MODULE WorkspaceSearch ----------------------------
(***************************************************************************)
(* The search of the open workspace: SearchPanel.tsx with its debounce and  *)
(* its request generation, against search_workspace of search/commands.rs,  *)
(* where every search that begins cancels the one before it (search/        *)
(* state.rs).  A cancelled search is answered all the same, with what it    *)
(* has found so far.                                                        *)
(***************************************************************************)
EXTENDS Naturals

CONSTANTS
    Queries,     \* what the user may type, trimmed
    NoQuery,     \* the empty query
    Searches,    \* slots for searchWorkspace calls in flight
    NoSearch,    \* no call has the newest request generation
    Folders,     \* workspaces
    MaxTyped     \* bound on what the user begins

ASSUME WorkspaceSearchAssumption ==
    NoQuery \notin Queries /\ NoSearch \notin Searches /\ MaxTyped \in Nat

VARIABLES
    indexRoot,     \* the workspace that the backend has open
    searches,      \* SearchState.latest_generation
    query,         \* normalizedQuery
    search,        \* the state the panel shows
    debounce,      \* the timer of 170 ms
    newest,        \* the call that holds requestGeneration
    searchCall,    \* the calls in flight
    searchRoot,    \* the workspace of the renderer
    searchOpening, \* another workspace: "no", "asked" or "switched" in the backend
    typed          \* what was begun so far

searchVars == <<indexRoot, searches, query, search, debounce, newest, searchCall,
                searchRoot, searchOpening, typed>>

Idle == [phase |-> "idle", query |-> NoQuery, root |-> NoQuery, whole |-> FALSE]
NoSearchCall == [stage |-> "idle", query |-> NoQuery, root |-> NoQuery, token |-> 0,
                 whole |-> FALSE, overtaken |-> FALSE]

SearchTypeOK ==
    /\ indexRoot \in Folders /\ searchRoot \in Folders /\ searches \in Nat
    /\ query \in Queries \cup {NoQuery} /\ debounce \in BOOLEAN
    /\ search \in [phase : {"idle", "searching", "ready", "error"},
                   query : Queries \cup {NoQuery}, root : Folders \cup {NoQuery},
                   whole : BOOLEAN]
    /\ newest \in Searches \cup {NoSearch}
    /\ searchCall \in [Searches ->
         [stage : {"idle", "asked", "begun", "searched", "answered", "failed"},
          query : Queries \cup {NoQuery}, root : Folders \cup {NoQuery}, token : Nat,
          whole : BOOLEAN, overtaken : BOOLEAN]]
    /\ searchOpening \in {"no", "asked", "switched"} /\ typed \in 0..MaxTyped

SearchInit ==
    /\ indexRoot \in Folders /\ searchRoot = indexRoot /\ searches = 0
    /\ query = NoQuery /\ search = Idle /\ debounce = FALSE /\ newest = NoSearch
    /\ searchCall = [c \in Searches |-> NoSearchCall]
    /\ searchOpening = "no" /\ typed = 0

Begins == typed < MaxTyped /\ typed' = typed + 1

--------------------------------------------------------------------------------
(* The panel.                                                              *)

\* The effect that follows the query: the generation moves on, the timer of the
\* query before is cleared, and there is nothing to ask for an empty one.
Type(q) ==
    /\ q # query /\ searchOpening = "no" /\ Begins
    /\ query' = q /\ newest' = NoSearch /\ debounce' = (q # NoQuery)
    /\ search' = IF q = NoQuery THEN Idle ELSE [Idle EXCEPT !.phase = "searching", !.query = q]
    /\ UNCHANGED <<indexRoot, searches, searchCall, searchRoot, searchOpening>>

SearchIsAsked(c) ==
    /\ debounce /\ searchCall[c].stage = "idle"
    /\ debounce' = FALSE /\ newest' = c
    /\ searchCall' = [searchCall EXCEPT ![c] = [NoSearchCall EXCEPT
                          !.stage = "asked", !.query = query, !.root = searchRoot]]
    /\ UNCHANGED <<indexRoot, searches, query, search, searchRoot, searchOpening, typed>>

AnswerCounts(c) == c = newest

AnswerSearch(c) ==
    LET call == searchCall[c]
    IN  /\ call.stage \in {"answered", "failed"}
        /\ searchCall' = [searchCall EXCEPT ![c] = NoSearchCall]
        /\ newest' = IF newest = c THEN NoSearch ELSE newest
        /\ search' = IF ~AnswerCounts(c) THEN search
                     ELSE [phase |-> IF call.stage = "answered" THEN "ready" ELSE "error",
                           query |-> call.query, root |-> call.root,
                           whole |-> call.whole \/ call.overtaken]
        /\ UNCHANGED <<indexRoot, searches, query, debounce, searchRoot, searchOpening, typed>>

--------------------------------------------------------------------------------
(* search_workspace.                                                       *)

\* The id is compared and a token taken.  Nothing orders the commands of two
\* calls: an older one that begins last cancels the newest.
BeginSearch(c) ==
    /\ searchCall[c].stage = "asked"
    /\ IF searchCall[c].root # indexRoot
       THEN searches' = searches /\ searchCall' = [searchCall EXCEPT ![c].stage = "failed"]
       ELSE /\ searches' = searches + 1
            /\ searchCall' = [d \in Searches |->
                 IF d = c THEN [searchCall[c] EXCEPT !.stage = "begun", !.token = searches + 1]
                 ELSE [searchCall[d] EXCEPT !.overtaken = @ \/ (d = newest /\
                                     searchCall[d].stage \in {"begun", "searched"})]]
    /\ UNCHANGED <<indexRoot, query, search, debounce, newest, searchRoot, searchOpening, typed>>

\* A newer token cuts the search short.  So do its limits, which the panel tells;
\* they are left out.
RunSearch(c) ==
    /\ searchCall[c].stage = "begun"
    /\ searchCall' = [searchCall EXCEPT ![c].stage = "searched",
                                        ![c].whole = searchCall[c].token = searches]
    /\ UNCHANGED <<indexRoot, searches, query, search, debounce, newest, searchRoot,
                   searchOpening, typed>>

EndSearch(c) ==
    /\ searchCall[c].stage \in {"begun", "searched"}
    /\ \/ /\ searchCall[c].stage = "searched" /\ searchCall[c].root = indexRoot
          /\ searchCall' = [searchCall EXCEPT ![c].stage = "answered"]
       \/ searchCall' = [searchCall EXCEPT ![c].stage = "failed"]
    /\ UNCHANGED <<indexRoot, searches, query, search, debounce, newest, searchRoot,
                   searchOpening, typed>>

--------------------------------------------------------------------------------
(* Openings.                                                               *)

BeginSearchOpening ==
    /\ searchOpening = "no" /\ Begins /\ searchOpening' = "asked"
    /\ UNCHANGED <<indexRoot, searches, query, search, debounce, newest, searchCall, searchRoot>>

SearchOpeningInstalls(w) ==
    /\ searchOpening = "asked"
    /\ \/ searchOpening' = "switched" /\ indexRoot' = w
       \/ searchOpening' = "no" /\ UNCHANGED indexRoot   \* cancelled or failed
    /\ UNCHANGED <<searches, query, search, debounce, newest, searchCall, searchRoot, typed>>

\* workspaceGeneration changes, also for the workspace that was open already.
AdoptFolder ==
    /\ searchOpening = "switched" /\ searchOpening' = "no"
    /\ searchRoot' = indexRoot /\ query' = NoQuery /\ search' = Idle
    /\ debounce' = FALSE /\ newest' = NoSearch
    /\ UNCHANGED <<indexRoot, searches, searchCall, typed>>

SearchNext ==
    \/ \E q \in Queries \cup {NoQuery} : Type(q)
    \/ \E c \in Searches : \/ SearchIsAsked(c) \/ AnswerSearch(c)
                           \/ BeginSearch(c) \/ RunSearch(c) \/ EndSearch(c)
    \/ BeginSearchOpening \/ AdoptFolder
    \/ \E w \in Folders : SearchOpeningInstalls(w)

--------------------------------------------------------------------------------
(* Properties.                                                             *)

\* SearchPanel and SearchState: what is shown as found is of the query in the
\* field and of the open workspace, and was not cut short by a search that is
\* older, but for one whose command overtook it; and the panel searches only
\* while a timer or a call of its query will tell the end of it.
SearchIsOfItsQuery ==
    /\ search.phase = "ready" => /\ search.query = query
                                 /\ search.root = searchRoot
                                 /\ search.whole
    /\ search.phase = "searching" => \/ debounce
                                     \/ newest # NoSearch /\ searchCall[newest].query = query
================================================================================
