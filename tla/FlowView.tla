-------------------------------- MODULE FlowView --------------------------------
(***************************************************************************)
(* The execution flow of the renderer (useWorkspaceGraphs, traceRoot,       *)
(* loadNext and replace, with queryExecutionFlow and mergeExecutionFlow of  *)
(* graphQueries): a flow is traced from a root and paged by a cursor; a     *)
(* request counter and the workspace generation decide whose answer counts. *)
(***************************************************************************)
EXTENDS Naturals, Sequences, SequencesExt

CONSTANTS
    Roots,          \* nodes the user may trace, each of as many pages as Pages
    NoRoot,
    Pages,          \* pages of the flow of a root
    ClientPages,    \* MAX_EXECUTION_FLOW_PAGES
    MaxRequests     \* bound on the requests of the user and on the reloads

ASSUME FlowAssumption ==
    NoRoot \notin Roots /\ {Pages, ClientPages} \subseteq Nat \ {0} /\ MaxRequests \in Nat

VARIABLES
    era,           \* generationRef
    flowRequest,   \* flowRequestRef
    flow,          \* the roots the shown pages are of, in the order of the pages
    limited,       \* clientPagingLimited
    queryRoot,     \* flowQueryRootId
    flowLoading,
    queries,       \* requests under way
    traced         \* history: the roots the last trace allows, none after a reload

flowVars == <<era, flowRequest, flow, limited, queryRoot, flowLoading, queries, traced>>

Page == [root : Roots, number : 1..Pages]
Query == [era : Nat, request : Nat, root : Roots, page : 1..Pages,
          fallback : Roots \cup {NoRoot}, more : BOOLEAN]

FlowTypeOK ==
    /\ era \in Nat /\ flowRequest \in Nat /\ limited \in BOOLEAN
    /\ flow \in Seq(Page) /\ queryRoot \in Roots \cup {NoRoot} /\ flowLoading \in BOOLEAN
    /\ queries \in Seq(Query) /\ traced \subseteq Roots

FlowInit ==
    /\ era = 0 /\ flowRequest = 0 /\ flow = <<>> /\ limited = FALSE
    /\ queryRoot = NoRoot /\ flowLoading = FALSE /\ queries = <<>>
    /\ traced = {}

\* The counter and the generation together bound what is asked.
MayAsk == era + flowRequest < MaxRequests
HasNext == flow # <<>> /\ Last(flow).number < Pages

Ask(root, page, fallback, more) ==
    /\ flowRequest' = flowRequest + 1 /\ flowLoading' = TRUE
    /\ queries' = Append(queries, [era |-> era, request |-> flowRequest + 1, root |-> root,
                                   page |-> page, fallback |-> fallback, more |-> more])

\* traceRoot, of a node or of an endpoint with its handler as the fallback.
TraceRoot(root, fallback) ==
    /\ MayAsk /\ Ask(root, 1, fallback, FALSE) /\ traced' = {root, fallback} \ {NoRoot}
    /\ UNCHANGED <<era, flow, limited, queryRoot>>

\* loadNext
LoadNext ==
    /\ MayAsk /\ queryRoot # NoRoot /\ HasNext /\ ~limited /\ ~flowLoading
    /\ Ask(queryRoot, Last(flow).number + 1, NoRoot, TRUE)
    /\ UNCHANGED <<era, flow, limited, queryRoot, traced>>

\* Seeded fault: an answer counts in its generation, whatever was asked since.
GenerousCounts(query) == query.era = era

Counts(query) == query.era = era /\ query.request = flowRequest

\* The root that the shown flow can be paged from.
RootOf(query) == query.root

\* mergeExecutionFlow: the next page joins the shown ones; a traced flow does not.
Merged(query) ==
    LET page == [root |-> query.root, number |-> query.page]
    IN  IF query.more THEN Append(flow, page) ELSE <<page>>

\* The client pages no further, although the backend could.
LimitedBy(query) ==
    query.more /\ (limited \/ (Len(Merged(query)) >= ClientPages /\ query.page < Pages))

FlowAnswer(i) ==
    LET query == queries[i]
    IN  /\ queries' = RemoveAt(queries, i)
        /\ IF Counts(query)
           THEN /\ flow' = Merged(query) /\ flowLoading' = FALSE
                /\ limited' = LimitedBy(query)
                /\ queryRoot' = IF query.more THEN queryRoot ELSE RootOf(query)
           ELSE UNCHANGED <<flow, limited, queryRoot, flowLoading>>
        /\ UNCHANGED <<era, flowRequest, traced>>

\* A refused query: a trace of an endpoint tries its handler, else it is an error
\* and the flow of before stays.
FlowRefused(i) ==
    LET query == queries[i] IN
    IF query.fallback \notin {NoRoot, query.root}
    THEN /\ queries' = [queries EXCEPT ![i].root = query.fallback, ![i].fallback = NoRoot]
         /\ UNCHANGED <<era, flowRequest, flow, limited, queryRoot, flowLoading, traced>>
    ELSE /\ queries' = RemoveAt(queries, i)
         /\ flowLoading' = (flowLoading /\ ~Counts(query))
         /\ traced' = IF Counts(query) THEN {queryRoot} \ {NoRoot} ELSE traced
         /\ UNCHANGED <<era, flowRequest, flow, limited, queryRoot>>

\* replace: a load of the workspace is shown with its default flow, or none.
ReplaceFlow ==
    /\ MayAsk /\ flowRequest' = flowRequest + 1
    /\ flowLoading' = FALSE /\ limited' = FALSE /\ traced' = {}
    /\ \/ \E root \in Roots : flow' = <<[root |-> root, number |-> 1]>> /\ queryRoot' = root
       \/ flow' = <<>> /\ queryRoot' = NoRoot
    /\ UNCHANGED <<era, queries>>

\* The generation ends when an opening begins; the flow of a cancelled one stays.
NextEra ==
    /\ MayAsk /\ era' = era + 1
    /\ UNCHANGED <<flowRequest, flow, limited, queryRoot, flowLoading, queries, traced>>

FlowNext ==
    \/ \E root \in Roots, fallback \in Roots \cup {NoRoot} : TraceRoot(root, fallback)
    \/ LoadNext \/ ReplaceFlow \/ NextEra
    \/ \E i \in DOMAIN queries : FlowAnswer(i) \/ FlowRefused(i)

FlowSpec == FlowInit /\ [][FlowNext]_flowVars

--------------------------------------------------------------------------------
(* Properties.                                                             *)

\* The shown pages are those of one root from the first on, without a gap or a
\* page twice, the next page is asked of that root, and once nothing is loading
\* it is the root that was traced last, not one that answered later: however
\* traces, pages and reloads overtake each other.
FlowIsOneRoot ==
    \A i \in DOMAIN flow : flow[i] = [root |-> queryRoot, number |-> i]
LastTraceWins == ~flowLoading /\ traced # {} => queryRoot \in traced
FlowIsOfLastTrace == FlowIsOneRoot /\ LastTraceWins
================================================================================
