------------------------------- MODULE FlowPages -------------------------------
(***************************************************************************)
(* What the pages of an execution flow hold: query_execution_flow of        *)
(* store/execution_flow/query.rs, a bounded breadth-first walk from a root  *)
(* whose own links are paged by an offset, and mergeExecutionFlow of        *)
(* graphQueries.ts, which joins the pages.  A walk holds the lock of the    *)
(* store; the index changes between two walks.  Whose answer counts is      *)
(* FlowView's subject.                                                      *)
(***************************************************************************)
EXTENDS Naturals, Sequences, FiniteSets

CONSTANTS
    FlowNodes,         \* nodes of the graph, a set of numbers: the order of the rows
    FlowRoot,          \* the traced endpoint
    MaxFacts,          \* bound on what an indexed graph records
    FlowLimits,        \* settings of the limits of a query and of the renderer
    MaxFlowAsks        \* bound on the queries and the changes

ASSUME FlowPagesAssumption ==
    /\ FlowNodes \subseteq Nat /\ IsFiniteSet(FlowNodes) /\ FlowRoot \in FlowNodes
    /\ MaxFacts \in Nat
    /\ FlowLimits \subseteq [nodes : Nat \ {0, 1}, page : Nat \ {0}, children : Nat \ {0},
                             depth : Nat \ {0}, edges : Nat \ {0}, expansions : Nat \ {0},
                             scanned : Nat \ {0}, clientNodes : Nat \ {0},
                             clientEdges : Nat \ {0}, clientPages : Nat \ {0}]
    /\ MaxFlowAsks \in Nat

VARIABLES
    graph,         \* the index: calls, the guessed ones of them, clients, hidden nodes
    flowLimit,     \* the limits of the behaviour
    walk,          \* the query under way
    shownFlow,     \* the flow of the renderer
    graphChanged,  \* history: since the first page of the shown flow
    flowAsks

flowPagesVars == <<graph, flowLimit, walk, shownFlow, graphChanged, flowAsks>>

Others == FlowNodes \ {FlowRoot}
Graphs == [calls : SUBSET (FlowNodes \X FlowNodes), guesses : SUBSET (FlowNodes \X FlowNodes),
           clients : SUBSET Others, hidden : SUBSET Others]
Facts(g) == Cardinality(g.calls) + Cardinality(g.guesses) + Cardinality(g.clients)
            + Cardinality(g.hidden)

\* Edges have the identity stable_id gives them: the link of the root to a client
\* and the link of the client to its producer are one edge.
CallEdge(n, m) == [kind |-> "call", source |-> n, target |-> m]
RouteEdge(c) == [kind |-> "route", source |-> c, target |-> FlowRoot]
FlowEdges == [kind : {"call", "route"}, source : FlowNodes, target : FlowNodes]

NoWalk == [on |-> FALSE, more |-> FALSE, next |-> 0, links |-> <<>>, queue |-> <<>>,
           nodes |-> {}, guessed |-> {}, edges |-> {}, cut |-> FALSE, added |-> 0,
           full |-> FALSE, expansions |-> 0, scanned |-> 0]
NoFlow == [nodes |-> {}, guessed |-> {}, edges |-> {}, links |-> <<>>, pages |-> 0, next |-> 0,
           more |-> FALSE, truncated |-> FALSE, limited |-> FALSE, forgotten |-> FALSE]

FlowPagesTypeOK ==
    /\ graph \in Graphs /\ flowLimit \in FlowLimits /\ flowAsks \in 0..MaxFlowAsks
    /\ graphChanged \in BOOLEAN
    /\ walk \in [on : BOOLEAN, more : BOOLEAN, next : Nat, links : Seq(FlowEdges),
                 queue : Seq([node : FlowNodes, depth : Nat]), nodes : SUBSET FlowNodes,
                 guessed : SUBSET FlowNodes, edges : SUBSET FlowEdges, cut : BOOLEAN,
                 added : Nat, full : BOOLEAN, expansions : Nat, scanned : Nat]
    /\ Cardinality(walk.nodes) <= flowLimit.nodes
    /\ Cardinality(walk.edges) <= flowLimit.edges
    /\ shownFlow \in [nodes : SUBSET FlowNodes, guessed : SUBSET FlowNodes,
                      edges : SUBSET FlowEdges, links : Seq(FlowEdges), pages : Nat,
                      next : Nat, more : BOOLEAN, truncated : BOOLEAN, limited : BOOLEAN,
                      forgotten : BOOLEAN]
    /\ Cardinality(shownFlow.nodes) <= flowLimit.clientNodes
    /\ Cardinality(shownFlow.edges) <= flowLimit.clientEdges

FlowPagesInit ==
    /\ graph \in {g \in Graphs : g.guesses \subseteq g.calls /\ Facts(g) <= MaxFacts}
    /\ flowLimit \in FlowLimits /\ walk = NoWalk /\ shownFlow = NoFlow
    /\ graphChanged = FALSE /\ flowAsks = 0

--------------------------------------------------------------------------------
(* The links of a node.                                                     *)

\* The rows of a result in their order.
Ranked(s, i) == CHOOSE m \in s : Cardinality({k \in s : k < m}) = i - 1
Ordered(s) == [i \in 1..Cardinality(s) |-> Ranked(s, i)]

\* A resolved call, a reversed relation and the handler of an endpoint are rows
\* alike here.  One whose target is_excluded_node refuses is counted and paged with
\* the others and dropped from what is read: path_filter and is_excluded_node differ,
\* e.g. on fixtures/ at the root of the workspace.
Targets(n) == {m \in FlowNodes : <<n, m>> \in graph.calls}
Rows(n) == Ordered(Targets(n))
CallLink(n, m) == [node |-> m, edge |-> CallEdge(n, m), guess |-> <<n, m>> \in graph.guesses]
Read(n, offset, count) ==
    LET seen == Ordered({Rows(n)[i] : i \in offset + 1..offset + count} \ graph.hidden)
    IN  [i \in 1..Len(seen) |-> CallLink(n, seen[i])]

AtMost(a, b) == IF a < b THEN a ELSE b
Less(a, b) == IF a < b THEN 0 ELSE a - b

\* links_for_node_page: at most children links, the producer of a client the last.
LinkTotal(n) == Len(Rows(n)) + (IF n \in graph.clients THEN 1 ELSE 0)
ChildLinks(n) ==
    LET calls == Read(n, 0, AtMost(flowLimit.children, Len(Rows(n))))
    IN  IF n \in graph.clients /\ Len(calls) < flowLimit.children
           /\ Len(calls) >= Len(Rows(n))
        THEN Append(calls, [node |-> FlowRoot, edge |-> RouteEdge(n), guess |-> FALSE])
        ELSE calls

RootTotal == Len(Rows(FlowRoot)) + Cardinality(graph.clients)
PageSize == AtMost(flowLimit.nodes - 1, flowLimit.page)

\* root_links_page: the rows of the root, then its clients.
RootPage(offset) ==
    LET rows == Len(Rows(FlowRoot))
        calls == Read(FlowRoot, offset, AtMost(PageSize, Less(rows, offset)))
        clients == Ordered(graph.clients)
        first == Less(offset, rows)
        count == AtMost(PageSize - Len(calls), Less(Len(clients), first))
    IN  calls \o [i \in 1..count |-> [node |-> clients[first + i],
                                      edge |-> RouteEdge(clients[first + i]), guess |-> FALSE]]

--------------------------------------------------------------------------------
(* The walk.                                                               *)

\* One link of add_links; added counts the edges that are new.
AddLink(w, link, depth) ==
    IF w.full THEN w
    ELSE IF \/ Cardinality(w.edges) >= flowLimit.edges
            \/ Cardinality(w.nodes) >= flowLimit.nodes /\ link.node \notin w.nodes
    THEN [w EXCEPT !.cut = TRUE, !.full = TRUE]
    ELSE LET new == link.node \notin w.nodes
         IN  [w EXCEPT
               !.added = @ + (IF link.edge \in w.edges THEN 0 ELSE 1),
               !.edges = @ \cup {link.edge}, !.nodes = @ \cup {link.node},
               !.guessed = IF new /\ link.guess THEN @ \cup {link.node} ELSE @,
               !.queue = IF new THEN Append(@, [node |-> link.node, depth |-> depth]) ELSE @]
AddLinks(w, links, depth) ==
    LET added[i \in 0..Len(links)] ==
          IF i = 0 THEN [w EXCEPT !.added = 0, !.full = FALSE]
          ELSE AddLink(added[i - 1], links[i], depth)
    IN  added[Len(links)]

Asks == flowAsks < MaxFlowAsks /\ flowAsks' = flowAsks + 1

\* Seeded fault: the next page begins after the requested count, not after what was read.
RequestedNext(offset, links) == offset + PageSize

NextOffset(offset, links) == offset + Len(links)

\* An offset beyond the links that are left is refused, and the flow stays.
WalkFrom(offset, more) ==
    /\ ~walk.on /\ Asks /\ UNCHANGED <<graph, flowLimit, shownFlow, graphChanged>>
    /\ IF offset > RootTotal THEN UNCHANGED walk
       ELSE LET links == RootPage(offset)
                w == [NoWalk EXCEPT
                        !.on = TRUE, !.more = more, !.next = NextOffset(offset, links),
                        !.nodes = {FlowRoot}, !.scanned = Len(links),
                        !.links = [i \in 1..Len(links) |-> links[i].edge]]
            IN  walk' = AddLinks(w, links, 1)

AskFlow == WalkFrom(0, FALSE)
AskNextPage == shownFlow.more /\ ~shownFlow.limited /\ WalkFrom(shownFlow.next, TRUE)

Exhausted(w) ==
    \/ w.expansions >= flowLimit.expansions \/ w.scanned >= flowLimit.scanned
    \/ Cardinality(w.edges) >= flowLimit.edges

\* Seeded fault: what a node leaves out is told only when it has more than are read.
LinksLeft(n, shown) == shown < Len(ChildLinks(n))

LeavesOut(n, shown) == shown < LinkTotal(n)

\* A guessed node is not followed, nor is one at the depth limit.
Expanded(w, n, depth) ==
    LET links == ChildLinks(n)
        x == [w EXCEPT !.expansions = @ + 1]
        read == [x EXCEPT !.scanned = @ + Len(links)]
        count == AtMost(AtMost(Len(links), flowLimit.children),
                        AtMost(Less(flowLimit.nodes, Cardinality(w.nodes)),
                               Less(flowLimit.edges, Cardinality(w.edges))))
        y == AddLinks(read, SubSeq(links, 1, count), depth + 1)
        z == [y EXCEPT !.cut = @ \/ LeavesOut(n, y.added)]
    IN  IF n \in w.guessed THEN x
        ELSE IF depth >= flowLimit.depth THEN [read EXCEPT !.cut = @ \/ LinkTotal(n) > 0]
        ELSE IF \/ Cardinality(z.nodes) >= flowLimit.nodes
                \/ Cardinality(z.edges) >= flowLimit.edges
        THEN [z EXCEPT !.cut = @ \/ z.queue # <<>>, !.queue = <<>>]
        ELSE z

Expand ==
    /\ walk.on /\ walk.queue # <<>>
    /\ LET head == Head(walk.queue)
           w == [walk EXCEPT !.queue = Tail(@)]
       IN  walk' = IF Exhausted(w) THEN [w EXCEPT !.cut = TRUE, !.queue = <<>>]
                   ELSE Expanded(w, head.node, head.depth)
    /\ UNCHANGED <<graph, flowLimit, shownFlow, graphChanged, flowAsks>>

--------------------------------------------------------------------------------
(* The renderer.                                                           *)

\* At most limit of them stay, those that were shown before the new ones.
Kept(before, all, limit) ==
    {s \in SUBSET all : /\ before \cap all \subseteq s
                        /\ Cardinality(s) = AtMost(Cardinality(all), limit)}

\* A first page replaces the flow, a further one joins it.  The root, the totals and
\* `truncated` are those of the newest page.
AnswerFlowPage ==
    /\ walk.on /\ walk.queue = <<>> /\ walk' = NoWalk
    /\ graphChanged' = (walk.more /\ graphChanged)
    /\ LET before == IF walk.more THEN shownFlow ELSE NoFlow
           more == walk.next < RootTotal
           pages == AtMost(flowLimit.clientPages, before.pages + 1)
           all == before.nodes \cup walk.nodes
           edges == before.edges \cup walk.edges
       IN  \E nodes \in Kept(before.nodes, all, flowLimit.clientNodes) :
           LET joined == {e \in edges : e.source \in nodes /\ e.target \in nodes}
           IN  \E kept \in Kept(before.edges, joined, flowLimit.clientEdges) :
               shownFlow' =
                 [nodes |-> nodes, guessed |-> before.guessed \cup walk.guessed,
                  edges |-> kept, links |-> before.links \o walk.links, pages |-> pages,
                  next |-> walk.next, more |-> more, truncated |-> walk.cut \/ more,
                  limited |-> \/ before.limited \/ kept # edges
                              \/ nodes # all
                              \/ walk.more /\ pages >= flowLimit.clientPages /\ more,
                  forgotten |-> before.forgotten \/ walk.cut]
    /\ UNCHANGED <<graph, flowLimit, flowAsks>>

\* The worker commits a changed file.  What was committed before the first page is
\* the graph of the initial state.
ChangeGraph ==
    /\ ~walk.on /\ shownFlow.pages > 0 /\ Asks /\ graphChanged' = TRUE
    /\ \/ \E call \in FlowNodes \X FlowNodes :
            graph' = IF call \in graph.calls
                     THEN [graph EXCEPT !.calls = @ \ {call}, !.guesses = @ \ {call}]
                     ELSE [graph EXCEPT !.calls = @ \cup {call}]
       \/ \E n \in graph.clients : graph' = [graph EXCEPT !.clients = @ \ {n}]
    /\ UNCHANGED <<flowLimit, walk, shownFlow>>

FlowPagesNext == AskFlow \/ AskNextPage \/ Expand \/ AnswerFlowPage \/ ChangeGraph

--------------------------------------------------------------------------------
(* Properties.                                                             *)

RootLinks ==
    LET calls == Rows(FlowRoot)
        clients == Ordered(graph.clients)
    IN  [i \in 1..Len(calls) |-> CallEdge(FlowRoot, calls[i])]
        \o [i \in 1..Len(clients) |-> RouteEdge(clients[i])]

\* Every link of the index that leaves the node is in the flow, with what it leads to.
Followed(n, flow) ==
    /\ \A m \in Targets(n) \ graph.hidden : m \in flow.nodes /\ CallEdge(n, m) \in flow.edges
    /\ n \in graph.clients => RouteEdge(n) \in flow.edges
    /\ n = FlowRoot => \A c \in graph.clients : c \in flow.nodes /\ RouteEdge(c) \in flow.edges

\* Nothing is in the flow that its edges do not connect to the root.
Connected(flow) ==
    \A s \in SUBSET FlowNodes :
        /\ FlowRoot \in s
        /\ \A e \in flow.edges : e.source \in s <=> e.target \in s
        => flow.nodes \subseteq s

\* query_execution_flow and mergeExecutionFlow, while the index is as it was for the
\* first page: the pages bring the links of the root in their order, each once and
\* none skipped, every page some; and a flow that says it is not truncated follows
\* every link of every node it shows, whatever limit ended a walk.  Excused are a node
\* that a guess reached first, which is not followed; a row that is counted though it
\* is never read, which makes a page repeat; and `truncated` of a page before the
\* last, which the merge forgets.
PagesAreOfTheRoot ==
    shownFlow.pages > 0 /\ ~graphChanged
    /\ Targets(FlowRoot) \cap graph.hidden = {}
    => /\ shownFlow.next = Len(shownFlow.links) /\ shownFlow.next <= RootTotal
       /\ shownFlow.links = SubSeq(RootLinks, 1, shownFlow.next)
       /\ shownFlow.pages <= Len(shownFlow.links) \/ RootTotal = 0
       /\ shownFlow.more <=> shownFlow.next < RootTotal
FlowIsWhole ==
    /\ PagesAreOfTheRoot
    /\ shownFlow.pages > 0 /\ ~graphChanged /\ ~shownFlow.limited =>
         /\ Connected(shownFlow)
         /\ ~shownFlow.truncated /\ ~shownFlow.forgotten =>
              \A n \in shownFlow.nodes \ shownFlow.guessed : Followed(n, shownFlow)
FlowPagesInv == FlowPagesTypeOK /\ FlowIsWhole
================================================================================
