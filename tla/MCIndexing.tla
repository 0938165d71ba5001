------------------------------- MODULE MCIndexing -------------------------------
(***************************************************************************)
(* What a workspace owns in the backend and what is asked of it,            *)
(* model-checked in one run: its index, its trace receiver, the pages of an *)
(* execution flow, the API catalogue and the communities of a graph.  They  *)
(* share no state here, each has its own view of the switch and of the      *)
(* index, so a behaviour is one of a single module, `subject`; the others   *)
(* rest in one initial state.                                               *)
(***************************************************************************)
EXTENDS MCWorkspaceIndex, TraceReceiver, FlowPages, ApiCatalog, StructuralCommunities

VARIABLE subject

NoGraph == [calls |-> {}, guesses |-> {}, clients |-> {}, hidden |-> {}]
Ample == [nodes |-> 9, page |-> 2, children |-> 2, depth |-> 3, edges |-> 9,
          expansions |-> 9, scanned |-> 20, clientNodes |-> 3, clientEdges |-> 9,
          clientPages |-> 3]

indexingVars == <<subject, vars, otlpVars, flowPagesVars, catalogVars, communityVars>>

IndexingInit ==
    /\ subject \in {"index", "traces", "pages", "catalog", "communities"}
    /\ subject # "traces" => otlpRoot = (CHOOSE w \in TraceRoots : TRUE)
    /\ subject # "pages" => graph = NoGraph /\ flowLimit = Ample
    /\ subject # "catalog" => inventory = {2, 3}
    /\ subject # "communities" => ties = {}
    /\ Init /\ TraceReceiverInit /\ FlowPagesInit /\ CatalogInit /\ CommunityInit

IndexMoves ==
    /\ subject = "index" /\ Next
    /\ UNCHANGED <<subject, otlpVars, flowPagesVars, catalogVars, communityVars>>
TraceMoves ==
    /\ subject = "traces" /\ TraceReceiverNext
    /\ UNCHANGED <<subject, vars, flowPagesVars, catalogVars, communityVars>>
PageMoves ==
    /\ subject = "pages" /\ FlowPagesNext
    /\ UNCHANGED <<subject, vars, otlpVars, catalogVars, communityVars>>
CatalogMoves ==
    /\ subject = "catalog" /\ CatalogNext
    /\ UNCHANGED <<subject, vars, otlpVars, flowPagesVars, communityVars>>
CommunityMoves ==
    /\ subject = "communities" /\ CommunityNext
    /\ UNCHANGED <<subject, vars, otlpVars, flowPagesVars, catalogVars>>

IndexingSpec ==
    /\ IndexingInit
    /\ [][IndexMoves \/ TraceMoves \/ PageMoves \/ CatalogMoves \/ CommunityMoves]_indexingVars

\* A program that repeats the first span of another.
TwoBatches == {<<<<"t", 1>>, <<"u", 1>>>>, <<<<"t", 1>>>>}

\* A graph of three nodes, with limits that never end a walk and ones that each do.
ThreeNodes == 0..2
SomeLimits ==
    {Ample,
     [Ample EXCEPT !.page = 1, !.children = 1, !.depth = 2, !.clientEdges = 2],
     [Ample EXCEPT !.nodes = 2, !.clientNodes = 2, !.clientPages = 2],
     [Ample EXCEPT !.children = 3, !.edges = 3, !.expansions = 1],
     [Ample EXCEPT !.page = 1, !.children = 3, !.scanned = 3]}

FourOperations == 1..4
OddOperations == [q \in {"odd"} |-> {1, 3}]
SomeInventories == {{2, 3}, {1, 2, 4}, {1, 2, 3, 4}}

FiveMembers == 1..5
================================================================================
