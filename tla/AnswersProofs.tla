---------------------------- MODULE AnswersProofs ----------------------------
(***************************************************************************)
(* What the renderer shows answers the last question, for every set of      *)
(* workspaces, roots, repositories, queries and nodes, for any number of    *)
(* calls under way and whatever the bounds.  Five components of the         *)
(* renderer guard against late answers in five ways - generations, request  *)
(* numbers, the newest call, a token - and each gets an invariant that says *)
(* which of the answers under way still counts, and for what.               *)
(***************************************************************************)
EXTENDS MCRenderer, EditorProofs, Integers, TLAPS

--------------------------------------------------------------------------------
(* The flow of the root that was traced last.                              *)

\* The queries under way have request numbers of their own.  One that counts is a
\* first page of a root that the last trace allows, or the next page of the flow
\* that is shown.
FlowInv ==
    /\ FlowTypeOK /\ FlowIsOfLastTrace
    /\ \A i \in DOMAIN queries :
          /\ queries[i].era <= era /\ queries[i].request <= flowRequest
          /\ \A j \in DOMAIN queries : queries[i].request = queries[j].request => i = j
          /\ ~queries[i].more => queries[i].page = 1
          /\ queries[i].more => queries[i].fallback = NoRoot
    /\ \A i \in DOMAIN queries : Counts(queries[i]) =>
          /\ traced # {} => queries[i].root \in traced
          /\ queries[i].fallback # NoRoot => queries[i].fallback \in traced
          /\ queries[i].more =>
                queries[i].root = queryRoot /\ queries[i].page = Len(flow) + 1

\* What is left of a sequence comes from it, each element from a place of its own that is not i.
LEMMA RemovedFrom ==
    ASSUME NEW S, NEW s \in Seq(S), NEW i \in DOMAIN s
    PROVE  \E from \in [DOMAIN RemoveAt(s, i) -> DOMAIN s \ {i}] :
              /\ \A j \in DOMAIN RemoveAt(s, i) : RemoveAt(s, i)[j] = s[from[j]]
              /\ \A j, k \in DOMAIN RemoveAt(s, i) : from[j] = from[k] => j = k
<1> DEFINE r == RemoveAt(s, i)
           from == [j \in DOMAIN r |-> IF j < i THEN j ELSE j + 1]
<1>1. i \in 1..Len(s) /\ Len(s) \in Nat /\ DOMAIN s = 1..Len(s)
  OBVIOUS
<1>2. /\ DOMAIN r = 1..(Len(s) - 1)
      /\ \A j \in DOMAIN r : r[j] = IF j < i THEN s[j] ELSE s[j + 1]
  BY Removed
<1> HIDE DEF r
<1>3. from \in [DOMAIN r -> DOMAIN s \ {i}]
  BY <1>1, <1>2
<1>4. \A j \in DOMAIN r : r[j] = s[from[j]]
  BY <1>1, <1>2
<1>5. \A j, k \in DOMAIN r : from[j] = from[k] => j = k
  BY <1>1, <1>2
<1> HIDE DEF from
<1> QED
  BY <1>3, <1>4, <1>5 DEF r

\* The view begins with nothing asked.
LEMMA FlowBegins == FlowInit => FlowInv
<1> SUFFICES ASSUME FlowInit
             PROVE  FlowInv
  OBVIOUS
<1>1. FlowTypeOK
  <2>1. limited \in BOOLEAN /\ flowLoading \in BOOLEAN /\ queryRoot \in Roots \cup {NoRoot}
    BY DEF FlowInit
  <2>2. flow \in Seq(Page) /\ queries \in Seq(Query) /\ era \in Nat /\ flowRequest \in Nat
    BY DEF FlowInit
  <2> QED
    BY <2>1, <2>2 DEF FlowInit, FlowTypeOK
<1>2. DOMAIN flow = {} /\ DOMAIN queries = {}
  BY DEF FlowInit
<1> QED
  BY <1>1, <1>2 DEF FlowInit, FlowInv, FlowIsOfLastTrace, FlowIsOneRoot, LastTraceWins

\* What asking changes, for a trace and for a next page alike.
LEMMA Asked ==
    ASSUME FlowInv, NEW root \in Roots, NEW page \in 1..Pages,
           NEW fallback \in Roots \cup {NoRoot}, NEW more \in BOOLEAN,
           Ask(root, page, fallback, more), traced' \subseteq Roots,
           ~more => page = 1, more => fallback = NoRoot,
           traced' # {} => root \in traced', fallback # NoRoot => fallback \in traced',
           more => root = queryRoot /\ page = Len(flow) + 1,
           UNCHANGED <<era, flow, limited, queryRoot>>
    PROVE  FlowInv'
<1> DEFINE asked == [era |-> era, request |-> flowRequest + 1, root |-> root,
                     page |-> page, fallback |-> fallback, more |-> more]
<1>1. /\ asked \in Query /\ asked.era = era /\ asked.request = flowRequest + 1
      /\ asked.root = root /\ asked.page = page /\ asked.fallback = fallback
      /\ asked.more = more
  BY DEF FlowInv, FlowTypeOK, Query
<1>2. flowRequest' = flowRequest + 1 /\ flowLoading' = TRUE /\ queries' = Append(queries, asked)
  BY DEF Ask
<1>3. queries \in Seq(Query) /\ flowRequest \in Nat /\ era \in Nat
  BY DEF FlowInv, FlowTypeOK
<1> HIDE DEF asked
<1>4. /\ queries' \in Seq(Query) /\ Len(queries') = Len(queries) + 1
      /\ DOMAIN queries' = 1..(Len(queries) + 1) /\ DOMAIN queries = 1..Len(queries)
      /\ \A i \in 1..Len(queries) : queries'[i] = queries[i]
      /\ queries'[Len(queries) + 1] = asked
  BY <1>1, <1>2, <1>3
<1>5. FlowTypeOK'
  BY <1>2, <1>3, <1>4 DEF FlowInv, FlowTypeOK
<1>6. FlowIsOfLastTrace'
  BY <1>2 DEF FlowInv, FlowIsOfLastTrace, FlowIsOneRoot, LastTraceWins
<1>7. ASSUME NEW i \in DOMAIN queries'
      PROVE  /\ queries'[i].era <= era' /\ queries'[i].request <= flowRequest'
             /\ i = Len(queries) + 1 <=> queries'[i].request = flowRequest'
             /\ \A j \in DOMAIN queries' : queries'[i].request = queries'[j].request => i = j
             /\ ~queries'[i].more => queries'[i].page = 1
             /\ queries'[i].more => queries'[i].fallback = NoRoot
  <2>1. \A k \in DOMAIN queries : queries[k].request \in Nat /\ queries[k].request <= flowRequest
    <3>1. \A k \in DOMAIN queries : queries[k] \in Query
      BY <1>3
    <3> QED
      BY <3>1 DEF FlowInv, Query
  <2>2. \A k \in DOMAIN queries : queries'[k].request # flowRequest'
    BY <1>2, <1>3, <1>4, <2>1
  <2>3. i = Len(queries) + 1 <=> queries'[i].request = flowRequest'
    BY <1>1, <1>2, <1>4, <2>2
  <2>4. \A j \in DOMAIN queries' : queries'[i].request = queries'[j].request => i = j
    BY <1>1, <1>2, <1>4, <2>2 DEF FlowInv
  <2> QED
    BY <1>1, <1>2, <1>3, <1>4, <2>1, <2>3, <2>4 DEF FlowInv
<1>8. ASSUME NEW i \in DOMAIN queries', Counts(queries[i])'
      PROVE  queries'[i] = asked
  BY <1>4, <1>7, <1>8 DEF Counts
<1> QED
  BY <1>1, <1>5, <1>6, <1>7, <1>8 DEF FlowInv

\* A query under way is typed, also one that counts.
LEMMA QueryUnderWay ==
    ASSUME FlowInv, NEW i \in DOMAIN queries
    PROVE  /\ queries[i] \in Query /\ queries[i].request \in Nat /\ queries[i].era \in Nat
           /\ queries[i].root \in Roots /\ queries[i].page \in 1..Pages
           /\ queries[i].fallback \in Roots \cup {NoRoot} /\ queries[i].more \in BOOLEAN
<1>1. queries[i] \in Query
  BY DEF FlowInv, FlowTypeOK
<1> QED
  BY <1>1 DEF Query

\* Once a query that counts is gone, none counts any more: it was the newest.
LEMMA FlowAnswers ==
    ASSUME FlowInv, NEW i \in DOMAIN queries, queries' = RemoveAt(queries, i),
           UNCHANGED <<era, flowRequest>>,
           Counts(queries[i]) \/ UNCHANGED <<flow, queryRoot, traced>>,
           FlowIsOfLastTrace', FlowTypeOK'
    PROVE  FlowInv'
<1>1. queries \in Seq(Query)
  BY DEF FlowInv, FlowTypeOK
<1>2. PICK from \in [DOMAIN queries' -> DOMAIN queries \ {i}] :
         /\ \A j \in DOMAIN queries' : queries'[j] = queries[from[j]]
         /\ \A j, k \in DOMAIN queries' : from[j] = from[k] => j = k
  BY <1>1, RemovedFrom
<1>3. ASSUME NEW j \in DOMAIN queries'
      PROVE  /\ from[j] \in DOMAIN queries /\ from[j] # i /\ queries'[j] = queries[from[j]]
             /\ Counts(queries[j])' <=> Counts(queries[from[j]])
  BY <1>2 DEF Counts
<1>4. ASSUME NEW j \in DOMAIN queries'
      PROVE  /\ queries'[j].era <= era' /\ queries'[j].request <= flowRequest'
             /\ \A k \in DOMAIN queries' : queries'[j].request = queries'[k].request => j = k
             /\ ~queries'[j].more => queries'[j].page = 1
             /\ queries'[j].more => queries'[j].fallback = NoRoot
  BY <1>2, <1>3 DEF FlowInv
<1>5. ASSUME NEW j \in DOMAIN queries', Counts(queries[j])'
      PROVE  UNCHANGED <<flow, queryRoot, traced>>
  BY <1>3, <1>5 DEF Counts, FlowInv
<1> QED
  BY <1>3, <1>4, <1>5 DEF FlowInv

\* Asking makes every older answer one that does not count, and the newest is still the one
\* that the last trace allows.
LEMMA FlowSteps ==
    ASSUME FlowInv, [FlowNext]_flowVars
    PROVE  FlowInv'
<1> USE FlowAssumption
<1>1. ASSUME NEW root \in Roots, NEW fallback \in Roots \cup {NoRoot}, TraceRoot(root, fallback)
      PROVE  FlowInv'
  <2>1. /\ Ask(root, 1, fallback, FALSE) /\ traced' = {root, fallback} \ {NoRoot}
        /\ UNCHANGED <<era, flow, limited, queryRoot>>
    BY <1>1 DEF TraceRoot
  <2>3. Pages \in Nat \ {0} /\ 1 \in 1..Pages
    OBVIOUS
  <2>2. /\ traced' \subseteq Roots /\ root \in traced'
        /\ fallback # NoRoot => fallback \in traced'
    BY <2>1
  <2> QED
    BY <2>1, <2>2, <2>3, Asked
<1>2. CASE LoadNext
  <2>1. /\ queryRoot # NoRoot /\ HasNext /\ ~flowLoading
        /\ Ask(queryRoot, Last(flow).number + 1, NoRoot, TRUE)
        /\ UNCHANGED <<era, flow, limited, queryRoot, traced>>
    BY <1>2 DEF LoadNext
  <2>2. flow \in Seq(Page) /\ queryRoot \in Roots /\ traced \subseteq Roots
    BY <2>1 DEF FlowInv, FlowTypeOK
  <2>3. Len(flow) \in DOMAIN flow /\ Last(flow) = flow[Len(flow)]
    BY <2>1, <2>2 DEF HasNext, Last
  <2>4. Last(flow).number = Len(flow) /\ Len(flow) + 1 \in 1..Pages
    BY <2>1, <2>2, <2>3 DEF FlowInv, FlowIsOfLastTrace, FlowIsOneRoot, HasNext
  <2>5. traced # {} => queryRoot \in traced
    BY <2>1 DEF FlowInv, FlowIsOfLastTrace, LastTraceWins
  <2> QED
    BY <2>1, <2>2, <2>4, <2>5, Asked
<1>3. CASE ReplaceFlow
  <2>1. /\ flowRequest' = flowRequest + 1 /\ ~flowLoading' /\ traced' = {}
        /\ flowLoading' \in BOOLEAN /\ limited' \in BOOLEAN
        /\ UNCHANGED <<era, queries>>
        /\ \/ \E root \in Roots : flow' = <<[root |-> root, number |-> 1]>> /\ queryRoot' = root
           \/ flow' = <<>> /\ queryRoot' = NoRoot
    BY <1>3 DEF ReplaceFlow
  <2>2. /\ flow' \in Seq(Page) /\ queryRoot' \in Roots \cup {NoRoot}
        /\ \A i \in DOMAIN flow' : flow'[i] = [root |-> queryRoot', number |-> i]
    <3>1. ASSUME NEW root \in Roots, flow' = <<[root |-> root, number |-> 1]>>, queryRoot' = root
          PROVE  <2>2
      <4>1. [root |-> root, number |-> 1] \in Page
        BY DEF Page
      <4> QED
        BY <3>1, <4>1
    <3>2. CASE flow' = <<>> /\ queryRoot' = NoRoot
      BY <3>2
    <3> QED
      BY <2>1, <3>1, <3>2
  <2>3. FlowTypeOK'
    BY <2>1, <2>2 DEF FlowInv, FlowTypeOK
  <2>4. FlowIsOfLastTrace'
    BY <2>1, <2>2 DEF FlowIsOfLastTrace, FlowIsOneRoot, LastTraceWins
  <2>5. flowRequest \in Nat
    BY DEF FlowInv, FlowTypeOK
  <2>6. \A i \in DOMAIN queries : queries[i].request < flowRequest'
    BY <2>1, <2>5, QueryUnderWay DEF FlowInv
  <2>7. \A i \in DOMAIN queries' : ~Counts(queries[i])' /\ queries'[i].request <= flowRequest'
    BY <2>1, <2>5, <2>6, QueryUnderWay DEF Counts
  <2> QED
    BY <2>1, <2>3, <2>4, <2>7 DEF FlowInv
<1>4. CASE NextEra
  <2>1. /\ era' = era + 1
        /\ UNCHANGED <<flowRequest, flow, limited, queryRoot, flowLoading, queries, traced>>
    BY <1>4 DEF NextEra
  <2>2. FlowTypeOK'
    BY <2>1 DEF FlowInv, FlowTypeOK
  <2>3. FlowIsOfLastTrace'
    BY <2>1 DEF FlowInv, FlowIsOfLastTrace, FlowIsOneRoot, LastTraceWins
  <2>4. \A i \in DOMAIN queries : ~Counts(queries[i])' /\ queries[i].era <= era'
    BY <2>1, QueryUnderWay DEF Counts, FlowInv, FlowTypeOK
  <2> QED
    BY <2>1, <2>2, <2>3, <2>4 DEF FlowInv
<1>5. ASSUME NEW i \in DOMAIN queries, FlowAnswer(i)
      PROVE  FlowInv'
  <2>1. queries' = RemoveAt(queries, i) /\ UNCHANGED <<era, flowRequest, traced>>
    BY <1>5 DEF FlowAnswer
  <2>2. queries' \in Seq(Query) /\ queries \in Seq(Query)
    BY <2>1, Removed DEF FlowInv, FlowTypeOK
  <2>3. CASE ~Counts(queries[i])
    <3>1. UNCHANGED <<flow, limited, queryRoot, flowLoading>>
      BY <1>5, <2>3 DEF FlowAnswer
    <3>2. FlowTypeOK'
      BY <2>1, <2>2, <3>1 DEF FlowInv, FlowTypeOK
    <3>3. FlowIsOfLastTrace'
      BY <2>1, <3>1 DEF FlowInv, FlowIsOfLastTrace, FlowIsOneRoot, LastTraceWins
    <3> QED
      BY <2>1, <3>1, <3>2, <3>3, FlowAnswers
  <2>4. CASE Counts(queries[i])
    <3> DEFINE asked == queries[i]
               page == [root |-> asked.root, number |-> asked.page]
    <3>1. /\ asked.root \in Roots /\ asked.page \in 1..Pages /\ page \in Page
          /\ page.root = asked.root /\ page.number = asked.page
      BY QueryUnderWay DEF Page
    <3>2. /\ flow' = Merged(asked) /\ flowLoading' = FALSE
          /\ limited' = LimitedBy(asked)
          /\ queryRoot' = IF asked.more THEN queryRoot ELSE asked.root
      BY <1>5, <2>4 DEF FlowAnswer, RootOf
    <3>3. /\ traced # {} => asked.root \in traced
          /\ asked.more => asked.root = queryRoot /\ asked.page = Len(flow) + 1
          /\ ~asked.more => asked.page = 1
      BY <2>4 DEF FlowInv
    <3>4. flow \in Seq(Page) /\ Merged(asked) = IF asked.more THEN Append(flow, page) ELSE <<page>>
      BY DEF Merged, FlowInv, FlowTypeOK
    <3>5. flowLoading' \in BOOLEAN /\ limited' \in BOOLEAN /\ queryRoot' = asked.root
      BY <3>2, <3>3 DEF LimitedBy
    <3> HIDE DEF asked, page
    <3>6. flow' \in Seq(Page) /\ \A k \in DOMAIN flow' : flow'[k] = [root |-> queryRoot', number |-> k]
      <4>1. CASE asked.more
        <5>1. flow' = Append(flow, page) /\ page = [root |-> queryRoot, number |-> Len(flow) + 1]
          BY <4>1, <3>2, <3>3, <3>4 DEF page
        <5> QED
          BY <4>1, <5>1, <3>1, <3>2, <3>4 DEF FlowInv, FlowIsOfLastTrace, FlowIsOneRoot
      <4>2. CASE ~asked.more
        <5>1. flow' = <<page>> /\ page = [root |-> queryRoot', number |-> 1]
          BY <4>2, <3>2, <3>3, <3>4, <3>5 DEF page
        <5> QED
          BY <5>1, <3>1
      <4> QED
        BY <4>1, <4>2
    <3>7. FlowTypeOK'
      BY <2>1, <2>2, <3>1, <3>5, <3>6 DEF FlowInv, FlowTypeOK
    <3>8. FlowIsOfLastTrace'
      BY <2>1, <3>3, <3>5, <3>6 DEF FlowIsOfLastTrace, FlowIsOneRoot, LastTraceWins
    <3> QED
      BY <2>1, <2>4, <3>7, <3>8, FlowAnswers
  <2> QED
    BY <2>3, <2>4
<1>6. ASSUME NEW i \in DOMAIN queries, FlowRefused(i)
      PROVE  FlowInv'
  <2>1. CASE queries[i].fallback \notin {NoRoot, queries[i].root}
    <3> DEFINE asked == [queries[i] EXCEPT !.root = queries[i].fallback, !.fallback = NoRoot]
    <3>1. queries' = [queries EXCEPT ![i].root = queries[i].fallback, ![i].fallback = NoRoot]
          /\ UNCHANGED <<era, flowRequest, flow, limited, queryRoot, flowLoading, traced>>
      BY <1>6, <2>1 DEF FlowRefused
    <3>2. /\ asked \in Query /\ asked.era = queries[i].era /\ asked.request = queries[i].request
          /\ asked.root = queries[i].fallback /\ asked.fallback = NoRoot
          /\ asked.more = queries[i].more /\ asked.page = queries[i].page
      BY <2>1, QueryUnderWay DEF Query
    <3>3. queries \in Seq(Query)
      BY DEF FlowInv, FlowTypeOK
    <3>4. queries' = [queries EXCEPT ![i] = asked]
      BY <3>1, <3>3
    <3> HIDE DEF asked
    <3>5. /\ queries' \in Seq(Query) /\ DOMAIN queries' = DOMAIN queries
          /\ queries'[i] = asked
          /\ \A j \in DOMAIN queries \ {i} : queries'[j] = queries[j]
      BY <3>2, <3>3, <3>4
    <3>6. ~queries[i].more
      BY <2>1 DEF FlowInv
    <3>7. FlowTypeOK'
      BY <3>1, <3>5 DEF FlowInv, FlowTypeOK
    <3>8. FlowIsOfLastTrace'
      BY <3>1 DEF FlowInv, FlowIsOfLastTrace, FlowIsOneRoot, LastTraceWins
    <3>9. ASSUME NEW j \in DOMAIN queries'
          PROVE  /\ queries'[j].era = queries[j].era /\ queries'[j].request = queries[j].request
                 /\ queries'[j].more = queries[j].more /\ queries'[j].page = queries[j].page
                 /\ queries'[j].fallback \in {NoRoot, queries[j].fallback}
                 /\ Counts(queries[j])' <=> Counts(queries[j])
      BY <3>1, <3>2, <3>5 DEF Counts
    <3>10. ASSUME NEW j \in DOMAIN queries', Counts(queries[j])'
           PROVE  /\ traced # {} => queries'[j].root \in traced
                  /\ queries'[j].fallback # NoRoot => queries'[j].fallback \in traced
                  /\ queries'[j].more =>
                        queries'[j].root = queryRoot /\ queries'[j].page = Len(flow) + 1
      <4>1. CASE j = i
        BY <4>1, <3>10, <3>9, <3>2, <3>5, <3>6, <2>1 DEF FlowInv
      <4>2. CASE j # i
        BY <4>2, <3>10, <3>9, <3>5 DEF FlowInv
      <4> QED
        BY <4>1, <4>2
    <3> QED
      BY <3>1, <3>5, <3>7, <3>8, <3>9, <3>10 DEF FlowInv
  <2>2. CASE queries[i].fallback \in {NoRoot, queries[i].root}
    <3>1. /\ queries' = RemoveAt(queries, i)
          /\ flowLoading' = (flowLoading /\ ~Counts(queries[i]))
          /\ traced' = IF Counts(queries[i]) THEN {queryRoot} \ {NoRoot} ELSE traced
          /\ UNCHANGED <<era, flowRequest, flow, limited, queryRoot>>
      BY <1>6, <2>2 DEF FlowRefused
    <3>2. queries' \in Seq(Query) /\ flowLoading' \in BOOLEAN
      BY <3>1, Removed DEF FlowInv, FlowTypeOK
    <3>3. FlowTypeOK'
      BY <3>1, <3>2 DEF FlowInv, FlowTypeOK
    <3>4. FlowIsOfLastTrace'
      <4>1. FlowIsOneRoot'
        BY <3>1 DEF FlowInv, FlowIsOfLastTrace, FlowIsOneRoot
      <4>2. CASE Counts(queries[i])
        BY <3>1, <4>1, <4>2 DEF FlowIsOfLastTrace, LastTraceWins
      <4>3. CASE ~Counts(queries[i])
        BY <3>1, <4>1, <4>3 DEF FlowInv, FlowIsOfLastTrace, LastTraceWins
      <4> QED
        BY <4>2, <4>3
    <3> QED
      BY <3>1, <3>3, <3>4, FlowAnswers
  <2> QED
    BY <2>1, <2>2
<1>7. CASE UNCHANGED flowVars
  <2>1. FlowTypeOK'
    BY <1>7 DEF flowVars, FlowInv, FlowTypeOK
  <2>2. FlowIsOfLastTrace'
    BY <1>7 DEF flowVars, FlowInv, FlowIsOfLastTrace, FlowIsOneRoot, LastTraceWins
  <2> QED
    BY <1>7, <2>1, <2>2 DEF flowVars, FlowInv, Counts
<1> QED
  BY <1>1, <1>2, <1>3, <1>4, <1>5, <1>6, <1>7 DEF FlowNext

--------------------------------------------------------------------------------
(* The overview of the open workspace.                                     *)

\* The phase says which operation may run: an opening only begins when the first
\* load is over.  Until then everything that was read is of the one workspace the
\* backend has; afterwards only the time between the backend's switch and its
\* adoption tells them apart.
PhaseInv ==
    /\ phase = "ready" => task \notin {"snapshot", "initload"}
    /\ phase # "ready" => task \in {"none", "snapshot", "initload"}
    /\ phase = "ready" /\ task # "opened" => workspace = indexed.of
    /\ task = "initload" => workspace = indexed.of
    /\ \A i \in DOMAIN loads : loads[i].owner = "initload" => task = "initload"
    /\ \A i, j \in DOMAIN loads :
          loads[i].owner = "initload" /\ loads[j].owner = "initload" => i = j

VersionRecord == [of : Workspaces \cup {NoWorkspace}, version : Int]
LoadRecord == [owner : Owners, generation : Nat, data : VersionRecord, settles : BOOLEAN]
LoadsTyped ==
    /\ indexed \in VersionRecord /\ generation \in Nat
    /\ loads \in Seq(LoadRecord)
    /\ \A i \in DOMAIN loads : loads[i].generation <= generation

\* A load that settles began when there was none, and is still alone.
SettlesAlone == \A i \in DOMAIN loads : loads[i].settles => Len(loads) = 1

\* While an opening is asked for, only a load that crosses it counts.
CrossingIsExcused ==
    task \in {"picker", "opened"} =>
       \A i \in DOMAIN loads : Current(loads[i]) => ~loads[i].settles /\ "crossed" \in excused

\* What a load that counts has read.
DataIsOfWorkspace ==
    /\ phase = "ready" => \A i \in DOMAIN loads : Current(loads[i]) =>
          \/ loads[i].data.of \in {NoWorkspace, workspace}
          \/ "crossed" \in excused /\ ~loads[i].settles
    /\ phase # "ready" =>
          /\ overview.of \in {NoWorkspace, indexed.of}
          /\ \A i \in DOMAIN loads : loads[i].data.of \in {NoWorkspace, indexed.of}

WorkspaceInv ==
    /\ PhaseInv /\ LoadsTyped /\ SettlesAlone /\ CrossingIsExcused /\ DataIsOfWorkspace
    /\ OverviewOfWorkspace

\* The view begins, or rests, with no load under way.
LEMMA RestOfWorkspace ==
    ASSUME WorkspaceViewInit \/ WorkspaceRest
    PROVE  WorkspaceInv
<1>1. /\ loads = <<>> /\ overview = Empty /\ generation = 1 /\ DOMAIN loads = {}
      /\ \/ phase = "loading" /\ task = "snapshot"
         \/ phase = "ready" /\ task = "none" /\ workspace = NoWorkspace /\ indexed = Empty
  BY DEF WorkspaceViewInit, WorkspaceRest
<1>2. indexed \in VersionRecord
  BY DEF WorkspaceViewInit, WorkspaceRest, Empty, VersionRecord
<1>3. Empty.of = NoWorkspace
  BY DEF Empty
<1>4. loads \in Seq(LoadRecord)
  BY <1>1
<1> QED
  BY <1>1, <1>2, <1>3, <1>4
     DEF WorkspaceInv, PhaseInv, LoadsTyped, SettlesAlone, CrossingIsExcused,
         DataIsOfWorkspace, OverviewOfWorkspace

\* The versions that no load has read belong to no workspace.
LEMMA UnreadBelongsNowhere ==
    /\ Unread \in VersionRecord /\ Unread.of = NoWorkspace
    /\ Failed \in VersionRecord /\ Failed.of = NoWorkspace
  BY WorkspaceViewAssumption DEF Unread, Failed, VersionRecord

\* The loads after a new one began.
LEMMA LoadBegins ==
    ASSUME LoadsTyped, NEW owner \in Owners, BeginLoad(owner, generation)
    PROVE  LET n == Len(loads) + 1
           IN  /\ loads' \in Seq(LoadRecord) /\ n \in Nat
               /\ Len(loads') = n /\ DOMAIN loads' = 1..n /\ DOMAIN loads = 1..(n - 1)
               /\ \A i \in DOMAIN loads :
                     /\ loads'[i].owner = loads[i].owner
                     /\ loads'[i].generation = loads[i].generation
                     /\ loads'[i].data = loads[i].data /\ ~loads'[i].settles
               /\ loads'[n].owner = owner /\ loads'[n].generation = generation
               /\ loads'[n].data = Unread
               /\ loads'[n].settles =>
                     n = 1 /\ ~(owner = "reload" /\ task \in {"picker", "opened"})
               /\ excused \subseteq excused'
               /\ owner = "reload" /\ task \in {"picker", "opened"} => "crossed" \in excused'
<1> DEFINE reasons == {why \in {"overlapped"} : \E i \in DOMAIN loads : loads[i].generation = generation}
                 \cup {why \in {"crossed"} : owner = "reload" /\ task \in {"picker", "opened"}}
           settles == loads = <<>> /\ reasons = {}
           new == [owner |-> owner, generation |-> generation, data |-> Unread, settles |-> settles]
           others == [i \in DOMAIN loads |-> [loads[i] EXCEPT !.settles = FALSE]]
<1>1. loads' = Append(others, new) /\ excused' = excused \cup reasons
  BY DEF BeginLoad
<1>2. loads \in Seq(LoadRecord) /\ generation \in Nat
  BY DEF LoadsTyped
<1>3. settles \in BOOLEAN /\ (settles => loads = <<>> /\ "crossed" \notin reasons)
  OBVIOUS
<1>4. owner = "reload" /\ task \in {"picker", "opened"} => "crossed" \in reasons
  OBVIOUS
<1> HIDE DEF settles, reasons
<1>5. /\ new \in LoadRecord /\ new.owner = owner /\ new.generation = generation
      /\ new.data = Unread /\ new.settles = settles
  BY <1>2, <1>3, UnreadBelongsNowhere DEF LoadRecord
<1>6. ASSUME NEW i \in DOMAIN loads
      PROVE  /\ others[i] \in LoadRecord /\ others[i].owner = loads[i].owner
             /\ others[i].generation = loads[i].generation
             /\ others[i].data = loads[i].data /\ ~others[i].settles
  <2>1. loads[i] \in LoadRecord /\ others[i] = [loads[i] EXCEPT !.settles = FALSE]
    BY <1>2
  <2> QED
    BY <2>1 DEF LoadRecord
<1>7. others \in Seq(LoadRecord) /\ Len(others) = Len(loads) /\ DOMAIN loads = 1..Len(loads)
  <2>1. DOMAIN loads = 1..Len(loads) /\ Len(loads) \in Nat
    BY <1>2
  <2>2. others \in [1..Len(loads) -> LoadRecord]
    BY <1>6, <2>1
  <2> QED
    BY <2>1, <2>2
<1> HIDE DEF new, others
<1>8. LET n == Len(loads) + 1
      IN  /\ loads' \in Seq(LoadRecord) /\ n \in Nat
          /\ Len(loads') = n /\ DOMAIN loads' = 1..n
          /\ \A i \in 1..Len(loads) : loads'[i] = others[i]
          /\ loads'[n] = new
  BY <1>1, <1>5, <1>7
<1>9. loads = <<>> => Len(loads) + 1 = 1
  OBVIOUS
<1>10. Len(loads) \in Nat /\ DOMAIN loads = 1..((Len(loads) + 1) - 1)
  BY <1>2
<1> QED
  BY <1>1, <1>3, <1>4, <1>5, <1>6, <1>7, <1>8, <1>9, <1>10

\* A load that does not belong to an operation leaves it where it is, and the
\* operation ends with its own.
LEMMA WorkspaceSteps ==
    ASSUME WorkspaceInv, [WorkspaceViewNext]_workspaceViewVars
    PROVE  WorkspaceInv'
<1> USE DEF WorkspaceInv
<1>1. CASE GraphChanges
  <2>1. /\ indexed' = [indexed EXCEPT !.version = @ + 1]
        /\ UNCHANGED <<phase, task, generation, workspace, overview, loads, excused>>
    BY <1>1 DEF GraphChanges
  <2>2. indexed' \in VersionRecord /\ indexed'.of = indexed.of
    BY <2>1 DEF LoadsTyped, VersionRecord
  <2> QED
    BY <2>1, <2>2 DEF PhaseInv, LoadsTyped, SettlesAlone, CrossingIsExcused,
                      DataIsOfWorkspace, OverviewOfWorkspace, Current
<1>2. CASE ChangeNotice \/ UNCHANGED workspaceViewVars
  <2>1. UNCHANGED <<indexed, phase, task, generation, workspace, overview, loads, excused>>
    BY <1>2 DEF ChangeNotice, workspaceViewVars
  <2> QED
    BY <2>1 DEF PhaseInv, LoadsTyped, SettlesAlone, CrossingIsExcused,
                DataIsOfWorkspace, OverviewOfWorkspace, Current
<1>3. ASSUME NEW i \in DOMAIN loads, ReadGraph(i)
      PROVE  WorkspaceInv'
  <2>1. PICK data \in {indexed, Failed} : loads' = [loads EXCEPT ![i].data = data]
    BY <1>3 DEF ReadGraph
  <2>2. UNCHANGED <<indexed, phase, task, generation, workspace, overview, excused>>
    BY <1>3 DEF ReadGraph
  <2>3. data \in VersionRecord /\ data.of \in {NoWorkspace, indexed.of}
    BY UnreadBelongsNowhere DEF LoadsTyped
  <2>4. loads \in Seq(LoadRecord)
    BY DEF LoadsTyped
  <2>5. /\ loads' \in Seq(LoadRecord) /\ DOMAIN loads' = DOMAIN loads /\ Len(loads') = Len(loads)
        /\ \A j \in DOMAIN loads :
              /\ loads'[j].owner = loads[j].owner
              /\ loads'[j].generation = loads[j].generation
              /\ loads'[j].settles = loads[j].settles
              /\ loads'[j].data = IF j = i THEN data ELSE loads[j].data
    <3> DEFINE new == [loads[i] EXCEPT !.data = data]
    <3>1. loads[i] \in LoadRecord /\ loads' = [loads EXCEPT ![i] = new]
      BY <2>1, <2>4
    <3>2. /\ new \in LoadRecord /\ new.owner = loads[i].owner /\ new.data = data
          /\ new.generation = loads[i].generation /\ new.settles = loads[i].settles
      BY <3>1, <2>3 DEF LoadRecord
    <3> HIDE DEF new
    <3>3. /\ loads' \in Seq(LoadRecord) /\ DOMAIN loads' = DOMAIN loads
          /\ Len(loads') = Len(loads)
          /\ \A j \in DOMAIN loads : loads'[j] = IF j = i THEN new ELSE loads[j]
      BY <2>4, <3>1, <3>2
    <3> QED
      BY <3>2, <3>3
  <2>6. PhaseInv' /\ LoadsTyped' /\ SettlesAlone'
    BY <2>2, <2>5 DEF PhaseInv, LoadsTyped, SettlesAlone
  <2>7. \A j \in DOMAIN loads : Current(loads[j])' <=> Current(loads[j])
    BY <2>2, <2>5 DEF Current
  <2>8. CrossingIsExcused' /\ OverviewOfWorkspace'
    BY <2>2, <2>5, <2>7 DEF CrossingIsExcused, OverviewOfWorkspace
  <2>9. DataIsOfWorkspace'
    BY <2>2, <2>3, <2>5, <2>7 DEF DataIsOfWorkspace, CrossingIsExcused, PhaseInv
  <2> QED
    BY <2>6, <2>8, <2>9
<1>4. ASSUME NEW i \in DOMAIN loads, EndLoad(i)
      PROVE  WorkspaceInv'
  <2> DEFINE load == loads[i]
             fails == load.data = Failed
  <2>1. /\ loads' = RemoveAt(loads, i) /\ task' = TaskAfter(load)
        /\ UNCHANGED <<indexed, generation, workspace>>
    BY <1>4 DEF EndLoad
  <2>2. loads \in Seq(LoadRecord) /\ i \in 1..Len(loads)
    BY DEF LoadsTyped
  <2>3. /\ loads' \in Seq(LoadRecord) /\ Len(loads') = Len(loads) - 1
        /\ DOMAIN loads' = 1..(Len(loads) - 1)
    BY <2>1, <2>2, Removed
  <2>4. PICK from \in [DOMAIN loads' -> DOMAIN loads \ {i}] :
           /\ \A j \in DOMAIN loads' : loads'[j] = loads[from[j]]
           /\ \A j, k \in DOMAIN loads' : from[j] = from[k] => j = k
    BY <2>1, <2>2, RemovedFrom
  <2>5. LoadsTyped'
    BY <2>1, <2>3, <2>4 DEF LoadsTyped
  <2>6. load.settles => loads' = <<>> /\ DOMAIN loads' = {}
    BY <2>2, <2>3 DEF SettlesAlone
  <2>7. SettlesAlone'
    BY <2>2, <2>3, <2>4 DEF SettlesAlone
  <2>8. load.owner \in Owners /\ task' = IF load.owner = task THEN "none" ELSE task
    <3>1. load \in LoadRecord
      BY <2>2
    <3>2. load.owner \in Owners
      BY <3>1 DEF LoadRecord
    <3> QED
      BY <2>1, <3>2 DEF TaskAfter
  <2>9. /\ task = "opened" => task' = "opened"
        /\ task' \in {task, "none"}
    BY <2>8 DEF Owners
  <2>10. \A j \in DOMAIN loads' : loads'[j].owner = "initload" => task' = "initload"
    BY <2>4, <2>8 DEF PhaseInv
  <2>11. \A j, k \in DOMAIN loads' :
           loads'[j].owner = "initload" /\ loads'[k].owner = "initload" => j = k
    BY <2>4 DEF PhaseInv
  <2>12. \A j \in DOMAIN loads' : /\ from[j] \in DOMAIN loads /\ loads'[j] = loads[from[j]]
                                  /\ Current(loads[j])' <=> Current(loads[from[j]])
    BY <2>1, <2>4 DEF Current
  <2>13. ASSUME UNCHANGED phase
         PROVE  PhaseInv'
    BY <2>1, <2>9, <2>10, <2>11, <2>13 DEF PhaseInv
  <2>14. CASE ~Current(load)
    <3>1. UNCHANGED <<overview, phase, excused>>
      BY <1>4, <2>14 DEF EndLoad
    <3>2. PhaseInv'
      BY <2>13, <3>1
    <3>3. CrossingIsExcused' /\ OverviewOfWorkspace'
      BY <2>1, <2>9, <2>12, <3>1 DEF CrossingIsExcused, OverviewOfWorkspace
    <3>4. DataIsOfWorkspace'
      BY <2>1, <2>12, <3>1 DEF DataIsOfWorkspace
    <3> QED
      BY <2>5, <2>7, <3>2, <3>3, <3>4
  <2>15. CASE Current(load)
    <3>1. /\ overview' = IF fails THEN overview ELSE load.data
          /\ phase' = IF load.owner # "initload" THEN phase
                      ELSE IF fails THEN "error" ELSE "ready"
          /\ excused' = IF fails THEN excused \cup {"failed"}
                        ELSE IF load.settles /\ ~loading' THEN {} ELSE excused
      BY <1>4, <2>15 DEF EndLoad
    <3>2. excused \subseteq excused' \/ (load.settles /\ ~fails)
      BY <3>1
    <3> HIDE DEF fails
    <3>3. CASE load.owner = "initload"
      <4>1. task = "initload" /\ phase # "ready" /\ workspace = indexed.of /\ task' = "none"
        BY <2>8, <3>3 DEF PhaseInv
      <4>2. overview'.of \in {NoWorkspace, indexed.of}
            /\ \A j \in DOMAIN loads' : loads'[j].data.of \in {NoWorkspace, indexed.of}
        BY <2>12, <3>1, <4>1 DEF DataIsOfWorkspace
      <4>3. phase' \in {"ready", "error"}
        BY <3>1, <3>3
      <4>4. PhaseInv'
        BY <2>1, <2>10, <2>11, <4>1, <4>3 DEF PhaseInv
      <4>5. CrossingIsExcused' /\ DataIsOfWorkspace' /\ OverviewOfWorkspace'
        BY <2>1, <4>1, <4>2 DEF CrossingIsExcused, DataIsOfWorkspace, OverviewOfWorkspace
      <4> QED
        BY <2>5, <2>7, <4>4, <4>5
    <3>4. CASE load.owner # "initload" /\ phase # "ready"
      <4>1. phase' = phase
        BY <3>1, <3>4
      <4>2. overview'.of \in {NoWorkspace, indexed.of}
            /\ \A j \in DOMAIN loads' : loads'[j].data.of \in {NoWorkspace, indexed.of}
        BY <2>12, <3>1, <3>4 DEF DataIsOfWorkspace
      <4>3. task' \notin {"picker", "opened"}
        BY <2>9, <3>4 DEF PhaseInv
      <4>4. CrossingIsExcused' /\ DataIsOfWorkspace' /\ OverviewOfWorkspace'
        BY <2>1, <3>4, <4>1, <4>2, <4>3 DEF CrossingIsExcused, DataIsOfWorkspace, OverviewOfWorkspace
      <4> QED
        BY <2>5, <2>7, <2>13, <4>1, <4>4
    <3>5. CASE load.owner # "initload" /\ phase = "ready"
      <4>1. phase' = "ready" /\ phase' = phase
        BY <3>1, <3>5
      <4>2. \/ load.data.of \in {NoWorkspace, workspace}
            \/ "crossed" \in excused /\ ~load.settles
        BY <2>15, <3>5 DEF DataIsOfWorkspace
      <4>3. CASE excused \subseteq excused'
        <5>1. CrossingIsExcused'
          BY <2>9, <2>12, <4>3 DEF CrossingIsExcused
        <5>2. DataIsOfWorkspace'
          BY <2>1, <2>12, <3>5, <4>1, <4>3 DEF DataIsOfWorkspace
        <5>3. OverviewOfWorkspace'
          BY <2>1, <3>1, <3>5, <4>2, <4>3 DEF OverviewOfWorkspace
        <5> QED
          BY <2>5, <2>7, <2>13, <4>1, <5>1, <5>2, <5>3
      <4>4. CASE load.settles /\ ~fails
        <5>1. DOMAIN loads' = {}
          BY <2>6, <4>4
        <5>2. CrossingIsExcused' /\ DataIsOfWorkspace'
          BY <4>1, <5>1 DEF CrossingIsExcused, DataIsOfWorkspace
        <5>3. OverviewOfWorkspace'
          BY <2>1, <3>1, <4>2, <4>4 DEF OverviewOfWorkspace
        <5> QED
          BY <2>5, <2>7, <2>13, <4>1, <5>2, <5>3
      <4> QED
        BY <3>2, <4>3, <4>4
    <3> QED
      BY <3>3, <3>4, <3>5
  <2> QED
    BY <2>14, <2>15
<1>5. ASSUME UNCHANGED <<indexed, overview>>, generation' = generation + 1,
             excused \subseteq excused', UNCHANGED loads,
             PhaseInv', phase' = "ready" <=> phase = "ready", UNCHANGED workspace
      PROVE  WorkspaceInv'
  <2>1. generation \in Nat /\ loads \in Seq(LoadRecord)
    BY DEF LoadsTyped
  <2>2. \A i \in DOMAIN loads : /\ loads[i] \in LoadRecord /\ loads[i].generation <= generation
    BY <2>1 DEF LoadsTyped
  <2>3. \A i \in DOMAIN loads : ~Current(loads[i])' /\ loads'[i].generation <= generation'
    BY <1>5, <2>1, <2>2 DEF Current, LoadRecord
  <2>4. LoadsTyped' /\ SettlesAlone'
    BY <1>5, <2>1, <2>3 DEF LoadsTyped, SettlesAlone
  <2>5. CrossingIsExcused' /\ DataIsOfWorkspace' /\ OverviewOfWorkspace'
    BY <1>5, <2>3 DEF CrossingIsExcused, DataIsOfWorkspace, OverviewOfWorkspace
  <2> QED
    BY <1>5, <2>4, <2>5
<1>6. CASE Initialize
  <2>1. /\ phase = "error" /\ task = "none" /\ task' = "snapshot" /\ phase' = "loading"
        /\ generation' = generation + 1 /\ excused \subseteq excused'
        /\ UNCHANGED <<indexed, workspace, overview, loads>>
    BY <1>6 DEF Initialize, BeginTask, NextGeneration
  <2>2. PhaseInv'
    BY <2>1 DEF PhaseInv
  <2> QED
    BY <1>5, <2>1, <2>2
<1>7. CASE BeginOpening
  <2>1. /\ phase = "ready" /\ task = "none" /\ task' = "picker"
        /\ generation' = generation + 1 /\ excused \subseteq excused'
        /\ UNCHANGED <<indexed, phase, workspace, overview, loads>>
    BY <1>7 DEF BeginOpening, BeginTask, NextGeneration
  <2>2. PhaseInv'
    BY <2>1 DEF PhaseInv
  <2> QED
    BY <1>5, <2>1, <2>2
\* An operation moves on and nothing else does, but the backend may open or rescan.
<1>8. ASSUME UNCHANGED <<phase, generation, workspace, overview, loads, excused>>,
             PhaseInv', indexed' \in VersionRecord, phase = "ready" \/ UNCHANGED indexed,
             task' \in {"picker", "opened"} => task \in {"picker", "opened"}
      PROVE  WorkspaceInv'
  <2>1. \A i \in DOMAIN loads : Current(loads[i])' <=> Current(loads[i])
    BY <1>8 DEF Current
  <2>2. LoadsTyped' /\ SettlesAlone'
    BY <1>8 DEF LoadsTyped, SettlesAlone
  <2>3. CrossingIsExcused' /\ OverviewOfWorkspace'
    BY <1>8, <2>1 DEF CrossingIsExcused, OverviewOfWorkspace
  <2>4. DataIsOfWorkspace'
    BY <1>8, <2>1 DEF DataIsOfWorkspace
  <2> QED
    BY <1>8, <2>2, <2>3, <2>4
<1>9. CASE OpeningRefused
  <2>1. /\ task = "picker" /\ task' = "none"
        /\ UNCHANGED <<indexed, phase, generation, workspace, overview, loads, excused>>
    BY <1>9 DEF OpeningRefused
  <2>2. PhaseInv' /\ indexed' \in VersionRecord
    BY <2>1 DEF PhaseInv, LoadsTyped
  <2> QED
    BY <1>8, <2>1, <2>2
<1>10. CASE BackendOpens
  <2>1. /\ task = "picker" /\ task' = "opened"
        /\ indexed' \in [of : Workspaces, version : {indexed.version + 1}]
        /\ UNCHANGED <<phase, generation, workspace, overview, loads, excused>>
    BY <1>10 DEF BackendOpens
  <2>2. indexed.version + 1 \in Int
    BY DEF LoadsTyped, VersionRecord
  <2>3. indexed' \in VersionRecord
    BY <2>1, <2>2 DEF VersionRecord
  <2>4. PhaseInv' /\ phase = "ready"
    BY <2>1 DEF PhaseInv
  <2> QED
    BY <1>8, <2>1, <2>3, <2>4
<1>11. CASE BeginScan
  <2>1. /\ phase = "ready" /\ task = "none" /\ task' = "rescan"
        /\ UNCHANGED <<indexed, phase, generation, workspace, overview, loads, excused>>
    BY <1>11 DEF BeginScan, BeginTask
  <2>2. PhaseInv' /\ indexed' \in VersionRecord
    BY <2>1 DEF PhaseInv, LoadsTyped
  <2> QED
    BY <1>8, <2>1, <2>2
\* The steps that begin a load.
<1>12. ASSUME NEW owner \in Owners, BeginLoad(owner, generation), UNCHANGED <<phase, generation>>,
              indexed' \in VersionRecord, phase = "ready" \/ UNCHANGED <<indexed, overview>>,
              task' \in {"picker", "opened"} =>
                 owner = "reload" /\ task' = task /\ UNCHANGED workspace,
              owner = "initload" => task' = "initload" /\ task # "initload",
              owner # "initload" => (task' = "initload" <=> task = "initload"),
              phase = "ready" => /\ task' \notin {"snapshot", "initload"}
                                 /\ \/ UNCHANGED <<workspace, overview>>
                                    \/ overview' = Empty /\ task = "opened",
              phase # "ready" => task' \in {"none", "snapshot", "initload"},
              phase = "ready" /\ task' # "opened" => workspace' = indexed'.of,
              task' = "initload" => workspace' = indexed'.of
       PROVE  WorkspaceInv'
  <2> DEFINE n == Len(loads) + 1
  <2>1. /\ loads' \in Seq(LoadRecord) /\ n \in Nat
        /\ Len(loads') = n /\ DOMAIN loads' = 1..n /\ DOMAIN loads = 1..(n - 1)
        /\ \A i \in DOMAIN loads :
              /\ loads'[i].owner = loads[i].owner
              /\ loads'[i].generation = loads[i].generation
              /\ loads'[i].data = loads[i].data /\ ~loads'[i].settles
        /\ loads'[n].owner = owner /\ loads'[n].generation = generation
        /\ loads'[n].data = Unread
        /\ loads'[n].settles => n = 1 /\ ~(owner = "reload" /\ task \in {"picker", "opened"})
        /\ excused \subseteq excused'
        /\ owner = "reload" /\ task \in {"picker", "opened"} => "crossed" \in excused'
    BY <1>12, LoadBegins
  <2> HIDE DEF n
  <2>2. \A i \in DOMAIN loads' : i \in DOMAIN loads \/ i = n
    BY <2>1
  <2>3. LoadsTyped'
    BY <1>12, <2>1, <2>2 DEF LoadsTyped
  <2>4. SettlesAlone'
    BY <2>1, <2>2 DEF SettlesAlone
  <2>5. PhaseInv'
    BY <1>12, <2>1, <2>2 DEF PhaseInv
  <2>6. \A i \in DOMAIN loads : Current(loads[i])' <=> Current(loads[i])
    BY <1>12, <2>1 DEF Current
  <2>7. CrossingIsExcused'
    BY <1>12, <2>1, <2>2 DEF CrossingIsExcused
  <2>8. DataIsOfWorkspace'
    <3>1. CASE phase # "ready"
      BY <1>12, <2>1, <2>2, <3>1, UnreadBelongsNowhere DEF DataIsOfWorkspace
    <3>2. CASE phase = "ready" /\ UNCHANGED workspace
      BY <1>12, <2>1, <2>2, <2>6, <3>2, UnreadBelongsNowhere DEF DataIsOfWorkspace
    <3>3. CASE phase = "ready" /\ task = "opened"
      BY <1>12, <2>1, <2>2, <2>6, <3>3, UnreadBelongsNowhere DEF DataIsOfWorkspace, CrossingIsExcused
    <3> QED
      BY <1>12, <3>1, <3>2, <3>3
  <2>9. OverviewOfWorkspace'
    BY <1>12, <2>1 DEF OverviewOfWorkspace, Empty
  <2> QED
    BY <2>3, <2>4, <2>5, <2>7, <2>8, <2>9
<1>13. CASE ReloadDue
  <2>1. /\ BeginLoad("reload", generation)
        /\ UNCHANGED <<indexed, phase, task, generation, workspace, overview>>
    BY <1>13 DEF ReloadDue
  <2>2. indexed' \in VersionRecord /\ "reload" \in Owners
    BY <2>1 DEF LoadsTyped, Owners
  <2> QED
    BY <1>12, <2>1, <2>2 DEF PhaseInv
<1>14. CASE SnapshotAnswer
  <2>1. task = "snapshot" /\ phase # "ready" /\ UNCHANGED <<indexed, generation>>
    BY <1>14 DEF SnapshotAnswer, PhaseInv
  <2>2. CASE /\ indexed = Empty /\ task' = "none" /\ phase' = "ready"
             /\ workspace' = NoWorkspace /\ overview' = Empty
             /\ UNCHANGED <<loads, excused>>
    <3>1. Empty.of = NoWorkspace
      BY DEF Empty
    <3>2. PhaseInv' /\ LoadsTyped' /\ SettlesAlone'
      BY <2>1, <2>2, <3>1 DEF PhaseInv, LoadsTyped, SettlesAlone
    <3>3. CrossingIsExcused' /\ DataIsOfWorkspace' /\ OverviewOfWorkspace'
      BY <2>1, <2>2, <3>1 DEF CrossingIsExcused, DataIsOfWorkspace, OverviewOfWorkspace
    <3> QED
      BY <3>2, <3>3
  <2>3. CASE /\ indexed # Empty /\ task' = "initload" /\ workspace' = indexed.of
             /\ BeginLoad("initload", generation) /\ UNCHANGED <<phase, overview>>
    <3>1. indexed' \in VersionRecord /\ "initload" \in Owners
      BY <2>1 DEF LoadsTyped, Owners
    <3> QED
      BY <1>12, <2>1, <2>3, <3>1
  <2>4. CASE /\ task' = "none" /\ phase' = "error"
             /\ UNCHANGED <<workspace, overview, loads, excused>>
    <3>1. PhaseInv' /\ LoadsTyped' /\ SettlesAlone'
      BY <2>1, <2>4 DEF PhaseInv, LoadsTyped, SettlesAlone
    <3>2. CrossingIsExcused' /\ DataIsOfWorkspace' /\ OverviewOfWorkspace'
      BY <2>1, <2>4 DEF CrossingIsExcused, DataIsOfWorkspace, OverviewOfWorkspace
    <3> QED
      BY <3>1, <3>2
  <2> QED
    BY <1>14, <2>2, <2>3, <2>4 DEF SnapshotAnswer
<1>15. CASE AdoptWorkspace
  <2>1. /\ task = "opened" /\ task' = "adoptload" /\ BeginLoad("adoptload", generation)
        /\ workspace' = indexed.of /\ overview' = Empty
        /\ UNCHANGED <<indexed, phase, generation>>
    BY <1>15 DEF AdoptWorkspace
  <2>2. indexed' \in VersionRecord /\ "adoptload" \in Owners /\ phase = "ready"
    BY <2>1 DEF LoadsTyped, Owners, PhaseInv
  <2> QED
    BY <1>12, <2>1, <2>2
<1>16. CASE ScanAnswer
  <2>1. task = "rescan" /\ phase = "ready" /\ workspace = indexed.of
        /\ UNCHANGED <<phase, generation, workspace, overview>>
    BY <1>16 DEF ScanAnswer, PhaseInv
  <2>2. CASE /\ indexed' = [indexed EXCEPT !.version = @ + 1]
             /\ task' = "scanload" /\ BeginLoad("scanload", generation)
    <3>1. indexed' \in VersionRecord /\ indexed'.of = indexed.of /\ "scanload" \in Owners
      BY <2>2 DEF LoadsTyped, VersionRecord, Owners
    <3> QED
      BY <1>12, <2>1, <2>2, <3>1
  <2>3. CASE task' = "none" /\ UNCHANGED <<indexed, loading, loads, excused>>
    <3>1. PhaseInv' /\ indexed' \in VersionRecord
      BY <2>1, <2>3 DEF PhaseInv, LoadsTyped
    <3> QED
      BY <1>8, <2>1, <2>3, <3>1
  <2> QED
    BY <1>16, <2>2, <2>3 DEF ScanAnswer
<1> QED
  BY <1>1, <1>2, <1>3, <1>4, <1>6, <1>7, <1>9, <1>10, <1>11, <1>13, <1>14, <1>15, <1>16
     DEF WorkspaceViewNext

--------------------------------------------------------------------------------
(* The status of the repository, and its mutations.                        *)

\* A status of a repository that knows what is due.
Knows(status, root, due) == status # NoStatus /\ status.root = root /\ status.index >= due

\* The panel has a mutation under way that will end in a refresh or an error.
Mutates == gitPanel.mutating \in Mutations /\ ~mutation[gitPanel.mutating].left
             /\ mutation[gitPanel.mutating].stage # "idle"

\* The newest call is under way, or it was answered.
Refreshes == statusCall[gitPanel.latest].stage # "idle" /\ ~statusCall[gitPanel.latest].left

\* An open panel shows what it owes, or a step that is to come will make it so.
StatusIsOwed ==
    \/ gitPanel.error \/ tokenDue \/ Mutates
    \/ /\ Refreshes
       /\ statusCall[gitPanel.latest].stage = "read" =>
             Knows(statusCall[gitPanel.latest].status, panelRoot, owed[panelRoot])
    \/ ~Refreshes /\ Knows(gitPanel.status, panelRoot, owed[panelRoot])

\* A busy panel waits for its mutation, or for the refresh after it.
RefreshIsAwaited == \E r \in Readings : /\ statusCall[r].stage # "idle"
                                        /\ statusCall[r].awaited = gitPanel.mutating
BusyIsAnswered == Mutates \/ (gitPanel.mutating # NoSlot /\ RefreshIsAwaited)

StatusInv ==
    /\ openRoot # panelRoot => gitOpening = "switched"
    /\ \A w \in Repositories : owed[w] <= gitIndex[w]
    /\ gitPanel.open => gitPanel.latest \in Readings
    /\ gitPanel.open /\ openRoot = panelRoot => StatusIsOwed
    /\ gitPanel.open /\ gitPanel.busy => BusyIsAnswered

\* Who asks for consent or runs Git holds the lock, and a commit that runs found
\* the index it was approved for.
CommitInv ==
    /\ \A m \in Mutations : mutation[m].stage \in {"asked", "checked"} =>
          Holds(m) /\ mutation[m].root \in Repositories
    /\ \A m \in Mutations : mutation[m].stage = "checked" /\ mutation[m].kind = "commit" =>
          gitIndex[mutation[m].root] = mutation[m].approved \/ mutation[m].raced

PanelRecord == [open : BOOLEAN, status : GitStatus \cup {NoStatus},
                latest : Readings \cup {NoSlot}, mutating : Mutations \cup {NoSlot},
                busy : BOOLEAN, error : BOOLEAN]
MutationRecord == [stage : {"idle", "queued", "asked", "checked", "done", "failed"},
                   kind : {"stage", "commit"}, root : Repositories \cup {NoStatus},
                   approved : Nat, raced : BOOLEAN, left : BOOLEAN]
ReadingRecord == [stage : {"idle", "asked", "read", "failed"},
                  status : GitStatus \cup {NoStatus},
                  awaited : Mutations \cup {NoSlot}, left : BOOLEAN]
QueueInv ==
    /\ queue \in Seq(Mutations) /\ IsInjective(queue)
    /\ \A m \in Mutations : Contains(queue, m)
          <=> mutation[m].stage \in {"queued", "asked", "checked"}
GitTyped ==
    /\ openRoot \in Repositories /\ panelRoot \in Repositories
    /\ gitIndex \in [Repositories -> Nat] /\ owed \in [Repositories -> Nat]
    /\ mutation \in [Mutations -> MutationRecord]
    /\ statusCall \in [Readings -> ReadingRecord]
    /\ gitPanel \in PanelRecord
    /\ gitStatus \in GitStatus \cup {NoStatus}
    /\ gitOpening \in {"no", "asked", "switched"} /\ tokenDue \in BOOLEAN
    /\ gitActs \in 0..MaxGitActs

GitInv == GitTyped /\ QueueInv /\ StatusInv /\ CommitInv

\* The parts give the type invariant of the module.
LEMMA GitIsTyped == GitTyped /\ QueueInv => SourceControlTypeOK
  BY DEF GitTyped, SourceControlTypeOK, QueueInv, MutationRecord, ReadingRecord, PanelRecord

\* The resting records are records.
LEMMA RestingRecords ==
    /\ NoMutation \in MutationRecord /\ NoMutation.stage = "idle" /\ NoMutation.left = FALSE
    /\ NoReading \in ReadingRecord /\ NoReading.stage = "idle" /\ NoReading.left = FALSE
    /\ ClosedPanel \in PanelRecord /\ ~ClosedPanel.open /\ ~ClosedPanel.busy
  BY DEF NoMutation, MutationRecord, NoReading, ReadingRecord, ClosedPanel, PanelRecord

\* The lock passes on: its holder leaves the queue, and nobody else does.
LEMMA LockPasses ==
    ASSUME NEW q \in Seq(Mutations), IsInjective(q), q # <<>>
    PROVE  /\ Tail(q) \in Seq(Mutations) /\ IsInjective(Tail(q))
           /\ \A m \in Mutations : Contains(Tail(q), m) <=> Contains(q, m) /\ m # Head(q)
<1>1. /\ Len(q) \in Nat \ {0} /\ DOMAIN q = 1..Len(q) /\ Head(q) = q[1]
      /\ Tail(q) \in Seq(Mutations) /\ Len(Tail(q)) = Len(q) - 1
      /\ DOMAIN Tail(q) = 1..(Len(q) - 1)
      /\ \A i \in 1..(Len(q) - 1) : Tail(q)[i] = q[i + 1]
  OBVIOUS
<1>2. \A i, j \in 1..Len(q) : q[i] = q[j] => i = j
  BY <1>1 DEF IsInjective
<1>3. IsInjective(Tail(q))
  BY <1>1, <1>2 DEF IsInjective
<1>4. ASSUME NEW m \in Mutations, Contains(Tail(q), m)
      PROVE  Contains(q, m) /\ m # Head(q)
  <2>1. PICK i \in 1..(Len(q) - 1) : Tail(q)[i] = m
    BY <1>1, <1>4 DEF Contains
  <2>2. i + 1 \in 1..Len(q) /\ q[i + 1] = m /\ 1 \in 1..Len(q) /\ i + 1 # 1
    BY <1>1, <2>1
  <2> QED
    BY <1>1, <1>2, <2>2 DEF Contains
<1>5. ASSUME NEW m \in Mutations, Contains(q, m), m # Head(q)
      PROVE  Contains(Tail(q), m)
  <2>1. PICK i \in 1..Len(q) : q[i] = m
    BY <1>5 DEF Contains
  <2>2. i - 1 \in 1..(Len(q) - 1) /\ Tail(q)[i - 1] = m
    BY <1>1, <1>5, <2>1
  <2> QED
    BY <1>1, <2>2 DEF Contains
<1> QED
  BY <1>1, <1>3, <1>4, <1>5

\* A mutation that begins queues up behind the others.
LEMMA LockIsAskedFor ==
    ASSUME NEW q \in Seq(Mutations), IsInjective(q), NEW m \in Mutations, ~Contains(q, m)
    PROVE  /\ Append(q, m) \in Seq(Mutations) /\ IsInjective(Append(q, m))
           /\ \A n \in Mutations : Contains(Append(q, m), n) <=> Contains(q, n) \/ n = m
           /\ q # <<>> => Append(q, m) # <<>> /\ Head(Append(q, m)) = Head(q)
<1>1. q # <<>> => Append(q, m) # <<>> /\ Head(Append(q, m)) = Head(q)
  <2> SUFFICES ASSUME q # <<>>
               PROVE  Append(q, m) # <<>> /\ Head(Append(q, m)) = Head(q)
    OBVIOUS
  <2>1. Len(q) \in Nat \ {0} /\ Head(q) = q[1]
    OBVIOUS
  <2>2. Len(Append(q, m)) = Len(q) + 1 /\ Append(q, m)[1] = q[1]
    BY <2>1
  <2> QED
    BY <2>1, <2>2
<1> QED
  BY <1>1, UniqueAppended

\* The panel begins closed, with no call under way.
LEMMA GitBeginsWell == SourceControlInit => GitInv
<1> SUFFICES ASSUME SourceControlInit
             PROVE  GitInv
  OBVIOUS
<1>1. GitTyped
  <2>1. tokenDue \in BOOLEAN
    BY DEF SourceControlInit
  <2>3. gitActs \in 0..MaxGitActs
    BY SourceControlAssumption DEF SourceControlInit
  <2>2. /\ mutation \in [Mutations -> MutationRecord] /\ statusCall \in [Readings -> ReadingRecord]
        /\ gitPanel \in PanelRecord /\ gitIndex \in [Repositories -> Nat]
    BY RestingRecords DEF SourceControlInit
  <2> QED
    BY <2>1, <2>2, <2>3 DEF SourceControlInit, GitTyped
<1>2. \A m \in Mutations : mutation[m].stage = "idle"
  BY RestingRecords DEF SourceControlInit
<1>3. QueueInv
  BY <1>2 DEF SourceControlInit, QueueInv, IsInjective, Contains
<1>4. StatusInv
  BY RestingRecords DEF SourceControlInit, StatusInv
<1> QED
  BY <1>1, <1>2, <1>3, <1>4 DEF GitInv, CommitInv

\* A new status call, in a slot that was idle.
LEMMA CallIsAsked ==
    ASSUME GitTyped, NEW r \in Readings, NEW awaited \in Mutations \cup {NoSlot},
           NEW left \in BOOLEAN, Asking(r, awaited, left)
    PROVE  /\ statusCall[r].stage = "idle" /\ statusCall' \in [Readings -> ReadingRecord]
           /\ statusCall'[r].stage = "asked" /\ statusCall'[r].left = left
           /\ statusCall'[r].awaited = awaited
           /\ \A q \in Readings \ {r} : statusCall'[q] = statusCall[q]
<1> DEFINE call == [NoReading EXCEPT !.stage = "asked", !.awaited = awaited, !.left = left]
<1>1. /\ call \in ReadingRecord /\ call.stage = "asked" /\ call.left = left
      /\ call.awaited = awaited
  BY DEF NoReading, ReadingRecord
<1>2. statusCall[r].stage = "idle" /\ statusCall' = [statusCall EXCEPT ![r] = call]
  BY DEF Asking
<1> HIDE DEF call
<1> QED
  BY <1>1, <1>2 DEF GitTyped

\* Steps of the panel leave the lock, the mutations and the indexes alone.
LEMMA LockKept ==
    ASSUME GitInv, UNCHANGED <<queue, mutation, gitIndex>>
    PROVE  QueueInv' /\ CommitInv'
  BY DEF GitInv, QueueInv, CommitInv, Holds

\* A call that was asked just now will know whatever is owed.
LEMMA NewCallRefreshes ==
    ASSUME gitPanel'.latest \in Readings, statusCall'[gitPanel'.latest].stage = "asked",
           ~statusCall'[gitPanel'.latest].left,
           openRoot' # panelRoot' => gitOpening' = "switched",
           \A w \in Repositories : owed'[w] <= gitIndex'[w],
           gitPanel'.busy => BusyIsAnswered'
    PROVE  StatusInv'
<1>1. Refreshes' /\ statusCall'[gitPanel'.latest].stage # "read"
  BY DEF Refreshes
<1>2. StatusIsOwed'
  BY <1>1 DEF StatusIsOwed
<1> QED
  BY <1>2 DEF StatusInv

\* The others keep their place, and their turn, when a mutation leaves the lock.
LEMMA ReleaseKeeps ==
    ASSUME GitInv, NEW m \in Mutations, NEW stage \in {"done", "failed"},
           Holds(m), Releases(m, stage)
    PROVE  /\ QueueInv' /\ mutation' \in [Mutations -> MutationRecord]
           /\ mutation'[m].stage = stage /\ mutation'[m].left = mutation[m].left
           /\ \A n \in Mutations \ {m} : mutation'[n] = mutation[n]
           /\ \A n \in Mutations : mutation'[n].stage \notin {"asked", "checked"}
<1>1. /\ mutation' = [mutation EXCEPT ![m].stage = stage] /\ queue' = Tail(queue)
      /\ mutation \in [Mutations -> MutationRecord] /\ queue # <<>> /\ Head(queue) = m
  BY DEF Releases, GitInv, GitTyped, Holds
<1>2. /\ mutation' \in [Mutations -> MutationRecord]
      /\ mutation'[m].stage = stage /\ mutation'[m].left = mutation[m].left
      /\ \A n \in Mutations \ {m} : mutation'[n] = mutation[n]
  BY <1>1 DEF MutationRecord
<1>3. QueueInv'
  BY <1>1, <1>2, LockPasses DEF GitInv, QueueInv
<1>4. \A n \in Mutations \ {m} : mutation[n].stage \notin {"asked", "checked"}
  BY <1>1 DEF GitInv, CommitInv, Holds
<1> QED
  BY <1>2, <1>3, <1>4

\* A new call makes the older ones stale and will know what is owed, so whatever the
\* older ones bring is not missed.
LEMMA StatusSteps ==
    ASSUME GitInv, NEW r \in Readings,
           \/ OpenSourceControl(r) \/ RefreshStatus(r) \/ ReadStatus(r) \/ AnswerStatus(r)
    PROVE  GitInv'
<1> USE SourceControlAssumption
<1>1. /\ GitTyped /\ StatusInv /\ gitPanel \in PanelRecord
      /\ statusCall \in [Readings -> ReadingRecord]
  BY DEF GitInv, GitTyped
<1>2. UNCHANGED <<gitBackend, mutation, panelRoot, gitOpening, owed>>
  BY DEF OpenSourceControl, RefreshStatus, ReadStatus, AnswerStatus, gitView
<1>3. QueueInv' /\ CommitInv'
  BY <1>2, LockKept DEF gitBackend
<1>4. /\ openRoot' # panelRoot' => gitOpening' = "switched"
      /\ \A w \in Repositories : owed'[w] <= gitIndex'[w]
  BY <1>2 DEF gitBackend, GitInv, StatusInv
<1>5. ASSUME gitPanel' \in PanelRecord, statusCall' \in [Readings -> ReadingRecord],
             gitStatus' \in GitStatus \cup {NoStatus}, tokenDue' \in BOOLEAN,
             gitActs' \in 0..MaxGitActs
      PROVE  GitTyped'
  BY <1>1, <1>2, <1>5 DEF gitBackend, GitTyped
<1>6. CASE OpenSourceControl(r)
  <2>1. /\ Asking(r, NoSlot, FALSE) /\ tokenDue' = FALSE /\ gitStatus' = gitStatus
        /\ gitPanel' = [ClosedPanel EXCEPT !.open = TRUE, !.status = gitStatus, !.latest = r]
    BY <1>6 DEF OpenSourceControl
  <2>2. gitActs' \in 0..MaxGitActs
    BY <1>1, <1>6 DEF OpenSourceControl, GitBegins, GitTyped
  <2>3. /\ statusCall' \in [Readings -> ReadingRecord] /\ statusCall'[r].stage = "asked"
        /\ ~statusCall'[r].left
    BY <1>1, <2>1, CallIsAsked
  <2>4. /\ gitPanel' \in PanelRecord /\ gitPanel'.latest = r /\ ~gitPanel'.busy
    BY <1>1, <2>1 DEF ClosedPanel, PanelRecord, GitTyped
  <2>5. StatusInv'
    BY <1>4, <2>3, <2>4, NewCallRefreshes
  <2>6. GitTyped'
    <3>1. tokenDue' \in BOOLEAN
      BY <2>1
    <3> QED
      BY <1>1, <1>5, <2>1, <2>2, <2>3, <2>4, <3>1 DEF GitTyped
  <2> QED
    BY <1>3, <2>5, <2>6 DEF GitInv
<1>7. CASE RefreshStatus(r)
  <2>1. /\ Asking(r, NoSlot, FALSE) /\ gitStatus' = gitStatus /\ gitPanel.open
        /\ gitPanel' = [gitPanel EXCEPT !.latest = r, !.error = FALSE]
    BY <1>7 DEF RefreshStatus
  <2>2. gitActs' \in 0..MaxGitActs
    BY <1>1, <1>7 DEF RefreshStatus, GitBegins, GitTyped
  <2>7. tokenDue' \in BOOLEAN
    BY <1>1, <1>7 DEF RefreshStatus, GitTyped
  <2>3. /\ statusCall' \in [Readings -> ReadingRecord] /\ statusCall'[r].stage = "asked"
        /\ ~statusCall'[r].left /\ statusCall[r].stage = "idle"
        /\ \A q \in Readings \ {r} : statusCall'[q] = statusCall[q]
    BY <1>1, <2>1, CallIsAsked
  <2>4. /\ gitPanel' \in PanelRecord /\ gitPanel'.latest = r
        /\ gitPanel'.busy = gitPanel.busy /\ gitPanel'.mutating = gitPanel.mutating
        /\ gitPanel'.open = gitPanel.open
    BY <1>1, <2>1 DEF PanelRecord
  <2>5. StatusInv'
    <3>1. Mutates' <=> Mutates
      BY <1>2, <2>4 DEF Mutates
    <3>2. RefreshIsAwaited => RefreshIsAwaited'
      BY <2>3, <2>4 DEF RefreshIsAwaited
    <3>3. gitPanel'.busy => BusyIsAnswered'
      BY <1>1, <2>1, <2>4, <3>1, <3>2 DEF StatusInv, BusyIsAnswered
    <3> QED
      BY <1>4, <2>3, <2>4, <3>3, NewCallRefreshes
  <2>6. GitTyped'
    BY <1>1, <1>5, <2>1, <2>2, <2>3, <2>4, <2>7 DEF GitTyped
  <2> QED
    BY <1>3, <2>5, <2>6 DEF GitInv
<1>8. CASE ReadStatus(r)
  <2> DEFINE status == [root |-> openRoot, index |-> gitIndex[openRoot]]
  <2>1. /\ statusCall[r].stage = "asked"
        /\ \/ statusCall' = [statusCall EXCEPT ![r] =
                               [statusCall[r] EXCEPT !.stage = "read", !.status = status]]
           \/ statusCall' = [statusCall EXCEPT ![r] = [statusCall[r] EXCEPT !.stage = "failed"]]
        /\ UNCHANGED <<gitPanel, gitStatus, panelRoot, gitOpening, tokenDue, gitActs>>
    BY <1>1, <1>8 DEF ReadStatus, gitView
  <2>2. /\ status \in GitStatus /\ status # NoStatus
        /\ status.root = openRoot /\ status.index = gitIndex[openRoot]
    BY <1>1 DEF GitTyped, GitStatus
  <2> HIDE DEF status
  <2>3. PICK new \in ReadingRecord :
           /\ statusCall' = [statusCall EXCEPT ![r] = new]
           /\ new.stage \in {"read", "failed"}
           /\ new.stage = "read" => new.status = status
           /\ new.left = statusCall[r].left /\ new.awaited = statusCall[r].awaited
    <3>1. statusCall[r] \in ReadingRecord
      BY <1>1
    <3>2. /\ [statusCall[r] EXCEPT !.stage = "read", !.status = status] \in ReadingRecord
          /\ [statusCall[r] EXCEPT !.stage = "failed"] \in ReadingRecord
      BY <3>1, <2>2 DEF ReadingRecord
    <3>3. CASE statusCall' = [statusCall EXCEPT ![r] =
                               [statusCall[r] EXCEPT !.stage = "read", !.status = status]]
      <4>1. LET new == [statusCall[r] EXCEPT !.stage = "read", !.status = status]
            IN  /\ new.stage = "read" /\ new.status = status
                /\ new.left = statusCall[r].left /\ new.awaited = statusCall[r].awaited
        BY <3>1 DEF ReadingRecord
      <4> QED
        BY <3>2, <3>3, <4>1
    <3>4. CASE statusCall' = [statusCall EXCEPT ![r] = [statusCall[r] EXCEPT !.stage = "failed"]]
      <4>1. LET new == [statusCall[r] EXCEPT !.stage = "failed"]
            IN  /\ new.stage = "failed"
                /\ new.left = statusCall[r].left /\ new.awaited = statusCall[r].awaited
        BY <3>1 DEF ReadingRecord
      <4> QED
        BY <3>2, <3>4, <4>1
    <3> QED
      BY <2>1, <3>3, <3>4
  <2>11. /\ statusCall' \in [Readings -> ReadingRecord] /\ statusCall'[r] = new
         /\ \A q \in Readings \ {r} : statusCall'[q] = statusCall[q]
    BY <1>1, <2>3
  <2>5. Mutates' <=> Mutates
    BY <1>2, <2>1 DEF Mutates
  <2>14. new.stage # "idle"
    BY <2>3
  <2>15. statusCall[r].stage # "idle" /\ gitPanel' = gitPanel
    BY <2>1
  <2>12. new.stage # "idle" /\ statusCall[r].stage # "idle" /\ gitPanel' = gitPanel
    BY <2>14, <2>15
  <2>13. \A q \in Readings : /\ statusCall'[q].stage = "idle" <=> statusCall[q].stage = "idle"
                             /\ statusCall'[q].left = statusCall[q].left
                             /\ statusCall'[q].awaited = statusCall[q].awaited
    BY <2>3, <2>11, <2>12
  <2>6. gitPanel.open => gitPanel.latest \in Readings /\ (Refreshes' <=> Refreshes)
    BY <1>1, <2>12, <2>13 DEF Refreshes, StatusInv
  <2>7. gitPanel.open /\ openRoot = panelRoot => StatusIsOwed'
    <3>1. SUFFICES ASSUME gitPanel.open, openRoot = panelRoot
                   PROVE  StatusIsOwed'
      OBVIOUS
    <3>2. StatusIsOwed /\ gitPanel.latest \in Readings
      BY <1>1, <3>1 DEF StatusInv
    <3>3. Knows(status, panelRoot, owed[panelRoot])
      BY <1>1, <2>2, <3>1 DEF Knows, StatusInv, GitTyped
    <3>4. CASE gitPanel.latest = r
      <4>1. Refreshes => Refreshes' /\ (statusCall'[gitPanel'.latest].stage = "read" =>
                 Knows(statusCall'[gitPanel'.latest].status, panelRoot, owed[panelRoot]))
        BY <2>1, <2>3, <2>6, <2>11, <3>1, <3>3, <3>4
      <4> QED
        BY <1>2, <2>1, <2>5, <2>6, <3>1, <3>2, <4>1 DEF StatusIsOwed
    <3>5. CASE gitPanel.latest # r
      <4>1. statusCall'[gitPanel'.latest] = statusCall[gitPanel.latest]
        BY <2>1, <2>11, <3>2, <3>5
      <4> QED
        BY <1>2, <2>1, <2>5, <2>6, <3>1, <3>2, <4>1 DEF StatusIsOwed
    <3> QED
      BY <3>4, <3>5
  <2>8. BusyIsAnswered => BusyIsAnswered'
    <3>1. RefreshIsAwaited => RefreshIsAwaited'
      BY <2>12, <2>13 DEF RefreshIsAwaited
    <3> QED
      BY <2>1, <2>5, <3>1 DEF BusyIsAnswered
  <2>9. StatusInv'
    BY <1>1, <1>2, <1>4, <2>1, <2>6, <2>7, <2>8 DEF StatusInv, gitBackend
  <2>10. GitTyped'
    BY <1>1, <1>5, <2>1, <2>11 DEF GitTyped
  <2> QED
    BY <1>3, <2>9, <2>10 DEF GitInv
<1>9. CASE AnswerStatus(r)
  <2> DEFINE call == statusCall[r]
             counts == gitPanel.open /\ ~call.left /\ r = gitPanel.latest
             ends == call.awaited # NoSlot /\ call.awaited = gitPanel.mutating
             answered == call.stage = "read"
  <2>1. /\ call.stage \in {"read", "failed"}
        /\ statusCall' = [statusCall EXCEPT ![r] = NoReading]
        /\ gitPanel' = [gitPanel EXCEPT
                !.status = IF counts /\ answered THEN call.status ELSE @,
                !.error = @ \/ (counts /\ ~answered),
                !.busy = @ /\ ~ends]
        /\ gitStatus' = IF answered /\ (counts \/ call.left) THEN call.status ELSE gitStatus
        /\ UNCHANGED <<panelRoot, gitOpening, tokenDue, gitActs>>
    BY <1>9 DEF AnswerStatus, IsNewest
  <2>2. /\ call.status \in GitStatus \cup {NoStatus} /\ call \in ReadingRecord
        /\ counts \in BOOLEAN /\ ends \in BOOLEAN /\ answered \in BOOLEAN
    BY <1>1 DEF ReadingRecord
  <2>3. /\ statusCall' \in [Readings -> ReadingRecord] /\ statusCall'[r].stage = "idle"
        /\ \A q \in Readings \ {r} : statusCall'[q] = statusCall[q]
    BY <1>1, <2>1, RestingRecords
  <2>4. gitStatus' \in GitStatus \cup {NoStatus}
    BY <1>1, <2>1, <2>2 DEF GitTyped
  <2> HIDE DEF counts, ends, answered
  <2>5. /\ gitPanel' \in PanelRecord
        /\ gitPanel'.open = gitPanel.open /\ gitPanel'.latest = gitPanel.latest
        /\ gitPanel'.mutating = gitPanel.mutating
        /\ gitPanel'.status = IF counts /\ answered THEN call.status ELSE gitPanel.status
        /\ gitPanel'.error <=> gitPanel.error \/ (counts /\ ~answered)
        /\ gitPanel'.busy <=> gitPanel.busy /\ ~ends
    BY <1>1, <2>1, <2>2 DEF PanelRecord
  <2>6. Mutates' <=> Mutates
    BY <1>2, <2>5 DEF Mutates
  <2>7. gitPanel.open /\ openRoot = panelRoot => StatusIsOwed'
    <3>1. SUFFICES ASSUME gitPanel.open, openRoot = panelRoot
                   PROVE  StatusIsOwed'
      OBVIOUS
    <3>2. StatusIsOwed /\ gitPanel.latest \in Readings
      BY <1>1, <3>1 DEF StatusInv
    <3>3. UNCHANGED <<panelRoot, owed, tokenDue>>
      BY <1>2, <2>1
    <3>4. CASE r = gitPanel.latest /\ counts
      <4>1. ~Refreshes' /\ Refreshes
        BY <2>1, <2>3, <2>5, <3>4 DEF Refreshes, counts
      <4>2. CASE answered
        <5>1. gitPanel'.status = statusCall[gitPanel.latest].status
              /\ statusCall[gitPanel.latest].stage = "read"
          BY <2>5, <3>4, <4>2 DEF answered
        <5> QED
          BY <2>5, <2>6, <3>2, <3>3, <4>1, <5>1 DEF StatusIsOwed
      <4>3. CASE ~answered
        BY <2>5, <3>4, <4>3 DEF StatusIsOwed
      <4> QED
        BY <4>2, <4>3
    <3>5. CASE r = gitPanel.latest /\ ~counts
      <4>1. ~Refreshes' /\ ~Refreshes
        BY <2>3, <2>5, <3>1, <3>5 DEF Refreshes, counts
      <4>2. gitPanel'.status = gitPanel.status /\ (gitPanel'.error <=> gitPanel.error)
        BY <2>5, <3>5
      <4> QED
        BY <2>6, <3>2, <3>3, <4>1, <4>2 DEF StatusIsOwed
    <3>6. CASE r # gitPanel.latest
      <4>1. ~counts
        BY <3>6 DEF counts
      <4>2. statusCall'[gitPanel'.latest] = statusCall[gitPanel.latest]
        BY <2>3, <2>5, <3>2, <3>6
      <4>3. Refreshes' <=> Refreshes
        BY <4>2 DEF Refreshes
      <4>4. gitPanel'.status = gitPanel.status /\ (gitPanel'.error <=> gitPanel.error)
        BY <2>5, <4>1
      <4> QED
        BY <2>6, <3>2, <3>3, <4>2, <4>3, <4>4 DEF StatusIsOwed
    <3> QED
      BY <3>4, <3>5, <3>6
  <2>8. gitPanel.open /\ gitPanel'.busy => BusyIsAnswered'
    <3>1. SUFFICES ASSUME gitPanel.open, gitPanel'.busy
                   PROVE  BusyIsAnswered'
      OBVIOUS
    <3>2. BusyIsAnswered /\ ~ends
      BY <1>1, <2>5, <3>1 DEF StatusInv
    <3>3. gitPanel.mutating # NoSlot /\ RefreshIsAwaited => RefreshIsAwaited'
      BY <2>3, <2>5, <3>2 DEF RefreshIsAwaited, ends
    <3> QED
      BY <2>5, <2>6, <3>2, <3>3 DEF BusyIsAnswered
  <2>9. StatusInv'
    <3>1. UNCHANGED <<openRoot, panelRoot>>
      BY <1>2 DEF gitBackend
    <3> QED
      BY <1>1, <1>4, <2>5, <2>7, <2>8, <3>1 DEF StatusInv
  <2>10. GitTyped'
    BY <1>1, <1>5, <2>1, <2>3, <2>4, <2>5 DEF GitTyped
  <2> QED
    BY <1>3, <2>9, <2>10 DEF GitInv
<1> QED
  BY <1>6, <1>7, <1>8, <1>9

\* Steps of mutations that are not of the panel's own, as far as the panel can tell.
LEMMA PanelKept ==
    ASSUME GitInv, UNCHANGED <<openRoot, panelRoot, gitOpening, tokenDue, gitPanel, statusCall, owed>>,
           \A w \in Repositories : gitIndex'[w] >= gitIndex[w] /\ gitIndex'[w] \in Nat,
           gitPanel.open /\ Mutates => Mutates'
    PROVE  StatusInv'
<1>1. /\ owed \in [Repositories -> Nat] /\ gitIndex \in [Repositories -> Nat] /\ StatusInv
  BY DEF GitInv, GitTyped
<1>2. /\ \A w \in Repositories : owed'[w] <= gitIndex'[w]
      /\ openRoot' # panelRoot' => gitOpening' = "switched"
      /\ gitPanel'.open => gitPanel'.latest \in Readings
  BY <1>1 DEF StatusInv
<1>3. (Refreshes' <=> Refreshes) /\ (RefreshIsAwaited' <=> RefreshIsAwaited)
  BY DEF Refreshes, RefreshIsAwaited
<1>5. gitPanel.open /\ StatusIsOwed => StatusIsOwed'
  BY <1>3 DEF StatusIsOwed
<1>6. gitPanel.open /\ BusyIsAnswered => BusyIsAnswered'
  BY <1>3 DEF BusyIsAnswered
<1> QED
  BY <1>1, <1>2, <1>5, <1>6 DEF StatusInv

\* A mutation of the panel ends in a refresh or an error; the index that it wrote is owed
\* from the moment that Git ran.
LEMMA MutationSteps ==
    ASSUME GitInv, NEW m \in Mutations,
           \/ \E kind \in {"stage", "commit"} : AskMutation(m, kind)
           \/ PrepareMutation(m) \/ AnswerConsent(m) \/ RunGit(m) \/ ReplyMutation(m)
    PROVE  GitInv'
<1> USE SourceControlAssumption
<1>1. /\ GitTyped /\ StatusInv /\ CommitInv /\ QueueInv /\ gitPanel \in PanelRecord
      /\ statusCall \in [Readings -> ReadingRecord]
      /\ mutation \in [Mutations -> MutationRecord] /\ mutation[m] \in MutationRecord
      /\ gitIndex \in [Repositories -> Nat] /\ owed \in [Repositories -> Nat]
      /\ openRoot \in Repositories
  BY DEF GitInv, GitTyped
<1>2. ASSUME NEW kind \in {"stage", "commit"}, AskMutation(m, kind)
      PROVE  GitInv'
  <2> DEFINE new == [NoMutation EXCEPT !.stage = "queued", !.kind = kind]
  <2>1. /\ new \in MutationRecord /\ new.stage = "queued" /\ new.left = FALSE
    BY DEF NoMutation, MutationRecord
  <2>2. /\ mutation[m].stage = "idle" /\ mutation' = [mutation EXCEPT ![m] = new]
        /\ queue' = Append(queue, m)
        /\ gitPanel' = [gitPanel EXCEPT !.mutating = m, !.busy = TRUE, !.error = FALSE]
        /\ UNCHANGED <<openRoot, gitIndex, statusCall, gitStatus, panelRoot, gitOpening,
                       tokenDue, owed>>
    BY <1>2 DEF AskMutation
  <2> HIDE DEF new
  <2>3. gitActs' \in 0..MaxGitActs
    BY <1>1, <1>2 DEF AskMutation, GitBegins, GitTyped
  <2>4. /\ mutation' \in [Mutations -> MutationRecord] /\ mutation'[m] = new
        /\ \A n \in Mutations \ {m} : mutation'[n] = mutation[n]
    BY <1>1, <2>1, <2>2
  <2>5. /\ gitPanel' \in PanelRecord /\ gitPanel'.mutating = m
        /\ gitPanel'.open = gitPanel.open /\ gitPanel'.latest = gitPanel.latest
    BY <1>1, <2>2 DEF PanelRecord
  <2>6. ~Contains(queue, m)
    BY <1>1, <2>2 DEF QueueInv
  <2>7. /\ queue' \in Seq(Mutations) /\ IsInjective(queue')
        /\ \A n \in Mutations : Contains(queue', n) <=> Contains(queue, n) \/ n = m
        /\ queue # <<>> => queue' # <<>> /\ Head(queue') = Head(queue)
    BY <1>1, <2>2, <2>6, LockIsAskedFor DEF QueueInv
  <2>8. QueueInv'
    BY <1>1, <2>1, <2>4, <2>7 DEF QueueInv
  <2>9. CommitInv'
    BY <1>1, <2>1, <2>2, <2>4, <2>7 DEF CommitInv, Holds
  <2>10. Mutates'
    BY <2>1, <2>4, <2>5 DEF Mutates
  <2>11. StatusInv'
    BY <1>1, <2>2, <2>5, <2>10 DEF StatusInv, StatusIsOwed, BusyIsAnswered
  <2>12. GitTyped'
    BY <1>1, <2>2, <2>3, <2>4, <2>5 DEF GitTyped
  <2> QED
    BY <2>8, <2>9, <2>11, <2>12 DEF GitInv
<1>3. ASSUME UNCHANGED <<openRoot, panelRoot, gitOpening, tokenDue, gitPanel, gitStatus,
                         statusCall, gitActs>>,
             NEW stage \in {"done", "failed"}, Holds(m), Releases(m, stage),
             mutation[m].stage # "idle",
             \/ UNCHANGED <<gitIndex, owed>>
             \/ /\ mutation[m].root \in Repositories
                /\ gitIndex' = [gitIndex EXCEPT ![mutation[m].root] = @ + 1]
                /\ owed' = IF IsExpected(m)
                           THEN [owed EXCEPT ![mutation[m].root] = gitIndex'[mutation[m].root]]
                           ELSE owed
      PROVE  GitInv'
  <2>1. /\ QueueInv' /\ mutation' \in [Mutations -> MutationRecord]
        /\ mutation'[m].stage = stage /\ mutation'[m].left = mutation[m].left
        /\ \A n \in Mutations \ {m} : mutation'[n] = mutation[n]
        /\ \A n \in Mutations : mutation'[n].stage \notin {"asked", "checked"}
    BY <1>3, ReleaseKeeps
  <2>2. CommitInv'
    BY <2>1 DEF CommitInv
  <2>3. Mutates' <=> Mutates
    BY <1>3, <2>1 DEF Mutates
  <2>4. /\ gitIndex' \in [Repositories -> Nat] /\ owed' \in [Repositories -> Nat]
        /\ \A w \in Repositories : gitIndex'[w] >= gitIndex[w] /\ gitIndex'[w] \in Nat
        /\ \A w \in Repositories : owed'[w] <= gitIndex'[w]
    BY <1>1, <1>3 DEF StatusInv
  <2>5. StatusInv'
    <3>1. CASE UNCHANGED owed
      BY <1>3, <2>3, <2>4, <3>1, PanelKept
    <3>2. CASE IsExpected(m)
      <4>1. Mutates'
        BY <1>3, <2>3, <3>2 DEF IsExpected, Mutates
      <4> QED
        BY <1>1, <1>3, <2>4, <4>1 DEF StatusInv, StatusIsOwed, BusyIsAnswered
    <3> QED
      BY <1>3, <3>1, <3>2
  <2>6. GitTyped'
    BY <1>1, <1>3, <2>1, <2>4 DEF GitTyped
  <2> QED
    BY <2>1, <2>2, <2>5, <2>6 DEF GitInv
<1>4. ASSUME UNCHANGED <<openRoot, panelRoot, gitOpening, tokenDue, gitPanel, gitStatus,
                         statusCall, gitActs, gitIndex, owed, queue>>,
             Holds(m), NEW new \in MutationRecord, mutation' = [mutation EXCEPT ![m] = new],
             mutation[m].stage \in {"queued", "asked"}, new.stage \in {"asked", "checked"},
             new.left = mutation[m].left, new.root \in Repositories,
             new.stage = "checked" /\ new.kind = "commit" => gitIndex[new.root] = new.approved
      PROVE  GitInv'
  <2>1. /\ mutation' \in [Mutations -> MutationRecord] /\ mutation'[m] = new
        /\ \A n \in Mutations \ {m} : mutation'[n] = mutation[n]
    BY <1>1, <1>4
  <2>2. QueueInv'
    BY <1>1, <1>4, <2>1 DEF QueueInv
  <2>3. CommitInv'
    BY <1>1, <1>4, <2>1 DEF CommitInv, Holds
  <2>4. Mutates' <=> Mutates
    BY <1>4, <2>1 DEF Mutates
  <2>5. StatusInv'
    BY <1>1, <1>4, <2>4, PanelKept
  <2>6. GitTyped'
    BY <1>1, <1>4, <2>1 DEF GitTyped
  <2> QED
    BY <2>2, <2>3, <2>5, <2>6 DEF GitInv
<1>5. CASE PrepareMutation(m)
  <2>1. /\ mutation[m].stage = "queued" /\ Holds(m)
        /\ UNCHANGED <<openRoot, panelRoot, gitOpening, tokenDue, gitPanel, gitStatus,
                       statusCall, gitActs, gitIndex, owed>>
    BY <1>5 DEF PrepareMutation, gitView
  <2>2. CASE Releases(m, "failed")
    BY <1>3, <2>1, <2>2
  <2>3. CASE /\ mutation' = [mutation EXCEPT ![m].stage = "asked", ![m].root = openRoot,
                                          ![m].approved = gitIndex[openRoot]]
             /\ UNCHANGED queue
    <3> DEFINE index == gitIndex[openRoot]
               new == [mutation[m] EXCEPT !.stage = "asked", !.root = openRoot, !.approved = index]
    <3>1. index \in Nat
      BY <1>1
    <3>2. mutation' = [mutation EXCEPT ![m] = new]
      BY <1>1, <2>3
    <3> HIDE DEF index
    <3>3. /\ new \in MutationRecord /\ new.stage = "asked" /\ new.left = mutation[m].left
          /\ new.root = openRoot
      BY <1>1, <3>1 DEF MutationRecord
    <3> HIDE DEF new
    <3> QED
      BY <1>1, <1>4, <2>1, <2>3, <3>2, <3>3
  <2> QED
    BY <1>5, <2>2, <2>3 DEF PrepareMutation
<1>6. CASE AnswerConsent(m)
  <2>1. /\ mutation[m].stage = "asked"
        /\ UNCHANGED <<openRoot, panelRoot, gitOpening, tokenDue, gitPanel, gitStatus,
                       statusCall, gitActs, gitIndex, owed>>
    BY <1>6 DEF AnswerConsent, gitView
  <2>2. Holds(m) /\ mutation[m].root \in Repositories
    BY <1>1, <2>1 DEF CommitInv
  <2>3. CASE Releases(m, "failed")
    BY <1>3, <2>1, <2>2, <2>3
  <2>4. CASE MayRun(m) /\ mutation' = [mutation EXCEPT ![m].stage = "checked"] /\ UNCHANGED queue
    <3> DEFINE new == [mutation[m] EXCEPT !.stage = "checked"]
    <3>1. mutation' = [mutation EXCEPT ![m] = new]
      BY <1>1, <2>4
    <3>2. /\ new \in MutationRecord /\ new.stage = "checked" /\ new.left = mutation[m].left
          /\ new.root = mutation[m].root /\ new.kind = mutation[m].kind
          /\ new.approved = mutation[m].approved
      BY <1>1 DEF MutationRecord
    <3> HIDE DEF new
    <3>3. new.kind = "commit" => gitIndex[new.root] = new.approved
      BY <2>4, <3>2 DEF MayRun
    <3> QED
      BY <1>1, <1>4, <2>1, <2>2, <2>4, <3>1, <3>2, <3>3
  <2> QED
    BY <1>6, <2>3, <2>4 DEF AnswerConsent
<1>7. CASE RunGit(m)
  <2>1. /\ mutation[m].stage = "checked"
        /\ UNCHANGED <<openRoot, panelRoot, gitOpening, tokenDue, gitPanel, gitStatus,
                       statusCall, gitActs>>
    BY <1>7 DEF RunGit, gitView
  <2>2. Holds(m) /\ mutation[m].root \in Repositories
    BY <1>1, <2>1 DEF CommitInv
  <2>3. \/ /\ gitIndex' = [gitIndex EXCEPT ![mutation[m].root] = @ + 1]
           /\ owed' = IF IsExpected(m)
                      THEN [owed EXCEPT ![mutation[m].root] = gitIndex'[mutation[m].root]]
                      ELSE owed
           /\ Releases(m, "done")
        \/ Releases(m, "failed") /\ UNCHANGED <<gitIndex, owed>>
    BY <1>7 DEF RunGit
  <2> QED
    BY <1>3, <2>1, <2>2, <2>3
<1>8. CASE ReplyMutation(m)
  <2> DEFINE done == mutation[m].stage = "done"
  <2>1. /\ mutation[m].stage \in {"done", "failed"}
        /\ mutation' = [mutation EXCEPT ![m] = NoMutation]
        /\ UNCHANGED <<openRoot, gitIndex, queue, gitStatus, panelRoot, gitOpening, tokenDue,
                       gitActs, owed>>
    BY <1>8 DEF ReplyMutation, gitBackend
  <2>2. \/ /\ IsExpected(m) /\ done
           /\ \E r \in Readings : /\ Asking(r, m, FALSE)
                                 /\ gitPanel' = [gitPanel EXCEPT !.latest = r, !.error = FALSE]
        \/ /\ IsExpected(m) /\ ~done
           /\ gitPanel' = [gitPanel EXCEPT !.error = TRUE, !.busy = FALSE]
           /\ UNCHANGED statusCall
        \/ /\ ~IsExpected(m) /\ mutation[m].left
           /\ (\E r \in Readings : Asking(r, NoSlot, TRUE)) /\ UNCHANGED gitPanel
        \/ /\ ~IsExpected(m) /\ UNCHANGED <<statusCall, gitPanel>>
    BY <1>8 DEF ReplyMutation
  <2>3. /\ mutation' \in [Mutations -> MutationRecord] /\ mutation'[m].stage = "idle"
        /\ \A n \in Mutations \ {m} : mutation'[n] = mutation[n]
    BY <1>1, <2>1, RestingRecords
  <2>4. QueueInv' /\ CommitInv'
    BY <1>1, <2>1, <2>3 DEF QueueInv, CommitInv, Holds
  <2>5. ASSUME gitPanel' \in PanelRecord, statusCall' \in [Readings -> ReadingRecord]
        PROVE  GitTyped'
    BY <1>1, <2>1, <2>3, <2>5 DEF GitTyped
  <2>6. /\ openRoot' # panelRoot' => gitOpening' = "switched"
        /\ \A w \in Repositories : owed'[w] <= gitIndex'[w]
    BY <1>1, <2>1 DEF StatusInv
  <2>7. ASSUME NEW r \in Readings, IsExpected(m), Asking(r, m, FALSE),
               gitPanel' = [gitPanel EXCEPT !.latest = r, !.error = FALSE]
        PROVE  GitInv'
    <3>1. /\ statusCall' \in [Readings -> ReadingRecord] /\ statusCall'[r].stage = "asked"
          /\ ~statusCall'[r].left /\ statusCall'[r].awaited = m
      BY <1>1, <2>7, CallIsAsked
    <3>2. /\ gitPanel' \in PanelRecord /\ gitPanel'.latest = r /\ gitPanel'.mutating = m
      BY <1>1, <2>7 DEF PanelRecord, IsExpected
    <3>3. BusyIsAnswered'
      <4>1. m # NoSlot
        OBVIOUS
      <4>2. RefreshIsAwaited'
        BY <3>1, <3>2 DEF RefreshIsAwaited
      <4> QED
        BY <3>2, <4>1, <4>2 DEF BusyIsAnswered
    <3>4. StatusInv'
      BY <2>6, <3>1, <3>2, <3>3, NewCallRefreshes
    <3> QED
      BY <2>4, <2>5, <3>1, <3>2, <3>4 DEF GitInv
  <2>8. CASE /\ gitPanel' = [gitPanel EXCEPT !.error = TRUE, !.busy = FALSE]
             /\ UNCHANGED statusCall
    <3>1. /\ gitPanel' \in PanelRecord /\ gitPanel'.error /\ ~gitPanel'.busy
          /\ gitPanel'.open = gitPanel.open /\ gitPanel'.latest = gitPanel.latest
      BY <1>1, <2>8 DEF PanelRecord
    <3>2. StatusInv'
      BY <1>1, <2>6, <3>1 DEF StatusInv, StatusIsOwed
    <3> QED
      BY <1>1, <2>4, <2>5, <2>8, <3>1, <3>2 DEF GitInv
  <2>9. ASSUME NEW r \in Readings, ~IsExpected(m), Asking(r, NoSlot, TRUE), UNCHANGED gitPanel
        PROVE  GitInv'
    <3>1. /\ statusCall[r].stage = "idle" /\ statusCall' \in [Readings -> ReadingRecord]
          /\ statusCall'[r].left
          /\ \A q \in Readings \ {r} : statusCall'[q] = statusCall[q]
      BY <1>1, <2>9, CallIsAsked
    <3>2. gitPanel.open => (Mutates' <=> Mutates)
      BY <2>3, <2>9 DEF Mutates, IsExpected
    <3>3. gitPanel.open => /\ Refreshes' <=> Refreshes
                           /\ Refreshes => statusCall'[gitPanel'.latest] = statusCall[gitPanel.latest]
      BY <1>1, <2>9, <3>1 DEF Refreshes, StatusInv
    <3>4. RefreshIsAwaited => RefreshIsAwaited'
      BY <2>9, <3>1 DEF RefreshIsAwaited
    <3>5. gitPanel.open /\ StatusIsOwed => StatusIsOwed'
      BY <2>1, <2>9, <3>2, <3>3 DEF StatusIsOwed
    <3>6. gitPanel.open /\ BusyIsAnswered => BusyIsAnswered'
      BY <2>9, <3>2, <3>4 DEF BusyIsAnswered
    <3>7. StatusInv'
      BY <1>1, <2>1, <2>6, <2>9, <3>5, <3>6 DEF StatusInv
    <3> QED
      BY <1>1, <2>4, <2>5, <2>9, <3>1, <3>7 DEF GitInv
  <2>10. CASE ~IsExpected(m) /\ UNCHANGED <<statusCall, gitPanel>>
    <3>1. gitPanel.open /\ Mutates => Mutates'
      BY <2>3, <2>10 DEF Mutates, IsExpected
    <3>2. StatusInv'
      BY <1>1, <2>1, <2>10, <3>1, PanelKept
    <3> QED
      BY <1>1, <2>4, <2>5, <2>10, <3>2 DEF GitInv
  <2> QED
    BY <2>2, <2>7, <2>8, <2>9, <2>10
<1> QED
  BY <1>2, <1>5, <1>6, <1>7, <1>8

\* Leaving and switching make every call one of a panel that was left.
LEMMA OpeningSteps ==
    ASSUME GitInv,
           \/ LeaveSourceControl \/ BeginGitOpening \/ CancelGitOpening \/ AdoptRepository
           \/ \E w \in Repositories : SwitchRepository(w) \/ OtherGitProgram(w)
    PROVE  GitInv'
<1> USE SourceControlAssumption
<1>1. /\ GitTyped /\ StatusInv /\ CommitInv /\ QueueInv /\ gitPanel \in PanelRecord
      /\ statusCall \in [Readings -> ReadingRecord]
      /\ mutation \in [Mutations -> MutationRecord]
      /\ gitIndex \in [Repositories -> Nat] /\ owed \in [Repositories -> Nat]
      /\ openRoot \in Repositories
  BY DEF GitInv, GitTyped
<1>2. CASE LeaveSourceControl
  <2>1. /\ gitPanel' = ClosedPanel /\ tokenDue' = FALSE
        /\ statusCall' = [r \in Readings |->
                     IF r = gitPanel.latest /\ statusCall[r].stage # "idle"
                     THEN [statusCall[r] EXCEPT !.left = TRUE, !.awaited = NoSlot]
                     ELSE IF statusCall[r].left THEN statusCall[r] ELSE NoReading]
        /\ mutation' = [m \in Mutations |->
                      IF mutation[m].stage = "idle" THEN mutation[m]
                      ELSE [mutation[m] EXCEPT !.left = @ \/ m = gitPanel.mutating]]
        /\ UNCHANGED <<openRoot, gitIndex, queue, gitStatus, panelRoot, gitOpening, owed>>
    BY <1>2 DEF LeaveSourceControl, gitBackend
  <2>9. gitActs < MaxGitActs /\ gitActs' = gitActs + 1
    BY <1>2 DEF LeaveSourceControl, GitBegins
  <2>2. gitActs' \in 0..MaxGitActs
    BY <1>1, <2>9 DEF GitTyped
  <2>3. statusCall' \in [Readings -> ReadingRecord]
    <3>1. ASSUME NEW r \in Readings
          PROVE  [statusCall[r] EXCEPT !.left = TRUE, !.awaited = NoSlot] \in ReadingRecord
      BY <1>1 DEF ReadingRecord
    <3> QED
      BY <1>1, <2>1, <3>1, RestingRecords
  <2>4. ASSUME NEW m \in Mutations
        PROVE  /\ mutation'[m] \in MutationRecord
               /\ mutation'[m].stage = mutation[m].stage /\ mutation'[m].kind = mutation[m].kind
               /\ mutation'[m].root = mutation[m].root
               /\ mutation'[m].approved = mutation[m].approved
               /\ mutation'[m].raced = mutation[m].raced
    <3> DEFINE left == mutation[m].left \/ m = gitPanel.mutating
    <3>1. left \in BOOLEAN /\ mutation[m] \in MutationRecord
      BY <1>1 DEF MutationRecord
    <3>2. mutation'[m] \in {mutation[m], [mutation[m] EXCEPT !.left = left]}
      BY <2>1
    <3> HIDE DEF left
    <3> QED
      BY <3>1, <3>2 DEF MutationRecord
  <2>5. mutation' \in [Mutations -> MutationRecord]
    BY <2>1, <2>4
  <2>10. UNCHANGED <<gitIndex, queue>>
    BY <2>1
  <2>6. QueueInv' /\ CommitInv'
    BY <1>1, <2>4, <2>10 DEF QueueInv, CommitInv, Holds
  <2>7. StatusInv'
    BY <1>1, <2>1, RestingRecords DEF StatusInv
  <2>8. GitTyped'
    <3>1. tokenDue' \in BOOLEAN
      BY <2>1
    <3> QED
      BY <1>1, <2>1, <2>2, <2>3, <2>5, <3>1, RestingRecords DEF GitTyped
  <2> QED
    BY <2>6, <2>7, <2>8 DEF GitInv
<1>3. ASSUME UNCHANGED <<gitIndex, queue, mutation, statusCall, gitPanel, gitStatus, panelRoot,
                         tokenDue, owed>>,
             gitActs' \in 0..MaxGitActs, gitOpening' \in {"no", "asked", "switched"},
             openRoot' \in Repositories, gitOpening # "switched",
             gitOpening' = "switched" \/ UNCHANGED openRoot
      PROVE  GitInv'
  <2>1. openRoot = panelRoot
    BY <1>1, <1>3 DEF StatusInv
  <2>2. QueueInv' /\ CommitInv'
    BY <1>3, LockKept
  <2>3. /\ StatusIsOwed' <=> StatusIsOwed
        /\ BusyIsAnswered' <=> BusyIsAnswered
    BY <1>3 DEF StatusIsOwed, BusyIsAnswered, Mutates, Refreshes, RefreshIsAwaited
  <2>4. StatusInv'
    BY <1>1, <1>3, <2>1, <2>3 DEF StatusInv
  <2>5. GitTyped'
    BY <1>1, <1>3 DEF GitTyped
  <2> QED
    BY <2>2, <2>4, <2>5 DEF GitInv
<1>4. CASE BeginGitOpening
  <2>1. gitActs' \in 0..MaxGitActs
    BY <1>1, <1>4 DEF BeginGitOpening, GitBegins, GitTyped
  <2> QED
    BY <1>1, <1>3, <1>4, <2>1 DEF BeginGitOpening, gitBackend
<1>5. CASE CancelGitOpening
  <2>1. gitActs' \in 0..MaxGitActs
    BY <1>1, <1>5 DEF CancelGitOpening, GitTyped
  <2> QED
    BY <1>1, <1>3, <1>5, <2>1 DEF CancelGitOpening, gitBackend
<1>6. ASSUME NEW w \in Repositories, SwitchRepository(w)
      PROVE  GitInv'
  <2>1. gitActs' \in 0..MaxGitActs
    BY <1>1, <1>6 DEF SwitchRepository, GitTyped
  <2> QED
    BY <1>1, <1>3, <1>6, <2>1 DEF SwitchRepository
<1>7. CASE AdoptRepository
  <2>1. /\ gitOpening = "switched" /\ gitOpening' = "no"
        /\ panelRoot' = openRoot /\ gitStatus' = NoStatus /\ tokenDue' = gitPanel.open
        /\ UNCHANGED <<openRoot, gitIndex, queue, mutation, gitActs, owed>>
    BY <1>7 DEF AdoptRepository, gitBackend
  <2>2. QueueInv' /\ CommitInv'
    BY <2>1, LockKept
  <2>3. /\ openRoot' = panelRoot' /\ \A w \in Repositories : owed'[w] <= gitIndex'[w]
    BY <1>1, <2>1 DEF StatusInv
  <2>4. tokenDue' \in BOOLEAN
    BY <1>1, <2>1 DEF PanelRecord
  <2>5. ASSUME gitPanel' \in PanelRecord, statusCall' \in [Readings -> ReadingRecord]
        PROVE  GitTyped'
    BY <1>1, <2>1, <2>4, <2>5 DEF GitTyped
  <2>6. CASE gitPanel.open /\ openRoot # panelRoot
    <3>1. PICK r \in Readings : /\ Asking(r, NoSlot, FALSE)
                                /\ gitPanel' = [ClosedPanel EXCEPT !.open = TRUE, !.latest = r]
      BY <1>7, <2>6 DEF AdoptRepository
    <3>2. /\ statusCall' \in [Readings -> ReadingRecord] /\ statusCall'[r].stage = "asked"
          /\ ~statusCall'[r].left
      BY <1>1, <3>1, CallIsAsked
    <3>3. gitPanel' \in PanelRecord /\ gitPanel'.latest = r /\ ~gitPanel'.busy
      BY <3>1 DEF ClosedPanel, PanelRecord
    <3>4. StatusInv'
      BY <2>3, <3>2, <3>3, NewCallRefreshes
    <3> QED
      BY <2>2, <2>5, <3>2, <3>3, <3>4 DEF GitInv
  <2>7. CASE ~(gitPanel.open /\ openRoot # panelRoot)
    <3>1. UNCHANGED <<statusCall, gitPanel>>
      BY <1>7, <2>7 DEF AdoptRepository
    <3>2. BusyIsAnswered' <=> BusyIsAnswered
      BY <2>1, <3>1 DEF BusyIsAnswered, Mutates, RefreshIsAwaited
    <3>3. gitPanel.open => StatusIsOwed'
      BY <2>1 DEF StatusIsOwed
    <3>4. StatusInv'
      BY <1>1, <2>3, <3>1, <3>2, <3>3 DEF StatusInv
    <3> QED
      BY <1>1, <2>2, <2>5, <3>1, <3>4 DEF GitInv
  <2> QED
    BY <2>6, <2>7
<1>8. ASSUME NEW w \in Repositories, OtherGitProgram(w)
      PROVE  GitInv'
  <2>1. /\ gitIndex' = [gitIndex EXCEPT ![w] = @ + 1]
        /\ mutation' = [m \in Mutations |->
                      IF mutation[m].stage = "checked" /\ mutation[m].root = w
                      THEN [mutation[m] EXCEPT !.raced = TRUE] ELSE mutation[m]]
        /\ UNCHANGED <<openRoot, queue, statusCall, gitPanel, gitStatus, panelRoot, gitOpening,
                       tokenDue, owed>>
    BY <1>8 DEF OtherGitProgram, gitView
  <2>2. gitActs' \in 0..MaxGitActs
    BY <1>1, <1>8 DEF OtherGitProgram, GitBegins, GitTyped
  <2>3. ASSUME NEW m \in Mutations
        PROVE  /\ mutation'[m] \in MutationRecord
               /\ mutation'[m].stage = mutation[m].stage /\ mutation'[m].kind = mutation[m].kind
               /\ mutation'[m].root = mutation[m].root
               /\ mutation'[m].approved = mutation[m].approved
               /\ mutation'[m].left = mutation[m].left
               /\ mutation[m].raced => mutation'[m].raced
               /\ mutation[m].stage = "checked" /\ mutation[m].root = w => mutation'[m].raced
    <3>1. mutation[m] \in MutationRecord
      BY <1>1
    <3> QED
      BY <2>1, <3>1 DEF MutationRecord
  <2>4. /\ mutation' \in [Mutations -> MutationRecord] /\ gitIndex' \in [Repositories -> Nat]
        /\ \A v \in Repositories : gitIndex'[v] >= gitIndex[v] /\ gitIndex'[v] \in Nat
        /\ \A v \in Repositories \ {w} : gitIndex'[v] = gitIndex[v]
    BY <1>1, <2>1, <2>3
  <2>5. QueueInv'
    BY <1>1, <2>1, <2>3 DEF QueueInv
  <2>6. CommitInv'
    BY <1>1, <2>1, <2>3, <2>4 DEF CommitInv, Holds
  <2>7. Mutates => Mutates'
    BY <2>1, <2>3 DEF Mutates
  <2>8. StatusInv'
    BY <1>1, <2>1, <2>4, <2>7, PanelKept
  <2>9. GitTyped'
    BY <1>1, <2>1, <2>2, <2>4 DEF GitTyped
  <2> QED
    BY <2>5, <2>6, <2>8, <2>9 DEF GitInv
<1> QED
  BY <1>2, <1>4, <1>5, <1>6, <1>7, <1>8

\* Every step is one of the status, of a mutation or of an opening.
LEMMA GitSteps ==
    ASSUME GitInv, [SourceControlNext]_gitVars
    PROVE  GitInv'
<1>1. CASE UNCHANGED gitVars
  <2>1. QueueInv' /\ CommitInv'
    BY <1>1, LockKept DEF gitVars, gitBackend
  <2>2. GitTyped'
    BY <1>1 DEF GitInv, GitTyped, gitVars, gitBackend, gitView
  <2>3. StatusInv'
    <3>1. (Mutates' <=> Mutates) /\ (Refreshes' <=> Refreshes)
             /\ (RefreshIsAwaited' <=> RefreshIsAwaited)
      BY <1>1 DEF gitVars, gitView, Mutates, Refreshes, RefreshIsAwaited
    <3> QED
      BY <1>1, <3>1 DEF GitInv, StatusInv, StatusIsOwed, BusyIsAnswered,
                        gitVars, gitBackend, gitView
  <2> QED
    BY <2>1, <2>2, <2>3 DEF GitInv
<1> QED
  BY <1>1, StatusSteps, MutationSteps, OpeningSteps DEF SourceControlNext

--------------------------------------------------------------------------------
(* The hits of the query in the field.                                     *)

\* The newest call asks for what is in the field, and knows whether an older one
\* has cut it short.
SearchInv ==
    /\ SearchTypeOK /\ SearchIsOfItsQuery
    /\ newest # NoSearch =>
          LET call == searchCall[newest]
          IN  /\ call.query = query /\ call.root = searchRoot /\ call.stage # "idle"
              /\ call.stage = "begun" => call.token = searches \/ call.overtaken
              /\ call.stage \in {"searched", "answered"} => call.whole \/ call.overtaken

\* A call of the panel.
SearchCallRecord ==
    [stage : {"idle", "asked", "begun", "searched", "answered", "failed"},
     query : Queries \cup {NoQuery}, root : Folders \cup {NoQuery}, token : Nat,
     whole : BOOLEAN, overtaken : BOOLEAN]

\* The panel begins with nothing asked.
LEMMA SearchBegins == SearchInit => SearchInv
<1> SUFFICES ASSUME SearchInit
             PROVE  SearchInv
  OBVIOUS
<1>1. NoSearchCall \in SearchCallRecord
  BY DEF NoSearchCall, SearchCallRecord
<1>2. searchCall \in [Searches -> SearchCallRecord]
  BY <1>1 DEF SearchInit
<1>3. search \in [phase : {"idle", "searching", "ready", "error"},
                 query : Queries \cup {NoQuery}, root : Folders \cup {NoQuery},
                 whole : BOOLEAN]
  BY DEF SearchInit, Idle
<1>4. SearchTypeOK
  <2>1. debounce \in BOOLEAN /\ newest \in Searches \cup {NoSearch}
    BY DEF SearchInit
  <2>2. searches \in Nat /\ typed \in 0..MaxTyped
    BY WorkspaceSearchAssumption DEF SearchInit
  <2> QED
    BY <1>2, <1>3, <2>1, <2>2 DEF SearchInit, SearchTypeOK, SearchCallRecord
<1>5. newest = NoSearch /\ search.phase = "idle"
  BY DEF SearchInit, Idle
<1> QED
  BY <1>4, <1>5 DEF SearchInv, SearchIsOfItsQuery

\* A keystroke makes every older call one that does not count; the newest asks for what
\* is in the field.
LEMMA SearchSteps ==
    ASSUME SearchInv, [SearchNext]_searchVars
    PROVE  SearchInv'
<1> USE WorkspaceSearchAssumption DEF Begins
<1>1. ASSUME NEW q \in Queries \cup {NoQuery}, Type(q)
      PROVE  SearchInv'
  <2>1. SearchTypeOK'
    <3>1. search' \in [phase : {"idle", "searching", "ready", "error"},
                       query : Queries \cup {NoQuery}, root : Folders \cup {NoQuery},
                       whole : BOOLEAN]
      BY <1>1 DEF Type, Idle
    <3> QED
      BY <1>1, <3>1 DEF Type, SearchInv, SearchTypeOK
  <2>2. SearchIsOfItsQuery'
    <3>1. search'.phase # "ready" /\ (search'.phase = "searching" => debounce')
      BY <1>1 DEF Type, Idle
    <3> QED
      BY <3>1 DEF SearchIsOfItsQuery
  <2>3. newest' = NoSearch
    BY <1>1 DEF Type
  <2> QED
    BY <2>1, <2>2, <2>3 DEF SearchInv
<1>2. ASSUME NEW c \in Searches, SearchIsAsked(c)
      PROVE  SearchInv'
  BY <1>2 DEF SearchIsAsked, SearchInv, SearchTypeOK, SearchIsOfItsQuery, NoSearchCall
<1>3. ASSUME NEW c \in Searches, AnswerSearch(c)
      PROVE  SearchInv'
  BY <1>3 DEF AnswerSearch, AnswerCounts, SearchInv, SearchTypeOK, SearchIsOfItsQuery, NoSearchCall
<1>4. ASSUME NEW c \in Searches, BeginSearch(c)
      PROVE  SearchInv'
  <2>1. CASE searchCall[c].root # indexRoot
    BY <1>4, <2>1 DEF BeginSearch, SearchInv, SearchTypeOK, SearchIsOfItsQuery
  <2>2. CASE searchCall[c].root = indexRoot
    <3>1. searchCall' = [d \in Searches |->
             IF d = c THEN [searchCall[c] EXCEPT !.stage = "begun", !.token = searches + 1]
             ELSE [searchCall[d] EXCEPT !.overtaken = @ \/ (d = newest /\
                                 searchCall[d].stage \in {"begun", "searched"})]]
          /\ searches' = searches + 1
          /\ UNCHANGED <<indexRoot, query, search, debounce, newest, searchRoot,
                         searchOpening, typed>>
      BY <1>4, <2>2 DEF BeginSearch
    <3>2. SearchTypeOK'
      <4>1. searchCall \in [Searches -> SearchCallRecord] /\ searches \in Nat
        BY DEF SearchInv, SearchTypeOK, SearchCallRecord
      <4>2. ASSUME NEW d \in Searches
            PROVE  searchCall'[d] \in SearchCallRecord
        <5>1. CASE d = c
          <6> DEFINE token == searches + 1
          <6>1. searchCall'[d] = [searchCall[c] EXCEPT !.stage = "begun", !.token = token]
            BY <5>1, <3>1
          <6>2. token \in Nat /\ searchCall[c] \in SearchCallRecord
            BY <4>1
          <6> HIDE DEF token
          <6> QED
            BY <6>1, <6>2 DEF SearchCallRecord
        <5>2. CASE d # c
          <6> DEFINE o == searchCall[d].overtaken \/ (d = newest /\
                                 searchCall[d].stage \in {"begun", "searched"})
          <6>1. o \in BOOLEAN
            BY <4>1 DEF SearchCallRecord
          <6>2. searchCall'[d] = [searchCall[d] EXCEPT !.overtaken = o]
            BY <5>2, <3>1
          <6> HIDE DEF o
          <6> QED
            BY <6>1, <6>2, <4>1 DEF SearchCallRecord
        <5> QED
          BY <5>1, <5>2
      <4>3. searchCall' \in [Searches -> SearchCallRecord]
        BY <4>2, <3>1
      <4> QED
        BY <4>1, <4>3, <3>1 DEF SearchInv, SearchTypeOK, SearchCallRecord
    <3>3. \A d \in Searches :
             /\ searchCall'[d].query = searchCall[d].query
             /\ searchCall'[d].root = searchCall[d].root
             /\ searchCall'[d].whole = searchCall[d].whole
             /\ searchCall'[d].stage = IF d = c THEN "begun" ELSE searchCall[d].stage
      BY <3>1 DEF SearchInv, SearchTypeOK
    <3>4. searchCall'[c].token = searches'
      BY <3>1 DEF SearchInv, SearchTypeOK
    <3>5. newest # c /\ newest # NoSearch
             /\ (searchCall[newest].stage \in {"begun", "searched"} \/ searchCall[newest].overtaken)
          => searchCall'[newest].overtaken
      BY <3>1 DEF SearchInv, SearchTypeOK
    <3>6. SearchIsOfItsQuery'
      BY <3>1, <3>3 DEF SearchInv, SearchTypeOK, SearchIsOfItsQuery
    <3> QED
      BY <3>1, <3>2, <3>3, <3>4, <3>5, <3>6 DEF SearchInv, SearchTypeOK
  <2> QED
    BY <2>1, <2>2
<1>5. ASSUME NEW c \in Searches, RunSearch(c)
      PROVE  SearchInv'
  <2>1. SearchTypeOK'
    <3> DEFINE whole == searchCall[c].token = searches
    <3>1. whole \in BOOLEAN
      OBVIOUS
    <3>2. searchCall' = [searchCall EXCEPT ![c] =
                           [searchCall[c] EXCEPT !.stage = "searched", !.whole = whole]]
      BY <1>5 DEF RunSearch, SearchInv, SearchTypeOK
    <3> HIDE DEF whole
    <3>3. searchCall \in [Searches -> SearchCallRecord]
      BY DEF SearchInv, SearchTypeOK, SearchCallRecord
    <3>4. [searchCall[c] EXCEPT !.stage = "searched", !.whole = whole] \in SearchCallRecord
      BY <3>1, <3>3 DEF SearchCallRecord
    <3>5. searchCall' \in [Searches -> SearchCallRecord]
      BY <3>2, <3>3, <3>4
    <3> QED
      BY <1>5, <3>5 DEF RunSearch, SearchInv, SearchTypeOK, SearchCallRecord
  <2>2. SearchIsOfItsQuery'
    BY <1>5 DEF RunSearch, SearchInv, SearchTypeOK, SearchIsOfItsQuery
  <2>3. \A d \in Searches \ {c} : searchCall'[d] = searchCall[d]
    BY <1>5 DEF RunSearch, SearchInv, SearchTypeOK
  <2>4. /\ searchCall'[c].stage = "searched"
        /\ searchCall'[c].whole = (searchCall[c].token = searches)
        /\ searchCall'[c].query = searchCall[c].query
        /\ searchCall'[c].root = searchCall[c].root
        /\ searchCall'[c].overtaken = searchCall[c].overtaken
    BY <1>5 DEF RunSearch, SearchInv, SearchTypeOK
  <2>5. searchCall[c].stage = "begun" /\ UNCHANGED <<newest, query, searchRoot, searches>>
    BY <1>5 DEF RunSearch
  <2> QED
    BY <2>1, <2>2, <2>3, <2>4, <2>5 DEF SearchInv, SearchTypeOK
<1>6. ASSUME NEW c \in Searches, EndSearch(c)
      PROVE  SearchInv'
  BY <1>6 DEF EndSearch, SearchInv, SearchTypeOK, SearchIsOfItsQuery
<1>7. CASE BeginSearchOpening
  BY <1>7 DEF BeginSearchOpening, SearchInv, SearchTypeOK, SearchIsOfItsQuery
<1>8. CASE AdoptFolder
  BY <1>8 DEF AdoptFolder, SearchInv, SearchTypeOK, SearchIsOfItsQuery, Idle
<1>9. ASSUME NEW w \in Folders, SearchOpeningInstalls(w)
      PROVE  SearchInv'
  BY <1>9 DEF SearchOpeningInstalls, SearchInv, SearchTypeOK, SearchIsOfItsQuery
<1>10. CASE UNCHANGED searchVars
  BY <1>10 DEF searchVars, SearchInv, SearchTypeOK, SearchIsOfItsQuery
<1> QED
  BY <1>1, <1>2, <1>3, <1>4, <1>5, <1>6, <1>7, <1>8, <1>9, <1>10 DEF SearchNext

--------------------------------------------------------------------------------
(* The explanation of the selected node.                                   *)

\* The newest call asks about the node that is selected; it is of an older
\* generation only if an opening silenced it.
AiInv ==
    /\ AiTypeOK /\ ExplanationIsOfSelection
    /\ silenced => explaining
    /\ newestCall # NoAiSlot =>
          LET call == aiCall[newestCall]
          IN  /\ call # NoAiCall /\ call.node = selected /\ call.project = aiProject
              /\ call.generation <= aiGeneration /\ explaining
              /\ silenced <=> call.generation # aiGeneration

\* The panel begins with nothing asked.
LEMMA AiBeginsWell == AiInit => AiInv
<1> SUFFICES ASSUME AiInit
             PROVE  AiInv
  OBVIOUS
<1>1. aiCall \in [AiCalls -> [stage : {"asked", "consent", "sent", "answered", "failed"},
                             node : Nodes, project : Projects, generation : Nat]
                            \cup {NoAiCall}]
  BY DEF AiInit
<1>2. \A c \in AiCalls : aiReserved = c <=> aiCall[c].stage \in {"consent", "sent"}
  BY AiAssumption DEF AiInit, NoAiCall
<1>3. AiTypeOK
  <2>1. explaining \in BOOLEAN /\ explanationError \in BOOLEAN /\ silenced \in BOOLEAN
    BY DEF AiInit
  <2>2. aiGeneration \in Nat /\ aiActs \in 0..MaxAiActs
    BY AiAssumption DEF AiInit
  <2> QED
    BY <1>1, <1>2, <2>1, <2>2 DEF AiInit, AiTypeOK
<1> QED
  BY <1>3 DEF AiInit, AiInv, ExplanationIsOfSelection

\* A new selection forgets the newest call, and an opening makes it one of an older
\* generation.
LEMMA AiSteps ==
    ASSUME AiInv, [AiNext]_aiVars
    PROVE  AiInv'
<1> USE AiAssumption DEF aiView, aiWorkspace, NoAiCall, NoAnswer, AiBegins, ResetExplanation
<1>1. ASSUME NEW n \in Nodes \cup {NoNode}, SelectNode(n)
      PROVE  AiInv'
  <2>1. AiTypeOK'
    <3>1. /\ UNCHANGED <<openProject, aiProject, aiReserved, aiCall, aiGeneration, aiOpening>>
          /\ newestCall' = NoAiSlot /\ selected' = n /\ aiActs' \in 0..MaxAiActs
      BY <1>1 DEF SelectNode, AiInv, AiTypeOK
    <3>2. /\ explanation' = NoAnswer /\ explaining' \in BOOLEAN
          /\ explanationError' \in BOOLEAN /\ silenced' \in BOOLEAN
      BY <1>1 DEF SelectNode
    <3> HIDE DEF NoAiCall, NoAnswer
    <3> QED
      BY <3>1, <3>2 DEF AiInv, AiTypeOK
  <2> QED
    BY <1>1, <2>1 DEF SelectNode, AiInv, ExplanationIsOfSelection
<1>2. ASSUME NEW c \in AiCalls, AskExplanation(c)
      PROVE  AiInv'
  BY <1>2 DEF AskExplanation, AiInv, AiTypeOK, ExplanationIsOfSelection
<1>3. ASSUME NEW c \in AiCalls, AnswerExplanation(c)
      PROVE  AiInv'
  <2>1. /\ aiCall[c] # NoAiCall /\ aiCall[c].stage \in {"answered", "failed"}
        /\ aiCall' = [aiCall EXCEPT ![c] = NoAiCall]
        /\ newestCall' = IF newestCall = c THEN NoAiSlot ELSE newestCall
        /\ UNCHANGED <<aiReserved, selected, aiWorkspace, aiActs, silenced>>
    BY <1>3 DEF AnswerExplanation
  <2>2. CASE AiIsStale(c)
    <3>1. UNCHANGED <<explanation, explanationError, explaining>>
      BY <1>3, <2>2 DEF AnswerExplanation
    <3>2. AiTypeOK'
      BY <2>1, <3>1 DEF AiInv, AiTypeOK
    <3> QED
      BY <2>1, <2>2, <3>1, <3>2 DEF AiIsStale, AiInv, AiTypeOK, ExplanationIsOfSelection
  <2>3. CASE ~AiIsStale(c)
    <3>1. /\ c = newestCall /\ aiCall[c].generation = aiGeneration /\ ~explaining'
          /\ newestCall' = NoAiSlot
      BY <1>3, <2>1, <2>3 DEF AnswerExplanation, AiIsStale
    <3>2. ~silenced /\ ~silenced'
      BY <2>1, <3>1 DEF AiInv, AiTypeOK
    <3>3. aiCall[c].node \in Nodes /\ aiCall[c].project \in Projects
      BY <2>1 DEF AiInv, AiTypeOK
    <3>4. \/ /\ explanation' = [node |-> aiCall[c].node, project |-> aiCall[c].project]
             /\ UNCHANGED explanationError
          \/ explanationError' = TRUE /\ UNCHANGED explanation
      BY <1>3, <2>3 DEF AnswerExplanation
    <3>5. AiTypeOK'
      <4>1. aiCall' \in [AiCalls -> [stage : {"asked", "consent", "sent", "answered", "failed"},
                                    node : Nodes, project : Projects, generation : Nat]
                                   \cup {NoAiCall}]
        BY <2>1 DEF AiInv, AiTypeOK
      <4>2. \A d \in AiCalls : aiReserved' = d <=> aiCall'[d].stage \in {"consent", "sent"}
        BY <2>1 DEF AiInv, AiTypeOK
      <4>3. explanation' \in Question \cup {NoAnswer}
        <5> HIDE DEF NoAnswer
        <5> QED
          BY <3>3, <3>4 DEF AiInv, AiTypeOK, Question
      <4>4. explaining' \in BOOLEAN /\ explanationError' \in BOOLEAN
        BY <1>3, <2>3, <3>4 DEF AnswerExplanation, AiInv, AiTypeOK
      <4> HIDE DEF NoAiCall, NoAnswer
      <4> QED
        BY <2>1, <3>1, <4>1, <4>2, <4>3, <4>4 DEF AiInv, AiTypeOK
    <3>6. ExplanationIsOfSelection'
      BY <2>1, <3>1, <3>4 DEF AiInv, AiTypeOK, ExplanationIsOfSelection
    <3> QED
      BY <3>1, <3>2, <3>5, <3>6 DEF AiInv
  <2> QED
    BY <2>2, <2>3
<1>4. ASSUME NEW c \in AiCalls, ReserveAiCall(c)
      PROVE  AiInv'
  BY <1>4 DEF ReserveAiCall, AiCallIs, IsOfOpenProject, AiInv, AiTypeOK, ExplanationIsOfSelection
<1>5. ASSUME NEW c \in AiCalls, AnswerAiConsent(c)
      PROVE  AiInv'
  BY <1>5 DEF AnswerAiConsent, EndAiCall, AiCallIs, IsOfOpenProject, AiInv, AiTypeOK, ExplanationIsOfSelection
<1>6. ASSUME NEW c \in AiCalls, ProviderAnswers(c)
      PROVE  AiInv'
  BY <1>6 DEF ProviderAnswers, EndAiCall, AiCallIs, IsOfOpenProject, AiInv, AiTypeOK, ExplanationIsOfSelection
<1>7. CASE BeginAiOpening
  BY <1>7 DEF BeginAiOpening, AiInv, AiTypeOK, ExplanationIsOfSelection
<1>8. CASE AdoptProject
  BY <1>8 DEF AdoptProject, AiInv, AiTypeOK, ExplanationIsOfSelection
<1>9. ASSUME NEW w \in Projects, AiOpeningInstalls(w)
      PROVE  AiInv'
  BY <1>9 DEF AiOpeningInstalls, AiInv, AiTypeOK, ExplanationIsOfSelection
<1>10. CASE UNCHANGED aiVars
  BY <1>10 DEF aiVars, AiInv, AiTypeOK, ExplanationIsOfSelection
<1> QED
  BY <1>1, <1>2, <1>3, <1>4, <1>5, <1>6, <1>7, <1>8, <1>9, <1>10 DEF AiNext

--------------------------------------------------------------------------------
(* The theorems.                                                           *)

AnswersInv == FlowInv /\ WorkspaceInv /\ GitInv /\ SearchInv /\ AiInv

\* Each component begins well, and so does one that rests.
LEMMA AnswersBegin == RendererInit => AnswersInv
<1> SUFFICES ASSUME RendererInit
             PROVE  AnswersInv
  OBVIOUS
<1>1. FlowInit /\ SourceControlInit /\ SearchInit /\ AiInit
  BY DEF RendererInit, SourceControlRest, SearchRest, AiRest
<1>2. WorkspaceViewInit \/ WorkspaceRest
  BY DEF RendererInit
<1> QED
  BY <1>1, <1>2, FlowBegins, RestOfWorkspace, GitBeginsWell, SearchBegins, AiBeginsWell
     DEF AnswersInv

\* A step of the renderer is one of a single component and leaves the others alone.
LEMMA OneMoves ==
    [RendererNext]_rendererVars =>
       /\ [FlowNext]_flowVars /\ [WorkspaceViewNext]_workspaceViewVars
       /\ [SourceControlNext]_gitVars /\ [SearchNext]_searchVars /\ [AiNext]_aiVars
  BY DEF RendererNext, rendererVars, EditorMoves, DebuggerMoves, BreakpointMoves, RunMoves,
         WorkspaceMoves, FlowMoves, GitMoves, SearchMoves, AiMoves

\* The invariant of the answers under way is inductive.
THEOREM AnswersHold == RendererSpec => []AnswersInv
<1>1. AnswersInv /\ [RendererNext]_rendererVars => AnswersInv'
  BY OneMoves, FlowSteps, WorkspaceSteps, GitSteps, SearchSteps, AiSteps DEF AnswersInv
<1> QED
  BY AnswersBegin, <1>1, PTL DEF RendererSpec

\* A panel that waits for nothing shows what it owes: no step is to come any more.
LEMMA RestShowsStatus == GitInv => StatusIsCurrent
<1> SUFFICES ASSUME GitInv, GitRests
             PROVE  /\ ~gitPanel.busy
                    /\ ~gitPanel.error => Knows(gitPanel.status, panelRoot, owed[panelRoot])
  BY DEF StatusIsCurrent, Knows
<1>1. gitPanel.open /\ gitPanel.latest \in Readings /\ openRoot = panelRoot /\ ~tokenDue
  BY DEF GitRests, GitInv, StatusInv
<1>2. ~Mutates /\ ~Refreshes /\ ~RefreshIsAwaited
  BY <1>1 DEF GitRests, Mutates, Refreshes, RefreshIsAwaited
<1> QED
  BY <1>1, <1>2 DEF GitInv, StatusInv, StatusIsOwed, BusyIsAnswered

\* useAppController, useWorkspaceGraphs, SourceControlPanel, SearchPanel and
\* useAiExplanation: whatever order the backend answers in, what is shown answers
\* the last question of the user about the open workspace.
THEOREM AnswersStayCurrent == RendererSpec => []AnswersAreCurrent
<1>1. AnswersInv => AnswersAreCurrent
  BY RestShowsStatus
     DEF AnswersInv, AnswersAreCurrent, FlowInv, WorkspaceInv, SearchInv, AiInv
<1> QED
  BY <1>1, AnswersHold, PTL

\* git_commit: who runs Git holds the lock since the dialog was shown, so the index
\* that a commit takes is the one that was approved, but for another program.
THEOREM CommitsAreApproved == RendererSpec => CommitIsApproved
<1> DEFINE Approved == \A m \in Mutations :
             mutation[m].stage = "checked" /\ mutation[m].kind = "commit"
                /\ mutation'[m].stage = "done"
             => gitIndex[mutation[m].root] = mutation[m].approved \/ mutation[m].raced
<1>1. AnswersInv => Approved
  BY DEF AnswersInv, GitInv, CommitInv
<1>2. AnswersInv => [Approved]_gitVars
  BY <1>1
<1> QED
  BY <1>2, AnswersHold, PTL DEF CommitIsApproved

\* The variables of these components keep their types; those of the version
\* control panel include that the lock is held by one call at most.
THEOREM AnswersTyped ==
    RendererSpec => [](FlowTypeOK /\ SourceControlTypeOK /\ SearchTypeOK /\ AiTypeOK)
<1>1. AnswersInv => FlowTypeOK /\ SourceControlTypeOK /\ SearchTypeOK /\ AiTypeOK
  BY GitIsTyped DEF AnswersInv, FlowInv, GitInv, SearchInv, AiInv
<1> QED
  BY <1>1, AnswersHold, PTL

\* useWorkspaceGraphs, as the application composes it or alone: the pages that are
\* shown are the first ones of the root that the last trace allows.
THEOREM LastTraceIsShown == FlowSpec => []FlowIsOfLastTrace
<1>1. FlowInv => FlowIsOfLastTrace
  BY DEF FlowInv
<1> QED
  BY <1>1, FlowBegins, FlowSteps, PTL DEF FlowSpec

\* adoptWorkspace and loadFilesAndGraph: no late load shows the graph of another
\* workspace, but for one that crossed an opening.
THEOREM OverviewIsOfTheOpen == WorkspaceViewSpec => []OverviewOfWorkspace
<1>1. WorkspaceInv => OverviewOfWorkspace
  BY DEF WorkspaceInv
<1>2. WorkspaceViewInit => WorkspaceInv
  BY RestOfWorkspace
<1> QED
  BY <1>1, <1>2, WorkspaceSteps, PTL DEF WorkspaceViewSpec
================================================================================
