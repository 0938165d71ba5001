---------------------------- MODULE IndexingProofs ----------------------------
(***************************************************************************)
(* What holds of the trace receiver for every number of starts, connections *)
(* and spans, and every capacity of the ring.  A span of the ring has its    *)
(* key, a key has its span, and a receiver yet to come has neither; deleting *)
(* a trace keeps the rest of the ring in its order, which is a fact about    *)
(* retain shown by induction over the naturals, in terms of sets.  And what  *)
(* holds of the API catalogue for every inventory, query, size of a page and *)
(* of the cache: a load has, up to its cursor, what was there all the time.  *)
(* And of the communities of every graph: votes are counted from both ends of *)
(* their edges, so that a node that changes its label changes them evenly.   *)
(* And of the pages of a flow, for every graph and every setting of the       *)
(* limits: a page has the links of the root that its offset and its length    *)
(* name, and a walk that nothing cut has followed what it took.              *)
(***************************************************************************)
EXTENDS TraceReceiver, ApiCatalog, StructuralCommunities, FlowPages,
        WellFoundedInduction, FiniteSetTheorems, SequenceTheorems, TLAPS

--------------------------------------------------------------------------------
(* Induction over the naturals, in terms of sets.                          *)

\* A set of naturals has a least element.
LEMMA NatMinimum ==
    ASSUME NEW T \in SUBSET Nat, T # {}
    PROVE  \E x \in T : \A y \in T : x <= y
<1>1. OpToRel(<, Nat) = {p \in Nat \X Nat : p[1] < p[2]}
  BY DEF OpToRel
<1>2. PICK x \in T : \A y \in T : <<y, x>> \notin {p \in Nat \X Nat : p[1] < p[2]}
  BY <1>1, NatLessThanWellFounded, WFMin
<1>3. ASSUME NEW y \in T PROVE x <= y
  <2>1. x \in Nat /\ y \in Nat /\ ~(y < x)
    BY <1>2
  <2> QED
    BY <2>1
<1> QED
  BY <1>3

\* A set that has 0 and every successor of its elements is all of Nat.
LEMMA NatSetInduction ==
    ASSUME NEW T \in SUBSET Nat, 0 \in T, \A n \in T : n + 1 \in T
    PROVE  \A n \in Nat : n \in T
<1>1. SUFFICES ASSUME Nat \ T # {} PROVE FALSE
  OBVIOUS
<1>2. PICK x \in Nat \ T : \A y \in Nat \ T : x <= y
  BY <1>1, NatMinimum
<1>3. x # 0 /\ x - 1 \in T
  BY <1>2
<1> QED
  BY <1>2, <1>3

--------------------------------------------------------------------------------
(* What retain leaves of a sequence.                                       *)

\* q has the elements of the first n of s that are kept, each at its own place h[i].
Embeds(S, s, kept, n, q, h) ==
    /\ q \in Seq(S) /\ Len(q) <= n /\ h \in [1..Len(q) -> 1..n]
    /\ \A i \in 1..Len(q) : q[i] = s[h[i]] /\ q[i] \in kept
    /\ \A i, j \in 1..Len(q) : i # j => h[i] # h[j]
    /\ \A k \in 1..n : s[k] \in kept => \E i \in 1..Len(q) : h[i] = k

\* rest[i] is what is kept of the first i elements.
IsRest(s, kept, n, rest) ==
    /\ DOMAIN rest = 0..n /\ rest = [i \in 0..n |-> rest[i]] /\ rest[0] = <<>>
    /\ \A i \in 1..n :
         rest[i] = IF s[i] \in kept THEN Append(rest[i - 1], s[i]) ELSE rest[i - 1]

\* There are such sequences,
LEMMA RestExists ==
    ASSUME NEW S, NEW s \in Seq(S), NEW kept
    PROVE  \E rest : IsRest(s, kept, Len(s), rest)
<1> DEFINE T == {n \in Nat : n <= Len(s) => \E rest : IsRest(s, kept, n, rest)}
<1>1. 0 \in T
  <2>1. IsRest(s, kept, 0, [i \in 0..0 |-> <<>>])
    BY DEF IsRest
  <2> QED
    BY <2>1
<1>2. ASSUME NEW n \in T PROVE n + 1 \in T
  <2> SUFFICES ASSUME n + 1 <= Len(s) PROVE \E rest : IsRest(s, kept, n + 1, rest)
    OBVIOUS
  <2>1. PICK r : IsRest(s, kept, n, r)
    BY LenProperties
  <2> DEFINE next == IF s[n + 1] \in kept THEN Append(r[n], s[n + 1]) ELSE r[n]
  <2> HIDE DEF next
  <2> DEFINE w == [i \in 0..n + 1 |-> IF i <= n THEN r[i] ELSE next]
  <2>2. DOMAIN w = 0..n + 1 /\ w = [i \in 0..n + 1 |-> w[i]] /\ w[0] = <<>>
    <3>1. w[0] = r[0]
      OBVIOUS
    <3> QED
      BY <2>1, <3>1 DEF IsRest
  <2>3. ASSUME NEW i \in 1..n + 1
        PROVE  w[i] = IF s[i] \in kept THEN Append(w[i - 1], s[i]) ELSE w[i - 1]
    <3>1. CASE i = n + 1
      <4>1. w[i] = next /\ w[i - 1] = r[n]
        BY <3>1
      <4> QED
        BY <4>1, <3>1 DEF next
    <3>2. CASE i \in 1..n
      <4>1. w[i] = r[i] /\ w[i - 1] = r[i - 1]
        BY <3>2
      <4> QED
        BY <4>1, <3>2, <2>1 DEF IsRest
    <3> QED
      BY <3>1, <3>2
  <2>4. IsRest(s, kept, n + 1, w)
    BY <2>2, <2>3 DEF IsRest
  <2> QED
    BY <2>4
<1>3. Len(s) \in T
  BY <1>1, <1>2, NatSetInduction, LenProperties
<1> QED
  BY <1>3, LenProperties

RestEquation(s, kept, rest) ==
    rest = [n \in 0..Len(s) |->
               IF n = 0 THEN <<>>
               ELSE IF s[n] \in kept THEN Append(rest[n - 1], s[n]) ELSE rest[n - 1]]

\* and Retain, which chooses them by their equation, takes the last.
LEMMA RetainIsLast ==
    ASSUME NEW S, NEW s \in Seq(S), NEW kept
    PROVE  \E rest : IsRest(s, kept, Len(s), rest) /\ Retain(s, kept) = rest[Len(s)]
<1> DEFINE r == CHOOSE rest : RestEquation(s, kept, rest)
<1>1. PICK u : IsRest(s, kept, Len(s), u)
  BY RestExists
<1>2. RestEquation(s, kept, u)
  <2>1. \A n \in 0..Len(s) :
          u[n] = IF n = 0 THEN <<>>
                 ELSE IF s[n] \in kept THEN Append(u[n - 1], s[n]) ELSE u[n - 1]
    BY <1>1, LenProperties DEF IsRest
  <2> QED
    BY <1>1, <2>1 DEF IsRest, RestEquation
<1>3. RestEquation(s, kept, r)
  BY <1>2, Zenon
<1>4. Retain(s, kept) = r[Len(s)]
  BY Zenon DEF Retain, RestEquation
<1> HIDE DEF r
<1>5. \A n \in 0..Len(s) :
        r[n] = IF n = 0 THEN <<>>
               ELSE IF s[n] \in kept THEN Append(r[n - 1], s[n]) ELSE r[n - 1]
  BY <1>3 DEF RestEquation
<1>6. DOMAIN r = 0..Len(s) /\ r = [i \in 0..Len(s) |-> r[i]]
  BY <1>3 DEF RestEquation
<1>7. IsRest(s, kept, Len(s), r)
  BY <1>5, <1>6, LenProperties DEF IsRest
<1> QED
  BY <1>4, <1>7

\* One more element: it is put at the end, or nothing changes.
LEMMA EmbedsOneMore ==
    ASSUME NEW S, NEW s \in Seq(S), NEW kept, NEW n \in Nat, n + 1 <= Len(s),
           NEW q, NEW h, Embeds(S, s, kept, n, q, h),
           NEW p, p = IF s[n + 1] \in kept THEN Append(q, s[n + 1]) ELSE q
    PROVE  \E g : Embeds(S, s, kept, n + 1, p, g)
<1>0. /\ q \in Seq(S) /\ Len(q) \in Nat /\ Len(q) <= n /\ h \in [1..Len(q) -> 1..n]
      /\ s[n + 1] \in S
  BY ElementOfSeq, LenProperties DEF Embeds
<1>1. CASE s[n + 1] \notin kept
  <2>1. p = q
    BY <1>1
  <2>2. \A k \in 1..n + 1 : s[k] \in kept => \E i \in 1..Len(q) : h[i] = k
    <3>1. \A k \in 1..n + 1 : k \in 1..n \/ k = n + 1
      OBVIOUS
    <3> QED
      BY <1>1, <3>1 DEF Embeds
  <2>3. h \in [1..Len(q) -> 1..n + 1] /\ Len(q) <= n + 1
    BY <1>0
  <2>4. Embeds(S, s, kept, n + 1, q, h)
    BY <2>2, <2>3 DEF Embeds
  <2> QED
    BY <2>1, <2>4
<1>2. CASE s[n + 1] \in kept
  <2> DEFINE m == Len(q)
  <2>1. p \in Seq(S) /\ Len(p) = m + 1 /\ p[m + 1] = s[n + 1] /\ \A i \in 1..m : p[i] = q[i]
    BY <1>0, <1>2, AppendProperties
  <2> DEFINE g == [i \in 1..m + 1 |-> IF i = m + 1 THEN n + 1 ELSE h[i]]
  <2>2. g \in [1..m + 1 -> 1..n + 1]
    BY <1>0
  <2>3. g[m + 1] = n + 1 /\ \A i \in 1..m : g[i] = h[i] /\ h[i] \in 1..n
    BY <1>0
  <2> HIDE DEF g
  <2>m. \A i \in 1..m + 1 : i \in 1..m \/ i = m + 1
    BY <1>0
  <2>4. \A i \in 1..m + 1 : p[i] = s[g[i]] /\ p[i] \in kept
    <3>1. \A i \in 1..m : p[i] = s[g[i]] /\ p[i] \in kept
      BY <2>1, <2>3 DEF Embeds
    <3> QED
      BY <1>2, <2>1, <2>3, <2>m, <3>1
  <2>5. ASSUME NEW i \in 1..m + 1, NEW j \in 1..m + 1, i # j PROVE g[i] # g[j]
    <3>1. \A x, y \in 1..m : x # y => h[x] # h[y]
      BY DEF Embeds
    <3>2. CASE i \in 1..m /\ j \in 1..m
      BY <2>3, <2>5, <3>1, <3>2
    <3>3. CASE i = m + 1 /\ j \in 1..m
      BY <2>3, <3>3
    <3>4. CASE j = m + 1 /\ i \in 1..m
      BY <2>3, <3>4
    <3> QED
      BY <2>5, <2>m, <3>2, <3>3, <3>4
  <2>6. ASSUME NEW k \in 1..n + 1, s[k] \in kept PROVE \E i \in 1..m + 1 : g[i] = k
    <3>1. CASE k = n + 1
      <4>1. m + 1 \in 1..m + 1
        BY <1>0
      <4> QED
        BY <2>3, <3>1, <4>1
    <3>2. CASE k \in 1..n
      <4>1. PICK i \in 1..m : h[i] = k
        BY <2>6, <3>2 DEF Embeds
      <4>2. i \in 1..m + 1
        BY <1>0
      <4> QED
        BY <2>3, <4>1, <4>2
    <3> QED
      BY <3>1, <3>2
  <2>7. Embeds(S, s, kept, n + 1, p, g)
    <3>1. Len(p) <= n + 1
      BY <1>0, <2>1
    <3> HIDE DEF m
    <3> QED
      BY <2>1, <2>2, <2>4, <2>5, <2>6, <3>1 DEF Embeds
  <2> QED
    BY <2>7
<1> QED
  BY <1>1, <1>2

\* Retain leaves the elements that are kept, each as often as it was there.
LEMMA RetainEmbeds ==
    ASSUME NEW S, NEW s \in Seq(S), NEW kept
    PROVE  \E h : Embeds(S, s, kept, Len(s), Retain(s, kept), h)
<1>1. PICK rest : IsRest(s, kept, Len(s), rest) /\ Retain(s, kept) = rest[Len(s)]
  BY RetainIsLast
<1> DEFINE Good(n) == \E h : Embeds(S, s, kept, n, rest[n], h)
<1> DEFINE T == {n \in Nat : n <= Len(s) => Good(n)}
<1>2. 0 \in T
  <2>1. rest[0] = <<>> /\ <<>> \in Seq(S) /\ Len(<<>>) = 0
    BY <1>1, EmptySeq DEF IsRest
  <2>2. <<>> \in [1..0 -> 1..0]
    OBVIOUS
  <2>3. Embeds(S, s, kept, 0, rest[0], <<>>)
    BY <2>1, <2>2 DEF Embeds
  <2> QED
    BY <2>3
<1>3. ASSUME NEW n \in T PROVE n + 1 \in T
  <2>0. SUFFICES ASSUME n + 1 <= Len(s) PROVE Good(n + 1)
    <3> HIDE DEF Good
    <3> QED
      OBVIOUS
  <2>1. n \in Nat /\ Good(n)
    <3> HIDE DEF Good
    <3> QED
      BY <2>0, LenProperties
  <2>2. PICK h : Embeds(S, s, kept, n, rest[n], h)
    BY <2>1
  <2>3. rest[n + 1] = IF s[n + 1] \in kept THEN Append(rest[n], s[n + 1]) ELSE rest[n]
    <3>1. n + 1 \in 1..Len(s) /\ n + 1 - 1 = n
      BY <2>0, <2>1, LenProperties
    <3> QED
      BY <1>1, <3>1 DEF IsRest
  <2> QED
    BY <2>0, <2>1, <2>2, <2>3, EmbedsOneMore
<1> HIDE DEF Good
<1>4. Len(s) \in T
  BY <1>2, <1>3, NatSetInduction, LenProperties
<1>5. Good(Len(s))
  BY <1>4, LenProperties
<1> QED
  BY <1>1, <1>5 DEF Good

--------------------------------------------------------------------------------
(* The trace receiver: its inductive invariant.                            *)

Roots0 == TraceRoots \cup {NoTraceRoot}
EventRecords == [receiver : Nat \ {0}, root : Roots0, span : Spans]
ExportRecords == [stage : {"idle", "authorized", "ingesting", "reserved"}, receiver : Nat,
                  root : Roots0, batch : Seq(Spans)]

\* Types, with the receiver an export or an event is of.
RegistryTyped ==
    /\ otlp \in [lifecycle : {"stopped", "starting", "running", "failed"},
                 starting : Roots0, active : Nat, root : Roots0, keys : SUBSET Spans]
    /\ otlp.lifecycle = "running" <=> otlp.active # 0
    /\ otlp.lifecycle = "starting" <=> otlp.starting # NoTraceRoot
    /\ receivers \in Nat /\ otlp.active <= receivers
StarterTyped ==
    /\ starter \in [Starts -> [stage : {"idle", "read", "asked", "bound", "failed"},
                               root : Roots0]]
    /\ \A s \in Starts : starter[s].stage # "idle" => starter[s].root \in TraceRoots
ExportTyped ==
    /\ export \in [Exports -> ExportRecords]
    /\ \A e \in Exports :
         /\ export[e].receiver <= receivers
         /\ export[e].stage # "idle" => export[e].receiver # 0 /\ export[e].batch # <<>>
RingTyped ==
    /\ ring \in Seq(EventRecords) /\ Len(ring) <= EventCapacity
    /\ \A i \in DOMAIN ring : ring[i].receiver <= receivers
SwitchTyped ==
    /\ otlpRoot \in TraceRoots /\ otlpApp \in TraceRoots
    /\ otlpSwitch \in {"no", "begun", "installed"} /\ otlpActs \in 0..MaxOtlpActs

TracesTyped == RegistryTyped /\ StarterTyped /\ ExportTyped /\ RingTyped /\ SwitchTyped

\* What the active receiver is about to show has its key, and of two shows of one
\* span the trace was torn.
KeyInv ==
    /\ \A i \in DOMAIN ring :
         ring[i].receiver = otlp.active => ring[i].span \in otlp.keys \/ ring[i] \in torn
    /\ \A e \in Exports : export[e].stage = "reserved" /\ export[e].receiver = otlp.active =>
         Head(export[e].batch) \in otlp.keys \/ SpanEvent(e) \in torn
OnceInv ==
    /\ SpansAreShownOnce
    /\ \A e \in Exports : export[e].stage = "reserved" =>
         \A i \in DOMAIN ring : ring[i] = SpanEvent(e) => ring[i] \in torn
    /\ \A e, f \in Exports :
         (/\ export[e].stage = "reserved" /\ export[f].stage = "reserved"
          /\ e # f /\ SpanEvent(e) = SpanEvent(f)) => SpanEvent(e) \in torn
\* A connection that the active receiver let in works for its workspace.
ExportsInv ==
    \A e \in Exports : export[e].stage # "idle" /\ export[e].receiver = otlp.active =>
        export[e].root = otlp.root

\* A key, in the terms of what is reserved.
KeyIsExplained(k) ==
    \/ \E i \in DOMAIN ring : /\ ring[i].receiver = otlp.active /\ ring[i].root = otlp.root
                              /\ ring[i].span = k
    \/ k \in unshown
    \/ \E e \in Exports : /\ export[e].stage = "reserved" /\ export[e].receiver = otlp.active
                          /\ export[e].root = otlp.root /\ Head(export[e].batch) = k
KeysInv == \A k \in otlp.keys : KeyIsExplained(k)

ShownInv == ExportsInv /\ KeyInv /\ OnceInv /\ KeysInv

TracesIInv == TracesTyped /\ TracesAreOfWorkspace /\ StartsEnd /\ ShownInv

--------------------------------------------------------------------------------
(* Types.                                                                  *)

LEMMA ReceiverNumbers ==
    /\ MaxSpans \in Nat /\ MaxSpans > 0 /\ EventCapacity \in Nat /\ EventCapacity > 0
    /\ MaxOtlpActs \in Nat /\ NoTraceRoot \notin TraceRoots
    /\ TraceRoots \subseteq Roots0 /\ NoTraceRoot \in Roots0
    /\ \A b \in Batches : b \in Seq(Spans) /\ b # <<>>
BY TraceReceiverAssumption DEF Roots0

LEMMA TracesTypedIsOK == TracesTyped => TraceReceiverTypeOK
<1> SUFFICES ASSUME TracesTyped PROVE TraceReceiverTypeOK
  OBVIOUS
<1> USE DEF TracesTyped, RegistryTyped, StarterTyped, ExportTyped, RingTyped, SwitchTyped, Roots0
<1>1. \A e \in Exports :
         /\ export[e].stage \in {"idle", "authorized", "ingesting", "reserved"}
         /\ export[e].receiver \in 0..receivers
         /\ export[e].stage = "reserved" => export[e].batch # <<>>
  BY DEF ExportRecords
<1> QED
  BY <1>1 DEF TraceReceiverTypeOK

LEMMA TracesInit == TraceReceiverInit => TracesIInv
<1> SUFFICES ASSUME TraceReceiverInit PROVE TracesIInv
  OBVIOUS
<1> USE ReceiverNumbers DEF TraceReceiverInit, Stopped, NoStarter, NoExport
<1>0. <<>> \in Seq(Spans) /\ <<>> \in Seq(EventRecords) /\ Len(<<>>) = 0 /\ DOMAIN <<>> = {}
  BY EmptySeq
<1>1. RegistryTyped
  BY DEF RegistryTyped
<1>2. StarterTyped /\ SwitchTyped
  BY DEF StarterTyped, SwitchTyped
<1>3. ExportTyped
  BY <1>0 DEF ExportTyped, ExportRecords
<1>4. RingTyped
  BY <1>0 DEF RingTyped
<1>5. TracesAreOfWorkspace /\ StartsEnd /\ ShownInv
  BY <1>0 DEF TracesAreOfWorkspace, StartsEnd, ShownInv, ExportsInv, KeyInv, OnceInv, KeysInv,
              SpansAreShownOnce
<1> QED
  BY <1>1, <1>2, <1>3, <1>4, <1>5 DEF TracesIInv, TracesTyped

\* The registry after it was replaced by a receiver, a reservation or none.
LEMMA ReplacedTyped ==
    ASSUME RegistryTyped
    PROVE  /\ otlp' = Stopped /\ receivers' = receivers => RegistryTyped'
           /\ \A w \in TraceRoots :
                /\ (/\ otlp' = [Stopped EXCEPT !.lifecycle = "starting", !.starting = w]
                    /\ receivers' = receivers) => RegistryTyped'
                /\ (/\ otlp' = [Stopped EXCEPT !.lifecycle = "running", !.active = receivers + 1,
                                               !.root = w]
                    /\ receivers' = receivers + 1) => RegistryTyped'
           /\ (/\ otlp' = [Stopped EXCEPT !.lifecycle = "failed"]
               /\ receivers' = receivers) => RegistryTyped'
<1> USE ReceiverNumbers DEF RegistryTyped, Stopped
<1>1. otlp' = Stopped /\ receivers' = receivers => RegistryTyped'
  OBVIOUS
<1>2. (/\ otlp' = [Stopped EXCEPT !.lifecycle = "failed"]
       /\ receivers' = receivers) => RegistryTyped'
  OBVIOUS
<1>3. ASSUME NEW w \in TraceRoots, receivers' = receivers,
             otlp' = [Stopped EXCEPT !.lifecycle = "starting", !.starting = w]
      PROVE  RegistryTyped'
  <2>1. otlp' = [lifecycle |-> "starting", starting |-> w, active |-> 0,
                 root |-> NoTraceRoot, keys |-> {}]
    BY <1>3
  <2> QED
    BY <1>3, <2>1
<1>4. ASSUME NEW w \in TraceRoots, receivers' = receivers + 1,
             otlp' = [Stopped EXCEPT !.lifecycle = "running", !.active = receivers + 1,
                                     !.root = w]
      PROVE  RegistryTyped'
  <2>1. otlp' = [lifecycle |-> "running", starting |-> NoTraceRoot, active |-> receivers + 1,
                 root |-> w, keys |-> {}]
    BY <1>4
  <2>2. receivers + 1 \in Nat /\ receivers + 1 # 0
    OBVIOUS
  <2> QED
    BY <1>4, <2>1, <2>2
<1> QED
  BY <1>1, <1>2, <1>3, <1>4

\* What an export is about.
LEMMA ExportFields ==
    ASSUME ExportTyped, NEW e \in Exports
    PROVE  /\ export[e] \in ExportRecords /\ export[e].batch \in Seq(Spans)
           /\ export[e].stage # "idle" =>
                /\ export[e].receiver # 0 /\ export[e].batch # <<>>
                /\ Head(export[e].batch) \in Spans /\ Len(export[e].batch) >= 1
                /\ SpanEvent(e) \in EventRecords
<1>1. export[e] \in ExportRecords
  BY DEF ExportTyped
<1>2. /\ export[e].batch \in Seq(Spans) /\ export[e].receiver \in Nat /\ export[e].root \in Roots0
  BY <1>1 DEF ExportRecords
<1>3. ASSUME export[e].stage # "idle"
      PROVE  /\ export[e].receiver # 0 /\ export[e].batch # <<>>
             /\ Head(export[e].batch) \in Spans /\ Len(export[e].batch) >= 1
             /\ SpanEvent(e) \in EventRecords
  <2>1. export[e].receiver # 0 /\ export[e].batch # <<>>
    BY <1>3 DEF ExportTyped
  <2>2. Head(export[e].batch) \in Spans /\ Len(export[e].batch) >= 1
    BY <1>2, <2>1, HeadTailProperties, EmptySeq, LenProperties
  <2> QED
    BY <1>2, <2>1, <2>2 DEF SpanEvent, EventRecords
<1> QED
  BY <1>1, <1>2, <1>3

\* The export after one of its spans was dealt with.
LEMMA AfterSpanType ==
    ASSUME ExportTyped, NEW e \in Exports, export[e].stage # "idle"
    PROVE  LET x == AfterSpan(e) IN
           /\ x \in ExportRecords /\ x.stage \in {"idle", "ingesting"} /\ x.receiver <= export[e].receiver
           /\ x.stage # "idle" =>
                /\ x.receiver = export[e].receiver /\ x.root = export[e].root /\ x.batch # <<>>
<1> DEFINE q == export[e].batch
<1>1. export[e] \in ExportRecords /\ q \in Seq(Spans) /\ q # <<>> /\ Len(q) >= 1
  BY ExportFields
<1>2. CASE Len(q) = 1
  <2>1. AfterSpan(e) = NoExport
    BY <1>2 DEF AfterSpan
  <2>2. NoExport \in ExportRecords
    BY ReceiverNumbers, EmptySeq DEF NoExport, ExportRecords
  <2> QED
    BY <1>1, <2>1, <2>2 DEF NoExport, ExportRecords
<1>3. CASE Len(q) # 1
  <2>1. AfterSpan(e) = [export[e] EXCEPT !.stage = "ingesting", !.batch = Tail(q)]
    BY <1>3 DEF AfterSpan
  <2>2. PICK p \in Seq(Spans) : p = Tail(q) /\ Len(p) = Len(q) - 1 /\ Len(q) \in Nat
    BY <1>1, HeadTailProperties, LenProperties
  <2>3. Len(p) # 0
    BY <1>1, <1>3, <2>2
  <2>4. p # <<>>
    BY <2>3, EmptySeq
  <2> DEFINE x == AfterSpan(e)
  <2>5. x = [export[e] EXCEPT !.stage = "ingesting", !.batch = p]
    BY <2>1, <2>2
  <2>6. /\ x \in ExportRecords /\ x.stage = "ingesting" /\ x.receiver = export[e].receiver
        /\ x.root = export[e].root /\ x.batch = p /\ export[e].receiver \in Nat
    <3> HIDE DEF x, q
    <3> QED
      BY <1>1, <2>5 DEF ExportRecords
  <2> HIDE DEF x
  <2>7. x.receiver <= export[e].receiver
    BY <2>6
  <2> QED
    BY <2>4, <2>6, <2>7 DEF x
<1> QED
  BY <1>2, <1>3

\* Append, element by element.
AppendsTo(S, s, x, q) ==
    /\ q \in Seq(S) /\ Len(s) \in Nat /\ Len(q) = Len(s) + 1 /\ DOMAIN q = 1..Len(s) + 1
    /\ q[Len(s) + 1] = x /\ \A i \in 1..Len(s) : q[i] = s[i]

LEMMA AppendElements ==
    ASSUME NEW S, NEW s \in Seq(S), NEW x \in S
    PROVE  \E q : q = Append(s, x) /\ AppendsTo(S, s, x, q)
<1>1. PICK q : q = Append(s, x)
  OBVIOUS
<1>2. /\ q \in Seq(S) /\ Len(s) \in Nat /\ Len(q) = Len(s) + 1
      /\ q[Len(s) + 1] = x /\ \A i \in 1..Len(s) : q[i] = s[i]
  BY <1>1, AppendProperties, LenProperties
<1>3. AppendsTo(S, s, x, q)
  BY <1>2, LenProperties DEF AppendsTo
<1> QED
  BY <1>1, <1>3

\* The ring after an event was published, or a trace deleted.
Publishes(event, q) ==
    /\ q \in Seq(EventRecords) /\ Len(q) <= EventCapacity /\ DOMAIN q = 1..Len(q)
    /\ Len(q) \in Nat \ {0} /\ q[Len(q)] = event
    /\ IF Len(ring) = EventCapacity
       THEN /\ Len(q) = Len(ring) /\ 1 \in DOMAIN ring
            /\ \A i \in 1..Len(q) - 1 : i + 1 \in DOMAIN ring /\ q[i] = ring[i + 1]
       ELSE /\ Len(q) = Len(ring) + 1
            /\ \A i \in 1..Len(q) - 1 : i \in DOMAIN ring /\ q[i] = ring[i]

LEMMA RingPublished ==
    ASSUME RingTyped, NEW event \in EventRecords
    PROVE  \E q : /\ q = Append(IF Len(ring) = EventCapacity THEN Tail(ring) ELSE ring, event)
                  /\ Publishes(event, q)
<1> USE ReceiverNumbers
<1>0. ring \in Seq(EventRecords) /\ Len(ring) \in Nat /\ DOMAIN ring = 1..Len(ring)
      /\ Len(ring) <= EventCapacity
  BY LenProperties DEF RingTyped
<1>1. CASE Len(ring) = EventCapacity
  <2>0. ring # <<>>
    BY <1>0, <1>1, EmptySeq
  <2>1. PICK p \in Seq(EventRecords) : p = Tail(ring)
    BY <1>0, <2>0, HeadTailProperties
  <2>2. /\ Len(p) = Len(ring) - 1 /\ Len(p) \in Nat /\ \A i \in 1..Len(p) : p[i] = ring[i + 1]
    BY <1>0, <2>0, <2>1, HeadTailProperties, LenProperties
  <2>3. PICK q : q = Append(p, event) /\ AppendsTo(EventRecords, p, event, q)
    BY AppendElements
  <2>4. /\ q \in Seq(EventRecords) /\ Len(q) = Len(p) + 1 /\ q[Len(p) + 1] = event
        /\ DOMAIN q = 1..Len(p) + 1 /\ \A i \in 1..Len(p) : q[i] = p[i]
    BY <2>3 DEF AppendsTo
  <2>5. Len(q) = Len(ring) /\ Len(q) - 1 = Len(p) /\ 1 \in 1..Len(ring)
    BY <1>0, <1>1, <2>2, <2>4
  <2>6. \A i \in 1..Len(p) : i + 1 \in 1..Len(ring) /\ q[i] = ring[i + 1]
    BY <1>0, <2>2, <2>4
  <2>7. Publishes(event, q)
    BY <1>0, <1>1, <2>2, <2>4, <2>5, <2>6 DEF Publishes
  <2> QED
    BY <1>1, <2>1, <2>3, <2>7
<1>2. CASE Len(ring) # EventCapacity
  <2>1. PICK q : q = Append(ring, event) /\ AppendsTo(EventRecords, ring, event, q)
    BY <1>0, AppendElements
  <2>2. /\ q \in Seq(EventRecords) /\ Len(q) = Len(ring) + 1 /\ q[Len(ring) + 1] = event
        /\ DOMAIN q = 1..Len(ring) + 1 /\ \A i \in 1..Len(ring) : q[i] = ring[i]
    BY <2>1 DEF AppendsTo
  <2>3. Len(q) - 1 = Len(ring) /\ Len(q) <= EventCapacity /\ Len(q) # 0 /\ Len(q) \in Nat
    <3>1. /\ Len(ring) \in Nat /\ Len(ring) <= EventCapacity /\ Len(ring) # EventCapacity
          /\ EventCapacity \in Nat
      BY <1>0, <1>2
    <3>2. \A n, m \in Nat : (n <= EventCapacity /\ n # EventCapacity /\ m = n + 1) =>
            m - 1 = n /\ m <= EventCapacity /\ m # 0
      BY <3>1
    <3>3. Len(q) \in Nat /\ Len(q) = Len(ring) + 1
      BY <2>2, LenProperties, Zenon
    <3> QED
      BY <3>1, <3>2, <3>3, Zenon
  <2>4. /\ 1..Len(ring) + 1 = 1..Len(q)
        /\ \A i \in 1..Len(q) - 1 : i \in DOMAIN ring /\ q[i] = ring[i]
    BY <1>0, <2>2, <2>3, Zenon
  <2>5. Publishes(event, q)
    BY <1>2, <2>2, <2>3, <2>4, Zenon DEF Publishes
  <2> QED
    BY <1>2, <2>1, <2>5
<1> QED
  BY <1>1, <1>2

OfTraceNot(t) == {event \in ToSet(ring) : event.span[1] # t}

Deletes(t, q, h) ==
    /\ q \in Seq(EventRecords) /\ Len(q) <= EventCapacity /\ h \in [DOMAIN q -> DOMAIN ring]
    /\ \A i \in DOMAIN q : q[i] = ring[h[i]] /\ q[i].span[1] # t
    /\ \A i, j \in DOMAIN q : i # j => h[i] # h[j]
    /\ \A k \in DOMAIN ring : ring[k].span[1] # t => \E i \in DOMAIN q : h[i] = k

LEMMA RingDeleted ==
    ASSUME RingTyped, NEW t
    PROVE  \E q, h : q = Retain(ring, OfTraceNot(t)) /\ Deletes(t, q, h)
<1>0. ring \in Seq(EventRecords) /\ Len(ring) \in Nat /\ DOMAIN ring = 1..Len(ring)
      /\ Len(ring) <= EventCapacity
  BY LenProperties DEF RingTyped
<1>a. PICK q : q = Retain(ring, OfTraceNot(t))
  OBVIOUS
<1>1. PICK h : Embeds(EventRecords, ring, OfTraceNot(t), Len(ring), q, h)
  BY <1>0, <1>a, RetainEmbeds
<1>2. /\ q \in Seq(EventRecords) /\ Len(q) <= Len(ring) /\ h \in [1..Len(q) -> 1..Len(ring)]
      /\ \A i \in 1..Len(q) : q[i] = ring[h[i]] /\ q[i] \in OfTraceNot(t)
      /\ \A i, j \in 1..Len(q) : i # j => h[i] # h[j]
      /\ \A k \in 1..Len(ring) : ring[k] \in OfTraceNot(t) => \E i \in 1..Len(q) : h[i] = k
  BY <1>1 DEF Embeds
<1>3. \A i \in 1..Len(q) : q[i].span[1] # t
  BY <1>2 DEF OfTraceNot
<1>4. \A k \in 1..Len(ring) : ring[k].span[1] # t => ring[k] \in OfTraceNot(t)
  BY <1>0 DEF ToSet, OfTraceNot
<1>5. Len(q) <= EventCapacity /\ DOMAIN q = 1..Len(q)
  BY <1>0, <1>2, ReceiverNumbers, LenProperties
<1>6. Deletes(t, q, h)
  BY <1>0, <1>2, <1>3, <1>4, <1>5 DEF Deletes
<1> QED
  BY <1>a, <1>6

--------------------------------------------------------------------------------
(* What a step does to the keys, the ring and the connections.              *)

NothingShown == UNCHANGED <<otlp, export, ring, torn, unshown>>

\* Another receiver, or none, with an empty registry.
Replaced ==
    /\ otlp'.keys = {} /\ otlp'.active \in {0, receivers + 1}
    /\ UNCHANGED <<export, torn>> /\ ring' \in {ring, <<>>}

\* A connection goes on or ends, with nothing reserved.
Moves(e, x) ==
    /\ export[e].stage # "reserved" /\ x.stage # "reserved"
    /\ x.stage # "idle" /\ x.receiver = otlp.active => x.root = otlp.root
    /\ export' = [export EXCEPT ![e] = x] /\ UNCHANGED <<otlp, ring, torn, unshown>>

LEMMA NothingShownKeeps == ShownInv /\ NothingShown => ShownInv'
<1> SUFFICES ASSUME ShownInv, NothingShown PROVE ShownInv'
  OBVIOUS
<1>1. \A e \in Exports : SpanEvent(e)' = SpanEvent(e)
  BY DEF SpanEvent, NothingShown
<1>2. ExportsInv' /\ KeyInv'
  BY <1>1 DEF ShownInv, NothingShown, ExportsInv, KeyInv
<1>3. OnceInv'
  BY <1>1 DEF ShownInv, NothingShown, OnceInv, SpansAreShownOnce
<1>4. KeysInv'
  BY DEF ShownInv, NothingShown, KeysInv, KeyIsExplained
<1> QED
  BY <1>2, <1>3, <1>4 DEF ShownInv

\* Nothing that is shown or about to be is of a receiver yet to come.
LEMMA ReplacedKeeps == TracesTyped /\ ShownInv /\ Replaced => ShownInv'
<1> SUFFICES ASSUME TracesTyped, ShownInv, Replaced PROVE ShownInv'
  OBVIOUS
<1>0. receivers \in Nat
  BY DEF TracesTyped, RegistryTyped
<1>1. \A e \in Exports : /\ SpanEvent(e)' = SpanEvent(e)
                         /\ export[e].stage # "idle" => export[e].receiver # otlp'.active
  <2> TAKE e \in Exports
  <2>1. export[e].receiver \in Nat /\ export[e].receiver <= receivers
    BY ExportFields DEF TracesTyped, ExportTyped, ExportRecords
  <2>2. export[e].stage # "idle" => export[e].receiver # 0
    BY DEF TracesTyped, ExportTyped
  <2>3. otlp'.active \in {0, receivers + 1}
    BY DEF Replaced
  <2> QED
    BY <1>0, <2>1, <2>2, <2>3 DEF SpanEvent, Replaced
<1>2. \A i \in DOMAIN ring : ring[i].receiver # otlp'.active
  <2> TAKE i \in DOMAIN ring
  <2>1. ring[i] \in EventRecords
    <3>1. ring \in Seq(EventRecords)
      BY DEF TracesTyped, RingTyped
    <3>2. i \in 1..Len(ring)
      BY <3>1, LenProperties
    <3> QED
      BY <3>1, <3>2, ElementOfSeq
  <2>2. ring[i].receiver \in Nat \ {0} /\ ring[i].receiver <= receivers
    BY <2>1 DEF TracesTyped, RingTyped, EventRecords
  <2>3. otlp'.active \in {0, receivers + 1}
    BY DEF Replaced
  <2> QED
    BY <1>0, <2>2, <2>3
<1>3. export' = export /\ torn' = torn /\ otlp'.keys = {}
  BY DEF Replaced
<1>4. ring' = ring \/ DOMAIN ring' = {}
  <2>1. DOMAIN <<>> = {}
    OBVIOUS
  <2> QED
    BY <2>1 DEF Replaced
<1>5. \A i \in DOMAIN ring' : i \in DOMAIN ring /\ ring'[i] = ring[i]
  BY <1>4
<1>6. ExportsInv' /\ KeysInv'
  BY <1>1, <1>3 DEF ExportsInv, KeysInv
<1>7. KeyInv'
  BY <1>1, <1>2, <1>3, <1>5 DEF KeyInv
<1>8. OnceInv'
  BY <1>1, <1>3, <1>5 DEF ShownInv, OnceInv, SpansAreShownOnce
<1> QED
  BY <1>6, <1>7, <1>8 DEF ShownInv

LEMMA MovesKeeps ==
    ASSUME TracesTyped, ShownInv, NEW e \in Exports, NEW x, Moves(e, x) PROVE ShownInv'
<1>0. DOMAIN export = Exports
  BY DEF TracesTyped, ExportTyped
<1>1. export'[e] = x /\ \A f \in Exports : f # e => export'[f] = export[f]
  BY <1>0 DEF Moves
<1>2. \A f \in Exports : export'[f].stage = "reserved" =>
        f # e /\ export'[f] = export[f] /\ SpanEvent(f)' = SpanEvent(f)
  BY <1>1 DEF Moves, SpanEvent
<1>3. \A f \in Exports : export[f].stage = "reserved" => export'[f] = export[f]
  BY <1>1 DEF Moves
<1>4. ExportsInv'
  BY <1>1 DEF Moves, ShownInv, ExportsInv
<1>u. otlp' = otlp /\ ring' = ring /\ torn' = torn /\ unshown' = unshown
  BY DEF Moves
<1>5. KeyInv'
  BY <1>2, <1>u DEF ShownInv, KeyInv
<1>6. OnceInv'
  BY <1>2, <1>u DEF ShownInv, OnceInv, SpansAreShownOnce
<1>7. KeysInv'
  <2> SUFFICES ASSUME NEW k \in otlp.keys PROVE KeyIsExplained(k)'
    BY <1>u DEF KeysInv
  <2>1. KeyIsExplained(k)
    BY DEF ShownInv, KeysInv
  <2> QED
    BY <1>3, <1>u, <2>1 DEF KeyIsExplained
<1> QED
  BY <1>4, <1>5, <1>6, <1>7 DEF ShownInv

\* A span gets its key: no receiver shows, or is about to show, a span without one.
LEMMA ReserveKeeps ==
    ASSUME TracesTyped, ShownInv, NEW e \in Exports, export[e].stage = "ingesting",
           otlp.active = export[e].receiver, Head(export[e].batch) \notin otlp.keys,
           otlp' = [otlp EXCEPT !.keys = @ \cup {Head(export[e].batch)}],
           export' = [export EXCEPT ![e].stage = "reserved"],
           UNCHANGED <<ring, torn, unshown>>
    PROVE  ShownInv'
<1> DEFINE span == Head(export[e].batch)
<1>u. ring' = ring /\ torn' = torn /\ unshown' = unshown
  OBVIOUS
<1>0. /\ DOMAIN export = Exports /\ export[e] \in ExportRecords
      /\ otlp \in [lifecycle : {"stopped", "starting", "running", "failed"},
                   starting : Roots0, active : Nat, root : Roots0, keys : SUBSET Spans]
  BY DEF TracesTyped, ExportTyped, RegistryTyped
<1>1. otlp'.keys = otlp.keys \cup {span} /\ otlp'.active = otlp.active /\ otlp'.root = otlp.root
  BY <1>0
<1>2. /\ export'[e] = [export[e] EXCEPT !.stage = "reserved"]
      /\ \A f \in Exports : f # e => export'[f] = export[f]
  BY <1>0
<1>3. /\ export'[e].stage = "reserved" /\ export'[e].receiver = export[e].receiver
      /\ export'[e].root = export[e].root /\ export'[e].batch = export[e].batch
  BY <1>0, <1>2 DEF ExportRecords
<1> HIDE DEF span
<1>s. export'[e].batch = export[e].batch /\ Head(export'[e].batch) = span
  BY <1>3 DEF span
<1>4. \A f \in Exports : SpanEvent(f)' = SpanEvent(f)
  BY <1>2, <1>3 DEF SpanEvent
<1>5. ExportsInv'
  BY <1>1, <1>2, <1>3 DEF ShownInv, ExportsInv
<1>6. KeyInv'
  <2>1. \A i \in DOMAIN ring :
          ring[i].receiver = otlp.active => ring[i].span \in otlp'.keys \/ ring[i] \in torn
    BY <1>1 DEF ShownInv, KeyInv
  <2>2. ASSUME NEW f \in Exports, export'[f].stage = "reserved",
               export'[f].receiver = otlp.active
        PROVE  Head(export'[f].batch) \in otlp'.keys \/ SpanEvent(f)' \in torn
    <3>1. CASE f = e
      BY <1>1, <1>s, <3>1
    <3>2. CASE f # e
      BY <1>1, <1>2, <1>4, <2>2, <3>2 DEF ShownInv, KeyInv
    <3> QED
      BY <3>1, <3>2
  <2> QED
    BY <1>1, <1>u, <2>1, <2>2 DEF KeyInv
<1>7. OnceInv'
  <2>n. /\ SpanEvent(e).receiver = otlp.active /\ SpanEvent(e).span = span /\ span \notin otlp.keys
    BY DEF SpanEvent, span
  <2>1. SpansAreShownOnce'
    BY <1>u DEF ShownInv, OnceInv, SpansAreShownOnce
  <2>2. ASSUME NEW f \in Exports, export'[f].stage = "reserved", NEW i \in DOMAIN ring,
               ring[i] = SpanEvent(f)
        PROVE  ring[i] \in torn
    <3>1. CASE f = e
      BY <2>n, <2>2, <3>1 DEF ShownInv, KeyInv
    <3>2. CASE f # e
      BY <1>2, <2>2, <3>2 DEF ShownInv, OnceInv
    <3> QED
      BY <3>1, <3>2
  <2>3. ASSUME NEW f \in Exports, export[f].stage = "reserved", SpanEvent(f) = SpanEvent(e)
        PROVE  SpanEvent(f) \in torn
    <3>1. export[f].receiver = otlp.active /\ Head(export[f].batch) = span
      <4>1. SpanEvent(f).receiver = export[f].receiver /\ SpanEvent(f).span = Head(export[f].batch)
        BY DEF SpanEvent
      <4> QED
        BY <2>n, <2>3, <4>1
    <3> QED
      BY <2>n, <2>3, <3>1 DEF ShownInv, KeyInv
  <2>4. ASSUME NEW f \in Exports, NEW g \in Exports, export'[f].stage = "reserved",
               export'[g].stage = "reserved", f # g, SpanEvent(f) = SpanEvent(g)
        PROVE  SpanEvent(f) \in torn
    <3>1. CASE f = e
      BY <1>2, <2>3, <2>4, <3>1
    <3>2. CASE g = e
      BY <1>2, <2>3, <2>4, <3>2
    <3>3. CASE f # e /\ g # e
      BY <1>2, <2>4, <3>3 DEF ShownInv, OnceInv
    <3> QED
      BY <3>1, <3>2, <3>3
  <2> QED
    BY <1>4, <1>u, <2>1, <2>2, <2>4 DEF OnceInv
<1>8. KeysInv'
  <2> SUFFICES ASSUME NEW k \in otlp'.keys PROVE KeyIsExplained(k)'
    BY DEF KeysInv
  <2>1. CASE k = span
    <3>1. export[e].root = otlp.root
      BY DEF ShownInv, ExportsInv
    <3> QED
      BY <1>1, <1>3, <1>s, <2>1, <3>1 DEF KeyIsExplained
  <2>2. CASE k \in otlp.keys
    <3>1. KeyIsExplained(k)
      BY <2>2 DEF ShownInv, KeysInv
    <3>2. \A f \in Exports : export[f].stage = "reserved" => export'[f] = export[f]
      BY <1>2
    <3> QED
      BY <1>1, <1>u, <3>1, <3>2 DEF KeyIsExplained
  <2> QED
    BY <1>1, <2>1, <2>2
<1> QED
  BY <1>5, <1>6, <1>7, <1>8 DEF ShownInv

\* Where the elements of the ring are after one was published: all but the oldest of
\* a full ring have one of the first n places.
Places(q, n) ==
    /\ \A i \in DOMAIN q : i = Len(q) \/ i \in 1..n
    /\ \E h : /\ h \in [1..n -> DOMAIN ring]
              /\ \A i \in 1..n : q[i] = ring[h[i]]
              /\ \A i, j \in 1..n : i # j => h[i] # h[j]
              /\ \A k \in DOMAIN ring : \/ Len(ring) = EventCapacity /\ k = 1
                                        \/ \E i \in 1..n : h[i] = k

LEMMA PublishedPlaces ==
    ASSUME RingTyped, NEW event, NEW q, Publishes(event, q) PROVE Places(q, Len(q) - 1)
<1>0. Len(q) \in Nat /\ DOMAIN q = 1..Len(q) /\ DOMAIN ring = 1..Len(ring) /\ Len(ring) \in Nat
  BY LenProperties DEF Publishes, RingTyped
<1>1. \A i \in DOMAIN q : i = Len(q) \/ i \in 1..Len(q) - 1
  BY <1>0
<1>2. CASE Len(ring) = EventCapacity
  <2>1. /\ Len(q) = Len(ring)
        /\ \A i \in 1..Len(q) - 1 : i + 1 \in DOMAIN ring /\ q[i] = ring[i + 1]
    BY <1>2 DEF Publishes
  <2> DEFINE h == [i \in 1..Len(q) - 1 |-> i + 1]
  <2>2. /\ h \in [1..Len(q) - 1 -> DOMAIN ring] /\ \A i \in 1..Len(q) - 1 : h[i] = i + 1
    BY <2>1
  <2> HIDE DEF h
  <2>3. \A i \in 1..Len(q) - 1 : q[i] = ring[h[i]]
    BY <2>1, <2>2
  <2>4. \A i, j \in 1..Len(q) - 1 : i # j => h[i] # h[j]
    BY <2>2
  <2>5. ASSUME NEW k \in DOMAIN ring, k # 1 PROVE \E i \in 1..Len(q) - 1 : h[i] = k
    <3>1. k - 1 \in 1..Len(q) - 1 /\ k - 1 + 1 = k
      BY <1>0, <2>1, <2>5
    <3> QED
      BY <2>2, <3>1
  <2> QED
    BY <1>1, <1>2, <2>2, <2>3, <2>4, <2>5 DEF Places
<1>3. CASE Len(ring) # EventCapacity
  <2>1. /\ Len(q) = Len(ring) + 1
        /\ \A i \in 1..Len(q) - 1 : i \in DOMAIN ring /\ q[i] = ring[i]
    BY <1>3 DEF Publishes
  <2> DEFINE h == [i \in 1..Len(q) - 1 |-> i]
  <2>2. /\ h \in [1..Len(q) - 1 -> DOMAIN ring] /\ \A i \in 1..Len(q) - 1 : h[i] = i
    BY <2>1
  <2> HIDE DEF h
  <2>3. \A k \in DOMAIN ring : k \in 1..Len(q) - 1
    BY <1>0, <2>1
  <2> QED
    BY <1>1, <2>1, <2>2, <2>3 DEF Places
<1> QED
  BY <1>2, <1>3

\* What an eviction or a refusal adds to unshown.
Missing(r, span) == IF r = otlp.active THEN {span} ELSE {}

\* The event of a reserved span is shown.
Shows(e, q, x) ==
    /\ export[e].stage = "reserved" /\ Publishes(SpanEvent(e), q) /\ ring' = q
    /\ x.stage \in {"idle", "ingesting"} /\ export' = [export EXCEPT ![e] = x]
    /\ x.stage # "idle" => x.receiver = export[e].receiver /\ x.root = export[e].root
    /\ Len(ring) = EventCapacity => Missing(ring[1].receiver, ring[1].span) \subseteq unshown'
    /\ unshown \subseteq unshown' /\ otlp' = otlp /\ torn' = torn

LEMMA ShowsKeeps ==
    ASSUME TracesTyped, ShownInv, NEW e \in Exports, NEW q, NEW x, Shows(e, q, x)
    PROVE  ShownInv'
<1>x. /\ export[e].stage = "reserved" /\ Publishes(SpanEvent(e), q) /\ ring' = q
      /\ x.stage \in {"idle", "ingesting"} /\ export' = [export EXCEPT ![e] = x]
      /\ x.stage # "idle" => x.receiver = export[e].receiver /\ x.root = export[e].root
      /\ Len(ring) = EventCapacity => Missing(ring[1].receiver, ring[1].span) \subseteq unshown'
      /\ unshown \subseteq unshown'
  BY DEF Shows
<1> DEFINE n == Len(q) - 1
<1>u. otlp' = otlp /\ torn' = torn
  BY DEF Shows
<1>1. /\ \A i \in DOMAIN q : i = Len(q) \/ i \in 1..n
      /\ \E h : /\ h \in [1..n -> DOMAIN ring]
                /\ \A i \in 1..n : q[i] = ring[h[i]]
                /\ \A i, j \in 1..n : i # j => h[i] # h[j]
                /\ \A k \in DOMAIN ring : \/ Len(ring) = EventCapacity /\ k = 1
                                          \/ \E i \in 1..n : h[i] = k
  <2>1. RingTyped
    BY DEF TracesTyped
  <2>2. Places(q, n)
    BY <1>x, <2>1, PublishedPlaces
  <2> QED
    BY <2>2 DEF Places
<1>2. PICK h : /\ h \in [1..n -> DOMAIN ring]
               /\ \A i \in 1..n : q[i] = ring[h[i]]
               /\ \A i, j \in 1..n : i # j => h[i] # h[j]
               /\ \A k \in DOMAIN ring : \/ Len(ring) = EventCapacity /\ k = 1
                                         \/ \E i \in 1..n : h[i] = k
  BY <1>1
<1>3. q[Len(q)] = SpanEvent(e) /\ Len(q) \in DOMAIN q /\ \A i \in 1..n : i \in DOMAIN q
  <2>1. Len(q) \in Nat \ {0} /\ DOMAIN q = 1..Len(q) /\ q[Len(q)] = SpanEvent(e)
    BY <1>x DEF Publishes
  <2> QED
    BY <2>1
<1> HIDE DEF n
<1>4. \A i \in 1..n : h[i] \in DOMAIN ring
  BY <1>2
<1>0. DOMAIN export = Exports
  BY DEF TracesTyped, ExportTyped
<1>5. export'[e] = x /\ \A f \in Exports : f # e => export'[f] = export[f]
  BY <1>x, <1>0
<1>6. \A f \in Exports : export'[f].stage = "reserved" =>
        f # e /\ export'[f] = export[f] /\ SpanEvent(f)' = SpanEvent(f)
  BY <1>x, <1>5 DEF SpanEvent
<1>7. /\ SpanEvent(e).receiver = export[e].receiver /\ SpanEvent(e).root = export[e].root
      /\ SpanEvent(e).span = Head(export[e].batch)
  BY DEF SpanEvent
<1>8. ExportsInv'
  BY <1>x, <1>5, <1>u DEF ShownInv, ExportsInv
<1>9. KeyInv'
  <2>1. ASSUME NEW i \in DOMAIN q, q[i].receiver = otlp.active
        PROVE  q[i].span \in otlp.keys \/ q[i] \in torn
    <3>1. CASE i = Len(q)
      BY <1>x, <1>3, <1>7, <2>1, <3>1 DEF ShownInv, KeyInv
    <3>2. CASE i \in 1..n
      BY <1>2, <1>4, <2>1, <3>2 DEF ShownInv, KeyInv
    <3> QED
      BY <1>1, <3>1, <3>2
  <2>2. \A f \in Exports : (export'[f].stage = "reserved" /\ export'[f].receiver = otlp.active) =>
          Head(export'[f].batch) \in otlp.keys \/ SpanEvent(f)' \in torn
    BY <1>6 DEF ShownInv, KeyInv
  <2> QED
    BY <1>x, <1>u, <2>1, <2>2 DEF KeyInv
<1>10. OnceInv'
  <2>1. ASSUME NEW i \in DOMAIN q, NEW j \in DOMAIN q, i # j, q[i] = q[j]
        PROVE  q[i] \in torn
    <3>1. CASE i \in 1..n /\ j \in 1..n
      BY <1>2, <1>4, <2>1, <3>1 DEF ShownInv, OnceInv, SpansAreShownOnce
    <3>0. \A k \in 1..n : q[k] = SpanEvent(e) => q[k] \in torn
      BY <1>x, <1>2, <1>4 DEF ShownInv, OnceInv
    <3>2. CASE i = Len(q) /\ j \in 1..n
      BY <1>3, <2>1, <3>0, <3>2
    <3>3. CASE j = Len(q) /\ i \in 1..n
      BY <1>3, <2>1, <3>0, <3>3
    <3> QED
      BY <1>1, <2>1, <3>1, <3>2, <3>3
  <2>2. ASSUME NEW f \in Exports, export'[f].stage = "reserved", NEW i \in DOMAIN q,
               q[i] = SpanEvent(f)
        PROVE  q[i] \in torn
    <3>0. f # e /\ export[f].stage = "reserved"
      BY <1>6, <2>2
    <3>1. CASE i = Len(q)
      BY <1>x, <1>3, <2>2, <3>0, <3>1 DEF ShownInv, OnceInv
    <3>2. CASE i \in 1..n
      BY <1>2, <1>4, <2>2, <3>0, <3>2 DEF ShownInv, OnceInv
    <3> QED
      BY <1>1, <3>1, <3>2
  <2>3. \A f, g \in Exports :
          (/\ export'[f].stage = "reserved" /\ export'[g].stage = "reserved"
           /\ f # g /\ SpanEvent(f)' = SpanEvent(g)') => SpanEvent(f)' \in torn
    BY <1>6 DEF ShownInv, OnceInv
  <2>4. SpansAreShownOnce'
    BY <1>x, <1>u, <2>1 DEF SpansAreShownOnce
  <2>5. \A f \in Exports : export'[f].stage = "reserved" =>
          \A i \in DOMAIN q : q[i] = SpanEvent(f)' => q[i] \in torn
    BY <1>6, <2>2
  <2> QED
    BY <1>x, <1>u, <2>3, <2>4, <2>5 DEF OnceInv
<1>11. KeysInv'
  <2> SUFFICES ASSUME NEW k \in otlp.keys PROVE KeyIsExplained(k)'
    BY <1>u DEF KeysInv
  <2>0. KeyIsExplained(k)
    BY DEF ShownInv, KeysInv
  <2>1. ASSUME NEW j \in DOMAIN ring, ring[j].receiver = otlp.active, ring[j].root = otlp.root,
               ring[j].span = k
        PROVE  KeyIsExplained(k)'
    <3>1. CASE Len(ring) = EventCapacity /\ j = 1
      <4>1. k \in unshown'
        BY <1>x, <2>1, <3>1 DEF Missing
      <4> QED
        BY <4>1 DEF KeyIsExplained
    <3>2. ASSUME NEW i \in 1..n, h[i] = j PROVE KeyIsExplained(k)'
      <4>1. q[i] = ring[j] /\ i \in DOMAIN q
        BY <1>2, <1>3, <3>2
      <4> QED
        BY <1>x, <1>u, <2>1, <4>1 DEF KeyIsExplained
    <3> QED
      BY <1>2, <3>1, <3>2
  <2>2. CASE k \in unshown
    BY <1>x, <2>2 DEF KeyIsExplained
  <2>3. ASSUME NEW f \in Exports, export[f].stage = "reserved", export[f].receiver = otlp.active,
               export[f].root = otlp.root, Head(export[f].batch) = k
        PROVE  KeyIsExplained(k)'
    <3>1. CASE f = e
      <4>1. /\ q[Len(q)].receiver = otlp.active /\ q[Len(q)].root = otlp.root
            /\ q[Len(q)].span = k
        BY <1>3, <1>7, <2>3, <3>1
      <4> QED
        BY <1>x, <1>3, <1>u, <4>1 DEF KeyIsExplained
    <3>2. CASE f # e
      <4>1. export'[f] = export[f]
        BY <1>5, <3>2
      <4> QED
        BY <1>u, <2>3, <4>1 DEF KeyIsExplained
    <3> QED
      BY <3>1, <3>2
  <2> QED
    BY <2>0, <2>1, <2>2, <2>3 DEF KeyIsExplained
<1> QED
  BY <1>8, <1>9, <1>10, <1>11 DEF ShownInv

\* The event of a reserved span is refused, and its export ends.
LEMMA DropKeeps ==
    ASSUME TracesTyped, ShownInv, NEW e \in Exports, export[e].stage = "reserved",
           NEW x, x.stage = "idle", export' = [export EXCEPT ![e] = x],
           Missing(export[e].receiver, Head(export[e].batch)) \subseteq unshown',
           unshown \subseteq unshown', UNCHANGED <<otlp, ring, torn>>
    PROVE  ShownInv'
<1>u. otlp' = otlp /\ torn' = torn /\ ring' = ring
  OBVIOUS
<1>0. DOMAIN export = Exports
  BY DEF TracesTyped, ExportTyped
<1>5. export'[e] = x /\ \A f \in Exports : f # e => export'[f] = export[f]
  BY <1>0
<1>6. \A f \in Exports : export'[f].stage = "reserved" =>
        f # e /\ export'[f] = export[f] /\ SpanEvent(f)' = SpanEvent(f)
  BY <1>5 DEF SpanEvent
<1>1. ExportsInv'
  BY <1>5, <1>u DEF ShownInv, ExportsInv
<1>2. KeyInv'
  BY <1>6, <1>u DEF ShownInv, KeyInv
<1>3. OnceInv'
  BY <1>6, <1>u DEF ShownInv, OnceInv, SpansAreShownOnce
<1>4. KeysInv'
  <2> SUFFICES ASSUME NEW k \in otlp.keys PROVE KeyIsExplained(k)'
    BY <1>u DEF KeysInv
  <2>0. KeyIsExplained(k)
    BY DEF ShownInv, KeysInv
  <2>1. ASSUME NEW f \in Exports, export[f].stage = "reserved", export[f].receiver = otlp.active,
               export[f].root = otlp.root, Head(export[f].batch) = k
        PROVE  KeyIsExplained(k)'
    <3>1. CASE f = e
      <4>1. k \in unshown'
        BY <2>1, <3>1 DEF Missing
      <4> QED
        BY <4>1 DEF KeyIsExplained
    <3>2. CASE f # e
      <4>1. export'[f] = export[f]
        BY <1>5, <3>2
      <4> QED
        BY <1>u, <2>1, <4>1 DEF KeyIsExplained
    <3> QED
      BY <3>1, <3>2
  <2>2. CASE k \in unshown
    BY <2>2 DEF KeyIsExplained
  <2> QED
    BY <1>u, <2>0, <2>1, <2>2 DEF KeyIsExplained
<1> QED
  BY <1>1, <1>2, <1>3, <1>4 DEF ShownInv

\* A trace is deleted: what was about to be shown of it is torn.
LEMMA DeleteKeeps ==
    ASSUME TracesTyped, ShownInv, NEW t, NEW q, NEW h, Deletes(t, q, h), ring' = q,
           otlp' = [otlp EXCEPT !.keys = KeysWithout(t)],
           torn \subseteq torn',
           \A e \in Exports :
             (export[e].stage = "reserved" /\ Head(export[e].batch)[1] = t) => SpanEvent(e) \in torn',
           unshown' = {k \in unshown : k[1] # t}, export' = export
    PROVE  ShownInv'
<1>1. /\ h \in [DOMAIN q -> DOMAIN ring]
      /\ \A i \in DOMAIN q : q[i] = ring[h[i]] /\ q[i].span[1] # t
      /\ \A i, j \in DOMAIN q : i # j => h[i] # h[j]
      /\ \A k \in DOMAIN ring : ring[k].span[1] # t => \E i \in DOMAIN q : h[i] = k
  BY DEF Deletes
<1>h. \A i \in DOMAIN q : h[i] \in DOMAIN ring
  BY <1>1
<1>2. /\ otlp'.keys = {k \in otlp.keys : k[1] # t} /\ otlp'.active = otlp.active
      /\ otlp'.root = otlp.root
  <2>1. otlp \in [lifecycle : {"stopped", "starting", "running", "failed"},
                  starting : Roots0, active : Nat, root : Roots0, keys : SUBSET Spans]
    BY DEF TracesTyped, RegistryTyped
  <2> QED
    BY <2>1 DEF KeysWithout
<1>3. \A f \in Exports : SpanEvent(f)' = SpanEvent(f)
  BY DEF SpanEvent
<1>4. ExportsInv'
  BY <1>2 DEF ShownInv, ExportsInv
<1>5. KeyInv'
  <2>1. ASSUME NEW i \in DOMAIN q, q[i].receiver = otlp.active
        PROVE  q[i].span \in otlp'.keys \/ q[i] \in torn'
    <3>1. ring[h[i]].span \in otlp.keys \/ ring[h[i]] \in torn
      BY <1>1, <1>h, <2>1 DEF ShownInv, KeyInv
    <3> QED
      BY <1>1, <1>2, <3>1
  <2>2. ASSUME NEW f \in Exports, export[f].stage = "reserved",
               export[f].receiver = otlp.active
        PROVE  Head(export[f].batch) \in otlp'.keys \/ SpanEvent(f) \in torn'
    <3>1. Head(export[f].batch) \in otlp.keys \/ SpanEvent(f) \in torn
      BY <2>2 DEF ShownInv, KeyInv
    <3> QED
      BY <1>2, <2>2, <3>1
  <2> QED
    BY <1>2, <1>3, <2>1, <2>2 DEF KeyInv
<1>6. OnceInv'
  <2>1. ASSUME NEW i \in DOMAIN q, NEW j \in DOMAIN q, i # j, q[i] = q[j]
        PROVE  q[i] \in torn'
    <3>1. h[i] # h[j] /\ ring[h[i]] = ring[h[j]]
      BY <1>1, <2>1
    <3> QED
      BY <1>1, <1>h, <3>1 DEF ShownInv, OnceInv, SpansAreShownOnce
  <2>2. ASSUME NEW f \in Exports, export[f].stage = "reserved", NEW i \in DOMAIN q,
               q[i] = SpanEvent(f)
        PROVE  q[i] \in torn'
    BY <1>1, <1>h, <2>2 DEF ShownInv, OnceInv
  <2>3. SpansAreShownOnce'
    BY <2>1 DEF SpansAreShownOnce
  <2>4. \A f, g \in Exports :
          (/\ export[f].stage = "reserved" /\ export[g].stage = "reserved"
           /\ f # g /\ SpanEvent(f) = SpanEvent(g)) => SpanEvent(f) \in torn'
    BY DEF ShownInv, OnceInv
  <2> QED
    BY <1>3, <2>2, <2>3, <2>4 DEF OnceInv
<1>7. KeysInv'
  <2> SUFFICES ASSUME NEW k \in otlp.keys, k[1] # t PROVE KeyIsExplained(k)'
    BY <1>2 DEF KeysInv
  <2>0. KeyIsExplained(k)
    BY DEF ShownInv, KeysInv
  <2>1. ASSUME NEW j \in DOMAIN ring, ring[j].receiver = otlp.active, ring[j].root = otlp.root,
               ring[j].span = k
        PROVE  KeyIsExplained(k)'
    <3>1. PICK i \in DOMAIN q : h[i] = j
      BY <1>1, <2>1
    <3>2. q[i] = ring[j]
      BY <1>1, <3>1
    <3> QED
      BY <1>2, <2>1, <3>2 DEF KeyIsExplained
  <2>2. CASE k \in unshown
    BY <2>2 DEF KeyIsExplained
  <2>3. ASSUME NEW f \in Exports, export[f].stage = "reserved", export[f].receiver = otlp.active,
               export[f].root = otlp.root, Head(export[f].batch) = k
        PROVE  KeyIsExplained(k)'
    BY <1>2, <2>3 DEF KeyIsExplained
  <2> QED
    BY <2>0, <2>1, <2>2, <2>3 DEF KeyIsExplained
<1> QED
  BY <1>4, <1>5, <1>6, <1>7 DEF ShownInv

--------------------------------------------------------------------------------
(* Every step keeps the invariant.                                          *)

\* What a step leaves alone keeps its types.
LEMMA TypedFrame ==
    ASSUME TracesTyped
    PROVE  /\ UNCHANGED <<otlp, receivers>> => RegistryTyped'
           /\ UNCHANGED starter => StarterTyped'
           /\ UNCHANGED export /\ receivers' \in {receivers, receivers + 1} => ExportTyped'
           /\ UNCHANGED ring /\ receivers' \in {receivers, receivers + 1} => RingTyped'
           /\ ring' = <<>> => RingTyped'
           /\ UNCHANGED otlpWorkspace /\ UNCHANGED otlpActs => SwitchTyped'
           /\ UNCHANGED otlpWorkspace /\ OtlpBegins => SwitchTyped'
<1> USE ReceiverNumbers DEF TracesTyped
<1>0. receivers \in Nat
  BY DEF RegistryTyped
<1>1. UNCHANGED <<otlp, receivers>> => RegistryTyped'
  BY DEF RegistryTyped
<1>2. UNCHANGED starter => StarterTyped'
  BY DEF StarterTyped
<1>3. UNCHANGED export /\ receivers' \in {receivers, receivers + 1} => ExportTyped'
  <2>1. \A e \in Exports : export[e].receiver \in Nat
    BY DEF ExportTyped, ExportRecords
  <2> QED
    BY <1>0, <2>1 DEF ExportTyped
<1>4. UNCHANGED ring /\ receivers' \in {receivers, receivers + 1} => RingTyped'
  <2>1. \A i \in DOMAIN ring : ring[i] \in EventRecords
    BY LenProperties, ElementOfSeq DEF RingTyped
  <2>2. \A i \in DOMAIN ring : ring[i].receiver \in Nat
    BY <2>1 DEF EventRecords
  <2> QED
    BY <1>0, <2>2 DEF RingTyped
<1>5. ring' = <<>> => RingTyped'
  <2>1. <<>> \in Seq(EventRecords) /\ Len(<<>>) = 0 /\ DOMAIN <<>> = {}
    BY EmptySeq
  <2> QED
    BY <2>1 DEF RingTyped
<1>6. UNCHANGED otlpWorkspace /\ UNCHANGED otlpActs => SwitchTyped'
  BY DEF SwitchTyped, otlpWorkspace
<1>7. UNCHANGED otlpWorkspace /\ OtlpBegins => SwitchTyped'
  BY DEF SwitchTyped, otlpWorkspace, OtlpBegins
<1> QED
  BY <1>1, <1>2, <1>3, <1>4, <1>5, <1>6, <1>7

\* A start goes from one stage to another.
LEMMA StarterMoves ==
    ASSUME StarterTyped, NEW s \in Starts,
           NEW x \in [stage : {"idle", "read", "asked", "bound", "failed"}, root : Roots0],
           x.stage # "idle" => x.root \in TraceRoots, starter' = [starter EXCEPT ![s] = x]
    PROVE  /\ StarterTyped' /\ starter'[s] = x
           /\ \A r \in Starts : r # s => starter'[r] = starter[r]
BY DEF StarterTyped

LEMMA StarterFields ==
    ASSUME StarterTyped, NEW s \in Starts
    PROVE  /\ starter[s] \in [stage : {"idle", "read", "asked", "bound", "failed"}, root : Roots0]
           /\ starter[s].root \in Roots0
           /\ starter[s].stage # "idle" => starter[s].root \in TraceRoots
           /\ \A g \in {"idle", "read", "asked", "bound", "failed"} :
                [starter EXCEPT ![s].stage = g]
                    = [starter EXCEPT ![s] = [stage |-> g, root |-> starter[s].root]]
<1>1. /\ starter[s] \in [stage : {"idle", "read", "asked", "bound", "failed"}, root : Roots0]
      /\ starter[s].stage # "idle" => starter[s].root \in TraceRoots
  BY DEF StarterTyped
<1>2. \A g : [starter[s] EXCEPT !.stage = g] = [stage |-> g, root |-> starter[s].root]
  BY <1>1
<1> QED
  BY <1>1, <1>2

\* So does a connection.
LEMMA ExportMoves ==
    ASSUME ExportTyped, NEW e \in Exports, NEW x \in ExportRecords, x.receiver <= receivers,
           x.stage # "idle" => x.receiver # 0 /\ x.batch # <<>>,
           export' = [export EXCEPT ![e] = x], receivers' = receivers
    PROVE  ExportTyped'
BY DEF ExportTyped

\* The end of a start stays in sight.
StartOf(s, w) == starter[s].stage \in {"asked", "bound", "failed"} /\ starter[s].root = w

LEMMA StartsFrame ==
    ASSUME StartsEnd,
           otlp'.lifecycle = "starting" =>
               /\ otlp.lifecycle = "starting" /\ otlp'.starting = otlp.starting
               /\ \A s \in Starts : StartOf(s, otlp.starting) => StartOf(s, otlp.starting)'
    PROVE  StartsEnd'
BY DEF StartsEnd, StartOf

LEMMA StartKeeps ==
    ASSUME TracesIInv, NEW s \in Starts, StartReceiver(s) \/ ConfirmStart(s) PROVE TracesIInv'
<1> USE DEF TracesIInv, TracesTyped
<1>0. NothingShown /\ UNCHANGED <<receivers, otlpWorkspace>>
  BY DEF StartReceiver, ConfirmStart, NothingShown
<1>1. PICK x \in [stage : {"idle", "read", "asked", "bound", "failed"}, root : Roots0] :
        /\ starter' = [starter EXCEPT ![s] = x]
        /\ x.stage # "idle" => x.root \in TraceRoots
        /\ starter[s].stage \in {"asked", "bound", "failed"} =>
             x.stage \in {"asked", "bound", "failed"} /\ x.root = starter[s].root
  <2>1. CASE StartReceiver(s)
    <3> DEFINE x == [stage |-> "read", root |-> otlpApp]
    <3>1. /\ x \in [stage : {"idle", "read", "asked", "bound", "failed"}, root : Roots0]
          /\ x.root \in TraceRoots
      BY ReceiverNumbers DEF SwitchTyped
    <3>2. starter' = [starter EXCEPT ![s] = x] /\ starter[s].stage = "idle"
      BY <2>1 DEF StartReceiver
    <3> QED
      BY <3>1, <3>2
  <2>2. CASE ConfirmStart(s)
    <3>1. PICK g \in {"bound", "failed"} : starter' = [starter EXCEPT ![s].stage = g]
      BY <2>2 DEF ConfirmStart
    <3> DEFINE x == [stage |-> g, root |-> starter[s].root]
    <3>2. /\ x \in [stage : {"idle", "read", "asked", "bound", "failed"}, root : Roots0]
          /\ starter[s].stage = "asked" /\ starter[s].root \in TraceRoots
      BY <2>2, StarterFields DEF ConfirmStart
    <3>3. starter' = [starter EXCEPT ![s] = x]
      BY <3>1, StarterFields
    <3> QED
      BY <3>2, <3>3
  <2> QED
    BY <2>1, <2>2
<1>2. /\ StarterTyped' /\ starter'[s] = x
      /\ \A r \in Starts : r # s => starter'[r] = starter[r]
  BY <1>1, StarterMoves
<1>3. TracesTyped'
  <2>1. SwitchTyped'
    BY <1>0, TypedFrame DEF StartReceiver, ConfirmStart
  <2>2. RegistryTyped' /\ ExportTyped' /\ RingTyped'
    BY <1>0, TypedFrame DEF NothingShown
  <2> QED
    BY <1>2, <2>1, <2>2
<1>4. StartsEnd'
  <2>1. \A r \in Starts : StartOf(r, otlp.starting) => StartOf(r, otlp.starting)'
    BY <1>0, <1>1, <1>2 DEF StartOf, NothingShown
  <2> QED
    BY <1>0, <2>1, StartsFrame DEF NothingShown
<1>5. TracesAreOfWorkspace'
  BY <1>0 DEF TracesAreOfWorkspace, NothingShown, otlpWorkspace
<1>6. ShownInv'
  BY <1>0, NothingShownKeeps
<1> QED
  BY <1>3, <1>4, <1>5, <1>6

LEMMA ReserveStartKeeps ==
    ASSUME TracesIInv, NEW s \in Starts, ReserveStart(s) PROVE TracesIInv'
<1> USE DEF TracesIInv, TracesTyped
<1>0. /\ starter[s].stage = "read" /\ starter[s].root \in TraceRoots
      /\ UNCHANGED <<receivers, export, ring, otlpWorkspace, otlpActs, torn, unshown>>
  BY StarterFields DEF ReserveStart
<1>1. ExportTyped' /\ RingTyped' /\ SwitchTyped'
  BY <1>0, TypedFrame
<1>2. CASE otlp.lifecycle = "starting" \/ otlp.active # 0
  <2>1. otlp' = otlp /\ starter' = [starter EXCEPT ![s] = NoStarter]
    BY <1>2 DEF ReserveStart
  <2>2. NoStarter \in [stage : {"idle", "read", "asked", "bound", "failed"}, root : Roots0]
        /\ NoStarter.stage = "idle"
    BY ReceiverNumbers DEF NoStarter
  <2>3. StarterTyped' /\ \A r \in Starts : r # s => starter'[r] = starter[r]
    BY <2>1, <2>2, StarterMoves
  <2>4. NothingShown
    BY <1>0, <2>1 DEF NothingShown
  <2>5. StartsEnd'
    <3>1. \A r \in Starts : StartOf(r, otlp.starting) => StartOf(r, otlp.starting)'
      BY <1>0, <2>1, <2>3 DEF StartOf
    <3> QED
      BY <2>1, <3>1, StartsFrame
  <2>6. RegistryTyped'
    BY <1>0, <2>1, TypedFrame
  <2>7. TracesAreOfWorkspace'
    BY <1>0, <2>1 DEF TracesAreOfWorkspace, otlpWorkspace
  <2> QED
    BY <1>1, <2>3, <2>4, <2>5, <2>6, <2>7, NothingShownKeeps
<1>3. CASE ~(otlp.lifecycle = "starting" \/ otlp.active # 0)
  <2>1. /\ otlp' = [Stopped EXCEPT !.lifecycle = "starting", !.starting = starter[s].root]
        /\ starter' = [starter EXCEPT ![s].stage = "asked"]
    BY <1>3 DEF ReserveStart
  <2> DEFINE x == [stage |-> "asked", root |-> starter[s].root]
  <2>2. /\ x \in [stage : {"idle", "read", "asked", "bound", "failed"}, root : Roots0]
        /\ starter' = [starter EXCEPT ![s] = x] /\ x.root \in TraceRoots
    BY <1>0, <2>1, StarterFields
  <2>3. StarterTyped' /\ starter'[s] = x
    BY <2>2, StarterMoves
  <2>4. /\ otlp'.lifecycle = "starting" /\ otlp'.starting = starter[s].root /\ otlp'.active = 0
        /\ otlp'.keys = {}
    BY <2>1 DEF Stopped
  <2>5. StartsEnd'
    BY <2>3, <2>4 DEF StartsEnd
  <2>6. RegistryTyped'
    BY <1>0, <2>1, ReplacedTyped
  <2>7. TracesAreOfWorkspace'
    BY <1>0, <2>4 DEF TracesAreOfWorkspace, otlpWorkspace
  <2>8. Replaced
    BY <1>0, <2>4 DEF Replaced
  <2> QED
    BY <1>1, <2>3, <2>5, <2>6, <2>7, <2>8, ReplacedKeeps
<1> QED
  BY <1>2, <1>3

LEMMA ActivateKeeps ==
    ASSUME TracesIInv, NEW s \in Starts, ActivateReceiver(s) PROVE TracesIInv'
<1> USE DEF TracesIInv, TracesTyped
<1>0. /\ starter[s].stage = "bound" /\ starter[s].root \in TraceRoots
      /\ UNCHANGED <<export, ring, otlpWorkspace, otlpActs, torn>>
  BY StarterFields DEF ActivateReceiver
<1>1. CASE ~(IsOpenRoot(starter[s].root) /\ otlp.starting = starter[s].root)
  <2>1. /\ starter' = [starter EXCEPT ![s].stage = "failed"]
        /\ UNCHANGED <<otlp, receivers, unshown>>
    BY <1>1 DEF ActivateReceiver
  <2> DEFINE x == [stage |-> "failed", root |-> starter[s].root]
  <2>2. /\ x \in [stage : {"idle", "read", "asked", "bound", "failed"}, root : Roots0]
        /\ starter' = [starter EXCEPT ![s] = x] /\ x.root \in TraceRoots
    BY <1>0, <2>1, StarterFields
  <2>3. StarterTyped' /\ starter'[s] = x /\ \A r \in Starts : r # s => starter'[r] = starter[r]
    BY <2>2, StarterMoves
  <2>4. NothingShown
    BY <1>0, <2>1 DEF NothingShown
  <2>5. StartsEnd'
    <3>1. \A r \in Starts : StartOf(r, otlp.starting) => StartOf(r, otlp.starting)'
      BY <1>0, <2>1, <2>3 DEF StartOf
    <3> QED
      BY <2>1, <3>1, StartsFrame
  <2>6. RegistryTyped' /\ ExportTyped' /\ RingTyped' /\ SwitchTyped'
    BY <1>0, <2>1, TypedFrame
  <2>7. TracesAreOfWorkspace'
    BY <1>0, <2>1 DEF TracesAreOfWorkspace, otlpWorkspace
  <2> QED
    BY <2>3, <2>4, <2>5, <2>6, <2>7, NothingShownKeeps
<1>2. CASE IsOpenRoot(starter[s].root) /\ otlp.starting = starter[s].root
  <2>1. /\ otlp' = [Stopped EXCEPT !.lifecycle = "running", !.active = receivers + 1,
                                   !.root = starter[s].root]
        /\ receivers' = receivers + 1 /\ starter' = [starter EXCEPT ![s] = NoStarter]
    BY <1>2 DEF ActivateReceiver
  <2>2. NoStarter \in [stage : {"idle", "read", "asked", "bound", "failed"}, root : Roots0]
        /\ NoStarter.stage = "idle"
    BY ReceiverNumbers DEF NoStarter
  <2>3. StarterTyped'
    BY <2>1, <2>2, StarterMoves
  <2>4. /\ otlp'.lifecycle = "running" /\ otlp'.active = receivers + 1 /\ otlp'.keys = {}
        /\ otlp'.root = starter[s].root
    BY <2>1 DEF Stopped
  <2>5. StartsEnd'
    BY <2>4 DEF StartsEnd
  <2>6. RegistryTyped' /\ ExportTyped' /\ RingTyped' /\ SwitchTyped'
    <3>1. RegistryTyped'
      BY <1>0, <2>1, ReplacedTyped
    <3> QED
      BY <1>0, <2>1, <3>1, TypedFrame
  <2>7. TracesAreOfWorkspace'
    BY <1>0, <1>2, <2>4 DEF TracesAreOfWorkspace, otlpWorkspace, IsOpenRoot
  <2>8. Replaced
    BY <1>0, <2>4 DEF Replaced
  <2> QED
    BY <2>3, <2>5, <2>6, <2>7, <2>8, ReplacedKeeps
<1> QED
  BY <1>1, <1>2

LEMMA CancelKeeps ==
    ASSUME TracesIInv, NEW s \in Starts, CancelStart(s) PROVE TracesIInv'
<1> USE DEF TracesIInv, TracesTyped
<1>0. /\ starter' = [starter EXCEPT ![s] = NoStarter]
      /\ otlp' = IF otlp.lifecycle = "starting" THEN Stopped ELSE otlp
      /\ UNCHANGED <<receivers, export, ring, otlpWorkspace, otlpActs, torn, unshown>>
  BY DEF CancelStart
<1>1. NoStarter \in [stage : {"idle", "read", "asked", "bound", "failed"}, root : Roots0]
      /\ NoStarter.stage = "idle"
  BY ReceiverNumbers DEF NoStarter
<1>2. StarterTyped'
  BY <1>0, <1>1, StarterMoves
<1>3. ExportTyped' /\ RingTyped' /\ SwitchTyped'
  BY <1>0, TypedFrame
<1>4. CASE otlp.lifecycle = "starting"
  <2>1. otlp' = Stopped /\ otlp'.keys = {} /\ otlp'.active = 0 /\ otlp'.lifecycle = "stopped"
    BY <1>0, <1>4 DEF Stopped
  <2>2. RegistryTyped'
    BY <1>0, <2>1, ReplacedTyped
  <2>3. Replaced
    BY <1>0, <2>1 DEF Replaced
  <2>4. StartsEnd' /\ TracesAreOfWorkspace'
    BY <1>0, <2>1 DEF StartsEnd, TracesAreOfWorkspace, otlpWorkspace
  <2> QED
    BY <1>2, <1>3, <2>2, <2>3, <2>4, ReplacedKeeps
<1>5. CASE otlp.lifecycle # "starting"
  <2>1. otlp' = otlp
    BY <1>0, <1>5
  <2>2. RegistryTyped'
    BY <1>0, <2>1, TypedFrame
  <2>3. NothingShown
    BY <1>0, <2>1 DEF NothingShown
  <2>4. StartsEnd' /\ TracesAreOfWorkspace'
    BY <1>0, <1>5, <2>1 DEF StartsEnd, TracesAreOfWorkspace, otlpWorkspace
  <2> QED
    BY <1>2, <1>3, <2>2, <2>3, <2>4, NothingShownKeeps
<1> QED
  BY <1>4, <1>5

\* The receiver is stopped, fails, or goes with its workspace.
LEMMA EndKeeps ==
    ASSUME TracesIInv, StopReceiver \/ ListenerFails \/ CompleteTraceSwitch PROVE TracesIInv'
<1> USE DEF TracesIInv, TracesTyped
<1>0. /\ otlp' = Stopped \/ otlp' = [Stopped EXCEPT !.lifecycle = "failed"]
      /\ UNCHANGED <<receivers, starter, export, torn>> /\ ring' \in {ring, <<>>}
  BY DEF StopReceiver, ListenerFails, CompleteTraceSwitch
<1>1. otlp'.keys = {} /\ otlp'.active = 0 /\ otlp'.lifecycle # "starting"
  BY <1>0 DEF Stopped
<1>2. RegistryTyped'
  BY <1>0, ReplacedTyped
<1>3. StarterTyped' /\ ExportTyped' /\ RingTyped'
  BY <1>0, TypedFrame
<1>4. SwitchTyped'
  <2>1. CASE StopReceiver \/ ListenerFails
    BY <2>1, TypedFrame DEF StopReceiver, ListenerFails
  <2>2. CASE CompleteTraceSwitch
    BY <2>2 DEF CompleteTraceSwitch, SwitchTyped
  <2> QED
    BY <2>1, <2>2
<1>5. TracesAreOfWorkspace'
  <2>1. CASE StopReceiver \/ ListenerFails
    BY <1>1, <2>1 DEF StopReceiver, ListenerFails, TracesAreOfWorkspace, otlpWorkspace
  <2>2. CASE CompleteTraceSwitch
    <3>1. DOMAIN <<>> = {}
      OBVIOUS
    <3>2. ring' = <<>>
      BY <2>2 DEF CompleteTraceSwitch
    <3> QED
      BY <1>1, <3>1, <3>2 DEF TracesAreOfWorkspace
  <2> QED
    BY <2>1, <2>2
<1>6. StartsEnd'
  BY <1>1 DEF StartsEnd
<1>7. Replaced
  BY <1>0, <1>1 DEF Replaced
<1> QED
  BY <1>2, <1>3, <1>4, <1>5, <1>6, <1>7, ReplacedKeeps

\* A switch begins, fails, or installs the workspace.
LEMMA SwitchKeeps ==
    ASSUME TracesIInv, BeginTraceSwitch \/ \E w \in TraceRoots : TraceSwitchInstalls(w)
    PROVE  TracesIInv'
<1> USE DEF TracesIInv, TracesTyped
<1>0. NothingShown /\ UNCHANGED <<otlp, receivers, starter, export, ring, otlpRoot>>
  BY DEF BeginTraceSwitch, TraceSwitchInstalls, NothingShown
<1>1. RegistryTyped' /\ StarterTyped' /\ ExportTyped' /\ RingTyped'
  BY <1>0, TypedFrame
<1>2. SwitchTyped'
  <2>1. CASE BeginTraceSwitch
    BY <2>1, ReceiverNumbers DEF BeginTraceSwitch, SwitchTyped, OtlpBegins
  <2>2. ASSUME NEW w \in TraceRoots, TraceSwitchInstalls(w) PROVE SwitchTyped'
    BY <2>2 DEF TraceSwitchInstalls, SwitchTyped
  <2> QED
    BY <2>1, <2>2
<1>3. TracesAreOfWorkspace' /\ StartsEnd'
  BY <1>0 DEF TracesAreOfWorkspace, StartsEnd
<1> QED
  BY <1>0, <1>1, <1>2, <1>3, NothingShownKeeps

\* A connection goes on or ends.
LEMMA MovesKeepsAll ==
    ASSUME TracesIInv, NEW e \in Exports, NEW x, Moves(e, x), x \in ExportRecords,
           x.receiver <= receivers, x.stage # "idle" => x.receiver # 0 /\ x.batch # <<>>,
           UNCHANGED <<receivers, starter, otlpWorkspace>>, SwitchTyped'
    PROVE  TracesIInv'
<1> USE DEF TracesIInv, TracesTyped
<1>0. UNCHANGED <<otlp, ring, torn, unshown>> /\ export' = [export EXCEPT ![e] = x]
  BY DEF Moves
<1>1. ExportTyped'
  BY <1>0, ExportMoves
<1>2. RegistryTyped' /\ StarterTyped' /\ RingTyped'
  BY <1>0, TypedFrame
<1>3. TracesAreOfWorkspace' /\ StartsEnd'
  BY <1>0 DEF TracesAreOfWorkspace, StartsEnd, otlpWorkspace
<1>4. ShownInv'
  BY MovesKeeps
<1> QED
  BY <1>1, <1>2, <1>3, <1>4

LEMMA ReceiveKeeps ==
    ASSUME TracesIInv, NEW e \in Exports, NEW batch \in Batches, ReceiveExport(e, batch)
    PROVE  TracesIInv'
<1> DEFINE x == [stage |-> "authorized", receiver |-> otlp.active, root |-> otlp.root,
                 batch |-> batch]
<1>1. /\ otlp.active \in Nat /\ otlp.active <= receivers /\ otlp.root \in Roots0
      /\ otlp.active # 0
  BY DEF TracesIInv, TracesTyped, RegistryTyped, ReceiveExport
<1>2. /\ x \in ExportRecords /\ x.receiver <= receivers
      /\ x.stage # "idle" => x.receiver # 0 /\ x.batch # <<>>
  BY <1>1, ReceiverNumbers DEF ExportRecords
<1>3. Moves(e, x) /\ UNCHANGED <<receivers, starter, otlpWorkspace>> /\ OtlpBegins
  BY DEF ReceiveExport, Moves
<1>4. SwitchTyped'
  BY <1>3, TypedFrame DEF TracesIInv
<1> HIDE DEF x
<1> QED
  BY <1>2, <1>3, <1>4, MovesKeepsAll

LEMMA BeginIngestKeeps ==
    ASSUME TracesIInv, NEW e \in Exports, BeginIngest(e) PROVE TracesIInv'
<1> DEFINE x == IF export[e].root = otlpApp THEN [export[e] EXCEPT !.stage = "ingesting"]
                ELSE NoExport
<1>1. /\ export[e] \in ExportRecords /\ export[e].receiver <= receivers /\ receivers \in Nat
      /\ export[e].stage = "authorized" /\ export[e].receiver # 0 /\ export[e].batch # <<>>
      /\ export[e].receiver = otlp.active => export[e].root = otlp.root
  BY DEF TracesIInv, TracesTyped, RegistryTyped, ExportTyped, BeginIngest, ShownInv, ExportsInv
<1>2. /\ x \in ExportRecords /\ x.receiver <= receivers /\ x.stage # "reserved"
      /\ x.stage # "idle" => x.receiver # 0 /\ x.batch # <<>>
      /\ (x.stage # "idle" /\ x.receiver = otlp.active) => x.root = otlp.root
  <2>1. CASE export[e].root = otlpApp
    <3>1. x = [export[e] EXCEPT !.stage = "ingesting"]
      BY <2>1
    <3>2. /\ x \in ExportRecords /\ x.receiver = export[e].receiver /\ x.stage = "ingesting"
          /\ x.root = export[e].root /\ x.batch = export[e].batch
      <4> HIDE DEF x
      <4> QED
        BY <1>1, <3>1 DEF ExportRecords
    <3> HIDE DEF x
    <3> QED
      BY <1>1, <3>2
  <2>2. CASE export[e].root # otlpApp
    BY <1>1, <2>2, ReceiverNumbers, EmptySeq DEF NoExport, ExportRecords
  <2> QED
    BY <2>1, <2>2
<1>3. /\ export' = [export EXCEPT ![e] = x]
      /\ UNCHANGED <<otlp, receivers, starter, ring, otlpWorkspace, otlpActs, torn, unshown>>
  BY DEF BeginIngest
<1> HIDE DEF x
<1>4. Moves(e, x)
  BY <1>1, <1>2, <1>3 DEF Moves
<1>5. SwitchTyped'
  BY <1>3, TypedFrame DEF TracesIInv
<1> QED
  BY <1>2, <1>3, <1>4, <1>5, MovesKeepsAll

LEMMA ReserveSpanKeeps ==
    ASSUME TracesIInv, NEW e \in Exports, ReserveSpan(e) PROVE TracesIInv'
<1> DEFINE span == Head(export[e].batch)
           accepted == /\ otlp.active = export[e].receiver
                       /\ Cardinality(otlp.keys) < MaxSpans /\ span \notin otlp.keys
<1>0. /\ ExportTyped /\ ExportsInv /\ TracesTyped
      /\ UNCHANGED <<receivers, starter, ring, otlpWorkspace, otlpActs, torn, unshown>>
  BY DEF TracesIInv, TracesTyped, ShownInv, ReserveSpan
<1>1. /\ export[e] \in ExportRecords /\ export[e].receiver <= receivers /\ receivers \in Nat
      /\ export[e].stage = "ingesting" /\ export[e].receiver # 0 /\ export[e].batch # <<>>
      /\ export[e].receiver = otlp.active => export[e].root = otlp.root
      /\ export[e].receiver \in Nat /\ span \in Spans
  <2>1. /\ export[e] \in ExportRecords /\ export[e].receiver <= receivers /\ receivers \in Nat
        /\ export[e].stage = "ingesting"
        /\ export[e].receiver = otlp.active => export[e].root = otlp.root
    BY <1>0 DEF TracesTyped, RegistryTyped, ExportTyped, ReserveSpan, ExportsInv
  <2>2. export[e].receiver # 0 /\ export[e].batch # <<>> /\ span \in Spans
    BY <1>0, <2>1, ExportFields
  <2> QED
    BY <2>1, <2>2 DEF ExportRecords
<1>s. SwitchTyped'
  BY <1>0, TypedFrame
<1>2. CASE ~accepted
  <2>1. export' = [export EXCEPT ![e] = AfterSpan(e)] /\ otlp' = otlp
    BY <1>2 DEF ReserveSpan
  <2> DEFINE x == AfterSpan(e)
  <2>2. /\ x \in ExportRecords /\ x.stage \in {"idle", "ingesting"}
        /\ x.receiver <= export[e].receiver
        /\ x.stage # "idle" =>
             x.receiver = export[e].receiver /\ x.root = export[e].root /\ x.batch # <<>>
    BY <1>0, <1>1, AfterSpanType
  <2>m. export' = [export EXCEPT ![e] = x]
    BY <2>1
  <2> HIDE DEF x, accepted, span
  <2>3. x.receiver <= receivers
    BY <1>1, <2>2 DEF ExportRecords
  <2>4. Moves(e, x)
    BY <1>0, <1>1, <2>1, <2>2, <2>m DEF Moves
  <2>5. x.stage # "idle" => x.receiver # 0 /\ x.batch # <<>>
    BY <1>1, <2>2
  <2> QED
    BY <1>0, <1>s, <2>2, <2>3, <2>4, <2>5, MovesKeepsAll
<1>3. CASE accepted
  <2>1. /\ otlp' = [otlp EXCEPT !.keys = @ \cup {span}]
        /\ export' = [export EXCEPT ![e].stage = "reserved"]
        /\ otlp.active = export[e].receiver /\ span \notin otlp.keys
    BY <1>3 DEF ReserveSpan
  <2>2. ShownInv'
    BY <1>0, <1>1, <2>1, ReserveKeeps DEF TracesIInv
  <2> DEFINE x == [export[e] EXCEPT !.stage = "reserved"]
  <2>3. /\ x \in ExportRecords /\ x.receiver = export[e].receiver /\ x.batch = export[e].batch
    BY <1>1 DEF ExportRecords
  <2>4. export' = [export EXCEPT ![e] = x]
    BY <2>1
  <2>5. ExportTyped'
    <3> HIDE DEF x
    <3> QED
      BY <1>0, <1>1, <2>3, <2>4, ExportMoves
  <2>6. RegistryTyped
    BY <1>0 DEF TracesTyped
  <2>7. /\ otlp' \in [lifecycle : {"stopped", "starting", "running", "failed"},
                      starting : Roots0, active : Nat, root : Roots0, keys : SUBSET Spans]
        /\ otlp'.lifecycle = otlp.lifecycle /\ otlp'.starting = otlp.starting
        /\ otlp'.active = otlp.active /\ otlp'.root = otlp.root
    <3>1. otlp \in [lifecycle : {"stopped", "starting", "running", "failed"},
                    starting : Roots0, active : Nat, root : Roots0, keys : SUBSET Spans]
      BY <2>6 DEF RegistryTyped
    <3>2. PICK keys \in SUBSET Spans : keys = otlp.keys \cup {span}
      BY <1>1, <3>1
    <3>3. otlp' = [otlp EXCEPT !.keys = keys]
      BY <2>1, <3>2
    <3> QED
      BY <3>1, <3>3
  <2>8. RegistryTyped'
    BY <1>0, <2>6, <2>7 DEF RegistryTyped
  <2>9. StarterTyped' /\ RingTyped'
    BY <1>0, TypedFrame
  <2>10. TracesAreOfWorkspace' /\ StartsEnd'
    BY <1>0, <2>7 DEF TracesIInv, TracesAreOfWorkspace, StartsEnd, otlpWorkspace
  <2> QED
    BY <1>s, <2>2, <2>5, <2>8, <2>9, <2>10 DEF TracesIInv, TracesTyped
<1> QED
  BY <1>2, <1>3

LEMMA PublishSpanKeeps ==
    ASSUME TracesIInv, NEW e \in Exports, PublishSpan(e) PROVE TracesIInv'
<1>0. /\ ExportTyped /\ TracesTyped /\ ShownInv /\ RingTyped
      /\ UNCHANGED <<otlp, receivers, starter, otlpWorkspace, otlpActs, torn>>
  BY DEF TracesIInv, TracesTyped, PublishSpan
<1>1. /\ export[e] \in ExportRecords /\ export[e].receiver <= receivers /\ receivers \in Nat
      /\ export[e].stage = "reserved" /\ export[e].receiver # 0 /\ export[e].receiver \in Nat
  BY <1>0 DEF TracesTyped, RegistryTyped, ExportTyped, PublishSpan, ExportRecords
<1>2. SpanEvent(e) \in EventRecords
  BY <1>0, <1>1, ExportFields
<1>s. RegistryTyped' /\ StarterTyped' /\ SwitchTyped'
  BY <1>0, TypedFrame
<1>e. StartsEnd'
  BY <1>0 DEF TracesIInv, StartsEnd
<1>f. SpanEvent(e).receiver = export[e].receiver /\ SpanEvent(e).root = export[e].root
      /\ SpanEvent(e).span = Head(export[e].batch)
  BY DEF SpanEvent
<1>3. CASE MayPublish(e)
  <2>1. /\ ring' = Append(IF Len(ring) = EventCapacity THEN Tail(ring) ELSE ring, SpanEvent(e))
        /\ unshown' = unshown \cup IF Len(ring) = EventCapacity
                                   THEN IF ring[1].receiver = otlp.active THEN {ring[1].span} ELSE {}
                                   ELSE {}
        /\ export' = [export EXCEPT ![e] = AfterSpan(e)]
    BY <1>3 DEF PublishSpan
  <2>2. PICK q : /\ q = Append(IF Len(ring) = EventCapacity THEN Tail(ring) ELSE ring, SpanEvent(e))
                 /\ Publishes(SpanEvent(e), q)
    BY <1>0, <1>2, RingPublished
  <2>3. ring' = q
    BY <2>1, <2>2
  <2>4. /\ unshown \subseteq unshown'
        /\ Len(ring) = EventCapacity => Missing(ring[1].receiver, ring[1].span) \subseteq unshown'
    BY <2>1 DEF Missing
  <2> DEFINE x == AfterSpan(e)
  <2>5. /\ x \in ExportRecords /\ x.stage \in {"idle", "ingesting"}
        /\ x.receiver <= export[e].receiver
        /\ x.stage # "idle" =>
             x.receiver = export[e].receiver /\ x.root = export[e].root /\ x.batch # <<>>
    BY <1>0, <1>1, AfterSpanType
  <2>6. export' = [export EXCEPT ![e] = x]
    BY <2>1
  <2> HIDE DEF x
  <2>p. Publishes(SpanEvent(e), q)
    BY <2>2
  <2>7. ShownInv'
    <3>1. Shows(e, q, x)
      BY <1>0, <1>1, <2>p, <2>3, <2>4, <2>5, <2>6 DEF Shows
    <3> QED
      BY <1>0, <3>1, ShowsKeeps
  <2>8. ExportTyped'
    <3>1. x.receiver <= receivers /\ (x.stage # "idle" => x.receiver # 0 /\ x.batch # <<>>)
      BY <1>1, <2>5 DEF ExportRecords
    <3> QED
      BY <1>0, <2>5, <2>6, <3>1, ExportMoves
  <2>9. PICK h : /\ \A i \in DOMAIN q : i = Len(q) \/ i \in 1..Len(q) - 1
                 /\ h \in [1..Len(q) - 1 -> DOMAIN ring]
                 /\ \A i \in 1..Len(q) - 1 : q[i] = ring[h[i]]
    <3>1. Places(q, Len(q) - 1)
      BY <1>0, <2>p, PublishedPlaces
    <3> QED
      BY <3>1 DEF Places
  <2>10. \A i \in DOMAIN q : q[i] = SpanEvent(e) \/ \E j \in DOMAIN ring : q[i] = ring[j]
    <3>1. q[Len(q)] = SpanEvent(e)
      BY <2>2 DEF Publishes
    <3> QED
      BY <2>9, <3>1
  <2>11. RingTyped'
    <3>1. \A i \in DOMAIN q : q[i].receiver <= receivers
      BY <1>0, <1>1, <1>f, <2>10 DEF RingTyped
    <3>2. q \in Seq(EventRecords) /\ Len(q) <= EventCapacity
      BY <2>2 DEF Publishes
    <3> QED
      BY <1>0, <2>3, <3>1, <3>2 DEF RingTyped
  <2>12. TracesAreOfWorkspace'
    <3>1. export[e].root = otlpRoot
      BY <1>3 DEF MayPublish, IsOpenRoot
    <3>2. \A i \in DOMAIN q : q[i].root = otlpRoot
      BY <1>f, <2>10, <3>1 DEF TracesIInv, TracesAreOfWorkspace
    <3> QED
      BY <1>0, <2>3, <3>2 DEF TracesIInv, TracesAreOfWorkspace, otlpWorkspace
  <2> QED
    BY <1>s, <1>e, <2>7, <2>8, <2>11, <2>12 DEF TracesIInv, TracesTyped
<1>4. CASE ~MayPublish(e)
  <2>1. /\ export' = [export EXCEPT ![e] = NoExport] /\ ring' = ring
        /\ unshown' = unshown \cup IF SpanEvent(e).receiver = otlp.active
                                   THEN {SpanEvent(e).span} ELSE {}
    BY <1>4 DEF PublishSpan
  <2>2. Missing(export[e].receiver, Head(export[e].batch)) \subseteq unshown'
        /\ unshown \subseteq unshown'
    BY <1>f, <2>1 DEF Missing
  <2>3. NoExport \in ExportRecords /\ NoExport.stage = "idle" /\ NoExport.receiver = 0
    BY ReceiverNumbers, EmptySeq DEF NoExport, ExportRecords
  <2>4. ShownInv'
    BY <1>0, <1>1, <2>1, <2>2, <2>3, DropKeeps
  <2>5. ExportTyped'
    <3>1. NoExport.receiver <= receivers
      BY <1>1, <2>3
    <3> QED
      BY <1>0, <2>1, <2>3, <3>1, ExportMoves
  <2>6. RingTyped'
    BY <1>0, <2>1, TypedFrame
  <2>7. TracesAreOfWorkspace'
    BY <1>0, <2>1 DEF TracesIInv, TracesAreOfWorkspace, otlpWorkspace
  <2> QED
    BY <1>s, <1>e, <2>4, <2>5, <2>6, <2>7 DEF TracesIInv, TracesTyped
<1> QED
  BY <1>3, <1>4

LEMMA DeleteTraceKeeps ==
    ASSUME TracesIInv, NEW t \in TraceIds, DeleteTrace(t) PROVE TracesIInv'
<1>0. /\ TracesTyped /\ ShownInv /\ RingTyped /\ RegistryTyped
      /\ UNCHANGED <<receivers, starter, export, otlpWorkspace>> /\ OtlpBegins
      /\ otlp' = [otlp EXCEPT !.keys = KeysWithout(t)]
      /\ unshown' = {k \in unshown : k[1] # t}
      /\ torn' = torn \cup {SpanEvent(e) : e \in {x \in Exports : export[x].stage = "reserved"
                                                          /\ Head(export[x].batch)[1] = t}}
      /\ ring' = Retain(ring, OfTraceNot(t))
  BY DEF TracesIInv, TracesTyped, DeleteTrace, OfTraceNot
<1>1. StarterTyped' /\ ExportTyped' /\ SwitchTyped'
  BY <1>0, TypedFrame
<1>2. PICK q, h : q = Retain(ring, OfTraceNot(t)) /\ Deletes(t, q, h)
  BY <1>0, RingDeleted
<1>3. ring' = q
  BY <1>0, <1>2
<1>4. torn \subseteq torn' /\ \A e \in Exports :
        (export[e].stage = "reserved" /\ Head(export[e].batch)[1] = t) => SpanEvent(e) \in torn'
  BY <1>0
<1>5. ShownInv'
  BY <1>0, <1>2, <1>3, <1>4, DeleteKeeps
<1>6. /\ otlp' \in [lifecycle : {"stopped", "starting", "running", "failed"},
                    starting : Roots0, active : Nat, root : Roots0, keys : SUBSET Spans]
      /\ otlp'.lifecycle = otlp.lifecycle /\ otlp'.starting = otlp.starting
      /\ otlp'.active = otlp.active /\ otlp'.root = otlp.root
  <2>1. otlp \in [lifecycle : {"stopped", "starting", "running", "failed"},
                  starting : Roots0, active : Nat, root : Roots0, keys : SUBSET Spans]
    BY <1>0 DEF RegistryTyped
  <2>2. PICK keys \in SUBSET Spans : keys = KeysWithout(t)
    BY <2>1 DEF KeysWithout
  <2>3. otlp' = [otlp EXCEPT !.keys = keys]
    BY <1>0, <2>2
  <2> QED
    BY <2>1, <2>3
<1>7. RegistryTyped'
  BY <1>0, <1>6 DEF RegistryTyped
<1>8. \A i \in DOMAIN q : \E j \in DOMAIN ring : q[i] = ring[j]
  BY <1>2 DEF Deletes
<1>9. RingTyped'
  <2>1. q \in Seq(EventRecords) /\ Len(q) <= EventCapacity
    BY <1>2 DEF Deletes
  <2> QED
    BY <1>0, <1>3, <1>8, <2>1 DEF RingTyped
<1>10. TracesAreOfWorkspace' /\ StartsEnd'
  BY <1>0, <1>3, <1>6, <1>8 DEF TracesIInv, TracesAreOfWorkspace, StartsEnd, otlpWorkspace
<1> QED
  BY <1>1, <1>5, <1>7, <1>9, <1>10 DEF TracesIInv, TracesTyped

LEMMA TracesStep == TracesIInv /\ [TraceReceiverNext]_otlpVars => TracesIInv'
<1> SUFFICES ASSUME TracesIInv, [TraceReceiverNext]_otlpVars PROVE TracesIInv'
  OBVIOUS
<1>1. ASSUME NEW s \in Starts,
             \/ StartReceiver(s) \/ ReserveStart(s) \/ ConfirmStart(s)
             \/ ActivateReceiver(s) \/ CancelStart(s)
      PROVE  TracesIInv'
  BY <1>1, StartKeeps, ReserveStartKeeps, ActivateKeeps, CancelKeeps
<1>2. CASE StopReceiver \/ ListenerFails \/ CompleteTraceSwitch
  BY <1>2, EndKeeps
<1>3. CASE BeginTraceSwitch \/ \E w \in TraceRoots : TraceSwitchInstalls(w)
  BY <1>3, SwitchKeeps
<1>4. ASSUME NEW e \in Exports,
             \/ \E b \in Batches : ReceiveExport(e, b)
             \/ BeginIngest(e) \/ ReserveSpan(e) \/ PublishSpan(e)
      PROVE  TracesIInv'
  BY <1>4, ReceiveKeeps, BeginIngestKeeps, ReserveSpanKeeps, PublishSpanKeeps
<1>5. ASSUME NEW t \in TraceIds, DeleteTrace(t) PROVE TracesIInv'
  BY <1>5, DeleteTraceKeeps
<1>6. CASE UNCHANGED otlpVars
  <2>1. /\ NothingShown
        /\ UNCHANGED <<otlp, receivers, starter, export, ring, otlpWorkspace, otlpActs>>
    BY <1>6 DEF otlpVars, NothingShown
  <2>2. TracesTyped'
    BY <2>1, TypedFrame DEF TracesIInv, TracesTyped
  <2>3. TracesAreOfWorkspace' /\ StartsEnd'
    BY <2>1 DEF TracesIInv, TracesAreOfWorkspace, StartsEnd, otlpWorkspace
  <2> QED
    BY <2>1, <2>2, <2>3, NothingShownKeeps DEF TracesIInv
<1> QED
  BY <1>1, <1>2, <1>3, <1>4, <1>5, <1>6 DEF TraceReceiverNext

\* A key whose event is in the ring is contained in it.
LEMMA TracesIInvImplies == TracesIInv => TracesInv
<1> SUFFICES ASSUME TracesIInv PROVE TracesInv
  OBVIOUS
<1>1. TraceReceiverTypeOK /\ TracesAreOfWorkspace /\ SpansAreShownOnce /\ StartsEnd
  BY TracesTypedIsOK DEF TracesIInv, ShownInv, OnceInv
<1>2. RefusedSpansAreShown
  <2> SUFFICES ASSUME NEW k \in otlp.keys
               PROVE  LET event == [receiver |-> otlp.active, root |-> otlp.root, span |-> k]
                      IN  \/ Contains(ring, event) \/ k \in unshown
                          \/ \E e \in Exports : export[e].stage = "reserved" /\ SpanEvent(e) = event
    BY DEF RefusedSpansAreShown
  <2> DEFINE event == [receiver |-> otlp.active, root |-> otlp.root, span |-> k]
  <2>1. KeyIsExplained(k)
    BY DEF TracesIInv, ShownInv, KeysInv
  <2>2. ASSUME NEW i \in DOMAIN ring, ring[i].receiver = otlp.active, ring[i].root = otlp.root,
               ring[i].span = k
        PROVE  Contains(ring, event)
    <3>1. ring \in Seq(EventRecords)
      BY DEF TracesIInv, TracesTyped, RingTyped
    <3>2. i \in 1..Len(ring) /\ ring[i] \in EventRecords
      BY <3>1, LenProperties, ElementOfSeq
    <3>3. ring[i] = [receiver |-> otlp.active, root |-> otlp.root, span |-> k]
      BY <2>2, <3>2 DEF EventRecords
    <3> QED
      BY <3>2, <3>3 DEF Contains
  <2>3. ASSUME NEW e \in Exports, export[e].receiver = otlp.active, export[e].root = otlp.root,
               Head(export[e].batch) = k
        PROVE  SpanEvent(e) = event
    BY <2>3 DEF SpanEvent
  <2> QED
    BY <2>1, <2>2, <2>3 DEF KeyIsExplained
<1> QED
  BY <1>1, <1>2 DEF TracesInv

\* The traces are those of the open workspace, and what the receiver refuses as a
\* duplicate has been shown: for every number of starts, connections, spans and events.
THEOREM TracesHold == (TraceReceiverInit /\ [][TraceReceiverNext]_otlpVars) => []TracesInv
<1> QED
  BY TracesInit, TracesStep, TracesIInvImplies, PTL

--------------------------------------------------------------------------------
(* The greatest of finitely many naturals.                                  *)

HasMaximum(S) == \E x \in S : \A y \in S : y <= x

LEMMA FiniteMaximum ==
    ASSUME NEW S \in SUBSET Nat, IsFiniteSet(S), S # {}
    PROVE  Max(S) \in S /\ \A y \in S : y <= Max(S)
<1> DEFINE OfSize(n) == {U \in SUBSET Nat : IsFiniteSet(U) /\ Cardinality(U) = n /\ U # {}}
<1> DEFINE T == {n \in Nat : \A U \in OfSize(n) : HasMaximum(U)}
<1>1. 0 \in T
  BY FS_EmptySet
<1>2. ASSUME NEW n \in T PROVE n + 1 \in T
  <2>1. SUFFICES ASSUME NEW U \in OfSize(n + 1) PROVE HasMaximum(U)
    OBVIOUS
  <2>2. PICK a \in U : a \in Nat
    OBVIOUS
  <2>3. /\ IsFiniteSet(U \ {a}) /\ Cardinality(U \ {a}) = n /\ U \ {a} \in SUBSET Nat
    <3>1. IsFiniteSet(U) /\ Cardinality(U) = n + 1
      OBVIOUS
    <3>2. IsFiniteSet(U \ {a}) /\ Cardinality(U \ {a}) = Cardinality(U) - 1
      BY <2>2, <3>1, FS_RemoveElement
    <3> QED
      BY <3>1, <3>2
  <2>4. CASE U \ {a} = {}
    <3>1. \A y \in U : y = a
      BY <2>4
    <3> QED
      BY <2>2, <3>1 DEF HasMaximum
  <2>5. CASE U \ {a} # {}
    <3>1. PICK m \in U \ {a} : \A y \in U \ {a} : y <= m
      BY <2>3, <2>5 DEF HasMaximum
    <3>2. m \in Nat /\ \A y \in U : y = a \/ y <= m
      BY <3>1
    <3>3. CASE a <= m
      BY <3>1, <3>2, <3>3 DEF HasMaximum
    <3>4. CASE ~(a <= m)
      <4>1. \A y \in U : y <= a
        BY <2>2, <3>2, <3>4
      <4> QED
        BY <2>2, <4>1 DEF HasMaximum
    <3> QED
      BY <3>3, <3>4
  <2> QED
    BY <2>4, <2>5
<1> HIDE DEF T
<1>3. Cardinality(S) \in T
  BY <1>1, <1>2, NatSetInduction, FS_CardinalityType DEF T
<1>4. PICK x \in S : \A y \in S : y <= x
  BY <1>3 DEF T, HasMaximum
<1>5. x >= x /\ \A y \in S : x >= y
  BY <1>4
<1>6. Max(S) \in S /\ \A y \in S : Max(S) >= y
  BY <1>5, Zenon DEF Max
<1> QED
  BY <1>6

--------------------------------------------------------------------------------
(* The catalogue.                                                          *)

LEMMA CatalogNumbers ==
    /\ Operations \subseteq Nat /\ IsFiniteSet(Operations) /\ AllOperations \notin NarrowQueries
    /\ CatalogPage \in Nat /\ CatalogPage > 0 /\ MaxEndpoints \in Nat /\ MaxEndpoints > 0
    /\ CacheSize \in Nat /\ CacheSize > 0 /\ MaxCatalogActs \in Nat /\ CatalogRoots # {}
    /\ MaxPages \in Nat /\ MaxPages > 0 /\ NoCursor = 0 - 1 /\ NoCursor \notin Operations
<1>1. /\ Operations \subseteq Nat /\ IsFiniteSet(Operations) /\ AllOperations \notin NarrowQueries
      /\ CatalogPage \in Nat /\ CatalogPage > 0 /\ MaxEndpoints \in Nat /\ MaxEndpoints > 0
      /\ CacheSize \in Nat /\ CacheSize > 0 /\ MaxCatalogActs \in Nat /\ CatalogRoots # {}
  BY ApiCatalogAssumption
<1>2. MaxPages \in Nat /\ MaxPages > 0
  <2> DEFINE top == MaxEndpoints + CatalogPage - 1
  <2>1. top \in Nat /\ top >= CatalogPage
    BY <1>1
  <2> HIDE DEF top
  <2>2. top \div CatalogPage \in Nat /\ top \div CatalogPage > 0
    BY <1>1, <2>1
  <2> QED
    BY <2>2 DEF MaxPages, top
<1>3. NoCursor = 0 - 1 /\ NoCursor \notin Operations
  BY <1>1 DEF NoCursor
<1> QED
  BY <1>1, <1>2, <1>3

LEMMA SubsetsAreFinite ==
    ASSUME NEW S \in SUBSET Operations PROVE IsFiniteSet(S) /\ Cardinality(S) \in Nat
BY CatalogNumbers, FS_Subset, FS_CardinalityType

\* A page is short; it is all there is, or all there is up to its last operation.
LEMMA PageIsFirst ==
    ASSUME NEW rest \in SUBSET Operations, NEW page, page = FirstOf(rest)
    PROVE  /\ page \in SUBSET rest /\ Cardinality(page) <= CatalogPage
           /\ page # rest => /\ Max(page) \in page
                             /\ \A o \in rest : o <= Max(page) => o \in page
<1> DEFINE before(o) == {p \in rest : p < o}
<1>0. /\ page = {o \in rest : Cardinality(before(o)) < CatalogPage}
      /\ \A o : before(o) \in SUBSET Operations
  BY DEF FirstOf
<1>n. /\ rest \in SUBSET Nat /\ page \in SUBSET rest /\ CatalogPage \in Nat /\ CatalogPage > 0
      /\ page \in SUBSET Operations /\ page \in SUBSET Nat
  BY <1>0, CatalogNumbers
<1>f. IsFiniteSet(page) /\ \A o : IsFiniteSet(before(o)) /\ Cardinality(before(o)) \in Nat
  BY <1>0, <1>n, SubsetsAreFinite
<1>1. CASE page = {}
  <2>1. Cardinality(page) <= CatalogPage
    BY <1>1, <1>n, FS_EmptySet
  <2>2. rest = {}
    <3>1. SUFFICES ASSUME rest # {} PROVE FALSE
      OBVIOUS
    <3>2. PICK x \in rest : \A y \in rest : x <= y
      BY <1>n, <3>1, NatMinimum
    <3>3. before(x) = {}
      <4>1. \A y \in rest : ~(y < x)
        BY <1>n, <3>2
      <4> QED
        BY <4>1
    <3>4. Cardinality(before(x)) = 0
      BY <3>3, FS_EmptySet
    <3> QED
      BY <1>0, <1>1, <1>n, <3>2, <3>4
  <2> QED
    BY <1>1, <1>n, <2>1, <2>2
<1>2. CASE page # {}
  <2> DEFINE m == Max(page)
  <2>1. m \in page /\ \A y \in page : y <= m
    BY <1>2, <1>f, <1>n, FiniteMaximum
  <2> HIDE DEF m
  <2>2. Cardinality(before(m)) < CatalogPage /\ m \in Nat /\ m \in rest
    BY <1>0, <1>n, <2>1
  <2>3. Cardinality(page) <= CatalogPage
    <3>1. page \subseteq before(m) \cup {m}
      BY <1>n, <2>1, <2>2
    <3> HIDE DEF before
    <3>2. /\ IsFiniteSet(before(m) \cup {m})
          /\ Cardinality(before(m) \cup {m}) <= Cardinality(before(m)) + 1
      <4>1. Cardinality(before(m) \cup {m}) \in {Cardinality(before(m)), Cardinality(before(m)) + 1}
        BY <1>f, FS_AddElement
      <4> QED
        BY <1>f, <4>1, FS_AddElement
    <3>3. Cardinality(page) <= Cardinality(before(m) \cup {m})
      BY <3>1, <3>2, FS_Subset
    <3>4. Cardinality(page) \in Nat /\ Cardinality(before(m) \cup {m}) \in Nat
      BY <1>f, <3>2, FS_CardinalityType
    <3> QED
      BY <1>f, <1>n, <2>2, <3>2, <3>3, <3>4
  <2>4. ASSUME NEW o \in rest, o <= m PROVE o \in page
    <3>1. before(o) \in SUBSET before(m)
      <4>1. \A p \in rest : p < o => p < m
        BY <1>n, <2>2, <2>4
      <4> QED
        BY <1>0, <1>n, <4>1
    <3> HIDE DEF before
    <3>2. Cardinality(before(o)) <= Cardinality(before(m))
      BY <1>f, <3>1, FS_Subset
    <3>3. Cardinality(before(o)) < CatalogPage
      BY <1>f, <1>n, <2>2, <3>2
    <3> QED
      BY <1>0, <3>3
  <2> QED
    BY <1>n, <2>1, <2>3, <2>4 DEF m
<1> QED
  BY <1>1, <1>2

\* Of two finite sets the larger has at least as many elements of its own.
LEMMA LargerHasMoreOfItsOwn ==
    ASSUME NEW S \in SUBSET Operations, NEW U \in SUBSET Operations,
           Cardinality(U) >= Cardinality(S)
    PROVE  Cardinality(S \ U) <= Cardinality(U \ S)
<1>1. /\ IsFiniteSet(S) /\ IsFiniteSet(U) /\ Cardinality(S) \in Nat /\ Cardinality(U) \in Nat
      /\ Cardinality(S \cap U) \in Nat
  BY SubsetsAreFinite
<1>2. /\ Cardinality(S \ U) = Cardinality(S) - Cardinality(S \cap U)
      /\ Cardinality(U \ S) = Cardinality(U) - Cardinality(U \cap S)
  BY <1>1, FS_Difference
<1>3. S \cap U = U \cap S
  OBVIOUS
<1>4. Cardinality(U \ S) = Cardinality(U) - Cardinality(S \cap U)
  BY <1>2, <1>3
<1>5. \A a, b, c \in Nat : b >= a => a - c <= b - c
  OBVIOUS
<1> QED
  BY <1>1, <1>2, <1>4, <1>5

--------------------------------------------------------------------------------
(* The inductive invariant of the catalogue.                                *)

Phases == {"loading", "ready", "error"}
Stages == {"none", "asked", "served", "answered", "failed"}
Cursors == Operations \cup {NoCursor}
Answers == [items : SUBSET Operations, total : Nat, next : Cursors]
Loads == [stage : Stages, list : Lists, cursor : Cursors, visited : SUBSET Operations,
          pages : 0..MaxPages, answer : Answers]

IndexTyped == servedRoot \in CatalogRoots /\ inventory \subseteq Operations
HookTyped ==
    /\ catalogRoot \in CatalogRoots /\ catalogEra \in Nat
    /\ catalogQuery \in CatalogQueries /\ debouncedQuery \in CatalogQueries
    /\ catalogSwitched \in BOOLEAN /\ catalogActs \in 0..MaxCatalogActs
ListsTyped ==
    /\ catalog \in [phase : Phases, list : Lists] /\ load \in Loads
    /\ completed \in Seq(Lists) /\ Len(completed) <= CacheSize
CatalogTyped == IndexTyped /\ HookTyped /\ ListsTyped

\* A list that may be shown as complete.
IsWhole(list) ==
    /\ list.steady \subseteq list.items /\ list.items \subseteq list.ever
    /\ Cardinality(list.last \ list.items) <= Cardinality(list.items \ list.last)
    /\ Cardinality(list.items) <= CatalogPage * MaxPages

ShownListInv == catalog.phase = "ready" => catalog.list.key = Key /\ IsWhole(catalog.list)
CacheInv == \A i \in DOMAIN completed : IsWhole(completed[i])
PhaseInv == catalog.phase = "loading" <=> load.stage # "none"

\* The load under way is for the key, which was not completed before.
LoadIsCurrent ==
    load.stage # "none" =>
        load.list.key = Key /\ \A i \in DOMAIN completed : completed[i].key # Key
\* What it could find is between what was there all the time and at any time.
LoadIsWitnessed ==
    load.stage # "none" /\ load.list.key.root = servedRoot =>
        /\ load.list.steady \subseteq Found(load.list.key.query)
        /\ Found(load.list.key.query) \subseteq load.list.ever
\* It has what was there all the time up to its cursor.
LoadIsComplete ==
    load.stage # "none" =>
        /\ load.list.items \subseteq load.list.ever
        /\ \A o \in load.list.steady : o <= load.cursor => o \in load.list.items
        /\ load.pages < MaxPages /\ Cardinality(load.list.items) <= CatalogPage * load.pages
\* The answer has it from the cursor to the next.
AnswerInv ==
    load.stage \in {"served", "answered"} =>
        /\ load.answer.items \subseteq load.list.ever
        /\ Cardinality(load.answer.items) <= CatalogPage
        /\ load.answer.total = Cardinality(load.list.last)
        /\ \A o \in load.list.steady : o > load.cursor =>
             \/ o \in load.answer.items
             \/ load.answer.next # NoCursor /\ o > load.answer.next
LoadInv == LoadIsCurrent /\ LoadIsWitnessed /\ LoadIsComplete /\ AnswerInv

CatalogIInv == CatalogTyped /\ ShownListInv /\ CacheInv /\ PhaseInv /\ LoadInv

LEMMA CatalogIInvImplies == CatalogIInv => CatalogInv
<1> SUFFICES ASSUME CatalogIInv PROVE CatalogInv
  OBVIOUS
<1>1. CatalogTypeOK
  BY DEF CatalogIInv, CatalogTyped, IndexTyped, HookTyped, ListsTyped, Phases, Loads, Stages,
         Cursors, Answers, CatalogTypeOK
<1>2. CatalogIsWhole
  BY DEF CatalogIInv, ShownListInv, PhaseInv, IsWhole, CatalogIsWhole
<1> QED
  BY <1>1, <1>2 DEF CatalogInv

\* A list with nothing in it, and a load that begins.
LEMMA EmptyListType ==
    ASSUME NEW key \in Keys, NEW found \in SUBSET Operations
    PROVE  /\ EmptyList(key) \in Lists
           /\ FirstLoad(key, found) \in Loads
           /\ FirstLoad(key, found) =
                [stage |-> "asked", cursor |-> NoCursor, visited |-> {}, pages |-> 0,
                 list |-> [key |-> key, items |-> {}, steady |-> found, ever |-> found,
                           last |-> {}],
                 answer |-> NoAnswer]
<1>1. EmptyList(key) \in Lists
  BY DEF EmptyList, Lists
<1>2. NoAnswer \in Answers /\ 0 \in 0..MaxPages /\ NoCursor \in Cursors
  BY CatalogNumbers DEF NoAnswer, Answers, Cursors
<1> DEFINE list == [key |-> key, items |-> {}, steady |-> found, ever |-> found, last |-> {}]
<1>3. [EmptyList(key) EXCEPT !.steady = found, !.ever = found] = list /\ list \in Lists
  <2>1. [EmptyList(key) EXCEPT !.steady = found, !.ever = found] = list
    <3> DEFINE first == [EmptyList(key) EXCEPT !.steady = found, !.ever = found]
    <3>1. first = [[key |-> key, items |-> {}, steady |-> {}, ever |-> {}, last |-> {}]
                     EXCEPT !.steady = found, !.ever = found]
      BY DEF EmptyList
    <3> HIDE DEF first
    <3>2. first = [key |-> key, items |-> {}, steady |-> found, ever |-> found, last |-> {}]
      BY <3>1
    <3> QED
      BY <3>2 DEF first
  <2>2. list \in Lists
    BY DEF Lists
  <2> QED
    BY <2>1, <2>2
<1>4. FirstLoad(key, found) =
        [stage |-> "asked", cursor |-> NoCursor, visited |-> {}, pages |-> 0, list |-> list,
         answer |-> NoAnswer]
  <2>1. FirstLoad(key, found) = [NoLoad EXCEPT !.stage = "asked", !.list = list]
    BY <1>3 DEF FirstLoad
  <2> HIDE DEF list
  <2> QED
    BY <2>1 DEF NoLoad
<1> HIDE DEF list
<1>5. FirstLoad(key, found) \in Loads
  BY <1>2, <1>3, <1>4 DEF Loads, Stages
<1> QED
  BY <1>1, <1>4, <1>5 DEF list

LEMMA NoLoadType == CatalogTyped => NoLoad \in Loads /\ NoLoad.stage = "none"
<1> SUFFICES ASSUME CatalogTyped PROVE NoLoad \in Loads /\ NoLoad.stage = "none"
  OBVIOUS
<1>1. NoKey \in Keys
  <2>1. (CHOOSE w \in CatalogRoots : TRUE) \in CatalogRoots
    BY DEF CatalogTyped, IndexTyped
  <2> QED
    BY <2>1 DEF NoKey, Keys, CatalogQueries
<1>2. EmptyList(NoKey) \in Lists
  BY <1>1, EmptyListType
<1>3. NoAnswer \in Answers /\ 0 \in 0..MaxPages /\ NoCursor \in Cursors
  BY CatalogNumbers DEF NoAnswer, Answers, Cursors
<1> QED
  BY <1>2, <1>3 DEF NoLoad, Loads, Stages

LEMMA KeyType == HookTyped => Key \in Keys
BY DEF HookTyped, Key, Keys

LEMMA FoundType ==
    ASSUME NEW operations \in SUBSET Operations, NEW q
    PROVE  FoundIn(operations, q) \in SUBSET Operations
BY DEF FoundIn

\* A load that begins has found nothing and missed nothing.
LEMMA FirstLoadIsSound ==
    ASSUME HookTyped', NEW key \in Keys, Key' = key, IndexTyped,
           UNCHANGED <<servedRoot, inventory, completed>>,
           \A i \in DOMAIN completed : completed[i].key # key,
           load' = FirstLoad(key, FoundIn(inventory, key.query))
    PROVE  LoadInv'
<1> DEFINE found == FoundIn(inventory, key.query)
<1>1. found \in SUBSET Operations
  BY FoundType DEF IndexTyped
<1>u. servedRoot' = servedRoot /\ inventory' = inventory /\ completed' = completed
  OBVIOUS
<1>2. /\ load'.stage = "asked" /\ load'.list.key = key /\ load'.list.items = {}
      /\ load'.list.steady = found /\ load'.list.ever = found /\ load'.pages = 0
      /\ load'.cursor = NoCursor
  <2> HIDE DEF found
  <2>1. load' = [stage |-> "asked", cursor |-> NoCursor, visited |-> {}, pages |-> 0,
                 list |-> [key |-> key, items |-> {}, steady |-> found, ever |-> found,
                           last |-> {}],
                 answer |-> NoAnswer]
    BY <1>1, EmptyListType DEF found
  <2> QED
    BY <2>1
<1>3. LoadIsCurrent'
  BY <1>u, <1>2 DEF LoadIsCurrent
<1>4. LoadIsWitnessed'
  BY <1>u, <1>2 DEF LoadIsWitnessed, Found
<1>5. LoadIsComplete'
  <2>1. Cardinality({}) = 0
    BY FS_EmptySet
  <2>2. CatalogPage * 0 = 0 /\ 0 < MaxPages
    BY CatalogNumbers
  <2>3. \A o \in found : ~(o <= NoCursor)
    <3> HIDE DEF found
    <3>1. \A o \in found : o \in Nat
      BY <1>1, CatalogNumbers
    <3> QED
      BY <3>1, CatalogNumbers
  <2> HIDE DEF found
  <2> QED
    BY <1>2, <2>1, <2>2, <2>3 DEF LoadIsComplete
<1>6. AnswerInv'
  BY <1>2 DEF AnswerInv
<1> QED
  BY <1>3, <1>4, <1>5, <1>6 DEF LoadInv

LEMMA CatalogStarts == CatalogInit => CatalogIInv
<1> SUFFICES ASSUME CatalogInit PROVE CatalogIInv
  OBVIOUS
<1>1. IndexTyped
  <2>1. servedRoot \in CatalogRoots
    <3>1. (CHOOSE w \in CatalogRoots : TRUE) \in CatalogRoots
      BY CatalogNumbers
    <3> QED
      BY <3>1 DEF CatalogInit, NoKey
  <2>2. inventory \in SUBSET Operations
    BY ApiCatalogAssumption DEF CatalogInit
  <2> QED
    BY <2>1, <2>2 DEF IndexTyped
<1>2. HookTyped
  <2>1. catalogRoot \in CatalogRoots /\ catalogEra \in Nat /\ catalogActs \in 0..MaxCatalogActs
    BY <1>1, CatalogNumbers DEF CatalogInit, IndexTyped
  <2>2. catalogQuery \in CatalogQueries /\ debouncedQuery \in CatalogQueries
    BY DEF CatalogInit, CatalogQueries
  <2>3. catalogSwitched \in BOOLEAN
    BY DEF CatalogInit
  <2> QED
    BY <2>1, <2>2, <2>3 DEF HookTyped
<1>k. Key \in Keys /\ Key.query = AllOperations /\ Key.root = servedRoot
  BY <1>2, KeyType DEF Key, CatalogInit
<1>3. FoundIn(inventory, AllOperations) = inventory /\ Found(AllOperations) = inventory
  BY DEF FoundIn, Found
<1>4. load = FirstLoad(Key, inventory) /\ load \in Loads /\ EmptyList(Key) \in Lists
  BY <1>1, <1>k, EmptyListType DEF CatalogInit, IndexTyped
<1>5. load = [stage |-> "asked", cursor |-> NoCursor, visited |-> {}, pages |-> 0,
              list |-> [key |-> Key, items |-> {}, steady |-> inventory, ever |-> inventory,
                        last |-> {}],
              answer |-> NoAnswer]
  BY <1>1, <1>k, <1>4, EmptyListType DEF IndexTyped
<1>6. completed = <<>> /\ catalog = [phase |-> "loading", list |-> EmptyList(Key)]
  BY DEF CatalogInit
<1>7. ListsTyped
  BY <1>4, <1>6, CatalogNumbers DEF ListsTyped, Phases
<1>8. load.stage = "asked" /\ load.list.key = Key /\ load.list.items = {} /\ load.pages = 0
      /\ load.list.steady = inventory /\ load.list.ever = inventory /\ load.cursor = NoCursor
  BY <1>5
<1>9. ShownListInv /\ CacheInv /\ PhaseInv
  BY <1>6, <1>8 DEF ShownListInv, CacheInv, PhaseInv
<1>10. LoadIsCurrent /\ LoadIsWitnessed /\ AnswerInv
  BY <1>3, <1>6, <1>8, <1>k DEF LoadIsCurrent, LoadIsWitnessed, AnswerInv
<1>11. LoadIsComplete
  <2>1. \A o \in inventory : ~(o <= NoCursor)
    <3>1. \A o \in inventory : o \in Nat
      BY <1>1, CatalogNumbers DEF IndexTyped
    <3> QED
      BY <3>1, CatalogNumbers
  <2>2. Cardinality({}) = 0 /\ CatalogPage * 0 = 0 /\ 0 < MaxPages
    BY FS_EmptySet, CatalogNumbers
  <2> QED
    BY <1>8, <2>1, <2>2 DEF LoadIsComplete
<1> QED
  BY <1>1, <1>2, <1>7, <1>9, <1>10, <1>11 DEF CatalogIInv, CatalogTyped, LoadInv

--------------------------------------------------------------------------------
(* The steps of the catalogue.                                              *)

\* Another key: its list is taken from the cache, or a load of it begins.
LEMMA LoadCatalogIsSound ==
    ASSUME CatalogIInv, HookTyped', NEW key \in Keys, Key' = key,
           UNCHANGED <<servedRoot, inventory, completed>>,
           LoadCatalog(key, FoundIn(inventory, key.query))
    PROVE  CatalogIInv'
<1> DEFINE ready == {i \in DOMAIN completed : IsCompleted(key, completed[i].key)}
<1> DEFINE found == FoundIn(inventory, key.query)
<1>t. CatalogTyped /\ IndexTyped /\ ListsTyped /\ CacheInv
  BY DEF CatalogIInv, CatalogTyped
<1>u. servedRoot' = servedRoot /\ inventory' = inventory /\ completed' = completed
  OBVIOUS
<1>i. IndexTyped'
  BY <1>t, <1>u DEF IndexTyped
<1>c. CacheInv'
  BY <1>t, <1>u DEF CacheInv
<1>f. found \in SUBSET Operations
  BY <1>t, FoundType DEF IndexTyped
<1>1. ASSUME NEW i \in ready,
             catalog' = [phase |-> "ready", list |-> completed[i]], load' = NoLoad
      PROVE  CatalogIInv'
  <2>1. i \in DOMAIN completed /\ completed[i].key = key
    BY DEF IsCompleted
  <2>2. completed[i] \in Lists
    <3> HIDE DEF ready
    <3> QED
      BY <1>t, <2>1 DEF ListsTyped
  <2>3. IsWhole(completed[i])
    BY <1>t, <2>1 DEF CacheInv
  <2>4. load' \in Loads /\ load'.stage = "none"
    BY <1>t, <1>1, NoLoadType
  <2>5. catalog'.phase = "ready" /\ catalog'.list = completed[i]
    BY <1>1
  <2>6. ListsTyped'
    BY <1>t, <1>u, <1>1, <2>2, <2>4 DEF ListsTyped, Phases
  <2>7. ShownListInv' /\ PhaseInv'
    <3>1. IsWhole(catalog.list)'
      BY <2>3, <2>5 DEF IsWhole
    <3> QED
      BY <2>1, <2>4, <2>5, <3>1 DEF ShownListInv, PhaseInv
  <2>8. LoadInv'
    BY <2>4 DEF LoadInv, LoadIsCurrent, LoadIsWitnessed, LoadIsComplete, AnswerInv
  <2> QED
    BY <1>i, <1>c, <2>6, <2>7, <2>8 DEF CatalogIInv, CatalogTyped
<1>2. ASSUME ready = {}, load' = FirstLoad(key, found),
             catalog' = [phase |-> "loading", list |-> EmptyList(key)]
      PROVE  CatalogIInv'
  <2>1. \A i \in DOMAIN completed : completed[i].key # key
    BY <1>2 DEF IsCompleted
  <2>2. load' \in Loads /\ EmptyList(key) \in Lists /\ load'.stage = "asked"
    <3> HIDE DEF found
    <3>1. load' \in Loads /\ EmptyList(key) \in Lists
      BY <1>2, <1>f, EmptyListType
    <3>2. load' = [stage |-> "asked", cursor |-> NoCursor, visited |-> {}, pages |-> 0,
                   list |-> [key |-> key, items |-> {}, steady |-> found, ever |-> found,
                             last |-> {}],
                   answer |-> NoAnswer]
      BY <1>2, <1>f, EmptyListType
    <3> QED
      BY <3>1, <3>2
  <2>3. LoadInv'
    BY <1>t, <1>2, <2>1, FirstLoadIsSound
  <2>4. catalog'.phase = "loading"
    BY <1>2
  <2>5. ListsTyped'
    BY <1>t, <1>u, <1>2, <2>2 DEF ListsTyped, Phases
  <2>6. ShownListInv' /\ PhaseInv'
    BY <2>2, <2>4 DEF ShownListInv, PhaseInv
  <2> QED
    BY <1>i, <1>c, <2>3, <2>5, <2>6 DEF CatalogIInv, CatalogTyped
<1> QED
  BY <1>1, <1>2 DEF LoadCatalog

\* A list is put at the end; of a full cache the oldest one leaves.
KeepsLatest(s, x, q) ==
    /\ q \in Seq(Lists) /\ Len(q) <= CacheSize
    /\ \A i \in DOMAIN q : q[i] = x \/ \E j \in DOMAIN s : q[i] = s[j]

LEMMA LatestAreKept ==
    ASSUME NEW s \in Seq(Lists), Len(s) <= CacheSize, NEW x \in Lists
    PROVE  KeepsLatest(s, x, Append(IF Len(s) = CacheSize THEN Tail(s) ELSE s, x))
<1> DEFINE t == IF Len(s) = CacheSize THEN Tail(s) ELSE s
<1>1. /\ t \in Seq(Lists) /\ Len(t) < CacheSize /\ Len(t) \in Nat
      /\ \A i \in 1..Len(t) : \E j \in DOMAIN s : t[i] = s[j]
  <2>1. CASE Len(s) = CacheSize
    <3>1. s # <<>> /\ Len(s) > 0 /\ Len(s) \in Nat
      BY <2>1, CatalogNumbers
    <3>2. t = Tail(s)
      BY <2>1
    <3>3. /\ Tail(s) \in Seq(Lists) /\ Len(Tail(s)) = Len(s) - 1
          /\ \A i \in 1..Len(Tail(s)) : Tail(s)[i] = s[i + 1]
      BY <3>1
    <3>4. \A i \in 1..Len(Tail(s)) : i + 1 \in DOMAIN s
      BY <3>1, <3>3
    <3> QED
      BY <2>1, <3>1, <3>2, <3>3, <3>4
  <2>2. CASE Len(s) # CacheSize
    <3>1. t = s /\ Len(s) \in Nat /\ DOMAIN s = 1..Len(s)
      BY <2>2
    <3>2. Len(s) < CacheSize
      <4>1. \A n, m \in Nat : n <= m /\ n # m => n < m
        OBVIOUS
      <4> QED
        BY <2>2, <3>1, <4>1, CatalogNumbers, Zenon
    <3> QED
      BY <3>1, <3>2
  <2> QED
    BY <2>1, <2>2
<1> HIDE DEF t
<1>2. /\ Append(t, x) \in Seq(Lists) /\ Len(Append(t, x)) = Len(t) + 1
      /\ \A i \in 1..Len(t) : Append(t, x)[i] = t[i]
      /\ Append(t, x)[Len(t) + 1] = x
  BY <1>1
<1>3. Len(Append(t, x)) <= CacheSize
  BY <1>1, <1>2, CatalogNumbers
<1>4. \A i \in DOMAIN Append(t, x) : i \in 1..Len(t) \/ i = Len(t) + 1
  BY <1>1, <1>2
<1>5. KeepsLatest(s, x, Append(t, x))
  BY <1>1, <1>2, <1>3, <1>4 DEF KeepsLatest
<1> QED
  BY <1>5 DEF t

\* A load ends: its list is shown, and kept if it is complete.
LEMMA EndLoadIsSound ==
    ASSUME CatalogIInv, load.stage # "none", NEW phase \in {"ready", "error"}, NEW list \in Lists,
           list.key = load.list.key, phase = "ready" => IsWhole(list), EndLoad(phase, list),
           UNCHANGED <<servedRoot, inventory, catalogRoot, catalogEra, catalogQuery,
                       debouncedQuery, catalogSwitched, catalogActs>>
    PROVE  CatalogIInv'
<1>t. /\ IndexTyped /\ HookTyped /\ ListsTyped /\ CacheInv /\ CatalogTyped
      /\ list.key = Key /\ \A i \in DOMAIN completed : completed[i].key # Key
  BY DEF CatalogIInv, CatalogTyped, LoadInv, LoadIsCurrent
<1>i. IndexTyped' /\ HookTyped'
  BY <1>t DEF IndexTyped, HookTyped
<1>k. Key' = Key
  BY DEF Key
<1>1. catalog' = [phase |-> phase, list |-> list] /\ load' = NoLoad
  BY DEF EndLoad
<1>2. load' \in Loads /\ load'.stage = "none" /\ catalog'.phase = phase /\ catalog'.list = list
  BY <1>t, <1>1, NoLoadType
<1>3. completed' \in Seq(Lists) /\ Len(completed') <= CacheSize /\ CacheInv'
  <2>1. CASE phase # "ready"
    <3>1. completed' = completed
      BY <2>1 DEF EndLoad
    <3> QED
      BY <1>t, <3>1 DEF ListsTyped, CacheInv
  <2>2. CASE phase = "ready"
    <3>1. completed' = Remember(list)
      BY <2>2 DEF EndLoad
    <3>2. {i \in DOMAIN completed : completed[i].key = list.key} = {}
      BY <1>t
    <3>3. completed' = Append(IF Len(completed) = CacheSize THEN Tail(completed) ELSE completed,
                              list)
      BY <3>1, <3>2 DEF Remember
    <3>4. KeepsLatest(completed, list, completed')
      BY <1>t, <3>3, LatestAreKept DEF ListsTyped
    <3> QED
      BY <1>t, <2>2, <3>4 DEF KeepsLatest, CacheInv
  <2> QED
    BY <2>1, <2>2
<1>4. ListsTyped'
  BY <1>1, <1>2, <1>3 DEF ListsTyped, Phases
<1>5. ShownListInv' /\ PhaseInv'
  <2>1. phase = "ready" => IsWhole(catalog.list)'
    BY <1>2 DEF IsWhole
  <2> QED
    BY <1>t, <1>k, <1>2, <2>1 DEF ShownListInv, PhaseInv
<1>6. LoadInv'
  BY <1>2 DEF LoadInv, LoadIsCurrent, LoadIsWitnessed, LoadIsComplete, AnswerInv
<1> QED
  BY <1>i, <1>3, <1>4, <1>5, <1>6 DEF CatalogIInv, CatalogTyped

\* A page is added to the list.
LEMMA PageIsAdded ==
    ASSUME NEW S \in SUBSET Operations, NEW P \in SUBSET Operations, NEW n \in Nat, n < MaxPages,
           Cardinality(S) <= CatalogPage * n, Cardinality(P) <= CatalogPage
    PROVE  /\ S \cup P \in SUBSET Operations
           /\ Cardinality(S \cup P) <= CatalogPage * (n + 1)
           /\ Cardinality(S \cup P) <= CatalogPage * MaxPages
<1>1. /\ IsFiniteSet(S) /\ IsFiniteSet(P) /\ Cardinality(S) \in Nat /\ Cardinality(P) \in Nat
      /\ Cardinality(S \cap P) \in Nat /\ Cardinality(S \cup P) \in Nat
  BY SubsetsAreFinite
<1>2. Cardinality(S \cup P) = Cardinality(S) + Cardinality(P) - Cardinality(S \cap P)
  BY <1>1, FS_Union
<1>3. CatalogPage \in Nat /\ MaxPages \in Nat /\ n + 1 \in Nat /\ n + 1 <= MaxPages
  BY CatalogNumbers
<1>4. CatalogPage * n \in Nat /\ CatalogPage * (n + 1) = CatalogPage * n + CatalogPage
  BY <1>3
<1>5. CatalogPage * (n + 1) <= CatalogPage * MaxPages
  <2>1. PICK k \in Nat : MaxPages = (n + 1) + k
    <3>1. MaxPages - (n + 1) \in Nat /\ MaxPages = (n + 1) + (MaxPages - (n + 1))
      BY <1>3
    <3> QED
      BY <3>1
  <2>2. CatalogPage * MaxPages = CatalogPage * (n + 1) + CatalogPage * k
    BY <1>3, <2>1
  <2>3. CatalogPage * k \in Nat /\ CatalogPage * (n + 1) \in Nat
    BY <1>3, <2>1
  <2> QED
    BY <2>2, <2>3
<1>6. Cardinality(S \cup P) <= CatalogPage * (n + 1)
  <2>1. \A s, p, c, u, a, b \in Nat : s <= a /\ p <= b /\ u = s + p - c => u <= a + b
    OBVIOUS
  <2> QED
    BY <1>1, <1>2, <1>3, <1>4, <2>1
<1>7. Cardinality(S \cup P) <= CatalogPage * MaxPages
  <2>1. CatalogPage * (n + 1) \in Nat /\ CatalogPage * MaxPages \in Nat
    BY <1>3
  <2> QED
    BY <1>1, <1>5, <1>6, <2>1
<1> QED
  BY <1>6, <1>7

LEMMA TakePageIsSound == CatalogIInv /\ TakePage => CatalogIInv'
<1> SUFFICES ASSUME CatalogIInv, TakePage PROVE CatalogIInv'
  OBVIOUS
<1> DEFINE page == load.answer
           list == [load.list EXCEPT !.items = @ \cup page.items]
<1>t. /\ IndexTyped /\ HookTyped /\ ListsTyped /\ CacheInv /\ LoadIsCurrent /\ LoadIsWitnessed
      /\ LoadIsComplete /\ AnswerInv
  BY DEF CatalogIInv, CatalogTyped, LoadInv
<1>s. load.stage \in {"answered", "failed"} /\ load.stage # "none"
  BY DEF TakePage
<1>u. UNCHANGED <<servedRoot, inventory, catalogRoot, catalogEra, catalogQuery, debouncedQuery,
                  catalogSwitched, catalogActs>>
  BY DEF TakePage
<1>l. /\ load.list \in Lists /\ load.cursor \in Cursors /\ load.visited \in SUBSET Operations
      /\ load.pages \in 0..MaxPages /\ load.answer \in Answers
  BY <1>t DEF ListsTyped, Loads
<1>p. page.items \in SUBSET Operations /\ page.total \in Nat /\ page.next \in Cursors
  BY <1>l DEF Answers
<1>o. /\ load.list.key \in Keys /\ load.list.items \in SUBSET Operations
      /\ load.list.steady \in SUBSET Operations /\ load.list.ever \in SUBSET Operations
      /\ load.list.last \in SUBSET Operations
  BY <1>l DEF Lists
<1>w. /\ list \in Lists /\ list.key = load.list.key
      /\ list.items = load.list.items \cup page.items /\ list.steady = load.list.steady
      /\ list.ever = load.list.ever /\ list.last = load.list.last
  <2> HIDE DEF page
  <2>1. load.list.items \cup page.items \in SUBSET Operations
    BY <1>p, <1>o DEF page
  <2> QED
    BY <1>l, <2>1 DEF Lists
<1>c. load.pages \in Nat /\ load.pages < MaxPages
  BY <1>t, <1>s, <1>l, CatalogNumbers DEF LoadIsComplete
<1> HIDE DEF page, list
<1>e. \/ EndLoad("error", load.list)
      \/ EndLoad("error", list)
      \/ /\ load.stage = "answered" /\ page.next = NoCursor
         /\ ~StoppedEarly(list.items, page.total) /\ EndLoad("ready", list)
      \/ /\ load.stage = "answered" /\ page.next # NoCursor /\ load.pages + 1 # MaxPages
         /\ catalog' = [phase |-> "loading", list |-> list]
         /\ load' = [load EXCEPT !.stage = "asked", !.list = list, !.cursor = page.next,
                                 !.visited = @ \cup {page.next}, !.pages = @ + 1,
                                 !.answer = NoAnswer]
         /\ completed' = completed
  BY DEF TakePage, page, list
<1>1. ASSUME EndLoad("error", load.list) PROVE CatalogIInv'
  BY <1>1, <1>s, <1>u, <1>l, EndLoadIsSound
<1>2. ASSUME EndLoad("error", list) PROVE CatalogIInv'
  BY <1>2, <1>s, <1>u, <1>w, EndLoadIsSound
<1>a. ASSUME load.stage = "answered"
      PROVE  /\ list.items \subseteq list.ever
             /\ Cardinality(list.items) <= CatalogPage * (load.pages + 1)
             /\ Cardinality(list.items) <= CatalogPage * MaxPages
             /\ page.total = Cardinality(list.last)
  <2>1. load.list.items \subseteq load.list.ever /\ page.items \subseteq load.list.ever
    BY <1>a, <1>t, <1>s DEF LoadIsComplete, AnswerInv, page
  <2>2. /\ Cardinality(load.list.items) <= CatalogPage * load.pages
        /\ Cardinality(page.items) <= CatalogPage /\ page.total = Cardinality(load.list.last)
    BY <1>a, <1>t, <1>s DEF LoadIsComplete, AnswerInv, page
  <2>3. /\ Cardinality(load.list.items \cup page.items) <= CatalogPage * (load.pages + 1)
        /\ Cardinality(load.list.items \cup page.items) <= CatalogPage * MaxPages
    BY <1>o, <1>p, <1>c, <2>2, PageIsAdded
  <2> QED
    BY <1>w, <2>1, <2>2, <2>3
<1>3. ASSUME load.stage = "answered", page.next = NoCursor,
             ~StoppedEarly(list.items, page.total), EndLoad("ready", list)
      PROVE  CatalogIInv'
  <2>1. list.steady \subseteq list.items
    <3> SUFFICES ASSUME NEW o \in load.list.steady
                 PROVE  o \in load.list.items \/ o \in page.items
      BY <1>w
    <3>1. o \in Nat /\ (load.cursor \in Nat \/ load.cursor = 0 - 1)
      BY <1>o, <1>l, CatalogNumbers DEF Cursors
    <3>2. o <= load.cursor \/ o > load.cursor
      BY <3>1
    <3>3. o <= load.cursor => o \in load.list.items
      BY <1>t, <1>s DEF LoadIsComplete
    <3>4. o > load.cursor => o \in page.items
      BY <1>t, <1>3 DEF AnswerInv, page
    <3> QED
      BY <3>2, <3>3, <3>4
  <2>2. Cardinality(list.last \ list.items) <= Cardinality(list.items \ list.last)
    <3>1. list.items \in SUBSET Operations /\ list.last \in SUBSET Operations
      BY <1>w, <1>o, <1>p
    <3>2. Cardinality(list.items) \in Nat /\ Cardinality(list.last) \in Nat
      BY <3>1, SubsetsAreFinite
    <3>3. Cardinality(list.items) >= Cardinality(list.last)
      BY <1>3, <1>a, <3>2 DEF StoppedEarly
    <3> QED
      BY <3>1, <3>3, LargerHasMoreOfItsOwn
  <2>3. IsWhole(list)
    BY <1>a, <1>3, <2>1, <2>2 DEF IsWhole
  <2> QED
    BY <1>3, <1>s, <1>u, <1>w, <2>3, EndLoadIsSound
<1>4. ASSUME load.stage = "answered", page.next # NoCursor, load.pages + 1 # MaxPages,
             catalog' = [phase |-> "loading", list |-> list],
             load' = [load EXCEPT !.stage = "asked", !.list = list, !.cursor = page.next,
                                  !.visited = @ \cup {page.next}, !.pages = @ + 1,
                                  !.answer = NoAnswer],
             completed' = completed
      PROVE  CatalogIInv'
  <2>1. page.next \in Operations
    BY <1>p, <1>4 DEF Cursors
  <2>2. load.pages + 1 \in 0..MaxPages /\ load.pages + 1 < MaxPages
    BY <1>c, <1>4, CatalogNumbers
  <2>3. NoAnswer \in Answers
    BY CatalogNumbers DEF NoAnswer, Answers, Cursors
  <2>4. /\ load' \in Loads /\ load'.stage = "asked" /\ load'.list = list
        /\ load'.cursor = page.next /\ load'.pages = load.pages + 1
    <3>1. load \in Loads /\ load.visited \cup {page.next} \in SUBSET Operations
      BY <1>t, <1>l, <2>1 DEF ListsTyped
    <3>2. page.next \in Cursors /\ "asked" \in Stages
      BY <2>1 DEF Cursors, Stages
    <3> QED
      BY <1>4, <1>w, <2>2, <2>3, <3>1, <3>2 DEF Loads
  <2>5. catalog'.phase = "loading" /\ catalog' \in [phase : Phases, list : Lists]
    BY <1>4, <1>w DEF Phases
  <2>6. IndexTyped' /\ HookTyped' /\ ListsTyped' /\ CacheInv'
    BY <1>t, <1>u, <1>4, <2>4, <2>5 DEF IndexTyped, HookTyped, ListsTyped, CacheInv
  <2>7. ShownListInv' /\ PhaseInv'
    BY <2>4, <2>5 DEF ShownListInv, PhaseInv
  <2>8. LoadIsCurrent'
    <3>1. Key' = Key
      BY <1>u DEF Key
    <3> QED
      BY <1>t, <1>s, <1>w, <1>4, <2>4, <3>1 DEF LoadIsCurrent
  <2>9. LoadIsWitnessed'
    BY <1>t, <1>s, <1>u, <1>w, <2>4 DEF LoadIsWitnessed, Found
  <2>10. LoadIsComplete'
    <3>1. ASSUME NEW o \in load.list.steady, o <= page.next
          PROVE  o \in load.list.items \/ o \in page.items
      <4>1. o \in Nat /\ page.next \in Nat /\ (load.cursor \in Nat \/ load.cursor = 0 - 1)
        BY <1>o, <1>l, <2>1, CatalogNumbers DEF Cursors
      <4>2. o <= load.cursor \/ o > load.cursor
        BY <4>1
      <4>3. o <= load.cursor => o \in load.list.items
        BY <1>t, <1>s DEF LoadIsComplete
      <4>4. o > load.cursor => o \in page.items \/ o > page.next
        BY <1>t, <1>4 DEF AnswerInv, page
      <4>5. ~(o > page.next)
        BY <3>1, <4>1
      <4> QED
        BY <4>2, <4>3, <4>4, <4>5
    <3>2. \A o \in load'.list.steady : o <= load'.cursor => o \in load'.list.items
      BY <1>w, <2>4, <3>1
    <3> QED
      BY <1>4, <1>a, <2>2, <2>4, <3>2 DEF LoadIsComplete
  <2>11. AnswerInv'
    BY <2>4 DEF AnswerInv
  <2> QED
    BY <2>6, <2>7, <2>8, <2>9, <2>10, <2>11 DEF CatalogIInv, CatalogTyped, LoadInv
<1> QED
  BY <1>e, <1>1, <1>2, <1>3, <1>4

\* A load whose answer fails, or comes, changes nothing that the list says.
LEMMA StageChangeIsSound ==
    ASSUME CatalogIInv, NEW stage \in {"answered", "failed"}, load.stage # "none",
           load' = [load EXCEPT !.stage = stage],
           stage = "answered" => load.stage = "served",
           UNCHANGED <<servedRoot, inventory, catalogRoot, catalogEra, catalogQuery,
                       debouncedQuery, catalog, completed, catalogSwitched, catalogActs>>
    PROVE  CatalogIInv'
<1>t. /\ IndexTyped /\ HookTyped /\ ListsTyped /\ CacheInv /\ ShownListInv /\ PhaseInv
      /\ LoadIsCurrent /\ LoadIsWitnessed /\ LoadIsComplete /\ AnswerInv
  BY DEF CatalogIInv, CatalogTyped, LoadInv
<1>1. load \in Loads /\ stage \in Stages
  BY <1>t DEF ListsTyped, Stages
<1>2. /\ load' \in Loads /\ load'.stage = stage /\ load'.list = load.list
      /\ load'.cursor = load.cursor /\ load'.pages = load.pages /\ load'.answer = load.answer
  BY <1>1 DEF Loads
<1>3. IndexTyped' /\ HookTyped' /\ ListsTyped' /\ CacheInv'
  BY <1>t, <1>2 DEF IndexTyped, HookTyped, ListsTyped, CacheInv
<1>k. Key' = Key
  BY DEF Key
<1>4. ShownListInv' /\ PhaseInv'
  BY <1>t, <1>k, <1>2 DEF ShownListInv, PhaseInv, IsWhole
<1>5. LoadIsCurrent' /\ LoadIsWitnessed' /\ LoadIsComplete'
  BY <1>t, <1>k, <1>2 DEF LoadIsCurrent, LoadIsWitnessed, LoadIsComplete, Found
<1>6. AnswerInv'
  BY <1>t, <1>2 DEF AnswerInv
<1> QED
  BY <1>3, <1>4, <1>5, <1>6 DEF CatalogIInv, CatalogTyped, LoadInv

LEMMA EndPageIsSound == CatalogIInv /\ EndPage => CatalogIInv'
<1> SUFFICES ASSUME CatalogIInv, EndPage PROVE CatalogIInv'
  OBVIOUS
<1>1. /\ load.stage = "served"
      /\ \E stage \in {"answered", "failed"} : load' = [load EXCEPT !.stage = stage]
      /\ UNCHANGED <<servedRoot, inventory, catalogRoot, catalogEra, catalogQuery,
                     debouncedQuery, catalog, completed, catalogSwitched, catalogActs>>
  BY DEF EndPage
<1>2. PICK stage \in {"answered", "failed"} : load' = [load EXCEPT !.stage = stage]
  BY <1>1
<1> QED
  BY <1>1, <1>2, StageChangeIsSound

LEMMA ServePageIsSound == CatalogIInv /\ ServePage => CatalogIInv'
<1> SUFFICES ASSUME CatalogIInv, ServePage PROVE CatalogIInv'
  OBVIOUS
<1> DEFINE found == Found(load.list.key.query)
           rest == {o \in found : o > load.cursor}
           page == FirstOf(rest)
           last == IF page = rest THEN NoCursor ELSE Max(page)
           answer == [items |-> page, total |-> Cardinality(found), next |-> last]
<1>t. /\ IndexTyped /\ HookTyped /\ ListsTyped /\ CacheInv /\ ShownListInv /\ PhaseInv
      /\ LoadIsCurrent /\ LoadIsWitnessed /\ LoadIsComplete /\ AnswerInv
  BY DEF CatalogIInv, CatalogTyped, LoadInv
<1>s. load.stage = "asked"
  BY DEF ServePage
<1>u. UNCHANGED <<servedRoot, inventory, catalogRoot, catalogEra, catalogQuery, debouncedQuery,
                  catalog, completed, catalogSwitched, catalogActs>>
  BY DEF ServePage
<1>l. load \in Loads /\ load.list \in Lists /\ load.cursor \in Cursors
  BY <1>t DEF ListsTyped, Loads
<1>f. found \in SUBSET Operations
  BY <1>t, FoundType DEF IndexTyped, Found
<1> HIDE DEF found
<1>r. rest \in SUBSET Operations /\ rest \in SUBSET found
  BY <1>f
<1>e. \/ load' = [load EXCEPT !.stage = "failed"]
      \/ /\ load.list.key.root = servedRoot
         /\ load' = [load EXCEPT !.stage = "served", !.list.last = found, !.answer = answer]
  BY DEF ServePage, found
<1>1. ASSUME load' = [load EXCEPT !.stage = "failed"] PROVE CatalogIInv'
  BY <1>1, <1>s, <1>u, StageChangeIsSound
<1>2. ASSUME load.list.key.root = servedRoot,
             load' = [load EXCEPT !.stage = "served", !.list.last = found, !.answer = answer]
      PROVE  CatalogIInv'
  <2>0. \E p : p = FirstOf(rest)
    OBVIOUS
  <2>1. /\ page \in SUBSET rest /\ Cardinality(page) <= CatalogPage
        /\ page # rest => /\ Max(page) \in page
                          /\ \A o \in rest : o <= Max(page) => o \in page
    <3> HIDE DEF rest
    <3> QED
      BY <1>r, PageIsFirst
  <2> HIDE DEF page
  <2>2. last \in Cursors /\ (page # rest => last \in Operations /\ last = Max(page))
    <3> HIDE DEF rest
    <3> QED
      BY <1>r, <2>1 DEF Cursors
  <2>3. page \in SUBSET Operations /\ page \in SUBSET found
    <3> HIDE DEF rest
    <3> QED
      BY <1>r, <2>1
  <2>4. Cardinality(found) \in Nat
    BY <1>f, SubsetsAreFinite
  <2>n. page = rest => last = NoCursor
    OBVIOUS
  <2> HIDE DEF last
  <2>5. answer \in Answers /\ answer.items = page /\ answer.next = last
        /\ answer.total = Cardinality(found)
    BY <2>2, <2>3, <2>4 DEF Answers
  <2> HIDE DEF answer
  <2> DEFINE list == [load.list EXCEPT !.last = found]
  <2>6. /\ list \in Lists /\ list.key = load.list.key /\ list.items = load.list.items
        /\ list.steady = load.list.steady /\ list.ever = load.list.ever /\ list.last = found
    BY <1>l, <1>f DEF Lists
  <2>7. load' = [load EXCEPT !.stage = "served", !.list = list, !.answer = answer]
    BY <1>2, <1>l DEF Loads
  <2> HIDE DEF list
  <2>8. /\ load' \in Loads /\ load'.stage = "served" /\ load'.list = list
        /\ load'.cursor = load.cursor /\ load'.pages = load.pages /\ load'.answer = answer
    <3>1. "served" \in Stages
      BY DEF Stages
    <3> QED
      BY <1>l, <2>5, <2>6, <2>7, <3>1 DEF Loads
  <2>9. IndexTyped' /\ HookTyped' /\ ListsTyped' /\ CacheInv'
    BY <1>t, <1>u, <2>8 DEF IndexTyped, HookTyped, ListsTyped, CacheInv
  <2>k. Key' = Key
    BY <1>u DEF Key
  <2>10. ShownListInv' /\ PhaseInv'
    BY <1>t, <1>s, <1>u, <2>k, <2>8 DEF ShownListInv, PhaseInv, IsWhole
  <2>11. LoadIsCurrent' /\ LoadIsWitnessed' /\ LoadIsComplete'
    <3>1. LoadIsCurrent'
      BY <1>t, <1>s, <1>u, <2>k, <2>6, <2>8 DEF LoadIsCurrent
    <3>2. LoadIsWitnessed'
      BY <1>t, <1>s, <1>u, <2>6, <2>8 DEF LoadIsWitnessed, Found
    <3>3. LoadIsComplete'
      BY <1>t, <1>s, <2>6, <2>8 DEF LoadIsComplete
    <3> QED
      BY <3>1, <3>2, <3>3
  <2>12. AnswerInv'
    <3>1. load.list.steady \subseteq found /\ found \subseteq load.list.ever
      BY <1>t, <1>s, <1>2 DEF LoadIsWitnessed, found
    <3>2. ASSUME NEW o \in load.list.steady, o > load.cursor
          PROVE  o \in page \/ (last # NoCursor /\ o > last)
      <4>1. o \in rest
        BY <3>1, <3>2
      <4>2. CASE page = rest
        BY <4>1, <4>2
      <4>3. CASE page # rest
        <5>1. last \in Nat /\ last # NoCursor /\ o \in Nat
          <6>1. o \in Operations
            BY <1>f, <3>1
          <6>2. last \in Operations
            BY <2>2, <4>3
          <6> QED
            BY <6>1, <6>2, CatalogNumbers
        <5>2. o <= last \/ o > last
          BY <5>1
        <5>3. o <= last => o \in page
          BY <2>1, <2>2, <4>1, <4>3
        <5> QED
          BY <5>1, <5>2, <5>3
      <4> QED
        BY <4>2, <4>3
    <3>3. page \subseteq load.list.ever
      BY <2>3, <3>1
    <3> HIDE DEF rest
    <3> QED
      BY <2>1, <2>5, <2>6, <2>8, <3>2, <3>3 DEF AnswerInv
  <2> QED
    BY <2>9, <2>10, <2>11, <2>12 DEF CatalogIInv, CatalogTyped, LoadInv
<1> QED
  BY <1>e, <1>1, <1>2

\* The index changes, or another one is open, while a load is under way.
LEMMA WitnessedIsSound ==
    ASSUME CatalogIInv, IndexTyped', HookTyped', load' = Witnessed(servedRoot', inventory'),
           UNCHANGED <<catalogRoot, catalogEra, debouncedQuery, catalog, completed>>
    PROVE  CatalogIInv'
<1> DEFINE found == FoundIn(inventory', load.list.key.query)
<1>t. /\ ListsTyped /\ CacheInv /\ ShownListInv /\ PhaseInv
      /\ LoadIsCurrent /\ LoadIsWitnessed /\ LoadIsComplete /\ AnswerInv
  BY DEF CatalogIInv, CatalogTyped, LoadInv
<1>l. load \in Loads /\ load.list \in Lists
  BY <1>t DEF ListsTyped, Loads
<1>k. Key' = Key
  BY DEF Key
<1>c. CacheInv' /\ (ShownListInv')
  BY <1>t, <1>k DEF CacheInv, ShownListInv, IsWhole
<1>f. found \in SUBSET Operations
  BY FoundType DEF IndexTyped
<1>1. ASSUME load' = load, load.stage = "none" \/ load.list.key.root # servedRoot'
      PROVE  CatalogIInv'
  <2>1. ListsTyped' /\ PhaseInv'
    BY <1>t, <1>1 DEF ListsTyped, PhaseInv
  <2>2. LoadIsCurrent' /\ LoadIsComplete' /\ AnswerInv'
    BY <1>t, <1>k, <1>1 DEF LoadIsCurrent, LoadIsComplete, AnswerInv
  <2>3. LoadIsWitnessed'
    BY <1>1 DEF LoadIsWitnessed
  <2> QED
    BY <1>c, <2>1, <2>2, <2>3 DEF CatalogIInv, CatalogTyped, LoadInv
<1>2. ASSUME load.stage # "none",
             load' = [load EXCEPT !.list.steady = @ \cap found, !.list.ever = @ \cup found]
      PROVE  CatalogIInv'
  <2> HIDE DEF found
  <2> DEFINE list == [load.list EXCEPT !.steady = @ \cap found, !.ever = @ \cup found]
  <2>1. /\ list \in Lists /\ list.key = load.list.key /\ list.items = load.list.items
        /\ list.steady = load.list.steady \cap found /\ list.last = load.list.last
        /\ list.ever = load.list.ever \cup found
    BY <1>l, <1>f DEF Lists
  <2>2. load' = [load EXCEPT !.list = list]
    BY <1>2, <1>l DEF Loads, Lists
  <2> HIDE DEF list
  <2>3. /\ load' \in Loads /\ load'.stage = load.stage /\ load'.list = list
        /\ load'.cursor = load.cursor /\ load'.pages = load.pages /\ load'.answer = load.answer
    BY <1>l, <2>1, <2>2 DEF Loads
  <2>4. ListsTyped' /\ PhaseInv'
    BY <1>t, <2>3 DEF ListsTyped, PhaseInv
  <2>5. LoadIsCurrent'
    BY <1>t, <1>k, <2>1, <2>3 DEF LoadIsCurrent
  <2>6. LoadIsWitnessed'
    <3>1. Found(load.list.key.query)' = found
      <4>1. load.list.key' = load.list.key
        BY <2>1, <2>3
      <4> QED
        BY <4>1 DEF Found, found
    <3> QED
      BY <2>1, <2>3, <3>1 DEF LoadIsWitnessed
  <2>7. LoadIsComplete'
    BY <1>t, <1>2, <2>1, <2>3 DEF LoadIsComplete
  <2>8. AnswerInv'
    BY <1>t, <2>1, <2>3 DEF AnswerInv
  <2> QED
    BY <1>c, <2>4, <2>5, <2>6, <2>7, <2>8 DEF CatalogIInv, CatalogTyped, LoadInv
<1> QED
  BY <1>1, <1>2 DEF Witnessed

LEMMA CatalogStep == CatalogIInv /\ [CatalogNext]_catalogVars => CatalogIInv'
<1> SUFFICES ASSUME CatalogIInv, [CatalogNext]_catalogVars PROVE CatalogIInv'
  OBVIOUS
<1>t. /\ IndexTyped /\ HookTyped /\ ListsTyped /\ Key \in Keys
      /\ AllOperations \in CatalogQueries
  BY KeyType DEF CatalogIInv, CatalogTyped, CatalogQueries
<1>a. CatalogActs => catalogActs' \in 0..MaxCatalogActs
  BY <1>t, CatalogNumbers DEF CatalogActs, HookTyped
<1>1. ASSUME NEW q \in CatalogQueries, TypeCatalogQuery(q) PROVE CatalogIInv'
  <2>1. UNCHANGED <<servedRoot, inventory, catalogRoot, catalogEra, debouncedQuery, catalog,
                    load, completed, catalogSwitched>>
        /\ catalogQuery' = q /\ catalogActs' \in 0..MaxCatalogActs
    BY <1>1, <1>a DEF TypeCatalogQuery
  <2>2. Key' = Key
    BY <2>1 DEF Key
  <2>3. IndexTyped' /\ HookTyped' /\ ListsTyped'
    BY <1>t, <2>1 DEF IndexTyped, HookTyped, ListsTyped
  <2>4. ShownListInv' /\ CacheInv' /\ PhaseInv'
    BY <2>1, <2>2 DEF CatalogIInv, ShownListInv, CacheInv, PhaseInv, IsWhole
  <2>5. LoadInv'
    BY <2>1, <2>2 DEF CatalogIInv, LoadInv, LoadIsCurrent, LoadIsWitnessed, LoadIsComplete,
                      AnswerInv, Found
  <2> QED
    BY <2>3, <2>4, <2>5 DEF CatalogIInv, CatalogTyped
<1>2. ASSUME DebounceCatalog PROVE CatalogIInv'
  <2> DEFINE key == [Key EXCEPT !.query = catalogQuery]
  <2>1. /\ UNCHANGED <<servedRoot, inventory, completed>> /\ debouncedQuery' = catalogQuery
        /\ UNCHANGED <<catalogRoot, catalogEra, catalogQuery, catalogSwitched, catalogActs>>
        /\ LoadCatalog(key, FoundIn(inventory, catalogQuery))
    BY <1>2 DEF DebounceCatalog, Found
  <2>2. HookTyped'
    BY <1>t, <2>1 DEF HookTyped
  <2>3. key \in Keys /\ key.query = catalogQuery
    BY <1>t DEF HookTyped, Keys
  <2>4. Key' = key
    BY <1>t, <2>1 DEF Key
  <2> HIDE DEF key
  <2> QED
    BY <2>1, <2>2, <2>3, <2>4, LoadCatalogIsSound
<1>3. ASSUME RetryCatalog PROVE CatalogIInv'
  <2>1. /\ UNCHANGED <<servedRoot, inventory, completed>> /\ catalogActs' \in 0..MaxCatalogActs
        /\ UNCHANGED <<catalogRoot, catalogEra, catalogQuery, debouncedQuery, catalogSwitched>>
        /\ LoadCatalog(Key, FoundIn(inventory, Key.query))
    BY <1>3, <1>a DEF RetryCatalog, Found, Key
  <2>2. HookTyped'
    BY <1>t, <2>1 DEF HookTyped
  <2>3. Key' = Key
    BY <2>1 DEF Key
  <2> QED
    BY <1>t, <2>1, <2>2, <2>3, LoadCatalogIsSound
<1>4. ASSUME ReturnToCatalog PROVE CatalogIInv'
  <2> DEFINE key == [Key EXCEPT !.query = AllOperations]
  <2>1. /\ UNCHANGED <<servedRoot, inventory, completed>> /\ debouncedQuery' = AllOperations
        /\ UNCHANGED <<catalogRoot, catalogEra, catalogSwitched>>
        /\ catalogQuery' = AllOperations /\ catalogActs' \in 0..MaxCatalogActs
        /\ LoadCatalog(key, FoundIn(inventory, AllOperations))
    BY <1>4, <1>a DEF ReturnToCatalog, Found
  <2>2. HookTyped'
    BY <1>t, <2>1 DEF HookTyped
  <2>3. key \in Keys /\ key.query = AllOperations
    BY <1>t DEF Keys
  <2>4. Key' = key
    BY <1>t, <2>1 DEF Key
  <2> HIDE DEF key
  <2> QED
    BY <2>1, <2>2, <2>3, <2>4, LoadCatalogIsSound
<1>5. ASSUME NEW operations \in SUBSET Operations, ChangeInventory(operations) PROVE CatalogIInv'
  <2>1. /\ inventory' = operations /\ catalogActs' \in 0..MaxCatalogActs
        /\ load' = Witnessed(servedRoot, operations)
        /\ UNCHANGED <<servedRoot, catalogRoot, catalogEra, catalogQuery, debouncedQuery,
                       catalog, completed, catalogSwitched>>
    BY <1>5, <1>a DEF ChangeInventory
  <2>2. IndexTyped' /\ HookTyped'
    BY <1>t, <2>1 DEF IndexTyped, HookTyped
  <2>3. load' = Witnessed(servedRoot', inventory')
    BY <2>1
  <2> QED
    BY <2>1, <2>2, <2>3, WitnessedIsSound
<1>6. ASSUME NEW w \in CatalogRoots, NEW operations \in Scanned, OpenCatalogRoot(w, operations)
      PROVE  CatalogIInv'
  <2>1. /\ servedRoot' = w /\ inventory' = operations /\ catalogActs' \in 0..MaxCatalogActs
        /\ load' = Witnessed(w, operations) /\ catalogSwitched' = TRUE
        /\ UNCHANGED <<catalogRoot, catalogEra, catalogQuery, debouncedQuery, catalog, completed>>
    BY <1>6, <1>a DEF OpenCatalogRoot
  <2>2. operations \in SUBSET Operations
    BY ApiCatalogAssumption
  <2>3. IndexTyped' /\ HookTyped'
    BY <1>t, <2>1, <2>2 DEF IndexTyped, HookTyped
  <2>4. load' = Witnessed(servedRoot', inventory')
    BY <2>1
  <2> QED
    BY <2>1, <2>3, <2>4, WitnessedIsSound
<1>7. ASSUME AdoptCatalog PROVE CatalogIInv'
  <2> DEFINE key == [root |-> servedRoot, era |-> catalogEra + 1, query |-> debouncedQuery]
  <2>1. /\ UNCHANGED <<servedRoot, inventory, completed>> /\ catalogSwitched' = FALSE
        /\ catalogRoot' = servedRoot /\ catalogEra' = catalogEra + 1
        /\ UNCHANGED <<catalogQuery, debouncedQuery, catalogActs>>
        /\ LoadCatalog(key, FoundIn(inventory, debouncedQuery))
    BY <1>7 DEF AdoptCatalog, Found
  <2>2. HookTyped'
    <3>1. catalogRoot' \in CatalogRoots /\ catalogEra' \in Nat /\ catalogSwitched' \in BOOLEAN
      <4>1. catalogRoot' \in CatalogRoots
        BY <1>t, <2>1 DEF IndexTyped
      <4>2. catalogEra' \in Nat
        BY <1>t, <2>1 DEF HookTyped
      <4>3. catalogSwitched' \in BOOLEAN
        BY <2>1
      <4> QED
        BY <4>1, <4>2, <4>3
    <3>2. /\ catalogQuery' \in CatalogQueries /\ debouncedQuery' \in CatalogQueries
          /\ catalogActs' \in 0..MaxCatalogActs
      BY <1>t, <2>1 DEF HookTyped
    <3> QED
      BY <3>1, <3>2 DEF HookTyped
  <2>3. key \in Keys /\ key.query = debouncedQuery
    BY <1>t DEF IndexTyped, HookTyped, Keys
  <2>4. Key' = key
    BY <2>1 DEF Key
  <2> HIDE DEF key
  <2> QED
    BY <2>1, <2>2, <2>3, <2>4, LoadCatalogIsSound
<1>8. CASE UNCHANGED catalogVars
  <2>1. UNCHANGED <<servedRoot, inventory, catalogRoot, catalogEra, catalogQuery,
                    debouncedQuery, catalog, load, completed, catalogSwitched, catalogActs>>
    BY <1>8 DEF catalogVars
  <2>2. Key' = Key
    BY <2>1 DEF Key
  <2>3. IndexTyped' /\ HookTyped' /\ ListsTyped'
    BY <1>t, <2>1 DEF IndexTyped, HookTyped, ListsTyped
  <2>4. ShownListInv' /\ CacheInv' /\ PhaseInv'
    BY <2>1, <2>2 DEF CatalogIInv, ShownListInv, CacheInv, PhaseInv, IsWhole
  <2>5. LoadInv'
    BY <2>1, <2>2 DEF CatalogIInv, LoadInv, LoadIsCurrent, LoadIsWitnessed, LoadIsComplete,
                      AnswerInv, Found
  <2> QED
    BY <2>3, <2>4, <2>5 DEF CatalogIInv, CatalogTyped
<1> QED
  BY <1>1, <1>2, <1>3, <1>4, <1>5, <1>6, <1>7, <1>8, TakePageIsSound, ServePageIsSound,
     EndPageIsSound DEF CatalogNext

\* useApiCatalog.ts and list_api_endpoints: whatever workspaces, queries, pages, caches
\* and changes of the index there are, a list shown as complete is of the open workspace
\* and its query, holds every operation that was there while it was read and none that
\* never was, and misses no more of its last page's index than it shows ones that are gone.
THEOREM CatalogHolds == (CatalogInit /\ [][CatalogNext]_catalogVars) => []CatalogInv
<1>1. CatalogIInv /\ [CatalogNext]_catalogVars => CatalogIInv'
  BY CatalogStep
<1> QED
  BY <1>1, CatalogStarts, CatalogIInvImplies, PTL

--------------------------------------------------------------------------------
(* Communities.                                                            *)

\* What a step never touches, and what a vote may do.
TiesTyped == ties \subseteq {e \in SUBSET Members : Cardinality(e) = 2}
LabelsTyped == label \in [Members -> Members]

AllVotes == UNION {Votes(n) : n \in Members}

LEMMA MembersAreNumbers ==
    /\ Members \subseteq Nat /\ Members # {} /\ IsFiniteSet(Members)
    /\ MaxRounds \in Nat /\ MaxRounds > 0
BY CommunitiesAssumption

\* Nobody is a neighbor of itself, and neighbors are so of each other.
LEMMA NeighborsMeet ==
    ASSUME TiesTyped, NEW n \in Members
    PROVE  /\ Neighbors(n) \in SUBSET Members /\ IsFiniteSet(Neighbors(n)) /\ n \notin Neighbors(n)
           /\ \A m \in Neighbors(n) : n \in Neighbors(m)
<1>1. Neighbors(n) \in SUBSET Members
  BY DEF Neighbors
<1>2. n \notin Neighbors(n)
  <2>1. {n, n} = {n} /\ Cardinality({n}) = 1
    BY FS_Singleton
  <2> DEFINE e == {n, n}
  <2>2. e \notin ties
    <3>1. Cardinality(e) = 1
      BY <2>1
    <3> HIDE DEF e
    <3>2. e \in ties => Cardinality(e) = 2
      BY DEF TiesTyped
    <3> QED
      BY <3>1, <3>2
  <2> QED
    BY <2>2 DEF Neighbors
<1>3. \A m \in Neighbors(n) : n \in Neighbors(m)
  <2>1. \A m : {n, m} = {m, n}
    OBVIOUS
  <2> QED
    BY <2>1 DEF Neighbors
<1> QED
  BY <1>1, <1>2, <1>3, MembersAreNumbers, FS_Subset

\* A vote is cast along an edge, on grounds that are the same from both its ends.
LEMMA VotesAreAlongEdges ==
    /\ \A n, v : v \in Votes(n) <=> \E m \in Neighbors(n) : \E t \in Grounds(n, m) : v = <<n, m, t>>
    /\ \A v : v \in AllVotes <=> \E n \in Members : v \in Votes(n)
    /\ \A n, m : Grounds(n, m) = Grounds(m, n)
    /\ \A n, m : {n, m} \in Grounds(n, m)
<1>1. \A n, v : v \in Votes(n) <=> \E m \in Neighbors(n) : \E t \in Grounds(n, m) : v = <<n, m, t>>
  BY DEF Votes
<1>2. \A v : v \in AllVotes <=> \E n \in Members : v \in Votes(n)
  BY DEF AllVotes
<1>3. ASSUME NEW n, NEW m PROVE Grounds(n, m) = Grounds(m, n) /\ {n, m} \in Grounds(n, m)
  <2> DEFINE shared == Neighbors(n) \cap Neighbors(m)
  <2>1. Neighbors(m) \cap Neighbors(n) = shared
    OBVIOUS
  <2> HIDE DEF shared
  <2>2. Grounds(n, m) = {{n, m}} \cup {{n, m, k} : k \in shared}
    <3>1. {n, m, m} = {n, m}
      OBVIOUS
    <3>2. Grounds(n, m) = {{n, m, k} : k \in {m} \cup shared}
      BY DEF Grounds, shared
    <3> QED
      BY <3>1, <3>2
  <2>3. Grounds(m, n) = {{n, m}} \cup {{n, m, k} : k \in shared}
    <3>1. {m, n, n} = {n, m} /\ \A k : {m, n, k} = {n, m, k}
      OBVIOUS
    <3>2. Grounds(m, n) = {{m, n, k} : k \in {n} \cup shared}
      BY <2>1 DEF Grounds
    <3> QED
      BY <3>1, <3>2
  <2> QED
    BY <2>2, <2>3
<1> QED
  BY <1>1, <1>2, <1>3

LEMMA VotesAreFinite ==
    ASSUME TiesTyped
    PROVE  IsFiniteSet(AllVotes) /\ \A n \in Members : IsFiniteSet(Votes(n))
<1> DEFINE Trios == Members \X Members \X SUBSET Members
           Pairs == (Members \X Members) \X SUBSET Members
           f == [p \in Pairs |-> <<p[1][1], p[1][2], p[2]>>]
<1>1. IsFiniteSet(Pairs)
  BY MembersAreNumbers, FS_Product, FS_SUBSET
<1>2. f \in Surjection(Pairs, Trios)
  <2>1. f \in [Pairs -> Trios]
    OBVIOUS
  <2>2. ASSUME NEW v \in Trios PROVE \E p \in Pairs : f[p] = v
    <3>1. PICK n \in Members, m \in Members, t \in SUBSET Members : v = <<n, m, t>>
      OBVIOUS
    <3>2. <<<<n, m>>, t>> \in Pairs /\ f[<<<<n, m>>, t>>] = v
      BY <3>1
    <3> QED
      BY <3>2
  <2> QED
    BY <2>1, <2>2 DEF Surjection
<1>3. IsFiniteSet(Trios)
  BY <1>1, <1>2, FS_Surjection
<1>4. AllVotes \in SUBSET Trios
  <2>1. SUFFICES ASSUME NEW n \in Members, NEW m \in Neighbors(n), NEW t \in Grounds(n, m)
                 PROVE  <<n, m, t>> \in Trios
    BY VotesAreAlongEdges
  <2>2. m \in Members
    BY NeighborsMeet
  <2>3. t \in SUBSET Members
    BY <2>2 DEF Grounds, Neighbors
  <2> QED
    BY <2>2, <2>3
<1> HIDE DEF Trios
<1>5. IsFiniteSet(AllVotes)
  BY <1>3, <1>4, FS_Subset
<1>6. \A n \in Members : Votes(n) \in SUBSET AllVotes
  BY VotesAreAlongEdges
<1> QED
  BY <1>5, <1>6, FS_Subset

\* Votes that face each other are as many.
LEMMA ReversedAreAsMany ==
    ASSUME NEW A, NEW B, IsFiniteSet(A), A \subseteq AllVotes, B \subseteq AllVotes,
           \A n, m, t : <<n, m, t>> \in A <=> <<m, n, t>> \in B
    PROVE  Cardinality(B) = Cardinality(A)
<1> DEFINE f == [v \in A |-> <<v[2], v[1], v[3]>>]
<1>1. \A v \in A \cup B : v = <<v[1], v[2], v[3]>>
  <2>1. \A n, m, t, v : v = <<n, m, t>> => v = <<v[1], v[2], v[3]>>
    OBVIOUS
  <2> QED
    BY <2>1, VotesAreAlongEdges
<1>2. f \in [A -> B]
  <2>1. \A v \in A : <<v[2], v[1], v[3]>> \in B
    BY <1>1
  <2> QED
    BY <2>1
<1>3. \A v, w \in A : f[v] = f[w] => v = w
  <2>1. SUFFICES ASSUME NEW v \in A, NEW w \in A, f[v] = f[w] PROVE v = w
    OBVIOUS
  <2>2. v[1] = w[1] /\ v[2] = w[2] /\ v[3] = w[3]
    BY <2>1
  <2> QED
    BY <1>1, <2>2
<1>4. ASSUME NEW v \in B PROVE \E w \in A : f[w] = v
  <2> DEFINE w == <<v[2], v[1], v[3]>>
  <2>1. v = <<v[1], v[2], v[3]>>
    BY <1>1
  <2>2. w \in A
    BY <2>1
  <2>3. f[w] = <<v[1], v[2], v[3]>>
    BY <2>2
  <2> QED
    BY <2>1, <2>2, <2>3
<1> HIDE DEF f
<1>5. f \in Bijection(A, B)
  BY <1>2, <1>3, <1>4 DEF Bijection, Injection, IsInjective, Surjection
<1>6. ExistsBijection(A, B)
  BY <1>5 DEF ExistsBijection
<1> QED
  BY <1>6, FS_Bijection

\* The agreement is that among the others and, from both ends, that of one node.
Among(n, given) == {v \in AllVotes : v[1] # n /\ v[2] # n /\ given[v[1]] = given[v[2]]}
From(n, given, l) == {v \in Votes(n) : given[v[2]] = l}

LEMMA AgreementHasParts ==
    ASSUME TiesTyped, NEW n \in Members, NEW given
    PROVE  /\ Cardinality({v \in AllVotes : given[v[1]] = given[v[2]]}) =
                Cardinality(Among(n, given)) + 2 * Cardinality(From(n, given, given[n]))
           /\ Cardinality(Among(n, given)) \in Nat
<1> DEFINE all == {v \in AllVotes : given[v[1]] = given[v[2]]}
           among == Among(n, given)
           out == From(n, given, given[n])
           in == {v \in AllVotes : v[2] = n /\ given[v[1]] = given[n]}
<1>1. ASSUME NEW v \in AllVotes
      PROVE  \E p \in Members : \E m \in Neighbors(p) : \E t \in Grounds(p, m) :
               v = <<p, m, t>> /\ p # m
  <2>1. PICK p \in Members : v \in Votes(p)
    BY VotesAreAlongEdges
  <2>2. p \notin Neighbors(p)
    BY NeighborsMeet
  <2> QED
    BY <2>1, <2>2, VotesAreAlongEdges
<1>2. \A v : v \in Votes(n) <=> v \in AllVotes /\ v[1] = n
  <2>1. \A v \in Votes(n) : v \in AllVotes /\ v[1] = n
    BY VotesAreAlongEdges
  <2>2. ASSUME NEW v \in AllVotes, v[1] = n PROVE v \in Votes(n)
    <3>1. PICK p \in Members : v \in Votes(p)
      BY VotesAreAlongEdges
    <3>2. PICK m \in Neighbors(p) : \E t \in Grounds(p, m) : v = <<p, m, t>>
      BY <3>1, VotesAreAlongEdges
    <3>3. p = n
      BY <2>2, <3>2
    <3> QED
      BY <3>1, <3>3
  <2> QED
    BY <2>1, <2>2
<1>3. /\ out = {v \in AllVotes : v[1] = n /\ given[v[2]] = given[n]}
      /\ among = {v \in AllVotes : v[1] # n /\ v[2] # n /\ given[v[1]] = given[v[2]]}
  BY <1>2 DEF From, Among
<1>4. \A v \in AllVotes : v[1] # v[2]
  BY <1>1
<1> HIDE DEF out, among
<1>f. /\ IsFiniteSet(all) /\ IsFiniteSet(among) /\ IsFiniteSet(out) /\ IsFiniteSet(in)
      /\ Cardinality(among) \in Nat /\ Cardinality(out) \in Nat /\ Cardinality(in) \in Nat
  <2>1. /\ all \in SUBSET AllVotes /\ among \in SUBSET AllVotes /\ out \in SUBSET AllVotes
        /\ in \in SUBSET AllVotes
    BY <1>3
  <2> QED
    BY <2>1, VotesAreFinite, FS_Subset, FS_CardinalityType
<1>5. all = among \cup (out \cup in) /\ out \cap in = {} /\ among \cap (out \cup in) = {}
  BY <1>3, <1>4
<1>6. Cardinality(in) = Cardinality(out)
  <2>1. ASSUME NEW p, NEW m, NEW t PROVE <<p, m, t>> \in out <=> <<m, p, t>> \in in
    <3>1. <<p, m, t>> \in AllVotes <=> <<m, p, t>> \in AllVotes
      <4>1. ASSUME NEW a, NEW b, <<a, b, t>> \in AllVotes PROVE <<b, a, t>> \in AllVotes
        <5>1. a \in Members /\ b \in Neighbors(a) /\ t \in Grounds(a, b)
          BY <4>1, VotesAreAlongEdges
        <5>2. b \in Members /\ a \in Neighbors(b) /\ t \in Grounds(b, a)
          BY <5>1, NeighborsMeet, VotesAreAlongEdges
        <5> QED
          BY <5>2, VotesAreAlongEdges
      <4> QED
        BY <4>1
    <3>2. /\ <<p, m, t>>[1] = p /\ <<p, m, t>>[2] = m
          /\ <<m, p, t>>[1] = m /\ <<m, p, t>>[2] = p
      OBVIOUS
    <3>3. <<p, m, t>> \in out <=> <<p, m, t>> \in AllVotes /\ p = n /\ given[m] = given[n]
      BY <1>3, <3>2
    <3>4. <<m, p, t>> \in in <=> <<m, p, t>> \in AllVotes /\ p = n /\ given[m] = given[n]
      BY <3>2
    <3> QED
      BY <3>1, <3>3, <3>4
  <2>2. out \subseteq AllVotes /\ in \subseteq AllVotes
    BY <1>3
  <2> HIDE DEF in
  <2> QED
    BY <1>f, <2>1, <2>2, ReversedAreAsMany
<1> HIDE DEF in, all
<1>7. Cardinality(out \cup in) = Cardinality(out) + Cardinality(in)
      /\ IsFiniteSet(out \cup in) /\ Cardinality(out \cup in) \in Nat
  <2>1. Cardinality(out \cap in) = 0
    BY <1>5, FS_EmptySet
  <2>2. /\ IsFiniteSet(out \cup in)
        /\ Cardinality(out \cup in) = Cardinality(out) + Cardinality(in) - Cardinality(out \cap in)
    BY <1>f, FS_Union
  <2> QED
    BY <1>f, <2>1, <2>2
<1>8. Cardinality(all) = Cardinality(among) + Cardinality(out \cup in)
  <2>1. Cardinality(among \cap (out \cup in)) = 0
    BY <1>5, FS_EmptySet
  <2>2. Cardinality(among \cup (out \cup in)) =
          Cardinality(among) + Cardinality(out \cup in) - Cardinality(among \cap (out \cup in))
    BY <1>f, <1>7, FS_Union
  <2> QED
    BY <1>f, <1>5, <1>7, <2>1, <2>2
<1>9. Cardinality(all) = Cardinality(among) + 2 * Cardinality(out)
  BY <1>f, <1>6, <1>7, <1>8
<1> QED
  BY <1>f, <1>9 DEF all, among, out

--------------------------------------------------------------------------------
(* The winner of a vote.                                                    *)

LEMMA ScoresAreNumbers ==
    ASSUME TiesTyped, NEW n \in Members
    PROVE  \A l : Score(n, l) \in Nat /\ (l \notin Voted(n) => Score(n, l) = 0)
                  /\ (l \in Voted(n) => Score(n, l) > 0)
<1> TAKE l
<1> DEFINE given == {v \in Votes(n) : label[v[2]] = l}
<1>1. IsFiniteSet(given) /\ Cardinality(given) \in Nat
  <2>1. given \in SUBSET Votes(n)
    OBVIOUS
  <2> QED
    BY <2>1, VotesAreFinite, FS_Subset, FS_CardinalityType
<1>2. l \notin Voted(n) => given = {}
  <2>1. \A v \in Votes(n) : v[2] \in Neighbors(n)
    BY VotesAreAlongEdges
  <2> QED
    BY <2>1 DEF Voted
<1>3. l \in Voted(n) => given # {}
  <2>1. ASSUME NEW m \in Neighbors(n), label[m] = l PROVE given # {}
    <3>1. <<n, m, {n, m}>> \in Votes(n)
      BY VotesAreAlongEdges
    <3>2. <<n, m, {n, m}>>[2] = m
      OBVIOUS
    <3> QED
      BY <2>1, <3>1, <3>2
  <2> QED
    BY <2>1 DEF Voted
<1> HIDE DEF given
<1>4. Cardinality(given) = 0 <=> given = {}
  BY <1>1, FS_EmptySet
<1>5. Cardinality(given) = 0 \/ Cardinality(given) > 0
  BY <1>1
<1>6. Score(n, l) = Cardinality(given)
  BY DEF Score, given
<1> QED
  BY <1>1, <1>2, <1>3, <1>4, <1>5, <1>6

IsBest(n, l) == l \in Voted(n) /\ \A k \in Voted(n) : Beats(n, l, k)

\* A node that has neighbors has one best label, its winner.
LEMMA WinnerIsBest ==
    ASSUME TiesTyped, LabelsTyped, NEW n \in Members, Neighbors(n) # {}
    PROVE  /\ Voted(n) \in SUBSET Members
           /\ IsBest(n, Winner(n))
           /\ \A l : IsBest(n, l) => l = Winner(n)
<1>v. Voted(n) \in SUBSET Members /\ Voted(n) # {}
  BY NeighborsMeet DEF Voted, LabelsTyped
<1>n. /\ Voted(n) \in SUBSET Nat /\ IsFiniteSet(Voted(n))
      /\ \A l \in Voted(n) : Score(n, l) \in Nat
  <2>1. \A l \in Voted(n) : Score(n, l) \in Nat
    BY ScoresAreNumbers
  <2> QED
    BY <1>v, <2>1, MembersAreNumbers, FS_Subset
<1> DEFINE scores == [l \in Voted(n) |-> Score(n, l)]
           reached == {scores[l] : l \in Voted(n)}
<1>1. reached \in SUBSET Nat /\ reached # {} /\ IsFiniteSet(reached)
  <2>1. reached \in SUBSET Nat /\ reached # {}
    BY <1>v, <1>n
  <2>2. scores \in Surjection(Voted(n), reached)
    BY DEF Surjection
  <2> HIDE DEF reached, scores
  <2> QED
    BY <1>n, <2>1, <2>2, FS_Surjection
<1>2. PICK top \in reached : \A x \in reached : x <= top
  <2> HIDE DEF reached
  <2> QED
    BY <1>1, FiniteMaximum
<1> DEFINE tops == {l \in Voted(n) : Score(n, l) = top}
<1>3. PICK best \in tops : \A k \in tops : best <= k
  <2>1. tops \in SUBSET Nat /\ tops # {}
    BY <1>n, <1>2
  <2> HIDE DEF tops
  <2> QED
    BY <2>1, NatMinimum
<1>4. IsBest(n, best)
  <2>1. best \in Voted(n) /\ Score(n, best) = top /\ top \in Nat
    BY <1>1, <1>3
  <2>2. ASSUME NEW k \in Voted(n) PROVE Beats(n, best, k)
    <3>1. Score(n, k) \in Nat /\ Score(n, k) <= top
      BY <1>n, <1>2
    <3>2. Score(n, k) = top => best <= k
      BY <1>3
    <3>3. Score(n, k) = top \/ top > Score(n, k)
      BY <2>1, <3>1
    <3> QED
      BY <2>1, <3>2, <3>3 DEF Beats
  <2> QED
    BY <2>1, <2>2 DEF IsBest
<1>5. IsBest(n, Winner(n))
  BY <1>4 DEF Winner, IsBest
<1>6. ASSUME NEW l, NEW k, IsBest(n, l), IsBest(n, k) PROVE l = k
  <2>1. /\ l \in Nat /\ k \in Nat /\ Score(n, l) \in Nat /\ Score(n, k) \in Nat
        /\ Beats(n, l, k) /\ Beats(n, k, l)
    BY <1>6, <1>n DEF IsBest
  <2> QED
    BY <2>1 DEF Beats
<1> QED
  BY <1>v, <1>5, <1>6

LEMMA LeastVoter ==
    ASSUME NEW voting \in SUBSET Members, voting # {}
    PROVE  Min(voting) \in voting
<1>1. PICK x \in voting : \A y \in voting : x <= y
  BY MembersAreNumbers, NatMinimum
<1> QED
  BY <1>1 DEF Min

--------------------------------------------------------------------------------
(* The inductive invariant of the communities.                              *)

RoundTyped ==
    /\ voters \subseteq Members /\ changed \in BOOLEAN /\ settled \in BOOLEAN
    /\ round \in 1..MaxRounds

\* In a round that changed nothing, who has voted agrees with its vote.
VotersAgree ==
    ~changed => \A n \in Members \ voters : Neighbors(n) # {} => IsBest(n, label[n])
SettledInv == settled => voters = {} /\ ~changed

\* No edge leaves the set.
IsApart(s) == \A e \in ties : e \subseteq s \/ e \cap s = {}
LabelsStay == \A s \in SUBSET Members : IsApart(s) => \A n \in s : label[n] \in s

CommunityIInv ==
    /\ TiesTyped /\ LabelsTyped /\ RoundTyped
    /\ VotersAgree /\ SettledInv /\ LabelsStay

LEMMA CommunityIInvImplies == CommunityIInv => CommunityInv
<1> SUFFICES ASSUME CommunityIInv PROVE CommunityInv
  OBVIOUS
<1>1. CommunityTypeOK
  BY DEF CommunityIInv, TiesTyped, LabelsTyped, RoundTyped, CommunityTypeOK
<1>2. ASSUME settled, NEW n \in Members, Neighbors(n) # {} PROVE label[n] = Winner(n)
  <2>1. IsBest(n, label[n])
    BY <1>2 DEF CommunityIInv, SettledInv, VotersAgree
  <2> QED
    BY <1>2, <2>1, WinnerIsBest DEF CommunityIInv
<1>3. \A s \in SUBSET Members :
        (\A e \in ties : e \subseteq s \/ e \cap s = {}) => \A n \in s : label[n] \in s
  BY DEF CommunityIInv, LabelsStay, IsApart
<1> QED
  BY <1>1, <1>2, <1>3 DEF CommunityInv, CommunitiesSettle

LEMMA CommunityStarts == CommunityInit => CommunityIInv
<1> SUFFICES ASSUME CommunityInit PROVE CommunityIInv
  OBVIOUS
<1>1. TiesTyped /\ LabelsTyped
  BY DEF CommunityInit, TiesTyped, LabelsTyped
<1>2. RoundTyped
  <2>1. round \in 1..MaxRounds
    BY MembersAreNumbers DEF CommunityInit
  <2>2. voters \subseteq Members /\ changed \in BOOLEAN /\ settled \in BOOLEAN
    BY DEF CommunityInit
  <2> QED
    BY <2>1, <2>2 DEF RoundTyped
<1>3. VotersAgree /\ SettledInv
  BY DEF CommunityInit, VotersAgree, SettledInv
<1>4. LabelsStay
  BY DEF CommunityInit, LabelsStay
<1> QED
  BY <1>1, <1>2, <1>3, <1>4 DEF CommunityIInv

\* What a vote does: a node without neighbors keeps its label, another takes its winner.
Takes(n, l) ==
    /\ n \in voters /\ n \in Members /\ l \in Members /\ voters' = voters \ {n}
    /\ label' = [label EXCEPT ![n] = l] /\ changed' = (changed \/ l # label[n])
    /\ ties' = ties /\ round' = round /\ settled' = settled
    /\ l = label[n] \/ (Neighbors(n) # {} /\ IsBest(n, l))
    /\ Neighbors(n) # {} => IsBest(n, l)

LEMMA VoteTakes ==
    ASSUME CommunityIInv, Vote PROVE \E n \in Members : \E l \in Members : Takes(n, l)
<1> DEFINE n == Min(voters)
           l == IF Neighbors(n) = {} THEN label[n] ELSE Winner(n)
<1>1. n \in voters /\ n \in Members
  BY LeastVoter DEF CommunityIInv, RoundTyped, Vote
<1>2. /\ voters' = voters \ {n} /\ label' = [label EXCEPT ![n] = l]
      /\ changed' = (changed \/ l # label[n])
      /\ ties' = ties /\ round' = round /\ settled' = settled
  BY DEF Vote
<1> HIDE DEF n
<1>3. CASE Neighbors(n) = {}
  <2>1. l = label[n] /\ l \in Members
    BY <1>1, <1>3 DEF CommunityIInv, LabelsTyped
  <2> HIDE DEF l
  <2> QED
    BY <1>1, <1>2, <1>3, <2>1 DEF Takes
<1>4. CASE Neighbors(n) # {}
  <2>1. l = Winner(n)
    BY <1>4
  <2>2. IsBest(n, l) /\ l \in Members
    BY <1>1, <1>4, <2>1, WinnerIsBest DEF CommunityIInv, IsBest
  <2> HIDE DEF l
  <2> QED
    BY <1>1, <1>2, <1>4, <2>2 DEF Takes
<1> QED
  BY <1>3, <1>4

\* What a node votes depends on the edges and the labels.
LEMMA BestIsKept ==
    ASSUME ties' = ties, label' = label, NEW n, NEW l
    PROVE  IsBest(n, l)' <=> IsBest(n, l)
<1>1. Neighbors(n)' = Neighbors(n)
  BY DEF Neighbors
<1>2. Voted(n)' = Voted(n)
  BY <1>1 DEF Voted
<1>3. Votes(n)' = Votes(n)
  BY DEF Votes, Grounds, Neighbors
<1>4. \A k : Score(n, k)' = Score(n, k)
  BY <1>3 DEF Score
<1> QED
  BY <1>2, <1>4 DEF IsBest, Beats

LEMMA CommunityStep == CommunityIInv /\ [CommunityNext]_communityVars => CommunityIInv'
<1> SUFFICES ASSUME CommunityIInv, [CommunityNext]_communityVars PROVE CommunityIInv'
  OBVIOUS
<1>t. TiesTyped /\ LabelsTyped /\ RoundTyped /\ VotersAgree /\ SettledInv /\ LabelsStay
  BY DEF CommunityIInv
<1>1. ASSUME NEW n \in Members, NEW l \in Members, Takes(n, l) PROVE CommunityIInv'
  <2>u. /\ n \in voters /\ voters' = voters \ {n} /\ label' = [label EXCEPT ![n] = l]
        /\ changed' = (changed \/ l # label[n]) /\ ties' = ties /\ round' = round
        /\ settled' = settled /\ (l = label[n] \/ (Neighbors(n) # {} /\ IsBest(n, l)))
        /\ (Neighbors(n) # {} => IsBest(n, l))
    BY <1>1 DEF Takes
  <2>1. TiesTyped' /\ LabelsTyped'
    BY <1>t, <2>u DEF TiesTyped, LabelsTyped
  <2>2. RoundTyped'
    <3>1. changed' \in BOOLEAN
      BY <2>u
    <3> QED
      BY <1>t, <2>u, <3>1 DEF RoundTyped
  <2>3. VotersAgree'
    <3>1. SUFFICES ASSUME ~changed', NEW m \in Members, m \notin voters', Neighbors(m)' # {}
                   PROVE  IsBest(m, label[m])'
      BY DEF VotersAgree
    <3>2. ~changed /\ l = label[n]
      BY <2>u, <3>1
    <3>3. label' = label
      BY <1>t, <2>u, <3>2 DEF LabelsTyped
    <3>4. Neighbors(m) # {}
      BY <2>u, <3>1 DEF Neighbors
    <3>5. IsBest(m, label[m])
      BY <1>t, <2>u, <3>1, <3>2, <3>4 DEF VotersAgree
    <3>6. IsBest(m, label[m])' <=> IsBest(m, label[m])
      BY <2>u, <3>3, BestIsKept
    <3> QED
      BY <3>5, <3>6
  <2>4. SettledInv'
    BY <1>t, <2>u DEF SettledInv
  <2>5. LabelsStay'
    <3>1. SUFFICES ASSUME NEW s \in SUBSET Members, IsApart(s)', NEW m \in s
                   PROVE  label'[m] \in s
      BY DEF LabelsStay
    <3>2. IsApart(s)
      BY <2>u, <3>1 DEF IsApart
    <3>3. label[m] \in s /\ \A p \in s : label[p] \in s
      BY <1>t, <3>2 DEF LabelsStay
    <3>4. m # n => label'[m] = label[m]
      BY <1>t, <2>u DEF LabelsTyped
    <3>5. ASSUME m = n PROVE label'[m] \in s
      <4>1. label'[m] = l
        BY <1>t, <2>u, <3>5 DEF LabelsTyped
      <4>2. ASSUME IsBest(n, l) PROVE l \in s
        <5>1. PICK p \in Neighbors(n) : l = label[p]
          BY <4>2 DEF IsBest, Voted
        <5>2. {n, p} \in ties
          BY <5>1 DEF Neighbors
        <5>3. p \in s
          BY <3>2, <3>5, <5>2 DEF IsApart
        <5> QED
          BY <3>3, <5>1, <5>3
      <4> QED
        BY <2>u, <3>3, <3>5, <4>1, <4>2
    <3> QED
      BY <3>3, <3>4, <3>5
  <2> QED
    BY <2>1, <2>2, <2>3, <2>4, <2>5 DEF CommunityIInv
<1>2. ASSUME EndRound PROVE CommunityIInv'
  <2>1. ties' = ties /\ label' = label /\ voters = {}
    BY <1>2 DEF EndRound
  <2>2. TiesTyped' /\ LabelsTyped' /\ LabelsStay'
    BY <1>t, <2>1 DEF TiesTyped, LabelsTyped, LabelsStay, IsApart
  <2>3. RoundTyped'
    <3>1. round' \in 1..MaxRounds
      BY <1>2, <1>t, MembersAreNumbers DEF EndRound, RoundTyped
    <3>2. voters' \subseteq Members /\ changed' \in BOOLEAN /\ settled' \in BOOLEAN
      BY <1>2, <1>t DEF EndRound, RoundTyped
    <3> QED
      BY <3>1, <3>2 DEF RoundTyped
  <2>4. CASE ~changed /\ settled' = TRUE /\ UNCHANGED <<voters, changed, round>>
    <3>1. VotersAgree'
      <4>1. ASSUME NEW n \in Members, Neighbors(n)' # {} PROVE IsBest(n, label[n])'
        <5>1. Neighbors(n) # {}
          BY <2>1, <4>1 DEF Neighbors
        <5>2. IsBest(n, label[n])
          BY <1>t, <2>1, <2>4, <5>1 DEF VotersAgree
        <5>3. IsBest(n, label[n])' <=> IsBest(n, label[n])
          BY <2>1, BestIsKept
        <5> QED
          BY <5>2, <5>3
      <4> QED
        BY <4>1 DEF VotersAgree
    <3>2. SettledInv'
      BY <2>1, <2>4 DEF SettledInv
    <3> QED
      BY <2>2, <2>3, <3>1, <3>2 DEF CommunityIInv
  <2>5. CASE voters' = Members /\ changed' = FALSE /\ settled' = settled /\ ~settled
    <3>1. VotersAgree' /\ SettledInv'
      BY <2>5 DEF VotersAgree, SettledInv
    <3> QED
      BY <2>2, <2>3, <3>1 DEF CommunityIInv
  <2> QED
    BY <1>2, <2>4, <2>5 DEF EndRound
<1>3. CASE UNCHANGED communityVars
  <2>1. /\ ties' = ties /\ label' = label /\ voters' = voters /\ changed' = changed
        /\ round' = round /\ settled' = settled
    BY <1>3 DEF communityVars
  <2>2. TiesTyped' /\ LabelsTyped' /\ RoundTyped' /\ SettledInv' /\ LabelsStay'
    BY <1>t, <2>1 DEF TiesTyped, LabelsTyped, RoundTyped, SettledInv, LabelsStay, IsApart
  <2>3. VotersAgree'
    <3>1. \A n : Neighbors(n)' = Neighbors(n)
      BY <2>1 DEF Neighbors
    <3>2. \A n : IsBest(n, label[n])' <=> IsBest(n, label[n])
      <4> TAKE n
      <4>1. IsBest(n, label[n])' <=> IsBest(n, label[n])
        BY <2>1, BestIsKept
      <4> QED
        BY <4>1
    <3> QED
      BY <1>t, <2>1, <3>1, <3>2 DEF VotersAgree
  <2> QED
    BY <2>2, <2>3 DEF CommunityIInv
<1> QED
  BY <1>1, <1>2, <1>3, VoteTakes DEF CommunityNext

\* annotate_structural_communities: whatever the graph and the number of rounds, when the
\* labels are settled every node agrees with its vote, and no community joins nodes that
\* no edges connect.
THEOREM CommunitiesHold == (CommunityInit /\ [][CommunityNext]_communityVars) => []CommunityInv
<1>1. CommunityIInv /\ [CommunityNext]_communityVars => CommunityIInv'
  BY CommunityStep
<1> QED
  BY <1>1, CommunityStarts, CommunityIInvImplies, PTL

\* A vote that changes a label makes the agreement grow, or the label smaller.
LEMMA TakingImproves ==
    ASSUME CommunityIInv, NEW n \in Members, NEW l \in Members, Takes(n, l), label' # label
    PROVE  \/ Agreement' > Agreement
           \/ Agreement' = Agreement /\ \A m \in Members : label'[m] <= label[m]
<1> DEFINE old == label[n]
<1>t. TiesTyped /\ LabelsTyped
  BY DEF CommunityIInv
<1>u. ties' = ties /\ label' = [label EXCEPT ![n] = l]
  BY DEF Takes
<1>1. /\ label'[n] = l /\ \A m \in Members \ {n} : label'[m] = label[m]
      /\ old \in Members
  BY <1>t, <1>u DEF LabelsTyped
<1>2. l # old
  <2>1. SUFFICES ASSUME l = old PROVE FALSE
    OBVIOUS
  <2>2. label' = label
    BY <1>t, <1>u, <2>1 DEF LabelsTyped
  <2> QED
    BY <2>2
<1>3. Neighbors(n) # {} /\ IsBest(n, l)
  BY <1>2 DEF Takes
<1>4. AllVotes' = AllVotes
  BY <1>u DEF AllVotes, Votes, Grounds, Neighbors
<1>5. \A v \in AllVotes : v[1] \in Members /\ v[2] \in Members
  <2>1. ASSUME NEW p \in Members, NEW v \in Votes(p) PROVE v[1] \in Members /\ v[2] \in Members
    <3>1. PICK m \in Neighbors(p) : \E t \in Grounds(p, m) : v = <<p, m, t>>
      BY VotesAreAlongEdges
    <3>2. v[1] = p /\ v[2] = m
      BY <3>1
    <3> QED
      BY <1>t, <3>1, <3>2, NeighborsMeet
  <2> QED
    BY <2>1, VotesAreAlongEdges
<1>6. Among(n, label') = Among(n, label)
  <2>1. \A v \in AllVotes : v[1] # n /\ v[2] # n =>
          label'[v[1]] = label[v[1]] /\ label'[v[2]] = label[v[2]]
    BY <1>1, <1>5
  <2> QED
    BY <2>1 DEF Among
<1>7. From(n, label', l) = From(n, label, l)
  <2>1. \A v \in Votes(n) : v[2] \in Members \ {n}
    BY <1>t, VotesAreAlongEdges, NeighborsMeet
  <2>2. \A v \in Votes(n) : label'[v[2]] = label[v[2]]
    BY <1>1, <2>1
  <2> QED
    BY <2>2 DEF From
<1>8. \A k : Score(n, k) = Cardinality(From(n, label, k))
  BY DEF Score, From
<1> DEFINE rest == Cardinality(Among(n, label))
<1>9. Agreement = rest + 2 * Score(n, old) /\ rest \in Nat
  <2>1. Agreement = Cardinality({v \in AllVotes : label[v[1]] = label[v[2]]})
    BY DEF Agreement, AllVotes
  <2>2. /\ Cardinality({v \in AllVotes : label[v[1]] = label[v[2]]}) =
             rest + 2 * Cardinality(From(n, label, old))
        /\ rest \in Nat
    BY <1>t, AgreementHasParts
  <2> QED
    BY <1>8, <2>1, <2>2
<1>10. Agreement' = rest + 2 * Score(n, l)
  <2>1. Agreement' = Cardinality({v \in AllVotes : label'[v[1]] = label'[v[2]]})
    <3>1. Agreement' = Cardinality({v \in AllVotes' : label'[v[1]] = label'[v[2]]})
      BY DEF Agreement, AllVotes
    <3> QED
      BY <1>4, <3>1
  <2>2. Cardinality({v \in AllVotes : label'[v[1]] = label'[v[2]]}) =
          Cardinality(Among(n, label')) + 2 * Cardinality(From(n, label', label'[n]))
    BY <1>t, AgreementHasParts
  <2> QED
    BY <1>1, <1>6, <1>7, <1>8, <2>1, <2>2
<1>11. Score(n, old) \in Nat /\ Score(n, l) \in Nat
  BY <1>t, ScoresAreNumbers
<1>12. \/ Score(n, l) > Score(n, old)
       \/ Score(n, l) = Score(n, old) /\ l <= old
  <2>1. CASE old \in Voted(n)
    BY <1>3, <2>1 DEF IsBest, Beats
  <2>2. CASE old \notin Voted(n)
    <3>1. Score(n, old) = 0 /\ Score(n, l) > 0
      BY <1>t, <1>3, <2>2, ScoresAreNumbers DEF IsBest
    <3> QED
      BY <3>1
  <2> QED
    BY <2>1, <2>2
<1> HIDE DEF rest
<1>13. CASE Score(n, l) > Score(n, old)
  <2>1. \A r, a, b \in Nat : a > b => r + 2 * a > r + 2 * b
    OBVIOUS
  <2>2. rest + 2 * Score(n, l) > rest + 2 * Score(n, old)
    BY <1>9, <1>11, <1>13, <2>1
  <2> QED
    BY <1>9, <1>10, <2>2
<1>14. CASE Score(n, l) = Score(n, old) /\ l <= old
  <2>1. \A m \in Members : label'[m] <= label[m]
    <3>1. \A m \in Members : label[m] \in Nat
      BY <1>t, MembersAreNumbers DEF LabelsTyped
    <3> QED
      BY <1>1, <1>14, <3>1
  <2> QED
    BY <1>9, <1>10, <1>14, <2>1
<1> QED
  BY <1>12, <1>13, <1>14

\* annotate_structural_communities: whatever the graph, labels do not go round in circles,
\* each change makes the communities hold more weight, or as much with a smaller label.
THEOREM CommunitiesAlwaysImprove ==
    (CommunityInit /\ [][CommunityNext]_communityVars) => CommunitiesImprove
<1> DEFINE Improves ==
      label' # label =>
        \/ Agreement' > Agreement
        \/ Agreement' = Agreement /\ \A n \in Members : label'[n] <= label[n]
<1>1. CommunityIInv /\ [CommunityNext]_communityVars => CommunityIInv'
  BY CommunityStep
<1>2. CommunityIInv /\ [CommunityNext]_communityVars => [Improves]_communityVars
  <2> SUFFICES ASSUME CommunityIInv, [CommunityNext]_communityVars, label' # label
               PROVE  Improves
    BY DEF communityVars
  <2>1. Vote
    BY DEF CommunityNext, EndRound, communityVars
  <2>2. PICK n \in Members, l \in Members : Takes(n, l)
    BY <2>1, VoteTakes
  <2> QED
    BY <2>2, TakingImproves
<1>3. []CommunityIInv /\ [][CommunityNext]_communityVars => [][Improves]_communityVars
  BY <1>2, PTL
<1> QED
  BY <1>1, <1>3, CommunityStarts, PTL DEF CommunitiesImprove

--------------------------------------------------------------------------------
(* Sets of numbers, in their order.                                        *)

\* What is below x in S; the rank of x is how many there are.
Below(S, x) == {k \in S : k < x}

LEMMA BelowGrows ==
    ASSUME NEW S \in SUBSET Nat, IsFiniteSet(S), NEW x \in S, NEW y \in Nat, x < y
    PROVE  /\ Cardinality(Below(S, x)) \in Nat /\ Cardinality(Below(S, y)) \in Nat
           /\ Cardinality(Below(S, x)) < Cardinality(Below(S, y))
<1>0. x \in Nat
  OBVIOUS
<1>1. Below(S, x) \in SUBSET Below(S, y) /\ x \in Below(S, y) /\ x \notin Below(S, x)
  <2>1. \A k \in S : k \in Nat /\ (k < x => k < y)
    BY <1>0
  <2>2. \A k : k \in Below(S, x) => k \in Below(S, y)
    BY <2>1 DEF Below
  <2>3. x \in Below(S, y) /\ x \notin Below(S, x)
    BY <1>0 DEF Below
  <2> QED
    BY <2>2, <2>3
<1>2. IsFiniteSet(Below(S, y))
  BY FS_Subset DEF Below
<1>3. /\ IsFiniteSet(Below(S, x))
      /\ Cardinality(Below(S, x)) <= Cardinality(Below(S, y))
      /\ Cardinality(Below(S, y)) = Cardinality(Below(S, x)) => Below(S, y) = Below(S, x)
  BY <1>1, <1>2, FS_Subset
<1>4. Cardinality(Below(S, x)) \in Nat /\ Cardinality(Below(S, y)) \in Nat
  BY <1>2, <1>3, FS_CardinalityType
<1> QED
  BY <1>1, <1>3, <1>4

\* Two elements of one rank are one.
LEMMA RankIsOfOne ==
    ASSUME NEW S \in SUBSET Nat, IsFiniteSet(S), NEW x \in S, NEW y \in S,
           Cardinality(Below(S, x)) = Cardinality(Below(S, y))
    PROVE  x = y
<1>0. x \in Nat /\ y \in Nat
  OBVIOUS
<1>1. CASE x < y
  <2>1. /\ Cardinality(Below(S, x)) \in Nat /\ Cardinality(Below(S, y)) \in Nat
        /\ Cardinality(Below(S, x)) < Cardinality(Below(S, y))
    BY <1>0, <1>1, BelowGrows
  <2> QED
    BY <2>1
<1>2. CASE y < x
  <2>1. /\ Cardinality(Below(S, x)) \in Nat /\ Cardinality(Below(S, y)) \in Nat
        /\ Cardinality(Below(S, y)) < Cardinality(Below(S, x))
    BY <1>0, <1>2, BelowGrows
  <2> QED
    BY <2>1
<1> QED
  BY <1>0, <1>1, <1>2

Ascending(q) == \A i, j \in 1..Len(q) : i < j => q[i] < q[j]

\* Ordered(S) is S as a sequence that ascends:
LEMMA OrderedIsOfSet ==
    ASSUME NEW S \in SUBSET Nat, IsFiniteSet(S)
    PROVE  /\ Ordered(S) \in Seq(S) /\ Len(Ordered(S)) = Cardinality(S)
           /\ Cardinality(S) \in Nat
           /\ Ascending(Ordered(S))
           /\ \A x \in S : \E i \in 1..Len(Ordered(S)) : Ordered(S)[i] = x
<1> DEFINE n == Cardinality(S)
           f == [x \in S |-> Cardinality(Below(S, x)) + 1]
<1>0. n \in Nat
  BY FS_CardinalityType
<1>1. ASSUME NEW x \in S PROVE Cardinality(Below(S, x)) \in 0..n - 1
  <2>1. Below(S, x) \in SUBSET (S \ {x})
    BY DEF Below
  <2>2. IsFiniteSet(S \ {x}) /\ Cardinality(S \ {x}) = n - 1
    BY FS_RemoveElement
  <2>3. IsFiniteSet(Below(S, x)) /\ Cardinality(Below(S, x)) <= n - 1
    BY <2>1, <2>2, FS_Subset
  <2>4. Cardinality(Below(S, x)) \in Nat
    BY <2>3, FS_CardinalityType
  <2> QED
    BY <1>0, <2>3, <2>4
<1>2. f \in [S -> 1..n]
  BY <1>0, <1>1
<1>3. f \in Injection(S, 1..n)
  <2>1. ASSUME NEW x \in S, NEW y \in S, f[x] = f[y] PROVE x = y
    <3>1. Cardinality(Below(S, x)) + 1 = Cardinality(Below(S, y)) + 1
      BY <2>1
    <3>2. Cardinality(Below(S, x)) = Cardinality(Below(S, y))
      BY <1>1, <3>1
    <3> QED
      BY <3>2, RankIsOfOne, Zenon
  <2>2. \A x, y \in S : f[x] = f[y] => x = y
    BY <2>1
  <2> HIDE DEF f
  <2> QED
    BY <1>2, <2>2 DEF Injection, IsInjective
<1>4. IsFiniteSet(1..n) /\ Cardinality(1..n) = n
  BY <1>0, FS_Interval
<1>5. f \in Surjection(S, 1..n)
  BY <1>3, <1>4, FS_Injection
<1>6. ASSUME NEW i \in 1..n
      PROVE  Ranked(S, i) \in S /\ Cardinality(Below(S, Ranked(S, i))) = i - 1
  <2>1. PICK x \in S : f[x] = i
    BY <1>5 DEF Surjection
  <2>2. Cardinality(Below(S, x)) = i - 1
    BY <1>1, <2>1
  <2>3. \E m \in S : Cardinality({k \in S : k < m}) = i - 1
    BY <2>2 DEF Below
  <2>4. Ranked(S, i) \in S /\ Cardinality({k \in S : k < Ranked(S, i)}) = i - 1
    BY <2>3, Zenon DEF Ranked
  <2> QED
    BY <2>4 DEF Below
<1>7. Ordered(S) \in [1..n -> S]
  BY <1>6 DEF Ordered
<1>8. Ordered(S) \in Seq(S) /\ Len(Ordered(S)) = n
  BY <1>0, <1>7, SeqDef
<1>9. ASSUME NEW i \in 1..n
      PROVE  Ordered(S)[i] \in S /\ Cardinality(Below(S, Ordered(S)[i])) = i - 1
  BY <1>6 DEF Ordered
<1>10. ASSUME NEW i \in 1..n, NEW j \in 1..n, i < j PROVE Ordered(S)[i] < Ordered(S)[j]
  <2> DEFINE x == Ordered(S)[i]
             y == Ordered(S)[j]
  <2>1. /\ x \in S /\ y \in S /\ Cardinality(Below(S, x)) = i - 1
        /\ Cardinality(Below(S, y)) = j - 1
    BY <1>9
  <2> HIDE DEF x, y
  <2>2. x \in Nat /\ y \in Nat
    BY <2>1
  <2>3. ~(y < x)
    <3>1. y < x => Cardinality(Below(S, y)) < Cardinality(Below(S, x))
      BY <2>1, <2>2, BelowGrows
    <3> QED
      BY <1>0, <1>10, <2>1, <3>1
  <2>4. y # x
    BY <1>10, <2>1
  <2>5. x < y
    BY <2>2, <2>3, <2>4
  <2> QED
    BY <2>5 DEF x, y
<1>11. ASSUME NEW x \in S PROVE \E i \in 1..n : Ordered(S)[i] = x
  <2>1. PICK i \in 1..n : i = f[x]
    BY <1>2
  <2>2. Ordered(S)[i] \in S /\ Cardinality(Below(S, Ordered(S)[i])) = Cardinality(Below(S, x))
    BY <1>1, <1>9, <2>1
  <2>3. PICK y : y = Ordered(S)[i]
    OBVIOUS
  <2>4. y \in S /\ Cardinality(Below(S, y)) = Cardinality(Below(S, x))
    BY <2>2, <2>3
  <2>5. y = x
    BY <2>4, RankIsOfOne, Zenon
  <2> QED
    BY <2>3, <2>5
<1> QED
  BY <1>0, <1>8, <1>10, <1>11 DEF Ascending

\* and the only one.
LEMMA OrderedIsOnly ==
    ASSUME NEW S \in SUBSET Nat, IsFiniteSet(S), NEW p \in Seq(S), Ascending(p),
           \A x \in S : \E i \in 1..Len(p) : p[i] = x
    PROVE  p = Ordered(S)
<1> DEFINE n == Len(p)
<1>0. n \in Nat /\ p \in [1..n -> S]
  BY LenProperties
<1>1. \A i, j \in 1..n : p[i] = p[j] => i = j
  <2> SUFFICES ASSUME NEW i \in 1..n, NEW j \in 1..n, p[i] = p[j] PROVE i = j
    OBVIOUS
  <2>1. p[i] \in Nat /\ p[j] \in Nat
    BY <1>0
  <2>2. (i < j => p[i] < p[j]) /\ (j < i => p[j] < p[i])
    BY DEF Ascending
  <2> QED
    BY <1>0, <2>1, <2>2
<1>2. p \in Bijection(1..n, S)
  <2>1. p \in Injection(1..n, S)
    BY <1>0, <1>1, Zenon DEF Injection, IsInjective
  <2>2. p \in Surjection(1..n, S)
    BY <1>0, Zenon DEF Surjection
  <2> QED
    BY <2>1, <2>2 DEF Bijection
<1>4. Cardinality(S) = n
  <2>1. ExistsBijection(1..n, S)
    BY <1>2 DEF ExistsBijection
  <2> QED
    BY <1>0, <2>1, FS_CountingElements
<1>5. ASSUME NEW i \in 1..n PROVE Cardinality(Below(S, p[i])) = i - 1
  <2> DEFINE g == [j \in 1..i - 1 |-> p[j]]
  <2>1. i - 1 \in Nat /\ \A j \in 1..i - 1 : j \in 1..n /\ j < i
    BY <1>0
  <2>2. g \in [1..i - 1 -> Below(S, p[i])]
    <3>1. \A j \in 1..i - 1 : p[j] \in S /\ p[j] < p[i]
      BY <1>0, <2>1 DEF Ascending
    <3> QED
      BY <3>1 DEF Below
  <2>3. ASSUME NEW y \in Below(S, p[i]) PROVE \E j \in 1..i - 1 : g[j] = y
    <3>1. y \in S /\ y < p[i] /\ y \in Nat /\ p[i] \in Nat
      BY <1>0 DEF Below
    <3>2. PICK j \in 1..n : p[j] = y
      BY <3>1
    <3>3. j # i /\ ~(i < j)
      BY <3>1, <3>2 DEF Ascending
    <3>4. j \in 1..i - 1
      BY <1>0, <3>3
    <3> QED
      BY <3>2, <3>4
  <2>4. g \in Bijection(1..i - 1, Below(S, p[i]))
    <3>1. \A j, k \in 1..i - 1 : g[j] = g[k] => j = k
      BY <1>1, <2>1
    <3> HIDE DEF g
    <3>2. g \in Injection(1..i - 1, Below(S, p[i]))
      BY <2>2, <3>1, Zenon DEF Injection, IsInjective
    <3>3. g \in Surjection(1..i - 1, Below(S, p[i]))
      BY <2>2, <2>3, Zenon DEF Surjection
    <3> QED
      BY <3>2, <3>3 DEF Bijection
  <2>5. ExistsBijection(1..i - 1, Below(S, p[i]))
    BY <2>4 DEF ExistsBijection
  <2> QED
    BY <2>1, <2>5, FS_CountingElements
<1>6. ASSUME NEW i \in 1..n PROVE Ranked(S, i) = p[i]
  <2>1. p[i] \in S /\ Cardinality({k \in S : k < p[i]}) = i - 1
    BY <1>0, <1>5 DEF Below
  <2>2. Ranked(S, i) \in S /\ Cardinality({k \in S : k < Ranked(S, i)}) = i - 1
    BY <2>1, Zenon DEF Ranked
  <2>3. PICK x, y : x = Ranked(S, i) /\ y = p[i]
    OBVIOUS
  <2>4. x \in S /\ y \in S /\ Cardinality(Below(S, x)) = Cardinality(Below(S, y))
    BY <2>1, <2>2, <2>3 DEF Below
  <2>5. x = y
    BY <2>4, RankIsOfOne, Zenon
  <2> QED
    BY <2>3, <2>5
<1> QED
  BY <1>0, <1>4, <1>6 DEF Ordered

--------------------------------------------------------------------------------
(* The links of a node.                                                    *)

FlowLinks == [node : FlowNodes, edge : FlowEdges, guess : BOOLEAN]

\* The edge of a link joins what it leads to with the node.
Joins(link, n) ==
    \/ link.edge.source = n /\ link.edge.target = link.node
    \/ link.edge.source = link.node /\ link.edge.target = n

LinksOf(links, n) ==
    links \in Seq(FlowLinks) /\ \A i \in 1..Len(links) : Joins(links[i], n)

LEMMA LimitsAreNumbers ==
    ASSUME flowLimit \in FlowLimits
    PROVE  /\ flowLimit.nodes \in Nat /\ flowLimit.nodes > 1 /\ flowLimit.page \in Nat \ {0}
           /\ flowLimit.children \in Nat \ {0} /\ flowLimit.edges \in Nat \ {0}
           /\ flowLimit.depth \in Nat /\ flowLimit.clientNodes \in Nat
           /\ flowLimit.clientEdges \in Nat /\ flowLimit.clientPages \in Nat \ {0}
           /\ PageSize \in Nat \ {0}
<1>1. flowLimit \in [nodes : Nat \ {0, 1}, page : Nat \ {0}, children : Nat \ {0},
                     depth : Nat \ {0}, edges : Nat \ {0}, expansions : Nat \ {0},
                     scanned : Nat \ {0}, clientNodes : Nat \ {0},
                     clientEdges : Nat \ {0}, clientPages : Nat \ {0}]
  BY FlowPagesAssumption
<1>2. /\ flowLimit.nodes \in Nat \ {0, 1} /\ flowLimit.page \in Nat \ {0}
      /\ flowLimit.children \in Nat \ {0} /\ flowLimit.edges \in Nat \ {0}
      /\ flowLimit.depth \in Nat /\ flowLimit.clientNodes \in Nat
      /\ flowLimit.clientEdges \in Nat /\ flowLimit.clientPages \in Nat \ {0}
  BY <1>1
<1> QED
  BY <1>2 DEF PageSize, AtMost

LEMMA RowsAre ==
    ASSUME graph \in Graphs, NEW n \in FlowNodes
    PROVE  /\ Targets(n) \subseteq FlowNodes /\ Targets(n) \in SUBSET Nat /\ IsFiniteSet(Targets(n))
           /\ Rows(n) \in Seq(Targets(n)) /\ Rows(n) \in Seq(Nat) /\ Len(Rows(n)) \in Nat
           /\ Len(Rows(n)) = Cardinality(Targets(n))
           /\ Ascending(Rows(n))
           /\ \A m \in Targets(n) : \E i \in 1..Len(Rows(n)) : Rows(n)[i] = m
<1>1. Targets(n) \in SUBSET FlowNodes /\ Targets(n) \in SUBSET Nat
  BY FlowPagesAssumption DEF Targets
<1>2. IsFiniteSet(Targets(n))
  BY <1>1, FlowPagesAssumption, FS_Subset
<1>3. PICK t : t = Targets(n)
  OBVIOUS
<1>4. /\ Ordered(t) \in Seq(t) /\ Len(Ordered(t)) = Cardinality(t)
      /\ Cardinality(t) \in Nat
      /\ Ascending(Ordered(t))
      /\ \A x \in t : \E i \in 1..Len(Ordered(t)) : Ordered(t)[i] = x
  BY <1>1, <1>2, <1>3, OrderedIsOfSet
<1>5. Ordered(t) \in Seq(Nat)
  BY <1>1, <1>3, <1>4, SeqMonotonic
<1> QED
  BY <1>1, <1>2, <1>3, <1>4, <1>5 DEF Rows

\* The clients of an index are ordered as well.
LEMMA ClientsAre ==
    ASSUME graph \in Graphs
    PROVE  /\ graph.clients \subseteq Others /\ graph.hidden \subseteq Others
           /\ Others \subseteq FlowNodes /\ Cardinality(graph.clients) \in Nat
           /\ Ordered(graph.clients) \in Seq(graph.clients)
           /\ Len(Ordered(graph.clients)) = Cardinality(graph.clients)
           /\ \A c \in graph.clients :
                \E i \in 1..Len(Ordered(graph.clients)) : Ordered(graph.clients)[i] = c
<1>1. graph.clients \subseteq Others /\ graph.hidden \subseteq Others /\ Others \subseteq FlowNodes
  BY DEF Graphs, Others
<1>2. PICK t : t = graph.clients
  OBVIOUS
<1>3. t \in SUBSET FlowNodes /\ t \in SUBSET Nat
  BY <1>1, <1>2, FlowPagesAssumption
<1>4. IsFiniteSet(t)
  BY <1>3, FlowPagesAssumption, FS_Subset
<1>5. /\ Ordered(t) \in Seq(t) /\ Len(Ordered(t)) = Cardinality(t)
      /\ Cardinality(t) \in Nat
      /\ \A x \in t : \E i \in 1..Len(Ordered(t)) : Ordered(t)[i] = x
  BY <1>3, <1>4, OrderedIsOfSet
<1> QED
  BY <1>1, <1>2, <1>5

\* What is read of a node: those of the rows asked for that are not hidden.
Reads(n, offset, count, seen) ==
    /\ seen \in Seq(Targets(n) \ graph.hidden) /\ Len(seen) <= count
    /\ Read(n, offset, count) = [i \in 1..Len(seen) |-> CallLink(n, seen[i])]
    /\ \A i \in offset + 1..offset + count :
         Rows(n)[i] \notin graph.hidden => \E j \in 1..Len(seen) : seen[j] = Rows(n)[i]
    /\ Targets(n) \cap graph.hidden = {} =>
         Len(seen) = count /\ \A i \in 1..count : seen[i] = Rows(n)[offset + i]

LEMMA ReadIsOfRows ==
    ASSUME graph \in Graphs, NEW n \in FlowNodes, NEW offset \in Nat, NEW count \in Nat,
           count = 0 \/ offset + count <= Len(Rows(n))
    PROVE  \E seen : Reads(n, offset, count, seen)
<1> DEFINE window == {Rows(n)[i] : i \in offset + 1..offset + count}
           some == window \ graph.hidden
           seen == Ordered(some)
<1>0. \A i \in offset + 1..offset + count : i \in 1..Len(Rows(n))
  BY RowsAre
<1>1. \A i \in offset + 1..offset + count : Rows(n)[i] \in Targets(n)
  BY <1>0, RowsAre, ElementOfSeq
<1>2. window \in SUBSET Targets(n) /\ some \in SUBSET Targets(n) /\ some \in SUBSET Nat
      /\ some \subseteq Targets(n) \ graph.hidden
  <2>1. window \subseteq Targets(n)
    BY <1>1
  <2>2. Targets(n) \in SUBSET Nat
    BY RowsAre
  <2> QED
    BY <2>1, <2>2
<1>3. IsFiniteSet(window) /\ Cardinality(window) \in Nat /\ Cardinality(window) <= count
  <2>1. IsFiniteSet(window)
    BY <1>2, RowsAre, FS_Subset
  <2> DEFINE f == [i \in 1..count |-> Rows(n)[offset + i]]
  <2>2. f \in [1..count -> window]
    <3>1. \A i \in 1..count : offset + i \in offset + 1..offset + count
      OBVIOUS
    <3> QED
      BY <3>1
  <2>3. ASSUME NEW y \in window PROVE \E i \in 1..count : f[i] = y
    <3>1. PICK i \in offset + 1..offset + count : y = Rows(n)[i]
      OBVIOUS
    <3>2. i - offset \in 1..count /\ offset + (i - offset) = i
      OBVIOUS
    <3>3. f[i - offset] = y
      BY <3>1, <3>2
    <3> QED
      BY <3>2, <3>3
  <2> HIDE DEF f
  <2>4. f \in Surjection(1..count, window)
    BY <2>2, <2>3, Zenon DEF Surjection
  <2>5. ExistsSurjection(1..count, window)
    BY <2>4 DEF ExistsSurjection
  <2>6. Cardinality(window) <= count
    BY <2>5, FS_SurjCardinalityBound
  <2> QED
    BY <2>1, <2>6, FS_CardinalityType
<1>4. IsFiniteSet(some) /\ Cardinality(some) <= count /\ Cardinality(some) \in Nat
  <2>1. some \in SUBSET window
    OBVIOUS
  <2>2. IsFiniteSet(some) /\ Cardinality(some) <= Cardinality(window)
    BY <1>3, <2>1, FS_Subset
  <2>3. Cardinality(some) \in Nat
    BY <2>2, FS_CardinalityType
  <2> QED
    BY <1>3, <2>2, <2>3
<1>5. /\ seen \in Seq(some) /\ Len(seen) = Cardinality(some)
      /\ \A x \in some : \E i \in 1..Len(seen) : seen[i] = x
  <2>1. PICK t : t = some
    OBVIOUS
  <2>2. /\ Ordered(t) \in Seq(t) /\ Len(Ordered(t)) = Cardinality(t)
        /\ \A x \in t : \E i \in 1..Len(Ordered(t)) : Ordered(t)[i] = x
    BY <1>2, <1>4, <2>1, OrderedIsOfSet
  <2> QED
    BY <2>1, <2>2
<1>6. Read(n, offset, count) = [i \in 1..Len(seen) |-> CallLink(n, seen[i])]
  BY DEF Read
<1>7. \A i \in offset + 1..offset + count :
        Rows(n)[i] \notin graph.hidden => \E j \in 1..Len(seen) : seen[j] = Rows(n)[i]
  <2> SUFFICES ASSUME NEW i \in offset + 1..offset + count, Rows(n)[i] \notin graph.hidden
               PROVE  \E j \in 1..Len(seen) : seen[j] = Rows(n)[i]
    OBVIOUS
  <2>1. Rows(n)[i] \in some
    OBVIOUS
  <2> HIDE DEF some
  <2> QED
    BY <1>5, <2>1
<1>8. ASSUME Targets(n) \cap graph.hidden = {}
      PROVE  Len(seen) = count /\ \A i \in 1..count : seen[i] = Rows(n)[offset + i]
  <2> DEFINE p == [i \in 1..count |-> Rows(n)[offset + i]]
  <2>1. some = window
    BY <1>2, <1>8
  <2>2. \A i \in 1..count : offset + i \in offset + 1..offset + count
    OBVIOUS
  <2>3. p \in [1..count -> window]
    BY <2>2
  <2>4. p \in Seq(window) /\ Len(p) = count
    BY <2>3, SeqDef
  <2>5. Ascending(p)
    <3> SUFFICES ASSUME NEW i \in 1..count, NEW j \in 1..count, i < j PROVE p[i] < p[j]
      BY <2>4 DEF Ascending
    <3>1. offset + i \in 1..Len(Rows(n)) /\ offset + j \in 1..Len(Rows(n)) /\ offset + i < offset + j
      BY <1>0, <2>2
    <3> QED
      BY <3>1, RowsAre DEF Ascending
  <2>6. ASSUME NEW y \in window PROVE \E i \in 1..count : p[i] = y
    <3>1. PICK i \in offset + 1..offset + count : y = Rows(n)[i]
      OBVIOUS
    <3>2. i - offset \in 1..count /\ offset + (i - offset) = i
      OBVIOUS
    <3>3. p[i - offset] = y
      BY <3>1, <3>2
    <3> QED
      BY <3>2, <3>3
  <2>7. PICK t, q : t = window /\ q = p
    OBVIOUS
  <2>8. /\ t \in SUBSET Nat /\ IsFiniteSet(t) /\ q \in Seq(t) /\ Ascending(q)
        /\ \A x \in t : \E i \in 1..Len(q) : q[i] = x
    BY <1>2, <1>3, <2>1, <2>4, <2>5, <2>6, <2>7
  <2>9. q = Ordered(t)
    BY <2>8, OrderedIsOnly
  <2> QED
    BY <2>1, <2>4, <2>7, <2>9
<1>9. seen \in Seq(Targets(n) \ graph.hidden)
  BY <1>2, <1>5, SeqMonotonic
<1> QED
  BY <1>4, <1>5, <1>6, <1>7, <1>8, <1>9 DEF Reads

LEMMA CallLinkType ==
    ASSUME graph \in Graphs, NEW n \in FlowNodes, NEW m \in FlowNodes
    PROVE  /\ CallLink(n, m) \in FlowLinks /\ Joins(CallLink(n, m), n)
           /\ CallLink(n, m).node = m /\ CallLink(n, m).edge = CallEdge(n, m)
<1>1. CallEdge(n, m) \in FlowEdges /\ CallEdge(n, m).source = n /\ CallEdge(n, m).target = m
  BY DEF CallEdge, FlowEdges
<1>2. CallLink(n, m).node = m /\ CallLink(n, m).edge = CallEdge(n, m)
  BY DEF CallLink
<1>3. CallLink(n, m) \in FlowLinks
  BY <1>1 DEF CallLink, FlowLinks
<1> QED
  BY <1>1, <1>2, <1>3 DEF Joins

RouteLink(c, to) == [node |-> to, edge |-> RouteEdge(c), guess |-> FALSE]

LEMMA RouteLinkType ==
    ASSUME NEW c \in FlowNodes
    PROVE  /\ RouteEdge(c) \in FlowEdges /\ RouteEdge(c).source = c /\ RouteEdge(c).target = FlowRoot
           /\ RouteLink(c, c) \in FlowLinks /\ Joins(RouteLink(c, c), FlowRoot)
           /\ RouteLink(c, FlowRoot) \in FlowLinks /\ Joins(RouteLink(c, FlowRoot), c)
<1>1. /\ RouteEdge(c) \in FlowEdges /\ RouteEdge(c).source = c /\ RouteEdge(c).target = FlowRoot
  BY FlowPagesAssumption DEF RouteEdge, FlowEdges
<1>2. RouteLink(c, c) \in FlowLinks /\ RouteLink(c, FlowRoot) \in FlowLinks
  BY <1>1, FlowPagesAssumption DEF RouteLink, FlowLinks
<1>3. /\ RouteLink(c, c).node = c /\ RouteLink(c, FlowRoot).node = FlowRoot
      /\ RouteLink(c, c).edge = RouteEdge(c) /\ RouteLink(c, FlowRoot).edge = RouteEdge(c)
  BY DEF RouteLink
<1> QED
  BY <1>1, <1>2, <1>3 DEF Joins

\* What is read are links of the node.
LEMMA ReadsAreLinks ==
    ASSUME graph \in Graphs, NEW n \in FlowNodes, NEW offset \in Nat, NEW count \in Nat,
           NEW seen, Reads(n, offset, count, seen)
    PROVE  /\ LinksOf(Read(n, offset, count), n)
           /\ Len(seen) \in Nat /\ Len(Read(n, offset, count)) = Len(seen)
           /\ \A i \in 1..Len(seen) : seen[i] \in FlowNodes /\ Read(n, offset, count)[i] = CallLink(n, seen[i])
<1>1. seen \in Seq(Targets(n) \ graph.hidden) /\ Len(seen) \in Nat
  BY LenProperties DEF Reads
<1>2. \A i \in 1..Len(seen) : seen[i] \in FlowNodes
  BY <1>1, ElementOfSeq, RowsAre
<1>3. PICK links : links = Read(n, offset, count)
  OBVIOUS
<1>4. links = [i \in 1..Len(seen) |-> CallLink(n, seen[i])]
  BY <1>3 DEF Reads
<1>5. \A i \in 1..Len(seen) : links[i] = CallLink(n, seen[i]) /\ CallLink(n, seen[i]) \in FlowLinks
                              /\ Joins(CallLink(n, seen[i]), n)
  BY <1>2, <1>4, CallLinkType
<1>6. links \in [1..Len(seen) -> FlowLinks]
  BY <1>4, <1>5
<1>7. links \in Seq(FlowLinks) /\ Len(links) = Len(seen)
  BY <1>1, <1>6, SeqDef
<1>8. LinksOf(links, n)
  BY <1>5, <1>7 DEF LinksOf
<1> QED
  BY <1>1, <1>2, <1>3, <1>5, <1>7, <1>8

\* The links of a node, and when they are all there are.
Leads(links, m, e) == \E i \in 1..Len(links) : links[i].node = m /\ links[i].edge = e

LEMMA ChildLinksAre ==
    ASSUME graph \in Graphs, flowLimit \in FlowLimits, NEW n \in FlowNodes
    PROVE  /\ LinksOf(ChildLinks(n), n) /\ LinkTotal(n) \in Nat
           /\ Len(ChildLinks(n)) <= LinkTotal(n)
           /\ Len(ChildLinks(n)) >= LinkTotal(n) =>
                /\ \A m \in Targets(n) \ graph.hidden : Leads(ChildLinks(n), m, CallEdge(n, m))
                /\ n \in graph.clients => Leads(ChildLinks(n), FlowRoot, RouteEdge(n))
<1> DEFINE rows == Len(Rows(n))
           count == AtMost(flowLimit.children, rows)
           calls == Read(n, 0, count)
<1>0. rows \in Nat /\ flowLimit.children \in Nat
  BY RowsAre, LimitsAreNumbers
<1>1. count \in Nat /\ 0 + count <= rows
  BY <1>0 DEF AtMost
<1>2. PICK seen : Reads(n, 0, count, seen)
  BY <1>1, ReadIsOfRows
<1>3. /\ LinksOf(calls, n) /\ Len(seen) \in Nat /\ Len(calls) = Len(seen)
      /\ \A i \in 1..Len(seen) : seen[i] \in FlowNodes /\ calls[i] = CallLink(n, seen[i])
  BY <1>1, <1>2, ReadsAreLinks
<1>4. ASSUME Len(calls) >= rows, NEW m \in Targets(n) \ graph.hidden
      PROVE  Leads(calls, m, CallEdge(n, m))
  <2>1. count = rows
    BY <1>0, <1>1, <1>2, <1>3, <1>4 DEF Reads
  <2>2. PICK i \in 1..rows : Rows(n)[i] = m
    BY RowsAre
  <2>3. i \in 0 + 1..0 + count
    BY <1>0, <2>1
  <2>4. PICK j \in 1..Len(seen) : seen[j] = m
    BY <1>2, <2>2, <2>3 DEF Reads
  <2>5. m \in FlowNodes
    BY RowsAre
  <2>6. calls[j] = CallLink(n, m)
    BY <1>3, <2>4
  <2>7. calls[j].node = m /\ calls[j].edge = CallEdge(n, m)
    BY <2>5, <2>6, CallLinkType
  <2> QED
    BY <1>3, <2>7 DEF Leads
<1>5. LinkTotal(n) \in Nat /\ LinkTotal(n) >= rows /\ (n \in graph.clients => LinkTotal(n) = rows + 1)
  BY <1>0 DEF LinkTotal
<1>6. calls \in Seq(FlowLinks) /\ Len(calls) \in Nat
  BY <1>3, LenProperties DEF LinksOf
<1>7. CASE n \in graph.clients /\ Len(calls) < flowLimit.children /\ Len(calls) >= rows
  <2>1. ChildLinks(n) = Append(calls, RouteLink(n, FlowRoot))
    BY <1>7 DEF ChildLinks, RouteLink
  <2>2. PICK links : links = ChildLinks(n)
    OBVIOUS
  <2>3. RouteLink(n, FlowRoot) \in FlowLinks /\ Joins(RouteLink(n, FlowRoot), n)
    BY RouteLinkType
  <2>4. /\ links \in Seq(FlowLinks) /\ Len(links) = Len(calls) + 1
        /\ links[Len(calls) + 1] = RouteLink(n, FlowRoot)
        /\ \A i \in 1..Len(calls) : links[i] = calls[i]
    BY <1>6, <2>1, <2>2, <2>3, AppendProperties
  <2>5. \A i \in 1..Len(links) : i \in 1..Len(calls) \/ i = Len(calls) + 1
    BY <1>6, <2>4
  <2>6. LinksOf(links, n)
    BY <1>3, <2>3, <2>4, <2>5 DEF LinksOf
  <2>7. \A i \in 1..Len(calls) : i \in 1..Len(links)
    BY <1>6, <2>4
  <2>8. \A m \in Targets(n) \ graph.hidden : Leads(links, m, CallEdge(n, m))
    BY <1>4, <1>7, <2>4, <2>7 DEF Leads
  <2>9. Leads(links, FlowRoot, RouteEdge(n))
    <3>1. Len(calls) + 1 \in 1..Len(links)
      BY <1>6, <2>4
    <3>2. RouteLink(n, FlowRoot).node = FlowRoot /\ RouteLink(n, FlowRoot).edge = RouteEdge(n)
      BY DEF RouteLink
    <3> QED
      BY <2>4, <3>1, <3>2 DEF Leads
  <2>10. Len(links) <= LinkTotal(n)
    <3>1. Len(calls) <= rows
      BY <1>0, <1>1, <1>2, <1>3 DEF Reads
    <3> QED
      BY <1>5, <1>0, <1>6, <1>7, <2>4, <3>1
  <2> QED
    BY <1>5, <2>2, <2>6, <2>8, <2>9, <2>10
<1>8. CASE ~(n \in graph.clients /\ Len(calls) < flowLimit.children /\ Len(calls) >= rows)
  <2>1. ChildLinks(n) = calls
    BY <1>8 DEF ChildLinks
  <2>2. ASSUME Len(calls) >= LinkTotal(n) PROVE Len(calls) >= rows /\ n \notin graph.clients
    <3>1. Len(calls) <= count /\ count <= rows
      BY <1>1, <1>2, <1>3 DEF Reads
    <3> QED
      BY <1>0, <1>1, <1>5, <1>6, <2>2, <3>1
  <2>3. Len(calls) <= LinkTotal(n)
    <3>1. Len(calls) <= count /\ count <= rows
      BY <1>1, <1>2, <1>3 DEF Reads
    <3> QED
      BY <1>0, <1>1, <1>5, <1>6, <3>1
  <2> HIDE DEF calls
  <2> QED
    BY <1>3, <1>4, <1>5, <2>1, <2>2, <2>3
<1> QED
  BY <1>7, <1>8

\* A node without links has nothing to follow.
LEMMA NoLinksToFollow ==
    ASSUME graph \in Graphs, NEW n \in FlowNodes, LinkTotal(n) = 0
    PROVE  Targets(n) = {} /\ n \notin graph.clients
<1>1. Len(Rows(n)) \in Nat /\ \A m \in Targets(n) : \E i \in 1..Len(Rows(n)) : Rows(n)[i] = m
  BY RowsAre
<1>2. Len(Rows(n)) = 0 /\ n \notin graph.clients
  BY <1>1 DEF LinkTotal
<1> QED
  BY <1>1, <1>2

RootRows == Len(Rows(FlowRoot))
Client(i) == Ordered(graph.clients)[i]

\* The links of the root: its rows, then its clients.
LEMMA RootLinksAre ==
    ASSUME graph \in Graphs
    PROVE  /\ RootRows \in Nat /\ RootTotal \in Nat /\ RootTotal = RootRows + Cardinality(graph.clients)
           /\ RootLinks \in Seq(FlowEdges) /\ Len(RootLinks) = RootTotal
           /\ \A i \in 1..RootRows : /\ Rows(FlowRoot)[i] \in Targets(FlowRoot)
                                     /\ RootLinks[i] = CallEdge(FlowRoot, Rows(FlowRoot)[i])
           /\ \A i \in 1..Cardinality(graph.clients) :
                Client(i) \in graph.clients /\ RootLinks[RootRows + i] = RouteEdge(Client(i))
<1> DEFINE calls == [i \in 1..RootRows |-> CallEdge(FlowRoot, Rows(FlowRoot)[i])]
           c == Cardinality(graph.clients)
           routes == [i \in 1..c |-> RouteEdge(Client(i))]
<1>0. FlowRoot \in FlowNodes
  BY FlowPagesAssumption
<1>1. /\ Rows(FlowRoot) \in Seq(Targets(FlowRoot)) /\ RootRows \in Nat
      /\ Targets(FlowRoot) \subseteq FlowNodes
  BY <1>0, RowsAre DEF RootRows
<1>2. c \in Nat /\ Ordered(graph.clients) \in Seq(graph.clients) /\ Len(Ordered(graph.clients)) = c
  BY ClientsAre
<1>3. \A i \in 1..RootRows : Rows(FlowRoot)[i] \in Targets(FlowRoot) /\ Rows(FlowRoot)[i] \in FlowNodes
  BY <1>1, ElementOfSeq DEF RootRows
<1>4. \A i \in 1..c : Client(i) \in graph.clients
  BY <1>2, ElementOfSeq DEF Client
<1>5. \A i \in 1..c : Client(i) \in FlowNodes
  BY <1>4, ClientsAre
<1>6. calls \in Seq(FlowEdges) /\ Len(calls) = RootRows
  <2>1. \A i \in 1..RootRows : CallEdge(FlowRoot, Rows(FlowRoot)[i]) \in FlowEdges
    BY <1>0, <1>3 DEF CallEdge, FlowEdges
  <2>2. calls \in [1..RootRows -> FlowEdges]
    BY <2>1
  <2> QED
    BY <1>1, <2>2, SeqDef
<1>7. routes \in Seq(FlowEdges) /\ Len(routes) = c
  <2>1. \A i \in 1..c : RouteEdge(Client(i)) \in FlowEdges
    BY <1>5, RouteLinkType
  <2>2. routes \in [1..c -> FlowEdges]
    BY <2>1
  <2> QED
    BY <1>2, <2>2, SeqDef
<1>8. RootLinks = calls \o routes
  BY <1>2 DEF RootLinks, RootRows, Client
<1>9. \A i \in 1..RootRows : calls[i] = CallEdge(FlowRoot, Rows(FlowRoot)[i])
  OBVIOUS
<1>10. \A i \in 1..c : routes[i] = RouteEdge(Client(i))
  OBVIOUS
<1>11. PICK n, m : n = RootRows /\ m = c
  OBVIOUS
<1> HIDE DEF calls, routes, c
<1>12. /\ RootLinks \in Seq(FlowEdges) /\ Len(RootLinks) = n + m
       /\ \A i \in 1..n + m : RootLinks[i] = IF i <= n THEN calls[i] ELSE routes[i - n]
  BY <1>6, <1>7, <1>8, <1>11, ConcatProperties
<1>13. n \in Nat /\ m \in Nat
  BY <1>1, <1>2, <1>11
<1>14. ASSUME NEW i \in 1..n PROVE RootLinks[i] = calls[i]
  <2>1. i \in 1..n + m /\ i <= n
    BY <1>13
  <2> QED
    BY <1>12, <2>1
<1>15. ASSUME NEW i \in 1..m PROVE RootLinks[n + i] = routes[i]
  <2>1. n + i \in 1..n + m /\ ~(n + i <= n) /\ (n + i) - n = i
    BY <1>13
  <2> QED
    BY <1>12, <2>1
<1>16. RootTotal = n + m
  BY <1>11 DEF RootTotal, RootRows, c
<1> QED
  BY <1>3, <1>4, <1>9, <1>10, <1>11, <1>12, <1>13, <1>14, <1>15, <1>16 DEF c

\* The i-th link of the root leads where it leads, and links have it.
PageHas(links, i) ==
    /\ i <= RootRows /\ Rows(FlowRoot)[i] \notin graph.hidden =>
         Leads(links, Rows(FlowRoot)[i], CallEdge(FlowRoot, Rows(FlowRoot)[i]))
    /\ i > RootRows => /\ i <= RootTotal
                       /\ Leads(links, Client(i - RootRows), RouteEdge(Client(i - RootRows)))

\* The sizes of a page: k of the rows are read, m of the clients after the first.
PageParts(offset, k, m, first) ==
    /\ first = Less(offset, RootRows)
    /\ m = AtMost(PageSize - k, Less(Cardinality(graph.clients), first))

LEMMA PageSizes ==
    ASSUME graph \in Graphs, flowLimit \in FlowLimits, NEW offset \in Nat, offset <= RootTotal,
           NEW k \in Nat, k <= AtMost(PageSize, Less(RootRows, offset)),
           NEW m, NEW first, PageParts(offset, k, m, first)
    PROVE  /\ m \in Nat /\ first \in Nat /\ k + m <= PageSize
           /\ m > 0 => first + m <= Cardinality(graph.clients)
           /\ \A i \in offset + 1..offset + (k + m) :
                /\ i <= RootRows => i <= offset + AtMost(PageSize, Less(RootRows, offset))
                /\ i > RootRows => i - RootRows \in first + 1..first + m
           /\ k = AtMost(PageSize, Less(RootRows, offset)) =>
                /\ k + m = AtMost(PageSize, RootTotal - offset)
                /\ m > 0 => offset + k = RootRows + first
<1> DEFINE c == Cardinality(graph.clients)
<1>1. /\ RootRows \in Nat /\ c \in Nat /\ RootTotal = RootRows + c
      /\ PageSize \in Nat /\ PageSize > 0
  BY RootLinksAre, ClientsAre, LimitsAreNumbers
<1>2. PICK p, r, d : p = PageSize /\ r = RootRows /\ d = c
  OBVIOUS
<1>3. /\ r \in Nat /\ d \in Nat /\ p \in Nat /\ p > 0 /\ offset <= r + d
      /\ RootTotal = r + d
  BY <1>1, <1>2
<1>4. /\ first = (IF offset < r THEN 0 ELSE offset - r)
      /\ k <= AtMost(p, IF r < offset THEN 0 ELSE r - offset)
      /\ m = AtMost(p - k, IF d < first THEN 0 ELSE d - first)
  BY <1>2 DEF PageParts, Less
<1>5. first \in Nat /\ first <= d
  BY <1>3, <1>4
<1>6. CASE offset <= r
  <2>1. first = 0 /\ k <= p /\ k <= r - offset /\ (k = AtMost(p, r - offset) => k = p \/ k = r - offset)
    BY <1>3, <1>4, <1>6 DEF AtMost
  <2>2. m \in Nat /\ k + m <= p /\ m <= d /\ (m = p - k \/ m = d)
    BY <1>3, <1>4, <2>1 DEF AtMost
  <2>3. k = AtMost(p, r - offset) => k + m = AtMost(p, (r + d) - offset) /\ (m > 0 => k = r - offset)
    BY <1>3, <1>6, <2>1, <2>2 DEF AtMost
  <2>4. Less(RootRows, offset) = r - offset
    BY <1>2, <1>3, <1>6 DEF Less
  <2>5. ASSUME NEW i \in offset + 1..offset + (k + m)
        PROVE  /\ i <= r => i <= offset + AtMost(p, r - offset)
               /\ i > r => i - r \in first + 1..first + m
    BY <1>3, <1>6, <2>1, <2>2 DEF AtMost
  <2> QED
    BY <1>2, <1>3, <1>5, <1>6, <2>1, <2>2, <2>3, <2>4, <2>5
<1>7. CASE offset > r
  <2>1. first = offset - r /\ k = 0 /\ Less(RootRows, offset) = 0 /\ AtMost(p, 0) = 0
    BY <1>2, <1>3, <1>4, <1>7 DEF AtMost, Less
  <2>2. m \in Nat /\ m <= p /\ first + m <= d /\ m = AtMost(p, (r + d) - offset)
    BY <1>3, <1>4, <1>5, <1>7, <2>1 DEF AtMost
  <2>3. ASSUME NEW i \in offset + 1..offset + (k + m)
        PROVE  ~(i <= r) /\ i - r \in first + 1..first + m
    BY <1>3, <1>7, <2>1, <2>2
  <2> QED
    BY <1>2, <1>3, <1>5, <1>7, <2>1, <2>2, <2>3
<1> QED
  BY <1>3, <1>6, <1>7

\* A page has the links of the root from its offset on, as far as they are not hidden.
LEMMA RootPageIs ==
    ASSUME graph \in Graphs, flowLimit \in FlowLimits, NEW offset \in Nat, offset <= RootTotal
    PROVE  /\ LinksOf(RootPage(offset), FlowRoot) /\ Len(RootPage(offset)) \in Nat
           /\ \A i \in offset + 1..offset + Len(RootPage(offset)) : PageHas(RootPage(offset), i)
           /\ Targets(FlowRoot) \cap graph.hidden = {} =>
                /\ Len(RootPage(offset)) = AtMost(PageSize, RootTotal - offset)
                /\ \A i \in 1..Len(RootPage(offset)) : RootPage(offset)[i].edge = RootLinks[offset + i]
<1> DEFINE asked == AtMost(PageSize, Less(RootRows, offset))
           calls == Read(FlowRoot, offset, asked)
           c == Cardinality(graph.clients)
           first == Less(offset, RootRows)
           k == Len(calls)
           m == AtMost(PageSize - k, Less(c, first))
           routes == [i \in 1..m |-> RouteLink(Client(first + i), Client(first + i))]
           links == calls \o routes
<1>0. /\ RootRows \in Nat /\ c \in Nat /\ RootTotal = RootRows + c
      /\ PageSize \in Nat /\ PageSize > 0 /\ FlowRoot \in FlowNodes
      /\ Len(Ordered(graph.clients)) = c /\ RootRows = Len(Rows(FlowRoot))
  BY RootLinksAre, ClientsAre, LimitsAreNumbers, FlowPagesAssumption DEF RootRows
<1>1. asked \in Nat /\ (asked = 0 \/ offset + asked <= RootRows)
  BY <1>0 DEF AtMost, Less
<1>2. PICK seen : Reads(FlowRoot, offset, asked, seen)
  BY <1>0, <1>1, ReadIsOfRows
<1>3. /\ LinksOf(calls, FlowRoot) /\ Len(seen) \in Nat /\ k = Len(seen)
      /\ \A i \in 1..Len(seen) : seen[i] \in FlowNodes /\ calls[i] = CallLink(FlowRoot, seen[i])
  BY <1>0, <1>1, <1>2, ReadsAreLinks
<1>4. k \in Nat /\ k <= asked
  BY <1>2, <1>3 DEF Reads
<1>5. PageParts(offset, k, m, first)
  BY DEF PageParts
<1>6. RootPage(offset) = links
  BY <1>0 DEF RootPage, RouteLink, Client
<1>7. /\ m \in Nat /\ first \in Nat /\ k + m <= PageSize
      /\ m > 0 => first + m <= c
      /\ \A i \in offset + 1..offset + (k + m) :
           /\ i <= RootRows => i <= offset + asked
           /\ i > RootRows => i - RootRows \in first + 1..first + m
      /\ k = asked => /\ k + m = AtMost(PageSize, RootTotal - offset)
                      /\ m > 0 => offset + k = RootRows + first
  <2> HIDE DEF k, m, first
  <2>1. k <= AtMost(PageSize, Less(RootRows, offset))
    BY <1>4
  <2> QED
    BY <1>4, <1>5, <2>1, PageSizes
<1>8. \A i \in 1..m : first + i \in 1..c
  <2> HIDE DEF k, m, first, c
  <2> QED
    BY <1>0, <1>7
<1>9. \A i \in 1..m : Client(first + i) \in FlowNodes
  BY <1>8, RootLinksAre, ClientsAre
<1>10. \A i \in 1..m : /\ RouteLink(Client(first + i), Client(first + i)) \in FlowLinks
                       /\ Joins(RouteLink(Client(first + i), Client(first + i)), FlowRoot)
  BY <1>9, RouteLinkType
<1> HIDE DEF k, first, asked, c
<1>11. routes \in Seq(FlowLinks) /\ Len(routes) = m
  <2> HIDE DEF m
  <2>1. routes \in [1..m -> FlowLinks]
    BY <1>10
  <2> HIDE DEF routes
  <2> QED
    BY <1>7, <2>1, SeqDef
<1>12. \A i \in 1..m : routes[i] = RouteLink(Client(first + i), Client(first + i))
  OBVIOUS
<1> HIDE DEF m, routes, calls
<1>13. calls \in Seq(FlowLinks) /\ Len(calls) = k /\ \A i \in 1..k : Joins(calls[i], FlowRoot)
  BY <1>3 DEF LinksOf, k
<1>14. /\ links \in Seq(FlowLinks) /\ Len(links) = k + m
       /\ \A i \in 1..k + m : links[i] = IF i <= k THEN calls[i] ELSE routes[i - k]
  BY <1>11, <1>13, ConcatProperties
<1> HIDE DEF links
<1>15. \A i \in 1..k : i \in 1..k + m /\ links[i] = calls[i]
  BY <1>4, <1>7, <1>14
<1>16. ASSUME NEW i \in 1..m
       PROVE  k + i \in 1..k + m /\ links[k + i] = RouteLink(Client(first + i), Client(first + i))
  <2>1. k + i \in 1..k + m /\ ~(k + i <= k) /\ (k + i) - k = i
    BY <1>4, <1>7
  <2>2. links[k + i] = routes[i]
    BY <1>14, <2>1
  <2> QED
    BY <1>12, <2>1, <2>2
<1>17. LinksOf(links, FlowRoot)
  <2>1. ASSUME NEW i \in 1..k + m PROVE Joins(links[i], FlowRoot)
    <3>1. CASE i \in 1..k
      BY <1>13, <1>15, <3>1
    <3>2. CASE i \notin 1..k
      <4>1. PICK j \in 1..m : i = k + j
        <5>1. i - k \in 1..m /\ k + (i - k) = i
          BY <1>4, <1>7, <3>2
        <5> QED
          BY <5>1
      <4> QED
        BY <1>10, <1>16, <4>1
    <3> QED
      BY <3>1, <3>2
  <2> QED
    BY <1>14, <2>1 DEF LinksOf
<1>18. ASSUME NEW i \in offset + 1..offset + (k + m) PROVE PageHas(links, i)
  <2>1. ASSUME i <= RootRows, Rows(FlowRoot)[i] \notin graph.hidden
        PROVE  Leads(links, Rows(FlowRoot)[i], CallEdge(FlowRoot, Rows(FlowRoot)[i]))
    <3>1. i \in offset + 1..offset + asked
      BY <1>1, <1>4, <1>7, <2>1
    <3>2. PICK j \in 1..Len(seen) : seen[j] = Rows(FlowRoot)[i]
      BY <1>2, <2>1, <3>1 DEF Reads
    <3>3. j \in 1..k /\ seen[j] \in FlowNodes /\ calls[j] = CallLink(FlowRoot, seen[j])
      BY <1>3, <3>2 DEF k
    <3>4. calls[j].node = seen[j] /\ calls[j].edge = CallEdge(FlowRoot, seen[j])
      BY <1>0, <3>3, CallLinkType
    <3>5. j \in 1..Len(links) /\ links[j] = calls[j]
      BY <1>14, <1>15, <3>3
    <3> QED
      BY <3>2, <3>4, <3>5 DEF Leads
  <2>2. ASSUME i > RootRows
        PROVE  i <= RootTotal /\ Leads(links, Client(i - RootRows), RouteEdge(Client(i - RootRows)))
    <3>1. i - RootRows \in first + 1..first + m
      BY <1>7, <2>2
    <3>2. PICK j \in 1..m : i - RootRows = first + j
      <4>1. (i - RootRows) - first \in 1..m /\ i - RootRows = first + ((i - RootRows) - first)
        BY <1>0, <1>7, <3>1
      <4> QED
        BY <4>1
    <3>3. first + j <= c /\ i = RootRows + (first + j)
      BY <1>0, <1>7, <1>8, <3>2
    <3>4. k + j \in 1..Len(links) /\ links[k + j] = RouteLink(Client(first + j), Client(first + j))
      BY <1>14, <1>16
    <3>5. Leads(links, Client(first + j), RouteEdge(Client(first + j)))
      BY <3>4 DEF Leads, RouteLink
    <3> QED
      BY <1>0, <1>7, <3>2, <3>3, <3>5
  <2> QED
    BY <2>1, <2>2 DEF PageHas
<1>19. ASSUME Targets(FlowRoot) \cap graph.hidden = {}
       PROVE  /\ k + m = AtMost(PageSize, RootTotal - offset)
              /\ \A i \in 1..k + m : links[i].edge = RootLinks[offset + i]
  <2>1. k = asked /\ \A i \in 1..k : seen[i] = Rows(FlowRoot)[offset + i]
    BY <1>2, <1>3, <1>19 DEF Reads, k
  <2>2. ASSUME NEW i \in 1..k PROVE links[i].edge = RootLinks[offset + i]
    <3>1. offset + i \in 1..RootRows
      BY <1>0, <1>1, <2>1
    <3>2. i \in 1..Len(seen) /\ seen[i] \in FlowNodes /\ calls[i] = CallLink(FlowRoot, seen[i])
      BY <1>3 DEF k
    <3>3. links[i].edge = CallEdge(FlowRoot, seen[i])
      BY <1>0, <1>15, <3>2, CallLinkType
    <3> QED
      BY <2>1, <3>1, <3>3, RootLinksAre
  <2>3. ASSUME NEW i \in 1..m PROVE links[k + i].edge = RootLinks[offset + (k + i)]
    <3>1. first + i \in 1..c /\ offset + (k + i) = RootRows + (first + i)
      <4>1. m > 0 /\ offset + k = RootRows + first
        BY <1>7, <2>1
      <4>2. first + i \in 1..c
        BY <1>8
      <4>3. \A a, b, x, y, z \in Nat : a + x = b + y => a + (x + z) = b + (y + z)
        OBVIOUS
      <4>4. i \in Nat
        BY <1>7
      <4> QED
        BY <1>0, <1>4, <1>7, <4>1, <4>2, <4>3, <4>4
    <3>2. links[k + i].edge = RouteEdge(Client(first + i))
      <4>1. links[k + i] = RouteLink(Client(first + i), Client(first + i))
        BY <1>16
      <4>2. RouteLink(Client(first + i), Client(first + i)).edge = RouteEdge(Client(first + i))
        BY DEF RouteLink
      <4> QED
        BY <4>1, <4>2
    <3> QED
      BY <3>1, <3>2, RootLinksAre DEF c
  <2>4. ASSUME NEW i \in 1..k + m PROVE links[i].edge = RootLinks[offset + i]
    <3>1. CASE i \in 1..k
      BY <2>2, <3>1
    <3>2. CASE i \notin 1..k
      <4>1. i - k \in 1..m /\ k + (i - k) = i
        BY <1>4, <1>7, <3>2
      <4>2. links[k + (i - k)].edge = RootLinks[offset + (k + (i - k))]
        BY <2>3, <4>1
      <4> QED
        BY <4>1, <4>2
    <3> QED
      BY <3>1, <3>2
  <2> QED
    BY <1>7, <2>1, <2>4
<1>20. k + m \in Nat
  BY <1>4, <1>7
<1> QED
  BY <1>6, <1>14, <1>17, <1>18, <1>19, <1>20

--------------------------------------------------------------------------------
(* What add_links makes of a walk.                                         *)

QueueItems == [node : FlowNodes, depth : Nat]
Walks == [on : BOOLEAN, more : BOOLEAN, next : Nat, links : Seq(FlowEdges),
          queue : Seq(QueueItems), nodes : SUBSET FlowNodes, guessed : SUBSET FlowNodes,
          edges : SUBSET FlowEdges, cut : BOOLEAN, added : Nat, full : BOOLEAN,
          expansions : Nat, scanned : Nat]

WalkBounded(w) ==
    Cardinality(w.nodes) <= flowLimit.nodes /\ Cardinality(w.edges) <= flowLimit.edges

\* What is still to be followed.
Queued(w) == {w.queue[i].node : i \in 1..Len(w.queue)}

\* The ends of the edges of a flow are in it.
EndsIn(w) == \A e \in w.edges : e.source \in w.nodes /\ e.target \in w.nodes

LEMMA NodesAndEdgesAreFinite ==
    /\ \A s \in SUBSET FlowNodes : IsFiniteSet(s) /\ Cardinality(s) \in Nat
    /\ \A s \in SUBSET FlowEdges : IsFiniteSet(s) /\ Cardinality(s) \in Nat
<1>1. IsFiniteSet(FlowNodes)
  BY FlowPagesAssumption
<1>2. IsFiniteSet({"call", "route"})
  <2>1. IsFiniteSet({"call"} \cup {"route"})
    BY FS_Singleton, FS_AddElement
  <2>2. {"call"} \cup {"route"} = {"call", "route"}
    OBVIOUS
  <2> QED
    BY <2>1, <2>2
<1>3. IsFiniteSet(FlowNodes \X FlowNodes)
  BY <1>1, FS_Product
<1>4. IsFiniteSet({"call", "route"} \X (FlowNodes \X FlowNodes))
  BY <1>2, <1>3, FS_Product
<1> DEFINE t == {"call", "route"} \X (FlowNodes \X FlowNodes)
           f == [x \in t |-> [kind |-> x[1], source |-> x[2][1], target |-> x[2][2]]]
<1>5. f \in Surjection(t, FlowEdges)
  <2>1. f \in [t -> FlowEdges]
    BY DEF FlowEdges
  <2>2. ASSUME NEW e \in FlowEdges PROVE \E x \in t : f[x] = e
    <3>1. <<e.kind, <<e.source, e.target>>>> \in t
      BY DEF FlowEdges
    <3>2. f[<<e.kind, <<e.source, e.target>>>>] = [kind |-> e.kind, source |-> e.source, target |-> e.target]
      BY <3>1
    <3>3. e = [kind |-> e.kind, source |-> e.source, target |-> e.target]
      BY DEF FlowEdges
    <3> QED
      BY <3>1, <3>2, <3>3
  <2> HIDE DEF f, t
  <2> QED
    BY <2>1, <2>2, Zenon DEF Surjection
<1>6. IsFiniteSet(FlowEdges)
  BY <1>4, <1>5, FS_Surjection
<1>7. \A s \in SUBSET FlowNodes : IsFiniteSet(s)
  BY <1>1, FS_Subset
<1>8. \A s \in SUBSET FlowEdges : IsFiniteSet(s)
  BY <1>6, FS_Subset
<1> QED
  BY <1>7, <1>8, FS_CardinalityType

\* What the first i links of n make of the walk v.
KeepsPage(v, w) ==
    /\ w.on = v.on /\ w.more = v.more /\ w.next = v.next /\ w.links = v.links
    /\ v.nodes \subseteq w.nodes /\ v.edges \subseteq w.edges /\ v.guessed \subseteq w.guessed
    /\ v.cut => w.cut
Grown(v, links, i, w) ==
    /\ w \in Walks /\ WalkBounded(w) /\ KeepsPage(v, w)
    /\ w.full => w.cut /\ w.added < i
    /\ w.added <= i
    /\ ~w.full => \A j \in 1..i : links[j].edge \in w.edges /\ links[j].node \in w.nodes
    /\ Queued(w) = Queued(v) \cup (w.nodes \ v.nodes)
    /\ EndsIn(w) /\ Connected(w)

\* A link that is left out ends the adding.
LEMMA LinkLeftOut ==
    ASSUME NEW v, NEW links, NEW i \in Nat, NEW u, Grown(v, links, i, u),
           NEW w, w = [u EXCEPT !.cut = TRUE, !.full = TRUE]
    PROVE  Grown(v, links, i + 1, w)
<1>1. u \in Walks
  BY DEF Grown
<1>2. w \in Walks
  BY <1>1 DEF Walks
<1>3. /\ w.on = u.on /\ w.more = u.more /\ w.next = u.next /\ w.links = u.links
      /\ w.nodes = u.nodes /\ w.edges = u.edges /\ w.guessed = u.guessed
      /\ w.queue = u.queue /\ w.added = u.added /\ w.cut = TRUE /\ w.full = TRUE
  BY <1>1 DEF Walks
<1>4. w.added \in Nat
  BY <1>2 DEF Walks
<1>5. KeepsPage(v, w)
  BY <1>3 DEF Grown, KeepsPage
<1>6. Queued(w) = Queued(v) \cup (w.nodes \ v.nodes)
  BY <1>3 DEF Grown, Queued
<1>7. WalkBounded(w) /\ EndsIn(w) /\ Connected(w)
  BY <1>3 DEF Grown, WalkBounded, EndsIn, Connected
<1>8. w.added < i + 1 /\ w.added <= i + 1
  BY <1>3, <1>4 DEF Grown
<1> QED
  BY <1>2, <1>3, <1>5, <1>6, <1>7, <1>8 DEF Grown

\* A link that is taken
LinkTaken(u, link, depth) ==
    LET new == link.node \notin u.nodes
    IN  [u EXCEPT
           !.added = @ + (IF link.edge \in u.edges THEN 0 ELSE 1),
           !.edges = @ \cup {link.edge}, !.nodes = @ \cup {link.node},
           !.guessed = IF new /\ link.guess THEN @ \cup {link.node} ELSE @,
           !.queue = IF new THEN Append(@, [node |-> link.node, depth |-> depth]) ELSE @]

HasTaken(u, link, w) ==
    /\ w \in Walks
    /\ w.on = u.on /\ w.more = u.more /\ w.next = u.next /\ w.links = u.links
    /\ w.cut = u.cut /\ w.full = u.full
    /\ w.added = u.added + (IF link.edge \in u.edges THEN 0 ELSE 1)
    /\ w.edges = u.edges \cup {link.edge} /\ w.nodes = u.nodes \cup {link.node}
    /\ u.guessed \subseteq w.guessed
    /\ Queued(w) = Queued(u) \cup (w.nodes \ u.nodes)

LEMMA TakenFields ==
    ASSUME NEW u \in Walks, NEW link \in FlowLinks, NEW depth \in Nat,
           NEW w, w = LinkTaken(u, link, depth)
    PROVE  HasTaken(u, link, w)
<1> DEFINE new == link.node \notin u.nodes
           item == [node |-> link.node, depth |-> depth]
           guessed == IF new /\ link.guess THEN u.guessed \cup {link.node} ELSE u.guessed
           queue == IF new THEN Append(u.queue, item) ELSE u.queue
           added == u.added + (IF link.edge \in u.edges THEN 0 ELSE 1)
<1>1. link.node \in FlowNodes /\ link.edge \in FlowEdges /\ item \in QueueItems /\ item.node = link.node
  BY DEF FlowLinks, QueueItems
<1>2. u.queue \in Seq(QueueItems) /\ Len(u.queue) \in Nat
  <2>1. u.queue \in Seq(QueueItems)
    BY DEF Walks
  <2> QED
    BY <2>1, LenProperties
<1>3. queue \in Seq(QueueItems)
  BY <1>1, <1>2, AppendProperties
<1>4. guessed \in SUBSET FlowNodes /\ u.guessed \subseteq guessed
  BY <1>1 DEF Walks
<1>5. added \in Nat
  BY DEF Walks
<1>6. w = [u EXCEPT !.added = added, !.edges = u.edges \cup {link.edge},
                    !.nodes = u.nodes \cup {link.node}, !.guessed = guessed, !.queue = queue]
  BY DEF LinkTaken, Walks
<1> HIDE DEF added, guessed, queue
<1>7. /\ w.on = u.on /\ w.more = u.more /\ w.next = u.next /\ w.links = u.links
      /\ w.cut = u.cut /\ w.full = u.full /\ w.added = added
      /\ w.edges = u.edges \cup {link.edge} /\ w.nodes = u.nodes \cup {link.node}
      /\ w.guessed = guessed /\ w.queue = queue
  BY <1>6 DEF Walks
<1>8. u.edges \cup {link.edge} \in SUBSET FlowEdges /\ u.nodes \cup {link.node} \in SUBSET FlowNodes
  BY <1>1 DEF Walks
<1>9. w \in Walks
  BY <1>3, <1>4, <1>5, <1>6, <1>8 DEF Walks
<1>10. Queued(w) = Queued(u) \cup (w.nodes \ u.nodes)
  <2>1. CASE new
    <3> DEFINE n == Len(u.queue)
    <3>1. queue = Append(u.queue, item)
      BY <2>1 DEF queue
    <3> HIDE DEF item
    <3>2. Len(queue) = n + 1 /\ queue[n + 1] = item /\ \A i \in 1..n : queue[i] = u.queue[i]
      BY <1>1, <1>2, <3>1, AppendProperties
    <3>3. \A i \in 1..n + 1 : i \in 1..n \/ i = n + 1
      BY <1>2
    <3>4. n + 1 \in 1..n + 1 /\ \A i \in 1..n : i \in 1..n + 1
      BY <1>2
    <3>5. Queued(w) = {queue[i].node : i \in 1..n + 1}
      BY <1>7, <3>2 DEF Queued
    <3>6. w.nodes \ u.nodes = {link.node}
      BY <1>7, <2>1
    <3>7. ASSUME NEW x PROVE x \in Queued(w) <=> x \in Queued(u) \/ x = link.node
      <4>1. x \in Queued(w) => x \in Queued(u) \/ x = link.node
        BY <1>1, <3>2, <3>3, <3>5 DEF Queued
      <4>2. x \in Queued(u) => x \in Queued(w)
        BY <3>2, <3>4, <3>5 DEF Queued
      <4>3. link.node \in Queued(w)
        BY <1>1, <3>2, <3>4, <3>5
      <4> QED
        BY <4>1, <4>2, <4>3
    <3> QED
      BY <3>6, <3>7
  <2>2. CASE ~new
    <3>1. w.queue = u.queue /\ w.nodes \ u.nodes = {}
      BY <1>7, <2>2 DEF queue
    <3> QED
      BY <3>1 DEF Queued
  <2> QED
    BY <2>1, <2>2
<1> QED
  BY <1>4, <1>7, <1>9, <1>10 DEF added, HasTaken

\* connects what it leads to with the root.
LEMMA LinkConnects ==
    ASSUME NEW u \in Walks, NEW link \in FlowLinks, NEW n \in u.nodes, Joins(link, n),
           EndsIn(u), Connected(u), NEW w,
           w.edges = u.edges \cup {link.edge}, w.nodes = u.nodes \cup {link.node}
    PROVE  EndsIn(w) /\ Connected(w)
<1>1. EndsIn(w)
  BY DEF EndsIn, Joins
<1>2. ASSUME NEW s \in SUBSET FlowNodes, FlowRoot \in s,
             \A e \in w.edges : e.source \in s <=> e.target \in s
      PROVE  w.nodes \subseteq s
  <2>1. u.nodes \subseteq s
    BY <1>2 DEF Connected
  <2>2. link.edge.source \in s <=> link.edge.target \in s
    BY <1>2
  <2>3. link.node \in s
    BY <2>1, <2>2 DEF Joins
  <2> QED
    BY <2>1, <2>3
<1> QED
  BY <1>1, <1>2 DEF Connected

LEMMA LinkTakenGrows ==
    ASSUME flowLimit \in FlowLimits, NEW v \in Walks, NEW n \in v.nodes, NEW links, LinksOf(links, n),
           NEW i \in Nat, i + 1 <= Len(links), NEW depth \in Nat,
           NEW u, Grown(v, links, i, u), ~u.full,
           Cardinality(u.edges) < flowLimit.edges,
           Cardinality(u.nodes) < flowLimit.nodes \/ links[i + 1].node \in u.nodes,
           NEW w, w = LinkTaken(u, links[i + 1], depth)
    PROVE  Grown(v, links, i + 1, w)
<1> DEFINE link == links[i + 1]
<1>0. links \in Seq(FlowLinks) /\ Len(links) \in Nat /\ i + 1 \in 1..Len(links)
  BY LenProperties DEF LinksOf
<1>1. link \in FlowLinks /\ Joins(link, n) /\ u \in Walks
  BY <1>0, ElementOfSeq DEF LinksOf, Grown
<1> HIDE DEF link
<1>2. w = LinkTaken(u, link, depth)
  BY DEF link
<1>3. HasTaken(u, link, w)
  BY <1>1, <1>2, TakenFields
<1>h. /\ w \in Walks
      /\ w.on = u.on /\ w.more = u.more /\ w.next = u.next /\ w.links = u.links
      /\ w.cut = u.cut /\ w.full = u.full
      /\ w.added = u.added + (IF link.edge \in u.edges THEN 0 ELSE 1)
      /\ w.edges = u.edges \cup {link.edge} /\ w.nodes = u.nodes \cup {link.node}
      /\ u.guessed \subseteq w.guessed
      /\ Queued(w) = Queued(u) \cup (w.nodes \ u.nodes)
  BY <1>3 DEF HasTaken
<1>4. v.nodes \subseteq u.nodes /\ KeepsPage(v, u)
  BY DEF Grown, KeepsPage
<1>5. KeepsPage(v, w)
  BY <1>h, <1>4 DEF KeepsPage
<1>6. u.nodes \in SUBSET FlowNodes /\ u.edges \in SUBSET FlowEdges /\ u.added \in Nat
  BY <1>1 DEF Walks
<1>7. /\ IsFiniteSet(u.nodes) /\ Cardinality(u.nodes) \in Nat
      /\ IsFiniteSet(u.edges) /\ Cardinality(u.edges) \in Nat
  BY <1>6, NodesAndEdgesAreFinite
<1>8. WalkBounded(w)
  <2>0. flowLimit.nodes \in Nat /\ flowLimit.edges \in Nat
    BY LimitsAreNumbers
  <2> DEFINE es == u.edges
             ns == u.nodes
             e == link.edge
             m == link.node
  <2>a. IsFiniteSet(es) /\ IsFiniteSet(ns) /\ w.edges = es \cup {e} /\ w.nodes = ns \cup {m}
    BY <1>h, <1>7
  <2> HIDE DEF es, ns, e, m
  <2>b. Cardinality(w.edges) = IF e \in es THEN Cardinality(es) ELSE Cardinality(es) + 1
    BY <2>a, FS_AddElement
  <2>c. Cardinality(w.nodes) = IF m \in ns THEN Cardinality(ns) ELSE Cardinality(ns) + 1
    BY <2>a, FS_AddElement
  <2>1. Cardinality(w.edges) = IF link.edge \in u.edges THEN Cardinality(u.edges)
                               ELSE Cardinality(u.edges) + 1
    BY <2>b DEF es, e
  <2>2. Cardinality(w.nodes) = IF link.node \in u.nodes THEN Cardinality(u.nodes)
                               ELSE Cardinality(u.nodes) + 1
    BY <2>c DEF ns, m
  <2>3. Cardinality(u.nodes) <= flowLimit.nodes
    BY DEF Grown, WalkBounded
  <2>4. Cardinality(u.nodes) < flowLimit.nodes \/ link.node \in u.nodes
    BY DEF link
  <2>5. Cardinality(w.edges) <= flowLimit.edges
    BY <1>7, <2>0, <2>1
  <2>6. Cardinality(w.nodes) <= flowLimit.nodes
    BY <1>7, <2>0, <2>2, <2>3, <2>4
  <2> QED
    BY <2>5, <2>6 DEF WalkBounded
<1>9. w.added <= i + 1
  <2>1. u.added <= i
    BY DEF Grown
  <2> QED
    BY <1>h, <1>6, <2>1
<1>10. ASSUME NEW j \in 1..i + 1 PROVE links[j].edge \in w.edges /\ links[j].node \in w.nodes
  <2>1. CASE j = i + 1
    BY <1>h, <2>1 DEF link
  <2>2. CASE j \in 1..i
    BY <1>h, <2>2 DEF Grown
  <2> QED
    BY <2>1, <2>2
<1>11. Queued(w) = Queued(v) \cup (w.nodes \ v.nodes)
  <2>1. Queued(u) = Queued(v) \cup (u.nodes \ v.nodes)
    BY DEF Grown
  <2>2. u.nodes \subseteq w.nodes
    BY <1>h
  <2> QED
    BY <1>h, <1>4, <2>1, <2>2
<1>12. EndsIn(w) /\ Connected(w)
  <2>1. n \in u.nodes /\ EndsIn(u) /\ Connected(u)
    BY <1>4 DEF Grown
  <2> QED
    BY <1>1, <1>h, <2>1, LinkConnects
<1>13. ~w.full
  BY <1>h
<1> QED
  BY <1>h, <1>5, <1>8, <1>9, <1>10, <1>11, <1>12, <1>13 DEF Grown

LEMMA LinkGrows ==
    ASSUME flowLimit \in FlowLimits, NEW v \in Walks, NEW n \in v.nodes, NEW links, LinksOf(links, n),
           NEW i \in Nat, i + 1 <= Len(links), NEW depth \in Nat,
           NEW u, Grown(v, links, i, u)
    PROVE  Grown(v, links, i + 1, AddLink(u, links[i + 1], depth))
<1>0. u \in Walks /\ u.added \in Nat
  BY DEF Grown, Walks
<1>1. CASE u.full
  <2>1. AddLink(u, links[i + 1], depth) = u
    BY <1>1 DEF AddLink
  <2>2. u.added < i + 1 /\ u.added <= i + 1
    BY <1>0 DEF Grown
  <2> QED
    BY <1>1, <2>1, <2>2 DEF Grown
<1> DEFINE none == \/ Cardinality(u.edges) >= flowLimit.edges
                   \/ Cardinality(u.nodes) >= flowLimit.nodes /\ links[i + 1].node \notin u.nodes
<1>2. CASE ~u.full /\ none
  <2>1. AddLink(u, links[i + 1], depth) = [u EXCEPT !.cut = TRUE, !.full = TRUE]
    BY <1>2 DEF AddLink
  <2>2. PICK w : w = [u EXCEPT !.cut = TRUE, !.full = TRUE]
    OBVIOUS
  <2>3. Grown(v, links, i + 1, w)
    BY <2>2, LinkLeftOut, Zenon
  <2> QED
    BY <2>1, <2>2, <2>3
<1>3. CASE ~u.full /\ ~none
  <2>1. AddLink(u, links[i + 1], depth) = LinkTaken(u, links[i + 1], depth)
    BY <1>3 DEF AddLink, LinkTaken
  <2>2. Cardinality(u.edges) \in Nat /\ Cardinality(u.nodes) \in Nat
    BY <1>0, NodesAndEdgesAreFinite DEF Walks
  <2>3. flowLimit.nodes \in Nat /\ flowLimit.edges \in Nat
    BY LimitsAreNumbers
  <2>4. /\ Cardinality(u.edges) < flowLimit.edges
        /\ Cardinality(u.nodes) < flowLimit.nodes \/ links[i + 1].node \in u.nodes
    BY <1>3, <2>2, <2>3
  <2> QED
    BY <1>3, <2>1, <2>4, LinkTakenGrows
<1> QED
  BY <1>1, <1>2, <1>3

\* step[i] is the walk after i links.
IsGrowth(w, links, depth, n, step) ==
    /\ DOMAIN step = 0..n /\ step = [i \in 0..n |-> step[i]]
    /\ step[0] = [w EXCEPT !.added = 0, !.full = FALSE]
    /\ \A i \in 1..n : step[i] = AddLink(step[i - 1], links[i], depth)

LEMMA GrowthExists ==
    ASSUME NEW w, NEW links, NEW depth
    PROVE  \A n \in Nat : \E step : IsGrowth(w, links, depth, n, step)
<1> DEFINE T == {n \in Nat : \E step : IsGrowth(w, links, depth, n, step)}
<1>1. 0 \in T
  <2> DEFINE g == [i \in 0..0 |-> [w EXCEPT !.added = 0, !.full = FALSE]]
  <2>1. g[0] = [w EXCEPT !.added = 0, !.full = FALSE] /\ DOMAIN g = 0..0
    OBVIOUS
  <2>2. g = [i \in 0..0 |-> g[i]] /\ ~\E i \in 1..0 : TRUE
    OBVIOUS
  <2> HIDE DEF g
  <2>3. IsGrowth(w, links, depth, 0, g)
    BY <2>1, <2>2 DEF IsGrowth
  <2> QED
    BY <2>3
<1>2. ASSUME NEW n \in T PROVE n + 1 \in T
  <2>1. PICK r : IsGrowth(w, links, depth, n, r)
    OBVIOUS
  <2> DEFINE next == AddLink(r[n], links[n + 1], depth)
  <2> HIDE DEF next
  <2> DEFINE g == [i \in 0..n + 1 |-> IF i <= n THEN r[i] ELSE next]
  <2>2. DOMAIN g = 0..n + 1 /\ g = [i \in 0..n + 1 |-> g[i]] /\ g[0] = r[0]
    OBVIOUS
  <2>3. ASSUME NEW i \in 1..n + 1 PROVE g[i] = AddLink(g[i - 1], links[i], depth)
    <3>1. CASE i = n + 1
      <4>1. g[i] = next /\ g[i - 1] = r[n]
        BY <3>1
      <4> QED
        BY <4>1, <3>1 DEF next
    <3>2. CASE i \in 1..n
      <4>1. g[i] = r[i] /\ g[i - 1] = r[i - 1]
        BY <3>2
      <4> QED
        BY <4>1, <3>2, <2>1 DEF IsGrowth
    <3> QED
      BY <3>1, <3>2
  <2> HIDE DEF g
  <2>4. IsGrowth(w, links, depth, n + 1, g)
    BY <2>1, <2>2, <2>3 DEF IsGrowth
  <2> QED
    BY <2>4
<1> HIDE DEF T
<1>3. \A n \in Nat : n \in T
  <2>1. T \in SUBSET Nat
    BY DEF T
  <2> QED
    BY <1>1, <1>2, <2>1, NatSetInduction
<1> QED
  BY <1>3 DEF T

GrowthEquation(w, links, depth, step) ==
    step = [i \in 0..Len(links) |->
              IF i = 0 THEN [w EXCEPT !.added = 0, !.full = FALSE]
              ELSE AddLink(step[i - 1], links[i], depth)]

LEMMA AddLinksIsLast ==
    ASSUME NEW w, NEW links, Len(links) \in Nat, NEW depth
    PROVE  \E step : /\ IsGrowth(w, links, depth, Len(links), step)
                     /\ AddLinks(w, links, depth) = step[Len(links)]
<1> DEFINE r == CHOOSE step : GrowthEquation(w, links, depth, step)
<1>1. PICK u : IsGrowth(w, links, depth, Len(links), u)
  BY GrowthExists
<1>2. GrowthEquation(w, links, depth, u)
  <2>1. \A i \in 0..Len(links) :
          u[i] = IF i = 0 THEN [w EXCEPT !.added = 0, !.full = FALSE]
                 ELSE AddLink(u[i - 1], links[i], depth)
    BY <1>1 DEF IsGrowth
  <2> QED
    BY <1>1, <2>1 DEF IsGrowth, GrowthEquation
<1>3. GrowthEquation(w, links, depth, r)
  BY <1>2, Zenon
<1>4. AddLinks(w, links, depth) = r[Len(links)]
  BY Zenon DEF AddLinks, GrowthEquation
<1> HIDE DEF r
<1>5. \A i \in 0..Len(links) :
        r[i] = IF i = 0 THEN [w EXCEPT !.added = 0, !.full = FALSE]
               ELSE AddLink(r[i - 1], links[i], depth)
  BY <1>3 DEF GrowthEquation
<1>6. DOMAIN r = 0..Len(links) /\ r = [i \in 0..Len(links) |-> r[i]]
  BY <1>3 DEF GrowthEquation
<1>7. IsGrowth(w, links, depth, Len(links), r)
  BY <1>5, <1>6 DEF IsGrowth
<1> QED
  BY <1>4, <1>7

\* A walk that has n, to which links of n are added.
LEMMA AddLinksGrow ==
    ASSUME flowLimit \in FlowLimits, NEW v \in Walks, WalkBounded(v), EndsIn(v), Connected(v),
           NEW n \in v.nodes, NEW links, LinksOf(links, n), NEW depth \in Nat
    PROVE  Len(links) \in Nat /\ Grown(v, links, Len(links), AddLinks(v, links, depth))
<1>0. Len(links) \in Nat
  BY LenProperties DEF LinksOf
<1>1. PICK step : /\ IsGrowth(v, links, depth, Len(links), step)
                  /\ AddLinks(v, links, depth) = step[Len(links)]
  BY <1>0, AddLinksIsLast
<1> DEFINE T == {i \in Nat : i <= Len(links) => Grown(v, links, i, step[i])}
<1>2. 0 \in T
  <2> DEFINE x == [v EXCEPT !.added = 0, !.full = FALSE]
  <2>1. x \in Walks
    BY DEF Walks
  <2>2. /\ x.on = v.on /\ x.more = v.more /\ x.next = v.next /\ x.links = v.links
        /\ x.nodes = v.nodes /\ x.edges = v.edges /\ x.guessed = v.guessed
        /\ x.queue = v.queue /\ x.added = 0 /\ x.cut = v.cut /\ x.full = FALSE
    BY DEF Walks
  <2> HIDE DEF x
  <2>3. KeepsPage(v, x) /\ WalkBounded(x) /\ EndsIn(x) /\ Connected(x)
    BY <2>2 DEF KeepsPage, WalkBounded, EndsIn, Connected
  <2>4. Queued(x) = Queued(v) \cup (x.nodes \ v.nodes)
    BY <2>2 DEF Queued
  <2>5. Grown(v, links, 0, x)
    BY <2>1, <2>2, <2>3, <2>4 DEF Grown
  <2>6. step[0] = x
    BY <1>1 DEF IsGrowth, x
  <2> QED
    BY <2>5, <2>6
<1>3. ASSUME NEW i \in T PROVE i + 1 \in T
  <2> SUFFICES ASSUME i + 1 <= Len(links) PROVE Grown(v, links, i + 1, step[i + 1])
    OBVIOUS
  <2>1. Grown(v, links, i, step[i])
    BY <1>0
  <2>2. i + 1 \in 1..Len(links) /\ (i + 1) - 1 = i
    BY <1>0
  <2>3. step[i + 1] = AddLink(step[i], links[i + 1], depth)
    BY <1>1, <2>2 DEF IsGrowth
  <2>4. PICK u : u = step[i]
    OBVIOUS
  <2>5. i \in Nat /\ Grown(v, links, i, u)
    BY <2>1, <2>4
  <2>6. Grown(v, links, i + 1, AddLink(u, links[i + 1], depth))
    BY <2>5, LinkGrows
  <2> QED
    BY <2>3, <2>4, <2>6
<1> HIDE DEF T
<1>4. \A i \in Nat : i \in T
  <2>1. T \in SUBSET Nat
    BY DEF T
  <2> QED
    BY <1>2, <1>3, <2>1, NatSetInduction
<1> QED
  BY <1>0, <1>1, <1>4 DEF T

--------------------------------------------------------------------------------
(* The inductive invariant.                                                *)

Flows == [nodes : SUBSET FlowNodes, guessed : SUBSET FlowNodes, edges : SUBSET FlowEdges,
          links : Seq(FlowEdges), pages : Nat, next : Nat, more : BOOLEAN, truncated : BOOLEAN,
          limited : BOOLEAN, forgotten : BOOLEAN]

FlowGraphTyped ==
    /\ graph \in Graphs /\ flowLimit \in FlowLimits /\ flowAsks \in 0..MaxFlowAsks
    /\ graphChanged \in BOOLEAN
FlowShownTyped ==
    /\ shownFlow \in Flows
    /\ Cardinality(shownFlow.nodes) <= flowLimit.clientNodes
    /\ Cardinality(shownFlow.edges) <= flowLimit.clientEdges
FlowTyped == FlowGraphTyped /\ walk \in Walks /\ WalkBounded(walk) /\ FlowShownTyped

\* A walk has the root, queues nodes it has other than the root, and hangs together.
WalkSound(w) ==
    /\ FlowRoot \in w.nodes /\ Queued(w) \subseteq w.nodes \ {FlowRoot}
    /\ EndsIn(w) /\ Connected(w)

\* Unless it left something out, a walk has followed what it no longer has to.
WalkFollows(w) ==
    ~w.cut => \A n \in w.nodes \ (w.guessed \cup Queued(w) \cup {FlowRoot}) : Followed(n, w)

\* A walk answers for one page of the links of the root, from where the flow ends.
PageStart == IF walk.more THEN shownFlow.next ELSE 0
WalkPage ==
    /\ walk.more => shownFlow.more
    /\ PageStart <= RootTotal /\ walk.next = PageStart + Len(walk.links)
    /\ Len(walk.links) = Len(RootPage(PageStart))
    /\ \A i \in 1..Len(walk.links) :
         /\ walk.links[i] = RootPage(PageStart)[i].edge
         /\ ~walk.cut => walk.links[i] \in walk.edges
WalkInv == walk.on => WalkSound(walk) /\ WalkFollows(walk) /\ WalkPage

\* The i-th link of the root is in a flow.
Covered(flow, i) ==
    /\ i <= RootRows /\ Rows(FlowRoot)[i] \notin graph.hidden =>
         CallEdge(FlowRoot, Rows(FlowRoot)[i]) \in flow.edges /\ Rows(FlowRoot)[i] \in flow.nodes
    /\ i > RootRows => /\ i <= RootTotal
                       /\ RouteEdge(Client(i - RootRows)) \in flow.edges
                       /\ Client(i - RootRows) \in flow.nodes

\* The flow that is shown hangs together; its pages, while they are of one index and left
\* nothing out, follow what they show, and the root as far as they go.
FlowFollows ==
    /\ shownFlow.more <=> shownFlow.next < RootTotal
    /\ ~shownFlow.limited /\ ~shownFlow.forgotten =>
         /\ \A n \in shownFlow.nodes \ (shownFlow.guessed \cup {FlowRoot}) : Followed(n, shownFlow)
         /\ \A i \in 1..shownFlow.next : Covered(shownFlow, i)
FlowShownInv ==
    /\ shownFlow.more => shownFlow.pages > 0 /\ shownFlow.truncated
    /\ ~shownFlow.limited => Connected(shownFlow)
    /\ shownFlow.pages > 0 /\ ~graphChanged => FlowFollows

FlowIInv == FlowTyped /\ WalkInv /\ FlowShownInv /\ PagesAreOfTheRoot

\* What depends on the index alone stays with it.
LEMMA GraphStays ==
    ASSUME graph' = graph, flowLimit' = flowLimit
    PROVE  /\ \A n : Targets(n)' = Targets(n) /\ Rows(n)' = Rows(n)
           /\ RootTotal' = RootTotal /\ RootRows' = RootRows /\ PageSize' = PageSize
           /\ RootLinks' = RootLinks
           /\ \A i : Client(i)' = Client(i)
           /\ \A offset : RootPage(offset)' = RootPage(offset)
<1>1. ASSUME NEW n PROVE Targets(n)' = Targets(n) /\ Rows(n)' = Rows(n)
  <2>1. Targets(n)' = Targets(n)
    BY DEF Targets
  <2> QED
    BY <2>1 DEF Rows
<1>2. RootTotal' = RootTotal /\ RootRows' = RootRows /\ PageSize' = PageSize
  BY <1>1 DEF RootTotal, RootRows, PageSize
<1>3. RootLinks' = RootLinks
  <2>1. Rows(FlowRoot)' = Rows(FlowRoot) /\ Ordered(graph.clients)' = Ordered(graph.clients)
    BY <1>1
  <2>2. [i \in 1..Len(Rows(FlowRoot)) |-> CallEdge(FlowRoot, Rows(FlowRoot)[i])]'
        = [i \in 1..Len(Rows(FlowRoot)) |-> CallEdge(FlowRoot, Rows(FlowRoot)[i])]
    BY <2>1
  <2>3. [i \in 1..Len(Ordered(graph.clients)) |-> RouteEdge(Ordered(graph.clients)[i])]'
        = [i \in 1..Len(Ordered(graph.clients)) |-> RouteEdge(Ordered(graph.clients)[i])]
    BY <2>1
  <2> QED
    BY <2>2, <2>3 DEF RootLinks
<1>4. ASSUME NEW n, NEW m PROVE CallLink(n, m)' = CallLink(n, m)
  BY DEF CallLink
<1>5. ASSUME NEW n, NEW offset, NEW count PROVE Read(n, offset, count)' = Read(n, offset, count)
  <2>1. Rows(n)' = Rows(n)
    BY <1>1
  <2> DEFINE some == {Rows(n)[i] : i \in offset + 1..offset + count} \ graph.hidden
  <2>2. some' = some
    BY <2>1
  <2>3. PICK s : s = some
    OBVIOUS
  <2>4. some' = s
    BY <2>2, <2>3
  <2>5. Read(n, offset, count) = [i \in 1..Len(Ordered(s)) |-> CallLink(n, Ordered(s)[i])]
    BY <2>3 DEF Read
  <2>6. Read(n, offset, count)' = [i \in 1..Len(Ordered(s)) |-> CallLink(n, Ordered(s)[i])']
    BY <2>4 DEF Read
  <2> HIDE DEF some
  <2> QED
    BY <1>4, <2>5, <2>6
<1>6. ASSUME NEW offset PROVE RootPage(offset)' = RootPage(offset)
  <2> DEFINE rows == Len(Rows(FlowRoot))
             calls == Read(FlowRoot, offset, AtMost(PageSize, Less(rows, offset)))
             clients == Ordered(graph.clients)
             first == Less(offset, rows)
             count == AtMost(PageSize - Len(calls), Less(Len(clients), first))
  <2>1. PICK r, p, d : r = rows /\ p = PageSize /\ d = clients
    OBVIOUS
  <2>2. rows' = r /\ PageSize' = p /\ clients' = d
    BY <1>1, <1>2, <2>1
  <2>3. PICK c : c = Read(FlowRoot, offset, AtMost(p, Less(r, offset)))
    OBVIOUS
  <2>4. calls = c /\ calls' = c
    BY <1>5, <2>1, <2>2, <2>3
  <2>5. PICK f, n : f = Less(offset, r) /\ n = AtMost(p - Len(c), Less(Len(d), f))
    OBVIOUS
  <2>6. first = f /\ first' = f /\ count = n /\ count' = n
    BY <2>1, <2>2, <2>4, <2>5
  <2>7. RootPage(offset) = c \o [i \in 1..n |-> [node |-> d[f + i], edge |-> RouteEdge(d[f + i]), guess |-> FALSE]]
    BY <2>1, <2>4, <2>6 DEF RootPage
  <2>8. RootPage(offset)' = c \o [i \in 1..n |-> [node |-> d[f + i], edge |-> RouteEdge(d[f + i]), guess |-> FALSE]]
    BY <2>2, <2>4, <2>6 DEF RootPage
  <2> QED
    BY <2>7, <2>8
<1>7. \A i : Client(i)' = Client(i)
  BY DEF Client
<1> QED
  BY <1>1, <1>2, <1>3, <1>6, <1>7

--------------------------------------------------------------------------------
(* The walk.                                                               *)

LEMMA FollowedGrows ==
    ASSUME NEW n, NEW f, NEW g, Followed(n, f), f.nodes \subseteq g.nodes, f.edges \subseteq g.edges
    PROVE  Followed(n, g)
<1> QED
  BY DEF Followed

\* A walk begins with a page of the links of the root.
WalkBegun(w, offset, more) ==
    /\ w \in Walks /\ WalkBounded(w) /\ WalkSound(w) /\ WalkFollows(w)
    /\ w.on = TRUE /\ w.more = more /\ w.next = offset + Len(w.links)
    /\ Len(w.links) = Len(RootPage(offset))
    /\ \A i \in 1..Len(w.links) :
         w.links[i] = RootPage(offset)[i].edge /\ (~w.cut => w.links[i] \in w.edges)

WalkOf(offset, more, links) ==
    [NoWalk EXCEPT !.on = TRUE, !.more = more, !.next = NextOffset(offset, links),
                   !.nodes = {FlowRoot}, !.scanned = Len(links),
                   !.links = [i \in 1..Len(links) |-> links[i].edge]]

LEMMA WalkBegins ==
    ASSUME FlowGraphTyped, NEW offset \in Nat, offset <= RootTotal, NEW more \in BOOLEAN,
           NEW w, w = AddLinks(WalkOf(offset, more, RootPage(offset)), RootPage(offset), 1)
    PROVE  WalkBegun(w, offset, more)
<1>1. PICK links : links = RootPage(offset)
  OBVIOUS
<1>2. LinksOf(links, FlowRoot) /\ Len(links) \in Nat /\ links \in Seq(FlowLinks)
  <2>1. LinksOf(links, FlowRoot) /\ Len(links) \in Nat
    BY <1>1, RootPageIs DEF FlowGraphTyped
  <2> QED
    BY <2>1 DEF LinksOf
<1> DEFINE edges == [i \in 1..Len(links) |-> links[i].edge]
<1>3. edges \in Seq(FlowEdges) /\ Len(edges) = Len(links) /\ \A i \in 1..Len(links) : edges[i] = links[i].edge
  <2>1. \A i \in 1..Len(links) : links[i].edge \in FlowEdges
    <3>1. \A i \in 1..Len(links) : links[i] \in FlowLinks
      BY <1>2, ElementOfSeq
    <3> QED
      BY <3>1 DEF FlowLinks
  <2>2. edges \in [1..Len(links) -> FlowEdges]
    BY <2>1
  <2>3. \A i \in 1..Len(links) : edges[i] = links[i].edge
    OBVIOUS
  <2> HIDE DEF edges
  <2> QED
    BY <1>2, <2>2, <2>3, SeqDef
<1> HIDE DEF edges
<1> DEFINE v == [on |-> TRUE, more |-> more, next |-> offset + Len(links), links |-> edges,
                 queue |-> <<>>, nodes |-> {FlowRoot}, guessed |-> {}, edges |-> {},
                 cut |-> FALSE, added |-> 0, full |-> FALSE, expansions |-> 0,
                 scanned |-> Len(links)]
<1>4. w = AddLinks(v, links, 1)
  <2>1. NoWalk = [on |-> FALSE, more |-> FALSE, next |-> 0, links |-> <<>>, queue |-> <<>>,
                  nodes |-> {}, guessed |-> {}, edges |-> {}, cut |-> FALSE, added |-> 0,
                  full |-> FALSE, expansions |-> 0, scanned |-> 0]
    BY DEF NoWalk
  <2>2. WalkOf(offset, more, links) =
          [NoWalk EXCEPT !.on = TRUE, !.more = more, !.next = offset + Len(links),
             !.nodes = {FlowRoot}, !.scanned = Len(links), !.links = edges]
    BY DEF WalkOf, NextOffset, edges
  <2>3. PICK k, l : k = Len(links) /\ l = offset + Len(links)
    OBVIOUS
  <2>4. WalkOf(offset, more, links) = v
    BY <2>1, <2>2, <2>3
  <2> HIDE DEF v
  <2> QED
    BY <1>1, <2>4
<1>5. v \in Walks
  <2>1. FlowRoot \in FlowNodes /\ <<>> \in Seq(QueueItems)
    BY FlowPagesAssumption, EmptySeq
  <2> QED
    BY <1>2, <1>3, <2>1 DEF Walks
<1>6. WalkBounded(v) /\ EndsIn(v) /\ Connected(v) /\ Queued(v) = {} /\ v.nodes = {FlowRoot}
  <2>1. Cardinality({FlowRoot}) = 1 /\ Cardinality({}) = 0
    BY FS_Singleton, FS_EmptySet
  <2>2. flowLimit.nodes \in Nat /\ flowLimit.edges \in Nat /\ flowLimit.nodes > 1
    BY LimitsAreNumbers DEF FlowGraphTyped
  <2>3. WalkBounded(v)
    BY <2>1, <2>2 DEF WalkBounded
  <2>4. EndsIn(v) /\ Connected(v)
    BY DEF EndsIn, Connected
  <2>5. Queued(v) = {}
    BY DEF Queued
  <2> QED
    BY <2>3, <2>4, <2>5
<1>7. /\ v.on = TRUE /\ v.more = more /\ v.next = offset + Len(links) /\ v.links = edges
  OBVIOUS
<1> HIDE DEF v
<1>8. Grown(v, links, Len(links), w)
  <2>1. FlowRoot \in v.nodes /\ 1 \in Nat
    BY <1>6
  <2> QED
    BY <1>2, <1>4, <1>5, <1>6, <2>1, AddLinksGrow DEF FlowGraphTyped
<1>9. w \in Walks /\ WalkBounded(w) /\ KeepsPage(v, w) /\ FlowRoot \in w.nodes
  BY <1>6, <1>8 DEF Grown, KeepsPage
<1>10. Queued(w) = w.nodes \ {FlowRoot}
  BY <1>6, <1>8 DEF Grown
<1>11. WalkSound(w) /\ WalkFollows(w)
  BY <1>8, <1>9, <1>10 DEF Grown, WalkSound, WalkFollows
<1>12. w.links = edges /\ w.on = TRUE /\ w.more = more /\ w.next = offset + Len(links)
  BY <1>7, <1>9 DEF KeepsPage
<1>13. ASSUME NEW i \in 1..Len(links), ~w.cut PROVE edges[i] \in w.edges
  <2>1. ~w.full /\ links[i].edge \in w.edges
    BY <1>8, <1>13 DEF Grown
  <2> QED
    BY <1>3, <2>1
<1> QED
  BY <1>1, <1>3, <1>9, <1>11, <1>12, <1>13 DEF WalkBegun

\* A step keeps what a walk has for its page.
WalkGoesOn(v, w) ==
    w \in Walks /\ WalkBounded(w) /\ WalkSound(w) /\ WalkFollows(w) /\ KeepsPage(v, w)

\* A walk that has followed all but n,
AllBut(n, w) ==
    ~w.cut => \A m \in w.nodes \ (w.guessed \cup Queued(w) \cup {FlowRoot, n}) : Followed(m, w)

LEMMA HeadIsNext ==
    ASSUME NEW v \in Walks, WalkBounded(v), WalkSound(v), WalkFollows(v), v.queue # <<>>,
           NEW w, w = [v EXCEPT !.queue = Tail(@)]
    PROVE  /\ Head(v.queue) \in QueueItems /\ w \in Walks /\ WalkBounded(w) /\ WalkSound(w)
           /\ KeepsPage(v, w) /\ Head(v.queue).node \in w.nodes \ {FlowRoot}
           /\ AllBut(Head(v.queue).node, w)
<1> DEFINE q == v.queue
           t == Tail(q)
           n == Head(q).node
<1>1. q \in Seq(QueueItems) /\ q # <<>>
  BY DEF Walks
<1> HIDE DEF q
<1>2. /\ Head(q) \in QueueItems /\ t \in Seq(QueueItems) /\ Len(t) = Len(q) - 1
      /\ \A i \in 1..Len(t) : t[i] = q[i + 1]
  BY <1>1, HeadTailProperties
<1>3. Len(q) \in Nat \ {0} /\ Head(q) = q[1]
  BY <1>1, EmptySeq
<1>4. w = [v EXCEPT !.queue = t]
  BY DEF q
<1> HIDE DEF t
<1>5. w \in Walks
  BY <1>2, <1>4 DEF Walks
<1>6. /\ w.on = v.on /\ w.more = v.more /\ w.next = v.next /\ w.links = v.links
      /\ w.nodes = v.nodes /\ w.edges = v.edges /\ w.guessed = v.guessed
      /\ w.queue = t /\ w.cut = v.cut
  BY <1>4 DEF Walks
<1>7. Queued(v) = {q[i].node : i \in 1..Len(q)} /\ Queued(w) = {t[i].node : i \in 1..Len(t)}
  BY <1>6 DEF Queued, q
<1>8. n \in Queued(v)
  BY <1>3, <1>7
<1>9. Queued(w) \subseteq Queued(v)
  <2>1. \A i \in 1..Len(t) : i + 1 \in 1..Len(q)
    BY <1>2, <1>3
  <2> QED
    BY <1>2, <1>7, <2>1
<1>10. Queued(v) \subseteq Queued(w) \cup {n}
  <2>1. ASSUME NEW i \in 1..Len(q) PROVE q[i].node \in Queued(w) \cup {n}
    <3>1. CASE i = 1
      BY <1>3, <3>1
    <3>2. CASE i # 1
      <4>1. i - 1 \in 1..Len(t) /\ (i - 1) + 1 = i
        BY <1>2, <1>3, <3>2
      <4>2. t[i - 1] = q[i]
        BY <1>2, <4>1
      <4> QED
        BY <1>7, <4>1, <4>2
    <3> QED
      BY <3>1, <3>2
  <2> QED
    BY <1>7, <2>1
<1>11. WalkBounded(w) /\ KeepsPage(v, w)
  BY <1>6 DEF WalkBounded, KeepsPage
<1>12. WalkSound(w) /\ n \in w.nodes \ {FlowRoot}
  BY <1>6, <1>8, <1>9 DEF WalkSound, EndsIn, Connected
<1>13. AllBut(n, w)
  <2> SUFFICES ASSUME ~w.cut, NEW m \in w.nodes \ (w.guessed \cup Queued(w) \cup {FlowRoot, n})
               PROVE  Followed(m, w)
    BY DEF AllBut
  <2>1. m \in v.nodes \ (v.guessed \cup Queued(v) \cup {FlowRoot}) /\ ~v.cut
    BY <1>6, <1>10
  <2>2. Followed(m, v)
    BY <2>1 DEF WalkFollows
  <2>3. v.nodes \subseteq w.nodes /\ v.edges \subseteq w.edges
    BY <1>6
  <2> QED
    BY <2>2, <2>3, FollowedGrows
<1> QED
  BY <1>2, <1>5, <1>11, <1>12, <1>13 DEF q

\* A walk that ends, or that does not follow n.
LEMMA WalkEnds ==
    ASSUME NEW w \in Walks, WalkBounded(w), WalkSound(w), NEW n, AllBut(n, w),
           NEW x, x = [w EXCEPT !.cut = TRUE, !.queue = <<>>]
    PROVE  WalkGoesOn(w, x)
<1>1. x \in Walks
  <2>1. <<>> \in Seq(QueueItems)
    BY EmptySeq
  <2> QED
    BY <2>1 DEF Walks
<1>2. /\ x.on = w.on /\ x.more = w.more /\ x.next = w.next /\ x.links = w.links
      /\ x.nodes = w.nodes /\ x.edges = w.edges /\ x.guessed = w.guessed
      /\ x.queue = <<>> /\ x.cut = TRUE
  BY DEF Walks
<1>3. Queued(x) = {}
  BY <1>2 DEF Queued
<1>4. WalkBounded(x) /\ KeepsPage(w, x)
  BY <1>2 DEF WalkBounded, KeepsPage
<1>5. WalkSound(x)
  BY <1>2, <1>3 DEF WalkSound, EndsIn, Connected
<1>6. WalkFollows(x)
  BY <1>2 DEF WalkFollows
<1> QED
  BY <1>1, <1>4, <1>5, <1>6 DEF WalkGoesOn

\* A step that changes neither nodes nor edges, after which n need not be followed any more.
LEMMA NodeIsDone ==
    ASSUME NEW w \in Walks, WalkBounded(w), WalkSound(w), NEW n, AllBut(n, w),
           NEW x \in Walks,
           x.on = w.on, x.more = w.more, x.next = w.next, x.links = w.links,
           x.nodes = w.nodes, x.edges = w.edges, x.guessed = w.guessed, x.queue = w.queue,
           w.cut => x.cut, x.cut \/ n \in w.guessed \/ Followed(n, w)
    PROVE  WalkGoesOn(w, x)
<1>1. Queued(x) = Queued(w)
  BY DEF Queued
<1>2. WalkBounded(x) /\ KeepsPage(w, x)
  BY DEF WalkBounded, KeepsPage
<1>3. WalkSound(x)
  BY <1>1 DEF WalkSound, EndsIn, Connected
<1>4. WalkFollows(x)
  <2> SUFFICES ASSUME ~x.cut, NEW m \in x.nodes \ (x.guessed \cup Queued(x) \cup {FlowRoot})
               PROVE  Followed(m, x)
    BY DEF WalkFollows
  <2>1. Followed(m, w)
    <3>1. CASE m = n
      BY <3>1
    <3>2. CASE m # n
      BY <1>1, <3>2 DEF AllBut
    <3> QED
      BY <3>1, <3>2
  <2>2. w.nodes \subseteq x.nodes /\ w.edges \subseteq x.edges
    OBVIOUS
  <2> QED
    BY <2>1, <2>2, FollowedGrows
<1> QED
  BY <1>2, <1>3, <1>4 DEF WalkGoesOn

\* The links of n that are added: when they are as many as there are, n is followed.
LEMMA NodeIsFollowed ==
    ASSUME graph \in Graphs, flowLimit \in FlowLimits, NEW n \in FlowNodes, n # FlowRoot,
           NEW v, NEW count \in Nat, count <= Len(ChildLinks(n)),
           NEW w, Grown(v, SubSeq(ChildLinks(n), 1, count), count, w), ~w.cut,
           ~LeavesOut(n, w.added)
    PROVE  Followed(n, w)
<1> DEFINE links == ChildLinks(n)
           some == SubSeq(links, 1, count)
<1>1. LinksOf(links, n) /\ LinkTotal(n) \in Nat /\ Len(links) <= LinkTotal(n)
  BY ChildLinksAre
<1>2. links \in Seq(FlowLinks) /\ Len(links) \in Nat
  BY <1>1, LenProperties DEF LinksOf
<1>3. w.added \in Nat /\ w.added <= count /\ (w.full => w.cut)
  BY DEF Grown, Walks
<1>4. count = Len(links) /\ Len(links) >= LinkTotal(n)
  BY <1>1, <1>2, <1>3 DEF LeavesOut
<1>5. /\ \A m \in Targets(n) \ graph.hidden : Leads(links, m, CallEdge(n, m))
      /\ n \in graph.clients => Leads(links, FlowRoot, RouteEdge(n))
  BY <1>4, ChildLinksAre
<1>6. some = links
  BY <1>2, <1>4, SubSeqFull
<1>7. \A j \in 1..count : links[j].edge \in w.edges /\ links[j].node \in w.nodes
  <2>1. \A j \in 1..count : some[j].edge \in w.edges /\ some[j].node \in w.nodes
    BY <1>3 DEF Grown
  <2> HIDE DEF links, some
  <2> QED
    BY <1>6, <2>1
<1> HIDE DEF links
<1>8. \A m, e : Leads(links, m, e) => m \in w.nodes /\ e \in w.edges
  BY <1>4, <1>7 DEF Leads
<1>9. \A m \in Targets(n) \ graph.hidden : m \in w.nodes /\ CallEdge(n, m) \in w.edges
  BY <1>5, <1>8
<1>10. n \in graph.clients => RouteEdge(n) \in w.edges
  BY <1>5, <1>8
<1> QED
  BY <1>9, <1>10 DEF Followed

\* What adding the links of n makes of a walk that has followed all but n.
LEMMA NodeIsExpanded ==
    ASSUME FlowGraphTyped, NEW w \in Walks, WalkBounded(w), WalkSound(w),
           NEW n \in w.nodes \ {FlowRoot}, AllBut(n, w),
           NEW v \in Walks,
           v.on = w.on, v.more = w.more, v.next = w.next, v.links = w.links,
           v.nodes = w.nodes, v.edges = w.edges, v.guessed = w.guessed, v.queue = w.queue,
           v.cut = w.cut,
           NEW count \in Nat, count <= Len(ChildLinks(n)), NEW depth \in Nat,
           NEW y, y = AddLinks(v, SubSeq(ChildLinks(n), 1, count), depth),
           NEW z, z = [y EXCEPT !.cut = @ \/ LeavesOut(n, y.added)]
    PROVE  WalkGoesOn(w, z)
<1> DEFINE links == ChildLinks(n)
           some == SubSeq(links, 1, count)
<1>0. n \in FlowNodes /\ graph \in Graphs /\ flowLimit \in FlowLimits
  BY DEF Walks, FlowGraphTyped
<1>1. LinksOf(links, n) /\ links \in Seq(FlowLinks) /\ Len(links) \in Nat
  <2>1. LinksOf(links, n)
    BY <1>0, ChildLinksAre
  <2> QED
    BY <2>1, LenProperties DEF LinksOf
<1>2. LinksOf(some, n) /\ Len(some) = count
  <2> HIDE DEF links
  <2>1. \A i \in 1..count : i \in 1..Len(links) /\ links[i] \in FlowLinks
    <3>1. \A i \in 1..count : i \in 1..Len(links)
      BY <1>1 DEF links
    <3> QED
      BY <1>1, <3>1, ElementOfSeq
  <2>2. /\ some \in Seq(FlowLinks) /\ Len(some) = IF 1 <= count THEN count - 1 + 1 ELSE 0
        /\ \A i \in 1..count - 1 + 1 : some[i] = links[1 + i - 1]
    <3>1. 1 \in Int /\ count \in Int
      OBVIOUS
    <3> QED
      BY <2>1, <3>1, SubSeqProperties
  <2>3. Len(some) = count /\ \A i \in 1..count : some[i] = links[i]
    BY <2>2
  <2> QED
    BY <1>1, <2>1, <2>2, <2>3 DEF LinksOf
<1>3. WalkBounded(v) /\ EndsIn(v) /\ Connected(v) /\ Queued(v) = Queued(w) /\ n \in v.nodes
  BY DEF WalkBounded, WalkSound, EndsIn, Connected, Queued
<1>4. PICK s : s = some
  OBVIOUS
<1>5. Grown(v, s, count, y)
  <2>1. LinksOf(s, n) /\ Len(s) = count /\ y = AddLinks(v, s, depth)
    BY <1>2, <1>4
  <2>2. Grown(v, s, Len(s), AddLinks(v, s, depth))
    BY <1>0, <1>3, <2>1, AddLinksGrow
  <2> QED
    BY <2>1, <2>2
<1>6. y \in Walks /\ LeavesOut(n, y.added) \in BOOLEAN
  BY <1>5 DEF Grown, LeavesOut
<1> DEFINE left == LeavesOut(n, y.added)
<1> HIDE DEF left
<1>7. z = [y EXCEPT !.cut = y.cut \/ left] /\ left \in BOOLEAN
  BY <1>6 DEF left
<1>8. z \in Walks
  BY <1>6, <1>7 DEF Walks
<1>9. /\ z.on = y.on /\ z.more = y.more /\ z.next = y.next /\ z.links = y.links
      /\ z.nodes = y.nodes /\ z.edges = y.edges /\ z.guessed = y.guessed
      /\ z.queue = y.queue /\ z.cut = (y.cut \/ left)
  BY <1>6, <1>7 DEF Walks
<1>10. KeepsPage(v, y) /\ w.nodes \subseteq y.nodes /\ w.edges \subseteq y.edges
       /\ w.guessed \subseteq y.guessed /\ (w.cut => y.cut)
  BY <1>5 DEF Grown, KeepsPage
<1>11. KeepsPage(w, z) /\ WalkBounded(z)
  <2>1. KeepsPage(w, z)
    BY <1>9, <1>10 DEF KeepsPage
  <2>2. WalkBounded(z)
    BY <1>5, <1>9 DEF Grown, WalkBounded
  <2> QED
    BY <2>1, <2>2
<1>12. Queued(z) = Queued(w) \cup (y.nodes \ w.nodes)
  <2>1. Queued(y) = Queued(v) \cup (y.nodes \ v.nodes)
    BY <1>5 DEF Grown
  <2>2. Queued(z) = Queued(y)
    BY <1>9 DEF Queued
  <2> QED
    BY <1>3, <2>1, <2>2
<1>13. WalkSound(z)
  <2>1. EndsIn(z) /\ Connected(z)
    BY <1>5, <1>9 DEF Grown, EndsIn, Connected
  <2>2. FlowRoot \in w.nodes /\ Queued(w) \subseteq w.nodes \ {FlowRoot}
    BY DEF WalkSound
  <2> QED
    BY <1>9, <1>10, <1>12, <2>1, <2>2 DEF WalkSound
<1>14. WalkFollows(z)
  <2> SUFFICES ASSUME ~z.cut, NEW m \in z.nodes \ (z.guessed \cup Queued(z) \cup {FlowRoot})
               PROVE  Followed(m, z)
    BY DEF WalkFollows
  <2>1. ~y.cut /\ ~LeavesOut(n, y.added) /\ ~w.cut
    BY <1>9, <1>10 DEF left
  <2>2. Followed(m, y)
    <3>1. CASE m = n
      <4>1. Followed(n, y)
        BY <1>0, <1>4, <1>5, <2>1, NodeIsFollowed
      <4> QED
        BY <3>1, <4>1
    <3>2. CASE m # n
      <4>1. m \in w.nodes \ (w.guessed \cup Queued(w) \cup {FlowRoot, n})
        BY <1>9, <1>10, <1>12, <3>2
      <4>2. Followed(m, w)
        BY <2>1, <4>1 DEF AllBut
      <4> QED
        BY <1>10, <4>2, FollowedGrows
    <3> QED
      BY <3>1, <3>2
  <2>3. y.nodes \subseteq z.nodes /\ y.edges \subseteq z.edges
    BY <1>9
  <2> QED
    BY <2>2, <2>3, FollowedGrows
<1> QED
  BY <1>8, <1>11, <1>13, <1>14 DEF WalkGoesOn

LEMMA ExpandedGoesOn ==
    ASSUME FlowGraphTyped, NEW w \in Walks, WalkBounded(w), WalkSound(w),
           NEW n \in w.nodes \ {FlowRoot}, AllBut(n, w), NEW depth \in Nat
    PROVE  WalkGoesOn(w, Expanded(w, n, depth))
<1> DEFINE links == ChildLinks(n)
           x == [w EXCEPT !.expansions = @ + 1]
           read == [x EXCEPT !.scanned = @ + Len(links)]
           count == AtMost(AtMost(Len(links), flowLimit.children),
                           AtMost(Less(flowLimit.nodes, Cardinality(w.nodes)),
                                  Less(flowLimit.edges, Cardinality(w.edges))))
           y == AddLinks(read, SubSeq(links, 1, count), depth + 1)
           z == [y EXCEPT !.cut = @ \/ LeavesOut(n, y.added)]
           full == \/ Cardinality(z.nodes) >= flowLimit.nodes
                   \/ Cardinality(z.edges) >= flowLimit.edges
           left == [read EXCEPT !.cut = @ \/ LinkTotal(n) > 0]
           stop == [z EXCEPT !.cut = @ \/ z.queue # <<>>, !.queue = <<>>]
<1>1. Expanded(w, n, depth) = IF n \in w.guessed THEN x
                              ELSE IF depth >= flowLimit.depth THEN left
                              ELSE IF full THEN stop ELSE z
  BY Zenon DEF Expanded
<1>2. n \in FlowNodes /\ graph \in Graphs /\ flowLimit \in FlowLimits
  BY DEF Walks, FlowGraphTyped
<1>3. LinksOf(links, n) /\ LinkTotal(n) \in Nat /\ Len(links) \in Nat
  <2>1. LinksOf(links, n) /\ LinkTotal(n) \in Nat
    BY <1>2, ChildLinksAre
  <2> QED
    BY <2>1, LenProperties DEF LinksOf
<1> HIDE DEF links
<1>4. x \in Walks /\ read \in Walks
  <2>1. w.expansions + 1 \in Nat /\ w.scanned + Len(links) \in Nat
    BY <1>3 DEF Walks
  <2> QED
    BY <2>1 DEF Walks
<1>5. /\ x.on = w.on /\ x.more = w.more /\ x.next = w.next /\ x.links = w.links
      /\ x.nodes = w.nodes /\ x.edges = w.edges /\ x.guessed = w.guessed
      /\ x.queue = w.queue /\ x.cut = w.cut
      /\ read.on = w.on /\ read.more = w.more /\ read.next = w.next /\ read.links = w.links
      /\ read.nodes = w.nodes /\ read.edges = w.edges /\ read.guessed = w.guessed
      /\ read.queue = w.queue /\ read.cut = w.cut
  BY DEF Walks
<1> HIDE DEF x, read
<1>6. CASE n \in w.guessed
  <2>1. WalkGoesOn(w, x)
    BY <1>4, <1>5, <1>6, NodeIsDone
  <2> QED
    BY <1>1, <1>6, <2>1
<1>7. CASE n \notin w.guessed /\ depth >= flowLimit.depth
  <2>1. left \in Walks
    BY <1>4 DEF Walks
  <2>2. /\ left.on = w.on /\ left.more = w.more /\ left.next = w.next /\ left.links = w.links
        /\ left.nodes = w.nodes /\ left.edges = w.edges /\ left.guessed = w.guessed
        /\ left.queue = w.queue /\ left.cut = (w.cut \/ LinkTotal(n) > 0)
    BY <1>4, <1>5 DEF Walks
  <2>3. left.cut \/ Followed(n, w)
    <3>1. LinkTotal(n) = 0 => Followed(n, w)
      <4>1. LinkTotal(n) = 0 => Targets(n) = {} /\ n \notin graph.clients
        BY <1>2, NoLinksToFollow
      <4> QED
        BY <4>1 DEF Followed
    <3>2. LinkTotal(n) > 0 => left.cut
      BY <2>2, Zenon
    <3>3. LinkTotal(n) = 0 \/ LinkTotal(n) > 0
      BY <1>3
    <3> QED
      BY <3>1, <3>2, <3>3, Zenon
  <2> HIDE DEF left
  <2>4. WalkGoesOn(w, left)
    BY <2>1, <2>2, <2>3, NodeIsDone
  <2> QED
    BY <1>1, <1>7, <2>4
<1>8. count \in Nat /\ count <= Len(links)
  <2>1. Cardinality(w.nodes) \in Nat /\ Cardinality(w.edges) \in Nat
    BY NodesAndEdgesAreFinite DEF Walks
  <2>2. flowLimit.nodes \in Nat /\ flowLimit.edges \in Nat /\ flowLimit.children \in Nat
    BY <1>2, LimitsAreNumbers
  <2>3. /\ Less(flowLimit.nodes, Cardinality(w.nodes)) \in Nat
        /\ Less(flowLimit.edges, Cardinality(w.edges)) \in Nat
    BY <2>1, <2>2 DEF Less
  <2>4. \A a, b, c, d \in Nat : /\ AtMost(AtMost(a, b), AtMost(c, d)) \in Nat
                                /\ AtMost(AtMost(a, b), AtMost(c, d)) <= a
    BY DEF AtMost
  <2> QED
    BY <1>3, <2>2, <2>3, <2>4
<1> HIDE DEF count
<1>9. WalkGoesOn(w, z)
  <2>1. PICK c, d, v : c = count /\ d = depth + 1 /\ v = read
    OBVIOUS
  <2>2. PICK a : a = AddLinks(v, SubSeq(ChildLinks(n), 1, c), d)
    OBVIOUS
  <2>3. PICK b : b = [a EXCEPT !.cut = @ \/ LeavesOut(n, a.added)]
    OBVIOUS
  <2>4. c \in Nat /\ c <= Len(ChildLinks(n)) /\ d \in Nat /\ v \in Walks
    BY <1>4, <1>8, <2>1 DEF links
  <2>5. /\ v.on = w.on /\ v.more = w.more /\ v.next = w.next /\ v.links = w.links
        /\ v.nodes = w.nodes /\ v.edges = w.edges /\ v.guessed = w.guessed
        /\ v.queue = w.queue /\ v.cut = w.cut
    BY <1>5, <2>1
  <2>6. WalkGoesOn(w, b)
    BY <2>2, <2>3, <2>4, <2>5, NodeIsExpanded
  <2>7. b = z
    BY <2>1, <2>2, <2>3 DEF links
  <2> QED
    BY <2>6, <2>7
<1> HIDE DEF z
<1>10. WalkGoesOn(w, stop)
  <2>1. z \in Walks
    BY <1>9 DEF WalkGoesOn
  <2>2. stop \in Walks
    <3>1. <<>> \in Seq(QueueItems)
      BY EmptySeq
    <3> QED
      BY <2>1, <3>1 DEF Walks
  <2>3. /\ stop.on = z.on /\ stop.more = z.more /\ stop.next = z.next /\ stop.links = z.links
        /\ stop.nodes = z.nodes /\ stop.edges = z.edges /\ stop.guessed = z.guessed
        /\ stop.queue = <<>> /\ stop.cut = (z.cut \/ z.queue # <<>>)
    BY <2>1 DEF Walks
  <2> HIDE DEF stop
  <2>4. WalkBounded(stop) /\ KeepsPage(w, stop)
    BY <1>9, <2>3 DEF WalkGoesOn, WalkBounded, KeepsPage
  <2>5. Queued(stop) = {}
    BY <2>3 DEF Queued
  <2>6. WalkSound(stop)
    BY <1>9, <2>3, <2>5 DEF WalkGoesOn, WalkSound, EndsIn, Connected
  <2>7. WalkFollows(stop)
    <3> SUFFICES ASSUME ~stop.cut, NEW m \in stop.nodes \ (stop.guessed \cup Queued(stop) \cup {FlowRoot})
                 PROVE  Followed(m, stop)
      BY DEF WalkFollows
    <3>1. ~z.cut /\ z.queue = <<>>
      BY <2>3
    <3>2. Queued(z) = {}
      BY <3>1 DEF Queued
    <3>3. Followed(m, z)
      BY <1>9, <2>3, <3>1, <3>2 DEF WalkGoesOn, WalkFollows
    <3>4. z.nodes \subseteq stop.nodes /\ z.edges \subseteq stop.edges
      BY <2>3
    <3> QED
      BY <3>3, <3>4, FollowedGrows
  <2> QED
    BY <2>2, <2>4, <2>6, <2>7 DEF WalkGoesOn
<1> HIDE DEF stop
<1> QED
  BY <1>1, <1>6, <1>7, <1>9, <1>10

LEMMA ExpandGoesOn ==
    ASSUME FlowGraphTyped, NEW v \in Walks, WalkBounded(v), WalkSound(v), WalkFollows(v),
           v.queue # <<>>, NEW w, w = [v EXCEPT !.queue = Tail(@)],
           NEW x, x = IF Exhausted(w) THEN [w EXCEPT !.cut = TRUE, !.queue = <<>>]
                      ELSE Expanded(w, Head(v.queue).node, Head(v.queue).depth)
    PROVE  WalkGoesOn(v, x)
<1>1. PICK n, d : n = Head(v.queue).node /\ d = Head(v.queue).depth
  OBVIOUS
<1>2. /\ Head(v.queue) \in QueueItems /\ w \in Walks /\ WalkBounded(w) /\ WalkSound(w)
      /\ KeepsPage(v, w) /\ n \in w.nodes \ {FlowRoot} /\ AllBut(n, w)
  BY <1>1, HeadIsNext
<1>3. d \in Nat
  BY <1>1, <1>2 DEF QueueItems
<1>4. WalkGoesOn(w, x)
  <2>1. CASE Exhausted(w)
    <3>1. x = [w EXCEPT !.cut = TRUE, !.queue = <<>>]
      BY <2>1
    <3> QED
      BY <1>2, <3>1, WalkEnds, Zenon
  <2>2. CASE ~Exhausted(w)
    <3>1. x = Expanded(w, n, d)
      BY <1>1, <2>2
    <3>2. WalkGoesOn(w, Expanded(w, n, d))
      BY <1>2, <1>3, ExpandedGoesOn
    <3> QED
      BY <3>1, <3>2
  <2> QED
    BY <2>1, <2>2
<1>5. KeepsPage(v, x)
  BY <1>2, <1>4 DEF WalkGoesOn, KeepsPage
<1> QED
  BY <1>4, <1>5 DEF WalkGoesOn

--------------------------------------------------------------------------------
(* Every step keeps the invariant.                                         *)

LEMMA FlowPagesStart == FlowPagesInit => FlowIInv
<1> SUFFICES ASSUME FlowPagesInit PROVE FlowIInv
  OBVIOUS
<1>1. FlowGraphTyped
  <2>1. MaxFlowAsks \in Nat
    BY FlowPagesAssumption
  <2>2. graph \in Graphs /\ flowLimit \in FlowLimits /\ graphChanged = FALSE /\ flowAsks = 0
    BY DEF FlowPagesInit
  <2>3. flowAsks \in 0..MaxFlowAsks
    BY <2>1, <2>2
  <2> QED
    BY <2>2, <2>3 DEF FlowGraphTyped
<1>2. walk = NoWalk /\ shownFlow = NoFlow
  BY DEF FlowPagesInit
<1>3. \A S : <<>> \in Seq(S)
  BY EmptySeq
<1>4. walk \in Walks
  BY <1>2, <1>3 DEF NoWalk, Walks
<1>5. shownFlow \in Flows
  BY <1>2, <1>3 DEF NoFlow, Flows
<1>6. /\ walk.nodes = {} /\ walk.edges = {} /\ walk.on = FALSE
      /\ shownFlow.nodes = {} /\ shownFlow.edges = {} /\ shownFlow.pages = 0 /\ shownFlow.more = FALSE
  BY <1>2 DEF NoWalk, NoFlow
<1>7. Cardinality({}) = 0
  BY FS_EmptySet
<1>8. WalkBounded(walk) /\ FlowShownTyped
  BY <1>1, <1>5, <1>6, <1>7, LimitsAreNumbers DEF WalkBounded, FlowShownTyped, FlowGraphTyped
<1>9. Connected(shownFlow)
  BY <1>6 DEF Connected
<1> QED
  BY <1>1, <1>4, <1>6, <1>8, <1>9
  DEF FlowIInv, FlowTyped, WalkInv, FlowShownInv, PagesAreOfTheRoot

\* What is shown stays what it is while the index does.
LEMMA FlowStays ==
    ASSUME FlowShownInv, PagesAreOfTheRoot,
           graph' = graph, flowLimit' = flowLimit, shownFlow' = shownFlow, graphChanged' = graphChanged
    PROVE  FlowShownInv' /\ PagesAreOfTheRoot'
<1>1. /\ \A n : Targets(n)' = Targets(n) /\ Rows(n)' = Rows(n)
      /\ RootTotal' = RootTotal /\ RootRows' = RootRows /\ PageSize' = PageSize
      /\ RootLinks' = RootLinks
      /\ \A i : Client(i)' = Client(i)
  BY GraphStays
<1>2. ASSUME NEW n, Followed(n, shownFlow) PROVE Followed(n, shownFlow)'
  BY <1>1, <1>2 DEF Followed
<1>3. ASSUME NEW i, Covered(shownFlow, i) PROVE Covered(shownFlow, i)'
  BY <1>1, <1>3 DEF Covered
<1>4. FlowFollows => FlowFollows'
  BY <1>1, <1>2, <1>3 DEF FlowFollows
<1>5. Connected(shownFlow) => Connected(shownFlow)'
  BY DEF Connected
<1>6. FlowShownInv'
  BY <1>4, <1>5 DEF FlowShownInv
<1>7. PagesAreOfTheRoot'
  BY <1>1 DEF PagesAreOfTheRoot
<1> QED
  BY <1>6, <1>7

\* A walk that is as it should be, for the same index and flow.
LEMMA WalkStays ==
    ASSUME NEW w, walk' = w, WalkSound(w), WalkFollows(w),
           graph' = graph, flowLimit' = flowLimit, shownFlow' = shownFlow,
           NEW start, start = IF w.more THEN shownFlow.next ELSE 0,
           w.more => shownFlow.more, start <= RootTotal, w.next = start + Len(w.links),
           Len(w.links) = Len(RootPage(start)),
           \A i \in 1..Len(w.links) : /\ w.links[i] = RootPage(start)[i].edge
                                      /\ ~w.cut => w.links[i] \in w.edges
    PROVE  WalkInv'
<1>1. /\ \A n : Targets(n)' = Targets(n)
      /\ RootTotal' = RootTotal /\ \A k : RootPage(k)' = RootPage(k)
  BY GraphStays
<1>2. WalkSound(walk)'
  BY DEF WalkSound, EndsIn, Connected, Queued
<1>3. ASSUME NEW n, Followed(n, w) PROVE Followed(n, walk)'
  BY <1>1, <1>3 DEF Followed
<1>4. WalkFollows(walk)'
  BY <1>3 DEF WalkFollows, Queued
<1>5. PageStart' = start
  BY DEF PageStart
<1>6. RootPage(PageStart)' = RootPage(start)
  <2>1. RootPage(start)' = RootPage(start)
    BY <1>1
  <2> QED
    BY <1>5, <2>1
<1>7. WalkPage'
  BY <1>1, <1>5, <1>6 DEF WalkPage
<1> QED
  BY <1>2, <1>4, <1>7 DEF WalkInv

LEMMA WalkFromKeeps ==
    ASSUME FlowIInv, NEW offset, NEW more \in BOOLEAN, WalkFrom(offset, more),
           offset = IF more THEN shownFlow.next ELSE 0, more => shownFlow.more
    PROVE  FlowIInv'
<1>1. /\ graph' = graph /\ flowLimit' = flowLimit /\ shownFlow' = shownFlow
      /\ graphChanged' = graphChanged /\ ~walk.on
      /\ flowAsks < MaxFlowAsks /\ flowAsks' = flowAsks + 1
  BY DEF WalkFrom, Asks
<1>2. FlowTyped /\ FlowGraphTyped /\ FlowShownTyped
  BY DEF FlowIInv, FlowTyped
<1>3. FlowShownInv' /\ PagesAreOfTheRoot'
  BY <1>1, FlowStays DEF FlowIInv
<1>4. FlowGraphTyped' /\ FlowShownTyped'
  <2>1. MaxFlowAsks \in Nat
    BY FlowPagesAssumption
  <2>2. flowAsks' \in 0..MaxFlowAsks
    BY <1>1, <1>2, <2>1 DEF FlowGraphTyped
  <2>3. FlowGraphTyped'
    BY <1>1, <1>2, <2>2 DEF FlowGraphTyped
  <2>4. FlowShownTyped'
    BY <1>1, <1>2 DEF FlowShownTyped
  <2> QED
    BY <2>3, <2>4
<1>5. offset \in Nat /\ RootTotal \in Nat
  <2>1. shownFlow.next \in Nat
    BY <1>2 DEF FlowShownTyped, Flows
  <2>2. RootTotal \in Nat
    BY <1>2, RootLinksAre DEF FlowGraphTyped
  <2> QED
    BY <2>1, <2>2
<1>6. CASE offset > RootTotal
  <2>1. walk' = walk
    BY <1>6 DEF WalkFrom
  <2>2. (walk \in Walks /\ WalkBounded(walk))'
    BY <1>1, <1>2, <2>1 DEF FlowTyped, WalkBounded
  <2>3. WalkInv'
    BY <1>1, <2>1 DEF WalkInv
  <2> QED
    BY <1>3, <1>4, <2>2, <2>3 DEF FlowIInv, FlowTyped
<1>7. CASE ~(offset > RootTotal)
  <2>1. walk' = AddLinks(WalkOf(offset, more, RootPage(offset)), RootPage(offset), 1)
    BY <1>7 DEF WalkFrom, WalkOf
  <2>2. PICK w : w = AddLinks(WalkOf(offset, more, RootPage(offset)), RootPage(offset), 1)
    OBVIOUS
  <2>3. offset <= RootTotal
    BY <1>5, <1>7
  <2>4. WalkBegun(w, offset, more)
    BY <1>2, <1>5, <2>2, <2>3, WalkBegins
  <2>5. /\ w \in Walks /\ WalkBounded(w) /\ WalkSound(w) /\ WalkFollows(w)
        /\ w.more = more /\ w.next = offset + Len(w.links)
        /\ Len(w.links) = Len(RootPage(offset))
        /\ \A i \in 1..Len(w.links) :
             w.links[i] = RootPage(offset)[i].edge /\ (~w.cut => w.links[i] \in w.edges)
    BY <2>4 DEF WalkBegun
  <2>6. walk' = w
    BY <2>1, <2>2
  <2>7. WalkInv'
    <3>1. offset = (IF w.more THEN shownFlow.next ELSE 0) /\ (w.more => shownFlow.more)
      BY <2>5
    <3> QED
      BY <1>1, <2>3, <2>5, <2>6, <3>1, WalkStays
  <2>8. (walk \in Walks /\ WalkBounded(walk))'
    BY <1>1, <2>5, <2>6 DEF WalkBounded
  <2> QED
    BY <1>3, <1>4, <2>7, <2>8 DEF FlowIInv, FlowTyped
<1> QED
  BY <1>6, <1>7

LEMMA ExpandKeeps == FlowIInv /\ Expand => FlowIInv'
<1> SUFFICES ASSUME FlowIInv, Expand PROVE FlowIInv'
  OBVIOUS
<1>1. /\ graph' = graph /\ flowLimit' = flowLimit /\ shownFlow' = shownFlow
      /\ graphChanged' = graphChanged /\ flowAsks' = flowAsks /\ walk.on /\ walk.queue # <<>>
  BY DEF Expand
<1>2. PICK v : v = walk
  OBVIOUS
<1>3. PICK w : w = [v EXCEPT !.queue = Tail(@)]
  OBVIOUS
<1>4. PICK x : x = IF Exhausted(w) THEN [w EXCEPT !.cut = TRUE, !.queue = <<>>]
                   ELSE Expanded(w, Head(v.queue).node, Head(v.queue).depth)
  OBVIOUS
<1>5. walk' = x
  BY <1>2, <1>3, <1>4 DEF Expand
<1>6. /\ FlowGraphTyped /\ v \in Walks /\ WalkBounded(v) /\ WalkSound(v) /\ WalkFollows(v)
      /\ v.queue # <<>> /\ FlowShownTyped /\ WalkPage
  BY <1>1, <1>2 DEF FlowIInv, FlowTyped, WalkInv
<1>7. WalkGoesOn(v, x)
  BY <1>3, <1>4, <1>6, ExpandGoesOn, Zenon
<1>8. /\ x \in Walks /\ WalkBounded(x) /\ WalkSound(x) /\ WalkFollows(x)
      /\ x.more = v.more /\ x.next = v.next /\ x.links = v.links /\ v.edges \subseteq x.edges
      /\ v.cut => x.cut
  BY <1>7 DEF WalkGoesOn, KeepsPage
<1>9. WalkInv'
  <2>1. PICK start : start = PageStart
    OBVIOUS
  <2>2. start = (IF x.more THEN shownFlow.next ELSE 0) /\ (x.more => shownFlow.more)
    BY <1>2, <1>6, <1>8, <2>1 DEF PageStart, WalkPage
  <2>3. start <= RootTotal /\ x.next = start + Len(x.links) /\ Len(x.links) = Len(RootPage(start))
    BY <1>2, <1>6, <1>8, <2>1 DEF WalkPage
  <2>4. \A i \in 1..Len(x.links) : /\ x.links[i] = RootPage(start)[i].edge
                                   /\ ~x.cut => x.links[i] \in x.edges
    BY <1>2, <1>6, <1>8, <2>1 DEF WalkPage
  <2> QED
    BY <1>1, <1>5, <1>8, <2>2, <2>3, <2>4, WalkStays
<1>10. FlowShownInv' /\ PagesAreOfTheRoot'
  BY <1>1, FlowStays DEF FlowIInv
<1>11. FlowTyped'
  BY <1>1, <1>5, <1>6, <1>8 DEF FlowTyped, FlowGraphTyped, FlowShownTyped, WalkBounded
<1> QED
  BY <1>9, <1>10, <1>11 DEF FlowIInv

LEMMA ChangeGraphKeeps == FlowIInv /\ ChangeGraph => FlowIInv'
<1> SUFFICES ASSUME FlowIInv, ChangeGraph PROVE FlowIInv'
  OBVIOUS
<1>1. /\ ~walk.on /\ graphChanged' = TRUE /\ flowLimit' = flowLimit /\ walk' = walk
      /\ shownFlow' = shownFlow /\ flowAsks < MaxFlowAsks /\ flowAsks' = flowAsks + 1
  BY Zenon DEF ChangeGraph, Asks
<1>2. FlowGraphTyped /\ FlowShownTyped /\ walk \in Walks /\ WalkBounded(walk) /\ FlowShownInv
  BY DEF FlowIInv, FlowTyped
<1>3. graph' \in Graphs
  <2>0. graph \in Graphs
    BY <1>2 DEF FlowGraphTyped
  <2>1. ASSUME NEW call \in FlowNodes \X FlowNodes,
               graph' = [graph EXCEPT !.calls = @ \ {call}, !.guesses = @ \ {call}]
        PROVE  graph' \in Graphs
    BY <2>0, <2>1 DEF Graphs
  <2>2. ASSUME NEW call \in FlowNodes \X FlowNodes, graph' = [graph EXCEPT !.calls = @ \cup {call}]
        PROVE  graph' \in Graphs
    <3>1. graph.calls \cup {call} \in SUBSET (FlowNodes \X FlowNodes)
      BY <2>0 DEF Graphs
    <3> QED
      BY <2>0, <2>2, <3>1 DEF Graphs
  <2>3. ASSUME NEW n \in graph.clients, graph' = [graph EXCEPT !.clients = @ \ {n}]
        PROVE  graph' \in Graphs
    BY <2>0, <2>3 DEF Graphs
  <2>4. \/ \E call \in FlowNodes \X FlowNodes :
             graph' = IF call \in graph.calls
                      THEN [graph EXCEPT !.calls = @ \ {call}, !.guesses = @ \ {call}]
                      ELSE [graph EXCEPT !.calls = @ \cup {call}]
        \/ \E n \in graph.clients : graph' = [graph EXCEPT !.clients = @ \ {n}]
    BY Zenon DEF ChangeGraph
  <2>5. ASSUME NEW call \in FlowNodes \X FlowNodes,
               graph' = IF call \in graph.calls
                        THEN [graph EXCEPT !.calls = @ \ {call}, !.guesses = @ \ {call}]
                        ELSE [graph EXCEPT !.calls = @ \cup {call}]
        PROVE  graph' \in Graphs
    <3>1. CASE call \in graph.calls
      <4>1. graph' = [graph EXCEPT !.calls = @ \ {call}, !.guesses = @ \ {call}]
        BY <2>5, <3>1, Zenon
      <4> QED
        BY <2>1, <4>1, Zenon
    <3>2. CASE call \notin graph.calls
      <4>1. graph' = [graph EXCEPT !.calls = @ \cup {call}]
        BY <2>5, <3>2, Zenon
      <4> QED
        BY <2>2, <4>1
    <3> QED
      BY <3>1, <3>2
  <2> QED
    BY <2>3, <2>4, <2>5, Zenon
<1>4. FlowGraphTyped'
  <2>1. MaxFlowAsks \in Nat
    BY FlowPagesAssumption
  <2>2. flowAsks' \in 0..MaxFlowAsks
    BY <1>1, <1>2, <2>1 DEF FlowGraphTyped
  <2> QED
    BY <1>1, <1>2, <1>3, <2>2 DEF FlowGraphTyped
<1>5. FlowTyped'
  BY <1>1, <1>2, <1>4 DEF FlowTyped, FlowShownTyped, WalkBounded
<1>6. WalkInv' /\ PagesAreOfTheRoot'
  BY <1>1 DEF WalkInv, PagesAreOfTheRoot
<1>7. FlowShownInv'
  BY <1>1, <1>2 DEF FlowShownInv, Connected
<1> QED
  BY <1>5, <1>6, <1>7 DEF FlowIInv

\* A page has the links it answers for.
LEMMA PageCovers ==
    ASSUME graph \in Graphs, flowLimit \in FlowLimits, NEW start \in Nat, start <= RootTotal,
           NEW w \in Walks, EndsIn(w), Len(w.links) = Len(RootPage(start)),
           \A j \in 1..Len(w.links) : w.links[j] = RootPage(start)[j].edge /\ w.links[j] \in w.edges,
           NEW i \in start + 1..start + Len(w.links)
    PROVE  Covered(w, i)
<1>1. PICK links : links = RootPage(start)
  OBVIOUS
<1>2. PageHas(links, i)
  BY <1>1, RootPageIs
<1>3. ASSUME NEW m, NEW e, Leads(links, m, e) PROVE e \in w.edges
  BY <1>1, <1>3 DEF Leads
<1>4. ASSUME i <= RootRows, Rows(FlowRoot)[i] \notin graph.hidden
      PROVE  /\ CallEdge(FlowRoot, Rows(FlowRoot)[i]) \in w.edges
             /\ Rows(FlowRoot)[i] \in w.nodes
  <2>1. CallEdge(FlowRoot, Rows(FlowRoot)[i]) \in w.edges
    BY <1>2, <1>3, <1>4 DEF PageHas
  <2>2. CallEdge(FlowRoot, Rows(FlowRoot)[i]).target = Rows(FlowRoot)[i]
    BY DEF CallEdge
  <2> QED
    BY <2>1, <2>2 DEF EndsIn
<1>5. ASSUME i > RootRows
      PROVE  /\ i <= RootTotal /\ RouteEdge(Client(i - RootRows)) \in w.edges
             /\ Client(i - RootRows) \in w.nodes
  <2>1. i <= RootTotal /\ RouteEdge(Client(i - RootRows)) \in w.edges
    BY <1>2, <1>3, <1>5 DEF PageHas
  <2>2. RouteEdge(Client(i - RootRows)).source = Client(i - RootRows)
    BY DEF RouteEdge
  <2> QED
    BY <2>1, <2>2 DEF EndsIn
<1> QED
  BY <1>4, <1>5 DEF Covered

\* What two connected flows have is connected.
LEMMA JoinedIsConnected ==
    ASSUME NEW f, NEW g, Connected(f), Connected(g),
           NEW h, h.nodes = f.nodes \cup g.nodes, h.edges = f.edges \cup g.edges
    PROVE  Connected(h)
<1> QED
  BY DEF Connected

\* r is p followed by q, of lengths n and m.
IsJoined(p, q, n, m, r) ==
    /\ r \in Seq(FlowEdges) /\ Len(r) = n + m
    /\ \A i \in 1..n + m : r[i] = IF i <= n THEN p[i] ELSE q[i - n]

LEMMA EdgesJoined ==
    ASSUME NEW p, NEW q, NEW n, NEW m,
           /\ p \in Seq(FlowEdges) /\ q \in Seq(FlowEdges) /\ Len(p) = n /\ Len(q) = m
           /\ n \in Nat /\ m \in Nat
    PROVE  IsJoined(p, q, n, m, p \o q)
<1>1. /\ p \o q \in Seq(FlowEdges) /\ Len(p \o q) = n + m
      /\ \A i \in 1..n + m : (p \o q)[i] = IF i <= n THEN p[i] ELSE q[i - n]
  BY ConcatProperties
<1> QED
  BY <1>1 DEF IsJoined

\* The page that begins where the flow b ends continues its links.
LEMMA PageContinues ==
    ASSUME graph \in Graphs, flowLimit \in FlowLimits, Targets(FlowRoot) \cap graph.hidden = {},
           NEW start \in Nat, start <= RootTotal,
           NEW before \in Seq(FlowEdges), Len(before) = start, before = SubSeq(RootLinks, 1, start),
           NEW links \in Seq(FlowEdges), Len(links) = Len(RootPage(start)),
           \A j \in 1..Len(links) : links[j] = RootPage(start)[j].edge
    PROVE  /\ start + Len(links) <= RootTotal /\ (start < RootTotal => Len(links) > 0)
           /\ Len(before \o links) = start + Len(links)
           /\ before \o links = SubSeq(RootLinks, 1, start + Len(links))
<1>1. /\ RootLinks \in Seq(FlowEdges) /\ Len(RootLinks) = RootTotal /\ RootTotal \in Nat
  BY RootLinksAre
<1>2. Len(links) \in Nat /\ PageSize \in Nat /\ PageSize > 0
  BY LenProperties, LimitsAreNumbers
<1>3. /\ Len(links) = AtMost(PageSize, RootTotal - start)
      /\ \A j \in 1..Len(links) : links[j] = RootLinks[start + j]
  BY RootPageIs
<1>4. start + Len(links) <= RootTotal /\ (start < RootTotal => Len(links) > 0)
  BY <1>1, <1>2, <1>3 DEF AtMost
<1>5. PICK n, m, all, total : n = start /\ m = Len(links) /\ all = RootLinks /\ total = n + m
  OBVIOUS
<1>6. /\ before \o links \in Seq(FlowEdges) /\ Len(before \o links) = n + m
      /\ \A i \in 1..n + m : (before \o links)[i] = IF i <= n THEN before[i] ELSE links[i - n]
  <2>1. PICK p, q : p = before /\ q = links
    OBVIOUS
  <2>2. /\ p \in Seq(FlowEdges) /\ q \in Seq(FlowEdges) /\ Len(p) = n /\ Len(q) = m
        /\ n \in Nat /\ m \in Nat
    BY <1>2, <1>5, <2>1
  <2>3. IsJoined(p, q, n, m, p \o q)
    BY <2>2, EdgesJoined
  <2> QED
    BY <2>1, <2>3 DEF IsJoined
<1>7. n \in Nat /\ m \in Nat /\ all \in Seq(FlowEdges) /\ n + m <= Len(all) /\ Len(all) \in Nat
  BY <1>1, <1>2, <1>4, <1>5
<1>8. \A i \in 1..n : before[i] = all[i]
  <2>1. \A i \in 1..n : all[i] \in FlowEdges
    <3>1. \A i \in 1..n : i \in 1..Len(all)
      BY <1>7
    <3> QED
      BY <1>7, <3>1, ElementOfSeq
  <2>2. before = SubSeq(all, 1, n)
    BY <1>5
  <2>3. \A i \in 1..n - 1 + 1 : SubSeq(all, 1, n)[i] = all[1 + i - 1]
    <3>1. 1 \in Int /\ n \in Int
      BY <1>7
    <3> QED
      BY <2>1, <3>1, SubSeqProperties
  <2> QED
    BY <1>7, <2>2, <2>3
<1>9. \A i \in 1..n + m : (before \o links)[i] = all[i]
  <2> SUFFICES ASSUME NEW i \in 1..n + m PROVE (before \o links)[i] = all[i]
    OBVIOUS
  <2>1. CASE i <= n
    <3>1. i \in 1..n
      BY <1>7, <2>1
    <3>2. (before \o links)[i] = before[i]
      BY <1>6, <2>1
    <3> QED
      BY <1>8, <3>1, <3>2
  <2>2. CASE ~(i <= n)
    <3>1. i - n \in 1..m /\ n + (i - n) = i
      BY <1>7, <2>2
    <3>2. links[i - n] = all[n + (i - n)]
      BY <1>3, <1>5, <3>1
    <3> QED
      BY <1>6, <2>2, <3>1, <3>2
  <2> QED
    BY <2>1, <2>2
<1>10. /\ SubSeq(all, 1, n + m) \in Seq(FlowEdges) /\ Len(SubSeq(all, 1, n + m)) = n + m
       /\ \A i \in 1..n + m : SubSeq(all, 1, n + m)[i] = all[i]
  <2>1. \A i \in 1..total : all[i] \in FlowEdges
    <3>1. \A i \in 1..total : i \in 1..Len(all)
      BY <1>5, <1>7
    <3> QED
      BY <1>7, <3>1, ElementOfSeq
  <2>2. 1 \in Int /\ total \in Int /\ total \in Nat
    BY <1>5, <1>7
  <2>3. /\ SubSeq(all, 1, total) \in Seq(FlowEdges)
        /\ Len(SubSeq(all, 1, total)) = IF 1 <= total THEN total - 1 + 1 ELSE 0
        /\ \A i \in 1..total - 1 + 1 : SubSeq(all, 1, total)[i] = all[1 + i - 1]
    BY <2>1, <2>2, SubSeqProperties
  <2>4. Len(SubSeq(all, 1, total)) = total /\ \A i \in 1..total : SubSeq(all, 1, total)[i] = all[i]
    BY <2>2, <2>3
  <2> QED
    BY <1>5, <2>3, <2>4
<1>11. before \o links = SubSeq(all, 1, n + m)
  <2>1. PICK p, q : p = before \o links /\ q = SubSeq(all, 1, n + m)
    OBVIOUS
  <2>2. p \in Seq(FlowEdges) /\ q \in Seq(FlowEdges) /\ Len(p) = n + m /\ Len(q) = n + m
        /\ \A i \in 1..n + m : p[i] = q[i]
    BY <1>6, <1>9, <1>10, <2>1
  <2>3. p = q
    BY <2>2, SeqEqual
  <2> QED
    BY <2>1, <2>3
<1> QED
  BY <1>4, <1>5, <1>6, <1>11

\* What the page of the walk w makes of the flow b: all is kept, or the flow is limited.
Merges(b, w, f) ==
    /\ b \in Flows /\ f \in Flows
    /\ Cardinality(f.nodes) <= flowLimit.clientNodes
    /\ Cardinality(f.edges) <= flowLimit.clientEdges
    /\ f.links = b.links \o w.links /\ f.next = w.next
    /\ f.guessed = b.guessed \cup w.guessed
    /\ f.pages = AtMost(flowLimit.clientPages, b.pages + 1)
    /\ f.more <=> w.next < RootTotal
    /\ f.more => f.truncated
    /\ ~f.forgotten => ~b.forgotten /\ ~w.cut
    /\ ~f.limited => /\ ~b.limited /\ f.nodes = b.nodes \cup w.nodes
                     /\ f.edges = b.edges \cup w.edges

\* Every flow that AnswerFlowPage allows.
MergedFlow(b, f) ==
    LET more == walk.next < RootTotal
        pages == AtMost(flowLimit.clientPages, b.pages + 1)
        all == b.nodes \cup walk.nodes
        edges == b.edges \cup walk.edges
    IN  \E nodes \in Kept(b.nodes, all, flowLimit.clientNodes) :
        LET joined == {e \in edges : e.source \in nodes /\ e.target \in nodes}
        IN  \E kept \in Kept(b.edges, joined, flowLimit.clientEdges) :
            f = [nodes |-> nodes, guessed |-> b.guessed \cup walk.guessed,
                 edges |-> kept, links |-> b.links \o walk.links, pages |-> pages,
                 next |-> walk.next, more |-> more, truncated |-> walk.cut \/ more,
                 limited |-> \/ b.limited \/ kept # edges
                             \/ nodes # all
                             \/ walk.more /\ pages >= flowLimit.clientPages /\ more,
                 forgotten |-> b.forgotten \/ walk.cut]

LEMMA PageMerges ==
    ASSUME FlowTyped, AnswerFlowPage, NEW b, b = IF walk.more THEN shownFlow ELSE NoFlow
    PROVE  Merges(b, walk, shownFlow')
<1> DEFINE more == walk.next < RootTotal
           pages == AtMost(flowLimit.clientPages, b.pages + 1)
           all == b.nodes \cup walk.nodes
           edges == b.edges \cup walk.edges
           joined(nodes) == {e \in edges : e.source \in nodes /\ e.target \in nodes}
           flow(nodes, kept) ==
              [nodes |-> nodes, guessed |-> b.guessed \cup walk.guessed,
               edges |-> kept, links |-> b.links \o walk.links, pages |-> pages,
               next |-> walk.next, more |-> more, truncated |-> walk.cut \/ more,
               limited |-> \/ b.limited \/ kept # edges
                           \/ nodes # all
                           \/ walk.more /\ pages >= flowLimit.clientPages /\ more,
               forgotten |-> b.forgotten \/ walk.cut]
<1>0. MergedFlow(b, shownFlow')
  <2>1. MergedFlow(IF walk.more THEN shownFlow ELSE NoFlow, shownFlow')
    BY Zenon DEF AnswerFlowPage, MergedFlow
  <2> QED
    BY <2>1, Zenon
<1>1. PICK nodes \in Kept(b.nodes, all, flowLimit.clientNodes) :
        \E kept \in Kept(b.edges, joined(nodes), flowLimit.clientEdges) :
          shownFlow' = flow(nodes, kept)
  BY <1>0, Zenon DEF MergedFlow
<1>2. PICK kept \in Kept(b.edges, joined(nodes), flowLimit.clientEdges) :
        shownFlow' = flow(nodes, kept)
  BY <1>1
<1>3. b \in Flows
  <2>1. shownFlow \in Flows
    BY DEF FlowTyped, FlowShownTyped
  <2>2. NoFlow \in Flows
    <3>1. <<>> \in Seq(FlowEdges)
      BY EmptySeq
    <3> QED
      BY <3>1 DEF NoFlow, Flows
  <2> QED
    BY <2>1, <2>2
<1>4. walk \in Walks /\ flowLimit \in FlowLimits /\ graph \in Graphs
  BY DEF FlowTyped, FlowGraphTyped
<1>5. all \in SUBSET FlowNodes /\ edges \in SUBSET FlowEdges
  BY <1>3, <1>4 DEF Flows, Walks
<1>6. nodes \in SUBSET FlowNodes /\ Cardinality(nodes) = AtMost(Cardinality(all), flowLimit.clientNodes)
  BY <1>5 DEF Kept
<1>7. kept \in SUBSET FlowEdges
      /\ Cardinality(kept) = AtMost(Cardinality(joined(nodes)), flowLimit.clientEdges)
  BY <1>2, <1>5 DEF Kept
<1>8. Cardinality(nodes) <= flowLimit.clientNodes /\ Cardinality(kept) <= flowLimit.clientEdges
  <2>1. Cardinality(all) \in Nat
    BY <1>5, NodesAndEdgesAreFinite
  <2>2. joined(nodes) \in SUBSET FlowEdges
    BY <1>5
  <2>3. Cardinality(joined(nodes)) \in Nat
    BY <2>2, NodesAndEdgesAreFinite
  <2>4. flowLimit.clientNodes \in Nat /\ flowLimit.clientEdges \in Nat
    BY <1>4, LimitsAreNumbers
  <2> QED
    BY <1>6, <1>7, <2>1, <2>3, <2>4 DEF AtMost
<1>9. pages \in Nat
  <2>1. b.pages \in Nat
    BY <1>3 DEF Flows
  <2> QED
    BY <1>4, <2>1, LimitsAreNumbers DEF AtMost
<1>10. b.links \o walk.links \in Seq(FlowEdges)
  <2>1. b.links \in Seq(FlowEdges) /\ walk.links \in Seq(FlowEdges)
    BY <1>3, <1>4 DEF Flows, Walks
  <2> QED
    BY <2>1, ConcatProperties
<1>11. PICK links : links = b.links \o walk.links
  OBVIOUS
<1>12. PICK limited : limited = (\/ b.limited \/ kept # edges
                                 \/ nodes # all
                                 \/ walk.more /\ pages >= flowLimit.clientPages /\ more)
  OBVIOUS
<1>13. limited \in BOOLEAN /\ (~limited => ~b.limited /\ kept = edges /\ nodes = all)
  BY <1>12
<1>14. PICK guessed, truncated, forgotten, further :
         /\ guessed = b.guessed \cup walk.guessed /\ further = more
         /\ truncated = (walk.cut \/ more) /\ forgotten = (b.forgotten \/ walk.cut)
  OBVIOUS
<1>15. /\ guessed \in SUBSET FlowNodes /\ truncated \in BOOLEAN /\ forgotten \in BOOLEAN
       /\ further \in BOOLEAN /\ walk.next \in Nat
       /\ (further => truncated) /\ (~forgotten => ~b.forgotten /\ ~walk.cut)
       /\ (further <=> walk.next < RootTotal)
  <2>1. walk.cut \in BOOLEAN /\ walk.next \in Nat /\ walk.guessed \in SUBSET FlowNodes
    BY <1>4 DEF Walks
  <2>2. b.forgotten \in BOOLEAN /\ b.guessed \in SUBSET FlowNodes
    BY <1>3 DEF Flows
  <2>3. guessed \in SUBSET FlowNodes
    BY <1>14, <2>1, <2>2
  <2>4. /\ truncated \in BOOLEAN /\ forgotten \in BOOLEAN /\ further \in BOOLEAN
        /\ (further => truncated) /\ (~forgotten => ~b.forgotten /\ ~walk.cut)
        /\ (further <=> walk.next < RootTotal)
    <3>1. further \in BOOLEAN /\ (further <=> walk.next < RootTotal)
      <4>1. walk.next \in Nat /\ RootTotal \in Nat
        BY <1>4, <2>1, RootLinksAre
      <4>2. PICK k, t : k = walk.next /\ t = RootTotal
        OBVIOUS
      <4>3. further = (k < t) /\ k \in Nat /\ t \in Nat
        BY <1>14, <4>1, <4>2
      <4>4. further \in BOOLEAN
        BY <4>3
      <4>5. further <=> k < t
        BY <4>3
      <4> QED
        BY <4>2, <4>4, <4>5
    <3>2. truncated \in BOOLEAN /\ (further => truncated)
      BY <1>14, Zenon
    <3>3. forgotten \in BOOLEAN /\ (~forgotten => ~b.forgotten /\ ~walk.cut)
      BY <1>14, Zenon
    <3> QED
      BY <3>1, <3>2, <3>3
  <2> QED
    BY <2>1, <2>3, <2>4
<1>16. shownFlow' = [nodes |-> nodes, guessed |-> guessed, edges |-> kept, links |-> links,
                     pages |-> pages, next |-> walk.next, more |-> further,
                     truncated |-> truncated, limited |-> limited, forgotten |-> forgotten]
  BY <1>2, <1>11, <1>12, <1>14
<1>17. PICK f : f = shownFlow'
  OBVIOUS
<1> HIDE DEF pages, more
<1>18. f \in Flows
  BY <1>6, <1>7, <1>9, <1>10, <1>11, <1>13, <1>15, <1>16, <1>17 DEF Flows
<1>19. /\ f.nodes = nodes /\ f.guessed = guessed /\ f.edges = kept /\ f.links = links
       /\ f.pages = pages /\ f.next = walk.next /\ f.more = further
       /\ f.truncated = truncated /\ f.limited = limited /\ f.forgotten = forgotten
  BY <1>16, <1>17
<1>20. f.pages = AtMost(flowLimit.clientPages, b.pages + 1)
  BY <1>19 DEF pages
<1>21. /\ f.more <=> walk.next < RootTotal
       /\ f.more => f.truncated
       /\ ~f.forgotten => ~b.forgotten /\ ~walk.cut
       /\ ~f.limited => /\ ~b.limited /\ f.nodes = b.nodes \cup walk.nodes
                        /\ f.edges = b.edges \cup walk.edges
  BY <1>13, <1>15, <1>19
<1>22. Merges(b, walk, f)
  BY <1>3, <1>8, <1>11, <1>14, <1>18, <1>19, <1>20, <1>21 DEF Merges
<1> QED
  BY <1>17, <1>22

\* The flow that a page joins: it ends where the page begins.
JoinsAt(b, start) ==
    /\ start < RootTotal \/ RootTotal = 0
    /\ ~b.limited => Connected(b)
    /\ ~b.limited /\ ~b.forgotten =>
         /\ \A n \in b.nodes \ (b.guessed \cup {FlowRoot}) : Followed(n, b)
         /\ \A i \in 1..start : Covered(b, i)
    /\ Targets(FlowRoot) \cap graph.hidden = {} =>
         /\ b.links \in Seq(FlowEdges) /\ Len(b.links) = start
         /\ b.links = SubSeq(RootLinks, 1, start)
         /\ b.pages \in Nat /\ (b.pages <= Len(b.links) \/ RootTotal = 0)

LEMMA FlowIsJoined ==
    ASSUME FlowIInv, walk.on, walk.more => ~graphChanged,
           NEW b, b = IF walk.more THEN shownFlow ELSE NoFlow
    PROVE  JoinsAt(b, PageStart)
<1>1. FlowShownInv /\ WalkPage /\ PagesAreOfTheRoot /\ shownFlow \in Flows
  BY DEF FlowIInv, WalkInv, FlowTyped, FlowShownTyped
<1>2. CASE walk.more
  <2>1. b = shownFlow /\ PageStart = shownFlow.next /\ shownFlow.pages > 0 /\ ~graphChanged
    BY <1>1, <1>2 DEF PageStart, WalkPage, FlowShownInv
  <2>2. FlowFollows
    BY <1>1, <2>1 DEF FlowShownInv
  <2>3. ~b.limited => Connected(b)
    BY <1>1, <2>1 DEF FlowShownInv, Connected
  <2>4. ~b.limited /\ ~b.forgotten =>
          /\ \A n \in b.nodes \ (b.guessed \cup {FlowRoot}) : Followed(n, b)
          /\ \A i \in 1..PageStart : Covered(b, i)
    BY <2>1, <2>2 DEF FlowFollows
  <2>5. ASSUME Targets(FlowRoot) \cap graph.hidden = {}
        PROVE  /\ b.links \in Seq(FlowEdges) /\ Len(b.links) = PageStart
               /\ b.links = SubSeq(RootLinks, 1, PageStart)
               /\ b.pages \in Nat /\ (b.pages <= Len(b.links) \/ RootTotal = 0)
    <3>1. b.links \in Seq(FlowEdges) /\ b.pages \in Nat
      BY <1>1, <2>1 DEF Flows
    <3>2. /\ shownFlow.next = Len(shownFlow.links)
          /\ shownFlow.links = SubSeq(RootLinks, 1, shownFlow.next)
          /\ shownFlow.pages <= Len(shownFlow.links) \/ RootTotal = 0
      BY <1>1, <2>1, <2>5 DEF PagesAreOfTheRoot
    <3> QED
      BY <2>1, <3>1, <3>2
  <2>6. PageStart < RootTotal
    BY <1>1, <1>2, <2>1, <2>2 DEF WalkPage, FlowFollows
  <2> QED
    BY <2>3, <2>4, <2>5, <2>6 DEF JoinsAt
<1>3. CASE ~walk.more
  <2>1. b = NoFlow /\ PageStart = 0
    BY <1>3 DEF PageStart
  <2>2. b.nodes = {} /\ b.links = <<>> /\ b.pages = 0
    BY <2>1 DEF NoFlow
  <2>3. Connected(b)
    BY <2>2 DEF Connected
  <2>4. <<>> \in Seq(FlowEdges) /\ Len(<<>>) = 0 /\ SubSeq(RootLinks, 1, 0) = <<>>
    <3>1. SubSeq(RootLinks, 1, 0) = <<>>
      BY SubSeqEmpty
    <3> QED
      BY <3>1, EmptySeq
  <2>5. PageStart < RootTotal \/ RootTotal = 0
    <3>1. RootTotal \in Nat
      BY RootLinksAre DEF FlowIInv, FlowTyped, FlowGraphTyped
    <3> QED
      BY <2>1, <3>1
  <2>6. 1..PageStart = {}
    BY <2>1
  <2>7. ASSUME NEW n \in b.nodes PROVE FALSE
    BY <2>2, <2>7
  <2>8. /\ b.links \in Seq(FlowEdges) /\ Len(b.links) = PageStart
        /\ b.links = SubSeq(RootLinks, 1, PageStart)
        /\ b.pages \in Nat /\ b.pages <= Len(b.links)
    <3>1. b.links = <<>> /\ PageStart = 0 /\ b.pages = 0
      BY <2>1, <2>2
    <3>2. Len(b.links) = 0 /\ b.links \in Seq(FlowEdges) /\ SubSeq(RootLinks, 1, 0) = b.links
      BY <2>4, <3>1
    <3> QED
      BY <3>1, <3>2
  <2> QED
    BY <2>3, <2>5, <2>6, <2>7, <2>8 DEF JoinsAt
<1> QED
  BY <1>2, <1>3

\* A flow that a finished walk joins, of one index.
FlowIs(f) ==
    /\ f.more <=> f.next < RootTotal
    /\ ~f.limited /\ ~f.forgotten =>
         /\ \A n \in f.nodes \ (f.guessed \cup {FlowRoot}) : Followed(n, f)
         /\ \A i \in 1..f.next : Covered(f, i)
    /\ Targets(FlowRoot) \cap graph.hidden = {} =>
         /\ f.next = Len(f.links) /\ f.next <= RootTotal
         /\ f.links = SubSeq(RootLinks, 1, f.next)
         /\ f.pages <= Len(f.links) \/ RootTotal = 0

LEMMA PageIsJoined ==
    ASSUME FlowIInv, walk.on, walk.queue = <<>>, NEW b, JoinsAt(b, PageStart),
           NEW f, Merges(b, walk, f)
    PROVE  FlowIs(f)
<1>1. /\ graph \in Graphs /\ flowLimit \in FlowLimits /\ walk \in Walks
      /\ WalkSound(walk) /\ WalkFollows(walk) /\ WalkPage
  BY DEF FlowIInv, FlowTyped, FlowGraphTyped, WalkInv
<1>2. PICK start : start = PageStart
  OBVIOUS
<1>3. start \in Nat /\ start <= RootTotal
  <2>1. shownFlow.next \in Nat
    BY DEF FlowIInv, FlowTyped, FlowShownTyped, Flows
  <2> QED
    BY <1>1, <1>2, <2>1 DEF WalkPage, PageStart
<1>4. /\ walk.next = start + Len(walk.links) /\ Len(walk.links) = Len(RootPage(start))
      /\ \A i \in 1..Len(walk.links) :
           /\ walk.links[i] = RootPage(start)[i].edge
           /\ ~walk.cut => walk.links[i] \in walk.edges
  BY <1>1, <1>2 DEF WalkPage
<1>5. walk.links \in Seq(FlowEdges) /\ Len(walk.links) \in Nat
  <2>1. walk.links \in Seq(FlowEdges)
    BY <1>1 DEF Walks
  <2> QED
    BY <2>1, LenProperties
<1>6. Queued(walk) = {}
  BY DEF Queued
<1>7. f.next = start + Len(walk.links) /\ (f.more <=> f.next < RootTotal)
  BY <1>4 DEF Merges
<1>8. ASSUME ~f.limited, ~f.forgotten
      PROVE  /\ \A n \in f.nodes \ (f.guessed \cup {FlowRoot}) : Followed(n, f)
             /\ \A i \in 1..f.next : Covered(f, i)
  <2>1. /\ ~b.limited /\ ~b.forgotten /\ ~walk.cut
        /\ f.nodes = b.nodes \cup walk.nodes /\ f.edges = b.edges \cup walk.edges
        /\ f.guessed = b.guessed \cup walk.guessed
    BY <1>8 DEF Merges
  <2>2. /\ b.nodes \subseteq f.nodes /\ b.edges \subseteq f.edges
        /\ walk.nodes \subseteq f.nodes /\ walk.edges \subseteq f.edges
    BY <2>1
  <2>3. ASSUME NEW n \in f.nodes \ (f.guessed \cup {FlowRoot}) PROVE Followed(n, f)
    <3>1. CASE n \in b.nodes
      <4>1. Followed(n, b)
        BY <2>1, <3>1 DEF JoinsAt
      <4> QED
        BY <2>2, <4>1, FollowedGrows
    <3>2. CASE n \in walk.nodes
      <4>1. Followed(n, walk)
        BY <1>1, <1>6, <2>1, <3>2 DEF WalkFollows
      <4> QED
        BY <2>2, <4>1, FollowedGrows
    <3> QED
      BY <2>1, <3>1, <3>2
  <2>4. ASSUME NEW i \in 1..f.next PROVE Covered(f, i)
    <3>1. CASE i \in 1..start
      <4>1. Covered(b, i)
        BY <1>2, <2>1, <3>1 DEF JoinsAt
      <4> QED
        BY <2>2, <4>1 DEF Covered
    <3>2. CASE i \in start + 1..start + Len(walk.links)
      <4>1. EndsIn(walk)
        BY <1>1 DEF WalkSound
      <4>2. Covered(walk, i)
        BY <1>1, <1>3, <1>4, <2>1, <3>2, <4>1, PageCovers
      <4> QED
        BY <2>2, <4>2 DEF Covered
    <3> QED
      BY <1>3, <1>5, <1>7, <3>1, <3>2
  <2> QED
    BY <2>3, <2>4
<1>9. ASSUME Targets(FlowRoot) \cap graph.hidden = {}
      PROVE  /\ f.next = Len(f.links) /\ f.next <= RootTotal
             /\ f.links = SubSeq(RootLinks, 1, f.next)
             /\ f.pages <= Len(f.links) \/ RootTotal = 0
  <2>1. /\ b.links \in Seq(FlowEdges) /\ Len(b.links) = start
        /\ b.links = SubSeq(RootLinks, 1, start)
        /\ b.pages \in Nat /\ (b.pages <= Len(b.links) \/ RootTotal = 0)
    BY <1>2, <1>9 DEF JoinsAt
  <2>2. PICK p, q : p = b.links /\ q = walk.links
    OBVIOUS
  <2>3. /\ p \in Seq(FlowEdges) /\ Len(p) = start /\ p = SubSeq(RootLinks, 1, start)
        /\ q \in Seq(FlowEdges) /\ Len(q) = Len(RootPage(start))
        /\ \A j \in 1..Len(q) : q[j] = RootPage(start)[j].edge
    BY <1>4, <1>5, <2>1, <2>2
  <2>4. /\ start + Len(q) <= RootTotal /\ (start < RootTotal => Len(q) > 0)
        /\ Len(p \o q) = start + Len(q)
        /\ p \o q = SubSeq(RootLinks, 1, start + Len(q))
    BY <1>1, <1>3, <1>9, <2>3, PageContinues
  <2>5. f.links = p \o q /\ f.next = start + Len(q)
    BY <1>7, <2>2 DEF Merges
  <2>6. f.pages <= b.pages + 1
    <3>1. flowLimit.clientPages \in Nat
      BY <1>1, LimitsAreNumbers
    <3> QED
      BY <2>1, <3>1 DEF Merges, AtMost
  <2>7. f.pages \in Nat /\ Len(q) \in Nat
    BY <1>5, <2>2 DEF Merges, Flows
  <2>8. f.pages <= Len(f.links) \/ RootTotal = 0
    <3>1. SUFFICES ASSUME RootTotal # 0 PROVE f.pages <= Len(f.links)
      OBVIOUS
    <3>2. start < RootTotal
      BY <1>2, <3>1 DEF JoinsAt
    <3> QED
      BY <1>3, <2>1, <2>2, <2>4, <2>5, <2>6, <2>7, <3>1, <3>2
  <2> QED
    BY <2>4, <2>5, <2>8
<1> QED
  BY <1>7, <1>8, <1>9 DEF FlowIs

\* The step leaves no walk, and every flow that is joined as it should be will do.
LEMMA AnswerKeeps == FlowIInv /\ AnswerFlowPage => FlowIInv'
<1> SUFFICES ASSUME FlowIInv, AnswerFlowPage PROVE FlowIInv'
  OBVIOUS
<1>1. /\ graph' = graph /\ flowLimit' = flowLimit /\ flowAsks' = flowAsks
      /\ walk' = NoWalk /\ walk.on /\ walk.queue = <<>> /\ graphChanged' = (walk.more /\ graphChanged)
  BY Zenon DEF AnswerFlowPage
<1>2. FlowTyped /\ FlowGraphTyped /\ walk \in Walks /\ WalkSound(walk) /\ FlowShownInv
  BY <1>1 DEF FlowIInv, FlowTyped, WalkInv
<1>3. PICK b : b = IF walk.more THEN shownFlow ELSE NoFlow
  OBVIOUS
<1>4. PICK f : f = shownFlow'
  OBVIOUS
<1>5. Merges(b, walk, f)
  BY <1>2, <1>3, <1>4, PageMerges, Zenon
<1>6. FlowGraphTyped'
  <2>1. walk.more \in BOOLEAN /\ graphChanged \in BOOLEAN
    BY <1>2 DEF Walks, FlowGraphTyped
  <2>2. graphChanged' \in BOOLEAN
    BY <1>1, <2>1
  <2> QED
    BY <1>1, <1>2, <2>2 DEF FlowGraphTyped
<1>7. (walk \in Walks /\ WalkBounded(walk) /\ WalkInv)'
  <2>1. NoWalk \in Walks
    <3>1. \A S : <<>> \in Seq(S)
      BY EmptySeq
    <3> QED
      BY <3>1 DEF NoWalk, Walks
  <2>2. NoWalk.nodes = {} /\ NoWalk.edges = {} /\ NoWalk.on = FALSE /\ Cardinality({}) = 0
    BY FS_EmptySet DEF NoWalk
  <2>3. WalkBounded(walk)'
    BY <1>1, <1>2, <2>2, LimitsAreNumbers DEF WalkBounded, FlowGraphTyped
  <2> QED
    BY <1>1, <2>1, <2>2, <2>3 DEF WalkInv
<1>8. FlowShownTyped'
  BY <1>1, <1>4, <1>5 DEF FlowShownTyped, Merges
<1>9. f.more => f.pages > 0 /\ f.truncated
  <2>1. b.pages \in Nat
    BY <1>5 DEF Merges, Flows
  <2>2. flowLimit.clientPages \in Nat /\ flowLimit.clientPages > 0
    BY <1>2, LimitsAreNumbers DEF FlowGraphTyped
  <2>3. f.pages > 0
    BY <1>5, <2>1, <2>2 DEF Merges, AtMost
  <2> QED
    BY <1>5, <2>3 DEF Merges
<1>10. ~f.limited => Connected(f)
  <2>1. SUFFICES ASSUME ~f.limited PROVE Connected(f)
    OBVIOUS
  <2>2. ~b.limited /\ f.nodes = b.nodes \cup walk.nodes /\ f.edges = b.edges \cup walk.edges
    BY <1>5, <2>1 DEF Merges
  <2>3. Connected(b)
    <3>1. CASE walk.more
      BY <1>2, <1>3, <2>2, <3>1 DEF FlowShownInv
    <3>2. CASE ~walk.more
      <4>1. b.nodes = {}
        BY <1>3, <3>2 DEF NoFlow
      <4> QED
        BY <4>1 DEF Connected
    <3> QED
      BY <3>1, <3>2
  <2>4. Connected(walk)
    BY <1>2 DEF WalkSound
  <2> QED
    BY <2>2, <2>3, <2>4, JoinedIsConnected
<1>11. ~graphChanged' => FlowIs(f)
  <2>1. SUFFICES ASSUME ~graphChanged' PROVE FlowIs(f)
    OBVIOUS
  <2>2. walk.more => ~graphChanged
    BY <1>1, <2>1
  <2>3. JoinsAt(b, PageStart)
    BY <1>1, <1>3, <2>2, FlowIsJoined, Zenon
  <2> QED
    BY <1>1, <1>5, <2>3, PageIsJoined
<1>12. /\ \A n : Targets(n)' = Targets(n) /\ Rows(n)' = Rows(n)
       /\ RootTotal' = RootTotal /\ RootRows' = RootRows /\ RootLinks' = RootLinks
       /\ \A i : Client(i)' = Client(i)
  BY <1>1, GraphStays
<1>13. ASSUME NEW n, Followed(n, f) PROVE Followed(n, shownFlow)'
  BY <1>1, <1>4, <1>12, <1>13 DEF Followed
<1>14. ASSUME NEW i, Covered(f, i) PROVE Covered(shownFlow, i)'
  BY <1>1, <1>4, <1>12, <1>14 DEF Covered
<1>15. ~graphChanged' => FlowFollows'
  BY <1>4, <1>11, <1>12, <1>13, <1>14 DEF FlowIs, FlowFollows
<1>16. Connected(f) => Connected(shownFlow)'
  BY <1>4 DEF Connected
<1>17. FlowShownInv'
  BY <1>4, <1>9, <1>10, <1>15, <1>16 DEF FlowShownInv
<1>18. PagesAreOfTheRoot'
  BY <1>1, <1>4, <1>11, <1>12 DEF FlowIs, PagesAreOfTheRoot
<1> QED
  BY <1>6, <1>7, <1>8, <1>17, <1>18 DEF FlowIInv, FlowTyped

LEMMA FlowPagesStep == FlowIInv /\ [FlowPagesNext]_flowPagesVars => FlowIInv'
<1> SUFFICES ASSUME FlowIInv, [FlowPagesNext]_flowPagesVars PROVE FlowIInv'
  OBVIOUS
<1>1. CASE AskFlow
  <2>1. WalkFrom(0, FALSE)
    BY <1>1 DEF AskFlow
  <2>2. 0 = (IF FALSE THEN shownFlow.next ELSE 0) /\ FALSE \in BOOLEAN
    OBVIOUS
  <2> QED
    BY <2>1, <2>2, WalkFromKeeps
<1>2. CASE AskNextPage
  <2>1. WalkFrom(shownFlow.next, TRUE) /\ shownFlow.more
    BY <1>2 DEF AskNextPage
  <2> QED
    BY <2>1, WalkFromKeeps
<1>3. CASE Expand
  BY <1>3, ExpandKeeps
<1>4. CASE AnswerFlowPage
  BY <1>4, AnswerKeeps
<1>5. CASE ChangeGraph
  BY <1>5, ChangeGraphKeeps
<1>6. CASE UNCHANGED flowPagesVars
  <2>1. /\ graph' = graph /\ flowLimit' = flowLimit /\ walk' = walk /\ shownFlow' = shownFlow
        /\ graphChanged' = graphChanged /\ flowAsks' = flowAsks
    BY <1>6 DEF flowPagesVars
  <2>2. FlowTyped'
    BY <2>1 DEF FlowIInv, FlowTyped, FlowGraphTyped, FlowShownTyped, WalkBounded
  <2>3. FlowShownInv' /\ PagesAreOfTheRoot'
    BY <2>1, FlowStays DEF FlowIInv
  <2>4. WalkInv'
    <3>1. CASE ~walk.on
      BY <2>1, <3>1 DEF WalkInv
    <3>2. CASE walk.on
      <4>1. PICK w, start : w = walk /\ start = PageStart
        OBVIOUS
      <4>2. /\ WalkSound(w) /\ WalkFollows(w) /\ walk' = w
            /\ start = (IF w.more THEN shownFlow.next ELSE 0) /\ (w.more => shownFlow.more)
            /\ start <= RootTotal /\ w.next = start + Len(w.links)
            /\ Len(w.links) = Len(RootPage(start))
            /\ \A i \in 1..Len(w.links) : /\ w.links[i] = RootPage(start)[i].edge
                                          /\ ~w.cut => w.links[i] \in w.edges
        BY <2>1, <3>2, <4>1 DEF FlowIInv, WalkInv, WalkPage, PageStart
      <4> QED
        BY <2>1, <4>2, WalkStays
    <3> QED
      BY <3>1, <3>2
  <2> QED
    BY <2>2, <2>3, <2>4 DEF FlowIInv
<1> QED
  BY <1>1, <1>2, <1>3, <1>4, <1>5, <1>6 DEF FlowPagesNext

\* A flow whose pages have all the links of the root follows the root.
LEMMA RootIsFollowed ==
    ASSUME graph \in Graphs, flowLimit \in FlowLimits, NEW f, \A i \in 1..RootTotal : Covered(f, i)
    PROVE  Followed(FlowRoot, f)
<1>1. FlowRoot \in FlowNodes
  BY FlowPagesAssumption
<1>2. ASSUME NEW m \in Targets(FlowRoot) \ graph.hidden
      PROVE  m \in f.nodes /\ CallEdge(FlowRoot, m) \in f.edges
  <2>1. PICK i \in 1..Len(Rows(FlowRoot)) : Rows(FlowRoot)[i] = m
    BY <1>1, <1>2, RowsAre
  <2>2. i \in 1..RootTotal /\ i <= RootRows
    <3>1. RootRows \in Nat /\ RootTotal = RootRows + Cardinality(graph.clients)
      BY RootLinksAre
    <3>2. Cardinality(graph.clients) \in Nat
      BY ClientsAre
    <3> QED
      BY <2>1, <3>1, <3>2 DEF RootRows
  <2>3. Covered(f, i)
    BY <2>2
  <2> QED
    BY <1>2, <2>1, <2>2, <2>3 DEF Covered
<1>3. FlowRoot \notin graph.clients
  BY DEF Graphs, Others
<1>4. ASSUME NEW c \in graph.clients PROVE c \in f.nodes /\ RouteEdge(c) \in f.edges
  <2>1. /\ Cardinality(graph.clients) \in Nat /\ RootRows \in Nat
        /\ RootTotal = RootRows + Cardinality(graph.clients)
    BY ClientsAre, RootLinksAre
  <2>2. PICK i \in 1..Cardinality(graph.clients) : Client(i) = c
    <3>1. PICK i \in 1..Len(Ordered(graph.clients)) : Ordered(graph.clients)[i] = c
      BY <1>4, ClientsAre
    <3>2. Len(Ordered(graph.clients)) = Cardinality(graph.clients)
      BY ClientsAre
    <3> QED
      BY <3>1, <3>2 DEF Client
  <2>3. PICK k : k = RootRows + i
    OBVIOUS
  <2>4. k \in 1..RootTotal /\ k > RootRows /\ k - RootRows = i
    BY <2>1, <2>2, <2>3
  <2>5. Covered(f, k)
    BY <2>4
  <2> QED
    BY <2>2, <2>4, <2>5 DEF Covered
<1> QED
  BY <1>2, <1>3, <1>4 DEF Followed

LEMMA FlowIInvImplies == FlowIInv => FlowPagesInv
<1> SUFFICES ASSUME FlowIInv PROVE FlowPagesInv
  OBVIOUS
<1>1. /\ FlowTyped /\ FlowGraphTyped /\ FlowShownTyped /\ walk \in Walks /\ WalkBounded(walk)
      /\ FlowShownInv /\ PagesAreOfTheRoot
  BY DEF FlowIInv, FlowTyped
<1>2. FlowPagesTypeOK
  BY <1>1 DEF FlowPagesTypeOK, FlowGraphTyped, FlowShownTyped, Walks, QueueItems, Flows, WalkBounded
<1>3. ASSUME shownFlow.pages > 0, ~graphChanged, ~shownFlow.limited
      PROVE  /\ Connected(shownFlow)
             /\ ~shownFlow.truncated /\ ~shownFlow.forgotten =>
                  \A n \in shownFlow.nodes \ shownFlow.guessed : Followed(n, shownFlow)
  <2>1. Connected(shownFlow) /\ FlowFollows /\ (shownFlow.more => shownFlow.truncated)
    BY <1>1, <1>3 DEF FlowShownInv
  <2>2. ASSUME ~shownFlow.truncated, ~shownFlow.forgotten,
               NEW n \in shownFlow.nodes \ shownFlow.guessed
        PROVE  Followed(n, shownFlow)
    <3>1. CASE n # FlowRoot
      BY <1>3, <2>1, <2>2, <3>1 DEF FlowFollows
    <3>2. CASE n = FlowRoot
      <4>1. shownFlow.next \in Nat /\ RootTotal \in Nat
        BY <1>1, RootLinksAre DEF FlowShownTyped, Flows, FlowGraphTyped
      <4>2. RootTotal <= shownFlow.next
        BY <2>1, <2>2, <4>1 DEF FlowFollows
      <4>3. ASSUME NEW i \in 1..RootTotal PROVE Covered(shownFlow, i)
        <5>1. i \in 1..shownFlow.next
          BY <4>1, <4>2
        <5> QED
          BY <1>3, <2>1, <2>2, <5>1 DEF FlowFollows
      <4>4. graph \in Graphs /\ flowLimit \in FlowLimits
        BY <1>1 DEF FlowGraphTyped
      <4> QED
        BY <3>2, <4>3, <4>4, RootIsFollowed
    <3> QED
      BY <3>1, <3>2
  <2> QED
    BY <2>1, <2>2
<1> QED
  BY <1>1, <1>2, <1>3 DEF FlowPagesInv, FlowIsWhole

\* While the index is as it was for the first page, the pages of an execution flow bring
\* the links of the root in their order, each once and none skipped, and a flow that does
\* not say it is truncated follows every link of every node it shows, for every graph and
\* every setting of the limits (query_execution_flow, mergeExecutionFlow).
THEOREM FlowPagesHold == (FlowPagesInit /\ [][FlowPagesNext]_flowPagesVars) => []FlowPagesInv
<1> QED
  BY FlowPagesStart, FlowPagesStep, FlowIInvImplies, PTL
================================================================================
