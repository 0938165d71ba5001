----------------------------- MODULE SessionsProofs -----------------------------
(***************************************************************************)
(* What holds of every terminal session, of the terminal's slot and console *)
(* and of the WebSocket sessions, whatever the limits.  The input budget of  *)
(* a session is a sum over its queue, so its proof needs facts about sums;   *)
(* the library states induction with an operator as a parameter, and these   *)
(* lemmas get it from the well-foundedness of the naturals, in terms of sets. *)
(* That output left out is announced is an argument about the two queues      *)
(* between a shell and the console: the events of a session in a queue take   *)
(* the chunks told of it from one number to the next (a chain), and the       *)
(* chains of the queues meet.                                              *)
(***************************************************************************)
EXTENDS MCSessions, WellFoundedInduction, SequenceTheorems, FiniteSetTheorems, TLAPS

--------------------------------------------------------------------------------
(* Induction over the naturals, in terms of sets.                          *)

\* A set of naturals has a least element.
LEMMA NatMinimum ==
    ASSUME NEW T \in SUBSET Nat, T # {}
    PROVE  \E x \in T : \A y \in T : x <= y
<1>1. OpToRel(<, Nat) = {p \in Nat \X Nat : p[1] < p[2]}
  BY DEF OpToRel
<1>2. PICK x \in T : \A y \in T : <<y, x>> \notin {p \in Nat \X Nat : p[1] < p[2]}
  BY <1>1, NatLessThanWellFounded, WFMin
<1>3. ASSUME NEW y \in T PROVE x <= y
  <2>1. x \in Nat /\ y \in Nat /\ ~(y < x)
    BY <1>2
  <2> QED
    BY <2>1
<1> QED
  BY <1>3

\* A set that has 0 and every successor of its elements is all of Nat.
LEMMA NatSetInduction ==
    ASSUME NEW T \in SUBSET Nat, 0 \in T, \A n \in T : n + 1 \in T
    PROVE  \A n \in Nat : n \in T
<1>1. SUFFICES ASSUME Nat \ T # {} PROVE FALSE
  OBVIOUS
<1>2. PICK x \in Nat \ T : \A y \in Nat \ T : x <= y
  BY <1>1, NatMinimum
<1>3. x # 0 /\ x - 1 \in T
  BY <1>2
<1> QED
  BY <1>2, <1>3

--------------------------------------------------------------------------------
(* The greatest of finitely many naturals.                                  *)

HasMaximum(S) == \E x \in S : \A y \in S : y <= x

LEMMA FiniteMaximum ==
    ASSUME NEW S \in SUBSET Nat, IsFiniteSet(S), S # {}
    PROVE  Max(S) \in S /\ \A y \in S : y <= Max(S)
<1> DEFINE OfSize(n) == {U \in SUBSET Nat : IsFiniteSet(U) /\ Cardinality(U) = n /\ U # {}}
<1> DEFINE T == {n \in Nat : \A U \in OfSize(n) : HasMaximum(U)}
<1>1. 0 \in T
  BY FS_EmptySet
<1>2. ASSUME NEW n \in T PROVE n + 1 \in T
  <2>1. SUFFICES ASSUME NEW U \in OfSize(n + 1) PROVE HasMaximum(U)
    OBVIOUS
  <2>2. PICK a \in U : a \in Nat
    OBVIOUS
  <2>3. /\ IsFiniteSet(U \ {a}) /\ Cardinality(U \ {a}) = n /\ U \ {a} \in SUBSET Nat
    <3>1. IsFiniteSet(U) /\ Cardinality(U) = n + 1
      OBVIOUS
    <3>2. IsFiniteSet(U \ {a}) /\ Cardinality(U \ {a}) = Cardinality(U) - 1
      BY <2>2, <3>1, FS_RemoveElement
    <3> QED
      BY <3>1, <3>2
  <2>4. CASE U \ {a} = {}
    <3>1. \A y \in U : y = a
      BY <2>4
    <3> QED
      BY <2>2, <3>1 DEF HasMaximum
  <2>5. CASE U \ {a} # {}
    <3>1. PICK m \in U \ {a} : \A y \in U \ {a} : y <= m
      BY <2>3, <2>5 DEF HasMaximum
    <3>2. m \in Nat /\ \A y \in U : y = a \/ y <= m
      BY <3>1
    <3>3. CASE a <= m
      BY <3>1, <3>2, <3>3 DEF HasMaximum
    <3>4. CASE ~(a <= m)
      <4>1. \A y \in U : y <= a
        BY <2>2, <3>2, <3>4
      <4> QED
        BY <2>2, <4>1 DEF HasMaximum
    <3> QED
      BY <3>3, <3>4
  <2> QED
    BY <2>4, <2>5
<1> HIDE DEF T
<1>3. Cardinality(S) \in T
  BY <1>1, <1>2, NatSetInduction, FS_CardinalityType DEF T
<1>4. PICK x \in S : \A y \in S : y <= x
  BY <1>3 DEF T, HasMaximum
<1>5. x >= x /\ \A y \in S : x >= y
  BY <1>4
<1>6. Max(S) \in S /\ \A y \in S : Max(S) >= y
  BY <1>5, Zenon DEF Max
<1> QED
  BY <1>6

--------------------------------------------------------------------------------
(* Sums over a sequence.                                                   *)

\* g[i] is the sum of the first i elements.
IsSum(s, n, g) ==
    /\ g \in [0..n -> Nat] /\ g[0] = 0
    /\ \A i \in 1..n : g[i] = g[i - 1] + s[i]

\* Every sequence of naturals has its partial sums.
LEMMA SumExists ==
    ASSUME NEW s \in Seq(Nat)
    PROVE  \E g : IsSum(s, Len(s), g)
<1> DEFINE T == {n \in Nat : n <= Len(s) => \E g : IsSum(s, n, g)}
<1>1. 0 \in T
  <2>1. IsSum(s, 0, [i \in 0..0 |-> 0])
    BY DEF IsSum
  <2> QED
    BY <2>1
<1>2. ASSUME NEW n \in T PROVE n + 1 \in T
  <2> SUFFICES ASSUME n + 1 <= Len(s) PROVE \E g : IsSum(s, n + 1, g)
    OBVIOUS
  <2>1. PICK g : IsSum(s, n, g)
    BY LenProperties
  <2> DEFINE h == [i \in 0..n + 1 |-> IF i <= n THEN g[i] ELSE g[n] + s[n + 1]]
  <2>2. s[n + 1] \in Nat
    BY ElementOfSeq, LenProperties
  <2>3. h \in [0..n + 1 -> Nat] /\ h[0] = 0
    BY <2>1, <2>2 DEF IsSum
  <2>4. ASSUME NEW i \in 1..n + 1 PROVE h[i] = h[i - 1] + s[i]
    <3>1. CASE i = n + 1
      BY <3>1, <2>1, <2>2 DEF IsSum
    <3>2. CASE i \in 1..n
      <4>1. h[i] = g[i] /\ h[i - 1] = g[i - 1]
        BY <3>2
      <4> QED
        BY <4>1, <3>2, <2>1 DEF IsSum
    <3> QED
      BY <3>1, <3>2
  <2>5. IsSum(s, n + 1, h)
    BY <2>3, <2>4 DEF IsSum
  <2> QED
    BY <2>5
<1>3. Len(s) \in T
  BY <1>1, <1>2, NatSetInduction, LenProperties
<1> QED
  BY <1>3, LenProperties

SumEquation(s, g) == g = [i \in 0..Len(s) |-> IF i = 0 THEN 0 ELSE g[i - 1] + s[i]]

\* Total, which chooses a function by its equation, takes the last of them.
LEMMA TotalIsSum ==
    ASSUME NEW s \in Seq(Nat)
    PROVE  \E g : IsSum(s, Len(s), g) /\ Total(s) = g[Len(s)]
<1> DEFINE sum == CHOOSE g : SumEquation(s, g)
<1>1. PICK f : IsSum(s, Len(s), f)
  BY SumExists
<1>2. SumEquation(s, f)
  <2>1. \A i \in 0..Len(s) : f[i] = IF i = 0 THEN 0 ELSE f[i - 1] + s[i]
    BY <1>1, LenProperties DEF IsSum
  <2> QED
    BY <1>1, <2>1 DEF IsSum, SumEquation
<1>3. SumEquation(s, sum)
  BY <1>2, Zenon
<1>4. Total(s) = sum[Len(s)]
  BY Zenon DEF Total, SumEquation
<1> HIDE DEF sum
<1>5. \A i \in 0..Len(s) : sum[i] = IF i = 0 THEN 0 ELSE sum[i - 1] + s[i]
  BY <1>3 DEF SumEquation
<1>6. IsSum(s, Len(s), sum)
  <2> DEFINE T == {n \in Nat : n <= Len(s) => sum[n] \in Nat}
  <2>1. 0 \in T
    BY <1>5, LenProperties
  <2>2. ASSUME NEW n \in T PROVE n + 1 \in T
    <3> SUFFICES ASSUME n + 1 <= Len(s) PROVE sum[n + 1] \in Nat
      OBVIOUS
    <3>1. s[n + 1] \in Nat /\ sum[n] \in Nat
      BY ElementOfSeq, LenProperties
    <3> QED
      BY <3>1, <1>5, LenProperties
  <2> HIDE DEF T
  <2>3. \A n \in Nat : n \in T
    BY <2>1, <2>2, NatSetInduction DEF T
  <2>4. \A n \in 0..Len(s) : sum[n] \in Nat
    BY <2>3, LenProperties DEF T
  <2>5. DOMAIN sum = 0..Len(s) /\ sum = [i \in 0..Len(s) |-> sum[i]]
    BY <1>3 DEF SumEquation
  <2> QED
    BY <2>4, <2>5, <1>5, LenProperties DEF IsSum
<1> QED
  BY <1>4, <1>6

\* So a total is a natural number,
LEMMA TotalType ==
    ASSUME NEW s \in Seq(Nat)
    PROVE  Total(s) \in Nat
BY TotalIsSum, LenProperties DEF IsSum

\* nothing adds up to zero,
LEMMA TotalEmpty == Total(<<>>) = 0
<1>1. <<>> \in Seq(Nat) /\ Len(<<>>) = 0
  OBVIOUS
<1> QED
  BY <1>1, TotalIsSum DEF IsSum

\* Equal prefixes have equal sums.
LEMMA SumOfPrefix ==
    ASSUME NEW s \in Seq(Nat), NEW t \in Seq(Nat), Len(s) <= Len(t),
           \A i \in 1..Len(s) : s[i] = t[i],
           NEW f, IsSum(s, Len(s), f), NEW g, IsSum(t, Len(t), g)
    PROVE  f[Len(s)] = g[Len(s)]
<1> DEFINE n == Len(s)
<1> DEFINE T == {k \in Nat : k <= n => f[k] = g[k]}
<1>1. 0 \in T
  BY DEF IsSum
<1>2. ASSUME NEW k \in T PROVE k + 1 \in T
  BY LenProperties DEF IsSum
<1> HIDE DEF T
<1>3. \A k \in Nat : k \in T
  BY <1>1, <1>2, NatSetInduction DEF T
<1> QED
  BY <1>3, LenProperties DEF T

\* an element at the end adds itself,
LEMMA TotalAppend ==
    ASSUME NEW s \in Seq(Nat), NEW x \in Nat
    PROVE  Total(Append(s, x)) = Total(s) + x
<1>t. PICK t \in Seq(Nat) : t = Append(s, x)
  BY AppendProperties
<1>1. /\ t \in Seq(Nat) /\ Len(t) = Len(s) + 1 /\ t[Len(s) + 1] = x
      /\ \A i \in 1..Len(s) : t[i] = s[i]
  BY <1>t, AppendProperties
<1>2. PICK f : IsSum(s, Len(s), f) /\ Total(s) = f[Len(s)]
  BY TotalIsSum
<1>3. PICK g : IsSum(t, Len(t), g) /\ Total(t) = g[Len(t)]
  BY <1>1, TotalIsSum
<1>n. Len(s) \in Nat /\ Len(s) \in 0..Len(s) /\ Len(s) <= Len(t)
  BY <1>1, LenProperties
<1>4. f[Len(s)] = g[Len(s)]
  <2>1. \A i \in 1..Len(s) : s[i] = t[i]
    BY <1>1
  <2> QED
    BY <2>1, <1>n, <1>2, <1>3, SumOfPrefix
<1>5. g[Len(s) + 1] = g[Len(s)] + x
  <2>1. Len(s) + 1 \in 1..Len(t) /\ Len(s) + 1 - 1 = Len(s)
    BY <1>n, <1>1
  <2>2. \A i \in 1..Len(t) : g[i] = g[i - 1] + t[i]
    BY <1>3 DEF IsSum
  <2>3. g[Len(s) + 1] = g[Len(s) + 1 - 1] + t[Len(s) + 1]
    BY <2>1, <2>2
  <2> QED
    BY <2>1, <2>3, <1>1
<1> QED
  BY <1>1, <1>2, <1>3, <1>4, <1>5, <1>t

\* and a total is the first element and the rest.
LEMMA TotalTail ==
    ASSUME NEW s \in Seq(Nat), s # <<>>
    PROVE  Total(s) = Head(s) + Total(Tail(s))
<1>t. PICK t \in Seq(Nat) : t = Tail(s)
  BY HeadTailProperties
<1>1. /\ t \in Seq(Nat) /\ Len(s) = Len(t) + 1 /\ Head(s) = s[1] /\ s[1] \in Nat
      /\ \A i \in 1..Len(t) : t[i] = s[i + 1]
  BY <1>t, HeadTailProperties, LenProperties, ElementOfSeq, EmptySeq
<1>2. PICK f : IsSum(s, Len(s), f) /\ Total(s) = f[Len(s)]
  BY TotalIsSum
<1>3. PICK g : IsSum(t, Len(t), g) /\ Total(t) = g[Len(t)]
  BY <1>1, TotalIsSum
<1> DEFINE T == {k \in Nat : k <= Len(t) => f[k + 1] = s[1] + g[k]}
<1>4. 0 \in T
  BY <1>1, <1>2, <1>3, LenProperties DEF IsSum
<1>5. ASSUME NEW k \in T PROVE k + 1 \in T
  <2> SUFFICES ASSUME k + 1 <= Len(t) PROVE f[k + 2] = s[1] + g[k + 1]
    OBVIOUS
  <2>1. k + 1 \in 1..Len(t) /\ k + 2 \in 1..Len(s) /\ k \in Nat
    BY <1>1, LenProperties
  <2>a. k + 2 - 1 = k + 1 /\ k + 1 - 1 = k /\ k \in 0..Len(t)
    BY <2>1, <1>1, LenProperties
  <2>b. f[k + 2] = f[k + 1] + s[k + 2]
    BY <2>1, <2>a, <1>2 DEF IsSum
  <2>s. g \in [0..Len(t) -> Nat] /\ \A i \in 1..Len(t) : g[i] = g[i - 1] + t[i]
    BY <1>3 DEF IsSum
  <2>c. g[k + 1] = g[k + 1 - 1] + t[k + 1] /\ g[k] \in Nat
    <3>1. \A i \in 1..Len(t) : g[i] = g[i - 1] + t[i]
      BY <2>s
    <3>2. g[k] \in Nat
      BY <2>s, <2>a
    <3>3. g[k + 1] = g[k + 1 - 1] + t[k + 1]
      BY <3>1, <2>1
    <3> QED
      BY <3>2, <3>3
  <2>d. t[k + 1] \in Nat
    BY <2>1, <1>1, ElementOfSeq
  <2>e. t[k + 1] = s[k + 2]
    BY <2>1, <1>1
  <2>2. /\ f[k + 2] = f[k + 1] + s[k + 2] /\ g[k + 1] = g[k] + t[k + 1]
        /\ g[k] \in Nat /\ t[k + 1] \in Nat /\ t[k + 1] = s[k + 2]
    BY <2>a, <2>b, <2>c, <2>d, <2>e
  <2>3. f[k + 1] = s[1] + g[k]
    BY <2>1
  <2> QED
    BY <2>2, <2>3, <1>1
<1> HIDE DEF T
<1>6. Len(t) \in T
  BY <1>4, <1>5, <1>1, NatSetInduction, LenProperties DEF T
<1> QED
  BY <1>6, <1>1, <1>2, <1>3, LenProperties, <1>t DEF T

--------------------------------------------------------------------------------
(* The inductive invariant.                                                *)

\* How often a message is queued for the pump.
Marks(s, kind) == [i \in 1..Len(s) |-> IF s[i] = kind THEN 1 ELSE 0]
Queued(kind) == Total(Marks(output, kind))
One(condition) == IF condition THEN 1 ELSE 0

\* The slot is emptied once; the close signal follows.
ClosingInv ==
    /\ slotHeld <=> closePc = "open"
    /\ slotHeld <=> closing = "nobody"
    /\ closed <=> closePc \in {"signalled", "inputTaken", "done"}

ReaderHolds == One(reader = "data")
PumpHolds == One(pump = "data")
OnItsWay == PumpHolds + Queued("data") + ReaderHolds

\* Every chunk that was read is published, under way to be, or was dropped after
\* the close signal; a session that the pump ended has published them all.
DataInv ==
    /\ published["data"] + OnItsWay <= chunksRead
    /\ ~closed => published["data"] + OnItsWay = chunksRead
    /\ closing = "pump" => /\ pump \in {"closing", "done"} /\ reader = "done"
                           /\ published["data"] = chunksRead

ReaderMayFail == One(reader \in {"reading", "data", "readerError"})
WaiterMayFail == One(waiter \in {"waiting", "waitError"})
ReaderErrorIsTold ==
    published["error"] > 0 \/ \E i \in 1..Len(output) : output[i] = "readerError"

\* The reader and the waiter report at most one error each; an error of the reader
\* is queued before it fails.
ErrorInv ==
    /\ published["error"] + Queued("readerError") + Queued("waitError")
         + ReaderMayFail + WaiterMayFail <= 2
    /\ reader = "failed" \/ closing = "reader" => ReaderErrorIsTold

PumpIsDone == One(pump = "done")
ExitInv == published["exit"] <= PumpIsDone

\* A call that found the session has an input; the writer has one in its hands
\* from taking it until it writes or drops it.
HandsInv ==
    /\ callPc # "idle" => callSize \in Sizes
    /\ current # 0 <=> writer \in {"writing", "failed", "closing"}

IInv == /\ TypeOK /\ InputBudget /\ HandsInv
        /\ ClosingInv /\ DataInv /\ ErrorInv /\ ExitInv

--------------------------------------------------------------------------------
(* The marks of a queue.                                                   *)

\* The marks are ones and zeros.
LEMMA MarksType ==
    ASSUME NEW s \in Seq(PumpMessages), NEW kind
    PROVE  Marks(s, kind) \in Seq(Nat) /\ Total(Marks(s, kind)) \in Nat
<1>1. Marks(s, kind) \in Seq(Nat)
  BY LenProperties, IsASeq DEF Marks
<1> QED
  BY <1>1, TotalType

\* A message that is queued is counted with its kind,
LEMMA QueuedAppend ==
    ASSUME NEW s \in Seq(PumpMessages), NEW m \in PumpMessages, NEW kind
    PROVE  Total(Marks(Append(s, m), kind)) = Total(Marks(s, kind)) + One(m = kind)
<1>1. Append(s, m) \in Seq(PumpMessages) /\ Marks(Append(s, m), kind) \in Seq(Nat)
  BY AppendProperties, MarksType
<1>2. Append(Marks(s, kind), One(m = kind)) \in Seq(Nat)
  BY MarksType, AppendProperties DEF One
<1>3. Marks(Append(s, m), kind) = Append(Marks(s, kind), One(m = kind))
  <2>1. Len(Marks(s, kind)) = Len(s)
    BY LenProperties, MarksType DEF Marks
  <2>2. \A i \in 1..Len(s) + 1 :
          Marks(Append(s, m), kind)[i] = Append(Marks(s, kind), One(m = kind))[i]
    BY <2>1, AppendProperties, MarksType, LenProperties DEF Marks, One
  <2>3. /\ Len(Marks(Append(s, m), kind)) = Len(s) + 1
        /\ Len(Append(Marks(s, kind), One(m = kind))) = Len(s) + 1
    BY <2>1, <1>1, AppendProperties, MarksType, LenProperties DEF Marks, One
  <2> QED
    BY <1>1, <1>2, <2>2, <2>3, SeqEqual
<1> QED
  BY <1>3, TotalAppend, MarksType DEF One

\* one that is taken no longer is,
LEMMA QueuedTail ==
    ASSUME NEW s \in Seq(PumpMessages), s # <<>>, NEW kind
    PROVE  /\ Total(Marks(s, kind)) = One(Head(s) = kind) + Total(Marks(Tail(s), kind))
           /\ Tail(s) \in Seq(PumpMessages) /\ Head(s) \in PumpMessages
<1>1. /\ Tail(s) \in Seq(PumpMessages) /\ Head(s) \in PumpMessages
      /\ Len(s) \in Nat \ {0} /\ Len(Tail(s)) = Len(s) - 1 /\ Head(s) = s[1]
      /\ \A i \in 1..Len(s) - 1 : Tail(s)[i] = s[i + 1]
  BY HeadTailProperties, LenProperties, EmptySeq, ElementOfSeq
<1>2. Marks(s, kind) \in Seq(Nat) /\ Marks(Tail(s), kind) \in Seq(Nat)
  BY <1>1, MarksType
<1>3. Len(Marks(s, kind)) = Len(s) /\ Len(Marks(Tail(s), kind)) = Len(s) - 1
  BY <1>1, <1>2, LenProperties DEF Marks
<1>4. Marks(s, kind) # <<>> /\ Head(Marks(s, kind)) = One(Head(s) = kind)
  BY <1>1, <1>2, <1>3, EmptySeq, HeadTailProperties DEF Marks, One
<1>5. Tail(Marks(s, kind)) = Marks(Tail(s), kind)
  <2>1. \A i \in 1..Len(s) - 1 : Tail(Marks(s, kind))[i] = Marks(Tail(s), kind)[i]
    BY <1>1, <1>2, <1>3, <1>4, HeadTailProperties DEF Marks
  <2>2. Tail(Marks(s, kind)) \in Seq(Nat) /\ Len(Tail(Marks(s, kind))) = Len(s) - 1
    BY <1>2, <1>3, <1>4, HeadTailProperties
  <2> QED
    BY <1>2, <1>3, <2>1, <2>2, SeqEqual
<1> QED
  BY <1>1, <1>2, <1>4, <1>5, TotalTail

\* and an empty queue counts nothing.
LEMMA QueuedNone ==
    ASSUME NEW kind
    PROVE  Total(Marks(<<>>, kind)) = 0
<1>0. <<>> \in Seq(PumpMessages)
  BY EmptySeq
<1>1. <<>> \in Seq(PumpMessages) /\ Marks(<<>>, kind) \in Seq(Nat)
  BY <1>0, MarksType
<1>2. Marks(<<>>, kind) = <<>>
  BY <1>1, EmptySeq, LenProperties DEF Marks
<1> QED
  BY <1>2, TotalEmpty


--------------------------------------------------------------------------------
(* What a step leaves alone keeps its part of the invariant.               *)

InputInv == InputBudget /\ HandsInv
OutputInv == DataInv /\ ErrorInv /\ ExitInv

\* Steps that leave the input alone.
LEMMA InputKept ==
    ASSUME InputInv, InputTypeOK, UNCHANGED <<call, input>>
    PROVE  InputInv' /\ InputTypeOK'
BY DEF InputInv, InputBudget, HandsInv, InputTypeOK, call, input, budget

\* Steps that leave the output and the close signal alone.
LEMMA OutputKept ==
    ASSUME OutputInv, OutputTypeOK, UNCHANGED <<closed, closing, sending, output, pumping>>
    PROVE  OutputInv' /\ OutputTypeOK'
BY DEF OutputInv, DataInv, ErrorInv, ExitInv, Queued, Marks, One, OutputTypeOK, sending, pumping,
       OnItsWay, ReaderHolds, PumpHolds, ReaderMayFail, WaiterMayFail, ReaderErrorIsTold,
       PumpIsDone

\* Steps that leave the slot alone.
LEMMA ClosingKept ==
    ASSUME ClosingInv, ClosingTypeOK, UNCHANGED <<registry, shell>>
    PROVE  ClosingInv' /\ ClosingTypeOK'
BY DEF ClosingInv, ClosingTypeOK, registry

\* No input is empty.
LEMMA SizesAreNat == Sizes \subseteq Nat \ {0} /\ Seq(Sizes) \subseteq Seq(Nat)
<1>1. Sizes \subseteq Nat \ {0} /\ Sizes \subseteq Nat
  BY TerminalAssumption DEF TerminalAssumption
<1> QED
  BY <1>1, SeqMonotonic

\* The limits are numbers.
LEMMA BudgetIsNat == MaxBytes \in Nat /\ MaxMessages \in Nat /\ MaxWrites \in Nat
BY TerminalAssumption DEF TerminalAssumption

\* The writer's end: whatever it drops was counted.
LEMMA DropsAll ==
    ASSUME InputInv, InputTypeOK, DropInputs, writer \in {"idle", "writing", "closing"},
           UNCHANGED <<call, connected>>
    PROVE  InputInv' /\ InputTypeOK'
<1> USE SizesAreNat, BudgetIsNat
<1>1. /\ queue \in Seq(Nat) /\ Len(queue) \in Nat /\ Total(queue) \in Nat
      /\ current \in Nat /\ callSize \in Nat
  BY LenProperties, TotalType DEF InputTypeOK
<1>2. queue' = <<>> /\ Len(queue') = 0 /\ Total(queue') = 0 /\ current' = 0 /\ queue' \in Seq(Sizes)
  BY TotalEmpty, EmptySeq DEF DropInputs
<1>3. /\ messages' = IF callPc \in {"messageReserved", "bytesReserved"} THEN 1 ELSE 0
      /\ bytes' = IF callPc = "bytesReserved" THEN callSize ELSE 0
  BY <1>1 DEF InputInv, InputBudget, HandsInv, InputTypeOK, DropInputs
<1>4. messages' \in 0..MaxMessages /\ bytes' \in 0..MaxBytes
  <2>1. messages' <= messages /\ messages' \in Nat
    <3>1. CASE callPc \in {"messageReserved", "bytesReserved"}
      <4>1. messages = Len(queue) + (IF current = 0 THEN 0 ELSE 1) + 1 /\ messages' = 1
        BY <3>1, <1>3 DEF InputInv, InputBudget
      <4> QED
        BY <4>1, <1>1
    <3>2. CASE callPc \notin {"messageReserved", "bytesReserved"}
      BY <3>2, <1>3 DEF InputTypeOK
    <3> QED
      BY <3>1, <3>2
  <2>2. bytes' <= bytes /\ bytes' \in Nat
    BY <1>1, <1>3 DEF InputInv, InputBudget
  <2> QED
    BY <2>1, <2>2 DEF InputTypeOK
<1>5. InputTypeOK'
  BY <1>2, <1>4 DEF InputTypeOK, DropInputs, call
<1>6. InputBudget'
  BY <1>1, <1>2, <1>3 DEF InputBudget, call
<1>7. HandsInv'
  BY <1>2 DEF InputInv, HandsInv, DropInputs, call
<1> QED
  BY <1>5, <1>6, <1>7 DEF InputInv

Reserved == callPc \in {"messageReserved", "bytesReserved"}
MessageCount == messages = Len(queue) + One(current # 0) + One(Reserved)
ByteCount == bytes = Total(queue) + current + (IF callPc = "bytesReserved" THEN callSize ELSE 0)

\* The budget as two sums.
LEMMA BudgetCounts ==
    ASSUME InputTypeOK
    PROVE  InputBudget <=> MessageCount /\ ByteCount
<1>1. Len(queue) \in Nat /\ Total(queue) \in Nat /\ current \in Nat /\ callSize \in Nat
  BY SizesAreNat, LenProperties, TotalType DEF InputTypeOK
<1> QED
  BY <1>1 DEF InputBudget, MessageCount, ByteCount, One, Reserved

\* write_terminal and the writer keep the budget exact.
LEMMA InputSteps ==
    ASSUME InputInv, InputTypeOK,
           (\E size \in Sizes : FindSession(size)) \/ CallStep \/ WriterStep
    PROVE  InputInv' /\ InputTypeOK'
<1> USE SizesAreNat, BudgetIsNat
<1>t. /\ queue \in Seq(Nat) /\ Len(queue) \in Nat /\ Total(queue) \in Nat
      /\ current \in Nat /\ callSize \in Nat /\ messages \in Nat /\ bytes \in Nat
      /\ One(current # 0) \in 0..1 /\ One(Reserved) \in 0..1
  BY LenProperties, TotalType DEF InputTypeOK, One
<1>b. MessageCount /\ ByteCount /\ HandsInv
  BY BudgetCounts DEF InputInv
<1>p. SUFFICES ASSUME TRUE
               PROVE  InputTypeOK' /\ HandsInv' /\ MessageCount' /\ ByteCount'
  <2>1. InputTypeOK' => (InputBudget' <=> MessageCount' /\ ByteCount')
    BY BudgetCounts, PTL
  <2> QED
    BY <2>1 DEF InputInv
<1>1. CASE \E size \in Sizes : FindSession(size)
  <2>1. /\ callPc = "idle" /\ callPc' = "found" /\ callSize' \in Sizes
        /\ writes < MaxWrites /\ writes' = writes + 1 /\ UNCHANGED input
    BY <1>1, <1>t DEF FindSession, CallReturns, call, budget, input, ReceiverAlive
  <2>t. InputTypeOK'
    BY <2>1, <1>t, <1>b DEF input, budget, InputTypeOK, HandsInv, MessageCount,
       ByteCount, One, Reserved
  <2>h. HandsInv'
    BY <2>1, <1>t, <1>b DEF input, budget, InputTypeOK, HandsInv
  <2>m. MessageCount'
    BY <2>1, <1>t, <1>b DEF input, budget, HandsInv, MessageCount, One, Reserved
  <2>b. ByteCount'
    BY <2>1, <1>t, <1>b DEF input, budget, HandsInv, ByteCount
  <2> QED
    BY <2>t, <2>h, <2>m, <2>b
<1>2. CASE ReserveMessage
  <2>1. /\ callPc = "found" /\ UNCHANGED <<queue, bytes, connected, writer, current>>
        /\ \/ /\ messages < MaxMessages /\ messages' = messages + 1
              /\ callPc' = "messageReserved" /\ UNCHANGED <<callSize, writes>>
           \/ messages' = messages /\ callPc' = "idle" /\ callSize' = 0 /\ writes' = writes
    BY <1>2, <1>t DEF ReserveMessage, CallReturns, call, budget, input, ReceiverAlive
  <2>o. /\ One(current' # 0) = One(current # 0) /\ One(Reserved) = 0
        /\ callPc' = "idle" => One(Reserved') = 0
        /\ callPc' = "messageReserved" => One(Reserved') = 1
    BY <2>1 DEF One, Reserved
  <2>t. InputTypeOK'
    BY <2>1, <1>t, <1>b DEF InputTypeOK, HandsInv, MessageCount,
       ByteCount, One, Reserved
  <2>h. HandsInv'
    BY <2>1, <1>t, <1>b DEF InputTypeOK, HandsInv
  <2>m. MessageCount'
    BY <2>1, <2>o, <1>t, <1>b DEF MessageCount
  <2>b. ByteCount'
    BY <2>1, <1>t, <1>b DEF HandsInv, ByteCount
  <2> QED
    BY <2>t, <2>h, <2>m, <2>b
<1>3. CASE ReserveBytes
  <2>1. /\ callPc = "messageReserved" /\ UNCHANGED <<queue, connected, writer, current, writes>>
        /\ \/ /\ bytes + callSize <= MaxBytes /\ bytes' = bytes + callSize
              /\ callPc' = "bytesReserved" /\ UNCHANGED <<callSize, messages>>
           \/ bytes' = bytes /\ messages' = messages - 1 /\ callPc' = "idle" /\ callSize' = 0
    BY <1>3, <1>t DEF ReserveBytes, CallReturns, call, budget, input, ReceiverAlive
  <2>o. /\ One(current' # 0) = One(current # 0) /\ One(Reserved) = 1
        /\ callPc' = "idle" => One(Reserved') = 0
        /\ callPc' = "bytesReserved" => One(Reserved') = 1
    BY <2>1 DEF One, Reserved
  <2>c. messages' \in 0..MaxMessages
    BY <2>1, <2>o, <1>t, <1>b DEF MessageCount, InputTypeOK
  <2>d. bytes' \in 0..MaxBytes
    BY <2>1, <1>t, <1>b DEF ByteCount, InputTypeOK
  <2>t. InputTypeOK'
    BY <2>1, <2>c, <2>d, <1>t DEF InputTypeOK
  <2>h. HandsInv'
    BY <2>1, <1>t, <1>b DEF InputTypeOK, HandsInv
  <2>m. MessageCount'
    BY <2>1, <2>o, <1>t, <1>b DEF MessageCount
  <2>b. ByteCount'
    BY <2>1, <1>t, <1>b DEF HandsInv, ByteCount
  <2> QED
    BY <2>t, <2>h, <2>m, <2>b
<1>4. CASE Enqueue /\ ReceiverAlive
  <2>1. /\ callPc = "bytesReserved" /\ callPc' = "idle" /\ callSize' = 0
        /\ queue' = Append(queue, callSize) /\ callSize \in Sizes
        /\ UNCHANGED <<writes, messages, bytes, connected, writer, current>>
    BY <1>4, <1>t, <1>b DEF HandsInv, Enqueue, CallReturns, call, budget, input, ReceiverAlive
  <2>2. /\ queue' \in Seq(Sizes) /\ Len(queue') = Len(queue) + 1
        /\ Total(queue') = Total(queue) + callSize
    <3>1. queue \in Seq(Sizes) /\ callSize \in Nat
      BY <1>t DEF InputTypeOK
    <3> QED
      BY <2>1, <3>1, <1>t, AppendProperties, TotalAppend
  <2>t. InputTypeOK'
    BY <2>1, <2>2, <1>t, <1>b DEF InputTypeOK, HandsInv, MessageCount,
       ByteCount, One, Reserved
  <2>h. HandsInv'
    BY <2>1, <2>2, <1>t, <1>b DEF InputTypeOK, HandsInv
  <2>m. MessageCount'
    BY <2>1, <2>2, <1>t, <1>b DEF HandsInv, MessageCount, One, Reserved
  <2>b. ByteCount'
    BY <2>1, <2>2, <1>t, <1>b DEF HandsInv, ByteCount
  <2> QED
    BY <2>t, <2>h, <2>m, <2>b
<1>5. CASE Enqueue /\ ~ReceiverAlive
  <2>1. /\ callPc = "bytesReserved" /\ callPc' = "idle" /\ callSize' = 0
        /\ messages' = messages - 1 /\ bytes' = bytes - callSize
        /\ UNCHANGED <<writes, queue, connected, writer, current>>
    BY <1>5, <1>t DEF Enqueue, CallReturns, call, budget, input, ReceiverAlive
  <2>o. One(current' # 0) = One(current # 0) /\ One(Reserved) = 1 /\ One(Reserved') = 0
    BY <2>1 DEF One, Reserved
  <2>c. messages' \in 0..MaxMessages
    BY <2>1, <2>o, <1>t, <1>b DEF MessageCount, InputTypeOK
  <2>d. bytes' \in 0..MaxBytes
    BY <2>1, <1>t, <1>b DEF ByteCount, InputTypeOK
  <2>t. InputTypeOK'
    BY <2>1, <2>c, <2>d, <1>t DEF InputTypeOK
  <2>h. HandsInv'
    BY <2>1, <1>t, <1>b DEF InputTypeOK, HandsInv
  <2>m. MessageCount'
    BY <2>1, <2>o, <1>t, <1>b DEF MessageCount
  <2>b. ByteCount'
    BY <2>1, <1>t, <1>b DEF HandsInv, ByteCount
  <2> QED
    BY <2>t, <2>h, <2>m, <2>b
<1>d. CASE DropInputs /\ writer \in {"idle", "writing", "closing"} /\ UNCHANGED <<call, connected>>
  <2>1. InputInv' /\ InputTypeOK'
    BY <1>d, DropsAll
  <2>2. InputTypeOK' => (InputBudget' <=> MessageCount' /\ ByteCount')
    BY BudgetCounts, PTL
  <2> QED
    BY <2>1, <2>2 DEF InputInv
<1>6. CASE WriterTakes /\ closed
  BY <1>6, <1>d DEF WriterTakes
<1>7. CASE WriterTakes /\ ~closed
  <2>1. /\ writer = "idle" /\ writer' = "writing" /\ current = 0
        /\ current' = Head(queue) /\ queue' = Tail(queue) /\ queue # <<>>
        /\ UNCHANGED <<callPc, callSize, writes, messages, bytes, connected>>
    BY <1>7, <1>t, <1>b DEF HandsInv, WriterTakes, CallReturns, call, budget, input, ReceiverAlive
  <2>2. /\ queue' \in Seq(Sizes) /\ Len(queue') = Len(queue) - 1 /\ current' \in Sizes
        /\ Total(queue) = current' + Total(queue') /\ Total(queue') \in Nat
        /\ current' \in Nat \ {0}
    <3>1. queue \in Seq(Sizes)
      BY DEF InputTypeOK
    <3> QED
      BY <2>1, <3>1, <1>t, HeadTailProperties, TotalTail, TotalType
  <2>o. One(current' # 0) = 1 /\ One(current # 0) = 0 /\ One(Reserved') = One(Reserved)
    BY <2>1, <2>2 DEF One, Reserved
  <2>t. InputTypeOK'
    BY <2>1, <2>2, <1>t, <1>b DEF InputTypeOK, HandsInv, MessageCount,
       ByteCount, One, Reserved
  <2>h. HandsInv'
    BY <2>1, <2>2, <1>t, <1>b DEF InputTypeOK, HandsInv
  <2>m. MessageCount'
    BY <2>1, <2>o, <2>2, <1>t, <1>b DEF MessageCount
  <2>b. ByteCount'
    BY <2>1, <2>2, <1>t, <1>b DEF HandsInv, ByteCount
  <2> QED
    BY <2>t, <2>h, <2>m, <2>b
<1>8. CASE WriterWrites
  <2>1. /\ writer = "writing" /\ writer' = "idle" /\ current' = 0 /\ current # 0
        /\ messages' = messages - 1 /\ bytes' = bytes - current
        /\ UNCHANGED <<callPc, callSize, writes, queue, connected>>
    BY <1>8, <1>t, <1>b DEF HandsInv, WriterWrites, CallReturns, call, budget, input, ReceiverAlive
  <2>o. One(current' # 0) = 0 /\ One(current # 0) = 1 /\ One(Reserved') = One(Reserved)
    BY <2>1 DEF One, Reserved
  <2>c. messages' \in 0..MaxMessages
    BY <2>1, <2>o, <1>t, <1>b DEF MessageCount, InputTypeOK
  <2>d. bytes' \in 0..MaxBytes
    BY <2>1, <1>t, <1>b DEF ByteCount, InputTypeOK
  <2>t. InputTypeOK'
    BY <2>1, <2>c, <2>d, <1>t DEF InputTypeOK
  <2>h. HandsInv'
    BY <2>1, <1>t, <1>b DEF InputTypeOK, HandsInv
  <2>m. MessageCount'
    BY <2>1, <2>o, <1>t, <1>b DEF MessageCount
  <2>b. ByteCount'
    BY <2>1, <1>t, <1>b DEF HandsInv, ByteCount
  <2> QED
    BY <2>t, <2>h, <2>m, <2>b
<1>9. CASE WriterCancelled
  BY <1>9, <1>d DEF WriterCancelled
<1>10. CASE WriteFails
  <2>1. /\ writer = "writing" /\ writer' = "failed" /\ connected' = connected
        /\ UNCHANGED <<callPc, callSize, writes, queue, messages, bytes, current>>
    BY <1>10, <1>t DEF WriteFails, CallReturns, call, budget, input, ReceiverAlive
  <2>t. InputTypeOK'
    BY <2>1, <1>t, <1>b DEF InputTypeOK, HandsInv, MessageCount,
       ByteCount, One, Reserved
  <2>h. HandsInv'
    BY <2>1, <1>t, <1>b DEF InputTypeOK, HandsInv
  <2>m. MessageCount'
    BY <2>1, <1>t, <1>b DEF HandsInv, MessageCount, One, Reserved
  <2>b. ByteCount'
    BY <2>1, <1>t, <1>b DEF HandsInv, ByteCount
  <2> QED
    BY <2>t, <2>h, <2>m, <2>b
<1>11. CASE WriterCloses
  <2>1. /\ writer = "failed" /\ writer' = "closing" /\ connected' = connected
        /\ UNCHANGED <<callPc, callSize, writes, queue, messages, bytes, current>>
    BY <1>11, <1>t DEF WriterCloses, CallReturns, call, budget, input, ReceiverAlive
  <2>t. InputTypeOK'
    BY <2>1, <1>t, <1>b DEF InputTypeOK, HandsInv, MessageCount,
       ByteCount, One, Reserved
  <2>h. HandsInv'
    BY <2>1, <1>t, <1>b DEF InputTypeOK, HandsInv
  <2>m. MessageCount'
    BY <2>1, <1>t, <1>b DEF HandsInv, MessageCount, One, Reserved
  <2>b. ByteCount'
    BY <2>1, <1>t, <1>b DEF HandsInv, ByteCount
  <2> QED
    BY <2>t, <2>h, <2>m, <2>b
<1>12. CASE WriterStops
  BY <1>12, <1>d DEF WriterStops
<1>13. CASE WriterDisconnected
  <2>1. /\ writer = "idle" /\ writer' = "stopped" /\ connected' = connected
        /\ UNCHANGED <<callPc, callSize, writes, queue, messages, bytes, current>>
    BY <1>13, <1>t DEF WriterDisconnected, CallReturns, call, budget, input, ReceiverAlive
  <2>t. InputTypeOK'
    BY <2>1, <1>t, <1>b DEF InputTypeOK, HandsInv, MessageCount,
       ByteCount, One, Reserved
  <2>h. HandsInv'
    BY <2>1, <1>t, <1>b DEF InputTypeOK, HandsInv
  <2>m. MessageCount'
    BY <2>1, <1>t, <1>b DEF HandsInv, MessageCount, One, Reserved
  <2>b. ByteCount'
    BY <2>1, <1>t, <1>b DEF HandsInv, ByteCount
  <2> QED
    BY <2>t, <2>h, <2>m, <2>b
<1>14. CASE WriterExits
  <2>1. /\ writer = "stopped" /\ writer' = "done" /\ connected' = FALSE
        /\ UNCHANGED <<callPc, callSize, writes, queue, messages, bytes, current>>
    BY <1>14, <1>t DEF WriterExits, CallReturns, call, budget, input, ReceiverAlive
  <2>t. InputTypeOK'
    BY <2>1, <1>t, <1>b DEF InputTypeOK, HandsInv, MessageCount,
       ByteCount, One, Reserved
  <2>h. HandsInv'
    BY <2>1, <1>t, <1>b DEF InputTypeOK, HandsInv
  <2>m. MessageCount'
    BY <2>1, <1>t, <1>b DEF HandsInv, MessageCount, One, Reserved
  <2>b. ByteCount'
    BY <2>1, <1>t, <1>b DEF HandsInv, ByteCount
  <2> QED
    BY <2>t, <2>h, <2>m, <2>b
<1> QED
  BY <1>1, <1>2, <1>3, <1>4, <1>5, <1>6, <1>7, <1>8, <1>9, <1>10, <1>11, <1>12, <1>13, <1>14
     DEF CallStep, WriterStep

--------------------------------------------------------------------------------
(* The steps of the reader, the waiter and the pump.                       *)

\* The counters of the output are numbers.
LEMMA OutputNumbers ==
    ASSUME OutputTypeOK
    PROVE  /\ published["data"] \in Nat /\ published["error"] \in Nat /\ published["exit"] \in Nat
           /\ chunksRead \in Nat /\ MaxChunks \in Nat /\ OutputCapacity \in Nat
           /\ \A kind \in PumpMessages : Queued(kind) \in Nat
           /\ ReaderHolds \in 0..1 /\ PumpHolds \in 0..1 /\ PumpIsDone \in 0..1
           /\ ReaderMayFail \in 0..1 /\ WaiterMayFail \in 0..1
<1>1. MaxChunks \in Nat /\ OutputCapacity \in Nat
  BY TerminalAssumption DEF TerminalAssumption
<1>2. \A kind \in PumpMessages : Queued(kind) \in Nat
  BY MarksType DEF OutputTypeOK, Queued
<1> QED
  BY <1>1, <1>2 DEF OutputTypeOK, ReaderHolds, PumpHolds, PumpIsDone, ReaderMayFail,
                    WaiterMayFail, One

\* What a message adds to the queue, and takes from it.
LEMMA MessageIsQueued ==
    ASSUME OutputTypeOK, NEW m \in PumpMessages, output' = Append(output, m)
    PROVE  /\ output' \in Seq(PumpMessages) /\ Len(output') = Len(output) + 1
           /\ output'[Len(output) + 1] = m
           /\ \A i \in 1..Len(output) : output'[i] = output[i]
           /\ \A kind \in PumpMessages : Queued(kind)' = Queued(kind) + One(m = kind)
BY AppendProperties, QueuedAppend DEF OutputTypeOK, Queued

LEMMA MessageIsTaken ==
    ASSUME OutputTypeOK, output # <<>>, output' = Tail(output)
    PROVE  /\ output' \in Seq(PumpMessages) /\ Head(output) \in PumpMessages
           /\ Len(output') = Len(output) - 1 /\ Len(output) \in Nat
           /\ Head(output) = output[1]
           /\ \A i \in 1..Len(output) - 1 : output'[i] = output[i + 1]
           /\ \A kind \in PumpMessages : Queued(kind) = Queued(kind)' + One(Head(output) = kind)
<1>1. /\ Tail(output) \in Seq(PumpMessages) /\ Len(Tail(output)) = Len(output) - 1
      /\ Len(output) \in Nat /\ Head(output) = output[1] /\ Head(output) \in PumpMessages
      /\ \A i \in 1..Len(output) - 1 : Tail(output)[i] = output[i + 1]
  BY HeadTailProperties, LenProperties DEF OutputTypeOK
<1>2. \A kind \in PumpMessages :
        /\ Total(Marks(output, kind)) = One(Head(output) = kind) + Total(Marks(Tail(output), kind))
        /\ Total(Marks(Tail(output), kind)) \in Nat
  BY <1>1, QueuedTail, MarksType DEF OutputTypeOK
<1>3. \A kind : One(Head(output) = kind) \in Nat
  BY DEF One
<1>4. ASSUME NEW kind \in PumpMessages
      PROVE  Queued(kind) = Queued(kind)' + One(Head(output) = kind)
  <2>1. /\ Queued(kind) = Total(Marks(output, kind))
        /\ Queued(kind)' = Total(Marks(Tail(output), kind))
    BY DEF Queued
  <2>2. Total(Marks(Tail(output), kind)) \in Nat /\ One(Head(output) = kind) \in Nat
    BY <1>2, <1>3
  <2>3. Total(Marks(output, kind)) = One(Head(output) = kind) + Total(Marks(Tail(output), kind))
    BY <1>2
  <2> QED
    BY <2>1, <2>2, <2>3
<1> QED
  BY <1>1, <1>4

\* The reader, the waiter and the pump keep what is owed to the renderer.
LEMMA OutputSteps ==
    ASSUME OutputInv, OutputTypeOK, ClosingInv, ClosingTypeOK,
           ReaderStep \/ WaiterStep \/ PumpStep
    PROVE  OutputInv' /\ OutputTypeOK'
<1>n. /\ published["data"] \in Nat /\ published["error"] \in Nat /\ published["exit"] \in Nat
      /\ chunksRead \in Nat /\ MaxChunks \in Nat /\ OutputCapacity \in Nat
      /\ Queued("data") \in Nat /\ Queued("readerError") \in Nat /\ Queued("waitError") \in Nat
      /\ ReaderHolds \in 0..1 /\ PumpHolds \in 0..1 /\ PumpIsDone \in 0..1
      /\ ReaderMayFail \in 0..1 /\ WaiterMayFail \in 0..1
  BY OutputNumbers DEF PumpMessages
<1>i. DataInv /\ ErrorInv /\ ExitInv
  BY DEF OutputInv
<1>s. (slotHeld <=> closing = "nobody") /\ (closed => ~slotHeld)
  BY DEF ClosingInv
<1>q. SUFFICES ASSUME TRUE
               PROVE  OutputTypeOK' /\ DataInv' /\ ErrorInv' /\ ExitInv'
  BY DEF OutputInv
<1>1. CASE ReaderCancelled
  <2>1. /\ reader' = "done" /\ closed
        /\ UNCHANGED <<closed, closing, chunksRead, waiter, output, pump, exitCode, published>>
    BY <1>1 DEF ReaderCancelled, Publish, TakeFromSlot, PumpMessages, sending, pumping, registry
  <2>o. /\ Queued("data")' = Queued("data") /\ Queued("readerError")' = Queued("readerError")
        /\ Queued("waitError")' = Queued("waitError")
        /\ ReaderHolds' = 0 /\ ReaderMayFail' = 0
        /\ PumpHolds' = PumpHolds /\ PumpIsDone' = PumpIsDone /\ WaiterMayFail' = WaiterMayFail
    BY <2>1 DEF ReaderHolds, PumpHolds, PumpIsDone, ReaderMayFail, WaiterMayFail, One, Queued
  <2>d. DataInv'
    BY <2>1, <2>o, <1>n, <1>i, <1>s DEF DataInv, OnItsWay
  <2>e. ErrorInv'
    BY <2>1, <2>o, <1>n, <1>i, <1>s DEF ErrorInv, ReaderErrorIsTold
  <2>x. ExitInv'
    BY <2>1, <2>o, <1>n, <1>i DEF ExitInv
  <2>t. OutputTypeOK'
    BY <2>1, <2>o, <2>d, <2>e, <2>x, <1>n
       DEF OutputTypeOK, DataInv, ErrorInv, ExitInv, OnItsWay
  <2> QED
    BY <2>t, <2>d, <2>e, <2>x
<1>2. CASE ReadChunk
  <2>1. /\ reader = "reading" /\ reader' = "data" /\ chunksRead' = chunksRead + 1
        /\ chunksRead < MaxChunks
        /\ UNCHANGED <<closed, closing, waiter, output, pump, exitCode, published>>
    BY <1>2 DEF ReadChunk, Publish, TakeFromSlot, PumpMessages, sending, pumping, registry
  <2>o. /\ Queued("data")' = Queued("data") /\ Queued("readerError")' = Queued("readerError")
        /\ Queued("waitError")' = Queued("waitError")
        /\ ReaderHolds = 0 /\ ReaderHolds' = 1 /\ ReaderMayFail' = ReaderMayFail
        /\ PumpHolds' = PumpHolds /\ PumpIsDone' = PumpIsDone /\ WaiterMayFail' = WaiterMayFail
    BY <2>1 DEF ReaderHolds, PumpHolds, PumpIsDone, ReaderMayFail, WaiterMayFail, One, Queued
  <2>d. DataInv'
    BY <2>1, <2>o, <1>n, <1>i, <1>s DEF DataInv, OnItsWay
  <2>e. ErrorInv'
    BY <2>1, <2>o, <1>n, <1>i, <1>s DEF ErrorInv, ReaderErrorIsTold
  <2>x. ExitInv'
    BY <2>1, <2>o, <1>n, <1>i DEF ExitInv
  <2>t. OutputTypeOK'
    BY <2>1, <2>o, <2>d, <2>e, <2>x, <1>n
       DEF OutputTypeOK, DataInv, ErrorInv, ExitInv, OnItsWay
  <2> QED
    BY <2>t, <2>d, <2>e, <2>x
<1>3. CASE ReadEnds
  <2>1. /\ reader = "reading" /\ reader' \in {"readerFinished", "readerError"}
        /\ UNCHANGED <<closed, closing, chunksRead, waiter, output, pump, exitCode, published>>
    BY <1>3 DEF ReadEnds, Publish, TakeFromSlot, PumpMessages, sending, pumping, registry
  <2>o. /\ Queued("data")' = Queued("data") /\ Queued("readerError")' = Queued("readerError")
        /\ Queued("waitError")' = Queued("waitError")
        /\ ReaderHolds = 0 /\ ReaderHolds' = 0 /\ ReaderMayFail = 1 /\ ReaderMayFail' \in 0..1
        /\ PumpHolds' = PumpHolds /\ PumpIsDone' = PumpIsDone /\ WaiterMayFail' = WaiterMayFail
    BY <2>1 DEF ReaderHolds, PumpHolds, PumpIsDone, ReaderMayFail, WaiterMayFail, One, Queued
  <2>d. DataInv'
    BY <2>1, <2>o, <1>n, <1>i, <1>s DEF DataInv, OnItsWay
  <2>e. ErrorInv'
    <3>1. published'["error"] + Queued("readerError")' + Queued("waitError")'
             + ReaderMayFail' + WaiterMayFail' <= 2
      BY <2>1, <2>o, <1>n, <1>i DEF ErrorInv
    <3>2. ReaderErrorIsTold => ReaderErrorIsTold'
      BY <2>1, <1>n DEF ReaderErrorIsTold
    <3> QED
      BY <3>1, <3>2, <2>1, <1>i DEF ErrorInv
  <2>x. ExitInv'
    BY <2>1, <2>o, <1>n, <1>i DEF ExitInv
  <2>t. OutputTypeOK'
    BY <2>1, <2>o, <2>d, <2>e, <2>x, <1>n
       DEF OutputTypeOK, DataInv, ErrorInv, ExitInv, OnItsWay
  <2> QED
    BY <2>t, <2>d, <2>e, <2>x
<1>4. CASE ReaderSends /\ reader = "data"
  <2>1. /\ reader = "data" /\ reader' = "reading" /\ output' = Append(output, "data")
        /\ Len(output) < OutputCapacity
        /\ UNCHANGED <<closed, closing, chunksRead, waiter, pump, exitCode, published>>
    BY <1>4 DEF ReaderSends, Publish, TakeFromSlot, PumpMessages, sending, pumping, registry
  <2>2. /\ output' \in Seq(PumpMessages) /\ Len(output') = Len(output) + 1
        /\ output'[Len(output) + 1] = "data" /\ Len(output) \in Nat
        /\ \A i \in 1..Len(output) : output'[i] = output[i]
        /\ \A kind \in PumpMessages : Queued(kind)' = Queued(kind) + One("data" = kind)
    BY <2>1, MessageIsQueued, LenProperties DEF PumpMessages, OutputTypeOK
  <2>o. /\ Queued("data")' = Queued("data") + 1 /\ Queued("readerError")' = Queued("readerError")
        /\ Queued("waitError")' = Queued("waitError")
        /\ ReaderHolds = 1 /\ ReaderHolds' = 0 /\ ReaderMayFail' = ReaderMayFail
        /\ PumpHolds' = PumpHolds /\ PumpIsDone' = PumpIsDone /\ WaiterMayFail' = WaiterMayFail
    BY <2>1, <2>2, <1>n
       DEF ReaderHolds, PumpHolds, PumpIsDone, ReaderMayFail, WaiterMayFail, One, PumpMessages
  <2>d. DataInv'
    BY <2>1, <2>2, <2>o, <1>n, <1>i, <1>s DEF DataInv, OnItsWay
  <2>e. ErrorInv'
    <3>1. published'["error"] + Queued("readerError")' + Queued("waitError")'
             + ReaderMayFail' + WaiterMayFail' <= 2
      BY <2>1, <2>o, <1>n, <1>i DEF ErrorInv
    <3>2. ReaderErrorIsTold => ReaderErrorIsTold'
      BY <2>1, <2>2, <1>n DEF ReaderErrorIsTold
    <3> QED
      BY <3>1, <3>2, <2>1, <1>i DEF ErrorInv
  <2>x. ExitInv'
    BY <2>1, <2>2, <2>o, <1>n, <1>i DEF ExitInv
  <2>t. OutputTypeOK'
    BY <2>1, <2>2, <2>o, <2>d, <2>e, <2>x, <1>n
       DEF OutputTypeOK, DataInv, ErrorInv, ExitInv, OnItsWay
  <2> QED
    BY <2>t, <2>d, <2>e, <2>x
<1>5. CASE ReaderSends /\ reader = "readerFinished"
  <2>1. /\ reader = "readerFinished" /\ reader' = "done"
        /\ output' = Append(output, "readerFinished")
        /\ Len(output) < OutputCapacity
        /\ UNCHANGED <<closed, closing, chunksRead, waiter, pump, exitCode, published>>
    BY <1>5 DEF ReaderSends, Publish, TakeFromSlot, PumpMessages, sending, pumping, registry
  <2>2. /\ output' \in Seq(PumpMessages) /\ Len(output') = Len(output) + 1
        /\ output'[Len(output) + 1] = "readerFinished" /\ Len(output) \in Nat
        /\ \A i \in 1..Len(output) : output'[i] = output[i]
        /\ \A kind \in PumpMessages : Queued(kind)' = Queued(kind) + One("readerFinished" = kind)
    BY <2>1, MessageIsQueued, LenProperties DEF PumpMessages, OutputTypeOK
  <2>o. /\ Queued("data")' = Queued("data") /\ Queued("readerError")' = Queued("readerError")
        /\ Queued("waitError")' = Queued("waitError")
        /\ ReaderHolds = 0 /\ ReaderHolds' = 0 /\ ReaderMayFail = 0 /\ ReaderMayFail' = 0
        /\ PumpHolds' = PumpHolds /\ PumpIsDone' = PumpIsDone /\ WaiterMayFail' = WaiterMayFail
    BY <2>1, <2>2, <1>n
       DEF ReaderHolds, PumpHolds, PumpIsDone, ReaderMayFail, WaiterMayFail, One, PumpMessages
  <2>d. DataInv'
    BY <2>1, <2>2, <2>o, <1>n, <1>i, <1>s DEF DataInv, OnItsWay
  <2>e. ErrorInv'
    <3>1. published'["error"] + Queued("readerError")' + Queued("waitError")'
             + ReaderMayFail' + WaiterMayFail' <= 2
      BY <2>1, <2>o, <1>n, <1>i DEF ErrorInv
    <3>2. ReaderErrorIsTold => ReaderErrorIsTold'
      BY <2>1, <2>2, <1>n DEF ReaderErrorIsTold
    <3> QED
      BY <3>1, <3>2, <2>1, <1>i DEF ErrorInv
  <2>x. ExitInv'
    BY <2>1, <2>2, <2>o, <1>n, <1>i DEF ExitInv
  <2>t. OutputTypeOK'
    BY <2>1, <2>2, <2>o, <2>d, <2>e, <2>x, <1>n
       DEF OutputTypeOK, DataInv, ErrorInv, ExitInv, OnItsWay
  <2> QED
    BY <2>t, <2>d, <2>e, <2>x
<1>6. CASE ReaderSends /\ reader = "readerError"
  <2>1. /\ reader = "readerError" /\ reader' = "failed" /\ output' = Append(output, "readerError")
        /\ Len(output) < OutputCapacity
        /\ UNCHANGED <<closed, closing, chunksRead, waiter, pump, exitCode, published>>
    BY <1>6 DEF ReaderSends, Publish, TakeFromSlot, PumpMessages, sending, pumping, registry
  <2>2. /\ output' \in Seq(PumpMessages) /\ Len(output') = Len(output) + 1
        /\ output'[Len(output) + 1] = "readerError" /\ Len(output) \in Nat
        /\ \A i \in 1..Len(output) : output'[i] = output[i]
        /\ \A kind \in PumpMessages : Queued(kind)' = Queued(kind) + One("readerError" = kind)
    BY <2>1, MessageIsQueued, LenProperties DEF PumpMessages, OutputTypeOK
  <2>o. /\ Queued("data")' = Queued("data") /\ Queued("readerError")' = Queued("readerError") + 1
        /\ Queued("waitError")' = Queued("waitError")
        /\ ReaderHolds = 0 /\ ReaderHolds' = 0 /\ ReaderMayFail = 1 /\ ReaderMayFail' = 0
        /\ PumpHolds' = PumpHolds /\ PumpIsDone' = PumpIsDone /\ WaiterMayFail' = WaiterMayFail
    BY <2>1, <2>2, <1>n
       DEF ReaderHolds, PumpHolds, PumpIsDone, ReaderMayFail, WaiterMayFail, One, PumpMessages
  <2>d. DataInv'
    BY <2>1, <2>2, <2>o, <1>n, <1>i, <1>s DEF DataInv, OnItsWay
  <2>e. ErrorInv'
    <3>1. published'["error"] + Queued("readerError")' + Queued("waitError")'
             + ReaderMayFail' + WaiterMayFail' <= 2
      <4>1. published' = published
        BY <2>1
      <4>2. published["error"] + Queued("readerError") + Queued("waitError")
               + ReaderMayFail + WaiterMayFail <= 2
        BY <1>i DEF ErrorInv
      <4> QED
        BY <4>1, <4>2, <2>o, <1>n
    <3>2. ReaderErrorIsTold'
      BY <2>1, <2>2, <1>n DEF ReaderErrorIsTold
    <3> QED
      BY <3>1, <3>2, <2>1, <1>i DEF ErrorInv
  <2>x. ExitInv'
    BY <2>1, <2>2, <2>o, <1>n, <1>i DEF ExitInv
  <2>t. OutputTypeOK'
    BY <2>1, <2>2, <2>o, <2>d, <2>e, <2>x, <1>n
       DEF OutputTypeOK, DataInv, ErrorInv, ExitInv, OnItsWay
  <2> QED
    BY <2>t, <2>d, <2>e, <2>x
<1>7. CASE ReaderCloses
  <2>1. /\ reader = "failed" /\ reader' = "closing" /\ closing' \in {closing, "reader"}
        /\ UNCHANGED <<closed, chunksRead, waiter, output, pump, exitCode, published>>
    BY <1>7 DEF ReaderCloses, Publish, TakeFromSlot, PumpMessages, sending, pumping, registry
  <2>o. /\ Queued("data")' = Queued("data") /\ Queued("readerError")' = Queued("readerError")
        /\ Queued("waitError")' = Queued("waitError")
        /\ ReaderHolds = 0 /\ ReaderHolds' = 0 /\ ReaderMayFail = 0 /\ ReaderMayFail' = 0
        /\ PumpHolds' = PumpHolds /\ PumpIsDone' = PumpIsDone /\ WaiterMayFail' = WaiterMayFail
    BY <2>1 DEF ReaderHolds, PumpHolds, PumpIsDone, ReaderMayFail, WaiterMayFail, One, Queued
  <2>d. DataInv'
    BY <2>1, <2>o, <1>n, <1>i, <1>s DEF DataInv, OnItsWay
  <2>e. ErrorInv'
    BY <2>1, <2>o, <1>n, <1>i, <1>s DEF ErrorInv, ReaderErrorIsTold
  <2>x. ExitInv'
    BY <2>1, <2>o, <1>n, <1>i DEF ExitInv
  <2>t. OutputTypeOK'
    BY <2>1, <2>o, <2>d, <2>e, <2>x, <1>n
       DEF OutputTypeOK, DataInv, ErrorInv, ExitInv, OnItsWay
  <2> QED
    BY <2>t, <2>d, <2>e, <2>x
<1>8. CASE ReaderExits
  <2>1. /\ reader = "closing" /\ reader' = "done"
        /\ UNCHANGED <<closed, closing, chunksRead, waiter, output, pump, exitCode, published>>
    BY <1>8 DEF ReaderExits, Publish, TakeFromSlot, PumpMessages, sending, pumping, registry
  <2>o. /\ Queued("data")' = Queued("data") /\ Queued("readerError")' = Queued("readerError")
        /\ Queued("waitError")' = Queued("waitError")
        /\ ReaderHolds = 0 /\ ReaderHolds' = 0 /\ ReaderMayFail = 0 /\ ReaderMayFail' = 0
        /\ PumpHolds' = PumpHolds /\ PumpIsDone' = PumpIsDone /\ WaiterMayFail' = WaiterMayFail
    BY <2>1 DEF ReaderHolds, PumpHolds, PumpIsDone, ReaderMayFail, WaiterMayFail, One, Queued
  <2>d. DataInv'
    BY <2>1, <2>o, <1>n, <1>i, <1>s DEF DataInv, OnItsWay
  <2>e. ErrorInv'
    BY <2>1, <2>o, <1>n, <1>i, <1>s DEF ErrorInv, ReaderErrorIsTold
  <2>x. ExitInv'
    BY <2>1, <2>o, <1>n, <1>i DEF ExitInv
  <2>t. OutputTypeOK'
    BY <2>1, <2>o, <2>d, <2>e, <2>x, <1>n
       DEF OutputTypeOK, DataInv, ErrorInv, ExitInv, OnItsWay
  <2> QED
    BY <2>t, <2>d, <2>e, <2>x
<1>9. CASE WaitReturns
  <2>1. /\ waiter = "waiting" /\ waiter' \in {"exit", "waitError"}
        /\ UNCHANGED <<closed, closing, reader, chunksRead, output, pump, exitCode, published>>
    BY <1>9 DEF WaitReturns, Publish, TakeFromSlot, PumpMessages, sending, pumping, registry
  <2>o. /\ Queued("data")' = Queued("data") /\ Queued("readerError")' = Queued("readerError")
        /\ Queued("waitError")' = Queued("waitError")
        /\ WaiterMayFail = 1 /\ WaiterMayFail' \in 0..1
        /\ PumpHolds' = PumpHolds /\ PumpIsDone' = PumpIsDone
        /\ ReaderHolds' = ReaderHolds /\ ReaderMayFail' = ReaderMayFail
    BY <2>1 DEF ReaderHolds, PumpHolds, PumpIsDone, ReaderMayFail, WaiterMayFail, One, Queued
  <2>d. DataInv'
    BY <2>1, <2>o, <1>n, <1>i, <1>s DEF DataInv, OnItsWay
  <2>e. ErrorInv'
    BY <2>1, <2>o, <1>n, <1>i, <1>s DEF ErrorInv, ReaderErrorIsTold
  <2>x. ExitInv'
    BY <2>1, <2>o, <1>n, <1>i DEF ExitInv
  <2>t. OutputTypeOK'
    BY <2>1, <2>o, <2>d, <2>e, <2>x, <1>n
       DEF OutputTypeOK, DataInv, ErrorInv, ExitInv, OnItsWay
  <2> QED
    BY <2>t, <2>d, <2>e, <2>x
<1>10. CASE WaiterSends /\ closed
  <2>1. /\ waiter \in {"exit", "waitError"} /\ waiter' \in {"done", "failed"}
        /\ UNCHANGED <<closed, closing, reader, chunksRead, output, pump, exitCode, published>>
    BY <1>10 DEF WaiterSends, Publish, TakeFromSlot, PumpMessages, sending, pumping, registry
  <2>o. /\ Queued("data")' = Queued("data") /\ Queued("readerError")' = Queued("readerError")
        /\ Queued("waitError")' = Queued("waitError")
        /\ WaiterMayFail \in 0..1 /\ WaiterMayFail' = 0
        /\ PumpHolds' = PumpHolds /\ PumpIsDone' = PumpIsDone
        /\ ReaderHolds' = ReaderHolds /\ ReaderMayFail' = ReaderMayFail
    BY <2>1 DEF ReaderHolds, PumpHolds, PumpIsDone, ReaderMayFail, WaiterMayFail, One, Queued
  <2>d. DataInv'
    BY <2>1, <2>o, <1>n, <1>i, <1>s DEF DataInv, OnItsWay
  <2>e. ErrorInv'
    BY <2>1, <2>o, <1>n, <1>i, <1>s DEF ErrorInv, ReaderErrorIsTold
  <2>x. ExitInv'
    BY <2>1, <2>o, <1>n, <1>i DEF ExitInv
  <2>t. OutputTypeOK'
    BY <2>1, <2>o, <2>d, <2>e, <2>x, <1>n
       DEF OutputTypeOK, DataInv, ErrorInv, ExitInv, OnItsWay
  <2> QED
    BY <2>t, <2>d, <2>e, <2>x
<1>11. CASE WaiterSends /\ ~closed /\ waiter = "exit"
  <2>1. /\ waiter = "exit" /\ waiter' = "done" /\ output' = Append(output, "exit")
        /\ Len(output) < OutputCapacity
        /\ UNCHANGED <<closed, closing, reader, chunksRead, pump, exitCode, published>>
    BY <1>11 DEF WaiterSends, Publish, TakeFromSlot, PumpMessages, sending, pumping, registry
  <2>2. /\ output' \in Seq(PumpMessages) /\ Len(output') = Len(output) + 1
        /\ output'[Len(output) + 1] = "exit" /\ Len(output) \in Nat
        /\ \A i \in 1..Len(output) : output'[i] = output[i]
        /\ \A kind \in PumpMessages : Queued(kind)' = Queued(kind) + One("exit" = kind)
    BY <2>1, MessageIsQueued, LenProperties DEF PumpMessages, OutputTypeOK
  <2>o. /\ Queued("data")' = Queued("data") /\ Queued("readerError")' = Queued("readerError")
        /\ Queued("waitError")' = Queued("waitError")
        /\ WaiterMayFail = 0 /\ WaiterMayFail' = 0
        /\ PumpHolds' = PumpHolds /\ PumpIsDone' = PumpIsDone
        /\ ReaderHolds' = ReaderHolds /\ ReaderMayFail' = ReaderMayFail
    BY <2>1, <2>2, <1>n
       DEF ReaderHolds, PumpHolds, PumpIsDone, ReaderMayFail, WaiterMayFail, One, PumpMessages
  <2>d. DataInv'
    BY <2>1, <2>2, <2>o, <1>n, <1>i, <1>s DEF DataInv, OnItsWay
  <2>e. ErrorInv'
    <3>1. published'["error"] + Queued("readerError")' + Queued("waitError")'
             + ReaderMayFail' + WaiterMayFail' <= 2
      BY <2>1, <2>o, <1>n, <1>i DEF ErrorInv
    <3>2. ReaderErrorIsTold => ReaderErrorIsTold'
      BY <2>1, <2>2, <1>n DEF ReaderErrorIsTold
    <3> QED
      BY <3>1, <3>2, <2>1, <1>i DEF ErrorInv
  <2>x. ExitInv'
    BY <2>1, <2>2, <2>o, <1>n, <1>i DEF ExitInv
  <2>t. OutputTypeOK'
    BY <2>1, <2>2, <2>o, <2>d, <2>e, <2>x, <1>n
       DEF OutputTypeOK, DataInv, ErrorInv, ExitInv, OnItsWay
  <2> QED
    BY <2>t, <2>d, <2>e, <2>x
<1>12. CASE WaiterSends /\ ~closed /\ waiter = "waitError"
  <2>1. /\ waiter = "waitError" /\ waiter' = "failed" /\ output' = Append(output, "waitError")
        /\ Len(output) < OutputCapacity
        /\ UNCHANGED <<closed, closing, reader, chunksRead, pump, exitCode, published>>
    BY <1>12 DEF WaiterSends, Publish, TakeFromSlot, PumpMessages, sending, pumping, registry
  <2>2. /\ output' \in Seq(PumpMessages) /\ Len(output') = Len(output) + 1
        /\ output'[Len(output) + 1] = "waitError" /\ Len(output) \in Nat
        /\ \A i \in 1..Len(output) : output'[i] = output[i]
        /\ \A kind \in PumpMessages : Queued(kind)' = Queued(kind) + One("waitError" = kind)
    BY <2>1, MessageIsQueued, LenProperties DEF PumpMessages, OutputTypeOK
  <2>o. /\ Queued("data")' = Queued("data") /\ Queued("readerError")' = Queued("readerError")
        /\ Queued("waitError")' = Queued("waitError") + 1
        /\ WaiterMayFail = 1 /\ WaiterMayFail' = 0
        /\ PumpHolds' = PumpHolds /\ PumpIsDone' = PumpIsDone
        /\ ReaderHolds' = ReaderHolds /\ ReaderMayFail' = ReaderMayFail
    BY <2>1, <2>2, <1>n
       DEF ReaderHolds, PumpHolds, PumpIsDone, ReaderMayFail, WaiterMayFail, One, PumpMessages
  <2>d. DataInv'
    BY <2>1, <2>2, <2>o, <1>n, <1>i, <1>s DEF DataInv, OnItsWay
  <2>e. ErrorInv'
    <3>1. published'["error"] + Queued("readerError")' + Queued("waitError")'
             + ReaderMayFail' + WaiterMayFail' <= 2
      BY <2>1, <2>o, <1>n, <1>i DEF ErrorInv
    <3>2. ReaderErrorIsTold => ReaderErrorIsTold'
      BY <2>1, <2>2, <1>n DEF ReaderErrorIsTold
    <3> QED
      BY <3>1, <3>2, <2>1, <1>i DEF ErrorInv
  <2>x. ExitInv'
    BY <2>1, <2>2, <2>o, <1>n, <1>i DEF ExitInv
  <2>t. OutputTypeOK'
    BY <2>1, <2>2, <2>o, <2>d, <2>e, <2>x, <1>n
       DEF OutputTypeOK, DataInv, ErrorInv, ExitInv, OnItsWay
  <2> QED
    BY <2>t, <2>d, <2>e, <2>x
<1>13. CASE WaiterCloses
  <2>1. /\ waiter = "failed" /\ waiter' = "closing" /\ closing' \in {closing, "waiter"}
        /\ UNCHANGED <<closed, reader, chunksRead, output, pump, exitCode, published>>
    BY <1>13 DEF WaiterCloses, Publish, TakeFromSlot, PumpMessages, sending, pumping, registry
  <2>o. /\ Queued("data")' = Queued("data") /\ Queued("readerError")' = Queued("readerError")
        /\ Queued("waitError")' = Queued("waitError")
        /\ WaiterMayFail = 0 /\ WaiterMayFail' = 0
        /\ PumpHolds' = PumpHolds /\ PumpIsDone' = PumpIsDone
        /\ ReaderHolds' = ReaderHolds /\ ReaderMayFail' = ReaderMayFail
    BY <2>1 DEF ReaderHolds, PumpHolds, PumpIsDone, ReaderMayFail, WaiterMayFail, One, Queued
  <2>d. DataInv'
    BY <2>1, <2>o, <1>n, <1>i, <1>s DEF DataInv, OnItsWay
  <2>e. ErrorInv'
    BY <2>1, <2>o, <1>n, <1>i, <1>s DEF ErrorInv, ReaderErrorIsTold
  <2>x. ExitInv'
    BY <2>1, <2>o, <1>n, <1>i DEF ExitInv
  <2>t. OutputTypeOK'
    BY <2>1, <2>o, <2>d, <2>e, <2>x, <1>n
       DEF OutputTypeOK, DataInv, ErrorInv, ExitInv, OnItsWay
  <2> QED
    BY <2>t, <2>d, <2>e, <2>x
<1>14. CASE WaiterExits
  <2>1. /\ waiter = "closing" /\ waiter' = "done"
        /\ UNCHANGED <<closed, closing, reader, chunksRead, output, pump, exitCode, published>>
    BY <1>14 DEF WaiterExits, Publish, TakeFromSlot, PumpMessages, sending, pumping, registry
  <2>o. /\ Queued("data")' = Queued("data") /\ Queued("readerError")' = Queued("readerError")
        /\ Queued("waitError")' = Queued("waitError")
        /\ WaiterMayFail = 0 /\ WaiterMayFail' = 0
        /\ PumpHolds' = PumpHolds /\ PumpIsDone' = PumpIsDone
        /\ ReaderHolds' = ReaderHolds /\ ReaderMayFail' = ReaderMayFail
    BY <2>1 DEF ReaderHolds, PumpHolds, PumpIsDone, ReaderMayFail, WaiterMayFail, One, Queued
  <2>d. DataInv'
    BY <2>1, <2>o, <1>n, <1>i, <1>s DEF DataInv, OnItsWay
  <2>e. ErrorInv'
    BY <2>1, <2>o, <1>n, <1>i, <1>s DEF ErrorInv, ReaderErrorIsTold
  <2>x. ExitInv'
    BY <2>1, <2>o, <1>n, <1>i DEF ExitInv
  <2>t. OutputTypeOK'
    BY <2>1, <2>o, <2>d, <2>e, <2>x, <1>n
       DEF OutputTypeOK, DataInv, ErrorInv, ExitInv, OnItsWay
  <2> QED
    BY <2>t, <2>d, <2>e, <2>x
<1>16. CASE PumpPublishes
  <2>1. /\ pump = "data" /\ pump' = "receiving"
        /\ published' = [published EXCEPT !["data"] = @ + 1]
        /\ UNCHANGED <<closed, closing, reader, chunksRead, waiter, output, exitCode>>
    BY <1>16 DEF PumpPublishes, Publish, TakeFromSlot, PumpMessages, sending, pumping, registry
  <2>o. /\ Queued("data")' = Queued("data") /\ Queued("readerError")' = Queued("readerError")
        /\ Queued("waitError")' = Queued("waitError")
        /\ PumpHolds = 1 /\ PumpHolds' = 0 /\ PumpIsDone' = PumpIsDone
        /\ WaiterMayFail' = WaiterMayFail /\ ReaderHolds' = ReaderHolds
        /\ ReaderMayFail' = ReaderMayFail
        /\ published'["data"] = published["data"] + 1 /\ published'["error"] = published["error"]
        /\ published'["exit"] = published["exit"]
    BY <2>1 DEF ReaderHolds, PumpHolds, PumpIsDone, ReaderMayFail, WaiterMayFail, One, Queued,
             OutputTypeOK
  <2>d. DataInv'
    BY <2>1, <2>o, <1>n, <1>i, <1>s DEF DataInv, OnItsWay
  <2>e. ErrorInv'
    BY <2>1, <2>o, <1>n, <1>i, <1>s DEF ErrorInv, ReaderErrorIsTold
  <2>x. ExitInv'
    BY <2>1, <2>o, <1>n, <1>i DEF ExitInv
  <2>t. OutputTypeOK'
    <3>1. published' \in [{"data", "error", "exit"} -> Nat]
      BY <2>1, <1>n DEF OutputTypeOK
    <3>2. published'["error"] <= 2
      BY <2>o, <1>n, <1>i DEF ErrorInv
    <3>3. published'["data"] <= MaxChunks /\ published'["exit"] <= 1
      BY <2>d, <2>x, <2>o, <2>1, <1>n DEF DataInv, OnItsWay, ExitInv, OutputTypeOK
    <3>4. published' \in [{"data", "error", "exit"} -> 0..MaxChunks + 2]
      BY <3>1, <3>2, <3>3, <1>n
    <3> QED
      BY <3>4, <2>1 DEF OutputTypeOK
  <2> QED
    BY <2>t, <2>d, <2>e, <2>x
<1>17. CASE PumpFinishes
  <2>1. /\ pump = "receiving" /\ pump' = "closing" /\ output = <<>> /\ reader = "done"
        /\ \/ closing' = closing
           \/ slotHeld /\ closing' = "pump"
        /\ UNCHANGED <<closed, reader, chunksRead, waiter, output, exitCode, published>>
    BY <1>17 DEF PumpFinishes, Publish, TakeFromSlot, PumpMessages, sending, pumping, registry
  <2>q. Queued("data") = 0
    BY <2>1, QueuedNone DEF Queued
  <2>o. /\ Queued("data")' = Queued("data") /\ Queued("readerError")' = Queued("readerError")
        /\ Queued("waitError")' = Queued("waitError")
        /\ PumpHolds = 0 /\ PumpHolds' = 0 /\ PumpIsDone' = PumpIsDone
        /\ WaiterMayFail' = WaiterMayFail /\ ReaderHolds' = ReaderHolds
        /\ ReaderMayFail' = ReaderMayFail
        /\ ReaderHolds = 0 /\ Queued("data") = 0
    BY <2>1, <2>q DEF ReaderHolds, PumpHolds, PumpIsDone, ReaderMayFail, WaiterMayFail, One, Queued
  <2>d. DataInv'
    <3>1. /\ published["data"] + (PumpHolds + Queued("data") + ReaderHolds) <= chunksRead
          /\ ~closed => published["data"] + (PumpHolds + Queued("data") + ReaderHolds) = chunksRead
      BY <1>i DEF DataInv, OnItsWay
    <3>2. ~closed => published["data"] = chunksRead
      BY <3>1, <2>o, <1>n
    <3>3. closing' = "pump" => published["data"] = chunksRead
      BY <3>2, <2>1, <1>s, <1>i DEF DataInv
    <3>4. PumpHolds' + Queued("data")' + ReaderHolds' = PumpHolds + Queued("data") + ReaderHolds
      BY <2>o
    <3> QED
      BY <3>1, <3>3, <3>4, <2>1 DEF DataInv, OnItsWay
  <2>e. ErrorInv'
    BY <2>1, <2>o, <1>n, <1>i, <1>s DEF ErrorInv, ReaderErrorIsTold
  <2>x. ExitInv'
    BY <2>1, <2>o, <1>n, <1>i DEF ExitInv
  <2>t. OutputTypeOK'
    BY <2>1, <2>o, <2>d, <2>e, <2>x, <1>n
       DEF OutputTypeOK, DataInv, ErrorInv, ExitInv, OnItsWay
  <2> QED
    BY <2>t, <2>d, <2>e, <2>x
<1>18. CASE PumpExits
  <2>1. /\ pump = "closing" /\ pump' = "done"
        /\ \/ published' = published
           \/ published' = [published EXCEPT !["exit"] = @ + 1]
        /\ UNCHANGED <<closed, closing, reader, chunksRead, waiter, output, exitCode>>
    BY <1>18 DEF PumpExits, Publish, TakeFromSlot, PumpMessages, sending, pumping, registry
  <2>o. /\ Queued("data")' = Queued("data") /\ Queued("readerError")' = Queued("readerError")
        /\ Queued("waitError")' = Queued("waitError")
        /\ PumpHolds = 0 /\ PumpHolds' = 0 /\ PumpIsDone = 0 /\ PumpIsDone' = 1
        /\ WaiterMayFail' = WaiterMayFail /\ ReaderHolds' = ReaderHolds
        /\ ReaderMayFail' = ReaderMayFail
        /\ published'["data"] = published["data"] /\ published'["error"] = published["error"]
        /\ published'["exit"] \in {published["exit"], published["exit"] + 1}
    BY <2>1 DEF ReaderHolds, PumpHolds, PumpIsDone, ReaderMayFail, WaiterMayFail, One, Queued,
             OutputTypeOK
  <2>d. DataInv'
    BY <2>1, <2>o, <1>n, <1>i, <1>s DEF DataInv, OnItsWay
  <2>e. ErrorInv'
    BY <2>1, <2>o, <1>n, <1>i, <1>s DEF ErrorInv, ReaderErrorIsTold
  <2>x. ExitInv'
    BY <2>1, <2>o, <1>n, <1>i DEF ExitInv
  <2>t. OutputTypeOK'
    <3>1. published' \in [{"data", "error", "exit"} -> Nat]
      BY <2>1, <1>n DEF OutputTypeOK
    <3>2. published'["error"] <= 2
      BY <2>o, <1>n, <1>i DEF ErrorInv
    <3>3. published'["data"] <= MaxChunks /\ published'["exit"] <= 1
      BY <2>d, <2>x, <2>o, <2>1, <1>n DEF DataInv, OnItsWay, ExitInv, OutputTypeOK
    <3>4. published' \in [{"data", "error", "exit"} -> 0..MaxChunks + 2]
      BY <3>1, <3>2, <3>3, <1>n
    <3> QED
      BY <3>4, <2>1 DEF OutputTypeOK
  <2> QED
    BY <2>t, <2>d, <2>e, <2>x
<1>15. CASE PumpReceives
  <2>1. /\ pump = "receiving" /\ output # <<>> /\ output' = Tail(output)
        /\ pump' = IF Head(output) = "data" /\ ~closed THEN "data" ELSE "receiving"
        /\ exitCode' = (exitCode \/ Head(output) = "exit")
        /\ published' = IF Head(output) \in {"readerError", "waitError"}
                        THEN [published EXCEPT !["error"] = @ + 1] ELSE published
        /\ UNCHANGED <<closed, closing, reader, chunksRead, waiter>>
    BY <1>15 DEF PumpReceives, Publish, sending, pumping, registry
  <2>2. /\ output' \in Seq(PumpMessages) /\ Head(output) \in PumpMessages
        /\ Len(output') = Len(output) - 1 /\ Len(output) \in Nat
        /\ Head(output) = output[1]
        /\ \A i \in 1..Len(output) - 1 : output'[i] = output[i + 1]
        /\ \A kind \in PumpMessages : Queued(kind) = Queued(kind)' + One(Head(output) = kind)
    BY <2>1, MessageIsTaken
  <2>3. /\ \A kind \in PumpMessages : Queued(kind)' \in Nat
        /\ Queued("data") = Queued("data")' + One(Head(output) = "data")
        /\ Queued("readerError") = Queued("readerError")' + One(Head(output) = "readerError")
        /\ Queued("waitError") = Queued("waitError")' + One(Head(output) = "waitError")
    <3>1. \A kind \in PumpMessages : Total(Marks(output', kind)) \in Nat
      BY <2>2, MarksType
    <3> QED
      BY <3>1, <2>2 DEF Queued, PumpMessages
  <2>o. /\ ReaderHolds' = ReaderHolds /\ ReaderMayFail' = ReaderMayFail
        /\ WaiterMayFail' = WaiterMayFail /\ PumpIsDone' = PumpIsDone
        /\ PumpHolds = 0 /\ PumpHolds' = One(Head(output) = "data" /\ ~closed)
    BY <2>1 DEF ReaderHolds, PumpHolds, PumpIsDone, ReaderMayFail, WaiterMayFail, One
  <2>p. /\ published'["data"] = published["data"] /\ published'["exit"] = published["exit"]
        /\ published'["error"]
             = published["error"] + One(Head(output) \in {"readerError", "waitError"})
    BY <2>1, <1>n DEF One, OutputTypeOK
  <2>k. \/ /\ Head(output) = "data" /\ published' = published
           /\ Queued("data") = Queued("data")' + 1 /\ PumpHolds' \in 0..1
           /\ ~closed => PumpHolds' = 1
           /\ UNCHANGED <<Queued("readerError"), Queued("waitError")>>
        \/ /\ Head(output) \notin {"data", "readerError", "waitError"} /\ published' = published
           /\ PumpHolds' = 0
           /\ UNCHANGED <<Queued("data"), Queued("readerError"), Queued("waitError")>>
        \/ /\ Head(output) = "readerError" /\ published'["error"] = published["error"] + 1
           /\ Queued("readerError") = Queued("readerError")' + 1 /\ PumpHolds' = 0
           /\ UNCHANGED <<Queued("data"), Queued("waitError")>>
        \/ /\ Head(output) = "waitError" /\ published'["error"] = published["error"] + 1
           /\ Queued("waitError") = Queued("waitError")' + 1 /\ PumpHolds' = 0
           /\ UNCHANGED <<Queued("data"), Queued("readerError")>>
    BY <2>1, <2>2, <2>3, <2>o, <2>p, <1>n DEF One, PumpMessages
  <2>d. DataInv'
    <3>1. closing # "pump"
      BY <2>1, <1>i DEF DataInv
    <3>2. /\ PumpHolds' + Queued("data")' <= Queued("data")
          /\ ~closed => PumpHolds' + Queued("data")' = Queued("data")
          /\ PumpHolds' \in Nat /\ Queued("data")' \in Nat
      BY <2>k, <2>3, <1>n DEF PumpMessages
    <3>3. /\ published["data"] + (PumpHolds + Queued("data") + ReaderHolds) <= chunksRead
          /\ ~closed => published["data"] + (PumpHolds + Queued("data") + ReaderHolds) = chunksRead
      BY <1>i DEF DataInv, OnItsWay
    <3>4. /\ published'["data"] + (PumpHolds' + Queued("data")' + ReaderHolds') <= chunksRead'
          /\ ~closed' => published'["data"] + (PumpHolds' + Queued("data")' + ReaderHolds')
                            = chunksRead'
      <4>1. /\ published'["data"] = published["data"] /\ chunksRead' = chunksRead
            /\ closed' = closed /\ ReaderHolds' = ReaderHolds /\ PumpHolds = 0
        BY <2>1, <2>o, <2>p
      <4> QED
        BY <4>1, <3>2, <3>3, <1>n
    <3> QED
      BY <3>1, <3>4, <2>1 DEF DataInv, OnItsWay
  <2>e. ErrorInv'
    <3>1. published'["error"] + Queued("readerError")' + Queued("waitError")'
             + ReaderMayFail + WaiterMayFail <= 2
      BY <2>k, <1>n, <1>i, <2>3 DEF ErrorInv, PumpMessages
    <3>2. ReaderErrorIsTold => ReaderErrorIsTold'
      <4>1. CASE published["error"] > 0
        BY <4>1, <2>k, <1>n DEF ReaderErrorIsTold
      <4>2. ASSUME NEW i \in 1..Len(output), output[i] = "readerError"
            PROVE  ReaderErrorIsTold'
        <5>1. CASE i = 1
          BY <5>1, <4>2, <2>2, <2>k, <1>n DEF ReaderErrorIsTold
        <5>2. CASE i # 1
          <6>1. i - 1 \in 1..Len(output') /\ output'[i - 1] = "readerError"
            BY <5>2, <4>2, <2>2
          <6> QED
            BY <6>1 DEF ReaderErrorIsTold
        <5> QED
          BY <5>1, <5>2
      <4> QED
        BY <4>1, <4>2 DEF ReaderErrorIsTold
    <3> QED
      BY <3>1, <3>2, <2>1, <2>o, <1>i DEF ErrorInv
  <2>x. ExitInv'
    BY <2>1, <2>o, <2>p, <1>n, <1>i DEF ExitInv
  <2>t. OutputTypeOK'
    <3>1. /\ published' \in [{"data", "error", "exit"} -> Nat]
      BY <2>1, <1>n DEF OutputTypeOK
    <3>2. published'["error"] <= 2
      <4>1. published'["error"] + Queued("readerError")' + Queued("waitError")'
               + ReaderMayFail' + WaiterMayFail' <= 2
        BY <2>e DEF ErrorInv
      <4>2. /\ published'["error"] \in Nat /\ ReaderMayFail' \in Nat /\ WaiterMayFail' \in Nat
            /\ Queued("readerError")' \in Nat /\ Queued("waitError")' \in Nat
        BY <2>3, <3>1 DEF ReaderMayFail, WaiterMayFail, One, PumpMessages
      <4> QED
        BY <4>1, <4>2
    <3>3. published'["data"] <= MaxChunks /\ published'["exit"] <= 1
      <4>1. published["data"] + (PumpHolds + Queued("data") + ReaderHolds) <= chunksRead
        BY <1>i DEF DataInv, OnItsWay
      <4>2. chunksRead <= MaxChunks /\ published["exit"] <= PumpIsDone
        BY <1>i, <1>n DEF OutputTypeOK, ExitInv
      <4> QED
        BY <2>p, <1>n, <4>1, <4>2
    <3>4. published' \in [{"data", "error", "exit"} -> 0..MaxChunks + 2]
      BY <3>1, <3>2, <3>3, <1>n
    <3>5. Len(output') <= OutputCapacity /\ pump' \in {"receiving", "data"} /\ exitCode' \in BOOLEAN
      BY <2>1, <2>2, <1>n DEF OutputTypeOK
    <3> QED
      BY <3>4, <3>5, <2>1, <2>2 DEF OutputTypeOK
  <2> QED
    BY <2>t, <2>d, <2>e, <2>x
<1> QED
  BY <1>1, <1>2, <1>3, <1>4, <1>5, <1>6, <1>7, <1>8, <1>9, <1>10, <1>11, <1>12, <1>13,
     <1>14, <1>15, <1>16, <1>17, <1>18
     DEF ReaderStep, WaiterStep, PumpStep, ReaderSends, WaiterSends

--------------------------------------------------------------------------------
(* The steps that close the session, and all steps together.               *)

\* Emptying the slot.
LEMMA SlotTaken ==
    ASSUME ClosingInv, ClosingTypeOK, NEW who \in Closers, TakeFromSlot(who),
           UNCHANGED <<closed, shell>>
    PROVE  ClosingInv' /\ ClosingTypeOK'
BY DEF ClosingInv, ClosingTypeOK, TakeFromSlot, Closers

\* Only the threads that close the session touch the slot and the signal.
LEMMA ClosingSteps ==
    ASSUME ClosingInv, ClosingTypeOK, Next
    PROVE  ClosingInv' /\ ClosingTypeOK'
<1>1. CASE CloseTerminal
  BY <1>1, SlotTaken DEF CloseTerminal, Closers
<1>2. CASE CloseStep
  <2>1. CASE SignalClosed
    BY <1>2, <2>1 DEF SignalClosed, ClosingInv, ClosingTypeOK
  <2>2. CASE TakeInput
    BY <1>2, <2>2 DEF TakeInput, ClosingInv, ClosingTypeOK
  <2>3. CASE ReleaseHandles
    BY <1>2, <2>3 DEF ReleaseHandles, ClosingInv, ClosingTypeOK
  <2> QED
    BY <1>2, <2>1, <2>2, <2>3 DEF CloseStep
<1>3. CASE WriterCloses
  BY <1>3, SlotTaken, ClosingKept DEF WriterCloses, Closers, registry
<1>4. CASE ReaderCloses
  BY <1>4, SlotTaken, ClosingKept DEF ReaderCloses, Closers, registry
<1>5. CASE WaiterCloses
  BY <1>5, SlotTaken, ClosingKept DEF WaiterCloses, Closers, registry
<1>6. CASE PumpFinishes
  BY <1>6, SlotTaken DEF PumpFinishes, Closers
<1>7. CASE ShellExits
  BY <1>7 DEF ShellExits, registry, ClosingInv, ClosingTypeOK
<1>8. CASE (\E size \in Sizes : FindSession(size)) \/ CallStep
  BY <1>8, ClosingKept DEF FindSession, CallStep, ReserveMessage, ReserveBytes, Enqueue
<1>9. CASE WriterStep /\ ~WriterCloses
  BY <1>9, ClosingKept DEF WriterStep, WriterTakes, WriterWrites, WriterCancelled, WriteFails,
       WriterStops, WriterDisconnected, WriterExits
<1>10. CASE ReaderStep /\ ~ReaderCloses
  BY <1>10, ClosingKept DEF ReaderStep, ReaderCancelled, ReadChunk, ReadEnds, ReaderSends,
       ReaderExits
<1>11. CASE WaiterStep /\ ~WaiterCloses
  BY <1>11, ClosingKept DEF WaiterStep, WaitReturns, WaiterSends, WaiterExits
<1>12. CASE PumpStep /\ ~PumpFinishes
  BY <1>12, ClosingKept DEF PumpStep, PumpReceives, PumpPublishes, PumpExits
<1> QED
  BY <1>1, <1>2, <1>3, <1>4, <1>5, <1>6, <1>7, <1>8, <1>9, <1>10, <1>11, <1>12 DEF Next

\* Closing the session takes nothing from the output that was read before it.
LEMMA OutputSurvivesClosing ==
    ASSUME OutputInv, OutputTypeOK, ClosingInv, closing' \in {closing, "user", "writer"},
           closed => closed', UNCHANGED <<sending, output, pumping>>
    PROVE  OutputInv' /\ OutputTypeOK'
<1>1. OutputTypeOK'
  BY DEF OutputTypeOK, sending, pumping
<1>2. /\ \A kind \in PumpMessages : Queued(kind)' = Queued(kind)
      /\ ReaderHolds' = ReaderHolds /\ PumpHolds' = PumpHolds /\ PumpIsDone' = PumpIsDone
      /\ ReaderMayFail' = ReaderMayFail /\ WaiterMayFail' = WaiterMayFail
      /\ ReaderErrorIsTold' = ReaderErrorIsTold
  BY DEF Queued, Marks, ReaderHolds, PumpHolds, PumpIsDone, ReaderMayFail, WaiterMayFail,
         ReaderErrorIsTold, sending, pumping
<1>3. DataInv'
  BY <1>2 DEF OutputInv, DataInv, OnItsWay, sending, pumping, PumpMessages
<1>4. ErrorInv' /\ ExitInv'
  BY <1>2 DEF OutputInv, ErrorInv, ExitInv, sending, pumping, PumpMessages
<1> QED
  BY <1>1, <1>3, <1>4 DEF OutputInv

Inv == InputInv /\ InputTypeOK /\ OutputInv /\ OutputTypeOK /\ ClosingInv /\ ClosingTypeOK

\* The invariant, in the parts that the steps keep.
LEMMA InvIsIInv == Inv <=> IInv
BY DEF Inv, IInv, InputInv, OutputInv, TypeOK

\* It holds of a session that was just opened
LEMMA InvHoldsFirst == Init => Inv
<1> SUFFICES ASSUME Init PROVE Inv
  OBVIOUS
<1>1. InputTypeOK /\ OutputTypeOK /\ ClosingTypeOK
  <2>1. /\ MaxMessages \in Nat /\ MaxBytes \in Nat /\ MaxWrites \in Nat /\ MaxChunks \in Nat
        /\ OutputCapacity \in Nat
    BY TerminalAssumption DEF TerminalAssumption
  <2>2. <<>> \in Seq(Sizes) /\ <<>> \in Seq(PumpMessages) /\ Len(<<>>) = 0
    BY EmptySeq
  <2>3. InputTypeOK
    BY <2>1, <2>2 DEF Init, InputTypeOK
  <2>4. OutputTypeOK
    <3>1. 0 \in 0..MaxChunks /\ 0 \in 0..MaxChunks + 2 /\ 0 <= OutputCapacity
      BY <2>1
    <3>2. [k \in {"data", "error", "exit"} |-> 0]
            \in [{"data", "error", "exit"} -> 0..MaxChunks + 2]
      BY <3>1
    <3>3. output = <<>> /\ published = [k \in {"data", "error", "exit"} |-> 0]
      BY DEF Init
    <3>4. Len(output) <= OutputCapacity /\ output \in Seq(PumpMessages)
      BY <3>1, <3>3, <2>2
    <3> QED
      BY <3>1, <3>2, <3>3, <3>4 DEF Init, OutputTypeOK
  <2>5. ClosingTypeOK
    BY DEF Init, ClosingTypeOK
  <2> QED
    BY <2>3, <2>4, <2>5
<1>2. InputInv
  BY TotalEmpty DEF Init, InputInv, InputBudget, HandsInv
<1>3. OutputInv
  <2>1. \A kind \in PumpMessages : Queued(kind) = 0
    BY QueuedNone DEF Init, Queued
  <2>2. /\ ReaderHolds = 0 /\ PumpHolds = 0 /\ ReaderMayFail = 1 /\ WaiterMayFail = 1
        /\ PumpIsDone = 0
    BY DEF Init, ReaderHolds, PumpHolds, ReaderMayFail, WaiterMayFail, PumpIsDone, One
  <2> QED
    BY <2>1, <2>2 DEF Init, OutputInv, DataInv, OnItsWay, ErrorInv, ExitInv, PumpMessages
<1>4. ClosingInv
  BY DEF Init, ClosingInv
<1> QED
  BY <1>1, <1>2, <1>3, <1>4 DEF Inv

\* and every step keeps it.
LEMMA InvIsKept == Inv /\ [Next]_vars => Inv'
<1> SUFFICES ASSUME Inv, [Next]_vars PROVE Inv'
  OBVIOUS
<1>i. InputInv /\ InputTypeOK /\ OutputInv /\ OutputTypeOK /\ ClosingInv /\ ClosingTypeOK
  BY DEF Inv
<1>1. CASE UNCHANGED vars
  BY <1>1, <1>i, InputKept, OutputKept, ClosingKept DEF Inv, vars, registry
<1>2. CASE Next
  <2>1. ClosingInv' /\ ClosingTypeOK'
    BY <1>2, <1>i, ClosingSteps
  <2>2. InputInv' /\ InputTypeOK'
    <3>1. CASE (\E size \in Sizes : FindSession(size)) \/ CallStep \/ WriterStep
      BY <3>1, <1>i, InputSteps
    <3>2. CASE CloseTerminal \/ CloseStep \/ ReaderStep \/ WaiterStep \/ PumpStep \/ ShellExits
      <4>1. UNCHANGED <<call, input>>
        BY <3>2 DEF CloseTerminal, CloseStep, SignalClosed, TakeInput, ReleaseHandles, ReaderStep,
             ReaderCancelled, ReadChunk, ReadEnds, ReaderSends, ReaderCloses, ReaderExits,
             WaiterStep, WaitReturns, WaiterSends, WaiterCloses, WaiterExits, PumpStep,
             PumpReceives, PumpPublishes, PumpFinishes, PumpExits, ShellExits
      <4> QED
        BY <4>1, <1>i, InputKept
    <3> QED
      BY <1>2, <3>1, <3>2 DEF Next
  <2>3. OutputInv' /\ OutputTypeOK'
    <3>1. CASE ReaderStep \/ WaiterStep \/ PumpStep
      BY <3>1, <1>i, OutputSteps
    <3>2. CASE CloseTerminal \/ CloseStep \/ WriterCloses
      <4>1. /\ closing' \in {closing, "user", "writer"} /\ (closed => closed')
            /\ UNCHANGED <<sending, output, pumping>>
        BY <3>2 DEF CloseTerminal, CloseStep, SignalClosed, TakeInput, ReleaseHandles,
             WriterCloses, TakeFromSlot
      <4> QED
        BY <4>1, <1>i, OutputSurvivesClosing
    <3>3. CASE \/ (\E size \in Sizes : FindSession(size)) \/ CallStep \/ ShellExits
               \/ (WriterStep /\ ~WriterCloses)
      <4>1. UNCHANGED <<closed, closing, sending, output, pumping>>
        BY <3>3 DEF FindSession, CallStep, ReserveMessage, ReserveBytes, Enqueue, ShellExits,
             WriterStep, WriterTakes, WriterWrites, WriterCancelled, WriteFails, WriterStops,
             WriterDisconnected, WriterExits, registry
      <4> QED
        BY <4>1, <1>i, OutputKept
    <3> QED
      BY <1>2, <3>1, <3>2, <3>3 DEF Next
  <2> QED
    BY <2>1, <2>2, <2>3 DEF Inv
<1> QED
  BY <1>1, <1>2

\* The invariant of a terminal session, inductive: its parts say what each thread
\* has in its hands, and the others rest on them.
THEOREM InductiveInvariant == Spec => []IInv
<1>1. Spec => []Inv
  BY InvHoldsFirst, InvIsKept, PTL DEF Spec
<1> QED
  BY <1>1, InvIsIInv, PTL

\* Every variable of a session keeps its type: no counter of the input budget
\* passes its limit or wraps below zero, and no queue its capacity.
THEOREM TypeCorrect == Spec => []TypeOK
<1>1. IInv => TypeOK
  BY DEF IInv
<1> QED
  BY <1>1, InductiveInvariant, PTL

\* terminal/input.rs: the outstanding counters are what is queued, being written
\* and being enqueued, whatever was refused, returned or dropped.
THEOREM BudgetIsExact == Spec => []InputBudget
<1>1. IInv => InputBudget
  BY DEF IInv
<1> QED
  BY <1>1, InductiveInvariant, PTL

\* A session that ended by itself has published every chunk that was read before
\* its exit, and a failure of the reader that takes a session down is told.
THEOREM EndsAreTold == Spec => []OutputIsTold
<1>1. IInv => OutputIsTold
  BY DEF IInv, DataInv, ErrorInv, ReaderErrorIsTold, OutputIsTold, ExitAfterOutput,
         ReaderErrorIsReported
<1> QED
  BY <1>1, InductiveInvariant, PTL

--------------------------------------------------------------------------------
(* A session that ends is never stuck, and every step brings it closer.    *)

\* Who has gone as far as this has a shell that is gone, or has left the slot to another.
EndingInv ==
    /\ reader = "readerFinished" \/ waiter = "exit" => shell = "dead"
    /\ reader = "done" \/ waiter = "done" => shell = "dead" \/ ~slotHeld
    /\ "closing" \in {reader, waiter, writer} => ~slotHeld
    /\ pump \in {"closing", "done"} => ~slotHeld /\ reader = "done" /\ waiter = "done"
    /\ closing = "pump" \/ closePc = "done" => shell = "dead"
    /\ connected <=> writer # "done"
    /\ writer \in {"stopped", "done"} => queue = <<>>

LEMMA EndingAtFirst == Init => EndingInv
BY DEF Init, EndingInv

LEMMA EndingIsKept == TypeOK /\ ClosingInv /\ EndingInv /\ [Next]_vars => EndingInv'
<1> SUFFICES ASSUME TypeOK, ClosingInv, EndingInv, [Next]_vars PROVE EndingInv'
  OBVIOUS
<1> USE DEF EndingInv, ClosingInv, registry, call, input, budget, sending, pumping
<1>t. /\ writer \in {"idle", "writing", "failed", "closing", "stopped", "done"}
      /\ pump \in {"receiving", "data", "closing", "done"} /\ slotHeld \in BOOLEAN
      /\ connected \in BOOLEAN
  BY DEF TypeOK, ClosingTypeOK, InputTypeOK, OutputTypeOK
<1>1. CASE CloseTerminal
  BY <1>1, <1>t DEF CloseTerminal, TakeFromSlot
<1>2. CASE CloseStep
  BY <1>2, <1>t DEF CloseStep, SignalClosed, TakeInput, ReleaseHandles
<1>3. CASE (\E size \in Sizes : FindSession(size)) \/ CallStep
  <2>1. CASE \E size \in Sizes : FindSession(size)
    BY <2>1, <1>t DEF FindSession
  <2>2. CASE ReserveMessage \/ ReserveBytes
    BY <2>2, <1>t DEF ReserveMessage, ReserveBytes
  <2>3. CASE Enqueue
    BY <2>3, <1>t DEF Enqueue, ReceiverAlive
  <2> QED
    BY <1>3, <2>1, <2>2, <2>3 DEF CallStep
<1>4. CASE WriterStep
  <2>1. CASE WriterTakes \/ WriterWrites \/ WriterCancelled \/ WriteFails
    BY <2>1, <1>t DEF WriterTakes, WriterWrites, WriterCancelled, WriteFails, DropInputs
  <2>2. CASE WriterCloses
    BY <2>2, <1>t DEF WriterCloses, TakeFromSlot
  <2>3. CASE WriterStops \/ WriterDisconnected \/ WriterExits
    BY <2>3, <1>t DEF WriterStops, WriterDisconnected, WriterExits, DropInputs
  <2> QED
    BY <1>4, <2>1, <2>2, <2>3 DEF WriterStep
<1>5. CASE ReaderStep
  <2>1. CASE ReaderCancelled \/ ReadChunk \/ ReadEnds
    BY <2>1, <1>t DEF ReaderCancelled, ReadChunk, ReadEnds
  <2>2. CASE ReaderSends
    BY <2>2, <1>t DEF ReaderSends
  <2>3. CASE ReaderCloses \/ ReaderExits
    BY <2>3, <1>t DEF ReaderCloses, ReaderExits, TakeFromSlot
  <2> QED
    BY <1>5, <2>1, <2>2, <2>3 DEF ReaderStep
<1>6. CASE WaiterStep
  BY <1>6, <1>t DEF WaiterStep, WaitReturns, WaiterSends, WaiterCloses, WaiterExits, TakeFromSlot
<1>7. CASE PumpStep
  BY <1>7, <1>t DEF PumpStep, PumpReceives, PumpPublishes, PumpFinishes, PumpExits, TakeFromSlot
<1>8. CASE ShellExits
  BY <1>8, <1>t DEF ShellExits
<1>9. CASE UNCHANGED vars
  BY <1>9 DEF vars
<1> QED
  BY <1>1, <1>2, <1>3, <1>4, <1>5, <1>6, <1>7, <1>8, <1>9 DEF Next

\* The steps of Fairness that the state allows, by the threads that take them.
CloseMoves ==
    \/ closePc \in {"removed", "inputTaken"}
    \/ closePc = "signalled" /\ callPc \notin {"messageReserved", "bytesReserved"}
CallMoves == callPc # "idle"
WriterMoves ==
    \/ writer = "idle" /\ (queue # <<>> \/ ~InputOpen)
    \/ writer = "writing" /\ closed
    \/ writer = "closing" /\ Returned("writer")
    \/ writer \in {"failed", "stopped"}
ReaderMoves ==
    \/ reader \in {"reading", "data", "readerFinished", "readerError"} /\ closed
    \/ reader = "reading" /\ shell = "dead"
    \/ reader \in {"data", "readerFinished", "readerError"} /\ Len(output) < OutputCapacity
    \/ reader = "closing" /\ Returned("reader")
    \/ reader = "failed"
WaiterMoves ==
    \/ waiter = "waiting" /\ shell = "dead"
    \/ waiter \in {"exit", "waitError"} /\ (closed \/ Len(output) < OutputCapacity)
    \/ waiter = "closing" /\ Returned("waiter")
    \/ waiter = "failed"
PumpMoves ==
    \/ pump = "receiving" /\ (output # <<>> \/ (reader = "done" /\ waiter = "done"))
    \/ pump = "closing" /\ Returned("pump")
    \/ pump = "data"
SomeThreadMoves ==
    CloseMoves \/ CallMoves \/ WriterMoves \/ ReaderMoves \/ WaiterMoves \/ PumpMoves

\* What SessionEnds promises.
IsEnding == shell = "dead" \/ closePc = "removed"
HasEnded ==
    /\ ~slotHeld /\ {writer, reader, waiter, pump} = {"done"}
    /\ messages = 0 /\ bytes = 0 /\ ~connected
    /\ shell = "dead"
EndNeverStalls == IsEnding \/ closePc # "open" => HasEnded \/ SomeThreadMoves

LEMMA NobodyWaitsInACircle == IInv /\ EndingInv /\ OutputCapacity > 0 => EndNeverStalls
<1> SUFFICES ASSUME IInv, EndingInv, OutputCapacity > 0, IsEnding \/ closePc # "open",
                    ~SomeThreadMoves
             PROVE  HasEnded
  BY DEF EndNeverStalls
<1>1. /\ closePc \in {"open", "removed", "signalled", "inputTaken", "done"}
      /\ closing \in Closers \cup {"nobody"} /\ slotHeld \in BOOLEAN
      /\ writer \in {"idle", "writing", "failed", "closing", "stopped", "done"}
      /\ reader \in {"reading", "data", "readerFinished", "readerError", "failed", "closing", "done"}
      /\ waiter \in {"waiting", "exit", "waitError", "failed", "closing", "done"}
      /\ pump \in {"receiving", "data", "closing", "done"}
      /\ output \in Seq(PumpMessages) /\ OutputCapacity \in Nat
  BY TerminalAssumption DEF IInv, TypeOK, ClosingTypeOK, InputTypeOK, OutputTypeOK
<1>2. ClosingInv
  BY DEF IInv
<1>3. callPc = "idle" /\ closePc \in {"open", "done"}
  BY <1>1 DEF SomeThreadMoves, CallMoves, CloseMoves
<1>4. \A who : closePc = "done" \/ closing # who => Returned(who)
  BY DEF Returned
<1>5. CASE closePc = "done"
  <2>1. closed /\ ~slotHeld /\ ~InputOpen /\ shell = "dead"
    BY <1>2, <1>5 DEF ClosingInv, EndingInv, InputOpen
  <2>2. writer = "done"
    BY <1>1, <1>4, <1>5, <2>1 DEF SomeThreadMoves, WriterMoves
  <2>3. reader = "done"
    BY <1>1, <1>4, <1>5, <2>1 DEF SomeThreadMoves, ReaderMoves
  <2>4. waiter = "done"
    BY <1>1, <1>4, <1>5, <2>1 DEF SomeThreadMoves, WaiterMoves
  <2>5. pump = "done"
    BY <1>1, <1>4, <1>5, <2>3, <2>4 DEF SomeThreadMoves, PumpMoves
  <2>6. queue = <<>> /\ current = 0 /\ ~connected
    BY <2>2 DEF EndingInv, IInv, HandsInv
  <2>7. messages = 0 /\ bytes = 0
    <3>1. Len(queue) = 0 /\ Total(queue) = 0
      BY <2>6, EmptySeq, TotalEmpty
    <3> QED
      BY <1>3, <2>6, <3>1 DEF IInv, InputBudget
  <2> QED
    BY <2>1, <2>2, <2>3, <2>4, <2>5, <2>6, <2>7 DEF HasEnded
<1>6. CASE closePc = "open"
  <2>1. shell = "dead" /\ slotHeld /\ closing = "nobody"
    BY <1>2, <1>6 DEF IsEnding, ClosingInv
  <2>2. pump \in {"receiving", "data"}
    BY <1>1, <2>1 DEF EndingInv
  <2>3. pump = "receiving" /\ output = <<>>
    BY <2>2 DEF SomeThreadMoves, PumpMoves
  <2>4. Len(output) < OutputCapacity
    BY <1>1, <2>3, EmptySeq
  <2>5. reader = "done"
    BY <1>1, <1>4, <2>1, <2>4 DEF SomeThreadMoves, ReaderMoves, Closers
  <2>6. waiter = "done"
    BY <1>1, <1>4, <2>1, <2>4 DEF SomeThreadMoves, WaiterMoves, Closers
  <2> QED
    BY <2>3, <2>5, <2>6 DEF SomeThreadMoves, PumpMoves
<1> QED
  BY <1>3, <1>5, <1>6

\* Nobody waits for everybody: a shell that is gone or a session that is being closed always
\* leaves a thread - the one that closes, the call that holds the input, the writer, the
\* reader, the waiter or the pump - something to do until all have ended, whoever closed it
\* and however full the queues were, as long as the output queue has room for one message
\* (SessionEnds, without the scheduler).
THEOREM ShutdownNeverStalls == Spec /\ OutputCapacity > 0 => []EndNeverStalls
<1>1. Spec => []EndingInv
  <2>1. IInv => TypeOK /\ ClosingInv
    BY DEF IInv
  <2>2. IInv /\ EndingInv /\ [Next]_vars => EndingInv'
    BY <2>1, EndingIsKept
  <2> QED
    BY <2>2, InductiveInvariant, EndingAtFirst, PTL DEF Spec
<1>2. SUFFICES ASSUME OutputCapacity > 0 PROVE Spec => []EndNeverStalls
  OBVIOUS
<1>3. IInv /\ EndingInv => EndNeverStalls
  BY <1>2, NobodyWaitsInACircle
<1> QED
  BY <1>1, <1>3, InductiveInvariant, PTL

\* The steps a session can still take: those of each thread, of what is queued, and of what
\* may still be printed and written.
WriterRank(w) == [done |-> 0, stopped |-> 1, closing |-> 2, failed |-> 3, idle |-> 4, writing |-> 5][w]
ReaderRank(r) == [done |-> 0, closing |-> 1, failed |-> 2, readerFinished |-> 5, readerError |-> 5,
                  reading |-> 6, data |-> 9][r]
WaiterRank(w) == [done |-> 0, closing |-> 1, failed |-> 2, exit |-> 5, waitError |-> 5, waiting |-> 6][w]
PumpRank(p) == [done |-> 0, closing |-> 1, receiving |-> 2, data |-> 3][p]
CloseRank(c) == [done |-> 0, inputTaken |-> 1, signalled |-> 2, removed |-> 3, open |-> 4][c]
CallRank(c) == [idle |-> 0, bytesReserved |-> 3, messageReserved |-> 4, found |-> 5][c]

InputLeft(w, q, c, n) == WriterRank(w) + 2 * Len(q) + CallRank(c) + 6 * (MaxWrites - n)
OutputLeft(r, w, p, q, n) ==
    ReaderRank(r) + WaiterRank(w) + PumpRank(p) + 2 * Len(q) + 4 * (MaxChunks - n)
InputStepsLeft == InputLeft(writer, queue, callPc, writes)
OutputStepsLeft == OutputLeft(reader, waiter, pump, output, chunksRead)
StepsLeft == InputStepsLeft + OutputStepsLeft + CloseRank(closePc) + One(shell = "alive")

LEMMA RanksAre ==
    /\ WriterRank("done") = 0 /\ WriterRank("stopped") = 1 /\ WriterRank("closing") = 2
    /\ WriterRank("failed") = 3 /\ WriterRank("idle") = 4 /\ WriterRank("writing") = 5
    /\ ReaderRank("done") = 0 /\ ReaderRank("closing") = 1 /\ ReaderRank("failed") = 2
    /\ ReaderRank("readerFinished") = 5 /\ ReaderRank("readerError") = 5
    /\ ReaderRank("reading") = 6 /\ ReaderRank("data") = 9
    /\ WaiterRank("done") = 0 /\ WaiterRank("closing") = 1 /\ WaiterRank("failed") = 2
    /\ WaiterRank("exit") = 5 /\ WaiterRank("waitError") = 5 /\ WaiterRank("waiting") = 6
    /\ PumpRank("done") = 0 /\ PumpRank("closing") = 1 /\ PumpRank("receiving") = 2
    /\ PumpRank("data") = 3
    /\ CloseRank("done") = 0 /\ CloseRank("inputTaken") = 1 /\ CloseRank("signalled") = 2
    /\ CloseRank("removed") = 3 /\ CloseRank("open") = 4
    /\ CallRank("idle") = 0 /\ CallRank("bytesReserved") = 3 /\ CallRank("messageReserved") = 4
    /\ CallRank("found") = 5
BY DEF WriterRank, ReaderRank, WaiterRank, PumpRank, CloseRank, CallRank

WriterKinds == {"idle", "writing", "failed", "closing", "stopped", "done"}
ReaderKinds == {"reading", "data", "readerFinished", "readerError", "failed", "closing", "done"}
WaiterKinds == {"waiting", "exit", "waitError", "failed", "closing", "done"}
PumpKinds == {"receiving", "data", "closing", "done"}
CloseKinds == {"open", "removed", "signalled", "inputTaken", "done"}
CallKinds == {"idle", "found", "messageReserved", "bytesReserved"}

LEMMA RanksAreNumbers ==
    /\ \A w \in WriterKinds : WriterRank(w) \in Nat
    /\ \A r \in ReaderKinds : ReaderRank(r) \in Nat
    /\ \A w \in WaiterKinds : WaiterRank(w) \in Nat
    /\ \A p \in PumpKinds : PumpRank(p) \in Nat
    /\ \A c \in CloseKinds : CloseRank(c) \in Nat
    /\ \A c \in CallKinds : CallRank(c) \in Nat
BY RanksAre DEF WriterKinds, ReaderKinds, WaiterKinds, PumpKinds, CloseKinds, CallKinds

LEMMA KindsAre ==
    TypeOK => /\ writer \in WriterKinds /\ reader \in ReaderKinds /\ waiter \in WaiterKinds
              /\ pump \in PumpKinds /\ closePc \in CloseKinds /\ callPc \in CallKinds
BY DEF TypeOK, InputTypeOK, OutputTypeOK, ClosingTypeOK, WriterKinds, ReaderKinds, WaiterKinds,
   PumpKinds, CloseKinds, CallKinds

LEMMA StepsAreNumbers ==
    /\ \A w \in WriterKinds, q \in Seq(Sizes), c \in CallKinds, n \in 0..MaxWrites :
         InputLeft(w, q, c, n) \in Nat
    /\ \A r \in ReaderKinds, w \in WaiterKinds, p \in PumpKinds, q \in Seq(PumpMessages),
          n \in 0..MaxChunks : OutputLeft(r, w, p, q, n) \in Nat
<1>1. MaxWrites \in Nat /\ MaxChunks \in Nat
  BY TerminalAssumption
<1>2. ASSUME NEW w \in WriterKinds, NEW q \in Seq(Sizes), NEW c \in CallKinds, NEW n \in 0..MaxWrites
      PROVE  InputLeft(w, q, c, n) \in Nat
  <2>1. WriterRank(w) \in Nat /\ CallRank(c) \in Nat /\ Len(q) \in Nat
    BY RanksAreNumbers, LenProperties
  <2> QED
    BY <1>1, <2>1 DEF InputLeft
<1>3. ASSUME NEW r \in ReaderKinds, NEW w \in WaiterKinds, NEW p \in PumpKinds,
             NEW q \in Seq(PumpMessages), NEW n \in 0..MaxChunks
      PROVE  OutputLeft(r, w, p, q, n) \in Nat
  <2>1. ReaderRank(r) \in Nat /\ WaiterRank(w) \in Nat /\ PumpRank(p) \in Nat /\ Len(q) \in Nat
    BY RanksAreNumbers, LenProperties
  <2> QED
    BY <1>1, <2>1 DEF OutputLeft
<1> QED
  BY <1>2, <1>3

LEMMA StepsAreCounted ==
    TypeOK => /\ InputStepsLeft \in Nat /\ OutputStepsLeft \in Nat /\ StepsLeft \in Nat
              /\ CloseRank(closePc) \in Nat /\ One(shell = "alive") \in Nat
<1> SUFFICES ASSUME TypeOK
             PROVE  /\ InputStepsLeft \in Nat /\ OutputStepsLeft \in Nat /\ StepsLeft \in Nat
                    /\ CloseRank(closePc) \in Nat /\ One(shell = "alive") \in Nat
  OBVIOUS
<1>1. InputStepsLeft \in Nat /\ OutputStepsLeft \in Nat
  BY KindsAre, StepsAreNumbers DEF TypeOK, InputTypeOK, OutputTypeOK, InputStepsLeft, OutputStepsLeft
<1>2. CloseRank(closePc) \in Nat /\ One(shell = "alive") \in Nat
  BY KindsAre, RanksAreNumbers DEF One
<1> QED
  BY <1>1, <1>2 DEF StepsLeft

\* The steps of the threads shorten what they have before them, ...
LEMMA InputShortens ==
    ASSUME TypeOK, TypeOK', InputBudget, (\E size \in Sizes : FindSession(size)) \/ CallStep \/ WriterStep
    PROVE  InputStepsLeft' < InputStepsLeft
<1> USE DEF registry, call, input, budget, sending, pumping
<1>1. /\ Len(queue) \in Nat /\ MaxWrites \in Nat /\ writes \in 0..MaxWrites
      /\ queue \in Seq(Sizes) /\ callSize \in Sizes \cup {0}
      /\ writer \in {"idle", "writing", "failed", "closing", "stopped", "done"}
      /\ callPc \in {"idle", "found", "messageReserved", "bytesReserved"}
  BY LenProperties, TerminalAssumption DEF TypeOK, InputTypeOK
<1>2. WriterRank(writer) \in Nat /\ CallRank(callPc) \in Nat
  BY <1>1, RanksAre
<1>3. CASE \E size \in Sizes : FindSession(size)
  <2>1. /\ callPc = "idle" /\ callPc' = "found" /\ writes' = writes + 1 /\ writes < MaxWrites
        /\ writer' = writer /\ queue' = queue
    BY <1>3 DEF FindSession
  <2>2. CallRank(callPc') = CallRank(callPc) + 5 /\ 6 * (MaxWrites - writes') = 6 * (MaxWrites - writes) - 6
    BY <1>1, <2>1, RanksAre
  <2> QED
    BY <1>1, <1>2, <2>1, <2>2 DEF InputStepsLeft, InputLeft
<1>4. CASE ReserveMessage \/ ReserveBytes
  <2>1. /\ \/ callPc = "found" /\ callPc' \in {"messageReserved", "idle"}
           \/ callPc = "messageReserved" /\ callPc' \in {"bytesReserved", "idle"}
        /\ writes' = writes /\ writer' = writer /\ queue' = queue
    BY <1>4 DEF ReserveMessage, ReserveBytes, CallReturns
  <2>2. CallRank(callPc') < CallRank(callPc) /\ CallRank(callPc') \in Nat
    BY <2>1, RanksAre
  <2> QED
    BY <1>1, <1>2, <2>1, <2>2 DEF InputStepsLeft, InputLeft
<1>5. CASE Enqueue
  <2>1. /\ callPc = "bytesReserved" /\ callPc' = "idle" /\ writes' = writes /\ writer' = writer
        /\ queue' \in {queue, Append(queue, callSize)}
    BY <1>5 DEF Enqueue, CallReturns
  <2>2. Len(queue') <= Len(queue) + 1 /\ Len(queue') \in Nat
    <3>1. queue' = queue \/ Len(queue') = Len(queue) + 1
      BY <1>1, <2>1, AppendProperties
    <3> QED
      BY <1>1, <3>1
  <2>3. CallRank(callPc) = 3 /\ CallRank(callPc') = 0
    BY <2>1, RanksAre
  <2> QED
    BY <1>1, <1>2, <2>1, <2>2, <2>3 DEF InputStepsLeft, InputLeft
<1>6. CASE WriterStep
  <2>1. writes' = writes /\ callPc' = callPc
    BY <1>6 DEF WriterStep, WriterTakes, WriterWrites, WriterCancelled, WriteFails,
       WriterCloses, WriterStops, WriterDisconnected, WriterExits
  <2>2. \/ /\ WriterRank(writer') < WriterRank(writer) /\ queue' \in {queue, <<>>}
        \/ /\ WriterRank(writer') = WriterRank(writer) + 1 /\ queue # <<>> /\ queue' = Tail(queue)
    <3>1. CASE WriterTakes
      BY <3>1, RanksAre DEF WriterTakes, DropInputs
    <3>2. CASE WriterWrites \/ WriterCancelled \/ WriteFails
      BY <3>2, RanksAre DEF WriterWrites, WriterCancelled, WriteFails, DropInputs
    <3>3. CASE WriterCloses \/ WriterStops
      BY <3>3, RanksAre DEF WriterCloses, WriterStops, DropInputs
    <3>4. CASE WriterDisconnected \/ WriterExits
      BY <3>4, RanksAre DEF WriterDisconnected, WriterExits
    <3> QED
      BY <1>6, <3>1, <3>2, <3>3, <3>4 DEF WriterStep
  <2>3. WriterRank(writer') \in Nat
    BY RanksAre DEF TypeOK, InputTypeOK
  <2>4. CASE WriterRank(writer') < WriterRank(writer) /\ queue' \in {queue, <<>>}
    <3>1. Len(queue') <= Len(queue) /\ Len(queue') \in Nat
      BY <1>1, <2>4, EmptySeq
    <3> QED
      BY <1>1, <1>2, <2>1, <2>3, <2>4, <3>1 DEF InputStepsLeft, InputLeft
  <2>5. CASE WriterRank(writer') = WriterRank(writer) + 1 /\ queue # <<>> /\ queue' = Tail(queue)
    <3>1. Len(queue') = Len(queue) - 1 /\ Len(queue') \in Nat
      BY <1>1, <2>5, HeadTailProperties, EmptySeq
    <3> QED
      BY <1>1, <1>2, <2>1, <2>3, <2>5, <3>1 DEF InputStepsLeft, InputLeft
  <2> QED
    BY <2>2, <2>4, <2>5
<1> QED
  BY <1>3, <1>4, <1>5, <1>6 DEF CallStep

LEMMA OutputShortens ==
    ASSUME TypeOK, TypeOK', ReaderStep \/ WaiterStep \/ PumpStep
    PROVE  OutputStepsLeft' < OutputStepsLeft
<1> USE DEF registry, call, input, budget, sending, pumping
<1>1. /\ Len(output) \in Nat /\ MaxChunks \in Nat /\ chunksRead \in 0..MaxChunks
      /\ output \in Seq(PumpMessages) /\ Len(output') \in Nat /\ chunksRead' \in 0..MaxChunks
      /\ reader \in {"reading", "data", "readerFinished", "readerError", "failed", "closing", "done"}
      /\ waiter \in {"waiting", "exit", "waitError", "failed", "closing", "done"}
      /\ pump \in {"receiving", "data", "closing", "done"}
  BY LenProperties, TerminalAssumption DEF TypeOK, OutputTypeOK
<1>2. /\ ReaderRank(reader) \in Nat /\ WaiterRank(waiter) \in Nat /\ PumpRank(pump) \in Nat
      /\ ReaderRank(reader') \in Nat /\ WaiterRank(waiter') \in Nat /\ PumpRank(pump') \in Nat
  <2>1. reader' \in ReaderKinds /\ waiter' \in WaiterKinds /\ pump' \in PumpKinds
    BY DEF TypeOK, OutputTypeOK, ReaderKinds, WaiterKinds, PumpKinds
  <2> QED
    BY <2>1, KindsAre, RanksAreNumbers
<1>3. \A m \in PumpMessages : Len(Append(output, m)) = Len(output) + 1
  BY <1>1, AppendProperties
<1>4. CASE ReaderStep
  <2>1. waiter' = waiter /\ pump' = pump
    BY <1>4 DEF ReaderStep, ReaderCancelled, ReadChunk, ReadEnds, ReaderSends, ReaderCloses, ReaderExits
  <2>2. \/ /\ ReaderRank(reader') < ReaderRank(reader)
           /\ output' = output /\ chunksRead' = chunksRead
        \/ /\ ReaderRank(reader') = ReaderRank(reader) + 3
           /\ output' = output /\ chunksRead' = chunksRead + 1
        \/ /\ ReaderRank(reader') <= ReaderRank(reader) - 3
           /\ Len(output') = Len(output) + 1 /\ chunksRead' = chunksRead
    <3>1. CASE ReaderCancelled \/ ReadEnds \/ ReaderCloses \/ ReaderExits
      BY <3>1, RanksAre DEF ReaderCancelled, ReadEnds, ReaderCloses, ReaderExits
    <3>2. CASE ReadChunk
      BY <3>2, RanksAre DEF ReadChunk
    <3>3. CASE ReaderSends
      BY <1>3, <3>3, RanksAre DEF ReaderSends, PumpMessages
    <3> QED
      BY <1>4, <3>1, <3>2, <3>3 DEF ReaderStep
  <2>3. PICK r, p, n, m, d, e : /\ r = ReaderRank(reader) /\ p = ReaderRank(reader')
                                /\ n = Len(output) /\ m = Len(output')
                                /\ d = MaxChunks - chunksRead /\ e = MaxChunks - chunksRead'
    OBVIOUS
  <2>4. r \in Nat /\ p \in Nat /\ n \in Nat /\ m \in Nat /\ d \in Nat /\ e \in Nat
    <3>1. r \in Nat /\ p \in Nat /\ n \in Nat /\ m \in Nat
      BY <1>1, <1>2, <2>3
    <3>2. MaxChunks - chunksRead \in Nat /\ MaxChunks - chunksRead' \in Nat
      <4>1. \A c \in 0..MaxChunks : MaxChunks - c \in Nat
        BY <1>1
      <4> QED
        BY <1>1, <4>1, Zenon
    <3> QED
      BY <2>3, <3>1, <3>2, Zenon
  <2>5. \/ p < r /\ m = n /\ e = d
        \/ p = r + 3 /\ m = n /\ e = d - 1
        \/ p <= r - 3 /\ m = n + 1 /\ e = d
    <3>1. chunksRead' = chunksRead => e = d
      BY <2>3, Zenon
    <3>2. chunksRead' = chunksRead + 1 => e = d - 1
      <4> SUFFICES ASSUME chunksRead' = chunksRead + 1 PROVE e = d - 1
        OBVIOUS
      <4>1. MaxChunks - (chunksRead + 1) = (MaxChunks - chunksRead) - 1
        BY <1>1
      <4> QED
        BY <2>3, <4>1, Zenon
    <3>3. output' = output => m = n
      BY <2>3, Zenon
    <3>4. \/ p < r /\ output' = output /\ chunksRead' = chunksRead
          \/ p = r + 3 /\ output' = output /\ chunksRead' = chunksRead + 1
          \/ p <= r - 3 /\ m = n + 1 /\ chunksRead' = chunksRead
      BY <2>2, <2>3, Zenon
    <3> QED
      BY <3>1, <3>2, <3>3, <3>4, Zenon
  <2>6. p + 2 * m + 4 * e < r + 2 * n + 4 * d
    BY <2>4, <2>5
  <2>7. PICK w, q : w = WaiterRank(waiter) /\ q = PumpRank(pump)
    OBVIOUS
  <2>8. /\ w \in Nat /\ q \in Nat
        /\ OutputStepsLeft = r + w + q + 2 * n + 4 * d
        /\ OutputStepsLeft' = p + w + q + 2 * m + 4 * e
    BY <1>2, <2>1, <2>3, <2>7 DEF OutputStepsLeft, OutputLeft
  <2> QED
    BY <2>4, <2>6, <2>8
<1>5. CASE WaiterStep
  <2>1. reader' = reader /\ pump' = pump /\ chunksRead' = chunksRead
    BY <1>5 DEF WaiterStep, WaitReturns, WaiterSends, WaiterCloses, WaiterExits
  <2>2. \/ WaiterRank(waiter') < WaiterRank(waiter) /\ output' = output
        \/ WaiterRank(waiter') <= WaiterRank(waiter) - 3 /\ Len(output') = Len(output) + 1
    <3>1. CASE WaitReturns \/ WaiterCloses \/ WaiterExits
      BY <3>1, RanksAre DEF WaitReturns, WaiterCloses, WaiterExits
    <3>2. CASE WaiterSends
      BY <1>3, <3>2, RanksAre DEF WaiterSends, PumpMessages
    <3> QED
      BY <1>5, <3>1, <3>2 DEF WaiterStep
  <2>3. PICK w, x, n, m : w = WaiterRank(waiter) /\ x = WaiterRank(waiter') /\ n = Len(output) /\ m = Len(output')
    OBVIOUS
  <2>4. w \in Nat /\ x \in Nat /\ n \in Nat /\ m \in Nat
    BY <1>1, <1>2, <2>3
  <2>5. (x < w /\ m = n) \/ (x <= w - 3 /\ m = n + 1)
    BY <2>2, <2>3, Zenon
  <2>6. x + 2 * m < w + 2 * n
    BY <2>4, <2>5
  <2>7. PICK a, b, d : a = ReaderRank(reader) /\ b = PumpRank(pump) /\ d = MaxChunks - chunksRead
    OBVIOUS
  <2>8. a \in Nat /\ b \in Nat /\ d \in Nat
    <3>1. MaxChunks - chunksRead \in Nat
      BY <1>1
    <3> QED
      BY <1>2, <2>7, <3>1, Zenon
  <2>9. /\ OutputStepsLeft = a + w + b + 2 * n + 4 * d
        /\ OutputStepsLeft' = a + x + b + 2 * m + 4 * d
    BY <2>1, <2>3, <2>7, Zenon DEF OutputStepsLeft, OutputLeft
  <2> QED
    BY <2>4, <2>6, <2>8, <2>9
<1>6. CASE PumpStep
  <2>1. reader' = reader /\ waiter' = waiter /\ chunksRead' = chunksRead
    BY <1>6 DEF PumpStep, PumpReceives, PumpPublishes, PumpFinishes, PumpExits
  <2>2. \/ PumpRank(pump') < PumpRank(pump) /\ output' = output
        \/ PumpRank(pump') <= PumpRank(pump) + 1 /\ Len(output') = Len(output) - 1
    <3>1. CASE PumpPublishes \/ PumpFinishes \/ PumpExits
      BY <3>1, RanksAre DEF PumpPublishes, PumpFinishes, PumpExits
    <3>2. CASE PumpReceives
      <4>1. output # <<>> /\ output' = Tail(output) /\ pump = "receiving" /\ pump' \in {"data", "receiving"}
        BY <3>2 DEF PumpReceives
      <4>2. Len(output') = Len(output) - 1
        BY <1>1, <4>1, HeadTailProperties
      <4>3. PumpRank(pump) = 2 /\ PumpRank(pump') \in {2, 3}
        BY <4>1, RanksAre
      <4> QED
        BY <4>2, <4>3
    <3> QED
      BY <1>6, <3>1, <3>2 DEF PumpStep
  <2>3. PICK w, x, n, m : w = PumpRank(pump) /\ x = PumpRank(pump') /\ n = Len(output) /\ m = Len(output')
    OBVIOUS
  <2>4. w \in Nat /\ x \in Nat /\ n \in Nat /\ m \in Nat
    BY <1>1, <1>2, <2>3
  <2>5. (x < w /\ m = n) \/ (x <= w + 1 /\ m = n - 1)
    BY <2>2, <2>3, Zenon
  <2>6. x + 2 * m < w + 2 * n
    BY <2>4, <2>5
  <2>7. PICK a, b, d : a = ReaderRank(reader) /\ b = WaiterRank(waiter) /\ d = MaxChunks - chunksRead
    OBVIOUS
  <2>8. a \in Nat /\ b \in Nat /\ d \in Nat
    <3>1. MaxChunks - chunksRead \in Nat
      BY <1>1
    <3> QED
      BY <1>2, <2>7, <3>1, Zenon
  <2>9. /\ OutputStepsLeft = a + b + w + 2 * n + 4 * d
        /\ OutputStepsLeft' = a + b + x + 2 * m + 4 * d
    BY <2>1, <2>3, <2>7, Zenon DEF OutputStepsLeft, OutputLeft
  <2> QED
    BY <2>4, <2>6, <2>8, <2>9
<1> QED
  BY <1>4, <1>5, <1>6

\* ... and nobody else lengthens it.
LEMMA StepsShorten == IInv /\ TypeOK' /\ Next => StepsLeft' < StepsLeft
<1> SUFFICES ASSUME IInv, TypeOK, TypeOK', Next PROVE StepsLeft' < StepsLeft
  BY DEF IInv
<1> USE DEF registry, call, input, budget, sending, pumping
<1>1. /\ InputStepsLeft \in Nat /\ OutputStepsLeft \in Nat /\ CloseRank(closePc) \in Nat
      /\ One(shell = "alive") \in Nat
      /\ InputStepsLeft' \in Nat /\ OutputStepsLeft' \in Nat /\ CloseRank(closePc') \in Nat
      /\ One(shell' = "alive") \in Nat
  <2>1. /\ writer' \in WriterKinds /\ queue' \in Seq(Sizes) /\ callPc' \in CallKinds
        /\ writes' \in 0..MaxWrites /\ closePc' \in CloseKinds
    BY DEF TypeOK, InputTypeOK, ClosingTypeOK, WriterKinds, CallKinds, CloseKinds
  <2>2. /\ reader' \in ReaderKinds /\ waiter' \in WaiterKinds /\ pump' \in PumpKinds
        /\ output' \in Seq(PumpMessages) /\ chunksRead' \in 0..MaxChunks
    BY DEF TypeOK, OutputTypeOK, ReaderKinds, WaiterKinds, PumpKinds
  <2>3. InputStepsLeft' \in Nat /\ OutputStepsLeft' \in Nat
    BY <2>1, <2>2, StepsAreNumbers DEF InputStepsLeft, OutputStepsLeft
  <2>4. CloseRank(closePc') \in Nat /\ One(shell' = "alive") \in Nat
    BY <2>1, RanksAreNumbers DEF One
  <2> QED
    BY <2>3, <2>4, StepsAreCounted
<1>2. UNCHANGED <<call, input>> => InputStepsLeft' = InputStepsLeft
  BY DEF InputStepsLeft, InputLeft
<1>3. UNCHANGED <<sending, output, pumping>> => OutputStepsLeft' = OutputStepsLeft
  BY DEF OutputStepsLeft, OutputLeft
<1>4. \A who : TakeFromSlot(who) => CloseRank(closePc') <= CloseRank(closePc)
  <2>1. CASE slotHeld
    <3>1. closePc = "open"
      BY <2>1 DEF IInv, ClosingInv
    <3> QED
      BY <2>1, <3>1, RanksAre DEF TakeFromSlot
  <2>2. CASE ~slotHeld
    BY <1>1, <2>2 DEF TakeFromSlot
  <2> QED
    BY <2>1, <2>2
<1>5. UNCHANGED shell => One(shell' = "alive") = One(shell = "alive")
  OBVIOUS
<1>6. CASE (\E size \in Sizes : FindSession(size)) \/ CallStep \/ WriterStep
  <2>1. InputStepsLeft' < InputStepsLeft
    BY <1>6, InputShortens DEF IInv
  <2>2. UNCHANGED <<sending, output, pumping>> /\ UNCHANGED shell
    BY <1>6 DEF FindSession, CallStep, ReserveMessage, ReserveBytes, Enqueue, WriterStep, WriterTakes,
       WriterWrites, WriterCancelled, WriteFails, WriterCloses, WriterStops, WriterDisconnected,
       WriterExits
  <2>3. CloseRank(closePc') <= CloseRank(closePc)
    <3>1. closePc' = closePc \/ TakeFromSlot("writer")
      BY <1>6 DEF FindSession, CallStep, ReserveMessage, ReserveBytes, Enqueue, WriterStep, WriterTakes,
         WriterWrites, WriterCancelled, WriteFails, WriterCloses, WriterStops, WriterDisconnected,
         WriterExits
    <3> QED
      BY <1>1, <1>4, <3>1
  <2> QED
    BY <1>1, <1>3, <1>5, <2>1, <2>2, <2>3 DEF StepsLeft
<1>7. CASE ReaderStep \/ WaiterStep \/ PumpStep
  <2>1. OutputStepsLeft' < OutputStepsLeft
    BY <1>7, OutputShortens
  <2>2. UNCHANGED <<call, input>> /\ UNCHANGED shell
    BY <1>7 DEF ReaderStep, ReaderCancelled, ReadChunk, ReadEnds, ReaderSends, ReaderCloses,
       ReaderExits, WaiterStep, WaitReturns, WaiterSends, WaiterCloses, WaiterExits, PumpStep,
       PumpReceives, PumpPublishes, PumpFinishes, PumpExits
  <2>3. CloseRank(closePc') <= CloseRank(closePc)
    <3>1. closePc' = closePc \/ \E who : TakeFromSlot(who)
      BY <1>7 DEF ReaderStep, ReaderCancelled, ReadChunk, ReadEnds, ReaderSends, ReaderCloses,
         ReaderExits, WaiterStep, WaitReturns, WaiterSends, WaiterCloses, WaiterExits, PumpStep,
         PumpReceives, PumpPublishes, PumpFinishes, PumpExits
    <3> QED
      BY <1>1, <1>4, <3>1
  <2> QED
    BY <1>1, <1>2, <1>5, <2>1, <2>2, <2>3 DEF StepsLeft
<1>8. CASE CloseTerminal \/ CloseStep \/ ShellExits
  <2>1. UNCHANGED <<call, input>> /\ UNCHANGED <<sending, output, pumping>>
    BY <1>8 DEF CloseTerminal, CloseStep, SignalClosed, TakeInput, ReleaseHandles, ShellExits
  <2>2. \/ /\ CloseRank(closePc') < CloseRank(closePc)
           /\ One(shell' = "alive") <= One(shell = "alive")
        \/ /\ CloseRank(closePc') = CloseRank(closePc)
           /\ One(shell' = "alive") < One(shell = "alive")
    <3>1. CASE CloseTerminal
      <4>1. closePc = "open"
        BY <3>1 DEF CloseTerminal, IInv, ClosingInv
      <4> QED
        BY <1>1, <3>1, <4>1, RanksAre DEF CloseTerminal, TakeFromSlot
    <3>2. CASE CloseStep
      BY <1>1, <3>2, RanksAre DEF CloseStep, SignalClosed, TakeInput, ReleaseHandles, One
    <3>3. CASE ShellExits
      BY <3>3 DEF ShellExits, One
    <3> QED
      BY <1>8, <3>1, <3>2, <3>3
  <2> QED
    BY <1>1, <1>2, <1>3, <2>1, <2>2 DEF StepsLeft
<1> QED
  BY <1>6, <1>7, <1>8 DEF Next

\* No step of a session can be taken over and over: whatever the limits, each one leaves
\* fewer that can follow, for a session that prints and is written to a bounded number of
\* times.  With ShutdownNeverStalls, a session that ends ends, if its threads are scheduled.
THEOREM EveryStepCounts == Spec => [][StepsLeft' < StepsLeft /\ StepsLeft \in Nat]_vars
<1>1. IInv /\ IInv' /\ [Next]_vars => [StepsLeft' < StepsLeft /\ StepsLeft \in Nat]_vars
  <2>1. IInv => TypeOK
    BY DEF IInv
  <2>2. IInv' => TypeOK'
    BY DEF IInv
  <2> QED
    BY <2>1, <2>2, StepsShorten, StepsAreCounted
<1> QED
  BY <1>1, InductiveInvariant, TypeCorrect, PTL DEF Spec

--------------------------------------------------------------------------------
(* The inductive invariants of the console.                                *)

\* Who holds the slot: the shell that runs, or the open that will start one.  A
\* session beyond the last generation has had nothing.
SlotInv ==
    /\ moved = FALSE
    /\ \A s \in Sessions : shells[s] = "alive" <=> slot.kind = "active" /\ slot.of = s
    /\ slot.kind = "idle" => slot.of = None
    /\ slot.kind = "starting" => opener.stage # "none"
    /\ opener.stage # "none" /\ ~down => slot.kind = "starting" /\ slot.of = opener.of
    /\ opener.stage # "none" => opener.of <= generations
    /\ opener.stage = "confirming" => shells[opener.of] = "none"
    /\ opener.stage = "spawned" => shells[opener.of] = "spawned"
    /\ \A s \in Sessions :
         shells[s] = "spawned" => opener.stage = "spawned" /\ opener.of = s
    /\ down \/ switching => slot.kind = "idle"
    /\ \A s \in Sessions : s > generations => shells[s] = "none"

\* What the renderer knows of it: a console that asked is told, and has shown no
\* other session meanwhile; the session of the slot is shown, told or being closed.
CallInv ==
    /\ opener.stage # "none" /\ ~down =>
         \/ openCall.stage = "running" /\ openCall.of = opener.of
         \/ opener.of \in stray
    /\ opener.stage # "none" /\ openCall.of = opener.of => openCall.stage = "running"
    /\ openCall.stage = "none" => openCall.of = None
    /\ openCall.stage # "none" => session = None /\ closeCall = None
    /\ session # None \/ openCall.stage # "none" => mounted /\ ready
    /\ closeCall # None => session \in {closeCall, None}
    /\ slot.kind = "active" =>
         \/ slot.of \in stray \cup closes \/ session = slot.of
         \/ openCall.stage = "opened" /\ openCall.of = slot.of

\* An exit is under way for a shell that is gone.
ExitToldInv ==
    /\ \A i \in DOMAIN wire : wire[i].kind = "exit" => shells[wire[i].session] = "gone"
    /\ \A i \in DOMAIN early : early[i].kind = "exit" => shells[early[i].session] = "gone"

\* An event of session s that takes the chunks told of it from a to b.
Step(s, a, b, e) ==
    IF e.session # s THEN b = a
    ELSE IF e.kind = "data" THEN b = a + 1 /\ e.n = b
    ELSE b = a /\ e.n = a

\* The events of s in a queue take the chunks from a to b, none left out.
Chain(s, a, b, q) ==
    \E f \in [0..Len(q) -> Nat] :
        /\ f[0] = a /\ f[Len(q)] = b
        /\ \A i \in 1..Len(q) : Step(s, f[i - 1], f[i], q[i])

\* Between what was shown of a session, what waits for its answer and what it has
\* printed, nothing is left out, unless it was counted or announced; what has not
\* started has told nothing.
ShownChain ==
    session # None /\ ~notice => Chain(session, seen, printed[session], wire)
CallChain ==
    openCall.of # None /\ omitted = 0 =>
      \E m \in Nat : /\ Chain(openCall.of, 0, m, early)
                     /\ Chain(openCall.of, m, printed[openCall.of], wire)
FreshInv ==
    \A s \in Sessions : shells[s] \in {"none", "spawned"} =>
      /\ printed[s] = 0
      /\ \A i \in DOMAIN wire : wire[i].session # s
      /\ \A i \in DOMAIN early : early[i].session # s
GapInv == GapIsTold /\ ShownChain /\ CallChain /\ FreshInv

--------------------------------------------------------------------------------
(* What the early events show.                                             *)

Views == [session : 0..MaxOpens, seen : 0..MaxPrinted, gap : BOOLEAN]

\* The two kinds of events, spelled out.
LEMMA AppliedEvent ==
    ASSUME NEW e \in Events, NEW v \in Views
    PROVE  /\ e.kind = "exit" =>
                Applied(e, v) = [v EXCEPT !.session = None, !.gap = @ \/ e.n # v.seen]
           /\ e.kind = "data" =>
                Applied(e, v) = [v EXCEPT !.seen = e.n, !.gap = @ \/ e.n # v.seen + 1]
           /\ e.kind \in {"exit", "data"} /\ Applied(e, v) \in Views
<1>1. e.kind \in {"exit", "data"} /\ e.n \in 0..MaxPrinted /\ 0 \in 0..MaxOpens
  BY ConsoleAssumption DEF Events, Kinds
<1>2. e.kind = "exit" =>
        Applied(e, v) = [v EXCEPT !.session = None, !.gap = @ \/ e.n # v.seen]
  BY DEF Applied
<1>3. e.kind = "data" =>
        Applied(e, v) = [v EXCEPT !.seen = e.n, !.gap = @ \/ e.n # v.seen + 1]
  BY DEF Applied
<1>4. [v EXCEPT !.session = None, !.gap = @ \/ e.n # v.seen] \in Views
  BY <1>1 DEF Views, None
<1>5. [v EXCEPT !.seen = e.n, !.gap = @ \/ e.n # v.seen + 1] \in Views
  BY <1>1 DEF Views
<1> QED
  BY <1>1, <1>2, <1>3, <1>4, <1>5

\* v[i] is the view after the first i early events.
IsReplay(s, n, v) ==
    /\ v \in [0..n -> Views] /\ v[0] = [session |-> s, seen |-> 0, gap |-> FALSE]
    /\ \A i \in 1..n :
         v[i] = IF early[i].session = s THEN Applied(early[i], v[i - 1]) ELSE v[i - 1]

\* There is such a sequence of views,
LEMMA ReplayExists ==
    ASSUME early \in Seq(Events), NEW s \in Sessions
    PROVE  \E v : IsReplay(s, Len(early), v)
<1> DEFINE T == {n \in Nat : n <= Len(early) => \E v : IsReplay(s, n, v)}
<1> DEFINE first == [session |-> s, seen |-> 0, gap |-> FALSE]
<1>0. first \in Views
  BY ConsoleAssumption DEF Views, Sessions
<1> HIDE DEF first
<1>1. 0 \in T
  <2>1. IsReplay(s, 0, [i \in 0..0 |-> first])
    BY <1>0 DEF IsReplay, first
  <2> QED
    BY <2>1
<1>2. ASSUME NEW n \in T PROVE n + 1 \in T
  <2> SUFFICES ASSUME n + 1 <= Len(early) PROVE \E v : IsReplay(s, n + 1, v)
    OBVIOUS
  <2>1. PICK v : IsReplay(s, n, v)
    BY LenProperties
  <2> DEFINE next == IF early[n + 1].session = s THEN Applied(early[n + 1], v[n]) ELSE v[n]
  <2>2. early[n + 1] \in Events /\ v[n] \in Views
    BY <2>1, ElementOfSeq, LenProperties DEF IsReplay
  <2>3. next \in Views
    BY <2>2, AppliedEvent
  <2> HIDE DEF next
  <2> DEFINE w == [i \in 0..n + 1 |-> IF i <= n THEN v[i] ELSE next]
  <2>4. w \in [0..n + 1 -> Views] /\ w[0] = [session |-> s, seen |-> 0, gap |-> FALSE]
    <3>1. \A i \in 0..n + 1 : i <= n => v[i] \in Views
      BY <2>1 DEF IsReplay
    <3>2. w[0] = v[0]
      OBVIOUS
    <3> QED
      BY <2>1, <2>3, <3>1, <3>2 DEF IsReplay
  <2>5. ASSUME NEW i \in 1..n + 1
        PROVE  w[i] = IF early[i].session = s THEN Applied(early[i], w[i - 1]) ELSE w[i - 1]
    <3>1. CASE i = n + 1
      <4>1. w[i] = next /\ w[i - 1] = v[n]
        BY <3>1
      <4> QED
        BY <4>1, <3>1 DEF next
    <3>2. CASE i \in 1..n
      <4>1. w[i] = v[i] /\ w[i - 1] = v[i - 1]
        BY <3>2
      <4> QED
        BY <4>1, <3>2, <2>1 DEF IsReplay
    <3> QED
      BY <3>1, <3>2
  <2>6. IsReplay(s, n + 1, w)
    BY <2>4, <2>5 DEF IsReplay
  <2> QED
    BY <2>6
<1>3. Len(early) \in T
  BY <1>1, <1>2, NatSetInduction, LenProperties
<1> QED
  BY <1>3, LenProperties

ViewEquation(s, v) ==
    v = [i \in 0..Len(early) |->
            IF i = 0 THEN [session |-> s, seen |-> 0, gap |-> FALSE]
            ELSE IF early[i].session = s THEN Applied(early[i], v[i - 1])
            ELSE v[i - 1]]

\* and Replay, which chooses it by its equation, takes the last of them.
LEMMA ReplayIsLast ==
    ASSUME early \in Seq(Events), NEW s \in Sessions
    PROVE  \E v : IsReplay(s, Len(early), v) /\ Replay(s) = v[Len(early)]
<1> DEFINE views == CHOOSE v : ViewEquation(s, v)
<1>1. PICK u : IsReplay(s, Len(early), u)
  BY ReplayExists
<1>2. ViewEquation(s, u)
  <2>1. \A i \in 0..Len(early) :
          u[i] = IF i = 0 THEN [session |-> s, seen |-> 0, gap |-> FALSE]
                 ELSE IF early[i].session = s THEN Applied(early[i], u[i - 1])
                 ELSE u[i - 1]
    BY <1>1, LenProperties DEF IsReplay
  <2> QED
    BY <1>1, <2>1 DEF IsReplay, ViewEquation
<1>3. ViewEquation(s, views)
  BY <1>2, Zenon
<1>4. Replay(s) = views[Len(early)]
  BY Zenon DEF Replay, ViewEquation
<1> HIDE DEF views
<1>5. \A i \in 0..Len(early) :
        views[i] = IF i = 0 THEN [session |-> s, seen |-> 0, gap |-> FALSE]
                   ELSE IF early[i].session = s THEN Applied(early[i], views[i - 1])
                   ELSE views[i - 1]
  BY <1>3 DEF ViewEquation
<1>6. [session |-> s, seen |-> 0, gap |-> FALSE] \in Views
  BY ConsoleAssumption DEF Views, Sessions
<1>7. IsReplay(s, Len(early), views)
  <2> DEFINE T == {n \in Nat : n <= Len(early) => views[n] \in Views}
  <2>1. 0 \in T
    BY <1>5, <1>6, LenProperties
  <2>2. ASSUME NEW n \in T PROVE n + 1 \in T
    <3> SUFFICES ASSUME n + 1 <= Len(early) PROVE views[n + 1] \in Views
      OBVIOUS
    <3>1. early[n + 1] \in Events /\ views[n] \in Views
      BY ElementOfSeq, LenProperties
    <3>2. views[n + 1] = IF early[n + 1].session = s THEN Applied(early[n + 1], views[n])
                         ELSE views[n]
      BY <1>5, LenProperties
    <3>3. Applied(early[n + 1], views[n]) \in Views
      BY <3>1, AppliedEvent
    <3> HIDE DEF T
    <3> QED
      BY <3>1, <3>2, <3>3
  <2> HIDE DEF T
  <2>3. \A n \in Nat : n \in T
    BY <2>1, <2>2, NatSetInduction DEF T
  <2>4. \A n \in 0..Len(early) : views[n] \in Views
    BY <2>3, LenProperties DEF T
  <2>5. DOMAIN views = 0..Len(early) /\ views = [i \in 0..Len(early) |-> views[i]]
    BY <1>3 DEF ViewEquation
  <2> QED
    BY <2>4, <2>5, <1>5, LenProperties DEF IsReplay
<1> QED
  BY <1>4, <1>7

\* So a replay is a view,
LEMMA ReplayType ==
    ASSUME early \in Seq(Events), NEW s \in Sessions
    PROVE  Replay(s) \in Views
<1>1. PICK v : IsReplay(s, Len(early), v) /\ Replay(s) = v[Len(early)]
  BY ReplayIsLast
<1>2. Len(early) \in 0..Len(early) /\ v \in [0..Len(early) -> Views]
  BY <1>1, LenProperties DEF IsReplay
<1> QED
  BY <1>1, <1>2

\* of the session or, after its exit, of none;
LEMMA ReplayKeepsSession ==
    ASSUME early \in Seq(Events), NEW s \in Sessions
    PROVE  /\ Replay(s).session \in {s, None}
           /\ (\A i \in DOMAIN early : early[i].session = s => early[i].kind # "exit")
              => Replay(s).session = s
<1>1. PICK v : IsReplay(s, Len(early), v) /\ Replay(s) = v[Len(early)]
  BY ReplayIsLast
<1> DEFINE NoExit == \A i \in DOMAIN early : early[i].session = s => early[i].kind # "exit"
<1> DEFINE T == {n \in Nat : n <= Len(early) =>
                   v[n].session \in {s, None} /\ (NoExit => v[n].session = s)}
<1>2. 0 \in T
  BY <1>1 DEF IsReplay
<1>3. ASSUME NEW n \in T PROVE n + 1 \in T
  <2> SUFFICES ASSUME n + 1 <= Len(early)
               PROVE  v[n + 1].session \in {s, None} /\ (NoExit => v[n + 1].session = s)
    OBVIOUS
  <2>1. early[n + 1] \in Events /\ v[n] \in Views /\ n + 1 \in DOMAIN early
    BY <1>1, ElementOfSeq, LenProperties DEF IsReplay
  <2>2. v[n + 1] = IF early[n + 1].session = s THEN Applied(early[n + 1], v[n]) ELSE v[n]
    BY <1>1, LenProperties DEF IsReplay
  <2>3. v[n].session \in {s, None} /\ (NoExit => v[n].session = s)
    BY LenProperties
  <2>4. CASE early[n + 1].session = s
    <3> DEFINE e == early[n + 1]
    <3>e. e \in Events /\ v[n] \in Views /\ v[n + 1] = Applied(e, v[n])
      BY <2>1, <2>2, <2>4
    <3> HIDE DEF e
    <3>1. e.kind = "exit" => v[n + 1].session = None
      <4> SUFFICES ASSUME e.kind = "exit" PROVE v[n + 1].session = None
        OBVIOUS
      <4>1. v[n + 1] = [v[n] EXCEPT !.session = None, !.gap = @ \/ e.n # v[n].seen]
        BY <3>e, AppliedEvent
      <4> QED
        BY <3>e, <4>1 DEF Views
    <3>2. e.kind = "data" => v[n + 1].session = v[n].session
      <4> SUFFICES ASSUME e.kind = "data" PROVE v[n + 1].session = v[n].session
        OBVIOUS
      <4>1. v[n + 1] = [v[n] EXCEPT !.seen = e.n, !.gap = @ \/ e.n # v[n].seen + 1]
        BY <3>e, AppliedEvent
      <4> QED
        BY <3>e, <4>1 DEF Views
    <3>3. e.kind \in {"exit", "data"}
      BY <3>e, AppliedEvent
    <3> QED
      BY <2>1, <2>3, <2>4, <3>1, <3>2, <3>3 DEF e
  <2> QED
    BY <2>2, <2>3, <2>4
<1> HIDE DEF T
<1>4. Len(early) \in T
  BY <1>2, <1>3, NatSetInduction, LenProperties DEF T
<1> QED
  BY <1>1, <1>4, LenProperties DEF T

--------------------------------------------------------------------------------
(* Chains of events.                                                       *)

\* Nothing takes the chunks nowhere,
LEMMA ChainOfNone ==
    ASSUME NEW s, NEW a \in Nat, NEW q \in Seq(Events),
           \A i \in DOMAIN q : q[i].session # s
    PROVE  Chain(s, a, a, q)
<1> DEFINE f == [i \in 0..Len(q) |-> a]
<1>1. Len(q) \in Nat /\ DOMAIN q = 1..Len(q)
  BY LenProperties
<1>2. f \in [0..Len(q) -> Nat] /\ f[0] = a /\ f[Len(q)] = a
  BY <1>1
<1>3. \A i \in 1..Len(q) : f[i - 1] = a /\ f[i] = a
  BY <1>1
<1> HIDE DEF f
<1>4. \A i \in 1..Len(q) : Step(s, f[i - 1], f[i], q[i])
  BY <1>1, <1>3 DEF Step
<1> QED
  BY <1>2, <1>4 DEF Chain

\* an event at the end takes them one step further,
LEMMA ChainAppend ==
    ASSUME NEW s, NEW a \in Nat, NEW b \in Nat, NEW c \in Nat, NEW q \in Seq(Events),
           NEW e \in Events, Chain(s, a, b, q), Step(s, b, c, e)
    PROVE  Chain(s, a, c, Append(q, e))
<1>1. PICK f \in [0..Len(q) -> Nat] :
        /\ f[0] = a /\ f[Len(q)] = b
        /\ \A i \in 1..Len(q) : Step(s, f[i - 1], f[i], q[i])
  BY DEF Chain
<1>r. PICK r \in Seq(Events) : r = Append(q, e)
  BY AppendProperties
<1>2. /\ Len(q) \in Nat /\ Len(r) = Len(q) + 1 /\ r[Len(q) + 1] = e
      /\ \A i \in 1..Len(q) : r[i] = q[i]
  BY <1>r, AppendProperties, LenProperties
<1> DEFINE n == Len(q)
<1> DEFINE g == [i \in 0..n + 1 |-> IF i <= n THEN f[i] ELSE c]
<1>3. g \in [0..n + 1 -> Nat]
  BY <1>2
<1>4. g[0] = a /\ g[n + 1] = c /\ g[n] = b /\ \A i \in 0..n : g[i] = f[i]
  BY <1>1, <1>2
<1> HIDE DEF g
<1>5. ASSUME NEW i \in 1..n + 1 PROVE Step(s, g[i - 1], g[i], r[i])
  <2>1. CASE i = n + 1
    <3>1. g[i - 1] = b /\ g[i] = c /\ r[i] = e
      BY <2>1, <1>2, <1>4
    <3> QED
      BY <3>1
  <2>2. CASE i \in 1..n
    <3>1. g[i - 1] = f[i - 1] /\ g[i] = f[i] /\ r[i] = q[i]
      BY <2>2, <1>2, <1>4
    <3> QED
      BY <3>1, <2>2, <1>1
  <2> QED
    BY <2>1, <2>2, <1>2
<1>6. Chain(s, a, c, r)
  BY <1>2, <1>3, <1>4, <1>5 DEF Chain
<1> QED
  BY <1>6, <1>r

\* and an event at the front the first one.
LEMMA ChainTail ==
    ASSUME NEW s, NEW a \in Nat, NEW b \in Nat, NEW q \in Seq(Events), q # <<>>,
           Chain(s, a, b, q)
    PROVE  \E c \in Nat : Step(s, a, c, Head(q)) /\ Chain(s, c, b, Tail(q))
<1>1. PICK f \in [0..Len(q) -> Nat] :
        /\ f[0] = a /\ f[Len(q)] = b
        /\ \A i \in 1..Len(q) : Step(s, f[i - 1], f[i], q[i])
  BY DEF Chain
<1>r. PICK r \in Seq(Events) : r = Tail(q)
  BY HeadTailProperties
<1>2. /\ Len(q) \in Nat /\ Len(q) # 0 /\ Len(r) = Len(q) - 1 /\ Head(q) = q[1]
      /\ \A i \in 1..Len(r) : r[i] = q[i + 1]
  BY <1>r, HeadTailProperties, EmptySeq, LenProperties
<1> DEFINE n == Len(r)
<1> DEFINE g == [i \in 0..n |-> f[i + 1]]
<1>3. g \in [0..n -> Nat] /\ g[0] = f[1] /\ g[n] = b
  BY <1>1, <1>2
<1>4. ASSUME NEW i \in 1..n PROVE Step(s, g[i - 1], g[i], r[i])
  <2>1. g[i - 1] = f[i] /\ g[i] = f[i + 1] /\ r[i] = q[i + 1] /\ i + 1 \in 1..Len(q)
    BY <1>2
  <2>2. i + 1 - 1 = i
    OBVIOUS
  <2>3. Step(s, f[i + 1 - 1], f[i + 1], q[i + 1])
    BY <2>1, <1>1
  <2> QED
    BY <2>1, <2>2, <2>3
<1> HIDE DEF g
<1>5. Chain(s, f[1], b, r)
  BY <1>3, <1>4 DEF Chain
<1>6. f[1] \in Nat /\ Step(s, a, f[1], Head(q))
  <2>1. 1 \in 1..Len(q) /\ 1 - 1 = 0
    BY <1>2
  <2>2. Step(s, f[1 - 1], f[1], q[1])
    BY <1>1, <2>1
  <2> QED
    BY <1>1, <1>2, <2>1, <2>2
<1> QED
  BY <1>5, <1>6, <1>r

\* A replay of early events that leave nothing out shows the last chunk and no gap.
LEMMA ReplayOfChain ==
    ASSUME early \in Seq(Events), NEW s \in Sessions, NEW m \in Nat, Chain(s, 0, m, early)
    PROVE  Replay(s).seen = m /\ Replay(s).gap = FALSE
<1>1. PICK v : IsReplay(s, Len(early), v) /\ Replay(s) = v[Len(early)]
  BY ReplayIsLast
<1>2. PICK f \in [0..Len(early) -> Nat] :
        /\ f[0] = 0 /\ f[Len(early)] = m
        /\ \A i \in 1..Len(early) : Step(s, f[i - 1], f[i], early[i])
  BY DEF Chain
<1>s. ASSUME NEW k \in Nat, k + 1 \in 1..Len(early)
      PROVE  Step(s, f[k], f[k + 1], early[k + 1])
  <2>1. PICK i \in 1..Len(early) : i = k + 1
    BY <1>s
  <2>2. i - 1 = k
    BY <2>1
  <2>3. Step(s, f[i - 1], f[i], early[i])
    BY <1>2
  <2> QED
    BY <2>1, <2>2, <2>3
<1> DEFINE Good(n) == v[n].seen = f[n] /\ v[n].gap = FALSE
<1> DEFINE T == {n \in Nat : n <= Len(early) => Good(n)}
<1>3. 0 \in T
  <2>1. Good(0)
    BY <1>1, <1>2 DEF IsReplay
  <2> HIDE DEF Good
  <2> QED
    BY <2>1
<1>4. ASSUME NEW n \in T PROVE n + 1 \in T
  <2>0. SUFFICES ASSUME n + 1 <= Len(early) PROVE Good(n + 1)
    <3> HIDE DEF Good
    <3> QED
      OBVIOUS
  <2> DEFINE e == early[n + 1]
  <2>n. n \in Nat /\ Good(n)
    <3> HIDE DEF Good
    <3> QED
      BY <2>0, LenProperties
  <2>1. v[n].seen = f[n] /\ v[n].gap = FALSE
    BY <2>n
  <2> HIDE DEF T
  <2>i. n \in 0..Len(early) /\ n + 1 \in 0..Len(early) /\ n + 1 \in 1..Len(early)
    BY <2>0, <2>n, LenProperties
  <2>2. e \in Events /\ v[n] \in Views /\ f[n] \in Nat /\ f[n + 1] \in Nat
    <3>1. e \in Events
      BY <2>i, ElementOfSeq
    <3>2. v[n] \in Views
      BY <1>1, <2>i DEF IsReplay
    <3> QED
      BY <3>1, <3>2, <2>i
  <2>3. v[n + 1] = IF e.session = s THEN Applied(e, v[n]) ELSE v[n]
    <3>1. n + 1 - 1 = n
      BY <2>n
    <3> QED
      BY <1>1, <2>i, <3>1 DEF IsReplay
  <2>4. Step(s, f[n], f[n + 1], e)
    BY <2>i, <2>n, <1>s
  <2> HIDE DEF e
  <2>5. CASE e.session # s
    BY <2>1, <2>3, <2>4, <2>5 DEF Step
  <2>6. CASE e.session = s /\ e.kind = "data"
    <3>1. v[n + 1] = [v[n] EXCEPT !.seen = e.n, !.gap = @ \/ e.n # v[n].seen + 1]
      BY <2>2, <2>3, <2>6, AppliedEvent
    <3>2. f[n + 1] = f[n] + 1 /\ e.n = f[n + 1]
      BY <2>4, <2>6 DEF Step
    <3> QED
      BY <2>1, <2>2, <3>1, <3>2 DEF Views
  <2>7. CASE e.session = s /\ e.kind = "exit"
    <3>1. v[n + 1] = [v[n] EXCEPT !.session = None, !.gap = @ \/ e.n # v[n].seen]
      BY <2>2, <2>3, <2>7, AppliedEvent
    <3>2. f[n + 1] = f[n] /\ e.n = f[n]
      BY <2>4, <2>7 DEF Step
    <3> QED
      BY <2>1, <2>2, <3>1, <3>2 DEF Views
  <2>8. e.kind \in {"exit", "data"}
    BY <2>2, AppliedEvent
  <2> QED
    BY <2>5, <2>6, <2>7, <2>8
<1> HIDE DEF T
<1>5. Len(early) \in T
  BY <1>3, <1>4, NatSetInduction, LenProperties DEF T
<1> QED
  BY <1>1, <1>2, <1>5, LenProperties DEF T

--------------------------------------------------------------------------------
(* Types.                                                                  *)

\* The numbers the bounds allow.
LEMMA ConsoleNumbers ==
    /\ MaxOpens \in Nat /\ MaxEarly \in Nat /\ MaxPrinted \in Nat /\ MaxMounts \in Nat
    /\ MaxInputs \in Nat /\ MaxEarly > 1
    /\ 0 \in 0..MaxPrinted /\ 0 \in 0..MaxMounts /\ 0 \in 0..MaxOpens
    /\ Sessions \subseteq 0..MaxOpens /\ None \in 0..MaxOpens /\ None \notin Sessions
    /\ \A s \in 0..MaxOpens : s # None => s \in Sessions
BY ConsoleAssumption DEF Sessions, None

\* An event that is told is an event.
LEMMA EventType ==
    ASSUME NEW s \in Sessions, NEW k \in Kinds, NEW n \in 0..MaxPrinted
    PROVE  /\ Event(s, k, n) \in Events
           /\ Event(s, k, n).session = s /\ Event(s, k, n).kind = k /\ Event(s, k, n).n = n
BY DEF Event, Events

\* An event that waits leaves the buffer within its limit.
LEMMA BufferType ==
    ASSUME early \in Seq(Events), Len(early) <= MaxEarly, NEW e \in Events
    PROVE  LET q == Append(IF Len(early) = MaxEarly THEN Tail(early) ELSE early, e)
           IN  q \in Seq(Events) /\ Len(q) <= MaxEarly
<1> DEFINE p == IF Len(early) = MaxEarly THEN Tail(early) ELSE early
<1>1. p \in Seq(Events) /\ Len(p) < MaxEarly
  <2>1. CASE Len(early) = MaxEarly
    <3>1. early # <<>>
      BY <2>1, ConsoleNumbers, EmptySeq
    <3> QED
      BY <2>1, <3>1, HeadTailProperties, ConsoleNumbers, LenProperties
  <2>2. CASE Len(early) # MaxEarly
    BY <2>2, ConsoleNumbers, LenProperties
  <2> QED
    BY <2>1, <2>2
<1> HIDE DEF p
<1>2. Append(p, e) \in Seq(Events) /\ Len(Append(p, e)) = Len(p) + 1
  BY <1>1, AppendProperties
<1>3. Append(p, e) \in Seq(Events) /\ Len(Append(p, e)) <= MaxEarly
  BY <1>1, <1>2, ConsoleNumbers, LenProperties
<1> QED
  BY <1>3 DEF p

\* The types, by the groups of variables that the actions leave alone together, with
\* the sessions that a call, a reservation and an input are about.
SlotTyped ==
    /\ slot \in [kind : {"idle", "starting", "active"}, of : 0..MaxOpens]
    /\ slot.kind # "idle" => slot.of \in Sessions
    /\ generations \in 0..MaxOpens /\ switching \in BOOLEAN
    /\ moved \in BOOLEAN /\ down \in BOOLEAN
OpenerTyped ==
    /\ opener \in [stage : {"none", "confirming", "spawned"}, of : 0..MaxOpens]
    /\ opener.stage # "none" => opener.of \in Sessions
    /\ shells \in [Sessions -> {"none", "spawned", "alive", "ending", "finished", "gone"}]
OutputTyped ==
    /\ printed \in [Sessions -> 0..MaxPrinted]
    /\ wire \in Seq(Events) /\ told \subseteq Sessions
MountTyped == mounts \in 0..MaxMounts /\ mounted \in BOOLEAN /\ ready \in BOOLEAN
EarlyTyped == early \in Seq(Events) /\ Len(early) <= MaxEarly /\ omitted \in Nat
CallsTyped ==
    /\ openCall \in [stage : {"none", "running", "refused", "opened"}, of : 0..MaxOpens]
    /\ openCall.stage \in {"running", "opened"} => openCall.of \in Sessions
    /\ closeCall \in 0..MaxOpens /\ closes \subseteq Sessions
    /\ entry \in [of : 0..MaxOpens, answer : {"none", "asked", "inactive"}]
    /\ entry.answer # "none" => entry.of \in Sessions
    /\ entries \in 0..MaxInputs /\ stray \subseteq Sessions
ShownTyped ==
    session \in 0..MaxOpens /\ seen \in 0..MaxPrinted /\ gap \in BOOLEAN /\ notice \in BOOLEAN

ConsoleTyped ==
    /\ SlotTyped /\ OpenerTyped /\ OutputTyped /\ MountTyped /\ EarlyTyped /\ CallsTyped
    /\ ShownTyped

LEMMA TypedIsTypeOK == ConsoleTyped => ConsoleTypeOK
BY DEF ConsoleTyped, ConsoleTypeOK, SlotTyped, OpenerTyped, OutputTyped, MountTyped,
       EarlyTyped, CallsTyped, ShownTyped

LEMMA InitIsTyped == ConsoleInit => ConsoleTyped
<1> SUFFICES ASSUME ConsoleInit PROVE ConsoleTyped
  OBVIOUS
<1> USE ConsoleNumbers DEF ConsoleInit, Idle, NoOpener, NoCall, NoEntry
<1>1. SlotTyped /\ OpenerTyped
  <2>1. SlotTyped
    BY DEF SlotTyped
  <2>2. OpenerTyped
    BY DEF OpenerTyped
  <2> QED
    BY <2>1, <2>2
<1>2. OutputTyped /\ EarlyTyped
  BY DEF OutputTyped, EarlyTyped
<1>3. CallsTyped
  BY DEF CallsTyped
<1>4. MountTyped /\ ShownTyped
  <2>1. MountTyped
    BY DEF MountTyped
  <2>2. ShownTyped
    BY DEF ShownTyped
  <2> QED
    BY <2>1, <2>2
<1> QED
  BY <1>1, <1>2, <1>3, <1>4 DEF ConsoleTyped

\* What is left alone keeps its type.
LEMMA LeftAlone ==
    ASSUME ConsoleTyped
    PROVE  /\ UNCHANGED slotVars => SlotTyped'
           /\ UNCHANGED openerVars => OpenerTyped'
           /\ UNCHANGED outputVars => OutputTyped'
           /\ UNCHANGED mountVars => MountTyped'
           /\ UNCHANGED earlyVars => EarlyTyped'
           /\ UNCHANGED callVars => CallsTyped'
           /\ UNCHANGED shownVars => ShownTyped'
<1> USE DEF ConsoleTyped
<1>1. UNCHANGED slotVars => SlotTyped'
  BY DEF SlotTyped, slotVars
<1>2. UNCHANGED openerVars => OpenerTyped'
  BY DEF OpenerTyped, openerVars
<1>3. UNCHANGED outputVars => OutputTyped'
  BY DEF OutputTyped, outputVars
<1>4. UNCHANGED mountVars => MountTyped'
  BY DEF MountTyped, mountVars
<1>5. UNCHANGED earlyVars => EarlyTyped'
  BY DEF EarlyTyped, earlyVars
<1>6. UNCHANGED callVars => CallsTyped'
  BY DEF CallsTyped, callVars
<1>7. UNCHANGED shownVars => ShownTyped'
  BY DEF ShownTyped, shownVars
<1> QED
  BY <1>1, <1>2, <1>3, <1>4, <1>5, <1>6, <1>7

\* An event at the end of what is under way.
LEMMA WireType ==
    ASSUME ConsoleTyped, NEW s \in Sessions, NEW k \in Kinds, NEW n \in 0..MaxPrinted,
           wire' = Append(wire, Event(s, k, n))
    PROVE  wire' \in Seq(Events)
BY EventType, AppendProperties DEF ConsoleTyped, OutputTyped

\* Every step keeps the types.
LEMMA NextIsTyped == ConsoleTyped /\ [ConsoleNext]_consoleVars => ConsoleTyped'
<1> SUFFICES ASSUME ConsoleTyped, [ConsoleNext]_consoleVars PROVE ConsoleTyped'
  OBVIOUS
<1>t. /\ SlotTyped /\ OpenerTyped /\ OutputTyped /\ MountTyped /\ EarlyTyped /\ CallsTyped
      /\ ShownTyped
  BY DEF ConsoleTyped
<1>q. /\ SlotTyped' /\ OpenerTyped' /\ OutputTyped' /\ MountTyped' /\ EarlyTyped' /\ CallsTyped'
      /\ ShownTyped'
      => ConsoleTyped'
  BY DEF ConsoleTyped
<1>1. CASE OpenConsole
  <2>1. UNCHANGED <<outputVars, mountVars, shownVars>>
    BY <1>1 DEF OpenConsole
  <2>2. generations + 1 \in Sessions
    BY <1>t, <1>1, ConsoleNumbers DEF OpenConsole, SlotTyped, Sessions
  <2>3. SlotTyped'
    BY <1>t, <1>1, <2>2, ConsoleNumbers DEF OpenConsole, SlotTyped
  <2>4. OpenerTyped'
    <3>1. opener' = opener \/ opener' = [stage |-> "confirming", of |-> generations + 1]
      BY <1>1 DEF OpenConsole
    <3>2. shells' = shells
      BY <1>1 DEF OpenConsole
    <3>3. CASE opener' = [stage |-> "confirming", of |-> generations + 1]
      <4>1. PICK g \in 0..MaxOpens : g = generations + 1 /\ g \in Sessions
        BY <2>2, ConsoleNumbers
      <4>2. opener' = [stage |-> "confirming", of |-> g]
        BY <3>3, <4>1
      <4> QED
        BY <1>t, <3>2, <4>1, <4>2 DEF OpenerTyped
    <3>4. CASE opener' = opener
      BY <1>t, <3>2, <3>4 DEF OpenerTyped
    <3> QED
      BY <3>1, <3>3, <3>4
  <2>5. EarlyTyped'
    BY <1>1, ConsoleNumbers DEF OpenConsole, EarlyTyped
  <2>6. CallsTyped'
    <3>1. \/ openCall' = [stage |-> "refused", of |-> None]
          \/ openCall' = [stage |-> "running", of |-> generations + 1]
      BY <1>1 DEF OpenConsole
    <3>2. UNCHANGED <<closeCall, closes, entry, entries, stray>>
      BY <1>1 DEF OpenConsole
    <3>3. PICK g \in 0..MaxOpens : g = generations + 1 /\ g \in Sessions
      BY <2>2, ConsoleNumbers
    <3>4. \/ openCall' = [stage |-> "refused", of |-> None]
          \/ openCall' = [stage |-> "running", of |-> g]
      BY <3>1, <3>3
    <3>5. /\ openCall' \in [stage : {"none", "running", "refused", "opened"}, of : 0..MaxOpens]
          /\ openCall'.stage \in {"running", "opened"} => openCall'.of \in Sessions
      BY <3>3, <3>4, ConsoleNumbers
    <3> QED
      BY <1>t, <3>2, <3>5 DEF CallsTyped
  <2> QED
    BY <2>1, <2>3, <2>4, <2>5, <2>6, LeftAlone, <1>q
<1>2. CASE OpenFails
  <2>1. UNCHANGED <<outputVars, mountVars, earlyVars, shownVars>>
    BY <1>2 DEF OpenFails
  <2>2. SlotTyped'
    BY <1>t, <1>2, ConsoleNumbers DEF OpenFails, DropReservation, SlotTyped, Idle
  <2>3. OpenerTyped'
    BY <1>t, <1>2, ConsoleNumbers DEF OpenFails, OpenerTyped, NoOpener
  <2>4. CallsTyped'
    BY <1>t, <1>2 DEF OpenFails, AnswerOpen, CallsTyped
  <2> QED
    BY <2>1, <2>2, <2>3, <2>4, LeftAlone, <1>q
<1>3. CASE SpawnShell
  <2>1. UNCHANGED <<slotVars, outputVars, mountVars, earlyVars, callVars, shownVars>>
    BY <1>3 DEF SpawnShell
  <2>2. OpenerTyped'
    BY <1>t, <1>3 DEF SpawnShell, OpenerTyped
  <2> QED
    BY <2>1, <2>2, LeftAlone, <1>q
<1>4. CASE ActivateShell
  <2>1. UNCHANGED <<outputVars, mountVars, earlyVars, shownVars>>
    BY <1>4 DEF ActivateShell
  <2>2. opener.of \in Sessions
    BY <1>t, <1>4 DEF ActivateShell, OpenerTyped
  <2>3. SlotTyped'
    <3>1. slot' = slot \/ slot' = [kind |-> "active", of |-> opener.of]
      BY <1>4 DEF ActivateShell
    <3>2. UNCHANGED <<generations, switching, moved, down>>
      BY <1>4 DEF ActivateShell
    <3>3. CASE slot' = [kind |-> "active", of |-> opener.of]
      <4>1. PICK g \in 0..MaxOpens : g = opener.of /\ g \in Sessions
        BY <2>2, ConsoleNumbers
      <4>2. slot' = [kind |-> "active", of |-> g]
        BY <3>3, <4>1
      <4> QED
        BY <1>t, <3>2, <4>1, <4>2 DEF SlotTyped
    <3>4. CASE slot' = slot
      BY <1>t, <3>2, <3>4 DEF SlotTyped
    <3> QED
      BY <3>1, <3>3, <3>4
  <2>4. OpenerTyped'
    BY <1>t, <1>4, ConsoleNumbers DEF ActivateShell, OpenerTyped, NoOpener
  <2>5. CallsTyped'
    BY <1>t, <1>4, <2>2 DEF ActivateShell, AnswerOpen, CallsTyped
  <2> QED
    BY <2>1, <2>3, <2>4, <2>5, LeftAlone, <1>q
<1>5. ASSUME NEW s \in Sessions, ShutDown(s) \/ PublishExit(s) PROVE ConsoleTyped'
  <2>1. UNCHANGED <<slotVars, mountVars, earlyVars, callVars, shownVars>>
    BY <1>5 DEF ShutDown, PublishExit
  <2>2. OpenerTyped'
    BY <1>t, <1>5 DEF ShutDown, PublishExit, OpenerTyped
  <2>3. printed[s] \in 0..MaxPrinted /\ "exit" \in Kinds
    BY <1>t DEF OutputTyped, Kinds
  <2>4. wire' = wire \/ wire' = Append(wire, Event(s, "exit", printed[s]))
    BY <1>5 DEF ShutDown, PublishExit
  <2>5. wire' \in Seq(Events)
    <3>1. wire' = wire => wire' \in Seq(Events)
      BY <1>t DEF OutputTyped
    <3> QED
      BY <2>3, <2>4, <3>1, WireType
  <2>6. printed' = printed /\ told' \subseteq Sessions
    BY <1>t, <1>5 DEF ShutDown, PublishExit, OutputTyped
  <2>7. OutputTyped'
    BY <1>t, <2>5, <2>6 DEF OutputTyped
  <2> QED
    BY <2>1, <2>2, <2>7, LeftAlone, <1>q
<1>6. ASSUME NEW s \in Sessions, ShellPrints(s) PROVE ConsoleTyped'
  <2>1. UNCHANGED <<slotVars, openerVars, mountVars, earlyVars, callVars, shownVars>>
    BY <1>6 DEF ShellPrints
  <2>2. /\ printed[s] + 1 \in 0..MaxPrinted /\ printed' = [printed EXCEPT ![s] = @ + 1]
        /\ printed'[s] = printed[s] + 1 /\ "data" \in Kinds
    BY <1>t, <1>6, ConsoleNumbers DEF ShellPrints, Kinds, OutputTyped
  <2>3. wire' = Append(wire, Event(s, "data", printed[s] + 1))
    BY <1>6, <2>2 DEF ShellPrints
  <2>4. wire' \in Seq(Events)
    BY <2>2, <2>3, WireType
  <2>5. told' = told
    BY <1>6 DEF ShellPrints
  <2>6. OutputTyped'
    BY <1>t, <2>2, <2>4, <2>5 DEF OutputTyped
  <2> QED
    BY <2>1, <2>6, LeftAlone, <1>q
<1>7. ASSUME NEW s \in Sessions, ShellFinishes(s) \/ SessionFails(s) PROVE ConsoleTyped'
  <2>1. UNCHANGED <<outputVars, mountVars, earlyVars, callVars, shownVars>>
    BY <1>7 DEF ShellFinishes, SessionFails
  <2>2. SlotTyped'
    BY <1>t, <1>7, ConsoleNumbers DEF ShellFinishes, SessionFails, TakeOut, SlotTyped, Idle
  <2>3. OpenerTyped'
    BY <1>t, <1>7 DEF ShellFinishes, SessionFails, TakeOut, OpenerTyped
  <2> QED
    BY <2>1, <2>2, <2>3, LeftAlone, <1>q
<1>8. ASSUME NEW s \in Sessions, BackendCloses(s) PROVE ConsoleTyped'
  <2>1. UNCHANGED <<outputVars, mountVars, earlyVars, shownVars>>
    BY <1>8 DEF BackendCloses
  <2>2. SlotTyped'
    BY <1>t, <1>8, ConsoleNumbers DEF BackendCloses, TakeOut, SlotTyped, Idle
  <2>3. OpenerTyped'
    BY <1>t, <1>8 DEF BackendCloses, TakeOut, OpenerTyped
  <2>4. CallsTyped'
    BY <1>t, <1>8 DEF BackendCloses, CallsTyped
  <2> QED
    BY <2>1, <2>2, <2>3, <2>4, LeftAlone, <1>q
<1>9. CASE BeginSwitch \/ EndSwitch
  <2>1. UNCHANGED <<openerVars, outputVars, mountVars, earlyVars, callVars, shownVars>>
    BY <1>9 DEF BeginSwitch, EndSwitch
  <2>2. SlotTyped'
    BY <1>t, <1>9 DEF BeginSwitch, EndSwitch, SlotTyped
  <2> QED
    BY <2>1, <2>2, LeftAlone, <1>q
<1>10. CASE TearDown
  <2>1. SlotTyped'
    BY <1>t, <1>10, ConsoleNumbers DEF TearDown, SlotTyped, Idle
  <2>2. OpenerTyped'
    BY <1>t, <1>10 DEF TearDown, OpenerTyped
  <2>3. OutputTyped' /\ MountTyped'
    <3>1. OutputTyped'
      BY <1>t, <1>10 DEF TearDown, OutputTyped
    <3>2. MountTyped'
      BY <1>t, <1>10 DEF TearDown, MountTyped
    <3> QED
      BY <3>1, <3>2
  <2>4. EarlyTyped'
    BY <1>10, ConsoleNumbers DEF TearDown, ConsoleGone, EarlyTyped
  <2>5. CallsTyped'
    BY <1>t, <1>10, ConsoleNumbers DEF TearDown, ConsoleGone, CallsTyped, NoCall, NoEntry
  <2>6. ShownTyped'
    BY <1>10, ConsoleNumbers DEF TearDown, ConsoleGone, ShownTyped
  <2> QED
    BY <2>1, <2>2, <2>3, <2>4, <2>5, <2>6, <1>q
<1>11. CASE MountConsole \/ ConsoleReady
  <2>1. UNCHANGED <<slotVars, openerVars, outputVars, earlyVars, callVars, shownVars>>
    BY <1>11 DEF MountConsole, ConsoleReady
  <2>2. MountTyped'
    <3>1. mounts' \in 0..MaxMounts
      BY <1>t, <1>11, ConsoleNumbers DEF MountConsole, ConsoleReady, MountTyped
    <3>2. mounted' \in BOOLEAN /\ ready' \in BOOLEAN
      BY <1>t, <1>11 DEF MountConsole, ConsoleReady, MountTyped
    <3> QED
      BY <3>1, <3>2 DEF MountTyped
  <2> QED
    BY <2>1, <2>2, LeftAlone, <1>q
<1>12. CASE UnmountConsole
  <2>1. UNCHANGED <<slotVars, openerVars, outputVars>>
    BY <1>12 DEF UnmountConsole
  <2>2. MountTyped'
    BY <1>t, <1>12 DEF UnmountConsole, MountTyped
  <2>3. EarlyTyped'
    BY <1>12, ConsoleNumbers DEF UnmountConsole, ConsoleGone, EarlyTyped
  <2>4. closes' \subseteq Sessions
    BY <1>t, <1>12, ConsoleNumbers DEF UnmountConsole, ClosedByUnmount, CallsTyped, ShownTyped
  <2>5. stray' \subseteq Sessions /\ entries' = entries
    BY <1>t, <1>12 DEF UnmountConsole, CallsTyped
  <2>6. CallsTyped'
    BY <1>t, <1>12, <2>4, <2>5, ConsoleNumbers
       DEF UnmountConsole, ConsoleGone, CallsTyped, NoCall, NoEntry
  <2>7. ShownTyped'
    BY <1>12, ConsoleNumbers DEF UnmountConsole, ConsoleGone, ShownTyped
  <2> QED
    BY <2>1, <2>2, <2>3, <2>6, <2>7, LeftAlone, <1>q
<1>13. CASE DeliverEvent
  <2>e. PICK e \in Events : e = Head(wire)
    BY <1>t, <1>13, HeadTailProperties DEF DeliverEvent, OutputTyped
  <2>1. UNCHANGED <<slotVars, openerVars, mountVars, callVars>>
    BY <1>13 DEF DeliverEvent
  <2>2. OutputTyped'
    BY <1>t, <1>13, HeadTailProperties DEF DeliverEvent, OutputTyped
  <2>3. View \in Views
    BY <1>t DEF View, Views, ShownTyped
  <2>4. Applied(e, View) \in Views
    BY <2>3, AppliedEvent
  <2>5. \/ session' = Applied(e, View).session /\ seen' = Applied(e, View).seen
           /\ gap' = Applied(e, View).gap
        \/ UNCHANGED <<session, seen, gap>>
    BY <1>13, <2>e DEF DeliverEvent, Show
  <2>6. ShownTyped'
    <3>1. notice' = notice
      BY <1>13 DEF DeliverEvent
    <3> HIDE DEF View
    <3> QED
      BY <1>t, <2>4, <2>5, <3>1 DEF Views, ShownTyped
  <2>7. \/ UNCHANGED earlyVars
        \/ /\ early' = Append(IF Len(early) = MaxEarly THEN Tail(early) ELSE early, e)
           /\ omitted' = IF Len(early) = MaxEarly THEN omitted + 1 ELSE omitted
    BY <1>13, <2>e DEF DeliverEvent, Buffer
  <2>8. EarlyTyped'
    <3>1. CASE UNCHANGED earlyVars
      BY <3>1, LeftAlone
    <3>2. CASE ~ UNCHANGED earlyVars
      <4>1. early' \in Seq(Events) /\ Len(early') <= MaxEarly
        BY <1>t, <2>7, <3>2, BufferType DEF EarlyTyped
      <4>2. omitted' \in Nat
        BY <1>t, <2>7, <3>2 DEF EarlyTyped
      <4> QED
        BY <4>1, <4>2 DEF EarlyTyped
    <3> QED
      BY <3>1, <3>2
  <2> QED
    BY <2>1, <2>2, <2>6, <2>8, LeftAlone, <1>q
<1>14. CASE OpenAnswered
  <2>1. UNCHANGED <<slotVars, openerVars, outputVars, mountVars>>
    BY <1>14 DEF OpenAnswered
  <2>2. EarlyTyped'
    BY <1>14, ConsoleNumbers DEF OpenAnswered, EarlyTyped
  <2>3. CallsTyped'
    BY <1>t, <1>14, ConsoleNumbers DEF OpenAnswered, CallsTyped, NoCall
  <2>4. ShownTyped'
    <3>1. CASE openCall.stage = "opened"
      <4>1. Replay(openCall.of) \in Views
        BY <1>t, <3>1, ReplayType DEF CallsTyped, EarlyTyped
      <4>2. /\ session' = Replay(openCall.of).session /\ seen' = Replay(openCall.of).seen
            /\ gap' = Replay(openCall.of).gap /\ notice' \in BOOLEAN
        BY <1>14, <3>1 DEF OpenAnswered, Show
      <4> QED
        BY <4>1, <4>2 DEF Views, ShownTyped
    <3>2. CASE openCall.stage # "opened"
      BY <1>14, <3>2, LeftAlone DEF OpenAnswered
    <3> QED
      BY <3>1, <3>2
  <2> QED
    BY <2>1, <2>2, <2>3, <2>4, LeftAlone, <1>q
<1>15. CASE CloseConsole
  <2>1. UNCHANGED <<slotVars, openerVars, outputVars, mountVars, earlyVars, shownVars>>
    BY <1>15 DEF CloseConsole
  <2>2. CallsTyped'
    BY <1>t, <1>15 DEF CloseConsole, CallsTyped, ShownTyped
  <2> QED
    BY <2>1, <2>2, LeftAlone, <1>q
<1>16. CASE CloseAnswered
  <2>1. UNCHANGED <<outputVars, mountVars, earlyVars>>
    BY <1>16 DEF CloseAnswered
  <2>2. closeCall \in Sessions
    BY <1>t, <1>16, ConsoleNumbers DEF CloseAnswered, CallsTyped
  <2>3. SlotTyped'
    BY <1>t, <1>16, ConsoleNumbers DEF CloseAnswered, TakeOut, SlotTyped, Idle
  <2>4. OpenerTyped'
    BY <1>t, <1>16, <2>2 DEF CloseAnswered, TakeOut, OpenerTyped
  <2>5. CallsTyped' /\ ShownTyped'
    BY <1>t, <1>16, ConsoleNumbers DEF CloseAnswered, CallsTyped, ShownTyped
  <2> QED
    BY <2>1, <2>3, <2>4, <2>5, LeftAlone, <1>q
<1>17. CASE SendInput
  <2>1. UNCHANGED <<slotVars, openerVars, outputVars, mountVars, earlyVars, shownVars>>
    BY <1>17 DEF SendInput
  <2>2. CallsTyped'
    BY <1>t, <1>17, ConsoleNumbers DEF SendInput, CallsTyped, ShownTyped
  <2> QED
    BY <2>1, <2>2, LeftAlone, <1>q
<1>18. CASE BackendTakesInput
  <2>1. UNCHANGED <<slotVars, openerVars, mountVars, earlyVars, shownVars>>
    BY <1>18 DEF BackendTakesInput
  <2>2. entry.of \in Sessions
    BY <1>t, <1>18 DEF BackendTakesInput, CallsTyped
  <2>3. OutputTyped'
    BY <1>t, <1>18, <2>2 DEF BackendTakesInput, OutputTyped
  <2>4. CallsTyped'
    BY <1>t, <1>18, <2>2, ConsoleNumbers DEF BackendTakesInput, CallsTyped, NoEntry
  <2> QED
    BY <2>1, <2>3, <2>4, LeftAlone, <1>q
<1>19. CASE RefusalAnswered
  <2>1. UNCHANGED <<slotVars, openerVars, outputVars, mountVars, earlyVars>>
    BY <1>19 DEF RefusalAnswered
  <2>2. entry.of \in Sessions
    BY <1>t, <1>19 DEF RefusalAnswered, CallsTyped
  <2>3. CallsTyped'
    BY <1>t, <1>19, <2>2, ConsoleNumbers DEF RefusalAnswered, CallsTyped, NoEntry
  <2>4. ShownTyped'
    BY <1>t, <1>19, ConsoleNumbers DEF RefusalAnswered, ShownTyped
  <2> QED
    BY <2>1, <2>3, <2>4, LeftAlone, <1>q
<1>20. CASE UNCHANGED consoleVars
  BY <1>20, LeftAlone, <1>q DEF consoleVars
<1> QED
  BY <1>1, <1>2, <1>3, <1>4, <1>5, <1>6, <1>7, <1>8, <1>9, <1>10, <1>11, <1>12, <1>13,
     <1>14, <1>15, <1>16, <1>17, <1>18, <1>19, <1>20 DEF ConsoleNext

(* A terminal slot and its console keep their types, and every reservation, call *)
(* and input under way is about a session.                                       *)
THEOREM ConsoleTypeCorrect == ConsoleSpec => []ConsoleTyped
BY InitIsTyped, NextIsTyped, PTL DEF ConsoleSpec

--------------------------------------------------------------------------------
(* Who holds the slot.                                                     *)

\* The slot, read by its fields.
LEMMA SlotFields ==
    ASSUME ConsoleTyped
    PROVE  /\ \A s \in Sessions : ActiveIs(s) <=> slot.kind = "active" /\ slot.of = s
           /\ \A s \in Sessions :
                slot = [kind |-> "starting", of |-> s] <=> slot.kind = "starting" /\ slot.of = s
           /\ SlotInv => (slot = Idle <=> slot.kind = "idle")
<1> USE DEF ConsoleTyped, SlotTyped
<1>1. slot = [kind |-> slot.kind, of |-> slot.of]
  OBVIOUS
<1>2. \A s \in Sessions : ActiveIs(s) <=> slot.kind = "active" /\ slot.of = s
  BY <1>1 DEF ActiveIs
<1>3. \A s \in Sessions :
        slot = [kind |-> "starting", of |-> s] <=> slot.kind = "starting" /\ slot.of = s
  BY <1>1
<1>4. SlotInv => (slot = Idle <=> slot.kind = "idle")
  BY <1>1 DEF SlotInv, Idle
<1> QED
  BY <1>2, <1>3, <1>4

\* TakeOut and DropReservation, read by the fields of the slot.
LEMMA TakeOutFields ==
    ASSUME ConsoleTyped, NEW s \in Sessions, TakeOut(s)
    PROVE  \/ /\ slot.kind = "active" /\ slot.of = s
              /\ slot'.kind = "idle" /\ slot'.of = None
              /\ shells' = [shells EXCEPT ![s] = "ending"]
           \/ ~(slot.kind = "active" /\ slot.of = s) /\ UNCHANGED <<slot, shells>>
BY SlotFields DEF TakeOut, Idle

LEMMA InitHoldsSlot == ConsoleInit => SlotInv
BY ConsoleNumbers DEF ConsoleInit, SlotInv, Idle, NoOpener, Sessions

\* Every step keeps who holds the slot.
LEMMA NextHoldsSlot ==
    ConsoleTyped /\ ConsoleTyped' /\ SlotInv /\ [ConsoleNext]_consoleVars => SlotInv'
<1> SUFFICES ASSUME ConsoleTyped, ConsoleTyped', SlotInv, [ConsoleNext]_consoleVars
             PROVE  SlotInv'
  OBVIOUS
<1> USE DEF SlotInv, slotVars, openerVars, Idle
<1>t. SlotTyped /\ OpenerTyped /\ SlotTyped' /\ OpenerTyped'
  BY DEF ConsoleTyped
<1>0. UNCHANGED <<slot, generations, switching, moved, down, opener, shells>> => SlotInv'
  OBVIOUS
<1>1. CASE OpenConsole
  <2>1. CASE switching \/ slot # Idle
    BY <1>0, <1>1, <2>1 DEF OpenConsole
  <2>2. CASE ~(switching \/ slot # Idle)
    <3>1. /\ ~down /\ ~switching /\ opener.stage = "none" /\ slot.kind = "idle"
          /\ UNCHANGED <<switching, moved, down, shells>>
          /\ generations' = generations + 1 /\ generations \in Nat
          /\ slot' = [kind |-> "starting", of |-> generations + 1]
          /\ opener' = [stage |-> "confirming", of |-> generations + 1]
      BY <1>1, <1>t, <2>2, SlotFields, ConsoleNumbers DEF OpenConsole, SlotTyped
    <3>2. generations + 1 \in Sessions /\ shells[generations + 1] = "none"
      BY <1>1, <3>1, ConsoleNumbers DEF OpenConsole, Sessions
    <3>3. /\ slot'.kind = "starting" /\ slot'.of = generations + 1
          /\ opener'.stage = "confirming" /\ opener'.of = generations + 1
      BY <3>1
    <3> QED
      BY <3>1, <3>2, <3>3, <1>t, ConsoleNumbers DEF Sessions, SlotTyped
  <2> QED
    BY <2>1, <2>2
<1>2. CASE OpenFails
  <2>1. /\ opener.stage = "confirming" /\ opener.of \in Sessions
        /\ UNCHANGED <<generations, switching, moved, down, shells>>
        /\ opener'.stage = "none"
    BY <1>2, <1>t DEF OpenFails, OpenerTyped, NoOpener
  <2>2. \/ slot.kind = "starting" /\ slot.of = opener.of /\ slot'.kind = "idle" /\ slot'.of = None
        \/ ~(slot.kind = "starting" /\ slot.of = opener.of) /\ slot' = slot
    BY <1>2, <2>1, SlotFields DEF OpenFails, DropReservation
  <2>3. \/ slot'.kind = "idle" /\ slot'.of = None
        \/ slot' = slot /\ slot.kind # "starting"
    BY <2>1, <2>2, <1>t DEF SlotTyped
  <2>4. \A s \in Sessions : shells[s] # "spawned" /\ slot.kind # "active"
    BY <2>1, <1>t DEF OpenerTyped, SlotTyped
  <2> QED
    BY <2>1, <2>3, <2>4
<1>3. CASE SpawnShell
  <2>1. /\ opener.stage = "confirming" /\ opener.of \in Sessions
        /\ opener'.stage = "spawned" /\ opener'.of = opener.of
        /\ shells' = [shells EXCEPT ![opener.of] = "spawned"]
        /\ UNCHANGED <<slot, generations, switching, moved, down>>
    BY <1>3, <1>t DEF SpawnShell, OpenerTyped
  <2>2. \A s \in Sessions : shells'[s] = IF s = opener.of THEN "spawned" ELSE shells[s]
    BY <2>1, <1>t DEF OpenerTyped
  <2>3. \A s \in Sessions : s > generations => shells'[s] = "none"
    <3>1. opener.of <= generations /\ generations \in Nat /\ Sessions \subseteq Nat
      BY <2>1, <1>t, ConsoleNumbers DEF SlotTyped, Sessions
    <3> QED
      BY <2>1, <2>2, <3>1
  <2>4. opener'.stage = "spawned" /\ opener'.of = opener.of /\ shells'[opener.of] = "spawned"
    BY <2>1, <2>2
  <2>5. \A s \in Sessions : shells'[s] = "spawned" => s = opener.of
    BY <2>1, <2>2
  <2>6. \A s \in Sessions : shells'[s] = "alive" <=> shells[s] = "alive"
    BY <2>1, <2>2
  <2> QED
    BY <2>1, <2>3, <2>4, <2>5, <2>6
<1>4. CASE ActivateShell
  <2>1. /\ opener.stage = "spawned" /\ opener.of \in Sessions /\ opener'.stage = "none"
        /\ UNCHANGED <<generations, switching, moved, down>>
    BY <1>4, <1>t DEF ActivateShell, OpenerTyped, NoOpener
  <2>2. \/ /\ slot.kind = "starting" /\ slot.of = opener.of
           /\ slot' = [kind |-> "active", of |-> opener.of]
           /\ shells' = [shells EXCEPT ![opener.of] = "alive"]
        \/ /\ ~(slot.kind = "starting" /\ slot.of = opener.of) /\ slot' = slot
           /\ shells' = [shells EXCEPT ![opener.of] = "gone"]
    BY <1>4, <2>1, SlotFields DEF ActivateShell, MayActivate
  <2>3. CASE slot.kind = "starting" /\ slot.of = opener.of
    BY <2>1, <2>2, <2>3, <1>t DEF OpenerTyped, SlotTyped
  <2>4. CASE ~(slot.kind = "starting" /\ slot.of = opener.of)
    <3>1. down /\ slot.kind = "idle"
      BY <2>1, <2>4, <1>t DEF SlotTyped
    <3> QED
      BY <2>1, <2>2, <2>4, <3>1, <1>t DEF OpenerTyped, SlotTyped
  <2> QED
    BY <2>3, <2>4
<1>5. ASSUME NEW s \in Sessions, ShutDown(s) \/ PublishExit(s) PROVE SlotInv'
  <2>1. /\ shells[s] \in {"ending", "finished"} /\ shells' = [shells EXCEPT ![s] = "gone"]
        /\ UNCHANGED <<slot, generations, switching, moved, down, opener>>
    BY <1>5 DEF ShutDown, PublishExit
  <2> QED
    BY <2>1, <1>t DEF OpenerTyped
<1>6. ASSUME NEW s \in Sessions, ShellFinishes(s) PROVE SlotInv'
  <2>1. /\ shells[s] = "alive" /\ shells' = [shells EXCEPT ![s] = "finished"]
        /\ UNCHANGED <<generations, switching, moved, down, opener>>
    BY <1>6 DEF ShellFinishes
  <2>2. slot.kind = "active" /\ slot.of = s /\ slot'.kind = "idle" /\ slot'.of = None
    BY <1>6, <2>1, SlotFields DEF ShellFinishes
  <2> QED
    BY <2>1, <2>2, <1>t DEF OpenerTyped, SlotTyped
<1>7. ASSUME NEW s \in Sessions, TakeOut(s),
             UNCHANGED <<generations, switching, moved, down, opener>>
      PROVE  SlotInv'
  BY <1>7, <1>t, TakeOutFields DEF OpenerTyped, SlotTyped
<1>8. CASE BeginSwitch \/ EndSwitch
  <2>1. UNCHANGED <<slot, generations, down, openerVars>>
    BY <1>8 DEF BeginSwitch, EndSwitch
  <2>2. slot.kind = "idle" /\ slot = Idle
    BY <1>8, SlotFields DEF BeginSwitch, EndSwitch
  <2>3. moved' = FALSE
    BY <1>8, <2>2 DEF BeginSwitch, EndSwitch
  <2> QED
    BY <2>1, <2>2, <2>3
<1>9. CASE TearDown
  <2>1. /\ ~down /\ down' /\ slot' = Idle /\ UNCHANGED <<generations, switching, moved, opener>>
        /\ slot'.kind = "idle" /\ slot'.of = None
    BY <1>9, <1>t DEF TearDown, SlotTyped
  <2>2. shells' = IF slot.kind = "active" THEN [shells EXCEPT ![slot.of] = "ending"] ELSE shells
    BY <1>9 DEF TearDown
  <2>3. \A s \in Sessions : shells'[s] = IF shells[s] = "alive" THEN "ending" ELSE shells[s]
    BY <2>2, <1>t DEF SlotTyped, OpenerTyped
  <2> QED
    BY <2>1, <2>3, <1>t DEF OpenerTyped
<1>10. CASE \/ MountConsole \/ ConsoleReady \/ UnmountConsole \/ DeliverEvent \/ OpenAnswered
            \/ CloseConsole \/ SendInput \/ BackendTakesInput \/ RefusalAnswered
            \/ UNCHANGED consoleVars \/ \E s \in Sessions : ShellPrints(s)
  <2>1. UNCHANGED <<slotVars, openerVars>>
    BY <1>10 DEF MountConsole, ConsoleReady, UnmountConsole, DeliverEvent, OpenAnswered,
           CloseConsole, SendInput, BackendTakesInput, RefusalAnswered, ShellPrints, consoleVars
  <2> QED
    BY <2>1, <1>0
<1>11. CASE CloseAnswered
  <2>1. /\ closeCall \in Sessions /\ TakeOut(closeCall)
        /\ UNCHANGED <<generations, switching, moved, down, opener>>
    BY <1>11, ConsoleNumbers DEF CloseAnswered, ConsoleTyped, CallsTyped
  <2> QED
    BY <2>1, <1>7
<1>12. ASSUME NEW s \in Sessions, SessionFails(s) \/ BackendCloses(s) PROVE SlotInv'
  BY <1>12, <1>7 DEF SessionFails, BackendCloses
<1> QED
  BY <1>1, <1>2, <1>3, <1>4, <1>5, <1>6, <1>8, <1>9, <1>10, <1>11, <1>12 DEF ConsoleNext

--------------------------------------------------------------------------------
(* The exits under way.                                                    *)

LEMMA InitHasNoExit == ConsoleInit => ExitToldInv
BY DEF ConsoleInit, ExitToldInv

\* What is in a queue of events.
LEMMA EventsInQueue ==
    ASSUME NEW q \in Seq(Events), NEW i \in DOMAIN q
    PROVE  q[i] \in Events /\ q[i].session \in Sessions /\ q[i].kind \in Kinds
<1>1. i \in 1..Len(q)
  BY LenProperties
<1>2. q[i] \in Events
  BY <1>1, ElementOfSeq
<1> QED
  BY <1>2 DEF Events

\* The events in a queue to which one is appended.
LEMMA EventsOfAppend ==
    ASSUME NEW q \in Seq(Events), NEW e \in Events
    PROVE  \A i \in DOMAIN Append(q, e) :
             Append(q, e)[i] = e \/ \E j \in DOMAIN q : Append(q, e)[i] = q[j]
<1>r. PICK r \in Seq(Events) : r = Append(q, e)
  BY AppendProperties
<1>1. /\ Len(q) \in Nat /\ Len(r) = Len(q) + 1 /\ r[Len(q) + 1] = e /\ DOMAIN r = 1..Len(r)
      /\ DOMAIN q = 1..Len(q) /\ \A i \in 1..Len(q) : r[i] = q[i]
  BY <1>r, AppendProperties, LenProperties
<1>2. ASSUME NEW i \in DOMAIN r PROVE r[i] = e \/ \E j \in DOMAIN q : r[i] = q[j]
  <2>1. i \in DOMAIN q \/ i = Len(q) + 1
    BY <1>1
  <2> QED
    BY <2>1, <1>1
<1> QED
  BY <1>r, <1>2

\* The events in the rest of a queue, and the first one.
LEMMA EventsOfTail ==
    ASSUME NEW q \in Seq(Events), q # <<>>
    PROVE  /\ \A i \in DOMAIN Tail(q) : \E j \in DOMAIN q : Tail(q)[i] = q[j]
           /\ \E j \in DOMAIN q : Head(q) = q[j]
<1>r. PICK r \in Seq(Events) : r = Tail(q)
  BY HeadTailProperties
<1>1. /\ Len(q) \in Nat /\ Len(q) # 0 /\ Len(r) = Len(q) - 1 /\ Head(q) = q[1]
      /\ DOMAIN r = 1..Len(r) /\ DOMAIN q = 1..Len(q) /\ \A i \in 1..Len(r) : r[i] = q[i + 1]
  BY <1>r, HeadTailProperties, EmptySeq, LenProperties
<1>2. ASSUME NEW i \in DOMAIN r PROVE \E j \in DOMAIN q : r[i] = q[j]
  <2>1. i + 1 \in DOMAIN q /\ r[i] = q[i + 1]
    BY <1>1
  <2> QED
    BY <2>1
<1>3. 1 \in DOMAIN q
  BY <1>1
<1> QED
  BY <1>r, <1>1, <1>2, <1>3

\* What can be in the queues after a step: what was there, or what a shell tells.
LEMMA EventsOfStep ==
    ASSUME ConsoleTyped, [ConsoleNext]_consoleVars
    PROVE  /\ \A i \in DOMAIN wire' :
                \/ \E j \in DOMAIN wire : wire'[i] = wire[j]
                \/ \E s \in Sessions :
                     \/ ShellPrints(s) /\ wire'[i] = Event(s, "data", printed[s] + 1)
                     \/ /\ ShutDown(s) \/ PublishExit(s)
                        /\ wire'[i] = Event(s, "exit", printed[s])
           /\ \A i \in DOMAIN early' :
                \/ \E j \in DOMAIN early : early'[i] = early[j]
                \/ \E j \in DOMAIN wire : early'[i] = wire[j]
<1> USE DEF ConsoleTyped, OutputTyped, EarlyTyped, slotVars, openerVars, outputVars, mountVars,
        earlyVars, callVars, shownVars
<1> DEFINE WireOf == \A i \in DOMAIN wire' :
                \/ \E j \in DOMAIN wire : wire'[i] = wire[j]
                \/ \E s \in Sessions :
                     \/ ShellPrints(s) /\ wire'[i] = Event(s, "data", printed[s] + 1)
                     \/ /\ ShutDown(s) \/ PublishExit(s)
                        /\ wire'[i] = Event(s, "exit", printed[s])
<1> DEFINE EarlyOf == \A i \in DOMAIN early' :
                \/ \E j \in DOMAIN early : early'[i] = early[j]
                \/ \E j \in DOMAIN wire : early'[i] = wire[j]
<1>1. ASSUME NEW s \in Sessions, ShutDown(s) \/ PublishExit(s) PROVE WireOf
  <2>1. wire' = wire \/ wire' = Append(wire, Event(s, "exit", printed[s]))
    BY <1>1 DEF ShutDown, PublishExit
  <2>2. Event(s, "exit", printed[s]) \in Events
    BY EventType DEF Kinds
  <2>3. CASE wire' = wire
    BY <2>3
  <2>4. CASE wire' = Append(wire, Event(s, "exit", printed[s]))
    BY <1>1, <2>4, <2>2, EventsOfAppend
  <2> QED
    BY <2>1, <2>3, <2>4
<1>2. ASSUME NEW s \in Sessions, ShellPrints(s) PROVE WireOf
  <2>1. printed[s] + 1 \in 0..MaxPrinted /\ printed'[s] = printed[s] + 1
    BY <1>2, ConsoleNumbers DEF ShellPrints
  <2>2. Event(s, "data", printed[s] + 1) \in Events
    BY <2>1, EventType DEF Kinds
  <2>3. wire' = Append(wire, Event(s, "data", printed[s] + 1))
    BY <1>2, <2>1 DEF ShellPrints
  <2> QED
    BY <1>2, <2>2, <2>3, EventsOfAppend
<1>3. CASE DeliverEvent
  <2>1. WireOf
    BY <1>3, EventsOfTail DEF DeliverEvent
  <2>2. PICK e \in Events : e = Head(wire) /\ \E j \in DOMAIN wire : e = wire[j]
    BY <1>3, HeadTailProperties, EventsOfTail DEF DeliverEvent
  <2>3. CASE early' = early
    BY <2>1, <2>3
  <2>4. CASE early' # early
    <3>1. early' = Append(IF Len(early) = MaxEarly THEN Tail(early) ELSE early, e)
      BY <1>3, <2>2, <2>4 DEF DeliverEvent, Buffer
    <3>2. CASE Len(early) = MaxEarly
      <4>1. early # <<>> /\ Tail(early) \in Seq(Events)
        BY <3>2, ConsoleNumbers, EmptySeq, HeadTailProperties
      <4>2. \A i \in DOMAIN early' : early'[i] = e \/ \E j \in DOMAIN Tail(early) : early'[i] = Tail(early)[j]
        BY <3>1, <3>2, <4>1, EventsOfAppend
      <4>3. EarlyOf
        BY <2>2, <4>1, <4>2, EventsOfTail
      <4> QED
        BY <2>1, <4>3
    <3>3. CASE Len(early) # MaxEarly
      <4>1. \A i \in DOMAIN early' : early'[i] = e \/ \E j \in DOMAIN early : early'[i] = early[j]
        BY <3>1, <3>3, EventsOfAppend
      <4> QED
        BY <2>1, <2>2, <4>1
    <3> QED
      BY <3>2, <3>3
  <2> QED
    BY <2>3, <2>4
<1>4. ASSUME wire' = <<>> \/ wire' = wire PROVE WireOf
  BY <1>4
<1>5. \/ wire' = <<>> \/ wire' = wire \/ DeliverEvent
      \/ \E s \in Sessions : ShutDown(s) \/ PublishExit(s) \/ ShellPrints(s)
  BY DEF ConsoleNext, consoleVars, OpenConsole, OpenFails, SpawnShell, ActivateShell,
         ShellFinishes, SessionFails, BackendCloses, BeginSwitch, EndSwitch, TearDown,
         MountConsole, ConsoleReady, UnmountConsole, OpenAnswered, CloseConsole, CloseAnswered,
         SendInput, BackendTakesInput, RefusalAnswered
<1>6. DeliverEvent \/ early' = <<>> \/ early' = early
  BY DEF ConsoleNext, consoleVars, OpenConsole, OpenFails, SpawnShell, ActivateShell, ShutDown,
         ShellPrints, ShellFinishes, PublishExit, SessionFails, BackendCloses, BeginSwitch,
         EndSwitch, TearDown, ConsoleGone, MountConsole, ConsoleReady, UnmountConsole,
         OpenAnswered, CloseConsole, CloseAnswered, SendInput, BackendTakesInput, RefusalAnswered
<1>7. WireOf
  BY <1>1, <1>2, <1>3, <1>4, <1>5
<1>8. EarlyOf
  BY <1>3, <1>6
<1> QED
  BY <1>7, <1>8

\* A shell that is gone stays so.
LEMMA GoneStays ==
    ASSUME ConsoleTyped, SlotInv, [ConsoleNext]_consoleVars, NEW s \in Sessions,
           shells[s] = "gone"
    PROVE  shells'[s] = "gone"
<1> USE DEF ConsoleTyped, SlotTyped, OpenerTyped, CallsTyped, openerVars
<1>1. CASE SpawnShell \/ ActivateShell
  BY <1>1 DEF SpawnShell, ActivateShell, SlotInv
<1>2. CASE TearDown
  BY <1>2 DEF TearDown, SlotInv
<1>3. ASSUME NEW p \in Sessions, TakeOut(p) PROVE shells'[s] = "gone"
  BY <1>3, TakeOutFields DEF SlotInv
<1>4. CASE CloseAnswered
  BY <1>3, <1>4, ConsoleNumbers DEF CloseAnswered
<1>5. ASSUME NEW p \in Sessions, SessionFails(p) \/ BackendCloses(p) PROVE shells'[s] = "gone"
  BY <1>3, <1>5 DEF SessionFails, BackendCloses
<1>6. ASSUME NEW p \in Sessions, ShutDown(p) \/ ShellFinishes(p) \/ PublishExit(p)
      PROVE  shells'[s] = "gone"
  BY <1>6 DEF ShutDown, ShellFinishes, PublishExit
<1>7. \/ shells' = shells \/ SpawnShell \/ ActivateShell \/ TearDown \/ CloseAnswered
      \/ \E p \in Sessions : \/ SessionFails(p) \/ BackendCloses(p) \/ ShutDown(p)
                             \/ ShellFinishes(p) \/ PublishExit(p)
  BY DEF ConsoleNext, consoleVars, OpenConsole, OpenFails, ShellPrints, BeginSwitch, EndSwitch,
         MountConsole, ConsoleReady, UnmountConsole, DeliverEvent, OpenAnswered, CloseConsole,
         SendInput, BackendTakesInput, RefusalAnswered
<1> QED
  BY <1>1, <1>2, <1>4, <1>5, <1>6, <1>7

LEMMA NextTellsExits ==
    ASSUME ConsoleTyped, SlotInv, ExitToldInv, [ConsoleNext]_consoleVars
    PROVE  ExitToldInv'
<1>t. \A i \in DOMAIN wire : wire[i] \in Events /\ wire[i].session \in Sessions
  BY EventsInQueue DEF ConsoleTyped, OutputTyped
<1>e. \A i \in DOMAIN early : early[i] \in Events /\ early[i].session \in Sessions
  BY EventsInQueue DEF ConsoleTyped, EarlyTyped
<1>1. ASSUME NEW i \in DOMAIN wire', wire'[i].kind = "exit"
      PROVE  shells'[wire'[i].session] = "gone"
  <2>1. ASSUME NEW j \in DOMAIN wire, wire'[i] = wire[j] PROVE shells'[wire'[i].session] = "gone"
    BY <1>1, <1>t, <2>1, GoneStays DEF ExitToldInv
  <2>2. ASSUME NEW s \in Sessions, wire'[i] = Event(s, "data", printed[s] + 1) PROVE FALSE
    BY <1>1, <2>2 DEF Event
  <2>3. ASSUME NEW s \in Sessions, ShutDown(s) \/ PublishExit(s),
               wire'[i] = Event(s, "exit", printed[s])
        PROVE  shells'[wire'[i].session] = "gone"
    BY <2>3 DEF Event, ShutDown, PublishExit, ConsoleTyped, OpenerTyped
  <2> QED
    BY <2>1, <2>2, <2>3, EventsOfStep
<1>2. ASSUME NEW i \in DOMAIN early', early'[i].kind = "exit"
      PROVE  shells'[early'[i].session] = "gone"
  <2>1. ASSUME NEW j \in DOMAIN early, early'[i] = early[j] PROVE shells'[early'[i].session] = "gone"
    BY <1>2, <1>e, <2>1, GoneStays DEF ExitToldInv
  <2>2. ASSUME NEW j \in DOMAIN wire, early'[i] = wire[j] PROVE shells'[early'[i].session] = "gone"
    BY <1>2, <1>t, <2>2, GoneStays DEF ExitToldInv
  <2> QED
    BY <2>1, <2>2, EventsOfStep
<1> QED
  BY <1>1, <1>2 DEF ExitToldInv

--------------------------------------------------------------------------------
(* What the renderer knows of the slot.                                    *)

LEMMA InitKnowsSlot == ConsoleInit => CallInv
BY ConsoleNumbers DEF ConsoleInit, CallInv, Idle, NoOpener, NoCall

\* The call, read by its fields.
LEMMA CallFields ==
    ASSUME ConsoleTyped, CallInv
    PROVE  /\ openCall = NoCall <=> openCall.stage = "none"
           /\ openCall.stage \in {"none", "running", "refused", "opened"}
<1>1. openCall = [stage |-> openCall.stage, of |-> openCall.of]
  BY DEF ConsoleTyped, CallsTyped
<1> QED
  BY <1>1 DEF ConsoleTyped, CallsTyped, CallInv, NoCall

\* The answer to an open, read by the fields of the call.
LEMMA AnswerFields ==
    ASSUME ConsoleTyped, NEW result, AnswerOpen(result)
    PROVE  /\ openCall'.of = openCall.of
           /\ openCall'.stage = IF openCall.of = opener.of THEN result ELSE openCall.stage
BY DEF AnswerOpen, ConsoleTyped, CallsTyped

\* Every step keeps it.
LEMMA NextKnowsSlot ==
    ASSUME ConsoleTyped, ConsoleTyped', SlotInv, SlotInv', ExitToldInv, CallInv,
           [ConsoleNext]_consoleVars
    PROVE  CallInv'
<1> USE ConsoleNumbers
    DEF CallInv, slotVars, openerVars, outputVars, mountVars, earlyVars, callVars, shownVars
<1>t. SlotTyped /\ OpenerTyped /\ OutputTyped /\ EarlyTyped /\ CallsTyped /\ ShownTyped
  BY DEF ConsoleTyped
<1>0. UNCHANGED <<slot, down, opener, openCall, stray, session, closeCall, closes, mounted, ready>>
      => CallInv'
  OBVIOUS
<1>1. CASE OpenConsole
  <2>1. /\ openCall.stage = "none" /\ openCall.of = None /\ session = None /\ closeCall = None
        /\ mounted /\ ready /\ ~down
        /\ UNCHANGED <<down, stray, session, closeCall, closes, mounted, ready>>
    BY <1>1, CallFields DEF OpenConsole
  <2>2. CASE switching \/ slot # Idle
    <3>1. openCall'.stage = "refused" /\ openCall'.of = None /\ UNCHANGED <<slot, opener>>
      BY <1>1, <2>2 DEF OpenConsole
    <3> QED
      BY <2>1, <3>1, <1>t DEF OpenerTyped
  <2>3. CASE ~(switching \/ slot # Idle)
    <3>1. /\ openCall'.stage = "running" /\ openCall'.of = opener'.of /\ slot'.kind = "starting"
      BY <1>1, <2>3 DEF OpenConsole
    <3> QED
      BY <2>1, <3>1
  <2> QED
    BY <2>2, <2>3
<1>2. CASE OpenFails
  <2>1. /\ opener.stage = "confirming" /\ opener'.stage = "none" /\ opener.of \in Sessions
        /\ UNCHANGED <<down, stray, session, closeCall, closes, mounted, ready>>
        /\ AnswerOpen("refused")
    BY <1>2, <1>t DEF OpenFails, OpenerTyped, NoOpener
  <2>2. slot' = slot \/ slot'.kind = "idle"
    BY <1>2 DEF OpenFails, DropReservation, Idle
  <2>3. /\ openCall'.of = openCall.of
        /\ openCall'.stage = IF openCall.of = opener.of THEN "refused" ELSE openCall.stage
    BY <2>1, AnswerFields
  <2> QED
    BY <2>1, <2>2, <2>3
<1>3. CASE SpawnShell
  <2>1. /\ opener.stage = "confirming" /\ opener'.stage = "spawned" /\ opener'.of = opener.of
        /\ UNCHANGED <<slot, down, openCall, stray, session, closeCall, closes, mounted, ready>>
    BY <1>3, <1>t DEF SpawnShell, OpenerTyped
  <2> QED
    BY <2>1
<1>4. CASE ActivateShell
  <2>1. /\ opener.stage = "spawned" /\ opener'.stage = "none" /\ opener.of \in Sessions
        /\ UNCHANGED <<down, stray, session, closeCall, closes, mounted, ready>>
    BY <1>4, <1>t DEF ActivateShell, OpenerTyped, NoOpener
  <2>2. \/ /\ slot.kind = "starting" /\ AnswerOpen("opened")
           /\ slot' = [kind |-> "active", of |-> opener.of]
        \/ slot' = slot /\ AnswerOpen("refused")
    BY <1>4, <2>1, SlotFields DEF ActivateShell, MayActivate
  <2>3. CASE slot' = slot /\ AnswerOpen("refused")
    <3>1. /\ openCall'.of = openCall.of
          /\ openCall'.stage = IF openCall.of = opener.of THEN "refused" ELSE openCall.stage
      BY <2>3, AnswerFields
    <3> QED
      BY <2>1, <2>3, <3>1
  <2>4. CASE /\ slot.kind = "starting" /\ AnswerOpen("opened")
             /\ slot' = [kind |-> "active", of |-> opener.of]
    <3>1. /\ openCall'.of = openCall.of
          /\ openCall'.stage = IF openCall.of = opener.of THEN "opened" ELSE openCall.stage
      BY <2>4, AnswerFields
    <3>2. ~down /\ slot'.of = opener.of
      BY <2>4 DEF SlotInv
    <3> QED
      BY <2>1, <3>1, <3>2
  <2> QED
    BY <2>2, <2>3, <2>4
<1>5. ASSUME NEW s \in Sessions, ShutDown(s) \/ PublishExit(s) \/ ShellPrints(s) PROVE CallInv'
  BY <1>0, <1>5 DEF ShutDown, PublishExit, ShellPrints
<1>7. ASSUME NEW s \in Sessions, ShellFinishes(s) \/ SessionFails(s) PROVE CallInv'
  <2>1. slot' = slot \/ slot'.kind = "idle"
    BY <1>7 DEF ShellFinishes, SessionFails, TakeOut, Idle
  <2>2. UNCHANGED <<down, opener, openCall, stray, session, closeCall, closes, mounted, ready>>
    BY <1>7 DEF ShellFinishes, SessionFails
  <2> QED
    BY <2>1, <2>2
<1>8. ASSUME NEW s \in Sessions, BackendCloses(s) PROVE CallInv'
  <2>1. UNCHANGED <<down, opener, openCall, stray, session, closeCall, mounted, ready>>
    BY <1>8 DEF BackendCloses
  <2>2. closes' = closes \ {s} /\ TakeOut(s)
    BY <1>8 DEF BackendCloses
  <2>3. \/ slot'.kind = "idle"
        \/ slot' = slot /\ ~(slot.kind = "active" /\ slot.of = s)
    BY <2>2, TakeOutFields
  <2> QED
    BY <2>1, <2>2, <2>3
<1>9. CASE BeginSwitch \/ EndSwitch
  BY <1>0, <1>9 DEF BeginSwitch, EndSwitch
<1>10. CASE TearDown
  <2>1. /\ slot'.kind = "idle" /\ down' /\ openCall'.stage = "none" /\ openCall'.of = None
        /\ session' = None /\ closeCall' = None /\ opener' = opener
    BY <1>10 DEF TearDown, ConsoleGone, Idle, NoCall
  <2> QED
    BY <2>1, <1>t DEF OpenerTyped
<1>11. CASE MountConsole \/ ConsoleReady
  <2>1. /\ UNCHANGED <<slot, down, opener, openCall, stray, session, closeCall, closes>>
        /\ ~mounted \/ ~ready
    BY <1>11 DEF MountConsole, ConsoleReady
  <2> QED
    BY <2>1
<1>12. CASE UnmountConsole
  <2>1. /\ UNCHANGED <<slot, down, opener>>
        /\ openCall'.stage = "none" /\ openCall'.of = None /\ session' = None /\ closeCall' = None
        /\ closes' = closes \cup ({session, closeCall} \ {None})
        /\ stray' = IF openCall.stage \in {"running", "opened"}
                    THEN stray \cup {openCall.of} ELSE stray
    BY <1>12 DEF UnmountConsole, ConsoleGone, NoCall, ClosedByUnmount
  <2>2. slot.kind = "active" => slot.of \in Sessions
    BY <1>t DEF SlotTyped
  <2> QED
    BY <2>1, <2>2, <1>t DEF OpenerTyped
<1>13. CASE DeliverEvent
  <2>e. PICK e \in Events : e = Head(wire) /\ \E j \in DOMAIN wire : e = wire[j]
    BY <1>t, <1>13, HeadTailProperties, EventsOfTail DEF DeliverEvent, OutputTyped
  <2>1. UNCHANGED <<slot, down, opener, openCall, stray, closeCall, closes, mounted, ready>>
    BY <1>13 DEF DeliverEvent
  <2>v. View \in Views /\ View.session = session
    BY <1>t DEF View, Views, ShownTyped
  <2>2. \/ session' = session
        \/ session = e.session /\ session' = Applied(e, View).session
    BY <1>13, <2>e DEF DeliverEvent, Show
  <2>3. CASE session' = session
    BY <2>1, <2>3, <1>0
  <2>4. CASE session' # session
    <3>1. e.kind = "exit"
      <4>1. e.kind = "data" => Applied(e, View).session = View.session
        <5>1. e.kind = "data" =>
                Applied(e, View) = [View EXCEPT !.seen = e.n, !.gap = @ \/ e.n # View.seen + 1]
          BY <2>v, AppliedEvent
        <5> HIDE DEF View
        <5> QED
          BY <2>v, <5>1 DEF Views
      <4>2. e.kind \in {"exit", "data"}
        BY <2>v, AppliedEvent
      <4> QED
        BY <2>2, <2>4, <2>v, <4>1, <4>2
    <3>2. session' = None
      <4>1. Applied(e, View) = [View EXCEPT !.session = None, !.gap = @ \/ e.n # View.seen]
        BY <2>v, <3>1, AppliedEvent
      <4> HIDE DEF View
      <4>2. Applied(e, View).session = None
        BY <2>v, <4>1 DEF Views
      <4> QED
        BY <2>2, <2>4, <4>2
    <3>3. shells[session] = "gone" /\ session \in Sessions
      BY <2>e, <2>2, <2>4, <3>1 DEF ExitToldInv, Events
    <3>4. ~(slot.kind = "active" /\ slot.of = session)
      BY <3>3 DEF SlotInv
    <3> QED
      BY <2>1, <3>2, <3>3, <3>4
  <2> QED
    BY <2>3, <2>4
<1>14. CASE OpenAnswered
  <2>1. /\ UNCHANGED <<slot, down, opener, stray, closeCall, closes, mounted, ready>>
        /\ openCall.stage \in {"refused", "opened"}
        /\ openCall'.stage = "none" /\ openCall'.of = None
    BY <1>14 DEF OpenAnswered, NoCall
  <2>2. session = None /\ closeCall = None /\ mounted /\ ready
    BY <2>1
  <2>3. opener'.stage # "none" => opener'.of \in Sessions
    BY <2>1, <1>t DEF OpenerTyped
  <2>4. CASE openCall.stage = "refused"
    <3>1. session' = session
      BY <1>14, <2>4 DEF OpenAnswered
    <3> QED
      BY <2>1, <2>2, <2>3, <2>4, <3>1
  <2>5. CASE openCall.stage = "opened"
    <3>1. openCall.of \in Sessions /\ session' = Replay(openCall.of).session
      BY <1>14, <1>t, <2>5 DEF OpenAnswered, Show, CallsTyped
    <3>2. slot.kind = "active" /\ slot.of = openCall.of => session' = openCall.of
      <4> SUFFICES ASSUME slot.kind = "active", slot.of = openCall.of
                   PROVE  session' = openCall.of
        OBVIOUS
      <4>1. shells[openCall.of] = "alive"
        BY <3>1 DEF SlotInv
      <4>2. \A i \in DOMAIN early : early[i].session = openCall.of => early[i].kind # "exit"
        BY <4>1 DEF ExitToldInv
      <4> QED
        BY <3>1, <4>2, <1>t, ReplayKeepsSession DEF EarlyTyped
    <3>3. slot'.kind = "active" =>
            \/ slot'.of \in stray' \cup closes'
            \/ session' = slot'.of
      <4>1. slot.kind = "active" => slot.of # None
        BY <1>t, ConsoleNumbers DEF SlotTyped
      <4>2. slot.kind = "active" =>
              \/ slot.of \in stray \cup closes
              \/ openCall.of = slot.of
        BY <2>2, <4>1
      <4> QED
        BY <2>1, <3>2, <4>2
    <3>4. opener'.stage # "none" /\ ~down' =>
            \/ openCall'.stage = "running" /\ openCall'.of = opener'.of
            \/ opener'.of \in stray'
      BY <2>1, <2>5
    <3>5. opener'.stage # "none" /\ openCall'.of = opener'.of => openCall'.stage = "running"
      BY <2>1, <2>3 DEF None, Sessions
    <3> QED
      BY <2>1, <2>2, <3>3, <3>4, <3>5
  <2> QED
    BY <2>1, <2>4, <2>5
<1>15. CASE CloseConsole
  <2>1. /\ UNCHANGED <<slot, down, opener, openCall, stray, session, closes, mounted, ready>>
        /\ openCall.stage = "none" /\ closeCall' = session
    BY <1>15, CallFields DEF CloseConsole
  <2> QED
    BY <2>1
<1>16. CASE CloseAnswered
  <2>1. /\ UNCHANGED <<down, opener, openCall, stray, closes, mounted, ready>>
        /\ closeCall \in Sessions /\ TakeOut(closeCall) /\ session' = None /\ closeCall' = None
    BY <1>16, <1>t DEF CloseAnswered, CallsTyped
  <2>2. \/ slot'.kind = "idle"
        \/ slot' = slot /\ ~(slot.kind = "active" /\ slot.of = closeCall)
    BY <2>1, TakeOutFields
  <2> QED
    BY <2>1, <2>2
<1>17. CASE SendInput \/ BackendTakesInput
  BY <1>0, <1>17 DEF SendInput, BackendTakesInput
<1>18. CASE RefusalAnswered
  <2>1. /\ UNCHANGED <<slot, down, opener, openCall, stray, closeCall, mounted, ready>>
        /\ \/ session' = None /\ closes' = closes \cup {session}
           \/ UNCHANGED <<session, closes>>
    BY <1>18 DEF RefusalAnswered
  <2> QED
    BY <2>1
<1>19. CASE UNCHANGED consoleVars
  BY <1>0, <1>19 DEF consoleVars
<1> QED
  BY <1>1, <1>2, <1>3, <1>4, <1>5, <1>7, <1>8, <1>9, <1>10, <1>11, <1>12, <1>13,
     <1>14, <1>15, <1>16, <1>17, <1>18, <1>19 DEF ConsoleNext

\* Together they are what a run checks.
LEMMA HeldAndReachable == ConsoleTyped /\ SlotInv /\ CallInv => NoShellIsLost
<1> SUFFICES ASSUME ConsoleTyped, SlotInv, CallInv PROVE NoShellIsLost
  OBVIOUS
<1>1. ShellIsHeld
  <2>1. \A s \in Sessions : shells[s] = "alive" => ActiveIs(s) /\ ~down /\ ~moved
    BY SlotFields DEF SlotInv
  <2> QED
    BY <2>1 DEF SlotInv, ShellIsHeld
<1>2. ShellIsReachable
  <2>1. openCall = [stage |-> openCall.stage, of |-> openCall.of]
    BY DEF ConsoleTyped, CallsTyped
  <2> QED
    BY <2>1, SlotFields DEF CallInv, ShellIsReachable
<1> QED
  BY <1>1, <1>2 DEF NoShellIsLost

(* Whoever races for the terminal's slot, a shell that runs is in it, is being    *)
(* started or shut down, and the console can reach it.                            *)
THEOREM ShellIsNeverLost == ConsoleSpec => []NoShellIsLost
<1>1. ConsoleSpec => [](SlotInv /\ ExitToldInv /\ CallInv)
  <2>1. ConsoleInit => SlotInv /\ ExitToldInv /\ CallInv
    BY InitHoldsSlot, InitHasNoExit, InitKnowsSlot
  <2>2. /\ ConsoleTyped /\ ConsoleTyped' /\ (SlotInv /\ ExitToldInv /\ CallInv)
        /\ [ConsoleNext]_consoleVars
        => (SlotInv /\ ExitToldInv /\ CallInv)'
    BY NextHoldsSlot, NextTellsExits, NextKnowsSlot
  <2> QED
    BY <2>1, <2>2, ConsoleTypeCorrect, PTL DEF ConsoleSpec
<1> QED
  BY <1>1, HeldAndReachable, ConsoleTypeCorrect, PTL

--------------------------------------------------------------------------------
(* What is left out is announced.                                          *)

LEMMA InitLeavesNothingOut == ConsoleInit => GapInv
<1> SUFFICES ASSUME ConsoleInit PROVE GapInv
  OBVIOUS
<1>1. /\ gap = FALSE /\ session = None /\ openCall.of = None /\ wire = <<>> /\ early = <<>>
      /\ printed = [s \in Sessions |-> 0]
  BY DEF ConsoleInit, NoCall
<1> QED
  BY <1>1 DEF GapInv, GapIsTold, ShownChain, CallChain, FreshInv

\* A shell that has not started now had not before, and has printed nothing since.
LEMMA FreshWas ==
    ASSUME ConsoleTyped, SlotInv, [ConsoleNext]_consoleVars, NEW s \in Sessions,
           shells'[s] \in {"none", "spawned"}
    PROVE  shells[s] \in {"none", "spawned"} /\ printed'[s] = printed[s]
<1> USE DEF ConsoleTyped, SlotTyped, OpenerTyped, OutputTyped, CallsTyped, openerVars, outputVars
<1>1. CASE SpawnShell \/ ActivateShell
  BY <1>1 DEF SpawnShell, ActivateShell, SlotInv
<1>2. CASE TearDown
  BY <1>2 DEF TearDown, SlotInv
<1>3. ASSUME NEW p \in Sessions, TakeOut(p), printed' = printed
      PROVE  shells[s] \in {"none", "spawned"} /\ printed'[s] = printed[s]
  BY <1>3, TakeOutFields DEF SlotInv
<1>4. CASE CloseAnswered
  BY <1>3, <1>4, ConsoleNumbers DEF CloseAnswered
<1>5. ASSUME NEW p \in Sessions, SessionFails(p) \/ BackendCloses(p)
      PROVE  shells[s] \in {"none", "spawned"} /\ printed'[s] = printed[s]
  BY <1>3, <1>5 DEF SessionFails, BackendCloses
<1>6. ASSUME NEW p \in Sessions, ShutDown(p) \/ ShellFinishes(p) \/ PublishExit(p)
      PROVE  shells[s] \in {"none", "spawned"} /\ printed'[s] = printed[s]
  BY <1>6 DEF ShutDown, ShellFinishes, PublishExit
<1>7. ASSUME NEW p \in Sessions, ShellPrints(p)
      PROVE  shells[s] \in {"none", "spawned"} /\ printed'[s] = printed[s]
  BY <1>7 DEF ShellPrints
<1>8. \/ UNCHANGED <<shells, printed>> \/ SpawnShell \/ ActivateShell \/ TearDown \/ CloseAnswered
      \/ \E p \in Sessions : \/ SessionFails(p) \/ BackendCloses(p) \/ ShutDown(p)
                             \/ ShellFinishes(p) \/ PublishExit(p) \/ ShellPrints(p)
  BY DEF ConsoleNext, consoleVars, OpenConsole, OpenFails, BeginSwitch, EndSwitch,
         MountConsole, ConsoleReady, UnmountConsole, DeliverEvent, OpenAnswered, CloseConsole,
         SendInput, BackendTakesInput, RefusalAnswered
<1> QED
  BY <1>1, <1>2, <1>4, <1>5, <1>6, <1>7, <1>8

\* So it still has told nothing.
LEMMA NextKeepsFresh ==
    ASSUME ConsoleTyped, SlotInv, FreshInv, [ConsoleNext]_consoleVars
    PROVE  FreshInv'
<1> SUFFICES ASSUME NEW s \in Sessions, shells'[s] \in {"none", "spawned"}
             PROVE  /\ printed'[s] = 0
                    /\ \A i \in DOMAIN wire' : wire'[i].session # s
                    /\ \A i \in DOMAIN early' : early'[i].session # s
  BY DEF FreshInv
<1>1. /\ shells[s] \in {"none", "spawned"} /\ printed'[s] = 0
      /\ \A i \in DOMAIN wire : wire[i].session # s
      /\ \A i \in DOMAIN early : early[i].session # s
  BY FreshWas DEF FreshInv
<1>2. ASSUME NEW i \in DOMAIN wire' PROVE wire'[i].session # s
  <2>1. ASSUME NEW p \in Sessions, ShellPrints(p), wire'[i] = Event(p, "data", printed[p] + 1)
        PROVE  wire'[i].session # s
    <3>1. shells[p] = "alive" /\ wire'[i].session = p
      BY <2>1 DEF ShellPrints, Event
    <3> QED
      BY <1>1, <3>1
  <2>2. ASSUME NEW p \in Sessions, ShutDown(p) \/ PublishExit(p),
               wire'[i] = Event(p, "exit", printed[p])
        PROVE  wire'[i].session # s
    <3>1. shells[p] \in {"ending", "finished"} /\ wire'[i].session = p
      BY <2>2 DEF ShutDown, PublishExit, Event
    <3> QED
      BY <1>1, <3>1
  <2> QED
    BY <1>1, <2>1, <2>2, EventsOfStep
<1>3. ASSUME NEW i \in DOMAIN early' PROVE early'[i].session # s
  BY <1>1, <1>3, EventsOfStep
<1> QED
  BY <1>1, <1>2, <1>3

\* An event that a shell tells carries on every chain.
LEMMA TellCarriesOn ==
    ASSUME ConsoleTyped, ConsoleTyped', GapInv, NEW e \in Events, wire' = Append(wire, e),
           \A s \in Sessions : Step(s, printed[s], printed'[s], e),
           UNCHANGED <<session, seen, notice, openCall, early, omitted>>
    PROVE  ShownChain' /\ CallChain'
<1>t. /\ session \in Sessions \cup {None} /\ openCall.of \in Sessions \cup {None}
      /\ wire \in Seq(Events) /\ seen \in Nat
      /\ \A s \in Sessions : printed[s] \in Nat /\ printed'[s] \in Nat
  BY ConsoleNumbers DEF ConsoleTyped, ShownTyped, CallsTyped, OutputTyped
<1>1. ASSUME session # None, ~notice PROVE Chain(session, seen, printed'[session], wire')
  <2>1. session \in Sessions /\ Chain(session, seen, printed[session], wire)
    BY <1>1, <1>t, ConsoleNumbers DEF GapInv, ShownChain, ConsoleTyped, ShownTyped
  <2> QED
    BY <1>t, <2>1, ChainAppend
<1>2. ASSUME openCall.of # None, omitted = 0
      PROVE  \E m \in Nat : /\ Chain(openCall.of, 0, m, early)
                            /\ Chain(openCall.of, m, printed'[openCall.of], wire')
  <2>1. openCall.of \in Sessions
    BY <1>2, ConsoleNumbers DEF ConsoleTyped, CallsTyped
  <2>2. PICK m \in Nat : /\ Chain(openCall.of, 0, m, early)
                         /\ Chain(openCall.of, m, printed[openCall.of], wire)
    BY <1>2 DEF GapInv, CallChain
  <2>3. Chain(openCall.of, m, printed'[openCall.of], wire')
    BY <1>t, <2>1, <2>2, ChainAppend
  <2> QED
    BY <2>2, <2>3
<1> QED
  BY <1>1, <1>2 DEF ShownChain, CallChain

\* The delivery of an event shows it, keeps it, or is not for this console.
LEMMA DeliveryCarriesOn ==
    ASSUME ConsoleTyped, ConsoleTyped', CallInv, GapInv, DeliverEvent
    PROVE  GapIsTold' /\ ShownChain' /\ CallChain'
<1> DEFINE e == Head(wire)
<1> USE ConsoleNumbers DEF slotVars, openerVars, mountVars, earlyVars, callVars
<1>t. /\ wire \in Seq(Events) /\ wire # <<>> /\ wire' = Tail(wire) /\ seen \in Nat
      /\ early \in Seq(Events) /\ omitted \in Nat
      /\ \A s \in Sessions : printed[s] \in Nat
      /\ session # None => session \in Sessions
      /\ openCall.of # None => openCall.of \in Sessions
      /\ UNCHANGED <<printed, openCall, notice>>
  BY DEF DeliverEvent, ConsoleTyped, ShownTyped, CallsTyped, OutputTyped, EarlyTyped
<1>e. e \in Events /\ e.session \in Sessions /\ e.kind \in Kinds /\ e.n \in Nat
  <2>1. e \in Events
    BY <1>t, HeadTailProperties
  <2> QED
    BY <2>1 DEF Events
<1>v. /\ View \in Views /\ View.session = session /\ View.seen = seen /\ View.gap = gap
  BY DEF View, Views, ConsoleTyped, ShownTyped
<1>c. session # None /\ ~notice =>
        \E c \in Nat : Step(session, seen, c, e) /\ Chain(session, c, printed[session], wire')
  BY <1>t, ChainTail DEF GapInv, ShownChain
<1>g. gap => notice
  BY DEF GapInv, GapIsTold
<1>1. CASE mounted /\ ready /\ session = e.session
  <2>1. Show(Applied(e, View)) /\ UNCHANGED earlyVars /\ openCall.of = None
    BY <1>1, <1>e DEF DeliverEvent, CallInv
  <2>2. CallChain'
    BY <1>t, <2>1 DEF CallChain
  <2>3. CASE notice
    BY <1>t, <2>2, <2>3 DEF GapIsTold, ShownChain
  <2>4. CASE ~notice
    <3>1. PICK c \in Nat : Step(session, seen, c, e) /\ Chain(session, c, printed[session], wire')
      BY <1>1, <1>c, <1>e, <2>4
    <3>2. CASE e.kind = "exit"
      <4>1. Applied(e, View) = [View EXCEPT !.session = None, !.gap = @ \/ e.n # View.seen]
        BY <1>e, <1>v, <3>2, AppliedEvent
      <4>2. e.n = seen
        BY <1>1, <3>1, <3>2 DEF Step
      <4> HIDE DEF View, e
      <4>3. Applied(e, View).session = None /\ Applied(e, View).gap = FALSE
        BY <1>g, <1>v, <2>4, <4>1, <4>2 DEF Views
      <4>4. session' = None /\ gap' = FALSE
        BY <2>1, <4>3 DEF Show
      <4> QED
        BY <2>2, <4>4 DEF GapIsTold, ShownChain
    <3>3. CASE e.kind = "data"
      <4>1. Applied(e, View) = [View EXCEPT !.seen = e.n, !.gap = @ \/ e.n # View.seen + 1]
        BY <1>e, <1>v, <3>3, AppliedEvent
      <4>2. c = seen + 1 /\ e.n = c
        BY <1>1, <3>1, <3>3 DEF Step
      <4> HIDE DEF View, e
      <4>3. /\ Applied(e, View).session = session /\ Applied(e, View).gap = FALSE
            /\ Applied(e, View).seen = c
        BY <1>g, <1>v, <2>4, <4>1, <4>2 DEF Views
      <4>4. session' = session /\ gap' = FALSE /\ seen' = c
        BY <2>1, <4>3 DEF Show
      <4> QED
        BY <1>t, <2>2, <3>1, <4>4 DEF GapIsTold, ShownChain
    <3> QED
      BY <1>e, <3>2, <3>3 DEF Kinds
  <2> QED
    BY <2>3, <2>4
<1>2. CASE ~(mounted /\ ready /\ session = e.session)
  <2>1. /\ UNCHANGED <<session, seen, gap>>
        /\ IF openCall # NoCall THEN Buffer(e) ELSE UNCHANGED earlyVars
    BY <1>2 DEF DeliverEvent
  <2>2. GapIsTold'
    BY <1>g, <1>t, <2>1 DEF GapIsTold
  <2>3. ASSUME session # None, ~notice PROVE Chain(session, seen, printed[session], wire')
    <3>1. session # e.session
      BY <1>2, <2>3 DEF CallInv
    <3>2. PICK c \in Nat : Step(session, seen, c, e) /\ Chain(session, c, printed[session], wire')
      BY <1>c, <2>3
    <3>3. c = seen
      BY <3>1, <3>2 DEF Step
    <3> QED
      BY <3>2, <3>3
  <2>4. ShownChain'
    BY <1>t, <2>1, <2>3 DEF ShownChain
  <2>5. ASSUME openCall.of # None, omitted' = 0
        PROVE  \E m \in Nat : /\ Chain(openCall.of, 0, m, early')
                              /\ Chain(openCall.of, m, printed[openCall.of], wire')
    <3>1. openCall # NoCall
      BY <2>5 DEF NoCall
    <3>2. omitted = 0 /\ early' = Append(early, e)
      BY <1>t, <2>1, <2>5, <3>1 DEF Buffer
    <3>3. PICK b \in Nat : /\ Chain(openCall.of, 0, b, early)
                           /\ Chain(openCall.of, b, printed[openCall.of], wire)
      BY <2>5, <3>2 DEF GapInv, CallChain
    <3>4. PICK c \in Nat : /\ Step(openCall.of, b, c, e)
                           /\ Chain(openCall.of, c, printed[openCall.of], wire')
      BY <1>t, <2>5, <3>3, ChainTail
    <3> HIDE DEF e
    <3>5. Chain(openCall.of, 0, c, early')
      BY <1>t, <1>e, <3>2, <3>3, <3>4, ChainAppend
    <3> QED
      BY <3>4, <3>5
  <2>6. CallChain'
    BY <1>t, <2>5 DEF CallChain
  <2> QED
    BY <2>2, <2>4, <2>6
<1> QED
  BY <1>1, <1>2

\* The answer of an open shows what came early.
LEMMA AnswerCarriesOn ==
    ASSUME ConsoleTyped, CallInv, GapInv, OpenAnswered
    PROVE  GapIsTold' /\ ShownChain' /\ CallChain'
<1> USE DEF outputVars, shownVars
<1>1. /\ openCall'.of = None /\ UNCHANGED <<wire, printed>> /\ openCall.stage \in {"refused", "opened"}
      /\ session = None /\ early \in Seq(Events)
  BY DEF OpenAnswered, NoCall, CallInv, ConsoleTyped, EarlyTyped
<1>2. CallChain'
  BY <1>1 DEF CallChain
<1>3. CASE openCall.stage = "refused"
  <2>1. UNCHANGED <<session, gap, notice>>
    BY <1>3 DEF OpenAnswered
  <2> QED
    BY <1>1, <1>2, <2>1 DEF GapInv, GapIsTold, ShownChain
<1>4. CASE openCall.stage = "opened" /\ omitted # 0
  <2>1. omitted > 0 /\ notice' = (omitted > 0)
    BY <1>4 DEF OpenAnswered, ConsoleTyped, EarlyTyped
  <2> QED
    BY <1>2, <2>1 DEF GapIsTold, ShownChain
<1>5. CASE openCall.stage = "opened" /\ omitted = 0
  <2>1. openCall.of \in Sessions /\ openCall.of # None
    BY <1>5, ConsoleNumbers DEF ConsoleTyped, CallsTyped
  <2>2. PICK m \in Nat : /\ Chain(openCall.of, 0, m, early)
                         /\ Chain(openCall.of, m, printed[openCall.of], wire)
    BY <1>5, <2>1 DEF GapInv, CallChain
  <2>3. /\ Replay(openCall.of).seen = m /\ Replay(openCall.of).gap = FALSE
        /\ Replay(openCall.of).session \in {openCall.of, None}
    BY <1>1, <2>1, <2>2, ReplayOfChain, ReplayKeepsSession
  <2>4. session' \in {openCall.of, None} /\ seen' = m /\ gap' = FALSE
    BY <1>5, <2>3 DEF OpenAnswered, Show
  <2> QED
    BY <1>1, <1>2, <2>2, <2>4 DEF GapIsTold, ShownChain
<1> QED
  BY <1>1, <1>3, <1>4, <1>5

\* Every step keeps it.
LEMMA NextTellsGaps ==
    ASSUME ConsoleTyped, ConsoleTyped', SlotInv, CallInv, GapInv, [ConsoleNext]_consoleVars
    PROVE  GapInv'
<1> USE DEF slotVars, openerVars, outputVars, mountVars, earlyVars, callVars, shownVars
<1>f. FreshInv'
  BY NextKeepsFresh DEF GapInv
<1>t. /\ wire \in Seq(Events) /\ seen \in Nat /\ printed \in [Sessions -> 0..MaxPrinted]
      /\ \A s \in Sessions : printed[s] \in Nat
  BY ConsoleNumbers DEF ConsoleTyped, ShownTyped, OutputTyped
<1> DEFINE Good == GapIsTold' /\ ShownChain' /\ CallChain'
<1>0. ASSUME UNCHANGED <<printed, wire, early, omitted, session, seen, gap, notice>>,
             openCall'.of = openCall.of
      PROVE  Good
  BY <1>0 DEF GapInv, GapIsTold, ShownChain, CallChain
<1>n. ASSUME gap' => notice', session' = None, openCall'.of = None PROVE Good
  BY <1>n DEF GapIsTold, ShownChain, CallChain
<1>g. gap => notice
  BY DEF GapInv, GapIsTold
<1>1. ASSUME OpenConsole PROVE Good
  <2>1. /\ UNCHANGED <<printed, wire, session, gap, notice>> /\ session = None
        /\ early' = <<>> /\ generations < MaxOpens
    BY <1>1 DEF OpenConsole
  <2>2. CASE switching \/ slot # Idle
    <3>1. openCall'.of = None
      BY <1>1, <2>2 DEF OpenConsole
    <3> QED
      BY <1>g, <1>n, <2>1, <3>1
  <2>3. CASE ~(switching \/ slot # Idle)
    <3>1. openCall'.of = generations + 1
      BY <1>1, <2>3 DEF OpenConsole
    <3>2. generations + 1 \in Sessions /\ shells[generations + 1] = "none"
      BY <2>1, ConsoleNumbers DEF ConsoleTyped, SlotTyped, SlotInv, Sessions
    <3> DEFINE s == generations + 1
    <3> HIDE DEF s
    <3>3. /\ s \in Sessions /\ openCall'.of = s /\ printed[s] = 0
          /\ \A i \in DOMAIN wire : wire[i].session # s
      BY <3>1, <3>2 DEF s, GapInv, FreshInv
    <3>4. Chain(s, 0, 0, wire)
      BY <1>t, <3>3, ChainOfNone
    <3>5. Chain(s, 0, 0, <<>>)
      <4>1. <<>> \in Seq(Events) /\ DOMAIN <<>> = {}
        BY EmptySeq
      <4> QED
        BY <4>1, ChainOfNone
    <3>6. CallChain'
      BY <2>1, <3>3, <3>4, <3>5 DEF CallChain
    <3> QED
      BY <1>g, <2>1, <3>6 DEF GapIsTold, ShownChain
  <2> QED
    BY <2>2, <2>3
<1>2. ASSUME OpenFails \/ ActivateShell PROVE Good
  <2>1. \E result : AnswerOpen(result)
    BY <1>2 DEF OpenFails, ActivateShell
  <2>2. openCall'.of = openCall.of
    BY <2>1, AnswerFields
  <2> QED
    BY <1>0, <1>2, <2>2 DEF OpenFails, ActivateShell
<1>3. ASSUME NEW s \in Sessions, ShutDown(s) \/ PublishExit(s) PROVE Good
  <2>1. UNCHANGED <<printed, early, omitted, session, seen, gap, notice, openCall>>
    BY <1>3 DEF ShutDown, PublishExit
  <2>2. CASE wire' = wire
    BY <1>0, <2>1, <2>2
  <2>3. CASE wire' = Append(wire, Event(s, "exit", printed[s]))
    <3> DEFINE e == Event(s, "exit", printed[s])
    <3>1. e \in Events /\ e.session = s /\ e.kind = "exit" /\ e.n = printed[s]
      BY <1>t, EventType DEF Kinds
    <3> HIDE DEF e
    <3>2. \A x \in Sessions : Step(x, printed[x], printed'[x], e)
      BY <2>1, <3>1 DEF Step
    <3>3. ShownChain' /\ CallChain'
      BY <2>1, <2>3, <3>1, <3>2, TellCarriesOn DEF e
    <3> QED
      BY <1>g, <2>1, <3>3 DEF GapIsTold
  <2> QED
    BY <1>3, <2>2, <2>3 DEF ShutDown, PublishExit
<1>4. ASSUME NEW s \in Sessions, ShellPrints(s) PROVE Good
  <2>1. /\ UNCHANGED <<early, omitted, session, seen, gap, notice, openCall>>
        /\ printed[s] < MaxPrinted /\ printed' = [printed EXCEPT ![s] = @ + 1]
        /\ wire' = Append(wire, Event(s, "data", printed'[s]))
    BY <1>4 DEF ShellPrints
  <2>2. /\ printed'[s] = printed[s] + 1 /\ printed'[s] \in 0..MaxPrinted
        /\ \A x \in Sessions \ {s} : printed'[x] = printed[x]
    BY <1>t, <2>1, ConsoleNumbers
  <2> DEFINE e == Event(s, "data", printed'[s])
  <2>3. e \in Events /\ e.session = s /\ e.kind = "data" /\ e.n = printed'[s]
    BY <2>2, EventType DEF Kinds
  <2> HIDE DEF e
  <2>4. \A x \in Sessions : Step(x, printed[x], printed'[x], e)
    BY <2>2, <2>3 DEF Step
  <2>5. ShownChain' /\ CallChain'
    BY <2>1, <2>3, <2>4, TellCarriesOn DEF e
  <2> QED
    BY <1>g, <2>1, <2>5 DEF GapIsTold
<1>5. ASSUME NEW s \in Sessions, ShellFinishes(s) \/ SessionFails(s) \/ BackendCloses(s) PROVE Good
  BY <1>0, <1>5 DEF ShellFinishes, SessionFails, BackendCloses
<1>6. ASSUME TearDown \/ UnmountConsole PROVE Good
  BY <1>n, <1>6 DEF TearDown, UnmountConsole, ConsoleGone, NoCall
<1>7. ASSUME SpawnShell \/ BeginSwitch \/ EndSwitch \/ MountConsole \/ ConsoleReady PROVE Good
  BY <1>0, <1>7 DEF SpawnShell, BeginSwitch, EndSwitch, MountConsole, ConsoleReady
<1>8. ASSUME CloseConsole \/ SendInput \/ BackendTakesInput PROVE Good
  BY <1>0, <1>8 DEF CloseConsole, SendInput, BackendTakesInput
<1>9. ASSUME CloseAnswered \/ RefusalAnswered PROVE Good
  <2>1. /\ UNCHANGED <<printed, wire, early, omitted, seen, gap, notice, openCall>>
        /\ session' \in {None, session}
    BY <1>9 DEF CloseAnswered, RefusalAnswered
  <2> QED
    BY <2>1 DEF GapInv, GapIsTold, ShownChain, CallChain
<1>10. ASSUME UNCHANGED consoleVars PROVE Good
  BY <1>0, <1>10 DEF consoleVars
<1>11. Good
  BY <1>1, <1>2, <1>3, <1>4, <1>5, <1>6, <1>7, <1>8, <1>9, <1>10, DeliveryCarriesOn,
     AnswerCarriesOn DEF ConsoleNext
<1> QED
  BY <1>f, <1>11 DEF GapInv

(* Whatever the order in which output, exits and the answer of an open arrive, what the *)
(* console leaves out of a session it announces.                                        *)
THEOREM GapIsAlwaysTold == ConsoleSpec => []GapIsTold
<1>1. ConsoleInit => SlotInv /\ ExitToldInv /\ CallInv /\ GapInv
  BY InitHoldsSlot, InitHasNoExit, InitKnowsSlot, InitLeavesNothingOut
<1>2. /\ ConsoleTyped /\ ConsoleTyped' /\ (SlotInv /\ ExitToldInv /\ CallInv /\ GapInv)
      /\ [ConsoleNext]_consoleVars
      => (SlotInv /\ ExitToldInv /\ CallInv /\ GapInv)'
  BY NextHoldsSlot, NextTellsExits, NextKnowsSlot, NextTellsGaps
<1>3. GapInv => GapIsTold
  BY DEF GapInv
<1> QED
  BY <1>1, <1>2, <1>3, ConsoleTypeCorrect, PTL DEF ConsoleSpec

--------------------------------------------------------------------------------
(* WebSocket sessions: types, and the permits.                             *)

\* A permit is held from the consent dialog to the closed event.
Busy == {c \in Connections : stage[c] \in {"confirming", "opening", "open", "finishing"}}
PermitsInv == slots = Cardinality(Busy)

\* The types of the backend and of the renderer.
BackendTyped ==
    /\ stage \in [Connections -> Stages] /\ slots \in 0..MaxSlots
    /\ sessions \subseteq Connections /\ signalled \subseteq Connections
    /\ received \in 0..MaxInbound
EventsTyped ==
    /\ socketEvents \in Seq(SocketEvent) /\ events \in Seq(SocketEvent) /\ Len(events) <= MaxEvents
PendingTyped ==
    /\ pending \in [action : {"none", "connect", "disconnect"}, session : 0..MaxConnects,
                    outcome : {"none", "failed", "done"}]
    /\ pending.action # "none" => pending.session \in Connections
ChoiceTyped ==
    /\ {preferred, fallback, disconnectedBy} \subseteq 0..MaxConnects /\ connectFailed \in BOOLEAN
ViewTyped == shown \in BOOLEAN /\ tabs \in 0..MaxTabs /\ left \subseteq Connections

WebSocketTyped == BackendTyped /\ EventsTyped /\ PendingTyped /\ ChoiceTyped /\ ViewTyped

LEMMA WebSocketTypedIsOK == WebSocketTyped => WebSocketTypeOK
BY DEF WebSocketTyped, BackendTyped, EventsTyped, PendingTyped, ChoiceTyped, ViewTyped,
       WebSocketTypeOK

\* The numbers the bounds allow.
LEMMA WebSocketNumbers ==
    /\ MaxConnects \in Nat /\ MaxInbound \in Nat /\ MaxBacklog \in Nat /\ MaxTabs \in Nat
    /\ MaxSlots \in Nat /\ MaxSlots > 0 /\ MaxEvents \in Nat /\ MaxEvents >= 4
    /\ Connections \subseteq 0..MaxConnects /\ Nobody \in 0..MaxConnects
    /\ Nobody \notin Connections /\ \A c \in 0..MaxConnects : c # Nobody => c \in Connections
BY WebSocketAssumption DEF Connections, Nobody

\* The connections that hold a permit are finite in number.
LEMMA BusyIsFinite == IsFiniteSet(Busy)
<1>1. IsFiniteSet(1..MaxConnects)
  BY FS_Interval, WebSocketNumbers
<1> QED
  BY <1>1, FS_Subset DEF Busy, Connections

\* A connection that takes a permit, gives it back, or goes on with it.
LEMMA PermitTaken ==
    ASSUME WebSocketTyped, PermitsInv, NEW c \in Connections, stage[c] = "none",
           Enter(c, "confirming"), slots' = slots + 1
    PROVE  PermitsInv'
<1>1. Busy' = Busy \cup {c} /\ c \notin Busy
  BY DEF Busy, Enter, WebSocketTyped, BackendTyped
<1> QED
  BY <1>1, BusyIsFinite, FS_AddElement DEF PermitsInv

LEMMA PermitReleased ==
    ASSUME WebSocketTyped, PermitsInv, NEW c \in Connections, c \in Busy,
           Enter(c, "over"), slots' = slots - 1
    PROVE  PermitsInv' /\ slots' \in 0..MaxSlots
<1>1. Busy' = Busy \ {c}
  BY DEF Busy, Enter, WebSocketTyped, BackendTyped
<1>2. Cardinality(Busy') = Cardinality(Busy) - 1 /\ Cardinality(Busy) \in Nat
      /\ Cardinality(Busy') \in Nat
  BY <1>1, BusyIsFinite, FS_RemoveElement, FS_CardinalityType
<1> QED
  BY <1>2, WebSocketNumbers DEF PermitsInv, WebSocketTyped, BackendTyped

LEMMA PermitKept ==
    ASSUME WebSocketTyped, PermitsInv, UNCHANGED slots,
           \/ UNCHANGED stage
           \/ \E c \in Connections : \/ c \in Busy /\ Enter(c, "opening")
                                     \/ c \in Busy /\ Enter(c, "open")
                                     \/ c \in Busy /\ Enter(c, "finishing")
                                     \/ c \notin Busy /\ Enter(c, "over")
    PROVE  PermitsInv'
<1>1. Busy' = Busy
  BY DEF Busy, Enter, WebSocketTyped, BackendTyped
<1> QED
  BY <1>1 DEF PermitsInv

\* What is told is of the type of what is under way.
LEMMA EmitType ==
    ASSUME socketEvents \in Seq(SocketEvent), NEW c \in Connections,
           NEW kinds \in Seq(EventKinds), Emit(c, kinds)
    PROVE  socketEvents' \in Seq(SocketEvent)
<1> DEFINE batch == [i \in DOMAIN kinds |-> [session |-> c, kind |-> kinds[i]]]
<1>1. DOMAIN kinds = 1..Len(kinds) /\ Len(kinds) \in Nat
  BY LenProperties
<1>2. \A i \in 1..Len(kinds) : kinds[i] \in EventKinds
  BY ElementOfSeq
<1>3. batch \in [1..Len(kinds) -> SocketEvent]
  BY <1>1, <1>2 DEF SocketEvent
<1>4. batch \in Seq(SocketEvent)
  BY <1>1, <1>3, SeqDef
<1>5. socketEvents \o batch \in Seq(SocketEvent)
  BY <1>4, ConcatProperties
<1> QED
  BY <1>5 DEF Emit

\* What the list keeps of what it has and of what comes.
LEMMA BoundedType ==
    ASSUME NEW list \in Seq(SocketEvent)
    PROVE  Bounded(list) \in Seq(SocketEvent) /\ Len(Bounded(list)) <= MaxEvents
<1>1. CASE Len(list) <= MaxEvents
  BY <1>1 DEF Bounded
<1>2. CASE ~(Len(list) <= MaxEvents)
  <2> DEFINE first == Len(list) - MaxEvents + 1
  <2>1. first \in 1..Len(list) /\ Len(list) \in Nat /\ Len(list) - first + 1 = MaxEvents
    BY <1>2, LenProperties, WebSocketNumbers
  <2>2. /\ SubSeq(list, first, Len(list)) \in Seq(SocketEvent)
        /\ Len(SubSeq(list, first, Len(list))) = MaxEvents
    BY <2>1, SubSeqProperties
  <2> QED
    BY <1>2, <2>2, WebSocketNumbers DEF Bounded
<1> QED
  BY <1>1, <1>2

LEMMA FlushType ==
    ASSUME EventsTyped, NEW n \in 1..Len(socketEvents)
    PROVE  /\ SubSeq(socketEvents, n + 1, Len(socketEvents)) \in Seq(SocketEvent)
           /\ events \o SubSeq(socketEvents, 1, n) \in Seq(SocketEvent)
<1>1. socketEvents \in Seq(SocketEvent) /\ Len(socketEvents) \in Nat /\ events \in Seq(SocketEvent)
  BY LenProperties DEF EventsTyped
<1>2. SubSeq(socketEvents, 1, n) \in Seq(SocketEvent)
  BY <1>1, SubSeqProperties
<1>3. SubSeq(socketEvents, n + 1, Len(socketEvents)) \in Seq(SocketEvent)
  BY <1>1, SubSeqProperties
<1> QED
  BY <1>1, <1>2, <1>3, ConcatProperties

\* The session of the last event, and of the one the console shows.
LEMMA LastType ==
    ASSUME NEW list \in Seq(SocketEvent), list # <<>>
    PROVE  Last(list) \in SocketEvent /\ Last(list).session \in Connections
<1>1. Len(list) \in 1..Len(list)
  BY EmptySeq, LenProperties
<1>2. Last(list) \in SocketEvent
  BY <1>1, ElementOfSeq DEF Last
<1> QED
  BY <1>2 DEF SocketEvent

LEMMA ActiveType ==
    ASSUME EventsTyped, ChoiceTyped
    PROVE  NewestSession \in 0..MaxConnects /\ ActiveSession \in 0..MaxConnects
<1>1. NewestSession \in 0..MaxConnects
  BY LastType, WebSocketNumbers DEF NewestSession, EventsTyped
<1> QED
  BY <1>1, WebSocketNumbers DEF ActiveSession, ActiveOf, FirstOf, ChoiceTyped

LEMMA WebSocketInitTyped == WebSocketInit => WebSocketTyped /\ PermitsInv
<1> SUFFICES ASSUME WebSocketInit PROVE WebSocketTyped /\ PermitsInv
  OBVIOUS
<1>1. Busy = {}
  BY DEF WebSocketInit, Busy
<1>2. PermitsInv
  BY <1>1, FS_EmptySet DEF PermitsInv, WebSocketInit
<1>3. BackendTyped
  BY WebSocketNumbers DEF WebSocketInit, BackendTyped, Stages
<1>4. EventsTyped
  <2>1. <<>> \in Seq(SocketEvent) /\ Len(<<>>) = 0
    BY EmptySeq
  <2> QED
    BY <2>1, WebSocketNumbers DEF WebSocketInit, EventsTyped
<1>5. PendingTyped
  BY WebSocketNumbers DEF WebSocketInit, PendingTyped, NoAction
<1>6. ChoiceTyped
  BY WebSocketNumbers DEF WebSocketInit, ChoiceTyped
<1>7. ViewTyped
  BY WebSocketNumbers DEF WebSocketInit, ViewTyped
<1> QED
  BY <1>2, <1>3, <1>4, <1>5, <1>6, <1>7 DEF WebSocketTyped

\* Every step keeps the types and the permits.
LEMMA WebSocketNextTyped ==
    ASSUME WebSocketTyped, PermitsInv, [WebSocketNext]_webSocketVars
    PROVE  WebSocketTyped' /\ PermitsInv'
<1> USE WebSocketNumbers DEF webSocketVars, backendVars, choiceVars
<1>t. BackendTyped /\ EventsTyped /\ PendingTyped /\ ChoiceTyped /\ ViewTyped
  BY DEF WebSocketTyped
<1> DEFINE Good == WebSocketTyped' /\ PermitsInv'
<1>b. UNCHANGED backendVars => BackendTyped' /\ PermitsInv'
  BY <1>t, PermitKept DEF BackendTyped
<1>e. UNCHANGED <<socketEvents, events>> => EventsTyped'
  BY <1>t DEF EventsTyped
<1>p. UNCHANGED pending => PendingTyped'
  BY <1>t DEF PendingTyped
<1>c. UNCHANGED choiceVars => ChoiceTyped'
  BY <1>t DEF ChoiceTyped
<1>v. UNCHANGED <<shown, tabs, left>> => ViewTyped'
  BY <1>t DEF ViewTyped
<1>k. /\ <<"connecting">> \in Seq(EventKinds) /\ <<"open">> \in Seq(EventKinds)
      /\ <<"message">> \in Seq(EventKinds) /\ <<"error">> \in Seq(EventKinds)
      /\ <<"closed">> \in Seq(EventKinds) /\ <<"error", "closed">> \in Seq(EventKinds)
  BY DEF EventKinds
<1>m. ASSUME NEW c \in Connections, NEW kinds \in Seq(EventKinds), Emit(c, kinds), events' = events
      PROVE  EventsTyped'
  BY <1>m, <1>t, EmitType DEF EventsTyped
<1>a. ASSUME NEW c \in Connections, NEW outcome \in {"failed", "done"}, AnswerConnect(c, outcome)
      PROVE  PendingTyped'
  BY <1>a, <1>t DEF AnswerConnect, PendingTyped
<1>n. ASSUME NEW c \in Connections, NEW where \in Stages, Enter(c, where)
      PROVE  stage' \in [Connections -> Stages]
  BY <1>n, <1>t DEF Enter, BackendTyped
<1>1. ASSUME NEW c \in Connections, Connect(c) PROVE Good
  <2>1. EventsTyped' /\ ViewTyped' /\ ChoiceTyped'
    <3>1. UNCHANGED <<socketEvents, events, shown, tabs, left, preferred, disconnectedBy>>
          /\ connectFailed' = FALSE
      BY <1>1 DEF Connect
    <3>2. fallback' \in {fallback, Nobody}
      BY <1>1 DEF Connect, EndForgotten
    <3> QED
      BY <1>e, <1>v, <1>t, <3>1, <3>2 DEF ChoiceTyped
  <2>2. PendingTyped'
    BY <1>1 DEF Connect, PendingTyped
  <2>3. UNCHANGED <<sessions, signalled, received>> /\ stage[c] = "none"
    BY <1>1 DEF Connect
  <2>4. CASE slots = MaxSlots
    <3>1. Enter(c, "over") /\ slots' = slots
      BY <1>1, <2>4 DEF Connect
    <3>2. c \notin Busy
      BY <2>3 DEF Busy
    <3>3. PermitsInv'
      BY <3>1, <3>2, PermitKept
    <3>4. BackendTyped'
      BY <1>n, <1>t, <2>3, <3>1 DEF BackendTyped, Stages
    <3> QED
      BY <2>1, <2>2, <3>3, <3>4 DEF WebSocketTyped
  <2>5. CASE slots # MaxSlots
    <3>1. Enter(c, "confirming") /\ slots' = slots + 1
      BY <1>1, <2>5 DEF Connect
    <3>2. PermitsInv'
      BY <2>3, <3>1, PermitTaken
    <3>3. BackendTyped'
      BY <1>n, <1>t, <2>3, <2>5, <3>1 DEF BackendTyped, Stages
    <3> QED
      BY <2>1, <2>2, <3>2, <3>3 DEF WebSocketTyped
  <2> QED
    BY <2>4, <2>5
<1>2. ASSUME NEW c \in Connections,
             \/ ConnectDeclined(c) \/ OpenSocketFails(c) \/ CloseSession(c)
      PROVE  Good
  <2>1. /\ Enter(c, "over") /\ slots' = slots - 1 /\ c \in Busy
        /\ UNCHANGED <<sessions, signalled, received, events, shown, tabs, left>>
        /\ UNCHANGED choiceVars
    BY <1>2 DEF ConnectDeclined, OpenSocketFails, CloseSession, ReleaseSlot, Busy
  <2>2. PermitsInv' /\ slots' \in 0..MaxSlots
    BY <2>1, PermitReleased
  <2>3. BackendTyped'
    BY <1>n, <1>t, <2>1, <2>2 DEF BackendTyped, Stages
  <2>4. PendingTyped'
    BY <1>2, <1>a, <1>p DEF ConnectDeclined, OpenSocketFails, CloseSession
  <2>5. EventsTyped'
    BY <1>2, <1>e, <1>m, <1>k DEF ConnectDeclined, OpenSocketFails, CloseSession
  <2> QED
    BY <1>c, <1>v, <2>1, <2>2, <2>3, <2>4, <2>5 DEF WebSocketTyped
<1>3. ASSUME NEW c \in Connections,
             ConnectApproved(c) \/ OpenSocket(c) \/ LeaveLoop(c)
      PROVE  Good
  <2>1. /\ Enter(c, "opening") \/ Enter(c, "open") \/ Enter(c, "finishing")
        /\ c \in Busy /\ UNCHANGED <<slots, signalled, received, events, shown, tabs, left>>
        /\ UNCHANGED choiceVars /\ sessions' \subseteq Connections
    BY <1>3, <1>t DEF ConnectApproved, OpenSocket, LeaveLoop, Busy, BackendTyped
  <2>2. PermitsInv'
    BY <2>1, PermitKept
  <2>3. BackendTyped'
    BY <1>n, <1>t, <2>1 DEF BackendTyped, Stages
  <2>4. PendingTyped'
    BY <1>3, <1>a, <1>p DEF ConnectApproved, OpenSocket, LeaveLoop
  <2>5. EventsTyped'
    BY <1>3, <1>e, <1>m, <1>k DEF ConnectApproved, OpenSocket, LeaveLoop
  <2> QED
    BY <1>c, <1>v, <2>1, <2>2, <2>3, <2>4, <2>5 DEF WebSocketTyped
<1>4. ASSUME NEW c \in Connections, ReceiveMessage(c) PROVE Good
  <2>1. /\ UNCHANGED <<stage, slots, sessions, signalled, events, shown, tabs, pending, left>>
        /\ UNCHANGED choiceVars /\ received' \in 0..MaxInbound /\ Emit(c, <<"message">>)
    BY <1>4, <1>t DEF ReceiveMessage, BackendTyped
  <2>2. PermitsInv' /\ BackendTyped'
    BY <1>t, <2>1, PermitKept DEF BackendTyped
  <2> QED
    BY <1>c, <1>v, <1>p, <1>m, <1>k, <2>1, <2>2 DEF WebSocketTyped
<1>5. ASSUME FlushFrame PROVE Good
  <2>1. PICK n \in 1..Len(socketEvents) :
          /\ socketEvents' = SubSeq(socketEvents, n + 1, Len(socketEvents))
          /\ events' = Bounded(events \o SubSeq(socketEvents, 1, n))
    BY <1>5 DEF FlushFrame
  <2>2. EventsTyped'
    BY <1>t, <2>1, FlushType, BoundedType DEF EventsTyped
  <2>3. /\ UNCHANGED backendVars /\ UNCHANGED <<shown, tabs, left, pending, disconnectedBy, connectFailed>>
    BY <1>5 DEF FlushFrame
  <2>4. preferred' \in 0..MaxConnects
    <3>1. Preferred(events') \in 0..MaxConnects
      BY <1>t, <2>2, LastType DEF Preferred, EventsTyped, ChoiceTyped
    <3> QED
      BY <1>5, <1>t, <3>1 DEF FlushFrame, ChoiceTyped
  <2>5. fallback' \in {fallback, Nobody}
    BY <1>5 DEF FlushFrame, EndForgotten
  <2>6. ChoiceTyped'
    BY <1>t, <2>3, <2>4, <2>5 DEF ChoiceTyped
  <2> QED
    BY <1>b, <1>p, <1>v, <2>2, <2>3, <2>6 DEF WebSocketTyped
<1>6. ASSUME ConnectAnswered PROVE Good
  <2>1. /\ UNCHANGED backendVars /\ UNCHANGED <<socketEvents, events, shown, tabs, left>>
        /\ pending' = NoAction /\ connectFailed' \in BOOLEAN
        /\ preferred' \in {pending.session, preferred}
        /\ disconnectedBy' \in {Nobody, disconnectedBy}
        /\ fallback' \in {pending.session, fallback, Nobody}
    BY <1>6 DEF ConnectAnswered, EndForgotten
  <2>2. PendingTyped' /\ ChoiceTyped'
    BY <1>t, <2>1 DEF PendingTyped, ChoiceTyped, NoAction
  <2> QED
    BY <1>b, <1>e, <1>v, <2>1, <2>2 DEF WebSocketTyped
<1>7. ASSUME Disconnect PROVE Good
  <2>1. PendingTyped'
    BY <1>7, <1>t, ActiveType DEF Disconnect, CanDisconnect, PendingTyped
  <2> QED
    BY <1>7, <1>b, <1>e, <1>v, <1>c, <2>1 DEF WebSocketTyped, Disconnect
<1>8. ASSUME BackendDisconnects PROVE Good
  <2>1. PendingTyped'
    BY <1>8, <1>t DEF BackendDisconnects, PendingTyped
  <2>2. BackendTyped'
    BY <1>8, <1>t DEF BackendDisconnects, BackendTyped, PendingTyped
  <2>3. PermitsInv'
    BY <1>8, PermitKept DEF BackendDisconnects
  <2> QED
    BY <1>8, <1>e, <1>v, <1>c, <2>1, <2>2, <2>3 DEF WebSocketTyped, BackendDisconnects
<1>9. ASSUME DisconnectAnswered PROVE Good
  <2>1. PendingTyped' /\ ChoiceTyped'
    BY <1>9, <1>t DEF DisconnectAnswered, PendingTyped, ChoiceTyped, NoAction
  <2> QED
    BY <1>9, <1>b, <1>e, <1>v, <2>1 DEF WebSocketTyped, DisconnectAnswered
<1>10. ASSUME LeaveConsole PROVE Good
  <2>1. PendingTyped'
    BY <1>10, <1>t DEF LeaveConsole, PendingTyped, NoAction
  <2>2. ChoiceTyped'
    BY <1>10 DEF LeaveConsole, ChoiceTyped
  <2>3. ViewTyped'
    <3>1. tabs < MaxTabs /\ tabs' = tabs + 1 /\ tabs \in 0..MaxTabs
      BY <1>10, <1>t DEF LeaveConsole, ViewTyped
    <3>2. tabs' \in 0..MaxTabs
      BY <3>1
    <3>3. shown' = FALSE /\ left' \subseteq Connections
      BY <1>10, <1>t, Zenon DEF LeaveConsole, ViewTyped
    <3> QED
      BY <3>2, <3>3 DEF ViewTyped
  <2> QED
    BY <1>10, <1>b, <1>e, <2>1, <2>2, <2>3 DEF WebSocketTyped, LeaveConsole
<1>11. ASSUME EnterConsole PROVE Good
  <2>1. Preferred(events) \in 0..MaxConnects
    BY <1>t, LastType DEF Preferred, EventsTyped, ChoiceTyped
  <2>2. ChoiceTyped' /\ ViewTyped'
    BY <1>11, <1>t, <2>1 DEF EnterConsole, ChoiceTyped, ViewTyped
  <2> QED
    BY <1>11, <1>b, <1>e, <1>p, <2>2 DEF WebSocketTyped, EnterConsole
<1>12. ASSUME UNCHANGED webSocketVars PROVE Good
  BY <1>12, <1>b, <1>e, <1>p, <1>c, <1>v DEF WebSocketTyped
<1> QED
  BY <1>1, <1>2, <1>3, <1>4, <1>5, <1>6, <1>7, <1>8, <1>9, <1>10, <1>11, <1>12
     DEF WebSocketNext

(* A permit is out for each connection between its consent dialog and its closed *)
(* event and for no other, so that a session never ends for want of a permit that *)
(* was lost.                                                                      *)
THEOREM PermitsAreExact == WebSocketSpec => [](WebSocketTypeOK /\ PermitsInv)
<1>1. WebSocketSpec => [](WebSocketTyped /\ PermitsInv)
  BY WebSocketInitTyped, WebSocketNextTyped, PTL DEF WebSocketSpec
<1> QED
  BY <1>1, WebSocketTypedIsOK, PTL

--------------------------------------------------------------------------------
(* WebSocket sessions: what the console shows.                             *)

\* The connections are made in order, and none was made after the newest one.
InOrder == \A c, d \in Connections : c < d /\ stage[d] # "none" => stage[c] # "none"
Newest(c) == \A d \in Connections : c < d => stage[d] = "none"

\* A connection in the making is the newest, and the console waits for its answer.
MakingIsAwaited ==
    \A c \in Connections : stage[c] \in {"confirming", "opening"} =>
        /\ shown /\ Newest(c)
        /\ pending = [action |-> "connect", session |-> c, outcome |-> "none"]

\* What a command was about when its answer comes.
Opened(c) == stage[c] \in {"open", "finishing", "over"}
Unsignalled(c) == stage[c] = "open" /\ c \notin signalled
AnswersAreOwn ==
    /\ pending.action = "connect" /\ pending.outcome = "done" => Opened(pending.session)
    /\ pending.action = "disconnect" => Opened(pending.session)
    /\ pending.action = "disconnect" /\ pending.outcome = "done" => ~Unsignalled(pending.session)

\* What the console holds on to is of sessions that came as far.
ChoicesAreReal ==
    /\ preferred # Nobody => stage[preferred] \notin {"none", "confirming"}
    /\ fallback # Nobody => Opened(fallback)
    /\ disconnectedBy # Nobody => Opened(disconnectedBy) /\ ~Unsignalled(disconnectedBy)

\* An open session that nobody shuts down is the newest; the console waits for its
\* answer or has it.
Answered(c) ==
    \/ pending.action = "connect" /\ pending.session = c /\ pending.outcome = "done"
    \/ /\ pending.action # "connect" /\ preferred = c /\ fallback = c
       /\ disconnectedBy # c /\ ~connectFailed
OpenIsAnswered ==
    \A c \in Connections : Unsignalled(c) =>
        shown /\ Newest(c) /\ c \in sessions /\ Answered(c)

\* The events that are in the list and those that are on their way.
Stream == events \o socketEvents

\* An event is no older than the stage its session has come to allows.
Fits(e, where) ==
    /\ where \notin {"none", "confirming"}
    /\ where \in {"opening", "open"} => e.kind \notin {"error", "closed"}
    /\ where = "finishing" => e.kind # "closed"
StreamFits == \A i \in 1..Len(Stream) : Fits(Stream[i], stage[Stream[i].session])
ClosedIsLast ==
    \A i, j \in 1..Len(Stream) : i < j /\ Stream[i].kind = "closed" =>
        Stream[j].session # Stream[i].session
BeginningsAreNewest ==
    \A i \in 1..Len(socketEvents) :
        socketEvents[i].kind = "connecting" => Newest(socketEvents[i].session)

StreamInv == StreamFits /\ ClosedIsLast /\ BeginningsAreNewest
CommandInv == InOrder /\ MakingIsAwaited /\ AnswersAreOwn /\ ChoicesAreReal /\ OpenIsAnswered

\* All of it while the console was never left over a session.
ToldInv == left = {} => StreamInv /\ CommandInv

\* A begun connection has all earlier ones begun; so one that was not has none after it.
LEMMA UnmadeIsNewest ==
    ASSUME WebSocketTyped, InOrder, NEW c \in Connections, stage[c] = "none"
    PROVE  Newest(c)
BY DEF InOrder, Newest

\* The stream, event by event.
LEMMA StreamItems ==
    ASSUME EventsTyped
    PROVE  /\ Stream \in Seq(SocketEvent) /\ Len(Stream) = Len(events) + Len(socketEvents)
           /\ Len(events) \in Nat /\ Len(socketEvents) \in Nat
           /\ \A i \in 1..Len(events) : Stream[i] = events[i] /\ i \in 1..Len(Stream)
           /\ \A i \in 1..Len(socketEvents) :
                Stream[Len(events) + i] = socketEvents[i] /\ Len(events) + i \in 1..Len(Stream)
           /\ \A i \in 1..Len(Stream) : Stream[i] \in SocketEvent /\ Stream[i].session \in Connections
<1> DEFINE p == Len(events)
           q == Len(socketEvents)
<1>1. events \in Seq(SocketEvent) /\ socketEvents \in Seq(SocketEvent) /\ p \in Nat /\ q \in Nat
  BY LenProperties DEF EventsTyped
<1>2. /\ Stream \in Seq(SocketEvent) /\ Len(Stream) = p + q
      /\ \A i \in 1..(p + q) : Stream[i] = IF i <= p THEN events[i] ELSE socketEvents[i - p]
  BY <1>1, ConcatProperties DEF Stream
<1> HIDE DEF p, q
<1>3. \A i \in 1..p : Stream[i] = events[i] /\ i \in 1..(p + q)
  BY <1>1, <1>2
<1>4. ASSUME NEW i \in 1..q PROVE Stream[p + i] = socketEvents[i] /\ p + i \in 1..(p + q)
  <2>1. p + i \in 1..(p + q) /\ ~(p + i <= p) /\ (p + i) - p = i
    BY <1>1
  <2> QED
    BY <1>2, <2>1
<1>5. \A i \in 1..Len(Stream) : Stream[i] \in SocketEvent
  BY <1>2, ElementOfSeq
<1> QED
  BY <1>1, <1>2, <1>3, <1>4, <1>5 DEF p, q, SocketEvent

\* What a session tells comes last.
LEMMA EmitStream ==
    ASSUME EventsTyped, EventsTyped', NEW c \in Connections, NEW kinds \in Seq(EventKinds),
           Emit(c, kinds), events' = events
    PROVE  /\ Len(Stream') = Len(Stream) + Len(kinds) /\ Len(Stream) \in Nat /\ Len(kinds) \in Nat
           /\ Len(socketEvents') = Len(socketEvents) + Len(kinds) /\ Len(socketEvents) \in Nat
           /\ \A i \in 1..Len(Stream) : Stream'[i] = Stream[i]
           /\ \A i \in 1..Len(kinds) : Stream'[Len(Stream) + i] = [session |-> c, kind |-> kinds[i]]
           /\ \A i \in 1..Len(socketEvents) : socketEvents'[i] = socketEvents[i]
           /\ \A i \in 1..Len(kinds) :
                socketEvents'[Len(socketEvents) + i] = [session |-> c, kind |-> kinds[i]]
<1> DEFINE batch == [i \in DOMAIN kinds |-> [session |-> c, kind |-> kinds[i]]]
           q == Len(socketEvents)
           k == Len(kinds)
<1>1. DOMAIN kinds = 1..k /\ k \in Nat
  BY LenProperties
<1>2. \A i \in 1..k : kinds[i] \in EventKinds
  BY ElementOfSeq
<1>3. batch \in [1..k -> SocketEvent]
  BY <1>1, <1>2 DEF SocketEvent
<1>4. batch \in Seq(SocketEvent) /\ Len(batch) = k /\ \A i \in 1..k : batch[i] = [session |-> c, kind |-> kinds[i]]
  <2>1. batch \in Seq(SocketEvent)
    BY <1>1, <1>3, SeqDef
  <2>2. DOMAIN batch = 1..k /\ DOMAIN batch = 1..Len(batch) /\ Len(batch) \in Nat
    BY <1>1, <2>1, LenProperties
  <2>3. Len(batch) = k
    BY <1>1, <2>2
  <2> QED
    BY <1>1, <2>1, <2>3
<1>5. socketEvents \in Seq(SocketEvent) /\ q \in Nat /\ events \in Seq(SocketEvent) /\ Len(events) \in Nat
  BY LenProperties DEF EventsTyped
<1>6. socketEvents' = socketEvents \o batch
  BY DEF Emit
<1> HIDE DEF batch
<1>7. /\ Len(socketEvents \o batch) = q + k
      /\ \A i \in 1..(q + k) : (socketEvents \o batch)[i] = IF i <= q THEN socketEvents[i] ELSE batch[i - q]
  <2>1. /\ Len(socketEvents \o batch) = Len(socketEvents) + Len(batch)
        /\ \A i \in 1..(Len(socketEvents) + Len(batch)) : (socketEvents \o batch)[i] =
             IF i <= Len(socketEvents) THEN socketEvents[i] ELSE batch[i - Len(socketEvents)]
    <3>1. batch \in Seq(SocketEvent) /\ socketEvents \in Seq(SocketEvent)
      BY <1>4, <1>5
    <3> QED
      BY <3>1, ConcatProperties, Zenon
  <2> QED
    BY <1>4, <2>1
<1>8. /\ Len(Stream \o batch) = Len(Stream) + k
      /\ \A i \in 1..(Len(Stream) + k) :
            (Stream \o batch)[i] = IF i <= Len(Stream) THEN Stream[i] ELSE batch[i - Len(Stream)]
  <2>1. Stream \in Seq(SocketEvent)
    BY StreamItems
  <2>2. /\ Len(Stream \o batch) = Len(Stream) + Len(batch)
        /\ \A i \in 1..(Len(Stream) + Len(batch)) : (Stream \o batch)[i] =
             IF i <= Len(Stream) THEN Stream[i] ELSE batch[i - Len(Stream)]
    <3>1. batch \in Seq(SocketEvent)
      BY <1>4
    <3> QED
      BY <2>1, <3>1, ConcatProperties, Zenon
  <2> QED
    BY <1>4, <2>2
<1>9. Stream' = Stream \o batch
  <2>1. Stream' = events \o (socketEvents \o batch)
    BY <1>6 DEF Stream
  <2>2. (events \o socketEvents) \o batch = events \o (socketEvents \o batch)
    BY <1>4, <1>5, ConcatAssociative
  <2> QED
    BY <2>1, <2>2 DEF Stream
<1>10. Len(Stream) \in Nat
  BY <1>5, StreamItems
<1> HIDE DEF q, k
<1>11. ASSUME NEW i \in 1..k
       PROVE  Stream'[Len(Stream) + i] = [session |-> c, kind |-> kinds[i]]
  <2>1. Len(Stream) + i \in 1..(Len(Stream) + k) /\ ~(Len(Stream) + i <= Len(Stream))
        /\ (Len(Stream) + i) - Len(Stream) = i
    BY <1>1, <1>10
  <2> QED
    BY <1>4, <1>8, <1>9, <2>1
<1>12. ASSUME NEW i \in 1..k
       PROVE  socketEvents'[q + i] = [session |-> c, kind |-> kinds[i]]
  <2>1. q + i \in 1..(q + k) /\ ~(q + i <= q) /\ (q + i) - q = i
    BY <1>1, <1>5
  <2> QED
    BY <1>4, <1>6, <1>7, <2>1
<1>13. \A i \in 1..Len(Stream) : Stream'[i] = Stream[i]
  BY <1>1, <1>8, <1>9, <1>10
<1>14. \A i \in 1..q : socketEvents'[i] = socketEvents[i]
  BY <1>1, <1>5, <1>6, <1>7
<1> QED
  BY <1>1, <1>5, <1>6, <1>7, <1>8, <1>9, <1>10, <1>11, <1>12, <1>13, <1>14 DEF q, k

\* A rendering moves events from the way to the list, and the list may lose the oldest.
LEMMA FlushStream ==
    ASSUME EventsTyped, FlushFrame
    PROVE  /\ events' # <<>> /\ \E i \in 1..Len(socketEvents) : Last(events') = socketEvents[i]
           /\ \E k \in 0..Len(Stream) :
                /\ Len(Stream') = Len(Stream) - k
                /\ \A i \in 1..(Len(Stream) - k) : Stream'[i] = Stream[i + k]
           /\ \E n \in 0..Len(socketEvents) :
                /\ Len(socketEvents') = Len(socketEvents) - n
                /\ \A i \in 1..(Len(socketEvents) - n) : socketEvents'[i] = socketEvents[i + n]
<1> DEFINE p == Len(events)
           q == Len(socketEvents)
<1>1. PICK n \in 1..q :
        /\ socketEvents' = SubSeq(socketEvents, n + 1, q)
        /\ events' = Bounded(events \o SubSeq(socketEvents, 1, n))
  BY DEF FlushFrame
<1>2. events \in Seq(SocketEvent) /\ socketEvents \in Seq(SocketEvent) /\ p \in Nat /\ q \in Nat
  BY LenProperties DEF EventsTyped
<1> DEFINE head == SubSeq(socketEvents, 1, n)
           tail == SubSeq(socketEvents, n + 1, q)
           list == events \o head
<1>3. /\ head \in Seq(SocketEvent) /\ Len(head) = n /\ \A i \in 1..n : head[i] = socketEvents[i]
  <2>1. \A i \in 1..n : socketEvents[i] \in SocketEvent
    BY <1>2, ElementOfSeq
  <2> QED
    BY <1>2, <2>1, SubSeqProperties
<1>4. /\ tail \in Seq(SocketEvent) /\ Len(tail) = q - n /\ \A i \in 1..(q - n) : tail[i] = socketEvents[i + n]
  <2>1. \A i \in (n + 1)..q : socketEvents[i] \in SocketEvent
    BY <1>2, ElementOfSeq
  <2>2. Len(tail) = IF n + 1 <= q THEN q - (n + 1) + 1 ELSE 0
    BY <1>2, <2>1, SubSeqProperties
  <2>3. /\ tail \in Seq(SocketEvent)
        /\ \A i \in 1..(q - (n + 1) + 1) : tail[i] = socketEvents[(n + 1) + i - 1]
    BY <1>2, <2>1, SubSeqProperties
  <2> HIDE DEF tail
  <2>4. \A i \in 1..(q - n) : i \in 1..(q - (n + 1) + 1) /\ (n + 1) + i - 1 = i + n
    BY <1>2
  <2>5. Len(tail) = q - n
    BY <1>2, <2>2
  <2> QED
    BY <2>3, <2>4, <2>5
<1> HIDE DEF head, tail
<1>5. /\ list \in Seq(SocketEvent) /\ Len(list) = p + n
      /\ \A i \in 1..(p + n) : list[i] = IF i <= p THEN events[i] ELSE head[i - p]
  BY <1>2, <1>3, ConcatProperties
<1>6. list \o tail = Stream
  <2>1. head \o tail = socketEvents
    <3>1. n \in 1-1..q /\ 1 \in 1..q+1 /\ q \in n..q
      BY <1>2
    <3>2. SubSeq(socketEvents, 1, n) \o SubSeq(socketEvents, n+1, q) = SubSeq(socketEvents, 1, q)
      BY <1>2, <3>1, ConcatAdjacentSubSeq
    <3> QED
      BY <1>2, <3>2, SubSeqFull DEF head, tail
  <2>2. (events \o head) \o tail = events \o (head \o tail)
    <3>1. events \in Seq(SocketEvent) /\ head \in Seq(SocketEvent) /\ tail \in Seq(SocketEvent)
      BY <1>2, <1>3, <1>4
    <3> QED
      BY <3>1, ConcatAssociative
  <2> QED
    BY <2>1, <2>2 DEF Stream
<1>7. events' = Bounded(list) /\ socketEvents' = tail
  BY <1>1 DEF head, tail
<1>8. list[p + n] = socketEvents[n] /\ p + n \in Nat /\ p + n >= 1
  <2>1. p + n \in 1..(p + n) /\ ~(p + n <= p) /\ (p + n) - p = n
    BY <1>2
  <2> QED
    BY <1>2, <1>3, <1>5, <2>1
<1> HIDE DEF list
<1> DEFINE k == IF p + n <= MaxEvents THEN 0 ELSE p + n - MaxEvents
<1>9. k \in 0..(p + n) /\ k < p + n
  BY <1>2, WebSocketNumbers
<1>10. /\ Bounded(list) \in Seq(SocketEvent) /\ Len(Bounded(list)) = p + n - k
       /\ \A i \in 1..(p + n - k) : Bounded(list)[i] = list[i + k]
  <2>1. CASE p + n <= MaxEvents
    BY <1>2, <1>5, <2>1 DEF Bounded
  <2>2. CASE ~(p + n <= MaxEvents)
    <3>0. k = p + n - MaxEvents /\ k + 1 = p + n - MaxEvents + 1 /\ Len(list) = p + n
      BY <1>2, <1>5, <2>2, WebSocketNumbers
    <3>12. k \in Nat /\ k + 1 <= p + n
      BY <1>2, <1>9
    <3> HIDE DEF k
    <3>9. ~(Len(list) <= MaxEvents)
      BY <2>2, <3>0
    <3>10. Bounded(list) = SubSeq(list, Len(list) - MaxEvents + 1, Len(list))
      BY <3>9, Zenon DEF Bounded
    <3>11. Len(list) - MaxEvents + 1 = k + 1
      BY <1>2, <3>0, WebSocketNumbers
    <3>1. Bounded(list) = SubSeq(list, k + 1, p + n)
      BY <3>0, <3>10, <3>11
    <3>2. \A i \in (k + 1)..(p + n) : list[i] \in SocketEvent
      BY <1>2, <1>5, <1>9, ElementOfSeq
    <3>3. k \in Nat /\ k + 1 <= p + n
      BY <3>12
    <3>4. /\ SubSeq(list, k + 1, p + n) \in Seq(SocketEvent)
          /\ Len(SubSeq(list, k + 1, p + n)) = (p + n) - (k + 1) + 1
          /\ \A i \in 1..((p + n) - (k + 1) + 1) : SubSeq(list, k + 1, p + n)[i] = list[(k + 1) + i - 1]
      BY <1>2, <3>2, <3>3, SubSeqProperties
    <3>5. (p + n) - (k + 1) + 1 = p + n - k
      BY <1>2, <3>3
    <3>6. \A i \in 1..(p + n - k) : (k + 1) + i - 1 = i + k
      BY <1>2, <3>3
    <3> QED
      BY <3>1, <3>4, <3>5, <3>6
  <2> QED
    BY <2>1, <2>2
<1> HIDE DEF k
<1>11. events' # <<>> /\ Last(events') = socketEvents[n]
  <2>1. Len(events') = p + n - k /\ p + n - k \in 1..(p + n - k) /\ (p + n - k) + k = p + n
    BY <1>2, <1>7, <1>9, <1>10
  <2>2. events'[p + n - k] = list[p + n]
    BY <1>7, <1>10, <2>1
  <2> QED
    BY <1>8, <2>1, <2>2, EmptySeq DEF Last
<1>12. /\ Len(Stream) = p + q
       /\ \A i \in 1..(p + q) : Stream[i] = IF i <= p + n THEN list[i] ELSE tail[i - (p + n)]
  <2>1. /\ Len(list \o tail) = (p + n) + (q - n)
        /\ \A i \in 1..((p + n) + (q - n)) :
              (list \o tail)[i] = IF i <= p + n THEN list[i] ELSE tail[i - (p + n)]
    <3>1. /\ Len(list \o tail) = Len(list) + Len(tail)
          /\ \A i \in 1..(Len(list) + Len(tail)) : (list \o tail)[i] =
               IF i <= Len(list) THEN list[i] ELSE tail[i - Len(list)]
      BY <1>4, <1>5, ConcatProperties
    <3> QED
      BY <1>4, <1>5, <3>1
  <2>2. (p + n) + (q - n) = p + q
    BY <1>2
  <2> QED
    BY <1>6, <2>1, <2>2
<1>13. /\ Len(Stream') = (p + n - k) + (q - n)
       /\ \A i \in 1..((p + n - k) + (q - n)) :
             Stream'[i] = IF i <= p + n - k THEN list[i + k] ELSE tail[i - (p + n - k)]
  <2>1. Stream' = Bounded(list) \o tail
    BY <1>7 DEF Stream
  <2>2. /\ Len(Bounded(list) \o tail) = (p + n - k) + (q - n)
        /\ \A i \in 1..((p + n - k) + (q - n)) :
              (Bounded(list) \o tail)[i] = IF i <= p + n - k THEN Bounded(list)[i] ELSE tail[i - (p + n - k)]
    BY <1>4, <1>10, ConcatProperties
  <2>3. \A i \in 1..((p + n - k) + (q - n)) : i <= p + n - k => Bounded(list)[i] = list[i + k]
    BY <1>2, <1>9, <1>10
  <2> QED
    BY <2>1, <2>2, <2>3
<1>14. (p + n - k) + (q - n) = p + q - k /\ k \in 0..(p + q)
  BY <1>2, <1>9
<1>15. \A i \in 1..(p + q - k) : Stream'[i] = Stream[i + k]
  <2> SUFFICES ASSUME NEW i \in 1..(p + q - k) PROVE Stream'[i] = Stream[i + k]
    OBVIOUS
  <2>1. /\ i + k \in 1..(p + q) /\ (i + k <= p + n <=> i <= p + n - k)
        /\ (i + k) - (p + n) = i - (p + n - k)
    BY <1>2, <1>9, <1>14
  <2>2. Stream[i + k] = IF i + k <= p + n THEN list[i + k] ELSE tail[(i + k) - (p + n)]
    BY <1>12, <2>1
  <2>3. Stream'[i] = IF i <= p + n - k THEN list[i + k] ELSE tail[i - (p + n - k)]
    BY <1>13, <1>14
  <2> QED
    BY <2>1, <2>2, <2>3
<1>16. n \in 0..q /\ Len(socketEvents') = q - n /\ \A i \in 1..(q - n) : socketEvents'[i] = socketEvents[i + n]
  BY <1>2, <1>4, <1>7
<1>17. \E i \in 1..q : Last(events') = socketEvents[i]
  BY <1>11
<1>18. /\ k \in 0..Len(Stream) /\ Len(Stream') = Len(Stream) - k
       /\ \A i \in 1..(Len(Stream) - k) : Stream'[i] = Stream[i + k]
  BY <1>12, <1>13, <1>14, <1>15
<1> HIDE DEF p
<1> QED
  BY <1>11, <1>16, <1>17, <1>18
\* What is in a sequence of events.
LEMMA EventItems ==
    ASSUME NEW list \in Seq(SocketEvent)
    PROVE  /\ Len(list) \in Nat
           /\ \A i \in 1..Len(list) :
                list[i] \in SocketEvent /\ list[i].session \in Connections /\ list[i].kind \in EventKinds
<1>1. \A i \in 1..Len(list) : list[i] \in SocketEvent
  BY ElementOfSeq
<1>2. \A e \in SocketEvent : e.session \in Connections /\ e.kind \in EventKinds
  BY DEF SocketEvent
<1> QED
  BY <1>1, <1>2, LenProperties

\* What a sequence says of a session is what its last event of the session says.
LEMMA PhaseIsOfLast ==
    ASSUME NEW list \in Seq(SocketEvent), NEW c \in Connections
    PROVE  \/ /\ PhaseOfEvents(c, list) = "disconnected"
              /\ \A i \in 1..Len(list) : list[i].session # c
           \/ \E i \in 1..Len(list) :
                /\ list[i].session = c /\ \A j \in 1..Len(list) : list[j].session = c => j <= i
                /\ PhaseOfEvents(c, list) = IF list[i].kind = "message" THEN "open" ELSE list[i].kind
<1> DEFINE own == {i \in DOMAIN list : list[i].session = c}
<1>1. DOMAIN list = 1..Len(list) /\ Len(list) \in Nat
  BY LenProperties
<1>2. own \in SUBSET Nat /\ own \subseteq 1..Len(list)
  BY <1>1
<1>3. IsFiniteSet(own)
  <2>1. IsFiniteSet(1..Len(list))
    BY <1>1, FS_Interval
  <2> HIDE DEF own
  <2> QED
    BY <1>2, <2>1, FS_Subset
<1>4. CASE own = {}
  BY <1>1, <1>4 DEF PhaseOfEvents
<1>5. CASE own # {}
  <2>1. Max(own) \in own /\ \A j \in own : j <= Max(own)
    BY <1>2, <1>3, <1>5, FiniteMaximum
  <2>2. PhaseOfEvents(c, list) =
          IF list[Max(own)].kind = "message" THEN "open" ELSE list[Max(own)].kind
    BY <1>5 DEF PhaseOfEvents
  <2>3. list[Max(own)].session = c /\ \A j \in 1..Len(list) : list[j].session = c => j <= Max(own)
    BY <1>1, <2>1
  <2>4. Max(own) \in 1..Len(list)
    BY <1>2, <2>1
  <2> HIDE DEF own
  <2> QED
    BY <2>2, <2>3, <2>4
<1> QED
  BY <1>4, <1>5

\* A session that is on its way or open has told of no end.
LEMMA NoEndIsTold ==
    ASSUME WebSocketTyped, StreamFits, NEW c \in Connections, stage[c] \in {"opening", "open"}
    PROVE  PhaseOfEvents(c, events) \notin {"closed", "error"}
<1>1. EventsTyped /\ events \in Seq(SocketEvent)
  BY DEF WebSocketTyped, EventsTyped
<1>2. ASSUME NEW i \in 1..Len(events), events[i].session = c
      PROVE  events[i].kind \notin {"closed", "error"}
  <2>1. i \in 1..Len(Stream) /\ Stream[i] = events[i]
    BY <1>1, StreamItems
  <2> QED
    BY <1>2, <2>1 DEF StreamFits, Fits
<1> QED
  BY <1>1, <1>2, PhaseIsOfLast

\* An open session that nobody shuts down is shown, and as open, once no command is
\* under way.
LEMMA OpenIsShown ==
    ASSUME WebSocketTyped, StreamInv, CommandInv, pending = NoAction,
           NEW c \in Connections, Unsignalled(c)
    PROVE  shown /\ ActiveSession = c /\ Phase = "open"
<1>1. /\ shown /\ preferred = c /\ fallback = c /\ disconnectedBy # c /\ ~connectFailed
      /\ pending.action = "none" /\ stage[c] = "open" /\ c # Nobody
  BY WebSocketNumbers DEF CommandInv, OpenIsAnswered, Answered, NoAction, Unsignalled
<1>2. ActiveSession = c
  BY <1>1 DEF ActiveSession, ActiveOf, FirstOf
<1>3. PhaseOfEvents(c, events) \notin {"closed", "error"}
  BY <1>1, NoEndIsTold DEF StreamInv
<1>4. PhaseOfEvents(c, events) \in {"disconnected", "open", "connecting", "error", "closed"}
  <2>1. events \in Seq(SocketEvent)
    BY DEF WebSocketTyped, EventsTyped
  <2>2. \A i \in 1..Len(events) : events[i].kind \in EventKinds
    BY <2>1, EventItems
  <2> QED
    BY <2>1, <2>2, PhaseIsOfLast DEF EventKinds
<1>5. Phase = "open"
  BY <1>1, <1>2, <1>3, <1>4 DEF Phase, FallbackCounts
<1> QED
  BY <1>1, <1>2, <1>5

--------------------------------------------------------------------------------
(* The stream.                                                              *)

\* How a session's stage goes on, as far as its events tell.
Onward(before, after) == \A e \in SocketEvent : Fits(e, before) => Fits(e, after)

\* A session goes on and tells of it.
LEMMA StreamTells ==
    ASSUME WebSocketTyped, WebSocketTyped', StreamInv,
           NEW c \in Connections, NEW kinds \in Seq(EventKinds), NEW where \in Stages,
           Emit(c, kinds), events' = events, stage' = [stage EXCEPT ![c] = where],
           stage[c] \in {"confirming", "opening", "open", "finishing"},
           Onward(stage[c], where), where # "none",
           \A i \in 1..Len(kinds) : Fits([session |-> c, kind |-> kinds[i]], where),
           \A i, j \in 1..Len(kinds) : i < j => kinds[i] # "closed",
           \A i \in 1..Len(kinds) : kinds[i] = "connecting" => Newest(c)
    PROVE  StreamInv'
<1>1. EventsTyped /\ EventsTyped' /\ stage \in [Connections -> Stages]
  BY DEF WebSocketTyped, BackendTyped
<1> DEFINE n == Len(Stream)
           k == Len(kinds)
           q == Len(socketEvents)
<1>2. /\ Len(Stream') = n + k /\ n \in Nat /\ k \in Nat /\ Len(socketEvents') = q + k /\ q \in Nat
      /\ \A i \in 1..n : Stream'[i] = Stream[i]
      /\ \A i \in 1..k : Stream'[n + i] = [session |-> c, kind |-> kinds[i]]
      /\ \A i \in 1..q : socketEvents'[i] = socketEvents[i]
      /\ \A i \in 1..k : socketEvents'[q + i] = [session |-> c, kind |-> kinds[i]]
  BY <1>1, EmitStream
<1>3. \A i \in 1..n : Stream[i] \in SocketEvent /\ Stream[i].session \in Connections
  BY <1>1, StreamItems
<1>4. \A d \in Connections : stage'[d] = IF d = c THEN where ELSE stage[d]
  BY <1>1
<1>5. \A i \in 1..n : Fits(Stream[i], stage[Stream[i].session])
  BY DEF StreamInv, StreamFits
<1>6. \A i, j \in 1..n : i < j /\ Stream[i].kind = "closed" => Stream[j].session # Stream[i].session
  BY DEF StreamInv, ClosedIsLast
<1>7. \A i \in 1..q : socketEvents[i].kind = "connecting" => Newest(socketEvents[i].session)
  BY DEF StreamInv, BeginningsAreNewest
<1>8. \A d \in Connections : Newest(d) => Newest(d)'
  BY <1>4 DEF Newest
<1>9. \A i \in 1..q : socketEvents[i].session \in Connections
  <2>1. socketEvents \in Seq(SocketEvent)
    BY <1>1 DEF EventsTyped
  <2> QED
    BY <2>1, EventItems
<1> HIDE DEF n, k, q
<1>10. \A i \in 1..(n + k) : i \in 1..n \/ (i - n \in 1..k /\ n + (i - n) = i)
  BY <1>2
<1>11. \A i \in 1..(q + k) : i \in 1..q \/ (i - q \in 1..k /\ q + (i - q) = i)
  BY <1>2
<1>12. \A i \in 1..(n + k) :
         \/ i \in 1..n /\ Stream'[i] = Stream[i]
         \/ i - n \in 1..k /\ Stream'[i] = [session |-> c, kind |-> kinds[i - n]]
  BY <1>2, <1>10
<1>13. StreamFits'
  <2> SUFFICES ASSUME NEW i \in 1..(n + k) PROVE Fits(Stream'[i], stage'[Stream'[i].session])
    BY <1>2 DEF StreamFits, n
  <2>1. CASE i \in 1..n /\ Stream'[i] = Stream[i]
    <3>1. Fits(Stream[i], stage[Stream[i].session]) /\ Stream[i] \in SocketEvent
          /\ Stream[i].session \in Connections
      BY <1>3, <1>5, <2>1
    <3>2. CASE Stream[i].session = c
      BY <1>4, <2>1, <3>1, <3>2 DEF Onward
    <3>3. CASE Stream[i].session # c
      BY <1>4, <2>1, <3>1, <3>3
    <3> QED
      BY <3>2, <3>3
  <2>2. CASE i - n \in 1..k /\ Stream'[i] = [session |-> c, kind |-> kinds[i - n]]
    <3>1. Fits([session |-> c, kind |-> kinds[i - n]], where)
      BY <2>2 DEF k
    <3>2. Stream'[i].session = c /\ stage'[c] = where
      BY <1>4, <2>2
    <3> QED
      BY <2>2, <3>1, <3>2
  <2> QED
    BY <1>12, <2>1, <2>2
<1>14. ClosedIsLast'
  <2> SUFFICES ASSUME NEW i \in 1..(n + k), NEW j \in 1..(n + k), i < j, Stream'[i].kind = "closed"
               PROVE  Stream'[j].session # Stream'[i].session
    BY <1>2 DEF ClosedIsLast, n
  <2>1. CASE i \in 1..n /\ Stream'[i] = Stream[i]
    <3>1. Stream[i].kind = "closed" /\ Fits(Stream[i], stage[Stream[i].session])
      BY <1>5, <2>1
    <3>2. Stream[i].session # c
      BY <3>1 DEF Fits
    <3>3. CASE j \in 1..n /\ Stream'[j] = Stream[j]
      BY <1>6, <2>1, <3>1, <3>3
    <3>4. CASE j - n \in 1..k /\ Stream'[j] = [session |-> c, kind |-> kinds[j - n]]
      BY <2>1, <3>2, <3>4
    <3> QED
      BY <1>12, <3>3, <3>4
  <2>2. CASE i - n \in 1..k /\ Stream'[i] = [session |-> c, kind |-> kinds[i - n]]
    <3>1. kinds[i - n] = "closed"
      BY <2>2
    <3>2. j - n \in 1..k /\ i - n < j - n
      BY <1>2, <2>2
    <3> QED
      BY <2>2, <3>1, <3>2 DEF k
  <2> QED
    BY <1>12, <2>1, <2>2
<1>15. BeginningsAreNewest'
  <2> SUFFICES ASSUME NEW i \in 1..(q + k), socketEvents'[i].kind = "connecting"
               PROVE  \A d \in Connections : socketEvents'[i].session < d => stage'[d] = "none"
    BY <1>2 DEF BeginningsAreNewest, Newest
  <2>1. CASE i \in 1..q
    BY <1>2, <1>7, <1>8, <1>9, <2>1 DEF Newest
  <2>2. CASE i - q \in 1..k /\ q + (i - q) = i
    <3>1. socketEvents'[i] = [session |-> c, kind |-> kinds[i - q]]
      BY <1>2, <2>2
    <3>2. Newest(c)
      BY <2>2, <3>1 DEF k
    <3> QED
      BY <1>8, <3>1, <3>2 DEF Newest
  <2> QED
    BY <1>11, <2>1, <2>2
<1> QED
  BY <1>13, <1>14, <1>15 DEF StreamInv

\* Sessions go on and nothing is told.
LEMMA StreamRests ==
    ASSUME WebSocketTyped, StreamInv, UNCHANGED <<events, socketEvents>>,
           \A d \in Connections : Onward(stage[d], stage'[d]),
           BeginningsAreTold \/ (\A d \in Connections : Newest(d) => Newest(d)')
    PROVE  StreamInv'
<1>1. EventsTyped /\ Stream' = Stream
  BY DEF WebSocketTyped, Stream
<1>2. \A i \in 1..Len(Stream) : Stream[i] \in SocketEvent /\ Stream[i].session \in Connections
  BY <1>1, StreamItems
<1>3. socketEvents \in Seq(SocketEvent) /\ DOMAIN socketEvents = 1..Len(socketEvents)
  BY <1>1, LenProperties DEF EventsTyped
<1>4. \A i \in 1..Len(socketEvents) : socketEvents[i].session \in Connections
  BY <1>3, EventItems
<1>5. StreamFits'
  BY <1>1, <1>2 DEF StreamInv, StreamFits, Onward
<1>6. ClosedIsLast'
  BY <1>1 DEF StreamInv, ClosedIsLast
<1>7. BeginningsAreNewest'
  BY <1>3, <1>4 DEF StreamInv, BeginningsAreNewest, BeginningsAreTold, Newest
<1> QED
  BY <1>5, <1>6, <1>7 DEF StreamInv

\* A rendering.
LEMMA StreamFlushes ==
    ASSUME WebSocketTyped, StreamInv, FlushFrame
    PROVE  StreamInv'
<1>1. EventsTyped /\ Len(Stream) \in Nat /\ Len(socketEvents) \in Nat
  BY StreamItems DEF WebSocketTyped
<1>2. PICK k \in 0..Len(Stream) :
        /\ Len(Stream') = Len(Stream) - k
        /\ \A i \in 1..(Len(Stream) - k) : Stream'[i] = Stream[i + k]
  BY <1>1, FlushStream
<1>3. PICK m \in 0..Len(socketEvents) :
        /\ Len(socketEvents') = Len(socketEvents) - m
        /\ \A i \in 1..(Len(socketEvents) - m) : socketEvents'[i] = socketEvents[i + m]
  BY <1>1, FlushStream
<1>4. stage' = stage
  BY DEF FlushFrame, backendVars
<1>5. \A i \in 1..(Len(Stream) - k) : i + k \in 1..Len(Stream)
  BY <1>1
<1>6. \A i \in 1..(Len(socketEvents) - m) : i + m \in 1..Len(socketEvents)
  BY <1>1
<1>7. StreamFits'
  BY <1>2, <1>4, <1>5 DEF StreamInv, StreamFits
<1>8. ClosedIsLast'
  <2>0. k \in Nat /\ \A i \in 1..(Len(Stream) - k) : i \in Nat
    BY <1>1
  <2>1. \A i, j \in Nat : i < j => i + k < j + k
    BY <2>0
  <2>2. \A i, j \in 1..(Len(Stream) - k) : i < j => i + k < j + k
    BY <2>0, <2>1
  <2>3. \A i, j \in 1..Len(Stream) : i < j /\ Stream[i].kind = "closed" =>
          Stream[j].session # Stream[i].session
    BY DEF StreamInv, ClosedIsLast
  <2>4. \A i, j \in 1..(Len(Stream) - k) : i < j /\ Stream[i + k].kind = "closed" =>
          Stream[j + k].session # Stream[i + k].session
    BY <1>5, <2>2, <2>3
  <2> DEFINE rest == 1..(Len(Stream) - k)
  <2>5. \A i \in rest : Stream'[i] = Stream[i + k]
    BY <1>2
  <2>6. \A i, j \in rest : i < j /\ Stream'[i].kind = "closed" => Stream'[j].session # Stream'[i].session
    <3> SUFFICES ASSUME NEW i \in rest, NEW j \in rest, i < j, Stream'[i].kind = "closed"
                 PROVE  Stream'[j].session # Stream'[i].session
      OBVIOUS
    <3>1. Stream'[i] = Stream[i + k] /\ Stream'[j] = Stream[j + k]
      BY <2>5
    <3> QED
      BY <2>4, <3>1
  <2>7. rest = 1..Len(Stream')
    BY <1>2
  <2> HIDE DEF rest
  <2> QED
    BY <2>6, <2>7 DEF ClosedIsLast
<1>9. BeginningsAreNewest'
  BY <1>3, <1>4, <1>6 DEF StreamInv, BeginningsAreNewest, Newest
<1> QED
  BY <1>7, <1>8, <1>9 DEF StreamInv
--------------------------------------------------------------------------------
(* The commands.                                                            *)

\* What the commands and the console's choices are about.
commandVars == <<stage, sessions, signalled, shown, pending, choiceVars>>

LEMMA CommandsRest == CommandInv /\ UNCHANGED commandVars => CommandInv'
BY DEF commandVars, choiceVars, CommandInv, InOrder, MakingIsAwaited, Newest, AnswersAreOwn, Opened,
       Unsignalled, ChoicesAreReal, OpenIsAnswered, Answered

\* No command is under way, so no connection is in the making.
LEMMA NothingInTheMaking ==
    ASSUME MakingIsAwaited, pending.action # "connect"
    PROVE  \A c \in Connections : stage[c] \notin {"confirming", "opening"}
<1> SUFFICES ASSUME NEW c \in Connections, stage[c] \in {"confirming", "opening"} PROVE FALSE
  OBVIOUS
<1>1. pending = [action |-> "connect", session |-> c, outcome |-> "none"]
  BY DEF MakingIsAwaited
<1> QED
  BY <1>1

LEMMA ConnectKeepsCommands ==
    ASSUME WebSocketTyped, WebSocketTyped', StreamInv, CommandInv, NEW c \in Connections, Connect(c)
    PROVE  CommandInv'
<1>1. /\ shown /\ pending = NoAction /\ Phase \notin {"connecting", "open"} /\ stage[c] = "none"
      /\ \A p \in Connections : p < c => stage[p] # "none"
      /\ UNCHANGED <<sessions, signalled, shown, preferred, disconnectedBy>>
  BY DEF Connect, CanConnect
<1>2. PICK where \in {"confirming", "over"} :
        /\ stage' = [stage EXCEPT ![c] = where]
        /\ pending' = [action |-> "connect", session |-> c,
                       outcome |-> IF where = "over" THEN "failed" ELSE "none"]
  BY DEF Connect, Enter
<1>3. fallback' \in {fallback, Nobody}
  BY DEF Connect, EndForgotten
<1>4. \A d \in Connections : ~Unsignalled(d)
  BY <1>1, OpenIsShown
<1>5. \A d \in Connections : stage[d] \notin {"confirming", "opening"}
  BY <1>1, NothingInTheMaking DEF CommandInv, NoAction
<1>6. /\ stage'[c] = where /\ \A d \in Connections \ {c} : stage'[d] = stage[d]
  BY <1>2 DEF WebSocketTyped, BackendTyped
<1>7. {preferred, fallback, disconnectedBy} \subseteq 0..MaxConnects
      /\ \A d \in 0..MaxConnects : d # Nobody => d \in Connections
  BY WebSocketNumbers DEF WebSocketTyped, ChoiceTyped
<1>8. Connections \subseteq Nat
  BY DEF Connections
<1>9. InOrder'
  BY <1>1, <1>6, <1>8 DEF CommandInv, InOrder
<1>10. MakingIsAwaited'
  <2>1. Newest(c)'
    <3>1. Newest(c)
      BY <1>1, UnmadeIsNewest DEF CommandInv
    <3> QED
      BY <1>6, <1>8, <3>1 DEF Newest
  <2> SUFFICES ASSUME NEW d \in Connections, stage'[d] \in {"confirming", "opening"}
               PROVE  /\ shown' /\ Newest(d)'
                      /\ pending' = [action |-> "connect", session |-> d, outcome |-> "none"]
    BY DEF MakingIsAwaited
  <2>2. d = c /\ where = "confirming"
    BY <1>5, <1>6
  <2> QED
    BY <1>1, <1>2, <2>1, <2>2
<1>11. AnswersAreOwn'
  BY <1>2 DEF AnswersAreOwn
<1>12. ChoicesAreReal'
  BY <1>1, <1>3, <1>6, <1>7 DEF CommandInv, ChoicesAreReal, Opened, Unsignalled
<1>13. OpenIsAnswered'
  BY <1>1, <1>4, <1>6 DEF OpenIsAnswered, Unsignalled
<1> QED
  BY <1>9, <1>10, <1>11, <1>12, <1>13 DEF CommandInv

\* Declined, or failed to open.
LEMMA FailureKeepsCommands ==
    ASSUME WebSocketTyped, WebSocketTyped', CommandInv, NEW c \in Connections,
           stage[c] \in {"confirming", "opening"}, Enter(c, "over"), AnswerConnect(c, "failed"),
           UNCHANGED <<sessions, signalled, shown, choiceVars>>
    PROVE  CommandInv'
<1>1. /\ shown /\ Newest(c) /\ pending = [action |-> "connect", session |-> c, outcome |-> "none"]
  BY DEF CommandInv, MakingIsAwaited
<1>2. pending' = [action |-> "connect", session |-> c, outcome |-> "failed"]
  BY <1>1 DEF AnswerConnect
<1>3. stage'[c] = "over" /\ \A d \in Connections \ {c} : stage'[d] = stage[d]
  BY DEF Enter, WebSocketTyped, BackendTyped
<1>4. {preferred, fallback, disconnectedBy} \subseteq 0..MaxConnects
      /\ \A d \in 0..MaxConnects : d # Nobody => d \in Connections
  BY WebSocketNumbers DEF WebSocketTyped, ChoiceTyped
<1>5. \A d \in Connections \ {c} : stage[d] \notin {"confirming", "opening"}
  <2> SUFFICES ASSUME NEW d \in Connections \ {c}, stage[d] \in {"confirming", "opening"} PROVE FALSE
    OBVIOUS
  <2>1. pending = [action |-> "connect", session |-> d, outcome |-> "none"]
    BY DEF CommandInv, MakingIsAwaited
  <2> QED
    BY <1>1, <2>1
<1>6. \A d \in Connections : ~Unsignalled(d)
  BY <1>1 DEF CommandInv, OpenIsAnswered, Answered
<1>7. InOrder'
  BY <1>3 DEF CommandInv, InOrder
<1>8. MakingIsAwaited'
  BY <1>3, <1>5 DEF MakingIsAwaited
<1>9. AnswersAreOwn'
  BY <1>2 DEF AnswersAreOwn
<1>10. ChoicesAreReal'
  BY <1>3, <1>4 DEF choiceVars, CommandInv, ChoicesAreReal, Opened, Unsignalled
<1>11. OpenIsAnswered'
  BY <1>3, <1>6 DEF OpenIsAnswered, Unsignalled
<1> QED
  BY <1>7, <1>8, <1>9, <1>10, <1>11 DEF CommandInv

LEMMA ApprovalKeepsCommands ==
    ASSUME WebSocketTyped, WebSocketTyped', CommandInv, NEW c \in Connections, ConnectApproved(c)
    PROVE  CommandInv'
<1>0. /\ stage[c] = "confirming" /\ stage' = [stage EXCEPT ![c] = "opening"]
      /\ UNCHANGED <<sessions, signalled, shown, pending, choiceVars>>
  BY DEF ConnectApproved, Enter
<1>1. /\ shown /\ Newest(c) /\ pending = [action |-> "connect", session |-> c, outcome |-> "none"]
  BY <1>0 DEF CommandInv, MakingIsAwaited
<1>3. stage'[c] = "opening" /\ \A d \in Connections \ {c} : stage'[d] = stage[d]
  BY <1>0 DEF WebSocketTyped, BackendTyped
<1>4. {preferred, fallback, disconnectedBy} \subseteq 0..MaxConnects
      /\ \A d \in 0..MaxConnects : d # Nobody => d \in Connections
  BY WebSocketNumbers DEF WebSocketTyped, ChoiceTyped
<1>5. \A d \in Connections : Newest(d) => Newest(d)'
  BY <1>0, <1>3 DEF Newest
<1>6. \A d \in Connections : ~Unsignalled(d)
  BY <1>1 DEF CommandInv, OpenIsAnswered, Answered
<1>7. InOrder'
  BY <1>0, <1>3 DEF CommandInv, InOrder
<1>8. MakingIsAwaited'
  BY <1>0, <1>1, <1>3, <1>5 DEF CommandInv, MakingIsAwaited
<1>9. AnswersAreOwn'
  BY <1>0, <1>1 DEF AnswersAreOwn
<1>10. ChoicesAreReal'
  BY <1>0, <1>3, <1>4 DEF choiceVars, CommandInv, ChoicesAreReal, Opened, Unsignalled
<1>11. OpenIsAnswered'
  BY <1>0, <1>3, <1>6 DEF OpenIsAnswered, Unsignalled
<1> QED
  BY <1>7, <1>8, <1>9, <1>10, <1>11 DEF CommandInv

LEMMA OpeningKeepsCommands ==
    ASSUME WebSocketTyped, WebSocketTyped', CommandInv, NEW c \in Connections, OpenSocket(c)
    PROVE  CommandInv'
<1>0. /\ stage[c] = "opening" /\ stage' = [stage EXCEPT ![c] = "open"]
      /\ sessions' = sessions \cup {c} /\ UNCHANGED <<signalled, shown, choiceVars>>
      /\ AnswerConnect(c, "done")
  BY DEF OpenSocket, Enter
<1>1. /\ shown /\ Newest(c) /\ pending = [action |-> "connect", session |-> c, outcome |-> "none"]
  BY <1>0 DEF CommandInv, MakingIsAwaited
<1>2. pending' = [action |-> "connect", session |-> c, outcome |-> "done"]
  BY <1>0, <1>1 DEF AnswerConnect
<1>3. stage'[c] = "open" /\ \A d \in Connections \ {c} : stage'[d] = stage[d]
  BY <1>0 DEF WebSocketTyped, BackendTyped
<1>4. {preferred, fallback, disconnectedBy} \subseteq 0..MaxConnects
      /\ \A d \in 0..MaxConnects : d # Nobody => d \in Connections
  BY WebSocketNumbers DEF WebSocketTyped, ChoiceTyped
<1>5. Newest(c)'
  BY <1>0, <1>1, <1>3 DEF Newest
<1>6. \A d \in Connections : ~Unsignalled(d)
  BY <1>1 DEF CommandInv, OpenIsAnswered, Answered
<1>7. InOrder'
  BY <1>0, <1>3 DEF CommandInv, InOrder
<1>8. MakingIsAwaited'
  <2>1. \A d \in Connections \ {c} : stage[d] \notin {"confirming", "opening"}
    <3> SUFFICES ASSUME NEW d \in Connections \ {c}, stage[d] \in {"confirming", "opening"} PROVE FALSE
      OBVIOUS
    <3>1. pending = [action |-> "connect", session |-> d, outcome |-> "none"]
      BY DEF CommandInv, MakingIsAwaited
    <3> QED
      BY <1>1, <3>1
  <2> QED
    BY <1>3, <2>1 DEF MakingIsAwaited
<1>9. AnswersAreOwn'
  BY <1>2, <1>3 DEF AnswersAreOwn, Opened
<1>10. ChoicesAreReal'
  BY <1>0, <1>3, <1>4 DEF choiceVars, CommandInv, ChoicesAreReal, Opened, Unsignalled
<1>11. OpenIsAnswered'
  <2>1. \A d \in Connections : Unsignalled(d)' => d = c
    BY <1>0, <1>3, <1>6 DEF Unsignalled
  <2>2. Answered(c)'
    BY <1>2 DEF Answered
  <2> QED
    BY <1>0, <1>1, <1>5, <2>1, <2>2 DEF OpenIsAnswered
<1> QED
  BY <1>7, <1>8, <1>9, <1>10, <1>11 DEF CommandInv

\* The loop ends, or the task.
LEMMA EndKeepsCommands ==
    ASSUME WebSocketTyped, WebSocketTyped', CommandInv, NEW c \in Connections,
           NEW where \in {"finishing", "over"}, stage[c] \in {"open", "finishing"}, Enter(c, where),
           sessions' \in {sessions, sessions \ {c}},
           UNCHANGED <<signalled, shown, pending, choiceVars>>
    PROVE  CommandInv'
<1>3. stage'[c] = where /\ \A d \in Connections \ {c} : stage'[d] = stage[d]
  BY DEF Enter, WebSocketTyped, BackendTyped
<1>4. {preferred, fallback, disconnectedBy} \subseteq 0..MaxConnects
      /\ \A d \in 0..MaxConnects : d # Nobody => d \in Connections
  BY WebSocketNumbers DEF WebSocketTyped, ChoiceTyped
<1>5. \A d \in Connections : Newest(d) => Newest(d)'
  BY <1>3 DEF Newest
<1>6. \A d \in Connections : Opened(d) => Opened(d)'
  BY <1>3 DEF Opened
<1>7. \A d \in Connections : Unsignalled(d)' => Unsignalled(d) /\ d # c
  BY <1>3 DEF Unsignalled
<1>8. InOrder'
  BY <1>3 DEF CommandInv, InOrder
<1>9. MakingIsAwaited'
  BY <1>3, <1>5 DEF CommandInv, MakingIsAwaited
<1>10. AnswersAreOwn'
  <2>1. pending.action # "none" => pending.session \in Connections
    BY DEF WebSocketTyped, PendingTyped
  <2> QED
    BY <1>6, <1>7, <2>1 DEF CommandInv, AnswersAreOwn
<1>11. ChoicesAreReal'
  BY <1>3, <1>4, <1>6, <1>7 DEF choiceVars, CommandInv, ChoicesAreReal
<1>12. OpenIsAnswered'
  BY <1>5, <1>7 DEF choiceVars, CommandInv, OpenIsAnswered, Answered
<1> QED
  BY <1>8, <1>9, <1>10, <1>11, <1>12 DEF CommandInv
\* The session of the newest event in the list, and of a beginning on its way.
LEMMA NewestIsReal ==
    ASSUME EventsTyped, StreamFits
    PROVE  /\ \A i \in 1..Len(events) :
                events[i].session \in Connections
                /\ stage[events[i].session] \notin {"none", "confirming"}
           /\ \A i \in 1..Len(socketEvents) :
                socketEvents[i].session \in Connections
                /\ stage[socketEvents[i].session] \notin {"none", "confirming"}
           /\ events # <<>> => Len(events) \in 1..Len(events)
<1>1. \A i \in 1..Len(Stream) : stage[Stream[i].session] \notin {"none", "confirming"}
                                /\ Stream[i].session \in Connections
  BY StreamItems DEF StreamFits, Fits
<1>2. events # <<>> => Len(events) \in 1..Len(events)
  BY EmptySeq DEF EventsTyped
<1>3. \A i \in 1..Len(events) : Stream[i] = events[i] /\ i \in 1..Len(Stream)
  BY StreamItems
<1>4. \A i \in 1..Len(socketEvents) :
        Stream[Len(events) + i] = socketEvents[i] /\ Len(events) + i \in 1..Len(Stream)
  BY StreamItems
<1> QED
  BY <1>1, <1>2, <1>3, <1>4

\* The session the console shows is one that came as far as its first event.
LEMMA ActiveIsReal ==
    ASSUME WebSocketTyped, StreamInv, CommandInv
    PROVE  ActiveSession # Nobody =>
             ActiveSession \in Connections /\ stage[ActiveSession] \notin {"none", "confirming"}
<1>1. NewestSession # Nobody =>
        NewestSession \in Connections /\ stage[NewestSession] \notin {"none", "confirming"}
  BY NewestIsReal DEF WebSocketTyped, StreamInv, NewestSession, Last
<1>2. preferred # Nobody =>
        preferred \in Connections /\ stage[preferred] \notin {"none", "confirming"}
  BY WebSocketNumbers DEF WebSocketTyped, ChoiceTyped, CommandInv, ChoicesAreReal
<1> QED
  BY <1>1, <1>2 DEF ActiveSession, ActiveOf, FirstOf

\* An answer that a connect gave stands while its session is open.
LEMMA OpenIsNotForgotten ==
    ASSUME WebSocketTyped, StreamFits, NEW c \in Connections, stage[c] = "open", NEW a
    PROVE  EndForgotten(c, a, events) = c
BY NoEndIsTold DEF EndForgotten

LEMMA FlushKeepsCommands ==
    ASSUME WebSocketTyped, WebSocketTyped', StreamInv, StreamInv', CommandInv, FlushFrame
    PROVE  CommandInv'
<1>1. UNCHANGED <<stage, sessions, signalled, shown, pending, disconnectedBy, connectFailed>>
  BY DEF FlushFrame, backendVars
<1>2. CASE ~shown
  BY <1>1, <1>2, CommandsRest DEF FlushFrame, commandVars, choiceVars
<1>3. CASE shown
  <2> DEFINE l == Last(events')
  <2>1. preferred' = Preferred(events') /\ fallback' = EndForgotten(fallback, ActiveSession', events')
    BY <1>3 DEF FlushFrame
  <2>2. events' # <<>> /\ \E i \in 1..Len(socketEvents) : l = socketEvents[i]
    BY FlushStream DEF WebSocketTyped
  <2>3. /\ l.session \in Connections /\ stage[l.session] \notin {"none", "confirming"}
        /\ l.kind = "connecting" => Newest(l.session)
    BY <2>2, NewestIsReal DEF WebSocketTyped, StreamInv, BeginningsAreNewest
  <2> HIDE DEF l
  <2>4. preferred' = IF l.kind = "connecting" THEN l.session ELSE preferred
    BY <2>1, <2>2 DEF Preferred, l
  <2>5. fallback' \in {fallback, Nobody}
    BY <2>1 DEF EndForgotten
  <2>6. InOrder'
    BY <1>1 DEF CommandInv, InOrder
  <2>7. MakingIsAwaited'
    BY <1>1 DEF CommandInv, MakingIsAwaited, Newest
  <2>8. AnswersAreOwn'
    BY <1>1 DEF CommandInv, AnswersAreOwn, Opened, Unsignalled
  <2>9. ChoicesAreReal'
    BY <1>1, <2>3, <2>4, <2>5 DEF CommandInv, ChoicesAreReal, Opened, Unsignalled
  <2>10. OpenIsAnswered'
    <3> SUFFICES ASSUME NEW c \in Connections, Unsignalled(c)'
                 PROVE  shown' /\ Newest(c)' /\ c \in sessions' /\ Answered(c)'
      BY DEF OpenIsAnswered
    <3>1. shown /\ Newest(c) /\ c \in sessions /\ Answered(c) /\ stage[c] = "open" /\ stage'[c] = "open"
      BY <1>1 DEF CommandInv, OpenIsAnswered, Unsignalled
    <3>2. shown' /\ Newest(c)' /\ c \in sessions'
      BY <1>1, <3>1 DEF Newest
    <3>3. l.kind = "connecting" => l.session = c
      <4>1. \A d \in Connections : c < d \/ d < c \/ c = d
        BY DEF Connections
      <4> QED
        BY <2>3, <3>1, <4>1 DEF Newest
    <3>4. EndForgotten(c, ActiveSession', events') = c
      <4>1. \A a : EndForgotten(c, a, events') = c
        <5>1. events' \in Seq(SocketEvent) /\ socketEvents' \in Seq(SocketEvent)
              /\ Len(events') \in Nat /\ Len(socketEvents') \in Nat
          BY LenProperties DEF WebSocketTyped, EventsTyped
        <5>2. /\ Len(Stream') = Len(events') + Len(socketEvents')
              /\ \A i \in 1..(Len(events') + Len(socketEvents')) : Stream'[i] =
                   IF i <= Len(events') THEN events'[i] ELSE socketEvents'[i - Len(events')]
          BY <5>1, ConcatProperties DEF Stream
        <5>3. \A i \in 1..Len(events') : Stream'[i] = events'[i] /\ i \in 1..Len(Stream')
          BY <5>1, <5>2
        <5>4. \A i \in 1..Len(events') : events'[i].session = c => events'[i].kind \notin {"closed", "error"}
          BY <3>1, <5>3 DEF StreamInv, StreamFits, Fits
        <5>5. PhaseOfEvents(c, events') \notin {"closed", "error"}
          BY <5>1, <5>4, PhaseIsOfLast
        <5> QED
          BY <5>5 DEF EndForgotten
      <4> QED
        BY <4>1
    <3>5. Answered(c)'
      BY <1>1, <2>1, <2>4, <3>1, <3>3, <3>4 DEF Answered
    <3> QED
      BY <3>2, <3>5
  <2> QED
    BY <2>6, <2>7, <2>8, <2>9, <2>10 DEF CommandInv
<1> QED
  BY <1>2, <1>3

LEMMA ConnectAnswerKeepsCommands ==
    ASSUME WebSocketTyped, WebSocketTyped', StreamInv, CommandInv, ConnectAnswered
    PROVE  CommandInv'
<1> DEFINE done == pending.outcome = "done"
           s == pending.session
<1>1. /\ UNCHANGED <<stage, sessions, signalled, shown, events>>
      /\ pending.action = "connect" /\ pending.outcome # "none" /\ pending' = NoAction
      /\ preferred' = IF done THEN s ELSE preferred
      /\ disconnectedBy' = IF done THEN Nobody ELSE disconnectedBy
      /\ connectFailed' = ~done
  BY DEF ConnectAnswered, backendVars
<1>2. \E a : fallback' = EndForgotten(IF done THEN s ELSE fallback, a, events)
             \/ fallback' = IF done THEN s ELSE fallback
  BY DEF ConnectAnswered
<1>3. fallback' \in {IF done THEN s ELSE fallback, Nobody}
  BY <1>2 DEF EndForgotten
<1>4. s \in Connections /\ s # Nobody
  BY <1>1, WebSocketNumbers DEF WebSocketTyped, PendingTyped
<1>5. done => Opened(s)
  BY <1>1 DEF CommandInv, AnswersAreOwn
<1>6. \A c \in Connections : Unsignalled(c) => done /\ c = s
  BY <1>1 DEF CommandInv, OpenIsAnswered, Answered
<1>7. InOrder'
  BY <1>1 DEF CommandInv, InOrder
<1>8. MakingIsAwaited'
  <2>1. \A c \in Connections : stage[c] \notin {"confirming", "opening"}
    <3> SUFFICES ASSUME NEW c \in Connections, stage[c] \in {"confirming", "opening"} PROVE FALSE
      OBVIOUS
    <3>1. pending = [action |-> "connect", session |-> c, outcome |-> "none"]
      BY DEF CommandInv, MakingIsAwaited
    <3> QED
      BY <1>1, <3>1
  <2> QED
    BY <1>1, <2>1 DEF MakingIsAwaited
<1>9. AnswersAreOwn'
  BY <1>1 DEF AnswersAreOwn, NoAction
<1> HIDE DEF done, s
<1>10. ChoicesAreReal'
  <2>1. Opened(s) => stage[s] \notin {"none", "confirming"}
    BY DEF Opened
  <2> QED
    BY <1>1, <1>3, <1>5, <2>1 DEF CommandInv, ChoicesAreReal, Opened, Unsignalled
<1>11. OpenIsAnswered'
  <2> SUFFICES ASSUME NEW c \in Connections, Unsignalled(c)'
               PROVE  shown' /\ Newest(c)' /\ c \in sessions' /\ Answered(c)'
    BY DEF OpenIsAnswered
  <2>1. Unsignalled(c) /\ stage[c] = "open"
    BY <1>1 DEF Unsignalled
  <2>2. shown' /\ Newest(c)' /\ c \in sessions' /\ done /\ c = s
    BY <1>1, <1>6, <2>1 DEF CommandInv, OpenIsAnswered, Newest
  <2>3. fallback' = c
    BY <1>2, <2>1, <2>2, OpenIsNotForgotten DEF StreamInv
  <2> QED
    BY <1>1, <1>4, <2>2, <2>3 DEF Answered, NoAction
<1> QED
  BY <1>7, <1>8, <1>9, <1>10, <1>11 DEF CommandInv

LEMMA DisconnectKeepsCommands ==
    ASSUME WebSocketTyped, WebSocketTyped', StreamInv, CommandInv, Disconnect
    PROVE  CommandInv'
<1>1. /\ UNCHANGED <<stage, sessions, signalled, shown, choiceVars>> /\ pending = NoAction
      /\ pending' = [action |-> "disconnect", session |-> ActiveSession, outcome |-> "none"]
      /\ ActiveSession # Nobody
  BY DEF Disconnect, CanDisconnect, backendVars
<1>2. \A c \in Connections : stage[c] \notin {"confirming", "opening"}
  BY <1>1, NothingInTheMaking DEF CommandInv, NoAction
<1>3. Opened(ActiveSession)
  <2>1. ActiveSession \in Connections /\ stage[ActiveSession] \in Stages
    BY <1>1, ActiveIsReal DEF WebSocketTyped, BackendTyped
  <2> QED
    BY <1>1, <1>2, <2>1, ActiveIsReal DEF Opened, Stages
<1>4. InOrder' /\ MakingIsAwaited'
  BY <1>1, <1>2 DEF CommandInv, InOrder, MakingIsAwaited
<1>5. AnswersAreOwn'
  BY <1>1, <1>3 DEF AnswersAreOwn, Opened
<1>6. ChoicesAreReal'
  BY <1>1 DEF choiceVars, CommandInv, ChoicesAreReal, Opened, Unsignalled
<1>7. OpenIsAnswered'
  BY <1>1 DEF choiceVars, CommandInv, OpenIsAnswered, Unsignalled, Answered, Newest, NoAction
<1> QED
  BY <1>4, <1>5, <1>6, <1>7 DEF CommandInv

LEMMA RegistryKeepsCommands ==
    ASSUME WebSocketTyped, WebSocketTyped', CommandInv, BackendDisconnects
    PROVE  CommandInv'
<1>0. pending.action = "disconnect" /\ pending.session \in Connections
  BY DEF WebSocketTyped, PendingTyped, BackendDisconnects
<1> PICK s \in Connections : s = pending.session
  BY <1>0
<1>1. /\ UNCHANGED <<stage, shown, choiceVars>>
      /\ pending.action = "disconnect" /\ pending' = [pending EXCEPT !.outcome = "done"]
      /\ sessions' = sessions \ {s}
      /\ signalled' = IF s \in sessions THEN signalled \cup {s} ELSE signalled
  BY DEF BackendDisconnects
<1>2. pending'.action = "disconnect" /\ pending'.session = s
  BY <1>1 DEF WebSocketTyped, PendingTyped
<1>3. Opened(s)
  BY <1>1 DEF CommandInv, AnswersAreOwn
<1>4. ~Unsignalled(s)'
  <2>1. Unsignalled(s) => s \in sessions
    BY <1>2 DEF CommandInv, OpenIsAnswered
  <2> QED
    BY <1>1, <2>1 DEF Unsignalled
<1>5. \A c \in Connections : Unsignalled(c)' => Unsignalled(c) /\ c # s
  BY <1>1, <1>4 DEF Unsignalled
<1>6. \A c \in Connections : stage[c] \notin {"confirming", "opening"}
  BY <1>1, NothingInTheMaking DEF CommandInv
<1>7. InOrder' /\ MakingIsAwaited'
  BY <1>1, <1>6 DEF CommandInv, InOrder, MakingIsAwaited
<1>8. AnswersAreOwn'
  BY <1>1, <1>2, <1>3, <1>4 DEF AnswersAreOwn, Opened, Unsignalled
<1>9. ChoicesAreReal'
  <2>1. \A c : Unsignalled(c)' => Unsignalled(c)
    BY <1>1 DEF Unsignalled
  <2> QED
    BY <1>1, <2>1 DEF choiceVars, CommandInv, ChoicesAreReal, Opened
<1>10. OpenIsAnswered'
  BY <1>1, <1>2, <1>5 DEF choiceVars, CommandInv, OpenIsAnswered, Answered, Newest
<1> QED
  BY <1>7, <1>8, <1>9, <1>10 DEF CommandInv

LEMMA DisconnectAnswerKeepsCommands ==
    ASSUME WebSocketTyped, WebSocketTyped', CommandInv, DisconnectAnswered
    PROVE  CommandInv'
<1> DEFINE s == pending.session
<1>1. /\ UNCHANGED <<stage, sessions, signalled, shown, preferred, connectFailed>>
      /\ pending.action = "disconnect" /\ pending.outcome = "done" /\ pending' = NoAction
      /\ fallback' = IF fallback = s THEN Nobody ELSE fallback
      /\ disconnectedBy' = s
  BY DEF DisconnectAnswered, backendVars
<1>2. Opened(s) /\ ~Unsignalled(s)
  BY <1>1 DEF CommandInv, AnswersAreOwn
<1>3. \A c \in Connections : stage[c] \notin {"confirming", "opening"}
  BY <1>1, NothingInTheMaking DEF CommandInv
<1> HIDE DEF s
<1>4. InOrder' /\ MakingIsAwaited'
  BY <1>1, <1>3 DEF CommandInv, InOrder, MakingIsAwaited
<1>5. AnswersAreOwn'
  BY <1>1 DEF AnswersAreOwn, NoAction
<1>6. ChoicesAreReal'
  BY <1>1, <1>2 DEF CommandInv, ChoicesAreReal, Opened, Unsignalled
<1>7. OpenIsAnswered'
  <2> SUFFICES ASSUME NEW c \in Connections, Unsignalled(c)'
               PROVE  shown' /\ Newest(c)' /\ c \in sessions' /\ Answered(c)'
    BY DEF OpenIsAnswered
  <2>1. Unsignalled(c) /\ c # s
    BY <1>1, <1>2 DEF Unsignalled
  <2>2. shown /\ Newest(c) /\ c \in sessions /\ Answered(c)
    BY <2>1 DEF CommandInv, OpenIsAnswered
  <2> QED
    BY <1>1, <2>1, <2>2 DEF Answered, Newest, NoAction
<1> QED
  BY <1>4, <1>5, <1>6, <1>7 DEF CommandInv

\* The console is left with no session in the making or open.
LEMMA LeavingKeepsCommands ==
    ASSUME WebSocketTyped, WebSocketTyped', CommandInv, LeaveConsole, left' = {}
    PROVE  CommandInv'
<1>1. /\ UNCHANGED <<stage, sessions, signalled>> /\ pending' = NoAction
      /\ preferred' = Nobody /\ fallback' = Nobody /\ disconnectedBy' = Nobody
  BY DEF LeaveConsole, backendVars
<1>2. \A c \in Connections : stage[c] \notin {"confirming", "opening", "open"}
  BY Zenon DEF LeaveConsole
<1> QED
  BY <1>1, <1>2 DEF CommandInv, InOrder, MakingIsAwaited, AnswersAreOwn, ChoicesAreReal,
                    OpenIsAnswered, Unsignalled, NoAction

LEMMA EnteringKeepsCommands ==
    ASSUME WebSocketTyped, WebSocketTyped', StreamInv, CommandInv, EnterConsole
    PROVE  CommandInv'
<1>1. /\ UNCHANGED <<stage, sessions, signalled, pending, fallback, disconnectedBy, connectFailed>>
      /\ ~shown /\ shown' = TRUE /\ preferred' = Preferred(events)
  BY DEF EnterConsole, backendVars
<1>2. events # <<>> => stage[Last(events).session] \notin {"none", "confirming"}
  BY NewestIsReal DEF WebSocketTyped, StreamInv, Last
<1>3. \A c \in Connections : stage[c] \notin {"confirming", "opening"} /\ ~Unsignalled(c)
  BY <1>1 DEF CommandInv, MakingIsAwaited, OpenIsAnswered
<1>4. InOrder' /\ MakingIsAwaited'
  BY <1>1, <1>3 DEF CommandInv, InOrder, MakingIsAwaited
<1>5. AnswersAreOwn'
  BY <1>1 DEF CommandInv, AnswersAreOwn, Opened, Unsignalled
<1>6. ChoicesAreReal'
  BY <1>1, <1>2 DEF CommandInv, ChoicesAreReal, Opened, Unsignalled, Preferred
<1>7. OpenIsAnswered'
  BY <1>1, <1>3 DEF OpenIsAnswered, Unsignalled
<1> QED
  BY <1>4, <1>5, <1>6, <1>7 DEF CommandInv
--------------------------------------------------------------------------------
(* The console tells the truth.                                             *)

LEMMA ToldAtFirst == WebSocketInit => ToldInv
<1> SUFFICES ASSUME WebSocketInit PROVE StreamInv /\ CommandInv
  BY DEF ToldInv
<1>1. events = <<>> /\ socketEvents = <<>> /\ Stream = <<>>
  BY DEF WebSocketInit, Stream
<1>2. Len(<<>>) = 0
  BY EmptySeq
<1>3. StreamInv
  BY <1>1, <1>2 DEF StreamInv, StreamFits, ClosedIsLast, BeginningsAreNewest
<1>4. CommandInv
  BY DEF WebSocketInit, CommandInv, InOrder, MakingIsAwaited, AnswersAreOwn, ChoicesAreReal,
         OpenIsAnswered, Unsignalled, NoAction
<1> QED
  BY <1>3, <1>4

\* A step forgets nothing of who was left.
LEMMA LeftGrows == [WebSocketNext]_webSocketVars => left \subseteq left'
BY DEF WebSocketNext, webSocketVars, Connect, ConnectDeclined, ConnectApproved, OpenSocketFails, OpenSocket,
       ReceiveMessage, LeaveLoop, CloseSession, FlushFrame, ConnectAnswered, Disconnect,
       BackendDisconnects, DisconnectAnswered, LeaveConsole, EnterConsole

\* What a session tells at each of its steps.
LEMMA SessionStreams ==
    ASSUME WebSocketTyped, WebSocketTyped', StreamInv, CommandInv, NEW c \in Connections,
           \/ Connect(c) \/ ConnectDeclined(c) \/ ConnectApproved(c) \/ OpenSocketFails(c)
           \/ OpenSocket(c) \/ ReceiveMessage(c) \/ LeaveLoop(c) \/ CloseSession(c)
    PROVE  StreamInv'
<1>0. stage \in [Connections -> Stages] /\ "over" \in Stages /\ "open" \in Stages
      /\ "opening" \in Stages /\ "finishing" \in Stages
  BY DEF WebSocketTyped, BackendTyped, Stages
<1>1. /\ Onward("none", "confirming") /\ Onward("none", "over") /\ Onward("confirming", "over")
      /\ Onward("confirming", "opening") /\ Onward("opening", "over") /\ Onward("opening", "open")
      /\ Onward("open", "finishing") /\ Onward("finishing", "over") /\ \A w : Onward(w, w)
  BY DEF Onward, Fits
<1>2. ASSUME Connect(c) PROVE StreamInv'
  <2>1. /\ BeginningsAreTold /\ stage[c] = "none" /\ UNCHANGED <<events, socketEvents>>
        /\ Enter(c, "over") \/ Enter(c, "confirming")
    BY <1>2 DEF Connect
  <2>2. \A d \in Connections : Onward(stage[d], stage'[d])
    BY <1>0, <1>1, <2>1 DEF Enter
  <2> QED
    BY <2>1, <2>2, StreamRests
<1>3. ASSUME ConnectDeclined(c) PROVE StreamInv'
  <2>1. stage[c] = "confirming" /\ UNCHANGED <<events, socketEvents>> /\ Enter(c, "over")
    BY <1>3 DEF ConnectDeclined
  <2>2. \A d \in Connections : Onward(stage[d], stage'[d]) /\ (stage[d] = "none" => stage'[d] = "none")
    BY <1>0, <1>1, <2>1 DEF Enter
  <2> QED
    BY <2>1, <2>2, StreamRests DEF Newest
<1>4. ASSUME ConnectApproved(c) PROVE StreamInv'
  <2>1. /\ stage[c] = "confirming" /\ events' = events /\ Emit(c, <<"connecting">>)
        /\ stage' = [stage EXCEPT ![c] = "opening"]
    BY <1>4 DEF ConnectApproved, Enter
  <2>2. Newest(c)
    BY <2>1 DEF CommandInv, MakingIsAwaited
  <2> DEFINE kinds == <<"connecting">>
  <2>3. kinds \in Seq(EventKinds) /\ Len(kinds) = 1 /\ kinds[1] = "connecting"
    BY DEF EventKinds
  <2> HIDE DEF kinds
  <2>4. /\ \A i \in 1..Len(kinds) : Fits([session |-> c, kind |-> kinds[i]], "opening")
        /\ \A i, j \in 1..Len(kinds) : i < j => kinds[i] # "closed"
    BY <2>3 DEF Fits
  <2>5. Emit(c, kinds)
    BY <2>1 DEF kinds
  <2> QED
    BY <1>0, <1>1, <2>1, <2>2, <2>3, <2>4, <2>5, StreamTells
<1>5. ASSUME OpenSocketFails(c) PROVE StreamInv'
  <2>1. /\ stage[c] = "opening" /\ events' = events /\ Emit(c, <<"error", "closed">>)
        /\ stage' = [stage EXCEPT ![c] = "over"]
    BY <1>5 DEF OpenSocketFails, Enter
  <2> DEFINE kinds == <<"error", "closed">>
  <2>3. kinds \in Seq(EventKinds) /\ Len(kinds) = 2 /\ kinds[1] = "error" /\ kinds[2] = "closed"
    BY DEF EventKinds
  <2> HIDE DEF kinds
  <2>4. \A i \in 1..Len(kinds) : Fits([session |-> c, kind |-> kinds[i]], "over") /\ kinds[i] # "connecting"
    BY <2>3 DEF Fits
  <2>5. \A i, j \in 1..Len(kinds) : i < j => kinds[i] # "closed"
    BY <2>3
  <2>6. Emit(c, kinds)
    BY <2>1 DEF kinds
  <2> QED
    BY <1>0, <1>1, <2>1, <2>3, <2>4, <2>5, <2>6, StreamTells
<1>6. ASSUME NEW kind \in {"open", "message", "error", "closed"}, NEW where \in {"open", "finishing", "over"},
             Emit(c, <<kind>>), events' = events, stage' = [stage EXCEPT ![c] = where],
             stage[c] \in {"opening", "open", "finishing"}, Onward(stage[c], where),
             where = "open" => kind \in {"open", "message"}, where = "finishing" => kind # "closed"
      PROVE  StreamInv'
  <2> DEFINE kinds == <<kind>>
  <2>3. kinds \in Seq(EventKinds) /\ Len(kinds) = 1 /\ kinds[1] = kind
    BY DEF EventKinds
  <2> HIDE DEF kinds
  <2>4. \A i \in 1..Len(kinds) : Fits([session |-> c, kind |-> kinds[i]], where) /\ kinds[i] # "connecting"
    BY <1>6, <2>3 DEF Fits
  <2>5. \A i, j \in 1..Len(kinds) : i < j => kinds[i] # "closed"
    BY <2>3
  <2>6. Emit(c, kinds) /\ where \in Stages /\ where # "none"
    BY <1>0, <1>6 DEF kinds
  <2> QED
    BY <1>6, <2>3, <2>4, <2>5, <2>6, StreamTells
<1>7. ASSUME OpenSocket(c) PROVE StreamInv'
  <2>1. /\ stage[c] = "opening" /\ events' = events /\ Emit(c, <<"open">>)
        /\ stage' = [stage EXCEPT ![c] = "open"]
    BY <1>7 DEF OpenSocket, Enter
  <2> QED
    BY <1>1, <1>6, <2>1
<1>8. ASSUME ReceiveMessage(c) PROVE StreamInv'
  <2>1. stage[c] = "open" /\ events' = events /\ Emit(c, <<"message">>) /\ stage' = stage
    BY <1>8 DEF ReceiveMessage
  <2>2. stage' = [stage EXCEPT ![c] = "open"]
    BY <1>0, <2>1
  <2> QED
    BY <1>1, <1>6, <2>1, <2>2
<1>9. ASSUME LeaveLoop(c) PROVE StreamInv'
  <2>1. /\ stage[c] = "open" /\ events' = events /\ stage' = [stage EXCEPT ![c] = "finishing"]
        /\ Emit(c, <<"error">>) \/ UNCHANGED socketEvents
    BY <1>9 DEF LeaveLoop, Enter
  <2>2. CASE Emit(c, <<"error">>)
    BY <1>1, <1>6, <2>1, <2>2
  <2>3. CASE UNCHANGED socketEvents
    <3>1. \A d \in Connections : Onward(stage[d], stage'[d]) /\ (stage[d] = "none" => stage'[d] = "none")
      BY <1>0, <1>1, <2>1
    <3> QED
      BY <2>1, <2>3, <3>1, StreamRests DEF Newest
  <2> QED
    BY <2>1, <2>2, <2>3
<1>10. ASSUME CloseSession(c) PROVE StreamInv'
  <2>1. /\ stage[c] = "finishing" /\ events' = events /\ Emit(c, <<"closed">>)
        /\ stage' = [stage EXCEPT ![c] = "over"]
    BY <1>10 DEF CloseSession, Enter
  <2> QED
    BY <1>1, <1>6, <2>1
<1> QED
  BY <1>2, <1>3, <1>4, <1>5, <1>7, <1>8, <1>9, <1>10

LEMMA SessionKeepsCommands ==
    ASSUME WebSocketTyped, WebSocketTyped', StreamInv, CommandInv, NEW c \in Connections,
           \/ Connect(c) \/ ConnectDeclined(c) \/ ConnectApproved(c) \/ OpenSocketFails(c)
           \/ OpenSocket(c) \/ ReceiveMessage(c) \/ LeaveLoop(c) \/ CloseSession(c)
    PROVE  CommandInv'
<1>1. ASSUME ConnectDeclined(c) \/ OpenSocketFails(c) PROVE CommandInv'
  <2>1. /\ stage[c] \in {"confirming", "opening"} /\ Enter(c, "over") /\ AnswerConnect(c, "failed")
        /\ UNCHANGED <<sessions, signalled, shown, choiceVars>>
    BY <1>1 DEF ConnectDeclined, OpenSocketFails
  <2> QED
    BY <2>1, FailureKeepsCommands
<1>2. ASSUME ReceiveMessage(c) PROVE CommandInv'
  BY <1>2, CommandsRest DEF ReceiveMessage, commandVars
<1>3. ASSUME LeaveLoop(c) PROVE CommandInv'
  <2>1. /\ stage[c] = "open" /\ Enter(c, "finishing") /\ sessions' = sessions \ {c}
        /\ UNCHANGED <<signalled, shown, pending, choiceVars>>
    BY <1>3 DEF LeaveLoop
  <2> QED
    BY <2>1, EndKeepsCommands
<1>4. ASSUME CloseSession(c) PROVE CommandInv'
  <2>1. /\ stage[c] = "finishing" /\ Enter(c, "over")
        /\ UNCHANGED <<sessions, signalled, shown, pending, choiceVars>>
    BY <1>4 DEF CloseSession
  <2> QED
    BY <2>1, EndKeepsCommands
<1> QED
  BY <1>1, <1>2, <1>3, <1>4, ConnectKeepsCommands, ApprovalKeepsCommands, OpeningKeepsCommands

\* Every step keeps what the console knows.
LEMMA ToldIsKept ==
    ASSUME WebSocketTyped, WebSocketTyped', ToldInv, [WebSocketNext]_webSocketVars
    PROVE  ToldInv'
<1> SUFFICES ASSUME left' = {} PROVE StreamInv' /\ CommandInv'
  BY DEF ToldInv
<1>1. StreamInv /\ CommandInv
  BY LeftGrows DEF ToldInv
<1>s. \A w : Onward(w, w)
  BY DEF Onward
<1>r. UNCHANGED <<stage, events, socketEvents>> => StreamInv'
  BY <1>1, <1>s, StreamRests DEF Newest
<1>2. ASSUME NEW c \in Connections,
             \/ Connect(c) \/ ConnectDeclined(c) \/ ConnectApproved(c) \/ OpenSocketFails(c)
             \/ OpenSocket(c) \/ ReceiveMessage(c) \/ LeaveLoop(c) \/ CloseSession(c)
      PROVE  StreamInv' /\ CommandInv'
  BY <1>1, <1>2, SessionStreams, SessionKeepsCommands
<1>3. ASSUME FlushFrame PROVE StreamInv' /\ CommandInv'
  BY <1>1, <1>3, StreamFlushes, FlushKeepsCommands
<1>4. ASSUME ConnectAnswered PROVE StreamInv' /\ CommandInv'
  BY <1>1, <1>4, <1>r, ConnectAnswerKeepsCommands DEF ConnectAnswered, backendVars
<1>5. ASSUME Disconnect PROVE StreamInv' /\ CommandInv'
  BY <1>1, <1>5, <1>r, DisconnectKeepsCommands DEF Disconnect, backendVars
<1>6. ASSUME BackendDisconnects PROVE StreamInv' /\ CommandInv'
  BY <1>1, <1>6, <1>r, RegistryKeepsCommands DEF BackendDisconnects
<1>7. ASSUME DisconnectAnswered PROVE StreamInv' /\ CommandInv'
  BY <1>1, <1>7, <1>r, DisconnectAnswerKeepsCommands DEF DisconnectAnswered, backendVars
<1>8. ASSUME LeaveConsole PROVE StreamInv' /\ CommandInv'
  BY <1>1, <1>8, <1>r, LeavingKeepsCommands DEF LeaveConsole, backendVars
<1>9. ASSUME EnterConsole PROVE StreamInv' /\ CommandInv'
  BY <1>1, <1>9, <1>r, EnteringKeepsCommands DEF EnterConsole, backendVars
<1>10. ASSUME UNCHANGED webSocketVars PROVE StreamInv' /\ CommandInv'
  BY <1>1, <1>10, <1>r, CommandsRest DEF webSocketVars, backendVars, choiceVars, commandVars
<1> QED
  BY <1>2, <1>3, <1>4, <1>5, <1>6, <1>7, <1>8, <1>9, <1>10 DEF WebSocketNext

\* A session whose end is in the list is told to be over.
LEMMA EndIsTold ==
    ASSUME WebSocketTyped, StreamInv, NEW c \in Connections, NEW i \in 1..Len(events),
           events[i] = [session |-> c, kind |-> "closed"]
    PROVE  PhaseOfEvents(c, events) = "closed"
<1>1. events \in Seq(SocketEvent) /\ Len(events) \in Nat
  BY LenProperties DEF WebSocketTyped, EventsTyped
<1>2. \A j \in 1..Len(events) : i < j => events[j].session # c
  <2>1. \A j \in 1..Len(events) : Stream[j] = events[j] /\ j \in 1..Len(Stream)
    BY StreamItems DEF WebSocketTyped
  <2> QED
    BY <2>1 DEF StreamInv, ClosedIsLast
<1>3. events[i].session = c
  OBVIOUS
<1>4. PICK j \in 1..Len(events) :
        /\ events[j].session = c /\ \A m \in 1..Len(events) : events[m].session = c => m <= j
        /\ PhaseOfEvents(c, events) = IF events[j].kind = "message" THEN "open" ELSE events[j].kind
  BY <1>1, <1>3, PhaseIsOfLast
<1>5. j = i
  BY <1>1, <1>2, <1>4
<1> QED
  BY <1>4, <1>5

LEMMA ToldIsTrue == WebSocketTyped /\ ToldInv => ConsoleIsTrue
<1> SUFFICES ASSUME WebSocketTyped, ToldInv, Quiet, left = {} PROVE PhaseIsTrue /\ OpenSessionIsShown
  BY DEF ConsoleIsTrue
<1>1. StreamInv /\ CommandInv /\ pending = NoAction /\ pending.action = "none"
  BY DEF ToldInv, Quiet, NoAction
<1>2. \A c \in Connections : stage[c] = "open" => Unsignalled(c)
  BY DEF Quiet, Unsignalled
<1>3. OpenSessionIsShown
  BY <1>1, <1>2, OpenIsShown DEF OpenSessionIsShown
<1>4. PhaseIsTrue
  <2> DEFINE a == ActiveSession
  <2> SUFFICES ASSUME a # Nobody, Remembered(a) PROVE Phase = "open" <=> stage[a] = "open"
    BY DEF PhaseIsTrue
  <2>1. a \in Connections /\ stage[a] \notin {"none", "confirming"}
    BY <1>1, ActiveIsReal
  <2>2. CASE stage[a] = "open"
    BY <1>1, <1>2, <2>1, <2>2, OpenIsShown
  <2>3. CASE stage[a] # "open"
    <3>1. stage[a] = "over"
      <4>1. stage[a] \in Stages
        BY <2>1 DEF WebSocketTyped, BackendTyped
      <4>2. stage[a] # "finishing"
        BY <2>1 DEF Quiet
      <4>3. stage[a] # "opening"
        BY <1>1, <2>1, NothingInTheMaking DEF CommandInv
      <4> QED
        BY <2>1, <2>3, <4>1, <4>2, <4>3 DEF Stages
    <3>2. PICK i \in DOMAIN events : events[i] = [session |-> a, kind |-> "closed"]
      BY <3>1 DEF Remembered
    <3>3. i \in 1..Len(events)
      BY LenProperties DEF WebSocketTyped, EventsTyped
    <3> HIDE DEF a
    <3>4. PhaseOfEvents(a, events) = "closed"
      BY <1>1, <2>1, <3>2, <3>3, EndIsTold
    <3>5. Phase \in {"closed", "error"}
      BY <3>4 DEF Phase, FallbackCounts, a
    <3> QED
      BY <2>3, <3>5
  <2> QED
    BY <2>2, <2>3
<1> QED
  BY <1>3, <1>4

(* As long as the console was never left over a session, and whatever the order in    *)
(* which its events and the answers of the commands come: once all of them have, the  *)
(* phase it shows of a session that has not fallen out of the list is the truth, and  *)
(* an open session is the one it shows.                                               *)
THEOREM ConsoleTellsTheTruth == WebSocketSpec => []ConsoleIsTrue
<1>1. WebSocketInit => WebSocketTyped /\ PermitsInv /\ ToldInv
  BY WebSocketInitTyped, ToldAtFirst
<1>2. WebSocketTyped /\ PermitsInv /\ ToldInv /\ [WebSocketNext]_webSocketVars
      => (WebSocketTyped /\ PermitsInv /\ ToldInv)'
  BY WebSocketNextTyped, ToldIsKept
<1> QED
  BY <1>1, <1>2, ToldIsTrue, PTL DEF WebSocketSpec

--------------------------------------------------------------------------------
(* The sessions together.                                                  *)

\* A step of the composition is a step of each of the three, or leaves it alone.
LEMMA SessionsSteps ==
    [SessionsNext]_sessionsVars =>
      [Next]_vars /\ [ConsoleNext]_consoleVars /\ [WebSocketNext]_webSocketVars
BY DEF SessionsNext, SessionMoves, ConsoleMoves, WebSocketMoves, sessionsVars

(* In the run that checks the three together, every variable keeps its type and the *)
(* input budget of a terminal session is exact.                                     *)
THEOREM SessionsHold == SessionsSpec => []SessionsInv
<1>1. SessionsInit => Inv /\ ConsoleTyped /\ WebSocketTyped /\ PermitsInv
  BY InvHoldsFirst, InitIsTyped, WebSocketInitTyped DEF SessionsInit
<1>2. /\ Inv /\ ConsoleTyped /\ WebSocketTyped /\ PermitsInv
      /\ [SessionsNext]_sessionsVars
      => Inv' /\ ConsoleTyped' /\ WebSocketTyped' /\ PermitsInv'
  BY SessionsSteps, InvIsKept, NextIsTyped, WebSocketNextTyped
<1>3. Inv /\ ConsoleTyped /\ WebSocketTyped => SessionsInv
  <2>1. Inv => TypeOK /\ InputBudget
    BY InvIsIInv DEF IInv
  <2> QED
    BY <2>1, TypedIsTypeOK, WebSocketTypedIsOK DEF SessionsInv, SessionsTypeOK
<1> QED
  BY <1>1, <1>2, <1>3, PTL DEF SessionsSpec
================================================================================
