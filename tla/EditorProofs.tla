---------------------------- MODULE EditorProofs ----------------------------
(***************************************************************************)
(* What holds of the open documents for any number of files, texts, reads,  *)
(* saves and formats, and whatever the order of their answers: the dirty    *)
(* flag tells the truth, no unsaved text is lost but by its user, and a     *)
(* rename meets the text that it was based on.                              *)
(***************************************************************************)
EXTENDS EditorBuffers, WellFoundedInduction, TLAPS

--------------------------------------------------------------------------------
(* Sequences, and those without repetition.                                *)

\* What is left of a sequence when one element is removed.
LEMMA Removed ==
    ASSUME NEW S, NEW s \in Seq(S), NEW i \in DOMAIN s
    PROVE  /\ RemoveAt(s, i) \in Seq(S)
           /\ Len(RemoveAt(s, i)) = Len(s) - 1
           /\ \A j \in DOMAIN RemoveAt(s, i) :
                 RemoveAt(s, i)[j] = IF j < i THEN s[j] ELSE s[j + 1]
<1> DEFINE a == SubSeq(s, 1, i - 1)
           b == SubSeq(s, i + 1, Len(s))
<1>1. i \in 1..Len(s) /\ Len(s) \in Nat
  OBVIOUS
<1>2. a \in Seq(S) /\ Len(a) = i - 1 /\ \A j \in 1..(i - 1) : a[j] = s[j]
  BY <1>1
<1>3. b \in Seq(S) /\ Len(b) = Len(s) - i /\ \A j \in 1..(Len(s) - i) : b[j] = s[i + j]
  BY <1>1
<1> HIDE DEF a, b
<1>4. /\ a \o b \in Seq(S) /\ Len(a \o b) = Len(s) - 1
      /\ \A j \in 1..(Len(s) - 1) : (a \o b)[j] = IF j <= i - 1 THEN a[j] ELSE b[j - (i - 1)]
  BY <1>1, <1>2, <1>3
<1>5. \A j \in 1..(Len(s) - 1) : (a \o b)[j] = IF j < i THEN s[j] ELSE s[j + 1]
  <2> SUFFICES ASSUME NEW j \in 1..(Len(s) - 1)
               PROVE  (a \o b)[j] = IF j < i THEN s[j] ELSE s[j + 1]
    OBVIOUS
  <2>1. CASE j < i
    BY <1>1, <1>2, <1>4, <2>1
  <2>2. CASE ~(j < i)
    <3>1. j - (i - 1) \in 1..(Len(s) - i) /\ ~(j <= i - 1) /\ i + (j - (i - 1)) = j + 1
      BY <1>1, <2>2
    <3> QED
      BY <1>3, <1>4, <2>2, <3>1
  <2> QED
    BY <2>1, <2>2
<1>6. RemoveAt(s, i) = a \o b
  BY DEF RemoveAt, a, b
<1>7. DOMAIN (a \o b) = 1..(Len(s) - 1)
  BY <1>4
<1> QED
  BY <1>4, <1>5, <1>6, <1>7

\* A sequence without repetition, without one of its elements,
LEMMA UniqueRemoved ==
    ASSUME NEW S, NEW s \in Seq(S), IsInjective(s), NEW i \in DOMAIN s
    PROVE  /\ IsInjective(RemoveAt(s, i))
           /\ \A e \in S : Contains(RemoveAt(s, i), e) <=> Contains(s, e) /\ e # s[i]
<1> DEFINE r == RemoveAt(s, i)
<1>1. /\ Len(s) \in Nat /\ DOMAIN s = 1..Len(s) /\ i \in 1..Len(s)
      /\ r \in Seq(S) /\ Len(r) = Len(s) - 1 /\ DOMAIN r = 1..(Len(s) - 1)
      /\ \A j \in 1..(Len(s) - 1) : r[j] = IF j < i THEN s[j] ELSE s[j + 1]
  BY Removed
<1> HIDE DEF r
<1>2. IsInjective(r)
  <2>1. SUFFICES ASSUME NEW j \in 1..(Len(s) - 1), NEW k \in 1..(Len(s) - 1), r[j] = r[k]
                 PROVE  j = k
    BY <1>1 DEF IsInjective
  <2>2. \A p, q \in 1..Len(s) : s[p] = s[q] => p = q
    BY <1>1 DEF IsInjective
  <2> DEFINE place(l) == IF l < i THEN l ELSE l + 1
  <2>3. place(j) \in 1..Len(s) /\ place(k) \in 1..Len(s)
    BY <1>1
  <2>4. s[place(j)] = s[place(k)]
    BY <1>1, <2>1
  <2>5. place(j) = place(k)
    BY <2>2, <2>3, <2>4
  <2> QED
    BY <1>1, <2>5
<1>3. ASSUME NEW e \in S, Contains(r, e)
      PROVE  Contains(s, e) /\ e # s[i]
  <2>1. PICK j \in 1..(Len(s) - 1) : r[j] = e
    BY <1>1, <1>3 DEF Contains
  <2> QED
    BY <1>1, <2>1 DEF Contains, IsInjective
<1>4. ASSUME NEW e \in S, Contains(s, e), e # s[i]
      PROVE  Contains(r, e)
  <2>1. PICK k \in 1..Len(s) : s[k] = e
    BY <1>1, <1>4 DEF Contains
  <2>2. k < i => r[k] = e /\ k \in 1..Len(r)
    BY <1>1, <2>1
  <2>3. k > i => r[k - 1] = e /\ k - 1 \in 1..Len(r)
    BY <1>1, <2>1
  <2> QED
    BY <1>1, <1>4, <2>1, <2>2, <2>3 DEF Contains
<1> QED
  BY <1>2, <1>3, <1>4 DEF r

\* with a new one at its end,
LEMMA UniqueAppended ==
    ASSUME NEW S, NEW s \in Seq(S), IsInjective(s), NEW e \in S, ~Contains(s, e)
    PROVE  /\ Append(s, e) \in Seq(S) /\ IsInjective(Append(s, e))
           /\ \A d \in S : Contains(Append(s, e), d) <=> Contains(s, d) \/ d = e
<1> DEFINE r == Append(s, e)
<1>1. /\ Len(s) \in Nat /\ DOMAIN s = 1..Len(s) /\ r \in Seq(S)
      /\ Len(r) = Len(s) + 1 /\ DOMAIN r = 1..(Len(s) + 1)
      /\ \A i \in 1..Len(s) : r[i] = s[i]
      /\ r[Len(s) + 1] = e
  OBVIOUS
<1>2. \A i \in 1..Len(s) : s[i] # e
  BY DEF Contains
<1> HIDE DEF r
<1> QED
  BY <1>1, <1>2 DEF r, IsInjective, Contains

\* and with a new one in the place of another.
LEMMA UniqueReplaced ==
    ASSUME NEW S, NEW s \in Seq(S), IsInjective(s), NEW i \in DOMAIN s,
           NEW e \in S, ~Contains(s, e)
    PROVE  LET r == [s EXCEPT ![i] = e]
           IN  /\ r \in Seq(S) /\ IsInjective(r)
               /\ \A d \in S : Contains(r, d) <=> (Contains(s, d) /\ d # s[i]) \/ d = e
<1> DEFINE r == [s EXCEPT ![i] = e]
<1>1. /\ Len(s) \in Nat /\ DOMAIN s = 1..Len(s) /\ r \in Seq(S)
      /\ Len(r) = Len(s) /\ DOMAIN r = 1..Len(s)
      /\ \A j \in 1..Len(s) : r[j] = IF j = i THEN e ELSE s[j]
  OBVIOUS
<1>2. \A j \in 1..Len(s) : s[j] # e
  BY DEF Contains
<1> HIDE DEF r
<1> QED
  BY <1>1, <1>2 DEF r, IsInjective, Contains

\* The library's minimum of a set of numbers is one of them.
LEMMA MinIsMember ==
    ASSUME NEW T \in SUBSET Nat, T # {}
    PROVE  Min(T) \in T
<1>1. OpToRel(<, Nat) = {p \in Nat \X Nat : p[1] < p[2]}
  BY DEF OpToRel
<1>2. PICK x \in T : \A y \in T : <<y, x>> \notin {p \in Nat \X Nat : p[1] < p[2]}
  BY <1>1, NatLessThanWellFounded, WFMin
<1>3. ASSUME NEW y \in T PROVE x <= y
  <2>1. x \in Nat /\ y \in Nat /\ ~(y < x)
    BY <1>2
  <2> QED
    BY <2>1
<1> QED
  BY <1>3 DEF Min

--------------------------------------------------------------------------------
(* The invariant.                                                          *)

\* The tabs are the open documents, a document that is not open is forgotten, and
\* the dirty flag tells the truth.
BuffersInv ==
    /\ documents \in [Files -> Doc]
    /\ tabs \in Seq(Files) /\ IsInjective(tabs)
    /\ \A f \in Files : documents[f].open <=> Contains(tabs, f)
    /\ active \in Files \cup {NoFile} /\ pendingPins \in SUBSET Files
    /\ \A f \in Files : ~documents[f].open => documents[f] = NoDoc
    /\ DirtyMeansUnsaved

\* A read under way names a file.
ReadCall == [stage : {"idle", "asked", "read", "failed"}, file : Files \cup {NoFile},
             generation : Nat, text : Texts]
SourcesInv ==
    /\ source \in [file : Files \cup {NoFile}, text : Texts]
    /\ latest \in Reads \cup {NoRead} /\ reading \in BOOLEAN
    /\ read \in [Reads -> ReadCall]
    /\ \A r \in Reads : read[r].stage # "idle" => read[r].file \in Files

\* So does a save or a format; one write at a time holds the analysis reservation.
OpCall == [stage : OpStages, kind : {"save", "format"}, file : Files \cup {NoFile},
           base : Texts, submitted : Texts, text : Texts, raced : BOOLEAN]
WritesInv ==
    /\ op \in [Ops -> OpCall] /\ disk \in [Files -> Texts]
    /\ \A o \in Ops : op[o].stage # "idle" => op[o].file \in Files
    /\ \A o, p \in Ops : op[o].stage = "checked" /\ op[p].stage = "checked" => o = p
    /\ SaveReplacesItsBase

LockInv ==
    /\ opening \in {"no", "requesting", "adopting"} /\ workspaceGenerationRef \in Nat
    /\ consented \in SUBSET (Files \X Texts) /\ acts \in Nat
    /\ DiscardIsConsented

EditorInv == BuffersInv /\ SourcesInv /\ WritesInv /\ LockInv

--------------------------------------------------------------------------------
(* The documents.                                                          *)

\* The parts give the type invariant of the module.
LEMMA EditorIsTyped == EditorInv => EditorTypeOK
  BY DEF EditorInv, BuffersInv, SourcesInv, ReadCall, WritesInv, OpCall, LockInv, EditorTypeOK

\* A document that is not open is clean.
LEMMA NoDocIsClean ==
    /\ NoDoc \in Doc /\ ~NoDoc.open /\ ~NoDoc.dirty /\ NoDoc.text = NoDoc.saved
    /\ NoDoc.preview = "unset"
  BY EditorAssumption DEF NoDoc, Doc

\* One open document becomes another.
LEMMA DocumentReplaced ==
    ASSUME BuffersInv, NEW f \in Files, NEW new \in Doc, documents[f].open, new.open,
           new.dirty <=> new.text # new.saved,
           documents' = [documents EXCEPT ![f] = new], UNCHANGED <<tabs, active, pendingPins>>
    PROVE  BuffersInv'
<1>1. /\ documents' \in [Files -> Doc]
      /\ \A g \in Files : documents'[g] = IF g = f THEN new ELSE documents[g]
  BY DEF BuffersInv
<1>2. DirtyMeansUnsaved'
  BY <1>1 DEF BuffersInv, DirtyMeansUnsaved
<1>3. \A g \in Files : documents'[g].open <=> documents[g].open
  BY <1>1
<1> QED
  BY <1>1, <1>2, <1>3 DEF BuffersInv

\* Documents that the effect may be applied to: those of the tabs.
OfTabs(docs) ==
    /\ docs \in [Files -> Doc]
    /\ \A g \in Files : docs[g].open <=> documents[g].open
    /\ \A g \in Files : ~docs[g].open => docs[g] = NoDoc
    /\ \A g \in Files : docs[g].dirty <=> docs[g].text # docs[g].saved

\* A pin leaves the text alone.
LEMMA PinKeeps ==
    ASSUME BuffersInv, NEW f \in Files, NEW pin \in BOOLEAN
    PROVE  /\ OfTabs(PinnedDocs(f, pin)) /\ PinnedPaths(f, pin) \in SUBSET Files
           /\ \A g \in Files : /\ PinnedDocs(f, pin)[g].text = documents[g].text
                               /\ PinnedDocs(f, pin)[g].dirty = documents[g].dirty
<1> DEFINE new == [documents[f] EXCEPT !.preview = "no"]
<1>1. documents \in [Files -> Doc] /\ documents[f] \in Doc
  BY DEF BuffersInv
<1>2. /\ new \in Doc /\ new.open = documents[f].open /\ new.text = documents[f].text
      /\ new.saved = documents[f].saved /\ new.dirty = documents[f].dirty
  BY <1>1 DEF Doc
<1>3. documents[f].preview = "yes" => documents[f].open
  BY NoDocIsClean DEF BuffersInv
<1>4. PinnedDocs(f, pin) = IF pin /\ documents[f].preview = "yes"
                           THEN [documents EXCEPT ![f] = new] ELSE documents
  BY <1>1 DEF PinnedDocs
<1> HIDE DEF new
<1>5. PinnedPaths(f, pin) \in SUBSET Files
  BY DEF PinnedPaths, BuffersInv
<1>6. CASE ~(pin /\ documents[f].preview = "yes")
  BY <1>4, <1>5, <1>6 DEF OfTabs, BuffersInv, DirtyMeansUnsaved
<1>7. CASE pin /\ documents[f].preview = "yes"
  <2>1. /\ PinnedDocs(f, pin) \in [Files -> Doc]
        /\ \A g \in Files : PinnedDocs(f, pin)[g] = IF g = f THEN new ELSE documents[g]
    BY <1>1, <1>2, <1>4, <1>7
  <2> QED
    BY <1>2, <1>3, <1>5, <1>7, <2>1 DEF OfTabs, BuffersInv, DirtyMeansUnsaved
<1> QED
  BY <1>6, <1>7

\* The effect of a source keeps every dirty document.
LEMMA SourceShown ==
    ASSUME BuffersInv, NEW docs, OfTabs(docs), NEW pins \in SUBSET Files,
           NEW s \in [file : Files, text : Texts], ShowSource(docs, pins, s)
    PROVE  BuffersInv' /\ \A g \in Files : docs[g].dirty => documents'[g] = docs[g]
<1> DEFINE f == s.file
           shown == [open |-> TRUE, text |-> s.text, saved |-> s.text, dirty |-> FALSE,
                     preview |-> ShownPreview(docs, pins, f)]
           slot == SelectInSeq(tabs, LAMBDA g : Replaceable(docs, g))
           kept == Keeps(docs[f])
           reuse == ~docs[f].open /\ f \notin pins /\ slot # 0
<1>1. /\ active' = f /\ pendingPins' = IF kept THEN pins ELSE pins \ {f}
      /\ documents' = IF kept THEN docs
                      ELSE [g \in Files |-> IF g = f THEN shown
                                            ELSE IF reuse /\ g = tabs[slot] THEN NoDoc
                                            ELSE docs[g]]
      /\ tabs' = IF docs[f].open THEN tabs
                 ELSE IF reuse THEN [tabs EXCEPT ![slot] = f] ELSE Append(tabs, f)
  BY DEF ShowSource
<1>2. f \in Files /\ s.text \in Texts
  OBVIOUS
<1>3. docs \in [Files -> Doc] /\ \A g \in Files : docs[g] \in Doc
  BY DEF OfTabs
<1>4. shown \in Doc /\ shown.open /\ ~shown.dirty /\ shown.text = shown.saved
  <2>1. ShownPreview(docs, pins, f) \in {"yes", "no", "unset"}
    BY <1>2, <1>3 DEF ShownPreview, Doc
  <2> HIDE DEF f
  <2> QED
    BY <1>2, <2>1 DEF Doc
<1>5. tabs \in Seq(Files) /\ IsInjective(tabs)
      /\ \A g \in Files : docs[g].open <=> Contains(tabs, g)
  BY DEF BuffersInv, OfTabs
<1>6. slot # 0 => /\ slot \in DOMAIN tabs /\ tabs[slot] \in Files
                  /\ ~docs[tabs[slot]].dirty /\ docs[tabs[slot]].preview = "yes"
  <2>1. slot # 0 => slot \in DOMAIN tabs /\ Replaceable(docs, tabs[slot])
    <3> DEFINE I == {i \in 1..Len(tabs) : Replaceable(docs, tabs[i])}
    <3>1. slot = IF I # {} THEN Min(I) ELSE 0
      BY DEF SelectInSeq
    <3>2. I # {} => Min(I) \in I
      BY MinIsMember
    <3>3. \A i \in I : i \in DOMAIN tabs /\ Replaceable(docs, tabs[i])
      BY <1>5
    <3> HIDE DEF I, slot
    <3> QED
      BY <3>1, <3>2, <3>3
  <2> HIDE DEF slot
  <2> QED
    BY <1>5, <2>1 DEF Replaceable
<1>7. kept <=> docs[f].open /\ docs[f].dirty
  BY DEF Keeps
<1>8. \A g \in Files : ~docs[g].open => docs[g] = NoDoc
  BY DEF OfTabs
<1>9. active' \in Files \cup {NoFile} /\ pendingPins' \in SUBSET Files
  BY <1>1, <1>2
<1> HIDE DEF f, shown, slot, kept
<1>10. CASE kept
  <2>1. documents' = docs /\ tabs' = tabs
    BY <1>1, <1>7, <1>10
  <2> QED
    BY <1>3, <1>5, <1>9, <2>1 DEF BuffersInv, OfTabs, DirtyMeansUnsaved
<1>11. CASE ~kept
  <2>1. documents' = [g \in Files |-> IF g = f THEN shown
                                      ELSE IF reuse /\ g = tabs[slot] THEN NoDoc
                                      ELSE docs[g]]
    BY <1>1, <1>11
  <2>2. ~docs[f].dirty
    BY <1>2, <1>7, <1>8, <1>11, NoDocIsClean
  <2>3. documents' \in [Files -> Doc]
    BY <1>3, <1>4, <2>1, NoDocIsClean
  <2>4. \A g \in Files : docs[g].dirty => documents'[g] = docs[g]
    BY <1>6, <2>1, <2>2
  <2>5. \A g \in Files : ~documents'[g].open => documents'[g] = NoDoc
    BY <1>4, <1>8, <2>1
  <2>6. \A g \in Files : documents'[g].dirty <=> documents'[g].text # documents'[g].saved
    BY <1>4, <2>1, NoDocIsClean DEF OfTabs
  <2>7. /\ tabs' \in Seq(Files) /\ IsInjective(tabs')
        /\ \A g \in Files : documents'[g].open <=> Contains(tabs', g)
    <3>1. CASE docs[f].open
      BY <1>1, <1>2, <1>4, <1>5, <2>1, <3>1
    <3>2. CASE ~docs[f].open /\ ~reuse
      <4>1. tabs' = Append(tabs, f) /\ ~Contains(tabs, f)
        BY <1>1, <1>2, <1>5, <3>2
      <4> QED
        BY <1>2, <1>4, <1>5, <2>1, <3>2, <4>1, UniqueAppended
    <3>3. CASE ~docs[f].open /\ reuse
      <4>1. tabs' = [tabs EXCEPT ![slot] = f] /\ ~Contains(tabs, f) /\ slot \in DOMAIN tabs
        BY <1>1, <1>2, <1>5, <1>6, <3>3
      <4>2. /\ tabs' \in Seq(Files) /\ IsInjective(tabs')
            /\ \A d \in Files : Contains(tabs', d)
                  <=> (Contains(tabs, d) /\ d # tabs[slot]) \/ d = f
        BY <1>2, <1>5, <4>1, UniqueReplaced
      <4> QED
        BY <1>2, <1>4, <1>5, <2>1, <3>3, <4>2, NoDocIsClean
    <3> QED
      BY <3>1, <3>2, <3>3
  <2> QED
    BY <1>9, <2>3, <2>4, <2>5, <2>6, <2>7 DEF BuffersInv, DirtyMeansUnsaved
<1> QED
  BY <1>10, <1>11

--------------------------------------------------------------------------------
(* Steps of the documents and of the reads for them.                       *)

AllKept == \A f \in Files : documents[f].dirty => TextIsKept(f) \/ TextIsSaved(f)

\* A step of the documents alone, none while a workspace opens.
LEMMA DocumentsMove ==
    ASSUME EditorInv, UNCHANGED <<lock, op, disk, consented>>, BuffersInv', SourcesInv',
           acts' \in Nat, opening = "no" \/ UNCHANGED documents
    PROVE  EditorInv'
<1>1. WritesInv'
  BY DEF EditorInv, WritesInv, SaveReplacesItsBase
<1>2. opening' = opening /\ (Mutating' <=> Mutating)
  BY DEF lock, Mutating
<1>3. UNCHANGED documents => DirtyTexts' = DirtyTexts
  BY DEF DirtyTexts
<1>4. DiscardIsConsented'
  BY <1>2, <1>3 DEF EditorInv, LockInv, DiscardIsConsented
<1> QED
  BY <1>1, <1>2, <1>4 DEF EditorInv, LockInv, lock

\* Documents that keep their dirty text are kept.
LEMMA DirtyIsKept ==
    ASSUME BuffersInv, NEW docs, OfTabs(docs),
           \A g \in Files : docs[g].text = documents[g].text /\ docs[g].dirty = documents[g].dirty,
           \A g \in Files : docs[g].dirty => documents'[g] = docs[g]
    PROVE  AllKept
<1>1. \A g \in Files : documents[g].dirty => docs[g].open
  BY NoDocIsClean DEF BuffersInv, OfTabs
<1> QED
  BY <1>1 DEF AllKept, TextIsKept

\* A step that changes no document keeps them all.
LEMMA RestingIsKept ==
    ASSUME BuffersInv, UNCHANGED documents
    PROVE  AllKept
<1>1. \A g \in Files : documents[g].dirty => documents[g].open
  BY NoDocIsClean DEF BuffersInv
<1> QED
  BY <1>1 DEF AllKept, TextIsKept

\* The documents are those of the tabs.
LEMMA DocumentsAreOfTabs == BuffersInv => OfTabs(documents)
  BY DEF BuffersInv, OfTabs, DirtyMeansUnsaved

\* Reads and their answers, in any order: a dirty document keeps its text.
LEMMA SourceSteps ==
    ASSUME EditorInv, acts' \in Nat,
           \/ \E f \in Files, pin \in BOOLEAN :
                 ReopenSource(f, pin) \/ \E r \in Reads : OpenSource(f, pin, r)
           \/ \E r \in Reads : BackendRead(r) \/ ReadReply(r)
           \/ \E f \in Files : NewFileReply(f)
    PROVE  EditorInv' /\ AllKept
<1> USE DEF EditorInv
<1>1. ASSUME NEW f \in Files, NEW pin \in BOOLEAN, ReopenSource(f, pin)
      PROVE  EditorInv' /\ AllKept
  <2>1. /\ opening = "no" /\ source.file = f /\ latest' = NoRead /\ reading' = FALSE
        /\ ShowSource(PinnedDocs(f, pin), PinnedPaths(f, pin), source)
        /\ UNCHANGED <<lock, source, read, op, disk, consented>>
    BY <1>1 DEF ReopenSource
  <2>2. SourcesInv'
    BY <2>1 DEF SourcesInv
  <2>3. source \in [file : Files, text : Texts]
    BY <2>1 DEF SourcesInv
  <2>4. BuffersInv' /\ AllKept
    BY <2>1, <2>3, PinKeeps, SourceShown, DirtyIsKept
  <2> QED
    BY <2>1, <2>2, <2>4, DocumentsMove
<1>2. ASSUME NEW f \in Files, NEW pin \in BOOLEAN, NEW r \in Reads, OpenSource(f, pin, r)
      PROVE  EditorInv' /\ AllKept
  <2>1. /\ opening = "no" /\ latest' = r /\ reading' = TRUE
        /\ read' = [read EXCEPT ![r] = [stage |-> "asked", file |-> f,
                                 generation |-> workspaceGenerationRef, text |-> Original]]
        /\ documents' = PinnedDocs(f, pin) /\ pendingPins' = PinnedPaths(f, pin)
        /\ UNCHANGED <<lock, source, tabs, active, op, disk, consented>>
    BY <1>2 DEF OpenSource
  <2>2. SourcesInv'
    BY <2>1, EditorAssumption DEF SourcesInv, ReadCall, LockInv
  <2>3. BuffersInv'
    <3>1. OfTabs(documents') /\ pendingPins' \in SUBSET Files
      BY <2>1, PinKeeps
    <3> QED
      BY <2>1, <3>1 DEF BuffersInv, OfTabs, DirtyMeansUnsaved
  <2>4. AllKept
    BY <2>1, PinKeeps, DirtyIsKept
  <2> QED
    BY <2>1, <2>2, <2>3, <2>4, DocumentsMove
<1>3. ASSUME NEW r \in Reads, BackendRead(r)
      PROVE  EditorInv' /\ AllKept
  <2>1. PICK stage \in {"read", "failed"} :
           read' = [read EXCEPT ![r].stage = stage, ![r].text = disk[read[r].file]]
    BY <1>3 DEF BackendRead
  <2>2. /\ read[r].stage = "asked" /\ UNCHANGED documents
        /\ UNCHANGED <<lock, source, latest, reading, tabs, active, pendingPins, op, disk, consented>>
    BY <1>3 DEF BackendRead, buffers
  <2>3. read[r].file \in Files /\ disk[read[r].file] \in Texts
    BY <2>2 DEF SourcesInv, WritesInv
  <2>4. SourcesInv'
    <3> DEFINE new == [read[r] EXCEPT !.stage = stage, !.text = disk[read[r].file]]
    <3>1. read \in [Reads -> ReadCall] /\ read[r] \in ReadCall
      BY DEF SourcesInv
    <3>2. new \in ReadCall /\ new.file = read[r].file
      BY <2>3, <3>1 DEF ReadCall
    <3>3. read' = [read EXCEPT ![r] = new]
      BY <2>1, <3>1
    <3> HIDE DEF new
    <3> QED
      BY <2>2, <2>3, <3>1, <3>2, <3>3 DEF SourcesInv
  <2>5. BuffersInv'
    BY <2>2 DEF BuffersInv, DirtyMeansUnsaved
  <2> QED
    BY <2>2, <2>4, <2>5, DocumentsMove, RestingIsKept
<1>4. ASSUME NEW r \in Reads, ReadReply(r)
      PROVE  EditorInv' /\ AllKept
  <2>1. /\ read[r].stage \in {"read", "failed"} /\ read' = [read EXCEPT ![r] = NoCall]
        /\ reading' = IF Stale(r) THEN reading ELSE FALSE
        /\ latest' = IF r = latest THEN NoRead ELSE latest
        /\ UNCHANGED <<lock, op, disk, consented>>
    BY <1>4 DEF ReadReply
  <2>2. NoCall \in ReadCall /\ NoCall.stage = "idle"
    BY EditorAssumption DEF NoCall, ReadCall
  <2>3. /\ read' \in [Reads -> ReadCall]
        /\ \A p \in Reads : read'[p].stage # "idle" => read'[p].file \in Files
    BY <2>1, <2>2 DEF SourcesInv
  <2>4. latest' \in Reads \cup {NoRead} /\ reading' \in BOOLEAN
    BY <2>1 DEF SourcesInv
  <2>5. CASE UNCHANGED <<source, buffers>>
    <3>1. SourcesInv' /\ BuffersInv' /\ UNCHANGED documents
      BY <2>3, <2>4, <2>5 DEF SourcesInv, BuffersInv, buffers, DirtyMeansUnsaved
    <3> QED
      BY <2>1, <3>1, DocumentsMove, RestingIsKept
  <2>6. CASE /\ source' = [file |-> read[r].file, text |-> read[r].text]
             /\ IF opening = "no" THEN ShowSource(documents, pendingPins, source')
                                  ELSE UNCHANGED buffers
    <3>1. source' \in [file : Files, text : Texts]
      BY <2>1, <2>6 DEF SourcesInv, ReadCall
    <3>2. SourcesInv'
      BY <2>3, <2>4, <3>1 DEF SourcesInv
    <3>3. CASE opening = "no"
      <4>1. BuffersInv' /\ AllKept
        BY <2>6, <3>1, <3>3, DocumentsAreOfTabs, SourceShown, DirtyIsKept DEF BuffersInv
      <4> QED
        BY <2>1, <3>2, <3>3, <4>1, DocumentsMove
    <3>4. CASE opening # "no"
      <4>1. BuffersInv' /\ UNCHANGED documents
        BY <2>6, <3>4 DEF BuffersInv, buffers, DirtyMeansUnsaved
      <4> QED
        BY <2>1, <3>2, <4>1, DocumentsMove, RestingIsKept
    <3> QED
      BY <3>3, <3>4
  <2> QED
    BY <1>4, <2>5, <2>6 DEF ReadReply
<1>5. ASSUME NEW f \in Files, NewFileReply(f)
      PROVE  EditorInv' /\ AllKept
  <2>1. /\ source' = [file |-> f, text |-> Original] /\ reading' = FALSE
        /\ IF opening = "no" THEN ShowSource(documents, pendingPins, source')
                             ELSE UNCHANGED buffers
        /\ UNCHANGED <<lock, latest, read, op, disk, consented>>
    BY <1>5 DEF NewFileReply
  <2>2. source' \in [file : Files, text : Texts]
    BY <2>1, EditorAssumption
  <2>3. SourcesInv'
    BY <2>1, <2>2 DEF SourcesInv
  <2>4. CASE opening = "no"
    <3>1. BuffersInv' /\ AllKept
      BY <2>1, <2>2, <2>4, DocumentsAreOfTabs, SourceShown, DirtyIsKept DEF BuffersInv
    <3> QED
      BY <2>1, <2>3, <2>4, <3>1, DocumentsMove
  <2>5. CASE opening # "no"
    <3>1. BuffersInv' /\ UNCHANGED documents
      BY <2>1, <2>5 DEF BuffersInv, buffers, DirtyMeansUnsaved
    <3> QED
      BY <2>1, <2>3, <3>1, DocumentsMove, RestingIsKept
  <2> QED
    BY <2>4, <2>5
<1> QED
  BY <1>1, <1>2, <1>3, <1>4, <1>5

\* What the user does with a document.
LEMMA UserSteps ==
    ASSUME EditorInv, acts' \in Nat,
           \/ \E f \in Files : \/ SelectTab(f) \/ ShowDirtyMatch(f) \/ PinDocument(f)
                               \/ CloseDocument(f)
           \/ \E text \in Texts : UpdateContent(text)
    PROVE  EditorInv' /\ (UserGivesUp \/ AllKept)
<1> USE DEF EditorInv
<1>1. ASSUME NEW f \in Files, SelectTab(f)
      PROVE  EditorInv' /\ (UserGivesUp \/ AllKept)
  <2>1. /\ active' = f /\ UNCHANGED <<lock, sources, documents, tabs, pendingPins>>
        /\ UNCHANGED <<op, disk, consented>>
    BY <1>1 DEF SelectTab
  <2>2. BuffersInv' /\ SourcesInv'
    BY <2>1 DEF BuffersInv, SourcesInv, sources, DirtyMeansUnsaved
  <2> QED
    BY <2>1, <2>2, DocumentsMove, RestingIsKept
<1>2. ASSUME NEW f \in Files, ShowDirtyMatch(f)
      PROVE  EditorInv' /\ (UserGivesUp \/ AllKept)
  <2>1. /\ active' = f /\ latest' = NoRead /\ reading' = FALSE
        /\ UNCHANGED <<lock, source, read, documents, tabs, pendingPins, op, disk, consented>>
    BY <1>2 DEF ShowDirtyMatch
  <2>2. BuffersInv' /\ SourcesInv'
    BY <2>1 DEF BuffersInv, SourcesInv, DirtyMeansUnsaved
  <2> QED
    BY <2>1, <2>2, DocumentsMove, RestingIsKept
<1>3. ASSUME NEW f \in Files, PinDocument(f)
      PROVE  EditorInv' /\ (UserGivesUp \/ AllKept)
  <2>1. /\ opening = "no" /\ documents' = PinnedDocs(f, TRUE)
        /\ UNCHANGED <<lock, sources, tabs, active, pendingPins, op, disk, consented>>
    BY <1>3 DEF PinDocument
  <2>2. BuffersInv'
    BY <2>1, PinKeeps DEF BuffersInv, OfTabs, DirtyMeansUnsaved
  <2>3. SourcesInv'
    BY <2>1 DEF SourcesInv, sources
  <2>4. AllKept
    BY <2>1, PinKeeps, DirtyIsKept
  <2> QED
    BY <2>1, <2>2, <2>3, <2>4, DocumentsMove
<1>4. ASSUME NEW f \in Files, CloseDocument(f)
      PROVE  EditorInv' /\ (UserGivesUp \/ AllKept)
  <2> DEFINE index == CHOOSE i \in DOMAIN tabs : tabs[i] = f
  <2>1. /\ opening = "no" /\ documents[f].open /\ documents' = [documents EXCEPT ![f] = NoDoc]
        /\ tabs' = RemoveAt(tabs, index)
        /\ active' = IF active # f THEN active
                     ELSE IF tabs' = <<>> THEN NoFile
                     ELSE tabs'[IF index > 1 THEN index - 1 ELSE 1]
        /\ UNCHANGED <<lock, sources, pendingPins, op, disk, consented>>
    BY <1>4 DEF CloseDocument
  <2>2. /\ tabs \in Seq(Files) /\ DOMAIN tabs = 1..Len(tabs) /\ Len(tabs) \in Nat
        /\ Contains(tabs, f)
    BY <2>1 DEF BuffersInv
  <2>3. index \in DOMAIN tabs /\ tabs[index] = f
    BY <2>2 DEF Contains
  <2> HIDE DEF index
  <2>4. /\ tabs' \in Seq(Files) /\ IsInjective(tabs') /\ Len(tabs') = Len(tabs) - 1
        /\ \A g \in Files : Contains(tabs', g) <=> Contains(tabs, g) /\ g # f
    <3>1. IsInjective(tabs)
      BY DEF BuffersInv
    <3>2. /\ IsInjective(tabs')
          /\ \A g \in Files : Contains(tabs', g) <=> Contains(tabs, g) /\ g # f
      BY <2>1, <2>2, <2>3, <3>1, UniqueRemoved
    <3>3. tabs' \in Seq(Files) /\ Len(tabs') = Len(tabs) - 1
      BY <2>1, <2>2, <2>3, Removed
    <3> QED
      BY <3>2, <3>3
  <2>5. active' \in Files \cup {NoFile}
    <3>1. tabs' # <<>> => Len(tabs') > 0
      BY <2>2, <2>4
    <3>2. tabs' # <<>> => (IF index > 1 THEN index - 1 ELSE 1) \in 1..Len(tabs')
      BY <2>2, <2>3, <2>4, <3>1
    <3> QED
      BY <2>1, <2>4, <3>2 DEF BuffersInv
  <2>6. BuffersInv'
    BY <2>1, <2>4, <2>5, NoDocIsClean DEF BuffersInv, DirtyMeansUnsaved
  <2>7. SourcesInv'
    BY <2>1 DEF SourcesInv, sources
  <2> QED
    BY <1>4, <2>1, <2>6, <2>7, DocumentsMove DEF UserGivesUp
<1>5. ASSUME NEW text \in Texts, UpdateContent(text)
      PROVE  EditorInv' /\ (UserGivesUp \/ AllKept)
  <2> DEFINE new == [documents[active] EXCEPT !.text = text, !.preview = "no",
                                              !.dirty = (text # documents[active].saved)]
  <2>1. /\ opening = "no" /\ active # NoFile /\ documents[active].open
        /\ documents' = [documents EXCEPT ![active].text = text, ![active].preview = "no",
                                          ![active].dirty = (text # documents[active].saved)]
        /\ UNCHANGED <<lock, sources, tabs, active, pendingPins, op, disk, consented>>
    BY <1>5 DEF UpdateContent, MayEdit
  <2>2. documents \in [Files -> Doc] /\ active \in Files /\ documents[active] \in Doc
    BY <2>1 DEF BuffersInv
  <2>3. documents' = [documents EXCEPT ![active] = new]
    BY <2>1, <2>2
  <2>4. new.dirty \in BOOLEAN
    BY <2>2 DEF Doc
  <2>5. /\ new \in Doc /\ new.open = documents[active].open
        /\ new.dirty <=> new.text # new.saved
    BY <2>2 DEF Doc
  <2> HIDE DEF new
  <2>6. BuffersInv'
    BY <2>1, <2>2, <2>3, <2>5, DocumentReplaced
  <2>7. SourcesInv'
    BY <2>1 DEF SourcesInv, sources
  <2> QED
    BY <1>5, <2>1, <2>6, <2>7, DocumentsMove DEF UserGivesUp
<1> QED
  BY <1>1, <1>2, <1>3, <1>4, <1>5

--------------------------------------------------------------------------------
(* Saves and formats.  They run while no workspace opens.                  *)

\* A step of one call that is in flight, or begins.
LEMMA CallsMove ==
    ASSUME EditorInv, UNCHANGED <<lock, sources, consented>>, opening = "no",
           WritesInv', BuffersInv', acts' \in Nat
    PROVE  EditorInv'
<1>1. SourcesInv'
  BY DEF EditorInv, SourcesInv, sources
<1> QED
  BY <1>1 DEF EditorInv, LockInv, DiscardIsConsented, lock

\* A call changes from one typed record to another; unless it is checked now the
\* writes keep what they had.
LEMMA CallChanges ==
    ASSUME WritesInv, NEW o \in Ops, NEW call \in OpCall, UNCHANGED disk,
           op' = [op EXCEPT ![o] = call], call.stage # "checked",
           call.stage # "idle" => call.file \in Files
    PROVE  WritesInv'
<1>1. /\ op' \in [Ops -> OpCall]
      /\ \A p \in Ops : op'[p] = IF p = o THEN call ELSE op[p]
  BY DEF WritesInv
<1> QED
  BY <1>1 DEF WritesInv, SaveReplacesItsBase

\* Saves and formats, from their beginning to their answers.
LEMMA CallSteps ==
    ASSUME EditorInv, acts' \in Nat, NEW o \in Ops,
           \/ SaveDocument(o) \/ FormatActiveDocument(o) \/ BackendFormat(o) \/ FormatReply(o)
           \/ CheckWrite(o) \/ CommitWrite(o) \/ SaveReply(o) \/ FailureReply(o)
    PROVE  EditorInv' /\ (UserGivesUp \/ AllKept)
<1> USE DEF EditorInv
<1> DEFINE call == op[o]
           f == call.file
<1>1. op \in [Ops -> OpCall] /\ call \in OpCall /\ call.stage \in OpStages
  BY DEF WritesInv, OpCall
<1>2. call.stage # "idle" => f \in Files /\ opening = "no"
  BY DEF WritesInv, LockInv, DiscardIsConsented, Mutating
<1>3. NoOp \in OpCall /\ NoOp.stage = "idle"
  BY EditorAssumption DEF NoOp, OpCall, OpStages
<1>4. ASSUME NEW kind \in {"save", "format"}, NEW stage \in {"formatting", "writing"},
             Submit(o, kind, stage), UNCHANGED disk
      PROVE  WritesInv' /\ opening = "no" /\ active \in Files
  <2> DEFINE new == [stage |-> stage, kind |-> kind, file |-> active,
                     base |-> documents[active].saved, submitted |-> documents[active].text,
                     text |-> documents[active].text, raced |-> FALSE]
  <2>1. opening = "no" /\ active \in Files /\ op' = [op EXCEPT ![o] = new]
    BY <1>4 DEF Submit, BuffersInv
  <2>2. documents[active] \in Doc
    BY <2>1 DEF BuffersInv
  <2>3. new \in OpCall /\ new.stage # "checked" /\ new.file \in Files
    BY <2>1, <2>2 DEF OpCall, OpStages, Doc
  <2> HIDE DEF new
  <2> QED
    BY <1>4, <2>1, <2>3, CallChanges
<1>5. CASE SaveDocument(o)
  <2>1. WritesInv' /\ opening = "no"
    BY <1>4, <1>5 DEF SaveDocument
  <2>2. BuffersInv' /\ UNCHANGED <<documents, lock, sources, consented>>
    BY <1>5 DEF SaveDocument, buffers, BuffersInv, DirtyMeansUnsaved
  <2> QED
    BY <2>1, <2>2, CallsMove, RestingIsKept
<1>6. CASE FormatActiveDocument(o)
  <2> DEFINE new == [documents[active] EXCEPT !.preview = "no"]
  <2>1. WritesInv' /\ opening = "no" /\ active \in Files
    BY <1>4, <1>6 DEF FormatActiveDocument
  <2>2. /\ documents' = [documents EXCEPT ![active].preview = "no"] /\ documents[active].open
        /\ UNCHANGED <<lock, sources, tabs, active, pendingPins, consented>>
    BY <1>6 DEF FormatActiveDocument, Submit
  <2>3. documents \in [Files -> Doc] /\ documents[active] \in Doc
    BY <2>1 DEF BuffersInv
  <2>4. documents' = [documents EXCEPT ![active] = new]
    BY <2>1, <2>2, <2>3
  <2>5. /\ new \in Doc /\ new.open = documents[active].open /\ new.text = documents[active].text
        /\ new.saved = documents[active].saved /\ new.dirty = documents[active].dirty
    BY <2>3 DEF Doc
  <2> HIDE DEF new
  <2>6. BuffersInv'
    BY <2>1, <2>2, <2>3, <2>4, <2>5 DEF BuffersInv, DirtyMeansUnsaved
  <2>7. AllKept
    <3>1. \A g \in Files : documents[g].dirty => documents[g].open
      BY NoDocIsClean DEF BuffersInv
    <3> QED
      BY <2>1, <2>3, <2>4, <2>5, <3>1 DEF AllKept, TextIsKept
  <2> QED
    BY <2>1, <2>2, <2>6, <2>7, CallsMove
\* The steps that leave the documents alone.
<1>7. ASSUME NEW new \in OpCall, op' = [op EXCEPT ![o] = new], call.stage # "idle",
             UNCHANGED <<lock, sources, buffers, disk, consented>>,
             new.stage # "checked", new.stage # "idle" => new.file = f
      PROVE  EditorInv' /\ AllKept
  <2>1. WritesInv'
    BY <1>2, <1>7, CallChanges
  <2>2. BuffersInv' /\ UNCHANGED documents
    BY <1>7 DEF buffers, BuffersInv, DirtyMeansUnsaved
  <2> QED
    BY <1>2, <1>7, <2>1, <2>2, CallsMove, RestingIsKept
<1>8. ASSUME NEW stage \in OpStages, NEW text \in Texts
      PROVE  LET new == [call EXCEPT !.stage = stage, !.text = text]
             IN  /\ new \in OpCall /\ new.stage = stage /\ new.file = f
                 /\ new.base = call.base /\ new.raced = call.raced
  BY <1>1 DEF OpCall
<1>9. CASE BackendFormat(o)
  <2>1. call.stage = "formatting" /\ UNCHANGED <<lock, sources, buffers, disk, consented>>
    BY <1>9 DEF BackendFormat
  <2>2. CASE op' = [op EXCEPT ![o].stage = "formatted", ![o].text = Formatted[op[o].text]]
    <3> DEFINE new == [call EXCEPT !.stage = "formatted", !.text = Formatted[call.text]]
    <3>1. op' = [op EXCEPT ![o] = new]
      BY <1>1, <2>2
    <3>2. Formatted[call.text] \in Texts /\ "formatted" \in OpStages
      BY <1>1, EditorAssumption DEF OpCall, OpStages
    <3>3. new \in OpCall /\ new.stage = "formatted" /\ new.file = f
      BY <1>8, <3>2
    <3> HIDE DEF new
    <3> QED
      BY <1>7, <2>1, <3>1, <3>3
  <2>3. CASE op' = [op EXCEPT ![o].stage = "failed"]
    <3> DEFINE new == [call EXCEPT !.stage = "failed"]
    <3>1. op' = [op EXCEPT ![o] = new]
      BY <1>1, <2>3
    <3>2. new \in OpCall /\ new.stage = "failed" /\ new.file = f
      BY <1>1 DEF OpCall, OpStages
    <3> HIDE DEF new
    <3> QED
      BY <1>7, <2>1, <3>1, <3>2
  <2> QED
    BY <1>9, <2>2, <2>3 DEF BackendFormat
<1>10. CASE FormatReply(o)
  <2>1. /\ call.stage = "formatted" /\ opening = "no" /\ f \in Files
        /\ UNCHANGED <<lock, sources, tabs, active, pendingPins, disk, consented>>
    BY <1>2, <1>10 DEF FormatReply
  <2>2. WritesInv'
    <3> DEFINE new == IF call.kind = "save" THEN [call EXCEPT !.stage = "writing"] ELSE NoOp
    <3>1. op' = [op EXCEPT ![o] = new]
      BY <1>1, <1>10, <2>1 DEF FormatReply, CanApplyResult
    <3>2. new \in OpCall /\ new.stage # "checked" /\ (new.stage # "idle" => new.file = f)
      BY <1>1, <1>3 DEF OpCall, OpStages
    <3> HIDE DEF new
    <3> QED
      BY <2>1, <3>1, <3>2, CallChanges
  <2>3. BuffersInv'
    <3> DEFINE new == [documents[f] EXCEPT !.text = call.text,
                                           !.dirty = (call.text # documents[f].saved)]
    <3>1. documents \in [Files -> Doc] /\ documents[f] \in Doc /\ call.text \in Texts
      BY <1>1, <2>1 DEF BuffersInv, OpCall
    <3>2. CASE documents' = documents
      BY <2>1, <3>2 DEF BuffersInv, DirtyMeansUnsaved
    <3>3. CASE /\ documents[f].open
               /\ documents' = [documents EXCEPT ![f].text = op[o].text,
                                   ![f].dirty = (op[o].text # documents[f].saved)]
      <4>1. documents' = [documents EXCEPT ![f] = new]
        BY <2>1, <3>1, <3>3
      <4>2. new.dirty \in BOOLEAN
        BY <3>1 DEF Doc
      <4>3. /\ new \in Doc /\ new.open = documents[f].open
            /\ new.dirty <=> new.text # new.saved
        BY <3>1 DEF Doc
      <4> HIDE DEF new
      <4> QED
        BY <2>1, <3>3, <4>1, <4>3, DocumentReplaced
    <3> QED
      BY <1>10, <3>2, <3>3 DEF FormatReply
  <2> QED
    BY <1>10, <2>1, <2>2, <2>3, CallsMove DEF UserGivesUp
<1>11. CASE CheckWrite(o)
  <2> DEFINE stage == IF disk[f] = call.base THEN "checked" ELSE "failed"
             new == [call EXCEPT !.stage = stage]
  <2>1. /\ call.stage = "writing" /\ \A p \in Ops : op[p].stage # "checked"
        /\ op' = [op EXCEPT ![o].stage = stage]
        /\ UNCHANGED <<lock, sources, buffers, disk, consented>>
    BY <1>11 DEF CheckWrite, AnalysisFree
  <2>2. op' = [op EXCEPT ![o] = new]
    BY <1>1, <2>1
  <2>3. stage \in {"checked", "failed"} /\ (stage = "checked" => disk[f] = call.base)
    OBVIOUS
  <2> HIDE DEF stage
  <2>4. new \in OpCall /\ new.stage = stage /\ new.file = f /\ new.base = call.base
    BY <1>1, <2>3 DEF OpCall, OpStages
  <2> HIDE DEF new
  <2>5. /\ op' \in [Ops -> OpCall]
        /\ \A p \in Ops : op'[p] = IF p = o THEN new ELSE op[p]
    BY <1>1, <2>2, <2>4
  <2>6. WritesInv'
    BY <1>2, <2>1, <2>3, <2>4, <2>5 DEF WritesInv, SaveReplacesItsBase
  <2>7. BuffersInv' /\ UNCHANGED documents
    BY <2>1 DEF buffers, BuffersInv, DirtyMeansUnsaved
  <2> QED
    BY <1>2, <2>1, <2>6, <2>7, CallsMove, RestingIsKept
<1>12. CASE CommitWrite(o)
  <2>1. call.stage = "checked" /\ UNCHANGED <<lock, sources, buffers, consented>>
    BY <1>12 DEF CommitWrite
  <2>2. PICK stage \in {"written", "failed"} : op' = [op EXCEPT ![o].stage = stage]
    BY <1>12 DEF CommitWrite
  <2> DEFINE new == [call EXCEPT !.stage = stage]
  <2>3. op' = [op EXCEPT ![o] = new]
    BY <1>1, <2>2
  <2>4. new \in OpCall /\ new.stage = stage /\ new.file = f
    BY <1>1 DEF OpCall, OpStages
  <2> HIDE DEF new
  <2>5. /\ op' \in [Ops -> OpCall]
        /\ \A p \in Ops : op'[p] = IF p = o THEN new ELSE op[p]
    BY <1>1, <2>3, <2>4
  <2>6. disk' \in [Files -> Texts]
    BY <1>1, <1>2, <1>12, <2>1 DEF CommitWrite, WritesInv, OpCall
  <2>7. \A p \in Ops : op'[p].stage # "checked"
    BY <2>1, <2>4, <2>5 DEF WritesInv
  <2>8. WritesInv'
    BY <1>2, <2>1, <2>4, <2>5, <2>6, <2>7 DEF WritesInv, SaveReplacesItsBase
  <2>9. BuffersInv' /\ UNCHANGED documents
    BY <2>1 DEF buffers, BuffersInv, DirtyMeansUnsaved
  <2> QED
    BY <1>2, <2>1, <2>8, <2>9, CallsMove, RestingIsKept
<1>13. CASE SaveReply(o)
  <2> DEFINE new == SavedDoc(documents[f], o)
  <2>1. /\ call.stage = "written" /\ op' = [op EXCEPT ![o] = NoOp] /\ opening = "no"
        /\ f \in Files
        /\ UNCHANGED <<lock, sources, tabs, active, pendingPins, disk, consented>>
    BY <1>2, <1>13 DEF SaveReply
  <2>2. WritesInv'
    BY <1>3, <2>1, CallChanges
  <2>3. documents \in [Files -> Doc] /\ documents[f] \in Doc
    BY <2>1 DEF BuffersInv
  <2>4. documents' = IF documents[f].open THEN [documents EXCEPT ![f] = new] ELSE documents
    BY <1>13, <2>1, <2>3 DEF SaveReply, CanApplyResult
  <2>5. new \in Doc /\ new.open /\ (new.dirty <=> new.text # new.saved)
    <3>1. (documents[f].text # op[o].submitted /\ documents[f].text # op[o].text) \in BOOLEAN
      OBVIOUS
    <3> QED
      BY <1>1, <2>3, <3>1 DEF SavedDoc, Doc, OpCall
  <2>6. new.text = documents[f].text \/ documents[f].text = op[o].submitted
    BY DEF SavedDoc
  <2> HIDE DEF new
  <2>7. BuffersInv'
    BY <2>1, <2>3, <2>4, <2>5 DEF BuffersInv, DirtyMeansUnsaved
  <2>8. AllKept
    <3>1. \A g \in Files : documents[g].dirty => documents[g].open
      BY NoDocIsClean DEF BuffersInv
    <3> QED
      BY <2>1, <2>3, <2>4, <2>5, <2>6, <3>1 DEF AllKept, TextIsKept, TextIsSaved
  <2> QED
    BY <2>1, <2>2, <2>7, <2>8, CallsMove
<1>14. CASE FailureReply(o)
  <2>1. /\ call.stage = "failed" /\ op' = [op EXCEPT ![o] = NoOp]
        /\ UNCHANGED <<lock, sources, buffers, disk, consented>>
    BY <1>14 DEF FailureReply
  <2> QED
    BY <1>3, <1>7, <2>1
<1> QED
  BY <1>5, <1>6, <1>9, <1>10, <1>11, <1>12, <1>13, <1>14

--------------------------------------------------------------------------------
(* Other programs, and the opening of a workspace.                         *)

\* Another program writes: a rename that is due is excused, if it is of that file.
LEMMA OutsideSteps ==
    ASSUME EditorInv, acts' \in Nat, NEW f \in Files, NEW text \in Texts, OutsideWrite(f, text)
    PROVE  EditorInv' /\ AllKept
<1> USE DEF EditorInv
<1>1. /\ disk' = [disk EXCEPT ![f] = text]
      /\ op' = [o \in Ops |-> IF op[o].stage = "checked" /\ op[o].file = f
                              THEN [op[o] EXCEPT !.raced = TRUE] ELSE op[o]]
      /\ UNCHANGED <<lock, sources, buffers, consented>>
  BY DEF OutsideWrite
<1>2. op \in [Ops -> OpCall] /\ disk \in [Files -> Texts]
  BY DEF WritesInv
<1>3. ASSUME NEW o \in Ops
      PROVE  /\ op'[o] \in OpCall /\ op'[o].stage = op[o].stage /\ op'[o].file = op[o].file
             /\ op'[o].base = op[o].base
             /\ ~op'[o].raced => ~op[o].raced /\ (op[o].stage = "checked" => op[o].file # f)
  <2>1. op[o] \in OpCall
    BY <1>2
  <2>2. CASE op[o].stage = "checked" /\ op[o].file = f
    <3>1. op'[o] = [op[o] EXCEPT !.raced = TRUE]
      BY <1>1, <2>2
    <3> QED
      BY <2>1, <3>1 DEF OpCall
  <2>3. CASE ~(op[o].stage = "checked" /\ op[o].file = f)
    <3>1. op'[o] = op[o]
      BY <1>1, <2>3
    <3> QED
      BY <2>1, <2>3, <3>1
  <2> QED
    BY <2>2, <2>3
<1>4. op' \in [Ops -> OpCall] /\ disk' \in [Files -> Texts]
  <2>1. op' = [o \in Ops |-> op'[o]]
    BY <1>1
  <2> QED
    BY <1>1, <1>2, <1>3, <2>1
<1>5. WritesInv'
  BY <1>1, <1>2, <1>3, <1>4 DEF WritesInv, SaveReplacesItsBase
<1>6. BuffersInv' /\ SourcesInv' /\ UNCHANGED documents
  BY <1>1 DEF buffers, sources, BuffersInv, SourcesInv, DirtyMeansUnsaved
<1>7. Mutating' <=> Mutating
  BY <1>3 DEF Mutating
<1>8. DirtyTexts' = DirtyTexts
  BY <1>6 DEF DirtyTexts
<1>9. LockInv'
  BY <1>1, <1>7, <1>8 DEF LockInv, DiscardIsConsented, lock
<1> QED
  BY <1>5, <1>6, <1>9, RestingIsKept

\* An opening begins when no call is in flight, so its adoption meets no rename.
LEMMA EditorOpeningSteps ==
    ASSUME EditorInv, acts' \in Nat, BeginOpen \/ CancelOpen \/ AdoptDocuments \/ FinishOpen
    PROVE  EditorInv' /\ (UserGivesUp \/ AllKept)
<1> USE DEF EditorInv
<1>1. CASE BeginOpen
  <2>1. /\ ~Mutating /\ opening' = "requesting" /\ consented' = DirtyTexts
        /\ workspaceGenerationRef' = workspaceGenerationRef + 1
        /\ UNCHANGED <<sources, buffers, op, disk>>
    BY <1>1 DEF BeginOpen
  <2>2. WritesInv' /\ BuffersInv' /\ SourcesInv' /\ UNCHANGED documents
    BY <2>1 DEF WritesInv, SaveReplacesItsBase, BuffersInv, SourcesInv, buffers, sources,
                DirtyMeansUnsaved
  <2>3. DirtyTexts' = DirtyTexts /\ (Mutating' <=> Mutating)
    BY <2>1, <2>2 DEF DirtyTexts, Mutating
  <2>4. DirtyTexts \in SUBSET (Files \X Texts)
    BY DEF DirtyTexts, BuffersInv, Doc
  <2>5. LockInv'
    BY <2>1, <2>3, <2>4 DEF LockInv, DiscardIsConsented
  <2> QED
    BY <2>2, <2>5, RestingIsKept
<1>2. CASE CancelOpen \/ FinishOpen
  <2>1. /\ opening' = "no" /\ consented' = {}
        /\ IF source.file = NoFile THEN UNCHANGED buffers
           ELSE ShowSource(documents, pendingPins, source)
        /\ UNCHANGED <<workspaceGenerationRef, sources, op, disk>>
    BY <1>2 DEF CancelOpen, FinishOpen, EndOpening
  <2>2. WritesInv' /\ SourcesInv' /\ LockInv'
    BY <2>1 DEF WritesInv, SaveReplacesItsBase, SourcesInv, sources, LockInv, DiscardIsConsented
  <2>3. CASE source.file = NoFile
    <3>1. BuffersInv' /\ UNCHANGED documents
      BY <2>1, <2>3 DEF BuffersInv, buffers, DirtyMeansUnsaved
    <3> QED
      BY <2>2, <3>1, RestingIsKept
  <2>4. CASE source.file # NoFile
    <3>1. source \in [file : Files, text : Texts] /\ pendingPins \in SUBSET Files
      BY <2>4 DEF SourcesInv, BuffersInv
    <3>2. BuffersInv' /\ AllKept
      BY <2>1, <2>4, <3>1, DocumentsAreOfTabs, SourceShown, DirtyIsKept
    <3> QED
      BY <2>2, <3>2
  <2> QED
    BY <2>3, <2>4
<1>3. CASE AdoptDocuments
  <2>1. /\ opening = "requesting" /\ opening' = "adopting"
        /\ source' = NoSource /\ latest' = NoRead /\ reading' = FALSE
        /\ documents' = [f \in Files |-> NoDoc] /\ tabs' = <<>> /\ active' = NoFile
        /\ pendingPins' = {} /\ disk' = [f \in Files |-> Original]
        /\ UNCHANGED <<workspaceGenerationRef, read, op, consented>>
    BY <1>3 DEF AdoptDocuments
  <2>2. ~Mutating
    BY <2>1 DEF LockInv, DiscardIsConsented
  <2>3. WritesInv'
    BY <2>1, <2>2, EditorAssumption DEF WritesInv, SaveReplacesItsBase, Mutating
  <2>4. SourcesInv'
    BY <2>1, EditorAssumption DEF SourcesInv, NoSource
  <2>5. BuffersInv'
    BY <2>1, NoDocIsClean DEF BuffersInv, DirtyMeansUnsaved, IsInjective, Contains
  <2>6. DirtyTexts' = {} /\ ~Mutating'
    BY <2>1, <2>2, NoDocIsClean DEF DirtyTexts, Mutating
  <2>7. LockInv'
    BY <2>1, <2>6 DEF LockInv, DiscardIsConsented
  <2> QED
    BY <1>3, <2>3, <2>4, <2>5, <2>7 DEF UserGivesUp
<1> QED
  BY <1>1, <1>2, <1>3

--------------------------------------------------------------------------------
(* The theorems.                                                           *)

\* The editor begins with no document.
LEMMA EditorBegins == EditorInit => EditorInv
<1> SUFFICES ASSUME EditorInit
             PROVE  EditorInv
  OBVIOUS
<1> USE DEF EditorInit
<1>1. BuffersInv
  BY NoDocIsClean DEF BuffersInv, DirtyMeansUnsaved, IsInjective, Contains
<1>2. SourcesInv
  BY EditorAssumption DEF SourcesInv, NoSource, NoCall, ReadCall
<1>3. NoOp \in OpCall /\ NoOp.stage = "idle"
  BY EditorAssumption DEF NoOp, OpCall, OpStages
<1>4. WritesInv
  BY <1>3, EditorAssumption DEF WritesInv, SaveReplacesItsBase
<1>5. LockInv
  BY DEF LockInv, DiscardIsConsented
<1> QED
  BY <1>1, <1>2, <1>4, <1>5 DEF EditorInv

\* Every step keeps the invariant, and every dirty text unless the user gives it up.
LEMMA EditorSteps ==
    ASSUME EditorInv, [EditorNext]_editorVars
    PROVE  EditorInv' /\ (UserGivesUp \/ AllKept)
<1>1. CASE Begin
  <2>1. acts' \in Nat
    BY <1>1 DEF Begin, EditorInv, LockInv
  <2> QED
    BY <1>1, <2>1, SourceSteps, UserSteps, CallSteps, OutsideSteps, EditorOpeningSteps DEF Begin
<1>2. CASE Follow
  <2>1. acts' \in Nat
    BY <1>2 DEF Follow, EditorInv, LockInv
  <2> QED
    BY <1>2, <2>1, SourceSteps, CallSteps, EditorOpeningSteps DEF Follow
<1>3. CASE UNCHANGED editorVars
  <2>1. /\ UNCHANGED <<lock, op, disk, consented, documents>> /\ acts' = acts
        /\ UNCHANGED <<source, latest, reading, read, tabs, active, pendingPins>>
    BY <1>3 DEF editorVars, sources, buffers
  <2>2. BuffersInv' /\ SourcesInv' /\ acts' \in Nat
    BY <2>1 DEF EditorInv, BuffersInv, SourcesInv, LockInv, DirtyMeansUnsaved
  <2> QED
    BY <2>1, <2>2, DocumentsMove, RestingIsKept DEF EditorInv
<1> QED
  BY <1>1, <1>2, <1>3 DEF EditorNext

\* The invariant of the open documents is inductive.
THEOREM EditorHolds == EditorSpec => []EditorInv
<1>1. EditorInv /\ [EditorNext]_editorVars => EditorInv'
  BY EditorSteps
<1> QED
  BY EditorBegins, <1>1, PTL DEF EditorSpec

\* Every variable of the editor keeps its type, and the tabs are the open documents,
\* each once.
THEOREM EditorTyped == EditorSpec => []EditorTypeOK
  BY EditorHolds, EditorIsTyped, PTL

\* useEditorController: the dirty flag, which is kept apart from the texts it speaks
\* of, tells the truth after any order of typing, saves, formats, reads and answers.
THEOREM DirtyTellsTheTruth == EditorSpec => []DirtyMeansUnsaved
<1>1. EditorInv => DirtyMeansUnsaved
  BY DEF EditorInv, BuffersInv
<1> QED
  BY <1>1, EditorHolds, PTL

\* confirmCanLeaveWorkspace and the edit lock: an opening that was confirmed discards
\* nothing that it was not confirmed for.
THEOREM DiscardsAreConsented == EditorSpec => []DiscardIsConsented
<1>1. EditorInv => DiscardIsConsented
  BY DEF EditorInv, LockInv
<1> QED
  BY <1>1, EditorHolds, PTL

\* write_workspace_file: of the saves and formats in flight none renames over a text
\* that it was not based on, but in the window for other programs.
THEOREM SavesReplaceTheirBase == EditorSpec => []SaveReplacesItsBase
<1>1. EditorInv => SaveReplacesItsBase
  BY DEF EditorInv, WritesInv
<1> QED
  BY <1>1, EditorHolds, PTL

\* Unsaved text leaves its buffer only where the user gives it up: no read, answer,
\* tab, save or cancelled opening takes it.
THEOREM UnsavedTextSurvives == EditorSpec => UnsavedTextIsKept
<1> DEFINE Kept == ~UserGivesUp => AllKept
<1>1. EditorInv /\ [EditorNext]_editorVars => [Kept]_editorVars
  BY EditorSteps
<1>2. EditorSpec => [][Kept]_editorVars
  BY <1>1, EditorHolds, PTL DEF EditorSpec
<1> QED
  BY <1>2, PTL DEF UnsavedTextIsKept, AllKept
================================================================================
