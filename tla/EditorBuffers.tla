----------------------------- MODULE EditorBuffers -----------------------------
(***************************************************************************)
(* The renderer's open documents: the hook useEditorController with the     *)
(* part of useAppController that reads sources for it, the opening of       *)
(* another workspace that locks it, and the two backend commands it calls,  *)
(* format_document and write_workspace_file.  A step is one handler, one    *)
(* backend section, or one answer with the React effects it causes.         *)
(***************************************************************************)
EXTENDS Naturals, Sequences, SequencesExt

CONSTANTS
    Files,      \* paths of a workspace
    NoFile,     \* the null of a path
    Texts,      \* contents a file or a buffer may have; a text is its hash
    Original,   \* the text of every file of a workspace that is opened
    Formatted,  \* what the formatter makes of a text
    Reads,      \* slots for readWorkspaceFile calls in flight
    NoRead,     \* no call is the latest one
    Ops,        \* slots for saveDocument and formatActiveDocument calls
    MaxActs     \* bound on what the user and other programs begin

ASSUME EditorAssumption ==
    /\ NoFile \notin Files
    /\ Original \in Texts
    /\ Formatted \in [Texts -> Texts]
    /\ NoRead \notin Reads
    /\ MaxActs \in Nat

VARIABLES
    opening,     \* the workspace mutation: "no", "requesting" or "adopting"
    workspaceGenerationRef,
    source,      \* the last source that was set, as [file, text]
    latest,      \* the read that holds the newest source request number
    reading,     \* sourceLoading
    read,        \* the reads in flight
    documents, tabs, active, pendingPins,
    op,          \* the saves and formats in flight
    disk,        \* the files of the open workspace
    acts,        \* what the user and other programs began so far
    consented    \* history: dirty text the user agreed to give up

lock == <<opening, workspaceGenerationRef>>
sources == <<source, latest, reading, read>>
buffers == <<documents, tabs, active, pendingPins>>
editorVars == <<lock, sources, buffers, op, disk, acts, consented>>

NoDoc == [open |-> FALSE, text |-> Original, saved |-> Original,
          dirty |-> FALSE, preview |-> "unset"]
Doc == [open : BOOLEAN, text : Texts, saved : Texts, dirty : BOOLEAN,
        preview : {"yes", "no", "unset"}]
NoSource == [file |-> NoFile, text |-> Original]
NoCall == [stage |-> "idle", file |-> NoFile, generation |-> 0, text |-> Original]
NoOp == [stage |-> "idle", kind |-> "save", file |-> NoFile, base |-> Original,
         submitted |-> Original, text |-> Original, raced |-> FALSE]

OpStages == {"idle", "formatting", "formatted", "writing", "checked", "written", "failed"}

EditorTypeOK ==
    /\ opening \in {"no", "requesting", "adopting"}
    /\ workspaceGenerationRef \in Nat
    /\ source \in [file : Files \cup {NoFile}, text : Texts]
    /\ latest \in Reads \cup {NoRead} /\ reading \in BOOLEAN
    /\ read \in [Reads -> [stage : {"idle", "asked", "read", "failed"},
                           file : Files \cup {NoFile}, generation : Nat, text : Texts]]
    /\ documents \in [Files -> Doc]
    \* the tabs are the open documents
    /\ tabs \in Seq(Files) /\ IsInjective(tabs)
    /\ \A f \in Files : documents[f].open <=> Contains(tabs, f)
    /\ active \in Files \cup {NoFile} /\ pendingPins \in SUBSET Files
    /\ op \in [Ops -> [stage : OpStages, kind : {"save", "format"},
                       file : Files \cup {NoFile}, base : Texts, submitted : Texts,
                       text : Texts, raced : BOOLEAN]]
    /\ disk \in [Files -> Texts] /\ acts \in Nat
    /\ consented \in SUBSET (Files \X Texts)

EditorInit ==
    /\ opening = "no" /\ workspaceGenerationRef = 1
    /\ source = NoSource /\ latest = NoRead /\ reading = FALSE
    /\ read = [r \in Reads |-> NoCall]
    /\ documents = [f \in Files |-> NoDoc] /\ tabs = <<>> /\ active = NoFile
    /\ pendingPins = {}
    /\ op = [o \in Ops |-> NoOp]
    /\ disk = [f \in Files |-> Original] /\ acts = 0
    /\ consented = {}

--------------------------------------------------------------------------------
(* The effect that follows `source` and the end of an opening.             *)

\* A dirty document is kept; a clean one is replaced by the source, a new one
\* takes the first clean preview tab, unless it was asked for pinned.
ShownPreview(docs, pins, f) ==
    IF f \in pins THEN "no"
    ELSE IF docs[f].open /\ docs[f].preview # "unset" THEN docs[f].preview ELSE "yes"

Replaceable(docs, g) == docs[g].preview = "yes" /\ ~docs[g].dirty

\* Seeded fault: a source that is shown again replaces the buffer.
ForgetfulKeeps(doc) == FALSE

Keeps(doc) == doc.open /\ doc.dirty

ShowSource(docs, pins, s) ==
    LET f == s.file
        shown == [open |-> TRUE, text |-> s.text, saved |-> s.text, dirty |-> FALSE,
                  preview |-> ShownPreview(docs, pins, f)]
        slot == SelectInSeq(tabs, LAMBDA g : Replaceable(docs, g))
        kept == Keeps(docs[f])
        reuse == ~docs[f].open /\ f \notin pins /\ slot # 0
    IN  /\ active' = f
        /\ pendingPins' = IF kept THEN pins ELSE pins \ {f}
        /\ documents' = IF kept THEN docs
                        ELSE [g \in Files |-> IF g = f THEN shown
                                              ELSE IF reuse /\ g = tabs[slot] THEN NoDoc
                                              ELSE docs[g]]
        /\ tabs' = IF docs[f].open THEN tabs
                   ELSE IF reuse THEN [tabs EXCEPT ![slot] = f] ELSE Append(tabs, f)

\* pinDocument, together with the opening it comes with.
PinnedDocs(f, pin) ==
    IF pin /\ documents[f].preview = "yes"
    THEN [documents EXCEPT ![f].preview = "no"] ELSE documents
PinnedPaths(f, pin) ==
    IF pin /\ ~documents[f].open THEN pendingPins \cup {f} ELSE pendingPins

\* openSource of the path that is the source already: no read, the source is
\* set again as it was.
ReopenSource(f, pin) ==
    /\ opening = "no" /\ source.file = f
    /\ latest' = NoRead /\ reading' = FALSE
    /\ ShowSource(PinnedDocs(f, pin), PinnedPaths(f, pin), source)
    /\ UNCHANGED <<lock, source, read, op, disk, consented>>

OpenSource(f, pin, r) ==
    /\ opening = "no" /\ source.file # f
    /\ read[r].stage = "idle"
    /\ read' = [read EXCEPT ![r] = [stage |-> "asked", file |-> f,
                                    generation |-> workspaceGenerationRef, text |-> Original]]
    /\ latest' = r /\ reading' = TRUE
    /\ documents' = PinnedDocs(f, pin) /\ pendingPins' = PinnedPaths(f, pin)
    /\ UNCHANGED <<lock, source, tabs, active, op, disk, consented>>

Stale(r) == r # latest \/ read[r].generation # workspaceGenerationRef

BackendRead(r) ==
    /\ read[r].stage = "asked"
    /\ \E stage \in {"read", "failed"} :
         read' = [read EXCEPT ![r].stage = stage, ![r].text = disk[read[r].file]]
    /\ UNCHANGED <<lock, source, latest, reading, buffers, op, disk, consented>>

\* The answer of a read.  While a workspace opens the effect is held back.
ReadReply(r) ==
    /\ read[r].stage \in {"read", "failed"}
    /\ read' = [read EXCEPT ![r] = NoCall]
    /\ reading' = IF Stale(r) THEN reading ELSE FALSE
    /\ latest' = IF r = latest THEN NoRead ELSE latest
    /\ IF Stale(r) \/ read[r].stage = "failed"
       THEN UNCHANGED <<source, buffers>>
       ELSE /\ source' = [file |-> read[r].file, text |-> read[r].text]
            /\ IF opening = "no" THEN ShowSource(documents, pendingPins, source')
                                 ELSE UNCHANGED buffers
    /\ UNCHANGED <<lock, op, disk, consented>>

\* The answer of handleNewFile: a source that no request number guards.
NewFileReply(f) ==
    /\ opening # "adopting" /\ ~documents[f].open /\ disk[f] = Original
    /\ source' = [file |-> f, text |-> Original] /\ reading' = FALSE
    /\ IF opening = "no" THEN ShowSource(documents, pendingPins, source')
                         ELSE UNCHANGED buffers
    /\ UNCHANGED <<lock, latest, read, op, disk, consented>>

--------------------------------------------------------------------------------
(* What the user does with a document.                                     *)

SelectTab(f) ==
    /\ documents[f].open /\ active' = f
    /\ UNCHANGED <<lock, sources, documents, tabs, pendingPins, op, disk, consented>>

\* A search match in a dirty document: it is shown, the reads under way lapse.
ShowDirtyMatch(f) ==
    /\ documents[f].open /\ documents[f].dirty
    /\ active' = f /\ latest' = NoRead /\ reading' = FALSE
    /\ UNCHANGED <<lock, source, read, documents, tabs, pendingPins, op, disk, consented>>

PinDocument(f) ==
    /\ opening = "no" /\ documents[f].preview = "yes"
    /\ documents' = PinnedDocs(f, TRUE)
    /\ UNCHANGED <<lock, sources, tabs, active, pendingPins, op, disk, consented>>

\* Seeded fault: typing goes on while a workspace opens.
UnlockedMayEdit == TRUE

MayEdit == opening = "no"

UpdateContent(text) ==
    /\ MayEdit /\ active # NoFile /\ documents[active].open
    /\ documents' = [documents EXCEPT ![active].text = text, ![active].preview = "no",
                                      ![active].dirty = (text # documents[active].saved)]
    /\ UNCHANGED <<lock, sources, tabs, active, pendingPins, op, disk, consented>>

\* The user has confirmed when the document is dirty.
CloseDocument(f) ==
    /\ opening = "no" /\ documents[f].open
    /\ documents' = [documents EXCEPT ![f] = NoDoc]
    /\ LET index == CHOOSE i \in DOMAIN tabs : tabs[i] = f
       IN  /\ tabs' = RemoveAt(tabs, index)
           /\ active' = IF active # f THEN active
                        ELSE IF tabs' = <<>> THEN NoFile
                        ELSE tabs'[IF index > 1 THEN index - 1 ELSE 1]
    /\ UNCHANGED <<lock, sources, pendingPins, op, disk, consented>>

--------------------------------------------------------------------------------
(* Saving and formatting.  A mutation counts from its call to its answer.  *)

Mutating == \E o \in Ops : op[o].stage # "idle"
CanApplyResult == opening = "no"

Submit(o, kind, stage) ==
    /\ opening = "no" /\ active # NoFile /\ op[o].stage = "idle"
    /\ documents[active].open
    /\ op' = [op EXCEPT ![o] =
         [stage |-> stage, kind |-> kind, file |-> active, base |-> documents[active].saved,
          submitted |-> documents[active].text, text |-> documents[active].text,
          raced |-> FALSE]]

SaveDocument(o) ==
    /\ \E stage \in {"formatting", "writing"} : Submit(o, "save", stage)
    /\ documents[active].dirty
    /\ UNCHANGED <<lock, sources, buffers, disk, consented>>

FormatActiveDocument(o) ==
    /\ Submit(o, "format", "formatting")
    /\ documents' = [documents EXCEPT ![active].preview = "no"]
    /\ UNCHANGED <<lock, sources, tabs, active, pendingPins, disk, consented>>

\* format_document refuses a file that is not the one the buffer was read from.
BackendFormat(o) ==
    /\ op[o].stage = "formatting"
    /\ \/ /\ disk[op[o].file] = op[o].base
          /\ op' = [op EXCEPT ![o].stage = "formatted", ![o].text = Formatted[op[o].text]]
       \/ op' = [op EXCEPT ![o].stage = "failed"]
    /\ UNCHANGED <<lock, sources, buffers, disk, consented>>

\* The formatted text of a save is written; that of a format replaces the
\* submitted one, if it is still there.
FormatReply(o) ==
    /\ op[o].stage = "formatted"
    /\ LET f == op[o].file
           applies == /\ CanApplyResult /\ op[o].kind = "format"
                      /\ documents[f].open /\ documents[f].text = op[o].submitted
       IN  documents' = IF applies
                        THEN [documents EXCEPT ![f].text = op[o].text,
                                               ![f].dirty = (op[o].text # documents[f].saved)]
                        ELSE documents
    /\ op' = [op EXCEPT ![o] = IF CanApplyResult /\ @.kind = "save"
                               THEN [@ EXCEPT !.stage = "writing"] ELSE NoOp]
    /\ UNCHANGED <<lock, sources, tabs, active, pendingPins, disk, consented>>

\* write_workspace_file under the analysis reservation of the context, up to
\* the last comparison of the hash; then the rename.
\* Seeded fault: two writes check their hashes before either renames.
UnguardedAnalysisFree == TRUE

AnalysisFree == \A p \in Ops : op[p].stage # "checked"

CheckWrite(o) ==
    /\ op[o].stage = "writing" /\ AnalysisFree
    /\ op' = [op EXCEPT ![o].stage =
                IF disk[op[o].file] = op[o].base THEN "checked" ELSE "failed"]
    /\ UNCHANGED <<lock, sources, buffers, disk, consented>>

CommitWrite(o) ==
    /\ op[o].stage = "checked"
    /\ \/ /\ disk' = [disk EXCEPT ![op[o].file] = op[o].text]
          /\ op' = [op EXCEPT ![o].stage = "written"]
       \/ op' = [op EXCEPT ![o].stage = "failed"] /\ UNCHANGED disk
    /\ UNCHANGED <<lock, sources, buffers, consented>>

\* The saved document keeps what was typed in the meantime and loses `preview`.
\* Seeded fault: what was typed meanwhile counts as saved.
HastySavedDoc(doc, o) ==
    [open |-> TRUE, saved |-> op[o].text, dirty |-> FALSE, preview |-> "unset",
     text |-> IF doc.text # op[o].submitted THEN doc.text ELSE op[o].text]

SavedDoc(doc, o) ==
    LET typed == doc.text # op[o].submitted
    IN  [open |-> TRUE, saved |-> op[o].text,
         text |-> IF typed THEN doc.text ELSE op[o].text,
         dirty |-> typed /\ doc.text # op[o].text, preview |-> "unset"]

SaveReply(o) ==
    /\ op[o].stage = "written"
    /\ LET f == op[o].file
       IN  documents' = IF CanApplyResult /\ documents[f].open
                        THEN [documents EXCEPT ![f] = SavedDoc(@, o)] ELSE documents
    /\ op' = [op EXCEPT ![o] = NoOp]
    /\ UNCHANGED <<lock, sources, tabs, active, pendingPins, disk, consented>>

FailureReply(o) ==
    /\ op[o].stage = "failed"
    /\ op' = [op EXCEPT ![o] = NoOp]
    /\ UNCHANGED <<lock, sources, buffers, disk, consented>>

OutsideWrite(f, text) ==
    /\ text # disk[f]
    /\ disk' = [disk EXCEPT ![f] = text]
    /\ op' = [o \in Ops |-> IF op[o].stage = "checked" /\ op[o].file = f
                            THEN [op[o] EXCEPT !.raced = TRUE] ELSE op[o]]
    /\ UNCHANGED <<lock, sources, buffers, consented>>

--------------------------------------------------------------------------------
(* Opening another workspace.                                              *)

DirtyTexts == {<<f, documents[f].text>> : f \in {g \in Files : documents[g].dirty}}

\* canChangeWorkspace, which asks the user when documents are dirty, and the
\* start of runWorkspaceMutation.
BeginOpen ==
    /\ opening = "no" /\ ~Mutating
    /\ opening' = "requesting" /\ workspaceGenerationRef' = workspaceGenerationRef + 1
    /\ consented' = DirtyTexts
    /\ UNCHANGED <<sources, buffers, op, disk>>

\* The lock goes; the effect runs for the source there is.
EndOpening ==
    /\ opening' = "no" /\ consented' = {}
    /\ IF source.file = NoFile THEN UNCHANGED buffers
       ELSE ShowSource(documents, pendingPins, source)
    /\ UNCHANGED <<workspaceGenerationRef, sources, op, disk>>

\* The picker was cancelled, or the request failed.
CancelOpen == opening = "requesting" /\ EndOpening

\* adoptWorkspace
AdoptDocuments ==
    /\ opening = "requesting" /\ opening' = "adopting"
    /\ source' = NoSource /\ latest' = NoRead /\ reading' = FALSE
    /\ documents' = [f \in Files |-> NoDoc] /\ tabs' = <<>> /\ active' = NoFile
    /\ pendingPins' = {}
    /\ disk' = [f \in Files |-> Original]
    /\ UNCHANGED <<workspaceGenerationRef, read, op, consented>>

FinishOpen == opening = "adopting" /\ EndOpening

\* What somebody begins, and what follows from it.
Begin ==
    /\ acts < MaxActs /\ acts' = acts + 1
    /\ \/ \E f \in Files, pin \in BOOLEAN :
             ReopenSource(f, pin) \/ \E r \in Reads : OpenSource(f, pin, r)
       \/ \E f \in Files : \/ NewFileReply(f) \/ SelectTab(f) \/ ShowDirtyMatch(f)
                           \/ PinDocument(f) \/ CloseDocument(f)
                           \/ \E text \in Texts : OutsideWrite(f, text)
       \/ \E text \in Texts : UpdateContent(text)
       \/ \E o \in Ops : SaveDocument(o) \/ FormatActiveDocument(o)
       \/ BeginOpen

Follow ==
    /\ UNCHANGED acts
    /\ \/ \E r \in Reads : BackendRead(r) \/ ReadReply(r)
       \/ \E o \in Ops : \/ BackendFormat(o) \/ FormatReply(o) \/ CheckWrite(o)
                         \/ CommitWrite(o) \/ SaveReply(o) \/ FailureReply(o)
       \/ CancelOpen \/ AdoptDocuments \/ FinishOpen

EditorNext == Begin \/ Follow

EditorSpec == EditorInit /\ [][EditorNext]_editorVars

--------------------------------------------------------------------------------
(* Properties.                                                             *)

\* A document is dirty exactly when its text differs from the version that
\* its next save will be compared with.
DirtyMeansUnsaved == \A f \in Files : documents[f].dirty <=> documents[f].text # documents[f].saved

\* While a workspace opens nothing may come in that the user was not asked
\* about: every dirty text is one that the confirmation named, although reads,
\* answers and tab changes go on (confirmCanLeaveWorkspace and the edit lock).
DiscardIsConsented ==
    opening # "no" => DirtyTexts \subseteq consented /\ ~Mutating

\* A save renames over the version it was based on, unless another program
\* wrote between the last comparison and the rename: of two saves in flight
\* the second does not undo the first.
SaveReplacesItsBase ==
    \A o \in Ops : op[o].stage = "checked" /\ ~op[o].raced => disk[op[o].file] = op[o].base

\* Unsaved text is given up by its user only: in any other step it stays in
\* its buffer, or it has become the saved version.
UserGivesUp ==
    \/ \E text \in Texts : UpdateContent(text)
    \/ \E f \in Files : CloseDocument(f)
    \/ \E o \in Ops : FormatReply(o)
    \/ AdoptDocuments
TextIsKept(f) == documents'[f].open /\ documents'[f].text = documents[f].text
TextIsSaved(f) == \E o \in Ops : /\ op[o].file = f /\ op[o].stage = "written"
                                /\ op[o].submitted = documents[f].text
UnsavedTextIsKept ==
    [][~UserGivesUp => \A f \in Files :
          documents[f].dirty => TextIsKept(f) \/ TextIsSaved(f)]_editorVars

\* docs/PERFORMANCE.md:446: "Picker cancellation unlocks the unchanged tabs".
\* The effect that runs when the lock goes shows the last source again, and a
\* save never updates that source: a clean buffer goes back to what was on disk
\* before its save.
CancelKeepsTabs ==
    [][opening = "requesting" /\ opening' = "no" =>
          \A f \in Files : documents[f].open /\ documents'[f].open
                           => documents'[f].text = documents[f].text]_editorVars
================================================================================
