---------------------------- MODULE TerminalConsole ----------------------------
(***************************************************************************)
(* The single terminal slot of the backend (terminal/state.rs, commands.rs) *)
(* and the renderer's TerminalConsole.  An open holds a reservation over a  *)
(* consent dialog and tells its session id last; the shell may print and    *)
(* end before the renderer knows that id.  The threads inside a session are *)
(* TerminalSession's: here it prints, ends or fails, and its exit, if it is *)
(* told at all, comes last.                                                 *)
(***************************************************************************)
EXTENDS Naturals, Sequences

CONSTANTS
    MaxOpens,    \* bound on the reservations; a session bears its generation
    MaxEarly,    \* MAX_PENDING_OPEN_EVENTS, 32 in the code
    MaxPrinted,  \* bound on the chunks all shells print
    MaxMounts,   \* bound on how often the console is mounted
    MaxInputs    \* bound on the inputs and resizes of the user

\* The late events of a session that was closed cannot fill the early buffer.
ASSUME ConsoleAssumption ==
    /\ {MaxOpens, MaxEarly, MaxPrinted, MaxMounts, MaxInputs} \subseteq Nat
    /\ MaxEarly > 1

Sessions == 1..MaxOpens
None == 0
Kinds == {"data", "exit"}
Idle == [kind |-> "idle", of |-> None]

VARIABLES
    \* backend
    slot,       \* Slot: idle, starting or active, and its generation
    generations,\* the last generation
    switching,  \* workspace_switching
    moved,      \* another workspace was installed while the slot was taken
    down,       \* the state was dropped: close_all has run
    opener,     \* the open_terminal call under way: its stage and generation
    shells,     \* every session's process and its place in the registry
    printed,    \* chunks a session printed
    wire,       \* events under way to the renderer
    \* renderer
    mounts, mounted, ready,
    openCall,   \* open(): none, running, refused, or opened as a session
    session,    \* sessionRef and the session state
    early, omitted,  \* pendingEventsRef, pendingDroppedRef
    closeCall,  \* session of the close() under way
    closes,     \* sessions whose closeTerminal is under way
    entry,      \* the write or resize under way: its session and its answer
    entries,
    \* history
    told,       \* sessions whose exit was published or whose input was refused
    seen,       \* last chunk of the session that was shown
    gap, notice,\* a chunk of the session was left out; an omission was announced
    stray       \* sessions whose open() was under way when the console went

slotVars == <<slot, generations, switching, moved, down>>
openerVars == <<opener, shells>>
outputVars == <<printed, wire, told>>
mountVars == <<mounts, mounted, ready>>
earlyVars == <<early, omitted>>
callVars == <<openCall, closeCall, closes, entry, entries, stray>>
shownVars == <<session, seen, gap, notice>>
consoleVars == <<slotVars, openerVars, outputVars, mountVars, earlyVars, callVars, shownVars>>

Event(s, k, n) == [session |-> s, kind |-> k, n |-> n]
Events == [session : Sessions, kind : Kinds, n : 0..MaxPrinted]
NoOpener == [stage |-> "none", of |-> None]
NoEntry == [of |-> None, answer |-> "none"]

ConsoleTypeOK ==
    /\ slot \in [kind : {"idle", "starting", "active"}, of : 0..MaxOpens]
    /\ generations \in 0..MaxOpens /\ switching \in BOOLEAN
    /\ moved \in BOOLEAN /\ down \in BOOLEAN
    /\ opener \in [stage : {"none", "confirming", "spawned"}, of : 0..MaxOpens]
    /\ shells \in [Sessions -> {"none", "spawned", "alive", "ending", "finished", "gone"}]
    /\ printed \in [Sessions -> 0..MaxPrinted]
    /\ wire \in Seq(Events) /\ told \subseteq Sessions
    /\ mounts \in 0..MaxMounts /\ mounted \in BOOLEAN /\ ready \in BOOLEAN
    /\ early \in Seq(Events) /\ Len(early) <= MaxEarly /\ omitted \in Nat
    /\ openCall \in [stage : {"none", "running", "refused", "opened"}, of : 0..MaxOpens]
    /\ closeCall \in 0..MaxOpens /\ closes \subseteq Sessions
    /\ entry \in [of : 0..MaxOpens, answer : {"none", "asked", "inactive"}]
    /\ entries \in 0..MaxInputs /\ stray \subseteq Sessions
    /\ session \in 0..MaxOpens /\ seen \in 0..MaxPrinted /\ gap \in BOOLEAN /\ notice \in BOOLEAN

NoCall == [stage |-> "none", of |-> None]

ConsoleInit ==
    /\ slot = Idle /\ generations = 0 /\ switching = FALSE
    /\ moved = FALSE /\ down = FALSE
    /\ opener = NoOpener /\ shells = [s \in Sessions |-> "none"]
    /\ printed = [s \in Sessions |-> 0] /\ wire = <<>> /\ told = {}
    /\ mounts = 0 /\ mounted = FALSE /\ ready = FALSE
    /\ openCall = NoCall /\ session = None /\ early = <<>> /\ omitted = 0
    /\ closeCall = None /\ closes = {} /\ entry = NoEntry /\ entries = 0
    /\ seen = 0 /\ gap = FALSE /\ notice = FALSE /\ stray = {}

ActiveIs(s) == slot = [kind |-> "active", of |-> s]

--------------------------------------------------------------------------------
(* Backend: the slot.                                                       *)

\* open() of the renderer and reserve(): the call is refused while a workspace
\* switch is prepared or another terminal is starting or open.
OpenConsole ==
    /\ mounted /\ ready /\ ~down /\ generations < MaxOpens
    /\ openCall = NoCall /\ session = None /\ closeCall = None
    /\ early' = <<>> /\ omitted' = 0
    /\ IF switching \/ slot # Idle
       THEN openCall' = [stage |-> "refused", of |-> None] /\ UNCHANGED <<slot, generations, opener>>
       ELSE /\ generations' = generations + 1
            /\ slot' = [kind |-> "starting", of |-> generations']
            /\ opener' = [stage |-> "confirming", of |-> generations']
            /\ openCall' = [stage |-> "running", of |-> generations']
    /\ UNCHANGED <<switching, moved, down, shells, outputVars, mountVars,
                   closeCall, closes, entry, entries, stray, shownVars>>

\* The reservation is dropped with the call that fails.
DropReservation ==
    slot' = IF slot = [kind |-> "starting", of |-> opener.of] THEN Idle ELSE slot

\* The answer goes to the console that asked, if it is still there.
AnswerOpen(stage) ==
    openCall' = IF openCall.of = opener.of THEN [openCall EXCEPT !.stage = stage] ELSE openCall

\* The user declines, or a profile, a directory or the pty fails before or after
\* the dialog.
OpenFails ==
    /\ opener.stage = "confirming"
    /\ DropReservation /\ AnswerOpen("refused") /\ opener' = NoOpener
    /\ UNCHANGED <<generations, switching, moved, down, shells, outputVars,
                   mountVars, earlyVars, closeCall, closes, entry, entries, stray, shownVars>>

\* The user consents and the shell is spawned, in the workspace of the dialog.
SpawnShell ==
    /\ opener.stage = "confirming" /\ ~moved
    /\ opener' = [opener EXCEPT !.stage = "spawned"]
    /\ shells' = [shells EXCEPT ![opener.of] = "spawned"]
    /\ UNCHANGED <<slotVars, outputVars, mountVars, earlyVars, callVars, shownVars>>

\* Seeded fault: the reservation is not looked at.
BlindMayActivate(g) == TRUE

MayActivate(g) == slot = [kind |-> "starting", of |-> g]

\* activate, spawn_session_io and the answer; a shell whose reservation is gone
\* is killed.
ActivateShell ==
    /\ opener.stage = "spawned" /\ opener' = NoOpener
    /\ IF MayActivate(opener.of)
       THEN /\ slot' = [kind |-> "active", of |-> opener.of]
            /\ shells' = [shells EXCEPT ![opener.of] = "alive"]
            /\ AnswerOpen("opened")
       ELSE /\ shells' = [shells EXCEPT ![opener.of] = "gone"]
            /\ AnswerOpen("refused") /\ UNCHANGED slot
    /\ UNCHANGED <<generations, switching, moved, down, outputVars, mountVars,
                   earlyVars, closeCall, closes, entry, entries, stray, shownVars>>

\* TerminalRegistry::close takes the session out of the slot and then shuts it
\* down; a session that is not there is left alone.
TakeOut(s) ==
    IF ActiveIs(s)
    THEN slot' = Idle /\ shells' = [shells EXCEPT ![s] = "ending"]
    ELSE UNCHANGED <<slot, shells>>

\* shutdown() of a session that was taken out.  The pump may have the exit in
\* its queue and publish it.
ShutDown(s) ==
    /\ shells[s] = "ending" /\ shells' = [shells EXCEPT ![s] = "gone"]
    /\ \/ UNCHANGED <<wire, told>>
       \/ wire' = Append(wire, Event(s, "exit", printed[s])) /\ told' = told \cup {s}
    /\ UNCHANGED <<slotVars, opener, printed, mountVars, earlyVars, callVars, shownVars>>

ShellPrints(s) ==
    /\ shells[s] = "alive" /\ \A p \in Sessions : p < s => printed[p] + printed[s] < MaxPrinted
    /\ printed[s] < MaxPrinted
    /\ printed' = [printed EXCEPT ![s] = @ + 1]
    /\ wire' = Append(wire, Event(s, "data", printed'[s]))
    /\ UNCHANGED <<slotVars, openerVars, told, mountVars, earlyVars, callVars, shownVars>>

\* The shell ends and all it printed was published; the end of pump_events
\* finishes the session and then tells its exit.
ShellFinishes(s) ==
    /\ shells[s] = "alive" /\ shells' = [shells EXCEPT ![s] = "finished"]
    /\ slot' = IF ActiveIs(s) THEN Idle ELSE slot
    /\ UNCHANGED <<generations, switching, moved, down, opener, outputVars,
                   mountVars, earlyVars, callVars, shownVars>>

PublishExit(s) ==
    /\ shells[s] = "finished" /\ shells' = [shells EXCEPT ![s] = "gone"]
    /\ wire' = Append(wire, Event(s, "exit", printed[s])) /\ told' = told \cup {s}
    /\ UNCHANGED <<slotVars, opener, printed, mountVars, earlyVars, callVars, shownVars>>

\* The writer, the reader or the waiter fails and closes the session.  The writer
\* tells nobody; the error of the others is shown and changes nothing.
SessionFails(s) ==
    /\ shells[s] = "alive" /\ TakeOut(s)
    /\ UNCHANGED <<generations, switching, moved, down, opener, outputVars,
                   mountVars, earlyVars, callVars, shownVars>>

\* close_terminal of a console that does not wait for it.
BackendCloses(s) ==
    /\ ~down /\ s \in closes /\ closes' = closes \ {s} /\ TakeOut(s)
    /\ UNCHANGED <<generations, switching, moved, down, opener, outputVars,
                   mountVars, earlyVars, openCall, closeCall, entry, entries, stray, shownVars>>

\* Nothing is left of the console's own state.
ConsoleGone ==
    /\ openCall' = NoCall /\ closeCall' = None /\ session' = None
    /\ entry' = NoEntry /\ early' = <<>> /\ omitted' = 0
    /\ seen' = 0 /\ gap' = FALSE /\ notice' = FALSE

BeginSwitch ==
    /\ ~down /\ ~switching /\ slot = Idle /\ switching' = TRUE
    /\ UNCHANGED <<slot, generations, moved, down, openerVars, outputVars, mountVars, earlyVars,
                   callVars, shownVars>>

\* complete_workspace_switch after the workspace was installed, or cancel.
EndSwitch ==
    /\ ~down /\ switching /\ switching' = FALSE
    /\ moved' = moved \/ moved' = (moved \/ slot # Idle)
    /\ UNCHANGED <<slot, generations, down, openerVars, outputVars, mountVars,
                   earlyVars, callVars, shownVars>>

\* The application ends: the state's drop calls close_all.
TearDown ==
    /\ ~down /\ down' = TRUE /\ slot' = Idle
    /\ shells' = IF slot.kind = "active" THEN [shells EXCEPT ![slot.of] = "ending"] ELSE shells
    /\ wire' = <<>> /\ mounted' = FALSE /\ ready' = FALSE /\ ConsoleGone
    /\ closes' = {} /\ UNCHANGED stray
    /\ UNCHANGED <<generations, switching, moved, opener, printed, told, mounts, entries>>

--------------------------------------------------------------------------------
(* Renderer: TerminalConsole.                                               *)

MountConsole ==
    /\ ~down /\ ~mounted /\ mounts < MaxMounts
    /\ mounts' = mounts + 1 /\ mounted' = TRUE /\ ready' = FALSE
    /\ UNCHANGED <<slotVars, openerVars, outputVars, earlyVars, callVars, shownVars>>

\* The profiles are listed and the listener is installed before New is offered.
ConsoleReady ==
    /\ ~down /\ mounted /\ ~ready /\ ready' = TRUE
    /\ UNCHANGED <<slotVars, openerVars, outputVars, mounts, mounted, earlyVars, callVars, shownVars>>

\* The clean-up of the effect closes the session it knows of; a close() that is
\* under way goes on.
ClosedByUnmount == closes \cup ({session, closeCall} \ {None})

\* The console goes when the debugger takes the workbench.  An open() that is
\* under way goes on without it.
UnmountConsole ==
    /\ ~down /\ mounted /\ mounted' = FALSE /\ ready' = FALSE
    /\ closes' = ClosedByUnmount
    /\ stray' = IF openCall.stage \in {"running", "opened"} THEN stray \cup {openCall.of} ELSE stray
    /\ ConsoleGone
    /\ UNCHANGED <<slotVars, openerVars, outputVars, mounts, entries>>

\* applyTerminalEvent
Applied(e, view) ==
    CASE e.kind = "exit" -> [view EXCEPT !.session = None, !.gap = @ \/ e.n # view.seen]
      [] e.kind = "data" -> [view EXCEPT !.seen = e.n, !.gap = @ \/ e.n # view.seen + 1]
      [] OTHER -> view

View == [session |-> session, seen |-> seen, gap |-> gap]
Show(view) == session' = view.session /\ seen' = view.seen /\ gap' = view.gap

\* Seeded fault: events that give way are not counted.
QuietBuffer(e) ==
    /\ early' = Append(IF Len(early) = MaxEarly THEN Tail(early) ELSE early, e)
    /\ UNCHANGED omitted

\* An event of a session that is not known yet: the newest MaxEarly are kept.
Buffer(e) ==
    /\ early' = Append(IF Len(early) = MaxEarly THEN Tail(early) ELSE early, e)
    /\ omitted' = IF Len(early) = MaxEarly THEN omitted + 1 ELSE omitted

\* The listener of the console; a console that is not there hears nothing.
DeliverEvent ==
    /\ ~down /\ wire # <<>> /\ wire' = Tail(wire)
    /\ LET e == Head(wire) IN
       IF mounted /\ ready /\ session = e.session
       THEN Show(Applied(e, View)) /\ UNCHANGED earlyVars
       ELSE /\ UNCHANGED <<session, seen, gap>>
            /\ IF openCall # NoCall THEN Buffer(e) ELSE UNCHANGED earlyVars
    /\ UNCHANGED <<slotVars, openerVars, printed, told, mountVars, callVars, notice>>

\* Seeded fault: the early events are thrown away.
ForgetfulReplay(s) == [session |-> s, seen |-> 0, gap |-> FALSE]

\* The early events of the session, in the order they came.
Replay(s) ==
    LET views[i \in 0..Len(early)] ==
            IF i = 0 THEN [session |-> s, seen |-> 0, gap |-> FALSE]
            ELSE IF early[i].session = s THEN Applied(early[i], views[i - 1])
            ELSE views[i - 1]
    IN views[Len(early)]

\* The answer of openTerminal.
OpenAnswered ==
    /\ ~down /\ openCall.stage \in {"refused", "opened"}
    /\ openCall' = NoCall /\ early' = <<>> /\ omitted' = 0
    /\ IF openCall.stage = "opened"
       THEN Show(Replay(openCall.of)) /\ notice' = (omitted > 0)
       ELSE UNCHANGED shownVars
    /\ UNCHANGED <<slotVars, openerVars, outputVars, mountVars, closeCall, closes, entry, entries, stray>>

\* close(): the call, what the backend does for it, and its answer.
CloseConsole ==
    /\ ~down /\ session # None /\ openCall = NoCall /\ closeCall = None /\ closeCall' = session
    /\ UNCHANGED <<slotVars, openerVars, outputVars, mountVars, earlyVars, openCall, closes,
                   entry, entries, stray, shownVars>>

CloseAnswered ==
    /\ ~down /\ closeCall # None /\ closeCall' = None /\ TakeOut(closeCall)
    /\ session' = None /\ UNCHANGED <<seen, gap, notice>>
    /\ UNCHANGED <<generations, switching, moved, down, opener, outputVars,
                   mountVars, earlyVars, openCall, closes, entry, entries, stray>>

\* onData or the resize observer: write_terminal or resize_terminal.
SendInput ==
    /\ ~down /\ session # None /\ entry = NoEntry /\ entries < MaxInputs
    /\ entries' = entries + 1 /\ entry' = [of |-> session, answer |-> "asked"]
    /\ UNCHANGED <<slotVars, openerVars, outputVars, mountVars, earlyVars, openCall, closeCall,
                   closes, stray, shownVars>>

\* A session that is not in the slot, or has lost its writer, accepts nothing.  An
\* input that is accepted, or finds the queue full, changes nothing here.
BackendTakesInput ==
    /\ ~down /\ entry.answer = "asked"
    /\ \/ entry' = [entry EXCEPT !.answer = "inactive"] /\ told' = told \cup {entry.of}
       \/ ActiveIs(entry.of) /\ entry' = NoEntry /\ UNCHANGED told
    /\ UNCHANGED <<slotVars, openerVars, printed, wire, mountVars, earlyVars, openCall,
                   closeCall, closes, entries, stray, shownVars>>

\* reportInactiveSession: the stale session is closed and cleared.
RefusalAnswered ==
    /\ ~down /\ entry.answer = "inactive" /\ entry' = NoEntry
    /\ IF session = entry.of
       THEN session' = None /\ closes' = closes \cup {entry.of}
       ELSE UNCHANGED <<session, closes>>
    /\ UNCHANGED <<slotVars, openerVars, outputVars, mountVars, earlyVars, openCall, closeCall,
                   entries, stray, seen, gap, notice>>

ConsoleNext ==
    \/ OpenConsole \/ OpenFails \/ SpawnShell \/ ActivateShell
    \/ \E s \in Sessions :
        \/ ShutDown(s) \/ ShellPrints(s) \/ ShellFinishes(s)
        \/ PublishExit(s) \/ SessionFails(s) \/ BackendCloses(s)
    \/ BeginSwitch \/ EndSwitch \/ TearDown
    \/ MountConsole \/ ConsoleReady \/ UnmountConsole
    \/ DeliverEvent \/ OpenAnswered \/ CloseConsole \/ CloseAnswered
    \/ SendInput \/ BackendTakesInput \/ RefusalAnswered

ConsoleSpec == ConsoleInit /\ [][ConsoleNext]_consoleVars

\* Events and answers arrive, and a session that was taken out is shut down.
\* The user, the shell and the dialog owe nothing.
ConsoleFairness ==
    /\ WF_consoleVars(DeliverEvent)
    /\ WF_consoleVars(OpenAnswered \/ RefusalAnswered)
    /\ WF_consoleVars(\E s \in Sessions : ShutDown(s))

FairConsoleSpec == ConsoleSpec /\ ConsoleFairness

--------------------------------------------------------------------------------
(* Properties.                                                              *)

\* A shell that runs is held by the slot, is being started, or was taken out and
\* is being shut down; after close_all none is started any more.  It is in the
\* open workspace while the slot holds it.
ShellIsHeld ==
    \A s \in Sessions :
        /\ shells[s] = "alive" => ActiveIs(s) /\ ~down /\ ~moved
        /\ shells[s] = "spawned" => opener.stage = "spawned" /\ opener.of = s

\* The shell in the slot can be reached: the console shows it, is about to, or
\* has its close under way.  Excepted is a shell whose open was under way when
\* the console went: nobody will ever close it (TerminalConsole.tsx:189).
ShellIsReachable ==
    \A s \in Sessions \ stray :
        ActiveIs(s) => session = s \/ openCall = [stage |-> "opened", of |-> s] \/ s \in closes

NoShellIsLost == ShellIsHeld /\ ShellIsReachable

\* Output that is left out before the session is known is announced.
GapIsTold == gap => notice

\* A console lets go of a session whose exit was published, also before it knew
\* of it, and of one that refused its input.
DeadIsShown == ~down /\ session \in told
DeadSessionIsCleared == DeadIsShown ~> ~DeadIsShown
================================================================================
