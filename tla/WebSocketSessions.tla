--------------------------- MODULE WebSocketSessions ---------------------------
(***************************************************************************)
(* The backend's WebSocket sessions (websocket/commands.rs, state.rs,       *)
(* transport.rs) and what the renderer makes of them: the bounded event     *)
(* list of useWebSocketController and the phase that WebSocketConsole shows *)
(* and decides its buttons by.  A session's events and the answers of the   *)
(* commands about it travel apart, and the console comes and goes with its  *)
(* tab while the list stays.                                                *)
(***************************************************************************)
EXTENDS Naturals, Sequences, FiniteSets, FiniteSetsExt

CONSTANTS
    MaxConnects, \* bound on the connections; a session bears its number
    MaxSlots,    \* MAX_ACTIVE_SESSIONS, 8 in the code
    MaxEvents,   \* MAX_WEBSOCKET_EVENTS, 300 in the code
    MaxInbound,  \* bound on the inbound messages
    MaxBacklog,  \* bound on the events under way
    MaxTabs      \* bound on how often the console is left

\* The list holds at least the end of a session and all of a connection that fails.
ASSUME WebSocketAssumption ==
    /\ {MaxConnects, MaxInbound, MaxBacklog, MaxTabs} \subseteq Nat
    /\ MaxSlots \in Nat \ {0} /\ MaxEvents \in Nat /\ MaxEvents >= 4

Connections == 1..MaxConnects
Nobody == 0
EventKinds == {"connecting", "open", "message", "error", "closed"}

VARIABLES
    \* backend
    stage,      \* of every connection, from its consent to the end of its task
    slots,      \* permits taken from the semaphore
    sessions,   \* the registry: sessions whose controls are in the map
    signalled,  \* sessions whose shutdown was signalled
    received,   \* messages received so far
    socketEvents, \* events emitted and not yet in the list
    \* renderer
    events,     \* webSocketEvents
    shown,      \* the console is mounted
    tabs,
    pending,    \* the action under way, the session it is about and its outcome
    preferred, fallback, disconnectedBy, connectFailed,
    \* history
    left        \* sessions that were in the making or open when the console was left

backendVars == <<stage, slots, sessions, signalled, received>>
choiceVars == <<preferred, fallback, disconnectedBy, connectFailed>>
webSocketVars == <<backendVars, socketEvents, events, shown, tabs, pending, choiceVars, left>>

SocketEvent == [session : Connections, kind : EventKinds]
NoAction == [action |-> "none", session |-> Nobody, outcome |-> "none"]
Stages == {"none", "confirming", "opening", "open", "finishing", "over"}

WebSocketTypeOK ==
    /\ stage \in [Connections -> Stages]
    /\ slots \in 0..MaxSlots
    /\ sessions \subseteq Connections /\ signalled \subseteq Connections
    /\ received \in 0..MaxInbound /\ socketEvents \in Seq(SocketEvent)
    /\ events \in Seq(SocketEvent) /\ Len(events) <= MaxEvents
    /\ shown \in BOOLEAN /\ tabs \in 0..MaxTabs
    /\ pending \in [action : {"none", "connect", "disconnect"}, session : 0..MaxConnects,
                    outcome : {"none", "failed", "done"}]
    /\ {preferred, fallback, disconnectedBy} \subseteq 0..MaxConnects
    /\ connectFailed \in BOOLEAN
    /\ left \subseteq Connections

WebSocketInit ==
    /\ stage = [c \in Connections |-> "none"] /\ slots = 0
    /\ sessions = {} /\ signalled = {} /\ received = 0 /\ socketEvents = <<>>
    /\ events = <<>> /\ shown = TRUE /\ tabs = 0 /\ pending = NoAction
    /\ preferred = Nobody /\ fallback = Nobody /\ disconnectedBy = Nobody
    /\ connectFailed = FALSE /\ left = {}

--------------------------------------------------------------------------------
(* What the console shows.                                                  *)

Last(s) == s[Len(s)]

NewestSession == IF events = <<>> THEN Nobody ELSE Last(events).session

FirstOf(p, q) == IF p # Nobody THEN p ELSE q

ActiveOf(action, choice) ==
    IF action = "connect" THEN FirstOf(NewestSession, choice) ELSE FirstOf(choice, NewestSession)
ActiveSession == ActiveOf(pending.action, preferred)

\* deriveWebSocketPhase of eventsForSession
PhaseOfEvents(c, list) ==
    LET own == {i \in DOMAIN list : list[i].session = c} IN
    IF own = {} THEN "disconnected"
    ELSE IF list[Max(own)].kind = "message" THEN "open"
    ELSE list[Max(own)].kind

\* Seeded fault: the answer of a connect outweighs the events.
TrustingFallbackCounts(phase) == TRUE

\* The answer of a connect stands in for events that have not come, or have given
\* way to later ones.
FallbackCounts(phase) == phase \in {"disconnected", "connecting"}

\* The effect of a rendering that shows other events than before: the answer of a
\* connect counts no more once the session's end is told.
EndForgotten(answered, c, list) ==
    IF answered = c /\ PhaseOfEvents(c, list) \in {"closed", "error"} THEN Nobody ELSE answered

Phase ==
    LET c == ActiveSession
        told == PhaseOfEvents(c, events)
    IN IF connectFailed /\ told = "connecting" THEN "error"
       ELSE IF c # Nobody /\ disconnectedBy = c THEN "closed"
       ELSE IF c # Nobody /\ fallback = c /\ FallbackCounts(told) THEN "open"
       ELSE told

CanConnect == shown /\ pending = NoAction /\ Phase \notin {"connecting", "open"}
CanDisconnect ==
    /\ shown /\ pending = NoAction /\ ActiveSession # Nobody
    /\ Phase \notin {"closed", "disconnected"}

--------------------------------------------------------------------------------
(* Backend.                                                                 *)

Emit(c, kinds) ==
    /\ Len(socketEvents) + Len(kinds) <= MaxBacklog
    /\ socketEvents' = socketEvents \o [i \in DOMAIN kinds |-> [session |-> c, kind |-> kinds[i]]]
Enter(c, where) == stage' = [stage EXCEPT ![c] = where]
ReleaseSlot == slots' = slots - 1

\* The answer of connect_websocket, to the console that asked.
AnswerConnect(c, outcome) ==
    pending' = IF pending.action = "connect" /\ pending.session = c
               THEN [pending EXCEPT !.outcome = outcome] ELSE pending

\* An ordering that no code ensures, and that a frame and the dialog of the next
\* connection leave ample time for: a connection is told to begin before the user
\* asks for another.
BeginningsAreTold == \A i \in DOMAIN socketEvents : socketEvents[i].kind # "connecting"

\* connect() and reserve_slot.
Connect(c) ==
    /\ CanConnect /\ BeginningsAreTold /\ stage[c] = "none" /\ \A p \in Connections : p < c => stage[p] # "none"
    /\ connectFailed' = FALSE
    /\ fallback' = IF NewestSession \in {Nobody, ActiveSession} THEN fallback
                   ELSE EndForgotten(fallback, NewestSession, events)
    /\ IF slots = MaxSlots
       THEN /\ pending' = [action |-> "connect", session |-> c, outcome |-> "failed"]
            /\ Enter(c, "over") /\ UNCHANGED slots
       ELSE /\ pending' = [action |-> "connect", session |-> c, outcome |-> "none"]
            /\ Enter(c, "confirming") /\ slots' = slots + 1
    /\ UNCHANGED <<sessions, signalled, received, socketEvents, events, shown, tabs,
                   preferred, disconnectedBy, left>>

\* The user declines or the name does not resolve: no event tells of it.
ConnectDeclined(c) ==
    /\ stage[c] = "confirming" /\ Enter(c, "over") /\ ReleaseSlot /\ AnswerConnect(c, "failed")
    /\ UNCHANGED <<sessions, signalled, received, socketEvents, events, shown, tabs,
                   choiceVars, left>>

ConnectApproved(c) ==
    /\ stage[c] = "confirming" /\ Enter(c, "opening") /\ Emit(c, <<"connecting">>)
    /\ UNCHANGED <<slots, sessions, signalled, received, events, shown, tabs, pending,
                   choiceVars, left>>

OpenSocketFails(c) ==
    /\ stage[c] = "opening" /\ Enter(c, "over") /\ ReleaseSlot
    /\ Emit(c, <<"error", "closed">>) /\ AnswerConnect(c, "failed")
    /\ UNCHANGED <<sessions, signalled, received, events, shown, tabs, choiceVars, left>>

\* register, the open event, the session's task and the answer.
OpenSocket(c) ==
    /\ stage[c] = "opening" /\ Enter(c, "open") /\ sessions' = sessions \cup {c}
    /\ Emit(c, <<"open">>) /\ AnswerConnect(c, "done")
    /\ UNCHANGED <<slots, signalled, received, events, shown, tabs, choiceVars, left>>

\* run_session: a message within the rate, or the summary of those left out.  The
\* loop may take messages before it takes a shutdown that is signalled.
ReceiveMessage(c) ==
    /\ stage[c] = "open" /\ received < MaxInbound
    /\ received' = received + 1 /\ Emit(c, <<"message">>)
    /\ UNCHANGED <<stage, slots, sessions, signalled, events, shown, tabs, pending,
                   choiceVars, left>>

\* The loop ends: the shutdown, a remote close, or a failure that is told before
\* the close; then finish.
LeaveLoop(c) ==
    /\ stage[c] = "open" /\ Enter(c, "finishing") /\ sessions' = sessions \ {c}
    /\ Emit(c, <<"error">>) \/ UNCHANGED socketEvents
    /\ UNCHANGED <<slots, signalled, received, events, shown, tabs, pending, choiceVars, left>>

\* The closed event is the task's last; its permit goes with it.
CloseSession(c) ==
    /\ stage[c] = "finishing" /\ Enter(c, "over") /\ ReleaseSlot /\ Emit(c, <<"closed">>)
    /\ UNCHANGED <<sessions, signalled, received, events, shown, tabs, pending, choiceVars, left>>

--------------------------------------------------------------------------------
(* Renderer.                                                                *)

\* boundedWebSocketEvents
Bounded(list) ==
    IF Len(list) <= MaxEvents THEN list ELSE SubSeq(list, Len(list) - MaxEvents + 1, Len(list))

\* The effect of a new event: a connection that begins is preferred.
Preferred(list) ==
    IF list # <<>> /\ Last(list).kind = "connecting" THEN Last(list).session ELSE preferred

\* An animation frame appends the events that have come, any number of those under
\* way.
FlushFrame ==
    /\ socketEvents # <<>>
    /\ \E n \in 1..Len(socketEvents) :
        /\ socketEvents' = SubSeq(socketEvents, n + 1, Len(socketEvents))
        /\ events' = Bounded(events \o SubSeq(socketEvents, 1, n))
    /\ UNCHANGED <<backendVars, shown, tabs, pending, disconnectedBy, connectFailed, left>>
    /\ IF shown
       THEN /\ preferred' = Preferred(events')
            /\ fallback' = EndForgotten(fallback, ActiveSession', events')
       ELSE UNCHANGED <<preferred, fallback>>

ConnectAnswered ==
    /\ pending.action = "connect" /\ pending.outcome # "none" /\ pending' = NoAction
    /\ LET done == pending.outcome = "done"
           answered == IF done THEN pending.session ELSE fallback
           active == ActiveOf("none", IF done THEN pending.session ELSE preferred)
       IN /\ preferred' = IF done THEN pending.session ELSE preferred
          /\ disconnectedBy' = IF done THEN Nobody ELSE disconnectedBy
          /\ connectFailed' = ~done
          /\ fallback' = IF active = ActiveSession THEN answered
                         ELSE EndForgotten(answered, active, events)
    /\ UNCHANGED <<backendVars, socketEvents, events, shown, tabs, left>>

Disconnect ==
    /\ CanDisconnect
    /\ pending' = [action |-> "disconnect", session |-> ActiveSession, outcome |-> "none"]
    /\ UNCHANGED <<backendVars, socketEvents, events, shown, tabs, choiceVars, left>>

\* SessionRegistry::disconnect: the session leaves the map at once, its task later.
\* The answer is the same when it was not in the map.
BackendDisconnects ==
    /\ pending.action = "disconnect" /\ pending.outcome = "none"
    /\ pending' = [pending EXCEPT !.outcome = "done"]
    /\ sessions' = sessions \ {pending.session}
    /\ signalled' = IF pending.session \in sessions THEN signalled \cup {pending.session} ELSE signalled
    /\ UNCHANGED <<stage, slots, received, socketEvents, events, shown, tabs, choiceVars, left>>

DisconnectAnswered ==
    /\ pending.action = "disconnect" /\ pending.outcome = "done" /\ pending' = NoAction
    /\ fallback' = IF fallback = pending.session THEN Nobody ELSE fallback
    /\ disconnectedBy' = pending.session
    /\ UNCHANGED <<backendVars, socketEvents, events, shown, tabs, preferred, connectFailed, left>>

\* The console is left; its state goes with it.  A disconnect that is under way
\* was taken by the backend first.
LeaveConsole ==
    /\ shown /\ tabs < MaxTabs /\ shown' = FALSE /\ tabs' = tabs + 1
    /\ pending.action = "disconnect" => pending.outcome = "done"
    /\ pending' = NoAction
    /\ preferred' = Nobody /\ fallback' = Nobody /\ disconnectedBy' = Nobody /\ connectFailed' = FALSE
    /\ left' = left \cup {c \in Connections : stage[c] \in {"confirming", "opening", "open"}}
    /\ UNCHANGED <<backendVars, socketEvents, events>>

EnterConsole ==
    /\ ~shown /\ shown' = TRUE /\ preferred' = Preferred(events)
    /\ UNCHANGED <<backendVars, socketEvents, events, tabs, pending, fallback, disconnectedBy,
                   connectFailed, left>>

WebSocketNext ==
    \/ \E c \in Connections :
        \/ Connect(c) \/ ConnectDeclined(c) \/ ConnectApproved(c) \/ OpenSocketFails(c)
        \/ OpenSocket(c) \/ ReceiveMessage(c) \/ LeaveLoop(c) \/ CloseSession(c)
    \/ FlushFrame \/ ConnectAnswered \/ Disconnect \/ BackendDisconnects \/ DisconnectAnswered
    \/ LeaveConsole \/ EnterConsole

WebSocketSpec == WebSocketInit /\ [][WebSocketNext]_webSocketVars

--------------------------------------------------------------------------------
(* Properties.                                                              *)

\* Every event has been rendered, every command answered, and no task is on its
\* way out.
Quiet ==
    /\ shown /\ socketEvents = <<>> /\ pending = NoAction
    /\ \A c \in Connections : stage[c] # "finishing" /\ ~(c \in signalled /\ stage[c] = "open")

\* The end of a session is still in the list.
Remembered(c) ==
    stage[c] = "over" => \E i \in DOMAIN events : events[i] = [session |-> c, kind |-> "closed"]

\* While the console was never left over a session, the phase that decides its
\* buttons is the truth about the session it is of, and a session that is open is
\* the one it shows.  A console that was left has lost the answers it waited for:
\* the newest event alone decides then which session it shows.
PhaseIsTrue ==
    ActiveSession # Nobody /\ Remembered(ActiveSession) =>
        (Phase = "open" <=> stage[ActiveSession] = "open")
OpenSessionIsShown == \A c \in Connections : stage[c] = "open" => ActiveSession = c

ConsoleIsTrue == Quiet /\ left = {} => PhaseIsTrue /\ OpenSessionIsShown
================================================================================
