------------------------------- MODULE MCSessions -------------------------------
(***************************************************************************)
(* The terminal and WebSocket sessions, model-checked in one run: the       *)
(* threads and the input budget inside a terminal session, the slot and the *)
(* console that hold it, and the WebSocket sessions.  They share no state,  *)
(* so a behaviour is one of a single module, `subject`; the others rest in  *)
(* their initial state, in which nothing is owed.                           *)
(***************************************************************************)
EXTENDS TerminalSession, TerminalConsole, WebSocketSessions

VARIABLE subject

sessionsVars == <<subject, vars, consoleVars, webSocketVars>>

SessionsInit ==
    /\ subject \in {"session", "console", "webSocket"}
    /\ Init /\ ConsoleInit /\ WebSocketInit

SessionMoves ==
    subject = "session" /\ Next /\ UNCHANGED <<subject, consoleVars, webSocketVars>>
ConsoleMoves ==
    subject = "console" /\ ConsoleNext /\ UNCHANGED <<subject, vars, webSocketVars>>
WebSocketMoves ==
    subject = "webSocket" /\ WebSocketNext /\ UNCHANGED <<subject, vars, consoleVars>>

SessionsNext == SessionMoves \/ ConsoleMoves \/ WebSocketMoves

SessionsSpec ==
    SessionsInit /\ [][SessionsNext]_sessionsVars /\ Fairness /\ ConsoleFairness

\* Inputs of one and two bytes against a budget of two messages and three bytes.
TwoSizes == {1, 2}

\* Every variable of the three modules keeps its type.
SessionsTypeOK == TypeOK /\ ConsoleTypeOK /\ WebSocketTypeOK

\* What holds between any two steps of the sessions: their types, and the input
\* budget of terminal/input.rs, which is what is queued and being written.
SessionsInv == SessionsTypeOK /\ InputBudget
================================================================================
