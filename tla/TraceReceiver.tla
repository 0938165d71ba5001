----------------------------- MODULE TraceReceiver -----------------------------
(***************************************************************************)
(* The local OTLP trace receiver: its registry (otlp/state.rs), the start   *)
(* over a consent dialog and the stop (otlp/commands.rs), the connections   *)
(* that turn spans into runtime events (otlp/http.rs, otlp/ingest.rs), and  *)
(* what the runtime state does to both when a trace is deleted or the       *)
(* workspace is switched (runner/state.rs).  Starts, connections, deletions *)
(* and switches run at the same time; each step is what one lock covers.    *)
(***************************************************************************)
EXTENDS Naturals, Sequences, FiniteSets, SequencesExt

CONSTANTS
    TraceRoots,     \* workspaces
    NoTraceRoot,    \* the None of a workspace id
    Starts,         \* slots for start_otlp_receiver calls
    Exports,        \* slots for connections
    Batches,        \* the exports a program may send: sequences of <<trace, span>>
    MaxSpans,       \* MAX_OTLP_SPANS
    EventCapacity,  \* what the ring of runtime events holds
    MaxOtlpActs     \* bound on what users and programs begin

Spans == UNION {{b[i] : i \in DOMAIN b} : b \in Batches}
TraceIds == {s[1] : s \in Spans}

\* An export without spans changes nothing.
ASSUME TraceReceiverAssumption ==
    /\ \A b \in Batches : b \in Seq(Spans) /\ b # <<>>
    /\ NoTraceRoot \notin TraceRoots
    /\ MaxSpans \in Nat \ {0} /\ EventCapacity \in Nat \ {0} /\ MaxOtlpActs \in Nat

VARIABLES
    otlp,        \* OtlpReceiverRegistry
    receivers,   \* receiver ids given so far
    starter,     \* the starts in flight
    export,      \* the connections past their token
    ring,        \* RuntimeState.events, those of spans
    otlpRoot,    \* RuntimeState.workspace_root
    otlpApp,     \* the workspace of AppState
    otlpSwitch,  \* a switch: "no", "begun", or "installed" in AppState
    otlpActs,    \* what was begun so far
    torn,        \* history: spans whose trace was deleted between their key and event
    unshown      \* history: keys whose event was evicted, or refused during a switch

otlpWorkspace == <<otlpRoot, otlpApp, otlpSwitch>>
otlpVars == <<otlp, receivers, starter, export, ring, otlpWorkspace, otlpActs, torn, unshown>>

\* active is the id of the receiver, 0 for None; keys are its span_keys.
Stopped == [lifecycle |-> "stopped", starting |-> NoTraceRoot, active |-> 0,
            root |-> NoTraceRoot, keys |-> {}]
NoStarter == [stage |-> "idle", root |-> NoTraceRoot]
NoExport == [stage |-> "idle", receiver |-> 0, root |-> NoTraceRoot, batch |-> <<>>]

TraceReceiverTypeOK ==
    /\ otlp \in [lifecycle : {"stopped", "starting", "running", "failed"},
                 starting : TraceRoots \cup {NoTraceRoot}, active : Nat,
                 root : TraceRoots \cup {NoTraceRoot}, keys : SUBSET Spans]
    /\ otlp.lifecycle = "running" <=> otlp.active # 0
    /\ otlp.lifecycle = "starting" <=> otlp.starting # NoTraceRoot
    /\ receivers \in Nat
    /\ starter \in [Starts -> [stage : {"idle", "read", "asked", "bound", "failed"},
                               root : TraceRoots \cup {NoTraceRoot}]]
    /\ \A e \in Exports :
         /\ export[e].stage \in {"idle", "authorized", "ingesting", "reserved"}
         /\ export[e].receiver \in 0..receivers
         /\ export[e].stage = "reserved" => export[e].batch # <<>>
    /\ Len(ring) <= EventCapacity
    /\ otlpRoot \in TraceRoots /\ otlpApp \in TraceRoots
    /\ otlpSwitch \in {"no", "begun", "installed"} /\ otlpActs \in 0..MaxOtlpActs

TraceReceiverInit ==
    /\ otlp = Stopped /\ receivers = 0
    /\ starter = [s \in Starts |-> NoStarter] /\ export = [e \in Exports |-> NoExport]
    /\ ring = <<>> /\ otlpRoot \in TraceRoots /\ otlpApp = otlpRoot /\ otlpSwitch = "no"
    /\ otlpActs = 0 /\ torn = {} /\ unshown = {}

OtlpBegins == otlpActs < MaxOtlpActs /\ otlpActs' = otlpActs + 1

\* while_workspace_current over with_workspace_current.
IsOpenRoot(w) == otlpApp = w /\ otlpRoot = w /\ otlpSwitch = "no"

--------------------------------------------------------------------------------
(* start_otlp_receiver and stop_otlp_receiver.                             *)

StartReceiver(s) ==
    /\ starter[s].stage = "idle" /\ OtlpBegins
    /\ starter' = [starter EXCEPT ![s] = [stage |-> "read", root |-> otlpApp]]
    /\ UNCHANGED <<otlp, receivers, export, ring, otlpWorkspace, torn, unshown>>

ReserveStart(s) ==
    /\ starter[s].stage = "read"
    /\ IF otlp.lifecycle = "starting" \/ otlp.active # 0
       THEN starter' = [starter EXCEPT ![s] = NoStarter] /\ UNCHANGED otlp
       ELSE /\ starter' = [starter EXCEPT ![s].stage = "asked"]
            /\ otlp' = [Stopped EXCEPT !.lifecycle = "starting", !.starting = starter[s].root]
    /\ UNCHANGED <<receivers, export, ring, otlpWorkspace, otlpActs, torn, unshown>>

\* The user consents and the port is bound, or either fails.
ConfirmStart(s) ==
    /\ starter[s].stage = "asked"
    /\ \E stage \in {"bound", "failed"} : starter' = [starter EXCEPT ![s].stage = stage]
    /\ UNCHANGED <<otlp, receivers, export, ring, otlpWorkspace, otlpActs, torn, unshown>>

\* The reservation that is found need not be the one this start made.
ActivateReceiver(s) ==
    /\ starter[s].stage = "bound"
    /\ IF IsOpenRoot(starter[s].root) /\ otlp.starting = starter[s].root
       THEN /\ otlp' = [Stopped EXCEPT !.lifecycle = "running", !.active = receivers + 1,
                                       !.root = starter[s].root]
            /\ receivers' = receivers + 1
            /\ starter' = [starter EXCEPT ![s] = NoStarter]
            /\ unshown' = {}
       ELSE /\ starter' = [starter EXCEPT ![s].stage = "failed"]
            /\ UNCHANGED <<otlp, receivers, unshown>>
    /\ UNCHANGED <<export, ring, otlpWorkspace, otlpActs, torn>>

\* cancel_start, whoever reserved.
CancelStart(s) ==
    /\ starter[s].stage = "failed"
    /\ starter' = [starter EXCEPT ![s] = NoStarter]
    /\ otlp' = IF otlp.lifecycle = "starting" THEN Stopped ELSE otlp
    /\ UNCHANGED <<receivers, export, ring, otlpWorkspace, otlpActs, torn, unshown>>

StopReceiver ==
    /\ OtlpBegins /\ otlp' = Stopped
    /\ UNCHANGED <<receivers, starter, export, ring, otlpWorkspace, torn, unshown>>

\* The listener fails: its task reports it for its own receiver id.
ListenerFails ==
    /\ otlp.active # 0 /\ OtlpBegins
    /\ otlp' = [Stopped EXCEPT !.lifecycle = "failed"]
    /\ UNCHANGED <<receivers, starter, export, ring, otlpWorkspace, torn, unshown>>

--------------------------------------------------------------------------------
(* Connections.                                                            *)

\* A request with the token of the active receiver has arrived.
ReceiveExport(e, batch) ==
    /\ export[e].stage = "idle" /\ otlp.active # 0 /\ OtlpBegins
    /\ export' = [export EXCEPT ![e] = [stage |-> "authorized", receiver |-> otlp.active,
                                        root |-> otlp.root, batch |-> batch]]
    /\ UNCHANGED <<otlp, receivers, starter, ring, otlpWorkspace, torn, unshown>>

BeginIngest(e) ==
    /\ export[e].stage = "authorized"
    /\ export' = [export EXCEPT ![e] = IF export[e].root = otlpApp
                                       THEN [export[e] EXCEPT !.stage = "ingesting"]
                                       ELSE NoExport]
    /\ UNCHANGED <<otlp, receivers, starter, ring, otlpWorkspace, otlpActs, torn, unshown>>

AfterSpan(e) ==
    IF Len(export[e].batch) = 1 THEN NoExport
    ELSE [export[e] EXCEPT !.stage = "ingesting", !.batch = Tail(@)]

\* reserve_span: the next span gets its key, or is rejected.
ReserveSpan(e) ==
    LET span == Head(export[e].batch)
        accepted == /\ otlp.active = export[e].receiver
                    /\ Cardinality(otlp.keys) < MaxSpans /\ span \notin otlp.keys
    IN  /\ export[e].stage = "ingesting"
        /\ IF accepted
           THEN /\ otlp' = [otlp EXCEPT !.keys = @ \cup {span}]
                /\ export' = [export EXCEPT ![e].stage = "reserved"]
           ELSE export' = [export EXCEPT ![e] = AfterSpan(e)] /\ UNCHANGED otlp
        /\ UNCHANGED <<receivers, starter, ring, otlpWorkspace, otlpActs, torn, unshown>>

SpanEvent(e) == [receiver |-> export[e].receiver, root |-> export[e].root,
             span |-> Head(export[e].batch)]

MayPublish(e) == IsOpenRoot(export[e].root)

\* publish_event, or the 409 that drops the rest of the export.
PublishSpan(e) ==
    LET event == SpanEvent(e)
        full == Len(ring) = EventCapacity
        missing(r, span) == IF r = otlp.active THEN {span} ELSE {}
    IN  /\ export[e].stage = "reserved"
        /\ IF MayPublish(e)
           THEN /\ ring' = Append(IF full THEN Tail(ring) ELSE ring, event)
                /\ unshown' = unshown \cup IF full THEN missing(ring[1].receiver, ring[1].span)
                                                   ELSE {}
                /\ export' = [export EXCEPT ![e] = AfterSpan(e)]
           ELSE /\ export' = [export EXCEPT ![e] = NoExport]
                /\ unshown' = unshown \cup missing(event.receiver, event.span)
                /\ UNCHANGED ring
        /\ UNCHANGED <<otlp, receivers, starter, otlpWorkspace, otlpActs, torn>>

--------------------------------------------------------------------------------
(* delete_trace_events, and the switch of the workspace.                   *)

\* Seeded fault: the keys of a deleted trace are kept.
RetainedKeys(t) == otlp.keys

\* forget_trace.
KeysWithout(t) == {k \in otlp.keys : k[1] # t}

\* VecDeque::retain: the elements that are kept, in their order.
Retain(s, kept) ==
    LET rest[n \in 0..Len(s)] ==
            IF n = 0 THEN <<>>
            ELSE IF s[n] \in kept THEN Append(rest[n - 1], s[n]) ELSE rest[n - 1]
    IN  rest[Len(s)]

DeleteTrace(t) ==
    /\ otlpSwitch = "no" /\ OtlpBegins
    /\ ring' = Retain(ring, {event \in ToSet(ring) : event.span[1] # t})
    /\ otlp' = [otlp EXCEPT !.keys = KeysWithout(t)]
    /\ torn' = torn \cup {SpanEvent(e) : e \in {x \in Exports : export[x].stage = "reserved"
                                                    /\ Head(export[x].batch)[1] = t}}
    /\ unshown' = {k \in unshown : k[1] # t}
    /\ UNCHANGED <<receivers, starter, export, otlpWorkspace>>

BeginTraceSwitch ==
    /\ otlpSwitch = "no" /\ OtlpBegins /\ otlpSwitch' = "begun"
    /\ UNCHANGED <<otlp, receivers, starter, export, ring, otlpRoot, otlpApp, torn, unshown>>

\* The opening fails, or AppState has the new workspace.
TraceSwitchInstalls(w) ==
    /\ otlpSwitch = "begun"
    /\ \/ otlpSwitch' = "no" /\ UNCHANGED otlpApp
       \/ otlpSwitch' = "installed" /\ otlpApp' = w
    /\ UNCHANGED <<otlp, receivers, starter, export, ring, otlpRoot, otlpActs, torn, unshown>>

\* complete_workspace_switch.
CompleteTraceSwitch ==
    /\ otlpSwitch = "installed" /\ otlpSwitch' = "no" /\ otlpRoot' = otlpApp
    /\ ring' = <<>> /\ otlp' = Stopped /\ unshown' = {}
    /\ UNCHANGED <<receivers, starter, export, otlpApp, otlpActs, torn>>

TraceReceiverNext ==
    \/ \E s \in Starts : \/ StartReceiver(s) \/ ReserveStart(s) \/ ConfirmStart(s)
                         \/ ActivateReceiver(s) \/ CancelStart(s)
    \/ StopReceiver \/ ListenerFails \/ BeginTraceSwitch \/ CompleteTraceSwitch
    \/ \E e \in Exports : \/ \E b \in Batches : ReceiveExport(e, b)
                          \/ BeginIngest(e) \/ ReserveSpan(e) \/ PublishSpan(e)
    \/ \E t \in TraceIds : DeleteTrace(t)
    \/ \E w \in TraceRoots : TraceSwitchInstalls(w)

--------------------------------------------------------------------------------
(* Properties.                                                             *)

\* What is observed belongs to the open workspace, and so does the receiver.
TracesAreOfWorkspace ==
    /\ \A i \in DOMAIN ring : ring[i].root = otlpRoot
    /\ otlp.active # 0 => otlp.root = otlpRoot

\* A receiver shows a span once, but for one whose trace was deleted between its
\* key and its event (a gap of the code).
SpansAreShownOnce ==
    \A i, j \in DOMAIN ring : i # j /\ ring[i] = ring[j] => ring[i] \in torn

\* A span that would be refused as a duplicate is shown or about to be, unless its
\* event was evicted or refused by a switch that then failed (a gap of the code).
RefusedSpansAreShown ==
    \A k \in otlp.keys :
        LET event == [receiver |-> otlp.active, root |-> otlp.root, span |-> k]
        IN  \/ Contains(ring, event) \/ k \in unshown
            \/ \E e \in Exports : export[e].stage = "reserved" /\ SpanEvent(e) = event

\* A receiver that is starting has a start of its workspace that will end it.
StartsEnd ==
    otlp.lifecycle = "starting" =>
        \E s \in Starts : /\ starter[s].stage \in {"asked", "bound", "failed"}
                          /\ starter[s].root = otlp.starting

\* otlp/state.rs and runner/state.rs: with starts, connections, deletions, stops
\* and switches in any order, what is observed is of the open workspace, a span is
\* shown once, a refused duplicate is shown, no start is stuck, and the registry
\* keeps its types.
TracesInv ==
    /\ TraceReceiverTypeOK
    /\ TracesAreOfWorkspace /\ SpansAreShownOnce /\ RefusedSpansAreShown /\ StartsEnd
================================================================================
