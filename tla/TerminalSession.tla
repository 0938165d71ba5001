---------------------------- MODULE TerminalSession ----------------------------
(***************************************************************************)
(* One open terminal (terminal/): the registry's hold on it, write_terminal *)
(* calls, the bounded input queue and its writer thread, the output reader, *)
(* the child waiter, the event pump, and the shutdown that any of them or   *)
(* the user may set off.  A step is what a thread does between two          *)
(* synchronisations with another.                                           *)
(***************************************************************************)
EXTENDS Naturals, Sequences, FiniteSets

CONSTANTS
    Sizes,          \* sizes of the inputs that are written
    MaxBytes,       \* MAX_OUTSTANDING_INPUT_BYTES
    MaxMessages,    \* MAX_OUTSTANDING_INPUT_MESSAGES
    OutputCapacity, \* OUTPUT_QUEUE_CAPACITY
    MaxChunks,      \* bound on the chunks the shell prints
    MaxWrites       \* bound on the write_terminal calls

ASSUME TerminalAssumption ==
    /\ Sizes \subseteq Nat \ {0}
    /\ {MaxBytes, MaxMessages, OutputCapacity, MaxChunks, MaxWrites} \subseteq Nat

VARIABLES
    slotHeld,      \* the registry's slot is Active with this session
    closing,       \* who removed the session from the slot, or "nobody"
    closePc,       \* how far that thread is in shutdown() or complete()
    closed,        \* the shared close signal
    shell,         \* "alive" or "dead"
    \* write_terminal and the input queue
    callPc, callSize, writes,
    queue, messages, bytes, connected,
    writer, current,
    \* output
    reader, chunksRead, waiter, output,
    pump, exitCode, published

registry == <<slotHeld, closing, closePc, closed>>
call == <<callPc, callSize, writes>>
budget == <<messages, bytes>>
input == <<queue, budget, connected, writer, current>>
sending == <<reader, chunksRead, waiter>>
pumping == <<pump, exitCode, published>>
vars == <<registry, shell, call, input, sending, output, pumping>>

Closers == {"user", "writer", "reader", "waiter", "pump"}
PumpMessages == {"data", "readerFinished", "readerError", "exit", "waitError"}

ClosingTypeOK ==
    /\ slotHeld \in BOOLEAN
    /\ closing \in Closers \cup {"nobody"}
    /\ closePc \in {"open", "removed", "signalled", "inputTaken", "done"}
    /\ closed \in BOOLEAN
    /\ shell \in {"alive", "dead"}

InputTypeOK ==
    /\ callPc \in {"idle", "found", "messageReserved", "bytesReserved"}
    /\ callSize \in Sizes \cup {0} /\ writes \in 0..MaxWrites
    /\ queue \in Seq(Sizes)
    /\ messages \in 0..MaxMessages /\ bytes \in 0..MaxBytes
    /\ connected \in BOOLEAN
    /\ writer \in {"idle", "writing", "failed", "closing", "stopped", "done"}
    /\ current \in Sizes \cup {0}

OutputTypeOK ==
    /\ reader \in {"reading", "data", "readerFinished", "readerError",
                   "failed", "closing", "done"}
    /\ chunksRead \in 0..MaxChunks
    /\ waiter \in {"waiting", "exit", "waitError", "failed", "closing", "done"}
    /\ output \in Seq(PumpMessages) /\ Len(output) <= OutputCapacity
    /\ pump \in {"receiving", "data", "closing", "done"}
    /\ exitCode \in BOOLEAN
    /\ published \in [{"data", "error", "exit"} -> 0..MaxChunks + 2]

TypeOK == ClosingTypeOK /\ InputTypeOK /\ OutputTypeOK

Init ==
    /\ slotHeld = TRUE /\ closing = "nobody" /\ closePc = "open"
    /\ closed = FALSE
    /\ shell = "alive"
    /\ callPc = "idle" /\ callSize = 0 /\ writes = 0
    /\ queue = <<>> /\ messages = 0 /\ bytes = 0 /\ connected = TRUE
    /\ writer = "idle" /\ current = 0
    /\ reader = "reading" /\ chunksRead = 0
    /\ waiter = "waiting"
    /\ output = <<>>
    /\ pump = "receiving" /\ exitCode = FALSE
    /\ published = [k \in {"data", "error", "exit"} |-> 0]

-------------------------------------------------------------------------------
(* closing: TerminalRegistry::close and finish, then shutdown or complete *)

\* The slot is emptied under the registry's lock by whoever comes first; the
\* others return at once.
TakeFromSlot(who) ==
    IF slotHeld
    THEN slotHeld' = FALSE /\ closing' = who /\ closePc' = "removed"
    ELSE UNCHANGED <<slotHeld, closing, closePc>>

\* The thread that emptied the slot also runs shutdown or complete before it
\* goes on.
Returned(who) == closing = who => closePc = "done"

CloseTerminal ==
    /\ slotHeld
    /\ TakeFromSlot("user")
    /\ UNCHANGED <<closed, shell, call, input, sending, output, pumping>>

\* closed.swap(true)
SignalClosed ==
    /\ closePc = "removed"
    /\ closed' = TRUE
    /\ closePc' = "signalled"
    /\ UNCHANGED <<slotHeld, closing, shell, call, input, sending, output,
                   pumping>>

\* input.lock().take(): waits for a write_terminal call that holds the lock.
TakeInput ==
    /\ closePc = "signalled"
    /\ callPc \notin {"messageReserved", "bytesReserved"}
    /\ closePc' = "inputTaken"
    /\ UNCHANGED <<slotHeld, closing, closed, shell, call, input, sending,
                   output, pumping>>

\* Seeded fault: only the user's close kills the shell's group.
LenientReleaseHandles ==
    /\ closePc = "inputTaken"
    /\ closePc' = "done"
    /\ shell' = IF closing = "user" THEN "dead" ELSE shell
    /\ UNCHANGED <<slotHeld, closing, closed, call, input, sending, output,
                   pumping>>

\* HUP, the killer and SIGKILL for the group in shutdown; complete, which the
\* pump runs once everything has ended, only drops the handles.
ReleaseHandles ==
    /\ closePc = "inputTaken"
    /\ closePc' = "done"
    /\ shell' = IF closing = "pump" THEN shell ELSE "dead"
    /\ UNCHANGED <<slotHeld, closing, closed, call, input, sending, output,
                   pumping>>

InputOpen == closePc \in {"open", "removed", "signalled"}

-------------------------------------------------------------------------------
(* write_terminal *)

\* The session is looked up in the slot.
FindSession(size) ==
    /\ callPc = "idle"
    /\ slotHeld
    /\ writes < MaxWrites
    /\ writes' = writes + 1
    /\ callPc' = "found"
    /\ callSize' = size
    /\ UNCHANGED <<registry, shell, input, sending, output, pumping>>

CallReturns == callPc' = "idle" /\ callSize' = 0 /\ UNCHANGED writes

\* Under the input lock: closed, no queue any more or a stopped writer means
\* "not accepted"; a full count means backpressure.
ReserveMessage ==
    /\ callPc = "found"
    /\ IF ~closed /\ InputOpen /\ connected /\ messages < MaxMessages
       THEN /\ messages' = messages + 1
            /\ callPc' = "messageReserved"
            /\ UNCHANGED <<callSize, writes>>
       ELSE CallReturns /\ UNCHANGED messages
    /\ UNCHANGED <<registry, shell, queue, bytes, connected, writer, current,
                   sending, output, pumping>>

\* Seeded fault: the refusal by size keeps the reserved message.
LeakyReserveBytes ==
    /\ callPc = "messageReserved"
    /\ IF bytes + callSize <= MaxBytes
       THEN /\ bytes' = bytes + callSize
            /\ callPc' = "bytesReserved"
            /\ UNCHANGED <<callSize, writes, messages>>
       ELSE CallReturns /\ UNCHANGED budget
    /\ UNCHANGED <<registry, shell, queue, connected, writer, current, sending,
                   output, pumping>>

ReserveBytes ==
    /\ callPc = "messageReserved"
    /\ IF bytes + callSize <= MaxBytes
       THEN /\ bytes' = bytes + callSize
            /\ callPc' = "bytesReserved"
            /\ UNCHANGED <<callSize, writes, messages>>
       ELSE CallReturns /\ messages' = messages - 1 /\ UNCHANGED bytes
    /\ UNCHANGED <<registry, shell, queue, connected, writer, current, sending,
                   output, pumping>>

\* try_send: a receiver that is gone hands the message back, and its drop
\* returns the budget.
ReceiverAlive == writer \notin {"stopped", "done"}

Enqueue ==
    /\ callPc = "bytesReserved"
    /\ CallReturns
    /\ IF ReceiverAlive
       THEN queue' = Append(queue, callSize) /\ UNCHANGED budget
       ELSE /\ messages' = messages - 1
            /\ bytes' = bytes - callSize
            /\ UNCHANGED queue
    /\ UNCHANGED <<registry, shell, connected, writer, current, sending, output,
                   pumping>>

-------------------------------------------------------------------------------
(* the writer thread *)

Total(sizes) ==
    LET sum[i \in 0..Len(sizes)] == IF i = 0 THEN 0 ELSE sum[i - 1] + sizes[i]
    IN  sum[Len(sizes)]

\* The loop ends: its message and the receiver with what is still queued are
\* dropped, and every drop returns its share of the budget.
DropInputs ==
    /\ messages' = messages - (Len(queue) + IF current = 0 THEN 0 ELSE 1)
    /\ bytes' = bytes - (Total(queue) + current)
    /\ queue' = <<>>
    /\ current' = 0
    /\ writer' = "stopped"

WriterTakes ==
    /\ writer = "idle"
    /\ queue # <<>>
    /\ IF closed
       THEN DropInputs
       ELSE /\ current' = Head(queue) /\ queue' = Tail(queue)
            /\ writer' = "writing"
            /\ UNCHANGED budget
    /\ UNCHANGED <<registry, shell, call, connected, sending, output, pumping>>

\* The write succeeds: the message is dropped and returns its budget.
WriterWrites ==
    /\ writer = "writing"
    /\ writer' = "idle"
    /\ current' = 0
    /\ messages' = messages - 1
    /\ bytes' = bytes - current
    /\ UNCHANGED <<registry, shell, call, queue, connected, sending, output,
                   pumping>>

\* The write is retried until the close signal is seen.
WriterCancelled ==
    /\ writer = "writing"
    /\ closed
    /\ DropInputs
    /\ UNCHANGED <<registry, shell, call, connected, sending, output, pumping>>

WriteFails ==
    /\ writer = "writing"
    /\ writer' = "failed"
    /\ UNCHANGED <<registry, shell, call, queue, budget, connected, current,
                   sending, output, pumping>>

\* Unless the session is closed already, the failure handler closes it.
WriterCloses ==
    /\ writer = "failed"
    /\ IF closed THEN UNCHANGED <<slotHeld, closing, closePc>>
                 ELSE TakeFromSlot("writer")
    /\ writer' = "closing"
    /\ UNCHANGED <<closed, shell, call, queue, budget, connected, current,
                   sending, output, pumping>>

WriterStops ==
    /\ writer = "closing"
    /\ Returned("writer")
    /\ DropInputs
    /\ UNCHANGED <<registry, shell, call, connected, sending, output, pumping>>

\* The queue's sender is gone and nothing is left to receive.
WriterDisconnected ==
    /\ writer = "idle"
    /\ queue = <<>>
    /\ ~InputOpen
    /\ writer' = "stopped"
    /\ UNCHANGED <<registry, shell, call, queue, budget, connected, current,
                   sending, output, pumping>>

WriterExits ==
    /\ writer = "stopped"
    /\ writer' = "done"
    /\ connected' = FALSE
    /\ UNCHANGED <<registry, shell, call, queue, budget, current, sending,
                   output, pumping>>

-------------------------------------------------------------------------------
(* the output reader *)

ReaderCancelled ==
    /\ reader \in {"reading", "data", "readerFinished", "readerError"}
    /\ closed
    /\ reader' = "done"
    /\ UNCHANGED <<registry, shell, call, input, chunksRead, waiter, output,
                   pumping>>

ReadChunk ==
    /\ reader = "reading" /\ ~closed
    /\ chunksRead < MaxChunks
    /\ chunksRead' = chunksRead + 1
    /\ reader' = "data"
    /\ UNCHANGED <<registry, shell, call, input, waiter, output, pumping>>

\* End of file once no process has the terminal open any more, or a read error.
\* `shell` stands for all of them: a descendant that outlives the shell is not told
\* from it.
ReadEnds ==
    /\ reader = "reading"
    /\ \/ shell = "dead" /\ reader' = "readerFinished"
       \/ reader' = "readerError"
    /\ UNCHANGED <<registry, shell, call, input, chunksRead, waiter, output,
                   pumping>>

\* send_with_cancel: a full queue is retried until there is room or the session
\* is closed.
ReaderSends ==
    /\ reader \in {"data", "readerFinished", "readerError"}
    /\ ~closed
    /\ Len(output) < OutputCapacity
    /\ output' = Append(output, reader)
    /\ reader' = CASE reader = "data" -> "reading"
                   [] reader = "readerFinished" -> "done"
                   [] reader = "readerError" -> "failed"
    /\ UNCHANGED <<registry, shell, call, input, chunksRead, waiter, pumping>>

ReaderCloses ==
    /\ reader = "failed"
    /\ IF closed THEN UNCHANGED <<slotHeld, closing, closePc>>
                 ELSE TakeFromSlot("reader")
    /\ reader' = "closing"
    /\ UNCHANGED <<closed, shell, call, input, chunksRead, waiter, output,
                   pumping>>

ReaderExits ==
    /\ reader = "closing"
    /\ Returned("reader")
    /\ reader' = "done"
    /\ UNCHANGED <<registry, shell, call, input, chunksRead, waiter, output,
                   pumping>>

-------------------------------------------------------------------------------
(* the child waiter *)

WaitReturns ==
    /\ waiter = "waiting"
    /\ \/ shell = "dead" /\ waiter' = "exit"
       \/ waiter' = "waitError"
    /\ UNCHANGED <<registry, shell, call, input, reader, chunksRead, output,
                   pumping>>

\* The result is queued unless the session is closed; a failed wait goes on to
\* close the session either way.
WaiterSends ==
    /\ waiter \in {"exit", "waitError"}
    /\ closed \/ Len(output) < OutputCapacity
    /\ output' = IF closed THEN output ELSE Append(output, waiter)
    /\ waiter' = IF waiter = "exit" THEN "done" ELSE "failed"
    /\ UNCHANGED <<registry, shell, call, input, reader, chunksRead, pumping>>

WaiterCloses ==
    /\ waiter = "failed"
    /\ IF closed THEN UNCHANGED <<slotHeld, closing, closePc>>
                 ELSE TakeFromSlot("waiter")
    /\ waiter' = "closing"
    /\ UNCHANGED <<closed, shell, call, input, reader, chunksRead, output,
                   pumping>>

WaiterExits ==
    /\ waiter = "closing"
    /\ Returned("waiter")
    /\ waiter' = "done"
    /\ UNCHANGED <<registry, shell, call, input, reader, chunksRead, output,
                   pumping>>

-------------------------------------------------------------------------------
(* the event pump *)

Publish(kind) == published' = [published EXCEPT ![kind] = @ + 1]

\* Data of a closed session is dropped; errors are reported all the same; the
\* exit code is kept for the end.
PumpReceives ==
    /\ pump = "receiving"
    /\ output # <<>>
    /\ output' = Tail(output)
    /\ LET m == Head(output) IN
       /\ pump' = IF m = "data" /\ ~closed THEN "data" ELSE pump
       /\ exitCode' = (exitCode \/ m = "exit")
       /\ IF m \in {"readerError", "waitError"} THEN Publish("error")
                                               ELSE UNCHANGED published
    /\ UNCHANGED <<registry, shell, call, input, sending>>

\* After the pause between two data events.
PumpPublishes ==
    /\ pump = "data"
    /\ pump' = "receiving"
    /\ Publish("data")
    /\ UNCHANGED <<registry, shell, call, input, sending, output, exitCode>>

\* Seeded fault: the pump leaves the loop when the child has been waited for.
HastyPumpFinishes ==
    /\ pump = "receiving"
    /\ output = <<>> /\ waiter = "done"
    /\ TakeFromSlot("pump")
    /\ pump' = "closing"
    /\ UNCHANGED <<closed, shell, call, input, sending, output, exitCode,
                   published>>

\* Both senders are gone: registry.finish.
PumpFinishes ==
    /\ pump = "receiving"
    /\ output = <<>> /\ reader = "done" /\ waiter = "done"
    /\ TakeFromSlot("pump")
    /\ pump' = "closing"
    /\ UNCHANGED <<closed, shell, call, input, sending, output, exitCode,
                   published>>

PumpExits ==
    /\ pump = "closing"
    /\ Returned("pump")
    /\ pump' = "done"
    /\ IF exitCode THEN Publish("exit") ELSE UNCHANGED published
    /\ UNCHANGED <<registry, shell, call, input, sending, output, exitCode>>

-------------------------------------------------------------------------------
ShellExits ==
    /\ shell = "alive"
    /\ shell' = "dead"
    /\ UNCHANGED <<registry, call, input, sending, output, pumping>>

CloseStep == SignalClosed \/ TakeInput \/ ReleaseHandles
CallStep == ReserveMessage \/ ReserveBytes \/ Enqueue
WriterStep ==
    \/ WriterTakes \/ WriterWrites \/ WriterCancelled \/ WriteFails
    \/ WriterCloses \/ WriterStops \/ WriterDisconnected \/ WriterExits
ReaderStep ==
    \/ ReaderCancelled \/ ReadChunk \/ ReadEnds \/ ReaderSends \/ ReaderCloses
    \/ ReaderExits
WaiterStep == WaitReturns \/ WaiterSends \/ WaiterCloses \/ WaiterExits
PumpStep == PumpReceives \/ PumpPublishes \/ PumpFinishes \/ PumpExits

Next ==
    \/ CloseTerminal \/ CloseStep
    \/ \E size \in Sizes : FindSession(size)
    \/ CallStep \/ WriterStep \/ ReaderStep \/ WaiterStep \/ PumpStep
    \/ ShellExits

Spec == Init /\ [][Next]_vars

\* The threads are scheduled.  A blocked write, read or wait returns only for
\* the reasons the code relies on: the close signal, the end of the shell.
Fairness ==
    /\ WF_vars(CloseStep) /\ WF_vars(CallStep)
    /\ WF_vars(\/ WriterTakes \/ WriterCancelled \/ WriterCloses \/ WriterStops
               \/ WriterDisconnected \/ WriterExits)
    /\ WF_vars(\/ ReaderCancelled \/ ReaderSends \/ ReaderCloses \/ ReaderExits
               \/ (shell = "dead" /\ ReadEnds))
    /\ WF_vars(\/ WaiterSends \/ WaiterCloses \/ WaiterExits
               \/ (shell = "dead" /\ WaitReturns))
    /\ WF_vars(PumpStep)

FairSpec == Spec /\ Fairness

-------------------------------------------------------------------------------
(* Properties *)

\* terminal/README.md, "input.rs": the outstanding budget includes the write in
\* progress.  The two counters always equal what is queued, being written and
\* being enqueued, so a refused, returned or dropped input never leaks budget.
InputBudget ==
    LET reserved == callPc \in {"messageReserved", "bytesReserved"} IN
    /\ messages = Len(queue) + (IF current = 0 THEN 0 ELSE 1)
                             + (IF reserved THEN 1 ELSE 0)
    /\ bytes = Total(queue) + current
                            + (IF callPc = "bytesReserved" THEN callSize ELSE 0)

\* A session that ended by itself has shown all its output when it reports the
\* exit, although the waiter may have queued the exit before the reader's last
\* chunks.
ExitAfterOutput ==
    published["exit"] > 0 /\ closing = "pump" => published["data"] = chunksRead

\* README, invariant 6: a reader failure that takes the session down was queued
\* for the renderer before.
ReaderErrorIsReported ==
    closing = "reader" =>
        published["error"] > 0 \/ \E i \in 1..Len(output) : output[i] = "readerError"

\* What the reader saw is told before the end of the session is: all output
\* before an exit of the shell's own, and a failure of the reader itself.
OutputIsTold == ExitAfterOutput /\ ReaderErrorIsReported

\* README, invariants 6 and 8: whoever closes the session, without joining a
\* thread, all of them end, their budget is returned and the shell is dead.  The
\* end of the shell ends the session too: reader, waiter and pump meet.
SessionEnds ==
    (shell = "dead" \/ closePc = "removed") ~>
        /\ ~slotHeld /\ {writer, reader, waiter, pump} = {"done"}
        /\ messages = 0 /\ bytes = 0 /\ ~connected
        /\ shell = "dead"

===============================================================================
