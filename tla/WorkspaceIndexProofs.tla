-------------------------- MODULE WorkspaceIndexProofs --------------------------
(***************************************************************************)
(* Theorems about the open workspace and its index, for any folders and    *)
(* files, any limits of the watcher and of the outbox, and any number of   *)
(* requests, changes and crashes.                                          *)
(***************************************************************************)
EXTENDS WorkspaceIndex, FiniteSetTheorems, SequenceTheorems, TLAPS

\* What the invariants about the operation and the workers read.
structure == <<current, gates, op, kind, target, opens, requests>>

\* A context that was never opened is typed, holds nothing and does nothing.
LEMMA FreshTypes ==
    /\ FreshContext \in ContextRecords
    /\ FreshContext.queue = <<>> /\ FreshContext.batch = {}
    /\ FreshContext.events = {} /\ FreshContext.callback = "idle"
    /\ FreshContext.worker = "none" /\ FreshContext.analysis = "free"
    /\ FreshContext.root = "none"
  <1>1. Unread \in Copies
    BY DEF Unread, Copies
  <1>2. <<>> \in Seq(SUBSET Files)
    OBVIOUS
  <1> QED
    BY <1>1, <1>2 DEF FreshContext, ContextRecords, WorkerStates

\* The bounds of a context: its queue and its batch.
Bounded(w) == Len(w.queue) <= QueueCapacity /\ Cardinality(w.batch) <= MaxBatch

\* A context edited in the fields no invariant relates is a bounded context with the
\* same root, worker and drained mark: its reservation changes hands,
LEMMA Reserved ==
    ASSUME NEW w \in ContextRecords, Bounded(w), NEW x,
           NEW who \in {"free", "worker", "command", "save"},
           x = [w EXCEPT !.analysis = who]
    PROVE  /\ x \in ContextRecords /\ Bounded(x) /\ x.root = w.root
           /\ x.worker = w.worker /\ x.drained = w.drained /\ x.analysis = who
  BY DEF ContextRecords, Bounded

\* it hears of files,
LEMMA Heard ==
    ASSUME NEW w \in ContextRecords, Bounded(w), NEW x, NEW f \in Files,
           x = [w EXCEPT !.events = @ \cup {f}]
    PROVE  /\ x \in ContextRecords /\ Bounded(x) /\ x.root = w.root
           /\ x.worker = w.worker /\ x.drained = w.drained
           /\ x.analysis = w.analysis
  BY DEF ContextRecords, Bounded

\* its watcher is dropped.
LEMMA SwitchedOff ==
    ASSUME NEW w \in ContextRecords, Bounded(w), NEW x,
           x = [w EXCEPT !.on = FALSE, !.events = {}]
    PROVE  /\ x \in ContextRecords /\ Bounded(x) /\ x.root = w.root
           /\ x.worker = w.worker /\ x.drained = w.drained
           /\ x.analysis = w.analysis
  BY DEF ContextRecords, Bounded

\* Steps that change contexts in place keep what the invariants say of where the
\* command and the workers are.
LEMMA ContextsKeep ==
    ASSUME IndexInv, UNCHANGED structure,
           watch' \in [Contexts -> ContextRecords],
           \A c \in Contexts :
              /\ watch'[c].root = watch[c].root
              /\ c > opens => watch'[c] = watch[c]
              /\ watch'[c].analysis = "command" => watch[c].analysis = "command"
              /\ watch[c].worker = "ended" => watch'[c].worker = "ended"
              /\ watch'[c].worker \in Publishing =>
                    watch[c].worker \in Publishing \/ watch[c].root = RootOf(current)
    PROVE  OperationInv' /\ WorkerInv' /\ GatesAgree'
  <1>1. current \in 0..opens /\ opens \in 0..MaxRequests /\ MaxRequests \in Nat
    BY IndexAssumption DEF IndexInv, TypeOK
  <1>2. current # 0 => current \in Contexts
    BY <1>1 DEF Contexts
  <1>3. RootOf(current)' = RootOf(current)
    BY <1>2 DEF RootOf, structure
  <1>4. OperationInv'
    BY <1>3 DEF OperationInv, structure, gates, IndexInv
  <1>5. WorkerInv'
    <2>1. opens # 0 => opens \in Contexts
      BY <1>1 DEF Contexts
    <2>2. /\ opens' = IF op' \in Installing THEN current' + 1 ELSE current'
          /\ op' \in Installing => watch'[opens'].root = target'
          /\ op' = "installing" /\ current' # 0 => watch'[current'].worker = "ended"
      BY <2>1, <1>1, <1>2 DEF IndexInv, WorkerInv, structure
    <2>3. ASSUME NEW c \in Contexts
          PROVE  /\ c > opens' => watch'[c] = FreshContext
                 /\ c <= opens' => watch'[c].root # "none"
                 /\ c < current' => watch'[c].worker = "ended"
                 /\ watch'[c].worker \in Publishing => watch'[c].root = RootOf(current)'
      BY <1>3, <2>3 DEF IndexInv, WorkerInv, structure
    <2> QED
      BY <2>2, <2>3 DEF WorkerInv
  <1>6. GatesAgree'
    BY <1>3 DEF GatesAgree, structure, gates, IndexInv
  <1> QED
    BY <1>4, <1>5, <1>6

\* A context that does something was opened, so it has a root.
LEMMA BusyIsOpened ==
    ASSUME IndexInv, NEW c \in Contexts,
           \/ watch[c].worker # "none" \/ watch[c].events # {}
           \/ watch[c].callback # "idle"
    PROVE  c <= opens /\ watch[c].root \in Roots
  <1>1. watch[c] # FreshContext
    BY FreshTypes
  <1>2. c \in Nat /\ opens \in Nat
    BY IndexAssumption DEF Contexts, IndexInv, TypeOK
  <1>3. c <= opens
    BY <1>1, <1>2 DEF IndexInv, WorkerInv
  <1>4. watch[c] \in ContextRecords
    BY DEF IndexInv, TypeOK
  <1> QED
    BY <1>3, <1>4 DEF IndexInv, WorkerInv, ContextRecords

\* What one context may become in a step of its callback or of its worker.
MayBecome(c, ctx) ==
    /\ ctx \in ContextRecords /\ Bounded(ctx)
    /\ ctx.root = watch[c].root
    /\ ctx.analysis = "command" => watch[c].analysis = "command"
    /\ watch[c].worker = "ended" => ctx.worker = "ended"
    /\ ctx.worker \in Publishing =>
          watch[c].worker \in Publishing \/ watch[c].root = RootOf(current)

LEMMA ContextBecomes ==
    ASSUME IndexInv, NEW c \in Contexts, NEW ctx, c <= opens, MayBecome(c, ctx),
           WatchStep(c, ctx)
    PROVE  /\ OperationInv' /\ WorkerInv' /\ GatesAgree'
           /\ watch' \in [Contexts -> ContextRecords]
           /\ \A d \in Contexts : Bounded(watch'[d])
  <1>1. watch \in [Contexts -> ContextRecords] /\ \A d \in Contexts : Bounded(watch[d])
    BY DEF IndexInv, TypeOK, Bounded
  <1>2. watch' = [watch EXCEPT ![c] = ctx] /\ UNCHANGED structure
    BY DEF WatchStep, structure, operation
  <1>3. watch'[c] = ctx /\ \A d \in Contexts \ {c} : watch'[d] = watch[d]
    BY <1>1, <1>2
  <1>4. /\ watch' \in [Contexts -> ContextRecords]
        /\ \A d \in Contexts : Bounded(watch'[d])
    BY <1>1, <1>2, <1>3 DEF MayBecome
  <1>5. c \in Nat /\ opens \in Nat
    BY IndexAssumption DEF Contexts, IndexInv, TypeOK
  <1>6. ~(c > opens)
    BY <1>5
  <1>7. \A d \in Contexts :
              /\ watch'[d].root = watch[d].root
              /\ d > opens => watch'[d] = watch[d]
              /\ watch'[d].analysis = "command" => watch[d].analysis = "command"
              /\ watch[d].worker = "ended" => watch'[d].worker = "ended"
              /\ watch'[d].worker \in Publishing =>
                    watch[d].worker \in Publishing \/ watch[d].root = RootOf(current)
    BY <1>3, <1>6 DEF MayBecome
  <1> QED
    BY <1>2, <1>4, <1>7, ContextsKeep

\* A step that leaves the store alone keeps the order of delivery, if the worker
\* takes no more than what is committed and acknowledges what it emitted.
LEMMA QuietContextStep ==
    ASSUME IndexInv, NEW c \in Contexts, NEW ctx, c <= opens, MayBecome(c, ctx),
           CallbackStep(c, ctx),
           ctx.worker = "emit" => ctx.drained <= committed[ctx.root],
           ctx.worker = "ack" => watch[c].worker = "ack" /\ ctx.drained = watch[c].drained
    PROVE  IndexInv'
  <1>1. /\ OperationInv' /\ WorkerInv' /\ GatesAgree'
        /\ watch' \in [Contexts -> ContextRecords]
        /\ \A d \in Contexts : Bounded(watch'[d])
    BY ContextBecomes DEF CallbackStep
  <1>2. TypeOK'
    BY <1>1 DEF IndexInv, TypeOK, CallbackStep, WatchStep, Bounded, database, gates,
                operation, save
  <1>3. DeliveryInv'
    <2>1. watch \in [Contexts -> ContextRecords]
      BY DEF IndexInv, TypeOK
    <2>2. watch'[c] = ctx /\ \A d \in Contexts \ {c} : watch'[d] = watch[d]
      BY <2>1 DEF CallbackStep, WatchStep
    <2>3. UNCHANGED <<committed, acked, emitted>>
      BY DEF CallbackStep, database
    <2> QED
      BY <2>2, <2>3 DEF IndexInv, DeliveryInv, DeliveryInOrder, MayBecome
  <1> QED
    BY <1>1, <1>2, <1>3 DEF IndexInv

\* Batches are finite, and a smaller one is no longer.
LEMMA BatchSizes ==
    /\ Cardinality({}) <= MaxBatch
    /\ \A b \in SUBSET Files : Cardinality(b) \in Nat
    /\ \A b \in SUBSET Files, f \in Files : Cardinality(b \ {f}) <= Cardinality(b)
  <1>1. \A b \in SUBSET Files : IsFiniteSet(b)
    BY FS_Subset, IndexAssumption
  <1>2. \A b \in SUBSET Files, f \in Files : Cardinality(b \ {f}) <= Cardinality(b)
    BY <1>1, FS_Subset
  <1> QED
    BY <1>1, <1>2, FS_CardinalityType, FS_EmptySet, IndexAssumption

\* The callback queues a path, flags what it dropped, or flags a large event.
LEMMA CallbackKeepsInv ==
    ASSUME IndexInv, NEW c \in Contexts, CallbackNext(c)
    PROVE  IndexInv'
  <1> DEFINE w == watch[c]
  <1>1. w \in ContextRecords /\ Bounded(w)
    BY DEF IndexInv, TypeOK, Bounded
  <1>2. c <= opens
    BY BusyIsOpened DEF CallbackNext, Notify, FlagOverflow, NotifyMany, SendEmpty
  <1>3. \A ctx \in ContextRecords :
          /\ CallbackStep(c, ctx) /\ Bounded(ctx)
          /\ ctx.root = w.root /\ ctx.analysis = w.analysis /\ ctx.worker = w.worker
          /\ ctx.drained = w.drained
          => IndexInv'
    <2>1. w.worker = "emit" => w.drained <= committed[w.root]
      BY DEF IndexInv, DeliveryInv
    <2> QED
      BY <1>2, <2>1, QuietContextStep DEF MayBecome
  <1>4. ASSUME NEW f \in Files, Notify(c, f) PROVE IndexInv'
    <2>1. CASE Len(w.queue) < QueueCapacity
      <3> DEFINE ctx == [w EXCEPT !.events = @ \ {f}, !.queue = Append(@, {f})]
      <3>1. /\ Append(w.queue, {f}) \in Seq(SUBSET Files)
            /\ Len(Append(w.queue, {f})) <= QueueCapacity
        BY <1>1, <2>1, IndexAssumption DEF ContextRecords
      <3>2. ctx \in ContextRecords /\ Bounded(ctx)
        BY <1>1, <3>1 DEF ContextRecords, Bounded
      <3>3. CallbackStep(c, ctx)
        BY <1>4, <2>1 DEF Notify
      <3> QED
        BY <1>1, <1>3, <3>2, <3>3 DEF ContextRecords
    <2>2. CASE ~(Len(w.queue) < QueueCapacity)
      <3> DEFINE ctx == [w EXCEPT !.events = @ \ {f}, !.callback = "full"]
      <3>1. ctx \in ContextRecords /\ Bounded(ctx)
        BY <1>1 DEF ContextRecords, Bounded
      <3>2. CallbackStep(c, ctx)
        BY <1>4, <2>2 DEF Notify
      <3> QED
        BY <1>1, <1>3, <3>1, <3>2 DEF ContextRecords
    <2> QED
      BY <2>1, <2>2
  <1>5. CASE FlagOverflow(c)
    <2> DEFINE ctx == [w EXCEPT !.callback = "idle", !.overflowed = TRUE]
    <2>1. ctx \in ContextRecords /\ Bounded(ctx)
      BY <1>1 DEF ContextRecords, Bounded
    <2> QED
      BY <1>1, <1>3, <1>5, <2>1 DEF ContextRecords, FlagOverflow
  <1>6. CASE NotifyMany(c)
    <2> DEFINE ctx == [w EXCEPT !.events = {}, !.overflowed = TRUE, !.callback = "bulk"]
    <2>1. ctx \in ContextRecords /\ Bounded(ctx)
      BY <1>1 DEF ContextRecords, Bounded
    <2> QED
      BY <1>1, <1>3, <1>6, <2>1 DEF ContextRecords, NotifyMany
  <1>7. CASE SendEmpty(c)
    <2> DEFINE room == IF Len(w.queue) < QueueCapacity THEN Append(w.queue, {}) ELSE w.queue
               ctx == [w EXCEPT !.callback = "idle", !.queue = room]
    <2>1. room \in Seq(SUBSET Files) /\ Len(room) <= QueueCapacity
      BY <1>1, IndexAssumption DEF ContextRecords, Bounded
    <2>2. ctx \in ContextRecords /\ Bounded(ctx)
      BY <1>1, <2>1 DEF ContextRecords, Bounded
    <2>3. CallbackStep(c, ctx)
      BY <1>7 DEF SendEmpty
    <2> QED
      BY <1>1, <1>3, <2>2, <2>3 DEF ContextRecords
  <1> QED
    BY <1>4, <1>5, <1>6, <1>7 DEF CallbackNext

\* A batch that grows stays in its bound, or becomes a rescan.
LEMMA ExtendedTypes ==
    ASSUME NEW w \in ContextRecords, Bounded(w), w.queue # <<>>, NEW rescan \in BOOLEAN
    PROVE  LET x == Extended(w, Head(w.queue), rescan) IN
           /\ x \in ContextRecords /\ Bounded(x)
           /\ x.root = w.root /\ x.analysis = w.analysis
  <1>1. Head(w.queue) \in SUBSET Files /\ Tail(w.queue) \in Seq(SUBSET Files)
        /\ Len(Tail(w.queue)) <= QueueCapacity
    BY IndexAssumption DEF ContextRecords, Bounded
  <1> DEFINE all == w.batch \cup Head(w.queue)
  <1>2. all \in SUBSET Files
    BY <1>1 DEF ContextRecords
  <1>3. CASE rescan \/ Cardinality(all) > MaxBatch
    <2> DEFINE x == [w EXCEPT !.queue = Tail(@), !.batch = {}, !.rescan = TRUE]
    <2>1. Extended(w, Head(w.queue), rescan) = x
      BY <1>3 DEF Extended
    <2>2. x \in ContextRecords /\ Bounded(x) /\ x.root = w.root /\ x.analysis = w.analysis
      BY <1>1, BatchSizes DEF ContextRecords, Bounded
    <2> QED
      BY <2>1, <2>2
  <1>4. CASE ~(rescan \/ Cardinality(all) > MaxBatch)
    <2> DEFINE x == [w EXCEPT !.queue = Tail(@), !.batch = all]
    <2>1. Extended(w, Head(w.queue), rescan) = x
      BY <1>4 DEF Extended
    <2>2. Cardinality(all) <= MaxBatch
      BY <1>2, <1>4, BatchSizes, IndexAssumption
    <2>3. x \in ContextRecords /\ Bounded(x) /\ x.root = w.root /\ x.analysis = w.analysis
      BY <1>1, <1>2, <2>2 DEF ContextRecords, Bounded
    <2> QED
      BY <2>1, <2>3
  <1> QED
    BY <1>3, <1>4

\* The worker collects events, waits for its turn, reads files, and looks whether
\* its workspace is still open.
LEMMA QuietWorkerKeepsInv ==
    ASSUME IndexInv, NEW c \in Contexts,
           \/ Receive(c) \/ Collect(c) \/ CollectEnds(c) \/ WorkerEnds(c) \/ Reserve(c)
           \/ \E f \in Files : DeltaRead(c, f) \/ WorkerScan(c, f)
           \/ DeltaFails(c) \/ CheckCurrent(c) \/ QuerySnapshot(c) \/ ProjectSnapshot(c)
           \/ DrainFails(c)
    PROVE  IndexInv'
  <1> DEFINE w == watch[c]
  <1>1. w \in ContextRecords /\ Bounded(w)
    BY DEF IndexInv, TypeOK, Bounded
  <1>2. w.worker \notin {"none", "ended"}
    BY DEF Receive, Collect, CollectEnds, WorkerEnds, Reserve, DeltaRead, WorkerScan,
           DeltaFails, CheckCurrent, QuerySnapshot, ProjectSnapshot, DrainFails
  <1>3. c <= opens /\ w.root \in Roots
    BY <1>2, BusyIsOpened
  <1>4. \A ctx \in ContextRecords :
          /\ CallbackStep(c, ctx) /\ Bounded(ctx)
          /\ ctx.root = w.root /\ ctx.analysis \in {w.analysis, "free", "worker"}
          /\ ctx.worker \notin {"emit", "ack"}
          /\ ctx.worker \in Publishing => w.worker \in Publishing \/ w.root = RootOf(current)
          => IndexInv'
    BY <1>2, <1>3, QuietContextStep DEF MayBecome
  <1>5. CASE Receive(c)
    <2> DEFINE x == Extended(w, Head(w.queue), w.overflowed)
               ctx == [x EXCEPT !.overflowed = FALSE, !.worker = "collecting"]
    <2>1. w.overflowed \in BOOLEAN /\ w.queue # <<>>
      BY <1>1, <1>5 DEF ContextRecords, Receive
    <2>2. x \in ContextRecords /\ Bounded(x) /\ x.root = w.root /\ x.analysis = w.analysis
      BY <1>1, <2>1, ExtendedTypes
    <2>3. ctx \in ContextRecords /\ Bounded(ctx) /\ ctx.worker = "collecting"
          /\ ctx.root = w.root /\ ctx.analysis = w.analysis
      BY <2>2 DEF ContextRecords, Bounded, WorkerStates
    <2>4. CallbackStep(c, ctx)
      BY <1>5 DEF Receive
    <2> HIDE DEF x, ctx
    <2> QED
      BY <1>4, <2>3, <2>4 DEF Publishing
  <1>6. CASE Collect(c)
    <2> DEFINE x == Extended(w, Head(w.queue), w.rescan)
    <2>1. w.rescan \in BOOLEAN /\ w.queue # <<>>
      BY <1>1, <1>6 DEF ContextRecords, Collect
    <2>2. x \in ContextRecords /\ Bounded(x) /\ x.root = w.root /\ x.analysis = w.analysis
      BY <1>1, <2>1, ExtendedTypes
    <2>3. x.worker = "collecting"
      BY <1>1, <1>6 DEF Collect, Extended, ContextRecords
    <2>4. CallbackStep(c, x)
      BY <1>6 DEF Collect
    <2> HIDE DEF x
    <2> QED
      BY <1>4, <2>2, <2>3, <2>4 DEF Publishing
  <1>7. CASE CollectEnds(c)
    <2> DEFINE rescan == w.rescan \/ w.overflowed
               batch == IF rescan THEN {} ELSE w.batch
               ctx == [w EXCEPT !.rescan = rescan, !.overflowed = FALSE, !.batch = batch,
                                !.worker = "waiting"]
    <2>1. batch \in SUBSET Files /\ Cardinality(batch) <= MaxBatch
      BY <1>1, BatchSizes DEF ContextRecords, Bounded
    <2>2. rescan \in BOOLEAN
      OBVIOUS
    <2>3. CallbackStep(c, ctx)
      BY <1>7 DEF CollectEnds
    <2> HIDE DEF rescan, batch
    <2>4. ctx \in ContextRecords /\ Bounded(ctx) /\ ctx.worker = "waiting"
          /\ ctx.root = w.root /\ ctx.analysis = w.analysis
      BY <1>1, <2>1, <2>2 DEF ContextRecords, Bounded, WorkerStates
    <2> HIDE DEF ctx
    <2> QED
      BY <1>4, <2>3, <2>4 DEF Publishing
  <1>8. CASE WorkerEnds(c)
    <2> DEFINE ctx == [w EXCEPT !.worker = "ended"]
    <2>1. ctx \in ContextRecords /\ Bounded(ctx) /\ ctx.worker = "ended"
          /\ ctx.root = w.root /\ ctx.analysis = w.analysis
      BY <1>1 DEF ContextRecords, Bounded, WorkerStates
    <2> QED
      BY <1>4, <1>8, <2>1 DEF WorkerEnds, Publishing
  <1>9. CASE Reserve(c)
    <2>1. PICK pc \in {"scanning", "delta", "idle"}, who \in {w.analysis, "worker"} :
             CallbackStep(c, [w EXCEPT !.analysis = who, !.worker = pc])
      <3>1. [w EXCEPT !.worker = "idle"] = [w EXCEPT !.analysis = w.analysis, !.worker = "idle"]
        BY <1>1 DEF ContextRecords
      <3> QED
        BY <1>9, <3>1 DEF Reserve
    <2> DEFINE ctx == [w EXCEPT !.analysis = who, !.worker = pc]
    <2>2. ctx \in ContextRecords /\ Bounded(ctx) /\ ctx.worker = pc
          /\ ctx.root = w.root /\ ctx.analysis = who
      BY <1>1, <2>1 DEF ContextRecords, Bounded, WorkerStates
    <2> QED
      BY <1>4, <2>1, <2>2 DEF Publishing
  <1>10. ASSUME NEW f \in Files, DeltaRead(c, f) \/ WorkerScan(c, f) PROVE IndexInv'
    <2> DEFINE ctx == [w EXCEPT !.copy[f] = disk[w.root][f]]
    <2>1. disk[w.root][f] \in Nat
      BY <1>3 DEF IndexInv, TypeOK, Versions
    <2>2. ctx \in ContextRecords /\ Bounded(ctx) /\ ctx.worker = w.worker
          /\ ctx.root = w.root /\ ctx.analysis = w.analysis
      BY <1>1, <2>1 DEF ContextRecords, Bounded, Copies
    <2> QED
      BY <1>4, <1>10, <2>2 DEF DeltaRead, WorkerScan, Publishing
  <1>11. CASE DeltaFails(c)
    <2> DEFINE ctx == [w EXCEPT !.batch = {}, !.copy = Unread, !.rescan = TRUE,
                                !.analysis = "free", !.worker = "waiting"]
    <2>1. Unread \in Copies
      BY DEF Unread, Copies
    <2>2. ctx \in ContextRecords /\ Bounded(ctx) /\ ctx.worker = "waiting"
          /\ ctx.root = w.root /\ ctx.analysis = "free"
      BY <1>1, <2>1, BatchSizes DEF ContextRecords, Bounded, WorkerStates
    <2> QED
      BY <1>4, <1>11, <2>2 DEF DeltaFails, Publishing
  <1>12. CASE CheckCurrent(c)
    <2> DEFINE pc == IF RootOf(current) = w.root THEN "snapshot" ELSE "idle"
               ctx == [w EXCEPT !.worker = pc]
    <2>1. ctx \in ContextRecords /\ Bounded(ctx) /\ ctx.worker = pc
          /\ ctx.root = w.root /\ ctx.analysis = w.analysis
      BY <1>1 DEF ContextRecords, Bounded, WorkerStates, Publishing
    <2>2. CallbackStep(c, ctx)
      BY <1>12 DEF CheckCurrent
    <2>3. pc \notin {"emit", "ack"} /\ (pc \in Publishing => w.root = RootOf(current))
      BY DEF Publishing
    <2> HIDE DEF ctx, pc
    <2> QED
      BY <1>4, <2>1, <2>2, <2>3
  <1>13. CASE QuerySnapshot(c)
    <2> DEFINE ctx == [w EXCEPT !.store = "worker", !.worker = "project"]
    <2>1. ctx \in ContextRecords /\ Bounded(ctx) /\ ctx.worker = "project"
          /\ ctx.root = w.root /\ ctx.analysis = w.analysis
      BY <1>1 DEF ContextRecords, Bounded, WorkerStates, Publishing
    <2> QED
      BY <1>4, <1>13, <2>1 DEF QuerySnapshot, Publishing
  <1>14. CASE ProjectSnapshot(c)
    <2> DEFINE ctx == [w EXCEPT !.store = "free", !.worker = "pending"]
    <2>1. ctx \in ContextRecords /\ Bounded(ctx) /\ ctx.worker = "pending"
          /\ ctx.root = w.root /\ ctx.analysis = w.analysis
      BY <1>1 DEF ContextRecords, Bounded, WorkerStates, Publishing
    <2> QED
      BY <1>4, <1>14, <2>1 DEF ProjectSnapshot, Publishing
  <1>15. CASE DrainFails(c)
    <2> DEFINE ctx == [w EXCEPT !.drained = 0, !.worker = "idle"]
    <2>1. ctx \in ContextRecords /\ Bounded(ctx) /\ ctx.worker = "idle"
          /\ ctx.root = w.root /\ ctx.analysis = w.analysis
      BY <1>1 DEF ContextRecords, Bounded, WorkerStates
    <2> QED
      BY <1>4, <1>15, <2>1 DEF DrainFails, Publishing
  <1> QED
    BY <1>5, <1>6, <1>7, <1>8, <1>9, <1>10, <1>11, <1>12, <1>13, <1>14, <1>15

\* A transaction only adds to what is committed, which disturbs no delivery.
LEMMA DeliveryKeeps ==
    ASSUME IndexInv, UNCHANGED <<acked, emitted>>,
           committed' \in [Roots -> Nat],
           \A r \in Roots : committed'[r] >= committed[r],
           \A c \in Contexts : watch'[c].worker \in {"emit", "ack"} =>
               /\ watch'[c].worker = watch[c].worker
               /\ watch'[c].drained = watch[c].drained
               /\ watch'[c].root = watch[c].root
    PROVE  DeliveryInv'
  <1>1. /\ committed \in [Roots -> Nat] /\ acked \in [Roots -> Nat]
        /\ emitted \in [Roots -> Nat] /\ watch \in [Contexts -> ContextRecords]
    BY DEF IndexInv, TypeOK
  <1>2. DeliveryInOrder'
    BY <1>1 DEF IndexInv, DeliveryInv, DeliveryInOrder
  <1>3. ASSUME NEW c \in Contexts
        PROVE  /\ watch'[c].worker = "emit" =>
                     watch'[c].drained <= committed'[watch'[c].root]
               /\ watch'[c].worker = "ack" =>
                     watch'[c].drained <= emitted'[watch'[c].root]
    <2>1. watch[c].worker \in {"emit", "ack"} =>
             /\ watch[c].root \in Roots /\ watch[c].drained \in Nat
             /\ watch[c].worker = "emit" => watch[c].drained <= committed[watch[c].root]
             /\ watch[c].worker = "ack" => watch[c].drained <= emitted[watch[c].root]
      BY <1>1, BusyIsOpened DEF IndexInv, DeliveryInv, ContextRecords
    <2> QED
      BY <1>1, <2>1
  <1> QED
    BY <1>2, <1>3 DEF DeliveryInv

LEMMA TransactionTypes ==
    ASSUME IndexInv, NEW r \in Roots, NEW rows \in Copies, Transaction(r, rows)
    PROVE  /\ index' \in [Roots -> Copies] /\ committed' \in [Roots -> Nat]
           /\ \A s \in Roots : committed'[s] >= committed[s]
           /\ acked' = acked
  <1>1. index \in [Roots -> Copies] /\ committed \in [Roots -> Nat]
    BY DEF IndexInv, TypeOK
  <1> QED
    BY <1>1 DEF Transaction

\* The worker commits what it read, gives up, or takes and acknowledges records.
LEMMA StoringWorkerKeepsInv ==
    ASSUME IndexInv, NEW c \in Contexts,
           \/ \E f \in Files : DeltaCommit(c, f)
           \/ WorkerReplaceAll(c) \/ WorkerScanFails(c)
           \/ ReadPending(c) \/ Emit(c) \/ Acknowledge(c)
    PROVE  IndexInv'
  <1> DEFINE w == watch[c]
  <1>1. w \in ContextRecords /\ Bounded(w) /\ watch \in [Contexts -> ContextRecords]
    BY DEF IndexInv, TypeOK, Bounded
  <1>2. w.worker \notin {"none", "ended"}
    BY DEF DeltaCommit, WorkerReplaceAll, WorkerScanFails, ReadPending, Emit, Acknowledge
  <1>3. c <= opens /\ w.root \in Roots
    BY <1>2, BusyIsOpened
  <1>4. \A ctx \in ContextRecords :
          /\ WatchStep(c, ctx) /\ Bounded(ctx)
          /\ ctx.root = w.root /\ ctx.analysis \in {w.analysis, "free"}
          /\ ctx.worker \in Publishing => w.worker \in Publishing
          => /\ OperationInv' /\ WorkerInv' /\ GatesAgree'
             /\ watch' \in [Contexts -> ContextRecords]
             /\ \A d \in Contexts : Bounded(watch'[d])
             /\ watch'[c] = ctx /\ \A d \in Contexts \ {c} : watch'[d] = watch[d]
    <2> TAKE ctx \in ContextRecords
    <2> HAVE /\ WatchStep(c, ctx) /\ Bounded(ctx)
             /\ ctx.root = w.root /\ ctx.analysis \in {w.analysis, "free"}
             /\ ctx.worker \in Publishing => w.worker \in Publishing
    <2>1. MayBecome(c, ctx)
      BY <1>2 DEF MayBecome
    <2>2. watch'[c] = ctx /\ \A d \in Contexts \ {c} : watch'[d] = watch[d]
      BY <1>1 DEF WatchStep
    <2> QED
      BY <1>3, <2>1, <2>2, ContextBecomes
  <1>5. ASSUME NEW ctx \in ContextRecords,
               /\ WatchStep(c, ctx) /\ Bounded(ctx)
               /\ ctx.root = w.root /\ ctx.analysis \in {w.analysis, "free"}
               /\ ctx.worker \in {"delta", "check", "idle"},
               /\ index' \in [Roots -> Copies] /\ committed' \in [Roots -> Nat]
               /\ \A s \in Roots : committed'[s] >= committed[s]
               /\ acked' = acked /\ emitted' = emitted
               /\ excused' \in [Contexts -> SUBSET Files]
        PROVE  IndexInv'
    <2>1. /\ OperationInv' /\ WorkerInv' /\ GatesAgree'
          /\ watch' \in [Contexts -> ContextRecords]
          /\ \A d \in Contexts : Bounded(watch'[d])
          /\ watch'[c] = ctx /\ \A d \in Contexts \ {c} : watch'[d] = watch[d]
      BY <1>4, <1>5 DEF Publishing
    <2>2. TypeOK'
      BY <1>5, <2>1 DEF IndexInv, TypeOK, WatchStep, Bounded, gates, operation, save
    <2>3. DeliveryInv'
      BY <1>5, <2>1, DeliveryKeeps
    <2> QED
      BY <2>1, <2>2, <2>3 DEF IndexInv
  <1>6. ASSUME NEW f \in Files, DeltaCommit(c, f) PROVE IndexInv'
    <2> DEFINE rows == [index[w.root] EXCEPT ![f] = w.copy[f]]
               last == [w EXCEPT !.batch = {}, !.copy = Unread, !.analysis = "free",
                                 !.worker = "check"]
               next == [w EXCEPT !.batch = @ \ {f}, !.copy = Unread]
    <2>1. rows \in Copies
      BY <1>1, <1>3 DEF IndexInv, TypeOK, Copies, ContextRecords
    <2>2. excused' \in [Contexts -> SUBSET Files] /\ emitted' = emitted
      BY <1>6 DEF DeltaCommit, IndexInv, TypeOK
    <2>3. Transaction(w.root, rows)
      BY <1>6 DEF DeltaCommit
    <2>4. /\ index' \in [Roots -> Copies] /\ committed' \in [Roots -> Nat]
          /\ \A s \in Roots : committed'[s] >= committed[s]
          /\ acked' = acked
      <3> HIDE DEF rows
      <3> QED
        BY <1>3, <2>1, <2>3, TransactionTypes
    <2>5. Unread \in Copies
      BY DEF Unread, Copies
    <2>6. CASE w.batch = {f}
      <3>1. last \in ContextRecords /\ Bounded(last) /\ last.root = w.root
            /\ last.analysis = "free" /\ last.worker = "check"
        BY <1>1, <2>5, BatchSizes DEF ContextRecords, Bounded, WorkerStates
      <3>2. WatchStep(c, last)
        BY <1>6, <2>6 DEF DeltaCommit
      <3> HIDE DEF last
      <3> QED
        BY <1>5, <2>2, <2>4, <3>1, <3>2
    <2>7. CASE w.batch # {f}
      <3>0. w.batch \ {f} \in SUBSET Files /\ Cardinality(w.batch \ {f}) <= MaxBatch
        <4>1. w.batch \in SUBSET Files /\ w.batch \ {f} \in SUBSET Files
              /\ Cardinality(w.batch) <= MaxBatch
          BY <1>1 DEF ContextRecords, Bounded
        <4> QED
          BY <4>1, BatchSizes, IndexAssumption
      <3>1. next \in ContextRecords /\ Bounded(next) /\ next.root = w.root
            /\ next.analysis = w.analysis /\ next.worker = "delta"
        BY <1>1, <1>6, <2>5, <3>0 DEF ContextRecords, Bounded, DeltaCommit
      <3>2. WatchStep(c, next)
        BY <1>6, <2>7 DEF DeltaCommit
      <3> HIDE DEF next
      <3> QED
        BY <1>5, <2>2, <2>4, <3>1, <3>2
    <2> QED
      BY <2>6, <2>7
  <1>7. CASE WorkerReplaceAll(c)
    <2> DEFINE ctx == [w EXCEPT !.copy = Unread, !.rescan = FALSE, !.analysis = "free",
                                !.worker = "check"]
    <2>1. Unread \in Copies /\ w.copy \in Copies
      BY <1>1 DEF Unread, Copies, ContextRecords
    <2>2. /\ index' \in [Roots -> Copies] /\ committed' \in [Roots -> Nat]
          /\ \A s \in Roots : committed'[s] >= committed[s]
          /\ acked' = acked
      BY <1>3, <1>7, <2>1, TransactionTypes DEF WorkerReplaceAll
    <2>3. excused' \in [Contexts -> SUBSET Files] /\ emitted' = emitted
      BY <1>7 DEF WorkerReplaceAll, IndexInv, TypeOK
    <2>4. ctx \in ContextRecords /\ Bounded(ctx) /\ ctx.root = w.root
          /\ ctx.analysis = "free" /\ ctx.worker = "check"
      BY <1>1, <2>1 DEF ContextRecords, Bounded, WorkerStates
    <2>5. WatchStep(c, ctx)
      BY <1>7 DEF WorkerReplaceAll
    <2> HIDE DEF ctx
    <2> QED
      BY <1>5, <2>2, <2>3, <2>4, <2>5
  <1>8. CASE WorkerScanFails(c)
    <2> DEFINE ctx == [w EXCEPT !.copy = Unread, !.rescan = FALSE, !.analysis = "free",
                                !.worker = "idle"]
    <2>1. Unread \in Copies
      BY DEF Unread, Copies
    <2>2. excused' \in [Contexts -> SUBSET Files]
      BY <1>8 DEF WorkerScanFails, IndexInv, TypeOK
    <2>3. /\ index' \in [Roots -> Copies] /\ committed' \in [Roots -> Nat]
          /\ \A s \in Roots : committed'[s] >= committed[s]
          /\ acked' = acked /\ emitted' = emitted
      BY <1>8 DEF WorkerScanFails, IndexInv, TypeOK, database
    <2>4. ctx \in ContextRecords /\ Bounded(ctx) /\ ctx.root = w.root
          /\ ctx.analysis = "free" /\ ctx.worker = "idle"
      BY <1>1, <2>1 DEF ContextRecords, Bounded, WorkerStates
    <2>5. WatchStep(c, ctx)
      BY <1>8 DEF WorkerScanFails
    <2> HIDE DEF ctx
    <2> QED
      BY <1>5, <2>2, <2>3, <2>4, <2>5
  <1>9. CASE ReadPending(c)
    <2> DEFINE last == IF acked[w.root] + DrainLimit < committed[w.root]
                       THEN acked[w.root] + DrainLimit ELSE committed[w.root]
    <2>1. last \in Nat /\ last <= committed[w.root]
      <3>1. acked[w.root] \in Nat /\ committed[w.root] \in Nat /\ DrainLimit \in Nat
        BY <1>3, IndexAssumption DEF IndexInv, TypeOK
      <3> QED
        BY <3>1
    <2>2. CASE acked[w.root] < committed[w.root]
      <3> DEFINE ctx == [w EXCEPT !.drained = last, !.worker = "emit"]
      <3>1. CallbackStep(c, ctx)
        BY <1>9, <2>2 DEF ReadPending
      <3> HIDE DEF last
      <3>2. ctx \in ContextRecords /\ Bounded(ctx) /\ ctx.root = w.root
            /\ ctx.analysis = w.analysis /\ ctx.worker = "emit" /\ ctx.drained = last
        BY <1>1, <2>1 DEF ContextRecords, Bounded, WorkerStates, Publishing
      <3>3. MayBecome(c, ctx)
        BY <1>2, <1>9, <3>2 DEF MayBecome, ReadPending, Publishing
      <3> HIDE DEF ctx
      <3> QED
        BY <1>3, <2>1, <3>1, <3>2, <3>3, QuietContextStep
    <2>3. CASE ~(acked[w.root] < committed[w.root])
      <3> DEFINE ctx == [w EXCEPT !.worker = "idle"]
      <3>1. CallbackStep(c, ctx)
        BY <1>9, <2>3 DEF ReadPending
      <3>2. ctx \in ContextRecords /\ Bounded(ctx) /\ ctx.root = w.root
            /\ ctx.analysis = w.analysis /\ ctx.worker = "idle"
        BY <1>1 DEF ContextRecords, Bounded, WorkerStates
      <3>3. MayBecome(c, ctx)
        BY <1>2, <3>2 DEF MayBecome, Publishing
      <3> HIDE DEF ctx
      <3> QED
        BY <1>3, <3>1, <3>2, <3>3, QuietContextStep
    <2> QED
      BY <2>2, <2>3
  <1>10. CASE Emit(c)
    <2> DEFINE ctx == [w EXCEPT !.worker = "ack"]
    <2>1. ctx \in ContextRecords /\ Bounded(ctx) /\ ctx.root = w.root
          /\ ctx.analysis = w.analysis /\ ctx.worker = "ack" /\ ctx.drained = w.drained
      BY <1>1 DEF ContextRecords, Bounded, WorkerStates, Publishing
    <2>2. /\ OperationInv' /\ WorkerInv' /\ GatesAgree'
          /\ watch' \in [Contexts -> ContextRecords]
          /\ \A d \in Contexts : Bounded(watch'[d])
          /\ watch'[c] = ctx /\ \A d \in Contexts \ {c} : watch'[d] = watch[d]
      BY <1>4, <1>10, <2>1 DEF Emit, Publishing
    <2>3. /\ emitted' \in [Roots -> Nat] /\ emitted'[w.root] >= w.drained
          /\ \A r \in Roots : emitted'[r] >= emitted[r] /\ emitted'[r] <= committed[r]
      <3>1. /\ w.drained \in Nat /\ w.drained <= committed[w.root]
            /\ emitted \in [Roots -> Nat] /\ committed \in [Roots -> Nat]
            /\ \A r \in Roots : emitted[r] <= committed[r]
        BY <1>1, <1>10 DEF Emit, IndexInv, TypeOK, DeliveryInv, DeliveryInOrder,
                           ContextRecords
      <3>2. emitted' = [emitted EXCEPT ![w.root] = IF @ < w.drained THEN w.drained ELSE @]
        BY <1>10 DEF Emit
      <3> QED
        BY <1>3, <3>1, <3>2
    <2>4. UNCHANGED <<index, committed, acked, excused>>
      BY <1>10 DEF Emit, database
    <2>5. TypeOK'
      BY <1>10, <2>2, <2>3, <2>4 DEF IndexInv, TypeOK, Emit, WatchStep, Bounded, gates,
                                     operation, save
    <2>6. DeliveryInOrder'
      BY <2>3, <2>4 DEF IndexInv, TypeOK, DeliveryInv, DeliveryInOrder
    <2>7. ASSUME NEW d \in Contexts
          PROVE  /\ watch'[d].worker = "emit" =>
                       watch'[d].drained <= committed'[watch'[d].root]
                 /\ watch'[d].worker = "ack" =>
                       watch'[d].drained <= emitted'[watch'[d].root]
      <3>1. CASE d = c
        BY <2>1, <2>2, <2>3, <3>1, <1>1, <1>3 DEF ContextRecords
      <3>2. CASE d # c
        <4>1. watch'[d] = watch[d]
          BY <2>2, <3>2
        <4>2. watch[d].worker \in {"emit", "ack"} =>
                /\ watch[d].root \in Roots /\ watch[d].drained \in Nat
                /\ watch[d].worker = "emit" => watch[d].drained <= committed[watch[d].root]
                /\ watch[d].worker = "ack" => watch[d].drained <= emitted[watch[d].root]
          BY <1>1, BusyIsOpened DEF IndexInv, DeliveryInv, ContextRecords
        <4>3. emitted \in [Roots -> Nat]
          BY DEF IndexInv, TypeOK
        <4> QED
          BY <2>3, <2>4, <4>1, <4>2, <4>3
      <3> QED
        BY <3>1, <3>2
    <2> QED
      BY <2>2, <2>5, <2>6, <2>7 DEF IndexInv, DeliveryInv
  <1>11. CASE Acknowledge(c)
    <2> DEFINE ctx == [w EXCEPT !.drained = 0, !.worker = "idle"]
    <2>1. ctx \in ContextRecords /\ Bounded(ctx) /\ ctx.root = w.root
          /\ ctx.analysis = w.analysis /\ ctx.worker = "idle"
      BY <1>1 DEF ContextRecords, Bounded, WorkerStates
    <2>2. /\ OperationInv' /\ WorkerInv' /\ GatesAgree'
          /\ watch' \in [Contexts -> ContextRecords]
          /\ \A d \in Contexts : Bounded(watch'[d])
          /\ watch'[c] = ctx /\ \A d \in Contexts \ {c} : watch'[d] = watch[d]
      BY <1>4, <1>11, <2>1 DEF Acknowledge, Publishing
    <2>3. /\ acked' \in [Roots -> Nat]
          /\ \A r \in Roots : acked'[r] <= emitted[r]
      <3>1. /\ w.drained \in Nat /\ w.drained <= emitted[w.root]
            /\ acked \in [Roots -> Nat] /\ emitted \in [Roots -> Nat]
            /\ \A r \in Roots : acked[r] <= emitted[r]
        BY <1>1, <1>11 DEF Acknowledge, IndexInv, TypeOK, DeliveryInv, DeliveryInOrder,
                           ContextRecords
      <3>2. acked' = [acked EXCEPT ![w.root] = IF @ < w.drained THEN w.drained ELSE @]
        BY <1>11 DEF Acknowledge
      <3> QED
        BY <1>3, <3>1, <3>2
    <2>4. UNCHANGED <<index, committed, emitted, excused>>
      BY <1>11 DEF Acknowledge
    <2>5. TypeOK'
      BY <1>11, <2>2, <2>3, <2>4 DEF IndexInv, TypeOK, Acknowledge, WatchStep, Bounded,
                                     gates, operation, save
    <2>6. DeliveryInv'
      BY <2>1, <2>2, <2>3, <2>4 DEF IndexInv, DeliveryInv, DeliveryInOrder
    <2> QED
      BY <2>2, <2>5, <2>6 DEF IndexInv
  <1> QED
    BY <1>6, <1>7, <1>8, <1>9, <1>10, <1>11

LEMMA WorkerKeepsInv ==
    ASSUME IndexInv, NEW c \in Contexts, WorkerNext(c)
    PROVE  IndexInv'
  BY QuietWorkerKeepsInv, StoringWorkerKeepsInv DEF WorkerNext

--------------------------------------------------------------------------------
(* The command.                                                            *)

\* Where the command is decides about the gates.
LEMMA GatesFollow == TypeOK /\ OperationInv => GatesAgree
  BY DEF TypeOK, OperationInv, GatesAgree

\* The contexts go on as they were, but for who holds a reservation, which events
\* are in, and whether the native watcher is on.
ContextsRest ==
    /\ watch' \in [Contexts -> ContextRecords]
    /\ \A c \in Contexts :
          /\ Bounded(watch'[c])
          /\ watch'[c].root = watch[c].root /\ watch'[c].worker = watch[c].worker
          /\ watch'[c].drained = watch[c].drained
          /\ c > opens => watch'[c] = watch[c]

LEMMA SameRests ==
    ASSUME IndexInv, UNCHANGED watch
    PROVE  ContextsRest
  BY DEF IndexInv, TypeOK, ContextsRest, Bounded

LEMMA ReleasedRests ==
    ASSUME IndexInv, watch' = Released
    PROVE  ContextsRest /\ \A c \in Contexts : watch'[c].analysis # "command"
  <1>1. watch \in [Contexts -> ContextRecords] /\ \A c \in Contexts : Bounded(watch[c])
    BY DEF IndexInv, TypeOK, Bounded
  <1>2. ASSUME NEW c \in Contexts
        PROVE  /\ watch'[c] \in ContextRecords /\ Bounded(watch'[c])
               /\ watch'[c].root = watch[c].root /\ watch'[c].worker = watch[c].worker
               /\ watch'[c].drained = watch[c].drained
               /\ c > opens => watch'[c] = watch[c]
               /\ watch'[c].analysis # "command"
    <2>1. CASE watch[c].analysis = "command"
      <3> DEFINE x == [watch[c] EXCEPT !.analysis = "free"]
      <3>1. watch'[c] = x
        BY <2>1 DEF Released
      <3>2. ~(c > opens)
        BY <2>1, FreshTypes DEF IndexInv, WorkerInv
      <3>3. /\ x \in ContextRecords /\ Bounded(x)
            /\ x.root = watch[c].root /\ x.worker = watch[c].worker
            /\ x.drained = watch[c].drained /\ x.analysis = "free"
        BY <1>1, Reserved
      <3> HIDE DEF x
      <3> QED
        BY <3>1, <3>2, <3>3
    <2>2. CASE watch[c].analysis # "command"
      BY <1>1, <2>2 DEF Released
    <2> QED
      BY <2>1, <2>2
  <1>3. watch' = [c \in Contexts |-> watch'[c]]
    BY DEF Released
  <1> QED
    BY <1>2, <1>3 DEF ContextsRest

\* As long as no context is installed, the workers are where they were.
LEMMA OperationMoves ==
    ASSUME IndexInv, ContextsRest, UNCHANGED <<current, opens, acked, emitted>>,
           committed' \in [Roots -> Nat],
           \A r \in Roots : committed'[r] >= committed[r],
           op' \in Installing <=> op \in Installing,
           op' \in Installing => target' = target,
           op' = "installing" =>
              op = "installing" \/ current = 0 \/ watch[current].worker = "ended"
    PROVE  WorkerInv' /\ DeliveryInv' /\ RootOf(current)' = RootOf(current)
  <1>1. current \in 0..opens /\ opens \in 0..MaxRequests /\ MaxRequests \in Nat
    BY IndexAssumption DEF IndexInv, TypeOK
  <1>2. (current # 0 => current \in Contexts) /\ (opens # 0 => opens \in Contexts)
    BY <1>1 DEF Contexts
  <1>3. RootOf(current)' = RootOf(current)
    BY <1>2 DEF RootOf, ContextsRest
  <1>4. DeliveryInv'
    BY DeliveryKeeps DEF ContextsRest
  <1>5. WorkerInv'
    <2>1. opens' = IF op' \in Installing THEN current' + 1 ELSE current'
      BY DEF IndexInv, WorkerInv
    <2>2. op \in Installing => opens \in Contexts
      BY <1>1, <1>2 DEF IndexInv, WorkerInv
    <2>3. op' \in Installing => watch'[opens'].root = target'
      BY <2>2 DEF IndexInv, WorkerInv, ContextsRest
    <2>4. op' = "installing" /\ current' # 0 => watch'[current'].worker = "ended"
      BY <1>2 DEF IndexInv, WorkerInv, ContextsRest
    <2>5. ASSUME NEW c \in Contexts
          PROVE  /\ c > opens' => watch'[c] = FreshContext
                 /\ c <= opens' => watch'[c].root # "none"
                 /\ c < current' => watch'[c].worker = "ended"
                 /\ watch'[c].worker \in Publishing => watch'[c].root = RootOf(current)'
      BY <1>3, <2>5 DEF IndexInv, WorkerInv, ContextsRest
    <2> QED
      BY <2>1, <2>3, <2>4, <2>5 DEF WorkerInv
  <1> QED
    BY <1>3, <1>4, <1>5

\* The steps of the command that leave the contexts and the index alone.
LEMMA WaitingCommandKeepsInv ==
    ASSUME IndexInv,
           \/ BeginRuntime \/ RuntimeRefuses \/ \E f \in Files : ScanFile(f)
           \/ WatcherFails \/ JoinOldWorker \/ CompleteRuntime \/ CompleteTerminal
           \/ CancelTerminal
           \/ \E r \in Roots : RequestOpen(r)
           \/ RequestRescan
    PROVE  IndexInv'
  <1>1. UNCHANGED <<watch, current, opens, database, emitted, disk, changes, save,
                    excused, survived, crashes>>
    BY DEF BeginRuntime, RuntimeRefuses, ScanFile, WatcherFails, JoinOldWorker,
           CompleteRuntime, CompleteTerminal, CancelTerminal, RequestOpen, RequestRescan,
           GateStep, QuietStep, CommandStep, OperationAt
  <1>2. ContextsRest
    BY <1>1, SameRests
  <1>3. WorkerInv' /\ DeliveryInv' /\ RootOf(current)' = RootOf(current)
    <2>1. /\ op' \in Installing <=> op \in Installing
          /\ op' \in Installing => target' = target
          /\ op' = "installing" =>
               op = "installing" \/ current = 0 \/ watch[current].worker = "ended"
      BY DEF BeginRuntime, RuntimeRefuses, ScanFile, WatcherFails, JoinOldWorker,
             CompleteRuntime, CompleteTerminal, CancelTerminal, RequestOpen, RequestRescan,
             GateStep, QuietStep, CommandStep, OperationAt, Installing
    <2>2. committed \in [Roots -> Nat] /\ \A r \in Roots : committed[r] >= committed[r]
      BY DEF IndexInv, TypeOK
    <2> QED
      BY <1>1, <1>2, <2>1, <2>2, OperationMoves DEF database
  <1>4. TypeOK' /\ OperationInv'
    <2> USE <1>1, <1>3 DEF IndexInv, TypeOK, OperationInv, OpStates, Installing, database,
                           save, Contexts
    <2>1. CASE BeginRuntime
      BY <2>1 DEF BeginRuntime, GateStep, OperationAt
    <2>2. CASE RuntimeRefuses
      BY <2>2 DEF RuntimeRefuses, QuietStep, CommandStep, OperationAt
    <2>3. ASSUME NEW f \in Files, ScanFile(f) PROVE TypeOK' /\ OperationInv'
      <3>1. disk[target][f] \in Nat
        BY <2>3 DEF ScanFile, Versions
      <3>2. opCopy' \in Copies
        BY <2>3, <3>1 DEF ScanFile, Copies
      <3> QED
        BY <2>3, <3>2 DEF ScanFile, QuietStep, CommandStep, OperationAt
    <2>4. CASE WatcherFails
      BY <2>4 DEF WatcherFails, QuietStep, CommandStep, OperationAt
    <2>5. CASE JoinOldWorker
      BY <2>5 DEF JoinOldWorker, QuietStep, CommandStep, OperationAt
    <2>6. CASE CompleteRuntime
      BY <2>6 DEF CompleteRuntime, GateStep, OperationAt
    <2>7. CASE CompleteTerminal
      BY <2>7 DEF CompleteTerminal, GateStep, OperationAt
    <2>8. CASE CancelTerminal
      BY <2>8 DEF CancelTerminal, GateStep, OperationAt
    <2>9. ASSUME NEW r \in Roots, RequestOpen(r) PROVE TypeOK' /\ OperationInv'
      BY <2>9, IndexAssumption DEF RequestOpen
    <2>10. CASE RequestRescan
      <3>1. RootOf(current) \in Roots
        BY <2>10 DEF RequestRescan, WorkerInv, RootOf, ContextRecords
      <3> QED
        BY <2>10, <3>1, IndexAssumption DEF RequestRescan, gates
    <2> QED
      BY <2>1, <2>2, <2>3, <2>4, <2>5, <2>6, <2>7, <2>8, <2>9, <2>10
  <1> QED
    BY <1>3, <1>4, GatesFollow, PTL DEF IndexInv

\* The steps that give the reservation back.
LEMMA ReleasingCommandKeepsInv ==
    ASSUME IndexInv, ScanFails \/ ReleasePrevious \/ Refresh \/ CancelRuntime
    PROVE  IndexInv'
  <1>1. UNCHANGED <<current, opens, database, emitted, disk, changes, save, excused,
                    survived, crashes, requests>>
    BY DEF ScanFails, ReleasePrevious, Refresh, CancelRuntime, GateStep, QuietStep,
           CommandStep, OperationAt
  <1>2. /\ ContextsRest
        /\ \A c \in Contexts : watch'[c].analysis = "command" =>
              op = "scanning" /\ ScanFails /\ watch'[c] = watch[c]
    <2>1. CASE ScanFails /\ op = "scanning"
      BY <2>1, SameRests DEF ScanFails
    <2>2. CASE watch' = Released
      BY <2>2, ReleasedRests
    <2> QED
      BY <2>1, <2>2 DEF ScanFails, ReleasePrevious, Refresh, CancelRuntime
  <1>3. WorkerInv' /\ DeliveryInv' /\ RootOf(current)' = RootOf(current)
    <2>1. /\ op' \in Installing <=> op \in Installing
          /\ op' \in Installing => target' = target
          /\ op' = "installing" =>
               op = "installing" \/ current = 0 \/ watch[current].worker = "ended"
      BY DEF ScanFails, ReleasePrevious, Refresh, CancelRuntime, GateStep, QuietStep,
             CommandStep, OperationAt, Installing
    <2>2. committed \in [Roots -> Nat] /\ \A r \in Roots : committed[r] >= committed[r]
      BY DEF IndexInv, TypeOK
    <2> QED
      BY <1>1, <1>2, <2>1, <2>2, OperationMoves DEF database
  <1>4. TypeOK' /\ OperationInv'
    <2> USE <1>1, <1>2, <1>3 DEF IndexInv, TypeOK, OperationInv, OpStates, Installing,
                                 database, save, ContextsRest, Bounded
    <2>0. Unread \in Copies
      BY DEF Unread, Copies
    <2>1. CASE ScanFails
      <3>1. TypeOK'
        BY <2>0, <2>1 DEF ScanFails, QuietStep, CommandStep, OperationAt
      <3>2. CASE kind = "open"
        <4>1. op' = "cancelRuntime" /\ kind' = "open" /\ target' = target
          BY <2>1, <3>2 DEF ScanFails, QuietStep, CommandStep, OperationAt
        <4> QED
          BY <2>1, <3>1, <3>2, <4>1 DEF ScanFails, QuietStep, CommandStep, OperationAt
      <3>3. CASE kind = "rescan"
        <4>1. op = "rescanning" /\ op' = "idle" /\ kind' = "open" /\ target' = "none"
          BY <2>1, <3>3 DEF ScanFails, QuietStep, CommandStep, OperationAt
        <4> QED
          BY <2>1, <3>1, <3>3, <4>1 DEF ScanFails, QuietStep, CommandStep, OperationAt
      <3> QED
        BY <3>1, <3>2, <3>3
    <2>2. CASE ReleasePrevious
      BY <2>2 DEF ReleasePrevious, QuietStep, CommandStep, OperationAt
    <2>3. CASE Refresh
      BY <2>3 DEF Refresh, QuietStep, CommandStep, OperationAt
    <2>4. CASE CancelRuntime
      BY <2>4 DEF CancelRuntime, GateStep, OperationAt
    <2> QED
      BY <2>1, <2>2, <2>3, <2>4
  <1> QED
    BY <1>3, <1>4, GatesFollow, PTL DEF IndexInv

\* The commit of a scan, to the store of its own or to the one of the open context.
LEMMA CommittingCommandKeepsInv ==
    ASSUME IndexInv, CommitScan \/ CommitRescan
    PROVE  IndexInv'
  <1>1. UNCHANGED <<watch, current, opens, emitted, disk, changes, save, survived, crashes, requests,
                    gates, kind, target>>
    BY DEF CommitScan, CommitRescan, CommandStep, OperationAt, gates
  <1>2. ContextsRest
    BY <1>1, SameRests
  <1>3. target \in Roots /\ opCopy \in Copies /\ Transaction(target, opCopy)
    BY DEF CommitScan, CommitRescan, IndexInv, OperationInv, TypeOK
  <1>4. /\ index' \in [Roots -> Copies] /\ committed' \in [Roots -> Nat]
        /\ \A r \in Roots : committed'[r] >= committed[r]
        /\ acked' = acked
    BY <1>3, TransactionTypes
  <1>5. WorkerInv' /\ DeliveryInv' /\ RootOf(current)' = RootOf(current)
    <2>1. op' \notin Installing /\ op \notin Installing
      BY DEF CommitScan, CommitRescan, CommandStep, OperationAt, Installing
    <2>2. op' # "installing"
      BY <2>1 DEF Installing
    <2> QED
      BY <1>1, <1>2, <1>4, <2>1, <2>2, OperationMoves
  <1>6. TypeOK' /\ OperationInv'
    <2> USE <1>1, <1>4, <1>5 DEF IndexInv, TypeOK, OperationInv, OpStates, Installing,
                                 gates, save
    <2>0. Unread \in Copies
      BY DEF Unread, Copies
    <2>1. CASE CommitScan
      <3>1. op = "scanning" /\ op' = "watching"
        BY <2>1 DEF CommitScan, CommandStep, OperationAt
      <3>2. excused' = excused /\ opCopy' \in Copies
        BY <2>0, <2>1 DEF CommitScan
      <3> QED
        BY <3>1, <3>2
    <2>2. CASE CommitRescan
      <3>1. op = "rescanning" /\ op' = "refreshing"
        BY <2>2 DEF CommitRescan, CommandStep, OperationAt
      <3>2. excused' \in [Contexts -> SUBSET Files] /\ opCopy' \in Copies
        BY <2>0, <2>2 DEF CommitRescan
      <3> QED
        BY <3>1, <3>2
    <2> QED
      BY <2>1, <2>2
  <1> QED
    BY <1>5, <1>6, GatesFollow, PTL DEF IndexInv

\* The command takes the reservation of the context that is open.
LEMMA WaitPreviousKeepsInv ==
    ASSUME IndexInv, WaitPrevious
    PROVE  IndexInv'
  <1>1. UNCHANGED <<current, opens, database, emitted, disk, changes, save, excused,
                    survived, crashes, requests, gates, kind, target, opCopy>>
    BY DEF WaitPrevious, QuietStep, CommandStep, OperationAt, gates, IndexInv, OperationInv
  <1>2. ContextsRest /\ \A c \in Contexts \ {current} : watch'[c] = watch[c]
    <2>1. CASE current = 0
      BY <2>1, SameRests DEF WaitPrevious
    <2>2. CASE current # 0
      <3> DEFINE x == [watch[current] EXCEPT !.analysis = "command"]
      <3>1. watch' = [watch EXCEPT ![current] = x]
        BY <2>2 DEF WaitPrevious
      <3>2. watch \in [Contexts -> ContextRecords] /\ \A c \in Contexts : Bounded(watch[c])
        BY DEF IndexInv, TypeOK, Bounded
      <3>3. current \in Contexts /\ ~(current > opens)
        BY <2>2, IndexAssumption DEF IndexInv, TypeOK, Contexts
      <3>4. /\ x \in ContextRecords /\ Bounded(x) /\ x.root = watch[current].root
            /\ x.worker = watch[current].worker /\ x.drained = watch[current].drained
        BY <3>2, <3>3, Reserved
      <3> HIDE DEF x
      <3> QED
        BY <3>1, <3>2, <3>3, <3>4 DEF ContextsRest
    <2> QED
      BY <2>1, <2>2
  <1>3. op = "waiting" /\ op' = IF target = RootOf(current) THEN "rescanning" ELSE "scanning"
    BY DEF WaitPrevious, QuietStep, CommandStep, OperationAt
  <1>4. WorkerInv' /\ DeliveryInv' /\ RootOf(current)' = RootOf(current)
    <2>1. op' \notin Installing /\ op \notin Installing /\ op' # "installing"
      BY <1>3 DEF Installing
    <2>2. committed \in [Roots -> Nat] /\ \A r \in Roots : committed[r] >= committed[r]
      BY DEF IndexInv, TypeOK
    <2> QED
      BY <1>1, <1>2, <2>1, <2>2, OperationMoves DEF database
  <1>5. TypeOK'
    BY <1>1, <1>2, <1>3 DEF IndexInv, TypeOK, OpStates, ContextsRest, Bounded, database,
                            gates, save
  <1>6. OperationInv'
    <2>1. target = RootOf(current) => current # 0
      BY <1>3 DEF IndexInv, OperationInv, RootOf
    <2>2. \A c \in Contexts : watch'[c].analysis = "command" => c = current
      BY <1>2, <1>3 DEF IndexInv, OperationInv
    <2> QED
      BY <1>1, <1>3, <1>4, <2>1, <2>2 DEF IndexInv, OperationInv, Installing, gates
  <1> QED
    BY <1>4, <1>5, <1>6, GatesFollow, PTL DEF IndexInv

\* The native watcher of the context that is left is dropped.
LEMMA DropOldWatcherKeepsInv ==
    ASSUME IndexInv, DropOldWatcher
    PROVE  IndexInv'
  <1>1. UNCHANGED <<current, opens, database, emitted, disk, changes, save, excused,
                    survived, crashes, requests, gates, kind, target, opCopy>>
        /\ op = "dropping" /\ op' = "joining"
    BY DEF DropOldWatcher, QuietStep, CommandStep, OperationAt, gates
  <1>2. current \in Contexts /\ ~(current > opens)
    BY <1>1, IndexAssumption DEF IndexInv, OperationInv, TypeOK, Contexts
  <1> DEFINE x == [watch[current] EXCEPT !.on = FALSE, !.events = {}]
  <1>3. watch \in [Contexts -> ContextRecords] /\ \A c \in Contexts : Bounded(watch[c])
    BY DEF IndexInv, TypeOK, Bounded
  <1>4. /\ x \in ContextRecords /\ Bounded(x) /\ x.root = watch[current].root
        /\ x.worker = watch[current].worker /\ x.drained = watch[current].drained
        /\ x.analysis = watch[current].analysis
    BY <1>2, <1>3, SwitchedOff
  <1>5. watch' = [watch EXCEPT ![current] = x]
    BY <1>2, <1>3 DEF DropOldWatcher
  <1> HIDE DEF x
  <1>6. ContextsRest /\ \A c \in Contexts : watch'[c].analysis = watch[c].analysis
    BY <1>2, <1>3, <1>4, <1>5 DEF ContextsRest
  <1>7. WorkerInv' /\ DeliveryInv' /\ RootOf(current)' = RootOf(current)
    <2>1. /\ op' \in Installing <=> op \in Installing
          /\ op' \in Installing => target' = target
          /\ op' # "installing"
      BY <1>1 DEF Installing
    <2>2. committed \in [Roots -> Nat] /\ \A r \in Roots : committed[r] >= committed[r]
      BY DEF IndexInv, TypeOK
    <2> QED
      BY <1>1, <1>6, <2>1, <2>2, OperationMoves DEF database
  <1>8. TypeOK'
    BY <1>1, <1>6 DEF IndexInv, TypeOK, OpStates, ContextsRest, Bounded, database, gates,
                      save
  <1>9. OperationInv'
    BY <1>1, <1>2, <1>6, <1>7 DEF IndexInv, OperationInv, Installing, gates
  <1> QED
    BY <1>7, <1>8, <1>9, GatesFollow, PTL DEF IndexInv

\* The next context begins to be watched.
LEMMA StartWatcherKeepsInv ==
    ASSUME IndexInv, StartWatcher
    PROVE  IndexInv'
  <1> DEFINE d == opens + 1
             x == [FreshContext EXCEPT !.root = target, !.on = TRUE, !.worker = "idle"]
  <1>1. UNCHANGED <<current, database, emitted, disk, changes, save, survived, crashes, requests,
                    gates, kind, target, opCopy>>
        /\ op = "watching" /\ op' = "releasing" /\ opens' = d
    BY DEF StartWatcher, CommandStep, OperationAt, gates
  <1>2. /\ kind = "open" /\ opens < requests /\ target \in Roots
        /\ target # RootOf(current) /\ opens = current
    BY <1>1 DEF IndexInv, OperationInv, WorkerInv, TypeOK, Installing
  <1>3. /\ opens \in Nat /\ requests \in Nat /\ requests <= MaxRequests /\ MaxRequests \in Nat
        /\ current \in Nat
    BY IndexAssumption DEF IndexInv, TypeOK
  <1>4. d \in Contexts /\ (current # 0 => current \in Contexts) /\ current # d
    BY <1>2, <1>3 DEF Contexts
  <1>5. watch \in [Contexts -> ContextRecords] /\ \A c \in Contexts : Bounded(watch[c])
    BY DEF IndexInv, TypeOK, Bounded
  <1>6. watch' = [watch EXCEPT ![d] = x]
    <2>1. watch[d] = FreshContext
      BY <1>3, <1>4 DEF IndexInv, WorkerInv
    <2> QED
      BY <1>4, <1>5, <2>1 DEF StartWatcher
  <1>7. /\ x \in ContextRecords /\ Bounded(x) /\ x.root = target /\ x.worker = "idle"
        /\ x.analysis = "free"
    <2>1. FreshContext \in ContextRecords /\ Bounded(FreshContext)
          /\ FreshContext.analysis = "free"
      BY FreshTypes, BatchSizes, IndexAssumption DEF Bounded
    <2> QED
      BY <1>2, <2>1 DEF ContextRecords, Bounded, WorkerStates
  <1> HIDE DEF x
  <1>8. watch' \in [Contexts -> ContextRecords] /\ watch'[d] = x
        /\ (\A c \in Contexts : Bounded(watch'[c]))
        /\ (\A c \in Contexts \ {d} : watch'[c] = watch[c])
    BY <1>4, <1>5, <1>6, <1>7
  <1>9. RootOf(current)' = RootOf(current)
    BY <1>1, <1>4, <1>8 DEF RootOf
  <1>10. TypeOK'
    <2>1. opens' \in 0..MaxRequests /\ current' \in 0..opens' /\ saveCtx' \in 0..opens'
      BY <1>1, <1>2, <1>3 DEF IndexInv, TypeOK, save
    <2>2. excused' \in [Contexts -> SUBSET Files]
      BY DEF StartWatcher, IndexInv, TypeOK
    <2> QED
      BY <1>1, <1>8, <2>1, <2>2 DEF IndexInv, TypeOK, OpStates, Bounded, database, gates, save
  <1>11. OperationInv'
    <2>1. \A c \in Contexts : watch'[c].analysis = "command" => c = current
      BY <1>7, <1>8 DEF IndexInv, OperationInv
    <2> QED
      BY <1>1, <1>2, <1>3, <1>9, <2>1 DEF IndexInv, OperationInv, Installing, gates
  <1>12. WorkerInv'
    <2>1. ASSUME NEW c \in Contexts
          PROVE  /\ c > opens' => watch'[c] = FreshContext
                 /\ c <= opens' => watch'[c].root # "none"
                 /\ c < current' => watch'[c].worker = "ended"
                 /\ watch'[c].worker \in Publishing => watch'[c].root = RootOf(current)'
      <3>1. CASE c = d
        BY <1>1, <1>2, <1>3, <1>7, <1>8, <3>1, IndexAssumption DEF Publishing
      <3>2. CASE c # d
        <4>1. c \in Nat /\ watch'[c] = watch[c]
          BY <1>8, <3>2 DEF Contexts
        <4> QED
          BY <1>1, <1>3, <1>9, <3>2, <4>1 DEF IndexInv, WorkerInv
      <3> QED
        BY <3>1, <3>2
    <2>2. /\ opens' = IF op' \in Installing THEN current' + 1 ELSE current'
          /\ op' \in Installing => watch'[opens'].root = target'
          /\ op' # "installing"
      BY <1>1, <1>2, <1>7, <1>8 DEF Installing
    <2> QED
      BY <2>1, <2>2 DEF WorkerInv
  <1>13. DeliveryInv'
    <2>1. committed \in [Roots -> Nat] /\ \A r \in Roots : committed[r] >= committed[r]
      BY DEF IndexInv, TypeOK
    <2> QED
      BY <1>1, <1>7, <1>8, <2>1, DeliveryKeeps DEF database
  <1> QED
    BY <1>10, <1>11, <1>12, <1>13, GatesFollow, PTL DEF IndexInv

\* It becomes the open context once the worker of the one before has ended.
LEMMA InstallKeepsInv ==
    ASSUME IndexInv, Install
    PROVE  IndexInv'
  <1>1. UNCHANGED <<watch, opens, database, emitted, disk, changes, save, excused, survived, crashes,
                    requests, gates, kind, target, opCopy>>
        /\ op = "installing" /\ op' = "refreshing" /\ current' = opens
    BY DEF Install, QuietStep, CommandStep, OperationAt, gates
  <1>2. /\ kind = "open" /\ target # RootOf(current) /\ opens = current + 1
        /\ watch[opens].root = target /\ target # "none"
        /\ current # 0 => watch[current].worker = "ended"
    BY <1>1 DEF IndexInv, TypeOK, OperationInv, WorkerInv, Installing
  <1>3. opens \in Nat /\ current \in Nat /\ opens <= MaxRequests
    BY IndexAssumption DEF IndexInv, TypeOK
  <1>4. RootOf(current)' = target
    BY <1>1, <1>2, <1>3 DEF RootOf
  <1>5. TypeOK'
    BY <1>1, <1>3 DEF IndexInv, TypeOK, OpStates, database, gates, save
  <1>6. OperationInv'
    <2>1. \A c \in Contexts : watch[c].analysis # "command"
      BY <1>1 DEF IndexInv, OperationInv
    <2>2. runtimeSwitching' /\ terminalSwitching'
      BY <1>1, <1>2 DEF IndexInv, OperationInv, gates
    <2> QED
      BY <1>1, <1>2, <1>3, <1>4, <2>1, <2>2 DEF IndexInv, OperationInv, Installing, gates
  <1>7. WorkerInv'
    <2>1. ASSUME NEW c \in Contexts
          PROVE  /\ c > opens' => watch'[c] = FreshContext
                 /\ c <= opens' => watch'[c].root # "none"
                 /\ c < current' => watch'[c].worker = "ended"
                 /\ watch'[c].worker \in Publishing => watch'[c].root = RootOf(current)'
      <3>1. c \in Nat /\ c # 0
        BY DEF Contexts
      <3>2. c < opens => watch[c].worker = "ended"
        BY <1>2, <1>3, <3>1 DEF IndexInv, WorkerInv
      <3>3. c > opens => watch[c].worker = "none"
        BY FreshTypes DEF IndexInv, WorkerInv
      <3>4. watch[c].worker \in Publishing => c = opens
        BY <1>3, <3>1, <3>2, <3>3 DEF Publishing
      <3> QED
        BY <1>1, <1>2, <1>4, <3>2, <3>4 DEF IndexInv, WorkerInv
    <2>2. op' \notin Installing /\ op' # "installing" /\ opens' = current'
      BY <1>1 DEF Installing
    <2> QED
      BY <2>1, <2>2 DEF WorkerInv
  <1>8. DeliveryInv'
    <2>1. committed \in [Roots -> Nat] /\ \A r \in Roots : committed[r] >= committed[r]
      BY DEF IndexInv, TypeOK
    <2> QED
      BY <1>1, <2>1, DeliveryKeeps DEF database
  <1> QED
    BY <1>5, <1>6, <1>7, <1>8, GatesFollow, PTL DEF IndexInv

LEMMA CommandKeepsInv ==
    ASSUME IndexInv, CommandNext
    PROVE  IndexInv'
  BY WaitingCommandKeepsInv, ReleasingCommandKeepsInv, CommittingCommandKeepsInv,
     WaitPreviousKeepsInv, DropOldWatcherKeepsInv, StartWatcherKeepsInv, InstallKeepsInv
     DEF CommandNext

--------------------------------------------------------------------------------
(* Saves, the disk and the user.                                           *)

\* A change is put into the events of the watchers of its root.
LEMMA ReportedRests ==
    ASSUME IndexInv, NEW r \in Roots, NEW f \in Files, watch' = Reported(r, f)
    PROVE  ContextsRest /\ \A c \in Contexts : watch'[c].analysis = watch[c].analysis
  <1>1. watch \in [Contexts -> ContextRecords] /\ \A c \in Contexts : Bounded(watch[c])
    BY DEF IndexInv, TypeOK, Bounded
  <1>2. ASSUME NEW c \in Contexts
        PROVE  /\ watch'[c] \in ContextRecords /\ Bounded(watch'[c])
               /\ watch'[c].root = watch[c].root /\ watch'[c].worker = watch[c].worker
               /\ watch'[c].drained = watch[c].drained
               /\ c > opens => watch'[c] = watch[c]
               /\ watch'[c].analysis = watch[c].analysis
    <2>1. CASE watch[c].on /\ watch[c].root = r
      <3> DEFINE x == [watch[c] EXCEPT !.events = @ \cup {f}]
      <3>1. watch'[c] = x
        BY <2>1 DEF Reported
      <3>2. ~(c > opens)
        BY <2>1, FreshTypes, IndexAssumption DEF IndexInv, WorkerInv
      <3>3. /\ x \in ContextRecords /\ Bounded(x)
            /\ x.root = watch[c].root /\ x.worker = watch[c].worker
            /\ x.drained = watch[c].drained /\ x.analysis = watch[c].analysis
        BY <1>1, Heard
      <3> HIDE DEF x
      <3> QED
        BY <3>1, <3>2, <3>3
    <2>2. CASE ~(watch[c].on /\ watch[c].root = r)
      BY <1>1, <2>2 DEF Reported
    <2> QED
      BY <2>1, <2>2
  <1>3. watch' = [c \in Contexts |-> watch'[c]]
    BY DEF Reported
  <1> QED
    BY <1>2, <1>3 DEF ContextsRest

\* Steps beside the command that keep its contexts where they are.
LEMMA BesideKeepsInv ==
    ASSUME IndexInv, ContextsRest, UNCHANGED structure,
           \A c \in Contexts : watch'[c].analysis = "command" => watch[c].analysis = "command",
           disk' \in [Roots -> [Files -> Versions]], changes' \in 0..MaxChanges,
           index' \in [Roots -> Copies], committed' \in [Roots -> Nat],
           \A r \in Roots : committed'[r] >= committed[r],
           UNCHANGED <<acked, emitted, excused, opCopy, crashes>>,
           savePc' \in {"idle", "waiting", "reserved", "reading", "written"},
           saveCtx' \in 0..opens, saveFile' \in Files, saveExpected' \in Nat,
           savePc' # "idle" => saveCtx' # 0,
           survived' \in SUBSET (Roots \X Files)
    PROVE  IndexInv'
  <1>1. WorkerInv' /\ DeliveryInv' /\ RootOf(current)' = RootOf(current)
    <2>1. /\ op' \in Installing <=> op \in Installing
          /\ op' \in Installing => target' = target
          /\ op' = "installing" => op = "installing"
      BY DEF structure
    <2> QED
      BY <2>1, OperationMoves DEF structure
  <1>2. TypeOK'
    BY DEF IndexInv, TypeOK, ContextsRest, Bounded, structure, gates
  <1>3. OperationInv'
    BY <1>1 DEF IndexInv, OperationInv, structure, gates
  <1> QED
    BY <1>1, <1>2, <1>3, GatesFollow, PTL DEF IndexInv

\* A save waits for the reservation of its context and returns it.
LEMMA ReservationRests ==
    ASSUME IndexInv, saveCtx # 0, NEW who \in {"save", "free"},
           watch' = [watch EXCEPT ![saveCtx].analysis = who]
    PROVE  /\ ContextsRest
           /\ \A c \in Contexts :
                 watch'[c].analysis = "command" => watch[c].analysis = "command"
  <1> DEFINE x == [watch[saveCtx] EXCEPT !.analysis = who]
  <1>1. watch \in [Contexts -> ContextRecords] /\ \A c \in Contexts : Bounded(watch[c])
    BY DEF IndexInv, TypeOK, Bounded
  <1>2. saveCtx \in Contexts /\ ~(saveCtx > opens)
    <2>1. saveCtx \in 0..opens /\ opens \in 0..MaxRequests /\ MaxRequests \in Nat
      BY IndexAssumption DEF IndexInv, TypeOK
    <2> QED
      BY <2>1 DEF Contexts
  <1>3. /\ x \in ContextRecords /\ Bounded(x) /\ x.root = watch[saveCtx].root
        /\ x.worker = watch[saveCtx].worker /\ x.drained = watch[saveCtx].drained
        /\ x.analysis = who
    BY <1>1, <1>2, Reserved
  <1>4. watch' = [watch EXCEPT ![saveCtx] = x]
    BY <1>1, <1>2
  <1> HIDE DEF x
  <1> QED
    BY <1>1, <1>2, <1>3, <1>4 DEF ContextsRest

LEMMA SaveKeepsInv ==
    ASSUME IndexInv, SaveNext
    PROVE  IndexInv'
  <1>1. UNCHANGED structure /\ UNCHANGED <<acked, emitted, excused, opCopy, crashes, changes>>
        /\ saveFile' = saveFile /\ saveCtx # 0
    BY DEF SaveNext, SaveReserve, SaveRejected, SaveEnter, SaveWrite, SaveIndex,
           SaveIndexFails, SaveEnds, SaveStep, structure, operation, database, Transaction,
           IndexInv, TypeOK
  <1>2. /\ savePc' \in {"idle", "waiting", "reserved", "reading", "written"}
        /\ saveCtx' \in 0..opens /\ saveFile' \in Files /\ saveExpected' \in Nat
        /\ savePc' # "idle" => saveCtx' # 0
        /\ changes' \in 0..MaxChanges
    <2>1. /\ opens \in 0..MaxRequests /\ MaxRequests \in Nat
          /\ saveCtx \in 0..opens /\ saveFile \in Files /\ saveExpected \in Nat
          /\ changes \in 0..MaxChanges
      BY IndexAssumption DEF IndexInv, TypeOK
    <2>2. savePc' \in {"idle", "reserved", "reading", "written"}
      BY DEF SaveNext, SaveReserve, SaveRejected, SaveEnter, SaveWrite, SaveIndex,
             SaveIndexFails, SaveEnds, SaveStep
    <2>3. \/ saveCtx' = saveCtx /\ saveExpected' = saveExpected
          \/ saveCtx' = 0 /\ saveExpected' = 0 /\ savePc' = "idle"
      BY DEF SaveNext, SaveReserve, SaveRejected, SaveEnter, SaveWrite, SaveIndex,
             SaveIndexFails, SaveEnds, SaveStep
    <2> QED
      BY <1>1, <2>1, <2>2, <2>3
  <1>3. RootOf(saveCtx) \in Roots
    <2>1. saveCtx \in Contexts /\ saveCtx <= opens
      BY <1>1, IndexAssumption DEF IndexInv, TypeOK, Contexts
    <2> QED
      BY <1>1, <2>1 DEF IndexInv, TypeOK, WorkerInv, RootOf, ContextRecords
  <1>4. /\ ContextsRest
        /\ \A c \in Contexts : watch'[c].analysis = "command" => watch[c].analysis = "command"
    <2>1. CASE UNCHANGED watch
      BY <2>1, SameRests
    <2>2. ASSUME NEW f \in Files, watch' = Reported(RootOf(saveCtx), f)
          PROVE  /\ ContextsRest
                 /\ \A c \in Contexts :
                       watch'[c].analysis = "command" => watch[c].analysis = "command"
      BY <1>3, <2>2, ReportedRests
    <2>3. ASSUME NEW who \in {"save", "free"},
                 watch' = [watch EXCEPT ![saveCtx].analysis = who]
          PROVE  /\ ContextsRest
                 /\ \A c \in Contexts :
                       watch'[c].analysis = "command" => watch[c].analysis = "command"
      BY <1>1, <2>3, ReservationRests
    <2>4. saveFile \in Files
      BY DEF IndexInv, TypeOK
    <2> QED
      BY <2>1, <2>2, <2>3, <2>4 DEF SaveNext, SaveReserve, SaveRejected, SaveEnter, SaveWrite,
         SaveIndex, SaveIndexFails, SaveEnds
  <1>5. disk' \in [Roots -> [Files -> Versions]]
    <2>1. CASE SaveWrite
      <3> DEFINE r == RootOf(saveCtx)
      <3>1. disk \in [Roots -> [Files -> Versions]] /\ saveFile \in Files
        BY DEF IndexInv, TypeOK
      <3>2. disk[r][saveFile] + 1 \in Versions
        BY <1>3, <3>1 DEF Versions
      <3>3. disk' = [disk EXCEPT ![r][saveFile] = disk[r][saveFile] + 1]
        BY <2>1 DEF SaveWrite
      <3> HIDE DEF r
      <3> QED
        BY <1>3, <3>1, <3>2, <3>3 DEF r
    <2>2. CASE ~SaveWrite
      BY <2>2 DEF SaveNext, SaveReserve, SaveRejected, SaveEnter, SaveIndex, SaveIndexFails,
         SaveEnds, IndexInv, TypeOK
    <2> QED
      BY <2>1, <2>2
  <1>7. survived' \in SUBSET (Roots \X Files)
    <2>1. survived' = survived \/ survived' = survived \cup {<<RootOf(saveCtx), saveFile>>}
      BY DEF SaveNext, SaveReserve, SaveRejected, SaveEnter, SaveWrite, SaveIndex,
             SaveIndexFails, SaveEnds
    <2>2. survived \in SUBSET (Roots \X Files) /\ saveFile \in Files
      BY DEF IndexInv, TypeOK
    <2> QED
      BY <1>3, <2>1, <2>2
  <1>6. /\ index' \in [Roots -> Copies] /\ committed' \in [Roots -> Nat]
        /\ \A r \in Roots : committed'[r] >= committed[r]
    <2>1. CASE SaveIndex
      <3> DEFINE rows == [index[RootOf(saveCtx)] EXCEPT ![saveFile] = saveExpected + 1]
      <3>1. rows \in Copies
        BY <1>3 DEF IndexInv, TypeOK, Copies
      <3>2. Transaction(RootOf(saveCtx), rows)
        BY <2>1 DEF SaveIndex
      <3> HIDE DEF rows
      <3> QED
        BY <1>3, <3>1, <3>2, TransactionTypes
    <2>2. CASE ~SaveIndex
      BY <2>2 DEF SaveNext, SaveReserve, SaveRejected, SaveEnter, SaveWrite, SaveIndexFails,
         SaveEnds, IndexInv, TypeOK, database
    <2> QED
      BY <2>1, <2>2
  <1> QED
    BY <1>1, <1>2, <1>4, <1>5, <1>6, <1>7, BesideKeepsInv

\* The disk changes.
LEMMA ChangeKeepsInv ==
    ASSUME IndexInv, NEW r \in Roots, NEW f \in Files, Change(r, f)
    PROVE  IndexInv'
  <1>1. UNCHANGED structure
        /\ UNCHANGED <<index, committed, acked, emitted, excused, opCopy, survived, crashes, save>>
    BY DEF Change, structure, operation, database
  <1>2. ContextsRest /\ \A c \in Contexts : watch'[c].analysis = watch[c].analysis
    BY ReportedRests DEF Change
  <1>3. disk' \in [Roots -> [Files -> Versions]]
    <2>1. disk \in [Roots -> [Files -> Versions]] /\ disk[r][f] + 1 \in Versions
      <3>1. disk \in [Roots -> [Files -> Versions]]
        BY DEF IndexInv, TypeOK
      <3> QED
        BY <3>1 DEF Versions
    <2>2. disk' = [disk EXCEPT ![r][f] = disk[r][f] + 1]
      BY DEF Change
    <2> QED
      BY <2>1, <2>2
  <1>4. changes' \in 0..MaxChanges
    BY IndexAssumption DEF Change, IndexInv, TypeOK
  <1>5. /\ index \in [Roots -> Copies] /\ committed \in [Roots -> Nat]
        /\ \A s \in Roots : committed[s] >= committed[s]
        /\ savePc \in {"idle", "waiting", "reserved", "reading", "written"}
        /\ saveCtx \in 0..opens /\ saveFile \in Files /\ saveExpected \in Nat
        /\ savePc # "idle" => saveCtx # 0
        /\ survived \in SUBSET (Roots \X Files)
    BY DEF IndexInv, TypeOK
  <1> QED
    BY <1>1, <1>2, <1>3, <1>4, <1>5, BesideKeepsInv DEF save

\* A save is asked for in the open context.
LEMMA StartSaveKeepsInv ==
    ASSUME IndexInv, NEW f \in Files, StartSave(f)
    PROVE  IndexInv'
  <1>1. UNCHANGED structure
        /\ UNCHANGED <<watch, disk, index, committed, acked, emitted, excused, opCopy, survived, crashes>>
    BY DEF StartSave, SaveStep, structure, operation, database
  <1>2. ContextsRest
    BY <1>1, SameRests
  <1>3. /\ disk \in [Roots -> [Files -> Versions]] /\ index \in [Roots -> Copies]
        /\ committed \in [Roots -> Nat] /\ \A s \in Roots : committed[s] >= committed[s]
        /\ current \in 0..opens /\ opens \in 0..MaxRequests /\ MaxRequests \in Nat
        /\ watch \in [Contexts -> ContextRecords]
        /\ survived \in SUBSET (Roots \X Files)
    BY IndexAssumption DEF IndexInv, TypeOK
  <1>4. current \in Contexts /\ current <= opens
    BY <1>3 DEF StartSave, Contexts
  <1>5. RootOf(current) \in Roots
    BY <1>3, <1>4 DEF RootOf, StartSave, IndexInv, WorkerInv, ContextRecords
  <1>6. disk[RootOf(current)][f] \in Nat
    BY <1>3, <1>5 DEF Versions
  <1>7. /\ changes' \in 0..MaxChanges
        /\ savePc' = "waiting" /\ saveCtx' = current /\ saveFile' = f
        /\ saveExpected' = disk[RootOf(current)][f] /\ current # 0
    BY IndexAssumption DEF StartSave, SaveStep, IndexInv, TypeOK
  <1> QED
    BY <1>1, <1>2, <1>3, <1>6, <1>7, BesideKeepsInv

\* After a crash nothing is open, and the files and the databases are what they were.
LEMMA CrashKeepsInv ==
    ASSUME IndexInv, Crash
    PROVE  IndexInv'
  <1>1. watch' \in [Contexts -> ContextRecords]
        /\ \A c \in Contexts : watch'[c] = FreshContext /\ Bounded(watch'[c])
    BY FreshTypes, BatchSizes, IndexAssumption DEF Crash, Bounded
  <1>2. RootOf(current)' = "none"
    BY DEF Crash, RootOf
  <1>3. TypeOK'
    <2>1. Unread \in Copies
      BY DEF Unread, Copies
    <2>2. excused' \in [Contexts -> SUBSET Files] /\ crashes' \in 0..MaxCrashes
      BY IndexAssumption DEF Crash, IndexInv, TypeOK
    <2>3. /\ UNCHANGED <<disk, changes, index, committed, acked, emitted, saveFile, requests,
                       survived>>
          /\ current' = 0 /\ opens' = 0 /\ op' = "idle" /\ kind' = "open"
          /\ target' = "none" /\ opCopy' = Unread /\ runtimeRoot' = "none"
          /\ runtimeSwitching' = FALSE /\ terminalSwitching' = FALSE
          /\ savePc' = "idle" /\ saveCtx' = 0 /\ saveExpected' = 0
      BY DEF Crash, database
    <2>4. 0 \in 0..0 /\ 0 \in 0..MaxRequests
      BY IndexAssumption
    <2> QED
      BY <1>1, <2>1, <2>2, <2>3, <2>4 DEF IndexInv, TypeOK, Bounded, OpStates
  <1>4. OperationInv'
    <2>1. \A c \in Contexts : watch'[c].analysis # "command"
      BY <1>1, FreshTypes
    <2>2. opens' <= requests'
      BY DEF Crash, IndexInv, TypeOK
    <2>3. /\ op' = "idle" /\ target' = "none" /\ kind' = "open" /\ runtimeRoot' = "none"
          /\ ~runtimeSwitching' /\ ~terminalSwitching'
      BY DEF Crash
    <2> QED
      BY <1>2, <2>1, <2>2, <2>3 DEF OperationInv, Installing
  <1>5. WorkerInv'
    <2>1. \A c \in Contexts :
            /\ watch'[c] = FreshContext /\ watch'[c].worker \notin Publishing
            /\ c > 0 /\ ~(c <= 0) /\ ~(c < 0)
      BY <1>1, FreshTypes DEF Contexts, Publishing
    <2>2. op' = "idle" /\ opens' = 0 /\ current' = 0
      BY DEF Crash
    <2> QED
      BY <2>1, <2>2 DEF WorkerInv, Installing
  <1>6. DeliveryInv'
    <2>1. UNCHANGED <<committed, acked, emitted>>
      BY DEF Crash, database
    <2>2. committed \in [Roots -> Nat] /\ \A r \in Roots : committed[r] >= committed[r]
      BY DEF IndexInv, TypeOK
    <2>3. \A c \in Contexts : watch'[c].worker \notin {"emit", "ack"}
      BY <1>1, FreshTypes
    <2> QED
      BY <2>1, <2>2, <2>3, DeliveryKeeps
  <1> QED
    BY <1>3, <1>4, <1>5, <1>6, GatesFollow, PTL DEF IndexInv

--------------------------------------------------------------------------------
(* The theorems.                                                           *)

LEMMA InitHasInv == Init => IndexInv
  <1> SUFFICES ASSUME Init PROVE IndexInv
    OBVIOUS
  <1>1. watch \in [Contexts -> ContextRecords]
        /\ \A c \in Contexts : watch[c] = FreshContext /\ Bounded(watch[c])
    BY FreshTypes, BatchSizes, IndexAssumption DEF Init, Bounded
  <1>2. RootOf(current) = "none"
    BY DEF Init, RootOf
  <1>3. TypeOK
    <2>1. Unread \in Copies
      BY DEF Unread, Copies
    <2>2. (CHOOSE f \in Files : TRUE) \in Files
      BY IndexAssumption
    <2>3. /\ disk \in [Roots -> [Files -> Versions]] /\ index \in [Roots -> Copies]
          /\ committed \in [Roots -> Nat] /\ acked \in [Roots -> Nat]
          /\ emitted \in [Roots -> Nat] /\ excused \in [Contexts -> SUBSET Files]
      BY <2>1 DEF Init, Versions
    <2>4. /\ 0 \in 0..MaxRequests /\ 0 \in 0..MaxChanges /\ 0 \in 0..MaxCrashes /\ 0 \in 0..0
      BY IndexAssumption
    <2> HIDE DEF Init
    <2>5. /\ changes = 0 /\ current = 0 /\ opens = 0 /\ requests = 0 /\ crashes = 0
          /\ op = "idle" /\ kind = "open" /\ target = "none" /\ opCopy = Unread
          /\ survived = {}
          /\ savePc = "idle" /\ saveCtx = 0 /\ saveExpected = 0
          /\ saveFile = (CHOOSE f \in Files : TRUE)
          /\ runtimeRoot = "none" /\ runtimeSwitching = FALSE /\ terminalSwitching = FALSE
      BY DEF Init
    <2> QED
      BY <1>1, <2>1, <2>2, <2>3, <2>4, <2>5 DEF TypeOK, Bounded, OpStates
  <1>4. OperationInv
    <2>1. \A c \in Contexts : watch[c].analysis # "command"
      BY <1>1, FreshTypes
    <2> QED
      BY <1>2, <2>1 DEF Init, OperationInv, Installing
  <1>5. WorkerInv
    <2>1. \A c \in Contexts :
            /\ watch[c] = FreshContext /\ watch[c].worker \notin Publishing
            /\ c > 0 /\ ~(c <= 0) /\ ~(c < 0)
      BY <1>1, FreshTypes DEF Contexts, Publishing
    <2>2. op = "idle" /\ opens = 0 /\ current = 0
      BY DEF Init
    <2> QED
      BY <2>1, <2>2 DEF WorkerInv, Installing
  <1>6. DeliveryInv
    <2>1. \A c \in Contexts : watch[c].worker \notin {"emit", "ack"}
      BY <1>1, FreshTypes
    <2> QED
      BY <2>1 DEF Init, DeliveryInv, DeliveryInOrder
  <1> QED
    BY <1>3, <1>4, <1>5, <1>6, GatesFollow DEF IndexInv

LEMMA NextKeepsInv == IndexInv /\ [Next]_vars => IndexInv'
  <1> SUFFICES ASSUME IndexInv, [Next]_vars PROVE IndexInv'
    OBVIOUS
  <1>1. CASE CommandNext
    BY <1>1, CommandKeepsInv
  <1>2. CASE SaveNext
    BY <1>2, SaveKeepsInv
  <1>3. ASSUME NEW c \in Contexts, CallbackNext(c) \/ WorkerNext(c) PROVE IndexInv'
    BY <1>3, CallbackKeepsInv, WorkerKeepsInv
  <1>4. CASE UserNext
    BY <1>4, WaitingCommandKeepsInv, ChangeKeepsInv, StartSaveKeepsInv, CrashKeepsInv
       DEF UserNext
  <1>5. CASE UNCHANGED vars
    <2>1. ContextsRest /\ UNCHANGED structure
      BY <1>5, SameRests DEF vars, structure, operation
    <2>2. /\ disk \in [Roots -> [Files -> Versions]] /\ changes \in 0..MaxChanges
          /\ index \in [Roots -> Copies] /\ committed \in [Roots -> Nat]
          /\ \A r \in Roots : committed[r] >= committed[r]
          /\ savePc \in {"idle", "waiting", "reserved", "reading", "written"}
          /\ saveCtx \in 0..opens /\ saveFile \in Files /\ saveExpected \in Nat
          /\ savePc # "idle" => saveCtx # 0
          /\ survived \in SUBSET (Roots \X Files)
      BY DEF IndexInv, TypeOK
    <2> QED
      BY <1>5, <2>1, <2>2, BesideKeepsInv DEF vars, database, save, operation
  <1> QED
    BY <1>1, <1>2, <1>3, <1>4, <1>5 DEF Next

\* commands/workspace.rs, state/context.rs, watcher/worker.rs: types, gates,
\* reservations, the join of the old worker and the outbox hold together for any
\* folders, files, limits, requests, changes and crashes.
THEOREM IndexHolds == Spec => []IndexInv
  BY InitHasInv, NextKeepsInv, PTL DEF Spec

\* The outbox delivers in order, over crashes and failed emits (store/outbox.rs).
THEOREM DeliveryIsOrdered == Spec => []DeliveryInOrder
  <1>1. IndexInv => DeliveryInOrder
    BY DEF IndexInv, DeliveryInv
  <1> QED
    BY <1>1, IndexHolds, PTL

\* Only the open workspace publishes its durable events, for any number of switches
\* (worker.rs:85-110, and the join in install_workspace).
THEOREM OnlyTheOpenPublishes == Spec => OnlyCurrentPublishes
  <1>1. IndexInv /\ [Next]_vars
          => [\A r \in Roots : emitted'[r] # emitted[r] => RootOf(current) = r]_vars
    <2> SUFFICES ASSUME IndexInv, Next, NEW r \in Roots, emitted'[r] # emitted[r]
                 PROVE  RootOf(current) = r
      OBVIOUS
    <2>1. emitted' # emitted
      OBVIOUS
    <2>2. ~UserNext /\ ~SaveNext
      BY <2>1 DEF UserNext, RequestOpen, RequestRescan, Change, StartSave, Crash,
           CommandStep, GateStep, QuietStep, SaveNext, SaveReserve, SaveRejected,
           SaveEnter, SaveWrite, SaveIndex, SaveIndexFails, SaveStep, SaveEnds,
           Transaction
    <2>3. ~CommandNext
      BY <2>1 DEF CommandNext, OperationAt, CommandStep, QuietStep, GateStep,
           BeginRuntime, RuntimeRefuses, WaitPrevious, ScanFile, CommitScan,
           CommitRescan, ScanFails, WatcherFails, StartWatcher, ReleasePrevious,
           DropOldWatcher, JoinOldWorker, Install, Refresh, CompleteRuntime,
           CompleteTerminal, CancelRuntime, CancelTerminal, Transaction
    <2>4. PICK c \in Contexts : Emit(c)
      <3>1. PICK c \in Contexts : CallbackNext(c) \/ WorkerNext(c)
        BY <2>2, <2>3 DEF Next
      <3>2. ~CallbackNext(c)
        BY <2>1 DEF CallbackNext, Notify, FlagOverflow, NotifyMany, SendEmpty,
             CallbackStep
      <3>3. Emit(c)
        BY <2>1, <3>1, <3>2 DEF WorkerNext, Receive, Collect, CollectEnds, WorkerEnds,
             Reserve, DeltaRead, DeltaCommit, DeltaFails, WorkerScan, WorkerReplaceAll,
             WorkerScanFails, CheckCurrent, QuerySnapshot, ProjectSnapshot, ReadPending,
             DrainFails, Acknowledge, CallbackStep, WatchStep, Transaction
      <3> QED
        BY <3>3
    <2>5. watch[c].worker = "emit"
          /\ emitted' = [emitted EXCEPT ![watch[c].root] =
                            IF @ < watch[c].drained THEN watch[c].drained ELSE @]
      BY <2>4 DEF Emit
    <2>6. emitted \in [Roots -> Nat]
      BY DEF IndexInv, TypeOK
    <2>7. watch[c].root = r
      BY <2>5, <2>6
    <2> QED
      BY <2>5, <2>7 DEF IndexInv, WorkerInv, Publishing
  <1> QED
    BY <1>1, IndexHolds, PTL DEF Spec, OnlyCurrentPublishes

--------------------------------------------------------------------------------
(* No change is forgotten, and no row goes back.                           *)

\* What a context was told of f and has not received; what its worker will index.
Told(w, f) ==
    \/ f \in w.events \/ w.overflowed \/ w.callback = "full"
    \/ \E i \in DOMAIN w.queue : f \in w.queue[i]
WillIndex(w, f, v) ==
    \/ Told(w, f)
    \/ (f \in w.batch \/ w.rescan) /\ w.copy[f] \in {0, v}

Analysing == {"delta", "scanning"}

\* A watched context has a worker, and one that has read files holds the reservation.
InTurn(w) ==
    /\ w.on => w.worker \notin {"none", "ended"}
    /\ w.worker \in Analysing => w.analysis = "worker"
    /\ w.worker \notin Analysing => w.copy = Unread

\* So do the rescan and the save; the save is of the open root, and of the open
\* context unless that is remembered.
TurnsInv ==
    /\ \A c \in Contexts : InTurn(watch[c])
    /\ op = "rescanning" => watch[current].analysis = "command"
    /\ op \notin {"scanning", "rescanning"} => opCopy = Unread
    /\ savePc \in {"reserved", "reading", "written"} => watch[saveCtx].analysis = "save"
    /\ savePc \in {"reading", "written"} => RootOf(current) = RootOf(saveCtx)
    /\ savePc = "written" => saveCtx = current \/ <<RootOf(current), saveFile>> \in survived

\* A file that changed after it was read for a commit that is still to come was told
\* of again, so that the commit does not make it stale for good.
SeenInv ==
    /\ StaleIsOwed
    /\ \A c \in Contexts, f \in Files :
          watch[c].on => \/ watch[c].copy[f] \in {0, disk[watch[c].root][f]}
                         \/ Told(watch[c], f)
    /\ op = "rescanning" /\ watch[current].on =>
          \A f \in Files : \/ opCopy[f] \in {0, disk[target][f]}
                           \/ WillIndex(watch[current], f, disk[target][f])
    /\ savePc = "written" /\ watch[current].on =>
          \/ disk[RootOf(current)][saveFile] = saveExpected + 1
          \/ WillIndex(watch[current], saveFile, disk[RootOf(current)][saveFile])
          \/ <<RootOf(current), saveFile>> \in survived

\* A row is not ahead of the disk, and what is to be committed is not behind the row.
MayReplace(r, f, v) == v <= disk[r][f] /\ (<<r, f>> \in survived \/ index[r][f] <= v)
GrowthInv ==
    /\ \A r \in Roots, f \in Files : index[r][f] <= disk[r][f]
    /\ \A c \in Contexts, f \in Files :
          watch[c].copy[f] # 0 => MayReplace(watch[c].root, f, watch[c].copy[f])
    /\ op \in {"scanning", "rescanning"} =>
          \A f \in Files : opCopy[f] # 0 => MayReplace(target, f, opCopy[f])
    /\ savePc = "written" => MayReplace(RootOf(current), saveFile, saveExpected + 1)

ObservationInv == IndexInv /\ TurnsInv /\ SeenInv /\ GrowthInv

\* A context that is watched or has read something is the open one, or the one that
\* is being installed, which has another root.
LEMMA WhoIsAlive ==
    ASSUME IndexInv, TurnsInv, NEW c \in Contexts,
           watch[c].on \/ watch[c].worker \notin {"none", "ended"}
    PROVE  /\ watch[c].root \in Roots
           /\ \/ c = current
              \/ /\ c # current /\ watch[c].root # RootOf(current)
                 /\ op \in Installing /\ watch[c].root = target
  <1>1. watch[c].worker \notin {"none", "ended"}
    BY DEF TurnsInv, InTurn
  <1>2. c <= opens /\ watch[c].root \in Roots
    BY <1>1, BusyIsOpened
  <1>3. c \in Nat /\ current \in Nat /\ opens \in Nat /\ current <= opens
    BY IndexAssumption DEF Contexts, IndexInv, TypeOK
  <1>4. ~(c < current)
    BY <1>1 DEF IndexInv, WorkerInv
  <1>5. CASE c = current
    BY <1>2, <1>5
  <1>6. CASE c # current
    <2>1. op \in Installing /\ opens = current + 1
      BY <1>2, <1>3, <1>4, <1>6 DEF IndexInv, WorkerInv
    <2>2. c = opens
      BY <1>2, <1>3, <1>4, <1>6, <2>1
    <2> QED
      BY <1>2, <1>6, <2>1, <2>2 DEF IndexInv, WorkerInv, OperationInv
  <1> QED
    BY <1>5, <1>6

\* The open context has a root of its own.
LEMMA OpenHasRoot ==
    ASSUME IndexInv, current # 0
    PROVE  current \in Contexts /\ RootOf(current) = watch[current].root /\ RootOf(current) \in Roots
  <1>1. current \in 0..opens /\ opens \in 0..MaxRequests /\ MaxRequests \in Nat
    BY IndexAssumption DEF IndexInv, TypeOK
  <1>2. current \in Contexts /\ current <= opens
    BY <1>1 DEF Contexts
  <1>3. watch[current] \in ContextRecords
    BY <1>2 DEF IndexInv, TypeOK
  <1> QED
    BY <1>2, <1>3 DEF RootOf, IndexInv, WorkerInv, ContextRecords

\* What was read was read of a file, by a context with a root.
ReadersHaveRoots ==
    \A c \in Contexts, f \in Files : watch[c].copy[f] # 0 =>
       watch[c].worker \in Analysing /\ watch[c].root \in Roots

LEMMA ReaderHasRoot == IndexInv /\ TurnsInv => ReadersHaveRoots
  <1> SUFFICES ASSUME IndexInv, TurnsInv, NEW c \in Contexts, NEW f \in Files, watch[c].copy[f] # 0
               PROVE  watch[c].worker \in Analysing /\ watch[c].root \in Roots
    BY DEF ReadersHaveRoots
  <1>1. watch[c].copy # Unread
    BY DEF Unread
  <1>2. watch[c].worker \in Analysing
    BY <1>1 DEF TurnsInv, InTurn
  <1> QED
    BY <1>2, BusyIsOpened DEF Analysing

\* Rescans and saves are of the open context.
UsesAreOpen ==
    /\ op = "rescanning" => current # 0 /\ target = RootOf(current)
    /\ savePc # "idle" => saveCtx \in Contexts /\ RootOf(saveCtx) \in Roots
    /\ savePc \in {"reading", "written"} => current # 0 /\ RootOf(current) \in Roots
    /\ op \in {"scanning", "rescanning"} => target \in Roots

LEMMA OpenWhenUsed == IndexInv /\ TurnsInv => UsesAreOpen
  <1> SUFFICES ASSUME IndexInv, TurnsInv PROVE UsesAreOpen
    OBVIOUS
  <1>1. /\ saveCtx \in 0..opens /\ opens \in 0..MaxRequests /\ MaxRequests \in Nat
        /\ savePc # "idle" => saveCtx # 0
    BY IndexAssumption DEF IndexInv, TypeOK
  <1>2. savePc # "idle" => saveCtx \in Contexts /\ saveCtx <= opens
    BY <1>1 DEF Contexts
  <1>3. savePc # "idle" => RootOf(saveCtx) \in Roots
    BY <1>1, <1>2 DEF RootOf, IndexInv, TypeOK, WorkerInv, ContextRecords
  <1>4. op = "rescanning" => current # 0 /\ target = RootOf(current)
    BY DEF IndexInv, OperationInv
  <1>5. savePc \in {"reading", "written"} => current # 0 /\ RootOf(current) \in Roots
    BY <1>3, IndexAssumption DEF TurnsInv, RootOf
  <1>6. op \in {"scanning", "rescanning"} => target \in Roots
    BY DEF IndexInv, TypeOK, OperationInv
  <1> QED
    BY <1>2, <1>3, <1>4, <1>5, <1>6 DEF UsesAreOpen

\* Owed, as a fact about the context.
LEMMA OwedIsIndexed ==
    ASSUME NEW c \in Contexts, NEW f \in Files
    PROVE  Owed(c, f) <=> WillIndex(watch[c], f, disk[watch[c].root][f])
  BY DEF Owed, WillIndex, Told, WillCover

--------------------------------------------------------------------------------
(* Steps that leave the rows alone.                                        *)

\* A context goes on: it forgets nothing, reads what is there, and is told of what
\* changes.
Follows(c) ==
    LET w == watch[c]  x == watch'[c] IN
    /\ x.root = w.root /\ (x.on => w.on)
    /\ \A f \in Files :
          /\ x.copy[f] \in {0, w.copy[f], disk'[w.root][f]}
          /\ x.on =>
                /\ WillIndex(w, f, disk[w.root][f]) => WillIndex(x, f, disk'[w.root][f])
                /\ x.copy[f] \in {0, disk'[w.root][f]} \/ Told(x, f)
                /\ disk'[w.root][f] # disk[w.root][f] => Told(x, f)

\* Or it begins, or gives up with an excuse.
Begins(c) ==
    LET x == watch'[c] IN
    /\ x.copy = Unread
    /\ x.on => \A f \in Files : \/ index'[x.root][f] = disk'[x.root][f]
                               \/ f \in excused'[c]
    /\ c = current' => op' # "rescanning"
    /\ c = current' /\ savePc' = "written" => <<RootOf(current), saveFile>>' \in survived'

RowsRest ==
    /\ index' = index /\ survived \subseteq survived'
    /\ \A r \in Roots, f \in Files : disk[r][f] <= disk'[r][f]
    /\ \A c \in Contexts : \/ Follows(c) /\ excused[c] \subseteq excused'[c]
                           \/ Begins(c)

\* The command and the save read what is there, or go on with what they have.
PlansRest ==
    /\ op' \in {"scanning", "rescanning"} =>
          \A f \in Files : opCopy'[f] # 0 =>
             \/ opCopy'[f] = disk'[target'][f]
             \/ opCopy'[f] = opCopy[f] /\ op = op' /\ target' = target
    /\ op' = "rescanning" => current' = current
    /\ savePc' = "written" =>
          /\ current' = current /\ RootOf(current)' = RootOf(current)
          /\ saveFile' = saveFile /\ saveExpected' = saveExpected
          /\ \/ savePc = "written"
             \/ disk'[RootOf(current)'][saveFile] = saveExpected + 1

LEMMA SeenKeeps ==
    ASSUME ObservationInv, IndexInv', TurnsInv', RowsRest, PlansRest
    PROVE  SeenInv'
  <1> USE DEF ObservationInv
  <1>0. UsesAreOpen /\ UsesAreOpen'
    BY OpenWhenUsed, PTL
  <1>1. StaleIsOwed'
    <2> SUFFICES ASSUME NEW c \in Contexts, NEW f \in Files, Stale(c, f)'
                 PROVE  \/ Owed(c, f)' \/ f \in excused'[c]
                        \/ <<watch'[c].root, f>> \in survived'
      BY DEF StaleIsOwed
    <2>1. watch'[c].on /\ index'[watch'[c].root][f] # disk'[watch'[c].root][f]
      BY DEF Stale
    <2>2. Owed(c, f)' <=> WillIndex(watch'[c], f, disk'[watch'[c].root][f])
      BY DEF Owed, WillIndex, Told, WillCover
    <2>3. CASE Begins(c)
      BY <2>1, <2>3 DEF Begins
    <2>4. CASE Follows(c) /\ excused[c] \subseteq excused'[c]
      <3>1. watch[c].on /\ watch'[c].root = watch[c].root
        BY <2>1, <2>4 DEF Follows
      <3>2. CASE Told(watch'[c], f)
        BY <2>2, <3>2 DEF WillIndex
      <3>3. CASE disk'[watch[c].root][f] = disk[watch[c].root][f]
        <4>1. Stale(c, f)
          BY <2>1, <3>1, <3>3 DEF Stale, RowsRest
        <4>2. Owed(c, f) \/ f \in excused[c] \/ <<watch[c].root, f>> \in survived
          BY <4>1 DEF SeenInv, StaleIsOwed
        <4>3. Owed(c, f) => WillIndex(watch[c], f, disk[watch[c].root][f])
          BY OwedIsIndexed
        <4>4. Owed(c, f) => Owed(c, f)'
          BY <2>1, <2>2, <2>4, <3>1, <4>3 DEF Follows
        <4> QED
          BY <2>4, <3>1, <4>2, <4>4 DEF RowsRest
      <3> QED
        BY <2>1, <2>4, <3>2, <3>3 DEF Follows
    <2> QED
      BY <2>3, <2>4 DEF RowsRest
  <1>2. ASSUME NEW c \in Contexts, NEW f \in Files, watch'[c].on
        PROVE  watch'[c].copy[f] \in {0, disk'[watch'[c].root][f]} \/ Told(watch'[c], f)
    <2>1. CASE Begins(c)
      BY <2>1 DEF Begins, Unread
    <2>2. CASE Follows(c)
      BY <1>2, <2>2 DEF Follows
    <2> QED
      BY <2>1, <2>2 DEF RowsRest
  <1>3. ASSUME op' = "rescanning", watch'[current'].on, NEW f \in Files
        PROVE  \/ opCopy'[f] \in {0, disk'[target'][f]}
               \/ WillIndex(watch'[current'], f, disk'[target'][f])
    <2>1. current' = current /\ current' # 0 /\ target' = RootOf(current)'
      BY <1>3, <1>0 DEF PlansRest, UsesAreOpen
    <2>2. current \in Contexts /\ RootOf(current) = watch[current].root
      BY <2>1, OpenHasRoot
    <2>3. Follows(current)
      BY <1>3, <2>1, <2>2 DEF RowsRest, Begins
    <2>4. RootOf(current)' = watch[current].root /\ watch[current].on
      BY <1>3, <2>1, <2>3 DEF RootOf, Follows
    <2>5. CASE opCopy'[f] = opCopy[f] /\ op = "rescanning" /\ target' = target
      <3>1. \/ opCopy[f] \in {0, disk[target][f]}
            \/ WillIndex(watch[current], f, disk[target][f])
        BY <2>4, <2>5 DEF SeenInv
      <3>2. target = watch[current].root
        BY <2>1, <2>4, <2>5
      <3>3. Told(watch'[current], f) => WillIndex(watch'[current], f, disk'[target'][f])
        BY DEF WillIndex
      <3> QED
        BY <1>3, <2>1, <2>3, <2>5, <3>1, <3>2, <3>3 DEF Follows
    <2> QED
      BY <1>3, <2>5 DEF PlansRest
  <1>4. ASSUME savePc' = "written", watch'[current'].on
        PROVE  \/ disk'[RootOf(current)'][saveFile'] = saveExpected' + 1
               \/ WillIndex(watch'[current'], saveFile', disk'[RootOf(current)'][saveFile'])
               \/ <<RootOf(current), saveFile>>' \in survived'
    <2>1. /\ current' = current /\ RootOf(current)' = RootOf(current)
          /\ saveFile' = saveFile /\ saveExpected' = saveExpected
          /\ savePc = "written" \/ disk'[RootOf(current)'][saveFile] = saveExpected + 1
      BY <1>4 DEF PlansRest
    <2>2. current' # 0
      BY <1>4, <1>0 DEF UsesAreOpen
    <2>3. current \in Contexts /\ RootOf(current) = watch[current].root /\ saveFile \in Files
      BY <2>1, <2>2, OpenHasRoot DEF IndexInv, TypeOK
    <2>4. CASE Begins(current)
      BY <1>4, <2>1, <2>4 DEF Begins
    <2>5. CASE Follows(current) /\ savePc = "written"
      <3>1. watch[current].on
        BY <1>4, <2>1, <2>5 DEF Follows
      <3>2. \/ disk[RootOf(current)][saveFile] = saveExpected + 1
            \/ WillIndex(watch[current], saveFile, disk[RootOf(current)][saveFile])
            \/ <<RootOf(current), saveFile>> \in survived
        BY <2>5, <3>1 DEF SeenInv
      <3>3. Told(watch'[current], saveFile)
               => WillIndex(watch'[current], saveFile, disk'[RootOf(current)][saveFile])
        BY DEF WillIndex
      <3> QED
        BY <1>4, <2>1, <2>3, <2>5, <3>2, <3>3 DEF Follows, RowsRest
    <2> QED
      BY <2>1, <2>3, <2>4, <2>5 DEF RowsRest
  <1> QED
    BY <1>1, <1>2, <1>3, <1>4 DEF SeenInv

LEMMA GrowthKeeps ==
    ASSUME ObservationInv, IndexInv', TurnsInv', RowsRest, PlansRest
    PROVE  GrowthInv'
  <1> USE DEF ObservationInv
  <1>0. /\ disk \in [Roots -> [Files -> Versions]] /\ disk' \in [Roots -> [Files -> Versions]]
        /\ index \in [Roots -> Copies]
    BY DEF IndexInv, TypeOK
  <1>7. UsesAreOpen' /\ ReadersHaveRoots'
    BY OpenWhenUsed, ReaderHasRoot, PTL
  <1>1. \A r \in Roots, f \in Files : disk[r][f] \in Nat /\ disk'[r][f] \in Nat /\ index[r][f] \in Nat
    BY <1>0 DEF Versions, Copies
  <1>2. \A r \in Roots, f \in Files : index'[r][f] <= disk'[r][f]
    BY <1>1 DEF RowsRest, GrowthInv
  <1>3. ASSUME NEW r \in Roots, NEW f \in Files, NEW v \in Nat,
               v = disk'[r][f] \/ MayReplace(r, f, v)
        PROVE  v <= disk'[r][f] /\ (<<r, f>> \in survived' \/ index'[r][f] <= v)
    BY <1>1, <1>2, <1>3 DEF MayReplace, RowsRest
  <1>4. ASSUME NEW c \in Contexts, NEW f \in Files, watch'[c].copy[f] # 0
        PROVE  MayReplace(watch[c].root, f, watch[c].copy[f])'
    <2>0. watch'[c] \in ContextRecords
      BY DEF IndexInv, TypeOK
    <2>1. watch'[c].copy[f] \in Nat
      BY <2>0 DEF ContextRecords, Copies
    <2>2. watch'[c].root \in Roots
      BY <1>4, <1>7 DEF ReadersHaveRoots
    <2>3. Follows(c)
      BY <1>4 DEF RowsRest, Begins, Unread
    <2>4. watch'[c].root = watch[c].root
          /\ (watch'[c].copy[f] = watch[c].copy[f] \/ watch'[c].copy[f] = disk'[watch[c].root][f])
      BY <1>4, <2>3 DEF Follows
    <2>5. watch'[c].copy[f] = watch[c].copy[f] =>
             MayReplace(watch[c].root, f, watch[c].copy[f])
      BY <1>4 DEF GrowthInv
    <2> QED
      BY <1>3, <2>1, <2>2, <2>4, <2>5 DEF MayReplace
  <1>5. ASSUME op' \in {"scanning", "rescanning"}, NEW f \in Files, opCopy'[f] # 0
        PROVE  MayReplace(target, f, opCopy[f])'
    <2>1. target' \in Roots /\ opCopy'[f] \in Nat
      BY <1>5, <1>7 DEF IndexInv, TypeOK, Copies, UsesAreOpen
    <2>2. \/ opCopy'[f] = disk'[target'][f]
          \/ opCopy'[f] = opCopy[f] /\ op = op' /\ target' = target
      BY <1>5 DEF PlansRest
    <2> QED
      BY <1>3, <1>5, <2>1, <2>2 DEF GrowthInv, MayReplace
  <1>6. ASSUME savePc' = "written"
        PROVE  MayReplace(RootOf(current), saveFile, saveExpected + 1)'
    <2>1. current' # 0 /\ RootOf(current)' \in Roots /\ saveFile' \in Files /\ saveExpected' \in Nat
      BY <1>6, <1>7 DEF IndexInv, TypeOK, UsesAreOpen
    <2>2. /\ RootOf(current)' = RootOf(current)
          /\ saveFile' = saveFile /\ saveExpected' = saveExpected
          /\ savePc = "written" \/ disk'[RootOf(current)'][saveFile] = saveExpected + 1
      BY <1>6 DEF PlansRest
    <2>3. savePc = "written" => MayReplace(RootOf(current), saveFile, saveExpected + 1)
      BY DEF GrowthInv
    <2>4. saveExpected + 1 \in Nat
      BY <2>1, <2>2
    <2> QED
      BY <1>3, <2>1, <2>2, <2>3, <2>4 DEF MayReplace
  <1> QED
    BY <1>2, <1>4, <1>5, <1>6 DEF GrowthInv

--------------------------------------------------------------------------------
(* Steps that replace rows.                                                *)

\* Rows of r are replaced.  The contexts of that root owe what is stale after it, and
\* nobody else is about to replace the same rows.
Commits(r, rows) ==
    /\ index' = [index EXCEPT ![r] = rows]
    /\ disk' = disk /\ survived' = survived /\ current' = current
    /\ RootOf(current)' = RootOf(current)
    /\ \A f \in Files : rows[f] = index[r][f] \/ MayReplace(r, f, rows[f])
    /\ \A c \in Contexts :
          /\ watch'[c].root = watch[c].root /\ watch'[c].on = watch[c].on
          /\ \A f \in Files :
                /\ watch'[c].copy[f] \in {0, watch[c].copy[f]}
                /\ Told(watch[c], f) => Told(watch'[c], f)
          /\ watch[c].root # r =>
                /\ excused'[c] = excused[c]
                /\ \A f \in Files : WillIndex(watch[c], f, disk[watch[c].root][f])
                                       => WillIndex(watch'[c], f, disk[watch[c].root][f])
          /\ watch[c].root = r /\ watch[c].on => \A f \in Files :
                \/ rows[f] = disk[r][f] \/ WillIndex(watch'[c], f, disk[r][f])
                \/ f \in excused'[c] \/ <<r, f>> \in survived

Alone(r, rows) ==
    \A f \in Files : rows[f] # index[r][f] /\ <<r, f>> \notin survived =>
       /\ \A c \in Contexts : watch'[c].root = r => watch'[c].copy[f] = 0
       /\ op' \in {"scanning", "rescanning"} => target' # r
       /\ savePc' = "written" => RootOf(current) # r \/ saveFile' # f

OthersGoOn ==
    /\ op' \in {"scanning", "rescanning"} => op' = op /\ opCopy' = opCopy /\ target' = target
    /\ savePc' = "written" =>
          savePc = "written" /\ saveFile' = saveFile /\ saveExpected' = saveExpected
    /\ \A f \in Files :
          \/ WillIndex(watch[current], f, disk[RootOf(current)][f])
                => WillIndex(watch'[current], f, disk[RootOf(current)][f])
          \/ /\ op' # "rescanning"
             /\ savePc' = "written" => <<RootOf(current), saveFile>> \in survived

RowsGrow == \A r \in Roots, f \in Files : <<r, f>> \notin survived => index'[r][f] >= index[r][f]

LEMMA CommitKeeps ==
    ASSUME ObservationInv, IndexInv', TurnsInv', NEW r \in Roots, NEW rows \in Copies,
           Commits(r, rows), Alone(r, rows), OthersGoOn
    PROVE  SeenInv' /\ GrowthInv' /\ RowsGrow
  <1> USE DEF ObservationInv
  <1>0. UsesAreOpen /\ UsesAreOpen' /\ ReadersHaveRoots'
    BY OpenWhenUsed, ReaderHasRoot, PTL
  <1>1. /\ disk \in [Roots -> [Files -> Versions]] /\ index \in [Roots -> Copies]
        /\ \A f \in Files : rows[f] \in Nat
    BY DEF IndexInv, TypeOK, Copies
  <1>2. \A s \in Roots, f \in Files : disk[s][f] \in Nat /\ index[s][f] \in Nat
    BY <1>1 DEF Versions, Copies
  <1>3. index'[r] = rows /\ \A s \in Roots \ {r} : index'[s] = index[s]
    BY <1>1 DEF Commits
  <1>4. disk' = disk /\ survived' = survived /\ current' = current /\ RootOf(current)' = RootOf(current)
    BY DEF Commits
  <1>5. \A f \in Files : rows[f] = index[r][f] \/ MayReplace(r, f, rows[f])
    BY DEF Commits
  <1>6. RowsGrow
    BY <1>1, <1>2, <1>3, <1>5 DEF RowsGrow, MayReplace
  <1>7. StaleIsOwed'
    <2> SUFFICES ASSUME NEW c \in Contexts, NEW f \in Files, Stale(c, f)'
                 PROVE  \/ Owed(c, f)' \/ f \in excused'[c]
                        \/ <<watch'[c].root, f>> \in survived'
      BY DEF StaleIsOwed
    <2>1. watch'[c].on /\ index'[watch'[c].root][f] # disk[watch'[c].root][f]
      BY <1>4 DEF Stale
    <2>2. Owed(c, f)' <=> WillIndex(watch'[c], f, disk[watch'[c].root][f])
      BY <1>4 DEF Owed, WillIndex, Told, WillCover
    <2>3. watch[c].on /\ watch'[c].root = watch[c].root
      BY <2>1 DEF Commits
    <2>4. watch[c].root \in Roots
      BY <2>3, WhoIsAlive
    <2>5. CASE watch[c].root = r
      BY <1>3, <1>4, <2>1, <2>2, <2>3, <2>5 DEF Commits
    <2>6. CASE watch[c].root # r
      <3>1. Stale(c, f)
        BY <1>3, <2>1, <2>3, <2>4, <2>6 DEF Stale
      <3>2. \/ WillIndex(watch[c], f, disk[watch[c].root][f]) \/ f \in excused[c]
            \/ <<watch[c].root, f>> \in survived
        BY <3>1, OwedIsIndexed DEF SeenInv, StaleIsOwed
      <3> QED
        BY <1>4, <2>2, <2>3, <2>6, <3>2 DEF Commits
    <2> QED
      BY <2>5, <2>6
  <1>8. ASSUME NEW c \in Contexts, NEW f \in Files, watch'[c].on
        PROVE  watch'[c].copy[f] \in {0, disk'[watch'[c].root][f]} \/ Told(watch'[c], f)
    <2>1. /\ watch'[c].root = watch[c].root /\ watch[c].on
          /\ watch'[c].copy[f] \in {0, watch[c].copy[f]}
          /\ Told(watch[c], f) => Told(watch'[c], f)
      BY <1>8 DEF Commits
    <2> QED
      BY <1>4, <2>1 DEF SeenInv
  <1>9. ASSUME op' = "rescanning", watch'[current'].on, NEW f \in Files
        PROVE  \/ opCopy'[f] \in {0, disk'[target'][f]}
               \/ WillIndex(watch'[current'], f, disk'[target'][f])
    <2>1. op = "rescanning" /\ opCopy' = opCopy /\ target' = target
          /\ target = RootOf(current) /\ current # 0
      BY <1>0, <1>9 DEF OthersGoOn, UsesAreOpen
    <2>2. current \in Contexts /\ watch[current].on
      BY <1>4, <1>9, <2>1, OpenHasRoot DEF Commits
    <2>3. \/ opCopy[f] \in {0, disk[target][f]}
          \/ WillIndex(watch[current], f, disk[target][f])
      BY <2>1, <2>2 DEF SeenInv
    <2> QED
      BY <1>4, <1>9, <2>1, <2>3 DEF OthersGoOn
  <1>10. ASSUME savePc' = "written", watch'[current'].on
        PROVE  \/ disk'[RootOf(current)'][saveFile'] = saveExpected' + 1
               \/ WillIndex(watch'[current'], saveFile', disk'[RootOf(current)'][saveFile'])
               \/ <<RootOf(current), saveFile>>' \in survived'
    <2>1. savePc = "written" /\ saveFile' = saveFile /\ saveExpected' = saveExpected /\ current # 0
      BY <1>0, <1>10 DEF OthersGoOn, UsesAreOpen
    <2>2. current \in Contexts /\ watch[current].on /\ saveFile \in Files
      BY <1>4, <1>10, <2>1, OpenHasRoot DEF Commits, IndexInv, TypeOK
    <2>3. \/ disk[RootOf(current)][saveFile] = saveExpected + 1
          \/ WillIndex(watch[current], saveFile, disk[RootOf(current)][saveFile])
          \/ <<RootOf(current), saveFile>> \in survived
      BY <2>1, <2>2 DEF SeenInv
    <2> QED
      BY <1>4, <1>10, <2>1, <2>2, <2>3 DEF OthersGoOn
  <1>11. SeenInv'
    BY <1>7, <1>8, <1>9, <1>10 DEF SeenInv
  <1>12. \A s \in Roots, f \in Files : index'[s][f] <= disk'[s][f]
    <2>1. \A f \in Files : rows[f] <= disk[r][f]
      BY <1>5 DEF MayReplace, GrowthInv
    <2> QED
      BY <1>3, <1>4, <2>1 DEF GrowthInv
  <1>13. ASSUME NEW s \in Roots, NEW f \in Files, NEW v \in Nat, MayReplace(s, f, v),
                s = r => rows[f] = index[r][f] \/ <<r, f>> \in survived
        PROVE  v <= disk'[s][f] /\ (<<s, f>> \in survived' \/ index'[s][f] <= v)
    BY <1>3, <1>4, <1>13 DEF MayReplace
  <1>14. ASSUME NEW c \in Contexts, NEW f \in Files, watch'[c].copy[f] # 0
        PROVE  MayReplace(watch[c].root, f, watch[c].copy[f])'
    <2>0. watch'[c] \in ContextRecords
      BY DEF IndexInv, TypeOK
    <2>1. watch'[c].copy[f] \in Nat
      BY <2>0 DEF ContextRecords, Copies
    <2>2. watch'[c].root \in Roots
      BY <1>0, <1>14 DEF ReadersHaveRoots
    <2>3. watch'[c].root = watch[c].root /\ watch'[c].copy[f] = watch[c].copy[f]
      BY <1>14 DEF Commits
    <2>4. MayReplace(watch[c].root, f, watch[c].copy[f])
      BY <1>14, <2>3 DEF GrowthInv
    <2>5. watch[c].root = r => rows[f] = index[r][f] \/ <<r, f>> \in survived
      BY <1>14, <2>3 DEF Alone
    <2> QED
      BY <1>13, <2>1, <2>2, <2>3, <2>4, <2>5 DEF MayReplace
  <1>15. ASSUME op' \in {"scanning", "rescanning"}, NEW f \in Files, opCopy'[f] # 0
        PROVE  MayReplace(target, f, opCopy[f])'
    <2>1. target' \in Roots /\ opCopy'[f] \in Nat
      BY <1>15, <1>0 DEF IndexInv, TypeOK, Copies, UsesAreOpen
    <2>2. op' = op /\ opCopy' = opCopy /\ target' = target
      BY <1>15 DEF OthersGoOn
    <2>3. target = r => rows[f] = index[r][f] \/ <<r, f>> \in survived
      BY <1>15, <2>2 DEF Alone
    <2> QED
      BY <1>13, <1>15, <2>1, <2>2, <2>3 DEF GrowthInv, MayReplace
  <1>16. ASSUME savePc' = "written"
        PROVE  MayReplace(RootOf(current), saveFile, saveExpected + 1)'
    <2>1. RootOf(current)' \in Roots /\ saveFile' \in Files /\ saveExpected' \in Nat
      BY <1>16, <1>0 DEF IndexInv, TypeOK, UsesAreOpen
    <2>2. savePc = "written" /\ saveFile' = saveFile /\ saveExpected' = saveExpected
      BY <1>16 DEF OthersGoOn
    <2>3. RootOf(current) = r => rows[saveFile] = index[r][saveFile] \/ <<r, saveFile>> \in survived
      BY <1>16, <2>1, <2>2 DEF Alone
    <2>4. saveExpected + 1 \in Nat
      BY <2>1, <2>2
    <2>5. MayReplace(RootOf(current), saveFile, saveExpected + 1)
      BY <2>2 DEF GrowthInv
    <2> QED
      BY <1>4, <1>13, <2>1, <2>2, <2>3, <2>4, <2>5 DEF MayReplace
  <1>17. GrowthInv'
    BY <1>12, <1>14, <1>15, <1>16 DEF GrowthInv
  <1> QED
    BY <1>6, <1>11, <1>17

--------------------------------------------------------------------------------
(* The callback and the worker.                                            *)

\* One context goes on while the disk rests.
Kept(w, x, f, v) ==
    /\ x.copy[f] \in {0, w.copy[f], v}
    /\ WillIndex(w, f, v) => WillIndex(x, f, v)
    /\ Told(w, f) => Told(x, f) \/ x.copy[f] \in {0, v}

StaysInTurn(w, x) ==
    /\ x.root = w.root /\ InTurn(x)
    /\ w.analysis \in {"command", "save"} => x.analysis = w.analysis

LEMMA TurnOfOne ==
    ASSUME ObservationInv, NEW c \in Contexts, NEW ctx, WatchStep(c, ctx),
           StaysInTurn(watch[c], ctx)
    PROVE  /\ TurnsInv' /\ watch'[c] = ctx /\ \A d \in Contexts \ {c} : watch'[d] = watch[d]
           /\ RootOf(current)' = RootOf(current) /\ current' = current
  <1> USE DEF ObservationInv
  <1>1. watch' = [watch EXCEPT ![c] = ctx] /\ watch \in [Contexts -> ContextRecords]
    BY DEF WatchStep, IndexInv, TypeOK
  <1>2. watch'[c] = ctx /\ \A d \in Contexts \ {c} : watch'[d] = watch[d]
    BY <1>1
  <1>3. UNCHANGED <<op, opCopy, target, current, savePc, saveCtx, saveFile, survived, opens>>
    BY DEF WatchStep, operation, save
  <1>4. current # 0 => current \in Contexts
    BY OpenHasRoot
  <1>5. savePc # "idle" => saveCtx \in Contexts
    BY OpenWhenUsed DEF UsesAreOpen
  <1>6. \A d \in Contexts : watch'[d].root = watch[d].root
    BY <1>2 DEF StaysInTurn
  <1>7. RootOf(current)' = RootOf(current) /\ (savePc # "idle" => RootOf(saveCtx)' = RootOf(saveCtx))
    BY <1>3, <1>4, <1>5, <1>6 DEF RootOf
  <1>8. op = "rescanning" => watch'[current].analysis = "command"
    <2>1. op = "rescanning" => current \in Contexts
      BY <1>4, OpenWhenUsed DEF UsesAreOpen
    <2> QED
      BY <1>2, <2>1 DEF TurnsInv, StaysInTurn
  <1>9. savePc \in {"reserved", "reading", "written"} => watch'[saveCtx].analysis = "save"
    BY <1>2, <1>5 DEF TurnsInv, StaysInTurn
  <1>10. \A d \in Contexts : InTurn(watch'[d])
    BY <1>2 DEF TurnsInv, StaysInTurn
  <1> QED
    BY <1>2, <1>3, <1>7, <1>8, <1>9, <1>10 DEF TurnsInv

LEMMA ContextGoesOn ==
    ASSUME ObservationInv, IndexInv', NEW c \in Contexts, NEW ctx, WatchStep(c, ctx),
           index' = index, excused' = excused, StaysInTurn(watch[c], ctx),
           ctx.on => watch[c].on,
           \A f \in Files : Kept(watch[c], ctx, f, disk[watch[c].root][f])
    PROVE  ObservationInv' /\ RowsGrow
  <1>1. /\ TurnsInv' /\ watch'[c] = ctx /\ \A d \in Contexts \ {c} : watch'[d] = watch[d]
        /\ RootOf(current)' = RootOf(current) /\ current' = current
    BY TurnOfOne
  <1>2. UNCHANGED <<disk, index, excused, survived, op, opCopy, target, current, savePc, saveCtx,
                    saveFile, saveExpected>>
    BY DEF WatchStep, operation, save
  <1>3. ASSUME NEW d \in Contexts, d # c PROVE Follows(d)
    <2>1. \A f \in Files : watch[d].on => \/ watch[d].copy[f] \in {0, disk[watch[d].root][f]}
                                          \/ Told(watch[d], f)
      BY DEF ObservationInv, SeenInv
    <2>2. watch'[d] = watch[d] /\ disk' = disk
      BY <1>1, <1>2, <1>3
    <2> QED
      BY <2>1, <2>2 DEF Follows
  <1>4. Follows(c)
    <2>1. ctx.root = watch[c].root
      BY DEF StaysInTurn
    <2>2. ASSUME NEW f \in Files, ctx.on
          PROVE  ctx.copy[f] \in {0, disk[watch[c].root][f]} \/ Told(ctx, f)
      <3>1. watch[c].copy[f] \in {0, disk[watch[c].root][f]} \/ Told(watch[c], f)
        BY <2>2 DEF ObservationInv, SeenInv
      <3> QED
        BY <3>1 DEF Kept
    <2> QED
      BY <1>1, <1>2, <2>1, <2>2 DEF Follows, Kept
  <1>5. RowsRest
    <2>1. \A r \in Roots, f \in Files : disk[r][f] \in Nat
      BY DEF ObservationInv, IndexInv, TypeOK, Versions
    <2> QED
      BY <1>2, <1>3, <1>4, <2>1 DEF RowsRest
  <1>6. PlansRest
    BY <1>1, <1>2 DEF PlansRest
  <1>7. RowsGrow
    <2>1. \A r \in Roots, f \in Files : index[r][f] \in Nat
      BY DEF ObservationInv, IndexInv, TypeOK, Copies
    <2> QED
      BY <1>2, <2>1 DEF RowsGrow
  <1> QED
    BY <1>1, <1>5, <1>6, <1>7, SeenKeeps, GrowthKeeps DEF ObservationInv

\* What is appended to a queue, and what is taken from it.
LEMMA QueueTells ==
    ASSUME NEW q \in Seq(SUBSET Files), NEW f
    PROVE  /\ \A s \in SUBSET Files :
                 /\ (\E i \in DOMAIN q : f \in q[i]) => \E i \in DOMAIN Append(q, s) : f \in Append(q, s)[i]
                 /\ f \in s => \E i \in DOMAIN Append(q, s) : f \in Append(q, s)[i]
           /\ q # <<>> /\ (\E i \in DOMAIN q : f \in q[i])
                 => f \in Head(q) \/ \E i \in DOMAIN Tail(q) : f \in Tail(q)[i]
  <1>1. ASSUME NEW s \in SUBSET Files
        PROVE  /\ (\E i \in DOMAIN q : f \in q[i]) => \E i \in DOMAIN Append(q, s) : f \in Append(q, s)[i]
               /\ f \in s => \E i \in DOMAIN Append(q, s) : f \in Append(q, s)[i]
    <2>1. /\ DOMAIN Append(q, s) = 1..(Len(q) + 1) /\ DOMAIN q = 1..Len(q) /\ Len(q) \in Nat
          /\ \A i \in 1..Len(q) : Append(q, s)[i] = q[i]
          /\ Append(q, s)[Len(q) + 1] = s
      OBVIOUS
    <2>2. \A i \in 1..Len(q) : i \in 1..(Len(q) + 1)
      BY <2>1
    <2>3. Len(q) + 1 \in 1..(Len(q) + 1)
      BY <2>1
    <2> QED
      BY <2>1, <2>2, <2>3
  <1>2. ASSUME q # <<>>, NEW i \in DOMAIN q, f \in q[i]
        PROVE  f \in Head(q) \/ \E j \in DOMAIN Tail(q) : f \in Tail(q)[j]
    <2>1. /\ DOMAIN q = 1..Len(q) /\ Len(q) \in Nat \ {0} /\ DOMAIN Tail(q) = 1..(Len(q) - 1)
          /\ Head(q) = q[1] /\ \A j \in 1..(Len(q) - 1) : Tail(q)[j] = q[j + 1]
      BY <1>2
    <2>2. CASE i = 1
      BY <1>2, <2>1, <2>2
    <2>3. CASE i # 1
      <3>1. i - 1 \in 1..(Len(q) - 1) /\ (i - 1) + 1 = i
        BY <1>2, <2>1, <2>3
      <3> QED
        BY <1>2, <2>1, <3>1
    <2> QED
      BY <2>2, <2>3
  <1> QED
    BY <1>1, <1>2

\* Where the parts of a context go that the callback writes.
LEMMA CallbackObserved ==
    ASSUME ObservationInv, IndexInv', NEW c \in Contexts, CallbackNext(c)
    PROVE  ObservationInv' /\ RowsGrow
  <1> DEFINE w == watch[c]
  <1>1. w \in ContextRecords /\ InTurn(w)
    BY DEF ObservationInv, IndexInv, TypeOK, TurnsInv
  <1>2. ASSUME NEW ctx, CallbackStep(c, ctx), ctx.root = w.root, ctx.on = w.on,
               ctx.worker = w.worker, ctx.analysis = w.analysis, ctx.copy = w.copy,
               ctx.batch = w.batch, ctx.rescan = w.rescan,
               \A f \in Files : Told(w, f) => Told(ctx, f)
        PROVE  ObservationInv' /\ RowsGrow
    <2>1. StaysInTurn(w, ctx)
      BY <1>1, <1>2 DEF StaysInTurn, InTurn
    <2>2. \A f \in Files : Kept(w, ctx, f, disk[w.root][f])
      BY <1>2 DEF Kept, WillIndex
    <2>3. WatchStep(c, ctx) /\ index' = index /\ excused' = excused
      BY <1>2 DEF CallbackStep, database
    <2> QED
      BY <1>2, <2>1, <2>2, <2>3, ContextGoesOn
  <1>3. ASSUME NEW g \in Files, Notify(c, g) PROVE ObservationInv' /\ RowsGrow
    <2>1. CASE Len(w.queue) < QueueCapacity
      <3> DEFINE ctx == [w EXCEPT !.events = @ \ {g}, !.queue = Append(@, {g})]
      <3>1. CallbackStep(c, ctx)
        BY <1>3, <2>1 DEF Notify
      <3>2. /\ ctx.root = w.root /\ ctx.on = w.on /\ ctx.worker = w.worker
            /\ ctx.analysis = w.analysis /\ ctx.copy = w.copy /\ ctx.batch = w.batch
            /\ ctx.rescan = w.rescan /\ ctx.events = w.events \ {g}
            /\ ctx.queue = Append(w.queue, {g}) /\ ctx.overflowed = w.overflowed
            /\ ctx.callback = w.callback
        BY <1>1 DEF ContextRecords
      <3> HIDE DEF ctx
      <3>3. w.queue \in Seq(SUBSET Files) /\ {g} \in SUBSET Files
        BY <1>1 DEF ContextRecords
      <3>4. \A f \in Files : Told(w, f) => Told(ctx, f)
        BY <3>2, <3>3, QueueTells DEF Told
      <3> QED
        BY <1>2, <3>1, <3>2, <3>4
    <2>2. CASE ~(Len(w.queue) < QueueCapacity)
      <3> DEFINE ctx == [w EXCEPT !.events = @ \ {g}, !.callback = "full"]
      <3>1. CallbackStep(c, ctx)
        BY <1>3, <2>2 DEF Notify
      <3>2. /\ ctx.root = w.root /\ ctx.on = w.on /\ ctx.worker = w.worker
            /\ ctx.analysis = w.analysis /\ ctx.copy = w.copy /\ ctx.batch = w.batch
            /\ ctx.rescan = w.rescan /\ ctx.callback = "full"
        BY <1>1 DEF ContextRecords
      <3> HIDE DEF ctx
      <3>3. \A f \in Files : Told(w, f) => Told(ctx, f)
        BY <3>2 DEF Told
      <3> QED
        BY <1>2, <3>1, <3>2, <3>3
    <2> QED
      BY <2>1, <2>2
  <1>4. CASE FlagOverflow(c) \/ NotifyMany(c)
    <2>1. PICK ctx \in {[w EXCEPT !.callback = "idle", !.overflowed = TRUE],
                        [w EXCEPT !.events = {}, !.overflowed = TRUE, !.callback = "bulk"]} :
            CallbackStep(c, ctx)
      BY <1>4 DEF FlagOverflow, NotifyMany
    <2>2. /\ ctx.root = w.root /\ ctx.on = w.on /\ ctx.worker = w.worker
          /\ ctx.analysis = w.analysis /\ ctx.copy = w.copy /\ ctx.batch = w.batch
          /\ ctx.rescan = w.rescan /\ ctx.overflowed
      BY <1>1, <2>1 DEF ContextRecords
    <2>3. \A f \in Files : Told(w, f) => Told(ctx, f)
      BY <2>2 DEF Told
    <2> QED
      BY <1>2, <2>1, <2>2, <2>3
  <1>5. CASE SendEmpty(c)
    <2> DEFINE room == IF Len(w.queue) < QueueCapacity THEN Append(w.queue, {}) ELSE w.queue
               ctx == [w EXCEPT !.callback = "idle", !.queue = room]
    <2>1. CallbackStep(c, ctx) /\ w.callback # "full"
      BY <1>5 DEF SendEmpty
    <2>2. /\ ctx.root = w.root /\ ctx.on = w.on /\ ctx.worker = w.worker
          /\ ctx.analysis = w.analysis /\ ctx.copy = w.copy /\ ctx.batch = w.batch
          /\ ctx.rescan = w.rescan /\ ctx.events = w.events /\ ctx.queue = room
          /\ ctx.overflowed = w.overflowed
      BY <1>1 DEF ContextRecords
    <2>3. w.queue \in Seq(SUBSET Files) /\ {} \in SUBSET Files
      BY <1>1 DEF ContextRecords
    <2>4. \A f \in Files : (\E i \in DOMAIN w.queue : f \in w.queue[i])
             => \E i \in DOMAIN room : f \in room[i]
      BY <2>3, QueueTells
    <2> HIDE DEF ctx, room
    <2>5. \A f \in Files : Told(w, f) => Told(ctx, f)
      BY <2>1, <2>2, <2>4 DEF Told
    <2> QED
      BY <1>2, <2>1, <2>2, <2>5
  <1> QED
    BY <1>3, <1>4, <1>5 DEF CallbackNext

\* A worker that has read nothing and goes on to its next step without forgetting.
Known(w, f) == Told(w, f) \/ f \in w.batch \/ w.rescan

LEMMA WorkerGoesOn ==
    ASSUME ObservationInv, IndexInv', NEW c \in Contexts, NEW ctx, WatchStep(c, ctx),
           index' = index, excused' = excused,
           watch[c].worker \notin Analysing, ctx.worker # "none",
           ctx.worker = "ended" => ~watch[c].on,
           ctx.worker \in Analysing => ctx.analysis = "worker",
           ctx.root = watch[c].root, ctx.on = watch[c].on, ctx.copy = watch[c].copy,
           watch[c].analysis \in {"command", "save"} => ctx.analysis = watch[c].analysis,
           \A f \in Files : Known(watch[c], f) => Known(ctx, f)
    PROVE  ObservationInv' /\ RowsGrow
  <1>1. watch[c].copy = Unread /\ ctx.copy = Unread
    BY DEF ObservationInv, TurnsInv, InTurn
  <1>2. StaysInTurn(watch[c], ctx)
    BY <1>1 DEF StaysInTurn, InTurn
  <1>3. \A f \in Files : Kept(watch[c], ctx, f, disk[watch[c].root][f])
    BY <1>1 DEF Kept, Known, WillIndex, Unread
  <1> QED
    BY <1>2, <1>3, ContextGoesOn

\* What is taken from the queue is in the batch, or the batch became a rescan.
LEMMA ExtendedKnows ==
    ASSUME NEW w \in ContextRecords, w.queue # <<>>, NEW rescan \in BOOLEAN
    PROVE  LET x == Extended(w, Head(w.queue), rescan) IN
           /\ x.root = w.root /\ x.on = w.on /\ x.copy = w.copy /\ x.analysis = w.analysis
           /\ x.worker = w.worker /\ x.overflowed = w.overflowed /\ x.callback = w.callback
           /\ x.events = w.events /\ x.queue = Tail(w.queue)
           /\ rescan => x.rescan
           /\ \A f \in Files : Known(w, f) => Known(x, f)
  <1>1. w.queue \in Seq(SUBSET Files)
    BY DEF ContextRecords
  <1> DEFINE all == w.batch \cup Head(w.queue)
  <1>2. CASE rescan \/ Cardinality(all) > MaxBatch
    <2> DEFINE x == [w EXCEPT !.queue = Tail(@), !.batch = {}, !.rescan = TRUE]
    <2>1. Extended(w, Head(w.queue), rescan) = x
      BY <1>2 DEF Extended
    <2>2. /\ x.root = w.root /\ x.on = w.on /\ x.copy = w.copy /\ x.analysis = w.analysis
          /\ x.worker = w.worker /\ x.overflowed = w.overflowed /\ x.callback = w.callback
          /\ x.events = w.events /\ x.queue = Tail(w.queue) /\ x.rescan
      BY DEF ContextRecords
    <2> HIDE DEF x
    <2> QED
      BY <2>1, <2>2 DEF Known
  <1>3. CASE ~(rescan \/ Cardinality(all) > MaxBatch)
    <2> DEFINE x == [w EXCEPT !.queue = Tail(@), !.batch = all]
    <2>1. Extended(w, Head(w.queue), rescan) = x
      BY <1>3 DEF Extended
    <2>2. /\ x.root = w.root /\ x.on = w.on /\ x.copy = w.copy /\ x.analysis = w.analysis
          /\ x.worker = w.worker /\ x.overflowed = w.overflowed /\ x.callback = w.callback
          /\ x.events = w.events /\ x.queue = Tail(w.queue) /\ x.rescan = w.rescan
          /\ x.batch = all
      BY DEF ContextRecords
    <2> HIDE DEF x
    <2>3. \A f \in Files : Known(w, f) => Known(x, f)
      BY <1>1, <2>2, QueueTells DEF Known, Told
    <2> QED
      BY <1>3, <2>1, <2>2, <2>3
  <1> QED
    BY <1>2, <1>3

LEMMA CollectingObserved ==
    ASSUME ObservationInv, IndexInv', NEW c \in Contexts,
           Receive(c) \/ Collect(c) \/ CollectEnds(c) \/ WorkerEnds(c) \/ Reserve(c)
    PROVE  ObservationInv' /\ RowsGrow
  <1> DEFINE w == watch[c]
  <1>1. w \in ContextRecords
    BY DEF ObservationInv, IndexInv, TypeOK
  <1>2. CASE Receive(c)
    <2> DEFINE x == Extended(w, Head(w.queue), w.overflowed)
               ctx == [x EXCEPT !.overflowed = FALSE, !.worker = "collecting"]
    <2>1. w.overflowed \in BOOLEAN /\ w.queue # <<>> /\ w.worker = "idle" /\ CallbackStep(c, ctx)
      BY <1>1, <1>2 DEF ContextRecords, Receive
    <2>2. /\ x.root = w.root /\ x.on = w.on /\ x.copy = w.copy /\ x.analysis = w.analysis
          /\ x.overflowed = w.overflowed /\ (w.overflowed => x.rescan)
          /\ \A f \in Files : Known(w, f) => Known(x, f)
      BY <1>1, <2>1, ExtendedKnows
    <2>3. x \in ContextRecords
      <3>1. Bounded(w)
        BY DEF ObservationInv, IndexInv, TypeOK, Bounded
      <3> QED
        BY <1>1, <2>1, <3>1, ExtendedTypes
    <2> HIDE DEF x
    <2>4. /\ ctx.root = x.root /\ ctx.on = x.on /\ ctx.copy = x.copy /\ ctx.analysis = x.analysis
          /\ ctx.worker = "collecting" /\ ctx.events = x.events /\ ctx.callback = x.callback
          /\ ctx.queue = x.queue /\ ctx.batch = x.batch /\ ctx.rescan = x.rescan
      BY <2>3 DEF ContextRecords
    <2> HIDE DEF ctx
    <2>5. \A f \in Files : Known(x, f) => Known(ctx, f)
      BY <2>2, <2>4 DEF Known, Told
    <2>6. WatchStep(c, ctx) /\ index' = index /\ excused' = excused
      BY <2>1 DEF CallbackStep, database
    <2> QED
      BY <2>1, <2>2, <2>4, <2>5, <2>6, WorkerGoesOn DEF Analysing
  <1>3. CASE Collect(c)
    <2> DEFINE ctx == Extended(w, Head(w.queue), w.rescan)
    <2>1. w.rescan \in BOOLEAN /\ w.queue # <<>> /\ w.worker = "collecting" /\ CallbackStep(c, ctx)
      BY <1>1, <1>3 DEF ContextRecords, Collect
    <2>2. /\ ctx.root = w.root /\ ctx.on = w.on /\ ctx.copy = w.copy
          /\ ctx.analysis = w.analysis /\ ctx.worker = w.worker
          /\ \A f \in Files : Known(w, f) => Known(ctx, f)
      BY <1>1, <2>1, ExtendedKnows
    <2> HIDE DEF ctx
    <2>3. WatchStep(c, ctx) /\ index' = index /\ excused' = excused
      BY <2>1 DEF CallbackStep, database
    <2> QED
      BY <2>1, <2>2, <2>3, WorkerGoesOn DEF Analysing
  <1>4. CASE CollectEnds(c)
    <2> DEFINE rescan == w.rescan \/ w.overflowed
               batch == IF rescan THEN {} ELSE w.batch
               ctx == [w EXCEPT !.rescan = rescan, !.overflowed = FALSE,
                                !.batch = batch, !.worker = "waiting"]
    <2>1. w.worker = "collecting" /\ CallbackStep(c, ctx)
      BY <1>4 DEF CollectEnds
    <2>2. /\ ctx.root = w.root /\ ctx.on = w.on /\ ctx.copy = w.copy
          /\ ctx.analysis = w.analysis /\ ctx.worker = "waiting"
          /\ ctx.rescan = rescan /\ ctx.batch = batch
          /\ ctx.events = w.events /\ ctx.callback = w.callback /\ ctx.queue = w.queue
      BY <1>1 DEF ContextRecords
    <2> HIDE DEF ctx
    <2>3. \A f \in Files : Known(w, f) => Known(ctx, f)
      BY <2>2 DEF Known, Told
    <2>4. WatchStep(c, ctx) /\ index' = index /\ excused' = excused
      BY <2>1 DEF CallbackStep, database
    <2> QED
      BY <2>1, <2>2, <2>3, <2>4, WorkerGoesOn DEF Analysing
  <1>5. CASE WorkerEnds(c)
    <2> DEFINE ctx == [w EXCEPT !.worker = "ended"]
    <2>1. w.worker = "idle" /\ ~w.on /\ CallbackStep(c, ctx)
      BY <1>5 DEF WorkerEnds
    <2>2. /\ ctx.root = w.root /\ ctx.on = w.on /\ ctx.copy = w.copy
          /\ ctx.analysis = w.analysis /\ ctx.worker = "ended"
          /\ ctx.rescan = w.rescan /\ ctx.batch = w.batch /\ ctx.overflowed = w.overflowed
          /\ ctx.events = w.events /\ ctx.callback = w.callback /\ ctx.queue = w.queue
      BY <1>1 DEF ContextRecords
    <2> HIDE DEF ctx
    <2>3. \A f \in Files : Known(w, f) => Known(ctx, f)
      BY <2>2 DEF Known, Told
    <2>4. WatchStep(c, ctx) /\ index' = index /\ excused' = excused
      BY <2>1 DEF CallbackStep, database
    <2> QED
      BY <2>1, <2>2, <2>3, <2>4, WorkerGoesOn DEF Analysing
  <1>6. CASE Reserve(c)
    <2>1. PICK ctx \in {[w EXCEPT !.analysis = "worker", !.worker = "scanning"],
                        [w EXCEPT !.analysis = "worker", !.worker = "delta"],
                        [w EXCEPT !.worker = "idle"]} : CallbackStep(c, ctx)
      BY <1>6 DEF Reserve
    <2>2. /\ ctx.root = w.root /\ ctx.on = w.on /\ ctx.copy = w.copy
          /\ ctx.worker \in {"scanning", "delta", "idle"}
          /\ ctx.worker \in Analysing => ctx.analysis = "worker"
          /\ ctx.rescan = w.rescan /\ ctx.batch = w.batch /\ ctx.overflowed = w.overflowed
          /\ ctx.events = w.events /\ ctx.callback = w.callback /\ ctx.queue = w.queue
      BY <1>1, <2>1 DEF ContextRecords, Analysing
    <2>3. w.worker = "waiting" /\ w.analysis = "free"
      BY <1>6 DEF Reserve
    <2>4. \A f \in Files : Known(w, f) => Known(ctx, f)
      BY <2>2 DEF Known, Told
    <2>5. WatchStep(c, ctx) /\ index' = index /\ excused' = excused
      BY <2>1 DEF CallbackStep, database
    <2> QED
      BY <2>2, <2>3, <2>4, <2>5, WorkerGoesOn DEF Analysing
  <1> QED
    BY <1>2, <1>3, <1>4, <1>5, <1>6

LEMMA PublishingObserved ==
    ASSUME ObservationInv, IndexInv', NEW c \in Contexts,
           \/ CheckCurrent(c) \/ QuerySnapshot(c) \/ ProjectSnapshot(c) \/ ReadPending(c)
           \/ Emit(c) \/ Acknowledge(c) \/ DrainFails(c)
    PROVE  ObservationInv' /\ RowsGrow
  <1> DEFINE w == watch[c]
             last == IF acked[w.root] + DrainLimit < committed[w.root]
                     THEN acked[w.root] + DrainLimit ELSE committed[w.root]
  <1>1. w \in ContextRecords
    BY DEF ObservationInv, IndexInv, TypeOK
  <1>2. w.worker \in {"check"} \cup Publishing
    BY DEF CheckCurrent, QuerySnapshot, ProjectSnapshot, ReadPending, Emit, Acknowledge,
           DrainFails, Publishing
  <1>3. PICK ctx \in {[w EXCEPT !.worker = "idle"],
                      [w EXCEPT !.worker = "snapshot"],
                      [w EXCEPT !.store = "worker", !.worker = "project"],
                      [w EXCEPT !.store = "free", !.worker = "pending"],
                      [w EXCEPT !.drained = last, !.worker = "emit"],
                      [w EXCEPT !.worker = "ack"],
                      [w EXCEPT !.drained = 0, !.worker = "idle"]} : WatchStep(c, ctx)
    <2>1. CASE CheckCurrent(c)
      BY <2>1 DEF CheckCurrent, CallbackStep
    <2>2. CASE QuerySnapshot(c)
      BY <2>2 DEF QuerySnapshot, CallbackStep
    <2>3. CASE ProjectSnapshot(c)
      BY <2>3 DEF ProjectSnapshot, CallbackStep
    <2>4. CASE ReadPending(c)
      <3>1. \/ WatchStep(c, [w EXCEPT !.drained = last, !.worker = "emit"])
            \/ WatchStep(c, [w EXCEPT !.worker = "idle"])
        BY <2>4 DEF ReadPending, CallbackStep
      <3> QED
        BY <3>1
    <2>5. CASE Emit(c)
      BY <2>5 DEF Emit
    <2>6. CASE Acknowledge(c) \/ DrainFails(c)
      BY <2>6 DEF Acknowledge, DrainFails, CallbackStep
    <2> QED
      BY <2>1, <2>2, <2>3, <2>4, <2>5, <2>6
  <1> HIDE DEF last
  <1>4. /\ ctx.root = w.root /\ ctx.on = w.on /\ ctx.copy = w.copy
        /\ ctx.analysis = w.analysis /\ ctx.worker \in {"idle"} \cup Publishing
        /\ ctx.rescan = w.rescan /\ ctx.batch = w.batch /\ ctx.overflowed = w.overflowed
        /\ ctx.events = w.events /\ ctx.callback = w.callback /\ ctx.queue = w.queue
    BY <1>1, <1>3 DEF ContextRecords, Publishing
  <1>5. \A f \in Files : Known(w, f) => Known(ctx, f)
    BY <1>4 DEF Known, Told
  <1>6. index' = index /\ excused' = excused
    BY DEF CheckCurrent, QuerySnapshot, ProjectSnapshot, ReadPending, Emit, Acknowledge,
           DrainFails, CallbackStep, database
  <1> QED
    BY <1>2, <1>3, <1>4, <1>5, <1>6, WorkerGoesOn DEF Analysing, Publishing

LEMMA ReadingObserved ==
    ASSUME ObservationInv, IndexInv', NEW c \in Contexts,
           (\E g \in Files : DeltaRead(c, g) \/ WorkerScan(c, g)) \/ DeltaFails(c)
    PROVE  ObservationInv' /\ RowsGrow
  <1> DEFINE w == watch[c]
             now == disk[w.root]
  <1>1. w \in ContextRecords /\ InTurn(w)
    BY DEF ObservationInv, IndexInv, TypeOK, TurnsInv
  <1>2. ASSUME NEW g \in Files, DeltaRead(c, g) \/ WorkerScan(c, g)
        PROVE  ObservationInv' /\ RowsGrow
    <2> DEFINE ctx == [w EXCEPT !.copy[g] = now[g]]
    <2>1. /\ WatchStep(c, ctx) /\ index' = index /\ excused' = excused
          /\ w.worker \in Analysing
      BY <1>2 DEF DeltaRead, WorkerScan, CallbackStep, database, Analysing
    <2>2. /\ ctx.root = w.root /\ ctx.on = w.on /\ ctx.analysis = w.analysis
          /\ ctx.worker = w.worker /\ ctx.rescan = w.rescan /\ ctx.batch = w.batch
          /\ ctx.overflowed = w.overflowed /\ ctx.events = w.events
          /\ ctx.callback = w.callback /\ ctx.queue = w.queue
          /\ \A f \in Files : ctx.copy[f] = IF f = g THEN now[g] ELSE w.copy[f]
      BY <1>1 DEF ContextRecords, Copies
    <2> HIDE DEF ctx
    <2>3. StaysInTurn(w, ctx)
      BY <1>1, <2>1, <2>2 DEF StaysInTurn, InTurn
    <2>4. \A f \in Files : Kept(w, ctx, f, now[f])
      BY <2>2 DEF Kept, WillIndex, Told
    <2> QED
      BY <2>1, <2>2, <2>3, <2>4, ContextGoesOn
  <1>3. CASE DeltaFails(c)
    <2> DEFINE ctx == [w EXCEPT !.batch = {}, !.copy = Unread, !.rescan = TRUE,
                                !.analysis = "free", !.worker = "waiting"]
    <2>1. /\ WatchStep(c, ctx) /\ index' = index /\ excused' = excused
          /\ w.worker \in Analysing
      BY <1>3 DEF DeltaFails, CallbackStep, database, Analysing
    <2>2. /\ ctx.root = w.root /\ ctx.on = w.on /\ ctx.analysis = "free"
          /\ ctx.worker = "waiting" /\ ctx.rescan /\ ctx.copy = Unread
          /\ ctx.overflowed = w.overflowed /\ ctx.events = w.events
          /\ ctx.callback = w.callback /\ ctx.queue = w.queue
      BY <1>1 DEF ContextRecords
    <2> HIDE DEF ctx
    <2>3. StaysInTurn(w, ctx)
      BY <1>1, <2>1, <2>2 DEF StaysInTurn, InTurn, Analysing
    <2>4. \A f \in Files : Kept(w, ctx, f, now[f])
      BY <2>2 DEF Kept, WillIndex, Unread
    <2> QED
      BY <2>1, <2>2, <2>3, <2>4, ContextGoesOn
  <1> QED
    BY <1>2, <1>3

\* A worker that analyses has its context's reservation: the rescan of that context
\* does not run, a save of it is remembered, and nobody else works for its root.
LEMMA WorkerIsAlone ==
    ASSUME ObservationInv, NEW c \in Contexts, watch[c].worker \in Analysing
    PROVE  /\ watch[c].root \in Roots /\ watch[c].analysis = "worker"
           /\ \A d \in Contexts : /\ d # c /\ watch[d].root = watch[c].root
                                  => ~watch[d].on /\ watch[d].worker \notin Analysing
           /\ op \in {"scanning", "rescanning"} => target # watch[c].root
           /\ c = current => op # "rescanning"
           /\ savePc = "written" => \/ RootOf(current) # watch[c].root
                                    \/ <<RootOf(current), saveFile>> \in survived
           /\ current # 0 => RootOf(current) = watch[current].root
  <1> USE DEF ObservationInv
  <1>1. watch[c].analysis = "worker"
    BY DEF TurnsInv, InTurn
  <1>2. /\ watch[c].root \in Roots
        /\ \/ c = current
           \/ /\ c # current /\ watch[c].root # RootOf(current)
              /\ op \in Installing /\ watch[c].root = target
    BY WhoIsAlive DEF Analysing
  <1>3. current # 0 => current \in Contexts /\ RootOf(current) = watch[current].root
    BY OpenHasRoot
  <1>4. c # 0
    BY DEF Contexts
  <1>5. ASSUME NEW d \in Contexts, d # c, watch[d].root = watch[c].root,
               watch[d].on \/ watch[d].worker \in Analysing
        PROVE  FALSE
    <2>1. \/ d = current
          \/ d # current /\ watch[d].root # RootOf(current) /\ op \in Installing
      BY <1>5, WhoIsAlive DEF Analysing
    <2>2. d # 0
      BY DEF Contexts
    <2>3. CASE c = current
      BY <1>3, <1>4, <1>5, <2>1, <2>3
    <2>4. CASE c # current
      <3>1. d # current
        BY <1>2, <1>3, <1>5, <2>2, <2>4
      <3>2. c = opens /\ d = opens
        <4>1. c <= opens /\ d <= opens /\ ~(c < current) /\ ~(d < current)
          BY <1>1, <1>5, WhoIsAlive, BusyIsOpened DEF IndexInv, WorkerInv, Analysing, TurnsInv, InTurn
        <4>2. opens = current + 1
          BY <1>2, <2>4 DEF IndexInv, WorkerInv
        <4>3. c \in Nat /\ d \in Nat /\ current \in Nat
          BY IndexAssumption DEF Contexts, IndexInv, TypeOK
        <4> QED
          BY <2>4, <3>1, <4>1, <4>2, <4>3
      <3> QED
        BY <1>5, <3>2
    <2> QED
      BY <2>3, <2>4
  <1>6. c = current => op # "rescanning"
    BY <1>1 DEF TurnsInv
  <1>7. ASSUME op \in {"scanning", "rescanning"} PROVE target # watch[c].root
    <2>1. c = current
      BY <1>2, <1>7 DEF Installing
    <2>2. op = "scanning" /\ RootOf(current) = watch[c].root
      BY <1>3, <1>4, <1>6, <1>7, <2>1
    <2> QED
      BY <2>2 DEF IndexInv, OperationInv
  <1>8. ASSUME savePc = "written"
        PROVE  RootOf(current) # watch[c].root \/ <<RootOf(current), saveFile>> \in survived
    <2>1. watch[saveCtx].analysis = "save" /\ (saveCtx = current \/ <<RootOf(current), saveFile>> \in survived)
      BY <1>8 DEF TurnsInv
    <2>2. saveCtx # c
      BY <1>1, <2>1
    <2> QED
      BY <1>2, <2>1, <2>2
  <1> QED
    BY <1>1, <1>2, <1>3, <1>5, <1>6, <1>7, <1>8

\* The worker replaces rows with what it read, and owes those it leaves as they are.
Stores(c, ctx, rows) ==
    /\ WatchStep(c, ctx) /\ watch[c].worker \in Analysing /\ StaysInTurn(watch[c], ctx)
    /\ ctx.on = watch[c].on /\ ctx.copy = Unread
    /\ index' = [index EXCEPT ![watch[c].root] = rows]
    /\ \A d \in Contexts \ {c} : excused'[d] = excused[d]
    /\ \A f \in Files :
          /\ Told(watch[c], f) => Told(ctx, f)
          /\ \/ watch[c].copy[f] # 0 /\ rows[f] = watch[c].copy[f]
             \/ /\ rows[f] = index[watch[c].root][f]
                /\ WillIndex(watch[c], f, disk[watch[c].root][f])
                      => WillIndex(ctx, f, disk[watch[c].root][f])
                /\ f \in excused[c] => f \in excused'[c]

LEMMA WorkerCommits ==
    ASSUME ObservationInv, IndexInv', NEW c \in Contexts, NEW ctx, NEW rows \in Copies,
           Stores(c, ctx, rows)
    PROVE  ObservationInv' /\ RowsGrow
  <1> USE DEF ObservationInv, Stores
  <1> DEFINE w == watch[c]
             r == w.root
  <1>1. /\ TurnsInv' /\ watch'[c] = ctx /\ \A d \in Contexts \ {c} : watch'[d] = watch[d]
        /\ RootOf(current)' = RootOf(current) /\ current' = current
    BY TurnOfOne
  <1>2. UNCHANGED <<disk, survived, op, opCopy, target, current, savePc, saveCtx,
                    saveFile, saveExpected>>
    BY DEF WatchStep, operation, save
  <1>3. /\ r \in Roots /\ w.analysis = "worker"
        /\ \A d \in Contexts : /\ d # c /\ watch[d].root = r
                               => ~watch[d].on /\ watch[d].worker \notin Analysing
        /\ op \in {"scanning", "rescanning"} => target # r
        /\ c = current => op # "rescanning"
        /\ savePc = "written" => \/ RootOf(current) # r
                                 \/ <<RootOf(current), saveFile>> \in survived
        /\ current # 0 => RootOf(current) = watch[current].root
    BY WorkerIsAlone
  <1>4. ctx.root = r
    BY DEF StaysInTurn
  <1>5. UsesAreOpen /\ ReadersHaveRoots
    BY OpenWhenUsed, ReaderHasRoot
  <1> HIDE DEF r
  <1>6. Commits(r, rows)
    <2>1. \A f \in Files : rows[f] = index[r][f] \/ MayReplace(r, f, rows[f])
      BY DEF GrowthInv, r
    <2>2. ASSUME NEW d \in Contexts
          PROVE  /\ watch'[d].root = watch[d].root /\ watch'[d].on = watch[d].on
                 /\ \A f \in Files :
                       /\ watch'[d].copy[f] \in {0, watch[d].copy[f]}
                       /\ Told(watch[d], f) => Told(watch'[d], f)
      BY <1>1, <1>4 DEF Unread, r
    <2>3. ASSUME NEW d \in Contexts, watch[d].root # r
          PROVE  excused'[d] = excused[d] /\ watch'[d] = watch[d]
      BY <1>1, <2>3 DEF r
    <2>4. ASSUME NEW d \in Contexts, watch[d].root = r, watch[d].on, NEW f \in Files
          PROVE  \/ rows[f] = disk[r][f] \/ WillIndex(watch'[d], f, disk[r][f])
                 \/ f \in excused'[d] \/ <<r, f>> \in survived
      <3>1. d = c
        BY <1>3, <2>4
      <3>2. CASE w.copy[f] # 0 /\ rows[f] = w.copy[f]
        <4>1. w.copy[f] = disk[r][f] \/ Told(w, f)
          BY <2>4, <3>1, <3>2 DEF SeenInv, r
        <4> QED
          BY <1>1, <3>1, <3>2, <4>1 DEF WillIndex
      <3>3. CASE /\ rows[f] = index[r][f]
                 /\ WillIndex(w, f, disk[r][f]) => WillIndex(ctx, f, disk[r][f])
                 /\ f \in excused[c] => f \in excused'[c]
        <4>1. rows[f] # disk[r][f] => Stale(c, f)
          BY <2>4, <3>1, <3>3 DEF Stale
        <4>2. Stale(c, f) => \/ WillIndex(w, f, disk[r][f]) \/ f \in excused[c]
                             \/ <<r, f>> \in survived
          BY OwedIsIndexed DEF SeenInv, StaleIsOwed, r
        <4> QED
          BY <1>1, <3>1, <3>3, <4>1, <4>2
      <3> QED
        BY <3>2, <3>3 DEF r
    <2> QED
      BY <1>1, <1>2, <2>1, <2>2, <2>3, <2>4 DEF Commits, r
  <1>7. Alone(r, rows)
    <2>1. ASSUME NEW d \in Contexts, watch'[d].root = r, NEW f \in Files
          PROVE  watch'[d].copy[f] = 0
      <3>1. CASE d = c
        BY <1>1, <3>1 DEF Unread
      <3>2. CASE d # c
        BY <1>1, <1>3, <1>5, <2>1, <3>2 DEF ReadersHaveRoots
      <3> QED
        BY <3>1, <3>2
    <2> QED
      BY <1>2, <1>3, <2>1 DEF Alone
  <1>8. OthersGoOn
    <2>1. ASSUME NEW f \in Files
          PROVE  \/ WillIndex(watch[current], f, disk[RootOf(current)][f])
                       => WillIndex(watch'[current], f, disk[RootOf(current)][f])
                 \/ /\ op' # "rescanning"
                    /\ savePc' = "written" => <<RootOf(current), saveFile>> \in survived
      <3>1. CASE current = 0
        BY <1>2, <1>5, <3>1 DEF UsesAreOpen
      <3>2. CASE current = c
        <4>1. RootOf(current) = r
          BY <1>3, <3>2 DEF Contexts, r
        <4> QED
          BY <1>2, <1>3, <3>2, <4>1
      <3>3. CASE current # 0 /\ current # c
        BY <1>1, <3>3, OpenHasRoot
      <3> QED
        BY <3>1, <3>2, <3>3
    <2> QED
      BY <1>2, <2>1 DEF OthersGoOn
  <1> QED
    BY <1>1, <1>3, <1>6, <1>7, <1>8, CommitKeeps

LEMMA StoringObserved ==
    ASSUME ObservationInv, IndexInv', NEW c \in Contexts,
           (\E g \in Files : DeltaCommit(c, g)) \/ WorkerReplaceAll(c)
    PROVE  ObservationInv' /\ RowsGrow
  <1> DEFINE w == watch[c]
  <1>1. w \in ContextRecords /\ InTurn(w) /\ excused \in [Contexts -> SUBSET Files]
    BY DEF ObservationInv, IndexInv, TypeOK, TurnsInv
  <1>2. w.worker \in Analysing
    BY DEF DeltaCommit, WorkerReplaceAll, Analysing
  <1>3. w.root \in Roots /\ w.analysis = "worker"
    BY <1>2, WorkerIsAlone
  <1>4. index \in [Roots -> Copies] /\ w.copy \in Copies
    BY <1>1 DEF ObservationInv, IndexInv, TypeOK, ContextRecords
  <1>5. ASSUME NEW g \in Files, DeltaCommit(c, g) PROVE ObservationInv' /\ RowsGrow
    <2> DEFINE rows == [index[w.root] EXCEPT ![g] = w.copy[g]]
    <2>1. PICK ctx \in {[w EXCEPT !.batch = {}, !.copy = Unread, !.analysis = "free",
                                  !.worker = "check"],
                        [w EXCEPT !.batch = @ \ {g}, !.copy = Unread]} :
             WatchStep(c, ctx) /\ (ctx.worker = "check" => w.batch = {g})
      BY <1>1, <1>5 DEF DeltaCommit, ContextRecords
    <2>2. /\ ctx.root = w.root /\ ctx.on = w.on /\ ctx.copy = Unread /\ ctx.rescan = w.rescan
          /\ ctx.overflowed = w.overflowed /\ ctx.events = w.events
          /\ ctx.callback = w.callback /\ ctx.queue = w.queue
          /\ \/ ctx.worker = "check" /\ ctx.batch = {}
             \/ ctx.worker = w.worker /\ ctx.analysis = w.analysis /\ ctx.batch = w.batch \ {g}
      BY <1>1, <2>1 DEF ContextRecords
    <2>3. /\ w.copy[g] # 0 /\ index' = [index EXCEPT ![w.root] = rows]
          /\ excused' = [excused EXCEPT ![c] = @ \ {g}]
      BY <1>5 DEF DeltaCommit, Transaction
    <2>4. /\ rows \in Copies /\ rows[g] = w.copy[g]
          /\ \A f \in Files \ {g} : rows[f] = index[w.root][f]
      BY <1>3, <1>4 DEF Copies
    <2> HIDE DEF rows
    <2>5. StaysInTurn(w, ctx)
      BY <1>1, <1>2, <1>3, <2>2 DEF StaysInTurn, InTurn, Analysing
    <2>6. /\ \A d \in Contexts \ {c} : excused'[d] = excused[d]
          /\ excused'[c] = excused[c] \ {g}
      BY <1>1, <2>3
    <2>7. \A f \in Files : Told(w, f) => Told(ctx, f)
      BY <2>2 DEF Told
    <2>8. w.batch \ {g} = ctx.batch
      BY <2>1, <2>2
    <2>9. \A f \in Files \ {g} : \A v : WillIndex(w, f, v) => WillIndex(ctx, f, v)
      BY <2>2, <2>7, <2>8 DEF WillIndex, Unread
    <2>10. \A f \in Files :
                /\ Told(w, f) => Told(ctx, f)
                /\ \/ w.copy[f] # 0 /\ rows[f] = w.copy[f]
                   \/ /\ rows[f] = index[w.root][f]
                      /\ WillIndex(w, f, disk[w.root][f])
                            => WillIndex(ctx, f, disk[w.root][f])
                      /\ f \in excused[c] => f \in excused'[c]
      BY <2>3, <2>4, <2>6, <2>7, <2>9
    <2>11. Stores(c, ctx, rows)
      BY <1>2, <2>1, <2>2, <2>3, <2>5, <2>6, <2>10 DEF Stores
    <2> QED
      BY <2>4, <2>11, WorkerCommits
  <1>6. CASE WorkerReplaceAll(c)
    <2> DEFINE ctx == [w EXCEPT !.copy = Unread, !.rescan = FALSE,
                                !.analysis = "free", !.worker = "check"]
    <2>1. /\ WatchStep(c, ctx) /\ excused' = [excused EXCEPT ![c] = {}]
          /\ index' = [index EXCEPT ![w.root] = w.copy] /\ \A f \in Files : w.copy[f] # 0
      BY <1>6 DEF WorkerReplaceAll, Transaction
    <2>2. /\ ctx.root = w.root /\ ctx.on = w.on /\ ctx.copy = Unread
          /\ ctx.overflowed = w.overflowed /\ ctx.events = w.events
          /\ ctx.callback = w.callback /\ ctx.queue = w.queue /\ ctx.worker = "check"
      BY <1>1 DEF ContextRecords
    <2> HIDE DEF ctx
    <2>3. StaysInTurn(w, ctx)
      BY <1>1, <1>3, <2>2 DEF StaysInTurn, InTurn, Analysing
    <2>4. \A d \in Contexts \ {c} : excused'[d] = excused[d]
      BY <1>1, <2>1
    <2>5. \A f \in Files : Told(w, f) => Told(ctx, f)
      BY <2>2 DEF Told
    <2>6. Stores(c, ctx, w.copy)
      BY <1>2, <2>1, <2>2, <2>3, <2>4, <2>5 DEF Stores
    <2> QED
      BY <1>4, <2>6, WorkerCommits
  <1> QED
    BY <1>5, <1>6

\* A context as it was, but for who holds its reservation.
Likewise(w, x) ==
    /\ x.root = w.root /\ x.on = w.on /\ x.events = w.events /\ x.callback = w.callback
    /\ x.queue = w.queue /\ x.overflowed = w.overflowed /\ x.worker = w.worker
    /\ x.batch = w.batch /\ x.rescan = w.rescan /\ x.copy = w.copy

LEMMA LikewiseFollows ==
    ASSUME ObservationInv, disk' = disk, NEW c \in Contexts, Likewise(watch[c], watch'[c])
    PROVE  Follows(c)
  <1>1. \A f \in Files : Told(watch'[c], f) <=> Told(watch[c], f)
    BY DEF Likewise, Told
  <1>2. \A f \in Files : \A v : WillIndex(watch'[c], f, v) <=> WillIndex(watch[c], f, v)
    BY <1>1 DEF Likewise, WillIndex
  <1>3. \A f \in Files : watch[c].on => \/ watch[c].copy[f] \in {0, disk[watch[c].root][f]}
                                        \/ Told(watch[c], f)
    BY DEF ObservationInv, SeenInv
  <1> QED
    BY <1>1, <1>2, <1>3 DEF Follows, Likewise

LEMMA ReservedLikewise ==
    ASSUME NEW w \in ContextRecords, NEW who
    PROVE  Likewise(w, [w EXCEPT !.analysis = who]) /\ [w EXCEPT !.analysis = who].analysis = who
  BY DEF Likewise, ContextRecords

LEMMA RestKeeps ==
    ASSUME ObservationInv, IndexInv', TurnsInv', RowsRest, PlansRest
    PROVE  ObservationInv' /\ RowsGrow
  <1>1. \A r \in Roots, f \in Files : index[r][f] \in Nat
    BY DEF ObservationInv, IndexInv, TypeOK, Copies
  <1>2. RowsGrow
    BY <1>1 DEF RowsRest, RowsGrow
  <1> QED
    BY <1>2, SeenKeeps, GrowthKeeps DEF ObservationInv

\* A rescan of the worker that failed is excused.
LEMMA WorkerScanFailsObserved ==
    ASSUME ObservationInv, IndexInv', NEW c \in Contexts, WorkerScanFails(c)
    PROVE  ObservationInv' /\ RowsGrow
  <1> DEFINE w == watch[c]
             ctx == [w EXCEPT !.copy = Unread, !.rescan = FALSE,
                              !.analysis = "free", !.worker = "idle"]
  <1>1. w \in ContextRecords /\ InTurn(w) /\ excused \in [Contexts -> SUBSET Files]
    BY DEF ObservationInv, IndexInv, TypeOK, TurnsInv
  <1>2. /\ w.worker \in Analysing /\ WatchStep(c, ctx) /\ index' = index
        /\ excused' = [excused EXCEPT ![c] = Files]
    BY DEF WorkerScanFails, Analysing, database
  <1>3. /\ ctx.root = w.root /\ ctx.on = w.on /\ ctx.copy = Unread
        /\ ctx.analysis = "free" /\ ctx.worker = "idle"
    BY <1>1 DEF ContextRecords
  <1> HIDE DEF ctx
  <1>4. /\ w.analysis = "worker" /\ (c = current => op # "rescanning")
        /\ savePc = "written" => \/ RootOf(current) # w.root
                                 \/ <<RootOf(current), saveFile>> \in survived
        /\ current # 0 => RootOf(current) = watch[current].root
    BY <1>2, WorkerIsAlone
  <1>5. StaysInTurn(w, ctx)
    BY <1>1, <1>3, <1>4 DEF StaysInTurn, InTurn, Analysing
  <1>6. /\ TurnsInv' /\ watch'[c] = ctx /\ \A d \in Contexts \ {c} : watch'[d] = watch[d]
        /\ RootOf(current)' = RootOf(current) /\ current' = current
    BY <1>2, <1>5, TurnOfOne
  <1>7. UNCHANGED <<disk, survived, op, opCopy, target, savePc, saveFile, saveExpected>>
    BY <1>2 DEF WatchStep, operation, save
  <1>8. Begins(c)
    <2>1. excused'[c] = Files
      BY <1>1, <1>2
    <2>2. c = current => current # 0
      BY DEF Contexts
    <2> QED
      BY <1>3, <1>4, <1>6, <1>7, <2>1, <2>2 DEF Begins
  <1>9. RowsRest
    <2>1. \A r \in Roots, f \in Files : disk[r][f] \in Nat
      BY DEF ObservationInv, IndexInv, TypeOK, Versions
    <2>2. ASSUME NEW d \in Contexts, d # c PROVE Follows(d) /\ excused[d] \subseteq excused'[d]
      <3>1. Likewise(watch[d], watch'[d])
        BY <1>6, <2>2 DEF Likewise
      <3> QED
        BY <1>1, <1>2, <1>7, <2>2, <3>1, LikewiseFollows
    <2> QED
      BY <1>2, <1>7, <1>8, <2>1, <2>2 DEF RowsRest
  <1>10. PlansRest
    BY <1>6, <1>7 DEF PlansRest
  <1> QED
    BY <1>6, <1>9, <1>10, RestKeeps

LEMMA WorkerObserved ==
    ASSUME ObservationInv, IndexInv', NEW c \in Contexts, WorkerNext(c)
    PROVE  ObservationInv' /\ RowsGrow
  BY CollectingObserved, PublishingObserved, ReadingObserved, StoringObserved,
     WorkerScanFailsObserved DEF WorkerNext

--------------------------------------------------------------------------------
(* The command.                                                            *)

\* It takes and returns reservations, and reads files for its scan.
CommandRests ==
    /\ UNCHANGED <<disk, index, excused, survived, savePc, saveCtx, saveFile, saveExpected>>
    /\ \A c \in Contexts :
          /\ Likewise(watch[c], watch'[c])
          /\ \/ watch'[c].analysis = watch[c].analysis
             \/ watch[c].analysis \in {"free", "command"}
    /\ \/ current' = current
       \/ op' # "rescanning" /\ savePc \notin {"reading", "written"}
    /\ op' = "rescanning" => watch'[current].analysis = "command"
    /\ op' \in {"scanning", "rescanning"} =>
          \A f \in Files : opCopy'[f] # 0 =>
             \/ opCopy'[f] = disk[target'][f]
             \/ opCopy'[f] = opCopy[f] /\ op = op' /\ target' = target
    /\ op' \notin {"scanning", "rescanning"} => opCopy' = Unread

LEMMA CommandRestsObserved ==
    ASSUME ObservationInv, IndexInv', CommandRests
    PROVE  ObservationInv' /\ RowsGrow
  <1> USE DEF CommandRests
  <1>1. UsesAreOpen
    BY OpenWhenUsed DEF ObservationInv
  <1>2. savePc \in {"reading", "written"} => current' = current /\ RootOf(current)' = RootOf(current)
    <2>1. savePc \in {"reading", "written"} => current \in Contexts /\ current # 0
      BY <1>1, OpenHasRoot DEF UsesAreOpen, ObservationInv
    <2> QED
      BY <2>1 DEF RootOf, Likewise
  <1>3. TurnsInv'
    <2>1. \A c \in Contexts : InTurn(watch'[c])
      BY DEF ObservationInv, TurnsInv, InTurn, Likewise, Analysing
    <2>2. savePc \in {"reserved", "reading", "written"} =>
             saveCtx \in Contexts /\ watch'[saveCtx].analysis = "save"
      BY <1>1 DEF ObservationInv, TurnsInv, UsesAreOpen
    <2>3. savePc \in {"reading", "written"} => RootOf(saveCtx)' = RootOf(saveCtx)
      BY <2>2 DEF RootOf, Likewise
    <2> QED
      BY <1>2, <2>1, <2>2, <2>3 DEF ObservationInv, TurnsInv
  <1>4. RowsRest
    <2>1. \A r \in Roots, f \in Files : disk[r][f] \in Nat
      BY DEF ObservationInv, IndexInv, TypeOK, Versions
    <2> QED
      BY <2>1, LikewiseFollows DEF RowsRest
  <1>5. PlansRest
    BY <1>2 DEF PlansRest
  <1> QED
    BY <1>3, <1>4, <1>5, RestKeeps

LEMMA WaitingCommandObserved ==
    ASSUME ObservationInv, IndexInv',
           \/ BeginRuntime \/ RuntimeRefuses \/ \E f \in Files : ScanFile(f)
           \/ WatcherFails \/ JoinOldWorker \/ Install \/ CompleteRuntime \/ CompleteTerminal
           \/ CancelTerminal
           \/ \E r \in Roots : RequestOpen(r)
           \/ RequestRescan
    PROVE  ObservationInv' /\ RowsGrow
  <1>1. UNCHANGED <<watch, index, disk, excused, survived, savePc, saveCtx, saveFile, saveExpected>>
    BY DEF BeginRuntime, RuntimeRefuses, ScanFile, WatcherFails, JoinOldWorker, Install,
           CompleteRuntime, CompleteTerminal, CancelTerminal, RequestOpen, RequestRescan,
           GateStep, QuietStep, CommandStep, OperationAt, save, database
  <1>2. \A c \in Contexts : Likewise(watch[c], watch'[c]) /\ watch'[c].analysis = watch[c].analysis
    BY <1>1 DEF Likewise
  <1>3. CASE \E f \in Files : ScanFile(f)
    <2>1. PICK g \in Files : ScanFile(g)
      BY <1>3
    <2>2. /\ op \in {"scanning", "rescanning"} /\ op' = op /\ target' = target
          /\ current' = current /\ opCopy' = [opCopy EXCEPT ![g] = disk[target][g]]
      BY <2>1 DEF ScanFile, QuietStep, CommandStep, OperationAt
    <2>3. opCopy \in Copies
      BY DEF ObservationInv, IndexInv, TypeOK
    <2>4. \A f \in Files : opCopy'[f] = disk[target][f] \/ opCopy'[f] = opCopy[f]
      BY <2>2, <2>3 DEF Copies
    <2>5. op' = "rescanning" => watch'[current].analysis = "command"
      BY <1>1, <2>2 DEF ObservationInv, TurnsInv
    <2>6. CommandRests
      BY <1>1, <1>2, <2>2, <2>4, <2>5 DEF CommandRests
    <2> QED
      BY <2>6, CommandRestsObserved
  <1>4. CASE Install
    <2>1. /\ op = "installing" /\ op' = "refreshing" /\ savePc \notin {"reading", "written"}
          /\ opCopy' = opCopy
      BY <1>4 DEF Install, QuietStep, CommandStep, OperationAt
    <2>2. opCopy = Unread
      BY <2>1 DEF ObservationInv, TurnsInv
    <2>3. CommandRests
      BY <1>1, <1>2, <2>1, <2>2 DEF CommandRests
    <2> QED
      BY <2>3, CommandRestsObserved
  <1>5. CASE \/ BeginRuntime \/ RuntimeRefuses \/ WatcherFails \/ JoinOldWorker
             \/ CompleteRuntime \/ CompleteTerminal \/ CancelTerminal
             \/ \E r \in Roots : RequestOpen(r)
             \/ RequestRescan
    <2>1. /\ op \notin {"scanning", "rescanning"} /\ op' \notin {"scanning", "rescanning"}
          /\ opCopy' = opCopy /\ current' = current
      BY <1>5 DEF BeginRuntime, RuntimeRefuses, WatcherFails, JoinOldWorker,
           CompleteRuntime, CompleteTerminal, CancelTerminal, RequestOpen, RequestRescan,
           GateStep, QuietStep, CommandStep, OperationAt
    <2>2. opCopy = Unread
      BY <2>1 DEF ObservationInv, TurnsInv
    <2>3. CommandRests
      BY <1>1, <1>2, <2>1, <2>2 DEF CommandRests
    <2> QED
      BY <2>3, CommandRestsObserved
  <1> QED
    BY <1>3, <1>4, <1>5

LEMMA ReleasingCommandObserved ==
    ASSUME ObservationInv, IndexInv', ScanFails \/ ReleasePrevious \/ Refresh \/ CancelRuntime
    PROVE  ObservationInv' /\ RowsGrow
  <1>1. UNCHANGED <<current, index, disk, excused, survived, savePc, saveCtx, saveFile, saveExpected>>
    BY DEF ScanFails, ReleasePrevious, Refresh, CancelRuntime,
           GateStep, QuietStep, CommandStep, OperationAt, save, database
  <1>2. op' \notin {"scanning", "rescanning"} /\ opCopy' = Unread
    <2>1. op' \notin {"scanning", "rescanning"}
          /\ \/ op \notin {"scanning", "rescanning"} /\ opCopy' = opCopy
             \/ opCopy' = Unread
      BY DEF ScanFails, ReleasePrevious, Refresh, CancelRuntime, GateStep, QuietStep,
             CommandStep, OperationAt
    <2> QED
      BY <2>1 DEF ObservationInv, TurnsInv
  <1>3. ASSUME NEW c \in Contexts
        PROVE  /\ Likewise(watch[c], watch'[c])
               /\ \/ watch'[c].analysis = watch[c].analysis
                  \/ watch[c].analysis = "command"
    <2>1. CASE watch'[c] = watch[c]
      BY <2>1 DEF Likewise
    <2>2. CASE watch' = Released /\ watch[c].analysis = "command"
      <3>1. watch'[c] = [watch[c] EXCEPT !.analysis = "free"]
        BY <2>2 DEF Released
      <3>2. watch[c] \in ContextRecords
        BY DEF ObservationInv, IndexInv, TypeOK
      <3> QED
        BY <2>2, <3>1, <3>2, ReservedLikewise
    <2>3. watch' = Released \/ watch' = watch
      BY DEF ScanFails, ReleasePrevious, Refresh, CancelRuntime
    <2>4. watch' = Released /\ watch[c].analysis # "command" => watch'[c] = watch[c]
      BY DEF Released
    <2> QED
      BY <2>1, <2>2, <2>3, <2>4
  <1>4. CommandRests
    BY <1>1, <1>2, <1>3 DEF CommandRests
  <1> QED
    BY <1>4, CommandRestsObserved

LEMMA WaitPreviousObserved ==
    ASSUME ObservationInv, IndexInv', WaitPrevious
    PROVE  ObservationInv' /\ RowsGrow
  <1>1. /\ UNCHANGED <<current, index, disk, excused, survived, savePc, saveCtx, saveFile,
                       saveExpected, opCopy, target>>
        /\ op = "waiting" /\ op' = IF target = RootOf(current) THEN "rescanning" ELSE "scanning"
    BY DEF WaitPrevious, QuietStep, CommandStep, OperationAt, save, database,
           ObservationInv, IndexInv, OperationInv
  <1>2. opCopy = Unread
    BY <1>1 DEF ObservationInv, TurnsInv
  <1>3. watch \in [Contexts -> ContextRecords]
    BY DEF ObservationInv, IndexInv, TypeOK
  <1>4. current # 0 => /\ current \in Contexts /\ watch[current].analysis = "free"
                       /\ watch' = [watch EXCEPT ![current] =
                                       [watch[current] EXCEPT !.analysis = "command"]]
    BY <1>3, OpenHasRoot DEF WaitPrevious, ObservationInv
  <1>5. ASSUME NEW c \in Contexts
        PROVE  /\ Likewise(watch[c], watch'[c])
               /\ \/ watch'[c].analysis = watch[c].analysis
                  \/ watch[c].analysis = "free"
    <2>1. CASE current # 0 /\ c = current
      BY <1>3, <1>4, <2>1, ReservedLikewise
    <2>2. CASE ~(current # 0 /\ c = current)
      <3>1. watch'[c] = watch[c]
        BY <1>3, <1>4, <2>2 DEF WaitPrevious
      <3> QED
        BY <3>1 DEF Likewise
    <2> QED
      BY <2>1, <2>2
  <1>6. op' = "rescanning" => watch'[current].analysis = "command"
    <2>1. target # "none"
      BY <1>1 DEF ObservationInv, IndexInv, OperationInv
    <2>2. op' = "rescanning" => current # 0
      BY <1>1, <2>1 DEF RootOf
    <2>3. current # 0 => /\ watch[current] \in ContextRecords
                         /\ watch'[current] = [watch[current] EXCEPT !.analysis = "command"]
      BY <1>3, <1>4
    <2> QED
      BY <2>2, <2>3, ReservedLikewise
  <1>7. CommandRests
    BY <1>1, <1>2, <1>5, <1>6 DEF CommandRests, Unread
  <1> QED
    BY <1>7, CommandRestsObserved

\* Its own scan is committed to a root that nobody watches yet, the rescan under the
\* reservation of the open context.
LEMMA CommittingCommandObserved ==
    ASSUME ObservationInv, IndexInv', CommitScan \/ CommitRescan
    PROVE  ObservationInv' /\ RowsGrow
  <1> USE DEF ObservationInv
  <1>1. /\ UNCHANGED <<watch, current, disk, survived, savePc, saveCtx, saveFile, saveExpected,
                       target>>
        /\ op \in {"scanning", "rescanning"} /\ op' \notin {"scanning", "rescanning"}
        /\ opCopy' = Unread /\ index' = [index EXCEPT ![target] = opCopy]
    BY DEF CommitScan, CommitRescan, CommandStep, OperationAt, Transaction, save
  <1>2. target \in Roots /\ opCopy \in Copies /\ UsesAreOpen /\ ReadersHaveRoots
    BY <1>1, OpenWhenUsed, ReaderHasRoot DEF UsesAreOpen, IndexInv, TypeOK
  <1>3. RootOf(current)' = RootOf(current)
    BY <1>1 DEF RootOf
  <1>4. TurnsInv'
    <2>1. RootOf(saveCtx)' = RootOf(saveCtx)
      BY <1>1 DEF RootOf
    <2> QED
      BY <1>1, <1>3, <2>1 DEF TurnsInv
  <1>5. op \notin Installing
    BY <1>1 DEF Installing
  <1>6. ASSUME NEW c \in Contexts, watch[c].root = target, watch[c].on \/ watch[c].worker \in Analysing
        PROVE  c = current /\ op = "rescanning"
    <2>1. c = current
      BY <1>5, <1>6, WhoIsAlive DEF Analysing
    <2>2. RootOf(current) = target
      BY <1>6, <2>1 DEF RootOf, Contexts
    <2> QED
      BY <1>1, <2>1, <2>2 DEF IndexInv, OperationInv
  <1>7. op = "rescanning" => /\ excused' = [excused EXCEPT ![current] = {}]
                             /\ watch[current].analysis = "command"
                             /\ current \in Contexts /\ target = watch[current].root
                             /\ target = RootOf(current)
    <2>1. op = "rescanning" => current # 0 /\ target = RootOf(current)
      BY <1>2 DEF UsesAreOpen
    <2> QED
      BY <2>1, OpenHasRoot DEF CommitScan, CommitRescan, TurnsInv
  <1>8. op = "scanning" => excused' = excused /\ target # RootOf(current)
    BY DEF CommitScan, CommitRescan, IndexInv, OperationInv
  <1>9. Commits(target, opCopy)
    <2>1. \A f \in Files : MayReplace(target, f, opCopy[f])
      BY <1>1 DEF GrowthInv, CommitScan, CommitRescan
    <2>2. ASSUME NEW c \in Contexts, watch[c].root # target PROVE excused'[c] = excused[c]
      BY <1>1, <1>7, <1>8, <2>2 DEF IndexInv, TypeOK
    <2>3. ASSUME NEW c \in Contexts, watch[c].root = target, watch[c].on, NEW f \in Files
          PROVE  opCopy[f] = disk[target][f] \/ WillIndex(watch'[c], f, disk[target][f])
      <3>1. c = current /\ op = "rescanning"
        BY <1>6, <2>3
      <3>2. opCopy[f] # 0
        BY DEF CommitScan, CommitRescan
      <3> QED
        BY <1>1, <2>3, <3>1, <3>2 DEF SeenInv
    <2> QED
      BY <1>1, <1>3, <2>1, <2>2, <2>3 DEF Commits
  <1>10. Alone(target, opCopy)
    <2>1. ASSUME NEW c \in Contexts, watch'[c].root = target, NEW f \in Files, watch'[c].copy[f] # 0
          PROVE  FALSE
      <3>1. watch[c].worker \in Analysing
        BY <1>1, <1>2, <2>1 DEF ReadersHaveRoots
      <3>2. c = current /\ op = "rescanning" /\ watch[c].analysis = "worker"
        BY <1>1, <1>6, <2>1, <3>1 DEF TurnsInv, InTurn
      <3> QED
        BY <1>7, <3>2
    <2>2. savePc = "written" => \/ RootOf(current) # target
                                \/ <<RootOf(current), saveFile>> \in survived
      <3>1. savePc = "written" => /\ watch[saveCtx].analysis = "save"
                                  /\ \/ saveCtx = current
                                     \/ <<RootOf(current), saveFile>> \in survived
        BY DEF TurnsInv
      <3> QED
        BY <1>1, <1>7, <1>8, <3>1
    <2> QED
      BY <1>1, <2>1, <2>2 DEF Alone
  <1>11. OthersGoOn
    BY <1>1 DEF OthersGoOn
  <1> QED
    BY <1>2, <1>4, <1>9, <1>10, <1>11, CommitKeeps

\* The native watcher of the context that is left is dropped: it owes nothing more.
LEMMA DropOldWatcherObserved ==
    ASSUME ObservationInv, IndexInv', DropOldWatcher
    PROVE  ObservationInv' /\ RowsGrow
  <1> USE DEF ObservationInv
  <1>1. /\ UNCHANGED <<current, index, disk, excused, survived, savePc, saveCtx, saveFile,
                       saveExpected, opCopy, target>>
        /\ op = "dropping" /\ op' = "joining"
    BY DEF DropOldWatcher, QuietStep, CommandStep, OperationAt, save, database
  <1>2. current \in Contexts /\ current # 0 /\ watch \in [Contexts -> ContextRecords]
    BY <1>1, OpenHasRoot DEF IndexInv, OperationInv, TypeOK
  <1> DEFINE x == [watch[current] EXCEPT !.on = FALSE, !.events = {}]
  <1>3. watch' = [watch EXCEPT ![current] = x]
    BY <1>2 DEF DropOldWatcher
  <1>4. /\ x.root = watch[current].root /\ x.on = FALSE /\ x.copy = watch[current].copy
        /\ x.worker = watch[current].worker /\ x.analysis = watch[current].analysis
    BY <1>2 DEF ContextRecords
  <1> HIDE DEF x
  <1>5. ASSUME NEW c \in Contexts
        PROVE  /\ watch'[c].root = watch[c].root /\ watch'[c].analysis = watch[c].analysis
               /\ watch'[c].worker = watch[c].worker /\ watch'[c].copy = watch[c].copy
               /\ watch'[c].on => watch[c].on
               /\ c # current => watch'[c] = watch[c]
               /\ c = current => ~watch'[c].on
    BY <1>2, <1>3, <1>4
  <1>6. UsesAreOpen
    BY OpenWhenUsed
  <1>7. RootOf(current)' = RootOf(current) /\ (savePc # "idle" => RootOf(saveCtx)' = RootOf(saveCtx))
    BY <1>1, <1>2, <1>5, <1>6 DEF RootOf, UsesAreOpen
  <1>8. TurnsInv'
    <2>1. \A c \in Contexts : InTurn(watch'[c])
      BY <1>5 DEF TurnsInv, InTurn
    <2>2. savePc \in {"reserved", "reading", "written"} => watch'[saveCtx].analysis = "save"
      BY <1>5, <1>6 DEF TurnsInv, UsesAreOpen
    <2> QED
      BY <1>1, <1>7, <2>1, <2>2 DEF TurnsInv
  <1>9. RowsRest
    <2>1. \A r \in Roots, f \in Files : disk[r][f] \in Nat
      BY DEF IndexInv, TypeOK, Versions
    <2>2. ASSUME NEW c \in Contexts PROVE Follows(c)
      <3>1. CASE c = current
        BY <1>5, <3>1 DEF Follows
      <3>2. CASE c # current
        <4>1. Likewise(watch[c], watch'[c])
          BY <1>5, <3>2 DEF Likewise
        <4> QED
          BY <1>1, <4>1, LikewiseFollows
      <3> QED
        BY <3>1, <3>2
    <2> QED
      BY <1>1, <2>1, <2>2 DEF RowsRest
  <1>10. PlansRest
    BY <1>1, <1>7 DEF PlansRest, TurnsInv
  <1> QED
    BY <1>8, <1>9, <1>10, RestKeeps

\* The next context is watched: what its opening scan missed is excused.
LEMMA StartWatcherObserved ==
    ASSUME ObservationInv, IndexInv', StartWatcher
    PROVE  ObservationInv' /\ RowsGrow
  <1> USE DEF ObservationInv
  <1> DEFINE d == opens + 1
             x == [FreshContext EXCEPT !.root = target, !.on = TRUE, !.worker = "idle"]
  <1>1. /\ UNCHANGED <<current, index, disk, survived, savePc, saveCtx, saveFile,
                       saveExpected, opCopy, target>>
        /\ op = "watching" /\ op' = "releasing" /\ opens' = d
    BY DEF StartWatcher, CommandStep, OperationAt, save, database
  <1>2. /\ current \in 0..opens /\ saveCtx \in 0..opens /\ opens \in Nat /\ opens' \in 0..MaxRequests
        /\ MaxRequests \in Nat /\ watch \in [Contexts -> ContextRecords]
        /\ excused \in [Contexts -> SUBSET Files]
    <2>1. TypeOK /\ TypeOK'
      BY DEF IndexInv
    <2>2. MaxRequests \in Nat
      BY IndexAssumption
    <2>3. opens \in 0..MaxRequests /\ opens' \in 0..MaxRequests
      BY <2>1 DEF TypeOK
    <2>4. /\ current \in 0..opens /\ saveCtx \in 0..opens
          /\ watch \in [Contexts -> ContextRecords] /\ excused \in [Contexts -> SUBSET Files]
      BY <2>1 DEF TypeOK
    <2> QED
      BY <2>2, <2>3, <2>4
  <1>3. d \in Contexts /\ d > opens /\ d # current /\ d # saveCtx
    BY <1>1, <1>2 DEF Contexts
  <1>4. watch[d] = FreshContext
    BY <1>3 DEF IndexInv, WorkerInv
  <1>5. /\ watch' = [watch EXCEPT ![d] = x]
        /\ excused' = [excused EXCEPT ![d] = {f \in Files : index[target][f] # disk[target][f]}]
    BY <1>2, <1>3, <1>4 DEF StartWatcher
  <1>6. /\ x.root = target /\ x.on = TRUE /\ x.worker = "idle" /\ x.copy = Unread
        /\ x.analysis = "free"
    BY DEF FreshContext
  <1> HIDE DEF x
  <1>7. /\ watch'[d] = x /\ \A c \in Contexts \ {d} : watch'[c] = watch[c] /\ excused'[c] = excused[c]
        /\ excused'[d] = {f \in Files : index[target][f] # disk[target][f]}
    BY <1>2, <1>3, <1>5
  <1> HIDE DEF d
  <1>8. /\ current # 0 => current \in Contexts
        /\ savePc # "idle" => saveCtx \in Contexts
        /\ UsesAreOpen
    BY OpenHasRoot, OpenWhenUsed DEF UsesAreOpen
  <1>9. RootOf(current)' = RootOf(current) /\ (savePc # "idle" => RootOf(saveCtx)' = RootOf(saveCtx))
    BY <1>1, <1>3, <1>7, <1>8 DEF RootOf
  <1>10. TurnsInv'
    <2>1. \A c \in Contexts : InTurn(watch'[c])
      BY <1>6, <1>7 DEF TurnsInv, InTurn, Analysing
    <2>2. savePc \in {"reserved", "reading", "written"} => watch'[saveCtx].analysis = "save"
      BY <1>3, <1>7, <1>8 DEF TurnsInv
    <2> QED
      BY <1>1, <1>9, <2>1, <2>2 DEF TurnsInv
  <1>11. RowsRest
    <2>1. \A r \in Roots, f \in Files : disk[r][f] \in Nat
      BY DEF IndexInv, TypeOK, Versions
    <2>2. Begins(d)
      BY <1>1, <1>3, <1>6, <1>7 DEF Begins
    <2>3. ASSUME NEW c \in Contexts, c # d PROVE Follows(c) /\ excused[c] \subseteq excused'[c]
      <3>1. Likewise(watch[c], watch'[c])
        BY <1>7, <2>3 DEF Likewise
      <3> QED
        BY <1>1, <1>7, <2>3, <3>1, LikewiseFollows
    <2> QED
      BY <1>1, <2>1, <2>2, <2>3 DEF RowsRest
  <1>12. PlansRest
    BY <1>1, <1>9 DEF PlansRest, TurnsInv
  <1> QED
    BY <1>10, <1>11, <1>12, RestKeeps

LEMMA CommandObserved ==
    ASSUME ObservationInv, IndexInv', CommandNext
    PROVE  ObservationInv' /\ RowsGrow
  BY WaitingCommandObserved, ReleasingCommandObserved, CommittingCommandObserved,
     WaitPreviousObserved, DropOldWatcherObserved, StartWatcherObserved DEF CommandNext

--------------------------------------------------------------------------------
(* Saves, the disk and the user.                                           *)

\* Every watcher of the root is told of the change.
LEMMA ReportedFollow ==
    ASSUME ObservationInv, NEW r \in Roots, NEW f \in Files, watch' = Reported(r, f),
           disk' = [disk EXCEPT ![r][f] = @ + 1]
    PROVE  /\ \A c \in Contexts :
                 /\ Follows(c) /\ watch'[c].root = watch[c].root
                 /\ watch'[c].analysis = watch[c].analysis /\ InTurn(watch'[c])
           /\ \A s \in Roots, g \in Files : disk[s][g] <= disk'[s][g]
           /\ disk'[r][f] = disk[r][f] + 1
  <1> USE DEF ObservationInv
  <1>1. disk \in [Roots -> [Files -> Versions]] /\ watch \in [Contexts -> ContextRecords]
    BY DEF IndexInv, TypeOK
  <1>2. \A s \in Roots, g \in Files : disk[s][g] \in Nat
    BY <1>1 DEF Versions
  <1>3. \A s, g : s \in Roots /\ g \in Files =>
           disk'[s][g] = IF s = r /\ g = f THEN disk[s][g] + 1 ELSE disk[s][g]
    BY <1>1
  <1>4. ASSUME NEW s, s # r PROVE disk'[s] = disk[s]
    BY <1>1, <1>4
  <1>5. ASSUME NEW c \in Contexts
        PROVE  /\ Follows(c) /\ watch'[c].root = watch[c].root
               /\ watch'[c].analysis = watch[c].analysis /\ InTurn(watch'[c])
    <2> DEFINE w == watch[c]
    <2>0. InTurn(w)
      BY DEF TurnsInv
    <2>1. CASE w.on /\ w.root = r
      <3> DEFINE x == [w EXCEPT !.events = @ \cup {f}]
      <3>1. watch'[c] = x
        BY <2>1 DEF Reported
      <3>2. /\ x.root = w.root /\ x.on = w.on /\ x.events = w.events \cup {f}
            /\ x.callback = w.callback /\ x.queue = w.queue /\ x.overflowed = w.overflowed
            /\ x.worker = w.worker /\ x.batch = w.batch /\ x.rescan = w.rescan
            /\ x.copy = w.copy /\ x.analysis = w.analysis
        BY <1>1 DEF ContextRecords
      <3> HIDE DEF x
      <3>3. \A g \in Files : Told(w, g) => Told(x, g)
        BY <3>2 DEF Told
      <3>4. Told(x, f)
        BY <3>2 DEF Told
      <3>5. ASSUME NEW g \in Files, g # f
            PROVE  /\ disk'[r][g] = disk[r][g]
                   /\ WillIndex(w, g, disk[r][g]) => WillIndex(x, g, disk[r][g])
                   /\ x.copy[g] \in {0, disk[r][g]} \/ Told(x, g)
        <4>1. w.copy[g] \in {0, disk[w.root][g]} \/ Told(w, g)
          BY <2>1 DEF SeenInv
        <4> QED
          BY <1>3, <2>1, <3>2, <3>3, <3>5, <4>1 DEF WillIndex
      <3>6. Follows(c)
        BY <2>1, <3>1, <3>2, <3>4, <3>5 DEF Follows, WillIndex
      <3> QED
        BY <2>0, <3>1, <3>2, <3>6 DEF InTurn
    <2>2. CASE ~(w.on /\ w.root = r)
      <3>1. watch'[c] = w
        BY <2>2 DEF Reported
      <3>2. ASSUME w.on PROVE disk'[w.root] = disk[w.root]
        BY <1>4, <2>2, <3>2
      <3>3. Follows(c)
        BY <3>1, <3>2 DEF Follows, SeenInv
      <3> QED
        BY <2>0, <3>1, <3>3
    <2> QED
      BY <2>1, <2>2
  <1> QED
    BY <1>2, <1>3, <1>5

LEMMA ChangeObserved ==
    ASSUME ObservationInv, IndexInv', NEW r \in Roots, NEW f \in Files, Change(r, f)
    PROVE  ObservationInv' /\ RowsGrow
  <1> USE DEF ObservationInv
  <1>1. /\ UNCHANGED <<current, index, excused, survived, savePc, saveCtx, saveFile,
                       saveExpected, opCopy, target, op>>
        /\ watch' = Reported(r, f) /\ disk' = [disk EXCEPT ![r][f] = @ + 1]
    BY DEF Change, save, database, operation
  <1>2. /\ \A c \in Contexts :
              /\ Follows(c) /\ watch'[c].root = watch[c].root
              /\ watch'[c].analysis = watch[c].analysis /\ InTurn(watch'[c])
        /\ \A s \in Roots, g \in Files : disk[s][g] <= disk'[s][g]
    BY <1>1, ReportedFollow
  <1>3. UsesAreOpen /\ (current # 0 => current \in Contexts)
    BY OpenWhenUsed, OpenHasRoot
  <1>4. RootOf(current)' = RootOf(current) /\ (savePc # "idle" => RootOf(saveCtx)' = RootOf(saveCtx))
    BY <1>1, <1>2, <1>3 DEF RootOf, UsesAreOpen
  <1>5. TurnsInv'
    <2>1. /\ op = "rescanning" => watch'[current].analysis = "command"
          /\ savePc \in {"reserved", "reading", "written"} => watch'[saveCtx].analysis = "save"
      BY <1>2, <1>3 DEF TurnsInv, UsesAreOpen
    <2> QED
      BY <1>1, <1>2, <1>4, <2>1 DEF TurnsInv
  <1>6. RowsRest
    BY <1>1, <1>2 DEF RowsRest
  <1>7. PlansRest
    BY <1>1, <1>4 DEF PlansRest
  <1> QED
    BY <1>5, <1>6, <1>7, RestKeeps

\* The steps of a save that leave the rows and the disk alone.
QuietSave ==
    /\ UNCHANGED <<disk, index, excused, survived, current, op, opCopy, target>>
    /\ \A c \in Contexts :
          /\ Likewise(watch[c], watch'[c])
          /\ \/ watch'[c].analysis = watch[c].analysis
             \/ watch[c].analysis = "free"
             \/ watch[c].analysis = "save" /\ c = saveCtx
    /\ savePc' \in {"idle", "waiting", "reserved", "reading"}
    /\ savePc' \in {"reserved", "reading"} => watch'[saveCtx'].analysis = "save"
    /\ savePc' = "reading" =>
          savePc = "reserved" /\ saveCtx' = saveCtx /\ RootOf(current) = RootOf(saveCtx)

LEMMA QuietSaveObserved ==
    ASSUME ObservationInv, IndexInv', QuietSave
    PROVE  ObservationInv' /\ RowsGrow
  <1> USE DEF ObservationInv, QuietSave
  <1>1. UsesAreOpen /\ (current # 0 => current \in Contexts)
    BY OpenWhenUsed, OpenHasRoot
  <1>2. TurnsInv'
    <2>1. \A c \in Contexts : InTurn(watch'[c])
      BY DEF TurnsInv, InTurn, Likewise, Analysing
    <2>2. op = "rescanning" => watch'[current].analysis = "command"
      BY <1>1 DEF TurnsInv, UsesAreOpen
    <2>3. RootOf(current)' = RootOf(current)
      BY <1>1 DEF RootOf, Likewise
    <2>4. savePc' = "reading" => RootOf(saveCtx)' = RootOf(saveCtx)
      BY <1>1 DEF RootOf, Likewise, UsesAreOpen
    <2> QED
      BY <2>1, <2>2, <2>3, <2>4 DEF TurnsInv
  <1>3. RowsRest
    <2>1. \A r \in Roots, f \in Files : disk[r][f] \in Nat
      BY DEF IndexInv, TypeOK, Versions
    <2> QED
      BY <2>1, LikewiseFollows DEF RowsRest
  <1>4. PlansRest
    BY DEF PlansRest
  <1> QED
    BY <1>2, <1>3, <1>4, RestKeeps

LEMMA QuietSavesObserved ==
    ASSUME ObservationInv, IndexInv',
           \/ SaveReserve \/ SaveRejected \/ SaveEnter \/ SaveIndexFails
           \/ \E f \in Files : StartSave(f)
    PROVE  ObservationInv' /\ RowsGrow
  <1> USE DEF ObservationInv
  <1>1. UNCHANGED <<disk, index, excused, survived, current, op, opCopy, target>>
    BY DEF SaveReserve, SaveRejected, SaveEnter, SaveIndexFails, StartSave, SaveEnds, SaveStep,
           operation, database
  <1>2. watch \in [Contexts -> ContextRecords] /\ UsesAreOpen
    BY OpenWhenUsed DEF IndexInv, TypeOK
  <1>3. CASE SaveEnter \/ \E f \in Files : StartSave(f)
    <2>1. /\ watch' = watch
          /\ \/ savePc = "reserved" /\ savePc' = "reading" /\ saveCtx' = saveCtx
                /\ RootOf(current) = RootOf(saveCtx)
             \/ savePc' = "waiting"
      BY <1>3 DEF SaveEnter, StartSave, SaveStep
    <2>2. \A c \in Contexts : Likewise(watch[c], watch'[c]) /\ watch'[c].analysis = watch[c].analysis
      BY <2>1 DEF Likewise
    <2>3. savePc = "reserved" => watch[saveCtx].analysis = "save"
      BY DEF TurnsInv
    <2>4. QuietSave
      BY <1>1, <2>1, <2>2, <2>3 DEF QuietSave
    <2> QED
      BY <2>4, QuietSaveObserved
  <1>4. ASSUME NEW who, saveCtx \in Contexts,
               watch' = [watch EXCEPT ![saveCtx].analysis = who]
        PROVE  /\ watch'[saveCtx].analysis = who
               /\ \A c \in Contexts : /\ Likewise(watch[c], watch'[c])
                                      /\ c # saveCtx => watch'[c].analysis = watch[c].analysis
    <2>1. watch'[saveCtx] = [watch[saveCtx] EXCEPT !.analysis = who]
          /\ watch[saveCtx] \in ContextRecords
      BY <1>2, <1>4
    <2>2. \A c \in Contexts \ {saveCtx} : watch'[c] = watch[c]
      BY <1>2, <1>4
    <2>3. \A c \in Contexts \ {saveCtx} : Likewise(watch[c], watch'[c])
      BY <2>2 DEF Likewise
    <2>4. Likewise(watch[saveCtx], watch'[saveCtx]) /\ watch'[saveCtx].analysis = who
      BY <2>1, ReservedLikewise
    <2> QED
      BY <2>2, <2>3, <2>4
  <1>5. CASE SaveReserve
    <2>1. /\ savePc = "waiting" /\ savePc' = "reserved" /\ watch[saveCtx].analysis = "free"
          /\ watch' = [watch EXCEPT ![saveCtx].analysis = "save"] /\ saveCtx' = saveCtx
      BY <1>5 DEF SaveReserve, SaveStep
    <2>2. saveCtx \in Contexts
      BY <1>2, <2>1 DEF UsesAreOpen
    <2>3. QuietSave
      BY <1>1, <1>4, <2>1, <2>2 DEF QuietSave
    <2> QED
      BY <2>3, QuietSaveObserved
  <1>6. CASE SaveRejected \/ SaveIndexFails
    <2>1. /\ savePc \in {"reserved", "reading", "written"} /\ savePc' = "idle"
          /\ watch' = [watch EXCEPT ![saveCtx].analysis = "free"]
      BY <1>6 DEF SaveRejected, SaveIndexFails, SaveEnds, SaveStep
    <2>2. saveCtx \in Contexts /\ watch[saveCtx].analysis = "save"
      BY <1>2, <2>1 DEF UsesAreOpen, TurnsInv
    <2>3. QuietSave
      BY <1>1, <1>4, <2>1, <2>2 DEF QuietSave
    <2> QED
      BY <2>3, QuietSaveObserved
  <1> QED
    BY <1>3, <1>5, <1>6

\* A save writes: the open context is told, unless the save is of an earlier opening,
\* and then it is remembered.
LEMMA SaveWriteObserved ==
    ASSUME ObservationInv, IndexInv', SaveWrite
    PROVE  ObservationInv' /\ RowsGrow
  <1> USE DEF ObservationInv
  <1> DEFINE r == RootOf(saveCtx)
  <1>1. /\ UNCHANGED <<current, index, excused, saveCtx, saveFile, saveExpected, opCopy, target, op>>
        /\ savePc = "reading" /\ savePc' = "written" /\ disk[r][saveFile] = saveExpected
        /\ watch' = Reported(r, saveFile) /\ disk' = [disk EXCEPT ![r][saveFile] = @ + 1]
        /\ survived' = IF saveCtx = current THEN survived ELSE survived \cup {<<r, saveFile>>}
    BY DEF SaveWrite, SaveStep, SaveUnchanged, save, database, operation
  <1>2. /\ saveCtx \in Contexts /\ r \in Roots /\ saveFile \in Files
        /\ r = RootOf(current) /\ watch[saveCtx].analysis = "save"
        /\ current \in Contexts
    BY <1>1, OpenWhenUsed, OpenHasRoot DEF UsesAreOpen, TurnsInv, IndexInv, TypeOK
  <1> HIDE DEF r
  <1>3. /\ \A c \in Contexts :
              /\ Follows(c) /\ watch'[c].root = watch[c].root
              /\ watch'[c].analysis = watch[c].analysis /\ InTurn(watch'[c])
        /\ \A s \in Roots, g \in Files : disk[s][g] <= disk'[s][g]
        /\ disk'[r][saveFile] = disk[r][saveFile] + 1
    BY <1>1, <1>2, ReportedFollow
  <1>4. RootOf(current)' = RootOf(current) /\ RootOf(saveCtx)' = r
    BY <1>1, <1>2, <1>3 DEF RootOf, r
  <1>5. TurnsInv'
    <2>1. /\ op = "rescanning" => watch'[current].analysis = "command"
          /\ watch'[saveCtx].analysis = "save"
      BY <1>2, <1>3 DEF TurnsInv
    <2>2. saveCtx = current \/ <<RootOf(current), saveFile>> \in survived'
      BY <1>1, <1>2
    <2> QED
      BY <1>1, <1>2, <1>3, <1>4, <2>1, <2>2 DEF TurnsInv
  <1>6. RowsRest
    BY <1>1, <1>3 DEF RowsRest
  <1>7. PlansRest
    BY <1>1, <1>2, <1>3, <1>4 DEF PlansRest
  <1> QED
    BY <1>5, <1>6, <1>7, RestKeeps

LEMMA SaveIndexObserved ==
    ASSUME ObservationInv, IndexInv', SaveIndex
    PROVE  ObservationInv' /\ RowsGrow
  <1> USE DEF ObservationInv
  <1> DEFINE r == RootOf(saveCtx)
             rows == [index[r] EXCEPT ![saveFile] = saveExpected + 1]
  <1>1. /\ UNCHANGED <<current, disk, excused, survived, saveFile, opCopy, target, op>>
        /\ savePc = "written" /\ savePc' = "idle" /\ index' = [index EXCEPT ![r] = rows]
        /\ watch' = [watch EXCEPT ![saveCtx].analysis = "free"]
    BY DEF SaveIndex, SaveEnds, SaveStep, Transaction, operation
  <1>2. /\ saveCtx \in Contexts /\ r \in Roots /\ saveFile \in Files /\ saveExpected \in Nat
        /\ r = RootOf(current) /\ watch[saveCtx].analysis = "save"
        /\ saveCtx = current \/ <<r, saveFile>> \in survived
        /\ current \in Contexts /\ r = watch[current].root
    BY <1>1, OpenWhenUsed, OpenHasRoot DEF UsesAreOpen, TurnsInv, IndexInv, TypeOK
  <1>3. watch \in [Contexts -> ContextRecords] /\ index \in [Roots -> Copies]
    BY DEF IndexInv, TypeOK
  <1>4. /\ rows \in Copies /\ rows[saveFile] = saveExpected + 1
        /\ \A f \in Files \ {saveFile} : rows[f] = index[r][f]
    BY <1>2, <1>3 DEF Copies
  <1> HIDE DEF r, rows
  <1>5. ASSUME NEW c \in Contexts
        PROVE  Likewise(watch[c], watch'[c]) /\ (c # saveCtx => watch'[c].analysis = watch[c].analysis)
    <2>1. c = saveCtx => watch'[c] = [watch[c] EXCEPT !.analysis = "free"]
      BY <1>1, <1>3
    <2>2. c # saveCtx => watch'[c] = watch[c]
      BY <1>1, <1>3
    <2>3. watch'[c] = watch[c] => Likewise(watch[c], watch'[c])
      BY DEF Likewise
    <2> QED
      BY <1>3, <2>1, <2>2, <2>3, ReservedLikewise
  <1>6. ASSUME NEW c \in Contexts, NEW f \in Files
        PROVE  /\ Told(watch[c], f) => Told(watch'[c], f)
               /\ \A v : WillIndex(watch[c], f, v) => WillIndex(watch'[c], f, v)
    BY <1>5 DEF Likewise, Told, WillIndex
  <1>7. RootOf(current)' = RootOf(current)
    BY <1>1, <1>2, <1>5 DEF RootOf, Likewise
  <1>8. TurnsInv'
    <2>1. \A c \in Contexts : InTurn(watch'[c])
      <3>1. ASSUME NEW c \in Contexts, c # saveCtx PROVE InTurn(watch'[c])
        BY <1>5, <3>1 DEF TurnsInv, InTurn, Likewise
      <3>2. InTurn(watch'[saveCtx])
        BY <1>2, <1>5 DEF TurnsInv, InTurn, Likewise
      <3> QED
        BY <3>1, <3>2
    <2>2. op = "rescanning" => watch'[current].analysis = "command"
      BY <1>2, <1>5 DEF TurnsInv
    <2> QED
      BY <1>1, <2>1, <2>2 DEF TurnsInv
  <1>9. ASSUME NEW c \in Contexts, watch[c].root = r, watch[c].on \/ watch[c].worker \in Analysing
        PROVE  c = current
    BY <1>2, <1>9, WhoIsAlive DEF Analysing
  <1>10. Commits(r, rows)
    <2>1. \A f \in Files : rows[f] = index[r][f] \/ MayReplace(r, f, rows[f])
      BY <1>1, <1>2, <1>4 DEF GrowthInv
    <2>2. ASSUME NEW c \in Contexts, watch[c].root = r, watch[c].on, NEW f \in Files
          PROVE  \/ rows[f] = disk[r][f] \/ WillIndex(watch'[c], f, disk[r][f])
                 \/ f \in excused[c] \/ <<r, f>> \in survived
      <3>1. c = current
        BY <1>9, <2>2
      <3>2. CASE f = saveFile
        <4>1. \/ disk[r][f] = saveExpected + 1 \/ WillIndex(watch[c], f, disk[r][f])
              \/ <<r, f>> \in survived
          BY <1>1, <1>2, <2>2, <3>1, <3>2 DEF SeenInv
        <4> QED
          BY <1>4, <1>6, <3>2, <4>1
      <3>3. CASE f # saveFile
        <4>1. rows[f] # disk[r][f] => Stale(c, f)
          BY <1>4, <2>2, <3>3 DEF Stale
        <4>2. Stale(c, f) => \/ WillIndex(watch[c], f, disk[r][f]) \/ f \in excused[c]
                             \/ <<r, f>> \in survived
          BY <2>2, OwedIsIndexed DEF SeenInv, StaleIsOwed
        <4> QED
          BY <1>6, <4>1, <4>2
      <3> QED
        BY <3>2, <3>3
    <2>3. ASSUME NEW c \in Contexts
          PROVE  /\ watch'[c].root = watch[c].root /\ watch'[c].on = watch[c].on
                 /\ watch'[c].copy = watch[c].copy
      BY <1>5 DEF Likewise
    <2> QED
      BY <1>1, <1>6, <1>7, <2>1, <2>2, <2>3 DEF Commits
  <1>11. Alone(r, rows)
    <2>1. ASSUME NEW c \in Contexts, watch'[c].root = r, NEW f \in Files, watch'[c].copy[f] # 0,
                 saveCtx = current
          PROVE  FALSE
      <3>1. watch[c].root = r /\ watch[c].copy[f] # 0
        BY <1>5, <2>1 DEF Likewise
      <3>2. watch[c].worker \in Analysing
        BY <3>1, ReaderHasRoot DEF ReadersHaveRoots
      <3>3. watch[c].analysis = "worker" /\ c = current
        BY <1>9, <3>1, <3>2 DEF TurnsInv, InTurn
      <3> QED
        BY <1>2, <2>1, <3>3
    <2>2. op \in {"scanning", "rescanning"} /\ saveCtx = current => target # r
      <3>1. op = "scanning" => target # RootOf(current)
        BY DEF IndexInv, OperationInv
      <3>2. op = "rescanning" => watch[current].analysis = "command"
        BY DEF TurnsInv
      <3> QED
        BY <1>2, <3>1, <3>2
    <2>3. \A f \in Files : rows[f] # index[r][f] /\ <<r, f>> \notin survived => saveCtx = current
      BY <1>2, <1>4
    <2> QED
      BY <1>1, <2>1, <2>2, <2>3 DEF Alone
  <1>12. OthersGoOn
    BY <1>1, <1>2, <1>6 DEF OthersGoOn
  <1> QED
    BY <1>2, <1>4, <1>8, <1>10, <1>11, <1>12, CommitKeeps

LEMMA CrashObserved ==
    ASSUME ObservationInv, IndexInv', Crash
    PROVE  ObservationInv' /\ RowsGrow
  <1>1. /\ UNCHANGED <<disk, index, survived>> /\ op' = "idle" /\ opCopy' = Unread
        /\ savePc' = "idle" /\ \A c \in Contexts : watch'[c] = FreshContext
    BY DEF Crash, database
  <1>2. /\ FreshContext.copy = Unread /\ ~FreshContext.on /\ FreshContext.worker = "none"
    BY DEF FreshContext
  <1>3. TurnsInv'
    BY <1>1, <1>2 DEF TurnsInv, InTurn, Analysing
  <1>4. RowsRest
    <2>1. \A r \in Roots, f \in Files : disk[r][f] \in Nat
      BY DEF ObservationInv, IndexInv, TypeOK, Versions
    <2>2. \A c \in Contexts : Begins(c)
      BY <1>1, <1>2 DEF Begins
    <2> QED
      BY <1>1, <2>1, <2>2 DEF RowsRest
  <1>5. PlansRest
    BY <1>1 DEF PlansRest
  <1> QED
    BY <1>3, <1>4, <1>5, RestKeeps

LEMMA InitIsObserved == Init => ObservationInv
  <1> SUFFICES ASSUME Init PROVE ObservationInv
    OBVIOUS
  <1>1. IndexInv
    BY InitHasInv
  <1>2. /\ FreshContext.copy = Unread /\ ~FreshContext.on /\ FreshContext.worker = "none"
        /\ \A f \in Files : Unread[f] = 0
    BY DEF FreshContext, Unread
  <1>3. /\ \A c \in Contexts : watch[c] = FreshContext
        /\ op = "idle" /\ opCopy = Unread /\ savePc = "idle"
        /\ \A r \in Roots, f \in Files : index[r][f] = 0 /\ disk[r][f] = 1
    BY <1>2 DEF Init
  <1> HIDE DEF Init
  <1>4. TurnsInv
    BY <1>2, <1>3 DEF TurnsInv, InTurn, Analysing
  <1>5. SeenInv
    BY <1>2, <1>3 DEF SeenInv, StaleIsOwed, Stale
  <1>6. GrowthInv
    BY <1>2, <1>3 DEF GrowthInv
  <1> QED
    BY <1>1, <1>4, <1>5, <1>6 DEF ObservationInv

LEMMA NextIsObserved == ObservationInv /\ [Next]_vars => ObservationInv' /\ RowsGrow
  <1> SUFFICES ASSUME ObservationInv, [Next]_vars PROVE ObservationInv' /\ RowsGrow
    OBVIOUS
  <1>0. IndexInv'
    BY NextKeepsInv DEF ObservationInv
  <1>1. CASE CommandNext
    BY <1>0, <1>1, CommandObserved
  <1>2. CASE SaveNext
    BY <1>0, <1>2, QuietSavesObserved, SaveWriteObserved, SaveIndexObserved DEF SaveNext
  <1>3. ASSUME NEW c \in Contexts, CallbackNext(c) \/ WorkerNext(c)
        PROVE  ObservationInv' /\ RowsGrow
    BY <1>0, <1>3, CallbackObserved, WorkerObserved
  <1>4. CASE UserNext
    BY <1>0, <1>4, WaitingCommandObserved, ChangeObserved, QuietSavesObserved, CrashObserved
       DEF UserNext
  <1>5. CASE UNCHANGED vars
    <2>1. UNCHANGED <<disk, index, watch, excused, survived, current, op, opCopy, target,
                      savePc, saveCtx, saveFile, saveExpected>>
      BY <1>5 DEF vars, operation, save, database
    <2>2. \A c \in Contexts : Likewise(watch[c], watch'[c]) /\ watch'[c].analysis = watch[c].analysis
      BY <2>1 DEF Likewise
    <2>3. /\ op = "rescanning" => watch[current].analysis = "command"
          /\ op \notin {"scanning", "rescanning"} => opCopy = Unread
      BY DEF ObservationInv, TurnsInv
    <2>4. CommandRests
      BY <2>1, <2>2, <2>3 DEF CommandRests
    <2> QED
      BY <1>0, <2>4, CommandRestsObserved
  <1> QED
    BY <1>1, <1>2, <1>3, <1>4, <1>5 DEF Next

\* watcher/worker.rs, commands/workspace.rs, commands/editor: who holds which reservation,
\* what each writer of the index has read, and what is still to be indexed, for any folders,
\* files, limits, requests, changes and crashes.
THEOREM ObservationHolds == Spec => []ObservationInv
  BY InitIsObserved, NextIsObserved, PTL DEF Spec

\* No change of a file of the open workspace is forgotten (watcher/worker.rs, batching.rs):
\* for any limits of the queue and of a batch, and any number of openings, rescans, saves,
\* failures and crashes.
THEOREM NoChangeIsForgotten == Spec => []StaleIsOwed
  <1>1. ObservationInv => StaleIsOwed
    BY DEF ObservationInv, SeenInv
  <1> QED
    BY <1>1, ObservationHolds, PTL

\* The reservations order the writers of the index: no row goes back
\* (watcher/README.md:35), unless a save of an earlier opening wrote the file.
THEOREM RowsNeverGoBack == Spec => IndexNeverGoesBack
  <1>1. ObservationInv /\ [Next]_vars
          => [\A r \in Roots, f \in Files :
                <<r, f>> \notin survived => index'[r][f] >= index[r][f]]_vars
    BY NextIsObserved DEF RowsGrow
  <1> QED
    BY <1>1, ObservationHolds, PTL DEF Spec, IndexNeverGoesBack

--------------------------------------------------------------------------------
(* Nobody waits in a circle.                                               *)

\* Who holds what: the store, from the query of a snapshot to its installation; a reservation,
\* as long as the worker analyses or the save goes on.  A worker that is told to end is not
\* watched any more, and every context that was opened has one.
HoldersInv ==
    /\ \A c \in Contexts :
          /\ watch[c].store = "worker" => watch[c].worker = "project"
          /\ watch[c].analysis = "worker" => watch[c].worker \in {"delta", "scanning"}
          /\ watch[c].worker = "delta" => watch[c].batch # {}
          /\ watch[c].worker = "none" => opens < c
          /\ watch[c].analysis = "save" =>
                savePc \in {"reserved", "reading", "written"} /\ saveCtx = c
    /\ saveCtx <= current
    /\ op = "joining" => ~watch[current].on

\* What lets each thread take its next step.
CommandMoves ==
    \/ op \in {"beginRuntime", "scanning", "watching", "releasing", "completeRuntime",
               "completeTerminal", "cancelRuntime", "cancelTerminal"}
    \/ op = "waiting" /\ (current = 0 \/ watch[current].analysis = "free")
    \/ op \in {"rescanning", "refreshing"} /\ watch[current].store = "free"
    \/ op = "dropping" /\ watch[current].callback = "idle"
    \/ op = "joining" /\ watch[current].worker = "ended"
    \/ op = "installing" /\ savePc \notin {"reading", "written"}
SaveMoves ==
    \/ savePc = "waiting" /\ watch[saveCtx].analysis = "free"
    \/ savePc = "reserved" /\ CanReadCurrent
    \/ savePc = "reading"
    \/ savePc = "written" /\ watch[saveCtx].store = "free"
CallbackMoves(w) == w.callback # "idle"
WorkerMoves(w) ==
    \/ w.worker = "idle" /\ (w.queue # <<>> \/ ~w.on)
    \/ w.worker \in {"collecting", "emit"}
    \/ w.worker = "waiting" /\ w.analysis = "free"
    \/ w.worker = "delta" /\ w.batch # {} /\ w.store = "free"
    \/ w.worker \in {"scanning", "snapshot", "pending", "ack"} /\ w.store = "free"
    \/ w.worker \in {"check", "project"} /\ CanReadCurrent

\* A command or a save that has not ended can go on, or waits for somebody who can.
SwitchNeverStalls ==
    op # "idle" \/ savePc # "idle" =>
        \/ CommandMoves \/ SaveMoves
        \/ current # 0 /\ (CallbackMoves(watch[current]) \/ WorkerMoves(watch[current]))

\* One context of HoldersInv, and what it may become.
HoldsRightly(w) ==
    /\ w.store = "worker" => w.worker = "project"
    /\ w.analysis = "worker" => w.worker \in {"delta", "scanning"}
    /\ w.worker = "delta" => w.batch # {}
GoesOn(w, x) ==
    /\ HoldsRightly(x)
    /\ x.worker = "none" => w.worker = "none"
    /\ x.analysis = "save" => w.analysis = "save"
    /\ x.on => w.on

\* A step of the callbacks, of the workers or of a command that takes or returns its own
\* reservations, as long as no worker is being waited for.
LEMMA HoldersGoOn ==
    ASSUME HoldersInv, IndexInv, \A c \in Contexts : GoesOn(watch[c], watch'[c]),
           UNCHANGED <<opens, current, savePc, saveCtx>>,
           op' = "joining" => op = "joining"
    PROVE  HoldersInv'
  <1>1. op = "joining" => current \in Contexts
    BY OpenHasRoot DEF IndexInv, OperationInv
  <1>2. \A c \in Contexts : HoldsRightly(watch'[c])
    BY DEF GoesOn
  <1> QED
    BY <1>1, <1>2 DEF HoldersInv, HoldsRightly, GoesOn

LEMMA ContextHolds ==
    ASSUME HoldersInv, IndexInv, NEW c \in Contexts, NEW ctx, WatchStep(c, ctx),
           GoesOn(watch[c], ctx)
    PROVE  HoldersInv'
  <1>0. watch \in [Contexts -> ContextRecords]
    BY DEF IndexInv, TypeOK
  <1>1. /\ watch' = [watch EXCEPT ![c] = ctx]
        /\ UNCHANGED <<opens, current, savePc, saveCtx, op>>
    BY DEF WatchStep, operation, save
  <1>2. \A d \in Contexts : GoesOn(watch[d], watch'[d])
    <2> SUFFICES ASSUME NEW d \in Contexts PROVE GoesOn(watch[d], watch'[d])
      OBVIOUS
    <2>1. CASE d = c
      BY <1>0, <1>1, <2>1
    <2>2. CASE d # c
      <3>1. watch'[d] = watch[d]
        BY <1>0, <1>1, <2>2
      <3> QED
        BY <3>1 DEF GoesOn, HoldsRightly, HoldersInv
    <2> QED
      BY <2>1, <2>2
  <1> QED
    BY <1>1, <1>2, HoldersGoOn

LEMMA CallbackHolds ==
    ASSUME HoldersInv, IndexInv, NEW c \in Contexts, CallbackNext(c)
    PROVE  HoldersInv'
  <1> DEFINE w == watch[c]
  <1>1. w \in ContextRecords /\ HoldsRightly(w)
    BY DEF HoldersInv, HoldsRightly, IndexInv, TypeOK
  <1>2. PICK ctx : /\ WatchStep(c, ctx) /\ ctx.store = w.store /\ ctx.worker = w.worker
                   /\ ctx.analysis = w.analysis /\ ctx.batch = w.batch /\ ctx.on = w.on
    <2>1. CASE \E f \in Files : Notify(c, f)
      <3>1. PICK f \in Files : Notify(c, f)
        BY <2>1
      <3>2. CASE Len(w.queue) < QueueCapacity
        <4> DEFINE x == [w EXCEPT !.events = @ \ {f}, !.queue = Append(@, {f})]
        <4>1. WatchStep(c, x)
          BY <3>1, <3>2 DEF Notify, CallbackStep
        <4>2. /\ x.store = w.store /\ x.worker = w.worker /\ x.analysis = w.analysis
              /\ x.batch = w.batch /\ x.on = w.on
          BY <1>1 DEF ContextRecords
        <4> QED
          BY <4>1, <4>2
      <3>3. CASE ~(Len(w.queue) < QueueCapacity)
        <4> DEFINE x == [w EXCEPT !.events = @ \ {f}, !.callback = "full"]
        <4>1. WatchStep(c, x)
          BY <3>1, <3>3 DEF Notify, CallbackStep
        <4>2. /\ x.store = w.store /\ x.worker = w.worker /\ x.analysis = w.analysis
              /\ x.batch = w.batch /\ x.on = w.on
          BY <1>1 DEF ContextRecords
        <4> QED
          BY <4>1, <4>2
      <3> QED
        BY <3>2, <3>3
    <2>2. CASE FlagOverflow(c)
      <3> DEFINE x == [w EXCEPT !.callback = "idle", !.overflowed = TRUE]
      <3>1. WatchStep(c, x)
        BY <2>2 DEF FlagOverflow, CallbackStep
      <3>2. /\ x.store = w.store /\ x.worker = w.worker /\ x.analysis = w.analysis
            /\ x.batch = w.batch /\ x.on = w.on
        BY <1>1 DEF ContextRecords
      <3> QED
        BY <3>1, <3>2
    <2>3. CASE NotifyMany(c)
      <3> DEFINE x == [w EXCEPT !.events = {}, !.overflowed = TRUE, !.callback = "bulk"]
      <3>1. WatchStep(c, x)
        BY <2>3 DEF NotifyMany, CallbackStep
      <3>2. /\ x.store = w.store /\ x.worker = w.worker /\ x.analysis = w.analysis
            /\ x.batch = w.batch /\ x.on = w.on
        BY <1>1 DEF ContextRecords
      <3> QED
        BY <3>1, <3>2
    <2>4. CASE SendEmpty(c)
      <3> DEFINE x == [w EXCEPT !.callback = "idle",
                         !.queue = IF Len(@) < QueueCapacity THEN Append(@, {}) ELSE @]
      <3>1. WatchStep(c, x)
        BY <2>4 DEF SendEmpty, CallbackStep
      <3>2. /\ x.store = w.store /\ x.worker = w.worker /\ x.analysis = w.analysis
            /\ x.batch = w.batch /\ x.on = w.on
        BY <1>1 DEF ContextRecords
      <3> QED
        BY <3>1, <3>2
    <2> QED
      BY <2>1, <2>2, <2>3, <2>4 DEF CallbackNext
  <1>3. GoesOn(w, ctx)
    BY <1>1, <1>2 DEF GoesOn, HoldsRightly
  <1> QED
    BY <1>2, <1>3, ContextHolds

\* The worker: it starts to analyse with the reservation and something to do, and it holds the
\* store from the query of the snapshot to its installation.
LEMMA WorkerHolds ==
    ASSUME HoldersInv, IndexInv, NEW c \in Contexts, WorkerNext(c)
    PROVE  HoldersInv'
  <1> DEFINE w == watch[c]
  <1>1. w \in ContextRecords /\ HoldsRightly(w) /\ Bounded(w)
    BY DEF HoldersInv, HoldsRightly, IndexInv, TypeOK, Bounded
  <1>2. CASE Receive(c) \/ Collect(c)
    <2> DEFINE Step(rescan) ==
                 \/ WatchStep(c, Extended(w, Head(w.queue), rescan))
                 \/ WatchStep(c, [Extended(w, Head(w.queue), rescan) EXCEPT
                                  !.overflowed = FALSE, !.worker = "collecting"])
    <2>0. /\ w.overflowed \in BOOLEAN /\ w.rescan \in BOOLEAN
          /\ w.worker \in {"idle", "collecting"} /\ w.queue # <<>>
          /\ Step(w.overflowed) \/ Step(w.rescan)
      <3>1. w.overflowed \in BOOLEAN /\ w.rescan \in BOOLEAN
        BY <1>1 DEF ContextRecords
      <3>2. Receive(c) => w.worker = "idle" /\ w.queue # <<>> /\ Step(w.overflowed)
        BY DEF Receive, CallbackStep
      <3>3. Collect(c) => w.worker = "collecting" /\ w.queue # <<>> /\ Step(w.rescan)
        BY DEF Collect, CallbackStep
      <3> HIDE DEF Step
      <3> QED
        BY <1>2, <3>1, <3>2, <3>3
    <2> HIDE DEF Step
    <2>1. PICK rescan \in BOOLEAN : Step(rescan)
      BY <2>0
    <2> DEFINE x == Extended(w, Head(w.queue), rescan)
               y == [x EXCEPT !.overflowed = FALSE, !.worker = "collecting"]
    <2>2. x \in ContextRecords /\ x.analysis = w.analysis
      BY <1>1, <2>0, ExtendedTypes
    <2>3. x.store = w.store /\ x.worker = w.worker /\ x.on = w.on
      BY <1>1 DEF Extended, ContextRecords
    <2>4. WatchStep(c, x) \/ WatchStep(c, y)
      BY <2>1 DEF Step
    <2> HIDE DEF x
    <2>5. y.store = x.store /\ y.analysis = x.analysis /\ y.on = x.on /\ y.worker = "collecting"
      BY <2>2 DEF ContextRecords
    <2> HIDE DEF y
    <2>6. GoesOn(w, x) /\ GoesOn(w, y)
      BY <1>1, <2>0, <2>2, <2>3, <2>5 DEF GoesOn, HoldsRightly
    <2> QED
      BY <2>4, <2>6, ContextHolds
  <1>3. CASE CollectEnds(c)
    <2> DEFINE x == [w EXCEPT !.rescan = w.rescan \/ w.overflowed, !.overflowed = FALSE,
                         !.batch = IF w.rescan \/ w.overflowed THEN {} ELSE @, !.worker = "waiting"]
    <2>1. WatchStep(c, x) /\ w.worker = "collecting"
      BY <1>3 DEF CollectEnds, CallbackStep
    <2>2. x.worker = "waiting" /\ x.store = w.store /\ x.analysis = w.analysis /\ x.on = w.on
      BY <1>1 DEF ContextRecords
    <2> HIDE DEF x
    <2>3. GoesOn(w, x)
      BY <1>1, <2>1, <2>2 DEF GoesOn, HoldsRightly
    <2> QED
      BY <2>1, <2>3, ContextHolds
  <1>4. CASE WorkerEnds(c)
    <2> DEFINE x == [w EXCEPT !.worker = "ended"]
    <2>1. WatchStep(c, x) /\ w.worker = "idle"
      BY <1>4 DEF WorkerEnds, CallbackStep
    <2>2. x.worker = "ended" /\ x.store = w.store /\ x.analysis = w.analysis /\ x.on = w.on
      BY <1>1 DEF ContextRecords
    <2> HIDE DEF x
    <2>3. GoesOn(w, x)
      BY <1>1, <2>1, <2>2 DEF GoesOn, HoldsRightly
    <2> QED
      BY <2>1, <2>3, ContextHolds
  <1>5. CASE Reserve(c)
    <2> DEFINE x == IF w.rescan THEN [w EXCEPT !.analysis = "worker", !.worker = "scanning"]
                    ELSE IF w.batch # {} THEN [w EXCEPT !.analysis = "worker", !.worker = "delta"]
                    ELSE [w EXCEPT !.worker = "idle"]
    <2>1. WatchStep(c, x) /\ w.worker = "waiting" /\ w.analysis = "free"
      BY <1>5 DEF Reserve, CallbackStep
    <2>2. /\ x.store = w.store /\ x.on = w.on /\ x.batch = w.batch
          /\ \/ x.analysis = "worker" /\ x.worker = "scanning"
             \/ x.analysis = "worker" /\ x.worker = "delta" /\ w.batch # {}
             \/ x.analysis = w.analysis /\ x.worker = "idle"
      BY <1>1 DEF ContextRecords
    <2> HIDE DEF x
    <2>3. GoesOn(w, x)
      BY <1>1, <2>1, <2>2 DEF GoesOn, HoldsRightly
    <2> QED
      BY <2>1, <2>3, ContextHolds
  <1>6. ASSUME NEW f \in Files, DeltaRead(c, f) PROVE HoldersInv'
    <2> DEFINE x == [w EXCEPT !.copy[f] = disk[w.root][f]]
    <2>1. WatchStep(c, x) /\ w.worker = "delta"
      BY <1>6 DEF DeltaRead, CallbackStep
    <2>2. /\ x.worker = w.worker /\ x.store = w.store /\ x.analysis = w.analysis
          /\ x.on = w.on /\ x.batch = w.batch
      BY <1>1 DEF ContextRecords
    <2> HIDE DEF x
    <2>3. GoesOn(w, x)
      BY <1>1, <2>1, <2>2 DEF GoesOn, HoldsRightly
    <2> QED
      BY <2>1, <2>3, ContextHolds
  <1>7. ASSUME NEW f \in Files, DeltaCommit(c, f) PROVE HoldersInv'
    <2> DEFINE x == IF w.batch = {f}
                    THEN [w EXCEPT !.batch = {}, !.copy = Unread, !.analysis = "free",
                                   !.worker = "check"]
                    ELSE [w EXCEPT !.batch = @ \ {f}, !.copy = Unread]
    <2>1. WatchStep(c, x) /\ w.worker = "delta"
      BY <1>7 DEF DeltaCommit
    <2>2. /\ x.store = w.store /\ x.on = w.on
          /\ \/ x.analysis = "free" /\ x.worker = "check"
             \/ /\ x.analysis = w.analysis /\ x.worker = "delta"
                /\ x.batch = w.batch \ {f} /\ w.batch # {f}
      BY <1>1, <2>1 DEF ContextRecords
    <2> HIDE DEF x
    <2>3. GoesOn(w, x)
      BY <1>1, <2>1, <2>2 DEF GoesOn, HoldsRightly
    <2> QED
      BY <2>1, <2>3, ContextHolds
  <1>8. CASE DeltaFails(c)
    <2> DEFINE x == [w EXCEPT !.batch = {}, !.copy = Unread, !.rescan = TRUE, !.analysis = "free",
                              !.worker = "waiting"]
    <2>1. WatchStep(c, x) /\ w.worker = "delta"
      BY <1>8 DEF DeltaFails, CallbackStep
    <2>2. x.worker = "waiting" /\ x.analysis = "free" /\ x.store = w.store /\ x.on = w.on
      BY <1>1 DEF ContextRecords
    <2> HIDE DEF x
    <2>3. GoesOn(w, x)
      BY <1>1, <2>1, <2>2 DEF GoesOn, HoldsRightly
    <2> QED
      BY <2>1, <2>3, ContextHolds
  <1>9. ASSUME NEW f \in Files, WorkerScan(c, f) PROVE HoldersInv'
    <2> DEFINE x == [w EXCEPT !.copy[f] = disk[w.root][f]]
    <2>1. WatchStep(c, x) /\ w.worker = "scanning"
      BY <1>9 DEF WorkerScan, CallbackStep
    <2>2. x.worker = w.worker /\ x.store = w.store /\ x.analysis = w.analysis /\ x.on = w.on
      BY <1>1 DEF ContextRecords
    <2> HIDE DEF x
    <2>3. GoesOn(w, x)
      BY <1>1, <2>1, <2>2 DEF GoesOn, HoldsRightly
    <2> QED
      BY <2>1, <2>3, ContextHolds
  <1>10. CASE WorkerReplaceAll(c)
    <2> DEFINE x == [w EXCEPT !.copy = Unread, !.rescan = FALSE, !.analysis = "free",
                              !.worker = "check"]
    <2>1. WatchStep(c, x) /\ w.worker = "scanning"
      BY <1>10 DEF WorkerReplaceAll, CallbackStep
    <2>2. x.worker = "check" /\ x.analysis = "free" /\ x.store = w.store /\ x.on = w.on
      BY <1>1 DEF ContextRecords
    <2> HIDE DEF x
    <2>3. GoesOn(w, x)
      BY <1>1, <2>1, <2>2 DEF GoesOn, HoldsRightly
    <2> QED
      BY <2>1, <2>3, ContextHolds
  <1>11. CASE WorkerScanFails(c)
    <2> DEFINE x == [w EXCEPT !.copy = Unread, !.rescan = FALSE, !.analysis = "free",
                              !.worker = "idle"]
    <2>1. WatchStep(c, x) /\ w.worker = "scanning"
      BY <1>11 DEF WorkerScanFails, CallbackStep
    <2>2. x.worker = "idle" /\ x.analysis = "free" /\ x.store = w.store /\ x.on = w.on
      BY <1>1 DEF ContextRecords
    <2> HIDE DEF x
    <2>3. GoesOn(w, x)
      BY <1>1, <2>1, <2>2 DEF GoesOn, HoldsRightly
    <2> QED
      BY <2>1, <2>3, ContextHolds
  <1>12. CASE CheckCurrent(c)
    <2> DEFINE x == [w EXCEPT !.worker = IF RootOf(current) = w.root THEN "snapshot" ELSE "idle"]
    <2>1. WatchStep(c, x) /\ w.worker = "check"
      BY <1>12 DEF CheckCurrent, CallbackStep
    <2>2. /\ x.worker \in {"snapshot", "idle"} /\ x.store = w.store /\ x.on = w.on
          /\ x.analysis = w.analysis
      BY <1>1 DEF ContextRecords
    <2> HIDE DEF x
    <2>3. GoesOn(w, x)
      BY <1>1, <2>1, <2>2 DEF GoesOn, HoldsRightly
    <2> QED
      BY <2>1, <2>3, ContextHolds
  <1>13. CASE QuerySnapshot(c)
    <2> DEFINE x == [w EXCEPT !.store = "worker", !.worker = "project"]
    <2>1. WatchStep(c, x) /\ w.worker = "snapshot"
      BY <1>13 DEF QuerySnapshot, CallbackStep
    <2>2. x.worker = "project" /\ x.on = w.on /\ x.analysis = w.analysis
      BY <1>1 DEF ContextRecords
    <2> HIDE DEF x
    <2>3. GoesOn(w, x)
      BY <1>1, <2>1, <2>2 DEF GoesOn, HoldsRightly
    <2> QED
      BY <2>1, <2>3, ContextHolds
  <1>14. CASE ProjectSnapshot(c)
    <2> DEFINE x == [w EXCEPT !.store = "free", !.worker = "pending"]
    <2>1. WatchStep(c, x) /\ w.worker = "project"
      BY <1>14 DEF ProjectSnapshot, CallbackStep
    <2>2. x.worker = "pending" /\ x.store = "free" /\ x.on = w.on /\ x.analysis = w.analysis
      BY <1>1 DEF ContextRecords
    <2> HIDE DEF x
    <2>3. GoesOn(w, x)
      BY <1>1, <2>1, <2>2 DEF GoesOn, HoldsRightly
    <2> QED
      BY <2>1, <2>3, ContextHolds
  <1>15. CASE ReadPending(c) \/ DrainFails(c)
    <2> DEFINE last == IF acked[w.root] + DrainLimit < committed[w.root]
                       THEN acked[w.root] + DrainLimit ELSE committed[w.root]
               Step(d, pc) == \/ WatchStep(c, [w EXCEPT !.drained = d, !.worker = pc])
                              \/ WatchStep(c, [w EXCEPT !.worker = pc])
    <2>0. /\ w.worker \in {"pending", "emit", "ack"}
          /\ Step(last, "emit") \/ Step(last, "idle") \/ Step(0, "idle")
      <3>1. ReadPending(c) => w.worker = "pending" /\ (Step(last, "emit") \/ Step(last, "idle"))
        BY DEF ReadPending, CallbackStep
      <3>2. DrainFails(c) => w.worker \in {"pending", "emit", "ack"} /\ Step(0, "idle")
        BY DEF DrainFails, CallbackStep
      <3> HIDE DEF Step, last
      <3> QED
        BY <1>15, <3>1, <3>2
    <2> HIDE DEF Step, last
    <2>1. PICK d : Step(d, "emit") \/ Step(d, "idle")
      BY <2>0
    <2>2. PICK pc \in {"emit", "idle"} : Step(d, pc)
      BY <2>1
    <2> DEFINE x == [w EXCEPT !.drained = d, !.worker = pc]
               y == [w EXCEPT !.worker = pc]
    <2>3. /\ x.worker = pc /\ x.store = w.store /\ x.on = w.on /\ x.analysis = w.analysis
          /\ y.worker = pc /\ y.store = w.store /\ y.on = w.on /\ y.analysis = w.analysis
      BY <1>1 DEF ContextRecords
    <2>4. WatchStep(c, x) \/ WatchStep(c, y)
      BY <2>2 DEF Step
    <2> HIDE DEF x, y
    <2>5. GoesOn(w, x) /\ GoesOn(w, y)
      BY <1>1, <2>0, <2>2, <2>3 DEF GoesOn, HoldsRightly
    <2> QED
      BY <2>4, <2>5, ContextHolds
  <1>16. CASE Emit(c)
    <2> DEFINE x == [w EXCEPT !.worker = "ack"]
    <2>1. WatchStep(c, x) /\ w.worker = "emit"
      BY <1>16 DEF Emit, CallbackStep
    <2>2. x.worker = "ack" /\ x.store = w.store /\ x.on = w.on /\ x.analysis = w.analysis
      BY <1>1 DEF ContextRecords
    <2> HIDE DEF x
    <2>3. GoesOn(w, x)
      BY <1>1, <2>1, <2>2 DEF GoesOn, HoldsRightly
    <2> QED
      BY <2>1, <2>3, ContextHolds
  <1>17. CASE Acknowledge(c)
    <2> DEFINE x == [w EXCEPT !.drained = 0, !.worker = "idle"]
    <2>1. WatchStep(c, x) /\ w.worker = "ack"
      BY <1>17 DEF Acknowledge, CallbackStep
    <2>2. x.worker = "idle" /\ x.store = w.store /\ x.on = w.on /\ x.analysis = w.analysis
      BY <1>1 DEF ContextRecords
    <2> HIDE DEF x
    <2>3. GoesOn(w, x)
      BY <1>1, <2>1, <2>2 DEF GoesOn, HoldsRightly
    <2> QED
      BY <2>1, <2>3, ContextHolds
  <1> QED
    BY <1>2, <1>3, <1>4, <1>5, <1>6, <1>7, <1>8, <1>9, <1>10, <1>11, <1>12, <1>13, <1>14,
       <1>15, <1>16, <1>17 DEF WorkerNext

\* Returning the reservation of the command lets every context go on.
LEMMA RestGoesOn ==
    ASSUME HoldersInv, IndexInv, watch' = watch \/ watch' = Released
    PROVE  \A c \in Contexts : GoesOn(watch[c], watch'[c])
  <1> SUFFICES ASSUME NEW c \in Contexts PROVE GoesOn(watch[c], watch'[c])
    OBVIOUS
  <1> DEFINE w == watch[c]
             x == [w EXCEPT !.analysis = "free"]
  <1>1. w \in ContextRecords /\ HoldsRightly(w)
    BY DEF HoldersInv, HoldsRightly, IndexInv, TypeOK
  <1>2. GoesOn(w, w)
    BY <1>1 DEF GoesOn
  <1>3. GoesOn(w, x)
    <2>1. /\ x.analysis = "free" /\ x.worker = w.worker /\ x.store = w.store /\ x.on = w.on
          /\ x.batch = w.batch
      BY <1>1 DEF ContextRecords
    <2> HIDE DEF x
    <2> QED
      BY <1>1, <2>1 DEF GoesOn, HoldsRightly
  <1>4. watch'[c] = w \/ watch'[c] = x
    BY DEF Released
  <1> HIDE DEF w, x
  <1> QED
    BY <1>2, <1>3, <1>4 DEF w

LEMMA QuietHolds ==
    ASSUME HoldersInv, IndexInv, watch' = watch \/ watch' = Released,
           UNCHANGED <<opens, current, savePc, saveCtx>>, op' # "joining"
    PROVE  HoldersInv'
  BY RestGoesOn, HoldersGoOn

\* The command waits for the open context; its new watcher is started with a worker; the
\* old one is dropped; and the new context, which no save can be ahead of, is installed.
LEMMA WaitPreviousHolds ==
    ASSUME HoldersInv, IndexInv, WaitPrevious
    PROVE  HoldersInv'
  <1>1. UNCHANGED <<opens, current, savePc, saveCtx>> /\ op' # "joining"
    BY DEF WaitPrevious, QuietStep, CommandStep, OperationAt, save
  <1>2. CASE current = 0
    BY <1>1, <1>2, QuietHolds DEF WaitPrevious
  <1>3. CASE current # 0
    <2> DEFINE w == watch[current]
               x == [w EXCEPT !.analysis = "command"]
    <2>1. current \in Contexts
      BY <1>3, OpenHasRoot
    <2>2. watch \in [Contexts -> ContextRecords] /\ w \in ContextRecords /\ HoldsRightly(w)
      BY <2>1 DEF HoldersInv, HoldsRightly, IndexInv, TypeOK
    <2>3. watch' = [watch EXCEPT ![current] = x]
      BY <1>3, <2>1, <2>2 DEF WaitPrevious
    <2>4. /\ x.analysis = "command" /\ x.worker = w.worker /\ x.store = w.store /\ x.on = w.on
          /\ x.batch = w.batch
      BY <2>2 DEF ContextRecords
    <2> HIDE DEF x
    <2>5. GoesOn(w, x)
      BY <2>2, <2>4 DEF GoesOn, HoldsRightly
    <2>6. ASSUME NEW c \in Contexts PROVE GoesOn(watch[c], watch'[c])
      <3>1. CASE c = current
        BY <2>2, <2>3, <2>5, <3>1
      <3>2. CASE c # current
        <4>1. watch'[c] = watch[c]
          BY <2>2, <2>3, <3>2
        <4> QED
          BY <4>1 DEF GoesOn, HoldsRightly, HoldersInv
      <3> QED
        BY <3>1, <3>2
    <2> QED
      BY <1>1, <2>6, HoldersGoOn
  <1> QED
    BY <1>2, <1>3

LEMMA StartWatcherHolds ==
    ASSUME HoldersInv, IndexInv, StartWatcher
    PROVE  HoldersInv'
  <1> DEFINE d == opens + 1
             x == [watch[d] EXCEPT !.root = target, !.on = TRUE, !.worker = "idle"]
  <1>1. /\ op = "watching" /\ op' = "releasing" /\ opens' = d
        /\ UNCHANGED <<current, savePc, saveCtx>>
    BY DEF StartWatcher, CommandStep, OperationAt, save
  <1>2. /\ opens \in Nat /\ requests \in Nat /\ requests <= MaxRequests /\ MaxRequests \in Nat
        /\ opens < requests
    BY <1>1, IndexAssumption DEF IndexInv, TypeOK, OperationInv
  <1>3. d \in Contexts
    BY <1>2 DEF Contexts
  <1>4. watch \in [Contexts -> ContextRecords] /\ watch[d] = FreshContext
    BY <1>2, <1>3 DEF IndexInv, TypeOK, WorkerInv
  <1>5. watch' = [watch EXCEPT ![d] = x]
    BY <1>3, <1>4 DEF StartWatcher
  <1>6. x.worker = "idle" /\ x.analysis = "free" /\ x.store = "free"
    BY <1>4, FreshTypes DEF FreshContext, ContextRecords
  <1> HIDE DEF x
  <1>7. ASSUME NEW c \in Contexts
        PROVE  /\ HoldsRightly(watch'[c])
               /\ watch'[c].worker = "none" => opens' < c
               /\ watch'[c].analysis = "save" =>
                     savePc' \in {"reserved", "reading", "written"} /\ saveCtx' = c
    <2>1. CASE c = d
      BY <1>3, <1>4, <1>5, <1>6, <2>1 DEF HoldsRightly
    <2>2. CASE c # d
      <3>1. watch'[c] = watch[c] /\ c \in Nat
        BY <1>4, <1>5, <2>2 DEF Contexts
      <3> QED
        BY <1>1, <1>2, <2>2, <3>1 DEF HoldsRightly, HoldersInv
    <2> QED
      BY <2>1, <2>2
  <1> QED
    BY <1>1, <1>7 DEF HoldersInv, HoldsRightly

LEMMA DropOldWatcherHolds ==
    ASSUME HoldersInv, IndexInv, DropOldWatcher
    PROVE  HoldersInv'
  <1> DEFINE w == watch[current]
             x == [w EXCEPT !.on = FALSE, !.events = {}]
  <1>1. /\ op = "dropping" /\ UNCHANGED <<opens, current, savePc, saveCtx>>
    BY DEF DropOldWatcher, QuietStep, CommandStep, OperationAt, save
  <1>2. current \in Contexts
    BY <1>1, OpenHasRoot DEF IndexInv, OperationInv
  <1>3. watch \in [Contexts -> ContextRecords] /\ w \in ContextRecords
    BY <1>2 DEF IndexInv, TypeOK
  <1>4. watch' = [watch EXCEPT ![current] = x]
    BY <1>2, <1>3 DEF DropOldWatcher
  <1>5. /\ ~x.on /\ x.analysis = w.analysis /\ x.worker = w.worker /\ x.store = w.store
        /\ x.batch = w.batch
    BY <1>3 DEF ContextRecords
  <1> HIDE DEF x
  <1>6. watch'[current] = x /\ \A c \in Contexts \ {current} : watch'[c] = watch[c]
    BY <1>2, <1>3, <1>4
  <1> QED
    BY <1>1, <1>2, <1>5, <1>6 DEF HoldersInv

LEMMA InstallHolds ==
    ASSUME HoldersInv, IndexInv, Install
    PROVE  HoldersInv'
  <1>1. /\ UNCHANGED <<watch, opens, savePc, saveCtx>> /\ current' = opens /\ op' = "refreshing"
    BY DEF Install, QuietStep, CommandStep, OperationAt, save
  <1>2. saveCtx <= opens
    BY IndexAssumption DEF IndexInv, TypeOK
  <1> QED
    BY <1>1, <1>2 DEF HoldersInv

LEMMA CommandHolds ==
    ASSUME HoldersInv, IndexInv, CommandNext
    PROVE  HoldersInv'
  <1>1. CASE BeginRuntime \/ RuntimeRefuses \/ WatcherFails \/ JoinOldWorker \/ CompleteRuntime
             \/ CompleteTerminal \/ CancelTerminal \/ CancelRuntime \/ ReleasePrevious \/ Refresh
    <2>1. /\ watch' = watch \/ watch' = Released
          /\ UNCHANGED <<opens, current, savePc, saveCtx>> /\ op' # "joining"
      BY <1>1 DEF BeginRuntime, RuntimeRefuses, WatcherFails, JoinOldWorker, CompleteRuntime,
                  CompleteTerminal, CancelTerminal, CancelRuntime, ReleasePrevious, Refresh,
                  GateStep, QuietStep, CommandStep, OperationAt, save
    <2> QED
      BY <2>1, QuietHolds
  <1>2. CASE CommitScan \/ CommitRescan \/ ScanFails \/ \E f \in Files : ScanFile(f)
    <2>1. /\ watch' = watch \/ watch' = Released
          /\ UNCHANGED <<opens, current, savePc, saveCtx>> /\ op' # "joining"
      BY <1>2 DEF CommitScan, CommitRescan, ScanFails, ScanFile, QuietStep, CommandStep,
                  OperationAt, save
    <2> QED
      BY <2>1, QuietHolds
  <1> QED
    BY <1>1, <1>2, WaitPreviousHolds, StartWatcherHolds, DropOldWatcherHolds, InstallHolds
       DEF CommandNext

\* A change is put into the events of the watchers, and no more.
LEMMA ReportedGoesOn ==
    ASSUME HoldersInv, IndexInv, NEW r \in Roots, NEW f \in Files, watch' = Reported(r, f)
    PROVE  \A c \in Contexts : GoesOn(watch[c], watch'[c])
  <1> SUFFICES ASSUME NEW c \in Contexts PROVE GoesOn(watch[c], watch'[c])
    OBVIOUS
  <1> DEFINE w == watch[c]
             x == [w EXCEPT !.events = @ \cup {f}]
  <1>1. w \in ContextRecords /\ HoldsRightly(w)
    BY DEF HoldersInv, HoldsRightly, IndexInv, TypeOK
  <1>2. GoesOn(w, w)
    BY <1>1 DEF GoesOn
  <1>3. GoesOn(w, x)
    <2>1. /\ x.analysis = w.analysis /\ x.worker = w.worker /\ x.store = w.store /\ x.on = w.on
          /\ x.batch = w.batch
      BY <1>1 DEF ContextRecords
    <2> HIDE DEF x
    <2> QED
      BY <1>1, <2>1 DEF GoesOn, HoldsRightly
  <1>4. watch'[c] = w \/ watch'[c] = x
    BY DEF Reported
  <1> HIDE DEF w, x
  <1> QED
    BY <1>2, <1>3, <1>4 DEF w

LEMMA ChangeHolds ==
    ASSUME HoldersInv, IndexInv, NEW r \in Roots, NEW f \in Files, Change(r, f)
    PROVE  HoldersInv'
  <1>1. /\ watch' = Reported(r, f) /\ op' = op
        /\ UNCHANGED <<opens, current, savePc, saveCtx>>
    BY DEF Change, operation, save
  <1> QED
    BY <1>1, ReportedGoesOn, HoldersGoOn

\* A save is of a context that was opened, and the only one to have its reservation.
LEMMA SaveReservation ==
    ASSUME HoldersInv, IndexInv, savePc # "idle", NEW who \in {"save", "free"},
           watch' = [watch EXCEPT ![saveCtx].analysis = who],
           UNCHANGED <<opens, current, op>>,
           \/ who = "save" /\ savePc' = "reserved" /\ saveCtx' = saveCtx
           \/ who = "free" /\ savePc' = "idle" /\ saveCtx' = 0
    PROVE  HoldersInv'
  <1> DEFINE w == watch[saveCtx]
             x == [w EXCEPT !.analysis = who]
  <1>1. current \in Nat /\ saveCtx \in Contexts
    <2>1. /\ saveCtx \in 0..opens /\ opens \in 0..MaxRequests /\ MaxRequests \in Nat
          /\ current \in 0..opens /\ saveCtx # 0
      BY IndexAssumption DEF IndexInv, TypeOK
    <2> QED
      BY <2>1 DEF Contexts
  <1>2. watch \in [Contexts -> ContextRecords] /\ w \in ContextRecords
    BY <1>1 DEF IndexInv, TypeOK
  <1>3. watch' = [watch EXCEPT ![saveCtx] = x]
    BY <1>1, <1>2
  <1>4. /\ x.analysis = who /\ x.worker = w.worker /\ x.store = w.store /\ x.on = w.on
        /\ x.batch = w.batch
    BY <1>2 DEF ContextRecords
  <1> HIDE DEF x
  <1>5. watch'[saveCtx] = x /\ \A c \in Contexts \ {saveCtx} : watch'[c] = watch[c]
    BY <1>1, <1>2, <1>3
  <1>6. /\ saveCtx' <= current'
        /\ op' = "joining" => current \in Contexts /\ watch'[current'].on = watch[current].on
    <2>1. op = "joining" => current \in Contexts
      BY OpenHasRoot DEF IndexInv, OperationInv
    <2> QED
      BY <1>1, <1>4, <1>5, <2>1 DEF HoldersInv
  <1>7. ASSUME NEW c \in Contexts
        PROVE  /\ HoldsRightly(watch'[c])
               /\ watch'[c].worker = "none" => opens' < c
               /\ watch'[c].analysis = "save" =>
                     savePc' \in {"reserved", "reading", "written"} /\ saveCtx' = c
    <2>1. CASE c = saveCtx
      BY <1>1, <1>4, <1>5, <2>1 DEF HoldsRightly, HoldersInv
    <2>2. CASE c # saveCtx
      BY <1>5, <2>2 DEF HoldsRightly, HoldersInv
    <2> QED
      BY <2>1, <2>2
  <1> QED
    BY <1>6, <1>7 DEF HoldersInv, HoldsRightly

LEMMA SaveHolds ==
    ASSUME HoldersInv, IndexInv, TurnsInv, SaveNext
    PROVE  HoldersInv'
  <1>1. UNCHANGED <<opens, current, op>> /\ savePc # "idle"
    BY DEF SaveNext, SaveReserve, SaveRejected, SaveEnter, SaveWrite, SaveIndex,
           SaveIndexFails, SaveEnds, SaveStep, operation
  <1>2. CASE SaveReserve
    BY <1>1, <1>2, SaveReservation DEF SaveReserve, SaveStep
  <1>3. CASE SaveRejected \/ SaveIndex \/ SaveIndexFails
    BY <1>1, <1>3, SaveReservation DEF SaveRejected, SaveIndex, SaveIndexFails, SaveEnds, SaveStep
  <1>4. CASE SaveEnter
    BY <1>1, <1>4 DEF SaveEnter, SaveStep, HoldersInv
  <1>5. CASE SaveWrite
    <2>1. RootOf(saveCtx) \in Roots /\ saveFile \in Files /\ saveCtx \in Contexts
      BY <1>1, OpenWhenUsed DEF UsesAreOpen, IndexInv, TypeOK
    <2>2. watch' = Reported(RootOf(saveCtx), saveFile)
          /\ savePc = "reading" /\ savePc' = "written" /\ saveCtx' = saveCtx
      BY <1>5 DEF SaveWrite, SaveStep
    <2>3. \A c \in Contexts : GoesOn(watch[c], watch'[c])
      BY <2>1, <2>2, ReportedGoesOn
    <2>4. op = "joining" => current \in Contexts
      BY OpenHasRoot DEF IndexInv, OperationInv
    <2> QED
      BY <1>1, <2>2, <2>3, <2>4 DEF HoldersInv, GoesOn, HoldsRightly
  <1> QED
    BY <1>2, <1>3, <1>4, <1>5 DEF SaveNext

LEMMA UserHolds ==
    ASSUME HoldersInv, IndexInv, UserNext
    PROVE  HoldersInv'
  <1>1. ASSUME NEW r \in Roots, RequestOpen(r) PROVE HoldersInv'
    BY <1>1 DEF RequestOpen, HoldersInv, save
  <1>2. CASE RequestRescan
    BY <1>2 DEF RequestRescan, HoldersInv, save
  <1>3. ASSUME NEW f \in Files, StartSave(f) PROVE HoldersInv'
    <2>1. /\ savePc = "idle" /\ saveCtx' = current
          /\ UNCHANGED <<watch, opens, current, op>>
      BY <1>3 DEF StartSave, SaveStep, operation
    <2>2. \A c \in Contexts : watch[c].analysis # "save"
      BY <2>1 DEF HoldersInv
    <2>3. current <= current
      BY IndexAssumption DEF IndexInv, TypeOK
    <2> QED
      BY <2>1, <2>2, <2>3 DEF HoldersInv
  <1>4. CASE Crash
    <2>1. /\ \A c \in Contexts : watch'[c] = FreshContext
          /\ opens' = 0 /\ current' = 0 /\ saveCtx' = 0 /\ op' = "idle"
      BY <1>4 DEF Crash
    <2>2. \A c \in Contexts : 0 < c
      BY DEF Contexts
    <2> QED
      BY <2>1, <2>2 DEF HoldersInv, FreshContext
  <1> QED
    BY <1>1, <1>2, <1>3, <1>4, ChangeHolds DEF UserNext

LEMMA InitHolds == Init => HoldersInv
  <1> SUFFICES ASSUME Init PROVE HoldersInv
    OBVIOUS
  <1>1. \A c \in Contexts : watch[c] = FreshContext /\ 0 < c
    BY DEF Init, Contexts
  <1> QED
    BY <1>1 DEF Init, HoldersInv, FreshContext

LEMMA NextHolds == HoldersInv /\ IndexInv /\ TurnsInv /\ [Next]_vars => HoldersInv'
  <1> SUFFICES ASSUME HoldersInv, IndexInv, TurnsInv, [Next]_vars PROVE HoldersInv'
    OBVIOUS
  <1>1. CASE UNCHANGED vars
    BY <1>1 DEF vars, operation, save, HoldersInv
  <1> QED
    BY <1>1, UserHolds, CommandHolds, SaveHolds, CallbackHolds, WorkerHolds DEF Next

\* The worker of the open context moves unless it rests, waits for its turn, or waits for a
\* command that installs the next context - for which it has ended.
LEMMA OpenWorkerMoves ==
    ASSUME IndexInv, HoldersInv, current # 0,
           \/ watch[current].store # "free"
           \/ watch[current].worker \notin {"none", "idle", "waiting", "ended"}
    PROVE  WorkerMoves(watch[current])
  <1> DEFINE w == watch[current]
  <1>1. current \in Contexts /\ w \in ContextRecords
    BY OpenHasRoot DEF IndexInv, TypeOK
  <1>2. op # "installing"
    <2> SUFFICES ASSUME op = "installing" PROVE FALSE
      OBVIOUS
    <2>1. w.worker = "ended"
      BY DEF IndexInv, WorkerInv
    <2> QED
      BY <1>1, <2>1 DEF HoldersInv, ContextRecords
  <1>3. w.store # "free" => w.worker = "project"
    BY <1>1 DEF HoldersInv, ContextRecords
  <1>4. w.worker = "delta" => w.batch # {}
    BY <1>1 DEF HoldersInv
  <1>5. w.worker \in WorkerStates
    BY <1>1 DEF ContextRecords
  <1> HIDE DEF w
  <1> QED
    BY <1>2, <1>3, <1>4, <1>5 DEF WorkerMoves, CanReadCurrent, WorkerStates, Publishing, w

\* A save that has not ended moves, or its context is held by who moves.
LEMMA SaveNeverStalls ==
    ASSUME IndexInv, TurnsInv, HoldersInv, savePc # "idle"
    PROVE  \/ CommandMoves \/ SaveMoves
           \/ current # 0 /\ WorkerMoves(watch[current])
  <1> DEFINE s == watch[saveCtx]
  <1>1. saveCtx \in Contexts /\ RootOf(saveCtx) = s.root /\ saveCtx \in Nat /\ saveCtx # 0
    BY OpenWhenUsed DEF UsesAreOpen, RootOf, Contexts
  <1>2. s \in ContextRecords /\ current \in Nat /\ saveCtx <= current
    BY <1>1, IndexAssumption DEF IndexInv, TypeOK, HoldersInv
  <1>3. current # 0
    BY <1>1, <1>2
  <1>4. s.worker \notin {"none", "ended"} => saveCtx = current
    BY <1>1, <1>2 DEF IndexInv, WorkerInv
  <1>5. CASE savePc = "written"
    <2>1. s.store # "free" => s.worker = "project"
      BY <1>1, <1>2 DEF HoldersInv, ContextRecords
    <2> QED
      BY <1>3, <1>4, <1>5, <2>1, OpenWorkerMoves DEF SaveMoves
  <1>6. CASE savePc = "waiting"
    <2>1. CASE s.analysis = "free"
      BY <1>6, <2>1 DEF SaveMoves
    <2>2. CASE s.analysis = "worker"
      <3>1. s.worker \in {"delta", "scanning"}
        BY <1>1, <2>2 DEF HoldersInv
      <3> QED
        BY <1>3, <1>4, <3>1, OpenWorkerMoves
    <2>3. CASE s.analysis = "command"
      <3>1. op \in {"scanning", "watching", "releasing", "rescanning", "refreshing",
                    "cancelRuntime"}
        BY <1>1, <2>3 DEF IndexInv, OperationInv
      <3> QED
        BY <1>3, <3>1, OpenWorkerMoves DEF CommandMoves
    <2>4. s.analysis # "save"
      BY <1>1, <1>6 DEF HoldersInv
    <2> QED
      BY <1>2, <2>1, <2>2, <2>3, <2>4 DEF ContextRecords
  <1>7. CASE savePc = "reserved"
    BY <1>7 DEF SaveMoves, CommandMoves, CanReadCurrent
  <1>8. CASE savePc = "reading"
    BY <1>8 DEF SaveMoves
  <1> QED
    BY <1>5, <1>6, <1>7, <1>8 DEF IndexInv, TypeOK

\* So does a command: it waits for the reservation, the store, the callback and the worker
\* of the open context, and, to install the next one, for the save that reads.
LEMMA CommandNeverStalls ==
    ASSUME IndexInv, TurnsInv, HoldersInv, op # "idle"
    PROVE  \/ CommandMoves \/ SaveMoves
           \/ current # 0 /\ (CallbackMoves(watch[current]) \/ WorkerMoves(watch[current]))
  <1> DEFINE w == watch[current]
  <1>1. current # 0 =>
           /\ current \in Contexts /\ w \in ContextRecords /\ ~(opens < current)
    <2>1. current \in 0..opens /\ opens \in Nat
      BY IndexAssumption DEF IndexInv, TypeOK
    <2>2. ~(opens < current)
      BY <2>1
    <2>3. current # 0 => current \in Contexts
      BY OpenHasRoot
    <2>4. watch \in [Contexts -> ContextRecords]
      BY DEF IndexInv, TypeOK
    <2> QED
      BY <2>2, <2>3, <2>4
  <1>2. CASE savePc # "idle"
    BY <1>2, SaveNeverStalls
  <1>3. CASE savePc = "idle"
    <2>1. current # 0 => w.analysis # "save"
      BY <1>1, <1>3 DEF HoldersInv
    <2>2. current # 0 /\ op \in {"waiting", "joining"} => w.analysis # "command"
      BY <1>1 DEF IndexInv, OperationInv
    <2>3. CASE op = "waiting"
      <3>1. CASE current # 0 /\ w.analysis # "free"
        <4>1. w.worker \in {"delta", "scanning"}
          BY <1>1, <2>1, <2>2, <2>3, <3>1 DEF HoldersInv, ContextRecords
        <4> QED
          BY <3>1, <4>1, OpenWorkerMoves
      <3> QED
        BY <2>3, <3>1 DEF CommandMoves
    <2>4. CASE op \in {"rescanning", "refreshing"}
      <3>1. current # 0
        BY <2>4 DEF IndexInv, OperationInv
      <3> QED
        BY <2>4, <3>1, OpenWorkerMoves DEF CommandMoves
    <2>5. CASE op = "dropping"
      <3>1. current # 0
        BY <2>5 DEF IndexInv, OperationInv
      <3> QED
        BY <2>5, <3>1 DEF CommandMoves, CallbackMoves
    <2>6. CASE op = "joining"
      <3>1. current # 0
        BY <2>6 DEF IndexInv, OperationInv
      <3>2. ~w.on /\ w.worker # "none"
        BY <1>1, <2>6, <3>1 DEF HoldersInv
      <3>3. CASE w.worker = "ended"
        BY <2>6, <3>3 DEF CommandMoves
      <3>4. CASE w.worker = "idle"
        BY <3>1, <3>2, <3>4 DEF WorkerMoves
      <3>5. CASE w.worker = "waiting"
        <4>1. w.analysis = "free"
          BY <1>1, <2>1, <2>2, <2>6, <3>1, <3>5 DEF HoldersInv, ContextRecords
        <4> QED
          BY <3>1, <3>5, <4>1 DEF WorkerMoves
      <3> QED
        BY <3>1, <3>2, <3>3, <3>4, <3>5, OpenWorkerMoves
    <2>7. CASE op = "installing"
      BY <1>3, <2>7 DEF CommandMoves
    <2> QED
      BY <2>3, <2>4, <2>5, <2>6, <2>7 DEF CommandMoves, IndexInv, TypeOK, OpStates
  <1> QED
    BY <1>2, <1>3

\* No open, rescan or save is stuck (commands/workspace.rs:118-233, watcher/worker.rs,
\* state/app.rs:85-107, editor/commands.rs): although they wait for each other's
\* reservations, for the store, for the callback and the worker of the watcher they replace,
\* and for a lock that the worker and the save read and the installation writes, there is
\* always one of them that can take a step.
THEOREM SwitchesNeverStall == Spec => []SwitchNeverStalls
  <1>1. IndexInv /\ TurnsInv /\ HoldersInv => SwitchNeverStalls
    BY SaveNeverStalls, CommandNeverStalls DEF SwitchNeverStalls
  <1>2. Spec => [](IndexInv /\ TurnsInv)
    BY ObservationHolds, PTL DEF ObservationInv
  <1> QED
    BY <1>1, <1>2, InitHolds, NextHolds, PTL DEF Spec

=================================================================================
