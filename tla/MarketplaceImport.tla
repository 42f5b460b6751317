--------------------------- MODULE MarketplaceImport ---------------------------
(***************************************************************************)
(* One order of a delivery marketplace, from its webhooks to the native    *)
(* order: the ingest service, the queue, AggregatorWebhookProcessor with   *)
(* OrderNormalizationService, and the accept, cancel and status handlers   *)
(* of the staff.  Every await that another actor can slip into is a step.  *)
(***************************************************************************)
EXTENDS Naturals

CONSTANTS
    Events,       \* webhook events, by event id; an event has one job at a time
    Clerks,       \* staff requests that can be in flight at once
    Faults,       \* "deliver", "fetch", "import", "stall"
    MaxAttempts,  \* attempts of a job (queues.module.ts)
    MaxStalls,    \* deaths of its worker a job survives
    MaxMoves      \* bound: requests the staff make

VARIABLES
    market,    \* the marketplace's order: "none", "new", "accepted", "canceled"
    auto,      \* the store's autoAcceptOrders
    kind,      \* per event: "none" until it is sent, then what it says
    hook,      \* webhook_events: "none", "pending", "completed", "failed"
    ingest,    \* per event: the next step of the request that reserved it
    job,       \* per event: the next step of its job, or how it ended
    tries,     \* per event: failed attempts of its job, deaths of its worker
    to,        \* per event: the status its job is about to write
    ext,       \* the external_orders row
    native,    \* the orders row: "none", or its status
    clerk,     \* per staff request: Idle, or what it does and how far it is
    moves,     \* requests the staff made
    dropped,   \* history: events put aside because nothing was found to act on
    stranded,  \* history: events whose request ended with its reservation kept
    overlap,   \* history: two imports of the order were under way together
    clobbered  \* history: a status was written over one its guard never saw

vars == <<market, auto, kind, hook, ingest, job, tries, to, ext, native, clerk,
          moves, dropped, stranded, overlap, clobbered>>
queue   == <<kind, hook, ingest, job, tries, to>>
history == <<dropped, stranded, overlap, clobbered>>
--------------------------------------------------------------------------------
\* ORDER_STATUS_TRANSITIONS but for the refunds, which have a flow of their own.
Transitions ==
    [ pending   |-> {"confirmed", "preparing", "cancelled"},
      confirmed |-> {"preparing", "cancelled"},
      preparing |-> {"ready", "cancelled"},
      ready     |-> {"completed", "cancelled"},
      completed |-> {},
      cancelled |-> {} ]

Status == DOMAIN Transitions

\* mapExternalStatus, of the states an order has here.
Mapped == [new |-> "pending", accepted |-> "confirmed", canceled |-> "cancelled"]

NoRow == [row |-> "none"]
Idle  == [op |-> "idle"]

Importing == {"create", "link", "fail"}
Active    == {"fetch", "upsert", "accept", "read", "write", "mark", "rethrow"}
             \cup Importing
Over      == {"done", "gone"}

JobTo(e, s)    == job' = [job EXCEPT ![e] = s]
HookTo(e, s)   == hook' = [hook EXCEPT ![e] = s]
IngestTo(e, s) == ingest' = [ingest EXCEPT ![e] = s]

\* The write of updateStatusForAggregator, on a row that may have moved on.
WriteStatus(s) ==
    /\ native' = s
    /\ clobbered' = (clobbered \/ s \notin Transitions[native] \cup {native})

Init ==
    /\ market = "none"
    /\ auto \in BOOLEAN
    /\ kind = [e \in Events |-> "none"]
    /\ hook = [e \in Events |-> "none"]
    /\ ingest = [e \in Events |-> "idle"]
    /\ job = [e \in Events |-> "none"]
    /\ tries = [e \in Events |-> [failed |-> 0, stalled |-> 0]]
    /\ to = [e \in Events |-> "pending"]
    /\ ext = NoRow
    /\ native = "none"
    /\ clerk = [c \in Clerks |-> Idle]
    /\ moves = 0
    /\ dropped = {} /\ stranded = {} /\ overlap = FALSE /\ clobbered = FALSE
--------------------------------------------------------------------------------
\* The marketplace takes an order, tells of it (again, under another event id),
\* of a change, or of its cancellation.
Tell(e) ==
    /\ kind[e] = "none"
    /\ \/ /\ market # "canceled"
          /\ kind' = [kind EXCEPT ![e] = "created"]
          /\ market' = IF market = "none" THEN "new" ELSE market
       \/ /\ market # "none"
          /\ kind' = [kind EXCEPT ![e] = "updated"]
          /\ UNCHANGED market
       \/ /\ market \in {"new", "accepted"}
          /\ kind' = [kind EXCEPT ![e] = "canceled"]
          /\ market' = "canceled"
    /\ UNCHANGED <<auto, hook, ingest, job, tries, to, ext, native, clerk, moves, history>>

\* ingest reserves the event; a redelivery of a reserved one is answered as a
\* duplicate and changes nothing.
Reserve(e) ==
    /\ kind[e] # "none" /\ hook[e] = "none" /\ ingest[e] = "idle"
    /\ HookTo(e, "pending") /\ IngestTo(e, "record")
    /\ UNCHANGED <<market, auto, kind, job, tries, to, ext, native, clerk, moves, history>>

\* recordWebhookDelivery.
Record(e) ==
    /\ ingest[e] = "record"
    /\ IngestTo(e, "enqueue")
    /\ UNCHANGED <<market, auto, kind, hook, job, tries, to, ext, native, clerk, moves, history>>

\* recordWebhookDelivery throws, or the process dies: the reservation stays.
RequestDies(e) ==
    /\ "deliver" \in Faults
    /\ ingest[e] # "idle"
    /\ IngestTo(e, "idle")
    /\ stranded' = stranded \cup {e}
    /\ UNCHANGED <<market, auto, kind, hook, job, tries, to, ext, native, clerk, moves,
                   dropped, overlap, clobbered>>

Enqueue(e) ==
    /\ ingest[e] = "enqueue"
    /\ IngestTo(e, "idle") /\ JobTo(e, "waiting")
    /\ UNCHANGED <<market, auto, kind, hook, tries, to, ext, native, clerk, moves, history>>

\* queue.add throws and the reservation is released.
EnqueueFails(e) ==
    /\ "deliver" \in Faults
    /\ ingest[e] = "enqueue"
    /\ IngestTo(e, "idle") /\ HookTo(e, "none")
    /\ UNCHANGED <<market, auto, kind, job, tries, to, ext, native, clerk, moves, history>>
--------------------------------------------------------------------------------
Take(e) ==
    /\ job[e] = "waiting"
    /\ JobTo(e, IF kind[e] = "created" THEN "fetch" ELSE "read")
    /\ UNCHANGED <<market, auto, kind, hook, ingest, tries, to, ext, native, clerk, moves,
                   history>>

\* handleOrderCreated: the order from the payload or the API, or nothing.
Fetch(e) ==
    /\ job[e] = "fetch"
    /\ \/ JobTo(e, "upsert") /\ UNCHANGED dropped
       \/ "fetch" \in Faults /\ JobTo(e, "mark") /\ dropped' = dropped \cup {e}
    /\ UNCHANGED <<market, auto, kind, hook, ingest, tries, to, ext, native, clerk, moves,
                   stranded, overlap, clobbered>>

\* Mutant: a raw row that is there is taken for an import.
UpsertTrusts(e) ==
    /\ job[e] = "upsert"
    /\ ext' = IF ext = NoRow THEN [linked |-> FALSE, sync |-> "pending"] ELSE ext
    /\ JobTo(e, IF ext # NoRow THEN "accept" ELSE "create")
    /\ overlap' = (overlap \/ \E x \in Events : job[x] \in Importing)
    /\ UNCHANGED <<market, auto, kind, hook, ingest, tries, to, native, clerk, moves,
                   dropped, stranded, clobbered>>

\* upsertExternalOrder; a row with an internal order needs no import.
Upsert(e) ==
    /\ job[e] = "upsert"
    /\ ext' = IF ext = NoRow THEN [linked |-> FALSE, sync |-> "pending"] ELSE ext
    /\ JobTo(e, IF ext # NoRow /\ ext.linked THEN "accept" ELSE "create")
    /\ overlap' = (overlap \/ \E x \in Events : job[x] \in Importing)
    /\ UNCHANGED <<market, auto, kind, hook, ingest, tries, to, native, clerk, moves,
                   dropped, stranded, clobbered>>

\* createMarketplaceOrder, or the replay of the order another job has made.
CreateNative(e) ==
    /\ job[e] = "create"
    /\ native' = IF native = "none" THEN "pending" ELSE native
    /\ JobTo(e, "link")
    /\ UNCHANGED <<market, auto, kind, hook, ingest, tries, to, ext, clerk, moves, history>>

\* markExternalOrderImported.
Link(e) ==
    /\ job[e] = "link"
    /\ ext' = [linked |-> TRUE, sync |-> "imported"]
    /\ JobTo(e, "accept")
    /\ UNCHANGED <<market, auto, kind, hook, ingest, tries, to, native, clerk, moves, history>>

\* An unmapped item, a refused order, a database error: the catch block marks the
\* row failed and rethrows.
ImportFails(e) ==
    /\ "import" \in Faults
    /\ job[e] \in {"create", "link"}
    /\ JobTo(e, "fail")
    /\ UNCHANGED <<market, auto, kind, hook, ingest, tries, to, ext, native, clerk, moves,
                   history>>

MarkImportFailed(e) ==
    /\ job[e] = "fail"
    /\ ext' = [ext EXCEPT !.sync = "failed"]
    /\ JobTo(e, "rethrow")
    /\ UNCHANGED <<market, auto, kind, hook, ingest, tries, to, native, clerk, moves, history>>

\* The auto-accept; a marketplace that refuses is only logged.
AutoAccept(e) ==
    /\ job[e] = "accept"
    /\ JobTo(e, "mark")
    /\ market' \in IF auto /\ market = "new" THEN {"accepted", "new"} ELSE {market}
    /\ UNCHANGED <<auto, kind, hook, ingest, tries, to, ext, native, clerk, moves, history>>

\* handleStatusChange up to the write; targetStatus asks the marketplace.
ReadStatus(e) ==
    /\ job[e] = "read"
    /\ LET imported == ext # NoRow /\ ext.linked
           target == IF kind[e] = "canceled" THEN "cancelled" ELSE Mapped[market] IN
       /\ dropped' = IF imported THEN dropped ELSE dropped \cup {e}
       /\ IF imported /\ target \in Transitions[native]
            THEN JobTo(e, "write") /\ to' = [to EXCEPT ![e] = target]
            ELSE JobTo(e, "mark") /\ UNCHANGED to
    /\ UNCHANGED <<market, auto, kind, hook, ingest, tries, ext, native, clerk, moves,
                   stranded, overlap, clobbered>>

JobWrites(e) ==
    /\ job[e] = "write"
    /\ WriteStatus(to[e])
    /\ JobTo(e, "mark")
    /\ UNCHANGED <<market, auto, kind, hook, ingest, tries, to, ext, clerk, moves,
                   dropped, stranded, overlap>>

MarkCompleted(e) ==
    /\ job[e] = "mark"
    /\ HookTo(e, "completed") /\ JobTo(e, "done")
    /\ UNCHANGED <<market, auto, kind, ingest, tries, to, ext, native, clerk, moves, history>>

\* The API or the database throws outside importOrder.
StepFails(e) ==
    /\ "fetch" \in Faults
    /\ job[e] \in {"fetch", "upsert", "read", "write"}
    /\ JobTo(e, "rethrow")
    /\ UNCHANGED <<market, auto, kind, hook, ingest, tries, to, ext, native, clerk, moves,
                   history>>

\* markFailed; the queue runs the job again while it has attempts left.
MarkFailed(e) ==
    /\ job[e] = "rethrow"
    /\ HookTo(e, "failed")
    /\ tries' = [tries EXCEPT ![e].failed = @ + 1]
    /\ JobTo(e, IF tries[e].failed + 1 < MaxAttempts THEN "waiting" ELSE "gone")
    /\ UNCHANGED <<market, auto, kind, ingest, to, ext, native, clerk, moves, history>>

WorkerDies(e) ==
    /\ "stall" \in Faults
    /\ job[e] \in Active
    /\ tries' = [tries EXCEPT ![e].stalled = @ + 1]
    /\ JobTo(e, IF tries[e].stalled < MaxStalls THEN "waiting" ELSE "gone")
    /\ UNCHANGED <<market, auto, kind, hook, ingest, to, ext, native, clerk, moves, history>>
--------------------------------------------------------------------------------
\* acceptOrder, cancelOrder: first the marketplace, then the native order;
\* updateOrderStatus: the native order alone.
Ask(c) ==
    /\ clerk[c] = Idle /\ moves < MaxMoves
    /\ moves' = moves + 1
    /\ \/ /\ ext # NoRow /\ ext.linked /\ market = "new"
          /\ market' = "accepted"
          /\ clerk' = [clerk EXCEPT ![c] = [op |-> "read", to |-> "confirmed"]]
       \/ /\ ext # NoRow /\ ext.linked /\ market \in {"new", "accepted"}
          /\ market' = "canceled"
          /\ clerk' = [clerk EXCEPT ![c] = [op |-> "read", to |-> "cancelled"]]
       \/ /\ native # "none"
          /\ \E s \in Transitions[native] :
               clerk' = [clerk EXCEPT ![c] = [op |-> "write", to |-> s]]
          /\ UNCHANGED market
    /\ UNCHANGED <<auto, queue, ext, native, history>>

\* advanceNativeStatus validates the transition on the row it reads.
ClerkReads(c) ==
    /\ clerk[c].op = "read"
    /\ clerk' = [clerk EXCEPT ![c] =
                   IF clerk[c].to \in Transitions[native]
                     THEN [op |-> "write", to |-> clerk[c].to] ELSE Idle]
    /\ UNCHANGED <<market, auto, queue, ext, native, moves, history>>

ClerkWrites(c) ==
    /\ clerk[c].op = "write"
    /\ WriteStatus(clerk[c].to)
    /\ clerk' = [clerk EXCEPT ![c] = Idle]
    /\ UNCHANGED <<market, auto, queue, ext, moves, dropped, stranded, overlap>>

Ingest(e) == Reserve(e) \/ Record(e) \/ RequestDies(e) \/ Enqueue(e) \/ EnqueueFails(e)
Worker(e) ==
    \/ Take(e) \/ Fetch(e) \/ Upsert(e) \/ CreateNative(e) \/ Link(e) \/ ImportFails(e)
    \/ MarkImportFailed(e) \/ AutoAccept(e) \/ ReadStatus(e) \/ JobWrites(e)
    \/ MarkCompleted(e) \/ StepFails(e) \/ MarkFailed(e)

Next ==
    \/ \E e \in Events : Tell(e) \/ Ingest(e) \/ Worker(e) \/ WorkerDies(e)
    \/ \E c \in Clerks : Ask(c) \/ ClerkReads(c) \/ ClerkWrites(c)

\* The queue hands every waiting job to a worker, and a worker goes on.
Fairness == \A e \in Events : WF_vars(Worker(e))

Spec == Init /\ [][Next]_vars /\ Fairness
--------------------------------------------------------------------------------
TypeOK ==
    /\ market \in {"none"} \cup DOMAIN Mapped
    /\ auto \in BOOLEAN
    /\ kind \in [Events -> {"none", "created", "updated", "canceled"}]
    /\ hook \in [Events -> {"none", "pending", "completed", "failed"}]
    /\ ingest \in [Events -> {"idle", "record", "enqueue"}]
    /\ job \in [Events -> {"none", "waiting"} \cup Active \cup Over]
    /\ to \in [Events -> Status]
    /\ ext = NoRow \/ ext \in [linked : BOOLEAN, sync : {"pending", "imported", "failed"}]
    /\ native \in Status \cup {"none"}
    /\ \A e \in Events : tries[e].failed <= MaxAttempts /\ tries[e].stalled <= MaxStalls + 1
    /\ moves <= MaxMoves

\* The customer is told the restaurant has the order only when it has: an accept,
\* of the worker or of the staff, never precedes the native order and its link.
AcceptedIsImported ==
    market = "accepted" => ext # NoRow /\ ext.linked /\ native # "none"

\* The raw record and the native order agree: as long as two imports of the order
\* never overlap, retries and deaths leave no linked row marked as failed.
LinkedIsImported ==
    ext # NoRow /\ ~overlap => (ext.linked <=> ext.sync = "imported")

\* An order.created event recorded as completed has put the order on the register.
CompletedIsOnRegister ==
    \A e \in Events \ dropped :
        kind[e] = "created" /\ hook[e] = "completed" => ext # NoRow /\ ext.linked

\* A cancellation recorded as completed has stopped the order, unless it came before
\* the import, or a status was written over one its guard never saw.
CancelStops ==
    ~clobbered =>
        \A e \in Events \ dropped :
            kind[e] = "canceled" /\ hook[e] = "completed" =>
                native \in {"cancelled", "completed"}

\* A reserved event is not forgotten: a request or a job is on its way with it,
\* or its job has ended, unless its request died or could not record the delivery.
ReservedIsWorked ==
    \A e \in Events \ stranded :
        hook[e] # "none" => ingest[e] # "idle" \/ job[e] # "none"

\* What the marketplace was told and what it told us is on the register: the five
\* together.
RegisterHears ==
    /\ AcceptedIsImported /\ LinkedIsImported /\ CompletedIsOnRegister
    /\ CancelStops /\ ReservedIsWorked

\* Every job that is queued comes to an end.
JobsEnd == \A e \in Events : job[e] = "waiting" ~> job[e] \in Over

\* Not kept by the code: a cancelled order stays cancelled; a cancellation that
\* overtakes its order.created is not lost.
CancelledStays == [][native = "cancelled" => native' = "cancelled"]_vars
CancelIsHeard ==
    \A e \in Events : kind[e] = "canceled" /\ hook[e] = "completed" => native # "pending"
================================================================================
