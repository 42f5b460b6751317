------------------------------ MODULE VoiceOrders ------------------------------
(***************************************************************************)
(* Orders of the voice agent: handleAiOrder (webhooks.controller.ts), the  *)
(* BullMQ queue behind it and WebhookQueueProcessor, which creates the     *)
(* order.  Two records stand against a second order for one call: the      *)
(* webhook_events row that the handler reserves, and the mark the worker   *)
(* leaves in the cache before it starts.                                   *)
(***************************************************************************)
EXTENDS Naturals

CONSTANTS
    Requests,     \* HTTP requests, one per transmission; also the job it adds
    Keys,         \* values of the x-idempotency-key header
    NoKey,        \* a request without the header
    Faults,       \* "ack", "http", "cache", "evict", "items", "attempt", "stall"
    MaxAttempts,  \* attempts of a job (queues.module.ts)
    MaxStalls     \* deaths of its worker a job survives (BullMQ's default is 1)

VARIABLES
    key,      \* per request: its key
    http,     \* per request: the next step of its handler, or its answer
    event,    \* webhook_events, per key: "none", "pending", "completed"
    job,      \* per request: the next step of its job, or how it ended
    tries,    \* per request: failed attempts of its job, and deaths of its worker
    marks,    \* the keys marked in the cache
    orders,   \* per request: orders its job has created
    spoiled   \* history: per key, what has gone wrong with it so far

vars == <<key, http, event, job, tries, marks, orders, spoiled>>
--------------------------------------------------------------------------------
Answers == {"accepted", "duplicate", "failed", "dead"}
Active  == {"check", "mark", "resolve", "created"}
Over    == {"done", "skipped", "gone"}

Answer(r, a) == http' = [http EXCEPT ![r] = a]
JobTo(r, s)  == job' = [job EXCEPT ![r] = s]
Spoil(k, what) ==
    spoiled' = IF k = NoKey THEN spoiled ELSE [spoiled EXCEPT ![k] = @ \cup what]

Ordered(k) == \E r \in Requests : key[r] = k /\ orders[r] > 0

Init ==
    /\ key \in [Requests -> Keys \cup {NoKey}]
    /\ http = [r \in Requests |-> "new"]
    /\ event = [k \in Keys |-> "none"]
    /\ job = [r \in Requests |-> "none"]
    /\ tries = [r \in Requests |-> [failed |-> 0, stalled |-> 0]]
    /\ marks = {}
    /\ orders = [r \in Requests |-> 0]
    /\ spoiled = [k \in Keys |-> {}]
--------------------------------------------------------------------------------
\* The handler inserts the event row; a conflict answers the request.
Reserve(r) ==
    /\ http[r] = "new"
    /\ IF key[r] = NoKey
         THEN Answer(r, "reserved") /\ UNCHANGED event
         ELSE IF event[key[r]] # "none"
           THEN Answer(r, "duplicate") /\ UNCHANGED event
           ELSE /\ Answer(r, "reserved")
                /\ event' = [event EXCEPT ![key[r]] = "pending"]
    /\ UNCHANGED <<key, job, tries, marks, orders, spoiled>>

Enqueue(r) ==
    /\ http[r] = "reserved"
    /\ Answer(r, "accepted") /\ JobTo(r, "waiting")
    /\ UNCHANGED <<key, event, tries, marks, orders, spoiled>>

\* queue.add throws; the job may have been added all the same.
EnqueueFails(r) ==
    /\ "ack" \in Faults
    /\ http[r] = "reserved"
    /\ Answer(r, "releasing")
    /\ job' \in {job, [job EXCEPT ![r] = "waiting"]}
    /\ UNCHANGED <<key, event, tries, marks, orders, spoiled>>

\* The reservation is deleted, whatever has become of it, and the error rethrown.
Release(r) ==
    /\ http[r] = "releasing"
    /\ Answer(r, "failed")
    /\ event' = IF key[r] = NoKey THEN event ELSE [event EXCEPT ![key[r]] = "none"]
    /\ UNCHANGED <<key, job, tries, marks, orders, spoiled>>

\* The handler dies, or its delete fails.
HandlerDies(r) ==
    /\ "http" \in Faults
    /\ http[r] \in {"reserved", "releasing"}
    /\ Answer(r, "dead")
    /\ Spoil(key[r], {"stranded"})
    /\ UNCHANGED <<key, event, job, tries, marks, orders>>
--------------------------------------------------------------------------------
\* A worker takes the job.
Take(r) ==
    /\ job[r] = "waiting"
    /\ JobTo(r, IF key[r] = NoKey THEN "resolve" ELSE "check")
    /\ UNCHANGED <<key, http, event, tries, marks, orders, spoiled>>

\* process: cacheManager.get; a mark ends the job.
Check(r) ==
    /\ job[r] = "check"
    /\ JobTo(r, IF key[r] \in marks THEN "skipped" ELSE "mark")
    /\ UNCHANGED <<key, http, event, tries, marks, orders, spoiled>>

\* Mutant: the mark is never set.
MarkNothing(r) ==
    /\ job[r] = "mark"
    /\ JobTo(r, "resolve")
    /\ UNCHANGED <<key, http, event, tries, marks, orders, spoiled>>

\* cacheManager.set.
Mark(r) ==
    /\ job[r] = "mark"
    /\ marks' = marks \cup {key[r]}
    /\ JobTo(r, "resolve")
    /\ Spoil(key[r], IF key[r] \in marks THEN {"raced"} ELSE {})
    /\ UNCHANGED <<key, http, event, tries, orders>>

\* A cache that does not answer is passed over; a write may have reached it.
CacheFails(r) ==
    /\ "cache" \in Faults
    /\ \/ job[r] = "check" /\ UNCHANGED marks
       \/ job[r] = "mark" /\ marks' \in {marks, marks \cup {key[r]}}
    /\ JobTo(r, "resolve")
    /\ Spoil(key[r], {"blind"})
    /\ UNCHANGED <<key, http, event, tries, orders>>

\* The listener of order.incoming commits the order.
CreateOrder(r) ==
    /\ job[r] = "resolve"
    /\ orders' = [orders EXCEPT ![r] = @ + 1]
    /\ JobTo(r, "created")
    /\ UNCHANGED <<key, http, event, tries, marks, spoiled>>

\* The event row, when it is still there, is completed.
Complete(r) ==
    /\ job[r] = "created"
    /\ JobTo(r, "done")
    /\ event' = IF key[r] # NoKey /\ event[key[r]] # "none"
                  THEN [event EXCEPT ![key[r]] = "completed"] ELSE event
    /\ UNCHANGED <<key, http, tries, marks, orders, spoiled>>

\* UnrecoverableError: an item that no menu item matches.
Reject(r) ==
    /\ "items" \in Faults
    /\ job[r] = "resolve"
    /\ JobTo(r, "gone")
    /\ Spoil(key[r], {"rejected"})
    /\ UNCHANGED <<key, http, event, tries, marks, orders>>

\* Mutants: one attempt too many; attempts that are not counted.
AttemptFailsOnceMore(r) ==
    /\ "attempt" \in Faults
    /\ job[r] \in {"resolve", "created"}
    /\ tries' = [tries EXCEPT ![r].failed = @ + 1]
    /\ JobTo(r, IF tries[r].failed <= MaxAttempts THEN "waiting" ELSE "gone")
    /\ Spoil(key[r], {"tripped"})
    /\ UNCHANGED <<key, http, event, marks, orders>>
AttemptFailsUncounted(r) ==
    /\ "attempt" \in Faults
    /\ job[r] \in {"resolve", "created"}
    /\ JobTo(r, "waiting")
    /\ Spoil(key[r], {"tripped"})
    /\ UNCHANGED <<key, http, event, tries, marks, orders>>

\* Any other error, before the order or after it, costs one attempt.
AttemptFails(r) ==
    /\ "attempt" \in Faults
    /\ job[r] \in {"resolve", "created"}
    /\ tries' = [tries EXCEPT ![r].failed = @ + 1]
    /\ JobTo(r, IF tries[r].failed + 1 < MaxAttempts THEN "waiting" ELSE "gone")
    /\ Spoil(key[r], {"tripped"})
    /\ UNCHANGED <<key, http, event, marks, orders>>

\* The worker dies; the stalled job goes back to the queue.
WorkerDies(r) ==
    /\ "stall" \in Faults
    /\ job[r] \in Active
    /\ tries' = [tries EXCEPT ![r].stalled = @ + 1]
    /\ JobTo(r, IF tries[r].stalled < MaxStalls THEN "waiting" ELSE "gone")
    /\ Spoil(key[r], {"tripped"})
    /\ UNCHANGED <<key, http, event, marks, orders>>

\* A mark runs out or is evicted.
Evict(k) ==
    /\ "evict" \in Faults
    /\ k \in marks
    /\ marks' = marks \ {k}
    /\ Spoil(k, {"blind"})
    /\ UNCHANGED <<key, http, event, job, tries, orders>>

Handler(r) == Reserve(r) \/ Enqueue(r) \/ EnqueueFails(r) \/ Release(r)
Worker(r) ==
    \/ Take(r) \/ Check(r) \/ Mark(r) \/ CacheFails(r) \/ CreateOrder(r)
    \/ Complete(r) \/ Reject(r) \/ AttemptFails(r)

Next ==
    \/ \E r \in Requests : Handler(r) \/ HandlerDies(r) \/ Worker(r) \/ WorkerDies(r)
    \/ \E k \in Keys : Evict(k)

\* The queue hands every waiting job to a worker, and a worker goes on.
Fairness == \A r \in Requests : WF_vars(Worker(r))

Spec == Init /\ [][Next]_vars /\ Fairness
--------------------------------------------------------------------------------
Mishaps == {"stranded", "raced", "blind", "rejected", "tripped"}

TypeOK ==
    /\ key \in [Requests -> Keys \cup {NoKey}]
    /\ http \in [Requests -> {"new", "reserved", "releasing"} \cup Answers]
    /\ event \in [Keys -> {"none", "pending", "completed"}]
    /\ job \in [Requests -> {"none", "waiting"} \cup Active \cup Over]
    /\ \A r \in Requests :
         tries[r].failed \in 0..MaxAttempts /\ tries[r].stalled \in 0..(MaxStalls + 1)
    /\ marks \subseteq Keys
    /\ orders \in [Requests -> 0..(MaxAttempts + MaxStalls)]
    /\ spoiled \in [Keys -> SUBSET Mishaps]

\* The agent retries, the queue runs a job again, an answer is lost after the job
\* was added: one call still makes one order, unless the cache was out or had
\* forgotten, or two jobs of the call passed the unguarded check together.
OneOrderPerCall ==
    \A k \in Keys :
        spoiled[k] \cap {"blind", "raced"} = {} =>
            \A r, q \in Requests :
                key[r] = k /\ key[q] = k /\ orders[r] > 0 /\ orders[q] > 0 =>
                    r = q /\ orders[r] = 1

\* A call the agent was told is confirmed gets its order, unless an attempt at it
\* failed or its items were refused: nothing else ends a job without one.
ConfirmedIsOrdered ==
    \A r \in Requests :
        http[r] = "accepted" /\ job[r] \in Over =>
            IF key[r] = NoKey
              THEN job[r] = "done" => orders[r] > 0
              ELSE \/ Ordered(key[r])
                   \/ spoiled[key[r]] \cap {"tripped", "rejected"} # {}
                   \/ \E q \in Requests : key[q] = key[r] /\ job[q] \in Active \cup {"waiting"}

\* A key the handler answers as a duplicate is in good hands: a job of it exists
\* or is about to, or the request that holds it failed and the agent was told so.
DuplicateIsCovered ==
    \A r \in Requests :
        http[r] = "duplicate" =>
            \/ "stranded" \in spoiled[key[r]]
            \/ \E q \in Requests :
                 /\ key[q] = key[r]
                 /\ job[q] # "none" \/ http[q] \in {"reserved", "releasing", "failed"}

\* A call becomes an order, once: the three together.
CallsBecomeOrders == OneOrderPerCall /\ ConfirmedIsOrdered /\ DuplicateIsCovered

\* Every job that is queued comes to an end, whatever fails.
JobsEnd == \A r \in Requests : job[r] = "waiting" ~> job[r] \in Over

\* Not kept by the code: a job is skipped because its call was processed.
SkippedWasProcessed ==
    \A r \in Requests : job[r] = "skipped" => Ordered(key[r])
================================================================================
