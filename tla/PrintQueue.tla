------------------------------- MODULE PrintQueue -------------------------------
(***************************************************************************)
(* Print jobs of the backend: print-jobs.service.ts,                       *)
(* print-queue.processor.ts, mqtt.service.ts and the status reports of     *)
(* heartbeat.service.ts, with the BullMQ queue and the printer around it.  *)
(*                                                                         *)
(* A job is a row of print_jobs and one or more queue tasks that carry it. *)
(* A worker marks the row, publishes the ticket over MQTT and marks the    *)
(* row again; the printer reports on the ticket in its own time.  The      *)
(* queue, the rows and the broker survive a crash of the backend; tasks at *)
(* work go back to waiting, the buffer for a broker that is away is gone.  *)
(***************************************************************************)
EXTENDS Naturals, FiniteSetsExt

CONSTANTS
    Jobs,
    MaxAttempts,  \* attempts the queue makes at a task that throws
    BufferSize,   \* offlineQueueMaxSize
    Slots,        \* bound: tasks in the queue at once, 1 .. n
    MaxRequeues,  \* bound: requests to requeue a job
    MaxCrashes,   \* bound: crashes of the backend
    Troubles,     \* subset of {"offline", "publish", "throw", "device"}
    None          \* a job not created, a slot not taken

ASSUME PrintAssumption ==
    /\ MaxAttempts \in Nat \ {0}
    /\ BufferSize \in Nat
    /\ Slots \subseteq Nat
    /\ Troubles \subseteq {"offline", "publish", "throw", "device"}

VARIABLES
    row,       \* per job: its print_jobs row, or None
    adding,    \* jobs written as queued whose task has not been added yet
    task,      \* per slot: a queue task, or None
    online,    \* the connection to the broker
    buffer,    \* offlineQueue: packets held per job
    wire,      \* packets on their way to the printer, per job
    printed,   \* jobs the printer has printed
    botched,   \* jobs the printer has reported it could not print
    reports,   \* status reports not yet handled
    failing,   \* jobs whose failure report passed the check and is to be written
    requeues,
    crashes

queue == <<adding, task>>
broker == <<online, buffer>>
printer == <<wire, printed, botched, reports>>
bounds == <<requeues, crashes>>
vars == <<row, queue, broker, printer, failing, bounds>>
--------------------------------------------------------------------------------
Statuses == {"queued", "retrying", "sent", "failed"}

Row == [status : Statuses, attempts : 0 .. MaxAttempts]

\* made is attemptsMade; a task at stage "ok", "unsent" or "threw" has published
\* and has yet to record it.
Task ==
    [ job : Jobs, made : 0 .. MaxAttempts - 1,
      stage : {"waiting", "started", "ok", "unsent", "threw"} ]

ASSUME NoneAssumption == None \notin Row \cup Task

Buffered == MapThenSumSet(LAMBDA j : buffer[j], Jobs)

Live(j) == \E s \in Slots : task[s] # None /\ task[s].job = j

Mark(j, status) == row' = [row EXCEPT ![j].status = status]

Init ==
    /\ row      = [j \in Jobs |-> None]
    /\ adding   = {}
    /\ task     = [s \in Slots |-> None]
    /\ online   = FALSE
    /\ buffer   = [j \in Jobs |-> 0]
    /\ wire     = [j \in Jobs |-> 0]
    /\ printed  = {}
    /\ botched  = {}
    /\ reports  = {}
    /\ failing  = {}
    /\ requeues = 0
    /\ crashes  = 0
--------------------------------------------------------------------------------
\* createPrintJob writes the row ...
Create(j) ==
    /\ row[j] = None
    /\ row' = [row EXCEPT ![j] = [status |-> "queued", attempts |-> 0]]
    /\ adding' = adding \cup {j}
    /\ UNCHANGED <<task, broker, printer, failing, bounds>>

\* ... and requeueJob resets it, whatever its status; then both add a task.
Requeue(j) ==
    /\ row[j] # None /\ j \notin adding
    /\ requeues < MaxRequeues
    /\ requeues' = requeues + 1
    /\ row' = [row EXCEPT ![j] = [status |-> "queued", attempts |-> 0]]
    /\ adding' = adding \cup {j}
    /\ UNCHANGED <<task, broker, printer, failing, crashes>>

AddTask(j) ==
    /\ j \in adding
    /\ \E s \in Slots :
         /\ task[s] = None
         /\ \A r \in Slots : r < s => task[r] # None
         /\ task' = [task EXCEPT ![s] = [job |-> j, made |-> 0, stage |-> "waiting"]]
    /\ adding' = adding \ {j}
    /\ UNCHANGED <<row, broker, printer, failing, bounds>>

Start(s) ==
    /\ task[s] # None /\ task[s].stage = "waiting"
    /\ task' = [task EXCEPT ![s].stage = "started"]
    /\ row' = [row EXCEPT ![task[s].job] =
                 [status |-> "retrying", attempts |-> task[s].made + 1]]
    /\ UNCHANGED <<adding, broker, printer, failing, bounds>>

\* Mutants: a failed publish is buffered without looking at the cap; a full buffer
\* is reported as a success.
PublishUncapped(s) ==
    /\ task[s] # None /\ task[s].stage = "started"
    /\ LET j == task[s].job
       IN  \/ /\ online
              /\ task' = [task EXCEPT ![s].stage = "ok"]
              /\ wire' = [wire EXCEPT ![j] = @ + 1]
              /\ UNCHANGED buffer
           \/ /\ task' = [task EXCEPT ![s].stage = "unsent"]
              /\ buffer' = [buffer EXCEPT ![j] = @ + 1]
              /\ UNCHANGED wire
    /\ UNCHANGED <<row, adding, online, printed, botched, reports, failing, bounds>>

PublishHopeful(s) ==
    /\ task[s] # None /\ task[s].stage = "started"
    /\ LET j == task[s].job
       IN  /\ wire' = [wire EXCEPT ![j] = IF online THEN @ + 1 ELSE @]
           /\ buffer' = [buffer EXCEPT ![j] =
                           IF ~online /\ Buffered < BufferSize THEN @ + 1 ELSE @]
    /\ task' = [task EXCEPT ![s].stage = "ok"]
    /\ UNCHANGED <<row, adding, online, printed, botched, reports, failing, bounds>>

\* MqttService.publish: a packet for a broker that is away is buffered and counts as
\* sent; a publish that fails is buffered and does not; a full buffer drops it.
\* Building the packet may throw.
Publish(s) ==
    /\ task[s] # None /\ task[s].stage = "started"
    /\ LET j == task[s].job
           room == Buffered < BufferSize
           Outcome(stage, sent, held) ==
               /\ task' = [task EXCEPT ![s].stage = stage]
               /\ wire' = [wire EXCEPT ![j] = @ + sent]
               /\ buffer' = [buffer EXCEPT ![j] = @ + held]
       IN  \/ online /\ Outcome("ok", 1, 0)
           \/ online /\ "publish" \in Troubles /\ Outcome("unsent", 0, IF room THEN 1 ELSE 0)
           \/ ~online /\ room /\ Outcome("ok", 0, 1)
           \/ ~online /\ ~room /\ Outcome("unsent", 0, 0)
           \/ "throw" \in Troubles /\ Outcome("threw", 0, 0)
    /\ UNCHANGED <<row, adding, online, printed, botched, reports, failing, bounds>>

\* Mutant: the worker gives up on the first exception and leaves the row alone.
RecordSwallows(s) ==
    /\ task[s] # None /\ task[s].stage \in {"ok", "unsent", "threw"}
    /\ IF task[s].stage = "threw" THEN UNCHANGED row
       ELSE Mark(task[s].job, IF task[s].stage = "ok" THEN "sent" ELSE "failed")
    /\ task' = [task EXCEPT ![s] = None]
    /\ UNCHANGED <<adding, broker, printer, failing, bounds>>

\* The worker records the outcome.  Only a task that threw is tried again; one that
\* could not be sent is over.
Record(s) ==
    /\ task[s] # None /\ task[s].stage \in {"ok", "unsent", "threw"}
    /\ LET t == task[s]
           again == t.stage = "threw" /\ t.made + 1 < MaxAttempts
       IN  /\ row' = [row EXCEPT ![t.job] =
                        [ status |-> IF t.stage = "ok" THEN "sent" ELSE "failed",
                          attempts |-> t.made + 1 ]]
           /\ task' = [task EXCEPT ![s] =
                         IF again THEN [t EXCEPT !.made = @ + 1, !.stage = "waiting"]
                                  ELSE None]
    /\ UNCHANGED <<adding, broker, printer, failing, bounds>>
--------------------------------------------------------------------------------
GoOffline ==
    /\ "offline" \in Troubles
    /\ online
    /\ online' = FALSE
    /\ UNCHANGED <<row, queue, buffer, printer, failing, bounds>>

\* On connect the buffer is flushed; a packet that fails again is buffered again.
Connect ==
    /\ ~online
    /\ online' = TRUE
    /\ \E kept \in [Jobs -> 0 .. BufferSize] :
         /\ \A j \in Jobs : kept[j] <= buffer[j] /\ ("publish" \in Troubles \/ kept[j] = 0)
         /\ buffer' = kept
         /\ wire' = [j \in Jobs |-> wire[j] + buffer[j] - kept[j]]
    /\ UNCHANGED <<row, queue, printed, botched, reports, failing, bounds>>

\* The printer prints a ticket once; a second delivery is discarded, and either way
\* it reports.
Deliver(j) ==
    /\ wire[j] > 0
    /\ wire' = [wire EXCEPT ![j] = @ - 1]
    /\ \/ /\ j \in printed
          /\ reports' = reports \cup {<<j, "discard">>}
          /\ UNCHANGED <<printed, botched>>
       \/ /\ j \notin printed
          /\ printed' = printed \cup {j}
          /\ reports' = reports \cup {<<j, "done">>}
          /\ UNCHANGED botched
       \/ /\ j \notin printed /\ "device" \in Troubles
          /\ botched' = botched \cup {j}
          /\ reports' = reports \cup {<<j, "error">>}
          /\ UNCHANGED printed
    /\ UNCHANGED <<row, queue, broker, failing, bounds>>

ReportDone(j) ==
    /\ <<j, "done">> \in reports
    /\ reports' = reports \ {<<j, "done">>}
    /\ Mark(j, "sent")
    /\ UNCHANGED <<queue, broker, wire, printed, botched, failing, bounds>>

\* A failure report is dropped if the row reads 'sent' ...
ReportFailure(j, kind) ==
    /\ <<j, kind>> \in reports
    /\ kind # "done"
    /\ reports' = reports \ {<<j, kind>>}
    /\ failing' = IF row[j].status = "sent" THEN failing ELSE failing \cup {j}
    /\ UNCHANGED <<row, queue, broker, wire, printed, botched, bounds>>

\* ... and otherwise written, in a statement of its own.
WriteFailure(j) ==
    /\ j \in failing
    /\ failing' = failing \ {j}
    /\ Mark(j, "failed")
    /\ UNCHANGED <<queue, broker, printer, bounds>>

\* What a crash takes with it: what was in memory, and the reports that arrive while
\* nobody listens.
Lose ==
    /\ crashes < MaxCrashes
    /\ crashes' = crashes + 1
    /\ adding' = {} /\ failing' = {}
    /\ online' = FALSE
    /\ buffer' = [j \in Jobs |-> 0]
    /\ reports' \in SUBSET reports
    /\ UNCHANGED <<row, wire, printed, botched, requeues>>

\* Mutant: a task at work when the backend dies is never reclaimed.
CrashForgets ==
    /\ Lose
    /\ task' = [s \in Slots |->
                  IF task[s] # None /\ task[s].stage # "waiting" THEN None ELSE task[s]]

\* The queue's stalled sweep puts a task at work back to waiting.
Crash ==
    /\ Lose
    /\ task' = [s \in Slots |->
                  IF task[s] = None THEN None ELSE [task[s] EXCEPT !.stage = "waiting"]]
--------------------------------------------------------------------------------
Work(s) == Start(s) \/ Publish(s) \/ Record(s)

Report(j) == ReportDone(j) \/ (\E kind \in {"discard", "error"} : ReportFailure(j, kind))

Next ==
    \/ \E j \in Jobs :
         Create(j) \/ Requeue(j) \/ AddTask(j) \/ Deliver(j) \/ Report(j) \/ WriteFailure(j)
    \/ \E s \in Slots : Work(s)
    \/ GoOffline \/ Connect \/ Crash

Spec == Init /\ [][Next]_vars

\* The backend's own work goes on; nothing is asked of the broker or the printer.
FairSpec ==
    /\ Spec
    /\ \A j \in Jobs : WF_vars(AddTask(j)) /\ WF_vars(Report(j)) /\ WF_vars(WriteFailure(j))
    /\ \A s \in Slots : WF_vars(Work(s))
--------------------------------------------------------------------------------
(***************************************************************************)
(* Properties                                                              *)
(***************************************************************************)

\* Every variable holds a value of its type, and the buffer keeps to its cap.
TypeOK ==
    /\ row \in [Jobs -> Row \cup {None}]
    /\ adding \subseteq Jobs
    /\ task \in [Slots -> Task \cup {None}]
    /\ online \in BOOLEAN
    /\ buffer \in [Jobs -> Nat] /\ Buffered <= BufferSize
    /\ wire \in [Jobs -> Nat]
    /\ printed \subseteq Jobs /\ botched \subseteq Jobs /\ failing \subseteq Jobs
    /\ reports \subseteq Jobs \X {"done", "discard", "error"}

\* A ticket that dies with its worker is reclaimed: a job shown as being retried has
\* a task that will try it.
RetryingIsWorked == \A j \in Jobs : (row[j] # None /\ row[j].status = "retrying") => Live(j)

\* Until the backend crashes, and its buffer with it, no ticket is lost on the way: a
\* job shown as sent was printed, is on its way, or the printer said it could not
\* print it.
SentIsAccountedFor ==
    crashes = 0 =>
        \A j \in Jobs : (row[j] # None /\ row[j].status = "sent") =>
            j \in printed \cup botched \/ buffer[j] + wire[j] > 0

Settled(j) ==
    /\ row[j] # None /\ j \notin adding \cup failing /\ ~Live(j)
    /\ buffer[j] + wire[j] = 0
    /\ \A r \in reports : r[1] # j

\* What is shown as sent when all is quiet is a job already printed.
SentIsPrinted == \A j \in Jobs : (Settled(j) /\ row[j].status = "sent") => j \in printed

\* A sent job is never downgraded to failed by a report of the printer.
NeverDowngraded ==
    [][\A j \in Jobs : (WriteFailure(j) /\ row[j].status = "sent") => row'[j].status = "sent"]_vars

\* A job that has failed for good is in the dead-letter list: it has used up its
\* attempts.
FailedIsDeadLetter ==
    \A j \in Jobs : (Settled(j) /\ row[j].status = "failed") => row[j].attempts >= MaxAttempts

\* Every job is in time sent or failed, unless the backend crashes, which may lose the
\* task between its row and the queue.
JobsEnd ==
    \A j \in Jobs :
        row[j] # None ~>
            \/ row[j] # None /\ row[j].status \in {"sent", "failed"} /\ ~Live(j)
            \/ crashes > 0
================================================================================
