---------------------------- MODULE PrintQueueProofs ----------------------------
(***************************************************************************)
(* RetryingIsWorked for any number of jobs, queue slots, crashes, requeues *)
(* and attempts: a job shown as being retried never loses its task.  And   *)
(* SentIsAccountedFor for any number of the same and any buffer.           *)
(***************************************************************************)
EXTENDS PrintQueue, Sums, TLAPS

\* The parts of TypeOK the proof rests on: the rows and tasks, and what else a job
\* can be known by.
Shape ==
    /\ row \in [Jobs -> Row \cup {None}]
    /\ task \in [Slots -> Task \cup {None}]

Traces ==
    /\ adding \subseteq Jobs
    /\ buffer \in [Jobs -> Nat]
    /\ wire \in [Jobs -> Nat]
    /\ failing \subseteq Jobs
    /\ reports \subseteq Jobs \X {"done", "discard", "error"}

\* Whatever carries a job carries one that has a row: rows are never deleted.
Pending(j) ==
    \/ j \in adding \cup failing
    \/ buffer[j] > 0
    \/ wire[j] > 0
    \/ \E r \in reports : r[1] = j
    \/ Live(j)

PendingHaveRows == \A j \in Jobs : Pending(j) => row[j] # None

IInv == Shape /\ Traces /\ PendingHaveRows /\ RetryingIsWorked
--------------------------------------------------------------------------------
LEMMA InitIInv == Init => IInv
<1>1. SUFFICES ASSUME Init PROVE IInv
  OBVIOUS
<1>2. Shape /\ Traces
  BY <1>1 DEF Init, Shape, Traces
<1>3. PendingHaveRows /\ RetryingIsWorked
  BY <1>1 DEF Init, PendingHaveRows, Pending, Live, RetryingIsWorked
<1> QED
  BY <1>2, <1>3 DEF IInv

\* A step that keeps every task's job, takes no row away, marks none as retrying and
\* carries only jobs that have one, keeps the invariant.
LEMMA QuietKeeps ==
    ASSUME IInv, Shape', Traces',
           \A j \in Jobs : row[j] # None => row'[j] # None,
           \A j \in Jobs : row'[j] # None /\ row'[j].status = "retrying"
                              => row[j] # None /\ row[j].status = "retrying"
                                 /\ (Live(j) => Live(j)'),
           \A j \in Jobs : Pending(j)' => row'[j] # None
    PROVE  IInv'
<1>1. RetryingIsWorked'
  <2>1. SUFFICES ASSUME NEW j \in Jobs, row'[j] # None, row'[j].status = "retrying"
                 PROVE  Live(j)'
    BY DEF RetryingIsWorked
  <2>2. Live(j)
    BY <2>1 DEF IInv, RetryingIsWorked
  <2> QED
    BY <2>1, <2>2
<1> QED
  BY <1>1 DEF IInv, PendingHaveRows

\* Marking a row keeps the rows' shape and loses none.
LEMMA MarkShape ==
    ASSUME Shape, NEW j \in Jobs, row[j] # None,
           NEW status \in Statuses, Mark(j, status)
    PROVE  /\ row' \in [Jobs -> Row \cup {None}]
           /\ \A k \in Jobs : row[k] # None => row'[k] # None
           /\ \A k \in Jobs : k # j => row'[k] = row[k]
           /\ row'[j].status = status
<1>1. row[j] \in Row
  BY DEF Shape
<1>2. [row[j] EXCEPT !.status = status] \in Row
      /\ [row[j] EXCEPT !.status = status].status = status
  BY <1>1 DEF Row
<1>3. row' = [row EXCEPT ![j] = [row[j] EXCEPT !.status = status]]
  BY DEF Mark
<1> QED
  BY <1>2, <1>3, NoneAssumption DEF Shape
--------------------------------------------------------------------------------
\* A new row, or a row that is reset, reads as queued and waits for its task.
LEMMA QueuedKeeps ==
    ASSUME IInv, NEW j \in Jobs,
           row' = [row EXCEPT ![j] = [status |-> "queued", attempts |-> 0]],
           adding' = adding \cup {j},
           UNCHANGED <<task, buffer, wire, failing, reports>>
    PROVE  IInv'
<1>1. [status |-> "queued", attempts |-> 0] \in Row
  BY PrintAssumption DEF Row, Statuses
<1>2. Shape' /\ Traces'
  BY <1>1 DEF IInv, Shape, Traces
<1>3. \A k \in Jobs : row'[k] = IF k = j THEN [status |-> "queued", attempts |-> 0]
                                       ELSE row[k]
  BY DEF IInv, Shape
<1>4. \A k \in Jobs : row[k] # None => row'[k] # None
  BY <1>1, <1>3, NoneAssumption
<1>5. row'[j] # None
  BY <1>1, <1>3, NoneAssumption
<1>6. \A k \in Jobs : row'[k] # None /\ row'[k].status = "retrying"
                        => row[k] # None /\ row[k].status = "retrying"
                           /\ (Live(k) => Live(k)')
  BY <1>3 DEF Live
<1>7. \A k \in Jobs : Pending(k)' => row'[k] # None
  BY <1>4, <1>5 DEF IInv, PendingHaveRows, Pending, Live
<1> QED
  BY <1>2, <1>4, <1>6, <1>7, QuietKeeps

\* A task put in a free slot carries a job that waited for it.
LEMMA AddTaskKeeps == ASSUME IInv, NEW j \in Jobs, AddTask(j) PROVE IInv'
<1> DEFINE fresh == [job |-> j, made |-> 0, stage |-> "waiting"]
<1>1. PICK s \in Slots : task[s] = None /\ task' = [task EXCEPT ![s] = fresh]
  BY DEF AddTask
<1>2. UNCHANGED <<row, buffer, wire, failing, reports>> /\ adding' = adding \ {j}
      /\ j \in adding
  BY DEF AddTask, broker, printer
<1>3. fresh \in Task /\ fresh.job = j
  BY PrintAssumption DEF Task
<1> HIDE DEF fresh
<1>4. Shape' /\ Traces'
  BY <1>1, <1>2, <1>3 DEF IInv, Shape, Traces
<1>5. \A r \in Slots : task'[r] = IF r = s THEN fresh ELSE task[r]
  BY <1>1 DEF IInv, Shape
<1>6. \A k \in Jobs : (Live(k) => Live(k)') /\ (Live(k)' => Live(k) \/ k = j)
  BY <1>1, <1>3, <1>5 DEF Live
<1>7. \A k \in Jobs : Pending(k)' => row'[k] # None
  BY <1>2, <1>6 DEF IInv, PendingHaveRows, Pending
<1> QED
  BY <1>2, <1>4, <1>6, <1>7, QuietKeeps

\* A worker takes up a task: the row reads 'retrying', and the task is its work.
LEMMA StartKeeps == ASSUME IInv, NEW s \in Slots, Start(s) PROVE IInv'
<1> DEFINE j == task[s].job
           started == [task[s] EXCEPT !.stage = "started"]
           tried == [status |-> "retrying", attempts |-> task[s].made + 1]
<1>1. task[s] \in Task /\ task[s] # None /\ j \in Jobs
  BY DEF IInv, Shape, Start, Task
<1>2. task' = [task EXCEPT ![s] = started] /\ row' = [row EXCEPT ![j] = tried]
      /\ UNCHANGED <<adding, buffer, wire, failing, reports>>
  BY DEF Start, broker, printer
<1>3. tried \in Row
  BY <1>1, PrintAssumption DEF Row, Statuses, Task
<1>4. started \in Task /\ started.job = j
  BY <1>1 DEF Task
<1> HIDE DEF started, tried, j
<1>5. Shape' /\ Traces'
  BY <1>1, <1>2, <1>3, <1>4 DEF IInv, Shape, Traces
<1>6. /\ \A r \in Slots : task'[r] = IF r = s THEN started ELSE task[r]
      /\ \A k \in Jobs : row'[k] = IF k = j THEN tried ELSE row[k]
  BY <1>1, <1>2 DEF IInv, Shape
<1>7. \A k \in Jobs : row[k] # None => row'[k] # None
  BY <1>3, <1>6, NoneAssumption
<1>8. \A k \in Jobs : Live(k)' <=> Live(k)
  BY <1>1, <1>4, <1>6, NoneAssumption DEF Live, j
<1>9. PendingHaveRows'
  BY <1>2, <1>7, <1>8 DEF IInv, PendingHaveRows, Pending
<1>10. Live(j)
  BY <1>1 DEF Live, j
<1>11. RetryingIsWorked'
  BY <1>6, <1>8, <1>10 DEF IInv, RetryingIsWorked
<1> QED
  BY <1>5, <1>9, <1>11 DEF IInv

\* A worker publishes: the task moves on, and what it sent is a job of a task.
LEMMA PublishKeeps == ASSUME IInv, NEW s \in Slots, Publish(s) PROVE IInv'
<1> DEFINE j == task[s].job
<1>1. task[s] \in Task /\ task[s] # None /\ j \in Jobs
  BY DEF IInv, Shape, Publish, Task
<1>2. PICK stage \in {"ok", "unsent", "threw"}, sent \in {0, 1}, held \in {0, 1} :
           /\ task' = [task EXCEPT ![s].stage = stage]
           /\ wire' = [wire EXCEPT ![j] = @ + sent]
           /\ buffer' = [buffer EXCEPT ![j] = @ + held]
  BY DEF Publish
<1>3. UNCHANGED <<row, adding, failing, reports>>
  BY DEF Publish
<1> DEFINE moved == [task[s] EXCEPT !.stage = stage]
<1>4. moved \in Task /\ moved.job = j
  BY <1>1 DEF Task
<1>5. task' = [task EXCEPT ![s] = moved]
  BY <1>2
<1> HIDE DEF moved, j
<1>6. Shape'
  BY <1>3, <1>4, <1>5 DEF IInv, Shape
<1>7. Traces'
  BY <1>1, <1>2, <1>3 DEF IInv, Traces
<1>8. \A r \in Slots : task'[r] = IF r = s THEN moved ELSE task[r]
  BY <1>5 DEF IInv, Shape
<1>9. \A k \in Jobs : Live(k)' <=> Live(k)
  BY <1>1, <1>4, <1>8, NoneAssumption DEF Live, j
<1>10. Live(j)
  BY <1>1 DEF Live, j
<1>11. \A k \in Jobs : k # j => wire'[k] = wire[k] /\ buffer'[k] = buffer[k]
  BY <1>2 DEF IInv, Traces
<1>12. \A k \in Jobs : Pending(k)' => Pending(k)
  BY <1>3, <1>9, <1>10, <1>11 DEF Pending
<1>13. \A k \in Jobs : Pending(k)' => row'[k] # None
  BY <1>3, <1>12 DEF IInv, PendingHaveRows
<1> QED
  BY <1>3, <1>6, <1>7, <1>9, <1>13, QuietKeeps

\* A worker records: whatever becomes of the task, its row reads sent or failed.
LEMMA RecordKeeps == ASSUME IInv, NEW s \in Slots, Record(s) PROVE IInv'
<1> DEFINE t == task[s]
           again == t.stage = "threw" /\ t.made + 1 < MaxAttempts
           outcome == [ status |-> IF t.stage = "ok" THEN "sent" ELSE "failed",
                        attempts |-> t.made + 1 ]
           next == IF again THEN [t EXCEPT !.made = @ + 1, !.stage = "waiting"] ELSE None
<1>1. t \in Task /\ t # None /\ t.job \in Jobs
  BY DEF IInv, Shape, Record, Task
<1>2. row' = [row EXCEPT ![t.job] = outcome] /\ task' = [task EXCEPT ![s] = next]
      /\ UNCHANGED <<adding, buffer, wire, failing, reports>>
  BY DEF Record, broker, printer
<1>3. outcome \in Row /\ outcome.status # "retrying"
  <2>1. t.made + 1 \in 0 .. MaxAttempts
    BY <1>1, PrintAssumption DEF Task
  <2>2. outcome.status \in {"sent", "failed"}
    OBVIOUS
  <2>3. outcome = [status |-> outcome.status, attempts |-> t.made + 1]
    OBVIOUS
  <2> HIDE DEF outcome
  <2> QED
    BY <2>1, <2>2, <2>3 DEF Row, Statuses
<1>4. next = None \/ (next \in Task /\ next.job = t.job)
  <2>1. CASE again
    <3> DEFINE retry == [t EXCEPT !.made = @ + 1, !.stage = "waiting"]
    <3>1. t.made + 1 \in 0 .. MaxAttempts - 1
      BY <1>1, <2>1, PrintAssumption DEF Task
    <3>2. retry \in Task /\ retry.job = t.job
      BY <1>1, <3>1 DEF Task
    <3>3. next = retry
      BY <2>1
    <3> QED
      BY <3>2, <3>3
  <2>2. CASE ~again
    BY <2>2
  <2> QED
    BY <2>1, <2>2
<1> HIDE DEF t, outcome, next
<1>5. Shape' /\ Traces'
  BY <1>1, <1>2, <1>3, <1>4 DEF IInv, Shape, Traces
<1>6. /\ \A r \in Slots : task'[r] = IF r = s THEN next ELSE task[r]
      /\ \A k \in Jobs : row'[k] = IF k = t.job THEN outcome ELSE row[k]
  BY <1>1, <1>2 DEF IInv, Shape
<1>7. \A k \in Jobs : row[k] # None => row'[k] # None
  BY <1>3, <1>6, NoneAssumption
<1>8. \A k \in Jobs : (k # t.job /\ Live(k) => Live(k)') /\ (Live(k)' => Live(k))
  BY <1>1, <1>4, <1>6 DEF Live, t
<1>9. \A k \in Jobs : row'[k] # None /\ row'[k].status = "retrying"
                        => row[k] # None /\ row[k].status = "retrying"
                           /\ (Live(k) => Live(k)')
  BY <1>3, <1>6, <1>8
<1>10. \A k \in Jobs : Pending(k)' => row'[k] # None
  BY <1>2, <1>7, <1>8 DEF IInv, PendingHaveRows, Pending
<1> QED
  BY <1>5, <1>7, <1>9, <1>10, QuietKeeps

\* The broker comes and goes: what the buffer held is on the wire or held again.
LEMMA ConnectKeeps == ASSUME IInv, Connect PROVE IInv'
<1>1. PICK kept \in [Jobs -> 0 .. BufferSize] :
           /\ \A j \in Jobs : kept[j] <= buffer[j]
           /\ buffer' = kept
           /\ wire' = [j \in Jobs |-> wire[j] + buffer[j] - kept[j]]
  BY DEF Connect
<1>2. UNCHANGED <<row, adding, task, failing, reports>>
  BY DEF Connect, queue
<1>3. \A j \in Jobs : buffer[j] \in Nat /\ wire[j] \in Nat /\ kept[j] \in Nat
  BY PrintAssumption DEF IInv, Traces
<1>4. \A j \in Jobs : wire[j] + buffer[j] - kept[j] \in Nat
  BY <1>1, <1>3
<1>5. Shape' /\ Traces'
  BY <1>1, <1>2, <1>3, <1>4 DEF IInv, Shape, Traces
<1>6. \A j \in Jobs : Live(j)' <=> Live(j)
  BY <1>2 DEF Live
<1>7. \A j \in Jobs : buffer'[j] > 0 \/ wire'[j] > 0 => buffer[j] > 0 \/ wire[j] > 0
  BY <1>1, <1>3
<1>8. \A j \in Jobs : Pending(j)' => row'[j] # None
  BY <1>2, <1>6, <1>7 DEF IInv, PendingHaveRows, Pending
<1> QED
  BY <1>2, <1>5, <1>6, <1>8, QuietKeeps

\* The printer reports on a packet it was sent.
LEMMA DeliverKeeps == ASSUME IInv, NEW j \in Jobs, Deliver(j) PROVE IInv'
<1>1. wire[j] > 0 /\ wire' = [wire EXCEPT ![j] = @ - 1]
  BY DEF Deliver
<1>2. PICK kind \in {"done", "discard", "error"} : reports' = reports \cup {<<j, kind>>}
  BY DEF Deliver
<1>3. UNCHANGED <<row, adding, task, buffer, failing>>
  BY DEF Deliver, queue, broker
<1>4. wire' \in [Jobs -> Nat] /\ \A k \in Jobs : wire'[k] > 0 => wire[k] > 0
  BY <1>1 DEF IInv, Traces
<1>5. Shape' /\ Traces'
  BY <1>2, <1>3, <1>4 DEF IInv, Shape, Traces
<1>6. \A k \in Jobs : Live(k)' <=> Live(k)
  BY <1>3 DEF Live
<1>7. \A k \in Jobs : Pending(k)' => Pending(k)
  <2>1. \A r \in reports' : r \in reports \/ r[1] = j
    BY <1>2
  <2>2. \A k \in Jobs : (\E r \in reports' : r[1] = k) => (\E r \in reports : r[1] = k) \/ k = j
    BY <2>1
  <2> QED
    BY <1>1, <1>3, <1>4, <1>6, <2>2 DEF Pending
<1> QED
  BY <1>3, <1>5, <1>6, <1>7, QuietKeeps DEF IInv, PendingHaveRows

\* A report, or the write it leads to, marks a row as sent or failed.
LEMMA ReportedKeeps ==
    ASSUME IInv, NEW j \in Jobs, Pending(j), NEW status \in {"sent", "failed"},
           Mark(j, status), reports' \subseteq reports, failing' \subseteq failing,
           UNCHANGED <<adding, task, buffer, wire>>
    PROVE  IInv'
<1>1. row[j] # None
  BY DEF IInv, PendingHaveRows
<1>2. /\ row' \in [Jobs -> Row \cup {None}]
      /\ \A k \in Jobs : row[k] # None => row'[k] # None
      /\ \A k \in Jobs : k # j => row'[k] = row[k]
      /\ row'[j].status = status
  BY <1>1, MarkShape DEF IInv, Statuses
<1>3. Shape' /\ Traces'
  BY <1>2 DEF IInv, Shape, Traces
<1>4. \A k \in Jobs : Live(k)' <=> Live(k)
  BY DEF Live
<1>5. \A k \in Jobs : row'[k] # None /\ row'[k].status = "retrying"
                        => row[k] # None /\ row[k].status = "retrying"
                           /\ (Live(k) => Live(k)')
  BY <1>2, <1>4
<1>6. \A k \in Jobs : Pending(k)' => Pending(k)
  BY <1>4 DEF Pending
<1>7. \A k \in Jobs : Pending(k)' => row'[k] # None
  BY <1>2, <1>6 DEF IInv, PendingHaveRows
<1> QED
  BY <1>2, <1>3, <1>5, <1>7, QuietKeeps

LEMMA ReportKeeps == ASSUME IInv, NEW j \in Jobs, Report(j) PROVE IInv'
<1>1. CASE ReportDone(j)
  <2>1. Pending(j)
    <3>1. <<j, "done">>[1] = j
      OBVIOUS
    <3> QED
      BY <1>1, <3>1 DEF ReportDone, Pending
  <2> QED
    BY <1>1, <2>1, ReportedKeeps DEF ReportDone, queue, broker
<1>2. CASE \E kind \in {"discard", "error"} : ReportFailure(j, kind)
  <2>1. PICK kind \in {"discard", "error"} : ReportFailure(j, kind)
    BY <1>2
  <2>2. <<j, kind>> \in reports /\ <<j, kind>>[1] = j
    BY <2>1 DEF ReportFailure
  <2>3. UNCHANGED <<row, adding, task, buffer, wire>> /\ reports' \subseteq reports
        /\ failing' \subseteq failing \cup {j}
    BY <2>1 DEF ReportFailure, queue, broker
  <2>4. Shape' /\ Traces'
    BY <2>3 DEF IInv, Shape, Traces
  <2>5. \A k \in Jobs : Live(k)' <=> Live(k)
    BY <2>3 DEF Live
  <2>6. Pending(j)
    BY <2>2 DEF Pending
  <2>7. \A k \in Jobs : Pending(k)' => Pending(k)
    BY <2>3, <2>5, <2>6 DEF Pending
  <2> QED
    BY <2>3, <2>4, <2>5, <2>7, QuietKeeps DEF IInv, PendingHaveRows
<1> QED
  BY <1>1, <1>2 DEF Report

LEMMA WriteFailureKeeps == ASSUME IInv, NEW j \in Jobs, WriteFailure(j) PROVE IInv'
<1>1. Pending(j)
  BY DEF WriteFailure, Pending
<1> QED
  BY <1>1, ReportedKeeps DEF WriteFailure, queue, broker, printer

\* A crash empties what was in memory; every task goes back to waiting.
LEMMA CrashKeeps == ASSUME IInv, Crash PROVE IInv'
<1> DEFINE back(s) == [task[s] EXCEPT !.stage = "waiting"]
<1>1. /\ task' = [s \in Slots |-> IF task[s] = None THEN None ELSE back(s)]
      /\ UNCHANGED <<row, wire>>
      /\ adding' = {} /\ failing' = {}
      /\ buffer' = [j \in Jobs |-> 0]
      /\ reports' \subseteq reports
  BY DEF Crash, Lose
<1>2. \A s \in Slots : task[s] # None => back(s) \in Task /\ back(s).job = task[s].job
  BY DEF IInv, Shape, Task
<1> HIDE DEF back
<1>3. Shape'
  BY <1>1, <1>2 DEF IInv, Shape
<1>4. Traces'
  BY <1>1 DEF IInv, Traces
<1>5. \A j \in Jobs : Live(j)' <=> Live(j)
  BY <1>1, <1>2, NoneAssumption DEF Live
<1>6. \A j \in Jobs : Pending(j)' => Pending(j)
  BY <1>1, <1>5 DEF Pending
<1> QED
  BY <1>1, <1>3, <1>4, <1>5, <1>6, QuietKeeps DEF IInv, PendingHaveRows

\* The broker going away, and a step of nothing, touch no job.
LEMMA StillKeeps ==
    ASSUME IInv, UNCHANGED <<row, adding, task, buffer, wire, failing, reports>>
    PROVE  IInv'
<1>1. Shape' /\ Traces'
  BY DEF IInv, Shape, Traces
<1>2. \A j \in Jobs : Live(j)' <=> Live(j)
  BY DEF Live
<1>3. \A j \in Jobs : Pending(j)' => row'[j] # None
  BY <1>2 DEF IInv, PendingHaveRows, Pending
<1> QED
  BY <1>1, <1>2, <1>3, QuietKeeps
--------------------------------------------------------------------------------
LEMMA StepIInv == IInv /\ [Next]_vars => IInv'
<1> SUFFICES ASSUME IInv, [Next]_vars PROVE IInv'
  OBVIOUS
<1>1. ASSUME NEW j \in Jobs, Create(j) PROVE IInv'
  BY <1>1, QueuedKeeps DEF Create, broker, printer
<1>2. ASSUME NEW j \in Jobs, Requeue(j) PROVE IInv'
  BY <1>2, QueuedKeeps DEF Requeue, broker, printer
<1>3. ASSUME NEW j \in Jobs, AddTask(j) PROVE IInv'
  BY <1>3, AddTaskKeeps
<1>4. ASSUME NEW j \in Jobs, Deliver(j) PROVE IInv'
  BY <1>4, DeliverKeeps
<1>5. ASSUME NEW j \in Jobs, Report(j) PROVE IInv'
  BY <1>5, ReportKeeps
<1>6. ASSUME NEW j \in Jobs, WriteFailure(j) PROVE IInv'
  BY <1>6, WriteFailureKeeps
<1>7. ASSUME NEW s \in Slots, Work(s) PROVE IInv'
  BY <1>7, StartKeeps, PublishKeeps, RecordKeeps DEF Work
<1>8. CASE GoOffline
  BY <1>8, StillKeeps DEF GoOffline, queue, printer
<1>9. CASE Connect
  BY <1>9, ConnectKeeps
<1>10. CASE Crash
  BY <1>10, CrashKeeps
<1>11. CASE UNCHANGED vars
  BY <1>11, StillKeeps DEF vars, queue, broker, printer
<1> QED
  BY <1>1, <1>2, <1>3, <1>4, <1>5, <1>6, <1>7, <1>8, <1>9, <1>10, <1>11 DEF Next

\* The inductive invariant holds in every reachable state of the print queue.
THEOREM PrintInvariant == Spec => []IInv
<1> QED
  BY InitIInv, StepIInv, PTL DEF Spec

\* A job shown as being retried has a task that will try it: no crash, requeue or
\* report takes a job's last task away while its row still reads 'retrying'
\* (print-queue.processor.ts and the queue's stalled sweep).
THEOREM PrintRetryingIsWorked == Spec => []RetryingIsWorked
<1>1. IInv => RetryingIsWorked
  BY DEF IInv
<1> QED
  BY <1>1, PrintInvariant, PTL
--------------------------------------------------------------------------------
\* A ticket has arrived at the printer, or is under way to it.
Arrives(j) == j \in printed \cup botched \/ buffer[j] + wire[j] > 0

\* A job is shown as sent, or soon will be: a worker has published it and not yet
\* recorded it, or the printer's report that it is done has not been handled.
Claimed(j) ==
    \/ row[j] # None /\ row[j].status = "sent"
    \/ \E s \in Slots : task[s] # None /\ task[s].job = j /\ task[s].stage = "ok"
    \/ <<j, "done">> \in reports

ClaimsArrive == crashes = 0 /\ \A j \in Jobs : Claimed(j) => Arrives(j)

\* A step that brings no printer's ticket back and claims no job that does not arrive.
LEMMA ClaimsKept ==
    ASSUME ClaimsArrive, UNCHANGED crashes,
           \A j \in Jobs : Arrives(j) => Arrives(j)',
           \A j \in Jobs : Claimed(j)' => Claimed(j) \/ Arrives(j)'
    PROVE  ClaimsArrive'
  BY DEF ClaimsArrive

\* The tickets stay where they are.
LEMMA StaysPut ==
    ASSUME UNCHANGED <<buffer, wire, printed, botched>>
    PROVE  \A j \in Jobs : Arrives(j) <=> Arrives(j)'
  BY DEF Arrives

LEMMA WorkArrives ==
    ASSUME IInv, ClaimsArrive, NEW s \in Slots, Work(s) PROVE ClaimsArrive'
<1> DEFINE t == task[s]
           j == t.job
<1>1. Shape /\ Traces
  BY DEF IInv
<1>2. t # None /\ t \in Task /\ j \in Jobs
  BY <1>1 DEF Work, Start, Publish, Record, Shape, Task
<1>3. CASE Start(s)
  <2>1. /\ UNCHANGED <<buffer, wire, printed, botched, reports, crashes>>
        /\ task' = [task EXCEPT ![s] = [t EXCEPT !.stage = "started"]]
        /\ row' = [row EXCEPT ![j] = [status |-> "retrying", attempts |-> t.made + 1]]
    BY <1>3 DEF Start, broker, printer, bounds
  <2>2. task'[s].stage = "started" /\ \A r \in Slots : r # s => task'[r] = task[r]
    BY <1>1, <1>2, <2>1 DEF Shape, Task
  <2>3. row'[j].status = "retrying" /\ \A k \in Jobs : k # j => row'[k] = row[k]
    BY <1>1, <1>2, <2>1 DEF Shape
  <2>4. \A k \in Jobs : Claimed(k)' => Claimed(k)
    BY <2>1, <2>2, <2>3 DEF Claimed
  <2> QED
    BY <2>1, <2>4, StaysPut, ClaimsKept
<1>4. CASE Publish(s)
  <2>1. /\ UNCHANGED <<row, printed, botched, reports, crashes>>
        /\ \E stage \in {"ok", "unsent", "threw"}, sent \in {0, 1}, kept \in {0, 1} :
             /\ task' = [task EXCEPT ![s] = [t EXCEPT !.stage = stage]]
             /\ wire' = [wire EXCEPT ![j] = @ + sent]
             /\ buffer' = [buffer EXCEPT ![j] = @ + kept]
             /\ stage = "ok" => sent + kept > 0
    BY <1>4 DEF Publish, bounds
  <2>2. PICK stage \in {"ok", "unsent", "threw"}, sent \in {0, 1}, kept \in {0, 1} :
             /\ task' = [task EXCEPT ![s] = [t EXCEPT !.stage = stage]]
             /\ wire' = [wire EXCEPT ![j] = @ + sent]
             /\ buffer' = [buffer EXCEPT ![j] = @ + kept]
             /\ stage = "ok" => sent + kept > 0
    BY <2>1
  <2>3. /\ task'[s].stage = stage /\ task'[s].job = j
        /\ \A r \in Slots : r # s => task'[r] = task[r]
    BY <1>1, <1>2, <2>2 DEF Shape, Task
  <2>4. /\ wire'[j] = wire[j] + sent /\ buffer'[j] = buffer[j] + kept
        /\ \A k \in Jobs : /\ wire[k] \in Nat /\ buffer[k] \in Nat
                           /\ k # j => wire'[k] = wire[k] /\ buffer'[k] = buffer[k]
    BY <1>1, <1>2, <2>2 DEF Traces
  <2>5. \A k \in Jobs : Arrives(k) => Arrives(k)'
    BY <1>2, <2>1, <2>4 DEF Arrives
  <2>6. stage = "ok" => Arrives(j)'
    BY <1>2, <2>2, <2>4 DEF Arrives
  <2>7. \A k \in Jobs : Claimed(k)' => Claimed(k) \/ Arrives(k)'
    BY <2>1, <2>3, <2>6 DEF Claimed
  <2> QED
    BY <2>1, <2>5, <2>7, ClaimsKept
<1>5. CASE Record(s)
  <2>1. /\ UNCHANGED <<buffer, wire, printed, botched, reports, crashes>>
        /\ row' = [row EXCEPT ![j] =
                     [ status |-> IF t.stage = "ok" THEN "sent" ELSE "failed",
                       attempts |-> t.made + 1 ]]
        /\ \/ task' = [task EXCEPT ![s] = None]
           \/ task' = [task EXCEPT ![s] = [t EXCEPT !.made = @ + 1, !.stage = "waiting"]]
    BY <1>5 DEF Record, broker, printer, bounds
  <2>2. /\ \A r \in Slots : r # s => task'[r] = task[r]
        /\ task'[s] = None \/ task'[s].stage = "waiting"
    BY <1>1, <1>2, <2>1 DEF Shape, Task
  <2>3. /\ row'[j].status = IF t.stage = "ok" THEN "sent" ELSE "failed"
        /\ \A k \in Jobs : k # j => row'[k] = row[k]
    BY <1>1, <1>2, <2>1 DEF Shape
  <2>4. t.stage = "ok" => Claimed(j)
    BY <1>2 DEF Claimed
  <2>5. \A k \in Jobs : Claimed(k)' => Claimed(k)
    BY <2>1, <2>2, <2>3, <2>4 DEF Claimed
  <2> QED
    BY <2>1, <2>5, StaysPut, ClaimsKept
<1> QED
  BY <1>3, <1>4, <1>5 DEF Work

\* A row that is written with another status than sent is not claimed by it.
LEMMA RowWritten ==
    ASSUME Shape, ClaimsArrive, NEW j \in Jobs, NEW new, new.status # "sent",
           row' = [row EXCEPT ![j] = new], reports' \subseteq reports,
           \A s \in Slots : task'[s] = task[s],
           UNCHANGED <<buffer, wire, printed, botched, crashes>>
    PROVE  ClaimsArrive'
<1>1. row'[j] = new /\ \A k \in Jobs : k # j => row'[k] = row[k]
  BY DEF Shape
<1>2. \A k \in Jobs : Claimed(k)' => Claimed(k)
  BY <1>1 DEF Claimed
<1> QED
  BY <1>2, StaysPut, ClaimsKept

LEMMA JobArrives ==
    ASSUME IInv, ClaimsArrive, NEW j \in Jobs,
           \/ Create(j) \/ Requeue(j) \/ AddTask(j) \/ Deliver(j) \/ Report(j)
           \/ WriteFailure(j)
    PROVE  ClaimsArrive'
<1>1. Shape /\ Traces
  BY DEF IInv
<1>2. CASE Create(j) \/ Requeue(j)
  <2> DEFINE new == [status |-> "queued", attempts |-> 0]
  <2>1. row' = [row EXCEPT ![j] = new] /\ new.status # "sent"
        /\ UNCHANGED <<task, reports, buffer, wire, printed, botched, crashes>>
    BY <1>2 DEF Create, Requeue, broker, printer, bounds
  <2> HIDE DEF new
  <2> QED
    BY <1>1, <2>1, RowWritten
<1>3. CASE AddTask(j)
  <2>1. PICK s \in Slots :
          /\ task[s] = None
          /\ task' = [task EXCEPT ![s] = [job |-> j, made |-> 0, stage |-> "waiting"]]
    BY <1>3 DEF AddTask
  <2>2. UNCHANGED <<row, reports, buffer, wire, printed, botched, crashes>>
    BY <1>3 DEF AddTask, broker, printer, bounds
  <2>3. task'[s].stage = "waiting" /\ \A r \in Slots : r # s => task'[r] = task[r]
    BY <1>1, <2>1 DEF Shape
  <2>4. \A k \in Jobs : Claimed(k)' => Claimed(k)
    BY <2>2, <2>3 DEF Claimed
  <2> QED
    BY <2>2, <2>4, StaysPut, ClaimsKept
<1>4. CASE Deliver(j)
  <2>1. /\ UNCHANGED <<row, task, buffer, crashes>>
        /\ wire' = [wire EXCEPT ![j] = @ - 1]
        /\ printed \subseteq printed' /\ botched \subseteq botched'
        /\ j \in printed' \cup botched'
        /\ \A k \in Jobs : <<k, "done">> \in reports' => <<k, "done">> \in reports \/ k = j
    BY <1>4 DEF Deliver, queue, broker, bounds
  <2>2. \A k \in Jobs : k # j => wire'[k] = wire[k]
    BY <1>1, <2>1 DEF Traces
  <2>3. Arrives(j)'
    BY <2>1 DEF Arrives
  <2>4. \A k \in Jobs : Arrives(k) => Arrives(k)'
    BY <2>1, <2>2, <2>3 DEF Arrives
  <2>5. \A k \in Jobs : Claimed(k)' => Claimed(k) \/ Arrives(k)'
    BY <2>1, <2>3 DEF Claimed
  <2> QED
    BY <2>1, <2>4, <2>5, ClaimsKept
<1>5. CASE ReportDone(j)
  <2>1. /\ <<j, "done">> \in reports /\ reports' \subseteq reports
        /\ row' = [row EXCEPT ![j].status = "sent"]
        /\ UNCHANGED <<task, buffer, wire, printed, botched, crashes>>
    BY <1>5 DEF ReportDone, Mark, queue, broker, bounds
  <2>2. \A k \in Jobs : k # j => row'[k] = row[k]
    BY <1>1, <2>1 DEF Shape
  <2>3. Claimed(j)
    BY <2>1 DEF Claimed
  <2>4. \A k \in Jobs : Claimed(k)' => Claimed(k)
    BY <2>1, <2>2, <2>3 DEF Claimed
  <2> QED
    BY <2>1, <2>4, StaysPut, ClaimsKept
<1>6. CASE \E kind \in {"discard", "error"} : ReportFailure(j, kind)
  <2>1. /\ reports' \subseteq reports
        /\ UNCHANGED <<row, task, buffer, wire, printed, botched, crashes>>
    BY <1>6 DEF ReportFailure, queue, broker, bounds
  <2>2. \A k \in Jobs : Claimed(k)' => Claimed(k)
    BY <2>1 DEF Claimed
  <2> QED
    BY <2>1, <2>2, StaysPut, ClaimsKept
<1>7. CASE WriteFailure(j)
  <2>1. row[j] \in Row
    BY <1>1, <1>7 DEF WriteFailure, IInv, PendingHaveRows, Pending, Shape
  <2> DEFINE new == [row[j] EXCEPT !.status = "failed"]
  <2>2. new.status # "sent"
    BY <2>1 DEF Row
  <2>3. row' = [row EXCEPT ![j] = new]
        /\ UNCHANGED <<task, reports, buffer, wire, printed, botched, crashes>>
    BY <1>7 DEF WriteFailure, Mark, queue, broker, printer, bounds
  <2> HIDE DEF new
  <2> QED
    BY <1>1, <2>2, <2>3, RowWritten
<1> QED
  BY <1>2, <1>3, <1>4, <1>5, <1>6, <1>7 DEF Report

LEMMA StepArrives ==
    ASSUME IInv, ClaimsArrive, [Next]_vars, ~Crash PROVE ClaimsArrive'
<1>1. CASE GoOffline \/ UNCHANGED vars
  <2>1. UNCHANGED <<row, task, reports, buffer, wire, printed, botched, crashes>>
    BY <1>1 DEF GoOffline, vars, queue, broker, printer, bounds
  <2> QED
    BY <2>1 DEF ClaimsArrive, Claimed, Arrives
<1>2. CASE Connect
  <2>1. PICK kept \in [Jobs -> 0 .. BufferSize] :
          /\ \A j \in Jobs : kept[j] <= buffer[j]
          /\ buffer' = kept
          /\ wire' = [j \in Jobs |-> wire[j] + buffer[j] - kept[j]]
    BY <1>2 DEF Connect
  <2>2. UNCHANGED <<row, task, reports, printed, botched, crashes>>
    BY <1>2 DEF Connect, queue, bounds
  <2>3. \A j \in Jobs : buffer'[j] + wire'[j] = buffer[j] + wire[j]
    <3> SUFFICES ASSUME NEW j \in Jobs PROVE buffer'[j] + wire'[j] = buffer[j] + wire[j]
      OBVIOUS
    <3>1. buffer[j] \in Nat /\ wire[j] \in Nat /\ kept[j] \in Int
      BY <2>1, PrintAssumption DEF IInv, Traces
    <3> QED
      BY <2>1, <3>1
  <2>4. \A j \in Jobs : (Claimed(j)' <=> Claimed(j)) /\ (Arrives(j)' <=> Arrives(j))
    BY <2>2, <2>3 DEF Claimed, Arrives
  <2> QED
    BY <2>2, <2>4, ClaimsKept
<1> QED
  BY <1>1, <1>2, WorkArrives, JobArrives DEF Next

\* Nothing but a crash counts as one.
LEMMA CrashesCount ==
    ASSUME [Next]_vars PROVE crashes' = crashes \/ Crash
<1>1. ASSUME NEW s \in Slots, Work(s) PROVE crashes' = crashes
  BY <1>1 DEF Work, Start, Publish, Record, bounds
<1>2. ASSUME NEW j \in Jobs,
             Create(j) \/ Requeue(j) \/ AddTask(j) \/ Deliver(j) \/ Report(j) \/ WriteFailure(j)
      PROVE  crashes' = crashes
  BY <1>2 DEF Create, Requeue, AddTask, Deliver, Report, ReportDone, ReportFailure,
              WriteFailure, bounds
<1>3. CASE GoOffline \/ Connect \/ UNCHANGED vars
  BY <1>3 DEF GoOffline, Connect, vars, bounds
<1> QED
  BY <1>1, <1>2, <1>3 DEF Next

UntilCrash == crashes \in Nat /\ (crashes = 0 => ClaimsArrive)

\* Until the backend crashes no ticket is lost on the way, however full the buffer and
\* however often a job is requeued: a job shown as sent was printed, is on its way, or
\* the printer said it could not print it (print-queue.processor.ts, mqtt.service.ts,
\* heartbeat.service.ts).
THEOREM PrintSentIsAccountedFor == Spec => []SentIsAccountedFor
<1>1. Init => UntilCrash
  BY DEF Init, UntilCrash, ClaimsArrive, Claimed
<1>2. ASSUME IInv, UntilCrash, [Next]_vars PROVE UntilCrash'
  <2>1. CASE Crash
    <3>1. crashes' = crashes + 1 /\ crashes \in Nat
      BY <1>2, <2>1 DEF Crash, Lose, UntilCrash
    <3> QED
      BY <3>1 DEF UntilCrash
  <2>2. CASE ~Crash
    BY <1>2, <2>2, StepArrives, CrashesCount DEF UntilCrash
  <2> QED
    BY <2>1, <2>2
<1>3. UntilCrash => SentIsAccountedFor
  BY DEF UntilCrash, ClaimsArrive, Claimed, Arrives, SentIsAccountedFor
<1> QED
  BY <1>1, <1>2, <1>3, PrintInvariant, PTL DEF Spec
--------------------------------------------------------------------------------
\* The buffer's packets are a sum over the jobs.
LEMMA BufferedSum == Buffered = SumOver(buffer, Jobs)
<1>1. Buffered = (CHOOSE g : Adds(buffer, Jobs, g))[Jobs]
  BY DEF Adds, Least, Buffered, MapThenSumSet, MapThenFoldSet
<1> QED
  BY <1>1, SumIsChosen

LEMMA BufferedSumNext == Buffered' = SumOver(buffer', Jobs)
<1>1. Buffered' = (CHOOSE g : Adds(buffer', Jobs, g))[Jobs]
  BY DEF Adds, Least, Buffered, MapThenSumSet, MapThenFoldSet
<1> QED
  BY <1>1, SumIsChosen

\* What the first invariant leaves open of the types.
Kept ==
    /\ online \in BOOLEAN
    /\ printed \subseteq Jobs /\ botched \subseteq Jobs
    /\ SumOver(buffer, Jobs) <= BufferSize

\* Only a publish with room in the buffer adds to it, and it adds one packet.
LEMMA PublishFits ==
    ASSUME IsFiniteSet(Jobs), IInv, Kept, NEW s \in Slots, Publish(s)
    PROVE  SumOver(buffer', Jobs) <= BufferSize
<1> DEFINE j == task[s].job
           n == SumOver(buffer, Jobs)
<1>1. j \in Jobs
  BY DEF Publish, IInv, Shape, Task
<1>2. PICK held \in {0, 1} : buffer' = [buffer EXCEPT ![j] = @ + held]
                             /\ (held = 1 => Buffered < BufferSize)
  BY DEF Publish
<1>3. /\ \A k \in Jobs : buffer[k] \in Int /\ buffer'[k] \in Int
      /\ \A k \in Jobs \ {j} : buffer'[k] = buffer[k]
      /\ buffer'[j] = buffer[j] + held
  BY <1>1, <1>2 DEF IInv, Traces
<1>4. n \in Int
  BY <1>3, SumType
<1> HIDE DEF j
<1>5. SumOver(buffer', Jobs) = n + buffer'[j] - buffer[j]
  BY <1>1, <1>3, SumChange
<1>6. BufferSize \in Nat /\ n <= BufferSize
  BY PrintAssumption DEF Kept
<1>7. held = 1 => n < BufferSize
  BY <1>2, BufferedSum
<1> HIDE DEF n
<1> QED
  BY <1>1, <1>3, <1>4, <1>5, <1>6, <1>7

LEMMA KeptStep ==
    ASSUME IsFiniteSet(Jobs), IInv, Kept, [Next]_vars
    PROVE  Kept'
<1>1. \A j \in Jobs : buffer[j] \in Int
  BY DEF IInv, Traces
<1>2. SumOver(buffer, Jobs) <= BufferSize /\ BufferSize \in Nat
  BY PrintAssumption DEF Kept
<1>3. ASSUME UNCHANGED <<broker, printed, botched>> PROVE Kept'
  BY <1>3 DEF Kept, broker
<1>4. ASSUME NEW j \in Jobs,
             \/ Create(j) \/ Requeue(j) \/ AddTask(j) \/ Report(j) \/ WriteFailure(j)
      PROVE  Kept'
  BY <1>3, <1>4 DEF Create, Requeue, AddTask, Report, ReportDone, ReportFailure,
                    WriteFailure, printer
<1>5. ASSUME NEW j \in Jobs, Deliver(j) PROVE Kept'
  BY <1>5 DEF Deliver, Kept, broker
<1>6. ASSUME NEW s \in Slots, Work(s) PROVE Kept'
  <2>1. CASE Publish(s)
    <3>1. UNCHANGED <<online, printed, botched>>
      BY <2>1 DEF Publish
    <3>2. SumOver(buffer', Jobs) <= BufferSize
      BY <2>1, PublishFits
    <3> QED
      BY <3>1, <3>2 DEF Kept
  <2> QED
    BY <1>3, <1>6, <2>1 DEF Work, Start, Record, printer
<1>7. CASE GoOffline
  BY <1>7 DEF GoOffline, Kept, printer
<1>8. CASE Connect
  <2>1. PICK kept \in [Jobs -> 0 .. BufferSize] :
          (\A j \in Jobs : kept[j] <= buffer[j]) /\ buffer' = kept
    BY <1>8 DEF Connect
  <2>2. \A j \in Jobs : kept[j] \in Int
    BY <1>2, <2>1
  <2>3. SumOver(kept, Jobs) <= SumOver(buffer, Jobs)
    BY <1>1, <2>1, <2>2, SumCompare
  <2>4. SumOver(kept, Jobs) \in Int /\ SumOver(buffer, Jobs) \in Int
    BY <1>1, <2>2, SumType
  <2>5. SumOver(buffer', Jobs) <= BufferSize
    BY <1>2, <2>1, <2>3, <2>4
  <2>6. online' = TRUE /\ UNCHANGED <<printed, botched>>
    BY <1>8 DEF Connect
  <2> QED
    BY <2>5, <2>6 DEF Kept
<1>9. CASE Crash
  <2>1. /\ online' = FALSE
        /\ buffer' = [j \in Jobs |-> 0]
        /\ UNCHANGED <<printed, botched>>
    BY <1>9 DEF Crash, Lose
  <2>2. \A j \in Jobs : buffer'[j] = 0
    BY <2>1
  <2>3. SumOver(buffer', Jobs) = 0
    BY ONLY <2>2, SumZero, IsFiniteSet(Jobs)
  <2>4. SumOver(buffer', Jobs) <= BufferSize
    BY ONLY <1>2, <2>3
  <2> QED
    BY ONLY <1>9, <2>4, Kept DEF Kept, Crash, Lose
<1>10. CASE UNCHANGED vars
  BY <1>3, <1>10 DEF vars, printer
<1> QED
  BY <1>4, <1>5, <1>6, <1>7, <1>8, <1>9, <1>10 DEF Next

\* Every column of the print queue keeps its type, and however publishes, failed
\* flushes and crashes interleave the packets held for a broker that is away are at
\* most offlineQueueMaxSize (mqtt.service.ts).  The jobs are finitely many, so that
\* their packets can be counted.
THEOREM PrintTypeOK == ASSUME IsFiniteSet(Jobs) PROVE Spec => []TypeOK
<1>1. Init => Kept
  <2> SUFFICES ASSUME Init PROVE Kept
    OBVIOUS
  <2>1. \A j \in Jobs : buffer[j] = 0
    BY DEF Init
  <2>2. SumOver(buffer, Jobs) = 0
    BY <2>1, SumZero
  <2>3. SumOver(buffer, Jobs) <= BufferSize
    BY ONLY <2>2, PrintAssumption
  <2>4. online = FALSE /\ printed = {} /\ botched = {}
    BY DEF Init
  <2> QED
    BY ONLY <2>3, <2>4 DEF Kept
<1>2. IInv /\ Kept /\ [Next]_vars => Kept'
  BY KeptStep
<1>3. IInv /\ Kept => TypeOK
  BY BufferedSum DEF IInv, Shape, Traces, Kept, TypeOK
<1> QED
  BY <1>1, <1>2, <1>3, PrintInvariant, PTL DEF Spec
================================================================================
