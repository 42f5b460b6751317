------------------------------ MODULE KitchenQueue ------------------------------
(***************************************************************************)
(* The register's Bluetooth kitchen printing: PrintQueueService over the   *)
(* print_jobs table (printQueueRepo), poked by Send, by the app coming to  *)
(* the foreground, by the badge of TopBar and by the launch of the app.    *)
(*                                                                         *)
(* JavaScript runs one turn at a time: a drain that is "looping" holds the *)
(* turn, and gives it up only while it awaits the printer.                 *)
(***************************************************************************)
EXTENDS Naturals, FiniteSets

CONSTANTS
    Jobs,         \* tickets, numbered in the order in which they are queued
    Drains,       \* invocations of process that can be in flight at once
    MaxAttempts,  \* MAX_ATTEMPTS
    MaxTaps,      \* bound: taps on the badge and returns to the foreground
    MaxKills,     \* bound: times the app is killed
    Faults        \* what goes wrong: "printer", "paper", "unpaired"

VARIABLES
    app,      \* "up" or "down"
    job,      \* print_jobs, per id: NoJob or a row
    drain,    \* per invocation of process: how far it is
    running,  \* the in-flight guard of the service
    rerun,    \* a caller came while a drain was in flight
    badge,    \* the failed count last given to the listeners
    copies,   \* history: per ticket, how many came out of the printer
    cut,      \* history: tickets cut off by a kill, or reported failed when out
    taps,     \* taps and returns so far
    kills     \* kills so far

vars == <<app, job, drain, running, rerun, badge, copies, cut, taps, kills>>
--------------------------------------------------------------------------------
NoJob == [status |-> "none"]
Idle  == [at |-> "idle"]

Row(status, attempts, paired) == [status |-> status, attempts |-> attempts, paired |-> paired]
Known      == {j \in Jobs : job[j] # NoJob}
With(s)    == {j \in Known : job[j].status \in s}
Claimable  == With({"queued", "failed"})
Exhausted  == {j \in Known : job[j].attempts >= MaxAttempts}
FailedCount(rows) == Cardinality({j \in Jobs : rows[j].status = "failed"})

At(d, where) == drain[d] # Idle /\ drain[d].at = where

\* The turn is free for the next event.
Free == app = "up" /\ \A d \in Drains : ~At(d, "looping")

Loop(todo) == [at |-> "looping", todo |-> todo]

\* Mutant: every caller starts a drain.
ProcessUnguarded(rows) ==
    /\ running' = TRUE /\ rerun' = FALSE
    /\ \E d \in Drains :
         /\ drain[d] = Idle
         /\ drain' = [drain EXCEPT ![d] =
              Loop({j \in Jobs : rows[j].status \in {"queued", "failed"}})]

\* process: one drain at a time; a caller that finds one leaves a note.
Process(rows) ==
    IF running
      THEN rerun' = TRUE /\ UNCHANGED <<running, drain>>
      ELSE /\ running' = TRUE /\ rerun' = FALSE
           /\ \E d \in Drains :
                /\ drain[d] = Idle
                /\ drain' = [drain EXCEPT ![d] =
                     Loop({j \in Jobs : rows[j].status \in {"queued", "failed"}})]

Init ==
    /\ app = "up"
    /\ job = [j \in Jobs |-> NoJob]
    /\ drain = [d \in Drains |-> Idle]
    /\ running = FALSE /\ rerun = FALSE
    /\ badge = 0
    /\ copies = [j \in Jobs |-> 0]
    /\ cut = {}
    /\ taps = 0 /\ kills = 0
--------------------------------------------------------------------------------
\* enqueueOrder, for one station: with no printer paired the job has no target.
Enqueue(j) ==
    /\ Free /\ job[j] = NoJob
    /\ \A i \in Jobs : i < j => job[i] # NoJob
    /\ \E paired \in BOOLEAN :
         /\ paired \/ "unpaired" \in Faults
         /\ job' = [job EXCEPT ![j] = Row("queued", 0, paired)]
    /\ badge' = FailedCount(job')
    /\ Process(job')
    /\ UNCHANGED <<app, copies, cut, taps, kills>>

\* retryAllFailed: every failed ticket back in line, its attempts as they are.
RetryAllFailed ==
    /\ Free /\ taps < MaxTaps
    /\ With({"failed"}) # {}
    /\ taps' = taps + 1
    /\ job' = [j \in Jobs |->
                 IF j \in With({"failed"}) THEN [job[j] EXCEPT !.status = "queued"] ELSE job[j]]
    /\ badge' = FailedCount(job')
    /\ Process(job')
    /\ UNCHANGED <<app, copies, cut, kills>>

Mark(j, status, more) ==
    job' = [job EXCEPT ![j].status = status,
                       ![j].attempts = IF @ < MaxAttempts THEN @ + more ELSE @]

\* One turn of the loop of process, over the jobs as it selected them, oldest first.
Step(d) ==
    /\ At(d, "looping")
    /\ \E j \in drain[d].todo :
         LET rest == drain[d].todo \ {j} IN
         /\ \A k \in rest : j < k
         /\ \/ /\ ~job[j].paired
               /\ Mark(j, "failed", 1)
               /\ drain' = [drain EXCEPT ![d] = Loop(rest)]
            \/ /\ job[j].paired /\ j \in Exhausted
               /\ drain' = [drain EXCEPT ![d] = Loop(rest)]
               /\ UNCHANGED job
            \/ /\ job[j].paired /\ j \notin Exhausted
               /\ Mark(j, "printing", 0)
               /\ drain' = [drain EXCEPT ![d] = [at |-> "printer", job |-> j, todo |-> rest]]
    /\ UNCHANGED <<app, running, rerun, badge, copies, cut, taps, kills>>

\* printLines answers; a printer that broke off after the last line printed it.
Printed(d) ==
    /\ Free /\ At(d, "printer")
    /\ Mark(drain[d].job, "printed", 1)
    /\ copies' = [copies EXCEPT ![drain[d].job] = @ + 1]
    /\ drain' = [drain EXCEPT ![d] = Loop(drain[d].todo)]
    /\ UNCHANGED <<app, running, rerun, badge, cut, taps, kills>>

PrintFails(d) ==
    /\ Free /\ At(d, "printer")
    /\ LET j == drain[d].job IN
       /\ Mark(j, "failed", 1)
       /\ \/ "printer" \in Faults /\ UNCHANGED <<copies, cut>>
          \/ "paper" \in Faults /\ copies' = [copies EXCEPT ![j] = @ + 1] /\ cut' = cut \cup {j}
    /\ drain' = [drain EXCEPT ![d] = Loop(drain[d].todo)]
    /\ UNCHANGED <<app, running, rerun, badge, taps, kills>>

\* The end of a pass: another one if somebody asked, else the guard is released.
EndPass(d) ==
    /\ At(d, "looping") /\ drain[d].todo = {}
    /\ IF rerun
         THEN /\ rerun' = FALSE
              /\ drain' = [drain EXCEPT ![d] = Loop(Claimable)]
              /\ UNCHANGED <<running, badge>>
         ELSE /\ running' = FALSE
              /\ drain' = [drain EXCEPT ![d] = Idle]
              /\ badge' = FailedCount(job)
              /\ UNCHANGED rerun
    /\ UNCHANGED <<app, job, copies, cut, taps, kills>>

\* The app dies with the ticket it was printing out, or not.
Kill ==
    /\ app = "up" /\ kills < MaxKills
    /\ app' = "down" /\ kills' = kills + 1
    /\ running' = FALSE /\ rerun' = FALSE
    /\ drain' = [d \in Drains |-> Idle]
    /\ LET out == {drain[d].job : d \in {e \in Drains : At(e, "printer")}} IN
       /\ cut' = cut \cup out
       /\ \E done \in SUBSET out :
            copies' = [j \in Jobs |-> IF j \in done THEN copies[j] + 1 ELSE copies[j]]
    /\ UNCHANGED <<job, badge, taps>>

\* recoverAndProcess at launch: what was printing has failed.
Launch ==
    /\ app = "down"
    /\ app' = "up"
    /\ job' = [j \in Jobs |->
                 IF j \in With({"printing"}) THEN [job[j] EXCEPT !.status = "failed"] ELSE job[j]]
    /\ badge' = FailedCount(job')
    /\ Process(job')
    /\ UNCHANGED <<copies, cut, taps, kills>>

Go(d) == Step(d) \/ Printed(d) \/ PrintFails(d) \/ EndPass(d)

Next ==
    \/ \E j \in Jobs : Enqueue(j)
    \/ \E d \in Drains : Go(d)
    \/ RetryAllFailed \/ Kill \/ Launch

\* The event loop goes on with a drain, the printer answers or times out, and an
\* app that was killed is started again.
Fairness == (\A d \in Drains : WF_vars(Go(d))) /\ WF_vars(Launch)

Spec == Init /\ [][Next]_vars /\ Fairness
--------------------------------------------------------------------------------
Status == {"queued", "printing", "printed", "failed"}
Drain  == [at : {"looping"}, todo : SUBSET Jobs]
          \cup [at : {"printer"}, job : Jobs, todo : SUBSET Jobs]

TypeOK ==
    /\ app \in {"up", "down"}
    /\ job \in [Jobs -> {NoJob} \cup
                 [status : Status, attempts : 0..MaxAttempts, paired : BOOLEAN]]
    /\ drain \in [Drains -> Drain \cup {Idle}]
    /\ running \in BOOLEAN /\ rerun \in BOOLEAN
    /\ badge \in 0..Cardinality(Jobs)
    /\ copies \in [Jobs -> Nat]
    /\ cut \subseteq Jobs
    /\ taps \in 0..MaxTaps /\ kills \in 0..MaxKills

\* Two connects at once wedge the adapter: however many callers poke the queue, at
\* most one of their drains is at the printer, and the row it prints says so.
OneAtATime ==
    /\ \A d, e \in Drains : At(d, "printer") /\ At(e, "printer") => d = e
    /\ app = "up" => With({"printing"}) = {drain[d].job : d \in {e \in Drains : At(e, "printer")}}

\* A ticket that is queued while a drain is in flight is not left behind: when the
\* queue comes to rest there is none in line that may still be tried.
NoneLeftBehind ==
    app = "up" /\ ~running => With({"queued"}) \subseteq Exhausted

\* At rest the badge shows every failed ticket, whatever failed since it was drawn.
BadgeIsTrue ==
    app = "up" /\ ~running => badge = FailedCount(job)

\* A dish is cooked once: a ticket comes out twice only after a kill at the printer
\* or a failure reported by a printer that had it out, and the table says printed
\* only of what came out.
CookedOnce ==
    \A j \in Known :
        /\ j \notin cut => copies[j] <= 1
        /\ job[j].status = "printed" => copies[j] >= 1

\* The kitchen is served, and staff are told when it is not: the four together.
KitchenIsServed == OneAtATime /\ NoneLeftBehind /\ BadgeIsTrue /\ CookedOnce

\* Every ticket that is queued is tried, and ends printed, failed or given up.
EveryTicketIsTried ==
    \A j \in Jobs :
        job[j].status = "queued" ~>
            job[j].status \in {"printed", "failed"} \/ j \in Exhausted

\* Not kept by the code: at rest, a ticket that is not on paper is loud.
StuckIsLoud ==
    app = "up" /\ ~running => \A j \in Known : job[j].status \in {"printed", "failed"}
================================================================================
