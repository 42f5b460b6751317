----------------------------- MODULE Provisioning -----------------------------
(***************************************************************************)
(* A new organization and its first location: ProvisioningService writes   *)
(* the rows and adds a job, ProvisioningProcessor works off the steps with *)
(* the telephone vendor, and the operator retries, skips and deprovisions  *)
(* over HTTP meanwhile.  The worker takes one job at a time (BullMQ's      *)
(* default).  Numbers and assistants at the vendor cost money and outlive  *)
(* the rows.                                                               *)
(***************************************************************************)
EXTENDS Naturals, FiniteSets

CONSTANTS
    Jobs,         \* jobs of the provisioning queue
    FirstJob,     \* the one createOrganizationProvisioning adds
    Faults,       \* "vendor", "lost", "mail", "delete", "queue", "die"
    MaxAttempts,  \* attempts of a job (queues.module.ts)
    MaxStalls,    \* deaths of its worker a job survives (BullMQ's default is 1)
    MaxDemands,   \* bound: requests of the operator
    MaxMishaps    \* bound: things that go wrong at the vendor, the mail or the worker

VARIABLES
    reuse,     \* the location takes over the number of its base agent
    org,       \* organizations: status, deletedAt
    loc,       \* locations: status, provisioningError, number, assistant
    step,      \* org_provisioning_steps: status and metadata per step
    job,       \* per job: state, failed attempts, deaths, whether it has adminEmail
    run,       \* the job under way: what it has read, where it is
    ask,       \* the operator's request under way: where it is, what it has read
    demands,   \* requests made so far
    vendor,    \* numbers and assistants bought, those that exist, the routing
    invited,   \* rows of org_invitations
    skipped,   \* history: steps the operator skipped
    mishaps,   \* things that went wrong so far
    loose      \* history: what the vendor holds and no row will ever release

vars == <<reuse, org, loc, step, job, run, ask, demands, vendor, invited,
          skipped, mishaps, loose>>
--------------------------------------------------------------------------------
Line == <<"search", "purchase", "clone", "assign", "configure", "menu",
          "webhook", "invite">>
StepNames == {Line[i] : i \in 1..8}

Nil       == 0  \* no number, no assistant
BaseNumber == 1  \* the number of the base agent; bought ones follow
Unread     == {"null"}  \* metadata of a row that has none

NoRun == [pc |-> "none"]
NoAsk == [pc |-> "none"]

Busy    == run # NoRun
Now     == Line[run.at]
Prev(s) == run.seen[s].meta \ Unread
At(pc)  == Busy /\ run.pc = pc
In(s)   == At("work") /\ Now = s
RunTo(pc, m) == run' = [run EXCEPT !.pc = pc, !.meta = m]
AskTo(pc)    == ask' = [ask EXCEPT !.pc = pc]

\* The archive has read the row, or is done: what the row gets now it misses.
Archiving == org.deleted \/ ask.pc \in {"number", "agent", "org", "location"}
Mishap(kind) == kind \in Faults /\ mishaps < MaxMishaps /\ mishaps' = mishaps + 1
Note(kind, id, when) == loose' = IF when THEN loose \cup {<<kind, id>>} ELSE loose

\* The transaction and, unless the process dies between the two, the job.
Init ==
    /\ reuse \in BOOLEAN
    /\ org = [status |-> "provisioning", deleted |-> FALSE]
    /\ loc = [status |-> "provisioning", error |-> FALSE, assistant |-> Nil,
              number |-> IF reuse THEN BaseNumber ELSE Nil]
    /\ step = [s \in StepNames |->
                 [status |-> IF reuse /\ s \in {"search", "purchase"}
                               THEN "absent" ELSE "pending",
                  meta |-> Unread]]
    /\ job \in {[j \in Jobs |->
                   [state |-> IF j = FirstJob THEN s ELSE "none", failed |-> 0,
                    died |-> 0, email |-> j = FirstJob]] :
                  s \in {"waiting"} \cup (IF "queue" \in Faults THEN {"none"} ELSE {})}
    /\ run = NoRun
    /\ ask = NoAsk
    /\ demands = 0
    /\ vendor = [bought |-> 0, cloned |-> 0, agents |-> {}, routed |-> "none",
                 numbers |-> IF reuse THEN {BaseNumber} ELSE {}]
    /\ invited = 0
    /\ skipped = {}
    /\ mishaps = 0
    /\ loose = {}
--------------------------------------------------------------------------------
\* process: the steps are read once, for the whole attempt.
Begin(j) ==
    /\ ~Busy /\ job[j].state = "waiting"
    /\ job' = [job EXCEPT ![j].state = "active"]
    /\ run' = [pc |-> "next", job |-> j, seen |-> step, at |-> 0, meta |-> {}]
    /\ UNCHANGED <<reuse, org, loc, step, ask, demands, vendor, invited, skipped, mishaps, loose>>

\* The next step that was open when the attempt began, or the end of the list.
NextStep ==
    LET open == {i \in (run.at + 1)..8 :
                   run.seen[Line[i]].status \notin {"completed", "skipped", "absent"}}
    IN /\ At("next")
       /\ IF open = {}
            THEN RunTo("activate", {}) /\ UNCHANGED step
            ELSE LET i == CHOOSE i \in open : \A k \in open : i <= k
                 IN /\ step' = [step EXCEPT ![Line[i]].status = "in_progress"]
                    /\ run' = [run EXCEPT !.pc = "work", !.at = i,
                                          !.meta = run.seen[Line[i]].meta \ Unread]
       /\ UNCHANGED <<reuse, org, loc, job, ask, demands, vendor, invited, skipped, mishaps, loose>>

\* searchPhoneNumber: the number given, or one the vendor offers.
Search ==
    /\ In("search")
    /\ RunTo("done", run.meta \cup {"number"})
    /\ UNCHANGED <<reuse, org, loc, step, job, ask, demands, vendor, invited, skipped, mishaps, loose>>

\* purchasePhoneNumber: a location that holds a number buys none.
KeepNumber ==
    /\ In("purchase") /\ loc.number # Nil
    /\ RunTo("done", run.meta)
    /\ UNCHANGED <<reuse, org, loc, step, job, ask, demands, vendor, invited, skipped, mishaps, loose>>
\* Mutant: the location's number is not looked at.
BuyNumberAgain ==
    /\ In("purchase") /\ "number" \in Prev("search")
    /\ vendor' = [vendor EXCEPT !.bought = @ + 1,
                                !.numbers = @ \cup {vendor.bought + 2}]
    /\ RunTo("ordered", run.meta)
    /\ UNCHANGED <<reuse, org, loc, step, job, ask, demands, invited, skipped, mishaps, loose>>
BuyNumber ==
    /\ In("purchase") /\ loc.number = Nil /\ "number" \in Prev("search")
    /\ vendor' = [vendor EXCEPT !.bought = @ + 1,
                                !.numbers = @ \cup {vendor.bought + 2}]
    /\ RunTo("ordered", run.meta)
    /\ UNCHANGED <<reuse, org, loc, step, job, ask, demands, invited, skipped, mishaps, loose>>
SaveNumber ==
    /\ At("ordered")
    /\ loc' = [loc EXCEPT !.number = vendor.bought + 1]
    /\ RunTo("done", run.meta)
    /\ Note("number", vendor.bought + 1, Archiving)
    /\ UNCHANGED <<reuse, org, step, job, ask, demands, vendor, invited, skipped, mishaps>>

\* cloneAgent: a location that has an assistant clones none, and does not learn
\* the telephony app of the one it has.
KeepAgent ==
    /\ In("clone") /\ loc.assistant # Nil
    /\ RunTo("done", run.meta \cup {"assistant"})
    /\ UNCHANGED <<reuse, org, loc, step, job, ask, demands, vendor, invited, skipped, mishaps, loose>>
CloneAgent ==
    /\ In("clone") /\ loc.assistant = Nil
    /\ vendor' = [vendor EXCEPT !.cloned = @ + 1,
                                !.agents = @ \cup {vendor.cloned + 1}]
    /\ RunTo("cloned", run.meta \cup {"assistant", "app"})
    /\ UNCHANGED <<reuse, org, loc, step, job, ask, demands, invited, skipped, mishaps, loose>>
SaveAgent ==
    /\ At("cloned")
    /\ loc' = [loc EXCEPT !.assistant = vendor.cloned]
    /\ RunTo("done", run.meta)
    /\ Note("agent", vendor.cloned, Archiving)
    /\ UNCHANGED <<reuse, org, step, job, ask, demands, vendor, invited, skipped, mishaps>>

\* assignPhoneToAgent: through the clone's own app if this attempt has read it,
\* else through the one of the configuration.
Assign ==
    /\ In("assign") /\ loc.number \in vendor.numbers
    /\ vendor' = [vendor EXCEPT !.routed =
                    IF "app" \in Prev("clone") THEN "agent" ELSE "fallback"]
    /\ RunTo("done", run.meta)
    /\ UNCHANGED <<reuse, org, loc, step, job, ask, demands, invited, skipped, mishaps, loose>>

\* configureAgent takes the assistant from what the attempt has read, importMenu
\* adds a job of another queue, registerWebhook takes it from the row.
Configure ==
    /\ \/ In("configure") /\ "assistant" \in Prev("clone") /\ loc.assistant \in vendor.agents
       \/ In("menu")
       \/ In("webhook") /\ loc.assistant \in vendor.agents
    /\ RunTo("done", run.meta)
    /\ UNCHANGED <<reuse, org, loc, step, job, ask, demands, vendor, invited, skipped, mishaps, loose>>

\* sendAdminInvitation: a job without the address completes the step all the same.
Invite ==
    /\ In("invite")
    /\ invited' = IF job[run.job].email THEN invited + 1 ELSE invited
    /\ RunTo("done", run.meta)
    /\ UNCHANGED <<reuse, org, loc, step, job, ask, demands, vendor, skipped, mishaps, loose>>

\* updateStepStatus('completed'); a row that had metadata is changed in memory too.
Complete ==
    /\ At("done")
    /\ step' = [step EXCEPT ![Now] = [status |-> "completed", meta |-> run.meta]]
    /\ run' = [run EXCEPT !.pc = "next", !.seen[Now].meta =
                 IF @ = Unread THEN Unread ELSE run.meta]
    /\ UNCHANGED <<reuse, org, loc, job, ask, demands, vendor, invited, skipped, mishaps, loose>>
--------------------------------------------------------------------------------
\* What a step finds missing: a number nobody searched, an assistant not read,
\* something the vendor no longer has.
Missing ==
    \/ In("purchase") /\ loc.number = Nil /\ "number" \notin Prev("search")
    \/ In("assign") /\ loc.number \notin vendor.numbers
    \/ In("configure") /\ ("assistant" \notin Prev("clone")
                            \/ loc.assistant \notin vendor.agents)
    \/ In("webhook") /\ loc.assistant \notin vendor.agents

\* The catch clause: the step is marked first, then the location.
StepFails ==
    /\ \/ Missing /\ UNCHANGED mishaps
       \/ At("work") /\ Now # "menu" /\ ~Missing /\ Mishap("vendor")
    /\ step' = [step EXCEPT ![Now].status = "failed"]
    /\ RunTo("failing", {})
    /\ UNCHANGED <<reuse, org, loc, job, ask, demands, vendor, invited, skipped, loose>>

\* The mail server refuses after the invitation was written.
MailFails ==
    /\ In("invite") /\ Mishap("mail") /\ job[run.job].email
    /\ invited' = invited + 1
    /\ step' = [step EXCEPT !["invite"].status = "failed"]
    /\ RunTo("failing", {})
    /\ UNCHANGED <<reuse, org, loc, job, ask, demands, vendor, skipped, loose>>

Pending ==
    IF At("ordered") THEN {<<"number", vendor.bought + 1>>}
    ELSE IF At("cloned") THEN {<<"agent", vendor.cloned>>} ELSE {}

\* The order takes more than ten polls, or the vendor's answer is lost.
AnswerLost ==
    /\ Pending # {} /\ Mishap("lost")
    /\ step' = [step EXCEPT ![Now].status = "failed"]
    /\ RunTo("failing", {})
    /\ loose' = loose \cup Pending
    /\ UNCHANGED <<reuse, org, loc, job, ask, demands, vendor, invited, skipped>>

\* The location is put back and the error rethrown, which costs an attempt.
FailLocation ==
    /\ At("failing")
    /\ loc' = [loc EXCEPT !.status = "provisioning", !.error = TRUE]
    /\ job' = [job EXCEPT ![run.job].failed = @ + 1,
                          ![run.job].state =
                            IF job[run.job].failed + 1 < MaxAttempts
                              THEN "waiting" ELSE "failed"]
    /\ run' = NoRun
    /\ UNCHANGED <<reuse, org, step, ask, demands, vendor, invited, skipped, mishaps, loose>>

ActivateLocation ==
    /\ At("activate")
    /\ loc' = [loc EXCEPT !.status = "active"]
    /\ RunTo("finish", {})
    /\ UNCHANGED <<reuse, org, step, job, ask, demands, vendor, invited, skipped, mishaps, loose>>
ActivateOrg ==
    /\ At("finish")
    /\ org' = [org EXCEPT !.status = "active"]
    /\ job' = [job EXCEPT ![run.job].state = "done"]
    /\ run' = NoRun
    /\ UNCHANGED <<reuse, loc, step, ask, demands, vendor, invited, skipped, mishaps, loose>>

\* The worker dies; the stalled job goes back to the queue.
WorkerDies ==
    /\ Busy /\ Mishap("die")
    /\ job' = [job EXCEPT ![run.job].died = @ + 1,
                          ![run.job].state =
                            IF job[run.job].died < MaxStalls THEN "waiting" ELSE "failed"]
    /\ run' = NoRun
    /\ loose' = loose \cup Pending
    /\ UNCHANGED <<reuse, org, loc, step, ask, demands, vendor, invited, skipped>>
--------------------------------------------------------------------------------
Demand == ask = NoAsk /\ demands < MaxDemands /\ demands' = demands + 1
Asked(pc) == ask # NoAsk /\ ask.pc = pc

\* retryProvisioning, alone or at the end of retryStep and skipStep.
Retry ==
    /\ Demand
    /\ ask' = [pc |-> "check"]
    /\ UNCHANGED <<reuse, org, loc, step, job, run, vendor, invited, skipped, mishaps, loose>>
RetryStep(s) ==
    /\ Demand /\ step[s].status # "absent"
    /\ step' = [step EXCEPT ![s].status = "pending"]
    /\ ask' = [pc |-> "check"]
    /\ UNCHANGED <<reuse, org, loc, job, run, vendor, invited, skipped, mishaps, loose>>
SkipStep(s) ==
    /\ Demand /\ step[s].status # "absent"
    /\ step' = [step EXCEPT ![s].status = "completed"]
    /\ skipped' = skipped \cup {s}
    /\ ask' = [pc |-> "check"]
    /\ UNCHANGED <<reuse, org, loc, job, run, vendor, invited, mishaps, loose>>

\* An active location answers 400; a step reset before that stays reset.
RetryCheck ==
    /\ Asked("check")
    /\ ask' = IF loc.status = "active" THEN NoAsk ELSE [pc |-> "mark"]
    /\ UNCHANGED <<reuse, org, loc, step, job, run, demands, vendor, invited, skipped, mishaps, loose>>
RetryMark ==
    /\ Asked("mark")
    /\ loc' = [loc EXCEPT !.status = "provisioning", !.error = FALSE]
    /\ AskTo("org?")
    /\ UNCHANGED <<reuse, org, step, job, run, demands, vendor, invited, skipped, mishaps, loose>>
RetryReadOrg ==
    /\ Asked("org?")
    /\ AskTo(IF org.status = "active" THEN "reset" ELSE "org!")
    /\ UNCHANGED <<reuse, org, loc, step, job, run, demands, vendor, invited, skipped, mishaps, loose>>
RetryOrg ==
    /\ Asked("org!")
    /\ org' = [org EXCEPT !.status = "provisioning"]
    /\ AskTo("reset")
    /\ UNCHANGED <<reuse, loc, step, job, run, demands, vendor, invited, skipped, mishaps, loose>>
\* "Nothing is in flight at this point": nothing makes sure of it.
RetryReset ==
    /\ Asked("reset")
    /\ step' = [s \in StepNames |->
                  IF step[s].status \in {"failed", "in_progress"}
                    THEN [step[s] EXCEPT !.status = "pending"] ELSE step[s]]
    /\ AskTo("add")
    /\ UNCHANGED <<reuse, org, loc, job, run, demands, vendor, invited, skipped, mishaps, loose>>
RetryAdd(j) ==
    /\ Asked("add") /\ j # FirstJob /\ job[j].state = "none"
    /\ job' = [job EXCEPT ![j].state = "waiting"]
    /\ ask' = NoAsk
    /\ UNCHANGED <<reuse, org, loc, step, run, demands, vendor, invited, skipped, mishaps, loose>>

\* deprovision: the row is read, its number and assistant released one after the
\* other, a refusal logged, and both rows archived.
Deprovision ==
    /\ Demand
    /\ ask' = [pc |-> "number", number |-> loc.number, assistant |-> loc.assistant]
    /\ UNCHANGED <<reuse, org, loc, step, job, run, vendor, invited, skipped, mishaps, loose>>
ReleaseNumber ==
    /\ Asked("number") /\ AskTo("agent")
    /\ IF ask.number = Nil \/ reuse
         THEN UNCHANGED <<vendor, mishaps, loose>>
         ELSE \/ /\ vendor' = [vendor EXCEPT !.numbers = @ \ {ask.number}]
                 /\ UNCHANGED <<mishaps, loose>>
              \/ /\ Mishap("delete")
                 /\ Note("number", ask.number, TRUE)
                 /\ UNCHANGED vendor
    /\ UNCHANGED <<reuse, org, loc, step, job, run, demands, invited, skipped>>
ReleaseAgent ==
    /\ Asked("agent") /\ AskTo("org")
    /\ IF ask.assistant = Nil
         THEN UNCHANGED <<vendor, mishaps, loose>>
         ELSE \/ /\ vendor' = [vendor EXCEPT !.agents = @ \ {ask.assistant}]
                 /\ UNCHANGED <<mishaps, loose>>
              \/ /\ Mishap("delete")
                 /\ Note("agent", ask.assistant, TRUE)
                 /\ UNCHANGED vendor
    /\ UNCHANGED <<reuse, org, loc, step, job, run, demands, invited, skipped>>
ArchiveOrg ==
    /\ Asked("org") /\ AskTo("location")
    /\ org' = [status |-> "archived", deleted |-> TRUE]
    /\ UNCHANGED <<reuse, loc, step, job, run, demands, vendor, invited, skipped, mishaps, loose>>
ArchiveLocation ==
    /\ Asked("location") /\ ask' = NoAsk
    /\ loc' = [loc EXCEPT !.status = "archived"]
    /\ UNCHANGED <<reuse, org, step, job, run, demands, vendor, invited, skipped, mishaps, loose>>

\* setStatus looks at nothing.
SetStatus(s) ==
    /\ Demand
    /\ org' = [org EXCEPT !.status = s]
    /\ UNCHANGED <<reuse, loc, step, job, run, ask, vendor, invited, skipped, mishaps, loose>>

\* sweepStuckProvisioning: a day after its start no attempt is on a step any more.
Sweep(s) ==
    /\ step[s].status = "in_progress"
    /\ ~(Busy /\ run.at > 0 /\ Now = s)
    /\ step' = [step EXCEPT ![s].status = "failed"]
    /\ loc' = [loc EXCEPT !.status = "provisioning", !.error = TRUE]
    /\ UNCHANGED <<reuse, org, job, run, ask, demands, vendor, invited, skipped, mishaps, loose>>
--------------------------------------------------------------------------------
Worker ==
    \/ \E j \in Jobs : Begin(j)
    \/ NextStep \/ Search \/ KeepNumber \/ BuyNumber \/ SaveNumber \/ KeepAgent
    \/ CloneAgent \/ SaveAgent \/ Assign \/ Configure \/ Invite \/ Complete
    \/ StepFails \/ MailFails \/ AnswerLost \/ FailLocation
    \/ ActivateLocation \/ ActivateOrg

Operator ==
    \/ Retry \/ (\E s \in StepNames : RetryStep(s) \/ SkipStep(s))
    \/ RetryCheck \/ RetryMark \/ RetryReadOrg \/ RetryOrg \/ RetryReset
    \/ \E j \in Jobs : RetryAdd(j)
    \/ Deprovision \/ ReleaseNumber \/ ReleaseAgent \/ ArchiveOrg \/ ArchiveLocation
    \/ \E s \in {"active", "suspended"} : SetStatus(s)

Next == Worker \/ WorkerDies \/ Operator \/ \E s \in StepNames : Sweep(s)

\* The queue hands a waiting job to the worker, the worker goes on, and the sweep
\* runs every midnight.
Fairness == WF_vars(Worker) /\ WF_vars(\E s \in StepNames : Sweep(s))

Spec == Init /\ [][Next]_vars /\ Fairness
--------------------------------------------------------------------------------
JobStates == {"none", "waiting", "active", "done", "failed"}
RunStates == {"none", "next", "work", "ordered", "cloned", "done", "failing",
              "activate", "finish"}
AskStates == {"none", "check", "mark", "org?", "org!", "reset", "add", "number",
              "agent", "org", "location"}
MetaKeys == {"null", "number", "assistant", "app"}
Attempts == Cardinality(Jobs) * (MaxAttempts + MaxStalls)

TypeOK ==
    /\ reuse \in BOOLEAN
    /\ org \in [status : {"provisioning", "active", "suspended", "archived"},
                deleted : BOOLEAN]
    /\ loc \in [status : {"provisioning", "active", "archived"}, error : BOOLEAN,
                number : 0..(Attempts + 1), assistant : 0..Attempts]
    /\ step \in [StepNames ->
                    [status : {"absent", "pending", "in_progress", "completed", "failed"},
                     meta : SUBSET MetaKeys]]
    /\ job \in [Jobs -> [state : JobStates, failed : 0..MaxAttempts,
                         died : 0..(MaxStalls + 1), email : BOOLEAN]]
    /\ run.pc \in RunStates /\ ask.pc \in AskStates
    /\ demands \in 0..MaxDemands
    /\ vendor.numbers \subseteq 1..(vendor.bought + 1)
    /\ vendor.agents \subseteq 1..vendor.cloned
    /\ vendor.routed \in {"none", "agent", "fallback"}
    /\ invited \in 0..Attempts /\ mishaps \in 0..MaxMishaps
    /\ skipped \subseteq StepNames

\* An attempt runs the steps again, after a retry, a skip, a crash or the sweep: the
\* number and the assistant of the row are the only ones the vendor charges for,
\* but for those whose purchase was cut short before the row had them.
NothingBoughtTwice ==
    /\ \A n \in vendor.numbers :
         n \in {BaseNumber, loc.number} \/ <<"number", n>> \in loose \cup Pending
    /\ \A a \in vendor.agents :
         a = loc.assistant \/ <<"agent", a>> \in loose \cup Pending

\* A deprovisioned organization leaves nothing at the vendor but the number it
\* borrowed, what was cut short or refused, and what an attempt under way wrote
\* after the rows were read.
ArchiveReleases ==
    org.deleted /\ ask = NoAsk /\ ~Busy =>
        /\ \A n \in vendor.numbers : n = BaseNumber \/ <<"number", n>> \in loose
        /\ \A a \in vendor.agents : <<"agent", a>> \in loose
        /\ reuse => BaseNumber \in vendor.numbers

ResourcesAreKnown == NothingBoughtTwice /\ ArchiveReleases

\* An active location can be called: it has a number, an assistant and a route
\* between them, unless the operator skipped the step; and if nobody intervened its
\* administrator is invited.
ActiveIsEquipped ==
    loc.status = "active" =>
        /\ loc.number # Nil \/ "purchase" \in skipped
        /\ loc.assistant # Nil \/ "clone" \in skipped
        /\ vendor.routed # "none" \/ "assign" \in skipped
        /\ demands = 0 => invited > 0

\* What a set-up leaves behind, whatever fails, dies or intervenes.
SetupHolds == ResourcesAreKnown /\ ActiveIsEquipped

\* A set-up that was queued ends in an active location or in one shown with an error,
\* by the catch clause or by the sweep, unless its worker died for good between two
\* steps, where the sweep has nothing to find.
SetupSettles ==
    \A j \in Jobs : job[j].state = "active" ~>
        \/ loc.status = "active" \/ loc.error
        \/ job[j].state = "failed" /\ \A s \in StepNames : step[s].status # "in_progress"

\* Not kept by the code: the number of an active location is routed through the app
\* of its own assistant.
RoutedToAgent ==
    loc.status = "active" /\ "assign" \notin skipped => vendor.routed = "agent"

\* Not kept: whatever the operator does, an active location's administrator is invited.
AdminIsInvited == loc.status = "active" /\ "invite" \notin skipped => invited > 0

\* Not kept: no retry places a second number order.
PaidOnce == vendor.bought <= 1

\* Not kept: an archived organization stays archived.
ArchivedStays == [][org.status = "archived" => org'.status = "archived"]_vars
================================================================================
