------------------------------ MODULE MenuPublish ------------------------------
(***************************************************************************)
(* The menu of one organization on its way out: edits commit, bump the     *)
(* version stamp of the cached menu and re-arm one delayed job; guests read *)
(* the menu through the cache, and so do the two publishers that upload it *)
(* to the voice agent, the job and the button of the menu page.  A menu is *)
(* the number of edits it contains.                                        *)
(***************************************************************************)
EXTENDS Naturals

CONSTANTS
    Editors,      \* staff requests that change the menu
    Guests,       \* requests that show it
    Faults,       \* "die", "vendor", "suspended", "stall"
    MaxEdits,     \* bound: edits and imports
    MaxClock,     \* bound: milliseconds
    MaxAsked,     \* bound: presses of a button, menus asked for by guests
    MaxMishaps,   \* bound: things that go wrong
    MaxAttempts,  \* attempts of the job (queues.module.ts)
    MaxStalls     \* deaths of its worker the job survives (BullMQ's default is 1)

VARIABLES
    menu,     \* edits committed
    clock,    \* Date.now()
    stamp,    \* the cached version stamp, 0 when there is none
    stamped,  \* history: how often each stamp was set, up to twice
    clears,   \* history: how often the cache was cleared
    cache,    \* per stamp: the menu stored under it
    due,      \* history: the latest edit whose stamp was set, or import cleared for
    edit,     \* editors: where the request is, its edit, its clock
    import,   \* the import job: where it is
    read,     \* guests and publishers: where they are, what they have read
    job,      \* the delayed job: state, failed attempts, deaths of its worker
    asked,    \* such requests so far
    mishaps,  \* things that went wrong so far
    bucket,   \* the menu uploaded
    agent,    \* the menu embedded
    dropped   \* history: edits nobody will bring to the agent

vars == <<menu, clock, stamp, stamped, clears, cache, due, edit, import, read,
          job, asked, mishaps, bucket, agent, dropped>>
--------------------------------------------------------------------------------
Publishers == {"job", "manual"}
Actors     == Guests \cup Publishers
Stamps     == 0..MaxClock

Idle    == [pc |-> "idle"]
NoEntry == [menu |-> 0, kept |-> FALSE, late |-> FALSE]
NoJob   == [state |-> "none", failed |-> 0, died |-> 0]

Editing(e, pc) == edit[e].pc = pc
Reading(a, pc) == read[a].pc = pc
EditTo(e, pc)  == edit' = [edit EXCEPT ![e].pc = pc]
Mishap(kind)   == kind \in Faults /\ mishaps < MaxMishaps /\ mishaps' = mishaps + 1
Ended(e)       == edit' = [edit EXCEPT ![e] = Idle]

\* The job that is there, or that an editor is adding, will bring edit v to the agent.
JobBrings(v) ==
    \/ job.state = "delayed"
    \/ job.state = "none" /\ \E e \in Editors : Editing(e, "add")
    \/ /\ job.state = "active"
       /\ \/ Reading("job", "idle") \/ Reading("job", "query")
          \/ Reading("job", "look") /\ read["job"].due >= v
          \/ (Reading("job", "store") \/ Reading("job", "have")) /\ read["job"].menu >= v
          \/ Reading("job", "uploaded") /\ bucket >= v

\* Edits whose request is over, that the agent does not have and nothing brings.
Missed ==
    {v \in 1..menu :
        /\ v > agent /\ ~JobBrings(v)
        /\ \A e \in Editors : edit[e].pc # "idle" => edit[e].menu # v
        /\ import.pc # "idle" => import.menu # v}
Loses == dropped' = dropped \cup Missed'

Init ==
    /\ menu = 0 /\ clock = 1 /\ due = 0
    /\ stamp = 0 /\ stamped = [t \in Stamps |-> 0] /\ clears = 0
    /\ cache = [t \in Stamps |-> NoEntry]
    /\ edit = [e \in Editors |-> Idle]
    /\ import = Idle
    /\ read = [a \in Actors |-> Idle]
    /\ job = NoJob
    /\ asked = 0 /\ mishaps = 0
    /\ bucket = 0 /\ agent = 0
    /\ dropped = {}
--------------------------------------------------------------------------------
Tick ==
    /\ clock < MaxClock /\ clock' = clock + 1
    /\ UNCHANGED <<menu, stamp, stamped, clears, cache, due, edit, import, read,
                   job, asked, mishaps, bucket, agent, dropped>>

\* One of the handlers that write the menu, createCategory to restoreItem: the
\* write, then invalidateMenuCache.
Commit(e) ==
    /\ Editing(e, "idle") /\ menu < MaxEdits
    /\ menu' = menu + 1
    /\ edit' = [edit EXCEPT ![e] = [pc |-> "bump", menu |-> menu + 1, since |-> clock]]
    /\ UNCHANGED <<clock, stamp, stamped, clears, cache, due, import, read, job,
                   asked, mishaps, bucket, agent, dropped>>

\* The clear-cache button invalidates without an edit.
Flush(e) ==
    /\ Editing(e, "idle") /\ asked < MaxAsked /\ asked' = asked + 1
    /\ edit' = [edit EXCEPT ![e] = [pc |-> "bump", menu |-> 0, since |-> clock]]
    /\ UNCHANGED <<menu, clock, stamp, stamped, clears, cache, due, import, read,
                   job, mishaps, bucket, agent, dropped>>

\* The stamp is the time the write was asked for, between the commit and now.
Bump(e) ==
    /\ Editing(e, "bump")
    /\ edit' = [edit EXCEPT ![e] = [pc |-> "get", menu |-> edit[e].menu]]
    /\ \E t \in edit[e].since..clock :
         /\ stamp' = t
         /\ stamped' = [stamped EXCEPT ![t] = IF @ = 0 THEN 1 ELSE 2]
    /\ due' = IF edit[e].menu > due THEN edit[e].menu ELSE due
    /\ UNCHANGED <<menu, clock, clears, cache, import, read, job, asked,
                   mishaps, bucket, agent, dropped>>

\* scheduleMenuAiSync: the pending job is looked up by its fixed id ...
\* Mutant: a job that is there will do.
GetJobTrusts(e) ==
    /\ Editing(e, "get")
    /\ IF job.state = "none" THEN EditTo(e, "add") ELSE Ended(e)
    /\ UNCHANGED <<menu, clock, stamp, stamped, clears, cache, due, import,
                   read, job, asked, mishaps, bucket, agent, dropped>>
GetJob(e) ==
    /\ Editing(e, "get")
    /\ EditTo(e, IF job.state = "none" THEN "add" ELSE "remove")
    /\ UNCHANGED <<menu, clock, stamp, stamped, clears, cache, due, import,
                   read, job, asked, mishaps, bucket, agent, dropped>>

\* ... removed, which a job at work refuses ...
RemoveJob(e) ==
    /\ Editing(e, "remove") /\ EditTo(e, "add")
    /\ job' = IF job.state = "active" THEN job ELSE NoJob
    /\ UNCHANGED <<menu, clock, stamp, stamped, clears, cache, due, import,
                   read, asked, mishaps, bucket, agent, dropped>>

\* ... and added, which the queue ignores while a job of that id is there.
AddJob(e) ==
    /\ Editing(e, "add") /\ Ended(e)
    /\ job' = IF job.state = "none" THEN [NoJob EXCEPT !.state = "delayed"] ELSE job
    /\ UNCHANGED <<menu, clock, stamp, stamped, clears, cache, due, import,
                   read, asked, mishaps, bucket, agent>>
    /\ dropped' = IF job.state = "none" THEN dropped
                  ELSE dropped \cup (Missed' \cap {edit[e].menu})

\* The request dies, or a call of its cache or queue fails (a failure of the queue
\* is swallowed): what it was to do is not done.  Without its stamp an edit is shown
\* when the entry of the old one has expired.
EditDies(e) ==
    /\ edit[e].pc # "idle" /\ Ended(e) /\ Mishap("die")
    /\ UNCHANGED <<menu, clock, stamp, stamped, clears, cache, due, import, read,
                   job, asked, bucket, agent>>
    /\ dropped' = dropped \cup Missed'
                   \cup (IF Editing(e, "bump") THEN {edit[e].menu} \ {0} ELSE {})

\* The import job: its transaction, then cacheManager.clear().  It schedules nothing.
ImportCommit ==
    /\ import = Idle /\ menu < MaxEdits
    /\ menu' = menu + 1
    /\ import' = [pc |-> "clear", menu |-> menu + 1]
    /\ UNCHANGED <<clock, stamp, stamped, clears, cache, due, edit, read, job,
                   asked, mishaps, bucket, agent, dropped>>
ImportClear ==
    /\ import # Idle /\ import' = Idle
    /\ stamp' = 0 /\ cache' = [t \in Stamps |-> NoEntry]
    /\ clears' = clears + 1
    /\ due' = IF import.menu > due THEN import.menu ELSE due
    /\ UNCHANGED <<menu, clock, stamped, edit, read, job, asked, mishaps,
                   bucket, agent>>
    /\ Loses
--------------------------------------------------------------------------------
\* getMenuByOrg: the stamp, the entry under it, and on a miss the rows, stored under
\* the stamp read first.
ReadStamp(a) ==
    /\ Reading(a, "idle")
    /\ read' = [read EXCEPT ![a] =
          [pc |-> "look", stamp |-> stamp, due |-> due, clears |-> clears,
           menu |-> 0, late |-> FALSE]]
Look(a) ==
    /\ Reading(a, "look")
    /\ LET entry == cache[read[a].stamp]
       IN  read' = [read EXCEPT ![a] =
               [read[a] EXCEPT !.pc   = IF entry.kept THEN "have" ELSE "query",
                               !.menu = entry.menu, !.late = entry.late]]
    /\ UNCHANGED <<menu, clock, stamp, stamped, clears, cache, due, edit,
                   import, job, asked, mishaps, bucket, agent>>
    /\ IF a = "job" /\ cache[read[a].stamp].menu < read[a].due
         THEN Loses ELSE UNCHANGED dropped
Query(a) ==
    /\ Reading(a, "query")
    /\ read' = [read EXCEPT ![a] = [read[a] EXCEPT !.pc = "store", !.menu = menu]]
    /\ UNCHANGED <<menu, clock, stamp, stamped, clears, cache, due, edit,
                   import, job, asked, mishaps, bucket, agent, dropped>>
Entry(a) == [menu |-> read[a].menu, kept |-> TRUE, late |-> read[a].clears # clears]
\* Mutant: the key is composed when the menu is stored.
StoreUnderCurrent(a) ==
    /\ Reading(a, "store")
    /\ cache' = [cache EXCEPT ![stamp] = Entry(a)]
    /\ read' = [read EXCEPT ![a].pc = "have"]
    /\ UNCHANGED <<menu, clock, stamp, stamped, clears, due, edit, import, job,
                   asked, mishaps, bucket, agent, dropped>>
Store(a) ==
    /\ Reading(a, "store")
    /\ cache' = [cache EXCEPT ![read[a].stamp] = Entry(a)]
    /\ read' = [read EXCEPT ![a].pc = "have"]
    /\ UNCHANGED <<menu, clock, stamp, stamped, clears, due, edit, import, job,
                   asked, mishaps, bucket, agent, dropped>>

Ask(g) ==
    /\ asked < MaxAsked /\ asked' = asked + 1
    /\ ReadStamp(g)
    /\ UNCHANGED <<menu, clock, stamp, stamped, clears, cache, due, edit,
                   import, job, mishaps, bucket, agent, dropped>>
Answer(g) ==
    /\ Reading(g, "have") /\ read' = [read EXCEPT ![g] = Idle]
    /\ UNCHANGED <<menu, clock, stamp, stamped, clears, cache, due, edit,
                   import, job, asked, mishaps, bucket, agent, dropped>>
--------------------------------------------------------------------------------
\* syncMenuToAI, by the button or by the job: read, upload, embed, link and note.
Press ==
    /\ asked < MaxAsked /\ asked' = asked + 1
    /\ ReadStamp("manual")
    /\ UNCHANGED <<menu, clock, stamp, stamped, clears, cache, due, edit,
                   import, job, mishaps, bucket, agent, dropped>>
StartJob ==
    /\ job.state = "delayed" /\ job' = [job EXCEPT !.state = "active"]
    /\ UNCHANGED <<menu, clock, stamp, stamped, clears, cache, due, edit,
                   import, read, asked, mishaps, bucket, agent, dropped>>
JobReads ==
    /\ job.state = "active" /\ ReadStamp("job")
    /\ UNCHANGED <<menu, clock, stamp, stamped, clears, cache, due, edit,
                   import, job, asked, mishaps, bucket, agent, dropped>>

\* An older menu may be uploaded over a newer one by the other publisher.
Upload(p) ==
    /\ Reading(p, "have")
    /\ bucket' = read[p].menu
    /\ read' = [read EXCEPT ![p] = [pc |-> "uploaded"]]
    /\ UNCHANGED <<menu, clock, stamp, stamped, clears, cache, due, edit,
                   import, job, asked, mishaps, agent>>
    /\ IF read[p].menu < bucket THEN Loses ELSE UNCHANGED dropped
Embed(p) ==
    /\ Reading(p, "uploaded")
    /\ agent' = bucket
    /\ read' = [read EXCEPT ![p].pc = "embedded"]
    /\ UNCHANGED <<menu, clock, stamp, stamped, clears, cache, due, edit,
                   import, job, asked, mishaps, bucket>>
    /\ IF bucket < agent THEN Loses ELSE UNCHANGED dropped
Linked(p) ==
    /\ Reading(p, "embedded")
    /\ read' = [read EXCEPT ![p] = Idle]
    /\ job' = IF p = "job" THEN NoJob ELSE job
    /\ UNCHANGED <<menu, clock, stamp, stamped, clears, cache, due, edit,
                   import, asked, mishaps, bucket, agent, dropped>>

AtVendor(p) == \E pc \in {"have", "uploaded", "embedded"} : Reading(p, pc)

\* A call fails: the button answers an error, the job has attempts, and a suspended
\* account ends it at once.  A failed job keeps its id in the queue.
PressFails ==
    /\ AtVendor("manual") /\ Mishap("vendor")
    /\ read' = [read EXCEPT !["manual"] = Idle]
    /\ UNCHANGED <<menu, clock, stamp, stamped, clears, cache, due, edit, import,
                   job, asked, bucket, agent, dropped>>
JobRetries ==
    /\ \/ /\ AtVendor("job") /\ job.failed + 1 < MaxAttempts /\ Mishap("vendor")
          /\ job' = [job EXCEPT !.state = "delayed", !.failed = @ + 1]
       \/ /\ job.state = "active" /\ job.died < MaxStalls /\ Mishap("stall")
          /\ job' = [job EXCEPT !.state = "delayed", !.died = @ + 1]
    /\ read' = [read EXCEPT !["job"] = Idle]
    /\ UNCHANGED <<menu, clock, stamp, stamped, clears, cache, due, edit, import,
                   asked, bucket, agent, dropped>>
JobGivesUp ==
    /\ \/ AtVendor("job") /\ job.failed + 1 = MaxAttempts /\ Mishap("vendor")
       \/ AtVendor("job") /\ Mishap("suspended")
       \/ job.state = "active" /\ job.died = MaxStalls /\ Mishap("stall")
    /\ job' = [NoJob EXCEPT !.state = "failed"]
    /\ read' = [read EXCEPT !["job"] = Idle]
    /\ UNCHANGED <<menu, clock, stamp, stamped, clears, cache, due, edit, import,
                   asked, bucket, agent>>
    /\ Loses
--------------------------------------------------------------------------------
Next ==
    \/ Tick
    \/ \E e \in Editors :
         \/ Commit(e) \/ Flush(e) \/ Bump(e)
         \/ GetJob(e) \/ RemoveJob(e) \/ AddJob(e) \/ EditDies(e)
    \/ ImportCommit \/ ImportClear
    \/ \E a \in Actors : Look(a) \/ Query(a) \/ Store(a)
    \/ \E g \in Guests : Ask(g) \/ Answer(g)
    \/ Press \/ StartJob \/ JobReads
    \/ \E p \in Publishers : Upload(p) \/ Embed(p) \/ Linked(p)
    \/ PressFails \/ JobRetries \/ JobGivesUp

Spec == Init /\ [][Next]_vars
--------------------------------------------------------------------------------
TypeOK ==
    /\ menu \in 0..MaxEdits /\ clock \in 1..MaxClock
    /\ stamp \in 0..clock /\ stamped \in [Stamps -> 0..2]
    /\ cache \in [Stamps -> [menu : 0..menu, kept : BOOLEAN, late : BOOLEAN]]
    /\ due \in 0..menu /\ clears \in 0..menu
    /\ \A e \in Editors : edit[e].pc \in {"idle", "bump", "get", "remove", "add"}
    /\ import.pc \in {"idle", "clear"}
    /\ \A a \in Actors : read[a].pc \in {"idle", "look", "query", "store", "have",
                                        "uploaded", "embedded"}
    /\ job \in [state : {"none", "delayed", "active", "failed"},
                failed : 0..(MaxAttempts - 1), died : 0..MaxStalls]
    /\ asked \in 0..MaxAsked /\ mishaps \in 0..MaxMishaps
    /\ bucket \in 0..menu /\ agent \in 0..menu /\ dropped \subseteq 1..menu

Tied(a) == stamped[read[a].stamp] = 2

\* Whoever asks for the menu after an edit set its stamp, or an import cleared the
\* cache, is shown that edit.  Two edits in one millisecond share a stamp, and a
\* reader from before a clear may store what it read after it.
ReadsAreFresh ==
    \A a \in Actors : Reading(a, "have") =>
        read[a].menu >= read[a].due \/ Tied(a) \/ read[a].late

\* An edit whose request is over reaches the agent, or there is a job that will bring
\* it: re-arming loses none, whatever two edits and the job do in between.  It is lost
\* when its request dies half way, its job fails for good, the queue ignores its add
\* because the job at work has read already, an older upload lands on a newer one, or
\* it came by an import.
EditsReachTheAgent == Missed \subseteq dropped

\* Not kept by the code: "Can't remove an actively-running job; that run will pick up
\* the latest DB state anyway."  The job may have read before the edit.
ActiveJobSuffices ==
    [][\A e \in Editors :
         Editing(e, "add") /\ edit'[e] = Idle /\ mishaps' = mishaps =>
             dropped' = dropped]_vars

\* Not kept: what an import brought is shown once its cache is cleared.
ImportsShow ==
    \A a \in Actors : Reading(a, "have") => read[a].menu >= read[a].due \/ Tied(a)
================================================================================
