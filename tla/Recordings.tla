------------------------------ MODULE Recordings ------------------------------
(***************************************************************************)
(* The recording of one phone call: the import job of                      *)
(* recordings.processor.ts, the events and requests that queue it, the     *)
(* sync with the vendor's conversations (conversations.service.ts), and    *)
(* deletion, soft (recordings.service.ts) and after thirty days for good   *)
(* (cron.service.ts).                                                      *)
(*                                                                         *)
(* The call goes by two ids: the event names its session, the sync its     *)
(* conversation.  Each has a recordings row, an object and jobs of its own.*)
(***************************************************************************)
EXTENDS Naturals, FiniteSets

CONSTANTS
    Syncs,       \* requests to sync the conversations
    Slots,       \* bound: jobs in the queue at once
    Workers,     \* jobs at work at once
    MaxAttempts, \* attempts of a job (queues.module.ts)
    MaxSyncs,    \* bound: times the sync is requested
    MaxAsked,    \* bound: imports asked for by staff
    MaxDeletes,  \* bound: soft deletions
    MaxDeaths,   \* bound: deaths of the backend
    Faults,      \* subset of {"vendor", "transcript", "number", "storage"}
    None         \* no row, no job

VARIABLES
    row,     \* per id: its recordings row, or None
    object,  \* ids whose audio is in object storage
    threads, \* conversations rows of the call
    task,    \* per slot: an import job, or None
    event,   \* webhook_events: "none", "noted" (job not added yet), "done", "lost"
    sync,    \* per request: its next step and the rows it has read
    sweep,   \* per id: the next step of the retention sweep, and the row it has read
    owing,   \* per id: usage inserts fired and not yet written
    billed,  \* per id: usage events for the minutes of the call
    lifted,  \* history: per id, how often 'uploaded' was taken from its row
    born,    \* rows inserted so far, which names the next one
    bounds   \* what has been used of the bounds

vars == <<row, object, threads, task, event, sync, sweep, owing, billed, lifted,
          born, bounds>>
ledger == <<owing, billed>>
--------------------------------------------------------------------------------
Ids == {"session", "conversation"}

\* audio: object_key is set.
Row ==
    [ name : Nat, status : {"completed", "failed", "uploaded"}, audio : BOOLEAN,
      deleted : {"no", "recent", "old"} ]

Task ==
    [ id : Ids, failed : 0 .. MaxAttempts - 1,
      stage : {"waiting", "fetch", "stored", "failing", "saved"} ]

New(status, audio) ==
    [name |-> born + 1, status |-> status, audio |-> audio, deleted |-> "no"]

Uploaded(r) == r # None /\ r.status = "uploaded" /\ r.audio

Idle  == [stage |-> "idle", thread |-> FALSE, found |-> None]
Still == [stage |-> "idle", name |-> 0]

AtWork == {s \in Slots : task[s] # None /\ task[s].stage # "waiting"}

Use(what) == bounds' = [bounds EXCEPT ![what] = @ + 1]
Goto(s, stage) == task' = [task EXCEPT ![s].stage = stage]
SyncTo(s, stage) == sync' = [sync EXCEPT ![s].stage = stage]

\* queue.add.
Add(id) ==
    \E s \in Slots :
        /\ task[s] = None
        /\ task' = [task EXCEPT ![s] = [id |-> id, failed |-> 0, stage |-> "waiting"]]

Init ==
    /\ row = [i \in Ids |-> None]
    /\ object = {}
    /\ threads = 0
    /\ task = [s \in Slots |-> None]
    /\ event = "none"
    /\ sync = [s \in Syncs |-> Idle]
    /\ sweep = [i \in Ids |-> Still]
    /\ owing = [i \in Ids |-> 0]
    /\ billed = [i \in Ids |-> 0]
    /\ lifted = [i \in Ids |-> 0]
    /\ born = 0
    /\ bounds = [syncs |-> 0, asked |-> 0, deletes |-> 0, deaths |-> 0]
--------------------------------------------------------------------------------
\* handleTelnyx: the event row is written as completed; one that repeats is ignored ...
Saved ==
    /\ event = "none"
    /\ event' = "noted"
    /\ UNCHANGED <<row, object, threads, task, sync, sweep, ledger, lifted, born,
                   bounds>>

\* ... and then the job is added.
SavedAdds ==
    /\ event = "noted"
    /\ event' = "done"
    /\ Add("session")
    /\ UNCHANGED <<row, object, threads, sync, sweep, ledger, lifted, born, bounds>>

\* syncRecording: staff ask for an import, under an id they give.
Ask(id) ==
    /\ bounds.asked < MaxAsked
    /\ Use("asked")
    /\ Add(id)
    /\ UNCHANGED <<row, object, threads, event, sync, sweep, ledger, lifted, born>>
--------------------------------------------------------------------------------
\* syncFromTelnyx: the conversation and its messages have been fetched.
SyncStart(s) ==
    /\ sync[s].stage = "idle"
    /\ bounds.syncs < MaxSyncs
    /\ Use("syncs")
    /\ sync' = [sync EXCEPT ![s] = [Idle EXCEPT !.stage = "thread",
                                                !.thread = threads > 0]]
    /\ UNCHANGED <<row, object, threads, task, event, sweep, ledger, lifted, born>>

\* The conversation is updated, if it is still there, or inserted.
SyncThread(s) ==
    /\ sync[s].stage = "thread"
    /\ threads' = IF sync[s].thread THEN threads ELSE threads + 1
    /\ SyncTo(s, "look")
    /\ UNCHANGED <<row, object, task, event, sweep, ledger, lifted, born, bounds>>

SyncLook(s) ==
    /\ sync[s].stage = "look"
    /\ sync' = [sync EXCEPT ![s].stage = "write", ![s].found = row["conversation"]]
    /\ UNCHANGED <<row, object, threads, task, event, sweep, ledger, lifted, born,
                   bounds>>

\* The row that was found is updated, if it is still there: its status is
\* 'completed' from now on.
SyncUpdate(s) ==
    LET was == row["conversation"]
        found == sync[s].found
        same == found # None /\ was # None /\ was.name = found.name
    IN  /\ sync[s].stage = "write" /\ found # None
        /\ row' = IF same THEN [row EXCEPT !["conversation"].status = "completed"] ELSE row
        /\ lifted' = IF same /\ Uploaded(was)
                       THEN [lifted EXCEPT !["conversation"] = @ + 1] ELSE lifted
        /\ SyncTo(s, "attach")
        /\ UNCHANGED <<object, threads, task, event, sweep, ledger, born, bounds>>

\* No row was found: one is inserted, unless someone else has, which ends the sync.
SyncInsert(s) ==
    /\ sync[s].stage = "write" /\ sync[s].found = None
    /\ IF row["conversation"] = None
         THEN /\ row' = [row EXCEPT !["conversation"] = New("completed", FALSE)]
              /\ born' = born + 1
              /\ SyncTo(s, "attach")
         ELSE /\ sync' = [sync EXCEPT ![s] = Idle]
              /\ UNCHANGED <<row, born>>
    /\ UNCHANGED <<object, threads, task, event, sweep, ledger, lifted, bounds>>

\* An import is queued unless the row, as it was found, is uploaded; the vendor may
\* have no recording, or not answer.
SyncAttach(s) ==
    /\ sync[s].stage = "attach"
    /\ sync' = [sync EXCEPT ![s] = Idle]
    /\ \/ ~Uploaded(sync[s].found) /\ Add("conversation")
       \/ (Uploaded(sync[s].found) \/ "vendor" \in Faults) /\ UNCHANGED task
    /\ UNCHANGED <<row, object, threads, event, sweep, ledger, lifted, born, bounds>>
--------------------------------------------------------------------------------
\* Mutant: the worker does not look whether the recording is there already.
TakeAnyway(s) ==
    /\ task[s] # None /\ task[s].stage = "waiting"
    /\ Cardinality(AtWork) < Workers
    /\ Goto(s, "fetch")
    /\ UNCHANGED <<row, object, threads, event, sync, sweep, ledger, lifted, born,
                   bounds>>

\* process: a job ends at once if the dialed number of the event is nobody's, or if
\* the row is uploaded.
Take(s) ==
    /\ task[s] # None /\ task[s].stage = "waiting"
    /\ Cardinality(AtWork) < Workers
    /\ LET id == task[s].id
       IN  \/ /\ Uploaded(row[id]) \/ (id = "session" /\ "number" \in Faults)
              /\ task' = [task EXCEPT ![s] = None]
           \/ ~Uploaded(row[id]) /\ Goto(s, "fetch")
    /\ UNCHANGED <<row, object, threads, event, sync, sweep, ledger, lifted, born,
                   bounds>>

\* The recording is found at the vendor and streamed into storage, or not.
Fetch(s) ==
    /\ task[s] # None /\ task[s].stage = "fetch"
    /\ \/ object' = object \cup {task[s].id} /\ Goto(s, "stored")
       \/ "vendor" \in Faults /\ Goto(s, "failing") /\ UNCHANGED object
    /\ UNCHANGED <<row, threads, event, sync, sweep, ledger, lifted, born, bounds>>

TranscriptFails(s) ==
    /\ "transcript" \in Faults
    /\ task[s] # None /\ task[s].stage = "stored"
    /\ Goto(s, "failing")
    /\ UNCHANGED <<row, object, threads, event, sync, sweep, ledger, lifted, born,
                   bounds>>

\* What onConflictDoUpdate leaves: a row that is there keeps its name and its deletion.
Upsert(id, status, audio) ==
    LET was == row[id]
        now == IF was = None THEN New(status, audio)
               ELSE [was EXCEPT !.status = status, !.audio = @ \/ audio]
    IN  /\ row' = [row EXCEPT ![id] = now]
        /\ born' = IF was = None THEN born + 1 ELSE born

\* The row is upserted, and the insert of the minutes fired without waiting for it.
Save(s) ==
    /\ task[s] # None /\ task[s].stage = "stored"
    /\ Upsert(task[s].id, "uploaded", TRUE)
    /\ owing' = [owing EXCEPT ![task[s].id] = @ + 1]
    /\ Goto(s, "saved")
    /\ UNCHANGED <<object, threads, event, sync, sweep, billed, lifted, bounds>>

Charge(id) ==
    /\ owing[id] > 0
    /\ owing' = [owing EXCEPT ![id] = @ - 1]
    /\ billed' = [billed EXCEPT ![id] = @ + 1]
    /\ UNCHANGED <<row, object, threads, task, event, sync, sweep, lifted, born, bounds>>

\* The queue is told that the job is done.
Finish(s) ==
    /\ task[s] # None /\ task[s].stage = "saved"
    /\ task' = [task EXCEPT ![s] = None]
    /\ UNCHANGED <<row, object, threads, event, sync, sweep, ledger, lifted, born,
                   bounds>>

\* The catch: the row is upserted as failed, and the queue tries again or gives up.
Fail(s) ==
    /\ task[s] # None /\ task[s].stage = "failing"
    /\ Upsert(task[s].id, "failed", FALSE)
    /\ LET failed == task[s].failed + 1
       IN  task' = [task EXCEPT ![s] =
                      IF failed = MaxAttempts THEN None
                      ELSE [@ EXCEPT !.failed = failed, !.stage = "waiting"]]
    /\ UNCHANGED <<object, threads, event, sync, sweep, ledger, lifted, bounds>>
--------------------------------------------------------------------------------
\* deleteRecording.
Delete(id) ==
    /\ bounds.deletes < MaxDeletes
    /\ row[id] # None /\ row[id].deleted = "no"
    /\ Use("deletes")
    /\ row' = [row EXCEPT ![id].deleted = "recent"]
    /\ UNCHANGED <<object, threads, task, event, sync, sweep, ledger, lifted, born>>

\* Thirty days go by; what was at work when the row was deleted is over by then.
Age(id) ==
    /\ row[id] # None /\ row[id].deleted = "recent"
    /\ \A s \in Slots : task[s] = None
    /\ \A s \in Syncs : sync[s] = Idle
    /\ event # "noted"
    /\ row' = [row EXCEPT ![id].deleted = "old"]
    /\ UNCHANGED <<object, threads, task, event, sync, sweep, ledger, lifted, born,
                   bounds>>

\* enforceRetentionPolicy reads the rows deleted thirty days ago ...
Sweep ==
    /\ \A i \in Ids : sweep[i] = Still
    /\ \E i \in Ids : row[i] # None /\ row[i].deleted = "old"
    /\ sweep' = [i \in Ids |->
         IF row[i] # None /\ row[i].deleted = "old"
           THEN [stage |-> IF row[i].audio THEN "object" ELSE "row", name |-> row[i].name]
           ELSE Still]
    /\ UNCHANGED <<row, object, threads, task, event, sync, ledger, lifted, born, bounds>>

\* ... and one after the other deletes the object, which ends it if storage fails, ...
SweepObject(id) ==
    /\ sweep[id].stage = "object"
    /\ \A i \in Ids : sweep[i].stage # "thread"
    /\ \/ /\ object' = object \ {id}
          /\ sweep' = [sweep EXCEPT ![id].stage = "row"]
       \/ /\ "storage" \in Faults
          /\ sweep' = [sweep EXCEPT ![id] = Still]
          /\ UNCHANGED object
    /\ UNCHANGED <<row, threads, task, event, sync, ledger, lifted, born, bounds>>

\* ... the row, ...
SweepRow(id) ==
    /\ sweep[id].stage = "row"
    /\ \A i \in Ids : sweep[i].stage # "thread"
    /\ LET same == row[id] # None /\ row[id].name = sweep[id].name
       IN  /\ row' = IF same THEN [row EXCEPT ![id] = None] ELSE row
           /\ lifted' = IF same /\ Uploaded(row[id])
                          THEN [lifted EXCEPT ![id] = @ + 1] ELSE lifted
    /\ sweep' = [sweep EXCEPT ![id].stage = "thread"]
    /\ UNCHANGED <<object, threads, task, event, sync, ledger, born, bounds>>

\* ... and the conversations under its id.
SweepThread(id) ==
    /\ sweep[id].stage = "thread"
    /\ threads' = IF id = "conversation" THEN 0 ELSE threads
    /\ sweep' = [sweep EXCEPT ![id] = Still]
    /\ UNCHANGED <<row, object, task, event, sync, ledger, lifted, born, bounds>>

\* The backend dies; a job at work goes back to the queue (its stalled sweep).
Die ==
    /\ bounds.deaths < MaxDeaths
    /\ Use("deaths")
    /\ task' = [s \in Slots |->
                  IF task[s] = None THEN None ELSE [task[s] EXCEPT !.stage = "waiting"]]
    /\ event' = IF event = "noted" THEN "lost" ELSE event
    /\ sync' = [s \in Syncs |-> Idle]
    /\ sweep' = [i \in Ids |-> Still]
    /\ owing' = [i \in Ids |-> 0]
    /\ UNCHANGED <<row, object, threads, billed, lifted, born>>
--------------------------------------------------------------------------------
Work(s) ==
    \/ Take(s) \/ Fetch(s) \/ TranscriptFails(s) \/ Save(s) \/ Finish(s) \/ Fail(s)

Conversations(s) ==
    \/ SyncStart(s) \/ SyncThread(s) \/ SyncLook(s) \/ SyncUpdate(s) \/ SyncInsert(s)
    \/ SyncAttach(s)

Retention(id) == Age(id) \/ SweepObject(id) \/ SweepRow(id) \/ SweepThread(id)

Next ==
    \/ Saved \/ SavedAdds \/ Sweep \/ Die
    \/ \E s \in Syncs : Conversations(s)
    \/ \E s \in Slots : Work(s)
    \/ \E id \in Ids : Ask(id) \/ Charge(id) \/ Delete(id) \/ Retention(id)

Spec == Init /\ [][Next]_vars
--------------------------------------------------------------------------------
(***************************************************************************)
(* Properties                                                              *)
(***************************************************************************)

\* Every variable holds a value of its type.
TypeOK ==
    /\ row \in [Ids -> Row \cup {None}]
    /\ object \subseteq Ids
    /\ threads \in Nat
    /\ task \in [Slots -> Task \cup {None}]
    /\ event \in {"none", "noted", "done", "lost"}
    /\ sync \in [Syncs -> [ stage : {"idle", "thread", "look", "write", "attach"},
                            thread : BOOLEAN, found : Row \cup {None} ]]
    /\ sweep \in [Ids -> [stage : {"idle", "object", "row", "thread"}, name : Nat]]
    /\ owing \in [Ids -> Nat] /\ billed \in [Ids -> Nat] /\ lifted \in [Ids -> Nat]
    /\ born \in Nat
    /\ bounds \in [syncs : Nat, asked : Nat, deletes : Nat, deaths : Nat]

\* However often the import of an id is queued, retried or taken from a worker that
\* died, the minutes of its call are billed once, and again only after the row was
\* taken back from 'uploaded' (recordings.processor.ts).
BilledOnce == \A i \in Ids : billed[i] + owing[i] <= 1 + lifted[i]

\* A sync queues an import only of a recording that, by the row it read, has not been
\* uploaded already.
SyncSkipsUploaded ==
    [][\A s \in Syncs :
         (SyncAttach(s) /\ task' # task) =>
            sync[s].found = None \/ ~sync[s].found.audio]_vars

\* A recording shown as uploaded can be played.
UploadedPlays == \A i \in Ids : Uploaded(row[i]) /\ row[i].deleted = "no" => i \in object

\* Audio in storage belongs to a row that names it, or to an import still at work.
StoredIsNamed ==
    \A i \in object :
        \/ row[i] # None /\ row[i].audio
        \/ \E s \in Slots : task[s] # None /\ task[s].id = i

\* A recording that was deleted for good does not come back: no id has a second row.
DeletedForGood == born <= Cardinality(Ids)

\* The call is one conversation.
OneThread == threads <= 1
================================================================================
