---------------------------- MODULE RegisterProofs ----------------------------
(***************************************************************************)
(* The parts of the register, proved as the composition runs them: the     *)
(* kitchen print queue serves every ticket (KitchenIInv), the drawer keeps *)
(* its custody (DrawerIInv), customers follow their orders (CustIInv), the *)
(* server is told what the cart says (CartIInv), and a split adds up       *)
(* (SplitIInv).                                                            *)
(***************************************************************************)
EXTENDS RegisterMC, Sums, FiniteSetTheorems, TLAPS

\* What the argument needs of the types.
KitchenTyped ==
    /\ kq_app \in {"up", "down"}
    /\ kq_job \in [Jobs -> {Kitchen!NoJob}
            \cup [status : Kitchen!Status, attempts : Nat, paired : BOOLEAN]]
    /\ kq_drain \in [Drains -> Kitchen!Drain \cup {Kitchen!Idle}]
    /\ kq_running \in BOOLEAN /\ kq_rerun \in BOOLEAN
    /\ kq_copies \in [Jobs -> Nat]
    /\ kq_cut \subseteq Jobs

\* The guard of the service is set exactly while its one drain is in flight.
KitchenAlone ==
    /\ \A d, e \in Drains : kq_drain[d] # Kitchen!Idle /\ kq_drain[e] # Kitchen!Idle => d = e
    /\ kq_running <=> \E d \in Drains : kq_drain[d] # Kitchen!Idle
    /\ kq_app = "down" => ~kq_running

\* What a drain has before it waits in the table, and all that may still be tried is
\* before it, unless a caller has left a note.
KitchenWorked ==
    \A d \in Drains : kq_drain[d] # Kitchen!Idle =>
        /\ kq_drain[d].todo \subseteq Kitchen!Claimable
        /\ kq_drain[d].at = "printer" => kq_job[kq_drain[d].job].status = "printing"
        /\ kq_rerun \/ Kitchen!With({"queued"}) \subseteq Kitchen!Exhausted
                \cup kq_drain[d].todo

\* A row that says it is printing is at the printer, or was when the app was killed.
KitchenPrinting ==
    \A j \in Kitchen!With({"printing"}) :
        IF kq_app = "up" THEN \E d \in Drains : Kitchen!At(d, "printer") /\ kq_drain[d].job = j
                         ELSE j \in kq_cut

\* Paper is accounted for: a ticket that was not cut off has come out once if its row
\* says printed, and never otherwise.
KitchenCopied ==
    \A j \in Jobs :
        /\ kq_job[j].status = "printed" => kq_copies[j] >= 1
        /\ j \notin kq_cut => kq_copies[j] = IF kq_job[j].status = "printed" THEN 1 ELSE 0

KitchenIInv ==
    /\ KitchenTyped /\ KitchenAlone /\ KitchenWorked /\ KitchenPrinting /\ KitchenCopied
    /\ Kitchen!NoneLeftBehind /\ Kitchen!BadgeIsTrue
--------------------------------------------------------------------------------
\* The Cardinality of an instance is the Cardinality the library speaks of.
LEMMA KitchenCardinality == ASSUME NEW S PROVE Kitchen!Cardinality(S) = Cardinality(S)
  BY DEF Kitchen!Cardinality, Cardinality

LEMMA KitchenInitIInv == Kitchen!Init => KitchenIInv
<1>1. SUFFICES ASSUME Kitchen!Init PROVE KitchenIInv
  OBVIOUS
<1> USE <1>1 DEF Kitchen!Init
<1>1a. \A j \in Jobs : kq_job[j] = Kitchen!NoJob
  OBVIOUS
<1>2. KitchenTyped /\ KitchenAlone /\ KitchenWorked
  BY DEF KitchenTyped, KitchenAlone, KitchenWorked
<1>3. KitchenPrinting /\ KitchenCopied /\ Kitchen!NoneLeftBehind
  BY <1>1a DEF KitchenPrinting, KitchenCopied, Kitchen!NoneLeftBehind, Kitchen!With,
     Kitchen!Known, Kitchen!NoJob
<1>4. Kitchen!BadgeIsTrue
  <2>1. {j \in Jobs : kq_job[j].status = "failed"} = {}
    BY <1>1a DEF Kitchen!NoJob
  <2> QED
    BY <2>1, FS_EmptySet, KitchenCardinality DEF Kitchen!BadgeIsTrue, Kitchen!FailedCount
<1> QED
  BY <1>2, <1>3, <1>4 DEF KitchenIInv

LEMMA KitchenLoopIsDrain ==
    ASSUME NEW todo \in SUBSET Jobs
    PROVE  /\ Kitchen!Loop(todo) \in Kitchen!Drain /\ Kitchen!Loop(todo) # Kitchen!Idle
           /\ Kitchen!Loop(todo).at = "looping" /\ Kitchen!Loop(todo).todo = todo
  BY DEF Kitchen!Loop, Kitchen!Drain, Kitchen!Idle

\* A caller of process, with the rows as it leaves them: a job that was queued or
\* failed before still is, and nothing else is changed.
LEMMA KitchenPokeStep ==
    ASSUME KitchenTyped, KitchenAlone, KitchenWorked,
           \A d \in Drains : ~Kitchen!At(d, "looping"),
           kq_app' = "up", kq_copies' = kq_copies, kq_cut' = kq_cut,
           kq_job' \in [Jobs -> {Kitchen!NoJob}
              \cup [status : Kitchen!Status, attempts : Nat, paired : BOOLEAN]],
           \A j \in Kitchen!Claimable : kq_job'[j].status \in {"queued", "failed"},
           \A j \in Jobs : kq_job[j].status = "printing" /\ kq_running
              => kq_job'[j].status = "printing",
           Kitchen!Process(kq_job')
    PROVE  KitchenTyped' /\ KitchenAlone' /\ KitchenWorked' /\ kq_running'
<1> USE DEF Kitchen!Process
<1>1. KitchenTyped'
  <2> DEFINE todo == {j \in Jobs : kq_job'[j].status \in {"queued", "failed"}}
  <2>1. Kitchen!Loop(todo) \in Kitchen!Drain
    BY KitchenLoopIsDrain
  <2> HIDE DEF todo
  <2>2. kq_drain' \in [Drains -> Kitchen!Drain \cup {Kitchen!Idle}]
    <3>1. kq_drain' = kq_drain
             \/ \E d \in Drains : kq_drain' = [kq_drain EXCEPT ![d] = Kitchen!Loop(todo)]
      BY DEF todo
    <3> QED
      BY <2>1, <3>1 DEF KitchenTyped
  <2>3. kq_running' \in BOOLEAN /\ kq_rerun' \in BOOLEAN
    BY DEF KitchenTyped
  <2> QED
    BY <2>2, <2>3 DEF KitchenTyped
<1>2. KitchenAlone' /\ kq_running'
  <2>1. CASE kq_running
    BY <2>1 DEF KitchenTyped, KitchenAlone
  <2>2. CASE ~kq_running
    <3>1. \A e \in Drains : kq_drain[e] = Kitchen!Idle
      BY <2>2 DEF KitchenAlone
    <3>2. PICK d \in Drains :
            kq_drain' = [kq_drain EXCEPT ![d] =
                          Kitchen!Loop({j \in Jobs :
                             kq_job'[j].status \in {"queued", "failed"}})]
      BY <2>2
    <3>3. kq_drain'[d] # Kitchen!Idle /\ \A e \in Drains \ {d} : kq_drain'[e] = Kitchen!Idle
      BY <3>1, <3>2 DEF KitchenTyped, Kitchen!Loop, Kitchen!Idle
    <3> QED
      BY <2>2, <3>3 DEF KitchenAlone
  <2> QED
    BY <2>1, <2>2
<1>3. KitchenWorked'
  <2>1. CASE kq_running
    <3>1. \A d \in Drains : kq_drain[d] # Kitchen!Idle => kq_drain[d] \in Kitchen!Drain
             /\ Kitchen!At(d, "printer")
      BY DEF KitchenTyped, Kitchen!Drain, Kitchen!At
    <3>2. \A d \in Drains : kq_drain[d] # Kitchen!Idle =>
            kq_drain[d].todo \subseteq Jobs /\ kq_drain[d].job \in Jobs
      BY <3>1 DEF Kitchen!Drain, Kitchen!At
    <3>3. \A j \in Jobs : j \in Kitchen!Claimable => j \in Kitchen!Claimable'
      BY DEF Kitchen!Claimable, Kitchen!With, Kitchen!Known, KitchenTyped, Kitchen!NoJob
    <3> QED
      BY <2>1, <3>1, <3>2, <3>3 DEF KitchenWorked, Kitchen!At
  <2>2. CASE ~kq_running
    <3>1. PICK d \in Drains :
            kq_drain' = [kq_drain EXCEPT ![d] =
                          Kitchen!Loop({j \in Jobs :
                             kq_job'[j].status \in {"queued", "failed"}})]
      BY <2>2
    <3>2. \A e \in Drains : kq_drain'[e] # Kitchen!Idle => e = d
      BY <3>1, <2>2 DEF KitchenAlone, KitchenTyped
    <3>3. /\ kq_drain'[d].todo = {j \in Jobs : kq_job'[j].status \in {"queued", "failed"}}
          /\ kq_drain'[d].at = "looping"
      BY <3>1 DEF KitchenTyped, Kitchen!Loop
    <3>4. /\ {j \in Jobs :
               kq_job'[j].status \in {"queued", "failed"}} \subseteq Kitchen!Claimable'
          /\ Kitchen!With({"queued"})' \subseteq {j \in Jobs :
                  kq_job'[j].status \in {"queued", "failed"}}
      BY DEF Kitchen!Claimable, Kitchen!With, Kitchen!Known, Kitchen!NoJob
    <3> QED
      BY <3>2, <3>3, <3>4 DEF KitchenWorked
  <2> QED
    BY <2>1, <2>2
<1> QED
  BY <1>1, <1>2, <1>3

LEMMA KitchenPokePrinting ==
    ASSUME KitchenTyped, KitchenAlone, KitchenPrinting, kq_app = "up", kq_app' = "up",
           \A j \in Jobs : kq_job'[j].status = "printing" => kq_job[j].status = "printing",
           Kitchen!Process(kq_job')
    PROVE  KitchenPrinting'
<1>1. CASE kq_running
  BY <1>1 DEF Kitchen!Process, KitchenPrinting, Kitchen!With, Kitchen!Known, Kitchen!At,
     Kitchen!NoJob
<1>2. CASE ~kq_running
  <2>1. \A j \in Jobs : kq_job[j].status # "printing"
    BY <1>2 DEF KitchenAlone, KitchenPrinting, Kitchen!With, Kitchen!Known, Kitchen!At,
       Kitchen!NoJob
  <2> QED
    BY <2>1 DEF KitchenPrinting, Kitchen!With, Kitchen!Known
<1> QED
  BY <1>1, <1>2

LEMMA KitchenEnqueueStep ==
    ASSUME KitchenIInv, NEW j \in Jobs, Kitchen!Enqueue(j)
    PROVE  KitchenIInv'
<1> USE DEF KitchenIInv
<1>1. PICK paired \in BOOLEAN : kq_job'
         = [kq_job EXCEPT ![j] = Kitchen!Row("queued", 0, paired)]
  BY DEF Kitchen!Enqueue
<1>2. /\ kq_job[j] = Kitchen!NoJob /\ kq_app = "up" /\ kq_app' = "up"
           /\ kq_copies' = kq_copies /\ kq_cut' = kq_cut
      /\ Kitchen!Process(kq_job') /\ \A d \in Drains : ~Kitchen!At(d, "looping")
  BY DEF Kitchen!Enqueue, Kitchen!Free
<1>3. /\ kq_job' \in [Jobs -> {Kitchen!NoJob}
           \cup [status : Kitchen!Status, attempts : Nat, paired : BOOLEAN]]
      /\ kq_job'[j].status = "queued"
      /\ \A i \in Jobs \ {j} : kq_job'[i] = kq_job[i]
  BY <1>1 DEF KitchenTyped, Kitchen!Row, Kitchen!Status
<1>4. \A i \in Kitchen!Claimable : kq_job'[i].status \in {"queued", "failed"}
  BY <1>2, <1>3 DEF Kitchen!Claimable, Kitchen!With, Kitchen!Known
<1>5. \A i \in Jobs : kq_job[i].status = "printing" <=> kq_job'[i].status = "printing"
  BY <1>2, <1>3 DEF Kitchen!NoJob
<1>6. KitchenTyped' /\ KitchenAlone' /\ KitchenWorked' /\ kq_running'
  BY <1>2, <1>3, <1>4, <1>5, KitchenPokeStep
<1>7. KitchenPrinting'
  BY <1>2, <1>5, KitchenPokePrinting
<1>8. KitchenCopied'
  BY <1>2, <1>3 DEF KitchenCopied, Kitchen!NoJob
<1>9. Kitchen!NoneLeftBehind' /\ Kitchen!BadgeIsTrue'
  BY <1>6 DEF Kitchen!NoneLeftBehind, Kitchen!BadgeIsTrue
<1> QED
  BY <1>6, <1>7, <1>8, <1>9

LEMMA KitchenRetryStep ==
    ASSUME KitchenIInv, Kitchen!RetryAllFailed
    PROVE  KitchenIInv'
<1> USE DEF KitchenIInv
<1>1. /\ kq_app = "up" /\ kq_app' = "up" /\ kq_copies' = kq_copies /\ kq_cut' = kq_cut
      /\ Kitchen!Process(kq_job') /\ \A d \in Drains : ~Kitchen!At(d, "looping")
  BY DEF Kitchen!RetryAllFailed, Kitchen!Free
<1>2. \A j \in Jobs :
        kq_job'[j] = IF kq_job[j].status = "failed"
           THEN [kq_job[j] EXCEPT !.status = "queued"] ELSE kq_job[j]
  BY DEF Kitchen!RetryAllFailed, Kitchen!With, Kitchen!Known, Kitchen!NoJob
<1>3. kq_job' \in [Jobs -> {Kitchen!NoJob}
         \cup [status : Kitchen!Status, attempts : Nat, paired : BOOLEAN]]
  <2>1. \A j \in Jobs :
          kq_job'[j] \in {Kitchen!NoJob}
             \cup [status : Kitchen!Status, attempts : Nat, paired : BOOLEAN]
    <3> TAKE j \in Jobs
    <3>1. CASE kq_job[j].status = "failed"
      <4>1. kq_job[j] \in [status : Kitchen!Status, attempts : Nat, paired : BOOLEAN]
        BY <3>1 DEF KitchenTyped, Kitchen!NoJob
      <4> QED
        BY <1>2, <3>1, <4>1 DEF Kitchen!Status
    <3>2. CASE kq_job[j].status # "failed"
      BY <1>2, <3>2 DEF KitchenTyped
    <3> QED
      BY <3>1, <3>2
  <2> QED
    BY <2>1 DEF Kitchen!RetryAllFailed
<1>4. \A j \in Jobs :
        kq_job'[j].status = IF kq_job[j].status = "failed" THEN "queued" ELSE kq_job[j].status
  <2> TAKE j \in Jobs
  <2>1. CASE kq_job[j].status = "failed"
    <3>1. kq_job[j] \in [status : Kitchen!Status, attempts : Nat, paired : BOOLEAN]
      BY <2>1 DEF KitchenTyped, Kitchen!NoJob
    <3> QED
      BY <1>2, <2>1, <3>1
  <2>2. CASE kq_job[j].status # "failed"
    BY <1>2, <2>2
  <2> QED
    BY <2>1, <2>2
<1>5. KitchenTyped' /\ KitchenAlone' /\ KitchenWorked' /\ kq_running'
  <2>1. \A j \in Kitchen!Claimable : kq_job'[j].status \in {"queued", "failed"}
    BY <1>4 DEF Kitchen!Claimable, Kitchen!With, Kitchen!Known
  <2> QED
    BY <1>1, <1>3, <1>4, <2>1, KitchenPokeStep
<1>6. KitchenPrinting'
  BY <1>1, <1>4, KitchenPokePrinting
<1>7. KitchenCopied'
  BY <1>1, <1>4 DEF KitchenCopied
<1>8. Kitchen!NoneLeftBehind' /\ Kitchen!BadgeIsTrue'
  BY <1>5 DEF Kitchen!NoneLeftBehind, Kitchen!BadgeIsTrue
<1> QED
  BY <1>5, <1>6, <1>7, <1>8

LEMMA KitchenLaunchStep ==
    ASSUME KitchenIInv, Kitchen!Launch
    PROVE  KitchenIInv'
<1> USE DEF KitchenIInv
<1>1. /\ kq_app = "down" /\ kq_app' = "up" /\ kq_copies' = kq_copies /\ kq_cut' = kq_cut
           /\ Kitchen!Process(kq_job')
  BY DEF Kitchen!Launch
<1>2. ~kq_running /\ \A d \in Drains : kq_drain[d] = Kitchen!Idle
  BY <1>1 DEF KitchenAlone
<1>3. \A j \in Jobs :
        kq_job'[j] = IF kq_job[j].status = "printing"
           THEN [kq_job[j] EXCEPT !.status = "failed"] ELSE kq_job[j]
  BY DEF Kitchen!Launch, Kitchen!With, Kitchen!Known, Kitchen!NoJob
<1>4. \A j \in Jobs :
        /\ kq_job'[j] \in {Kitchen!NoJob}
                \cup [status : Kitchen!Status, attempts : Nat, paired : BOOLEAN]
        /\ kq_job'[j].status = IF kq_job[j].status = "printing" THEN "failed"
                ELSE kq_job[j].status
  <2> TAKE j \in Jobs
  <2>1. CASE kq_job[j].status = "printing"
    <3>1. kq_job[j] \in [status : Kitchen!Status, attempts : Nat, paired : BOOLEAN]
      BY <2>1 DEF KitchenTyped, Kitchen!NoJob
    <3> QED
      BY <1>3, <2>1, <3>1 DEF Kitchen!Status
  <2>2. CASE kq_job[j].status # "printing"
    BY <1>3, <2>2 DEF KitchenTyped
  <2> QED
    BY <2>1, <2>2
<1>5. KitchenTyped' /\ KitchenAlone' /\ KitchenWorked' /\ kq_running'
  <2>1. \A j \in Kitchen!Claimable : kq_job'[j].status \in {"queued", "failed"}
    BY <1>4 DEF Kitchen!Claimable, Kitchen!With, Kitchen!Known
  <2>2. \A d \in Drains : ~Kitchen!At(d, "looping")
    BY <1>2 DEF Kitchen!At
  <2>3. kq_job' \in [Jobs -> {Kitchen!NoJob}
           \cup [status : Kitchen!Status, attempts : Nat, paired : BOOLEAN]]
    BY <1>4 DEF Kitchen!Launch
  <2> QED
    BY <1>1, <1>2, <2>1, <2>2, <2>3, KitchenPokeStep
<1>6. KitchenPrinting'
  BY <1>4 DEF KitchenPrinting, Kitchen!With, Kitchen!Known
<1>7. KitchenCopied'
  BY <1>1, <1>4 DEF KitchenCopied
<1>8. Kitchen!NoneLeftBehind' /\ Kitchen!BadgeIsTrue'
  BY <1>5 DEF Kitchen!NoneLeftBehind, Kitchen!BadgeIsTrue
<1> QED
  BY <1>5, <1>6, <1>7, <1>8

LEMMA KitchenMarkFact ==
    ASSUME KitchenTyped, NEW j \in Jobs, NEW status \in Kitchen!Status, NEW more \in 0..1,
           kq_job[j].status # "none", Kitchen!Mark(j, status, more)
    PROVE  /\ kq_job' \in [Jobs -> {Kitchen!NoJob}
                \cup [status : Kitchen!Status, attempts : Nat, paired : BOOLEAN]]
           /\ kq_job'[j].status = status
           /\ \A i \in Jobs \ {j} : kq_job'[i] = kq_job[i]
<1>1. kq_job[j] \in [status : Kitchen!Status, attempts : Nat, paired : BOOLEAN]
  BY DEF KitchenTyped, Kitchen!NoJob
<1> DEFINE tries == IF kq_job[j].attempts < MaxAttempts THEN kq_job[j].attempts + more
                    ELSE kq_job[j].attempts
<1>2. tries \in Nat
  BY <1>1
<1>3. kq_job' = [kq_job EXCEPT ![j].status = status, ![j].attempts = tries]
  BY <1>1 DEF Kitchen!Mark, KitchenTyped
<1> HIDE DEF tries
<1>4. kq_job'[j] = [status |-> status, attempts |-> tries, paired |-> kq_job[j].paired]
  BY <1>1, <1>3 DEF KitchenTyped
<1>5. kq_job'[j] \in [status : Kitchen!Status, attempts : Nat, paired : BOOLEAN]
  BY <1>1, <1>2, <1>4
<1>6. \A i \in Jobs \ {j} : kq_job'[i] = kq_job[i]
  BY <1>3 DEF KitchenTyped
<1>7. kq_job' = [i \in Jobs |-> kq_job'[i]]
  BY <1>3 DEF KitchenTyped
<1>8. \A i \in Jobs :
        kq_job'[i] \in {Kitchen!NoJob}
           \cup [status : Kitchen!Status, attempts : Nat, paired : BOOLEAN]
  BY <1>5, <1>6 DEF KitchenTyped
<1> QED
  BY <1>4, <1>6, <1>7, <1>8

\* The drain in flight and what it goes on with.
LEMMA KitchenDrainFact ==
    ASSUME KitchenIInv, NEW d \in Drains, kq_drain[d] # Kitchen!Idle
    PROVE  /\ kq_running /\ kq_app = "up"
           /\ \A e \in Drains \ {d} : kq_drain[e] = Kitchen!Idle
           /\ kq_drain[d].todo \subseteq Kitchen!Claimable /\ kq_drain[d].todo \subseteq Jobs
           /\ kq_drain[d].at \in {"looping", "printer"}
           /\ kq_drain[d].at = "printer" =>
                /\ kq_drain[d].job \in Jobs /\ kq_job[kq_drain[d].job].status = "printing"
                /\ kq_drain[d].job \notin kq_drain[d].todo
<1>1. kq_drain[d] \in Kitchen!Drain
  BY DEF KitchenIInv, KitchenTyped
<1>2. kq_running /\ kq_app = "up" /\ \A e \in Drains \ {d} : kq_drain[e] = Kitchen!Idle
  BY DEF KitchenIInv, KitchenAlone, KitchenTyped
<1> QED
  BY <1>1, <1>2 DEF Kitchen!Drain, KitchenIInv, KitchenWorked, Kitchen!Claimable,
     Kitchen!With, Kitchen!Known

\* One drain goes on, to looping over todo.
LEMMA KitchenLoopStep ==
    ASSUME KitchenIInv, NEW d \in Drains, kq_drain[d] # Kitchen!Idle,
           NEW todo \in SUBSET Jobs, kq_drain' = [kq_drain EXCEPT ![d] = Kitchen!Loop(todo)],
           UNCHANGED <<kq_app, kq_running>>,
           todo \subseteq Kitchen!Claimable',
           kq_rerun' \/ Kitchen!With({"queued"})' \subseteq Kitchen!Exhausted' \cup todo
    PROVE  /\ kq_drain' \in [Drains -> Kitchen!Drain \cup {Kitchen!Idle}]
           /\ KitchenAlone' /\ KitchenWorked'
           /\ Kitchen!NoneLeftBehind' /\ Kitchen!BadgeIsTrue'
<1>1. /\ kq_drain' \in [Drains -> Kitchen!Drain \cup {Kitchen!Idle}]
      /\ kq_drain'[d] = Kitchen!Loop(todo)
              /\ \A e \in Drains \ {d} : kq_drain'[e] = Kitchen!Idle
  BY KitchenLoopIsDrain, KitchenDrainFact DEF KitchenIInv, KitchenTyped
<1>2. KitchenAlone'
  BY <1>1, KitchenLoopIsDrain, KitchenDrainFact DEF KitchenIInv, KitchenAlone
<1>3. KitchenWorked'
  <2>1. \A e \in Drains : kq_drain'[e] # Kitchen!Idle => e = d
    BY <1>1
  <2>2. kq_drain'[d].todo = todo /\ kq_drain'[d].at = "looping"
    BY <1>1, KitchenLoopIsDrain
  <2> QED
    BY <2>1, <2>2 DEF KitchenWorked
<1>4. Kitchen!NoneLeftBehind' /\ Kitchen!BadgeIsTrue'
  BY KitchenDrainFact DEF Kitchen!NoneLeftBehind, Kitchen!BadgeIsTrue
<1> QED
  BY <1>1, <1>2, <1>3, <1>4

LEMMA KitchenStepStep ==
    ASSUME KitchenIInv, NEW d \in Drains, Kitchen!Step(d)
    PROVE  KitchenIInv'
<1>1. PICK j \in kq_drain[d].todo :
        LET rest == kq_drain[d].todo \ {j} IN
        \/ Kitchen!Mark(j, "failed", 1)
                /\ kq_drain' = [kq_drain EXCEPT ![d] = Kitchen!Loop(rest)]
        \/ j \in Kitchen!Exhausted /\ kq_drain' = [kq_drain EXCEPT ![d] = Kitchen!Loop(rest)]
                /\ UNCHANGED kq_job
        \/ /\ Kitchen!Mark(j, "printing", 0)
           /\ kq_drain' = [kq_drain EXCEPT ![d] = [at |-> "printer", job |-> j, todo |-> rest]]
  BY DEF Kitchen!Step
<1>2. kq_drain[d] # Kitchen!Idle /\ kq_drain[d].at = "looping"
         /\ UNCHANGED <<kq_app, kq_running, kq_rerun, kq_copies, kq_cut>>
  BY DEF Kitchen!Step, Kitchen!At
<1> DEFINE rest == kq_drain[d].todo \ {j}
<1>3. /\ j \in Jobs /\ kq_job[j].status \in {"queued", "failed"} /\ rest \in SUBSET Jobs
      /\ \A i \in rest : kq_job[i].status \in {"queued", "failed"} /\ kq_job[i] # Kitchen!NoJob
  BY <1>2, KitchenDrainFact DEF Kitchen!Claimable, Kitchen!With, Kitchen!Known
<1>4. \A e \in Drains : Kitchen!At(e, "printer") => FALSE
  BY <1>2, KitchenDrainFact DEF Kitchen!At
<1>5. \A i \in Jobs : kq_job[i].status # "printing"
  BY <1>2, <1>4, KitchenDrainFact DEF KitchenIInv, KitchenPrinting, Kitchen!With,
     Kitchen!Known, Kitchen!NoJob
<1>6. kq_rerun \/ Kitchen!With({"queued"}) \subseteq Kitchen!Exhausted \cup kq_drain[d].todo
  BY <1>2 DEF KitchenIInv, KitchenWorked
<1>7. CASE Kitchen!Mark(j, "failed", 1)
         /\ kq_drain' = [kq_drain EXCEPT ![d] = Kitchen!Loop(rest)]
  <2>1. /\ kq_job' \in [Jobs -> {Kitchen!NoJob}
             \cup [status : Kitchen!Status, attempts : Nat, paired : BOOLEAN]]
        /\ kq_job'[j].status = "failed" /\ \A i \in Jobs \ {j} : kq_job'[i] = kq_job[i]
    BY <1>3, <1>7, KitchenMarkFact DEF KitchenIInv, Kitchen!Status
  <2>2. rest \subseteq Kitchen!Claimable'
    BY <1>3, <2>1 DEF Kitchen!Claimable, Kitchen!With, Kitchen!Known
  <2>3. kq_rerun' \/ Kitchen!With({"queued"})' \subseteq Kitchen!Exhausted' \cup rest
    BY <1>2, <1>6, <2>1 DEF Kitchen!With, Kitchen!Known, Kitchen!Exhausted
  <2>4. /\ kq_drain' \in [Drains -> Kitchen!Drain \cup {Kitchen!Idle}] /\ KitchenAlone'
             /\ KitchenWorked'
        /\ Kitchen!NoneLeftBehind' /\ Kitchen!BadgeIsTrue'
    BY <1>2, <1>3, <1>7, <2>2, <2>3, KitchenLoopStep
  <2>5. KitchenTyped'
    BY <1>2, <2>1, <2>4 DEF KitchenIInv, KitchenTyped
  <2>6. KitchenPrinting' /\ KitchenCopied'
    BY <1>2, <1>3, <1>5, <2>1 DEF KitchenIInv, KitchenPrinting, KitchenCopied,
       Kitchen!With, Kitchen!Known
  <2> QED
    BY <2>4, <2>5, <2>6 DEF KitchenIInv
<1>8. CASE j \in Kitchen!Exhausted /\ kq_drain' = [kq_drain EXCEPT ![d] = Kitchen!Loop(rest)]
         /\ UNCHANGED kq_job
  <2>1. rest \subseteq Kitchen!Claimable'
    BY <1>3, <1>8 DEF Kitchen!Claimable, Kitchen!With, Kitchen!Known
  <2>2. kq_rerun' \/ Kitchen!With({"queued"})' \subseteq Kitchen!Exhausted' \cup rest
    BY <1>2, <1>6, <1>8 DEF Kitchen!With, Kitchen!Known, Kitchen!Exhausted
  <2>3. /\ kq_drain' \in [Drains -> Kitchen!Drain \cup {Kitchen!Idle}] /\ KitchenAlone'
             /\ KitchenWorked'
        /\ Kitchen!NoneLeftBehind' /\ Kitchen!BadgeIsTrue'
    BY <1>2, <1>3, <1>8, <2>1, <2>2, KitchenLoopStep
  <2>4. KitchenTyped'
    BY <1>2, <1>8, <2>3 DEF KitchenIInv, KitchenTyped
  <2>5. KitchenPrinting' /\ KitchenCopied'
    BY <1>2, <1>5, <1>8 DEF KitchenIInv, KitchenPrinting, KitchenCopied, Kitchen!With,
       Kitchen!Known
  <2> QED
    BY <2>3, <2>4, <2>5 DEF KitchenIInv
<1>9. CASE /\ Kitchen!Mark(j, "printing", 0)
           /\ kq_drain' = [kq_drain EXCEPT ![d] = [at |-> "printer", job |-> j, todo |-> rest]]
  <2> DEFINE next == [at |-> "printer", job |-> j, todo |-> rest]
  <2>1. /\ kq_job' \in [Jobs -> {Kitchen!NoJob}
             \cup [status : Kitchen!Status, attempts : Nat, paired : BOOLEAN]]
        /\ kq_job'[j].status = "printing" /\ \A i \in Jobs \ {j} : kq_job'[i] = kq_job[i]
    BY <1>3, <1>9, KitchenMarkFact DEF KitchenIInv, Kitchen!Status
  <2>2. /\ next \in Kitchen!Drain /\ next # Kitchen!Idle
        /\ next.at = "printer" /\ next.job = j /\ next.todo = rest
    BY <1>3 DEF Kitchen!Drain, Kitchen!Idle
  <2>3. kq_drain' = [kq_drain EXCEPT ![d] = next]
    BY <1>9
  <2> HIDE DEF next
  <2>4. /\ kq_drain' \in [Drains -> Kitchen!Drain \cup {Kitchen!Idle}] /\ kq_drain'[d] = next
        /\ \A e \in Drains \ {d} : kq_drain'[e] = Kitchen!Idle
    BY <1>2, <2>2, <2>3, KitchenDrainFact DEF KitchenIInv, KitchenTyped
  <2>5. KitchenTyped'
    BY <1>2, <2>1, <2>4 DEF KitchenIInv, KitchenTyped
  <2>6. KitchenAlone'
    BY <1>2, <2>2, <2>4, KitchenDrainFact DEF KitchenIInv, KitchenAlone
  <2>7. KitchenWorked'
    <3>1. rest \subseteq Kitchen!Claimable'
      BY <1>3, <2>1 DEF Kitchen!Claimable, Kitchen!With, Kitchen!Known
    <3>2. kq_rerun' \/ Kitchen!With({"queued"})' \subseteq Kitchen!Exhausted' \cup rest
      BY <1>2, <1>6, <2>1 DEF Kitchen!With, Kitchen!Known, Kitchen!Exhausted
    <3>3. \A e \in Drains : kq_drain'[e] # Kitchen!Idle => e = d
      BY <2>4
    <3> QED
      BY <2>1, <2>2, <2>4, <3>1, <3>2, <3>3 DEF KitchenWorked
  <2>8. KitchenPrinting'
    BY <1>2, <1>5, <2>1, <2>2, <2>4, KitchenDrainFact DEF KitchenPrinting, Kitchen!With,
       Kitchen!Known, Kitchen!At
  <2>9. KitchenCopied'
    BY <1>2, <1>3, <2>1 DEF KitchenIInv, KitchenCopied
  <2>10. Kitchen!NoneLeftBehind' /\ Kitchen!BadgeIsTrue'
    BY <1>2, KitchenDrainFact DEF Kitchen!NoneLeftBehind, Kitchen!BadgeIsTrue
  <2> QED
    BY <2>5, <2>6, <2>7, <2>8, <2>9, <2>10 DEF KitchenIInv
<1> QED
  BY <1>1, <1>7, <1>8, <1>9

\* The printer answers: the ticket it had is marked, and the drain loops on.
LEMMA KitchenAnswerStep ==
    ASSUME KitchenIInv, NEW d \in Drains, Kitchen!At(d, "printer"),
              NEW status \in {"printed", "failed"},
           Kitchen!Mark(kq_drain[d].job, status, 1),
           kq_drain' = [kq_drain EXCEPT ![d] = Kitchen!Loop(kq_drain[d].todo)],
           UNCHANGED <<kq_app, kq_running, kq_rerun>>,
           kq_copies' \in [Jobs -> Nat], kq_cut' \in SUBSET Jobs,
           \A i \in Jobs \ {kq_drain[d].job} : kq_copies'[i] = kq_copies[i]
              /\ (i \in kq_cut' <=> i \in kq_cut),
           status = "printed" => kq_copies'[kq_drain[d].job] = kq_copies[kq_drain[d].job] + 1,
           status = "printed" => kq_cut' = kq_cut,
           status = "failed" => kq_drain[d].job \in kq_cut'
              \/ (kq_copies' = kq_copies /\ kq_cut' = kq_cut)
    PROVE  KitchenIInv'
<1> DEFINE j == kq_drain[d].job
           rest == kq_drain[d].todo
<1>1. kq_drain[d] # Kitchen!Idle /\ kq_drain[d].at = "printer"
  BY DEF Kitchen!At
<1>2. /\ j \in Jobs /\ kq_job[j].status = "printing" /\ j \notin rest
      /\ rest \subseteq Kitchen!Claimable /\ rest \in SUBSET Jobs /\ kq_app = "up"
      /\ \A e \in Drains \ {d} : kq_drain[e] = Kitchen!Idle
  BY <1>1, KitchenDrainFact
<1> HIDE DEF j, rest
<1>3. /\ kq_job' \in [Jobs -> {Kitchen!NoJob}
           \cup [status : Kitchen!Status, attempts : Nat, paired : BOOLEAN]]
      /\ kq_job'[j].status = status /\ \A i \in Jobs \ {j} : kq_job'[i] = kq_job[i]
  BY <1>2, KitchenMarkFact DEF KitchenIInv, Kitchen!Status, j
<1>4. rest \subseteq Kitchen!Claimable'
  BY <1>2, <1>3 DEF Kitchen!Claimable, Kitchen!With, Kitchen!Known
<1>5. kq_rerun' \/ Kitchen!With({"queued"})' \subseteq Kitchen!Exhausted' \cup rest
  BY <1>1, <1>3 DEF KitchenIInv, KitchenWorked, Kitchen!With, Kitchen!Known,
     Kitchen!Exhausted, rest
<1>6. /\ kq_drain' \in [Drains -> Kitchen!Drain \cup {Kitchen!Idle}] /\ KitchenAlone'
           /\ KitchenWorked'
      /\ Kitchen!NoneLeftBehind' /\ Kitchen!BadgeIsTrue'
  BY <1>1, <1>2, <1>4, <1>5, KitchenLoopStep DEF rest
<1>7. KitchenTyped'
  BY <1>3, <1>6 DEF KitchenIInv, KitchenTyped
<1>8. KitchenPrinting'
  <2>1. \A i \in Jobs : kq_job[i].status = "printing" => i = j
    BY <1>2 DEF KitchenIInv, KitchenPrinting, Kitchen!With, Kitchen!Known, Kitchen!At,
       Kitchen!NoJob, j
  <2>2. \A i \in Jobs : kq_job'[i].status # "printing"
    BY <1>3, <2>1
  <2> QED
    BY <2>2 DEF KitchenPrinting, Kitchen!With, Kitchen!Known
<1>9. KitchenCopied'
  BY <1>2, <1>3 DEF KitchenIInv, KitchenTyped, KitchenCopied, j
<1> QED
  BY <1>6, <1>7, <1>8, <1>9 DEF KitchenIInv

LEMMA KitchenPrinterStep ==
    ASSUME KitchenIInv, NEW d \in Drains, Kitchen!Printed(d) \/ Kitchen!PrintFails(d)
    PROVE  KitchenIInv'
<1>1. Kitchen!At(d, "printer") /\ kq_drain[d].job \in Jobs
  BY KitchenDrainFact DEF Kitchen!Printed, Kitchen!PrintFails, Kitchen!At
<1>2. kq_copies \in [Jobs -> Nat] /\ kq_cut \in SUBSET Jobs
  BY DEF KitchenIInv, KitchenTyped
<1>3. CASE Kitchen!Printed(d)
  <2>1. /\ kq_copies'
             = [kq_copies EXCEPT ![kq_drain[d].job] = kq_copies[kq_drain[d].job] + 1]
             /\ kq_cut' = kq_cut
        /\ Kitchen!Mark(kq_drain[d].job, "printed", 1)
        /\ kq_drain' = [kq_drain EXCEPT ![d] = Kitchen!Loop(kq_drain[d].todo)]
        /\ UNCHANGED <<kq_app, kq_running, kq_rerun>>
    BY <1>3 DEF Kitchen!Printed
  <2>2. /\ kq_copies' \in [Jobs -> Nat] /\ kq_cut' \in SUBSET Jobs
        /\ kq_copies'[kq_drain[d].job] = kq_copies[kq_drain[d].job] + 1
        /\ \A i \in Jobs \ {kq_drain[d].job} : kq_copies'[i] = kq_copies[i]
    BY <1>1, <1>2, <2>1
  <2> QED
    BY <1>1, <2>1, <2>2, KitchenAnswerStep
<1>4. CASE Kitchen!PrintFails(d)
  <2>1. /\ \/ UNCHANGED <<kq_copies, kq_cut>>
           \/ /\ kq_copies' =
                     [kq_copies EXCEPT ![kq_drain[d].job] = kq_copies[kq_drain[d].job] + 1]
              /\ kq_cut' = kq_cut \cup {kq_drain[d].job}
        /\ Kitchen!Mark(kq_drain[d].job, "failed", 1)
        /\ kq_drain' = [kq_drain EXCEPT ![d] = Kitchen!Loop(kq_drain[d].todo)]
        /\ UNCHANGED <<kq_app, kq_running, kq_rerun>>
    BY <1>4 DEF Kitchen!PrintFails
  <2>2. /\ kq_copies' \in [Jobs -> Nat] /\ kq_cut' \in SUBSET Jobs
        /\ \A i \in Jobs \ {kq_drain[d].job} : kq_copies'[i] = kq_copies[i]
                /\ (i \in kq_cut' <=> i \in kq_cut)
        /\ kq_drain[d].job \in kq_cut' \/ (kq_copies' = kq_copies /\ kq_cut' = kq_cut)
    BY <1>1, <1>2, <2>1
  <2> QED
    BY <1>1, <2>1, <2>2, KitchenAnswerStep
<1> QED
  BY <1>3, <1>4

LEMMA KitchenEndPassStep ==
    ASSUME KitchenIInv, NEW d \in Drains, Kitchen!EndPass(d)
    PROVE  KitchenIInv'
<1>1. /\ kq_drain[d] # Kitchen!Idle /\ kq_drain[d].at = "looping" /\ kq_drain[d].todo = {}
      /\ UNCHANGED <<kq_app, kq_job, kq_copies, kq_cut>>
  BY DEF Kitchen!EndPass, Kitchen!At
<1>2. KitchenPrinting' /\ KitchenCopied'
  <2>1. \A j \in Jobs : kq_job[j].status # "printing"
    BY <1>1, KitchenDrainFact DEF KitchenIInv, KitchenPrinting, Kitchen!With,
       Kitchen!Known, Kitchen!At, Kitchen!NoJob
  <2> QED
    BY <1>1, <2>1 DEF KitchenIInv, KitchenPrinting, KitchenCopied, Kitchen!With,
       Kitchen!Known
<1>3. CASE kq_rerun
  <2>1. /\ kq_drain' = [kq_drain EXCEPT ![d] = Kitchen!Loop(Kitchen!Claimable)]
             /\ kq_running' = kq_running /\ kq_rerun' = FALSE
    BY <1>3 DEF Kitchen!EndPass
  <2>2. /\ Kitchen!Claimable \in SUBSET Jobs /\ Kitchen!Claimable \subseteq Kitchen!Claimable'
        /\ Kitchen!With({"queued"})' \subseteq Kitchen!Claimable
    BY <1>1 DEF Kitchen!Claimable, Kitchen!With, Kitchen!Known
  <2>3. /\ kq_drain' \in [Drains -> Kitchen!Drain \cup {Kitchen!Idle}] /\ KitchenAlone'
             /\ KitchenWorked'
        /\ Kitchen!NoneLeftBehind' /\ Kitchen!BadgeIsTrue'
    BY <1>1, <2>1, <2>2, KitchenLoopStep
  <2> QED
    BY <1>1, <1>2, <2>1, <2>3 DEF KitchenIInv, KitchenTyped
<1>4. CASE ~kq_rerun
  <2>1. /\ kq_drain' = [kq_drain EXCEPT ![d] = Kitchen!Idle] /\ ~kq_running'
             /\ kq_rerun' = kq_rerun
        /\ kq_badge' = Kitchen!FailedCount(kq_job) /\ kq_running' \in BOOLEAN
    BY <1>4 DEF Kitchen!EndPass
  <2>2. KitchenTyped' /\ \A e \in Drains : kq_drain'[e] = Kitchen!Idle
    BY <1>1, <2>1, KitchenDrainFact DEF KitchenIInv, KitchenTyped
  <2>3. KitchenAlone' /\ KitchenWorked'
    BY <2>1, <2>2 DEF KitchenAlone, KitchenWorked
  <2>4. Kitchen!NoneLeftBehind'
    BY <1>1, <1>4 DEF KitchenIInv, KitchenWorked, Kitchen!NoneLeftBehind, Kitchen!With,
       Kitchen!Known, Kitchen!Exhausted
  <2>5. Kitchen!BadgeIsTrue'
    BY <1>1, <2>1 DEF Kitchen!BadgeIsTrue
  <2> QED
    BY <1>2, <2>2, <2>3, <2>4, <2>5 DEF KitchenIInv
<1> QED
  BY <1>3, <1>4

LEMMA KitchenKillStep ==
    ASSUME KitchenIInv, Kitchen!Kill
    PROVE  KitchenIInv'
<1> DEFINE out == {kq_drain[d].job : d \in {e \in Drains : Kitchen!At(e, "printer")}}
<1>1. /\ kq_app = "up" /\ kq_app' = "down" /\ kq_running' = FALSE /\ kq_rerun' = FALSE
      /\ kq_drain' = [d \in Drains |-> Kitchen!Idle] /\ kq_job' = kq_job
              /\ kq_cut' = kq_cut \cup out
  BY DEF Kitchen!Kill
<1>2. PICK done \in SUBSET out :
        kq_copies' = [j \in Jobs |-> IF j \in done THEN kq_copies[j] + 1 ELSE kq_copies[j]]
  BY DEF Kitchen!Kill
<1>3. \A j \in out : j \in Jobs /\ kq_job[j].status = "printing"
  BY KitchenDrainFact DEF Kitchen!At
<1>4. KitchenTyped'
  <2>1. kq_copies' \in [Jobs -> Nat]
    BY <1>2 DEF KitchenIInv, KitchenTyped
  <2>2. kq_cut' \subseteq Jobs
    <3> HIDE DEF out
    <3> QED
      BY <1>1, <1>3 DEF KitchenIInv, KitchenTyped
  <2>3. kq_drain' \in [Drains -> Kitchen!Drain \cup {Kitchen!Idle}] /\ kq_job' = kq_job
    BY <1>1
  <2>4. kq_app' \in {"up", "down"} /\ kq_running' \in BOOLEAN /\ kq_rerun' \in BOOLEAN
    BY <1>1
  <2> QED
    BY <2>1, <2>2, <2>3, <2>4 DEF KitchenIInv, KitchenTyped
<1>5. KitchenAlone' /\ KitchenWorked'
  BY <1>1 DEF KitchenAlone, KitchenWorked
<1>6. KitchenPrinting'
  <2>1. Kitchen!With({"printing"}) \subseteq out
    BY <1>1 DEF KitchenIInv, KitchenPrinting
  <2> QED
    BY <1>1, <2>1 DEF KitchenPrinting, Kitchen!With, Kitchen!Known
<1>7. KitchenCopied'
  BY <1>1, <1>2, <1>3 DEF KitchenIInv, KitchenTyped, KitchenCopied
<1>8. Kitchen!NoneLeftBehind' /\ Kitchen!BadgeIsTrue'
  BY <1>1 DEF Kitchen!NoneLeftBehind, Kitchen!BadgeIsTrue
<1> QED
  BY <1>4, <1>5, <1>6, <1>7, <1>8 DEF KitchenIInv

LEMMA KitchenNextIInv ==
    ASSUME KitchenIInv, [Kitchen!Next]_(Kitchen!vars)
    PROVE  KitchenIInv'
<1>1. ASSUME NEW j \in Jobs, Kitchen!Enqueue(j) PROVE KitchenIInv'
  BY <1>1, KitchenEnqueueStep
<1>2. ASSUME NEW d \in Drains, Kitchen!Go(d) PROVE KitchenIInv'
  BY <1>2, KitchenStepStep, KitchenPrinterStep, KitchenEndPassStep DEF Kitchen!Go
<1>3. ASSUME Kitchen!RetryAllFailed \/ Kitchen!Kill \/ Kitchen!Launch PROVE KitchenIInv'
  BY <1>3, KitchenRetryStep, KitchenKillStep, KitchenLaunchStep
<1>4. CASE UNCHANGED Kitchen!vars
  <2>1. KitchenTyped' /\ KitchenAlone' /\ KitchenWorked' /\ KitchenPrinting' /\ KitchenCopied'
    BY <1>4 DEF Kitchen!vars, KitchenIInv, KitchenTyped, KitchenAlone, KitchenWorked,
       KitchenPrinting, KitchenCopied, Kitchen!Claimable, Kitchen!With, Kitchen!Known,
                Kitchen!Exhausted, Kitchen!At
  <2>2. Kitchen!NoneLeftBehind' /\ Kitchen!BadgeIsTrue'
    BY <1>4 DEF Kitchen!vars, KitchenIInv, Kitchen!NoneLeftBehind, Kitchen!BadgeIsTrue,
       Kitchen!With, Kitchen!Known, Kitchen!Exhausted
  <2> QED
    BY <2>1, <2>2 DEF KitchenIInv
<1> QED
  BY <1>1, <1>2, <1>3, <1>4 DEF Kitchen!Next

\* The counters of the kitchen queue keep within their bounds.
KitchenCapped ==
    /\ \A j \in Jobs : kq_job[j].status # "none" => kq_job[j].attempts <= MaxAttempts
    /\ kq_badge \in 0..Cardinality(Jobs)
    /\ kq_taps \in 0..MaxTaps /\ kq_kills \in 0..MaxKills

LEMMA KitchenBadgeIn ==
    ASSUME KitchenBounds, NEW rows PROVE Kitchen!FailedCount(rows) \in 0..Cardinality(Jobs)
<1> DEFINE F == {j \in Jobs : rows[j].status = "failed"}
<1>1. Kitchen!FailedCount(rows) = Cardinality(F)
  BY KitchenCardinality DEF Kitchen!FailedCount
<1>2. F \in SUBSET Jobs /\ IsFiniteSet(Jobs)
  BY DEF KitchenBounds
<1> HIDE DEF F
<1>3. IsFiniteSet(F) /\ Cardinality(F) <= Cardinality(Jobs)
  BY <1>2, FS_Subset
<1>4. Cardinality(F) \in Nat /\ Cardinality(Jobs) \in Nat
  BY <1>2, <1>3, FS_CardinalityType
<1> QED
  BY <1>1, <1>3, <1>4

LEMMA KitchenInitCapped == ASSUME KitchenBounds, Kitchen!Init PROVE KitchenCapped
<1>1. Cardinality(Jobs) \in Nat
  BY FS_CardinalityType DEF KitchenBounds
<1>2. \A j \in Jobs : kq_job[j].status = "none"
  BY DEF Kitchen!Init, Kitchen!NoJob
<1>3. kq_badge = 0 /\ kq_taps = 0 /\ kq_kills = 0
  BY DEF Kitchen!Init
<1> QED
  BY <1>1, <1>2, <1>3 DEF KitchenCapped, KitchenBounds

LEMMA KitchenMarkTries ==
    ASSUME KitchenBounds, KitchenTyped, KitchenCapped, NEW j \in Jobs,
           NEW status \in Kitchen!Status, NEW more \in 0..1,
           kq_job[j].status # "none", Kitchen!Mark(j, status, more)
    PROVE  \A i \in Jobs : kq_job'[i].status # "none" => kq_job'[i].attempts <= MaxAttempts
<1>1. kq_job[j] \in [status : Kitchen!Status, attempts : Nat, paired : BOOLEAN]
      /\ kq_job[j].attempts <= MaxAttempts
  BY DEF KitchenTyped, KitchenCapped, Kitchen!NoJob
<1> DEFINE tries == IF kq_job[j].attempts < MaxAttempts THEN kq_job[j].attempts + more
                    ELSE kq_job[j].attempts
<1>2. tries <= MaxAttempts
  BY <1>1 DEF KitchenBounds
<1>3. kq_job' = [kq_job EXCEPT ![j].status = status, ![j].attempts = tries]
  BY <1>1 DEF Kitchen!Mark, KitchenTyped
<1> HIDE DEF tries
<1>4. kq_job'[j] = [status |-> status, attempts |-> tries, paired |-> kq_job[j].paired]
  BY <1>1, <1>3 DEF KitchenTyped
<1>5. \A i \in Jobs \ {j} : kq_job'[i] = kq_job[i]
  BY <1>3 DEF KitchenTyped
<1> QED
  BY <1>2, <1>4, <1>5 DEF KitchenCapped

LEMMA KitchenNextCapped ==
    ASSUME KitchenBounds, KitchenIInv, KitchenCapped, [Kitchen!Next]_(Kitchen!vars)
    PROVE  KitchenCapped'
<1> DEFINE Badge == kq_badge' = kq_badge \/ \E rows : kq_badge' = Kitchen!FailedCount(rows)
           Taps  == kq_taps' = kq_taps \/ (kq_taps < MaxTaps /\ kq_taps' = kq_taps + 1)
           Kills == kq_kills' = kq_kills \/ (kq_kills < MaxKills /\ kq_kills' = kq_kills + 1)
           Tries == \A i \in Jobs :
                      kq_job'[i].status # "none" => kq_job'[i].attempts <= MaxAttempts
<1>1. ASSUME NEW j \in Jobs, Kitchen!Enqueue(j) PROVE Badge /\ Taps /\ Kills /\ Tries
  <2>1. Badge /\ Taps /\ Kills
    BY <1>1 DEF Kitchen!Enqueue
  <2>2. PICK paired \in BOOLEAN :
          kq_job' = [kq_job EXCEPT ![j] = Kitchen!Row("queued", 0, paired)]
    BY <1>1 DEF Kitchen!Enqueue
  <2>3. kq_job'[j].attempts = 0 /\ \A i \in Jobs \ {j} : kq_job'[i] = kq_job[i]
    BY <2>2 DEF KitchenIInv, KitchenTyped, Kitchen!Row
  <2>4. Tries
    BY <2>3 DEF KitchenCapped, KitchenBounds
  <2> QED
    BY <2>1, <2>4
<1>2. ASSUME Kitchen!RetryAllFailed PROVE Badge /\ Taps /\ Kills /\ Tries
  <2>1. Badge /\ Taps /\ Kills
    BY <1>2 DEF Kitchen!RetryAllFailed
  <2>2. \A i \in Jobs :
          kq_job'[i] = IF kq_job[i].status = "failed"
                         THEN [kq_job[i] EXCEPT !.status = "queued"] ELSE kq_job[i]
    BY <1>2 DEF Kitchen!Known, Kitchen!NoJob, Kitchen!RetryAllFailed, Kitchen!With
  <2>3. ASSUME NEW i \in Jobs, kq_job'[i].status # "none"
        PROVE  kq_job'[i].attempts <= MaxAttempts
    <3>1. kq_job[i] = Kitchen!NoJob \/
            kq_job[i] \in [status : Kitchen!Status, attempts : Nat, paired : BOOLEAN]
      BY DEF KitchenIInv, KitchenTyped
    <3>2. kq_job[i] # Kitchen!NoJob
      <4> SUFFICES ASSUME kq_job[i] = Kitchen!NoJob PROVE FALSE
        OBVIOUS
      <4>1. kq_job[i].status = "none"
        BY DEF Kitchen!NoJob
      <4>2. kq_job'[i] = kq_job[i]
        BY <2>2, <4>1
      <4> QED
        BY <2>3, <4>1, <4>2
    <3>3. kq_job[i].status # "none" /\ kq_job'[i].attempts = kq_job[i].attempts
      BY <2>2, <3>1, <3>2 DEF Kitchen!Status
    <3> QED
      BY <3>3 DEF KitchenCapped
  <2> QED
    BY <2>1, <2>3
<1>3. ASSUME Kitchen!Launch PROVE Badge /\ Taps /\ Kills /\ Tries
  <2>1. Badge /\ Taps /\ Kills
    BY <1>3 DEF Kitchen!Launch
  <2>2. \A i \in Jobs :
          kq_job'[i] = IF kq_job[i].status = "printing"
                         THEN [kq_job[i] EXCEPT !.status = "failed"] ELSE kq_job[i]
    BY <1>3 DEF Kitchen!Known, Kitchen!NoJob, Kitchen!Launch, Kitchen!With
  <2>3. ASSUME NEW i \in Jobs, kq_job'[i].status # "none"
        PROVE  kq_job'[i].attempts <= MaxAttempts
    <3>1. kq_job[i] = Kitchen!NoJob \/
            kq_job[i] \in [status : Kitchen!Status, attempts : Nat, paired : BOOLEAN]
      BY DEF KitchenIInv, KitchenTyped
    <3>2. kq_job[i] # Kitchen!NoJob
      <4> SUFFICES ASSUME kq_job[i] = Kitchen!NoJob PROVE FALSE
        OBVIOUS
      <4>1. kq_job[i].status = "none"
        BY DEF Kitchen!NoJob
      <4>2. kq_job'[i] = kq_job[i]
        BY <2>2, <4>1
      <4> QED
        BY <2>3, <4>1, <4>2
    <3>3. kq_job[i].status # "none" /\ kq_job'[i].attempts = kq_job[i].attempts
      BY <2>2, <3>1, <3>2 DEF Kitchen!Status
    <3> QED
      BY <3>3 DEF KitchenCapped
  <2> QED
    BY <2>1, <2>3
<1>4. ASSUME Kitchen!Kill \/ UNCHANGED Kitchen!vars PROVE Badge /\ Taps /\ Kills /\ Tries
  BY <1>4 DEF Kitchen!Kill, Kitchen!vars, KitchenCapped
<1>5. ASSUME NEW d \in Drains, Kitchen!Go(d) PROVE Badge /\ Taps /\ Kills /\ Tries
  <2>1. Badge /\ Taps /\ Kills
    BY <1>5 DEF Kitchen!Go, Kitchen!Step, Kitchen!Printed, Kitchen!PrintFails, Kitchen!EndPass
  <2>2. CASE kq_job' = kq_job
    BY <2>1, <2>2 DEF KitchenCapped
  <2>3. ASSUME NEW j \in Jobs, NEW status \in Kitchen!Status, NEW more \in 0..1,
               kq_job[j].status # "none", Kitchen!Mark(j, status, more)
        PROVE  Tries
    BY <2>3, KitchenMarkTries DEF KitchenIInv
  <2>4. CASE Kitchen!Step(d)
    <3>1. kq_drain[d] # Kitchen!Idle
      BY <2>4 DEF Kitchen!Step, Kitchen!At
    <3>2. kq_drain[d].todo \subseteq Kitchen!Claimable /\ kq_drain[d].todo \subseteq Jobs
      BY <3>1, KitchenDrainFact
    <3>3. PICK j \in kq_drain[d].todo :
            kq_job' = kq_job \/ Kitchen!Mark(j, "failed", 1) \/ Kitchen!Mark(j, "printing", 0)
      BY <2>4 DEF Kitchen!Step
    <3>4. j \in Jobs /\ kq_job[j].status # "none"
      BY <3>2 DEF Kitchen!Claimable, Kitchen!With
    <3> QED
      BY <2>1, <2>2, <2>3, <3>3, <3>4 DEF Kitchen!Status
  <2>5. CASE Kitchen!Printed(d) \/ Kitchen!PrintFails(d)
    <3> DEFINE j == kq_drain[d].job
    <3>1. kq_drain[d] # Kitchen!Idle /\ kq_drain[d].at = "printer"
      BY <2>5 DEF Kitchen!Printed, Kitchen!PrintFails, Kitchen!At
    <3>2. j \in Jobs /\ kq_job[j].status # "none"
      BY <3>1, KitchenDrainFact
    <3>3. Kitchen!Mark(j, "printed", 1) \/ Kitchen!Mark(j, "failed", 1)
      BY <2>5 DEF Kitchen!Printed, Kitchen!PrintFails
    <3> QED
      BY <2>1, <2>3, <3>2, <3>3 DEF Kitchen!Status
  <2>6. CASE Kitchen!EndPass(d)
    BY <2>1, <2>2, <2>6 DEF Kitchen!EndPass
  <2> QED
    BY <1>5, <2>4, <2>5, <2>6 DEF Kitchen!Go
<1>6. Badge /\ Taps /\ Kills /\ Tries
  BY <1>1, <1>2, <1>3, <1>4, <1>5 DEF Kitchen!Next
<1>7. kq_badge' \in 0..Cardinality(Jobs)
  BY <1>6, KitchenBadgeIn DEF KitchenCapped
<1>8. kq_taps' \in 0..MaxTaps /\ kq_kills' \in 0..MaxKills
  BY <1>6 DEF KitchenCapped, KitchenBounds
<1> QED
  BY <1>6, <1>7, <1>8 DEF KitchenCapped

LEMMA KitchenTypes == ASSUME KitchenBounds, KitchenIInv, KitchenCapped PROVE Kitchen!TypeOK
<1>1. \A j \in Jobs : kq_job[j] \in {Kitchen!NoJob} \cup
         [status : Kitchen!Status, attempts : 0..MaxAttempts, paired : BOOLEAN]
  BY DEF KitchenIInv, KitchenTyped, KitchenCapped, KitchenBounds, Kitchen!NoJob, Kitchen!Status
<1>2. kq_job \in [Jobs -> {Kitchen!NoJob} \cup
         [status : Kitchen!Status, attempts : 0..MaxAttempts, paired : BOOLEAN]]
  BY <1>1 DEF KitchenIInv, KitchenTyped
<1>3. Kitchen!Cardinality(Jobs) = Cardinality(Jobs)
  BY KitchenCardinality
<1> QED
  BY <1>2, <1>3 DEF KitchenIInv, KitchenTyped, KitchenCapped, Kitchen!TypeOK

LEMMA KitchenIInvServes == KitchenIInv => Kitchen!KitchenIsServed
<1>1. SUFFICES ASSUME KitchenIInv PROVE Kitchen!KitchenIsServed
  OBVIOUS
<1>2. Kitchen!OneAtATime
  <2>1. \A d, e \in Drains : Kitchen!At(d, "printer") /\ Kitchen!At(e, "printer") => d = e
    BY <1>1 DEF KitchenIInv, KitchenAlone, Kitchen!At
  <2>2. \A d \in Drains : Kitchen!At(d, "printer")
           => kq_drain[d].job \in Kitchen!With({"printing"})
    BY <1>1, KitchenDrainFact DEF Kitchen!At, Kitchen!With, Kitchen!Known, Kitchen!NoJob
  <2>3. kq_app = "up" =>
          \A j \in Kitchen!With({"printing"}) : \E d \in Drains : Kitchen!At(d, "printer")
             /\ kq_drain[d].job = j
    BY <1>1 DEF KitchenIInv, KitchenPrinting
  <2> QED
    BY <2>1, <2>2, <2>3 DEF Kitchen!OneAtATime
<1>3. Kitchen!CookedOnce
  BY <1>1 DEF KitchenIInv, KitchenCopied, KitchenTyped, Kitchen!CookedOnce, Kitchen!Known
<1> QED
  BY <1>1, <1>2, <1>3 DEF KitchenIInv, Kitchen!KitchenIsServed
--------------------------------------------------------------------------------
\* PrintQueueService, for any number of tickets and of callers that poke it, and any
\* number of kills: one ticket at the printer at a time, none left in line or failed
\* unseen when the queue rests, and none cooked twice but by a kill or by a printer
\* that reports a failure with the ticket out.
THEOREM KitchenQueueIsServed == Kitchen!Spec => []Kitchen!KitchenIsServed
  BY KitchenInitIInv, KitchenNextIInv, KitchenIInvServes, PTL DEF Kitchen!Spec
--------------------------------------------------------------------------------
DrawerSale   == [status : {"saved", "paid"}, created : Nat, day : Dates, cash : BOOLEAN]
DrawerRow == [status : {"open", "closed"}, opening : Nat, expected : Nat]

\* What the argument needs of the types.
DrawerTyped ==
    /\ cd_date \in Dates /\ cd_day \in Dates \cup {0}
    /\ cd_session \in [Drawer!Sessions -> {Drawer!NoSession} \cup DrawerRow]
            /\ cd_opens \in 0..MaxOpens
    /\ cd_order \in [Sales -> {Drawer!NoOrder} \cup DrawerSale]
    /\ cd_took \in [Drawer!Sessions -> Nat] /\ cd_day_of \in [Sales -> Dates \cup {0}]

\* Only the last drawer can be open, on an open day; no order is of a later one.
DrawerLatest ==
    /\ \A n \in Drawer!Open : n = cd_opens /\ cd_day # 0
    /\ \A n \in Drawer!Sessions : n > cd_opens => cd_session[n] = Drawer!NoSession
    /\ \A o \in Sales : cd_order[o] # Drawer!NoOrder => cd_order[o].created <= cd_opens

DrawerCashSet(n) == {o \in Drawer!Paid : cd_order[o].cash /\ cd_order[o].created >= n}

\* The open drawer holds all the cash of its time.
DrawerCovered == \A n \in Drawer!Open : Drawer!CashSince(n) <= cd_took[n]

\* A paid order is of the day that was open when it was paid.
DrawerDated == \A o \in Drawer!Paid : cd_day_of[o] = cd_order[o].day

DrawerIInv == DrawerTyped /\ DrawerLatest /\ DrawerCovered /\ DrawerDated
   /\ Drawer!NeverExpectsMore
--------------------------------------------------------------------------------
LEMMA DrawerCardinality == ASSUME NEW S PROVE Drawer!Cardinality(S) = Cardinality(S)
  BY DEF Drawer!Cardinality, Cardinality

LEMMA DrawerInitIInv == ASSUME DrawerBounds, Drawer!Init PROVE DrawerIInv
<1> USE DEF Drawer!Init, DrawerBounds
<1>1. \A n \in Drawer!Sessions : cd_session[n] = Drawer!NoSession
  OBVIOUS
<1>2. \A o \in Sales : cd_order[o] = Drawer!NoOrder
  OBVIOUS
<1>3. DrawerTyped
  BY DEF DrawerTyped
<1>4. DrawerLatest /\ DrawerCovered /\ Drawer!NeverExpectsMore
  BY <1>1, <1>2 DEF DrawerLatest, DrawerCovered, Drawer!NeverExpectsMore, Drawer!Open,
     Drawer!NoSession
<1>5. DrawerDated
  BY <1>2 DEF DrawerDated, Drawer!Paid, Drawer!NoOrder
<1> QED
  BY <1>3, <1>4, <1>5 DEF DrawerIInv

LEMMA DrawerCashIsCounted ==
    ASSUME DrawerBounds, NEW n
    PROVE  /\ Drawer!CashSince(n) = Cardinality(DrawerCashSet(n))
           /\ Drawer!CashSince(n) \in Nat /\ IsFiniteSet(DrawerCashSet(n))
<1>1. DrawerCashSet(n) \subseteq Sales
  BY DEF DrawerCashSet, Drawer!Paid
<1>2. IsFiniteSet(DrawerCashSet(n))
  BY <1>1, FS_Subset DEF DrawerBounds
<1>3. Drawer!CashSince(n) = Cardinality(DrawerCashSet(n))
  BY DrawerCardinality DEF Drawer!CashSince, DrawerCashSet
<1> QED
  BY <1>2, <1>3, FS_CardinalityType

\* A drawer is opened where none is, on a day that is open.
LEMMA DrawerOpenStep ==
    ASSUME DrawerBounds, DrawerIInv, NEW float \in 0..1, Drawer!OpenSession(float),
              Drawer!Open = {},
           cd_day' \in Dates, UNCHANGED <<cd_date, cd_order, cd_took, cd_day_of>>
    PROVE  DrawerIInv'
<1> DEFINE new == [status |-> "open", opening |-> float, expected |-> 0]
           m   == cd_opens + 1
<1> USE DEF DrawerIInv
<1>1. /\ m \in Drawer!Sessions /\ cd_opens \in Nat /\ cd_opens' = m /\ new \in DrawerRow
      /\ cd_session' = [cd_session EXCEPT ![m] = new]
  BY DEF Drawer!OpenSession, DrawerTyped, DrawerBounds, DrawerRow, Drawer!Sessions
<1>2. cd_opens' \in 0..MaxOpens
  BY <1>1 DEF Drawer!Sessions, DrawerBounds
<1>3. /\ cd_session' \in [Drawer!Sessions -> {Drawer!NoSession} \cup DrawerRow]
      /\ cd_session'[m] = new /\ \A n \in Drawer!Sessions \ {m} : cd_session'[n] = cd_session[n]
  BY <1>1 DEF DrawerTyped
<1>4. DrawerTyped'
  BY <1>2, <1>3 DEF DrawerTyped, Drawer!Sessions
<1>5. Drawer!Open' = {m}
  BY <1>1, <1>3 DEF Drawer!Open
<1>6. DrawerLatest'
  <2>1. cd_day' # 0
    BY DEF DrawerBounds
  <2>2. \A n \in Drawer!Open' : n = cd_opens'
    BY <1>1, <1>5
  <2>3. \A n \in Drawer!Sessions : n > cd_opens' => cd_session'[n] = Drawer!NoSession
    BY <1>1, <1>3 DEF DrawerLatest, Drawer!Sessions
  <2>4. \A o \in Sales : cd_order'[o] # Drawer!NoOrder => cd_order'[o].created <= cd_opens'
    <3> TAKE o \in Sales
    <3> SUFFICES ASSUME cd_order[o] # Drawer!NoOrder PROVE cd_order[o].created <= m
      BY <1>1
    <3>1. cd_order[o].created \in Nat /\ cd_order[o].created <= cd_opens
      BY DEF DrawerTyped, DrawerSale, DrawerLatest
    <3> QED
      BY <1>1, <3>1
  <2> QED
    BY <2>1, <2>2, <2>3, <2>4 DEF DrawerLatest, Drawer!Sessions
<1>7. DrawerCovered'
  <2>1. DrawerCashSet(m) = {}
    <3> SUFFICES ASSUME NEW o \in DrawerCashSet(m) PROVE FALSE
      OBVIOUS
    <3>1. o \in Sales /\ cd_order[o] # Drawer!NoOrder /\ cd_order[o].created >= m
      BY DEF DrawerCashSet, Drawer!Paid, Drawer!NoOrder
    <3>2. cd_order[o].created \in Nat /\ cd_order[o].created <= cd_opens
      BY <3>1 DEF DrawerTyped, DrawerSale, DrawerLatest
    <3> QED
      BY <1>1, <3>1, <3>2
  <2>2. Cardinality(DrawerCashSet(m)) = 0
    BY <2>1, FS_EmptySet
  <2>3. cd_took'[m] \in Nat
    BY <1>1 DEF DrawerTyped
  <2>4. DrawerCovered' <=> \A n \in Drawer!Open' : Cardinality(DrawerCashSet(n)) <= cd_took'[n]
    BY DrawerCardinality DEF DrawerCovered, Drawer!CashSince, DrawerCashSet, Drawer!Paid
  <2> HIDE DEF m
  <2> QED
    BY <1>5, <2>2, <2>3, <2>4
<1>8. DrawerDated'
  BY DEF DrawerDated, Drawer!Paid
<1>9. Drawer!NeverExpectsMore'
  BY <1>3 DEF Drawer!NeverExpectsMore, Drawer!Sessions
<1> QED
  BY <1>4, <1>6, <1>7, <1>8, <1>9

\* The open drawer is closed, with the day or without.
LEMMA DrawerCloseStep ==
    ASSUME DrawerBounds, DrawerIInv, NEW n \in Drawer!Open, Drawer!CloseSession(n),
              cd_day' \in {0, cd_day},
           UNCHANGED <<cd_date, cd_opens, cd_order, cd_took, cd_day_of>>
    PROVE  DrawerIInv'
<1> USE DEF DrawerIInv
<1> DEFINE sum == cd_session[n].opening + Drawer!CashSince(n)
<1>1. n \in Drawer!Sessions /\ cd_session[n] \in DrawerRow /\ n = cd_opens
  BY DEF Drawer!Open, DrawerTyped, Drawer!NoSession, DrawerLatest
<1>2. sum \in Nat /\ Drawer!CashSince(n) \in Nat
  BY <1>1, DrawerCashIsCounted DEF DrawerRow
<1>3. cd_session' = [cd_session EXCEPT ![n].status = "closed", ![n].expected = sum]
  BY DEF Drawer!CloseSession
<1>4. sum <= cd_session[n].opening + cd_took[n]
  <2>1. Drawer!CashSince(n) <= cd_took[n] /\ cd_took[n] \in Nat /\ cd_session[n].opening \in Nat
    BY <1>1 DEF DrawerCovered, DrawerTyped, DrawerRow
  <2> QED
    BY <1>1, <1>2, <2>1
<1> HIDE DEF sum
<1>5. /\ cd_session'[n]
           = [status |-> "closed", opening |-> cd_session[n].opening, expected |-> sum]
      /\ \A i \in Drawer!Sessions \ {n} : cd_session'[i] = cd_session[i]
  BY <1>1, <1>3 DEF DrawerTyped, DrawerRow
<1>6. cd_session'[n] \in DrawerRow
  BY <1>1, <1>2, <1>5 DEF DrawerRow
<1>7. cd_session' \in [Drawer!Sessions -> {Drawer!NoSession} \cup DrawerRow]
  <2>1. \A i \in Drawer!Sessions : cd_session'[i] \in {Drawer!NoSession} \cup DrawerRow
    BY <1>5, <1>6 DEF DrawerTyped
  <2>2. cd_session' = [i \in Drawer!Sessions |-> cd_session'[i]]
    BY <1>3 DEF DrawerTyped
  <2> QED
    BY <2>1, <2>2
<1>8. DrawerTyped'
  BY <1>7 DEF DrawerTyped, Drawer!Sessions
<1>9. Drawer!Open' = {}
  BY <1>1, <1>5 DEF Drawer!Open, DrawerLatest, Drawer!Sessions
<1>10. DrawerLatest'
  <2>1. \A i \in Drawer!Sessions : i > cd_opens' => cd_session'[i] = Drawer!NoSession
    BY <1>1, <1>5 DEF DrawerLatest, Drawer!Sessions, DrawerBounds
  <2> QED
    BY <1>9, <2>1 DEF DrawerLatest, Drawer!Sessions
<1>11. DrawerCovered' /\ DrawerDated'
  BY <1>9 DEF DrawerCovered, DrawerDated, Drawer!Paid
<1>12. Drawer!NeverExpectsMore'
  <2>1. cd_session'[n].expected <= cd_session'[n].opening + cd_took'[n]
    BY <1>4, <1>5
  <2> QED
    BY <1>5, <2>1 DEF Drawer!NeverExpectsMore, Drawer!Sessions
<1> QED
  BY <1>8, <1>10, <1>11, <1>12

\* An order that was not paid is, and its cash goes into the open drawer.
LEMMA DrawerTakeStep ==
    ASSUME DrawerBounds, DrawerIInv, NEW o \in Sales \ Drawer!Paid, NEW cash \in BOOLEAN,
              NEW new \in DrawerSale,
           new.status = "paid", new.day = cd_day, new.cash = cash, new.created <= cd_opens,
           cd_order' \in [Sales -> {Drawer!NoOrder} \cup DrawerSale], cd_order'[o] = new,
           \A i \in Sales \ {o} : cd_order'[i] = cd_order[i], Drawer!Take(o, cash), cd_day # 0,
           UNCHANGED <<cd_date, cd_day, cd_session, cd_opens>>
    PROVE  DrawerIInv'
<1> USE DEF DrawerIInv
<1>1. cd_order'[o] = new /\ \A i \in Sales \ {o} : cd_order'[i] = cd_order[i]
  OBVIOUS
<1>2. /\ cd_took' \in [Drawer!Sessions -> Nat]
      /\ \A n \in Drawer!Sessions :
           cd_took'[n] = IF cash /\ n \in Drawer!Open THEN cd_took[n] + 1 ELSE cd_took[n]
  BY DEF Drawer!Take, DrawerTyped
<1>3. /\ cd_day_of' \in [Sales -> Dates \cup {0}]
      /\ cd_day_of'[o] = cd_day /\ \A i \in Sales \ {o} : cd_day_of'[i] = cd_day_of[i]
  BY DEF Drawer!Take, DrawerTyped
<1>4. DrawerTyped'
  BY <1>1, <1>2, <1>3 DEF DrawerTyped, Drawer!Sessions
<1>5. Drawer!Paid' = Drawer!Paid \cup {o} /\ Drawer!Open' = Drawer!Open
  BY <1>1 DEF Drawer!Paid, Drawer!Open, Drawer!Sessions
<1>6. DrawerLatest'
  BY <1>1, <1>5 DEF DrawerLatest, Drawer!Sessions
<1>7. DrawerDated'
  BY <1>1, <1>3, <1>5 DEF DrawerDated, Drawer!Paid
<1>8. DrawerCovered'
  <2> SUFFICES ASSUME NEW n \in Drawer!Open PROVE Drawer!CashSince(n)' <= cd_took'[n]
    BY <1>5 DEF DrawerCovered
  <2>1. /\ Drawer!CashSince(n) \in Nat /\ IsFiniteSet(DrawerCashSet(n))
        /\ Drawer!CashSince(n) = Cardinality(DrawerCashSet(n))
    BY DrawerCashIsCounted
  <2>2. Drawer!CashSince(n)' = Cardinality(DrawerCashSet(n)')
    BY DrawerCardinality DEF Drawer!CashSince, DrawerCashSet, Drawer!Sessions
  <2>3. n \in Drawer!Sessions /\ Drawer!CashSince(n) <= cd_took[n] /\ cd_took[n] \in Nat
    BY DEF Drawer!Open, DrawerCovered, DrawerTyped
  <2>4. CASE cash /\ new.created >= n
    <3>1. DrawerCashSet(n)' = DrawerCashSet(n) \cup {o}
      BY <1>1, <1>5, <2>4 DEF DrawerCashSet, Drawer!Paid
    <3>2. o \notin DrawerCashSet(n)
      BY DEF DrawerCashSet
    <3>3. Drawer!CashSince(n)' = Drawer!CashSince(n) + 1
      BY ZenonT(60), <2>1, <2>2, <3>1, <3>2, FS_AddElement
    <3> QED
      BY <1>2, <2>1, <2>3, <2>4, <3>3
  <2>5. CASE ~(cash /\ new.created >= n)
    <3>1. DrawerCashSet(n)' = DrawerCashSet(n)
      BY <1>1, <1>5, <2>5 DEF DrawerCashSet, Drawer!Paid
    <3> QED
      BY <1>2, <2>1, <2>2, <2>3, <3>1
  <2> QED
    BY <2>4, <2>5
<1>9. Drawer!NeverExpectsMore'
  <2> SUFFICES ASSUME NEW n \in Drawer!Sessions, cd_session[n].status = "closed"
               PROVE  cd_session[n].expected <= cd_session[n].opening + cd_took'[n]
    BY DEF Drawer!NeverExpectsMore, Drawer!Sessions
  <2>1. n \notin Drawer!Open
    BY DEF Drawer!Open
  <2> QED
    BY <1>2, <2>1 DEF Drawer!NeverExpectsMore
<1> QED
  BY <1>4, <1>6, <1>7, <1>8, <1>9

LEMMA DrawerSaveStep ==
    ASSUME DrawerBounds, DrawerIInv, NEW o \in Sales, Drawer!Save(o)
    PROVE  DrawerIInv'
<1> USE DEF DrawerIInv
<1> DEFINE new == [status |-> "saved", created |-> cd_opens, day |-> cd_day, cash |-> FALSE]
<1>1. /\ new \in DrawerSale /\ new.status = "saved" /\ new.created = cd_opens
           /\ cd_opens \in Nat
      /\ cd_order[o] = Drawer!NoOrder
  BY DEF Drawer!Save, DrawerTyped, DrawerSale, DrawerBounds
<1>2. /\ cd_order' = [cd_order EXCEPT ![o] = new]
      /\ UNCHANGED <<cd_date, cd_day, cd_starts, cd_session, cd_opens, cd_took, cd_day_of>>
  BY DEF Drawer!Save
<1> HIDE DEF new
<1>3. /\ cd_order' \in [Sales -> {Drawer!NoOrder} \cup DrawerSale]
      /\ cd_order'[o] = new /\ \A i \in Sales \ {o} : cd_order'[i] = cd_order[i]
  BY <1>1, <1>2 DEF DrawerTyped
<1>4. DrawerTyped'
  BY <1>2, <1>3 DEF DrawerTyped, Drawer!Sessions
<1>5. Drawer!Paid' = Drawer!Paid /\ Drawer!Open' = Drawer!Open
  BY <1>1, <1>2, <1>3 DEF Drawer!Paid, Drawer!Open, Drawer!Sessions, Drawer!NoOrder
<1>6. DrawerLatest'
  BY <1>1, <1>2, <1>3, <1>5 DEF DrawerLatest, Drawer!Sessions
<1>7. o \notin Drawer!Paid
  BY <1>1 DEF Drawer!Paid, Drawer!NoOrder
<1>8. DrawerCovered'
  <2>1. \A n : Drawer!CashSince(n)' = Drawer!CashSince(n)
    <3> TAKE n
    <3>1. {i \in Drawer!Paid' : cd_order'[i].cash /\ cd_order'[i].created >= n} =
          {i \in Drawer!Paid : cd_order[i].cash /\ cd_order[i].created >= n}
      BY <1>3, <1>5, <1>7 DEF Drawer!Paid
    <3> QED
      BY <3>1 DEF Drawer!CashSince
  <2> QED
    BY <1>2, <1>5, <2>1 DEF DrawerCovered
<1>9. DrawerDated' /\ Drawer!NeverExpectsMore'
  <2>1. DrawerDated'
    BY <1>2, <1>3, <1>5, <1>7 DEF DrawerDated, Drawer!Paid
  <2>2. Drawer!NeverExpectsMore'
    BY <1>2 DEF Drawer!NeverExpectsMore, Drawer!Sessions
  <2> QED
    BY <2>1, <2>2
<1> QED
  BY <1>4, <1>6, <1>8, <1>9

\* A step that leaves the drawers, the orders and the history alone.
LEMMA DrawerIdleStep ==
    ASSUME DrawerIInv, UNCHANGED <<cd_session, cd_opens, cd_order, cd_took, cd_day_of>>,
           cd_date' \in Dates, cd_day' \in Dates \cup {0}, cd_day' = 0 => Drawer!Open = {}
    PROVE  DrawerIInv'
<1> USE DEF DrawerIInv
<1>1. Drawer!Open' = Drawer!Open /\ Drawer!Paid' = Drawer!Paid
  BY DEF Drawer!Open, Drawer!Paid, Drawer!Sessions
<1>2. DrawerTyped'
  BY DEF DrawerTyped, Drawer!Sessions
<1>3. DrawerLatest' /\ DrawerDated'
  BY <1>1 DEF DrawerLatest, DrawerDated, Drawer!Sessions
<1>4. DrawerCovered' /\ Drawer!NeverExpectsMore'
  BY <1>1 DEF DrawerCovered, Drawer!CashSince, Drawer!NeverExpectsMore, Drawer!Sessions
<1> QED
  BY <1>2, <1>3, <1>4

LEMMA DrawerSellStep ==
    ASSUME DrawerBounds, DrawerIInv, NEW o \in Sales, Drawer!Sell(o)
    PROVE  DrawerIInv'
<1>1. PICK cash \in BOOLEAN :
        /\ cd_order' = [cd_order EXCEPT ![o] =
                          [status |-> "paid", created |-> cd_opens, day |-> cd_day,
                          cash |-> cash]]
        /\ Drawer!Take(o, cash)
  BY DEF Drawer!Sell
<1> DEFINE new == [status |-> "paid", created |-> cd_opens, day |-> cd_day, cash |-> cash]
<1>2. /\ cd_day # 0 /\ o \in Sales \ Drawer!Paid
      /\ UNCHANGED <<cd_date, cd_day, cd_session, cd_opens>>
  BY DEF Drawer!Sell, Drawer!Paid, Drawer!NoOrder
<1>3. cd_opens \in Nat /\ cd_day \in Dates
  BY <1>2 DEF DrawerIInv, DrawerTyped, DrawerBounds
<1>4. /\ new \in DrawerSale /\ new.status = "paid" /\ new.day = cd_day /\ new.cash = cash
      /\ new.created <= cd_opens /\ cd_order' = [cd_order EXCEPT ![o] = new]
  BY <1>1, <1>3 DEF DrawerSale
<1> HIDE DEF new
<1>5. /\ cd_order' \in [Sales -> {Drawer!NoOrder} \cup DrawerSale] /\ cd_order'[o] = new
      /\ \A i \in Sales \ {o} : cd_order'[i] = cd_order[i]
  BY <1>4 DEF DrawerIInv, DrawerTyped
<1> QED
  BY <1>1, <1>2, <1>4, <1>5, DrawerTakeStep

LEMMA DrawerSettleStep ==
    ASSUME DrawerBounds, DrawerIInv, NEW o \in Sales, Drawer!Settle(o)
    PROVE  DrawerIInv'
<1>1. PICK cash \in BOOLEAN :
        /\ cd_order' = [cd_order EXCEPT ![o].status = "paid", ![o].day = cd_day,
                ![o].cash = cash]
        /\ Drawer!Take(o, cash)
  BY DEF Drawer!Settle
<1> DEFINE new == [status |-> "paid", created |-> cd_order[o].created, day |-> cd_day,
       cash |-> cash]
<1>2. /\ cd_day # 0 /\ o \in Sales \ Drawer!Paid /\ cd_order[o] # Drawer!NoOrder
      /\ UNCHANGED <<cd_date, cd_day, cd_session, cd_opens>>
  BY DEF Drawer!Settle, Drawer!Paid, Drawer!NoOrder
<1>3. cd_order[o] \in DrawerSale /\ cd_order[o].created <= cd_opens /\ cd_day \in Dates
  BY <1>2 DEF DrawerIInv, DrawerTyped, DrawerLatest
<1>4. new \in DrawerSale /\ new.status = "paid" /\ new.day = cd_day /\ new.cash = cash
  BY <1>3 DEF DrawerSale
<1>5. new.created <= cd_opens
  BY <1>3
<1>6. cd_order'[o] = new
  BY <1>1, <1>3 DEF DrawerIInv, DrawerTyped, DrawerSale
<1> HIDE DEF new
<1>7. \A i \in Sales \ {o} : cd_order'[i] = cd_order[i]
  BY <1>1 DEF DrawerIInv, DrawerTyped
<1>8. cd_order' \in [Sales -> {Drawer!NoOrder} \cup DrawerSale]
  <2>1. \A i \in Sales : cd_order'[i] \in {Drawer!NoOrder} \cup DrawerSale
    BY <1>4, <1>6, <1>7 DEF DrawerIInv, DrawerTyped
  <2>2. cd_order' = [i \in Sales |-> cd_order'[i]]
    BY <1>1 DEF DrawerIInv, DrawerTyped
  <2> QED
    BY <2>1, <2>2
<1> QED
  BY ZenonT(60), <1>1, <1>2, <1>4, <1>5, <1>6, <1>7, <1>8, DrawerTakeStep

LEMMA DrawerDayStep ==
    ASSUME DrawerBounds, DrawerIInv, Drawer!StartDay \/ Drawer!EndDay
    PROVE  DrawerIInv'
<1>1. CASE Drawer!StartDay
  <2>1. /\ Drawer!Open = {} /\ cd_day' \in Dates /\ cd_date' = cd_date /\ cd_date \in Dates
        /\ UNCHANGED <<cd_date, cd_order, cd_took, cd_day_of>>
    BY <1>1 DEF Drawer!StartDay, DrawerIInv, DrawerLatest, DrawerTyped
  <2>2. ASSUME NEW float \in 0..1, Drawer!OpenSession(float) PROVE DrawerIInv'
    BY <2>1, <2>2, DrawerOpenStep
  <2>3. ASSUME UNCHANGED <<cd_session, cd_opens>> PROVE DrawerIInv'
    BY <2>1, <2>3, DrawerIdleStep DEF DrawerBounds
  <2> QED
    BY <1>1, <2>2, <2>3 DEF Drawer!StartDay
<1>2. CASE Drawer!EndDay
  <2>1. UNCHANGED <<cd_date, cd_opens, cd_order, cd_took, cd_day_of>> /\ cd_date \in Dates
    BY <1>2 DEF Drawer!EndDay, DrawerIInv, DrawerTyped
  <2>2. CASE Drawer!Open = {}
    <3>1. UNCHANGED cd_session /\ cd_day' = 0
      BY <1>2, <2>2 DEF Drawer!EndDay
    <3> QED
      BY <2>1, <2>2, <3>1, DrawerIdleStep
  <2>3. CASE Drawer!Open # {}
    <3>1. PICK n \in Drawer!Open : Drawer!CloseSession(n)
      BY <1>2, <2>3 DEF Drawer!EndDay
    <3>2. cd_day' \in {0, cd_day}
      BY <1>2, <2>3 DEF Drawer!EndDay
    <3> QED
      BY <2>1, <3>1, <3>2, DrawerCloseStep
  <2> QED
    BY <2>2, <2>3
<1> QED
  BY <1>1, <1>2

LEMMA DrawerStep ==
    ASSUME DrawerBounds, DrawerIInv, Drawer!OpenDrawer \/ Drawer!CloseDrawer
    PROVE  DrawerIInv'
<1>1. CASE Drawer!OpenDrawer
  <2>1. PICK float \in 0..1 : Drawer!OpenSession(float)
    BY <1>1 DEF Drawer!OpenDrawer
  <2>2. Drawer!Open = {} /\ cd_day' \in Dates
           /\ UNCHANGED <<cd_date, cd_order, cd_took, cd_day_of>>
    BY <1>1 DEF Drawer!OpenDrawer, DrawerIInv, DrawerTyped
  <2> QED
    BY <2>1, <2>2, DrawerOpenStep
<1>2. CASE Drawer!CloseDrawer
  <2>1. PICK n \in Drawer!Open : Drawer!CloseSession(n)
    BY <1>2 DEF Drawer!CloseDrawer
  <2>2. cd_day' \in {0, cd_day} /\ UNCHANGED <<cd_date, cd_opens, cd_order, cd_took, cd_day_of>>
    BY <1>2 DEF Drawer!CloseDrawer
  <2> QED
    BY <2>1, <2>2, DrawerCloseStep
<1> QED
  BY <1>1, <1>2

LEMMA DrawerNextIInv ==
    ASSUME DrawerBounds, DrawerIInv, [Drawer!Next]_(Drawer!vars)
    PROVE  DrawerIInv'
<1>1. CASE Drawer!StartDay \/ Drawer!EndDay
  BY <1>1, DrawerDayStep
<1>2. CASE Drawer!OpenDrawer \/ Drawer!CloseDrawer
  BY <1>2, DrawerStep
<1>3. CASE Drawer!Midnight
  <2>1. /\ UNCHANGED <<cd_day, cd_session, cd_opens, cd_order, cd_took, cd_day_of>>
             /\ cd_date' \in Dates
        /\ cd_day' \in Dates \cup {0} /\ (cd_day' = 0 => Drawer!Open = {})
    BY <1>3 DEF Drawer!Midnight, DrawerIInv, DrawerTyped, DrawerLatest
  <2> QED
    BY <2>1, DrawerIdleStep
<1>4. ASSUME NEW o \in Sales, Drawer!Sell(o) \/ Drawer!Save(o) \/ Drawer!Settle(o)
      PROVE DrawerIInv'
  BY <1>4, DrawerSellStep, DrawerSaveStep, DrawerSettleStep
<1>5. CASE UNCHANGED Drawer!vars
  <2>1. /\ UNCHANGED <<cd_session, cd_opens, cd_order, cd_took, cd_day_of>>
             /\ cd_date' \in Dates
        /\ cd_day' \in Dates \cup {0} /\ (cd_day' = 0 => Drawer!Open = {})
    BY <1>5 DEF Drawer!vars, DrawerIInv, DrawerTyped, DrawerLatest
  <2> QED
    BY <2>1, DrawerIdleStep
<1> QED
  BY <1>1, <1>2, <1>3, <1>4, <1>5 DEF Drawer!Next

\* Days are started within the bound, and floats are of the kinds there are.
DrawerCapped ==
    /\ cd_starts \in 0..MaxDays
    /\ \A n \in Drawer!Sessions :
         cd_session[n] # Drawer!NoSession => cd_session[n].opening \in 0..1

LEMMA DrawerNextCapped ==
    ASSUME DrawerBounds, DrawerIInv, DrawerCapped, [Drawer!Next]_(Drawer!vars)
    PROVE  DrawerCapped'
<1>1. cd_starts' \in 0..MaxDays
  <2>1. cd_starts' = cd_starts \/ (cd_starts < MaxDays /\ cd_starts' = cd_starts + 1)
    BY DEF Drawer!Next, Drawer!vars, Drawer!StartDay, Drawer!EndDay, Drawer!OpenDrawer,
       Drawer!CloseDrawer, Drawer!Midnight, Drawer!Sell, Drawer!Save, Drawer!Settle
  <2> QED
    BY <2>1 DEF DrawerCapped, DrawerBounds
<1> DEFINE Floats == \A n \in Drawer!Sessions :
             cd_session'[n] # Drawer!NoSession => cd_session'[n].opening \in 0..1
<1>2. cd_session \in [Drawer!Sessions -> {Drawer!NoSession} \cup DrawerRow]
  BY DEF DrawerIInv, DrawerTyped
<1>3. ASSUME cd_session' = cd_session PROVE Floats
  BY <1>3 DEF DrawerCapped
<1>4. ASSUME NEW float \in 0..1, Drawer!OpenSession(float) PROVE Floats
  <2> DEFINE m == cd_opens + 1
  <2>1. cd_session' = [cd_session EXCEPT ![m] =
                         [status |-> "open", opening |-> float, expected |-> 0]]
    BY <1>4 DEF Drawer!OpenSession
  <2> HIDE DEF m
  <2>2. \A n \in Drawer!Sessions : IF n = m THEN cd_session'[n].opening = float
                                     ELSE cd_session'[n] = cd_session[n]
    BY <1>2, <2>1
  <2> QED
    BY <1>4, <2>2 DEF DrawerCapped
<1>5. ASSUME NEW m \in Drawer!Open, Drawer!CloseSession(m) PROVE Floats
  <2>1. m \in Drawer!Sessions /\ cd_session[m] # Drawer!NoSession
    BY DEF Drawer!Open, Drawer!NoSession
  <2>2. cd_session[m] \in DrawerRow
    BY <1>2, <2>1
  <2>3. cd_session'[m].opening = cd_session[m].opening
        /\ \A n \in Drawer!Sessions \ {m} : cd_session'[n] = cd_session[n]
    BY <1>2, <1>5, <2>1, <2>2 DEF Drawer!CloseSession, DrawerRow
  <2> QED
    BY <2>1, <2>3 DEF DrawerCapped
<1>6. \/ cd_session' = cd_session
      \/ \E float \in 0..1 : Drawer!OpenSession(float)
      \/ \E m \in Drawer!Open : Drawer!CloseSession(m)
  BY DEF Drawer!Next, Drawer!vars, Drawer!StartDay, Drawer!EndDay, Drawer!OpenDrawer,
     Drawer!CloseDrawer, Drawer!Midnight, Drawer!Sell, Drawer!Save, Drawer!Settle
<1>7. Floats
  BY <1>3, <1>4, <1>5, <1>6
<1> QED
  BY <1>1, <1>7 DEF DrawerCapped

LEMMA DrawerInitCapped == ASSUME DrawerBounds, Drawer!Init PROVE DrawerCapped
BY DEF Drawer!Init, DrawerCapped, DrawerBounds

LEMMA DrawerTypes == ASSUME DrawerBounds, DrawerIInv, DrawerCapped PROVE Drawer!TypeOK
<1>1. \A n \in Drawer!Sessions : cd_session[n] \in {Drawer!NoSession} \cup Drawer!Session
  BY DEF DrawerIInv, DrawerTyped, DrawerCapped, DrawerRow, Drawer!Session
<1>2. \A o \in Sales : cd_order[o] \in {Drawer!NoOrder} \cup Drawer!Row
  <2> SUFFICES ASSUME NEW o \in Sales, cd_order[o] # Drawer!NoOrder
               PROVE  cd_order[o] \in Drawer!Row
    OBVIOUS
  <2>1. /\ cd_order[o] \in DrawerSale
        /\ cd_order[o].created <= cd_opens /\ cd_opens \in 0..MaxOpens
    BY DEF DrawerIInv, DrawerTyped, DrawerLatest
  <2>2. cd_order[o].created \in 0..MaxOpens
    BY <2>1 DEF DrawerSale, DrawerBounds
  <2> QED
    BY <2>1, <2>2 DEF DrawerSale, Drawer!Row
<1>3. /\ cd_session \in [Drawer!Sessions -> {Drawer!NoSession} \cup Drawer!Session]
      /\ cd_order \in [Sales -> {Drawer!NoOrder} \cup Drawer!Row]
  BY <1>1, <1>2 DEF DrawerIInv, DrawerTyped
<1> QED
  BY <1>3 DEF DrawerIInv, DrawerTyped, DrawerCapped, Drawer!TypeOK

LEMMA DrawerIInvHolds == ASSUME DrawerBounds, DrawerIInv PROVE Drawer!CustodyHolds
<1>1. Drawer!OneDrawer
  <2>1. CASE Drawer!Open = {}
    BY <2>1, FS_EmptySet, DrawerCardinality DEF Drawer!OneDrawer
  <2>2. CASE Drawer!Open # {}
    <3>1. Drawer!Open = {cd_opens} /\ cd_day # 0
      BY <2>2 DEF DrawerIInv, DrawerLatest
    <3>2. Cardinality({cd_opens}) = 1
      BY FS_Singleton
    <3>3. Drawer!Cardinality({cd_opens}) = 1
      BY <3>2, DrawerCardinality
    <3> QED
      BY <3>1, <3>3 DEF Drawer!OneDrawer
  <2> QED
    BY <2>1, <2>2
<1>2. Drawer!DayCountsItsSales
  <2>1. ASSUME NEW d \in Dates
        PROVE  {o \in Drawer!Paid : cd_order[o].day = d}
           = {o \in Drawer!Paid : cd_day_of[o] = d}
    BY DEF DrawerIInv, DrawerDated
  <2> QED
    BY <2>1 DEF Drawer!DaySales, Drawer!DayCountsItsSales
<1> QED
  BY <1>1, <1>2 DEF DrawerIInv, Drawer!CustodyHolds
--------------------------------------------------------------------------------
\* Business days and drawer sessions, for any number of orders, dates and drawers: no
\* second drawer beside an open one nor past its day, none expected to hold cash that
\* was not put into it, and every day counts the orders that were paid in it.
THEOREM DrawerCustodyHolds == ASSUME DrawerBounds PROVE Drawer!Spec => []Drawer!CustodyHolds
<1>1. Drawer!Init => DrawerIInv
  BY DrawerInitIInv
<1>2. DrawerIInv /\ [Drawer!Next]_(Drawer!vars) => DrawerIInv'
  BY DrawerNextIInv
<1>3. DrawerIInv => Drawer!CustodyHolds
  BY DrawerIInvHolds
<1> QED
  BY <1>1, <1>2, <1>3, PTL DEF Drawer!Spec
--------------------------------------------------------------------------------
\* A request is for the guest its customer stands for, and what it found is his.
CustCallsTrue ==
    \A c \in cs_calls :
        /\ c.awaited => c.for \in Locals /\ cs_who[c.for] = c.guest /\ cs_table[c.for] = "dirty"
        /\ c.step = "written" => c.awaited /\ c.found # None
        /\ c.step \in {"sent", "refused"} => c.found = None
        /\ c.found # None => cs_who[c.found] = c.guest

\* The engine awaits one request, for a customer that its list names no more.
CustOneAwaited ==
    /\ \A c, d \in Customers!Awaited : c = d
    /\ \A c \in Customers!Awaited : cs_run.at = "customers" /\ c.for \notin cs_run.todo
    /\ cs_run.at = "customers" => \A l \in cs_run.todo : l \in Locals /\ cs_table[l] = "dirty"
    /\ cs_run.at = "orders" => \A o \in cs_run.todo :
         o \in Tabs /\ cs_order[o].at = "pending_sync"

\* A dirty row is of the register, and a run has it in its list, or it came late.
CustDirtyOnes ==
    /\ \A l \in Locals : cs_table[l] \in {"none", "dirty"}
    /\ \A l \in Locals : cs_table[l] = "dirty" =>
         /\ cs_run.at = "customers" =>
              l \in cs_late \cup cs_run.todo \cup {c.for : c \in Customers!Awaited}
         /\ cs_run.at = "orders" => l \in cs_late

\* Whatever has an id stands for someone.
CustSomeone ==
    /\ \A i \in Customers!Ids : cs_table[i] # "none" => cs_who[i] # None
    /\ cs_listed # None => \A i \in cs_listed : cs_who[i] # None
    /\ cs_cart # None => cs_who[cs_cart] # None
    /\ cs_resumed # None => cs_order[cs_resumed].at = "held"
    /\ \A o \in Tabs : cs_order[o].id # None => cs_who[cs_order[o].id] # None
    /\ \A o \in Tabs : cs_order[o].meant = Customers!WhoIs(cs_order[o].id)

\* A guest with a phone number, unless two of his requests overlapped: one of them at most
\* has looked, and what it missed is not there.
CustPhoned ==
    \A g \in Phoned \ cs_raced :
        /\ \A p, q \in Customers!ProfilesOf(g) : p = q
        /\ \A c, d \in cs_calls : c.guest = g /\ d.guest = g
             /\ c.step = "looked" /\ d.step = "looked" => c = d
        /\ \A c \in cs_calls : c.guest = g /\ c.step = "looked" /\ c.found = None =>
             Customers!ProfilesOf(g) = {}

\* A guest without one: his profiles, the requests that may make one more, and his
\* customers that are still to be pushed.
CustAsked(g) == {c \in cs_calls : c.guest = g /\ c.step # "written"}
CustOwed(g) ==
    {l \in Locals : /\ cs_who[l] = g /\ cs_table[l] = "dirty"
                    /\ \A c \in Customers!Awaited : c.for # l}
CustEntered(g) == {l \in Locals : cs_who[l] = g}
CustUnphoned ==
    /\ IsFiniteSet(cs_calls)
    /\ \A g \in Guests \ Phoned :
         Cardinality(Customers!ProfilesOf(g)) + Cardinality(CustAsked(g))
           + Cardinality(CustOwed(g)) <= cs_lost + Cardinality(CustEntered(g))
    /\ \A c \in cs_calls : c.guest \notin Phoned => c.step \in {"written"} \/ c.found = None

\* What a step leaves as it was.
LEMMA CustMoves ==
    ASSUME Customers!Next
    PROVE  /\ \/ cs_who' = cs_who
              \/ \E l \in Locals, g \in Guests : Customers!AddCustomer(l, g)
              \/ \E c \in cs_calls : Customers!WriteProfile(c)
           /\ \/ cs_table' = cs_table
              \/ \E l \in Locals, g \in Guests : Customers!AddCustomer(l, g)
              \/ (\E c \in cs_calls : Customers!Resolve(c)) \/ Customers!Pull
           /\ cs_listed' \in {cs_listed, None, Customers!Rows(cs_table')}
           /\ \/ cs_cart' \in {cs_cart, None}
              \/ \E l \in Locals, g \in Guests : Customers!AddCustomer(l, g)
              \/ \E i \in Customers!Ids : Customers!SelectCustomer(i)
              \/ \E o \in Tabs : Customers!Resume(o)
           /\ cs_resumed' \in {cs_resumed, None} \/ \E o \in Tabs : Customers!Resume(o)
           /\ \/ cs_order' = cs_order
              \/ \E o \in Tabs : (\E at \in {"held", "pending_sync"} :
                      Customers!SaveOrder(o, at))
                       \/ Customers!RetrySync(o) \/ Customers!PushOrder(o)
              \/ \E c \in cs_calls : Customers!Resolve(c)
           /\ \/ cs_run' \in {cs_run, Customers!Idle}
              \/ Customers!StartRun \/ (\E l \in Locals : Customers!PushCustomer(l))
              \/ Customers!CustomersPushed \/ (\E o \in Tabs : Customers!PushOrder(o))
              \/ Customers!OrdersPushed
           /\ \/ cs_calls' = cs_calls \/ Customers!Kill \/ Customers!TimeOut
              \/ (\E l \in Locals : Customers!PushCustomer(l))
              \/ (\E g \in Phoned : Customers!CallerOrders(g))
              \/ \E c \in cs_calls :
                   \/ Customers!Resolve(c) \/ Customers!RefuseCustomer(c)
                   \/ Customers!LookUp(c) \/ Customers!WriteProfile(c)
           /\ \/ cs_lost' = cs_lost
              \/ /\ Customers!Kill \/ Customers!TimeOut
                 /\ cs_lost < MaxLost /\ cs_lost' = cs_lost + 1
           /\ \/ cs_callers' = cs_callers
              \/ cs_callers < MaxCallers /\ cs_callers' = cs_callers + 1
           /\ \/ cs_late' = cs_late
              \/ (\E l \in Locals, g \in Guests : Customers!AddCustomer(l, g))
              \/ Customers!StartRun
           /\ \/ cs_stale' = cs_stale
              \/ \E o \in Tabs, at \in {"held", "pending_sync"} : Customers!SaveOrder(o, at)
           /\ cs_missed' = cs_missed \/ \E o \in Tabs : Customers!PushOrder(o)
           /\ cs_raced' = cs_raced \/ \E c \in cs_calls : Customers!LookUp(c)
<1> USE DEF Customers!Next, Customers!Tap, Customers!Engine, Customers!Server,
        Customers!OpenScreen, Customers!LeaveScreen, Customers!Kill, Customers!AddCustomer,
        Customers!SelectCustomer, Customers!SaveOrder, Customers!Resume, Customers!RetrySync,
        Customers!StartRun, Customers!CustomersPushed, Customers!OrdersPushed, Customers!Pull,
        Customers!TimeOut, Customers!PushCustomer, Customers!PushOrder, Customers!Resolve,
        Customers!RefuseCustomer, Customers!CallerOrders, Customers!LookUp,
        Customers!WriteProfile, Customers!screen, Customers!history
<1>1. \/ cs_who' = cs_who
      \/ \E l \in Locals, g \in Guests : Customers!AddCustomer(l, g)
      \/ \E c \in cs_calls : Customers!WriteProfile(c)
  OBVIOUS
<1>2. \/ cs_table' = cs_table
      \/ \E l \in Locals, g \in Guests : Customers!AddCustomer(l, g)
      \/ (\E c \in cs_calls : Customers!Resolve(c)) \/ Customers!Pull
  OBVIOUS
<1>3. cs_listed' \in {cs_listed, None, Customers!Rows(cs_table')}
  BY DEF Customers!Refreshed
<1>4. \/ cs_cart' \in {cs_cart, None}
      \/ \E l \in Locals, g \in Guests : Customers!AddCustomer(l, g)
      \/ \E i \in Customers!Ids : Customers!SelectCustomer(i)
      \/ \E o \in Tabs : Customers!Resume(o)
  OBVIOUS
<1>5. cs_resumed' \in {cs_resumed, None} \/ \E o \in Tabs : Customers!Resume(o)
  OBVIOUS
<1>6. \/ cs_order' = cs_order
      \/ \E o \in Tabs : (\E at \in {"held", "pending_sync"} : Customers!SaveOrder(o, at))
               \/ Customers!RetrySync(o) \/ Customers!PushOrder(o)
      \/ \E c \in cs_calls : Customers!Resolve(c)
  OBVIOUS
<1>7. \/ cs_run' \in {cs_run, Customers!Idle}
      \/ Customers!StartRun \/ (\E l \in Locals : Customers!PushCustomer(l))
      \/ Customers!CustomersPushed \/ (\E o \in Tabs : Customers!PushOrder(o))
      \/ Customers!OrdersPushed
  OBVIOUS
<1>8. \/ cs_calls' = cs_calls \/ Customers!Kill \/ Customers!TimeOut
      \/ (\E l \in Locals : Customers!PushCustomer(l))
      \/ (\E g \in Phoned : Customers!CallerOrders(g))
      \/ \E c \in cs_calls :
           \/ Customers!Resolve(c) \/ Customers!RefuseCustomer(c)
           \/ Customers!LookUp(c) \/ Customers!WriteProfile(c)
  OBVIOUS
<1>9. \/ cs_lost' = cs_lost
      \/ /\ Customers!Kill \/ Customers!TimeOut
         /\ cs_lost < MaxLost /\ cs_lost' = cs_lost + 1
  OBVIOUS
<1>10. \/ cs_callers' = cs_callers
       \/ cs_callers < MaxCallers /\ cs_callers' = cs_callers + 1
  OBVIOUS
<1>11. \/ cs_late' = cs_late
       \/ (\E l \in Locals, g \in Guests : Customers!AddCustomer(l, g))
       \/ Customers!StartRun
  OBVIOUS
<1>12. \/ cs_stale' = cs_stale
       \/ \E o \in Tabs, at \in {"held", "pending_sync"} : Customers!SaveOrder(o, at)
  OBVIOUS
<1>13. cs_missed' = cs_missed \/ \E o \in Tabs : Customers!PushOrder(o)
  OBVIOUS
<1>14. cs_raced' = cs_raced \/ \E c \in cs_calls : Customers!LookUp(c)
  OBVIOUS
<1> QED
  BY <1>1, <1>2, <1>3, <1>4, <1>5, <1>6, <1>7, <1>8, <1>9, <1>10, <1>11, <1>12, <1>13, <1>14

CustCall == [ guest : Guests, for : Locals \cup {None}, found : Profiles \cup {None},
              step : {"sent", "looked", "written", "refused"}, awaited : BOOLEAN ]
CustOrder == [ at : {"none", "held", "pending_sync", "failed", "synced"},
               id : Customers!Ids \cup {None}, meant : Guests \cup {None} ]
CustTypes ==
    /\ cs_who \in [Customers!Ids -> Guests \cup {None}]
    /\ cs_table \in [Customers!Ids -> {"none", "dirty", "clean"}]
    /\ cs_listed = None \/ cs_listed \subseteq Customers!Ids
    /\ cs_cart \in Customers!Ids \cup {None} /\ cs_resumed \in Tabs \cup {None}
    /\ cs_order \in [Tabs -> CustOrder]
    /\ cs_run \in [ at : {"idle", "customers", "orders", "pull"},
                    todo : SUBSET (Locals \cup Tabs) ]
    /\ cs_calls \subseteq CustCall
    /\ cs_lost \in 0..MaxLost /\ cs_callers \in 0..MaxCallers
    /\ cs_late \subseteq Locals /\ cs_stale \subseteq Tabs /\ cs_missed \subseteq Tabs
    /\ cs_raced \subseteq Guests

\* Every step keeps the types.
LEMMA CustTypesStep ==
    ASSUME CustomerBounds, CustTypes, CustCallsTrue, CustOneAwaited, CustSomeone, Customers!Next
    PROVE  CustTypes'
<1>0. /\ \A l \in Locals : l \in Customers!Ids
      /\ \A p \in Profiles : p \in Customers!Ids
      /\ \A g \in Phoned : g \in Guests
  BY DEF Customers!Ids, CustomerBounds
<1>1. cs_who' \in [Customers!Ids -> Guests \cup {None}]
  BY ZenonT(60), <1>0, CustMoves DEF CustTypes, Customers!AddCustomer, Customers!WriteProfile,
     CustCall
<1>2. cs_table' \in [Customers!Ids -> {"none", "dirty", "clean"}]
  BY <1>0, CustMoves DEF CustTypes, Customers!AddCustomer, Customers!Resolve, Customers!Pull,
     CustCall
<1>3. cs_listed' = None \/ cs_listed' \subseteq Customers!Ids
  BY CustMoves DEF CustTypes, Customers!Rows
<1>4. cs_cart' \in Customers!Ids \cup {None} /\ cs_resumed' \in Tabs \cup {None}
  BY <1>0, CustMoves DEF CustTypes, CustOrder, Customers!AddCustomer, Customers!SelectCustomer,
     Customers!Resume
<1>5. cs_order' \in [Tabs -> CustOrder]
  <2>1. cs_order \in [Tabs -> CustOrder]
    BY DEF CustTypes
  <2>2. ASSUME NEW o \in Tabs, NEW at \in {"held", "pending_sync"}, Customers!SaveOrder(o, at)
        PROVE  cs_order' \in [Tabs -> CustOrder]
    <3>1. Customers!WhoIs(cs_cart) \in Guests \cup {None}
      BY DEF CustTypes, Customers!WhoIs
    <3>2. [at |-> at, id |-> cs_cart, meant |-> Customers!WhoIs(cs_cart)] \in CustOrder
      BY <3>1 DEF CustTypes, CustOrder
    <3> QED
      BY <2>1, <2>2, <3>2 DEF Customers!SaveOrder
  <2>3. \A o \in Tabs : \A at \in {"pending_sync", "synced", "failed"} :
           [cs_order EXCEPT ![o].at = at] \in [Tabs -> CustOrder]
    BY <2>1 DEF CustOrder
  <2>4. ASSUME NEW o \in Tabs, Customers!RetrySync(o) \/ Customers!PushOrder(o)
        PROVE  cs_order' \in [Tabs -> CustOrder]
    BY <2>3, <2>4 DEF Customers!RetrySync, Customers!PushOrder
  <2>5. ASSUME NEW c \in cs_calls, Customers!Resolve(c) PROVE cs_order' \in [Tabs -> CustOrder]
    <3>1. c.found \in Customers!Ids \cup {None}
      BY <1>0 DEF CustTypes, CustCall
    <3>2. \A o \in Tabs : [cs_order[o] EXCEPT !.id = c.found] \in CustOrder
      BY <2>1, <3>1 DEF CustOrder
    <3> QED
      BY <2>1, <2>5, <3>2 DEF Customers!Resolve
  <2> QED
    BY <2>1, <2>2, <2>4, <2>5, CustMoves
<1>6. cs_run' \in [ at : {"idle", "customers", "orders", "pull"},
                    todo : SUBSET (Locals \cup Tabs) ]
  <2>1. Customers!Waits \subseteq Tabs
    BY DEF Customers!Waits
  <2> DEFINE Run == [ at : {"idle", "customers", "orders", "pull"},
         todo : SUBSET (Locals \cup Tabs) ]
  <2> SUFFICES cs_run' \in Run
    OBVIOUS
  <2>2. cs_run \in Run
    BY DEF CustTypes
  <2>3. \A x : [cs_run EXCEPT !.todo = @ \ {x}] \in Run
    BY <2>2
  <2>4. CASE Customers!StartRun
    <3>1. {l \in Locals : cs_table[l] = "dirty"} \in SUBSET (Locals \cup Tabs)
      OBVIOUS
    <3> QED
      BY <2>4, <3>1 DEF Customers!StartRun
  <2>5. CASE Customers!CustomersPushed \/ Customers!OrdersPushed
    <3>1. Customers!Waits \in SUBSET (Locals \cup Tabs) /\ {} \in SUBSET (Locals \cup Tabs)
      BY <2>1
    <3> QED
      BY <2>5, <3>1 DEF Customers!CustomersPushed, Customers!OrdersPushed
  <2>7. Customers!Idle \in Run
    BY DEF Customers!Idle
  <2> HIDE DEF Run
  <2> QED
    <3>1. ASSUME NEW l \in Locals, Customers!PushCustomer(l) PROVE cs_run' \in Run
      BY <2>3, <3>1 DEF Customers!PushCustomer
    <3>2. ASSUME NEW o \in Tabs, Customers!PushOrder(o) PROVE cs_run' \in Run
      BY <2>3, <3>2 DEF Customers!PushOrder
    <3> QED
      BY <2>2, <2>4, <2>5, <2>7, <3>1, <3>2, CustMoves
<1>7. cs_calls' \subseteq CustCall
  <2>1. cs_calls \subseteq CustCall
    BY DEF CustTypes
  <2>2. Customers!Abandoned \subseteq CustCall
    BY <2>1 DEF Customers!Abandoned, CustCall
  <2>3. Customers!Kill \/ Customers!TimeOut => cs_calls' = Customers!Abandoned
    BY DEF Customers!Kill, Customers!TimeOut
  <2>10. \A g \in Guests : \A l \in Locals \cup {None} : \A b \in BOOLEAN :
           Customers!Request(g, l, b) \in CustCall
    BY DEF Customers!Request, CustCall
  <2>4. ASSUME NEW l \in Locals, Customers!PushCustomer(l) PROVE cs_calls' \subseteq CustCall
    <3>1. cs_who[l] \in Guests
      BY <1>0, <2>4 DEF CustTypes, CustOneAwaited, CustSomeone, Customers!PushCustomer
    <3> QED
      BY <2>1, <2>4, <2>10, <3>1 DEF Customers!PushCustomer
  <2>5. ASSUME NEW g \in Phoned, Customers!CallerOrders(g) PROVE cs_calls' \subseteq CustCall
    BY <1>0, <2>1, <2>5, <2>10 DEF Customers!CallerOrders
  <2>6. ASSUME NEW c \in cs_calls, Customers!Resolve(c) \/ Customers!RefuseCustomer(c)
        PROVE  cs_calls' \subseteq CustCall
    BY <2>1, <2>6 DEF Customers!Resolve, Customers!RefuseCustomer
  <2>7. ASSUME NEW c \in cs_calls
        PROVE  /\ [c EXCEPT !.step = "refused"] \in CustCall
               /\ [c EXCEPT !.step = "looked"] \in CustCall
               /\ \A p \in Profiles : [c EXCEPT !.step = "looked", !.found = p] \in CustCall
               /\ \A p \in Profiles : [c EXCEPT !.step = "written", !.found = p] \in CustCall
    BY <2>1 DEF CustCall
  <2>8. ASSUME NEW c \in cs_calls, Customers!LookUp(c) PROVE cs_calls' \subseteq CustCall
    BY <2>1, <2>7, <2>8 DEF Customers!LookUp, Customers!Step, Customers!ProfilesOf
  <2>9. ASSUME NEW c \in cs_calls, Customers!WriteProfile(c) PROVE cs_calls' \subseteq CustCall
    <3>1. c.found # None => c.found \in Profiles
      BY <2>1 DEF CustCall
    <3>2. PICK p \in Profiles : cs_calls' = (cs_calls \ {c})
                \cup (IF c.awaited THEN {[c EXCEPT !.step = "written", !.found = p]} ELSE {})
      BY <2>9, <3>1 DEF Customers!WriteProfile, Customers!Step
    <3> QED
      BY <2>1, <2>7, <3>2
  <2> QED
    BY <2>1, <2>2, <2>3, <2>4, <2>5, <2>6, <2>8, <2>9, CustMoves
<1>8. cs_lost' \in 0..MaxLost /\ cs_callers' \in 0..MaxCallers
  BY CustMoves DEF CustTypes, CustomerBounds
<1>9. /\ cs_late' \subseteq Locals /\ cs_stale' \subseteq Tabs /\ cs_missed' \subseteq Tabs
      /\ cs_raced' \subseteq Guests
  BY CustMoves DEF CustTypes, CustCall, Customers!AddCustomer, Customers!StartRun,
     Customers!SaveOrder,
     Customers!PushOrder, Customers!LookUp
<1> QED
  BY <1>1, <1>2, <1>3, <1>4, <1>5, <1>6, <1>7, <1>8, <1>9 DEF CustTypes

\* Who someone is stays: an id gets a guest once, and a profile is written for its own.
LEMMA CustWhoStays ==
    ASSUME CustomerBounds, CustTypes, CustCallsTrue, Customers!Next, NEW i \in Customers!Ids
    PROVE  cs_who[i] # None => cs_who'[i] = cs_who[i]
<1>1. ASSUME NEW l \in Locals, NEW g \in Guests, Customers!AddCustomer(l, g)
      PROVE  cs_who[i] # None => cs_who'[i] = cs_who[i]
  BY <1>1 DEF Customers!AddCustomer, CustTypes
<1>2. ASSUME NEW c \in cs_calls, Customers!WriteProfile(c)
      PROVE  cs_who[i] # None => cs_who'[i] = cs_who[i]
  <2>1. PICK p : /\ p \in IF c.found # None THEN {c.found} ELSE Profiles \ Customers!Known
                 /\ cs_who' = [cs_who EXCEPT ![p] = c.guest]
    BY <1>2 DEF Customers!WriteProfile
  <2>2. c.found = None => p \notin Customers!Known /\ p \in Profiles
    BY <2>1
  <2> QED
    BY <2>1, <2>2 DEF CustTypes, CustCallsTrue, Customers!Known
<1> QED
  BY <1>1, <1>2, CustMoves

\* A request that went a step further: it is awaited no more, was refused, looked, or wrote.
CustFurther(c, d) ==
    \/ c.step # "written" /\ d = [c EXCEPT !.awaited = FALSE]
    \/ c.awaited /\ c.step = "sent" /\ d = [c EXCEPT !.step = "refused"]
    \/ c.step = "sent" /\ Customers!LookUp(c) /\ d = [c EXCEPT !.step = "looked"]
    \/ \E p \in Profiles :
         /\ c.step = "sent" /\ Customers!LookUp(c) /\ cs_who[p] = c.guest
         /\ d = [c EXCEPT !.step = "looked", !.found = p]
    \/ \E p \in Profiles :
         /\ c.awaited /\ Customers!WriteProfile(c)
         /\ cs_who' = [cs_who EXCEPT ![p] = c.guest]
         /\ d = [c EXCEPT !.step = "written", !.found = p]

\* The requests a step leaves were there, are new, or went a step further.
LEMMA CustCallsMove ==
    ASSUME CustomerBounds, CustTypes, CustCallsTrue, Customers!Next, NEW d \in cs_calls'
    PROVE  \/ d \in cs_calls
           \/ \E l \in Locals : Customers!PushCustomer(l)
                                  /\ d = Customers!Request(cs_who[l], l, TRUE)
           \/ \E g \in Phoned : d = Customers!Request(g, None, FALSE)
           \/ \E c \in cs_calls : CustFurther(c, d)
<1>1. ASSUME Customers!Kill \/ Customers!TimeOut PROVE \E c \in cs_calls : CustFurther(c, d)
  <2>1. d \in Customers!Abandoned
    BY <1>1 DEF Customers!Kill, Customers!TimeOut
  <2>2. PICK c \in cs_calls : c.step # "written" /\ d = [c EXCEPT !.awaited = FALSE]
    BY <2>1 DEF Customers!Abandoned
  <2> QED
    BY <2>2 DEF CustFurther
<1>2. ASSUME NEW l \in Locals, Customers!PushCustomer(l)
      PROVE  d \in cs_calls \/ d = Customers!Request(cs_who[l], l, TRUE)
  BY <1>2 DEF Customers!PushCustomer
<1>3. ASSUME NEW g \in Phoned, Customers!CallerOrders(g)
      PROVE  d \in cs_calls \/ d = Customers!Request(g, None, FALSE)
  BY <1>3 DEF Customers!CallerOrders
<1>4. ASSUME NEW c \in cs_calls, Customers!Resolve(c) \/ Customers!RefuseCustomer(c)
      PROVE  d \in cs_calls
  BY <1>4 DEF Customers!Resolve, Customers!RefuseCustomer
<1>5. ASSUME NEW c \in cs_calls, Customers!LookUp(c), d \notin cs_calls
      PROVE  CustFurther(c, d)
  <2>1. /\ c.step = "sent"
        /\ \/ c.awaited /\ d = [c EXCEPT !.step = "refused"]
           \/ d = [c EXCEPT !.step = "looked"]
           \/ \E p \in Profiles : cs_who[p] = c.guest
                     /\ d = [c EXCEPT !.step = "looked", !.found = p]
    BY <1>5 DEF Customers!LookUp, Customers!Step, Customers!ProfilesOf
  <2> QED
    BY <1>5, <2>1 DEF CustFurther
<1>6. ASSUME NEW c \in cs_calls, Customers!WriteProfile(c), d \notin cs_calls
      PROVE  CustFurther(c, d)
  <2>1. c.found # None => c.found \in Profiles
    BY DEF CustTypes, CustCall
  <2>2. /\ c.awaited
        /\ \E p \in Profiles : cs_who' = [cs_who EXCEPT ![p] = c.guest]
                        /\ d = [c EXCEPT !.step = "written", !.found = p]
    BY <1>6, <2>1 DEF Customers!WriteProfile, Customers!Step
  <2> QED
    BY <1>6, <2>2 DEF CustFurther
<1> QED
  BY <1>1, <1>2, <1>3, <1>4, <1>5, <1>6, CustMoves

\* A row that is pushed stays dirty until its request is resolved.
LEMMA CustDirtyStays ==
    ASSUME CustomerBounds, CustTypes, CustCallsTrue, CustOneAwaited, CustDirtyOnes,
           Customers!Next, NEW l \in Locals, cs_table[l] = "dirty"
    PROVE  \/ cs_table'[l] = "dirty"
           \/ \E c \in Customers!Awaited : /\ c.for = l /\ Customers!Resolve(c)
                                            /\ c.step = "written"
<1>1. ASSUME NEW k \in Locals, NEW g \in Guests, Customers!AddCustomer(k, g)
      PROVE  cs_table'[l] = "dirty"
  BY <1>1 DEF Customers!AddCustomer, CustTypes, Customers!Ids
<1>2. ASSUME NEW c \in cs_calls, Customers!Resolve(c), c.for # l
      PROVE  cs_table'[l] = "dirty"
  <2>1. c.found # l
    BY DEF CustTypes, CustCall, CustomerBounds
  <2> QED
    BY <1>2, <2>1 DEF Customers!Resolve, CustTypes, Customers!Ids
<1>3. ASSUME Customers!Pull PROVE cs_table'[l] = "dirty"
  BY <1>3 DEF Customers!Pull, Customers!Ids
<1>4. \A c \in cs_calls : Customers!Resolve(c) => c \in Customers!Awaited /\ c.step = "written"
  BY DEF Customers!Resolve
<1> QED
  BY <1>1, <1>2, <1>3, <1>4, CustMoves

\* Every step keeps the requests true.
LEMMA CustCallsTrueOn ==
    ASSUME CustomerBounds, CustTypes, CustCallsTrue, CustOneAwaited, CustDirtyOnes, CustSomeone,
           Customers!Next
    PROVE  CustCallsTrue'
<1> SUFFICES ASSUME NEW d \in cs_calls'
             PROVE  /\ d.awaited => d.for \in Locals /\ cs_who'[d.for] = d.guest
                                       /\ cs_table'[d.for] = "dirty"
                    /\ d.step = "written" => d.awaited /\ d.found # None
                    /\ d.step \in {"sent", "refused"} => d.found = None
                    /\ d.found # None => cs_who'[d.found] = d.guest
  BY DEF CustCallsTrue
<1>0. /\ \A c \in cs_calls : c \in CustCall /\ c.guest # None
      /\ \A l \in Locals : l \in Customers!Ids /\ l # None
      /\ \A p \in Profiles : p \in Customers!Ids /\ p # None
  BY DEF CustTypes, CustCall, Customers!Ids, CustomerBounds
<1>1. \A i \in Customers!Ids : cs_who[i] # None => cs_who'[i] = cs_who[i]
  BY CustWhoStays
<1>2. \A c \in cs_calls : c.awaited => c \in Customers!Awaited
  BY DEF Customers!Awaited
<1>3. ASSUME NEW c \in cs_calls, c.awaited, d.awaited, d.for = c.for, d.guest = c.guest
      PROVE  d.for \in Locals /\ cs_who'[d.for] = d.guest /\ cs_table'[d.for] = "dirty"
  <2>1. c.for \in Locals /\ cs_who[c.for] = c.guest /\ cs_table[c.for] = "dirty"
    BY <1>3 DEF CustCallsTrue
  <2>2. ASSUME NEW e \in Customers!Awaited, Customers!Resolve(e) PROVE FALSE
    <3>1. e = c /\ cs_calls' = cs_calls \ {e}
      BY <1>2, <1>3, <2>2 DEF CustOneAwaited, Customers!Resolve
    <3>2. d \in Customers!Awaited
      BY <1>2, <1>3, <3>1
    <3> QED
      BY <1>2, <1>3, <3>1, <3>2 DEF CustOneAwaited
  <2>3. cs_table'[c.for] = "dirty"
    BY <2>1, <2>2, CustDirtyStays
  <2> QED
    BY <1>0, <1>1, <1>3, <2>1, <2>3
<1>4. CASE d \in cs_calls
  BY <1>0, <1>1, <1>3, <1>4 DEF CustCallsTrue, CustCall
<1>5. ASSUME NEW l \in Locals, Customers!PushCustomer(l),
             d = Customers!Request(cs_who[l], l, TRUE)
      PROVE  d.awaited /\ d.for = l /\ d.step = "sent" /\ d.found = None
             /\ cs_who'[d.for] = d.guest /\ cs_table'[d.for] = "dirty"
  BY <1>5 DEF Customers!PushCustomer, Customers!Request, CustOneAwaited
<1>6. ASSUME NEW g \in Phoned, d = Customers!Request(g, None, FALSE)
      PROVE  ~d.awaited /\ d.step = "sent" /\ d.found = None
  BY <1>6 DEF Customers!Request
<1>7. ASSUME NEW c \in cs_calls, c.step # "written", d = [c EXCEPT !.awaited = FALSE]
      PROVE  /\ ~d.awaited /\ d.step = c.step /\ d.found = c.found /\ d.guest = c.guest
  BY <1>0, <1>7 DEF CustCall
<1>8. ASSUME NEW c \in cs_calls, NEW t \in {"refused", "looked"}, d = [c EXCEPT !.step = t]
      PROVE  /\ d.awaited = c.awaited /\ d.step = t /\ d.found = c.found /\ d.guest = c.guest
             /\ d.for = c.for
  BY <1>0, <1>8 DEF CustCall
<1>9. ASSUME NEW c \in cs_calls, NEW t \in {"written", "looked"}, NEW p \in Profiles,
             d = [c EXCEPT !.step = t, !.found = p]
      PROVE  /\ d.awaited = c.awaited /\ d.step = t /\ d.found = p /\ d.guest = c.guest
             /\ d.for = c.for
  BY <1>0, <1>9 DEF CustCall
<1>10. ASSUME NEW c \in cs_calls, NEW p \in Profiles,
              cs_who' = [cs_who EXCEPT ![p] = c.guest]
       PROVE  cs_who'[p] = c.guest
  BY <1>0, <1>10 DEF CustTypes
<1>11. ASSUME NEW c \in cs_calls, CustFurther(c, d)
       PROVE  /\ d.awaited => d.for \in Locals /\ cs_who'[d.for] = d.guest
                                       /\ cs_table'[d.for] = "dirty"
              /\ d.step = "written" => d.awaited /\ d.found # None
              /\ d.step \in {"sent", "refused"} => d.found = None
              /\ d.found # None => cs_who'[d.found] = d.guest
  <2>0. /\ c.step \in {"sent", "refused"} => c.found = None
        /\ c.found # None => c.found \in Profiles /\ cs_who'[c.found] = c.guest
    BY <1>0, <1>1 DEF CustCallsTrue, CustCall
  <2>1. CASE c.step # "written" /\ d = [c EXCEPT !.awaited = FALSE]
    BY <1>7, <2>0, <2>1
  <2>2. CASE c.awaited /\ c.step = "sent" /\ d = [c EXCEPT !.step = "refused"]
    BY <1>3, <1>8, <2>0, <2>2
  <2>3. CASE c.step = "sent" /\ d = [c EXCEPT !.step = "looked"]
    BY <1>3, <1>8, <2>0, <2>3
  <2>4. ASSUME NEW p \in Profiles, cs_who[p] = c.guest,
               d = [c EXCEPT !.step = "looked", !.found = p]
        PROVE  /\ d.awaited = c.awaited /\ d.step = "looked" /\ d.guest = c.guest
                    /\ d.for = c.for
               /\ d.found # None /\ cs_who'[d.found] = d.guest
    BY <1>0, <1>1, <1>9, <2>4
  <2>5. ASSUME NEW p \in Profiles, c.awaited, cs_who' = [cs_who EXCEPT ![p] = c.guest],
               d = [c EXCEPT !.step = "written", !.found = p]
        PROVE  /\ d.awaited = c.awaited /\ d.step = "written" /\ d.guest = c.guest
                    /\ d.for = c.for
               /\ d.found # None /\ cs_who'[d.found] = d.guest
    <3>1. cs_who'[p] = c.guest
      BY <1>10, <2>5
    <3>2. /\ d.awaited = c.awaited /\ d.step = "written" /\ d.found = p /\ d.guest = c.guest
          /\ d.for = c.for
      BY <1>9, <2>5
    <3>3. p # None
      BY DEF CustomerBounds
    <3> QED
      BY <3>1, <3>2, <3>3
  <2> QED
    BY <1>3, <1>11, <2>1, <2>2, <2>3, <2>4, <2>5 DEF CustFurther
<1> QED
  BY <1>0, <1>4, <1>5, <1>6, <1>11, CustCallsMove

\* What becomes of the one request that the engine awaits.
LEMMA CustAwaitedMoves ==
    ASSUME CustomerBounds, CustTypes, CustOneAwaited, Customers!Next
    PROVE  \/ Customers!Awaited' = Customers!Awaited
           \/ /\ Customers!Awaited' = {}
              /\ \/ Customers!Kill \/ Customers!TimeOut
                 \/ \E c \in Customers!Awaited : Customers!Resolve(c)
                         \/ Customers!RefuseCustomer(c)
           \/ \E l \in Locals : /\ Customers!PushCustomer(l)
                                /\ Customers!Awaited' = {Customers!Request(cs_who[l], l, TRUE)}
           \/ \E c \in Customers!Awaited :
                /\ Customers!LookUp(c) \/ Customers!WriteProfile(c)
                /\ \E d \in CustCall : /\ d.awaited /\ d.for = c.for /\ d.guest = c.guest
                                       /\ Customers!Awaited' = {d}
<1> USE DEF Customers!Awaited
<1>0. cs_calls \subseteq CustCall
  BY DEF CustTypes
<1>1. ASSUME Customers!Kill \/ Customers!TimeOut PROVE Customers!Awaited' = {}
  <2>1. cs_calls' = Customers!Abandoned
    BY <1>1 DEF Customers!Kill, Customers!TimeOut
  <2>2. \A d \in Customers!Abandoned : ~d.awaited
    BY <1>0 DEF Customers!Abandoned, CustCall
  <2> QED
    BY <2>1, <2>2
<1>2. ASSUME NEW l \in Locals, Customers!PushCustomer(l)
      PROVE  Customers!Awaited' = {Customers!Request(cs_who[l], l, TRUE)}
  BY <1>2 DEF Customers!PushCustomer, Customers!Request
<1>3. ASSUME NEW g \in Phoned, Customers!CallerOrders(g)
      PROVE Customers!Awaited' = Customers!Awaited
  BY <1>3 DEF Customers!CallerOrders, Customers!Request
<1>4. ASSUME NEW c \in cs_calls, Customers!Resolve(c) \/ Customers!RefuseCustomer(c)
      PROVE  c \in Customers!Awaited /\ Customers!Awaited' = {}
  BY <1>4 DEF Customers!Resolve, Customers!RefuseCustomer, CustOneAwaited
<1>5. ASSUME NEW c \in cs_calls, Customers!LookUp(c) \/ Customers!WriteProfile(c)
      PROVE  \/ Customers!Awaited' = Customers!Awaited
             \/ /\ c \in Customers!Awaited
                /\ \E d \in CustCall : /\ d.awaited /\ d.for = c.for /\ d.guest = c.guest
                                       /\ Customers!Awaited' = {d}
  <2>1. \E D : /\ cs_calls' = (cs_calls \ {c}) \cup D
               /\ \/ D = {} /\ ~c.awaited
                  \/ \E d \in CustCall : /\ D = {d} /\ d.awaited = c.awaited
                                         /\ d.for = c.for /\ d.guest = c.guest
    <3>1. ASSUME NEW t \in {"refused", "looked"}
          PROVE  \E d \in CustCall : /\ d = [c EXCEPT !.step = t] /\ d.awaited = c.awaited
                                     /\ d.for = c.for /\ d.guest = c.guest
      <4> DEFINE d == [c EXCEPT !.step = t]
      <4>1. /\ d \in CustCall /\ d.awaited = c.awaited /\ d.for = c.for /\ d.guest = c.guest
        BY <1>0 DEF CustCall
      <4> QED
        BY <4>1
    <3>2. ASSUME NEW t \in {"written", "looked"}, NEW p \in Profiles
          PROVE  \E d \in CustCall : /\ d = [c EXCEPT !.step = t, !.found = p]
                                     /\ d.awaited = c.awaited /\ d.for = c.for
                                             /\ d.guest = c.guest
      <4> DEFINE d == [c EXCEPT !.step = t, !.found = p]
      <4>1. /\ d \in CustCall /\ d.awaited = c.awaited /\ d.for = c.for /\ d.guest = c.guest
        BY <1>0 DEF CustCall
      <4> QED
        BY <4>1
    <3>3. CASE Customers!LookUp(c)
      <4>1. CASE Customers!Step(c, IF c.awaited THEN {[c EXCEPT !.step = "refused"]} ELSE {})
        BY <4>1, <3>1 DEF Customers!Step
      <4>2. ASSUME NEW p \in Profiles,
                   Customers!Step(c, {[c EXCEPT !.step = "looked", !.found = p]})
            PROVE  \E D : /\ cs_calls' = (cs_calls \ {c}) \cup D
                          /\ \E d \in CustCall : /\ D = {d} /\ d.awaited = c.awaited
                                         /\ d.for = c.for /\ d.guest = c.guest
        <5>1. PICK d \in CustCall : /\ d = [c EXCEPT !.step = "looked", !.found = p]
                                    /\ d.awaited = c.awaited /\ d.for = c.for
                                    /\ d.guest = c.guest
          BY <3>2
        <5>2. cs_calls' = (cs_calls \ {c}) \cup {d}
          BY <4>2, <5>1 DEF Customers!Step
        <5> QED
          BY <5>1, <5>2
      <4>3. CASE Customers!Step(c, {[c EXCEPT !.step = "looked"]})
        BY <4>3, <3>1 DEF Customers!Step
      <4>4. \/ Customers!Step(c, IF c.awaited THEN {[c EXCEPT !.step = "refused"]} ELSE {})
            \/ \E p \in Profiles :
                    Customers!Step(c, {[c EXCEPT !.step = "looked", !.found = p]})
            \/ Customers!Step(c, {[c EXCEPT !.step = "looked"]})
        BY <3>3 DEF Customers!LookUp, Customers!ProfilesOf
      <4> QED
        BY <4>1, <4>2, <4>3, <4>4
    <3>4. CASE Customers!WriteProfile(c)
      <4>1. c.found # None => c.found \in Profiles
        BY <1>0 DEF CustCall
      <4>2. PICK p \in Profiles : cs_calls' = (cs_calls \ {c})
                \cup (IF c.awaited THEN {[c EXCEPT !.step = "written", !.found = p]} ELSE {})
        BY <3>4, <4>1 DEF Customers!WriteProfile, Customers!Step
      <4> QED
        BY <4>2, <3>2
    <3> QED
      BY <1>5, <3>3, <3>4
  <2>2. PICK D : /\ cs_calls' = (cs_calls \ {c}) \cup D
               /\ \/ D = {} /\ ~c.awaited
                  \/ \E d \in CustCall : /\ D = {d} /\ d.awaited = c.awaited
                                         /\ d.for = c.for /\ d.guest = c.guest
    BY <2>1
  <2>3. CASE ~c.awaited
    BY <2>2, <2>3
  <2>4. CASE c.awaited
    <3>1. PICK d \in CustCall : /\ D = {d} /\ d.awaited = c.awaited
                                /\ d.for = c.for /\ d.guest = c.guest
      BY <2>2, <2>4
    <3>2. \A e \in cs_calls : e.awaited => e = c
      BY <2>4 DEF CustOneAwaited
    <3> QED
      BY <2>2, <2>4, <3>1, <3>2
  <2> QED
    BY <2>3, <2>4
<1>6. cs_calls' = cs_calls => Customers!Awaited' = Customers!Awaited
  OBVIOUS
<1> HIDE DEF Customers!Awaited
<1> QED
  BY <1>1, <1>2, <1>3, <1>4, <1>5, <1>6, CustMoves

\* Where the run is and what it has left, after a step.
LEMMA CustRunMoves ==
    ASSUME CustomerBounds, CustTypes, CustOneAwaited, Customers!Next
    PROVE  /\ Customers!Awaited' # {} => cs_run'.at = "customers" /\
                \/ cs_run' = cs_run
                \/ \E l \in Locals : Customers!PushCustomer(l)
           /\ cs_run'.at = "customers" =>
                \/ cs_run' = cs_run
                \/ Customers!StartRun /\ cs_run'.todo = {l \in Locals : cs_table[l] = "dirty"}
                \/ \E l \in cs_run.todo : /\ cs_run.at = "customers"
                        /\ Customers!PushCustomer(l)
                                          /\ cs_run'.todo = cs_run.todo \ {l}
           /\ cs_run'.at = "orders" =>
                \/ cs_run' = cs_run
                \/ /\ Customers!CustomersPushed /\ cs_run'.todo = Customers!Waits
                   /\ cs_run.at = "customers" /\ cs_run.todo = {} /\ Customers!Awaited = {}
                \/ \E o \in cs_run.todo : /\ cs_run.at = "orders" /\ Customers!PushOrder(o)
                                          /\ cs_run'.todo = cs_run.todo \ {o}
<1>0. cs_run \in [ at : {"idle", "customers", "orders", "pull"},
         todo : SUBSET (Locals \cup Tabs) ]
  BY DEF CustTypes
<1>1. \A x : [cs_run EXCEPT !.todo = @ \ {x}].at = cs_run.at
              /\ [cs_run EXCEPT !.todo = @ \ {x}].todo = cs_run.todo \ {x}
  BY <1>0
<1>2. ASSUME NEW l \in Locals, Customers!PushCustomer(l)
      PROVE  /\ cs_run.at = "customers" /\ l \in cs_run.todo /\ cs_run'.at = "customers"
             /\ cs_run'.todo = cs_run.todo \ {l}
  BY <1>1, <1>2 DEF Customers!PushCustomer
<1>3. ASSUME NEW o \in Tabs, Customers!PushOrder(o)
      PROVE  /\ cs_run.at = "orders" /\ o \in cs_run.todo /\ cs_run'.at = "orders"
             /\ cs_run'.todo = cs_run.todo \ {o}
  BY <1>1, <1>3 DEF Customers!PushOrder
<1>4. /\ Customers!StartRun => /\ cs_run.at = "idle" /\ cs_run'.at = "customers"
                               /\ cs_run'.todo = {l \in Locals : cs_table[l] = "dirty"}
      /\ Customers!CustomersPushed =>
           /\ cs_run'.todo = Customers!Waits /\ cs_run'.at = "orders"
           /\ cs_run.at = "customers" /\ cs_run.todo = {} /\ Customers!Awaited = {}
      /\ Customers!OrdersPushed => cs_run'.at = "pull" /\ cs_run.at = "orders"
      /\ cs_run' = Customers!Idle => cs_run'.at = "idle"
  BY DEF Customers!StartRun, Customers!CustomersPushed, Customers!OrdersPushed, Customers!Idle
<1>5. /\ cs_run'.at = "customers" =>
           \/ cs_run' = cs_run
           \/ Customers!StartRun /\ cs_run'.todo = {l \in Locals : cs_table[l] = "dirty"}
           \/ \E l \in cs_run.todo : /\ cs_run.at = "customers" /\ Customers!PushCustomer(l)
                                     /\ cs_run'.todo = cs_run.todo \ {l}
      /\ cs_run'.at = "orders" =>
           \/ cs_run' = cs_run
           \/ /\ Customers!CustomersPushed /\ cs_run'.todo = Customers!Waits
              /\ cs_run.at = "customers" /\ cs_run.todo = {} /\ Customers!Awaited = {}
           \/ \E o \in cs_run.todo : /\ cs_run.at = "orders" /\ Customers!PushOrder(o)
                                     /\ cs_run'.todo = cs_run.todo \ {o}
  BY <1>2, <1>3, <1>4, CustMoves
<1>6. ASSUME Customers!Awaited' # {}
      PROVE  cs_run'.at = "customers"
         /\ (cs_run' = cs_run \/ \E l \in Locals : Customers!PushCustomer(l))
  <2>1. CASE \E l \in Locals : Customers!PushCustomer(l)
    BY <1>2, <2>1
  <2>2. CASE Customers!Awaited' = Customers!Awaited
    <3>1. cs_run.at = "customers" /\ Customers!Awaited # {}
      BY <1>6, <2>2 DEF CustOneAwaited
    <3>3. cs_run' # Customers!Idle
      <4>1. ASSUME cs_run' = Customers!Idle PROVE FALSE
        <5>1. cs_run' # cs_run
          BY <1>4, <3>1, <4>1
        <5>2. \/ Customers!Kill \/ Customers!TimeOut \/ Customers!Pull
              \/ \E c \in cs_calls : Customers!RefuseCustomer(c)
          BY <5>1, <1>2, <1>3, <1>4, <4>1 DEF Customers!Next, Customers!Tap, Customers!Engine,
             Customers!Server, Customers!OpenScreen, Customers!LeaveScreen,
                Customers!AddCustomer,
             Customers!SelectCustomer, Customers!SaveOrder, Customers!Resume,
                Customers!RetrySync,
             Customers!Resolve, Customers!CallerOrders, Customers!LookUp, Customers!WriteProfile
        <5>3. ~Customers!Pull
          BY <3>1 DEF Customers!Pull
        <5>4. CASE Customers!Kill \/ Customers!TimeOut
          <6>1. \A d \in Customers!Abandoned : ~d.awaited
            BY DEF Customers!Abandoned, CustTypes, CustCall
          <6> QED
            BY <1>6, <5>4, <6>1 DEF Customers!Kill, Customers!TimeOut, Customers!Awaited
        <5>5. CASE \E c \in cs_calls : Customers!RefuseCustomer(c)
          BY <1>6, <2>2, <5>5 DEF Customers!RefuseCustomer, Customers!Awaited
        <5> QED
          BY <5>2, <5>3, <5>4, <5>5
      <4> QED
        BY <4>1
    <3> QED
      BY <1>2, <1>3, <1>4, <3>1, <3>3, CustMoves
  <2>3. CASE \E c \in Customers!Awaited : Customers!LookUp(c) \/ Customers!WriteProfile(c)
    BY <2>3 DEF Customers!LookUp, Customers!WriteProfile, CustOneAwaited
  <2> QED
    BY <1>6, <2>1, <2>2, <2>3, CustAwaitedMoves
<1> QED
  BY <1>5, <1>6

\* An order of the register after a step.
LEMMA CustOrderMoves ==
    ASSUME CustomerBounds, CustTypes, Customers!Next, NEW o \in Tabs
    PROVE  \/ cs_order'[o] = cs_order[o]
           \/ \E at \in {"held", "pending_sync"} : /\ Customers!SaveOrder(o, at)
                /\ cs_order'[o].at = at /\ cs_order'[o].id = cs_cart
                /\ cs_order'[o].meant = Customers!WhoIs(cs_cart)
           \/ /\ Customers!RetrySync(o) /\ cs_order'[o].id = cs_order[o].id
              /\ cs_order'[o].meant = cs_order[o].meant /\ cs_order'[o].at = "pending_sync"
           \/ /\ Customers!PushOrder(o) /\ cs_order'[o].id = cs_order[o].id
              /\ cs_order'[o].meant = cs_order[o].meant
              /\ cs_order'[o].at = IF cs_order[o].id = None
                      \/ cs_order[o].id \in Customers!Known
                                   THEN "synced" ELSE "failed"
           \/ \E c \in Customers!Awaited : /\ Customers!Resolve(c) /\ c.step = "written"
                /\ cs_order[o].id = c.for /\ cs_order'[o].id = c.found
                /\ cs_order'[o].meant = cs_order[o].meant /\ cs_order'[o].at = cs_order[o].at
<1>0. cs_order \in [Tabs -> CustOrder] /\ cs_order[o] \in CustOrder
  BY DEF CustTypes
<1>1. ASSUME NEW p \in Tabs, NEW at \in {"held", "pending_sync"}, Customers!SaveOrder(p, at)
      PROVE  IF p # o THEN cs_order'[o] = cs_order[o]
             ELSE /\ cs_order'[o].at = at /\ cs_order'[o].id = cs_cart
                  /\ cs_order'[o].meant = Customers!WhoIs(cs_cart)
  BY <1>0, <1>1 DEF Customers!SaveOrder
<1>2. ASSUME NEW p \in Tabs, NEW at,
             cs_order' = [cs_order EXCEPT ![p].at = at]
      PROVE  IF p # o THEN cs_order'[o] = cs_order[o]
             ELSE /\ cs_order'[o].at = at /\ cs_order'[o].id = cs_order[o].id
                  /\ cs_order'[o].meant = cs_order[o].meant
  BY <1>0, <1>2 DEF CustOrder
<1>3. ASSUME NEW p \in Tabs, Customers!RetrySync(p)
      PROVE  IF p # o THEN cs_order'[o] = cs_order[o]
             ELSE /\ cs_order'[o].id = cs_order[o].id
                  /\ cs_order'[o].meant = cs_order[o].meant /\ cs_order'[o].at = "pending_sync"
  BY <1>2, <1>3 DEF Customers!RetrySync
<1>4. ASSUME NEW p \in Tabs, Customers!PushOrder(p)
      PROVE  IF p # o THEN cs_order'[o] = cs_order[o]
             ELSE /\ cs_order'[o].id = cs_order[o].id
                  /\ cs_order'[o].meant = cs_order[o].meant
                  /\ cs_order'[o].at = IF cs_order[o].id = None
                          \/ cs_order[o].id \in Customers!Known
                                   THEN "synced" ELSE "failed"
  BY <1>2, <1>4 DEF Customers!PushOrder
<1>5. ASSUME NEW c \in cs_calls, Customers!Resolve(c)
      PROVE  IF cs_order[o].id # c.for THEN cs_order'[o] = cs_order[o]
             ELSE /\ cs_order'[o].id = c.found /\ c \in Customers!Awaited /\ c.step = "written"
                  /\ cs_order'[o].meant = cs_order[o].meant /\ cs_order'[o].at = cs_order[o].at
  BY <1>0, <1>5 DEF Customers!Resolve, CustOrder
<1> QED
  BY <1>1, <1>3, <1>4, <1>5, CustMoves

\* Every step keeps the engine at one request, and its lists true.
LEMMA CustOneAwaitedOn ==
    ASSUME CustomerBounds, CustTypes, CustCallsTrue, CustOneAwaited, CustDirtyOnes, CustSomeone,
           Customers!Next
    PROVE  CustOneAwaited'
<1>0. \A c, d \in Customers!Awaited : c = d
  BY DEF CustOneAwaited
<1>1. \A c, d \in Customers!Awaited' : c = d
  <2>1. Customers!Awaited' = Customers!Awaited \/ \E x : Customers!Awaited' \subseteq {x}
    BY CustAwaitedMoves
  <2> QED
    BY <1>0, <2>1
<1>2. ASSUME NEW c \in Customers!Awaited'
      PROVE  cs_run'.at = "customers" /\ c.for \notin cs_run'.todo
  <2>1. cs_run'.at = "customers"
           /\ (cs_run' = cs_run \/ \E l \in Locals : Customers!PushCustomer(l))
    BY CustRunMoves
  <2>2. ASSUME NEW l \in Locals, Customers!PushCustomer(l)
        PROVE  c.for \notin cs_run'.todo
    <3>1. Customers!Awaited' = Customers!Awaited \cup {Customers!Request(cs_who[l], l, TRUE)}
      BY <2>2 DEF Customers!PushCustomer, Customers!Awaited, Customers!Request
    <3>2. Customers!Awaited = {} /\ cs_run'.todo = cs_run.todo \ {l}
      BY <2>2 DEF Customers!PushCustomer, CustTypes
    <3>3. c.for = l
      BY <3>1, <3>2 DEF Customers!Request
    <3> QED
      BY <3>2, <3>3
  <2>3. CASE cs_run' = cs_run /\ \A l \in Locals : ~Customers!PushCustomer(l)
    <3>1. \E d \in Customers!Awaited : d.for = c.for
      BY <2>3, CustAwaitedMoves
    <3> QED
      BY <2>3, <3>1 DEF CustOneAwaited
  <2> QED
    BY <2>1, <2>2, <2>3
<1>3. ASSUME cs_run'.at = "customers", NEW l \in cs_run'.todo
      PROVE  l \in Locals /\ cs_table'[l] = "dirty"
  <2>1. \/ cs_run' = cs_run
        \/ Customers!StartRun /\ l \in Locals /\ cs_table[l] = "dirty"
        \/ l \in cs_run.todo /\ cs_run.at = "customers"
    BY <1>3, CustRunMoves
  <2>2. l \in Locals /\ cs_table[l] = "dirty"
    BY <1>3, <2>1 DEF CustOneAwaited
  <2>3. ASSUME NEW c \in Customers!Awaited, c.for = l, Customers!Resolve(c) PROVE FALSE
    <3>1. cs_run' = cs_run
      BY <2>3 DEF Customers!Resolve
    <3> QED
      BY <1>3, <2>3, <3>1 DEF CustOneAwaited
  <2> QED
    BY <2>2, <2>3, CustDirtyStays
<1>4. ASSUME cs_run'.at = "orders", NEW o \in cs_run'.todo
      PROVE  o \in Tabs /\ cs_order'[o].at = "pending_sync"
  <2>1. o \in Tabs /\ cs_order[o].at = "pending_sync"
    BY <1>4, CustRunMoves DEF CustOneAwaited, Customers!Waits
  <2>2. ~Customers!PushOrder(o)
    BY <1>4 DEF Customers!PushOrder, CustTypes
  <2>3. \A at \in {"held", "pending_sync"} : ~Customers!SaveOrder(o, at)
    BY <2>1 DEF Customers!SaveOrder, CustSomeone
  <2> QED
    BY <2>1, <2>2, <2>3, CustOrderMoves
<1> QED
  BY <1>1, <1>2, <1>3, <1>4 DEF CustOneAwaited

\* Every step keeps account of the dirty rows.
LEMMA CustDirtyOnesOn ==
    ASSUME CustomerBounds, CustTypes, CustCallsTrue, CustOneAwaited, CustDirtyOnes, CustSomeone,
           Customers!Next
    PROVE  CustDirtyOnes'
<1>1. ASSUME NEW l \in Locals
      PROVE  cs_table'[l] \in {"none", "dirty"}
  <2>1. l \in Customers!Ids /\ l \notin Profiles /\ cs_table[l] \in {"none", "dirty"}
    BY DEF Customers!Ids, CustomerBounds, CustDirtyOnes
  <2>2. ASSUME NEW c \in cs_calls, Customers!Resolve(c) PROVE cs_table'[l] \in {"none", "dirty"}
    <3>1. c.found # l
      BY <2>1 DEF CustTypes, CustCall, CustomerBounds
    <3> QED
      BY <2>1, <2>2, <3>1 DEF Customers!Resolve, CustTypes
  <2>3. CASE Customers!Pull
    BY <2>1, <2>3 DEF Customers!Pull, Customers!Known
  <2>4. ASSUME NEW k \in Locals, NEW g \in Guests, Customers!AddCustomer(k, g)
        PROVE  cs_table'[l] \in {"none", "dirty"}
    BY <2>1, <2>4 DEF Customers!AddCustomer, CustTypes
  <2> QED
    BY <2>1, <2>2, <2>3, <2>4, CustMoves
<1>2. ASSUME NEW l \in Locals, cs_table'[l] = "dirty", cs_table[l] # "dirty"
      PROVE  l \in cs_late' \/ cs_run'.at = "idle"
  <2>1. l \in Customers!Ids
    BY DEF Customers!Ids
  <2>2. ASSUME NEW c \in cs_calls, Customers!Resolve(c) PROVE FALSE
    BY <1>2, <2>1, <2>2 DEF Customers!Resolve, CustTypes
  <2>3. ~Customers!Pull
    BY <1>2, <2>1 DEF Customers!Pull
  <2>4. ASSUME NEW k \in Locals, NEW g \in Guests, Customers!AddCustomer(k, g)
        PROVE  l \in cs_late' \/ cs_run'.at = "idle"
    BY <1>2, <2>1, <2>4 DEF Customers!AddCustomer, CustTypes, Customers!Idle
  <2> QED
    BY <1>2, <2>2, <2>3, <2>4, CustMoves
<1>3. cs_late \subseteq cs_late' \/ Customers!StartRun
  BY CustMoves DEF Customers!AddCustomer
<1>4. ASSUME NEW l \in Locals, cs_table'[l] = "dirty", cs_run'.at = "customers"
      PROVE  l \in cs_late' \cup cs_run'.todo \cup {c.for : c \in Customers!Awaited'}
  <2>1. CASE cs_table[l] # "dirty"
    BY <1>2, <1>4, <2>1
  <2>2. CASE Customers!StartRun /\ cs_run'.todo = {k \in Locals : cs_table[k] = "dirty"}
    BY <1>4, <2>2 DEF Customers!StartRun
  <2>3. CASE cs_table[l] = "dirty" /\ cs_run.at = "customers" /\ ~Customers!StartRun
    <3>1. l \in cs_late \cup cs_run.todo \cup {c.for : c \in Customers!Awaited}
      BY <2>3 DEF CustDirtyOnes
    <3>2. CASE l \in cs_late
      BY <1>3, <2>3, <3>2
    <3>3. CASE l \in cs_run.todo
      <4>1. ASSUME NEW k \in Locals, Customers!PushCustomer(k)
            PROVE  l \in cs_run'.todo \/ l = k
        BY <3>3, <4>1 DEF Customers!PushCustomer, CustTypes
      <4>2. ASSUME Customers!PushCustomer(l)
            PROVE  l \in {c.for : c \in Customers!Awaited'}
        <5>1. Customers!Request(cs_who[l], l, TRUE) \in Customers!Awaited'
          BY <4>2 DEF Customers!PushCustomer, Customers!Awaited, Customers!Request
        <5>2. Customers!Request(cs_who[l], l, TRUE).for = l
          BY DEF Customers!Request
        <5> QED
          BY <5>1, <5>2
      <4> QED
        BY <1>4, <2>3, <3>3, <4>1, <4>2, CustRunMoves
    <3>4. ASSUME NEW c \in Customers!Awaited, c.for = l
          PROVE  l \in {d.for : d \in Customers!Awaited'}
      <4>1. ASSUME Customers!Resolve(c) PROVE FALSE
        <5>1. l # c.found /\ l \in Customers!Ids
          BY DEF CustTypes, CustCall, CustomerBounds, Customers!Ids, Customers!Awaited
        <5> QED
          BY <1>4, <3>4, <4>1, <5>1 DEF Customers!Resolve, CustTypes
      <4>2. /\ Customers!Kill \/ Customers!TimeOut => cs_run'.at = "idle"
            /\ Customers!RefuseCustomer(c) => cs_run'.at = "idle"
        BY DEF Customers!Kill, Customers!TimeOut, Customers!RefuseCustomer, Customers!Idle
      <4>3. \A e \in Customers!Awaited : e = c
        BY DEF CustOneAwaited
      <4>4. \A k \in Locals : ~Customers!PushCustomer(k)
        BY DEF Customers!PushCustomer
      <4>5. \/ Customers!Awaited' = Customers!Awaited
            \/ \E d \in CustCall : d.for = l /\ Customers!Awaited' = {d}
        BY <1>4, <3>4, <4>1, <4>2, <4>3, <4>4, CustAwaitedMoves
      <4> QED
        BY <3>4, <4>5
    <3> QED
      BY <3>1, <3>2, <3>3, <3>4
  <2>4. \/ Customers!StartRun /\ cs_run'.todo = {k \in Locals : cs_table[k] = "dirty"}
        \/ cs_run.at = "customers" /\ ~Customers!StartRun
    <3>1. Customers!StartRun => cs_run.at = "idle"
             /\ cs_run'.todo = {k \in Locals : cs_table[k] = "dirty"}
      BY DEF Customers!StartRun, Customers!Idle
    <3> QED
      BY <1>4, <3>1, CustRunMoves
  <2> QED
    BY <2>1, <2>2, <2>3, <2>4
<1>5. ASSUME NEW l \in Locals, cs_table'[l] = "dirty", cs_run'.at = "orders"
      PROVE  l \in cs_late'
  <2>1. CASE cs_table[l] # "dirty"
    BY <1>2, <1>5, <2>1
  <2>2. CASE cs_table[l] = "dirty"
    <3>1. l \in cs_late
      <4>1. CASE cs_run.at = "orders"
        BY <2>2, <4>1 DEF CustDirtyOnes
      <4>2. CASE cs_run.at = "customers" /\ cs_run.todo = {} /\ Customers!Awaited = {}
        BY <2>2, <4>2 DEF CustDirtyOnes
      <4> QED
        BY <1>5, <4>1, <4>2, CustRunMoves
    <3>2. ~Customers!StartRun
      BY <1>5 DEF Customers!StartRun
    <3> QED
      BY <1>3, <3>1, <3>2
  <2> QED
    BY <2>1, <2>2
<1> QED
  BY <1>1, <1>4, <1>5 DEF CustDirtyOnes

\* Every step keeps a guest behind each id.
LEMMA CustSomeoneOn ==
    ASSUME CustomerBounds, CustTypes, CustCallsTrue, CustOneAwaited, CustDirtyOnes, CustSomeone,
           Customers!Next
    PROVE  CustSomeone'
<1>0. /\ \A c \in cs_calls : c \in CustCall /\ c.guest # None
      /\ \A l \in Locals : l \in Customers!Ids /\ l # None
      /\ \A p \in Profiles : p \in Customers!Ids /\ p # None
      /\ \A g \in Guests : g # None
      /\ None \notin Tabs
      /\ \A i \in Customers!Ids : i # None
  BY DEF CustTypes, CustCall, Customers!Ids, CustomerBounds
<1>1. \A i \in Customers!Ids : cs_who[i] # None => cs_who'[i] = cs_who[i]
  BY CustWhoStays
<1>2. \A c \in Customers!Awaited : c.step = "written" =>
        /\ c.found \in Profiles /\ cs_who[c.found] = c.guest /\ cs_who[c.for] = c.guest
        /\ c.for \in Locals /\ c.guest # None
  BY <1>0 DEF CustCallsTrue, CustCall, Customers!Awaited
<1>3. ASSUME NEW i \in Customers!Ids, cs_table'[i] # "none" PROVE cs_who'[i] # None
  <2>1. CASE cs_table'[i] = cs_table[i]
    BY <1>1, <1>3, <2>1 DEF CustSomeone
  <2>2. ASSUME NEW l \in Locals, NEW g \in Guests, Customers!AddCustomer(l, g),
               cs_table'[i] # cs_table[i]
        PROVE  cs_who'[i] # None
    BY <1>0, <2>2 DEF Customers!AddCustomer, CustTypes
  <2>3. ASSUME NEW c \in cs_calls, Customers!Resolve(c), cs_table'[i] # cs_table[i]
        PROVE  cs_who'[i] # None
    BY <1>1, <1>2, <1>3, <2>3 DEF Customers!Resolve, CustTypes
  <2>4. ASSUME Customers!Pull, cs_table'[i] # cs_table[i] PROVE cs_who'[i] # None
    BY <1>1, <2>4 DEF Customers!Pull, Customers!Known
  <2> QED
    BY <2>1, <2>2, <2>3, <2>4, CustMoves
<1>4. cs_listed' # None => \A i \in cs_listed' : cs_who'[i] # None
  <2>1. CASE cs_listed' = cs_listed
    BY <1>1, <2>1 DEF CustSomeone, CustTypes
  <2>2. \A i \in Customers!Rows(cs_table') : i \in Customers!Ids /\ cs_table'[i] # "none"
    BY DEF Customers!Rows
  <2> QED
    BY <1>3, <2>1, <2>2, CustMoves
<1>5. cs_cart # None => cs_cart \in Customers!Ids /\ cs_who[cs_cart] # None
         /\ cs_who'[cs_cart] = cs_who[cs_cart]
  BY <1>1 DEF CustSomeone, CustTypes
<1>6. \A o \in Tabs : cs_order[o].id # None =>
        /\ cs_order[o].id \in Customers!Ids /\ cs_who[cs_order[o].id] # None
        /\ cs_who'[cs_order[o].id] = cs_who[cs_order[o].id]
  BY <1>1 DEF CustSomeone, CustTypes, CustOrder
<1>7. ASSUME cs_cart' # None PROVE cs_who'[cs_cart'] # None
  <2>1. CASE cs_cart' = cs_cart
    BY <1>5, <1>7, <2>1
  <2>2. ASSUME NEW l \in Locals, NEW g \in Guests, Customers!AddCustomer(l, g)
        PROVE  cs_who'[cs_cart'] # None
    BY <1>0, <2>2 DEF Customers!AddCustomer, CustTypes
  <2>3. ASSUME NEW i \in Customers!Ids, Customers!SelectCustomer(i)
        PROVE  cs_who'[cs_cart'] # None
    <3>1. cs_cart' = i /\ cs_who[i] # None
      BY <1>7, <2>3 DEF Customers!SelectCustomer, CustSomeone
    <3> QED
      BY <1>1, <3>1
  <2>4. ASSUME NEW o \in Tabs, Customers!Resume(o) PROVE cs_who'[cs_cart'] # None
    BY <1>6, <1>7, <2>4 DEF Customers!Resume
  <2> QED
    BY <1>7, <2>1, <2>2, <2>3, <2>4, CustMoves
<1>8. ASSUME cs_resumed' # None PROVE cs_order'[cs_resumed'].at = "held"
  <2>1. ASSUME NEW o \in Tabs, Customers!Resume(o) PROVE cs_order'[cs_resumed'].at = "held"
    BY <2>1 DEF Customers!Resume
  <2>2. CASE cs_resumed' = cs_resumed
    <3> DEFINE o == cs_resumed
    <3>1. o \in Tabs /\ cs_order[o].at = "held"
      BY <1>8, <2>2 DEF CustSomeone, CustTypes
    <3>2. \A at \in {"held", "pending_sync"} : ~Customers!SaveOrder(o, at)
      BY <1>8, <2>2 DEF Customers!SaveOrder
    <3>3. ~Customers!RetrySync(o) /\ ~Customers!PushOrder(o)
      BY <3>1 DEF Customers!RetrySync, Customers!PushOrder, CustOneAwaited
    <3>4. cs_order'[o].at = "held"
      BY <3>1, <3>2, <3>3, CustOrderMoves
    <3> QED
      BY <2>2, <3>4
  <2> QED
    BY <1>8, <2>1, <2>2, CustMoves
<1>9. ASSUME NEW o \in Tabs
      PROVE  /\ cs_order'[o].id # None => cs_who'[cs_order'[o].id] # None
             /\ cs_order'[o].meant = IF cs_order'[o].id = None THEN None
                     ELSE cs_who'[cs_order'[o].id]
  <2>0. cs_order[o].meant = IF cs_order[o].id = None THEN None ELSE cs_who[cs_order[o].id]
    BY DEF CustSomeone, Customers!WhoIs
  <2>1. CASE cs_order'[o].id = cs_order[o].id /\ cs_order'[o].meant = cs_order[o].meant
    BY <1>6, <2>0, <2>1
  <2>2. CASE /\ cs_order'[o].id = cs_cart
             /\ cs_order'[o].meant = IF cs_cart = None THEN None ELSE cs_who[cs_cart]
    BY <1>5, <2>2
  <2>3. ASSUME NEW c \in Customers!Awaited, Customers!Resolve(c), c.step = "written",
               cs_order[o].id = c.for, cs_order'[o].id = c.found,
               cs_order'[o].meant = cs_order[o].meant
        PROVE  /\ cs_order'[o].id # None => cs_who'[cs_order'[o].id] # None
               /\ cs_order'[o].meant = IF cs_order'[o].id = None THEN None
                       ELSE cs_who'[cs_order'[o].id]
    <3>1. cs_who'[c.found] = c.guest /\ c.guest # None /\ c.found # None
      BY <1>0, <1>1, <1>2, <2>3
    <3>2. cs_order[o].meant = c.guest
      BY <1>0, <1>2, <2>0, <2>3
    <3> QED
      BY <2>3, <3>1, <3>2
  <2> QED
    BY <2>1, <2>2, <2>3, CustOrderMoves DEF Customers!WhoIs
<1> QED
  BY <1>3, <1>4, <1>7, <1>8, <1>9 DEF CustSomeone, Customers!WhoIs

\* No step leaves an order with an id that was swapped away, but for a cart that had it.
LEMMA CustNothingDanglesOn ==
    ASSUME CustomerBounds, CustTypes, CustCallsTrue, CustOneAwaited, CustDirtyOnes, CustSomeone,
           Customers!NothingDangles, Customers!Next
    PROVE  Customers!NothingDangles'
<1> SUFFICES ASSUME NEW o \in Tabs, cs_order'[o].at \in {"held", "pending_sync", "failed"},
                    cs_order'[o].id # None
             PROVE  cs_table'[cs_order'[o].id] # "none" \/ o \in cs_stale'
  BY DEF Customers!NothingDangles
<1>1. ASSUME NEW i \in Customers!Ids, cs_table[i] # "none", cs_table'[i] = "none"
      PROVE  \E c \in Customers!Awaited : Customers!Resolve(c) /\ c.for = i
         /\ c.step = "written"
  <2>1. ASSUME NEW l \in Locals, NEW g \in Guests, Customers!AddCustomer(l, g) PROVE FALSE
    BY <1>1, <2>1 DEF Customers!AddCustomer, CustTypes
  <2>2. ~Customers!Pull
    BY <1>1 DEF Customers!Pull
  <2>3. ASSUME NEW c \in cs_calls, Customers!Resolve(c)
        PROVE  c \in Customers!Awaited /\ c.for = i /\ c.step = "written"
    BY <1>1, <2>3 DEF Customers!Resolve, CustTypes
  <2> QED
    BY <1>1, <2>1, <2>2, <2>3, CustMoves
<1>2. \A at \in {"held", "pending_sync"} : Customers!SaveOrder(o, at) =>
        cs_table' = cs_table
           /\ (cs_cart # None /\ cs_table[cs_cart] = "none" => o \in cs_stale')
  BY DEF Customers!SaveOrder
<1>3. (\A at \in {"held", "pending_sync"} : ~Customers!SaveOrder(o, at))
         => (o \in cs_stale => o \in cs_stale')
  BY CustMoves DEF Customers!SaveOrder
<1>4. ASSUME NEW at \in {"held", "pending_sync"}, Customers!SaveOrder(o, at),
             cs_order'[o].id = cs_cart
      PROVE  cs_table'[cs_order'[o].id] # "none" \/ o \in cs_stale'
  BY <1>2, <1>4
<1>5. ASSUME NEW c \in Customers!Awaited, Customers!Resolve(c), c.step = "written",
             cs_order'[o].id = c.found
      PROVE  cs_table'[cs_order'[o].id] # "none"
  <2>1. c.found \in Customers!Ids
    BY <1>5 DEF CustTypes, CustCall, Customers!Ids, Customers!Awaited
  <2> QED
    BY <1>5, <2>1 DEF Customers!Resolve, CustTypes
<1>6. ASSUME \A at \in {"held", "pending_sync"} : ~Customers!SaveOrder(o, at),
             cs_order'[o].id = cs_order[o].id,
             cs_order[o].at \in {"held", "pending_sync", "failed"}
      PROVE  cs_table'[cs_order'[o].id] # "none" \/ o \in cs_stale'
  <2>1. cs_order[o].id \in Customers!Ids
    BY <1>6 DEF CustTypes, CustOrder
  <2>2. CASE o \in cs_stale
    BY <1>3, <1>6, <2>2
  <2>3. CASE cs_table[cs_order[o].id] # "none"
    <3>1. ASSUME NEW c \in Customers!Awaited, Customers!Resolve(c), c.for = cs_order[o].id
          PROVE FALSE
      <4>1. cs_order'[o] = [cs_order[o] EXCEPT !.id = c.found]
        BY <3>1 DEF Customers!Resolve
      <4>2. cs_order'[o].id = c.found
        BY <4>1 DEF CustTypes, CustOrder
      <4>3. c.for \in Locals /\ c.found \notin Locals
        BY <1>6, <2>1, <3>1
           DEF CustTypes, CustCall, CustCallsTrue, CustomerBounds, Customers!Awaited
      <4> QED
        BY <1>6, <3>1, <4>2, <4>3
    <3> QED
      BY <1>1, <1>6, <2>1, <2>3, <3>1
  <2> QED
    BY <1>6, <2>2, <2>3 DEF Customers!NothingDangles
<1>7. /\ Customers!RetrySync(o) => cs_order[o].at = "failed"
      /\ Customers!PushOrder(o) => cs_order[o].at = "pending_sync"
  BY DEF Customers!RetrySync, Customers!PushOrder, CustOneAwaited
<1>8. CASE \E at \in {"held", "pending_sync"} : Customers!SaveOrder(o, at)
  <2>1. PICK at \in {"held", "pending_sync"} : Customers!SaveOrder(o, at)
    BY <1>8
  <2>2. cs_order'[o].id = cs_cart
    BY <2>1 DEF Customers!SaveOrder, CustTypes
  <2> QED
    BY <1>4, <2>1, <2>2
<1>9. CASE \A at \in {"held", "pending_sync"} : ~Customers!SaveOrder(o, at)
  BY <1>5, <1>6, <1>7, <1>9, CustOrderMoves
<1> QED
  BY <1>8, <1>9

\* An order is refused with a swapped id, or for a customer that came late.
LEMMA CustRefusalIsKnownOn ==
    ASSUME CustomerBounds, CustTypes, CustCallsTrue, CustOneAwaited, CustDirtyOnes, CustSomeone,
           Customers!NothingDangles, Customers!RefusalIsKnown, Customers!Next
    PROVE  Customers!RefusalIsKnown'
<1> SUFFICES ASSUME NEW o \in Tabs, cs_order'[o].at = "failed"
             PROVE  o \in cs_stale' \cup cs_missed'
  BY DEF Customers!RefusalIsKnown
<1>1. \A at \in {"held", "pending_sync"} : ~Customers!SaveOrder(o, at)
  BY DEF Customers!SaveOrder, CustTypes
<1>2. o \in cs_stale => o \in cs_stale'
  BY <1>1, CustMoves DEF Customers!SaveOrder
<1>3. CASE Customers!PushOrder(o)
  <2> DEFINE id == cs_order[o].id
  <2>1. /\ cs_run.at = "orders" /\ o \in cs_run.todo
        /\ ~(id = None \/ id \in Customers!Known)
    BY <1>3 DEF Customers!PushOrder, CustTypes
  <2>2. cs_order[o].at = "pending_sync" /\ id \in Customers!Ids
    BY <2>1 DEF CustOneAwaited, CustTypes, CustOrder
  <2>3. CASE cs_table[id] # "none"
    <3>1. id \in Locals
      BY <2>1, <2>2, <2>3 DEF CustSomeone, Customers!Known, Customers!Ids
    <3>2. id \in cs_late
      BY <2>1, <2>3, <3>1 DEF CustDirtyOnes
    <3> QED
      BY <1>3, <2>1, <3>2 DEF Customers!PushOrder
  <2> QED
    BY <1>2, <2>1, <2>2, <2>3 DEF Customers!NothingDangles
<1>4. CASE ~Customers!PushOrder(o)
  <2>1. cs_order[o].at = "failed"
    BY <1>1, <1>4, CustOrderMoves
  <2>2. o \in cs_missed => o \in cs_missed'
    BY <1>4, CustMoves DEF Customers!PushOrder
  <2> QED
    BY <1>2, <2>1, <2>2 DEF Customers!RefusalIsKnown
<1> QED
  BY <1>3, <1>4

\* Whoever was entered is waiting to be pushed, or has a profile.
LEMMA CustNobodyIsLostOn ==
    ASSUME CustomerBounds, CustTypes, CustCallsTrue, CustOneAwaited, CustDirtyOnes, CustSomeone,
           Customers!NobodyIsLost, Customers!Next
    PROVE  Customers!NobodyIsLost'
<1> SUFFICES ASSUME NEW l \in Locals, cs_who'[l] # None
             PROVE  cs_table'[l] = "dirty" \/ \E p \in Profiles : cs_who'[p] = cs_who'[l]
  BY DEF Customers!NobodyIsLost, Customers!ProfilesOf
<1>0. l \in Customers!Ids /\ l \notin Profiles /\ \A p \in Profiles : p \in Customers!Ids
  BY DEF Customers!Ids, CustomerBounds
<1>1. \A i \in Customers!Ids : cs_who[i] # None => cs_who'[i] = cs_who[i]
  BY CustWhoStays
<1>2. CASE cs_who[l] = None
  <2>1. ASSUME NEW k \in Locals, NEW g \in Guests, Customers!AddCustomer(k, g)
        PROVE  cs_table'[l] = "dirty"
    BY <1>0, <1>2, <2>1 DEF Customers!AddCustomer, CustTypes
  <2>2. ASSUME NEW c \in cs_calls, Customers!WriteProfile(c) PROVE FALSE
    BY <1>0, <1>2, <2>2 DEF Customers!WriteProfile, CustTypes, CustCall
  <2> QED
    BY <1>2, <2>1, <2>2, CustMoves
<1>3. CASE cs_who[l] # None
  <2>1. cs_who'[l] = cs_who[l]
    BY <1>0, <1>1, <1>3
  <2>2. CASE cs_table[l] # "dirty"
    <3>1. PICK p \in Profiles : cs_who[p] = cs_who[l]
      BY <1>3, <2>2 DEF Customers!NobodyIsLost, Customers!ProfilesOf
    <3> QED
      BY <1>0, <1>1, <1>3, <2>1, <3>1
  <2>3. ASSUME NEW c \in Customers!Awaited, c.for = l, Customers!Resolve(c), c.step = "written"
        PROVE  \E p \in Profiles : cs_who'[p] = cs_who'[l]
    <3>1. c.found \in Profiles /\ cs_who[c.found] = c.guest /\ cs_who[l] = c.guest
      BY <2>3 DEF CustCallsTrue, CustTypes, CustCall, Customers!Awaited
    <3> QED
      BY <1>0, <1>1, <1>3, <2>1, <3>1
  <2> QED
    BY <2>2, <2>3, CustDirtyStays
<1> QED
  BY <1>2, <1>3

\* What a step makes of the profiles of a guest.
LEMMA CustProfilesMove ==
    ASSUME CustomerBounds, CustTypes, CustCallsTrue, Customers!Next, NEW g \in Guests
    PROVE  \/ Customers!ProfilesOf(g)' = Customers!ProfilesOf(g)
           \/ \E c \in cs_calls, p \in Profiles :
                /\ Customers!WriteProfile(c) /\ c.guest = g /\ c.found = None
                /\ Customers!ProfilesOf(g)' = Customers!ProfilesOf(g) \cup {p}
<1> USE DEF Customers!ProfilesOf
<1>0. /\ \A p \in Profiles : p \in Customers!Ids /\ p \notin Locals
      /\ g # None /\ None \notin Profiles
  BY DEF Customers!Ids, CustomerBounds
<1>1. ASSUME NEW l \in Locals, NEW h \in Guests, Customers!AddCustomer(l, h)
      PROVE  Customers!ProfilesOf(g)' = Customers!ProfilesOf(g)
  BY <1>0, <1>1 DEF Customers!AddCustomer, CustTypes
<1>2. ASSUME NEW c \in cs_calls, Customers!WriteProfile(c)
      PROVE  \/ Customers!ProfilesOf(g)' = Customers!ProfilesOf(g)
             \/ \E p \in Profiles : c.guest = g /\ c.found = None
                  /\ Customers!ProfilesOf(g)' = Customers!ProfilesOf(g) \cup {p}
  <2>1. PICK p \in (IF c.found # None THEN {c.found} ELSE Profiles \ Customers!Known) :
               cs_who' = [cs_who EXCEPT ![p] = c.guest]
    BY <1>2 DEF Customers!WriteProfile
  <2>2. CASE c.found # None
    <3>1. p \in Profiles /\ cs_who[p] = c.guest
      BY <2>1, <2>2 DEF CustCallsTrue, CustTypes, CustCall
    <3> QED
      BY <1>0, <2>1, <3>1 DEF CustTypes
  <2>3. CASE c.found = None
    <3>1. p \in Profiles /\ cs_who[p] = None
      BY <2>1, <2>3 DEF Customers!Known
    <3>2. \A q \in Profiles : cs_who'[q] = IF q = p THEN c.guest ELSE cs_who[q]
      BY <1>0, <2>1 DEF CustTypes
    <3>3. CASE c.guest = g
      BY <1>0, <2>3, <3>1, <3>2, <3>3
    <3>4. CASE c.guest # g
      BY <1>0, <3>1, <3>2, <3>4
    <3> QED
      BY <3>3, <3>4
  <2> QED
    BY <2>2, <2>3
<1> HIDE DEF Customers!ProfilesOf
<1>3. cs_who' = cs_who => Customers!ProfilesOf(g)' = Customers!ProfilesOf(g)
  BY DEF Customers!ProfilesOf
<1> QED
  BY <1>1, <1>2, <1>3, CustMoves

CustLooked(g) == {c \in cs_calls : c.guest = g /\ c.step = "looked"}

\* What a step makes of the requests of a guest that have looked.
LEMMA CustLookedMoves ==
    ASSUME CustomerBounds, CustTypes, CustCallsTrue, Customers!Next, NEW g \in Phoned
    PROVE  \/ CustLooked(g)' \subseteq CustLooked(g)
              /\ \A c \in CustLooked(g) : Customers!WriteProfile(c) => c \notin CustLooked(g)'
           \/ \A d \in CustLooked(g)' :
                \E c \in CustLooked(g) : d = [c EXCEPT !.awaited = FALSE]
                   /\ (Customers!Kill \/ Customers!TimeOut)
           \/ \E d : /\ CustLooked(g)' \subseteq CustLooked(g) \cup {d}
                     /\ (d.found = None => Customers!ProfilesOf(g) = {})
                     /\ \E c \in cs_calls : Customers!LookUp(c) /\ c.guest = g
<1> USE DEF CustLooked
<1>0. cs_calls \subseteq CustCall
  BY DEF CustTypes
<1>1. ASSUME Customers!Kill \/ Customers!TimeOut
      PROVE  \A d \in CustLooked(g)' :
                \E c \in CustLooked(g) : d = [c EXCEPT !.awaited = FALSE]
  <2>1. cs_calls' = Customers!Abandoned
    BY <1>1 DEF Customers!Kill, Customers!TimeOut
  <2>2. ASSUME NEW d \in CustLooked(g)'
        PROVE  \E c \in CustLooked(g) : d = [c EXCEPT !.awaited = FALSE]
    <3>1. PICK c \in cs_calls : d = [c EXCEPT !.awaited = FALSE]
      BY <2>1, <2>2 DEF Customers!Abandoned
    <3>2. c.guest = d.guest /\ c.step = d.step
      BY <1>0, <3>1 DEF CustCall
    <3> QED
      BY <2>2, <3>1, <3>2
  <2> QED
    BY <2>2
<1>2. ASSUME NEW r, cs_calls' = cs_calls \cup {r}, r.step = "sent"
      PROVE  CustLooked(g)' \subseteq CustLooked(g)
  BY <1>2
<1>3. /\ \A l \in Locals : Customers!PushCustomer(l) => CustLooked(g)' \subseteq CustLooked(g)
      /\ \A h \in Phoned : Customers!CallerOrders(h) => CustLooked(g)' \subseteq CustLooked(g)
  BY <1>2 DEF Customers!PushCustomer, Customers!CallerOrders, Customers!Request
<1>4. \A c \in cs_calls : Customers!Resolve(c) \/ Customers!RefuseCustomer(c)
                            => CustLooked(g)' \subseteq CustLooked(g)
  BY DEF Customers!Resolve, Customers!RefuseCustomer
<1>5. ASSUME NEW c \in cs_calls, Customers!WriteProfile(c)
      PROVE  CustLooked(g)' \subseteq CustLooked(g) \ {c}
  <2>1. \A p : [c EXCEPT !.step = "written", !.found = p].step = "written"
    BY <1>0 DEF CustCall
  <2> QED
    BY <1>5, <2>1 DEF Customers!WriteProfile, Customers!Step
<1>6. ASSUME NEW c \in cs_calls, Customers!LookUp(c)
      PROVE  \/ CustLooked(g)' \subseteq CustLooked(g)
             \/ c.guest = g /\ \E d : /\ CustLooked(g)' \subseteq CustLooked(g) \cup {d}
                       /\ (d.found = None => Customers!ProfilesOf(g) = {})
  <2>0. c.found = None
    BY <1>6 DEF Customers!LookUp, CustCallsTrue
  <2>1. /\ [c EXCEPT !.step = "refused"].step = "refused"
        /\ [c EXCEPT !.step = "looked"].guest = c.guest
        /\ \A p : [c EXCEPT !.step = "looked", !.found = p].guest = c.guest
        /\ \A p : [c EXCEPT !.step = "looked", !.found = p].found = p
    BY <1>0 DEF CustCall
  <2>2. CASE Customers!Step(c, IF c.awaited THEN {[c EXCEPT !.step = "refused"]} ELSE {})
    BY <2>1, <2>2 DEF Customers!Step
  <2>3. ASSUME NEW p \in Profiles,
               Customers!Step(c, {[c EXCEPT !.step = "looked", !.found = p]})
        PROVE  \/ CustLooked(g)' \subseteq CustLooked(g)
               \/ c.guest = g /\ \E d : /\ CustLooked(g)' \subseteq CustLooked(g) \cup {d}
                       /\ (d.found = None => Customers!ProfilesOf(g) = {})
    <3> DEFINE d == [c EXCEPT !.step = "looked", !.found = p]
    <3>1. d.guest = c.guest /\ d.found # None /\ cs_calls' = (cs_calls \ {c}) \cup {d}
      BY <2>1, <2>3 DEF Customers!Step, CustomerBounds
    <3> HIDE DEF d
    <3>2. CASE c.guest = g
      BY <3>1, <3>2
    <3>3. CASE c.guest # g
      BY <3>1, <3>3
    <3> QED
      BY <3>2, <3>3
  <2>4. ASSUME Customers!Step(c, {[c EXCEPT !.step = "looked"]}),
               c.guest \notin Phoned \/ Customers!ProfilesOf(c.guest) = {}
        PROVE  \/ CustLooked(g)' \subseteq CustLooked(g)
               \/ c.guest = g /\ \E d : /\ CustLooked(g)' \subseteq CustLooked(g) \cup {d}
                       /\ (d.found = None => Customers!ProfilesOf(g) = {})
    <3> DEFINE d == [c EXCEPT !.step = "looked"]
    <3>1. d.guest = c.guest /\ cs_calls' = (cs_calls \ {c}) \cup {d}
      BY <2>1, <2>4 DEF Customers!Step
    <3> HIDE DEF d
    <3>2. CASE c.guest = g
      <4>1. Customers!ProfilesOf(g) = {}
        BY <2>4, <3>2
      <4> QED
        BY <3>1, <3>2, <4>1
    <3>3. CASE c.guest # g
      BY <3>1, <3>3
    <3> QED
      BY <3>2, <3>3
  <2>5. \/ Customers!Step(c, IF c.awaited THEN {[c EXCEPT !.step = "refused"]} ELSE {})
        \/ \E p \in Profiles : Customers!Step(c, {[c EXCEPT !.step = "looked", !.found = p]})
        \/ /\ Customers!Step(c, {[c EXCEPT !.step = "looked"]})
           /\ c.guest \notin Phoned \/ Customers!ProfilesOf(c.guest) = {}
    BY <1>6 DEF Customers!LookUp, Customers!ProfilesOf
  <2> QED
    BY <2>2, <2>3, <2>4, <2>5
<1>7. \A c \in cs_calls : Customers!WriteProfile(c) => c \notin CustLooked(g)'
  BY <1>5
<1>8. cs_calls' = cs_calls => CustLooked(g)' = CustLooked(g)
  OBVIOUS
<1> HIDE DEF CustLooked
<1> QED
  <2>1. \A c \in CustLooked(g) : c \in cs_calls
    BY DEF CustLooked
  <2>2. CASE CustLooked(g)' \subseteq CustLooked(g)
    BY <1>7, <2>1, <2>2
  <2>3. CASE Customers!Kill \/ Customers!TimeOut
    BY <1>1, <2>3
  <2>4. CASE \E c \in cs_calls : Customers!LookUp(c)
    <3>1. PICK c \in cs_calls : Customers!LookUp(c)
      BY <2>4
    <3>2. CASE c.guest = g /\ \E d : /\ CustLooked(g)' \subseteq CustLooked(g) \cup {d}
                       /\ (d.found = None => Customers!ProfilesOf(g) = {})
      BY <3>1, <3>2, Zenon
    <3> QED
      BY <1>6, <2>2, <3>1, <3>2, Zenon
  <2> QED
    BY <1>3, <1>4, <1>5, <1>8, <2>2, <2>3, <2>4, CustMoves

\* A guest with a phone number has one profile, unless two of his requests overlapped.
LEMMA CustPhonedOn ==
    ASSUME CustomerBounds, CustTypes, CustCallsTrue, CustPhoned, Customers!Next
    PROVE  CustPhoned'
<1> SUFFICES ASSUME NEW g \in Phoned \ cs_raced'
             PROVE  /\ \A p, q \in Customers!ProfilesOf(g)' : p = q
                    /\ \A c, d \in CustLooked(g)' : c = d
                    /\ \A c \in CustLooked(g)' : c.found = None =>
                         Customers!ProfilesOf(g)' = {}
  BY DEF CustPhoned, CustLooked, Customers!ProfilesOf
<1>0. g \in Phoned /\ g \in Guests /\ g \notin cs_raced
  BY CustMoves DEF CustomerBounds, Customers!LookUp
<1>1. /\ \A p, q \in Customers!ProfilesOf(g) : p = q
      /\ \A c, d \in CustLooked(g) : c = d
      /\ \A c \in CustLooked(g) : c.found = None => Customers!ProfilesOf(g) = {}
  BY <1>0 DEF CustPhoned, CustLooked
<1>2. ASSUME NEW c \in cs_calls, Customers!LookUp(c), c.guest = g
      PROVE  CustLooked(g) = {} /\ Customers!ProfilesOf(g)' = Customers!ProfilesOf(g)
  <2>1. CustLooked(g) = {}
    BY <1>0, <1>2 DEF Customers!LookUp, CustLooked
  <2>2. cs_who' = cs_who
    BY <1>2 DEF Customers!LookUp
  <2> QED
    BY <2>1, <2>2 DEF Customers!ProfilesOf
<1>3. ASSUME NEW c \in cs_calls, Customers!WriteProfile(c), c.guest = g
      PROVE  c \in CustLooked(g)
  BY <1>3 DEF Customers!WriteProfile, CustLooked
<1>4. CASE \E c \in cs_calls, p \in Profiles :
                /\ Customers!WriteProfile(c) /\ c.guest = g /\ c.found = None
                /\ Customers!ProfilesOf(g)' = Customers!ProfilesOf(g) \cup {p}
  <2>1. PICK c \in cs_calls, p \in Profiles :
                /\ Customers!WriteProfile(c) /\ c.guest = g /\ c.found = None
                /\ Customers!ProfilesOf(g)' = Customers!ProfilesOf(g) \cup {p}
    BY <1>4
  <2>2. c \in CustLooked(g) /\ Customers!ProfilesOf(g) = {}
    BY <1>1, <1>3, <2>1
  <2>3. CustLooked(g)' = {}
    <3>1. ~Customers!Kill /\ ~Customers!TimeOut
      BY <2>1 DEF Customers!Kill, Customers!TimeOut, Customers!WriteProfile,
         Customers!history, CustTypes, CustomerBounds
    <3>2. \A e \in cs_calls : Customers!LookUp(e) => e.guest # g
      BY <1>2, <2>2
    <3> QED
      BY <1>0, <1>1, <2>1, <2>2, <3>1, <3>2, CustLookedMoves
  <2> QED
    BY <2>1, <2>2, <2>3
<1>5. CASE Customers!ProfilesOf(g)' = Customers!ProfilesOf(g)
  <2>1. CASE CustLooked(g)' \subseteq CustLooked(g)
    BY <1>1, <1>5, <2>1
  <2>2. CASE \A d \in CustLooked(g)' : \E c \in CustLooked(g) : d = [c EXCEPT !.awaited = FALSE]
    <3>1. \A c \in CustLooked(g) : [c EXCEPT !.awaited = FALSE].found = c.found
      BY DEF CustTypes, CustCall, CustLooked
    <3> QED
      BY <1>1, <1>5, <2>2, <3>1
  <2>3. ASSUME NEW d, CustLooked(g)' \subseteq CustLooked(g) \cup {d},
               d.found = None => Customers!ProfilesOf(g) = {},
               \E c \in cs_calls : Customers!LookUp(c) /\ c.guest = g
        PROVE  /\ \A c, e \in CustLooked(g)' : c = e
               /\ \A c \in CustLooked(g)' : c.found = None => Customers!ProfilesOf(g)' = {}
    <3>1. CustLooked(g)' \subseteq {d}
      BY <1>2, <2>3
    <3> QED
      BY <1>5, <2>3, <3>1
  <2> QED
    BY <1>0, <1>1, <1>5, <2>1, <2>2, <2>3, CustLookedMoves
<1> QED
  BY <1>0, <1>4, <1>5, CustProfilesMove

\* The requests that a guest has at the server, from a step to the next, if he has no number.
LEMMA CustAskedMoves ==
    ASSUME CustomerBounds, CustTypes, CustCallsTrue, Customers!Next, NEW g \in Guests \ Phoned
    PROVE  /\ \/ CustAsked(g)' \subseteq CustAsked(g)
              \/ \E l \in Locals :
                   /\ Customers!PushCustomer(l) /\ cs_who[l] = g
                   /\ CustAsked(g)' \subseteq CustAsked(g) \cup {Customers!Request(g, l, TRUE)}
              \/ \E c \in CustAsked(g) : \E d :
                   CustAsked(g)' \subseteq (CustAsked(g) \ {c}) \cup {d}
              \/ CustAsked(g)' \subseteq {[c EXCEPT !.awaited = FALSE] : c \in CustAsked(g)}
           /\ \A c \in cs_calls : Customers!RefuseCustomer(c) \/ Customers!WriteProfile(c) =>
                CustAsked(g)' \subseteq CustAsked(g) \ {c}
           /\ Customers!Kill \/ Customers!TimeOut => cs_lost' = cs_lost + 1
<1> USE DEF CustAsked
<1>0. cs_calls \subseteq CustCall
  BY DEF CustTypes
<1>1. ASSUME Customers!Kill \/ Customers!TimeOut
      PROVE  /\ CustAsked(g)' \subseteq {[c EXCEPT !.awaited = FALSE] : c \in CustAsked(g)}
             /\ cs_lost' = cs_lost + 1
  <2>1. cs_calls' = Customers!Abandoned /\ cs_lost' = cs_lost + 1
    BY <1>1 DEF Customers!Kill, Customers!TimeOut
  <2>2. ASSUME NEW d \in CustAsked(g)'
        PROVE  d \in {[c EXCEPT !.awaited = FALSE] : c \in CustAsked(g)}
    <3>1. PICK c \in cs_calls : c.step # "written" /\ d = [c EXCEPT !.awaited = FALSE]
      BY <2>1, <2>2 DEF Customers!Abandoned
    <3>2. c.guest = d.guest
      BY <1>0, <3>1 DEF CustCall
    <3>3. c \in CustAsked(g)
      BY <2>2, <3>1, <3>2
    <3> QED
      BY <3>1, <3>3
  <2> QED
    BY <2>1, <2>2
<1>2. ASSUME NEW l \in Locals, Customers!PushCustomer(l)
      PROVE  IF cs_who[l] = g
             THEN CustAsked(g)' \subseteq CustAsked(g) \cup {Customers!Request(g, l, TRUE)}
             ELSE CustAsked(g)' \subseteq CustAsked(g)
  BY <1>2 DEF Customers!PushCustomer, Customers!Request
<1>3. \A h \in Phoned : Customers!CallerOrders(h) => CustAsked(g)' \subseteq CustAsked(g)
  BY DEF Customers!CallerOrders, Customers!Request
<1>4. \A c \in cs_calls : Customers!Resolve(c) \/ Customers!RefuseCustomer(c)
                            => CustAsked(g)' \subseteq CustAsked(g) \ {c}
  BY DEF Customers!Resolve, Customers!RefuseCustomer
<1>5. ASSUME NEW c \in cs_calls, Customers!WriteProfile(c)
      PROVE  CustAsked(g)' \subseteq CustAsked(g) \ {c}
  <2>1. \A p : [c EXCEPT !.step = "written", !.found = p].step = "written"
    BY <1>0 DEF CustCall
  <2>2. PICK p : cs_calls' = (cs_calls \ {c})
                \cup (IF c.awaited THEN {[c EXCEPT !.step = "written", !.found = p]} ELSE {})
    BY <1>5 DEF Customers!WriteProfile, Customers!Step
  <2> DEFINE d == [c EXCEPT !.step = "written", !.found = p]
  <2>3. d.step = "written"
    BY <2>1
  <2>4. cs_calls' \subseteq (cs_calls \ {c}) \cup {d}
    BY <2>2
  <2> HIDE DEF d
  <2> QED
    BY <2>3, <2>4
<1>6. ASSUME NEW c \in cs_calls, Customers!LookUp(c)
      PROVE  \/ CustAsked(g)' \subseteq CustAsked(g)
             \/ c \in CustAsked(g)
                     /\ \E d : CustAsked(g)' \subseteq (CustAsked(g) \ {c}) \cup {d}
  <2>1. PICK D : /\ cs_calls' = (cs_calls \ {c}) \cup D
                 /\ D = {} \/ \E d : D = {d} /\ d.guest = c.guest
    <3>1. /\ [c EXCEPT !.step = "refused"].guest = c.guest
          /\ [c EXCEPT !.step = "looked"].guest = c.guest
          /\ \A p : [c EXCEPT !.step = "looked", !.found = p].guest = c.guest
      BY <1>0 DEF CustCall
    <3>2. \/ cs_calls' = (cs_calls \ {c}) \cup {[c EXCEPT !.step = "refused"]}
          \/ cs_calls' = (cs_calls \ {c}) \cup {}
          \/ \E p : cs_calls' = (cs_calls \ {c})
                  \cup {[c EXCEPT !.step = "looked", !.found = p]}
          \/ cs_calls' = (cs_calls \ {c}) \cup {[c EXCEPT !.step = "looked"]}
      BY <1>6 DEF Customers!LookUp, Customers!Step
    <3>3. ASSUME NEW d, d.guest = c.guest, cs_calls' = (cs_calls \ {c}) \cup {d}
          PROVE  \E D : /\ cs_calls' = (cs_calls \ {c}) \cup D
                        /\ D = {} \/ \E e : D = {e} /\ e.guest = c.guest
      BY <3>3
    <3> QED
      BY <3>1, <3>2, <3>3
  <2>2. c.step = "sent"
    BY <1>6 DEF Customers!LookUp
  <2>3. CASE c.guest = g
    BY <2>1, <2>2, <2>3
  <2>4. CASE c.guest # g
    BY <2>1, <2>4
  <2> QED
    BY <2>3, <2>4
<1>7. cs_calls' = cs_calls => CustAsked(g)' = CustAsked(g)
  OBVIOUS
<1> HIDE DEF CustAsked
<1>9. \/ CustAsked(g)' \subseteq CustAsked(g)
      \/ \E l \in Locals :
           /\ Customers!PushCustomer(l) /\ cs_who[l] = g
           /\ CustAsked(g)' \subseteq CustAsked(g) \cup {Customers!Request(g, l, TRUE)}
      \/ \E c \in CustAsked(g) : \E d :
           CustAsked(g)' \subseteq (CustAsked(g) \ {c}) \cup {d}
      \/ CustAsked(g)' \subseteq {[c EXCEPT !.awaited = FALSE] : c \in CustAsked(g)}
  <2>1. CASE Customers!Kill \/ Customers!TimeOut
    BY <1>1, <2>1
  <2>2. CASE \E l \in Locals : Customers!PushCustomer(l)
    BY <1>2, <2>2
  <2>3. CASE \E c \in cs_calls : Customers!LookUp(c)
    BY <1>6, <2>3
  <2>4. CASE /\ ~(Customers!Kill \/ Customers!TimeOut)
             /\ ~(\E l \in Locals : Customers!PushCustomer(l))
             /\ ~(\E c \in cs_calls : Customers!LookUp(c))
    BY <1>3, <1>4, <1>5, <1>7, <2>4, CustMoves
  <2> QED
    BY <2>1, <2>2, <2>3, <2>4
<1> QED
  BY <1>1, <1>4, <1>5, <1>9

\* What becomes of the customers of a guest that are still to be pushed.
CustOwedMove(g) ==
    \/ CustOwed(g)' \subseteq CustOwed(g)
    \/ \E l \in Locals, h \in Guests :
         /\ Customers!AddCustomer(l, h) /\ l \notin CustEntered(g)
         /\ l \in CustEntered(g)' /\ CustOwed(g)' \subseteq CustOwed(g) \cup {l}
    \/ (Customers!Kill \/ Customers!TimeOut)
            /\ \E x : CustOwed(g)' \subseteq CustOwed(g) \cup {x}
    \/ \E c \in CustAsked(g) : \E x :
         /\ Customers!RefuseCustomer(c)
         /\ CustOwed(g)' \subseteq CustOwed(g) \cup {x}

\* One that is pushed is owed no more, and none is owed anew but for a reason.
LEMMA CustOwedMoves ==
    ASSUME CustomerBounds, CustTypes, CustCallsTrue, CustOneAwaited, CustDirtyOnes, CustSomeone,
           Customers!Next, NEW g \in Guests
    PROVE  /\ \A l \in Locals : Customers!PushCustomer(l) /\ cs_who[l] = g =>
                l \in CustOwed(g) /\ CustOwed(g)' \subseteq CustOwed(g) \ {l}
           /\ CustOwedMove(g)
<1>0. /\ \A l \in Locals : l \in Customers!Ids /\ l \notin Profiles /\ l # None
      /\ g # None /\ None \notin Profiles
  BY DEF Customers!Ids, CustomerBounds
<1>1. ASSUME NEW l \in Locals, NEW h \in Guests, Customers!AddCustomer(l, h)
      PROVE  \/ CustOwed(g)' \subseteq CustOwed(g)
             \/ /\ l \notin CustEntered(g)
                /\ l \in CustEntered(g)' /\ CustOwed(g)' \subseteq CustOwed(g) \cup {l}
  <2>1. /\ cs_who[l] = None /\ Customers!Awaited' = Customers!Awaited
        /\ \A k \in Locals : cs_who'[k] = IF k = l THEN h ELSE cs_who[k]
        /\ \A k \in Locals : k # l => cs_table'[k] = cs_table[k]
    BY <1>0, <1>1 DEF Customers!AddCustomer, CustTypes, Customers!Awaited
  <2>2. CustOwed(g)' \subseteq CustOwed(g) \cup {l}
    BY <2>1 DEF CustOwed
  <2>3. CASE h = g
    BY <1>0, <2>1, <2>2, <2>3 DEF CustEntered
  <2>4. CASE h # g
    BY <2>1, <2>2, <2>4 DEF CustOwed
  <2> QED
    BY <2>3, <2>4
<1>2. ASSUME \A l \in Locals, h \in Guests : ~Customers!AddCustomer(l, h),
             NEW l \in CustOwed(g)'
      PROVE  l \in Locals /\ cs_who[l] = g /\ cs_table[l] = "dirty"
  <2>1. l \in Locals /\ cs_who'[l] = g /\ cs_table'[l] = "dirty"
    BY DEF CustOwed
  <2>2. cs_who'[l] = cs_who[l]
    <3>1. ASSUME NEW c \in cs_calls, Customers!WriteProfile(c) PROVE cs_who'[l] = cs_who[l]
      <4>1. PICK p : cs_who' = [cs_who EXCEPT ![p] = c.guest]
                     /\ p \in IF c.found # None THEN {c.found} ELSE Profiles \ Customers!Known
        BY <3>1 DEF Customers!WriteProfile
      <4>2. p \in Profiles
        BY <4>1 DEF CustTypes, CustCall
      <4> QED
        BY <1>0, <2>1, <4>1, <4>2 DEF CustTypes
    <3> QED
      BY <1>2, <3>1, CustMoves
  <2>3. cs_table[l] = "dirty"
    <3>1. ASSUME NEW c \in cs_calls, Customers!Resolve(c) PROVE cs_table[l] = "dirty"
      BY <1>0, <2>1, <3>1 DEF Customers!Resolve, CustTypes
    <3>2. CASE Customers!Pull
      BY <1>0, <2>1, <3>2 DEF Customers!Pull
    <3> QED
      BY <1>2, <2>1, <3>1, <3>2, CustMoves
  <2> QED
    BY <2>1, <2>2, <2>3
<1>3. ASSUME \E l \in Locals, h \in Guests : Customers!AddCustomer(l, h) PROVE CustOwedMove(g)
  <2>1. PICK l \in Locals, h \in Guests : Customers!AddCustomer(l, h)
    BY <1>3
  <2>2. CASE CustOwed(g)' \subseteq CustOwed(g)
    BY <2>2 DEF CustOwedMove
  <2>3. CASE /\ l \notin CustEntered(g) /\ l \in CustEntered(g)'
             /\ CustOwed(g)' \subseteq CustOwed(g) \cup {l}
    <3>1. \E k \in Locals, i \in Guests :
             /\ Customers!AddCustomer(k, i) /\ k \notin CustEntered(g)
             /\ k \in CustEntered(g)' /\ CustOwed(g)' \subseteq CustOwed(g) \cup {k}
      BY <2>1, <2>3, Zenon
    <3> QED
      BY <3>1, Zenon DEF CustOwedMove
  <2> QED
    BY <1>1, <2>1, <2>2, <2>3
<1>4. ASSUME \A l \in Locals, h \in Guests : ~Customers!AddCustomer(l, h), NEW F,
             F = {c.for : c \in Customers!Awaited}, Customers!Awaited' = {}
      PROVE  CustOwed(g)' \subseteq CustOwed(g) \cup F
  BY <1>2, <1>4 DEF CustOwed
<1>5. \A c \in Customers!Awaited : {d.for : d \in Customers!Awaited} = {c.for}
  BY DEF CustOneAwaited
<1>6. \E x : {d.for : d \in Customers!Awaited} \subseteq {x}
  <2>1. CASE Customers!Awaited = {}
    BY <2>1
  <2> QED
    BY <1>5, <2>1
<1>7. ASSUME \A l \in Locals, h \in Guests : ~Customers!AddCustomer(l, h) PROVE CustOwedMove(g)
  <2>1. CASE Customers!Awaited' = Customers!Awaited
    <3>1. CustOwed(g)' \subseteq CustOwed(g)
      BY <1>2, <1>7, <2>1 DEF CustOwed
    <3> QED
      BY <3>1 DEF CustOwedMove
  <2>2. ASSUME Customers!Awaited' = {}, Customers!Kill \/ Customers!TimeOut
        PROVE  \E x : CustOwed(g)' \subseteq CustOwed(g) \cup {x}
    <3>1. PICK x : {d.for : d \in Customers!Awaited} \subseteq {x}
      BY <1>6
    <3>2. CustOwed(g)' \subseteq CustOwed(g) \cup {d.for : d \in Customers!Awaited}
      BY <1>4, <1>7, <2>2
    <3> QED
      BY <3>1, <3>2
  <2>3. ASSUME Customers!Awaited' = {}, NEW c \in Customers!Awaited, Customers!Resolve(c)
        PROVE  CustOwed(g)' \subseteq CustOwed(g)
    <3>1. CustOwed(g)' \subseteq CustOwed(g) \cup {c.for}
      BY <1>4, <1>5, <1>7, <2>3
    <3>2. c.for \in Locals /\ c.found # c.for
      BY <1>0 DEF CustCallsTrue, CustTypes, CustCall, Customers!Awaited
    <3>3. cs_table'[c.for] # "dirty"
      BY <1>0, <2>3, <3>2 DEF Customers!Resolve, CustTypes
    <3> QED
      BY <3>1, <3>3 DEF CustOwed
  <2>4. ASSUME Customers!Awaited' = {}, NEW c \in Customers!Awaited, Customers!RefuseCustomer(c)
        PROVE  \/ CustOwed(g)' \subseteq CustOwed(g)
               \/ \E x : c \in CustAsked(g) /\ CustOwed(g)' \subseteq CustOwed(g) \cup {x}
    <3>1. CustOwed(g)' \subseteq CustOwed(g) \cup {c.for}
      BY <1>4, <1>5, <1>7, <2>4
    <3>2. cs_who[c.for] = c.guest /\ c \in cs_calls /\ c.step = "refused"
      BY <2>4 DEF CustCallsTrue, Customers!Awaited, Customers!RefuseCustomer
    <3>3. CASE c.guest = g
      BY <3>1, <3>2, <3>3 DEF CustAsked
    <3>4. CASE c.guest # g
      <4>1. c.for \notin CustOwed(g)'
        BY <1>2, <1>7, <3>2, <3>4
      <4> QED
        BY <3>1, <4>1
    <3> QED
      BY <3>3, <3>4
  <2>5. ASSUME NEW l \in Locals, Customers!PushCustomer(l)
        PROVE CustOwed(g)' \subseteq CustOwed(g)
    <3>1. Customers!Awaited = {}
      BY <2>5 DEF Customers!PushCustomer
    <3> QED
      BY <1>2, <1>7, <3>1 DEF CustOwed
  <2>6. ASSUME NEW c \in Customers!Awaited, NEW d, d.for = c.for, Customers!Awaited' = {d}
        PROVE  CustOwed(g)' \subseteq CustOwed(g)
    <3>1. \A e \in Customers!Awaited : e.for = c.for
      BY DEF CustOneAwaited
    <3> QED
      BY <1>2, <1>7, <2>6, <3>1 DEF CustOwed
  <2> QED
    BY <2>1, <2>2, <2>3, <2>4, <2>5, <2>6, CustAwaitedMoves DEF CustOwedMove
<1>8. ASSUME NEW l \in Locals, Customers!PushCustomer(l), cs_who[l] = g
      PROVE  l \in CustOwed(g) /\ CustOwed(g)' \subseteq CustOwed(g) \ {l}
  <2>1. /\ Customers!Awaited = {} /\ cs_table[l] = "dirty"
        /\ cs_who' = cs_who /\ cs_table' = cs_table
    BY <1>8 DEF Customers!PushCustomer, CustOneAwaited
  <2> DEFINE r == Customers!Request(cs_who[l], l, TRUE)
  <2>2. r \in Customers!Awaited' /\ r.for = l
    BY <1>8 DEF Customers!PushCustomer, Customers!Awaited, Customers!Request
  <2> QED
    BY <1>8, <2>1, <2>2 DEF CustOwed
<1> QED
  BY <1>3, <1>7, <1>8

\* The Cardinality of the instance is the library's.
LEMMA CustCardinality == ASSUME NEW S PROVE Customers!Cardinality(S) = Cardinality(S)
  BY DEF Customers!Cardinality, Cardinality

\* A subset of a finite set, of one with one more, with one replaced.
LEMMA CustFewer ==
    ASSUME NEW S, IsFiniteSet(S), NEW T
    PROVE  /\ T \subseteq S => IsFiniteSet(T) /\ Cardinality(T) <= Cardinality(S)
           /\ \A x : T \subseteq S \cup {x} => IsFiniteSet(T)
                   /\ Cardinality(T) <= Cardinality(S) + 1
           /\ \A x \in S : T \subseteq S \ {x} => IsFiniteSet(T)
                   /\ Cardinality(T) <= Cardinality(S) - 1
           /\ \A x \in S : \A y : T \subseteq (S \ {x}) \cup {y} =>
                IsFiniteSet(T) /\ Cardinality(T) <= Cardinality(S)
           /\ Cardinality(S) \in Nat
<1>0. Cardinality(S) \in Nat
  BY FS_CardinalityType
<1>1. T \subseteq S => IsFiniteSet(T) /\ Cardinality(T) <= Cardinality(S)
  BY FS_Subset
<1>2. ASSUME NEW x, T \subseteq S \cup {x}
      PROVE  IsFiniteSet(T) /\ Cardinality(T) <= Cardinality(S) + 1
  <2>1. IsFiniteSet(S \cup {x}) /\ Cardinality(S \cup {x}) <= Cardinality(S) + 1
    BY <1>0, FS_AddElement
  <2>2. IsFiniteSet(T) /\ Cardinality(T) <= Cardinality(S \cup {x})
    BY <1>2, <2>1, FS_Subset
  <2>3. Cardinality(S \cup {x}) \in Nat /\ Cardinality(T) \in Nat
    BY <2>1, <2>2, FS_CardinalityType
  <2> QED
    BY <1>0, <2>1, <2>2, <2>3
<1>3. ASSUME NEW x \in S
      PROVE  IsFiniteSet(S \ {x}) /\ Cardinality(S \ {x}) = Cardinality(S) - 1
  BY FS_RemoveElement
<1>4. ASSUME NEW x \in S, T \subseteq S \ {x}
      PROVE  IsFiniteSet(T) /\ Cardinality(T) <= Cardinality(S) - 1
  <2> DEFINE R == S \ {x}
  <2>1. T \in SUBSET R /\ IsFiniteSet(R) /\ Cardinality(R) = Cardinality(S) - 1
    BY <1>3, <1>4
  <2> HIDE DEF R
  <2> QED
    BY <2>1, FS_Subset
<1>5. ASSUME NEW x \in S, NEW y, T \subseteq (S \ {x}) \cup {y}
      PROVE  IsFiniteSet(T) /\ Cardinality(T) <= Cardinality(S)
  <2> DEFINE R == S \ {x}
  <2>1. IsFiniteSet(R) /\ Cardinality(R) = Cardinality(S) - 1 /\ Cardinality(R) \in Nat
    BY <1>3, FS_CardinalityType
  <2>2. T \subseteq R \cup {y}
    BY <1>5
  <2> HIDE DEF R
  <2>3. IsFiniteSet(R \cup {y}) /\ Cardinality(R \cup {y}) <= Cardinality(R) + 1
    BY SMTT(60), <2>1, FS_AddElement
  <2>4. IsFiniteSet(T) /\ Cardinality(T) <= Cardinality(R \cup {y})
    BY <2>2, <2>3, FS_Subset
  <2>5. Cardinality(R \cup {y}) \in Nat /\ Cardinality(T) \in Nat
    BY <2>3, <2>4, FS_CardinalityType
  <2> QED
    BY <1>0, <2>1, <2>3, <2>4, <2>5
<1> QED
  BY <1>0, <1>1, <1>2, <1>4, <1>5

\* What is abandoned is no more than it was.
LEMMA CustLetGo ==
    ASSUME NEW S, IsFiniteSet(S), NEW T, T \subseteq {[c EXCEPT !.awaited = FALSE] : c \in S}
    PROVE  IsFiniteSet(T) /\ Cardinality(T) <= Cardinality(S)
<1> DEFINE R == {[c EXCEPT !.awaited = FALSE] : c \in S}
           f == [c \in S |-> [c EXCEPT !.awaited = FALSE]]
<1>1. f \in Surjection(S, R)
  BY DEF Surjection
<1>2. T \subseteq R
  OBVIOUS
<1> HIDE DEF R, f
<1>3. IsFiniteSet(R) /\ Cardinality(R) <= Cardinality(S)
  BY <1>1, FS_Surjection
<1>4. IsFiniteSet(T) /\ Cardinality(T) <= Cardinality(R)
  BY <1>2, <1>3, FS_Subset
<1>5. Cardinality(R) \in Nat /\ Cardinality(T) \in Nat /\ Cardinality(S) \in Nat
  BY <1>3, <1>4, FS_CardinalityType
<1> QED
  BY <1>3, <1>4, <1>5

\* The server has finitely many requests.
LEMMA CustFiniteCalls ==
    ASSUME CustTypes, IsFiniteSet(cs_calls), Customers!Next PROVE IsFiniteSet(cs_calls')
<1>1. CASE Customers!Kill \/ Customers!TimeOut
  <2>1. cs_calls' \subseteq {[c EXCEPT !.awaited = FALSE] : c \in cs_calls}
    BY <1>1 DEF Customers!Kill, Customers!TimeOut, Customers!Abandoned
  <2> QED
    BY <2>1, CustLetGo
<1>2. ASSUME NEW l \in Locals, Customers!PushCustomer(l) PROVE IsFiniteSet(cs_calls')
  BY <1>2, FS_AddElement DEF Customers!PushCustomer
<1>3. ASSUME NEW g \in Phoned, Customers!CallerOrders(g) PROVE IsFiniteSet(cs_calls')
  BY <1>3, FS_AddElement DEF Customers!CallerOrders
<1>4. ASSUME NEW c \in cs_calls, Customers!Resolve(c) \/ Customers!RefuseCustomer(c)
      PROVE  IsFiniteSet(cs_calls')
  BY <1>4, FS_RemoveElement DEF Customers!Resolve, Customers!RefuseCustomer
<1>5. ASSUME NEW c \in cs_calls, Customers!LookUp(c) \/ Customers!WriteProfile(c)
      PROVE  IsFiniteSet(cs_calls')
  <2>1. \E d : cs_calls' \subseteq cs_calls \cup {d}
    BY <1>5 DEF Customers!LookUp, Customers!WriteProfile, Customers!Step
  <2> QED
    BY <2>1, FS_AddElement, FS_Subset
<1> QED
  BY <1>1, <1>2, <1>3, <1>4, <1>5, CustMoves

\* The account of a guest without a phone number: what a step adds on the left it takes
\* away there, or adds on the right.
LEMMA CustAccount ==
    ASSUME NEW P, NEW A, NEW O, NEW E, NEW P2, NEW A2, NEW O2, NEW E2, NEW l \in Nat, NEW l2,
           IsFiniteSet(P), IsFiniteSet(A), IsFiniteSet(O), IsFiniteSet(E2), E \subseteq E2,
           Cardinality(P) + Cardinality(A) + Cardinality(O) <= l + Cardinality(E),
           IsFiniteSet(P2), IsFiniteSet(A2), IsFiniteSet(O2), l2 \in {l, l + 1},
           \/ Cardinality(A2) <= Cardinality(A) /\ O2 \subseteq O /\ P2 = P
           \/ /\ P2 = P /\ Cardinality(A2) <= Cardinality(A)
              /\ \E x : O2 \subseteq O \cup {x}
              /\ l2 = l + 1 \/ \E x \in E2 : x \notin E
           \/ P2 = P /\ (\E c \in A : A2 \subseteq A \ {c}) /\ \E x : O2 \subseteq O \cup {x}
           \/ P2 = P /\ (\E r : A2 \subseteq A \cup {r}) /\ \E x \in O : O2 \subseteq O \ {x}
           \/ (\E p : P2 = P \cup {p}) /\ (\E c \in A : A2 \subseteq A \ {c}) /\ O2 \subseteq O
    PROVE  Cardinality(P2) + Cardinality(A2) + Cardinality(O2) <= l2 + Cardinality(E2)
<1>1. /\ \A S \in {P, A, O, E2, P2, A2, O2} : Cardinality(S) \in Nat
      /\ Cardinality(E) \in Nat /\ Cardinality(E) <= Cardinality(E2)
  BY CustFewer
<1>2. (\E x \in E2 : x \notin E) => Cardinality(E) + 1 <= Cardinality(E2)
  <2>1. ASSUME NEW x \in E2, x \notin E PROVE Cardinality(E) <= Cardinality(E2) - 1
    <3>1. E \subseteq E2 \ {x}
      BY <2>1
    <3> QED
      BY <2>1, <3>1, CustFewer
  <2> QED
    BY <1>1, <2>1
<1>3. /\ O2 \subseteq O => Cardinality(O2) <= Cardinality(O)
      /\ (\E x : O2 \subseteq O \cup {x}) => Cardinality(O2) <= Cardinality(O) + 1
      /\ (\E x \in O : O2 \subseteq O \ {x}) => Cardinality(O2) <= Cardinality(O) - 1
  BY CustFewer
<1>4. /\ (\E r : A2 \subseteq A \cup {r}) => Cardinality(A2) <= Cardinality(A) + 1
      /\ (\E c \in A : A2 \subseteq A \ {c}) => Cardinality(A2) <= Cardinality(A) - 1
  BY CustFewer
<1>5. (\E p : P2 = P \cup {p}) => Cardinality(P2) <= Cardinality(P) + 1
  BY CustFewer
<1>6. CASE Cardinality(A2) <= Cardinality(A) /\ O2 \subseteq O /\ P2 = P
  BY <1>1, <1>3, <1>6
<1>7. CASE /\ P2 = P /\ Cardinality(A2) <= Cardinality(A)
           /\ \E x : O2 \subseteq O \cup {x}
           /\ l2 = l + 1 \/ \E x \in E2 : x \notin E
  <2>1. Cardinality(O2) <= Cardinality(O) + 1
    BY <1>3, <1>7
  <2>2. l2 + Cardinality(E2) >= l + Cardinality(E) + 1
    <3>1. CASE l2 = l + 1
      BY <1>1, <3>1
    <3>2. CASE \E x \in E2 : x \notin E
      BY <1>1, <1>2, <3>2
    <3> QED
      BY <1>7, <3>1, <3>2
  <2>3. P2 = P /\ Cardinality(A2) <= Cardinality(A)
    BY <1>7
  <2> QED
    BY <1>1, <2>1, <2>2, <2>3
<1>8. CASE P2 = P /\ (\E c \in A : A2 \subseteq A \ {c}) /\ \E x : O2 \subseteq O \cup {x}
  <2>1. Cardinality(A2) <= Cardinality(A) - 1
    BY <1>4, <1>8
  <2>2. Cardinality(O2) <= Cardinality(O) + 1
    BY <1>3, <1>8
  <2> QED
    BY <1>1, <1>8, <2>1, <2>2
<1>9. CASE P2 = P /\ (\E r : A2 \subseteq A \cup {r}) /\ \E x \in O : O2 \subseteq O \ {x}
  <2>1. Cardinality(A2) <= Cardinality(A) + 1
    BY <1>4, <1>9
  <2>2. Cardinality(O2) <= Cardinality(O) - 1
    BY <1>3, <1>9
  <2> QED
    BY <1>1, <1>9, <2>1, <2>2
<1>10. CASE (\E p : P2 = P \cup {p}) /\ (\E c \in A : A2 \subseteq A \ {c}) /\ O2 \subseteq O
  <2>1. Cardinality(A2) <= Cardinality(A) - 1
    BY <1>4, <1>10
  <2>2. Cardinality(O2) <= Cardinality(O)
    BY <1>3, <1>10
  <2>3. Cardinality(P2) <= Cardinality(P) + 1
    BY <1>5, <1>10
  <2> QED
    BY <1>1, <2>1, <2>2, <2>3
<1> QED
  BY <1>6, <1>7, <1>8, <1>9, <1>10

\* A guest without a phone number: his profiles, and what may still make one, are as many
\* as the times he was entered, and the answers lost.
LEMMA CustUnphonedOn ==
    ASSUME CustomerBounds, CustTypes, CustCallsTrue, CustOneAwaited, CustDirtyOnes, CustSomeone,
           CustUnphoned, Customers!Next
    PROVE  CustUnphoned'
<1>1. IsFiniteSet(cs_calls')
  BY CustFiniteCalls DEF CustUnphoned
<1>2. ASSUME NEW d \in cs_calls', d.guest \notin Phoned
      PROVE  d.step = "written" \/ d.found = None
  <2>1. CASE d \in cs_calls
    BY <1>2, <2>1 DEF CustUnphoned
  <2>2. CASE \/ \E l \in Locals : d = Customers!Request(cs_who[l], l, TRUE)
             \/ \E g \in Phoned : d = Customers!Request(g, None, FALSE)
    BY <2>2 DEF Customers!Request
  <2>3. ASSUME NEW c \in cs_calls, CustFurther(c, d) PROVE d.step = "written" \/ d.found = None
    <3>0. c \in CustCall
      BY DEF CustTypes
    <3>1. CASE c.step # "written" /\ d = [c EXCEPT !.awaited = FALSE]
      <4>1. d.guest = c.guest /\ d.found = c.found
        BY <3>0, <3>1 DEF CustCall
      <4> QED
        BY <1>2, <3>1, <4>1 DEF CustUnphoned
    <3>2. CASE c.step = "sent"
             /\ (d = [c EXCEPT !.step = "refused"] \/ d = [c EXCEPT !.step = "looked"])
      BY <3>0, <3>2 DEF CustCall, CustCallsTrue
    <3>3. ASSUME NEW p \in Profiles, d = [c EXCEPT !.step = "looked", !.found = p],
                 c.step = "sent", Customers!LookUp(c)
          PROVE  FALSE
      <4>1. d.guest = c.guest /\ d.step = "looked" /\ d.found = p /\ p # None
        BY <3>0, <3>3 DEF CustCall, CustomerBounds
      <4>2. d \notin cs_calls
        BY <1>2, <4>1 DEF CustUnphoned
      <4>3. \A q : [c EXCEPT !.step = "looked", !.found = q].guest = c.guest
        BY <3>0 DEF CustCall
      <4>4. /\ [c EXCEPT !.step = "looked"].found = None
            /\ [c EXCEPT !.step = "refused"].found = None
        BY <3>0, <3>3 DEF CustCall, CustCallsTrue
      <4> QED
        BY <1>2, <3>3, <4>1, <4>2, <4>4 DEF Customers!LookUp, Customers!Step
    <3>4. ASSUME NEW p \in Profiles, d = [c EXCEPT !.step = "written", !.found = p]
          PROVE  d.step = "written"
      BY <3>0, <3>4 DEF CustCall
    <3> QED
      BY <2>3, <3>1, <3>2, <3>3, <3>4 DEF CustFurther
  <2> QED
    BY <2>1, <2>2, <2>3, CustCallsMove
<1>3. ASSUME NEW g \in Guests \ Phoned
      PROVE  Cardinality(Customers!ProfilesOf(g)') + Cardinality(CustAsked(g)')
               + Cardinality(CustOwed(g)') <= cs_lost' + Cardinality(CustEntered(g)')
  <2> DEFINE P == Customers!ProfilesOf(g)
             A == CustAsked(g)
             O == CustOwed(g)
             E == CustEntered(g)
  <2>1. /\ IsFiniteSet(P) /\ IsFiniteSet(A) /\ IsFiniteSet(O) /\ IsFiniteSet(E)
        /\ IsFiniteSet(E')
        /\ Cardinality(P) + Cardinality(A) + Cardinality(O) <= cs_lost + Cardinality(E)
        /\ cs_lost \in Nat
    <3>1. P \subseteq Profiles /\ A \subseteq cs_calls /\ O \subseteq Locals
             /\ E \subseteq Locals
          /\ E' \subseteq Locals
      BY DEF Customers!ProfilesOf, CustAsked, CustOwed, CustEntered
    <3> QED
      BY <3>1, FS_Subset DEF CustomerBounds, CustUnphoned, CustTypes
  <2>2. E \subseteq E'
    BY CustWhoStays DEF CustEntered, Customers!Ids, CustomerBounds
  <2>3. \/ P' = P
        \/ \E c \in cs_calls, p \in Profiles :
                /\ Customers!WriteProfile(c) /\ c.guest = g /\ c.found = None
                /\ P' = P \cup {p}
    BY CustProfilesMove
  <2>4. /\ \/ A' \subseteq A
           \/ \E l \in Locals :
                /\ Customers!PushCustomer(l) /\ cs_who[l] = g
                /\ A' \subseteq A \cup {Customers!Request(g, l, TRUE)}
           \/ \E c \in A : \E d : A' \subseteq (A \ {c}) \cup {d}
           \/ A' \subseteq {[c EXCEPT !.awaited = FALSE] : c \in A}
        /\ \A c \in cs_calls : Customers!RefuseCustomer(c) \/ Customers!WriteProfile(c) =>
             A' \subseteq A \ {c}
        /\ Customers!Kill \/ Customers!TimeOut => cs_lost' = cs_lost + 1
    BY CustAskedMoves
  <2>5. /\ \/ O' \subseteq O
           \/ (\E x \in E' : x \notin E) /\ \E x : O' \subseteq O \cup {x}
           \/ (Customers!Kill \/ Customers!TimeOut) /\ \E x : O' \subseteq O \cup {x}
           \/ \E c \in A : Customers!RefuseCustomer(c) /\ \E x : O' \subseteq O \cup {x}
        /\ \A l \in Locals : Customers!PushCustomer(l) /\ cs_who[l] = g =>
             l \in O /\ O' \subseteq O \ {l}
    BY CustOwedMoves DEF CustOwedMove
  <2>6. ASSUME NEW c \in cs_calls, Customers!WriteProfile(c), c.guest = g
        PROVE  c \in A /\ O' \subseteq O
    <3>1. c \in A
      BY <2>6 DEF Customers!WriteProfile, CustAsked
    <3>2. /\ cs_lost' = cs_lost /\ cs_run' = cs_run
          /\ c \notin A'
      BY <2>4, <2>6 DEF Customers!WriteProfile, Customers!history
    <3>3. \A l \in Locals, h \in Guests : ~Customers!AddCustomer(l, h)
      BY <3>1, <3>2 DEF Customers!AddCustomer, CustAsked
    <3>4. ~(Customers!Kill \/ Customers!TimeOut)
      BY <2>1, <2>4, <3>2
    <3>5. ASSUME NEW d \in A, Customers!RefuseCustomer(d) PROVE FALSE
      BY <3>2, <3>5 DEF Customers!RefuseCustomer, CustOneAwaited, Customers!Idle
    <3> QED
      BY <3>1, <3>3, <3>4, <3>5, CustOwedMoves DEF CustOwedMove
  <2>7. \A c \in A : c \in cs_calls
    BY DEF CustAsked
  <2>8. cs_lost' \in {cs_lost, cs_lost + 1}
    BY CustMoves
  <2>9. /\ IsFiniteSet(P') /\ IsFiniteSet(A') /\ IsFiniteSet(O')
    <3>1. P' \subseteq Profiles /\ A' \subseteq cs_calls' /\ O' \subseteq Locals
      BY DEF Customers!ProfilesOf, CustAsked, CustOwed
    <3> QED
      BY <1>1, <3>1, FS_Subset DEF CustomerBounds
  <2> HIDE DEF P, A, O, E
  <2>10. \/ Cardinality(A') <= Cardinality(A)
         \/ \E l \in Locals : /\ Customers!PushCustomer(l) /\ cs_who[l] = g
                              /\ \E r : A' \subseteq A \cup {r}
    <3>1. A' \subseteq {[c EXCEPT !.awaited = FALSE] : c \in A}
             => Cardinality(A') <= Cardinality(A)
      BY <2>1, CustLetGo
    <3>2. A' \subseteq A => Cardinality(A') <= Cardinality(A)
      BY <2>1, CustFewer
    <3>3. (\E c \in A : \E d : A' \subseteq (A \ {c}) \cup {d})
             => Cardinality(A') <= Cardinality(A)
      BY <2>1, CustFewer
    <3> QED
      BY <2>4, <3>1, <3>2, <3>3
  <2>11. CASE \E l \in Locals : /\ Customers!PushCustomer(l) /\ cs_who[l] = g
                               /\ \E r : A' \subseteq A \cup {r}
    <3>1. P' = P
      BY <2>11 DEF Customers!PushCustomer, P, Customers!ProfilesOf
    <3>2. \E x \in O : O' \subseteq O \ {x}
      BY <2>5, <2>11
    <3>3. Cardinality(P') + Cardinality(A') + Cardinality(O') <= cs_lost' + Cardinality(E')
      BY <2>1, <2>2, <2>8, <2>9, <2>11, <3>1, <3>2, CustAccount
    <3> QED
      BY <3>3 DEF P, A, O, E
  <2>12. CASE Cardinality(A') <= Cardinality(A) /\ P' = P
    <3>1. \/ O' \subseteq O
          \/ /\ \E x : O' \subseteq O \cup {x}
             /\ cs_lost' = cs_lost + 1 \/ \E x \in E' : x \notin E
          \/ (\E c \in A : A' \subseteq A \ {c}) /\ \E x : O' \subseteq O \cup {x}
      BY <2>4, <2>5, <2>7
    <3>2. ASSUME O' \subseteq O
          PROVE  Cardinality(P') + Cardinality(A') + Cardinality(O')
                   <= cs_lost' + Cardinality(E')
      BY <2>1, <2>2, <2>8, <2>9, <2>12, <3>2, CustAccount
    <3>3. ASSUME \E x : O' \subseteq O \cup {x},
                 cs_lost' = cs_lost + 1 \/ \E x \in E' : x \notin E
          PROVE  Cardinality(P') + Cardinality(A') + Cardinality(O')
                   <= cs_lost' + Cardinality(E')
      BY <2>1, <2>2, <2>8, <2>9, <2>12, <3>3, CustAccount
    <3>4. ASSUME \E c \in A : A' \subseteq A \ {c}, \E x : O' \subseteq O \cup {x}
          PROVE  Cardinality(P') + Cardinality(A') + Cardinality(O')
                   <= cs_lost' + Cardinality(E')
      BY <2>1, <2>2, <2>8, <2>9, <2>12, <3>4, CustAccount
    <3>5. Cardinality(P') + Cardinality(A') + Cardinality(O') <= cs_lost' + Cardinality(E')
      BY <3>1, <3>2, <3>3, <3>4
    <3> QED
      BY <3>5 DEF P, A, O, E
  <2>13. ASSUME NEW c \in cs_calls, NEW p \in Profiles, Customers!WriteProfile(c),
                c.guest = g, P' = P \cup {p}
         PROVE  Cardinality(Customers!ProfilesOf(g)') + Cardinality(CustAsked(g)')
                  + Cardinality(CustOwed(g)') <= cs_lost' + Cardinality(CustEntered(g)')
    <3>1. (\E q : P' = P \cup {q}) /\ (\E d \in A : A' \subseteq A \ {d}) /\ O' \subseteq O
      BY <2>4, <2>6, <2>13
    <3>2. Cardinality(P') + Cardinality(A') + Cardinality(O') <= cs_lost' + Cardinality(E')
      BY <2>1, <2>2, <2>8, <2>9, <3>1, CustAccount
    <3> QED
      BY <3>2 DEF P, A, O, E
  <2> QED
    BY <2>3, <2>10, <2>11, <2>12, <2>13
<1> QED
  BY <1>1, <1>2, <1>3 DEF CustUnphoned

CustIInv ==
    /\ CustTypes /\ CustCallsTrue /\ CustOneAwaited /\ CustDirtyOnes /\ CustSomeone
    /\ CustPhoned /\ CustUnphoned
    /\ Customers!NothingDangles /\ Customers!RefusalIsKnown /\ Customers!NobodyIsLost

\* A register with no customers.
LEMMA CustInitIInv == ASSUME CustomerBounds, Customers!Init PROVE CustIInv
<1>0. /\ \A i \in Customers!Ids : cs_who[i] = None /\ cs_table[i] = "none"
      /\ \A l \in Locals : l \in Customers!Ids /\ cs_who[l] = None /\ cs_table[l] = "none"
      /\ \A p \in Profiles : cs_who[p] = None
      /\ \A o \in Tabs : cs_order[o] = Customers!NoOrder
      /\ cs_listed = None /\ cs_cart = None /\ cs_resumed = None
      /\ cs_run = Customers!Idle /\ cs_calls = {} /\ Customers!Awaited = {}
      /\ cs_lost = 0 /\ cs_callers = 0
      /\ cs_late = {} /\ cs_stale = {} /\ cs_missed = {} /\ cs_raced = {}
  BY DEF Customers!Init, Customers!Ids, Customers!Awaited
<1>1. CustTypes
  <2>1. cs_run \in [ at : {"idle", "customers", "orders", "pull"},
                     todo : SUBSET (Locals \cup Tabs) ]
    BY <1>0 DEF Customers!Idle
  <2>2. cs_order \in [Tabs -> CustOrder]
    BY DEF Customers!Init, Customers!NoOrder, CustOrder
  <2>3. /\ cs_who \in [Customers!Ids -> Guests \cup {None}]
        /\ cs_table \in [Customers!Ids -> {"none", "dirty", "clean"}]
    BY DEF Customers!Init
  <2> QED
    BY <1>0, <2>1, <2>2, <2>3 DEF CustTypes, CustomerBounds
<1>2. CustCallsTrue /\ CustOneAwaited /\ CustDirtyOnes
  BY <1>0 DEF CustCallsTrue, CustOneAwaited, CustDirtyOnes, Customers!Idle
<1>3. CustSomeone
  BY <1>0 DEF CustSomeone, Customers!NoOrder, Customers!WhoIs
<1>4. \A g \in Guests : Customers!ProfilesOf(g) = {} /\ CustAsked(g) = {} /\ CustOwed(g) = {}
        /\ CustEntered(g) = {}
  BY <1>0 DEF Customers!ProfilesOf, CustAsked, CustOwed, CustEntered, CustomerBounds
<1>5. CustPhoned
  BY <1>0, <1>4 DEF CustPhoned, CustomerBounds
<1>6. CustUnphoned
  BY <1>0, <1>4, FS_EmptySet DEF CustUnphoned
<1>7. Customers!NothingDangles /\ Customers!RefusalIsKnown /\ Customers!NobodyIsLost
  BY <1>0 DEF Customers!NothingDangles, Customers!RefusalIsKnown, Customers!NobodyIsLost,
     Customers!NoOrder
<1> QED
  BY <1>1, <1>2, <1>3, <1>5, <1>6, <1>7 DEF CustIInv

\* Each step keeps the invariant, and so does one of another part.
LEMMA CustNextIInv ==
    ASSUME CustomerBounds, CustIInv, [Customers!Next]_(Customers!vars) PROVE CustIInv'
<1>1. CASE Customers!Next
  <2>1. /\ CustTypes /\ CustCallsTrue /\ CustOneAwaited /\ CustDirtyOnes /\ CustSomeone
        /\ CustPhoned /\ CustUnphoned
        /\ Customers!NothingDangles /\ Customers!RefusalIsKnown /\ Customers!NobodyIsLost
    BY DEF CustIInv
  <2>2. CustTypes'
    BY <1>1, <2>1, CustTypesStep
  <2>3. CustCallsTrue' /\ CustOneAwaited' /\ CustDirtyOnes' /\ CustSomeone'
    BY <1>1, <2>1, CustCallsTrueOn, CustOneAwaitedOn, CustDirtyOnesOn, CustSomeoneOn
  <2>4. CustPhoned' /\ CustUnphoned'
    BY <1>1, <2>1, CustPhonedOn, CustUnphonedOn
  <2>5. Customers!NothingDangles' /\ Customers!RefusalIsKnown' /\ Customers!NobodyIsLost'
    BY <1>1, <2>1, CustNothingDanglesOn, CustRefusalIsKnownOn, CustNobodyIsLostOn
  <2> QED
    BY <2>2, <2>3, <2>4, <2>5 DEF CustIInv
<1>2. CASE UNCHANGED Customers!vars
  <2> USE <1>2 DEF Customers!vars
  <2>0. Customers!Awaited' = Customers!Awaited
    BY DEF Customers!Awaited
  <2>1. CustTypes'
    BY DEF CustIInv, CustTypes
  <2>2. CustCallsTrue'
    BY DEF CustIInv, CustCallsTrue
  <2>3. CustOneAwaited'
    BY <2>0 DEF CustIInv, CustOneAwaited
  <2>4. CustDirtyOnes'
    BY <2>0 DEF CustIInv, CustDirtyOnes
  <2>5. CustSomeone'
    BY DEF CustIInv, CustSomeone, Customers!WhoIs
  <2>6. CustPhoned'
    BY DEF CustIInv, CustPhoned, Customers!ProfilesOf
  <2>7. CustUnphoned'
    <3>1. ASSUME NEW g
          PROVE  /\ Customers!ProfilesOf(g)' = Customers!ProfilesOf(g)
                 /\ CustAsked(g)' = CustAsked(g) /\ CustOwed(g)' = CustOwed(g)
                 /\ CustEntered(g)' = CustEntered(g)
      BY <2>0 DEF Customers!ProfilesOf, CustAsked, CustOwed, CustEntered
    <3> QED
      BY <3>1 DEF CustIInv, CustUnphoned
  <2>8. Customers!NothingDangles' /\ Customers!RefusalIsKnown' /\ Customers!NobodyIsLost'
    BY DEF CustIInv, Customers!NothingDangles, Customers!RefusalIsKnown,
       Customers!NobodyIsLost, Customers!ProfilesOf
  <2> QED
    BY <2>1, <2>2, <2>3, <2>4, <2>5, <2>6, <2>7, <2>8 DEF CustIInv
<1> QED
  BY <1>1, <1>2

LEMMA CustTypesHold == ASSUME CustIInv PROVE Customers!TypeOK
<1>1. Customers!Cardinality(Customers!Awaited) <= 1
  <2>1. Customers!Cardinality(Customers!Awaited) = Cardinality(Customers!Awaited)
    BY DEF Customers!Cardinality, Cardinality, Customers!IsFiniteSet, IsFiniteSet
  <2>2. \A c, d \in Customers!Awaited : c = d
    BY DEF CustIInv, CustOneAwaited
  <2>3. CASE Customers!Awaited = {}
    BY <2>1, <2>3, FS_EmptySet
  <2>4. ASSUME NEW c \in Customers!Awaited PROVE Cardinality(Customers!Awaited) = 1
    <3>1. Customers!Awaited = {c}
      BY <2>2
    <3> QED
      BY <3>1, FS_Singleton
  <2> QED
    BY <2>1, <2>3, <2>4
<1> QED
  BY <1>1 DEF CustIInv, CustTypes, CustCall, CustOrder, Customers!TypeOK

\* The invariant says what is promised of the customers.
LEMMA CustIInvFollows == ASSUME CustomerBounds, CustIInv PROVE Customers!CustomersFollow
<1>1. Customers!GuestIsBilled
  BY DEF CustIInv, CustSomeone, Customers!GuestIsBilled
<1>2. ASSUME NEW g \in Phoned, g \notin cs_raced
      PROVE  Customers!Cardinality(Customers!ProfilesOf(g)) <= 1
  <2>1. \A p, q \in Customers!ProfilesOf(g) : p = q
    BY <1>2 DEF CustIInv, CustPhoned
  <2>2. CASE Customers!ProfilesOf(g) = {}
    BY <2>2, CustCardinality, FS_EmptySet
  <2>3. ASSUME NEW p \in Customers!ProfilesOf(g)
        PROVE  Customers!Cardinality(Customers!ProfilesOf(g)) <= 1
    <3>1. Customers!ProfilesOf(g) = {p}
      BY <2>1
    <3>2. Cardinality({p}) = 1
      BY FS_Singleton
    <3> QED
      BY <3>1, <3>2, CustCardinality
  <2> QED
    BY <2>2, <2>3
<1>3. ASSUME NEW g \in Guests, g \notin Phoned
      PROVE  Customers!Cardinality(Customers!ProfilesOf(g))
               <= cs_lost + Customers!Cardinality({l \in Locals : cs_who[l] = g})
  <2>1. Cardinality(Customers!ProfilesOf(g)) + Cardinality(CustAsked(g))
           + Cardinality(CustOwed(g)) <= cs_lost + Cardinality(CustEntered(g))
    BY <1>3 DEF CustIInv, CustUnphoned
  <2>2. /\ Customers!ProfilesOf(g) \subseteq Profiles /\ CustAsked(g) \subseteq cs_calls
        /\ CustOwed(g) \subseteq Locals /\ CustEntered(g) \subseteq Locals
    BY DEF Customers!ProfilesOf, CustAsked, CustOwed, CustEntered
  <2>3. /\ IsFiniteSet(Customers!ProfilesOf(g)) /\ IsFiniteSet(CustAsked(g))
        /\ IsFiniteSet(CustOwed(g)) /\ IsFiniteSet(CustEntered(g))
    BY <2>2, FS_Subset DEF CustomerBounds, CustIInv, CustUnphoned
  <2>4. /\ Cardinality(Customers!ProfilesOf(g)) \in Nat /\ Cardinality(CustAsked(g)) \in Nat
        /\ Cardinality(CustOwed(g)) \in Nat /\ Cardinality(CustEntered(g)) \in Nat
        /\ cs_lost \in Nat
    BY <2>3, FS_CardinalityType DEF CustIInv, CustTypes, CustomerBounds
  <2>5. Cardinality(Customers!ProfilesOf(g)) <= cs_lost + Cardinality(CustEntered(g))
    BY <2>1, <2>4
  <2> QED
    BY <2>5, CustCardinality DEF CustEntered
<1>4. Customers!ProfilesAreFew
  BY <1>2, <1>3 DEF Customers!ProfilesAreFew
<1> QED
  BY <1>1, <1>4 DEF CustIInv, Customers!CustomersFollow
--------------------------------------------------------------------------------
\* pushCustomers, upsertCustomer and the customer of the cart, for any number of guests,
\* orders, ids and requests, and any number of kills and lost answers: no order dangles,
\* each is billed to the guest it was saved for, one is refused only for a reason that is
\* known, nobody who was entered is lost, and profiles are not made without end.
THEOREM CustomersAreFollowed ==
    ASSUME CustomerBounds PROVE Customers!Spec => []Customers!CustomersFollow
<1>1. Customers!Init => CustIInv
  BY CustInitIInv
<1>2. CustIInv /\ [Customers!Next]_(Customers!vars) => CustIInv'
  BY CustNextIInv
<1>3. CustIInv => Customers!CustomersFollow
  BY CustIInvFollows
<1> QED
  BY <1>1, <1>2, <1>3, PTL DEF Customers!Spec
--------------------------------------------------------------------------------
\* A line's share of the units of a variant.
CartWeight(c, v) ==
    [l \in CartLines |-> IF c[l] # Cart!NoLine /\ c[l].v = v THEN c[l].qty ELSE 0]

LEMMA CartSum == ASSUME NEW q, NEW S PROVE Cart!SumOf(q, S) = SumOver(q, S)
<1>1. Cart!SumOf(q, S) = (CHOOSE g : Adds(q, S, g))[S]
  BY DEF Adds, Least, Cart!SumOf, Cart!MapThenFoldSet
<1> QED
  BY <1>1, SumIsChosen

\* A line that is used has a dish and units of it.
LEMMA CartLine ==
    ASSUME CartBounds, NEW c \in Cart!Quantities, NEW l \in CartLines
    PROVE  /\ c[l] # Cart!NoLine => c[l] \in Cart!Line /\ c[l].v \in Variants
                                      /\ c[l].qty \in 1..MaxQty
           /\ c[l] = Cart!NoLine => c[l].qty = 0
           /\ c[l].qty \in 0..MaxQty
BY DEF CartBounds, Cart!Quantities, Cart!NoLine, Cart!Line

\* The units of a cart, line by line.
LEMMA CartUnits ==
    ASSUME CartBounds, NEW c \in Cart!Quantities
    PROVE  /\ Cart!Units(c) = [v \in Variants |-> SumOver(CartWeight(c, v), CartLines)]
           /\ Cart!Units(c) \in [Variants -> Nat]
<1>1. ASSUME NEW v \in Variants
      PROVE  /\ Cart!SumOf([l \in CartLines |-> c[l].qty], {l \in Cart!Used(c) : c[l].v = v})
                  = SumOver(CartWeight(c, v), CartLines)
             /\ SumOver(CartWeight(c, v), CartLines) \in Nat
  <2> DEFINE f == [l \in CartLines |-> c[l].qty]
             T == {l \in Cart!Used(c) : c[l].v = v}
             w == CartWeight(c, v)
  <2>0. IsFiniteSet(CartLines) /\ T \in SUBSET CartLines
    BY DEF CartBounds, Cart!Used
  <2>1. \A l \in CartLines : c[l].qty \in Nat
    BY CartLine DEF CartBounds
  <2>2. /\ \A l \in CartLines : f[l] \in Nat /\ w[l] \in Nat
        /\ \A l \in T : w[l] = f[l]
        /\ \A l \in CartLines \ T : w[l] = 0
    BY <2>1 DEF CartWeight, Cart!Used
  <2> HIDE DEF f, T, w
  <2>3. IsFiniteSet(T)
    BY <2>0, FS_Subset
  <2>4. SumOver(w, CartLines) = SumOver(w, T)
    BY <2>0, <2>2, SumSupport
  <2>5. SumOver(w, T) = SumOver(f, T)
    BY <2>0, <2>2, <2>3, SumCompare
  <2>6. SumOver(w, CartLines) \in Nat
    BY <2>0, <2>2, SumType
  <2> QED
    BY <2>4, <2>5, <2>6, CartSum DEF f, T, w
<1> QED
  BY <1>1 DEF Cart!Units

\* What is above what the kitchen has, dish by dish.
CartKeeps(items, c) ==
    \A l \in CartLines : items[l] # Cart!NoLine =>
        c[l] # Cart!NoLine /\ c[l].v = items[l].v /\ items[l].qty <= c[l].qty

LEMMA CartNoLess ==
    ASSUME CartBounds, NEW c \in Cart!Quantities, NEW items \in Cart!Quantities,
           CartKeeps(items, c), NEW v \in Variants
    PROVE  Cart!Units(items)[v] <= Cart!Units(c)[v]
<1> DEFINE f == CartWeight(items, v)
           w == CartWeight(c, v)
<1>1. \A l \in CartLines : f[l] \in Int /\ w[l] \in Int /\ f[l] <= w[l]
  <2> SUFFICES ASSUME NEW l \in CartLines PROVE f[l] \in Int /\ w[l] \in Int /\ f[l] <= w[l]
    OBVIOUS
  <2>1. c[l].qty \in Nat /\ items[l].qty \in Nat
    BY CartLine DEF CartBounds
  <2> QED
    BY <2>1 DEF CartWeight, CartKeeps
<1> HIDE DEF f, w
<1>2. SumOver(f, CartLines) <= SumOver(w, CartLines)
  BY <1>1, SumCompare DEF CartBounds
<1> QED
  BY <1>2, CartUnits DEF f, w

\* The units to be told are a number of each dish.
LEMMA CartDeltaType ==
    ASSUME CartBounds, tc_cart \in Cart!Quantities, tc_base \in [CartLines -> 0..MaxQty]
    PROVE  Cart!Delta \in [Variants -> Nat]
<1>1. ASSUME NEW v \in Variants PROVE Cart!Delta[v] \in Nat
  <2> DEFINE d == [l \in CartLines |-> Cart!Added(l)]
             T == {l \in Cart!Used(tc_cart) : tc_cart[l].v = v}
  <2>1. T \in SUBSET CartLines
    BY DEF Cart!Used
  <2>2. \A l \in CartLines : d[l] \in Nat
    BY CartLine DEF Cart!Added, CartBounds
  <2>3. Cart!Delta[v] = SumOver(d, T)
    BY CartSum DEF Cart!Delta
  <2> HIDE DEF d, T
  <2>4. IsFiniteSet(T)
    BY <2>1, FS_Subset DEF CartBounds
  <2> QED
    BY <2>1, <2>2, <2>3, <2>4, SumType
<1> QED
  BY <1>1 DEF Cart!Delta

\* What is above what the tab came with is what is to be told.
LEMMA CartDelta ==
    ASSUME CartBounds, tc_cart \in Cart!Quantities, NEW items \in Cart!Quantities,
           CartKeeps(items, tc_cart), \A l \in CartLines : tc_base[l] = items[l].qty
    PROVE  Cart!Units(tc_cart) = Cart!Plus(Cart!Units(items), Cart!Delta)
<1>1. ASSUME NEW v \in Variants
      PROVE  Cart!Units(tc_cart)[v] = Cart!Units(items)[v] + Cart!Delta[v]
  <2> DEFINE d == [l \in CartLines |-> Cart!Added(l)]
             T == {l \in Cart!Used(tc_cart) : tc_cart[l].v = v}
             m == [l \in CartLines |-> IF l \in T THEN d[l] ELSE 0]
             f == CartWeight(items, v)
             w == CartWeight(tc_cart, v)
  <2>0. IsFiniteSet(CartLines) /\ T \in SUBSET CartLines
    BY DEF CartBounds, Cart!Used
  <2>1. \A l \in CartLines : d[l] \in Nat /\ m[l] \in Nat /\ f[l] \in Nat /\ w[l] \in Nat
                               /\ w[l] = f[l] + m[l]
    <3> SUFFICES ASSUME NEW l \in CartLines
                 PROVE  d[l] \in Nat /\ m[l] \in Nat /\ f[l] \in Nat /\ w[l] \in Nat
                          /\ w[l] = f[l] + m[l]
      OBVIOUS
    <3>1. tc_cart[l].qty \in Nat /\ items[l].qty \in Nat /\ tc_base[l] = items[l].qty
          /\ (items[l] = Cart!NoLine => items[l].qty = 0)
      BY CartLine DEF CartBounds
    <3>2. d[l] \in Nat
      BY <3>1 DEF Cart!Added
    <3>3. CASE l \in T /\ items[l] # Cart!NoLine
      BY <3>1, <3>2, <3>3 DEF CartWeight, CartKeeps, Cart!Added, Cart!Used
    <3>4. CASE l \in T /\ items[l] = Cart!NoLine
      BY SMTT(60), <3>1, <3>2, <3>4 DEF CartWeight, CartKeeps, Cart!Added, Cart!Used
    <3>5. CASE l \notin T
      BY <3>1, <3>2, <3>5 DEF CartWeight, CartKeeps, Cart!Used
    <3> QED
      BY <3>3, <3>4, <3>5
  <2>2. Cart!Delta[v] = SumOver(d, T)
    BY CartSum DEF Cart!Delta
  <2>3. /\ \A l \in T : d[l] = m[l]
        /\ \A l \in CartLines \ T : m[l] = 0
    BY <2>0
  <2> HIDE DEF d, T, m, f, w
  <2>4. IsFiniteSet(T)
    BY <2>0, FS_Subset
  <2>5. SumOver(m, CartLines) = SumOver(m, T)
    BY <2>0, <2>1, <2>3, SumSupport
  <2>6. SumOver(m, T) = SumOver(d, T)
    BY <2>0, <2>1, <2>3, <2>4, SumCompare
  <2>7. SumOver(w, CartLines) = SumOver(f, CartLines) + SumOver(m, CartLines)
    BY <2>0, <2>1, SumCompare
  <2> QED
    BY <2>2, <2>5, <2>6, <2>7, CartUnits DEF f, w
<1>2. Cart!Units(tc_cart) \in [Variants -> Nat]
  BY CartUnits
<1> HIDE DEF Cart!Units
<1> QED
  BY <1>1, <1>2 DEF Cart!Plus

\* What a cart is: a new one has no order, any other has one; no draft is of a tab.
CartKinds ==
    /\ (tc_on.kind = "new") = (tc_on.order = None)
    /\ tc_draft # Cart!NoDraft =>
         /\ (tc_draft.on.kind = "new") = (tc_draft.on.order = None)
         /\ tc_draft.on.kind # "tab"

\* A tab in the cart is as it was loaded, above what the kitchen has, or just saved.
CartTab ==
    tc_on.kind = "tab" =>
        /\ tc_row[tc_on.order] # Cart!NoOrder
        /\ tc_pressed => tc_row[tc_on.order].items = tc_cart
        /\ ~tc_pressed =>
             /\ tc_row[tc_on.order].status = "open_tab"
             /\ \A l \in CartLines : tc_base[l] = tc_row[tc_on.order].items[l].qty
             /\ ~tc_on.mixed => CartKeeps(tc_row[tc_on.order].items, tc_cart)

\* Until a sent cart comes back from its draft: a cart that can be pressed was not sent, and
\* the order it resumes is still held; so is that of a draft that was not sent.
CartUnsent ==
    ~tc_revived =>
        /\ ~tc_twice
        /\ ~tc_pressed => /\ tc_number \notin tc_sent
                          /\ tc_on.kind = "held" => tc_row[tc_on.order].status = "held"
        /\ tc_draft # Cart!NoDraft /\ tc_draft.number \notin tc_sent
             /\ tc_draft.on.kind = "held" => tc_row[tc_draft.on.order].status = "held"

\* What is not placed was not told, and what is was told as it is.
CartTold ==
    ~tc_revived =>
        /\ \A o \in Tabs : o \notin Cart!Placed => tc_told[o] = Cart!Zero
        /\ Cart!RegisterAgrees

CartIInv == Cart!TypeOK /\ CartKinds /\ CartTab /\ CartUnsent /\ CartTold

\* An edit keeps what the cart is, and a tab above what the kitchen has.
CartEdited ==
    /\ Cart!Ready /\ tc_cart' \in Cart!Quantities /\ tc_on' \in Cart!Source
    /\ tc_on'.kind = tc_on.kind /\ tc_on'.order = tc_on.order
    /\ UNCHANGED <<tc_base, tc_number, tc_begun, tc_pressed, tc_draft, tc_row, tc_told, tc_sent,
                   tc_twice, tc_revived, tc_folded>>
    /\ tc_on.kind = "tab" /\ ~tc_on'.mixed =>
         ~tc_on.mixed /\ CartKeeps(tc_row[tc_on.order].items, tc_cart')

LEMMA CartEdits ==
    ASSUME CartBounds, CartIInv,
           \/ \E v \in Variants : Cart!Add(v)
           \/ \E l \in CartLines, q \in 0..MaxQty :
                Cart!SetQuantity(l, q) \/ \E v \in Variants : Cart!UpdateLine(l, q, v)
           \/ \E l \in CartLines : Cart!RemoveLine(l)
    PROVE  CartEdited
<1> DEFINE items == tc_row[tc_on.order].items
<1>1. /\ tc_cart \in Cart!Quantities /\ tc_on \in Cart!Source
      /\ tc_base \in [CartLines -> 0..MaxQty] /\ MaxQty \in Nat
      /\ \A l \in CartLines :
           /\ tc_cart[l] # Cart!NoLine => tc_cart[l] \in Cart!Line
           /\ tc_cart[l] \in Cart!Line \cup {Cart!NoLine}
           /\ tc_cart[l].qty \in 0..MaxQty /\ tc_base[l] \in 0..MaxQty
  BY CartLine DEF CartIInv, Cart!TypeOK, Cart!Quantities, CartBounds
<1>2. ASSUME tc_on.kind = "tab", ~tc_pressed
      PROVE  /\ items \in Cart!Quantities /\ tc_on.order \in Tabs
             /\ tc_on.order \in Tabs \ Cart!Orders0
             /\ \A l \in CartLines : tc_base[l] = items[l].qty
             /\ \A l \in CartLines : items[l] # Cart!NoLine => tc_base[l] > 0
             /\ ~tc_on.mixed => CartKeeps(items, tc_cart)
  <2>1. tc_on.order \in Tabs /\ tc_row[tc_on.order] # Cart!NoOrder
    BY <1>2 DEF CartIInv, Cart!TypeOK, Cart!Source, CartTab, CartKinds
  <2>2. items \in Cart!Quantities
    BY <2>1 DEF CartIInv, Cart!TypeOK
  <2>3. \A l \in CartLines : items[l] # Cart!NoLine => items[l].qty \in 1..MaxQty
    BY <2>2, CartLine
  <2> QED
    BY <1>2, <2>1, <2>2, <2>3 DEF CartIInv, CartTab, Cart!Orders0, CartBounds
<1> HIDE DEF items
<1>3. ASSUME NEW v \in Variants, Cart!Add(v) PROVE CartEdited
  <2>0. Cart!Ready /\ ~tc_pressed
    BY <1>3 DEF Cart!Add, Cart!Edits, Cart!Ready
  <2>1. ASSUME NEW l \in CartLines, tc_cart[l] # Cart!NoLine,
               Cart!Edits([tc_cart EXCEPT ![l].qty = @ + 1])
        PROVE  CartEdited
    <3>1. /\ tc_cart' = [tc_cart EXCEPT ![l].qty = @ + 1]
          /\ tc_cart'[l].qty <= MaxQty
      BY <2>1 DEF Cart!Edits
    <3>2. tc_cart[l].v \in Variants /\ tc_cart[l].qty \in 1..MaxQty
      BY <1>1, <2>1, CartLine
    <3>3. /\ tc_cart' = [tc_cart EXCEPT ![l] = [tc_cart[l] EXCEPT !.qty = @ + 1]]
          /\ [tc_cart[l] EXCEPT !.qty = @ + 1]
                  = [v |-> tc_cart[l].v, qty |-> tc_cart[l].qty + 1]
      BY <1>1, <2>1, <3>1 DEF Cart!Line
    <3>4. [v |-> tc_cart[l].v, qty |-> tc_cart[l].qty + 1] \in Cart!Line
      BY <1>1, <3>1, <3>2, <3>3 DEF Cart!Line, Cart!Quantities
    <3>5. tc_cart' \in Cart!Quantities
      BY <1>1, <3>3, <3>4 DEF Cart!Quantities
    <3>6. ASSUME tc_on.kind = "tab", ~tc_on.mixed PROVE CartKeeps(items, tc_cart')
      <4>1. /\ tc_cart'[l] = [v |-> tc_cart[l].v, qty |-> tc_cart[l].qty + 1]
            /\ tc_cart'[l] # Cart!NoLine
            /\ \A k \in CartLines : k # l => tc_cart'[k] = tc_cart[k]
        BY <1>1, <3>3, <3>4, <3>5, CartLine DEF Cart!Quantities, Cart!Line, Cart!NoLine
      <4> QED
        BY <1>2, <2>0, <3>2, <3>6, <4>1, CartLine DEF CartKeeps
    <3> QED
      BY <1>1, <1>3, <2>1, <3>5, <3>6 DEF CartEdited, Cart!Edits, Cart!carts, Cart!Add, items
  <2>2. ASSUME NEW l \in Cart!Fresh, Cart!Edits([tc_cart EXCEPT ![l] = [v |-> v, qty |-> 1]])
        PROVE  CartEdited
    <3>1. /\ tc_cart' = [tc_cart EXCEPT ![l] = [v |-> v, qty |-> 1]]
          /\ l \in CartLines /\ \A o \in Tabs \ Cart!Orders0 : tc_row[o].items[l] = Cart!NoLine
      BY <2>2 DEF Cart!Edits, Cart!Fresh
    <3>2. tc_cart'[l].qty <= MaxQty /\ tc_cart'[l] = [v |-> v, qty |-> 1]
      BY <1>1, <2>2, <3>1 DEF Cart!Edits, Cart!Quantities
    <3>3. tc_cart' \in Cart!Quantities
      BY <1>1, <3>1, <3>2 DEF Cart!Quantities, Cart!Line
    <3>4. ASSUME tc_on.kind = "tab", ~tc_on.mixed PROVE CartKeeps(items, tc_cart')
      <4>1. items[l] = Cart!NoLine /\ \A k \in CartLines : k # l => tc_cart'[k] = tc_cart[k]
        BY <1>1, <1>2, <2>0, <3>1, <3>4 DEF Cart!Quantities, items
      <4> QED
        BY <1>2, <2>0, <3>4, <4>1 DEF CartKeeps
    <3> QED
      BY <1>1, <1>3, <2>2, <3>3, <3>4 DEF CartEdited, Cart!Edits, Cart!carts, Cart!Add, items
  <2> QED
    BY <1>3, <2>1, <2>2 DEF Cart!Add, Cart!Used
<1>4. ASSUME NEW l \in CartLines, NEW q \in 0..MaxQty, Cart!SetQuantity(l, q) PROVE CartEdited
  <2> DEFINE n == Cart!Clamp(l, q)
             d == IF n = 0 THEN Cart!NoLine ELSE [v |-> tc_cart[l].v, qty |-> n]
  <2>0. Cart!Ready /\ ~tc_pressed /\ tc_cart[l] # Cart!NoLine /\ l \in CartLines
    BY <1>4 DEF Cart!SetQuantity, Cart!Edits, Cart!Ready, Cart!Used
  <2>1. n \in 0..MaxQty /\ n >= tc_base[l]
    BY <1>1 DEF Cart!Clamp
  <2>2. tc_cart[l].v \in Variants /\ tc_cart[l].qty \in 1..MaxQty
    BY <1>1, <2>0, CartLine
  <2>3. tc_cart' = [tc_cart EXCEPT ![l] = d]
    <3>1. tc_cart' = [tc_cart EXCEPT ![l] = IF n = 0 THEN Cart!NoLine
                                             ELSE [tc_cart[l] EXCEPT !.qty = n]]
      BY <1>4 DEF Cart!SetQuantity, Cart!Edits
    <3>2. [tc_cart[l] EXCEPT !.qty = n] = [v |-> tc_cart[l].v, qty |-> n]
      BY <1>1, <2>0 DEF Cart!Line
    <3> QED
      BY <3>1, <3>2
  <2>4. d \in Cart!Line \cup {Cart!NoLine}
    BY <1>1, <2>1, <2>2 DEF Cart!Line
  <2>5. tc_cart' \in Cart!Quantities
    BY <1>1, <2>3, <2>4 DEF Cart!Quantities
  <2>6. ASSUME tc_on.kind = "tab", ~tc_on.mixed PROVE CartKeeps(items, tc_cart')
    <3>1. tc_cart'[l] = d /\ \A k \in CartLines : k # l => tc_cart'[k] = tc_cart[k]
      BY <1>1, <2>3 DEF Cart!Quantities
    <3>2. items[l] # Cart!NoLine => d # Cart!NoLine /\ d.v = tc_cart[l].v
             /\ items[l].qty <= d.qty
      BY <1>1, <1>2, <2>0, <2>1, <2>6 DEF Cart!NoLine
    <3> HIDE DEF d
    <3> QED
      BY <1>2, <2>0, <2>6, <3>1, <3>2 DEF CartKeeps
  <2> QED
    BY <1>1, <1>4, <2>5, <2>6 DEF CartEdited, Cart!Edits, Cart!carts, Cart!SetQuantity, items
<1>5. ASSUME NEW l \in CartLines, NEW q \in 0..MaxQty, NEW v \in Variants,
             Cart!UpdateLine(l, q, v)
      PROVE  CartEdited
  <2> DEFINE twins == {k \in Cart!Used(tc_cart) \ {l} : tc_cart[k].v = v}
             n == Cart!Clamp(l, q)
             qty == n + Cart!SumOf([k \in CartLines |-> tc_cart[k].qty], twins)
             c == [k \in CartLines |-> IF k = l THEN [v |-> v, qty |-> qty]
                                       ELSE IF k \in twins THEN Cart!NoLine ELSE tc_cart[k]]
  <2>0. Cart!Ready /\ ~tc_pressed /\ tc_cart[l] # Cart!NoLine /\ n > 0
    BY <1>5 DEF Cart!UpdateLine, Cart!Edits, Cart!Ready, Cart!Used
  <2>1. n \in 0..MaxQty /\ n >= tc_base[l]
    BY <1>1 DEF Cart!Clamp
  <2>2. qty \in Nat /\ qty >= n
    <3>1. IsFiniteSet(twins) /\ twins \subseteq CartLines
      BY FS_Subset DEF CartBounds, Cart!Used
    <3> DEFINE f == [k \in CartLines |-> tc_cart[k].qty]
    <3>2. \A k \in twins : f[k] \in Nat
      BY <1>1, <3>1
    <3> HIDE DEF f, twins
    <3>3. SumOver(f, twins) \in Nat
      BY <3>1, <3>2, SumType
    <3> QED
      BY <2>1, <3>3, CartSum DEF f
  <2>3. /\ tc_cart' = c /\ Cart!Edits(c)
        /\ tc_on' = [tc_on EXCEPT !.mixed = @ \/ (\E k \in twins : tc_base[k] > 0)
                                            \/ (tc_base[l] > 0 /\ v # tc_cart[l].v)]
    BY <1>5 DEF Cart!UpdateLine, Cart!Edits
  <2> HIDE DEF qty, n
  <2>4. c[l].qty = qty /\ qty <= MaxQty
    BY <2>3 DEF Cart!Edits
  <2>5. c \in Cart!Quantities
    BY <1>1, <2>0, <2>1, <2>2, <2>4 DEF Cart!Quantities, Cart!Line
  <2>6. /\ tc_on' \in Cart!Source /\ tc_on'.kind = tc_on.kind /\ tc_on'.order = tc_on.order
        /\ ~tc_on'.mixed => ~tc_on.mixed /\ (\A k \in twins : ~(tc_base[k] > 0))
                              /\ (tc_base[l] > 0 => v = tc_cart[l].v)
    BY <1>1, <2>3 DEF Cart!Source
  <2>7. ASSUME tc_on.kind = "tab", ~tc_on'.mixed PROVE CartKeeps(items, c)
    <3> SUFFICES ASSUME NEW k \in CartLines, items[k] # Cart!NoLine
                 PROVE  c[k] # Cart!NoLine /\ c[k].v = items[k].v /\ items[k].qty <= c[k].qty
      BY DEF CartKeeps
    <3>1. tc_base[k] > 0 /\ tc_base[k] = items[k].qty /\ tc_cart[k].v = items[k].v
          /\ tc_cart[k] # Cart!NoLine /\ items[k].qty <= tc_cart[k].qty
      BY <1>2, <2>0, <2>6, <2>7 DEF CartKeeps
    <3>2. CASE k = l
      <4>1. c[l] = [v |-> v, qty |-> qty] /\ c[l] # Cart!NoLine /\ v = tc_cart[l].v
        BY <2>0, <2>1, <2>2, <2>6, <2>7, <3>1, <3>2 DEF Cart!NoLine
      <4> QED
        BY <1>1, <2>1, <2>2, <3>1, <3>2, <4>1
    <3>3. CASE k # l
      <4>1. k \notin twins
        BY <2>6, <2>7, <3>1
      <4> QED
        BY <3>1, <3>3, <4>1
    <3> QED
      BY <3>2, <3>3
  <2> HIDE DEF c, twins
  <2> QED
    BY <1>1, <2>3, <2>5, <2>6, <2>7 DEF CartEdited, Cart!Edits, Cart!carts, items
<1>6. ASSUME NEW l \in CartLines, Cart!RemoveLine(l) PROVE CartEdited
  <2>0. Cart!Ready /\ ~tc_pressed /\ tc_base[l] = 0
        /\ tc_cart' = [tc_cart EXCEPT ![l] = Cart!NoLine]
    BY <1>6 DEF Cart!RemoveLine, Cart!Edits, Cart!Ready
  <2>1. tc_cart' \in Cart!Quantities
    BY <1>1, <2>0 DEF Cart!Quantities
  <2>2. ASSUME tc_on.kind = "tab", ~tc_on.mixed PROVE CartKeeps(items, tc_cart')
    <3>1. items[l] = Cart!NoLine /\ \A k \in CartLines : k # l => tc_cart'[k] = tc_cart[k]
      BY <1>1, <1>2, <2>0, <2>2 DEF Cart!Quantities
    <3> QED
      BY <1>2, <2>0, <2>2, <3>1 DEF CartKeeps
  <2> QED
    BY <1>1, <1>6, <2>1, <2>2 DEF CartEdited, Cart!Edits, Cart!carts, Cart!RemoveLine, items
<1> QED
  BY <1>3, <1>4, <1>5, <1>6

\* A save writes the cart to its order; unless it is held, the server is told, and the
\* cart counts as sent.
CartSaved(o, st) ==
    /\ Cart!Ready /\ o \in Cart!Ids /\ tc_pressed' = TRUE
    /\ st \in {"held", "open_tab", "paid"}
    /\ Cart!SaveRow(o, st)
    /\ UNCHANGED <<tc_cart, tc_on, tc_base, tc_number, tc_begun, tc_draft, tc_revived>>
    /\ st = "held" => /\ tc_on.kind # "tab"
                      /\ UNCHANGED <<tc_told, tc_sent, tc_twice, tc_folded>>
    /\ st # "held" =>
         /\ Cart!Submit(o)
         /\ tc_told' = IF tc_on.kind = "tab"
                         THEN [tc_told EXCEPT ![o] = Cart!Plus(tc_told[o], Cart!Delta)]
                         ELSE IF tc_told[o] = Cart!Zero
                                THEN [tc_told EXCEPT ![o] = Cart!Units(tc_cart)] ELSE tc_told

CartStep ==
    \/ CartEdited
    \/ \E o \in Tabs, st \in {"held", "open_tab", "paid"} : CartSaved(o, st)
    \/ \E o \in Tabs : Cart!Resume(o)
    \/ Cart!Render
    \/ Cart!Persist
    \/ Cart!Kill
    \/ UNCHANGED Cart!vars

LEMMA CartSaves ==
    ASSUME CartBounds, CartIInv, Cart!Hold \/ Cart!Send \/ Cart!SaveToTab \/ Cart!Pay
    PROVE  \E o \in Tabs, st \in {"held", "open_tab", "paid"} : CartSaved(o, st)
<1>1. /\ tc_on \in Cart!Source
      /\ (tc_on.kind = "new") = (tc_on.order = None)
      /\ tc_told \in [Tabs -> [Variants -> Nat]]
      /\ Cart!Ids \subseteq Tabs
      /\ tc_on.kind = "tab" => Cart!Ids = {tc_on.order} /\ tc_on.order \in Tabs
  BY DEF CartIInv, Cart!TypeOK, CartKinds, Cart!Source, Cart!Ids, Cart!Orders0
<1>2. CASE Cart!Hold
  <2>1. PICK o \in Cart!Ids : Cart!SaveRow(o, "held")
    BY <1>2 DEF Cart!Hold
  <2>2. CartSaved(o, "held")
    BY <1>2, <2>1 DEF Cart!Hold, CartSaved, Cart!IsTab, Cart!carts
  <2> QED
    BY <1>1, <2>1, <2>2
<1>3. CASE Cart!Send
  <2>1. PICK o \in Cart!Ids :
          /\ Cart!SaveRow(o, "open_tab")
          /\ tc_told' = IF tc_told[o] = Cart!Zero
                          THEN [tc_told EXCEPT ![o] = Cart!Units(tc_cart)] ELSE tc_told
          /\ Cart!Submit(o)
    BY <1>3 DEF Cart!Send
  <2>2. CartSaved(o, "open_tab")
    BY <1>3, <2>1 DEF Cart!Send, CartSaved, Cart!IsTab, Cart!carts
  <2> QED
    BY <1>1, <2>1, <2>2
<1>4. CASE Cart!SaveToTab
  <2>1. tc_on.kind = "tab" /\ tc_on.order \in Cart!Ids /\ tc_on.order \in Tabs
    BY <1>1, <1>4 DEF Cart!SaveToTab, Cart!IsTab
  <2>2. tc_told' = [tc_told EXCEPT ![tc_on.order] =
                      Cart!Plus(tc_told[tc_on.order], Cart!Delta)]
    BY <1>4 DEF Cart!SaveToTab
  <2>3. CartSaved(tc_on.order, "open_tab")
    BY <1>4, <2>1, <2>2 DEF Cart!SaveToTab, CartSaved, Cart!IsTab, Cart!carts
  <2> QED
    BY <2>1, <2>3
<1>5. CASE Cart!Pay
  <2>1. PICK o \in Cart!Ids :
          /\ Cart!SaveRow(o, "paid")
          /\ tc_told' = IF tc_on.kind = "tab"
                          THEN [tc_told EXCEPT ![o] = Cart!Plus(tc_told[o], Cart!Delta)]
                          ELSE IF tc_told[o] = Cart!Zero
                                 THEN [tc_told EXCEPT ![o] = Cart!Units(tc_cart)] ELSE tc_told
          /\ Cart!Submit(o)
    BY <1>5 DEF Cart!Pay, Cart!IsTab
  <2>2. CartSaved(o, "paid")
    BY <1>5, <2>1 DEF Cart!Pay, CartSaved, Cart!carts
  <2> QED
    BY <1>1, <2>1, <2>2
<1> QED
  BY <1>2, <1>3, <1>4, <1>5

LEMMA CartMoves ==
    ASSUME CartBounds, CartIInv, [Cart!Next]_(Cart!vars)
    PROVE  CartStep
<1>1. ASSUME \/ \E v \in Variants : Cart!Add(v)
             \/ \E l \in CartLines, q \in 0..MaxQty :
                  Cart!SetQuantity(l, q) \/ \E v \in Variants : Cart!UpdateLine(l, q, v)
             \/ \E l \in CartLines : Cart!RemoveLine(l)
      PROVE  CartEdited
  BY <1>1, CartEdits
<1>2. ASSUME Cart!Hold \/ Cart!Send \/ Cart!SaveToTab \/ Cart!Pay
      PROVE  \E o \in Tabs, st \in {"held", "open_tab", "paid"} : CartSaved(o, st)
  BY <1>2, CartSaves
<1> QED
  BY <1>1, <1>2 DEF Cart!Next, CartStep

\* What a ready cart's draft is.
LEMMA CartReady ==
    ASSUME CartIInv, Cart!Ready, tc_draft # Cart!NoDraft
    PROVE  /\ tc_draft.number = tc_number /\ tc_draft.on = tc_on /\ tc_on.kind # "tab"
           /\ tc_draft.cart = tc_cart
BY DEF Cart!Ready, Cart!Kept, Cart!IsTab, CartIInv, Cart!NoDraft

LEMMA CartTypesOn ==
    ASSUME CartBounds, CartIInv, CartStep
    PROVE  Cart!TypeOK'
<1>1. Cart!TypeOK /\ MaxQty \in Nat /\ MaxCarts \in Nat /\ MaxCarts >= 1
  BY DEF CartIInv, CartBounds
<1>2. CASE CartEdited
  BY <1>1, <1>2 DEF CartEdited, Cart!TypeOK
<1>3. ASSUME NEW o \in Tabs, NEW st \in {"held", "open_tab", "paid"}, CartSaved(o, st)
      PROVE  Cart!TypeOK'
  <2>1. /\ Cart!Delta \in [Variants -> Nat] /\ Cart!Units(tc_cart) \in [Variants -> Nat]
        /\ tc_told[o] \in [Variants -> Nat]
    BY <1>1, CartDeltaType, CartUnits DEF Cart!TypeOK
  <2>2. Cart!Plus(tc_told[o], Cart!Delta) \in [Variants -> Nat]
    <3> HIDE DEF Cart!Delta
    <3> QED
      BY <2>1 DEF Cart!Plus
  <2>3. tc_told' \in [Tabs -> [Variants -> Nat]]
    <3> HIDE DEF Cart!Delta, Cart!Units, Cart!Plus
    <3> QED
      BY <1>1, <1>3, <2>1, <2>2 DEF CartSaved, Cart!TypeOK
  <2>4. tc_row' \in [Tabs -> {Cart!NoOrder} \cup
                       [status : {"held", "open_tab", "paid"}, items : Cart!Quantities]]
    BY <1>1, <1>3 DEF CartSaved, Cart!TypeOK, Cart!SaveRow
  <2>5. tc_sent' \subseteq 1..tc_begun /\ tc_folded' \subseteq Tabs /\ tc_twice' \in BOOLEAN
    BY <1>1, <1>3 DEF CartSaved, Cart!TypeOK, Cart!Submit
  <2> QED
    BY <1>1, <1>3, <2>3, <2>4, <2>5 DEF CartSaved, Cart!TypeOK
<1>4. ASSUME NEW o \in Tabs, Cart!Resume(o) PROVE Cart!TypeOK'
  <2>1. tc_row[o].items \in Cart!Quantities
    BY <1>1, <1>4 DEF Cart!TypeOK, Cart!Resume
  <2>2. \A l \in CartLines : tc_row[o].items[l].qty \in 0..MaxQty
    BY <2>1, CartLine
  <2>3. /\ tc_cart' \in Cart!Quantities /\ tc_on' \in Cart!Source
        /\ tc_base' \in [CartLines -> 0..MaxQty]
    <3>1. CASE tc_row[o].status = "held"
      <4>1. /\ tc_cart' = tc_row[o].items /\ tc_base' = [l \in CartLines |-> 0]
            /\ tc_on' = [kind |-> "held", order |-> o, mixed |-> FALSE]
        BY <1>4, <3>1 DEF Cart!Resume, Cart!Load
      <4> QED
        BY <1>1, <2>1, <4>1 DEF Cart!Source
    <3>2. CASE tc_row[o].status # "held"
      <4>1. /\ tc_cart' = tc_row[o].items
            /\ tc_base' = [l \in CartLines |-> tc_row[o].items[l].qty]
            /\ tc_on' = [kind |-> "tab", order |-> o, mixed |-> FALSE]
        BY <1>4, <3>2 DEF Cart!Resume, Cart!Load
      <4> QED
        BY <1>1, <2>1, <2>2, <4>1 DEF Cart!Source
    <3> QED
      BY <3>1, <3>2
  <2>4. tc_begun' \in 1..MaxCarts /\ tc_number' \in 1..tc_begun'
           /\ 1..tc_begun \subseteq 1..tc_begun'
    BY <1>1, <1>4 DEF Cart!Resume, Cart!Begin, Cart!TypeOK
  <2>5. UNCHANGED <<tc_pressed, tc_draft, tc_row, tc_told, tc_sent, tc_twice, tc_revived,
           tc_folded>>
    BY <1>4 DEF Cart!Resume
  <2> QED
    BY <1>1, <2>3, <2>4, <2>5 DEF Cart!TypeOK
<1>5. Cart!Empty \in Cart!Quantities /\ Cart!Plain \in Cart!Source
      /\ [l \in CartLines |-> 0] \in [CartLines -> 0..MaxQty]
  BY <1>1 DEF Cart!Empty, Cart!Quantities, Cart!Plain, Cart!Source
<1>6. CASE Cart!Render
  <2>1. tc_begun' \in 1..MaxCarts /\ tc_number' \in 1..tc_begun'
           /\ 1..tc_begun \subseteq 1..tc_begun'
    BY <1>1, <1>6 DEF Cart!Render, Cart!Begin, Cart!TypeOK
  <2> HIDE DEF Cart!Empty, Cart!Plain
  <2> QED
    BY <1>1, <1>5, <1>6, <2>1 DEF Cart!TypeOK, Cart!Render
<1>7. CASE Cart!Persist
  BY <1>1, <1>7 DEF Cart!TypeOK, Cart!Persist, Cart!Kept, Cart!carts
<1>8. CASE Cart!Kill
  <2>1. CASE tc_draft = Cart!NoDraft
    <3>1. tc_begun' \in 1..MaxCarts /\ tc_number' \in 1..tc_begun'
          /\ 1..tc_begun \subseteq 1..tc_begun'
      BY <1>1, <1>8, <2>1 DEF Cart!Kill, Cart!Begin, Cart!TypeOK
    <3> HIDE DEF Cart!Empty, Cart!Plain
    <3> QED
      BY <1>1, <1>5, <1>8, <2>1, <3>1 DEF Cart!TypeOK, Cart!Kill
  <2>2. CASE tc_draft # Cart!NoDraft
    BY <1>1, <1>5, <1>8, <2>2 DEF Cart!TypeOK, Cart!Kill
  <2> QED
    BY <2>1, <2>2
<1>9. CASE UNCHANGED Cart!vars
  BY <1>1, <1>9 DEF Cart!TypeOK, Cart!vars
<1> QED
  BY <1>2, <1>3, <1>4, <1>6, <1>7, <1>8, <1>9 DEF CartStep

LEMMA CartKindsOn ==
    ASSUME CartBounds, CartIInv, CartStep
    PROVE  CartKinds'
<1>1. CartKinds /\ tc_on \in Cart!Source /\ None \notin Tabs
  BY DEF CartIInv, CartBounds, Cart!TypeOK
<1>2. CASE CartEdited
  BY <1>1, <1>2 DEF CartEdited, CartKinds, Cart!NoDraft
<1>3. ASSUME NEW o \in Tabs, NEW st \in {"held", "open_tab", "paid"}, CartSaved(o, st)
      PROVE  CartKinds'
  BY <1>1, <1>3 DEF CartSaved, CartKinds
<1>4. ASSUME NEW o \in Tabs, Cart!Resume(o) PROVE CartKinds'
  <2>1. tc_on'.kind # "new" /\ tc_on'.order # None /\ tc_draft' = tc_draft
    BY <1>1, <1>4 DEF Cart!Resume, Cart!Load
  <2> QED
    BY <1>1, <2>1 DEF CartKinds
<1>5. CASE Cart!Render
  BY <1>1, <1>5 DEF Cart!Render, Cart!Plain, CartKinds
<1>6. CASE Cart!Persist
  <2>1. tc_on' = tc_on /\ tc_draft' = Cart!Kept
    BY <1>6 DEF Cart!Persist
  <2>2. Cart!Kept # Cart!NoDraft => Cart!Kept.on = tc_on /\ tc_on.kind # "tab"
    BY DEF Cart!Kept, Cart!IsTab
  <2> QED
    BY <1>1, <2>1, <2>2 DEF CartKinds
<1>7. CASE Cart!Kill
  BY <1>1, <1>7 DEF Cart!Kill, Cart!Plain, CartKinds
<1>8. CASE UNCHANGED Cart!vars
  BY <1>1, <1>8 DEF CartKinds, Cart!vars
<1> QED
  BY <1>2, <1>3, <1>4, <1>5, <1>6, <1>7, <1>8 DEF CartStep

LEMMA CartTabOn ==
    ASSUME CartBounds, CartIInv, CartStep
    PROVE  CartTab'
<1>1. CartTab /\ CartKinds /\ Cart!TypeOK
  BY DEF CartIInv
<1>2. CASE CartEdited
  BY <1>1, <1>2 DEF CartEdited, CartTab, CartKeeps, Cart!Ready
<1>3. ASSUME NEW o \in Tabs, NEW st \in {"held", "open_tab", "paid"}, CartSaved(o, st)
      PROVE  CartTab'
  <2>1. tc_row' = [tc_row EXCEPT ![o] = [status |-> st, items |-> tc_cart]]
        /\ tc_pressed' = TRUE /\ tc_on' = tc_on /\ tc_cart' = tc_cart
    BY <1>3 DEF CartSaved, Cart!SaveRow
  <2>2. tc_on.kind = "tab" => tc_on.order = o
    BY <1>1, <1>3 DEF CartSaved, Cart!Ids, CartKinds
  <2>3. tc_row'[o] = [status |-> st, items |-> tc_cart] /\ tc_row'[o] # Cart!NoOrder
    BY <1>1, <2>1 DEF Cart!TypeOK, Cart!NoOrder
  <2> QED
    BY <2>1, <2>2, <2>3 DEF CartTab
<1>4. ASSUME NEW o \in Tabs, Cart!Resume(o) PROVE CartTab'
  <2>1. /\ tc_row' = tc_row /\ tc_row[o] # Cart!NoOrder /\ tc_pressed' = FALSE
        /\ tc_row[o].status \in {"held", "open_tab"}
    BY <1>1, <1>4 DEF Cart!Resume, Cart!Ready, Cart!TypeOK
  <2>2. CASE tc_row[o].status = "held"
    BY <1>4, <2>2 DEF Cart!Resume, Cart!Load, CartTab
  <2>3. CASE tc_row[o].status # "held"
    <3>1. /\ tc_cart' = tc_row[o].items /\ tc_on'.kind = "tab" /\ tc_on'.order = o
          /\ tc_base' = [l \in CartLines |-> tc_row[o].items[l].qty]
      BY <1>4, <2>3 DEF Cart!Resume, Cart!Load
    <3>2. tc_row[o].items \in Cart!Quantities
      BY <1>1, <2>1 DEF Cart!TypeOK
    <3>3. CartKeeps(tc_row[o].items, tc_row[o].items)
      <4>1. \A l \in CartLines : tc_row[o].items[l].qty \in 0..MaxQty
        BY <3>2, CartLine
      <4> QED
        BY <4>1 DEF CartKeeps, CartBounds
    <3>4. CartKeeps(tc_row[o].items, tc_cart)'
      BY <2>1, <3>1, <3>3 DEF CartKeeps
    <3> QED
      BY <2>1, <2>3, <3>1, <3>4 DEF CartTab, CartKeeps
  <2> QED
    BY <2>2, <2>3
<1>5. CASE Cart!Render
  BY <1>5 DEF Cart!Render, Cart!Plain, CartTab
<1>6. CASE Cart!Persist
  BY <1>1, <1>6 DEF Cart!Persist, CartTab, CartKeeps
<1>7. CASE Cart!Kill
  BY <1>1, <1>7 DEF Cart!Kill, Cart!Plain, CartKinds, CartTab
<1>8. CASE UNCHANGED Cart!vars
  BY <1>1, <1>8 DEF CartTab, CartKeeps, Cart!vars
<1> QED
  BY <1>2, <1>3, <1>4, <1>5, <1>6, <1>7, <1>8 DEF CartStep

LEMMA CartUnsentOn ==
    ASSUME CartBounds, CartIInv, CartStep
    PROVE  CartUnsent'
<1> SUFFICES ASSUME ~tc_revived'
             PROVE  /\ ~tc_twice'
                    /\ ~tc_pressed' =>
                         /\ tc_number' \notin tc_sent'
                         /\ tc_on'.kind = "held" => tc_row'[tc_on'.order].status = "held"
                    /\ tc_draft' # Cart!NoDraft /\ tc_draft'.number \notin tc_sent'
                         /\ tc_draft'.on.kind = "held" =>
                              tc_row'[tc_draft'.on.order].status = "held"
  BY DEF CartUnsent
<1>1. CartUnsent /\ CartKinds /\ CartTab /\ Cart!TypeOK
  BY DEF CartIInv
<1>2. CASE CartEdited
  BY <1>1, <1>2 DEF CartEdited, CartUnsent
<1>3. ASSUME NEW o \in Tabs, NEW st \in {"held", "open_tab", "paid"}, CartSaved(o, st)
      PROVE  /\ ~tc_twice' /\ tc_pressed'
             /\ tc_draft' # Cart!NoDraft /\ tc_draft'.number \notin tc_sent'
                  /\ tc_draft'.on.kind = "held" =>
                       tc_row'[tc_draft'.on.order].status = "held"
  <2>1. /\ tc_row' = [tc_row EXCEPT ![o] = [status |-> st, items |-> tc_cart]]
        /\ tc_pressed' = TRUE /\ tc_draft' = tc_draft /\ ~tc_revived /\ ~tc_pressed
        /\ Cart!Ready /\ tc_number \notin tc_sent /\ ~tc_twice
    BY <1>1, <1>3 DEF CartSaved, Cart!SaveRow, Cart!Ready, CartUnsent
  <2>2. ~tc_twice'
    <3>1. CASE st = "held"
      BY <1>3, <2>1, <3>1 DEF CartSaved
    <3>2. CASE st # "held"
      <4>1. tc_twice' = (tc_twice \/ tc_number \in tc_sent)
        BY <1>3, <3>2 DEF CartSaved, Cart!Submit
      <4> QED
        BY <2>1, <4>1
    <3> QED
      BY <3>1, <3>2
  <2>3. ASSUME tc_draft # Cart!NoDraft, tc_draft.number \notin tc_sent',
               tc_draft.on.kind = "held"
        PROVE  tc_row'[tc_draft.on.order].status = "held"
    <3>1. tc_draft.number = tc_number /\ tc_draft.on = tc_on
      BY <2>1, <2>3, CartReady
    <3>2. st = "held"
      BY <1>3, <2>3, <3>1 DEF CartSaved, Cart!Submit
    <3>3. o = tc_on.order
      BY <1>1, <1>3, <2>3, <3>1 DEF CartSaved, Cart!Ids, CartKinds
    <3>4. tc_row'[o] = [status |-> st, items |-> tc_cart]
      BY <1>1, <2>1 DEF Cart!TypeOK
    <3> QED
      BY <3>1, <3>2, <3>3, <3>4
  <2> QED
    BY <2>1, <2>2, <2>3
<1>4. ASSUME Cart!Begin, tc_sent' = tc_sent PROVE tc_number' \notin tc_sent'
  BY <1>1, <1>4 DEF Cart!Begin, Cart!TypeOK
<1>5. ASSUME NEW o \in Tabs, Cart!Resume(o)
      PROVE  /\ UNCHANGED <<tc_draft, tc_row, tc_sent, tc_twice, tc_revived>>
             /\ tc_number' \notin tc_sent'
             /\ tc_on'.kind = "held" => tc_row'[tc_on'.order].status = "held"
  BY <1>4, <1>5 DEF Cart!Resume, Cart!Load
<1>6. CASE Cart!Render
  BY <1>1, <1>4, <1>6 DEF Cart!Render, Cart!Plain, CartUnsent
<1>7. CASE Cart!Persist
  <2>1. /\ UNCHANGED <<tc_on, tc_number, tc_row, tc_sent, tc_twice, tc_revived, tc_pressed>>
        /\ ~tc_pressed /\ tc_draft' = Cart!Kept
    BY <1>7 DEF Cart!Persist, Cart!carts
  <2>2. Cart!Kept # Cart!NoDraft => Cart!Kept.on = tc_on /\ Cart!Kept.number = tc_number
    BY DEF Cart!Kept
  <2> HIDE DEF Cart!Kept, Cart!NoDraft
  <2> QED
    BY <1>1, <2>1, <2>2 DEF CartUnsent
<1>8. CASE Cart!Kill
  <2>1. CASE tc_draft = Cart!NoDraft
    BY <1>1, <1>4, <1>8, <2>1 DEF Cart!Kill, Cart!Plain, CartUnsent
  <2>2. CASE tc_draft # Cart!NoDraft
    <3>1. /\ tc_on' = tc_draft.on /\ tc_number' = tc_draft.number /\ ~tc_revived
          /\ tc_draft.number \notin tc_sent
          /\ UNCHANGED <<tc_draft, tc_row, tc_sent, tc_twice>>
      BY <1>1, <1>8, <2>2 DEF Cart!Kill, Cart!TypeOK
    <3> QED
      BY <1>1, <2>2, <3>1 DEF CartUnsent
  <2> QED
    BY <2>1, <2>2
<1>9. CASE UNCHANGED Cart!vars
  BY <1>1, <1>9 DEF CartUnsent, Cart!vars
<1>10. CASE \E o \in Tabs : Cart!Resume(o)
  BY <1>1, <1>5, <1>10 DEF CartUnsent
<1> QED
  BY <1>2, <1>3, <1>6, <1>7, <1>8, <1>9, <1>10 DEF CartStep

\* A save tells the server what it writes.
LEMMA CartTells ==
    ASSUME CartBounds, CartIInv, ~tc_revived, NEW o \in Tabs, CartSaved(o, "open_tab") \/
           CartSaved(o, "paid"), o \notin tc_folded'
    PROVE  tc_told'[o] = Cart!Units(tc_cart)
<1>1. CartUnsent /\ CartKinds /\ CartTab /\ CartTold /\ Cart!TypeOK
  BY DEF CartIInv
<1>2. /\ Cart!Ready /\ o \in Cart!Ids /\ Cart!Submit(o) /\ ~tc_pressed
      /\ tc_told' = IF tc_on.kind = "tab"
                      THEN [tc_told EXCEPT ![o] = Cart!Plus(tc_told[o], Cart!Delta)]
                      ELSE IF tc_told[o] = Cart!Zero
                             THEN [tc_told EXCEPT ![o] = Cart!Units(tc_cart)] ELSE tc_told
  BY DEF CartSaved, Cart!Ready
<1>3. o \notin tc_folded /\ ~tc_on.mixed
  BY <1>2 DEF Cart!Submit
<1> HIDE DEF Cart!Delta, Cart!Units, Cart!Plus, Cart!Zero
<1>4. CASE tc_on.kind = "tab"
  <2>1. /\ o = tc_on.order /\ tc_row[o] # Cart!NoOrder /\ tc_row[o].status = "open_tab"
        /\ \A l \in CartLines : tc_base[l] = tc_row[o].items[l].qty
        /\ CartKeeps(tc_row[o].items, tc_cart)
    BY <1>1, <1>2, <1>3, <1>4 DEF CartTab, CartKinds, Cart!Ids
  <2>2. tc_row[o].items \in Cart!Quantities /\ tc_cart \in Cart!Quantities
    BY <1>1, <2>1 DEF Cart!TypeOK
  <2>3. Cart!Units(tc_cart) = Cart!Plus(Cart!Units(tc_row[o].items), Cart!Delta)
    <3>1. \A l \in CartLines : tc_base[l] = tc_row[o].items[l].qty
      BY <2>1
    <3>2. CartKeeps(tc_row[o].items, tc_cart)
      BY <2>1
    <3> QED
      BY ONLY CartBounds, <2>2, <3>1, <3>2, CartDelta
  <2>4. o \in Cart!Placed
    BY <2>1 DEF Cart!Placed, Cart!Orders0
  <2>5. Cart!Units(tc_row[o].items) = tc_told[o]
    BY <1>1, <1>3, <2>4 DEF CartTold, Cart!RegisterAgrees
  <2> QED
    BY <1>1, <1>2, <1>4, <2>3, <2>5 DEF Cart!TypeOK
<1>5. CASE tc_on.kind # "tab"
  <2>1. o \notin Cart!Placed
    BY <1>1, <1>2, <1>5 DEF Cart!Placed, Cart!Ids, CartUnsent, CartKinds, Cart!Orders0,
                             Cart!TypeOK, Cart!Source
  <2>2. tc_told[o] = Cart!Zero
    BY <1>1, <2>1 DEF CartTold
  <2> QED
    BY <1>1, <1>2, <1>5, <2>2 DEF Cart!TypeOK
<1> QED
  BY <1>4, <1>5

LEMMA CartToldOn ==
    ASSUME CartBounds, CartIInv, CartStep
    PROVE  CartTold'
<1> SUFFICES ASSUME ~tc_revived'
             PROVE  /\ \A o \in Tabs : o \notin Cart!Placed' => tc_told'[o] = Cart!Zero
                    /\ \A o \in Cart!Placed' \ tc_folded' :
                         Cart!Units(tc_row'[o].items) = tc_told'[o]
  <2>1. ASSUME NEW o \in Tabs
        PROVE  (Cart!Units(tc_row[o].items))' = Cart!Units(tc_row'[o].items)
    BY DEF Cart!Units, Cart!Used, Cart!NoLine, Cart!SumOf, Cart!MapThenFoldSet
  <2> QED
    BY <2>1 DEF CartTold, Cart!RegisterAgrees, Cart!Zero, Cart!Placed
<1>1. CartUnsent /\ CartKinds /\ CartTab /\ CartTold /\ Cart!TypeOK
  BY DEF CartIInv
<1> HIDE DEF Cart!Delta, Cart!Units, Cart!Plus, Cart!Zero
<1>2. ASSUME UNCHANGED <<tc_row, tc_told, tc_folded>>, ~tc_revived
      PROVE  /\ \A o \in Tabs : o \notin Cart!Placed' => tc_told'[o] = Cart!Zero
             /\ \A o \in Cart!Placed' \ tc_folded' :
                  Cart!Units(tc_row'[o].items) = tc_told'[o]
  BY <1>1, <1>2 DEF CartTold, Cart!RegisterAgrees, Cart!Placed, Cart!Orders0
<1>3. ASSUME NEW o \in Tabs, NEW st \in {"held", "open_tab", "paid"}, CartSaved(o, st)
      PROVE  /\ \A p \in Tabs : p \notin Cart!Placed' => tc_told'[p] = Cart!Zero
             /\ \A p \in Cart!Placed' \ tc_folded' :
                  Cart!Units(tc_row'[p].items) = tc_told'[p]
  <2>1. /\ tc_row' = [tc_row EXCEPT ![o] = [status |-> st, items |-> tc_cart]]
        /\ ~tc_revived /\ ~tc_pressed /\ o \in Cart!Ids
    BY <1>3 DEF CartSaved, Cart!SaveRow, Cart!Ready
  <2>2. /\ tc_row'[o].status = st /\ tc_row'[o].items = tc_cart /\ tc_row'[o] # Cart!NoOrder
        /\ \A p \in Tabs : p # o => tc_row'[p] = tc_row[p]
    BY <1>1, <2>1 DEF Cart!TypeOK, Cart!NoOrder
  <2>3. /\ \A p \in Tabs : p # o => tc_told'[p] = tc_told[p]
        /\ \A p \in Tabs : p # o => (p \in tc_folded' <=> p \in tc_folded)
    BY <1>1, <1>3 DEF CartSaved, Cart!Submit, Cart!TypeOK
  <2>4. \A p \in Tabs : p # o => (p \in Cart!Placed' <=> p \in Cart!Placed)
    BY <2>2 DEF Cart!Placed, Cart!Orders0
  <2>5. CASE st = "held"
    <3>1. tc_on.kind # "tab" /\ tc_told' = tc_told
      BY <1>3, <2>5 DEF CartSaved
    <3>2. o \notin Cart!Placed
      BY <1>1, <2>1, <3>1 DEF Cart!Placed, Cart!Ids, CartUnsent, CartKinds, Cart!Orders0,
                               Cart!TypeOK, Cart!Source
    <3>3. tc_told'[o] = Cart!Zero
      BY <1>1, <2>1, <3>1, <3>2 DEF CartTold
    <3>4. o \notin Cart!Placed'
      BY <2>2, <2>5 DEF Cart!Placed
    <3>5. Cart!Placed' \subseteq Tabs
      BY DEF Cart!Placed, Cart!Orders0
    <3> QED
      BY <1>1, <2>1, <2>2, <2>3, <2>4, <3>3, <3>4, <3>5 DEF CartTold, Cart!RegisterAgrees
  <2>6. CASE st # "held"
    <3>1. o \in Cart!Placed'
      BY <2>2, <2>6 DEF Cart!Placed, Cart!Orders0
    <3>2. o \notin tc_folded' => tc_told'[o] = Cart!Units(tc_cart)
      BY <1>3, <2>1, <2>6, CartTells
    <3>3. Cart!Placed' \subseteq Tabs
      BY DEF Cart!Placed, Cart!Orders0
    <3> QED
      BY <1>1, <2>1, <2>2, <2>3, <2>4, <3>1, <3>2, <3>3 DEF CartTold, Cart!RegisterAgrees
  <2> QED
    BY <2>5, <2>6
<1>4. ASSUME \/ CartEdited \/ \E o \in Tabs : Cart!Resume(o)
             \/ Cart!Render \/ Cart!Persist \/ Cart!Kill \/ UNCHANGED Cart!vars
      PROVE  UNCHANGED <<tc_row, tc_told, tc_folded>> /\ ~tc_revived
  <2>1. UNCHANGED <<tc_row, tc_told, tc_folded>>
    BY <1>4 DEF CartEdited, Cart!Resume, Cart!Render, Cart!Persist, Cart!Kill, Cart!vars
  <2>2. ASSUME Cart!Kill, tc_draft # Cart!NoDraft PROVE ~tc_revived
    <3>1. tc_revived' = (tc_revived \/ tc_draft.number \in tc_sent)
      BY <2>2 DEF Cart!Kill
    <3> QED
      BY <3>1
  <2>3. ASSUME ~(Cart!Kill /\ tc_draft # Cart!NoDraft) PROVE tc_revived' = tc_revived
    BY <1>4, <2>3 DEF CartEdited, Cart!Resume, Cart!Render, Cart!Persist, Cart!Kill, Cart!vars
  <2> QED
    BY <2>1, <2>2, <2>3
<1> QED
  BY <1>2, <1>3, <1>4 DEF CartStep

LEMMA CartInitIInv == ASSUME CartBounds, Cart!Init PROVE CartIInv
<1>1. Cart!TypeOK
  <2>1. Cart!Empty \in Cart!Quantities /\ Cart!Plain \in Cart!Source
        /\ [l \in CartLines |-> 0] \in [CartLines -> 0..MaxQty]
        /\ Cart!Zero \in [Variants -> Nat]
    BY DEF Cart!Empty, Cart!Quantities, Cart!Plain, Cart!Source, Cart!Zero, CartBounds
  <2>2. 1 \in 1..MaxCarts /\ 1 \in 1..1
    BY DEF CartBounds
  <2> HIDE DEF Cart!Empty, Cart!Plain, Cart!Zero, Cart!Quantities, Cart!Source
  <2> QED
    BY <2>1, <2>2 DEF Cart!Init, Cart!TypeOK
<1>2. CartKinds /\ CartTab
  BY DEF Cart!Init, CartKinds, CartTab, Cart!Plain
<1>3. CartUnsent
  BY DEF Cart!Init, CartUnsent, Cart!Plain
<1>4. CartTold
  <2>1. Cart!Placed = {}
    BY DEF Cart!Init, Cart!Placed, Cart!Orders0
  <2> QED
    BY <2>1 DEF CartTold, Cart!Init, Cart!RegisterAgrees
<1> QED
  BY <1>1, <1>2, <1>3, <1>4 DEF CartIInv

LEMMA CartNextIInv ==
    ASSUME CartBounds, CartIInv, [Cart!Next]_(Cart!vars)
    PROVE  CartIInv'
<1>1. CartStep
  BY CartMoves
<1> QED
  BY <1>1, CartTypesOn, CartKindsOn, CartTabOn, CartUnsentOn, CartToldOn DEF CartIInv

LEMMA CartIInvTells == ASSUME CartBounds, CartIInv PROVE Cart!ServerIsTold
<1>1. Cart!RegisterAgrees
  BY DEF CartIInv, CartTold, Cart!RegisterAgrees
<1>2. Cart!SentOnce
  BY DEF CartIInv, CartUnsent, Cart!SentOnce
<1>3. Cart!NeverBelowFired
  <2> SUFFICES ASSUME tc_on.kind = "tab", ~tc_on.mixed, NEW v \in Variants
               PROVE  Cart!Units(tc_row[tc_on.order].items)[v] <= Cart!Units(tc_cart)[v]
    BY DEF Cart!NeverBelowFired, Cart!IsTab
  <2>1. /\ tc_on.order \in Tabs /\ tc_cart \in Cart!Quantities
        /\ tc_row[tc_on.order].items \in Cart!Quantities
    BY DEF CartIInv, CartKinds, CartTab, Cart!TypeOK, Cart!Source
  <2>2. CASE tc_pressed
    <3>1. tc_row[tc_on.order].items = tc_cart
      BY <2>2 DEF CartIInv, CartTab
    <3>2. Cart!Units(tc_cart)[v] \in Nat
      BY <2>1, CartUnits
    <3> HIDE DEF Cart!Units
    <3> QED
      BY <3>1, <3>2
  <2>3. CASE ~tc_pressed
    BY <2>1, <2>3, CartNoLess DEF CartIInv, CartTab
  <2> QED
    BY <2>2, <2>3
<1> QED
  BY <1>1, <1>2, <1>3 DEF Cart!ServerIsTold

LEMMA CartPaidStays ==
    ASSUME CartBounds, CartIInv, [Cart!Next]_(Cart!vars), ~tc_revived,
           NEW o \in Tabs \ Cart!Orders0, tc_row[o].status = "paid"
    PROVE  tc_row'[o] = tc_row[o]
<1>1. CartStep
  BY CartMoves
<1>2. CASE \E p \in Tabs, st \in {"held", "open_tab", "paid"} : CartSaved(p, st)
  <2>1. PICK p \in Tabs, st \in {"held", "open_tab", "paid"} : CartSaved(p, st)
    BY <1>2
  <2>2. /\ tc_row' = [tc_row EXCEPT ![p] = [status |-> st, items |-> tc_cart]]
        /\ p \in Cart!Ids /\ ~tc_pressed
    BY <2>1 DEF CartSaved, Cart!SaveRow, Cart!Ready
  <2>3. p # o
    BY <2>2 DEF CartIInv, CartUnsent, CartTab, CartKinds, Cart!Ids, Cart!TypeOK, Cart!Source,
                Cart!Orders0
  <2> QED
    BY <2>2, <2>3 DEF CartIInv, Cart!TypeOK
<1>3. CASE ~(\E p \in Tabs, st \in {"held", "open_tab", "paid"} : CartSaved(p, st))
  <2>1. tc_row' = tc_row
    BY <1>1, <1>3 DEF CartStep, CartEdited, Cart!Resume, Cart!Render, Cart!Persist, Cart!Kill,
                      Cart!vars
  <2> QED
    BY <2>1
<1> QED
  BY <1>2, <1>3

\* What the register shows is what the server was told, a tab's cart never falls below what
\* was fired, and a cart is sent once.
THEOREM CartTellsTheServer == ASSUME CartBounds PROVE Cart!Spec => []Cart!ServerIsTold
<1>1. Cart!Init => CartIInv
  BY CartInitIInv
<1>2. CartIInv /\ [Cart!Next]_(Cart!vars) => CartIInv'
  BY CartNextIInv
<1>3. CartIInv => Cart!ServerIsTold
  BY CartIInvTells
<1> QED
  BY <1>1, <1>2, <1>3, PTL DEF Cart!Spec

\* A paid order is not written over by a cart resumed from it before it was paid.
THEOREM CartPaidStaysPaid == ASSUME CartBounds PROVE Cart!Spec => Cart!PaidStaysPaid
<1>1. Cart!Init => CartIInv
  BY CartInitIInv
<1>2. CartIInv /\ [Cart!Next]_(Cart!vars) => CartIInv'
  BY CartNextIInv
<1>3. CartIInv /\ [Cart!Next]_(Cart!vars) =>
        [~tc_revived => \A o \in Tabs \ Cart!Orders0 :
            tc_row[o].status = "paid" => tc_row'[o] = tc_row[o]]_(Cart!vars)
  BY CartPaidStays
<1> QED
  BY <1>1, <1>2, <1>3, PTL DEF Cart!Spec, Cart!PaidStaysPaid
--------------------------------------------------------------------------------
LEMMA SplitSum == ASSUME NEW q, NEW S PROVE Split!SumOf(q, S) = SumOver(q, S)
<1>1. Split!SumOf(q, S) = (CHOOSE g : Adds(q, S, g))[S]
  BY DEF Adds, Least, Split!SumOf, Split!MapThenFoldSet
<1> QED
  BY <1>1, SumIsChosen

LEMMA SplitCardinality == ASSUME NEW S PROVE Split!Cardinality(S) = Cardinality(S)
BY DEF Split!Cardinality, Cardinality, Split!IsFiniteSet, IsFiniteSet

\* The parts of an amount are the amount.
LEMMA SplitParts ==
    ASSUME NEW n \in Nat \ {0}, NEW a \in Nat
    PROVE  /\ \A k \in 1..n : Split!Part(a, n, k) \in Nat
           /\ SumOver([k \in 1..n |-> Split!Part(a, n, k)], 1..n) = a
<1> DEFINE d == a \div n
           r == a % n
           f == [k \in 1..n |-> Split!Part(a, n, k)]
           g == [k \in 0..n |-> k * d + (IF k <= r THEN k ELSE r)]
<1>1. d \in Nat /\ r \in 0..(n - 1) /\ n * d + r = a
  OBVIOUS
<1>2. \A k \in 1..n : f[k] = d + (IF k <= r THEN 1 ELSE 0)
  BY DEF Split!Part
<1> HIDE DEF d, r, f
<1>3. \A k \in 1..n : f[k] \in Nat
  BY <1>1, <1>2
<1>4. \A k \in 0..n : k * d \in Nat
  BY <1>1
<1>5. \A k \in 1..n : (k - 1) * d + d = k * d
  BY <1>1
<1>6. g[0] = 0 /\ \A k \in 0..n : g[k] \in Int
  BY <1>1, <1>4
<1>7. ASSUME NEW k \in 1..n PROVE g[k] = g[k - 1] + f[k]
  <2>1. g[k] = k * d + (IF k <= r THEN k ELSE r)
    OBVIOUS
  <2>2. g[k - 1] = (k - 1) * d + (IF k - 1 <= r THEN k - 1 ELSE r)
    OBVIOUS
  <2>3. k * d = (k - 1) * d + d /\ (k - 1) * d \in Nat
    BY <1>4, <1>5
  <2> QED
    BY <1>1, <1>2, <2>1, <2>2, <2>3
<1>8. g[n] = a
  BY <1>1
<1> HIDE DEF g
<1>9. SumOver(f, 1..n) = g[n]
  BY <1>3, <1>6, <1>7, SumUpTo
<1> QED
  BY <1>3, <1>8, <1>9 DEF f

\* A line costs its units at one price.
SplitLine == {line \in [qty : Nat, cents : Nat] : \E p \in Nat : line.cents = line.qty * p}

LEMMA SplitPrice == ASSUME NEW q \in Nat \ {0}, NEW p \in Nat PROVE (q * p) \div q = p
OBVIOUS

\* What a line costs on each check, and its units there.
SplitCosts(line, among, n)  == [i \in 1..n |-> Split!Share(line, among, i).cents]
SplitPieces(line, among, n) == [i \in 1..n |-> Split!Share(line, among, i).qty]

\* Sharing a line among checks keeps its cost and at least its units.
LEMMA SplitShares ==
    ASSUME NEW line \in SplitLine, NEW n \in Nat \ {0}, NEW among, among \subseteq 1..n
    PROVE  /\ \A i \in 1..n : Split!Share(line, among, i) \in [qty : Nat, cents : Nat]
           /\ SumOver(SplitCosts(line, among, n), 1..n) = line.cents
           /\ SumOver(SplitPieces(line, among, n), 1..n) >= line.qty
           /\ line.qty = 0 => SumOver(SplitPieces(line, among, n), 1..n) = 0
<1> DEFINE to == IF among = {} THEN {1} ELSE among
           N == Cardinality(to)
           rank == [i \in to |-> Cardinality({j \in to : j <= i})]
           S == 1..n
           costs == SplitCosts(line, among, n)
           units == SplitPieces(line, among, n)
<1>1. /\ IsFiniteSet(S) /\ to \in SUBSET S /\ to # {} /\ to \subseteq Int
      /\ line.qty \in Nat /\ line.cents \in Nat
  <2>1. IsFiniteSet(S)
    BY FS_Interval
  <2>2. to \in SUBSET S /\ to # {} /\ to \subseteq Int
    OBVIOUS
  <2>3. line.qty \in Nat /\ line.cents \in Nat
    BY DEF SplitLine
  <2> QED
    BY <2>1, <2>2, <2>3
<1>2. IsFiniteSet(to) /\ N \in Nat \ {0}
  BY <1>1, FS_Subset, FS_CardinalityType, FS_EmptySet
<1>3. \A i \in S :
        Split!Share(line, among, i) =
          IF line.qty = 0 \/ i \notin to THEN Split!Nothing
          ELSE IF line.qty < N THEN [qty |-> 1, cents |-> Split!Part(line.cents, N, rank[i])]
          ELSE [qty   |-> Split!Part(line.qty, N, rank[i]),
                cents |-> (line.cents \div line.qty) * Split!Part(line.qty, N, rank[i])]
  BY SplitCardinality DEF Split!Share
<1>4. \A i \in to : rank[i] = RankIn(to, i)
  BY DEF RankIn
<1>5. \A i \in S : costs[i] = Split!Share(line, among, i).cents
                     /\ units[i] = Split!Share(line, among, i).qty
  BY DEF SplitCosts, SplitPieces
<1>a. \A i \in S \ to : Split!Share(line, among, i) = [qty |-> 0, cents |-> 0]
  BY <1>3 DEF Split!Nothing
<1>b. IsFiniteSet(S) /\ to \subseteq S /\ to \subseteq Int
  BY <1>1
<1> HIDE DEF to, N, rank, S, costs, units
<1>6. CASE line.qty = 0
  <2>1. line.cents = 0
    BY <1>6 DEF SplitLine
  <2>2. \A i \in S : Split!Share(line, among, i) = Split!Nothing /\ costs[i] = 0 /\ units[i] = 0
    BY <1>3, <1>5, <1>6 DEF Split!Nothing
  <2>3. SumOver(costs, S) = 0 /\ SumOver(units, S) = 0
    BY <1>1, <2>2, SumZero
  <2> QED
    BY <1>6, <2>1, <2>2, <2>3 DEF Split!Nothing, S, costs, units
<1>7. ASSUME NEW f, \A k \in 1..N : f[k] \in Int, NEW w,
             \A i \in S \ to : w[i] = 0, \A i \in to : w[i] = f[rank[i]]
      PROVE  SumOver(w, S) = SumOver(f, 1..N)
  <2>1. N = Cardinality(to)
    BY DEF N
  <2>2. \A k \in 1..Cardinality(to) : f[k] \in Int
    BY <1>7, <2>1
  <2>3. \A i \in S \ to : w[i] = 0
    BY <1>7
  <2>4. \A i \in to : w[i] = f[RankIn(to, i)]
    BY <1>4, <1>7
  <2>5. SumOver(w, S) = SumOver(f, 1..Cardinality(to))
    BY <1>b, <2>2, <2>3, <2>4, SumByRank
  <2> QED
    BY ONLY <2>1, <2>5
<1>8. \A i \in to : rank[i] \in 1..N
  BY ONLY <1>1, <1>2, <1>4, RankIsIn DEF N
<1>9. CASE line.qty > 0 /\ line.qty < N
  <2> DEFINE f == [k \in 1..N |-> Split!Part(line.cents, N, k)]
             u == [k \in 1..N |-> 1]
  <2>1. /\ \A k \in 1..N : f[k] \in Nat /\ u[k] \in Nat
        /\ SumOver(f, 1..N) = line.cents
    BY <1>1, <1>2, SplitParts
  <2>2. SumOver(u, 1..N) = N
    <3>1. \A k \in 1..N : u[k] = 1
      OBVIOUS
    <3> HIDE DEF u
    <3> QED
      BY <1>2, <3>1, SumOfOnes
  <2>a. \A i \in to : Split!Share(line, among, i) =
                         [qty |-> 1, cents |-> Split!Part(line.cents, N, rank[i])]
    BY <1>1, <1>3, <1>9
  <2>b. \A i \in to : f[rank[i]] = Split!Part(line.cents, N, rank[i]) /\ u[rank[i]] = 1
    BY <1>8
  <2> HIDE DEF f, u
  <2>3. \A i \in to : costs[i] = f[rank[i]] /\ units[i] = u[rank[i]]
    <3>1. \A i \in to : Split!Share(line, among, i) =
                           [qty |-> u[rank[i]], cents |-> f[rank[i]]]
      BY <2>a, <2>b
    <3>2. \A i \in to : i \in S
      BY <1>b
    <3> QED
      BY ONLY <1>5, <3>1, <3>2
  <2>4. \A i \in S \ to : costs[i] = 0 /\ units[i] = 0
    BY <1>5, <1>a
  <2>5. \A i \in S : Split!Share(line, among, i) \in [qty : Nat, cents : Nat]
    <3>1. \A i \in to : Split!Part(line.cents, N, rank[i]) \in Nat
      BY <1>8, <2>1, <2>b
    <3> QED
      BY <1>1, <1>a, <2>a, <3>1
  <2>6. SumOver(costs, S) = line.cents /\ SumOver(units, S) = N
    BY <1>7, <1>9, <2>1, <2>2, <2>3, <2>4
  <2> QED
    BY <1>1, <1>2, <1>5, <1>9, <2>5, <2>6 DEF S, costs, units
<1>10. CASE line.qty > 0 /\ line.qty >= N
  <2> DEFINE c == line.cents \div line.qty
             u == [k \in 1..N |-> Split!Part(line.qty, N, k)]
             f == [k \in 1..N |-> c * u[k]]
  <2>0. c \in Nat /\ c * line.qty = line.cents
    <3>1. PICK p \in Nat : line.cents = line.qty * p
      BY DEF SplitLine
    <3>2. c = p
      BY <1>1, <1>10, <3>1, SplitPrice
    <3>3. p * line.qty = line.qty * p
      BY <1>1
    <3> HIDE DEF c
    <3> QED
      BY <3>1, <3>2, <3>3
  <2>1. \A k \in 1..N : u[k] \in Nat /\ SumOver(u, 1..N) = line.qty
    BY <1>1, <1>2, SplitParts
  <2>a. SumOver(u, 1..N) = line.qty
    BY <1>1, <1>2, SplitParts
  <2>2. \A k \in 1..N : u[k] = Split!Part(line.qty, N, k)
    OBVIOUS
  <2>3. \A i \in to : Split!Share(line, among, i) =
                         [qty |-> u[rank[i]], cents |-> c * u[rank[i]]]
    BY <1>1, <1>2, <1>3, <1>8, <1>10, <2>2
  <2> HIDE DEF u, c
  <2>b. \A k \in 1..N : c * u[k] \in Nat /\ f[k] = c * u[k]
    BY <2>0, <2>1
  <2> HIDE DEF f
  <2>4. \A i \in to : costs[i] = f[rank[i]] /\ units[i] = u[rank[i]]
    <3>1. \A i \in to : Split!Share(line, among, i) =
                           [qty |-> u[rank[i]], cents |-> f[rank[i]]]
      BY <1>8, <2>3, <2>b
    <3>2. \A i \in to : i \in S
      BY <1>b
    <3> QED
      BY ONLY <1>5, <3>1, <3>2
  <2>5. \A i \in S \ to : costs[i] = 0 /\ units[i] = 0
    BY <1>5, <1>a
  <2>6. \A i \in S : Split!Share(line, among, i) \in [qty : Nat, cents : Nat]
    <3>1. \A i \in to : u[rank[i]] \in Nat /\ c * u[rank[i]] \in Nat
      BY <1>8, <2>1, <2>b
    <3> QED
      BY <1>1, <1>a, <2>3, <3>1
  <2>7. SumOver(f, 1..N) = c * line.qty
    <3>1. IsFiniteSet(1..N) /\ \A k \in 1..N : u[k] \in Int /\ f[k] = c * u[k]
      <4>1. IsFiniteSet(1..N)
        BY ONLY <1>2, FS_Interval
      <4> QED
        BY ONLY <4>1, <2>1, <2>b
    <3>a. c \in Int
      BY <2>0
    <3>2. SumOver(f, 1..N) = c * SumOver(u, 1..N)
      <4> DEFINE K == 1..N
      <4>1. IsFiniteSet(K) /\ \A k \in K : u[k] \in Int /\ f[k] = c * u[k]
        BY <3>1
      <4> HIDE DEF K
      <4>2. SumOver(f, K) = c * SumOver(u, K)
        BY ONLY <3>a, <4>1, SumScale
      <4> QED
        BY <4>2 DEF K
    <3> QED
      BY <2>a, <3>2
  <2>8. SumOver(costs, S) = SumOver(f, 1..N)
    BY <1>7, <1>10, <2>b, <2>4, <2>5
  <2>9. SumOver(units, S) = SumOver(u, 1..N)
    BY <1>7, <1>10, <2>1, <2>4, <2>5
  <2> QED
    BY <1>1, <1>5, <1>10, <2>0, <2>6, <2>7, <2>8, <2>9, <2>a DEF S, costs, units
<1> QED
  BY <1>1, <1>2, <1>6, <1>9, <1>10

\* What a check costs, and its units of a line, as functions of the check.
SplitCash     == [c \in Split!Check |-> Split!Cents(c)]
SplitUnits(l) == [c \in Split!Check |-> c[l].qty]

LEMMA SplitCost ==
    ASSUME IsFiniteSet(Lines), NEW c \in Split!Check
    PROVE  /\ SplitCash[c] = SumOver([l \in Lines |-> c[l].cents], Lines)
           /\ SplitCash[c] \in Nat /\ Split!Cents(c) = SplitCash[c]
<1> DEFINE f == [l \in Lines |-> c[l].cents]
<1>1. SplitCash[c] = SumOver(f, Lines) /\ Split!Cents(c) = SplitCash[c]
  BY SplitSum DEF SplitCash, Split!Cents
<1>2. \A l \in Lines : f[l] \in Nat
  BY DEF Split!Check
<1> HIDE DEF f
<1>3. SumOver(f, Lines) \in Nat
  BY <1>2, SumType
<1> QED
  BY <1>1, <1>3 DEF f

LEMMA SplitWeights ==
    ASSUME IsFiniteSet(Lines)
    PROVE  /\ \A c \in Split!Check : SplitCash[c] \in Int
           /\ \A l \in Lines : \A c \in Split!Check : SplitUnits(l)[c] \in Int
<1>1. ASSUME NEW c \in Split!Check PROVE SplitCash[c] \in Int
  <2>1. SplitCash[c] \in Nat
    BY SplitCost
  <2> QED
    BY <2>1
<1>2. \A l \in Lines : \A c \in Split!Check : SplitUnits(l)[c] \in Int
  BY DEF SplitUnits, Split!Check
<1> QED
  BY <1>1, <1>2

\* Sums over the checks paid or waiting, as the properties take them.
LEMMA SplitCentsOf ==
    ASSUME IsFiniteSet(Lines), NEW s \in Seq(Split!Check)
    PROVE  Split!CentsOf(s) = SeqSum(SplitCash, s)
<1> DEFINE f == [i \in DOMAIN s |-> Split!Cents(s[i])]
           g == [i \in DOMAIN s |-> SplitCash[s[i]]]
<1>1. \A i \in DOMAIN s : s[i] \in Split!Check
  OBVIOUS
<1>2. f = g
  BY <1>1, SplitCost
<1> QED
  BY <1>2, SplitSum DEF Split!CentsOf, SeqSum

LEMMA SplitUnitsOf ==
    ASSUME NEW s \in Seq(Split!Check), NEW l
    PROVE  Split!SumOf([i \in DOMAIN s |-> s[i][l].qty], DOMAIN s) = SeqSum(SplitUnits(l), s)
<1>1. \A i \in DOMAIN s : s[i] \in Split!Check
  OBVIOUS
<1>2. [i \in DOMAIN s |-> s[i][l].qty] = [i \in DOMAIN s |-> SplitUnits(l)[s[i]]]
  BY <1>1 DEF SplitUnits
<1> QED
  BY <1>2, SplitSum DEF SeqSum

\* The checks of a split cost what the cart does, and hold its units or more.
LEMMA SplitGroups ==
    ASSUME IsFiniteSet(Lines), NEW n \in Nat \ {0}, NEW c \in [Lines -> SplitLine],
           NEW a \in [Lines -> SUBSET (1..n)], NEW gs, gs = Split!Groups(c, a, n)
    PROVE  /\ gs \in Seq(Split!Check) /\ gs # <<>> /\ Len(gs) = n
           /\ SeqSum(SplitCash, gs) = SumOver([l \in Lines |-> c[l].cents], Lines)
           /\ \A l \in Lines : /\ SeqSum(SplitUnits(l), gs) >= c[l].qty
                               /\ (c[l].qty = 0 => SeqSum(SplitUnits(l), gs) = 0)
<1> DEFINE S == 1..n
<1>1. gs = [i \in S |-> [l \in Lines |-> Split!Share(c[l], a[l], i)]]
  BY DEF Split!Groups
<1>2. \A i \in S : \A l \in Lines : gs[i][l] = Split!Share(c[l], a[l], i)
  BY <1>1
<1>3. ASSUME NEW l \in Lines
      PROVE  /\ \A i \in S : Split!Share(c[l], a[l], i) \in [qty : Nat, cents : Nat]
             /\ SumOver(SplitCosts(c[l], a[l], n), S) = c[l].cents
             /\ SumOver(SplitPieces(c[l], a[l], n), S) >= c[l].qty
             /\ c[l].qty = 0 => SumOver(SplitPieces(c[l], a[l], n), S) = 0
  <2>1. c[l] \in SplitLine /\ a[l] \subseteq 1..n
    OBVIOUS
  <2> QED
    BY <2>1, SplitShares
<1>4. \A i \in S : gs[i] \in Split!Check
  <2> SUFFICES ASSUME NEW i \in S PROVE gs[i] \in Split!Check
    OBVIOUS
  <2>1. gs[i] = [l \in Lines |-> Split!Share(c[l], a[l], i)]
    BY <1>1
  <2>2. \A l \in Lines : Split!Share(c[l], a[l], i) \in [qty : Nat, cents : Nat]
    BY <1>3
  <2> QED
    BY <2>1, <2>2 DEF Split!Check
<1>5. gs \in Seq(Split!Check) /\ gs # <<>> /\ Len(gs) = n /\ DOMAIN gs = S
  <2>1. gs \in [S -> Split!Check]
    BY <1>1, <1>4
  <2> QED
    BY <2>1
<1>6. SeqSum(SplitCash, gs) = SumOver([l \in Lines |-> c[l].cents], Lines)
  <2> DEFINE m == [i \in S |-> [l \in Lines |-> gs[i][l].cents]]
  <2>1. IsFiniteSet(S)
    BY FS_Interval
  <2>2. \A i \in S, l \in Lines : m[i][l] \in Int
    BY <1>4 DEF Split!Check
  <2>3. \A i \in S : SplitCash[gs[i]] = SumOver(m[i], Lines)
    BY <1>4, SplitCost
  <2>4. [i \in DOMAIN gs |-> SplitCash[gs[i]]] = RowSums(m, S, Lines)
    BY <1>5, <2>3 DEF RowSums
  <2>5. SeqSum(SplitCash, gs) = SumOver(RowSums(m, S, Lines), S)
    BY <1>5, <2>4 DEF SeqSum
  <2>6. ASSUME NEW l \in Lines PROVE SumOver([i \in S |-> m[i][l]], S) = c[l].cents
    <3>1. [i \in S |-> m[i][l]] = SplitCosts(c[l], a[l], n)
      BY <1>2 DEF SplitCosts
    <3> QED
      BY <1>3, <3>1
  <2>7. ColSums(m, S, Lines) = [l \in Lines |-> c[l].cents]
    BY <2>6 DEF ColSums
  <2>8. SumOver(RowSums(m, S, Lines), S) = SumOver(ColSums(m, S, Lines), Lines)
    <3> HIDE DEF m, S
    <3> QED
      BY <2>1, <2>2, SumSwap
  <2> QED
    BY <2>5, <2>7, <2>8
<1>7. ASSUME NEW l \in Lines
      PROVE  SeqSum(SplitUnits(l), gs) = SumOver(SplitPieces(c[l], a[l], n), S)
  <2>1. [i \in DOMAIN gs |-> SplitUnits(l)[gs[i]]] = SplitPieces(c[l], a[l], n)
    BY <1>2, <1>4, <1>5 DEF SplitUnits, SplitPieces
  <2> QED
    BY <1>5, <2>1 DEF SeqSum
<1> HIDE DEF S
<1>8. \A l \in Lines : /\ SeqSum(SplitUnits(l), gs) >= c[l].qty
                       /\ (c[l].qty = 0 => SeqSum(SplitUnits(l), gs) = 0)
  BY <1>3, <1>7
<1> QED
  BY <1>5, <1>6, <1>8

\* The checks of a split: paid, on the screen, waiting.
SplitAll(f) == SeqSum(f, sc_paid) + f[sc_screen] + SeqSum(f, sc_queue)

SplitCalm == sc_mishap \cap {"cancelled", "cleared"} = {}

\* Carts are priced by the unit until they are split.
SplitPriced ==
    /\ sc_whole \in [Lines -> SplitLine]
    /\ ~sc_split => sc_screen \in [Lines -> SplitLine]

SplitCashKept == SplitCalm /\ sc_split => SplitAll(SplitCash) = SplitCash[sc_whole]

SplitUnitsKept ==
    SplitCalm /\ sc_split =>
        \A l \in Lines : /\ SplitAll(SplitUnits(l)) >= sc_whole[l].qty
                         /\ (sc_whole[l].qty = 0 => SplitAll(SplitUnits(l)) = 0)

\* The money of the checks that orders hold.
SplitHeld(f) == [o \in Checks |-> IF f[o] = None THEN 0 ELSE SplitCash[f[o]]]

SplitBilled ==
    "resumed" \notin sc_mishap =>
        /\ sc_resumed = None
        /\ \A o \in Checks : sc_row[o] = None <=> sc_billed[o] = None
        /\ SumOver(SplitHeld(sc_row), Checks) = SeqSum(SplitCash, sc_paid)
        /\ SumOver(SplitHeld(sc_billed), Checks) = SeqSum(SplitCash, sc_paid)

SplitIInv ==
    /\ Split!TypeOK
    /\ SplitPriced
    /\ SplitCashKept
    /\ SplitUnitsKept
    /\ SplitBilled

LEMMA SplitLineIsTyped == /\ SplitLine \subseteq [qty : Nat, cents : Nat]
                          /\ [Lines -> SplitLine] \subseteq Split!Check
                          /\ Split!Blank \in [Lines -> SplitLine]
<1>1. SplitLine \subseteq [qty : Nat, cents : Nat]
  BY DEF SplitLine
<1>2. [Lines -> SplitLine] \subseteq Split!Check
  BY <1>1 DEF Split!Check
<1>3. Split!Nothing \in SplitLine
  <2>1. Split!Nothing \in [qty : Nat, cents : Nat]
           /\ Split!Nothing.cents = Split!Nothing.qty * 0
    BY DEF Split!Nothing
  <2> QED
    BY <2>1 DEF SplitLine
<1>4. Split!Blank \in [Lines -> SplitLine]
  BY <1>3 DEF Split!Blank
<1> QED
  BY <1>1, <1>2, <1>4

LEMMA SplitUnit ==
    ASSUME SplitBounds, NEW q \in Nat, NEW p \in Prices
    PROVE  [qty |-> q, cents |-> q * p] \in SplitLine
<1>1. q \in Nat /\ p \in Nat /\ q * p \in Nat
  BY DEF SplitBounds
<1> QED
  BY <1>1 DEF SplitLine

LEMMA SplitInitIInv == ASSUME SplitBounds, Split!Init PROVE SplitIInv
<1>1. sc_screen \in [Lines -> SplitLine]
  <2>1. {Split!Nothing} \cup {[qty |-> q, cents |-> q * p] : q \in 1..MaxUnits, p \in Prices}
          \subseteq SplitLine
    <3>1. \A q \in 1..MaxUnits, p \in Prices : [qty |-> q, cents |-> q * p] \in SplitLine
      <4>1. \A q \in 1..MaxUnits : q \in Nat
        BY DEF SplitBounds
      <4> QED
        BY <4>1, SplitUnit
    <3>2. Split!Nothing \in SplitLine
      <4>1. Split!Nothing \in [qty : Nat, cents : Nat]
            /\ Split!Nothing.cents = Split!Nothing.qty * 0
        BY DEF Split!Nothing
      <4> QED
        BY <4>1 DEF SplitLine
    <3> QED
      BY <3>1, <3>2
  <2>2. sc_screen \in [Lines -> {Split!Nothing} \cup
                         {[qty |-> q, cents |-> q * p] : q \in 1..MaxUnits, p \in Prices}]
    BY DEF Split!Init
  <2> QED
    BY <2>1, <2>2
<1>2. Split!TypeOK
  <2>1. sc_screen \in Split!Check /\ sc_whole \in Split!Check
    BY <1>1, SplitLineIsTyped DEF Split!Init
  <2>2. sc_queue \in Seq(Split!Check) /\ sc_paid \in Seq(Split!Check)
    BY DEF Split!Init
  <2>a. sc_split \in BOOLEAN
    BY DEF Split!Init
  <2>c. sc_resumed \in Checks \cup {None}
    BY DEF Split!Init
  <2>b. sc_mishap = {} \/ sc_mishap = {"resumed"}
    BY DEF Split!Init
  <2>3. /\ sc_split \in BOOLEAN /\ sc_resumed \in Checks \cup {None}
        /\ sc_mishap \subseteq {"resumed", "cancelled", "cleared"}
    BY <2>a, <2>b, <2>c
  <2>4. /\ sc_row \in [Checks -> Split!Check \cup {None}]
        /\ sc_billed \in [Checks -> Split!Check \cup {None}]
    BY DEF Split!Init
  <2> QED
    BY <2>1, <2>2, <2>3, <2>4 DEF Split!TypeOK, Split!Check
<1>3. SplitPriced /\ ~sc_split
  BY <1>1 DEF Split!Init, SplitPriced
<1>4. SplitBilled
  <2> SUFFICES ASSUME "resumed" \notin sc_mishap PROVE SplitBilled
    BY DEF SplitBilled
  <2>1. sc_resumed = None /\ sc_paid = <<>>
        /\ \A o \in Checks : sc_row[o] = None /\ sc_billed[o] = None
    BY DEF Split!Init
  <2>2. \A o \in Checks : SplitHeld(sc_row)[o] = 0 /\ SplitHeld(sc_billed)[o] = 0
    BY <2>1 DEF SplitHeld
  <2>3. SumOver(SplitHeld(sc_row), Checks) = 0 /\ SumOver(SplitHeld(sc_billed), Checks) = 0
    BY <2>2, SumZero DEF SplitBounds
  <2>4. SeqSum(SplitCash, sc_paid) = 0
    BY <2>1, SeqSumEmpty
  <2> QED
    BY <2>1, <2>3, <2>4 DEF SplitBilled
<1> QED
  BY <1>2, <1>3, <1>4 DEF SplitIInv, SplitCashKept, SplitUnitsKept

\* A check that is paid leaves the screen to the next in the queue.
LEMMA SplitTurns ==
    ASSUME NEW f, \A c \in Split!Check : f[c] \in Int, Split!TypeOK, sc_queue # <<>>,
           sc_paid' = Append(sc_paid, sc_screen),
           sc_screen' = Head(sc_queue), sc_queue' = Tail(sc_queue)
    PROVE  SplitAll(f)' = SplitAll(f)
<1>1. /\ sc_paid \in Seq(Split!Check) /\ sc_queue \in Seq(Split!Check)
      /\ sc_screen \in Split!Check
  BY DEF Split!TypeOK
<1>2. SeqSum(f, sc_paid') = SeqSum(f, sc_paid) + f[sc_screen]
  BY <1>1, SeqSumAppend
<1>3. SeqSum(f, sc_queue) = f[sc_screen'] + SeqSum(f, sc_queue')
  BY <1>1, SeqSumHead
<1>4. /\ SeqSum(f, sc_paid) \in Int /\ SeqSum(f, sc_queue) \in Int
  BY <1>1, SeqSumType
<1>5. sc_queue' \in Seq(Split!Check) /\ sc_screen' \in Split!Check
  BY <1>1
<1>6. SeqSum(f, sc_queue') \in Int /\ f[sc_screen'] \in Int /\ f[sc_screen] \in Int
  BY <1>1, <1>5, SeqSumType
<1>7. SplitAll(f)' = SeqSum(f, sc_paid') + f[sc_screen'] + SeqSum(f, sc_queue')
  BY DEF SplitAll, SeqSum
<1> QED
  BY <1>2, <1>3, <1>4, <1>6, <1>7 DEF SplitAll

\* startSplitChecks: the checks come to the cart.
LEMMA SplitStartKeeps ==
    ASSUME SplitBounds, SplitIInv, NEW n \in Counts, NEW a \in [Lines -> SUBSET (1..n)],
           Split!Start(n, a)
    PROVE  SplitIInv'
<1> DEFINE gs == Split!Groups(sc_screen, a, n)
<1>1. /\ ~sc_split /\ sc_paid = <<>> /\ sc_split' = TRUE
      /\ sc_screen' = gs[1] /\ sc_queue' = Tail(gs) /\ sc_whole' = sc_screen
      /\ sc_resumed' = sc_resumed /\ sc_row' = sc_row /\ sc_billed' = sc_billed
      /\ sc_paid' = sc_paid /\ sc_mishap' = sc_mishap
  BY DEF Split!Start
<1>2. IsFiniteSet(Lines) /\ n \in Nat \ {0} /\ sc_screen \in [Lines -> SplitLine]
  BY <1>1 DEF SplitBounds, SplitIInv, SplitPriced
<1> HIDE DEF gs
<1>3. /\ gs \in Seq(Split!Check) /\ gs # <<>>
      /\ SeqSum(SplitCash, gs) = SumOver([l \in Lines |-> sc_screen[l].cents], Lines)
      /\ \A l \in Lines : /\ SeqSum(SplitUnits(l), gs) >= sc_screen[l].qty
                          /\ (sc_screen[l].qty = 0 => SeqSum(SplitUnits(l), gs) = 0)
  BY <1>2, SplitGroups DEF gs
<1>4. gs[1] = Head(gs) /\ Head(gs) \in Split!Check /\ Tail(gs) \in Seq(Split!Check)
  BY <1>3
<1>5. sc_screen \in Split!Check
  BY <1>2, SplitLineIsTyped
<1>6. Split!TypeOK'
  BY <1>1, <1>4, <1>5 DEF SplitIInv, Split!TypeOK, Split!Check
<1>7. SplitPriced'
  BY <1>1, <1>2 DEF SplitPriced
<1>8. ASSUME NEW f, \A c \in Split!Check : f[c] \in Int
      PROVE  SplitAll(f)' = SeqSum(f, gs)
  <2>1. SeqSum(f, gs) = f[Head(gs)] + SeqSum(f, Tail(gs))
    BY <1>3, <1>8, SeqSumHead
  <2>2. SeqSum(f, Tail(gs)) \in Int /\ f[Head(gs)] \in Int
    BY <1>4, <1>8, SeqSumType
  <2>3. SeqSum(f, sc_paid') = 0
    BY <1>1, SeqSumEmpty
  <2>4. SplitAll(f)' = SeqSum(f, sc_paid') + f[sc_screen'] + SeqSum(f, sc_queue')
    BY DEF SplitAll, SeqSum
  <2> QED
    BY <1>1, <1>4, <2>1, <2>2, <2>3, <2>4
<1>9. SplitCashKept'
  <2>1. SplitAll(SplitCash)' = SeqSum(SplitCash, gs)
    BY <1>2, <1>8, SplitWeights
  <2>2. SplitCash[sc_screen] = SumOver([l \in Lines |-> sc_screen[l].cents], Lines)
    BY <1>2, <1>5, SplitCost
  <2>3. SplitAll(SplitCash)' = SplitCash[sc_whole']
    BY <1>1, <1>3, <2>1, <2>2
  <2> QED
    BY <2>3 DEF SplitCashKept, SplitAll, SeqSum, SplitCash
<1>10. SplitUnitsKept'
  <2>1. \A l \in Lines : SplitAll(SplitUnits(l))' = SeqSum(SplitUnits(l), gs)
    BY <1>2, <1>8, SplitWeights
  <2>2. \A l \in Lines : /\ SplitAll(SplitUnits(l))' >= sc_whole'[l].qty
                         /\ (sc_whole'[l].qty = 0 => SplitAll(SplitUnits(l))' = 0)
    BY <1>1, <1>3, <2>1
  <2> QED
    BY <2>2 DEF SplitUnitsKept
<1>11. SplitBilled'
  BY <1>1 DEF SplitIInv, SplitBilled, SplitHeld, SeqSum
<1> QED
  BY <1>6, <1>7, <1>9, <1>10, <1>11 DEF SplitIInv

\* An order that held nothing holds the check that is paid.
LEMMA SplitHolds ==
    ASSUME SplitBounds, NEW f \in [Checks -> Split!Check \cup {None}], NEW o \in Checks,
           f[o] = None, NEW c \in Split!Check, NEW h, h = [f EXCEPT ![o] = c]
    PROVE  SumOver(SplitHeld(h), Checks) = SumOver(SplitHeld(f), Checks) + SplitCash[c]
<1>1. IsFiniteSet(Lines) /\ IsFiniteSet(Checks) /\ None \notin Split!Check
  BY DEF SplitBounds
<1>2. \A d \in Split!Check : SplitCash[d] \in Int
  BY <1>1, SplitWeights
<1>3. \A p \in Checks : h[p] \in Split!Check \cup {None}
  OBVIOUS
<1>4. \A p \in Checks : SplitHeld(f)[p] \in Int /\ SplitHeld(h)[p] \in Int
  BY <1>2, <1>3 DEF SplitHeld
<1>5. \A p \in Checks \ {o} : SplitHeld(h)[p] = SplitHeld(f)[p]
  BY DEF SplitHeld
<1>6. SplitHeld(f)[o] = 0 /\ SplitHeld(h)[o] = SplitCash[c]
  BY <1>1 DEF SplitHeld
<1> DEFINE F == SplitHeld(f)
           H == SplitHeld(h)
<1>7. SumOver(H, Checks) = SumOver(F, Checks) + H[o] - F[o]
  <2> HIDE DEF F, H
  <2>1. \A p \in Checks : F[p] \in Int /\ H[p] \in Int
    BY <1>4 DEF F, H
  <2>2. \A p \in Checks \ {o} : H[p] = F[p]
    BY <1>5 DEF F, H
  <2> QED
    BY ONLY <1>1, <2>1, <2>2, o \in Checks, SumChange
<1>8. SumOver(SplitHeld(f), Checks) \in Int /\ SplitCash[c] \in Int
  BY <1>1, <1>2, <1>4, SumType
<1> QED
  BY <1>6, <1>7, <1>8

\* confirmPayment: the check on the screen is paid, and the next one comes.
LEMMA SplitPayKeeps ==
    ASSUME SplitBounds, SplitIInv, Split!PayCheck
    PROVE  SplitIInv'
<1>1. PICK o \in Split!Ids :
         /\ sc_row' = [sc_row EXCEPT ![o] = sc_screen]
         /\ sc_billed' = [sc_billed EXCEPT ![o] = IF @ = None THEN sc_screen ELSE @]
  BY DEF Split!PayCheck
<1>2. /\ sc_paid' = Append(sc_paid, sc_screen)
      /\ sc_whole' = sc_whole /\ sc_mishap' = sc_mishap
  BY DEF Split!PayCheck
<1>3. \/ /\ sc_split /\ sc_queue # <<>>
         /\ sc_screen' = Head(sc_queue) /\ sc_queue' = Tail(sc_queue)
         /\ sc_split' = sc_split /\ sc_resumed' = sc_resumed
      \/ /\ sc_screen' = Split!Blank /\ sc_queue' = <<>>
         /\ sc_split' = FALSE /\ sc_resumed' = None
  BY DEF Split!PayCheck
<1>4. /\ sc_screen \in Split!Check /\ sc_whole \in Split!Check
      /\ sc_queue \in Seq(Split!Check) /\ sc_paid \in Seq(Split!Check)
      /\ sc_split \in BOOLEAN /\ sc_resumed \in Checks \cup {None}
      /\ sc_row \in [Checks -> Split!Check \cup {None}]
      /\ sc_billed \in [Checks -> Split!Check \cup {None}]
      /\ sc_mishap \subseteq {"resumed", "cancelled", "cleared"}
  BY DEF SplitIInv, Split!TypeOK
<1>5. o \in Checks /\ (sc_resumed = None => sc_row[o] = None)
  BY <1>4 DEF Split!Ids
<1>6. Split!TypeOK'
  <2>a. Split!Blank \in Split!Check /\ <<>> \in Seq(Split!Check)
    BY SplitLineIsTyped
  <2>b. sc_queue # <<>> => /\ Head(sc_queue) \in Split!Check
                            /\ Tail(sc_queue) \in Seq(Split!Check)
    BY <1>4
  <2>1. sc_screen' \in Split!Check /\ sc_queue' \in Seq(Split!Check)
    BY <1>3, <2>a, <2>b
  <2>2. sc_paid' \in Seq(Split!Check) /\ sc_whole' \in Split!Check
    BY <1>2, <1>4
  <2>3. sc_split' \in BOOLEAN /\ sc_resumed' \in Checks \cup {None}
        /\ sc_mishap' \subseteq {"resumed", "cancelled", "cleared"}
    BY <1>2, <1>3, <1>4
  <2>4. sc_row' \in [Checks -> Split!Check \cup {None}]
    BY <1>1, <1>4, <1>5
  <2>5. sc_billed' \in [Checks -> Split!Check \cup {None}]
    BY <1>1, <1>4, <1>5
  <2> QED
    BY <2>1, <2>2, <2>3, <2>4, <2>5 DEF Split!TypeOK, Split!Check
<1>7. SplitPriced'
  BY <1>2, <1>3, SplitLineIsTyped DEF SplitIInv, SplitPriced
<1>8. IsFiniteSet(Lines)
  BY DEF SplitBounds
<1>9. ASSUME sc_split', NEW f, \A c \in Split!Check : f[c] \in Int
      PROVE  SplitAll(f)' = SplitAll(f)
  BY <1>2, <1>3, <1>9, SplitTurns DEF SplitIInv
<1>10. SplitCashKept'
  <2> SUFFICES ASSUME SplitCalm, sc_split'
               PROVE  SplitAll(SplitCash)' = SplitCash[sc_whole']
    BY <1>2 DEF SplitCashKept, SplitCalm, SplitAll, SeqSum, SplitCash
  <2>1. SplitAll(SplitCash)' = SplitAll(SplitCash)
    BY <1>8, <1>9, SplitWeights
  <2>2. sc_split
    BY <1>3
  <2> QED
    BY <1>2, <2>1, <2>2 DEF SplitIInv, SplitCashKept
<1>11. SplitUnitsKept'
  <2> SUFFICES ASSUME SplitCalm, sc_split', NEW l \in Lines
               PROVE  /\ SplitAll(SplitUnits(l))' >= sc_whole'[l].qty
                      /\ (sc_whole'[l].qty = 0 => SplitAll(SplitUnits(l))' = 0)
    BY <1>2 DEF SplitUnitsKept, SplitCalm
  <2>1. SplitAll(SplitUnits(l))' = SplitAll(SplitUnits(l))
    BY <1>8, <1>9, SplitWeights
  <2>2. sc_split
    BY <1>3
  <2> QED
    BY <1>2, <2>1, <2>2 DEF SplitIInv, SplitUnitsKept
<1>12. SplitBilled'
  <2> SUFFICES ASSUME "resumed" \notin sc_mishap PROVE SplitBilled'
    BY <1>2 DEF SplitBilled
  <2>1. /\ sc_resumed = None
        /\ \A p \in Checks : sc_row[p] = None <=> sc_billed[p] = None
        /\ SumOver(SplitHeld(sc_row), Checks) = SeqSum(SplitCash, sc_paid)
        /\ SumOver(SplitHeld(sc_billed), Checks) = SeqSum(SplitCash, sc_paid)
    BY DEF SplitIInv, SplitBilled
  <2>2. sc_row[o] = None /\ sc_billed[o] = None
    BY <1>5, <2>1
  <2>3. sc_billed' = [sc_billed EXCEPT ![o] = sc_screen]
    BY <1>1, <1>4, <1>5, <2>2
  <2>4. SumOver(SplitHeld(sc_row'), Checks)
          = SumOver(SplitHeld(sc_row), Checks) + SplitCash[sc_screen]
    BY <1>1, <1>4, <1>5, <2>2, SplitHolds
  <2>5. SumOver(SplitHeld(sc_billed'), Checks)
          = SumOver(SplitHeld(sc_billed), Checks) + SplitCash[sc_screen]
    BY <1>4, <1>5, <2>2, <2>3, SplitHolds
  <2>6. SeqSum(SplitCash, sc_paid') = SeqSum(SplitCash, sc_paid) + SplitCash[sc_screen]
    BY <1>2, <1>4, <1>8, SplitWeights, SeqSumAppend
  <2>7. sc_resumed' = None
    BY <1>3, <2>1
  <2>8. \A p \in Checks : sc_row'[p] = None <=> sc_billed'[p] = None
    BY <1>1, <1>4, <1>5, <2>1, <2>3
  <2>9. /\ SumOver(SplitHeld(sc_row'), Checks) = SeqSum(SplitCash, sc_paid')
        /\ SumOver(SplitHeld(sc_billed'), Checks) = SeqSum(SplitCash, sc_paid')
    BY <2>1, <2>4, <2>5, <2>6
  <2> QED
    BY <2>7, <2>8, <2>9 DEF SplitBilled, SplitHeld, SeqSum, SplitCash
<1> QED
  BY <1>6, <1>7, <1>10, <1>11, <1>12 DEF SplitIInv

\* cancelSplit, a cart cleared, another order loaded: the split is no longer whole.
LEMMA SplitMishapKeeps ==
    ASSUME SplitBounds, SplitIInv,
           Split!Cancel \/ Split!Clear \/ \E o \in Checks : Split!LoadOrder(o)
    PROVE  SplitIInv'
<1>1. /\ sc_screen \in Split!Check /\ sc_whole \in Split!Check
      /\ sc_queue \in Seq(Split!Check) /\ sc_paid \in Seq(Split!Check)
      /\ sc_split \in BOOLEAN /\ sc_resumed \in Checks \cup {None}
      /\ sc_row \in [Checks -> Split!Check \cup {None}]
      /\ sc_billed \in [Checks -> Split!Check \cup {None}]
      /\ sc_mishap \subseteq {"resumed", "cancelled", "cleared"}
  BY DEF SplitIInv, Split!TypeOK
<1>2. /\ sc_row' = sc_row /\ sc_billed' = sc_billed /\ sc_paid' = sc_paid
      /\ sc_whole' = sc_whole /\ sc_whole \in [Lines -> SplitLine]
  BY DEF SplitIInv, SplitPriced, Split!Cancel, Split!Clear, Split!LoadOrder
<1>3. \/ /\ sc_screen' = sc_whole /\ sc_queue' = <<>> /\ sc_split' = FALSE
         /\ sc_mishap' = sc_mishap \cup {"cancelled"} /\ sc_resumed' = sc_resumed
      \/ /\ sc_screen' = Split!Blank /\ sc_queue' = <<>> /\ sc_split' = FALSE
         /\ sc_mishap' = sc_mishap \cup {"cleared"} /\ sc_resumed' = None
      \/ /\ sc_screen' \in [Lines -> SplitLine] /\ sc_queue' = sc_queue
         /\ sc_split' = sc_split /\ sc_resumed' \in Checks
         /\ sc_mishap' = sc_mishap \cup {"resumed", "cleared"}
  <2>1. CASE Split!Cancel
    BY <2>1 DEF Split!Cancel
  <2>2. CASE Split!Clear
    BY <2>2 DEF Split!Clear
  <2>3. ASSUME NEW o \in Checks, Split!LoadOrder(o)
        PROVE  /\ sc_screen' \in [Lines -> SplitLine] /\ sc_queue' = sc_queue
               /\ sc_split' = sc_split /\ sc_resumed' \in Checks
               /\ sc_mishap' = sc_mishap \cup {"resumed", "cleared"}
    <3>1. PICK l \in Lines, p \in Prices :
            sc_screen' = [Split!Blank EXCEPT ![l] = [qty |-> 1, cents |-> p]]
      BY <2>3 DEF Split!LoadOrder
    <3>2. [qty |-> 1, cents |-> p] \in SplitLine
      <4>1. p \in Nat /\ p = 1 * p
        BY DEF SplitBounds
      <4> QED
        BY <4>1 DEF SplitLine
    <3>3. sc_screen' \in [Lines -> SplitLine]
      BY <3>1, <3>2, SplitLineIsTyped
    <3> QED
      BY <2>3, <3>3 DEF Split!LoadOrder
  <2> QED
    BY <2>1, <2>2, <2>3
<1>4. sc_screen' \in [Lines -> SplitLine] /\ sc_screen' \in Split!Check
  BY <1>2, <1>3, SplitLineIsTyped
<1>5. Split!TypeOK'
  <2>a. <<>> \in Seq(Split!Check)
    OBVIOUS
  <2>b. sc_queue' \in Seq(Split!Check) /\ sc_split' \in BOOLEAN
    BY <1>1, <1>3, <2>a
  <2>c. sc_resumed' \in Checks \cup {None}
    BY <1>1, <1>3
  <2>d. sc_mishap' \subseteq {"resumed", "cancelled", "cleared"}
    BY <1>1, <1>3
  <2>1. /\ sc_queue' \in Seq(Split!Check) /\ sc_split' \in BOOLEAN
        /\ sc_resumed' \in Checks \cup {None}
        /\ sc_mishap' \subseteq {"resumed", "cancelled", "cleared"}
    BY <2>b, <2>c, <2>d
  <2> QED
    BY <1>1, <1>2, <1>4, <2>1 DEF Split!TypeOK, Split!Check
<1>6. SplitPriced'
  BY <1>2, <1>4 DEF SplitPriced
<1>7. SplitCashKept' /\ SplitUnitsKept'
  BY <1>3 DEF SplitCashKept, SplitUnitsKept, SplitCalm
<1>8. SplitBilled'
  <2> SUFFICES ASSUME "resumed" \notin sc_mishap' PROVE SplitBilled'
    BY DEF SplitBilled
  <2>1. "resumed" \notin sc_mishap /\ (sc_resumed' = sc_resumed \/ sc_resumed' = None)
    BY <1>3
  <2> QED
    BY <1>2, <2>1 DEF SplitIInv, SplitBilled, SplitHeld, SeqSum, SplitCash
<1> QED
  BY <1>5, <1>6, <1>7, <1>8 DEF SplitIInv

LEMMA SplitNextIInv == ASSUME SplitBounds
   PROVE SplitIInv /\ [Split!Next]_(Split!vars) => SplitIInv'
<1> SUFFICES ASSUME SplitIInv, [Split!Next]_(Split!vars) PROVE SplitIInv'
  OBVIOUS
<1>1. ASSUME UNCHANGED Split!vars PROVE SplitIInv'
  <2>1. Split!TypeOK'
    BY <1>1 DEF Split!vars, SplitIInv, Split!TypeOK, Split!Check
  <2>2. SplitPriced' /\ SplitCashKept' /\ SplitUnitsKept'
    BY <1>1 DEF Split!vars, SplitIInv, SplitPriced, SplitCashKept, SplitUnitsKept,
       SplitCalm, SplitAll
  <2>3. SplitBilled'
    BY <1>1 DEF Split!vars, SplitIInv, SplitBilled
  <2> QED
    BY <2>1, <2>2, <2>3 DEF SplitIInv
<1>2. ASSUME NEW n \in Counts, NEW a \in [Lines -> SUBSET (1..n)], Split!Start(n, a)
      PROVE  SplitIInv'
  BY <1>2, SplitStartKeeps
<1>3. CASE Split!PayCheck
  BY <1>3, SplitPayKeeps
<1>4. CASE Split!Cancel \/ Split!Clear \/ \E o \in Checks : Split!LoadOrder(o)
  BY <1>4, SplitMishapKeeps
<1> QED
  BY <1>1, <1>2, <1>3, <1>4 DEF Split!Next

\* What the invariant says is what a split is meant to keep.
LEMMA SplitIInvAddsUp == ASSUME SplitBounds, SplitIInv PROVE Split!SplitAddsUp
<1>1. /\ IsFiniteSet(Lines) /\ None \notin Split!Check
      /\ sc_paid \in Seq(Split!Check) /\ sc_queue \in Seq(Split!Check)
      /\ sc_screen \in Split!Check /\ sc_whole \in Split!Check
      /\ sc_row \in [Checks -> Split!Check \cup {None}]
      /\ sc_billed \in [Checks -> Split!Check \cup {None}]
  BY DEF SplitBounds, SplitIInv, Split!TypeOK
<1>2. /\ Split!CentsOf(sc_paid) = SeqSum(SplitCash, sc_paid)
      /\ Split!CentsOf(sc_queue) = SeqSum(SplitCash, sc_queue)
      /\ Split!Cents(sc_screen) = SplitCash[sc_screen]
      /\ Split!Cents(sc_whole) = SplitCash[sc_whole]
  BY <1>1, SplitCentsOf, SplitCost
<1>3. Split!CentsAddUp
  BY <1>2 DEF SplitIInv, SplitCashKept, SplitCalm, SplitAll, Split!CentsAddUp
<1>4. Split!PlatesKept
  <2>1. ASSUME NEW l \in Lines
        PROVE  /\ Split!SumOf([i \in DOMAIN sc_paid |-> sc_paid[i][l].qty], DOMAIN sc_paid)
                    = SeqSum(SplitUnits(l), sc_paid)
               /\ Split!SumOf([i \in DOMAIN sc_queue |-> sc_queue[i][l].qty], DOMAIN sc_queue)
                    = SeqSum(SplitUnits(l), sc_queue)
               /\ sc_screen[l].qty = SplitUnits(l)[sc_screen]
    BY <1>1, SplitUnitsOf DEF SplitUnits
  <2> QED
    BY <2>1 DEF SplitIInv, SplitUnitsKept, SplitCalm, SplitAll, Split!PlatesKept
<1>5. ASSUME NEW f \in [Checks -> Split!Check \cup {None}]
      PROVE  Split!CentsIn(f) = SumOver(SplitHeld(f), Checks)
  <2>1. \A o \in Checks : f[o] # None => Split!Cents(f[o]) = SplitCash[f[o]]
    BY <1>1, SplitCost
  <2>2. [o \in Checks |-> IF f[o] = None THEN 0 ELSE Split!Cents(f[o])] = SplitHeld(f)
    BY <2>1 DEF SplitHeld
  <2> QED
    BY <2>2, SplitSum DEF Split!CentsIn
<1>6. Split!ChecksAreBilled
  BY <1>1, <1>2, <1>5 DEF SplitIInv, SplitBilled, Split!ChecksAreBilled
<1> QED
  BY <1>3, <1>4, <1>6 DEF Split!SplitAddsUp

\* However a cart is split and in whatever order its checks are paid, no cent is lost
\* or made, no plate is lost, and every check that was paid is an order.
THEOREM SplitKeepsTheBill == ASSUME SplitBounds PROVE Split!Spec => []Split!SplitAddsUp
<1>1. Split!Init => SplitIInv
  BY SplitInitIInv
<1>2. SplitIInv /\ [Split!Next]_(Split!vars) => SplitIInv'
  BY SplitNextIInv
<1>3. SplitIInv => Split!SplitAddsUp
  BY SplitIInvAddsUp
<1> QED
  BY <1>1, <1>2, <1>3, PTL DEF Split!Spec
--------------------------------------------------------------------------------
\* The composition starts as each part does, and each of its steps is one of the part's
\* or leaves the part alone.
LEMMA KitchenStarts == Init => Kitchen!Init
  BY DEF Init

LEMMA KitchenSteps == [Next]_vars => [Kitchen!Next]_(Kitchen!vars)
  BY DEF Next, KitchenNext, CartNext, SplitNext, DrawerNext, CustomersNext,
     vars, KitchenVars, Kitchen!vars

LEMMA DrawerStarts == Init => Drawer!Init
  BY DEF Init

LEMMA DrawerSteps == [Next]_vars => [Drawer!Next]_(Drawer!vars)
  BY DEF Next, KitchenNext, CartNext, SplitNext, DrawerNext, CustomersNext,
     vars, DrawerVars, Drawer!vars

LEMMA CartStarts == Init => Cart!Init
  BY DEF Init

LEMMA CartSteps == [Next]_vars => [Cart!Next]_(Cart!vars)
  BY DEF Next, KitchenNext, CartNext, SplitNext, DrawerNext, CustomersNext,
     vars, CartVars, Cart!vars

LEMMA SplitStarts == Init => Split!Init
  BY DEF Init

LEMMA SplitSteps == [Next]_vars => [Split!Next]_(Split!vars)
  BY DEF Next, KitchenNext, CartNext, SplitNext, DrawerNext, CustomersNext,
     vars, SplitVars, Split!vars

LEMMA CustomersStarts == Init => Customers!Init
  BY DEF Init

LEMMA CustomersSteps == [Next]_vars => [Customers!Next]_(Customers!vars)
  BY DEF Next, KitchenNext, CartNext, SplitNext, DrawerNext, CustomersNext,
     vars, CustomerVars, Customers!vars

\* The register's kitchen queue among its other parts: a ticket is printed once, none
\* is left behind by a drain that ends, and the badge shows what waits.
THEOREM KitchenIsServedAll == Spec => []KitchenIsServed
<1>1. Init => KitchenIInv
  BY KitchenStarts, KitchenInitIInv
<1>2. KitchenIInv /\ [Next]_vars => KitchenIInv'
  BY KitchenSteps, KitchenNextIInv
<1>3. KitchenIInv => KitchenIsServed
  BY KitchenIInvServes DEF KitchenIsServed
<1> QED
  BY <1>1, <1>2, <1>3, PTL DEF Spec

\* The register's drawer among its other parts: one drawer at a time, no more cash
\* expected than was taken, every day with the orders paid in it.
THEOREM CustodyHoldsAll == Spec => []CustodyHolds
<1>1. Init => DrawerIInv
  BY DrawerStarts, DrawerAssumption, DrawerInitIInv
<1>2. DrawerIInv /\ [Next]_vars => DrawerIInv'
  BY DrawerSteps, DrawerAssumption, DrawerNextIInv
<1>3. DrawerIInv => CustodyHolds
  BY DrawerAssumption, DrawerIInvHolds DEF CustodyHolds
<1> QED
  BY <1>1, <1>2, <1>3, PTL DEF Spec

\* The register's customers among its other parts: their orders, their rows and their
\* profiles on the server stay together.
THEOREM CustomersFollowAll == Spec => []CustomersFollow
<1>1. Init => CustIInv
  BY CustomersStarts, CustomerAssumption, CustInitIInv
<1>2. CustIInv /\ [Next]_vars => CustIInv'
  BY CustomersSteps, CustomerAssumption, CustNextIInv
<1>3. CustIInv => CustomersFollow
  BY CustomerAssumption, CustIInvFollows DEF CustomersFollow
<1> QED
  BY <1>1, <1>2, <1>3, PTL DEF Spec

\* The register's cart among its other parts: the server is told what the register
\* shows, once, and a paid order stays as it was paid.
THEOREM TabsStayTrueAll == Spec => TabsStayTrue
<1>1. Init => CartIInv
  BY CartStarts, CartAssumption, CartInitIInv
<1>2. CartIInv /\ [Next]_vars => CartIInv'
  BY CartSteps, CartAssumption, CartNextIInv
<1>3. CartIInv => (Runs("cart") => Cart!ServerIsTold)
  BY CartAssumption, CartIInvTells
<1>4. CartIInv /\ [Next]_vars =>
        [~tc_revived => \A o \in Tabs \ Cart!Orders0 :
            tc_row[o].status = "paid" => tc_row'[o] = tc_row[o]]_(Cart!vars)
  BY CartSteps, CartAssumption, CartPaidStays
<1> QED
  BY <1>1, <1>2, <1>3, <1>4, PTL DEF Spec, TabsStayTrue, Cart!PaidStaysPaid

\* The register's split checks among its other parts: no cent, no plate and no check
\* is lost by a split, whatever number of checks and whoever shares which line.
THEOREM SplitAddsUpAll == Spec => []SplitAddsUp
<1>1. Init => SplitIInv
  BY SplitStarts, SplitAssumption, SplitInitIInv
<1>2. SplitIInv /\ [Next]_vars => SplitIInv'
  BY SplitSteps, SplitAssumption, SplitNextIInv
<1>3. SplitIInv => SplitAddsUp
  BY SplitAssumption, SplitIInvAddsUp DEF SplitAddsUp
<1> QED
  BY <1>1, <1>2, <1>3, PTL DEF Spec

\* The register and its parts keep their types: no ticket is tried, no badge counts, no
\* day starts and no request goes out beyond its bound, and carts, checks, sessions and
\* rows are of the kinds there are.
THEOREM RegisterTypeOK == Spec => []TypeOK
<1> DEFINE Inv == /\ KitchenIInv /\ KitchenCapped /\ DrawerIInv /\ DrawerCapped
                  /\ CartIInv /\ SplitIInv /\ CustIInv
<1>1. Init => Inv
  BY KitchenStarts, KitchenInitIInv, KitchenAssumption, KitchenInitCapped,
     DrawerStarts, DrawerAssumption, DrawerInitIInv, DrawerInitCapped,
     CartStarts, CartAssumption, CartInitIInv, SplitStarts, SplitAssumption, SplitInitIInv,
     CustomersStarts, CustomerAssumption, CustInitIInv
<1>2. Inv /\ [Next]_vars => Inv'
  <2> SUFFICES ASSUME Inv, [Next]_vars PROVE Inv'
    OBVIOUS
  <2>1. KitchenIInv' /\ KitchenCapped'
    BY KitchenSteps, KitchenNextIInv, KitchenAssumption, KitchenNextCapped
  <2>2. DrawerIInv' /\ DrawerCapped'
    BY DrawerSteps, DrawerAssumption, DrawerNextIInv, DrawerNextCapped
  <2>3. CartIInv' /\ SplitIInv' /\ CustIInv'
    BY CartSteps, CartAssumption, CartNextIInv, SplitSteps, SplitAssumption, SplitNextIInv,
       CustomersSteps, CustomerAssumption, CustNextIInv
  <2> QED
    BY <2>1, <2>2, <2>3
<1>3. Inv => TypeOK
  <2> SUFFICES ASSUME Inv PROVE TypeOK
    OBVIOUS
  <2>1. Kitchen!TypeOK /\ Drawer!TypeOK
    BY KitchenAssumption, KitchenTypes, DrawerAssumption, DrawerTypes
  <2>2. Cart!TypeOK /\ Split!TypeOK /\ Customers!TypeOK
    BY CustTypesHold DEF CartIInv, SplitIInv
  <2> QED
    BY <2>1, <2>2 DEF TypeOK
<1> QED
  BY <1>1, <1>2, <1>3, PTL DEF Spec
================================================================================
