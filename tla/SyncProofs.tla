------------------------------- MODULE SyncProofs -------------------------------
(***************************************************************************)
(* The register's outbox, proved as the composition of the workers runs    *)
(* it: a retry adds nothing (SyncIInv), and the server hears of an order   *)
(* in the order of the taps (SyncHeard), so that a bill follows what is    *)
(* rung in, as GuestBill has it.                                           *)
(***************************************************************************)
EXTENDS WorkersMC, SequenceTheorems, FiniteSetTheorems, TLAPS
--------------------------------------------------------------------------------
(***************************************************************************)
(* The outbox of the register and its sync engine                          *)
(***************************************************************************)
\* Requests on their way, awaited or not, and every mutation there is a trace of.
SyncRequests == ps_strays \cup (IF ps_flight = None THEN {} ELSE {ps_flight})
SyncMuts == Sync!Queued \cup {r.m : r \in SyncRequests} \cup ps_claims

\* The queue has no mutation twice, an order's create first and its settle last.
SyncQueue ==
    \A i, j \in DOMAIN ps_outbox : i < j =>
        /\ ps_outbox[i] # ps_outbox[j]
        /\ ps_outbox[i].order = ps_outbox[j].order =>
             ps_outbox[i].kind # "settle" /\ ps_outbox[j].kind # "create"

\* A mutation is of an order on the register and of what the register shows of it.
SyncKnown(m) ==
    /\ ps_local[m.order] # None
    /\ IF m.kind = "append" THEN m.items # {} /\ m.items \subseteq ps_local[m.order].items
       ELSE m.items = {}
    /\ m.kind = "fire" => ps_local[m.order].fired
    /\ m.kind = "settle" => ps_local[m.order].paid

SyncMutsAreKnown == \A m \in SyncMuts : SyncKnown(m)

\* No line is in two appends.
SyncDisjoint ==
    \A m, n \in SyncMuts :
        m.kind = "append" /\ n.kind = "append" /\ m.order = n.order /\ m # n =>
            m.items \cap n.items = {}

\* What is on screen is a row, and what is paid is out of reach of the taps.
SyncFrozen ==
    /\ ps_screen # None => ps_local[ps_screen] # None
    /\ \A o \in Sales : ps_local[o] # None /\ ps_local[o].paid =>
         ps_local[o].status # "open_tab" /\ ps_screen # o

\* Nothing but a create is sent, and nothing accepted, of an order the server has not.
SyncLanded ==
    /\ \A o \in Sales :
         /\ ps_server[o] # None => ps_local[o] # None
         /\ ps_local[o] # None /\ (ps_local[o].server \/ ps_local[o].status = "synced") =>
              ps_server[o] # None
    /\ \A r \in SyncRequests :
         r.m.kind # "create" \/ r.reply = "ok" => ps_server[r.m.order] # None
    /\ \A m \in ps_claims : ps_server[m.order] # None

\* A line counts as often as the append with it was claimed.
SyncClaimed(o, i) ==
    \E m \in ps_claims : m.kind = "append" /\ m.order = o /\ i \in m.items

SyncCounted ==
    \A o \in Sales : ps_server[o] # None =>
        \A i \in Items : ps_server[o].added[i] = IF SyncClaimed(o, i) THEN 1 ELSE 0

\* A run goes through what is queued, and passes by the orders of what is parked.
SyncBefore(a, b) ==
    \E i, j \in DOMAIN ps_outbox : i < j /\ ps_outbox[i] = a /\ ps_outbox[j] = b

SyncRunIsQueued ==
    /\ ~ps_engine.on => ps_engine.todo = <<>> /\ ps_flight = None
    /\ \A i, j \in DOMAIN ps_engine.todo : i < j => ps_engine.todo[i] # ps_engine.todo[j]
    /\ \A i \in DOMAIN ps_engine.todo : ps_engine.todo[i] \in Sync!Queued
    /\ ps_flight # None =>
         /\ ps_flight.m \in Sync!Queued
         /\ \A i \in DOMAIN ps_engine.todo : ps_engine.todo[i] # ps_flight.m
         /\ ps_flight.m.order \notin ps_engine.blocked
    /\ ps_engine.on => \A m \in ps_parked : m.order \in ps_engine.blocked

\* Nor does it leave out what comes before.
SyncRunInOrder ==
    /\ \A k \in DOMAIN ps_engine.todo : \A a \in Sync!Queued :
         /\ SyncBefore(a, ps_engine.todo[k]) /\ a.order = ps_engine.todo[k].order
         /\ a.order \notin ps_engine.blocked
         => \/ \E j \in DOMAIN ps_engine.todo : j < k /\ ps_engine.todo[j] = a
            \/ ps_flight # None /\ ps_flight.m = a
    /\ ps_flight # None => \A a \in Sync!Queued :
         a.order = ps_flight.m.order => ~SyncBefore(a, ps_flight.m)
    /\ \A m \in ps_parked : \A a \in Sync!Queued : a.order = m.order => ~SyncBefore(a, m)

SyncIInv ==
    /\ Sync!TypeOK /\ SyncQueue /\ SyncMutsAreKnown /\ SyncDisjoint /\ SyncFrozen
    /\ SyncLanded /\ SyncCounted /\ SyncRunIsQueued /\ SyncRunInOrder

\* A line is billed once the server has it; one that is not, and not queued, came
\* with the row of every create there is.
SyncBilled(o, i) ==
    /\ ps_server[o] # None
    /\ i \in ps_server[o].base \/ ps_server[o].added[i] > 0

SyncLinesAreHeard ==
    \A o \in Sales : ps_local[o] # None =>
        \A i \in ps_local[o].items :
            \/ \E m \in Sync!Queued : m.kind = "append" /\ m.order = o /\ i \in m.items
            \/ SyncBilled(o, i)
            \/ /\ ps_server[o] = None
               /\ \A r \in SyncRequests : r.m.kind = "create" /\ r.m.order = o
                       => i \in r.row.items

\* So for a payment.
SyncPaymentsAreHeard ==
    \A o \in Sales : ps_local[o] # None /\ ps_local[o].paid =>
        \/ Sync!Mut(o, "settle", {}) \in Sync!Queued
        \/ ps_server[o] # None /\ ps_server[o].paid
        \/ /\ ps_server[o] = None
           /\ \A r \in SyncRequests : r.m.kind = "create" /\ r.m.order = o => r.row.paid

\* What goes out as paid is all there is.
SyncRowsAreSent ==
    \A r \in SyncRequests : r.m.kind = "create" /\ r.row.paid =>
        ps_local[r.m.order].paid /\ r.row.items = ps_local[r.m.order].items

SyncCovered(o) == \A i \in ps_local[o].items : SyncBilled(o, i)

SyncPaidIsCovered ==
    /\ \A o \in Sales : ps_server[o] # None /\ ps_server[o].paid =>
         ps_local[o].paid /\ SyncCovered(o)
    /\ \A r \in SyncRequests : r.m.kind = "settle" => SyncCovered(r.m.order)

SyncCreateIsHeard ==
    \A o \in Sales : ps_local[o] # None =>
        ps_local[o].server \/ Sync!Mut(o, "create", {}) \in Sync!Queued

\* An answer of success is true, and of a settle it is no replay's.
SyncAnswers ==
    /\ ps_flight # None /\ ps_flight.reply = "ok" =>
         /\ ps_flight.m.kind = "append" => ps_flight.m \in ps_claims
         /\ ps_flight.m.kind = "settle" => ps_server[ps_flight.m.order].paid
    /\ \A m \in ps_claims : m.kind # "settle"

SyncHeard ==
    /\ SyncLinesAreHeard /\ SyncPaymentsAreHeard /\ SyncRowsAreSent /\ SyncPaidIsCovered
    /\ SyncCreateIsHeard /\ SyncAnswers
--------------------------------------------------------------------------------
\* The mutation of an order that a tap queues.
LEMMA SyncMutType ==
    \A o \in Sales, k \in {"create", "append", "fire", "settle"}, items \in SUBSET Items :
        /\ Sync!Mut(o, k, items) \in Sync!Mutation
        /\ Sync!Mut(o, k, items).order = o
        /\ Sync!Mut(o, k, items).kind = k
        /\ Sync!Mut(o, k, items).items = items
BY DEF Sync!Mut, Sync!Mutation

\* The row of a sale that is new.
LEMMA SyncDraftType ==
    \A s \in Sync!Statuses, p \in BOOLEAN, items \in SUBSET Items :
        /\ Sync!Draft(s, p, items) \in Sync!Row
        /\ Sync!Draft(s, p, items).status = s
        /\ Sync!Draft(s, p, items).paid = p
        /\ Sync!Draft(s, p, items).items = items
        /\ ~Sync!Draft(s, p, items).server /\ ~Sync!Draft(s, p, items).fired
BY DEF Sync!Draft, Sync!Row

\* What enqueueing does to the queue.
LEMMA SyncEnqueue ==
    ASSUME NEW S, NEW s \in Seq(S), NEW t \in Seq(S)
    PROVE  /\ s \o t \in Seq(S)
           /\ \A i \in DOMAIN s : i \in DOMAIN (s \o t) /\ (s \o t)[i] = s[i]
           /\ \A i \in DOMAIN t :
                Len(s) + i \in DOMAIN (s \o t) /\ (s \o t)[Len(s) + i] = t[i]
           /\ \A i \in DOMAIN (s \o t) :
                \/ i \in DOMAIN s /\ (s \o t)[i] = s[i]
                \/ i - Len(s) \in DOMAIN t /\ (s \o t)[i] = t[i - Len(s)]
                   /\ i > Len(s)
<1>1. /\ s \o t \in Seq(S) /\ Len(s \o t) = Len(s) + Len(t)
      /\ \A i \in 1 .. Len(s) + Len(t) : (s \o t)[i] =
            IF i <= Len(s) THEN s[i] ELSE t[i - Len(s)]
  BY ConcatProperties
<1>2. DOMAIN s = 1..Len(s) /\ DOMAIN t = 1..Len(t) /\ DOMAIN (s \o t) = 1..Len(s \o t)
      /\ Len(s) \in Nat /\ Len(t) \in Nat
  BY <1>1
<1> QED
  BY <1>1, <1>2

\* And taking one out.
LEMMA SyncRemove ==
    ASSUME NEW S, NEW s \in Seq(S), NEW k \in DOMAIN s
    PROVE  LET t == SubSeq(s, 1, k - 1) \o SubSeq(s, k + 1, Len(s))
           IN  /\ t \in Seq(S)
               /\ \A i \in DOMAIN t :
                    IF i < k THEN i \in DOMAIN s /\ t[i] = s[i]
                    ELSE i + 1 \in DOMAIN s /\ t[i] = s[i + 1]
               /\ \A i \in DOMAIN s : i # k =>
                    IF i < k THEN i \in DOMAIN t /\ t[i] = s[i]
                    ELSE i - 1 \in DOMAIN t /\ t[i - 1] = s[i]
<1> DEFINE a == SubSeq(s, 1, k - 1)
           b == SubSeq(s, k + 1, Len(s))
<1>1. DOMAIN s = 1..Len(s) /\ Len(s) \in Nat /\ k \in 1..Len(s)
  OBVIOUS
<1>2. /\ a \in Seq(S) /\ Len(a) = k - 1
      /\ \A i \in 1 .. (k - 1) : a[i] = s[i]
  <2>1. 1 \in Int /\ k - 1 \in Int /\ \A i \in 1 .. (k - 1) : s[i] \in S
    BY <1>1
  <2>2. /\ a \in Seq(S)
        /\ Len(a) = IF 1 <= k - 1 THEN (k - 1) - 1 + 1 ELSE 0
        /\ \A i \in 1 .. (k - 1) - 1 + 1 : a[i] = s[1 + i - 1]
    BY <2>1, SubSeqProperties
  <2> HIDE DEF a
  <2>3. (k - 1) - 1 + 1 = k - 1 /\ \A i \in 1 .. (k - 1) : 1 + i - 1 = i
    BY <1>1
  <2> QED
    BY <2>2, <2>3, <1>1
<1>3. /\ b \in Seq(S) /\ Len(b) = Len(s) - k
      /\ \A i \in 1 .. (Len(s) - k) : b[i] = s[k + i]
  <2>1. k + 1 \in Int /\ Len(s) \in Int /\ \A i \in (k + 1) .. Len(s) : s[i] \in S
    BY <1>1
  <2>2. /\ b \in Seq(S)
        /\ Len(b) = IF k + 1 <= Len(s) THEN Len(s) - (k + 1) + 1 ELSE 0
        /\ \A i \in 1 .. Len(s) - (k + 1) + 1 : b[i] = s[(k + 1) + i - 1]
    BY <2>1, SubSeqProperties
  <2> HIDE DEF b
  <2>3. Len(s) - (k + 1) + 1 = Len(s) - k
           /\ \A i \in 1 .. (Len(s) - k) : (k + 1) + i - 1 = k + i
    BY <1>1
  <2> QED
    BY <2>2, <2>3, <1>1
<1>4. /\ a \o b \in Seq(S) /\ Len(a \o b) = Len(a) + Len(b)
      /\ \A i \in 1 .. Len(a) + Len(b) : (a \o b)[i] =
            IF i <= Len(a) THEN a[i] ELSE b[i - Len(a)]
  <2> HIDE DEF a, b
  <2> QED
    BY <1>2, <1>3, ConcatProperties
<1>5. DOMAIN (a \o b) = 1..(Len(s) - 1)
  <2> HIDE DEF a, b
  <2>1. DOMAIN (a \o b) = 1..Len(a \o b)
    BY <1>4
  <2> QED
    BY <1>1, <1>2, <1>3, <1>4, <2>1
<1> SUFFICES
      /\ \A i \in DOMAIN (a \o b) :
            IF i < k THEN i \in DOMAIN s /\ (a \o b)[i] = s[i]
            ELSE i + 1 \in DOMAIN s /\ (a \o b)[i] = s[i + 1]
      /\ \A i \in DOMAIN s : i # k =>
            IF i < k THEN i \in DOMAIN (a \o b) /\ (a \o b)[i] = s[i]
            ELSE i - 1 \in DOMAIN (a \o b) /\ (a \o b)[i - 1] = s[i]
  BY <1>4
<1> HIDE DEF a, b
<1>6. \A i \in 1..(Len(s) - 1) : (a \o b)[i] = IF i < k THEN s[i] ELSE s[i + 1]
  <2> TAKE i \in 1..(Len(s) - 1)
  <2>1. CASE i < k
    BY <2>1, <1>1, <1>2, <1>3, <1>4
  <2>2. CASE ~(i < k)
    <3>1. i - (k - 1) \in 1 .. (Len(s) - k) /\ k + (i - (k - 1)) = i + 1
      BY <2>2, <1>1
    <3>2. (a \o b)[i] = b[i - Len(a)]
      BY SMTT(60), <2>2, <1>1, <1>2, <1>3, <1>4
    <3> QED
      BY <3>1, <3>2, <1>2, <1>3, <2>2
  <2> QED
    BY <2>1, <2>2
<1> DEFINE t == a \o b
<1>7. DOMAIN t = 1..(Len(s) - 1)
         /\ \A i \in 1..(Len(s) - 1) : t[i] = IF i < k THEN s[i] ELSE s[i + 1]
  BY <1>5, <1>6
<1> SUFFICES
      /\ \A i \in DOMAIN t :
            IF i < k THEN i \in DOMAIN s /\ t[i] = s[i]
            ELSE i + 1 \in DOMAIN s /\ t[i] = s[i + 1]
      /\ \A i \in DOMAIN s : i # k =>
            IF i < k THEN i \in DOMAIN t /\ t[i] = s[i]
            ELSE i - 1 \in DOMAIN t /\ t[i - 1] = s[i]
  OBVIOUS
<1> HIDE DEF t
<1> QED
  BY <1>1, <1>7

\* A mutation that leaves the queue, and what stays in its order.
LEMMA SyncTakenOut ==
    ASSUME Sync!TypeOK, SyncQueue, NEW m \in Sync!Queued, ps_outbox' = Sync!Without(m)
    PROVE  /\ ps_outbox' \in Seq(Sync!Mutation)
           /\ Sync!Queued' = Sync!Queued \ {m}
           /\ SyncQueue'
           /\ \A a, b : SyncBefore(a, b)' => SyncBefore(a, b)
<1> DEFINE k == CHOOSE k \in DOMAIN ps_outbox : ps_outbox[k] = m
           t == SubSeq(ps_outbox, 1, k - 1) \o SubSeq(ps_outbox, k + 1, Len(ps_outbox))
<1>1. ps_outbox \in Seq(Sync!Mutation) /\ k \in DOMAIN ps_outbox /\ ps_outbox[k] = m
  BY DEF Sync!TypeOK, Sync!Queued
<1>2. ps_outbox' = t
  BY DEF Sync!Without
<1> HIDE DEF k
<1>3. /\ t \in Seq(Sync!Mutation)
      /\ \A i \in DOMAIN t :
           IF i < k THEN i \in DOMAIN ps_outbox /\ t[i] = ps_outbox[i]
           ELSE i + 1 \in DOMAIN ps_outbox /\ t[i] = ps_outbox[i + 1]
      /\ \A i \in DOMAIN ps_outbox : i # k =>
           IF i < k THEN i \in DOMAIN t /\ t[i] = ps_outbox[i]
           ELSE i - 1 \in DOMAIN t /\ t[i - 1] = ps_outbox[i]
  BY <1>1, SyncRemove
<1>4. DOMAIN ps_outbox \subseteq Nat /\ DOMAIN ps_outbox' \subseteq Nat
  BY <1>1, <1>2, <1>3
<1> HIDE DEF t
<1> DEFINE At(i) == IF i < k THEN i ELSE i + 1
<1>5. \A i \in DOMAIN ps_outbox' :
        /\ At(i) \in DOMAIN ps_outbox /\ At(i) # k
        /\ ps_outbox'[i] = ps_outbox[At(i)]
  BY <1>1, <1>2, <1>3, <1>4
<1>6. \A i, j \in DOMAIN ps_outbox' : i < j => At(i) < At(j)
  BY <1>1, <1>4
<1>7. \A j \in DOMAIN ps_outbox : j # k
         => \E i \in DOMAIN ps_outbox' : ps_outbox'[i] = ps_outbox[j]
  BY <1>2, <1>3
<1>8. \A j \in DOMAIN ps_outbox : j # k => ps_outbox[j] # m
  BY <1>1, <1>4 DEF SyncQueue
<1> HIDE DEF At
<1>9. Sync!Queued' = Sync!Queued \ {m}
  BY <1>1, <1>5, <1>7, <1>8 DEF Sync!Queued
<1>10. SyncQueue'
  BY <1>5, <1>6 DEF SyncQueue
<1>11. \A a, b : SyncBefore(a, b)' => SyncBefore(a, b)
  BY <1>5, <1>6 DEF SyncBefore
<1> QED
  BY <1>2, <1>3, <1>9, <1>10, <1>11

\* What a tap enqueues comes after all there is.
LEMMA SyncPutIn ==
    ASSUME Sync!TypeOK, SyncQueue, NEW o \in Sales, NEW t \in Seq(Sync!Mutation),
           ps_outbox' = ps_outbox \o t,
           \A i \in DOMAIN t : t[i] \notin Sync!Queued /\ t[i].order = o,
           \A i, j \in DOMAIN t : i < j =>
              t[i] # t[j] /\ t[i].kind # "settle" /\ t[j].kind # "create",
           \A i \in DOMAIN t : \A m \in Sync!Queued :
              m.order = o => m.kind # "settle" /\ t[i].kind # "create"
    PROVE  /\ ps_outbox' \in Seq(Sync!Mutation)
           /\ Sync!Queued' = Sync!Queued \cup {t[i] : i \in DOMAIN t}
           /\ SyncQueue'
           /\ \A a : \A b \in Sync!Queued : SyncBefore(a, b)' => SyncBefore(a, b)
<1>1. ps_outbox \in Seq(Sync!Mutation)
  BY DEF Sync!TypeOK
<1>2. /\ ps_outbox' \in Seq(Sync!Mutation)
      /\ \A i \in DOMAIN ps_outbox : i \in DOMAIN ps_outbox' /\ ps_outbox'[i] = ps_outbox[i]
      /\ \A i \in DOMAIN t :
           Len(ps_outbox) + i \in DOMAIN ps_outbox' /\ ps_outbox'[Len(ps_outbox) + i] = t[i]
      /\ \A i \in DOMAIN ps_outbox' :
           \/ i \in DOMAIN ps_outbox /\ ps_outbox'[i] = ps_outbox[i]
           \/ i - Len(ps_outbox) \in DOMAIN t /\ ps_outbox'[i] = t[i - Len(ps_outbox)]
              /\ i > Len(ps_outbox)
  BY <1>1, SyncEnqueue
<1>3. DOMAIN ps_outbox = 1..Len(ps_outbox) /\ Len(ps_outbox) \in Nat
         /\ DOMAIN ps_outbox' \subseteq Nat
  BY <1>1, <1>2
<1>4. Sync!Queued' = Sync!Queued \cup {t[i] : i \in DOMAIN t}
  <2>1. Sync!Queued = {ps_outbox[i] : i \in DOMAIN ps_outbox}
        /\ Sync!Queued' = {ps_outbox'[i] : i \in DOMAIN ps_outbox'}
    BY DEF Sync!Queued
  <2>2. Sync!Queued' \subseteq Sync!Queued \cup {t[i] : i \in DOMAIN t}
    BY <2>1, <1>2
  <2>3. Sync!Queued \subseteq Sync!Queued'
    BY <2>1, <1>2
  <2>4. ASSUME NEW i \in DOMAIN t PROVE t[i] \in Sync!Queued'
    <3>1. Len(ps_outbox) + i \in DOMAIN ps_outbox' /\ ps_outbox'[Len(ps_outbox) + i] = t[i]
      BY <1>2
    <3> QED
      BY <3>1, <2>1
  <2> QED
    BY <2>2, <2>3, <2>4
<1>5. SyncQueue'
  <2> SUFFICES ASSUME NEW i \in DOMAIN ps_outbox', NEW j \in DOMAIN ps_outbox', i < j
               PROVE  /\ ps_outbox'[i] # ps_outbox'[j]
                      /\ ps_outbox'[i].order = ps_outbox'[j].order =>
                           ps_outbox'[i].kind # "settle" /\ ps_outbox'[j].kind # "create"
    BY DEF SyncQueue
  <2>1. CASE j \in DOMAIN ps_outbox
    <3>1. i \in DOMAIN ps_outbox
      BY <2>1, <1>2, <1>3
    <3> QED
      BY <2>1, <3>1, <1>2 DEF SyncQueue
  <2>2. CASE j \notin DOMAIN ps_outbox /\ i \in DOMAIN ps_outbox
    <3>1. ps_outbox'[i] = ps_outbox[i] /\ ps_outbox[i] \in Sync!Queued
      BY <2>2, <1>2 DEF Sync!Queued
    <3>2. j - Len(ps_outbox) \in DOMAIN t /\ ps_outbox'[j] = t[j - Len(ps_outbox)]
      BY <2>2, <1>2
    <3> QED
      BY <3>1, <3>2
  <2>3. CASE j \notin DOMAIN ps_outbox /\ i \notin DOMAIN ps_outbox
    <3>1. /\ j - Len(ps_outbox) \in DOMAIN t /\ ps_outbox'[j] = t[j - Len(ps_outbox)]
          /\ i - Len(ps_outbox) \in DOMAIN t /\ ps_outbox'[i] = t[i - Len(ps_outbox)]
      BY <2>3, <1>2
    <3>2. i - Len(ps_outbox) < j - Len(ps_outbox)
      BY <1>3
    <3> QED
      BY <3>1, <3>2
  <2> QED
    BY <2>1, <2>2, <2>3
<1>6. \A a : \A b \in Sync!Queued : SyncBefore(a, b)' => SyncBefore(a, b)
  <2> SUFFICES ASSUME NEW a, NEW b \in Sync!Queued,
                      NEW i \in DOMAIN ps_outbox', NEW j \in DOMAIN ps_outbox', i < j,
                      ps_outbox'[i] = a, ps_outbox'[j] = b
               PROVE  SyncBefore(a, b)
    BY DEF SyncBefore
  <2>1. j \in DOMAIN ps_outbox
    BY <1>2
  <2>2. i \in DOMAIN ps_outbox
    BY <2>1, <1>2, <1>3
  <2> QED
    BY <2>1, <2>2, <1>2 DEF SyncBefore
<1> QED
  BY <1>2, <1>4, <1>5, <1>6

\* What a step does that sends nothing, hears nothing and enqueues nothing.
SyncFewer ==
    \A r \in SyncRequests' : \E q \in SyncRequests :
        r.m = q.m /\ r.row = q.row /\ (r.reply = "ok" => q.reply = "ok")

SyncGrows ==
    \A o \in Sales : ps_local[o] # None =>
        /\ ps_local'[o] # None
        /\ ps_local[o].items \subseteq ps_local'[o].items
        /\ ps_local[o].fired => ps_local'[o].fired
        /\ ps_local[o].paid => ps_local'[o].paid /\ ps_local'[o].items = ps_local[o].items

\* The type of what changes, and which requests are left.
LEMMA SyncDies ==
    ASSUME SyncBounds, Sync!TypeOK, Sync!Die
    PROVE  /\ ps_engine' = Sync!Idle /\ ps_flight' = None /\ ps_screen' = None
           /\ ps_strays' \subseteq Sync!Request
           /\ SyncFewer
<1> USE DEF Sync!Die
<1>1. ps_flight # None => ps_flight \in Sync!Request
  BY DEF Sync!TypeOK
<1>2. ps_flight # None =>
        LET r == [ps_flight EXCEPT !.reply = "none"]
        IN  r \in Sync!Request /\ r.m = ps_flight.m /\ r.row = ps_flight.row /\ r.reply = "none"
  BY <1>1 DEF Sync!Request
<1>3. SyncRequests' = ps_strays'
  BY DEF SyncRequests
<1>4. CASE ps_flight = None
  BY <1>3, <1>4 DEF SyncFewer, SyncRequests, Sync!TypeOK
<1>5. CASE ps_flight # None
  <2> DEFINE r == [ps_flight EXCEPT !.reply = "none"]
  <2>1. ps_strays' = ps_strays \cup {r}
    BY <1>5
  <2>2. r \in Sync!Request /\ r.m = ps_flight.m /\ r.row = ps_flight.row /\ r.reply = "none"
    BY <1>5, <1>2
  <2> HIDE DEF r
  <2>3. SyncFewer
    BY <1>3, <1>5, <2>1, <2>2 DEF SyncFewer, SyncRequests
  <2> QED
    BY <2>1, <2>2, <2>3 DEF Sync!TypeOK
<1> QED
  BY <1>4, <1>5

\* What the five taps that write have in common.
SyncMayWrite(o, row, muts, next) ==
    /\ o \in Sales /\ row \in Sync!Row /\ muts \in Seq(Sync!Mutation)
    /\ next \in {None, ps_screen, o}
    /\ \A i \in DOMAIN muts :
         /\ muts[i].order = o /\ muts[i] \notin SyncMuts
         /\ IF muts[i].kind = "append" THEN muts[i].items # {}
                 /\ muts[i].items \subseteq row.items
            ELSE muts[i].items = {}
         /\ muts[i].kind = "fire" => row.fired
         /\ muts[i].kind = "settle" => row.paid
         /\ \A m \in SyncMuts : m.order = o =>
              /\ m.kind # "settle" /\ muts[i].kind # "create"
              /\ m.kind = "append" /\ muts[i].kind = "append" => m.items \cap muts[i].items = {}
    /\ \A i, j \in DOMAIN muts : i < j =>
         /\ muts[i] # muts[j] /\ muts[i].kind # "settle"
         /\ muts[j].kind \notin {"create", "append"}
    /\ IF ps_local[o] = None THEN ~row.server /\ ps_screen # o
       ELSE /\ ps_local[o].items \subseteq row.items
            /\ ps_local[o].fired => row.fired
            /\ ~ps_local[o].paid
            /\ row.server = ps_local[o].server
    /\ row.status # "synced"
    /\ row.paid => row.status # "open_tab" /\ next # o

\* The types of what is queued, sent and claimed.
LEMMA SyncMutRange ==
    ASSUME Sync!TypeOK
    PROVE  /\ SyncMuts \subseteq Sync!Mutation
           /\ Sync!Queued \subseteq SyncMuts
           /\ SyncRequests \subseteq Sync!Request
           /\ \A r \in SyncRequests : r.m \in Sync!Mutation /\ r.row \in Sync!Row
                   /\ r.m \in SyncMuts
           /\ ps_claims \subseteq SyncMuts
<1>1. SyncRequests \subseteq Sync!Request
  BY DEF Sync!TypeOK, SyncRequests
<1>2. \A r \in SyncRequests : r.m \in Sync!Mutation /\ r.row \in Sync!Row
  BY <1>1 DEF Sync!Request
<1>3. Sync!Queued \subseteq Sync!Mutation
  BY DEF Sync!TypeOK, Sync!Queued
<1> QED
  BY <1>1, <1>2, <1>3 DEF SyncMuts, Sync!TypeOK

\* A tap that writes what it may, whether or not the process dies between its statements.
LEMMA SyncTapKeeps ==
    ASSUME SyncBounds, SyncIInv, NEW o, NEW row, NEW muts, NEW next,
           SyncMayWrite(o, row, muts, next), Sync!Write(o, row, muts, next)
    PROVE  SyncIInv'
<1> USE DEF SyncIInv
<1>a. /\ o \in Sales /\ row \in Sync!Row /\ muts \in Seq(Sync!Mutation) /\ row # None
      /\ next \in {None, ps_screen, o} /\ next \in Sales \cup {None}
  BY DEF SyncMayWrite, SyncBounds, Sync!TypeOK
<1>b. DOMAIN muts = 1..Len(muts) /\ Len(muts) \in Nat
  BY <1>a
<1>1. PICK t \in Seq(Sync!Mutation) :
        /\ \A i \in DOMAIN t : i \in DOMAIN muts /\ t[i] = muts[i]
        /\ ps_outbox' = ps_outbox \o t
        /\ \/ ps_screen' = next /\ UNCHANGED <<ps_engine, ps_flight, ps_strays>>
           \/ Sync!Die
  <2>1. CASE ps_outbox' = ps_outbox \o muts /\ ps_screen' = next
             /\ UNCHANGED <<ps_engine, ps_flight, ps_strays>>
    BY <2>1, <1>a
  <2>2. CASE (\E n \in 0 .. Len(muts) - 1 : ps_outbox' = ps_outbox \o SubSeq(muts, 1, n))
           /\ Sync!Die
    <3>1. PICK n \in 0 .. Len(muts) - 1 : ps_outbox' = ps_outbox \o SubSeq(muts, 1, n)
      BY <2>2
    <3>2. 1 \in Int /\ n \in Int /\ \A i \in 1..n : muts[i] \in Sync!Mutation
      BY <1>a, <1>b
    <3> DEFINE u == SubSeq(muts, 1, n)
    <3>3. /\ u \in Seq(Sync!Mutation)
          /\ Len(u) = IF 1 <= n THEN n - 1 + 1 ELSE 0
          /\ \A i \in 1 .. n - 1 + 1 : u[i] = muts[1 + i - 1]
      BY <3>2, SubSeqProperties
    <3> HIDE DEF u
    <3>4. Len(u) = n /\ \A i \in 1..n : u[i] = muts[i]
      BY <3>3, <1>b
    <3>5. DOMAIN u = 1..n
      BY <3>3, <3>4
    <3>6. \A i \in DOMAIN u : i \in DOMAIN muts /\ u[i] = muts[i]
      BY <3>4, <3>5, <1>b
    <3>7. ps_outbox' = ps_outbox \o u
      BY <3>1 DEF u
    <3> QED
      BY <3>3, <3>6, <3>7, <2>2
  <2> QED
    BY <2>1, <2>2 DEF Sync!Write
<1>2. /\ ps_local' = [ps_local EXCEPT ![o] = row]
      /\ UNCHANGED <<ps_parked, ps_server, ps_claims>>
  BY DEF Sync!Write
<1>3. /\ ps_local' \in [Sales -> Sync!Row \cup {None}] /\ ps_local'[o] = row
      /\ \A p \in Sales : p # o => ps_local'[p] = ps_local[p]
  BY <1>a, <1>2 DEF Sync!TypeOK
<1>4. SyncMuts \subseteq Sync!Mutation /\ Sync!Queued \subseteq SyncMuts
      /\ SyncRequests \subseteq Sync!Request
  BY SyncMutRange
<1>5. \A i \in DOMAIN t :
        /\ t[i].order = o /\ t[i] \notin SyncMuts /\ t[i] \in Sync!Mutation
        /\ IF t[i].kind = "append" THEN t[i].items # {} /\ t[i].items \subseteq row.items
           ELSE t[i].items = {}
        /\ t[i].kind = "fire" => row.fired
        /\ t[i].kind = "settle" => row.paid
        /\ \A m \in SyncMuts : m.order = o =>
             /\ m.kind # "settle" /\ t[i].kind # "create"
             /\ m.kind = "append" /\ t[i].kind = "append" => m.items \cap t[i].items = {}
  BY <1>1, <1>a DEF SyncMayWrite
<1>6. \A i, j \in DOMAIN t : i < j =>
         /\ t[i] # t[j] /\ t[i].kind # "settle"
         /\ t[j].kind \notin {"create", "append"}
  BY <1>1 DEF SyncMayWrite
<1>7. /\ ps_outbox' \in Seq(Sync!Mutation)
      /\ Sync!Queued' = Sync!Queued \cup {t[i] : i \in DOMAIN t}
      /\ SyncQueue'
      /\ \A a : \A b \in Sync!Queued : SyncBefore(a, b)' => SyncBefore(a, b)
  <2>1. \A i \in DOMAIN t : t[i] \notin Sync!Queued /\ t[i].order = o
    BY <1>4, <1>5
  <2>2. \A i, j \in DOMAIN t : i < j =>
          t[i] # t[j] /\ t[i].kind # "settle" /\ t[j].kind # "create"
    BY <1>6
  <2>3. \A i \in DOMAIN t : \A m \in Sync!Queued :
          m.order = o => m.kind # "settle" /\ t[i].kind # "create"
    BY <1>4, <1>5
  <2>4. o \in Sales /\ t \in Seq(Sync!Mutation) /\ ps_outbox' = ps_outbox \o t
    BY <1>a, <1>1
  <2> QED
    BY <2>1, <2>2, <2>3, <2>4, SyncPutIn
<1>8. /\ SyncFewer
      /\ \/ ps_screen' = next /\ UNCHANGED <<ps_engine, ps_flight, ps_strays>>
         \/ ps_screen' = None /\ ps_engine' = Sync!Idle /\ ps_flight' = None
            /\ ps_strays' \subseteq Sync!Request
  BY <1>1, SyncDies DEF SyncFewer, SyncRequests
<1>9. SyncGrows
  BY <1>a, <1>3 DEF SyncGrows, SyncMayWrite
<1>10. SyncMuts' \subseteq SyncMuts \cup {t[i] : i \in DOMAIN t}
  BY <1>2, <1>7, <1>8 DEF SyncMuts, SyncFewer
<1>11. Sync!TypeOK'
  <2>1. Sync!Idle \in [on : BOOLEAN, todo : Seq(Sync!Mutation), blocked : SUBSET Sales]
    BY DEF Sync!Idle
  <2>2. ps_parked' \subseteq Sync!Queued'
    BY <1>2, <1>7 DEF Sync!TypeOK
  <2>3. ps_screen' \in Sales \cup {None}
    BY <1>8, <1>a
  <2>4. /\ ps_flight' \in Sync!Request \cup {None} /\ ps_strays' \subseteq Sync!Request
        /\ ps_engine' \in [on : BOOLEAN, todo : Seq(Sync!Mutation), blocked : SUBSET Sales]
    BY <1>8, <2>1 DEF Sync!TypeOK
  <2> QED
    BY <1>2, <1>3, <1>7, <2>2, <2>3, <2>4 DEF Sync!TypeOK
<1>12. SyncMutsAreKnown'
  <2>1. \A m \in SyncMuts : SyncKnown(m)'
    BY <1>4, <1>9 DEF SyncMutsAreKnown, SyncKnown, SyncGrows, Sync!Mutation
  <2>2. \A i \in DOMAIN t : SyncKnown(t[i])'
    <3> SUFFICES ASSUME NEW i \in DOMAIN t, NEW m, m = t[i] PROVE SyncKnown(m)'
      OBVIOUS
    <3> QED
      BY <1>3, <1>5, <1>a DEF SyncKnown
  <2> QED
    BY <1>10, <2>1, <2>2 DEF SyncMutsAreKnown
<1>13. SyncDisjoint'
  <2>1. \A i, j \in DOMAIN t : t[i].kind = "append" /\ t[j].kind = "append" => t[i] = t[j]
    <3>1. DOMAIN t \subseteq Nat
      OBVIOUS
    <3>2. \A i, j \in DOMAIN t : i < j \/ j < i \/ i = j
      BY <3>1
    <3> QED
      BY <3>2, <1>6
  <2> QED
    BY <1>5, <1>10, <2>1 DEF SyncDisjoint
<1>14. SyncFrozen'
  BY <1>a, <1>3, <1>8 DEF SyncFrozen, SyncMayWrite, Sync!TypeOK, SyncBounds
<1>15. SyncLanded'
  <2>1. \A p \in Sales :
         /\ ps_server'[p] # None => ps_local'[p] # None
         /\ ps_local'[p] # None /\ (ps_local'[p].server \/ ps_local'[p].status = "synced") =>
              ps_server'[p] # None
    BY <1>2, <1>3, <1>a DEF SyncLanded, SyncMayWrite
  <2> QED
    BY <1>2, <1>8, <2>1 DEF SyncLanded, SyncFewer
<1>16. SyncCounted'
  BY <1>2 DEF SyncCounted, SyncClaimed
<1>17. SyncRunIsQueued'
  <2>1. CASE UNCHANGED <<ps_engine, ps_flight>>
    BY <2>1, <1>2, <1>7 DEF SyncRunIsQueued
  <2>2. CASE ps_engine' = Sync!Idle /\ ps_flight' = None
    BY <2>2 DEF SyncRunIsQueued, Sync!Idle
  <2> QED
    BY <2>1, <2>2, <1>8
<1>18. SyncRunInOrder'
  <2>0. \A a, b : SyncBefore(a, b) => a \in Sync!Queued
    BY DEF SyncBefore, Sync!Queued
  <2>1. \A m \in ps_parked' : \A a \in Sync!Queued' : a.order = m.order => ~SyncBefore(a, m)'
    BY <2>0, <1>2, <1>7 DEF SyncRunInOrder, Sync!TypeOK
  <2>2. CASE UNCHANGED <<ps_engine, ps_flight>>
    <3>1. \A k \in DOMAIN ps_engine.todo : ps_engine.todo[k] \in Sync!Queued
      BY DEF SyncRunIsQueued
    <3>2. ps_flight # None => ps_flight.m \in Sync!Queued
      BY DEF SyncRunIsQueued
    <3> QED
      BY <2>0, <2>1, <2>2, <3>1, <3>2, <1>7 DEF SyncRunInOrder
  <2>3. CASE ps_engine' = Sync!Idle /\ ps_flight' = None
    <3>1. DOMAIN ps_engine'.todo = {}
      BY <2>3 DEF Sync!Idle
    <3> QED
      BY <2>1, <2>3, <3>1 DEF SyncRunInOrder
  <2> QED
    BY <2>2, <2>3, <1>8
<1> QED
  BY <1>7, <1>11, <1>12, <1>13, <1>14, <1>15, <1>16, <1>17, <1>18

\* A sale, or a tab that is opened, is written of an order there was nothing of.
LEMMA SyncSellMay ==
    ASSUME SyncBounds, SyncIInv, NEW o \in Sales, NEW items \in SUBSET Items, NEW p \in BOOLEAN,
           NEW s \in Sync!Statuses, p => s = "pending_sync", s # "synced", ps_local[o] = None
    PROVE  SyncMayWrite(o, Sync!Draft(s, p, items), <<Sync!Mut(o, "create", {})>>, ps_screen)
<1> DEFINE row == Sync!Draft(s, p, items)
           m == Sync!Mut(o, "create", {})
<1>1. /\ row \in Sync!Row /\ row.status = s /\ row.paid = p /\ ~row.server
  BY SyncDraftType
<1>2. m \in Sync!Mutation /\ m.order = o /\ m.kind = "create" /\ m.items = {}
  BY SyncMutType
<1>3. \A n \in SyncMuts : n.order # o
  BY DEF SyncIInv, SyncMutsAreKnown, SyncKnown
<1>4. ps_screen # o
  BY DEF SyncIInv, SyncFrozen, SyncBounds
<1> HIDE DEF row, m
<1>5. <<m>> \in Seq(Sync!Mutation) /\ DOMAIN <<m>> = {1} /\ <<m>>[1] = m
  BY <1>2
<1>6. SyncMayWrite(o, row, <<m>>, ps_screen)
  BY <1>1, <1>2, <1>3, <1>4, <1>5 DEF SyncMayWrite
<1> QED
  BY <1>6 DEF row, m

\* The tab on screen can still be rung on.
LEMMA SyncOnScreen ==
    ASSUME SyncBounds, SyncIInv, NEW o \in Sales, ps_screen = o
    PROVE  /\ ps_local[o] \in Sync!Row /\ ps_local[o] # None /\ ~ps_local[o].paid
           /\ \A m \in SyncMuts : m.order = o =>
                /\ m.kind # "settle"
                /\ m.kind = "append" => m.items \subseteq ps_local[o].items
                /\ m.kind = "fire" => ps_local[o].fired
<1>1. ps_local[o] # None /\ ps_local[o] \in Sync!Row
  BY DEF SyncIInv, SyncFrozen, SyncBounds, Sync!TypeOK
<1>2. ~ps_local[o].paid
  BY <1>1 DEF SyncIInv, SyncFrozen
<1> QED
  BY <1>1, <1>2 DEF SyncIInv, SyncMutsAreKnown, SyncKnown

\* An append is of lines no other append has.
LEMMA SyncAppendMay ==
    ASSUME SyncBounds, SyncIInv, NEW o \in Sales, NEW delta \in SUBSET Items, ps_screen = o,
           delta # {}, delta \cap ps_local[o].items = {}
    PROVE  SyncMayWrite(o, [ps_local[o] EXCEPT !.status = "open_tab", !.items = @ \cup delta],
                        <<Sync!Mut(o, "append", delta)>>, None)
<1> DEFINE row == [ps_local[o] EXCEPT !.status = "open_tab", !.items = @ \cup delta]
           m == Sync!Mut(o, "append", delta)
<1>0. /\ ps_local[o] \in Sync!Row /\ ps_local[o] # None /\ ~ps_local[o].paid
      /\ \A n \in SyncMuts : n.order = o =>
           /\ n.kind # "settle"
           /\ n.kind = "append" => n.items \subseteq ps_local[o].items
  BY SyncOnScreen
<1>1. /\ row \in Sync!Row /\ row.status = "open_tab" /\ ~row.paid
           /\ row.server = ps_local[o].server
      /\ row.items = ps_local[o].items \cup delta /\ row.fired = ps_local[o].fired
  BY <1>0 DEF Sync!Row, Sync!Statuses
<1>2. m \in Sync!Mutation /\ m.order = o /\ m.kind = "append" /\ m.items = delta
  BY SyncMutType
<1> HIDE DEF row, m
<1>3. m \notin SyncMuts
  BY <1>0, <1>2
<1>5. <<m>> \in Seq(Sync!Mutation) /\ DOMAIN <<m>> = {1} /\ <<m>>[1] = m
  BY <1>2
<1>6. SyncMayWrite(o, row, <<m>>, None)
  BY <1>0, <1>1, <1>2, <1>3, <1>5 DEF SyncMayWrite
<1> QED
  BY <1>6 DEF row, m

\* A course is fired once.
LEMMA SyncFireMay ==
    ASSUME SyncBounds, SyncIInv, NEW o \in Sales, ps_screen = o, ~ps_local[o].fired
    PROVE  SyncMayWrite(o, [ps_local[o] EXCEPT !.status = "open_tab", !.fired = TRUE],
                        <<Sync!Mut(o, "fire", {})>>, o)
<1> DEFINE row == [ps_local[o] EXCEPT !.status = "open_tab", !.fired = TRUE]
           m == Sync!Mut(o, "fire", {})
<1>0. /\ ps_local[o] \in Sync!Row /\ ps_local[o] # None /\ ~ps_local[o].paid
      /\ \A n \in SyncMuts : n.order = o => n.kind # "settle" /\ n.kind # "fire"
  BY SyncOnScreen
<1>1. /\ row \in Sync!Row /\ row.status = "open_tab" /\ ~row.paid
           /\ row.server = ps_local[o].server
      /\ row.items = ps_local[o].items /\ row.fired
  BY <1>0 DEF Sync!Row, Sync!Statuses
<1>2. m \in Sync!Mutation /\ m.order = o /\ m.kind = "fire" /\ m.items = {}
  BY SyncMutType
<1> HIDE DEF row, m
<1>3. m \notin SyncMuts
  BY <1>0, <1>2
<1>5. <<m>> \in Seq(Sync!Mutation) /\ DOMAIN <<m>> = {1} /\ <<m>>[1] = m
  BY <1>2
<1>6. SyncMayWrite(o, row, <<m>>, o)
  BY <1>0, <1>1, <1>2, <1>3, <1>5 DEF SyncMayWrite
<1> QED
  BY <1>6 DEF row, m

\* What Settle queues.
SyncSettles(o, delta) ==
    (IF delta = {} THEN <<>>
       ELSE <<Sync!Mut(o, "append", delta)>>) \o <<Sync!Mut(o, "settle", {})>>

\* A settle comes last, after its own append.
LEMMA SyncSettleMay ==
    ASSUME SyncBounds, SyncIInv, NEW o \in Sales, NEW delta \in SUBSET Items, ps_screen = o,
           delta \cap ps_local[o].items = {}
    PROVE  SyncMayWrite(o, [ps_local[o] EXCEPT !.status = "pending_sync", !.paid = TRUE,
                                               !.items = @ \cup delta],
                        SyncSettles(o, delta), None)
<1> DEFINE row == [ps_local[o] EXCEPT !.status = "pending_sync", !.paid = TRUE,
       !.items = @ \cup delta]
           a == Sync!Mut(o, "append", delta)
           m == Sync!Mut(o, "settle", {})
           muts == SyncSettles(o, delta)
<1>n. None # o
  BY DEF SyncBounds
<1>0. /\ ps_local[o] \in Sync!Row /\ ps_local[o] # None /\ ~ps_local[o].paid
      /\ \A n \in SyncMuts : n.order = o =>
           /\ n.kind # "settle"
           /\ n.kind = "append" => n.items \subseteq ps_local[o].items
  BY SyncOnScreen
<1>1. /\ row \in Sync!Row /\ row.status = "pending_sync" /\ row.paid
           /\ row.server = ps_local[o].server
      /\ row.items = ps_local[o].items \cup delta /\ row.fired = ps_local[o].fired
  BY <1>0 DEF Sync!Row, Sync!Statuses
<1>2. /\ m \in Sync!Mutation /\ m.order = o /\ m.kind = "settle" /\ m.items = {}
      /\ a \in Sync!Mutation /\ a.order = o /\ a.kind = "append" /\ a.items = delta
  BY SyncMutType
<1>3. muts = (IF delta = {} THEN <<>> ELSE <<a>>) \o <<m>>
  BY DEF SyncSettles
<1> HIDE DEF row, m, a, muts
<1>4. m \notin SyncMuts /\ (delta # {} => a \notin SyncMuts)
  BY <1>0, <1>2
<1>5. CASE delta = {}
  <2>1. muts = <<m>>
    BY <1>2, <1>3, <1>5
  <2>2. muts \in Seq(Sync!Mutation) /\ DOMAIN muts = {1} /\ muts[1] = m
    BY <1>2, <2>1
  <2>3. SyncMayWrite(o, row, muts, None)
    BY <1>0, <1>1, <1>2, <1>4, <2>2, <1>n DEF SyncMayWrite
  <2> QED
    BY <2>3 DEF row, muts
<1>6. CASE delta # {}
  <2>1. muts = <<a>> \o <<m>> /\ <<a>> \in Seq(Sync!Mutation) /\ <<m>> \in Seq(Sync!Mutation)
    BY <1>2, <1>3, <1>6
  <2>9. /\ muts \in Seq(Sync!Mutation) /\ Len(muts) = Len(<<a>>) + Len(<<m>>)
        /\ \A i \in 1 .. Len(<<a>>) + Len(<<m>>) : muts[i] =
              IF i <= Len(<<a>>) THEN <<a>>[i] ELSE <<m>>[i - Len(<<a>>)]
    BY <2>1, ConcatProperties
  <2>2. muts \in Seq(Sync!Mutation) /\ DOMAIN muts = {1, 2} /\ muts[1] = a /\ muts[2] = m
    <3>1. Len(<<a>>) = 1 /\ Len(<<m>>) = 1 /\ <<a>>[1] = a /\ <<m>>[1] = m
      OBVIOUS
    <3>2. DOMAIN muts = 1..2
      BY <2>9, <3>1
    <3> QED
      BY <2>9, <3>1, <3>2
  <2>3. \A i, j \in DOMAIN muts : i < j => i = 1 /\ j = 2
    BY <2>2
  <2>4. \A i \in DOMAIN muts : muts[i] \in {a, m}
    BY <2>2
  <2>5. SyncMayWrite(o, row, muts, None)
    BY <1>0, <1>1, <1>2, <1>4, <1>6, <2>2, <2>3, <2>4, <1>n DEF SyncMayWrite
  <2> QED
    BY <2>5 DEF row, muts
<1> QED
  BY <1>5, <1>6

\* A step that sends nothing, reaches no server and enqueues nothing.
SyncQuiet ==
    /\ SyncFewer /\ SyncGrows
    /\ UNCHANGED <<ps_server, ps_claims>>
    /\ Sync!Queued' \subseteq Sync!Queued
    /\ \A o \in Sales : ps_local'[o] # None =>
         /\ ps_local[o] # None
         /\ ps_local'[o].server \/ ps_local'[o].status = "synced" => ps_server[o] # None

\* Such a step adds nothing to what there is a trace of.
LEMMA SyncQuietKeeps ==
    ASSUME SyncIInv, SyncQuiet
    PROVE  SyncMutsAreKnown' /\ SyncDisjoint' /\ SyncLanded' /\ SyncCounted'
<1> USE DEF SyncIInv, SyncQuiet
<1>1. SyncMuts' \subseteq SyncMuts
  BY DEF SyncMuts, SyncFewer
<1>2. SyncMuts \subseteq Sync!Mutation
  BY SyncMutRange
<1>3. SyncMutsAreKnown'
  <2>1. \A m \in SyncMuts : SyncKnown(m)'
    BY <1>2 DEF SyncMutsAreKnown, SyncKnown, SyncGrows, Sync!Mutation
  <2> QED
    BY <1>1, <2>1 DEF SyncMutsAreKnown
<1>4. SyncDisjoint'
  BY <1>1 DEF SyncDisjoint
<1>5. SyncLanded'
  BY DEF SyncLanded, SyncFewer, SyncGrows
<1>6. SyncCounted'
  BY DEF SyncCounted, SyncClaimed
<1> QED
  BY <1>3, <1>4, <1>5, <1>6

\* Rows that stay have what they had.
LEMMA SyncSameGrows == ASSUME UNCHANGED ps_local PROVE SyncGrows
BY DEF SyncGrows

\* Requests that stay are no more than they were.
LEMMA SyncSameRequests == ASSUME UNCHANGED <<ps_flight, ps_strays>> PROVE SyncFewer
BY DEF SyncFewer, SyncRequests

\* A run that is over, and the queue as it is.
LEMMA SyncRunOver ==
    ASSUME SyncIInv, ps_engine' = Sync!Idle, ps_flight' = None,
              UNCHANGED <<ps_outbox, ps_parked>>
    PROVE  SyncRunIsQueued' /\ SyncRunInOrder'
<1>1. DOMAIN ps_engine'.todo = {} /\ ps_engine'.todo = <<>> /\ ~ps_engine'.on
  BY DEF Sync!Idle
<1>2. \A a, b : SyncBefore(a, b)' <=> SyncBefore(a, b)
  BY DEF SyncBefore
<1>3. Sync!Queued' = Sync!Queued
  BY DEF Sync!Queued
<1> QED
  BY <1>1, <1>2, <1>3 DEF SyncIInv, SyncRunIsQueued, SyncRunInOrder

\* Only a tab that is not paid can be loaded.
LEMMA SyncLoadKeeps ==
    ASSUME SyncBounds, SyncIInv, NEW o \in Sales, Sync!LoadTab(o)
    PROVE  SyncIInv'
<1> USE DEF SyncIInv
<1>0. /\ UNCHANGED <<ps_local, ps_outbox, ps_parked, ps_engine, ps_flight, ps_strays,
           ps_server, ps_claims>>
      /\ ps_screen' = o /\ ps_local[o] # None /\ ps_local[o].status = "open_tab"
  BY DEF Sync!LoadTab
<1>1. Sync!TypeOK' /\ Sync!Queued' = Sync!Queued
  BY <1>0 DEF Sync!TypeOK, Sync!Queued
<1>2. SyncQueue' /\ \A a, b : SyncBefore(a, b)' <=> SyncBefore(a, b)
  BY <1>0 DEF SyncQueue, SyncBefore
<1>3. SyncQuiet
  BY <1>0, <1>1, SyncSameGrows, SyncSameRequests DEF SyncQuiet, SyncLanded
<1>4. SyncFrozen'
  BY <1>0 DEF SyncFrozen
<1>5. SyncRunIsQueued' /\ SyncRunInOrder'
  BY <1>0, <1>1, <1>2 DEF SyncRunIsQueued, SyncRunInOrder
<1> QED
  BY <1>1, <1>2, <1>3, <1>4, <1>5, SyncQuietKeeps

\* The Retry button unparks and changes a status.
LEMMA SyncRetryKeeps ==
    ASSUME SyncBounds, SyncIInv, NEW o \in Sales, Sync!RetrySync(o)
    PROVE  SyncIInv'
<1> USE DEF SyncIInv
<1>0. /\ UNCHANGED <<ps_outbox, ps_screen, ps_engine, ps_flight, ps_strays, ps_server,
           ps_claims>>
      /\ ps_parked' \subseteq ps_parked
      /\ ps_local[o] # None /\ ps_local' = [ps_local EXCEPT ![o].status = "pending_sync"]
  BY DEF Sync!RetrySync
<1>r. ps_local[o] \in Sync!Row
  BY <1>0 DEF Sync!TypeOK
<1>s. /\ ps_local' \in [Sales -> Sync!Row \cup {None}]
      /\ \A p \in Sales : p # o => ps_local'[p] = ps_local[p]
      /\ ps_local'[o] = [ps_local[o] EXCEPT !.status = "pending_sync"]
      /\ ps_local'[o] \in Sync!Row /\ ps_local'[o] # None
              /\ ps_local'[o].status = "pending_sync"
      /\ ps_local'[o].items = ps_local[o].items /\ ps_local'[o].paid = ps_local[o].paid
      /\ ps_local'[o].fired = ps_local[o].fired /\ ps_local'[o].server = ps_local[o].server
  BY <1>0, <1>r DEF Sync!TypeOK, Sync!Row, Sync!Statuses, SyncBounds
<1>1. Sync!TypeOK' /\ Sync!Queued' = Sync!Queued
  BY <1>0, <1>s DEF Sync!TypeOK, Sync!Queued
<1>2. SyncQueue' /\ \A a, b : SyncBefore(a, b)' <=> SyncBefore(a, b)
  BY <1>0 DEF SyncQueue, SyncBefore
<1>3. SyncGrows
  BY <1>s DEF SyncGrows
<1>4. SyncQuiet
  BY <1>0, <1>1, <1>3, <1>s, SyncSameRequests DEF SyncQuiet, SyncLanded
<1>5. SyncFrozen'
  BY <1>0, <1>s DEF SyncFrozen, Sync!TypeOK
<1>6. SyncRunIsQueued' /\ SyncRunInOrder'
  BY <1>0, <1>1, <1>2 DEF SyncRunIsQueued, SyncRunInOrder
<1> QED
  BY <1>1, <1>2, <1>4, <1>5, <1>6, SyncQuietKeeps

\* A process that dies leaves the queue and its request.
LEMMA SyncKillKeeps ==
    ASSUME SyncBounds, SyncIInv, Sync!Kill
    PROVE  SyncIInv'
<1> USE DEF SyncIInv
<1>0. UNCHANGED <<ps_local, ps_outbox, ps_parked, ps_server, ps_claims>> /\ Sync!Die
  BY DEF Sync!Kill
<1>a. /\ ps_engine' = Sync!Idle /\ ps_flight' = None /\ ps_screen' = None
      /\ ps_strays' \subseteq Sync!Request
      /\ SyncFewer
  BY <1>0, SyncDies
<1>1. Sync!TypeOK' /\ Sync!Queued' = Sync!Queued
  BY <1>0, <1>a DEF Sync!TypeOK, Sync!Queued, Sync!Idle
<1>2. SyncQueue'
  BY <1>0 DEF SyncQueue
<1>3. SyncQuiet
  BY <1>0, <1>a, <1>1, SyncSameGrows DEF SyncQuiet, SyncLanded
<1>4. SyncFrozen'
  BY <1>0, <1>a DEF SyncFrozen, SyncBounds
<1> QED
  BY <1>0, <1>a, <1>1, <1>2, <1>3, <1>4, SyncQuietKeeps, SyncRunOver

\* A run that ends has nothing left.
LEMMA SyncFinishKeeps ==
    ASSUME SyncBounds, SyncIInv, Sync!FinishRun
    PROVE  SyncIInv'
<1> USE DEF SyncIInv
<1>0. /\ UNCHANGED <<ps_local, ps_outbox, ps_parked, ps_screen, ps_flight, ps_strays,
           ps_server, ps_claims>>
      /\ ps_engine' = Sync!Idle /\ ps_flight' = None
  BY DEF Sync!FinishRun, Sync!register
<1>1. Sync!TypeOK' /\ Sync!Queued' = Sync!Queued
  BY <1>0 DEF Sync!TypeOK, Sync!Queued, Sync!Idle
<1>2. SyncQueue' /\ SyncFrozen'
  BY <1>0 DEF SyncQueue, SyncFrozen
<1>3. SyncQuiet
  BY <1>0, <1>1, SyncSameGrows, SyncSameRequests DEF SyncQuiet, SyncLanded
<1> QED
  BY <1>0, <1>1, <1>2, <1>3, SyncQuietKeeps, SyncRunOver

\* A request nobody awaits is a request still.
LEMMA SyncTimeOutKeeps ==
    ASSUME SyncBounds, SyncIInv, Sync!TimeOut
    PROVE  SyncIInv'
<1> USE DEF SyncIInv
<1>0. /\ UNCHANGED <<ps_local, ps_outbox, ps_parked, ps_screen, ps_server, ps_claims>>
      /\ ps_engine' = Sync!Idle /\ ps_flight' = None /\ ps_flight # None
      /\ ps_strays' = ps_strays \/ ps_strays' = ps_strays \cup {ps_flight}
  BY DEF Sync!TimeOut, Sync!register
<1>1. Sync!TypeOK' /\ Sync!Queued' = Sync!Queued
  BY <1>0 DEF Sync!TypeOK, Sync!Queued, Sync!Idle
<1>2. SyncQueue' /\ SyncFrozen'
  BY <1>0 DEF SyncQueue, SyncFrozen
<1>3. SyncFewer
  BY <1>0 DEF SyncFewer, SyncRequests
<1>4. SyncQuiet
  BY <1>0, <1>1, <1>3, SyncSameGrows DEF SyncQuiet, SyncLanded
<1> QED
  BY <1>0, <1>1, <1>2, <1>4, SyncQuietKeeps, SyncRunOver

\* The snapshot is the queue, and parked mutations block their orders.
LEMMA SyncStartKeeps ==
    ASSUME SyncBounds, SyncIInv, Sync!StartRun
    PROVE  SyncIInv'
<1> USE DEF SyncIInv
<1>0. /\ UNCHANGED <<ps_local, ps_outbox, ps_parked, ps_screen, ps_flight, ps_strays,
           ps_server, ps_claims>>
      /\ ps_engine' = [on |-> TRUE, todo |-> ps_outbox, blocked |-> {m.order : m \in ps_parked}]
      /\ ~ps_engine.on
  BY DEF Sync!StartRun, Sync!register
<1>a. ps_engine'.on /\ ps_engine'.todo = ps_outbox
         /\ ps_engine'.blocked = {m.order : m \in ps_parked}
      /\ ps_flight = None
  BY <1>0 DEF SyncRunIsQueued
<1>b. ps_parked \subseteq Sync!Mutation
  BY SyncMutRange DEF Sync!TypeOK
<1>1. Sync!TypeOK' /\ Sync!Queued' = Sync!Queued
  <2>1. ps_engine' \in [on : BOOLEAN, todo : Seq(Sync!Mutation), blocked : SUBSET Sales]
    <3>1. ps_outbox \in Seq(Sync!Mutation) /\ {m.order : m \in ps_parked} \subseteq Sales
      BY <1>b DEF Sync!TypeOK, Sync!Mutation
    <3> QED
      BY <1>0, <3>1
  <2> QED
    BY <1>0, <2>1 DEF Sync!TypeOK, Sync!Queued
<1>2. SyncQueue' /\ SyncFrozen' /\ \A a, b : SyncBefore(a, b)' <=> SyncBefore(a, b)
  BY <1>0 DEF SyncQueue, SyncFrozen, SyncBefore
<1>3. SyncQuiet
  BY <1>0, <1>1, SyncSameGrows, SyncSameRequests DEF SyncQuiet, SyncLanded
<1>4. SyncRunIsQueued'
  BY <1>0, <1>a, <1>1 DEF SyncRunIsQueued, SyncQueue, Sync!Queued
<1>5. SyncRunInOrder'
  <2>1. DOMAIN ps_outbox \subseteq Nat
    BY DEF Sync!TypeOK
  <2>2. \A i, j \in DOMAIN ps_outbox : ps_outbox[i] = ps_outbox[j] => i = j
    <3>1. \A i, j \in DOMAIN ps_outbox : i < j \/ j < i \/ i = j
      BY <2>1
    <3> QED
      BY <3>1 DEF SyncQueue
  <2>3. \A k \in DOMAIN ps_outbox : \A a : SyncBefore(a, ps_outbox[k]) =>
          \E j \in DOMAIN ps_outbox : j < k /\ ps_outbox[j] = a
    BY <2>2 DEF SyncBefore
  <2> QED
    BY <1>0, <1>a, <1>1, <1>2, <2>3 DEF SyncRunInOrder
<1> QED
  BY <1>1, <1>2, <1>3, <1>4, <1>5, SyncQuietKeeps

\* The mutation a run comes to.
LEMMA SyncHead ==
    ASSUME SyncIInv, ps_engine.on, ps_flight = None, ps_engine.todo # <<>>
    PROVE  LET m == Head(ps_engine.todo)
               rest == Tail(ps_engine.todo)
           IN  /\ m \in Sync!Queued /\ m \in Sync!Mutation /\ m.order \in Sales
               /\ ps_local[m.order] # None /\ ps_local[m.order] \in Sync!Row
               /\ rest \in Seq(Sync!Mutation) /\ DOMAIN rest \subseteq Nat
               /\ 1 \in DOMAIN ps_engine.todo /\ ps_engine.todo[1] = m
               /\ \A i \in DOMAIN rest :
                    i + 1 \in DOMAIN ps_engine.todo /\ rest[i] = ps_engine.todo[i + 1]
               /\ \A i \in DOMAIN ps_engine.todo : i # 1 =>
                    i - 1 \in DOMAIN rest /\ rest[i - 1] = ps_engine.todo[i]
               /\ \A i \in DOMAIN rest : rest[i] # m
               /\ m.order \notin ps_engine.blocked =>
                    \A a \in Sync!Queued : a.order = m.order => ~SyncBefore(a, m)
<1> USE DEF SyncIInv
<1> DEFINE s == ps_engine.todo
           m == Head(s)
           rest == Tail(s)
<1>0. s \in Seq(Sync!Mutation) /\ s # <<>>
  BY DEF Sync!TypeOK
<1> HIDE DEF s
<1>1. /\ m \in Sync!Mutation /\ rest \in Seq(Sync!Mutation) /\ Len(rest) = Len(s) - 1
      /\ \A i \in 1 .. Len(rest) : rest[i] = s[i + 1]
  BY <1>0, HeadTailProperties
<1>2. Len(s) \in Nat \ {0} /\ DOMAIN s = 1..Len(s) /\ s[1] = m
  BY <1>0
<1> HIDE DEF m, rest
<1>3. DOMAIN rest = 1..(Len(s) - 1)
  BY <1>1
<1>4. \A i \in DOMAIN rest : i \in Nat /\ i + 1 \in DOMAIN s /\ rest[i] = s[i + 1] /\ 1 < i + 1
  BY <1>1, <1>2, <1>3
<1>5. \A i \in DOMAIN s : i # 1 => i - 1 \in DOMAIN rest /\ rest[i - 1] = s[i]
  <2> SUFFICES ASSUME NEW i \in DOMAIN s, i # 1
      PROVE i - 1 \in DOMAIN rest /\ rest[i - 1] = s[i]
    OBVIOUS
  <2>1. i - 1 \in 1..(Len(s) - 1) /\ (i - 1) + 1 = i
    BY <1>2
  <2> QED
    BY <2>1, <1>3, <1>4
<1>6. \A i \in DOMAIN rest : rest[i] # m
  BY <1>2, <1>4 DEF SyncRunIsQueued, s
<1>7. m \in Sync!Queued
  BY <1>2 DEF SyncRunIsQueued, s
<1>8. m.order \in Sales /\ ps_local[m.order] # None /\ ps_local[m.order] \in Sync!Row
  BY <1>1, <1>7, SyncMutRange DEF Sync!Mutation, SyncMutsAreKnown, SyncKnown, Sync!TypeOK
<1>9. m.order \notin ps_engine.blocked => \A a \in Sync!Queued : a.order = m.order
         => ~SyncBefore(a, m)
  <2> SUFFICES ASSUME m.order \notin ps_engine.blocked, NEW a \in Sync!Queued,
             a.order = m.order,
                      SyncBefore(a, m)
               PROVE  FALSE
    OBVIOUS
  <2>1. 1 \in DOMAIN s /\ s[1] = m
    BY <1>2
  <2>2. \E j \in DOMAIN s : j < 1 /\ s[j] = a
    BY <2>1 DEF SyncRunInOrder, s
  <2> QED
    BY <2>2, <1>2
<1> QED
  BY <1>1, <1>2, <1>3, <1>4, <1>5, <1>6, <1>7, <1>8, <1>9 DEF s, m, rest

\* What is sent is the first of its order in the queue, and a create unless the server
\* has the order.
LEMMA SyncPushKeeps ==
    ASSUME SyncBounds, SyncIInv, Sync!Push
    PROVE  SyncIInv'
<1> USE DEF SyncIInv
<1> DEFINE m == Head(ps_engine.todo)
           rest == Tail(ps_engine.todo)
           req == [m |-> m, row |-> ps_local[m.order], reply |-> "none"]
<1>0. /\ UNCHANGED <<ps_local, ps_outbox, ps_parked, ps_screen, ps_strays, ps_server,
           ps_claims>>
      /\ ps_engine.on /\ ps_flight = None /\ ps_engine.todo # <<>>
      /\ \/ /\ m.order \in ps_engine.blocked
            /\ ps_engine' = [ps_engine EXCEPT !.todo = rest] /\ ps_flight' = None
         \/ /\ m.order \notin ps_engine.blocked
            /\ m.kind = "create" \/ ps_local[m.order].server
            /\ ps_engine' = [ps_engine EXCEPT !.todo = rest] /\ ps_flight' = req
         \/ ps_engine' = Sync!Idle /\ ps_flight' = None
  BY DEF Sync!Push, Sync!register
<1>1. /\ m \in Sync!Queued /\ m \in Sync!Mutation /\ m.order \in Sales
      /\ ps_local[m.order] # None /\ ps_local[m.order] \in Sync!Row
      /\ rest \in Seq(Sync!Mutation) /\ DOMAIN rest \subseteq Nat
      /\ 1 \in DOMAIN ps_engine.todo /\ ps_engine.todo[1] = m
      /\ \A i \in DOMAIN rest :
           i + 1 \in DOMAIN ps_engine.todo /\ rest[i] = ps_engine.todo[i + 1]
      /\ \A i \in DOMAIN ps_engine.todo : i # 1 =>
           i - 1 \in DOMAIN rest /\ rest[i - 1] = ps_engine.todo[i]
      /\ \A i \in DOMAIN rest : rest[i] # m
      /\ m.order \notin ps_engine.blocked =>
           \A a \in Sync!Queued : a.order = m.order => ~SyncBefore(a, m)
  BY <1>0, SyncHead
<1> HIDE DEF m, rest
<1>q. Sync!Queued' = Sync!Queued
  BY <1>0 DEF Sync!Queued
<1>2. SyncQueue' /\ SyncFrozen' /\ \A a, b : SyncBefore(a, b)' <=> SyncBefore(a, b)
  BY <1>0 DEF SyncQueue, SyncFrozen, SyncBefore
<1>3. CASE ps_engine' = Sync!Idle /\ ps_flight' = None
  <2>1. Sync!TypeOK'
    BY <1>0, <1>q, <1>3 DEF Sync!TypeOK, Sync!Idle
  <2>2. SyncQuiet
    BY <1>0, <1>3, <1>q, SyncSameGrows, SyncSameRequests DEF SyncQuiet, SyncLanded
  <2> QED
    BY <1>0, <1>2, <1>3, <2>1, <2>2, SyncQuietKeeps, SyncRunOver
<1>4. CASE ps_engine' = [ps_engine EXCEPT !.todo = rest]
  <2>1. /\ ps_engine' \in [on : BOOLEAN, todo : Seq(Sync!Mutation), blocked : SUBSET Sales]
        /\ ps_engine'.on /\ ps_engine'.todo = rest /\ ps_engine'.blocked = ps_engine.blocked
    BY <1>0, <1>1, <1>4 DEF Sync!TypeOK
  <2>2. req \in Sync!Request /\ req.m = m /\ req.row = ps_local[m.order]
           /\ req.reply = "none" /\ req # None
    BY <1>1 DEF Sync!Request, SyncBounds
  <2>3. \/ ps_flight' = None /\ SyncRequests' = SyncRequests /\ m.order \in ps_engine.blocked
        \/ /\ ps_flight' = req /\ SyncRequests' = SyncRequests \cup {req}
           /\ m.order \notin ps_engine.blocked
           /\ m.kind = "create" \/ ps_local[m.order].server
    <3>1. Sync!Idle.on # ps_engine'.on
      BY <2>1 DEF Sync!Idle
    <3> HIDE DEF req
    <3> QED
      BY <1>0, <2>1, <2>2, <3>1 DEF SyncRequests
  <2> HIDE DEF req
  <2>4. Sync!TypeOK'
    BY <1>0, <1>q, <2>1, <2>2, <2>3 DEF Sync!TypeOK
  <2>5. SyncMuts' \subseteq SyncMuts
    BY <1>0, <1>1, <1>q, <2>2, <2>3 DEF SyncMuts
  <2>6. SyncMutsAreKnown' /\ SyncDisjoint'
    BY <1>0, <2>5 DEF SyncMutsAreKnown, SyncKnown, SyncDisjoint
  <2>7. SyncLanded'
    <3>1. \A r \in SyncRequests' :
            r.m.kind # "create" \/ r.reply = "ok" => ps_server[r.m.order] # None
      BY <1>1, <2>2, <2>3 DEF SyncLanded
    <3> QED
      BY <1>0, <3>1 DEF SyncLanded
  <2>8. SyncCounted'
    BY <1>0 DEF SyncCounted, SyncClaimed
  <2>9. SyncRunIsQueued'
    <3>1. \A i, j \in DOMAIN rest : i < j => rest[i] # rest[j]
      <4> SUFFICES ASSUME NEW i \in DOMAIN rest, NEW j \in DOMAIN rest, i < j
          PROVE rest[i] # rest[j]
        OBVIOUS
      <4>1. i + 1 < j + 1
        BY <1>1
      <4> QED
        BY <1>1, <4>1 DEF SyncRunIsQueued
    <3>2. \A i \in DOMAIN rest : rest[i] \in Sync!Queued
      BY <1>1 DEF SyncRunIsQueued
    <3> QED
      BY <1>0, <1>1, <1>q, <2>1, <2>2, <2>3, <3>1, <3>2 DEF SyncRunIsQueued
  <2>10. SyncRunInOrder'
    <3>1. ASSUME NEW k \in DOMAIN rest, NEW a \in Sync!Queued, SyncBefore(a, rest[k]),
                 a.order = rest[k].order, a.order \notin ps_engine.blocked
          PROVE  \/ \E j \in DOMAIN rest : j < k /\ rest[j] = a
                 \/ ps_flight' # None /\ ps_flight'.m = a
      <4>1. \E j \in DOMAIN ps_engine.todo : j < k + 1 /\ ps_engine.todo[j] = a
        BY <1>0, <1>1, <3>1 DEF SyncRunInOrder
      <4>2. PICK j \in DOMAIN ps_engine.todo : j < k + 1 /\ ps_engine.todo[j] = a
        BY <4>1
      <4>3. CASE j = 1
        BY <1>1, <2>2, <2>3, <3>1, <4>2, <4>3
      <4>4. CASE j # 1
        <5>1. j - 1 \in DOMAIN rest /\ rest[j - 1] = a
          BY <1>1, <4>2, <4>4
        <5>2. j - 1 < k
          <6>1. j \in Nat /\ k \in Nat
            BY <1>1 DEF Sync!TypeOK
          <6> QED
            BY <6>1, <4>2
        <5> QED
          BY <5>1, <5>2
      <4> QED
        BY <4>3, <4>4
    <3>2. ps_flight' # None => \A a \in Sync!Queued :
            a.order = ps_flight'.m.order => ~SyncBefore(a, ps_flight'.m)
      BY <1>1, <2>2, <2>3
    <3>3. \A k \in DOMAIN rest : \A a \in Sync!Queued :
             /\ SyncBefore(a, rest[k]) /\ a.order = rest[k].order
             /\ a.order \notin ps_engine.blocked
             => \/ \E j \in DOMAIN rest : j < k /\ rest[j] = a
                \/ ps_flight' # None /\ ps_flight'.m = a
      BY <3>1
    <3>4. \A b : b = ps_flight'.m => \A a : SyncBefore(a, b)' <=> SyncBefore(a, b)
      BY <1>2
    <3> QED
      BY <1>0, <1>2, <1>q, <2>1, <3>2, <3>3, <3>4 DEF SyncRunInOrder
  <2> QED
    BY <1>2, <2>4, <2>6, <2>7, <2>8, <2>9, <2>10
<1> QED
  BY <1>0, <1>3, <1>4

\* What the engine awaits.
LEMMA SyncAwaited ==
    ASSUME SyncIInv, ps_flight # None
    PROVE  /\ ps_flight \in Sync!Request /\ ps_flight.m \in Sync!Mutation
                /\ ps_flight.m \in Sync!Queued
           /\ ps_flight \in SyncRequests /\ ps_flight.m.order \in Sales
           /\ ps_local[ps_flight.m.order] # None /\ ps_local[ps_flight.m.order] \in Sync!Row
           /\ ps_engine.on /\ ps_flight.m.order \notin ps_engine.blocked
           /\ \A m \in ps_parked : m.order # ps_flight.m.order
<1> USE DEF SyncIInv
<1>1. ps_flight \in Sync!Request /\ ps_flight \in SyncRequests /\ ps_flight.m \in Sync!Mutation
  BY DEF Sync!TypeOK, SyncRequests, Sync!Request
<1>2. ps_flight.m.order \in Sales /\ ps_flight.m \in SyncMuts
  BY <1>1 DEF Sync!Mutation, SyncMuts
<1>3. ps_flight.m \in Sync!Queued /\ ps_engine.on /\ ps_flight.m.order \notin ps_engine.blocked
      /\ \A m \in ps_parked : m.order # ps_flight.m.order
  BY DEF SyncRunIsQueued
<1> QED
  BY <1>1, <1>2, <1>3 DEF SyncMutsAreKnown, SyncKnown, Sync!TypeOK

\* A change of a row's status and of whether its server id is known.
LEMMA SyncMarks ==
    ASSUME SyncBounds, SyncIInv, NEW o \in Sales, ps_local[o] # None,
           NEW s \in Sync!Statuses, NEW b \in BOOLEAN,
           s = "open_tab" => s = ps_local[o].status,
           b \/ s = "synced" => ps_server[o] # None,
           UNCHANGED <<ps_server, ps_screen>>,
           ps_local' = [ps_local EXCEPT ![o].server = b, ![o].status = s]
    PROVE  /\ ps_local' \in [Sales -> Sync!Row \cup {None}]
           /\ SyncGrows /\ SyncFrozen'
           /\ \A p \in Sales : ps_local'[p] # None =>
                /\ ps_local[p] # None
                /\ ps_local'[p].server \/ ps_local'[p].status = "synced" => ps_server[p] # None
<1> USE DEF SyncIInv
<1>1. ps_local[o] \in Sync!Row
  BY DEF Sync!TypeOK
<1>2. /\ ps_local' \in [Sales -> Sync!Row \cup {None}]
      /\ \A p \in Sales : p # o => ps_local'[p] = ps_local[p]
      /\ ps_local'[o] \in Sync!Row /\ ps_local'[o] # None
      /\ ps_local'[o].status = s /\ ps_local'[o].server = b
      /\ ps_local'[o].items = ps_local[o].items /\ ps_local'[o].paid = ps_local[o].paid
      /\ ps_local'[o].fired = ps_local[o].fired
  <2> DEFINE row == [ps_local[o] EXCEPT !.server = b, !.status = s]
  <2>1. ps_local' = [ps_local EXCEPT ![o] = row]
    BY <1>1 DEF Sync!TypeOK
  <2>2. /\ row \in Sync!Row /\ row # None /\ row.status = s /\ row.server = b
        /\ row.items = ps_local[o].items /\ row.paid = ps_local[o].paid
        /\ row.fired = ps_local[o].fired
    BY <1>1 DEF Sync!Row, SyncBounds
  <2> HIDE DEF row
  <2> QED
    BY ZenonT(60), <2>1, <2>2 DEF Sync!TypeOK
<1>3. SyncGrows
  BY <1>2 DEF SyncGrows
<1>4. SyncFrozen'
  <2>1. ps_screen # None => ps_local'[ps_screen] # None
    BY <1>2 DEF SyncFrozen, Sync!TypeOK
  <2>2. ASSUME NEW p \in Sales, ps_local'[p] # None, ps_local'[p].paid
        PROVE  ps_local'[p].status # "open_tab" /\ ps_screen # p
    <3>1. CASE p = o
      BY <1>2, <2>2, <3>1 DEF SyncFrozen
    <3>2. CASE p # o
      BY <1>2, <2>2, <3>2 DEF SyncFrozen
    <3> QED
      BY <3>1, <3>2
  <2> QED
    BY <2>1, <2>2 DEF SyncFrozen
<1>5. \A p \in Sales : ps_local'[p] # None =>
        /\ ps_local[p] # None
        /\ ps_local'[p].server \/ ps_local'[p].status = "synced" => ps_server[p] # None
  BY <1>2 DEF SyncLanded
<1> QED
  BY <1>2, <1>3, <1>4, <1>5

\* A refusal parks the oldest mutation of an order and blocks the order.
LEMMA SyncRefuseKeeps ==
    ASSUME SyncBounds, SyncIInv, NEW o \in Sales, Sync!Refuse(o)
    PROVE  SyncIInv'
<1> USE DEF SyncIInv
<1>0. /\ UNCHANGED <<ps_outbox, ps_screen, ps_strays, ps_server, ps_claims>>
      /\ ps_flight # None /\ ps_flight.m.order = o /\ ps_flight' = None
      /\ ps_parked' = ps_parked \cup {ps_flight.m}
      /\ ps_local' = [ps_local EXCEPT ![o].status = "failed"]
      /\ ps_engine' = [ps_engine EXCEPT !.blocked = @ \cup {o}]
  BY DEF Sync!Refuse
<1>1. /\ ps_flight.m \in Sync!Mutation /\ ps_flight.m \in Sync!Queued
      /\ ps_local[o] # None /\ ps_local[o] \in Sync!Row /\ ps_engine.on
  BY <1>0, SyncAwaited
<1>2. /\ ps_engine' \in [on : BOOLEAN, todo : Seq(Sync!Mutation), blocked : SUBSET Sales]
      /\ ps_engine'.on = ps_engine.on /\ ps_engine'.todo = ps_engine.todo
      /\ ps_engine'.blocked = ps_engine.blocked \cup {o}
  BY <1>0 DEF Sync!TypeOK
<1>3. /\ ps_local' \in [Sales -> Sync!Row \cup {None}]
      /\ SyncGrows /\ SyncFrozen'
      /\ \A p \in Sales : ps_local'[p] # None =>
           /\ ps_local[p] # None
           /\ ps_local'[p].server \/ ps_local'[p].status = "synced" => ps_server[p] # None
  <2>1. ps_local[o].server \in BOOLEAN /\ "failed" \in Sync!Statuses
    BY <1>1 DEF Sync!Row, Sync!Statuses
  <2>2. ps_local' = [ps_local EXCEPT ![o].server = ps_local[o].server, ![o].status = "failed"]
    BY <1>0, <1>1 DEF Sync!TypeOK, Sync!Row
  <2>3. ps_local[o].server \/ "failed" = "synced" => ps_server[o] # None
    BY <1>1 DEF SyncLanded
  <2>4. "failed" = "open_tab" => "failed" = ps_local[o].status
    OBVIOUS
  <2>5. UNCHANGED <<ps_server, ps_screen>>
    BY <1>0
  <2> QED
    BY <1>1, <2>1, <2>2, <2>3, <2>4, <2>5, SyncMarks
<1>4. Sync!TypeOK' /\ Sync!Queued' = Sync!Queued
  BY <1>0, <1>1, <1>2, <1>3 DEF Sync!TypeOK, Sync!Queued
<1>5. SyncQueue' /\ \A a, b : SyncBefore(a, b)' <=> SyncBefore(a, b)
  BY <1>0 DEF SyncQueue, SyncBefore
<1>6. SyncFewer
  BY <1>0 DEF SyncFewer, SyncRequests
<1>7. SyncQuiet
  BY <1>0, <1>3, <1>4, <1>6 DEF SyncQuiet
<1>8. SyncRunIsQueued'
  BY <1>0, <1>1, <1>2, <1>4 DEF SyncRunIsQueued
<1>9. SyncRunInOrder'
  <2>1. \A a \in Sync!Queued : a.order = o => ~SyncBefore(a, ps_flight.m)
    BY <1>0 DEF SyncRunInOrder
  <2>2. \A k \in DOMAIN ps_engine.todo : \A a \in Sync!Queued :
         /\ SyncBefore(a, ps_engine.todo[k]) /\ a.order = ps_engine.todo[k].order
         /\ a.order \notin ps_engine'.blocked
         => \E j \in DOMAIN ps_engine.todo : j < k /\ ps_engine.todo[j] = a
    BY <1>0, <1>2 DEF SyncRunInOrder
  <2> QED
    BY <1>0, <1>2, <1>4, <1>5, <2>1, <2>2 DEF SyncRunInOrder
<1> QED
  BY <1>3, <1>4, <1>5, <1>7, <1>8, <1>9, SyncQuietKeeps

\* An answer of success takes its mutation out of the queue.
LEMMA SyncAcceptKeeps ==
    ASSUME SyncBounds, SyncIInv, NEW o \in Sales, Sync!Accept(o)
    PROVE  SyncIInv'
<1> USE DEF SyncIInv
<1> DEFINE s == IF \/ ps_flight.m.kind = "settle"
                   \/ ps_flight.m.kind = "create" /\ ps_flight.row.status # "open_tab"
                THEN "synced" ELSE ps_local[o].status
<1>0. /\ UNCHANGED <<ps_parked, ps_screen, ps_engine, ps_strays, ps_server, ps_claims>>
      /\ ps_flight # None /\ ps_flight.m.order = o /\ ps_flight.reply = "ok"
              /\ ps_flight' = None
      /\ ps_outbox' = Sync!Without(ps_flight.m)
  BY DEF Sync!Accept
<1>1. /\ ps_flight.m \in Sync!Mutation /\ ps_flight.m \in Sync!Queued
           /\ ps_flight \in SyncRequests
      /\ ps_local[o] # None /\ ps_local[o] \in Sync!Row /\ ps_engine.on
      /\ \A m \in ps_parked : m.order # o
  BY <1>0, SyncAwaited
<1>2. ps_server[o] # None
  BY <1>0, <1>1 DEF SyncLanded
<1>3. ps_local' = [ps_local EXCEPT ![o].server = TRUE, ![o].status = s]
  BY <1>1 DEF Sync!Accept, Sync!TypeOK, Sync!Row
<1>4. s \in Sync!Statuses /\ (s = "open_tab" => s = ps_local[o].status)
  BY <1>1 DEF Sync!Row, Sync!Statuses
<1> HIDE DEF s
<1>5. /\ ps_local' \in [Sales -> Sync!Row \cup {None}]
      /\ SyncGrows /\ SyncFrozen'
      /\ \A p \in Sales : ps_local'[p] # None =>
           /\ ps_local[p] # None
           /\ ps_local'[p].server \/ ps_local'[p].status = "synced" => ps_server[p] # None
  BY <1>0, <1>1, <1>2, <1>3, <1>4, SyncMarks
<1>6. /\ ps_outbox' \in Seq(Sync!Mutation)
      /\ Sync!Queued' = Sync!Queued \ {ps_flight.m}
      /\ SyncQueue'
      /\ \A a, b : SyncBefore(a, b)' => SyncBefore(a, b)
  BY <1>0, <1>1, SyncTakenOut
<1>7. Sync!TypeOK'
  <2>1. ps_parked' \subseteq Sync!Queued'
    BY <1>0, <1>1, <1>6 DEF Sync!TypeOK
  <2> QED
    BY <1>0, <1>5, <1>6, <2>1 DEF Sync!TypeOK
<1>8. SyncFewer
  BY <1>0 DEF SyncFewer, SyncRequests
<1>9. SyncQuiet
  BY <1>0, <1>5, <1>6, <1>8 DEF SyncQuiet
<1>10. SyncRunIsQueued'
  BY <1>0, <1>1, <1>6 DEF SyncRunIsQueued
<1>11. SyncRunInOrder'
  <2>1. \A k \in DOMAIN ps_engine.todo : \A a \in Sync!Queued' :
         /\ SyncBefore(a, ps_engine.todo[k]) /\ a.order = ps_engine.todo[k].order
         /\ a.order \notin ps_engine.blocked
         => \E j \in DOMAIN ps_engine.todo : j < k /\ ps_engine.todo[j] = a
    BY <1>6 DEF SyncRunInOrder
  <2>2. \A m \in ps_parked : \A a \in Sync!Queued' : a.order = m.order => ~SyncBefore(a, m)
    BY <1>6 DEF SyncRunInOrder
  <2> QED
    BY <1>0, <1>6, <2>1, <2>2 DEF SyncRunInOrder
<1> QED
  BY <1>5, <1>6, <1>7, <1>9, <1>10, <1>11, SyncQuietKeeps

\* What the server has of an order once it has done as a mutation says.
SyncServed(o, base, added, paid) ==
    /\ ps_server' \in [Sales -> Sync!ServerOrder \cup {None}]
    /\ \A p \in Sales : p # o => ps_server'[p] = ps_server[p]
    /\ ps_server'[o] # None
    /\ ps_server'[o].base = base /\ ps_server'[o].added = added /\ ps_server'[o].paid = paid

SyncPerforms(m, row, reply) ==
    LET o == m.order
        all == ps_server[o]
    IN  \/ /\ UNCHANGED <<ps_server, ps_claims>>
           /\ reply = "ok" => (m.kind = "create" /\ all # None) \/ m \in ps_claims
        \/ /\ m.kind = "create" /\ all = None /\ reply = "ok" /\ ps_claims' = ps_claims
           /\ SyncServed(o, row.items, [i \in Items |-> 0], row.paid)
        \/ /\ m.kind = "append" /\ all # None /\ ~all.paid /\ reply = "ok"
           /\ m \notin ps_claims /\ ps_claims' = ps_claims \cup {m}
           /\ SyncServed(o, all.base,
                         [i \in Items |-> IF i \in m.items THEN all.added[i] + 1
                            ELSE all.added[i]],
                         all.paid)
        \/ /\ m.kind = "settle" /\ all # None /\ reply = "ok" /\ ps_claims' = ps_claims
           /\ SyncServed(o, all.base, all.added, TRUE)
        \/ /\ m.kind = "fire" /\ all # None /\ reply = "ok"
           /\ ps_claims' = ps_claims \cup {m} /\ UNCHANGED ps_server

\* What Perform comes to, answer by answer.
LEMMA SyncPerformed ==
    ASSUME SyncBounds, SyncIInv, NEW r \in SyncRequests, NEW reply \in {"ok", "refused"},
           Sync!Perform(r.m, r.row, reply)
    PROVE  SyncPerforms(r.m, r.row, reply)
<1> USE DEF SyncIInv
<1> DEFINE m == r.m
           row == r.row
           all == ps_server[m.order]
<1>1. m \in Sync!Mutation /\ row \in Sync!Row /\ m.order \in Sales
  BY SyncMutRange DEF Sync!Mutation
<1>2. ps_server \in [Sales -> Sync!ServerOrder \cup {None}]
  BY DEF Sync!TypeOK
<1>3. m.kind # "create" => all # None
  BY DEF SyncLanded
<1>4. all # None => all \in Sync!ServerOrder
  BY <1>1, <1>2
<1>5. \A x \in Sync!ServerOrder : ps_server' = [ps_server EXCEPT ![m.order] = x] =>
        SyncServed(m.order, x.base, x.added, x.paid)
  BY <1>1, <1>2 DEF SyncServed, SyncBounds
<1>6. m.kind \in {"create", "append", "fire", "settle"}
  BY <1>1 DEF Sync!Mutation
<1> HIDE DEF m, row
<1>7. CASE UNCHANGED <<ps_server, ps_claims>>
           /\ (reply = "ok" => (m.kind = "create" /\ all # None) \/ m \in ps_claims)
  BY <1>7 DEF SyncPerforms, m, row
<1>8. CASE /\ ~((m.kind = "create" /\ all # None) \/ m \in ps_claims)
           /\ ~(m.kind # "create" /\ all.paid) /\ reply = "ok"
           /\ ps_server' = [ps_server EXCEPT ![m.order] =
                CASE m.kind = "create" ->
                       [base |-> row.items, added |-> [i \in Items |-> 0], paid |-> row.paid]
                  [] m.kind = "append" ->
                       [@ EXCEPT !.added = Sync!Adding(m.order, m.items)]
                  [] m.kind = "settle" -> [@ EXCEPT !.paid = TRUE]
                  [] OTHER -> @]
           /\ ps_claims' = IF m.kind \in {"append", "fire"} THEN ps_claims \cup {m}
                   ELSE ps_claims
  <2>1. CASE m.kind = "create"
    <3> DEFINE x == [base |-> row.items, added |-> [i \in Items |-> 0], paid |-> row.paid]
    <3>1. x \in Sync!ServerOrder
      BY <1>1 DEF Sync!ServerOrder, Sync!Row
    <3>2. ps_server' = [ps_server EXCEPT ![m.order] = x]
      BY <1>8, <2>1
    <3>3. SyncServed(m.order, row.items, [i \in Items |-> 0], row.paid)
      BY <3>1, <3>2, <1>5
    <3> QED
      BY <1>8, <2>1, <3>3 DEF SyncPerforms, m, row
  <2>2. CASE m.kind = "append"
    <3> DEFINE added == [i \in Items |-> IF i \in m.items THEN all.added[i] + 1
           ELSE all.added[i]]
               x == [all EXCEPT !.added = added]
    <3>0. all \in Sync!ServerOrder /\ all # None
      BY <1>3, <1>4, <2>2
    <3>1. added \in [Items -> Nat]
      BY <3>0 DEF Sync!ServerOrder
    <3>2. ps_server' = [ps_server EXCEPT ![m.order] = x]
      BY <1>8, <2>2 DEF Sync!Adding
    <3> HIDE DEF added
    <3>3. x \in Sync!ServerOrder /\ x.base = all.base /\ x.added = added /\ x.paid = all.paid
      BY <3>0, <3>1 DEF Sync!ServerOrder
    <3>4. SyncServed(m.order, all.base, added, all.paid)
      BY <3>2, <3>3, <1>5
    <3> QED
      BY <1>8, <2>2, <3>0, <3>4 DEF SyncPerforms, m, row, added
  <2>3. CASE m.kind = "settle"
    <3> DEFINE x == [all EXCEPT !.paid = TRUE]
    <3>0. all \in Sync!ServerOrder /\ all # None
      BY <1>3, <1>4, <2>3
    <3>2. ps_server' = [ps_server EXCEPT ![m.order] = x]
      BY <1>8, <2>3
    <3>3. x \in Sync!ServerOrder /\ x.base = all.base /\ x.added = all.added /\ x.paid = TRUE
      BY <3>0 DEF Sync!ServerOrder
    <3>4. SyncServed(m.order, all.base, all.added, TRUE)
      BY <3>2, <3>3, <1>5
    <3> QED
      BY <1>8, <2>3, <3>0, <3>4 DEF SyncPerforms, m, row
  <2>4. CASE m.kind = "fire"
    <3>1. UNCHANGED ps_server
      BY <1>1, <1>2, <1>8, <2>4
    <3> QED
      BY <1>3, <1>8, <2>4, <3>1 DEF SyncPerforms, m, row
  <2> QED
    BY <1>6, <2>1, <2>2, <2>3, <2>4
<1> QED
  BY <1>7, <1>8 DEF Sync!Perform, Sync!Same, m, row

\* The server keeps what it has, and has what it accepts.
LEMMA SyncServerGrows ==
    ASSUME SyncBounds, SyncIInv, NEW r \in SyncRequests, NEW reply \in {"ok", "refused"},
           SyncPerforms(r.m, r.row, reply)
    PROVE  /\ r.m \in Sync!Mutation /\ r.m \in SyncMuts
           /\ ps_server' \in [Sales -> Sync!ServerOrder \cup {None}]
           /\ ps_claims' \subseteq ps_claims \cup {r.m}
           /\ \A p \in Sales : ps_server[p] # None => ps_server'[p] # None
           /\ \A p \in Sales : ps_server'[p] # None => ps_server[p] # None \/ p = r.m.order
           /\ reply = "ok" => ps_server'[r.m.order] # None
           /\ \A m \in ps_claims' : ps_server'[m.order] # None
<1> USE DEF SyncIInv
<1>1. r.m \in Sync!Mutation /\ r.m \in SyncMuts /\ r.m.order \in Sales
  BY SyncMutRange DEF Sync!Mutation
<1>2. ps_server \in [Sales -> Sync!ServerOrder \cup {None}] /\ ps_claims \subseteq Sync!Mutation
  BY DEF Sync!TypeOK
<1>3. \A m \in ps_claims : m.order \in Sales /\ ps_server[m.order] # None
  BY <1>2 DEF SyncLanded, Sync!Mutation
<1>4. /\ ps_server' \in [Sales -> Sync!ServerOrder \cup {None}]
      /\ ps_claims' \subseteq ps_claims \cup {r.m}
      /\ \A p \in Sales : ps_server[p] # None => ps_server'[p] # None
      /\ \A p \in Sales : ps_server'[p] # None => ps_server[p] # None \/ p = r.m.order
  BY <1>1, <1>2 DEF SyncPerforms, SyncServed
<1>5. (reply = "ok" \/ r.m \in ps_claims') => ps_server'[r.m.order] # None
  BY <1>1, <1>3 DEF SyncPerforms, SyncServed
<1> QED
  BY <1>1, <1>3, <1>4, <1>5

\* An append is counted when it is claimed, and lines of other appends are other lines.
LEMMA SyncCountsOn ==
    ASSUME SyncBounds, SyncIInv, NEW r \in SyncRequests, NEW reply \in {"ok", "refused"},
           SyncPerforms(r.m, r.row, reply)
    PROVE  SyncCounted'
<1> USE DEF SyncIInv
<1> DEFINE m == r.m
           all == ps_server[m.order]
<1>1. m \in Sync!Mutation /\ m \in SyncMuts /\ m.order \in Sales /\ r.row \in Sync!Row
  BY SyncMutRange DEF Sync!Mutation
<1>2. ps_server \in [Sales -> Sync!ServerOrder \cup {None}] /\ ps_claims \subseteq SyncMuts
  BY SyncMutRange DEF Sync!TypeOK
<1> HIDE DEF m
<1>3. CASE UNCHANGED <<ps_server, ps_claims>>
  BY <1>3 DEF SyncCounted, SyncClaimed
<1>4. CASE m.kind = "create" /\ all = None /\ ps_claims' = ps_claims
           /\ SyncServed(m.order, r.row.items, [i \in Items |-> 0], r.row.paid)
  <2>1. \A o \in Sales, i \in Items : SyncClaimed(o, i)' <=> SyncClaimed(o, i)
    BY <1>4 DEF SyncClaimed
  <2>2. \A i \in Items : ~SyncClaimed(m.order, i)
    BY <1>4 DEF SyncClaimed, SyncLanded
  <2> QED
    BY <1>1, <1>4, <2>1, <2>2 DEF SyncCounted, SyncServed
<1>5. CASE /\ m.kind = "append" /\ all # None /\ ps_claims' = ps_claims \cup {m}
                /\ m \notin ps_claims
           /\ SyncServed(m.order, all.base,
                         [i \in Items |-> IF i \in m.items THEN all.added[i] + 1
                            ELSE all.added[i]],
                         all.paid)
  <2>1. \A o \in Sales, i \in Items : o # m.order => (SyncClaimed(o, i)' <=> SyncClaimed(o, i))
    BY <1>5 DEF SyncClaimed
  <2>2. \A i \in Items : IF i \in m.items THEN SyncClaimed(m.order, i)'
           /\ ~SyncClaimed(m.order, i)
                                          ELSE SyncClaimed(m.order,
                                             i)' <=> SyncClaimed(m.order, i)
    <3>1. \A c \in ps_claims : c.kind = "append" /\ c.order = m.order
             => c.items \cap m.items = {}
      BY <1>1, <1>2, <1>5 DEF SyncDisjoint
    <3> QED
      BY <1>5, <3>1 DEF SyncClaimed
  <2>3. \A i \in Items : all.added[i] = IF SyncClaimed(m.order, i) THEN 1 ELSE 0
    BY <1>1, <1>5 DEF SyncCounted
  <2>4. \A i \in Items : ps_server'[m.order].added[i] = IF SyncClaimed(m.order, i)' THEN 1
           ELSE 0
    BY <1>5, <2>2, <2>3 DEF SyncServed
  <2>5. \A o \in Sales : o # m.order => ps_server'[o] = ps_server[o]
    BY <1>5 DEF SyncServed
  <2> QED
    BY <1>1, <2>1, <2>4, <2>5 DEF SyncCounted
<1>6. CASE m.kind = "settle" /\ all # None /\ ps_claims' = ps_claims
           /\ SyncServed(m.order, all.base, all.added, TRUE)
  <2>1. \A o \in Sales, i \in Items : SyncClaimed(o, i)' <=> SyncClaimed(o, i)
    BY <1>6 DEF SyncClaimed
  <2> QED
    BY <1>1, <1>6, <2>1 DEF SyncCounted, SyncServed
<1>7. CASE m.kind = "fire" /\ ps_claims' = ps_claims \cup {m} /\ UNCHANGED ps_server
  <2>1. \A o \in Sales, i \in Items : SyncClaimed(o, i)' <=> SyncClaimed(o, i)
    BY <1>7 DEF SyncClaimed
  <2> QED
    BY <1>7, <2>1 DEF SyncCounted
<1> QED
  BY <1>3, <1>4, <1>5, <1>6, <1>7 DEF SyncPerforms, m

\* A request that reaches the server, and an awaited one that is left with its answer.
SyncReaches(r, reply) ==
    /\ r \in SyncRequests /\ reply \in {"ok", "refused"}
    /\ SyncPerforms(r.m, r.row, reply)
    /\ UNCHANGED <<ps_local, ps_outbox, ps_parked, ps_screen, ps_engine>>
    /\ \/ /\ r = ps_flight /\ ps_flight # None /\ ps_strays' = ps_strays
          /\ ps_flight' \in Sync!Request /\ ps_flight'.m = r.m /\ ps_flight'.row = r.row
          /\ ps_flight'.reply = reply
       \/ r \in ps_strays /\ ps_strays' = ps_strays \ {r} /\ ps_flight' = ps_flight

\* The server takes one request, late or not.
LEMMA SyncReachKeeps ==
    ASSUME SyncBounds, SyncIInv, NEW r, NEW reply, SyncReaches(r, reply)
    PROVE  SyncIInv'
<1> USE DEF SyncIInv
<1>0. /\ r \in SyncRequests /\ reply \in {"ok", "refused"}
      /\ UNCHANGED <<ps_local, ps_outbox, ps_parked, ps_screen, ps_engine>>
      /\ SyncPerforms(r.m, r.row, reply)
  BY DEF SyncReaches
<1>1. /\ r.m \in Sync!Mutation /\ r.m \in SyncMuts
      /\ ps_server' \in [Sales -> Sync!ServerOrder \cup {None}]
      /\ ps_claims' \subseteq ps_claims \cup {r.m}
      /\ \A p \in Sales : ps_server[p] # None => ps_server'[p] # None
      /\ \A p \in Sales : ps_server'[p] # None => ps_server[p] # None \/ p = r.m.order
      /\ reply = "ok" => ps_server'[r.m.order] # None
      /\ \A m \in ps_claims' : ps_server'[m.order] # None
  BY <1>0, SyncServerGrows
<1>2. SyncCounted'
  BY <1>0, SyncCountsOn
<1>3. \A q \in SyncRequests' :
        \E p \in SyncRequests : q.m = p.m
           /\ (q.reply = "ok" => (p.reply = "ok" \/ (p = r /\ reply = "ok")))
  BY DEF SyncReaches, SyncRequests
<1>4. SyncMuts' \subseteq SyncMuts
  <2>1. Sync!Queued' = Sync!Queued
    BY <1>0 DEF Sync!Queued
  <2> QED
    BY <1>1, <1>3, <2>1 DEF SyncMuts
<1>5. SyncMutsAreKnown' /\ SyncDisjoint'
  BY <1>0, <1>4 DEF SyncMutsAreKnown, SyncKnown, SyncDisjoint
<1>6. SyncQueue' /\ SyncFrozen' /\ Sync!Queued' = Sync!Queued
      /\ \A a, b : SyncBefore(a, b)' <=> SyncBefore(a, b)
  BY <1>0 DEF SyncQueue, SyncFrozen, SyncBefore, Sync!Queued
<1>7. Sync!TypeOK'
  <2>1. ps_claims' \subseteq Sync!Mutation
    BY <1>1 DEF Sync!TypeOK
  <2>2. ps_flight' \in Sync!Request \cup {None} /\ ps_strays' \subseteq Sync!Request
    BY DEF SyncReaches, Sync!TypeOK
  <2> QED
    BY <1>0, <1>1, <1>6, <2>1, <2>2 DEF Sync!TypeOK
<1>8. SyncLanded'
  <2>1. \A p \in SyncRequests : p.m.order \in Sales
    BY SyncMutRange DEF Sync!Mutation
  <2>2. ps_local[r.m.order] # None
    BY <1>1 DEF SyncMutsAreKnown, SyncKnown
  <2>3. \A q \in SyncRequests' :
          q.m.kind # "create" \/ q.reply = "ok" => ps_server'[q.m.order] # None
    BY <1>1, <1>3, <2>1 DEF SyncLanded
  <2> QED
    BY <1>0, <1>1, <2>2, <2>3 DEF SyncLanded
<1>9. /\ ps_flight' = None <=> ps_flight = None
      /\ ps_flight # None => ps_flight'.m = ps_flight.m
  BY DEF SyncReaches, SyncBounds
<1>10. SyncRunIsQueued'
  BY <1>0, <1>6, <1>9 DEF SyncRunIsQueued
<1>11. SyncRunInOrder'
  BY <1>0, <1>6, <1>9 DEF SyncRunInOrder
<1> QED
  BY <1>2, <1>5, <1>6, <1>7, <1>8, <1>10, <1>11

\* Such a step is the awaited request being served.
LEMMA SyncServeReaches ==
    ASSUME SyncBounds, SyncIInv, NEW o \in Sales, Sync!Serve(o)
    PROVE  \E reply : SyncReaches(ps_flight, reply)
<1> USE DEF SyncIInv
<1>1. PICK reply \in {"ok", "refused"} :
        /\ Sync!Perform(ps_flight.m, ps_flight.row, reply)
        /\ ps_flight' = [ps_flight EXCEPT !.reply = reply]
        /\ ps_flight # None
        /\ UNCHANGED <<ps_local, ps_outbox, ps_parked, ps_screen, ps_engine, ps_strays>>
  BY DEF Sync!Serve, Sync!register
<1>2. ps_flight \in Sync!Request /\ ps_flight \in SyncRequests
  BY <1>1, SyncAwaited
<1>3. ps_flight' \in Sync!Request /\ ps_flight'.m = ps_flight.m
         /\ ps_flight'.row = ps_flight.row
      /\ ps_flight'.reply = reply
  BY <1>1, <1>2 DEF Sync!Request
<1>4. SyncPerforms(ps_flight.m, ps_flight.row, reply)
  BY <1>1, <1>2, SyncPerformed
<1>5. SyncReaches(ps_flight, reply)
  BY <1>1, <1>2, <1>3, <1>4 DEF SyncReaches
<1> QED
  BY <1>5

\* And so is one served that nobody awaits.
LEMMA SyncStrayReaches ==
    ASSUME SyncBounds, SyncIInv, NEW r \in ps_strays, Sync!ServeStray(r)
    PROVE  \E reply : SyncReaches(r, reply)
<1> USE DEF SyncIInv
<1>1. PICK reply \in {"ok", "refused"} : Sync!Perform(r.m, r.row, reply)
  BY DEF Sync!ServeStray
<1>2. r \in SyncRequests
  BY DEF SyncRequests
<1>3. SyncPerforms(r.m, r.row, reply)
  BY <1>1, <1>2, SyncPerformed
<1>4. SyncReaches(r, reply)
  BY <1>2, <1>3 DEF SyncReaches, Sync!ServeStray, Sync!register
<1> QED
  BY <1>4

\* A register that has sold nothing.
LEMMA SyncInitIInv == ASSUME SyncBounds, Sync!Init PROVE SyncIInv
<1> USE DEF Sync!Init
<1>1. Sync!Queued = {} /\ SyncRequests = {} /\ SyncMuts = {}
  BY DEF Sync!Queued, SyncRequests, SyncMuts
<1>2. Sync!TypeOK
  BY DEF Sync!TypeOK, Sync!Idle
<1>3. DOMAIN ps_outbox = {} /\ DOMAIN ps_engine.todo = {} /\ ~ps_engine.on
         /\ ps_engine.todo = <<>>
  BY DEF Sync!Idle
<1>4. SyncQueue /\ SyncMutsAreKnown /\ SyncDisjoint /\ SyncFrozen
  BY <1>1, <1>3 DEF SyncQueue, SyncMutsAreKnown, SyncDisjoint, SyncFrozen
<1>5. SyncLanded /\ SyncCounted
  BY <1>1 DEF SyncLanded, SyncCounted
<1>6. SyncRunIsQueued /\ SyncRunInOrder
  BY <1>1, <1>3 DEF SyncRunIsQueued, SyncRunInOrder
<1> QED
  BY <1>2, <1>4, <1>5, <1>6 DEF SyncIInv

\* A step of another part.
LEMMA SyncStillKeeps == ASSUME SyncIInv, UNCHANGED Sync!vars PROVE SyncIInv'
<1> USE DEF Sync!vars
<1>1. Sync!Queued' = Sync!Queued /\ SyncRequests' = SyncRequests /\ SyncMuts' = SyncMuts
      /\ \A a, b : SyncBefore(a, b)' <=> SyncBefore(a, b)
  BY DEF Sync!Queued, SyncRequests, SyncMuts, SyncBefore
<1>2. Sync!TypeOK'
  BY <1>1 DEF SyncIInv, Sync!TypeOK
<1>3. SyncQueue' /\ SyncMutsAreKnown' /\ SyncDisjoint' /\ SyncFrozen'
  BY <1>1 DEF SyncIInv, SyncQueue, SyncMutsAreKnown, SyncKnown, SyncDisjoint, SyncFrozen
<1>4. SyncLanded' /\ SyncCounted'
  BY <1>1 DEF SyncIInv, SyncLanded, SyncCounted, SyncClaimed
<1>5. SyncRunIsQueued' /\ SyncRunInOrder'
  BY <1>1 DEF SyncIInv, SyncRunIsQueued, SyncRunInOrder
<1> QED
  BY <1>2, <1>3, <1>4, <1>5 DEF SyncIInv

\* Every tap that writes is one that may.
LEMMA SyncTapsMay ==
    ASSUME SyncBounds, SyncIInv, NEW o \in Sales, NEW items \in SUBSET Items,
           \/ Sync!Sell(o, items) \/ Sync!OpenTab(o, items)
           \/ Sync!AppendToTab(o, items) \/ Sync!Settle(o, items) \/ Sync!FireCourse(o)
    PROVE  \E row, muts, next : SyncMayWrite(o, row, muts, next)
       /\ Sync!Write(o, row, muts, next)
<1>1. CASE Sync!Sell(o, items)
  <2>1. "pending_sync" \in Sync!Statuses /\ ps_local[o] = None
    BY <1>1 DEF Sync!Sell, Sync!Statuses
  <2>2. SyncMayWrite(o, Sync!Draft("pending_sync", TRUE, items),
           <<Sync!Mut(o, "create", {})>>, ps_screen)
    BY <2>1, SyncSellMay
  <2> QED
    BY <1>1, <2>2 DEF Sync!Sell
<1>2. CASE Sync!OpenTab(o, items)
  <2>1. "open_tab" \in Sync!Statuses /\ ps_local[o] = None
    BY <1>2 DEF Sync!OpenTab, Sync!Statuses
  <2>2. SyncMayWrite(o, Sync!Draft("open_tab", FALSE, items), <<Sync!Mut(o, "create", {})>>,
           ps_screen)
    BY <2>1, SyncSellMay
  <2> QED
    BY <1>2, <2>2 DEF Sync!OpenTab
<1>3. CASE Sync!AppendToTab(o, items)
  <2>1. SyncMayWrite(o, [ps_local[o] EXCEPT !.status = "open_tab", !.items = @ \cup items],
                     <<Sync!Mut(o, "append", items)>>, None)
    BY <1>3, SyncAppendMay DEF Sync!AppendToTab
  <2> QED
    BY <1>3, <2>1 DEF Sync!AppendToTab
<1>4. CASE Sync!Settle(o, items)
  <2>1. SyncMayWrite(o, [ps_local[o] EXCEPT !.status = "pending_sync", !.paid = TRUE,
                                            !.items = @ \cup items],
                     SyncSettles(o, items), None)
    BY <1>4, SyncSettleMay DEF Sync!Settle
  <2> QED
    BY <1>4, <2>1 DEF Sync!Settle, SyncSettles
<1>5. CASE Sync!FireCourse(o)
  <2>1. SyncMayWrite(o, [ps_local[o] EXCEPT !.status = "open_tab", !.fired = TRUE],
                     <<Sync!Mut(o, "fire", {})>>, o)
    BY <1>5, SyncFireMay DEF Sync!FireCourse
  <2> QED
    BY <1>5, <2>1 DEF Sync!FireCourse
<1> QED
  BY <1>1, <1>2, <1>3, <1>4, <1>5

\* Every step keeps the invariant, whatever faults there are.
LEMMA SyncNextIInv == ASSUME SyncBounds, SyncIInv, [Sync!Next]_(Sync!vars) PROVE SyncIInv'
<1>1. ASSUME NEW o \in Sales, NEW items \in SUBSET Items,
             \/ Sync!Sell(o, items) \/ Sync!OpenTab(o, items)
             \/ Sync!AppendToTab(o, items) \/ Sync!Settle(o, items) \/ Sync!FireCourse(o)
      PROVE  SyncIInv'
  BY <1>1, SyncTapsMay, SyncTapKeeps
<1>2. ASSUME NEW o \in Sales, Sync!LoadTab(o) \/ Sync!RetrySync(o) PROVE SyncIInv'
  BY <1>2, SyncLoadKeeps, SyncRetryKeeps
<1>3. CASE Sync!Kill \/ Sync!StartRun \/ Sync!Push \/ Sync!FinishRun \/ Sync!TimeOut
  BY <1>3, SyncKillKeeps, SyncStartKeeps, SyncPushKeeps, SyncFinishKeeps, SyncTimeOutKeeps
<1>4. ASSUME NEW o \in Sales, Sync!Accept(o) \/ Sync!Refuse(o) PROVE SyncIInv'
  BY <1>4, SyncAcceptKeeps, SyncRefuseKeeps
<1>5. ASSUME NEW o \in Sales, Sync!Serve(o) PROVE SyncIInv'
  BY <1>5, SyncServeReaches, SyncReachKeeps
<1>6. ASSUME NEW r \in ps_strays, Sync!ServeStray(r) PROVE SyncIInv'
  BY <1>6, SyncStrayReaches, SyncReachKeeps
<1>7. CASE UNCHANGED Sync!vars
  BY <1>7, SyncStillKeeps
<1>8. {} \in SUBSET Items
  OBVIOUS
<1> QED
  BY <1>1, <1>2, <1>3, <1>4, <1>5, <1>6, <1>7, <1>8 DEF Sync!Next, Sync!Tap

\* The composition starts as the register does, and each of its steps is one of the
\* register's or leaves it alone.
LEMMA SyncStarts == Init => Sync!Init
  BY DEF Init

LEMMA SyncSteps == [Next]_vars => [Sync!Next]_(Sync!vars)
  BY DEF Next, SyncNext, TenantNext, MenuNext, CallNext,
     vars, SyncVars, Sync!vars

\* A line is added once at most, however often its append is sent, whatever is lost,
\* late, refused or torn.
THEOREM SyncRetryAddsNothing == ASSUME SyncBounds PROVE Sync!Spec => []Sync!RetryAddsNothing
<1>1. Sync!Init => SyncIInv
  BY SyncInitIInv
<1>2. SyncIInv /\ [Sync!Next]_(Sync!vars) => SyncIInv'
  BY SyncNextIInv
<1>3. SyncIInv => Sync!RetryAddsNothing
  BY DEF SyncIInv, SyncCounted, Sync!RetryAddsNothing
<1> QED BY <1>1, <1>2, <1>3, PTL DEF Sync!Spec

\* The outbox among the other workers: the same of every behaviour of the composition.
THEOREM RetryAddsNothingAll == Spec => []RetryAddsNothing
<1>1. Init => SyncIInv
  BY SyncStarts, SyncAssumption, SyncInitIInv
<1>2. SyncIInv /\ [Next]_vars => SyncIInv'
  BY SyncSteps, SyncAssumption, SyncNextIInv
<1>3. SyncIInv => RetryAddsNothing
  BY DEF RetryAddsNothing, SyncIInv, SyncCounted, Sync!RetryAddsNothing
<1> QED
  BY <1>1, <1>2, <1>3, PTL DEF Spec

\* What a tap queues says all there is to say of what it writes.
SyncSaysAll(o, row, muts) ==
    IF ps_local[o] = None THEN \E k \in DOMAIN muts : muts[k] = Sync!Mut(o, "create", {})
    ELSE /\ \A i \in row.items \ ps_local[o].items :
              \E k \in DOMAIN muts : muts[k].kind = "append" /\ i \in muts[k].items
         /\ row.paid => \E k \in DOMAIN muts : muts[k] = Sync!Mut(o, "settle", {})

\* The taps as they are write all they queue and queue all they write.
LEMMA SyncTapsSayAll ==
    ASSUME SyncBounds, SyncIInv, NEW o \in Sales, NEW items \in SUBSET Items,
           \/ Sync!Sell(o, items) \/ Sync!OpenTab(o, items)
           \/ Sync!AppendToTab(o, items) \/ Sync!Settle(o, items) \/ Sync!FireCourse(o)
    PROVE  \E row, muts, next :
              SyncMayWrite(o, row, muts, next) /\ SyncSaysAll(o, row, muts)
                 /\ Sync!Write(o, row, muts, next)
<1>1. CASE Sync!Sell(o, items)
  <2>1. "pending_sync" \in Sync!Statuses /\ ps_local[o] = None
    BY <1>1 DEF Sync!Sell, Sync!Statuses
  <2>2. SyncMayWrite(o, Sync!Draft("pending_sync", TRUE, items),
           <<Sync!Mut(o, "create", {})>>, ps_screen)
    BY <2>1, SyncSellMay
  <2>3. SyncSaysAll(o, Sync!Draft("pending_sync", TRUE, items), <<Sync!Mut(o, "create", {})>>)
    BY <2>1 DEF SyncSaysAll
  <2> QED
    BY <1>1, <2>2, <2>3 DEF Sync!Sell
<1>2. CASE Sync!OpenTab(o, items)
  <2>1. "open_tab" \in Sync!Statuses /\ ps_local[o] = None
    BY <1>2 DEF Sync!OpenTab, Sync!Statuses
  <2>2. SyncMayWrite(o, Sync!Draft("open_tab", FALSE, items), <<Sync!Mut(o, "create", {})>>,
           ps_screen)
    BY <2>1, SyncSellMay
  <2>3. SyncSaysAll(o, Sync!Draft("open_tab", FALSE, items), <<Sync!Mut(o, "create", {})>>)
    BY <2>1 DEF SyncSaysAll
  <2> QED
    BY <1>2, <2>2, <2>3 DEF Sync!OpenTab
<1>3. CASE Sync!AppendToTab(o, items)
  <2> DEFINE row == [ps_local[o] EXCEPT !.status = "open_tab", !.items = @ \cup items]
             m == Sync!Mut(o, "append", items)
  <2>1. SyncMayWrite(o, row, <<m>>, None)
    BY <1>3, SyncAppendMay DEF Sync!AppendToTab
  <2>2. ps_local[o] \in Sync!Row /\ ps_local[o] # None /\ ~ps_local[o].paid
    BY <1>3, SyncOnScreen DEF Sync!AppendToTab
  <2>3. row.items = ps_local[o].items \cup items /\ ~row.paid
    BY <2>2 DEF Sync!Row
  <2>4. m.kind = "append" /\ m.items = items
    BY SyncMutType
  <2> HIDE DEF row, m
  <2>5. SyncSaysAll(o, row, <<m>>)
    BY <2>2, <2>3, <2>4 DEF SyncSaysAll
  <2>6. Sync!Write(o, row, <<m>>, None)
    BY <1>3 DEF Sync!AppendToTab, row, m
  <2> QED
    BY <2>1, <2>5, <2>6 DEF row, m
<1>4. CASE Sync!Settle(o, items)
  <2> DEFINE row == [ps_local[o] EXCEPT !.status = "pending_sync", !.paid = TRUE,
         !.items = @ \cup items]
             a == Sync!Mut(o, "append", items)
             m == Sync!Mut(o, "settle", {})
             muts == SyncSettles(o, items)
  <2>1. SyncMayWrite(o, row, muts, None)
    BY <1>4, SyncSettleMay DEF Sync!Settle
  <2>2. ps_local[o] \in Sync!Row /\ ps_local[o] # None /\ ~ps_local[o].paid
    BY <1>4, SyncOnScreen DEF Sync!Settle
  <2>3. row.items = ps_local[o].items \cup items
    BY <2>2 DEF Sync!Row
  <2>4. a.kind = "append" /\ a.items = items /\ a \in Sync!Mutation /\ m \in Sync!Mutation
    BY SyncMutType
  <2>5. muts = (IF items = {} THEN <<>> ELSE <<a>>) \o <<m>>
    BY DEF SyncSettles
  <2>6. Sync!Write(o, row, muts, None)
    BY <1>4 DEF Sync!Settle, SyncSettles
  <2> HIDE DEF row, a, muts, m
  <2>7. SyncSaysAll(o, row, muts)
    <3>1. CASE items = {}
      <4>1. muts = <<m>>
        BY <2>4, <2>5, <3>1
      <4>2. 1 \in DOMAIN muts /\ muts[1] = m
        BY <4>1
      <4> QED
        BY <2>2, <2>3, <3>1, <4>2 DEF SyncSaysAll, m
    <3>2. CASE items # {}
      <4>1. <<a>> \in Seq(Sync!Mutation) /\ <<m>> \in Seq(Sync!Mutation)
               /\ muts = <<a>> \o <<m>>
        BY <2>4, <2>5, <3>2
      <4>2. /\ \A i \in DOMAIN <<a>> : i \in DOMAIN muts /\ muts[i] = <<a>>[i]
            /\ \A i \in DOMAIN <<m>> : Len(<<a>>) + i \in DOMAIN muts
                    /\ muts[Len(<<a>>) + i] = <<m>>[i]
        BY <4>1, SyncEnqueue
      <4>3. (\E k \in DOMAIN muts : muts[k] = a) /\ \E k \in DOMAIN muts : muts[k] = m
        <5>1. 1 \in DOMAIN <<a>> /\ <<a>>[1] = a /\ 1 \in DOMAIN <<m>> /\ <<m>>[1] = m
          OBVIOUS
        <5> QED
          BY <4>2, <5>1
      <4> QED
        BY <2>2, <2>3, <2>4, <4>3 DEF SyncSaysAll, m
    <3> QED
      BY <3>1, <3>2
  <2> QED
    BY <2>1, <2>6, <2>7
<1>5. CASE Sync!FireCourse(o)
  <2> DEFINE row == [ps_local[o] EXCEPT !.status = "open_tab", !.fired = TRUE]
             m == Sync!Mut(o, "fire", {})
  <2>1. SyncMayWrite(o, row, <<m>>, o)
    BY <1>5, SyncFireMay DEF Sync!FireCourse
  <2>2. ps_local[o] \in Sync!Row /\ ps_local[o] # None /\ ~ps_local[o].paid
    BY <1>5, SyncOnScreen DEF Sync!FireCourse
  <2>3. row.items = ps_local[o].items /\ ~row.paid
    BY <2>2 DEF Sync!Row
  <2> HIDE DEF row, m
  <2>4. SyncSaysAll(o, row, <<m>>)
    BY <2>2, <2>3 DEF SyncSaysAll
  <2>5. Sync!Write(o, row, <<m>>, o)
    BY <1>5 DEF Sync!FireCourse, row, m
  <2> QED
    BY <2>1, <2>4, <2>5 DEF row, m
<1> QED
  BY <1>1, <1>2, <1>3, <1>4, <1>5

\* If no tap is torn, what it shows is queued.
LEMMA SyncTapIsHeard ==
    ASSUME SyncBounds, "tear" \notin Faults, SyncIInv, SyncHeard,
           NEW o, NEW row, NEW muts, NEW next,
           SyncMayWrite(o, row, muts, next), SyncSaysAll(o, row, muts),
              Sync!Write(o, row, muts, next)
    PROVE  SyncHeard'
<1> USE DEF SyncHeard
<1>1. /\ ps_outbox' = ps_outbox \o muts /\ ps_local' = [ps_local EXCEPT ![o] = row]
      /\ UNCHANGED <<ps_flight, ps_strays, ps_server, ps_claims>>
  BY DEF Sync!Write
<1>2. /\ o \in Sales /\ row \in Sync!Row /\ row # None /\ muts \in Seq(Sync!Mutation)
      /\ \A i \in DOMAIN muts : muts[i].order = o
      /\ IF ps_local[o] = None THEN TRUE
         ELSE ps_local[o].items \subseteq row.items /\ ~ps_local[o].paid
            /\ row.server = ps_local[o].server
  BY DEF SyncMayWrite, SyncBounds
<1>3. /\ ps_local'[o] = row /\ \A p \in Sales : p # o => ps_local'[p] = ps_local[p]
  BY <1>1, <1>2 DEF SyncIInv, Sync!TypeOK
<1>4. Sync!Queued \subseteq Sync!Queued' /\ \A k \in DOMAIN muts : muts[k] \in Sync!Queued'
  <2>1. ps_outbox \in Seq(Sync!Mutation)
    BY DEF SyncIInv, Sync!TypeOK
  <2>2. /\ \A i \in DOMAIN ps_outbox : i \in DOMAIN ps_outbox' /\ ps_outbox'[i] = ps_outbox[i]
        /\ \A i \in DOMAIN muts :
             Len(ps_outbox) + i \in DOMAIN ps_outbox'
                /\ ps_outbox'[Len(ps_outbox) + i] = muts[i]
    BY <1>1, <1>2, <2>1, SyncEnqueue
  <2>3. ASSUME NEW k \in DOMAIN muts PROVE muts[k] \in Sync!Queued'
    <3>1. Len(ps_outbox) + k \in DOMAIN ps_outbox' /\ ps_outbox'[Len(ps_outbox) + k] = muts[k]
      BY <2>2
    <3> QED
      BY <3>1 DEF Sync!Queued
  <2>4. Sync!Queued \subseteq Sync!Queued'
    BY <2>2 DEF Sync!Queued
  <2> QED
    BY <2>3, <2>4
<1>5. SyncRequests' = SyncRequests
  BY <1>1 DEF SyncRequests
<1>6. \A p \in Sales, i \in Items : SyncBilled(p, i)' <=> SyncBilled(p, i)
  BY <1>1 DEF SyncBilled
\* Nothing has been sent of a sale that is new, and of one that is not, no payment.
<1>7. /\ ps_local[o] = None => ps_server[o] = None /\ \A r \in SyncRequests : r.m.order # o
      /\ ps_server[o] # None => ~ps_server[o].paid
      /\ \A r \in SyncRequests : r.m.order = o => r.m.kind # "settle"
              /\ (r.m.kind = "create" => ~r.row.paid)
  <2>1. \A r \in SyncRequests : r.m \in SyncMuts
    BY DEF SyncMuts
  <2>2. \A r \in SyncRequests : r.m.order = o => ps_local[o] # None
           /\ (r.m.kind = "settle" => ps_local[o].paid)
    BY <2>1 DEF SyncIInv, SyncMutsAreKnown, SyncKnown
  <2>3. ps_server[o] # None => ps_local[o] # None
    BY <1>2 DEF SyncIInv, SyncLanded
  <2> QED
    BY <1>2, <2>2, <2>3 DEF SyncRowsAreSent, SyncPaidIsCovered
<1>8. SyncLinesAreHeard'
  <2> SUFFICES ASSUME NEW p \in Sales, ps_local'[p] # None, NEW i \in ps_local'[p].items
               PROVE  \/ \E m \in Sync!Queued' : m.kind = "append" /\ m.order = p
                           /\ i \in m.items
                      \/ SyncBilled(p, i)'
                      \/ /\ ps_server'[p] = None
                         /\ \A r \in SyncRequests' : r.m.kind = "create" /\ r.m.order = p
                                 => i \in r.row.items
    BY DEF SyncLinesAreHeard
  <2>1. CASE p = o /\ ps_local[o] = None
    BY <1>1, <1>5, <1>7, <2>1
  <2>2. CASE p = o /\ ps_local[o] # None /\ i \notin ps_local[o].items
    <3>1. PICK k \in DOMAIN muts : muts[k].kind = "append" /\ i \in muts[k].items
      BY <1>3, <2>2 DEF SyncSaysAll
    <3> QED
      BY <1>2, <1>4, <2>2, <3>1
  <2>3. CASE ps_local[p] # None /\ i \in ps_local[p].items
    <3>1. i \in Items
      BY <2>3 DEF SyncIInv, Sync!TypeOK, Sync!Row
    <3> QED
      BY <1>1, <1>4, <1>5, <1>6, <2>3, <3>1 DEF SyncLinesAreHeard
  <2> QED
    BY <1>3, <2>1, <2>2, <2>3
<1>9. SyncPaymentsAreHeard'
  <2> SUFFICES ASSUME NEW p \in Sales, ps_local'[p] # None, ps_local'[p].paid
               PROVE  \/ Sync!Mut(p, "settle", {}) \in Sync!Queued'
                      \/ ps_server'[p] # None /\ ps_server'[p].paid
                      \/ /\ ps_server'[p] = None
                         /\ \A r \in SyncRequests' : r.m.kind = "create" /\ r.m.order = p
                                 => r.row.paid
    BY DEF SyncPaymentsAreHeard, Sync!Mut
  <2>1. CASE p = o /\ ps_local[o] = None
    BY <1>1, <1>5, <1>7, <2>1
  <2>2. CASE p = o /\ ps_local[o] # None
    BY <1>3, <1>4, <2>2 DEF SyncSaysAll
  <2>3. CASE p # o
    BY <1>1, <1>3, <1>4, <1>5, <2>3 DEF SyncPaymentsAreHeard
  <2> QED
    BY <2>1, <2>2, <2>3
<1>10. \A r \in SyncRequests : r.m.order \in Sales
  BY SyncMutRange DEF SyncIInv, Sync!Mutation
<1>11. SyncRowsAreSent'
  BY <1>3, <1>5, <1>7, <1>10 DEF SyncRowsAreSent
<1>12. SyncPaidIsCovered'
  <2>1. \A p \in Sales : p # o /\ SyncCovered(p) => SyncCovered(p)'
    BY <1>1, <1>3 DEF SyncCovered, SyncBilled
  <2>2. \A p \in Sales : ps_server'[p] # None /\ ps_server'[p].paid => ps_local'[p].paid
           /\ SyncCovered(p)'
    BY <1>1, <1>3, <1>7, <2>1 DEF SyncPaidIsCovered
  <2>3. ASSUME NEW r \in SyncRequests, r.m.kind = "settle", NEW p, p = r.m.order
        PROVE SyncCovered(p)'
    BY <1>7, <1>10, <2>1, <2>3 DEF SyncPaidIsCovered
  <2> QED
    BY <1>5, <2>2, <2>3 DEF SyncPaidIsCovered, SyncCovered, SyncBilled
<1>13. SyncCreateIsHeard'
  <2> SUFFICES ASSUME NEW p \in Sales, ps_local'[p] # None
               PROVE  ps_local'[p].server \/ Sync!Mut(p, "create", {}) \in Sync!Queued'
    BY DEF SyncCreateIsHeard, Sync!Mut
  <2>1. CASE p = o /\ ps_local[o] = None
    BY <1>4, <2>1 DEF SyncSaysAll
  <2>2. CASE ps_local[p] # None
    BY <1>2, <1>3, <1>4, <2>2 DEF SyncCreateIsHeard
  <2> QED
    BY <1>3, <2>1, <2>2
<1>14. SyncAnswers'
  BY <1>1 DEF SyncAnswers
<1> QED
  BY <1>8, <1>9, <1>11, <1>12, <1>13, <1>14

\* A step that changes nothing of an order but its status, at either end.
LEMMA SyncQuietIsHeard ==
    ASSUME SyncBounds, SyncIInv, SyncHeard, SyncFewer, Sync!Queued' = Sync!Queued,
           UNCHANGED <<ps_server, ps_claims>>,
           ps_flight' = ps_flight \/ ps_flight' = None,
           \A o \in Sales :
             /\ ps_local'[o] = None <=> ps_local[o] = None
             /\ ps_local'[o].items = ps_local[o].items /\ ps_local'[o].paid = ps_local[o].paid
             /\ ps_local[o].server => ps_local'[o].server
    PROVE  SyncHeard'
<1> USE DEF SyncHeard
<1>1. \A p \in Sales, i \in Items : SyncBilled(p, i)' <=> SyncBilled(p, i)
  BY DEF SyncBilled
<1>2. \A o \in Sales : ps_local[o] # None => ps_local[o].items \subseteq Items
  BY DEF SyncIInv, Sync!TypeOK, Sync!Row
<1>3. SyncLinesAreHeard'
  BY <1>1, <1>2 DEF SyncLinesAreHeard, SyncFewer
<1>4. SyncPaymentsAreHeard'
  BY DEF SyncPaymentsAreHeard, SyncFewer, Sync!Mut
<1>5. \A q \in SyncRequests : q.m.order \in Sales /\ ps_local[q.m.order] # None
  <2>1. \A q \in SyncRequests : q.m.order \in Sales /\ q.m \in SyncMuts
    BY SyncMutRange DEF SyncIInv, Sync!Mutation
  <2> QED
    BY <2>1 DEF SyncIInv, SyncMutsAreKnown, SyncKnown
<1>6. SyncRowsAreSent'
  BY <1>5 DEF SyncRowsAreSent, SyncFewer
<1>7. \A o \in Sales : SyncCovered(o)' <=> SyncCovered(o)
  BY DEF SyncCovered, SyncBilled
<1>8. SyncPaidIsCovered'
  <2>1. \A p \in Sales : ps_server'[p] # None /\ ps_server'[p].paid => ps_local'[p].paid
           /\ SyncCovered(p)'
    BY <1>7 DEF SyncPaidIsCovered
  <2>2. ASSUME NEW r \in SyncRequests', r.m.kind = "settle", NEW p, p = r.m.order
        PROVE SyncCovered(p)'
    BY <1>5, <1>7, <2>2 DEF SyncPaidIsCovered, SyncFewer
  <2> QED
    BY <2>1, <2>2 DEF SyncPaidIsCovered, SyncCovered, SyncBilled
<1>9. SyncCreateIsHeard'
  BY DEF SyncCreateIsHeard, Sync!Mut
<1>10. SyncAnswers'
  BY DEF SyncAnswers
<1> QED
  BY <1>3, <1>4, <1>6, <1>8, <1>9, <1>10

\* What is queued of an order, when nothing of it is queued before m.
LEMMA SyncIsFirst ==
    ASSUME SyncIInv, NEW m \in Sync!Queued, NEW n \in Sync!Queued, n.order = m.order, n # m,
           ~SyncBefore(n, m)
    PROVE  m.kind # "settle" /\ n.kind # "create"
<1>1. PICK i \in DOMAIN ps_outbox : ps_outbox[i] = m
  BY DEF Sync!Queued
<1>2. PICK j \in DOMAIN ps_outbox : ps_outbox[j] = n
  BY DEF Sync!Queued
<1>3. DOMAIN ps_outbox \subseteq Nat
  BY DEF SyncIInv, Sync!TypeOK
<1>4. i < j
  BY <1>1, <1>2, <1>3 DEF SyncBefore
<1> QED
  BY <1>1, <1>2, <1>4 DEF SyncIInv, SyncQueue

\* A settle goes out when no append of its order is left in the queue.
LEMMA SyncPushIsHeard ==
    ASSUME SyncBounds, SyncIInv, SyncHeard, Sync!Push
    PROVE  SyncHeard'
<1> USE DEF SyncHeard
<1> DEFINE m == Head(ps_engine.todo)
           req == [m |-> m, row |-> ps_local[m.order], reply |-> "none"]
<1>0. /\ UNCHANGED <<ps_local, ps_outbox, ps_parked, ps_screen, ps_strays, ps_server,
           ps_claims>>
      /\ ps_engine.on /\ ps_flight = None /\ ps_engine.todo # <<>>
      /\ \/ ps_flight' = None
         \/ /\ m.order \notin ps_engine.blocked
            /\ m.kind = "create" \/ ps_local[m.order].server
            /\ ps_flight' = req
  BY DEF Sync!Push, Sync!register
<1>1. /\ m \in Sync!Queued /\ m \in Sync!Mutation /\ m.order \in Sales
      /\ ps_local[m.order] # None /\ ps_local[m.order] \in Sync!Row
      /\ m.order \notin ps_engine.blocked =>
           \A a \in Sync!Queued : a.order = m.order => ~SyncBefore(a, m)
  BY <1>0, SyncHead
<1> HIDE DEF m
<1>q. Sync!Queued' = Sync!Queued
  BY <1>0 DEF Sync!Queued
<1>2. CASE ps_flight' = None
  <2>1. SyncFewer
    BY <1>0, <1>2 DEF SyncFewer, SyncRequests
  <2> QED
    BY <1>0, <1>q, <1>2, <2>1, SyncQuietIsHeard
<1>3. CASE m.order \notin ps_engine.blocked /\ (m.kind = "create" \/ ps_local[m.order].server)
           /\ ps_flight' = req
  <2>1. req.m = m /\ req.row = ps_local[m.order] /\ req.reply = "none" /\ req # None
    BY <1>1 DEF Sync!Request, SyncBounds
  <2> HIDE DEF req
  <2>2. SyncRequests' = SyncRequests \cup {req}
    BY <1>0, <1>3, <2>1 DEF SyncRequests
  <2>3. \A p \in Sales, i \in Items : SyncBilled(p, i)' <=> SyncBilled(p, i)
    BY <1>0 DEF SyncBilled
  <2>4. \A o \in Sales : ps_local[o] # None => ps_local[o].items \subseteq Items
    BY DEF SyncIInv, Sync!TypeOK, Sync!Row
  <2>5. SyncLinesAreHeard'
    BY <1>0, <1>q, <2>1, <2>2, <2>3, <2>4 DEF SyncLinesAreHeard
  <2>6. SyncPaymentsAreHeard'
    BY <1>0, <1>q, <2>1, <2>2 DEF SyncPaymentsAreHeard, Sync!Mut
  <2>7. SyncRowsAreSent'
    BY <1>0, <2>1, <2>2 DEF SyncRowsAreSent
  <2>8. m.kind = "settle" => SyncCovered(m.order)
    <3> SUFFICES ASSUME m.kind = "settle", NEW i \in ps_local[m.order].items
        PROVE SyncBilled(m.order, i)
      BY DEF SyncCovered
    <3>1. ps_server[m.order] # None
      BY <1>1, <1>3 DEF SyncIInv, SyncLanded
    <3>2. \A n \in Sync!Queued : n.order = m.order => n = m
      BY <1>1, <1>3, SyncIsFirst
    <3> QED
      BY <1>1, <3>1, <3>2 DEF SyncLinesAreHeard
  <2>9. \A o \in Sales : SyncCovered(o)' <=> SyncCovered(o)
    BY <1>0 DEF SyncCovered, SyncBilled
  <2>10. SyncPaidIsCovered'
    <3>1. \A p \in Sales : ps_server'[p] # None /\ ps_server'[p].paid => ps_local'[p].paid
             /\ SyncCovered(p)'
      BY <1>0, <2>9 DEF SyncPaidIsCovered
    <3>2. \A r \in SyncRequests : r.m.order \in Sales
      BY SyncMutRange DEF SyncIInv, Sync!Mutation
    <3>3. ASSUME NEW r \in SyncRequests', r.m.kind = "settle", NEW p, p = r.m.order
          PROVE SyncCovered(p)'
      BY <1>1, <2>1, <2>2, <2>8, <2>9, <3>2, <3>3 DEF SyncPaidIsCovered
    <3> QED
      BY <3>1, <3>3 DEF SyncPaidIsCovered, SyncCovered, SyncBilled
  <2>11. SyncCreateIsHeard'
    BY <1>0, <1>q DEF SyncCreateIsHeard, Sync!Mut
  <2>12. SyncAnswers'
    BY <1>0, <1>3, <2>1 DEF SyncAnswers
  <2> QED
    BY <2>5, <2>6, <2>7, <2>10, <2>11, <2>12
<1> QED
  BY <1>0, <1>2, <1>3

\* What leaves the queue has been done.
LEMMA SyncAcceptIsHeard ==
    ASSUME SyncBounds, SyncIInv, SyncHeard, NEW o \in Sales, Sync!Accept(o)
    PROVE  SyncHeard'
<1> USE DEF SyncHeard
<1> DEFINE s == IF \/ ps_flight.m.kind = "settle"
                   \/ ps_flight.m.kind = "create" /\ ps_flight.row.status # "open_tab"
                THEN "synced" ELSE ps_local[o].status
           m == ps_flight.m
<1>0. /\ UNCHANGED <<ps_parked, ps_screen, ps_engine, ps_strays, ps_server, ps_claims>>
      /\ ps_flight # None /\ m.order = o /\ ps_flight.reply = "ok" /\ ps_flight' = None
      /\ ps_outbox' = Sync!Without(m)
      /\ ps_local' = [ps_local EXCEPT ![o].server = TRUE, ![o].status = s]
  BY DEF Sync!Accept
<1>1. /\ m \in Sync!Mutation /\ m \in Sync!Queued /\ ps_flight \in SyncRequests
      /\ ps_local[o] # None /\ ps_local[o] \in Sync!Row
  BY <1>0, SyncAwaited
<1> HIDE DEF s
<1>2. /\ \A p \in Sales : p # o => ps_local'[p] = ps_local[p]
      /\ ps_local'[o].items = ps_local[o].items /\ ps_local'[o].paid = ps_local[o].paid
      /\ ps_local'[o].server
  <2>0. s \in Sync!Statuses
    BY <1>1 DEF s, Sync!Row, Sync!Statuses
  <2> DEFINE row == [ps_local[o] EXCEPT !.server = TRUE, !.status = s]
  <2>1. ps_local' = [ps_local EXCEPT ![o] = row]
    BY <1>0, <1>1 DEF SyncIInv, Sync!TypeOK
  <2>2. row.server /\ row.items = ps_local[o].items /\ row.paid = ps_local[o].paid
    BY <1>1 DEF Sync!Row
  <2> HIDE DEF row
  <2> QED
    BY <2>1, <2>2 DEF SyncIInv, Sync!TypeOK
<1>3. Sync!Queued' = Sync!Queued \ {m}
  BY <1>0, <1>1, SyncTakenOut DEF SyncIInv
<1>4. ps_server[o] # None
  BY <1>0, <1>1 DEF SyncIInv, SyncLanded
<1>5. SyncRequests' \subseteq SyncRequests
  BY <1>0 DEF SyncRequests
<1>6. \A p \in Sales, i \in Items : SyncBilled(p, i)' <=> SyncBilled(p, i)
  BY <1>0 DEF SyncBilled
<1>7. \A p \in Sales : ps_local[p] # None => ps_local[p].items \subseteq Items
  BY DEF SyncIInv, Sync!TypeOK, Sync!Row
<1>8. m.kind = "append" => \A i \in m.items : SyncBilled(o, i)
  <2> SUFFICES ASSUME m.kind = "append", NEW i \in m.items PROVE SyncBilled(o, i)
    OBVIOUS
  <2>1. SyncClaimed(o, i)
    BY <1>0 DEF SyncAnswers, SyncClaimed
  <2>2. i \in Items
    BY <1>1 DEF Sync!Mutation
  <2>3. ps_server[o].added[i] = 1
    BY <1>4, <2>1, <2>2 DEF SyncIInv, SyncCounted
  <2> QED
    BY <1>4, <2>3 DEF SyncBilled
<1>9. SyncLinesAreHeard'
  <2> SUFFICES ASSUME NEW p \in Sales, ps_local'[p] # None, NEW i \in ps_local'[p].items
               PROVE  \/ \E n \in Sync!Queued' : n.kind = "append" /\ n.order = p
                           /\ i \in n.items
                      \/ SyncBilled(p, i)'
                      \/ /\ ps_server'[p] = None
                         /\ \A r \in SyncRequests' : r.m.kind = "create" /\ r.m.order = p
                                 => i \in r.row.items
    BY DEF SyncLinesAreHeard
  <2>1. ps_local[p] # None /\ i \in ps_local[p].items /\ i \in Items
    BY <1>1, <1>2, <1>7
  <2>2. CASE m.kind = "append" /\ p = o /\ i \in m.items
    BY <1>6, <1>8, <2>1, <2>2
  <2>3. CASE ~(m.kind = "append" /\ p = o /\ i \in m.items)
    BY <1>0, <1>3, <1>5, <1>6, <2>1, <2>3 DEF SyncLinesAreHeard
  <2> QED
    BY <2>2, <2>3
<1>10. SyncPaymentsAreHeard'
  <2> SUFFICES ASSUME NEW p \in Sales, ps_local'[p] # None, ps_local'[p].paid
               PROVE  \/ Sync!Mut(p, "settle", {}) \in Sync!Queued'
                      \/ ps_server'[p] # None /\ ps_server'[p].paid
                      \/ /\ ps_server'[p] = None
                         /\ \A r \in SyncRequests' : r.m.kind = "create" /\ r.m.order = p
                                 => r.row.paid
    BY DEF SyncPaymentsAreHeard, Sync!Mut
  <2>1. ps_local[p] # None /\ ps_local[p].paid
    BY <1>1, <1>2
  <2>2. CASE m = Sync!Mut(p, "settle", {})
    <3>1. p = o /\ m.kind = "settle"
      BY <1>0, <2>2 DEF Sync!Mut
    <3> QED
      BY <1>0, <1>4, <3>1 DEF SyncAnswers
  <2>3. CASE m # Sync!Mut(p, "settle", {})
    BY <1>0, <1>3, <1>5, <2>1, <2>3 DEF SyncPaymentsAreHeard
  <2> QED
    BY <2>2, <2>3
<1>11. \A r \in SyncRequests : r.m.order \in Sales
  BY SyncMutRange DEF SyncIInv, Sync!Mutation
<1>12. SyncRowsAreSent'
  BY <1>2, <1>5, <1>11 DEF SyncRowsAreSent
<1>13. \A p \in Sales : SyncCovered(p)' <=> SyncCovered(p)
  BY <1>0, <1>2 DEF SyncCovered, SyncBilled
<1>14. SyncPaidIsCovered'
  <2>1. \A p \in Sales : ps_server'[p] # None /\ ps_server'[p].paid => ps_local'[p].paid
           /\ SyncCovered(p)'
    BY <1>0, <1>2, <1>13 DEF SyncPaidIsCovered
  <2>2. ASSUME NEW r \in SyncRequests', r.m.kind = "settle", NEW p, p = r.m.order
        PROVE SyncCovered(p)'
    BY <1>5, <1>11, <1>13, <2>2 DEF SyncPaidIsCovered
  <2> QED
    BY <2>1, <2>2 DEF SyncPaidIsCovered, SyncCovered, SyncBilled
<1>15. SyncCreateIsHeard'
  <2> SUFFICES ASSUME NEW p \in Sales, ps_local'[p] # None
               PROVE  ps_local'[p].server \/ Sync!Mut(p, "create", {}) \in Sync!Queued'
    BY DEF SyncCreateIsHeard, Sync!Mut
  <2>1. CASE p = o
    BY <1>2, <2>1
  <2>2. CASE p # o
    <3>1. Sync!Mut(p, "create", {}) # m
      BY <1>0, <2>2 DEF Sync!Mut
    <3> QED
      BY <1>2, <1>3, <2>2, <3>1 DEF SyncCreateIsHeard
  <2> QED
    BY <2>1, <2>2
<1>16. SyncAnswers'
  BY <1>0 DEF SyncAnswers
<1> QED
  BY <1>9, <1>10, <1>12, <1>14, <1>15, <1>16

\* What the server takes it has as the register showed it.
LEMMA SyncReachIsHeard ==
    ASSUME SyncBounds, SyncIInv, SyncHeard, NEW r, NEW reply, SyncReaches(r, reply)
    PROVE  SyncHeard'
<1> USE DEF SyncHeard
<1> DEFINE m == r.m
           all == ps_server[m.order]
<1>0. /\ r \in SyncRequests /\ reply \in {"ok", "refused"} /\ SyncPerforms(m, r.row, reply)
      /\ UNCHANGED <<ps_local, ps_outbox, ps_parked, ps_screen, ps_engine>>
  BY DEF SyncReaches
<1>1. m \in Sync!Mutation /\ m.order \in Sales /\ r.row \in Sync!Row /\ m \in SyncMuts
      /\ ps_local[m.order] # None /\ (m.kind = "settle" => ps_local[m.order].paid)
  <2>1. m \in Sync!Mutation /\ m.order \in Sales /\ r.row \in Sync!Row /\ m \in SyncMuts
    BY <1>0, SyncMutRange DEF SyncIInv, Sync!Mutation
  <2> QED
    BY <2>1 DEF SyncIInv, SyncMutsAreKnown, SyncKnown
<1>2. \A q \in SyncRequests' : \E p \in SyncRequests : q.m = p.m /\ q.row = p.row
  BY DEF SyncReaches, SyncRequests
<1>3. /\ ps_flight' = None <=> ps_flight = None
      /\ ps_flight # None => ps_flight'.m = ps_flight.m
      /\ ps_flight # None /\ ps_flight'.reply = "ok" =>
           ps_flight.reply = "ok" \/ (ps_flight = r /\ reply = "ok")
  BY DEF SyncReaches, SyncBounds
<1>4. /\ ps_server' \in [Sales -> Sync!ServerOrder \cup {None}]
      /\ \A p \in Sales : ps_server[p] # None => ps_server'[p] # None
      /\ \A p \in Sales : ps_server'[p] # None => ps_server[p] # None \/ p = m.order
  BY <1>0, SyncServerGrows
<1>5. \A p \in Sales : p # m.order => ps_server'[p] = ps_server[p]
  BY <1>0 DEF SyncPerforms, SyncServed
<1>6. \A q \in SyncRequests : q.m.order \in Sales /\ q.m \in Sync!Mutation
  BY SyncMutRange DEF SyncIInv, Sync!Mutation
<1>7. ps_server \in [Sales -> Sync!ServerOrder \cup {None}] /\ ps_claims \subseteq Sync!Mutation
  BY DEF SyncIInv, Sync!TypeOK
<1>8. \A p \in Sales : ps_local[p] # None => ps_local[p].items \subseteq Items
  BY DEF SyncIInv, Sync!TypeOK, Sync!Row
<1>q. Sync!Queued' = Sync!Queued
  BY <1>0 DEF Sync!Queued
<1> HIDE DEF m
\* What was billed is, and so is all that came with a create.
<1>9. /\ \A p \in Sales, i \in Items : SyncBilled(p, i) => SyncBilled(p, i)'
      /\ all = None /\ ps_server'[m.order] # None =>
           /\ m.kind = "create" /\ ps_server'[m.order].paid = r.row.paid
           /\ \A i \in r.row.items : SyncBilled(m.order, i)'
      /\ all # None /\ ps_server'[m.order].paid => all.paid \/ m.kind = "settle"
      /\ all # None /\ all.paid => ps_server'[m.order].paid
  <2>1. CASE all = None
    <3>1. \A i \in Items : ~SyncBilled(m.order, i)
      BY <2>1 DEF SyncBilled
    <3>2. \A p \in Sales, i \in Items : SyncBilled(p, i) => SyncBilled(p, i)'
      BY <1>5, <3>1 DEF SyncBilled
    <3>3. ps_server'[m.order] # None =>
           /\ m.kind = "create" /\ ps_server'[m.order].paid = r.row.paid
           /\ ps_server'[m.order].base = r.row.items
      BY <1>0, <2>1 DEF SyncPerforms, SyncServed
    <3> QED
      BY <2>1, <3>2, <3>3 DEF SyncBilled
  <2>2. CASE all # None
    <3>1. all \in Sync!ServerOrder /\ ps_server'[m.order] # None
      BY <1>1, <1>4, <1>7, <2>2
    <3>2. all.added \in [Items -> Nat]
      BY <3>1 DEF Sync!ServerOrder
    <3>3. /\ ps_server'[m.order].base = all.base
          /\ \A i \in Items : ps_server'[m.order].added[i] \in {all.added[i], all.added[i] + 1}
      BY <1>0, <2>2, <3>1, <3>2 DEF SyncPerforms, SyncServed
    <3>4. \A p \in Sales, i \in Items : SyncBilled(p, i) => SyncBilled(p, i)'
      BY <1>1, <1>5, <3>1, <3>2, <3>3 DEF SyncBilled
    <3>5. /\ ps_server'[m.order].paid => all.paid \/ m.kind = "settle"
          /\ all.paid => ps_server'[m.order].paid
      BY <1>0, <2>2 DEF SyncPerforms, SyncServed
    <3> QED
      BY <2>2, <3>4, <3>5
  <2> QED
    BY <2>1, <2>2
<1>10. SyncLinesAreHeard'
  <2> SUFFICES ASSUME NEW p \in Sales, ps_local[p] # None, NEW i \in ps_local[p].items
               PROVE  \/ \E n \in Sync!Queued : n.kind = "append" /\ n.order = p
                           /\ i \in n.items
                      \/ SyncBilled(p, i)'
                      \/ /\ ps_server'[p] = None
                         /\ \A q \in SyncRequests' : q.m.kind = "create" /\ q.m.order = p
                                 => i \in q.row.items
    BY <1>0, <1>q DEF SyncLinesAreHeard
  <2>0. i \in Items
    BY <1>8
  <2>1. CASE (\E n \in Sync!Queued : n.kind = "append" /\ n.order = p /\ i \in n.items)
           \/ SyncBilled(p, i)
    BY <1>9, <2>0, <2>1
  <2>2. CASE /\ ps_server[p] = None
             /\ \A q \in SyncRequests : q.m.kind = "create" /\ q.m.order = p
                     => i \in q.row.items
    <3>1. CASE ps_server'[p] = None
      BY <1>2, <2>2, <3>1
    <3>2. CASE ps_server'[p] # None
      <4>1. p = m.order /\ all = None
        BY <1>4, <2>2, <3>2
      <4>2. m.kind = "create" /\ i \in r.row.items
        BY <1>0, <1>9, <2>2, <3>2, <4>1 DEF m
      <4> QED
        BY <1>9, <3>2, <4>1, <4>2
    <3> QED
      BY <3>1, <3>2
  <2> QED
    BY <2>1, <2>2 DEF SyncLinesAreHeard
<1>11. SyncPaymentsAreHeard'
  <2> SUFFICES ASSUME NEW p \in Sales, ps_local[p] # None, ps_local[p].paid
               PROVE  \/ Sync!Mut(p, "settle", {}) \in Sync!Queued
                      \/ ps_server'[p] # None /\ ps_server'[p].paid
                      \/ /\ ps_server'[p] = None
                         /\ \A q \in SyncRequests' : q.m.kind = "create" /\ q.m.order = p
                                 => q.row.paid
    BY <1>0, <1>q DEF SyncPaymentsAreHeard, Sync!Mut
  <2>1. CASE Sync!Mut(p, "settle", {}) \in Sync!Queued
    BY <2>1
  <2>2. CASE ps_server[p] # None /\ ps_server[p].paid
    BY <1>4, <1>5, <1>9, <2>2
  <2>3. CASE /\ ps_server[p] = None
             /\ \A q \in SyncRequests : q.m.kind = "create" /\ q.m.order = p => q.row.paid
    <3>1. CASE ps_server'[p] = None
      BY <1>2, <2>3, <3>1
    <3>2. CASE ps_server'[p] # None
      <4>1. p = m.order /\ all = None
        BY <1>4, <2>3, <3>2
      <4> QED
        BY <1>0, <1>9, <2>3, <3>2, <4>1 DEF m
    <3> QED
      BY <3>1, <3>2
  <2> QED
    BY <2>1, <2>2, <2>3 DEF SyncPaymentsAreHeard
<1>12. SyncRowsAreSent'
  BY <1>0, <1>2 DEF SyncRowsAreSent
<1>13. \A p \in Sales : ps_local[p] # None /\ SyncCovered(p) => SyncCovered(p)'
  BY <1>0, <1>8, <1>9 DEF SyncCovered
<1>14. \A q \in SyncRequests : ps_local[q.m.order] # None
  <2>1. \A q \in SyncRequests : q.m \in SyncMuts
    BY SyncMutRange DEF SyncIInv
  <2> QED
    BY <2>1 DEF SyncIInv, SyncMutsAreKnown, SyncKnown
<1>15. SyncPaidIsCovered'
  <2>1. ASSUME NEW p \in Sales, ps_server'[p] # None, ps_server'[p].paid
        PROVE  ps_local[p].paid /\ SyncCovered(p)'
    <3>1. ps_local[p] # None
      BY <1>1, <1>4, <2>1 DEF SyncIInv, SyncLanded
    <3>2. CASE ps_server[p] # None /\ ps_server[p].paid
      BY <1>13, <3>1, <3>2 DEF SyncPaidIsCovered
    <3>3. CASE p = m.order /\ all = None
      <4>1. m.kind = "create" /\ r.row.paid /\ \A i \in r.row.items : SyncBilled(p, i)'
        BY <1>9, <2>1, <3>3
      <4>2. ps_local[p].paid /\ r.row.items = ps_local[p].items
        BY <1>0, <3>3, <4>1 DEF SyncRowsAreSent, m
      <4> QED
        BY <1>0, <4>1, <4>2 DEF SyncCovered
    <3>4. CASE p = m.order /\ all # None /\ m.kind = "settle"
      <4>1. SyncCovered(p)
        BY <1>0, <3>4 DEF SyncPaidIsCovered, m
      <4> QED
        BY <1>1, <1>13, <3>4, <4>1
    <3> QED
      BY <1>5, <1>9, <2>1, <3>2, <3>3, <3>4
  <2>2. ASSUME NEW q \in SyncRequests', q.m.kind = "settle", NEW p, p = q.m.order
        PROVE SyncCovered(p)'
    <3>1. PICK z \in SyncRequests : q.m = z.m
      BY <1>2
    <3>2. p \in Sales /\ ps_local[p] # None /\ SyncCovered(p)
      BY <1>6, <1>14, <2>2, <3>1 DEF SyncPaidIsCovered
    <3> QED
      BY <1>13, <3>2
  <2> QED
    BY <1>0, <2>1, <2>2 DEF SyncPaidIsCovered, SyncCovered, SyncBilled
<1>16. SyncCreateIsHeard'
  BY <1>0, <1>q DEF SyncCreateIsHeard, Sync!Mut
<1>17. SyncAnswers'
  <2>1. ps_claims \subseteq ps_claims' /\ \A c \in ps_claims' : c.kind # "settle"
    BY <1>0 DEF SyncAnswers, SyncPerforms
  <2>2. ASSUME ps_flight # None, ps_flight.reply = "ok"
        PROVE  /\ ps_flight.m.kind = "append" => ps_flight.m \in ps_claims'
               /\ ps_flight.m.kind = "settle" => ps_server'[ps_flight.m.order].paid
    <3>1. ps_flight \in SyncRequests /\ ps_flight.m.order \in Sales
      BY <1>6, <2>2 DEF SyncRequests
    <3>2. ps_server[ps_flight.m.order] # None
      BY <2>2, <3>1 DEF SyncIInv, SyncLanded
    <3> QED
      BY <1>5, <1>9, <2>1, <2>2, <3>1, <3>2 DEF SyncAnswers
  <2>3. reply = "ok" =>
          /\ m.kind = "append" => m \in ps_claims'
          /\ m.kind = "settle" => ps_server'[m.order].paid
    BY <1>0, <2>1 DEF SyncPerforms, SyncServed, SyncAnswers
  <2> QED
    BY <1>3, <2>1, <2>2, <2>3 DEF SyncAnswers, m
<1> QED
  BY <1>10, <1>11, <1>12, <1>15, <1>16, <1>17

\* Nothing to hear of.
LEMMA SyncInitHeard == ASSUME SyncBounds, Sync!Init PROVE SyncHeard
<1> USE DEF Sync!Init
<1>1. Sync!Queued = {} /\ SyncRequests = {}
  BY DEF Sync!Queued, SyncRequests
<1> QED
  BY <1>1 DEF SyncHeard, SyncLinesAreHeard, SyncPaymentsAreHeard, SyncRowsAreSent,
              SyncPaidIsCovered, SyncCreateIsHeard, SyncAnswers

\* Every step keeps what is heard, if no tap is torn.
LEMMA SyncNextHeard ==
    ASSUME SyncBounds, "tear" \notin Faults, SyncIInv, SyncHeard, [Sync!Next]_(Sync!vars)
    PROVE  SyncHeard'
<1>0. SyncFewer \/ ~UNCHANGED <<ps_flight, ps_strays>>
  BY SyncSameRequests
<1>1. ASSUME NEW o \in Sales, NEW items \in SUBSET Items,
             \/ Sync!Sell(o, items) \/ Sync!OpenTab(o, items)
             \/ Sync!AppendToTab(o, items) \/ Sync!Settle(o, items) \/ Sync!FireCourse(o)
      PROVE  SyncHeard'
  BY <1>1, SyncTapsSayAll, SyncTapIsHeard
<1>2. ASSUME NEW o \in Sales, Sync!LoadTab(o) PROVE SyncHeard'
  <2>1. UNCHANGED <<ps_local, ps_outbox, ps_flight, ps_strays, ps_server, ps_claims>>
    BY <1>2 DEF Sync!LoadTab
  <2>2. Sync!Queued' = Sync!Queued
    BY <2>1 DEF Sync!Queued
  <2> QED
    BY <1>0, <2>1, <2>2, SyncQuietIsHeard
<1>3. ASSUME NEW o \in Sales, NEW s \in Sync!Statuses, ps_local[o] # None,
             ps_local' = [ps_local EXCEPT ![o].status = s]
      PROVE  \A p \in Sales :
               /\ ps_local'[p] = None <=> ps_local[p] = None
               /\ ps_local'[p].items = ps_local[p].items /\ ps_local'[p].paid = ps_local[p].paid
               /\ ps_local[p].server => ps_local'[p].server
  <2> DEFINE row == [ps_local[o] EXCEPT !.status = s]
  <2>1. ps_local[o] \in Sync!Row /\ ps_local \in [Sales -> Sync!Row \cup {None}]
    BY <1>3 DEF SyncIInv, Sync!TypeOK
  <2>2. /\ row # None /\ row.items = ps_local[o].items /\ row.paid = ps_local[o].paid
        /\ row.server = ps_local[o].server
    BY <2>1 DEF Sync!Row, SyncBounds
  <2>3. ps_local' = [ps_local EXCEPT ![o] = row]
    BY <1>3
  <2> HIDE DEF row
  <2> QED
    BY <1>3, <2>1, <2>2, <2>3
<1>4. ASSUME NEW o \in Sales, Sync!RetrySync(o) PROVE SyncHeard'
  <2>1. /\ UNCHANGED <<ps_outbox, ps_flight, ps_strays, ps_server, ps_claims>>
        /\ ps_local[o] # None /\ ps_local' = [ps_local EXCEPT ![o].status = "pending_sync"]
    BY <1>4 DEF Sync!RetrySync
  <2>2. Sync!Queued' = Sync!Queued /\ "pending_sync" \in Sync!Statuses
    BY <2>1 DEF Sync!Queued, Sync!Statuses
  <2> QED
    BY <1>0, <1>3, <2>1, <2>2, SyncQuietIsHeard
<1>5. ASSUME NEW o \in Sales, Sync!Refuse(o) PROVE SyncHeard'
  <2>1. /\ UNCHANGED <<ps_outbox, ps_strays, ps_server, ps_claims>>
        /\ ps_flight # None /\ ps_flight.m.order = o /\ ps_flight' = None
        /\ ps_local' = [ps_local EXCEPT ![o].status = "failed"]
    BY <1>5 DEF Sync!Refuse
  <2>2. Sync!Queued' = Sync!Queued /\ SyncFewer
    BY <2>1 DEF Sync!Queued, SyncFewer, SyncRequests
  <2>3. ps_local[o] # None /\ "failed" \in Sync!Statuses
    BY <2>1, SyncAwaited DEF Sync!Statuses
  <2> QED
    BY <1>3, <2>1, <2>2, <2>3, SyncQuietIsHeard
<1>6. CASE Sync!Kill
  <2>1. UNCHANGED <<ps_local, ps_outbox, ps_server, ps_claims>> /\ Sync!Die
    BY <1>6 DEF Sync!Kill
  <2>2. Sync!Queued' = Sync!Queued /\ ps_flight' = None /\ SyncFewer
    BY <2>1, SyncDies DEF Sync!Queued, SyncIInv
  <2> QED
    BY <2>1, <2>2, SyncQuietIsHeard
<1>7. CASE Sync!StartRun \/ Sync!FinishRun \/ UNCHANGED Sync!vars
  <2>1. UNCHANGED <<ps_local, ps_outbox, ps_flight, ps_strays, ps_server, ps_claims>>
    BY <1>7 DEF Sync!StartRun, Sync!FinishRun, Sync!register, Sync!vars
  <2>2. Sync!Queued' = Sync!Queued
    BY <2>1 DEF Sync!Queued
  <2> QED
    BY <1>0, <2>1, <2>2, SyncQuietIsHeard
<1>8. CASE Sync!TimeOut
  <2>1. /\ UNCHANGED <<ps_local, ps_outbox, ps_server, ps_claims>>
        /\ ps_flight' = None /\ ps_flight # None
        /\ ps_strays' = ps_strays \/ ps_strays' = ps_strays \cup {ps_flight}
    BY <1>8 DEF Sync!TimeOut, Sync!register
  <2>2. Sync!Queued' = Sync!Queued /\ SyncFewer
    BY <2>1 DEF Sync!Queued, SyncFewer, SyncRequests
  <2> QED
    BY <2>1, <2>2, SyncQuietIsHeard
<1>9. CASE Sync!Push
  BY <1>9, SyncPushIsHeard
<1>10. ASSUME NEW o \in Sales, Sync!Accept(o) PROVE SyncHeard'
  BY <1>10, SyncAcceptIsHeard
<1>11. ASSUME NEW o \in Sales, Sync!Serve(o) PROVE SyncHeard'
  BY <1>11, SyncServeReaches, SyncReachIsHeard
<1>12. ASSUME NEW r \in ps_strays, Sync!ServeStray(r) PROVE SyncHeard'
  BY <1>12, SyncStrayReaches, SyncReachIsHeard
<1>13. {} \in SUBSET Items
  OBVIOUS
<1> QED
  BY <1>1, <1>2, <1>4, <1>5, <1>6, <1>7, <1>8, <1>9, <1>10, <1>11, <1>12, <1>13
     DEF Sync!Next, Sync!Tap

\* In the order of the taps, and all of it.
LEMMA SyncHeardInOrder == ASSUME SyncBounds, SyncIInv, SyncHeard PROVE Sync!HeardInOrder
<1> USE DEF SyncHeard
<1>1. Sync!NothingLeftUnbilled
  BY DEF SyncPaidIsCovered, SyncCovered, SyncBilled, Sync!NothingLeftUnbilled
<1>2. Sync!CreateLandsFirst
  <2> SUFFICES ASSUME ps_engine.on, ps_flight = None, ps_engine.todo # <<>>, NEW m,
                      m = Head(ps_engine.todo),
                      m.order \notin ps_engine.blocked, m.kind # "create"
               PROVE  ps_local[m.order].server
    BY DEF Sync!CreateLandsFirst
  <2> DEFINE n == Sync!Mut(m.order, "create", {})
  <2>1. /\ m \in Sync!Queued /\ m.order \in Sales /\ ps_local[m.order] # None
        /\ \A a \in Sync!Queued : a.order = m.order => ~SyncBefore(a, m)
    BY SyncHead
  <2>2. n.kind = "create" /\ n.order = m.order
    BY <2>1, SyncMutType
  <2> HIDE DEF n
  <2>3. n \notin Sync!Queued
    BY <2>1, <2>2, SyncIsFirst
  <2> QED
    BY <2>1, <2>3 DEF SyncCreateIsHeard, n
<1>3. Sync!SyncedIsSettled
  BY DEF SyncIInv, SyncLanded, SyncPaymentsAreHeard, Sync!SyncedIsSettled
<1>4. Sync!ServerWillHear
  BY DEF SyncIInv, SyncLanded, SyncCreateIsHeard, Sync!ServerWillHear
<1> QED
  BY <1>1, <1>2, <1>3, <1>4 DEF Sync!HeardInOrder, Sync!LandsInOrder, Sync!ShownIsHeard

\* If the process does not die between the statements of a tap, the server hears of all
\* that the register shows, creates first and settles last.
THEOREM SyncIsHeardInOrder ==
    ASSUME SyncBounds, "tear" \notin Faults PROVE Sync!Spec => []Sync!HeardInOrder
<1> DEFINE Inv == SyncIInv /\ SyncHeard
<1>1. Sync!Init => Inv
  BY SyncInitIInv, SyncInitHeard
<1>2. Inv /\ [Sync!Next]_(Sync!vars) => Inv'
  BY SyncNextIInv, SyncNextHeard
<1>3. Inv => Sync!HeardInOrder
  BY SyncHeardInOrder
<1> QED BY <1>1, <1>2, <1>3, PTL DEF Sync!Spec

\* The same of every behaviour of the composition.
THEOREM HeardInOrderAll == ASSUME "tear" \notin Faults PROVE Spec => []HeardInOrder
<1> DEFINE Inv == SyncIInv /\ SyncHeard
<1>1. Init => Inv
  BY SyncStarts, SyncAssumption, SyncInitIInv, SyncInitHeard
<1>2. Inv /\ [Next]_vars => Inv'
  BY SyncSteps, SyncAssumption, SyncNextIInv, SyncNextHeard
<1>3. Inv => HeardInOrder
  BY SyncAssumption, SyncHeardInOrder DEF HeardInOrder
<1> QED
  BY <1>1, <1>2, <1>3, PTL DEF Spec
--------------------------------------------------------------------------------
(***************************************************************************)
(* The outbox as a guest's bill                                            *)
(***************************************************************************)

\* No line goes out, or is on the server, that was not rung in.
SyncNothingMadeUp ==
    /\ \A r \in SyncRequests : r.row.items \subseteq ps_local[r.m.order].items
    /\ \A o \in Sales : ps_server[o] # None => ps_server[o].base \subseteq ps_local[o].items

\* A step that leaves what is rung in and billed, and sends a row as it is if any.
SyncSame ==
    /\ UNCHANGED ps_server
    /\ \A o \in Sales :
         /\ ps_local'[o] = None <=> ps_local[o] = None
         /\ ps_local'[o].items = ps_local[o].items /\ ps_local'[o].paid = ps_local[o].paid
    /\ \A r \in SyncRequests' :
         \/ \E q \in SyncRequests : r.m = q.m /\ r.row = q.row
         \/ r.m.order \in Sales /\ r.row = ps_local[r.m.order]

\* A row is marked.
LEMMA SyncMarked ==
    ASSUME SyncBounds, SyncIInv, NEW o \in Sales, ps_local[o] # None,
           NEW b \in BOOLEAN, NEW s \in Sync!Statuses,
           ps_local' = [ps_local EXCEPT ![o].server = b, ![o].status = s]
    PROVE  \A p \in Sales :
             /\ ps_local'[p] = None <=> ps_local[p] = None
             /\ ps_local'[p].items = ps_local[p].items /\ ps_local'[p].paid = ps_local[p].paid
<1> DEFINE row == [ps_local[o] EXCEPT !.server = b, !.status = s]
<1>1. ps_local[o] \in Sync!Row /\ ps_local \in [Sales -> Sync!Row \cup {None}]
  BY DEF SyncIInv, Sync!TypeOK
<1>2. row # None /\ row.items = ps_local[o].items /\ row.paid = ps_local[o].paid
  BY <1>1 DEF Sync!Row, SyncBounds
<1>3. ps_local' = [ps_local EXCEPT ![o] = row]
  BY <1>1
<1> HIDE DEF row
<1> QED
  BY <1>1, <1>2, <1>3

\* If no tap is torn, every step is a tap, reaches the server, or changes no bill.
LEMMA SyncStepsAre ==
    ASSUME SyncBounds, "tear" \notin Faults, SyncIInv, [Sync!Next]_(Sync!vars)
    PROVE  \/ \E o, row, muts, next :
                SyncMayWrite(o, row, muts, next) /\ Sync!Write(o, row, muts, next)
           \/ \E r, reply : SyncReaches(r, reply)
           \/ SyncSame
<1> DEFINE Old == \A r \in SyncRequests' : \E q \in SyncRequests : r.m = q.m /\ r.row = q.row
<1>1. SyncFewer => Old
  BY DEF SyncFewer
<1>2. UNCHANGED <<ps_server, ps_local>> /\ Old => SyncSame
  BY DEF SyncSame
<1>3. ASSUME NEW o \in Sales, NEW items \in SUBSET Items,
             \/ Sync!Sell(o, items) \/ Sync!OpenTab(o, items)
             \/ Sync!AppendToTab(o, items) \/ Sync!Settle(o, items) \/ Sync!FireCourse(o)
      PROVE  \E p, row, muts, next :
                SyncMayWrite(p, row, muts, next) /\ Sync!Write(p, row, muts, next)
  BY <1>3, SyncTapsMay
<1>4. ASSUME NEW o \in Sales, Sync!LoadTab(o) PROVE SyncSame
  <2>1. UNCHANGED <<ps_local, ps_flight, ps_strays, ps_server>>
    BY <1>4 DEF Sync!LoadTab
  <2> QED
    BY <1>1, <1>2, <2>1, SyncSameRequests
<1>5. ASSUME NEW o \in Sales, NEW s \in Sync!Statuses, ps_local[o] # None, Old,
             UNCHANGED ps_server, ps_local' = [ps_local EXCEPT ![o].status = s]
      PROVE  SyncSame
  <2>1. ps_local[o] \in Sync!Row /\ ps_local \in [Sales -> Sync!Row \cup {None}]
    BY <1>5 DEF SyncIInv, Sync!TypeOK
  <2>2. ps_local[o].server \in BOOLEAN
        /\ ps_local' = [ps_local EXCEPT ![o].server = ps_local[o].server, ![o].status = s]
    BY <1>5, <2>1 DEF Sync!Row
  <2> QED
    BY <1>5, <2>2, SyncMarked DEF SyncSame
<1>6. ASSUME NEW o \in Sales, Sync!RetrySync(o) PROVE SyncSame
  <2>1. /\ UNCHANGED <<ps_flight, ps_strays, ps_server>> /\ "pending_sync" \in Sync!Statuses
        /\ ps_local[o] # None /\ ps_local' = [ps_local EXCEPT ![o].status = "pending_sync"]
    BY <1>6 DEF Sync!RetrySync, Sync!Statuses
  <2> QED
    BY <1>1, <1>5, <2>1, SyncSameRequests
<1>7. ASSUME NEW o \in Sales, Sync!Refuse(o) PROVE SyncSame
  <2>1. /\ UNCHANGED <<ps_strays, ps_server>> /\ "failed" \in Sync!Statuses
        /\ ps_flight # None /\ ps_flight.m.order = o /\ ps_flight' = None
        /\ ps_local' = [ps_local EXCEPT ![o].status = "failed"]
    BY <1>7 DEF Sync!Refuse, Sync!Statuses
  <2>2. Old /\ ps_local[o] # None
    BY <2>1, SyncAwaited DEF SyncRequests
  <2> QED
    BY <1>5, <2>1, <2>2
<1>8. ASSUME NEW o \in Sales, Sync!Accept(o) PROVE SyncSame
  <2> DEFINE s == IF \/ ps_flight.m.kind = "settle"
                     \/ ps_flight.m.kind = "create" /\ ps_flight.row.status # "open_tab"
                  THEN "synced" ELSE ps_local[o].status
  <2>1. /\ UNCHANGED <<ps_strays, ps_server>>
        /\ ps_flight # None /\ ps_flight.m.order = o /\ ps_flight' = None
        /\ ps_local' = [ps_local EXCEPT ![o].server = TRUE, ![o].status = s]
    BY <1>8 DEF Sync!Accept
  <2>2. Old /\ ps_local[o] # None /\ ps_local[o] \in Sync!Row
    BY <2>1, SyncAwaited DEF SyncRequests
  <2>3. s \in Sync!Statuses
    BY <2>2 DEF Sync!Row, Sync!Statuses
  <2> HIDE DEF s
  <2> QED
    BY <2>1, <2>2, <2>3, SyncMarked DEF SyncSame
<1>9. CASE Sync!Kill
  <2>1. UNCHANGED <<ps_local, ps_server>> /\ Sync!Die
    BY <1>9 DEF Sync!Kill
  <2> QED
    BY <1>1, <1>2, <2>1, SyncDies DEF SyncIInv
<1>10. CASE Sync!StartRun \/ Sync!FinishRun \/ UNCHANGED Sync!vars
  <2>1. UNCHANGED <<ps_local, ps_flight, ps_strays, ps_server>>
    BY <1>10 DEF Sync!StartRun, Sync!FinishRun, Sync!register, Sync!vars
  <2> QED
    BY <1>1, <1>2, <2>1, SyncSameRequests
<1>11. CASE Sync!TimeOut
  <2>1. /\ UNCHANGED <<ps_local, ps_server>> /\ ps_flight' = None /\ ps_flight # None
        /\ ps_strays' = ps_strays \/ ps_strays' = ps_strays \cup {ps_flight}
    BY <1>11 DEF Sync!TimeOut, Sync!register
  <2>2. Old
    BY <2>1 DEF SyncRequests
  <2> QED
    BY <1>2, <2>1, <2>2
<1>12. CASE Sync!Push
  <2> DEFINE m == Head(ps_engine.todo)
             req == [m |-> m, row |-> ps_local[m.order], reply |-> "none"]
  <2>1. /\ UNCHANGED <<ps_local, ps_strays, ps_server>>
        /\ ps_engine.on /\ ps_flight = None /\ ps_engine.todo # <<>>
        /\ ps_flight' \in {None, req}
    BY <1>12 DEF Sync!Push, Sync!register
  <2>2. m.order \in Sales
    BY <2>1, SyncHead
  <2> HIDE DEF m
  <2>3. req.m = m /\ req.row = ps_local[m.order]
    OBVIOUS
  <2> HIDE DEF req
  <2>4. \A r \in SyncRequests' : r \in SyncRequests \/ r = req
    BY <2>1 DEF SyncRequests
  <2> QED
    BY <2>1, <2>2, <2>3, <2>4 DEF SyncSame
<1>13. ASSUME NEW o \in Sales, Sync!Serve(o) PROVE \E r, reply : SyncReaches(r, reply)
  BY <1>13, SyncServeReaches
<1>14. ASSUME NEW r \in ps_strays, Sync!ServeStray(r) PROVE \E q, reply : SyncReaches(q, reply)
  BY <1>14, SyncStrayReaches
<1>15. {} \in SUBSET Items
  OBVIOUS
<1> HIDE DEF Old
<1> QED
  BY <1>3, <1>4, <1>6, <1>7, <1>8, <1>9, <1>10, <1>11, <1>12, <1>13, <1>14, <1>15
     DEF Sync!Next, Sync!Tap

\* No step makes a line up.
LEMMA SyncNextMakesNothingUp ==
    ASSUME SyncBounds, "tear" \notin Faults, SyncIInv, SyncNothingMadeUp,
           [Sync!Next]_(Sync!vars)
    PROVE  SyncNothingMadeUp'
<1> USE DEF SyncNothingMadeUp
<1>1. \A r \in SyncRequests : r.m.order \in Sales /\ ps_local[r.m.order] # None
  <2>1. \A r \in SyncRequests : r.m.order \in Sales /\ r.m \in SyncMuts
    BY SyncMutRange DEF SyncIInv, Sync!Mutation
  <2> QED
    BY <2>1 DEF SyncIInv, SyncMutsAreKnown, SyncKnown
<1>2. \A o \in Sales : ps_server[o] # None => ps_local[o] # None
  BY DEF SyncIInv, SyncLanded
<1>3. ASSUME NEW o, NEW row, NEW muts, NEW next,
             SyncMayWrite(o, row, muts, next), Sync!Write(o, row, muts, next)
      PROVE  SyncNothingMadeUp'
  <2>1. /\ ps_local' = [ps_local EXCEPT ![o] = row]
        /\ UNCHANGED <<ps_flight, ps_strays, ps_server>>
    BY <1>3 DEF Sync!Write
  <2>2. o \in Sales /\ (ps_local[o] # None => ps_local[o].items \subseteq row.items)
    BY <1>3 DEF SyncMayWrite
  <2>3. \A p \in Sales : ps_local[p] # None => ps_local[p].items \subseteq ps_local'[p].items
    BY <2>1, <2>2 DEF SyncIInv, Sync!TypeOK
  <2>4. SyncRequests' = SyncRequests
    BY <2>1 DEF SyncRequests
  <2> QED
    BY <1>1, <1>2, <2>1, <2>3, <2>4
<1>4. CASE SyncSame
  <2>1. \A r \in SyncRequests' : r.row.items \subseteq ps_local'[r.m.order].items
    BY <1>1, <1>4 DEF SyncSame
  <2> QED
    BY <1>4, <2>1 DEF SyncSame
<1>5. ASSUME NEW r, NEW reply, SyncReaches(r, reply) PROVE SyncNothingMadeUp'
  <2>1. /\ r \in SyncRequests /\ SyncPerforms(r.m, r.row, reply) /\ UNCHANGED ps_local
        /\ \A q \in SyncRequests' : \E z \in SyncRequests : q.m = z.m /\ q.row = z.row
    BY <1>5 DEF SyncReaches, SyncRequests
  <2>2. \A p \in Sales : ps_server'[p] # None =>
          \/ ps_server[p] # None /\ ps_server'[p].base = ps_server[p].base
          \/ p = r.m.order /\ ps_server'[p].base = r.row.items
    BY <1>1, <2>1 DEF SyncPerforms, SyncServed
  <2> QED
    BY <2>1, <2>2
<1> QED
  BY <1>3, <1>4, <1>5, SyncStepsAre

\* What the register has, and the server, as a guest sees it.
LEMMA SyncBillOf ==
    \A o \in Sales :
        /\ Sync!Rung[o] = IF ps_local[o] = None THEN None
                          ELSE [lines |-> ps_local[o].items, paid |-> ps_local[o].paid]
        /\ Sync!Rung'[o] = IF ps_local'[o] = None THEN None
                           ELSE [lines |-> ps_local'[o].items, paid |-> ps_local'[o].paid]
        /\ ps_server[o] = None => Sync!Billed[o] = None
        /\ ps_server[o] # None =>
             Sync!Billed[o] = [lines |-> {i \in Items : SyncBilled(o, i)},
                               paid |-> ps_server[o].paid]
        /\ ps_server'[o] = None => Sync!Billed'[o] = None
        /\ ps_server'[o] # None =>
             Sync!Billed'[o] = [lines |-> {i \in Items : SyncBilled(o, i)'},
                                paid |-> ps_server'[o].paid]
BY DEF Sync!Rung, Sync!Billed, SyncBilled

\* Between two states only the order o has changed.
LEMMA SyncBillChanges ==
    ASSUME NEW o \in Sales
    PROVE  /\ (\A p \in Sales : p # o => Sync!Rung'[p] = Sync!Rung[p])
                => Sync!Rung' = [Sync!Rung EXCEPT ![o] = Sync!Rung'[o]]
           /\ (\A p \in Sales : p # o => Sync!Billed'[p] = Sync!Billed[p])
                => Sync!Billed' = [Sync!Billed EXCEPT ![o] = Sync!Billed'[o]]
BY DEF Sync!Rung, Sync!Billed

\* A bill is of what was rung in, and a paid one of all of it.
LEMMA SyncBillIsFair ==
    ASSUME SyncBounds, SyncIInv', SyncHeard', SyncNothingMadeUp', NEW o \in Sales,
           ps_server'[o] # None
    PROVE  /\ ps_local'[o] # None /\ Sync!Rung'[o] \in BillView!Account
           /\ Sync!Billed'[o] \in BillView!Account
           /\ Sync!Billed'[o].lines \subseteq Sync!Rung'[o].lines
           /\ Sync!Billed'[o].paid => Sync!Billed'[o] = Sync!Rung'[o]
<1>1. ps_local'[o] # None /\ ps_local'[o] \in Sync!Row /\ ps_server'[o] \in Sync!ServerOrder
  BY DEF SyncIInv, SyncLanded, Sync!TypeOK
<1>2. /\ Sync!Rung'[o] = [lines |-> ps_local'[o].items, paid |-> ps_local'[o].paid]
      /\ Sync!Billed'[o] = [lines |-> {i \in Items : SyncBilled(o, i)'},
                            paid |-> ps_server'[o].paid]
  BY <1>1, SyncBillOf
<1>3. ps_local'[o].items \subseteq Items /\ ps_local'[o].paid \in BOOLEAN
         /\ ps_server'[o].paid \in BOOLEAN
  BY <1>1 DEF Sync!Row, Sync!ServerOrder
<1>4. \A i \in Items : SyncBilled(o, i)' => i \in ps_local'[o].items
  <2> SUFFICES ASSUME NEW i \in Items, SyncBilled(o, i)' PROVE i \in ps_local'[o].items
    OBVIOUS
  <2>1. CASE i \in ps_server'[o].base
    BY <2>1 DEF SyncNothingMadeUp
  <2>2. CASE ps_server'[o].added[i] > 0
    <3>1. SyncClaimed(o, i)'
      BY <2>2 DEF SyncIInv, SyncCounted
    <3>2. PICK m \in ps_claims' : m.kind = "append" /\ m.order = o /\ i \in m.items
      BY <3>1 DEF SyncClaimed
    <3>3. SyncKnown(m)'
      BY DEF SyncIInv, SyncMutsAreKnown, SyncMuts
    <3> QED
      BY <3>2, <3>3 DEF SyncKnown
  <2> QED
    BY <2>1, <2>2 DEF SyncBilled
<1>5. ps_server'[o].paid => ps_local'[o].paid /\ \A i \in ps_local'[o].items : SyncBilled(o, i)'
  BY DEF SyncHeard, SyncPaidIsCovered, SyncCovered
<1>6. ps_server'[o].paid => {i \in Items : SyncBilled(o, i)'} = ps_local'[o].items
  BY <1>3, <1>4, <1>5
<1>7. Sync!Rung'[o] \in BillView!Account /\ Sync!Billed'[o] \in BillView!Account
  BY <1>2, <1>3 DEF BillView!Account
<1>8. Sync!Billed'[o].lines \subseteq Sync!Rung'[o].lines
  BY <1>2, <1>4
<1>9. Sync!Billed'[o].paid => Sync!Billed'[o] = Sync!Rung'[o]
  BY <1>2, <1>3, <1>5, <1>6
<1> QED
  BY <1>1, <1>7, <1>8, <1>9

\* A tap rings in the order it is on.
LEMMA SyncTapRings ==
    ASSUME SyncBounds, "tear" \notin Faults, SyncIInv, NEW o, NEW row, NEW muts, NEW next,
           SyncMayWrite(o, row, muts, next), Sync!Write(o, row, muts, next)
    PROVE  BillView!Next
<1>1. /\ ps_local' = [ps_local EXCEPT ![o] = row]
      /\ UNCHANGED ps_server
  BY DEF Sync!Write
<1>2. /\ o \in Sales /\ row \in Sync!Row
      /\ ps_local[o] # None => ~ps_local[o].paid /\ ps_local[o].items \subseteq row.items
  BY DEF SyncMayWrite
<1>3. row # None /\ row.items \in SUBSET Items /\ row.paid \in BOOLEAN
  BY <1>2 DEF Sync!Row, SyncBounds
<1>4. ps_local'[o] = row /\ \A p \in Sales : p # o => ps_local'[p] = ps_local[p]
  BY <1>1, <1>2 DEF SyncIInv, Sync!TypeOK
<1>5. Sync!Rung'[o] = [lines |-> row.items, paid |-> row.paid]
  BY <1>2, <1>3, <1>4, SyncBillOf
<1>6. Sync!Rung' = [Sync!Rung EXCEPT ![o] = Sync!Rung'[o]]
  <2>1. \A p \in Sales : p # o => Sync!Rung'[p] = Sync!Rung[p]
    BY <1>4 DEF Sync!Rung
  <2> QED
    BY <1>2, <2>1, SyncBillChanges
<1>7. Sync!Billed' = Sync!Billed
  BY <1>1 DEF Sync!Billed
<1>8. BillView!Goes(Sync!Rung[o], Sync!Rung'[o])
  <2>1. Sync!Rung'[o] \in BillView!Account
    BY <1>3, <1>5 DEF BillView!Account
  <2>2. Sync!Rung[o] # None =>
          ~Sync!Rung[o].paid /\ Sync!Rung[o].lines \subseteq Sync!Rung'[o].lines
    <3> SUFFICES ASSUME Sync!Rung[o] # None
                 PROVE  ~Sync!Rung[o].paid /\ Sync!Rung[o].lines \subseteq Sync!Rung'[o].lines
      OBVIOUS
    <3>1. ps_local[o] # None
          /\ Sync!Rung[o] = [lines |-> ps_local[o].items, paid |-> ps_local[o].paid]
      BY <1>2 DEF Sync!Rung
    <3>2. Sync!Rung[o].paid = ps_local[o].paid /\ Sync!Rung[o].lines = ps_local[o].items
      BY <3>1
    <3>3. Sync!Rung'[o].lines = row.items
      BY <1>5
    <3> QED
      BY <1>2, <3>1, <3>2, <3>3
  <2> QED
    BY <2>1, <2>2 DEF BillView!Goes
<1>9. BillView!Ring(o)
  BY <1>6, <1>7, <1>8 DEF BillView!Ring
<1> QED
  BY <1>2, <1>9 DEF BillView!Next

\* A request that reaches the server is heard, or was.
LEMMA SyncReachHears ==
    ASSUME SyncBounds, SyncIInv, SyncIInv', SyncHeard', SyncNothingMadeUp',
           NEW r, NEW reply, SyncReaches(r, reply)
    PROVE  [BillView!Next]_<<Sync!Rung, Sync!Billed>>
<1> DEFINE m == r.m
           o == m.order
           all == ps_server[o]
<1>1. /\ r \in SyncRequests /\ reply \in {"ok", "refused"} /\ SyncPerforms(m, r.row, reply)
      /\ UNCHANGED ps_local
  BY DEF SyncReaches
<1>2. m \in Sync!Mutation /\ o \in Sales
  BY <1>1, SyncMutRange DEF SyncIInv, Sync!Mutation
<1>3. Sync!Rung' = Sync!Rung
  BY <1>1 DEF Sync!Rung
<1>4. CASE UNCHANGED ps_server
  BY <1>3, <1>4 DEF Sync!Billed
<1>5. CASE /\ \A p \in Sales : p # o => ps_server'[p] = ps_server[p]
           /\ ps_server'[o] # None
           /\ all # None => ~all.paid /\ \A i \in Items : SyncBilled(o, i) => SyncBilled(o, i)'
  <2>1. Sync!Billed' = [Sync!Billed EXCEPT ![o] = Sync!Billed'[o]]
    <3>1. \A p \in Sales : p # o => Sync!Billed'[p] = Sync!Billed[p]
      BY <1>5 DEF Sync!Billed
    <3> QED
      BY <1>2, <3>1, SyncBillChanges
  <2>2. /\ Sync!Rung'[o] \in BillView!Account /\ Sync!Billed'[o] \in BillView!Account
        /\ Sync!Billed'[o].lines \subseteq Sync!Rung'[o].lines
        /\ Sync!Billed'[o].paid => Sync!Billed'[o] = Sync!Rung'[o]
    BY <1>2, <1>5, SyncBillIsFair
  <2>3. Sync!Billed[o] # None =>
          ~Sync!Billed[o].paid /\ Sync!Billed[o].lines \subseteq Sync!Billed'[o].lines
    <3> SUFFICES ASSUME Sync!Billed[o] # None
                 PROVE  /\ ~Sync!Billed[o].paid
                        /\ Sync!Billed[o].lines \subseteq Sync!Billed'[o].lines
      OBVIOUS
    <3>1. /\ all # None
          /\ Sync!Billed[o] = [lines |-> {i \in Items : SyncBilled(o, i)}, paid |-> all.paid]
          /\ Sync!Billed'[o] = [lines |-> {i \in Items : SyncBilled(o, i)'},
                                paid |-> ps_server'[o].paid]
      BY <1>2, <1>5, SyncBillOf
    <3>2. /\ Sync!Billed[o].lines = {i \in Items : SyncBilled(o, i)}
          /\ Sync!Billed'[o].lines = {i \in Items : SyncBilled(o, i)'}
          /\ Sync!Billed[o].paid = all.paid
      BY <3>1
    <3>3. {i \in Items : SyncBilled(o, i)} \subseteq {i \in Items : SyncBilled(o, i)'}
      BY <1>5, <3>1
    <3> QED
      BY <1>5, <3>1, <3>2, <3>3
  <2>4. BillView!Goes(Sync!Billed[o], Sync!Billed'[o])
    BY <2>2, <2>3 DEF BillView!Goes
  <2>5. BillView!Hear(o)
    BY <1>3, <2>1, <2>2, <2>4 DEF BillView!Hear
  <2> QED
    BY <1>2, <2>5 DEF BillView!Next
<1>6. CASE m.kind = "create" /\ all = None
           /\ SyncServed(o, r.row.items, [i \in Items |-> 0], r.row.paid)
  BY <1>5, <1>6 DEF SyncServed
<1>7. CASE /\ m.kind = "append" /\ all # None /\ ~all.paid
           /\ SyncServed(o, all.base,
                         [i \in Items |-> IF i \in m.items THEN all.added[i] + 1
                            ELSE all.added[i]],
                         all.paid)
  <2>1. all \in Sync!ServerOrder
    BY <1>2, <1>7 DEF SyncIInv, Sync!TypeOK
  <2>2. all.added \in [Items -> Nat]
    BY <2>1 DEF Sync!ServerOrder
  <2>3. \A i \in Items : ps_server'[o].added[i] \in {all.added[i], all.added[i] + 1}
    BY <1>7 DEF SyncServed
  <2>4. \A i \in Items : SyncBilled(o, i) => SyncBilled(o, i)'
    BY <1>7, <2>2, <2>3 DEF SyncServed, SyncBilled
  <2> QED
    BY <1>5, <1>7, <2>4 DEF SyncServed
<1>8. CASE m.kind = "settle" /\ all # None /\ SyncServed(o, all.base, all.added, TRUE)
  <2>1. \A i \in Items : SyncBilled(o, i) <=> SyncBilled(o, i)'
    BY <1>8 DEF SyncServed, SyncBilled
  <2>2. CASE ~all.paid
    BY <1>5, <1>8, <2>1, <2>2 DEF SyncServed
  <2>3. CASE all.paid
    <3>1. Sync!Billed'[o] = Sync!Billed[o]
      <4>1. /\ ps_server'[o] # None /\ ps_server'[o].paid = TRUE /\ all.paid = TRUE
            /\ all \in Sync!ServerOrder
        BY <1>2, <1>8, <2>3 DEF SyncServed, SyncIInv, Sync!TypeOK, Sync!ServerOrder
      <4>2. {i \in Items : SyncBilled(o, i)'} = {i \in Items : SyncBilled(o, i)}
        BY <2>1
      <4>3. /\ Sync!Billed[o] = [lines |-> {i \in Items : SyncBilled(o, i)}, paid |-> TRUE]
            /\ Sync!Billed'[o] = [lines |-> {i \in Items : SyncBilled(o, i)'}, paid |-> TRUE]
        BY <1>2, <1>8, <4>1, SyncBillOf
      <4> QED
        BY <4>2, <4>3
    <3>2. \A p \in Sales : Sync!Billed'[p] = Sync!Billed[p]
      BY <1>8, <3>1 DEF SyncServed, Sync!Billed
    <3>3. Sync!Billed' = Sync!Billed
      BY <3>2 DEF Sync!Billed
    <3> QED
      BY <1>3, <3>3
  <2> QED
    BY <2>2, <2>3
<1> HIDE DEF m
<1> QED
  BY <1>1, <1>4, <1>6, <1>7, <1>8 DEF SyncPerforms

\* Whatever is lost, late or sent again, the guest is billed for no line that was not
\* rung in, for each that was by the time the order is closed, and never less than before.
THEOREM GuestBillImplemented == ASSUME "tear" \notin Faults PROVE Spec => ImplementsGuestBill
<1> DEFINE Inv == SyncIInv /\ SyncHeard /\ SyncNothingMadeUp
<1>1. Init => Inv /\ BillView!Init
  <2> SUFFICES ASSUME Init PROVE Inv /\ BillView!Init
    OBVIOUS
  <2>1. Sync!Init
    BY SyncStarts
  <2>2. SyncIInv /\ SyncHeard
    BY <2>1, SyncAssumption, SyncInitIInv, SyncInitHeard
  <2>3. SyncNothingMadeUp
    BY <2>1 DEF Sync!Init, SyncNothingMadeUp, SyncRequests
  <2>4. BillView!Init
    BY <2>1 DEF Sync!Init, BillView!Init, Sync!Rung, Sync!Billed
  <2> QED
    BY <2>2, <2>3, <2>4
<1>2. Inv /\ [Next]_vars => Inv'
  BY SyncSteps, SyncAssumption, SyncNextIInv, SyncNextHeard, SyncNextMakesNothingUp
<1>3. Inv /\ Inv' /\ [Next]_vars => [BillView!Next]_<<Sync!Rung, Sync!Billed>>
  <2> SUFFICES ASSUME Inv, Inv', [Sync!Next]_(Sync!vars)
               PROVE  [BillView!Next]_<<Sync!Rung, Sync!Billed>>
    BY SyncSteps
  <2>1. CASE SyncSame
    BY <2>1 DEF SyncSame, Sync!Rung, Sync!Billed
  <2>2. ASSUME NEW o, NEW row, NEW muts, NEW next,
               SyncMayWrite(o, row, muts, next), Sync!Write(o, row, muts, next)
        PROVE  BillView!Next
    BY <2>2, SyncAssumption, SyncTapRings
  <2>3. ASSUME NEW r, NEW reply, SyncReaches(r, reply)
        PROVE  [BillView!Next]_<<Sync!Rung, Sync!Billed>>
    BY <2>3, SyncAssumption, SyncReachHears
  <2> QED
    BY <2>1, <2>2, <2>3, SyncAssumption, SyncStepsAre
<1> QED
  BY <1>1, <1>2, <1>3, PTL DEF Spec, ImplementsGuestBill, BillView!Spec
================================================================================
