-------------------------------- MODULE PosSync --------------------------------
(***************************************************************************)
(* The register's offline outbox (tabsRepo, ordersRepo, mutationsRepo and  *)
(* syncEngine of apps/pos) against the order API it drains into.           *)
(*                                                                         *)
(* A tap on the register writes the local order row and queues mutations;  *)
(* the sync engine drains the queue, one awaited request at a time, oldest *)
(* first.  Taps run whenever the engine is awaiting.  A request that timed *)
(* out may still be on its way, and is served late, or never.              *)
(***************************************************************************)
EXTENDS Naturals, Sequences, FiniteSets

CONSTANTS
    Orders,    \* local order ids
    NoOrder,   \* nothing on screen
    Items,     \* lines a guest can order, each rung at most once per order
    Taps,      \* what staff do: subset of {"sell", "open", "append", "settle",
               \* "fire", "retry"}
    Refusable, \* mutation kinds the server may refuse on its own account
    Faults,    \* subset of {"timeout", "kill", "tear"}
    None       \* a row or a server order that is not there, a request not sent

VARIABLES
    local,    \* per order: the register's row, or None
    outbox,   \* order_mutations, oldest first
    parked,   \* the queued mutations the server refused
    screen,   \* the open tab loaded in the cart or shown in the history, or NoOrder
    engine,   \* the run under way: its snapshot still to push, its blocked orders
    flight,   \* the request the engine awaits, or None
    strays,   \* requests nobody awaits any more
    server,   \* per order: the order as the server has it, or None
    claims    \* order_mutations of the server

register == <<local, outbox, parked, screen>>
vars == <<local, outbox, parked, screen, engine, flight, strays, server, claims>>
--------------------------------------------------------------------------------
Statuses == {"open_tab", "pending_sync", "synced", "failed"}

\* paid is a payment method; fired, that the later course has been fired; server,
\* that the server's id is known.
Row ==
    [ status : Statuses, paid : BOOLEAN, fired : BOOLEAN, server : BOOLEAN,
      items : SUBSET Items ]

Mutation ==
    [order : Orders, kind : {"create", "append", "fire", "settle"}, items : SUBSET Items]

\* A request carries the row as it was read when it was sent.
Request == [m : Mutation, row : Row, reply : {"none", "ok", "refused"}]

\* The lines the order was created with, and how often each was appended.
ServerOrder ==
    [base : SUBSET Items, added : [Items -> Nat], paid : BOOLEAN]

Mut(o, kind, items) == [order |-> o, kind |-> kind, items |-> items]

Queued == {outbox[k] : k \in DOMAIN outbox}

\* The queue without m, which is in it once.
Without(m) ==
    LET k == CHOOSE k \in DOMAIN outbox : outbox[k] = m
    IN  SubSeq(outbox, 1, k - 1) \o SubSeq(outbox, k + 1, Len(outbox))

Idle == [on |-> FALSE, todo |-> <<>>, blocked |-> {}]

Init ==
    /\ local  = [o \in Orders |-> None]
    /\ outbox = <<>>
    /\ parked = {}
    /\ screen = NoOrder
    /\ engine = Idle
    /\ flight = None
    /\ strays = {}
    /\ server = [o \in Orders |-> None]
    /\ claims = {}
--------------------------------------------------------------------------------
(***************************************************************************)
(* The register                                                            *)
(***************************************************************************)

\* What a dying process leaves: SQLite as it is, and its request on the way.
Die ==
    /\ engine' = Idle
    /\ flight' = None
    /\ strays' = strays \cup (IF flight = None THEN {} ELSE {[flight EXCEPT !.reply = "none"]})
    /\ screen' = NoOrder

\* saveOrder, then enqueue for each mutation: statements of their own, between
\* which the process can be killed.
Write(o, row, muts, next) ==
    /\ local' = [local EXCEPT ![o] = row]
    /\ \/ /\ outbox' = outbox \o muts
          /\ screen' = next
          /\ UNCHANGED <<engine, flight, strays>>
       \/ /\ "tear" \in Faults
          /\ \E k \in 0 .. Len(muts) - 1 : outbox' = outbox \o SubSeq(muts, 1, k)
          /\ Die
    /\ UNCHANGED <<parked, server, claims>>

Draft(status, paid, items) ==
    [status |-> status, paid |-> paid, fired |-> FALSE, server |-> FALSE, items |-> items]

\* A sale paid at the register.
Sell(o, items) ==
    /\ "sell" \in Taps
    /\ local[o] = None /\ items # {}
    /\ Write(o, Draft("pending_sync", TRUE, items), <<Mut(o, "create", {})>>, screen)

OpenTab(o, items) ==
    /\ "open" \in Taps
    /\ local[o] = None /\ items # {}
    /\ Write(o, Draft("open_tab", FALSE, items), <<Mut(o, "create", {})>>, screen)

LoadTab(o) ==
    /\ local[o] # None
    /\ local[o].status = "open_tab"
    /\ screen' = o
    /\ UNCHANGED <<local, outbox, parked, engine, flight, strays, server, claims>>

\* The tab on screen is saved with the status it was loaded with.
AppendToTab(o, delta) ==
    /\ "append" \in Taps
    /\ screen = o
    /\ delta # {} /\ delta \cap local[o].items = {}
    /\ Write(o, [local[o] EXCEPT !.status = "open_tab", !.items = @ \cup delta],
             <<Mut(o, "append", delta)>>, NoOrder)

Settle(o, delta) ==
    /\ "settle" \in Taps
    /\ screen = o
    /\ delta \cap local[o].items = {}
    /\ Write(o, [local[o] EXCEPT !.status = "pending_sync", !.paid = TRUE,
                                 !.items = @ \cup delta],
             (IF delta = {} THEN <<>> ELSE <<Mut(o, "append", delta)>>)
                 \o <<Mut(o, "settle", {})>>,
             NoOrder)

FireCourse(o) ==
    /\ "fire" \in Taps
    /\ screen = o
    /\ ~local[o].fired
    /\ Write(o, [local[o] EXCEPT !.status = "open_tab", !.fired = TRUE],
             <<Mut(o, "fire", {})>>, o)

\* The Retry button of an order shown as failed.
RetrySync(o) ==
    /\ "retry" \in Taps
    /\ local[o] # None
    /\ local[o].status = "failed"
    /\ local' = [local EXCEPT ![o].status = "pending_sync"]
    /\ parked' = {m \in parked : m.order # o}
    /\ UNCHANGED <<outbox, screen, engine, flight, strays, server, claims>>

\* The process is killed between two taps.
Kill ==
    /\ "kill" \in Faults
    /\ engine # Idle \/ screen # NoOrder
    /\ Die
    /\ UNCHANGED <<local, outbox, parked, server, claims>>
--------------------------------------------------------------------------------
(***************************************************************************)
(* The sync engine                                                         *)
(***************************************************************************)

\* Mutant: one parked mutation stops the whole queue.
StartRunUnparked ==
    /\ ~engine.on
    /\ outbox # <<>> /\ parked = {}
    /\ engine' = [on |-> TRUE, todo |-> outbox, blocked |-> {}]
    /\ UNCHANGED <<register, flight, strays, server, claims>>

\* Run after run, one at a time, over a snapshot of the queue.  What is parked, as
\* the snapshot has it, blocks its order: it is the oldest of it in the queue.
StartRun ==
    /\ ~engine.on
    /\ outbox # <<>>
    /\ engine' = [on |-> TRUE, todo |-> outbox, blocked |-> {m.order : m \in parked}]
    /\ UNCHANGED <<register, flight, strays, server, claims>>

\* The next mutation is skipped if its order is blocked; a create is sent with
\* the row as it is now; anything else needs the server's id, and without it the
\* run ends as if the network had failed.
Push ==
    /\ engine.on /\ flight = None /\ engine.todo # <<>>
    /\ LET m == Head(engine.todo)
           blocked == m.order \in engine.blocked
           addressable == m.kind = "create" \/ local[m.order].server
       IN  /\ engine' = IF blocked \/ addressable
                        THEN [engine EXCEPT !.todo = Tail(@)]
                        ELSE Idle
           /\ flight' = IF ~blocked /\ addressable
                        THEN [m |-> m, row |-> local[m.order], reply |-> "none"]
                        ELSE None
    /\ UNCHANGED <<register, strays, server, claims>>

FinishRun ==
    /\ engine.on /\ flight = None /\ engine.todo = <<>>
    /\ engine' = Idle
    /\ UNCHANGED <<register, flight, strays, server, claims>>

\* A create answers with the server's id, and closes the order unless the row it
\* was sent with was an open tab; a settle closes it.
Accept(o) ==
    /\ flight # None /\ flight.reply = "ok" /\ flight.m.order = o
    /\ LET closes == \/ flight.m.kind = "settle"
                     \/ flight.m.kind = "create" /\ flight.row.status # "open_tab"
       IN  local' = [local EXCEPT ![o].server = TRUE,
                                  ![o].status = IF closes THEN "synced" ELSE @]
    /\ outbox' = Without(flight.m)
    /\ flight' = None
    /\ UNCHANGED <<parked, screen, engine, strays, server, claims>>

\* Mutants: a refused mutation leaves the queue like an accepted one; a refusal
\* does not block the order for the rest of the run.
RefuseDrops(o) ==
    /\ flight # None /\ flight.reply = "refused" /\ flight.m.order = o
    /\ parked' = parked \cup {flight.m}
    /\ outbox' = Without(flight.m)
    /\ local' = [local EXCEPT ![o].status = "failed"]
    /\ engine' = [engine EXCEPT !.blocked = @ \cup {o}]
    /\ flight' = None
    /\ UNCHANGED <<screen, strays, server, claims>>

RefuseUnblocked(o) ==
    /\ flight # None /\ flight.reply = "refused" /\ flight.m.order = o
    /\ parked' = parked \cup {flight.m}
    /\ local' = [local EXCEPT ![o].status = "failed"]
    /\ flight' = None
    /\ UNCHANGED <<outbox, screen, engine, strays, server, claims>>

\* A refusal (4xx) parks the mutation, fails the order and blocks it.
Refuse(o) ==
    /\ flight # None /\ flight.reply = "refused" /\ flight.m.order = o
    /\ parked' = parked \cup {flight.m}
    /\ local' = [local EXCEPT ![o].status = "failed"]
    /\ engine' = [engine EXCEPT !.blocked = @ \cup {o}]
    /\ flight' = None
    /\ UNCHANGED <<outbox, screen, strays, server, claims>>

\* No answer in time, or a 5xx: the mutation stays queued and the run ends.
TimeOut ==
    /\ "timeout" \in Faults
    /\ flight # None
    /\ engine' = Idle
    /\ flight' = None
    /\ strays' = IF flight.reply = "none" THEN strays \cup {flight} ELSE strays
    /\ UNCHANGED <<register, server, claims>>
--------------------------------------------------------------------------------
(***************************************************************************)
(* The server                                                              *)
(***************************************************************************)

Same == UNCHANGED <<server, claims>>

\* What an order the server has counts of each line once more are added.
Adding(o, items) ==
    [i \in Items |-> IF i \in items THEN server[o].added[i] + 1 ELSE server[o].added[i]]

\* Mutant: appends are not claimed by mutation id.
PerformUnclaimed(m, row, reply) ==
    LET o == m.order
        taken == m.kind = "create" /\ server[o] # None
    IN  \/ taken /\ reply = "ok" /\ Same
        \/ /\ ~taken /\ reply = "ok"
           /\ server' = [server EXCEPT ![o] =
                CASE m.kind = "create" ->
                       [base |-> row.items, added |-> [i \in Items |-> 0], paid |-> row.paid]
                  [] m.kind = "append" ->
                       [@ EXCEPT !.added = Adding(o, m.items)]
                  [] OTHER -> @]
           /\ UNCHANGED claims

\* What the server makes of a mutation and the row it came with.  A create of an
\* order it has is replayed, and so is an append or a fire it has claimed; an order
\* it has as paid takes nothing more; the server may also have its own reasons.
Perform(m, row, reply) ==
    LET o == m.order
        claimed == (m.kind = "create" /\ server[o] # None) \/ m \in claims
        closed == m.kind # "create" /\ server[o].paid
    IN  \/ claimed /\ reply = "ok" /\ Same
        \/ ~claimed /\ closed /\ reply = "refused" /\ Same
        \/ ~claimed /\ m.kind \in Refusable /\ reply = "refused" /\ Same
        \/ /\ ~claimed /\ ~closed
           /\ reply = "ok"
           /\ server' = [server EXCEPT ![o] =
                CASE m.kind = "create" ->
                       [base |-> row.items, added |-> [i \in Items |-> 0], paid |-> row.paid]
                  [] m.kind = "append" ->
                       [@ EXCEPT !.added = Adding(o, m.items)]
                  [] m.kind = "settle" -> [@ EXCEPT !.paid = TRUE]
                  [] OTHER -> @]
           /\ claims' = IF m.kind \in {"append", "fire"} THEN claims \cup {m} ELSE claims

\* The awaited request reaches the server.
Serve(o) ==
    /\ flight # None /\ flight.reply = "none" /\ flight.m.order = o
    /\ \E reply \in {"ok", "refused"} :
         /\ Perform(flight.m, flight.row, reply)
         /\ flight' = [flight EXCEPT !.reply = reply]
    /\ UNCHANGED <<register, engine, strays>>

\* A request nobody awaits reaches it late.
ServeStray(r) ==
    /\ \E reply \in {"ok", "refused"} : Perform(r.m, r.row, reply)
    /\ strays' = strays \ {r}
    /\ UNCHANGED <<register, engine, flight>>
--------------------------------------------------------------------------------
Tap ==
    \/ \E o \in Orders, items \in SUBSET Items :
         \/ Sell(o, items)
         \/ OpenTab(o, items)
         \/ AppendToTab(o, items)
         \/ Settle(o, items)
    \/ \E o \in Orders : LoadTab(o) \/ FireCourse(o) \/ RetrySync(o)

Next ==
    \/ Tap
    \/ Kill
    \/ StartRun \/ Push \/ FinishRun \/ TimeOut
    \/ \E o \in Orders : Accept(o) \/ Refuse(o) \/ Serve(o)
    \/ \E r \in strays : ServeStray(r)

Spec == Init /\ [][Next]_vars

\* The timer keeps starting runs, a run keeps going, and the network is not down
\* for an order for ever.
FairSpec ==
    /\ Spec
    /\ WF_vars(StartRun) /\ WF_vars(Push) /\ WF_vars(FinishRun)
    /\ \A o \in Orders : SF_vars(Serve(o)) /\ SF_vars(Accept(o) \/ Refuse(o))
--------------------------------------------------------------------------------
(***************************************************************************)
(* Properties                                                              *)
(***************************************************************************)

\* Every variable holds a value of its type, and what is parked is queued.
TypeOK ==
    /\ local \in [Orders -> Row \cup {None}]
    /\ outbox \in Seq(Mutation)
    /\ parked \subseteq Queued
    /\ screen \in Orders \cup {NoOrder}
    /\ engine \in [on : BOOLEAN, todo : Seq(Mutation), blocked : SUBSET Orders]
    /\ flight \in Request \cup {None}
    /\ strays \subseteq Request
    /\ server \in [Orders -> ServerOrder \cup {None}]
    /\ claims \subseteq Mutation

\* A settle never lands on a tab that is missing items: an order the server has
\* as paid has every line the register rang on it.
NothingLeftUnbilled ==
    \A o \in Orders : (server[o] # None /\ server[o].paid) =>
        \A i \in local[o].items : i \in server[o].base \/ server[o].added[i] > 0

\* However often an append is sent, it adds its lines once.
RetryAddsNothing ==
    \A o \in Orders : server[o] # None => \A i \in Items : server[o].added[i] <= 1

\* An order the register shows as synced is on the server, and a payment it took is
\* there too, or still queued.
SyncedIsSettled ==
    \A o \in Orders : (local[o] # None /\ local[o].status = "synced") =>
        /\ server[o] # None
        /\ local[o].paid => server[o].paid \/ Mut(o, "settle", {}) \in Queued

\* First in, first out lands the create first: the engine never comes to push a
\* mutation of an order whose server id it does not know.
CreateLandsFirst ==
    engine.on /\ flight = None /\ engine.todo # <<>> =>
        LET m == Head(engine.todo)
        IN  m.order \in engine.blocked \/ m.kind = "create" \/ local[m.order].server

\* The server hears of an order in the order it was rung in: creates land first, and
\* no settle overtakes an append that was refused or is still queued.
LandsInOrder == NothingLeftUnbilled /\ CreateLandsFirst

\* The guest is billed once for what was ordered once: a line reaches the server
\* with the create or with an append, not with both.
BilledOnce ==
    \A o \in Orders : server[o] # None =>
        \A i \in server[o].base : server[o].added[i] = 0

\* A refusal is a real rejection: the payment it parks has not been taken.
RefusalIsReal ==
    \A m \in parked : m.kind = "settle" => ~server[m.order].paid

\* A tab stays open after its create syncs: what the register has closed as synced
\* it has been paid for.
ClosedIsPaid ==
    \A o \in Orders : (local[o] # None /\ local[o].status = "synced") => local[o].paid

\* A parked mutation is there for the operator to review: its order is shown as
\* failed, which is where the Retry button is.
ParkedIsShown == \A m \in parked : local[m.order].status = "failed"

\* The register never shows an order the server will not hear about: its create is
\* queued until the server has it.
ServerWillHear ==
    \A o \in Orders : local[o] # None => server[o] # None \/ Mut(o, "create", {}) \in Queued

\* What the register shows is so on the server or is queued for it, whatever tap came
\* between a request and its answer, and however late the answer is.
ShownIsHeard == SyncedIsSettled /\ ServerWillHear

\* All that the outbox owes the server reaches it, and in the order of the taps.
HeardInOrder == LandsInOrder /\ ShownIsHeard

\* What the register and the server have of an order as a guest would: which lines, and
\* whether it is paid.
Rung ==
    [o \in Orders |-> IF local[o] = None THEN None
                      ELSE [lines |-> local[o].items, paid |-> local[o].paid]]

Billed ==
    [o \in Orders |-> IF server[o] = None THEN None
                      ELSE [lines |-> {i \in Items : \/ i \in server[o].base
                                                     \/ server[o].added[i] > 0},
                            paid |-> server[o].paid]]

\* Every queued mutation is in time taken by the server, or its order is parked.
OutboxDrains ==
    \A o \in Orders :
        []<>(\/ \A m \in Queued : m.order # o
             \/ \E m \in parked : m.order = o)
================================================================================
