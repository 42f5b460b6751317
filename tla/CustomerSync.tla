----------------------------- MODULE CustomerSync -----------------------------
(***************************************************************************)
(* Customers of one register and their profiles on the server:             *)
(* customersRepo, the customer of the cart (CartContext, CustomersScreen), *)
(* syncAll with pushCustomers, and upsertCustomer of the backend.          *)
(*                                                                         *)
(* A customer created on the register has an id of its own until the sync  *)
(* engine pushes it; the row and the orders that name it are then swapped  *)
(* to the server's id.  Taps run whenever the engine awaits.  The outbox   *)
(* itself is in PosSync: the push of an order is one step here.            *)
(***************************************************************************)
EXTENDS Naturals, FiniteSets

CONSTANTS
    Guests,     \* people
    Phoned,     \* those who leave a phone number, each one of their own
    Malformed,  \* those whose e-mail address the server's validation refuses
    Locals,     \* ids the register gives its customers
    Profiles,   \* ids the server gives
    Orders,     \* local order ids
    None,       \* no customer, no order, no list
    MaxLost,    \* bound: upserts whose answer is not awaited to the end
    MaxCallers, \* bound: orders by phone or marketplace that resolve a profile
    Faults      \* what goes wrong: "timeout", "kill"

VARIABLES
    who,      \* whom an id stands for; of the server's ids, its customers table
    table,    \* the register's customers: per id, "none", "dirty" or "clean"
    listed,   \* the ids on the customers screen, None when it is not open
    cart,     \* the id of the cart's customer
    resumed,  \* the held order that is loaded in the cart
    order,    \* the register's orders
    run,      \* the sync run: where it is and what it has still to push
    calls,    \* requests at the server that look up and write a profile
    lost,     \* answers lost so far
    callers,  \* orders of others that resolved a profile so far
    late,     \* history: customers added after the run under way took its list
    stale,    \* history: orders saved with an id that had been swapped away
    missed,   \* history: orders refused while their customer was such a late one
    raced     \* history: guests two of whose requests overlapped

screen == <<listed, cart, resumed>>
history == <<lost, callers, late, stale, missed, raced>>
vars == <<who, table, listed, cart, resumed, order, run, calls, lost, callers,
          late, stale, missed, raced>>
--------------------------------------------------------------------------------
Ids == Locals \cup Profiles
Idle == [at |-> "idle", todo |-> {}]
NoOrder == [at |-> "none", id |-> None, meant |-> None]

Rows(t) == {i \in Ids : t[i] # "none"}
WhoIs(i) == IF i = None THEN None ELSE who[i]
Known == {p \in Profiles : who[p] # None}
ProfilesOf(g) == {p \in Profiles : who[p] = g}
Awaited == {c \in calls : c.awaited}
Waits == {o \in Orders : order[o].at = "pending_sync"}

\* The end of a run, or of a process that awaits nothing any more: what was sent and
\* not yet worked on goes on at the server.
Abandoned == {[c EXCEPT !.awaited = FALSE] : c \in {d \in calls : d.step # "written"}}

Init ==
    /\ who = [i \in Ids |-> None]
    /\ table = [i \in Ids |-> "none"]
    /\ listed = None /\ cart = None /\ resumed = None
    /\ order = [o \in Orders |-> NoOrder]
    /\ run = Idle
    /\ calls = {}
    /\ lost = 0 /\ callers = 0
    /\ late = {} /\ stale = {} /\ missed = {} /\ raced = {}
--------------------------------------------------------------------------------
\* The customers screen reads the table when it opens.
OpenScreen ==
    /\ listed = None
    /\ listed' = Rows(table)
    /\ UNCHANGED <<who, table, cart, resumed, order, run, calls, history>>

\* createLocalCustomer, attached to the cart.
AddCustomer(l, g) ==
    /\ listed # None /\ who[l] = None
    /\ who' = [who EXCEPT ![l] = g]
    /\ table' = [table EXCEPT ![l] = "dirty"]
    /\ listed' = Rows(table')
    /\ cart' = l
    /\ late' = IF run = Idle THEN late ELSE late \cup {l}
    /\ UNCHANGED <<resumed, order, run, calls, lost, callers, stale, missed, raced>>

\* A tap on a customer of the list, which attaches or detaches it and leaves the screen.
SelectCustomer(i) ==
    /\ listed # None /\ i \in listed
    /\ cart' = IF cart = i THEN None ELSE i
    /\ listed' = None
    /\ UNCHANGED <<who, table, resumed, order, run, calls, history>>

LeaveScreen ==
    /\ listed # None
    /\ listed' = None
    /\ UNCHANGED <<who, table, cart, resumed, order, run, calls, history>>

\* The cart is held or sold, with the customer as the cart has it.
SaveOrder(o, at) ==
    /\ listed = None
    /\ IF resumed = None THEN order[o].at = "none" ELSE o = resumed
    /\ order' = [order EXCEPT ![o] = [at |-> at, id |-> cart, meant |-> WhoIs(cart)]]
    /\ stale' = IF cart # None /\ table[cart] = "none" THEN stale \cup {o} ELSE stale \ {o}
    /\ cart' = None /\ resumed' = None
    /\ UNCHANGED <<who, table, listed, run, calls, lost, callers, late, missed, raced>>

\* loadOrder: the customer comes from the row of the order.
Resume(o) ==
    /\ order[o].at = "held" /\ resumed = None
    /\ resumed' = o
    /\ cart' = order[o].id
    /\ UNCHANGED <<who, table, listed, order, run, calls, history>>

\* The Retry button of a refused order.
RetrySync(o) ==
    /\ order[o].at = "failed"
    /\ order' = [order EXCEPT ![o].at = "pending_sync"]
    /\ UNCHANGED <<who, table, screen, run, calls, history>>

\* The process dies; the draft of the cart, if it has lines, is what comes back.
Kill ==
    /\ "kill" \in Faults /\ lost < MaxLost
    /\ run' = Idle /\ calls' = Abandoned
    /\ lost' = lost + 1
    /\ listed' = None
    /\ \/ UNCHANGED <<cart, resumed>>
       \/ cart' = None /\ resumed' = None
    /\ UNCHANGED <<who, table, order, callers, late, stale, missed, raced>>
--------------------------------------------------------------------------------
\* What the register shows of its customers when a run is over (dataVersion).
Refreshed(t) == IF listed = None THEN None ELSE Rows(t)

StartRun ==
    /\ run = Idle
    /\ run' = [at |-> "customers", todo |-> {l \in Locals : table[l] = "dirty"}]
    /\ late' = {}
    /\ UNCHANGED <<who, table, screen, order, calls, lost, callers, stale, missed, raced>>

Request(g, l, awaited) ==
    [guest |-> g, for |-> l, step |-> "sent", found |-> None, awaited |-> awaited]

\* pushCustomers: one upsert after the other, over the list it began with.
PushCustomer(l) ==
    /\ run.at = "customers" /\ Awaited = {} /\ l \in run.todo
    /\ run' = [run EXCEPT !.todo = @ \ {l}]
    /\ calls' = calls \cup {Request(who[l], l, TRUE)}
    /\ UNCHANGED <<who, table, screen, order, history>>

\* Mutant: the orders keep the id of the register.
ResolveRowOnly(c) ==
    /\ c \in Awaited /\ c.step = "written"
    /\ table' = [table EXCEPT ![c.for] = "none", ![c.found] = "clean"]
    /\ calls' = calls \ {c}
    /\ UNCHANGED <<who, screen, order, run, history>>

\* resolveLocalCustomer: in one transaction, the row and the orders take the server's id.
Resolve(c) ==
    /\ c \in Awaited /\ c.step = "written"
    /\ table' = [table EXCEPT ![c.for] = "none", ![c.found] = "clean"]
    /\ order' = [o \in Orders |->
                   IF order[o].id = c.for THEN [order[o] EXCEPT !.id = c.found] ELSE order[o]]
    /\ calls' = calls \ {c}
    /\ UNCHANGED <<who, screen, run, history>>

\* The server refuses the customer: nothing parks it, and the run is over.
RefuseCustomer(c) ==
    /\ c \in Awaited /\ c.step = "refused"
    /\ calls' = calls \ {c}
    /\ run' = Idle
    /\ listed' = Refreshed(table)
    /\ UNCHANGED <<who, table, cart, resumed, order, history>>

\* No answer in time: the run is over, the request may still be served.
TimeOut ==
    /\ "timeout" \in Faults /\ lost < MaxLost
    /\ Awaited # {}
    /\ calls' = Abandoned
    /\ lost' = lost + 1
    /\ run' = Idle
    /\ listed' = Refreshed(table)
    /\ UNCHANGED <<who, table, cart, resumed, order, callers, late, stale, missed, raced>>

CustomersPushed ==
    /\ run.at = "customers" /\ Awaited = {} /\ run.todo = {}
    /\ run' = [at |-> "orders", todo |-> Waits]
    /\ UNCHANGED <<who, table, screen, order, calls, history>>

\* The create of an order, with the customer its row names now; requireOrgCustomer
\* refuses an id that is none of the server's.
PushOrder(o) ==
    /\ run.at = "orders" /\ o \in run.todo
    /\ run' = [run EXCEPT !.todo = @ \ {o}]
    /\ LET id == order[o].id
           known == id = None \/ id \in Known IN
       /\ order' = [order EXCEPT ![o].at = IF known THEN "synced" ELSE "failed"]
       /\ missed' = IF ~known /\ id \in late THEN missed \cup {o} ELSE missed \ {o}
    /\ UNCHANGED <<who, table, screen, calls, lost, callers, late, stale, raced>>

OrdersPushed ==
    /\ run.at = "orders" /\ run.todo = {}
    /\ run' = [at |-> "pull", todo |-> {}]
    /\ UNCHANGED <<who, table, screen, order, calls, history>>

\* pullAll: mergeServerCustomers, over rows that are not dirty.
Pull ==
    /\ run.at = "pull"
    /\ table' = [i \in Ids |-> IF i \in Known /\ table[i] # "dirty" THEN "clean" ELSE table[i]]
    /\ run' = Idle
    /\ listed' = Refreshed(table')
    /\ UNCHANGED <<who, cart, resumed, order, calls, history>>
--------------------------------------------------------------------------------
Step(c, d) == calls' = (calls \ {c}) \cup d

\* An order that comes by phone or from a marketplace finds or creates its customer
\* with the same two statements (resolveCustomerIdByPhone).
CallerOrders(g) ==
    /\ g \in Phoned /\ callers < MaxCallers
    /\ callers' = callers + 1
    /\ calls' = calls \cup {Request(g, None, FALSE)}
    /\ UNCHANGED <<who, table, screen, order, run, lost, late, stale, missed, raced>>

\* upsertCustomer, the select: by phone, for those who have one.
LookUp(c) ==
    /\ c \in calls /\ c.step = "sent"
    /\ \/ /\ c.guest \in Malformed
          /\ Step(c, IF c.awaited THEN {[c EXCEPT !.step = "refused"]} ELSE {})
       \/ /\ c.guest \notin Malformed
          /\ \/ /\ c.guest \in Phoned
                /\ \E p \in ProfilesOf(c.guest) :
                     Step(c, {[c EXCEPT !.step = "looked", !.found = p]})
             \/ /\ c.guest \notin Phoned \/ ProfilesOf(c.guest) = {}
                /\ Step(c, {[c EXCEPT !.step = "looked"]})
    /\ raced' = IF \E d \in calls : d.guest = c.guest /\ d.step = "looked"
                THEN raced \cup {c.guest} ELSE raced
    /\ UNCHANGED <<who, table, screen, order, run, lost, callers, late, stale, missed>>

\* upsertCustomer, the update of what was found or the insert.
WriteProfile(c) ==
    /\ c \in calls /\ c.step = "looked"
    /\ \E p \in IF c.found # None THEN {c.found} ELSE Profiles \ Known :
         /\ who' = [who EXCEPT ![p] = c.guest]
         /\ Step(c, IF c.awaited THEN {[c EXCEPT !.step = "written", !.found = p]} ELSE {})
    /\ UNCHANGED <<table, screen, order, run, history>>
--------------------------------------------------------------------------------
Tap ==
    \/ OpenScreen \/ LeaveScreen \/ Kill
    \/ \E l \in Locals, g \in Guests : AddCustomer(l, g)
    \/ \E i \in Ids : SelectCustomer(i)
    \/ \E o \in Orders :
         \/ \E at \in {"held", "pending_sync"} : SaveOrder(o, at)
         \/ Resume(o) \/ RetrySync(o)

Engine ==
    \/ StartRun \/ CustomersPushed \/ OrdersPushed \/ Pull \/ TimeOut
    \/ \E l \in Locals : PushCustomer(l)
    \/ \E o \in Orders : PushOrder(o)
    \/ \E c \in calls : Resolve(c) \/ RefuseCustomer(c)

Server ==
    \/ \E g \in Phoned : CallerOrders(g)
    \/ \E c \in calls : LookUp(c) \/ WriteProfile(c)

Next == Tap \/ Engine \/ Server

Spec == Init /\ [][Next]_vars

\* The timer keeps starting runs, and what is awaited is answered or times out.
FairSpec == Spec /\ WF_vars(Engine) /\ WF_vars(\E c \in calls : LookUp(c) \/ WriteProfile(c))
--------------------------------------------------------------------------------
TypeOK ==
    /\ who \in [Ids -> Guests \cup {None}]
    /\ table \in [Ids -> {"none", "dirty", "clean"}]
    /\ listed = None \/ listed \subseteq Ids
    /\ cart \in Ids \cup {None} /\ resumed \in Orders \cup {None}
    /\ order \in [Orders -> [at : {"none", "held", "pending_sync", "failed", "synced"},
                             id : Ids \cup {None}, meant : Guests \cup {None}]]
    /\ run \in [at : {"idle", "customers", "orders", "pull"}, todo : SUBSET (Locals \cup Orders)]
    /\ calls \subseteq [guest : Guests, for : Locals \cup {None}, found : Profiles \cup {None},
                        step : {"sent", "looked", "written", "refused"}, awaited : BOOLEAN]
    /\ Cardinality(Awaited) <= 1
    /\ lost \in 0..MaxLost /\ callers \in 0..MaxCallers
    /\ late \subseteq Locals /\ stale \subseteq Orders /\ missed \subseteq Orders /\ raced \subseteq Guests

\* A swap leaves no order behind: what the server does not have yet names a row of the
\* register, or it was saved from a cart that still had the swapped id.
NothingDangles ==
    \A o \in Orders :
        order[o].at \in {"held", "pending_sync", "failed"} /\ order[o].id # None =>
            table[order[o].id] # "none" \/ o \in stale

\* An order is billed to the guest the staff picked, through any number of swaps,
\* resumes and requests that are served late.
GuestIsBilled ==
    \A o \in Orders : order[o].at = "synced" => WhoIs(order[o].id) = order[o].meant

\* Orders go up after the customers they name: one is refused for its customer only if
\* it was saved with a swapped id, or its customer came after the list of the run.
RefusalIsKnown == \A o \in Orders : order[o].at = "failed" => o \in stale \cup missed

\* Nobody entered on the register is forgotten, whatever is lost or killed: the row is
\* waiting to be pushed, or the server has a profile.
NobodyIsLost ==
    \A l \in Locals : who[l] # None => table[l] = "dirty" \/ ProfilesOf(who[l]) # {}

\* A phone number has one profile, unless two requests of its guest overlapped; and a
\* guest without one, at most one for each time it was entered or an answer was lost.
ProfilesAreFew ==
    \A g \in Guests :
        LET n == Cardinality(ProfilesOf(g)) IN
        IF g \in Phoned THEN n <= 1 \/ g \in raced
        ELSE n <= lost + Cardinality({l \in Locals : who[l] = g})

\* The five together.
CustomersFollow ==
    NothingDangles /\ GuestIsBilled /\ RefusalIsKnown /\ NobodyIsLost /\ ProfilesAreFew

\* Every order that waits is in time taken or refused, if no customer is malformed.
OrdersGetThrough == \A o \in Orders : []<>(order[o].at # "pending_sync")

\* What syncEngine.ts:161 says of the id an order goes up with: it is one the server
\* can know about, so no order is refused for its customer.
OnlyKnownIds == \A o \in Orders : order[o].at # "failed"
================================================================================
