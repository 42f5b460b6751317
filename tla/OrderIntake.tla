------------------------------ MODULE OrderIntake ------------------------------
(***************************************************************************)
(* Creating an order: createOrderForOrg (phone AI, public API),            *)
(* createMarketplaceOrder and createPosOrder of orders.service.ts.         *)
(*                                                                         *)
(* Every transmission of a request is an attempt of its own; retries carry *)
(* the same client order id (key).  An attempt looks for an order with its *)
(* key, finds or creates the customer's profile, and then, in one          *)
(* transaction that holds the location's advisory lock, takes the next     *)
(* ticket number and inserts the order.  Only after the commit does it     *)
(* print and answer.  An attempt may die between any two steps; what it    *)
(* had not committed is gone and its lock is free.                         *)
(***************************************************************************)
EXTENDS Integers, FiniteSetsExt

CONSTANTS
    Attempts,   \* requests sent, retries included
    Channels,   \* subset of {"ai", "market", "pos"}
    Keys,       \* client order ids, NoKey among them if some requests carry none
    NoKey,
    Locations,  \* locations, NoLocation among them if some cannot be resolved
    NoLocation,
    Phones,     \* customer phone numbers, NoPhone for an anonymous sale
    NoPhone,
    Stake,      \* loyalty points the linked customer starts with
    Redeems,    \* points a sale asks to redeem
    Earned,     \* points a sale paid on creation earns
    NoOrder     \* an attempt that has inserted nothing, or answered nothing

ASSUME IntakeAssumption ==
    /\ Channels \subseteq {"ai", "market", "pos"}
    /\ NoOrder \notin Attempts
    /\ Stake \in Nat
    /\ Redeems \subseteq Nat
    /\ Earned \in Nat

VARIABLES
    stage,     \* per attempt: where its handler is
    ask,       \* per attempt: the request it carries
    number,    \* per attempt: the ticket number it has been allotted
    row,       \* per attempt: NoOrder, or the orders row it committed
    answer,    \* per attempt: NoOrder, or the attempt whose order it returned
    profiles,  \* customers rows per phone number
    points,    \* loyalty balance of the linked customer
    tickets,   \* print jobs 'save' asked for, per order
    receipts   \* print jobs 'paid' asked for, per order

vars == <<stage, ask, number, row, answer, profiles, points, tickets, receipts>>
tables == <<row, profiles, points>>
printing == <<tickets, receipts>>
--------------------------------------------------------------------------------
Stages ==
    {"new", "lookup", "insertProfile", "lock", "insert", "dispatch", "print",
     "printPaid", "replay", "done", "rejected", "dead"}

Request ==
    [ channel : Channels, key : Keys, loc : Locations, phone : Phones,
      linked : BOOLEAN, redeem : Redeems, paid : BOOLEAN ]

\* A marketplace order always carries a key; only the register knows its
\* location and its customer, is paid on creation, and redeems points.
WellFormed(q) ==
    /\ q.channel = "market" => q.key # NoKey
    /\ q.channel = "pos" => q.loc # NoLocation
    /\ q.channel # "pos" => ~q.linked /\ ~q.paid
    /\ q.redeem > 0 => q.linked

\* The columns of an orders row the intake is about.
Row ==
    [ key : Keys, loc : Locations, number : Nat, redeemed : Nat,
      earned : Nat, profiled : BOOLEAN, paid : BOOLEAN ]

ASSUME NoOrderAssumption == NoOrder \notin Row

Orders == {a \in Attempts : row[a] # NoOrder}

\* findByClientOrderId: the orders found under a key.
OrdersOf(key) == {o \in Orders : key # NoKey /\ row[o].key = key}

\* Mutants: the ticket number is read without the lock; the lock belongs to the
\* session and survives the attempt that took it.
NeverLocked(loc) == FALSE

LockedByTheDead(loc) ==
    \E a \in Attempts : stage[a] \in {"insert", "dead"} /\ ask[a].loc = loc

\* pg_advisory_xact_lock(hashtext(locationId)) is held until commit.
Locked(loc) ==
    loc # NoLocation /\ \E a \in Attempts : stage[a] = "insert" /\ ask[a].loc = loc

TicketsOf(loc) == {row[o].number : o \in {p \in Orders : row[p].loc = loc}}

\* coalesce(max(ticketNumber), 0) + 1 over the orders of a location, as the set
\* of the one number it is; an order without a location has no number.
NextTicket(loc) ==
    IF loc = NoLocation THEN {0}
    ELSE {n \in {1} \cup {k + 1 : k \in TicketsOf(loc)} :
            \A k \in TicketsOf(loc) : k < n}

At(a, s) == stage[a] = s
Goto(a, s) == stage' = [stage EXCEPT ![a] = s]

Return(a, o) ==
    /\ Goto(a, "done")
    /\ answer' = [answer EXCEPT ![a] = o]
--------------------------------------------------------------------------------
Init ==
    /\ stage    = [a \in Attempts |-> "new"]
    /\ ask      = [a \in Attempts |-> NoOrder]
    /\ number   = [a \in Attempts |-> 0]
    /\ row      = [a \in Attempts |-> NoOrder]
    /\ answer   = [a \in Attempts |-> NoOrder]
    /\ profiles = [p \in Phones |-> 0]
    /\ points   = Stake
    /\ tickets  = [a \in Attempts |-> 0]
    /\ receipts = [a \in Attempts |-> 0]

\* The handler's first lookup: an order under this key is the answer.  Otherwise
\* a register checks the loyalty balance, and all but the AI path and a sale with
\* a linked customer look for the customer before their transaction.
Receive(a, q) ==
    /\ At(a, "new")
    /\ WellFormed(q)
    /\ ask' = [ask EXCEPT ![a] = q]
    /\ \/ \E o \in OrdersOf(q.key) : Return(a, o)
       \/ /\ OrdersOf(q.key) = {}
          /\ Goto(a, IF q.redeem > points THEN "rejected"
                     ELSE IF q.channel = "ai" \/ q.linked THEN "lock"
                     ELSE "lookup")
          /\ UNCHANGED answer
    /\ UNCHANGED <<number, tables, printing>>

\* resolveCustomerIdByPhone: find the profile behind the number, else insert one.
FindProfile(a) ==
    /\ At(a, "lookup")
    /\ Goto(a, IF ask[a].phone # NoPhone /\ profiles[ask[a].phone] = 0
               THEN "insertProfile"
               ELSE "lock")
    /\ UNCHANGED <<ask, number, answer, tables, printing>>

InsertProfile(a) ==
    /\ At(a, "insertProfile")
    /\ profiles' = [profiles EXCEPT ![ask[a].phone] = @ + 1]
    /\ Goto(a, "lock")
    /\ UNCHANGED <<ask, number, row, answer, points, printing>>

\* nextTicketNumber, inside the insert's transaction.
TakeNumber(a) ==
    /\ At(a, "lock")
    /\ ~Locked(ask[a].loc)
    /\ \E n \in NextTicket(ask[a].loc) : number' = [number EXCEPT ![a] = n]
    /\ Goto(a, "insert")
    /\ UNCHANGED <<ask, answer, tables, printing>>

\* Mutant: no unique constraint on (organizationId, clientOrderId).
InsertUnchecked(a) ==
    /\ At(a, "insert")
    /\ LET q == ask[a]
       IN  /\ row' = [row EXCEPT ![a] =
                        [ key |-> q.key, loc |-> q.loc, number |-> number[a],
                          redeemed |-> q.redeem, earned |-> 0,
                          profiled |-> TRUE, paid |-> q.paid ]]
           /\ points' = IF q.redeem <= points THEN points - q.redeem ELSE 0
    /\ Goto(a, "dispatch")
    /\ UNCHANGED <<ask, number, answer, profiles, printing>>

\* Insert and commit.  The linked customer's balance moves by what the sale
\* redeems and earns, and is floored at zero.
InsertOrder(a) ==
    /\ At(a, "insert")
    /\ LET q == ask[a]
           earned == IF q.paid /\ q.linked THEN Earned ELSE 0
       IN  /\ OrdersOf(q.key) = {}
           /\ row' = [row EXCEPT ![a] =
                        [ key |-> q.key, loc |-> q.loc, number |-> number[a],
                          redeemed |-> q.redeem, earned |-> earned,
                          profiled |-> q.linked \/ (q.channel # "ai"
                                                     /\ q.phone # NoPhone),
                          paid |-> q.paid ]]
           /\ points' = IF q.redeem <= points + earned
                        THEN points + earned - q.redeem
                        ELSE 0
    /\ Goto(a, "dispatch")
    /\ UNCHANGED <<ask, number, answer, profiles, printing>>

\* The insert lost the race on (organizationId, clientOrderId): roll back.
LoseInsert(a) ==
    /\ At(a, "insert")
    /\ OrdersOf(ask[a].key) # {}
    /\ Goto(a, "replay")
    /\ UNCHANGED <<ask, number, answer, tables, printing>>

\* Mutants: the replay forgets to filter by key; the replay prints again.
ReplayAnyOrder(a) ==
    /\ At(a, "replay")
    /\ \E o \in Orders : Return(a, o)
    /\ UNCHANGED <<ask, number, tables, printing>>

ReplayPrints(a) ==
    /\ At(a, "replay")
    /\ \E o \in OrdersOf(ask[a].key) :
         /\ Return(a, o)
         /\ tickets' = [tickets EXCEPT ![o] = @ + 1]
    /\ UNCHANGED <<ask, number, tables, receipts>>

\* replayOnClientOrderIdConflict: return the winner's order.
Replay(a) ==
    /\ At(a, "replay")
    /\ \E o \in OrdersOf(ask[a].key) : Return(a, o)
    /\ UNCHANGED <<ask, number, tables, printing>>

\* dispatchOrderSideEffects reads the order back, then prints what it saw.
Dispatch(a) ==
    /\ At(a, "dispatch")
    /\ Goto(a, IF row[a].paid THEN "printPaid" ELSE "print")
    /\ UNCHANGED <<ask, number, answer, tables, printing>>

\* printForEvents catches and logs a failure: the order is answered either way.
PrintDocuments(a) ==
    /\ At(a, "print") \/ At(a, "printPaid")
    /\ \/ UNCHANGED printing
       \/ /\ tickets' = [tickets EXCEPT ![a] = @ + 1]
          /\ receipts' = IF At(a, "printPaid")
                         THEN [receipts EXCEPT ![a] = @ + 1]
                         ELSE receipts
    /\ Return(a, a)
    /\ UNCHANGED <<ask, number, tables>>

\* recordPayment on a committed order covers its bill and prints the receipt.
Pay(o) ==
    /\ o \in Orders
    /\ ~row[o].paid
    /\ row' = [row EXCEPT ![o].paid = TRUE]
    /\ receipts' = [receipts EXCEPT ![o] = @ + 1]
    /\ UNCHANGED <<stage, ask, number, answer, profiles, points, tickets>>

\* The instance dies with the attempt; its client hears nothing.
Crash(a) ==
    /\ stage[a] \notin {"new", "done", "rejected", "dead"}
    /\ Goto(a, "dead")
    /\ UNCHANGED <<ask, number, answer, tables, printing>>
--------------------------------------------------------------------------------
Handle(a) ==
    \/ FindProfile(a)
    \/ InsertProfile(a)
    \/ TakeNumber(a)
    \/ InsertOrder(a)
    \/ LoseInsert(a)
    \/ Replay(a)
    \/ Dispatch(a)
    \/ PrintDocuments(a)

Next ==
    \/ \E a \in Attempts : (\E q \in Request : Receive(a, q)) \/ Handle(a) \/ Crash(a)
    \/ \E o \in Attempts : Pay(o)

Spec == Init /\ [][Next]_vars

\* A handler that is running keeps running; clients, cashiers and crashes are free.
FairSpec == Spec /\ \A a \in Attempts : WF_vars(Handle(a))
--------------------------------------------------------------------------------
(***************************************************************************)
(* Properties                                                              *)
(***************************************************************************)

\* Every variable holds a value of its type.
TypeOK ==
    /\ stage \in [Attempts -> Stages]
    /\ ask \in [Attempts -> Request \cup {NoOrder}]
    /\ number \in [Attempts -> Nat]
    /\ row \in [Attempts -> Row \cup {NoOrder}]
    /\ answer \in [Attempts -> Attempts \cup {NoOrder}]
    /\ profiles \in [Phones -> Nat]
    /\ points \in Nat
    /\ tickets \in [Attempts -> Nat]
    /\ receipts \in [Attempts -> Nat]

\* A client order id names at most one order, however often and however
\* concurrently the request is sent.
OneOrderPerKey == \A key \in Keys : Cardinality(OrdersOf(key)) <= 1

\* Two orders of a location never carry the same ticket number: the number
\* identifies one order to the staff who call it.
TicketsIdentify ==
    \A o, p \in Orders :
        (o # p /\ row[o].loc = row[p].loc /\ row[o].loc # NoLocation)
            => row[o].number # row[p].number

\* Whatever a client is answered is its own order: the one committed under the
\* key it sent, or by the attempt itself.
AnswersAreOwn ==
    \A a \in Attempts : answer[a] # NoOrder =>
        /\ answer[a] \in Orders
        /\ answer[a] = a \/ (ask[a].key # NoKey /\ row[answer[a]].key = ask[a].key)

\* A retried or raced request never fires the kitchen twice for one order.
TicketPrintedOnce == \A o \in Attempts : tickets[o] <= 1

\* An order that a client was told about has been sent to the kitchen.
AnsweredIsPrinted ==
    \A a \in Attempts : answer[a] # NoOrder => tickets[answer[a]] = 1

\* Each document prints at most once: an order created already paid and an order
\* paid while its creation is still being dispatched get one receipt.
ReceiptPrintedOnce == \A o \in Attempts : receipts[o] <= 1

\* The phone number is the customer's identity: one profile per number.
OneProfilePerPhone == \A p \in Phones : profiles[p] <= 1

\* Every order with a phone number has a customer profile.
OrdersAreProfiled ==
    \A o \in Orders : ask[o].phone # NoPhone => row[o].profiled

\* The loyalty balance is what the customer started with, less what the orders
\* redeemed, plus what they earned.
PointsAddUp ==
    points + MapThenSumSet(LAMBDA o : row[o].redeemed, Orders)
        = Stake + MapThenSumSet(LAMBDA o : row[o].earned, Orders)

\* A request the server has started on is answered, refused, or lost in a crash.
RequestsEnd ==
    \A a \in Attempts :
        stage[a] # "new" ~> stage[a] \in {"done", "rejected", "dead"}

\* Creation implements the order book: payment apart, each commit books one order
\* under its own key and the next number, and a booked order never changes.
booked ==
    [a \in Attempts |-> IF row[a] = NoOrder THEN NoOrder
                                           ELSE [row[a] EXCEPT !.paid = FALSE]]

BookView == INSTANCE OrderBook WITH Blank <- NoOrder, book <- booked

ImplementsOrderBook == BookView!Spec
================================================================================
