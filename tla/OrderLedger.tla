------------------------------ MODULE OrderLedger ------------------------------
(***************************************************************************)
(* The orders and payments tables, and the request handlers that write     *)
(* them (orders.service.ts, order-payment.service.ts).                     *)
(*                                                                         *)
(* Postgres runs READ COMMITTED.  A handler reads the order row in one     *)
(* statement and writes it in a later one, so every handler here is two    *)
(* steps, a read that keeps the row it saw and a write that uses it.       *)
(* Payments, refunds, adjustments and appends hold the advisory lock       *)
(* 'order-payment' from before the read until they commit; edits and       *)
(* status changes hold nothing.  A handler may die between its two steps   *)
(* (Abort): the transaction rolls back and the lock is released.           *)
(*                                                                         *)
(* Money is in cents.  What priceCartItems, the discount and the tax make  *)
(* of a cart is one number, the value of its lines ("goods").              *)
(***************************************************************************)
EXTENDS Integers

CONSTANTS
    Orders,      \* order ids
    Requests,    \* handler instances that can be in flight at once
    Endpoints,   \* the operations this deployment's clients use
    Prices,      \* what a cart can come to, after discount and tax
    Surcharges,  \* service charges a POS order can carry
    Tips,        \* tips a tender can carry
    MutationIds, \* clientMutationId values of appends
    NoMutation,  \* an append that carries none
    MaxGoods,    \* bound: appends stop when the lines of an order reach it
    MaxTip,      \* bound: tips stop when those of an order reach it
    MaxTaken     \* bound: tenders stop when those of an order reach it

ASSUME MoneyAssumption ==
    /\ Prices \subseteq Nat
    /\ Surcharges \subseteq Nat
    /\ Tips \subseteq Nat
    /\ MaxGoods \in Nat
    /\ MaxTip \in Nat
    /\ MaxTaken \in Nat

ASSUME MutationAssumption == NoMutation \notin MutationIds

VARIABLES
    order,     \* the orders table: a row, or Absent
    taken,     \* sum of the positive payments rows of an order
    refunded,  \* sum of its negative rows, as a positive number
    claims,    \* order_mutations: the clientMutationIds already claimed
    appended,  \* history: how many times each clientMutationId added lines
    req        \* per handler: Idle, or the operation and what it has read

vars == <<order, taken, refunded, claims, appended, req>>
--------------------------------------------------------------------------------
Statuses ==
    {"pending", "confirmed", "preparing", "ready", "completed", "cancelled",
     "refunded"}

ManualStatuses == Statuses \ {"refunded"}

Transitions ==
    [ pending   |-> {"confirmed", "preparing", "cancelled"},
      confirmed |-> {"preparing", "cancelled", "refunded"},
      preparing |-> {"ready", "cancelled"},
      ready     |-> {"completed", "cancelled"},
      completed |-> {"refunded"},
      cancelled |-> {},
      refunded  |-> {} ]

\* The statuses in which the lines of an order may still change.
Editable == {"pending", "confirmed"}

\* An orders row.  total is the column the customer is billed; goods is the
\* value of the order_items rows; method says whether paymentMethod is set.
Row ==
    [ status : Statuses, goods : Nat, service : Nat, tip : Nat, total : Nat,
      paid : BOOLEAN, method : BOOLEAN ]

\* Records without the columns of a row.
Absent == [absent |-> TRUE]
Idle   == [op |-> "idle"]

LockedOps == {"pay", "refund", "partial", "adjust", "append"}
UnlockedOps == {"edit", "status", "autostart"}

\* What a handler holds between its read and its write: the row it saw, the
\* paid sum it saw, and the caller's amount, tip, status and mutation id.
Request ==
    [ op : LockedOps \cup UnlockedOps, order : Orders, row : Row, net : Int,
      amount : Nat, tip : Nat, to : Statuses,
      id : MutationIds \cup {NoMutation} ]

Net(o) == taken[o] - refunded[o]

Busy(r, op) == req[r] # Idle /\ req[r].op = op

\* lockOrderRow: some handler is inside its serialized section for o.
Locked(o) ==
    \E r \in Requests :
        req[r] # Idle /\ req[r].op \in LockedOps /\ req[r].order = o

\* Handler r starts op on order o, having read the row and the paid sum.
Begin(r, op, o, amount, tip, to, id) ==
    /\ op \in Endpoints
    /\ req[r] = Idle
    /\ order[o] # Absent
    /\ req' = [req EXCEPT ![r] =
                 [ op |-> op, order |-> o, row |-> order[o], net |-> Net(o),
                   amount |-> amount, tip |-> tip, to |-> to, id |-> id ]]
    /\ UNCHANGED <<order, taken, refunded, claims, appended>>

BeginLocked(r, op, o, amount, tip, id) ==
    /\ ~Locked(o)
    /\ Begin(r, op, o, amount, tip, "pending", id)

BeginUnlocked(r, op, o, amount, to) ==
    Begin(r, op, o, amount, 0, to, NoMutation)

Finish(r) == req' = [req EXCEPT ![r] = Idle]
--------------------------------------------------------------------------------
Init ==
    /\ order    = [o \in Orders |-> Absent]
    /\ taken    = [o \in Orders |-> 0]
    /\ refunded = [o \in Orders |-> 0]
    /\ claims   = {}
    /\ appended = [m \in MutationIds |-> 0]
    /\ req      = [r \in Requests |-> Idle]

NewRow(status, goods, service, tip, prepaid) ==
    [ status |-> status, goods |-> goods, service |-> service, tip |-> tip,
      total |-> goods + service + tip, paid |-> prepaid, method |-> prepaid ]

\* createMarketplaceOrder: an unpaid pending order at the marketplace's prices,
\* its tip included.
CreateMarketplaceOrder(o) ==
    /\ "market" \in Endpoints
    /\ order[o] = Absent
    /\ \E goods \in Prices, tip \in Tips :
         order' = [order EXCEPT ![o] = NewRow("pending", goods, 0, tip, FALSE)]
    /\ UNCHANGED <<taken, refunded, claims, appended, req>>

\* createOrderForOrg: an unpaid pending order.
CreateRemoteOrder(o) ==
    /\ "remote" \in Endpoints
    /\ order[o] = Absent
    /\ \E goods \in Prices :
         order' = [order EXCEPT ![o] = NewRow("pending", goods, 0, 0, FALSE)]
    /\ UNCHANGED <<taken, refunded, claims, appended, req>>

\* handleOrderIncomingEvent at a location with autoStartAiOrders: the order is
\* created, and the handler goes on to move it to 'preparing'.
CreateAutoStarted(r, o) ==
    /\ "autostart" \in Endpoints
    /\ order[o] = Absent
    /\ req[r] = Idle
    /\ \E goods \in Prices :
         LET row == NewRow("pending", goods, 0, 0, FALSE)
         IN  /\ order' = [order EXCEPT ![o] = row]
             /\ req' = [req EXCEPT ![r] =
                          [ op |-> "autostart", order |-> o, row |-> row,
                            net |-> 0, amount |-> 0, tip |-> 0,
                            to |-> "preparing", id |-> NoMutation ]]
    /\ UNCHANGED <<taken, refunded, claims, appended>>

\* createPosOrder saved unpaid: dine-in and pay-later.
CreatePosTab(o) ==
    /\ "pos" \in Endpoints
    /\ order[o] = Absent
    /\ \E goods \in Prices, service \in Surcharges :
         order' = [order EXCEPT ![o] =
                     NewRow("confirmed", goods, service, 0, FALSE)]
    /\ UNCHANGED <<taken, refunded, claims, appended, req>>

\* createPosOrder with a payment method: the row is paid on insert, and no
\* payments row is written.
CreatePosSale(o) ==
    /\ "posPaid" \in Endpoints
    /\ order[o] = Absent
    /\ \E goods \in Prices, service \in Surcharges, tip \in Tips :
         order' = [order EXCEPT ![o] =
                     NewRow("confirmed", goods, service, tip, TRUE)]
    /\ UNCHANGED <<taken, refunded, claims, appended, req>>
--------------------------------------------------------------------------------
\* Mutant: the tender is not cut to the remaining balance.
PayReadUncapped(r, o) ==
    /\ order[o] # Absent
    /\ ~order[o].paid
    /\ order[o].status # "cancelled"
    /\ \E applied \in 1..MaxTaken :
         /\ taken[o] + applied <= MaxTaken
         /\ BeginLocked(r, "pay", o, applied, 0, NoMutation)

\* recordPayment and payOrder.  Any positive amount may be asked for, and what
\* is applied is cut to the balance: applied ranges over 1..balance.
PayRead(r, o) ==
    /\ order[o] # Absent
    /\ ~order[o].paid
    /\ order[o].status # "cancelled"
    /\ \E tip \in Tips, applied \in 1..MaxTaken :
         /\ order[o].tip + tip <= MaxTip
         /\ taken[o] + applied <= MaxTaken
         /\ applied <= order[o].total + tip - Net(o)
         /\ BeginLocked(r, "pay", o, applied, tip, NoMutation)

PayCommit(r) ==
    /\ Busy(r, "pay")
    /\ LET q == req[r]
           newTotal == q.row.total + q.tip
           covers   == q.net + q.amount >= newTotal
           confirmed == IF q.row.status = "pending" THEN "confirmed"
                                                    ELSE q.row.status
       IN  /\ taken' = [taken EXCEPT ![q.order] = @ + q.amount]
           /\ order' = [order EXCEPT
                ![q.order].tip    = q.row.tip + q.tip,
                ![q.order].total  = newTotal,
                ![q.order].method = TRUE,
                ![q.order].paid   = covers \/ @,
                ![q.order].status = IF covers THEN confirmed ELSE @]
    /\ Finish(r)
    /\ UNCHANGED <<refunded, claims, appended>>

\* Mutants: the refund guards run before the lock is taken; the refund writes a
\* status that is not one of the seven.
RefundReadUnlocked(r, o) ==
    /\ order[o] # Absent
    /\ order[o].status # "cancelled"
    /\ order[o].paid \/ order[o].method
    /\ Net(o) > 0
    /\ BeginUnlocked(r, "refund", o, 0, "pending")

RefundCommitVoided(r) ==
    /\ Busy(r, "refund")
    /\ refunded' = [refunded EXCEPT ![req[r].order] = @ + req[r].net]
    /\ order' = [order EXCEPT ![req[r].order].status = "voided"]
    /\ Finish(r)
    /\ UNCHANGED <<taken, claims, appended>>

\* refundPaidOrder: everything still held goes back and the order is voided.
RefundRead(r, o) ==
    /\ order[o] # Absent
    /\ order[o].status # "cancelled"
    /\ order[o].paid \/ order[o].method
    /\ Net(o) > 0
    /\ BeginLocked(r, "refund", o, 0, 0, NoMutation)

RefundCommit(r) ==
    /\ Busy(r, "refund")
    /\ LET q == req[r]
       IN  /\ refunded' = [refunded EXCEPT ![q.order] = @ + q.net]
           /\ order' = [order EXCEPT ![q.order].status = "cancelled"]
    /\ Finish(r)
    /\ UNCHANGED <<taken, claims, appended>>

\* refundPartialOrder: the order stays paid.
PartialRead(r, o) ==
    /\ order[o] # Absent
    /\ order[o].status # "cancelled"
    /\ order[o].paid
    /\ \E amount \in 1..MaxTaken :
         /\ amount <= Net(o)
         /\ BeginLocked(r, "partial", o, amount, 0, NoMutation)

PartialCommit(r) ==
    /\ Busy(r, "partial")
    /\ LET q == req[r]
       IN  refunded' = [refunded EXCEPT ![q.order] = @ + q.amount]
    /\ Finish(r)
    /\ UNCHANGED <<order, taken, claims, appended>>

\* Mutant: an adjustment leaves paidAt alone.
AdjustCommitKeepsPaid(r) ==
    /\ Busy(r, "adjust")
    /\ LET q == req[r]
       IN  order' = [order EXCEPT ![q.order].goods = q.amount,
                                  ![q.order].total = q.amount + q.row.tip]
    /\ Finish(r)
    /\ UNCHANGED <<taken, refunded, claims, appended>>

\* adjustOrderItems: new lines, no guard on the status; the order becomes
\* unpaid when its new total outgrows what is held, and the difference goes
\* back when it shrinks below it.
AdjustRead(r, o) ==
    \E goods \in Prices : BeginLocked(r, "adjust", o, goods, 0, NoMutation)

AdjustCommit(r) ==
    /\ Busy(r, "adjust")
    /\ LET q == req[r]
           liveTotal == q.amount + q.row.tip
       IN  /\ order' = [order EXCEPT
                ![q.order].goods = q.amount,
                ![q.order].total = liveTotal,
                ![q.order].paid  = (liveTotal <= q.net) /\ q.row.paid]
           /\ refunded' = [refunded EXCEPT
                ![q.order] = IF liveTotal < q.net THEN @ + q.net - liveTotal
                                                  ELSE @]
    /\ Finish(r)
    /\ UNCHANGED <<taken, claims, appended>>

\* Mutants: the append takes a lock of its own instead of the payment lock, so it
\* can race a tender; the claim is not recorded.
AppendReadUnlocked(r, o) ==
    /\ order[o] # Absent
    /\ ~order[o].paid
    /\ order[o].status \in Editable
    /\ Net(o) <= 0
    /\ \E goods \in Prices :
         /\ order[o].goods + goods <= MaxGoods
         /\ BeginUnlocked(r, "append", o, goods, "pending")

AppendCommitUnclaimed(r) ==
    /\ Busy(r, "append")
    /\ LET q == req[r]
       IN  /\ appended' = [m \in MutationIds |->
                IF m = q.id THEN appended[m] + 1 ELSE appended[m]]
           /\ order' = [order EXCEPT
                ![q.order].goods = @ + q.amount,
                ![q.order].total = q.row.goods + q.amount + q.row.tip]
    /\ Finish(r)
    /\ UNCHANGED <<taken, refunded, claims>>

\* appendOrderItems.  A clientMutationId already claimed makes the call a
\* no-op, so only the first call with an id gets as far as the guards.
AppendRead(r, o) ==
    /\ order[o] # Absent
    /\ ~order[o].paid
    /\ order[o].status \in Editable
    /\ Net(o) <= 0
    /\ \E goods \in Prices, id \in MutationIds \cup {NoMutation} :
         /\ id \notin claims
         /\ order[o].goods + goods <= MaxGoods
         /\ BeginLocked(r, "append", o, goods, 0, id)

\* The insert of the claim takes effect at commit; a rival that claimed the
\* id on another order first makes the statement a no-op.
AppendCommit(r) ==
    /\ Busy(r, "append")
    /\ LET q == req[r]
       IN  IF q.id \in claims
           THEN UNCHANGED <<order, claims, appended>>
           ELSE /\ claims' = claims \cup ({q.id} \ {NoMutation})
                /\ appended' = [m \in MutationIds |->
                     IF m = q.id THEN appended[m] + 1 ELSE appended[m]]
                /\ order' = [order EXCEPT
                     ![q.order].goods = @ + q.amount,
                     ![q.order].total = q.row.goods + q.amount + q.row.tip]
    /\ Finish(r)
    /\ UNCHANGED <<taken, refunded>>
--------------------------------------------------------------------------------
\* updateOrderItems: the three guards are read outside any lock, and the
\* transaction that replaces the lines takes none.
EditRead(r, o) ==
    /\ order[o] # Absent
    /\ ~order[o].paid
    /\ order[o].status \in Editable
    /\ Net(o) <= 0
    /\ \E goods \in Prices : BeginUnlocked(r, "edit", o, goods, "pending")

EditCommit(r) ==
    /\ Busy(r, "edit")
    /\ LET q == req[r]
       IN  order' = [order EXCEPT ![q.order].goods = q.amount,
                                  ![q.order].total = q.amount + q.row.tip]
    /\ Finish(r)
    /\ UNCHANGED <<taken, refunded, claims, appended>>

\* updateOrderStatus (staff), handleStatusChange and advanceNativeStatus with
\* updateStatusForAggregator (marketplaces): the status read is checked against
\* the table, the write is unconditional.  Only a marketplace reports
\* 'refunded'.
StatusRead(r, o) ==
    /\ order[o] # Absent
    /\ \E to \in Transitions[order[o].status] :
         /\ to \in ManualStatuses \/ "market" \in Endpoints
         /\ BeginUnlocked(r, "status", o, 0, to)

StatusWrite(r) ==
    /\ Busy(r, "status") \/ Busy(r, "autostart")
    /\ order' = [order EXCEPT ![req[r].order].status = req[r].to]
    /\ Finish(r)
    /\ UNCHANGED <<taken, refunded, claims, appended>>

\* The instance or its connection dies between a handler's read and its write.
Abort(r) ==
    /\ req[r] # Idle
    /\ Finish(r)
    /\ UNCHANGED <<order, taken, refunded, claims, appended>>
--------------------------------------------------------------------------------
Create(o) ==
    \/ CreateRemoteOrder(o)
    \/ CreateMarketplaceOrder(o)
    \/ CreatePosTab(o)
    \/ CreatePosSale(o)
    \/ \E r \in Requests : CreateAutoStarted(r, o)

Read(r, o) ==
    \/ PayRead(r, o)
    \/ RefundRead(r, o)
    \/ PartialRead(r, o)
    \/ AdjustRead(r, o)
    \/ AppendRead(r, o)
    \/ EditRead(r, o)
    \/ StatusRead(r, o)

Commit(r) ==
    \/ PayCommit(r)
    \/ RefundCommit(r)
    \/ PartialCommit(r)
    \/ AdjustCommit(r)
    \/ AppendCommit(r)
    \/ EditCommit(r)
    \/ StatusWrite(r)
    \/ Abort(r)

Next ==
    \/ \E o \in Orders : Create(o)
    \/ \E r \in Requests, o \in Orders : Read(r, o)
    \/ \E r \in Requests : Commit(r)

Spec == Init /\ [][Next]_vars
--------------------------------------------------------------------------------
(***************************************************************************)
(* Properties                                                              *)
(***************************************************************************)

\* Every column holds a value of its type; a handler is idle or holds a request.
TypeOK ==
    /\ order \in [Orders -> Row \cup {Absent}]
    /\ taken \in [Orders -> Nat]
    /\ refunded \in [Orders -> Nat]
    /\ claims \subseteq MutationIds
    /\ appended \in [MutationIds -> Nat]
    /\ req \in [Requests -> Request \cup {Idle}]

\* Cumulative refunds can never exceed payments, whichever of the three refund
\* paths issued them and however their handlers interleave.
RefundsWithinPayments == \A o \in Orders : refunded[o] <= taken[o]

\* The money held against an order never exceeds its bill: no handler re-prices
\* an order below what a tender in flight has already taken.
HeldWithinBill ==
    \A o \in Orders : order[o] # Absent => Net(o) <= order[o].total

\* An order that reads as paid has had its whole bill tendered: no handler sets
\* paidAt, or leaves it set, on a bill the payments table does not cover.
PaidIsCovered ==
    \A o \in Orders :
        (order[o] # Absent /\ order[o].paid) => taken[o] >= order[o].total

\* An order whose recorded payments cover its bill reads as paid.
CoveredIsPaid ==
    \A o \in Orders :
        (order[o] # Absent /\ Net(o) > 0 /\ Net(o) >= order[o].total)
            => order[o].paid

\* The bill is the value of the lines on the order, its service charge and the
\* tips: concurrent appends, adjustments and tenders lose none of each other.
BillMatchesLines ==
    \A o \in Orders : order[o] # Absent =>
        order[o].total = order[o].goods + order[o].service + order[o].tip

\* However often an append is retried or raced, its clientMutationId adds its
\* lines at most once.
AppendedOnce == \A m \in MutationIds : appended[m] <= 1

\* A cancelled order takes no money: no tender lands on it after a
\* cancellation that the tender's handler could not see.
CancelledTakesNoMoney ==
    [][\A o \in Orders :
        (order[o] # Absent /\ order[o].status = "cancelled")
            => taken'[o] = taken[o]]_vars

\* 'cancelled' and 'refunded' are terminal, whoever else is changing the order.
TerminalStatusIsFinal ==
    [][\A o \in Orders :
        (order[o] # Absent /\ order[o].status \in {"cancelled", "refunded"})
            => order'[o].status = order[o].status]_vars

\* Every change of an order's status is one the transition table lists.
StatusMovesAreLegal ==
    [][\A o \in Orders :
        (order[o] # Absent /\ order'[o].status # order[o].status)
            => order'[o].status \in Transitions[order[o].status]]_vars

\* An order as the till sees it: its bill, and the money held against it.
billed == [o \in Orders |-> IF order[o] = Absent THEN 0 ELSE order[o].total]

held == [o \in Orders |-> Net(o)]

TillView == INSTANCE Till WITH due <- billed, net <- held

\* The ledger implements the till: seen as bills and money held, every step of
\* every handler is a bill, a tender, a refund or nothing.
ImplementsTill == TillView!Spec
================================================================================
