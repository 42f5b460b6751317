--------------------------- MODULE OrderLedgerProofs ---------------------------
(***************************************************************************)
(* What the order ledger guarantees for any number of orders, handlers,    *)
(* prices and tips.                                                        *)
(***************************************************************************)
EXTENDS OrderLedger, TLAPS

\* Handler r is inside the serialized section of order o.
Holds(r, o) == req[r] # Idle /\ req[r].op \in LockedOps /\ req[r].order = o

\* The advisory lock excludes: one handler at a time inside an order's section.
OneHolder ==
    \A r, s \in Requests, o \in Orders : Holds(r, o) /\ Holds(s, o) => r = s

\* What a lock holder read of the payments table still stands, and its amount
\* was checked against it.
SeenBalance ==
    \A r \in Requests, o \in Orders : Holds(r, o) =>
        /\ req[r].net = Net(o)
        /\ req[r].op = "refund" => req[r].net > 0
        /\ req[r].op = "partial" => req[r].amount <= req[r].net
        /\ req[r].op = "append" => req[r].net <= 0

\* No handler is in flight on an order that does not exist.
InFlightExists == \A r \in Requests : req[r] # Idle => order[req[r].order] # Absent

IInv ==
    /\ TypeOK
    /\ InFlightExists
    /\ OneHolder
    /\ SeenBalance
    /\ RefundsWithinPayments

--------------------------------------------------------------------------------
LEMMA AbsentIsNoRow == Absent \notin Row
<1>1. ASSUME Absent \in Row PROVE FALSE
  <2>1. DOMAIN Absent = {"absent"}
    BY DEF Absent
  <2>2. "status" \in DOMAIN Absent
    BY <1>1 DEF Row
  <2>3. QED
    BY <2>1, <2>2
<1>2. QED
  BY <1>1

LEMMA IdleIsNoRequest == Idle \notin Request
  BY DEF Idle, Request, LockedOps, UnlockedOps

LEMMA InitIInv == Init => IInv
  BY DEF Init, IInv, TypeOK, InFlightExists, OneHolder, SeenBalance, Holds,
         RefundsWithinPayments

\* A handler that starts with what it is entitled to keeps the invariant: the
\* tables stand, and if it takes the lock nobody else had it.
LEMMA BeginIInv ==
    ASSUME IInv, NEW r \in Requests, NEW o \in Orders,
           NEW op \in LockedOps \cup UnlockedOps,
           NEW amount \in Nat, NEW tip \in Nat, NEW to \in Statuses,
           NEW id \in MutationIds \cup {NoMutation},
           Begin(r, op, o, amount, tip, to, id),
           op \in LockedOps => ~Locked(o),
           op = "refund" => Net(o) > 0,
           op = "partial" => amount <= Net(o),
           op = "append" => Net(o) <= 0
    PROVE  IInv'
<1> DEFINE q == [ op |-> op, order |-> o, row |-> order[o], net |-> Net(o),
                  amount |-> amount, tip |-> tip, to |-> to, id |-> id ]
<1>1. /\ req' = [req EXCEPT ![r] = q]
      /\ order[o] # Absent
      /\ UNCHANGED <<order, taken, refunded, claims, appended>>
  BY DEF Begin
<1>2. TypeOK
  BY DEF IInv
<1>3. q \in Request
  <2>1. order[o] \in Row
    BY <1>1, <1>2 DEF TypeOK
  <2>2. Net(o) \in Int
    BY <1>2 DEF TypeOK, Net
  <2>3. QED
    BY <2>1, <2>2 DEF Request
<1>4. q # Idle
  BY <1>3, IdleIsNoRequest
<1>5. \A s \in Requests : s # r => req'[s] = req[s]
  BY <1>1, <1>2 DEF TypeOK
<1>6. req'[r] = q
  BY <1>1, <1>2 DEF TypeOK
<1>7. TypeOK'
  BY <1>1, <1>2, <1>3 DEF TypeOK
<1>8. InFlightExists'
  BY <1>1, <1>5, <1>6 DEF IInv, InFlightExists
<1>9. OneHolder'
  BY <1>5, <1>6 DEF IInv, OneHolder, Holds, Locked
<1>10. SeenBalance'
  <2> SUFFICES ASSUME NEW s \in Requests, NEW p \in Orders, Holds(s, p)'
               PROVE  /\ req'[s].net = Net(p)
                      /\ req'[s].op = "refund" => req'[s].net > 0
                      /\ req'[s].op = "partial" => req'[s].amount <= req'[s].net
                      /\ req'[s].op = "append" => req'[s].net <= 0
    BY <1>1 DEF SeenBalance, Net
  <2>1. CASE s = r
    BY <2>1, <1>6 DEF Holds
  <2>2. CASE s # r
    BY <2>2, <1>5 DEF Holds, IInv, SeenBalance
  <2>3. QED
    BY <2>1, <2>2
<1>11. RefundsWithinPayments'
  BY <1>1 DEF IInv, RefundsWithinPayments
<1>12. QED
  BY <1>7, <1>8, <1>9, <1>10, <1>11 DEF IInv

\* A handler that ends keeps the invariant if it leaves well-typed tables, drops
\* no order, and moved money only on the order whose lock it held.
LEMMA FinishIInv ==
    ASSUME IInv, NEW r \in Requests, req[r] # Idle, Finish(r),
           order' \in [Orders -> Row \cup {Absent}],
           taken' \in [Orders -> Nat], refunded' \in [Orders -> Nat],
           claims' \subseteq MutationIds, appended' \in [MutationIds -> Nat],
           \A o \in Orders : order[o] # Absent => order'[o] # Absent,
           \A o \in Orders : Holds(r, o) \/ (/\ taken'[o] = taken[o]
                                             /\ refunded'[o] = refunded[o]),
           RefundsWithinPayments'
    PROVE  IInv'
<1>1. TypeOK
  BY DEF IInv
<1>2. req' = [req EXCEPT ![r] = Idle]
  BY DEF Finish
<1>3. req'[r] = Idle /\ \A s \in Requests : s # r => req'[s] = req[s]
  BY <1>1, <1>2 DEF TypeOK
<1>4. TypeOK'
  BY <1>1, <1>2 DEF TypeOK
<1>5. InFlightExists'
  <2> SUFFICES ASSUME NEW s \in Requests, req'[s] # Idle
               PROVE  order'[req'[s].order] # Absent
    BY DEF InFlightExists
  <2>1. s # r /\ req'[s] = req[s]
    BY <1>3
  <2>2. req[s].order \in Orders
    BY <2>1, <1>1 DEF TypeOK, Request
  <2>3. QED
    BY <2>1, <2>2 DEF IInv, InFlightExists
<1>6. OneHolder'
  BY <1>3 DEF IInv, OneHolder, Holds
<1>7. SeenBalance'
  <2> SUFFICES ASSUME NEW s \in Requests, NEW p \in Orders, Holds(s, p)'
               PROVE  /\ req'[s].net = Net(p)'
                      /\ req'[s].op = "refund" => req'[s].net > 0
                      /\ req'[s].op = "partial" => req'[s].amount <= req'[s].net
                      /\ req'[s].op = "append" => req'[s].net <= 0
    BY DEF SeenBalance
  <2>1. s # r /\ req'[s] = req[s] /\ Holds(s, p)
    BY <1>3 DEF Holds
  <2>2. ~Holds(r, p)
    BY <2>1 DEF IInv, OneHolder
  <2>3. Net(p)' = Net(p)
    BY <2>2 DEF Net
  <2>4. QED
    BY <2>1, <2>3 DEF IInv, SeenBalance
<1>8. QED
  BY <1>4, <1>5, <1>6, <1>7 DEF IInv

--------------------------------------------------------------------------------
LEMMA RowType ==
    ASSUME NEW status \in Statuses, NEW goods \in Nat, NEW service \in Nat,
           NEW tip \in Nat, NEW prepaid \in BOOLEAN
    PROVE  NewRow(status, goods, service, tip, prepaid) \in Row
  BY DEF NewRow, Row

\* A row put where there was none: no handler can be holding that order.
LEMMA InsertIInv ==
    ASSUME IInv, NEW o \in Orders, order[o] = Absent, NEW row \in Row,
           order' = [order EXCEPT ![o] = row],
           UNCHANGED <<taken, refunded, claims, appended, req>>
    PROVE  IInv'
<1>1. TypeOK
  BY DEF IInv
<1>2. order'[o] # Absent /\ \A p \in Orders : p # o => order'[p] = order[p]
  BY <1>1, AbsentIsNoRow DEF TypeOK
<1>3. TypeOK'
  BY <1>1 DEF TypeOK
<1>4. InFlightExists'
  <2> SUFFICES ASSUME NEW s \in Requests, req[s] # Idle
               PROVE  order'[req[s].order] # Absent
    BY DEF InFlightExists
  <2>1. req[s].order \in Orders
    BY <1>1 DEF TypeOK, Request
  <2>2. QED
    BY <2>1, <1>2 DEF IInv, InFlightExists
<1>5. OneHolder'
  BY DEF IInv, OneHolder, Holds
<1>6. SeenBalance'
  BY DEF IInv, SeenBalance, Holds, Net
<1>7. RefundsWithinPayments'
  BY DEF IInv, RefundsWithinPayments
<1>8. QED
  BY <1>3, <1>4, <1>5, <1>6, <1>7 DEF IInv

LEMMA CreateIInv ==
    ASSUME IInv, NEW o \in Orders, Create(o)
    PROVE  IInv'
<1>1. CASE CreateRemoteOrder(o)
  <2>1. PICK goods \in Prices :
          order' = [order EXCEPT ![o] = NewRow("pending", goods, 0, 0, FALSE)]
    BY <1>1 DEF CreateRemoteOrder
  <2>2. NewRow("pending", goods, 0, 0, FALSE) \in Row
    BY RowType, MoneyAssumption DEF Statuses
  <2>3. QED
    BY <1>1, <2>1, <2>2, InsertIInv DEF CreateRemoteOrder
<1>2. CASE CreatePosTab(o)
  <2>1. PICK goods \in Prices, service \in Surcharges :
          order' = [order EXCEPT ![o] =
                      NewRow("confirmed", goods, service, 0, FALSE)]
    BY <1>2 DEF CreatePosTab
  <2>2. NewRow("confirmed", goods, service, 0, FALSE) \in Row
    BY RowType, MoneyAssumption DEF Statuses
  <2>3. QED
    BY <1>2, <2>1, <2>2, InsertIInv DEF CreatePosTab
<1>3. CASE CreatePosSale(o)
  <2>1. PICK goods \in Prices, service \in Surcharges, tip \in Tips :
          order' = [order EXCEPT ![o] =
                      NewRow("confirmed", goods, service, tip, TRUE)]
    BY <1>3 DEF CreatePosSale
  <2>2. NewRow("confirmed", goods, service, tip, TRUE) \in Row
    BY RowType, MoneyAssumption DEF Statuses
  <2>3. QED
    BY <1>3, <2>1, <2>2, InsertIInv DEF CreatePosSale
<1>4. ASSUME NEW r \in Requests, CreateAutoStarted(r, o) PROVE IInv'
  <2>1. PICK goods \in Prices :
          LET row == NewRow("pending", goods, 0, 0, FALSE)
          IN  /\ order' = [order EXCEPT ![o] = row]
              /\ req' = [req EXCEPT ![r] =
                           [ op |-> "autostart", order |-> o, row |-> row,
                             net |-> 0, amount |-> 0, tip |-> 0,
                             to |-> "preparing", id |-> NoMutation ]]
    BY <1>4 DEF CreateAutoStarted
  <2> DEFINE row == NewRow("pending", goods, 0, 0, FALSE)
             q == [ op |-> "autostart", order |-> o, row |-> row, net |-> 0,
                    amount |-> 0, tip |-> 0, to |-> "preparing",
                    id |-> NoMutation ]
  <2>2. row \in Row
    BY RowType, MoneyAssumption DEF Statuses
  <2> HIDE DEF row
  <2>3. q \in Request
    BY <2>2 DEF Request, UnlockedOps, Statuses
  <2>4. TypeOK
    BY DEF IInv
  <2>5. /\ order' = [order EXCEPT ![o] = row]
        /\ req' = [req EXCEPT ![r] = q]
        /\ UNCHANGED <<taken, refunded, claims, appended>>
    BY <1>4, <2>1 DEF CreateAutoStarted, row
  <2>6. order'[o] # Absent /\ \A p \in Orders : p # o => order'[p] = order[p]
    BY <2>2, <2>4, <2>5, AbsentIsNoRow DEF TypeOK
  <2>7. req'[r] = q /\ \A s \in Requests : s # r => req'[s] = req[s]
    BY <2>4, <2>5 DEF TypeOK
  <2>8. \A p \in Orders : ~(q.op \in LockedOps)
    BY DEF LockedOps
  <2>9. TypeOK'
    BY <2>2, <2>3, <2>4, <2>5 DEF TypeOK
  <2>10. InFlightExists'
    <3> SUFFICES ASSUME NEW s \in Requests, req'[s] # Idle
                 PROVE  order'[req'[s].order] # Absent
      BY DEF InFlightExists
    <3>1. CASE s = r
      BY <3>1, <2>6, <2>7
    <3>2. CASE s # r
      <4>1. req'[s] = req[s] /\ req[s].order \in Orders
        BY <3>2, <2>4, <2>7 DEF TypeOK, Request
      <4>2. QED
        BY <4>1, <2>6 DEF IInv, InFlightExists
    <3>3. QED
      BY <3>1, <3>2
  <2>11. OneHolder'
    BY <2>7, <2>8 DEF IInv, OneHolder, Holds
  <2>12. SeenBalance'
    <3> SUFFICES ASSUME NEW s \in Requests, NEW p \in Orders, Holds(s, p)'
                 PROVE  /\ req'[s].net = Net(p)
                        /\ req'[s].op = "refund" => req'[s].net > 0
                        /\ req'[s].op = "partial" =>
                               req'[s].amount <= req'[s].net
                        /\ req'[s].op = "append" => req'[s].net <= 0
      BY <2>5 DEF SeenBalance, Net
    <3>1. s # r /\ req'[s] = req[s]
      BY <2>7, <2>8 DEF Holds
    <3>2. QED
      BY <3>1 DEF Holds, IInv, SeenBalance
  <2>13. RefundsWithinPayments'
    BY <2>5 DEF IInv, RefundsWithinPayments
  <2>14. QED
    BY <2>9, <2>10, <2>11, <2>12, <2>13 DEF IInv
<1>5. CASE CreateMarketplaceOrder(o)
  <2>1. PICK goods \in Prices, tip \in Tips :
          order' = [order EXCEPT ![o] = NewRow("pending", goods, 0, tip, FALSE)]
    BY <1>5 DEF CreateMarketplaceOrder
  <2>2. NewRow("pending", goods, 0, tip, FALSE) \in Row
    BY RowType, MoneyAssumption DEF Statuses
  <2>3. QED
    BY <1>5, <2>1, <2>2, InsertIInv DEF CreateMarketplaceOrder
<1>6. QED
  BY <1>1, <1>2, <1>3, <1>4, <1>5 DEF Create

LEMMA ReadIInv ==
    ASSUME IInv, NEW r \in Requests, NEW o \in Orders, Read(r, o)
    PROVE  IInv'
<1> USE DEF BeginLocked, BeginUnlocked, LockedOps, UnlockedOps, Statuses
<1>1. CASE PayRead(r, o)
  BY <1>1, BeginIInv, MoneyAssumption DEF PayRead
<1>2. CASE RefundRead(r, o)
  BY <1>2, BeginIInv DEF RefundRead
<1>3. CASE PartialRead(r, o)
  BY <1>3, BeginIInv, MoneyAssumption DEF PartialRead
<1>4. CASE AdjustRead(r, o)
  BY <1>4, BeginIInv, MoneyAssumption DEF AdjustRead
<1>5. CASE AppendRead(r, o)
  BY <1>5, BeginIInv, MoneyAssumption DEF AppendRead
<1>6. CASE EditRead(r, o)
  BY <1>6, BeginIInv, MoneyAssumption DEF EditRead
<1>7. CASE StatusRead(r, o)
  <2>1. IInv => TypeOK
    BY DEF IInv
  <2>2. order[o].status \in Statuses
    BY <1>7, <2>1 DEF StatusRead, TypeOK, Row
  <2>3. Transitions[order[o].status] \subseteq Statuses
    BY <2>2 DEF Transitions
  <2>4. PICK to \in Transitions[order[o].status] :
          Begin(r, "status", o, 0, 0, to, NoMutation)
    BY <1>7 DEF StatusRead
  <2>5. QED
    BY <2>3, <2>4, BeginIInv
<1>8. QED
  BY <1>1, <1>2, <1>3, <1>4, <1>5, <1>6, <1>7 DEF Read

LEMMA CommitIInv ==
    ASSUME IInv, NEW r \in Requests, Commit(r)
    PROVE  IInv'
<1> DEFINE q == req[r]
<1>1. TypeOK /\ InFlightExists /\ SeenBalance /\ RefundsWithinPayments
  BY DEF IInv
<1>2. q # Idle
  BY DEF Commit, PayCommit, RefundCommit, PartialCommit, AdjustCommit,
         AppendCommit, EditCommit, StatusWrite, Abort, Busy
<1>3. q \in Request /\ q.order \in Orders /\ order[q.order] \in Row
  BY <1>1, <1>2 DEF TypeOK, Request, InFlightExists
<1>3a. /\ q.amount \in Nat /\ q.tip \in Nat /\ q.net \in Int /\ q.to \in Statuses
          /\ q.row.goods \in Nat /\ q.row.tip \in Nat /\ q.row.total \in Nat
          /\ q.row.status \in Statuses /\ q.row.paid \in BOOLEAN
          /\ order[q.order].goods \in Nat
          /\ order[q.order].status \in Statuses
          /\ order[q.order].paid \in BOOLEAN
  <2>1. q.row \in Row
    BY <1>3 DEF Request
  <2>2. QED
    BY <2>1, <1>3 DEF Request, Row
<1>4. ASSUME q.op \in LockedOps
      PROVE  /\ Holds(r, q.order)
             /\ q.net = Net(q.order)
             /\ q.op = "refund" => q.net > 0
             /\ q.op = "partial" => q.amount <= q.net
  BY <1>1, <1>2, <1>3, <1>4 DEF Holds, SeenBalance
<1>5. /\ \A o \in Orders : taken[o] \in Nat /\ refunded[o] \in Nat
      /\ \A o \in Orders : refunded[o] <= taken[o]
  BY <1>1 DEF TypeOK, RefundsWithinPayments
<1>6. CASE PayCommit(r)
  <2>1. q.op = "pay" /\ Finish(r) /\ UNCHANGED <<refunded, claims, appended>>
    BY <1>6 DEF PayCommit, Busy
  <2>2. taken' = [taken EXCEPT ![q.order] = @ + q.amount]
    BY <1>6 DEF PayCommit
  <2>3. order' \in [Orders -> Row \cup {Absent}]
        /\ \A o \in Orders : order[o] # Absent => order'[o] # Absent
    <3> DEFINE newTotal == q.row.total + q.tip
               covers == q.net + q.amount >= newTotal
               confirmed == IF q.row.status = "pending" THEN "confirmed"
                                                         ELSE q.row.status
               row == [ order[q.order] EXCEPT
                          !.tip = q.row.tip + q.tip, !.total = newTotal,
                          !.method = TRUE, !.paid = covers \/ @,
                          !.status = IF covers THEN confirmed ELSE @ ]
    <3>1. order' = [order EXCEPT ![q.order] = row]
      BY <1>6 DEF PayCommit
    <3>2. row \in Row
      <4>1. covers \in BOOLEAN /\ newTotal \in Nat /\ confirmed \in Statuses
        BY <1>3a DEF Statuses
      <4>2. (covers \/ order[q.order].paid) \in BOOLEAN
        OBVIOUS
      <4>3. (IF covers THEN confirmed ELSE order[q.order].status) \in Statuses
        BY <4>1, <1>3a
      <4>4. q.row.tip + q.tip \in Nat
        BY <1>3a
      <4> HIDE DEF covers, newTotal, confirmed
      <4>5. QED
        BY <4>1, <4>2, <4>3, <4>4, <1>3 DEF Row
    <3>3. QED
      BY <3>1, <3>2, <1>1, <1>3, AbsentIsNoRow DEF TypeOK
  <2>4. taken' \in [Orders -> Nat]
    BY <2>2, <1>1, <1>3 DEF TypeOK, Request
  <2>5. RefundsWithinPayments'
    BY <2>1, <2>2, <1>1, <1>3, <1>5 DEF TypeOK, Request, RefundsWithinPayments
  <2>6. \A o \in Orders : Holds(r, o) \/ (/\ taken'[o] = taken[o]
                                           /\ refunded'[o] = refunded[o])
    BY <2>1, <2>2, <1>1, <1>3, <1>4 DEF TypeOK, LockedOps
  <2>7. QED
    BY <2>1, <2>3, <2>4, <2>5, <2>6, <1>1, <1>2, FinishIInv DEF TypeOK
<1>7. CASE RefundCommit(r)
  <2>1. q.op = "refund" /\ Finish(r) /\ UNCHANGED <<taken, claims, appended>>
    BY <1>7 DEF RefundCommit, Busy
  <2>2. /\ refunded' = [refunded EXCEPT ![q.order] = @ + q.net]
        /\ order' = [order EXCEPT ![q.order].status = "cancelled"]
    BY <1>7 DEF RefundCommit
  <2>3. order' \in [Orders -> Row \cup {Absent}]
        /\ \A o \in Orders : order[o] # Absent => order'[o] # Absent
    <3>1. [order[q.order] EXCEPT !.status = "cancelled"] \in Row
      BY <1>3 DEF Row, Statuses
    <3>2. QED
      BY <3>1, <2>2, <1>1, <1>3, AbsentIsNoRow DEF TypeOK
  <2>4. q.net = taken[q.order] - refunded[q.order] /\ q.net \in Nat
    BY <2>1, <1>3, <1>4, <1>5 DEF LockedOps, Net, Request
  <2>5. refunded' \in [Orders -> Nat] /\ RefundsWithinPayments'
    BY <2>1, <2>2, <2>4, <1>1, <1>3, <1>5 DEF TypeOK, RefundsWithinPayments
  <2>6. \A o \in Orders : Holds(r, o) \/ (/\ taken'[o] = taken[o]
                                           /\ refunded'[o] = refunded[o])
    BY <2>1, <2>2, <1>1, <1>3, <1>4 DEF TypeOK, LockedOps
  <2>7. QED
    BY <2>1, <2>3, <2>5, <2>6, <1>1, <1>2, FinishIInv DEF TypeOK
<1>8. CASE PartialCommit(r)
  <2>1. /\ q.op = "partial" /\ Finish(r)
        /\ UNCHANGED <<order, taken, claims, appended>>
        /\ refunded' = [refunded EXCEPT ![q.order] = @ + q.amount]
    BY <1>8 DEF PartialCommit, Busy
  <2>2. q.amount \in Nat /\ q.amount <= taken[q.order] - refunded[q.order]
    BY <2>1, <1>3, <1>4 DEF LockedOps, Net, Request
  <2>3. refunded' \in [Orders -> Nat] /\ RefundsWithinPayments'
    BY <2>1, <2>2, <1>1, <1>3, <1>5 DEF TypeOK, RefundsWithinPayments
  <2>4. \A o \in Orders : Holds(r, o) \/ (/\ taken'[o] = taken[o]
                                           /\ refunded'[o] = refunded[o])
    BY <2>1, <1>1, <1>3, <1>4 DEF TypeOK, LockedOps
  <2>5. QED
    BY <2>1, <2>3, <2>4, <1>1, <1>2, FinishIInv DEF TypeOK
<1>9. CASE AdjustCommit(r)
  <2> DEFINE liveTotal == q.amount + q.row.tip
             back == IF liveTotal < q.net THEN q.net - liveTotal ELSE 0
  <2>1. q.op = "adjust" /\ Finish(r) /\ UNCHANGED <<taken, claims, appended>>
    BY <1>9 DEF AdjustCommit, Busy
  <2>2. liveTotal \in Nat /\ back \in Nat
    BY <1>3a
  <2>3. order' \in [Orders -> Row \cup {Absent}]
        /\ \A o \in Orders : order[o] # Absent => order'[o] # Absent
    <3> DEFINE row == [ order[q.order] EXCEPT
                          !.goods = q.amount, !.total = liveTotal,
                          !.paid = (liveTotal <= q.net) /\ q.row.paid ]
    <3>1. order' = [order EXCEPT ![q.order] = row]
      BY <1>9 DEF AdjustCommit
    <3>2. row \in Row
      <4>1. ((liveTotal <= q.net) /\ q.row.paid) \in BOOLEAN
        OBVIOUS
      <4> HIDE DEF liveTotal
      <4>2. QED
        BY <4>1, <2>2, <1>3, <1>3a DEF Row
    <3>3. QED
      BY <3>1, <3>2, <1>1, <1>3, AbsentIsNoRow DEF TypeOK
  <2>4. refunded' = [refunded EXCEPT ![q.order] = @ + back]
    <3>1. refunded[q.order] \in Nat /\ q.net \in Int
      BY <1>3, <1>5 DEF Request
    <3>2. refunded' = [refunded EXCEPT
            ![q.order] = IF liveTotal < q.net
                         THEN refunded[q.order] + q.net - liveTotal
                         ELSE refunded[q.order]]
      BY <1>9 DEF AdjustCommit
    <3>3. refunded[q.order] + back =
            IF liveTotal < q.net THEN refunded[q.order] + q.net - liveTotal
                                 ELSE refunded[q.order]
      BY <3>1, <2>2
    <3>4. QED
      BY <3>2, <3>3
  <2>5. back <= taken[q.order] - refunded[q.order]
    BY <2>1, <2>2, <1>3, <1>4, <1>5 DEF LockedOps, Net, Request
  <2>6. refunded' \in [Orders -> Nat] /\ RefundsWithinPayments'
    <3> HIDE DEF back
    <3> QED
      BY <2>1, <2>2, <2>4, <2>5, <1>1, <1>3, <1>5
         DEF TypeOK, RefundsWithinPayments
  <2>7. \A o \in Orders : Holds(r, o) \/ (/\ taken'[o] = taken[o]
                                           /\ refunded'[o] = refunded[o])
    BY <2>1, <2>4, <1>1, <1>3, <1>4 DEF TypeOK, LockedOps
  <2>8. QED
    BY <2>1, <2>3, <2>6, <2>7, <1>1, <1>2, FinishIInv DEF TypeOK
<1>10. CASE AppendCommit(r)
  <2>1. q.op = "append" /\ Finish(r) /\ UNCHANGED <<taken, refunded>>
    BY <1>10 DEF AppendCommit, Busy
  <2>2. order' \in [Orders -> Row \cup {Absent}]
        /\ \A o \in Orders : order[o] # Absent => order'[o] # Absent
    <3> DEFINE row == [ order[q.order] EXCEPT
                          !.goods = @ + q.amount,
                          !.total = q.row.goods + q.amount + q.row.tip ]
    <3>1. order' = order \/ order' = [order EXCEPT ![q.order] = row]
      BY <1>10 DEF AppendCommit
    <3>2. row \in Row
      <4>1. /\ order[q.order].goods + q.amount \in Nat
            /\ q.row.goods + q.amount + q.row.tip \in Nat
        BY <1>3a
      <4>2. QED
        BY <4>1, <1>3 DEF Row
    <3>3. QED
      BY <3>1, <3>2, <1>1, <1>3, AbsentIsNoRow DEF TypeOK
  <2>3. claims' \subseteq MutationIds
    BY <1>10, <1>1, <1>3 DEF AppendCommit, TypeOK, Request
  <2>4. appended' \in [MutationIds -> Nat]
    BY <1>10, <1>1 DEF AppendCommit, TypeOK
  <2>5. RefundsWithinPayments'
    BY <2>1, <1>1 DEF RefundsWithinPayments
  <2>6. QED
    BY <2>1, <2>2, <2>3, <2>4, <2>5, <1>1, <1>2, FinishIInv DEF TypeOK
<1>11. CASE EditCommit(r)
  <2>1. Finish(r) /\ UNCHANGED <<taken, refunded, claims, appended>>
    BY <1>11 DEF EditCommit
  <2>2. order' \in [Orders -> Row \cup {Absent}]
        /\ \A o \in Orders : order[o] # Absent => order'[o] # Absent
    <3> DEFINE row == [ order[q.order] EXCEPT !.goods = q.amount,
                                              !.total = q.amount + q.row.tip ]
    <3>1. order' = [order EXCEPT ![q.order] = row]
      BY <1>11 DEF EditCommit
    <3>2. row \in Row
      <4>1. q.amount + q.row.tip \in Nat
        BY <1>3a
      <4>2. QED
        BY <4>1, <1>3, <1>3a DEF Row
    <3>3. QED
      BY <3>1, <3>2, <1>1, <1>3, AbsentIsNoRow DEF TypeOK
  <2>3. QED
    BY <2>1, <2>2, <1>1, <1>2, FinishIInv DEF TypeOK, RefundsWithinPayments
<1>12. CASE StatusWrite(r)
  <2>1. Finish(r) /\ UNCHANGED <<taken, refunded, claims, appended>>
    BY <1>12 DEF StatusWrite
  <2>2. order' \in [Orders -> Row \cup {Absent}]
        /\ \A o \in Orders : order[o] # Absent => order'[o] # Absent
    <3>1. order' = [order EXCEPT ![q.order] =
                      [order[q.order] EXCEPT !.status = q.to]]
      BY <1>12 DEF StatusWrite
    <3>2. [order[q.order] EXCEPT !.status = q.to] \in Row
      BY <1>3 DEF Row, Request
    <3>3. QED
      BY <3>1, <3>2, <1>1, <1>3, AbsentIsNoRow DEF TypeOK
  <2>3. QED
    BY <2>1, <2>2, <1>1, <1>2, FinishIInv DEF TypeOK, RefundsWithinPayments
<1>13. CASE Abort(r)
  BY <1>13, <1>1, <1>2, FinishIInv DEF Abort, TypeOK, RefundsWithinPayments
<1>14. QED
  BY <1>6, <1>7, <1>8, <1>9, <1>10, <1>11, <1>12, <1>13 DEF Commit

LEMMA StepIInv == IInv /\ [Next]_vars => IInv'
<1> SUFFICES ASSUME IInv, [Next]_vars PROVE IInv'
  OBVIOUS
<1>1. CASE UNCHANGED vars
  BY <1>1 DEF vars, IInv, TypeOK, InFlightExists, OneHolder, SeenBalance,
              Holds, Net, RefundsWithinPayments
<1>2. CASE Next
  BY <1>2, CreateIInv, ReadIInv, CommitIInv DEF Next
<1>3. QED
  BY <1>1, <1>2

THEOREM LedgerInvariant == Spec => []IInv
<1>1. QED
  BY InitIInv, StepIInv, PTL DEF Spec

\* Every column and every request in flight keeps its type.
THEOREM LedgerTypeOK == Spec => []TypeOK
<1>1. IInv => TypeOK
  BY DEF IInv
<1>2. QED
  BY <1>1, LedgerInvariant, PTL

\* However many registers, managers and marketplaces work on an order, and
\* whatever dies in between, refunds never exceed payments: the guarantee the
\* 'order-payment' advisory lock is there for.
THEOREM LedgerRefundsWithinPayments == Spec => []RefundsWithinPayments
<1>1. IInv => RefundsWithinPayments
  BY DEF IInv
<1>2. QED
  BY <1>1, LedgerInvariant, PTL
--------------------------------------------------------------------------------
\* A mutation id that has added its lines has been claimed in the same transaction.
CountsAreClaimed ==
    \A m \in MutationIds : appended[m] = 0 \/ (appended[m] = 1 /\ m \in claims)

LEMMA StepCounts ==
    ASSUME TypeOK, CountsAreClaimed, [Next]_vars PROVE CountsAreClaimed'
<1>1. CASE UNCHANGED <<claims, appended>>
  BY <1>1 DEF CountsAreClaimed
<1>2. ASSUME NEW r \in Requests, AppendCommit(r) PROVE CountsAreClaimed'
  <2> DEFINE id == req[r].id
  <2>1. CASE id \in claims
    BY <1>2, <2>1, <1>1 DEF AppendCommit
  <2>2. CASE id \notin claims
    <3>1. /\ claims' = claims \cup ({id} \ {NoMutation})
          /\ appended' = [m \in MutationIds |->
                            IF m = id THEN appended[m] + 1 ELSE appended[m]]
      BY <1>2, <2>2 DEF AppendCommit
    <3> QED
      BY <2>2, <3>1, MutationAssumption DEF CountsAreClaimed
  <2> QED
    BY <2>1, <2>2
<1>3. ASSUME NEW o \in Orders, Create(o) PROVE UNCHANGED <<claims, appended>>
  BY <1>3 DEF Create, CreateRemoteOrder, CreateMarketplaceOrder, CreatePosTab,
              CreatePosSale, CreateAutoStarted
<1>4. ASSUME NEW r \in Requests, NEW o \in Orders, Read(r, o)
      PROVE  UNCHANGED <<claims, appended>>
  <2>1. \A op, amount, tip, to, id :
          Begin(r, op, o, amount, tip, to, id) => UNCHANGED <<claims, appended>>
    BY DEF Begin
  <2> QED
    BY <1>4, <2>1 DEF Read, PayRead, RefundRead, PartialRead, AdjustRead, AppendRead,
                      EditRead, StatusRead, BeginLocked, BeginUnlocked
<1>5. ASSUME NEW r \in Requests, Commit(r), ~AppendCommit(r)
      PROVE  UNCHANGED <<claims, appended>>
  BY <1>5 DEF Commit, PayCommit, RefundCommit, PartialCommit, AdjustCommit, EditCommit,
              StatusWrite, Abort
<1>6. CASE Next
  BY <1>1, <1>2, <1>3, <1>4, <1>5, <1>6 DEF Next
<1> QED
  BY <1>1, <1>6 DEF vars

\* However many registers resend or race an append, and on however many orders, its
\* clientMutationId adds its lines at most once (the claim row of order_mutations).
THEOREM LedgerAppendedOnce == Spec => []AppendedOnce
<1>1. Init => CountsAreClaimed
  BY DEF Init, CountsAreClaimed
<1>2. TypeOK /\ CountsAreClaimed /\ [Next]_vars => CountsAreClaimed'
  BY StepCounts
<1>3. CountsAreClaimed => AppendedOnce
  BY DEF CountsAreClaimed, AppendedOnce
<1> QED
  BY <1>1, <1>2, <1>3, LedgerTypeOK, PTL DEF Spec
--------------------------------------------------------------------------------
(***************************************************************************)
(* What it guarantees where every writer of money and lines takes the      *)
(* 'order-payment' lock, that is, where no client uses updateOrderItems    *)
(* (the endpoint "edit"): money held stays within the bill, a paid order   *)
(* is covered, the bill matches the lines, and the ledger implements Till. *)
(***************************************************************************)
NoEdits == \A r \in Requests : req[r] # Idle => req[r].op # "edit"

\* What a lock holder read of the order row still stands, but for its status, and
\* its amount was checked against it.
Seen ==
    \A r \in Requests, o \in Orders : Holds(r, o) =>
        LET q == req[r]
        IN  /\ q.row.total = order[o].total
            /\ q.row.goods = order[o].goods
            /\ q.row.tip = order[o].tip
            /\ q.row.paid <=> order[o].paid
            /\ q.op = "pay" => /\ q.amount >= 1
                               /\ q.amount <= q.row.total + q.tip - q.net
                               /\ ~q.row.paid
            /\ q.op = "partial" => q.amount >= 1
            /\ q.op = "append" => ~q.row.paid

\* An order that does not exist has no money.  One that does holds no more than its
\* bill; if it is paid, its bill was tendered; and without service charges its bill
\* is the value of its lines and the tips.
Books(o) ==
    /\ order[o] = Absent => taken[o] = 0 /\ refunded[o] = 0
    /\ order[o] # Absent =>
         /\ taken[o] - refunded[o] <= order[o].total
         /\ "posPaid" \notin Endpoints /\ order[o].paid => taken[o] >= order[o].total
         /\ Surcharges \subseteq {0} =>
              /\ order[o].service = 0
              /\ order[o].total = order[o].goods + order[o].tip

TInv == NoEdits /\ Seen /\ \A o \in Orders : Books(o)

\* A step leaves o's account alone.
Kept(o) ==
    /\ taken'[o] = taken[o] /\ refunded'[o] = refunded[o]
    /\ order[o] = Absent <=> order'[o] = Absent
    /\ order[o] # Absent =>
         /\ order'[o].total = order[o].total
         /\ order'[o].goods = order[o].goods
         /\ order'[o].service = order[o].service
         /\ order'[o].tip = order[o].tip
         /\ order'[o].paid <=> order[o].paid
--------------------------------------------------------------------------------
LEMMA InitTInv == Init => TInv
  BY DEF Init, TInv, NoEdits, Seen, Holds, Books

LEMMA KeptBooks == ASSUME NEW o \in Orders, Books(o), Kept(o) PROVE Books(o)'
  BY DEF Books, Kept

\* Nothing but the requests changes.
LEMMA TablesKept ==
    ASSUME UNCHANGED <<order, taken, refunded>> PROVE \A o \in Orders : Kept(o)
  BY DEF Kept

\* One order row is replaced, and the money of the others is not touched.
LEMMA OthersKept ==
    ASSUME TypeOK, NEW o \in Orders, NEW row \in Row,
           order' = [order EXCEPT ![o] = row],
           \A p \in Orders : p # o => taken'[p] = taken[p] /\ refunded'[p] = refunded[p]
    PROVE  order'[o] = row /\ order'[o] # Absent /\ \A p \in Orders : p # o => Kept(p)
  BY AbsentIsNoRow DEF TypeOK, Kept

Unpaid(o) == ~order[o].paid

\* A handler that starts with what it is entitled to.
LEMMA BeginTInv ==
    ASSUME IInv, TInv, NEW r \in Requests, NEW o \in Orders,
           NEW op \in LockedOps \cup UnlockedOps,
           NEW amount \in Nat, NEW tip \in Nat, NEW to \in Statuses,
           NEW id \in MutationIds \cup {NoMutation},
           Begin(r, op, o, amount, tip, to, id),
           op # "edit",
           op = "pay" => /\ amount >= 1 /\ amount <= order[o].total + tip - Net(o)
                         /\ Unpaid(o),
           op = "partial" => amount >= 1,
           op = "append" => Unpaid(o)
    PROVE  TInv'
<1> DEFINE q == [ op |-> op, order |-> o, row |-> order[o], net |-> Net(o),
                  amount |-> amount, tip |-> tip, to |-> to, id |-> id ]
<1>1. req' = [req EXCEPT ![r] = q] /\ UNCHANGED <<order, taken, refunded>>
  BY DEF Begin
<1>2. req'[r] = q /\ \A s \in Requests : s # r => req'[s] = req[s]
  BY <1>1 DEF IInv, TypeOK
<1>3. NoEdits'
  BY <1>2 DEF TInv, NoEdits
<1>4. Seen'
  <2>1. ASSUME NEW s \in Requests, s # r, NEW p \in Orders, Holds(s, p)'
        PROVE  req'[s] = req[s] /\ Holds(s, p)
    BY <2>1, <1>2 DEF Holds
  <2> QED
    BY <2>1, <1>1, <1>2 DEF TInv, Seen, Holds, Unpaid
<1>5. \A p \in Orders : Books(p)'
  BY <1>1, TablesKept, KeptBooks DEF TInv
<1> QED
  BY <1>3, <1>4, <1>5 DEF TInv

\* A handler that ends having changed no account but the one whose lock it held.
LEMMA FinishTInv ==
    ASSUME IInv, TInv, NEW r \in Requests, Finish(r),
           \A o \in Orders : Kept(o) \/ (Holds(r, o) /\ Books(o)')
    PROVE  TInv'
<1>1. req'[r] = Idle /\ \A s \in Requests : s # r => req'[s] = req[s]
  BY DEF Finish, IInv, TypeOK
<1>2. NoEdits'
  BY <1>1 DEF TInv, NoEdits
<1>3. Seen'
  <2> SUFFICES ASSUME NEW s \in Requests, NEW o \in Orders, Holds(s, o)'
               PROVE  LET q == req'[s]
                      IN  /\ q.row.total = order'[o].total
                          /\ q.row.goods = order'[o].goods
                          /\ q.row.tip = order'[o].tip
                          /\ q.row.paid <=> order'[o].paid
                          /\ q.op = "pay" => /\ q.amount >= 1
                                             /\ q.amount <= q.row.total + q.tip - q.net
                                             /\ ~q.row.paid
                          /\ q.op = "partial" => q.amount >= 1
                          /\ q.op = "append" => ~q.row.paid
    BY DEF Seen
  <2>1. s # r /\ req'[s] = req[s] /\ Holds(s, o)
    BY <1>1 DEF Holds
  <2>2. ~Holds(r, o)
    BY <2>1 DEF IInv, OneHolder
  <2>3. Kept(o)
    BY <2>2
  <2>4. order[o] # Absent
    BY <2>1 DEF Holds, IInv, InFlightExists
  <2> QED
    BY <2>1, <2>3, <2>4 DEF TInv, Seen, Kept
<1>4. \A o \in Orders : Books(o)'
  BY KeptBooks DEF TInv
<1> QED
  BY <1>2, <1>3, <1>4 DEF TInv
--------------------------------------------------------------------------------
(***************************************************************************)
(* What each handler does to the account of its order                      *)
(***************************************************************************)

Tendered(o) ==
    /\ order[o] # Absent /\ order'[o] # Absent
    /\ Net(o)' > Net(o)
    /\ order'[o].total >= order[o].total
    /\ Net(o)' <= order'[o].total

GivenBack(o) ==
    /\ order[o] # Absent /\ order'[o] # Absent
    /\ Net(o)' < Net(o)
    /\ order'[o].total = order[o].total

Rebilled(o) ==
    /\ order'[o] # Absent
    /\ Net(o)' = IF Net(o) <= order'[o].total THEN Net(o) ELSE order'[o].total

\* What a handler inside the section of its order knows of it.
LEMMA HolderSees ==
    ASSUME IInv, TInv, NEW r \in Requests, req[r] # Idle, req[r].op \in LockedOps,
           NEW o, o = req[r].order
    PROVE  LET q == req[r]
           IN  /\ o \in Orders /\ Holds(r, o)
               /\ order[o] # Absent /\ order[o] \in Row
               /\ q.row \in Row /\ q.amount \in Nat /\ q.tip \in Nat
               /\ q.net = taken[o] - refunded[o]
               /\ taken[o] \in Nat /\ refunded[o] \in Nat /\ refunded[o] <= taken[o]
               /\ q.row.total = order[o].total
               /\ q.row.goods = order[o].goods
               /\ q.row.tip = order[o].tip
               /\ q.row.paid <=> order[o].paid
               /\ Books(o)
<1>1. req[r] \in Request /\ o \in Orders
  BY DEF IInv, TypeOK, Request
<1>2. Holds(r, o)
  BY DEF Holds
<1>3. order[o] # Absent /\ order[o] \in Row
  BY <1>1 DEF IInv, TypeOK, InFlightExists
<1>4. req[r].row \in Row /\ req[r].amount \in Nat /\ req[r].tip \in Nat
  BY <1>1 DEF Request
<1> QED
  BY <1>1, <1>2, <1>3, <1>4
     DEF IInv, TInv, SeenBalance, Seen, TypeOK, RefundsWithinPayments, Net

LEMMA PayEffect ==
    ASSUME IInv, TInv, NEW r \in Requests, PayCommit(r), NEW o, o = req[r].order
    PROVE  /\ o \in Orders /\ Holds(r, o)
           /\ \A p \in Orders : p # o => Kept(p)
           /\ Books(o)' /\ Tendered(o)
<1> DEFINE q == req[r]
           newTotal == q.row.total + q.tip
           covers == q.net + q.amount >= newTotal
           confirmed == IF q.row.status = "pending" THEN "confirmed" ELSE q.row.status
           status == IF covers THEN confirmed ELSE order[o].status
           paid == covers \/ order[o].paid
           row == [ order[o] EXCEPT !.tip = q.row.tip + q.tip, !.total = newTotal,
                                    !.method = TRUE, !.paid = paid, !.status = status ]
<1>1. q # Idle /\ q.op = "pay" /\ q.op \in LockedOps
  BY DEF PayCommit, Busy, LockedOps
<1>2. /\ taken' = [taken EXCEPT ![o] = @ + q.amount]
      /\ refunded' = refunded
      /\ order' = [order EXCEPT ![o] = row]
  BY DEF PayCommit
<1>3. /\ o \in Orders /\ Holds(r, o)
      /\ order[o] # Absent /\ order[o] \in Row
      /\ q.row \in Row /\ q.amount \in Nat /\ q.tip \in Nat
      /\ q.net = taken[o] - refunded[o]
      /\ taken[o] \in Nat /\ refunded[o] \in Nat
      /\ q.row.total = order[o].total
      /\ q.row.tip = order[o].tip
      /\ q.row.paid <=> order[o].paid
      /\ Books(o)
  BY <1>1, HolderSees
<1>4. q.amount >= 1 /\ q.amount <= q.row.total + q.tip - q.net /\ ~q.row.paid
  BY <1>1, <1>3 DEF TInv, Seen
<1>5. /\ order[o].total \in Nat /\ order[o].tip \in Nat /\ order[o].goods \in Nat
      /\ order[o].service \in Nat
  BY <1>3 DEF Row
<1>6. status \in Statuses
  BY <1>3 DEF Row, Statuses
<1>7. paid \in BOOLEAN
  BY <1>3 DEF Row
<1>8. newTotal \in Nat /\ q.row.tip + q.tip \in Nat
  BY <1>3, <1>5
<1>9. paid <=> q.net + q.amount >= newTotal
  BY <1>3, <1>4
<1> DEFINE total == newTotal
<1> HIDE DEF status, paid
<1>10. row \in Row /\ row.total = newTotal /\ row.tip = q.row.tip + q.tip
       /\ row.goods = order[o].goods /\ row.service = order[o].service
       /\ (row.paid <=> paid)
  <2> HIDE DEF newTotal, q
  <2> QED
    BY <1>3, <1>6, <1>7, <1>8 DEF Row
<1> HIDE DEF row
<1>11. taken'[o] = taken[o] + q.amount /\ refunded'[o] = refunded[o]
       /\ \A p \in Orders : p # o => taken'[p] = taken[p] /\ refunded'[p] = refunded[p]
  BY <1>2, <1>3 DEF IInv, TypeOK
<1>12. order'[o] = row /\ order'[o] # Absent /\ \A p \in Orders : p # o => Kept(p)
  BY <1>2, <1>3, <1>10, <1>11, OthersKept DEF IInv
<1>13. Tendered(o)
  BY <1>3, <1>4, <1>5, <1>10, <1>11, <1>12 DEF Tendered, Net
<1>14. Books(o)'
  BY <1>3, <1>4, <1>5, <1>9, <1>10, <1>11, <1>12 DEF Books
<1> QED
  BY <1>3, <1>12, <1>13, <1>14

LEMMA RefundEffect ==
    ASSUME IInv, TInv, NEW r \in Requests, RefundCommit(r), NEW o, o = req[r].order
    PROVE  /\ o \in Orders /\ Holds(r, o)
           /\ \A p \in Orders : p # o => Kept(p)
           /\ Books(o)' /\ GivenBack(o)
<1> DEFINE q == req[r]
           row == [order[o] EXCEPT !.status = "cancelled"]
<1>1. q # Idle /\ q.op = "refund" /\ q.op \in LockedOps
  BY DEF RefundCommit, Busy, LockedOps
<1>2. /\ taken' = taken
      /\ refunded' = [refunded EXCEPT ![o] = @ + q.net]
      /\ order' = [order EXCEPT ![o] = row]
  BY DEF RefundCommit
<1>3. /\ o \in Orders /\ Holds(r, o)
      /\ order[o] # Absent /\ order[o] \in Row
      /\ q.net = taken[o] - refunded[o]
      /\ taken[o] \in Nat /\ refunded[o] \in Nat
      /\ Books(o)
  BY <1>1, HolderSees
<1>4. q.net > 0
  BY <1>1, <1>3 DEF IInv, SeenBalance
<1>5. order[o].total \in Nat
  BY <1>3 DEF Row
<1>6. row \in Row /\ row.total = order[o].total /\ row.tip = order[o].tip
      /\ row.goods = order[o].goods /\ row.service = order[o].service
      /\ (row.paid <=> order[o].paid)
  BY <1>3 DEF Row, Statuses
<1> HIDE DEF row
<1>7. taken'[o] = taken[o] /\ refunded'[o] = refunded[o] + q.net
      /\ \A p \in Orders : p # o => taken'[p] = taken[p] /\ refunded'[p] = refunded[p]
  BY <1>2, <1>3 DEF IInv, TypeOK
<1>8. order'[o] = row /\ order'[o] # Absent /\ \A p \in Orders : p # o => Kept(p)
  BY <1>2, <1>3, <1>6, <1>7, OthersKept DEF IInv
<1>9. GivenBack(o)
  BY <1>3, <1>4, <1>6, <1>7, <1>8 DEF GivenBack, Net
<1>10. Books(o)'
  BY <1>3, <1>4, <1>5, <1>6, <1>7, <1>8 DEF Books
<1> QED
  BY <1>3, <1>8, <1>9, <1>10

LEMMA PartialEffect ==
    ASSUME IInv, TInv, NEW r \in Requests, PartialCommit(r), NEW o, o = req[r].order
    PROVE  /\ o \in Orders /\ Holds(r, o)
           /\ \A p \in Orders : p # o => Kept(p)
           /\ Books(o)' /\ GivenBack(o)
<1> DEFINE q == req[r]
<1>1. q # Idle /\ q.op = "partial" /\ q.op \in LockedOps
  BY DEF PartialCommit, Busy, LockedOps
<1>2. /\ taken' = taken /\ order' = order
      /\ refunded' = [refunded EXCEPT ![o] = @ + q.amount]
  BY DEF PartialCommit
<1>3. /\ o \in Orders /\ Holds(r, o)
      /\ order[o] # Absent /\ order[o] \in Row
      /\ q.amount \in Nat
      /\ q.net = taken[o] - refunded[o]
      /\ taken[o] \in Nat /\ refunded[o] \in Nat
      /\ Books(o)
  BY <1>1, HolderSees
<1>4. q.amount >= 1 /\ q.amount <= q.net
  BY <1>1, <1>3 DEF TInv, Seen, IInv, SeenBalance
<1>5. order[o].total \in Nat
  BY <1>3 DEF Row
<1>6. taken'[o] = taken[o] /\ refunded'[o] = refunded[o] + q.amount
      /\ \A p \in Orders : p # o => taken'[p] = taken[p] /\ refunded'[p] = refunded[p]
  BY <1>2, <1>3 DEF IInv, TypeOK
<1>7. \A p \in Orders : p # o => Kept(p)
  BY <1>2, <1>6 DEF Kept
<1>8. GivenBack(o)
  BY <1>2, <1>3, <1>4, <1>6 DEF GivenBack, Net
<1>9. Books(o)'
  BY <1>2, <1>3, <1>4, <1>5, <1>6 DEF Books
<1> QED
  BY <1>3, <1>7, <1>8, <1>9

LEMMA AdjustEffect ==
    ASSUME IInv, TInv, NEW r \in Requests, AdjustCommit(r), NEW o, o = req[r].order
    PROVE  /\ o \in Orders /\ Holds(r, o)
           /\ \A p \in Orders : p # o => Kept(p)
           /\ Books(o)' /\ Rebilled(o)
<1> DEFINE q == req[r]
           liveTotal == q.amount + q.row.tip
           paid == (liveTotal <= q.net) /\ q.row.paid
           row == [order[o] EXCEPT !.goods = q.amount, !.total = liveTotal, !.paid = paid]
<1>1. q # Idle /\ q.op = "adjust" /\ q.op \in LockedOps
  BY DEF AdjustCommit, Busy, LockedOps
<1>2. /\ taken' = taken
      /\ refunded' = [refunded EXCEPT
                        ![o] = IF liveTotal < q.net THEN @ + q.net - liveTotal ELSE @]
      /\ order' = [order EXCEPT ![o] = row]
  BY DEF AdjustCommit
<1>3. /\ o \in Orders /\ Holds(r, o)
      /\ order[o] # Absent /\ order[o] \in Row
      /\ q.row \in Row /\ q.amount \in Nat
      /\ q.net = taken[o] - refunded[o]
      /\ taken[o] \in Nat /\ refunded[o] \in Nat
      /\ q.row.tip = order[o].tip
      /\ Books(o)
  BY <1>1, HolderSees
<1>4. order[o].tip \in Nat /\ order[o].service \in Nat
  BY <1>3 DEF Row
<1>5. liveTotal \in Nat /\ paid \in BOOLEAN
  BY <1>3, <1>4
<1>6. paid => liveTotal <= q.net
  OBVIOUS
<1>7. liveTotal = q.amount + order[o].tip
  BY <1>3
<1> HIDE DEF liveTotal, paid
<1>8. row \in Row /\ row.total = liveTotal /\ row.tip = order[o].tip
      /\ row.goods = q.amount /\ row.service = order[o].service
      /\ (row.paid <=> paid)
  <2> HIDE DEF q
  <2> QED
    BY <1>3, <1>5 DEF Row
<1> HIDE DEF row
<1>9. /\ taken'[o] = taken[o]
      /\ refunded'[o] = IF liveTotal < q.net THEN refunded[o] + q.net - liveTotal
                                             ELSE refunded[o]
      /\ \A p \in Orders : p # o => taken'[p] = taken[p] /\ refunded'[p] = refunded[p]
  BY <1>2, <1>3 DEF IInv, TypeOK
<1>10. order'[o] = row /\ order'[o] # Absent /\ \A p \in Orders : p # o => Kept(p)
  BY <1>2, <1>3, <1>8, <1>9, OthersKept DEF IInv
<1>11. taken'[o] - refunded'[o] = IF liveTotal < q.net THEN liveTotal ELSE q.net
  BY <1>3, <1>5, <1>9
<1>12. Rebilled(o)
  BY <1>3, <1>5, <1>8, <1>10, <1>11 DEF Rebilled, Net
<1>13. Books(o)'
  BY <1>3, <1>4, <1>5, <1>6, <1>7, <1>8, <1>9, <1>10, <1>11 DEF Books
<1> QED
  BY <1>3, <1>10, <1>12, <1>13

LEMMA AppendEffect ==
    ASSUME IInv, TInv, NEW r \in Requests, AppendCommit(r), NEW o, o = req[r].order,
           req[r].id \notin claims
    PROVE  /\ o \in Orders /\ Holds(r, o)
           /\ \A p \in Orders : p # o => Kept(p)
           /\ Books(o)' /\ Rebilled(o)
<1> DEFINE q == req[r]
           goods == order[o].goods + q.amount
           total == q.row.goods + q.amount + q.row.tip
           row == [order[o] EXCEPT !.goods = goods, !.total = total]
<1>1. q # Idle /\ q.op = "append" /\ q.op \in LockedOps
  BY DEF AppendCommit, Busy, LockedOps
<1>2. /\ taken' = taken /\ refunded' = refunded
      /\ order' = [order EXCEPT ![o] = row]
  BY DEF AppendCommit
<1>3. /\ o \in Orders /\ Holds(r, o)
      /\ order[o] # Absent /\ order[o] \in Row
      /\ q.row \in Row /\ q.amount \in Nat
      /\ q.net = taken[o] - refunded[o]
      /\ taken[o] \in Nat /\ refunded[o] \in Nat /\ refunded[o] <= taken[o]
      /\ q.row.goods = order[o].goods
      /\ q.row.tip = order[o].tip
      /\ (q.row.paid <=> order[o].paid)
      /\ Books(o)
  BY <1>1, HolderSees
<1>4. q.net <= 0 /\ ~order[o].paid
  BY <1>1, <1>3 DEF TInv, Seen, IInv, SeenBalance
<1>5. order[o].goods \in Nat /\ order[o].tip \in Nat /\ order[o].service \in Nat
  BY <1>3 DEF Row
<1>6. goods \in Nat /\ total \in Nat /\ total = goods + order[o].tip
  BY <1>3, <1>5
<1> HIDE DEF goods, total
<1>7. row \in Row /\ row.total = total /\ row.tip = order[o].tip
      /\ row.goods = goods /\ row.service = order[o].service
      /\ (row.paid <=> order[o].paid)
  BY <1>3, <1>6 DEF Row
<1> HIDE DEF row
<1>8. order'[o] = row /\ order'[o] # Absent /\ \A p \in Orders : p # o => Kept(p)
  BY <1>2, <1>3, <1>7, OthersKept DEF IInv
<1>9. Rebilled(o)
  BY <1>2, <1>3, <1>4, <1>6, <1>7, <1>8 DEF Rebilled, Net
<1>10. Books(o)'
  BY <1>2, <1>3, <1>4, <1>5, <1>6, <1>7, <1>8 DEF Books
<1> QED
  BY <1>3, <1>8, <1>9, <1>10

LEMMA StatusEffect ==
    ASSUME IInv, NEW r \in Requests, StatusWrite(r)
    PROVE  \A p \in Orders : Kept(p)
<1> DEFINE q == req[r]
           row == [order[q.order] EXCEPT !.status = q.to]
<1>1. q # Idle /\ order' = [order EXCEPT ![q.order] = row]
      /\ taken' = taken /\ refunded' = refunded
  BY DEF StatusWrite, Busy
<1>2. q \in Request /\ q.order \in Orders /\ q.to \in Statuses
      /\ order[q.order] # Absent /\ order[q.order] \in Row
  BY <1>1 DEF IInv, TypeOK, Request, InFlightExists
<1>3. row \in Row /\ row.total = order[q.order].total /\ row.tip = order[q.order].tip
      /\ row.goods = order[q.order].goods /\ row.service = order[q.order].service
      /\ (row.paid <=> order[q.order].paid)
  <2> HIDE DEF q
  <2> QED
    BY <1>2 DEF Row
<1> HIDE DEF row
<1>4. order'[q.order] = row /\ order'[q.order] # Absent
      /\ \A p \in Orders : p # q.order => Kept(p)
  BY <1>1, <1>2, <1>3, OthersKept DEF IInv
<1>5. Kept(q.order)
  BY <1>1, <1>2, <1>3, <1>4 DEF Kept
<1> QED
  BY <1>4, <1>5

\* A row put where there was none; whoever starts a handler with it takes no lock.
LEMMA InsertEffect ==
    ASSUME IInv, TInv, NEW o \in Orders, order[o] = Absent,
           NEW status \in Statuses, NEW goods \in Nat,
           NEW service \in Nat, service = 0 \/ service \in Surcharges,
           NEW tip \in Nat,
           NEW prepaid \in BOOLEAN, prepaid => "posPaid" \in Endpoints,
           order' = [order EXCEPT ![o] = NewRow(status, goods, service, tip, prepaid)],
           UNCHANGED <<taken, refunded>>,
           \A s \in Requests : \/ req'[s] = req[s]
                               \/ req'[s].op = "autostart"
    PROVE  /\ \A p \in Orders : p # o => Kept(p)
           /\ Rebilled(o) /\ TInv'
<1> DEFINE row == NewRow(status, goods, service, tip, prepaid)
<1>0. /\ row \in Row /\ row.total = row.goods + row.service + row.tip
      /\ row.service = service
      /\ row.paid => "posPaid" \in Endpoints
  <2>1. row \in Row
    BY RowType
  <2>2. row.total = row.goods + row.service + row.tip /\ row.service = service
    BY DEF NewRow
  <2>3. row.paid = prepaid
    BY DEF NewRow
  <2> QED
    BY <2>1, <2>2, <2>3
<1> HIDE DEF row
<1>1. order'[o] = row /\ order'[o] # Absent /\ \A p \in Orders : p # o => Kept(p)
  BY <1>0, OthersKept DEF IInv, row
<1>2. taken[o] = 0 /\ refunded[o] = 0
  BY DEF TInv, Books
<1>3. row.total \in Nat /\ row.goods \in Nat /\ row.tip \in Nat /\ row.service \in Nat
  BY <1>0 DEF Row
<1>4. Rebilled(o)
  BY <1>0, <1>1, <1>2, <1>3 DEF Rebilled, Net
<1>5. Books(o)'
  BY <1>0, <1>1, <1>2, <1>3 DEF Books
<1>6. \A p \in Orders : Books(p)'
  BY <1>1, <1>5, KeptBooks DEF TInv
<1>7. NoEdits'
  BY DEF TInv, NoEdits
<1>8. Seen'
  <2>1. ASSUME NEW s \in Requests, NEW p \in Orders, Holds(s, p)'
        PROVE  req'[s] = req[s] /\ Holds(s, p) /\ p # o
    <3>1. req'[s] = req[s] /\ Holds(s, p)
      BY <2>1 DEF Holds, LockedOps
    <3> QED
      BY <3>1 DEF Holds, IInv, InFlightExists
  <2>2. ASSUME NEW s \in Requests, NEW p \in Orders, Holds(s, p)'
        PROVE  Kept(p) /\ order[p] # Absent
    BY <1>1, <2>1, <2>2 DEF Holds, IInv, InFlightExists
  <2> QED
    BY <2>1, <2>2 DEF TInv, Seen, Kept
<1> QED
  BY <1>1, <1>4, <1>6, <1>7, <1>8 DEF TInv

LEMMA CreateEffect ==
    ASSUME IInv, TInv, NEW o \in Orders, Create(o)
    PROVE  /\ \A p \in Orders : p # o => Kept(p)
           /\ Rebilled(o) /\ TInv'
<1>1. CASE CreateRemoteOrder(o)
  <2>1. PICK goods \in Prices :
          order' = [order EXCEPT ![o] = NewRow("pending", goods, 0, 0, FALSE)]
    BY <1>1 DEF CreateRemoteOrder
  <2> QED
    BY <1>1, <2>1, InsertEffect, MoneyAssumption DEF CreateRemoteOrder, Statuses
<1>2. CASE CreateMarketplaceOrder(o)
  <2>1. PICK goods \in Prices, tip \in Tips :
          order' = [order EXCEPT ![o] = NewRow("pending", goods, 0, tip, FALSE)]
    BY <1>2 DEF CreateMarketplaceOrder
  <2> QED
    BY <1>2, <2>1, InsertEffect, MoneyAssumption
       DEF CreateMarketplaceOrder, Statuses
<1>3. CASE CreatePosTab(o)
  <2>1. PICK goods \in Prices, service \in Surcharges :
          order' = [order EXCEPT ![o] =
                      NewRow("confirmed", goods, service, 0, FALSE)]
    BY <1>3 DEF CreatePosTab
  <2> QED
    BY <1>3, <2>1, InsertEffect, MoneyAssumption DEF CreatePosTab, Statuses
<1>4. CASE CreatePosSale(o)
  <2>1. PICK goods \in Prices, service \in Surcharges, tip \in Tips :
          order' = [order EXCEPT ![o] =
                      NewRow("confirmed", goods, service, tip, TRUE)]
    BY <1>4 DEF CreatePosSale
  <2> QED
    BY <1>4, <2>1, InsertEffect, MoneyAssumption DEF CreatePosSale, Statuses
<1>5. ASSUME NEW r \in Requests, CreateAutoStarted(r, o)
      PROVE  /\ \A p \in Orders : p # o => Kept(p)
             /\ Rebilled(o) /\ TInv'
  <2>1. PICK goods \in Prices :
          LET row == NewRow("pending", goods, 0, 0, FALSE)
          IN  /\ order' = [order EXCEPT ![o] = row]
              /\ req' = [req EXCEPT ![r] =
                           [ op |-> "autostart", order |-> o, row |-> row,
                             net |-> 0, amount |-> 0, tip |-> 0,
                             to |-> "preparing", id |-> NoMutation ]]
    BY <1>5 DEF CreateAutoStarted
  <2>2. order' = [order EXCEPT ![o] = NewRow("pending", goods, 0, 0, FALSE)]
    BY <2>1
  <2>3. \A s \in Requests : req'[s] = req[s] \/ req'[s].op = "autostart"
    BY <2>1 DEF IInv, TypeOK
  <2> QED
    BY <1>5, <2>2, <2>3, InsertEffect, MoneyAssumption
       DEF CreateAutoStarted, Statuses
<1> QED
  BY <1>1, <1>2, <1>3, <1>4, <1>5 DEF Create

LEMMA ReadEffect ==
    ASSUME "edit" \notin Endpoints, IInv, TInv, NEW r \in Requests, NEW o \in Orders,
           Read(r, o)
    PROVE  (\A p \in Orders : Kept(p)) /\ TInv'
<1> USE DEF BeginLocked, BeginUnlocked, LockedOps, UnlockedOps, Statuses
<1>1. UNCHANGED <<order, taken, refunded>>
  BY DEF Read, PayRead, RefundRead, PartialRead, AdjustRead, AppendRead, EditRead,
         StatusRead, Begin
<1> SUFFICES TInv'
  BY <1>1, TablesKept
<1>2. CASE PayRead(r, o)
  BY <1>2, BeginTInv, MoneyAssumption DEF PayRead, Unpaid
<1>3. CASE RefundRead(r, o)
  BY <1>3, BeginTInv DEF RefundRead
<1>4. CASE PartialRead(r, o)
  BY <1>4, BeginTInv, MoneyAssumption DEF PartialRead
<1>5. CASE AdjustRead(r, o)
  BY <1>5, BeginTInv, MoneyAssumption DEF AdjustRead
<1>6. CASE AppendRead(r, o)
  BY <1>6, BeginTInv, MoneyAssumption DEF AppendRead, Unpaid
<1>7. CASE EditRead(r, o)
  BY <1>7 DEF EditRead, Begin
<1>8. CASE StatusRead(r, o)
  <2>1. order[o].status \in Statuses
    BY <1>8 DEF StatusRead, IInv, TypeOK, Row
  <2>2. Transitions[order[o].status] \subseteq Statuses
    BY <2>1 DEF Transitions
  <2>3. PICK to \in Transitions[order[o].status] :
          Begin(r, "status", o, 0, 0, to, NoMutation)
    BY <1>8 DEF StatusRead
  <2> QED
    BY <2>2, <2>3, BeginTInv
<1> QED
  BY <1>1, <1>2, <1>3, <1>4, <1>5, <1>6, <1>7, <1>8 DEF Read

\* Every step leaves all accounts alone, or is a tender, a refund or a new bill for
\* one order.
StepsTheTill ==
    \/ \A p \in Orders : Kept(p)
    \/ \E o \in Orders : /\ \A p \in Orders : p # o => Kept(p)
                         /\ Tendered(o) \/ GivenBack(o) \/ Rebilled(o)

LEMMA CommitEffect ==
    ASSUME IInv, TInv, NEW r \in Requests, Commit(r)
    PROVE  StepsTheTill /\ TInv'
<1> PICK o : o = req[r].order
  OBVIOUS
<1>1. Finish(r)
  BY DEF Commit, PayCommit, RefundCommit, PartialCommit, AdjustCommit, AppendCommit,
         EditCommit, StatusWrite, Abort
<1>2. ASSUME \A p \in Orders : Kept(p) PROVE StepsTheTill /\ TInv'
  BY <1>1, <1>2, FinishTInv DEF StepsTheTill
<1>3. ASSUME o \in Orders, Holds(r, o), \A p \in Orders : p # o => Kept(p),
             Books(o)', Tendered(o) \/ GivenBack(o) \/ Rebilled(o)
      PROVE  StepsTheTill /\ TInv'
  <2>1. TInv'
    BY <1>1, <1>3, FinishTInv
  <2> QED
    BY <2>1, <1>3 DEF StepsTheTill
<1>4. CASE PayCommit(r)
  BY <1>3, <1>4, PayEffect
<1>5. CASE RefundCommit(r)
  BY <1>3, <1>5, RefundEffect
<1>6. CASE PartialCommit(r)
  BY <1>3, <1>6, PartialEffect
<1>7. CASE AdjustCommit(r)
  BY <1>3, <1>7, AdjustEffect
<1>8. CASE AppendCommit(r)
  <2>1. CASE req[r].id \in claims
    BY <1>2, <1>8, <2>1, TablesKept DEF AppendCommit
  <2>2. CASE req[r].id \notin claims
    BY <1>3, <1>8, <2>2, AppendEffect
  <2> QED
    BY <2>1, <2>2
<1>9. CASE EditCommit(r)
  BY <1>9 DEF EditCommit, Busy, TInv, NoEdits
<1>10. CASE StatusWrite(r)
  BY <1>2, <1>10, StatusEffect
<1>11. CASE Abort(r)
  BY <1>2, <1>11, TablesKept DEF Abort
<1> QED
  BY <1>4, <1>5, <1>6, <1>7, <1>8, <1>9, <1>10, <1>11 DEF Commit

LEMMA NextTInv ==
    ASSUME "edit" \notin Endpoints, IInv, TInv, Next
    PROVE  StepsTheTill /\ TInv'
  BY CreateEffect, ReadEffect, CommitEffect DEF Next, StepsTheTill

LEMMA StepTInv ==
    ASSUME "edit" \notin Endpoints, IInv, TInv, [Next]_vars
    PROVE  StepsTheTill /\ TInv'
<1>1. CASE UNCHANGED vars
  BY <1>1 DEF vars, TInv, NoEdits, Seen, Holds, Books, Kept, StepsTheTill
<1>2. CASE Next
  BY <1>2, NextTInv
<1> QED
  BY <1>1, <1>2

LEMMA LedgerAccounts ==
    ASSUME "edit" \notin Endpoints PROVE Spec => [](IInv /\ TInv)
<1>1. IInv /\ TInv /\ [Next]_vars => TInv'
  BY StepTInv
<1> QED
  BY <1>1, InitTInv, LedgerInvariant, PTL DEF Spec
--------------------------------------------------------------------------------
\* Where no client edits items, no handler re-prices an order below what a tender
\* has taken, whatever the interleaving of payments, refunds, adjustments, appends
\* and status changes.
THEOREM LedgerHeldWithinBill ==
    ASSUME "edit" \notin Endpoints PROVE Spec => []HeldWithinBill
<1>1. IInv /\ TInv => HeldWithinBill
  BY DEF TInv, Books, HeldWithinBill, Net
<1> QED
  BY <1>1, LedgerAccounts, PTL

\* Where, besides, no order is paid on creation, an order that reads as paid has
\* had its whole bill tendered.
THEOREM LedgerPaidIsCovered ==
    ASSUME "edit" \notin Endpoints, "posPaid" \notin Endpoints
    PROVE  Spec => []PaidIsCovered
<1>1. IInv /\ TInv => PaidIsCovered
  BY DEF TInv, Books, PaidIsCovered
<1> QED
  BY <1>1, LedgerAccounts, PTL

\* Where no client edits items and no order carries a service charge, concurrent
\* appends, adjustments and tenders lose none of each other's amounts.
THEOREM LedgerBillMatchesLines ==
    ASSUME "edit" \notin Endpoints, Surcharges \subseteq {0}
    PROVE  Spec => []BillMatchesLines
<1>1. IInv /\ TInv => BillMatchesLines
  <2> SUFFICES ASSUME IInv, TInv, NEW o \in Orders, order[o] # Absent
               PROVE  order[o].total = order[o].goods + order[o].service + order[o].tip
    BY DEF BillMatchesLines
  <2>1. order[o].goods \in Nat /\ order[o].tip \in Nat
    BY DEF IInv, TypeOK, Row
  <2> QED
    BY <2>1 DEF TInv, Books
<1> QED
  BY <1>1, LedgerAccounts, PTL
--------------------------------------------------------------------------------
\* The accounts as the till sees them, one order at a time.
LEMMA TillAccounts ==
    ASSUME NEW o \in Orders, IInv, IInv', TInv, TInv'
    PROVE  /\ billed[o] = IF order[o] = Absent THEN 0 ELSE order[o].total
           /\ billed'[o] = IF order'[o] = Absent THEN 0 ELSE order'[o].total
           /\ held[o] = Net(o) /\ held'[o] = Net(o)'
           /\ billed'[o] \in Nat /\ held'[o] \in Nat
           /\ held[o] <= billed[o] /\ held'[o] <= billed'[o]
<1>1. /\ billed[o] = IF order[o] = Absent THEN 0 ELSE order[o].total
      /\ billed'[o] = IF order'[o] = Absent THEN 0 ELSE order'[o].total
      /\ held[o] = Net(o) /\ held'[o] = Net(o)'
  BY DEF billed, held
<1>2. Net(o)' \in Nat
  BY DEF IInv, TypeOK, RefundsWithinPayments, Net
<1>3. order'[o] # Absent => order'[o].total \in Nat
  BY DEF IInv, TypeOK, Row
<1>4. held[o] <= billed[o] /\ held'[o] <= billed'[o]
  BY <1>1 DEF TInv, Books, Net
<1> QED
  BY <1>1, <1>2, <1>3, <1>4

LEMMA TillStep ==
    ASSUME IInv, IInv', TInv, TInv', StepsTheTill
    PROVE  [TillView!Next]_<<billed, held>>
<1>1. ASSUME NEW p \in Orders, Kept(p)
      PROVE  billed'[p] = billed[p] /\ held'[p] = held[p]
  BY <1>1, TillAccounts DEF Kept, Net
<1>2. /\ billed = [p \in Orders |-> billed[p]] /\ billed' = [p \in Orders |-> billed'[p]]
      /\ held = [p \in Orders |-> held[p]] /\ held' = [p \in Orders |-> held'[p]]
  BY DEF billed, held
<1>3. CASE \A p \in Orders : Kept(p)
  BY <1>1, <1>2, <1>3
<1>4. ASSUME NEW o \in Orders, \A p \in Orders : p # o => Kept(p),
             Tendered(o) \/ GivenBack(o) \/ Rebilled(o)
      PROVE  TillView!Next
  <2>1. \A p \in Orders : p # o => billed'[p] = billed[p] /\ held'[p] = held[p]
    BY <1>1, <1>4
  <2>2. /\ billed' = [billed EXCEPT ![o] = billed'[o]]
        /\ held' = [held EXCEPT ![o] = held'[o]]
    BY <1>2, <2>1
  <2>3. TillView!Touches(o)
    BY <2>2, TillAccounts DEF TillView!Touches
  <2>4. CASE Tendered(o)
    BY <2>3, <2>4, TillAccounts DEF Tendered, TillView!Next, TillView!Receive
  <2>5. CASE GivenBack(o)
    BY <2>3, <2>5, TillAccounts DEF GivenBack, TillView!Next, TillView!GiveBack
  <2>6. CASE Rebilled(o)
    BY <2>3, <2>6, TillAccounts DEF Rebilled, TillView!Next, TillView!Bill
  <2> QED
    BY <1>4, <2>4, <2>5, <2>6
<1> QED
  BY <1>3, <1>4 DEF StepsTheTill

\* Where no client edits items, every step of every handler, seen as bills and money
\* held, is a bill, a tender, a refund or nothing.
THEOREM LedgerImplementsTill ==
    ASSUME "edit" \notin Endpoints PROVE Spec => ImplementsTill
<1>1. Init => TillView!Init
  BY DEF Init, TillView!Init, billed, held, Net
<1>2. IInv /\ TInv /\ (IInv /\ TInv)' /\ [Next]_vars => [TillView!Next]_<<billed, held>>
  BY StepTInv, TillStep
<1> QED
  BY <1>1, <1>2, LedgerAccounts, PTL DEF Spec, ImplementsTill, TillView!Spec, TillView!vars
================================================================================
