--------------------------- MODULE OrderIntakeProofs ---------------------------
(***************************************************************************)
(* Idempotent creation and ticket numbers, for any number of concurrent    *)
(* attempts, keys and locations.                                           *)
(***************************************************************************)
EXTENDS OrderIntake, Sums, FiniteSetTheorems, TLAPS

\* An attempt that has inserted its order is past its transaction.
Committed == {"dispatch", "print", "printPaid", "done", "dead"}

RowsAreCommitted == \A o \in Orders : stage[o] \in Committed

\* The unique constraint, as a fact about any two orders.
KeysIdentify ==
    \A o, p \in Orders :
        row[o].key = row[p].key /\ row[o].key # NoKey => o = p

\* The advisory lock excludes: one attempt per location between taking a number
\* and committing it, and its number is above every number of the location.
OneAtATime ==
    \A a, b \in Attempts :
        /\ stage[a] = "insert" /\ stage[b] = "insert"
        /\ ask[a].loc = ask[b].loc /\ ask[a].loc # NoLocation
        => a = b

NumberIsNext ==
    \A a \in Attempts : stage[a] = "insert" /\ ask[a].loc # NoLocation =>
        \A o \in Orders : row[o].loc = ask[a].loc => row[o].number < number[a]

\* A handler past its first lookup has a request.
AskedFirst == \A a \in Attempts : stage[a] # "new" => ask[a] \in Request

IInv ==
    /\ TypeOK
    /\ AskedFirst
    /\ RowsAreCommitted
    /\ KeysIdentify
    /\ OneAtATime
    /\ NumberIsNext
    /\ TicketsIdentify

--------------------------------------------------------------------------------
LEMMA InitIInv == Init => IInv
<1> SUFFICES ASSUME Init PROVE IInv
  OBVIOUS
<1>1. Orders = {}
  BY DEF Init, Orders
<1>2. TypeOK
  BY IntakeAssumption DEF Init, TypeOK, Stages
<1>3. QED
  BY <1>1, <1>2 DEF Init, IInv, AskedFirst, RowsAreCommitted, KeysIdentify,
     OneAtATime, NumberIsNext, TicketsIdentify

--------------------------------------------------------------------------------
\* The row a commit writes is one.
LEMMA InsertedRow ==
    ASSUME TypeOK, AskedFirst, NEW a \in Attempts, InsertOrder(a)
    PROVE  \E new \in Row : row' = [row EXCEPT ![a] = new]
<1> DEFINE q == ask[a]
           earned == IF q.paid /\ q.linked THEN Earned ELSE 0
           new == [ key |-> q.key, loc |-> q.loc, number |-> number[a],
                    redeemed |-> q.redeem, earned |-> earned,
                    profiled |-> q.linked \/ (q.channel # "ai"
                                               /\ q.phone # NoPhone),
                    paid |-> q.paid ]
<1>1. q \in Request
  BY DEF InsertOrder, AskedFirst, At
<1>2. /\ q.key \in Keys /\ q.loc \in Locations /\ q.redeem \in Nat
      /\ q.paid \in BOOLEAN /\ earned \in Nat /\ number[a] \in Nat
  BY <1>1, IntakeAssumption DEF Request, TypeOK
<1>3. row' = [row EXCEPT ![a] = new]
  BY DEF InsertOrder
<1> HIDE DEF earned
<1>4. new \in Row
  <2>1. (q.linked \/ (q.channel # "ai" /\ q.phone # NoPhone)) \in BOOLEAN
    OBVIOUS
  <2>2. QED
    BY <1>2, <2>1 DEF Row
<1>5. QED
  BY <1>3, <1>4

\* Every action keeps the types.
LEMMA TypeStep ==
    ASSUME TypeOK, AskedFirst, Next
    PROVE  TypeOK'
<1> USE IntakeAssumption DEF TypeOK, Goto, Return, At, tables, printing
<1>1. ASSUME NEW a \in Attempts, NEW q \in Request, Receive(a, q)
      PROVE  TypeOK'
  <2>1. OrdersOf(q.key) \subseteq Attempts
    BY DEF OrdersOf, Orders
  <2>2. ask' \in [Attempts -> Request \cup {NoOrder}]
    BY <1>1 DEF Receive
  <2>3. stage' \in [Attempts -> Stages]
    BY <1>1 DEF Receive, Stages
  <2>4. answer' \in [Attempts -> Attempts \cup {NoOrder}]
    BY <1>1, <2>1 DEF Receive
  <2>5. QED
    BY <1>1, <2>2, <2>3, <2>4 DEF Receive
<1>2. ASSUME NEW a \in Attempts, FindProfile(a) PROVE TypeOK'
  BY <1>2 DEF FindProfile, Stages
<1>3. ASSUME NEW a \in Attempts, InsertProfile(a) PROVE TypeOK'
  <2>1. ask[a].phone \in Phones
    BY <1>3 DEF InsertProfile, AskedFirst, Request
  <2>2. QED
    BY <1>3, <2>1 DEF InsertProfile, Stages
<1>4. ASSUME NEW a \in Attempts, TakeNumber(a) PROVE TypeOK'
  <2>1. NextTicket(ask[a].loc) \subseteq Nat
    <3>1. TicketsOf(ask[a].loc) \subseteq Nat
      BY DEF TicketsOf, Orders, Row
    <3>2. QED
      BY <3>1 DEF NextTicket
  <2>2. QED
    BY <1>4, <2>1 DEF TakeNumber, Stages
<1>5. ASSUME NEW a \in Attempts, InsertOrder(a) PROVE TypeOK'
  <2>1. PICK new \in Row : row' = [row EXCEPT ![a] = new]
    BY <1>5, InsertedRow
  <2>2. points' \in Nat
    <3>1. ask[a] \in Request
      BY <1>5 DEF InsertOrder, AskedFirst
    <3> DEFINE earned == IF ask[a].paid /\ ask[a].linked THEN Earned ELSE 0
    <3>2. ask[a].redeem \in Nat /\ earned \in Nat
      BY <3>1 DEF Request
    <3>3. points' = IF ask[a].redeem <= points + earned
                   THEN points + earned - ask[a].redeem ELSE 0
      BY <1>5 DEF InsertOrder
    <3> HIDE DEF earned
    <3>4. QED
      BY <3>2, <3>3
  <2>3. /\ stage' = [stage EXCEPT ![a] = "dispatch"]
        /\ UNCHANGED <<ask, number, answer, profiles, tickets, receipts>>
    BY <1>5 DEF InsertOrder
  <2>4. QED
    BY <2>1, <2>2, <2>3 DEF Stages
<1>6. ASSUME NEW a \in Attempts, LoseInsert(a) PROVE TypeOK'
  BY <1>6 DEF LoseInsert, Stages
<1>7. ASSUME NEW a \in Attempts, Replay(a) PROVE TypeOK'
  BY <1>7 DEF Replay, OrdersOf, Orders, Stages
<1>8. ASSUME NEW a \in Attempts, Dispatch(a) PROVE TypeOK'
  BY <1>8 DEF Dispatch, Stages
<1>9. ASSUME NEW a \in Attempts, PrintDocuments(a) PROVE TypeOK'
  BY <1>9 DEF PrintDocuments, Stages
<1>10. ASSUME NEW o \in Attempts, Pay(o) PROVE TypeOK'
  <2>1. [row[o] EXCEPT !.paid = TRUE] \in Row
    BY ZenonT(60), <1>10 DEF Pay, Orders, Row
  <2>2. QED
    BY <1>10, <2>1 DEF Pay
<1>11. ASSUME NEW a \in Attempts, Crash(a) PROVE TypeOK'
  BY <1>11 DEF Crash, Stages
<1>12. QED
  BY <1>1, <1>2, <1>3, <1>4, <1>5, <1>6, <1>7, <1>8, <1>9, <1>10, <1>11
     DEF Next, Handle

\* A handler that moves on without touching the orders, and without entering the
\* section the lock protects.
LEMMA MoveKeeps ==
    ASSUME IInv, TypeOK', NEW a \in Attempts, NEW s \in Stages,
           s # "insert", s # "new",
           stage' = [stage EXCEPT ![a] = s],
           a \in Orders => s \in Committed,
           UNCHANGED <<number, row>>,
           ask'[a] \in Request,
           \A b \in Attempts : b # a => ask'[b] = ask[b]
    PROVE  IInv'
<1>1. TypeOK
  BY DEF IInv
<1>2. stage'[a] = s /\ \A b \in Attempts : b # a => stage'[b] = stage[b]
  BY <1>1 DEF TypeOK
<1>3. Orders' = Orders /\ Orders \subseteq Attempts
  BY DEF Orders
<1>4. AskedFirst'
  BY <1>2 DEF IInv, AskedFirst
<1>5. RowsAreCommitted'
  BY <1>2, <1>3 DEF IInv, RowsAreCommitted
<1>6. KeysIdentify'
  BY <1>3 DEF IInv, KeysIdentify
<1>7. OneAtATime'
  BY <1>2 DEF IInv, OneAtATime
<1>8. NumberIsNext'
  BY <1>2, <1>3 DEF IInv, NumberIsNext
<1>9. TicketsIdentify'
  BY <1>3 DEF IInv, TicketsIdentify
<1>10. QED
  BY <1>4, <1>5, <1>6, <1>7, <1>8, <1>9 DEF IInv

LEMMA TakeNumberKeeps ==
    ASSUME IInv, TypeOK', NEW a \in Attempts, TakeNumber(a)
    PROVE  IInv'
<1>1. TypeOK
  BY DEF IInv
<1>2. /\ stage' = [stage EXCEPT ![a] = "insert"]
      /\ UNCHANGED <<ask, row>>
      /\ stage[a] = "lock" /\ ~Locked(ask[a].loc)
  BY DEF TakeNumber, Goto, At, tables
<1>3. PICK n \in NextTicket(ask[a].loc) : number' = [number EXCEPT ![a] = n]
  BY DEF TakeNumber
<1>4. /\ stage'[a] = "insert" /\ number'[a] = n
      /\ \A b \in Attempts : b # a => stage'[b] = stage[b] /\ number'[b] = number[b]
  BY <1>1, <1>2, <1>3 DEF TypeOK
<1>5. Orders' = Orders /\ Orders \subseteq Attempts
  BY <1>2 DEF Orders
<1>6. AskedFirst'
  BY <1>2, <1>4 DEF IInv, AskedFirst
<1>7. RowsAreCommitted'
  BY <1>2, <1>4, <1>5 DEF IInv, RowsAreCommitted, Committed
<1>8. KeysIdentify'
  BY <1>2, <1>5 DEF IInv, KeysIdentify
<1>9. OneAtATime'
  BY <1>2, <1>4 DEF IInv, OneAtATime, Locked
<1>10. NumberIsNext'
  <2> SUFFICES ASSUME NEW b \in Attempts, stage'[b] = "insert",
                      ask[b].loc # NoLocation,
                      NEW o \in Orders, row[o].loc = ask[b].loc
               PROVE  row[o].number < number'[b]
    BY <1>2, <1>5 DEF NumberIsNext
  <2>1. CASE b = a
    <3>1. row[o].number \in TicketsOf(ask[a].loc)
      BY <2>1 DEF TicketsOf
    <3>2. \A k \in TicketsOf(ask[a].loc) : k < n
      BY <2>1 DEF NextTicket
    <3>3. QED
      BY <2>1, <3>1, <3>2, <1>4
  <2>2. CASE b # a
    BY <2>2, <1>4 DEF IInv, NumberIsNext
  <2>3. QED
    BY <2>1, <2>2
<1>11. TicketsIdentify'
  BY <1>2, <1>5 DEF IInv, TicketsIdentify
<1>12. QED
  BY <1>6, <1>7, <1>8, <1>9, <1>10, <1>11 DEF IInv

\* What a commit adds is one order, under a new key and above every number of its
\* location.
LEMMA InsertAdds ==
    ASSUME IInv, NEW a \in Attempts, InsertOrder(a)
    PROVE  /\ \A b \in Attempts : b # a => row'[b] = row[b]
           /\ a \notin Orders
           /\ Orders' = Orders \cup {a}
           /\ row'[a].key = ask[a].key /\ row'[a].loc = ask[a].loc
           /\ row'[a].number = number[a]
           /\ \A o \in Orders :
                /\ row[o].key = ask[a].key => row[o].key = NoKey
                /\ row[o].loc = ask[a].loc /\ row[o].loc # NoLocation
                     => row[o].number < number[a]
<1>1. TypeOK
  BY DEF IInv
<1>2. stage[a] = "insert" /\ OrdersOf(ask[a].key) = {}
  BY DEF InsertOrder, At
<1>3. PICK e, f : row' = [row EXCEPT ![a] =
                 [ key |-> ask[a].key, loc |-> ask[a].loc, number |-> number[a],
                   redeemed |-> ask[a].redeem, earned |-> e, profiled |-> f,
                   paid |-> ask[a].paid ]]
  BY DEF InsertOrder
<1>4. /\ \A b \in Attempts : b # a => row'[b] = row[b]
      /\ row'[a].key = ask[a].key /\ row'[a].loc = ask[a].loc
      /\ row'[a].number = number[a]
  BY <1>1, <1>3 DEF TypeOK
<1>5. a \notin Orders
  BY <1>2 DEF IInv, RowsAreCommitted, Committed
<1>6. Orders' = Orders \cup {a}
  <2>1. PICK new \in Row : row' = [row EXCEPT ![a] = new]
    BY <1>1, InsertedRow DEF IInv
  <2>2. row'[a] # NoOrder
    BY <1>1, <2>1, NoOrderAssumption DEF TypeOK
  <2>3. QED
    BY <1>4, <2>2 DEF Orders
<1>7. \A o \in Orders : row[o].key = ask[a].key => row[o].key = NoKey
  BY <1>2 DEF OrdersOf
<1>8. \A o \in Orders : row[o].loc = ask[a].loc /\ row[o].loc # NoLocation
                           => row[o].number < number[a]
  BY <1>2 DEF IInv, NumberIsNext
<1>9. QED
  BY <1>4, <1>5, <1>6, <1>7, <1>8

LEMMA InsertKeeps ==
    ASSUME IInv, TypeOK', NEW a \in Attempts, InsertOrder(a)
    PROVE  IInv'
<1>1. TypeOK
  BY DEF IInv
<1>2. /\ stage' = [stage EXCEPT ![a] = "dispatch"]
      /\ stage[a] = "insert"
      /\ UNCHANGED <<ask, number>>
  BY DEF InsertOrder, Goto, At
<1>3. stage'[a] = "dispatch" /\ \A b \in Attempts : b # a => stage'[b] = stage[b]
  BY <1>1, <1>2 DEF TypeOK
<1>4. Orders \subseteq Attempts /\ a \notin Orders
      /\ Orders' \subseteq Orders \cup {a}
  BY InsertAdds DEF Orders
<1>5. AskedFirst'
  BY <1>2, <1>3 DEF IInv, AskedFirst
<1>6. RowsAreCommitted'
  BY <1>3, <1>4 DEF IInv, RowsAreCommitted, Committed
<1>7. KeysIdentify'
  BY <1>4, InsertAdds DEF IInv, KeysIdentify
<1>8. OneAtATime'
  BY <1>2, <1>3 DEF IInv, OneAtATime
<1>9. \A o \in Orders : number[a] \in Nat /\ row[o].number \in Nat
  BY <1>1, <1>4 DEF TypeOK, Orders, Row
<1>10. NumberIsNext'
  <2> SUFFICES ASSUME NEW b \in Attempts, stage'[b] = "insert",
                      ask[b].loc # NoLocation,
                      NEW o \in Orders', row'[o].loc = ask[b].loc
               PROVE  row'[o].number < number[b]
    BY <1>2 DEF NumberIsNext
  <2>1. b # a /\ stage[b] = "insert"
    BY <1>3
  <2>2. ask[b].loc # ask[a].loc
    BY <1>2, <2>1 DEF IInv, OneAtATime
  <2>3. o # a /\ o \in Orders /\ row'[o] = row[o]
    BY <2>2, <1>4, InsertAdds
  <2>4. QED
    BY <2>1, <2>3 DEF IInv, NumberIsNext
<1>11. TicketsIdentify'
  <2> SUFFICES ASSUME NEW o \in Orders', NEW p \in Orders', o # p,
                      row'[o].loc = row'[p].loc, row'[o].loc # NoLocation
               PROVE  row'[o].number # row'[p].number
    BY DEF TicketsIdentify
  <2>1. CASE o = a
    BY <2>1, <1>4, <1>9, InsertAdds
  <2>2. CASE p = a
    BY <2>2, <1>4, <1>9, InsertAdds
  <2>3. CASE o # a /\ p # a
    BY <2>3, <1>4, InsertAdds DEF IInv, TicketsIdentify
  <2>4. QED
    BY <2>1, <2>2, <2>3
<1>12. QED
  BY <1>5, <1>6, <1>7, <1>8, <1>10, <1>11 DEF IInv

LEMMA PayKeeps ==
    ASSUME IInv, TypeOK', NEW o \in Attempts, Pay(o)
    PROVE  IInv'
<1>1. /\ row' = [row EXCEPT ![o].paid = TRUE]
      /\ UNCHANGED <<stage, ask, number>>
      /\ o \in Orders
  BY DEF Pay
<1>2. TypeOK
  BY DEF IInv
<1>3. row[o] \in Row
  BY <1>1, <1>2 DEF TypeOK, Orders
<1>4. \A p \in Attempts : /\ row'[p].key = row[p].key
                           /\ row'[p].loc = row[p].loc
                           /\ row'[p].number = row[p].number
  BY <1>1, <1>2, <1>3 DEF TypeOK, Row
<1>5. Orders' \subseteq Orders /\ Orders \subseteq Attempts
  BY <1>1, <1>2 DEF Orders, TypeOK
<1>6. AskedFirst' /\ OneAtATime'
  BY <1>1 DEF IInv, AskedFirst, OneAtATime
<1>7. RowsAreCommitted'
  BY <1>1, <1>5 DEF IInv, RowsAreCommitted
<1>8. KeysIdentify' /\ TicketsIdentify'
  BY <1>4, <1>5 DEF IInv, KeysIdentify, TicketsIdentify
<1>9. NumberIsNext'
  <2> SUFFICES ASSUME NEW b \in Attempts, stage[b] = "insert",
                      ask[b].loc # NoLocation,
                      NEW p \in Orders', row'[p].loc = ask[b].loc
               PROVE  row'[p].number < number[b]
    BY <1>1 DEF NumberIsNext
  <2>1. QED
    BY <1>4, <1>5 DEF IInv, NumberIsNext
<1>10. QED
  BY <1>6, <1>7, <1>8, <1>9 DEF IInv

--------------------------------------------------------------------------------
\* Committed orders stay, and nothing of them changes but being paid.
LEMMA RowsStay ==
    ASSUME IInv, [Next]_vars
    PROVE  \A o \in Orders :
              /\ o \in Orders'
              /\ row'[o].key = row[o].key
<1>1. TypeOK
  BY DEF IInv
<1>2. CASE UNCHANGED row
  BY <1>2 DEF Orders
<1>3. ASSUME NEW a \in Attempts, InsertOrder(a)
      PROVE  \A o \in Orders : o \in Orders' /\ row'[o].key = row[o].key
  BY <1>3, InsertAdds DEF Orders
<1>4. ASSUME NEW p \in Attempts, Pay(p)
      PROVE  \A o \in Orders : o \in Orders' /\ row'[o].key = row[o].key
  <2>1. p \in Orders /\ row' = [row EXCEPT ![p] = [row[p] EXCEPT !.paid = TRUE]]
    BY <1>4 DEF Pay
  <2>2. row[p] \in Row
    BY <1>1, <2>1 DEF TypeOK, Orders
  <2>3. [row[p] EXCEPT !.paid = TRUE] \in Row
    BY <2>2 DEF Row
  <2>4. [row[p] EXCEPT !.paid = TRUE].key = row[p].key
    BY <2>2 DEF Row
  <2> DEFINE new == [row[p] EXCEPT !.paid = TRUE]
  <2> HIDE DEF new
  <2>5. row'[p] = new /\ \A o \in Attempts : o # p => row'[o] = row[o]
    BY <1>1, <2>1 DEF TypeOK, new
  <2>6. QED
    BY <2>3, <2>4, <2>5, NoOrderAssumption DEF Orders, new
<1>5. QED
  BY <1>2, <1>3, <1>4 DEF Next, Handle, vars, tables, Receive, FindProfile,
     InsertProfile, TakeNumber, LoseInsert, Replay, Dispatch, PrintDocuments,
     Crash

LEMMA StepIInv == IInv /\ [Next]_vars => IInv'
<1> SUFFICES ASSUME IInv, [Next]_vars PROVE IInv'
  OBVIOUS
<1>1. CASE UNCHANGED vars
  BY <1>1 DEF vars, IInv, TypeOK, AskedFirst, RowsAreCommitted, KeysIdentify,
              OneAtATime, NumberIsNext, TicketsIdentify, Orders
<1>2. CASE Next
  <2>1. TypeOK' /\ TypeOK /\ AskedFirst /\ RowsAreCommitted
    BY <1>2, TypeStep DEF IInv
  <2> USE DEF Goto, At, tables, Committed, Stages
  <2>2. ASSUME NEW a \in Attempts, NEW q \in Request, Receive(a, q)
        PROVE  IInv'
    <3>1. /\ \E s \in Stages \ {"insert", "new"} : stage' = [stage EXCEPT ![a] = s]
          /\ a \notin Orders
          /\ UNCHANGED <<number, row>>
          /\ ask' = [ask EXCEPT ![a] = q]
      BY <2>1, <2>2 DEF Receive, Return, RowsAreCommitted
    <3>2. ask'[a] = q /\ \A b \in Attempts : b # a => ask'[b] = ask[b]
      BY <2>1, <3>1 DEF TypeOK
    <3>3. QED
      BY <2>1, <3>1, <3>2, MoveKeeps
  <2>3. ASSUME NEW a \in Attempts,
               \/ FindProfile(a) \/ InsertProfile(a) \/ LoseInsert(a)
               \/ Replay(a) \/ Dispatch(a) \/ PrintDocuments(a) \/ Crash(a)
        PROVE  IInv'
    <3>1. /\ \E s \in Stages \ {"insert", "new"} :
                /\ stage' = [stage EXCEPT ![a] = s]
                /\ a \in Orders => s \in Committed
          /\ UNCHANGED <<number, row, ask>>
          /\ stage[a] # "new"
      BY <2>1, <2>3 DEF FindProfile, InsertProfile, LoseInsert, Replay, Dispatch,
         PrintDocuments, Crash, Return, RowsAreCommitted
    <3>2. ask'[a] \in Request
      BY <2>1, <3>1 DEF AskedFirst
    <3>3. QED
      BY <2>1, <3>1, <3>2, MoveKeeps
  <2>4. QED
    BY <1>2, <2>1, <2>2, <2>3, TakeNumberKeeps, InsertKeeps, PayKeeps
       DEF Next, Handle
<1>3. QED
  BY <1>1, <1>2

THEOREM IntakeInvariant == Spec => []IInv
<1>1. QED
  BY InitIInv, StepIInv, PTL DEF Spec

\* Every variable of the intake keeps its type.
THEOREM IntakeTypeOK == Spec => []TypeOK
<1>1. IInv => TypeOK
  BY DEF IInv
<1>2. QED
  BY <1>1, IntakeInvariant, PTL

\* A client order id names at most one order, for any number of transmissions:
\* what the unique constraint and the replay promise a register that retries.
THEOREM IntakeOneOrderPerKey == Spec => []OneOrderPerKey
<1>1. IInv => OneOrderPerKey
  <2> SUFFICES ASSUME IInv, NEW key \in Keys
               PROVE  Cardinality(OrdersOf(key)) <= 1
    BY DEF OneOrderPerKey
  <2>1. \A o, p \in OrdersOf(key) : o = p
    BY DEF IInv, KeysIdentify, OrdersOf
  <2>2. CASE OrdersOf(key) = {}
    BY <2>2, FS_EmptySet
  <2>3. CASE OrdersOf(key) # {}
    <3>1. PICK o : o \in OrdersOf(key)
      BY <2>3
    <3>2. OrdersOf(key) = {o}
      BY <2>1, <3>1
    <3>3. Cardinality({o}) = 1
      BY FS_Singleton
    <3>4. QED
      BY <3>2, <3>3
  <2>4. QED
    BY <2>2, <2>3
<1>2. QED
  BY <1>1, IntakeInvariant, PTL

\* A ticket number identifies one order of its location, for any number of
\* concurrent registers: what the location's advisory lock is there for.
THEOREM IntakeTicketsIdentify == Spec => []TicketsIdentify
<1>1. IInv => TicketsIdentify
  BY DEF IInv
<1>2. QED
  BY <1>1, IntakeInvariant, PTL

--------------------------------------------------------------------------------
\* A handler that has inserted has an order to print and return.
PrintsItsOwn ==
    \A a \in Attempts :
        stage[a] \in {"dispatch", "print", "printPaid"} => a \in Orders

NewIsUnanswered == \A a \in Attempts : stage[a] = "new" => answer[a] = NoOrder

AInv == PrintsItsOwn /\ NewIsUnanswered /\ AnswersAreOwn

\* An attempt that is at rest keeps what it was answered.
LEMMA AnswerStands ==
    ASSUME IInv, AInv, [Next]_vars, NEW a \in Attempts,
           answer'[a] = answer[a], ask'[a] = ask[a] \/ answer[a] = NoOrder,
           answer[a] # NoOrder
    PROVE  /\ answer'[a] \in Orders'
           /\ \/ answer'[a] = a
              \/ ask'[a].key # NoKey /\ row'[answer'[a]].key = ask'[a].key
  BY RowsStay DEF AInv, AnswersAreOwn

LEMMA AnswerStep == IInv /\ AInv /\ [Next]_vars => AInv'
<1> SUFFICES ASSUME IInv, AInv, [Next]_vars PROVE AInv'
  OBVIOUS
<1>1. TypeOK /\ AskedFirst /\ RowsAreCommitted
  BY DEF IInv
<1>2. \A o \in Orders : o \in Orders' /\ row'[o].key = row[o].key
  BY RowsStay
<1> DEFINE Own(a) == /\ answer'[a] \in Orders'
                     /\ \/ answer'[a] = a
                        \/ /\ ask'[a].key # NoKey
                           /\ row'[answer'[a]].key = ask'[a].key
<1>3. ASSUME NEW a \in Attempts,
             \A b \in Attempts : b # a => /\ stage'[b] = stage[b]
                                         /\ answer'[b] = answer[b]
                                         /\ ask'[b] = ask[b],
             stage'[a] # "new",
             stage'[a] \in {"dispatch", "print", "printPaid"} => a \in Orders',
             answer'[a] = NoOrder \/ Own(a)
      PROVE  AInv'
  <2>1. PrintsItsOwn'
    BY <1>2, <1>3 DEF AInv, PrintsItsOwn
  <2>2. NewIsUnanswered'
    BY <1>3 DEF AInv, NewIsUnanswered
  <2>3. AnswersAreOwn'
    <3> SUFFICES ASSUME NEW b \in Attempts, answer'[b] # NoOrder PROVE Own(b)
      BY DEF AnswersAreOwn
    <3>1. CASE b = a
      BY <1>3, <3>1
    <3>2. CASE b # a
      BY <1>3, <3>2, AnswerStands
    <3>3. QED
      BY <3>1, <3>2
  <2>4. QED
    BY <2>1, <2>2, <2>3 DEF AInv
<1> HIDE DEF Own
<1> USE DEF At, Goto, Return, tables, printing, TypeOK
<1>4. ASSUME NEW a \in Attempts, NEW q \in Request, Receive(a, q) PROVE AInv'
  <2>1. /\ stage[a] = "new" /\ answer[a] = NoOrder
        /\ ask' = [ask EXCEPT ![a] = q]
        /\ row' = row
    BY <1>4 DEF Receive, AInv, NewIsUnanswered
  <2>2. CASE \E o \in OrdersOf(q.key) : Return(a, o)
    <3>1. PICK o \in OrdersOf(q.key) : Return(a, o)
      BY <2>2
    <3>2. Own(a)
      BY <1>1, <2>1, <3>1 DEF Own, OrdersOf, Orders
    <3>3. QED
      BY <1>1, <1>3, <2>1, <3>1, <3>2
  <2>3. CASE UNCHANGED answer /\ \E s \in Stages \ {"new", "dispatch", "print",
                                                   "printPaid"} : Goto(a, s)
    BY <1>1, <1>3, <2>1, <2>3
  <2>4. QED
    BY <1>4, <2>2, <2>3 DEF Receive, Stages
<1>5. ASSUME NEW a \in Attempts, Replay(a) PROVE AInv'
  <2>1. PICK o \in OrdersOf(ask[a].key) : Return(a, o)
    BY <1>5 DEF Replay
  <2>2. Own(a)
    BY <1>1, <1>5, <2>1 DEF Replay, Own, OrdersOf, Orders
  <2>3. QED
    BY <1>1, <1>3, <1>5, <2>1, <2>2 DEF Replay
<1>6. ASSUME NEW a \in Attempts, PrintDocuments(a) PROVE AInv'
  <2>1. a \in Orders /\ Return(a, a) /\ UNCHANGED <<ask, row>>
    BY <1>6 DEF PrintDocuments, AInv, PrintsItsOwn
  <2>2. Own(a)
    BY <1>1, <1>2, <2>1 DEF Own
  <2>3. QED
    BY <1>1, <1>3, <2>1, <2>2
<1>7. ASSUME NEW a \in Attempts,
             UNCHANGED <<ask, answer>>, stage[a] # "new",
             NEW s \in Stages \ {"new"}, stage' = [stage EXCEPT ![a] = s],
             s \in {"dispatch", "print", "printPaid"} => a \in Orders'
      PROVE  AInv'
  <2>1. answer'[a] = NoOrder \/ Own(a)
    BY <1>7, AnswerStands DEF Own
  <2>2. QED
    BY <1>1, <1>3, <1>7, <2>1
<1>8. ASSUME NEW a \in Attempts,
             \/ FindProfile(a) \/ InsertProfile(a) \/ TakeNumber(a)
             \/ LoseInsert(a) \/ Dispatch(a) \/ Crash(a)
      PROVE  AInv'
  <2>1. /\ UNCHANGED <<ask, answer>> /\ stage[a] # "new"
        /\ \E s \in Stages \ {"new"} :
             /\ stage' = [stage EXCEPT ![a] = s]
             /\ s \in {"dispatch", "print", "printPaid"} => a \in Orders
    BY <1>1, <1>8 DEF FindProfile, InsertProfile, TakeNumber, LoseInsert, Dispatch,
       Crash, Stages, AInv, PrintsItsOwn
  <2>2. QED
    BY <1>2, <1>7, <2>1
<1>9. ASSUME NEW a \in Attempts, InsertOrder(a) PROVE AInv'
  <2>1. a \in Orders'
    BY <1>9, InsertAdds
  <2>2. /\ UNCHANGED <<ask, answer>> /\ stage[a] # "new"
        /\ stage' = [stage EXCEPT ![a] = "dispatch"]
    BY <1>9 DEF InsertOrder
  <2>3. QED
    BY <1>7, <2>1, <2>2 DEF Stages
<1>10. ASSUME NEW o \in Attempts, Pay(o) PROVE AInv'
  <2>1. UNCHANGED <<stage, ask, answer>>
    BY <1>10 DEF Pay
  <2>2. \A a \in Attempts : answer'[a] = NoOrder \/ Own(a)
    BY <2>1, AnswerStands DEF Own
  <2>3. QED
    BY <1>2, <2>1, <2>2 DEF AInv, PrintsItsOwn, NewIsUnanswered, AnswersAreOwn, Own
<1>11. CASE UNCHANGED vars
  BY <1>11 DEF vars, AInv, PrintsItsOwn, NewIsUnanswered, AnswersAreOwn, Orders
<1>12. QED
  BY <1>4, <1>5, <1>6, <1>8, <1>9, <1>10, <1>11 DEF Next, Handle

\* A client is only ever answered with an order of its own.
THEOREM IntakeAnswersAreOwn == Spec => []AnswersAreOwn
<1>1. Init => AInv
  BY DEF Init, AInv, PrintsItsOwn, NewIsUnanswered, AnswersAreOwn
<1>2. AInv => AnswersAreOwn
  BY DEF AInv
<1>3. QED
  BY <1>1, <1>2, AnswerStep, IntakeInvariant, PTL DEF Spec

--------------------------------------------------------------------------------
\* Hiding the payment leaves the rest of a row.
LEMMA PageOf ==
    ASSUME NEW r \in Row
    PROVE  /\ r # NoOrder
           /\ [r EXCEPT !.paid = FALSE] # NoOrder
           /\ [r EXCEPT !.paid = FALSE].key = r.key
           /\ [r EXCEPT !.paid = FALSE].loc = r.loc
           /\ [r EXCEPT !.paid = FALSE].number = r.number
<1>1. [r EXCEPT !.paid = FALSE] \in Row
  BY DEF Row
<1>2. QED
  BY <1>1, NoOrderAssumption DEF Row

\* Creation implements the order book: a commit books one order, and no other
\* step, payment included, touches the book.
THEOREM IntakeImplementsOrderBook == Spec => ImplementsOrderBook
<1>1. Init => BookView!Init
  BY DEF Init, booked, BookView!Init
<1>2. IInv /\ [Next]_vars => [BookView!Next]_booked
  <2> SUFFICES ASSUME IInv, [Next]_vars PROVE [BookView!Next]_booked
    OBVIOUS
  <2>1. TypeOK
    BY DEF IInv
  <2>2. CASE UNCHANGED row
    BY <2>2 DEF booked
  <2>3. ASSUME NEW a \in Attempts, InsertOrder(a) PROVE BookView!Book(a)
    <3>1. PICK new \in Row : row' = [row EXCEPT ![a] = new]
      BY <2>3, InsertedRow DEF IInv
    <3>2. /\ row[a] = NoOrder /\ row'[a] = new
          /\ \A b \in Attempts : b # a => row'[b] = row[b]
      BY <2>1, <2>3, <3>1, InsertAdds DEF TypeOK, Orders
    <3>3. booked[a] = NoOrder /\ booked' = [booked EXCEPT ![a] = booked'[a]]
      <4>1. booked[a] = NoOrder
        BY <3>2 DEF booked
      <4>2. ASSUME NEW b \in Attempts, b # a PROVE booked'[b] = booked[b]
        <5>1. row'[b] = row[b]
          BY <3>2, <4>2
        <5>2. QED
          BY <5>1 DEF booked
      <4>3. /\ booked = [b \in Attempts |-> booked[b]]
            /\ booked' = [b \in Attempts |-> booked'[b]]
        BY DEF booked
      <4>4. QED
        BY <4>1, <4>2, <4>3
    <3>4. /\ booked'[a] # NoOrder
          /\ booked'[a].key = ask[a].key /\ booked'[a].loc = ask[a].loc
          /\ booked'[a].number = number[a]
      BY <2>3, <3>2, PageOf, InsertAdds DEF booked
    <3>5. ASSUME NEW b \in Attempts, booked[b] # NoOrder
          PROVE  /\ b \in Orders
                 /\ booked[b].key = row[b].key /\ booked[b].loc = row[b].loc
                 /\ booked[b].number = row[b].number
      BY <2>1, <3>5, PageOf DEF booked, Orders, TypeOK
    <3>6. \A b \in Orders : number[a] \in Nat /\ row[b].number \in Nat
      BY <2>1 DEF TypeOK, Orders, Row
    <3>7. QED
      BY <2>3, <3>3, <3>4, <3>5, <3>6, InsertAdds DEF BookView!Book, BookView!Booked
  <2>4. ASSUME NEW o \in Attempts, Pay(o) PROVE UNCHANGED booked
    <3>1. /\ row[o] \in Row
          /\ row' = [row EXCEPT ![o] = [row[o] EXCEPT !.paid = TRUE]]
      BY <2>1, <2>4 DEF Pay, Orders, TypeOK
    <3>2. [row[o] EXCEPT !.paid = TRUE] \in Row
      BY <3>1 DEF Row
    <3>3. [[row[o] EXCEPT !.paid = TRUE] EXCEPT !.paid = FALSE]
            = [row[o] EXCEPT !.paid = FALSE]
      BY <3>1 DEF Row
    <3>4. /\ row[o] # NoOrder /\ row'[o] # NoOrder
          /\ row'[o] = [row[o] EXCEPT !.paid = TRUE]
          /\ \A a \in Attempts : a # o => row'[a] = row[a]
      BY <2>1, <3>1, <3>2, NoOrderAssumption DEF TypeOK
    <3>5. QED
      BY <3>3, <3>4 DEF booked
  <2>5. QED
    BY <2>2, <2>3, <2>4
     DEF Next, Handle, vars, tables, Receive, FindProfile, InsertProfile,
         TakeNumber, LoseInsert, Replay, Dispatch, PrintDocuments, Crash,
         BookView!Next
<1>3. QED
  BY <1>1, <1>2, IntakeInvariant, PTL DEF Spec, ImplementsOrderBook, BookView!Spec
--------------------------------------------------------------------------------
\* Only an attempt that is over has asked for its ticket, and it has asked once.
PrintsOnce ==
    \A a \in Attempts : tickets[a] = 0 \/ (tickets[a] = 1 /\ stage[a] = "done")

LEMMA PrintStep == TypeOK /\ PrintsOnce /\ [Next]_vars => PrintsOnce'
<1> SUFFICES ASSUME TypeOK, PrintsOnce, [Next]_vars PROVE PrintsOnce'
  OBVIOUS
<1>1. ASSUME UNCHANGED tickets,
             \A a \in Attempts : stage[a] = "done" => stage'[a] = "done"
      PROVE  PrintsOnce'
  BY <1>1 DEF PrintsOnce
<1>2. ASSUME NEW a \in Attempts, stage[a] # "done", NEW s, Goto(a, s)
      PROVE  \A b \in Attempts : stage[b] = "done" => stage'[b] = "done"
  BY <1>2 DEF Goto, TypeOK
<1>3. ASSUME NEW a \in Attempts, PrintDocuments(a) PROVE PrintsOnce'
  <2>1. /\ stage[a] # "done" /\ stage' = [stage EXCEPT ![a] = "done"]
        /\ tickets' = tickets \/ tickets' = [tickets EXCEPT ![a] = @ + 1]
    BY <1>3 DEF PrintDocuments, At, Return, Goto, printing
  <2> QED
    BY <2>1 DEF PrintsOnce, TypeOK
<1>4. ASSUME NEW a \in Attempts, NEW q \in Request, Receive(a, q) PROVE PrintsOnce'
  <2>1. stage[a] # "done" /\ (\E s : Goto(a, s)) /\ UNCHANGED tickets
    BY <1>4 DEF Receive, At, Return, printing
  <2> QED
    BY <1>1, <1>2, <2>1
<1>5. ASSUME NEW a \in Attempts, Handle(a) PROVE PrintsOnce'
  <2>1. CASE PrintDocuments(a)
    BY <1>3, <2>1
  <2>2. CASE ~PrintDocuments(a)
    <3>1. stage[a] # "done" /\ (\E s : Goto(a, s)) /\ UNCHANGED tickets
      BY <1>5, <2>2 DEF Handle, FindProfile, InsertProfile, TakeNumber, InsertOrder,
         LoseInsert, Replay, Dispatch, At, Return, printing
    <3> QED
      BY <1>1, <1>2, <3>1
  <2> QED
    BY <2>1, <2>2
<1>6. ASSUME NEW a \in Attempts, Crash(a) PROVE PrintsOnce'
  <2>1. stage[a] # "done" /\ (\E s : Goto(a, s)) /\ UNCHANGED tickets
    BY <1>6 DEF Crash, printing
  <2> QED
    BY <1>1, <1>2, <2>1
<1>7. ASSUME NEW o \in Attempts, Pay(o) PROVE PrintsOnce'
  BY <1>1, <1>7 DEF Pay
<1>8. CASE UNCHANGED vars
  BY <1>1, <1>8 DEF vars, printing
<1> QED
  BY <1>4, <1>5, <1>6, <1>7, <1>8 DEF Next

\* A retried or raced request never fires the kitchen twice for one order, however
\* many transmissions there are and whichever of them die: the replay paths skip
\* dispatchOrderSideEffects.
THEOREM IntakeTicketPrintedOnce == Spec => []TicketPrintedOnce
<1>1. Init => PrintsOnce
  BY DEF Init, PrintsOnce
<1>2. PrintsOnce => TicketPrintedOnce
  BY DEF PrintsOnce, TicketPrintedOnce
<1> QED
  BY <1>1, <1>2, PrintStep, IntakeTypeOK, PTL DEF Spec
--------------------------------------------------------------------------------
\* The two sums, as sums over the orders of a column.
LEMMA SumsOfRows ==
    /\ MapThenSumSet(LAMBDA o : row[o].redeemed, Orders)
         = SumOver([o \in Orders |-> row[o].redeemed], Orders)
    /\ MapThenSumSet(LAMBDA o : row[o].earned, Orders)
         = SumOver([o \in Orders |-> row[o].earned], Orders)
<1>0. \A T \in SUBSET Orders : T # {} => Least(T) \in Orders
  BY DEF Least
<1>1. MapThenSumSet(LAMBDA o : row[o].redeemed, Orders)
        = SumOver([o \in Orders |-> row[o].redeemed], Orders)
  <2> DEFINE f == [o \in Orders |-> row[o].redeemed]
             A(g) == g = [T \in SUBSET Orders |-> IF T = {} THEN 0
                            ELSE row[Least(T)].redeemed + g[T \ {Least(T)}]]
  <2>1. MapThenSumSet(LAMBDA o : row[o].redeemed, Orders) = (CHOOSE g : A(g))[Orders]
    BY DEF MapThenSumSet, MapThenFoldSet, Least
  <2>2. ASSUME NEW g PROVE A(g) <=> Adds(f, Orders, g)
    BY <1>0 DEF Adds
  <2> HIDE DEF A, f
  <2>3. (CHOOSE g : A(g)) = (CHOOSE g : Adds(f, Orders, g))
    BY <2>2, Zenon
  <2> QED
    BY <2>1, <2>3, SumIsChosen DEF f
<1>2. MapThenSumSet(LAMBDA o : row[o].earned, Orders)
        = SumOver([o \in Orders |-> row[o].earned], Orders)
  <2> DEFINE f == [o \in Orders |-> row[o].earned]
             A(g) == g = [T \in SUBSET Orders |-> IF T = {} THEN 0
                            ELSE row[Least(T)].earned + g[T \ {Least(T)}]]
  <2>1. MapThenSumSet(LAMBDA o : row[o].earned, Orders) = (CHOOSE g : A(g))[Orders]
    BY DEF MapThenSumSet, MapThenFoldSet, Least
  <2>2. ASSUME NEW g PROVE A(g) <=> Adds(f, Orders, g)
    BY <1>0 DEF Adds
  <2> HIDE DEF A, f
  <2>3. (CHOOSE g : A(g)) = (CHOOSE g : Adds(f, Orders, g))
    BY <2>2, Zenon
  <2> QED
    BY <2>1, <2>3, SumIsChosen DEF f
<1> QED
  BY <1>1, <1>2

\* The points that the orders redeemed, and those they earned.
Redeemed == SumOver([o \in Orders |-> row[o].redeemed], Orders)
Accrued == SumOver([o \in Orders |-> row[o].earned], Orders)

\* One sale, however often it is sent; or sales that redeem nothing.
OneSale == Redeems = {0} \/ \E k : Keys = {k} /\ k # NoKey

\* Whoever is to insert an order that is not there can redeem what it asked for.
Covered ==
    \A a \in Attempts :
        stage[a] \in {"lookup", "insertProfile", "lock", "insert"}
           /\ OrdersOf(ask[a].key) = {} =>
            ask[a].redeem <= points

\* The balance is the stake and what was earned, less what was redeemed; and no insert
\* to come would take more than there is.
PointsInv == points + Redeemed = Stake + Accrued /\ Covered

\* Only an insert moves points, and what it redeems is there.
LEMMA PointsStep ==
    ASSUME IsFiniteSet(Attempts), OneSale, IInv, TypeOK', PointsInv, [Next]_vars
    PROVE  PointsInv'
<1>0. TypeOK /\ AskedFirst /\ IsFiniteSet(Orders)
  BY FS_Subset DEF IInv, Orders
<1>1. /\ \A o \in Orders : row[o].redeemed \in Nat /\ row[o].earned \in Nat
      /\ Redeemed \in Nat /\ Accrued \in Nat
  <2>1. \A o \in Orders : row[o].redeemed \in Nat /\ row[o].earned \in Nat
    BY <1>0 DEF TypeOK, Row, Orders
  <2> QED
    BY <1>0, <2>1, SumType DEF Redeemed, Accrued
<1>2. ASSUME Orders' = Orders, \A o \in Orders : row'[o].redeemed = row[o].redeemed
                                   /\ row'[o].earned = row[o].earned,
             points' = points
      PROVE  points' + Redeemed' = Stake + Accrued'
  <2>1. /\ [o \in Orders' |-> row'[o].redeemed] = [o \in Orders |-> row[o].redeemed]
        /\ [o \in Orders' |-> row'[o].earned] = [o \in Orders |-> row[o].earned]
    BY <1>2
  <2> QED
    BY <1>2, <2>1 DEF PointsInv, Redeemed, Accrued
<1>3. ASSUME UNCHANGED <<row, points>>,
             \A a \in Attempts :
                \/ stage'[a] \notin {"lookup", "insertProfile", "lock", "insert"}
                                 \/ /\ ask'[a] = ask[a]
                                    /\ stage[a] \in {"lookup", "insertProfile", "lock",
                                            "insert"}
                                 \/ ask'[a].redeem <= points
      PROVE  PointsInv'
  <2>1. Orders' = Orders /\ \A key : OrdersOf(key)' = OrdersOf(key)
    BY <1>3 DEF Orders, OrdersOf
  <2>2. Covered'
    BY <1>3, <2>1 DEF PointsInv, Covered
  <2>3. points' + Redeemed' = Stake + Accrued'
    BY <1>2, <1>3, <2>1
  <2> QED
    BY <2>2, <2>3 DEF PointsInv
<1>4. CASE UNCHANGED vars
  BY <1>3, <1>4 DEF vars
<1>5. ASSUME NEW a \in Attempts, NEW q \in Request, Receive(a, q) PROVE PointsInv'
  <2>1. /\ UNCHANGED <<row, points>> /\ ask' = [ask EXCEPT ![a] = q]
        /\ \E s : stage' = [stage EXCEPT ![a] = s]
                /\ (s \in {"rejected", "done"} \/ ~(q.redeem > points))
    BY <1>5 DEF Receive, tables, Goto, Return
  <2>2. q.redeem \in Nat /\ points \in Nat
    BY <1>0, IntakeAssumption DEF Request, TypeOK
  <2> QED
    BY <1>0, <1>3, <2>1, <2>2 DEF TypeOK
<1>6. ASSUME NEW a \in Attempts, ~InsertOrder(a), Handle(a) \/ Crash(a) PROVE PointsInv'
  <2>1. /\ UNCHANGED <<row, points, ask>>
        /\ \/ stage[a] \in {"lookup", "insertProfile", "lock", "insert"}
              /\ \E s : stage' = [stage EXCEPT ![a] = s]
           \/ \E s : stage' = [stage EXCEPT ![a] = s]
                     /\ s \notin {"lookup", "insertProfile", "lock", "insert"}
    BY <1>6 DEF Handle, FindProfile, InsertProfile, TakeNumber, LoseInsert, Replay, Dispatch,
       PrintDocuments, Crash, tables, Goto, Return, At
  <2> QED
    BY <1>0, <1>3, <2>1 DEF TypeOK
<1>7. ASSUME NEW o \in Attempts, Pay(o) PROVE PointsInv'
  <2>1. /\ UNCHANGED <<stage, ask, points>> /\ o \in Orders
        /\ row' = [row EXCEPT ![o].paid = TRUE]
    BY <1>7 DEF Pay
  <2>2. /\ Orders' \subseteq Orders /\ row[o] \in Row
        /\ \A p \in Attempts : p # o => row'[p] = row[p]
        /\ row'[o] = [row[o] EXCEPT !.paid = TRUE]
    BY <1>0, <2>1 DEF TypeOK, Orders
  <2>3. row'[o] \in Row /\ row'[o].redeemed = row[o].redeemed /\ row'[o].earned = row[o].earned
        /\ row'[o].key = row[o].key
    BY <2>2 DEF Row
  <2>4. Orders' = Orders
    BY <2>1, <2>2, <2>3, NoOrderAssumption DEF Orders
  <2>5. \A key : OrdersOf(key)' = OrdersOf(key)
    <3>1. \A p \in Orders : row'[p].key = row[p].key
      BY <2>2, <2>3 DEF Orders
    <3> QED
      BY <2>4, <3>1 DEF OrdersOf
  <2>6. Covered'
    BY <2>1, <2>5 DEF PointsInv, Covered
  <2>7. \A p \in Orders : row'[p].redeemed = row[p].redeemed /\ row'[p].earned = row[p].earned
    BY <2>2, <2>3 DEF Orders
  <2>8. points' + Redeemed' = Stake + Accrued'
    BY <1>2, <2>1, <2>4, <2>7
  <2> QED
    BY <2>6, <2>8 DEF PointsInv
<1>8. ASSUME NEW a \in Attempts, InsertOrder(a) PROVE PointsInv'
  <2> DEFINE r == ask[a].redeem
             e == IF ask[a].paid /\ ask[a].linked THEN Earned ELSE 0
  <2>1. /\ stage[a] = "insert" /\ OrdersOf(ask[a].key) = {}
        /\ points' = IF r <= points + e THEN points + e - r ELSE 0
        /\ \E s, k, l, p, q : row' = [row EXCEPT ![a] = [key |-> k, loc |-> l, number |-> s,
             redeemed |-> r, earned |-> e, profiled |-> p, paid |-> q]]
    BY <1>8 DEF InsertOrder, At
  <2>2. /\ ask[a] \in Request /\ r \in Nat /\ e \in Nat /\ points \in Nat
    BY <1>0, <2>1, IntakeAssumption DEF AskedFirst, Request, TypeOK
  <2>3. row'[a].redeemed = r /\ row'[a].earned = e
    BY <1>0, <2>1 DEF TypeOK
  <2> HIDE DEF e
  <2>4. r <= points
    BY <2>1 DEF PointsInv, Covered
  <2>5. points' = points + e - r
    BY <2>1, <2>2, <2>4
  <2>6. /\ \A b \in Attempts : b # a => row'[b] = row[b]
        /\ a \notin Orders /\ Orders' = Orders \cup {a} /\ row'[a].key = ask[a].key
        /\ Orders \subseteq Attempts
    BY <1>8, InsertAdds DEF Orders
  <2>7. IsFiniteSet(Orders')
    BY <1>0, <2>6, FS_AddElement
  <2>8. Redeemed' = Redeemed + r
    <3> DEFINE f == [o \in Orders |-> row[o].redeemed]
               h == [o \in Orders' |-> row'[o].redeemed]
    <3>1. /\ \A o \in Orders : f[o] \in Int /\ h[o] = f[o]
          /\ h[a] = r /\ \A o \in Orders' : h[o] \in Int
      BY <1>1, <2>2, <2>3, <2>6
    <3> HIDE DEF f, h
    <3>2. SumOver(h, Orders') = h[a] + SumOver(h, Orders' \ {a})
      BY <2>6, <2>7, <3>1, SumTakeOut
    <3>3. Orders' \ {a} = Orders
      BY <2>6
    <3>4. SumOver(h, Orders) = SumOver(f, Orders)
      BY <1>0, <2>6, <3>1, SumCompare
    <3>5. SumOver(h, Orders') = r + SumOver(f, Orders)
      BY <3>1, <3>2, <3>3, <3>4
    <3> QED
      BY <1>1, <2>2, <3>5 DEF f, h, Redeemed
  <2>9. Accrued' = Accrued + e
    <3> DEFINE f == [o \in Orders |-> row[o].earned]
               h == [o \in Orders' |-> row'[o].earned]
    <3>1. /\ \A o \in Orders : f[o] \in Int /\ h[o] = f[o]
          /\ h[a] = e /\ \A o \in Orders' : h[o] \in Int
      BY <1>1, <2>2, <2>3, <2>6
    <3> HIDE DEF f, h
    <3>2. SumOver(h, Orders') = h[a] + SumOver(h, Orders' \ {a})
      BY <2>6, <2>7, <3>1, SumTakeOut
    <3>3. Orders' \ {a} = Orders
      BY <2>6
    <3>4. SumOver(h, Orders) = SumOver(f, Orders)
      BY <1>0, <2>6, <3>1, SumCompare
    <3>5. SumOver(h, Orders') = e + SumOver(f, Orders)
      BY <3>1, <3>2, <3>3, <3>4
    <3> QED
      BY <1>1, <2>2, <3>5 DEF f, h, Accrued
  <2>10. points' + Redeemed' = Stake + Accrued'
    BY <1>1, <2>2, <2>5, <2>8, <2>9, IntakeAssumption DEF PointsInv
  <2>11. Covered'
    <3>1. /\ ask' = ask /\ stage' = [stage EXCEPT ![a] = "dispatch"]
      BY <1>8 DEF InsertOrder, Goto
    <3> SUFFICES ASSUME NEW b \in Attempts,
                        stage'[b] \in {"lookup", "insertProfile", "lock", "insert"},
                        OrdersOf(ask[b].key)' = {}
                 PROVE  ask[b].redeem <= points'
      BY <3>1 DEF Covered
    <3>2. b # a /\ stage[b] = stage'[b] /\ ask[b] \in Request
      BY <1>0, <3>1 DEF TypeOK, AskedFirst
    <3>3. CASE Redeems = {0}
      BY <2>2, <2>5, <3>2, <3>3, TypeOK' DEF Request, TypeOK
    <3>4. ASSUME NEW k, Keys = {k}, k # NoKey PROVE FALSE
      <4>1. ask[b].key = k /\ ask[a].key = k
        BY <2>2, <3>2, <3>4 DEF Request
      <4> QED
        BY <2>6, <3>1, <3>4, <4>1 DEF OrdersOf
    <3> QED
      BY <3>3, <3>4 DEF OneSale
  <2> QED
    BY <2>10, <2>11 DEF PointsInv
<1> QED
  BY <1>4, <1>5, <1>6, <1>7, <1>8 DEF Next, Handle

\* Points are neither lost nor made up, however often the one sale of a customer is sent
\* and whichever of the requests die; nor when sales redeem nothing.  Two sales that
\* redeem at once are another matter: the balance is floored at zero.
THEOREM IntakePointsAddUp ==
    ASSUME IsFiniteSet(Attempts), OneSale PROVE Spec => []PointsAddUp
<1>1. Init => PointsInv
  <2> SUFFICES ASSUME Init PROVE PointsInv
    OBVIOUS
  <2>1. Orders = {} /\ \A a \in Attempts : stage[a] = "new"
    BY DEF Init, Orders
  <2>2. Redeemed = 0 /\ Accrued = 0
    BY <2>1, SumZero, FS_EmptySet DEF Redeemed, Accrued
  <2> QED
    BY <2>1, <2>2, IntakeAssumption DEF Init, PointsInv, Covered
<1>2. IInv /\ IInv' /\ PointsInv /\ [Next]_vars => PointsInv'
  BY PointsStep DEF IInv
<1>3. PointsInv => PointsAddUp
  BY SumsOfRows DEF PointsInv, PointsAddUp, Redeemed, Accrued
<1> QED
  BY <1>1, <1>2, <1>3, IntakeInvariant, PTL DEF Spec
================================================================================
