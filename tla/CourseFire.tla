------------------------------- MODULE CourseFire -------------------------------
(***************************************************************************)
(* One coursed order and its kitchen tickets: fireCourse and the creation, *)
(* append, edit and payment it meets (orders.service.ts), and printCourse  *)
(* (order-print.service.ts).                                               *)
(*                                                                         *)
(* A fire is a transaction under the advisory lock that stamps the unfired *)
(* lines of a course, then, after the commit, a read of the order and a    *)
(* ticket with every line of the course.  The handler may die anywhere,    *)
(* and a ticket that cannot be queued is only logged.  The copies of a     *)
(* ticket count as one.                                                    *)
(***************************************************************************)
EXTENDS Naturals

CONSTANTS
    Lines,        \* order_items ids; a row that replaces another has a new one
    Courses,
    FirstCourse,  \* the course that is fired by the creation of the order
    Handlers,     \* handler instances that can be in flight at once
    Taps,         \* clientMutationId values of fires
    NoTap,        \* a fire that carries none
    Faults,       \* what goes wrong: "die", "queue"
    MaxPrints     \* bound: fires stop when a line has been on this many tickets

VARIABLES
    status,    \* of the order: "none", "open" (unpaid, pending or confirmed),
               \* "paid", or "shut" (unpaid, in any later status)
    item,      \* the order_items table: per id NoLine, a row, or Gone
    claims,    \* order_mutations: taps already claimed
    req,       \* per handler: Idle, or the operation and how far it is
    printed,   \* history: how many tickets a line has been on
    tickets,   \* history: how many tickets a tap has asked for
    stamped,   \* history: the courses fired at least once, the first by the creation
    reopened,  \* history: the courses that gained lines once they were fired
    lost       \* history: the courses a ticket of which was never queued

vars == <<status, item, claims, req, printed, tickets, stamped, reopened, lost>>
history == <<printed, tickets, stamped, reopened, lost>>
--------------------------------------------------------------------------------
NoLine == [line |-> "none"]
Gone   == [line |-> "gone"]
Idle   == [op |-> "idle"]

Line == [course : Courses, fired : BOOLEAN]

Present == {l \in Lines : item[l] \in Line}
InCourse(c) == {l \in Present : item[l].course = c}
Unfired(c)  == {l \in InCourse(c) : ~item[l].fired}

\* step: "locked" between the claim and the stamp, "stamped" after the commit,
\* "read" once the order has been read back; seen: the lines that read found.
Request ==
    [ op : {"create", "fire", "edit"}, course : Courses, tap : Taps \cup {NoTap},
      step : {"locked", "stamped", "read"}, seen : SUBSET Lines ]

Enter(h, op, c, t, step) ==
    req' = [req EXCEPT ![h] =
              [op |-> op, course |-> c, tap |-> t, step |-> step, seen |-> {}]]
Leave(h) == req' = [req EXCEPT ![h] = Idle]

At(h, op, step) == req[h] # Idle /\ req[h].op \in op /\ req[h].step = step

\* pg_advisory_xact_lock('order-payment', order)
Locked == \E h \in Handlers : At(h, {"fire"}, "locked")

\* New rows: every line of new gets a course of f, unfired but for the courses
\* in now, and whatever is in old is deleted.
Insert(new, f, now, old) ==
    /\ item' = [l \in Lines |->
                  IF l \in new THEN [course |-> f[l], fired |-> f[l] \in now]
                  ELSE IF l \in old THEN Gone ELSE item[l]]
    /\ stamped' = stamped \cup now
    /\ reopened' = reopened \cup {c \in stamped : \E l \in new : f[l] = c}

Fresh == {l \in Lines : item[l] = NoLine}

Init ==
    /\ status = "none"
    /\ item = [l \in Lines |-> NoLine]
    /\ claims = {}
    /\ req = [h \in Handlers |-> Idle]
    /\ printed = [l \in Lines |-> 0]
    /\ tickets = [t \in Taps |-> 0]
    /\ stamped = {} /\ reopened = {} /\ lost = {}
--------------------------------------------------------------------------------
\* createPosOrder: a tab or a sale; the lines of the first course are fired by
\* the insert, and dispatchOrderSideEffects goes on to print that course.
Create(h) ==
    /\ status = "none" /\ req[h] = Idle
    /\ \E new \in SUBSET Lines \ {{}} : \E f \in [new -> Courses] :
         Insert(new, f, {FirstCourse}, {})
    /\ status' \in {"open", "paid"}
    /\ Enter(h, "create", FirstCourse, NoTap, "stamped")
    /\ UNCHANGED <<claims, printed, tickets, lost>>

\* fireCourse, under the lock: claim the tap, read the order, refuse it unless
\* it is unpaid and editable.  A tap already claimed returns the order as it is.
FireBegin(h, c, t) ==
    /\ req[h] = Idle /\ ~Locked
    /\ t \notin claims
    /\ status = "open"
    /\ \A l \in Lines : printed[l] < MaxPrints
    /\ Enter(h, "fire", c, t, "locked")
    /\ UNCHANGED <<status, item, claims, history>>

\* Mutant: the tap is not claimed.
FireStampUnclaimed(h) ==
    /\ At(h, {"fire"}, "locked")
    /\ LET c == req[h].course
           news == Unfired(c) IN
       /\ item' = [l \in Lines |->
                     IF l \in news THEN [item[l] EXCEPT !.fired = TRUE] ELSE item[l]]
       /\ IF news = {}
            THEN Leave(h) /\ UNCHANGED stamped
            ELSE /\ req' = [req EXCEPT ![h].step = "stamped"]
                 /\ stamped' = stamped \cup {c}
    /\ UNCHANGED <<status, claims, printed, tickets, reopened, lost>>

\* The stamp and the commit; nothing more is done when nothing was unfired.
FireStamp(h) ==
    /\ At(h, {"fire"}, "locked")
    /\ LET c == req[h].course
           news == Unfired(c) IN
       /\ item' = [l \in Lines |->
                     IF l \in news THEN [item[l] EXCEPT !.fired = TRUE] ELSE item[l]]
       /\ IF news = {}
            THEN Leave(h) /\ UNCHANGED stamped
            ELSE /\ req' = [req EXCEPT ![h].step = "stamped"]
                 /\ stamped' = stamped \cup {c}
    /\ claims' = claims \cup ({req[h].tap} \ {NoTap})
    /\ UNCHANGED <<status, printed, tickets, reopened, lost>>

\* getOrderByIdForOrg after the commit, and the selection of printCourse: the
\* lines of the course, fired or not.  Without any it returns.
ReadBack(h) ==
    /\ At(h, {"create", "fire"}, "stamped")
    /\ LET found == InCourse(req[h].course) IN
       IF found = {}
         THEN Leave(h)
         ELSE req' = [req EXCEPT ![h].step = "read", ![h].seen = found]
    /\ UNCHANGED <<status, item, claims, history>>

\* printCourse queues the ticket.
PrintCourse(h) ==
    /\ At(h, {"create", "fire"}, "read")
    /\ printed' = [l \in Lines |->
                     IF l \in req[h].seen THEN printed[l] + 1 ELSE printed[l]]
    /\ tickets' = [t \in Taps |->
                     IF t = req[h].tap THEN tickets[t] + 1 ELSE tickets[t]]
    /\ Leave(h)
    /\ UNCHANGED <<status, item, claims, stamped, reopened, lost>>

\* createPrintJob throws and printCourse logs it.
PrintFails(h) ==
    /\ "queue" \in Faults
    /\ At(h, {"create", "fire"}, "read")
    /\ lost' = lost \cup {req[h].course}
    /\ Leave(h)
    /\ UNCHANGED <<status, item, claims, printed, tickets, stamped, reopened>>

\* The process dies: the transaction rolls back, or the ticket is never asked for.
Die(h) ==
    /\ "die" \in Faults
    /\ req[h] # Idle
    /\ lost' = IF req[h].step = "locked" THEN lost ELSE lost \cup {req[h].course}
    /\ Leave(h)
    /\ UNCHANGED <<status, item, claims, printed, tickets, stamped, reopened>>

\* appendOrderItems, one transaction under the lock; its own printing skips the
\* kitchen ticket of a coursed order.
AppendLines ==
    /\ status = "open" /\ ~Locked
    /\ \E l \in Fresh : \E f \in [{l} -> Courses] : Insert({l}, f, {}, {})
    /\ UNCHANGED <<status, claims, req, printed, tickets, lost>>

\* updateOrderItems: guards on a row read earlier, then a transaction, without
\* the lock, that replaces every line by an unfired one.
EditRead(h) ==
    /\ req[h] = Idle /\ status = "open"
    /\ Enter(h, "edit", FirstCourse, NoTap, "locked")
    /\ UNCHANGED <<status, item, claims, history>>

EditCommit(h) ==
    /\ At(h, {"edit"}, "locked")
    /\ \E new \in SUBSET Fresh \ {{}} : \E f \in [new -> Courses] :
         Insert(new, f, {}, Present)
    /\ Leave(h)
    /\ UNCHANGED <<status, claims, printed, tickets, lost>>

\* recordPayment, one transaction under the lock.
Pay ==
    /\ status = "open" /\ ~Locked
    /\ status' = "paid"
    /\ UNCHANGED <<item, claims, req, history>>

\* updateOrderStatus moves the order past the statuses that may be fired.
Shut ==
    /\ status = "open"
    /\ status' = "shut"
    /\ UNCHANGED <<item, claims, req, history>>

Next ==
    \/ \E h \in Handlers :
         \/ Create(h) \/ FireStamp(h) \/ ReadBack(h) \/ PrintCourse(h) \/ PrintFails(h)
         \/ Die(h) \/ EditRead(h) \/ EditCommit(h)
         \/ \E c \in Courses, t \in Taps \cup {NoTap} : FireBegin(h, c, t)
    \/ AppendLines \/ Pay \/ Shut

Spec == Init /\ [][Next]_vars
--------------------------------------------------------------------------------
TypeOK ==
    /\ status \in {"none", "open", "paid", "shut"}
    /\ item \in [Lines -> Line \cup {NoLine, Gone}]
    /\ claims \subseteq Taps
    /\ req \in [Handlers -> Request \cup {Idle}]
    /\ printed \in [Lines -> Nat]
    /\ tickets \in [Taps -> Nat]
    /\ stamped \subseteq Courses /\ reopened \subseteq stamped
    /\ lost \subseteq Courses

\* The double-tapped or retried Fire button: however often a tap is sent, and
\* whichever of its transmissions die, it puts one ticket in the kitchen at most.
TapPrintsOnce == \A t \in Taps : tickets[t] <= 1

\* Handler h will still ask for a ticket with line l on it.
WillPrint(h, l) ==
    /\ At(h, {"create", "fire"}, "stamped") \/ At(h, {"create", "fire"}, "read")
    /\ req[h].course = item[l].course
    /\ req[h].step = "read" => l \in req[h].seen

\* A line the register shows as fired is on a ticket or about to be, unless the
\* handler that stamped it died or could not queue the ticket: nothing the other
\* handlers do, the unlocked edit included, makes the kitchen miss it.
FiredIsPrinted ==
    \A l \in Present :
        item[l].fired /\ printed[l] = 0 =>
            \/ item[l].course \in lost
            \/ \E h \in Handlers : WillPrint(h, l)

\* A course to which nothing was added once it had been fired is cooked once,
\* however many taps and handlers fire it.
NoReprint ==
    \A l \in Present : item[l].course \notin reopened => printed[l] <= 1

\* The kitchen follows the fires: the three together.
KitchenFollowsFires == TapPrintsOnce /\ FiredIsPrinted /\ NoReprint

\* In every step the kitchen follows the fires, and a tender and a fire exclude each
\* other: once the order is paid no line of it is stamped, whatever handler was under
\* way.  (An edit under way may delete lines.)
FiresAreKept ==
    [][KitchenFollowsFires' /\ (status = "paid" => stamped' = stamped)]_vars

\* Not kept by the code: a paid order has nothing left to fire (the message of
\* fireCourse), a ticket carries only lines its own fire stamped.
PaidIsFired ==
    status = "paid" => \A l \in Present : item[l].fired
CookedOnce == \A l \in Lines : printed[l] <= 1
================================================================================
