------------------------------- MODULE CashDrawer -------------------------------
(***************************************************************************)
(* Cash custody on the register: business days (businessDayRepo), drawer   *)
(* sessions (drawerRepo) and the orders whose takings they report, with    *)
(* the screens that open and close them.  Every order costs one unit.      *)
(*                                                                         *)
(* salesSince compares times, and only with the opening of a session, so   *)
(* time is counted in sessions opened.                                     *)
(***************************************************************************)
EXTENDS Naturals, FiniteSets

CONSTANTS
    Orders,    \* local order ids
    Dates,     \* calendar days, numbered
    MaxOpens,  \* bound: drawer sessions
    MaxDays    \* bound: times a day is started

VARIABLES
    date,      \* the calendar
    day,       \* the open business day, or 0; a day is named by its date
    starts,    \* times a day was started
    session,   \* drawer_sessions: per number NoSession or a row
    opens,     \* sessions opened so far
    order,     \* orders: per id NoOrder or a row
    took,      \* history: per session, the cash put into its drawer
    day_of     \* history: per paid order, the day that was open when it was paid

vars == <<date, day, starts, session, opens, order, took, day_of>>
--------------------------------------------------------------------------------
NoSession == [status |-> "none"]
NoOrder   == [status |-> "none"]

Sessions == 1..MaxOpens
Open     == {n \in Sessions : session[n].status = "open"}
Paid     == {o \in Orders : order[o].status = "paid"}

\* salesSince and salesForBusinessDay.
CashSince(n)  == Cardinality({o \in Paid : order[o].cash /\ order[o].created >= n})
DaySales(d)   == Cardinality({o \in Paid : order[o].day = d})

Init ==
    /\ date = 1 /\ day = 0 /\ starts = 0
    /\ session = [n \in Sessions |-> NoSession] /\ opens = 0
    /\ order = [o \in Orders |-> NoOrder]
    /\ took = [n \in Sessions |-> 0]
    /\ day_of = [o \in Orders |-> 0]
--------------------------------------------------------------------------------
OpenSession(float) ==
    /\ opens < MaxOpens
    /\ opens' = opens + 1
    /\ session' = [session EXCEPT ![opens + 1] =
                     [status |-> "open", opening |-> float, expected |-> 0]]

\* closeSession, of the session the screen shows.
CloseSession(n) ==
    session' = [session EXCEPT ![n].status = "closed",
                               ![n].expected = session[n].opening + CashSince(n)]

\* StartDayScreen: the day of today, again if it was ended, and a drawer, unless the
\* app dies between the two; the switch of SettingsScreen opens no drawer.
StartDay ==
    /\ day = 0 /\ starts < MaxDays
    /\ day' = date /\ starts' = starts + 1
    /\ \/ \E float \in 0..1 : OpenSession(float)
       \/ UNCHANGED <<session, opens>>
    /\ UNCHANGED <<date, order, took, day_of>>

\* CloseStoreDialog: the drawer that is open, then the day, unless the app dies.
EndDay ==
    /\ day # 0
    /\ IF Open = {} THEN UNCHANGED session ELSE \E n \in Open : CloseSession(n)
    /\ day' \in IF Open = {} THEN {0} ELSE {0, day}
    /\ UNCHANGED <<date, starts, opens, order, took, day_of>>

\* Mutant: a drawer may be opened beside another.
OpenDrawerAnyway ==
    /\ day # 0
    /\ \E float \in 0..1 : OpenSession(float)
    /\ UNCHANGED <<date, day, starts, order, took, day_of>>

\* DrawerScreen, on a register that is open.
OpenDrawer ==
    /\ day # 0 /\ Open = {}
    /\ \E float \in 0..1 : OpenSession(float)
    /\ UNCHANGED <<date, day, starts, order, took, day_of>>

CloseDrawer ==
    /\ day # 0
    /\ \E n \in Open : CloseSession(n)
    /\ UNCHANGED <<date, day, starts, opens, order, took, day_of>>

\* The cash of a sale goes into the drawer that is open.
Take(o, cash) ==
    /\ took' = [n \in Sessions |-> IF cash /\ n \in Open THEN took[n] + 1 ELSE took[n]]
    /\ day_of' = [day_of EXCEPT ![o] = day]

Sell(o) ==
    /\ day # 0 /\ order[o] = NoOrder
    /\ \E cash \in BOOLEAN :
         /\ order' = [order EXCEPT ![o] =
                        [status |-> "paid", created |-> opens, day |-> day, cash |-> cash]]
         /\ Take(o, cash)
    /\ UNCHANGED <<date, day, starts, session, opens>>

\* A held order or a tab.
Save(o) ==
    /\ day # 0 /\ order[o] = NoOrder
    /\ order' = [order EXCEPT ![o] =
                   [status |-> "saved", created |-> opens, day |-> day, cash |-> FALSE]]
    /\ UNCHANGED <<date, day, starts, session, opens, took, day_of>>

\* It is paid: saveOrder writes the day over, and leaves created_at as it is.
Settle(o) ==
    /\ day # 0 /\ order[o].status = "saved"
    /\ \E cash \in BOOLEAN :
         /\ order' = [order EXCEPT ![o].status = "paid", ![o].day = day, ![o].cash = cash]
         /\ Take(o, cash)
    /\ UNCHANGED <<date, day, starts, session, opens>>

Midnight ==
    /\ date + 1 \in Dates
    /\ date' = date + 1
    /\ UNCHANGED <<day, starts, session, opens, order, took, day_of>>

Next ==
    \/ StartDay \/ EndDay \/ OpenDrawer \/ CloseDrawer \/ Midnight
    \/ \E o \in Orders : Sell(o) \/ Save(o) \/ Settle(o)

Spec == Init /\ [][Next]_vars
--------------------------------------------------------------------------------
Row == [status : {"saved", "paid"}, created : 0..MaxOpens, day : Dates, cash : BOOLEAN]
Session == [status : {"open", "closed"}, opening : 0..1, expected : Nat]

TypeOK ==
    /\ date \in Dates /\ day \in Dates \cup {0} /\ starts \in 0..MaxDays
    /\ session \in [Sessions -> {NoSession} \cup Session] /\ opens \in 0..MaxOpens
    /\ order \in [Orders -> {NoOrder} \cup Row]
    /\ took \in [Sessions -> Nat] /\ day_of \in [Orders -> Dates \cup {0}]

\* There is one cash drawer: whatever is ended, reopened or cut short by a kill, no
\* second session is opened beside one that is open, nor outlives its day.
OneDrawer ==
    /\ Cardinality(Open) <= 1
    /\ day = 0 => Open = {}

\* A drawer is never expected to hold cash that was not put into it: a cashier is not
\* short by a sale of an earlier session or of the next.
NeverExpectsMore ==
    \A n \in Sessions :
        session[n].status = "closed" => session[n].expected <= session[n].opening + took[n]

\* The takings of a business day are the orders paid while it was open, across its
\* drawers, restarts, and the tabs of other days that were settled in it.
DayCountsItsSales ==
    \A d \in Dates : DaySales(d) = Cardinality({o \in Paid : day_of[o] = d})

\* The cashier is accountable for one drawer and for no more: the three together.
CustodyHolds == OneDrawer /\ NeverExpectsMore /\ DayCountsItsSales

\* Not kept by the code: what a drawer is expected to hold is what was put into it.
DrawerBalances ==
    \A n \in Sessions :
        session[n].status = "closed" => session[n].expected = session[n].opening + took[n]
================================================================================
