------------------------------- MODULE RegisterMC -------------------------------
(***************************************************************************)
(* The parts of the register, for TLC: kitchen queue, cart and tabs, split *)
(* checks, cash drawer, customers.                                         *)
(* They share no state here, so a behaviour is one of the first, or one of *)
(* the second, and so on, while the others stand still.                    *)
(***************************************************************************)
EXTENDS Naturals, FiniteSets, TLC

CONSTANTS
    Faults, None,
    Jobs, Drains, MaxAttempts, MaxTaps, MaxKills,   \* of the kitchen queue
    Tabs, CartLines, Variants, MaxQty, MaxCarts,    \* of the cart
    Checks, Lines, Counts, MaxUnits, Prices,        \* of the split checks
    Sales, Dates, MaxOpens, MaxDays,                \* of the drawer
    Guests, Phoned, Malformed, Locals, Profiles,    \* of the customers
    MaxLost, MaxCallers

\* Tickets one can count, and numbers to count up to.
KitchenBounds ==
    IsFiniteSet(Jobs) /\ MaxAttempts \in Nat /\ MaxTaps \in Nat /\ MaxKills \in Nat
ASSUME KitchenAssumption == KitchenBounds

\* A set of orders one can count, and dates that 0, no day at all, is not one of.
DrawerBounds ==
    /\ IsFiniteSet(Sales) /\ MaxOpens \in Nat /\ MaxDays \in Nat
    /\ 1 \in Dates /\ 0 \notin Dates
ASSUME DrawerAssumption == DrawerBounds

\* Finitely many ids of the register's customers and of the server's, no id of one kind
\* of the other, and None none of them, no guest and no order.
CustomerBounds ==
    /\ IsFiniteSet(Locals) /\ IsFiniteSet(Profiles)
    /\ Locals \cap Profiles = {} /\ None \notin Locals \cup Profiles \cup Guests \cup Tabs
    /\ Phoned \subseteq Guests /\ MaxLost \in Nat /\ MaxCallers \in Nat
ASSUME CustomerAssumption == CustomerBounds

\* Lines one can count, a first cart, and a None that is no order.
CartBounds ==
    /\ IsFiniteSet(CartLines) /\ None \notin Tabs
    /\ MaxQty \in Nat /\ MaxCarts \in Nat \ {0}
ASSUME CartAssumption == CartBounds

VARIABLES
    part,  \* the component that runs in this behaviour
    kq_app, kq_job, kq_drain, kq_running, kq_rerun, kq_badge, kq_copies,
    kq_cut, kq_taps, kq_kills,
    tc_cart, tc_on, tc_base, tc_number, tc_begun, tc_pressed, tc_draft,
    tc_row, tc_told, tc_sent, tc_twice, tc_revived, tc_folded,
    sc_screen, sc_queue, sc_whole, sc_split, sc_resumed, sc_row, sc_billed,
    sc_paid, sc_mishap,
    cd_date, cd_day, cd_starts, cd_session, cd_opens, cd_order, cd_took,
    cd_day_of,
    cs_who, cs_table, cs_listed, cs_cart, cs_resumed, cs_order, cs_run,
    cs_calls, cs_lost, cs_callers, cs_late, cs_stale, cs_missed, cs_raced

KitchenVars == <<kq_app, kq_job, kq_drain, kq_running, kq_rerun, kq_badge,
                 kq_copies, kq_cut, kq_taps, kq_kills>>
CartVars == <<tc_cart, tc_on, tc_base, tc_number, tc_begun, tc_pressed,
              tc_draft, tc_row, tc_told, tc_sent, tc_twice, tc_revived,
              tc_folded>>
SplitVars == <<sc_screen, sc_queue, sc_whole, sc_split, sc_resumed, sc_row,
               sc_billed, sc_paid, sc_mishap>>
DrawerVars == <<cd_date, cd_day, cd_starts, cd_session, cd_opens, cd_order,
                cd_took, cd_day_of>>
CustomerVars == <<cs_who, cs_table, cs_listed, cs_cart, cs_resumed, cs_order,
                  cs_run, cs_calls, cs_lost, cs_callers, cs_late, cs_stale,
                  cs_missed, cs_raced>>

Kitchen == INSTANCE KitchenQueue WITH
    app <- kq_app, job <- kq_job, drain <- kq_drain, running <- kq_running,
    rerun <- kq_rerun, badge <- kq_badge, copies <- kq_copies, cut <- kq_cut,
    taps <- kq_taps, kills <- kq_kills

Cart == INSTANCE TabCart WITH
    cart <- tc_cart, on <- tc_on, base <- tc_base, number <- tc_number,
    begun <- tc_begun, pressed <- tc_pressed, draft <- tc_draft,
    row <- tc_row, told <- tc_told, sent <- tc_sent, twice <- tc_twice,
    revived <- tc_revived, folded <- tc_folded, Lines <- CartLines,
    Orders <- Tabs

Split == INSTANCE SplitChecks WITH
    screen <- sc_screen, queue <- sc_queue, whole <- sc_whole,
    split <- sc_split, resumed <- sc_resumed, row <- sc_row,
    billed <- sc_billed, paid <- sc_paid, mishap <- sc_mishap,
    Orders <- Checks, MaxQty <- MaxUnits

\* Lines and orders one can count, checks to split into, prices that are numbers, and a
\* None that is no order and no check.
SplitBounds ==
    /\ IsFiniteSet(Lines) /\ IsFiniteSet(Checks)
    /\ Counts \subseteq Nat \ {0} /\ MaxUnits \in Nat /\ Prices \subseteq Nat
    /\ None \notin Checks /\ None \notin Split!Check
ASSUME SplitAssumption == SplitBounds

Drawer == INSTANCE CashDrawer WITH
    date <- cd_date, day <- cd_day, starts <- cd_starts,
    session <- cd_session, opens <- cd_opens, order <- cd_order,
    took <- cd_took, day_of <- cd_day_of, Orders <- Sales

Customers == INSTANCE CustomerSync WITH
    who <- cs_who, table <- cs_table, listed <- cs_listed, cart <- cs_cart,
    resumed <- cs_resumed, order <- cs_order, run <- cs_run,
    calls <- cs_calls, lost <- cs_lost, callers <- cs_callers,
    late <- cs_late, stale <- cs_stale, missed <- cs_missed,
    raced <- cs_raced, Orders <- Tabs

Runs(p) == part = p

Init ==
    /\ part \in {"kitchen", "cart", "split", "drawer", "customers"}
    /\ Kitchen!Init
    /\ Cart!Init
    /\ Split!Init
    /\ Drawer!Init
    /\ Customers!Init
    /\ ~Runs("split") =>
        /\ sc_resumed = None
        /\ sc_screen = [l \in Lines |-> [qty |-> 1, cents |-> CHOOSE p \in Prices : TRUE]]

KitchenNext ==
    /\ Runs("kitchen") /\ Kitchen!Next
    /\ UNCHANGED <<part, CartVars, SplitVars, DrawerVars, CustomerVars>>
CartNext ==
    /\ Runs("cart") /\ Cart!Next
    /\ UNCHANGED <<part, KitchenVars, SplitVars, DrawerVars, CustomerVars>>
SplitNext ==
    /\ Runs("split") /\ Split!Next
    /\ UNCHANGED <<part, KitchenVars, CartVars, DrawerVars, CustomerVars>>
DrawerNext ==
    /\ Runs("drawer") /\ Drawer!Next
    /\ UNCHANGED <<part, KitchenVars, CartVars, SplitVars, CustomerVars>>
CustomersNext ==
    /\ Runs("customers") /\ Customers!Next
    /\ UNCHANGED <<part, KitchenVars, CartVars, SplitVars, DrawerVars>>

Next == KitchenNext \/ CartNext \/ SplitNext \/ DrawerNext \/ CustomersNext

vars == <<part, KitchenVars, CartVars, SplitVars, DrawerVars, CustomerVars>>

Spec == Init /\ [][Next]_vars

Alike == Permutations(Checks) \cup Permutations(Lines)
--------------------------------------------------------------------------------
\* The properties of the parts, under the names they have in their modules.
TypeOK ==
    /\ Runs("kitchen") => Kitchen!TypeOK
    /\ Runs("cart") => Cart!TypeOK
    /\ Runs("split") => Split!TypeOK
    /\ Runs("drawer") => Drawer!TypeOK
    /\ Runs("customers") => Customers!TypeOK

KitchenIsServed == Runs("kitchen") => Kitchen!KitchenIsServed
SplitAddsUp == Runs("split") => Split!SplitAddsUp
CustomersFollow == Runs("customers") => Customers!CustomersFollow
CustodyHolds == Runs("drawer") => Drawer!CustodyHolds
TabsStayTrue == [](Runs("cart") => Cart!ServerIsTold) /\ Cart!PaidStaysPaid
================================================================================
