------------------------------- MODULE SplitChecks -------------------------------
(***************************************************************************)
(* Split checks on the register: splitLines (cartOps), the split state of  *)
(* CartContext and confirmPayment (PaymentScreen).  A cart is divided into *)
(* checks, the first is on the screen and the others queue behind it, and  *)
(* each payment saves an order and brings up the next.                     *)
(*                                                                         *)
(* A check is what it holds of every cart line: units and cents.  Tax and  *)
(* tips, which are computed per check, are left out.                       *)
(***************************************************************************)
EXTENDS Integers, Sequences, FiniteSets, Folds

CONSTANTS
    Lines,    \* lines of the cart
    Counts,   \* numbers of checks a cart can be split into
    MaxQty,   \* bound: units of a line
    Prices,   \* unit prices, in cents
    Orders,   \* local order ids
    None      \* no order

VARIABLES
    screen,   \* the lines on the screen: the cart, or the check being paid
    queue,    \* splitQueue: the checks that wait
    whole,    \* splitOriginalLines: the cart before the split
    split,    \* a split is under way
    resumed,  \* resumedOrderId, or tabOrderId once a tab is loaded
    row,      \* paid orders on the device: per id, None or a check
    billed,   \* the server's orders: per id, None or what its first create held
    paid,     \* history: the checks that were paid
    mishap    \* history: what befell the split: "resumed", "cancelled", "cleared"

vars == <<screen, queue, whole, split, resumed, row, billed, paid, mishap>>
--------------------------------------------------------------------------------
Nothing == [qty |-> 0, cents |-> 0]
Blank   == [l \in Lines |-> Nothing]

SumOf(f, S) == MapThenFoldSet(+, 0, LAMBDA x : f[x], LAMBDA T : CHOOSE x \in T : TRUE, S)
Cents(c)    == SumOf([l \in Lines |-> c[l].cents], Lines)
Units(c, l) == c[l].qty
CentsIn(f)  == SumOf([o \in Orders |-> IF f[o] = None THEN 0 ELSE Cents(f[o])], Orders)
CentsOf(s)  == SumOf([i \in DOMAIN s |-> Cents(s[i])], DOMAIN s)

\* Mutant: the remainder of a division is dropped.
PartFloor(amount, n, k) == amount \div n

\* The share of the k-th of n checks in amount: largest remainders first.
Part(amount, n, k) == (amount \div n) + (IF k <= amount % n THEN 1 ELSE 0)

\* splitLines, for one line and one check: units are handed out whole, and when
\* there are fewer than checks the cost is, as one unit each at its own price.
Share(line, among, i) ==
    LET to == IF among = {} THEN {1} ELSE among
        n  == Cardinality(to)
        k  == Cardinality({j \in to : j <= i}) IN
    IF line.qty = 0 \/ i \notin to THEN Nothing
    ELSE IF line.qty < n THEN [qty |-> 1, cents |-> Part(line.cents, n, k)]
    ELSE [qty   |-> Part(line.qty, n, k),
          cents |-> (line.cents \div line.qty) * Part(line.qty, n, k)]

Groups(c, assignment, n) ==
    [i \in 1..n |-> [l \in Lines |-> Share(c[l], assignment[l], i)]]

Init ==
    /\ screen \in {c \in [Lines -> {Nothing} \cup
                           {[qty |-> q, cents |-> q * p] : q \in 1..MaxQty, p \in Prices}] :
                     c # Blank}
    /\ queue = <<>> /\ whole = screen /\ split = FALSE
    /\ resumed \in Orders \cup {None}
    /\ row = [o \in Orders |-> None]
    /\ billed = [o \in Orders |-> None]
    /\ paid = <<>>
    /\ mishap = IF resumed = None THEN {} ELSE {"resumed"}
--------------------------------------------------------------------------------
\* startSplitChecks, once every check has a line.
Start(n, assignment) ==
    LET groups == Groups(screen, assignment, n) IN
    /\ ~split /\ paid = <<>> /\ screen # Blank
    /\ \A i \in 1..n : groups[i] # Blank
    /\ split' = TRUE
    /\ screen' = groups[1] /\ queue' = Tail(groups) /\ whole' = screen
    /\ UNCHANGED <<resumed, row, billed, paid, mishap>>

\* buildLocalOrder: the resumed order keeps its id, check after check.
Ids == IF resumed # None THEN {resumed} ELSE {o \in Orders : row[o] = None}

\* confirmPayment: the order is saved over its row, and a create queued, which the
\* server answers with the order it has when it knows the id.
PayCheck ==
    /\ screen # Blank
    /\ \E o \in Ids :
         /\ row' = [row EXCEPT ![o] = screen]
         /\ billed' = [billed EXCEPT ![o] = IF @ = None THEN screen ELSE @]
    /\ paid' = Append(paid, screen)
    /\ IF split /\ queue # <<>>
         THEN /\ screen' = Head(queue) /\ queue' = Tail(queue)
              /\ UNCHANGED <<split, resumed>>
         ELSE screen' = Blank /\ queue' = <<>> /\ split' = FALSE /\ resumed' = None
    /\ UNCHANGED <<whole, mishap>>

\* cancelSplit restores the cart as it was before the split.
Cancel ==
    /\ split
    /\ screen' = whole /\ queue' = <<>> /\ split' = FALSE
    /\ mishap' = mishap \cup {"cancelled"}
    /\ UNCHANGED <<whole, resumed, row, billed, paid>>

\* The cart is cleared mid-split: the check on the screen is sent to the kitchen or
\* held instead of paid, or the app is killed, which keeps no draft of a split.
Clear ==
    /\ split
    /\ screen' = Blank /\ queue' = <<>> /\ split' = FALSE /\ resumed' = None
    /\ mishap' = mishap \cup {"cleared"}
    /\ UNCHANGED <<whole, row, billed, paid>>

\* loadOrder mid-split: another order comes on the screen, and the queue stays.
LoadOrder(o) ==
    /\ split /\ row[o] = None
    /\ \E l \in Lines, p \in Prices : screen' = [Blank EXCEPT ![l] = [qty |-> 1, cents |-> p]]
    /\ resumed' = o
    /\ mishap' = mishap \cup {"resumed", "cleared"}
    /\ UNCHANGED <<queue, whole, split, row, billed, paid>>

Next ==
    \/ \E n \in Counts : \E assignment \in [Lines -> SUBSET (1..n)] : Start(n, assignment)
    \/ PayCheck \/ Cancel \/ Clear
    \/ \E o \in Orders : LoadOrder(o)

Spec == Init /\ [][Next]_vars
--------------------------------------------------------------------------------
Check == [Lines -> [qty : Nat, cents : Nat]]

TypeOK ==
    /\ screen \in Check /\ whole \in Check
    /\ queue \in Seq(Check) /\ paid \in Seq(Check)
    /\ split \in BOOLEAN
    /\ resumed \in Orders \cup {None}
    /\ row \in [Orders -> Check \cup {None}] /\ billed \in [Orders -> Check \cup {None}]
    /\ mishap \subseteq {"resumed", "cancelled", "cleared"}

\* No cent is lost or made by a split: however lines are shared and whatever does not
\* divide, the checks paid, the one on the screen and those in the queue add up.
CentsAddUp ==
    mishap \cap {"cancelled", "cleared"} = {} /\ split =>
        CentsOf(paid) + Cents(screen) + CentsOf(queue) = Cents(whole)

\* No plate is lost: a line is on some check with all its units, or with more when
\* there are fewer units than checks.
PlatesKept ==
    mishap \cap {"cancelled", "cleared"} = {} /\ split =>
        \A l \in Lines :
            LET on == SumOf([i \in DOMAIN paid |-> paid[i][l].qty], DOMAIN paid) + screen[l].qty
                      + SumOf([i \in DOMAIN queue |-> queue[i][l].qty], DOMAIN queue) IN
            on >= whole[l].qty /\ (whole[l].qty = 0 => on = 0)

\* Every check that was paid is an order of its own, on the device and the server,
\* when the split cart was a new one.
ChecksAreBilled ==
    "resumed" \notin mishap =>
        CentsIn(row) = CentsOf(paid) /\ CentsIn(billed) = CentsOf(paid)

\* A split neither loses nor makes anything: the three together.
SplitAddsUp == CentsAddUp /\ PlatesKept /\ ChecksAreBilled

\* Not kept by the code: the same of a resumed cart; and a cancelled split bills only
\* the checks that remain.
ResumedIsBilled ==
    "cleared" \notin mishap => CentsIn(billed) = CentsOf(paid)
NothingPaidTwice == "cleared" \notin mishap => CentsOf(paid) <= Cents(whole)
================================================================================
