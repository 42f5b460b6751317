-------------------------------- MODULE TabCart --------------------------------
(***************************************************************************)
(* The register's cart and the open tabs it loads and saves: cartOps,      *)
(* CartContext, the buttons of CartPanel and PaymentScreen, and tabsRepo.  *)
(*                                                                         *)
(* A press is handled against the cart as it was last rendered: after a    *)
(* press that submits the cart, more presses can land before the render    *)
(* that clears it.  The draft of a plain cart is written to the device     *)
(* after each change, before the next press but maybe not before a kill.   *)
(* What is queued for the server counts as told (PosSync models the        *)
(* outbox).                                                                *)
(***************************************************************************)
EXTENDS Naturals, FiniteSets, Folds

CONSTANTS
    Lines,     \* line ids, 1..n; newLineId takes the next one
    Variants,  \* what makes two lines of a dish distinct: note, modifiers, course
    Orders,    \* local order ids
    None,      \* no order
    MaxQty,    \* bound: quantity of a line
    MaxCarts,  \* bound: carts that are begun
    Faults     \* what goes wrong: "kill"

VARIABLES
    cart,     \* per id: NoLine, or a variant and a quantity
    on,       \* what the cart is: a new ticket, a resumed one, or a tab; and, as
              \* history, whether an edit has touched what the kitchen already has
    base,     \* tabBaseline: per id, the quantity the loaded tab came with
    number,   \* history: which cart this is
    begun,    \* history: carts begun so far
    pressed,  \* the submit latch of CartPanel: set, and the clear not yet rendered
    draft,    \* AsyncStorage: the cart of a plain draft, or NoDraft
    row,      \* the orders table of the device
    told,     \* per order and variant, units queued for the server
    sent,     \* history: the carts that were sent or saved to a tab
    twice,    \* history: a cart was sent a second time
    revived,  \* history: a cart that had been sent came back from its draft
    folded    \* history: orders saved from a cart with such an edit

vars == <<cart, on, base, number, begun, pressed, draft, row, told, sent, twice, revived, folded>>
carts == <<number, begun>>
--------------------------------------------------------------------------------
NoLine  == [qty |-> 0]
NoOrder == [status |-> "none"]
NoDraft == [draft |-> "none"]

Line  == [v : Variants, qty : 1..MaxQty]
Empty == [l \in Lines |-> NoLine]
Zero  == [v \in Variants |-> 0]
Plain == [kind |-> "new", order |-> None, mixed |-> FALSE]

Used(c)  == {l \in Lines : c[l] # NoLine}
IsTab    == on.kind = "tab"
Orders0  == {o \in Orders : row[o] = NoOrder}

\* An id no line has had.
Fresh ==
    {l \in Lines \ Used(cart) :
       /\ \A o \in Orders \ Orders0 : row[o].items[l] = NoLine
       /\ draft = NoDraft \/ draft.cart[l] = NoLine
       /\ \A k \in Lines : k < l =>
            \/ cart[k] # NoLine \/ (draft # NoDraft /\ draft.cart[k] # NoLine)
            \/ \E o \in Orders \ Orders0 : row[o].items[k] # NoLine}

\* Units of a variant in a set of quantities per line.
SumOf(q, S) == MapThenFoldSet(+, 0, LAMBDA l : q[l], LAMBDA T : CHOOSE l \in T : TRUE, S)
Units(c)    == [v \in Variants |->
                  SumOf([l \in Lines |-> c[l].qty], {l \in Used(c) : c[l].v = v})]
Plus(f, g)  == [v \in Variants |-> f[v] + g[v]]
Total(f)    == SumOf(f, Variants)

\* linesDelta: by line id, positive differences only.
Added(l)  == IF cart[l].qty > base[l] THEN cart[l].qty - base[l] ELSE 0

\* Mutant: a save sends the whole cart.
DeltaWhole == Units(cart)

Delta     == [v \in Variants |->
                SumOf([l \in Lines |-> Added(l)], {l \in Used(cart) : cart[l].v = v})]

\* The draft of the cart as it is, and whether it has reached the device.
Kept == IF IsTab \/ Used(cart) = {} THEN NoDraft
        ELSE [cart |-> cart, on |-> on, number |-> number]

Ready == ~pressed /\ draft = Kept

Init ==
    /\ cart = Empty /\ on = Plain /\ base = [l \in Lines |-> 0]
    /\ number = 1 /\ begun = 1 /\ pressed = FALSE /\ draft = NoDraft
    /\ row = [o \in Orders |-> NoOrder]
    /\ told = [o \in Orders |-> Zero]
    /\ sent = {} /\ twice = FALSE /\ revived = FALSE /\ folded = {}
--------------------------------------------------------------------------------
Edits(c) ==
    /\ Ready
    /\ cart' = c
    /\ \A l \in Lines : c[l].qty <= MaxQty
    /\ UNCHANGED <<base, carts, pressed, draft, row, told, sent, twice, revived, folded>>

\* addLineWithOptions: an identical line absorbs the unit, else it gets a line.
Add(v) ==
    LET same == {l \in Used(cart) : cart[l].v = v} IN
    /\ \/ \E l \in same : Edits([cart EXCEPT ![l].qty = @ + 1])
       \/ same = {} /\ \E l \in Fresh : Edits([cart EXCEPT ![l] = [v |-> v, qty |-> 1]])
    /\ UNCHANGED on

\* setQuantity and updateLine keep a line at or above its baseline.
Clamp(l, q) == IF q < base[l] THEN base[l] ELSE q

\* Mutant: a line taken down to nothing stays in the cart.
SetQuantityKeeps(l, q) ==
    /\ l \in Used(cart)
    /\ Edits([cart EXCEPT ![l].qty = Clamp(l, q)])
    /\ UNCHANGED on

SetQuantity(l, q) ==
    /\ l \in Used(cart)
    /\ Edits([cart EXCEPT ![l] = IF Clamp(l, q) = 0 THEN NoLine ELSE [@ EXCEPT !.qty = Clamp(l, q)]])
    /\ UNCHANGED on

\* updateLineDetails: the edited line absorbs the lines it has become identical to.
UpdateLine(l, q, v) ==
    LET twins == {k \in Used(cart) \ {l} : cart[k].v = v}
        qty   == Clamp(l, q) + SumOf([k \in Lines |-> cart[k].qty], twins) IN
    /\ l \in Used(cart) /\ Clamp(l, q) > 0
    /\ Edits([k \in Lines |-> IF k = l THEN [v |-> v, qty |-> qty]
                              ELSE IF k \in twins THEN NoLine ELSE cart[k]])
    /\ on' = [on EXCEPT !.mixed = @ \/ (\E k \in twins : base[k] > 0)
                                     \/ (base[l] > 0 /\ v # cart[l].v)]

\* removeLine leaves a fired line alone.
RemoveLine(l) ==
    /\ l \in Used(cart) /\ base[l] = 0
    /\ Edits([cart EXCEPT ![l] = NoLine])
    /\ UNCHANGED on

Load(c, kind, o, fired) ==
    /\ cart' = c /\ base' = fired
    /\ on' = [kind |-> kind, order |-> o, mixed |-> FALSE]
Begin == begun < MaxCarts /\ begun' = begun + 1 /\ number' = begun + 1

\* loadTab and loadOrder replace whatever the cart holds.
Resume(o) ==
    /\ Ready /\ Begin
    /\ row[o] # NoOrder /\ row[o].status \in {"held", "open_tab"}
    /\ IF row[o].status = "held"
         THEN Load(row[o].items, "held", o, [l \in Lines |-> 0])
         ELSE Load(row[o].items, "tab", o, [l \in Lines |-> row[o].items[l].qty])
    /\ UNCHANGED <<pressed, draft, row, told, sent, twice, revived, folded>>
--------------------------------------------------------------------------------
\* buildLocalOrder: the id of the tab or of the resumed order, else a new one.
Ids == IF on.order # None THEN {on.order} ELSE Orders0

SaveRow(o, status) == row' = [row EXCEPT ![o] = [status |-> status, items |-> cart]]
Submit(o) ==
    /\ folded' = IF on.mixed THEN folded \cup {o} ELSE folded
    /\ sent' = sent \cup {number}
    /\ twice' = (twice \/ number \in sent)

\* saveOrder: held, and nothing queued.
Hold ==
    /\ Ready /\ ~IsTab /\ Used(cart) # {}
    /\ pressed' = TRUE
    /\ \E o \in Ids : SaveRow(o, "held")
    /\ UNCHANGED <<cart, on, base, carts, draft, told, sent, twice, revived, folded>>

\* sendToKitchen: openTab queues a create, which an order the server knows ignores.
Send ==
    /\ Ready /\ ~IsTab /\ Used(cart) # {}
    /\ pressed' = TRUE
    /\ \E o \in Ids :
         /\ SaveRow(o, "open_tab")
         /\ told' = IF told[o] = Zero THEN [told EXCEPT ![o] = Units(cart)] ELSE told
         /\ Submit(o)
    /\ UNCHANGED <<cart, on, base, carts, draft, revived>>

\* saveToTab: appendToTab queues the delta.
SaveToTab ==
    /\ Ready /\ IsTab /\ Delta # Zero
    /\ pressed' = TRUE
    /\ SaveRow(on.order, "open_tab")
    /\ told' = [told EXCEPT ![on.order] = Plus(@, Delta)]
    /\ Submit(on.order)
    /\ UNCHANGED <<cart, on, base, carts, draft, revived>>

\* confirmPayment: settleTab, or a paid order and its create.
Pay ==
    /\ Ready /\ Used(cart) # {}
    /\ pressed' = TRUE
    /\ \E o \in Ids :
         /\ SaveRow(o, "paid")
         /\ told' = IF IsTab THEN [told EXCEPT ![o] = Plus(@, Delta)]
                    ELSE IF told[o] = Zero THEN [told EXCEPT ![o] = Units(cart)] ELSE told
         /\ Submit(o)
    /\ UNCHANGED <<cart, on, base, carts, draft, revived>>

\* The clear that follows is rendered, and the latch released.
Render ==
    /\ pressed
    /\ pressed' = FALSE
    /\ cart' = Empty /\ on' = Plain /\ base' = [l \in Lines |-> 0]
    /\ Begin
    /\ UNCHANGED <<draft, row, told, sent, twice, revived, folded>>

\* The persisting effect: a plain, non-empty cart is kept, anything else dropped.
Persist ==
    /\ ~pressed /\ draft # Kept
    /\ draft' = Kept
    /\ UNCHANGED <<cart, on, base, carts, pressed, row, told, sent, twice, revived, folded>>

\* The app is killed and started again: the draft is restored.
Kill ==
    /\ "kill" \in Faults
    /\ pressed' = FALSE
    /\ base' = [l \in Lines |-> 0]
    /\ IF draft = NoDraft
         THEN cart' = Empty /\ on' = Plain /\ Begin /\ UNCHANGED revived
         ELSE /\ cart' = draft.cart /\ on' = draft.on /\ number' = draft.number
              /\ UNCHANGED begun
              /\ revived' = (revived \/ draft.number \in sent)
    /\ UNCHANGED <<draft, row, told, sent, twice, folded>>

Next ==
    \/ \E v \in Variants : Add(v)
    \/ \E l \in Lines, q \in 0..MaxQty :
         SetQuantity(l, q) \/ \E v \in Variants : UpdateLine(l, q, v)
    \/ \E l \in Lines : RemoveLine(l)
    \/ \E o \in Orders : Resume(o)
    \/ Hold \/ Send \/ SaveToTab \/ Pay \/ Render \/ Persist \/ Kill

Spec == Init /\ [][Next]_vars
--------------------------------------------------------------------------------
Quantities == [Lines -> Line \cup {NoLine}]
Source == [kind : {"new", "held", "tab"}, order : Orders \cup {None}, mixed : BOOLEAN]

TypeOK ==
    /\ cart \in Quantities /\ on \in Source
    /\ base \in [Lines -> 0..MaxQty]
    /\ begun \in 1..MaxCarts /\ number \in 1..begun
    /\ draft = NoDraft \/ draft \in [cart : Quantities, on : Source, number : 1..begun]
    /\ row \in [Orders -> {NoOrder} \cup
                 [status : {"held", "open_tab", "paid"}, items : Quantities]]
    /\ told \in [Orders -> [Variants -> Nat]]
    /\ sent \subseteq 1..begun /\ folded \subseteq Orders
    /\ \A b \in {pressed, twice, revived} : b \in BOOLEAN

Placed == {o \in Orders \ Orders0 : row[o].status # "held"}

\* What the register shows on a tab or a paid order is what the server has been told
\* of it, dish by dish, however often it was loaded, added to and saved; unless an
\* edit changed what was already fired, or a sent cart came back from its draft.
RegisterAgrees ==
    ~revived => \A o \in Placed \ folded : Units(row[o].items) = told[o]

\* The cart of a tab never falls below what the kitchen is already cooking.
NeverBelowFired ==
    IsTab /\ ~on.mixed /\ row[on.order] # NoOrder =>
        \A v \in Variants : Units(row[on.order].items)[v] <= Units(cart)[v]

\* A cart is sent or added to its tab once, however many taps land in one frame and
\* whenever the app is killed, unless it had been sent when its draft was restored.
SentOnce == ~revived => ~twice

\* The server is told of everything once and of nothing else: the three together.
ServerIsTold == RegisterAgrees /\ NeverBelowFired /\ SentOnce

\* A paid order is not reopened or written over by a cart resumed from it earlier.
PaidStaysPaid ==
    [][~revived => \A o \in Orders \ Orders0 : row[o].status = "paid" => row'[o] = row[o]]_vars

\* Not kept by the code: the same without exception.
KitchenKnows == \A o \in Placed : Units(row[o].items) = told[o]
================================================================================
