------------------------------- MODULE GuestBill -------------------------------
(***************************************************************************)
(* What the register's outbox promises a guest, whatever the network does: *)
(* an order is rung in line by line until it is paid (rung), and the       *)
(* server's account of it (billed) follows.  It never has a line that was  *)
(* not rung in, never loses one it has, and is closed once, when the guest *)
(* has paid and every line of the order is on it.                          *)
(***************************************************************************)
CONSTANTS
    Orders, Lines,
    None  \* an order that is not there

VARIABLES
    rung,   \* per order, on the register: None, or its lines and whether it is paid
    billed  \* per order, on the server: the same

Account == [lines : SUBSET Lines, paid : BOOLEAN]

Init ==
    /\ rung = [o \in Orders |-> None]
    /\ billed = [o \in Orders |-> None]

\* An account is kept as it is or grows from before to after, and a paid one is closed.
Goes(before, after) ==
    /\ after \in Account
    /\ before # None => ~before.paid /\ before.lines \subseteq after.lines

\* The staff rings in an order, more of it, or its payment.
Ring(o) ==
    /\ rung' = [rung EXCEPT ![o] = rung'[o]]
    /\ Goes(rung[o], rung'[o])
    /\ UNCHANGED billed

\* The server hears more of an order: of its payment, only with all its lines.
Hear(o) ==
    /\ billed' = [billed EXCEPT ![o] = billed'[o]]
    /\ Goes(billed[o], billed'[o])
    /\ rung[o] \in Account
    /\ billed'[o].lines \subseteq rung[o].lines
    /\ billed'[o].paid => billed'[o] = rung[o]
    /\ UNCHANGED rung

Next == \E o \in Orders : Ring(o) \/ Hear(o)

Spec == Init /\ [][Next]_<<rung, billed>>
================================================================================
