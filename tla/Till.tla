--------------------------------- MODULE Till ---------------------------------
(***************************************************************************)
(* What the order ledger promises a restaurant's accountant, whatever the  *)
(* register, the dashboard or a manager does: an order has a bill (due)    *)
(* and money held against it (net).  Money comes in only against an open   *)
(* balance, goes out only out of what is held, and a bill that is lowered  *)
(* gives back what it no longer covers in the same step.                   *)
(***************************************************************************)
EXTENDS Naturals

CONSTANT Orders

VARIABLES due, net

vars == <<due, net>>

Init ==
    /\ due = [o \in Orders |-> 0]
    /\ net = [o \in Orders |-> 0]

\* Only o's account changes, and it stays an account: a bill and money held.
Touches(o) ==
    /\ due' = [due EXCEPT ![o] = due'[o]]
    /\ net' = [net EXCEPT ![o] = net'[o]]
    /\ due'[o] \in Nat
    /\ net'[o] \in Nat

\* A new bill for o.  What was held beyond it is returned at once.
Bill(o) ==
    /\ Touches(o)
    /\ net'[o] = IF net[o] <= due'[o] THEN net[o] ELSE due'[o]

\* A tender: it may carry a tip, which raises the bill, and it never takes
\* more than the balance.
Receive(o) ==
    /\ Touches(o)
    /\ net'[o] > net[o]
    /\ due'[o] >= due[o]
    /\ net'[o] <= due'[o]

\* A refund: at most what is held, and the bill stands.
GiveBack(o) ==
    /\ Touches(o)
    /\ net'[o] < net[o]
    /\ due'[o] = due[o]

Next == \E o \in Orders : Bill(o) \/ Receive(o) \/ GiveBack(o)

Spec == Init /\ [][Next]_vars

(***************************************************************************)
(* The till never owes and never overcharges: the money held against an    *)
(* order lies between nothing and its bill.                                *)
(***************************************************************************)
Solvent == \A o \in Orders : net[o] \in 0..due[o]
===============================================================================
