------------------------------- MODULE OrderBook -------------------------------
(***************************************************************************)
(* What creating an order promises its clients: a request that carries a   *)
(* client order id creates at most one order however often it is sent, the *)
(* order keeps the ticket number it was given, and no two orders of a      *)
(* location share a number.                                                *)
(***************************************************************************)
EXTENDS Naturals

CONSTANTS
    Attempts,   \* the requests, one per transmission
    Blank,      \* an attempt that has booked no order
    NoKey,      \* an order booked without a client order id
    NoLocation  \* an order booked without a location, and so without a number

VARIABLE book  \* per attempt: Blank, or the order it booked

Init == book = [a \in Attempts |-> Blank]

Booked == {a \in Attempts : book[a] # Blank}

\* An attempt books an order if no attempt with its key has, under a number
\* above every number of its location.
Book(a) ==
    /\ book[a] = Blank
    /\ book' = [book EXCEPT ![a] = book'[a]]
    /\ book'[a] # Blank
    /\ \A b \in Booked :
         /\ book'[a].key # NoKey => book'[a].key # book[b].key
         /\ book'[a].loc # NoLocation /\ book'[a].loc = book[b].loc
              => book'[a].number > book[b].number

Next == \E a \in Attempts : Book(a)

Spec == Init /\ [][Next]_book
================================================================================
