------------------------------- MODULE RefundKeys -------------------------------
(***************************************************************************)
(* The Idempotency-Key of a partial refund: withIdempotency                *)
(* (order-payment.service.ts) over IdempotencyService's records in the     *)
(* cache.  Every await of the code is a step of its own.                   *)
(*                                                                         *)
(* begin reserves a key with SET NX when the cache exposes a raw Redis     *)
(* client, and with a read followed by a write when it does not (store is  *)
(* "managed"; the cache-manager version of package.json is of that kind).  *)
(***************************************************************************)
EXTENDS Naturals

CONSTANTS
    Requests,  \* HTTP requests, one per transmission
    Keys,      \* values of the Idempotency-Key header
    Stores,    \* the kinds of cache there are: "raw", "managed"
    Faults     \* what goes wrong: "cache", "die", "expire", "refuse"

VARIABLES
    store,   \* the kind of cache this backend runs on
    slot,    \* per key: the cache entry, "empty", "inflight" or "completed"
    stage,   \* per request: the next step of its handler, or how it ended
    key,     \* per request: its key
    refunds, \* per key: refund transactions committed
    spoiled  \* history: per key, what has gone wrong with it so far

vars == <<store, slot, stage, key, refunds, spoiled>>
--------------------------------------------------------------------------------
Working == {"replay", "begin", "claim", "fn", "complete", "drop"}
Ended   == {"ok", "conflict", "error", "dead"}

\* A request that has reserved its key and not yet settled the reservation.
Holds(r, k) == key[r] = k /\ stage[r] \in {"fn", "complete", "drop"}

Goto(r, s) == stage' = [stage EXCEPT ![r] = s]
Put(r, v)  == slot' = [slot EXCEPT ![key[r]] = v]
Spoil(k, s) == spoiled' = [spoiled EXCEPT ![k] = @ \cup s]

Init ==
    /\ store \in Stores
    /\ slot = [k \in Keys |-> "empty"]
    /\ stage = [r \in Requests |-> "new"]
    /\ key \in [Requests -> Keys]
    /\ refunds = [k \in Keys |-> 0]
    /\ spoiled = [k \in Keys |-> {}]
--------------------------------------------------------------------------------
Send(r) ==
    /\ stage[r] = "new"
    /\ Goto(r, "replay")
    /\ UNCHANGED <<store, slot, key, refunds, spoiled>>

\* replay: a completed record is the answer.
Replay(r) ==
    /\ stage[r] = "replay"
    /\ Goto(r, IF slot[key[r]] = "completed" THEN "ok" ELSE "begin")
    /\ UNCHANGED <<store, slot, key, refunds, spoiled>>

\* begin with SET NX.
Begin(r) ==
    /\ stage[r] = "begin" /\ store = "raw"
    /\ IF slot[key[r]] = "empty"
         THEN Put(r, "inflight") /\ Goto(r, "fn")
         ELSE Goto(r, "conflict") /\ UNCHANGED slot
    /\ UNCHANGED <<store, key, refunds, spoiled>>

\* begin without it: cache.get, then cache.set of the reservation.
BeginRead(r) ==
    /\ stage[r] = "begin" /\ store = "managed"
    /\ Goto(r, IF slot[key[r]] = "empty" THEN "claim" ELSE "conflict")
    /\ UNCHANGED <<store, slot, key, refunds, spoiled>>

BeginWrite(r) ==
    /\ stage[r] = "claim"
    /\ Put(r, "inflight") /\ Goto(r, "fn")
    /\ Spoil(key[r], IF slot[key[r]] = "empty" THEN {} ELSE {"raced"})
    /\ UNCHANGED <<store, key, refunds>>

\* fn: the refund transaction commits, or the refund is refused.
Refund(r) ==
    /\ stage[r] = "fn"
    /\ refunds' = [refunds EXCEPT ![key[r]] = @ + 1]
    /\ Goto(r, "complete")
    /\ UNCHANGED <<store, slot, key, spoiled>>

Refused(r) ==
    /\ "refuse" \in Faults
    /\ stage[r] = "fn"
    /\ Goto(r, "drop")
    /\ UNCHANGED <<store, slot, key, refunds, spoiled>>

\* Mutant: the reservation is cleared when the refund is done.
CompleteClears(r) ==
    /\ stage[r] = "complete"
    /\ Put(r, "empty") /\ Goto(r, "ok")
    /\ UNCHANGED <<store, key, refunds, spoiled>>

Complete(r) ==
    /\ stage[r] = "complete"
    /\ Put(r, "completed") /\ Goto(r, "ok")
    /\ UNCHANGED <<store, key, refunds, spoiled>>

\* The catch block drops the reservation and rethrows.
Drop(r) ==
    /\ stage[r] = "drop"
    /\ Put(r, "empty") /\ Goto(r, "error")
    /\ Spoil(key[r], IF slot[key[r]] = "completed" THEN {"erased"} ELSE {})
    /\ UNCHANGED <<store, key, refunds>>

\* A call to the cache throws.  Inside the try that leads to the catch block, in
\* it or before it straight to the client.
CacheFails(r) ==
    /\ "cache" \in Faults
    /\ stage[r] \in {"replay", "begin", "claim", "complete", "drop"}
    /\ Goto(r, IF stage[r] = "complete" THEN "drop" ELSE "error")
    /\ Spoil(key[r], IF stage[r] = "complete" THEN {"unrecorded"}
                     ELSE IF stage[r] = "drop" THEN {"orphaned"} ELSE {})
    /\ UNCHANGED <<store, slot, key, refunds>>

Die(r) ==
    /\ "die" \in Faults
    /\ stage[r] \in Working
    /\ Goto(r, "dead")
    /\ Spoil(key[r], IF stage[r] \in {"fn", "complete", "drop"} THEN {"orphaned"} ELSE {})
    /\ UNCHANGED <<store, slot, key, refunds>>

\* TTL_SECONDS after it was written the entry is gone.
Expire(k) ==
    /\ "expire" \in Faults
    /\ slot[k] # "empty"
    /\ slot' = [slot EXCEPT ![k] = "empty"]
    /\ Spoil(k, {"expired"})
    /\ UNCHANGED <<store, stage, key, refunds>>

Next ==
    \/ \E r \in Requests :
         \/ Send(r) \/ Replay(r) \/ Begin(r) \/ BeginRead(r) \/ BeginWrite(r)
         \/ Refund(r) \/ Refused(r) \/ Complete(r) \/ Drop(r)
         \/ CacheFails(r) \/ Die(r)
    \/ \E k \in Keys : Expire(k)

Spec == Init /\ [][Next]_vars
--------------------------------------------------------------------------------
TypeOK ==
    /\ store \in Stores
    /\ slot \in [Keys -> {"empty", "inflight", "completed"}]
    /\ stage \in [Requests -> {"new"} \cup Working \cup Ended]
    /\ key \in [Requests -> Keys]
    /\ refunds \in [Keys -> Nat]
    /\ spoiled \in [Keys -> SUBSET {"raced", "erased", "unrecorded", "orphaned", "expired"}]

\* However often a refund is retried under its key, and however the transmissions
\* overlap, the money goes back once, unless two of them won the unguarded
\* reservation, the record of the answer could not be kept, or it expired.
RefundedOnce ==
    \A k \in Keys :
        spoiled[k] \cap {"raced", "unrecorded", "expired"} = {} => refunds[k] <= 1

\* With SET NX there are no two winners: a key is held by one request at a time,
\* and no request erases the record of another.
OneHolder ==
    store = "raw" =>
        \A k \in Keys : "expired" \notin spoiled[k] =>
            /\ \A r, q \in Requests : Holds(r, k) /\ Holds(q, k) => r = q
            /\ "erased" \notin spoiled[k]

\* A client is told of success only if its refund was made, and a completed record
\* speaks of one.
SuccessIsReal ==
    /\ \A r \in Requests : stage[r] = "ok" => refunds[key[r]] >= 1
    /\ \A k \in Keys : slot[k] = "completed" => refunds[k] >= 1

\* A failed refund does not lock its key out for a day: a reservation has a holder
\* that will settle it, unless a holder died or could not drop it.
ReservationIsHeld ==
    \A k \in Keys :
        slot[k] = "inflight" =>
            "orphaned" \in spoiled[k] \/ \E r \in Requests : Holds(r, k)

\* The promise of the key: the four together.
KeyIsHonoured == RefundedOnce /\ OneHolder /\ SuccessIsReal /\ ReservationIsHeld
================================================================================
