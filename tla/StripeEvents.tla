------------------------------ MODULE StripeEvents ------------------------------
(***************************************************************************)
(* The subscriptions rows of one organization as Stripe's webhooks keep    *)
(* them: StripeWebhookService, behind one webhook_events row per event.    *)
(* Stripe and the checkout sessions BillingService opens are the           *)
(* environment: it sells, changes and ends subscriptions, numbers its      *)
(* events, and delivers each in any order, again until the answer is OK.   *)
(* Provisioning gives every location of the organization a row.            *)
(***************************************************************************)
EXTENDS Sequences, FiniteSets, Naturals

CONSTANTS
    Subs,       \* Stripe subscriptions the organization can buy
    Plans,      \* paid plans
    Rows,       \* subscriptions row ids
    None,       \* the stripe ids of a row no checkout has reached
    MaxEvents,  \* bound: events Stripe sends
    Faults      \* what goes wrong: "throw", "die"

VARIABLES
    stripe,   \* per subscription: NoSub, or what Stripe knows of it
    sent,     \* the events Stripe has sent; an event is its number
    answered, \* the events answered with OK
    hook,     \* webhook_events: "none", "processing", "completed", "failed"
    handler,  \* per event: Idle, or the next step and what it has read
    row,      \* subscriptions, per id: NoRow or a row
    had,      \* history: per subscription, the plans it has been on
    late      \* history: an event was handled before an earlier one was done

vars == <<stripe, sent, answered, hook, handler, row, had, late>>
--------------------------------------------------------------------------------
NoSub == [sub |-> "none"]
NoRow == [row |-> "none"]
Idle  == [step |-> "idle"]

Numbers  == 1..MaxEvents
Sent     == 1..Len(sent)
Data     == [status : {"active", "past_due", "canceled"}, plan : Plans \cup {"free"}]
Free     == [status |-> "active", plan |-> "free"]
Ended    == [status |-> "canceled", plan |-> "free"]

Live      == {i \in Rows : row[i] # NoRow}
BySub(s)  == {i \in Live : row[i].sub = s}
ByCust(c) == {i \in Live : row[i].cust = c}

\* The rows of set get these columns; unless two rows would share a subscription.
Unique(set, s) == Cardinality(set) <= 1 /\ BySub(s) \subseteq set
Update(set, s, c, d) ==
    row' = [i \in Rows |-> IF i \in set THEN [sub |-> s, cust |-> c, data |-> d] ELSE row[i]]

Init ==
    /\ stripe = [s \in Subs |-> NoSub]
    /\ sent = <<>> /\ answered = {}
    /\ hook = [n \in Numbers |-> "none"]
    /\ handler = [n \in Numbers |-> Idle]
    /\ row \in [Rows -> {NoRow, [sub |-> None, cust |-> None, data |-> Free]}]
    /\ had = [s \in Subs |-> {}]
    /\ late = FALSE
--------------------------------------------------------------------------------
\* Stripe gives subscription s this state and tells of it.
Tell(kind, s, c, d) ==
    /\ Len(sent) < MaxEvents
    /\ stripe' = [stripe EXCEPT ![s] = [cust |-> c, data |-> d]]
    /\ sent' = Append(sent, [kind |-> kind, sub |-> s, cust |-> c, data |-> d])
    /\ had' = [had EXCEPT ![s] = @ \cup {d.plan}]
    /\ UNCHANGED <<answered, hook, handler, row, late>>

\* createCheckoutSession names the customer of the organization when it has one.
Buy(s) ==
    /\ stripe[s] = NoSub
    /\ \E p \in Plans, c \in {s} \cup ({row[i].cust : i \in Live} \ {None}) :
         Tell("checkout", s, c, [status |-> "active", plan |-> p])

Change(s) ==
    /\ stripe[s] # NoSub /\ stripe[s].data.status # "canceled"
    /\ \E st \in {"active", "past_due"}, p \in Plans :
         /\ [status |-> st, plan |-> p] # stripe[s].data
         /\ Tell("updated", s, stripe[s].cust, [status |-> st, plan |-> p])

End(s) ==
    /\ stripe[s] # NoSub /\ stripe[s].data.status # "canceled"
    /\ Tell("deleted", s, stripe[s].cust, [stripe[s].data EXCEPT !.status = "canceled"])

\* registerLocation inserts a free row of its own.
AddLocation(i) ==
    /\ row[i] = NoRow
    /\ row' = [row EXCEPT ![i] = [sub |-> None, cust |-> None, data |-> Free]]
    /\ UNCHANGED <<stripe, sent, answered, hook, handler, had, late>>
--------------------------------------------------------------------------------
Step(n, s) == handler[n].step = s
Goto(n, s) == handler' = [handler EXCEPT ![n].step = s]
FirstStep == [checkout |-> "retrieve", updated |-> "find", deleted |-> "write"]

\* handleEvent claims the event; a claimed one is answered OK as a duplicate.
Claim(n) ==
    /\ n \in Sent \ answered /\ hook[n] = "none"
    /\ hook' = [hook EXCEPT ![n] = "processing"]
    /\ handler' = [handler EXCEPT ![n] =
                     [step |-> FirstStep[sent[n].kind], data |-> sent[n].data, key |-> "sub"]]
    /\ late' = (late \/ \E m \in Sent : \/ m < n /\ hook[m] # "completed"
                                        \/ m > n /\ hook[m] # "none")
    /\ UNCHANGED <<stripe, sent, answered, row, had>>

Duplicate(n) ==
    /\ n \in Sent \ answered /\ hook[n] # "none"
    /\ answered' = answered \cup {n}
    /\ UNCHANGED <<stripe, sent, hook, handler, row, had, late>>

\* handleCheckoutSessionCompleted: the subscription as Stripe has it now, then
\* whether the organization has a row.
Retrieve(n) ==
    /\ Step(n, "retrieve")
    /\ handler' = [handler EXCEPT ![n].step = "find", ![n].data = stripe[sent[n].sub].data]
    /\ UNCHANGED <<stripe, sent, answered, hook, row, had, late>>

FindOrg(n) ==
    /\ Step(n, "find") /\ sent[n].kind = "checkout"
    /\ handler' = [handler EXCEPT ![n].step = "write",
                                  ![n].key = IF Live = {} THEN "none" ELSE "org"]
    /\ UNCHANGED <<stripe, sent, answered, hook, row, had, late>>

\* handleSubscriptionUpdated: by subscription, else by customer, else not at all.
FindRow(n) ==
    /\ Step(n, "find") /\ sent[n].kind = "updated"
    /\ LET key == IF BySub(sent[n].sub) # {} THEN "sub"
                  ELSE IF ByCust(sent[n].cust) # {} THEN "cust" ELSE "none" IN
       handler' = [handler EXCEPT ![n].step = IF key = "none" THEN "done" ELSE "write",
                                  ![n].key = key]
    /\ UNCHANGED <<stripe, sent, answered, hook, row, had, late>>

\* The update of every row of the organization, or the insert of its first.
WriteCheckout(n) ==
    LET s == sent[n].sub c == sent[n].cust IN
    /\ Step(n, "write") /\ sent[n].kind = "checkout"
    /\ \/ handler[n].key = "org" /\ Unique(Live, s) /\ Update(Live, s, c, handler[n].data)
       \/ /\ handler[n].key = "none" /\ BySub(s) = {}
          /\ \E i \in Rows \ Live : Update({i}, s, c, handler[n].data)
    /\ Goto(n, "done")
    /\ UNCHANGED <<stripe, sent, answered, hook, had, late>>

WriteUpdated(n) ==
    LET s == sent[n].sub d == handler[n].data IN
    /\ Step(n, "write") /\ sent[n].kind = "updated"
    /\ \/ /\ handler[n].key = "sub"
          /\ row' = [i \in Rows |-> IF i \in BySub(s) THEN [row[i] EXCEPT !.data = d] ELSE row[i]]
       \/ /\ handler[n].key = "cust" /\ Unique(ByCust(sent[n].cust), s)
          /\ Update(ByCust(sent[n].cust), s, sent[n].cust, d)
    /\ Goto(n, "done")
    /\ UNCHANGED <<stripe, sent, answered, hook, had, late>>

\* Mutant: the end of one subscription ends all of the customer.
WriteDeletedByCust(n) ==
    /\ Step(n, "write") /\ sent[n].kind = "deleted"
    /\ row' = [i \in Rows |->
                 IF i \in ByCust(sent[n].cust) THEN [row[i] EXCEPT !.data = Ended] ELSE row[i]]
    /\ Goto(n, "done")
    /\ UNCHANGED <<stripe, sent, answered, hook, had, late>>

\* handleSubscriptionDeleted.
WriteDeleted(n) ==
    /\ Step(n, "write") /\ sent[n].kind = "deleted"
    /\ row' = [i \in Rows |->
                 IF i \in BySub(sent[n].sub) THEN [row[i] EXCEPT !.data = Ended] ELSE row[i]]
    /\ Goto(n, "done")
    /\ UNCHANGED <<stripe, sent, answered, hook, had, late>>

Finish(n) ==
    /\ Step(n, "done")
    /\ hook' = [hook EXCEPT ![n] = "completed"]
    /\ answered' = answered \cup {n}
    /\ handler' = [handler EXCEPT ![n] = Idle]
    /\ UNCHANGED <<stripe, sent, row, had, late>>

\* A write that would break the unique index, or Stripe or the database failing:
\* the event is marked failed and the answer is an error.
Conflict(n) ==
    /\ Step(n, "write")
    /\ \/ handler[n].key = "org" /\ ~Unique(Live, sent[n].sub)
       \/ handler[n].key = "none" /\ BySub(sent[n].sub) # {}
       \/ handler[n].key = "cust" /\ ~Unique(ByCust(sent[n].cust), sent[n].sub)

Fail(n) ==
    /\ handler[n] # Idle
    /\ "throw" \in Faults \/ Conflict(n)
    /\ hook' = [hook EXCEPT ![n] = "failed"]
    /\ handler' = [handler EXCEPT ![n] = Idle]
    /\ UNCHANGED <<stripe, sent, answered, row, had, late>>

Die(n) ==
    /\ "die" \in Faults
    /\ handler[n] # Idle
    /\ handler' = [handler EXCEPT ![n] = Idle]
    /\ UNCHANGED <<stripe, sent, answered, hook, row, had, late>>

Handle(n) ==
    \/ Claim(n) \/ Duplicate(n) \/ Retrieve(n) \/ FindOrg(n) \/ FindRow(n)
    \/ WriteCheckout(n) \/ WriteUpdated(n) \/ WriteDeleted(n) \/ Finish(n) \/ Fail(n) \/ Die(n)

Next ==
    \/ \E s \in Subs : Buy(s) \/ Change(s) \/ End(s)
    \/ \E i \in Rows : AddLocation(i)
    \/ \E n \in Numbers : Handle(n)

Spec == Init /\ [][Next]_vars
--------------------------------------------------------------------------------
TypeOK ==
    /\ \A s \in Subs : stripe[s] = NoSub \/ stripe[s] \in [cust : Subs, data : Data]
    /\ Len(sent) <= MaxEvents /\ answered \subseteq Sent
    /\ hook \in [Numbers -> {"none", "processing", "completed", "failed"}]
    /\ handler \in [Numbers -> {Idle} \cup
                      [step : {"retrieve", "find", "write", "done"}, data : Data,
                       key : {"sub", "cust", "org", "none"}]]
    /\ row \in [Rows -> {NoRow} \cup
                  [sub : Subs \cup {None}, cust : Subs \cup {None}, data : Data]]
    /\ had \in [Subs -> SUBSET Plans]

Linked == {i \in Live : row[i].sub # None}

\* A tenant is shown as cancelled only when Stripe has ended the subscription its
\* row names, whatever is lost, failed, repeated or overtaken on the way.
NeverCutOff ==
    \A i \in Linked :
        row[i].data.status = "canceled" => stripe[row[i].sub].data.status = "canceled"

\* A tenant is served a paid plan only if the subscription of its row was on it.
PlanIsBought ==
    \A i \in Live : row[i].data.plan # "free" =>
        i \in Linked /\ row[i].data.plan \in had[row[i].sub]

\* Events handled one by one, in order and without failure leave the row equal to
\* what Stripe holds for its subscription.
InOrderMirrors ==
    (~late /\ \A n \in Sent : hook[n] = "completed") =>
        \A i \in Linked :
            LET truth == stripe[row[i].sub].data IN
            row[i].data = IF truth.status = "canceled" THEN Ended ELSE truth

\* The plan of a tenant follows Stripe: the three together.
PlanFollowsStripe == NeverCutOff /\ PlanIsBought /\ InOrderMirrors

\* Not kept by the code: what is answered OK was processed ("Webhook processed
\* successfully"); with every event handled in order, a subscription that is paid
\* is served; and every row of the organization agrees on its plan.
AnsweredIsProcessed == \A n \in answered : hook[n] \in {"processing", "completed"}
PaidIsServed ==
    (~late /\ \A n \in Sent : hook[n] = "completed") =>
        ((\E s \in Subs : stripe[s] # NoSub /\ stripe[s].data.status = "active") =>
            \A i \in Live : row[i].data.status = "active" /\ row[i].data.plan # "free")
================================================================================
