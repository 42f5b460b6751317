------------------------------- MODULE BackendMC -------------------------------
(***************************************************************************)
(* The parts of the back end behind webhooks and buttons, for TLC: voice   *)
(* orders, marketplace import, Stripe events, refund keys, course firing.  *)
(* They share no state here, so a behaviour is one of the first, or one of *)
(* the second, and so on, while the others stand still.                    *)
(***************************************************************************)
EXTENDS Naturals, TLC

CONSTANTS
    Faults, None, MaxAttempts, MaxStalls,
    Calls, CallKeys,                            \* of the voice orders
    Events, Clerks, MaxMoves,                   \* of the marketplace
    Subs, Plans, Rows, MaxEvents,               \* of Stripe
    Requests, Keys, Stores,                     \* of the refunds
    Items, Servings, FirstServing,              \* of the courses
    Handlers, Taps, MaxPrints

VARIABLES
    part,  \* the component that runs in this behaviour
    vo_key, vo_http, vo_event, vo_job, vo_tries, vo_marks, vo_orders,
    vo_spoiled,
    mi_market, mi_auto, mi_kind, mi_hook, mi_ingest, mi_job, mi_tries, mi_to,
    mi_ext, mi_native, mi_clerk, mi_moves, mi_dropped, mi_stranded,
    mi_overlap, mi_clobbered,
    se_stripe, se_sent, se_answered, se_hook, se_handler, se_row, se_had,
    se_late,
    rk_store, rk_slot, rk_stage, rk_key, rk_refunds, rk_spoiled,
    cf_status, cf_item, cf_claims, cf_req, cf_printed, cf_tickets,
    cf_stamped, cf_reopened, cf_lost

VoiceVars == <<vo_key, vo_http, vo_event, vo_job, vo_tries, vo_marks,
               vo_orders, vo_spoiled>>
MarketVars == <<mi_market, mi_auto, mi_kind, mi_hook, mi_ingest, mi_job,
                mi_tries, mi_to, mi_ext, mi_native, mi_clerk, mi_moves,
                mi_dropped, mi_stranded, mi_overlap, mi_clobbered>>
StripeVars == <<se_stripe, se_sent, se_answered, se_hook, se_handler, se_row,
                se_had, se_late>>
RefundsVars == <<rk_store, rk_slot, rk_stage, rk_key, rk_refunds, rk_spoiled>>
CoursesVars == <<cf_status, cf_item, cf_claims, cf_req, cf_printed,
                 cf_tickets, cf_stamped, cf_reopened, cf_lost>>

Voice == INSTANCE VoiceOrders WITH
    key <- vo_key, http <- vo_http, event <- vo_event, job <- vo_job,
    tries <- vo_tries, marks <- vo_marks, orders <- vo_orders,
    spoiled <- vo_spoiled, Requests <- Calls, Keys <- CallKeys,
    NoKey <- None

Market == INSTANCE MarketplaceImport WITH
    market <- mi_market, auto <- mi_auto, kind <- mi_kind, hook <- mi_hook,
    ingest <- mi_ingest, job <- mi_job, tries <- mi_tries, to <- mi_to,
    ext <- mi_ext, native <- mi_native, clerk <- mi_clerk, moves <- mi_moves,
    dropped <- mi_dropped, stranded <- mi_stranded, overlap <- mi_overlap,
    clobbered <- mi_clobbered

Stripe == INSTANCE StripeEvents WITH
    stripe <- se_stripe, sent <- se_sent, answered <- se_answered,
    hook <- se_hook, handler <- se_handler, row <- se_row, had <- se_had,
    late <- se_late

Refunds == INSTANCE RefundKeys WITH
    store <- rk_store, slot <- rk_slot, stage <- rk_stage, key <- rk_key,
    refunds <- rk_refunds, spoiled <- rk_spoiled

Courses == INSTANCE CourseFire WITH
    status <- cf_status, item <- cf_item, claims <- cf_claims, req <- cf_req,
    printed <- cf_printed, tickets <- cf_tickets, stamped <- cf_stamped,
    reopened <- cf_reopened, lost <- cf_lost, Lines <- Items,
    Courses <- Servings, FirstCourse <- FirstServing, NoTap <- None

\* Mutation ids are strings, and there is a first course.
CourseBounds == None \notin Taps /\ FirstServing \in Servings
ASSUME CourseAssumption == CourseBounds

\* A key is the value of a header, and a job has at least one attempt.
VoiceBounds ==
    None \notin CallKeys /\ MaxAttempts \in Nat \ {0} /\ MaxStalls \in Nat
ASSUME VoiceAssumption == VoiceBounds

\* None is no subscription.
StripeBounds == None \notin Subs /\ MaxEvents \in Nat
ASSUME StripeAssumption == StripeBounds

\* A job has at least one attempt, and the staff's requests are counted.
MarketBounds == MaxAttempts \in Nat \ {0} /\ MaxStalls \in Nat /\ MaxMoves \in Nat
ASSUME MarketAssumption == MarketBounds

Runs(p) == part = p

Init ==
    /\ part \in {"voice", "market", "stripe", "refunds", "courses"}
    /\ Voice!Init
    /\ Market!Init
    /\ Stripe!Init
    /\ Refunds!Init
    /\ Courses!Init
    /\ ~Runs("voice") =>
        /\ vo_key = [r \in Calls |-> None]
    /\ ~Runs("market") =>
        /\ mi_auto = FALSE
    /\ ~Runs("stripe") =>
        /\ se_row = [i \in Rows |-> Stripe!NoRow]
    /\ ~Runs("refunds") =>
        /\ rk_store = CHOOSE s \in Stores : TRUE

VoiceNext ==
    /\ Runs("voice") /\ Voice!Next
    /\ UNCHANGED <<part, MarketVars, StripeVars, RefundsVars, CoursesVars>>
MarketNext ==
    /\ Runs("market") /\ Market!Next
    /\ UNCHANGED <<part, VoiceVars, StripeVars, RefundsVars, CoursesVars>>
StripeNext ==
    /\ Runs("stripe") /\ Stripe!Next
    /\ UNCHANGED <<part, VoiceVars, MarketVars, RefundsVars, CoursesVars>>
RefundsNext ==
    /\ Runs("refunds") /\ Refunds!Next
    /\ UNCHANGED <<part, VoiceVars, MarketVars, StripeVars, CoursesVars>>
CoursesNext ==
    /\ Runs("courses") /\ Courses!Next
    /\ UNCHANGED <<part, VoiceVars, MarketVars, StripeVars, RefundsVars>>

Next == VoiceNext \/ MarketNext \/ StripeNext \/ RefundsNext \/ CoursesNext

vars == <<part, VoiceVars, MarketVars, StripeVars, RefundsVars, CoursesVars>>

Spec == Init /\ [][Next]_vars

Alike == Permutations(Calls) \cup Permutations(Plans)
--------------------------------------------------------------------------------
\* The properties of the parts, under the names they have in their modules.
TypeOK ==
    /\ Runs("voice") => Voice!TypeOK
    /\ Runs("market") => Market!TypeOK
    /\ Runs("stripe") => Stripe!TypeOK
    /\ Runs("refunds") => Refunds!TypeOK
    /\ Runs("courses") => Courses!TypeOK

CallsBecomeOrders == Runs("voice") => Voice!CallsBecomeOrders
RegisterHears == Runs("market") => Market!RegisterHears
PlanFollowsStripe == Runs("stripe") => Stripe!PlanFollowsStripe
KeyIsHonoured == Runs("refunds") => Refunds!KeyIsHonoured
FiresAreKept == Courses!FiresAreKept
================================================================================
