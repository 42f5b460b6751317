------------------------------- MODULE WorkersMC -------------------------------
(***************************************************************************)
(* The workers that go through a network, a broker or a vendor, for TLC:   *)
(* the register's sync engine, and the back end's tenant provisioning,     *)
(* menu publishing and import of recordings.                               *)
(* They share no state here, so a behaviour is one of the first, or one of *)
(* the second, and so on, while the others stand still.                    *)
(***************************************************************************)
EXTENDS Naturals, FiniteSets, TLC

CONSTANTS
    Faults, None, MaxAttempts, MaxStalls, MaxMishaps, MaxAsked,
    Sales, Items, Taps, Refusable,                           \* of the sync engine
    SetupJobs, FirstJob, SetupAttempts, MaxDemands,          \* of the tenant
    Editors, Guests, MaxEdits, MaxClock,                     \* of the menu
    Syncs, Slots, Workers, MaxSyncs, MaxDeletes, MaxDeaths   \* of the calls

VARIABLES
    part,  \* the component that runs in this behaviour
    ps_local, ps_outbox, ps_parked, ps_screen, ps_engine, ps_flight,
    ps_strays, ps_server, ps_claims,
    pv_reuse, pv_org, pv_loc, pv_step, pv_job, pv_run, pv_ask, pv_demands,
    pv_vendor, pv_invited, pv_skipped, pv_mishaps, pv_loose,
    mp_menu, mp_clock, mp_stamp, mp_stamped, mp_clears, mp_cache, mp_due,
    mp_edit, mp_import, mp_read, mp_job, mp_asked, mp_mishaps, mp_bucket,
    mp_agent, mp_dropped,
    rc_row, rc_object, rc_threads, rc_task, rc_event, rc_sync, rc_sweep,
    rc_owing, rc_billed, rc_lifted, rc_born, rc_bounds

SyncVars == <<ps_local, ps_outbox, ps_parked, ps_screen, ps_engine,
              ps_flight, ps_strays, ps_server, ps_claims>>
TenantVars == <<pv_reuse, pv_org, pv_loc, pv_step, pv_job, pv_run, pv_ask,
                pv_demands, pv_vendor, pv_invited, pv_skipped, pv_mishaps,
                pv_loose>>
MenuVars == <<mp_menu, mp_clock, mp_stamp, mp_stamped, mp_clears, mp_cache,
              mp_due, mp_edit, mp_import, mp_read, mp_job, mp_asked,
              mp_mishaps, mp_bucket, mp_agent, mp_dropped>>
CallVars == <<rc_row, rc_object, rc_threads, rc_task, rc_event, rc_sync,
              rc_sweep, rc_owing, rc_billed, rc_lifted, rc_born, rc_bounds>>

Sync == INSTANCE PosSync WITH
    local <- ps_local, outbox <- ps_outbox, parked <- ps_parked,
    screen <- ps_screen, engine <- ps_engine, flight <- ps_flight,
    strays <- ps_strays, server <- ps_server, claims <- ps_claims,
    NoOrder <- None, Orders <- Sales

Tenant == INSTANCE Provisioning WITH
    reuse <- pv_reuse, org <- pv_org, loc <- pv_loc, step <- pv_step,
    job <- pv_job, run <- pv_run, ask <- pv_ask, demands <- pv_demands,
    vendor <- pv_vendor, invited <- pv_invited, skipped <- pv_skipped,
    mishaps <- pv_mishaps, loose <- pv_loose, Jobs <- SetupJobs,
    MaxAttempts <- SetupAttempts

Menu == INSTANCE MenuPublish WITH
    menu <- mp_menu, clock <- mp_clock, stamp <- mp_stamp,
    stamped <- mp_stamped, clears <- mp_clears, cache <- mp_cache,
    due <- mp_due, edit <- mp_edit, import <- mp_import, read <- mp_read,
    job <- mp_job, asked <- mp_asked, mishaps <- mp_mishaps,
    bucket <- mp_bucket, agent <- mp_agent, dropped <- mp_dropped

Call == INSTANCE Recordings WITH
    row <- rc_row, object <- rc_object, threads <- rc_threads,
    task <- rc_task, event <- rc_event, sync <- rc_sync, sweep <- rc_sweep,
    owing <- rc_owing, billed <- rc_billed, lifted <- rc_lifted,
    born <- rc_born, bounds <- rc_bounds

\* The clock of the menu's stamps starts at 1, a job has an attempt, and the publishers
\* are not guests.
MenuBounds ==
    /\ MaxClock \in Nat \ {0} /\ MaxAttempts \in Nat \ {0}
    /\ {MaxEdits, MaxAsked, MaxMishaps, MaxStalls} \subseteq Nat
    /\ Guests \cap Menu!Publishers = {}
ASSUME MenuAssumption == MenuBounds

\* None is no row, request or order of the server, and no sale.
SyncBounds ==
    /\ None \notin Sync!Row \cup Sync!Request \cup Sync!ServerOrder
    /\ None \notin Sales
ASSUME SyncAssumption == SyncBounds

\* None is no recordings row and no job, and the queue is finite.
CallBounds ==
    /\ MaxAttempts \in Nat \ {0}
    /\ None \notin Call!Row \cup Call!Task
    /\ IsFiniteSet(Slots)
ASSUME CallAssumption == CallBounds

\* The job that is there from the start is one of the queue's, of which there are
\* finitely many; a job has an attempt; stalls, requests and mishaps are counted.
TenantBounds ==
    /\ FirstJob \in SetupJobs /\ IsFiniteSet(SetupJobs)
    /\ SetupAttempts \in Nat \ {0}
    /\ {MaxStalls, MaxDemands, MaxMishaps} \subseteq Nat
ASSUME TenantAssumption == TenantBounds

Runs(p) == part = p

Init ==
    /\ part \in {"sync", "tenant", "menu", "call"}
    /\ Sync!Init
    /\ Tenant!Init
    /\ Menu!Init
    /\ Call!Init
    /\ ~Runs("tenant") => ~pv_reuse /\ pv_job[FirstJob].state = "waiting"

SyncNext ==
    /\ Runs("sync") /\ Sync!Next
    /\ UNCHANGED <<part, TenantVars, MenuVars, CallVars>>
TenantNext ==
    /\ Runs("tenant") /\ Tenant!Next
    /\ UNCHANGED <<part, SyncVars, MenuVars, CallVars>>
MenuNext ==
    /\ Runs("menu") /\ Menu!Next
    /\ UNCHANGED <<part, SyncVars, TenantVars, CallVars>>
CallNext ==
    /\ Runs("call") /\ Call!Next
    /\ UNCHANGED <<part, SyncVars, TenantVars, MenuVars>>

Next == SyncNext \/ TenantNext \/ MenuNext \/ CallNext

vars == <<part, SyncVars, TenantVars, MenuVars, CallVars>>

Spec == Init /\ [][Next]_vars

Alike == Permutations(Items)
--------------------------------------------------------------------------------
\* The properties of the parts, under the names they have in their modules.
TypeOK ==
    /\ Runs("sync") => Sync!TypeOK
    /\ Runs("tenant") => Tenant!TypeOK
    /\ Runs("menu") => Menu!TypeOK
    /\ Runs("call") => Call!TypeOK

RetryAddsNothing == Runs("sync") => Sync!RetryAddsNothing
HeardInOrder == Runs("sync") => Sync!HeardInOrder
SetupHolds == Runs("tenant") => Tenant!SetupHolds
ReadsAreFresh == Runs("menu") => Menu!ReadsAreFresh
EditsReachTheAgent == Runs("menu") => Menu!EditsReachTheAgent
BilledOnce == Runs("call") => Call!BilledOnce

\* The outbox is an account of each order that follows what is rung in: whatever is lost,
\* late or sent again, the guest is billed for no line that was not rung in, for each that
\* was by the time the order is closed, and never less than before.
BillView == INSTANCE GuestBill WITH
    Orders <- Sales, Lines <- Items, rung <- Sync!Rung, billed <- Sync!Billed

ImplementsGuestBill == BillView!Spec
================================================================================
