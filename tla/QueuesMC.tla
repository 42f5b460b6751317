------------------------------- MODULE QueuesMC -------------------------------
(***************************************************************************)
(* The queues that retry, for TLC: the register's outbox, kitchen queue    *)
(* and customers, the voice orders, marketplace webhooks and tenants of    *)
(* the back end.                                                           *)
(* They share no state here, so a behaviour is one of the first, or one of *)
(* the second, and so on, while the others stand still.                    *)
(***************************************************************************)
EXTENDS Naturals

CONSTANTS
    Orders, Calls, Events, Drains, None, Faults

VARIABLES
    part,  \* the component that runs in this behaviour
    ps_local, ps_outbox, ps_parked, ps_screen, ps_engine, ps_flight,
    ps_strays, ps_server, ps_claims,
    kq_app, kq_job, kq_drain, kq_running, kq_rerun, kq_badge, kq_copies,
    kq_cut, kq_taps, kq_kills,
    vo_key, vo_http, vo_event, vo_job, vo_tries, vo_marks, vo_orders,
    vo_spoiled,
    mi_market, mi_auto, mi_kind, mi_hook, mi_ingest, mi_job, mi_tries, mi_to,
    mi_ext, mi_native, mi_clerk, mi_moves, mi_dropped, mi_stranded,
    mi_overlap, mi_clobbered,
    pv_reuse, pv_org, pv_loc, pv_step, pv_job, pv_run, pv_ask, pv_demands,
    pv_vendor, pv_invited, pv_skipped, pv_mishaps, pv_loose,
    cs_who, cs_table, cs_listed, cs_cart, cs_resumed, cs_order, cs_run,
    cs_calls, cs_lost, cs_callers, cs_late, cs_stale, cs_missed, cs_raced

SyncVars == <<ps_local, ps_outbox, ps_parked, ps_screen, ps_engine,
              ps_flight, ps_strays, ps_server, ps_claims>>
KitchenVars == <<kq_app, kq_job, kq_drain, kq_running, kq_rerun, kq_badge,
                 kq_copies, kq_cut, kq_taps, kq_kills>>
VoiceVars == <<vo_key, vo_http, vo_event, vo_job, vo_tries, vo_marks,
               vo_orders, vo_spoiled>>
MarketVars == <<mi_market, mi_auto, mi_kind, mi_hook, mi_ingest, mi_job,
                mi_tries, mi_to, mi_ext, mi_native, mi_clerk, mi_moves,
                mi_dropped, mi_stranded, mi_overlap, mi_clobbered>>
TenantVars == <<pv_reuse, pv_org, pv_loc, pv_step, pv_job, pv_run, pv_ask,
                pv_demands, pv_vendor, pv_invited, pv_skipped, pv_mishaps,
                pv_loose>>
CustomerVars == <<cs_who, cs_table, cs_listed, cs_cart, cs_resumed, cs_order,
                  cs_run, cs_calls, cs_lost, cs_callers, cs_late, cs_stale,
                  cs_missed, cs_raced>>

Sync == INSTANCE PosSync WITH
    local <- ps_local, outbox <- ps_outbox, parked <- ps_parked,
    screen <- ps_screen, engine <- ps_engine, flight <- ps_flight,
    strays <- ps_strays, server <- ps_server, claims <- ps_claims,
    NoOrder <- None, Items <- {1}, Taps <- {"open", "settle"},
    Refusable <- {"create"}, Faults <- {"timeout"}

Kitchen == INSTANCE KitchenQueue WITH
    app <- kq_app, job <- kq_job, drain <- kq_drain, running <- kq_running,
    rerun <- kq_rerun, badge <- kq_badge, copies <- kq_copies, cut <- kq_cut,
    taps <- kq_taps, kills <- kq_kills, Jobs <- 1..2, MaxAttempts <- 2,
    MaxTaps <- 1, MaxKills <- 1

Voice == INSTANCE VoiceOrders WITH
    key <- vo_key, http <- vo_http, event <- vo_event, job <- vo_job,
    tries <- vo_tries, marks <- vo_marks, orders <- vo_orders,
    spoiled <- vo_spoiled, Requests <- Calls, Keys <- {"call"},
    NoKey <- None, MaxAttempts <- 2, MaxStalls <- 1

Market == INSTANCE MarketplaceImport WITH
    market <- mi_market, auto <- mi_auto, kind <- mi_kind, hook <- mi_hook,
    ingest <- mi_ingest, job <- mi_job, tries <- mi_tries, to <- mi_to,
    ext <- mi_ext, native <- mi_native, clerk <- mi_clerk, moves <- mi_moves,
    dropped <- mi_dropped, stranded <- mi_stranded, overlap <- mi_overlap,
    clobbered <- mi_clobbered, Clerks <- {}, MaxAttempts <- 2,
    MaxStalls <- 0, MaxMoves <- 0

Tenant == INSTANCE Provisioning WITH
    reuse <- pv_reuse, org <- pv_org, loc <- pv_loc, step <- pv_step,
    job <- pv_job, run <- pv_run, ask <- pv_ask, demands <- pv_demands,
    vendor <- pv_vendor, invited <- pv_invited, skipped <- pv_skipped,
    mishaps <- pv_mishaps, loose <- pv_loose, Jobs <- {"first"},
    FirstJob <- "first", Faults <- {"die", "lost", "mail", "vendor"},
    MaxAttempts <- 3, MaxStalls <- 1, MaxDemands <- 0, MaxMishaps <- 3

Customers == INSTANCE CustomerSync WITH
    who <- cs_who, table <- cs_table, listed <- cs_listed, cart <- cs_cart,
    resumed <- cs_resumed, order <- cs_order, run <- cs_run,
    calls <- cs_calls, lost <- cs_lost, callers <- cs_callers,
    late <- cs_late, stale <- cs_stale, missed <- cs_missed,
    raced <- cs_raced, Locals <- {"l1"},
    Profiles <- {"s1", "s2"}, Guests <- {"g1"}, Phoned <- {},
    Malformed <- {}, MaxLost <- 1, MaxCallers <- 0, Orders <- {"o1"},
    Faults <- {"timeout"}

Runs(p) == part = p

Init ==
    /\ part \in {"sync", "kitchen", "voice", "market", "tenant", "customers"}
    /\ Sync!Init
    /\ Kitchen!Init
    /\ Voice!Init
    /\ Market!Init
    /\ Tenant!Init
    /\ Customers!Init
    /\ ~Runs("voice") =>
        /\ vo_key = [r \in Calls |-> None]
    \* A store that accepts by hand does as one whose automatic acceptances all fail.
    /\ mi_auto = Runs("market")
    /\ ~Runs("tenant") =>
        /\ ~pv_reuse

SyncNext ==
    /\ Runs("sync") /\ Sync!Next
    /\ UNCHANGED <<part, KitchenVars, VoiceVars, MarketVars, TenantVars,
                   CustomerVars>>
KitchenNext ==
    /\ Runs("kitchen") /\ Kitchen!Next
    /\ UNCHANGED <<part, SyncVars, VoiceVars, MarketVars, TenantVars,
                   CustomerVars>>
VoiceNext ==
    /\ Runs("voice") /\ Voice!Next
    /\ UNCHANGED <<part, SyncVars, KitchenVars, MarketVars, TenantVars,
                   CustomerVars>>
MarketNext ==
    /\ Runs("market") /\ Market!Next
    /\ UNCHANGED <<part, SyncVars, KitchenVars, VoiceVars, TenantVars,
                   CustomerVars>>
TenantNext ==
    /\ Runs("tenant") /\ Tenant!Next
    /\ UNCHANGED <<part, SyncVars, KitchenVars, VoiceVars, MarketVars,
                   CustomerVars>>
CustomersNext ==
    /\ Runs("customers") /\ Customers!Next
    /\ UNCHANGED <<part, SyncVars, KitchenVars, VoiceVars, MarketVars, TenantVars>>

Next ==
    \/ SyncNext \/ KitchenNext \/ VoiceNext \/ MarketNext \/ TenantNext
    \/ CustomersNext

\* The fairness of each part, while it runs.
Fairness ==
    /\ WF_SyncVars(Runs("sync") /\ Sync!StartRun)
    /\ WF_SyncVars(Runs("sync") /\ Sync!Push)
    /\ WF_SyncVars(Runs("sync") /\ Sync!FinishRun)
    /\ \A o \in Orders :
         /\ SF_SyncVars(Runs("sync") /\ Sync!Serve(o))
         /\ SF_SyncVars(Runs("sync") /\ (Sync!Accept(o) \/ Sync!Refuse(o)))
    /\ \A d \in Drains : WF_KitchenVars(Runs("kitchen") /\ Kitchen!Go(d))
    /\ WF_KitchenVars(Runs("kitchen") /\ Kitchen!Launch)
    /\ \A r \in Calls : WF_VoiceVars(Runs("voice") /\ Voice!Worker(r))
    /\ \A e \in Events : WF_MarketVars(Runs("market") /\ Market!Worker(e))
    /\ WF_TenantVars(Runs("tenant") /\ Tenant!Worker)
    /\ WF_TenantVars(Runs("tenant") /\ \E s \in Tenant!StepNames : Tenant!Sweep(s))
    /\ WF_CustomerVars(Runs("customers") /\ Customers!Engine)
    /\ WF_CustomerVars(Runs("customers") /\
           \E c \in cs_calls : Customers!LookUp(c) \/ Customers!WriteProfile(c))

Spec ==
    /\ Init /\ Fairness
    /\ [][Next]_<<part, SyncVars, KitchenVars, VoiceVars, MarketVars, TenantVars,
              CustomerVars>>
--------------------------------------------------------------------------------
\* The liveness properties of the parts, under the names of their modules.
OutboxDrains == Sync!OutboxDrains /\ Customers!OrdersGetThrough
QueuedJobsEnd ==
    /\ Kitchen!EveryTicketIsTried
    /\ Voice!JobsEnd /\ Market!JobsEnd
    /\ Tenant!SetupSettles
================================================================================
