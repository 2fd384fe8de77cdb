-------------------------- MODULE ServerLifecycle --------------------------
(***************************************************************************)
(* What the processes open at startup and close at the end: the HTTP       *)
(* server's lifespan and the stdio server (main.py, bootstrap/), and the   *)
(* worker's hooks (extraction/worker.py).  Any startup step may fail or be *)
(* cancelled; a handle that only a helper has seen cannot be closed.       *)
(***************************************************************************)
EXTENDS Naturals, Sequences

VARIABLES
  mode,    \* which process
  config,  \* the optional resources that are configured
  phase,   \* boot, serve, unwind (guarded closes), finally (unguarded closes), down
  step,    \* the next step of startup or of teardown
  opened,  \* the resources that are open
  known,   \* those that the teardown has a handle of
  stuck,   \* those whose close failed
  served   \* startup has succeeded

lifeVars == <<mode, config, phase, step, opened, known, stuck, served>>

---------------------------------------------------------------------------
Optional == {"admin_pool", "hydra"}
Resources == {"admin_pool", "hydra", "pool", "oauth", "redis_pool", "redis", "arq_pool", "cron"}

(* A startup step opens a resource inside a helper, takes one (opens it    *)
(* and keeps the handle), is handed what a helper opened, or may just fail.*)
Opens(r) == [open |-> {r}, keep |-> {}]
Takes(r) == [open |-> {r}, keep |-> {r}]
Handed(rs) == [open |-> {}, keep |-> rs]
Check == Handed({})

\* The operator and the cipher come between the pools and the return.
BuildAppCtx == <<Opens("admin_pool"), Opens("pool"), Check, Handed({"admin_pool", "pool"})>>

\* The clean-up and the routes come between the storage and the return.
SetupOAuth == <<Opens("oauth"), Check, Handed({"oauth"})>>

\* Mutant: the lifespan starts the sweeper before it has the Redis client.
LifespanCronEarly ==
  <<Check>> \o BuildAppCtx \o SetupOAuth
    \o <<Takes("hydra"), Takes("cron"), Takes("redis_pool"), Takes("redis"), Check, Takes("arq_pool"), Check>>

Lifespan ==
  <<Check>> \o BuildAppCtx \o SetupOAuth
    \o <<Takes("hydra"), Takes("redis_pool"), Takes("redis"), Check, Takes("arq_pool"), Takes("cron"), Check>>

Startup == [server |-> Lifespan,
            stdio |-> BuildAppCtx,
            worker |-> <<Takes("pool"), Takes("redis_pool"), Takes("redis"), Check>>]

LifespanTeardown == <<"cron", "arq_pool", "redis", "redis_pool", "oauth", "hydra", "pool", "admin_pool">>

Teardown == [server |-> LifespanTeardown,
             stdio |-> <<"admin_pool", "pool">>,
             worker |-> <<"redis", "redis_pool", "pool">>]

\* The sweeper needs the pool that bypasses row security.
Wanted(r) == CASE r \in {"admin_pool", "cron"} -> "admin_pool" \in config
               [] r = "hydra" -> "hydra" \in config
               [] OTHER -> TRUE

(* Types.                                                                  *)
LifeTypeOK ==
  /\ mode \in DOMAIN Startup /\ config \in SUBSET Optional
  /\ phase \in {"boot", "serve", "unwind", "finally", "down"}
  /\ step \in 1 .. Len(Lifespan) + 1
  /\ opened \in SUBSET Resources /\ known \in SUBSET Resources /\ stuck \in SUBSET Resources
  /\ served \in BOOLEAN

LifeInit ==
  /\ mode \in DOMAIN Startup /\ config \in SUBSET Optional
  /\ phase = "boot" /\ step = 1 /\ served = FALSE
  /\ opened = {} /\ known = {} /\ stuck = {}

---------------------------------------------------------------------------
Boot ==
  LET s == Startup[mode][step] IN
  /\ phase = "boot" /\ step <= Len(Startup[mode])
  /\ opened' = opened \cup {r \in s.open : Wanted(r)}
  /\ known' = known \cup {r \in s.keep : Wanted(r)}
  /\ step' = step + 1
  /\ UNCHANGED <<mode, config, phase, stuck, served>>

Serve ==
  /\ phase = "boot" /\ step > Len(Startup[mode])
  /\ phase' = "serve" /\ served' = TRUE
  /\ UNCHANGED <<mode, config, step, opened, known, stuck>>

(* The lifespan has one finally; the worker unwinds a failed startup and   *)
(* has a hook for the end; the stdio server's try begins after its pools.  *)
Ending == CASE mode = "server" -> "unwind"
            [] mode = "worker" -> IF phase = "boot" THEN "unwind" ELSE "finally"
            [] OTHER -> IF phase = "boot" /\ step <= Len(Startup[mode]) THEN "down" ELSE "finally"

\* A startup step fails or is cancelled; or the process is told to stop.
Stop ==
  /\ phase \in {"boot", "serve"}
  /\ phase' = Ending /\ step' = 1
  /\ UNCHANGED <<mode, config, opened, known, stuck, served>>

Closing == Teardown[mode][step]
InTeardown == phase \in {"unwind", "finally"} /\ step <= Len(Teardown[mode])

Close ==
  /\ InTeardown
  /\ opened' = opened \ ({Closing} \cap known)
  /\ step' = step + 1
  /\ UNCHANGED <<mode, config, phase, known, stuck, served>>

(* A close raises: suppressed while unwinding, the end of a finally.  The  *)
(* sweeper is cancelled and awaited; that does not fail.                   *)
CloseFails ==
  /\ InTeardown /\ Closing \in known \ {"cron"}
  /\ stuck' = stuck \cup {Closing}
  /\ IF phase = "unwind" THEN step' = step + 1 /\ UNCHANGED phase
                         ELSE phase' = "down" /\ UNCHANGED step
  /\ UNCHANGED <<mode, config, opened, known, served>>

Down ==
  /\ phase \in {"unwind", "finally"} /\ step > Len(Teardown[mode])
  /\ phase' = "down"
  /\ UNCHANGED <<mode, config, step, opened, known, stuck, served>>

LifeNext == Boot \/ Serve \/ Stop \/ Close \/ CloseFails \/ Down

LifeSpec == LifeInit /\ [][LifeNext]_lifeVars

---------------------------------------------------------------------------
(* However a process ends, what it leaves open is what would not close, or *)
(* what came after that in an unguarded closing sequence, or what a helper *)
(* held when it raised; a process that has served has lost no handle.      *)
\* main.py lifespan, _run_stdio; bootstrap/_teardown.py; worker.py startup, shutdown.
HandlesKept ==
  /\ phase = "down" /\ (stuck = {} \/ mode = "server") => opened \cap known \subseteq stuck
  /\ served \/ phase = "serve" => opened \subseteq known

(* Whenever the sweeper runs, the pool it sweeps with and the Redis client *)
(* it refunds through are open, in startup and in teardown alike.          *)
\* main.py lifespan, the order of the finally and of teardown_lifespan_resources.
CronResourcesOpen == "cron" \in opened => {"admin_pool", "redis", "redis_pool"} \subseteq opened

(* The order of startup and teardown loses no handle and pulls nothing     *)
(* from under the sweeper.                                                 *)
TeardownCovers == HandlesKept /\ CronResourcesOpen
=============================================================================
