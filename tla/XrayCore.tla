------------------------------ MODULE XrayCore ------------------------------
(***************************************************************************)
(* The Xray process: Core.Start, Stop and Restart, Xray.Restart and        *)
(* Shutdown, the health check that restarts it, and a request (SyncUsers,  *)
(* UpdateUsersAndRestart) that changes the configuration, restarts and     *)
(* waits for the API.                                                      *)
(*                                                                         *)
(* Restart and Shutdown hold x.mu from end to end; the health check reads  *)
(* the process without it.  A configuration is the number of changes made  *)
(* to it.                                                                  *)
(***************************************************************************)
EXTENDS Naturals

CONSTANTS
    maxFailures,  \* failed health checks before a restart
    MaxChanges,   \* bound: changes of the configuration
    HealthCheck,  \* the health check runs
    Requests,     \* requests arrive
    NoOwner

ASSUME XrayCoreAssumption ==
    /\ maxFailures \in Nat \ {0} /\ MaxChanges \in Nat
    /\ HealthCheck \in BOOLEAN /\ Requests \in BOOLEAN

VARIABLES
    process,    \* c.process: none, up, or dead when it exited by itself
    runs,       \* the configuration the last process was started with
    config,     \* x.config
    asked,      \* the configuration the request in progress has made
    acked,      \* the configuration of the last request that succeeded
    mu,         \* who holds x.mu
    restarting, \* c.restarting
    cancelled,  \* Shutdown has cancelled the health check's context
    failures,   \* consecutiveFailures
    coreAt      \* where each thread is

coreVars == <<process, runs, config, asked, acked, mu, restarting, cancelled, failures, coreAt>>

CoreThread == {"health", "request", "owner"}
Started == process = "up"

CoreTypeOK ==
    /\ process \in {"none", "up", "dead"}
    /\ runs \in 0..MaxChanges /\ config \in 0..MaxChanges
    /\ asked \in 0..MaxChanges /\ acked \in 0..MaxChanges
    /\ mu \in CoreThread \cup {NoOwner}
    /\ restarting \in BOOLEAN /\ cancelled \in BOOLEAN
    /\ failures \in 0..maxFailures
    /\ coreAt \in [CoreThread -> {"idle", "probe", "judge", "lock", "stop", "start",
                                  "status", "close", "done"}]

\* New has started the process and seen its API answer.
CoreInit ==
    /\ process = "up" /\ runs = 0 /\ config = 0 /\ asked = 0 /\ acked = 0
    /\ mu = NoOwner /\ restarting = FALSE /\ cancelled = FALSE /\ failures = 0
    /\ coreAt = [t \in CoreThread |-> "idle"]

CoreGo(t, label) == coreAt' = [coreAt EXCEPT ![t] = label]

-----------------------------------------------------------------------------
CoreCrash ==
    /\ process = "up"
    /\ process' = "dead"
    /\ UNCHANGED <<runs, config, asked, acked, mu, restarting, cancelled, failures, coreAt>>

\* checkXrayHealth wakes up.
HealthTick ==
    /\ HealthCheck /\ coreAt["health"] = "idle"
    /\ \/ cancelled /\ CoreGo("health", "done") /\ UNCHANGED failures
       \/ ~cancelled /\ restarting /\ failures' = 0 /\ UNCHANGED coreAt
       \/ ~cancelled /\ ~restarting /\ CoreGo("health", "probe") /\ UNCHANGED failures
    /\ UNCHANGED <<process, runs, config, asked, acked, mu, restarting, cancelled>>

\* GetSysStats.  Its error is a gRPC status, never context.Canceled itself, so a
\* cancelled call counts as a failure like any other.
HealthProbe ==
    /\ coreAt["health"] = "probe"
    /\ \/ Started /\ ~cancelled /\ failures' = 0 /\ CoreGo("health", "idle")
       \/ failures' = (IF failures < maxFailures THEN failures + 1 ELSE failures)
          /\ CoreGo("health", "judge")
    /\ UNCHANGED <<process, runs, config, asked, acked, mu, restarting, cancelled>>

\* Mutant: only a series of failures makes the health check restart, and a dead
\* process is taken for one that is about to come up.
HealthJudge_Waits ==
    /\ coreAt["health"] = "judge"
    /\ CoreGo("health", IF Started /\ failures >= maxFailures THEN "lock" ELSE "idle")
    /\ UNCHANGED <<process, runs, config, asked, acked, mu, restarting, cancelled, failures>>

HealthJudge ==
    /\ coreAt["health"] = "judge"
    /\ CoreGo("health", IF ~Started \/ failures >= maxFailures THEN "lock" ELSE "idle")
    /\ UNCHANGED <<process, runs, config, asked, acked, mu, restarting, cancelled, failures>>

\* A request that restarts: the users are in x.config before Restart.  Its handler may
\* have got the backend before the owner took it out of the map.
RestartRequest ==
    /\ Requests /\ coreAt["request"] = "idle"
    /\ config < MaxChanges
    /\ config' = config + 1 /\ asked' = config'
    /\ CoreGo("request", "lock")
    /\ UNCHANGED <<process, runs, acked, mu, restarting, cancelled, failures>>

\* The owner, Controller, shuts the backend down.
Shutdown ==
    /\ coreAt["owner"] = "idle"
    /\ CoreGo("owner", "lock")
    /\ UNCHANGED <<process, runs, config, asked, acked, mu, restarting, cancelled, failures>>

\* x.mu is taken: Shutdown cancels first, Restart marks the core as restarting.
Lock(t) ==
    /\ coreAt[t] = "lock" /\ mu = NoOwner
    /\ mu' = t
    /\ IF t = "owner" THEN cancelled' = TRUE /\ UNCHANGED restarting
       ELSE restarting' = TRUE /\ UNCHANGED cancelled
    /\ CoreGo(t, "stop")
    /\ UNCHANGED <<process, runs, config, asked, acked, failures>>

\* Core.Stop kills the process and waits for it.
Stop(t) ==
    /\ coreAt[t] = "stop"
    /\ process' = "none"
    /\ CoreGo(t, IF t = "owner" THEN "close" ELSE "start")
    /\ UNCHANGED <<runs, config, asked, acked, mu, restarting, cancelled, failures>>

\* Mutant: the process is started again with what it was started with before.
StartOk_OldConfig(t) ==
    /\ coreAt[t] = "start"
    /\ process' = "up" /\ UNCHANGED runs
    /\ restarting' = FALSE /\ mu' = NoOwner
    /\ IF t = "health" THEN failures' = 0 /\ CoreGo(t, "idle")
       ELSE CoreGo(t, "status") /\ UNCHANGED failures
    /\ UNCHANGED <<config, asked, acked, cancelled>>

\* Core.Start succeeds; Restart returns.
StartOk(t) ==
    /\ coreAt[t] = "start"
    /\ process' = "up" /\ runs' = config
    /\ restarting' = FALSE /\ mu' = NoOwner
    /\ IF t = "health" THEN failures' = 0 /\ CoreGo(t, "idle")
       ELSE CoreGo(t, "status") /\ UNCHANGED failures
    /\ UNCHANGED <<config, asked, acked, cancelled>>

\* Mutant: the error path returns without unlocking.
StartFails_KeepsLock(t) ==
    /\ coreAt[t] = "start"
    /\ restarting' = FALSE /\ UNCHANGED mu
    /\ CoreGo(t, "idle")
    /\ UNCHANGED <<process, runs, config, asked, acked, cancelled, failures>>

\* Core.Start fails; Restart returns the error.
StartFails(t) ==
    /\ coreAt[t] = "start"
    /\ restarting' = FALSE /\ mu' = NoOwner
    /\ CoreGo(t, "idle")
    /\ UNCHANGED <<process, runs, config, asked, acked, cancelled, failures>>

\* checkXrayStatus: the API answers, unless Shutdown has closed it, or the process is
\* gone, or the caller is.
StatusOk ==
    /\ coreAt["request"] = "status" /\ Started /\ coreAt["owner"] # "done"
    /\ acked' = asked
    /\ CoreGo("request", "idle")
    /\ UNCHANGED <<process, runs, config, asked, mu, restarting, cancelled, failures>>

StatusFails ==
    /\ coreAt["request"] = "status"
    /\ CoreGo("request", "idle")
    /\ UNCHANGED <<process, runs, config, asked, acked, mu, restarting, cancelled, failures>>

\* The API handler is closed and Shutdown returns.
Close ==
    /\ coreAt["owner"] = "close"
    /\ mu' = NoOwner
    /\ CoreGo("owner", "done")
    /\ UNCHANGED <<process, runs, config, asked, acked, restarting, cancelled, failures>>

CoreNext ==
    \/ CoreCrash \/ HealthTick \/ HealthProbe \/ HealthJudge \/ RestartRequest \/ Shutdown
    \/ \E t \in CoreThread : Lock(t) \/ Stop(t) \/ StartOk(t) \/ StartFails(t)
    \/ StatusOk \/ StatusFails \/ Close

CoreSpec == CoreInit /\ [][CoreNext]_coreVars

\* Every thread goes on, x.mu is handed on in turn (sync.Mutex starves nobody),
\* and xray comes up now and then when it is started again and again.
CoreFairness ==
    /\ WF_coreVars(HealthTick) /\ WF_coreVars(HealthProbe) /\ WF_coreVars(HealthJudge)
    /\ WF_coreVars(StatusOk \/ StatusFails) /\ WF_coreVars(Close)
    /\ \A t \in CoreThread : /\ SF_coreVars(Lock(t)) /\ WF_coreVars(Stop(t))
                             /\ WF_coreVars(StartOk(t) \/ StartFails(t))
    /\ SF_coreVars(StartOk("health"))

CoreFairSpec == CoreSpec /\ CoreFairness

-----------------------------------------------------------------------------
(* Properties.                                                             *)

\* A request that succeeded stays served: whatever restarts come after it, the
\* running process has its users, and no process is started with older ones.
AckedIsServed == Started => runs >= acked

\* A process that exits is brought up again unless the backend is shut down,
\* through failing starts and requests that restart at the same time.
HealsItself == process = "dead" ~> Started \/ cancelled

\* Shutdown gets x.mu, finishes, and the health check ends.
ShutdownEnds == coreAt["owner"] = "lock" ~> coreAt["owner"] = "done" /\ coreAt["health"] = "done"

\* "Cancel context first to stop health checks and other goroutines" (xray.go:173)
\* and "Shutdown is now complete - all resources are cleaned up" (xray.go:191): a
\* process does not run once Shutdown has returned.
StaysDown == coreAt["owner"] = "done" => ~Started
=============================================================================
