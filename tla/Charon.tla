------------------------------- MODULE Charon -------------------------------
(***************************************************************************)
(* The charon daemon shared by the IPsec backends (ipsec/charon.go) and    *)
(* the life of those backends: New, Restart and Shutdown of IKEv2 and      *)
(* L2TP, and the certificate watcher of IKEv2, a goroutine that calls      *)
(* Restart by itself.                                                      *)
(*                                                                         *)
(* acquire and release hold m.mu from end to end and are one step each;    *)
(* between them the backends run without a common lock.  A backend is an   *)
(* object: once dropped by its owner its name serves for a new object.     *)
(***************************************************************************)
EXTENDS Naturals, FiniteSets

CONSTANTS
    Backend,       \* the IPsec backends of the node
    Renewing,      \* the IKEv2 ones that renew a certificate of their own
    Overlap        \* Shutdown may be called while the watcher restarts

ASSUME CharonAssumption ==
    /\ IsFiniteSet(Backend)
    /\ Renewing \subseteq Backend
    /\ Overlap \in BOOLEAN

VARIABLES
    refs,     \* m.refs
    process,  \* m.process # nil
    alive,    \* the charon process runs
    loaded,   \* the connections charon knows, by backend
    conf,     \* the fragments under conf.d, by backend
    holds,    \* history: the backends that acquired and have not released
    inst,     \* what the owner of the backend has: none, held or dropped
    once,     \* shutdownOnce: new, busy or done
    running,  \* the backends whose state is lifecycleRunning
    watching, \* the backends with a live certificate watcher
    at,       \* where each thread of a backend is
    job,      \* the operation it carries out
    calm      \* history: no Restart has failed and charon has not died by itself

daemonVars == <<refs, process, alive, loaded, holds>>
backendVars == <<conf, inst, once, running, watching>>
vars == <<daemonVars, backendVars, at, job, calm>>

\* The owner's calls, one at a time, and the certificate watcher.
Thread == Backend \X {"call", "renew"}
Label == {"idle", "stop", "unload", "release", "reset", "begin", "acquire",
          "load", "undo"}

TypeOK ==
    /\ refs \in Nat
    /\ process \in BOOLEAN /\ alive \in BOOLEAN
    /\ loaded \subseteq Backend /\ conf \subseteq Backend /\ holds \subseteq Backend
    /\ inst \in [Backend -> {"none", "held", "dropped"}]
    /\ once \in [Backend -> {"new", "busy", "done"}]
    /\ running \subseteq Backend /\ watching \subseteq Renewing
    /\ at \in [Thread -> Label]
    /\ job \in [Thread -> {"new", "restart", "shutdown"}]
    /\ calm \in BOOLEAN

Init ==
    /\ refs = 0 /\ process = FALSE /\ alive = FALSE
    /\ loaded = {} /\ conf = {} /\ holds = {}
    /\ inst = [b \in Backend |-> "none"]
    /\ once = [b \in Backend |-> "new"]
    /\ running = {} /\ watching = {}
    /\ at = [p \in Thread |-> "idle"]
    /\ job = [p \in Thread |-> "new"]
    /\ calm = TRUE

Idle(b) == at[<<b, "call">>] = "idle" /\ at[<<b, "renew">>] = "idle"
Go(p, label) == at' = [at EXCEPT ![p] = label]

-----------------------------------------------------------------------------
(* ipsec.manager                                                           *)

\* Mutant: joining a running daemon does not count.
AcquireOk_Uncounted(b) ==
    /\ IF refs > 0 THEN UNCHANGED <<refs, process, alive, loaded>>
       ELSE /\ refs' = 1 /\ process' = TRUE /\ alive' = TRUE /\ loaded' = {}
    /\ holds' = holds \cup {b}

\* acquire: the first caller starts charon, a later one only counts.
AcquireOk(b) ==
    /\ IF refs > 0 THEN refs' = refs + 1 /\ UNCHANGED <<process, alive, loaded>>
       ELSE /\ refs' = 1 /\ process' = TRUE /\ alive' = TRUE /\ loaded' = {}
    /\ holds' = holds \cup {b}

\* charon did not come up and is killed.
AcquireFails ==
    /\ refs = 0
    /\ process' = FALSE /\ alive' = FALSE /\ loaded' = {}
    /\ UNCHANGED <<refs, holds>>

\* Mutant: every release stops the daemon.
Release_Stops(b) ==
    /\ refs' = IF refs = 0 THEN 0 ELSE refs - 1
    /\ process' = FALSE /\ alive' = FALSE /\ loaded' = {}
    /\ holds' = holds \ {b}

\* release: the last reference stops charon; without any it does nothing.
Release(b) ==
    /\ refs' = IF refs = 0 THEN 0 ELSE refs - 1
    /\ IF refs = 1 THEN process' = FALSE /\ alive' = FALSE /\ loaded' = {}
       ELSE UNCHANGED <<process, alive, loaded>>
    /\ holds' = holds \ {b}

\* loadAll gives charon exactly the fragments there are.
LoadAll(fragments) == alive /\ loaded' = fragments
LoadAllFails == UNCHANGED loaded

Crash ==
    /\ alive
    /\ alive' = FALSE /\ loaded' = {} /\ calm' = FALSE
    /\ UNCHANGED <<refs, process, holds, backendVars, at, job>>

-----------------------------------------------------------------------------
(* The operations of a backend                                             *)

\* New: a fresh object; the name is free once nothing of the old one runs.
New(b) ==
    /\ Idle(b) /\ inst[b] # "held" /\ b \notin running \cup watching
    /\ Go(<<b, "call">>, "begin")
    /\ job' = [job EXCEPT ![<<b, "call">>] = "new"]
    /\ once' = [once EXCEPT ![b] = "new"]
    /\ UNCHANGED <<daemonVars, conf, inst, running, watching, calm>>

\* Restart and UpdateUsersAndRestart.
Restart(b) ==
    /\ Idle(b) /\ inst[b] = "held"
    /\ Go(<<b, "call">>, "stop")
    /\ job' = [job EXCEPT ![<<b, "call">>] = "restart"]
    /\ UNCHANGED <<daemonVars, backendVars, calm>>

Shutdown(b) ==
    /\ at[<<b, "call">>] = "idle" /\ (Overlap \/ Idle(b)) /\ inst[b] = "held"
    /\ Go(<<b, "call">>, "stop")
    /\ job' = [job EXCEPT ![<<b, "call">>] = "shutdown"]
    /\ UNCHANGED <<daemonVars, backendVars, calm>>

\* watchAutoCert has a new certificate and calls Restart.
Renew(b) ==
    /\ b \in watching /\ at[<<b, "renew">>] = "idle" /\ (Overlap \/ Idle(b))
    /\ Go(<<b, "renew">>, "stop")
    /\ job' = [job EXCEPT ![<<b, "renew">>] = "restart"]
    /\ UNCHANGED <<daemonVars, backendVars, calm>>

\* Shutdown is over: Restart goes on, Shutdown returns to the owner.
Stopped(p) ==
    IF job[p] = "restart" THEN Go(p, "reset") /\ UNCHANGED inst
    ELSE Go(p, "idle") /\ inst' = [inst EXCEPT ![p[1]] = "dropped"]

\* shutdownOnce.Do: a second caller waits while the first is busy, and has
\* nothing to do once it is done.
Stop(p) ==
    /\ at[p] = "stop"
    /\ \/ /\ once[p[1]] = "new"
          /\ once' = [once EXCEPT ![p[1]] = "busy"]
          /\ running' = running \ {p[1]}
          /\ watching' = watching \ {p[1]}
          /\ conf' = conf \ {p[1]}
          /\ Go(p, "unload")
          /\ UNCHANGED inst
       \/ /\ once[p[1]] = "done"
          /\ Stopped(p)
          /\ UNCHANGED <<conf, once, running, watching>>
    /\ UNCHANGED <<daemonVars, job, calm>>

\* If Running, LoadAll, its error ignored.
Unload(p) ==
    /\ at[p] = "unload"
    /\ \/ refs > 0 /\ process /\ LoadAll(conf)
       \/ LoadAllFails
    /\ Go(p, "release")
    /\ UNCHANGED <<refs, process, alive, holds, backendVars, job, calm>>

ShutdownRelease(p) ==
    /\ at[p] = "release"
    /\ Release(p[1])
    /\ once' = [once EXCEPT ![p[1]] = "done"]
    /\ Stopped(p)
    /\ UNCHANGED <<conf, running, watching, job, calm>>

\* Mutant: Restart leaves shutdownOnce used up.
Reset_Missing(p) ==
    /\ at[p] = "reset"
    /\ Go(p, "begin")
    /\ UNCHANGED <<daemonVars, backendVars, job, calm>>

\* Restart makes Shutdown callable again.
Reset(p) ==
    /\ at[p] = "reset"
    /\ once' = [once EXCEPT ![p[1]] = "new"]
    /\ Go(p, "begin")
    /\ UNCHANGED <<daemonVars, conf, inst, running, watching, job, calm>>

\* start failed: New cancels the watcher and returns no object.
Fail(p) ==
    /\ Go(p, "idle")
    /\ watching' = IF job[p] = "new" THEN watching \ {p[1]} ELSE watching
    /\ calm' = (calm /\ job[p] = "new")

\* start: certificate and configuration, then the watcher.
Begin(p) ==
    /\ at[p] = "begin"
    /\ \/ /\ conf' = conf \cup {p[1]}
          /\ watching' = watching \cup ({p[1]} \cap Renewing)
          /\ Go(p, "acquire")
          /\ UNCHANGED calm
       \/ /\ Fail(p)
          /\ conf' \in {conf, conf \cup {p[1]}}
    /\ UNCHANGED <<daemonVars, inst, once, running, job>>

Acquire(p) ==
    /\ at[p] = "acquire"
    /\ \/ AcquireOk(p[1]) /\ Go(p, "load") /\ UNCHANGED <<watching, calm>>
       \/ AcquireFails /\ Fail(p)
    /\ UNCHANGED <<conf, inst, once, running, job>>

\* The connection is loaded and the backend runs; or loading it, or starting
\* xl2tpd after it, fails.  IKEv2 writes its fragment once more before loading.
Load(p) ==
    /\ at[p] = "load"
    /\ conf' = conf \cup ({p[1]} \cap Renewing)
    /\ \/ /\ LoadAll(conf')
          /\ running' = running \cup {p[1]}
          /\ inst' = IF job[p] = "new" THEN [inst EXCEPT ![p[1]] = "held"] ELSE inst
          /\ Go(p, "idle")
          /\ UNCHANGED calm
       \/ /\ LoadAll(conf') \/ LoadAllFails
          /\ calm' = (calm /\ job[p] = "new")
          /\ Go(p, "undo")
          /\ UNCHANGED <<running, inst>>
    /\ UNCHANGED <<refs, process, alive, holds, once, watching, job>>

\* Mutant: the error path keeps the reference.
LoadUndo_Kept(p) ==
    /\ at[p] = "undo"
    /\ holds' = holds \ {p[1]}
    /\ Fail(p)
    /\ UNCHANGED <<refs, process, alive, loaded, conf, inst, once, running, job>>

LoadUndo(p) ==
    /\ at[p] = "undo"
    /\ Release(p[1])
    /\ Fail(p)
    /\ UNCHANGED <<conf, inst, once, running, job>>

Next ==
    \/ \E b \in Backend : New(b) \/ Restart(b) \/ Shutdown(b) \/ Renew(b)
    \/ \E p \in Thread : \/ Stop(p) \/ Unload(p) \/ ShutdownRelease(p) \/ Reset(p)
                         \/ Begin(p) \/ Acquire(p) \/ Load(p) \/ LoadUndo(p)
    \/ Crash

Spec == Init /\ [][Next]_vars

-----------------------------------------------------------------------------
(* Properties.                                                             *)

\* The count is the number of backends that need charon, through any order of
\* starts, failed starts, restarts, renewals and shutdowns of several backends,
\* until a Restart fails or charon dies.
RefsAreHolders == calm => refs = Cardinality(holds)

\* "the first backend to Acquire starts it" (charon.go:4) and a reload by one
\* backend "keeps the others' connections intact" (charon.go:79): until a Restart
\* fails or charon dies, a running backend has charon and its connection in it,
\* whatever the other backends do, and charon runs only for a holder.
CharonServes ==
    calm => /\ running \subseteq loaded
            /\ alive <=> holds # {}

\* No start, however it fails, and no crash of charon leaves a daemon that no
\* backend will stop.
NotLeaked == holds = {} => refs = 0 /\ ~alive

\* "Shutdown() will wait for process termination to complete"
\* (controller.go:123): a backend its owner has shut down does not run again
\* nor keep charon.
DroppedIsStopped ==
    \A b \in Backend : inst[b] = "dropped" /\ Idle(b) => b \notin running \cup holds

\* "the last to Release stops it" (charon.go:4): unless charon dies by itself it
\* stops only when the last holder has released it.
LastReleaseStops == [][alive /\ ~alive' /\ ~Crash => holds' = {}]_vars

\* The count, the backends' operations and all their failures are an
\* implementation of the shared daemon charon.go promises: the first to Acquire
\* starts it, the last to Release stops it, and in between nobody's operation
\* takes it from a holder, until a Restart fails or charon dies; after that charon
\* still runs only while somebody holds it.
SD == INSTANCE SharedDaemon WITH holders <- holds, up <- alive, sound <- calm

ImplementsSharedDaemon == SD!Spec

\* "Acquire ensures the shared charon daemon is running" (charon.go:62).
AcquireEnsures ==
    [][\A p \in Thread : at[p] = "acquire" /\ at'[p] = "load" => alive']_vars
=============================================================================
