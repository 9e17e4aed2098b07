----------------------- MODULE ProcessBackendProofs -----------------------
(***************************************************************************)
(* What holds of every backend that keeps a table of users and runs a      *)
(* server program, for any users, lists and number of restarts, when its   *)
(* requests come one at a time and a killed process ends in time.          *)
(***************************************************************************)
EXTENDS ProcessBackend, TLAPS

\* One request at a time reaches the backend, and a killed process is gone
\* within the five seconds Shutdown waits.
OneCaller == ~Slow /\ \A c, d \in Caller : c = d

Filed == {"openconnect", "sstp", "ssh", "pptp"}

\* Types of what the argument below compares.
ProcessTypes ==
    /\ at \in [Caller -> {"idle", "snapshot", "write", "accounts", "stop", "wait",
                          "renew", "start"}]
    /\ job \in [Caller -> {"restart", "shutdown"}]
    /\ DOMAIN snap = Caller
    /\ guard \in {"free", "done"} \cup Caller
    /\ waitDone \in Nat /\ closed \subseteq 0..waitDone
    /\ failed \in BOOLEAN /\ running \in BOOLEAN /\ dropped \in BOOLEAN
    /\ lowering \in BOOLEAN

\* At most the process that o.process names runs, and its goroutine is the one
\* that will close the channel of this moment.
OneProcess == alive \subseteq {process} /\ (alive # {} => waitDone \notin closed)

\* Nothing runs between the end of a Shutdown and the next start, and the
\* channel the next process will close is a new one.
NothingRuns ==
    /\ \A c \in Caller : at[c] \in {"renew", "start"} => alive = {}
    /\ \A c \in Caller : at[c] = "start" => waitDone \notin closed /\ guard # "done"
    /\ guard = "done" => alive = {} /\ ~running

\* The guard is held by the caller that waits in it; the sidecar has a lock and
\* no Once; and GRE, which has a tunnel and no process, does not wait.
Waits ==
    /\ \A c \in Caller : at[c] = "wait" => guard = c
    /\ \A c \in Caller : at[c] = "wait" /\ kind # "singbox" => ~running
    /\ \A c \in Caller : at[c] = "wait" => kind # "gre"
    /\ kind = "singbox" => guard # "done"
    /\ kind = "gre" => /\ alive = {} /\ (running => link = "up")
                       /\ \A c \in Caller : at[c] \in {"renew", "start"} => ~running

\* After the owner's Shutdown nothing runs and only Shutdown is called again.
Dropped ==
    dropped =>
        /\ alive = {} /\ ~running
        /\ \A c \in Caller : \/ at[c] = "idle"
                             \/ at[c] \in {"stop", "wait"} /\ job[c] = "shutdown"

\* What a caller is writing is the table, which nobody changes meanwhile.
WritesTable ==
    \A c \in Caller : /\ at[c] = "write" => snap[c] = store
                      /\ at[c] = "accounts" => file = store

\* The users of the table whose calls worked can log in with their password.
HaveAccounts ==
    \A x \in DOMAIN store \ missed : x \in DOMAIN accounts /\ accounts[x] = store[x]

\* Between calls whatever admits a user has what the table has.
Agrees ==
    (\A c \in Caller : at[c] = "idle") /\ ~failed /\ ~dropped =>
        /\ kind \in Filed => file = store
        /\ kind = "ssh" => HaveAccounts
        /\ kind \in {"mtproto", "singbox"} => serves = store

ProcessInv ==
    /\ ProcessTypes /\ OneProcess /\ NothingRuns /\ Waits /\ Dropped /\ WritesTable /\ Agrees
    /\ NoPanic

\* An account that was made has the table's password.
LEMMA MadeHas ==
    ASSUME NEW before, NEW table, NEW S \in SUBSET DOMAIN table, NEW x \in S
    PROVE  x \in DOMAIN Made(before, table, S) /\ Made(before, table, S)[x] = table[x]
  BY DEF Made, Merge

\* So the calls of syncSystemUsers leave an account to all but those they failed for.
LEMMA MakeHas == ASSUME MakeAccounts, store' = store PROVE HaveAccounts'
  <1>1. PICK S \in SUBSET DOMAIN store :
            accounts' = Made(accounts, store, S) /\ missed' = DOMAIN store \ S
    BY DEF MakeAccounts
  <1> QED
    BY <1>1, MadeHas DEF HaveAccounts

\* New leaves one process, or the tunnel of GRE, that has the table's users.
LEMMA ProcessInit == Init => ProcessInv
  <1> SUFFICES ASSUME Init PROVE ProcessInv
    OBVIOUS
  <1>1. /\ kind \in Filed => file = store
        /\ alive \subseteq {0} /\ (kind = "gre" => alive = {} /\ link = "up")
    BY DEF Init, Fresh, OcNew, SstpNew, SshNew, PptpNew, GreNew, SbNew, MtNew, Filed
  <1>7. kind = "ssh" => HaveAccounts
    <2> SUFFICES ASSUME kind = "ssh" PROVE HaveAccounts
      OBVIOUS
    <2>1. PICK S \in SUBSET DOMAIN store :
              accounts = Made(Empty, store, S) /\ missed = DOMAIN store \ S
      BY DEF Init, Fresh, OcNew, SstpNew, SshNew, PptpNew, GreNew, SbNew, MtNew
    <2> QED
      BY <2>1, MadeHas DEF HaveAccounts
  <1>2. kind \in {"mtproto", "singbox"} => serves = store
    BY DEF Init, Given
  <1>3. /\ at = [c \in Caller |-> "idle"] /\ job = [c \in Caller |-> "restart"]
        /\ DOMAIN snap = Caller /\ guard = "free" /\ process = 0 /\ waitDone = 0
        /\ closed = {} /\ failed = FALSE /\ running = TRUE /\ dropped = FALSE
        /\ lowering = FALSE /\ panicked = FALSE
    BY DEF Init
  <1>4. ProcessTypes
    BY <1>3 DEF ProcessTypes
  <1>5. OneProcess /\ NothingRuns /\ Waits /\ Dropped /\ WritesTable /\ NoPanic
    BY <1>1, <1>3
       DEF OneProcess, NothingRuns, Waits, Dropped, WritesTable, NoPanic
  <1>6. Agrees
    BY <1>1, <1>2, <1>7 DEF Agrees
  <1> QED
    BY <1>4, <1>5, <1>6 DEF ProcessInv

\* A request changes the table and says where the caller goes; only GRE, whose
\* tunnel does not depend on it, is done with that.
LEMMA RequestDoes ==
    ASSUME ProcessInv, NEW c \in Caller, Request(c)
    PROVE  /\ at[c] = "idle"
           /\ UNCHANGED <<kind, file, accounts, missed, snap, failed, process, alive, serves, link,
                          waitDone, closed, panicked, running, lowering, guard, dropped>>
           /\ \/ ~dropped /\ Go(c, "snapshot") /\ job' = job
              \/ ~dropped /\ Go(c, "stop") /\ job' = [job EXCEPT ![c] = "restart"]
              \/ Go(c, "stop") /\ job' = [job EXCEPT ![c] = "shutdown"]
              \/ Go(c, "idle") /\ job' = job /\ (kind = "gre" \/ store' = store)
  <1> USE DEF Ready, At, SyncFrame, ToFile, ToRestart, Answered, procVars, chanVars, lifeVars
  <1>1. CASE OcSync(c) \/ SstpSync(c) \/ SshSync(c) \/ PptpSync(c)
    BY <1>1 DEF OcSync, SstpSync, SshSync, PptpSync
  <1>2. CASE MtSync(c)
    BY <1>2 DEF MtSync, MtSyncUser
  <1>3. CASE GreSync(c) \/ SbSync(c)
    BY <1>3 DEF GreSync, SbSync
  <1>4. CASE Restart(c) \/ Shutdown(c)
    BY <1>4 DEF Restart, Shutdown
  <1> QED
    BY <1>1, <1>2, <1>3, <1>4 DEF Request

\* So a request leaves the invariant to the steps that follow it.
LEMMA ProcessRequest ==
    ASSUME OneCaller, ProcessInv, NEW c \in Caller, Request(c)
    PROVE  ProcessInv'
  <1>1. /\ at[c] = "idle" /\ Caller = {c}
        /\ UNCHANGED <<kind, file, accounts, missed, snap, failed, process, alive, serves, link,
                       waitDone, closed, panicked, running, lowering, guard, dropped>>
        /\ \/ ~dropped /\ Go(c, "snapshot") /\ job' = job
           \/ ~dropped /\ Go(c, "stop") /\ job' = [job EXCEPT ![c] = "restart"]
           \/ Go(c, "stop") /\ job' = [job EXCEPT ![c] = "shutdown"]
           \/ Go(c, "idle") /\ job' = job /\ (kind = "gre" \/ store' = store)
    BY RequestDoes DEF OneCaller
  <1>2. ProcessTypes'
    BY <1>1 DEF ProcessInv, ProcessTypes, Go
  <1>3. /\ at'[c] \in {"snapshot", "stop", "idle"}
        /\ at'[c] = "idle" => kind = "gre" \/ store' = store
        /\ dropped => at'[c] = "idle" \/ (at'[c] = "stop" /\ job'[c] = "shutdown")
    <2> USE DEF ProcessInv, ProcessTypes, Go
    <2>1. CASE ~dropped
      BY <1>1, <2>1
    <2>2. CASE Go(c, "stop") /\ job' = [job EXCEPT ![c] = "shutdown"]
      BY <1>1, <2>2
    <2>3. CASE Go(c, "idle") /\ (kind = "gre" \/ store' = store)
      BY <1>1, <2>3
    <2> QED
      BY <1>1, <2>1, <2>2, <2>3
  <1>4. OneProcess' /\ NothingRuns' /\ Waits' /\ Dropped' /\ WritesTable' /\ NoPanic'
    BY <1>1, <1>3
       DEF ProcessInv, OneProcess, NothingRuns, Waits, Dropped, WritesTable, NoPanic
  <1>5. Agrees'
    BY <1>1, <1>3 DEF ProcessInv, Agrees, HaveAccounts, Filed
  <1> QED
    BY <1>2, <1>4, <1>5 DEF ProcessInv

\* Writing: the file is the table, or the caller has the error.
LEMMA ProcessWrite ==
    ASSUME OneCaller, ProcessInv, NEW c \in Caller,
           \/ Snapshot(c) \/ SyncSystemUsers(c) \/ OcWritePasswd(c) \/ SstpWriteUsers(c)
           \/ SshWriteUsers(c) \/ PptpWriteChapSecrets(c)
    PROVE  ProcessInv'
  <1>1. Caller = {c} /\ panicked = FALSE
    BY DEF OneCaller, ProcessInv, NoPanic
  <1> USE DEF ProcessInv, ProcessTypes, Go, At, procVars, chanVars, lifeVars
  <1>2. CASE Snapshot(c)
    <2>1. at'[c] = "write" /\ snap'[c] = store
      BY <1>2 DEF Snapshot
    <2>2. ProcessTypes'
      BY <1>2 DEF Snapshot
    <2> QED
      BY <1>1, <1>2, <2>1, <2>2
         DEF Snapshot, OneProcess, NothingRuns, Waits, Dropped, WritesTable, Agrees, HaveAccounts, NoPanic
  <1>3. CASE SyncSystemUsers(c)
    <2>1. at[c] = "accounts" /\ at'[c] = "idle" /\ kind = "ssh" /\ HaveAccounts'
      BY <1>3, MakeHas DEF SyncSystemUsers
    <2>2. ProcessTypes'
      BY <1>3 DEF SyncSystemUsers
    <2>3. Agrees'
      BY <1>1, <1>3, <2>1 DEF SyncSystemUsers, Agrees, WritesTable
    <2> QED
      BY <1>1, <1>3, <2>1, <2>2, <2>3
         DEF SyncSystemUsers, OneProcess, NothingRuns, Waits, Dropped, WritesTable, NoPanic
  <1>4. ASSUME NEW next \in {"idle", "accounts"}, Write(c, next), kind \in Filed,
               kind = "ssh" <=> next = "accounts"
        PROVE  ProcessInv'
    <2>1. /\ at[c] = "write" /\ snap[c] = store /\ ~dropped
          /\ \/ file' = store /\ at'[c] = next
             \/ file' = file /\ failed' = TRUE /\ at'[c] = "idle"
      BY <1>4 DEF Write, WritesTable, Dropped
    <2>2. ProcessTypes'
      BY <1>4 DEF Write
    <2>3. OneProcess' /\ NothingRuns' /\ Waits' /\ Dropped' /\ NoPanic'
      BY <1>1, <1>4, <2>1 DEF Write, OneProcess, NothingRuns, Waits, Dropped, NoPanic
    <2>4. WritesTable'
      BY <1>1, <1>4, <2>1 DEF Write, WritesTable
    <2>5. Agrees'
      BY <1>1, <1>4, <2>1 DEF Write, Agrees, HaveAccounts, Filed
    <2> QED
      BY <2>2, <2>3, <2>4, <2>5
  <1> QED
    BY <1>2, <1>3, <1>4
       DEF OcWritePasswd, SstpWriteUsers, SshWriteUsers, PptpWriteChapSecrets, Filed

\* A Restart goes on with the renewal, the owner's Shutdown drops the backend.
LEMMA StoppedDoes ==
    ASSUME OneCaller, ProcessInv, NEW c \in Caller, at[c] \in {"stop", "wait"}, Stopped(c)
    PROVE  /\ at'[c] = (IF job[c] = "restart" THEN "renew" ELSE "idle")
           /\ dropped' = (dropped \/ job[c] = "shutdown")
           /\ dropped => job[c] = "shutdown"
  BY DEF OneCaller, ProcessInv, ProcessTypes, Go, Stopped, Dropped

\* Shutdown, by itself or in a Restart: when it is over nothing runs.
LEMMA ProcessLife ==
    ASSUME OneCaller, ProcessInv, NEW c \in Caller,
           \/ OcLife(c) \/ SstpLife(c) \/ SshLife(c) \/ PptpLife(c) \/ MtLife(c)
           \/ GreLife(c) \/ SbLife(c)
    PROVE  ProcessInv'
  <1>1. Caller = {c} /\ panicked = FALSE /\ c \notin {"free", "done"}
    BY ProcessAssumption DEF OneCaller, ProcessInv, NoPanic, ProcessAssumption
  <1> USE DEF ProcessInv, ProcessTypes, Go, At, tableVars, procVars, chanVars, lifeVars
  <1>2. CASE Stop(c) /\ kind \notin {"gre", "singbox"}
    <2>1. CASE guard = "done"
      <3>1. /\ Stopped(c) /\ at[c] = "stop"
            /\ UNCHANGED <<guard, running, alive, kind, file, accounts, missed, store, snap, failed,
                           serves, process, link, waitDone, closed, panicked, lowering, job>>
        BY <1>2, <2>1, <1>1 DEF Stop
      <3>2. alive = {} /\ ~running
        BY <2>1 DEF NothingRuns
      <3>3. /\ at'[c] = (IF job[c] = "restart" THEN "renew" ELSE "idle")
            /\ dropped' = (dropped \/ job[c] = "shutdown")
            /\ dropped => job[c] = "shutdown"
        BY <3>1, StoppedDoes
      <3>4. ProcessTypes'
        BY <3>1, <3>3 DEF Stopped
      <3> QED
        BY <1>1, <3>1, <3>2, <3>3, <3>4
           DEF OneProcess, NothingRuns, Waits, Dropped, WritesTable, Agrees, HaveAccounts, NoPanic
    <2>2. CASE guard # "done"
      <3>1. /\ at[c] = "stop" /\ at'[c] = "wait" /\ guard' = c /\ running' = FALSE
            /\ UNCHANGED <<alive, kind, file, accounts, missed, store, snap, failed, dropped,
                           serves, process, link, waitDone, closed, panicked, lowering, job>>
        BY <1>1, <1>2, <2>2 DEF Stop
      <3>2. ProcessTypes'
        BY <1>2, <3>1, <2>2 DEF Stop
      <3> QED
        BY <1>1, <1>2, <3>1, <3>2
           DEF OneProcess, NothingRuns, Waits, Dropped, WritesTable, Agrees, HaveAccounts, NoPanic
    <2> QED
      BY <2>1, <2>2
  <1>3. CASE Waited(c) /\ kind \notin {"gre", "singbox"}
    <2>1. /\ at[c] = "wait" /\ guard = c /\ guard' = "done" /\ panicked' = FALSE
          /\ Stopped(c)
          /\ UNCHANGED <<running, alive, kind, accounts, missed, store, snap, failed,
                         serves, process, link, waitDone, closed, lowering, job>>
      BY <1>3 DEF Waited, Waits
    <2>2. alive = {} /\ ~running
      BY <1>3, <2>1 DEF Waited, Ended, OneCaller, OneProcess, Waits
    <2>3. /\ at'[c] = (IF job[c] = "restart" THEN "renew" ELSE "idle")
          /\ dropped' = (dropped \/ job[c] = "shutdown")
          /\ dropped => job[c] = "shutdown"
      BY <2>1, StoppedDoes
    <2>4. ProcessTypes'
      BY <2>1, <2>3 DEF Stopped
    <2> QED
      BY <1>1, <1>3, <2>1, <2>2, <2>3, <2>4
         DEF OneProcess, NothingRuns, Waits, Dropped, WritesTable, Agrees, HaveAccounts, NoPanic
  <1>4. CASE (Renew(c) /\ kind # "singbox") \/ (SbRenew(c) /\ kind = "singbox")
    <2>1. /\ at[c] = "renew" /\ at'[c] = "start" /\ waitDone' = waitDone + 1
          /\ guard' = "free" \/ (guard' = guard /\ kind = "singbox")
          /\ UNCHANGED <<running, alive, kind, file, accounts, missed, store, snap, failed, dropped,
                         serves, process, link, closed, panicked, lowering, job>>
      BY <1>4 DEF Renew, SbRenew
    <2>2. ProcessTypes' /\ waitDone' \notin closed
      BY <1>4, <2>1 DEF Renew, SbRenew
    <2> QED
      BY <1>1, <2>1, <2>2
         DEF OneProcess, NothingRuns, Waits, Dropped, WritesTable, Agrees, HaveAccounts, NoPanic
  <1>5. CASE GreStop(c) /\ kind = "gre"
    <2>1. /\ at[c] = "stop" /\ Stopped(c) /\ guard' = "done"
          /\ alive = {} /\ running' = FALSE
          /\ UNCHANGED <<alive, kind, file, accounts, missed, store, snap, failed,
                         serves, process, waitDone, closed, panicked, lowering, job>>
      BY <1>5 DEF GreStop, NothingRuns, Waits
    <2>2. /\ at'[c] = (IF job[c] = "restart" THEN "renew" ELSE "idle")
          /\ dropped' = (dropped \/ job[c] = "shutdown")
          /\ dropped => job[c] = "shutdown"
      BY <2>1, StoppedDoes
    <2>3. ProcessTypes'
      BY <2>1, <2>2 DEF Stopped
    <2> QED
      BY <1>1, <1>5, <2>1, <2>2, <2>3
         DEF OneProcess, NothingRuns, Waits, Dropped, WritesTable, Agrees, HaveAccounts, NoPanic
  <1>6. CASE SbStop(c) /\ kind = "singbox"
    <2>1. /\ at[c] = "stop" /\ at'[c] = "wait" /\ guard' = c
          /\ UNCHANGED <<running, alive, kind, file, accounts, missed, store, snap, failed, dropped,
                         serves, process, link, waitDone, closed, panicked, lowering, job>>
      BY <1>6 DEF SbStop
    <2>2. ProcessTypes'
      BY <1>6, <2>1 DEF SbStop
    <2> QED
      BY <1>1, <1>6, <2>1, <2>2
         DEF OneProcess, NothingRuns, Waits, Dropped, WritesTable, Agrees, HaveAccounts, NoPanic
  <1>7. CASE SbWaited(c) /\ kind = "singbox"
    <2>1. /\ at[c] = "wait" /\ guard' = "free" /\ running' = FALSE /\ Stopped(c)
          /\ UNCHANGED <<alive, kind, file, accounts, missed, store, snap, failed,
                         serves, process, link, waitDone, closed, panicked, lowering, job>>
      BY <1>7 DEF SbWaited
    <2>2. alive = {}
      BY <1>7, <2>1 DEF SbWaited, Ended, OneCaller, OneProcess, Waits
    <2>3. /\ at'[c] = (IF job[c] = "restart" THEN "renew" ELSE "idle")
          /\ dropped' = (dropped \/ job[c] = "shutdown")
          /\ dropped => job[c] = "shutdown"
      BY <2>1, StoppedDoes
    <2>4. ProcessTypes'
      BY <2>1, <2>3 DEF Stopped
    <2> QED
      BY <1>1, <1>7, <2>1, <2>2, <2>3, <2>4
         DEF OneProcess, NothingRuns, Waits, Dropped, WritesTable, Agrees, HaveAccounts, NoPanic
  <1> QED
    BY <1>2, <1>3, <1>4, <1>5, <1>6, <1>7
       DEF OcLife, SstpLife, SshLife, PptpLife, MtLife, GreLife, SbLife

\* start: the new process has the table and a channel of its own, or the caller
\* has the error.
LEMMA ProcessStart ==
    ASSUME OneCaller, ProcessInv, NEW c \in Caller,
           \/ OcStart(c) \/ SstpStart(c) \/ SshStart(c) \/ PptpStart(c) \/ MtStart(c)
           \/ GreStart(c) \/ SbStart(c)
    PROVE  ProcessInv'
  <1>1. Caller = {c} /\ panicked = FALSE
    BY DEF OneCaller, ProcessInv, NoPanic
  <1>2. at[c] = "start" => alive = {} /\ waitDone \notin closed /\ guard # "done" /\ ~dropped
    BY DEF ProcessInv, NothingRuns, Dropped
  <1> USE DEF ProcessInv, ProcessTypes, Go, At, StartFrame, chanVars, procVars
  <1>3. ASSUME Launch(c), kind # "gre", failed' \in BOOLEAN,
               ~failed' => /\ kind \in Filed => file' = store
                           /\ kind = "ssh" => HaveAccounts'
        PROVE  ProcessInv'
    <2>1. /\ at[c] = "start" /\ at'[c] = "idle" /\ running' = TRUE
          /\ alive' = alive \cup {process'} /\ serves' = Given(store)
          /\ UNCHANGED <<kind, store, snap, waitDone, closed, panicked, lowering, guard, dropped,
                         job, link>>
      BY <1>3 DEF Launch
    <2>2. ProcessTypes'
      BY <1>3, <2>1 DEF Launch
    <2>3. OneProcess' /\ NothingRuns' /\ Waits' /\ Dropped' /\ WritesTable' /\ NoPanic'
      BY <1>1, <1>2, <1>3, <2>1
         DEF OneProcess, NothingRuns, Waits, Dropped, WritesTable, NoPanic
    <2>4. Agrees'
      <3>1. kind \in {"mtproto", "singbox"} => serves' = store
        BY <2>1 DEF Given
      <3> QED
        BY <1>3, <2>1, <3>1 DEF Agrees
    <2> QED
      BY <2>2, <2>3, <2>4
  <1>4. ASSUME GiveUp(c) PROVE ProcessInv'
    <2>1. /\ at[c] = "start" /\ at'[c] = "idle" /\ failed' = TRUE
          /\ UNCHANGED <<kind, store, snap, waitDone, closed, panicked, lowering, guard, dropped,
                         job, link, alive, process, running>>
      BY <1>4 DEF GiveUp
    <2>2. ProcessTypes'
      BY <1>4, <2>1 DEF GiveUp
    <2> QED
      BY <1>1, <1>2, <2>1, <2>2
         DEF OneProcess, NothingRuns, Waits, Dropped, WritesTable, Agrees, HaveAccounts, NoPanic
  <1>5. CASE OcStart(c) \/ SstpStart(c) \/ PptpStart(c) \/ SbStart(c)
    <2>1. CASE Launch(c) /\ file' = store /\ failed' = FALSE
      BY <1>3, <1>5, <2>1 DEF OcStart, SstpStart, PptpStart, SbStart, Filed
    <2> QED
      BY <1>4, <1>5, <2>1 DEF OcStart, SstpStart, PptpStart, SbStart, StartWith
  <1>6. CASE SshStart(c)
    <2>1. CASE Launch(c) /\ file' = store /\ MakeAccounts /\ failed' = FALSE
      <3>1. HaveAccounts'
        BY <2>1, MakeHas DEF Launch
      <3> QED
        BY <1>3, <1>6, <2>1, <3>1 DEF SshStart
    <2> QED
      BY <1>4, <1>6, <2>1 DEF SshStart
  <1>7. CASE MtStart(c)
    <2>1. CASE Launch(c) /\ failed' = FALSE
      BY <1>3, <1>7, <2>1 DEF MtStart, Filed
    <2> QED
      BY <1>4, <1>7, <2>1 DEF MtStart
  <1>8. CASE GreStart(c)
    <2>1. /\ at[c] = "start" /\ at'[c] = "idle" /\ kind = "gre"
          /\ UNCHANGED <<kind, store, snap, waitDone, closed, panicked, lowering, guard, dropped,
                         job, alive, process, file>>
          /\ link' = "up" \/ running' = running
      BY <1>8 DEF GreStart
    <2>2. ProcessTypes'
      BY <1>8, <2>1 DEF GreStart
    <2>3. running' = TRUE => link' = "up"
      BY <1>2, <1>8, <2>1 DEF GreStart, Waits, NothingRuns
    <2> QED
      BY <1>1, <1>2, <2>1, <2>2, <2>3
         DEF OneProcess, NothingRuns, Waits, Dropped, WritesTable, Agrees, HaveAccounts, NoPanic, Filed
  <1> QED
    BY <1>5, <1>6, <1>7, <1>8

\* A process that ends is the only one, and closes its channel for the first time.
LEMMA ProcessExit ==
    ASSUME OneCaller, ProcessInv, NEW p, Exit(p)
    PROVE  ProcessInv'
  <1>1. /\ p \in alive /\ alive' = alive \ {p} /\ closed' = closed \cup {waitDone}
        /\ panicked' = (waitDone \in closed)
        /\ UNCHANGED <<kind, store, file, accounts, missed, snap, failed, process, serves, link,
                       waitDone, running, guard, dropped, at, job>>
    BY DEF Exit, tableVars
  <1>2. alive' = {} /\ ~panicked'
    <2>1. alive = {process} /\ p = process /\ waitDone \notin closed
      BY <1>1 DEF ProcessInv, OneProcess
    <2>2. alive' = {}
      BY <1>1, <2>1
    <2>3. ~panicked'
      BY <1>1, <2>1
    <2> QED
      BY <2>2, <2>3
  <1>3. lowering' \in BOOLEAN
    BY DEF Exit
  <1>4. ProcessTypes'
    BY <1>1, <1>3 DEF ProcessInv, ProcessTypes
  <1>5. NothingRuns'
    BY <1>1, <1>2 DEF ProcessInv, NothingRuns
  <1> QED
    BY <1>1, <1>2, <1>4, <1>5
       DEF ProcessInv, OneProcess, Waits, Dropped, WritesTable, Agrees, HaveAccounts, NoPanic

\* Every step preserves the invariant, whichever package it is a step of.
LEMMA ProcessHolds == OneCaller => (Spec => []ProcessInv)
  <1> SUFFICES ASSUME OneCaller PROVE Spec => []ProcessInv
    OBVIOUS
  <1>1. ProcessInv /\ [Next]_vars => ProcessInv'
    <2> SUFFICES ASSUME ProcessInv, [Next]_vars PROVE ProcessInv'
      OBVIOUS
    <2>1. ASSUME NEW c \in Caller, CallerStep(c) PROVE ProcessInv'
      BY <2>1, ProcessWrite, ProcessLife, ProcessStart DEF CallerStep
    <2>2. CASE SbLower \/ UNCHANGED vars
      <3>1. /\ UNCHANGED <<kind, store, file, accounts, missed, snap, failed, process, alive, serves,
                           link, waitDone, closed, panicked, guard, dropped, at, job>>
            /\ \/ running' = running /\ lowering' = lowering
               \/ running' = FALSE /\ lowering' = FALSE
        BY <2>2 DEF SbLower, vars, tableVars, procVars, chanVars, lifeVars
      <3>2. /\ running' \in BOOLEAN /\ lowering' \in BOOLEAN
            /\ ~running => ~running'
        <4>1. running \in BOOLEAN /\ lowering \in BOOLEAN
          BY DEF ProcessInv, ProcessTypes
        <4>2. CASE running' = running /\ lowering' = lowering
          BY <4>1, <4>2
        <4>3. CASE running' = FALSE /\ lowering' = FALSE
          BY <4>3
        <4> QED
          BY <3>1, <4>2, <4>3
      <3>3. ProcessTypes'
        BY <3>1, <3>2 DEF ProcessInv, ProcessTypes
      <3> QED
        BY <3>1, <3>2, <3>3
           DEF ProcessInv, OneProcess, NothingRuns, Waits, Dropped, WritesTable, Agrees, HaveAccounts, NoPanic
    <2> QED
      BY <2>1, <2>2, ProcessRequest, ProcessExit DEF Next
  <1> QED
    BY ProcessInit, <1>1, PTL DEF Spec

\* Between calls only o.process runs, nothing does after the owner's Shutdown, a tunnel
\* that is said to run is up, and unless a call returned an error whatever the server asks
\* to admit a user has what the table has, but for the SSH accounts whose tools failed.
THEOREM TableIsServed == OneCaller => (Spec => []ServesUsers)
  <1> SUFFICES ASSUME OneCaller PROVE Spec => []ServesUsers
    OBVIOUS
  <1>1. ProcessInv => ServesUsers
    BY DEF ProcessInv, ServesUsers, Quiet, OneProcess, Waits, Dropped, Agrees, HaveAccounts, Filed
  <1> QED
    BY ProcessHolds, <1>1, PTL
=============================================================================
