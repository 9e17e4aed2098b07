--------------------------- MODULE ProcessBackend ---------------------------
(***************************************************************************)
(* The backends that keep a table of users and run a server program:       *)
(* OpenConnect, SSTP, SSH, PPTP, MTProto, GRE and the sing-box sidecar of  *)
(* Xray.  The packages repeat one life cycle - start, Restart, Shutdown,   *)
(* and a goroutine per process that waits for it and then closes the       *)
(* waitDone of that moment - and differ in what they keep of a user, where *)
(* the server finds it and what Shutdown does.  kind names the package; a  *)
(* behaviour is one backend of one package.                                *)
(*                                                                         *)
(* Callers are requests and the owner; nothing but the locks of the table  *)
(* and of sync.Once orders them.  A user is the part of the message that a *)
(* package looks at: the e-mail, the name and the password (or peer        *)
(* address, or secret) of its settings, and whether the inbound is listed. *)
(***************************************************************************)
EXTENDS Naturals, Sequences
LOCAL INSTANCE SequencesExt

CONSTANTS
    Caller,    \* goroutines that use the backend
    User,      \* users as they arrive: [email, name, pass, tag]
    Lists,     \* lists of users as they arrive
    MaxStarts, \* bound: restarts
    Slow,      \* a killed process may outlive the five seconds Shutdown waits
    None       \* the empty string, and settings that are not there

ASSUME ProcessAssumption ==
    MaxStarts \in Nat /\ Slow \in BOOLEAN /\ {"free", "done"} \cap Caller = {}

Process == 0..MaxStarts

VARIABLES
    kind, pinned,               \* the package; MTProto: the configuration has a secret
    store,                      \* the table: users, or in.Users, or the secret
    file, accounts,             \* what was written; SSH: the accounts of the system
    missed,                     \* history: the users whose account was not made or changed
    snap,                       \* the copy of the table a caller is about to write
    failed,                     \* the last write or start returned an error
    process, started,           \* o.process and the number of starts
    alive, killed,              \* processes that run, and of those the killed ones
    serves,                     \* MTProto, sing-box: what the last process was given
    link,                       \* GRE: the tunnel interface
    running, lowering,          \* o.state; sing-box: a goroutine is about to clear it
    waitDone, closed, panicked, \* the channel of this number; the closed ones
    guard,                      \* shutdownOnce or s.mu: "free", "done" or who is in it
    at, job, dropped            \* where callers are and why; the owner has shut it down

tableVars == <<store, file, accounts, missed, snap, failed>>
procVars == <<process, started, alive, killed, serves, link>>
chanVars == <<waitDone, closed, panicked>>
lifeVars == <<running, lowering, guard, dropped>>
vars == <<kind, pinned, tableVars, procVars, chanVars, lifeVars, at, job>>

Empty == [x \in {} |-> None]
Put(f, x, v) == [y \in DOMAIN f \cup {x} |-> IF y = x THEN v ELSE f[y]]
Drop(f, x) == [y \in DOMAIN f \ {x} |-> f[y]]
Merge(f, g) == [y \in DOMAIN f \cup DOMAIN g |-> IF y \in DOMAIN g THEN g[y] ELSE f[y]]

\* The entries of list l at the positions I, by field; of two the later one stays.
Table(l, I, field) ==
    [x \in {l[i][field] : i \in I} |->
        l[CHOOSE i \in I : l[i][field] = x /\ \A j \in I : l[j][field] = x => j <= i].pass]

-----------------------------------------------------------------------------
(* What each package keeps of a user.                                      *)

OcWants(u) == u.name # None /\ u.pass # None /\ u.tag
OcReplaceAll(l) == Table(l, {i \in DOMAIN l : OcWants(l[i])}, "name")
OcApplyUser(u) == IF OcWants(u) THEN Put(store, u.name, u.pass) ELSE Drop(store, u.email)

\* An empty password is accepted.
SstpWants(u) == u.name # None /\ u.tag
SstpReplaceAll(l) == Table(l, {i \in DOMAIN l : SstpWants(l[i])}, "name")
SstpApply(u) == IF SstpWants(u) THEN Put(store, u.name, u.pass) ELSE Drop(store, u.email)

SshWants(u) == u.name # None /\ u.tag
SshReplaceAll(l) == Table(l, {i \in DOMAIN l : SshWants(l[i])}, "name")
SshApply(u) == IF SshWants(u) THEN Put(store, u.name, u.pass) ELSE Drop(store, u.email)

\* The one package in which a partial list changes the users it names, and no others.
PptpWants(u) == u.name # None /\ u.pass # None /\ u.tag
PptpReplaceAll(l) == Table(l, {i \in DOMAIN l : PptpWants(l[i])}, "name")
PptpApplyUser(table, u) == IF PptpWants(u) THEN Put(table, u.name, u.pass) ELSE Drop(table, u.email)
PptpApplyUsers(l) == FoldLeft(PptpApplyUser, store, l)

\* By e-mail; the tunnel does not depend on it.
GreWants(u) == u.name # None /\ u.tag
GreReplaceUsers(l) == Table(l, {i \in DOMAIN l : GreWants(l[i])}, "email")
GreSyncUser(u) == IF GreWants(u) THEN Put(store, u.email, u.pass) ELSE Drop(store, u.email)

\* sing-box: the users of an inbound go into the configuration (anytls).
SbBuildConfig(l) == Table(l, {i \in DOMAIN l : l[i].pass # None /\ l[i].tag}, "email")

\* MTProto has one secret for everyone: the configured one, or that of the first
\* user who has one.
Secret(s) == IF s = None THEN Empty ELSE [x \in {None} |-> s]
MtWants(u) == u.pass # None /\ u.tag
PickSecret(l) ==
    LET I == {i \in DOMAIN l : MtWants(l[i])}
    IN  IF pinned THEN Secret("configured")
        ELSE IF I = {} THEN Empty
        ELSE Secret(l[CHOOSE i \in I : \A j \in I : i <= j].pass)

-----------------------------------------------------------------------------
(* New: the table is filled, written and given to the first process.       *)

\* These two read their users when they start, and not again.
Given(table) == IF kind \in {"mtproto", "singbox"} THEN table ELSE Empty

\* useradd and chpasswd for every user of the table, whatever they answer: they work
\* for the users of S, and no account is ever removed.
Made(before, table, S) == Merge(before, [x \in S |-> table[x]])

Fresh(name, table, written, S) ==
    /\ kind = name /\ store = table /\ file = written
    /\ accounts = Made(Empty, table, S)
    /\ missed = IF name = "ssh" THEN DOMAIN table \ S ELSE {}
    /\ link = IF name = "gre" THEN "up" ELSE "none"
    /\ alive = IF name = "gre" THEN {} ELSE {0}

OcNew(l) == Fresh("openconnect", OcReplaceAll(l), OcReplaceAll(l), {})
SstpNew(l) == Fresh("sstp", SstpReplaceAll(l), SstpReplaceAll(l), {})
SshNew(l) == \E S \in SUBSET DOMAIN SshReplaceAll(l) :
    Fresh("ssh", SshReplaceAll(l), SshReplaceAll(l), S)
PptpNew(l) == Fresh("pptp", PptpReplaceAll(l), PptpReplaceAll(l), {})
GreNew(l) == Fresh("gre", GreReplaceUsers(l), Empty, {})
SbNew(l) == Fresh("singbox", SbBuildConfig(l), SbBuildConfig(l), {})
MtNew(l) == PickSecret(l) # Empty /\ Fresh("mtproto", PickSecret(l), Empty, {})

Init ==
    /\ pinned \in BOOLEAN
    /\ \E l \in Lists :
        \/ ~pinned /\ \/ OcNew(l) \/ SstpNew(l) \/ SshNew(l) \/ PptpNew(l) \/ GreNew(l)
                      \/ SbNew(l)
        \/ MtNew(l)
    /\ snap = [c \in Caller |-> Empty] /\ failed = FALSE
    /\ process = 0 /\ started = 0 /\ killed = {}
    /\ serves = Given(store)
    /\ running = TRUE /\ lowering = FALSE /\ guard = "free" /\ dropped = FALSE
    /\ waitDone = 0 /\ closed = {} /\ panicked = FALSE
    /\ at = [c \in Caller |-> "idle"] /\ job = [c \in Caller |-> "restart"]

Go(c, label) == at' = [at EXCEPT ![c] = label]
Ready(c) == ~panicked /\ at[c] = "idle" /\ ~dropped /\ waitDone < MaxStarts
At(c, label) == ~panicked /\ at[c] = label

-----------------------------------------------------------------------------
(* Requests: one user, a list, a list with a restart.  In PPTP one user is *)
(* a partial list, in the other packages a partial list is a full one.     *)

\* A table goes to the file, or comes with a restart.
ToFile(c, table) == store' = table /\ Go(c, "snapshot") /\ UNCHANGED job
ToRestart(c, table) ==
    store' = table /\ Go(c, "stop") /\ job' = [job EXCEPT ![c] = "restart"]
Answered(c) == Go(c, "idle") /\ UNCHANGED job

SyncFrame == UNCHANGED <<kind, pinned, file, accounts, missed, snap, failed, procVars, chanVars, lifeVars>>

OcSync(c) ==
    /\ Ready(c) /\ kind = "openconnect"
    /\ \/ \E u \in User : ToFile(c, OcApplyUser(u))
       \/ \E l \in Lists : ToFile(c, OcReplaceAll(l)) \/ ToRestart(c, OcReplaceAll(l))
    /\ SyncFrame

SstpSync(c) ==
    /\ Ready(c) /\ kind = "sstp"
    /\ \/ \E u \in User : ToFile(c, SstpApply(u))
       \/ \E l \in Lists : ToFile(c, SstpReplaceAll(l)) \/ ToRestart(c, SstpReplaceAll(l))
    /\ SyncFrame

SshSync(c) ==
    /\ Ready(c) /\ kind = "ssh"
    /\ \/ \E u \in User : ToFile(c, SshApply(u))
       \/ \E l \in Lists : ToFile(c, SshReplaceAll(l)) \/ ToRestart(c, SshReplaceAll(l))
    /\ SyncFrame

PptpSync(c) ==
    /\ Ready(c) /\ kind = "pptp"
    /\ \/ \E l \in Lists : ToFile(c, PptpApplyUsers(l))
       \/ \E l \in Lists : ToFile(c, PptpReplaceAll(l)) \/ ToRestart(c, PptpReplaceAll(l))
    /\ SyncFrame

\* Nothing is written: the table is all there is.
GreSync(c) ==
    /\ Ready(c) /\ kind = "gre"
    /\ \/ \E u \in User : store' = GreSyncUser(u) /\ Answered(c)
       \/ \E l \in Lists : store' = GreReplaceUsers(l) /\ Answered(c)
       \/ \E l \in Lists : ToRestart(c, GreReplaceUsers(l))
    /\ SyncFrame

\* in.Users is set under s.mu, and Restart follows.
SbSync(c) ==
    /\ Ready(c) /\ kind = "singbox" /\ guard = "free"
    /\ \E l \in Lists : ToRestart(c, SbBuildConfig(l))
    /\ SyncFrame

\* SyncUser takes the user's secret even if one is configured.
MtSyncUser(c, u) ==
    IF MtWants(u) /\ store # Secret(u.pass) THEN ToRestart(c, Secret(u.pass))
    ELSE Answered(c) /\ UNCHANGED store

\* SyncUsers keeps the secret when the list has none; UpdateUsersAndRestart does not.
MtSync(c) ==
    /\ Ready(c) /\ kind = "mtproto"
    /\ \/ \E u \in User : MtSyncUser(c, u)
       \/ \E l \in Lists : IF PickSecret(l) \notin {Empty, store} THEN ToRestart(c, PickSecret(l))
                           ELSE Answered(c) /\ UNCHANGED store
       \/ \E l \in Lists : ToRestart(c, PickSecret(l))
    /\ SyncFrame

\* x.Restart restarts the sidecar, the panel or a watchdog any other backend.
Restart(c) == Ready(c) /\ ToRestart(c, store) /\ SyncFrame

\* The owner may call it again.
Shutdown(c) ==
    /\ At(c, "idle") /\ Go(c, "stop") /\ job' = [job EXCEPT ![c] = "shutdown"]
    /\ UNCHANGED store /\ SyncFrame

-----------------------------------------------------------------------------
(* The file the server reads, written from a copy of the table.            *)

Snapshot(c) ==
    /\ At(c, "snapshot") /\ snap' = [snap EXCEPT ![c] = store] /\ Go(c, "write")
    /\ UNCHANGED <<kind, pinned, store, file, accounts, missed, failed, procVars, chanVars, lifeVars, job>>

\* The file is the copy, or the error goes to the caller; SSH then makes accounts.
Write(c, next) ==
    /\ At(c, "write")
    /\ \/ file' = snap[c] /\ failed' = FALSE /\ Go(c, next)
       \/ UNCHANGED file /\ failed' = TRUE /\ Go(c, "idle")
    /\ snap' = [snap EXCEPT ![c] = Empty]
    /\ UNCHANGED <<kind, pinned, store, accounts, missed, procVars, chanVars, lifeVars, job>>

OcWritePasswd(c) == kind = "openconnect" /\ Write(c, "idle")
SstpWriteUsers(c) == kind = "sstp" /\ Write(c, "idle")
SshWriteUsers(c) == kind = "ssh" /\ Write(c, "accounts")
PptpWriteChapSecrets(c) == kind = "pptp" /\ Write(c, "idle")

\* syncSystemUsers has no result: the caller's answer is success.
MakeAccounts == \E S \in SUBSET DOMAIN store :
    accounts' = Made(accounts, store, S) /\ missed' = DOMAIN store \ S

SyncSystemUsers(c) ==
    /\ kind = "ssh" /\ At(c, "accounts")
    /\ MakeAccounts /\ Go(c, "idle")
    /\ UNCHANGED <<kind, pinned, store, file, snap, failed, procVars, chanVars, lifeVars, job>>

-----------------------------------------------------------------------------
(* Restart and Shutdown.                                                   *)

\* Shutdown is over.
Stopped(c) ==
    IF job[c] = "restart" THEN Go(c, "renew") /\ UNCHANGED dropped
    ELSE Go(c, "idle") /\ dropped' = TRUE

\* shutdownOnce.Do: the first caller kills o.process, a later one has nothing to do.
Stop(c) ==
    /\ At(c, "stop")
    /\ \/ /\ guard = "free" /\ guard' = c
          /\ running' = FALSE /\ killed' = killed \cup ({process} \cap alive)
          /\ Go(c, "wait") /\ UNCHANGED dropped
       \/ guard = "done" /\ Stopped(c) /\ UNCHANGED <<guard, running, killed>>
    /\ UNCHANGED <<kind, pinned, tableVars, process, started, alive, serves, link, chanVars, lowering, job>>

\* waitDone is closed, or five seconds have passed because the process does not end
\* or never started.
Ended == waitDone \in closed \/ Slow \/ process \notin alive

\* Do marks the Once it entered; if a Restart has put a new one in its place, what
\* it unlocks is not locked.
Waited(c) ==
    /\ At(c, "wait") /\ Ended
    /\ guard' = "done" /\ panicked' = (guard # c)
    /\ file' = IF kind = "pptp" THEN Empty ELSE file
    /\ Stopped(c)
    /\ UNCHANGED <<kind, pinned, store, accounts, missed, snap, failed, procVars, waitDone, closed, running, lowering, job>>

\* Mutant: the channel of the last process is used again.
Renew_Reused(c) ==
    /\ At(c, "renew")
    /\ guard' = "free" /\ Go(c, "start")
    /\ UNCHANGED <<kind, pinned, tableVars, procVars, chanVars, running, lowering, dropped, job>>

\* A new channel and a new Once.
Renew(c) ==
    /\ At(c, "renew")
    /\ waitDone' = waitDone + 1 /\ guard' = "free" /\ Go(c, "start")
    /\ UNCHANGED <<kind, pinned, tableVars, procVars, closed, panicked, running, lowering, dropped, job>>

OcLife(c) == kind = "openconnect" /\ (Stop(c) \/ Waited(c) \/ Renew(c))
SstpLife(c) == kind = "sstp" /\ (Stop(c) \/ Waited(c) \/ Renew(c))
SshLife(c) == kind = "ssh" /\ (Stop(c) \/ Waited(c) \/ Renew(c))
PptpLife(c) == kind = "pptp" /\ (Stop(c) \/ Waited(c) \/ Renew(c))
MtLife(c) == kind = "mtproto" /\ (Stop(c) \/ Waited(c) \/ Renew(c))

\* GRE has no process: Shutdown deletes the interface, or fails to and tells nobody.
GreStop(c) ==
    /\ At(c, "stop")
    /\ \/ guard = "free" /\ guard' = "done" /\ running' = FALSE /\ link' \in {"none", link}
       \/ guard = "done" /\ UNCHANGED <<guard, running, link>>
    /\ Stopped(c)
    /\ UNCHANGED <<kind, pinned, tableVars, process, started, alive, killed, serves, chanVars, lowering, job>>

GreLife(c) == kind = "gre" /\ (GreStop(c) \/ Renew(c))

\* The sidecar has no Once: Shutdown holds s.mu while it waits, every time.
SbStop(c) ==
    /\ At(c, "stop") /\ guard = "free" /\ guard' = c
    /\ killed' = killed \cup ({process} \cap alive)
    /\ Go(c, "wait")
    /\ UNCHANGED <<kind, pinned, tableVars, process, started, alive, serves, link, chanVars,
                   running, lowering, dropped, job>>

SbWaited(c) ==
    /\ At(c, "wait") /\ Ended
    /\ guard' = "free" /\ running' = FALSE /\ Stopped(c)
    /\ UNCHANGED <<kind, pinned, tableVars, procVars, chanVars, lowering, job>>

SbRenew(c) ==
    /\ At(c, "renew") /\ waitDone' = waitDone + 1 /\ Go(c, "start")
    /\ UNCHANGED <<kind, pinned, tableVars, procVars, closed, panicked, lifeVars, job>>

SbLife(c) == kind = "singbox" /\ (SbStop(c) \/ SbWaited(c) \/ SbRenew(c))

-----------------------------------------------------------------------------
(* start                                                                   *)

StartFrame == UNCHANGED <<kind, pinned, store, snap, chanVars, lowering, guard, dropped, job>>

\* Mutant: o.process keeps naming the old process.
Launch_Untracked(c) ==
    /\ At(c, "start") /\ started < MaxStarts
    /\ started' = started + 1 /\ UNCHANGED process
    /\ alive' = alive \cup {started'}
    /\ serves' = Given(store)
    /\ running' = TRUE /\ Go(c, "idle")
    /\ UNCHANGED <<killed, link>> /\ StartFrame

\* The process runs; it was given the table of this moment.
Launch(c) ==
    /\ At(c, "start") /\ started < MaxStarts
    /\ started' = started + 1 /\ process' = started'
    /\ alive' = alive \cup {started'}
    /\ serves' = Given(store)
    /\ running' = TRUE /\ Go(c, "idle")
    /\ UNCHANGED <<killed, link>> /\ StartFrame

\* A step of start fails and its error is returned.
GiveUp(c) ==
    /\ At(c, "start") /\ failed' = TRUE /\ Go(c, "idle")
    /\ UNCHANGED <<procVars, running>> /\ StartFrame

\* A package that writes its files first.
StartWith(c) ==
    /\ \/ Launch(c) /\ file' = store /\ failed' = FALSE
       \/ GiveUp(c) /\ file' \in {file, store}
    /\ UNCHANGED <<accounts, missed>>

OcStart(c) == kind = "openconnect" /\ StartWith(c)
SstpStart(c) == kind = "sstp" /\ StartWith(c)
PptpStart(c) == kind = "pptp" /\ StartWith(c)
SbStart(c) == kind = "singbox" /\ StartWith(c)

\* The accounts come after the files and the host key, before the process.
SshStart(c) ==
    /\ kind = "ssh"
    /\ \/ Launch(c) /\ file' = store /\ MakeAccounts /\ failed' = FALSE
       \/ GiveUp(c) /\ \/ file' \in {file, store} /\ UNCHANGED <<accounts, missed>>
                       \/ file' = store /\ MakeAccounts

\* mtg is started with the secret, and not at all without one.
MtStart(c) ==
    /\ kind = "mtproto"
    /\ (store # Empty /\ Launch(c) /\ failed' = FALSE) \/ GiveUp(c)
    /\ UNCHANGED <<file, accounts, missed>>

\* The interface is deleted, added and set up.  The first may fail unnoticed, and then
\* an interface that is still there refuses the second.
GreStart(c) ==
    /\ kind = "gre" /\ At(c, "start") /\ Go(c, "idle")
    /\ \/ link' = "up" /\ running' = TRUE /\ failed' = FALSE
       \/ link' \in {link, "none", "down"} /\ failed' = TRUE /\ UNCHANGED running
    /\ UNCHANGED <<file, accounts, missed, process, started, alive, killed, serves>> /\ StartFrame

\* Mutant: the goroutine enters the guard of Shutdown before it closes the channel.
Exit_LocksFirst(p) ==
    /\ ~panicked /\ p \in alive /\ guard \notin Caller
    /\ alive' = alive \ {p} /\ killed' = killed \ {p}
    /\ closed' = closed \cup {waitDone} /\ panicked' = (waitDone \in closed)
    /\ lowering' = (lowering \/ kind = "singbox")
    /\ UNCHANGED <<kind, pinned, tableVars, process, started, serves, link, waitDone, running, guard,
                   dropped, at, job>>

\* A process ends, killed or by itself, and its goroutine closes o.waitDone as it is
\* now; to close a closed channel is a panic.  Only sing-box goes on to clear running.
Exit(p) ==
    /\ ~panicked /\ p \in alive
    /\ alive' = alive \ {p} /\ killed' = killed \ {p}
    /\ closed' = closed \cup {waitDone} /\ panicked' = (waitDone \in closed)
    /\ lowering' = (lowering \/ kind = "singbox")
    /\ UNCHANGED <<kind, pinned, tableVars, process, started, serves, link, waitDone, running, guard,
                   dropped, at, job>>

\* It takes s.mu for that; a Restart may have set running again by then.
SbLower ==
    /\ ~panicked /\ lowering /\ guard = "free"
    /\ running' = FALSE /\ lowering' = FALSE
    /\ UNCHANGED <<kind, pinned, tableVars, procVars, chanVars, guard, dropped, at, job>>

CallerStep(c) ==
    \/ Snapshot(c) \/ SyncSystemUsers(c)
    \/ OcWritePasswd(c) \/ SstpWriteUsers(c) \/ SshWriteUsers(c) \/ PptpWriteChapSecrets(c)
    \/ OcLife(c) \/ SstpLife(c) \/ SshLife(c) \/ PptpLife(c) \/ MtLife(c) \/ GreLife(c) \/ SbLife(c)
    \/ OcStart(c) \/ SstpStart(c) \/ SshStart(c) \/ PptpStart(c) \/ MtStart(c) \/ GreStart(c)
    \/ SbStart(c)

Request(c) ==
    \/ OcSync(c) \/ SstpSync(c) \/ SshSync(c) \/ PptpSync(c) \/ MtSync(c) \/ GreSync(c) \/ SbSync(c)
    \/ Restart(c) \/ Shutdown(c)

Next ==
    \/ \E c \in Caller : Request(c) \/ CallerStep(c)
    \/ \E p \in Process : Exit(p)
    \/ SbLower

Spec == Init /\ [][Next]_vars

\* A caller goes on, and a killed process ends.
Fairness ==
    /\ \A c \in Caller : WF_vars(CallerStep(c))
    /\ \A p \in Process : WF_vars(p \in killed /\ Exit(p))

FairSpec == Spec /\ Fairness

-----------------------------------------------------------------------------
(* Properties.                                                             *)

Quiet == ~panicked /\ \A c \in Caller : at[c] = "idle"

\* The node never dies of closing a closed channel or of a Once replaced under its
\* user, through any order of calls, failed starts and exits.
NoPanic == ~panicked

\* Between calls no process runs that o.process does not name, and none at all after the
\* owner's Shutdown; a tunnel that is said to run is up.  Unless the last call returned an
\* error, what the server asks to admit a user has what the table has: the file, what the
\* process was started with, and for SSH an account with the user's password, but for a
\* user whose useradd or chpasswd failed (sshvpn.go:213), which no answer tells.
ServesUsers ==
    Quiet =>
        /\ alive \ killed \subseteq (IF dropped THEN {} ELSE {process})
        /\ dropped => ~running
        /\ kind = "gre" /\ running => link = "up"
        /\ ~failed /\ ~dropped =>
            /\ kind \in {"openconnect", "sstp", "ssh", "pptp"} => file = store
            /\ kind = "ssh" => \A x \in DOMAIN store \ missed :
                                   x \in DOMAIN accounts /\ accounts[x] = store[x]
            /\ kind \in {"mtproto", "singbox"} => serves = store

\* A user the table has lost cannot log in.  Not so for SSH, whose accounts are never
\* removed (sshvpn.go:209).
RemovedHasNoAccount ==
    Quiet /\ ~failed /\ ~dropped /\ kind = "ssh" => DOMAIN accounts \subseteq DOMAIN store

\* The owner's Shutdown leaves no tunnel.  Not so when ip cannot delete it (gre.go:177).
TunnelIsDeleted == Quiet /\ dropped => link = "none"

\* A Restart or Shutdown comes to its end: nobody waits for a process whose goroutine
\* waits for the one who waits.
RestartEnds == \A c \in Caller : at[c] = "stop" ~> at[c] = "idle"
=============================================================================
