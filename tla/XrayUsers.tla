----------------------------- MODULE XrayUsers ------------------------------
(***************************************************************************)
(* The users of an Xray backend: the clients of each inbound in x.config,  *)
(* the users the xray process serves (changed one by one through its API,  *)
(* or read from the configuration when it starts), the users and kicks     *)
(* that the device limit remembers, the four user operations, and          *)
(* enforceIpLimitsOnce, which runs beside them.                            *)
(*                                                                         *)
(* A user object says on which inbounds the user has an account and        *)
(* whether there is a device limit.  The health check may restart the      *)
(* process at any moment.  Excluded inbounds have no users and the         *)
(* sing-box sidecar keeps a list of its own; both are left out.            *)
(***************************************************************************)
EXTENDS Naturals, FiniteSets

CONSTANTS
    User,     \* emails
    Inbound,  \* tags of the inbounds that are not excluded
    Limits,   \* enforceIpLimits runs
    Health,   \* the process crashes and the health check restarts it
    Partial,  \* UpdateUsersAndRestart is used
    Serial,   \* a request and an enforcement pass do not overlap
    None

Object == [on : SUBSET Inbound, limit : BOOLEAN]

ASSUME XrayUsersAssumption ==
    /\ {Limits, Health, Partial, Serial} \subseteq BOOLEAN
    /\ None \notin Object /\ None \notin User /\ None \notin {"cooling", "cooled", "health"}

Gone == [on |-> {}, limit |-> FALSE]
UserMap == [User -> {None} \cup Object]
Thread == {"request", "enforcer"}

VARIABLES
    clients,    \* i.clients: the users of each inbound in the configuration
    live,       \* the users of each inbound the process has, or is booting with
    proc,       \* the process: dead, booting, or up and answering its API
    astray,     \* history: on which inbounds a failed removal or a restart left whom
    known,      \* x.userByEmail, whose ip_limit is x.userLimits
    kicked,     \* x.kicked: cooling, or cooled when the cooldown has passed
    seen,       \* the enforcer's snapshot of known
    seenKicked, \* and of kicked
    scan,       \* the emails the enforcer has yet to look at
    op,         \* the operation each thread is in
    at,         \* and its place in it
    list,       \* the users it was given
    left,       \* the inbounds it has yet to do
    cur,        \* the inbound it is at
    todo,       \* the users it has yet to do there
    who,        \* the user it is at
    err,        \* it has met an error
    wanted,     \* what the panel last said of each user
    failed      \* the users whose last request returned an error

state == <<clients, live, proc, astray>>
limits == <<known, kicked, seen, seenKicked, scan>>
thread == <<op, at, list, left, cur, todo, who, err>>
panel == <<wanted, failed>>
vars == <<state, limits, thread, panel>>

TypeOK ==
    /\ clients \in [Inbound -> SUBSET User] /\ live \in [Inbound -> SUBSET User]
    /\ proc \in {"dead", "booting", "up"} /\ astray \subseteq Inbound \X User
    /\ known \in UserMap /\ seen \in UserMap
    /\ kicked \in [User -> {None, "cooling", "cooled"}]
    /\ seenKicked \in [User -> {None, "cooling", "cooled"}]
    /\ scan \subseteq User
    /\ op \in [Thread -> {None, "SyncUser", "UpdateUsers", "SyncUsers",
                          "UpdateUsersAndRestart", "disconnectUser"}]
    /\ at \in [Thread -> {"idle", "scan", "pick", "drop", "set", "add", "restart", "boot",
                          "remember", "unkick", "kick"}]
    /\ list \in [Thread -> UserMap]
    /\ left \in [Thread -> SUBSET Inbound] /\ cur \in [Thread -> {None} \cup Inbound]
    /\ todo \in [Thread -> SUBSET User] /\ who \in [Thread -> {None} \cup User]
    /\ err \in [Thread -> BOOLEAN]
    /\ wanted \in [User -> Object] /\ failed \subseteq User

Nobody == [u \in User |-> None]

\* New without users.
Init ==
    /\ clients = [i \in Inbound |-> {}] /\ live = clients
    /\ proc = "up" /\ astray = {}
    /\ known = Nobody /\ seen = Nobody
    /\ kicked = Nobody /\ seenKicked = Nobody /\ scan = {}
    /\ op = [t \in Thread |-> None] /\ at = [t \in Thread |-> "idle"]
    /\ list = [t \in Thread |-> Nobody]
    /\ left = [t \in Thread |-> {}] /\ cur = [t \in Thread |-> None]
    /\ todo = [t \in Thread |-> {}] /\ who = [t \in Thread |-> None]
    /\ err = [t \in Thread |-> FALSE]
    /\ wanted = [u \in User |-> Gone] /\ failed = {}

Listed(t) == {u \in User : list[t][u] # None}
Active(t, i) == {u \in Listed(t) : i \in list[t][u].on}

\* Inbound.syncUsers replaces the clients of an inbound, updateUser, updateUsers and
\* removeUser change those of the users listed.
syncUsers(t, i) == Active(t, i)
updateUsers(t, i) == (clients[i] \ Listed(t)) \cup Active(t, i)

Restarts(t) == op[t] \in {"SyncUsers", "UpdateUsersAndRestart"}
Go(t, label) == at' = [at EXCEPT ![t] = label]

\* Thread t enters an operation on the users of l.
Enter(t, o, l) ==
    /\ op' = [op EXCEPT ![t] = o] /\ list' = [list EXCEPT ![t] = l]
    /\ left' = [left EXCEPT ![t] = Inbound] /\ cur' = [cur EXCEPT ![t] = None]
    /\ todo' = [todo EXCEPT ![t] = {}] /\ err' = [err EXCEPT ![t] = FALSE]

\* Thread t leaves it.
Leave(t, label) ==
    /\ op' = [op EXCEPT ![t] = None] /\ list' = [list EXCEPT ![t] = Nobody]
    /\ left' = [left EXCEPT ![t] = {}] /\ cur' = [cur EXCEPT ![t] = None]
    /\ todo' = [todo EXCEPT ![t] = {}] /\ err' = [err EXCEPT ![t] = FALSE]
    /\ who' = [who EXCEPT ![t] = IF label = "unkick" THEN @ ELSE None]
    /\ Go(t, label)

-----------------------------------------------------------------------------
(* Requests.                                                               *)

Request(o, l) ==
    /\ at["request"] = "idle" /\ (Serial => at["enforcer"] = "idle")
    /\ Enter("request", o, l) /\ Go("request", "pick")
    /\ wanted' = [u \in User |->
           IF l[u] # None THEN l[u] ELSE IF o = "SyncUsers" THEN Gone ELSE wanted[u]]
    /\ UNCHANGED <<state, limits, who, failed>>

SyncUser == \E u \in User, object \in Object :
    Request("SyncUser", [Nobody EXCEPT ![u] = object])

UpdateUsers == \E l \in UserMap \ {Nobody} : Request("UpdateUsers", l)

SyncUsers == \E l \in UserMap : Request("SyncUsers", l)

UpdateUsersAndRestart ==
    /\ Partial
    /\ \E l \in UserMap \ {Nobody} : Request("UpdateUsersAndRestart", l)

-----------------------------------------------------------------------------
(* The steps of an operation, for each inbound in turn.                    *)

Pick(t) ==
    /\ at[t] = "pick" /\ left[t] # {}
    /\ \E i \in left[t] : /\ cur' = [cur EXCEPT ![t] = i]
                          /\ left' = [left EXCEPT ![t] = @ \ {i}]
    /\ todo' = [todo EXCEPT ![t] = Listed(t)]
    /\ Go(t, IF op[t] = "SyncUser" THEN "drop" ELSE "set")
    /\ UNCHANGED <<state, limits, op, list, who, err, panel>>

\* handler.RemoveInboundUser, whose error nobody looks at: the call fails while no API
\* answers, and it may fail at any time (a cancelled context, a timeout).
RemoveInboundUser(i, u) ==
    \/ /\ proc = "up"
       /\ live' = [live EXCEPT ![i] = @ \ {u}]
       /\ astray' = astray \ {<<i, u>>}
    \/ /\ UNCHANGED live
       /\ astray' = astray \cup (IF u \in live[i] THEN {<<i, u>>} ELSE {})

Drop(t) ==
    /\ at[t] = "drop"
    /\ IF todo[t] = {} THEN Go(t, "pick") /\ UNCHANGED <<live, astray, todo, who>>
       ELSE \E u \in todo[t] :
            /\ todo' = [todo EXCEPT ![t] = @ \ {u}]
            /\ who' = [who EXCEPT ![t] = u]
            /\ RemoveInboundUser(cur[t], u)
            /\ Go(t, CASE op[t] = "SyncUser" -> "set"
                       [] op[t] # "SyncUser" /\ u \in Active(t, cur[t]) -> "add"
                       [] OTHER -> "drop")
    /\ UNCHANGED <<clients, proc, limits, op, list, left, cur, err, panel>>

\* Mutant: a user without an account on the inbound stays in its clients.
Set_KeepsInactive(t) ==
    /\ at[t] = "set"
    /\ clients' = [clients EXCEPT ![cur[t]] =
           IF op[t] = "SyncUsers" THEN syncUsers(t, cur[t]) ELSE @ \cup Active(t, cur[t])]
    /\ Go(t, CASE Restarts(t) -> "pick"
               [] op[t] = "SyncUser" /\ Active(t, cur[t]) # {} -> "add"
               [] OTHER -> "drop")
    /\ UNCHANGED <<live, proc, astray, limits, op, list, left, cur, todo, who, err, panel>>

\* The configuration of the inbound is changed.
Set(t) ==
    /\ at[t] = "set"
    /\ clients' = [clients EXCEPT ![cur[t]] =
           IF op[t] = "SyncUsers" THEN syncUsers(t, cur[t]) ELSE updateUsers(t, cur[t])]
    /\ Go(t, CASE Restarts(t) -> "pick"
               [] op[t] = "SyncUser" /\ Active(t, cur[t]) # {} -> "add"
               [] OTHER -> "drop")
    /\ UNCHANGED <<live, proc, astray, limits, op, list, left, cur, todo, who, err, panel>>

\* handler.AddInboundUser: xray refuses an email that it has already.
AddOk(t) ==
    /\ at[t] = "add" /\ proc = "up" /\ who[t] \notin live[cur[t]]
    /\ live' = [live EXCEPT ![cur[t]] = @ \cup {who[t]}]
    /\ Go(t, "drop")
    /\ UNCHANGED <<clients, proc, astray, limits, op, list, left, cur, todo, who, err, panel>>

\* Mutant: the error is only logged.
AddFails_Ignored(t) ==
    /\ at[t] = "add"
    /\ Go(t, "drop")
    /\ UNCHANGED <<state, limits, op, list, left, cur, todo, who, err, panel>>

\* An error, be it that only the answer was lost.
AddFails(t) ==
    /\ at[t] = "add"
    /\ \/ UNCHANGED live
       \/ proc = "up" /\ live' = [live EXCEPT ![cur[t]] = @ \cup {who[t]}]
    /\ err' = [err EXCEPT ![t] = TRUE]
    /\ Go(t, "drop")
    /\ UNCHANGED <<clients, proc, astray, limits, op, list, left, cur, todo, who, panel>>

\* All inbounds are done.
Picked(t) ==
    /\ at[t] = "pick" /\ left[t] = {} /\ ~err[t]
    /\ Go(t, IF Restarts(t) THEN "restart" ELSE "remember")
    /\ UNCHANGED <<state, limits, op, list, left, cur, todo, who, err, panel>>

\* The operation returns an error: to the panel, or to the enforcer, which goes on.
Fail(t) ==
    /\ at[t] = "pick" /\ left[t] = {} /\ err[t]
    /\ Leave(t, IF t = "request" THEN "idle" ELSE "scan")
    /\ failed' = (IF t = "request" THEN failed \cup Listed(t) ELSE failed)
    /\ UNCHANGED <<state, limits, wanted>>

\* rememberUsers, with replace after a restart.
Remember(t) ==
    /\ at[t] = "remember"
    /\ known' = (IF Restarts(t) THEN list[t]
                 ELSE [u \in User |-> IF u \in Listed(t) THEN list[t][u] ELSE known[u]])
    /\ kicked' = (IF Restarts(t) THEN Nobody
                  ELSE [u \in User |-> IF u \in Listed(t) THEN None ELSE kicked[u]])
    /\ failed' = (CASE t = "enforcer" -> failed
                    [] op[t] = "SyncUsers" -> {}
                    [] OTHER -> failed \ Listed(t))
    /\ Leave(t, IF t = "request" THEN "idle" ELSE "unkick")
    /\ UNCHANGED <<state, seen, seenKicked, scan, wanted>>

-----------------------------------------------------------------------------
(* The process.                                                            *)

\* The users a process that reads the configuration has, although they are kicked, are
\* being kicked, or were removed by a SyncUser that has yet to change the configuration.
ReadBack ==
    {p \in Inbound \X User :
        /\ p[2] \in clients[p[1]]
        /\ \/ kicked[p[2]] # None
           \/ at["enforcer"] = "kick" /\ who["enforcer"] = p[2]
           \/ \E t \in Thread : /\ op[t] = "SyncUser" /\ at[t] = "set"
                               /\ cur[t] = p[1] /\ who[t] = p[2]}

\* core.Restart stops the process; the new one reads the configuration, and no API answers
\* until it is up.
Starts == proc' = "booting" /\ live' = clients /\ astray' = ReadBack
Dies == proc' = "dead" /\ live' = [i \in Inbound |-> {}] /\ astray' = {}

\* The request returns an error: the users are the panel's to send again.
Refuse ==
    /\ failed' = (IF op["request"] = "SyncUsers" THEN User ELSE failed \cup Listed("request"))
    /\ Leave("request", "idle")
    /\ UNCHANGED <<clients, limits, wanted>>

Restart ==
    /\ at["request"] = "restart"
    /\ Starts /\ Go("request", "boot")
    /\ UNCHANGED <<clients, limits, op, list, left, cur, todo, who, err, panel>>

\* The new process does not start.
RestartFails == at["request"] = "restart" /\ Dies /\ Refuse

\* checkXrayStatus sees the API answer.
Booted ==
    /\ at["request"] = "boot" /\ proc = "up"
    /\ Go("request", "remember")
    /\ UNCHANGED <<state, limits, op, list, left, cur, todo, who, err, panel>>

\* checkXrayStatus finds an error in the log or no process, or its context is cancelled,
\* which may be while the process boots and serves all the same.
BootRefused == at["request"] = "boot" /\ Refuse /\ UNCHANGED <<live, proc, astray>>

ComesUp ==
    /\ proc = "booting"
    /\ proc' = "up"
    /\ UNCHANGED <<clients, live, astray, limits, thread, panel>>

\* The process dies, or a restart of the health check fails.
Crash ==
    /\ Health /\ proc # "dead"
    /\ Dies
    /\ UNCHANGED <<clients, limits, thread, panel>>

\* The health check restarts a process that is dead, or that did not answer in time.
HealthRestart ==
    /\ Health
    /\ Starts
    /\ UNCHANGED <<clients, limits, thread, panel>>

-----------------------------------------------------------------------------
(* The device limit.                                                       *)

Cool(u) ==
    /\ kicked[u] = "cooling"
    /\ kicked' = [kicked EXCEPT ![u] = "cooled"]
    /\ UNCHANGED <<state, known, seen, seenKicked, scan, thread, panel>>

\* Mutant: a kicked user is not looked at again.
Tick_SkipsKicked ==
    /\ Limits /\ at["enforcer"] = "idle" /\ (Serial => at["request"] = "idle")
    /\ seen' = known /\ seenKicked' = kicked
    /\ scan' = {u \in User : known[u] # None /\ kicked[u] = None}
    /\ Go("enforcer", "scan")
    /\ UNCHANGED <<state, known, kicked, op, list, left, cur, todo, who, err, panel>>

\* enforceIpLimitsOnce takes its snapshot.
Tick ==
    /\ Limits /\ at["enforcer"] = "idle" /\ (Serial => at["request"] = "idle")
    /\ seen' = known /\ seenKicked' = kicked
    /\ scan' = {u \in User : known[u] # None}
    /\ Go("enforcer", "scan")
    /\ UNCHANGED <<state, known, kicked, op, list, left, cur, todo, who, err, panel>>

\* A user that is cooling down, has no limit, or is not over it.
Skip ==
    /\ at["enforcer"] = "scan"
    /\ \E u \in scan : seenKicked[u] # "cooled" /\ scan' = scan \ {u}
    /\ UNCHANGED <<state, known, kicked, seen, seenKicked, thread, panel>>

\* A cooldown has passed: SyncUser of the snapshot's object.
Readmit ==
    /\ at["enforcer"] = "scan"
    /\ \E u \in scan :
          /\ seenKicked[u] = "cooled"
          /\ scan' = scan \ {u}
          /\ Enter("enforcer", "SyncUser", [Nobody EXCEPT ![u] = seen[u]])
    /\ Go("enforcer", "pick")
    /\ UNCHANGED <<state, known, kicked, seen, seenKicked, who, panel>>

Unkick ==
    /\ at["enforcer"] = "unkick"
    /\ kicked' = [kicked EXCEPT ![who["enforcer"]] = None]
    /\ Leave("enforcer", "scan")
    /\ UNCHANGED <<state, known, seen, seenKicked, scan, panel>>

\* More online addresses than the limit: disconnectUser.
OverLimit ==
    /\ at["enforcer"] = "scan" /\ proc = "up"
    /\ \E u \in scan :
          /\ seenKicked[u] = None /\ seen[u].limit
          /\ scan' = scan \ {u}
          /\ who' = [who EXCEPT !["enforcer"] = u]
    /\ Enter("enforcer", "disconnectUser", Nobody)
    /\ Go("enforcer", "kick")
    /\ UNCHANGED <<state, known, kicked, seen, seenKicked, panel>>

\* Mutant: a user is disconnected from one inbound only.
Kick_Once ==
    /\ at["enforcer"] = "kick" /\ left["enforcer"] # {}
    /\ \E i \in left["enforcer"] :
          /\ left' = [left EXCEPT !["enforcer"] = {}]
          /\ RemoveInboundUser(i, who["enforcer"])
    /\ UNCHANGED <<clients, proc, limits, op, at, list, cur, todo, who, err, panel>>

Kick ==
    /\ at["enforcer"] = "kick" /\ left["enforcer"] # {}
    /\ \E i \in left["enforcer"] :
          /\ left' = [left EXCEPT !["enforcer"] = @ \ {i}]
          /\ RemoveInboundUser(i, who["enforcer"])
    /\ UNCHANGED <<clients, proc, limits, op, at, list, cur, todo, who, err, panel>>

Kicked ==
    /\ at["enforcer"] = "kick" /\ left["enforcer"] = {}
    /\ kicked' = [kicked EXCEPT ![who["enforcer"]] = "cooling"]
    /\ Leave("enforcer", "scan")
    /\ UNCHANGED <<state, known, seen, seenKicked, scan, panel>>

\* The pass is over; its snapshot is gone.
Rest ==
    /\ at["enforcer"] = "scan" /\ scan = {}
    /\ seen' = Nobody /\ seenKicked' = Nobody
    /\ Go("enforcer", "idle")
    /\ UNCHANGED <<state, known, kicked, scan, op, list, left, cur, todo, who, err, panel>>

Step(t) ==
    \/ Pick(t) \/ Drop(t) \/ Set(t) \/ AddOk(t) \/ AddFails(t)
    \/ Picked(t) \/ Fail(t) \/ Remember(t)

Enforce == Tick \/ Skip \/ Readmit \/ Unkick \/ OverLimit \/ Kick \/ Kicked \/ Rest

Next ==
    \/ SyncUser \/ UpdateUsers \/ SyncUsers \/ UpdateUsersAndRestart
    \/ \E t \in Thread : Step(t)
    \/ Restart \/ RestartFails \/ Booted \/ BootRefused
    \/ ComesUp \/ Crash \/ HealthRestart
    \/ Enforce \/ \E u \in User : Cool(u)

Spec == Init /\ [][Next]_vars

\* A removal that leaves the user on the inbound, so that xray will refuse to add him.
Kept(t) == Drop(t) /\ todo'[t] # todo[t] /\ who'[t] \in live'[cur[t]]

\* The ticker keeps firing, however many requests arrive; a pass, a request and a restart
\* each go on to their end; the cooldown passes; and some day the API answers the calls of
\* a re-admission, and xray stops dying or failing to answer.
Fairness ==
    /\ SF_vars(Enforce) /\ WF_vars(Step("enforcer")) /\ WF_vars(Step("request"))
    /\ <>[][~AddFails("enforcer") /\ ~Kept("enforcer") /\ ~Crash]_vars
    /\ <>[][~(proc # "dead" /\ HealthRestart)]_vars
    /\ \A u \in User : WF_vars(Cool(u))
    /\ WF_vars(Restart \/ RestartFails) /\ WF_vars(Booted \/ BootRefused)
    /\ WF_vars(ComesUp) /\ WF_vars(proc = "dead" /\ HealthRestart)

FairSpec == Spec /\ Fairness

-----------------------------------------------------------------------------
(* Properties.                                                             *)

Idle == at["request"] = "idle" /\ at["enforcer"] = "idle"
Quiet == Idle /\ proc = "up"

\* The configuration, which every restart goes by, has a user on an inbound exactly
\* when the panel last said so, whichever operations, kicks and re-admissions came in
\* between; a user whose request returned an error is the panel's to send again.
\* "An explicit (re)sync of a user clears any pending kick for them" (iplimit.go:37).
ConfigIsAsked ==
    Idle => \A i \in Inbound, u \in User \ failed : u \in clients[i] <=> i \in wanted[u].on

\* Whatever died, was restarted or was refused on the way, a process that is up serves
\* every user the configuration has, except one that is kicked and one whose request
\* returned an error; and it serves nobody else, except where the removal itself failed or
\* a restart between the two steps of a SyncUser brought the user back.
LiveIsConfigured ==
    Quiet => \A i \in Inbound, u \in User \ failed :
        kicked[u] = None => /\ u \in clients[i] => u \in live[i]
                            /\ u \in live[i] /\ u \notin clients[i] => <<i, u>> \in astray

\* "How long an over-limit user stays disconnected before being re-admitted"
\* (iplimit.go:14): a user whose cooldown runs is on no inbound, except where his removal
\* failed or a restart brought him back from the configuration.
KickedStaysOut ==
    Quiet => \A i \in Inbound, u \in User \ failed :
        kicked[u] = "cooling" /\ u \in live[i] => <<i, u>> \in astray

\* Every kick ends: whatever requests arrive during the cooldown, the user is back
\* unless the panel has taken the inbounds away or is to send the user again.
KicksEnd ==
    \A u \in User : kicked[u] # None ~> kicked[u] = None \/ wanted[u].on = {} \/ u \in failed
=============================================================================
