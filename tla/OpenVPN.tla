------------------------------ MODULE OpenVPN ------------------------------
(***************************************************************************)
(* One OpenVPN backend: the table of users and the sessions it counts, the *)
(* management connection, over which the server asks for admission and is  *)
(* told to end sessions, and the accounting of what clients carried.       *)
(*                                                                         *)
(* Four parties act: the server and its clients (external), the goroutine  *)
(* that reads the management connection, the statistics loop, and one      *)
(* request at a time, whose remaining calls are the sequence todo.  The    *)
(* connection is two queues: cmds to the server and events from it.  A     *)
(* server numbers its clients from 0, whatever the last server did.        *)
(***************************************************************************)
EXTENDS Naturals, Sequences, FiniteSets, Functions, SequencesExt

CONSTANTS
    CN,         \* common names
    Login,      \* what clients present: [cn, serial, pass]
    User,       \* users as they arrive: [cn, serial, pass, limit, tag]
    Lists,      \* lists of users as they arrive
    None,       \* no serial pinned, no password
    Budgets     \* bound: how often a behaviour may do what is bounded by nothing else

\* Everyone who arrives, alone or in a list.
Anyone == User \cup UNION {{l[i] : i \in DOMAIN l} : l \in Lists}

ASSUME OpenVPNAssumption ==
    /\ IsFiniteSet(CN) /\ \A l \in Login : l.cn \in CN
    /\ \A l \in Lists : l \in Seq(Anyone)
    /\ \A u \in Anyone : u.cn \in CN /\ u.limit \in Nat
    /\ None \notin [op : {"auth", "deny"}, x : Nat]
    /\ Budgets \subseteq [{"lists", "restarts", "stops", "logins", "renewals", "polls", "bytes", "crashes"} -> Nat]

VARIABLES
    users, sessions,        \* the userStore
    todo, budget,           \* what is left of the request, and of the bounds
    reader, late,           \* an admission decided but not sent; lines of a closed connection
    alive, client, fresh,   \* the server, its clients by id and its next id
    connected, events, cmds, \* the management connection
    lastStatus, polling,    \* the last `status 3`; the statistics loop waits for one
    sessionSeen, counted,   \* the last row of each client id; cnCumulative
    carried,                \* history: what the clients of each name carried
    mixed                   \* history: a server started while sessions of another were counted

storeVars == <<users, sessions>>
apiVars == <<todo, budget>>
readVars == <<reader, late>>
serverVars == <<alive, client, fresh, carried>>
connVars == <<connected, events, cmds>>
statVars == <<lastStatus, polling, sessionSeen, counted>>
vars == <<storeVars, apiVars, readVars, serverVars, connVars, statVars, mixed>>

Nothing == [x \in {} |-> None]
Put(f, x, v) == [y \in DOMAIN f \cup {x} |-> IF y = x THEN v ELSE f[y]]
Without(f, X) == [y \in DOMAIN f \ X |-> f[y]]

-----------------------------------------------------------------------------
(* The userStore; each operator is one critical section of its lock.       *)

wantsInterface(u) == u.tag

Entry(u) == [serial |-> u.serial, pass |-> u.pass, limit |-> u.limit]

\* serialEqual accepts anything when no serial is pinned.
authorizedLocked(l) ==
    /\ l.cn \in DOMAIN users
    /\ users[l.cn].serial \in {None, l.serial}
    /\ users[l.cn].pass \in {None, l.pass}

Full(cn) == users[cn].limit > 0 /\ Cardinality(sessions[cn]) >= users[cn].limit

\* Mutant: one session too many.
tryConnect_OffByOne(l, cid) ==
    /\ authorizedLocked(l)
    /\ cid \in sessions[l.cn] \/ users[l.cn].limit = 0
         \/ Cardinality(sessions[l.cn]) <= users[l.cn].limit

\* An id that is counted already is a renewal of its session.
tryConnect(l, cid) == authorizedLocked(l) /\ (cid \in sessions[l.cn] \/ ~Full(l.cn))

releaseSession(cn, cid) == sessions' = [sessions EXCEPT ![cn] = @ \ {cid}]

\* The ids beyond the limit, in the order of a map.
excessSessions(cn) ==
    IF cn \in DOMAIN users /\ users[cn].limit > 0 /\ Cardinality(sessions[cn]) > users[cn].limit
    THEN {sessions[cn] \ K : K \in {K \in SUBSET sessions[cn] : Cardinality(K) = users[cn].limit}}
    ELSE {{}}

\* The user and password of an entry are not taken from a full list.
replaceAll(l) ==
    [cn \in {l[i].cn : i \in {i \in DOMAIN l : wantsInterface(l[i])}} |->
        LET i == CHOOSE i \in DOMAIN l : /\ l[i].cn = cn /\ wantsInterface(l[i])
                                         /\ \A j \in DOMAIN l : l[j].cn = cn /\ wantsInterface(l[j]) => j <= i
        IN  [Entry(l[i]) EXCEPT !.pass = None]]

Removed(next) == DOMAIN users \ DOMAIN next

Replace(next) ==
    /\ users' = next
    /\ sessions' = [cn \in CN |-> IF cn \in Removed(next) THEN {} ELSE sessions[cn]]

-----------------------------------------------------------------------------
Init ==
    /\ \E l \in Lists : users = replaceAll(l)
    /\ sessions = [cn \in CN |-> {}]
    /\ todo = <<>> /\ budget \in Budgets /\ reader = None /\ late = <<>>
    /\ alive = TRUE /\ client = Nothing /\ fresh = 0
    /\ connected = TRUE /\ events = <<>> /\ cmds = <<>>
    /\ lastStatus = Nothing /\ polling = FALSE /\ sessionSeen = Nothing
    /\ counted = [cn \in CN |-> 0] /\ carried = [cn \in CN |-> 0] /\ mixed = FALSE

-----------------------------------------------------------------------------
(* Requests.  A call is [op, x]; Call pops the one at hand.                *)

Do(op, x) == [op |-> op, x |-> x]
DoAll(op, X) == SetToSeq({Do(op, x) : x \in X})
Restarting == <<Do("stop", None), Do("start", None), Do("connect", None)>>

Spend(what) == budget[what] > 0 /\ budget' = [budget EXCEPT ![what] = @ - 1]
Request(what, calls) == todo = <<>> /\ Spend(what) /\ todo' = calls
Call(op) == todo # <<>> /\ Head(todo).op = op /\ UNCHANGED budget
ApiFrame == UNCHANGED <<readVars, serverVars, connVars, statVars, mixed>>

\* SyncUser, UpdateUsers: one user after the other.
applyUsers ==
    /\ \/ \E u \in User : Request("lists", <<Do("apply", u)>>)
       \/ \E l \in Lists : Request("lists", [i \in DOMAIN l |-> Do("apply", l[i])])
    /\ UNCHANGED storeVars /\ ApiFrame

\* Removed users are killed, and then the limits of the listed ones enforced.
SyncUsers ==
    /\ \E l \in Lists :
        /\ Request("lists", DoAll("kill", Removed(replaceAll(l)))
                            \o [i \in DOMAIN l |-> Do("enforce", l[i].cn)])
        /\ Replace(replaceAll(l))
    /\ ApiFrame

\* Nobody is killed: the server is restarted.
UpdateUsersAndRestart ==
    /\ \E l \in Lists : Request("restarts", Restarting) /\ Replace(replaceAll(l))
    /\ ApiFrame

\* From the panel, or by itself when the server is gone.
Restart == Request("restarts", Restarting) /\ UNCHANGED storeVars /\ ApiFrame

Shutdown ==
    /\ Request("stops", <<Do("close", None), Do("stop", None), Do("end", None)>>)
    /\ UNCHANGED storeVars /\ ApiFrame

\* Mutant: the session of a removed user goes on.
applyUser_KeepsSession ==
    /\ Call("apply")
    /\ LET u == Head(todo).x
       IN  IF wantsInterface(u)
           THEN /\ users' = Put(users, u.cn, Entry(u)) /\ UNCHANGED sessions
                /\ todo' = <<Do("enforce", u.cn)>> \o Tail(todo)
           ELSE /\ users' = Without(users, {u.cn}) /\ sessions' = [sessions EXCEPT ![u.cn] = {}]
                /\ todo' = Tail(todo)
    /\ ApiFrame

\* What follows for the sessions: all are killed if the user is gone or has a new
\* serial, else those beyond the limit.
applyUser ==
    /\ Call("apply")
    /\ LET u == Head(todo).x
           was == u.cn \in DOMAIN users
           kill == IF wantsInterface(u) THEN was /\ users[u.cn].serial # u.serial ELSE was
           then == IF kill THEN <<Do("kill", u.cn)>>
                   ELSE IF wantsInterface(u) THEN <<Do("enforce", u.cn)>> ELSE <<>>
       IN  /\ todo' = then \o Tail(todo)
           /\ IF wantsInterface(u) THEN users' = Put(users, u.cn, Entry(u)) /\ UNCHANGED sessions
              ELSE users' = Without(users, {u.cn}) /\ sessions' = [sessions EXCEPT ![u.cn] = {}]
    /\ ApiFrame

enforceDeviceLimit ==
    /\ Call("enforce")
    /\ \E E \in excessSessions(Head(todo).x) :
        /\ sessions' = [sessions EXCEPT ![Head(todo).x] = @ \ E]
        /\ todo' = DoAll("client-kill", E) \o Tail(todo)
    /\ UNCHANGED users /\ ApiFrame

\* A command reaches the server over a connection that is open.
Sent(cmd) == IF connected THEN Append(cmds, cmd) ELSE cmds

kill ==
    /\ Call("kill") \/ Call("client-kill")
    /\ cmds' = Sent(Head(todo)) /\ todo' = Tail(todo)
    /\ UNCHANGED <<storeVars, readVars, serverVars, connected, events, statVars, mixed>>

-----------------------------------------------------------------------------
(* The server process.                                                     *)

Gone(X) == {[type |-> "disconnect", cid |-> c, cn |-> client[c].cn] : c \in X}
Up(c) == c \in DOMAIN client /\ client[c].up

\* The server ends.  Of the sessions that end with it some are announced; what it
\* wrote can still be read.
Ends(D) ==
    /\ alive' = FALSE /\ client' = Nothing /\ fresh' = 0
    /\ connected' = FALSE /\ cmds' = <<>>
    /\ events' = events \o SetToSeq(Gone(D))
    /\ UNCHANGED carried

Crash == alive /\ Spend("crashes") /\ Ends({}) /\ UNCHANGED <<storeVars, todo, readVars, statVars, mixed>>

stopProcess ==
    /\ Call("stop") /\ todo' = Tail(todo)
    /\ \/ ~alive /\ UNCHANGED <<serverVars, connVars>>
       \/ alive /\ \E D \in SUBSET {c \in DOMAIN client : Up(c) /\ connected} : Ends(D)
    /\ UNCHANGED <<storeVars, readVars, statVars, mixed>>

\* Nothing of the last server may be left for the counts to be right.
Unsettled == reader # None \/ events # <<>> \/ late # <<>> \/ \E cn \in CN : sessions[cn] # {}

startProcess ==
    /\ Call("start")
    /\ \/ alive' = TRUE /\ todo' = Tail(todo) /\ mixed' = (mixed \/ Unsettled)
       \/ todo' = <<>> /\ UNCHANGED <<alive, mixed>>
    /\ UNCHANGED <<storeVars, readVars, client, fresh, carried, connVars, statVars>>

\* The old connection is closed, but its reader goes on with the lines it has, without
\* an answer; the new client has no status yet.  If nobody answers the backend has no connection.
connect ==
    /\ Call("connect") /\ todo' = Tail(todo)
    /\ connected' \in {alive, FALSE}
    /\ \E n \in 0..Len(events) : late' = late \o SubSeq(events, 1, n)
    /\ events' = <<>> /\ cmds' = <<>> /\ reader' = None /\ lastStatus' = Nothing
    /\ UNCHANGED <<storeVars, serverVars, polling, sessionSeen, counted, mixed>>

\* Shutdown closes first, and is the last request.
close ==
    /\ Call("close") /\ todo' = Tail(todo)
    /\ connected' = FALSE /\ events' = <<>> /\ cmds' = <<>> /\ reader' = None
    /\ UNCHANGED <<storeVars, late, serverVars, statVars, mixed>>

-----------------------------------------------------------------------------
(* Clients and server (external).  Without a connection nobody is admitted. *)

ExtFrame == UNCHANGED <<storeVars, todo, readVars, statVars, mixed>>
Asks(c, l) == [type |-> "connect", cid |-> c, login |-> l]

ClientConnects ==
    /\ connected /\ Spend("logins") /\ fresh' = fresh + 1
    /\ \E l \in Login :
        /\ client' = Put(client, fresh, [cn |-> l.cn, login |-> l, up |-> FALSE, bytes |-> 0])
        /\ events' = Append(events, Asks(fresh, l))
    /\ UNCHANGED <<alive, carried, connected, cmds>> /\ ExtFrame

\* Keys are renewed from time to time: the client asks again.
ClientRenews ==
    /\ connected /\ Spend("renewals")
    /\ \E c \in DOMAIN client : Up(c) /\ events' = Append(events, Asks(c, client[c].login))
    /\ UNCHANGED <<serverVars, connected, cmds>> /\ ExtFrame

\* Clients go; one that was not admitted yet may go unannounced.
Leave(X) ==
    /\ client' = Without(client, X)
    /\ \E D \in SUBSET {c \in X : ~Up(c)} : events' = events \o SetToSeq(Gone(X \ D))

ClientLeaves ==
    /\ connected /\ \E c \in DOMAIN client : Leave({c})
    /\ UNCHANGED <<alive, fresh, carried, connected, cmds, budget>> /\ ExtFrame

Traffic ==
    /\ connected /\ Spend("bytes")
    /\ \E c \in DOMAIN client :
        /\ Up(c)
        /\ client' = [client EXCEPT ![c].bytes = @ + 1]
        /\ carried' = [carried EXCEPT ![client[c].cn] = @ + 1]
    /\ UNCHANGED <<alive, fresh, connVars>> /\ ExtFrame

Rows == [c \in {c \in DOMAIN client : Up(c)} |-> [cn |-> client[c].cn, bytes |-> client[c].bytes]]

Takes(op) == connected /\ cmds # <<>> /\ Head(cmds).op = op /\ cmds' = Tail(cmds)
TakesFrame == UNCHANGED <<alive, fresh, carried, connected, budget>> /\ ExtFrame

TakesAuth ==
    /\ Takes("auth")
    /\ client' = IF Head(cmds).x \in DOMAIN client THEN [client EXCEPT ![Head(cmds).x].up = TRUE] ELSE client
    /\ UNCHANGED events /\ TakesFrame

\* client-deny and client-kill end one client, kill all those of a name.
TakesKill ==
    /\ \/ (Takes("deny") \/ Takes("client-kill")) /\ Leave({Head(cmds).x} \cap DOMAIN client)
       \/ Takes("kill") /\ Leave({c \in DOMAIN client : client[c].cn = Head(cmds).x})
    /\ TakesFrame

TakesStatus ==
    /\ Takes("status") /\ events' = Append(events, [type |-> "status", rows |-> Rows])
    /\ UNCHANGED client /\ TakesFrame

-----------------------------------------------------------------------------
(* The reader of the management connection.                                *)

\* The store decides; what it decided is sent later.
Decide(e) ==
    /\ reader = None
    /\ IF tryConnect(e.login, e.cid)
       THEN /\ sessions' = [sessions EXCEPT ![e.login.cn] = @ \cup {e.cid}]
            /\ reader' = Do("auth", e.cid)
       ELSE UNCHANGED sessions /\ reader' = Do("deny", e.cid)
    /\ UNCHANGED lastStatus

Handle(e) ==
    \/ e.type = "connect" /\ Decide(e)
    \/ e.type = "disconnect" /\ releaseSession(e.cn, e.cid) /\ UNCHANGED <<reader, lastStatus>>
    \/ e.type = "status" /\ lastStatus' = e.rows /\ UNCHANGED <<reader, sessions>>

handleLine ==
    /\ reader = None /\ events # <<>> /\ Handle(Head(events)) /\ events' = Tail(events)
    /\ UNCHANGED <<users, apiVars, late, serverVars, connected, cmds, polling, sessionSeen, counted, mixed>>

finishConnect ==
    /\ reader # None /\ cmds' = Sent(reader) /\ reader' = None
    /\ UNCHANGED <<storeVars, apiVars, late, serverVars, connected, events, statVars, mixed>>

\* The reader of the closed connection decides and releases as before; what it sends
\* and the status it reads go nowhere.
lateLine ==
    /\ late # <<>> /\ late' = Tail(late)
    /\ LET e == Head(late)
       IN  \/ e.type = "connect" /\ tryConnect(e.login, e.cid)
              /\ sessions' = [sessions EXCEPT ![e.login.cn] = @ \cup {e.cid}]
           \/ e.type = "disconnect" /\ releaseSession(e.cn, e.cid)
           \/ (e.type = "status" \/ (e.type = "connect" /\ ~tryConnect(e.login, e.cid))) /\ UNCHANGED sessions
    /\ UNCHANGED <<users, apiVars, reader, serverVars, connVars, statVars, mixed>>

-----------------------------------------------------------------------------
(* The statistics loop.                                                    *)

requestStatus ==
    /\ ~polling /\ Spend("polls") /\ polling' = TRUE /\ cmds' = Sent(Do("status", None))
    /\ UNCHANGED <<storeVars, todo, readVars, serverVars, connected, events, lastStatus, sessionSeen,
                   counted, mixed>>

Growth(seen, c) ==
    LET row == lastStatus[c].bytes
    IN  IF c \in DOMAIN seen /\ row >= seen[c] THEN row - seen[c] ELSE row

Grown(seen, cn) ==
    LET C == {c \in DOMAIN lastStatus : lastStatus[c].cn = cn}
    IN  SumFunction([c \in C |-> Growth(seen, c)])

\* Mutant: what was seen of a client is forgotten with every poll.
collectStats_Forgets ==
    /\ polling /\ polling' = FALSE
    /\ counted' = [cn \in CN |-> counted[cn] + Grown(sessionSeen, cn)]
    /\ UNCHANGED <<storeVars, apiVars, readVars, serverVars, connVars, lastStatus, sessionSeen, mixed>>

\* The answer has come or five seconds have passed: the rows are the last ones read.
\* A count below the last one seen under that id is taken whole; ids that are not
\* listed are forgotten.
collectStats ==
    /\ polling /\ polling' = FALSE
    /\ counted' = [cn \in CN |-> counted[cn] + Grown(sessionSeen, cn)]
    /\ sessionSeen' = [c \in DOMAIN lastStatus |-> lastStatus[c].bytes]
    /\ UNCHANGED <<storeVars, apiVars, readVars, serverVars, connVars, lastStatus, mixed>>

-----------------------------------------------------------------------------
Next ==
    \/ applyUsers \/ SyncUsers \/ UpdateUsersAndRestart \/ Restart \/ Shutdown
    \/ applyUser \/ enforceDeviceLimit \/ kill
    \/ stopProcess \/ startProcess \/ connect \/ close \/ Crash
    \/ ClientConnects \/ ClientRenews \/ ClientLeaves \/ Traffic
    \/ TakesAuth \/ TakesKill \/ TakesStatus
    \/ handleLine \/ finishConnect \/ lateLine
    \/ requestStatus \/ collectStats

Spec == Init /\ [][Next]_vars

-----------------------------------------------------------------------------
(* Properties.                                                             *)

Listed(queue, op, x) == \E i \in DOMAIN queue : queue[i].op = op /\ queue[i].x = x
Coming(op, x) == Listed(todo, op, x) \/ Listed(cmds, op, x)
Doomed(c) ==
    \/ Coming("kill", client[c].cn) \/ Coming("client-kill", c) \/ Listed(cmds, "deny", c)
    \/ reader # None /\ Listed(<<reader>>, "deny", c)
    \/ Coming("stop", None)

\* Nobody stays connected whom the store does not have: a client of such a name is
\* about to be killed, whatever its admission was racing with.
RemovedAreGone ==
    \A c \in DOMAIN client : Up(c) /\ ~Doomed(c) => client[c].cn \in DOMAIN users

\* Until a server starts while sessions of the last one are still counted, a name has
\* no more clients than its limit, but for those about to be killed.
WithinLimit ==
    \A cn \in DOMAIN users :
        ~mixed /\ users[cn].limit > 0 /\ ~Listed(todo, "enforce", cn) =>
            Cardinality({c \in DOMAIN client : client[c].cn = cn /\ Up(c) /\ ~Doomed(c)}) <= users[cn].limit

\* Nobody is charged for more than his clients carried, through timeouts, restarts of
\* the server and ids that are used again.
NeverOverbilled == \A cn \in CN : counted[cn] <= carried[cn]
=============================================================================
