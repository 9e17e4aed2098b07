------------------------------ MODULE Sessions ------------------------------
(***************************************************************************)
(* The devices of users connected through IKEv2 and through the PPP        *)
(* backends (L2TP, PPTP): which requests give access and take it away, how *)
(* the backends' polls account for the sessions and enforce the limit of   *)
(* each backend, and how the pass over all backends enforces one limit for *)
(* the node.                                                               *)
(*                                                                         *)
(* Clients, charon and pppd are external.  One request at a time goes to   *)
(* every backend in turn (the composite); each backend has a poll loop,    *)
(* and one goroutine makes the passes.                                     *)
(*                                                                         *)
(* A session is [b, user, rank, bytes, closing] under the number of its    *)
(* IKE SA or of its ppp interface.  The rank is what its backend sorts by: *)
(* the client's address in IKEv2, the time it started in PPP.  Sessions of *)
(* one rank are one device, and the lowest ranks are kept.                 *)
(***************************************************************************)
EXTENDS UserLists, FiniteSets

CONSTANTS
    Name,       \* user names
    Nodes,      \* the sets of backends a node may have
    Address,    \* numbers that stand for the clients' addresses
    User,       \* single users as they arrive
    Lists,      \* full lists as they arrive
    Streams,    \* chunked lists as they arrive
    Budgets     \* bound: how often a behaviour may do what nothing else bounds

\* Everyone who arrives, alone, in a list or in a chunk.
Anyone ==
    User \cup UNION {Range(l) : l \in Lists} \cup
    UNION {UNION {Range(s[k].users) : k \in DOMAIN s} : s \in Streams}

Backend == {"ikev2", "l2tp", "pptp"}

\* Requests under way: see Request.
Requests ==
    [op : {"apply", "replace", "restart"}, list : Seq(Anyone), more : Seq(Anyone),
     left : SUBSET Backend, b : Backend \cup {None},
     at : {"next", "load", "unload", "list", "kill", "down", "up"},
     removed : SUBSET (Name \cup {u.email : u \in Anyone}),
     victims : SUBSET (({"ike", "ppp"} \X Nat) \X Nat), err : BOOLEAN]

ASSUME SessionsAssumption ==
    /\ Large \in Nat /\ Address \subseteq Nat /\ IsFiniteSet(Name)
    /\ Nodes \subseteq SUBSET Backend
    /\ Lists \subseteq Seq(Anyone)
    /\ Streams \subseteq Seq([index : Nat, users : Seq(Anyone), last : BOOLEAN])
    /\ \A u \in Anyone : u.name \in Name
    /\ None \notin Requests /\ None \notin Nat /\ None \notin Backend
    /\ Budgets \subseteq
          [{"requests", "logins", "bytes", "pulls", "fails", "leaves", "loops", "rekeys"} -> Nat]

VARIABLES
    node, running,          \* the backends, and which of them are started
    users, secrets,         \* their tables, and what charon and chap-secrets accept
    req, reply, asked,      \* the request, its answer, and (history) the users it named
    session, clock, sa,     \* live sessions; the next start and SA numbers
    poll, seen, online,     \* the polls under way, the last counters, the devices last polled
    counted,                \* traffic by user
    pulls, base, pulled,    \* pulls under way; the baseline of the outbound and what was reported
    pass,                   \* the pass over all backends
    budget,
    carried, again,         \* history: what each user's sessions carried by backend, and what
                            \* charon showed of it once more after a rekey
    rebased,                \* history: how far stale samples moved the baseline back
    moved, shed,            \* history: users whose devices left by themselves or whose limit
                            \* changed, and users that lost one to a limit
    lapsed                  \* history: charon kept something of a user the table does not have

nodeVars == <<node, running>>
listVars == <<users, secrets>>
reqVars == <<req, reply, asked>>
liveVars == <<session, clock, sa, carried, again>>
pullVars == <<pulls, base, pulled, rebased>>
statVars == <<seen, online, counted, pullVars>>
histVars == <<moved, shed, lapsed>>
vars == <<nodeVars, listVars, reqVars, liveVars, poll, statVars, pass, budget, histVars>>

Spend(what) == budget[what] > 0 /\ budget' = [budget EXCEPT ![what] = @ - 1]

\* Some behaviours are over before the tickers of the polls fire, or that of the pass.
PollTicks == budget["loops"] > 0
PassTicks == budget["loops"] > 1

-----------------------------------------------------------------------------
(* Sessions as the backends see them.                                      *)

\* pppd runs the hooks of both PPP backends for every session, whichever started it.
L2tpHook(i) == i[1] = "ppp"
PptpHook(i) == i[1] = "ppp"

\* list-sas gives the SAs of charon; a PPP backend reads the files its hook wrote.
listSAs == {i \in DOMAIN session : i[1] = "ike"}
L2tpSessions == {i \in DOMAIN session : L2tpHook(i)}
PptpSessions == {i \in DOMAIN session : PptpHook(i)}
Recorded(b) == CASE b = "ikev2" -> listSAs [] b = "l2tp" -> L2tpSessions [] OTHER -> PptpSessions

Rows(b) == [i \in Recorded(b) |-> session[i]]
RowsOf(rows, u) == {i \in DOMAIN rows : rows[i].user = u}
Ranks(rows, u) == {rows[i].rank : i \in RowsOf(rows, u)}

\* What exceeds the k lowest ranks of a user.
Excess(rows, u, k) ==
    {<<i, rows[i].rank>> : i \in {i \in RowsOf(rows, u) :
        Cardinality({r \in Ranks(rows, u) : r < rows[i].rank}) >= k}}

\* An SA is closed by its number; a pppd is told to end by its process id.  Both are
\* gone when this returns or some time later.
Ends(v) ==
    /\ session' = IF v[1] \notin DOMAIN session THEN session
                  ELSE IF v[1][1] = "ike" THEN Without(session, {v[1]})
                  ELSE IF session[v[1]].rank = v[2] THEN [session EXCEPT ![v[1]].closing = TRUE]
                  ELSE session
    /\ UNCHANGED <<clock, sa, carried, again>>

Owner(v) == IF v[1] \in DOMAIN session THEN {session[v[1]].user} ELSE {}

-----------------------------------------------------------------------------
Init ==
    /\ node \in Nodes /\ running = node
    /\ \E l \in Lists : users = [b \in Backend |-> IF b \in node THEN Replaced(b, l) ELSE Nothing]
    /\ secrets = [b \in Backend |-> Passwords(users[b])]
    /\ req = None /\ reply = None /\ asked = <<>>
    /\ session = Nothing /\ clock = 1 /\ sa = 1
    /\ carried = [b \in Backend |-> [u \in Name |-> 0]] /\ again = [u \in Name |-> 0]
    /\ poll = [b \in Backend |-> None] /\ seen = [b \in Backend |-> Nothing]
    /\ online = [b \in Backend |-> [u \in Name |-> 0]]
    /\ counted = [b \in Backend |-> [u \in Name |-> 0]]
    /\ pulls = Nothing /\ base = [b \in Backend |-> None]
    /\ pulled = [b \in Backend |-> 0] /\ rebased = [b \in Backend |-> 0]
    /\ pass = None /\ budget \in Budgets
    /\ moved = {} /\ shed = {} /\ lapsed = FALSE

-----------------------------------------------------------------------------
(* Requests.  left are the backends not called yet, more the rest of a     *)
(* stream of users.                                                        *)

Request(op, list, more, named) ==
    /\ req = None /\ Spend("requests")
    /\ req' = [op |-> op, list |-> list, more |-> more, left |-> node, b |-> None, at |-> "next",
               removed |-> {}, victims |-> {}, err |-> FALSE]
    /\ reply' = None /\ asked' = named
    /\ UNCHANGED <<nodeVars, listVars, liveVars, poll, statVars, pass, histVars>>

\* A stream of users: each is given to every backend before the next is read.
SyncUser == \E l \in Lists : l # <<>> /\ Request("apply", <<Head(l)>>, Tail(l), l)
RestSyncUser == \E u \in User : Request("apply", <<u>>, <<>>, <<u>>)

SyncUsers == \E l \in Lists : Request("replace", l, <<>>, l)
RestSyncUsers == SyncUsers

ChunkedLists == {BuildUsersFromChunks(s) : s \in Streams}

\* Chunks that do not make a list change nothing.
SyncUsersChunked ==
    \/ \E l \in ChunkedLists \ {None} :
        \/ Len(l) <= Large /\ Request("apply", l, <<>>, l)
        \/ Len(l) > Large /\ Request("restart", l, <<>>, l)
    \/ /\ None \in ChunkedLists /\ req = None /\ Spend("requests") /\ reply' = "error"
       /\ UNCHANGED <<nodeVars, listVars, req, asked, liveVars, poll, statVars, pass, histVars>>

RestSyncUsersChunked == SyncUsersChunked

Goto(at) == req' = [req EXCEPT !.at = at]
At(at) == req # None /\ req.at = at /\ UNCHANGED <<reply, asked>>
ReqFrame == UNCHANGED <<node, poll, statVars, pass>>

\* The next backend of the composite takes the list into its table.
Table(b) ==
    LET table == IF req.op = "apply" THEN ApplyUsers(b, users[b], req.list) ELSE Replaced(b, req.list)
        removed == IF req.op = "apply" THEN RemovedBy(b, users[b], req.list)
                   ELSE DOMAIN users[b] \ DOMAIN table
        changed == {x \in DOMAIN table \cup DOMAIN users[b] :
                       x \notin DOMAIN table \/ x \notin DOMAIN users[b] \/ table[x].limit # users[b][x].limit}
    IN  /\ At("next") /\ b \in req.left
        /\ users' = [users EXCEPT ![b] = table]
        /\ req' = [req EXCEPT !.left = @ \ {b}, !.b = b, !.removed = IF b = "ikev2" THEN removed ELSE {},
                              !.at = IF req.op = "restart" THEN "down" ELSE "load"]
        /\ moved' = moved \cup changed
        /\ UNCHANGED <<running, secrets, liveVars, budget, shed, lapsed>> /\ ReqFrame

\* What charon accepts is only ever added to; the lines of chap-secrets are replaced.
Loaded(b) == IF b = "ikev2" THEN Merge(secrets[b], Passwords(users[b])) ELSE Passwords(users[b])

LoadThen == Goto(IF req.removed = {} THEN "next" ELSE "unload")
LoadFails(next) == Spend("fails") /\ req' = [req EXCEPT !.err = TRUE, !.at = next]

Load ==
    /\ At("load")
    /\ \/ secrets' = [secrets EXCEPT ![req.b] = Loaded(req.b)] /\ LoadThen /\ UNCHANGED budget
       \/ LoadFails(IF req.removed = {} THEN "next" ELSE "unload") /\ UNCHANGED secrets
    /\ UNCHANGED <<running, users, liveVars, histVars>> /\ ReqFrame

Ikev2Reload == req # None /\ req.b = "ikev2" /\ Load
L2tpWriteChapSecrets == req # None /\ req.b = "l2tp" /\ Load
PptpWriteChapSecrets == req # None /\ req.b = "pptp" /\ Load

\* Revocation: the secrets first, then the SAs.  Each call may fail and is not repeated.
UnloadShared ==
    /\ At("unload") /\ Goto("list")
    /\ \/ secrets' = [secrets EXCEPT !["ikev2"] = Without(@, req.removed)] /\ UNCHANGED <<budget, lapsed>>
       \/ \E F \in SUBSET req.removed :
            /\ F # {} /\ Spend("fails") /\ lapsed' = TRUE
            /\ secrets' = [secrets EXCEPT !["ikev2"] = Without(@, req.removed \ F)]
    /\ UNCHANGED <<running, users, liveVars, moved, shed>> /\ ReqFrame

ListRevoked ==
    /\ At("list")
    /\ LET V == {i \in listSAs : session[i].user \in req.removed}
       IN  \/ req' = [req EXCEPT !.victims = {<<i, session[i].rank>> : i \in V},
                                 !.at = IF V = {} THEN "next" ELSE "kill"]
              /\ UNCHANGED <<budget, lapsed>>
           \/ Spend("fails") /\ lapsed' = TRUE /\ Goto("next")
    /\ UNCHANGED <<running, listVars, liveVars, moved, shed>> /\ ReqFrame

\* Mutant: the loop ends with the first SA it finds.
TerminateRevoked_First ==
    /\ At("kill")
    /\ \E v \in req.victims :
        /\ req' = [req EXCEPT !.victims = {}, !.at = "next"]
        /\ moved' = moved \cup Owner(v) /\ Ends(v)
    /\ UNCHANGED <<running, listVars, budget, shed, lapsed>> /\ ReqFrame

TerminateRevoked ==
    /\ At("kill")
    /\ \E v \in req.victims :
        /\ req' = [req EXCEPT !.victims = @ \ {v}, !.at = IF req.victims = {v} THEN "next" ELSE "kill"]
        /\ moved' = moved \cup Owner(v)
        /\ \/ Ends(v) /\ UNCHANGED <<budget, lapsed>>
           \/ Spend("fails") /\ lapsed' = TRUE /\ UNCHANGED liveVars
    /\ UNCHANGED <<running, listVars, shed>> /\ ReqFrame

\* Sessions that end with a daemon end by themselves.
EndWith(X) ==
    /\ session' = Without(session, X) /\ moved' = moved \cup {session[i].user : i \in X}
    /\ UNCHANGED <<clock, carried, again>>

\* charon has neither a secret nor an SA of a user that the table does not have.
Clean ==
    /\ DOMAIN secrets["ikev2"] \subseteq DOMAIN users["ikev2"]
    /\ \A i \in listSAs : session[i].user \in DOMAIN users["ikev2"]

\* charon ends with its last holder: with L2TP on the node it may go on, and then it
\* keeps its SAs and its secrets.
Ikev2Down ==
    \/ /\ secrets' = [secrets EXCEPT !["ikev2"] = Nothing] /\ sa' = 1 /\ EndWith(listSAs)
       /\ UNCHANGED lapsed
    \/ /\ "l2tp" \in node
       /\ lapsed' = (lapsed \/ ~Clean)
       /\ UNCHANGED <<secrets, liveVars, moved>>

\* The daemon of a PPP backend ends, and with it any of the pppds; the lines of the tag go.
PppDown(b) ==
    /\ \E X \in SUBSET {i \in Recorded(b) : session[i].b = b} : EndWith(X)
    /\ secrets' = [secrets EXCEPT ![b] = Nothing] /\ UNCHANGED <<sa, lapsed>>

Down(b) ==
    /\ At("down") /\ req.b = b /\ Goto("up")
    /\ running' = running \ {b}
    /\ IF b = "ikev2" THEN Ikev2Down ELSE PppDown(b)
    /\ UNCHANGED <<users, budget, shed>> /\ ReqFrame

\* A start that fails may have written its secrets.
Up(b) ==
    /\ At("up") /\ req.b = b
    /\ \/ /\ running' = running \cup {b} /\ secrets' = [secrets EXCEPT ![b] = Loaded(b)]
          /\ Goto("next") /\ UNCHANGED budget
       \/ /\ LoadFails("next") /\ UNCHANGED running
          /\ secrets' \in {secrets, [secrets EXCEPT ![b] = Loaded(b)]}
    /\ UNCHANGED <<users, liveVars, histVars>> /\ ReqFrame

Ikev2Restart == Down("ikev2") \/ Up("ikev2")
L2tpRestart == Down("l2tp") \/ Up("l2tp")
PptpRestart == Down("pptp") \/ Up("pptp")

\* Mutant: a backend's error is lost.
Answer_Ignores ==
    /\ req # None /\ req.at = "next" /\ req.left = {}
    /\ IF req.more = <<>> THEN req' = None /\ reply' = "ok"
       ELSE UNCHANGED reply /\ req' = [req EXCEPT !.list = <<Head(req.more)>>, !.more = Tail(req.more), !.left = node]
    /\ UNCHANGED <<nodeVars, listVars, asked, liveVars, poll, statVars, pass, budget, histVars>>

\* Every backend was called: an error of any of them is the answer, or the next user of
\* the stream is read.
Answer ==
    /\ req # None /\ req.at = "next" /\ req.left = {}
    /\ IF req.err \/ req.more = <<>>
       THEN req' = None /\ reply' = IF req.err THEN "error" ELSE "ok"
       ELSE /\ req' = [req EXCEPT !.list = <<Head(req.more)>>, !.more = Tail(req.more), !.left = node]
            /\ UNCHANGED reply
    /\ UNCHANGED <<nodeVars, listVars, asked, liveVars, poll, statVars, pass, budget, histVars>>

-----------------------------------------------------------------------------
(* Clients, charon and pppd (external).                                    *)

LiveFrame == UNCHANGED <<nodeVars, listVars, reqVars, poll, statVars, pass>>

Session(b, u, rank) == [b |-> b, user |-> u, rank |-> rank, bytes |-> 0, closing |-> FALSE]
FreePpp == CHOOSE n \in 0..clock : /\ <<"ppp", n>> \notin DOMAIN session
                                   /\ \A m \in 0..(n - 1) : <<"ppp", m>> \in DOMAIN session

Connects ==
    /\ Spend("logins") /\ clock' = clock + 1
    /\ \E b \in running : \E u \in DOMAIN secrets[b] :
        IF b = "ikev2"
        THEN /\ \E ip \in Address : session' = Put(session, <<"ike", sa>>, Session(b, u, ip))
             /\ sa' = sa + 1
        ELSE session' = Put(session, <<"ppp", FreePpp>>, Session(b, u, clock)) /\ UNCHANGED sa
    /\ UNCHANGED <<carried, again, histVars>> /\ LiveFrame

Traffic ==
    /\ Spend("bytes")
    /\ \E i \in DOMAIN session :
        /\ session' = [session EXCEPT ![i].bytes = @ + 1]
        /\ carried' = [carried EXCEPT ![session[i].b][session[i].user] = @ + 1]
    /\ UNCHANGED <<clock, sa, again, histVars>> /\ LiveFrame

\* The SAs that the revocation under way has listed.
Condemned == IF req = None THEN {} ELSE {v[1] : v \in req.victims}

\* rekey_time: an IKE SA gets a new number, and its children come along with their
\* counters.  A revocation that has listed the old number misses it.
RekeyIke ==
    /\ Spend("rekeys") /\ sa' = sa + 1
    /\ \E i \in listSAs :
        /\ session' = Put(Without(session, {i}), <<"ike", sa>>, session[i])
        /\ again' = [again EXCEPT ![session[i].user] = @ + session[i].bytes]
        /\ lapsed' = (lapsed \/ i \in Condemned)
    /\ UNCHANGED <<clock, carried, moved, shed>> /\ LiveFrame

\* A child is replaced: its counters go, what its successor carried so far is left.
RekeyChild ==
    /\ Spend("rekeys")
    /\ \E i \in listSAs : \E n \in 0..session[i].bytes :
        /\ session' = [session EXCEPT ![i].bytes = n]
        /\ again' = [again EXCEPT ![session[i].user] = @ + n]
    /\ UNCHANGED <<clock, sa, carried, histVars>> /\ LiveFrame

Rekey == RekeyIke \/ RekeyChild

Leaves ==
    /\ Spend("leaves")
    /\ \E i \in DOMAIN session : session' = Without(session, {i}) /\ moved' = moved \cup {session[i].user}
    /\ UNCHANGED <<clock, sa, carried, again, shed, lapsed>> /\ LiveFrame

\* A pppd that was told to end does.
Closes ==
    /\ \E i \in DOMAIN session : session[i].closing /\ session' = Without(session, {i})
    /\ UNCHANGED <<clock, sa, carried, again, budget, histVars>> /\ LiveFrame

-----------------------------------------------------------------------------
(* The poll loops: read the sessions, count them, end what exceeds the     *)
(* limit.                                                                  *)

PollFrame == UNCHANGED <<nodeVars, listVars, reqVars, pass>>

\* Nothing happens if charon does not list its SAs.
PollRead(b) ==
    /\ PollTicks /\ b \in running /\ poll[b] = None
    /\ poll' = [poll EXCEPT ![b] = [at |-> "count", rows |-> Rows(b), victims |-> {}]]
    /\ UNCHANGED <<liveVars, statVars, budget, histVars>> /\ PollFrame

\* list-sas has the counters; those of an interface are read now, as 0 if it is gone.
BytesOf(b, i) ==
    IF b = "ikev2" THEN poll[b].rows[i].bytes
    ELSE IF i \in DOMAIN session THEN session[i].bytes ELSE 0

\* A counter that went back is counted from 0.
Growth(b, i) ==
    LET bytes == BytesOf(b, i)
    IN  IF i \in DOMAIN seen[b] /\ bytes >= seen[b][i] THEN bytes - seen[b][i] ELSE bytes

Grown(b, u) == SumFunction([i \in RowsOf(poll[b].rows, u) |-> Growth(b, i)])

LimitFor(b, u) == IF u \in DOMAIN users[b] THEN users[b][u].limit ELSE 0

OverLimit(b, rows) ==
    UNION {Excess(rows, u, LimitFor(b, u)) : u \in {u \in Name : LimitFor(b, u) > 0}}

\* What is left to end; the poll is over when nothing is.
Ending(V) == IF V = {} THEN None ELSE [at |-> "kill", rows |-> Nothing, victims |-> V]

\* Mutant: what was seen of a session is forgotten with every poll.
Count_Forgets(b) ==
    /\ poll[b] # None /\ poll[b].at = "count"
    /\ counted' = [counted EXCEPT ![b] = [u \in Name |-> @[u] + Grown(b, u)]]
    /\ online' = [online EXCEPT ![b] = [u \in Name |-> Cardinality(Ranks(poll[b].rows, u))]]
    /\ poll' = [poll EXCEPT ![b] = Ending(OverLimit(b, poll[b].rows))]
    /\ UNCHANGED <<liveVars, seen, pullVars, budget, histVars>> /\ PollFrame

\* Sessions that are not listed are forgotten; the devices are those listed.
Count(b) ==
    /\ poll[b] # None /\ poll[b].at = "count"
    /\ counted' = [counted EXCEPT ![b] = [u \in Name |-> @[u] + Grown(b, u)]]
    /\ seen' = [seen EXCEPT ![b] = [i \in DOMAIN poll[b].rows |-> BytesOf(b, i)]]
    /\ online' = [online EXCEPT ![b] = [u \in Name |-> Cardinality(Ranks(poll[b].rows, u))]]
    /\ poll' = [poll EXCEPT ![b] = Ending(OverLimit(b, poll[b].rows))]
    /\ UNCHANGED <<liveVars, pullVars, budget, histVars>> /\ PollFrame

\* One device after the other; terminate may fail.
Terminate(v) ==
    \/ Ends(v) /\ shed' = shed \cup Owner(v) /\ UNCHANGED budget
    \/ Spend("fails") /\ UNCHANGED <<liveVars, shed>>

EnforceDeviceLimits(b) ==
    /\ poll[b] # None /\ poll[b].at = "kill"
    /\ \E v \in poll[b].victims : Terminate(v) /\ poll' = [poll EXCEPT ![b] = Ending(poll[b].victims \ {v})]
    /\ UNCHANGED <<statVars, moved, lapsed>> /\ PollFrame

Ikev2Poll == PollRead("ikev2") \/ Count("ikev2")
Ikev2Enforce == EnforceDeviceLimits("ikev2")
L2tpPoll == PollRead("l2tp") \/ Count("l2tp")
L2tpEnforce == EnforceDeviceLimits("l2tp")
PptpPoll == PollRead("pptp") \/ Count("pptp")
PptpEnforce == EnforceDeviceLimits("pptp")

-----------------------------------------------------------------------------
(* The pass over all backends: the devices last polled are added up, the   *)
(* limit is handed out by priority, and what does not fit is ended.        *)

Order == SelectSeq(<<"ikev2", "l2tp", "pptp">>, LAMBDA b : b \in node)

PassFrame == UNCHANGED <<nodeVars, listVars, reqVars, poll, statVars>>
PassKeeps == UNCHANGED <<liveVars, budget, histVars>> /\ PassFrame

Counting == pass # None /\ Len(pass.counts) < Len(Order)
PassIdle == pass # None /\ ~Counting /\ pass.todo = <<>> /\ pass.victims = {}

With(counts) ==
    [counts |-> counts, users |-> {u \in Name : \E k \in DOMAIN counts : counts[k][u] > 0},
     todo |-> <<>>, victims |-> {}]

\* The ticker fires.  A single backend has its own limit only.
enforceGlobalLimits ==
    /\ PassTicks /\ pass = None /\ Cardinality(node) >= 2
    /\ pass' = With(<<>>) /\ PassKeeps

\* The backends are asked one after the other.
OnlineDeviceCounts ==
    /\ Counting
    /\ pass' = With(Append(pass.counts, online[Order[Len(pass.counts) + 1]]))
    /\ PassKeeps

\* The first backend that knows the user has the limit; 0 is none.
UserLimit(u) ==
    LET known == {k \in DOMAIN Order : u \in DOMAIN users[Order[k]]}
    IN  IF known = {} THEN 0 ELSE LimitFor(Order[Min(known)], u)

Total(u) == MapThenSumSet(LAMBDA k : pass.counts[k][u], DOMAIN pass.counts)
Before(k, u) == MapThenSumSet(LAMBDA j : pass.counts[j][u], 1..(k - 1))

\* What is left of the limit when it is backend k's turn.
Remaining(k, u) == IF Before(k, u) >= UserLimit(u) THEN 0 ELSE UserLimit(u) - Before(k, u)
Keep(k, u) == Min({pass.counts[k][u], Remaining(k, u)})

Shares(u, keep(_, _)) ==
    LET over == SelectSeq([k \in DOMAIN Order |-> k], LAMBDA k : keep(k, u) < pass.counts[k][u])
    IN  [n \in DOMAIN over |-> [b |-> Order[over[n]], user |-> u, keep |-> keep(over[n], u)]]

Share(u, keep(_, _)) ==
    /\ PassIdle /\ u \in pass.users
    /\ pass' = [pass EXCEPT !.users = @ \ {u},
                            !.todo = IF UserLimit(u) = 0 \/ Total(u) <= UserLimit(u) THEN <<>> ELSE Shares(u, keep)]
    /\ PassKeeps

\* Mutants: every backend sheds all that is too much; every backend gets the whole limit.
ShareBudget_Each(u) ==
    Share(u, LAMBDA k, x : pass.counts[k][x] - Min({pass.counts[k][x], Total(x) - UserLimit(x)}))
ShareBudget_Whole(u) == Share(u, LAMBDA k, x : Min({pass.counts[k][x], UserLimit(x)}))

ShareBudget(u) == Share(u, Keep)

\* The live sessions are listed again; without a list nothing is ended.
KeepDevices(b) ==
    /\ pass # None /\ pass.victims = {} /\ pass.todo # <<>> /\ Head(pass.todo).b = b
    /\ \/ /\ UNCHANGED budget
          /\ pass' = [pass EXCEPT !.todo = Tail(@),
                                  !.victims = Excess(Rows(b), Head(pass.todo).user, Head(pass.todo).keep)]
       \/ b = "ikev2" /\ Spend("fails") /\ pass' = [pass EXCEPT !.todo = Tail(@)]
    /\ UNCHANGED <<liveVars, histVars>> /\ PassFrame

Ikev2KeepDevices == KeepDevices("ikev2")
L2tpKeepDevices == KeepDevices("l2tp")
PptpKeepDevices == KeepDevices("pptp")

PassTerminate ==
    /\ pass # None
    /\ \E v \in pass.victims : Terminate(v) /\ pass' = [pass EXCEPT !.victims = @ \ {v}]
    /\ UNCHANGED <<moved, lapsed>> /\ PassFrame

PassEnd == PassIdle /\ pass.users = {} /\ pass' = None /\ PassKeeps

EnforceGlobalDeviceLimits ==
    \/ enforceGlobalLimits \/ OnlineDeviceCounts \/ \E u \in Name : ShareBudget(u)
    \/ Ikev2KeepDevices \/ L2tpKeepDevices \/ PptpKeepDevices \/ PassTerminate \/ PassEnd

-----------------------------------------------------------------------------
(* The panel pulls the outbound counters of every backend, one after the   *)
(* other.  Pulls may overlap.                                              *)

TotalOf(b) == SumFunctionOnSet(counted[b], Name)

PullFrame == UNCHANGED <<nodeVars, listVars, reqVars, liveVars, poll, seen, online, counted, pass, histVars>>

GetStats ==
    /\ Spend("pulls")
    /\ pulls' = Put(pulls, budget["pulls"], [left |-> node, b |-> None, sample |-> 0])
    /\ UNCHANGED <<base, pulled, rebased>> /\ PullFrame

\* The composite asks the next backend, or answers.
Continue(k, pull) == IF pull.b = None /\ pull.left = {} THEN Without(pulls, {k}) ELSE Put(pulls, k, pull)

\* The total is read under the lock of the backend; one that is not running answers with
\* an error, and is left out.
Sample(k, b) ==
    /\ pulls[k].b = None /\ b \in pulls[k].left
    /\ pulls' = Continue(k, [left |-> pulls[k].left \ {b}, b |-> IF b \in running THEN b ELSE None,
                             sample |-> IF b \in running THEN TotalOf(b) ELSE 0])
    /\ UNCHANGED <<base, pulled, rebased, budget>> /\ PullFrame

\* The first sample is the baseline; one below it is the next.
Rebased(b, sample) == IF base[b] = None \/ sample < base[b] THEN sample ELSE base[b]

\* The lock is another one: the total may be an old one by now.  A reset moves the
\* baseline; without it the answer is a preview.
Delta(k, b) ==
    LET sample == pulls[k].sample
    IN  /\ pulls[k].b = b
        /\ pulls' = Continue(k, [pulls[k] EXCEPT !.b = None])
        /\ \/ /\ base' = [base EXCEPT ![b] = sample]
              /\ pulled' = [pulled EXCEPT ![b] = @ + sample - Rebased(b, sample)]
           \/ base' = [base EXCEPT ![b] = Rebased(b, sample)] /\ UNCHANGED pulled
        /\ rebased' = [rebased EXCEPT ![b] = IF base[b] # None /\ sample < base[b] THEN @ + base[b] - sample ELSE @]
        /\ UNCHANGED budget /\ PullFrame

Ikev2GetStats(k) == Sample(k, "ikev2") \/ Delta(k, "ikev2")
L2tpGetStats(k) == Sample(k, "l2tp") \/ Delta(k, "l2tp")
PptpGetStats(k) == Sample(k, "pptp") \/ Delta(k, "pptp")

CompositeGetStats == \E k \in DOMAIN pulls : Ikev2GetStats(k) \/ L2tpGetStats(k) \/ PptpGetStats(k)

RestGetStats == GetStats

-----------------------------------------------------------------------------
RequestStep ==
    \/ \E b \in Backend : Table(b)
    \/ Ikev2Reload \/ L2tpWriteChapSecrets \/ PptpWriteChapSecrets
    \/ UnloadShared \/ ListRevoked \/ TerminateRevoked
    \/ Ikev2Restart \/ L2tpRestart \/ PptpRestart \/ Answer

Polls ==
    Ikev2Poll \/ Ikev2Enforce \/ L2tpPoll \/ L2tpEnforce \/ PptpPoll \/ PptpEnforce

Next ==
    \/ SyncUser \/ RestSyncUser \/ SyncUsers \/ RestSyncUsers \/ SyncUsersChunked \/ RestSyncUsersChunked
    \/ RequestStep
    \/ Connects \/ Traffic \/ Rekey \/ Leaves \/ Closes
    \/ Polls \/ EnforceGlobalDeviceLimits \/ GetStats \/ RestGetStats \/ CompositeGetStats

Spec == Init /\ [][Next]_vars

\* Tickers fire again and again, a request comes to its end, and pppd obeys its signals.
Fairness ==
    /\ WF_vars(RequestStep) /\ WF_vars(Closes) /\ WF_vars(EnforceGlobalDeviceLimits)
    /\ WF_vars(Ikev2Poll \/ Ikev2Enforce) /\ WF_vars(L2tpPoll \/ L2tpEnforce)
    /\ WF_vars(PptpPoll \/ PptpEnforce)

FairSpec == Spec /\ Fairness

-----------------------------------------------------------------------------
(* Properties.                                                             *)

Idle == req = None
LastOf(u) == asked[Max({i \in DOMAIN asked : asked[i].name = u})]
Named == {asked[i].name : i \in DOMAIN asked}

\* A request answered with success has reached every backend: each user it named is in
\* the tables and has the credentials of exactly the backends it is listed for.  What
\* IKEv2 removes may lapse (see lapsed).
AckedIsApplied ==
    Idle /\ reply = "ok" =>
        \A b \in node : \A x \in Named :
            IF Wants(b, LastOf(x))
            THEN /\ x \in DOMAIN users[b] /\ users[b][x] = Entry(b, LastOf(x))
                 /\ x \in DOMAIN secrets[b] /\ secrets[b][x] = users[b][x].pass
            ELSE /\ x \notin DOMAIN users[b]
                 /\ x \in DOMAIN secrets[b] => b = "ikev2" /\ lapsed

\* Between requests nobody is connected through IKEv2, or can connect, whom its table
\* does not have, whatever he was doing during the revocation, unless a call of it failed,
\* charon renumbered an SA it had listed or a restart left charon running.
RevokedStaysOut ==
    Idle /\ ~lapsed => Clean

CarriedBy(b) == SumFunctionOnSet(carried[b], Name)

\* No traffic is billed twice: IKEv2 counts for a user no more than his sessions carried,
\* a PPP backend for all of them no more than its sessions carried, and the panel pulls no
\* more than was counted, through numbers used again, sessions that end during a poll, and
\* restarts.  Left out is what charon shows twice (again) and what overlapping pulls report
\* twice (rebased).
NeverOverbilled ==
    \A b \in node :
        /\ IF b = "ikev2" THEN \A u \in Name : counted[b][u] <= carried[b][u] + again[u]
           ELSE TotalOf(b) <= CarriedBy(b)
        /\ pulled[b] <= TotalOf(b) + rebased[b]

\* Not checked, they do not hold: billing without the two exceptions.
RekeyedOnce == \A u \in Name : counted["ikev2"][u] <= carried["ikev2"][u]
PulledOnce == \A b \in node : pulled[b] <= TotalOf(b)

LiveDevices(b, u) ==
    Cardinality({session[i].rank : i \in {i \in Recorded(b) :
        session[i].b = b /\ session[i].user = u /\ ~session[i].closing}})
Devices(u) == MapThenSumSet(LAMBDA b : LiveDevices(b, u), node)

\* Limits end what is too much and no more: a user who lost a device to them still has as
\* many as he may, if none left by itself and his limit is the same.
NotUndercut ==
    \A u \in shed \ moved : UserLimit(u) > 0 => Devices(u) >= UserLimit(u)

\* Once nobody connects any more every user comes down to one limit over all backends,
\* if they run and their tickers fire.
Converges ==
    PassTicks => \A u \in Name : <>[](running = node /\ UserLimit(u) > 0 => Devices(u) <= UserLimit(u))
=============================================================================
