--------------------------- MODULE OpenVPNProofs ---------------------------
(* What holds of the OpenVPN backend for any names, logins, lists and      *)
(* lengths of run.  A client is Good while it is admitted, or about to be, *)
(* and nothing under way will kill it.                                     *)
(*   Admissions every good client is in the table: whoever takes a user    *)
(*              out leaves a kill behind for the clients being admitted;   *)
(*   Counting   sessions has every good client, until a server starts      *)
(*              while the last one's are still counted, and so the limit   *)
(*              that it is held to counts them all;                        *)
(*   Chain      the statuses that are still to be read, in their order,    *)
(*              have rows that only grow;                                  *)
(*   Ledger     what is charged and what is still due was carried.         *)
EXTENDS OpenVPN, DataProofs

\* The calls that a list or a user leaves to be made.
UserCall ==
    [op : {"apply"}, x : Anyone] \cup [op : {"enforce", "kill"}, x : CN] \cup [op : {"client-kill"}, x : Nat]

\* The calls of a restart and of a stop, and what is left of them.
Steps ==
    {Restarting, <<Do("start", None), Do("connect", None)>>, <<Do("connect", None)>>,
     <<Do("close", None), Do("stop", None), Do("end", None)>>,
     <<Do("stop", None), Do("end", None)>>, <<Do("end", None)>>}

\* What is written to the management interface.
Command ==
    [op : {"auth", "deny", "client-kill"}, x : Nat] \cup [op : {"kill"}, x : CN]
        \cup [op : {"status"}, x : {None}]

\* The rows of a status, and what the server sends.
RowMap == UNION {[D -> [cn : CN, bytes : Nat]] : D \in {D \in SUBSET Nat : IsFiniteSet(D)}}
Event ==
    [type : {"connect"}, cid : Nat, login : Login] \cup [type : {"disconnect"}, cid : Nat, cn : CN]
        \cup [type : {"status"}, rows : RowMap]

\* A client of the server.
Client == [cn : CN, login : Login, up : BOOLEAN, bytes : Nat]

\* The table and the sessions of every name.
StoreTypes ==
    /\ DOMAIN users \subseteq CN /\ \A cn \in DOMAIN users : users[cn].limit \in Nat
    /\ sessions \in [CN -> SUBSET Nat] /\ \A cn \in CN : IsFiniteSet(sessions[cn])

\* The calls under way, the reader and the wire in both directions.
WireTypes ==
    /\ todo \in Seq(UserCall) \cup Steps
    /\ reader \in {None} \cup [op : {"auth", "deny"}, x : Nat]
    /\ cmds \in Seq(Command) /\ events \in Seq(Event) /\ late \in Seq(Event)

\* The server and its clients.
ServerTypes ==
    /\ fresh \in Nat /\ DOMAIN client \subseteq 0..(fresh - 1)
    /\ \A c \in DOMAIN client : client[c] \in Client /\ client[c].login.cn = client[c].cn
    /\ carried \in [CN -> Nat]

\* The statistics.
StatTypes ==
    /\ lastStatus \in RowMap
    /\ DOMAIN sessionSeen \subseteq Nat /\ \A c \in DOMAIN sessionSeen : sessionSeen[c] \in Nat
    /\ counted \in [CN -> Nat]

\* The types of the model.
Types == StoreTypes /\ WireTypes /\ ServerTypes /\ StatTypes

-----------------------------------------------------------------------------
(* Queues.                                                                 *)

\* What is listed in a queue is its first element or listed in the rest.
LEMMA ListedTail ==
    ASSUME NEW S, NEW q \in Seq(S), q # <<>>, NEW op, NEW x
    PROVE  Listed(q, op, x) <=> (Head(q).op = op /\ Head(q).x = x) \/ Listed(Tail(q), op, x)
<1>1. Len(q) \in Nat /\ Len(q) # 0 /\ DOMAIN q = 1..Len(q) /\ Head(q) = q[1]
  OBVIOUS
<1>2. /\ Len(Tail(q)) = Len(q) - 1 /\ DOMAIN Tail(q) = 1..(Len(q) - 1)
      /\ \A i \in 1..(Len(q) - 1) : Tail(q)[i] = q[i + 1]
  OBVIOUS
<1>3. ASSUME Listed(q, op, x), ~(Head(q).op = op /\ Head(q).x = x) PROVE Listed(Tail(q), op, x)
  <2>1. PICK i \in 1..Len(q) : q[i].op = op /\ q[i].x = x
    BY <1>1, <1>3 DEF Listed
  <2>2. i - 1 \in 1..(Len(q) - 1) /\ Tail(q)[i - 1] = q[i]
    BY <2>1, <1>1, <1>2, <1>3
  <2> QED
    BY <2>1, <2>2, <1>2 DEF Listed
<1>4. ASSUME Listed(Tail(q), op, x) PROVE Listed(q, op, x)
  <2>1. PICK i \in 1..(Len(q) - 1) : Tail(q)[i].op = op /\ Tail(q)[i].x = x
    BY <1>2, <1>4 DEF Listed
  <2>2. i + 1 \in 1..Len(q) /\ Tail(q)[i] = q[i + 1]
    BY <2>1, <1>1, <1>2
  <2> QED
    BY <2>1, <2>2, <1>1 DEF Listed
<1>5. ASSUME Head(q).op = op /\ Head(q).x = x PROVE Listed(q, op, x)
  BY <1>1, <1>5 DEF Listed
<1> QED
  BY <1>3, <1>4, <1>5

\* What is listed after an Append was so before, or is the element appended.
LEMMA ListedAppend ==
    ASSUME NEW S, NEW q \in Seq(S), NEW e \in S, NEW op, NEW x
    PROVE  Listed(Append(q, e), op, x) <=> (e.op = op /\ e.x = x) \/ Listed(q, op, x)
<1>1. Len(q) \in Nat /\ DOMAIN q = 1..Len(q) /\ DOMAIN Append(q, e) = 1..(Len(q) + 1)
  OBVIOUS
<1>2. Append(q, e)[Len(q) + 1] = e /\ \A i \in 1..Len(q) : Append(q, e)[i] = q[i]
  OBVIOUS
<1>3. \A i \in 1..(Len(q) + 1) : i = Len(q) + 1 \/ i \in 1..Len(q)
  BY <1>1
<1> QED
  BY <1>1, <1>2, <1>3 DEF Listed

\* What is listed in two queues put together is listed in one of them.
LEMMA ListedConcat ==
    ASSUME NEW S, NEW p \in Seq(S), NEW q \in Seq(S), NEW op, NEW x
    PROVE  Listed(p \o q, op, x) <=> Listed(p, op, x) \/ Listed(q, op, x)
<1>1. /\ Len(p) \in Nat /\ Len(q) \in Nat /\ DOMAIN p = 1..Len(p) /\ DOMAIN q = 1..Len(q)
      /\ DOMAIN (p \o q) = 1..(Len(p) + Len(q))
  OBVIOUS
<1>2. \A i \in 1..Len(p) : i \in 1..(Len(p) + Len(q)) /\ (p \o q)[i] = p[i]
  BY <1>1
<1>3. \A i \in 1..Len(q) : Len(p) + i \in 1..(Len(p) + Len(q)) /\ (p \o q)[Len(p) + i] = q[i]
  BY <1>1
<1>4. ASSUME NEW i \in 1..(Len(p) + Len(q)), i \notin 1..Len(p)
      PROVE  i - Len(p) \in 1..Len(q) /\ (p \o q)[i] = q[i - Len(p)]
  BY <1>1, <1>4
<1>5. Listed(p, op, x) => Listed(p \o q, op, x)
  BY <1>1, <1>2 DEF Listed
<1>6. Listed(q, op, x) => Listed(p \o q, op, x)
  BY <1>1, <1>3 DEF Listed
<1>7. ASSUME Listed(p \o q, op, x) PROVE Listed(p, op, x) \/ Listed(q, op, x)
  <2>1. PICK i \in 1..(Len(p) + Len(q)) : (p \o q)[i].op = op /\ (p \o q)[i].x = x
    BY <1>1, <1>7 DEF Listed
  <2> QED
    BY <2>1, <1>1, <1>2, <1>4 DEF Listed
<1> QED
  BY <1>5, <1>6, <1>7

\* DoAll has a call for each member of a finite set and no other.
LEMMA ListedAll ==
    ASSUME NEW X, IsFiniteSet(X), NEW op
    PROVE  /\ DoAll(op, X) \in Seq({Do(op, x) : x \in X})
           /\ \A o, x : Listed(DoAll(op, X), o, x) <=> o = op /\ x \in X
<1> DEFINE S == {Do(op, x) : x \in X}
           f == [x \in X |-> Do(op, x)]
<1>1. S = {f[x] : x \in X}
  OBVIOUS
<1>2. IsFiniteSet(S)
  <2> HIDE DEF f
  <2>1. IsFiniteSet({f[x] : x \in X})
    BY ImageFinite
  <2> QED
    BY <1>1, <2>1
<1>3. DoAll(op, X) = SetToSeq(S)
  BY DEF DoAll
<1> HIDE DEF S
<1>4. SetToSeq(S) \in Seq(S) /\ \A e \in S : \E i \in DOMAIN SetToSeq(S) : SetToSeq(S)[i] = e
  BY <1>2, SetToSeqRange
<1>5. \A i \in DOMAIN SetToSeq(S) : SetToSeq(S)[i] \in S
  BY <1>4
<1>6. ASSUME NEW o, NEW x, Listed(SetToSeq(S), o, x) PROVE o = op /\ x \in X
  <2>1. PICK i \in DOMAIN SetToSeq(S) : SetToSeq(S)[i].op = o /\ SetToSeq(S)[i].x = x
    BY <1>6 DEF Listed
  <2>2. PICK y \in X : SetToSeq(S)[i] = Do(op, y)
    BY <1>5, <2>1 DEF S
  <2> QED
    BY <2>1, <2>2 DEF Do
<1>7. ASSUME NEW x \in X PROVE Listed(SetToSeq(S), op, x)
  <2>1. Do(op, x) \in S /\ Do(op, x).op = op /\ Do(op, x).x = x
    BY DEF S, Do
  <2> QED
    BY <2>1, <1>4 DEF Listed
<1> QED
  BY <1>3, <1>4, <1>6, <1>7 DEF S

-----------------------------------------------------------------------------
(* The types.                                                              *)

\* An entry of a full list has the limit of its user.
LEMMA EntryLimit ==
    ASSUME NEW u
    PROVE  [Entry(u) EXCEPT !.pass = None].limit = u.limit
BY DEF Entry

\* A full list makes a table of names it lists, with their limits.
LEMMA ReplaceAllIs ==
    ASSUME NEW l \in Lists
    PROVE  /\ DOMAIN replaceAll(l) \subseteq CN
           /\ \A cn \in DOMAIN replaceAll(l) :
                /\ replaceAll(l)[cn].limit \in Nat
                /\ \E i \in DOMAIN l : l[i].cn = cn
<1>1. l \in Seq(Anyone) /\ \A u \in Anyone : u.cn \in CN /\ u.limit \in Nat
  BY OpenVPNAssumption DEF OpenVPNAssumption
<1>2. DOMAIN l = 1..Len(l) /\ Len(l) \in Nat /\ \A i \in DOMAIN l : l[i] \in Anyone
  BY <1>1
<1>3. DOMAIN replaceAll(l) = {l[i].cn : i \in {i \in DOMAIN l : wantsInterface(l[i])}}
  BY DEF replaceAll
<1>4. ASSUME NEW cn \in DOMAIN replaceAll(l) PROVE replaceAll(l)[cn].limit \in Nat
  <2> DEFINE I == {i \in DOMAIN l : l[i].cn = cn /\ wantsInterface(l[i])}
             P(i) == /\ l[i].cn = cn /\ wantsInterface(l[i])
                     /\ \A j \in DOMAIN l : l[j].cn = cn /\ wantsInterface(l[j]) => j <= i
  <2>1. I # {} /\ I \in SUBSET (1..Len(l))
    BY <1>2, <1>3, <1>4
  <2>2. IsFiniteSet(I) /\ I \subseteq Int
    <3>1. IsFiniteSet(1..Len(l)) /\ 1..Len(l) \subseteq Int
      BY <1>2, FS_Interval
    <3> HIDE DEF I
    <3> QED
      BY <3>1, <2>1, FS_Subset
  <2>3. \E i \in I : \A j \in I : j <= i
    <3> HIDE DEF I
    <3> QED
      BY <2>1, <2>2, LargestExists
  <2>4. \E i \in DOMAIN l : P(i)
    BY <2>3
  <2>5. (CHOOSE i \in DOMAIN l : P(i)) \in DOMAIN l
    <3> HIDE DEF P
    <3> QED
      BY <2>4
  <2>6. replaceAll(l)[cn] = [Entry(l[CHOOSE i \in DOMAIN l : P(i)]) EXCEPT !.pass = None]
    BY <1>3, <1>4, Zenon DEF replaceAll
  <2>7. replaceAll(l)[cn].limit = l[CHOOSE i \in DOMAIN l : P(i)].limit
    <3> HIDE DEF P
    <3> QED
      BY <2>6, EntryLimit, Zenon
  <2> HIDE DEF P
  <2> QED
    BY <2>5, <2>7, <1>1, <1>2
<1> QED
  BY <1>1, <1>2, <1>3, <1>4

\* The sequence of calls, whatever the request.
AnyCall == UserCall \cup [op : {"stop", "start", "connect", "close", "end"}, x : {None}]

\* The steps of a restart and of a stop are calls.
LEMMA StepsAre ==
    /\ Steps \subseteq Seq(AnyCall)
    /\ \A q \in Steps : q # <<>> /\ Head(q).op \in {"stop", "start", "connect", "close", "end"}
    /\ Seq(UserCall) \subseteq Seq(AnyCall)
<1>1. Seq(UserCall) \subseteq Seq(AnyCall)
  <2>1. UserCall \subseteq AnyCall
    BY DEF AnyCall
  <2> QED
    BY <2>1, SeqMonotonic
<1>2. \A op \in {"stop", "start", "connect", "close", "end"} : Do(op, None) \in AnyCall
  BY DEF AnyCall, Do
<1>3. ASSUME NEW q \in Steps PROVE q \in Seq(AnyCall) /\ q # <<>> /\ Head(q).op \in {"stop", "start", "connect", "close", "end"}
  <2> DEFINE A == Do("stop", None)
             B == Do("start", None)
             C == Do("connect", None)
             D == Do("close", None)
             E == Do("end", None)
  <2>1. A \in AnyCall /\ B \in AnyCall /\ C \in AnyCall /\ D \in AnyCall /\ E \in AnyCall
    BY <1>2
  <2>2. A.op = "stop" /\ B.op = "start" /\ C.op = "connect" /\ D.op = "close" /\ E.op = "end"
    BY DEF Do
  <2>3. q \in {<<A, B, C>>, <<B, C>>, <<C>>, <<D, A, E>>, <<A, E>>, <<E>>}
    BY <1>3 DEF Steps, Restarting
  <2> HIDE DEF A, B, C, D, E
  <2>4. CASE q = <<A, B, C>>
    BY <2>1, <2>2, <2>4
  <2>5. CASE q = <<B, C>>
    BY <2>1, <2>2, <2>5
  <2>6. CASE q = <<C>>
    BY <2>1, <2>2, <2>6
  <2>7. CASE q = <<D, A, E>>
    BY <2>1, <2>2, <2>7
  <2>8. CASE q = <<A, E>>
    BY <2>1, <2>2, <2>8
  <2>9. CASE q = <<E>>
    BY <2>1, <2>2, <2>9
  <2> QED
    BY <2>3, <2>4, <2>5, <2>6, <2>7, <2>8, <2>9
<1> QED
  BY <1>1, <1>3

\* What the call at hand says of the request it is part of.
LEMMA CallIs ==
    ASSUME WireTypes, NEW op, todo # <<>>, Head(todo).op = op
    PROVE  /\ op \in {"apply", "enforce", "kill", "client-kill"} =>
                /\ todo \in Seq(UserCall) /\ Tail(todo) \in Seq(UserCall) /\ Head(todo) \in UserCall
           /\ op = "apply" => Head(todo).x \in Anyone
           /\ op \in {"enforce", "kill"} => Head(todo).x \in CN
           /\ op = "client-kill" => Head(todo).x \in Nat
           /\ op = "stop" =>
                \/ todo = Restarting /\ Tail(todo) = <<Do("start", None), Do("connect", None)>>
                \/ todo = <<Do("stop", None), Do("end", None)>> /\ Tail(todo) = <<Do("end", None)>>
           /\ op = "start" => /\ todo = <<Do("start", None), Do("connect", None)>>
                              /\ Tail(todo) = <<Do("connect", None)>>
           /\ op = "connect" => todo = <<Do("connect", None)>> /\ Tail(todo) = <<>>
           /\ op = "close" => /\ todo = <<Do("close", None), Do("stop", None), Do("end", None)>>
                              /\ Tail(todo) = <<Do("stop", None), Do("end", None)>>
<1>1. CASE todo \in Seq(UserCall)
  <2>1. Head(todo) \in UserCall /\ Tail(todo) \in Seq(UserCall)
    BY <1>1
  <2>2. op \in {"apply", "enforce", "kill", "client-kill"}
    BY <2>1 DEF UserCall
  <2>3. /\ op = "apply" => Head(todo).x \in Anyone
        /\ op \in {"enforce", "kill"} => Head(todo).x \in CN
        /\ op = "client-kill" => Head(todo).x \in Nat
    BY <2>1 DEF UserCall
  <2> QED
    BY <1>1, <2>1, <2>2, <2>3
<1>2. CASE todo \in Steps
  <2> DEFINE A == Do("stop", None)
             B == Do("start", None)
             C == Do("connect", None)
             D == Do("close", None)
             E == Do("end", None)
  <2>1. A.op = "stop" /\ B.op = "start" /\ C.op = "connect" /\ D.op = "close" /\ E.op = "end"
    BY DEF Do
  <2>2. todo \in {<<A, B, C>>, <<B, C>>, <<C>>, <<D, A, E>>, <<A, E>>, <<E>>} /\ Restarting = <<A, B, C>>
    BY <1>2 DEF Steps, Restarting
  <2> HIDE DEF A, B, C, D, E
  <2>3. CASE todo = <<A, B, C>>
    <3>1. Head(todo) = A /\ Tail(todo) = <<B, C>>
      BY <2>3
    <3> QED
      BY <3>1, <2>1, <2>2, <2>3 DEF B, C
  <2>4. CASE todo = <<B, C>>
    <3>1. Head(todo) = B /\ Tail(todo) = <<C>>
      BY <2>4
    <3> QED
      BY <3>1, <2>1, <2>4 DEF B, C
  <2>5. CASE todo = <<C>>
    <3>1. Head(todo) = C /\ Tail(todo) = <<>>
      BY <2>5
    <3> QED
      BY <3>1, <2>1, <2>5 DEF C
  <2>6. CASE todo = <<D, A, E>>
    <3>1. Head(todo) = D /\ Tail(todo) = <<A, E>>
      BY <2>6
    <3> QED
      BY <3>1, <2>1, <2>6 DEF D, A, E
  <2>7. CASE todo = <<A, E>>
    <3>1. Head(todo) = A /\ Tail(todo) = <<E>>
      BY <2>7
    <3> QED
      BY <3>1, <2>1, <2>7 DEF A, E
  <2>8. CASE todo = <<E>>
    <3>1. Head(todo) = E
      BY <2>8
    <3> QED
      BY <3>1, <2>1, <2>8
  <2> QED
    BY <2>2, <2>3, <2>4, <2>5, <2>6, <2>7, <2>8
<1> QED
  BY <1>1, <1>2 DEF WireTypes

\* A first event, by its type.
LEMMA EventIs ==
    ASSUME NEW q \in Seq(Event), q # <<>>
    PROVE  /\ Tail(q) \in Seq(Event) /\ Head(q).type \in {"connect", "disconnect", "status"}
           /\ Head(q).type = "connect" => Head(q).cid \in Nat /\ Head(q).login \in Login
           /\ Head(q).type = "disconnect" => Head(q).cid \in Nat /\ Head(q).cn \in CN
           /\ Head(q).type = "status" => Head(q).rows \in RowMap
<1>1. Head(q) \in Event /\ Tail(q) \in Seq(Event)
  OBVIOUS
<1> QED
  BY <1>1 DEF Event

\* A full list leaves a store.
LEMMA ReplaceTypes ==
    ASSUME StoreTypes, NEW l \in Lists, Replace(replaceAll(l))
    PROVE  StoreTypes'
<1>1. DOMAIN users' \subseteq CN /\ \A cn \in DOMAIN users' : users'[cn].limit \in Nat
  BY ReplaceAllIs DEF Replace
<1>2. sessions' = [cn \in CN |-> IF cn \in Removed(replaceAll(l)) THEN {} ELSE sessions[cn]]
  BY DEF Replace
<1>3. IsFiniteSet({})
  BY FS_EmptySet
<1> QED
  BY <1>1, <1>2, <1>3 DEF StoreTypes

\* A session more and a session less.
LEMMA SessionTypes ==
    ASSUME StoreTypes, users' = users, NEW cn \in CN, NEW S \in SUBSET Nat, IsFiniteSet(S),
           sessions' = [sessions EXCEPT ![cn] = S]
    PROVE  StoreTypes'
BY DEF StoreTypes

\* A session more keeps the store typed.
LEMMA AddSession ==
    ASSUME StoreTypes, users' = users, NEW cn \in CN, NEW c \in Nat,
           sessions' = [sessions EXCEPT ![cn] = @ \cup {c}]
    PROVE  StoreTypes'
<1>1. sessions[cn] \cup {c} \in SUBSET Nat /\ IsFiniteSet(sessions[cn] \cup {c})
  BY FS_AddElement DEF StoreTypes
<1> QED
  BY <1>1, SessionTypes

\* Sessions fewer keep the store typed.
LEMMA DropSessions ==
    ASSUME StoreTypes, users' = users, NEW cn \in CN, NEW E,
           sessions' = [sessions EXCEPT ![cn] = @ \ E]
    PROVE  StoreTypes'
<1>1. sessions[cn] \ E \in SUBSET Nat /\ IsFiniteSet(sessions[cn] \ E)
  <2>1. sessions[cn] \in SUBSET Nat /\ IsFiniteSet(sessions[cn]) /\ sessions[cn] \ E \in SUBSET sessions[cn]
    BY DEF StoreTypes
  <2> QED
    BY <2>1, FS_Subset
<1> QED
  BY <1>1, SessionTypes

\* Every step keeps the store typed.
LEMMA StoreStep ==
    ASSUME Types, Next
    PROVE  StoreTypes'
<1> USE DEF Types
<1>1. CASE UNCHANGED storeVars
  BY <1>1 DEF storeVars, StoreTypes
<1>2. CASE SyncUsers \/ UpdateUsersAndRestart
  BY <1>2, ReplaceTypes DEF SyncUsers, UpdateUsersAndRestart
<1>3. CASE applyUser
  <2> DEFINE u == Head(todo).x
  <2>1. u \in Anyone
    BY <1>3, CallIs DEF applyUser, Call
  <2>2. u.cn \in CN /\ u.limit \in Nat
    BY <2>1, OpenVPNAssumption DEF OpenVPNAssumption
  <2>3. CASE wantsInterface(u)
    <3>1. users' = Put(users, u.cn, Entry(u)) /\ sessions' = sessions
      BY <1>3, <2>3 DEF applyUser
    <3>2. Entry(u).limit = u.limit
      BY DEF Entry
    <3> HIDE DEF u
    <3>3. /\ DOMAIN Put(users, u.cn, Entry(u)) = DOMAIN users \cup {u.cn}
          /\ Put(users, u.cn, Entry(u))[u.cn] = Entry(u)
          /\ \A cn \in DOMAIN users : cn # u.cn => Put(users, u.cn, Entry(u))[cn] = users[cn]
      BY DEF Put
    <3>4. \A cn \in DOMAIN users' : users'[cn].limit \in Nat
      BY <3>1, <3>2, <3>3, <2>2 DEF StoreTypes
    <3> QED
      BY <3>1, <3>3, <3>4, <2>2 DEF StoreTypes
  <2>4. CASE ~wantsInterface(u)
    <3>1. users' = Without(users, {u.cn}) /\ sessions' = [sessions EXCEPT ![u.cn] = {}]
      BY <1>3, <2>4 DEF applyUser
    <3>2. IsFiniteSet({})
      BY FS_EmptySet
    <3> HIDE DEF u
    <3> QED
      BY <3>1, <3>2, <2>2 DEF StoreTypes, Without
  <2> QED
    BY <2>3, <2>4
<1>4. CASE enforceDeviceLimit
  <2>1. Head(todo).x \in CN
    BY <1>4, CallIs DEF enforceDeviceLimit, Call
  <2> QED
    BY <1>4, <2>1, DropSessions DEF enforceDeviceLimit
<1>5. ASSUME NEW e, e.type = "connect" => e.cid \in Nat /\ e.login \in Login,
             e.type = "disconnect" => e.cid \in Nat /\ e.cn \in CN, users' = users,
             \/ UNCHANGED sessions
             \/ e.type = "connect" /\ sessions' = [sessions EXCEPT ![e.login.cn] = @ \cup {e.cid}]
             \/ e.type = "disconnect" /\ releaseSession(e.cn, e.cid)
      PROVE  StoreTypes'
  <2>1. CASE UNCHANGED sessions
    BY <1>5, <2>1 DEF StoreTypes
  <2>2. CASE e.type = "connect" /\ sessions' = [sessions EXCEPT ![e.login.cn] = @ \cup {e.cid}]
    <3>1. e.login.cn \in CN
      BY <1>5, <2>2, OpenVPNAssumption DEF OpenVPNAssumption
    <3> QED
      BY <3>1, <1>5, <2>2, AddSession
  <2>3. CASE e.type = "disconnect" /\ releaseSession(e.cn, e.cid)
    BY <1>5, <2>3, DropSessions DEF releaseSession
  <2> QED
    BY <1>5, <2>1, <2>2, <2>3
<1>6. CASE handleLine
  <2>1. /\ Head(events).type = "connect" => Head(events).cid \in Nat /\ Head(events).login \in Login
        /\ Head(events).type = "disconnect" => Head(events).cid \in Nat /\ Head(events).cn \in CN
    BY <1>6, EventIs DEF handleLine, WireTypes
  <2> QED
    BY <1>6, <2>1, <1>5 DEF handleLine, Handle, Decide
<1>7. CASE lateLine
  <2>1. /\ Head(late).type = "connect" => Head(late).cid \in Nat /\ Head(late).login \in Login
        /\ Head(late).type = "disconnect" => Head(late).cid \in Nat /\ Head(late).cn \in CN
    BY <1>7, EventIs DEF lateLine, WireTypes
  <2> QED
    BY <1>7, <2>1, <1>5 DEF lateLine
<1> HIDE DEF Types
<1>8. ASSUME ~(SyncUsers \/ UpdateUsersAndRestart \/ applyUser \/ enforceDeviceLimit \/ handleLine \/ lateLine)
      PROVE  UNCHANGED storeVars
  BY <1>8 DEF Next, applyUsers, Restart, Shutdown, kill, stopProcess, startProcess, connect, close,
     Crash, ClientConnects, ClientRenews, ClientLeaves, Traffic, TakesAuth, TakesKill, TakesStatus,
     TakesFrame, ExtFrame, finishConnect, requestStatus, collectStats
<1> QED
  BY <1>1, <1>2, <1>3, <1>4, <1>6, <1>7, <1>8

\* The calls for a list are one per user, in its order.
LEMMA ListCalls ==
    ASSUME NEW l \in Lists
    PROVE  /\ [i \in DOMAIN l |-> Do("apply", l[i])] \in Seq(UserCall)
           /\ [i \in DOMAIN l |-> Do("enforce", l[i].cn)] \in Seq(UserCall)
<1>1. l \in Seq(Anyone) /\ \A u \in Anyone : u.cn \in CN
  BY OpenVPNAssumption DEF OpenVPNAssumption
<1>2. DOMAIN l = 1..Len(l) /\ Len(l) \in Nat /\ \A i \in 1..Len(l) : l[i] \in Anyone
  BY <1>1
<1>3. \A i \in 1..Len(l) : Do("apply", l[i]) \in UserCall /\ Do("enforce", l[i].cn) \in UserCall
  BY <1>1, <1>2 DEF Do, UserCall
<1>4. \A f : f \in [1..Len(l) -> UserCall] => f \in Seq(UserCall)
  BY <1>2
<1>5. /\ [i \in DOMAIN l |-> Do("apply", l[i])] \in [1..Len(l) -> UserCall]
      /\ [i \in DOMAIN l |-> Do("enforce", l[i].cn)] \in [1..Len(l) -> UserCall]
  BY <1>2, <1>3
<1> QED
  BY <1>4, <1>5

\* Calls for a finite set of names or of ids.
LEMMA SetCalls ==
    /\ \A X \in SUBSET CN : DoAll("kill", X) \in Seq(UserCall)
    /\ \A X \in SUBSET Nat : IsFiniteSet(X) => DoAll("client-kill", X) \in Seq(UserCall)
<1>1. ASSUME NEW X \in SUBSET CN PROVE DoAll("kill", X) \in Seq(UserCall)
  <2>1. IsFiniteSet(X)
    BY FS_Subset, OpenVPNAssumption DEF OpenVPNAssumption
  <2>2. {Do("kill", x) : x \in X} \subseteq UserCall
    BY DEF Do, UserCall
  <2>3. DoAll("kill", X) \in Seq({Do("kill", x) : x \in X})
    BY <2>1, ListedAll
  <2> HIDE DEF UserCall
  <2> QED
    BY <2>2, <2>3, SeqMonotonic
<1>2. ASSUME NEW X \in SUBSET Nat, IsFiniteSet(X) PROVE DoAll("client-kill", X) \in Seq(UserCall)
  <2>1. {Do("client-kill", x) : x \in X} \subseteq UserCall
    BY DEF Do, UserCall
  <2>2. DoAll("client-kill", X) \in Seq({Do("client-kill", x) : x \in X})
    BY <1>2, ListedAll
  <2> QED
    BY <2>1, <2>2, SeqMonotonic
<1> QED
  BY <1>1, <1>2

\* The sessions to end are some of the name's.
LEMMA ExcessIs ==
    ASSUME StoreTypes, NEW cn \in CN, NEW E \in excessSessions(cn)
    PROVE  E \in SUBSET Nat /\ IsFiniteSet(E) /\ E \subseteq sessions[cn]
<1>1. E \subseteq sessions[cn]
  BY DEF excessSessions
<1>2. sessions[cn] \in SUBSET Nat /\ IsFiniteSet(sessions[cn])
  BY DEF StoreTypes
<1> QED
  BY <1>1, <1>2, FS_Subset

\* Nothing is to be done when a request starts; a list makes calls for users.
LEMMA TodoUser ==
    ASSUME Types, applyUsers \/ SyncUsers \/ applyUser \/ enforceDeviceLimit \/ kill
    PROVE  todo \in Seq(UserCall) /\ todo' \in Seq(UserCall)
<1> USE DEF Types
<1>1. todo \in Seq(UserCall)
  <2>1. CASE applyUsers \/ SyncUsers
    <3>1. <<>> \in Seq(UserCall)
      OBVIOUS
    <3> QED
      BY <2>1, <3>1 DEF applyUsers, SyncUsers, Request
  <2>2. CASE applyUser \/ enforceDeviceLimit \/ kill
    <3>1. todo # <<>> /\ Head(todo).op \in {"apply", "enforce", "kill", "client-kill"}
      BY <2>2 DEF applyUser, enforceDeviceLimit, kill, Call
    <3> QED
      BY <3>1, CallIs
  <2> QED
    BY <2>1, <2>2
<1> SUFFICES todo' \in Seq(UserCall)
  BY <1>1
<1>2. CASE applyUsers
  <2>1. CASE \E u \in User : todo' = <<Do("apply", u)>>
    <3>1. PICK u \in User : todo' = <<Do("apply", u)>>
      BY <2>1
    <3>2. Do("apply", u) \in UserCall
      BY DEF Do, UserCall, Anyone
    <3> QED
      BY <3>1, <3>2
  <2>2. CASE \E l \in Lists : todo' = [i \in DOMAIN l |-> Do("apply", l[i])]
    BY <2>2, ListCalls
  <2> QED
    BY <1>2, <2>1, <2>2 DEF applyUsers, Request
<1>3. CASE SyncUsers
  <2>1. PICK l \in Lists : todo' = DoAll("kill", Removed(replaceAll(l))) \o [i \in DOMAIN l |-> Do("enforce", l[i].cn)]
    BY <1>3 DEF SyncUsers, Request
  <2>2. Removed(replaceAll(l)) \in SUBSET CN
    BY DEF Removed, StoreTypes
  <2>3. DoAll("kill", Removed(replaceAll(l))) \in Seq(UserCall) /\ [i \in DOMAIN l |-> Do("enforce", l[i].cn)] \in Seq(UserCall)
    BY <2>2, SetCalls, ListCalls
  <2> QED
    BY <2>1, <2>3, ConcatProperties
<1>4. CASE applyUser
  <2>1. /\ Head(todo).x \in Anyone /\ Tail(todo) \in Seq(UserCall)
    BY <1>4, CallIs DEF applyUser, Call
  <2>2. Head(todo).x.cn \in CN
    BY <2>1, OpenVPNAssumption DEF OpenVPNAssumption
  <2> DEFINE K == Do("kill", Head(todo).x.cn)
             F == Do("enforce", Head(todo).x.cn)
  <2>3. K \in UserCall /\ F \in UserCall
    BY <2>2 DEF Do, UserCall
  <2>4. todo' \in {<<K>> \o Tail(todo), <<F>> \o Tail(todo), <<>> \o Tail(todo)}
    BY <1>4 DEF applyUser
  <2> HIDE DEF K, F
  <2>5. <<K>> \in Seq(UserCall) /\ <<F>> \in Seq(UserCall) /\ <<>> \in Seq(UserCall)
    BY <2>3
  <2> QED
    BY <2>1, <2>4, <2>5, ConcatProperties
<1>5. CASE enforceDeviceLimit
  <2>1. /\ Head(todo).x \in CN /\ Tail(todo) \in Seq(UserCall)
    BY <1>5, CallIs DEF enforceDeviceLimit, Call
  <2>2. PICK E \in excessSessions(Head(todo).x) : todo' = DoAll("client-kill", E) \o Tail(todo)
    BY <1>5 DEF enforceDeviceLimit
  <2>3. DoAll("client-kill", E) \in Seq(UserCall)
    BY <2>1, ExcessIs, SetCalls
  <2> QED
    BY <2>1, <2>2, <2>3, ConcatProperties
<1>6. CASE kill
  <2>1. Tail(todo) \in Seq(UserCall)
    BY <1>6, CallIs DEF kill, Call
  <2> QED
    BY <1>6, <2>1 DEF kill
<1> QED
  BY <1>2, <1>3, <1>4, <1>5, <1>6

\* Every step keeps the calls typed.
LEMMA TodoStep ==
    ASSUME Types, Next
    PROVE  todo' \in Seq(UserCall) \cup Steps
<1> USE DEF Types
<1>1. CASE UNCHANGED todo
  BY <1>1 DEF WireTypes
<1>2. CASE applyUsers \/ SyncUsers \/ applyUser \/ enforceDeviceLimit \/ kill
  BY <1>2, TodoUser
<1>3. CASE UpdateUsersAndRestart \/ Restart \/ Shutdown
  BY <1>3 DEF UpdateUsersAndRestart, Restart, Shutdown, Request, Steps
<1>4. CASE stopProcess \/ connect \/ close
  <2>1. Tail(todo) \in Steps \cup {<<>>}
    BY <1>4, CallIs DEF stopProcess, connect, close, Call, Steps
  <2>2. todo' = Tail(todo)
    BY <1>4 DEF stopProcess, connect, close
  <2> QED
    <3>1. <<>> \in Seq(UserCall)
      OBVIOUS
    <3> QED
      BY <3>1, <2>1, <2>2
<1>5. CASE startProcess
  <2>1. Tail(todo) = <<Do("connect", None)>>
    BY <1>5, CallIs DEF startProcess, Call
  <2>2. todo' \in {Tail(todo), <<>>}
    BY <1>5 DEF startProcess
  <2> QED
    <3>1. <<>> \in Seq(UserCall)
      OBVIOUS
    <3> QED
      BY <3>1, <2>1, <2>2 DEF Steps
<1> HIDE DEF Types
<1>6. ASSUME ~(applyUsers \/ SyncUsers \/ UpdateUsersAndRestart \/ Restart \/ Shutdown \/ applyUser \/ enforceDeviceLimit
                \/ kill \/ stopProcess \/ startProcess \/ connect \/ close)
       PROVE  UNCHANGED todo
  BY <1>6 DEF Next, Crash, ClientConnects, ClientRenews, ClientLeaves, Traffic, TakesAuth, TakesKill, TakesStatus,
     TakesFrame, ExtFrame, handleLine, finishConnect, lateLine, requestStatus, collectStats, apiVars
<1> QED
  BY <1>1, <1>2, <1>3, <1>4, <1>5, <1>6

\* The announcements of clients that go.
LEMMA GoneIs ==
    ASSUME ServerTypes, NEW X \in SUBSET DOMAIN client
    PROVE  /\ SetToSeq(Gone(X)) \in Seq(Event)
           /\ \A i \in DOMAIN SetToSeq(Gone(X)) :
                \E c \in X : SetToSeq(Gone(X))[i] = [type |-> "disconnect", cid |-> c, cn |-> client[c].cn]
<1>1. IsFiniteSet(X) /\ X \subseteq Nat
  <2>1. DOMAIN client \in SUBSET (0..(fresh - 1)) /\ IsFiniteSet(0..(fresh - 1)) /\ fresh - 1 \in Int
    BY FS_Interval DEF ServerTypes
  <2> QED
    BY <2>1, FS_Subset
<1> DEFINE f == [c \in X |-> [type |-> "disconnect", cid |-> c, cn |-> client[c].cn]]
<1>2. Gone(X) = {f[c] : c \in X}
  BY DEF Gone
<1>3. IsFiniteSet(Gone(X))
  <2> HIDE DEF f
  <2> QED
    BY <1>1, <1>2, ImageFinite
<1>4. SetToSeq(Gone(X)) \in Seq(Gone(X))
  BY <1>3, SetToSeqRange
<1>5. Gone(X) \subseteq Event
  BY <1>1 DEF Gone, Event, ServerTypes, Client
<1>6. SetToSeq(Gone(X)) \in Seq(Event)
  BY <1>4, <1>5, SeqMonotonic
<1>7. \A i \in DOMAIN SetToSeq(Gone(X)) : SetToSeq(Gone(X))[i] \in Gone(X)
  BY <1>4
<1> QED
  BY <1>6, <1>7 DEF Gone

\* A command that is sent.
LEMMA SentIs ==
    ASSUME WireTypes, NEW cmd \in Command
    PROVE  Sent(cmd) \in Seq(Command)
BY DEF WireTypes, Sent

\* Every step keeps the commands typed.
LEMMA CmdsStep ==
    ASSUME Types, Next
    PROVE  cmds' \in Seq(Command)
<1> USE DEF Types
<1>1. CASE UNCHANGED cmds
  BY <1>1 DEF WireTypes
<1>2. CASE cmds' = <<>>
  BY <1>2
<1>3. CASE kill
  <2>1. todo # <<>> /\ Head(todo).op \in {"kill", "client-kill"} /\ cmds' = Sent(Head(todo))
    BY <1>3 DEF kill, Call
  <2>2. /\ Head(todo) \in UserCall
        /\ Head(todo).op = "kill" => Head(todo).x \in CN
        /\ Head(todo).op = "client-kill" => Head(todo).x \in Nat
    BY <2>1, CallIs
  <2>3. Head(todo) \in Command
    BY <2>1, <2>2 DEF UserCall, Command
  <2> QED
    BY <2>1, <2>3, SentIs
<1>4. CASE cmds # <<>> /\ cmds' = Tail(cmds)
  BY <1>4 DEF WireTypes
<1>5. CASE finishConnect
  <2>1. reader \in Command /\ cmds' = Sent(reader)
    BY <1>5 DEF finishConnect, WireTypes, Command
  <2> QED
    BY <2>1, SentIs
<1>6. CASE requestStatus
  <2>1. Do("status", None) \in Command /\ cmds' = Sent(Do("status", None))
    BY <1>6 DEF requestStatus, Do, Command
  <2> QED
    BY <2>1, SentIs
<1> HIDE DEF Types
<1>7. CASE TakesAuth \/ TakesKill \/ TakesStatus
  BY <1>4, <1>7 DEF TakesAuth, TakesKill, TakesStatus, Takes
<1>8. CASE stopProcess
  <2>1. CASE UNCHANGED connVars
    BY <1>1, <2>1 DEF connVars
  <2>2. CASE \E D : Ends(D)
    BY <1>2, <2>2 DEF Ends
  <2> QED
    BY <1>8, <2>1, <2>2 DEF stopProcess
<1>9. CASE Crash \/ connect \/ close
  BY <1>2, <1>9 DEF Crash, Ends, connect, close
<1>10. ASSUME ~(kill \/ finishConnect \/ requestStatus \/ TakesAuth \/ TakesKill \/ TakesStatus \/ stopProcess
                \/ Crash \/ connect \/ close)
       PROVE  UNCHANGED cmds
  BY <1>10 DEF Next, applyUsers, SyncUsers, UpdateUsersAndRestart, Restart, Shutdown, applyUser, enforceDeviceLimit,
     startProcess, ApiFrame, ClientConnects, ClientRenews, ClientLeaves, Traffic, handleLine, lateLine,
     collectStats, connVars
<1> QED
  BY <1>1, <1>3, <1>5, <1>6, <1>7, <1>8, <1>9, <1>10

\* Every step keeps the events typed.
LEMMA EventsStep ==
    ASSUME Types, Next
    PROVE  events' \in Seq(Event) /\ late' \in Seq(Event)
<1> USE DEF Types
<1>1. CASE UNCHANGED <<events, late>>
  BY <1>1 DEF WireTypes
<1>2. CASE events' = <<>> /\ UNCHANGED late
  BY <1>2 DEF WireTypes
<1>3. CASE \E X \in SUBSET DOMAIN client : events' = events \o SetToSeq(Gone(X)) /\ UNCHANGED late
  BY <1>3, GoneIs, ConcatProperties DEF WireTypes
<1>4. CASE \E e \in Event : events' = Append(events, e) /\ UNCHANGED late
  BY <1>4 DEF WireTypes
<1>5. CASE handleLine
  <2>1. events # <<>> /\ events' = Tail(events) /\ UNCHANGED late
    BY <1>5 DEF handleLine
  <2> QED
    BY <2>1 DEF WireTypes
<1>6. CASE lateLine
  <2>1. late # <<>> /\ late' = Tail(late) /\ UNCHANGED events
    BY <1>6 DEF lateLine, connVars
  <2> QED
    BY <2>1 DEF WireTypes
<1>7. CASE connect
  <2>1. PICK n \in 0..Len(events) : late' = late \o SubSeq(events, 1, n)
    BY <1>7 DEF connect
  <2>2. SubSeq(events, 1, n) \in Seq(Event)
    BY <2>1 DEF WireTypes
  <2>3. late' \in Seq(Event)
    BY <2>1, <2>2, ConcatProperties DEF WireTypes
  <2> QED
    BY <1>7, <2>3 DEF connect
<1>8. CASE ClientConnects
  <2>1. PICK l \in Login : events' = Append(events, Asks(fresh, l))
    BY <1>8 DEF ClientConnects
  <2>2. Asks(fresh, l) \in Event
    BY DEF Asks, Event, ServerTypes
  <2> QED
    BY <1>4, <1>8, <2>1, <2>2 DEF ClientConnects, ExtFrame, readVars
<1>9. CASE ClientRenews
  <2>1. PICK c \in DOMAIN client : events' = Append(events, Asks(c, client[c].login))
    BY <1>9 DEF ClientRenews
  <2>2. c \in Nat /\ client[c].login \in Login
    BY DEF ServerTypes, Client
  <2>3. Asks(c, client[c].login) \in Event
    BY <2>2 DEF Asks, Event
  <2> QED
    BY <1>4, <1>9, <2>1, <2>3 DEF ClientRenews, ExtFrame, readVars
<1>10. CASE TakesStatus
  <2>1. Rows \in RowMap
    <3> DEFINE D == {c \in DOMAIN client : Up(c)}
    <3>1. D \in SUBSET Nat /\ IsFiniteSet(D)
      <4>1. D \in SUBSET (0..(fresh - 1)) /\ IsFiniteSet(0..(fresh - 1)) /\ 0..(fresh - 1) \subseteq Nat
        BY FS_Interval DEF ServerTypes
      <4> HIDE DEF D
      <4> QED
        BY <4>1, FS_Subset
    <3>2. Rows \in [D -> [cn : CN, bytes : Nat]]
      BY DEF Rows, ServerTypes, Client
    <3> HIDE DEF D
    <3> QED
      BY <3>1, <3>2 DEF RowMap
  <2>2. [type |-> "status", rows |-> Rows] \in Event
    BY <2>1 DEF Event
  <2> QED
    BY <1>4, <1>10, <2>2 DEF TakesStatus, TakesFrame, ExtFrame, readVars
<1>11. ASSUME NEW X \in SUBSET DOMAIN client, Leave(X), UNCHANGED late PROVE events' \in Seq(Event) /\ late' \in Seq(Event)
  BY <1>3, <1>11 DEF Leave
<1> HIDE DEF Types
<1>12. CASE ClientLeaves
  BY <1>11, <1>12 DEF ClientLeaves, ExtFrame, readVars
<1>13. CASE TakesKill
  <2>1. UNCHANGED late
    BY <1>13 DEF TakesKill, TakesFrame, ExtFrame, readVars
  <2>2. \E X \in SUBSET DOMAIN client : Leave(X)
    <3>1. CASE Leave({Head(cmds).x} \cap DOMAIN client)
      BY <3>1
    <3>2. CASE Leave({c \in DOMAIN client : client[c].cn = Head(cmds).x})
      BY <3>2
    <3> QED
      BY <1>13, <3>1, <3>2 DEF TakesKill
  <2> QED
    BY <2>1, <2>2, <1>11
<1>14. CASE Crash
  <2>1. events' = events \o SetToSeq(Gone({})) /\ UNCHANGED late
    BY <1>14 DEF Crash, Ends, readVars
  <2> QED
    BY <2>1, <1>3
<1>15. CASE stopProcess
  <2>1. UNCHANGED late
    BY <1>15 DEF stopProcess, readVars
  <2>2. CASE UNCHANGED connVars
    BY <1>1, <2>1, <2>2 DEF connVars
  <2>3. CASE \E D \in SUBSET {c \in DOMAIN client : Up(c) /\ connected} : Ends(D)
    <3>1. PICK D \in SUBSET DOMAIN client : Ends(D)
      BY <2>3
    <3> QED
      BY <1>3, <2>1, <3>1 DEF Ends
  <2> QED
    BY <1>15, <2>2, <2>3 DEF stopProcess
<1>16. CASE close
  BY <1>2, <1>16 DEF close
<1>17. ASSUME ~(handleLine \/ lateLine \/ connect \/ ClientConnects \/ ClientRenews \/ TakesStatus \/ ClientLeaves
                \/ TakesKill \/ Crash \/ stopProcess \/ close)
       PROVE  UNCHANGED <<events, late>>
  BY <1>17 DEF Next, applyUsers, SyncUsers, UpdateUsersAndRestart, Restart, Shutdown, applyUser, enforceDeviceLimit,
     ApiFrame, kill, startProcess, Traffic, TakesAuth, TakesFrame, ExtFrame, finishConnect,
     requestStatus, collectStats, connVars, readVars
<1> QED
  BY <1>1, <1>5, <1>6, <1>7, <1>8, <1>9, <1>10, <1>12, <1>13, <1>14, <1>15, <1>16, <1>17

\* Every step keeps the reader typed.
LEMMA ReaderStep ==
    ASSUME Types, Next
    PROVE  reader' \in {None} \cup [op : {"auth", "deny"}, x : Nat]
<1>1. CASE UNCHANGED reader
  BY <1>1 DEF Types, WireTypes
<1>2. CASE reader' = None
  BY <1>2
<1>3. CASE handleLine
  <2>1. Head(events).type = "connect" => Head(events).cid \in Nat
    BY <1>3, EventIs DEF handleLine, Types, WireTypes
  <2>2. \/ UNCHANGED reader
        \/ Head(events).type = "connect" /\ reader' \in {Do("auth", Head(events).cid), Do("deny", Head(events).cid)}
    BY <1>3 DEF handleLine, Handle, Decide
  <2> QED
    BY <1>1, <2>1, <2>2 DEF Do
<1>4. CASE connect \/ close \/ finishConnect
  BY <1>2, <1>4 DEF connect, close, finishConnect
<1>5. ASSUME ~(handleLine \/ connect \/ close \/ finishConnect) PROVE UNCHANGED reader
  BY <1>5 DEF Next, applyUsers, SyncUsers, UpdateUsersAndRestart, Restart, Shutdown, applyUser, enforceDeviceLimit,
     ApiFrame, kill, stopProcess, startProcess, Crash, ClientConnects, ClientRenews, ClientLeaves, Traffic,
     TakesAuth, TakesKill, TakesStatus, TakesFrame, ExtFrame, lateLine, requestStatus, collectStats, readVars
<1> QED
  BY <1>1, <1>3, <1>4, <1>5

\* Every step keeps the server typed.
LEMMA ServerStep ==
    ASSUME Types, Next
    PROVE  ServerTypes'
<1> USE DEF Types
<1>1. CASE UNCHANGED <<client, fresh, carried>>
  BY <1>1 DEF ServerTypes
<1>2. ASSUME NEW D, Ends(D) PROVE ServerTypes'
  BY <1>2 DEF Ends, Nothing, ServerTypes
<1>3. CASE ClientConnects
  <2>1. PICK l \in Login : client' = Put(client, fresh, [cn |-> l.cn, login |-> l, up |-> FALSE, bytes |-> 0])
    BY <1>3 DEF ClientConnects
  <2>2. fresh' = fresh + 1 /\ UNCHANGED carried
    BY <1>3 DEF ClientConnects
  <2>3. l.cn \in CN
    BY OpenVPNAssumption DEF OpenVPNAssumption
  <2> DEFINE k == [cn |-> l.cn, login |-> l, up |-> FALSE, bytes |-> 0]
  <2>4. k \in Client /\ k.login.cn = k.cn
    BY <2>3 DEF Client
  <2> HIDE DEF k
  <2>5. DOMAIN client' = DOMAIN client \cup {fresh} /\ \A c \in DOMAIN client' : client'[c] = IF c = fresh THEN k ELSE client[c]
    BY <2>1 DEF Put, k
  <2> QED
    BY <2>2, <2>4, <2>5 DEF ServerTypes
<1>4. ASSUME NEW X, client' = Without(client, X), UNCHANGED <<fresh, carried>> PROVE ServerTypes'
  BY <1>4 DEF Without, ServerTypes
<1>5. CASE Traffic
  <2>1. PICK c \in DOMAIN client : /\ client' = [client EXCEPT ![c].bytes = @ + 1]
                                   /\ carried' = [carried EXCEPT ![client[c].cn] = @ + 1]
    BY <1>5 DEF Traffic
  <2>2. client[c] \in Client /\ [client[c] EXCEPT !.bytes = @ + 1] \in Client
    BY DEF ServerTypes, Client
  <2>3. client' = [client EXCEPT ![c] = [client[c] EXCEPT !.bytes = @ + 1]]
    BY <2>1
  <2>4. DOMAIN client' = DOMAIN client /\ \A d \in DOMAIN client : d # c => client'[d] = client[d]
    BY <2>3
  <2>5. client'[c] \in Client /\ client'[c].login = client[c].login /\ client'[c].cn = client[c].cn
    BY <2>2, <2>3 DEF Client
  <2>6. carried' \in [CN -> Nat]
    BY <2>1, <2>2 DEF ServerTypes, Client
  <2>7. fresh' = fresh
    BY <1>5 DEF Traffic
  <2> QED
    BY <2>4, <2>5, <2>6, <2>7 DEF ServerTypes
<1>6. CASE TakesAuth
  <2> DEFINE c == Head(cmds).x
  <2>0. UNCHANGED <<fresh, carried>>
    BY <1>6 DEF TakesAuth, TakesFrame
  <2>1. CASE c \notin DOMAIN client
    BY <1>1, <1>6, <2>0, <2>1 DEF TakesAuth
  <2>2. CASE c \in DOMAIN client
    <3>1. client' = [client EXCEPT ![c] = [client[c] EXCEPT !.up = TRUE]]
      BY <1>6, <2>2 DEF TakesAuth
    <3> HIDE DEF c
    <3>2. client[c] \in Client /\ [client[c] EXCEPT !.up = TRUE] \in Client
      BY <2>2 DEF ServerTypes, Client
    <3>3. DOMAIN client' = DOMAIN client /\ \A d \in DOMAIN client : d # c => client'[d] = client[d]
      BY <3>1
    <3>4. client'[c] \in Client /\ client'[c].login = client[c].login /\ client'[c].cn = client[c].cn
      BY <3>1, <3>2, <2>2 DEF Client
    <3> QED
      BY <3>3, <3>4, <2>0 DEF ServerTypes
  <2> QED
    BY <2>1, <2>2
<1> HIDE DEF Types
<1>7. CASE ClientLeaves \/ TakesKill
  <2>1. UNCHANGED <<fresh, carried>>
    BY <1>7 DEF ClientLeaves, TakesKill, TakesFrame
  <2>2. \E X : client' = Without(client, X)
    BY <1>7 DEF ClientLeaves, TakesKill, Leave
  <2> QED
    BY <2>1, <2>2, <1>4
<1>8. CASE Crash
  BY <1>2, <1>8 DEF Crash
<1>9. CASE stopProcess
  BY <1>1, <1>2, <1>9 DEF stopProcess, serverVars
<1>10. ASSUME ~(ClientConnects \/ Traffic \/ TakesAuth \/ ClientLeaves \/ TakesKill \/ Crash \/ stopProcess)
       PROVE  UNCHANGED <<client, fresh, carried>>
  BY <1>10 DEF Next, applyUsers, SyncUsers, UpdateUsersAndRestart, Restart, Shutdown, applyUser, enforceDeviceLimit,
     ApiFrame, kill, startProcess, connect, close, ClientRenews, TakesStatus, TakesFrame, handleLine, finishConnect,
     lateLine, requestStatus, collectStats, serverVars
<1> QED
  BY <1>1, <1>3, <1>5, <1>6, <1>7, <1>8, <1>9, <1>10

-----------------------------------------------------------------------------
(* What the statistics add.                                                *)

\* The rows of a status.
LEMMA RowMapIs ==
    ASSUME NEW r \in RowMap
    PROVE  /\ DOMAIN r \subseteq Nat /\ IsFiniteSet(DOMAIN r)
           /\ \A c \in DOMAIN r : r[c].cn \in CN /\ r[c].bytes \in Nat
<1>1. PICK D \in {D \in SUBSET Nat : IsFiniteSet(D)} : r \in [D -> [cn : CN, bytes : Nat]]
  BY DEF RowMap
<1> QED
  BY <1>1

\* The growth of a row is a number.
LEMMA GrowthNat ==
    ASSUME StatTypes, NEW c \in DOMAIN lastStatus
    PROVE  Growth(sessionSeen, c) \in Nat
<1>1. lastStatus[c].bytes \in Nat
  BY RowMapIs DEF StatTypes
<1> QED
  BY <1>1 DEF Growth, StatTypes

\* What a poll adds to a name is the sum of the growth of its rows.
LEMMA GrownIs ==
    ASSUME StatTypes, NEW cn \in CN
    PROVE  LET C == {c \in DOMAIN lastStatus : lastStatus[c].cn = cn}
           IN  /\ Grown(sessionSeen, cn) = Sum([c \in C |-> Growth(sessionSeen, c)], C)
               /\ Grown(sessionSeen, cn) \in Nat /\ IsFiniteSet(C)
<1> DEFINE C == {c \in DOMAIN lastStatus : lastStatus[c].cn = cn}
           f == [c \in C |-> Growth(sessionSeen, c)]
<1>1. IsFiniteSet(C)
  BY RowMapIs, FS_Subset DEF StatTypes
<1>2. \A c \in C : f[c] \in Nat
  BY GrowthNat
<1>3. Grown(sessionSeen, cn) = SumFunctionOnSet(f, C)
  BY DEF Grown, SumFunction
<1> HIDE DEF C, f
<1>4. Grown(sessionSeen, cn) = Sum(f, C)
  BY <1>3, SumIs
<1>5. Sum(f, C) \in Nat
  BY <1>1, <1>2, SumNat
<1> QED
  BY <1>1, <1>4, <1>5 DEF C, f

\* Every step keeps the statistics typed.
LEMMA StatStep ==
    ASSUME Types, Next
    PROVE  StatTypes'
<1> USE DEF Types
<1>1. CASE UNCHANGED statVars
  BY <1>1 DEF statVars, StatTypes
<1>2. CASE UNCHANGED <<lastStatus, sessionSeen, counted>>
  BY <1>2 DEF StatTypes
<1>3. CASE connect
  <2>1. Nothing \in [{} -> [cn : CN, bytes : Nat]] /\ IsFiniteSet({})
    BY FS_EmptySet DEF Nothing
  <2>2. Nothing \in RowMap
    BY <2>1 DEF RowMap
  <2> QED
    BY <1>3, <2>2 DEF connect, StatTypes
<1>4. CASE handleLine
  <2>1. Head(events).type = "status" => Head(events).rows \in RowMap
    BY <1>4, EventIs DEF handleLine, WireTypes
  <2>2. \/ UNCHANGED lastStatus
        \/ Head(events).type = "status" /\ lastStatus' = Head(events).rows
    BY <1>4 DEF handleLine, Handle, Decide
  <2> QED
    BY <1>4, <2>1, <2>2 DEF handleLine, StatTypes
<1>5. CASE collectStats
  <2>1. /\ counted' = [cn \in CN |-> counted[cn] + Grown(sessionSeen, cn)] /\ UNCHANGED lastStatus
        /\ sessionSeen' = [c \in DOMAIN lastStatus |-> lastStatus[c].bytes]
    BY <1>5 DEF collectStats
  <2>2. \A cn \in CN : Grown(sessionSeen, cn) \in Nat
    BY GrownIs
  <2>3. DOMAIN lastStatus \subseteq Nat /\ \A c \in DOMAIN lastStatus : lastStatus[c].bytes \in Nat
    BY RowMapIs DEF StatTypes
  <2>4. counted' \in [CN -> Nat]
    BY <2>1, <2>2 DEF StatTypes
  <2> QED
    BY <2>1, <2>3, <2>4 DEF StatTypes
<1> HIDE DEF Types
<1>6. ASSUME ~(connect \/ handleLine \/ collectStats)
      PROVE  UNCHANGED <<lastStatus, sessionSeen, counted>>
  BY <1>6 DEF Next, applyUsers, SyncUsers, UpdateUsersAndRestart, Restart, Shutdown, applyUser, enforceDeviceLimit,
     ApiFrame, kill, stopProcess, startProcess, close, Crash, ClientConnects, ClientRenews, ClientLeaves, Traffic,
     TakesAuth, TakesKill, TakesStatus, TakesFrame, ExtFrame, finishConnect, lateLine, requestStatus, statVars
<1> QED
  BY <1>2, <1>3, <1>4, <1>5, <1>6

\* The types hold at the start and are kept.
LEMMA TypesInit == Init => Types
<1> SUFFICES ASSUME Init PROVE Types
  OBVIOUS
<1>1. PICK l \in Lists : users = replaceAll(l)
  BY DEF Init
<1>2. IsFiniteSet({})
  BY FS_EmptySet
<1>3. StoreTypes
  BY <1>1, <1>2, ReplaceAllIs DEF Init, StoreTypes
<1>4. WireTypes
  BY DEF Init, WireTypes
<1>5. ServerTypes
  BY DEF Init, ServerTypes, Nothing
<1>6. Nothing \in [{} -> [cn : CN, bytes : Nat]]
  BY DEF Nothing
<1>7. Nothing \in RowMap
  BY <1>2, <1>6 DEF RowMap
<1>8. StatTypes
  BY <1>7 DEF Init, StatTypes, Nothing
<1> QED
  BY <1>3, <1>4, <1>5, <1>8 DEF Types

\* Every step keeps the types.
LEMMA TypesStep ==
    ASSUME Types, [Next]_vars
    PROVE  Types'
<1>1. CASE UNCHANGED vars
  BY <1>1 DEF vars, storeVars, apiVars, readVars, serverVars, connVars, statVars,
     Types, StoreTypes, WireTypes, ServerTypes, StatTypes
<1>2. CASE Next
  BY <1>2, StoreStep, TodoStep, CmdsStep, EventsStep, ReaderStep, ServerStep, StatStep DEF Types, WireTypes
<1> QED
  BY <1>1, <1>2

-----------------------------------------------------------------------------
(* The requests that stop the server, and the connection.                  *)

\* What is left of a restart once the server is stopped.
Starting == {<<Do("start", None), Do("connect", None)>>, <<Do("connect", None)>>}

\* What is listed in the calls of users, and in the steps of a restart and of a stop.
LEMMA CallsListed ==
    /\ \A q \in Seq(UserCall) : q \notin Starting /\ ~Listed(q, "stop", None)
    /\ \A q \in Steps : \A op \in {"kill", "client-kill", "enforce"} : \A x : ~Listed(q, op, x)
    /\ Restarting \notin Starting /\ Listed(Restarting, "stop", None)
    /\ \A q \in {<<Do("close", None), Do("stop", None), Do("end", None)>>, <<Do("stop", None), Do("end", None)>>} :
            q \notin Starting /\ Listed(q, "stop", None)
    /\ <<Do("end", None)>> \notin Starting
    /\ \A q \in Starting \cup {<<Do("end", None)>>} : ~Listed(q, "stop", None)
<1> DEFINE A == Do("stop", None)
           B == Do("start", None)
           C == Do("connect", None)
           D == Do("close", None)
           E == Do("end", None)
<1>1. /\ A.op = "stop" /\ B.op = "start" /\ C.op = "connect" /\ D.op = "close" /\ E.op = "end"
      /\ A.x = None
  BY DEF Do
<1>2. /\ Steps = {<<A, B, C>>, <<B, C>>, <<C>>, <<D, A, E>>, <<A, E>>, <<E>>}
      /\ Starting = {<<B, C>>, <<C>>} /\ Restarting = <<A, B, C>>
  BY DEF Steps, Starting, Restarting
<1>3. ASSUME NEW q \in Seq(UserCall) PROVE q \notin Starting /\ ~Listed(q, "stop", None)
  <2>1. \A i \in DOMAIN q : q[i].op \in {"apply", "enforce", "kill", "client-kill"}
    <3>1. \A i \in DOMAIN q : q[i] \in UserCall
      OBVIOUS
    <3> QED
      BY <3>1 DEF UserCall
  <2> HIDE DEF B, C
  <2>2. \A r \in {<<B, C>>, <<C>>} : 1 \in DOMAIN r /\ r[1].op \in {"start", "connect"}
    BY <1>1
  <2>3. \A r \in {<<B, C>>, <<C>>} : q # r
    BY <2>1, <2>2
  <2> QED
    BY <2>1, <2>3, <1>2 DEF Listed
<1> HIDE DEF A, B, C, D, E
<1>4. ASSUME NEW q \in Steps, NEW i \in DOMAIN q
      PROVE  q[i].op \in {"stop", "start", "connect", "close", "end"}
  <2>1. q \in {<<A, B, C>>, <<B, C>>, <<C>>, <<D, A, E>>, <<A, E>>, <<E>>}
    BY <1>2, <1>4
  <2>2. CASE q \in {<<A, B, C>>, <<B, C>>, <<C>>}
    BY <2>2, <1>1, <1>4
  <2>3. CASE q \in {<<D, A, E>>, <<A, E>>, <<E>>}
    BY <2>3, <1>1, <1>4
  <2> QED
    BY <2>1, <2>2, <2>3
<1>5. /\ <<A, B, C>>[1] = A /\ 1 \in DOMAIN <<A, B, C>> /\ <<D, A, E>>[2] = A /\ 2 \in DOMAIN <<D, A, E>>
      /\ <<A, E>>[1] = A /\ 1 \in DOMAIN <<A, E>>
  OBVIOUS
<1>6. Listed(<<A, B, C>>, "stop", None) /\ Listed(<<D, A, E>>, "stop", None) /\ Listed(<<A, E>>, "stop", None)
  BY <1>1, <1>5 DEF Listed
<1>7. /\ \A i \in DOMAIN <<B, C>> : <<B, C>>[i] \in {B, C}
      /\ \A i \in DOMAIN <<C>> : <<C>>[i] \in {C}
      /\ \A i \in DOMAIN <<E>> : <<E>>[i] \in {E}
  OBVIOUS
<1>8. ~Listed(<<B, C>>, "stop", None) /\ ~Listed(<<C>>, "stop", None) /\ ~Listed(<<E>>, "stop", None)
  BY <1>1, <1>7 DEF Listed
<1>9. /\ <<A, B, C>> \notin {<<B, C>>, <<C>>} /\ <<D, A, E>> \notin {<<B, C>>, <<C>>}
      /\ <<A, E>> \notin {<<B, C>>, <<C>>} /\ <<E>> \notin {<<B, C>>, <<C>>}
  BY <1>1
<1>10. \A q \in Steps : \A op \in {"kill", "client-kill", "enforce"} : \A x : ~Listed(q, op, x)
  BY <1>4 DEF Listed
<1> QED
  BY <1>2, <1>3, <1>6, <1>8, <1>9, <1>10 DEF A, B, C, D, E

\* Without a server nobody is connected to one, without a connection nothing is on its
\* way to the server, and whoever is still there is about to be stopped.
Wires ==
    /\ ~alive => DOMAIN client = {} /\ ~connected
    /\ ~connected => cmds = <<>> /\ (DOMAIN client = {} \/ Listed(todo, "stop", None))
    /\ todo \in Starting => DOMAIN client = {} /\ ~connected

\* The server runs and is connected at the start.
LEMMA WiresInit == Init => Wires
<1> SUFFICES ASSUME Init PROVE Wires
  OBVIOUS
<1>1. alive /\ connected
  BY DEF Init
<1>2. <<>> \in Seq(UserCall) /\ todo = <<>>
  BY DEF Init
<1>3. todo \notin Starting
  BY <1>2, CallsListed
<1> QED
  BY <1>1, <1>3 DEF Wires

\* The actions of the server and its clients over an open connection.
OverConnection ==
    \/ ClientConnects \/ ClientRenews \/ ClientLeaves \/ Traffic
    \/ TakesAuth \/ TakesKill \/ TakesStatus

\* What the server and its clients do leaves the backend alone.
LEMMA OverConnectionIs ==
    ASSUME OverConnection
    PROVE  connected /\ UNCHANGED <<connected, alive, storeVars, todo, readVars, statVars, mixed>>
BY DEF OverConnection, ClientConnects, ClientRenews, ClientLeaves, Traffic, TakesAuth, TakesKill, TakesStatus, Takes,
   TakesFrame, ExtFrame, serverVars, connVars

\* Every step keeps the wires.
LEMMA WiresStep ==
    ASSUME Types, Wires, Next
    PROVE  Wires'
<1>1. CASE applyUsers \/ SyncUsers \/ applyUser \/ enforceDeviceLimit \/ kill
  <2>1. UNCHANGED <<alive, client, connected>>
    BY <1>1 DEF applyUsers, SyncUsers, applyUser, enforceDeviceLimit, kill, ApiFrame, serverVars, connVars
  <2>2. ~connected => cmds' = cmds
    BY <1>1 DEF applyUsers, SyncUsers, applyUser, enforceDeviceLimit, kill, ApiFrame, connVars, Sent
  <2>3. todo \in Seq(UserCall) /\ todo' \in Seq(UserCall)
    BY <1>1, TodoUser
  <2>4. ~Listed(todo, "stop", None) /\ todo' \notin Starting
    BY <2>3, CallsListed
  <2> QED
    BY <2>1, <2>2, <2>4 DEF Wires
<1>2. CASE UpdateUsersAndRestart \/ Restart \/ Shutdown
  <2>1. UNCHANGED <<alive, client, connected, cmds>>
    BY <1>2 DEF UpdateUsersAndRestart, Restart, Shutdown, ApiFrame, serverVars, connVars
  <2>2. todo' \in {Restarting, <<Do("close", None), Do("stop", None), Do("end", None)>>}
    BY <1>2 DEF UpdateUsersAndRestart, Restart, Shutdown, Request
  <2>3. todo' \notin Starting /\ Listed(todo', "stop", None)
    BY <2>2, CallsListed
  <2> QED
    BY <2>1, <2>3 DEF Wires
<1>3. ASSUME NEW D, Ends(D) PROVE Wires'
  BY <1>3 DEF Ends, Wires, Nothing
<1>4. CASE stopProcess
  <2>1. CASE ~alive /\ UNCHANGED <<serverVars, connVars>>
    BY <2>1 DEF Wires, serverVars, connVars
  <2> QED
    BY <1>3, <1>4, <2>1 DEF stopProcess
<1>5. CASE Crash
  BY <1>3, <1>5 DEF Crash
<1>6. CASE startProcess
  <2>1. todo \in Starting
    BY <1>6, CallIs DEF startProcess, Call, Types, Starting
  <2>2. UNCHANGED <<client, connected, cmds>>
    BY <1>6 DEF startProcess, connVars
  <2> QED
    BY <2>1, <2>2 DEF Wires
<1>7. CASE connect
  <2>1. todo \in Starting /\ todo' = <<>>
    BY <1>7, CallIs DEF connect, Call, Types, Starting
  <2>2. todo' \notin Starting
    <3>1. <<>> \in Seq(UserCall)
      OBVIOUS
    <3> QED
      BY <2>1, <3>1, CallsListed
  <2>3. connected' \in {alive, FALSE} /\ cmds' = <<>> /\ UNCHANGED <<client, alive>>
    BY <1>7 DEF connect, serverVars
  <2>4. DOMAIN client' = {}
    BY <2>1, <2>3 DEF Wires
  <2>5. ~alive' => ~connected'
    BY <2>3, Zenon
  <2> QED
    BY <2>2, <2>3, <2>4, <2>5 DEF Wires
<1>8. CASE close
  <2>1. todo' = <<Do("stop", None), Do("end", None)>>
    BY <1>8, CallIs DEF close, Call, Types
  <2>2. todo' \notin Starting /\ Listed(todo', "stop", None)
    BY <2>1, CallsListed
  <2> QED
    BY <1>8, <2>2 DEF close, Wires, serverVars
<1>9. CASE OverConnection
  BY <1>9, OverConnectionIs DEF Wires
<1>10. CASE handleLine \/ finishConnect \/ lateLine \/ requestStatus \/ collectStats
  <2>1. UNCHANGED <<alive, client, connected, todo>> /\ (~connected => cmds' = cmds)
    BY <1>10 DEF handleLine, finishConnect, lateLine, requestStatus, collectStats, apiVars, serverVars, connVars, Sent
  <2> QED
    BY <2>1 DEF Wires
<1> QED
  BY <1>1, <1>2, <1>4, <1>5, <1>6, <1>7, <1>8, <1>9, <1>10 DEF Next, OverConnection

-----------------------------------------------------------------------------
(* What is on its way over a connection is about clients of this server.   *)

\* An event is about a client that was there: its name, and that it is gone.
EventFits(e, cl, fr) ==
    /\ e.type = "connect" => e.cid < fr /\ (e.cid \in DOMAIN cl => cl[e.cid].cn = e.login.cn)
    /\ e.type = "disconnect" => e.cid < fr /\ e.cid \notin DOMAIN cl

\* What is on the wire is about clients of this server.
Fits ==
    connected =>
        /\ \A i \in DOMAIN events : EventFits(events[i], client, fresh)
        /\ reader # None => reader.x < fresh
        /\ \A i \in DOMAIN cmds : cmds[i].op = "auth" => cmds[i].x < fresh

\* Nothing is on the wire at the start.
LEMMA FitsInit == Init => Fits
BY DEF Init, Fits

\* What holds of all elements of a queue holds of those of its tail and of what is appended.
LEMMA QueueTail ==
    ASSUME NEW S, NEW q \in Seq(S), q # <<>>
    PROVE  \A i \in DOMAIN Tail(q) : i + 1 \in DOMAIN q /\ Tail(q)[i] = q[i + 1]
OBVIOUS

\* An element of an extended queue was there or is the new one.
LEMMA QueueAppend ==
    ASSUME NEW S, NEW q \in Seq(S), NEW e \in S
    PROVE  \A i \in DOMAIN Append(q, e) :
                \/ i \in DOMAIN q /\ Append(q, e)[i] = q[i]
                \/ i \notin DOMAIN q /\ i = Len(q) + 1 /\ Append(q, e)[i] = e
OBVIOUS

\* An element of two queues is of one or of the other.
LEMMA QueueConcat ==
    ASSUME NEW S, NEW p \in Seq(S), NEW q \in Seq(S)
    PROVE  \A i \in DOMAIN (p \o q) :
                \/ i \in DOMAIN p /\ (p \o q)[i] = p[i]
                \/ i \notin DOMAIN p /\ \E j \in DOMAIN q : (p \o q)[i] = q[j]
<1>1. /\ Len(p) \in Nat /\ Len(q) \in Nat /\ DOMAIN p = 1..Len(p) /\ DOMAIN q = 1..Len(q)
      /\ DOMAIN (p \o q) = 1..(Len(p) + Len(q))
  OBVIOUS
<1>2. ASSUME NEW i \in 1..(Len(p) + Len(q)), i \notin 1..Len(p)
      PROVE  i - Len(p) \in 1..Len(q) /\ (p \o q)[i] = q[i - Len(p)]
  BY <1>1, <1>2
<1> QED
  BY <1>1, <1>2

\* Clients that go announce themselves.
LEMMA LeaveFits ==
    ASSUME Types, NEW X \in SUBSET DOMAIN client, Leave(X), fresh' = fresh,
           \A i \in DOMAIN events : EventFits(events[i], client, fresh)
    PROVE  \A i \in DOMAIN events' : EventFits(events'[i], client', fresh')
<1>1. client' = Without(client, X)
  BY DEF Leave
<1>2. PICK D \in SUBSET {c \in X : ~Up(c)} : events' = events \o SetToSeq(Gone(X \ D))
  BY DEF Leave
<1>3. DOMAIN client' = DOMAIN client \ X /\ \A c \in DOMAIN client' : client'[c] = client[c]
  BY <1>1 DEF Without
<1> DEFINE q == SetToSeq(Gone(X \ D))
<1>4. X \ D \in SUBSET DOMAIN client
  OBVIOUS
<1>5. /\ q \in Seq(Event)
      /\ \A i \in DOMAIN q : \E c \in X \ D : q[i] = [type |-> "disconnect", cid |-> c, cn |-> client[c].cn]
  BY <1>4, GoneIs DEF Types
<1> HIDE DEF q
<1>6. events \in Seq(Event) /\ events' = events \o q
  BY <1>2 DEF Types, WireTypes, q
<1>7. \A c \in DOMAIN client : c < fresh
  BY DEF Types, ServerTypes
<1>8. \A e : EventFits(e, client, fresh) => EventFits(e, client', fresh')
  BY <1>3 DEF EventFits
<1>9. \A i \in DOMAIN q : EventFits(q[i], client', fresh')
  BY <1>3, <1>5, <1>7 DEF EventFits
<1> QED
  BY <1>6, <1>8, <1>9, QueueConcat

\* A command that is sent fits if it is no admission or one of a client.
LEMMA SentFits ==
    ASSUME WireTypes, NEW cmd \in Command, cmds' = Sent(cmd), cmd.op = "auth" => cmd.x < fresh,
           \A i \in DOMAIN cmds : cmds[i].op = "auth" => cmds[i].x < fresh
    PROVE  \A i \in DOMAIN cmds' : cmds'[i].op = "auth" => cmds'[i].x < fresh
<1>1. CASE cmds' = cmds
  BY <1>1
<1>2. CASE cmds' = Append(cmds, cmd)
  BY <1>2, QueueAppend DEF WireTypes
<1> QED
  BY <1>1, <1>2 DEF Sent

\* Only connect opens a connection, and there is nothing on it then.
LEMMA ConnectIs ==
    ASSUME Types, Wires, connect
    PROVE  /\ events' = <<>> /\ cmds' = <<>> /\ reader' = None /\ lastStatus' = Nothing
           /\ DOMAIN client = {} /\ UNCHANGED client /\ todo' = <<>> /\ todo = <<Do("connect", None)>>
<1>1. todo = <<Do("connect", None)>> /\ todo' = <<>>
  BY CallIs DEF connect, Call, Types
<1>2. todo \in Starting
  BY <1>1 DEF Starting
<1> QED
  BY <1>1, <1>2 DEF connect, Wires, serverVars

\* Every step keeps what is on the wire about this server.
LEMMA FitsStep ==
    ASSUME Types, Wires, Fits, Next
    PROVE  Fits'
<1> SUFFICES ASSUME connected' PROVE
        /\ \A i \in DOMAIN events' : EventFits(events'[i], client', fresh')
        /\ reader' # None => reader'.x < fresh'
        /\ \A i \in DOMAIN cmds' : cmds'[i].op = "auth" => cmds'[i].x < fresh'
  BY DEF Fits
<1>1. CASE connect
  BY <1>1, ConnectIs
<1>2. CASE Crash \/ close
  BY <1>2 DEF Crash, Ends, close
<1>3. CASE stopProcess
  <2>1. CASE ~alive /\ UNCHANGED <<serverVars, connVars>>
    BY <2>1 DEF Wires, connVars
  <2>2. CASE \E D : Ends(D)
    BY <2>2 DEF Ends
  <2> QED
    BY <1>3, <2>1, <2>2 DEF stopProcess
<1> SUFFICES ASSUME connected, ~(connect \/ Crash \/ close \/ stopProcess) PROVE
        /\ \A i \in DOMAIN events' : EventFits(events'[i], client', fresh')
        /\ reader' # None => reader'.x < fresh'
        /\ \A i \in DOMAIN cmds' : cmds'[i].op = "auth" => cmds'[i].x < fresh'
  <2>1. CASE connect \/ Crash \/ close \/ stopProcess
    BY <2>1, <1>1, <1>2, <1>3
  <2>2. CASE ~(connect \/ Crash \/ close \/ stopProcess)
    <3>1. connected' = connected
      BY <2>2, OverConnectionIs DEF Next, OverConnection, applyUsers, SyncUsers, UpdateUsersAndRestart, Restart, Shutdown,
         applyUser, enforceDeviceLimit, ApiFrame, kill, startProcess, handleLine, finishConnect, lateLine,
         requestStatus, collectStats, connVars
    <3> QED
      BY <2>2, <3>1
  <2> QED
    BY <2>1, <2>2
<1>4. /\ \A i \in DOMAIN events : EventFits(events[i], client, fresh)
      /\ reader # None => reader.x < fresh
      /\ \A i \in DOMAIN cmds : cmds[i].op = "auth" => cmds[i].x < fresh
  BY DEF Fits
<1>5. /\ events \in Seq(Event) /\ cmds \in Seq(Command) /\ fresh \in Nat
      /\ \A c \in DOMAIN client : c < fresh /\ c \in Nat
      /\ reader \in {None} \cup [op : {"auth", "deny"}, x : Nat]
      /\ \A i \in DOMAIN events : events[i].type \in {"connect", "disconnect"} => events[i].cid \in Nat
      /\ \A i \in DOMAIN cmds : cmds[i].op = "auth" => cmds[i].x \in Nat
  <2>1. events \in Seq(Event) /\ cmds \in Seq(Command) /\ fresh \in Nat
    BY DEF Types, WireTypes, ServerTypes
  <2>2. \A i \in DOMAIN events : events[i].type \in {"connect", "disconnect"} => events[i].cid \in Nat
    <3>1. \A i \in DOMAIN events : events[i] \in Event
      BY <2>1
    <3> QED
      BY <3>1 DEF Event
  <2>3. \A i \in DOMAIN cmds : cmds[i].op = "auth" => cmds[i].x \in Nat
    <3>1. \A i \in DOMAIN cmds : cmds[i] \in Command
      BY <2>1
    <3> QED
      BY <3>1 DEF Command
  <2> QED
    BY <2>1, <2>2, <2>3 DEF Types, WireTypes, ServerTypes
<1>6. CASE UNCHANGED <<events, reader, cmds, client, fresh>>
  BY <1>4, <1>6
<1>7. CASE kill
  <2>1. todo # <<>> /\ Head(todo).op \in {"kill", "client-kill"} /\ cmds' = Sent(Head(todo))
        /\ UNCHANGED <<events, reader, client, fresh>>
    BY <1>7 DEF kill, Call, readVars, serverVars
  <2>2. /\ Head(todo) \in UserCall
        /\ Head(todo).op = "kill" => Head(todo).x \in CN
        /\ Head(todo).op = "client-kill" => Head(todo).x \in Nat
    BY <2>1, CallIs DEF Types
  <2>3. Head(todo) \in Command
    BY <2>1, <2>2 DEF UserCall, Command
  <2> QED
    BY <2>1, <2>3, <1>4, SentFits DEF Types
<1>8. CASE requestStatus
  <2>1. Do("status", None) \in Command /\ Do("status", None).op # "auth" /\ cmds' = Sent(Do("status", None))
    BY <1>8 DEF requestStatus, Do, Command
  <2>2. UNCHANGED <<events, reader, client, fresh>>
    BY <1>8 DEF requestStatus, readVars, serverVars
  <2> QED
    BY <2>1, <2>2, <1>4, SentFits DEF Types
<1>9. CASE finishConnect
  <2>1. reader # None /\ cmds' = Sent(reader) /\ reader' = None /\ UNCHANGED <<events, client, fresh>>
    BY <1>9 DEF finishConnect, serverVars
  <2>2. reader \in Command
    BY <2>1, <1>5 DEF Command
  <2> QED
    BY <2>1, <2>2, <1>4, SentFits DEF Types
<1>10. CASE handleLine
  <2>1. events # <<>> /\ events' = Tail(events) /\ UNCHANGED <<client, fresh, cmds>> /\ reader = None
    BY <1>10 DEF handleLine, serverVars
  <2>2. Head(events) = events[1] /\ 1 \in DOMAIN events
    BY <2>1, <1>5
  <2>3. reader' = None \/ (Head(events).type = "connect" /\ reader'.x = Head(events).cid)
    BY <1>10, <2>1 DEF handleLine, Handle, Decide, Do
  <2>4. Head(events).type = "connect" => Head(events).cid < fresh
    BY <2>2, <1>4 DEF EventFits
  <2>5. \A i \in DOMAIN events' : EventFits(events'[i], client', fresh')
    BY <2>1, <1>4, <1>5, QueueTail
  <2> QED
    BY <2>1, <2>3, <2>4, <2>5, <1>4
<1>11. CASE ClientConnects
  <2>1. PICK l \in Login : /\ client' = Put(client, fresh, [cn |-> l.cn, login |-> l, up |-> FALSE, bytes |-> 0])
                           /\ events' = Append(events, Asks(fresh, l))
    BY <1>11 DEF ClientConnects
  <2>2. fresh' = fresh + 1 /\ UNCHANGED <<reader, cmds>>
    BY <1>11 DEF ClientConnects, ExtFrame, readVars
  <2>3. /\ DOMAIN client' = DOMAIN client \cup {fresh} /\ client'[fresh].cn = l.cn
        /\ \A c \in DOMAIN client : c # fresh => client'[c] = client[c]
    BY <2>1 DEF Put
  <2>4. Asks(fresh, l) \in Event /\ EventFits(Asks(fresh, l), client', fresh')
    BY <2>2, <2>3, <1>5 DEF Asks, Event, EventFits
  <2>5. \A i \in DOMAIN events : EventFits(events[i], client', fresh')
    BY <2>2, <2>3, <1>4, <1>5 DEF EventFits
  <2>6. \A i \in DOMAIN events' : EventFits(events'[i], client', fresh')
    <3>1. \A i \in DOMAIN events' : (i \in DOMAIN events /\ events'[i] = events[i]) \/ events'[i] = Asks(fresh, l)
      BY <2>1, <2>4, <1>5, QueueAppend
    <3> QED
      BY <3>1, <2>4, <2>5
  <2>7. reader' # None => reader'.x < fresh'
    BY <2>2, <1>4, <1>5
  <2>8. \A i \in DOMAIN cmds' : cmds'[i].op = "auth" => cmds'[i].x < fresh'
    BY <2>2, <1>4, <1>5
  <2> QED
    BY <2>6, <2>7, <2>8
<1>12. CASE ClientRenews
  <2>1. PICK c \in DOMAIN client : events' = Append(events, Asks(c, client[c].login))
    BY <1>12 DEF ClientRenews
  <2>2. UNCHANGED <<client, fresh, reader, cmds>>
    BY <1>12 DEF ClientRenews, ExtFrame, readVars, serverVars
  <2>3. client[c].login \in Login /\ client[c].login.cn = client[c].cn
    BY DEF Types, ServerTypes, Client
  <2>4. Asks(c, client[c].login) \in Event /\ EventFits(Asks(c, client[c].login), client', fresh')
    BY <2>2, <2>3, <1>5 DEF Asks, Event, EventFits
  <2> QED
    BY <2>1, <2>2, <2>4, <1>4, <1>5, QueueAppend
<1>13. CASE ClientLeaves
  <2>1. UNCHANGED <<reader, cmds, fresh>>
    BY <1>13 DEF ClientLeaves, ExtFrame, readVars
  <2>2. PICK c \in DOMAIN client : Leave({c})
    BY <1>13 DEF ClientLeaves
  <2>3. {c} \in SUBSET DOMAIN client
    OBVIOUS
  <2> QED
    BY <2>1, <2>2, <2>3, <1>4, LeaveFits
<1>14. ASSUME NEW c \in DOMAIN client, NEW k, client' = [client EXCEPT ![c] = k], k.cn = client[c].cn, fresh' = fresh
       PROVE  \A e : EventFits(e, client, fresh) => EventFits(e, client', fresh')
  BY <1>14 DEF EventFits
<1>15. CASE Traffic
  <2>1. UNCHANGED <<reader, cmds, fresh, events>>
    BY <1>15 DEF Traffic, ExtFrame, readVars, connVars
  <2>2. PICK c \in DOMAIN client : client' = [client EXCEPT ![c] = [client[c] EXCEPT !.bytes = @ + 1]]
    BY <1>15 DEF Traffic
  <2>3. [client[c] EXCEPT !.bytes = @ + 1].cn = client[c].cn
    BY DEF Types, ServerTypes, Client
  <2> QED
    BY <2>1, <2>2, <2>3, <1>4, <1>14
<1>16. ASSUME cmds # <<>>, cmds' = Tail(cmds), fresh' = fresh
       PROVE  \A i \in DOMAIN cmds' : cmds'[i].op = "auth" => cmds'[i].x < fresh'
  BY <1>16, <1>4, <1>5, QueueTail
<1>17. CASE TakesAuth
  <2>1. UNCHANGED <<reader, events, fresh>> /\ cmds # <<>> /\ cmds' = Tail(cmds)
    BY <1>17 DEF TakesAuth, Takes, TakesFrame, ExtFrame, readVars
  <2>2. \A e : EventFits(e, client, fresh) => EventFits(e, client', fresh')
    <3> DEFINE c == Head(cmds).x
    <3>1. CASE c \notin DOMAIN client
      BY <3>1, <2>1, <1>17 DEF TakesAuth
    <3>2. CASE c \in DOMAIN client
      <4>1. client' = [client EXCEPT ![c] = [client[c] EXCEPT !.up = TRUE]]
        BY <1>17, <3>2 DEF TakesAuth
      <4> HIDE DEF c
      <4>2. [client[c] EXCEPT !.up = TRUE].cn = client[c].cn
        BY <3>2 DEF Types, ServerTypes, Client
      <4> QED
        BY <3>2, <4>1, <4>2, <2>1, <1>14
    <3> QED
      BY <3>1, <3>2
  <2> QED
    BY <2>1, <2>2, <1>4, <1>16
<1>18. CASE TakesKill
  <2>1. UNCHANGED <<reader, fresh>> /\ cmds # <<>> /\ cmds' = Tail(cmds)
    BY <1>18 DEF TakesKill, Takes, TakesFrame, ExtFrame, readVars
  <2>2. \E X \in SUBSET DOMAIN client : Leave(X)
    <3>1. CASE Leave({Head(cmds).x} \cap DOMAIN client)
      BY <3>1
    <3>2. CASE Leave({c \in DOMAIN client : client[c].cn = Head(cmds).x})
      BY <3>2
    <3> QED
      BY <1>18, <3>1, <3>2 DEF TakesKill
  <2> QED
    BY <2>1, <2>2, <1>4, <1>16, LeaveFits
<1>19. CASE TakesStatus
  <2>1. UNCHANGED <<reader, client, fresh>> /\ cmds # <<>> /\ cmds' = Tail(cmds)
        /\ events' = Append(events, [type |-> "status", rows |-> Rows])
    BY <1>19 DEF TakesStatus, Takes, TakesFrame, ExtFrame, readVars
  <2>2. EventFits([type |-> "status", rows |-> Rows], client', fresh')
    BY DEF EventFits
  <2>3. DOMAIN events = 1..Len(events) /\ Len(events) \in Nat /\ DOMAIN events' = 1..(Len(events) + 1)
        /\ events'[Len(events) + 1] = [type |-> "status", rows |-> Rows]
        /\ \A i \in 1..Len(events) : events'[i] = events[i]
    BY <2>1, <1>5
  <2>4. \A i \in DOMAIN events' : i \in DOMAIN events \/ i = Len(events) + 1
    BY <2>3
  <2> QED
    BY <2>1, <2>2, <2>3, <2>4, <1>4, <1>16
<1>20. ASSUME ~(kill \/ requestStatus \/ finishConnect \/ handleLine \/ OverConnection)
       PROVE  UNCHANGED <<events, reader, cmds, client, fresh>>
  BY <1>20 DEF Next, OverConnection, applyUsers, SyncUsers, UpdateUsersAndRestart, Restart, Shutdown, applyUser,
     enforceDeviceLimit, ApiFrame, startProcess, lateLine, collectStats, connVars, readVars, serverVars
<1> QED
  BY <1>6, <1>7, <1>8, <1>9, <1>10, <1>11, <1>12, <1>13, <1>15, <1>17, <1>18, <1>19, <1>20 DEF OverConnection

-----------------------------------------------------------------------------
(* Whom the store has let in.                                              *)

\* Let in, whether the answer has reached the server or not.
Admitted(c) == Up(c) \/ Listed(cmds, "auth", c) \/ reader = Do("auth", c)

\* Let in and not about to be ended.
Good(c) == c \in DOMAIN client /\ Admitted(c) /\ ~Doomed(c)

\* What dooms a client, call by call.
LEMMA DoomedIs ==
    ASSUME NEW c
    PROVE  Doomed(c) <=> \/ Listed(todo, "kill", client[c].cn) \/ Listed(cmds, "kill", client[c].cn)
                         \/ Listed(todo, "client-kill", c) \/ Listed(cmds, "client-kill", c)
                         \/ Listed(cmds, "deny", c) \/ (reader # None /\ reader.op = "deny" /\ reader.x = c)
                         \/ Listed(todo, "stop", None) \/ Listed(cmds, "stop", None)
<1>1. Listed(<<reader>>, "deny", c) <=> reader.op = "deny" /\ reader.x = c
  BY DEF Listed
<1> QED
  BY <1>1 DEF Doomed, Coming

\* The same in the next state.
LEMMA DoomedNext ==
    ASSUME NEW c
    PROVE  Doomed(c)' <=> \/ Listed(todo', "kill", client'[c].cn) \/ Listed(cmds', "kill", client'[c].cn)
                          \/ Listed(todo', "client-kill", c) \/ Listed(cmds', "client-kill", c)
                          \/ Listed(cmds', "deny", c) \/ (reader' # None /\ reader'.op = "deny" /\ reader'.x = c)
                          \/ Listed(todo', "stop", None) \/ Listed(cmds', "stop", None)
<1>1. Listed(<<reader'>>, "deny", c) <=> reader'.op = "deny" /\ reader'.x = c
  BY DEF Listed
<1> QED
  BY <1>1 DEF Doomed, Coming

\* Nobody is doomed, or let in, by an empty queue.
LEMMA ListedNone ==
    \A op, x : ~Listed(<<>>, op, x)
BY DEF Listed

\* What is to be done for a user is done before the rest of the list.
LEMMA CallsFirst ==
    ASSUME Types, applyUser \/ enforceDeviceLimit
    PROVE  \E p \in Seq(UserCall) : todo' = p \o Tail(todo)
<1>1. CASE applyUser
  <2>1. Head(todo).x \in Anyone
    BY <1>1, CallIs DEF applyUser, Call, Types
  <2>2. Head(todo).x.cn \in CN
    BY <2>1, OpenVPNAssumption DEF OpenVPNAssumption
  <2> DEFINE K == Do("kill", Head(todo).x.cn)
             F == Do("enforce", Head(todo).x.cn)
  <2>3. K \in UserCall /\ F \in UserCall
    BY <2>2 DEF Do, UserCall
  <2>4. todo' \in {<<K>> \o Tail(todo), <<F>> \o Tail(todo), <<>> \o Tail(todo)}
    BY <1>1 DEF applyUser
  <2> HIDE DEF K, F
  <2>5. <<K>> \in Seq(UserCall) /\ <<F>> \in Seq(UserCall) /\ <<>> \in Seq(UserCall)
    BY <2>3
  <2> QED
    BY <2>4, <2>5
<1>2. CASE enforceDeviceLimit
  <2>1. Head(todo).x \in CN
    BY <1>2, CallIs DEF enforceDeviceLimit, Call, Types
  <2>2. PICK E \in excessSessions(Head(todo).x) : todo' = DoAll("client-kill", E) \o Tail(todo)
    BY <1>2 DEF enforceDeviceLimit
  <2>3. DoAll("client-kill", E) \in Seq(UserCall)
    BY <2>1, ExcessIs, SetCalls DEF Types
  <2> QED
    BY <2>2, <2>3
<1> QED
  BY <1>1, <1>2

\* A request on its way changes nothing for the clients: what doomed one still does.
LEMMA RequestKeepsGood ==
    ASSUME Types, Wires, NEW c, Good(c)',
           applyUsers \/ SyncUsers \/ UpdateUsersAndRestart \/ Restart \/ Shutdown \/ applyUser \/ enforceDeviceLimit \/ kill
    PROVE  Good(c) /\ client'[c].cn = client[c].cn
<1>1. UNCHANGED <<client, reader, connected>>
  BY DEF applyUsers, SyncUsers, UpdateUsersAndRestart, Restart, Shutdown, applyUser, enforceDeviceLimit, kill,
     ApiFrame, serverVars, connVars, readVars
<1>2. c \in DOMAIN client /\ ~Doomed(c)' /\ Admitted(c)'
  BY <1>1 DEF Good
<1>3. cmds \in Seq(Command)
  BY DEF Types, WireTypes
<1>4. CASE applyUsers \/ SyncUsers \/ UpdateUsersAndRestart \/ Restart \/ Shutdown
  <2>1. todo = <<>> /\ UNCHANGED cmds
    BY <1>4 DEF applyUsers, SyncUsers, UpdateUsersAndRestart, Restart, Shutdown, Request, ApiFrame, connVars
  <2>2. ~Doomed(c)
    BY <1>1, <1>2, <2>1, DoomedIs, DoomedNext, ListedNone
  <2>3. Admitted(c)
    BY <1>1, <1>2, <2>1 DEF Admitted, Up
  <2> QED
    BY <1>1, <1>2, <2>2, <2>3 DEF Good
<1>5. CASE applyUser \/ enforceDeviceLimit
  <2>1. todo # <<>> /\ todo \in Seq(UserCall) /\ Head(todo).op \in {"apply", "enforce"} /\ UNCHANGED cmds
    BY <1>5, TodoUser DEF applyUser, enforceDeviceLimit, Call, ApiFrame, connVars
  <2>2. \E p \in Seq(UserCall) : todo' = p \o Tail(todo)
    BY <1>5, CallsFirst
  <2>3. PICK p \in Seq(UserCall) : todo' = p \o Tail(todo)
    BY <2>2
  <2>4. Tail(todo) \in Seq(UserCall)
    BY <2>1
  <2>5. \A op, x : op \notin {"apply", "enforce"} /\ Listed(todo, op, x) => Listed(Tail(todo), op, x)
    BY <2>1, ListedTail
  <2>6. \A op, x : Listed(Tail(todo), op, x) => Listed(todo', op, x)
    BY <2>3, <2>4, ListedConcat
  <2>7. \A x : /\ Listed(todo, "kill", x) => Listed(todo', "kill", x)
               /\ Listed(todo, "client-kill", x) => Listed(todo', "client-kill", x)
               /\ Listed(todo, "stop", x) => Listed(todo', "stop", x)
    BY <2>5, <2>6
  <2>8. ~Doomed(c)
    BY <1>1, <1>2, <2>1, <2>7, DoomedIs, DoomedNext
  <2>9. Admitted(c)
    BY <1>1, <1>2, <2>1 DEF Admitted, Up
  <2> QED
    BY <1>1, <1>2, <2>8, <2>9 DEF Good
<1>6. CASE kill
  <2>1. todo # <<>> /\ Head(todo).op \in {"kill", "client-kill"} /\ cmds' = Sent(Head(todo)) /\ todo' = Tail(todo)
    BY <1>6 DEF kill, Call
  <2>2. /\ Head(todo) \in UserCall
        /\ Head(todo).op = "kill" => Head(todo).x \in CN
        /\ Head(todo).op = "client-kill" => Head(todo).x \in Nat
        /\ todo \in Seq(UserCall)
    BY <2>1, CallIs DEF Types
  <2>3. Head(todo) \in Command
    BY <2>1, <2>2 DEF UserCall, Command
  <2>4. connected
    BY <1>2, <2>2, CallsListed DEF Wires
  <2>5. cmds' = Append(cmds, Head(todo))
    BY <2>1, <2>4 DEF Sent
  <2>6. \A op, x : Listed(cmds', op, x) <=> (Head(todo).op = op /\ Head(todo).x = x) \/ Listed(cmds, op, x)
    BY <2>3, <2>5, <1>3, ListedAppend
  <2>7. \A op, x : Listed(todo, op, x) => (Head(todo).op = op /\ Head(todo).x = x) \/ Listed(todo', op, x)
    BY <2>1, <2>2, ListedTail
  <2>8. ~Doomed(c)
    BY <1>1, <1>2, <2>6, <2>7, DoomedIs, DoomedNext
  <2>9. Admitted(c)
    BY <1>1, <1>2, <2>1, <2>6 DEF Admitted, Up
  <2> QED
    BY <1>1, <1>2, <2>8, <2>9 DEF Good
<1> QED
  BY <1>4, <1>5, <1>6

\* Nobody is left, or whoever is left is about to be stopped.
LEMMA StoppedHasNone ==
    ASSUME Types, Wires, NEW c, Good(c)', stopProcess \/ startProcess \/ connect \/ close \/ Crash
    PROVE  FALSE
<1>1. c \in DOMAIN client' /\ ~Doomed(c)'
  BY DEF Good
<1>2. ASSUME NEW D, Ends(D) PROVE FALSE
  BY <1>1, <1>2 DEF Ends, Nothing
<1>3. CASE stopProcess
  <2>1. CASE ~alive /\ UNCHANGED serverVars
    BY <1>1, <2>1 DEF Wires, serverVars
  <2> QED
    BY <1>2, <1>3, <2>1 DEF stopProcess
<1>4. CASE startProcess
  <2>1. todo \in Starting /\ UNCHANGED client
    BY <1>4, CallIs DEF startProcess, Call, Types, Starting
  <2> QED
    BY <1>1, <2>1 DEF Wires
<1>5. CASE connect
  BY <1>1, <1>5, ConnectIs
<1>6. CASE close
  <2>1. todo' = <<Do("stop", None), Do("end", None)>>
    BY <1>6, CallIs DEF close, Call, Types
  <2>2. Listed(todo', "stop", None)
    BY <2>1, CallsListed
  <2> QED
    BY <1>1, <2>2, DoomedNext
<1>7. CASE Crash
  BY <1>2, <1>7 DEF Crash
<1> QED
  BY <1>3, <1>4, <1>5, <1>6, <1>7

\* The server takes what was sent to it; who comes is not let in yet.
LEMMA ServerKeepsGood ==
    ASSUME Types, Wires, Fits, NEW c, Good(c)', OverConnection
    PROVE  Good(c) /\ client'[c].cn = client[c].cn
<1>1. connected /\ UNCHANGED <<todo, reader>>
  BY OverConnectionIs DEF readVars
<1>2. c \in DOMAIN client' /\ ~Doomed(c)' /\ Admitted(c)'
  BY DEF Good
<1>3. /\ reader # None => reader.x < fresh
      /\ \A i \in DOMAIN cmds : cmds[i].op = "auth" => cmds[i].x < fresh
  BY <1>1 DEF Fits
<1>4. cmds \in Seq(Command) /\ fresh \in Nat /\ reader \in {None} \cup [op : {"auth", "deny"}, x : Nat]
  BY DEF Types, WireTypes, ServerTypes
<1>5. CASE ClientConnects
  <2>1. PICK l \in Login : client' = Put(client, fresh, [cn |-> l.cn, login |-> l, up |-> FALSE, bytes |-> 0])
    BY <1>5 DEF ClientConnects
  <2>2. UNCHANGED cmds
    BY <1>5 DEF ClientConnects
  <2>3. /\ DOMAIN client' = DOMAIN client \cup {fresh} /\ ~client'[fresh].up
        /\ \A d \in DOMAIN client : d # fresh => client'[d] = client[d]
    BY <2>1 DEF Put
  <2>4. ~(fresh < fresh) /\ fresh \in Nat
    BY <1>4
  <2>5. ~Listed(cmds, "auth", fresh)
    BY <1>3, <2>4 DEF Listed
  <2>6. reader # Do("auth", fresh)
    <3>1. Do("auth", fresh).x = fresh /\ Do("auth", fresh) \in [op : {"auth", "deny"}, x : Nat]
      BY <2>4 DEF Do
    <3>2. Do("auth", fresh) # None
      BY <3>1, OpenVPNAssumption DEF OpenVPNAssumption
    <3> QED
      BY <3>1, <3>2, <1>3, <2>4
  <2>7. c # fresh
    BY <1>1, <1>2, <2>2, <2>3, <2>5, <2>6 DEF Admitted, Up
  <2>8. c \in DOMAIN client /\ client'[c] = client[c]
    BY <1>2, <2>3, <2>7
  <2>9. ~Doomed(c)
    BY <1>1, <1>2, <2>2, <2>8, DoomedIs, DoomedNext
  <2>10. Admitted(c)
    BY <1>1, <1>2, <2>2, <2>8 DEF Admitted, Up
  <2> QED
    BY <2>8, <2>9, <2>10 DEF Good
<1>6. CASE ClientRenews
  <2>1. UNCHANGED <<client, cmds>>
    BY <1>6 DEF ClientRenews, serverVars
  <2>2. ~Doomed(c)
    BY <1>1, <1>2, <2>1, DoomedIs, DoomedNext
  <2> QED
    BY <1>1, <1>2, <2>1, <2>2 DEF Good, Admitted, Up
<1>7. CASE ClientLeaves
  <2>1. UNCHANGED cmds /\ \E X : client' = Without(client, X)
    BY <1>7 DEF ClientLeaves, Leave
  <2>2. c \in DOMAIN client /\ client'[c] = client[c]
    BY <1>2, <2>1 DEF Without
  <2>3. ~Doomed(c)
    BY <1>1, <1>2, <2>1, <2>2, DoomedIs, DoomedNext
  <2> QED
    BY <1>1, <1>2, <2>1, <2>2, <2>3 DEF Good, Admitted, Up
<1>8. CASE Traffic
  <2>1. UNCHANGED cmds
    BY <1>8 DEF Traffic, connVars
  <2>2. PICK d \in DOMAIN client : client' = [client EXCEPT ![d] = [client[d] EXCEPT !.bytes = @ + 1]]
    BY <1>8 DEF Traffic
  <2>3. [client[d] EXCEPT !.bytes = @ + 1].cn = client[d].cn /\ [client[d] EXCEPT !.bytes = @ + 1].up = client[d].up
    BY DEF Types, ServerTypes, Client
  <2>4. c \in DOMAIN client /\ client'[c].cn = client[c].cn /\ client'[c].up = client[c].up
    BY <1>2, <2>2, <2>3
  <2>5. ~Doomed(c)
    BY <1>1, <1>2, <2>1, <2>4, DoomedIs, DoomedNext
  <2> QED
    BY <1>1, <1>2, <2>1, <2>4, <2>5 DEF Good, Admitted, Up
<1>9. CASE TakesAuth
  <2>1. cmds # <<>> /\ Head(cmds).op = "auth" /\ cmds' = Tail(cmds)
    BY <1>9 DEF TakesAuth, Takes
  <2>2. \A op, x : Listed(cmds, op, x) <=> (op = "auth" /\ Head(cmds).x = x) \/ Listed(cmds', op, x)
    BY <1>4, <2>1, ListedTail
  <2> DEFINE d == Head(cmds).x
  <2>3. c \in DOMAIN client /\ client'[c].cn = client[c].cn /\ (c # d => client'[c].up = client[c].up)
    <3>1. CASE d \notin DOMAIN client
      BY <3>1, <1>2, <1>9 DEF TakesAuth
    <3>2. CASE d \in DOMAIN client
      <4>1. client' = [client EXCEPT ![d] = [client[d] EXCEPT !.up = TRUE]]
        BY <1>9, <3>2 DEF TakesAuth
      <4> HIDE DEF d
      <4>2. [client[d] EXCEPT !.up = TRUE].cn = client[d].cn
        BY <3>2 DEF Types, ServerTypes, Client
      <4> QED
        BY <3>2, <4>1, <4>2, <1>2
    <3> QED
      BY <3>1, <3>2
  <2>4. ~Doomed(c)
    BY <1>1, <1>2, <2>2, <2>3, DoomedIs, DoomedNext
  <2>5. Admitted(c)
    BY <1>1, <1>2, <2>2, <2>3 DEF Admitted, Up
  <2> QED
    BY <2>3, <2>4, <2>5 DEF Good
<1>10. CASE TakesKill
  <2>1. cmds # <<>> /\ Head(cmds).op \in {"deny", "client-kill", "kill"} /\ cmds' = Tail(cmds)
    BY <1>10 DEF TakesKill, Takes
  <2>2. \A op, x : Listed(cmds, op, x) <=> (Head(cmds).op = op /\ Head(cmds).x = x) \/ Listed(cmds', op, x)
    BY <1>4, <2>1, ListedTail
  <2>3. /\ c \in DOMAIN client /\ client'[c] = client[c]
        /\ Head(cmds).op \in {"deny", "client-kill"} => c # Head(cmds).x
        /\ Head(cmds).op = "kill" => client[c].cn # Head(cmds).x
    <3>1. CASE Head(cmds).op \in {"deny", "client-kill"}
      <4>1. client' = Without(client, {Head(cmds).x} \cap DOMAIN client)
        BY <1>10, <3>1 DEF TakesKill, Takes, Leave
      <4> QED
        BY <4>1, <3>1, <1>2 DEF Without
    <3>2. CASE Head(cmds).op = "kill"
      <4>1. client' = Without(client, {d \in DOMAIN client : client[d].cn = Head(cmds).x})
        BY <1>10, <3>2 DEF TakesKill, Takes, Leave
      <4> QED
        BY <4>1, <3>2, <1>2 DEF Without
    <3> QED
      BY <2>1, <3>1, <3>2
  <2>4. ~Doomed(c)
    BY <1>1, <1>2, <2>1, <2>2, <2>3, DoomedIs, DoomedNext
  <2>5. Admitted(c)
    BY <1>1, <1>2, <2>1, <2>2, <2>3 DEF Admitted, Up
  <2> QED
    BY <2>3, <2>4, <2>5 DEF Good
<1>11. CASE TakesStatus
  <2>1. cmds # <<>> /\ Head(cmds).op = "status" /\ cmds' = Tail(cmds) /\ UNCHANGED client
    BY <1>11 DEF TakesStatus, Takes
  <2>2. \A op, x : Listed(cmds, op, x) <=> (op = "status" /\ Head(cmds).x = x) \/ Listed(cmds', op, x)
    BY <1>4, <2>1, ListedTail
  <2>3. ~Doomed(c)
    BY <1>1, <1>2, <2>1, <2>2, DoomedIs, DoomedNext
  <2> QED
    BY <1>1, <1>2, <2>1, <2>2, <2>3 DEF Good, Admitted, Up
<1> QED
  BY <1>5, <1>6, <1>7, <1>8, <1>9, <1>10, <1>11 DEF OverConnection

\* The reader lets in the client that asks.
Accepts(c) ==
    /\ handleLine /\ connected /\ Head(events).type = "connect" /\ Head(events).cid = c
    /\ tryConnect(Head(events).login, c) /\ c \in DOMAIN client /\ ~Doomed(c)
    /\ client[c].cn = Head(events).login.cn /\ client[c].cn \in CN
    /\ sessions' = [sessions EXCEPT ![client[c].cn] = @ \cup {c}]

\* Nobody else is let in by the reader or the statistics loop.
LEMMA ReaderKeepsGood ==
    ASSUME Types, Wires, Fits, NEW c, Good(c)',
           handleLine \/ finishConnect \/ lateLine \/ requestStatus \/ collectStats
    PROVE  (Good(c) \/ Accepts(c)) /\ UNCHANGED client
<1>1. UNCHANGED <<client, todo, connected>>
  BY DEF handleLine, finishConnect, lateLine, requestStatus, collectStats, apiVars, serverVars, connVars
<1>2. c \in DOMAIN client /\ ~Doomed(c)' /\ Admitted(c)'
  BY <1>1 DEF Good
<1>3. connected
  BY <1>1, <1>2, DoomedNext DEF Wires
<1>4. cmds \in Seq(Command) /\ reader \in {None} \cup [op : {"auth", "deny"}, x : Nat]
  BY DEF Types, WireTypes
<1>5. CASE UNCHANGED <<cmds, reader>>
  <2>1. ~Doomed(c)
    BY <1>1, <1>2, <1>5, DoomedIs, DoomedNext
  <2> QED
    BY <1>1, <1>2, <1>5, <2>1 DEF Good, Admitted, Up
<1>6. CASE requestStatus
  <2>1. Do("status", None) \in Command /\ Do("status", None).op = "status" /\ cmds' = Append(cmds, Do("status", None))
        /\ UNCHANGED reader
    BY <1>3, <1>6 DEF requestStatus, Do, Command, Sent, readVars
  <2>2. \A op, x : Listed(cmds', op, x) => op = "status" \/ Listed(cmds, op, x)
    BY <2>1, <1>4, ListedAppend
  <2>3. \A op, x : Listed(cmds, op, x) => Listed(cmds', op, x)
    BY <2>1, <1>4, ListedAppend
  <2>4. ~Doomed(c)
    BY <1>1, <1>2, <2>1, <2>3, DoomedIs, DoomedNext
  <2>5. Admitted(c)
    BY <1>1, <1>2, <2>1, <2>2 DEF Admitted, Up
  <2> QED
    BY <1>1, <1>2, <2>4, <2>5 DEF Good
<1>7. CASE finishConnect
  <2>1. reader # None /\ cmds' = Append(cmds, reader) /\ reader' = None
    BY <1>3, <1>7 DEF finishConnect, Sent
  <2>2. reader \in [op : {"auth", "deny"}, x : Nat] /\ reader \in Command
    BY <1>4, <2>1 DEF Command
  <2>3. \A op, x : Listed(cmds', op, x) <=> (reader.op = op /\ reader.x = x) \/ Listed(cmds, op, x)
    BY <2>1, <2>2, <1>4, ListedAppend
  <2>4. reader.op = "auth" /\ reader.x = c => reader = Do("auth", c)
    BY <2>2 DEF Do
  <2>5. ~Doomed(c)
    BY <1>1, <1>2, <2>3, DoomedIs, DoomedNext
  <2>6. reader' # Do("auth", c)
    <3>1. c \in Nat
      BY <1>2 DEF Types, ServerTypes
    <3>2. Do("auth", c) \in [op : {"auth", "deny"}, x : Nat]
      BY <3>1 DEF Do
    <3> QED
      BY <2>1, <3>2, OpenVPNAssumption DEF OpenVPNAssumption
  <2>7. Admitted(c)
    BY <1>1, <1>2, <2>3, <2>4, <2>6 DEF Admitted, Up
  <2> QED
    BY <1>1, <1>2, <2>5, <2>7 DEF Good
<1>8. CASE handleLine
  <2>1. reader = None /\ events # <<>> /\ Handle(Head(events)) /\ UNCHANGED cmds
    BY <1>8 DEF handleLine
  <2>2. CASE UNCHANGED reader
    BY <1>5, <2>1, <2>2
  <2>3. CASE Head(events).type = "connect" /\ Decide(Head(events))
    <3> DEFINE e == Head(events)
    <3>1. ~Doomed(c)
      BY <1>1, <1>2, <2>1, DoomedIs, DoomedNext
    <3>2. CASE c = e.cid /\ tryConnect(e.login, e.cid)
      <4>1. sessions' = [sessions EXCEPT ![e.login.cn] = @ \cup {e.cid}]
        BY <2>3, <3>2 DEF Decide
      <4>2. e = events[1] /\ 1 \in DOMAIN events
        BY <2>1 DEF Types, WireTypes
      <4>3. client[c].cn = e.login.cn
        BY <4>2, <1>2, <1>3, <2>3, <3>2 DEF Fits, EventFits
      <4>4. client[c].cn \in CN
        BY <1>2 DEF Types, ServerTypes, Client
      <4>5. Accepts(c)
        BY <1>2, <1>3, <1>8, <2>3, <3>1, <3>2, <4>1, <4>3, <4>4 DEF Accepts
      <4> QED
        BY <4>5, <1>1
    <3>3. CASE ~(c = e.cid /\ tryConnect(e.login, e.cid))
      <4>1. reader' # Do("auth", c)
        BY <2>3, <3>3 DEF Decide, Do
      <4>2. Admitted(c)
        BY <1>1, <1>2, <2>1, <4>1 DEF Admitted, Up
      <4> QED
        BY <1>1, <1>2, <3>1, <4>2 DEF Good
    <3> QED
      BY <3>2, <3>3
  <2> QED
    BY <2>1, <2>2, <2>3 DEF Handle
<1>9. CASE lateLine \/ collectStats
  BY <1>5, <1>9 DEF lateLine, collectStats, readVars, connVars
<1> QED
  BY <1>6, <1>7, <1>8, <1>9

\* A client is good that was good before, or that the reader accepts.
LEMMA NoNewGood ==
    ASSUME Types, Wires, Fits, Next, NEW c, Good(c)'
    PROVE  client'[c].cn = client[c].cn /\ (Good(c) \/ Accepts(c))
<1>1. CASE applyUsers \/ SyncUsers \/ UpdateUsersAndRestart \/ Restart \/ Shutdown \/ applyUser \/ enforceDeviceLimit \/ kill
  BY <1>1, RequestKeepsGood
<1>2. CASE stopProcess \/ startProcess \/ connect \/ close \/ Crash
  BY <1>2, StoppedHasNone
<1>3. CASE OverConnection
  BY <1>3, ServerKeepsGood
<1>4. CASE handleLine \/ finishConnect \/ lateLine \/ requestStatus \/ collectStats
  BY <1>4, ReaderKeepsGood
<1> QED
  BY <1>1, <1>2, <1>3, <1>4 DEF Next, OverConnection

-----------------------------------------------------------------------------
(* Nobody stays whom the store does not have.                              *)

\* Good clients are in the table.
Known == \A c \in DOMAIN client : Good(c) => client[c].cn \in DOMAIN users

\* Only these write the table.
LEMMA UsersStep ==
    ASSUME Next, ~(SyncUsers \/ UpdateUsersAndRestart \/ applyUser)
    PROVE  users' = users
BY OverConnectionIs DEF Next, OverConnection, applyUsers, Restart, Shutdown, enforceDeviceLimit, kill, stopProcess,
   startProcess, connect, close, Crash, handleLine, finishConnect, lateLine, requestStatus, collectStats, storeVars

\* Removed users are killed before anything else is done for a full list.
LEMMA SyncIs ==
    ASSUME Types, SyncUsers
    PROVE  \E l \in Lists :
             /\ users' = replaceAll(l)
             /\ sessions' = [cn \in CN |-> IF cn \in DOMAIN users \ DOMAIN users' THEN {} ELSE sessions[cn]]
             /\ \A cn \in DOMAIN users \ DOMAIN users' : Listed(todo', "kill", cn)
             /\ \A i \in DOMAIN l : Listed(todo', "enforce", l[i].cn)
<1>1. PICK l \in Lists :
        /\ todo' = DoAll("kill", Removed(replaceAll(l))) \o [i \in DOMAIN l |-> Do("enforce", l[i].cn)]
        /\ Replace(replaceAll(l))
  BY DEF SyncUsers, Request
<1> DEFINE p == DoAll("kill", Removed(replaceAll(l)))
           q == [i \in DOMAIN l |-> Do("enforce", l[i].cn)]
<1>2. users' = replaceAll(l) /\ Removed(replaceAll(l)) = DOMAIN users \ DOMAIN users'
  BY <1>1 DEF Replace, Removed
<1>3. Removed(replaceAll(l)) \in SUBSET CN
  BY DEF Removed, Types, StoreTypes
<1>4. IsFiniteSet(Removed(replaceAll(l)))
  BY <1>3, FS_Subset, OpenVPNAssumption DEF OpenVPNAssumption
<1>5. \A cn \in Removed(replaceAll(l)) : Listed(p, "kill", cn)
  BY <1>4, ListedAll
<1>6. \A i \in DOMAIN l : Listed(q, "enforce", l[i].cn)
  BY DEF Listed, Do
<1>7. p \in Seq(UserCall) /\ q \in Seq(UserCall)
  BY <1>3, SetCalls, ListCalls
<1> HIDE DEF p, q
<1>8. todo' = p \o q
  BY <1>1 DEF p, q
<1>9. \A cn \in DOMAIN users \ DOMAIN users' : Listed(todo', "kill", cn)
  BY <1>2, <1>5, <1>7, <1>8, ListedConcat
<1>10. \A i \in DOMAIN l : Listed(todo', "enforce", l[i].cn)
  BY <1>6, <1>7, <1>8, ListedConcat
<1>11. sessions' = [cn \in CN |-> IF cn \in DOMAIN users \ DOMAIN users' THEN {} ELSE sessions[cn]]
  BY <1>1, <1>2 DEF Replace
<1> QED
  BY <1>2, <1>9, <1>10, <1>11

\* What applyUser writes, and what it leaves to be done for the sessions of the user.
LEMMA ApplyIs ==
    ASSUME Types, applyUser
    PROVE  LET u == Head(todo).x
           IN  /\ u.cn \in CN
               /\ \/ /\ DOMAIN users' = DOMAIN users \cup {u.cn} /\ UNCHANGED sessions
                     /\ \A cn \in DOMAIN users : cn # u.cn => users'[cn] = users[cn]
                     /\ Listed(todo', "kill", u.cn) \/ Listed(todo', "enforce", u.cn)
                  \/ /\ DOMAIN users' = DOMAIN users \ {u.cn} /\ sessions' = [sessions EXCEPT ![u.cn] = {}]
                     /\ \A cn \in DOMAIN users' : users'[cn] = users[cn]
                     /\ u.cn \in DOMAIN users => Listed(todo', "kill", u.cn)
<1> DEFINE u == Head(todo).x
           K == Do("kill", u.cn)
           F == Do("enforce", u.cn)
<1>1. u \in Anyone /\ Tail(todo) \in Seq(UserCall)
  BY CallIs DEF applyUser, Call, Types
<1>2. u.cn \in CN
  BY <1>1, OpenVPNAssumption DEF OpenVPNAssumption
<1>3. K \in UserCall /\ F \in UserCall /\ K.op = "kill" /\ F.op = "enforce" /\ K.x = u.cn /\ F.x = u.cn
  BY <1>2 DEF Do, UserCall
<1>4. CASE wantsInterface(u)
  <2>1. users' = Put(users, u.cn, Entry(u)) /\ UNCHANGED sessions
    BY <1>4 DEF applyUser
  <2>2. todo' \in {<<K>> \o Tail(todo), <<F>> \o Tail(todo)}
    BY <1>4 DEF applyUser
  <2> HIDE DEF K, F, u
  <2>3. Listed(todo', "kill", u.cn) \/ Listed(todo', "enforce", u.cn)
    <3>1. <<K>> \in Seq(UserCall) /\ <<F>> \in Seq(UserCall) /\ <<K>>[1] = K /\ <<F>>[1] = F
          /\ 1 \in DOMAIN <<K>> /\ 1 \in DOMAIN <<F>>
      BY <1>3
    <3>2. Listed(<<K>>, "kill", u.cn) /\ Listed(<<F>>, "enforce", u.cn)
      BY <3>1, <1>3 DEF Listed
    <3>3. CASE todo' = <<K>> \o Tail(todo)
      BY <3>1, <3>2, <3>3, <1>1, ListedConcat
    <3>4. CASE todo' = <<F>> \o Tail(todo)
      BY <3>1, <3>2, <3>4, <1>1, ListedConcat
    <3> QED
      BY <2>2, <3>3, <3>4
  <2>4. /\ DOMAIN users' = DOMAIN users \cup {u.cn}
        /\ \A cn \in DOMAIN users : cn # u.cn => users'[cn] = users[cn]
    BY <2>1 DEF Put
  <2> QED
    BY <1>2, <2>1, <2>3, <2>4 DEF u
<1>5. CASE ~wantsInterface(u)
  <2>1. users' = Without(users, {u.cn}) /\ sessions' = [sessions EXCEPT ![u.cn] = {}]
    BY <1>5 DEF applyUser
  <2>2. u.cn \in DOMAIN users => todo' = <<K>> \o Tail(todo)
    BY <1>5 DEF applyUser
  <2> HIDE DEF K, F, u
  <2>3. u.cn \in DOMAIN users => Listed(todo', "kill", u.cn)
    <3>1. <<K>> \in Seq(UserCall) /\ <<K>>[1] = K /\ 1 \in DOMAIN <<K>>
      BY <1>3
    <3>2. Listed(<<K>>, "kill", u.cn)
      BY <3>1, <1>3 DEF Listed
    <3>3. Listed(<<K>> \o Tail(todo), "kill", u.cn)
      BY <3>1, <3>2, <1>1, ListedConcat
    <3> QED
      BY <3>3, <2>2
  <2>4. DOMAIN users' = DOMAIN users \ {u.cn} /\ \A cn \in DOMAIN users' : users'[cn] = users[cn]
    BY <2>1 DEF Without
  <2> QED
    BY <1>2, <2>1, <2>3, <2>4 DEF u
<1> QED
  BY <1>4, <1>5

\* A restart ends every session.
LEMMA RestartIs ==
    ASSUME UpdateUsersAndRestart
    PROVE  \A c : ~Good(c)'
<1>1. todo' = Restarting
  BY DEF UpdateUsersAndRestart, Request
<1>2. Listed(todo', "stop", None)
  BY <1>1, CallsListed
<1> QED
  BY <1>2, DoomedNext DEF Good

\* A user who leaves the table takes his good clients along.
LEMMA KnownStep ==
    ASSUME Types, Wires, Fits, Known, Next
    PROVE  Known'
<1> SUFFICES ASSUME NEW c, Good(c)' PROVE client'[c].cn \in DOMAIN users'
  BY DEF Known
<1>1. client'[c].cn = client[c].cn /\ (Good(c) \/ Accepts(c)) /\ ~Doomed(c)'
  BY NoNewGood DEF Good
<1>2. client[c].cn \in DOMAIN users
  <2>1. CASE Good(c)
    BY <2>1 DEF Known, Good
  <2>2. CASE Accepts(c)
    BY <2>2 DEF Accepts, tryConnect, authorizedLocked
  <2> QED
    BY <1>1, <2>1, <2>2
<1>3. ~Listed(todo', "kill", client[c].cn)
  BY <1>1, DoomedNext
<1>4. CASE SyncUsers
  BY <1>1, <1>2, <1>3, <1>4, SyncIs
<1>5. CASE UpdateUsersAndRestart
  BY <1>5, RestartIs
<1>6. CASE applyUser
  BY <1>1, <1>2, <1>3, <1>6, ApplyIs
<1>7. CASE ~(SyncUsers \/ UpdateUsersAndRestart \/ applyUser)
  BY <1>1, <1>2, <1>7, UsersStep
<1> QED
  BY <1>4, <1>5, <1>6, <1>7

\* The invariant behind RemovedAreGone.
Admissions == Types /\ Wires /\ Fits /\ Known

\* The first invariant.
LEMMA AdmissionsInvariant == Spec => []Admissions
<1>1. Init => Admissions
  BY TypesInit, WiresInit, FitsInit DEF Admissions, Known, Init, Nothing
<1>2. Admissions /\ [Next]_vars => Admissions'
  <2> SUFFICES ASSUME Admissions, [Next]_vars PROVE Admissions'
    OBVIOUS
  <2>1. CASE UNCHANGED vars
    <3>1. UNCHANGED <<users, sessions, todo, budget, reader, late, alive, client, fresh, carried, connected, events,
                      cmds, lastStatus, polling, sessionSeen, counted, mixed>>
      BY <2>1 DEF vars, storeVars, apiVars, readVars, serverVars, connVars, statVars
    <3>2. Types'
      BY TypesStep DEF Admissions
    <3>3. Wires' /\ Fits'
      BY <3>1 DEF Admissions, Wires, Fits
    <3>4. \A c : Good(c)' <=> Good(c)
      BY <3>1, DoomedIs, DoomedNext DEF Good, Admitted, Up
    <3>5. Known'
      BY <3>1, <3>4 DEF Admissions, Known
    <3> QED
      BY <3>2, <3>3, <3>5 DEF Admissions
  <2>2. CASE Next
    BY <2>2, TypesStep, WiresStep, FitsStep, KnownStep DEF Admissions
  <2> QED
    BY <2>1, <2>2
<1> QED
  BY <1>1, <1>2, PTL DEF Spec

\* Nobody stays connected whom the store does not have, through requests, restarts,
\* crashes and admissions that were decided before the user was removed.
THEOREM RemovedUsersAreGone == Spec => []RemovedAreGone
<1>1. Admissions => RemovedAreGone
  BY DEF Admissions, Known, RemovedAreGone, Good, Admitted
<1> QED
  BY <1>1, AdmissionsInvariant, PTL

-----------------------------------------------------------------------------
(* A name has no more clients than its limit.                              *)

\* No server has started yet while something was left of another.
Quiet ==
    ~mixed => /\ late = <<>>
              /\ todo = <<Do("connect", None)>> =>
                    events = <<>> /\ reader = None /\ \A cn \in CN : sessions[cn] = {}

\* Whoever is let in is counted ...
Held == ~mixed => \A c \in DOMAIN client : Good(c) => c \in sessions[client[c].cn]

\* ... and a client that is counted was let in.
Shown ==
    ~mixed /\ connected =>
        /\ \A cn \in CN : sessions[cn] \subseteq 0..(fresh - 1)
        /\ \A c \in DOMAIN client : c \in sessions[client[c].cn] => Admitted(c)

\* The good clients of a name.
GoodOf(cn) == {c \in DOMAIN client : client[c].cn = cn /\ Good(c)}

\* A name whose limit is not about to be enforced is within it.
Limited ==
    ~mixed => \A cn \in DOMAIN users :
        users[cn].limit > 0 /\ ~Listed(todo, "enforce", cn) => Cardinality(GoodOf(cn)) <= users[cn].limit

\* Only a start mixes servers, and what was mixed stays so.
LEMMA MixedStep ==
    ASSUME Next, ~mixed'
    PROVE  ~mixed /\ (startProcess => todo' = <<>> \/ ~Unsettled)
<1>1. CASE startProcess
  <2>1. CASE mixed' = (mixed \/ Unsettled)
    BY <2>1, Zenon
  <2>2. CASE todo' = <<>> /\ UNCHANGED mixed
    BY <2>2
  <2> QED
    BY <1>1, <2>1, <2>2 DEF startProcess
<1>2. CASE ~startProcess
  <2>1. UNCHANGED mixed
    BY <1>2, OverConnectionIs DEF Next, OverConnection, applyUsers, SyncUsers, UpdateUsersAndRestart, Restart, Shutdown,
       applyUser, enforceDeviceLimit, ApiFrame, kill, stopProcess, connect, close, Crash,
       handleLine, finishConnect, lateLine, requestStatus, collectStats
  <2> QED
    BY <1>2, <2>1
<1> QED
  BY <1>1, <1>2

\* Nobody leaves, nothing is sent.
LEMMA NoneGone ==
    SetToSeq(Gone({})) = <<>>
<1>1. Gone({}) = {} /\ IsFiniteSet({})
  BY FS_EmptySet DEF Gone
<1>2. SetToSeq({}) \in Seq({})
  BY <1>1, SetToSeqRange
<1>3. \A q \in Seq({}) : q = <<>>
  OBVIOUS
<1> QED
  BY <1>1, <1>2, <1>3

\* Every step keeps the sessions of one server apart from those of the next.
LEMMA QuietStep ==
    ASSUME Types, Wires, Quiet, Next
    PROVE  Quiet'
<1> SUFFICES ASSUME ~mixed'
             PROVE  /\ late' = <<>>
                    /\ todo' = <<Do("connect", None)>> =>
                          events' = <<>> /\ reader' = None /\ \A cn \in CN : sessions'[cn] = {}
  BY DEF Quiet
<1> DEFINE start == todo = <<Do("connect", None)>>
<1>1. late = <<>> /\ (start => events = <<>> /\ reader = None /\ \A cn \in CN : sessions[cn] = {})
  BY MixedStep DEF Quiet
<1>2. start => ~connected /\ DOMAIN client = {}
  BY DEF Wires, Starting
<1>3. CASE connect
  <2>1. start /\ todo' = <<>>
    BY <1>3, ConnectIs
  <2>2. PICK n \in 0..Len(events) : late' = late \o SubSeq(events, 1, n)
    BY <1>3 DEF connect
  <2>3. n = 0
    BY <1>1, <2>1, <2>2
  <2>4. late' = <<>>
    BY <1>1, <2>1, <2>2, <2>3
  <2>5. <<>> # <<Do("connect", None)>>
    OBVIOUS
  <2> QED
    BY <2>1, <2>4, <2>5
<1>4. CASE lateLine
  BY <1>1, <1>4 DEF lateLine
<1>5. CASE applyUsers \/ SyncUsers \/ applyUser \/ enforceDeviceLimit \/ kill
  <2>1. todo' \notin Starting
    BY <1>5, TodoUser, CallsListed
  <2>2. UNCHANGED late
    BY <1>5 DEF applyUsers, SyncUsers, applyUser, enforceDeviceLimit, kill, ApiFrame, readVars
  <2> QED
    BY <1>1, <2>1, <2>2 DEF Starting
<1>6. CASE UpdateUsersAndRestart \/ Restart \/ Shutdown
  <2>1. todo' \in {Restarting, <<Do("close", None), Do("stop", None), Do("end", None)>>}
    BY <1>6 DEF UpdateUsersAndRestart, Restart, Shutdown, Request
  <2>2. todo' \notin Starting
    BY <2>1, CallsListed
  <2>3. UNCHANGED late
    BY <1>6 DEF UpdateUsersAndRestart, Restart, Shutdown, ApiFrame, readVars
  <2> QED
    BY <1>1, <2>2, <2>3 DEF Starting
<1>7. CASE stopProcess
  <2>1. todo' \in {<<Do("start", None), Do("connect", None)>>, <<Do("end", None)>>}
    BY <1>7, CallIs DEF stopProcess, Call, Types
  <2>2. <<Do("start", None), Do("connect", None)>> # <<Do("connect", None)>>
    OBVIOUS
  <2>3. <<Do("end", None)>> # <<Do("connect", None)>>
    BY CallsListed DEF Starting
  <2>4. UNCHANGED late
    BY <1>7 DEF stopProcess, readVars
  <2> QED
    BY <1>1, <2>1, <2>2, <2>3, <2>4
<1>8. CASE startProcess
  <2>1. UNCHANGED <<late, events, reader, sessions>>
    BY <1>8 DEF startProcess, readVars, connVars, storeVars
  <2>2. todo' = <<>> \/ ~Unsettled
    BY <1>8, MixedStep
  <2>3. <<>> # <<Do("connect", None)>>
    OBVIOUS
  <2> QED
    BY <1>1, <2>1, <2>2, <2>3 DEF Unsettled
<1>9. CASE close
  <2>1. todo' = <<Do("stop", None), Do("end", None)>>
    BY <1>9, CallIs DEF close, Call, Types
  <2>2. todo' \notin Starting
    BY <2>1, CallsListed
  <2> QED
    BY <1>1, <1>9, <2>2 DEF close, Starting
<1>10. CASE Crash
  <2>1. UNCHANGED <<late, todo, reader, sessions>> /\ events' = events \o <<>>
    BY <1>10, NoneGone DEF Crash, Ends, readVars, storeVars
  <2>2. <<>> \o <<>> = <<>>
    OBVIOUS
  <2> QED
    BY <1>1, <2>1, <2>2
<1>11. CASE OverConnection
  <2>1. connected /\ UNCHANGED <<todo, late>>
    BY <1>11, OverConnectionIs DEF readVars
  <2> QED
    BY <1>1, <1>2, <2>1
<1>12. CASE handleLine \/ finishConnect
  <2>1. ~start /\ UNCHANGED <<todo, late>>
    BY <1>1, <1>12 DEF handleLine, finishConnect, apiVars
  <2> QED
    BY <1>1, <2>1
<1>13. CASE requestStatus \/ collectStats
  BY <1>1, <1>13 DEF requestStatus, collectStats, apiVars, readVars, storeVars, connVars
<1> QED
  BY <1>3, <1>4, <1>5, <1>6, <1>7, <1>8, <1>9, <1>10, <1>11, <1>12, <1>13 DEF Next, OverConnection

\* Whoever is good is so over an open connection.
LEMMA GoodConnected ==
    ASSUME Wires, NEW c, Good(c)
    PROVE  connected
BY DoomedIs DEF Wires, Good

\* Only these write the sessions.
LEMMA SessionsStep ==
    ASSUME Next, ~(SyncUsers \/ UpdateUsersAndRestart \/ applyUser \/ enforceDeviceLimit \/ handleLine \/ lateLine)
    PROVE  sessions' = sessions
BY OverConnectionIs DEF Next, OverConnection, applyUsers, Restart, Shutdown, kill, stopProcess,
   startProcess, connect, close, Crash, finishConnect, requestStatus, collectStats, storeVars

\* The sessions that a limit ends.
LEMMA EnforceIs ==
    ASSUME Types, enforceDeviceLimit
    PROVE  LET x == Head(todo).x
           IN  /\ x \in CN
               /\ \E E \in excessSessions(x) :
                     /\ sessions' = [sessions EXCEPT ![x] = @ \ E]
                     /\ \A c \in E : Listed(todo', "client-kill", c)
               /\ \A cn : cn # x /\ Listed(todo, "enforce", cn) => Listed(todo', "enforce", cn)
<1>1. Head(todo).x \in CN /\ Tail(todo) \in Seq(UserCall) /\ todo \in Seq(UserCall) /\ todo # <<>>
  BY CallIs DEF enforceDeviceLimit, Call, Types
<1>2. PICK E \in excessSessions(Head(todo).x) : /\ todo' = DoAll("client-kill", E) \o Tail(todo)
                                                /\ sessions' = [sessions EXCEPT ![Head(todo).x] = @ \ E]
  BY DEF enforceDeviceLimit
<1>3. E \in SUBSET Nat /\ IsFiniteSet(E)
  BY <1>1, <1>2, ExcessIs DEF Types
<1>4. DoAll("client-kill", E) \in Seq(UserCall) /\ \A c \in E : Listed(DoAll("client-kill", E), "client-kill", c)
  BY <1>3, SetCalls, ListedAll
<1>5. \A c \in E : Listed(todo', "client-kill", c)
  BY <1>1, <1>2, <1>4, ListedConcat
<1>6. \A cn : cn # Head(todo).x /\ Listed(todo, "enforce", cn) => Listed(Tail(todo), "enforce", cn)
  BY <1>1, ListedTail
<1>7. \A cn : Listed(Tail(todo), "enforce", cn) => Listed(todo', "enforce", cn)
  BY <1>1, <1>2, <1>4, ListedConcat
<1> QED
  BY <1>1, <1>2, <1>5, <1>6, <1>7

\* Every step keeps good clients counted.
LEMMA HeldStep ==
    ASSUME Types, Wires, Fits, Known, Quiet, Held, Next
    PROVE  Held'
<1> SUFFICES ASSUME ~mixed', NEW c, Good(c)' PROVE c \in sessions'[client'[c].cn]
  BY DEF Held
<1>1. client'[c].cn = client[c].cn /\ (Good(c) \/ Accepts(c)) /\ ~Doomed(c)'
  BY NoNewGood DEF Good
<1>2. sessions \in [CN -> SUBSET Nat]
  BY DEF Types, StoreTypes
<1>3. CASE Accepts(c)
  BY <1>1, <1>2, <1>3 DEF Accepts
<1>4. CASE Good(c)
  <2> DEFINE cn == client[c].cn
  <2>1. ~mixed /\ connected
    BY <1>4, MixedStep, GoodConnected
  <2>2. c \in DOMAIN client /\ c \in sessions[cn] /\ cn \in DOMAIN users /\ cn \in CN
    BY <1>4, <2>1 DEF Held, Known, Good, Types, ServerTypes, Client
  <2>3. ~Listed(todo', "kill", cn) /\ ~Listed(todo', "client-kill", c)
    BY <1>1, DoomedNext
  <2>4. SUFFICES c \in sessions'[cn]
    BY <1>1
  <2> HIDE DEF cn
  <2>5. CASE SyncUsers
    BY <2>2, <2>3, <2>5, SyncIs
  <2>6. CASE UpdateUsersAndRestart
    BY <2>6, RestartIs
  <2>7. CASE applyUser
    BY <1>2, <2>2, <2>3, <2>7, ApplyIs
  <2>8. CASE enforceDeviceLimit
    <3> DEFINE x == Head(todo).x
    <3>1. PICK E \in excessSessions(x) : /\ sessions' = [sessions EXCEPT ![x] = @ \ E]
                                         /\ \A d \in E : Listed(todo', "client-kill", d)
      BY <2>8, EnforceIs
    <3> HIDE DEF x
    <3>2. c \notin E
      BY <2>3, <3>1
    <3> QED
      BY <1>2, <2>2, <3>1, <3>2
  <2>9. CASE handleLine
    <3> DEFINE e == Head(events)
    <3>1. events # <<>> /\ Handle(e)
      BY <2>9 DEF handleLine
    <3>2. e = events[1] /\ 1 \in DOMAIN events
      BY <3>1 DEF Types, WireTypes
    <3>3. e.type = "disconnect" => e.cid # c
      BY <3>2, <2>1, <2>2 DEF Fits, EventFits
    <3>4. CASE UNCHANGED sessions
      BY <2>2, <3>4
    <3>5. CASE sessions' = [sessions EXCEPT ![e.login.cn] = @ \cup {e.cid}]
      <4> HIDE DEF e
      <4> QED
        BY <1>2, <2>2, <3>5
    <3>6. CASE e.type = "disconnect" /\ sessions' = [sessions EXCEPT ![e.cn] = @ \ {e.cid}]
      <4> HIDE DEF e
      <4> QED
        BY <1>2, <2>2, <3>3, <3>6
    <3> QED
      BY <3>1, <3>4, <3>5, <3>6 DEF Handle, Decide, releaseSession
  <2>10. CASE lateLine
    BY <2>1, <2>10 DEF lateLine, Quiet
  <2>11. CASE ~(SyncUsers \/ UpdateUsersAndRestart \/ applyUser \/ enforceDeviceLimit \/ handleLine \/ lateLine)
    BY <2>2, <2>11, SessionsStep
  <2> QED
    BY <2>5, <2>6, <2>7, <2>8, <2>9, <2>10, <2>11
<1> QED
  BY <1>1, <1>3, <1>4

\* Who was let in stays so while he and the connection are there.
LEMMA AdmittedKept ==
    ASSUME Types, Wires, Next, connected, connected', NEW c, c \in DOMAIN client, c \in DOMAIN client', Admitted(c)
    PROVE  Admitted(c)'
<1>1. cmds \in Seq(Command) /\ reader \in {None} \cup [op : {"auth", "deny"}, x : Nat]
  BY DEF Types, WireTypes
<1>2. Do("auth", c) \in [op : {"auth", "deny"}, x : Nat] /\ Do("auth", c) # None
      /\ Do("auth", c).op = "auth" /\ Do("auth", c).x = c
  <2>1. c \in Nat
    BY DEF Types, ServerTypes
  <2>2. Do("auth", c) \in [op : {"auth", "deny"}, x : Nat]
    BY <2>1 DEF Do
  <2> QED
    BY <2>2, OpenVPNAssumption DEF OpenVPNAssumption, Do
<1>3. ASSUME Listed(cmds, "auth", c) => Listed(cmds', "auth", c), UNCHANGED reader, client[c].up => client'[c].up
      PROVE  Admitted(c)'
  BY <1>3 DEF Admitted, Up
<1>4. ASSUME NEW cmd \in Command, cmds' = Sent(cmd), UNCHANGED <<client, reader>> PROVE Admitted(c)'
  <2>1. Listed(cmds, "auth", c) => Listed(cmds', "auth", c)
    BY <1>1, <1>4, ListedAppend DEF Sent
  <2> QED
    BY <1>3, <1>4, <2>1
<1>5. CASE UNCHANGED <<client, cmds, reader>>
  BY <1>3, <1>5
<1>6. CASE kill
  <2>1. todo # <<>> /\ Head(todo).op \in {"kill", "client-kill"} /\ cmds' = Sent(Head(todo))
        /\ UNCHANGED <<reader, client>>
    BY <1>6 DEF kill, Call, readVars, serverVars
  <2>2. /\ Head(todo) \in UserCall
        /\ Head(todo).op = "kill" => Head(todo).x \in CN
        /\ Head(todo).op = "client-kill" => Head(todo).x \in Nat
    BY <2>1, CallIs DEF Types
  <2>3. Head(todo) \in Command
    BY <2>1, <2>2 DEF UserCall, Command
  <2> QED
    BY <1>4, <2>1, <2>3
<1>7. CASE requestStatus
  <2>1. Do("status", None) \in Command
    BY DEF Do, Command
  <2> QED
    BY <1>4, <1>7, <2>1 DEF requestStatus, readVars, serverVars
<1>8. CASE finishConnect
  <2>1. reader # None /\ cmds' = Append(cmds, reader) /\ reader \in Command /\ UNCHANGED client
    BY <1>1, <1>8 DEF finishConnect, Sent, Command, serverVars
  <2>2. \A x : Listed(cmds', "auth", x) <=> (reader.op = "auth" /\ reader.x = x) \/ Listed(cmds, "auth", x)
    BY <1>1, <2>1, ListedAppend
  <2> QED
    BY <1>2, <2>1, <2>2 DEF Admitted, Up
<1>9. CASE handleLine
  <2>1. reader = None /\ UNCHANGED <<cmds, client>>
    BY <1>9 DEF handleLine, serverVars
  <2> QED
    BY <1>2, <2>1 DEF Admitted, Up
<1>10. CASE ClientConnects
  <2>1. PICK l \in Login : client' = Put(client, fresh, [cn |-> l.cn, login |-> l, up |-> FALSE, bytes |-> 0])
    BY <1>10 DEF ClientConnects
  <2>2. c # fresh
    BY DEF Types, ServerTypes
  <2>3. client'[c] = client[c]
    BY <2>1, <2>2 DEF Put
  <2> QED
    BY <1>3, <1>10, <2>3 DEF ClientConnects, ExtFrame, readVars
<1>11. CASE ClientRenews
  BY <1>5, <1>11 DEF ClientRenews, serverVars, ExtFrame, readVars
<1>12. CASE ClientLeaves
  <2>1. \E X : client' = Without(client, X)
    BY <1>12 DEF ClientLeaves, Leave
  <2>2. client'[c] = client[c]
    BY <2>1 DEF Without
  <2> QED
    BY <1>3, <1>12, <2>2 DEF ClientLeaves, ExtFrame, readVars
<1>13. CASE Traffic
  <2>1. PICK d \in DOMAIN client : client' = [client EXCEPT ![d] = [client[d] EXCEPT !.bytes = @ + 1]]
    BY <1>13 DEF Traffic
  <2>2. [client[d] EXCEPT !.bytes = @ + 1].up = client[d].up
    BY DEF Types, ServerTypes, Client
  <2>3. client'[c].up = client[c].up
    BY <2>1, <2>2
  <2> QED
    BY <1>3, <1>13, <2>3 DEF Traffic, ExtFrame, readVars, connVars
<1>14. CASE TakesAuth
  <2>1. cmds # <<>> /\ Head(cmds).op = "auth" /\ cmds' = Tail(cmds) /\ UNCHANGED reader
    BY <1>14 DEF TakesAuth, Takes, TakesFrame, ExtFrame, readVars
  <2> DEFINE d == Head(cmds).x
  <2>2. Listed(cmds, "auth", c) => c = d \/ Listed(cmds', "auth", c)
    BY <1>1, <2>1, ListedTail
  <2>3. CASE d \notin DOMAIN client
    BY <1>3, <1>14, <2>1, <2>2, <2>3 DEF TakesAuth
  <2>4. CASE d \in DOMAIN client
    <3>1. client' = [client EXCEPT ![d] = [client[d] EXCEPT !.up = TRUE]]
      BY <1>14, <2>4 DEF TakesAuth
    <3> HIDE DEF d
    <3>2. [client[d] EXCEPT !.up = TRUE].up
      BY <2>4 DEF Types, ServerTypes, Client
    <3>3. (c = d => client'[c].up) /\ (c # d => client'[c] = client[c])
      BY <3>1, <3>2, <2>4
    <3> QED
      BY <2>1, <2>2, <3>3 DEF Admitted, Up
  <2> QED
    BY <2>3, <2>4
<1>15. CASE TakesKill
  <2>1. cmds # <<>> /\ Head(cmds).op # "auth" /\ cmds' = Tail(cmds) /\ UNCHANGED reader
    BY <1>15 DEF TakesKill, Takes, TakesFrame, ExtFrame, readVars
  <2>2. Listed(cmds, "auth", c) => Listed(cmds', "auth", c)
    BY <1>1, <2>1, ListedTail
  <2>3. \E X : client' = Without(client, X)
    BY <1>15 DEF TakesKill, Leave
  <2>4. client'[c] = client[c]
    BY <2>3 DEF Without
  <2> QED
    BY <1>3, <2>1, <2>2, <2>4
<1>16. CASE TakesStatus
  <2>1. cmds # <<>> /\ Head(cmds).op # "auth" /\ cmds' = Tail(cmds) /\ UNCHANGED <<reader, client>>
    BY <1>16 DEF TakesStatus, Takes, TakesFrame, ExtFrame, readVars
  <2>2. Listed(cmds, "auth", c) => Listed(cmds', "auth", c)
    BY <1>1, <2>1, ListedTail
  <2> QED
    BY <1>3, <2>1, <2>2
<1>17. CASE Crash \/ close
  BY <1>17 DEF Crash, Ends, close
<1>18. CASE stopProcess
  BY <1>5, <1>18 DEF stopProcess, Ends, serverVars, connVars, readVars
<1>19. CASE connect
  BY <1>19, ConnectIs
<1>20. CASE lateLine \/ collectStats \/ startProcess
  BY <1>5, <1>20 DEF lateLine, collectStats, startProcess, readVars, serverVars, connVars
<1>21. CASE applyUsers \/ SyncUsers \/ UpdateUsersAndRestart \/ Restart \/ Shutdown \/ applyUser \/ enforceDeviceLimit
  BY <1>5, <1>21 DEF applyUsers, SyncUsers, UpdateUsersAndRestart, Restart, Shutdown, applyUser, enforceDeviceLimit,
     ApiFrame, readVars, serverVars, connVars
<1> QED
  BY <1>6, <1>7, <1>8, <1>9, <1>10, <1>11, <1>12, <1>13, <1>14, <1>15, <1>16, <1>17, <1>18, <1>19, <1>20, <1>21 DEF Next

\* Clients come with the next id and nothing carried; they keep their name, stay up
\* once they are, and carry more.
LEMMA ClientStep ==
    ASSUME Types, Next, NEW c, c \in DOMAIN client'
    PROVE  \/ ClientConnects /\ c = fresh /\ c \notin DOMAIN client /\ ~client'[c].up /\ client'[c].bytes = 0
           \/ /\ c \in DOMAIN client /\ client'[c].cn = client[c].cn /\ (client[c].up => client'[c].up)
              /\ client'[c].bytes = client[c].bytes \/ (Traffic /\ client'[c].bytes = client[c].bytes + 1)
<1>1. CASE UNCHANGED client
  BY <1>1
<1>2. CASE ClientConnects
  <2>1. PICK l \in Login : client' = Put(client, fresh, [cn |-> l.cn, login |-> l, up |-> FALSE, bytes |-> 0])
    BY <1>2 DEF ClientConnects
  <2>2. fresh \notin DOMAIN client
    BY DEF Types, ServerTypes
  <2>3. /\ DOMAIN client' = DOMAIN client \cup {fresh} /\ ~client'[fresh].up /\ client'[fresh].bytes = 0
        /\ \A d \in DOMAIN client : d # fresh => client'[d] = client[d]
    BY <2>1 DEF Put
  <2> QED
    BY <1>2, <2>2, <2>3
<1>3. CASE \E X : client' = Without(client, X)
  BY <1>3 DEF Without
<1>4. CASE Traffic
  <2>1. PICK d \in DOMAIN client : client' = [client EXCEPT ![d] = [client[d] EXCEPT !.bytes = @ + 1]]
    BY <1>4 DEF Traffic
  <2>2. /\ [client[d] EXCEPT !.bytes = @ + 1].up = client[d].up
        /\ [client[d] EXCEPT !.bytes = @ + 1].cn = client[d].cn
        /\ [client[d] EXCEPT !.bytes = @ + 1].bytes = client[d].bytes + 1
    BY DEF Types, ServerTypes, Client
  <2> QED
    BY <1>4, <2>1, <2>2
<1>5. CASE TakesAuth
  <2> DEFINE d == Head(cmds).x
  <2>1. CASE d \notin DOMAIN client
    BY <1>1, <1>5, <2>1 DEF TakesAuth
  <2>2. CASE d \in DOMAIN client
    <3>1. client' = [client EXCEPT ![d] = [client[d] EXCEPT !.up = TRUE]]
      BY <1>5, <2>2 DEF TakesAuth
    <3> HIDE DEF d
    <3>2. /\ [client[d] EXCEPT !.up = TRUE].up /\ [client[d] EXCEPT !.up = TRUE].cn = client[d].cn
          /\ [client[d] EXCEPT !.up = TRUE].bytes = client[d].bytes
      BY <2>2 DEF Types, ServerTypes, Client
    <3> QED
      BY <3>1, <3>2, <2>2
  <2> QED
    BY <2>1, <2>2
<1>6. CASE ClientLeaves \/ TakesKill
  BY <1>3, <1>6 DEF ClientLeaves, TakesKill, Leave
<1>7. CASE Crash
  BY <1>7 DEF Crash, Ends, Nothing
<1>8. CASE stopProcess
  BY <1>1, <1>8 DEF stopProcess, Ends, Nothing, serverVars
<1>9. ASSUME ~(ClientConnects \/ Traffic \/ TakesAuth \/ ClientLeaves \/ TakesKill \/ Crash \/ stopProcess)
      PROVE  UNCHANGED client
  BY <1>9 DEF Next, applyUsers, SyncUsers, UpdateUsersAndRestart, Restart, Shutdown, applyUser, enforceDeviceLimit,
     ApiFrame, kill, startProcess, connect, close, ClientRenews, TakesStatus, handleLine, finishConnect,
     lateLine, requestStatus, collectStats, serverVars
<1> QED
  BY <1>1, <1>2, <1>4, <1>5, <1>6, <1>7, <1>8, <1>9

\* A connection that is there and was not opened just now was there before, to the same server.
LEMMA ConnectedStep ==
    ASSUME Types, Wires, Next, connected', ~connect
    PROVE  connected /\ (fresh' = fresh \/ (ClientConnects /\ fresh' = fresh + 1))
<1>1. CASE OverConnection
  BY <1>1, OverConnectionIs DEF OverConnection, ClientConnects, ClientRenews, ClientLeaves, Traffic, TakesAuth,
     TakesKill, TakesStatus, TakesFrame, serverVars
<1>2. CASE Crash \/ close
  BY <1>2 DEF Crash, Ends, close
<1>3. CASE stopProcess
  <2>1. CASE \E D : Ends(D)
    BY <2>1 DEF Ends
  <2>2. CASE UNCHANGED <<serverVars, connVars>>
    BY <2>2 DEF serverVars, connVars
  <2> QED
    BY <1>3, <2>1, <2>2 DEF stopProcess
<1>4. CASE ~(OverConnection \/ Crash \/ close \/ stopProcess)
  BY <1>4 DEF Next, OverConnection, applyUsers, SyncUsers, UpdateUsersAndRestart, Restart, Shutdown, applyUser,
     enforceDeviceLimit, ApiFrame, kill, startProcess, handleLine, finishConnect, lateLine, requestStatus, collectStats,
     serverVars, connVars
<1> QED
  BY <1>1, <1>2, <1>3, <1>4

\* A session is counted that was counted before, or that the reader lets in.
LEMMA NoNewSession ==
    ASSUME Types, Next, late = <<>>, NEW cn \in CN, NEW c, c \in sessions'[cn]
    PROVE  \/ c \in sessions[cn]
           \/ /\ handleLine /\ Head(events).type = "connect" /\ c = Head(events).cid
              /\ reader' = Do("auth", c)
<1>1. sessions \in [CN -> SUBSET Nat]
  BY DEF Types, StoreTypes
<1>2. CASE SyncUsers \/ UpdateUsersAndRestart
  <2>1. \E S : sessions' = [n \in CN |-> IF n \in S THEN {} ELSE sessions[n]]
    BY <1>2 DEF SyncUsers, UpdateUsersAndRestart, Replace
  <2> QED
    BY <2>1
<1>3. CASE applyUser
  BY <1>1, <1>3, ApplyIs
<1>4. CASE enforceDeviceLimit
  <2>1. \E E, x : sessions' = [sessions EXCEPT ![x] = @ \ E]
    BY <1>4 DEF enforceDeviceLimit
  <2> QED
    BY <1>1, <2>1
<1>5. CASE handleLine
  <2> DEFINE e == Head(events)
  <2>1. Handle(e)
    BY <1>5 DEF handleLine
  <2>2. CASE UNCHANGED sessions
    BY <2>2
  <2>3. CASE e.type = "connect" /\ sessions' = [sessions EXCEPT ![e.login.cn] = @ \cup {e.cid}] /\ reader' = Do("auth", e.cid)
    <3>1. CASE c = e.cid
      BY <1>5, <2>3, <3>1
    <3>2. CASE c # e.cid
      <4>1. c \in sessions[cn]
        <5> HIDE DEF e
        <5> QED
          BY <1>1, <2>3, <3>2
      <4> QED
        BY <4>1
    <3> QED
      BY <3>1, <3>2
  <2>4. CASE sessions' = [sessions EXCEPT ![e.cn] = @ \ {e.cid}]
    <3>1. c \in sessions[cn]
      <4> HIDE DEF e
      <4> QED
        BY <1>1, <2>4
    <3> QED
      BY <3>1
  <2> QED
    BY <2>1, <2>2, <2>3, <2>4 DEF Handle, Decide, releaseSession
<1>6. CASE lateLine
  BY <1>6 DEF lateLine
<1>7. CASE ~(SyncUsers \/ UpdateUsersAndRestart \/ applyUser \/ enforceDeviceLimit \/ handleLine \/ lateLine)
  BY <1>7, SessionsStep
<1> QED
  BY <1>2, <1>3, <1>4, <1>5, <1>6, <1>7

\* Every step keeps the counted clients let in.
LEMMA ShownStep ==
    ASSUME Types, Wires, Fits, Quiet, Shown, Next
    PROVE  Shown'
<1> SUFFICES ASSUME ~mixed', connected'
             PROVE  /\ \A cn \in CN : sessions'[cn] \subseteq 0..(fresh' - 1)
                    /\ \A c \in DOMAIN client' : c \in sessions'[client'[c].cn] => Admitted(c)'
  BY DEF Shown
<1>1. ~mixed /\ late = <<>>
  BY MixedStep DEF Quiet
<1>2. CASE connect
  <2>1. \A cn \in CN : sessions'[cn] = {}
    BY <1>1, <1>2, ConnectIs DEF Quiet, connect, storeVars
  <2> QED
    BY <1>2, <2>1, ConnectIs
<1>3. CASE ~connect
  <2>1. connected /\ fresh \in Nat /\ (fresh' = fresh \/ (ClientConnects /\ fresh' = fresh + 1))
    BY <1>3, ConnectedStep DEF Types, ServerTypes
  <2>2. /\ \A cn \in CN : sessions[cn] \subseteq 0..(fresh - 1)
        /\ \A c \in DOMAIN client : c \in sessions[client[c].cn] => Admitted(c)
    BY <1>1, <2>1 DEF Shown
  <2>3. ASSUME NEW cn \in CN, NEW c, c \in sessions'[cn] PROVE c \in 0..(fresh' - 1)
    <3>1. CASE c \in sessions[cn]
      BY <2>1, <2>2, <3>1
    <3>2. CASE handleLine /\ Head(events).type = "connect" /\ c = Head(events).cid
      <4>1. Head(events) = events[1] /\ 1 \in DOMAIN events /\ c \in Nat
        BY <3>2, EventIs DEF handleLine, Types, WireTypes
      <4>2. c < fresh
        BY <2>1, <3>2, <4>1 DEF Fits, EventFits
      <4> QED
        BY <2>1, <4>1, <4>2
    <3> QED
      BY <1>1, <2>3, <3>1, <3>2, NoNewSession
  <2>4. ASSUME NEW c \in DOMAIN client', c \in sessions'[client'[c].cn] PROVE Admitted(c)'
    <3>1. client'[c].cn \in CN
      <4>1. Types'
        BY TypesStep
      <4> QED
        BY <4>1 DEF Types, ServerTypes, Client
    <3>2. CASE reader' = Do("auth", c)
      BY <3>2 DEF Admitted
    <3>3. CASE c \in sessions[client'[c].cn]
      <4>1. c # fresh
        BY <2>1, <2>2, <3>1, <3>3
      <4>2. c \in DOMAIN client /\ client'[c].cn = client[c].cn
        BY <4>1, ClientStep
      <4>3. Admitted(c)
        BY <2>2, <3>3, <4>2
      <4> QED
        BY <2>1, <4>2, <4>3, AdmittedKept
    <3> QED
      BY <1>1, <2>4, <3>1, <3>2, <3>3, NoNewSession
  <2> QED
    BY <2>3, <2>4
<1> QED
  BY <1>2, <1>3

-----------------------------------------------------------------------------
(* Counting.                                                               *)

\* The clients are finitely many.
LEMMA ClientsFinite ==
    ASSUME ServerTypes
    PROVE  IsFiniteSet(DOMAIN client)
<1>1. DOMAIN client \in SUBSET (0..(fresh - 1)) /\ IsFiniteSet(0..(fresh - 1))
  BY FS_Interval DEF ServerTypes
<1> QED
  BY <1>1, FS_Subset

\* A part of a finite set is no larger.
LEMMA PartNoLarger ==
    ASSUME NEW S, NEW T, IsFiniteSet(T), S \subseteq T
    PROVE  IsFiniteSet(S) /\ Cardinality(S) \in Nat /\ Cardinality(T) \in Nat /\ Cardinality(S) <= Cardinality(T)
BY FS_Subset, FS_CardinalityType

\* What is to be enforced stays so, but for the name at hand, and but for a stop.
LEMMA EnforceKept ==
    ASSUME Types, Next, NEW cn, Listed(todo, "enforce", cn), ~Listed(todo', "enforce", cn),
           ~(stopProcess \/ startProcess \/ connect \/ close \/ Crash)
    PROVE  enforceDeviceLimit /\ Head(todo).x = cn
<1>1. CASE applyUsers \/ SyncUsers \/ UpdateUsersAndRestart \/ Restart \/ Shutdown
  <2>1. todo = <<>>
    BY <1>1 DEF applyUsers, SyncUsers, UpdateUsersAndRestart, Restart, Shutdown, Request
  <2> QED
    BY <2>1, ListedNone
<1>2. CASE applyUser
  <2>1. todo # <<>> /\ todo \in Seq(UserCall) /\ Head(todo).op = "apply"
    BY <1>2, TodoUser DEF applyUser, Call
  <2>2. Tail(todo) \in Seq(UserCall) /\ Listed(Tail(todo), "enforce", cn)
    BY <2>1, ListedTail
  <2>3. PICK p \in Seq(UserCall) : todo' = p \o Tail(todo)
    BY <1>2, CallsFirst
  <2> QED
    BY <2>2, <2>3, ListedConcat
<1>3. CASE enforceDeviceLimit
  BY <1>3, EnforceIs
<1>4. CASE kill
  <2>1. todo # <<>> /\ todo \in Seq(UserCall) /\ Head(todo).op # "enforce" /\ todo' = Tail(todo)
    BY <1>4, TodoUser DEF kill, Call
  <2> QED
    BY <2>1, ListedTail
<1>5. CASE OverConnection
  BY <1>5, OverConnectionIs
<1>6. CASE handleLine \/ finishConnect \/ lateLine \/ requestStatus \/ collectStats
  BY <1>6 DEF handleLine, finishConnect, lateLine, requestStatus, collectStats, apiVars
<1> QED
  BY <1>1, <1>2, <1>3, <1>4, <1>5, <1>6 DEF Next, OverConnection

\* Every step keeps the limit, or leaves it to be enforced.
LEMMA LimitedStep ==
    ASSUME Types, Wires, Fits, Known, Quiet, Held, Shown, Limited, Next
    PROVE  Limited'
<1> SUFFICES ASSUME ~mixed', NEW cn \in DOMAIN users', users'[cn].limit > 0, ~Listed(todo', "enforce", cn)
             PROVE  Cardinality(GoodOf(cn)') <= users'[cn].limit
  BY DEF Limited
<1> DEFINE G == {c \in DOMAIN client' : client'[c].cn = cn /\ Good(c)'}
<1>1. GoodOf(cn)' = G
  BY DEF GoodOf
<1>2. SUFFICES Cardinality(G) <= users'[cn].limit
  BY <1>1
<1>3. ~mixed /\ Types' /\ Held'
  BY MixedStep, TypesStep, HeldStep
<1>4. users'[cn].limit \in Nat /\ cn \in CN
  BY <1>3 DEF Types, StoreTypes
<1>5. CASE G = {}
  <2>1. Cardinality({}) = 0
    BY FS_EmptySet
  <2> QED
    BY <1>4, <1>5, <2>1
<1>6. \A c \in G : Good(c)' /\ client'[c].cn = cn
  OBVIOUS
<1> HIDE DEF G
<1>7. CASE stopProcess \/ startProcess \/ connect \/ close \/ Crash
  BY <1>5, <1>6, <1>7, StoppedHasNone
<1>8. CASE UpdateUsersAndRestart
  BY <1>5, <1>6, <1>8, RestartIs
<1>9. CASE SyncUsers
  <2>1. PICK l \in Lists : users' = replaceAll(l) /\ \A i \in DOMAIN l : Listed(todo', "enforce", l[i].cn)
    BY <1>9, SyncIs
  <2>2. \E i \in DOMAIN l : l[i].cn = cn
    BY <2>1, ReplaceAllIs
  <2> QED
    BY <2>1, <2>2
<1>10. CASE enforceDeviceLimit /\ Head(todo).x = cn
  <2>1. users' = users
    BY <1>10 DEF enforceDeviceLimit
  <2>2. PICK E \in excessSessions(cn) : sessions' = [sessions EXCEPT ![cn] = @ \ E]
    BY <1>10, EnforceIs
  <2>3. sessions \in [CN -> SUBSET Nat] /\ IsFiniteSet(sessions[cn]) /\ sessions'[cn] = sessions[cn] \ E
    BY <1>4, <2>2 DEF Types, StoreTypes
  <2>4. G \subseteq sessions'[cn]
    BY <1>3, <1>6 DEF Held, Good
  <2>5. CASE Cardinality(sessions[cn]) > users[cn].limit
    <3>1. PICK K \in SUBSET sessions[cn] : Cardinality(K) = users[cn].limit /\ E = sessions[cn] \ K
      BY <2>1, <2>2, <2>5 DEF excessSessions
    <3>2. sessions'[cn] = K /\ IsFiniteSet(K)
      BY <2>3, <3>1, FS_Subset
    <3> QED
      BY <2>1, <2>4, <3>1, <3>2, PartNoLarger
  <2>6. CASE ~(Cardinality(sessions[cn]) > users[cn].limit)
    <3>1. Cardinality(sessions[cn]) \in Nat /\ Cardinality(sessions[cn]) <= users'[cn].limit
      BY <1>4, <2>1, <2>3, <2>6, FS_CardinalityType
    <3>2. G \subseteq sessions[cn]
      BY <2>3, <2>4
    <3>3. Cardinality(G) \in Nat /\ Cardinality(G) <= Cardinality(sessions[cn])
      BY <2>3, <3>2, PartNoLarger
    <3> QED
      BY <1>4, <3>1, <3>3
  <2> QED
    BY <2>5, <2>6
<1>11. CASE applyUser /\ Head(todo).x.cn = cn
  <2>1. Listed(todo', "kill", cn)
    BY <1>11, ApplyIs
  <2>2. \A c \in G : Doomed(c)'
    BY <1>6, <2>1, DoomedNext
  <2> QED
    BY <1>5, <1>6, <2>2 DEF Good
<1>12. CASE ~(\/ stopProcess \/ startProcess \/ connect \/ close \/ Crash \/ UpdateUsersAndRestart \/ SyncUsers
              \/ enforceDeviceLimit /\ Head(todo).x = cn
              \/ applyUser /\ Head(todo).x.cn = cn)
  <2>1. cn \in DOMAIN users /\ users'[cn] = users[cn]
    <3>1. CASE applyUser
      BY <1>12, <3>1, ApplyIs
    <3>2. CASE ~applyUser
      BY <1>12, <3>2, UsersStep
    <3> QED
      BY <3>1, <3>2
  <2>2. ~Listed(todo, "enforce", cn)
    BY <1>12, EnforceKept
  <2>3. Cardinality(GoodOf(cn)) <= users[cn].limit
    BY <1>3, <2>1, <2>2 DEF Limited
  <2>4. IsFiniteSet(GoodOf(cn))
    <3>1. GoodOf(cn) \in SUBSET DOMAIN client
      BY DEF GoodOf
    <3> QED
      BY <3>1, ClientsFinite, FS_Subset DEF Types
  <2>5. \A c \in G : client[c].cn = cn /\ (c \in GoodOf(cn) \/ Accepts(c))
    BY <1>6, NoNewGood DEF GoodOf, Good
  <2>6. CASE \A c \in G : c \in GoodOf(cn)
    <3>1. Cardinality(G) \in Nat /\ Cardinality(GoodOf(cn)) \in Nat /\ Cardinality(G) <= Cardinality(GoodOf(cn))
      BY <2>4, <2>6, PartNoLarger
    <3> QED
      BY <1>4, <2>1, <2>3, <3>1
  <2>7. CASE \E c \in G : c \notin GoodOf(cn)
    <3>1. PICK c \in G : c \notin GoodOf(cn)
      BY <2>7
    <3>2. Accepts(c) /\ client[c].cn = cn
      BY <2>5, <3>1
    <3>3. connected /\ c \in DOMAIN client /\ ~Doomed(c) /\ ~Admitted(c)
      BY <3>1, <3>2 DEF Accepts, GoodOf, Good
    <3>4. c \notin sessions[cn]
      BY <1>3, <3>2, <3>3 DEF Shown
    <3>5. ~Full(cn)
      BY <3>2, <3>4 DEF Accepts, tryConnect
    <3> DEFINE S == sessions[cn]
    <3>6. IsFiniteSet(S) /\ Cardinality(S) \in Nat
      BY <1>4, FS_CardinalityType DEF Types, StoreTypes
    <3>7. Cardinality(S) < users'[cn].limit
      BY <1>4, <2>1, <3>5, <3>6 DEF Full
    <3>8. G \subseteq S \cup {c}
      <4>1. \A d \in G : Accepts(d) => d = c
        BY <3>2 DEF Accepts
      <4>2. \A d \in GoodOf(cn) : d \in S
        BY <1>3 DEF Held, GoodOf
      <4> QED
        BY <2>5, <4>1, <4>2
    <3>9. IsFiniteSet(S \cup {c}) /\ Cardinality(S \cup {c}) = Cardinality(S) + 1
      BY <3>4, <3>6, FS_AddElement
    <3>10. Cardinality(G) \in Nat /\ Cardinality(G) <= Cardinality(S \cup {c})
      BY <3>8, <3>9, PartNoLarger
    <3> HIDE DEF S
    <3> QED
      BY <1>4, <3>6, <3>7, <3>9, <3>10
  <2> QED
    BY <2>6, <2>7
<1> QED
  BY <1>7, <1>8, <1>9, <1>10, <1>11, <1>12

\* The invariant behind WithinLimit.
Counting == Admissions /\ Quiet /\ Held /\ Shown /\ Limited

\* The second invariant.
LEMMA CountingInvariant == Spec => []Counting
<1>1. Init => Admissions /\ Counting
  <2> SUFFICES ASSUME Init PROVE Admissions /\ Counting
    OBVIOUS
  <2>1. DOMAIN client = {} /\ late = <<>> /\ events = <<>> /\ reader = None /\ sessions = [cn \in CN |-> {}]
    BY DEF Init, Nothing
  <2>2. Admissions
    BY <2>1, TypesInit, WiresInit, FitsInit DEF Admissions, Known
  <2>3. Quiet /\ Held /\ Shown
    BY <2>1 DEF Quiet, Held, Shown
  <2>4. \A cn : GoodOf(cn) = {} /\ Cardinality({}) = 0
    BY <2>1, FS_EmptySet DEF GoodOf
  <2>5. Limited
    <3>1. \A cn \in DOMAIN users : users[cn].limit \in Nat
      BY <2>2 DEF Admissions, Types, StoreTypes
    <3>2. \A cn : Cardinality(GoodOf(cn)) = 0
      BY <2>4
    <3> QED
      BY <3>1, <3>2 DEF Limited
  <2> QED
    BY <2>2, <2>3, <2>5 DEF Counting
<1>2. Counting /\ Admissions' /\ [Next]_vars => Counting'
  <2> SUFFICES ASSUME Counting, Admissions', [Next]_vars PROVE Counting'
    OBVIOUS
  <2>1. CASE UNCHANGED vars
    <3>1. UNCHANGED <<users, sessions, todo, reader, late, client, fresh, connected, events, cmds, mixed>>
      BY <2>1 DEF vars, storeVars, apiVars, readVars, serverVars, connVars
    <3>2. \A c : (Good(c)' <=> Good(c)) /\ (Admitted(c)' <=> Admitted(c))
      BY <3>1, DoomedIs, DoomedNext DEF Good, Admitted, Up
    <3>3. \A cn : GoodOf(cn)' = GoodOf(cn)
      BY <3>1, <3>2 DEF GoodOf
    <3>4. Quiet' /\ Held' /\ Shown'
      BY <3>1, <3>2 DEF Counting, Quiet, Held, Shown
    <3>5. Limited'
      BY <3>1, <3>3 DEF Counting, Limited
    <3> QED
      BY <3>4, <3>5 DEF Counting
  <2>2. CASE Next
    BY <2>2, QuietStep, HeldStep, ShownStep, LimitedStep DEF Counting, Admissions
  <2> QED
    BY <2>1, <2>2
<1> QED
  BY <1>1, <1>2, AdmissionsInvariant, PTL DEF Spec

\* A name has no more clients than its limit, but for those about to be killed, until a
\* server starts while something is left of another.
THEOREM NamesAreWithinTheirLimit == Spec => []WithinLimit
<1>1. Counting => WithinLimit
  <2> SUFFICES ASSUME Counting, ~mixed, NEW cn \in DOMAIN users, users[cn].limit > 0, ~Listed(todo, "enforce", cn)
               PROVE  Cardinality({c \in DOMAIN client : client[c].cn = cn /\ Up(c) /\ ~Doomed(c)}) <= users[cn].limit
    BY DEF WithinLimit
  <2> DEFINE S == {c \in DOMAIN client : client[c].cn = cn /\ Up(c) /\ ~Doomed(c)}
  <2>1. S \subseteq GoodOf(cn) /\ GoodOf(cn) \in SUBSET DOMAIN client
    BY DEF GoodOf, Good, Admitted
  <2>2. IsFiniteSet(GoodOf(cn))
    BY <2>1, ClientsFinite, FS_Subset DEF Counting, Admissions, Types
  <2> HIDE DEF S
  <2>3. Cardinality(S) \in Nat /\ Cardinality(GoodOf(cn)) \in Nat /\ Cardinality(S) <= Cardinality(GoodOf(cn))
    BY <2>1, <2>2, PartNoLarger
  <2>4. Cardinality(GoodOf(cn)) <= users[cn].limit /\ users[cn].limit \in Nat
    BY DEF Counting, Limited, Admissions, Types, StoreTypes
  <2>5. Cardinality(S) <= users[cn].limit
    BY <2>3, <2>4
  <2> QED
    BY <2>5 DEF S
<1> QED
  BY <1>1, CountingInvariant, PTL

-----------------------------------------------------------------------------
(* The rows of the statuses, from the last one read to the last one sent.  *)

\* The status read last and those on the wire, and their rows.
Stat == {0} \cup {i \in DOMAIN events : events[i].type = "status"}
Row(i) == IF i = 0 THEN lastStatus ELSE events[i].rows

\* A client's row never falls, is in every status from its first to its last, and in
\* those that are still to come while the client is there.
Chain ==
    /\ \A i, j \in Stat : i < j => \A c \in DOMAIN Row(i) :
        /\ c \in DOMAIN Row(j) => Row(i)[c].bytes <= Row(j)[c].bytes
        /\ c \in DOMAIN client => c \in DOMAIN Row(j)
        /\ \A k \in Stat : j < k /\ c \in DOMAIN Row(k) => c \in DOMAIN Row(j)
    /\ \A i \in Stat : \A c \in DOMAIN Row(i) :
        c \in DOMAIN client => client[c].up /\ Row(i)[c].bytes <= client[c].bytes
    /\ connected => \A i \in Stat : DOMAIN Row(i) \subseteq 0..(fresh - 1)

\* Rows are typed.
LEMMA RowTypes ==
    ASSUME Types
    PROVE  /\ \A i \in Stat : i \in Nat /\ Row(i) \in RowMap
           /\ \A i \in Stat : \A c \in DOMAIN Row(i) : c \in Nat /\ Row(i)[c].bytes \in Nat /\ Row(i)[c].cn \in CN
<1>1. events \in Seq(Event) /\ lastStatus \in RowMap
  BY DEF Types, WireTypes, StatTypes
<1>2. \A i \in DOMAIN events : i \in Nat /\ i # 0 /\ events[i] \in Event
  BY <1>1
<1>3. \A i \in DOMAIN events : events[i].type = "status" => events[i].rows \in RowMap
  BY <1>2 DEF Event
<1>4. \A i \in Stat : i \in Nat /\ Row(i) \in RowMap
  BY <1>1, <1>2, <1>3 DEF Stat, Row
<1> QED
  BY <1>4, RowMapIs

\* Events of other types do not disturb the rows.
LEMMA StatSame ==
    ASSUME UNCHANGED <<events, lastStatus>>
    PROVE  Stat' = Stat /\ \A i \in Stat : Row(i)' = Row(i)
BY DEF Stat, Row

\* An event that is no status leaves the statuses alone.
LEMMA StatAppend ==
    ASSUME Types, NEW e \in Event, events' = Append(events, e), e.type # "status", UNCHANGED lastStatus
    PROVE  Stat' = Stat /\ \A i \in Stat : Row(i)' = Row(i)
<1>1. events \in Seq(Event)
  BY DEF Types, WireTypes
<1>2. /\ DOMAIN events = 1..Len(events) /\ Len(events) \in Nat /\ DOMAIN events' = 1..(Len(events) + 1)
      /\ events'[Len(events) + 1] = e /\ \A i \in 1..Len(events) : events'[i] = events[i]
  BY <1>1
<1>3. \A i : i \in DOMAIN events' <=> i \in DOMAIN events \/ i = Len(events) + 1
  BY <1>2
<1> QED
  BY <1>2, <1>3 DEF Stat, Row

\* Clients that leave leave the statuses alone.
LEMMA StatGone ==
    ASSUME Types, NEW X \in SUBSET DOMAIN client, events' = events \o SetToSeq(Gone(X)), UNCHANGED lastStatus
    PROVE  Stat' = Stat /\ \A i \in Stat : Row(i)' = Row(i)
<1> DEFINE q == SetToSeq(Gone(X))
<1>1. q \in Seq(Event) /\ \A i \in DOMAIN q : q[i].type # "status"
  BY GoneIs DEF Types
<1> HIDE DEF q
<1>2. events \in Seq(Event) /\ events' = events \o q
  BY DEF Types, WireTypes, q
<1>3. /\ DOMAIN events = 1..Len(events) /\ Len(events) \in Nat /\ Len(q) \in Nat
      /\ DOMAIN events' = 1..(Len(events) + Len(q)) /\ \A i \in 1..Len(events) : events'[i] = events[i]
  BY <1>1, <1>2
<1>4. \A i \in DOMAIN events : i \in DOMAIN events' /\ events'[i] = events[i] /\ i # 0
  BY <1>3
<1>5. \A i \in DOMAIN events' : i \notin DOMAIN events => events'[i].type # "status"
  BY <1>1, <1>2, QueueConcat
<1> QED
  BY <1>4, <1>5 DEF Stat, Row

\* The rows that a line leaves.
LEMMA StatTail ==
    ASSUME Types, handleLine
    PROVE  \E f \in [Stat' -> Stat] :
             /\ \A i, j \in Stat' : i < j => f[i] < f[j]
             /\ \A i \in Stat' : Row(i)' = Row(f[i])
             /\ Head(events).type # "status" => f[0] = 0
             /\ Head(events).type = "status" => \A i \in Stat' : 0 < f[i]
<1>1. events \in Seq(Event) /\ events # <<>> /\ events' = Tail(events)
  BY DEF handleLine, Types, WireTypes
<1>2. /\ Head(events) = events[1] /\ 1 \in DOMAIN events /\ DOMAIN events \subseteq Nat
      /\ \A i \in DOMAIN events' : i \in Nat /\ i > 0 /\ i + 1 \in DOMAIN events /\ events'[i] = events[i + 1]
  BY <1>1
<1>3. IF Head(events).type = "status" THEN lastStatus' = Head(events).rows ELSE lastStatus' = lastStatus
  BY DEF handleLine, Handle, Decide
<1> DEFINE f == [i \in Stat' |-> IF i = 0 THEN (IF Head(events).type = "status" THEN 1 ELSE 0) ELSE i + 1]
<1>4. ASSUME NEW i \in Stat'
      PROVE  i \in Nat /\ (i # 0 => i \in DOMAIN events' /\ events'[i].type = "status")
  BY <1>2, <1>4 DEF Stat
<1>5. ASSUME NEW i \in Stat' PROVE f[i] \in Stat /\ Row(i)' = Row(f[i])
  <2>1. CASE i = 0
    BY <1>2, <1>3, <2>1 DEF Stat, Row
  <2>2. CASE i # 0
    <3>1. i \in DOMAIN events' /\ events'[i].type = "status" /\ i \in Nat
      BY <1>4, <2>2
    <3>2. f[i] = i + 1 /\ i + 1 \in DOMAIN events /\ events'[i] = events[i + 1] /\ i + 1 # 0
      BY <1>2, <2>2, <3>1
    <3> QED
      BY <2>2, <3>1, <3>2 DEF Stat, Row
  <2> QED
    BY <2>1, <2>2
<1>6. ASSUME NEW i \in Stat', NEW j \in Stat', i < j PROVE f[i] < f[j]
  BY <1>4, <1>6
<1>7. 0 \in Stat'
  BY DEF Stat
<1>8. \A i \in Stat' : Head(events).type = "status" => 0 < f[i]
  BY <1>4
<1> QED
  BY <1>5, <1>6, <1>7, <1>8

\* Rows in the same order, of clients that are still the same.
LEMMA ChainKept ==
    ASSUME Types, Types', Chain, NEW f \in [Stat' -> Stat],
           \A i, j \in Stat' : i < j => f[i] < f[j], \A i \in Stat' : Row(i)' = Row(f[i]),
           connected' => connected /\ fresh <= fresh',
           \A c \in DOMAIN client' :
              (\E i \in Stat' : c \in DOMAIN Row(i)') =>
                 c \in DOMAIN client /\ (client[c].up => client'[c].up) /\ client[c].bytes <= client'[c].bytes
    PROVE  Chain'
<1>1. ASSUME NEW i \in Stat', NEW j \in Stat', i < j, NEW c \in DOMAIN Row(i)'
      PROVE  /\ c \in DOMAIN Row(j)' => Row(i)'[c].bytes <= Row(j)'[c].bytes
             /\ c \in DOMAIN client' => c \in DOMAIN Row(j)'
             /\ \A k \in Stat' : j < k /\ c \in DOMAIN Row(k)' => c \in DOMAIN Row(j)'
  <2>1. f[i] \in Stat /\ f[j] \in Stat /\ f[i] < f[j] /\ Row(i)' = Row(f[i]) /\ Row(j)' = Row(f[j]) /\ c \in DOMAIN Row(f[i])
    BY <1>1
  <2>2. \A k \in Stat' : j < k /\ c \in DOMAIN Row(k)' => c \in DOMAIN Row(j)'
    <3> SUFFICES ASSUME NEW k \in Stat', j < k, c \in DOMAIN Row(k)' PROVE c \in DOMAIN Row(j)'
      OBVIOUS
    <3>1. f[k] \in Stat /\ f[j] < f[k] /\ Row(k)' = Row(f[k])
      BY <1>1
    <3> QED
      BY <2>1, <3>1 DEF Chain
  <2>3. c \in DOMAIN client' => c \in DOMAIN client
    BY <1>1
  <2> QED
    BY <2>1, <2>2, <2>3 DEF Chain
<1>2. ASSUME NEW i \in Stat', NEW c \in DOMAIN Row(i)', c \in DOMAIN client'
      PROVE  client'[c].up /\ Row(i)'[c].bytes <= client'[c].bytes
  <2>1. f[i] \in Stat /\ Row(i)' = Row(f[i]) /\ c \in DOMAIN Row(f[i])
    BY <1>2
  <2>2. c \in DOMAIN client /\ (client[c].up => client'[c].up) /\ client[c].bytes <= client'[c].bytes
    BY <1>2
  <2>3. client[c].up /\ Row(f[i])[c].bytes <= client[c].bytes
    BY <2>1, <2>2 DEF Chain
  <2>4. Row(f[i])[c].bytes \in Nat /\ client[c].bytes \in Nat /\ client'[c].bytes \in Nat
    <3>1. Row(f[i])[c].bytes \in Nat
      BY <2>1, RowTypes
    <3>2. client[c].bytes \in Nat /\ client'[c].bytes \in Nat
      BY <1>2, <2>2 DEF Types, ServerTypes, Client
    <3> QED
      BY <3>1, <3>2
  <2> QED
    BY <2>1, <2>2, <2>3, <2>4
<1>3. ASSUME connected', NEW i \in Stat' PROVE DOMAIN Row(i)' \subseteq 0..(fresh' - 1)
  <2>1. f[i] \in Stat /\ Row(i)' = Row(f[i])
    OBVIOUS
  <2>2. DOMAIN Row(f[i]) \subseteq 0..(fresh - 1) /\ fresh <= fresh' /\ fresh \in Nat /\ fresh' \in Nat
    BY <1>3, <2>1 DEF Chain, Types, ServerTypes
  <2> QED
    BY <2>1, <2>2
<1> QED
  BY <1>1, <1>2, <1>3 DEF Chain

\* Other steps leave the rows alone.
LEMMA RowsKept ==
    ASSUME Types, Next, ~(connect \/ close \/ handleLine \/ TakesStatus)
    PROVE  Stat' = Stat /\ \A i \in Stat : Row(i)' = Row(i)
<1>1. CASE ClientConnects
  <2>1. PICK l \in Login : events' = Append(events, Asks(fresh, l))
    BY <1>1 DEF ClientConnects
  <2>2. Asks(fresh, l) \in Event /\ Asks(fresh, l).type # "status"
    BY DEF Asks, Event, Types, ServerTypes
  <2> QED
    BY <1>1, <2>1, <2>2, StatAppend DEF ClientConnects, ExtFrame, statVars
<1>2. CASE ClientRenews
  <2>1. PICK c \in DOMAIN client : events' = Append(events, Asks(c, client[c].login))
    BY <1>2 DEF ClientRenews
  <2>2. c \in Nat /\ client[c].login \in Login
    BY DEF Types, ServerTypes, Client
  <2>3. Asks(c, client[c].login) \in Event /\ Asks(c, client[c].login).type # "status"
    BY <2>2 DEF Asks, Event
  <2> QED
    BY <1>2, <2>1, <2>3, StatAppend DEF ClientRenews, ExtFrame, statVars
<1>3. ASSUME NEW X \in SUBSET DOMAIN client, Leave(X), UNCHANGED lastStatus
      PROVE  Stat' = Stat /\ \A i \in Stat : Row(i)' = Row(i)
  <2>1. PICK D : events' = events \o SetToSeq(Gone(X \ D))
    BY <1>3 DEF Leave
  <2>2. X \ D \in SUBSET DOMAIN client
    OBVIOUS
  <2> QED
    BY <1>3, <2>1, <2>2, StatGone
<1>4. CASE ClientLeaves
  <2>1. PICK c \in DOMAIN client : Leave({c})
    BY <1>4 DEF ClientLeaves
  <2>2. {c} \in SUBSET DOMAIN client
    OBVIOUS
  <2> QED
    BY <1>3, <1>4, <2>1, <2>2 DEF ClientLeaves, ExtFrame, statVars
<1>5. CASE TakesKill
  <2>1. UNCHANGED lastStatus
    BY <1>5 DEF TakesKill, TakesFrame, ExtFrame, statVars
  <2>2. CASE Leave({Head(cmds).x} \cap DOMAIN client)
    BY <1>3, <2>1, <2>2
  <2>3. CASE Leave({c \in DOMAIN client : client[c].cn = Head(cmds).x})
    BY <1>3, <2>1, <2>3
  <2> QED
    BY <1>5, <2>2, <2>3 DEF TakesKill
<1>6. CASE Crash
  <2>1. {} \in SUBSET DOMAIN client
    OBVIOUS
  <2> QED
    BY <1>6, <2>1, StatGone DEF Crash, Ends, statVars
<1>7. CASE stopProcess
  <2>1. CASE UNCHANGED connVars
    BY <1>7, <2>1, StatSame DEF connVars, stopProcess, statVars
  <2>2. CASE \E D \in SUBSET {c \in DOMAIN client : Up(c) /\ connected} : Ends(D)
    <3>1. PICK D \in SUBSET DOMAIN client : Ends(D)
      BY <2>2
    <3> QED
      BY <1>7, <3>1, StatGone DEF Ends, stopProcess, statVars
  <2> QED
    BY <1>7, <2>1, <2>2 DEF stopProcess
<1>8. CASE ~(ClientConnects \/ ClientRenews \/ ClientLeaves \/ TakesKill \/ Crash \/ stopProcess)
  <2>1. UNCHANGED <<events, lastStatus>>
    BY <1>8 DEF Next, applyUsers, SyncUsers, UpdateUsersAndRestart, Restart, Shutdown, applyUser, enforceDeviceLimit,
       ApiFrame, kill, startProcess, Traffic, TakesAuth, TakesFrame, ExtFrame, finishConnect, lateLine,
       requestStatus, collectStats, connVars, statVars
  <2> QED
    BY <2>1, StatSame
<1> QED
  BY <1>1, <1>2, <1>4, <1>5, <1>6, <1>7, <1>8

\* Every step keeps the rows in order.
LEMMA ChainStep ==
    ASSUME Types, Wires, Chain, Next
    PROVE  Chain'
<1>0. Types'
  BY TypesStep
<1>1. CASE connect
  <2>1. events' = <<>> /\ lastStatus' = Nothing
    BY <1>1, ConnectIs
  <2>2. Stat' = {0} /\ Row(0)' = Nothing /\ DOMAIN Nothing = {}
    BY <2>1 DEF Stat, Row, Nothing
  <2> QED
    BY <2>2 DEF Chain
<1>2. CASE close
  <2>1. events' = <<>> /\ UNCHANGED <<lastStatus, client>> /\ ~connected'
    BY <1>2 DEF close, statVars, serverVars
  <2>2. Stat' = {0} /\ Row(0)' = Row(0) /\ 0 \in Stat
    BY <2>1 DEF Stat, Row
  <2> DEFINE f == [i \in {0} |-> 0]
  <2>3. f \in [Stat' -> Stat] /\ (\A i, j \in Stat' : i < j => f[i] < f[j]) /\ \A i \in Stat' : Row(i)' = Row(f[i])
    BY <2>2
  <2>4. \A c \in DOMAIN client' :
          c \in DOMAIN client /\ (client[c].up => client'[c].up) /\ client[c].bytes <= client'[c].bytes
    BY <2>1 DEF Types, ServerTypes, Client
  <2> HIDE DEF f
  <2> QED
    BY <1>0, <2>1, <2>3, <2>4, ChainKept
<1>3. CASE handleLine
  <2>1. PICK f \in [Stat' -> Stat] : /\ \A i, j \in Stat' : i < j => f[i] < f[j]
                                     /\ \A i \in Stat' : Row(i)' = Row(f[i])
    BY <1>3, StatTail
  <2>2. UNCHANGED <<client, connected, fresh>>
    BY <1>3 DEF handleLine, serverVars
  <2>3. \A c \in DOMAIN client' :
          c \in DOMAIN client /\ (client[c].up => client'[c].up) /\ client[c].bytes <= client'[c].bytes
    BY <2>2 DEF Types, ServerTypes, Client
  <2>4. fresh <= fresh'
    BY <2>2 DEF Types, ServerTypes
  <2> QED
    BY <1>0, <2>1, <2>2, <2>3, <2>4, ChainKept
<1>4. CASE TakesStatus
  <2>0. PICK n : n = Len(events) + 1
    OBVIOUS
  <2>1. /\ events' = Append(events, [type |-> "status", rows |-> Rows]) /\ UNCHANGED <<client, lastStatus, fresh, connected>>
    BY <1>4 DEF TakesStatus, TakesFrame, ExtFrame, statVars
  <2>2. events \in Seq(Event)
    BY DEF Types, WireTypes
  <2>3. /\ DOMAIN events = 1..Len(events) /\ Len(events) \in Nat /\ DOMAIN events' = 1..n
        /\ events'[n] = [type |-> "status", rows |-> Rows] /\ \A i \in 1..Len(events) : events'[i] = events[i]
    BY <2>0, <2>1, <2>2
  <2>4. n \in Nat /\ n # 0 /\ \A i : i \in DOMAIN events' <=> i \in DOMAIN events \/ i = n
    BY <2>0, <2>3
  <2>5. \A i \in Stat : i \in Nat /\ i < n
    BY <2>0, <2>3 DEF Stat
  <2>6. /\ Stat' = Stat \cup {n} /\ Row(n)' = Rows /\ n \notin Stat
        /\ \A i \in Stat : Row(i)' = Row(i)
    <3>1. Stat' = Stat \cup {n}
      BY <2>3, <2>4 DEF Stat
    <3>2. Row(n)' = Rows
      BY <2>3, <2>4 DEF Row
    <3>3. \A i \in Stat : Row(i)' = Row(i)
      BY <2>1, <2>3 DEF Row, Stat
    <3>4. n \notin Stat
      BY <2>4, <2>5
    <3> QED
      BY <3>1, <3>2, <3>3, <3>4
  <2>7. DOMAIN Rows = {c \in DOMAIN client : client[c].up} /\ \A c \in DOMAIN Rows : Rows[c].bytes = client[c].bytes
    BY DEF Rows, Up
  <2>8. ASSUME NEW i \in Stat', NEW j \in Stat', i < j, NEW c \in DOMAIN Row(i)'
        PROVE  /\ c \in DOMAIN Row(j)' => Row(i)'[c].bytes <= Row(j)'[c].bytes
               /\ c \in DOMAIN client' => c \in DOMAIN Row(j)'
               /\ \A k \in Stat' : j < k /\ c \in DOMAIN Row(k)' => c \in DOMAIN Row(j)'
    <3>1. i \in Stat /\ Row(i)' = Row(i)
      BY <2>4, <2>5, <2>6, <2>8
    <3>2. CASE j = n
      <4>1. \A k \in Stat' : ~(j < k)
        BY <2>4, <2>5, <2>6, <3>2
      <4>2. c \in DOMAIN client' => client[c].up /\ Row(i)[c].bytes <= client[c].bytes
        BY <2>1, <2>8, <3>1 DEF Chain
      <4> QED
        BY <2>1, <2>6, <2>7, <3>1, <3>2, <4>1, <4>2
    <3>3. CASE j \in Stat
      <4>1. Row(j)' = Row(j)
        BY <2>6, <3>3
      <4>2. \A k \in Stat' : j < k /\ c \in DOMAIN Row(k)' => c \in DOMAIN Row(j)
        <5> SUFFICES ASSUME NEW k \in Stat', j < k, c \in DOMAIN Row(k)' PROVE c \in DOMAIN Row(j)
          OBVIOUS
        <5>1. CASE k = n
          <6>1. c \in DOMAIN client
            BY <2>6, <2>7, <5>1
          <6> QED
            BY <2>8, <3>1, <3>3, <6>1 DEF Chain
        <5>2. CASE k \in Stat
          BY <2>6, <2>8, <3>1, <3>3, <5>2 DEF Chain
        <5> QED
          BY <2>6, <5>1, <5>2
      <4> QED
        BY <2>1, <2>8, <3>1, <3>3, <4>1, <4>2 DEF Chain
    <3> QED
      BY <2>6, <2>8, <3>2, <3>3
  <2>9. ASSUME NEW i \in Stat', NEW c \in DOMAIN Row(i)', c \in DOMAIN client'
        PROVE  client'[c].up /\ Row(i)'[c].bytes <= client'[c].bytes
    <3>1. CASE i = n
      <4>1. c \in DOMAIN Rows /\ Row(i)'[c].bytes = Rows[c].bytes
        BY <2>6, <2>9, <3>1
      <4>2. client[c].up /\ Rows[c].bytes = client[c].bytes /\ c \in DOMAIN client
        BY <2>7, <4>1
      <4>3. client[c].bytes \in Nat
        BY <4>2 DEF Types, ServerTypes, Client
      <4> QED
        BY <2>1, <4>1, <4>2, <4>3
    <3>2. CASE i \in Stat
      BY <2>1, <2>6, <2>9, <3>2 DEF Chain
    <3> QED
      BY <2>6, <2>9, <3>1, <3>2
  <2>10. ASSUME connected', NEW i \in Stat' PROVE DOMAIN Row(i)' \subseteq 0..(fresh' - 1)
    <3>1. CASE i = n
      <4>1. DOMAIN Row(i)' = DOMAIN Rows /\ DOMAIN Rows \subseteq DOMAIN client
        BY <2>6, <2>7, <3>1
      <4>2. DOMAIN client \subseteq 0..(fresh - 1) /\ fresh' = fresh
        BY <2>1 DEF Types, ServerTypes
      <4> QED
        BY <4>1, <4>2
    <3>2. CASE i \in Stat
      BY <2>1, <2>6, <2>10, <3>2 DEF Chain
    <3> QED
      BY <2>6, <2>10, <3>1, <3>2
  <2> QED
    BY <2>8, <2>9, <2>10 DEF Chain
<1>5. CASE ~(connect \/ close \/ handleLine \/ TakesStatus)
  <2>1. Stat' = Stat /\ \A i \in Stat : Row(i)' = Row(i)
    BY <1>5, RowsKept
  <2> DEFINE f == [i \in Stat |-> i]
  <2>2. f \in [Stat' -> Stat] /\ (\A i, j \in Stat' : i < j => f[i] < f[j]) /\ \A i \in Stat' : Row(i)' = Row(f[i])
    BY <2>1
  <2>3. connected' => connected /\ fresh <= fresh'
    <3> SUFFICES ASSUME connected' PROVE connected /\ fresh <= fresh'
      OBVIOUS
    <3>1. connected /\ fresh \in Nat /\ (fresh' = fresh \/ fresh' = fresh + 1)
      BY <1>5, ConnectedStep DEF Types, ServerTypes
    <3> QED
      BY <3>1
  <2>4. ASSUME NEW c \in DOMAIN client', \E i \in Stat' : c \in DOMAIN Row(i)'
        PROVE  c \in DOMAIN client /\ (client[c].up => client'[c].up) /\ client[c].bytes <= client'[c].bytes
    <3>1. PICK i \in Stat : c \in DOMAIN Row(i)
      BY <2>1, <2>4
    <3>2. ~(ClientConnects /\ c = fresh)
      <4> SUFFICES ASSUME ClientConnects, c = fresh PROVE FALSE
        OBVIOUS
      <4>1. connected
        BY DEF ClientConnects
      <4>2. c \in 0..(fresh - 1) /\ fresh \in Nat
        BY <3>1, <4>1 DEF Chain, Types, ServerTypes
      <4> QED
        BY <4>2
    <3>3. /\ c \in DOMAIN client /\ (client[c].up => client'[c].up)
          /\ client'[c].bytes = client[c].bytes \/ client'[c].bytes = client[c].bytes + 1
      BY <3>2, ClientStep
    <3>4. client[c].bytes \in Nat
      BY <3>3 DEF Types, ServerTypes, Client
    <3> QED
      BY <3>3, <3>4
  <2> HIDE DEF f
  <2> QED
    BY <1>0, <2>2, <2>3, <2>4, ChainKept
<1> QED
  BY <1>1, <1>2, <1>3, <1>4, <1>5

-----------------------------------------------------------------------------
(* The ledger: what each client id may still be charged for.               *)

\* What the next poll takes as charged already.
Paid(c) ==
    IF c \in DOMAIN lastStatus /\ c \in DOMAIN sessionSeen /\ lastStatus[c].bytes >= sessionSeen[c]
    THEN sessionSeen[c] ELSE 0

\* The accounts of a name.
Accounts(own, T, cn) == {c \in T : own[c] = cn}

\* Accounts T with their owners and what is due of them.
LedgerTypes(T, own, due) ==
    T \in SUBSET Nat /\ IsFiniteSet(T) /\ own \in [T -> CN] /\ due \in [T -> Nat]

\* The ledger has an account for every client and every row, with enough due for it.
Covers(T, own, due) ==
    /\ connected => T \subseteq 0..(fresh - 1)
    /\ \A c \in DOMAIN client : c \in T /\ own[c] = client[c].cn /\ client[c].bytes <= due[c] + Paid(c)
    /\ \A i \in Stat : \A c \in DOMAIN Row(i) :
            c \in T /\ own[c] = Row(i)[c].cn /\ Row(i)[c].bytes <= due[c] + Paid(c)

\* What was charged and what is due was carried.
Balances(T, own, due) == \A cn \in CN : counted[cn] + Sum(due, Accounts(own, T, cn)) <= carried[cn]

\* There is a ledger that covers everything and balances.
Ledger == \E T, own, due : LedgerTypes(T, own, due) /\ Covers(T, own, due) /\ Balances(T, own, due)

\* What was charged of a client is a number.
LEMMA PaidNat ==
    ASSUME Types, NEW c
    PROVE  Paid(c) \in Nat
BY DEF Paid, Types, StatTypes

\* A name's accounts, and what is due on them.
LEMMA AccountsIs ==
    ASSUME NEW T, NEW own, NEW due, LedgerTypes(T, own, due), NEW cn
    PROVE  LET S == Accounts(own, T, cn)
           IN  IsFiniteSet(S) /\ S \in SUBSET T /\ (\A c \in S : due[c] \in Nat) /\ Sum(due, S) \in Nat
<1> DEFINE S == Accounts(own, T, cn)
<1>1. S \in SUBSET T /\ IsFiniteSet(T) /\ due \in [T -> Nat]
  BY DEF Accounts, LedgerTypes
<1> HIDE DEF S
<1>2. IsFiniteSet(S) /\ \A c \in S : due[c] \in Nat
  BY <1>1, FS_Subset
<1>3. Sum(due, S) \in Nat
  BY <1>2, SumNat
<1> QED
  BY <1>1, <1>2, <1>3 DEF S

\* Clients and rows that are still the same, on accounts that have paid no less.
LEMMA CoversKept ==
    ASSUME NEW T, NEW own, NEW due, LedgerTypes(T, own, due), Covers(T, own, due), Types, Types',
           connected' => connected /\ fresh <= fresh',
           \A c \in DOMAIN client' :
                /\ c \in DOMAIN client /\ client'[c].cn = client[c].cn /\ client'[c].bytes = client[c].bytes
                /\ Paid(c) <= Paid(c)',
           \A i \in Stat' : \A c \in DOMAIN Row(i)' :
                /\ Paid(c) <= Paid(c)'
                /\ \/ \E j \in Stat : c \in DOMAIN Row(j) /\ Row(i)'[c] = Row(j)[c]
                   \/ c \in DOMAIN client /\ Row(i)'[c].cn = client[c].cn /\ Row(i)'[c].bytes = client[c].bytes
    PROVE  Covers(T, own, due)'
<1>1. connected' => T \subseteq 0..(fresh' - 1)
  <2> SUFFICES ASSUME connected' PROVE T \subseteq 0..(fresh' - 1)
    OBVIOUS
  <2>1. T \subseteq 0..(fresh - 1) /\ fresh <= fresh' /\ fresh \in Nat /\ fresh' \in Nat
    BY DEF Covers, Types, ServerTypes
  <2> QED
    BY <2>1
<1>2. \A c \in T : due[c] \in Nat
  BY DEF LedgerTypes
<1>3. \A c : Paid(c) \in Nat /\ Paid(c)' \in Nat
  <2>1. \A c : Paid(c)' \in Nat
    BY DEF Paid, Types, StatTypes
  <2> QED
    BY <2>1, PaidNat
<1>4. ASSUME NEW c \in T, NEW b \in Nat, b <= due[c] + Paid(c), Paid(c) <= Paid(c)' PROVE b <= due[c] + Paid(c)'
  BY <1>2, <1>3, <1>4
<1>5. ASSUME NEW c \in DOMAIN client'
      PROVE  c \in T /\ own[c] = client'[c].cn /\ client'[c].bytes <= due[c] + Paid(c)'
  <2>1. c \in T /\ own[c] = client[c].cn /\ client[c].bytes <= due[c] + Paid(c) /\ client[c].bytes \in Nat
    BY <1>5 DEF Covers, Types, ServerTypes, Client
  <2> QED
    BY <1>4, <1>5, <2>1
<1>6. ASSUME NEW i \in Stat', NEW c \in DOMAIN Row(i)'
      PROVE  c \in T /\ own[c] = Row(i)'[c].cn /\ Row(i)'[c].bytes <= due[c] + Paid(c)'
  <2>1. CASE \E j \in Stat : c \in DOMAIN Row(j) /\ Row(i)'[c] = Row(j)[c]
    <3>1. PICK j \in Stat : c \in DOMAIN Row(j) /\ Row(i)'[c] = Row(j)[c]
      BY <2>1
    <3>2. c \in T /\ own[c] = Row(j)[c].cn /\ Row(j)[c].bytes <= due[c] + Paid(c) /\ Row(j)[c].bytes \in Nat
      BY <3>1, RowTypes DEF Covers
    <3> QED
      BY <1>4, <1>6, <3>1, <3>2
  <2>2. CASE c \in DOMAIN client /\ Row(i)'[c].cn = client[c].cn /\ Row(i)'[c].bytes = client[c].bytes
    <3>1. c \in T /\ own[c] = client[c].cn /\ client[c].bytes <= due[c] + Paid(c) /\ client[c].bytes \in Nat
      BY <2>2 DEF Covers, Types, ServerTypes, Client
    <3> QED
      BY <1>4, <1>6, <2>2, <3>1
  <2> QED
    BY <1>6, <2>1, <2>2
<1> QED
  BY <1>1, <1>5, <1>6 DEF Covers

\* Only a poll charges, and only traffic is carried.
LEMMA ChargeStep ==
    ASSUME Next
    PROVE  /\ ~collectStats => UNCHANGED <<counted, sessionSeen>>
           /\ ~Traffic => UNCHANGED carried
           /\ ~(connect \/ handleLine) => UNCHANGED lastStatus
<1>1. ~collectStats => UNCHANGED <<counted, sessionSeen>>
  BY OverConnectionIs DEF Next, OverConnection, applyUsers, SyncUsers, UpdateUsersAndRestart, Restart, Shutdown,
     applyUser, enforceDeviceLimit, ApiFrame, kill, stopProcess, startProcess, connect, close, Crash,
     handleLine, finishConnect, lateLine, requestStatus, statVars
<1>2. ~Traffic => UNCHANGED carried
  BY DEF Next, applyUsers, SyncUsers, UpdateUsersAndRestart, Restart, Shutdown, applyUser, enforceDeviceLimit,
     ApiFrame, kill, stopProcess, Ends, startProcess, connect, close, Crash, ClientConnects, ClientRenews, ClientLeaves,
     TakesAuth, TakesKill, TakesStatus, TakesFrame, handleLine, finishConnect, lateLine, requestStatus, collectStats,
     serverVars
<1>3. ~(connect \/ handleLine) => UNCHANGED lastStatus
  BY OverConnectionIs DEF Next, OverConnection, applyUsers, SyncUsers, UpdateUsersAndRestart, Restart, Shutdown,
     applyUser, enforceDeviceLimit, ApiFrame, kill, stopProcess, startProcess, close, Crash,
     finishConnect, lateLine, requestStatus, collectStats, statVars
<1> QED
  BY <1>1, <1>2, <1>3

\* Nothing is carried or charged: the accounts stay as they are.
LEMMA LedgerKept ==
    ASSUME Types, Wires, Chain, Next, ~(connect \/ Traffic \/ ClientConnects \/ collectStats),
           NEW T, NEW own, NEW due, LedgerTypes(T, own, due), Covers(T, own, due), Balances(T, own, due)
    PROVE  Ledger'
<1>1. Types'
  BY TypesStep
<1>2. UNCHANGED <<counted, sessionSeen, carried>>
  BY ChargeStep
<1>3. Balances(T, own, due)'
  BY <1>2 DEF Balances
<1>4. connected' => connected /\ fresh <= fresh'
  <2> SUFFICES ASSUME connected' PROVE connected /\ fresh <= fresh'
    OBVIOUS
  <2>1. connected /\ fresh \in Nat /\ fresh' = fresh
    BY ConnectedStep DEF Types, ServerTypes
  <2> QED
    BY <2>1
<1>5. \A c \in DOMAIN client' : c \in DOMAIN client /\ client'[c].cn = client[c].cn /\ client'[c].bytes = client[c].bytes
  BY ClientStep
<1>6. CASE handleLine
  <2>1. PICK f \in [Stat' -> Stat] :
            /\ \A i, j \in Stat' : i < j => f[i] < f[j]
            /\ \A i \in Stat' : Row(i)' = Row(f[i])
            /\ Head(events).type # "status" => f[0] = 0
            /\ Head(events).type = "status" => \A i \in Stat' : 0 < f[i]
    BY <1>6, StatTail
  <2>2. 0 \in Stat' /\ 0 \in Stat /\ Row(0) = lastStatus /\ Row(0)' = lastStatus' /\ UNCHANGED client
    BY <1>6 DEF Stat, Row, handleLine, serverVars
  <2>3. CASE Head(events).type # "status"
    <3>1. lastStatus' = lastStatus
      BY <2>1, <2>2, <2>3
    <3>2. \A c : Paid(c)' = Paid(c) /\ Paid(c) \in Nat
      BY <1>2, <3>1, PaidNat DEF Paid
    <3>3. \A c : Paid(c) <= Paid(c)'
      BY <3>2
    <3>4. Covers(T, own, due)'
      BY <1>1, <1>4, <1>5, <2>1, <3>3, CoversKept
    <3> QED
      BY <1>3, <3>4 DEF Ledger
  <2>4. CASE Head(events).type = "status"
    <3>1. f[0] \in Stat /\ 0 < f[0] /\ lastStatus' = Row(f[0])
      BY <2>1, <2>2, <2>4
    <3>2. ASSUME NEW c, c \in DOMAIN lastStatus => c \in DOMAIN lastStatus' PROVE Paid(c) <= Paid(c)'
      <4>1. Paid(c) \in Nat /\ Paid(c)' \in Nat
        <5>1. Paid(c)' \in Nat
          BY <1>1 DEF Paid, Types, StatTypes
        <5> QED
          BY <5>1, PaidNat
      <4>2. CASE c \in DOMAIN lastStatus /\ c \in DOMAIN sessionSeen /\ lastStatus[c].bytes >= sessionSeen[c]
        <5>1. lastStatus[c].bytes <= lastStatus'[c].bytes
          BY <2>2, <3>1, <3>2, <4>2 DEF Chain
        <5>2. lastStatus[c].bytes \in Nat /\ lastStatus'[c].bytes \in Nat /\ sessionSeen[c] \in Nat
          <6>1. lastStatus[c].bytes \in Nat /\ sessionSeen[c] \in Nat
            BY <2>2, <4>2, RowTypes DEF Types, StatTypes
          <6>2. lastStatus'[c].bytes \in Nat
            BY <3>1, <3>2, <4>2, RowTypes
          <6> QED
            BY <6>1, <6>2
        <5>3. lastStatus'[c].bytes >= sessionSeen'[c] /\ c \in DOMAIN lastStatus' /\ c \in DOMAIN sessionSeen'
          BY <1>2, <3>2, <4>2, <5>1, <5>2
        <5>4. Paid(c)' = sessionSeen[c] /\ Paid(c) = sessionSeen[c]
          BY <1>2, <4>2, <5>3 DEF Paid
        <5> QED
          BY <4>1, <5>4
      <4>3. CASE ~(c \in DOMAIN lastStatus /\ c \in DOMAIN sessionSeen /\ lastStatus[c].bytes >= sessionSeen[c])
        <5>1. Paid(c) = 0
          BY <4>3 DEF Paid
        <5> QED
          BY <4>1, <5>1
      <4> QED
        BY <4>2, <4>3
    <3>3. ASSUME NEW c \in DOMAIN client', c \in DOMAIN lastStatus PROVE c \in DOMAIN lastStatus'
      BY <2>2, <3>1, <3>3 DEF Chain
    <3>4. ASSUME NEW i \in Stat', NEW c \in DOMAIN Row(i)', c \in DOMAIN lastStatus PROVE c \in DOMAIN lastStatus'
      <4>1. CASE i = 0
        BY <2>2, <3>4, <4>1
      <4>2. CASE i # 0
        <5>1. 0 < i /\ f[i] \in Stat /\ Row(i)' = Row(f[i]) /\ c \in DOMAIN Row(f[i])
          <6>1. events' \in Seq(Event)
            BY <1>1 DEF Types, WireTypes
          <6>2. DOMAIN events' = 1..Len(events') /\ Len(events') \in Nat
            BY <6>1
          <6>3. i \in Nat
            BY <3>4, <6>2 DEF Stat
          <6> QED
            BY <2>1, <3>4, <4>2, <6>3
        <5>2. f[0] < f[i]
          BY <2>1, <2>2, <5>1
        <5> QED
          BY <2>2, <3>1, <3>4, <5>1, <5>2 DEF Chain
      <4> QED
        BY <4>1, <4>2
    <3>5. \A c \in DOMAIN client' : Paid(c) <= Paid(c)'
      BY <3>2, <3>3
    <3>6. \A i \in Stat' : \A c \in DOMAIN Row(i)' :
              Paid(c) <= Paid(c)' /\ \E j \in Stat : c \in DOMAIN Row(j) /\ Row(i)'[c] = Row(j)[c]
      BY <2>1, <3>2, <3>4
    <3>7. Covers(T, own, due)'
      BY <1>1, <1>4, <1>5, <3>5, <3>6, CoversKept
    <3> QED
      BY <1>3, <3>7 DEF Ledger
  <2> QED
    BY <2>3, <2>4
<1>7. CASE ~handleLine
  <2>1. UNCHANGED lastStatus
    BY <1>7, ChargeStep
  <2>2. \A c : Paid(c)' = Paid(c) /\ Paid(c) \in Nat
    BY <1>2, <2>1, PaidNat DEF Paid
  <2>3. \A c : Paid(c) <= Paid(c)'
    BY <2>2
  <2>4. ASSUME NEW i \in Stat', NEW c \in DOMAIN Row(i)'
        PROVE  \/ \E j \in Stat : c \in DOMAIN Row(j) /\ Row(i)'[c] = Row(j)[c]
               \/ c \in DOMAIN client /\ Row(i)'[c].cn = client[c].cn /\ Row(i)'[c].bytes = client[c].bytes
    <3>1. CASE close
      <4>1. events' = <<>>
        BY <3>1 DEF close
      <4>2. i = 0 /\ 0 \in Stat /\ Row(i)' = Row(0)
        BY <2>1, <4>1 DEF Stat, Row
      <4> QED
        BY <4>2
    <3>2. CASE TakesStatus
      <4>1. events' = Append(events, [type |-> "status", rows |-> Rows]) /\ events \in Seq(Event)
        BY <3>2 DEF TakesStatus, Types, WireTypes
      <4>2. /\ DOMAIN events = 1..Len(events) /\ Len(events) \in Nat /\ DOMAIN events' = 1..(Len(events) + 1)
            /\ events'[Len(events) + 1] = [type |-> "status", rows |-> Rows]
            /\ \A j \in 1..Len(events) : events'[j] = events[j]
        BY <4>1
      <4>3. CASE i = 0 \/ i \in DOMAIN events
        <5>1. i \in Stat /\ Row(i)' = Row(i)
          BY <2>1, <4>2, <4>3 DEF Stat, Row
        <5> QED
          BY <5>1
      <4>4. CASE i = Len(events) + 1
        <5>1. Row(i)' = Rows
          BY <4>2, <4>4 DEF Row
        <5>2. c \in DOMAIN client /\ Rows[c].cn = client[c].cn /\ Rows[c].bytes = client[c].bytes
          BY <2>4, <5>1 DEF Rows
        <5> QED
          BY <5>1, <5>2
      <4>5. i = 0 \/ i \in DOMAIN events \/ i = Len(events) + 1
        BY <4>2 DEF Stat
      <4> QED
        BY <4>3, <4>4, <4>5
    <3>3. CASE ~(close \/ TakesStatus)
      BY <1>7, <3>3, RowsKept
    <3> QED
      BY <3>1, <3>2, <3>3
  <2>5. Covers(T, own, due)'
    BY <1>1, <1>4, <1>5, <2>3, <2>4, CoversKept
  <2> QED
    BY <1>3, <2>5 DEF Ledger
<1> QED
  BY <1>6, <1>7

\* A new connection opens a new ledger: there is nobody yet who could be charged for.
LEMMA LedgerOpened ==
    ASSUME Types, Wires, Ledger, connect
    PROVE  Ledger'
<1>1. PICK T, own, due : LedgerTypes(T, own, due) /\ Balances(T, own, due)
  BY DEF Ledger
<1>2. /\ events' = <<>> /\ lastStatus' = Nothing /\ DOMAIN client' = {} /\ UNCHANGED <<counted, carried>>
  BY ConnectIs DEF connect, serverVars
<1>3. PICK S, o, d : S = {} /\ o = [x \in {} |-> 0] /\ d = [x \in {} |-> 0]
  OBVIOUS
<1>4. LedgerTypes(S, o, d)
  BY <1>3, FS_EmptySet DEF LedgerTypes
<1>5. Covers(S, o, d)'
  <2>1. Stat' = {0} /\ DOMAIN Row(0)' = {}
    BY <1>2 DEF Stat, Row, Nothing
  <2> QED
    BY <1>2, <1>3, <2>1 DEF Covers
<1>6. Balances(S, o, d)'
  <2> SUFFICES ASSUME NEW cn \in CN PROVE counted'[cn] + Sum(d, Accounts(o, S, cn)) <= carried'[cn]
    BY DEF Balances
  <2>1. Accounts(o, S, cn) = {} /\ Sum(d, {}) = 0
    BY <1>3, SumEmpty DEF Accounts
  <2>2. Sum(due, Accounts(own, T, cn)) \in Nat
    BY <1>1, AccountsIs
  <2>3. counted[cn] \in Nat /\ carried[cn] \in Nat /\ counted[cn] + Sum(due, Accounts(own, T, cn)) <= carried[cn]
    BY <1>1 DEF Balances, Types, StatTypes, ServerTypes
  <2> QED
    BY <1>2, <2>1, <2>2, <2>3
<1> QED
  BY <1>4, <1>5, <1>6 DEF Ledger

\* A client that comes gets an account with nothing due.
LEMMA LedgerExtended ==
    ASSUME Types, Wires, Next, ClientConnects,
           NEW T, NEW own, NEW due, LedgerTypes(T, own, due), Covers(T, own, due), Balances(T, own, due)
    PROVE  Ledger'
<1>1. PICK l \in Login : /\ client' = Put(client, fresh, [cn |-> l.cn, login |-> l, up |-> FALSE, bytes |-> 0])
                        /\ events' = Append(events, Asks(fresh, l))
  BY DEF ClientConnects
<1>2. connected /\ fresh' = fresh + 1 /\ fresh \in Nat /\ UNCHANGED <<counted, carried, sessionSeen, lastStatus>>
  BY DEF ClientConnects, ExtFrame, statVars, Types, ServerTypes
<1>3. PICK z, n : z = fresh /\ n = l.cn /\ z \in Nat
  BY <1>2
<1>4. n \in CN /\ z \notin T /\ T \subseteq 0..(z - 1)
  BY <1>2, <1>3, OpenVPNAssumption DEF Covers
<1>5. PICK S, o, d : /\ S = T \cup {z} /\ o = [c \in S |-> IF c = z THEN n ELSE own[c]]
                     /\ d = [c \in S |-> IF c = z THEN 0 ELSE due[c]]
  OBVIOUS
<1>6. T \in SUBSET Nat /\ IsFiniteSet(T) /\ own \in [T -> CN] /\ due \in [T -> Nat]
  BY DEF LedgerTypes
<1>7. IsFiniteSet(S) /\ S \in SUBSET Nat
  BY <1>3, <1>5, <1>6, FS_AddElement
<1>8. LedgerTypes(S, o, d)
  BY <1>4, <1>5, <1>6, <1>7 DEF LedgerTypes
<1>9. o[z] = n /\ d[z] = 0 /\ z \in S /\ \A c \in T : c \in S /\ o[c] = own[c] /\ d[c] = due[c]
  BY <1>4, <1>5
<1>10. \A c : Paid(c)' = Paid(c)
  BY <1>2 DEF Paid
<1>11. Stat' = Stat /\ \A i \in Stat : Row(i)' = Row(i)
  <2>1. Asks(fresh, l) \in Event /\ Asks(fresh, l).type # "status"
    BY DEF Asks, Event, Types, ServerTypes
  <2> QED
    BY <1>1, <2>1, StatAppend DEF ClientConnects, ExtFrame, statVars
<1>12. Covers(S, o, d)'
  <2>1. S \subseteq 0..(fresh' - 1)
    BY <1>2, <1>3, <1>4, <1>5
  <2>2. ASSUME NEW c \in DOMAIN client'
        PROVE  c \in S /\ o[c] = client'[c].cn /\ client'[c].bytes <= d[c] + Paid(c)'
    <3>1. CASE c = z
      <4>1. client'[c].cn = n /\ client'[c].bytes = 0 /\ Paid(c)' = Paid(c) /\ Paid(c) \in Nat
        BY <1>1, <1>3, <1>10, <3>1, PaidNat DEF Put
      <4> QED
        BY <1>9, <3>1, <4>1
    <3>2. CASE c # z
      <4>1. c \in DOMAIN client /\ client'[c] = client[c]
        BY <1>1, <1>3, <2>2, <3>2 DEF Put
      <4>2. c \in T /\ own[c] = client[c].cn /\ client[c].bytes <= due[c] + Paid(c)
        BY <4>1 DEF Covers
      <4> QED
        BY <1>9, <1>10, <4>1, <4>2
    <3> QED
      BY <3>1, <3>2
  <2>3. ASSUME NEW i \in Stat', NEW c \in DOMAIN Row(i)'
        PROVE  c \in S /\ o[c] = Row(i)'[c].cn /\ Row(i)'[c].bytes <= d[c] + Paid(c)'
    <3>1. i \in Stat /\ Row(i)' = Row(i)
      BY <1>11, <2>3
    <3>2. c \in T /\ own[c] = Row(i)[c].cn /\ Row(i)[c].bytes <= due[c] + Paid(c)
      BY <2>3, <3>1 DEF Covers
    <3> QED
      BY <1>9, <1>10, <3>1, <3>2
  <2> QED
    BY <2>1, <2>2, <2>3 DEF Covers
<1>13. Balances(S, o, d)'
  <2> SUFFICES ASSUME NEW cn \in CN PROVE counted'[cn] + Sum(d, Accounts(o, S, cn)) <= carried'[cn]
    BY DEF Balances
  <2>1. PICK A, B : A = Accounts(own, T, cn) /\ B = Accounts(o, S, cn)
    OBVIOUS
  <2>2. /\ IsFiniteSet(A) /\ A \in SUBSET T /\ (\A c \in A : due[c] \in Nat) /\ Sum(due, A) \in Nat
    BY <2>1, AccountsIs
  <2>3. \A c \in A : due[c] \in Nat /\ d[c] = due[c]
    BY <1>9, <2>2
  <2>4. Sum(d, A) = Sum(due, A)
    BY <2>2, <2>3, SumSame
  <2>5. Sum(d, B) = Sum(due, A)
    <3>1. CASE cn = n
      <4>1. B = A \cup {z} /\ z \notin A
        BY <1>4, <1>5, <1>9, <2>1, <3>1 DEF Accounts
      <4>2. \A c \in A \cup {z} : d[c] \in Nat
        BY <1>9, <2>3
      <4>3. Sum(d, A \cup {z}) = d[z] + Sum(d, A)
        BY <2>2, <4>1, <4>2, SumAdd
      <4> QED
        BY <1>9, <2>2, <2>4, <4>1, <4>3
    <3>2. CASE cn # n
      <4>1. B = A
        BY <1>4, <1>5, <1>9, <2>1, <3>2 DEF Accounts
      <4> QED
        BY <2>4, <4>1
    <3> QED
      BY <3>1, <3>2
  <2> QED
    BY <1>2, <2>1, <2>5 DEF Balances
<1> QED
  BY <1>8, <1>12, <1>13 DEF Ledger

\* What a client carries is due on its account.
LEMMA LedgerCarries ==
    ASSUME Types, Wires, Next, Traffic,
           NEW T, NEW own, NEW due, LedgerTypes(T, own, due), Covers(T, own, due), Balances(T, own, due)
    PROVE  Ledger'
<1>1. PICK z \in DOMAIN client : /\ client' = [client EXCEPT ![z].bytes = @ + 1]
                                 /\ carried' = [carried EXCEPT ![client[z].cn] = @ + 1]
  BY DEF Traffic
<1>2. connected /\ UNCHANGED <<connected, fresh, counted, sessionSeen, lastStatus>>
  BY DEF Traffic, ExtFrame, statVars, connVars
<1>3. z \in T /\ own[z] = client[z].cn /\ client[z].bytes <= due[z] + Paid(z) /\ client[z] \in Client
  BY DEF Covers, Types, ServerTypes
<1>4. PICK d : d = [due EXCEPT ![z] = @ + 1]
  OBVIOUS
<1>5. T \in SUBSET Nat /\ IsFiniteSet(T) /\ own \in [T -> CN] /\ due \in [T -> Nat]
  BY DEF LedgerTypes
<1>6. /\ d \in [T -> Nat] /\ d[z] = due[z] + 1 /\ \A c \in T : c # z => d[c] = due[c]
  BY <1>3, <1>4, <1>5
<1>7. LedgerTypes(T, own, d)
  BY <1>5, <1>6 DEF LedgerTypes
<1>8. \A c : Paid(c)' = Paid(c) /\ Paid(c) \in Nat
  BY <1>2, PaidNat DEF Paid
<1>9. Stat' = Stat /\ \A i \in Stat : Row(i)' = Row(i)
  BY StatSame DEF Traffic, connVars, ExtFrame, statVars
<1>10. ASSUME NEW c \in T, NEW b \in Nat, b <= due[c] + Paid(c) PROVE b <= d[c] + Paid(c)'
  <2>1. due[c] \in Nat /\ (d[c] = due[c] \/ d[c] = due[c] + 1)
    BY <1>5, <1>6, <1>10
  <2> QED
    BY <1>8, <1>10, <2>1
<1>11. Covers(T, own, d)'
  <2>1. T \subseteq 0..(fresh' - 1)
    BY <1>2 DEF Covers
  <2>2. ASSUME NEW c \in DOMAIN client'
        PROVE  c \in T /\ own[c] = client'[c].cn /\ client'[c].bytes <= d[c] + Paid(c)'
    <3>1. c \in DOMAIN client /\ client[c] \in Client /\ client'[c].cn = client[c].cn
      BY <1>1, <2>2 DEF Types, ServerTypes, Client
    <3>2. c \in T /\ own[c] = client[c].cn /\ client[c].bytes <= due[c] + Paid(c) /\ client[c].bytes \in Nat
      BY <3>1 DEF Covers, Client
    <3>3. CASE c = z
      <4>1. client'[c].bytes = client[c].bytes + 1 /\ due[z] \in Nat
        BY <1>1, <1>3, <1>5, <3>1, <3>3 DEF Client
      <4> QED
        BY <1>6, <1>8, <3>1, <3>2, <3>3, <4>1
    <3>4. CASE c # z
      <4>1. client'[c] = client[c]
        BY <1>1, <3>1, <3>4
      <4> QED
        BY <1>10, <3>1, <3>2, <4>1
    <3> QED
      BY <3>3, <3>4
  <2>3. ASSUME NEW i \in Stat', NEW c \in DOMAIN Row(i)'
        PROVE  c \in T /\ own[c] = Row(i)'[c].cn /\ Row(i)'[c].bytes <= d[c] + Paid(c)'
    <3>1. i \in Stat /\ Row(i)' = Row(i)
      BY <1>9, <2>3
    <3>2. c \in T /\ own[c] = Row(i)[c].cn /\ Row(i)[c].bytes <= due[c] + Paid(c) /\ Row(i)[c].bytes \in Nat
      BY <2>3, <3>1, RowTypes DEF Covers
    <3> QED
      BY <1>10, <3>1, <3>2
  <2> QED
    BY <2>1, <2>2, <2>3 DEF Covers
<1>12. Balances(T, own, d)'
  <2> SUFFICES ASSUME NEW cn \in CN PROVE counted'[cn] + Sum(d, Accounts(own, T, cn)) <= carried'[cn]
    BY DEF Balances
  <2>1. PICK A : A = Accounts(own, T, cn)
    OBVIOUS
  <2>2. IsFiniteSet(A) /\ A \in SUBSET T /\ (\A c \in A : due[c] \in Nat) /\ Sum(due, A) \in Nat
    BY <2>1, AccountsIs
  <2>3. counted[cn] + Sum(due, A) <= carried[cn] /\ counted[cn] \in Nat /\ carried[cn] \in Nat
    BY <2>1 DEF Balances, Types, StatTypes, ServerTypes
  <2>4. CASE cn = client[z].cn
    <3>1. carried'[cn] = carried[cn] + 1
      BY <1>1, <2>4 DEF Types, ServerTypes
    <3>2. z \in A
      BY <1>3, <2>1, <2>4 DEF Accounts
    <3>3. Sum(due, A) = due[z] + Sum(due, A \ {z})
      BY <2>2, <3>2, SumElement
    <3>4. \A c \in A : d[c] \in Nat
      BY <1>6, <2>2
    <3>5. Sum(d, A) = d[z] + Sum(d, A \ {z})
      BY <2>2, <3>2, <3>4, SumElement
    <3>6. IsFiniteSet(A \ {z}) /\ \A c \in A \ {z} : due[c] \in Nat /\ d[c] = due[c]
      BY <1>6, <2>2, FS_Subset
    <3>7. Sum(d, A \ {z}) = Sum(due, A \ {z})
      BY <3>6, SumSame
    <3>8. Sum(due, A \ {z}) \in Nat /\ due[z] \in Nat
      BY <2>2, <3>2, SumNat
    <3> QED
      BY <1>2, <1>6, <2>1, <2>2, <2>3, <3>1, <3>3, <3>5, <3>7, <3>8
  <2>5. CASE cn # client[z].cn
    <3>1. carried'[cn] = carried[cn]
      BY <1>1, <2>5 DEF Types, ServerTypes
    <3>2. z \notin A
      BY <1>3, <2>1, <2>5 DEF Accounts
    <3>3. \A c \in A : due[c] \in Nat /\ d[c] = due[c]
      BY <1>6, <2>2, <3>2
    <3>4. Sum(d, A) = Sum(due, A)
      BY <2>2, <3>3, SumSame
    <3> QED
      BY <1>2, <2>1, <2>3, <3>1, <3>4
  <2> QED
    BY <2>4, <2>5
<1> QED
  BY <1>7, <1>11, <1>12 DEF Ledger

\* A poll charges what the rows grew by, and that was due.
LEMMA LedgerCharges ==
    ASSUME Types, Wires, Next, collectStats,
           NEW T, NEW own, NEW due, LedgerTypes(T, own, due), Covers(T, own, due), Balances(T, own, due)
    PROVE  Ledger'
<1>1. /\ counted' = [cn \in CN |-> counted[cn] + Grown(sessionSeen, cn)]
      /\ sessionSeen' = [c \in DOMAIN lastStatus |-> lastStatus[c].bytes]
      /\ UNCHANGED <<client, fresh, carried, connected, events, lastStatus>>
  BY DEF collectStats, serverVars, connVars
<1>2. Stat' = Stat /\ (\A i \in Stat : Row(i)' = Row(i)) /\ 0 \in Stat /\ Row(0) = lastStatus
  BY <1>1, StatSame DEF Stat, Row
<1>3. PICK L, g : L = DOMAIN lastStatus /\ g = [c \in L |-> Growth(sessionSeen, c)]
  OBVIOUS
<1>4. StatTypes /\ \A c \in L : g[c] = Growth(sessionSeen, c) /\ g[c] \in Nat /\ lastStatus[c].bytes \in Nat
  BY <1>2, <1>3, GrowthNat, RowTypes DEF Types
<1>5. T \in SUBSET Nat /\ IsFiniteSet(T) /\ own \in [T -> CN] /\ due \in [T -> Nat]
  BY DEF LedgerTypes
<1>6. ASSUME NEW c \in L PROVE g[c] + Paid(c) = lastStatus[c].bytes /\ Paid(c)' = lastStatus[c].bytes
  <2>1. c \in DOMAIN lastStatus /\ c \in DOMAIN sessionSeen' /\ sessionSeen'[c] = lastStatus[c].bytes
    BY <1>1, <1>3, <1>6
  <2>2. Paid(c)' = lastStatus[c].bytes
    BY <1>1, <1>4, <1>6, <2>1 DEF Paid
  <2>3. CASE c \in DOMAIN sessionSeen /\ lastStatus[c].bytes >= sessionSeen[c]
    <3>1. sessionSeen[c] \in Nat /\ Paid(c) = sessionSeen[c] /\ g[c] = lastStatus[c].bytes - sessionSeen[c]
      BY <1>4, <1>6, <2>1, <2>3 DEF Paid, Growth, StatTypes
    <3> QED
      BY <1>4, <1>6, <2>2, <3>1
  <2>4. CASE ~(c \in DOMAIN sessionSeen /\ lastStatus[c].bytes >= sessionSeen[c])
    <3>1. Paid(c) = 0 /\ g[c] = lastStatus[c].bytes
      BY <1>4, <1>6, <2>1, <2>4 DEF Paid, Growth
    <3> QED
      BY <1>4, <1>6, <2>2, <3>1
  <2> QED
    BY <2>3, <2>4
<1>7. \A c : c \notin L => Paid(c)' = 0 /\ Paid(c) = 0
  BY <1>1, <1>3 DEF Paid
<1>8. ASSUME NEW c \in L PROVE c \in T /\ own[c] = lastStatus[c].cn /\ due[c] \in Nat /\ g[c] <= due[c]
  <2>1. c \in T /\ own[c] = lastStatus[c].cn /\ lastStatus[c].bytes <= due[c] + Paid(c)
    BY <1>2, <1>3, <1>8 DEF Covers
  <2>2. due[c] \in Nat /\ Paid(c) \in Nat /\ g[c] \in Nat /\ g[c] + Paid(c) = lastStatus[c].bytes
    BY <1>4, <1>5, <1>6, <1>8, <2>1, PaidNat
  <2> QED
    BY <2>1, <2>2
<1>9. PICK d : d = [c \in T |-> IF c \in L THEN due[c] - g[c] ELSE due[c]]
  OBVIOUS
<1>10. \A c \in T : due[c] \in Nat /\ d[c] = IF c \in L THEN due[c] - g[c] ELSE due[c]
  BY <1>5, <1>9
<1>11. \A c \in T : d[c] \in Nat
  BY <1>4, <1>8, <1>10
<1>12. LedgerTypes(T, own, d)
  BY <1>5, <1>9, <1>11 DEF LedgerTypes
<1>13. ASSUME NEW c \in T PROVE d[c] + Paid(c)' = due[c] + Paid(c)
  <2>1. CASE c \in L
    <3>1. /\ due[c] \in Nat /\ g[c] \in Nat /\ Paid(c) \in Nat /\ d[c] = due[c] - g[c]
          /\ Paid(c)' = g[c] + Paid(c)
      BY <1>4, <1>6, <1>10, <1>13, <2>1, PaidNat
    <3> QED
      BY <3>1
  <2>2. CASE c \notin L
    BY <1>7, <1>10, <1>13, <2>2
  <2> QED
    BY <2>1, <2>2
<1>14. Covers(T, own, d)'
  <2>1. connected' => T \subseteq 0..(fresh' - 1)
    BY <1>1 DEF Covers
  <2>2. ASSUME NEW c \in DOMAIN client'
        PROVE  c \in T /\ own[c] = client'[c].cn /\ client'[c].bytes <= d[c] + Paid(c)'
    <3>1. c \in T /\ own[c] = client[c].cn /\ client[c].bytes <= due[c] + Paid(c)
      BY <1>1, <2>2 DEF Covers
    <3> QED
      BY <1>1, <1>13, <3>1
  <2>3. ASSUME NEW i \in Stat', NEW c \in DOMAIN Row(i)'
        PROVE  c \in T /\ own[c] = Row(i)'[c].cn /\ Row(i)'[c].bytes <= d[c] + Paid(c)'
    <3>1. i \in Stat /\ Row(i)' = Row(i)
      BY <1>2, <2>3
    <3>2. c \in T /\ own[c] = Row(i)[c].cn /\ Row(i)[c].bytes <= due[c] + Paid(c)
      BY <2>3, <3>1 DEF Covers
    <3> QED
      BY <1>13, <3>1, <3>2
  <2> QED
    BY <2>1, <2>2, <2>3 DEF Covers
<1>15. Balances(T, own, d)'
  <2> SUFFICES ASSUME NEW cn \in CN PROVE counted'[cn] + Sum(d, Accounts(own, T, cn)) <= carried'[cn]
    BY DEF Balances
  <2>1. PICK A : A = Accounts(own, T, cn)
    OBVIOUS
  <2>2. IsFiniteSet(A) /\ A \in SUBSET T /\ (\A c \in A : due[c] \in Nat) /\ Sum(due, A) \in Nat
    BY <2>1, AccountsIs
  <2>3. counted[cn] + Sum(due, A) <= carried[cn] /\ counted[cn] \in Nat /\ carried[cn] \in Nat
    BY <2>1 DEF Balances, Types, StatTypes, ServerTypes
  <2>4. PICK R, h : /\ R = {c \in DOMAIN lastStatus : lastStatus[c].cn = cn}
                    /\ h = [c \in R |-> Growth(sessionSeen, c)]
    OBVIOUS
  <2>5. Grown(sessionSeen, cn) = Sum(h, R) /\ Grown(sessionSeen, cn) \in Nat
    BY <1>4, <2>4, GrownIs
  <2>6. R \in SUBSET A /\ \A c \in A : c \in R <=> c \in L
    BY <1>3, <1>8, <2>1, <2>2, <2>4 DEF Accounts
  <2>7. \A c \in R : h[c] = g[c] /\ h[c] \in Nat /\ due[c] = d[c] + h[c]
    <3> SUFFICES ASSUME NEW c \in R PROVE h[c] = g[c] /\ h[c] \in Nat /\ due[c] = d[c] + h[c]
      OBVIOUS
    <3>1. c \in L /\ c \in T /\ h[c] = Growth(sessionSeen, c)
      BY <1>3, <1>8, <2>4
    <3>2. h[c] = g[c] /\ g[c] \in Nat /\ due[c] \in Nat /\ d[c] = due[c] - g[c]
      BY <1>4, <1>10, <3>1
    <3> QED
      BY <3>2
  <2>8. \A c \in A : d[c] \in Nat /\ due[c] \in Nat
    BY <1>11, <2>2
  <2>9. \A c \in A \ R : due[c] = d[c]
    BY <1>10, <2>2, <2>6
  <2>10. Sum(due, A) = Sum(d, A) + Sum(h, R)
    BY <2>2, <2>6, <2>7, <2>8, <2>9, SumPlus
  <2>11. Sum(d, A) \in Nat
    BY <2>2, <2>8, SumNat
  <2>12. counted'[cn] = counted[cn] + Grown(sessionSeen, cn) /\ carried'[cn] = carried[cn]
    BY <1>1
  <2> QED
    BY <2>1, <2>3, <2>5, <2>10, <2>11, <2>12
<1> QED
  BY <1>12, <1>14, <1>15 DEF Ledger

\* No step leaves a client or a row that more could be charged for than is due.
LEMMA LedgerStep ==
    ASSUME Types, Wires, Chain, Ledger, Next
    PROVE  Ledger'
<1>1. PICK T, own, due : LedgerTypes(T, own, due) /\ Covers(T, own, due) /\ Balances(T, own, due)
  BY DEF Ledger
<1>2. CASE connect
  BY <1>2, LedgerOpened
<1>3. CASE ClientConnects
  BY <1>1, <1>3, LedgerExtended
<1>4. CASE Traffic
  BY <1>1, <1>4, LedgerCarries
<1>5. CASE collectStats
  BY <1>1, <1>5, LedgerCharges
<1>6. CASE ~(connect \/ Traffic \/ ClientConnects \/ collectStats)
  BY <1>1, <1>6, LedgerKept
<1> QED
  BY <1>2, <1>3, <1>4, <1>5, <1>6

\* The rows that are on their way and the ledger, of every reachable state.
LEMMA AccountingInvariant == Spec => [](Chain /\ Ledger)
<1>1. Init => Chain /\ Ledger
  <2> SUFFICES ASSUME Init PROVE Chain /\ Ledger
    OBVIOUS
  <2>1. DOMAIN client = {} /\ events = <<>> /\ lastStatus = Nothing /\ \A cn \in CN : counted[cn] = 0 /\ carried[cn] = 0
    BY DEF Init, Nothing
  <2>2. Stat = {0} /\ DOMAIN Row(0) = {}
    BY <2>1 DEF Stat, Row, Nothing
  <2>3. Chain
    BY <2>2 DEF Chain
  <2>4. PICK S, o, d : S = {} /\ o = [x \in {} |-> 0] /\ d = [x \in {} |-> 0]
    OBVIOUS
  <2>5. LedgerTypes(S, o, d)
    BY <2>4, FS_EmptySet DEF LedgerTypes
  <2>6. Covers(S, o, d)
    BY <2>1, <2>2, <2>4 DEF Covers
  <2>7. \A cn \in CN : Accounts(o, S, cn) = {} /\ Sum(d, {}) = 0
    BY <2>4, SumEmpty DEF Accounts
  <2>8. Balances(S, o, d)
    <3> SUFFICES ASSUME NEW cn \in CN PROVE counted[cn] + Sum(d, Accounts(o, S, cn)) <= carried[cn]
      BY DEF Balances
    <3>1. counted[cn] = 0 /\ carried[cn] = 0 /\ Sum(d, Accounts(o, S, cn)) = 0
      BY <2>1, <2>7
    <3> QED
      BY <3>1
  <2> QED
    BY <2>3, <2>5, <2>6, <2>8 DEF Ledger
<1>2. Admissions /\ Chain /\ Ledger /\ [Next]_vars => (Chain /\ Ledger)'
  <2> SUFFICES ASSUME Admissions, Chain, Ledger, [Next]_vars PROVE (Chain /\ Ledger)'
    OBVIOUS
  <2>1. CASE Next
    BY <2>1, ChainStep, LedgerStep DEF Admissions
  <2>2. CASE UNCHANGED vars
    <3>1. UNCHANGED <<client, fresh, connected, events, lastStatus, sessionSeen, counted, carried>>
      BY <2>2 DEF vars, serverVars, connVars, statVars
    <3>2. Stat' = Stat /\ (\A i : Row(i)' = Row(i)) /\ \A c : Paid(c)' = Paid(c)
      BY <3>1 DEF Stat, Row, Paid
    <3>3. Chain'
      BY <3>1, <3>2 DEF Chain
    <3>4. PICK T, own, due : LedgerTypes(T, own, due) /\ Covers(T, own, due) /\ Balances(T, own, due)
      BY DEF Ledger
    <3>5. Covers(T, own, due)' /\ Balances(T, own, due)'
      BY <3>1, <3>2, <3>4 DEF Covers, Balances
    <3> QED
      BY <3>3, <3>4, <3>5 DEF Ledger
  <2> QED
    BY <2>1, <2>2
<1> QED
  BY <1>1, <1>2, AdmissionsInvariant, PTL DEF Spec

\* Nobody is charged for more than his clients carried, whatever is lost or late of the
\* status the statistics loop asked for, and however often the server starts anew and
\* numbers its clients from zero.
THEOREM NobodyIsOverbilled == Spec => []NeverOverbilled
<1>1. Admissions /\ Ledger => NeverOverbilled
  <2> SUFFICES ASSUME Admissions, Ledger, NEW cn \in CN PROVE counted[cn] <= carried[cn]
    BY DEF NeverOverbilled
  <2>1. PICK T, own, due : LedgerTypes(T, own, due) /\ Balances(T, own, due)
    BY DEF Ledger
  <2>2. Sum(due, Accounts(own, T, cn)) \in Nat
    BY <2>1, AccountsIs
  <2>3. counted[cn] \in Nat /\ carried[cn] \in Nat /\ counted[cn] + Sum(due, Accounts(own, T, cn)) <= carried[cn]
    BY <2>1 DEF Balances, Admissions, Types, StatTypes, ServerTypes
  <2> QED
    BY <2>2, <2>3
<1> QED
  BY <1>1, AdmissionsInvariant, AccountingInvariant, PTL
=============================================================================
