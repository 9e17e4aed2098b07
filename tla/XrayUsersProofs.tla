--------------------------- MODULE XrayUsersProofs ---------------------------
(***************************************************************************)
(* When a request and an enforcement pass do not overlap, for any users    *)
(* and inbounds, whatever fails, crashes or is kicked: the configuration   *)
(* has a user on an inbound exactly when the panel last said so, and the   *)
(* process serves what the configuration says, but for users who are       *)
(* kicked and where a removal failed or a restart brought somebody back.   *)
(***************************************************************************)
EXTENDS XrayUsers, XrayCore, TLAPS

Operation == {"SyncUser", "UpdateUsers", "SyncUsers", "UpdateUsersAndRestart"}
Working == {"pick", "drop", "set", "add", "restart", "boot", "remember"}

Types ==
    /\ clients \in [Inbound -> SUBSET User]
    /\ known \in UserMap /\ seen \in UserMap /\ scan \subseteq User
    /\ wanted \in [User -> Object] /\ failed \subseteq User
    /\ at \in [Thread -> {"idle", "scan", "unkick", "kick"} \cup Working]
    /\ op \in [Thread -> {None, "disconnectUser"} \cup Operation]
    /\ list \in [Thread -> UserMap]
    /\ left \in [Thread -> SUBSET Inbound] /\ cur \in [Thread -> {None} \cup Inbound]
    /\ todo \in [Thread -> SUBSET User] /\ err \in [Thread -> BOOLEAN]

Exclusive == at["request"] = "idle" \/ at["enforcer"] = "idle"

\* Where a thread can be in which operation.
Shape ==
    /\ at["request"] \in {"idle"} \cup Working
    /\ at["request"] # "idle" => op["request"] \in Operation
    /\ at["enforcer"] \in Working => op["enforcer"] = "SyncUser"
    /\ at["request"] # "idle" /\ op["request"] = "SyncUser" => Listed("request") # {}
    /\ at["request"] \in {"drop", "add"} => op["request"] # "SyncUsers"
    /\ at["request"] # "idle" /\ op["request"] = "SyncUsers" => ~err["request"]
    /\ \A t \in Thread : /\ at[t] \in {"drop", "set", "add"} => cur[t] \in Inbound
                         /\ at[t] \in {"restart", "boot", "remember"} => left[t] = {}

\* The inbounds the request has yet to set.
Unset ==
    left["request"] \cup
    (IF \/ at["request"] = "set"
        \/ at["request"] = "drop" /\ op["request"] = "SyncUser" /\ todo["request"] # {}
     THEN {cur["request"]} ELSE {})

\* The request is about the user.
Concerned(u) ==
    at["request"] # "idle" /\ (u \in Listed("request") \/ op["request"] = "SyncUsers")

\* What the panel wants is what the request under way says.
WantedIsListed ==
    at["request"] # "idle" => \A u \in User :
        IF u \in Listed("request") THEN wanted[u] = list["request"][u]
        ELSE op["request"] = "SyncUsers" => wanted[u] = Gone

\* The configuration is right where the request has been and where it will not come.
Matches(i, u) == u \in clients[i] <=> i \in wanted[u].on
ConfigMatches ==
    \A i \in Inbound, u \in User :
        IF Concerned(u) THEN i \notin Unset => Matches(i, u) ELSE u \notin failed => Matches(i, u)

\* What the limiter remembers of a user, has in its snapshot and re-admits him with is
\* what the panel wants.
KnownIsWanted ==
    \A u \in User \ failed : ~Concerned(u) /\ known[u] # None => known[u] = wanted[u]
SeenIsWanted ==
    at["enforcer"] # "idle" => \A u \in User \ failed : seen[u] # None => seen[u] = wanted[u]
ReadmitsWanted ==
    at["enforcer"] \in Working =>
        \A u \in User \ failed : list["enforcer"][u] # None => list["enforcer"][u] = wanted[u]

Right == WantedIsListed /\ ConfigMatches /\ KnownIsWanted /\ SeenIsWanted /\ ReadmitsWanted

IInv == Types /\ Exclusive /\ Shape /\ Right

-----------------------------------------------------------------------------
\* Maps of users.
LEMMA Maps ==
    /\ Nobody \in UserMap /\ \A u \in User : Nobody[u] = None
    /\ Gone \in Object
    /\ \A u \in User, o \in {None} \cup Object :
          /\ [Nobody EXCEPT ![u] = o] \in UserMap
          /\ \A v \in User : [Nobody EXCEPT ![u] = o][v] = IF v = u THEN o ELSE None
<1>1. Nobody \in UserMap /\ \A u \in User : Nobody[u] = None BY DEF Nobody, UserMap
<1>2. Gone \in Object BY DEF Gone, Object
<1> QED BY <1>1, <1>2 DEF UserMap

\* At the start nothing is configured and nothing is wanted.
LEMMA InitInv == Init => IInv
<1> SUFFICES ASSUME Init PROVE IInv OBVIOUS
<1>1. Types BY Maps DEF Init, Types, Working, Operation, Thread
<1>2. /\ at["request"] = "idle" /\ at["enforcer"] = "idle"
      /\ \A t \in Thread : at[t] = "idle"
  BY DEF Init, Thread
<1>3. Exclusive /\ Shape BY <1>2 DEF Exclusive, Shape, Working
<1>4. \A i \in Inbound, u \in User : Matches(i, u) BY DEF Init, Matches, Gone
<1>5. KnownIsWanted BY Maps DEF Init, KnownIsWanted
<1>6. Right
  BY <1>2, <1>4, <1>5 DEF Right, WantedIsListed, ConfigMatches, Concerned, SeenIsWanted,
     ReadmitsWanted, Working
<1> QED BY <1>1, <1>3, <1>6 DEF IInv

\* The request has not moved.
RequestRests ==
    /\ at'["request"] = at["request"] /\ op'["request"] = op["request"]
    /\ list'["request"] = list["request"] /\ left'["request"] = left["request"]
    /\ cur'["request"] = cur["request"] /\ todo'["request"] = todo["request"]
    /\ err'["request"] = err["request"]

\* A step of the enforcer that changes neither configuration nor memory has to show only
\* what it does to the enforcer.
LEMMA EnforcerStep ==
    ASSUME IInv, Types', RequestRests, UNCHANGED <<clients, known, wanted, failed>>,
           at["request"] = "idle" \/ at'["enforcer"] = "idle",
           at'["enforcer"] \in Working => op'["enforcer"] = "SyncUser",
           at'["enforcer"] \in {"drop", "set", "add"} => cur'["enforcer"] \in Inbound,
           at'["enforcer"] \in {"restart", "boot", "remember"} => left'["enforcer"] = {},
           SeenIsWanted', ReadmitsWanted'
    PROVE  IInv'
<1> USE DEF IInv
<1>1. Exclusive' BY DEF Exclusive, RequestRests
<1>2. Listed("request")' = Listed("request") BY DEF Listed, RequestRests
<1>3. Shape' BY <1>2 DEF Shape, RequestRests, Thread
<1>4. Unset' = Unset BY DEF Unset, RequestRests
<1>5. \A u \in User : Concerned(u)' <=> Concerned(u) BY <1>2 DEF Concerned, RequestRests
<1>6. WantedIsListed' BY <1>2 DEF Right, WantedIsListed, RequestRests
<1>7. ConfigMatches' BY <1>4, <1>5 DEF Right, ConfigMatches, Matches
<1>8. KnownIsWanted' BY <1>5 DEF Right, KnownIsWanted
<1> QED BY <1>1, <1>3, <1>6, <1>7, <1>8 DEF Right

\* The enforcer does not move.
EnforcerRests ==
    /\ at'["enforcer"] = at["enforcer"] /\ op'["enforcer"] = op["enforcer"]
    /\ list'["enforcer"] = list["enforcer"] /\ left'["enforcer"] = left["enforcer"]
    /\ cur'["enforcer"] = cur["enforcer"]

\* A step inside a request that changes neither configuration nor memory has to show that
\* it does not call an inbound done that is not.
LEMMA RequestStep ==
    ASSUME IInv, Types', EnforcerRests, UNCHANGED <<clients, known, wanted, failed, list, op>>,
           at["request"] # "idle", at'["request"] \in Working, Unset \subseteq Unset',
           at'["request"] \in {"drop", "set", "add"} => cur'["request"] \in Inbound,
           at'["request"] \in {"restart", "boot", "remember"} => left'["request"] = {},
           op["request"] = "SyncUsers" =>
               at'["request"] \notin {"drop", "add"} /\ err'["request"] = err["request"]
    PROVE  IInv'
<1> USE DEF IInv
<1>0. at["enforcer"] = "idle" /\ at'["request"] # "idle" BY DEF Exclusive, Working
<1>1. Exclusive' BY <1>0 DEF Exclusive, EnforcerRests
<1>2. Listed("request")' = Listed("request") BY DEF Listed
<1>3. Shape' BY <1>0, <1>2 DEF Shape, EnforcerRests, Thread, Working
<1>5. \A u \in User : Concerned(u)' <=> Concerned(u) BY <1>0, <1>2 DEF Concerned
<1>6. WantedIsListed' BY <1>0, <1>2 DEF Right, WantedIsListed
<1>7. ConfigMatches' BY <1>5 DEF Right, ConfigMatches, Matches
<1>8. KnownIsWanted' BY <1>5 DEF Right, KnownIsWanted
<1>9. SeenIsWanted' /\ ReadmitsWanted'
  BY <1>0 DEF SeenIsWanted, ReadmitsWanted, EnforcerRests, Working
<1> QED BY <1>1, <1>3, <1>6, <1>7, <1>8, <1>9 DEF Right

-----------------------------------------------------------------------------
\* A request arrives: what the panel wants of its users changes, and no inbound is set.
LEMMA RequestInv ==
    ASSUME Serial, IInv, NEW o \in Operation, NEW l \in UserMap, Request(o, l),
           o = "SyncUser" => \E u \in User : l[u] # None
    PROVE  IInv'
<1> USE DEF IInv
<1>0. /\ at["request"] = "idle" /\ at["enforcer"] = "idle"
      /\ at' = [at EXCEPT !["request"] = "pick"] /\ op' = [op EXCEPT !["request"] = o]
      /\ list' = [list EXCEPT !["request"] = l] /\ left' = [left EXCEPT !["request"] = Inbound]
      /\ cur' = [cur EXCEPT !["request"] = None] /\ todo' = [todo EXCEPT !["request"] = {}]
      /\ err' = [err EXCEPT !["request"] = FALSE]
      /\ UNCHANGED <<clients, known, seen, scan, failed>>
      /\ wanted' = [u \in User |->
             IF l[u] # None THEN l[u] ELSE IF o = "SyncUsers" THEN Gone ELSE wanted[u]]
  BY DEF Request, Enter, Go, state, limits
<1>1. Types'
  <2>1. wanted' \in [User -> Object] BY <1>0, Maps DEF UserMap, Types
  <2>2. /\ at' \in [Thread -> {"idle", "scan", "unkick", "kick"} \cup Working]
        /\ op' \in [Thread -> {None, "disconnectUser"} \cup Operation]
        /\ list' \in [Thread -> UserMap]
    BY <1>0 DEF Types, Working
  <2>3. /\ left' \in [Thread -> SUBSET Inbound] /\ cur' \in [Thread -> {None} \cup Inbound]
        /\ todo' \in [Thread -> SUBSET User] /\ err' \in [Thread -> BOOLEAN]
    BY <1>0 DEF Types
  <2> QED BY <1>0, <2>1, <2>2, <2>3 DEF Types
<1>2. /\ at'["request"] = "pick" /\ at'["enforcer"] = "idle" /\ op'["request"] = o
      /\ list'["request"] = l /\ left'["request"] = Inbound /\ ~err'["request"]
  BY <1>0 DEF Types, Thread
<1>3. Listed("request")' = {u \in User : l[u] # None} BY <1>2 DEF Listed
<1>4. Exclusive' BY <1>2 DEF Exclusive
<1>5. Shape' BY <1>2, <1>3 DEF Shape, Thread, Working
<1>6. Unset' = Inbound BY <1>2 DEF Unset
<1>7. WantedIsListed' BY <1>0, <1>2, <1>3 DEF WantedIsListed
<1>8. ASSUME NEW u \in User, ~Concerned(u)' PROVE ~Concerned(u) /\ wanted'[u] = wanted[u]
  BY <1>0, <1>2, <1>3, <1>8 DEF Concerned
<1>9. ConfigMatches' BY <1>0, <1>6, <1>8 DEF Right, ConfigMatches, Matches
<1>10. KnownIsWanted' BY <1>0, <1>8 DEF Right, KnownIsWanted
<1>11. SeenIsWanted' /\ ReadmitsWanted' BY <1>2 DEF SeenIsWanted, ReadmitsWanted, Working
<1> QED BY <1>1, <1>4, <1>5, <1>7, <1>9, <1>10, <1>11 DEF Right

\* The four operations of the panel.
LEMMA RequestsInv ==
    ASSUME Serial, IInv, SyncUser \/ UpdateUsers \/ SyncUsers \/ UpdateUsersAndRestart
    PROVE  IInv'
<1>1. CASE SyncUser
  <2>1. PICK u \in User, object \in Object : Request("SyncUser", [Nobody EXCEPT ![u] = object])
    BY <1>1 DEF SyncUser
  <2>2. /\ [Nobody EXCEPT ![u] = object] \in UserMap
        /\ [Nobody EXCEPT ![u] = object][u] # None
    BY Maps, XrayUsersAssumption
  <2> QED BY <2>1, <2>2, RequestInv DEF Operation
<1>2. CASE UpdateUsers BY <1>2, RequestInv DEF UpdateUsers, Operation
<1>3. CASE SyncUsers BY <1>3, RequestInv DEF SyncUsers, Operation
<1>4. CASE UpdateUsersAndRestart BY <1>4, RequestInv DEF UpdateUsersAndRestart, Operation
<1> QED BY <1>1, <1>2, <1>3, <1>4

\* The steps of an operation that leave the configuration alone, in a request.
LEMMA QuietRequestInv ==
    ASSUME IInv, \/ Pick("request") \/ Drop("request") \/ AddOk("request")
                 \/ AddFails("request") \/ Picked("request") \/ Restart \/ Booted
    PROVE  IInv'
<1> USE DEF IInv
<1>0. "request" \in Thread /\ "enforcer" \in Thread BY DEF Thread
<1>1. CASE Pick("request")
  <2>1. PICK i \in left["request"] :
            /\ cur' = [cur EXCEPT !["request"] = i]
            /\ left' = [left EXCEPT !["request"] = @ \ {i}]
    BY <1>1 DEF Pick
  <2>2. /\ at["request"] = "pick" /\ todo' = [todo EXCEPT !["request"] = Listed("request")]
        /\ at' = [at EXCEPT !["request"] = IF op["request"] = "SyncUser" THEN "drop" ELSE "set"]
        /\ UNCHANGED <<clients, known, seen, scan, wanted, failed, op, list, err>>
    BY <1>1 DEF Pick, Go, state, limits, panel
  <2>3. i \in Inbound BY <1>0 DEF Types
  <2>4. Types'
    <3>1. at' \in [Thread -> {"idle", "scan", "unkick", "kick"} \cup Working]
      BY <2>2 DEF Types, Working
    <3>2. /\ left' \in [Thread -> SUBSET Inbound] /\ cur' \in [Thread -> {None} \cup Inbound]
      BY <2>1, <2>3 DEF Types
    <3>3. todo' \in [Thread -> SUBSET User] BY <2>2 DEF Types, Listed
    <3> QED BY <2>2, <3>1, <3>2, <3>3 DEF Types
  <2>5. EnforcerRests BY <1>0, <2>1, <2>2 DEF EnforcerRests, Types
  <2>6. /\ at'["request"] = IF op["request"] = "SyncUser" THEN "drop" ELSE "set"
        /\ cur'["request"] = i /\ left'["request"] = left["request"] \ {i}
        /\ todo'["request"] = Listed("request") /\ op'["request"] = op["request"]
    BY <1>0, <2>1, <2>2 DEF Types
  <2>7. Unset = left["request"] BY <2>2 DEF Unset
  <2>8. op["request"] = "SyncUser" => Listed("request") # {} BY <2>2 DEF Shape
  <2>9. i \in Unset' BY <2>6, <2>8 DEF Unset
  <2>10. Unset \subseteq Unset' BY <2>6, <2>7, <2>9 DEF Unset
  <2>11. /\ at'["request"] \in Working /\ at'["request"] \notin {"restart", "boot", "remember"}
         /\ op["request"] = "SyncUsers" => at'["request"] = "set"
    BY <2>6 DEF Working
  <2> QED BY <2>2, <2>3, <2>4, <2>5, <2>6, <2>10, <2>11, RequestStep
<1>2. CASE Drop("request")
  <2>1. /\ at["request"] = "drop" /\ UNCHANGED <<clients, known, seen, scan, wanted, failed, op, list, left, cur, err>>
    BY <1>2 DEF Drop, limits, panel
  <2>2. \/ todo["request"] = {} /\ at' = [at EXCEPT !["request"] = "pick"] /\ UNCHANGED todo
        \/ /\ todo["request"] # {}
           /\ \E u \in todo["request"] : todo' = [todo EXCEPT !["request"] = @ \ {u}]
           /\ \E label \in {"set", "add", "drop"} :
                /\ at' = [at EXCEPT !["request"] = label]
                /\ op["request"] = "SyncUser" => label = "set"
    <3>1. CASE todo["request"] = {} BY <1>2, <3>1 DEF Drop, Go
    <3>2. CASE todo["request"] # {}
      <4> DEFINE label(u) == CASE op["request"] = "SyncUser" -> "set"
                               [] /\ op["request"] # "SyncUser"
                                  /\ u \in Active("request", cur["request"]) -> "add"
                               [] OTHER -> "drop"
      <4>1. PICK u \in todo["request"] : /\ todo' = [todo EXCEPT !["request"] = @ \ {u}]
                                         /\ at' = [at EXCEPT !["request"] = label(u)]
        BY <1>2, <3>2 DEF Drop, Go
      <4>2. label(u) \in {"set", "add", "drop"} /\ (op["request"] = "SyncUser" => label(u) = "set")
        OBVIOUS
      <4> HIDE DEF label
      <4> QED BY <3>2, <4>1, <4>2
    <3> QED BY <3>1, <3>2
  <2>3. Types'
    <3>1. at' \in [Thread -> {"idle", "scan", "unkick", "kick"} \cup Working]
      BY <2>2 DEF Types, Working
    <3>2. todo' \in [Thread -> SUBSET User] BY <1>0, <2>2 DEF Types
    <3> QED BY <2>1, <3>1, <3>2 DEF Types
  <2>4. EnforcerRests BY <1>0, <2>1, <2>2 DEF EnforcerRests, Types
  <2>5. at'["request"] \in {"pick", "set", "add", "drop"} BY <1>0, <2>2 DEF Types
  <2>6. Unset \subseteq Unset' BY <1>0, <2>1, <2>2 DEF Unset, Types
  <2>7. cur'["request"] \in Inbound BY <1>0, <2>1 DEF Shape
  <2>8. /\ at'["request"] \in Working /\ at'["request"] \notin {"restart", "boot", "remember"}
        /\ op["request"] # "SyncUsers"
    BY <2>1, <2>5 DEF Working, Shape
  <2> QED BY <2>1, <2>3, <2>4, <2>6, <2>7, <2>8, RequestStep
<1>3. CASE AddOk("request") \/ AddFails("request")
  <2>1. /\ at["request"] = "add" /\ at' = [at EXCEPT !["request"] = "drop"]
        /\ UNCHANGED <<clients, known, seen, scan, wanted, failed, op, list, left, cur, todo>>
    BY <1>3 DEF AddOk, AddFails, Go, limits, panel, state
  <2>2. Types'
    <3>1. err' = err \/ err' = [err EXCEPT !["request"] = TRUE] BY <1>3 DEF AddOk, AddFails
    <3>2. err' \in [Thread -> BOOLEAN] BY <3>1 DEF Types
    <3> QED BY <2>1, <3>2 DEF Types, Working
  <2>3. EnforcerRests /\ at'["request"] = "drop" BY <1>0, <2>1 DEF EnforcerRests, Types
  <2>4. Unset \subseteq Unset' BY <2>1, <2>3 DEF Unset
  <2>5. cur'["request"] \in Inbound BY <1>0, <2>1 DEF Shape
  <2>6. /\ at'["request"] \in Working /\ at'["request"] \notin {"restart", "boot", "remember"}
        /\ op["request"] # "SyncUsers"
    BY <2>1, <2>3 DEF Working, Shape
  <2> QED BY <2>1, <2>2, <2>3, <2>4, <2>5, <2>6, RequestStep
<1>4. CASE Picked("request") \/ Restart \/ Booted
  <2>1. /\ at["request"] \in {"pick", "restart", "boot"} /\ left["request"] = {}
        /\ \E label \in {"restart", "boot", "remember"} : at' = [at EXCEPT !["request"] = label]
        /\ UNCHANGED <<clients, known, seen, scan, wanted, failed, op, list, left, cur, todo, err>>
    BY <1>0, <1>4 DEF Picked, Restart, Booted, Go, limits, panel, state, Shape
  <2>2. Types' BY <2>1 DEF Types, Working
  <2>3. EnforcerRests /\ at'["request"] \in {"restart", "boot", "remember"}
    BY <1>0, <2>1 DEF EnforcerRests, Types
  <2>4. Unset \subseteq Unset' BY <2>1 DEF Unset
  <2>5. /\ at'["request"] \in Working /\ at'["request"] \notin {"drop", "set", "add"}
        /\ at["request"] # "idle"
    BY <2>1, <2>3 DEF Working
  <2> QED BY <2>1, <2>2, <2>3, <2>4, <2>5, RequestStep
<1> QED BY <1>1, <1>2, <1>3, <1>4

\* The configuration of an inbound is set as the panel wants it.
LEMMA SetRequestInv ==
    ASSUME IInv, Set("request")
    PROVE  IInv'
<1> USE DEF IInv
<1> DEFINE c == cur["request"]
           label == CASE Restarts("request") -> "pick"
                      [] op["request"] = "SyncUser" /\ Active("request", c) # {} -> "add"
                      [] OTHER -> "drop"
           new == IF op["request"] = "SyncUsers" THEN Active("request", c)
                  ELSE (clients[c] \ Listed("request")) \cup Active("request", c)
<1>0. "request" \in Thread /\ "enforcer" \in Thread BY DEF Thread
<1>1. /\ at["request"] = "set" /\ at' = [at EXCEPT !["request"] = label]
      /\ clients' = [clients EXCEPT ![c] = new]
      /\ UNCHANGED <<known, seen, scan, wanted, failed, op, list, left, cur, todo, err>>
  BY DEF Set, Go, limits, panel, syncUsers, updateUsers
<1>2. label \in {"pick", "add", "drop"} /\ (op["request"] = "SyncUsers" => label = "pick")
  BY DEF Restarts
<1>3. c \in Inbound /\ at["enforcer"] = "idle" BY <1>0, <1>1 DEF Shape, Exclusive
<1> HIDE DEF label
<1>4. Types'
  <2>1. at' \in [Thread -> {"idle", "scan", "unkick", "kick"} \cup Working]
    BY <1>1, <1>2 DEF Types, Working
  <2>2. new \subseteq User BY <1>3 DEF Types, Active, Listed
  <2>3. clients' \in [Inbound -> SUBSET User] BY <1>1, <2>2 DEF Types
  <2> QED BY <1>1, <2>1, <2>3 DEF Types
<1>5. /\ at'["request"] \in {"pick", "add", "drop"} /\ at'["enforcer"] = "idle"
      /\ op["request"] = "SyncUsers" => at'["request"] = "pick"
  BY <1>0, <1>1, <1>2, <1>3 DEF Types
<1>6. Exclusive' BY <1>5 DEF Exclusive
<1>7. Listed("request")' = Listed("request") BY <1>1 DEF Listed
<1>8. Shape' BY <1>1, <1>3, <1>5, <1>7 DEF Shape, Thread, Working
<1>9. \A u \in User : Concerned(u)' <=> Concerned(u) BY <1>1, <1>5, <1>7 DEF Concerned
<1>10. WantedIsListed' BY <1>1, <1>5, <1>7 DEF Right, WantedIsListed
<1>11. KnownIsWanted' BY <1>1, <1>9 DEF Right, KnownIsWanted
<1>12. SeenIsWanted' /\ ReadmitsWanted' BY <1>5 DEF SeenIsWanted, ReadmitsWanted, Working
<1>13. ConfigMatches'
  <2> SUFFICES ASSUME NEW i \in Inbound, NEW u \in User
               PROVE  IF Concerned(u) THEN i \notin Unset' => Matches(i, u)'
                      ELSE u \notin failed => Matches(i, u)'
    BY <1>1, <1>9 DEF ConfigMatches
  <2>1. CASE i # c
    <3>1. clients'[i] = clients[i] /\ wanted' = wanted BY <1>1, <2>1 DEF Types
    <3>2. i \in Unset => i \in Unset' BY <1>1, <2>1 DEF Unset
    <3> QED BY <3>1, <3>2 DEF Right, ConfigMatches, Matches
  <2>2. CASE i = c
    <3>1. clients'[i] = new /\ wanted' = wanted BY <1>1, <1>3, <2>2 DEF Types
    <3>2. CASE Concerned(u)
      <4>1. IF u \in Listed("request") THEN wanted[u] = list["request"][u]
            ELSE op["request"] = "SyncUsers" /\ wanted[u] = Gone
        BY <1>1, <3>2 DEF Right, WantedIsListed, Concerned
      <4>2. u \in new <=> i \in wanted[u].on BY <2>2, <4>1 DEF Active, Gone, Listed
      <4> QED BY <3>1, <3>2, <4>2 DEF Matches
    <3>3. CASE ~Concerned(u)
      <4>1. u \notin Listed("request") /\ op["request"] # "SyncUsers" BY <1>1, <3>3 DEF Concerned
      <4>2. u \in new <=> u \in clients[i] BY <2>2, <4>1 DEF Active
      <4>3. u \notin failed => Matches(i, u) BY <3>3 DEF Right, ConfigMatches
      <4> QED BY <3>1, <3>3, <4>2, <4>3 DEF Matches
    <3> QED BY <3>2, <3>3
  <2> QED BY <2>1, <2>2
<1> QED BY <1>4, <1>6, <1>8, <1>10, <1>11, <1>12, <1>13 DEF Right

\* A request returns: what it was about matches, or counts as failed.
LEMMA ReturnInv ==
    ASSUME IInv, Types', at["request"] # "idle", Leave("request", "idle"),
           UNCHANGED <<clients, wanted, seen>>,
           \A u \in User \ failed' :
               /\ IF Concerned(u) THEN \A i \in Inbound : Matches(i, u) ELSE u \notin failed
               /\ known'[u] # None => IF Concerned(u) THEN known'[u] = wanted[u] ELSE known'[u] = known[u]
    PROVE  IInv'
<1> USE DEF IInv
<1>0. "request" \in Thread /\ "enforcer" \in Thread BY DEF Thread
<1>1. at'["request"] = "idle" /\ at'["enforcer"] = "idle"
  BY <1>0 DEF Leave, Go, Exclusive, Types
<1>2. Exclusive' /\ Shape' BY <1>1 DEF Exclusive, Shape, Working, Thread
<1>3. \A u \in User : ~Concerned(u)' BY <1>1 DEF Concerned
<1>4. WantedIsListed' /\ SeenIsWanted' /\ ReadmitsWanted'
  BY <1>1 DEF WantedIsListed, SeenIsWanted, ReadmitsWanted, Working
<1>5. ConfigMatches'
  <2> SUFFICES ASSUME NEW i \in Inbound, NEW u \in User \ failed' PROVE Matches(i, u)'
    BY <1>3 DEF ConfigMatches
  <2>1. Matches(i, u) BY DEF Right, ConfigMatches
  <2> QED BY <2>1 DEF Matches
<1>6. KnownIsWanted' BY <1>3 DEF Right, KnownIsWanted
<1> QED BY <1>2, <1>4, <1>5, <1>6 DEF Right

\* The four ways a request returns.
LEMMA ReturnsInv ==
    ASSUME IInv, Fail("request") \/ Remember("request") \/ RestartFails \/ BootRefused
    PROVE  IInv'
<1> USE DEF IInv
<1>0. "request" \in Thread /\ "enforcer" \in Thread BY DEF Thread
<1>1. /\ at["request"] \in {"pick", "remember", "restart", "boot"} /\ left["request"] = {}
      /\ Leave("request", "idle") /\ UNCHANGED <<clients, wanted, seen, scan>>
  BY <1>0 DEF Fail, Remember, RestartFails, BootRefused, Refuse, state, limits, Shape
<1>2. Unset = {} BY <1>1 DEF Unset
<1>3. \A u \in User : Concerned(u) => \A i \in Inbound : Matches(i, u)
  BY <1>2 DEF Right, ConfigMatches
<1>4. at["request"] # "idle" BY <1>1
<1>5. \A u \in User : Concerned(u) <=> u \in Listed("request") \/ op["request"] = "SyncUsers"
  BY <1>4 DEF Concerned
<1>6. \/ /\ known' = known /\ failed' \in {failed \cup Listed("request"), User}
         /\ op["request"] = "SyncUsers" => failed' = User
      \/ /\ known' \in {list["request"],
                        [u \in User |-> IF u \in Listed("request") THEN list["request"][u] ELSE known[u]]}
         /\ failed' = IF op["request"] = "SyncUsers" THEN {} ELSE failed \ Listed("request")
         /\ Restarts("request") => known' = list["request"]
         /\ ~Restarts("request") =>
               known' = [u \in User |-> IF u \in Listed("request") THEN list["request"][u] ELSE known[u]]
  <2>1. CASE Fail("request") BY <2>1 DEF Fail, limits, Shape
  <2>2. CASE Remember("request") BY <2>2 DEF Remember
  <2>3. CASE RestartFails \/ BootRefused BY <2>3 DEF RestartFails, BootRefused, Refuse, limits
  <2> QED BY <2>1, <2>2, <2>3
<1>7. list["request"] \in UserMap /\ Listed("request") \subseteq User BY <1>0 DEF Types, Listed
<1>8. known' \in UserMap /\ failed' \subseteq User
  BY <1>6, <1>7 DEF Types, UserMap, Listed
<1>9. Types'
  <2>1. /\ at' = [at EXCEPT !["request"] = "idle"] /\ op' = [op EXCEPT !["request"] = None]
        /\ list' = [list EXCEPT !["request"] = Nobody] /\ left' = [left EXCEPT !["request"] = {}]
        /\ cur' = [cur EXCEPT !["request"] = None] /\ todo' = [todo EXCEPT !["request"] = {}]
        /\ err' = [err EXCEPT !["request"] = FALSE]
    BY <1>1 DEF Leave, Go
  <2>2. at' \in [Thread -> {"idle", "scan", "unkick", "kick"} \cup Working] BY <2>1 DEF Types
  <2>3. op' \in [Thread -> {None, "disconnectUser"} \cup Operation] BY <2>1 DEF Types
  <2>4. list' \in [Thread -> UserMap] BY <2>1, Maps DEF Types
  <2>5. /\ left' \in [Thread -> SUBSET Inbound] /\ cur' \in [Thread -> {None} \cup Inbound]
        /\ todo' \in [Thread -> SUBSET User] /\ err' \in [Thread -> BOOLEAN]
    BY <2>1 DEF Types
  <2> QED BY <1>1, <1>8, <2>2, <2>3, <2>4, <2>5 DEF Types
<1>10. ASSUME NEW u \in User \ failed'
       PROVE  /\ IF Concerned(u) THEN \A i \in Inbound : Matches(i, u) ELSE u \notin failed
              /\ known'[u] # None =>
                    IF Concerned(u) THEN known'[u] = wanted[u] ELSE known'[u] = known[u]
  <2>1. u \in Listed("request") => wanted[u] = list["request"][u]
    BY <1>4, <1>7 DEF Right, WantedIsListed
  <2>2. u \notin Listed("request") => list["request"][u] = None BY DEF Listed
  <2>3. CASE /\ known' = known /\ failed' \in {failed \cup Listed("request"), User}
             /\ op["request"] = "SyncUsers" => failed' = User
    <3>1. u \notin failed /\ u \notin Listed("request") /\ op["request"] # "SyncUsers"
      BY <1>10, <2>3
    <3> QED BY <1>5, <2>3, <3>1
  <2>4. CASE /\ failed' = IF op["request"] = "SyncUsers" THEN {} ELSE failed \ Listed("request")
             /\ Restarts("request") => known' = list["request"]
             /\ ~Restarts("request") =>
                  known' = [v \in User |-> IF v \in Listed("request") THEN list["request"][v] ELSE known[v]]
    <3>1. CASE u \in Listed("request")
      <4>1. known'[u] = list["request"][u] BY <2>4, <3>1
      <4> QED BY <1>3, <1>5, <2>1, <3>1, <4>1
    <3>2. CASE u \notin Listed("request") /\ op["request"] = "SyncUsers"
      <4>1. known'[u] = None BY <2>2, <2>4, <3>2 DEF Restarts
      <4> QED BY <1>3, <1>5, <3>2, <4>1
    <3>3. CASE u \notin Listed("request") /\ op["request"] # "SyncUsers"
      <4>1. u \notin failed /\ ~Concerned(u) BY <1>5, <1>10, <2>4, <3>3
      <4>2. known'[u] # None => known'[u] = known[u] BY <2>2, <2>4, <3>3
      <4> QED BY <4>1, <4>2
    <3> QED BY <3>1, <3>2, <3>3
  <2> QED BY <1>6, <2>3, <2>4
<1> QED BY <1>1, <1>4, <1>9, <1>10, ReturnInv

-----------------------------------------------------------------------------
\* A step inside a pass has to show only where the enforcer goes.
LEMMA PassStep ==
    ASSUME IInv, Types', RequestRests, UNCHANGED <<clients, known, seen, wanted, failed>>,
           at["enforcer"] # "idle",
           at'["enforcer"] \in Working =>
               at["enforcer"] \in Working /\ UNCHANGED <<op, list>>,
           at'["enforcer"] \in {"drop", "set", "add"} => cur'["enforcer"] \in Inbound,
           at'["enforcer"] \in {"restart", "boot", "remember"} => left'["enforcer"] = {}
    PROVE  IInv'
<1> USE DEF IInv
<1>1. at["request"] = "idle" BY DEF Exclusive
<1>2. at'["enforcer"] \in Working => op'["enforcer"] = "SyncUser" BY DEF Shape
<1>3. SeenIsWanted' BY DEF Right, SeenIsWanted
<1>4. ReadmitsWanted' BY DEF Right, ReadmitsWanted
<1> QED BY <1>1, <1>2, <1>3, <1>4, EnforcerStep

\* What Leave does to the enforcer.
LEMMA LeaveIs ==
    ASSUME IInv, NEW label \in {"scan", "unkick"}, Leave("enforcer", label),
           UNCHANGED <<clients, known, seen, wanted, failed>>, scan' \subseteq User,
           at["enforcer"] # "idle"
    PROVE  IInv'
<1> USE DEF IInv
<1>1. /\ at' = [at EXCEPT !["enforcer"] = label] /\ op' = [op EXCEPT !["enforcer"] = None]
      /\ list' = [list EXCEPT !["enforcer"] = Nobody] /\ left' = [left EXCEPT !["enforcer"] = {}]
      /\ cur' = [cur EXCEPT !["enforcer"] = None] /\ todo' = [todo EXCEPT !["enforcer"] = {}]
      /\ err' = [err EXCEPT !["enforcer"] = FALSE]
  BY DEF Leave, Go
<1>2. Types'
  <2>1. /\ at' \in [Thread -> {"idle", "scan", "unkick", "kick"} \cup Working]
        /\ op' \in [Thread -> {None, "disconnectUser"} \cup Operation]
        /\ list' \in [Thread -> UserMap]
    BY <1>1, Maps DEF Types
  <2>2. /\ left' \in [Thread -> SUBSET Inbound] /\ cur' \in [Thread -> {None} \cup Inbound]
        /\ todo' \in [Thread -> SUBSET User] /\ err' \in [Thread -> BOOLEAN]
    BY <1>1 DEF Types
  <2> QED BY <2>1, <2>2 DEF Types
<1>3. RequestRests /\ at'["enforcer"] = label BY <1>1 DEF RequestRests, Types, Thread
<1>4. at'["enforcer"] \notin Working BY <1>3 DEF Working
<1> QED BY <1>2, <1>3, <1>4, PassStep DEF Working

\* The steps of a pass that are not part of a re-admission, and a re-admission that fails.
LEMMA EnforceInv ==
    ASSUME Serial, IInv, Enforce \/ Fail("enforcer")
    PROVE  IInv'
<1> USE DEF IInv
<1>0. "request" \in Thread /\ "enforcer" \in Thread BY DEF Thread
<1>1. CASE Tick
  <2>1. /\ at["request"] = "idle" /\ at' = [at EXCEPT !["enforcer"] = "scan"]
        /\ seen' = known /\ scan' = {u \in User : known[u] # None}
        /\ UNCHANGED <<clients, known, wanted, failed, op, list, left, cur, todo, err>>
    BY <1>1 DEF Tick, Go, state, panel
  <2>2. Types' BY <2>1 DEF Types
  <2>3. RequestRests /\ at'["enforcer"] = "scan" BY <1>0, <2>1 DEF RequestRests, Types
  <2>4. \A u \in User : ~Concerned(u) BY <2>1 DEF Concerned
  <2>5. SeenIsWanted' BY <2>1, <2>4 DEF Right, KnownIsWanted, SeenIsWanted
  <2>6. at'["enforcer"] \notin Working BY <2>3 DEF Working
  <2>7. ReadmitsWanted' BY <2>6 DEF ReadmitsWanted
  <2> QED BY <2>1, <2>2, <2>3, <2>5, <2>6, <2>7, EnforcerStep DEF Working
<1>2. CASE Skip
  <2>1. /\ at["enforcer"] = "scan" /\ scan' \subseteq scan
        /\ UNCHANGED <<clients, known, seen, wanted, failed, at, op, list, left, cur, todo, err>>
    BY <1>2 DEF Skip, state, thread, panel
  <2>2. Types' BY <2>1 DEF Types
  <2>3. RequestRests BY <2>1 DEF RequestRests
  <2>4. at'["enforcer"] \notin Working BY <2>1 DEF Working
  <2> QED BY <2>1, <2>2, <2>3, <2>4, PassStep DEF Working
<1>3. CASE Readmit
  <2>1. PICK u \in scan : /\ scan' = scan \ {u}
                          /\ Enter("enforcer", "SyncUser", [Nobody EXCEPT ![u] = seen[u]])
    BY <1>3 DEF Readmit
  <2> DEFINE l == [Nobody EXCEPT ![u] = seen[u]]
  <2>2. /\ at["enforcer"] = "scan" /\ at' = [at EXCEPT !["enforcer"] = "pick"]
        /\ op' = [op EXCEPT !["enforcer"] = "SyncUser"] /\ list' = [list EXCEPT !["enforcer"] = l]
        /\ left' = [left EXCEPT !["enforcer"] = Inbound] /\ cur' = [cur EXCEPT !["enforcer"] = None]
        /\ todo' = [todo EXCEPT !["enforcer"] = {}] /\ err' = [err EXCEPT !["enforcer"] = FALSE]
        /\ UNCHANGED <<clients, known, seen, wanted, failed>>
    BY <1>3, <2>1 DEF Readmit, Enter, Go, state, panel
  <2>3. u \in User /\ seen[u] \in {None} \cup Object BY DEF Types, UserMap
  <2>4. l \in UserMap /\ \A v \in User : l[v] = IF v = u THEN seen[u] ELSE None
    BY <2>3, Maps
  <2> HIDE DEF l
  <2>5. Types'
    <3>1. /\ at' \in [Thread -> {"idle", "scan", "unkick", "kick"} \cup Working]
          /\ op' \in [Thread -> {None, "disconnectUser"} \cup Operation]
          /\ list' \in [Thread -> UserMap]
      BY <2>2, <2>4 DEF Types, Working, Operation
    <3>2. /\ left' \in [Thread -> SUBSET Inbound] /\ cur' \in [Thread -> {None} \cup Inbound]
          /\ todo' \in [Thread -> SUBSET User] /\ err' \in [Thread -> BOOLEAN]
      BY <2>2 DEF Types
    <3> QED BY <2>1, <2>2, <3>1, <3>2 DEF Types
  <2>6. /\ RequestRests /\ at'["enforcer"] = "pick" /\ op'["enforcer"] = "SyncUser"
        /\ list'["enforcer"] = l
    BY <1>0, <2>2 DEF RequestRests, Types
  <2>7. SeenIsWanted' BY <2>2 DEF Right, SeenIsWanted
  <2>8. ReadmitsWanted' BY <2>2, <2>4, <2>6 DEF Right, SeenIsWanted, ReadmitsWanted
  <2>9. at["request"] = "idle" BY <2>2 DEF Exclusive
  <2> QED BY <2>2, <2>5, <2>6, <2>7, <2>8, <2>9, EnforcerStep
<1>4. CASE Unkick \/ Kicked \/ Fail("enforcer")
  <2>1. /\ at["enforcer"] # "idle" /\ Leave("enforcer", "scan")
        /\ UNCHANGED <<clients, known, seen, scan, wanted, failed>>
    BY <1>4 DEF Unkick, Kicked, Fail, state, limits, panel
  <2> QED BY <2>1, LeaveIs DEF Types
<1>5. CASE OverLimit
  <2>1. /\ at["enforcer"] = "scan" /\ at' = [at EXCEPT !["enforcer"] = "kick"] /\ scan' \subseteq scan
        /\ op' = [op EXCEPT !["enforcer"] = "disconnectUser"]
        /\ list' = [list EXCEPT !["enforcer"] = Nobody]
        /\ left' = [left EXCEPT !["enforcer"] = Inbound] /\ cur' = [cur EXCEPT !["enforcer"] = None]
        /\ todo' = [todo EXCEPT !["enforcer"] = {}] /\ err' = [err EXCEPT !["enforcer"] = FALSE]
        /\ UNCHANGED <<clients, known, seen, wanted, failed>>
    BY <1>5 DEF OverLimit, Enter, Go, state, panel
  <2>2. Types'
    <3>1. /\ at' \in [Thread -> {"idle", "scan", "unkick", "kick"} \cup Working]
          /\ op' \in [Thread -> {None, "disconnectUser"} \cup Operation]
          /\ list' \in [Thread -> UserMap]
      BY <2>1, Maps DEF Types
    <3>2. /\ left' \in [Thread -> SUBSET Inbound] /\ cur' \in [Thread -> {None} \cup Inbound]
          /\ todo' \in [Thread -> SUBSET User] /\ err' \in [Thread -> BOOLEAN]
      BY <2>1 DEF Types
    <3> QED BY <2>1, <3>1, <3>2 DEF Types
  <2>3. RequestRests /\ at'["enforcer"] = "kick" BY <1>0, <2>1 DEF RequestRests, Types
  <2>4. at'["enforcer"] \notin Working BY <2>3 DEF Working
  <2> QED BY <2>1, <2>2, <2>3, <2>4, PassStep DEF Working
<1>6. CASE Kick
  <2>1. PICK i \in left["enforcer"] : left' = [left EXCEPT !["enforcer"] = @ \ {i}]
    BY <1>6 DEF Kick
  <2>2. /\ at["enforcer"] = "kick"
        /\ UNCHANGED <<clients, known, seen, scan, wanted, failed, at, op, list, cur, todo, err>>
    BY <1>6 DEF Kick, limits, panel
  <2>3. Types' BY <2>1, <2>2 DEF Types
  <2>4. RequestRests BY <1>0, <2>1, <2>2 DEF RequestRests, Types
  <2>5. at'["enforcer"] \notin Working BY <2>2 DEF Working
  <2> QED BY <2>2, <2>3, <2>4, <2>5, PassStep DEF Working
<1>7. CASE Rest
  <2>1. /\ at["enforcer"] = "scan" /\ at' = [at EXCEPT !["enforcer"] = "idle"] /\ seen' = Nobody
        /\ UNCHANGED <<clients, known, scan, wanted, failed, op, list, left, cur, todo, err>>
    BY <1>7 DEF Rest, Go, state, panel
  <2>2. Types' BY <2>1, Maps DEF Types
  <2>3. RequestRests /\ at'["enforcer"] = "idle" BY <1>0, <2>1 DEF RequestRests, Types
  <2>4. at'["enforcer"] \notin Working BY <2>3 DEF Working
  <2>5. SeenIsWanted' /\ ReadmitsWanted' BY <2>3, <2>4 DEF SeenIsWanted, ReadmitsWanted
  <2> QED BY <2>1, <2>2, <2>3, <2>4, <2>5, EnforcerStep DEF Working
<1> QED BY <1>1, <1>2, <1>3, <1>4, <1>5, <1>6, <1>7 DEF Enforce

\* The steps of a re-admission that leave the configuration alone.
LEMMA QuietReadmitInv ==
    ASSUME IInv, \/ Pick("enforcer") \/ Drop("enforcer") \/ AddOk("enforcer")
                 \/ AddFails("enforcer") \/ Picked("enforcer")
    PROVE  IInv'
<1> USE DEF IInv
<1>0. "request" \in Thread /\ "enforcer" \in Thread BY DEF Thread
<1>1. at["enforcer"] \in {"pick", "drop", "add"}
  BY DEF Pick, Drop, AddOk, AddFails, Picked
<1>2. at["enforcer"] \in Working /\ at["enforcer"] # "idle" /\ op["enforcer"] = "SyncUser"
  BY <1>1 DEF Working, Shape
<1>3. CASE Pick("enforcer")
  <2>1. PICK i \in left["enforcer"] :
            /\ cur' = [cur EXCEPT !["enforcer"] = i]
            /\ left' = [left EXCEPT !["enforcer"] = @ \ {i}]
    BY <1>3 DEF Pick
  <2>2. /\ todo' = [todo EXCEPT !["enforcer"] = Listed("enforcer")]
        /\ at' = [at EXCEPT !["enforcer"] = "drop"]
        /\ UNCHANGED <<clients, known, seen, scan, wanted, failed, op, list, err>>
    BY <1>2, <1>3 DEF Pick, Go, state, limits, panel
  <2>3. i \in Inbound BY <1>0 DEF Types
  <2>4. Types'
    <3>1. at' \in [Thread -> {"idle", "scan", "unkick", "kick"} \cup Working]
      BY <2>2 DEF Types, Working
    <3>2. left' \in [Thread -> SUBSET Inbound] /\ cur' \in [Thread -> {None} \cup Inbound]
      BY <2>1, <2>3 DEF Types
    <3>3. todo' \in [Thread -> SUBSET User] BY <2>2 DEF Types, Listed
    <3> QED BY <2>2, <3>1, <3>2, <3>3 DEF Types
  <2>5. RequestRests BY <1>0, <2>1, <2>2 DEF RequestRests, Types
  <2>6. at'["enforcer"] = "drop" /\ cur'["enforcer"] = i BY <1>0, <2>1, <2>2 DEF Types
  <2> QED BY <1>2, <2>2, <2>3, <2>4, <2>5, <2>6, PassStep
<1>4. CASE Drop("enforcer")
  <2>1. /\ at["enforcer"] = "drop"
        /\ UNCHANGED <<clients, known, seen, scan, wanted, failed, op, list, left, cur, err>>
    BY <1>4 DEF Drop, limits, panel
  <2>2. \/ at' = [at EXCEPT !["enforcer"] = "pick"] /\ UNCHANGED todo
        \/ /\ at' = [at EXCEPT !["enforcer"] = "set"]
           /\ \E u \in todo["enforcer"] : todo' = [todo EXCEPT !["enforcer"] = @ \ {u}]
    <3>1. CASE todo["enforcer"] = {} BY <1>4, <3>1 DEF Drop, Go
    <3>2. CASE todo["enforcer"] # {} BY <1>2, <1>4, <3>2 DEF Drop, Go
    <3> QED BY <3>1, <3>2
  <2>3. Types'
    <3>1. at' \in [Thread -> {"idle", "scan", "unkick", "kick"} \cup Working]
      BY <2>2 DEF Types, Working
    <3>2. todo' \in [Thread -> SUBSET User] BY <1>0, <2>2 DEF Types
    <3> QED BY <2>1, <3>1, <3>2 DEF Types
  <2>4. RequestRests BY <1>0, <2>1, <2>2 DEF RequestRests, Types
  <2>5. at'["enforcer"] \in {"pick", "set"} BY <1>0, <2>2 DEF Types
  <2>6. cur'["enforcer"] \in Inbound BY <1>0, <2>1 DEF Shape
  <2> QED BY <1>2, <2>1, <2>3, <2>4, <2>5, <2>6, PassStep
<1>5. CASE AddOk("enforcer") \/ AddFails("enforcer")
  <2>1. /\ at["enforcer"] = "add" /\ at' = [at EXCEPT !["enforcer"] = "drop"]
        /\ UNCHANGED <<clients, known, seen, scan, wanted, failed, op, list, left, cur, todo>>
    BY <1>5 DEF AddOk, AddFails, Go, limits, panel, state
  <2>2. err' = err \/ err' = [err EXCEPT !["enforcer"] = TRUE] BY <1>5 DEF AddOk, AddFails
  <2>3. Types'
    <3>1. err' \in [Thread -> BOOLEAN] BY <2>2 DEF Types
    <3> QED BY <2>1, <3>1 DEF Types, Working
  <2>4. RequestRests /\ at'["enforcer"] = "drop" BY <1>0, <2>1, <2>2 DEF RequestRests, Types
  <2>5. cur'["enforcer"] \in Inbound BY <1>0, <2>1 DEF Shape
  <2> QED BY <1>2, <2>1, <2>3, <2>4, <2>5, PassStep
<1>6. CASE Picked("enforcer")
  <2>1. /\ left["enforcer"] = {} /\ at' = [at EXCEPT !["enforcer"] = "remember"]
        /\ UNCHANGED <<clients, known, seen, scan, wanted, failed, op, list, left, cur, todo, err>>
    BY <1>2, <1>6 DEF Picked, Restarts, Go, limits, panel, state
  <2>2. Types' BY <2>1 DEF Types, Working
  <2>3. RequestRests /\ at'["enforcer"] = "remember" BY <1>0, <2>1 DEF RequestRests, Types
  <2> QED BY <1>2, <2>1, <2>2, <2>3, PassStep
<1> QED BY <1>3, <1>4, <1>5, <1>6

\* A re-admission that changes the configuration or the memory has to show that both are
\* still what the panel wants, of every user but those it is to send again.
LEMMA ReadmitStep ==
    ASSUME IInv, Types', RequestRests, UNCHANGED <<seen, wanted, failed>>,
           at["enforcer"] # "idle",
           at'["enforcer"] \in Working =>
               at["enforcer"] \in Working /\ UNCHANGED <<op, list>>,
           at'["enforcer"] \in {"drop", "set", "add"} => cur'["enforcer"] \in Inbound,
           at'["enforcer"] \in {"restart", "boot", "remember"} => left'["enforcer"] = {},
           \A u \in User \ failed : /\ \A i \in Inbound : Matches(i, u)'
                                    /\ known'[u] # None => known'[u] = wanted[u]
    PROVE  IInv'
<1> USE DEF IInv
<1>1. at["request"] = "idle" /\ at'["request"] = "idle" BY DEF Exclusive, RequestRests
<1>2. Exclusive' BY <1>1 DEF Exclusive
<1>3. at'["enforcer"] \in Working => op'["enforcer"] = "SyncUser" BY DEF Shape
<1>4. Shape' BY <1>1, <1>3 DEF Shape, Thread, Working
<1>5. \A u \in User : ~Concerned(u)' BY <1>1 DEF Concerned
<1>6. WantedIsListed' BY <1>1 DEF WantedIsListed
<1>7. ConfigMatches' BY <1>5 DEF ConfigMatches
<1>8. KnownIsWanted' BY DEF KnownIsWanted
<1>9. SeenIsWanted' BY DEF Right, SeenIsWanted
<1>10. ReadmitsWanted' BY DEF Right, ReadmitsWanted
<1> QED BY <1>2, <1>4, <1>6, <1>7, <1>8, <1>9, <1>10 DEF Right

\* Where no request is under way configuration and memory are what the panel wants.
LEMMA AllMatch ==
    ASSUME IInv, at["request"] = "idle"
    PROVE  \A u \in User \ failed : /\ \A i \in Inbound : Matches(i, u)
                                    /\ known[u] # None => known[u] = wanted[u]
<1>1. \A u \in User : ~Concerned(u) BY DEF Concerned
<1> QED BY <1>1 DEF IInv, Right, ConfigMatches, KnownIsWanted

\* A re-admission puts into the configuration what the panel wants.
LEMMA SetReadmitInv ==
    ASSUME IInv, Set("enforcer")
    PROVE  IInv'
<1> USE DEF IInv
<1> DEFINE c == cur["enforcer"]
           label == CASE Restarts("enforcer") -> "pick"
                      [] op["enforcer"] = "SyncUser" /\ Active("enforcer", c) # {} -> "add"
                      [] OTHER -> "drop"
           new == (clients[c] \ Listed("enforcer")) \cup Active("enforcer", c)
<1>0. "request" \in Thread /\ "enforcer" \in Thread BY DEF Thread
<1>1. at["enforcer"] = "set" BY DEF Set
<1>2. at["enforcer"] \in Working /\ at["enforcer"] # "idle" /\ op["enforcer"] = "SyncUser"
  BY <1>1 DEF Working, Shape
<1>3. /\ at' = [at EXCEPT !["enforcer"] = label] /\ clients' = [clients EXCEPT ![c] = new]
      /\ UNCHANGED <<known, seen, scan, wanted, failed, op, list, left, cur, todo, err>>
  BY <1>2 DEF Set, Go, limits, panel, updateUsers
<1>4. label \in {"add", "drop"} BY <1>2 DEF Restarts
<1>5. c \in Inbound /\ at["request"] = "idle" BY <1>0, <1>1 DEF Shape, Exclusive
<1> HIDE DEF label
<1>6. Types'
  <2>1. at' \in [Thread -> {"idle", "scan", "unkick", "kick"} \cup Working]
    BY <1>3, <1>4 DEF Types, Working
  <2>2. new \subseteq User BY <1>5 DEF Types, Active, Listed
  <2>3. clients' \in [Inbound -> SUBSET User] BY <1>3, <2>2 DEF Types
  <2> QED BY <1>3, <2>1, <2>3 DEF Types
<1>7. RequestRests /\ at'["enforcer"] \in {"add", "drop"} BY <1>0, <1>3, <1>4 DEF RequestRests, Types
<1>8. ASSUME NEW u \in User \ failed PROVE \A i \in Inbound : Matches(i, u)'
  <2> SUFFICES ASSUME NEW i \in Inbound PROVE Matches(i, u)' OBVIOUS
  <2>1. Matches(i, u) BY <1>5, AllMatch
  <2>2. list["enforcer"][u] # None => list["enforcer"][u] = wanted[u]
    BY <1>2 DEF Right, ReadmitsWanted
  <2>3. CASE i # c
    <3>1. clients'[i] = clients[i] BY <1>3, <2>3 DEF Types
    <3> QED BY <1>3, <2>1, <3>1 DEF Matches
  <2>4. CASE i = c
    <3>1. clients'[i] = new BY <1>3, <1>5, <2>4 DEF Types
    <3>2. u \in new <=> i \in wanted[u].on BY <2>1, <2>2, <2>4 DEF Matches, Active, Listed
    <3> QED BY <1>3, <3>1, <3>2 DEF Matches
  <2> QED BY <2>3, <2>4
<1>9. \A u \in User \ failed : known'[u] # None => known'[u] = wanted[u]
  BY <1>3, <1>5, AllMatch
<1> HIDE DEF new
<1> QED BY <1>2, <1>3, <1>5, <1>6, <1>7, <1>8, <1>9, ReadmitStep

\* A re-admission leaves the limiter with what the panel wants.
LEMMA RememberReadmitInv ==
    ASSUME IInv, Remember("enforcer")
    PROVE  IInv'
<1> USE DEF IInv
<1>0. "request" \in Thread /\ "enforcer" \in Thread BY DEF Thread
<1>1. at["enforcer"] = "remember" BY DEF Remember
<1>2. at["enforcer"] \in Working /\ at["enforcer"] # "idle" /\ op["enforcer"] = "SyncUser"
  BY <1>1 DEF Working, Shape
<1>3. /\ known' = [u \in User |->
             IF u \in Listed("enforcer") THEN list["enforcer"][u] ELSE known[u]]
      /\ failed' = failed /\ Leave("enforcer", "unkick")
      /\ UNCHANGED <<clients, seen, scan, wanted>>
  BY <1>2 DEF Remember, Restarts, state
<1>4. /\ at' = [at EXCEPT !["enforcer"] = "unkick"] /\ op' = [op EXCEPT !["enforcer"] = None]
      /\ list' = [list EXCEPT !["enforcer"] = Nobody] /\ left' = [left EXCEPT !["enforcer"] = {}]
      /\ cur' = [cur EXCEPT !["enforcer"] = None] /\ todo' = [todo EXCEPT !["enforcer"] = {}]
      /\ err' = [err EXCEPT !["enforcer"] = FALSE]
  BY <1>3 DEF Leave, Go
<1>5. Types'
  <2>1. /\ at' \in [Thread -> {"idle", "scan", "unkick", "kick"} \cup Working]
        /\ op' \in [Thread -> {None, "disconnectUser"} \cup Operation]
        /\ list' \in [Thread -> UserMap]
    BY <1>4, Maps DEF Types
  <2>2. /\ left' \in [Thread -> SUBSET Inbound] /\ cur' \in [Thread -> {None} \cup Inbound]
        /\ todo' \in [Thread -> SUBSET User] /\ err' \in [Thread -> BOOLEAN]
    BY <1>4 DEF Types
  <2>3. list["enforcer"] \in UserMap BY <1>0 DEF Types
  <2>4. known' \in UserMap BY <1>3, <2>3 DEF Types, UserMap
  <2> QED BY <1>3, <2>1, <2>2, <2>4 DEF Types
<1>6. RequestRests /\ at'["enforcer"] = "unkick" BY <1>0, <1>4 DEF RequestRests, Types
<1>7. at["request"] = "idle" /\ at'["enforcer"] \notin Working BY <1>2, <1>6 DEF Exclusive, Working
<1>8. \A u \in User \ failed : \A i \in Inbound : Matches(i, u)'
  BY <1>3, <1>7, AllMatch DEF Matches
<1>9. \A u \in User \ failed : known'[u] # None => known'[u] = wanted[u]
  BY <1>2, <1>3, <1>7, AllMatch DEF Right, ReadmitsWanted, Listed
<1> QED BY <1>2, <1>3, <1>5, <1>6, <1>7, <1>8, <1>9, ReadmitStep DEF Working

-----------------------------------------------------------------------------
\* What the process and the clock do alone, and stuttering: nothing of it changes.
LEMMA StutterInv ==
    ASSUME IInv, UNCHANGED <<clients, known, seen, scan, wanted, failed, at, op, list,
                             left, cur, todo, err>>
    PROVE  IInv'
BY DEF IInv, Types, Exclusive, Shape, Listed, Right, WantedIsListed, ConfigMatches, Matches,
   Concerned, Unset, KnownIsWanted, SeenIsWanted, ReadmitsWanted

\* Every step keeps the invariant.
LEMMA NextInv == ASSUME Serial, IInv, [Next]_vars PROVE IInv'
<1>1. CASE SyncUser \/ UpdateUsers \/ SyncUsers \/ UpdateUsersAndRestart BY <1>1, RequestsInv
<1>2. CASE Step("request")
  BY <1>2, QuietRequestInv, SetRequestInv, ReturnsInv DEF Step
<1>3. CASE Step("enforcer")
  BY <1>3, QuietReadmitInv, SetReadmitInv, RememberReadmitInv, EnforceInv DEF Step
<1>4. CASE Restart \/ Booted BY <1>4, QuietRequestInv
<1>5. CASE RestartFails \/ BootRefused BY <1>5, ReturnsInv
<1>6. CASE Enforce BY <1>6, EnforceInv
<1>7. CASE ComesUp \/ Crash \/ HealthRestart \/ (\E u \in User : Cool(u)) \/ UNCHANGED vars
  <2>1. UNCHANGED <<clients, known, seen, scan, wanted, failed, at, op, list, left, cur,
                    todo, err>>
    BY <1>7 DEF ComesUp, Crash, HealthRestart, Cool, vars, state, limits, thread, panel
  <2> QED BY <2>1, StutterInv
<1> QED BY <1>1, <1>2, <1>3, <1>4, <1>5, <1>6, <1>7 DEF Next, Thread

\* As long as requests and enforcement passes do not overlap, the configuration of every
\* inbound has exactly the users the panel last asked for, whatever was kicked, re-admitted,
\* refused or restarted in between; a user whose request returned an error is excepted.
THEOREM ConfigurationIsAsked == Serial => (Spec => []ConfigIsAsked)
<1> SUFFICES ASSUME Serial PROVE Spec => []ConfigIsAsked OBVIOUS
<1>1. IInv => ConfigIsAsked
  <2> SUFFICES ASSUME IInv, Idle PROVE \A i \in Inbound, u \in User \ failed : Matches(i, u)
    BY DEF ConfigIsAsked, Matches
  <2> QED BY AllMatch DEF Idle
<1>2. IInv /\ [Next]_vars => IInv' BY NextInv
<1> QED BY <1>1, <1>2, InitInv, PTL DEF Spec

-----------------------------------------------------------------------------
(* What the process serves.                                                *)

Cooldown == {None, "cooling", "cooled"}

LiveTypes ==
    /\ live \in [Inbound -> SUBSET User] /\ who \in [Thread -> {None} \cup User]
    /\ kicked \in [User -> Cooldown] /\ seenKicked \in [User -> Cooldown]

\* What an operation is about to do is about its users; only a restart cannot fail on
\* an inbound, and a user is added to an inbound only if its configuration has it.
Job(t) ==
    at[t] \in Working =>
        /\ todo[t] \subseteq Listed(t)
        /\ op[t] = "SyncUser" =>
             /\ \A u, v \in Listed(t) : u = v
             /\ at[t] \in {"set", "add"} => Listed(t) \subseteq {who[t]}
        /\ op[t] # "SyncUser" /\ at[t] = "set" => todo[t] = Listed(t)
        /\ Restarts(t) => ~err[t] /\ at[t] \notin {"drop", "add"}
        /\ at[t] = "add" => who[t] \in Active(t, cur[t]) /\ who[t] \in clients[cur[t]]
        /\ at[t] \in {"drop", "add"} /\ op[t] # "SyncUser" =>
             \A u \in Listed(t) : u \in clients[cur[t]] <=> u \in Active(t, cur[t])
        /\ at[t] \in {"restart", "boot"} => Restarts(t)
        /\ at[t] = "remember" => ~err[t]

\* The enforcer knows what it does: a user it re-admits is cooled, and what it forgets
\* at the end of a re-admission is forgotten already.
Kicks ==
    /\ at["enforcer"] \in {"idle", "scan"} => who["enforcer"] = None
    /\ at["enforcer"] # "idle" =>
         \A u \in scan : seenKicked[u] = "cooled" => kicked[u] = "cooled"
    /\ at["enforcer"] \in Working =>
         /\ who["enforcer"] \in {None} \cup Listed("enforcer")
         /\ \A u \in Listed("enforcer") : kicked[u] = "cooled" /\ u \notin scan
    /\ at["enforcer"] = "unkick" /\ who["enforcer"] # None =>
         kicked[who["enforcer"]] = None /\ who["enforcer"] \notin scan
    /\ at["enforcer"] = "kick" => who["enforcer"] # None /\ who["enforcer"] \notin scan

\* The users operation t has yet to do on an inbound.
Undone(t, i) ==
    IF i \in left[t] THEN Listed(t)
    ELSE IF i # cur[t] THEN {}
    ELSE CASE at[t] = "set" -> Listed(t)
           [] at[t] = "drop" -> todo[t]
           [] at[t] = "add" -> todo[t] \cup {who[t]}
           [] OTHER -> {}

Stray(i, u) == <<i, u>> \in astray

\* The process serves the user as the configuration says, or astray.
Same(i, u) ==
    /\ proc # "dead" /\ u \in clients[i] => u \in live[i]
    /\ u \in live[i] /\ u \notin clients[i] => Stray(i, u)

\* The process does not serve the user, or astray.
Out(i, u) == u \in live[i] => Stray(i, u)

\* An operation without a restart brings its users into the process, unless it fails.
Brings(t) ==
    at[t] \in Working /\ ~Restarts(t) =>
        /\ op[t] = "SyncUser" /\ at[t] = "set" => \A u \in Listed(t) : Out(cur[t], u)
        /\ ~err[t] => \A i \in Inbound : \A u \in Listed(t) \ Undone(t, i) : Same(i, u)

\* Somebody is at work on the user.
Busy(u) ==
    \/ Concerned(u)
    \/ at["enforcer"] \in Working /\ u \in Listed("enforcer")
    \/ at["enforcer"] = "kick" /\ u = who["enforcer"]

\* The restart of a request has read the configuration.
Restarted == at["request"] = "boot" \/ (at["request"] = "remember" /\ Restarts("request"))

Accounted(i, u) ==
    /\ kicked[u] = None => Same(i, u)
    /\ kicked[u] = "cooling" => Out(i, u)

Serves == \A i \in Inbound, u \in User \ failed : ~Busy(u) => Accounted(i, u)

Process ==
    /\ Restarted => \A i \in Inbound, u \in User : Same(i, u)
    /\ at["enforcer"] = "kick" => \A i \in Inbound \ left["enforcer"] : Out(i, who["enforcer"])

LiveInv ==
    /\ LiveTypes /\ Kicks /\ \A t \in Thread : Job(t)
    /\ Process /\ Serves /\ \A t \in Thread : Brings(t)

-----------------------------------------------------------------------------
\* At the start the process serves nobody, and nobody is configured.
LEMMA LiveInit == Init => LiveInv
<1> SUFFICES ASSUME Init PROVE LiveInv OBVIOUS
<1>1. LiveTypes BY DEF Init, LiveTypes, Cooldown, Nobody
<1>2. /\ at["request"] = "idle" /\ at["enforcer"] = "idle" /\ who["enforcer"] = None
      /\ \A t \in Thread : at[t] \notin Working
  BY DEF Init, Thread, Working
<1>3. Kicks /\ \A t \in Thread : Job(t) /\ Brings(t)
  BY <1>2 DEF Kicks, Job, Brings, Working
<1>4. Process BY <1>2 DEF Process, Restarted
<1>5. /\ \A i \in Inbound : live[i] = clients[i]
      /\ \A u \in User : kicked[u] = None /\ kicked[u] # "cooling"
  BY XrayUsersAssumption DEF Init, Nobody, XrayUsersAssumption
<1>6. Serves BY <1>5 DEF Serves, Accounted, Same
<1> QED BY <1>1, <1>3, <1>4, <1>6 DEF LiveInv

\* A step inside an operation touches its users only, so it has to show what it does to
\* the operation.
LEMMA WorkStep ==
    ASSUME IInv, LiveInv, LiveTypes', NEW t \in Thread,
           at[t] \in Working, at'[t] \in Working,
           \A s \in Thread \ {t} : at'[s] = at[s] /\ who'[s] = who[s],
           UNCHANGED <<op, list, proc, kicked, seenKicked, scan, failed>>,
           ~Restarted, ~Restarted', who'[t] \in {who[t]} \cup Listed(t),
           Job(t)', Brings(t)',
           \A i \in Inbound : \A u \in User \ Listed(t) :
               (u \in live'[i] <=> u \in live[i]) /\ (Stray(i, u)' <=> Stray(i, u)),
           \/ op[t] = "SyncUsers"
           \/ \A i \in Inbound : \A u \in User \ Listed(t) : u \in clients'[i] <=> u \in clients[i]
    PROVE  LiveInv'
<1> USE DEF IInv, LiveInv
<1>1. at[t] # "idle" /\ at'[t] # "idle" BY DEF Working
<1>2. \A s \in Thread \ {t} : at[s] = "idle" /\ at'[s] = "idle"
  BY <1>1 DEF Exclusive, Thread
<1>3. t = "enforcer" => op[t] # "SyncUsers" BY DEF Shape
<1>4. \A s \in Thread : Listed(s)' = Listed(s) BY DEF Listed
<1>5. \A s \in Thread \ {t} : Job(s)' /\ Brings(s)' BY <1>2 DEF Job, Brings, Working
<1>6. Kicks'
  <2>1. CASE t = "request"
    <3>1. at["enforcer"] = "idle" /\ at'["enforcer"] = "idle" /\ who'["enforcer"] = who["enforcer"]
      BY <1>2, <2>1 DEF Thread
    <3> QED BY <3>1 DEF Kicks, Working
  <2>2. CASE t = "enforcer"
    <3>1. at["enforcer"] \in Working /\ at'["enforcer"] \in Working
      BY <2>2
    <3>2. /\ at'["enforcer"] \notin {"idle", "scan", "kick", "unkick"}
          /\ at["enforcer"] \notin {"idle", "scan", "kick", "unkick"}
      BY <3>1 DEF Working
    <3>3. Listed("enforcer")' = Listed("enforcer") BY <1>4, <2>2
    <3>4. who'["enforcer"] \in {None} \cup Listed("enforcer") BY <2>2, <3>1 DEF Kicks
    <3> QED BY <3>1, <3>2, <3>3, <3>4 DEF Kicks
  <2> QED BY <2>1, <2>2 DEF Thread
<1>7. Process'
  <2>1. at'["enforcer"] # "kick" BY <1>2 DEF Thread, Working
  <2> QED BY <2>1 DEF Process
<1>8. Serves'
  <2> SUFFICES ASSUME NEW i \in Inbound, NEW u \in User \ failed, ~Busy(u)'
               PROVE  Accounted(i, u)'
    BY DEF Serves
  <2>1. ~Busy(u) /\ u \notin Listed(t) /\ op[t] # "SyncUsers"
    <3>1. CASE t = "request"
      <4>1. at["enforcer"] = "idle" BY <1>2, <3>1 DEF Thread
      <4>2. ~Concerned(u)' BY DEF Busy
      <4>3. u \notin Listed(t) /\ op[t] # "SyncUsers" BY <1>1, <1>4, <3>1, <4>2 DEF Concerned
      <4> QED BY <3>1, <4>1, <4>3 DEF Busy, Concerned, Working
    <3>2. CASE t = "enforcer"
      <4>1. at["request"] = "idle" BY <1>2, <3>2 DEF Thread
      <4>2. u \notin Listed(t) BY <1>4, <3>2 DEF Busy
      <4> QED BY <1>3, <3>2, <4>1, <4>2 DEF Busy, Concerned, Working
    <3> QED BY <3>1, <3>2 DEF Thread
  <2>2. Accounted(i, u) BY <2>1 DEF Serves
  <2> QED BY <2>1, <2>2 DEF Accounted, Same, Out
<1> QED BY <1>5, <1>6, <1>7, <1>8

\* Pick and Picked: an inbound that was done stays done.
LEMMA PickLive ==
    ASSUME IInv, IInv', LiveInv, NEW t \in Thread, Pick(t) \/ Picked(t)
    PROVE  LiveInv'
<1> USE DEF IInv, LiveInv
<1>1. /\ at[t] = "pick"
      /\ UNCHANGED <<op, list, proc, kicked, seenKicked, scan, failed>>
      /\ UNCHANGED <<clients, live, astray, who, err>>
  BY DEF Pick, Picked, state, limits, panel
<1>2. LiveTypes' BY <1>1 DEF LiveTypes
<1>3. at[t] \in Working /\ op[t] \in Operation BY <1>1 DEF Working, Shape, Thread, Operation
<1>4. Listed(t)' = Listed(t) /\ (Restarts(t)' <=> Restarts(t)) BY <1>1 DEF Listed, Restarts
<1>5. CASE Pick(t)
  <2>1. PICK i \in left[t] : /\ cur' = [cur EXCEPT ![t] = i]
                             /\ left' = [left EXCEPT ![t] = @ \ {i}]
    BY <1>5 DEF Pick
  <2>2. /\ todo' = [todo EXCEPT ![t] = Listed(t)]
        /\ at' = [at EXCEPT ![t] = IF op[t] = "SyncUser" THEN "drop" ELSE "set"]
    BY <1>5 DEF Pick, Go
  <2>3. /\ cur'[t] = i /\ left'[t] = left[t] \ {i} /\ todo'[t] = Listed(t)
        /\ at'[t] = IF op[t] = "SyncUser" THEN "drop" ELSE "set"
        /\ \A s \in Thread \ {t} : at'[s] = at[s]
    BY <2>1, <2>2 DEF Types
  <2>4. at'[t] \in Working /\ ~Restarted /\ ~Restarted'
    BY <1>1, <2>3 DEF Working, Restarted, Exclusive, Thread
  <2>5. Job(t)' BY <1>1, <1>3, <1>4, <2>3 DEF Job, Restarts
  <2>6. Brings(t)'
    <3>1. ASSUME NEW j \in Inbound, ~Restarts(t), ~err[t], NEW u \in Listed(t) \ Undone(t, j)'
          PROVE  Same(j, u)'
      <4>1. j # i BY <1>4, <2>3, <3>1 DEF Undone
      <4>2. j \notin left[t] BY <1>4, <2>3, <3>1, <4>1 DEF Undone
      <4>3. Undone(t, j) = {} BY <1>1, <4>2 DEF Undone
      <4>4. Same(j, u) BY <1>3, <3>1, <4>3 DEF Brings
      <4> QED BY <1>1, <4>4 DEF Same, Stray
    <3> QED BY <1>1, <1>4, <2>3, <3>1 DEF Brings
  <2> QED BY <1>1, <1>2, <1>3, <2>3, <2>4, <2>5, <2>6, WorkStep DEF Stray
<1>6. CASE Picked(t)
  <2>1. /\ left[t] = {} /\ ~err[t] /\ UNCHANGED <<left, cur, todo>>
        /\ at' = [at EXCEPT ![t] = IF Restarts(t) THEN "restart" ELSE "remember"]
    BY <1>6 DEF Picked, Go
  <2>2. /\ at'[t] = IF Restarts(t) THEN "restart" ELSE "remember"
        /\ \A s \in Thread \ {t} : at'[s] = at[s]
    BY <2>1 DEF Types
  <2>3. at'[t] \in Working /\ ~Restarted BY <1>1, <2>2 DEF Working, Restarted, Exclusive, Thread
  <2>4. ~Restarted' BY <1>1, <1>4, <2>2, <2>3 DEF Restarted, Exclusive, Thread
  <2>5. Job(t)' BY <1>1, <1>3, <1>4, <2>1, <2>2 DEF Job
  <2>6. Brings(t)'
    <3>1. \A j \in Inbound : Undone(t, j) = {} BY <1>1, <2>1 DEF Undone
    <3>2. ~Restarts(t) => \A j \in Inbound, u \in Listed(t) : Same(j, u)
      BY <1>3, <2>1, <3>1 DEF Brings
    <3> QED BY <1>1, <1>4, <2>2, <3>2 DEF Brings, Same, Stray
  <2> QED BY <1>1, <1>2, <1>3, <2>2, <2>3, <2>4, <2>5, <2>6, WorkStep DEF Stray
<1> QED BY <1>5, <1>6

\* RemoveInboundUser takes a user out, or leaves him astray.
LEMMA RemoveIs ==
    ASSUME LiveTypes, NEW i \in Inbound, NEW u \in User, RemoveInboundUser(i, u)
    PROVE  /\ live' \in [Inbound -> SUBSET User] /\ (u \in live'[i] => <<i, u>> \in astray')
           /\ \A j \in Inbound, v \in User : j # i \/ v # u =>
                 (v \in live'[j] <=> v \in live[j]) /\ (Stray(j, v)' <=> Stray(j, v))
<1>1. CASE /\ live' = [live EXCEPT ![i] = @ \ {u}] /\ astray' = astray \ {<<i, u>>}
  BY <1>1 DEF LiveTypes, Out, Stray
<1>2. CASE live' = live /\ astray' = astray \cup (IF u \in live[i] THEN {<<i, u>>} ELSE {})
  BY <1>2 DEF LiveTypes, Out, Stray
<1> QED BY <1>1, <1>2 DEF RemoveInboundUser

\* A removal of an operation.
LEMMA DropLive ==
    ASSUME IInv, IInv', LiveInv, NEW t \in Thread, Drop(t)
    PROVE  LiveInv'
<1> USE DEF IInv, LiveInv
<1> DEFINE c == cur[t]
<1>1. /\ at[t] = "drop"
      /\ UNCHANGED <<op, list, proc, kicked, seenKicked, scan, failed>>
      /\ UNCHANGED <<clients, left, cur, err>>
  BY DEF Drop, limits, panel
<1>2. at[t] \in Working /\ op[t] \in Operation /\ c \in Inbound BY <1>1 DEF Working, Shape, Thread, Operation
<1>3. /\ Listed(t)' = Listed(t) /\ Active(t, c)' = Active(t, c) /\ (Restarts(t)' <=> Restarts(t))
      /\ Listed(t) \subseteq User /\ Active(t, c) \subseteq Listed(t)
  BY <1>1 DEF Listed, Active, Restarts
<1>4. todo[t] \subseteq Listed(t) /\ ~Restarts(t) BY <1>1, <1>2 DEF Job
<1>5. ~Restarted BY <1>1 DEF Restarted, Exclusive, Thread
<1>6. CASE todo[t] = {}
  <2>1. at' = [at EXCEPT ![t] = "pick"] /\ UNCHANGED <<live, astray, todo, who>>
    BY <1>6 DEF Drop, Go
  <2>2. at'[t] = "pick" /\ \A s \in Thread \ {t} : at'[s] = at[s] BY <2>1 DEF Types
  <2>3. at'[t] \in Working /\ ~Restarted' BY <1>1, <2>2 DEF Working, Restarted, Exclusive, Thread
  <2>4. Job(t)' BY <1>1, <1>2, <1>3, <1>6, <2>1, <2>2 DEF Job
  <2>5. Brings(t)'
    <3>1. \A i \in Inbound : Undone(t, i)' = Undone(t, i)
      BY <1>1, <1>3, <1>6, <2>1, <2>2 DEF Undone
    <3> QED BY <1>1, <1>2, <1>3, <2>1, <2>2, <3>1 DEF Brings, Same, Stray
  <2>6. LiveTypes' BY <1>1, <2>1 DEF LiveTypes
  <2> QED BY <1>1, <1>2, <1>5, <2>1, <2>2, <2>3, <2>4, <2>5, <2>6, WorkStep DEF Stray
<1>7. CASE todo[t] # {}
  <2> DEFINE label(u) == CASE op[t] = "SyncUser" -> "set"
                           [] op[t] # "SyncUser" /\ u \in Active(t, c) -> "add"
                           [] OTHER -> "drop"
  <2>1. PICK u \in todo[t] :
           /\ todo' = [todo EXCEPT ![t] = @ \ {u}] /\ who' = [who EXCEPT ![t] = u]
           /\ RemoveInboundUser(c, u)
           /\ at' = [at EXCEPT ![t] = label(u)]
    BY <1>7 DEF Drop, Go
  <2>2. /\ op[t] = "SyncUser" => label(u) = "set"
        /\ op[t] # "SyncUser" /\ u \in Active(t, c) => label(u) = "add"
        /\ op[t] # "SyncUser" /\ u \notin Active(t, c) => label(u) = "drop"
    OBVIOUS
  <2> HIDE DEF label
  <2>3. u \in User /\ u \in Listed(t) BY <1>3, <1>4
  <2>4. /\ at'[t] = label(u) /\ todo'[t] = todo[t] \ {u} /\ who'[t] = u
        /\ \A s \in Thread \ {t} : at'[s] = at[s] /\ who'[s] = who[s]
    BY <2>1 DEF Types, LiveTypes
  <2>6. /\ live' \in [Inbound -> SUBSET User] /\ (u \in live'[c] => <<c, u>> \in astray')
        /\ \A i \in Inbound, v \in User : i # c \/ v # u =>
              (v \in live'[i] <=> v \in live[i]) /\ (Stray(i, v)' <=> Stray(i, v))
    BY <1>2, <2>1, <2>3, RemoveIs
  <2>5. LiveTypes' BY <1>1, <2>1, <2>3, <2>6 DEF LiveTypes
  <2>7. at'[t] \in {"set", "add", "drop"} BY <2>2, <2>4
  <2>8. at'[t] \in Working /\ ~Restarted'
    BY <1>1, <2>4, <2>7 DEF Working, Restarted, Exclusive, Thread
  <2>9. op[t] = "SyncUser" => \A v \in Listed(t) : v = u BY <1>2, <2>3 DEF Job
  <2>10. op[t] # "SyncUser" => \A v \in Listed(t) : v \in clients[c] <=> v \in Active(t, c)
    BY <1>1, <1>2 DEF Job
  <2>11. Job(t)'
    BY <1>1, <1>2, <1>3, <1>4, <2>2, <2>3, <2>4, <2>7, <2>9, <2>10 DEF Job
  <2>12. Brings(t)'
    <3>1. op[t] = "SyncUser" /\ at'[t] = "set" => \A v \in Listed(t) : Out(cur[t], v)'
      BY <1>1, <2>6, <2>9 DEF Out, Stray
    <3>2. ASSUME ~err[t], NEW i \in Inbound, NEW v \in Listed(t) \ Undone(t, i)' PROVE Same(i, v)'
      <4>1. v \in User /\ i \notin left[t] BY <1>1, <1>3, <3>2 DEF Undone
      <4>2. CASE i # c
        <5>1. Undone(t, i) = {} BY <4>1, <4>2 DEF Undone
        <5>2. Same(i, v) BY <1>2, <1>4, <3>2, <5>1 DEF Brings
        <5> QED BY <1>1, <2>6, <4>1, <4>2, <5>2 DEF Same
      <4>3. CASE i = c
        <5>1. Undone(t, i) = todo[t] BY <1>1, <4>1, <4>3 DEF Undone
        <5>2. CASE v # u
          <6>1. v \notin todo[t] \/ op[t] = "SyncUser"
            BY <1>1, <1>3, <2>2, <2>4, <3>2, <4>1, <4>3, <5>2 DEF Undone
          <6>2. v \notin todo[t] BY <2>9, <5>2, <6>1
          <6>3. Same(i, v) BY <1>2, <1>4, <3>2, <5>1, <6>2 DEF Brings
          <6> QED BY <1>1, <2>6, <4>1, <5>2, <6>3 DEF Same
        <5>3. CASE v = u
          <6>1. at'[t] = "drop" BY <1>1, <1>3, <2>4, <2>7, <3>2, <4>1, <4>3, <5>3 DEF Undone
          <6>2. op[t] # "SyncUser" /\ u \notin Active(t, c) BY <2>2, <2>4, <6>1
          <6> QED BY <1>1, <2>3, <2>6, <2>10, <4>3, <5>3, <6>2 DEF Same, Stray
        <5> QED BY <5>2, <5>3
      <4> QED BY <4>2, <4>3
    <3> QED BY <1>1, <1>3, <3>1, <3>2 DEF Brings
  <2> QED BY <1>1, <1>2, <1>5, <2>3, <2>4, <2>5, <2>6, <2>8, <2>11, <2>12, WorkStep
<1> QED BY <1>6, <1>7

\* The configuration of an inbound changes for the users of the operation, which comes
\* to the process next.
LEMMA SetLive ==
    ASSUME IInv, IInv', LiveInv, NEW t \in Thread, Set(t)
    PROVE  LiveInv'
<1> USE DEF IInv, LiveInv
<1> DEFINE c == cur[t]
           label == CASE Restarts(t) -> "pick"
                      [] op[t] = "SyncUser" /\ Active(t, c) # {} -> "add"
                      [] OTHER -> "drop"
           new == IF op[t] = "SyncUsers" THEN Active(t, c)
                  ELSE (clients[c] \ Listed(t)) \cup Active(t, c)
<1>1. /\ at[t] = "set" /\ at' = [at EXCEPT ![t] = label] /\ clients' = [clients EXCEPT ![c] = new]
      /\ UNCHANGED <<op, list, proc, kicked, seenKicked, scan, failed>>
      /\ UNCHANGED <<live, astray, left, cur, todo, who, err>>
  BY DEF Set, Go, limits, panel, syncUsers, updateUsers
<1>2. at[t] \in Working /\ op[t] \in Operation /\ c \in Inbound
  BY <1>1 DEF Working, Shape, Thread, Operation
<1>3. /\ Listed(t)' = Listed(t) /\ Active(t, c)' = Active(t, c) /\ (Restarts(t)' <=> Restarts(t))
      /\ Listed(t) \subseteq User /\ Active(t, c) \subseteq Listed(t)
  BY <1>1 DEF Listed, Active, Restarts
<1>4. /\ Restarts(t) => label = "pick"
      /\ ~Restarts(t) /\ op[t] = "SyncUser" /\ Active(t, c) # {} => label = "add"
      /\ ~Restarts(t) /\ ~(op[t] = "SyncUser" /\ Active(t, c) # {}) => label = "drop"
  BY DEF Restarts
<1> HIDE DEF label, new
<1>5. /\ at'[t] = label /\ clients'[c] = new
      /\ \A s \in Thread \ {t} : at'[s] = at[s]
      /\ \A i \in Inbound \ {c} : clients'[i] = clients[i]
  BY <1>1, <1>2 DEF Types
<1>6. at'[t] \in {"pick", "add", "drop"} BY <1>4, <1>5
<1>7. at'[t] \in Working /\ ~Restarted /\ ~Restarted'
  BY <1>1, <1>5, <1>6 DEF Working, Restarted, Exclusive, Thread
<1>8. LiveTypes' BY <1>1 DEF LiveTypes
<1>9. /\ op[t] # "SyncUsers" => \A v \in User \ Listed(t) : v \in new <=> v \in clients[c]
      /\ \A v \in Listed(t) : v \in new <=> v \in Active(t, c)
  BY <1>3 DEF new
<1>10. op[t] = "SyncUsers" \/ \A i \in Inbound : \A v \in User \ Listed(t) :
                                v \in clients'[i] <=> v \in clients[i]
  BY <1>5, <1>9
<1>11. /\ op[t] = "SyncUser" => Listed(t) \subseteq {who[t]} /\ \A u, v \in Listed(t) : u = v
       /\ op[t] # "SyncUser" => todo[t] = Listed(t)
       /\ todo[t] \subseteq Listed(t) /\ (Restarts(t) => ~err[t])
  BY <1>1, <1>2 DEF Job
<1>12. Job(t)'
  <2>1. at'[t] = "add" => op[t] = "SyncUser" /\ who[t] \in Active(t, c)
    BY <1>3, <1>4, <1>5, <1>11
  <2>2. at'[t] \in {"add", "drop"} => ~Restarts(t) BY <1>4, <1>5
  <2> QED BY <1>1, <1>3, <1>5, <1>6, <1>9, <1>11, <2>1, <2>2 DEF Job
<1>13. Brings(t)'
  <2>1. at'[t] # "set" BY <1>6
  <2>2. ASSUME ~Restarts(t), ~err[t], NEW i \in Inbound, NEW v \in Listed(t) \ Undone(t, i)'
        PROVE  Same(i, v)'
    <3>1. v \in User /\ i \notin left[t] BY <1>1, <1>3, <2>2 DEF Undone
    <3>2. CASE i # c
      <4>1. Undone(t, i) = {} BY <3>1, <3>2 DEF Undone
      <4>2. Same(i, v) BY <1>2, <2>2, <4>1 DEF Brings
      <4> QED BY <1>1, <1>5, <3>2, <4>2 DEF Same, Stray
    <3>3. CASE i = c
      <4>1. at'[t] \in {"add", "drop"} BY <1>4, <1>5, <2>2
      <4>2. op[t] = "SyncUser"
        BY <1>1, <1>3, <1>4, <1>5, <1>11, <2>2, <3>1, <3>3, <4>1 DEF Undone
      <4>3. at'[t] = "drop"
        BY <1>1, <1>3, <1>11, <2>2, <3>1, <3>3, <4>1, <4>2 DEF Undone
      <4>4. v \notin Active(t, c) BY <1>4, <1>5, <2>2, <4>2, <4>3
      <4>5. Out(c, v) BY <1>1, <1>2, <2>2, <4>2 DEF Brings
      <4> QED BY <1>1, <1>5, <1>9, <3>3, <4>4, <4>5 DEF Same, Out, Stray
    <3> QED BY <3>2, <3>3
  <2> QED BY <1>1, <1>3, <2>1, <2>2 DEF Brings
<1> QED BY <1>1, <1>2, <1>5, <1>7, <1>8, <1>10, <1>12, <1>13, WorkStep DEF Stray

\* AddInboundUser brings a configured user in, or the operation will fail.
LEMMA AddLive ==
    ASSUME IInv, IInv', LiveInv, NEW t \in Thread, AddOk(t) \/ AddFails(t)
    PROVE  LiveInv'
<1> USE DEF IInv, LiveInv
<1> DEFINE c == cur[t]
<1>1. /\ at[t] = "add" /\ at' = [at EXCEPT ![t] = "drop"]
      /\ UNCHANGED <<op, list, proc, kicked, seenKicked, scan, failed>>
      /\ UNCHANGED <<clients, astray, left, cur, todo, who>>
  BY DEF AddOk, AddFails, Go, limits, panel, state
<1>2. at[t] \in Working /\ op[t] \in Operation /\ c \in Inbound
  BY <1>1 DEF Working, Shape, Thread, Operation
<1>3. /\ Listed(t)' = Listed(t) /\ Active(t, c)' = Active(t, c) /\ (Restarts(t)' <=> Restarts(t))
      /\ Listed(t) \subseteq User /\ Active(t, c) \subseteq Listed(t)
  BY <1>1 DEF Listed, Active, Restarts
<1>4. at'[t] = "drop" /\ \A s \in Thread \ {t} : at'[s] = at[s] BY <1>1 DEF Types
<1>5. at'[t] \in Working /\ ~Restarted /\ ~Restarted'
  BY <1>1, <1>4 DEF Working, Restarted, Exclusive, Thread
<1>6. /\ who[t] \in Listed(t) /\ who[t] \in clients[c] /\ ~Restarts(t)
      /\ op[t] # "SyncUser" => \A u \in Listed(t) : u \in clients[c] <=> u \in Active(t, c)
      /\ op[t] = "SyncUser" => \A u, v \in Listed(t) : u = v
      /\ todo[t] \subseteq Listed(t)
  BY <1>1, <1>2, <1>3 DEF Job
<1>7. Job(t)' BY <1>1, <1>3, <1>4, <1>6 DEF Job
<1>8. CASE AddOk(t)
  <2>1. live' = [live EXCEPT ![c] = @ \cup {who[t]}] /\ err' = err BY <1>8 DEF AddOk
  <2>2. LiveTypes' BY <1>1, <1>2, <1>3, <1>6, <2>1 DEF LiveTypes
  <2>3. /\ live'[c] = live[c] \cup {who[t]}
        /\ \A i \in Inbound \ {c} : live'[i] = live[i]
        /\ \A i \in Inbound : \A v \in User \ Listed(t) : v \in live'[i] <=> v \in live[i]
    BY <1>2, <1>6, <2>1 DEF LiveTypes
  <2>4. Brings(t)'
    <3>1. ASSUME ~err[t], NEW i \in Inbound, NEW v \in Listed(t) \ Undone(t, i)' PROVE Same(i, v)'
      <4>1. i \notin left[t] BY <1>1, <1>3, <3>1 DEF Undone
      <4>2. CASE i # c
        <5>1. Undone(t, i) = {} BY <4>1, <4>2 DEF Undone
        <5>2. Same(i, v) BY <1>2, <1>6, <3>1, <5>1 DEF Brings
        <5> QED BY <1>1, <2>3, <4>2, <5>2 DEF Same, Stray
      <4>3. CASE i = c /\ v = who[t] BY <1>1, <1>6, <2>3, <4>3 DEF Same
      <4>4. CASE i = c /\ v # who[t]
        <5>1. v \notin todo[t] BY <1>1, <1>4, <3>1, <4>1, <4>4 DEF Undone
        <5>2. v \notin Undone(t, i) BY <1>1, <4>1, <4>4, <5>1 DEF Undone
        <5>3. Same(i, v) BY <1>2, <1>6, <3>1, <5>2 DEF Brings
        <5> QED BY <1>1, <2>3, <4>4, <5>3 DEF Same, Stray
      <4> QED BY <4>2, <4>3, <4>4
    <3> QED BY <1>3, <1>4, <2>1, <3>1 DEF Brings
  <2> QED BY <1>1, <1>2, <1>4, <1>5, <1>7, <2>1, <2>2, <2>3, <2>4, WorkStep DEF Stray
<1>9. CASE AddFails(t)
  <2>1. /\ live' = live \/ live' = [live EXCEPT ![c] = @ \cup {who[t]}]
        /\ err' = [err EXCEPT ![t] = TRUE]
    BY <1>9 DEF AddFails
  <2>2. err'[t] BY <2>1 DEF Types
  <2>3. LiveTypes' BY <1>1, <1>2, <1>3, <1>6, <2>1 DEF LiveTypes
  <2>4. Brings(t)' BY <1>4, <2>2 DEF Brings
  <2>5. \A i \in Inbound : \A v \in User \ Listed(t) : v \in live'[i] <=> v \in live[i]
    BY <1>2, <1>6, <2>1 DEF LiveTypes
  <2> QED BY <1>1, <1>2, <1>4, <1>5, <1>7, <2>3, <2>4, <2>5, WorkStep DEF Stray
<1> QED BY <1>8, <1>9

\* A request arrives: it has yet to do all of its users.
LEMMA RequestLive ==
    ASSUME Serial, IInv, IInv', LiveInv, NEW o \in Operation, NEW l \in UserMap, Request(o, l),
           o = "SyncUser" => \A u, v \in User : l[u] # None /\ l[v] # None => u = v
    PROVE  LiveInv'
<1> USE DEF IInv, LiveInv
<1>1. /\ at["request"] = "idle" /\ at["enforcer"] = "idle"
      /\ at' = [at EXCEPT !["request"] = "pick"] /\ op' = [op EXCEPT !["request"] = o]
      /\ list' = [list EXCEPT !["request"] = l] /\ left' = [left EXCEPT !["request"] = Inbound]
      /\ todo' = [todo EXCEPT !["request"] = {}] /\ err' = [err EXCEPT !["request"] = FALSE]
      /\ UNCHANGED <<clients, live, proc, astray, kicked, seenKicked, scan, failed, who>>
  BY DEF Request, Enter, Go, state, limits
<1>2. /\ at'["request"] = "pick" /\ at'["enforcer"] = "idle" /\ op'["request"] = o
      /\ list'["request"] = l /\ left'["request"] = Inbound /\ ~err'["request"]
      /\ todo'["request"] = {}
  BY <1>1 DEF Types, Thread
<1>3. Listed("request")' = {u \in User : l[u] # None} BY <1>2 DEF Listed
<1>4. LiveTypes' BY <1>1 DEF LiveTypes
<1>5. Kicks' BY <1>1, <1>2 DEF Kicks, Working
<1>6. \A t \in Thread : Job(t)'
  <2>1. Job("request")' BY <1>2, <1>3 DEF Job
  <2>2. Job("enforcer")' BY <1>2 DEF Job, Working
  <2> QED BY <2>1, <2>2 DEF Thread
<1>7. \A t \in Thread : Brings(t)'
  <2>1. \A i \in Inbound : Undone("request", i)' = Listed("request")' BY <1>2 DEF Undone
  <2>2. Brings("request")' BY <1>2, <2>1 DEF Brings
  <2>3. Brings("enforcer")' BY <1>2 DEF Brings, Working
  <2> QED BY <2>2, <2>3 DEF Thread
<1>8. ~Restarted /\ ~Restarted' BY <1>1, <1>2 DEF Restarted
<1>9. Process' BY <1>2, <1>8 DEF Process
<1>10. \A u \in User : ~Busy(u) BY <1>1 DEF Busy, Concerned, Working
<1>11. Serves' BY <1>1, <1>10 DEF Serves, Accounted, Same, Out, Stray
<1> QED BY <1>1, <1>4, <1>5, <1>6, <1>7, <1>9, <1>11

\* The four operations of the panel.
LEMMA RequestsLive ==
    ASSUME Serial, IInv, IInv', LiveInv,
           SyncUser \/ UpdateUsers \/ SyncUsers \/ UpdateUsersAndRestart
    PROVE  LiveInv'
<1>1. CASE SyncUser
  <2>1. PICK u \in User, object \in Object : Request("SyncUser", [Nobody EXCEPT ![u] = object])
    BY <1>1 DEF SyncUser
  <2>2. /\ [Nobody EXCEPT ![u] = object] \in UserMap
        /\ \A v \in User : [Nobody EXCEPT ![u] = object][v] # None => v = u
    BY Maps
  <2> QED BY <2>1, <2>2, RequestLive DEF Operation
<1>2. CASE UpdateUsers BY <1>2, RequestLive DEF UpdateUsers, Operation
<1>3. CASE SyncUsers BY <1>3, RequestLive DEF SyncUsers, Operation
<1>4. CASE UpdateUsersAndRestart BY <1>4, RequestLive DEF UpdateUsersAndRestart, Operation
<1> QED BY <1>1, <1>2, <1>3, <1>4

\* Where both threads rest, or the enforcer is between two users, there is no operation to
\* account for.
LEMMA RestStep ==
    ASSUME LiveTypes', Kicks', at'["request"] = "idle",
           at'["enforcer"] \in {"idle", "scan", "unkick"},
           \A i \in Inbound, u \in User \ failed' : Accounted(i, u)'
    PROVE  LiveInv'
<1>1. \A t \in Thread : Job(t)' /\ Brings(t)' BY DEF Job, Brings, Working, Thread
<1>2. Process' /\ Serves' BY DEF Process, Serves, Restarted
<1> QED BY <1>1, <1>2 DEF LiveInv

\* An operation that fails leaves its users to the panel, or cooled.
LEMMA FailLive ==
    ASSUME IInv, IInv', LiveInv, NEW t \in Thread, Fail(t)
    PROVE  LiveInv'
<1> USE DEF IInv, LiveInv
<1>1. /\ at[t] = "pick" /\ err[t]
      /\ who' = [who EXCEPT ![t] = None]
      /\ at' = [at EXCEPT ![t] = IF t = "request" THEN "idle" ELSE "scan"]
      /\ UNCHANGED <<clients, live, proc, astray, kicked, seenKicked, scan>>
      /\ failed' = IF t = "request" THEN failed \cup Listed(t) ELSE failed
  BY DEF Fail, Leave, Go, state, limits
<1>2. LiveTypes' BY <1>1 DEF LiveTypes
<1>3. at[t] \in Working BY <1>1 DEF Working
<1>4. CASE t = "request"
  <2>1. at["enforcer"] = "idle" BY <1>1, <1>4 DEF Exclusive
  <2>2. at'["request"] = "idle" /\ at'["enforcer"] = "idle" /\ who'["enforcer"] = who["enforcer"]
    BY <1>1, <1>4, <2>1 DEF Types, Thread, LiveTypes
  <2>3. Kicks' BY <2>1, <2>2 DEF Kicks, Working
  <2>4. op["request"] # "SyncUsers" BY <1>1, <1>4 DEF Shape
  <2>5. \A u \in User \ failed' : u \notin failed /\ ~Busy(u)
    BY <1>1, <1>4, <2>1, <2>4 DEF Busy, Concerned, Working
  <2>7. \A i \in Inbound, u \in User \ failed' : Accounted(i, u)'
    BY <1>1, <2>5 DEF Serves, Accounted, Same, Out, Stray
  <2> QED BY <1>1, <1>2, <2>2, <2>3, <2>7, RestStep
<1>5. CASE t = "enforcer"
  <2>1. at["request"] = "idle" BY <1>1, <1>5 DEF Exclusive
  <2>2. at'["request"] = "idle" /\ at'["enforcer"] = "scan" /\ who'["enforcer"] = None
    BY <1>1, <1>5, <2>1 DEF Types, Thread, LiveTypes
  <2>3. Kicks' BY <1>1, <1>5, <2>2 DEF Kicks, Working
  <2>4. \A u \in User : Busy(u) => kicked[u] = "cooled"
    BY <1>1, <1>3, <1>5, <2>1 DEF Busy, Concerned, Kicks
  <2>5. \A u \in User : Busy(u) => kicked[u] # None /\ kicked[u] # "cooling"
    BY <2>4, XrayUsersAssumption DEF XrayUsersAssumption
  <2>7. \A i \in Inbound, u \in User \ failed' : Accounted(i, u)'
    BY <1>1, <1>5, <2>5 DEF Serves, Accounted, Same, Out, Stray
  <2> QED BY <1>1, <1>2, <2>2, <2>3, <2>7, RestStep
<1> QED BY <1>4, <1>5 DEF Thread

\* rememberUsers: the users of the operation are in the process, and nobody holds
\* anything against them.
LEMMA RememberLive ==
    ASSUME IInv, IInv', LiveInv, NEW t \in Thread, Remember(t)
    PROVE  LiveInv'
<1> USE DEF IInv, LiveInv
<1>1. /\ at[t] = "remember"
      /\ who' = [who EXCEPT ![t] = IF t = "request" THEN None ELSE @]
      /\ at' = [at EXCEPT ![t] = IF t = "request" THEN "idle" ELSE "unkick"]
      /\ kicked' = IF Restarts(t) THEN Nobody
                   ELSE [u \in User |-> IF u \in Listed(t) THEN None ELSE kicked[u]]
      /\ UNCHANGED <<clients, live, proc, astray, seenKicked, scan>>
  BY DEF Remember, Leave, Go, state
<1>2. /\ t = "enforcer" => failed' = failed
      /\ t = "request" /\ op[t] # "SyncUsers" => failed' = failed \ Listed(t)
      /\ op[t] = "SyncUsers" => Restarts(t)
  BY <1>1 DEF Remember, Restarts, Shape, Working
<1>3. at[t] \in Working /\ left[t] = {} /\ ~err[t] /\ op[t] \in Operation
  BY <1>1 DEF Working, Shape, Job, Thread, Operation
<1>4. \A u \in User : /\ Restarts(t) => kicked'[u] = None
                      /\ ~Restarts(t) /\ u \in Listed(t) => kicked'[u] = None
                      /\ ~Restarts(t) /\ u \notin Listed(t) => kicked'[u] = kicked[u]
  BY <1>1 DEF Nobody
<1>5. LiveTypes' BY <1>1 DEF LiveTypes, Cooldown, Nobody
<1>6. \A i \in Inbound : Undone(t, i) = {} BY <1>1, <1>3 DEF Undone
<1>7. ~Restarts(t) => \A i \in Inbound, u \in Listed(t) : Same(i, u)
  BY <1>3, <1>6 DEF Brings
<1>9. CASE t = "request"
  <2>1. at["enforcer"] = "idle" BY <1>1, <1>9 DEF Exclusive
  <2>2. at'["request"] = "idle" /\ at'["enforcer"] = "idle" /\ who'["enforcer"] = who["enforcer"]
    BY <1>1, <1>9, <2>1 DEF Types, Thread, LiveTypes
  <2>3. Kicks' BY <2>1, <2>2 DEF Kicks, Working
  <2>4. CASE Restarts(t)
    <3>1. \A i \in Inbound, u \in User : Same(i, u) BY <1>1, <1>9, <2>4 DEF Process, Restarted
    <3>2. \A u \in User : kicked'[u] # "cooling"
      BY <1>4, <2>4, XrayUsersAssumption DEF XrayUsersAssumption
    <3>3. \A i \in Inbound, u \in User \ failed' : Accounted(i, u)'
      BY <1>1, <3>1, <3>2 DEF Accounted, Same, Stray
    <3> QED BY <1>1, <1>5, <2>2, <2>3, <3>3, RestStep
  <2>5. CASE ~Restarts(t)
    <3>1. \A u \in User : u \notin Listed(t) => ~Busy(u)
      BY <1>2, <1>9, <2>1, <2>5 DEF Busy, Concerned, Working
    <3>2. \A u \in User \ failed' : u \in Listed(t) \/ u \notin failed BY <1>2, <1>9, <2>5
    <3>3. ASSUME NEW i \in Inbound, NEW u \in User \ failed' PROVE Accounted(i, u)'
      <4>1. CASE u \in Listed(t)
        BY <1>1, <1>4, <1>7, <2>5, <4>1, XrayUsersAssumption
        DEF Accounted, Same, Stray, XrayUsersAssumption
      <4>2. CASE u \notin Listed(t)
        <5>1. Accounted(i, u) BY <3>1, <3>2, <4>2 DEF Serves
        <5> QED BY <1>1, <1>4, <2>5, <4>2, <5>1 DEF Accounted, Same, Out, Stray
      <4> QED BY <4>1, <4>2
    <3> QED BY <1>1, <1>5, <2>2, <2>3, <3>3, RestStep
  <2> QED BY <2>4, <2>5
<1>10. CASE t = "enforcer"
  <2>1. at["request"] = "idle" /\ op[t] = "SyncUser" /\ ~Restarts(t)
    BY <1>1, <1>3, <1>10 DEF Exclusive, Shape, Restarts
  <2>2. at'["request"] = "idle" /\ at'["enforcer"] = "unkick" /\ who'["enforcer"] = who["enforcer"]
    BY <1>1, <1>10, <2>1 DEF Types, Thread, LiveTypes
  <2>3. /\ who["enforcer"] \in {None} \cup Listed("enforcer")
        /\ \A u \in Listed("enforcer") : u \notin scan
        /\ \A u \in scan : seenKicked[u] = "cooled" => kicked[u] = "cooled"
    BY <1>1, <1>3, <1>10 DEF Kicks
  <2>4. scan \subseteq User /\ Listed("enforcer") \subseteq User BY DEF Types, Listed
  <2>5. Kicks' BY <1>1, <1>4, <1>10, <2>1, <2>2, <2>3, <2>4 DEF Kicks, Working
  <2>6. \A u \in User : u \notin Listed(t) => ~Busy(u)
    BY <1>1, <1>10, <2>1 DEF Busy, Concerned
  <2>7. ASSUME NEW i \in Inbound, NEW u \in User \ failed' PROVE Accounted(i, u)'
    <3>1. CASE u \in Listed(t)
      BY <1>1, <1>4, <1>7, <2>1, <3>1, XrayUsersAssumption
      DEF Accounted, Same, Stray, XrayUsersAssumption
    <3>2. CASE u \notin Listed(t)
      <4>1. Accounted(i, u) BY <1>2, <1>10, <2>6, <3>2 DEF Serves
      <4> QED BY <1>1, <1>4, <2>1, <3>2, <4>1 DEF Accounted, Same, Out, Stray
    <3> QED BY <3>1, <3>2
  <2> QED BY <1>1, <1>5, <2>2, <2>5, <2>7, RestStep
<1> QED BY <1>9, <1>10 DEF Thread

\* A process that starts has what the configuration says, and the kicked users only astray.
LEMMA StartsIs ==
    ASSUME Starts, UNCHANGED clients
    PROVE  \A i \in Inbound, u \in User :
               /\ Same(i, u)'
               /\ \/ kicked[u] # None
                  \/ at["enforcer"] = "kick" /\ who["enforcer"] = u
                  \/ \E t \in Thread : /\ op[t] = "SyncUser" /\ at[t] = "set"
                                       /\ cur[t] = i /\ who[t] = u
                  => Out(i, u)'
BY DEF Starts, ReadBack, Same, Out, Stray

\* A process that dies serves nobody.
LEMMA DiesIs ==
    ASSUME Dies
    PROVE  \A i \in Inbound, u \in User : Same(i, u)' /\ Out(i, u)'
BY DEF Dies, Same, Out

\* The restart of a request, and the status it waits for.
LEMMA RestartLive ==
    ASSUME IInv, IInv', LiveInv, Restart \/ Booted
    PROVE  LiveInv'
<1> USE DEF IInv, LiveInv
<1>1. /\ at["request"] \in {"restart", "boot"}
      /\ UNCHANGED <<clients, kicked, seenKicked, scan, op, list, left, cur, todo, who, err, failed>>
      /\ \E label \in {"boot", "remember"} : at' = [at EXCEPT !["request"] = label]
  BY DEF Restart, Booted, limits, panel, state, Go
<1>2. at["enforcer"] = "idle" /\ at["request"] \in Working BY <1>1 DEF Exclusive, Working
<1>3. Restarts("request") /\ ~err["request"] /\ todo["request"] \subseteq Listed("request")
  BY <1>1, <1>2 DEF Job, Thread
<1>4. at'["enforcer"] = "idle" /\ at'["request"] \in {"boot", "remember"}
  BY <1>1, <1>2 DEF Types, Thread
<1>5. who["enforcer"] = None BY <1>2 DEF Kicks
<1>6. LiveTypes' BY <1>1 DEF LiveTypes, Types, Restart, Booted, Starts, state
<1>7. Kicks' BY <1>1, <1>4, <1>5 DEF Kicks, Working
<1>8. Restarts("request")' /\ Restarted' BY <1>1, <1>3, <1>4 DEF Restarts, Restarted
<1>9. Listed("request")' = Listed("request") BY <1>1 DEF Listed
<1>10. \A t \in Thread : Job(t)'
  <2>1. Job("request")' BY <1>1, <1>3, <1>4, <1>8, <1>9 DEF Job, Restarts
  <2>2. Job("enforcer")' BY <1>4 DEF Job, Working
  <2> QED BY <2>1, <2>2 DEF Thread
<1>11. \A t \in Thread : Brings(t)' BY <1>4, <1>8 DEF Brings, Working, Thread
<1>12. \A i \in Inbound, u \in User :
          /\ Same(i, u)'
          /\ u \notin failed /\ ~Busy(u) /\ kicked[u] = "cooling" => Out(i, u)'
  <2>1. CASE Restart
    <3>1. Starts BY <2>1 DEF Restart
    <3> QED BY <1>1, <3>1, StartsIs, XrayUsersAssumption DEF XrayUsersAssumption
  <2>2. CASE Booted
    <3>1. at["request"] = "boot" /\ UNCHANGED <<live, astray, proc>> BY <2>2 DEF Booted, state
    <3>2. \A i \in Inbound, u \in User : Same(i, u) BY <3>1 DEF Process, Restarted
    <3> QED BY <1>1, <3>1, <3>2 DEF Serves, Accounted, Same, Out, Stray
  <2> QED BY <2>1, <2>2
<1>13. Process' BY <1>4, <1>12 DEF Process
<1>14. \A u \in User : ~Busy(u)' => ~Busy(u)
  BY <1>1, <1>2, <1>4, <1>9 DEF Busy, Concerned, Working
<1>15. Serves' BY <1>1, <1>12, <1>14 DEF Serves, Accounted
<1> QED BY <1>6, <1>7, <1>10, <1>11, <1>13, <1>15

\* A request whose restart or status failed leaves its users to the panel, and the others
\* as the process has them.
LEMMA RefuseLive ==
    ASSUME IInv, IInv', LiveInv, RestartFails \/ BootRefused
    PROVE  LiveInv'
<1> USE DEF IInv, LiveInv
<1>1. /\ at["request"] \in {"restart", "boot"} /\ UNCHANGED <<clients, kicked, seenKicked, scan>>
      /\ who' = [who EXCEPT !["request"] = None] /\ at' = [at EXCEPT !["request"] = "idle"]
      /\ failed' = IF op["request"] = "SyncUsers" THEN User ELSE failed \cup Listed("request")
  BY DEF RestartFails, BootRefused, Refuse, Leave, Go, limits
<1>2. at["enforcer"] = "idle" BY <1>1 DEF Exclusive
<1>3. who["enforcer"] = None BY <1>2 DEF Kicks
<1>4. at'["enforcer"] = "idle" /\ at'["request"] = "idle" /\ who'["enforcer"] = None
  BY <1>1, <1>2, <1>3 DEF Types, Thread, LiveTypes
<1>5. LiveTypes' BY <1>1 DEF LiveTypes, RestartFails, BootRefused, Dies
<1>6. Kicks' BY <1>4 DEF Kicks, Working
<1>7. ASSUME NEW i \in Inbound, NEW u \in User \ failed' PROVE Accounted(i, u)'
  <2>1. CASE RestartFails
    BY <2>1, DiesIs DEF RestartFails, Accounted
  <2>2. CASE BootRefused
    <3>1. UNCHANGED <<live, proc, astray>> BY <2>2 DEF BootRefused
    <3>2. u \notin failed /\ ~Busy(u)
      BY <1>1, <1>2, <1>7 DEF Busy, Concerned, Working
    <3> QED BY <1>1, <3>1, <3>2 DEF Serves, Accounted, Same, Out, Stray
  <2> QED BY <2>1, <2>2
<1> QED BY <1>4, <1>5, <1>6, <1>7, RestStep

\* The process comes up, dies, or is restarted by the health check, whoever is in the
\* middle of what.
LEMMA ProcessLive ==
    ASSUME IInv, LiveInv, ComesUp \/ Crash \/ HealthRestart
    PROVE  LiveInv'
<1> USE DEF IInv, LiveInv
<1>1. UNCHANGED <<clients, kicked, seenKicked, scan, op, list, left, cur, todo, who, err, at, failed>>
  BY DEF ComesUp, Crash, HealthRestart, limits, thread, panel
<1>2. LiveTypes' BY <1>1 DEF LiveTypes, Types, ComesUp, Crash, Dies, HealthRestart, Starts
<1>3. Kicks' BY <1>1 DEF Kicks, Listed
<1>4. \A t \in Thread : Job(t)' BY <1>1 DEF Job, Listed, Active, Restarts
<1>5. \A t \in Thread, i \in Inbound : Listed(t)' = Listed(t) /\ Undone(t, i)' = Undone(t, i)
  BY <1>1 DEF Listed, Undone
<1>6. \A u \in User : Busy(u)' <=> Busy(u) BY <1>1 DEF Busy, Concerned, Listed
<1>7. Restarted' <=> Restarted BY <1>1 DEF Restarted, Restarts
<1>8. CASE ComesUp
  <2>1. proc = "booting" /\ proc' = "up" /\ UNCHANGED <<live, astray>> BY <1>8 DEF ComesUp
  <2>2. \A i \in Inbound, u \in User : (Same(i, u) => Same(i, u)') /\ (Out(i, u) => Out(i, u)')
    BY <1>1, <2>1 DEF Same, Out, Stray
  <2>3. at["enforcer"] = "kick" => who["enforcer"] \in User BY DEF Kicks, LiveTypes, Thread
  <2>4. Process' BY <1>1, <1>7, <2>2, <2>3 DEF Process
  <2>5. Serves' BY <1>1, <1>6, <2>2 DEF Serves, Accounted
  <2>6. \A t \in Thread : Brings(t)'
    <3> SUFFICES ASSUME NEW t \in Thread PROVE Brings(t)' OBVIOUS
    <3>1. Listed(t) \subseteq User /\ (at[t] = "set" => cur[t] \in Inbound) BY DEF Listed, Shape
    <3> QED BY <1>1, <1>5, <2>2, <3>1 DEF Brings, Restarts
  <2> QED BY <1>2, <1>3, <1>4, <2>4, <2>5, <2>6
<1>9. CASE Crash \/ HealthRestart
  <2>1. \A i \in Inbound, u \in User :
           /\ Same(i, u)'
           /\ \/ kicked[u] # None
              \/ at["enforcer"] = "kick" /\ who["enforcer"] = u
              \/ \E t \in Thread : /\ op[t] = "SyncUser" /\ at[t] = "set"
                                   /\ cur[t] = i /\ who[t] = u
              => Out(i, u)'
    BY <1>1, <1>9, StartsIs, DiesIs DEF Crash, HealthRestart
  <2>2. at["enforcer"] = "kick" => who["enforcer"] \in User BY DEF Kicks, LiveTypes, Thread
  <2>3. Process' BY <1>1, <2>1, <2>2 DEF Process
  <2>4. Serves' BY <1>1, <2>1, XrayUsersAssumption DEF Serves, Accounted, XrayUsersAssumption
  <2>5. \A t \in Thread : Brings(t)'
    <3> SUFFICES ASSUME NEW t \in Thread, at[t] \in Working PROVE Brings(t)' BY <1>1 DEF Brings
    <3>1. Listed(t) \subseteq User /\ (at[t] = "set" => cur[t] \in Inbound) BY DEF Listed, Shape
    <3>2. op[t] = "SyncUser" /\ at[t] = "set" => \A u \in Listed(t) : u = who[t] BY DEF Job
    <3> QED BY <1>1, <1>5, <2>1, <3>1, <3>2 DEF Brings, Restarts
  <2> QED BY <1>2, <1>3, <1>4, <2>3, <2>4, <2>5
<1> QED BY <1>8, <1>9

\* The enforcer between two users, and a cooldown that runs out.
LEMMA PassLive ==
    ASSUME Serial, IInv, IInv', LiveInv, Tick \/ Skip \/ Unkick \/ Rest \/ \E u \in User : Cool(u)
    PROVE  LiveInv'
<1> USE DEF IInv, LiveInv
<1>0. \A u \in User : kicked[u] \in Cooldown /\ "cooled" # None /\ "cooling" # None
  BY XrayUsersAssumption DEF LiveTypes, XrayUsersAssumption
<1>1. CASE \E u \in User : Cool(u)
  <2>1. PICK u \in User : Cool(u) BY <1>1
  <2>2. /\ kicked[u] = "cooling" /\ kicked' = [kicked EXCEPT ![u] = "cooled"]
        /\ UNCHANGED <<clients, live, proc, astray, seenKicked, scan, failed>>
        /\ UNCHANGED <<op, at, list, left, cur, todo, who, err>>
    BY <2>1 DEF Cool, state, thread, panel
  <2>3. LiveTypes' BY <2>2 DEF LiveTypes, Cooldown
  <2>4. \A v \in User : /\ kicked'[v] = None <=> kicked[v] = None
                        /\ kicked'[v] = "cooling" => kicked[v] = "cooling"
                        /\ kicked[v] = "cooled" => kicked'[v] = "cooled"
    BY <1>0, <2>2 DEF LiveTypes
  <2>5. \A t \in Thread : Listed(t) \subseteq User /\ Listed(t)' = Listed(t) BY <2>2 DEF Listed
  <2>6. scan \subseteq User /\ who["enforcer"] \in {None} \cup User BY DEF Types, LiveTypes, Thread
  <2>7. Kicks'
    BY <2>2, <2>4, <2>5, <2>6 DEF Kicks, Thread
  <2>8. \A t \in Thread : Job(t)' /\ Brings(t)'
    BY <2>2 DEF Job, Brings, Undone, Same, Out, Stray, Listed, Active, Restarts
  <2>9. Process' BY <2>2 DEF Process, Restarted, Restarts, Same, Out, Stray
  <2>10. \A v \in User : Busy(v)' <=> Busy(v) BY <2>2 DEF Busy, Concerned, Listed
  <2>11. Serves' BY <2>2, <2>4, <2>10 DEF Serves, Accounted, Same, Out, Stray
  <2> QED BY <2>3, <2>7, <2>8, <2>9, <2>11
<1>2. CASE Tick \/ Skip \/ Unkick \/ Rest
  <2>1. /\ at["enforcer"] \in {"idle", "scan", "unkick"}
        /\ UNCHANGED <<clients, live, proc, astray, failed>>
        /\ at' = at \/ \E label \in {"idle", "scan"} : at' = [at EXCEPT !["enforcer"] = label]
    BY <1>2 DEF Tick, Skip, Unkick, Rest, Leave, Go, state, thread, panel
  <2>2. at["request"] = "idle" BY <1>2 DEF Tick, Skip, Unkick, Rest, Exclusive
  <2>3. at'["request"] = "idle" /\ at'["enforcer"] \in {"idle", "scan", "unkick"}
    BY <2>1, <2>2 DEF Types, Thread
  <2>4. \A u \in User : kicked'[u] = kicked[u]
    <3>1. CASE Unkick
      <4>1. kicked' = [kicked EXCEPT ![who["enforcer"]] = None] /\ at["enforcer"] = "unkick"
        BY <3>1 DEF Unkick
      <4>2. who["enforcer"] # None => kicked[who["enforcer"]] = None
        BY <4>1 DEF Kicks
      <4>3. None \notin User BY XrayUsersAssumption DEF XrayUsersAssumption
      <4> QED BY <4>1, <4>2, <4>3 DEF LiveTypes
    <3>2. CASE Tick \/ Skip \/ Rest BY <3>2 DEF Tick, Skip, Rest
    <3> QED BY <1>2, <3>1, <3>2
  <2>5. LiveTypes' /\ Kicks'
    <3>1. scan \subseteq User BY DEF Types
    <3>2. CASE Tick
      <4>1. /\ at["enforcer"] = "idle" /\ seenKicked' = kicked /\ who' = who /\ kicked' = kicked
            /\ at' = [at EXCEPT !["enforcer"] = "scan"]
        BY <3>2 DEF Tick, Go
      <4>2. at'["enforcer"] = "scan" BY <4>1 DEF Types, Thread
      <4> QED BY <2>1, <4>1, <4>2 DEF LiveTypes, Kicks, Working
    <3>3. CASE Skip
      <4>1. /\ at["enforcer"] = "scan" /\ at' = at /\ scan' \subseteq scan
            /\ UNCHANGED <<who, kicked, seenKicked>>
        BY <3>3 DEF Skip, thread
      <4> QED BY <2>1, <4>1 DEF LiveTypes, Kicks, Working
    <3>4. CASE Rest
      <4>1. /\ at["enforcer"] = "scan" /\ at' = [at EXCEPT !["enforcer"] = "idle"]
            /\ seenKicked' = Nobody /\ UNCHANGED <<who, kicked>>
        BY <3>4 DEF Rest, Go
      <4>2. at'["enforcer"] = "idle" BY <4>1 DEF Types, Thread
      <4> QED BY <2>1, <4>1, <4>2 DEF LiveTypes, Kicks, Working, Nobody, Cooldown
    <3>5. CASE Unkick
      <4>1. /\ at["enforcer"] = "unkick" /\ at' = [at EXCEPT !["enforcer"] = "scan"]
            /\ who' = [who EXCEPT !["enforcer"] = None] /\ UNCHANGED <<seenKicked, scan>>
            /\ kicked' = [kicked EXCEPT ![who["enforcer"]] = None]
        BY <3>5 DEF Unkick, Leave, Go
      <4>2. at'["enforcer"] = "scan" /\ who'["enforcer"] = None
        BY <4>1 DEF Types, LiveTypes, Thread
      <4>3. LiveTypes' BY <2>1, <4>1 DEF LiveTypes, Cooldown
      <4>4. Kicks' BY <2>4, <3>1, <4>1, <4>2 DEF Kicks, Working
      <4> QED BY <4>3, <4>4
    <3> QED BY <1>2, <3>2, <3>3, <3>4, <3>5
  <2>6. \A u \in User : ~Busy(u) BY <2>1, <2>2 DEF Busy, Concerned, Working
  <2>7. \A i \in Inbound, u \in User \ failed' : Accounted(i, u)'
    BY <2>1, <2>4, <2>6 DEF Serves, Accounted, Same, Out, Stray
  <2> QED BY <2>1, <2>3, <2>5, <2>7, RestStep
<1> QED BY <1>1, <1>2

\* A re-admission begins with a cooled user and has yet to do all of it.
LEMMA ReadmitLive ==
    ASSUME IInv, IInv', LiveInv, Readmit
    PROVE  LiveInv'
<1> USE DEF IInv, LiveInv
<1> DEFINE l(u) == [Nobody EXCEPT ![u] = seen[u]]
<1>1. PICK u \in scan : /\ seenKicked[u] = "cooled" /\ scan' = scan \ {u}
                        /\ list' = [list EXCEPT !["enforcer"] = l(u)]
  BY DEF Readmit, Enter
<1>2. /\ at["enforcer"] = "scan" /\ at' = [at EXCEPT !["enforcer"] = "pick"]
      /\ op' = [op EXCEPT !["enforcer"] = "SyncUser"]
      /\ left' = [left EXCEPT !["enforcer"] = Inbound] /\ todo' = [todo EXCEPT !["enforcer"] = {}]
      /\ UNCHANGED <<clients, live, proc, astray, kicked, seenKicked, who, failed>>
  BY DEF Readmit, Enter, Go, state, panel
<1>3. /\ at["request"] = "idle" /\ at'["request"] = "idle" /\ at'["enforcer"] = "pick"
      /\ op'["enforcer"] = "SyncUser" /\ list'["enforcer"] = l(u)
      /\ left'["enforcer"] = Inbound /\ todo'["enforcer"] = {}
  BY <1>1, <1>2 DEF Types, Thread, Exclusive
<1>4. u \in User BY DEF Types
<1>5. \A v \in User : v # u => l(u)[v] = None BY <1>4 DEF Nobody
<1> HIDE DEF l
<1>6. Listed("enforcer")' \subseteq {u} BY <1>3, <1>5 DEF Listed
<1>7. LiveTypes' BY <1>2 DEF LiveTypes
<1>8. kicked[u] = "cooled" /\ who["enforcer"] = None BY <1>1, <1>2 DEF Kicks
<1>9. Kicks' BY <1>1, <1>2, <1>3, <1>6, <1>8 DEF Kicks
<1>10. Job("enforcer")' BY <1>3, <1>6 DEF Job, Restarts
<1>11. \A i \in Inbound : Undone("enforcer", i)' = Listed("enforcer")' BY <1>3 DEF Undone
<1>12. Brings("enforcer")' BY <1>3, <1>11 DEF Brings
<1>13. Job("request")' /\ Brings("request")' BY <1>3 DEF Job, Brings, Working
<1>15. Process' BY <1>3 DEF Process, Restarted
<1>16. \A v \in User : ~Busy(v) BY <1>2, <1>3 DEF Busy, Concerned, Working
<1>17. Serves' BY <1>2, <1>16 DEF Serves, Accounted, Same, Out, Stray
<1> QED BY <1>2, <1>7, <1>9, <1>10, <1>12, <1>13, <1>15, <1>17 DEF Thread

\* disconnectUser takes a user out of one inbound after the other; when he is kicked he is
\* on none but astray.
LEMMA KickLive ==
    ASSUME IInv, IInv', LiveInv, OverLimit \/ Kick \/ Kicked
    PROVE  LiveInv'
<1> USE DEF IInv, LiveInv
<1> DEFINE w == who["enforcer"]
<1>1. at["enforcer"] \in {"scan", "kick"} /\ UNCHANGED <<clients, proc, failed, seenKicked>>
  BY DEF OverLimit, Kick, Kicked, state, panel, limits
<1>2. at["request"] = "idle" BY <1>1 DEF Exclusive
<1>3. \A i \in Inbound : live[i] \subseteq User BY DEF LiveTypes
<1>4. CASE OverLimit
  <2>1. PICK u \in scan : scan' = scan \ {u} /\ who' = [who EXCEPT !["enforcer"] = u]
    BY <1>4 DEF OverLimit
  <2>2. /\ at["enforcer"] = "scan" /\ at' = [at EXCEPT !["enforcer"] = "kick"]
        /\ left' = [left EXCEPT !["enforcer"] = Inbound] /\ UNCHANGED <<live, astray, kicked>>
    BY <1>4 DEF OverLimit, Enter, Go, state
  <2>3. /\ at'["request"] = "idle" /\ at'["enforcer"] = "kick" /\ who'["enforcer"] = u
        /\ left'["enforcer"] = Inbound
    BY <1>2, <2>1, <2>2 DEF Types, LiveTypes, Thread
  <2>4. u \in User /\ u # None BY XrayUsersAssumption DEF Types, XrayUsersAssumption
  <2>5. LiveTypes' BY <1>1, <2>1, <2>2, <2>4 DEF LiveTypes
  <2>6. Kicks' BY <1>1, <2>1, <2>2, <2>3, <2>4 DEF Kicks, Working
  <2>7. \A t \in Thread : Job(t)' /\ Brings(t)' BY <2>3 DEF Job, Brings, Working, Thread
  <2>8. Process' BY <2>3 DEF Process, Restarted
  <2>9. \A v \in User : ~Busy(v) BY <1>2, <2>2 DEF Busy, Concerned, Working
  <2>10. Serves' BY <1>1, <2>2, <2>9 DEF Serves, Accounted, Same, Out, Stray
  <2> QED BY <1>1, <2>5, <2>6, <2>7, <2>8, <2>10
<1>5. CASE Kick
  <2>1. PICK i \in left["enforcer"] :
           /\ left' = [left EXCEPT !["enforcer"] = @ \ {i}]
           /\ RemoveInboundUser(i, w)
    BY <1>5 DEF Kick
  <2>2. /\ at["enforcer"] = "kick" /\ UNCHANGED <<at, who, kicked, scan>>
    BY <1>5 DEF Kick, limits
  <2>3. i \in Inbound /\ left'["enforcer"] = left["enforcer"] \ {i} BY <2>1 DEF Types, Thread
  <2>4. w \in User BY <2>2 DEF Kicks, LiveTypes, Thread
  <2>5. /\ live' \in [Inbound -> SUBSET User] /\ (w \in live'[i] => <<i, w>> \in astray')
        /\ \A j \in Inbound, v \in User : j # i \/ v # w =>
              (v \in live'[j] <=> v \in live[j]) /\ (Stray(j, v)' <=> Stray(j, v))
    BY <2>1, <2>3, <2>4, RemoveIs
  <2>6. LiveTypes' BY <1>1, <2>2, <2>5 DEF LiveTypes
  <2>7. Kicks' BY <1>1, <2>2 DEF Kicks, Working
  <2>8. \A t \in Thread : Job(t)' /\ Brings(t)' BY <1>2, <2>2 DEF Job, Brings, Working, Thread
  <2>9. Process'
    <3>1. ASSUME NEW j \in Inbound \ left'["enforcer"], j # i PROVE Out(j, w)'
      <4>1. Out(j, w) BY <2>2, <2>3, <3>1 DEF Process
      <4> QED BY <2>2, <2>4, <2>5, <3>1, <4>1 DEF Out
    <3> QED BY <1>2, <2>2, <2>5, <3>1 DEF Process, Restarted, Out, Stray
  <2>10. \A v \in User : ~Busy(v)' => ~Busy(v) /\ v # w
    BY <1>2, <2>2 DEF Busy, Concerned, Working
  <2>11. Serves' BY <1>1, <2>2, <2>5, <2>10 DEF Serves, Accounted, Same, Out
  <2> QED BY <2>6, <2>7, <2>8, <2>9, <2>11
<1>6. CASE Kicked
  <2>1. /\ at["enforcer"] = "kick" /\ left["enforcer"] = {} /\ UNCHANGED <<live, astray, scan>>
        /\ kicked' = [kicked EXCEPT ![w] = "cooling"] /\ who' = [who EXCEPT !["enforcer"] = None]
        /\ at' = [at EXCEPT !["enforcer"] = "scan"]
    BY <1>6 DEF Kicked, Leave, Go, state
  <2>2. at'["request"] = "idle" /\ at'["enforcer"] = "scan" /\ who'["enforcer"] = None
    BY <1>2, <2>1 DEF Types, LiveTypes, Thread
  <2>3. w \in User /\ w \notin scan BY <2>1 DEF Kicks, LiveTypes, Thread
  <2>4. LiveTypes' BY <1>1, <2>1, <2>3 DEF LiveTypes, Cooldown
  <2>5. kicked'[w] = "cooling" /\ \A v \in User \ {w} : kicked'[v] = kicked[v]
    BY <2>1, <2>3 DEF LiveTypes
  <2>6. Kicks'
    <3>1. scan \subseteq User \ {w} BY <2>3 DEF Types
    <3> QED BY <1>1, <2>1, <2>2, <2>5, <3>1 DEF Kicks, Working
  <2>7. \A v \in User \ {w} : ~Busy(v) BY <1>2, <2>1 DEF Busy, Concerned, Working
  <2>8. \A i \in Inbound : Out(i, w) BY <2>1 DEF Process
  <2>9. ASSUME NEW i \in Inbound, NEW u \in User \ failed' PROVE Accounted(i, u)'
    <3>1. CASE u = w
      BY <2>1, <2>5, <2>8, <3>1, XrayUsersAssumption DEF Accounted, Out, Stray, XrayUsersAssumption
    <3>2. CASE u # w
      <4>1. Accounted(i, u) BY <1>1, <2>7, <3>2 DEF Serves
      <4> QED BY <1>1, <2>1, <2>5, <3>2, <4>1 DEF Accounted, Same, Out, Stray
    <3> QED BY <3>1, <3>2
  <2> QED BY <2>2, <2>4, <2>6, <2>9, RestStep
<1> QED BY <1>4, <1>5, <1>6

\* Every step keeps what the process serves accounted for.
LEMMA LiveNext ==
    ASSUME Serial, IInv, IInv', LiveInv, [Next]_vars
    PROVE  LiveInv'
<1>1. CASE SyncUser \/ UpdateUsers \/ SyncUsers \/ UpdateUsersAndRestart BY <1>1, RequestsLive
<1>2. CASE \E t \in Thread : Step(t)
  BY <1>2, PickLive, DropLive, SetLive, AddLive, FailLive, RememberLive DEF Step
<1>3. CASE Restart \/ Booted BY <1>3, RestartLive
<1>4. CASE RestartFails \/ BootRefused BY <1>4, RefuseLive
<1>7. CASE ComesUp \/ Crash \/ HealthRestart BY <1>7, ProcessLive
<1>5. CASE Enforce \/ \E u \in User : Cool(u)
  BY <1>5, PassLive, ReadmitLive, KickLive DEF Enforce
<1>6. CASE UNCHANGED vars
  <2>1. UNCHANGED <<clients, live, proc, astray, kicked, seenKicked, scan, op, at, list, left,
                    cur, todo, who, err, failed>>
    BY <1>6 DEF vars, state, limits, thread, panel
  <2>2. LiveTypes' /\ Kicks' /\ \A t \in Thread : Job(t)'
    BY <2>1 DEF LiveInv, LiveTypes, Kicks, Job, Listed, Active, Restarts
  <2>3. Process' /\ \A t \in Thread : Brings(t)'
    BY <2>1 DEF LiveInv, Process, Restarted, Restarts, Brings, Undone, Same, Out, Stray, Listed
  <2>4. Serves'
    BY <2>1 DEF LiveInv, Serves, Busy, Concerned, Accounted, Same, Out, Stray, Listed
  <2> QED BY <2>1, <2>2, <2>3, <2>4 DEF LiveInv
<1> QED BY <1>1, <1>2, <1>3, <1>4, <1>5, <1>6, <1>7 DEF Next

\* Where both threads rest everybody's service is accounted for.
LEMMA ServesAtRest ==
    ASSUME LiveInv, Quiet, NEW i \in Inbound, NEW u \in User \ failed
    PROVE  Accounted(i, u)
<1>1. ~Busy(u) BY DEF Quiet, Idle, Busy, Concerned, Working
<1> QED BY <1>1 DEF LiveInv, Serves

\* As long as requests and enforcement passes do not overlap, a process that is up serves
\* every user the configuration has, and nobody else but where a removal failed or a restart
\* came between the two steps of a SyncUser, whatever died, was restarted, kicked,
\* re-admitted or refused in between; kicked users and those whose request failed are
\* excepted.
THEOREM ProcessIsConfigured == Serial => (Spec => []LiveIsConfigured)
<1> SUFFICES ASSUME Serial PROVE Spec => []LiveIsConfigured OBVIOUS
<1>1. LiveInv => LiveIsConfigured
  BY ServesAtRest DEF LiveIsConfigured, Accounted, Same, Stray, Quiet
<1>2. IInv /\ [Next]_vars => IInv' BY NextInv
<1>3. IInv /\ IInv' /\ LiveInv /\ [Next]_vars => LiveInv' BY LiveNext
<1> QED BY <1>1, <1>2, <1>3, InitInv, LiveInit, PTL DEF Spec

\* Under the same condition a user whose cooldown runs is on no inbound of the process,
\* but where the removal itself failed or a restart brought the user back from the
\* configuration.
THEOREM CoolingIsOut == Serial => (Spec => []KickedStaysOut)
<1> SUFFICES ASSUME Serial PROVE Spec => []KickedStaysOut OBVIOUS
<1>1. LiveInv => KickedStaysOut BY ServesAtRest DEF KickedStaysOut, Accounted, Out, Stray
<1>2. IInv /\ [Next]_vars => IInv' BY NextInv
<1>3. IInv /\ IInv' /\ LiveInv /\ [Next]_vars => LiveInv' BY LiveNext
<1> QED BY <1>1, <1>2, <1>3, InitInv, LiveInit, PTL DEF Spec

-----------------------------------------------------------------------------
(***************************************************************************)
(* The process the users are served by: what a request that succeeded was  *)
(* told stays true of every process that runs later, for any threshold of  *)
(* failed checks and any number of changes.                                *)
(***************************************************************************)

USE XrayCoreAssumption DEF XrayCoreAssumption

\* Every process is started with the whole configuration, which only grows: the last
\* one has what was acknowledged, and what a request waiting for its status asked.
Ordered ==
    /\ asked <= config /\ acked <= runs /\ runs <= config
    /\ coreAt["request"] = "status" => asked <= runs

CoreInv == CoreTypeOK /\ Ordered

\* New leaves the backend in a state with these properties.
LEMMA InitHolds == CoreInit => CoreInv
<1> SUFFICES ASSUME CoreInit PROVE CoreInv
  OBVIOUS
<1>1. restarting \in BOOLEAN /\ cancelled \in BOOLEAN
  BY Zenon DEF CoreInit
<1> QED
  BY <1>1 DEF CoreInit, CoreInv, CoreTypeOK, Ordered, CoreThread

\* Every step of the health check, of the requests, of Shutdown and of the process
\* keeps the types.
LEMMA TypeStep == CoreTypeOK /\ [CoreNext]_coreVars => CoreTypeOK'
<1> SUFFICES ASSUME CoreTypeOK, [CoreNext]_coreVars PROVE CoreTypeOK'
  OBVIOUS
<1> USE DEF CoreTypeOK, CoreGo, CoreThread, Started
<1>1. CASE CoreCrash
  BY <1>1 DEF CoreCrash
<1>2. CASE HealthTick
  BY <1>2 DEF HealthTick
<1>3. CASE HealthProbe
  BY <1>3 DEF HealthProbe
<1>4. CASE HealthJudge
  BY <1>4 DEF HealthJudge
<1>5. CASE RestartRequest
  BY <1>5 DEF RestartRequest
<1>6. CASE Shutdown
  BY <1>6 DEF Shutdown
<1>7. ASSUME NEW t \in CoreThread, Lock(t) PROVE CoreTypeOK'
  <2>1. restarting' \in BOOLEAN /\ cancelled' \in BOOLEAN
    BY <1>7, Zenon DEF Lock
  <2>2. /\ mu' = t /\ coreAt' = [coreAt EXCEPT ![t] = "stop"]
        /\ UNCHANGED <<process, runs, config, asked, acked, failures>>
    BY <1>7 DEF Lock
  <2> QED
    BY <2>1, <2>2
<1>8. ASSUME NEW t \in CoreThread, Stop(t) PROVE CoreTypeOK'
  BY <1>8 DEF Stop
<1>9. ASSUME NEW t \in CoreThread, StartOk(t) PROVE CoreTypeOK'
  <2>1. restarting' \in BOOLEAN /\ cancelled' \in BOOLEAN
    BY <1>9, Zenon DEF StartOk
  <2>2. failures' \in 0..maxFailures
    BY <1>9 DEF StartOk
  <2>3. coreAt' \in [CoreThread -> {"idle", "probe", "judge", "lock", "stop", "start",
                                    "status", "close", "done"}]
    BY <1>9 DEF StartOk
  <2> QED
    BY <1>9, <2>1, <2>2, <2>3 DEF StartOk
<1>10. ASSUME NEW t \in CoreThread, StartFails(t) PROVE CoreTypeOK'
  BY <1>10 DEF StartFails
<1>11. CASE StatusOk \/ StatusFails \/ Close
  BY <1>11 DEF StatusOk, StatusFails, Close
<1>12. CASE UNCHANGED coreVars
  BY <1>12 DEF coreVars
<1> QED
  BY <1>1, <1>2, <1>3, <1>4, <1>5, <1>6, <1>7, <1>8, <1>9, <1>10, <1>11, <1>12 DEF CoreNext

\* Only a change moves config, only a start moves runs, and only a status that
\* answered moves acked.
LEMMA OrderStep == CoreInv /\ [CoreNext]_coreVars => Ordered'
<1> SUFFICES ASSUME CoreTypeOK, Ordered, [CoreNext]_coreVars PROVE Ordered'
  BY DEF CoreInv
<1> USE DEF CoreTypeOK, Ordered, CoreGo, CoreThread, Started
<1>1. CASE CoreCrash
  BY <1>1 DEF CoreCrash
<1>2. CASE HealthTick
  BY <1>2 DEF HealthTick
<1>3. CASE HealthProbe
  BY <1>3 DEF HealthProbe
<1>4. CASE HealthJudge
  BY <1>4 DEF HealthJudge
<1>5. CASE RestartRequest
  BY <1>5 DEF RestartRequest
<1>6. CASE Shutdown
  BY <1>6 DEF Shutdown
<1>7. ASSUME NEW t \in CoreThread, Lock(t) PROVE Ordered'
  BY <1>7 DEF Lock
<1>8. ASSUME NEW t \in CoreThread, Stop(t) PROVE Ordered'
  BY <1>8 DEF Stop
<1>9. ASSUME NEW t \in CoreThread, StartOk(t) PROVE Ordered'
  BY <1>9 DEF StartOk
<1>10. ASSUME NEW t \in CoreThread, StartFails(t) PROVE Ordered'
  BY <1>10 DEF StartFails
<1>11. CASE StatusOk \/ StatusFails \/ Close
  BY <1>11 DEF StatusOk, StatusFails, Close
<1>12. CASE UNCHANGED coreVars
  BY <1>12 DEF coreVars
<1> QED
  BY <1>1, <1>2, <1>3, <1>4, <1>5, <1>6, <1>7, <1>8, <1>9, <1>10, <1>11, <1>12 DEF CoreNext

\* A request that succeeded is served by every process that runs after it, whatever
\* crashes, health restarts, failed starts and other requests come in between.
THEOREM AcknowledgedIsServed == CoreSpec => []AckedIsServed
<1>1. CoreInit => CoreInv
  BY InitHolds
<1>2. CoreInv /\ [CoreNext]_coreVars => CoreInv'
  BY TypeStep, OrderStep DEF CoreInv
<1>3. CoreInv => AckedIsServed
  BY DEF CoreInv, CoreTypeOK, Ordered, AckedIsServed
<1> QED
  BY <1>1, <1>2, <1>3, PTL DEF CoreSpec
=============================================================================
