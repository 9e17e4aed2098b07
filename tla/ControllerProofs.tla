-------------------------- MODULE ControllerProofs --------------------------
(***************************************************************************)
(* What holds of the controller for any number of concurrent requests,     *)
(* clients, cores and keep-alives; and what holds besides, for any         *)
(* requests, clients and cores, when the panel waits for each answer and   *)
(* asks for no keep-alive (Serial).                                        *)
(***************************************************************************)
EXTENDS Controller, RateLimit, FiniteSetTheorems, SequenceTheorems, TLAPS

\* The goroutines of one request are three different goroutines, and those of
\* two requests are different.
LEMMA Goroutines ==
    ASSUME NEW r \in Req, NEW q \in Req
    PROVE  /\ Handler(r) \in Thread /\ Tracker(r) \in Thread
           /\ Recorder(r) \in Thread
           /\ Handler(r) = Handler(q) => r = q
           /\ Tracker(r) = Tracker(q) => r = q
           /\ Recorder(r) = Recorder(q) => r = q
           /\ Handler(r) # Tracker(q) /\ Handler(r) # Recorder(q)
           /\ Tracker(r) # Recorder(q)
  BY DEF Handler, Tracker, Recorder, Thread

\* Where Disconnect returns to: a handler only goes on to StartBackend when it
\* serves a Start.
LEMMA Continuations ==
    ASSUME NEW r \in Req
    PROVE  /\ AfterDisconnect(Tracker(r)) = "select"
           /\ AfterDisconnect(Handler(r)) \in {"retire", "log", "done"}
           /\ AfterDisconnect(Handler(r)) = "retire" => request[r].kind = "start"
  BY DEF AfterDisconnect, Tracker, Handler

\* A Start names a client and a core.
LEMMA StartFields ==
    ASSUME NEW ask \in Request, ask.kind = "start"
    PROVE  ask \in StartRequest /\ ask.client \in Client /\ ask.key \in Key
  BY DEF Request, StartRequest, PlainRequest, NoRequest

\* A handler inside Start serves a Start request.
StartsAreStarts ==
    \A r \in Req : pc[Handler(r)] \in StartPC => request[r].kind = "start"

\* Background goroutines are spawned by the Connect at the end of a Start.
SpawnedByConnect ==
    \A r \in Req : pc[Handler(r)] \notin {"log", "done"} =>
        pc[Tracker(r)] = "absent" /\ pc[Recorder(r)] = "absent"

TypeInv == TypeOK /\ StartsAreStarts /\ SpawnedByConnect

\* The node starts without client, core or goroutine.
LEMMA TypeInit == Init => TypeInv
  <1> SUFFICES ASSUME Init PROVE TypeInv
    OBVIOUS
  <1>1. request \in [Req -> Request] /\ idle \in 0..MaxIdle
    BY ControllerAssumption DEF Init, Request, ControllerAssumption
  <1>2. pc \in [Thread -> PC]
    BY DEF Init, PC
  <1>3. held \in [Thread -> SUBSET Req] /\ backends \in [Key -> Req \cup {None}]
    BY DEF Init
  <1>4. local \in [Thread -> BOOLEAN] /\ shaper \in BOOLEAN /\ hostShaped \in BOOLEAN
    BY DEF Init
  <1>5. \A r \in Req : /\ pc[Handler(r)] = "new"
                       /\ pc[Tracker(r)] = "absent" /\ pc[Recorder(r)] = "absent"
    BY Goroutines DEF Init, Handler, Tracker, Recorder
  <1>6. StartsAreStarts /\ SpawnedByConnect
    BY <1>5 DEF StartsAreStarts, SpawnedByConnect, StartPC
  <1> QED
    BY <1>1, <1>2, <1>3, <1>4, <1>6 DEF Init, TypeOK, TypeInv

\* Disconnect moves one goroutine along its own points and touches no request.
LEMMA TypeDisconnect ==
    ASSUME TypeInv, NEW r \in Req, NEW t \in {Handler(r), Tracker(r)},
           Disconnect(t)
    PROVE  TypeInv'
  <1> USE Goroutines DEF TypeInv, TypeOK, StartsAreStarts, SpawnedByConnect, At, Goto,
                         controllerVars, worldVars, PC, DisconnectPC, StartPC
  <1>1. CASE DisconnectCancel(t)
    BY <1>1 DEF DisconnectCancel
  <1>2. CASE DisconnectSnapshot(t)
    BY <1>2 DEF DisconnectSnapshot, Mapped
  <1>3. CASE DisconnectShutdown(t)
    BY <1>3 DEF DisconnectShutdown
  <1>4. CASE TakeShaper(t)
    BY <1>4 DEF TakeShaper
  <1>5. CASE CloseShaper(t)
    BY <1>5 DEF CloseShaper
  <1>6. CASE DisconnectReset(t)
    BY <1>6, Continuations DEF DisconnectReset
  <1> QED
    BY <1>1, <1>2, <1>3, <1>4, <1>5, <1>6 DEF Disconnect

\* The handler's own points, Disconnect apart.
LEMMA TypeHandler ==
    ASSUME TypeInv, NEW r \in Req, HandlerStep(r)
    PROVE  TypeInv'
  <1> USE Goroutines DEF TypeInv, TypeOK, StartsAreStarts, SpawnedByConnect, At, Goto,
                         controllerVars, worldVars, PC, DisconnectPC, StartPC
  <1>1. CASE CheckBackend(r) \/ UseBackend(r) \/ LogSuccess(r)
    BY <1>1, ControllerAssumption
       DEF CheckBackend, UseBackend, LogSuccess, ControllerAssumption
  <1>2. CASE StartExisting(r)
    BY <1>2 DEF StartExisting
  <1>3. CASE StartIp(r)
    BY <1>3 DEF StartIp
  <1>4. CASE RefuseDisabled(r)
    BY <1>4 DEF RefuseDisabled
  <1>5. CASE RetireOld(r)
    <2>1. request[r].key \in Key
      BY <1>5, StartFields DEF RetireOld
    <2> QED
      BY <1>5, <2>1 DEF RetireOld
  <1>6. CASE ShutdownOld(r)
    BY <1>6 DEF ShutdownOld
  <1>7. CASE Launch(r)
    BY <1>7 DEF Launch
  <1>8. CASE InsertNew(r)
    BY <1>8 DEF InsertNew
  <1>9. CASE ConnectClient(r)
    <2>1. request[r].client \in Client
      BY <1>9, StartFields DEF ConnectClient
    <2>2. idle' \in 0..MaxIdle
      BY <1>9, ControllerAssumption DEF ConnectClient, ControllerAssumption
    <2>3. CASE local[Handler(r)]
      BY <1>9, <2>2, <2>3 DEF ConnectClient
    <2>4. CASE ~local[Handler(r)]
      <3>1. PICK label \in {"select", "absent"} :
              pc' = [pc EXCEPT ![Handler(r)] = "log",
                               ![Recorder(r)] = "refresh",
                               ![Tracker(r)] = label]
        BY <1>9, <2>4 DEF ConnectClient
      <3>2. TypeOK'
        BY <1>9, <2>1, <2>2, <2>4, <3>1 DEF ConnectClient
      <3>3. (StartsAreStarts /\ SpawnedByConnect)'
        BY <1>9, <3>1 DEF ConnectClient
      <3> QED
        BY <3>2, <3>3
    <2> QED
      BY <2>3, <2>4
  <1>10. CASE Disconnect(Handler(r))
    BY <1>10, TypeDisconnect
  <1> QED
    BY <1>1, <1>2, <1>3, <1>4, <1>5, <1>6, <1>7, <1>8, <1>9, <1>10
       DEF HandlerStep

\* The background goroutines and the arrival of a request.
LEMMA TypeBackground ==
    ASSUME TypeInv, NEW r \in Req,
           \/ Arrive(r) \/ TrackerStep(r) \/ ShapingStep(r)
           \/ BackgroundExit(Tracker(r)) \/ BackgroundExit(Recorder(r))
    PROVE  TypeInv'
  <1> USE Goroutines DEF TypeInv, TypeOK, StartsAreStarts, SpawnedByConnect, At, Goto,
                         controllerVars, worldVars, PC, DisconnectPC, StartPC
  <1>1. CASE Arrive(r)
    <2>1. PICK ask \in StartRequest \cup PlainRequest :
             /\ request' = [request EXCEPT ![r] = ask]
             /\ Goto(Handler(r), CASE ask.kind = "start" -> "existing"
                                   [] ask.kind = "exit"  -> "cancel"
                                   [] OTHER              -> "check")
      BY <1>1 DEF Arrive
    <2>2. ask \in Request /\ ask.kind \in {"start", "stop", "call", "exit"}
      BY DEF Request, StartRequest, PlainRequest
    <2> QED
      BY <1>1, <2>1, <2>2 DEF Arrive
  <1>2. CASE TrackerTick(r)
    BY <1>2 DEF TrackerTick
  <1>3. CASE Disconnect(Tracker(r))
    BY <1>3, TypeDisconnect
  <1>4. CASE ShapingSnapshot(r)
    BY <1>4 DEF ShapingSnapshot
  <1>5. CASE ShapingCreate(r)
    BY <1>5 DEF ShapingCreate
  <1>6. CASE ShapingApply(r)
    BY <1>6 DEF ShapingApply
  <1>7. CASE BackgroundExit(Tracker(r)) \/ BackgroundExit(Recorder(r))
    BY <1>7 DEF BackgroundExit
  <1> QED
    BY <1>1, <1>2, <1>3, <1>4, <1>5, <1>6, <1>7 DEF TrackerStep, ShapingStep

\* Every variable keeps its type, and a handler inside Start serves a Start.
THEOREM TypeCorrect == Spec => []TypeInv
  <1>1. TypeInv /\ [Next]_vars => TypeInv'
    <2> SUFFICES ASSUME TypeInv, [Next]_vars PROVE TypeInv'
      OBVIOUS
    <2>1. CASE Tick
      BY <2>1, ControllerAssumption
         DEF Tick, TypeInv, TypeOK, StartsAreStarts, SpawnedByConnect, controllerVars, worldVars,
             ControllerAssumption
    <2>2. CASE UNCHANGED vars
      BY <2>2 DEF vars, TypeInv, TypeOK, StartsAreStarts, SpawnedByConnect
    <2> QED
      BY <2>1, <2>2, TypeHandler, TypeBackground DEF Next
  <1> QED
    BY TypeInit, <1>1, PTL DEF Spec

\* The controller's fields and the goroutines' locals keep their types, for any
\* number of requests: in particular a nil instance is never "shut down".
THEOREM TypesHold == Spec => []TypeOK
  BY TypeCorrect, PTL DEF TypeInv

-----------------------------------------------------------------------------
\* The requests whose core has been registered; it may be gone again.
Registered == {r \in Req : pc[Handler(r)] \in {"connect", "log", "done"}}

\* Each core is filed under the key its request named.
FiledByKey ==
    \A k \in Key : backends[k] # None =>
        backends[k] \in Registered /\ request[backends[k]].key = k

\* A core launched and not yet registered runs: nobody else knows it.
UnregisteredRuns == \A r \in Req : pc[Handler(r)] = "insert" => r \in cores

\* What a Disconnect is shutting down was registered before.
DisconnectHolds ==
    \A t \in Thread : pc[t] = "shutdown" => held[t] \subseteq Registered

\* What a Start is retiring was registered before and is not any more.
RetiringHolds ==
    \A r \in Req : pc[Handler(r)] = "retiring" =>
        held[Handler(r)] \subseteq Registered \ Mapped

\* The inductive strengthening of DeadCoreIsLeaving.  It is needed because a
\* core leaves `cores' in two places that name it through a local variable
\* (`held'): the locals must be known never to name a core that is about to be
\* registered, nor, for a Start, one that is still registered.
CoreInv ==
    /\ FiledByKey /\ UnregisteredRuns /\ DisconnectHolds /\ RetiringHolds
    /\ DeadCoreIsLeaving

\* At the start no core is registered.
LEMMA CoreInit == Init => CoreInv
  <1> SUFFICES ASSUME Init PROVE CoreInv
    OBVIOUS
  <1>1. \A r \in Req : pc[Handler(r)] = "new"
    BY Goroutines DEF Init, Handler
  <1>2. \A t \in Thread : pc[t] \in {"new", "absent"}
    BY DEF Init
  <1>3. Mapped = {}
    BY DEF Init, Mapped
  <1>4. \A k \in Key : backends[k] = None
    BY DEF Init
  <1> QED
    BY <1>1, <1>2, <1>3, <1>4
       DEF CoreInv, FiledByKey, UnregisteredRuns, DisconnectHolds,
           RetiringHolds, DeadCoreIsLeaving

\* A core is registered under one key only, so taking it out takes it out.
LEMMA MappedOnce ==
    ASSUME TypeInv, FiledByKey, NEW k \in Key, NEW l \in Key,
           backends[k] = backends[l], backends[k] # None
    PROVE  k = l
  BY DEF FiledByKey

\* Disconnect preserves the invariant: the cores it shuts down were registered
\* and it will empty the map before it leaves.
LEMMA CoreDisconnect ==
    ASSUME TypeInv, CoreInv, NEW r \in Req, NEW t \in {Handler(r), Tracker(r)},
           Disconnect(t)
    PROVE  CoreInv'
  <1> USE Goroutines DEF TypeInv, TypeOK, At, Goto, controllerVars, worldVars,
        CoreInv, FiledByKey, UnregisteredRuns, DisconnectHolds, RetiringHolds,
        DeadCoreIsLeaving, Registered, Mapped
  <1> USE DEF AfterSnapshotPC, AfterCancelPC, DisconnectPC
  <1>1. CASE DisconnectCancel(t)
    BY <1>1 DEF DisconnectCancel
  <1>2. CASE DisconnectSnapshot(t)
    BY <1>2 DEF DisconnectSnapshot
  <1>3. CASE DisconnectShutdown(t)
    BY <1>3 DEF DisconnectShutdown
  <1>4. CASE TakeShaper(t)
    BY <1>4 DEF TakeShaper
  <1>5. CASE CloseShaper(t)
    BY <1>5 DEF CloseShaper
  <1>6. CASE DisconnectReset(t)
    BY <1>6, Continuations DEF DisconnectReset
  <1> QED
    BY <1>1, <1>2, <1>3, <1>4, <1>5, <1>6 DEF Disconnect

\* A handler's own points.  Retiring takes the core out of the map first, and a
\* core is registered running.
LEMMA CoreHandler ==
    ASSUME TypeInv, CoreInv, NEW r \in Req, HandlerStep(r)
    PROVE  CoreInv'
  <1> USE Goroutines DEF TypeInv, TypeOK, At, Goto, controllerVars, worldVars,
        CoreInv, FiledByKey, UnregisteredRuns, DisconnectHolds, RetiringHolds,
        DeadCoreIsLeaving, Registered, Mapped
  <1> USE DEF AfterSnapshotPC, AfterCancelPC, DisconnectPC
  <1>1. CASE CheckBackend(r)
    BY <1>1 DEF CheckBackend
  <1>2. CASE UseBackend(r) \/ LogSuccess(r)
    <2>1. CASE UseBackend(r)
      <3>1. PICK result \in {"panic", "log", "done"} : Goto(Handler(r), result)
        BY <2>1 DEF UseBackend
      <3> QED
        BY <2>1, <3>1 DEF UseBackend
    <2>2. CASE LogSuccess(r)
      BY <2>2 DEF LogSuccess
    <2> QED
      BY <1>2, <2>1, <2>2
  <1>3. CASE StartExisting(r) \/ StartIp(r) \/ RefuseDisabled(r)
    <2>1. CASE StartExisting(r)
      BY <2>1 DEF StartExisting
    <2>2. CASE StartIp(r)
      BY <2>2 DEF StartIp
    <2>3. CASE RefuseDisabled(r)
      BY <2>3 DEF RefuseDisabled
    <2> QED
      BY <1>3, <2>1, <2>2, <2>3
  <1>4. CASE RetireOld(r)
    <2>1. request[r].key \in Key
      BY <1>4, StartFields DEF RetireOld, StartsAreStarts, StartPC
    <2> QED
      BY <1>4, <2>1, MappedOnce DEF RetireOld
  <1>5. CASE ShutdownOld(r)
    BY <1>5 DEF ShutdownOld
  <1>6. CASE Launch(r)
    BY <1>6 DEF Launch
  <1>7. CASE InsertNew(r)
    BY <1>7 DEF InsertNew
  <1>8. CASE ConnectClient(r)
    <2>1. CASE local[Handler(r)]
      BY <1>8, <2>1 DEF ConnectClient
    <2>2. CASE ~local[Handler(r)]
      <3>1. pc[Tracker(r)] = "absent" /\ pc[Recorder(r)] = "absent"
        BY <1>8 DEF ConnectClient, SpawnedByConnect
      <3> QED
        BY <1>8, <2>2, <3>1 DEF ConnectClient
    <2> QED
      BY <2>1, <2>2
  <1>9. CASE Disconnect(Handler(r))
    BY <1>9, CoreDisconnect
  <1> QED
    BY <1>1, <1>2, <1>3, <1>4, <1>5, <1>6, <1>7, <1>8, <1>9 DEF HandlerStep

\* The trackers and recorders preserve the invariant.
LEMMA CoreBackground ==
    ASSUME TypeInv, CoreInv, NEW r \in Req,
           \/ Arrive(r) \/ TrackerStep(r) \/ ShapingStep(r)
           \/ BackgroundExit(Tracker(r)) \/ BackgroundExit(Recorder(r))
    PROVE  CoreInv'
  <1> USE Goroutines DEF TypeInv, TypeOK, At, Goto, controllerVars, worldVars,
        CoreInv, FiledByKey, UnregisteredRuns, DisconnectHolds, RetiringHolds,
        DeadCoreIsLeaving, Registered, Mapped
  <1> USE DEF AfterSnapshotPC, AfterCancelPC, DisconnectPC
  <1>1. CASE Arrive(r)
    BY <1>1 DEF Arrive
  <1>2. CASE TrackerTick(r)
    BY <1>2 DEF TrackerTick
  <1>3. CASE Disconnect(Tracker(r))
    BY <1>3, CoreDisconnect
  <1>4. CASE ShapingSnapshot(r)
    <2>1. PICK label \in {"apply", "create", "select"} : Goto(Recorder(r), label)
      BY <1>4 DEF ShapingSnapshot
    <2> QED
      BY <1>4, <2>1 DEF ShapingSnapshot
  <1>5. CASE ShapingCreate(r)
    BY <1>5 DEF ShapingCreate
  <1>6. CASE ShapingApply(r)
    BY <1>6 DEF ShapingApply
  <1>7. CASE BackgroundExit(Tracker(r)) \/ BackgroundExit(Recorder(r))
    BY <1>7 DEF BackgroundExit
  <1> QED
    BY <1>1, <1>2, <1>3, <1>4, <1>5, <1>6, <1>7 DEF TrackerStep, ShapingStep

\* Every step preserves the invariant.
LEMMA CoreHolds == Spec => []CoreInv
  <1>1. TypeInv /\ CoreInv /\ [Next]_vars => CoreInv'
    <2> SUFFICES ASSUME TypeInv, CoreInv, [Next]_vars PROVE CoreInv'
      OBVIOUS
    <2> USE DEF CoreInv, FiledByKey, UnregisteredRuns, DisconnectHolds,
                RetiringHolds, DeadCoreIsLeaving, Registered, Mapped
    <2>1. CASE Tick
      BY <2>1 DEF Tick, controllerVars, worldVars
    <2>2. CASE UNCHANGED vars
      BY <2>2 DEF vars
    <2> QED
      BY <2>1, <2>2, CoreHandler, CoreBackground DEF Next
  <1> QED
    BY CoreInit, TypeCorrect, <1>1, PTL DEF Spec

\* Under any interleaving of any number of Start, Stop and other requests and
\* of the keep-alive trackers, a registered core that is down is on its way out
\* of the map.
THEOREM RegisteredCoresRun == Spec => []DeadCoreIsLeaving
  BY CoreHolds, PTL DEF CoreInv

-----------------------------------------------------------------------------
\* The client in control always has live background goroutines, unless it is
\* being disconnected: of a cancel and a Connect that race, either the new
\* context survives or the client is forgotten.
THEOREM ClientsAreAttended == Spec => []ClientIsAttended
  <1> USE DEF ClientIsAttended, AfterCancelPC, DisconnectPC
  <1>1. Init => ClientIsAttended
    BY DEF Init
  <1>2. TypeInv /\ ClientIsAttended /\ [Next]_vars => ClientIsAttended'
    <2> SUFFICES ASSUME TypeInv, ClientIsAttended, [Next]_vars
                 PROVE  ClientIsAttended'
      OBVIOUS
    <2> USE Goroutines DEF TypeInv, TypeOK, At, Goto, controllerVars, worldVars
    <2>1. ASSUME NEW r \in Req, NEW t \in {Handler(r), Tracker(r)}, Disconnect(t)
          PROVE  ClientIsAttended'
      <3>1. CASE DisconnectCancel(t) \/ DisconnectSnapshot(t)
        BY <2>1, <3>1 DEF DisconnectCancel, DisconnectSnapshot
      <3>2. CASE DisconnectShutdown(t) \/ TakeShaper(t) \/ CloseShaper(t)
        BY <2>1, <3>2 DEF DisconnectShutdown, TakeShaper, CloseShaper
      <3>3. CASE DisconnectReset(t)
        BY <2>1, <3>3 DEF DisconnectReset
      <3> QED
        BY <2>1, <3>1, <3>2, <3>3 DEF Disconnect
    <2>2. ASSUME NEW r \in Req, HandlerStep(r) PROVE ClientIsAttended'
      <3>1. CASE CheckBackend(r) \/ LogSuccess(r)
        BY <2>2, <3>1 DEF CheckBackend, LogSuccess
      <3>6. CASE UseBackend(r)
        <4>1. PICK result \in {"panic", "log", "done"} : Goto(Handler(r), result)
          BY <3>6 DEF UseBackend
        <4> QED
          BY <3>6, <4>1 DEF UseBackend
      <3>2. CASE StartExisting(r) \/ StartIp(r) \/ RefuseDisabled(r)
        BY <2>2, <3>2 DEF StartExisting, StartIp, RefuseDisabled
      <3>3. CASE RetireOld(r) \/ ShutdownOld(r) \/ Launch(r) \/ InsertNew(r)
        BY <2>2, <3>3 DEF RetireOld, ShutdownOld, Launch, InsertNew
      <3>4. CASE ConnectClient(r)
        BY <2>2, <3>4 DEF ConnectClient
      <3>5. CASE Disconnect(Handler(r))
        BY <2>1, <3>5
      <3> QED
        BY <2>2, <3>1, <3>2, <3>3, <3>4, <3>5, <3>6 DEF HandlerStep
    <2>3. ASSUME NEW r \in Req,
                 \/ Arrive(r) \/ TrackerStep(r) \/ ShapingStep(r)
                 \/ BackgroundExit(Tracker(r)) \/ BackgroundExit(Recorder(r))
          PROVE  ClientIsAttended'
      <3>1. CASE Arrive(r)
        BY <2>3, <3>1 DEF Arrive
      <3>2. CASE TrackerStep(r)
        BY <2>1, <2>3, <3>2 DEF TrackerStep, TrackerTick
      <3>3. CASE ShapingStep(r)
        <4>1. /\ UNCHANGED <<clientIP, cancelFunc, contexts>>
              /\ \E label \in {"apply", "create", "select"} :
                    Goto(Recorder(r), label)
              /\ pc[Recorder(r)] \in {"refresh", "select", "create", "apply"}
          BY <3>3 DEF ShapingStep, ShapingSnapshot, ShapingCreate, ShapingApply
        <4> QED
          BY <4>1
      <3>4. CASE BackgroundExit(Tracker(r)) \/ BackgroundExit(Recorder(r))
        BY <2>3, <3>4 DEF BackgroundExit
      <3> QED
        BY <2>3, <3>1, <3>2, <3>3, <3>4
    <2>4. CASE Tick \/ UNCHANGED vars
      BY <2>4 DEF Tick, vars
    <2> QED
      BY <2>2, <2>3, <2>4 DEF Next
  <1> QED
    BY <1>1, <1>2, TypeCorrect, PTL DEF Spec
-----------------------------------------------------------------------------
(* A panel that waits for each answer and asks for no keep-alive: one      *)
(* handler and the statistics recorders are all that interleave.           *)

Serial == Concurrency = 1 /\ KeepAlive = {0}

\* One request is served at a time, and no keep-alive tracker runs beside it.
OneAtATime ==
    /\ \A r, q \in InFlight : r = q
    /\ \A r \in Req : /\ pc[Tracker(r)] = "absent"
                      /\ pc[Recorder(r)] \in {"absent", "refresh", "select",
                                              "create", "apply"}

\* Where Start is about to change, or has changed, the map.
StartingPC == {"retire", "retiring", "launch", "insert", "connect"}

\* Only the handler at work holds cores outside the map; the key it is starting
\* a core for is free meanwhile.
InItsHands ==
    /\ \A t \in Thread : held[t] # {} => pc[t] \in {"retiring", "insert", "shutdown"}
    /\ \A r \in Req : /\ pc[Handler(r)] = "insert" => held[Handler(r)] = {r}
                      /\ pc[Handler(r)] \in {"retiring", "launch", "insert"} =>
                            backends[request[r].key] = None

\* A Disconnect gets hold of every core that runs, and leaves none running.
Emptying ==
    \A r \in Req :
        /\ pc[Handler(r)] = "shutdown" => cores \subseteq held[Handler(r)]
        /\ pc[Handler(r)] \in {"takeShaper", "closeShaper", "reset"} => cores = {}

\* What the handler found in the map is still there when it relies on it.
StillThere == \A r \in Req : pc[Handler(r)] \in {"use", "ip"} => Mapped # {}

\* The registered cores were started by the client in control; only the core a
\* new client has just registered waits for its Connect.
Owned ==
    \A b \in Mapped : \/ request[b].client = clientIP
                      \/ pc[Handler(b)] = "connect" /\ ~local[Handler(b)]

\* A Start adds a core to those of its own client, or starts from an empty map.
AddsOrTakesOver ==
    \A r \in Req : pc[Handler(r)] \in StartingPC =>
        IF local[Handler(r)] THEN clientIP = request[r].client
                             ELSE Mapped \subseteq {r}

\* A Start that disconnects goes on as the Start of a new client.
TakesOver ==
    \A r \in Req : request[r].kind = "start" /\ pc[Handler(r)] \in DisconnectPC =>
        ~local[Handler(r)]

\* What holds when requests come one at a time.  NoOrphanCore, NoPanic and
\* SameClientAdds are part of it; OwnedAndAttended follows from it with
\* DeadCoreIsLeaving and ClientIsAttended, which hold for any panel.
SerialInv ==
    /\ OneAtATime /\ InItsHands /\ Emptying /\ StillThere /\ Owned
    /\ AddsOrTakesOver /\ TakesOver
    /\ NoOrphanCore /\ NoPanic /\ SameClientAdds

\* Where a goroutine is that is not serving a request.
RestPC == {"new", "done", "absent", "refresh", "select", "create", "apply"}

\* The handler at work is alone: nobody else holds a core.
LEMMA Alone ==
    ASSUME TypeInv, SerialInv, NEW r \in Req,
           pc[Handler(r)] \notin {"new", "done"}
    PROVE  /\ \A t \in Thread \ {Handler(r)} : pc[t] \in RestPC /\ held[t] = {}
           /\ InHand = held[Handler(r)]
  <1>1. ASSUME NEW t \in Thread \ {Handler(r)} PROVE pc[t] \in RestPC
    <2>1. PICK q \in Req : t \in {Handler(q), Tracker(q), Recorder(q)}
      BY DEF Thread, Handler, Tracker, Recorder
    <2>2. CASE t = Handler(q)
      BY <2>2 DEF SerialInv, OneAtATime, InFlight, RestPC
    <2>3. CASE t # Handler(q)
      BY <2>1, <2>3 DEF SerialInv, OneAtATime, RestPC
    <2> QED
      BY <2>2, <2>3
  <1>2. \A t \in Thread \ {Handler(r)} : held[t] = {}
    BY <1>1 DEF SerialInv, InItsHands, RestPC
  <1>3. InHand = held[Handler(r)]
    BY <1>2, Goroutines DEF InHand
  <1> QED
    BY <1>1, <1>2, <1>3

\* When no request is in flight nobody holds a core.
LEMMA NobodyHolds ==
    ASSUME TypeInv, SerialInv, InFlight = {}
    PROVE  /\ \A t \in Thread : pc[t] \in RestPC /\ held[t] = {}
           /\ InHand = {}
  <1>1. ASSUME NEW t \in Thread PROVE pc[t] \in RestPC
    <2>1. PICK q \in Req : t \in {Handler(q), Tracker(q), Recorder(q)}
      BY DEF Thread, Handler, Tracker, Recorder
    <2>2. CASE t = Handler(q)
      BY <2>2 DEF InFlight, RestPC
    <2>3. CASE t # Handler(q)
      BY <2>1, <2>3 DEF SerialInv, OneAtATime, RestPC
    <2> QED
      BY <2>2, <2>3
  <1>2. \A t \in Thread : held[t] = {}
    BY <1>1 DEF SerialInv, InItsHands, RestPC
  <1> QED
    BY <1>1, <1>2 DEF InHand

\* With a panel that waits, a request arrives when none is in flight.
LEMMA ArrivesAlone ==
    ASSUME Serial, SerialInv, NEW r \in Req, Arrive(r)
    PROVE  InFlight = {}
  <1>1. IsFiniteSet(InFlight)
    <2>1. CASE InFlight = {}
      BY <2>1, FS_EmptySet
    <2>2. CASE InFlight # {}
      <3>1. PICK q \in InFlight : TRUE
        BY <2>2
      <3>2. InFlight = {q}
        BY <3>1 DEF SerialInv, OneAtATime
      <3> QED
        BY <3>2, FS_Singleton
    <2> QED
      BY <2>1, <2>2
  <1>2. Cardinality(InFlight) \in Nat /\ Cardinality(InFlight) < 1
    BY <1>1, FS_CardinalityType DEF Arrive, Serial
  <1> QED
    BY <1>1, <1>2, FS_EmptySet

\* At the start nothing is in flight, registered or running.
LEMMA SerialInit == Init => SerialInv
  <1> SUFFICES ASSUME Init PROVE SerialInv
    OBVIOUS
  <1>1. \A r \in Req : /\ pc[Handler(r)] = "new"
                       /\ pc[Tracker(r)] = "absent" /\ pc[Recorder(r)] = "absent"
    BY Goroutines DEF Init, Handler, Tracker, Recorder
  <1>2. Mapped = {} /\ cores = {} /\ \A t \in Thread : held[t] = {}
    BY DEF Init, Mapped
  <1>3. InFlight = {}
    BY <1>1 DEF InFlight
  <1> QED
    BY <1>1, <1>2, <1>3
       DEF SerialInv, OneAtATime, InItsHands, Emptying, StillThere, Owned,
           AddsOrTakesOver, TakesOver, NoOrphanCore, NoPanic, SameClientAdds,
           StartingPC, DisconnectPC

\* A Disconnect that no other request meets shuts down whatever runs, and
\* leaves an empty map to the Start it was called from.
LEMMA SerialDisconnect ==
    ASSUME TypeInv, CoreInv, SerialInv, TypeInv', NEW r \in Req, Disconnect(Handler(r))
    PROVE  SerialInv'
  <1> DEFINE h == Handler(r)
  <1>0. /\ pc[h] \in DisconnectPC /\ h \in Thread
        /\ \E label \in DisconnectPC \cup {"retire", "log", "done"} :
              /\ pc' = [pc EXCEPT ![h] = label]
              /\ label = "retire" => request[r].kind = "start" /\ pc[h] = "reset"
              /\ label \in {"retire", "log", "done"} => backends' = [k \in Key |-> None]
              /\ label \notin {"retire", "log", "done"} => UNCHANGED <<backends, clientIP>>
    <2>1. CASE pc[h] = "reset"
      BY <2>1, Continuations, Goroutines
         DEF Disconnect, DisconnectReset, DisconnectCancel, DisconnectSnapshot,
             DisconnectShutdown, TakeShaper, CloseShaper, At, Goto, DisconnectPC
    <2>2. CASE pc[h] # "reset"
      BY <2>2, Goroutines
         DEF Disconnect, DisconnectReset, DisconnectCancel, DisconnectSnapshot,
             DisconnectShutdown, TakeShaper, CloseShaper, At, Goto, DisconnectPC,
             controllerVars, TypeInv, TypeOK
    <2> QED
      BY <2>1, <2>2
  <1> USE DEF TypeInv, TypeOK
  <1>1. PICK label \in DisconnectPC \cup {"retire", "log", "done"} :
              /\ pc' = [pc EXCEPT ![h] = label]
              /\ label = "retire" => request[r].kind = "start" /\ pc[h] = "reset"
              /\ label \in {"retire", "log", "done"} => backends' = [k \in Key |-> None]
              /\ label \notin {"retire", "log", "done"} => UNCHANGED <<backends, clientIP>>
    BY <1>0
  <1>2. /\ \A t \in Thread \ {h} : pc[t] \in RestPC /\ held[t] = {}
        /\ InHand = held[h]
    BY <1>0, Alone DEF DisconnectPC
  <1>3. UNCHANGED <<request, local>> /\ \A t \in Thread \ {h} : held'[t] = held[t]
    BY DEF Disconnect, DisconnectReset, DisconnectCancel, DisconnectSnapshot,
           DisconnectShutdown, TakeShaper, CloseShaper
  <1>4. InHand' = held'[h]
    BY <1>0, <1>2, <1>3 DEF InHand
  <1>5. OneAtATime'
    BY <1>0, <1>1, Goroutines DEF SerialInv, OneAtATime, InFlight, DisconnectPC
  <1>6. /\ label \in {"retire", "log", "done"} => Mapped' = {}
        /\ label \notin {"retire", "log", "done"} => Mapped' = Mapped
    <2>1. CASE label \in {"retire", "log", "done"}
      <3>1. \A k \in Key : backends'[k] = None
        BY <1>1, <2>1
      <3> QED
        BY <2>1, <3>1 DEF Mapped
    <2>2. CASE label \notin {"retire", "log", "done"}
      <3>1. backends' = backends
        BY <1>1, <2>2
      <3> QED
        BY <2>2, <3>1 DEF Mapped
    <2> QED
      BY <2>1, <2>2
  <1>7. StillThere' /\ NoPanic' /\ AddsOrTakesOver' /\ TakesOver'
    <2>1. ASSUME NEW q \in Req, q # r
          PROVE  pc'[Handler(q)] = pc[Handler(q)] /\ pc[Handler(q)] \in {"new", "done"}
      BY <1>0, <1>1, <2>1, Goroutines DEF SerialInv, OneAtATime, InFlight, DisconnectPC
    <2>2. pc'[h] = label
      BY <1>0, <1>1
    <2>3. StillThere' /\ NoPanic'
      BY <1>1, <2>1, <2>2 DEF StillThere, NoPanic, DisconnectPC
    <2>4. TakesOver'
      BY <1>0, <1>3, <2>1, <2>2 DEF SerialInv, TakesOver, DisconnectPC
    <2>5. AddsOrTakesOver'
      BY <1>0, <1>1, <1>3, <1>6, <2>1, <2>2
         DEF SerialInv, AddsOrTakesOver, TakesOver, StartingPC, DisconnectPC
    <2> QED
      BY <2>3, <2>4, <2>5
  <1>8. Owned'
    <2>1. CASE Mapped' = {}
      BY <2>1 DEF Owned
    <2>2. CASE label \notin {"retire", "log", "done"}
      <3>1. clientIP' = clientIP /\ Mapped' = Mapped
        BY <1>1, <1>6, <2>2
      <3>2. ASSUME NEW b \in Mapped PROVE request[b].client = clientIP
        <4>1. b \in Req
          BY DEF Mapped
        <4>2. pc[Handler(b)] # "connect"
          BY <1>0, <4>1 DEF SerialInv, OneAtATime, InFlight, DisconnectPC
        <4> QED
          BY <4>2 DEF SerialInv, Owned
      <3> QED
        BY <1>3, <3>1, <3>2 DEF Owned
    <2> QED
      BY <1>6, <2>1, <2>2
  <1>9. SameClientAdds'
    <2>1. ASSUME NEW q \in Req, q # r
          PROVE  pc'[Handler(q)] = pc[Handler(q)]
      BY <1>0, <1>1, <2>1, Goroutines
    <2> QED
      BY <1>0, <1>1, <1>3, <2>1 DEF SerialInv, SameClientAdds
  <1>10. InItsHands' /\ Emptying' /\ NoOrphanCore'
    <2>1. ASSUME NEW q \in Req, q # r
          PROVE  pc'[Handler(q)] = pc[Handler(q)] /\ pc[Handler(q)] \in {"new", "done"}
      BY <1>0, <1>1, <2>1, Goroutines DEF SerialInv, OneAtATime, InFlight, DisconnectPC
    <2>2. \A t \in Thread \ {h} : held'[t] = {}
      BY <1>2, <1>3
    <2>3. \/ pc[h] = "shutdown" \/ held[h] = {}
      BY <1>0 DEF SerialInv, InItsHands, DisconnectPC
    <2>4. CASE DisconnectCancel(h)
      BY <1>0, <1>2, <1>4, <2>1, <2>2, <2>3, <2>4, Goroutines
         DEF DisconnectCancel, At, Goto, controllerVars, worldVars, SerialInv, InItsHands,
             Emptying, NoOrphanCore, Mapped
    <2>5. CASE DisconnectSnapshot(h)
      BY <1>0, <1>2, <1>4, <2>1, <2>2, <2>3, <2>5, Goroutines
         DEF DisconnectSnapshot, At, Goto, controllerVars, worldVars, SerialInv, InItsHands,
             Emptying, NoOrphanCore, Mapped
    <2>6. CASE DisconnectShutdown(h)
      BY <1>0, <1>2, <1>4, <2>1, <2>2, <2>3, <2>6, Goroutines
         DEF DisconnectShutdown, At, Goto, controllerVars, worldVars, SerialInv, InItsHands,
             Emptying, NoOrphanCore, Mapped
    <2>7. CASE TakeShaper(h)
      BY <1>0, <1>2, <1>4, <2>1, <2>2, <2>3, <2>7, Goroutines
         DEF TakeShaper, At, Goto, controllerVars, worldVars, SerialInv, InItsHands,
             Emptying, NoOrphanCore, Mapped
    <2>8. CASE CloseShaper(h)
      BY <1>0, <1>2, <1>4, <2>1, <2>2, <2>3, <2>8, Goroutines
         DEF CloseShaper, At, Goto, controllerVars, worldVars, SerialInv, InItsHands,
             Emptying, NoOrphanCore, Mapped
    <2>9. CASE DisconnectReset(h)
      <3>1. pc'[h] \in {"retire", "log", "done"}
        BY <1>0, <2>9, Continuations DEF DisconnectReset, Goto
      <3>2. cores' = {} /\ held'[h] = {}
        BY <1>0, <2>3, <2>9 DEF DisconnectReset, At, worldVars, SerialInv, Emptying
      <3> QED
        BY <1>4, <2>1, <2>2, <3>1, <3>2 DEF InItsHands, Emptying, NoOrphanCore
    <2> QED
      BY <2>4, <2>5, <2>6, <2>7, <2>8, <2>9 DEF Disconnect
  <1> QED
    BY <1>5, <1>7, <1>8, <1>9, <1>10 DEF SerialInv

\* The handler of r goes to `label' and touches no other goroutine's state.
Moves(r, label) ==
    /\ pc[Handler(r)] \notin {"new", "done"}
    /\ pc'[Handler(r)] = label
    /\ \A q \in Req \ {r} : pc'[Handler(q)] = pc[Handler(q)]
    /\ \A q \in Req : /\ pc'[Tracker(q)] = "absent"
                      /\ pc'[Recorder(q)] \in {"absent", "refresh", "select",
                                               "create", "apply"}
    /\ \A t \in Thread \ {Handler(r)} : held'[t] = held[t]
    /\ request' = request

\* What the handler leaves to be true where it arrives.
Arrives(r, label) ==
    /\ held'[Handler(r)] # {} => label \in {"retiring", "insert"}
    /\ label = "insert" => held'[Handler(r)] = {r}
    /\ label \in {"retiring", "launch", "insert"} => backends'[request[r].key] = None
    /\ label \in {"use", "ip"} => Mapped' # {}
    /\ cores' \subseteq Mapped' \cup held'[Handler(r)]
    /\ label \in StartingPC =>
          IF local'[Handler(r)] THEN clientIP' = request[r].client
                                ELSE Mapped' \subseteq {r}
    /\ request[r].kind = "start" /\ label = "cancel" =>
          /\ ~local'[Handler(r)]
          /\ \E q \in Req : request[q].kind = "start"
                            /\ request[q].client # request[r].client

\* So the invariant is a matter of the handler at work alone.
LEMMA HandlerMoves ==
    ASSUME TypeInv, SerialInv, NEW r \in Req,
           NEW label \in StartPC \cup {"cancel", "use", "log", "done"},
           Moves(r, label), Arrives(r, label), Owned'
    PROVE  SerialInv'
  <1> USE Goroutines
  <1>1. \A q \in Req \ {r} : pc'[Handler(q)] \in {"new", "done"}
    BY DEF Moves, SerialInv, OneAtATime, InFlight
  <1>2. pc'[Handler(r)] = label
    BY DEF Moves
  <1>3. OneAtATime'
    BY <1>1, <1>2 DEF Moves, OneAtATime, InFlight
  <1>4. \A t \in Thread \ {Handler(r)} : held'[t] = {}
    BY Alone DEF Moves
  <1>5. InItsHands'
    BY <1>1, <1>2, <1>4 DEF Moves, Arrives, InItsHands
  <1>6. Emptying' /\ StillThere' /\ NoPanic'
    BY <1>1, <1>2 DEF Arrives, Emptying, StillThere, NoPanic, StartPC
  <1>7. AddsOrTakesOver'
    BY <1>1, <1>2 DEF Moves, Arrives, AddsOrTakesOver, StartingPC
  <1>8. TakesOver' /\ SameClientAdds'
    BY <1>1, <1>2 DEF Moves, Arrives, TakesOver, SameClientAdds, DisconnectPC, StartPC
  <1>9. NoOrphanCore'
    <2>1. InHand' = held'[Handler(r)]
      BY <1>4 DEF InHand
    <2> QED
      BY <2>1 DEF Arrives, NoOrphanCore
  <1> QED
    BY <1>3, <1>5, <1>6, <1>7, <1>8, <1>9 DEF SerialInv

\* A handler that no other request meets: what it found is still so when it
\* acts on it.
LEMMA SerialHandler ==
    ASSUME Serial, TypeInv, CoreInv, SerialInv, NEW r \in Req, HandlerStep(r)
    PROVE  SerialInv'
  <1> DEFINE h == Handler(r)
  <1> USE Goroutines DEF TypeInv, TypeOK, At, Goto, controllerVars, worldVars
  <1>1. CASE Disconnect(Handler(r))
    BY <1>1, SerialDisconnect, TypeHandler
  <1>2. ASSUME pc[h] \notin {"new", "done"}
        PROVE  /\ h \in Thread /\ cores \subseteq Mapped \cup held[h]
               /\ pc[h] \notin {"retiring", "insert", "shutdown"} => held[h] = {}
               /\ \A q \in Req \ {r} : pc[Handler(q)] \in {"new", "done"}
               /\ \A q \in Req : /\ pc[Tracker(q)] = "absent"
                                 /\ pc[Recorder(q)] \in {"absent", "refresh", "select",
                                                         "create", "apply"}
               /\ pc[h] # "connect" => \A b \in Mapped : request[b].client = clientIP
    <2>1. cores \subseteq Mapped \cup held[h]
      BY <1>2, Alone DEF SerialInv, NoOrphanCore
    <2>2. \A q \in Req \ {r} : pc[Handler(q)] \in {"new", "done"}
      BY <1>2 DEF SerialInv, OneAtATime, InFlight
    <2>3. pc[h] # "connect" => \A b \in Mapped : request[b].client = clientIP
      BY <2>2 DEF SerialInv, Owned, Mapped
    <2> QED
      BY <2>1, <2>2, <2>3 DEF SerialInv, InItsHands, OneAtATime
  <1>3. \A b \in Mapped : /\ b \in Req /\ request[b].kind = "start"
                          /\ request[b].client \in Client
                          /\ pc[Handler(b)] \in {"connect", "log", "done"}
    <2> SUFFICES ASSUME NEW b \in Mapped
                 PROVE  /\ b \in Req /\ request[b].kind = "start"
                        /\ request[b].client \in Client
                        /\ pc[Handler(b)] \in {"connect", "log", "done"}
      OBVIOUS
    <2>1. /\ b \in Req /\ request[b].key \in Key
          /\ pc[Handler(b)] \in {"connect", "log", "done"}
      BY DEF CoreInv, FiledByKey, Mapped, Registered
    <2>2. request[b].kind = "start"
      BY <2>1, ControllerAssumption
         DEF ControllerAssumption, Request, StartRequest, PlainRequest, NoRequest
    <2> QED
      BY <2>1, <2>2, StartFields
  <1>4. CASE CheckBackend(r)
    <2>1. PICK label \in {"done", "cancel", "use"} :
             /\ pc' = [pc EXCEPT ![h] = label]
             /\ label = "use" => Mapped # {}
             /\ label = "cancel" => request[r].kind = "stop"
      BY <1>4 DEF CheckBackend
    <2>2. Mapped' = Mapped /\ pc[h] = "check"
      BY <1>4 DEF CheckBackend, Mapped
    <2>3. Moves(r, label)
      BY <1>2, <1>4, <2>1, <2>2 DEF CheckBackend, Moves
    <2>4. Arrives(r, label)
      BY <1>2, <1>4, <2>1, <2>2 DEF CheckBackend, Arrives, StartingPC
    <2>5. Owned'
      BY <1>2, <1>4, <2>1, <2>2 DEF CheckBackend, Owned
    <2> QED
      BY <2>1, <2>3, <2>4, <2>5, HandlerMoves
  <1>5. CASE UseBackend(r)
    <2>1. PICK label \in {"done", "log"} : pc' = [pc EXCEPT ![h] = label]
      BY <1>5 DEF UseBackend, SerialInv, StillThere
    <2>2. Mapped' = Mapped /\ pc[h] = "use"
      BY <1>5 DEF UseBackend, Mapped
    <2>3. Moves(r, label)
      BY <1>2, <1>5, <2>1, <2>2 DEF UseBackend, Moves
    <2>4. Arrives(r, label)
      BY <1>2, <1>5, <2>1, <2>2 DEF UseBackend, Arrives, StartingPC
    <2>5. Owned'
      BY <1>2, <1>5, <2>1, <2>2 DEF UseBackend, Owned
    <2> QED
      BY <2>1, <2>3, <2>4, <2>5, HandlerMoves
  <1>6. CASE LogSuccess(r)
    <2>2. Mapped' = Mapped /\ pc[h] = "log"
      BY <1>6 DEF LogSuccess, Mapped
    <2>3. Moves(r, "done")
      BY <1>2, <1>6, <2>2 DEF LogSuccess, Moves
    <2>4. Arrives(r, "done")
      BY <1>2, <1>6, <2>2 DEF LogSuccess, Arrives, StartingPC
    <2>5. Owned'
      BY <1>2, <1>6, <2>2 DEF LogSuccess, Owned
    <2> QED
      BY <2>3, <2>4, <2>5, HandlerMoves
  <1>7. CASE StartExisting(r)
    <2>1. PICK label \in {"retire", "ip"} :
             /\ pc' = [pc EXCEPT ![h] = label]
             /\ label = "ip" => Mapped # {}
             /\ label = "retire" => Mapped = {}
      BY <1>7 DEF StartExisting
    <2>2. Mapped' = Mapped /\ pc[h] = "existing" /\ local'[h] = FALSE
      BY <1>7 DEF StartExisting, Mapped
    <2>3. Moves(r, label)
      BY <1>2, <1>7, <2>1, <2>2 DEF StartExisting, Moves
    <2>4. Arrives(r, label)
      BY <1>2, <1>7, <2>1, <2>2 DEF StartExisting, Arrives, StartingPC
    <2>5. Owned'
      BY <1>2, <1>7, <2>1, <2>2 DEF StartExisting, Owned
    <2> QED
      BY <2>1, <2>3, <2>4, <2>5, HandlerMoves DEF StartPC
  <1>8. CASE StartIp(r)
    <2>1. PICK label \in {"retire", "cancel"} :
             /\ pc' = [pc EXCEPT ![h] = label]
             /\ label = "retire" => clientIP = request[r].client
             /\ label = "cancel" => clientIP # request[r].client
      BY <1>8 DEF StartIp
    <2>2. /\ Mapped' = Mapped /\ pc[h] = "ip"
          /\ local'[h] = (clientIP = request[r].client)
      BY <1>8 DEF StartIp, Mapped
    <2>3. Moves(r, label)
      BY <1>2, <1>8, <2>1, <2>2 DEF StartIp, Moves
    <2>4. PICK b \in Mapped : TRUE
      BY <2>2 DEF SerialInv, StillThere
    <2>5. Arrives(r, label)
      <3>1. b \in Req /\ request[b].kind = "start" /\ request[b].client = clientIP
        BY <1>2, <1>3, <2>2, <2>4
      <3>2. CASE label = "retire"
        BY <1>2, <1>8, <2>1, <2>2, <3>2 DEF StartIp, Arrives
      <3>3. CASE label = "cancel"
        BY <1>2, <1>8, <2>1, <2>2, <3>1, <3>3 DEF StartIp, Arrives, StartingPC
      <3> QED
        BY <2>1, <3>2, <3>3
    <2>6. Owned'
      BY <1>2, <1>8, <2>1, <2>2 DEF StartIp, Owned
    <2> QED
      BY <2>1, <2>3, <2>5, <2>6, HandlerMoves DEF StartPC
  <1>9. CASE RefuseDisabled(r)
    <2>2. Mapped' = Mapped /\ pc[h] = "retire"
      BY <1>9 DEF RefuseDisabled, Mapped
    <2>3. Moves(r, "done")
      BY <1>2, <1>9, <2>2 DEF RefuseDisabled, Moves
    <2>4. Arrives(r, "done")
      BY <1>2, <1>9, <2>2 DEF RefuseDisabled, Arrives, StartingPC
    <2>5. Owned'
      BY <1>2, <1>9, <2>2 DEF RefuseDisabled, Owned
    <2> QED
      BY <2>3, <2>4, <2>5, HandlerMoves
  <1>10. CASE RetireOld(r)
    <2> DEFINE old == backends[request[r].key]
    <2>1. PICK label \in {"launch", "retiring"} :
             /\ pc' = [pc EXCEPT ![h] = label]
             /\ label = "launch" => old = None
      BY <1>10 DEF RetireOld
    <2>2. pc[h] = "retire" /\ held'[h] = {old} \ {None} /\ request[r].key \in Key
      BY <1>10, StartFields DEF RetireOld, StartsAreStarts, StartPC
    <2>3. Mapped' \subseteq Mapped /\ Mapped \subseteq Mapped' \cup held'[h]
      BY <1>10, <2>2 DEF RetireOld, Mapped
    <2>4. Moves(r, label)
      BY <1>2, <1>10, <2>1, <2>2 DEF RetireOld, Moves
    <2>5. cores' \subseteq Mapped' \cup held'[h]
      BY <1>2, <1>10, <2>2, <2>3 DEF RetireOld
    <2>6. IF local'[h] THEN clientIP' = request[r].client ELSE Mapped' \subseteq {r}
      BY <1>10, <2>2, <2>3 DEF RetireOld, SerialInv, AddsOrTakesOver, StartingPC
    <2>7. Arrives(r, label)
      BY <1>10, <2>1, <2>2, <2>5, <2>6 DEF RetireOld, Arrives
    <2>8. Owned'
      BY <1>2, <1>10, <2>2, <2>3 DEF RetireOld, Owned
    <2> QED
      BY <2>1, <2>4, <2>7, <2>8, HandlerMoves DEF StartPC
  <1>11. CASE ShutdownOld(r)
    <2>2. Mapped' = Mapped /\ pc[h] = "retiring" /\ held'[h] = {}
      BY <1>11 DEF ShutdownOld, Mapped
    <2>3. Moves(r, "launch")
      BY <1>2, <1>11, <2>2 DEF ShutdownOld, Moves
    <2>4. Arrives(r, "launch")
      BY <1>2, <1>11, <2>2
         DEF ShutdownOld, Arrives, StartingPC, SerialInv, AddsOrTakesOver, InItsHands
    <2>5. Owned'
      BY <1>2, <1>11, <2>2 DEF ShutdownOld, Owned
    <2> QED
      BY <2>3, <2>4, <2>5, HandlerMoves DEF StartPC
  <1>12. CASE Launch(r)
    <2>1. PICK label \in {"insert", "done"} :
             /\ pc' = [pc EXCEPT ![h] = label]
             /\ label = "insert" => cores' = cores \cup {r} /\ held'[h] = {r}
             /\ label = "done" => cores' = cores /\ held'[h] = held[h]
      BY <1>12 DEF Launch
    <2>2. Mapped' = Mapped /\ pc[h] = "launch"
      BY <1>12 DEF Launch, Mapped
    <2>3. Moves(r, label)
      BY <1>2, <1>12, <2>1, <2>2 DEF Launch, Moves
    <2>4. Arrives(r, label)
      BY <1>2, <1>12, <2>1, <2>2
         DEF Launch, Arrives, StartingPC, SerialInv, AddsOrTakesOver, InItsHands
    <2>5. Owned'
      BY <1>2, <1>12, <2>1, <2>2 DEF Launch, Owned
    <2> QED
      BY <2>1, <2>3, <2>4, <2>5, HandlerMoves DEF StartPC
  <1>13. CASE InsertNew(r)
    <2>1. /\ pc[h] = "insert" /\ pc'[h] = "connect" /\ held[h] = {r} /\ held'[h] = {}
          /\ request[r].key \in Key /\ backends[request[r].key] = None
      BY <1>13, StartFields
         DEF InsertNew, StartsAreStarts, StartPC, SerialInv, InItsHands
    <2>2. Mapped' = Mapped \cup {r}
      BY <1>13, <2>1, ControllerAssumption DEF InsertNew, Mapped, ControllerAssumption
    <2>3. Moves(r, "connect")
      BY <1>2, <1>13, <2>1 DEF InsertNew, Moves
    <2>4. Arrives(r, "connect")
      BY <1>2, <1>13, <2>1, <2>2
         DEF InsertNew, Arrives, StartingPC, SerialInv, AddsOrTakesOver
    <2>5. Owned'
      BY <1>2, <1>13, <2>1, <2>2
         DEF InsertNew, Owned, StartingPC, SerialInv, AddsOrTakesOver
    <2> QED
      BY <2>3, <2>4, <2>5, HandlerMoves DEF StartPC
  <1>14. CASE ConnectClient(r)
    <2>1. Mapped' = Mapped /\ pc[h] = "connect"
      BY <1>14 DEF ConnectClient, Mapped
    <2>2. request[r].keepAlive = 0
      BY <2>1, StartFields DEF StartsAreStarts, StartPC, Serial, StartRequest
    <2>3. Moves(r, "log")
      BY <1>2, <1>14, <2>1, <2>2 DEF ConnectClient, Moves
    <2>4. Arrives(r, "log")
      BY <1>2, <1>14, <2>1 DEF ConnectClient, Arrives, StartingPC
    <2>5. Owned'
      BY <1>2, <1>3, <1>14, <2>1
         DEF ConnectClient, Owned, StartingPC, SerialInv, AddsOrTakesOver
    <2> QED
      BY <2>3, <2>4, <2>5, HandlerMoves
  <1> QED
    BY <1>1, <1>4, <1>5, <1>6, <1>7, <1>8, <1>9, <1>10, <1>11, <1>12, <1>13, <1>14
       DEF HandlerStep

\* A request arrives when nobody is at work, and the recorders touch neither
\* cores nor map.
LEMMA SerialBackground ==
    ASSUME Serial, TypeInv, CoreInv, SerialInv, NEW r \in Req,
           \/ Arrive(r) \/ TrackerStep(r) \/ ShapingStep(r)
           \/ BackgroundExit(Tracker(r)) \/ BackgroundExit(Recorder(r))
    PROVE  SerialInv'
  <1> USE Goroutines DEF TypeInv, TypeOK, At, Goto, controllerVars, worldVars
  <1>1. CASE Arrive(r)
    <2>1. PICK ask \in StartRequest \cup PlainRequest,
               label \in {"existing", "cancel", "check"} :
             /\ request' = [request EXCEPT ![r] = ask]
             /\ pc' = [pc EXCEPT ![Handler(r)] = label]
             /\ label = "cancel" => ask.kind = "exit"
      BY <1>1 DEF Arrive
    <2>2. /\ \A t \in Thread : pc[t] \in RestPC /\ held[t] = {}
          /\ InHand = {} /\ InFlight = {}
      BY <1>1, ArrivesAlone, NobodyHolds
    <2>3. /\ Mapped' = Mapped /\ InHand' = InHand /\ pc[Handler(r)] = "new"
          /\ \A t \in Thread : held'[t] = {}
      BY <1>1, <2>2 DEF Arrive, Mapped, InHand
    <2>4. \A q \in Req \ {r} : /\ pc'[Handler(q)] \in {"new", "done"}
                               /\ request'[q] = request[q]
      BY <2>1, <2>2 DEF InFlight
    <2>5. pc'[Handler(r)] = label /\ request'[r] = ask
      BY <2>1
    <2>6. OneAtATime'
      BY <2>1, <2>4 DEF SerialInv, OneAtATime, InFlight
    <2>7. InItsHands' /\ Emptying' /\ StillThere' /\ NoPanic'
      BY <2>1, <2>3, <2>4, <2>5 DEF InItsHands, Emptying, StillThere, NoPanic
    <2>8. Owned'
      <3>1. ASSUME NEW b \in Mapped
            PROVE  b \in Req /\ b # r /\ request[b].client = clientIP
        <4>1. b \in Req /\ pc[Handler(b)] \in {"connect", "log", "done"}
          BY DEF CoreInv, FiledByKey, Mapped, Registered
        <4>2. pc[Handler(b)] # "connect" /\ b # r
          BY <2>2, <2>3, <4>1 DEF InFlight
        <4> QED
          BY <4>1, <4>2 DEF SerialInv, Owned
      <3> QED
        BY <1>1, <2>1, <2>3, <3>1 DEF Arrive, Owned
    <2>9. AddsOrTakesOver' /\ TakesOver' /\ SameClientAdds'
      BY <2>1, <2>4, <2>5
         DEF AddsOrTakesOver, TakesOver, SameClientAdds, StartingPC, DisconnectPC
    <2>10. NoOrphanCore'
      BY <1>1, <2>3 DEF Arrive, SerialInv, NoOrphanCore
    <2> QED
      BY <2>6, <2>7, <2>8, <2>9, <2>10 DEF SerialInv
  <1>2. CASE TrackerStep(r) \/ BackgroundExit(Tracker(r))
    <2>1. pc[Tracker(r)] = "absent"
      BY DEF SerialInv, OneAtATime
    <2> QED
      BY <1>2, <2>1
         DEF TrackerStep, TrackerTick, BackgroundExit, Disconnect, DisconnectCancel,
             DisconnectSnapshot, DisconnectShutdown, TakeShaper, CloseShaper,
             DisconnectReset
  <1>3. CASE ShapingStep(r) \/ BackgroundExit(Recorder(r))
    <2>1. /\ \E label \in {"absent", "apply", "create", "select"} :
                pc' = [pc EXCEPT ![Recorder(r)] = label]
          /\ UNCHANGED <<backends, clientIP, cores, request, held>>
          /\ \A q \in Req : local'[Handler(q)] = local[Handler(q)]
      <3>1. CASE ShapingSnapshot(r)
        BY <3>1 DEF ShapingSnapshot
      <3>2. CASE ShapingCreate(r) \/ ShapingApply(r) \/ BackgroundExit(Recorder(r))
        BY <3>2 DEF ShapingCreate, ShapingApply, BackgroundExit
      <3> QED
        BY <1>3, <3>1, <3>2 DEF ShapingStep
    <2>2. /\ \A q \in Req : /\ pc'[Handler(q)] = pc[Handler(q)]
                            /\ pc'[Tracker(q)] = pc[Tracker(q)]
          /\ \A q \in Req : \/ pc'[Recorder(q)] = pc[Recorder(q)]
                            \/ pc'[Recorder(q)] \in {"absent", "apply", "create", "select"}
          /\ held[Recorder(r)] = {}
      BY <2>1 DEF SerialInv, InItsHands, OneAtATime
    <2>3. Mapped' = Mapped /\ InHand' = InHand
      BY <2>1 DEF Mapped, InHand
    <2>4. \A t \in Thread \ {Recorder(r)} : pc'[t] = pc[t]
      BY <2>1
    <2>5. OneAtATime'
      BY <2>2 DEF SerialInv, OneAtATime, InFlight
    <2>6. InItsHands' /\ Emptying' /\ StillThere' /\ NoPanic'
      BY <2>1, <2>2, <2>3, <2>4
         DEF SerialInv, InItsHands, Emptying, StillThere, NoPanic
    <2>7. Owned' /\ AddsOrTakesOver' /\ TakesOver' /\ SameClientAdds' /\ NoOrphanCore'
      <3>1. \A b \in Mapped : b \in Req
        BY DEF Mapped
      <3> QED
        BY <2>1, <2>2, <2>3, <3>1
           DEF SerialInv, Owned, AddsOrTakesOver, TakesOver, SameClientAdds, NoOrphanCore
    <2> QED
      BY <2>5, <2>6, <2>7 DEF SerialInv
  <1> QED
    BY <1>1, <1>2, <1>3

\* The panel that waits for its answers: the invariant holds throughout.
LEMMA SerialHolds == Serial => (Spec => [](TypeInv /\ CoreInv /\ SerialInv))
  <1> SUFFICES ASSUME Serial PROVE Spec => [](TypeInv /\ CoreInv /\ SerialInv)
    OBVIOUS
  <1>1. TypeInv /\ CoreInv /\ SerialInv /\ [Next]_vars => SerialInv'
    <2> SUFFICES ASSUME TypeInv, CoreInv, SerialInv, [Next]_vars PROVE SerialInv'
      OBVIOUS
    <2>1. CASE Tick \/ UNCHANGED vars
      <3>1. UNCHANGED <<backends, clientIP, cores, request, pc, held, local>>
        BY <2>1 DEF Tick, vars, controllerVars, worldVars
      <3> QED
        BY <3>1
           DEF SerialInv, OneAtATime, InFlight, InItsHands, Emptying, StillThere, Owned,
               AddsOrTakesOver, TakesOver, NoOrphanCore, NoPanic, SameClientAdds, Mapped,
               InHand
    <2> QED
      BY <2>1, SerialHandler, SerialBackground DEF Next
  <1> QED
    BY SerialInit, TypeCorrect, CoreHolds, <1>1, PTL DEF Spec

\* "backends holds every core running on this node" (controller.go:57): with a
\* panel that waits for each answer and sets no keep-alive, a core that runs is
\* registered or in the hands of the handler that will register or stop it.
THEOREM NoCoreOrphaned == Serial => (Spec => []NoOrphanCore)
  <1> SUFFICES ASSUME Serial PROVE Spec => []NoOrphanCore
    OBVIOUS
  <1>1. SerialInv => NoOrphanCore
    BY DEF SerialInv
  <1> QED
    BY SerialHolds, <1>1, PTL

\* Between the requests of such a panel every registered core runs, belongs to
\* the client in control, and that client's goroutines have not been cancelled.
THEOREM CoresAreOwned == Serial => (Spec => []OwnedAndAttended)
  <1> SUFFICES ASSUME Serial PROVE Spec => []OwnedAndAttended
    OBVIOUS
  <1>1. TypeInv /\ CoreInv /\ SerialInv /\ ClientIsAttended => OwnedAndAttended
    <2> SUFFICES ASSUME TypeInv, CoreInv, SerialInv, ClientIsAttended, InFlight = {},
                        Mapped # {}
                 PROVE  /\ Mapped \subseteq cores
                        /\ \A b \in Mapped : request[b].client = clientIP
                        /\ cancelFunc \in contexts
      BY DEF OwnedAndAttended, Settled
    <2>1. \A t \in Thread : pc[t] \in RestPC
      BY NobodyHolds
    <2>2. Mapped \subseteq cores
      BY <2>1 DEF CoreInv, DeadCoreIsLeaving, AfterSnapshotPC, AfterCancelPC,
                  DisconnectPC, RestPC
    <2>3. ASSUME NEW b \in Mapped
          PROVE  request[b].client = clientIP /\ request[b].client \in Client
      <3>1. b \in Req /\ request[b].key \in Key
        BY DEF TypeInv, TypeOK, CoreInv, FiledByKey, Mapped
      <3>2. pc[Handler(b)] # "connect"
        BY <2>1, <3>1, Goroutines DEF RestPC
      <3>3. request[b].kind = "start"
        BY <3>1, ControllerAssumption
           DEF ControllerAssumption, TypeInv, TypeOK, Request, StartRequest,
               PlainRequest, NoRequest
      <3>4. request[b].client \in Client
        BY <3>1, <3>3, StartFields DEF TypeInv, TypeOK
      <3> QED
        BY <3>2, <3>4 DEF SerialInv, Owned
    <2>4. clientIP # None
      BY <2>3, ControllerAssumption DEF ControllerAssumption
    <2>5. cancelFunc \in contexts
      BY <2>1, <2>4 DEF ClientIsAttended, AfterCancelPC, DisconnectPC, RestPC
    <2> QED
      BY <2>2, <2>3, <2>5
  <1> QED
    BY SerialHolds, ClientsAreAttended, <1>1, PTL

-----------------------------------------------------------------------------
(***************************************************************************)
(* The limiter the controller applies: for any clients, interfaces and     *)
(* size of the mark range, and whichever commands fail, its mark allocator *)
(* and what an Apply that reports no error has installed.                  *)
(***************************************************************************)

\* The variables the allocator depends on.
Types ==
    /\ marks \in [Addr -> Mark \cup {NoMark}]
    /\ freed \in Seq(Mark)
    /\ nextMark \in Nat /\ nextMark <= maxClients
    /\ applied \in [Addr -> Nat]
    /\ todo \subseteq Addr

\* An address in the applied set has a mark, so the one it leaves is its own.
Marked == \A a \in Addr : applied[a] # 0 => marks[a] # NoMark

\* The departures are addresses of the applied set.
Leaving == at = "drop" => \A a \in todo : applied[a] # 0

Own == \A a, b \in Addr : marks[a] = marks[b] /\ marks[a] # NoMark => a = b
Free == \A n \in 1..Len(freed) : /\ \A a \in Addr : marks[a] # freed[n]
                                 /\ \A k \in 1..Len(freed) : freed[n] = freed[k] => n = k
Below == /\ \A a \in Addr : marks[a] # NoMark => marks[a] < nextMark
         /\ \A n \in 1..Len(freed) : freed[n] < nextMark

IInv == Types /\ Marked /\ Leaving /\ Own /\ Free /\ Below

-----------------------------------------------------------------------------
\* A mark is a number, None is not, and a new mark is in range.
LEMMA Marks ==
    /\ NoMark \notin Mark /\ Mark \subseteq Nat
    /\ \A m \in Nat : m < maxClients => m \in Mark
BY RateLimitAssumption DEF Mark

\* Nothing is allocated at the start and after teardownAll.
LEMMA Reset ==
    ASSUME marks' = NoMarks, freed' = <<>>, nextMark' = 0, applied' = NoClients,
           todo' \subseteq Addr, todo' = {} \/ at' # "drop"
    PROVE  IInv'
<1>1. Types' BY RateLimitAssumption DEF Types, NoMarks, NoClients
<1>2. Marked' /\ Leaving' BY DEF Marked, Leaving, NoClients
<1>3. Own' /\ Free' /\ Below' BY DEF Own, Free, Below, NoMarks
<1> QED BY <1>1, <1>2, <1>3 DEF IInv

\* A new Manager has handed out nothing.
LEMMA InitIInv == LimiterInit => IInv
<1> SUFFICES ASSUME LimiterInit PROVE IInv OBVIOUS
<1> USE DEF LimiterInit
<1>1. Types BY RateLimitAssumption DEF Types, NoMarks, NoClients
<1>2. Marked /\ Leaving BY DEF Marked, Leaving, NoClients
<1>3. Own /\ Free /\ Below BY DEF Own, Free, Below, NoMarks
<1> QED BY <1>1, <1>2, <1>3 DEF IInv

\* Steps that leave the allocator alone.
LEMMA Frame ==
    ASSUME IInv, UNCHANGED <<marks, freed, nextMark, applied>>,
           todo' \subseteq Addr, at' = "drop" => \A a \in todo' : applied[a] # 0
    PROVE  IInv'
BY DEF IInv, Types, Marked, Leaving, Own, Free, Below

\* A departed client's mark goes to the free list.
LEMMA DropStep == ASSUME IInv, NEW a \in Addr, Drop(a) PROVE IInv'
<1> USE DEF IInv
<1>1. /\ at = "drop" /\ a \in todo /\ at' = at
      /\ freed' = Append(freed, marks[a])
      /\ marks' = [marks EXCEPT ![a] = NoMark]
      /\ applied' = [applied EXCEPT ![a] = 0]
      /\ todo' = todo \ {a} /\ nextMark' = nextMark
  BY DEF Drop
<1>2. marks[a] \in Mark BY <1>1 DEF Leaving, Marked, Types
<1>3. /\ Len(freed') = Len(freed) + 1 /\ Len(freed) \in Nat
      /\ \A n \in 1..Len(freed) : freed'[n] = freed[n]
      /\ freed'[Len(freed) + 1] = marks[a]
  BY <1>1, <1>2 DEF Types
<1>4. Types' BY <1>1, <1>2 DEF Types
<1>5. Marked' /\ Leaving' BY <1>1 DEF Types, Marked, Leaving
<1>6. Own' BY <1>1 DEF Types, Own
<1>7. Free'
  <2> SUFFICES ASSUME NEW n \in 1..Len(freed')
               PROVE  /\ \A b \in Addr : marks'[b] # freed'[n]
                      /\ \A k \in 1..Len(freed') : freed'[n] = freed'[k] => n = k
    BY DEF Free
  <2>1. CASE n = Len(freed) + 1
    <3>1. \A b \in Addr : marks'[b] # marks[a]
      BY <1>1, <1>2, Marks DEF Types, Own
    <3>2. \A k \in 1..Len(freed) : freed'[k] # marks[a] BY <1>3 DEF Free
    <3> QED BY <1>3, <2>1, <3>1, <3>2
  <2>2. CASE n \in 1..Len(freed)
    <3>1. freed'[n] = freed[n] /\ freed[n] \in Mark BY <1>3, <2>2 DEF Types
    <3>2. \A b \in Addr : marks'[b] # freed'[n]
      BY <1>1, <2>2, <3>1, Marks DEF Types, Free
    <3>3. \A k \in 1..Len(freed') : freed'[n] = freed'[k] => n = k
      BY <1>3, <2>2, <3>1 DEF Free
    <3> QED BY <3>2, <3>3
  <2> QED BY <1>3, <2>1, <2>2
<1>8. Below' BY <1>1, <1>2, <1>3, Marks DEF Types, Below
<1> QED BY <1>4, <1>5, <1>6, <1>7, <1>8

\* allocMark: the address ends up with a mark nobody else has.
LEMMA AllocStep ==
    ASSUME IInv, NEW a \in Addr, NEW m \in Mark, AllocMark(a, m)
    PROVE  /\ marks' \in [Addr -> Mark \cup {NoMark}] /\ freed' \in Seq(Mark)
           /\ nextMark' \in Nat /\ nextMark' <= maxClients
           /\ marks'[a] # NoMark /\ \A b \in Addr \ {a} : marks'[b] = marks[b]
           /\ Own' /\ Free' /\ Below'
<1> USE DEF IInv
<1>1. CASE marks[a] # NoMark /\ m = marks[a] /\ UNCHANGED <<marks, freed, nextMark>>
  BY <1>1 DEF Types, Own, Free, Below
<1>2. CASE /\ marks[a] = NoMark /\ freed # <<>> /\ m = freed[Len(freed)]
           /\ freed' = SubSeq(freed, 1, Len(freed) - 1)
           /\ marks' = [marks EXCEPT ![a] = m] /\ UNCHANGED nextMark
  <2>1. Len(freed) \in Nat /\ Len(freed) > 0 BY <1>2 DEF Types
  <2>2. /\ freed' \in Seq(Mark) /\ Len(freed') = Len(freed) - 1
        /\ \A n \in 1..Len(freed') : freed'[n] = freed[n]
    <3> DEFINE n == Len(freed) - 1
    <3>1. n \in Int /\ \A i \in 1..n : freed[i] \in Mark BY <2>1 DEF Types
    <3>2. /\ SubSeq(freed, 1, n) \in Seq(Mark)
          /\ Len(SubSeq(freed, 1, n)) = IF 1 <= n THEN n - 1 + 1 ELSE 0
          /\ \A i \in 1..(n - 1 + 1) : SubSeq(freed, 1, n)[i] = freed[1 + i - 1]
      <4> HIDE DEF n
      <4> QED BY <3>1, SubSeqProperties
    <3>3. freed' = SubSeq(freed, 1, n) BY <1>2
    <3>4. n \in Nat /\ n = Len(freed) - 1 BY <2>1
    <3> HIDE DEF n
    <3>5. Len(freed') = n BY <3>2, <3>3, <3>4
    <3>6. ASSUME NEW i \in 1..n PROVE freed'[i] = freed[i]
      <4>1. i \in 1..(n - 1 + 1) /\ 1 + i - 1 = i BY <3>4
      <4> QED BY <3>2, <3>3, <4>1
    <3> QED BY <3>2, <3>3, <3>4, <3>5, <3>6
  <2>3. \A b \in Addr : marks'[b] = IF b = a THEN m ELSE marks[b] BY <1>2 DEF Types
  <2>4. \A b \in Addr : marks[b] # m BY <1>2, <2>1 DEF Free
  <2>5. Own' BY <2>3, <2>4 DEF Own
  <2>6. \A n \in 1..Len(freed') : freed[n] # m BY <1>2, <2>1, <2>2 DEF Free
  <2>7. Free'
    <3> SUFFICES ASSUME NEW n \in 1..Len(freed')
                 PROVE  /\ \A b \in Addr : marks'[b] # freed'[n]
                        /\ \A k \in 1..Len(freed') : freed'[n] = freed'[k] => n = k
      BY DEF Free
    <3>1. n \in 1..Len(freed) /\ freed'[n] = freed[n] BY <2>1, <2>2
    <3>2. \A b \in Addr : marks'[b] # freed'[n] BY <2>3, <2>6, <3>1 DEF Free
    <3>3. \A k \in 1..Len(freed') : freed'[n] = freed'[k] => n = k
      BY <2>1, <2>2, <3>1 DEF Free
    <3> QED BY <3>2, <3>3
  <2>8. Below' BY <1>2, <2>1, <2>2, <2>3 DEF Below
  <2> QED BY <1>2, <2>2, <2>3, <2>5, <2>7, <2>8, Marks DEF Types
<1>3. CASE /\ marks[a] = NoMark /\ freed = <<>> /\ nextMark < maxClients /\ m = nextMark
           /\ nextMark' = nextMark + 1
           /\ marks' = [marks EXCEPT ![a] = m] /\ UNCHANGED freed
  <2>1. \A b \in Addr : marks'[b] = IF b = a THEN m ELSE marks[b] BY <1>3 DEF Types
  <2>2. \A b \in Addr : marks[b] # m BY <1>3, Marks DEF Below, Types
  <2>3. Own' BY <2>1, <2>2 DEF Own
  <2>4. Free' BY <1>3 DEF Free
  <2>5. Below'
    <3>1. ASSUME NEW b \in Addr, marks'[b] # NoMark PROVE marks'[b] < nextMark'
      <4>1. CASE b = a BY <1>3, <2>1, <4>1 DEF Types
      <4>2. CASE b # a
        <5>1. marks'[b] = marks[b] BY <2>1, <4>2
        <5>2. marks[b] \in Nat /\ marks[b] < nextMark BY <3>1, <5>1, Marks DEF Below, Types
        <5> QED BY <1>3, <5>1, <5>2 DEF Types
      <4> QED BY <4>1, <4>2
    <3>2. 1..Len(freed') = {} BY <1>3
    <3> QED BY <3>1, <3>2 DEF Below
  <2>6. nextMark' \in Nat /\ nextMark' <= maxClients
    BY <1>3, RateLimitAssumption DEF Types
  <2> QED BY <1>3, <2>1, <2>3, <2>4, <2>5, <2>6, Marks DEF Types
<1> QED BY <1>1, <1>2, <1>3 DEF AllocMark

\* Capping a client allocates a mark for it, or refuses when the range is full.
LEMMA CapStep == ASSUME IInv, wanted \in [Addr -> Nat], NEW a \in Addr, Cap(a) PROVE IInv'
<1> USE DEF IInv
<1>1. PICK m \in Mark : AllocMark(a, m) BY DEF Cap
<1>2. /\ applied' = [applied EXCEPT ![a] = wanted[a]] /\ todo' = todo \ {a}
      /\ at = "cap" /\ at' = "cap"
  BY DEF Cap
<1>3. /\ marks' \in [Addr -> Mark \cup {NoMark}] /\ freed' \in Seq(Mark)
      /\ nextMark' \in Nat /\ nextMark' <= maxClients
      /\ marks'[a] # NoMark /\ \A b \in Addr \ {a} : marks'[b] = marks[b]
      /\ Own' /\ Free' /\ Below'
  BY <1>1, AllocStep
<1>4. Types' BY <1>2, <1>3 DEF Types
<1>5. Marked' BY <1>2, <1>3 DEF Types, Marked
<1>6. Leaving' BY <1>2 DEF Leaving
<1> QED BY <1>3, <1>4, <1>5, <1>6

\* Apply's clients keep their type.
Wanted == wanted \in [Addr -> Nat]

\* Every step of every method keeps the allocator's invariant.
LEMMA NextIInv == IInv /\ Wanted /\ [LimiterNext]_limiterVars => IInv' /\ Wanted'
<1> SUFFICES ASSUME IInv, Wanted, [LimiterNext]_limiterVars PROVE IInv' /\ Wanted' OBVIOUS
<1> USE DEF managerVars, hostVars
<1>1. CASE \E clients \in [Addr -> Limit \cup {0}] : ApplyBegin(clients)
  <2>1. PICK clients \in [Addr -> Limit \cup {0}] : ApplyBegin(clients) BY <1>1
  <2>2. IInv' BY <2>1, Frame DEF ApplyBegin
  <2>3. Limit \cup {0} \subseteq Nat BY RateLimitAssumption
  <2>4. clients \in [Addr -> Nat] BY <2>3
  <2>5. Wanted' BY <2>1, <2>4 DEF ApplyBegin, Wanted
  <2> QED BY <2>2, <2>5
<1>2. ASSUME NEW a \in Addr, Drop(a) PROVE IInv' /\ Wanted'
  BY <1>2, DropStep DEF Drop, Wanted
<1>3. ASSUME NEW a \in Addr, Cap(a) PROVE IInv' /\ Wanted'
  BY <1>3, CapStep DEF Cap, Wanted
<1>4. ASSUME NEW a \in Addr, CapRefused(a) PROVE IInv' /\ Wanted'
  BY <1>4, Frame DEF CapRefused, Wanted, IInv, Types
<1>5. ASSUME NEW a \in Addr, MarkRule(a) PROVE IInv' /\ Wanted'
  BY <1>5, Frame DEF MarkRule, Wanted, IInv, Types
<1>6. CASE ApplyNothing
  <2>1. todo' = {} BY <1>6 DEF ApplyNothing
  <2> QED BY <1>6, <2>1, Reset DEF ApplyNothing, TeardownAll, Wanted
<1>7. CASE EnsureRoots
  BY <1>7, Frame DEF EnsureRoots, Wanted
<1>8. CASE CapDone
  BY <1>8, Frame DEF CapDone, Wanted, IInv, Types
<1>9. CASE FlushMarks
  <2>1. todo' \subseteq Addr /\ at' # "drop" BY <1>9 DEF FlushMarks, IInv, Types
  <2> QED BY <1>9, <2>1, Frame DEF FlushMarks, Wanted
<1>10. CASE ApplyDone
  BY <1>10, Frame DEF ApplyDone, Wanted, IInv, Types
<1>11. CASE Close
  <2>1. at' # "drop" /\ todo' \subseteq Addr BY <1>11 DEF Close, IInv, Types
  <2> QED BY <1>11, <2>1, Reset DEF Close, TeardownAll, Wanted
<1>12. ASSUME NEW i \in Tunnel, LinkChange(i) PROVE IInv' /\ Wanted'
  BY <1>12, Frame DEF LinkChange, Wanted, IInv, Types, Leaving
<1>13. CASE UNCHANGED limiterVars
  BY <1>13, Frame DEF limiterVars, Wanted, IInv, Types, Leaving
<1> QED BY <1>1, <1>2, <1>3, <1>4, <1>5, <1>6, <1>7, <1>8, <1>9, <1>10, <1>11, <1>12, <1>13
        DEF LimiterNext

\* Over any history of arrivals, departures, refusals, failing commands and
\* teardowns, Manager never gives two clients one mark, never has a mark both
\* free and in use, and never leaves the mark range.
THEOREM MarksExclusive == LimiterSpec => []MarksAreExclusive
<1>1. LimiterInit => IInv /\ Wanted
  BY InitIInv, RateLimitAssumption DEF LimiterInit, Wanted, NoClients
<1>2. IInv /\ Wanted /\ [LimiterNext]_limiterVars => IInv' /\ Wanted' BY NextIInv
<1>3. IInv => MarksAreExclusive
  BY DEF IInv, Own, Free, Below, MarksAreExclusive
<1> QED BY <1>1, <1>2, <1>3, PTL DEF LimiterSpec

-----------------------------------------------------------------------------
(* What an Apply installs.                                                 *)

\* The class of an address has its limit, on the interfaces that have a tree.
Classed(a, S) == \A i \in S : tree[i] # NoMark => tree[i][marks[a]] = applied[a]

HostTypes ==
    /\ tree \in [Iface -> {NoMark} \cup [Mark -> Nat]]
    /\ rules \in [Addr -> Mark \cup {NoMark}]
    /\ ifaces \subseteq Iface /\ ifaceSet \subseteq Iface

\* Only clients have a mark, the others of them are on their way out, and Apply
\* goes through the rest.
Passing ==
    /\ \A a \in Addr : marks[a] # NoMark => applied[a] # 0
    /\ at = "drop" => \A a \in Addr \ todo : applied[a] # 0 => wanted[a] # 0
    /\ at = "cap" => \A a \in todo : wanted[a] # 0

\* What Apply has passed without an error has its class, and then its rule.
Classes ==
    ~failed =>
        /\ at = "cap" => \A a \in Addr \ todo : applied[a] # 0 => Classed(a, ifaces)
        /\ at \in {"flush", "mark", "idle"} => \A a \in Addr : applied[a] # 0 => Classed(a, ifaceSet)
Rules ==
    /\ at = "mark" => \A a \in Addr \ todo : rules[a] = marks[a]
    /\ at = "idle" /\ ~failed /\ applied # NoClients => \A a \in Addr : rules[a] = marks[a]

InstInv == HostTypes /\ Passing /\ Classes /\ Rules

-----------------------------------------------------------------------------
\* shapingInterfaces finds interfaces.
LEMMA Found == Interfaces \subseteq Iface
BY DEF Interfaces, Iface

\* A new Manager has installed nothing.
LEMMA InstInit == LimiterInit => InstInv
<1> SUFFICES ASSUME LimiterInit PROVE InstInv OBVIOUS
<1>1. HostTypes BY DEF LimiterInit, HostTypes, NoMarks
<1>2. Passing BY DEF LimiterInit, Passing, NoMarks
<1>3. Classes BY DEF LimiterInit, Classes, NoClients
<1>4. Rules BY DEF LimiterInit, Rules
<1> QED BY <1>1, <1>2, <1>3, <1>4 DEF InstInv

\* Apply starts with the departures.
LEMMA BeginInst ==
    ASSUME IInv, InstInv, NEW clients \in [Addr -> Limit \cup {0}], ApplyBegin(clients)
    PROVE  InstInv'
<1> USE DEF InstInv
<1>1. /\ at' = "drop" /\ wanted' = clients /\ ifaces' = Interfaces
      /\ todo' = {a \in Addr : applied[a] # 0 /\ clients[a] = 0}
      /\ UNCHANGED <<marks, applied, ifaceSet, tree, rules>>
  BY DEF ApplyBegin, managerVars, hostVars
<1>2. HostTypes' BY <1>1, Found DEF HostTypes
<1>3. Passing' BY <1>1 DEF Passing
<1>4. Classes' /\ Rules' BY <1>1 DEF Classes, Rules
<1> QED BY <1>2, <1>3, <1>4

\* A departed client loses its mark and its class.
LEMMA DropInst == ASSUME IInv, InstInv, NEW a \in Addr, Drop(a) PROVE InstInv'
<1> USE DEF IInv, InstInv
<1>1. /\ at = "drop" /\ at' = "drop" /\ a \in todo /\ todo' = todo \ {a}
      /\ marks' = [marks EXCEPT ![a] = NoMark] /\ applied' = [applied EXCEPT ![a] = 0]
      /\ UNCHANGED <<ifaceSet, rules, wanted, ifaces>>
  BY DEF Drop
<1>2. marks[a] \in Mark BY <1>1 DEF Leaving, Marked, Types
<1>3. HostTypes'
  <2>1. PICK ok : tree' = [i \in Iface |-> IF i \in ok /\ tree[i] # NoMark
                                           THEN [tree[i] EXCEPT ![marks[a]] = 0] ELSE tree[i]]
    BY DEF Drop
  <2>2. ASSUME NEW i \in Iface PROVE tree'[i] \in {NoMark} \cup [Mark -> Nat]
    <3>1. tree[i] # NoMark => [tree[i] EXCEPT ![marks[a]] = 0] \in [Mark -> Nat]
      BY <1>2 DEF HostTypes
    <3> QED BY <2>1, <3>1 DEF HostTypes
  <2>3. tree' \in [Iface -> {NoMark} \cup [Mark -> Nat]] BY <2>1, <2>2
  <2> QED BY <1>1, <2>3 DEF HostTypes
<1>4. Passing' BY <1>1 DEF Passing, Types
<1>5. Classes' /\ Rules' BY <1>1 DEF Classes, Rules
<1> QED BY <1>3, <1>4, <1>5

\* ensureRoot: what has a limit is still to be capped.
LEMMA RootsInst == ASSUME IInv, InstInv, EnsureRoots PROVE InstInv'
<1> USE DEF IInv, InstInv
<1>1. /\ at = "drop" /\ todo = {} /\ at' = "cap" /\ todo' = {a \in Addr : wanted[a] # 0}
      /\ UNCHANGED <<marks, applied, ifaceSet, rules, wanted, ifaces>>
  BY DEF EnsureRoots, managerVars
<1>2. HostTypes'
  <2>1. PICK ok : tree' = [i \in Iface |-> IF i \in ok /\ tree[i] = NoMark
                                           THEN NoClasses ELSE tree[i]]
    BY DEF EnsureRoots
  <2>2. NoClasses \in [Mark -> Nat] BY DEF NoClasses
  <2> QED BY <1>1, <2>1, <2>2 DEF HostTypes
<1>3. Passing' BY <1>1 DEF Passing
<1>4. Classes' /\ Rules' BY <1>1 DEF Classes, Rules, Passing
<1> QED BY <1>2, <1>3, <1>4

\* A client is capped with its own mark, which is the class of no other.
LEMMA CapInst == ASSUME IInv, Wanted, InstInv, NEW a \in Addr, Cap(a) PROVE InstInv'
<1> USE DEF IInv, InstInv
<1>1. /\ at = "cap" /\ at' = "cap" /\ a \in todo /\ todo' = todo \ {a}
      /\ applied' = [applied EXCEPT ![a] = wanted[a]]
      /\ UNCHANGED <<ifaceSet, rules, wanted, ifaces>>
  BY DEF Cap
<1>2. PICK m \in Mark, ok \in Succeeds(ifaces) :
         /\ AllocMark(a, m)
         /\ tree' = [i \in Iface |-> IF i \in ok /\ tree[i] # NoMark
                                     THEN [tree[i] EXCEPT ![m] = wanted[a]] ELSE tree[i]]
         /\ LET error == failed \/ ok # ifaces \/ \E i \in ifaces : tree[i] = NoMark
            IN  failed' \in {error, error \/ MayFail}
  BY DEF Cap
<1>3. ~failed' => ~failed /\ ok = ifaces
  <2> DEFINE error == failed \/ ok # ifaces \/ \E i \in ifaces : tree[i] = NoMark
  <2>1. failed' = error \/ failed' = (error \/ MayFail) BY <1>2
  <2> QED BY <2>1, Zenon
<1>4. /\ marks' \in [Addr -> Mark \cup {NoMark}] /\ Own'
      /\ \A b \in Addr \ {a} : marks'[b] = marks[b]
  BY <1>2, AllocStep
<1>5. marks'[a] = m BY <1>2 DEF AllocMark, Types
<1>6. wanted[a] # 0 /\ wanted[a] \in Nat BY <1>1 DEF Passing, Wanted
<1>7. applied'[a] = wanted[a] /\ \A b \in Addr \ {a} : applied'[b] = applied[b]
  BY <1>1 DEF Types
<1>8. ASSUME NEW i \in Iface
      PROVE  /\ tree'[i] \in {NoMark} \cup [Mark -> Nat]
             /\ tree'[i] # NoMark => /\ tree[i] # NoMark
                                     /\ i \in ok => tree'[i][m] = wanted[a]
                                     /\ \A n \in Mark \ {m} : tree'[i][n] = tree[i][n]
  <2>1. tree'[i] = IF i \in ok /\ tree[i] # NoMark THEN [tree[i] EXCEPT ![m] = wanted[a]] ELSE tree[i]
    BY <1>2
  <2>2. tree[i] # NoMark => tree[i] \in [Mark -> Nat] BY DEF HostTypes
  <2> QED BY <1>6, <2>1, <2>2
<1>9. HostTypes'
  <2>1. tree' \in [Iface -> {NoMark} \cup [Mark -> Nat]] BY <1>2, <1>8
  <2> QED BY <1>1, <2>1 DEF HostTypes
<1>10. Passing' BY <1>1, <1>4, <1>6, <1>7 DEF Passing
<1>11. Classes'
  <2> SUFFICES ASSUME ~failed', NEW b \in Addr \ todo', applied'[b] # 0, NEW i \in ifaces,
                      tree'[i] # NoMark
               PROVE  tree'[i][marks'[b]] = applied'[b]
    BY <1>1 DEF Classes, Classed
  <2>1. i \in Iface /\ i \in ok BY <1>3 DEF HostTypes
  <2>2. CASE b = a BY <1>5, <1>7, <1>8, <2>1, <2>2
  <2>3. CASE b # a
    <3>1. b \in Addr \ todo /\ applied[b] # 0 /\ marks'[b] = marks[b] /\ applied'[b] = applied[b]
      BY <1>1, <1>4, <1>7, <2>3
    <3>2. tree[i] # NoMark /\ tree[i][marks[b]] = applied[b]
      BY <1>1, <1>3, <1>8, <2>1, <3>1 DEF Classes, Classed
    <3>3. marks[b] \in Mark BY <3>1 DEF Marked, Types
    <3>4. marks[b] # m BY <1>4, <1>5, <2>3, <3>1, <3>3, Marks DEF Own
    <3> QED BY <1>8, <2>1, <3>1, <3>2, <3>3, <3>4
  <2> QED BY <2>2, <2>3
<1>12. Rules' BY <1>1 DEF Rules
<1> QED BY <1>9, <1>10, <1>11, <1>12

\* One client too many, the end of the caps, and syncMarks.
LEMMA MarksInst ==
    ASSUME IInv, InstInv,
           \/ \E a \in Addr : CapRefused(a) \/ MarkRule(a)
           \/ CapDone \/ FlushMarks \/ ApplyDone
    PROVE  InstInv'
<1> USE DEF IInv, InstInv, managerVars, hostVars
<1>1. UNCHANGED <<marks, applied, tree, ifaces>>
  BY DEF CapRefused, MarkRule, CapDone, FlushMarks, ApplyDone
<1>2. ASSUME NEW a \in Addr, NEW S PROVE Classed(a, S)' <=> Classed(a, S)
  BY <1>1 DEF Classed
<1>3. ASSUME NEW a \in Addr, CapRefused(a) PROVE InstInv'
  <2>1. /\ at = "cap" /\ at' = "cap" /\ failed' /\ todo' = todo \ {a}
        /\ UNCHANGED <<ifaceSet, wanted, rules>>
    BY <1>3 DEF CapRefused
  <2>2. HostTypes' /\ Passing' BY <1>1, <2>1 DEF HostTypes, Passing
  <2>3. Classes' /\ Rules' BY <2>1 DEF Classes, Rules
  <2> QED BY <2>2, <2>3
<1>4. CASE CapDone
  <2>1. /\ at = "cap" /\ todo = {} /\ at' = "flush" /\ ifaceSet' = ifaces
        /\ UNCHANGED <<failed, wanted, rules>>
    BY <1>4 DEF CapDone
  <2>2. HostTypes' /\ Passing' BY <1>1, <2>1 DEF HostTypes, Passing
  <2>3. Classes' BY <1>1, <1>2, <2>1 DEF Classes
  <2>4. Rules' BY <2>1 DEF Rules
  <2> QED BY <2>2, <2>3, <2>4
<1>5. CASE FlushMarks
  <2>1. /\ at = "flush" /\ UNCHANGED <<ifaceSet, wanted>>
        /\ rules' = rules \/ rules' = NoMarks
    BY <1>5 DEF FlushMarks
  <2>2. CASE at' = "idle" /\ failed'
    <3>1. HostTypes' /\ Passing' BY <1>1, <2>1, <2>2 DEF HostTypes, Passing, NoMarks
    <3>2. Classes' /\ Rules' BY <2>2 DEF Classes, Rules
    <3> QED BY <3>1, <3>2
  <2>3. CASE /\ at' = "mark" /\ failed' = failed /\ rules' = NoMarks
             /\ todo' = {a \in Addr : applied[a] # 0 /\ marks[a] # NoMark}
    <3>1. HostTypes' /\ Passing' BY <1>1, <2>1, <2>3 DEF HostTypes, Passing, NoMarks
    <3>2. Classes' BY <1>1, <1>2, <2>1, <2>3 DEF Classes
    <3>3. Rules' BY <1>1, <2>3 DEF Rules, NoMarks, Passing
    <3> QED BY <3>1, <3>2, <3>3
  <2> QED BY <1>5, <2>2, <2>3 DEF FlushMarks
<1>6. ASSUME NEW a \in Addr, MarkRule(a) PROVE InstInv'
  <2>1. /\ at = "mark" /\ a \in todo /\ UNCHANGED <<ifaceSet, wanted>>
        /\ rules' = rules \/ rules' = [rules EXCEPT ![a] = marks[a]]
    BY <1>6 DEF MarkRule
  <2>2. marks[a] \in Mark \cup {NoMark} BY DEF Types
  <2>3. CASE at' = "idle" /\ failed'
    <3>1. HostTypes' /\ Passing' BY <1>1, <2>2, <2>1, <2>3 DEF HostTypes, Passing
    <3>2. Classes' /\ Rules' BY <2>3 DEF Classes, Rules
    <3> QED BY <3>1, <3>2
  <2>4. CASE /\ at' = "mark" /\ failed' = failed /\ todo' = todo \ {a}
             /\ rules' = [rules EXCEPT ![a] = marks[a]]
    <3>1. HostTypes' /\ Passing' BY <1>1, <2>2, <2>1, <2>4 DEF HostTypes, Passing
    <3>2. Classes' BY <1>1, <1>2, <2>1, <2>4 DEF Classes
    <3>3. Rules' BY <1>1, <2>1, <2>4 DEF Rules, HostTypes
    <3> QED BY <3>1, <3>2, <3>3
  <2> QED BY <1>6, <2>1, <2>3, <2>4 DEF MarkRule
<1>7. CASE ApplyDone
  <2>1. /\ at = "mark" /\ todo = {} /\ at' = "idle"
        /\ UNCHANGED <<failed, ifaceSet, wanted, rules>>
    BY <1>7 DEF ApplyDone
  <2>2. HostTypes' /\ Passing' BY <1>1, <2>1 DEF HostTypes, Passing
  <2>3. Classes' BY <1>1, <1>2, <2>1 DEF Classes
  <2>4. Rules' BY <1>1, <2>1 DEF Rules
  <2> QED BY <2>2, <2>3, <2>4
<1> QED BY <1>3, <1>4, <1>5, <1>6, <1>7

\* teardownAll leaves no client.
LEMMA TeardownInst == ASSUME InstInv, ApplyNothing \/ Close PROVE InstInv'
<1> USE DEF InstInv
<1>1. /\ TeardownAll /\ at' = "idle" /\ ifaces' = ifaces
  BY DEF ApplyNothing, Close
<1>2. marks' = NoMarks /\ applied' = NoClients /\ ifaceSet' = {} BY <1>1 DEF TeardownAll
<1>3. HostTypes' BY <1>1, <1>2 DEF TeardownAll, HostTypes, NoMarks
<1>4. Passing' BY <1>1, <1>2 DEF Passing, NoMarks
<1>5. Classes' /\ Rules' BY <1>1, <1>2 DEF Classes, Rules, NoClients
<1> QED BY <1>3, <1>4, <1>5

\* Interfaces come and go: one that goes takes its tree with it.
LEMMA HostInst ==
    ASSUME InstInv, (\E i \in Tunnel : LinkChange(i)) \/ UNCHANGED limiterVars
    PROVE  InstInv'
<1> USE DEF InstInv
<1>1. /\ UNCHANGED <<marks, applied, ifaceSet, rules, at, wanted, ifaces, todo, failed>>
      /\ tree' = tree \/ \E i \in Tunnel : tree' = [tree EXCEPT ![i] = NoMark]
  BY DEF LinkChange, limiterVars, managerVars, hostVars
<1>2. HostTypes' BY <1>1 DEF HostTypes
<1>3. \A i \in Iface : tree'[i] = tree[i] \/ tree'[i] = NoMark BY <1>1 DEF HostTypes
<1>4. ASSUME NEW a \in Addr, NEW S \in SUBSET Iface, Classed(a, S) PROVE Classed(a, S)'
  BY <1>1, <1>3, <1>4 DEF Classed
<1>5. Passing' /\ Rules' BY <1>1 DEF Passing, Rules
<1>6. ifaces \in SUBSET Iface /\ ifaceSet \in SUBSET Iface BY DEF HostTypes
<1>7. Classes' BY <1>1, <1>4, <1>6 DEF Classes
<1> QED BY <1>2, <1>5, <1>7

\* "Apply makes the installed shaping match clients exactly, declaratively": for any
\* clients, interfaces and range of marks, and whatever failed in earlier calls, after an
\* Apply that reports no error every client is marked with its own mark and nobody else
\* is, and the class of that mark has the client's limit on every interface with a tree.
THEOREM AppliedInstalled == LimiterSpec => []AppliedIsInstalled
<1>1. LimiterInit => IInv /\ Wanted /\ InstInv
  BY InitIInv, InstInit, RateLimitAssumption DEF LimiterInit, Wanted, NoClients
<1>2. IInv /\ Wanted /\ [LimiterNext]_limiterVars => IInv' /\ Wanted' BY NextIInv
<1>3. IInv /\ Wanted /\ InstInv /\ [LimiterNext]_limiterVars => InstInv'
  BY BeginInst, DropInst, RootsInst, CapInst, MarksInst, TeardownInst, HostInst DEF LimiterNext
<1>4. InstInv => AppliedIsInstalled
  BY DEF InstInv, Classes, Rules, Classed, AppliedIsInstalled
<1> QED BY <1>1, <1>2, <1>3, <1>4, PTL DEF LimiterSpec
=============================================================================
