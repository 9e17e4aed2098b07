----------------------------- MODULE Controller -----------------------------
(***************************************************************************)
(* The node controller: the goroutines that share one Controller value.    *)
(*                                                                         *)
(* Every panel request runs in a handler goroutine of its own (gRPC and    *)
(* REST both), a successful Connect spawns a keep-alive tracker and a      *)
(* statistics recorder, and all of them interleave at the points where the *)
(* code releases c.mu.  One action is one stretch of code between two such *)
(* points.                                                                 *)
(*                                                                         *)
(* A request happens once, so the core it starts and the context its       *)
(* Connect creates are both named after it: `r' is a request, the core     *)
(* that request launched, or the context that request connected with.      *)
(* lastRequest is kept as the time since it, in ticks, capped at MaxIdle.  *)
(***************************************************************************)
EXTENDS Naturals, FiniteSets

CONSTANTS
    Req,          \* the panel requests that may arrive
    Client,       \* the panels' source addresses
    Key,          \* backendKey: type + instance of a core
    LimitedKey,   \* the cores that may have clients with a speed limit
    DisabledKey,  \* the cores an operator disabled (HPX_NODE_DISABLE_*)
    KeepAlive,    \* the keep_alive values a Start may carry (0: none)
    Kind,         \* the kinds of request in play
    MaxIdle,      \* the cap of the idle clock
    Concurrency,  \* how many requests the panel keeps in flight at once
    None          \* a nil backend, the empty client address, no request

ASSUME ControllerAssumption ==
    /\ LimitedKey \subseteq Key
    /\ DisabledKey \subseteq Key
    /\ KeepAlive \subseteq 0..MaxIdle
    /\ Kind \subseteq {"start", "stop", "call", "exit"}
    /\ MaxIdle \in Nat
    /\ Concurrency \in Nat
    /\ None \notin Req \cup Client \cup Key

VARIABLES
    backends,     \* c.backends: the core under each key, or None
    clientIP,     \* c.clientIP
    cancelFunc,   \* c.cancelFunc: the context it cancels
    idle,         \* time.Since(c.lastRequest)
    shaper,       \* c.shaper # nil
    cores,        \* the cores constructed and not shut down
    contexts,     \* the contexts created and not cancelled
    hostShaped,   \* tc / nft shaping is installed on the host
    request,      \* what each request asks for
    pc,           \* where each goroutine is
    held,         \* the cores a goroutine took out of c.backends to work on
    local         \* a goroutine's Boolean local: sameClient, shaper # nil, ...

vars == <<backends, clientIP, cancelFunc, idle, shaper, cores, contexts,
          hostShaped, request, pc, held, local>>

controllerVars == <<backends, clientIP, cancelFunc, shaper>>
worldVars == <<cores, contexts, hostShaped>>

Handler(r) == <<"handler", r>>
Tracker(r) == <<"tracker", r>>
Recorder(r) == <<"recorder", r>>
Thread == {"handler", "tracker", "recorder"} \X Req

StartRequest == [kind : {"start"}, client : Client, key : Key,
                 keepAlive : KeepAlive]
PlainRequest == [kind : {"stop", "call", "exit"}, client : {None},
                 key : {None}, keepAlive : {0}]
NoRequest == [kind |-> "none", client |-> None, key |-> None, keepAlive |-> 0]
Request == StartRequest \cup PlainRequest \cup {NoRequest}

DisconnectPC == {"cancel", "snapshot", "shutdown", "takeShaper",
                 "closeShaper", "reset"}
StartPC == {"existing", "ip", "retire", "retiring", "launch", "insert",
            "connect"}
PC == DisconnectPC \cup StartPC \cup
      {"new", "check", "use", "log", "done", "panic",          \* handler
       "absent", "refresh", "select", "create", "apply"}       \* background

InFlight == {r \in Req : pc[Handler(r)] \notin {"new", "done"}}

\* The cores registered in c.backends.
Mapped == {backends[k] : k \in Key} \ {None}

\* The process is gone once main returns or a handler panics.
Up == \A r \in Req : /\ pc[Handler(r)] # "panic"
                     /\ ~(request[r].kind = "exit" /\ pc[Handler(r)] = "done")

\* The process is up and goroutine t has reached this point.
At(t, label) == pc[t] = label /\ Up

Goto(t, label) == pc' = [pc EXCEPT ![t] = label]

TypeOK ==
    /\ backends \in [Key -> Req \cup {None}]
    /\ clientIP \in Client \cup {None}
    /\ cancelFunc \in Req \cup {None}
    /\ idle \in 0..MaxIdle
    /\ shaper \in BOOLEAN
    /\ cores \subseteq Req
    /\ contexts \subseteq Req
    /\ hostShaped \in BOOLEAN
    /\ request \in [Req -> Request]
    /\ pc \in [Thread -> PC]
    /\ held \in [Thread -> SUBSET Req]
    /\ local \in [Thread -> BOOLEAN]

Init ==
    /\ backends = [k \in Key |-> None]
    /\ clientIP = None
    /\ cancelFunc = None
    /\ idle = 0
    /\ shaper = FALSE
    /\ cores = {}
    /\ contexts = {}
    /\ hostShaped = FALSE
    /\ request = [r \in Req |-> NoRequest]
    /\ pc = [t \in Thread |-> IF t[1] = "handler" THEN "new" ELSE "absent"]
    /\ held = [t \in Thread |-> {}]
    /\ local = [t \in Thread |-> FALSE]

-----------------------------------------------------------------------------
(* Arrival and the middleware.                                             *)

\* A request reaches its handler.  Start carries no backend check, main's own
\* Disconnect (after a signal) no middleware at all; nothing arrives once the
\* listener is being shut down.
Arrive(r) ==
    /\ At(Handler(r), "new")
    /\ Cardinality(InFlight) < Concurrency
    /\ \A q \in Req : request[q].kind # "exit"
    /\ \E ask \in StartRequest \cup PlainRequest :
         /\ ask.kind \in Kind
         /\ request' = [request EXCEPT ![r] = ask]
         /\ Goto(Handler(r), CASE ask.kind = "start" -> "existing"
                               [] ask.kind = "exit"  -> "cancel"
                               [] OTHER              -> "check")
    /\ UNCHANGED <<controllerVars, worldVars, idle, held, local>>

\* checkBackendStatus: Unavailable unless some registered core is started.
CheckBackend(r) ==
    /\ At(Handler(r), "check")
    /\ Goto(Handler(r), IF Mapped \cap cores = {} THEN "done"
                        ELSE IF request[r].kind = "stop" THEN "cancel"
                        ELSE "use")
    /\ UNCHANGED <<controllerVars, worldVars, idle, request, held, local>>

\* A handler such as SyncUser or GetStats asks for s.Backend() a second time
\* and calls a method on the answer, which may fail; a nil answer is a nil
\* dereference.
UseBackend(r) ==
    /\ At(Handler(r), "use")
    /\ \E result \in IF Mapped = {} THEN {"panic"} ELSE {"log", "done"} :
         Goto(Handler(r), result)
    /\ UNCHANGED <<controllerVars, worldVars, idle, request, held, local>>

\* LoggingInterceptor: a request that succeeded counts as activity.
LogSuccess(r) ==
    /\ At(Handler(r), "log")
    /\ idle' = 0
    /\ Goto(Handler(r), "done")
    /\ UNCHANGED <<controllerVars, worldVars, request, held, local>>

-----------------------------------------------------------------------------
(* Start.                                                                  *)

\* Mutant: sameClient is computed without `existing'.
StartExisting_Ignored(r) ==
    /\ At(Handler(r), "existing")
    /\ Goto(Handler(r), "ip")
    /\ local' = [local EXCEPT ![Handler(r)] = FALSE]
    /\ UNCHANGED <<controllerVars, worldVars, idle, request, held>>

\* existing := s.Backend() != nil
StartExisting(r) ==
    /\ At(Handler(r), "existing")
    /\ Goto(Handler(r), IF Mapped = {} THEN "retire" ELSE "ip")
    /\ local' = [local EXCEPT ![Handler(r)] = FALSE]
    /\ UNCHANGED <<controllerVars, worldVars, idle, request, held>>

\* Mutant: another client's Start does not disconnect the former client.
StartIp_NoTakeOver(r) ==
    /\ At(Handler(r), "ip")
    /\ local' = [local EXCEPT ![Handler(r)] = clientIP = request[r].client]
    /\ Goto(Handler(r), "retire")
    /\ UNCHANGED <<controllerVars, worldVars, idle, request, held>>

\* sameClient := s.Ip() == clientIP; another client's Start takes over.
StartIp(r) ==
    LET sameClient == clientIP = request[r].client
    IN  /\ At(Handler(r), "ip")
        /\ local' = [local EXCEPT ![Handler(r)] = sameClient]
        /\ Goto(Handler(r), IF sameClient THEN "retire" ELSE "cancel")
        /\ UNCHANGED <<controllerVars, worldVars, idle, request, held>>

\* StartBackend refuses a disabled core type before it touches anything.
RefuseDisabled(r) ==
    /\ At(Handler(r), "retire")
    /\ request[r].key \in DisabledKey
    /\ Goto(Handler(r), "done")
    /\ UNCHANGED <<controllerVars, worldVars, idle, request, held, local>>

\* It takes a previous instance of this key out of the map ...
RetireOld(r) ==
    LET old == backends[request[r].key]
    IN  /\ At(Handler(r), "retire")
        /\ request[r].key \notin DisabledKey
        /\ held' = [held EXCEPT ![Handler(r)] = {old} \ {None}]
        /\ backends' = [backends EXCEPT ![request[r].key] = None]
        /\ Goto(Handler(r), IF old = None THEN "launch" ELSE "retiring")
        /\ UNCHANGED <<clientIP, cancelFunc, shaper, worldVars, idle, request,
                       local>>

\* Mutant: the old instance is dropped without Shutdown.
ShutdownOld_Dropped(r) ==
    /\ At(Handler(r), "retiring")
    /\ held' = [held EXCEPT ![Handler(r)] = {}]
    /\ Goto(Handler(r), "launch")
    /\ UNCHANGED <<controllerVars, worldVars, idle, request, local>>

\* ... and shuts it down, outside the lock.
ShutdownOld(r) ==
    /\ At(Handler(r), "retiring")
    /\ cores' = cores \ held[Handler(r)]
    /\ held' = [held EXCEPT ![Handler(r)] = {}]
    /\ Goto(Handler(r), "launch")
    /\ UNCHANGED <<controllerVars, contexts, hostShaped, idle, request, local>>

\* CheckDeps, NewConfig and New of the core's package: it runs, or the
\* request fails and nothing runs under this key.
Launch(r) ==
    /\ At(Handler(r), "launch")
    /\ \/ /\ cores' = cores \cup {r}
          /\ held' = [held EXCEPT ![Handler(r)] = {r}]
          /\ Goto(Handler(r), "insert")
       \/ /\ UNCHANGED <<cores, held>>
          /\ Goto(Handler(r), "done")
    /\ UNCHANGED <<controllerVars, contexts, hostShaped, idle, request, local>>

InsertNew(r) ==
    /\ At(Handler(r), "insert")
    /\ backends' = [backends EXCEPT ![request[r].key] = r]
    /\ held' = [held EXCEPT ![Handler(r)] = {}]
    /\ Goto(Handler(r), "connect")
    /\ UNCHANGED <<clientIP, cancelFunc, shaper, worldVars, idle, request,
                   local>>

\* Start's tail: NewRequest for the client already in control, Connect (which
\* replaces cancelFunc and spawns the background goroutines) for another.
ConnectClient(r) ==
    /\ At(Handler(r), "connect")
    /\ idle' = 0
    /\ \/ /\ local[Handler(r)]
          /\ Goto(Handler(r), "log")
          /\ UNCHANGED <<clientIP, cancelFunc, contexts>>
       \/ /\ ~local[Handler(r)]
          /\ clientIP' = request[r].client
          /\ cancelFunc' = r
          /\ contexts' = contexts \cup {r}
          /\ pc' = [pc EXCEPT
                      ![Handler(r)] = "log",
                      ![Recorder(r)] = "refresh",
                      ![Tracker(r)] = IF request[r].keepAlive > 0
                                      THEN "select" ELSE "absent"]
    /\ UNCHANGED <<backends, shaper, cores, hostShaped, request, held, local>>

-----------------------------------------------------------------------------
(* Disconnect, run by a handler (Stop, a take-over, main) or by a tracker. *)

\* c.cancelFunc() is read and called without the lock.
DisconnectCancel(t) ==
    /\ At(t, "cancel")
    /\ contexts' = contexts \ {cancelFunc}
    /\ Goto(t, "snapshot")
    /\ UNCHANGED <<controllerVars, cores, hostShaped, idle, request, held,
                   local>>

DisconnectSnapshot(t) ==
    /\ At(t, "snapshot")
    /\ held' = [held EXCEPT ![t] = Mapped]
    /\ Goto(t, "shutdown")
    /\ UNCHANGED <<controllerVars, worldVars, idle, request, local>>

\* One core at a time, in the order of a Go map: any order.
DisconnectShutdown(t) ==
    /\ At(t, "shutdown")
    /\ \/ /\ held[t] = {}
          /\ Goto(t, "takeShaper")
          /\ UNCHANGED <<cores, held>>
       \/ \E b \in held[t] :
            /\ cores' = cores \ {b}
            /\ held' = [held EXCEPT ![t] = @ \ {b}]
            /\ UNCHANGED pc
    /\ UNCHANGED <<controllerVars, contexts, hostShaped, idle, request, local>>

\* closeShaping: take the shaper under the lock, close it outside.
TakeShaper(t) ==
    /\ At(t, "takeShaper")
    /\ shaper' = FALSE
    /\ Goto(t, IF shaper THEN "closeShaper" ELSE "reset")
    /\ UNCHANGED <<backends, clientIP, cancelFunc, worldVars, idle, request,
                   held, local>>

CloseShaper(t) ==
    /\ At(t, "closeShaper")
    /\ hostShaped' = FALSE
    /\ Goto(t, "reset")
    /\ UNCHANGED <<controllerVars, cores, contexts, idle, request, held, local>>

\* Where a goroutine goes on after Disconnect.
AfterDisconnect(t) ==
    CASE t[1] = "tracker" -> "select"
      [] t[1] = "handler" /\ request[t[2]].kind = "start" -> "retire"
      [] t[1] = "handler" /\ request[t[2]].kind = "stop" -> "log"
      [] OTHER -> "done"

\* Mutant: the shut-down cores stay registered.
DisconnectReset_KeepsMap(t) ==
    /\ At(t, "reset")
    /\ clientIP' = None
    /\ Goto(t, AfterDisconnect(t))
    /\ UNCHANGED <<backends, cancelFunc, shaper, worldVars, idle, request, held,
                   local>>

\* Mutant: the client stays in control.
DisconnectReset_KeepsClient(t) ==
    /\ At(t, "reset")
    /\ backends' = [k \in Key |-> None]
    /\ Goto(t, AfterDisconnect(t))
    /\ UNCHANGED <<clientIP, cancelFunc, shaper, worldVars, idle, request, held,
                   local>>

\* The map is replaced by an empty one, whatever it holds by now.  A take-over
\* goes on with StartBackend, a tracker goes back to its select.
DisconnectReset(t) ==
    /\ At(t, "reset")
    /\ backends' = [k \in Key |-> None]
    /\ clientIP' = None
    /\ Goto(t, AfterDisconnect(t))
    /\ UNCHANGED <<cancelFunc, shaper, worldVars, idle, request, held, local>>

Disconnect(t) ==
    \/ DisconnectCancel(t) \/ DisconnectSnapshot(t) \/ DisconnectShutdown(t)
    \/ TakeShaper(t) \/ CloseShaper(t) \/ DisconnectReset(t)

-----------------------------------------------------------------------------
(* keepAliveTracker and recordSystemStats, one of each per Connect.        *)

\* The tick compares the idle time with this tracker's own keep-alive; the
\* Disconnect it decides on runs later.
TrackerTick(r) ==
    /\ At(Tracker(r), "select")
    /\ idle >= request[r].keepAlive
    /\ Goto(Tracker(r), "cancel")
    /\ UNCHANGED <<controllerVars, worldVars, idle, request, held, local>>

\* <-ctx.Done()
BackgroundExit(t) ==
    /\ At(t, "select")
    /\ t[2] \notin contexts
    /\ Goto(t, "absent")
    /\ UNCHANGED <<controllerVars, worldVars, idle, request, held, local>>

\* refreshShaping, first half, at the start and on every tick: the shaper and
\* the cores as they are now, and which of their clients have a limit.  It
\* stays idle when there is neither a shaper nor a client to shape.
ShapingSnapshot(r) ==
    /\ At(Recorder(r), "refresh") \/ At(Recorder(r), "select")
    /\ \E limited \in BOOLEAN :
         /\ limited => \E b \in Mapped : request[b].key \in LimitedKey
         /\ local' = [local EXCEPT ![Recorder(r)] = limited]
         /\ Goto(Recorder(r), CASE shaper  -> "apply"
                                [] limited /\ ~shaper -> "create"
                                [] OTHER   -> "select")
    /\ UNCHANGED <<controllerVars, worldVars, idle, request, held>>

\* The first limited client: a new manager, registered under the lock.
ShapingCreate(r) ==
    /\ At(Recorder(r), "create")
    /\ shaper' = TRUE
    /\ Goto(Recorder(r), "apply")
    /\ UNCHANGED <<backends, clientIP, cancelFunc, worldVars, idle, request,
                   held, local>>

\* shaper.Apply: without clients it tears everything down, with clients it
\* installs unless tc or nft fails.
ShapingApply(r) ==
    /\ At(Recorder(r), "apply")
    /\ hostShaped' \in IF local[Recorder(r)] THEN {TRUE, hostShaped} ELSE {FALSE}
    /\ Goto(Recorder(r), "select")
    /\ UNCHANGED <<controllerVars, cores, contexts, idle, request, held, local>>

Tick ==
    /\ Up
    /\ idle < MaxIdle
    /\ idle' = idle + 1
    /\ UNCHANGED <<controllerVars, worldVars, request, pc, held, local>>

-----------------------------------------------------------------------------
HandlerStep(r) ==
    \/ CheckBackend(r) \/ UseBackend(r) \/ LogSuccess(r)
    \/ StartExisting(r) \/ StartIp(r) \/ RefuseDisabled(r) \/ RetireOld(r)
    \/ ShutdownOld(r) \/ Launch(r) \/ InsertNew(r) \/ ConnectClient(r)
    \/ Disconnect(Handler(r))

TrackerStep(r) == TrackerTick(r) \/ Disconnect(Tracker(r))

ShapingStep(r) == ShapingSnapshot(r) \/ ShapingCreate(r) \/ ShapingApply(r)

Next ==
    \/ \E r \in Req : \/ Arrive(r) \/ HandlerStep(r) \/ TrackerStep(r)
                      \/ ShapingStep(r)
                      \/ BackgroundExit(Tracker(r))
                      \/ BackgroundExit(Recorder(r))
    \/ Tick

Spec == Init /\ [][Next]_vars

\* Every goroutine that can run does, and time passes.  Go's select chooses at
\* random among the ready cases, so a cancelled context is noticed in the end
\* even by a loop whose ticker keeps firing.  Requests need not arrive.
Fairness ==
    /\ WF_vars(Tick)
    /\ \A r \in Req :
         /\ WF_vars(HandlerStep(r))
         /\ WF_vars(TrackerStep(r))
         /\ WF_vars(ShapingStep(r))
         /\ SF_vars(BackgroundExit(Tracker(r)))
         /\ SF_vars(BackgroundExit(Recorder(r)))

FairSpec == Spec /\ Fairness

-----------------------------------------------------------------------------
(* Properties.                                                             *)

\* The cores a handler or tracker is holding outside the map: about to be shut
\* down, or launched and about to be registered.
InHand == UNION {held[t] : t \in Thread}

\* Where a Disconnect is once it has cancelled the context, and once it has
\* chosen the cores to shut down.
AfterCancelPC == DisconnectPC \ {"cancel"}
AfterSnapshotPC == AfterCancelPC \ {"snapshot"}

\* No handler is in flight and no keep-alive disconnect is under way.
Settled ==
    /\ InFlight = {}
    /\ \A r \in Req : pc[Tracker(r)] \notin DisconnectPC

\* "backends holds every core running on this node" (controller.go:57): a core
\* that runs is registered, or in the hands of a goroutine that will register
\* it or shut it down.  A core outside both can never be stopped again.
NoOrphanCore == cores \subseteq Mapped \cup InHand

\* "Calling it again for the same instance shuts the old process down and swaps
\* the new one in" (StartBackend): once the calls have returned, one core per
\* instance runs.
OneCorePerKey ==
    Settled => \A a, b \in cores : request[a].key = request[b].key => a = b

\* Between requests every registered core runs, belongs to the client in
\* control, and that client's background goroutines have not been cancelled.
OwnedAndAttended ==
    Settled /\ Mapped # {} =>
        /\ Mapped \subseteq cores
        /\ \A b \in Mapped : request[b].client = clientIP
        /\ cancelFunc \in contexts

\* However the goroutines interleave, a registered core that is down is on its
\* way out: some Disconnect that may have shut it down has yet to empty the
\* map.  So between requests everything Backend() hands out runs.
DeadCoreIsLeaving ==
    Mapped \subseteq cores \/ \E t \in Thread : pc[t] \in AfterSnapshotPC

\* However the goroutines interleave, the client in control has its background
\* goroutines (statistics, limits, keep-alive), or is being disconnected.
ClientIsAttended ==
    clientIP # None =>
        cancelFunc \in contexts \/ \E t \in Thread : pc[t] \in AfterCancelPC

\* A handler admitted by the backend check never calls a method of a nil
\* Backend(); in a gRPC handler that ends the node process.
NoPanic == \A r \in Req : pc[Handler(r)] # "panic"

\* "a Start from the SAME client adds another backend; a Start from a DIFFERENT
\* client takes over" (rpc/base.go:30): while only one client has ever called,
\* no Start disconnects it.
SameClientAdds ==
    \A r \in Req :
        request[r].kind = "start" /\ pc[Handler(r)] \in DisconnectPC =>
            \E q \in Req : request[q].kind = "start"
                           /\ request[q].client # request[r].client

\* "a Start from a DIFFERENT client takes over" (rpc/base.go:30): between
\* requests no background goroutine of a former client is left running, so no
\* keep-alive but its own can disconnect the client in control.
FormerClientIsGone ==
    Settled /\ clientIP # None =>
        \A r \in contexts : request[r].client = clientIP

\* "Everything installed here is tagged and removed again on Close, so a node
\* restart never leaves stale shaping behind" (ratelimit.go:24): with no core
\* registered and every goroutine at rest nothing is shaped.
NoStaleShaping ==
    Settled /\ Mapped = {} /\ (\A r \in Req : pc[Recorder(r)] = "absent")
        => ~hostShaped

\* Whatever Start or Disconnect took out to shut down does go down.
TakenGoesDown ==
    \A r \in Req :
        (\E t \in Thread : r \in held[t] /\ pc[t] \in {"shutdown", "retiring"})
            ~> (r \notin cores)

\* A panel that connected with a keep-alive and then falls silent loses the
\* node: the registered cores are all given up.
SilenceDisconnects ==
    <>[](InFlight = {}) =>
        \A r \in Req : (r \in contexts /\ request[r].keepAlive > 0)
                           ~> (Mapped = {})
=============================================================================
