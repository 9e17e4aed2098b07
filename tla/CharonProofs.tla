---------------------------- MODULE CharonProofs ----------------------------
(***************************************************************************)
(* What Charon guarantees for any finite set of backends.  The types hold  *)
(* whatever happens; the count and the service hold until a Restart fails  *)
(* or charon dies by itself, if no Shutdown overlaps a renewal.            *)
(***************************************************************************)
EXTENDS Charon, FiniteSetTheorems, TLAPS

\* The backend a thread belongs to.
Of(p) == p[1]

\* Where a thread is while its backend has a reference.
HoldLabel == {"stop", "unload", "release", "load", "undo"}

\* Idle, whatever the threads of b are.
AtEase(b) == \A p \in Thread : Of(p) = b => at[p] = "idle"

Holding(b) ==
    \/ \E p \in Thread : Of(p) = b /\ at[p] \in HoldLabel
    \/ AtEase(b) /\ inst[b] = "held"

\* Types without the bound on refs, which only the count gives.
Types ==
    /\ refs \in Nat
    /\ process \in BOOLEAN /\ alive \in BOOLEAN
    /\ loaded \subseteq Backend /\ conf \subseteq Backend /\ holds \subseteq Backend
    /\ inst \in [Backend -> {"none", "held", "dropped"}]
    /\ once \in [Backend -> {"new", "busy", "done"}]
    /\ running \subseteq Backend /\ watching \subseteq Renewing
    /\ at \in [Thread -> Label]
    /\ job \in [Thread -> {"new", "restart", "shutdown"}]

\* One thread of a backend at a time.
Alone == \A p, q \in Thread : p # q /\ Of(p) = Of(q) => at[p] = "idle" \/ at[q] = "idle"

\* The reference a backend has follows from where its threads are.
HoldsByControl == \A b \in Backend : b \in holds <=> Holding(b)

\* What a thread knows where it is.
Knows ==
    \A p \in Thread :
        /\ at[p] \in {"stop", "begin", "acquire", "load", "undo"} => once[Of(p)] = "new"
        /\ at[p] \in {"stop", "unload", "release", "reset"} => job[p] # "new"
        /\ at[p] = "undo" => job[p] = "new"
        /\ at[p] \in {"reset", "begin", "acquire", "load"} => job[p] # "shutdown"
        /\ at[p] # "idle" => (job[p] = "new" <=> inst[Of(p)] # "held")
        /\ at[p] \in {"unload", "release"} => Of(p) \notin watching
        /\ at[p] \notin {"idle", "stop"} => Of(p) \notin running
        /\ at[p] \in {"acquire", "load"} => Of(p) \in conf

\* An owned backend at rest can be shut down, and only such a one is watched.
AtRest ==
    \A b \in Backend :
        /\ AtEase(b) /\ inst[b] = "held" => once[b] = "new"
        /\ AtEase(b) /\ b \in watching => inst[b] = "held"

Counted == refs = Cardinality(holds)
DaemonUp == alive <=> refs > 0

\* A running backend has its reference, its fragment and its connection.
Served == running \subseteq holds \cap conf \cap loaded

IInv ==
    /\ Types /\ Alone /\ HoldsByControl /\ Knows /\ AtRest /\ Counted /\ DaemonUp
    /\ Served

-----------------------------------------------------------------------------
\* A backend has two threads.
LEMMA Threads ==
    /\ \A b \in Backend : /\ <<b, "call">> \in Thread /\ <<b, "renew">> \in Thread
                         /\ Of(<<b, "call">>) = b /\ Of(<<b, "renew">>) = b
    /\ \A p \in Thread : p = <<Of(p), "call">> \/ p = <<Of(p), "renew">>
BY DEF Thread, Of

\* A thread belongs to a backend.
LEMMA Owner == \A p \in Thread : Of(p) \in Backend
BY DEF Thread, Of

\* Both threads of a backend are idle exactly when the backend is at ease.
LEMMA IdleIsAtEase == \A b \in Backend : Idle(b) <=> AtEase(b)
BY Threads DEF Idle, AtEase

\* The size of the set of holders when one joins or leaves it.
LEMMA Count ==
    ASSUME NEW S \in SUBSET Backend, NEW b \in Backend
    PROVE  /\ Cardinality(S) \in Nat
           /\ Cardinality(S) <= Cardinality(Backend) /\ Cardinality(Backend) \in Nat
           /\ b \notin S => Cardinality(S \cup {b}) = Cardinality(S) + 1
           /\ b \in S => /\ Cardinality(S \ {b}) = Cardinality(S) - 1
                        /\ Cardinality(S) > 0
           /\ Cardinality(S) = 0 <=> S = {}
<1>1. IsFiniteSet(Backend) BY CharonAssumption
<1>2. IsFiniteSet(S) /\ Cardinality(S) <= Cardinality(Backend)
  BY <1>1, FS_Subset
<1>3. Cardinality(S) \in Nat /\ Cardinality(Backend) \in Nat
  BY <1>1, <1>2, FS_CardinalityType
<1>4. Cardinality(S) = 0 <=> S = {} BY <1>2, FS_EmptySet
<1>5. b \notin S => Cardinality(S \cup {b}) = Cardinality(S) + 1
  BY <1>2, FS_AddElement
<1>6. b \in S => Cardinality(S \ {b}) = Cardinality(S) - 1
  BY <1>2, FS_RemoveElement
<1>7. b \in S => Cardinality(S) > 0 BY <1>3, <1>4
<1> QED BY <1>2, <1>3, <1>4, <1>5, <1>6, <1>7

\* The node starts with no reference and no daemon.
LEMMA InitIInv == Init => IInv
<1> SUFFICES ASSUME Init PROVE IInv OBVIOUS
<1> USE DEF Init
<1>1. Types BY DEF Types, Label
<1>2. Alone /\ HoldsByControl /\ Knows /\ AtRest
  BY Owner DEF Alone, HoldsByControl, Holding, HoldLabel, Knows, AtRest, AtEase
<1>3. Counted /\ DaemonUp /\ Served
  BY FS_EmptySet DEF Counted, DaemonUp, Served
<1> QED BY <1>1, <1>2, <1>3 DEF IInv

-----------------------------------------------------------------------------
\* A step of thread p of backend b goes from p's label to `label' and touches
\* nothing of other backends and threads.  What is left to show of an action is
\* what holds of b and p themselves.
Step(p, label) ==
    /\ \A q \in Thread : q # p /\ Of(q) = Of(p) => at[q] = "idle"
    /\ at' = [at EXCEPT ![p] = label]
    /\ \A q \in Thread : q # p => job'[q] = job[q]
    /\ \A c \in Backend : c # Of(p) => /\ once'[c] = once[c] /\ inst'[c] = inst[c]
                                       /\ c \in holds' <=> c \in holds
                                       /\ c \in watching' <=> c \in watching
                                       /\ c \in running' <=> c \in running
                                       /\ c \in conf' <=> c \in conf

OwnHolds(p, label) ==
    Of(p) \in holds' <=> IF label = "idle" THEN inst'[Of(p)] = "held" ELSE label \in HoldLabel

OwnKnows(p, label) ==
    /\ label \in {"stop", "begin", "acquire", "load", "undo"} => once'[Of(p)] = "new"
    /\ label \in {"stop", "unload", "release", "reset"} => job'[p] # "new"
    /\ label = "undo" => job'[p] = "new"
    /\ label \in {"reset", "begin", "acquire", "load"} => job'[p] # "shutdown"
    /\ label # "idle" => (job'[p] = "new" <=> inst'[Of(p)] # "held")
    /\ label \in {"unload", "release"} => Of(p) \notin watching'
    /\ label \notin {"idle", "stop"} => Of(p) \notin running'
    /\ label \in {"acquire", "load"} => Of(p) \in conf'

OwnRest(p, label) ==
    label = "idle" => /\ inst'[Of(p)] = "held" => once'[Of(p)] = "new"
                      /\ Of(p) \in watching' => inst'[Of(p)] = "held"

\* A thread moves to a label and changes its own backend only: what is left to show.
LEMMA Frame ==
    ASSUME IInv, Types', NEW p \in Thread, NEW label \in Label, Step(p, label),
           OwnHolds(p, label), OwnKnows(p, label), OwnRest(p, label)
    PROVE  Alone' /\ HoldsByControl' /\ Knows' /\ AtRest'
<1> USE DEF IInv
<1>0. /\ at'[p] = label
      /\ \A q \in Thread : q # p => at'[q] = at[q]
      /\ Of(p) \in Backend
  BY Owner DEF Step, Types
<1>1. Alone' BY <1>0 DEF Alone, Step
<1>2. HoldsByControl'
  <2> SUFFICES ASSUME NEW c \in Backend PROVE c \in holds' <=> Holding(c)'
    BY DEF HoldsByControl
  <2>1. CASE c = Of(p)
    <3>1. \A q \in Thread : q # p /\ Of(q) = c => at'[q] = "idle"
      BY <1>0, <2>1 DEF Step
    <3>2. AtEase(c)' <=> label = "idle" BY <1>0, <2>1, <3>1 DEF AtEase
    <3>3. (\E q \in Thread : Of(q) = c /\ at'[q] \in HoldLabel) <=> label \in HoldLabel
      BY <1>0, <2>1, <3>1 DEF HoldLabel
    <3>4. "idle" \notin HoldLabel BY DEF HoldLabel
    <3> QED BY <2>1, <3>2, <3>3, <3>4 DEF OwnHolds, Holding
  <2>2. CASE c # Of(p)
    <3>1. \A q \in Thread : Of(q) = c => at'[q] = at[q] BY <1>0, <2>2
    <3>2. Holding(c)' <=> Holding(c) BY <2>2, <3>1 DEF Holding, AtEase, Step
    <3> QED BY <2>2, <3>2 DEF HoldsByControl, Step
  <2> QED BY <2>1, <2>2
<1>3. Knows'
  <2> SUFFICES ASSUME NEW q \in Thread PROVE Knows!(q)'
    BY DEF Knows
  <2>1. CASE q = p BY <1>0, <2>1 DEF OwnKnows
  <2>2. CASE q # p /\ Of(q) = Of(p)
    BY <1>0, <2>2 DEF Step
  <2>3. CASE Of(q) # Of(p)
    <3>1. q # p /\ Of(q) \in Backend BY <2>3, Owner
    <3>2. at'[q] = at[q] /\ job'[q] = job[q] BY <1>0, <3>1 DEF Step
    <3>3. /\ once'[Of(q)] = once[Of(q)] /\ inst'[Of(q)] = inst[Of(q)]
          /\ Of(q) \in watching' <=> Of(q) \in watching
          /\ Of(q) \in running' <=> Of(q) \in running
          /\ Of(q) \in conf' <=> Of(q) \in conf
      BY <2>3, <3>1 DEF Step
    <3> QED BY <3>2, <3>3 DEF Knows
  <2> QED BY <2>1, <2>2, <2>3
<1>4. AtRest'
  <2> SUFFICES ASSUME NEW c \in Backend PROVE AtRest!(c)'
    BY DEF AtRest
  <2>1. CASE c = Of(p)
    <3>1. AtEase(c)' => label = "idle" BY <1>0, <2>1 DEF AtEase
    <3> QED BY <2>1, <3>1 DEF OwnRest
  <2>2. CASE c # Of(p)
    <3>1. AtEase(c)' <=> AtEase(c) BY <1>0, <2>2 DEF AtEase
    <3> QED BY <2>2, <3>1 DEF AtRest, Step
  <2> QED BY <2>1, <2>2
<1> QED BY <1>1, <1>2, <1>3, <1>4

\* The owner or the watcher begins an operation.
LEMMA CallStep ==
    ASSUME ~Overlap, calm', IInv, NEW b \in Backend, New(b) \/ Restart(b) \/ Shutdown(b) \/ Renew(b)
    PROVE  IInv'
<1> USE DEF IInv
<1>1. PICK p \in Thread, label \in {"begin", "stop"}, what \in {"new", "restart", "shutdown"} :
        /\ Of(p) = b /\ AtEase(b)
        /\ at' = [at EXCEPT ![p] = label] /\ job' = [job EXCEPT ![p] = what]
        /\ what = "new" <=> label = "begin"
        /\ label = "begin" => /\ inst[b] # "held" /\ b \notin running \cup watching
                              /\ once' = [once EXCEPT ![b] = "new"]
        /\ label = "stop" => inst[b] = "held" /\ once' = once
        /\ UNCHANGED <<daemonVars, conf, inst, running, watching>>
  <2>1. Idle(b) <=> AtEase(b) BY IdleIsAtEase
  <2>2. CASE New(b) BY <2>1, <2>2, Threads DEF New, Go
  <2>3. CASE Restart(b) BY <2>1, <2>3, Threads DEF Restart, Go, backendVars
  <2>4. CASE Shutdown(b) BY <2>1, <2>4, Threads DEF Shutdown, Go, backendVars
  <2>5. CASE Renew(b)
    BY <2>1, <2>5, Threads DEF Renew, Go, backendVars, AtRest
  <2> QED BY <2>2, <2>3, <2>4, <2>5
<1>2. Types' /\ label \in Label BY <1>1 DEF Types, Label, daemonVars
<1>3. Step(p, label) BY <1>1 DEF Step, AtEase, Types, daemonVars
<1>4. OwnHolds(p, label)
  BY <1>1 DEF OwnHolds, HoldLabel, HoldsByControl, Holding, AtEase, daemonVars
<1>5. once'[b] = "new" /\ job'[p] = what BY <1>1 DEF Types, AtRest
<1>6. OwnKnows(p, label) /\ OwnRest(p, label) BY <1>1, <1>5 DEF OwnKnows, OwnRest
<1>7. Counted' /\ DaemonUp' /\ Served'
  BY <1>1 DEF Counted, DaemonUp, Served, daemonVars
<1> QED BY <1>2, <1>3, <1>4, <1>6, <1>7, Frame

-----------------------------------------------------------------------------
\* What IInv says of the thread that is about to step.
LEMMA Here ==
    ASSUME IInv, NEW p \in Thread, at[p] # "idle"
    PROVE  /\ Of(p) = p[1] /\ Of(p) \in Backend
           /\ \A q \in Thread : q # p /\ Of(q) = Of(p) => at[q] = "idle"
           /\ Of(p) \in holds <=> at[p] \in HoldLabel
           /\ Knows!(p)
           /\ Cardinality(holds) = refs /\ refs \in Nat
<1> USE DEF IInv
<1>1. Of(p) = p[1] /\ Of(p) \in Backend BY Owner DEF Of
<1>2. \A q \in Thread : q # p /\ Of(q) = Of(p) => at[q] = "idle" BY DEF Alone
<1>3. ~AtEase(Of(p)) BY DEF AtEase
<1>4. Of(p) \in holds <=> \E q \in Thread : Of(q) = Of(p) /\ at[q] \in HoldLabel
  BY <1>1, <1>3 DEF HoldsByControl, Holding
<1>5. Of(p) \in holds <=> at[p] \in HoldLabel BY <1>2, <1>4 DEF HoldLabel
<1>6. Knows!(p) BY DEF Knows
<1>7. Cardinality(holds) = refs /\ refs \in Nat BY DEF Counted, Types
<1> QED BY <1>1, <1>2, <1>5, <1>6, <1>7

\* Shutdown stops the process of its own backend first; the reference stays.
LEMMA StopStep ==
    ASSUME ~Overlap, calm', IInv, NEW p \in Thread, Stop(p) PROVE IInv'
<1> USE DEF IInv, Go, daemonVars
<1>1. at[p] = "stop" BY DEF Stop
<1>2. once[p[1]] = "new" BY <1>1, Here
<1>3. /\ once' = [once EXCEPT ![p[1]] = "busy"] /\ running' = running \ {p[1]}
      /\ watching' = watching \ {p[1]} /\ conf' = conf \ {p[1]}
      /\ at' = [at EXCEPT ![p] = "unload"]
      /\ UNCHANGED <<inst, refs, process, alive, loaded, holds, job>>
  BY <1>2 DEF Stop
<1>4. Types' BY <1>3, <1>1, Here DEF Types, Label
<1>5. Step(p, "unload") BY <1>1, <1>3, Here DEF Step, Types
<1>6. OwnHolds(p, "unload") BY <1>1, <1>3, Here DEF OwnHolds, HoldLabel
<1>7. OwnKnows(p, "unload") BY <1>1, <1>3, Here DEF OwnKnows
<1>8. OwnRest(p, "unload") BY DEF OwnRest
<1>9. Counted' /\ DaemonUp' BY <1>3 DEF Counted, DaemonUp
<1>10. Served' BY <1>3 DEF Served
<1>11. "unload" \in Label BY DEF Label
<1> QED BY <1>4, <1>5, <1>6, <1>7, <1>8, <1>9, <1>10, <1>11, Frame

\* The reload of a Shutdown takes away no running backend's connection.
LEMMA UnloadStep ==
    ASSUME ~Overlap, calm', IInv, NEW p \in Thread, Unload(p) PROVE IInv'
<1> USE DEF IInv, Go, backendVars
<1>1. at[p] = "unload" BY DEF Unload
<1>3. /\ at' = [at EXCEPT ![p] = "release"]
      /\ loaded' = conf \/ loaded' = loaded
      /\ UNCHANGED <<refs, process, alive, holds, conf, inst, once, running, watching, job>>
  BY DEF Unload, LoadAll, LoadAllFails
<1>4. Types' BY <1>3, <1>1, Here DEF Types, Label
<1>5. Step(p, "release") BY <1>1, <1>3, Here DEF Step
<1>6. OwnHolds(p, "release") BY <1>1, <1>3, Here DEF OwnHolds, HoldLabel
<1>7. OwnKnows(p, "release") BY <1>1, <1>3, Here DEF OwnKnows
<1>8. OwnRest(p, "release") BY DEF OwnRest
<1>9. Counted' /\ DaemonUp' BY <1>3 DEF Counted, DaemonUp
<1>10. Served' BY <1>3 DEF Served
<1>11. "release" \in Label BY DEF Label
<1> QED BY <1>4, <1>5, <1>6, <1>7, <1>8, <1>9, <1>10, <1>11, Frame

\* Restart makes Shutdown callable again before it starts.
LEMMA ResetStep ==
    ASSUME ~Overlap, calm', IInv, NEW p \in Thread, Reset(p) PROVE IInv'
<1> USE DEF IInv, Go, daemonVars
<1>1. at[p] = "reset" BY DEF Reset
<1>3. /\ at' = [at EXCEPT ![p] = "begin"]
      /\ once' = [once EXCEPT ![p[1]] = "new"]
      /\ UNCHANGED <<refs, process, alive, loaded, holds, conf, inst, running, watching, job>>
  BY DEF Reset
<1>4. Types' BY <1>3, <1>1, Here DEF Types, Label
<1>5. Step(p, "begin") BY <1>1, <1>3, Here DEF Step, Types
<1>6. OwnHolds(p, "begin") BY <1>1, <1>3, Here DEF OwnHolds, HoldLabel
<1>7. OwnKnows(p, "begin") BY <1>1, <1>3, Here DEF OwnKnows, Types
<1>8. OwnRest(p, "begin") BY DEF OwnRest
<1>9. Counted' /\ DaemonUp' /\ Served' BY <1>3 DEF Counted, DaemonUp, Served
<1>11. "begin" \in Label BY DEF Label
<1> QED BY <1>4, <1>5, <1>6, <1>7, <1>8, <1>9, <1>11, Frame

\* release by a holder that no longer runs.
LEMMA ReleaseStep ==
    ASSUME IInv, NEW p \in Thread, at[p] \in HoldLabel, at[p] # "stop", Release(p[1])
    PROVE  /\ refs' \in Nat /\ process' \in BOOLEAN /\ alive' \in BOOLEAN
           /\ loaded' \subseteq Backend /\ holds' = holds \ {Of(p)}
           /\ Counted' /\ DaemonUp'
           /\ running \subseteq holds' \cap conf \cap loaded'
<1> USE DEF IInv
<1>1. at[p] # "idle" BY DEF HoldLabel
<1>2. /\ Of(p) = p[1] /\ Of(p) \in Backend /\ Of(p) \in holds /\ Of(p) \notin running
      /\ Cardinality(holds) = refs /\ refs \in Nat
  BY <1>1, Here
<1>3. holds' = holds \ {Of(p)} BY <1>2 DEF Release
<1>4. holds \subseteq Backend /\ holds \ {Of(p)} \subseteq Backend BY DEF Types
<1>5. /\ Cardinality(holds \ {Of(p)}) = refs - 1 /\ refs > 0
      /\ refs - 1 = 0 => holds \ {Of(p)} = {}
  BY <1>2, <1>4, Count
<1>6. refs' = refs - 1 BY <1>5 DEF Release
<1>7. /\ refs' \in Nat /\ process' \in BOOLEAN /\ alive' \in BOOLEAN
      /\ loaded' \subseteq Backend
  <2>1. refs' \in Nat BY <1>2, <1>5, <1>6
  <2>2. process' \in BOOLEAN /\ alive' \in BOOLEAN /\ loaded' \subseteq Backend
    BY Zenon DEF Release, Types
  <2> QED BY <2>1, <2>2
<1>8. Counted' BY <1>3, <1>5, <1>6 DEF Counted
<1>9. DaemonUp' BY <1>2, <1>5, <1>6 DEF DaemonUp, Release
<1>10. running \subseteq holds' \cap conf \cap loaded'
  <2>1. running \subseteq holds' \cap conf BY <1>2, <1>3 DEF Served
  <2>2. CASE refs = 1
    <3>1. holds' = {} BY <1>3, <1>5, <2>2
    <3> QED BY <2>1, <3>1
  <2>3. CASE refs # 1
    <3>1. loaded' = loaded BY <2>3 DEF Release
    <3> QED BY <2>1, <3>1 DEF Served
  <2> QED BY <2>2, <2>3
<1> QED BY <1>3, <1>7, <1>8, <1>9, <1>10

\* The end of a Shutdown: the release of the reference it held.
LEMMA ShutdownReleaseStep ==
    ASSUME ~Overlap, calm', IInv, NEW p \in Thread, ShutdownRelease(p) PROVE IInv'
<1> USE DEF IInv, Go
<1>1. at[p] = "release" /\ at[p] \in HoldLabel /\ Release(p[1])
  BY DEF ShutdownRelease, HoldLabel
<1>2. PICK label \in {"reset", "idle"} :
        /\ at' = [at EXCEPT ![p] = label]
        /\ once' = [once EXCEPT ![p[1]] = "done"]
        /\ label = "reset" => job[p] = "restart" /\ inst' = inst
        /\ label = "idle" => inst' = [inst EXCEPT ![p[1]] = "dropped"]
        /\ UNCHANGED <<conf, running, watching, job>>
  BY DEF ShutdownRelease, Stopped
<1>3. /\ refs' \in Nat /\ process' \in BOOLEAN /\ alive' \in BOOLEAN
      /\ loaded' \subseteq Backend /\ holds' = holds \ {Of(p)}
      /\ Counted' /\ DaemonUp'
      /\ running \subseteq holds' \cap conf \cap loaded'
  BY <1>1, ReleaseStep
<1>4. Types' /\ label \in Label BY <1>1, <1>2, <1>3, Here DEF Types, Label
<1>5. Step(p, label) BY <1>1, <1>2, <1>3, Here DEF Step, Types
<1>6. /\ label = "idle" => inst'[Of(p)] = "dropped"
      /\ Of(p) \notin watching' /\ Of(p) \notin running'
      /\ label = "reset" => inst'[Of(p)] = "held"
  BY <1>1, <1>2, Here DEF Types
<1>7. OwnHolds(p, label) BY <1>2, <1>3, <1>6 DEF OwnHolds, HoldLabel
<1>8. OwnKnows(p, label) BY <1>2, <1>6 DEF OwnKnows
<1>9. OwnRest(p, label) BY <1>6 DEF OwnRest
<1>10. Served' BY <1>2, <1>3 DEF Served
<1> QED BY <1>3, <1>4, <1>5, <1>7, <1>8, <1>9, <1>10, Frame

\* The start of a new object fails; that of a Restart does not.
LEMMA FailIsNew ==
    ASSUME ~Overlap, calm', IInv, NEW p \in Thread, at[p] # "idle", Fail(p), inst' = inst
    PROVE  /\ job[p] = "new" /\ inst'[Of(p)] # "held" /\ watching' = watching \ {Of(p)}
           /\ at' = [at EXCEPT ![p] = "idle"]
BY Here DEF Fail, Go

\* A start writes its fragment, or fails before it has acquired anything.
LEMMA BeginStep ==
    ASSUME ~Overlap, calm', IInv, NEW p \in Thread, Begin(p) PROVE IInv'
<1> USE DEF IInv, Go, daemonVars
<1>1. at[p] = "begin" BY DEF Begin
<1>2. PICK label \in {"acquire", "idle"} :
        /\ at' = [at EXCEPT ![p] = label]
        /\ label = "acquire" => /\ watching' = watching \cup ({p[1]} \cap Renewing)
                                /\ conf' = conf \cup {p[1]}
        /\ label = "idle" => inst'[Of(p)] # "held" /\ watching' = watching \ {Of(p)}
        /\ conf' = conf \cup {p[1]} \/ conf' = conf
        /\ UNCHANGED <<refs, process, alive, loaded, holds, inst, once, running, job>>
  BY <1>1, FailIsNew DEF Begin
<1>4. Types' /\ label \in Label BY <1>2, <1>1, Here DEF Types, Label
<1>5. Step(p, label) BY <1>1, <1>2, Here DEF Step
<1>6. OwnHolds(p, label) BY <1>1, <1>2, Here DEF OwnHolds, HoldLabel
<1>7. OwnKnows(p, label) BY <1>1, <1>2, Here DEF OwnKnows
<1>8. OwnRest(p, label) BY <1>2 DEF OwnRest
<1>9. Counted' /\ DaemonUp' BY <1>2 DEF Counted, DaemonUp
<1>10. Served' BY <1>2 DEF Served
<1> QED BY <1>4, <1>5, <1>6, <1>7, <1>8, <1>9, <1>10, Frame

\* acquire counts one holder more, or fails and leaves the count alone.
LEMMA AcquireStep ==
    ASSUME ~Overlap, calm', IInv, NEW p \in Thread, Acquire(p) PROVE IInv'
<1> USE DEF IInv, Go
<1>1. at[p] = "acquire" BY DEF Acquire
<1>2. UNCHANGED <<conf, inst, once, running, job>> BY DEF Acquire
<1>3. /\ Of(p) \notin holds /\ Of(p) \in Backend /\ Of(p) = p[1] /\ Of(p) \notin running
      /\ Cardinality(holds) = refs /\ refs \in Nat
  BY <1>1, Here DEF HoldLabel
<1>4. /\ Cardinality(holds \cup {Of(p)}) = refs + 1
      /\ refs = 0 => holds = {} /\ running = {}
  <2>1. holds \subseteq Backend BY DEF Types
  <2>2. Cardinality(holds \cup {Of(p)}) = refs + 1 /\ (refs = 0 => holds = {})
    BY <1>3, <2>1, Count
  <2> QED BY <2>2 DEF Served
<1>5. CASE AcquireOk(p[1]) /\ Go(p, "load") /\ UNCHANGED <<watching, calm>>
  <2>1. /\ refs' = refs + 1 /\ holds' = holds \cup {Of(p)}
        /\ at' = [at EXCEPT ![p] = "load"] /\ watching' = watching
    BY <1>3, <1>5 DEF AcquireOk
  <2>2. Types'
    <3>1. process' \in BOOLEAN /\ alive' \in BOOLEAN /\ loaded' \subseteq Backend
      BY <1>5, Zenon DEF AcquireOk, Types
    <3> QED BY <1>2, <1>3, <2>1, <3>1 DEF Types, Label
  <2>3. Step(p, "load") BY <1>1, <1>2, <2>1, Here DEF Step
  <2>4. OwnHolds(p, "load") BY <2>1 DEF OwnHolds, HoldLabel
  <2>5. OwnKnows(p, "load") BY <1>1, <1>2, Here DEF OwnKnows
  <2>6. OwnRest(p, "load") BY DEF OwnRest
  <2>7. Counted' BY <1>4, <2>1 DEF Counted
  <2>8. DaemonUp' BY <1>3, <1>5, <2>1 DEF DaemonUp, AcquireOk
  <2>9. Served'
    <3>1. CASE refs = 0 BY <1>2, <1>4, <3>1 DEF Served
    <3>2. CASE refs # 0
      <4>1. loaded' = loaded BY <1>3, <1>5, <3>2 DEF AcquireOk
      <4> QED BY <1>2, <2>1, <4>1 DEF Served
    <3> QED BY <3>1, <3>2
  <2>10. "load" \in Label BY DEF Label
  <2> QED BY <2>2, <2>3, <2>4, <2>5, <2>6, <2>7, <2>8, <2>9, <2>10, Frame
<1>6. CASE AcquireFails /\ Fail(p)
  <2>1. /\ inst'[Of(p)] # "held" /\ watching' = watching \ {Of(p)}
        /\ at' = [at EXCEPT ![p] = "idle"]
    BY <1>1, <1>2, <1>6, FailIsNew
  <2>2. /\ refs = 0 /\ refs' = 0 /\ holds' = holds /\ alive' = FALSE
        /\ process' = FALSE /\ loaded' = {}
    BY <1>6 DEF AcquireFails
  <2>3. Types' BY <1>2, <2>1, <2>2 DEF Types, Label
  <2>4. Step(p, "idle") BY <1>1, <1>2, <2>1, <2>2, Here DEF Step
  <2>5. OwnHolds(p, "idle") BY <1>3, <2>1, <2>2 DEF OwnHolds
  <2>6. OwnKnows(p, "idle") BY DEF OwnKnows
  <2>7. OwnRest(p, "idle") BY <2>1 DEF OwnRest
  <2>8. Counted' /\ DaemonUp'
    <3>1. Counted' BY <2>2 DEF Counted
    <3>2. ~(0 > 0) OBVIOUS
    <3> QED BY <2>2, <3>1, <3>2 DEF DaemonUp
  <2>9. Served' BY <1>2, <1>4, <2>2 DEF Served
  <2>10. "idle" \in Label BY DEF Label
  <2> QED BY <2>3, <2>4, <2>5, <2>6, <2>7, <2>8, <2>9, <2>10, Frame
<1> QED BY <1>5, <1>6 DEF Acquire

\* After its LoadAll a backend runs, served by the daemon it acquired.
LEMMA LoadStep ==
    ASSUME ~Overlap, calm', IInv, NEW p \in Thread, Load(p) PROVE IInv'
<1> USE DEF IInv, Go
<1>1. at[p] = "load" BY DEF Load
<1>2. /\ UNCHANGED <<refs, process, alive, holds, once, watching, job>>
      /\ conf' = conf \cup ({p[1]} \cap Renewing)
  BY DEF Load
<1>3. /\ Of(p) \in holds /\ Of(p) \in Backend /\ Of(p) = p[1]
      /\ once[Of(p)] = "new" /\ Of(p) \in conf
  BY <1>1, Here DEF HoldLabel
<1>4. refs > 0 /\ alive
  <2>1. refs # 0 /\ refs \in Nat
    BY <1>1, <1>3, Here, Count DEF Types
  <2> QED BY <2>1 DEF DaemonUp
<1>5. CASE /\ loaded' = conf' /\ running' = running \cup {p[1]}
           /\ inst' = IF job[p] = "new" THEN [inst EXCEPT ![p[1]] = "held"] ELSE inst
           /\ at' = [at EXCEPT ![p] = "idle"]
  <2>1. Types' BY <1>2, <1>3, <1>5 DEF Types, Label
  <2>2. inst'[Of(p)] = "held" BY <1>1, <1>3, <1>5, Here DEF Types
  <2>3. \A c \in Backend : c # Of(p) => inst'[c] = inst[c] BY <1>3, <1>5 DEF Types
  <2>4. Step(p, "idle") BY <1>1, <1>2, <1>3, <1>5, <2>3, Here DEF Step
  <2>5. OwnHolds(p, "idle") BY <1>2, <1>3, <2>2 DEF OwnHolds
  <2>6. OwnKnows(p, "idle") BY DEF OwnKnows
  <2>7. OwnRest(p, "idle") BY <1>2, <1>3, <2>2 DEF OwnRest
  <2>8. Counted' /\ DaemonUp' BY <1>2 DEF Counted, DaemonUp
  <2>9. Served' BY <1>2, <1>3, <1>5 DEF Served
  <2>10. "idle" \in Label BY DEF Label
  <2> QED BY <2>1, <2>4, <2>5, <2>6, <2>7, <2>8, <2>9, <2>10, Frame
<1>6. CASE /\ job[p] = "new" /\ (loaded' = conf' \/ loaded' = loaded)
           /\ at' = [at EXCEPT ![p] = "undo"] /\ UNCHANGED <<running, inst>>
  <2>1. Types' BY <1>2, <1>3, <1>6 DEF Types, Label
  <2>2. Step(p, "undo") BY <1>1, <1>2, <1>3, <1>6, Here DEF Step
  <2>3. OwnHolds(p, "undo") BY <1>2, <1>3 DEF OwnHolds, HoldLabel
  <2>4. OwnKnows(p, "undo") BY <1>1, <1>2, <1>3, <1>6, Here DEF OwnKnows
  <2>5. OwnRest(p, "undo") BY DEF OwnRest
  <2>6. Counted' /\ DaemonUp' BY <1>2 DEF Counted, DaemonUp
  <2>7. Served' BY <1>2, <1>6 DEF Served
  <2>8. "undo" \in Label BY DEF Label
  <2> QED BY <2>1, <2>2, <2>3, <2>4, <2>5, <2>6, <2>7, <2>8, Frame
<1> QED BY <1>4, <1>5, <1>6 DEF Load, LoadAll, LoadAllFails

\* A start that fails after acquire gives its reference back once.
LEMMA LoadUndoStep ==
    ASSUME ~Overlap, calm', IInv, NEW p \in Thread, LoadUndo(p) PROVE IInv'
<1> USE DEF IInv
<1>1. at[p] = "undo" /\ at[p] \in HoldLabel /\ Release(p[1])
  BY DEF LoadUndo, HoldLabel
<1>2. UNCHANGED <<conf, inst, once, running, job>> BY DEF LoadUndo
<1>3. /\ refs' \in Nat /\ process' \in BOOLEAN /\ alive' \in BOOLEAN
      /\ loaded' \subseteq Backend /\ holds' = holds \ {Of(p)}
      /\ Counted' /\ DaemonUp'
      /\ running \subseteq holds' \cap conf \cap loaded'
  BY <1>1, ReleaseStep
<1>4. /\ inst'[Of(p)] # "held" /\ watching' = watching \ {Of(p)}
      /\ at' = [at EXCEPT ![p] = "idle"]
  BY <1>1, <1>2, FailIsNew DEF LoadUndo
<1>5. Types' /\ "idle" \in Label BY <1>2, <1>3, <1>4 DEF Types, Label
<1>6. Step(p, "idle") BY <1>1, <1>2, <1>3, <1>4, Here DEF Step
<1>7. OwnHolds(p, "idle") BY <1>3, <1>4 DEF OwnHolds
<1>8. OwnKnows(p, "idle") BY DEF OwnKnows
<1>9. OwnRest(p, "idle") BY <1>4 DEF OwnRest
<1>10. Served' BY <1>2, <1>3 DEF Served
<1> QED BY <1>3, <1>5, <1>6, <1>7, <1>8, <1>9, <1>10, Frame

-----------------------------------------------------------------------------
\* Calm does not come back.
LEMMA CalmEnds == [Next]_vars /\ calm' => calm
BY DEF Next, vars, New, Restart, Shutdown, Renew, Stop, Unload, ShutdownRelease, Reset,
   Begin, Acquire, Load, LoadUndo, Fail, Crash

\* The inductive invariant, while it is calm.
LEMMA NextIInv == ASSUME ~Overlap PROVE (calm => IInv) /\ [Next]_vars => (calm => IInv)'
<1> SUFFICES ASSUME IInv, [Next]_vars, calm' PROVE IInv' BY CalmEnds
<1>1. CASE UNCHANGED vars
  BY <1>1 DEF IInv, Types, Alone, HoldsByControl, Holding, AtEase, Knows, AtRest, Counted,
     DaemonUp, Served, vars, daemonVars, backendVars
<1>2. CASE \E b \in Backend : New(b) \/ Restart(b) \/ Shutdown(b) \/ Renew(b)
  BY <1>2, CallStep
<1>3. CASE \E p \in Thread : \/ Stop(p) \/ Unload(p) \/ ShutdownRelease(p) \/ Reset(p)
                            \/ Begin(p) \/ Acquire(p) \/ Load(p) \/ LoadUndo(p)
  BY <1>3, StopStep, UnloadStep, ShutdownReleaseStep, ResetStep, BeginStep, AcquireStep,
     LoadStep, LoadUndoStep
<1>4. ~Crash BY DEF Crash
<1> QED BY <1>1, <1>2, <1>3, <1>4 DEF Next

\* While no Restart has failed and charon has not died, and if Shutdown does not
\* overlap a renewal, the reference count of charon.go is the number of backends
\* that acquired and have not released, for any finite set of backends.
THEOREM ReferencesAreCounted == ~Overlap => (Spec => []RefsAreHolders)
<1> SUFFICES ASSUME ~Overlap PROVE Spec => []RefsAreHolders OBVIOUS
<1>1. Init => (calm => IInv) BY InitIInv
<1>2. (calm => IInv) /\ [Next]_vars => (calm => IInv)' BY NextIInv
<1>3. (calm => IInv) => RefsAreHolders BY DEF IInv, Counted, RefsAreHolders
<1> QED BY <1>1, <1>2, <1>3, PTL DEF Spec

\* Under the same conditions a running backend has a live charon that knows its
\* connection, and charon runs exactly while some backend holds it.
THEOREM RunningIsServed == ~Overlap => (Spec => []CharonServes)
<1> SUFFICES ASSUME ~Overlap PROVE Spec => []CharonServes OBVIOUS
<1>1. Init => (calm => IInv) BY InitIInv
<1>2. (calm => IInv) /\ [Next]_vars => (calm => IInv)' BY NextIInv
<1>3. (calm => IInv) => CharonServes
  <2> SUFFICES ASSUME IInv PROVE running \subseteq loaded /\ (alive <=> holds # {})
    BY DEF CharonServes
  <2>1. running \subseteq loaded BY DEF IInv, Served
  <2>2. IsFiniteSet(holds) BY CharonAssumption, FS_Subset DEF IInv, Types
  <2>3. Cardinality(holds) = 0 <=> holds = {} BY <2>2, FS_EmptySet
  <2>4. refs > 0 <=> holds # {} BY <2>3 DEF IInv, Counted, Types
  <2> QED BY <2>1, <2>4 DEF IInv, DaemonUp
<1> QED BY <1>1, <1>2, <1>3, PTL DEF Spec

-----------------------------------------------------------------------------
\* Every step keeps the types, the failing ones included.
LEMMA TypeStep == TypeOK /\ [Next]_vars => TypeOK'
<1> SUFFICES ASSUME TypeOK, [Next]_vars PROVE TypeOK' OBVIOUS
<1> USE DEF TypeOK, Go, daemonVars, backendVars
<1>1. CASE UNCHANGED vars BY <1>1 DEF vars
<1>2. ASSUME NEW b \in Backend, New(b) \/ Restart(b) \/ Shutdown(b) \/ Renew(b)
      PROVE  TypeOK'
  BY <1>2, Threads DEF New, Restart, Shutdown, Renew, Label
<1>3. ASSUME NEW p \in Thread PROVE p[1] \in Backend
  BY DEF Thread
<1>4. ASSUME NEW p \in Thread, Stop(p) PROVE TypeOK'
  BY <1>3, <1>4 DEF Stop, Stopped, Label
<1>5. ASSUME NEW p \in Thread, Unload(p) PROVE TypeOK'
  BY <1>3, <1>5 DEF Unload, LoadAll, LoadAllFails, Label
<1>6. ASSUME NEW p \in Thread, ShutdownRelease(p) PROVE TypeOK'
  <2>1. process' \in BOOLEAN /\ alive' \in BOOLEAN
    BY <1>6, Zenon DEF ShutdownRelease, Release
  <2> QED BY <1>3, <1>6, <2>1 DEF ShutdownRelease, Release, Stopped, Label
<1>7. ASSUME NEW p \in Thread, Reset(p) PROVE TypeOK'
  BY <1>3, <1>7 DEF Reset, Label
<1>8. ASSUME NEW p \in Thread, Begin(p) PROVE TypeOK'
  <2>1. calm' \in BOOLEAN BY <1>8, Zenon DEF Begin, Fail
  <2> QED BY <1>3, <1>8, <2>1, CharonAssumption DEF Begin, Fail, Label
<1>9. ASSUME NEW p \in Thread, Acquire(p) PROVE TypeOK'
  <2>1. calm' \in BOOLEAN BY <1>9, Zenon DEF Acquire, Fail
  <2>2. process' \in BOOLEAN /\ alive' \in BOOLEAN
    BY <1>9, Zenon DEF Acquire, AcquireOk, AcquireFails
  <2> QED BY <1>3, <1>9, <2>1, <2>2 DEF Acquire, AcquireOk, AcquireFails, Fail, Label
<1>10. ASSUME NEW p \in Thread, Load(p) PROVE TypeOK'
  <2>1. calm' \in BOOLEAN BY <1>10, Zenon DEF Load
  <2> QED BY <1>3, <1>10, <2>1 DEF Load, LoadAll, LoadAllFails, Label
<1>11. ASSUME NEW p \in Thread, LoadUndo(p) PROVE TypeOK'
  <2>1. calm' \in BOOLEAN BY <1>11, Zenon DEF LoadUndo, Fail
  <2>2. process' \in BOOLEAN /\ alive' \in BOOLEAN BY <1>11, Zenon DEF LoadUndo, Release
  <2> QED BY <1>3, <1>11, <2>1, <2>2 DEF LoadUndo, Release, Fail, Label
<1>12. CASE Crash
  <2>1. calm' \in BOOLEAN /\ alive' \in BOOLEAN BY <1>12, Zenon DEF Crash
  <2> QED BY <1>12, <2>1 DEF Crash
<1> QED
  BY <1>1, <1>2, <1>4, <1>5, <1>6, <1>7, <1>8, <1>9, <1>10, <1>11, <1>12 DEF Next

\* The daemon and the backends keep their types through every failure, crash and
\* overlap: the count never goes below zero and only backends that renew are watched.
THEOREM TypesHold == Spec => []TypeOK
<1>1. Init => TypeOK
  <2> SUFFICES ASSUME Init PROVE TypeOK OBVIOUS
  <2>1. process \in BOOLEAN /\ alive \in BOOLEAN /\ calm \in BOOLEAN BY Zenon DEF Init
  <2> QED BY <2>1 DEF Init, TypeOK, Label
<1> QED BY <1>1, TypeStep, PTL DEF Spec
-----------------------------------------------------------------------------
(***************************************************************************)
(* Charon implements SharedDaemon, for any finite set of backends.  The    *)
(* invariant above holds until a Restart fails or charon dies; this part   *)
(* finds what is left of it afterwards (Survives) and takes from it that   *)
(* charon is never leaked, whatever has failed.                            *)
(***************************************************************************)

\* A reference is never held where no thread will give it back.
HoldsWithin == \A b \in Backend : b \in holds => Holding(b)

\* What a thread knows where it is, even after a failed Restart.
KnowsStill ==
    \A p \in Thread :
        /\ at[p] \in {"stop", "begin", "acquire", "load", "undo"} => once[Of(p)] = "new"
        /\ at[p] \in {"stop", "unload", "release", "reset"} => job[p] # "new"
        /\ at[p] # "idle" => (job[p] = "new" <=> inst[Of(p)] # "held")
        /\ at[p] \in {"unload", "release"} => Of(p) \notin watching
        /\ at[p] \notin {"idle", "stop"} => Of(p) \notin running

RestsStill ==
    \A b \in Backend : AtEase(b) =>
        /\ inst[b] = "held" => once[b] = "new"
        /\ b \in watching \cup running => inst[b] = "held"

\* A release too many only makes the count too small, and charon never outlives it.
Undercounts == refs <= Cardinality(holds) /\ (alive => refs > 0)

Survives ==
    TypeOK /\ Alone /\ HoldsWithin /\ KnowsStill /\ RestsStill /\ Undercounts

-----------------------------------------------------------------------------
\* The node starts with no reference and no daemon.
LEMMA InitSurvives == Init => Survives
<1> SUFFICES ASSUME Init PROVE Survives OBVIOUS
<1>1. process = FALSE /\ alive = FALSE /\ calm = TRUE BY DEF Init
<1>2. process \in BOOLEAN /\ alive \in BOOLEAN /\ calm \in BOOLEAN BY <1>1, Zenon
<1>3. TypeOK BY <1>2 DEF Init, TypeOK, Label
<1>4. Alone /\ HoldsWithin /\ KnowsStill /\ RestsStill
  BY Owner DEF Init, Alone, HoldsWithin, Holding, HoldLabel, KnowsStill, RestsStill, AtEase
<1>5. Undercounts BY FS_EmptySet DEF Init, Undercounts
<1> QED BY <1>3, <1>4, <1>5 DEF Survives

\* What the stepping thread has to show of itself after its step.
OwnStill(p, label) ==
    /\ Of(p) \in holds' => IF label = "idle" THEN inst'[Of(p)] = "held" ELSE label \in HoldLabel
    /\ label \in {"stop", "begin", "acquire", "load", "undo"} => once'[Of(p)] = "new"
    /\ label \in {"stop", "unload", "release", "reset"} => job'[p] # "new"
    /\ label # "idle" => (job'[p] = "new" <=> inst'[Of(p)] # "held")
    /\ label \in {"unload", "release"} => Of(p) \notin watching'
    /\ label \notin {"idle", "stop"} => Of(p) \notin running'
    /\ label = "idle" => /\ inst'[Of(p)] = "held" => once'[Of(p)] = "new"
                         /\ Of(p) \in watching' \cup running' => inst'[Of(p)] = "held"

\* The rest of Survives is about other backends and threads, which a step leaves alone.
LEMMA FrameStill ==
    ASSUME Survives, TypeOK', Undercounts', NEW p \in Thread, NEW label \in Label,
           Step(p, label), OwnStill(p, label)
    PROVE  Survives'
<1> USE DEF Survives
<1>0. /\ at'[p] = label
      /\ \A q \in Thread : q # p => at'[q] = at[q]
      /\ Of(p) \in Backend
  BY Owner DEF Step, TypeOK
<1>1. Alone' BY <1>0 DEF Alone, Step
<1>2. HoldsWithin'
  <2> SUFFICES ASSUME NEW c \in Backend, c \in holds' PROVE Holding(c)'
    BY DEF HoldsWithin
  <2>1. CASE c = Of(p)
    <3>1. \A q \in Thread : q # p /\ Of(q) = c => at'[q] = "idle"
      BY <1>0, <2>1 DEF Step
    <3>2. label = "idle" => AtEase(c)' BY <1>0, <2>1, <3>1 DEF AtEase
    <3> QED BY <1>0, <2>1, <3>2 DEF OwnStill, Holding
  <2>2. CASE c # Of(p)
    <3>1. \A q \in Thread : Of(q) = c => at'[q] = at[q] BY <1>0, <2>2
    <3>2. Holding(c)' <=> Holding(c) BY <2>2, <3>1 DEF Holding, AtEase, Step
    <3> QED BY <2>2, <3>2 DEF HoldsWithin, Step
  <2> QED BY <2>1, <2>2
<1>3. KnowsStill'
  <2> SUFFICES ASSUME NEW q \in Thread PROVE KnowsStill!(q)'
    BY DEF KnowsStill
  <2>1. CASE q = p BY <1>0, <2>1 DEF OwnStill
  <2>2. CASE q # p /\ Of(q) = Of(p) BY <1>0, <2>2 DEF Step
  <2>3. CASE Of(q) # Of(p)
    <3>1. q # p /\ Of(q) \in Backend BY <2>3, Owner
    <3>2. at'[q] = at[q] /\ job'[q] = job[q] BY <1>0, <3>1 DEF Step
    <3>3. /\ once'[Of(q)] = once[Of(q)] /\ inst'[Of(q)] = inst[Of(q)]
          /\ Of(q) \in watching' <=> Of(q) \in watching
          /\ Of(q) \in running' <=> Of(q) \in running
      BY <2>3, <3>1 DEF Step
    <3> QED BY <3>2, <3>3 DEF KnowsStill
  <2> QED BY <2>1, <2>2, <2>3
<1>4. RestsStill'
  <2> SUFFICES ASSUME NEW c \in Backend PROVE RestsStill!(c)'
    BY DEF RestsStill
  <2>1. CASE c = Of(p)
    <3>1. AtEase(c)' => label = "idle" BY <1>0, <2>1 DEF AtEase
    <3> QED BY <2>1, <3>1 DEF OwnStill
  <2>2. CASE c # Of(p)
    <3>1. AtEase(c)' <=> AtEase(c) BY <1>0, <2>2 DEF AtEase
    <3> QED BY <2>2, <3>1 DEF RestsStill, Step
  <2> QED BY <2>1, <2>2
<1> QED BY <1>1, <1>2, <1>3, <1>4

\* What Survives says of the thread that is about to step.
LEMMA HereStill ==
    ASSUME Survives, NEW p \in Thread, at[p] # "idle"
    PROVE  /\ Of(p) = p[1] /\ Of(p) \in Backend
           /\ \A q \in Thread : q # p /\ Of(q) = Of(p) => at[q] = "idle"
           /\ Of(p) \in holds => at[p] \in HoldLabel
           /\ KnowsStill!(p)
<1> USE DEF Survives
<1>1. Of(p) = p[1] /\ Of(p) \in Backend BY Owner DEF Of
<1>2. \A q \in Thread : q # p /\ Of(q) = Of(p) => at[q] = "idle" BY DEF Alone
<1>3. ~AtEase(Of(p)) BY DEF AtEase
<1>4. Of(p) \in holds => \E q \in Thread : Of(q) = Of(p) /\ at[q] \in HoldLabel
  BY <1>1, <1>3 DEF HoldsWithin, Holding
<1>5. Of(p) \in holds => at[p] \in HoldLabel BY <1>2, <1>4 DEF HoldLabel
<1>6. KnowsStill!(p) BY DEF KnowsStill
<1> QED BY <1>1, <1>2, <1>5, <1>6

-----------------------------------------------------------------------------
\* The owner or the watcher begins an operation.
LEMMA CallStill ==
    ASSUME ~Overlap, Survives, TypeOK', NEW b \in Backend,
           New(b) \/ Restart(b) \/ Shutdown(b) \/ Renew(b)
    PROVE  Survives'
<1> USE DEF Survives
<1>1. PICK p \in Thread, label \in {"begin", "stop"}, what \in {"new", "restart", "shutdown"} :
        /\ Of(p) = b /\ AtEase(b)
        /\ at' = [at EXCEPT ![p] = label] /\ job' = [job EXCEPT ![p] = what]
        /\ what = "new" <=> label = "begin"
        /\ label = "begin" => /\ inst[b] # "held" /\ b \notin running \cup watching
                              /\ once' = [once EXCEPT ![b] = "new"]
        /\ label = "stop" => inst[b] = "held" /\ once' = once
        /\ UNCHANGED <<daemonVars, conf, inst, running, watching>>
  <2>1. Idle(b) <=> AtEase(b) BY IdleIsAtEase
  <2>2. CASE New(b) BY <2>1, <2>2, Threads DEF New, Go
  <2>3. CASE Restart(b) BY <2>1, <2>3, Threads DEF Restart, Go, backendVars
  <2>4. CASE Shutdown(b) BY <2>1, <2>4, Threads DEF Shutdown, Go, backendVars
  <2>5. CASE Renew(b)
    BY <2>1, <2>5, Threads DEF Renew, Go, backendVars, RestsStill
  <2> QED BY <2>2, <2>3, <2>4, <2>5
<1>2. label \in Label /\ label # "idle" BY <1>1 DEF Label
<1>3. Step(p, label) BY <1>1 DEF Step, AtEase, TypeOK, daemonVars
<1>4. label = "begin" => Of(p) \notin holds'
  BY <1>1 DEF HoldsWithin, Holding, AtEase, HoldLabel, daemonVars
<1>5. once'[b] = "new" /\ job'[p] = what BY <1>1 DEF TypeOK, RestsStill
<1>6. OwnStill(p, label) BY <1>1, <1>2, <1>4, <1>5 DEF OwnStill, HoldLabel
<1>7. Undercounts' BY <1>1 DEF Undercounts, daemonVars
<1> QED BY <1>2, <1>3, <1>6, <1>7, FrameStill

\* Shutdown up to its release, and the reset of Restart, leave the reference alone.
LEMMA QuietStill ==
    ASSUME Survives, TypeOK', NEW p \in Thread, Stop(p) \/ Unload(p) \/ Reset(p)
    PROVE  Survives'
<1> USE DEF Survives, Go, daemonVars, backendVars
<1>1. CASE Stop(p)
  <2>1. at[p] = "stop" BY <1>1 DEF Stop
  <2>2. once[p[1]] = "new" BY <2>1, HereStill
  <2>3. /\ once' = [once EXCEPT ![p[1]] = "busy"] /\ running' = running \ {p[1]}
        /\ watching' = watching \ {p[1]} /\ conf' = conf \ {p[1]}
        /\ at' = [at EXCEPT ![p] = "unload"]
        /\ UNCHANGED <<inst, refs, process, alive, loaded, holds, job>>
    BY <1>1, <2>2 DEF Stop
  <2>4. Step(p, "unload") BY <2>1, <2>3, HereStill DEF Step, TypeOK
  <2>5. OwnStill(p, "unload") BY <2>1, <2>3, HereStill DEF OwnStill, HoldLabel
  <2>6. Undercounts' /\ "unload" \in Label BY <2>3 DEF Undercounts, Label
  <2> QED BY <2>4, <2>5, <2>6, FrameStill
<1>2. CASE Unload(p)
  <2>1. /\ at[p] = "unload" /\ at' = [at EXCEPT ![p] = "release"]
        /\ UNCHANGED <<refs, process, alive, holds, conf, inst, once, running, watching, job>>
    BY <1>2 DEF Unload
  <2>4. Step(p, "release") BY <2>1, HereStill DEF Step
  <2>5. OwnStill(p, "release") BY <2>1, HereStill DEF OwnStill, HoldLabel
  <2>6. Undercounts' /\ "release" \in Label BY <2>1 DEF Undercounts, Label
  <2> QED BY <2>4, <2>5, <2>6, FrameStill
<1>3. CASE Reset(p)
  <2>1. /\ at[p] = "reset" /\ at' = [at EXCEPT ![p] = "begin"]
        /\ once' = [once EXCEPT ![p[1]] = "new"]
        /\ UNCHANGED <<refs, process, alive, loaded, holds, conf, inst, running, watching, job>>
    BY <1>3 DEF Reset
  <2>4. Step(p, "begin") BY <2>1, HereStill DEF Step, TypeOK
  <2>5. OwnStill(p, "begin") BY <2>1, HereStill DEF OwnStill, HoldLabel, TypeOK
  <2>6. Undercounts' /\ "begin" \in Label BY <2>1 DEF Undercounts, Label
  <2> QED BY <2>4, <2>5, <2>6, FrameStill
<1> QED BY <1>1, <1>2, <1>3

\* A release, of a holder or of a backend that holds nothing.
LEMMA ReleaseStill ==
    ASSUME Survives, NEW b \in Backend, Release(b)
    PROVE  /\ holds' = holds \ {b} /\ Undercounts'
           /\ alive' => alive /\ holds' # {}
<1> USE DEF Survives
<1>1. holds' = holds \ {b} BY DEF Release
<1>2. holds \subseteq Backend /\ holds' \subseteq Backend /\ refs \in Nat
  BY <1>1 DEF TypeOK
<1>3. /\ Cardinality(holds) \in Nat /\ Cardinality(holds') \in Nat
      /\ Cardinality(holds') = 0 <=> holds' = {}
      /\ b \in holds => Cardinality(holds') = Cardinality(holds) - 1 /\ Cardinality(holds) > 0
      /\ b \notin holds => holds' = holds
  BY <1>1, <1>2, Count
<1>4. refs <= Cardinality(holds) /\ (alive => refs > 0) BY DEF Undercounts
<1>5. refs' = (IF refs = 0 THEN 0 ELSE refs - 1) BY DEF Release
<1>6. refs' <= Cardinality(holds')
  <2>1. CASE b \in holds BY <1>2, <1>3, <1>4, <1>5, <2>1
  <2>2. CASE b \notin holds
    <3>1. Cardinality(holds') = Cardinality(holds) BY <1>3, <2>2
    <3> QED BY <1>2, <1>3, <1>4, <1>5, <3>1
  <2> QED BY <2>1, <2>2
<1>7. refs = 1 => ~alive' BY Zenon DEF Release
<1>8. refs # 1 => (alive' <=> alive) BY Zenon DEF Release
<1>9. alive' => alive /\ refs' > 0 BY <1>2, <1>4, <1>5, <1>7, <1>8
<1> QED BY <1>1, <1>2, <1>3, <1>5, <1>6, <1>9 DEF Undercounts

\* The end of a Shutdown and the undoing of a start: the reference, if any, is gone.
LEMMA GiveBackStill ==
    ASSUME Survives, TypeOK', NEW p \in Thread, ShutdownRelease(p) \/ LoadUndo(p)
    PROVE  Survives'
<1> USE DEF Survives, Go
<1>1. at[p] \in {"release", "undo"} /\ Release(p[1])
  BY DEF ShutdownRelease, LoadUndo
<1>2. at[p] # "idle" BY <1>1
<1>3. Of(p) = p[1] /\ Of(p) \in Backend /\ Of(p) \notin running BY <1>1, <1>2, HereStill
<1>4. holds' = holds \ {Of(p)} /\ Undercounts' BY <1>1, <1>3, ReleaseStill
<1>5. CASE ShutdownRelease(p)
  <2>1. at[p] = "release" BY <1>5 DEF ShutdownRelease
  <2>2. PICK label \in {"reset", "idle"} :
          /\ at' = [at EXCEPT ![p] = label]
          /\ once' = [once EXCEPT ![p[1]] = "done"]
          /\ label = "reset" => job[p] = "restart" /\ inst' = inst
          /\ label = "idle" => inst' = [inst EXCEPT ![p[1]] = "dropped"]
          /\ UNCHANGED <<conf, running, watching, job>>
    BY <1>5 DEF ShutdownRelease, Stopped
  <2>3. Step(p, label) BY <1>4, <2>1, <2>2, HereStill DEF Step, TypeOK
  <2>4. /\ label = "idle" => inst'[Of(p)] = "dropped"
        /\ Of(p) \notin watching' /\ Of(p) \notin running'
        /\ label = "reset" => inst'[Of(p)] = "held"
    BY <2>1, <2>2, HereStill DEF TypeOK
  <2>5. OwnStill(p, label) BY <1>4, <2>2, <2>4 DEF OwnStill, HoldLabel
  <2>6. label \in Label BY DEF Label
  <2> QED BY <1>4, <2>3, <2>5, <2>6, FrameStill
<1>6. CASE LoadUndo(p)
  <2>1. /\ at[p] = "undo" /\ UNCHANGED <<conf, inst, once, running, job>>
        /\ at' = [at EXCEPT ![p] = "idle"]
        /\ watching' = IF job[p] = "new" THEN watching \ {p[1]} ELSE watching
    BY <1>6 DEF LoadUndo, Fail
  <2>2. Step(p, "idle") BY <1>3, <1>4, <2>1, HereStill DEF Step
  <2>3. OwnStill(p, "idle") BY <1>3, <1>4, <2>1, HereStill DEF OwnStill
  <2>4. "idle" \in Label BY DEF Label
  <2> QED BY <1>4, <2>2, <2>3, <2>4, FrameStill
<1> QED BY <1>5, <1>6

\* A start, from its configuration to the running backend, and its failures.
LEMMA StartStill ==
    ASSUME Survives, TypeOK', NEW p \in Thread, Begin(p) \/ Acquire(p) \/ Load(p)
    PROVE  Survives'
<1> USE DEF Survives, Go, daemonVars
<1>0. "idle" \in Label /\ "acquire" \in Label /\ "load" \in Label /\ "undo" \in Label
  BY DEF Label
<1>1. CASE Begin(p)
  <2>1. at[p] = "begin" BY <1>1 DEF Begin
  <2>2. PICK label \in {"acquire", "idle"} :
          /\ at' = [at EXCEPT ![p] = label]
          /\ label = "acquire" => watching' = watching \cup ({p[1]} \cap Renewing)
          /\ label = "idle" => watching' = IF job[p] = "new" THEN watching \ {p[1]} ELSE watching
          /\ conf' = conf \cup {p[1]} \/ conf' = conf
          /\ UNCHANGED <<refs, process, alive, loaded, holds, inst, once, running, job>>
    BY <1>1 DEF Begin, Fail
  <2>3. Step(p, label) BY <2>1, <2>2, HereStill DEF Step
  <2>4. Of(p) \notin holds' BY <2>1, <2>2, HereStill DEF HoldLabel
  <2>5. OwnStill(p, label) BY <2>1, <2>2, <2>4, HereStill DEF OwnStill
  <2>6. Undercounts' BY <2>2 DEF Undercounts
  <2> QED BY <1>0, <2>2, <2>3, <2>5, <2>6, FrameStill
<1>2. CASE Acquire(p)
  <2>1. at[p] = "acquire" /\ UNCHANGED <<conf, inst, once, running, job>>
    BY <1>2 DEF Acquire
  <2>2. /\ Of(p) = p[1] /\ Of(p) \in Backend /\ Of(p) \notin holds
        /\ refs \in Nat /\ holds \subseteq Backend
    BY <2>1, HereStill DEF HoldLabel, TypeOK
  <2>3. /\ Cardinality(holds \cup {Of(p)}) = Cardinality(holds) + 1
        /\ Cardinality(holds) \in Nat
    BY <2>2, Count
  <2>4. CASE AcquireOk(p[1]) /\ Go(p, "load") /\ UNCHANGED <<watching, calm>>
    <3>1. /\ refs' = refs + 1 /\ holds' = holds \cup {Of(p)}
          /\ at' = [at EXCEPT ![p] = "load"] /\ watching' = watching
      BY <2>2, <2>4 DEF AcquireOk
    <3>2. Step(p, "load") BY <2>1, <2>2, <3>1, HereStill DEF Step
    <3>3. OwnStill(p, "load") BY <2>1, <3>1, HereStill DEF OwnStill, HoldLabel
    <3>4. Undercounts' BY <2>2, <2>3, <3>1 DEF Undercounts
    <3> QED BY <1>0, <3>2, <3>3, <3>4, FrameStill
  <2>5. CASE AcquireFails /\ Fail(p)
    <3>1. /\ refs' = refs /\ holds' = holds /\ ~alive'
          /\ at' = [at EXCEPT ![p] = "idle"]
          /\ watching' = IF job[p] = "new" THEN watching \ {p[1]} ELSE watching
      BY <2>5 DEF AcquireFails, Fail
    <3>2. Step(p, "idle") BY <2>1, <2>2, <3>1, HereStill DEF Step
    <3>3. OwnStill(p, "idle") BY <2>1, <2>2, <3>1, HereStill DEF OwnStill
    <3>4. Undercounts' BY <3>1 DEF Undercounts
    <3> QED BY <1>0, <3>2, <3>3, <3>4, FrameStill
  <2> QED BY <1>2, <2>4, <2>5 DEF Acquire
<1>3. CASE Load(p)
  <2>1. /\ at[p] = "load" /\ conf' = conf \cup ({p[1]} \cap Renewing)
        /\ UNCHANGED <<refs, process, alive, holds, once, watching, job>>
    BY <1>3 DEF Load
  <2>2. Of(p) = p[1] /\ Of(p) \in Backend BY <2>1, HereStill
  <2>3. Undercounts' BY <2>1 DEF Undercounts
  <2>4. CASE /\ running' = running \cup {p[1]}
             /\ inst' = IF job[p] = "new" THEN [inst EXCEPT ![p[1]] = "held"] ELSE inst
             /\ at' = [at EXCEPT ![p] = "idle"]
    <3>1. inst'[Of(p)] = "held" BY <2>1, <2>2, <2>4, HereStill DEF TypeOK
    <3>2. \A c \in Backend : c # Of(p) => inst'[c] = inst[c] BY <2>2, <2>4 DEF TypeOK
    <3>3. Step(p, "idle") BY <2>1, <2>2, <2>4, <3>2, HereStill DEF Step
    <3>4. OwnStill(p, "idle") BY <2>1, <3>1, HereStill DEF OwnStill
    <3> QED BY <1>0, <2>3, <3>3, <3>4, FrameStill
  <2>5. CASE at' = [at EXCEPT ![p] = "undo"] /\ UNCHANGED <<running, inst>>
    <3>1. Step(p, "undo") BY <2>1, <2>2, <2>5, HereStill DEF Step
    <3>2. OwnStill(p, "undo") BY <2>1, <2>5, HereStill DEF OwnStill, HoldLabel
    <3> QED BY <1>0, <2>3, <3>1, <3>2, FrameStill
  <2> QED BY <1>3, <2>4, <2>5 DEF Load
<1> QED BY <1>1, <1>2, <1>3

\* Survives is inductive: nothing that fails and nothing that dies ends it.
LEMMA NextSurvives == ASSUME ~Overlap PROVE Survives /\ [Next]_vars => Survives'
<1> SUFFICES ASSUME Survives, [Next]_vars PROVE Survives' OBVIOUS
<1>0. TypeOK' BY TypeStep DEF Survives
<1>1. CASE UNCHANGED vars
  BY <1>0, <1>1 DEF Survives, Alone, HoldsWithin, Holding, AtEase, KnowsStill, RestsStill,
     Undercounts, vars, daemonVars, backendVars
<1>2. CASE \E b \in Backend : New(b) \/ Restart(b) \/ Shutdown(b) \/ Renew(b)
  BY <1>0, <1>2, CallStill
<1>3. CASE \E p \in Thread : \/ Stop(p) \/ Unload(p) \/ ShutdownRelease(p) \/ Reset(p)
                            \/ Begin(p) \/ Acquire(p) \/ Load(p) \/ LoadUndo(p)
  BY <1>0, <1>3, QuietStill, GiveBackStill, StartStill
<1>4. CASE Crash
  <2>1. ~alive' /\ UNCHANGED <<refs, holds, inst, once, running, watching, at, job>>
    BY <1>4 DEF Crash, backendVars
  <2>2. Undercounts' BY <2>1 DEF Survives, Undercounts
  <2> QED
    BY <1>0, <2>1, <2>2 DEF Survives, Alone, HoldsWithin, Holding, AtEase, KnowsStill,
       RestsStill
<1> QED BY <1>1, <1>2, <1>3, <1>4 DEF Next

\* If no Shutdown overlaps a renewal, no failed start, failed restart or death of
\* charon leaves a daemon, or a count, that no backend will release.
THEOREM DaemonIsNotLeaked == ~Overlap => (Spec => []NotLeaked)
<1> SUFFICES ASSUME ~Overlap PROVE Spec => []NotLeaked OBVIOUS
<1>1. Survives => NotLeaked
  <2> SUFFICES ASSUME Survives, holds = {} PROVE refs = 0 /\ ~alive BY DEF NotLeaked
  <2>1. refs <= 0 BY FS_EmptySet DEF Survives, Undercounts
  <2> QED BY <2>1 DEF Survives, Undercounts, TypeOK
<1> QED BY <1>1, InitSurvives, NextSurvives, PTL DEF Spec

-----------------------------------------------------------------------------
\* A step that keeps the holders and the daemon keeps the promise or breaks it.
LEMMA NoTouch ==
    ASSUME calm \in BOOLEAN, alive \in BOOLEAN, holds' = holds, alive' = alive,
           calm' = calm \/ calm' = FALSE
    PROVE  [SD!Next]_(SD!abstractVars)
<1>1. CASE calm' = calm BY <1>1 DEF SD!abstractVars
<1>2. CASE calm' = FALSE
  <2>1. alive' \in BOOLEAN /\ (alive' => alive) BY Zenon
  <2>2. SD!Break BY <1>2, <2>1, Zenon DEF SD!Break
  <2> QED BY <2>2, Zenon DEF SD!Next
<1> QED BY <1>1, <1>2

\* acquire is the abstract Acquire, or fails and gives nobody a daemon.
LEMMA AcquireRefines ==
    ASSUME Survives, calm => IInv, TypeOK', NEW p \in Thread, Acquire(p)
    PROVE  [SD!Next]_(SD!abstractVars)
<1>1. at[p] = "acquire" BY DEF Acquire
<1>2. /\ p[1] \in Backend /\ p[1] \notin holds /\ refs \in Nat
      /\ alive \in BOOLEAN /\ calm \in BOOLEAN /\ alive' \in BOOLEAN
  BY <1>1, HereStill DEF HoldLabel, Survives, TypeOK
<1>3. CASE AcquireOk(p[1]) /\ UNCHANGED calm
  <2>1. holds' = holds \cup {p[1]} BY <1>3 DEF AcquireOk
  <2>2. alive => alive' BY <1>3, Zenon DEF AcquireOk
  <2>5. refs = 0 => alive'
    <3>1. refs = 0 => ~(refs > 0) OBVIOUS
    <3> QED BY <1>3, <3>1, Zenon DEF AcquireOk
  <2>3. calm => alive'
    <3>1. calm => (alive <=> refs > 0) BY DEF IInv, DaemonUp
    <3>2. refs = 0 \/ refs > 0 BY <1>2
    <3> QED BY <2>2, <2>5, <3>1, <3>2, Zenon
  <2>4. SD!Acquire(p[1]) BY <1>2, <1>3, <2>1, <2>2, <2>3, Zenon DEF SD!Acquire
  <2> QED BY <1>2, <2>4, Zenon DEF SD!Next
<1>4. CASE AcquireFails /\ Fail(p)
  <2>1. refs = 0 /\ holds' = holds /\ alive' = FALSE BY <1>4 DEF AcquireFails
  <2>2. ~alive BY <2>1 DEF Survives, Undercounts
  <2>3. alive' = alive BY <1>2, <2>1, <2>2, Zenon
  <2>4. calm' = calm \/ calm' = FALSE BY <1>2, <1>4, Zenon DEF Fail
  <2> QED BY <1>2, <2>1, <2>3, <2>4, NoTouch
<1> QED BY <1>3, <1>4 DEF Acquire

\* The end of a Shutdown and the undoing of a start are the abstract Release.
LEMMA ReleaseRefines ==
    ASSUME Survives, calm => IInv, TypeOK', NEW p \in Thread, ShutdownRelease(p) \/ LoadUndo(p)
    PROVE  [SD!Next]_(SD!abstractVars)
<1>1. at[p] \in {"release", "undo"} /\ Release(p[1]) BY DEF ShutdownRelease, LoadUndo
<1>2. at[p] # "idle" /\ at[p] # "stop" /\ at[p] \in HoldLabel BY <1>1 DEF HoldLabel
<1>3. p[1] \in Backend /\ Of(p) = p[1] BY <1>2, HereStill
<1>4. holds' = holds \ {p[1]} /\ (alive' => alive /\ holds' # {})
  BY <1>1, <1>3, ReleaseStill
<1>5. calm => p[1] \in holds /\ (alive' <=> holds' # {})
  <2> SUFFICES ASSUME IInv PROVE p[1] \in holds /\ (alive' <=> holds' # {})
    OBVIOUS
  <2>1. p[1] \in holds BY <1>2, <1>3, Here
  <2>2. Counted' /\ DaemonUp' BY <1>1, <1>2, ReleaseStep
  <2>3. refs' = Cardinality(holds') /\ (alive' <=> refs' > 0) BY <2>2 DEF Counted, DaemonUp
  <2>4. holds' \subseteq Backend /\ refs' \in Nat BY DEF TypeOK
  <2>5. Cardinality(holds') = 0 <=> holds' = {} BY <1>3, <2>4, Count
  <2> QED BY <2>1, <2>3, <2>4, <2>5
<1>6. calm' = calm
  <2>1. calm \in BOOLEAN BY DEF Survives, TypeOK
  <2>2. CASE ShutdownRelease(p) BY <2>2 DEF ShutdownRelease
  <2>3. CASE LoadUndo(p)
    <3>1. calm => job[p] = "new"
      <4> SUFFICES ASSUME IInv PROVE job[p] = "new" OBVIOUS
      <4>1. at[p] = "undo" BY <2>3 DEF LoadUndo
      <4> QED BY <4>1, Here
    <3>2. calm' = (calm /\ job[p] = "new") BY <2>3 DEF LoadUndo, Fail
    <3> QED BY <2>1, <3>1, <3>2, Zenon
  <2> QED BY <2>2, <2>3
<1>7. alive' \in BOOLEAN BY DEF TypeOK
<1>8. SD!Release(p[1]) BY <1>4, <1>5, <1>6, <1>7, Zenon DEF SD!Release
<1> QED BY <1>3, <1>8, Zenon DEF SD!Next

\* Every step of the backends and of charon is a step of the shared daemon, or none.
LEMMA StepRefines ==
    ASSUME Survives, calm => IInv, [Next]_vars
    PROVE  [SD!Next]_(SD!abstractVars)
<1>0. TypeOK' /\ calm \in BOOLEAN /\ alive \in BOOLEAN BY TypeStep DEF Survives, TypeOK
<1>1. CASE UNCHANGED vars BY <1>1 DEF SD!abstractVars, vars, daemonVars
<1>2. CASE \E b \in Backend : New(b) \/ Restart(b) \/ Shutdown(b) \/ Renew(b)
  BY <1>0, <1>2, NoTouch DEF New, Restart, Shutdown, Renew, daemonVars
<1>3. ASSUME NEW p \in Thread,
             \/ Stop(p) \/ Unload(p) \/ ShutdownRelease(p) \/ Reset(p)
             \/ Begin(p) \/ Acquire(p) \/ Load(p) \/ LoadUndo(p)
      PROVE  [SD!Next]_(SD!abstractVars)
  <2>1. CASE Stop(p) \/ Unload(p) \/ Reset(p)
    BY <1>0, <2>1, NoTouch DEF Stop, Unload, Reset, daemonVars
  <2>2. CASE ShutdownRelease(p) \/ LoadUndo(p) BY <1>0, <2>2, ReleaseRefines
  <2>3. CASE Acquire(p) BY <1>0, <2>3, AcquireRefines
  <2>4. CASE Begin(p) \/ Load(p)
    <3>1. holds' = holds /\ alive' = alive BY <2>4 DEF Begin, Load, daemonVars
    <3>2. calm' = calm \/ calm' = (calm /\ job[p] = "new")
      BY <2>4, Zenon DEF Begin, Load, Fail
    <3>3. calm' = calm \/ calm' = FALSE BY <1>0, <3>2, Zenon
    <3> QED BY <1>0, <3>1, <3>3, NoTouch
  <2> QED BY <1>3, <2>1, <2>2, <2>3, <2>4
<1>4. CASE Crash
  <2>1. calm' = FALSE /\ alive' = FALSE /\ holds' = holds BY <1>4 DEF Crash
  <2>2. alive' \in BOOLEAN /\ (alive' => alive) BY <2>1, Zenon
  <2>3. SD!Break BY <2>1, <2>2, Zenon DEF SD!Break
  <2> QED BY <2>3, Zenon DEF SD!Next
<1> QED BY <1>1, <1>2, <1>3, <1>4 DEF Next

\* If no Shutdown overlaps a renewal, the count of charon.go and the backends that
\* use it implement the shared daemon of SharedDaemon: first to Acquire starts,
\* last to Release stops, and never a daemon without a holder.
THEOREM CharonIsSharedDaemon == ~Overlap => (Spec => ImplementsSharedDaemon)
<1> SUFFICES ASSUME ~Overlap PROVE Spec => ImplementsSharedDaemon OBVIOUS
<1>1. Init => SD!Init BY DEF Init, SD!Init
<1>2. Init => Survives /\ (calm => IInv) BY InitSurvives, InitIInv
<1>3. Survives /\ (calm => IInv) /\ [Next]_vars => (Survives /\ (calm => IInv))'
  BY NextSurvives, NextIInv
<1>4. Survives /\ (calm => IInv) /\ [Next]_vars => [SD!Next]_(SD!abstractVars)
  BY StepRefines
<1> QED BY <1>1, <1>2, <1>3, <1>4, PTL DEF Spec, ImplementsSharedDaemon, SD!Spec
=============================================================================
