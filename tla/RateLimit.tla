----------------------------- MODULE RateLimit -----------------------------
(***************************************************************************)
(* ratelimit.Manager: the firewall marks it hands out, the tc class tree   *)
(* on each interface and the nft rules that set the marks.                 *)
(*                                                                         *)
(* Every method holds m.mu from end to end, but each step runs tc or nft   *)
(* commands that may fail, and interfaces come and go meanwhile.  A mark   *)
(* is written as its offset from firstMark; an absent limit is 0.          *)
(***************************************************************************)
EXTENDS Naturals, Sequences, FiniteSets

CONSTANTS
    Addr,        \* tunnel addresses of clients
    Ipv6,        \* those nft refuses in an `ip daddr' rule
    Limit,       \* speed limits in play
    Egress,      \* the internet-facing interface
    Tunnel,      \* tunnel interfaces that may exist
    maxClients,  \* the size of the mark range
    MayFail,     \* a tc or nft command may fail
    NoMark

ASSUME RateLimitAssumption ==
    /\ Ipv6 \subseteq Addr
    /\ Limit \subseteq Nat \ {0}
    /\ Egress \notin Tunnel
    /\ maxClients \in Nat
    /\ MayFail \in BOOLEAN
    /\ NoMark \notin Nat

VARIABLES
    marks,     \* m.marks: the mark of each address
    freed,     \* m.freed, a stack
    nextMark,  \* m.nextMark
    applied,   \* m.applied: the limit installed for each address
    ifaceSet,  \* m.ifaceSet
    link,      \* each tunnel interface: gone, down or up
    tree,      \* the classes on each interface: the limit of each mark
    rules,     \* the nft chain: the mark set for each address
    at,        \* where the method that holds m.mu is
    wanted,    \* Apply's clients by address
    ifaces,    \* the interfaces Apply found
    todo,      \* the addresses a loop of Apply has yet to visit
    failed     \* firstErr # nil

managerVars == <<marks, freed, nextMark, applied, ifaceSet>>
hostVars == <<tree, rules>>
limiterVars == <<managerVars, link, hostVars, at, wanted, ifaces, todo, failed>>

Iface == Tunnel \cup {Egress}
Mark == 0..(maxClients - 1)
NoClients == [a \in Addr |-> 0]
NoMarks == [a \in Addr |-> NoMark]
NoClasses == [m \in Mark |-> 0]

\* shapingInterfaces: the egress and every tunnel that is up.
Interfaces == {Egress} \cup {i \in Tunnel : link[i] = "up"}
Exists(i) == i = Egress \/ link[i] # "gone"

\* The interfaces, of those given, on which a command succeeds: never on one
\* that is gone.
Succeeds(S) == LET there == {i \in S : Exists(i)}
               IN  IF MayFail THEN SUBSET there ELSE {there}

LimiterTypeOK ==
    /\ marks \in [Addr -> Mark \cup {NoMark}]
    /\ freed \in Seq(Mark)
    /\ nextMark \in 0..maxClients
    /\ applied \in [Addr -> Limit \cup {0}]
    /\ ifaceSet \subseteq Iface
    /\ link \in [Tunnel -> {"gone", "down", "up"}]
    /\ tree \in [Iface -> {NoMark} \cup [Mark -> Limit \cup {0}]]
    /\ rules \in [Addr -> Mark \cup {NoMark}]
    /\ at \in {"idle", "drop", "root", "cap", "flush", "mark"}
    /\ wanted \in [Addr -> Limit \cup {0}]
    /\ ifaces \subseteq Iface
    /\ todo \subseteq Addr
    /\ failed \in BOOLEAN

LimiterInit ==
    /\ marks = NoMarks /\ freed = <<>> /\ nextMark = 0
    /\ applied = NoClients /\ ifaceSet = {}
    /\ link = [i \in Tunnel |-> "gone"]
    /\ tree = [i \in Iface |-> NoMark] /\ rules = NoMarks
    /\ at = "idle" /\ wanted = NoClients /\ ifaces = {} /\ todo = {}
    /\ failed = FALSE

-----------------------------------------------------------------------------
\* Apply(clients): clients without a limit count as absent.
ApplyBegin(clients) ==
    /\ at = "idle"
    /\ at' = "drop"
    /\ wanted' = clients
    /\ ifaces' = Interfaces
    /\ todo' = {a \in Addr : applied[a] # 0 /\ clients[a] = 0}
    /\ failed' = FALSE
    /\ UNCHANGED <<managerVars, link, hostVars>>

\* A departed client: its class goes from every interface, old or current, as
\* far as the commands work, and its mark is freed.
Drop(a) ==
    /\ at = "drop" /\ a \in todo
    /\ \E ok \in Succeeds(ifaceSet \cup Interfaces) :
         tree' = [i \in Iface |-> IF i \in ok /\ tree[i] # NoMark
                                  THEN [tree[i] EXCEPT ![marks[a]] = 0] ELSE tree[i]]
    /\ freed' = Append(freed, marks[a])
    /\ marks' = [marks EXCEPT ![a] = NoMark]
    /\ applied' = [applied EXCEPT ![a] = 0]
    /\ todo' = todo \ {a}
    /\ UNCHANGED <<nextMark, ifaceSet, link, rules, at, wanted, ifaces, failed>>

\* teardownAll, errors ignored.
TeardownAll ==
    /\ \E ok \in Succeeds(ifaceSet \cup Interfaces) :
         tree' = [i \in Iface |-> IF i \in ok THEN NoMark ELSE tree[i]]
    /\ \E ok \in (IF MayFail THEN BOOLEAN ELSE {TRUE}) :
         rules' = IF ok THEN NoMarks ELSE rules
    /\ marks' = NoMarks /\ freed' = <<>> /\ nextMark' = 0
    /\ applied' = NoClients /\ ifaceSet' = {}

\* No client is left: an idle node is cleaned up.
ApplyNothing ==
    /\ at = "drop" /\ todo = {} /\ wanted = NoClients
    /\ TeardownAll
    /\ at' = "idle"
    /\ UNCHANGED <<link, wanted, ifaces, todo, failed>>

\* ensureRoot on every interface: an existing root is kept with its classes.
\* The root may go in and the default class below it still be refused.
EnsureRoots ==
    /\ at = "drop" /\ todo = {} /\ wanted # NoClients
    /\ \E ok \in Succeeds(ifaces) :
         /\ tree' = [i \in Iface |-> IF i \in ok /\ tree[i] = NoMark
                                     THEN NoClasses ELSE tree[i]]
         /\ failed' \in {ok # ifaces, ok # ifaces \/ MayFail}
    /\ todo' = {a \in Addr : wanted[a] # 0}
    /\ at' = "cap"
    /\ UNCHANGED <<managerVars, link, rules, wanted, ifaces>>

\* Mutant: a freed mark is read but stays on the free list.
AllocMark_KeepsFreed(a, m) ==
    \/ /\ freed # <<>> /\ m = freed[Len(freed)]
       /\ marks' = [marks EXCEPT ![a] = m]
       /\ UNCHANGED <<freed, nextMark>>
    \/ /\ freed = <<>> /\ nextMark < maxClients /\ m = nextMark
       /\ nextMark' = nextMark + 1
       /\ marks' = [marks EXCEPT ![a] = m]
       /\ UNCHANGED freed

\* allocMark: the address's own mark, else the last one freed, else a new one.
AllocMark(a, m) ==
    \/ /\ marks[a] # NoMark /\ m = marks[a]
       /\ UNCHANGED <<marks, freed, nextMark>>
    \/ /\ marks[a] = NoMark /\ freed # <<>> /\ m = freed[Len(freed)]
       /\ freed' = SubSeq(freed, 1, Len(freed) - 1)
       /\ marks' = [marks EXCEPT ![a] = m]
       /\ UNCHANGED nextMark
    \/ /\ marks[a] = NoMark /\ freed = <<>> /\ nextMark < maxClients /\ m = nextMark
       /\ nextMark' = nextMark + 1
       /\ marks' = [marks EXCEPT ![a] = m]
       /\ UNCHANGED freed

\* One client: a mark and its classes on every interface that has a root.  The
\* class may go in and the filter that leads to it still be refused.
Cap(a) ==
    /\ at = "cap" /\ a \in todo
    /\ \E m \in Mark : AllocMark(a, m) /\
         \E ok \in Succeeds(ifaces) :
           /\ tree' = [i \in Iface |-> IF i \in ok /\ tree[i] # NoMark
                                       THEN [tree[i] EXCEPT ![m] = wanted[a]]
                                       ELSE tree[i]]
           /\ LET error == failed \/ ok # ifaces \/ \E i \in ifaces : tree[i] = NoMark
              IN  failed' \in {error, error \/ MayFail}
    /\ applied' = [applied EXCEPT ![a] = wanted[a]]
    /\ todo' = todo \ {a}
    /\ UNCHANGED <<ifaceSet, link, rules, at, wanted, ifaces>>

\* One client too many: skipped, and the error reported.
CapRefused(a) ==
    /\ at = "cap" /\ a \in todo
    /\ marks[a] = NoMark /\ freed = <<>> /\ nextMark >= maxClients
    /\ failed' = TRUE
    /\ todo' = todo \ {a}
    /\ UNCHANGED <<managerVars, link, hostVars, at, wanted, ifaces>>

\* The interfaces are remembered for the next clean-up.
CapDone ==
    /\ at = "cap" /\ todo = {}
    /\ ifaceSet' = ifaces
    /\ at' = "flush"
    /\ UNCHANGED <<marks, freed, nextMark, applied, link, hostVars, wanted, ifaces,
                   todo, failed>>

\* syncMarks: the chain is created and emptied ...
FlushMarks ==
    /\ at = "flush"
    /\ \/ /\ MayFail
          /\ at' = "idle" /\ failed' = TRUE
          /\ UNCHANGED <<rules, todo>>
       \/ /\ rules' = NoMarks
          /\ todo' = {a \in Addr : applied[a] # 0 /\ marks[a] # NoMark}
          /\ at' = "mark"
          /\ UNCHANGED failed
    /\ UNCHANGED <<managerVars, link, tree, wanted, ifaces>>

\* Mutant: a failing rule is skipped without an error.
MarkRule_Silent(a) ==
    /\ at = "mark" /\ a \in todo
    /\ \E ok \in BOOLEAN : rules' = IF ok THEN [rules EXCEPT ![a] = marks[a]] ELSE rules
    /\ todo' = todo \ {a}
    /\ UNCHANGED <<managerVars, link, tree, at, wanted, ifaces, failed>>

\* ... and filled in the order of a Go map; the first failure ends it.
MarkRule(a) ==
    /\ at = "mark" /\ a \in todo
    /\ \/ /\ a \notin Ipv6
          /\ rules' = [rules EXCEPT ![a] = marks[a]]
          /\ todo' = todo \ {a}
          /\ UNCHANGED <<at, failed>>
       \/ /\ MayFail \/ a \in Ipv6
          /\ at' = "idle" /\ failed' = TRUE /\ todo' = {}
          /\ UNCHANGED rules
    /\ UNCHANGED <<managerVars, link, tree, wanted, ifaces>>

ApplyDone ==
    /\ at = "mark" /\ todo = {}
    /\ at' = "idle"
    /\ UNCHANGED <<managerVars, link, hostVars, wanted, ifaces, todo, failed>>

Close ==
    /\ at = "idle"
    /\ TeardownAll
    /\ failed' = FALSE
    /\ UNCHANGED <<link, at, wanted, ifaces, todo>>

\* The host: a tunnel appears, goes up or down, or goes away with its qdisc.
LinkChange(i) ==
    \E state \in {"gone", "down", "up"} \ {link[i]} :
        /\ link' = [link EXCEPT ![i] = state]
        /\ tree' = IF state = "gone" THEN [tree EXCEPT ![i] = NoMark] ELSE tree
        /\ UNCHANGED <<managerVars, rules, at, wanted, ifaces, todo, failed>>

LimiterNext ==
    \/ \E clients \in [Addr -> Limit \cup {0}] : ApplyBegin(clients)
    \/ \E a \in Addr : Drop(a) \/ Cap(a) \/ CapRefused(a) \/ MarkRule(a)
    \/ ApplyNothing \/ EnsureRoots \/ CapDone \/ FlushMarks \/ ApplyDone \/ Close
    \/ \E i \in Tunnel : LinkChange(i)

LimiterSpec == LimiterInit /\ [][LimiterNext]_limiterVars

-----------------------------------------------------------------------------
(* Properties.                                                             *)

\* A mark belongs to one client: no two addresses share one, none is free and
\* in use, or free twice, and the allocator never leaves its range, over any
\* history of arrivals, departures, refusals and teardowns.
MarksAreExclusive ==
    /\ \A a, b \in Addr : marks[a] = marks[b] /\ marks[a] # NoMark => a = b
    /\ \A n \in 1..Len(freed) : /\ \A a \in Addr : marks[a] # freed[n]
                                /\ \A k \in 1..Len(freed) : freed[n] = freed[k] => n = k
    /\ \A a \in Addr : marks[a] # NoMark => marks[a] < nextMark
    /\ \A n \in 1..Len(freed) : freed[n] < nextMark

\* "Apply makes the installed shaping match clients exactly, declaratively"
\* (ratelimit.go:120): after an Apply that reports no error, whatever failed in
\* earlier ones, every client is marked with its own mark and nobody else is,
\* and on every interface that has the tree the class of that mark has the
\* client's limit.
AppliedIsInstalled ==
    at = "idle" /\ ~failed /\ applied # NoClients =>
        /\ \A a \in Addr : rules[a] = marks[a]
        /\ \A a \in Addr : applied[a] # 0 =>
             \A i \in ifaceSet : tree[i] # NoMark => tree[i][marks[a]] = applied[a]

\* "Apply makes the installed shaping match clients exactly" (ratelimit.go:120):
\* a client whose address nft accepts is capped whoever the others are.
EveryClientIsCapped ==
    at = "idle" => \A a \in Addr \ Ipv6 : applied[a] # 0 => rules[a] = marks[a]

\* "Record the interface set so departed clients and Close clean the right ones
\* even if the interface list changes later" (ratelimit.go:203): without clients
\* no interface has a class tree.
NothingLeftBehind ==
    at = "idle" /\ applied = NoClients /\ ~failed => \A i \in Iface : tree[i] = NoMark
=============================================================================
