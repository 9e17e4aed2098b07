---------------------------- MODULE StatsTracker ----------------------------
(***************************************************************************)
(* The per-user traffic accounting of pkg/stats, as the WireGuard backend  *)
(* drives it: a poll reads the kernel's counters and applies them later,   *)
(* peers are removed and added again (their counters start from zero), and *)
(* the panel pulls what is pending.                                        *)
(*                                                                         *)
(* A counter has two directions that are judged together.  The time of the *)
(* last activity and the endpoint, which serve the online status, are left *)
(* out.                                                                    *)
(***************************************************************************)
EXTENDS Integers

CONSTANTS
    Key,       \* public keys
    MaxCount,  \* bound: a kernel counter
    MaxPeers,  \* bound: how often a peer is added
    Atomic,    \* no peer is removed between a poll's read and its update
    NoEntry

Dir == {"rx", "tx"}
Zero == [d \in Dir |-> 0]
Counter == [Dir -> 0..MaxCount]
Entry == [cur : Counter, base : [Dir -> Int], last : [Dir -> Int], deleted : BOOLEAN]

ASSUME StatsTrackerAssumption ==
    /\ MaxCount \in Nat /\ MaxPeers \in Nat \ {0} /\ Atomic \in BOOLEAN
    /\ NoEntry \notin Counter /\ NoEntry \notin Entry

VARIABLES
    device,   \* the counters of the peers the device has
    added,    \* how often each peer was added
    entry,    \* st.stats
    polled,   \* the samples of the poll in progress, NoEntry between polls
    billed,   \* what the panel was told in all
    carried   \* what the device has really carried

statsVars == <<device, added, entry, polled, billed, carried>>

StatsTypeOK ==
    /\ device \in [Key -> {NoEntry} \cup Counter]
    /\ added \in [Key -> 0..MaxPeers]
    /\ \A k \in Key : entry[k] = NoEntry \/
          /\ entry[k].cur \in Counter /\ entry[k].deleted \in BOOLEAN
          /\ \A d \in Dir : entry[k].last[d] >= 0 /\ entry[k].base[d] <= entry[k].cur[d]
    /\ polled = NoEntry \/ polled \in [Key -> {NoEntry} \cup Counter]

StatsInit ==
    /\ device = [k \in Key |-> NoEntry] /\ added = [k \in Key |-> 0]
    /\ entry = [k \in Key |-> NoEntry] /\ polled = NoEntry
    /\ billed = [k \in Key |-> Zero] /\ carried = [k \in Key |-> Zero]

New == [cur |-> Zero, base |-> Zero, last |-> Zero, deleted |-> FALSE]
Minus(a, b) == [d \in Dir |-> a[d] - b[d]]
Pending(e) == IF e = NoEntry THEN Zero ELSE Minus(e.cur, e.base)

-----------------------------------------------------------------------------
(* The device.                                                             *)

AddPeer(k) ==
    /\ device[k] = NoEntry /\ added[k] < MaxPeers
    /\ device' = [device EXCEPT ![k] = Zero]
    /\ added' = [added EXCEPT ![k] = @ + 1]
    /\ UNCHANGED <<entry, polled, billed, carried>>

Traffic(k, d) ==
    /\ device[k] # NoEntry /\ device[k][d] < MaxCount
    /\ device' = [device EXCEPT ![k][d] = @ + 1]
    /\ carried' = [carried EXCEPT ![k][d] = @ + 1]
    /\ UNCHANGED <<added, entry, polled, billed>>

\* ApplyPeers of a removal, or a kick of the device limit.
RemovePeer(k) ==
    /\ device[k] # NoEntry /\ (Atomic => polled = NoEntry)
    /\ device' = [device EXCEPT ![k] = NoEntry]
    /\ UNCHANGED <<added, entry, polled, billed, carried>>

-----------------------------------------------------------------------------
(* The tracker.                                                            *)

\* updateConnectedPeers reads the device; a peer without a recent handshake is
\* passed over.
PollRead ==
    /\ polled = NoEntry
    /\ \E ks \in SUBSET Key : polled' = [k \in Key |-> IF k \in ks THEN device[k] ELSE NoEntry]
    /\ UNCHANGED <<device, added, entry, billed, carried>>

\* Mutant: a rollback starts again from zero.
applySample_Restarts(e, s) ==
    LET old == IF e = NoEntry THEN New ELSE e
        readded == \E d \in Dir : old.last[d] # 0
        rolled == ~readded /\ \E d \in Dir : s[d] < old.cur[d]
    IN [cur |-> s,
        base |-> CASE readded -> Minus(s, old.last)
                   [] rolled -> Zero
                   [] OTHER -> old.base,
        last |-> Zero, deleted |-> FALSE]

\* Mutant: the first sample only sets the baseline.
applySample_FirstIsBase(e, s) ==
    LET old == IF e = NoEntry THEN [New EXCEPT !.base = s] ELSE e
        readded == \E d \in Dir : old.last[d] # 0
        rolled == ~readded /\ \E d \in Dir : s[d] < old.cur[d]
    IN [cur |-> s,
        base |-> CASE readded -> Minus(s, old.last)
                   [] rolled -> Minus(s, Pending(old))
                   [] OTHER -> old.base,
        last |-> Zero, deleted |-> FALSE]

\* What was pending at a removal is restored, and a rollback keeps what is pending.
applySample(e, s) ==
    LET old == IF e = NoEntry THEN New ELSE e
        readded == \E d \in Dir : old.last[d] # 0
        rolled == ~readded /\ \E d \in Dir : s[d] < old.cur[d]
    IN [cur |-> s,
        base |-> CASE readded -> Minus(s, old.last)
                   [] rolled -> Minus(s, Pending(old))
                   [] OTHER -> old.base,
        last |-> Zero, deleted |-> FALSE]

UpdateStatsBatch ==
    /\ polled # NoEntry
    /\ entry' = [k \in Key |->
           IF polled[k] = NoEntry THEN entry[k] ELSE applySample(entry[k], polled[k])]
    /\ polled' = NoEntry
    /\ UNCHANGED <<device, added, billed, carried>>

\* The second half of a removal.
RemoveStats(k) ==
    /\ device[k] = NoEntry /\ entry[k] # NoEntry /\ (Atomic => polled = NoEntry)
    /\ entry' = [entry EXCEPT ![k].last = Pending(entry[k]), ![k].deleted = TRUE]
    /\ UNCHANGED <<device, added, polled, billed, carried>>

\* Mutant: a live peer keeps its base when it is reported.
GetStats_KeepsBase(k) ==
    /\ entry[k] # NoEntry
    /\ billed' = [billed EXCEPT ![k] = [d \in Dir |-> @[d] + Pending(entry[k])[d]]]
    /\ entry' = [entry EXCEPT ![k] = IF @.deleted THEN NoEntry ELSE @]
    /\ UNCHANGED <<device, added, polled, carried>>

\* GetStats and GetUsersStats with reset.
GetStats(k) ==
    /\ entry[k] # NoEntry
    /\ billed' = [billed EXCEPT ![k] = [d \in Dir |-> @[d] + Pending(entry[k])[d]]]
    /\ entry' = [entry EXCEPT ![k] =
           IF entry[k].deleted THEN NoEntry ELSE [entry[k] EXCEPT !.base = entry[k].cur]]
    /\ UNCHANGED <<device, added, polled, carried>>

CleanupDeletedEntries ==
    /\ entry' = [k \in Key |->
           IF entry[k] # NoEntry /\ entry[k].deleted /\ Pending(entry[k]) = Zero
           THEN NoEntry ELSE entry[k]]
    /\ UNCHANGED <<device, added, polled, billed, carried>>

StatsNext ==
    \/ \E k \in Key : \/ AddPeer(k) \/ RemovePeer(k) \/ RemoveStats(k) \/ GetStats(k)
                      \/ \E d \in Dir : Traffic(k, d)
    \/ PollRead \/ UpdateStatsBatch \/ CleanupDeletedEntries

StatsSpec == StatsInit /\ [][StatsNext]_statsVars

-----------------------------------------------------------------------------
(* Properties.                                                             *)

\* No user is charged for more than was carried, through removals, re-additions,
\* rollbacks and pulls in any order.  "RemoveStats marks a peer as deleted but keeps
\* counters until a reset reports them" (tracker.go:260): they are reported once.
NeverOverbilled ==
    \A k \in Key, d \in Dir : billed[k][d] + Pending(entry[k])[d] <= carried[k][d]

\* A user whose peer was added once is charged exactly for what the polls saw.
Exact ==
    \A k \in Key, d \in Dir :
        added[k] = 1 /\ entry[k] # NoEntry => billed[k][d] + Pending(entry[k])[d] = entry[k].cur[d]

\* "preserve pending deltas" (tracker.go:90) and "re-add before stats pull won't lose
\* data" (tracker.go:270): nothing that is pending is lost before a pull reports it.
PendingKept ==
    [][\A k \in Key, d \in Dir :
          billed'[k] = billed[k] => Pending(entry'[k])[d] >= Pending(entry[k])[d]]_statsVars
=============================================================================
