----------------------------- MODULE WireGuard -----------------------------
(***************************************************************************)
(* One WireGuard core: the peers the panel asked for (PeerStore), the      *)
(* peers the kernel interface has, and the device-limit enforcer that      *)
(* takes peers out of the kernel for a while.                              *)
(*                                                                         *)
(* A sync holds syncMu from end to end, so at most one is under way; the   *)
(* enforcer does not take syncMu and interleaves with it at every kernel   *)
(* call and at every use of limitMu and of the store's lock.  The panel's  *)
(* answer for each email is one of: not in the list, listed without        *)
(* WireGuard data, listed but not for this interface (or quarantined for a *)
(* bad key or address), or a key and an address.                           *)
(***************************************************************************)
EXTENDS Naturals, FiniteSets

CONSTANTS
    Email,      \* the users
    PubKey,     \* WireGuard public keys
    IP,         \* tunnel addresses
    OverLimit,  \* the users that may be seen on too many devices
    Strikes,    \* wgIPLimitStrikes
    Op,         \* the operations in play
    Resync,     \* a list for some users may name a kicked one
    MayFail,    \* a kernel call may fail
    Overlap,    \* an enforcer pass and a sync may overlap
    None

ASSUME WireGuardAssumption ==
    /\ OverLimit \subseteq Email
    /\ Strikes \in Nat
    /\ Op \subseteq {"full", "partial", "partialRestart", "restart", "shutdown"}
    /\ Resync \in BOOLEAN /\ MayFail \in BOOLEAN /\ Overlap \in BOOLEAN
    /\ None \notin Email \cup PubKey \cup IP
    /\ \A ips \in SUBSET IP : ips # None
    /\ \A peer \in [email : Email, ip : IP] : peer # None
    /\ \A cfg \in [ip : IP, replace : BOOLEAN] : cfg # None

VARIABLES
    peers,       \* PeerStore.peers: the peer stored under each key
    emailToKey,  \* PeerStore.emailToKey
    kernel,      \* the interface: each present peer's allowed addresses
    running,     \* state = lifecycleRunning and the manager's client is open
    userLimits,  \* the users whose limit is known
    kicked,      \* "no", or whether a kicked user's cooldown has passed
    strikes,     \* overStrikes
    sync,        \* where the holder of syncMu is
    op,          \* the operation it runs
    batch,       \* the user list it was given
    removes,     \* diff.RemoveKeys it has yet to commit to the store
    upserts,     \* diff.UpsertPeers it has yet to commit
    enf,         \* where the enforcer is
    actions,     \* what it has yet to do, per user
    target       \* the user and the stored peer it is working on

storeVars == <<peers, emailToKey>>
limitVars == <<userLimits, kicked, strikes>>
syncVars == <<sync, op, batch, removes, upserts>>
enfVars == <<enf, actions, target>>
vars == <<storeVars, kernel, running, limitVars, syncVars, enfVars>>

-----------------------------------------------------------------------------
(* Data.                                                                   *)

PeerInfo == [email : Email, ip : IP]
User == [kind : {"wanted"}, key : PubKey, ip : IP] \cup
        [kind : {"absent", "bare", "excluded"}, key : {None}, ip : {None}]
Batch == [Email -> User]
Target == [email : Email, key : PubKey, ip : IP]

NoBatch == [e \in Email |-> [kind |-> "absent", key |-> None, ip |-> None]]
NoPeers == [k \in PubKey |-> None]
NoActions == [e \in Email |-> "none"]

\* The users named in the list, those normalizeUsers keeps, and those with a
\* peer on this interface.
Listed(b) == {e \in Email : b[e].kind # "absent"}
Touched(b) == {e \in Email : b[e].kind \in {"wanted", "excluded"}}
Desired(b) == {e \in Email : b[e].kind = "wanted"}

\* collectDesiredPeers: no key and no address twice.
Valid(b) == \A e, f \in Desired(b) :
                e # f => b[e].key # b[f].key /\ b[e].ip # b[f].ip

\* buildSyncDiff's targetPeers.
TargetPeers(b) ==
    [k \in PubKey |->
        IF \E e \in Desired(b) : b[e].key = k
        THEN LET e == CHOOSE e \in Desired(b) : b[e].key = k
             IN  [email |-> e, ip |-> b[e].ip]
        ELSE None]

\* The emailToKey that belongs to a peers map.
KeysByEmail(ps) ==
    [e \in Email |->
        IF \E k \in PubKey : ps[k] # None /\ ps[k].email = e
        THEN CHOOSE k \in PubKey : ps[k] # None /\ ps[k].email = e
        ELSE None]

\* A kernel configuration call: peers to add (replacing their addresses or
\* not), then peers to remove.  An address routes to one peer: adding it to a
\* peer takes it from any other.
Configure(kern, cfg, gone) ==
    LET moved == {cfg[j].ip : j \in {j \in PubKey : cfg[j] # None}}
        Kept(k) == IF kern[k] = None \/ (cfg[k] # None /\ cfg[k].replace)
                   THEN {} ELSE kern[k] \ moved
    IN  [k \in PubKey |-> CASE k \in gone    -> None
                            [] k \notin gone /\ cfg[k] # None ->
                                 Kept(k) \cup {cfg[k].ip}
                            [] k \notin gone /\ cfg[k] = None /\ kern[k] # None ->
                                 Kept(k)
                            [] OTHER         -> None]

\* A call with ReplacePeers: exactly these peers.
Exactly(ps) == [k \in PubKey |-> IF ps[k] = None THEN None ELSE {ps[k].ip}]

\* What the operations of Manager leave on the interface when they succeed: a new
\* interface with these peers, a change of some peers, other peers for the present
\* ones, and no interface.
InitializeWithPeers(ps) == Exactly(ps)
ApplyPeers(cfg, gone) == Configure(kernel, cfg, gone)
ApplyPeersReplaceAll(ps) == Exactly(ps)
ApplyConfig(ps) == Exactly(ps)
Close == [k \in PubKey |-> None]

-----------------------------------------------------------------------------
TypeOK ==
    /\ peers \in [PubKey -> PeerInfo \cup {None}]
    /\ emailToKey \in [Email -> PubKey \cup {None}]
    /\ kernel \in [PubKey -> {None} \cup SUBSET IP]
    /\ running \in BOOLEAN
    /\ userLimits \subseteq Email
    /\ kicked \in [Email -> {"no", "cooling", "cooled"}]
    /\ strikes \in [Email -> 0..Strikes]
    /\ sync \in {"idle", "diff", "store", "replace", "restart"}
    /\ op \in {"none", "full", "partial", "partialRestart", "restart"}
    /\ batch \in Batch
    /\ removes \subseteq PubKey
    /\ upserts \in [PubKey -> PeerInfo \cup {None}]
    /\ enf \in {"idle", "lookup", "kernel", "record"}
    /\ actions \in [Email -> {"none", "kick", "readmit"}]
    /\ target \in Target \cup {None}

\* newWithManagerFactory: limits, interface and store from the startup list.
Init ==
    /\ \E b \in Batch :
         /\ Valid(b)
         /\ peers = TargetPeers(b)
         /\ emailToKey = KeysByEmail(TargetPeers(b))
         /\ kernel = InitializeWithPeers(TargetPeers(b))
         /\ userLimits = Touched(b)
    /\ running = TRUE
    /\ kicked = [e \in Email |-> "no"]
    /\ strikes = [e \in Email |-> 0]
    /\ sync = "idle" /\ op = "none" /\ batch = NoBatch
    /\ removes = {} /\ upserts = NoPeers
    /\ enf = "idle" /\ actions = NoActions /\ target = None

-----------------------------------------------------------------------------
(* Syncs.                                                                  *)

\* The panel gives out each address once: a list never hands one to a user
\* while the store has it for a user the list leaves alone.
PanelAllocates(b) ==
    \A k \in PubKey : peers[k] # None /\ peers[k].email \notin Touched(b) =>
        \A e \in Desired(b) : b[e].ip # peers[k].ip

\* Lock syncMu; rememberLimits.  A full list (and UpdateUsersAndRestart's)
\* replaces the known limits, another adds to them and forgets the kicks.
SyncBegin(o, b) ==
    /\ sync = "idle" /\ (Overlap \/ enf = "idle")
    /\ o \in {"full", "partial", "partialRestart"}
    /\ o # "full" => /\ PanelAllocates(b)
                     /\ Resync \/ \A e \in Listed(b) : kicked[e] = "no"
    /\ sync' = "diff" /\ op' = o /\ batch' = b
    /\ \/ /\ o \in {"full", "partialRestart"}
          /\ userLimits' = Listed(b)
          /\ UNCHANGED kicked
       \/ /\ o = "partial"
          /\ userLimits' = userLimits \cup Listed(b)
          /\ kicked' = [e \in Email |-> IF e \in Listed(b) THEN "no" ELSE kicked[e]]
    /\ UNCHANGED <<storeVars, kernel, running, strikes, removes, upserts, enfVars>>

\* Unlock syncMu.
Return == sync' = "idle" /\ op' = "none" /\ batch' = NoBatch

\* Mutant: no check who owns a key.
Refused_NoOwner == ~Valid(batch)

\* A list that names a key or an address twice, or (partial) a key of a user it
\* leaves alone, is refused; so is a change while the core is not running.
Refused ==
    \/ ~Valid(batch)
    \/ /\ op # "full"
       /\ \E e \in Desired(batch) :
            LET owner == peers[batch[e].key]
            IN  owner # None /\ owner.email \notin Touched(batch) \cup {e}

SyncRefuse ==
    /\ sync = "diff" /\ Refused
    /\ Return
    /\ UNCHANGED <<storeVars, kernel, running, limitVars, removes, upserts, enfVars>>

\* Mutant: only the users' new keys count as existing.
Existing_ByKey == {k \in PubKey : TargetPeers(batch)[k] # None /\ peers[k] # None}

\* buildSyncDiff against the whole store, or (partial) against the peers of the
\* users in the list.
Existing == IF op = "full" THEN {k \in PubKey : peers[k] # None}
            ELSE {emailToKey[e] : e \in Touched(batch)} \ {None}
RemoveKeys == {k \in Existing : TargetPeers(batch)[k] = None}
UpsertKeys == {k \in PubKey : /\ TargetPeers(batch)[k] # None
                              /\ k \in Existing => TargetPeers(batch)[k] # peers[k]}
PeerConfigs ==
    [k \in PubKey |->
        IF k \in UpsertKeys
           /\ (k \in Existing => TargetPeers(batch)[k].ip # peers[k].ip)
        THEN [ip |-> TargetPeers(batch)[k].ip, replace |-> k \in Existing]
        ELSE None]

\* syncUsersFull up to the kernel: nothing to do, or one ReplacePeers call.
SyncFull ==
    /\ sync = "diff" /\ op = "full" /\ ~Refused
    /\ \/ /\ \/ RemoveKeys = {} /\ UpsertKeys = {}
             \/ ~running \/ MayFail
          /\ Return
          /\ UNCHANGED kernel
       \/ /\ RemoveKeys # {} \/ UpsertKeys # {}
          /\ running
          /\ kernel' = ApplyPeersReplaceAll(TargetPeers(batch))
          /\ sync' = "replace"
          /\ UNCHANGED <<op, batch>>
    /\ UNCHANGED <<storeVars, running, limitVars, removes, upserts, enfVars>>

\* PeerStore.ReplaceAll.
SyncReplace ==
    /\ sync = "replace"
    /\ peers' = TargetPeers(batch)
    /\ emailToKey' = KeysByEmail(TargetPeers(batch))
    /\ Return
    /\ UNCHANGED <<kernel, running, limitVars, removes, upserts, enfVars>>

\* syncUsersPartialReconcile up to the kernel: one call with the changed and
\* new peers and the removals, unless there is nothing to tell the kernel.
SyncPartial ==
    LET quiet == RemoveKeys = {} /\ PeerConfigs = NoPeers
    IN  /\ sync = "diff" /\ op # "full" /\ ~Refused
        /\ \/ /\ ~quiet
              /\ ~running \/ MayFail
              /\ Return
              /\ UNCHANGED <<kernel, removes, upserts>>
           \/ /\ quiet \/ running
              /\ kernel' = IF quiet THEN kernel
                           ELSE ApplyPeers(PeerConfigs, RemoveKeys)
              /\ removes' = RemoveKeys
              /\ upserts' = [k \in PubKey |-> IF k \in UpsertKeys
                                              THEN TargetPeers(batch)[k] ELSE None]
              /\ sync' = "store"
              /\ UNCHANGED <<op, batch>>
        /\ UNCHANGED <<storeVars, running, limitVars, enfVars>>

\* PeerStore.ApplyChanges, under the store's lock: the removals ...
StoreRemove(k) ==
    /\ sync = "store" /\ k \in removes
    /\ removes' = removes \ {k}
    /\ peers' = [peers EXCEPT ![k] = None]
    /\ emailToKey' = IF peers[k] = None THEN emailToKey
                     ELSE [emailToKey EXCEPT ![peers[k].email] = None]
    /\ UNCHANGED <<kernel, running, limitVars, sync, op, batch, upserts, enfVars>>

\* Mutant: the user's former key stays in the store.
StoreUpsert_KeepsOldKey(k) ==
    /\ sync = "store" /\ removes = {} /\ upserts[k] # None
    /\ upserts' = [upserts EXCEPT ![k] = None]
    /\ peers' = [peers EXCEPT ![k] = upserts[k]]
    /\ emailToKey' = [e \in Email |->
                        IF e = upserts[k].email THEN k
                        ELSE IF peers[k] # None /\ peers[k].email = e THEN None
                        ELSE emailToKey[e]]
    /\ UNCHANGED <<kernel, running, limitVars, sync, op, batch, removes, enfVars>>

\* ... then the upserts, one by one (the code's order by key does not matter):
\* the user's former key goes, and so does the former user of the key.
StoreUpsert(k) ==
    LET new == upserts[k]
        old == emailToKey[new.email]
    IN  /\ sync = "store" /\ removes = {} /\ new # None
        /\ upserts' = [upserts EXCEPT ![k] = None]
        /\ peers' = [j \in PubKey |-> IF j = k THEN new
                                      ELSE IF j = old THEN None ELSE peers[j]]
        /\ emailToKey' = [e \in Email |->
                            IF e = new.email THEN k
                            ELSE IF peers[k] # None /\ peers[k].email = e THEN None
                            ELSE emailToKey[e]]
        /\ UNCHANGED <<kernel, running, limitVars, sync, op, batch, removes, enfVars>>

\* The store's lock is released; UpdateUsersAndRestart goes on to restart.
SyncStored ==
    /\ sync = "store" /\ removes = {} /\ upserts = NoPeers
    /\ IF op = "partialRestart" THEN sync' = "restart" /\ UNCHANGED <<op, batch>>
                                ELSE Return
    /\ UNCHANGED <<storeVars, kernel, running, limitVars, removes, upserts, enfVars>>

RestartBegin ==
    /\ sync = "idle" /\ (Overlap \/ enf = "idle")
    /\ sync' = "restart" /\ op' = "restart"
    /\ UNCHANGED <<storeVars, kernel, running, limitVars, batch, removes, upserts,
                   enfVars>>

\* restartLocked: the interface is given exactly the stored peers.
RestartApply ==
    /\ sync = "restart"
    /\ \/ /\ ~running \/ MayFail
          /\ UNCHANGED kernel
       \/ /\ running
          /\ kernel' = ApplyConfig(peers)
    /\ Return
    /\ UNCHANGED <<storeVars, running, limitVars, removes, upserts, enfVars>>

\* Shutdown takes wg.mu, not syncMu: the interface goes away at any point.
Shutdown ==
    /\ running
    /\ running' = FALSE
    /\ kernel' = Close
    /\ UNCHANGED <<storeVars, limitVars, syncVars, enfVars>>

-----------------------------------------------------------------------------
(* The device-limit enforcer, run by the statistics loop.                  *)

\* The users one reading of the interface may show over their limit.
Over == SUBSET (OverLimit \cap userLimits)

\* Mutant: a kicked user is skipped before its cooldown is looked at.
EnforceDecide_SkipsKicked ==
    /\ enf = "idle" /\ running /\ (Overlap \/ sync = "idle")
    /\ \E over \in SUBSET {e \in OverLimit \cap userLimits : kicked[e] = "no"} :
         /\ actions' = [e \in Email |-> IF e \in over THEN "kick" ELSE "none"]
         /\ strikes' = [e \in Email |-> IF e \in over THEN Strikes ELSE 0]
    /\ enf' = "lookup"
    /\ UNCHANGED <<storeVars, kernel, running, userLimits, kicked, syncVars, target>>

\* One poll, under limitMu: which known users are over their limit is up to
\* the endpoints seen.  Strikes polls in a row get a user kicked; a kicked user
\* whose cooldown has passed is re-admitted.
EnforceDecide ==
    /\ enf = "idle" /\ running /\ (Overlap \/ sync = "idle")
    /\ \E over \in Over :
         LET counted == {e \in OverLimit \cap userLimits : kicked[e] = "no"}
             Struck(e) == strikes[e] + 1 >= Strikes
         IN  /\ strikes' = [e \in Email |->
                   CASE e \in counted \cap over -> IF Struck(e) THEN Strikes
                                                  ELSE strikes[e] + 1
                     [] e \in counted \ over    -> 0
                     [] OTHER                   -> strikes[e]]
             /\ actions' = [e \in Email |->
                   CASE e \in counted \cap over /\ Struck(e) -> "kick"
                     [] e \in userLimits /\ kicked[e] = "cooled" -> "readmit"
                     [] OTHER -> "none"]
    /\ enf' = "lookup"
    /\ UNCHANGED <<storeVars, kernel, running, userLimits, kicked, syncVars, target>>

\* GetByEmail for one of the users to act on; the store's lock is free.
EnforceLookup(e) ==
    LET k == emailToKey[e]
    IN  /\ enf = "lookup" /\ actions[e] # "none" /\ sync # "store"
        /\ \/ /\ k = None
              /\ actions' = [actions EXCEPT ![e] = "none"]
              /\ UNCHANGED <<enf, target>>
           \/ /\ k # None
              /\ target' = [email |-> e, key |-> k, ip |-> peers[k].ip]
              /\ enf' = "kernel"
              /\ UNCHANGED actions
        /\ UNCHANGED <<storeVars, kernel, running, limitVars, syncVars>>

\* ApplyPeers with a removal or an addition; a failure skips the user.
EnforceKernel ==
    LET action == actions[target.email]
        add == [k \in PubKey |-> IF k = target.key
                                 THEN [ip |-> target.ip, replace |-> FALSE] ELSE None]
    IN  /\ enf = "kernel"
        /\ \/ /\ ~running \/ MayFail
              /\ actions' = [actions EXCEPT ![target.email] = "none"]
              /\ enf' = "lookup"
              /\ target' = None
              /\ UNCHANGED kernel
           \/ /\ running
              /\ kernel' = IF action = "kick"
                           THEN ApplyPeers(NoPeers, {target.key})
                           ELSE ApplyPeers(add, {})
              /\ enf' = "record"
              /\ UNCHANGED <<actions, target>>
        /\ UNCHANGED <<storeVars, running, limitVars, syncVars>>

\* limitMu again: note or forget the kick.
EnforceRecord ==
    LET e == target.email
    IN  /\ enf = "record"
        /\ kicked' = [kicked EXCEPT ![e] = IF actions[e] = "kick" THEN "cooling" ELSE "no"]
        /\ strikes' = [strikes EXCEPT ![e] = 0]
        /\ actions' = [actions EXCEPT ![e] = "none"]
        /\ enf' = "lookup"
        /\ target' = None
        /\ UNCHANGED <<storeVars, kernel, running, userLimits, syncVars>>

EnforceDone ==
    /\ enf = "lookup" /\ actions = NoActions
    /\ enf' = "idle"
    /\ UNCHANGED <<storeVars, kernel, running, limitVars, syncVars, actions, target>>

\* A kicked user's cooldown runs out.
Cool(e) ==
    /\ kicked[e] = "cooling"
    /\ kicked' = [kicked EXCEPT ![e] = "cooled"]
    /\ UNCHANGED <<storeVars, kernel, running, userLimits, strikes, syncVars, enfVars>>

-----------------------------------------------------------------------------
SyncStep ==
    \/ SyncRefuse \/ SyncFull \/ SyncReplace \/ SyncPartial \/ SyncStored
    \/ RestartApply
    \/ \E k \in PubKey : StoreRemove(k) \/ StoreUpsert(k)

EnforceStep ==
    \/ EnforceDecide \/ EnforceKernel \/ EnforceRecord \/ EnforceDone
    \/ \E e \in Email : EnforceLookup(e)

Next ==
    \/ \E o \in Op, b \in Batch : SyncBegin(o, b)
    \/ "restart" \in Op /\ RestartBegin
    \/ "shutdown" \in Op /\ Shutdown
    \/ SyncStep
    \/ OverLimit # {} /\ EnforceStep
    \/ \E e \in Email : Cool(e)

Spec == Init /\ [][Next]_vars

\* The kernel takes back the peer of a user whose cooldown has passed.
Readmit == EnforceKernel /\ enf' = "record" /\ actions[target.email] = "readmit"

\* A request that holds syncMu goes on, the statistics loop keeps polling (Go's
\* mutexes let every waiter in in the end), the kernel does not refuse to take a
\* peer back for ever, and cooldowns run out.
Fairness ==
    /\ WF_vars(SyncStep)
    /\ SF_vars(OverLimit # {} /\ EnforceStep)
    /\ SF_vars(OverLimit # {} /\ Readmit)
    /\ \A e \in Email : WF_vars(Cool(e))

FairSpec == Spec /\ Fairness

-----------------------------------------------------------------------------
(* Properties.                                                             *)

\* No request and no enforcer pass is under way, and the interface is up.
AtRest == sync = "idle" /\ enf = "idle" /\ running

Stored(e) == emailToKey[e] # None
Served(e) == Stored(e) /\ kernel[emailToKey[e]] # None

\* "It enforces a 1:1 mapping between User (Email) and WireGuard Public Key"
\* (peer_store.go:8): the two maps of the store are inverses of each other after
\* every single change, in whatever order keys and users are exchanged.
OneToOne ==
    /\ \A k \in PubKey : peers[k] # None => emailToKey[peers[k].email] = k
    /\ \A e \in Email : emailToKey[e] # None =>
         peers[emailToKey[e]] # None /\ peers[emailToKey[e]].email = e

\* "the store must only contain peers that were actually committed to the
\* kernel" (buildTargetPeerConfigs), and the other way round: between requests
\* the interface has exactly the stored peers with their addresses, but for
\* those of users the enforcer knows it has to re-admit, whichever requests
\* failed and however keys and addresses were exchanged.  So nobody the panel
\* removed can connect, and nobody it listed is locked out for good.
KernelMatchesStore ==
    AtRest => \A k \in PubKey :
        \/ kernel[k] = Exactly(peers)[k]
        \/ peers[k] # None /\ kernel[k] = None /\ kicked[peers[k].email] # "no"

\* A partial list leaves everybody it does not name alone, in the store and in
\* the kernel (cryptokey routing included), at every step of the request.
UntouchedKeepTheirPeer ==
    [][ \A e \in Email :
          LET k == emailToKey[e]
          IN  op \in {"partial", "partialRestart"} /\ sync \in {"diff", "store"}
                /\ e \notin Touched(batch) /\ k # None /\ UNCHANGED <<running, enf>>
              => /\ emailToKey'[e] = k /\ peers'[k] = peers[k]
                 /\ kernel'[k] = kernel[k] ]_vars

\* "How long an over-limit peer stays removed" (iplimit.go:16): during its
\* cooldown a kicked user's peer is not on the interface.
KickedStaysOut ==
    AtRest => \A e \in Email : kicked[e] = "cooling" => ~Served(e)

\* "replace=true rebuilds the map from an authoritative full list"
\* (iplimit.go:24): after it every stored user still has a known limit.
LimitsCover == AtRest => \A e \in Email : Stored(e) => e \in userLimits

\* "re-admitting them after a cooldown" (iplimit.go:94): a kicked user is
\* served again, unless it is taken off the list or the core is shut down.
KickedReturns ==
    \A e \in Email :
        kicked[e] # "no" ~> Served(e) \/ ~Stored(e) \/ e \notin userLimits \/ ~running
=============================================================================
