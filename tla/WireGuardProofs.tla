--------------------------- MODULE WireGuardProofs ---------------------------
(***************************************************************************)
(* What holds of a WireGuard core for any users, keys and addresses, with  *)
(* failing kernel calls and a shutdown at any point.  The first part lets  *)
(* the enforcer overlap the syncs: the store stays one to one whatever     *)
(* happens.  The second part is about the kernel, and needs a pass and a   *)
(* sync not to overlap and no partial list to name a kicked user.          *)
(***************************************************************************)
EXTENDS WireGuard, StatsTracker, TLAPS

\* Every user has one key in buildSyncDiff's target, the one it asked for.
LEMMA TargetByUser ==
    ASSUME NEW b \in Batch, NEW k \in PubKey, TargetPeers(b)[k] # None
    PROVE  /\ TargetPeers(b)[k] \in PeerInfo
           /\ b[TargetPeers(b)[k].email].key = k
  <1> DEFINE who == CHOOSE e \in Desired(b) : b[e].key = k
  <1>1. \E e \in Desired(b) : b[e].key = k
    BY DEF TargetPeers
  <1>2. who \in Desired(b) /\ b[who].key = k
    BY <1>1
  <1>3. TargetPeers(b)[k] = [email |-> who, ip |-> b[who].ip]
    BY <1>1 DEF TargetPeers
  <1>4. who \in Email /\ b[who].ip \in IP
    BY <1>2 DEF Desired, Batch, User
  <1> HIDE DEF who
  <1> QED
    BY <1>2, <1>3, <1>4 DEF PeerInfo

\* The target maps keys to peers.
LEMMA TargetType ==
    ASSUME NEW b \in Batch
    PROVE  TargetPeers(b) \in [PubKey -> PeerInfo \cup {None}]
  <1>1. \A k \in PubKey : TargetPeers(b)[k] \in PeerInfo \cup {None}
    BY TargetByUser
  <1> QED
    BY <1>1 DEF TargetPeers

\* KeysByEmail inverts a peers map in which every user has one key.
LEMMA Inverse ==
    ASSUME NEW ps \in [PubKey -> PeerInfo \cup {None}],
           \A k, l \in PubKey : ps[k] # None /\ ps[l] # None /\ ps[k].email = ps[l].email
                                   => k = l
    PROVE  /\ KeysByEmail(ps) \in [Email -> PubKey \cup {None}]
           /\ \A k \in PubKey : ps[k] # None => KeysByEmail(ps)[ps[k].email] = k
           /\ \A e \in Email : KeysByEmail(ps)[e] # None =>
                ps[KeysByEmail(ps)[e]] # None /\ ps[KeysByEmail(ps)[e]].email = e
  <1> DEFINE Holds(e, k) == ps[k] # None /\ ps[k].email = e
             key(e) == CHOOSE k \in PubKey : Holds(e, k)
  <1>1. ASSUME NEW e \in Email, NEW k \in PubKey, Holds(e, k)
        PROVE  KeysByEmail(ps)[e] \in PubKey /\ Holds(e, KeysByEmail(ps)[e])
    <2>1. key(e) \in PubKey /\ Holds(e, key(e))
      BY <1>1
    <2>2. KeysByEmail(ps)[e] = key(e)
      BY <1>1 DEF KeysByEmail
    <2> QED
      BY <2>1, <2>2
  <1>2. ASSUME NEW e \in Email, \A k \in PubKey : ~Holds(e, k)
        PROVE  KeysByEmail(ps)[e] = None
    BY <1>2 DEF KeysByEmail
  <1>3. KeysByEmail(ps) \in [Email -> PubKey \cup {None}]
    <2>1. \A e \in Email : KeysByEmail(ps)[e] \in PubKey \cup {None}
      BY <1>1, <1>2
    <2> QED
      BY <2>1 DEF KeysByEmail
  <1>4. ASSUME NEW k \in PubKey, ps[k] # None
        PROVE  KeysByEmail(ps)[ps[k].email] = k
    <2>1. ps[k].email \in Email
      BY <1>4 DEF PeerInfo
    <2> QED
      BY <2>1, <1>1, <1>4
  <1>5. ASSUME NEW e \in Email, KeysByEmail(ps)[e] # None
        PROVE  ps[KeysByEmail(ps)[e]] # None /\ ps[KeysByEmail(ps)[e]].email = e
    BY <1>1, <1>2, <1>5
  <1> QED
    BY <1>3, <1>4, <1>5

\* The store of a target is one to one.
LEMMA TargetOneToOne ==
    ASSUME NEW b \in Batch
    PROVE  LET ps == TargetPeers(b) IN
           /\ ps \in [PubKey -> PeerInfo \cup {None}]
           /\ KeysByEmail(ps) \in [Email -> PubKey \cup {None}]
           /\ \A k \in PubKey : ps[k] # None => KeysByEmail(ps)[ps[k].email] = k
           /\ \A e \in Email : KeysByEmail(ps)[e] # None =>
                ps[KeysByEmail(ps)[e]] # None /\ ps[KeysByEmail(ps)[e]].email = e
  <1> DEFINE ps == TargetPeers(b)
  <1>1. ps \in [PubKey -> PeerInfo \cup {None}]
    BY TargetType
  <1>2. \A k, l \in PubKey : ps[k] # None /\ ps[l] # None /\ ps[k].email = ps[l].email
                                => k = l
    BY TargetByUser
  <1> HIDE DEF ps
  <1>3. /\ KeysByEmail(ps) \in [Email -> PubKey \cup {None}]
        /\ \A k \in PubKey : ps[k] # None => KeysByEmail(ps)[ps[k].email] = k
        /\ \A e \in Email : KeysByEmail(ps)[e] # None =>
             ps[KeysByEmail(ps)[e]] # None /\ ps[KeysByEmail(ps)[e]].email = e
    BY <1>1, <1>2, Inverse
  <1> QED
    BY <1>1, <1>3 DEF ps

\* What the store and a sync's pending changes are, and that the store is one to
\* one.
StoreInv ==
    /\ peers \in [PubKey -> PeerInfo \cup {None}]
    /\ emailToKey \in [Email -> PubKey \cup {None}]
    /\ batch \in Batch
    /\ upserts \in [PubKey -> PeerInfo \cup {None}]
    /\ OneToOne

\* Between syncs nothing is pending.
LEMMA NoBatchType == NoBatch \in Batch /\ NoPeers \in [PubKey -> PeerInfo \cup {None}]
  BY DEF NoBatch, Batch, User, NoPeers

\* The store of the first list is one to one.
LEMMA StoreInit == Init => StoreInv
  <1> SUFFICES ASSUME Init PROVE StoreInv
    OBVIOUS
  <1>1. PICK b \in Batch : /\ peers = TargetPeers(b)
                           /\ emailToKey = KeysByEmail(TargetPeers(b))
    BY DEF Init
  <1>2. batch \in Batch /\ upserts \in [PubKey -> PeerInfo \cup {None}]
    BY NoBatchType DEF Init
  <1> QED
    BY <1>1, <1>2, TargetOneToOne DEF StoreInv, OneToOne

\* One removal and one upsert of ApplyChanges each keep the two maps inverse.
LEMMA StoreChange ==
    ASSUME StoreInv, NEW k \in PubKey, StoreRemove(k) \/ StoreUpsert(k)
    PROVE  StoreInv'
  <1> USE WireGuardAssumption DEF WireGuardAssumption, StoreInv, OneToOne, PeerInfo
  <1>1. CASE StoreRemove(k)
    BY <1>1 DEF StoreRemove
  <1>2. CASE StoreUpsert(k)
    <2>1. upserts[k] \in PeerInfo /\ upserts[k].email \in Email
      BY <1>2 DEF StoreUpsert
    <2>2. /\ peers' \in [PubKey -> PeerInfo \cup {None}]
          /\ emailToKey' \in [Email -> PubKey \cup {None}]
          /\ upserts' \in [PubKey -> PeerInfo \cup {None}]
          /\ batch' \in Batch
      BY <1>2, <2>1 DEF StoreUpsert
    <2>3. ASSUME NEW j \in PubKey, peers'[j] # None
          PROVE  emailToKey'[peers'[j].email] = j
      BY <1>2, <2>1, <2>3 DEF StoreUpsert
    <2>4. ASSUME NEW e \in Email, emailToKey'[e] # None
          PROVE  peers'[emailToKey'[e]] # None /\ peers'[emailToKey'[e]].email = e
      BY <1>2, <2>1, <2>4 DEF StoreUpsert
    <2> QED
      BY <2>2, <2>3, <2>4
  <1> QED
    BY <1>1, <1>2

\* Every step of a sync keeps the store one to one.
LEMMA StoreSync == ASSUME StoreInv, SyncStep PROVE StoreInv'
  <1>1. CASE SyncRefuse \/ SyncStored \/ RestartApply
    <2>1. UNCHANGED <<peers, emailToKey, upserts>> /\ batch' \in {batch, NoBatch}
      BY <1>1 DEF SyncRefuse, SyncStored, RestartApply, Return, storeVars
    <2> QED
      BY <2>1, NoBatchType DEF StoreInv, OneToOne
  <1>2. CASE SyncFull
    <2>1. UNCHANGED <<peers, emailToKey, upserts>> /\ batch' \in {batch, NoBatch}
      BY <1>2 DEF SyncFull, Return, storeVars
    <2> QED
      BY <2>1, NoBatchType DEF StoreInv, OneToOne
  <1>3. CASE SyncReplace
    <2>1. batch' \in Batch /\ upserts' = upserts
      BY <1>3, NoBatchType DEF SyncReplace, Return
    <2> QED
      BY <1>3, <2>1, TargetOneToOne DEF SyncReplace, StoreInv, OneToOne
  <1>4. CASE SyncPartial
    <2>1. UNCHANGED <<peers, emailToKey>> /\ batch' \in {batch, NoBatch}
      BY <1>4 DEF SyncPartial, Return, storeVars
    <2>2. upserts' \in [PubKey -> PeerInfo \cup {None}]
      BY <1>4, TargetType DEF SyncPartial, StoreInv
    <2> QED
      BY <2>1, <2>2, NoBatchType DEF StoreInv, OneToOne
  <1> QED
    BY <1>1, <1>2, <1>3, <1>4, StoreChange DEF SyncStep

\* The enforcer and the other actions leave the store alone.
LEMMA StoreOther ==
    ASSUME StoreInv,
           \/ \E o \in Op, b \in Batch : SyncBegin(o, b)
           \/ RestartBegin \/ Shutdown \/ EnforceStep
           \/ \E e \in Email : Cool(e)
    PROVE  StoreInv'
  <1>1. UNCHANGED <<peers, emailToKey, upserts>> /\ batch' \in Batch
    <2>1. CASE \E o \in Op, b \in Batch : SyncBegin(o, b)
      BY <2>1 DEF SyncBegin, storeVars
    <2>2. CASE RestartBegin \/ Shutdown \/ \E e \in Email : Cool(e)
      BY <2>2 DEF RestartBegin, Shutdown, Cool, storeVars, syncVars, StoreInv
    <2>3. CASE EnforceStep
      BY <2>3 DEF EnforceStep, EnforceDecide, EnforceLookup, EnforceKernel,
                  EnforceRecord, EnforceDone, storeVars, syncVars, StoreInv
    <2> QED
      BY <2>1, <2>2, <2>3
  <1> QED
    BY <1>1 DEF StoreInv, OneToOne

\* "It enforces a 1:1 mapping between User (Email) and WireGuard Public Key":
\* for any lists the panel sends, any exchange of keys between users and any
\* failure on the way.
THEOREM StoreIsOneToOne == Spec => []OneToOne
  <1>1. StoreInv /\ [Next]_vars => StoreInv'
    <2> SUFFICES ASSUME StoreInv, [Next]_vars PROVE StoreInv'
      OBVIOUS
    <2>1. CASE UNCHANGED vars
      BY <2>1 DEF vars, storeVars, syncVars, StoreInv, OneToOne
    <2> QED
      BY <2>1, StoreSync, StoreOther DEF Next
  <1>2. StoreInv => OneToOne
    BY DEF StoreInv
  <1> QED
    BY StoreInit, <1>1, <1>2, PTL DEF Spec

-----------------------------------------------------------------------------
(* The kernel and the store, when a sync and a pass do not overlap.        *)

\* What the store has under a key once the pending changes are made.
Future(k) ==
    IF upserts[k] # None THEN upserts[k] ELSE IF k \in removes THEN None ELSE peers[k]

\* The interface has the peer, or the enforcer knows it has to re-admit its user.
Fits(k, peer) ==
    \/ kernel[k] = IF peer = None THEN None ELSE {peer.ip}
    \/ peer # None /\ kernel[k] = None /\ kicked[peer.email] # "no"

KickTypes == kicked \in [Email -> {"no", "cooling", "cooled"}]

\* A sync and an enforcement pass do not overlap, and only a sync that has told the
\* kernel has changes pending.
Apart ==
    /\ sync = "idle" \/ enf = "idle"
    /\ sync # "store" => removes = {} /\ upserts = NoPeers

\* A list that is being compared with the store names no address of a user it leaves
\* alone and nobody who is kicked.
Fair ==
    sync = "diff" /\ op # "full" =>
        PanelAllocates(batch) /\ \A e \in Listed(batch) : kicked[e] = "no"

\* The pending changes: each user gets one key, the key it leaves goes to another user
\* or is removed, and all of it concerns users the list names.
OneKey ==
    \A j, k \in PubKey : upserts[j] # None /\ upserts[k] # None /\ upserts[j].email = upserts[k].email
                            => j = k
Leaves ==
    \A j \in PubKey : upserts[j] # None =>
        LET k == emailToKey[upserts[j].email]
        IN  k \in {None, j} \/ upserts[k] # None \/ k \in removes
Names ==
    \A k \in PubKey :
        /\ upserts[k] # None => upserts[k].email \in Touched(batch)
        /\ (upserts[k] # None \/ k \in removes) /\ peers[k] # None => peers[k].email \in Touched(batch)

\* No address is given out twice.
OneAddress ==
    \A j, k \in PubKey : Future(j) # None /\ Future(k) # None /\ Future(j).ip = Future(k).ip => j = k

\* The kernel is ahead of the store: it has what the store will have.
Ahead ==
    running =>
        /\ sync = "replace" => kernel = Exactly(TargetPeers(batch))
        /\ sync # "replace" => \A k \in PubKey : (enf = "record" /\ k = target.key) \/ Fits(k, Future(k))
Replacing == sync = "replace" => Valid(batch)

\* The peer the enforcer works on is a stored one; when it has told the kernel, the
\* peer is out or in.
Working ==
    enf \in {"kernel", "record"} =>
        /\ target \in Target
        /\ emailToKey[target.email] = target.key /\ peers[target.key].ip = target.ip
        /\ enf = "record" /\ running =>
            kernel[target.key] = IF actions[target.email] = "kick" THEN None ELSE {target.ip}

KernelInv ==
    /\ StoreInv /\ KickTypes /\ Apart /\ Fair /\ OneKey /\ Leaves /\ Names /\ OneAddress
    /\ Ahead /\ Replacing /\ Working

-----------------------------------------------------------------------------
\* What buildSyncDiff wants under a key is what a user of the list asked for.
LEMMA TargetIs ==
    ASSUME NEW b \in Batch, NEW k \in PubKey, TargetPeers(b)[k] # None
    PROVE  /\ TargetPeers(b)[k].email \in Desired(b)
           /\ b[TargetPeers(b)[k].email].key = k
           /\ b[TargetPeers(b)[k].email].ip = TargetPeers(b)[k].ip
           /\ TargetPeers(b)[k].ip \in IP
  <1> DEFINE who == CHOOSE e \in Desired(b) : b[e].key = k
  <1>1. \E e \in Desired(b) : b[e].key = k
    BY DEF TargetPeers
  <1>2. who \in Desired(b) /\ b[who].key = k
    BY <1>1
  <1>3. TargetPeers(b)[k] = [email |-> who, ip |-> b[who].ip]
    BY <1>1 DEF TargetPeers
  <1> HIDE DEF who
  <1>4. TargetPeers(b)[k] \in PeerInfo
    BY TargetByUser
  <1> QED
    BY <1>2, <1>3, <1>4 DEF PeerInfo

\* A valid list wants no address twice.
LEMMA TargetAddresses ==
    ASSUME NEW b \in Batch, Valid(b), NEW j \in PubKey, NEW k \in PubKey,
           TargetPeers(b)[j] # None, TargetPeers(b)[k] # None,
           TargetPeers(b)[j].ip = TargetPeers(b)[k].ip
    PROVE  j = k
  BY TargetIs DEF Valid

\* Where nothing is pending the store is what it will be.
LEMMA NothingPending ==
    ASSUME upserts = NoPeers, removes = {}
    PROVE  OneKey /\ Leaves /\ Names /\ \A k \in PubKey : Future(k) = peers[k]
  BY DEF OneKey, Leaves, Names, Future, NoPeers

\* The interface is given exactly the peers of a map.
LEMMA ExactlyFits ==
    ASSUME NEW ps, kernel = Exactly(ps), NEW k \in PubKey
    PROVE  Fits(k, ps[k])
  BY DEF Exactly, Fits

\* The first list reaches kernel and store alike.
LEMMA KernelInit == Init => KernelInv
  <1> SUFFICES ASSUME Init PROVE KernelInv
    OBVIOUS
  <1>1. PICK b \in Batch : Valid(b) /\ peers = TargetPeers(b) /\ kernel = Exactly(peers)
    BY DEF Init, InitializeWithPeers
  <1>2. /\ sync = "idle" /\ enf = "idle" /\ removes = {} /\ upserts = NoPeers
        /\ KickTypes
    BY DEF Init, KickTypes
  <1>3. OneKey /\ Leaves /\ Names /\ \A k \in PubKey : Future(k) = peers[k]
    BY <1>2, NothingPending
  <1>4. OneAddress
    BY <1>1, <1>3, TargetAddresses DEF OneAddress
  <1>5. Ahead
    BY <1>1, <1>2, <1>3, ExactlyFits DEF Ahead
  <1> QED
    BY <1>2, <1>3, <1>4, <1>5, StoreInit DEF KernelInv, Apart, Fair, Replacing, Working

\* A step that leaves the store and the pending changes alone.
LEMMA Steady ==
    ASSUME KernelInv, StoreInv', KickTypes',
           UNCHANGED <<peers, emailToKey, removes, upserts>>,
           sync' = "store" => sync = "store" /\ batch' = batch,
           sync = "store" /\ sync' # "store" => removes = {} /\ upserts = NoPeers,
           sync' = "idle" \/ enf' = "idle",
           Fair', Replacing', Ahead', Working'
    PROVE  KernelInv'
  <1> USE DEF KernelInv
  <1>1. Apart'
    BY DEF Apart
  <1>2. \A k \in PubKey : Future(k)' = Future(k)
    BY DEF Future
  <1>3. OneKey' /\ Leaves'
    BY DEF OneKey, Leaves
  <1>4. OneAddress'
    BY <1>2 DEF OneAddress
  <1>5. Names'
    <2>1. CASE sync' = "store"
      BY <2>1 DEF Names
    <2>2. CASE sync' # "store"
      BY <1>1, <2>2 DEF Apart, Names, NoPeers
    <2> QED
      BY <2>1, <2>2
  <1> QED
    BY <1>1, <1>3, <1>4, <1>5

\* Outside a sync and a pass every key fits.
LEMMA AllFit ==
    ASSUME KernelInv, running, sync \notin {"replace", "store"}, enf # "record", NEW k \in PubKey
    PROVE  Fits(k, peers[k])
  <1>1. Future(k) = peers[k]
    BY NothingPending DEF KernelInv, Apart
  <1> QED
    BY <1>1 DEF KernelInv, Ahead


\* A request arrives: what it forgets it does not hold against anybody.
LEMMA BeginKeeps ==
    ASSUME ~Overlap, ~Resync, KernelInv, StoreInv', NEW o, NEW b \in Batch, SyncBegin(o, b)
    PROVE  KernelInv'
  <1> USE DEF KernelInv
  <1>1. /\ sync = "idle" /\ enf = "idle" /\ sync' = "diff" /\ op' = o /\ batch' = b
        /\ UNCHANGED <<peers, emailToKey, kernel, running, removes, upserts, enf, target, actions>>
        /\ o # "full" => PanelAllocates(b) /\ \A e \in Listed(b) : kicked[e] = "no"
    BY DEF SyncBegin, storeVars, enfVars
  <1>2. kicked' = kicked \/ kicked' = [e \in Email |-> IF e \in Listed(b) THEN "no" ELSE kicked[e]]
    BY DEF SyncBegin
  <1>3. o = "full" => kicked' = kicked
    BY DEF SyncBegin
  <1>4. \A e \in Email : kicked'[e] = kicked[e]
    BY <1>1, <1>2, <1>3
  <1>5. KickTypes'
    BY <1>2 DEF KickTypes
  <1>6. Fair'
    BY <1>1, <1>4 DEF Fair, PanelAllocates, Listed
  <1>7. ASSUME NEW k \in PubKey, running' PROVE Fits(k, peers[k])'
    <2>1. Fits(k, peers[k])
      BY <1>1, <1>7, AllFit
    <2>2. peers[k] # None => peers[k].email \in Email
      BY DEF StoreInv, PeerInfo
    <2> QED
      BY <1>1, <1>4, <2>1, <2>2 DEF Fits
  <1>8. \A k \in PubKey : Future(k)' = peers'[k]
    BY <1>1 DEF Apart, Future, NoPeers
  <1>9. Ahead' /\ Replacing' /\ Working'
    BY <1>1, <1>7, <1>8 DEF Ahead, Replacing, Working
  <1> QED
    BY <1>1, <1>5, <1>6, <1>9, Steady

\* Steps that change neither store nor interface, or give the interface exactly the
\* stored peers, or close it.
LEMMA PlainKeeps ==
    ASSUME ~Overlap, KernelInv, StoreInv',
           UNCHANGED <<peers, emailToKey, removes, upserts, enf, target, actions>>,
           KickTypes', \A e \in Email : kicked'[e] = "no" <=> kicked[e] = "no",
           \/ UNCHANGED <<sync, op, batch, kernel>>
           \/ ~running' /\ UNCHANGED <<sync, op, batch>>
           \/ sync' = "idle" /\ sync \in {"diff", "restart"} /\ kernel' \in {kernel, Exactly(peers)}
           \/ sync' = "restart" /\ sync = "idle" /\ enf = "idle" /\ kernel' = kernel
           \/ /\ sync = "store" /\ sync' \in {"idle", "restart"} /\ kernel' = kernel
              /\ removes = {} /\ upserts = NoPeers,
           running' => running
    PROVE  KernelInv'
  <1> USE DEF KernelInv
  <1>1. \A k \in PubKey : Future(k)' = Future(k)
    BY DEF Future
  <1>2. ASSUME NEW k \in PubKey
        PROVE  Future(k) # None => Future(k).email \in Email
    BY DEF Future, StoreInv, PeerInfo
  <1>3. ASSUME NEW k \in PubKey, kernel' = kernel
        PROVE  Fits(k, Future(k))' <=> Fits(k, Future(k))
    BY <1>1, <1>2, <1>3 DEF Fits
  <1>4. sync' = "idle" \/ enf' = "idle"
    BY DEF Apart
  <1>5. Fair'
    BY DEF Fair, PanelAllocates, Listed
  <1>6. Replacing'
    BY DEF Replacing
  <1>7. Working'
    BY <1>4 DEF Working, Apart
  <1>8. Ahead'
    <2> SUFFICES ASSUME running' PROVE Ahead'
      BY DEF Ahead
    <2>1. CASE UNCHANGED <<sync, op, batch, kernel>>
      BY <1>3, <2>1 DEF Ahead
    <2>2. CASE sync' = "idle" /\ sync \in {"diff", "restart"} /\ kernel' = kernel
      BY <1>3, <2>2 DEF Ahead
    <2>3. CASE sync' = "idle" /\ sync \in {"diff", "restart"} /\ kernel' = Exactly(peers)
      <3>1. \A k \in PubKey : Future(k) = peers[k]
        BY <2>3, NothingPending DEF Apart
      <3>2. \A k \in PubKey : Fits(k, peers[k])'
        BY <2>3 DEF Exactly, Fits
      <3> QED
        BY <1>1, <2>3, <3>1, <3>2 DEF Ahead
    <2>4. CASE sync \in {"idle", "store"} /\ sync' \in {"idle", "restart"} /\ kernel' = kernel
      BY <1>3, <2>4 DEF Ahead
    <2> QED
      BY <2>1, <2>2, <2>3, <2>4
  <1> QED
    BY <1>4, <1>5, <1>6, <1>7, <1>8, Steady

\* A full list goes to the interface, and then to the store.
LEMMA FullKeeps ==
    ASSUME ~Overlap, KernelInv, StoreInv', SyncFull \/ SyncReplace
    PROVE  KernelInv'
  <1> USE DEF KernelInv
  <1>1. CASE SyncFull
    <2>1. /\ sync = "diff" /\ enf = "idle"
          /\ UNCHANGED <<peers, emailToKey, running, kicked, removes, upserts, enf, actions, target>>
      BY <1>1 DEF SyncFull, storeVars, limitVars, enfVars, Apart
    <2>2. KickTypes' /\ \A e \in Email : kicked'[e] = "no" <=> kicked[e] = "no"
      BY <2>1 DEF KickTypes
    <2>3. CASE sync' = "idle" /\ kernel' = kernel
      BY <2>1, <2>2, <2>3, PlainKeeps
    <2>4. CASE /\ kernel' = Exactly(TargetPeers(batch)) /\ sync' = "replace"
               /\ op' = op /\ batch' = batch
      <3>1. Valid(batch)
        BY <1>1 DEF SyncFull, Refused
      <3>2. Fair' /\ Working'
        BY <2>1, <2>4 DEF Fair, Working
      <3>3. Replacing'
        BY <2>4, <3>1 DEF Replacing, Valid, Desired
      <3>4. Ahead'
        BY <2>4 DEF Ahead, Exactly, TargetPeers, Desired
      <3> QED
        BY <2>1, <2>2, <2>4, <3>2, <3>3, <3>4, Steady
    <2> QED
      BY <1>1, <2>3, <2>4 DEF SyncFull, Return, ApplyPeersReplaceAll
  <1>2. CASE SyncReplace
    <2>1. /\ sync = "replace" /\ sync' = "idle" /\ enf = "idle" /\ peers' = TargetPeers(batch)
          /\ UNCHANGED <<kernel, running, kicked, removes, upserts, enf, actions, target>>
          /\ removes = {} /\ upserts = NoPeers
      BY <1>2 DEF SyncReplace, Return, limitVars, enfVars, Apart
    <2>2. KickTypes' /\ Apart' /\ Fair' /\ Replacing' /\ Working'
      BY <2>1 DEF KickTypes, Apart, Fair, Replacing, Working
    <2>3. OneKey' /\ Leaves' /\ Names' /\ \A k \in PubKey : Future(k)' = peers'[k]
      BY <2>1 DEF OneKey, Leaves, Names, Future, NoPeers
    <2>4. batch \in Batch /\ Valid(batch)
      BY <2>1 DEF Replacing, StoreInv
    <2>5. OneAddress'
      BY <2>1, <2>3, <2>4, TargetAddresses DEF OneAddress
    <2>6. running => kernel = Exactly(TargetPeers(batch))
      BY <2>1 DEF Ahead
    <2>7. running' => \A k \in PubKey : Fits(k, peers[k])'
      BY <2>1, <2>6 DEF Exactly, Fits
    <2>8. Ahead'
      BY <2>1, <2>3, <2>7 DEF Ahead
    <2> QED
      BY <2>2, <2>3, <2>5, <2>8
  <1> QED
    BY <1>1, <1>2

\* One removal of ApplyChanges: the store comes nearer to what it will be.
LEMMA RemoveKeeps ==
    ASSUME KernelInv, StoreInv', NEW k \in PubKey, StoreRemove(k)
    PROVE  KernelInv'
  <1> USE DEF KernelInv
  <1>1. /\ sync = "store" /\ k \in removes /\ removes' = removes \ {k}
        /\ peers' = [peers EXCEPT ![k] = None]
        /\ emailToKey' = IF peers[k] = None THEN emailToKey
                         ELSE [emailToKey EXCEPT ![peers[k].email] = None]
        /\ UNCHANGED <<kernel, running, kicked, sync, op, batch, upserts, enf, actions, target>>
    BY DEF StoreRemove, limitVars, enfVars
  <1>2. enf = "idle"
    BY <1>1 DEF Apart
  <1>3. KickTypes' /\ Apart' /\ Fair' /\ Replacing' /\ Working' /\ OneKey'
    BY <1>1, <1>2 DEF KickTypes, Apart, Fair, Replacing, Working, OneKey
  <1>4. \A j \in PubKey : peers'[j] = IF j = k THEN None ELSE peers[j]
    BY <1>1 DEF StoreInv
  <1>5. \A j \in PubKey : Future(j)' = Future(j)
    BY <1>1, <1>4 DEF Future
  <1>6. OneAddress'
    BY <1>5 DEF OneAddress
  <1>7. Names'
    BY <1>1, <1>4 DEF Names, Touched
  <1>8. Leaves'
    <2> SUFFICES ASSUME NEW j \in PubKey, upserts[j] # None
                 PROVE  LET l == emailToKey'[upserts[j].email]
                        IN  l \in {None, j} \/ upserts[l] # None \/ l \in removes'
      BY <1>1 DEF Leaves
    <2>1. upserts[j].email \in Email
      BY DEF StoreInv, PeerInfo
    <2>2. emailToKey'[upserts[j].email] \in {None, emailToKey[upserts[j].email]}
      BY <1>1, <2>1 DEF StoreInv
    <2>3. emailToKey[upserts[j].email] = k => emailToKey'[upserts[j].email] = None \/ k = None
      BY <1>1, <2>1 DEF StoreInv, OneToOne
    <2> QED
      BY <1>1, <2>2, <2>3 DEF Leaves
  <1>9. \A j \in PubKey : Fits(j, Future(j))' <=> Fits(j, Future(j))
    BY <1>1, <1>5 DEF Fits
  <1>10. Ahead'
    BY <1>1, <1>2, <1>9 DEF Ahead
  <1> QED
    BY <1>3, <1>6, <1>7, <1>8, <1>10

\* One upsert: the key the user leaves is one that another upsert will take.
LEMMA UpsertKeeps ==
    ASSUME KernelInv, StoreInv', NEW k \in PubKey, StoreUpsert(k)
    PROVE  KernelInv'
  <1> USE DEF KernelInv
  <1> DEFINE new == upserts[k]
             old == emailToKey[new.email]
  <1>1. /\ sync = "store" /\ removes = {} /\ new # None
        /\ upserts' = [upserts EXCEPT ![k] = None]
        /\ peers' = [j \in PubKey |-> IF j = k THEN new ELSE IF j = old THEN None ELSE peers[j]]
        /\ emailToKey' = [e \in Email |-> IF e = new.email THEN k
                            ELSE IF peers[k] # None /\ peers[k].email = e THEN None
                            ELSE emailToKey[e]]
        /\ UNCHANGED <<kernel, running, kicked, sync, op, batch, removes, enf, actions, target>>
    BY DEF StoreUpsert, limitVars, enfVars
  <1>2. new \in PeerInfo /\ new.email \in Email
    BY <1>1 DEF StoreInv, PeerInfo
  <1>3. enf = "idle"
    BY <1>1 DEF Apart
  <1>4. \A j \in PubKey : upserts'[j] = IF j = k THEN None ELSE upserts[j]
    BY <1>1 DEF StoreInv
  <1>5. KickTypes' /\ Apart' /\ Fair' /\ Replacing' /\ Working'
    BY <1>1, <1>3 DEF KickTypes, Apart, Fair, Replacing, Working
  <1>6. OneKey'
    BY <1>4 DEF OneKey
  <1>7. old \in {None, k} \/ upserts[old] # None
    BY <1>1 DEF Leaves
  <1>8. ASSUME NEW j \in PubKey PROVE Future(j)' = Future(j)
    <2>1. CASE j = k
      BY <1>1, <1>4, <2>1 DEF Future
    <2>2. CASE j # k /\ j = old
      <3>1. upserts[j] # None
        BY <1>7, <2>2, WireGuardAssumption DEF WireGuardAssumption
      <3> QED
        BY <1>4, <2>2, <3>1 DEF Future
    <2>3. CASE j # k /\ j # old
      BY <1>1, <1>4, <2>3 DEF Future
    <2> QED
      BY <2>1, <2>2, <2>3
  <1>9. OneAddress'
    BY <1>8 DEF OneAddress
  <1>10. Names'
    BY <1>1, <1>4 DEF Names, Touched
  <1>11. Leaves'
    <2> SUFFICES ASSUME NEW j \in PubKey, j # k, upserts[j] # None
                 PROVE  LET l == emailToKey'[upserts[j].email]
                        IN  l \in {None, j} \/ (l # k /\ upserts[l] # None)
      BY <1>1, <1>4 DEF Leaves, StoreInv
    <2>1. upserts[j].email \in Email /\ upserts[j].email # new.email
      BY <1>1 DEF StoreInv, PeerInfo, OneKey
    <2>2. emailToKey'[upserts[j].email] =
            IF peers[k] # None /\ peers[k].email = upserts[j].email THEN None
            ELSE emailToKey[upserts[j].email]
      BY <1>1, <2>1
    <2>3. emailToKey[upserts[j].email] = k => peers[k] # None /\ peers[k].email = upserts[j].email
      BY <2>1, WireGuardAssumption DEF StoreInv, OneToOne, WireGuardAssumption
    <2> QED
      BY <1>1, <2>2, <2>3 DEF Leaves
  <1>12. \A j \in PubKey : Fits(j, Future(j))' <=> Fits(j, Future(j))
    BY <1>1, <1>8 DEF Fits
  <1>13. Ahead'
    BY <1>1, <1>3, <1>12 DEF Ahead
  <1> QED
    BY <1>5, <1>6, <1>9, <1>10, <1>11, <1>13

-----------------------------------------------------------------------------
(* A partial list.                                                         *)

\* A list that is about to be compared with the store and will not be refused.
Comparing == sync = "diff" /\ op # "full" /\ ~Refused

\* The keys that count as existing are those the store has for users of the list.
LEMMA ExistingIs ==
    ASSUME KernelInv, Comparing, NEW k \in PubKey
    PROVE  /\ k \in Existing <=> peers[k] # None /\ peers[k].email \in Touched(batch)
           /\ TargetPeers(batch)[k] # None /\ peers[k] # None => k \in Existing
  <1>1. Existing = {emailToKey[e] : e \in Touched(batch)} \ {None}
    BY DEF Comparing, Existing
  <1>2. k # None /\ Touched(batch) \subseteq Email
    BY WireGuardAssumption DEF WireGuardAssumption, Touched
  <1>3. k \in Existing <=> peers[k] # None /\ peers[k].email \in Touched(batch)
    BY <1>1, <1>2 DEF KernelInv, StoreInv, OneToOne
  <1>4. ASSUME TargetPeers(batch)[k] # None, peers[k] # None PROVE k \in Existing
    <2> DEFINE e == TargetPeers(batch)[k].email
    <2>1. e \in Desired(batch) /\ batch[e].key = k
      BY <1>4, TargetIs DEF KernelInv, StoreInv
    <2>2. Desired(batch) \subseteq Touched(batch)
      BY DEF Desired, Touched
    <2>3. peers[k].email \in Touched(batch) \cup {e}
      BY <1>4, <2>1 DEF Comparing, Refused
    <2> QED
      BY <1>3, <1>4, <2>1, <2>2, <2>3
  <1> QED
    BY <1>3, <1>4

\* Nobody but its user has the address of a wanted peer.
LEMMA WantedAddresses ==
    ASSUME KernelInv, Comparing, NEW j \in PubKey, TargetPeers(batch)[j] # None,
           NEW k \in PubKey, k # j
    PROVE  /\ TargetPeers(batch)[k] # None => TargetPeers(batch)[j].ip # TargetPeers(batch)[k].ip
           /\ peers[k] # None /\ k \notin Existing => TargetPeers(batch)[j].ip # peers[k].ip
  <1>1. batch \in Batch /\ Valid(batch) /\ PanelAllocates(batch)
    BY DEF Comparing, Refused, KernelInv, StoreInv, Fair
  <1>2. TargetPeers(batch)[k] # None => TargetPeers(batch)[j].ip # TargetPeers(batch)[k].ip
    BY <1>1, TargetAddresses
  <1>3. peers[k] # None /\ k \notin Existing => TargetPeers(batch)[j].ip # peers[k].ip
    BY <1>1, TargetIs, ExistingIs DEF PanelAllocates
  <1> QED
    BY <1>2, <1>3

\* What a partial list makes of the store: the target for users it names, what was there
\* for others.
Result(k) == IF k \in Existing \/ TargetPeers(batch)[k] # None THEN TargetPeers(batch)[k] ELSE peers[k]

\* The call to the kernel leaves every key as the store will be.
LEMMA ConfigureFits ==
    ASSUME ~Resync, KernelInv, Comparing, running, NEW k \in PubKey,
           \/ kernel' = ApplyPeers(PeerConfigs, RemoveKeys)
           \/ kernel' = kernel /\ RemoveKeys = {} /\ PeerConfigs = NoPeers,
           kicked' = kicked
    PROVE  /\ \/ kernel'[k] = IF Result(k) = None THEN None ELSE {Result(k).ip}
              \/ Result(k) # None /\ kernel'[k] = None /\ kicked'[Result(k).email] # "no"
           /\ peers[k] # None /\ peers[k].email \notin Touched(batch) => kernel'[k] = kernel[k]
  <1> DEFINE T == TargetPeers(batch)
             moved == {PeerConfigs[j].ip : j \in {j \in PubKey : PeerConfigs[j] # None}}
             Kept == IF kernel[k] = None \/ (PeerConfigs[k] # None /\ PeerConfigs[k].replace)
                     THEN {} ELSE kernel[k] \ moved
  <1>0. enf = "idle" /\ batch \in Batch
    BY DEF KernelInv, Apart, Comparing, StoreInv
  <1>1. Fits(k, peers[k])
    BY <1>0, AllFit DEF Comparing
  <1>2. ASSUME NEW j \in PubKey
        PROVE  /\ PeerConfigs[j] # None <=>
                    j \in UpsertKeys /\ (j \in Existing => T[j].ip # peers[j].ip)
               /\ PeerConfigs[j] # None =>
                    /\ T[j] # None /\ PeerConfigs[j].ip = T[j].ip
                    /\ j \in Existing => PeerConfigs[j].replace
    <2> DEFINE told == j \in UpsertKeys /\ (j \in Existing => T[j].ip # peers[j].ip)
    <2>1. CASE told
      <3>1. PeerConfigs[j] = [ip |-> T[j].ip, replace |-> j \in Existing]
        BY <2>1 DEF PeerConfigs
      <3>2. T[j] # None
        BY <2>1 DEF UpsertKeys
      <3>3. T[j].ip \in IP
        BY <1>0, <3>2, TargetIs
      <3>4. PeerConfigs[j] \in [ip : IP, replace : BOOLEAN]
        BY <3>1, <3>3
      <3>5. PeerConfigs[j] # None
        BY <3>4, WireGuardAssumption DEF WireGuardAssumption
      <3>6. ASSUME j \in Existing PROVE PeerConfigs[j].replace
        <4>1. (j \in Existing) = TRUE
          BY <3>6
        <4>2. PeerConfigs[j] = [ip |-> T[j].ip, replace |-> TRUE]
          BY <3>1, <4>1, Zenon
        <4> QED
          BY <4>2
      <3> QED
        BY <2>1, <3>1, <3>2, <3>5, <3>6
    <2>2. CASE ~told
      BY <2>2 DEF PeerConfigs
    <2> QED
      BY <2>1, <2>2
  <1>3. \/ kernel' = kernel /\ RemoveKeys = {} /\ PeerConfigs = NoPeers
        \/ kernel'[k] = CASE k \in RemoveKeys -> None
                          [] k \notin RemoveKeys /\ PeerConfigs[k] # None ->
                               Kept \cup {PeerConfigs[k].ip}
                          [] k \notin RemoveKeys /\ PeerConfigs[k] = None /\ kernel[k] # None ->
                               Kept
                          [] OTHER -> None
    BY DEF ApplyPeers, Configure
  <1>4. k \in UpsertKeys <=> T[k] # None /\ (k \in Existing => T[k] # peers[k])
    BY DEF UpsertKeys
  <1>5. k \in RemoveKeys <=> k \in Existing /\ T[k] = None
    BY DEF RemoveKeys
  <1>6. PeerConfigs = NoPeers => PeerConfigs[k] = None
    BY DEF NoPeers
  <1>7. ASSUME NEW i \in moved PROVE \E j \in PubKey : PeerConfigs[j] # None /\ T[j] # None /\ i = T[j].ip
    BY <1>2
  <1>8. k \in Existing <=> peers[k] # None /\ peers[k].email \in Touched(batch)
    BY ExistingIs
  <1>9. k \in Existing => kicked[peers[k].email] = "no"
    BY <1>8 DEF KernelInv, Fair, Comparing, Touched, Listed
  <1> HIDE DEF T, moved
  <1>10. CASE k \in RemoveKeys
    BY <1>3, <1>5, <1>8, <1>10 DEF Result, T
  <1>11. CASE PeerConfigs[k] # None
    <2>1. T[k] # None /\ PeerConfigs[k].ip = T[k].ip
      BY <1>2, <1>11
    <2>2. k \notin RemoveKeys /\ Result(k) = T[k]
      BY <1>5, <2>1 DEF Result, T
    <2>3. kernel'[k] = Kept \cup {T[k].ip}
      BY <1>3, <1>6, <1>11, <2>1, <2>2
    <2>4. k \notin Existing => peers[k] = None
      BY <2>1, ExistingIs DEF T
    <2>5. k \notin Existing => kernel[k] = None
      BY <1>1, <2>4 DEF Fits
    <2>6. Kept = {}
      BY <1>2, <1>11, <2>5
    <2>7. peers[k] # None /\ peers[k].email \notin Touched(batch) => FALSE
      BY <1>8, <2>4
    <2> QED
      BY <2>1, <2>2, <2>3, <2>6, <2>7
  <1>12. CASE k \notin RemoveKeys /\ PeerConfigs[k] = None
    <2>1. T[k] # None => k \in Existing /\ T[k].ip = peers[k].ip /\ Result(k) = T[k] /\ peers[k] # None
      BY <1>2, <1>4, <1>8, <1>12 DEF Result, T
    <2>2. T[k] = None => k \notin Existing /\ Result(k) = peers[k]
      BY <1>5, <1>12 DEF Result, T
    <2>3. peers[k] # None => peers[k].ip \notin moved
      <3> SUFFICES ASSUME peers[k] # None, peers[k].ip \in moved PROVE FALSE
        OBVIOUS
      <3>1. PICK j \in PubKey : PeerConfigs[j] # None /\ T[j] # None /\ peers[k].ip = T[j].ip
        BY <1>7
      <3>2. j # k
        BY <1>12, <3>1
      <3> QED
        BY <2>1, <2>2, <3>1, <3>2, WantedAddresses DEF T
    <2>4. kernel'[k] = kernel[k]
      <3>1. kernel[k] = None => kernel'[k] = None
        BY <1>3, <1>12
      <3>2. kernel[k] # None => kernel[k] = {peers[k].ip} /\ peers[k] # None
        BY <1>1 DEF Fits
      <3>3. kernel[k] # None => kernel'[k] = kernel[k] \ moved \/ kernel'[k] = kernel[k]
        BY <1>3, <1>12
      <3> QED
        BY <2>3, <3>1, <3>2, <3>3
    <2>5. CASE T[k] # None
      BY <1>1, <1>9, <2>1, <2>4, <2>5 DEF Fits
    <2>6. CASE T[k] = None
      BY <1>1, <2>2, <2>4, <2>6 DEF Fits
    <2> QED
      BY <2>4, <2>5, <2>6
  <1> QED
    BY <1>10, <1>11, <1>12

\* A partial list reaches the kernel: the store is to become the result.
LEMMA PartialKeeps ==
    ASSUME ~Overlap, ~Resync, KernelInv, StoreInv', SyncPartial
    PROVE  KernelInv'
  <1> USE DEF KernelInv
  <1> DEFINE T == TargetPeers(batch)
  <1>1. /\ Comparing /\ sync = "diff" /\ enf = "idle"
        /\ UNCHANGED <<peers, emailToKey, running, kicked, enf, actions, target>>
    BY DEF SyncPartial, Comparing, storeVars, limitVars, enfVars, Apart
  <1>2. KickTypes'
    BY <1>1 DEF KickTypes
  <1>3. CASE sync' = "idle" /\ UNCHANGED <<kernel, removes, upserts>>
    BY <1>1, <1>2, <1>3, PlainKeeps
  <1>4. CASE /\ sync' = "store" /\ batch' = batch /\ op' = op
             /\ removes' = RemoveKeys
             /\ upserts' = [k \in PubKey |-> IF k \in UpsertKeys THEN T[k] ELSE None]
             /\ \/ running /\ kernel' = ApplyPeers(PeerConfigs, RemoveKeys)
                \/ kernel' = kernel /\ RemoveKeys = {} /\ PeerConfigs = NoPeers
    <2>1. batch \in Batch
      BY DEF StoreInv
    <2>2. ASSUME NEW k \in PubKey
          PROVE  /\ upserts'[k] # None <=> T[k] # None /\ (k \in Existing => T[k] # peers[k])
                 /\ upserts'[k] # None => upserts'[k] = T[k]
                 /\ k \in removes' <=> k \in Existing /\ T[k] = None
      BY <1>4 DEF UpsertKeys, RemoveKeys
    <2>3. \A k \in PubKey : Future(k)' = Result(k)
      BY <1>1, <1>4, <2>2 DEF Future, Result
    <2>4. KickTypes' /\ Apart' /\ Fair' /\ Replacing' /\ Working'
      BY <1>1, <1>2, <1>4 DEF Apart, Fair, Replacing, Working
    <2>5. OneKey'
      BY <2>1, <2>2, TargetByUser DEF OneKey
    <2>6. Leaves'
      <3> SUFFICES ASSUME NEW j \in PubKey, upserts'[j] # None
                   PROVE  LET l == emailToKey[upserts'[j].email]
                          IN  l \in {None, j} \/ upserts'[l] # None \/ l \in removes'
        BY <1>1 DEF Leaves
      <3> DEFINE e == T[j].email
                 l == emailToKey[e]
      <3>1. T[j] # None /\ upserts'[j] = T[j]
        BY <2>2
      <3>2. e \in Touched(batch) /\ e \in Email /\ batch[e].key = j
        BY <2>1, <3>1, TargetIs DEF Desired, Touched
      <3>3. ASSUME l # None, l # j PROVE upserts'[l] # None \/ l \in removes'
        <4>1. l \in PubKey /\ peers[l] # None /\ peers[l].email = e
          BY <3>2, <3>3 DEF StoreInv, OneToOne
        <4>2. l \in Existing
          BY <1>1, <3>2, <4>1, ExistingIs
        <4>3. T[l] # None => T[l].email # e
          BY <2>1, <3>2, <3>3, <4>1, TargetByUser
        <4> QED
          BY <2>2, <4>1, <4>2, <4>3
      <3> QED
        BY <3>1, <3>3
    <2>7. Names'
      <3>1. ASSUME NEW k \in PubKey, upserts'[k] # None
            PROVE  upserts'[k].email \in Touched(batch)
        BY <2>1, <2>2, <3>1, TargetIs DEF Desired, Touched
      <3>2. ASSUME NEW k \in PubKey, upserts'[k] # None \/ k \in removes', peers[k] # None
            PROVE  peers[k].email \in Touched(batch)
        BY <1>1, <2>2, <3>2, ExistingIs
      <3> QED
        BY <1>1, <1>4, <3>1, <3>2 DEF Names, Touched
    <2>8. OneAddress'
      <3>1. \A k \in PubKey : Future(k) = peers[k]
        BY <1>1, NothingPending DEF Apart
      <3>2. \A j, k \in PubKey :
              Result(j) # None /\ Result(k) # None /\ Result(j).ip = Result(k).ip => j = k
        <4> SUFFICES ASSUME NEW j \in PubKey, NEW k \in PubKey, j # k,
                            Result(j) # None, Result(k) # None
                     PROVE  Result(j).ip # Result(k).ip
          OBVIOUS
        <4>1. CASE T[j] # None
          BY <1>1, <4>1, WantedAddresses DEF Result
        <4>2. CASE T[k] # None
          BY <1>1, <4>2, WantedAddresses DEF Result
        <4>3. CASE T[j] = None /\ T[k] = None
          <5>1. Result(j) = peers[j] /\ Result(k) = peers[k]
            BY <4>3 DEF Result
          <5> QED
            BY <3>1, <5>1 DEF OneAddress
        <4> QED
          BY <4>1, <4>2, <4>3
      <3> QED
        BY <2>3, <3>2 DEF OneAddress
    <2>9. ASSUME NEW k \in PubKey, running PROVE Fits(k, Future(k))'
      <3>1. \/ kernel'[k] = IF Result(k) = None THEN None ELSE {Result(k).ip}
            \/ Result(k) # None /\ kernel'[k] = None /\ kicked'[Result(k).email] # "no"
        BY <1>1, <1>4, <2>9, ConfigureFits
      <3> QED
        BY <2>3, <3>1 DEF Fits
    <2>10. Ahead'
      BY <1>1, <1>4, <2>9 DEF Ahead
    <2> QED
      BY <2>4, <2>5, <2>6, <2>7, <2>8, <2>10
  <1> QED
    BY <1>1, <1>3, <1>4 DEF SyncPartial, Return

-----------------------------------------------------------------------------
\* The enforcer takes a stored peer out of the interface or puts it back, and nobody
\* else's with it, because no two peers have the same address.
LEMMA EnforceKernelKeeps ==
    ASSUME ~Overlap, KernelInv, StoreInv', EnforceKernel
    PROVE  KernelInv'
  <1> USE DEF KernelInv
  <1>1. /\ enf = "kernel" /\ sync = "idle" /\ target \in Target
        /\ UNCHANGED <<peers, emailToKey, running, kicked, sync, op, batch, removes, upserts>>
        /\ emailToKey[target.email] = target.key /\ peers[target.key].ip = target.ip
    BY DEF EnforceKernel, storeVars, limitVars, syncVars, Apart, Working
  <1>2. target.email \in Email /\ target.key \in PubKey
    BY <1>1 DEF Target
  <1>3. peers[target.key] # None /\ \A k \in PubKey : Future(k) = peers[k]
    BY <1>1, <1>2, NothingPending, WireGuardAssumption
       DEF Apart, StoreInv, OneToOne, WireGuardAssumption
  <1>4. \A k \in PubKey : Future(k)' = peers[k]
    BY <1>1, <1>3 DEF Future
  <1>5. KickTypes' /\ Fair' /\ Replacing'
    BY <1>1 DEF KickTypes, Fair, Replacing
  <1>6. running => \A k \in PubKey : Fits(k, peers[k])
    BY <1>1, AllFit
  <1>7. CASE enf' = "lookup" /\ kernel' = kernel
    <2>1. running' => \A k \in PubKey : Fits(k, Future(k))'
      BY <1>1, <1>4, <1>6, <1>7 DEF Fits
    <2> QED
      BY <1>1, <1>5, <1>7, <2>1, Steady DEF Ahead, Working
  <1>8. CASE /\ running /\ enf' = "record" /\ UNCHANGED <<actions, target>>
             /\ actions[target.email] = "kick" /\ kernel' = ApplyPeers(NoPeers, {target.key})
    <2>1. kernel'[target.key] = None
      BY <1>2, <1>8 DEF ApplyPeers, Configure
    <2>2. ASSUME NEW k \in PubKey, k # target.key PROVE kernel'[k] = kernel[k]
      <3>1. {NoPeers[j].ip : j \in {j \in PubKey : NoPeers[j] # None}} = {}
        BY DEF NoPeers
      <3>2. NoPeers[k] = None
        BY DEF NoPeers
      <3> QED
        BY <1>8, <2>2, <3>1, <3>2 DEF ApplyPeers, Configure
    <2>3. \A k \in PubKey \ {target.key} : Fits(k, Future(k))'
      BY <1>1, <1>4, <1>6, <1>8, <2>2 DEF Fits
    <2>4. Ahead' /\ Working'
      BY <1>1, <1>8, <2>1, <2>3 DEF Ahead, Working
    <2> QED
      BY <1>1, <1>5, <2>4, Steady
  <1>9. CASE /\ running /\ enf' = "record" /\ UNCHANGED <<actions, target>>
             /\ actions[target.email] # "kick"
             /\ kernel' = ApplyPeers([k \in PubKey |-> IF k = target.key
                             THEN [ip |-> target.ip, replace |-> FALSE] ELSE None], {})
    <2> DEFINE add == [k \in PubKey |-> IF k = target.key
                          THEN [ip |-> target.ip, replace |-> FALSE] ELSE None]
               moved == {add[j].ip : j \in {j \in PubKey : add[j] # None}}
    <2>1. [ip |-> target.ip, replace |-> FALSE] # None
      BY <1>1, WireGuardAssumption DEF WireGuardAssumption, Target
    <2>2. /\ add[target.key] # None /\ add[target.key].ip = target.ip
          /\ ~add[target.key].replace
          /\ \A k \in PubKey \ {target.key} : add[k] = None
      BY <1>2, <2>1
    <2>3. moved = {target.ip}
      BY <1>2, <2>2
    <2> HIDE DEF add
    <2>4. ASSUME NEW k \in PubKey
          PROVE  /\ k = target.key /\ kernel[k] = None => kernel'[k] = {target.ip}
                 /\ k = target.key /\ kernel[k] # None => kernel'[k] = (kernel[k] \ {target.ip}) \cup {target.ip}
                 /\ k # target.key /\ kernel[k] = None => kernel'[k] = None
                 /\ k # target.key /\ kernel[k] # None => kernel'[k] = kernel[k] \ {target.ip}
      <3>1. kernel' = ApplyPeers(add, {})
        BY <1>9 DEF add
      <3>2. kernel' = Configure(kernel, add, {})
        BY <3>1 DEF ApplyPeers
      <3> QED
        BY <2>2, <2>3, <3>2 DEF Configure
    <2>5. kernel'[target.key] = {target.ip}
      BY <1>1, <1>2, <1>3, <1>6, <1>9, <2>4 DEF Fits
    <2>6. ASSUME NEW k \in PubKey, k # target.key PROVE kernel'[k] = kernel[k]
      <3>1. peers[k] # None => peers[k].ip # target.ip
        BY <1>1, <1>2, <1>3, <2>6 DEF OneAddress
      <3>2. kernel[k] # None => peers[k] # None /\ kernel[k] = {peers[k].ip}
        BY <1>6, <1>9 DEF Fits
      <3> QED
        BY <2>4, <2>6, <3>1, <3>2
    <2>7. \A k \in PubKey \ {target.key} : Fits(k, Future(k))'
      BY <1>1, <1>4, <1>6, <1>9, <2>6 DEF Fits
    <2>8. Ahead' /\ Working'
      BY <1>1, <1>9, <2>5, <2>7 DEF Ahead, Working
    <2> QED
      BY <1>1, <1>5, <2>8, Steady
  <1> QED
    BY <1>7, <1>8, <1>9 DEF EnforceKernel

\* The other steps of the enforcer.  Nobody but its user has the key it took out or
\* put back, so what it records explains what the interface has.
LEMMA EnforceKeeps ==
    ASSUME ~Overlap, KernelInv, StoreInv', EnforceStep
    PROVE  KernelInv'
  <1> USE DEF KernelInv
  <1>1. CASE EnforceKernel
    BY <1>1, EnforceKernelKeeps
  <1>2. CASE EnforceDecide \/ EnforceDone \/ \E e \in Email : EnforceLookup(e)
    <2>1. /\ UNCHANGED <<peers, emailToKey, kernel, running, kicked>>
          /\ UNCHANGED <<sync, op, batch, removes, upserts>>
          /\ enf \notin {"kernel", "record"} /\ enf' # "record"
          /\ sync = "idle"
          /\ enf' = "kernel" => \E e \in Email :
               /\ emailToKey[e] # None
               /\ target' = [email |-> e, key |-> emailToKey[e], ip |-> peers[emailToKey[e]].ip]
      BY <1>2 DEF EnforceDecide, EnforceDone, EnforceLookup, storeVars, limitVars, syncVars, Apart
    <2>2. KickTypes' /\ Fair' /\ Replacing'
      BY <2>1 DEF KickTypes, Fair, Replacing
    <2>3. Ahead'
      <3>1. \A k \in PubKey : Future(k)' = Future(k)
        BY <2>1 DEF Future
      <3>2. \A k \in PubKey : Fits(k, Future(k))' <=> Fits(k, Future(k))
        BY <2>1, <3>1 DEF Fits
      <3> QED
        BY <2>1, <3>2 DEF Ahead
    <2>4. Working'
      <3> SUFFICES ASSUME enf' = "kernel" PROVE Working'
        BY <2>1 DEF Working
      <3>1. PICK e \in Email :
               /\ emailToKey[e] # None
               /\ target' = [email |-> e, key |-> emailToKey[e], ip |-> peers[emailToKey[e]].ip]
        BY <2>1
      <3>2. emailToKey[e] \in PubKey /\ peers[emailToKey[e]].ip \in IP
        BY <3>1 DEF StoreInv, OneToOne, PeerInfo
      <3> QED
        BY <2>1, <3>1, <3>2 DEF Working, Target
    <2> QED
      BY <2>1, <2>2, <2>3, <2>4, Steady
  <1>3. CASE EnforceRecord
    <2> DEFINE e == target.email
    <2>1. /\ enf = "record" /\ enf' = "lookup" /\ sync = "idle"
          /\ UNCHANGED <<peers, emailToKey, kernel, running>>
          /\ UNCHANGED <<sync, op, batch, removes, upserts>>
          /\ kicked' = [kicked EXCEPT ![e] = IF actions[e] = "kick" THEN "cooling" ELSE "no"]
      BY <1>3 DEF EnforceRecord, storeVars, syncVars, Apart
    <2>2. target.email \in Email /\ target.key \in PubKey /\ target.ip \in IP
      BY <2>1 DEF Working, Target
    <2>3. emailToKey[e] = target.key /\ peers[target.key].ip = target.ip
      BY <2>1 DEF Working
    <2>4. KickTypes' /\ Fair' /\ Replacing' /\ Working'
      BY <2>1, <2>2 DEF KickTypes, Fair, Replacing, Working
    <2>5. peers[target.key] # None /\ peers[target.key].email = e
      BY <2>2, <2>3, WireGuardAssumption DEF StoreInv, OneToOne, WireGuardAssumption
    <2>6. \A k \in PubKey : Future(k) = peers[k] /\ Future(k)' = peers[k]
      BY <2>1, NothingPending DEF Apart, Future, NoPeers
    <2>7. ASSUME running, NEW k \in PubKey PROVE Fits(k, peers[k])'
      <3>1. CASE k = target.key
        <4>1. kernel[k] = IF actions[e] = "kick" THEN None ELSE {target.ip}
          BY <2>1, <2>7, <3>1 DEF Working
        <4>2. kicked'[e] = IF actions[e] = "kick" THEN "cooling" ELSE "no"
          BY <2>1, <2>2 DEF KickTypes
        <4> QED
          BY <2>1, <2>3, <2>5, <3>1, <4>1, <4>2 DEF Fits
      <3>2. CASE k # target.key
        <4>1. Fits(k, peers[k])
          BY <2>1, <2>6, <2>7, <3>2 DEF Ahead
        <4>2. peers[k] # None => peers[k].email # e
          BY <2>3, <3>2 DEF StoreInv, OneToOne
        <4>3. peers[k] # None => kicked'[peers[k].email] = kicked[peers[k].email]
          BY <2>1, <4>2 DEF KickTypes, StoreInv, PeerInfo
        <4> QED
          BY <2>1, <4>1, <4>3 DEF Fits
      <3> QED
        BY <3>1, <3>2
    <2>8. Ahead'
      BY <2>1, <2>6, <2>7 DEF Ahead
    <2> QED
      BY <2>1, <2>4, <2>8, Steady
  <1> QED
    BY <1>1, <1>2, <1>3 DEF EnforceStep

\* Requests, cooldowns and the shutdown.
LEMMA OtherKeeps ==
    ASSUME ~Overlap, KernelInv, StoreInv',
           \/ SyncRefuse \/ SyncStored \/ RestartBegin \/ RestartApply \/ Shutdown
           \/ \E e \in Email : Cool(e)
           \/ UNCHANGED vars
    PROVE  KernelInv'
  <1> USE DEF KernelInv
  <1>1. CASE \E e \in Email : Cool(e)
    <2>1. PICK e \in Email : Cool(e)
      BY <1>1
    <2>2. kicked' \in [Email -> {"no", "cooling", "cooled"}]
          /\ \A f \in Email : kicked'[f] = "no" <=> kicked[f] = "no"
      BY <2>1 DEF Cool, KickTypes
    <2> QED
      BY <2>1, <2>2, PlainKeeps DEF Cool, KickTypes, storeVars, syncVars, enfVars
  <1>2. CASE kicked' = kicked
    <2>1. KickTypes' /\ \A e \in Email : kicked'[e] = "no" <=> kicked[e] = "no"
      BY <1>2 DEF KickTypes
    <2>2. CASE SyncRefuse
      BY <2>1, <2>2, PlainKeeps DEF SyncRefuse, Return, storeVars, enfVars
    <2>3. CASE SyncStored
      BY <2>1, <2>3, PlainKeeps DEF SyncStored, Return, storeVars, enfVars
    <2>4. CASE RestartBegin
      BY <2>1, <2>4, PlainKeeps DEF RestartBegin, storeVars, enfVars
    <2>5. CASE RestartApply
      BY <2>1, <2>5, PlainKeeps DEF RestartApply, ApplyConfig, Return, storeVars, enfVars
    <2>6. CASE Shutdown
      BY <2>1, <2>6, PlainKeeps DEF Shutdown, storeVars, syncVars, enfVars
    <2>7. CASE UNCHANGED vars
      BY <2>1, <2>7, PlainKeeps DEF vars, storeVars, syncVars, enfVars
    <2> QED
      BY <1>1, <2>2, <2>3, <2>4, <2>5, <2>6, <2>7
  <1>3. SyncRefuse \/ SyncStored \/ RestartBegin \/ RestartApply \/ Shutdown \/ UNCHANGED vars
          => kicked' = kicked
    BY DEF SyncRefuse, SyncStored, RestartBegin, RestartApply, Shutdown, vars, limitVars
  <1> QED
    BY <1>1, <1>2, <1>3

\* Every step keeps the kernel ahead of the store.
LEMMA KernelNext ==
    ASSUME ~Overlap, ~Resync, KernelInv, [Next]_vars
    PROVE  KernelInv'
  <1>1. StoreInv
    BY DEF KernelInv
  <1>2. StoreInv'
    <2>1. CASE UNCHANGED vars
      BY <1>1, <2>1 DEF vars, storeVars, syncVars, StoreInv, OneToOne
    <2> QED
      BY <1>1, <2>1, StoreSync, StoreOther DEF Next
  <1>3. CASE \E o \in Op, b \in Batch : SyncBegin(o, b)
    BY <1>2, <1>3, BeginKeeps
  <1>4. CASE SyncStep
    BY <1>2, <1>4, FullKeeps, PartialKeeps, RemoveKeeps, UpsertKeeps, OtherKeeps DEF SyncStep
  <1>5. CASE EnforceStep
    BY <1>2, <1>5, EnforceKeeps
  <1>6. CASE RestartBegin \/ Shutdown \/ (\E e \in Email : Cool(e)) \/ UNCHANGED vars
    BY <1>2, <1>6, OtherKeeps
  <1> QED
    BY <1>3, <1>4, <1>5, <1>6 DEF Next

\* "the store must only contain peers that were actually committed to the kernel", and
\* the other way round: where an enforcement pass never overlaps a sync and no partial
\* list names a kicked user, the interface has between requests exactly the stored
\* peers, but for those of users the enforcer has to re-admit, for any users, keys and
\* addresses, however they are exchanged and whichever kernel calls fail.
THEOREM KernelFollowsStore == ~Overlap /\ ~Resync => (Spec => []KernelMatchesStore)
  <1> SUFFICES ASSUME ~Overlap, ~Resync PROVE Spec => []KernelMatchesStore
    OBVIOUS
  <1>1. KernelInv /\ [Next]_vars => KernelInv'
    BY KernelNext
  <1>2. KernelInv => KernelMatchesStore
    BY AllFit DEF KernelMatchesStore, AtRest, Fits, Exactly
  <1> QED
    BY KernelInit, <1>1, <1>2, PTL DEF Spec

\* One user's part of UntouchedKeepTheirPeer.
Undisturbed(e) ==
    LET k == emailToKey[e]
    IN  op \in {"partial", "partialRestart"} /\ sync \in {"diff", "store"}
          /\ e \notin Touched(batch) /\ k # None /\ UNCHANGED <<running, enf>>
        => /\ emailToKey'[e] = k /\ peers'[k] = peers[k]
           /\ kernel'[k] = kernel[k]

\* No step of a partial list disturbs a user that the list does not name.
LEMMA NobodyElse ==
    ASSUME ~Overlap, ~Resync, KernelInv, [Next]_vars, NEW e \in Email
    PROVE  Undisturbed(e)
  <1> DEFINE k == emailToKey[e]
  <1> SUFFICES ASSUME op \in {"partial", "partialRestart"}, sync \in {"diff", "store"},
                      e \notin Touched(batch), k # None, UNCHANGED <<running, enf>>
               PROVE  emailToKey'[e] = k /\ peers'[k] = peers[k] /\ kernel'[k] = kernel[k]
    BY DEF Undisturbed
  <1> USE DEF KernelInv
  <1>1. k \in PubKey /\ peers[k] # None /\ peers[k].email = e
    BY DEF StoreInv, OneToOne
  <1>2. enf = "idle" /\ (sync = "diff" => removes = {} /\ upserts = NoPeers)
    BY DEF Apart
  <1>3. upserts[k] = None /\ k \notin removes
        /\ \A j \in PubKey : upserts[j] # None => upserts[j].email # e
    BY <1>1 DEF Names
  <1>4. CASE SyncPartial
    <2>1. UNCHANGED <<peers, emailToKey, kicked>> /\ Comparing
      BY <1>4 DEF SyncPartial, Comparing, storeVars, limitVars
    <2>2. \/ kernel' = kernel
          \/ running /\ kernel' = ApplyPeers(PeerConfigs, RemoveKeys)
      BY <1>4 DEF SyncPartial
    <2> QED
      BY <1>1, <2>1, <2>2, ConfigureFits
  <1>5. ASSUME NEW j \in PubKey, StoreRemove(j)
        PROVE  emailToKey'[e] = k /\ peers'[k] = peers[k] /\ kernel'[k] = kernel[k]
    <2>1. j # k /\ (peers[j] # None => peers[j].email # e)
      BY <1>1, <1>3, <1>5 DEF StoreRemove, StoreInv, OneToOne
    <2> QED
      BY <1>1, <1>5, <2>1 DEF StoreRemove, StoreInv
  <1>6. ASSUME NEW j \in PubKey, StoreUpsert(j)
        PROVE  emailToKey'[e] = k /\ peers'[k] = peers[k] /\ kernel'[k] = kernel[k]
    <2>1. upserts[j] # None /\ upserts[j] \in PeerInfo /\ j # k /\ upserts[j].email # e
      BY <1>3, <1>6 DEF StoreUpsert, StoreInv
    <2>2. emailToKey[upserts[j].email] # k
      BY <1>1, <2>1 DEF StoreInv, OneToOne, PeerInfo
    <2>3. peers[j] # None => peers[j].email # e
      BY <2>1 DEF StoreInv, OneToOne
    <2>4. peers'[k] = peers[k]
      BY <1>1, <1>6, <2>1, <2>2 DEF StoreUpsert
    <2>5. emailToKey'[e] = emailToKey[e]
      BY <1>6, <2>1, <2>3 DEF StoreUpsert
    <2> QED
      BY <1>6, <2>4, <2>5 DEF StoreUpsert
  <1>7. CASE UNCHANGED <<peers, emailToKey, kernel>>
    BY <1>7
  <1>8. SyncRefuse \/ SyncStored \/ (\E f \in Email : Cool(f)) \/ UNCHANGED vars
          => UNCHANGED <<peers, emailToKey, kernel>>
    BY DEF SyncRefuse, SyncStored, Cool, vars, storeVars
  <1>9. ~ (\/ \E o \in Op, b \in Batch : SyncBegin(o, b)
           \/ RestartBegin \/ Shutdown \/ SyncFull \/ SyncReplace \/ RestartApply \/ EnforceStep)
    BY <1>2 DEF SyncBegin, RestartBegin, Shutdown, SyncFull, SyncReplace, RestartApply,
                EnforceStep, EnforceDecide, EnforceLookup, EnforceKernel, EnforceRecord, EnforceDone
  <1> QED
    BY <1>4, <1>5, <1>6, <1>7, <1>8, <1>9 DEF Next, SyncStep

\* A partial list leaves everybody it does not name alone, in the store, in the kernel and
\* in its routing of addresses, at every step of the request: syncUsersPartialReconcile and
\* ApplyChanges, under the same conditions.
THEOREM OthersKeepTheirPeer == ~Overlap /\ ~Resync => (Spec => UntouchedKeepTheirPeer)
  <1> SUFFICES ASSUME ~Overlap, ~Resync PROVE Spec => UntouchedKeepTheirPeer
    OBVIOUS
  <1>1. KernelInv /\ [Next]_vars => KernelInv'
    BY KernelNext
  <1>2. KernelInv /\ [Next]_vars => \A e \in Email : Undisturbed(e)
    BY NobodyElse
  <1>3. UntouchedKeepTheirPeer <=> [][\A e \in Email : Undisturbed(e)]_vars
    BY DEF UntouchedKeepTheirPeer, Undisturbed
  <1> QED
    BY KernelInit, <1>1, <1>2, <1>3, PTL DEF Spec

-----------------------------------------------------------------------------
(***************************************************************************)
(* The interface counters behind the core: nobody is charged for more than *)
(* he carried, a user whose peer was added once is charged exactly, and    *)
(* nothing pending is lost before a pull, for any keys, counters and       *)
(* number of additions.                                                    *)
(***************************************************************************)

Types ==
    /\ device \in [Key -> {NoEntry} \cup Counter]
    /\ added \in [Key -> Nat]
    /\ entry \in [Key -> {NoEntry} \cup Entry]
    /\ polled # NoEntry => polled \in [Key -> {NoEntry} \cup Counter]
    /\ billed \in [Key -> [Dir -> Int]] /\ carried \in [Key -> [Dir -> Int]]

Polled(k) == polled # NoEntry /\ polled[k] # NoEntry

\* What a removal puts aside is what is pending, and only a removed peer has it.
LastOf(e) == \A d \in Dir : e.last[d] = IF e.deleted THEN e.cur[d] - e.base[d] ELSE 0
Aside(k) == entry[k] # NoEntry => LastOf(entry[k])

\* A sample is of the peer the device has.
Current(k) == Polled(k) =>
    device[k] # NoEntry /\ \A d \in Dir : polled[k][d] <= device[k][d]

\* Reported and pending together.
Paid(k, d) == billed[k][d] + Pending(entry[k])[d]
Covered(k) == \A d \in Dir : Paid(k, d) <= carried[k][d]

\* No poll has seen the peer since it was added: nothing of its counter is paid.
Fresh(k) == \A d \in Dir : Paid(k, d) + device[k][d] <= carried[k][d]

\* A poll has: the counter is paid up to the last sample.
Seen(k) ==
    /\ entry[k] # NoEntry /\ ~entry[k].deleted
    /\ \A d \in Dir :
        /\ entry[k].cur[d] <= device[k][d]
        /\ Polled(k) => entry[k].cur[d] <= polled[k][d]
        /\ Paid(k, d) - entry[k].cur[d] + device[k][d] <= carried[k][d]

Attributed(k) == device[k] # NoEntry => Fresh(k) \/ Seen(k)

\* A peer that was added at most once: not yet, not seen by a poll, seen by one.
OnceNew(k) == added[k] = 0 =>
    device[k] = NoEntry /\ entry[k] = NoEntry /\ \A d \in Dir : billed[k][d] = 0
OnceUnseen(k) == added[k] = 1 /\ device[k] # NoEntry /\ entry[k] = NoEntry =>
    \A d \in Dir : billed[k][d] = 0
OnceSeen(k) == added[k] = 1 /\ entry[k] # NoEntry =>
    /\ \A d \in Dir : Paid(k, d) = entry[k].cur[d]
    /\ device[k] # NoEntry =>
        /\ ~entry[k].deleted
        /\ \A d \in Dir : /\ entry[k].cur[d] <= device[k][d]
                          /\ Polled(k) => entry[k].cur[d] <= polled[k][d]
Once(k) == OnceNew(k) /\ OnceUnseen(k) /\ OnceSeen(k)

Settled(k) == Aside(k) /\ Current(k) /\ Covered(k) /\ Attributed(k) /\ Once(k)

IInv == Types /\ \A k \in Key : Settled(k)

-----------------------------------------------------------------------------
\* What is pending is the growth since the base, in each direction.
LEMMA PendingIs ==
    ASSUME NEW e \in {NoEntry} \cup Entry, NEW d \in Dir
    PROVE  /\ Pending(e)[d] = IF e = NoEntry THEN 0 ELSE e.cur[d] - e.base[d]
           /\ Pending(e)[d] \in Int
           /\ e # NoEntry => e \in Entry /\ e.cur[d] \in Nat /\ e.base[d] \in Int /\ e.last[d] \in Int
<1>1. CASE e = NoEntry BY <1>1 DEF Pending, Zero
<1>2. CASE e # NoEntry
  <2>1. e \in Entry BY <1>2
  <2>2. e.cur[d] \in Nat /\ e.base[d] \in Int /\ e.last[d] \in Int
    BY <2>1, StatsTrackerAssumption DEF Entry, Counter
  <2> QED BY <1>2, <2>1, <2>2 DEF Pending, Minus
<1> QED BY <1>1, <1>2

\* What applySample makes of an entry and a sample: it keeps what is pending, or adds
\* the growth of both counters.
SampleOf(e, s, r) ==
    /\ r \in Entry /\ r # NoEntry
    /\ r.cur = s /\ r.deleted = FALSE /\ LastOf(r)
    /\ \/ e # NoEntry /\ \A d \in Dir : Pending(r)[d] = Pending(e)[d]
       \/ e = NoEntry /\ \A d \in Dir : Pending(r)[d] = s[d]
       \/ e # NoEntry /\ \A d \in Dir : /\ e.cur[d] <= s[d]
                                        /\ Pending(r)[d] = Pending(e)[d] + s[d] - e.cur[d]
    /\ e # NoEntry /\ ~e.deleted /\ (\A d \in Dir : e.cur[d] <= s[d]) =>
           \A d \in Dir : Pending(r)[d] = Pending(e)[d] + s[d] - e.cur[d]

\* A re-added or restarted peer keeps its pending traffic; any other sample extends it.
LEMMA Sampled ==
    ASSUME NEW e \in {NoEntry} \cup Entry, NEW s \in Counter, e # NoEntry => LastOf(e)
    PROVE  SampleOf(e, s, applySample(e, s))
<1> DEFINE old == IF e = NoEntry THEN New ELSE e
           readded == \E d \in Dir : old.last[d] # 0
           rolled == ~readded /\ \E d \in Dir : s[d] < old.cur[d]
           base == CASE readded -> Minus(s, old.last)
                     [] rolled -> Minus(s, Pending(old))
                     [] OTHER -> old.base
           r == [cur |-> s, base |-> base, last |-> Zero, deleted |-> FALSE]
<1>0. applySample(e, s) = r BY DEF applySample
<1>1. New \in Entry BY StatsTrackerAssumption DEF New, Entry, Counter, Zero
<1>2. old \in Entry BY <1>1
<1>3. \A d \in Dir : /\ s[d] \in Nat /\ old.cur[d] \in Nat /\ old.base[d] \in Int
                     /\ old.last[d] \in Int
  BY <1>2, StatsTrackerAssumption DEF Entry, Counter
<1>4. old # NoEntry BY <1>2, StatsTrackerAssumption
<1>5. Pending(old) = [d \in Dir |-> old.cur[d] - old.base[d]] BY <1>4 DEF Pending, Minus
<1>6. LastOf(old) BY DEF LastOf, New, Zero
<1>7. /\ readded => base = [d \in Dir |-> s[d] - old.last[d]]
      /\ rolled => base = [d \in Dir |-> s[d] - (old.cur[d] - old.base[d])]
      /\ ~readded /\ ~rolled => base = old.base
  <2>1. CASE readded BY <2>1 DEF Minus
  <2>2. CASE rolled BY <2>2, <1>5 DEF Minus
  <2>3. CASE ~readded /\ ~rolled BY <2>3
  <2> QED BY <2>1, <2>2, <2>3
<1> HIDE DEF base
<1>8. base \in [Dir -> Int]
  <2>1. CASE readded BY <2>1, <1>7, <1>3
  <2>2. CASE rolled BY <2>2, <1>7, <1>3
  <2>3. CASE ~readded /\ ~rolled BY <2>3, <1>7, <1>2 DEF Entry
  <2> QED BY <2>1, <2>2, <2>3
<1>9. r \in Entry BY <1>8 DEF Entry, Zero
<1>10. r # NoEntry BY <1>9, StatsTrackerAssumption
<1>11. \A d \in Dir : Pending(r)[d] = s[d] - base[d] BY <1>10 DEF Pending, Minus
<1>12. r.cur = s /\ r.deleted = FALSE /\ LastOf(r) BY DEF LastOf, Zero
<1>13. (e = NoEntry => old = New) /\ (e # NoEntry => old = e) OBVIOUS
<1>14. \A d \in Dir : base[d] \in Int BY <1>8
<1> HIDE DEF old, r
<1>15. /\ readded => \A d \in Dir : Pending(r)[d] = old.cur[d] - old.base[d]
       /\ rolled => \A d \in Dir : Pending(r)[d] = old.cur[d] - old.base[d]
       /\ ~readded /\ ~rolled =>
            \A d \in Dir : old.cur[d] <= s[d] /\ Pending(r)[d] = s[d] - old.base[d]
  <2>1. readded => old.deleted BY <1>6 DEF LastOf
  <2>2. CASE readded
    <3> SUFFICES ASSUME NEW d \in Dir PROVE Pending(r)[d] = old.cur[d] - old.base[d] BY <2>2
    <3>1. base[d] = s[d] - old.last[d] BY <2>2, <1>7
    <3>2. old.last[d] = old.cur[d] - old.base[d] BY <2>1, <2>2, <1>6 DEF LastOf
    <3> QED BY <3>1, <3>2, <1>3, <1>11, <1>14
  <2>3. CASE rolled
    <3> SUFFICES ASSUME NEW d \in Dir PROVE Pending(r)[d] = old.cur[d] - old.base[d] BY <2>3
    <3>1. base[d] = s[d] - (old.cur[d] - old.base[d]) BY <2>3, <1>7
    <3> QED BY <3>1, <1>3, <1>11, <1>14
  <2>4. CASE ~readded /\ ~rolled
    <3>1. \A d \in Dir : old.cur[d] <= s[d] BY <2>4, <1>3
    <3>2. \A d \in Dir : Pending(r)[d] = s[d] - old.base[d] BY <2>4, <1>7, <1>11
    <3> QED BY <2>4, <3>1, <3>2
  <2> QED BY <2>2, <2>3, <2>4
<1>16. CASE e = NoEntry
  <2>1. old = New BY <1>16, <1>13
  <2>2. \A d \in Dir : old.cur[d] = 0 /\ old.base[d] = 0 /\ old.last[d] = 0 BY <2>1 DEF New, Zero
  <2>3. ~readded /\ ~rolled BY <2>2, <1>3
  <2>4. \A d \in Dir : Pending(r)[d] = s[d] BY <2>3, <2>2, <1>15, <1>3
  <2> QED BY <1>0, <1>9, <1>10, <1>12, <1>16, <2>4 DEF SampleOf
<1>17. CASE e # NoEntry
  <2>1. old = e BY <1>17, <1>13
  <2>2. \A d \in Dir : Pending(e)[d] = e.cur[d] - e.base[d] BY <2>1, <1>5
  <2>3. \/ \A d \in Dir : Pending(r)[d] = Pending(e)[d]
        \/ \A d \in Dir : /\ e.cur[d] <= s[d]
                          /\ Pending(r)[d] = Pending(e)[d] + s[d] - e.cur[d]
    BY <2>1, <2>2, <1>3, <1>15
  <2>4. ASSUME ~e.deleted, \A d \in Dir : e.cur[d] <= s[d]
        PROVE  \A d \in Dir : Pending(r)[d] = Pending(e)[d] + s[d] - e.cur[d]
    <3>1. ~readded BY <2>1, <2>4, <1>6 DEF LastOf
    <3>2. ~rolled BY <2>1, <2>4, <1>3
    <3> QED BY <2>1, <2>2, <3>1, <3>2, <1>3, <1>15
  <2> QED BY <1>0, <1>9, <1>10, <1>12, <1>17, <2>3, <2>4 DEF SampleOf
<1> QED BY <1>16, <1>17

\* The values of a state are numbers.
LEMMA Numbers ==
    ASSUME Types, NEW k \in Key, NEW d \in Dir
    PROVE  /\ entry[k] \in {NoEntry} \cup Entry
           /\ billed[k][d] \in Int /\ carried[k][d] \in Int
           /\ Pending(entry[k])[d] \in Int /\ Paid(k, d) = billed[k][d] + Pending(entry[k])[d]
           /\ device[k] # NoEntry => device[k] \in Counter /\ device[k][d] \in Nat
           /\ Polled(k) => polled[k] \in Counter /\ polled[k][d] \in Nat
           /\ entry[k] # NoEntry => entry[k] \in Entry /\ entry[k].cur[d] \in Nat
<1>1. entry[k] \in {NoEntry} \cup Entry BY DEF Types
<1>2. billed[k][d] \in Int /\ carried[k][d] \in Int BY DEF Types
<1>3. /\ device[k] # NoEntry => device[k] \in Counter
      /\ Polled(k) => polled[k] \in Counter
  BY DEF Types, Polled
<1>4. \A s \in Counter : s[d] \in Nat BY StatsTrackerAssumption DEF Counter
<1> QED BY <1>1, <1>2, <1>3, <1>4, PendingIs DEF Paid

\* What is true of a key stays true while nothing of it changes.
LEMMA Untouched ==
    ASSUME NEW k \in Key, Settled(k),
           device'[k] = device[k], added'[k] = added[k], entry'[k] = entry[k],
           billed'[k] = billed[k], carried'[k] = carried[k],
           Polled(k)' => Polled(k) /\ polled'[k] = polled[k]
    PROVE  Settled(k)'
<1>1. Aside(k)' BY DEF Settled, Aside, LastOf
<1>2. Current(k)' BY DEF Settled, Current
<1>3. \A d \in Dir : Paid(k, d)' = Paid(k, d) BY DEF Paid
<1>4. Covered(k)' BY <1>3 DEF Settled, Covered
<1>5. Fresh(k) => Fresh(k)' BY <1>3 DEF Fresh
<1>6. Seen(k) => Seen(k)' BY <1>3 DEF Seen
<1>7. Attributed(k)' BY <1>5, <1>6 DEF Settled, Attributed
<1>8. Once(k)' BY <1>3 DEF Settled, Once, OnceNew, OnceUnseen, OnceSeen
<1> QED BY <1>1, <1>2, <1>4, <1>7, <1>8 DEF Settled

\* Nothing has been carried, polled or charged at the start.
LEMMA InitInv == StatsInit => IInv
<1> SUFFICES ASSUME StatsInit PROVE IInv OBVIOUS
<1>1. Types BY DEF StatsInit, Types, Zero
<1>2. ASSUME NEW k \in Key PROVE Settled(k)
  <2>1. device[k] = NoEntry /\ entry[k] = NoEntry /\ added[k] = 0 /\ ~Polled(k) BY DEF StatsInit, Polled
  <2>2. \A d \in Dir : billed[k][d] = 0 /\ carried[k][d] = 0 BY DEF StatsInit, Zero
  <2>3. \A d \in Dir : Paid(k, d) = 0 BY <2>1, <2>2 DEF Paid, Pending, Zero
  <2> QED BY <2>1, <2>2, <2>3
      DEF Settled, Aside, Current, Covered, Attributed, Once, OnceNew, OnceUnseen, OnceSeen
<1> QED BY <1>1, <1>2 DEF IInv

-----------------------------------------------------------------------------
\* The device: a peer that is added starts from zero, and has not been seen.
LEMMA AddPeerInv ==
    ASSUME IInv, NEW j \in Key, AddPeer(j)
    PROVE  IInv'
<1>0. Zero \in Counter /\ Zero # NoEntry BY StatsTrackerAssumption DEF Zero, Counter
<1>1. Types' BY <1>0 DEF IInv, Types, AddPeer
<1>2. ASSUME NEW k \in Key PROVE Settled(k)'
  <2>0. Settled(k) /\ Types BY DEF IInv
  <2>1. CASE k # j BY <2>0, <2>1, Untouched DEF AddPeer, Polled, Types
  <2>2. CASE k = j
    <3>1. device[k] = NoEntry /\ device'[k] = Zero BY <2>0, <2>2 DEF AddPeer, Types
    <3>2. added'[k] = added[k] + 1 /\ added[k] \in Nat BY <2>0, <2>2 DEF AddPeer, Types
    <3>3. entry'[k] = entry[k] /\ billed'[k] = billed[k] /\ carried'[k] = carried[k]
      BY DEF AddPeer
    <3>4. ~Polled(k)' BY <2>0, <3>1 DEF Settled, Current, Polled, AddPeer
    <3>5. \A d \in Dir : Paid(k, d)' = Paid(k, d) BY <3>3 DEF Paid
    <3>6. Aside(k)' BY <2>0, <3>3 DEF Settled, Aside, LastOf
    <3>7. Covered(k)' BY <2>0, <3>3, <3>5 DEF Settled, Covered
    <3>8. Fresh(k)'
      <4> SUFFICES ASSUME NEW d \in Dir PROVE Paid(k, d) + 0 <= carried[k][d]
        BY <3>1, <3>3, <3>5 DEF Fresh, Zero
      <4> QED BY <2>0, Numbers DEF Settled, Covered
    <3>9. Once(k)'
      <4>1. CASE added'[k] = 1
        <5>1. entry'[k] = NoEntry /\ \A d \in Dir : billed'[k][d] = 0
          BY <4>1, <3>2, <3>3, <2>0 DEF Settled, Once, OnceNew
        <5> QED BY <4>1, <5>1 DEF Once, OnceNew, OnceUnseen, OnceSeen
      <4>2. CASE added'[k] # 1
        BY <4>2, <3>2 DEF Once, OnceNew, OnceUnseen, OnceSeen
      <4> QED BY <4>1, <4>2
    <3> QED BY <3>4, <3>6, <3>7, <3>8, <3>9 DEF Settled, Current, Attributed
  <2> QED BY <2>1, <2>2
<1> QED BY <1>1, <1>2 DEF IInv

\* Traffic raises the counter and what was carried alike.
LEMMA TrafficInv ==
    ASSUME IInv, NEW j \in Key, NEW c \in Dir, Traffic(j, c)
    PROVE  IInv'
<1> USE DEF IInv
<1>0. device[j] \in Counter /\ device[j] # NoEntry /\ device[j][c] < MaxCount
  BY DEF Traffic, Types
<1>1. \A d \in Dir : device[j][d] \in 0..MaxCount /\ carried[j][d] \in Int
  BY <1>0 DEF Counter, Types
<1>2. /\ device' = [device EXCEPT ![j] = [device[j] EXCEPT ![c] = device[j][c] + 1]]
      /\ carried' = [carried EXCEPT ![j] = [carried[j] EXCEPT ![c] = carried[j][c] + 1]]
      /\ UNCHANGED <<added, entry, polled, billed>>
  BY DEF Traffic
<1>3. [device[j] EXCEPT ![c] = device[j][c] + 1] \in Counter
  BY <1>0, <1>1, StatsTrackerAssumption DEF Counter
<1>4. Types' BY <1>1, <1>2, <1>3 DEF Types
<1>5. ASSUME NEW k \in Key PROVE Settled(k)'
  <2>0. Settled(k) /\ Types OBVIOUS
  <2>1. CASE k # j BY <2>0, <2>1, <1>2, Untouched DEF Polled, Types
  <2>2. CASE k = j
    <3>1. device'[k] \in Counter /\ device'[k] # NoEntry /\ device[k] # NoEntry
      BY <1>0, <1>2, <1>3, <2>0, <2>2, StatsTrackerAssumption DEF Types
    <3>2. ASSUME NEW d \in Dir
          PROVE  \E n \in {0, 1} : device'[k][d] = device[k][d] + n /\ carried'[k][d] = carried[k][d] + n
      <4>1. CASE d = c
        BY <4>1, <1>0, <1>1, <1>2, <2>0, <2>2 DEF Types, Counter
      <4>2. CASE d # c
        <5>1. device'[k][d] = device[k][d] /\ carried'[k][d] = carried[k][d]
          BY <4>2, <1>0, <1>2, <2>0, <2>2 DEF Types, Counter
        <5> QED BY <5>1, <1>1, <2>2
      <4> QED BY <4>1, <4>2
    <3>3. /\ entry'[k] = entry[k] /\ billed'[k] = billed[k] /\ added'[k] = added[k]
          /\ (Polled(k)' <=> Polled(k)) /\ polled' = polled
      BY <1>2 DEF Polled
    <3>4. \A d \in Dir : Paid(k, d)' = Paid(k, d) /\ Paid(k, d) \in Int
      BY <2>0, <3>3, Numbers DEF Paid
    <3>5. Aside(k)' BY <2>0, <3>3 DEF Settled, Aside, LastOf
    <3>6. Current(k)'
      <4> SUFFICES ASSUME Polled(k), NEW d \in Dir PROVE polled[k][d] <= device'[k][d]
        BY <3>1, <3>3 DEF Current
      <4>1. polled[k][d] <= device[k][d] BY <2>0 DEF Settled, Current
      <4> QED BY <4>1, <2>0, <3>1, <3>2, Numbers
    <3>7. Covered(k)'
      <4> SUFFICES ASSUME NEW d \in Dir PROVE Paid(k, d) <= carried'[k][d]
        BY <3>4 DEF Covered
      <4>1. Paid(k, d) <= carried[k][d] BY <2>0 DEF Settled, Covered
      <4> QED BY <4>1, <2>0, <3>2, <3>4, Numbers
    <3>8. ASSUME Fresh(k) PROVE Fresh(k)'
      <4> SUFFICES ASSUME NEW d \in Dir PROVE Paid(k, d) + device'[k][d] <= carried'[k][d]
        BY <3>4 DEF Fresh
      <4>1. Paid(k, d) + device[k][d] <= carried[k][d] BY <3>8 DEF Fresh
      <4> QED BY <4>1, <2>0, <3>1, <3>2, <3>4, Numbers
    <3>9. ASSUME Seen(k) PROVE Seen(k)'
      <4>1. entry[k] # NoEntry /\ ~entry[k].deleted BY <3>9 DEF Seen
      <4> SUFFICES ASSUME NEW d \in Dir
                   PROVE  /\ entry[k].cur[d] <= device'[k][d]
                          /\ Polled(k) => entry[k].cur[d] <= polled[k][d]
                          /\ Paid(k, d) - entry[k].cur[d] + device'[k][d] <= carried'[k][d]
        BY <3>3, <3>4, <4>1 DEF Seen
      <4>2. /\ entry[k].cur[d] <= device[k][d]
            /\ Polled(k) => entry[k].cur[d] <= polled[k][d]
            /\ Paid(k, d) - entry[k].cur[d] + device[k][d] <= carried[k][d]
        BY <3>9 DEF Seen
      <4> QED BY <4>1, <4>2, <2>0, <3>1, <3>2, <3>4, Numbers
    <3>10. Attributed(k)' BY <3>1, <3>8, <3>9, <2>0 DEF Settled, Attributed
    <3>11. Once(k)'
      <4>1. OnceNew(k)' BY <2>0, <3>1, <3>3 DEF Settled, Once, OnceNew
      <4>2. OnceUnseen(k)' BY <2>0, <3>1, <3>3 DEF Settled, Once, OnceUnseen
      <4>3. OnceSeen(k)'
        <5> SUFFICES ASSUME added[k] = 1, entry[k] # NoEntry, NEW d \in Dir
                     PROVE  /\ Paid(k, d) = entry[k].cur[d] /\ ~entry[k].deleted
                            /\ entry[k].cur[d] <= device'[k][d]
                            /\ Polled(k) => entry[k].cur[d] <= polled[k][d]
          BY <3>3, <3>4 DEF OnceSeen, Dir
        <5>1. /\ Paid(k, d) = entry[k].cur[d] /\ ~entry[k].deleted
              /\ entry[k].cur[d] <= device[k][d]
              /\ Polled(k) => entry[k].cur[d] <= polled[k][d]
          BY <2>0, <3>1 DEF Settled, Once, OnceSeen
        <5> QED BY <5>1, <2>0, <3>1, <3>2, Numbers
      <4> QED BY <4>1, <4>2, <4>3 DEF Once
    <3> QED BY <3>5, <3>6, <3>7, <3>10, <3>11 DEF Settled
  <2> QED BY <2>1, <2>2
<1> QED BY <1>4, <1>5

\* A peer that is removed takes its counter with it; no poll is under way.
LEMMA RemovePeerInv ==
    ASSUME Atomic, IInv, NEW j \in Key, RemovePeer(j)
    PROVE  IInv'
<1> USE DEF IInv
<1>1. Types' BY DEF Types, RemovePeer
<1>2. ASSUME NEW k \in Key PROVE Settled(k)'
  <2>0. Settled(k) /\ Types OBVIOUS
  <2>1. CASE k # j BY <2>0, <2>1, Untouched DEF RemovePeer, Polled, Types
  <2>2. CASE k = j
    <3>1. device'[k] = NoEntry /\ device[k] # NoEntry BY <2>0, <2>2 DEF RemovePeer, Types
    <3>2. ~Polled(k)' BY DEF RemovePeer, Polled
    <3>3. /\ entry'[k] = entry[k] /\ billed'[k] = billed[k] /\ carried'[k] = carried[k]
          /\ added'[k] = added[k]
      BY DEF RemovePeer
    <3>4. \A d \in Dir : Paid(k, d)' = Paid(k, d) BY <3>3 DEF Paid
    <3>5. Aside(k)' BY <2>0, <3>3 DEF Settled, Aside, LastOf
    <3>6. Covered(k)' BY <2>0, <3>3, <3>4 DEF Settled, Covered
    <3>7. Once(k)'
      BY <2>0, <3>1, <3>3, <3>4 DEF Settled, Once, OnceNew, OnceUnseen, OnceSeen
    <3> QED BY <3>1, <3>2, <3>5, <3>6, <3>7 DEF Settled, Current, Attributed
  <2> QED BY <2>1, <2>2
<1> QED BY <1>1, <1>2

\* A poll reads the counters as they are.
LEMMA PollReadInv ==
    ASSUME IInv, PollRead
    PROVE  IInv'
<1> USE DEF IInv
<1>0. PICK ks \in SUBSET Key : polled' = [k \in Key |-> IF k \in ks THEN device[k] ELSE NoEntry]
  BY DEF PollRead
<1>1. Types' BY <1>0 DEF Types, PollRead
<1>2. ASSUME NEW k \in Key PROVE Settled(k)'
  <2>0. Settled(k) /\ Types OBVIOUS
  <2>1. Polled(k)' => polled'[k] = device[k] /\ device[k] # NoEntry BY <1>0 DEF Polled
  <2>2. /\ entry'[k] = entry[k] /\ billed'[k] = billed[k] /\ carried'[k] = carried[k]
        /\ added'[k] = added[k] /\ device'[k] = device[k]
    BY DEF PollRead
  <2>3. \A d \in Dir : Paid(k, d)' = Paid(k, d) BY <2>2 DEF Paid
  <2>4. Aside(k)' BY <2>0, <2>2 DEF Settled, Aside, LastOf
  <2>5. Covered(k)' BY <2>0, <2>2, <2>3 DEF Settled, Covered
  <2>6. Current(k)'
    <3> SUFFICES ASSUME Polled(k)', NEW d \in Dir PROVE polled'[k][d] <= device[k][d]
      BY <2>1, <2>2 DEF Current
    <3> QED BY <2>0, <2>1, Numbers
  <2>7. Fresh(k) => Fresh(k)' BY <2>2, <2>3 DEF Fresh
  <2>8. Seen(k) => Seen(k)' BY <2>1, <2>2, <2>3 DEF Seen
  <2>9. Attributed(k)' BY <2>0, <2>2, <2>7, <2>8 DEF Settled, Attributed
  <2>10. Once(k)'
    BY <2>0, <2>1, <2>2, <2>3 DEF Settled, Once, OnceNew, OnceUnseen, OnceSeen
  <2> QED BY <2>4, <2>5, <2>6, <2>9, <2>10 DEF Settled
<1> QED BY <1>1, <1>2

\* A poll applies its samples and leaves the other entries alone.
LEMMA UpdateIs ==
    ASSUME IInv, UpdateStatsBatch, NEW k \in Key
    PROVE  /\ Polled(k) => SampleOf(entry[k], polled[k], entry'[k])
           /\ ~Polled(k) => entry'[k] = entry[k]
<1>1. /\ Polled(k) => entry'[k] = applySample(entry[k], polled[k])
      /\ ~Polled(k) => entry'[k] = entry[k]
  BY DEF UpdateStatsBatch, Polled
<1>2. CASE Polled(k)
  <2>1. /\ entry[k] \in {NoEntry} \cup Entry /\ polled[k] \in Counter
        /\ entry[k] # NoEntry => LastOf(entry[k])
    BY <1>2 DEF IInv, Types, Polled, Settled, Aside
  <2>2. SampleOf(entry[k], polled[k], entry'[k]) BY <1>1, <1>2, <2>1, Sampled, Zenon
  <2> QED BY <1>2, <2>2
<1> QED BY <1>1, <1>2

\* Applying a sample pays for what the peer carried since the last one, or for nothing.
LEMMA UpdateInv ==
    ASSUME IInv, UpdateStatsBatch
    PROVE  IInv'
<1>0. polled # NoEntry /\ polled' = NoEntry /\ UNCHANGED <<device, added, billed, carried>>
  BY DEF UpdateStatsBatch
<1>1. ASSUME NEW k \in Key, ~Polled(k) PROVE entry'[k] = entry[k] BY <1>1, UpdateIs
<1>2. ASSUME NEW k \in Key, Polled(k) PROVE SampleOf(entry[k], polled[k], entry'[k])
  BY <1>2, UpdateIs
<1> USE DEF IInv
<1>3. Types'
  <2>1. ASSUME NEW k \in Key PROVE entry'[k] \in {NoEntry} \cup Entry
    <3>1. CASE ~Polled(k) BY <3>1, <1>1 DEF Types
    <3>2. CASE Polled(k) BY <3>2, <1>1, <1>2 DEF SampleOf
    <3> QED BY <3>1, <3>2
  <2>2. entry' \in [Key -> {NoEntry} \cup Entry]
    BY <2>1 DEF UpdateStatsBatch
  <2> QED BY <1>0, <2>2 DEF Types
<1>4. ASSUME NEW k \in Key PROVE Settled(k)'
  <2>0. Settled(k) /\ Types OBVIOUS
  <2>1. CASE ~Polled(k) BY <2>0, <2>1, <1>0, <1>1, Untouched DEF Polled
  <2>2. CASE Polled(k)
    <3> DEFINE e == entry[k]
               s == polled[k]
               r == entry'[k]
    <3>2. SampleOf(e, s, r) BY <2>2, <1>2
    <3>3. /\ ~Polled(k)' /\ device'[k] = device[k] /\ device[k] # NoEntry
          /\ billed'[k] = billed[k] /\ carried'[k] = carried[k] /\ added'[k] = added[k]
          /\ \A d \in Dir : s[d] <= device[k][d]
      BY <2>0, <2>2, <1>0 DEF Polled, Settled, Current
    <3> USE DEF SampleOf
    <3> HIDE DEF r
    <3>4. ASSUME NEW d \in Dir
          PROVE  /\ Paid(k, d) = billed[k][d] + Pending(e)[d]
                 /\ Paid(k, d)' = billed[k][d] + Pending(r)[d]
                 /\ billed[k][d] \in Int /\ carried[k][d] \in Int
                 /\ Pending(e)[d] \in Int /\ Pending(r)[d] \in Int
                 /\ s[d] \in Nat /\ device[k][d] \in Nat
                 /\ e # NoEntry => e.cur[d] \in Nat
                 /\ e = NoEntry => Pending(e)[d] = 0
      <4>1. Paid(k, d)' = billed[k][d] + Pending(r)[d] BY <3>3 DEF Paid, r
      <4> QED BY <4>1, <2>0, <2>2, <3>2, <3>3, Numbers, PendingIs
    <3>5. ASSUME NEW d \in Dir
          PROVE  /\ Paid(k, d)' - s[d] + device[k][d] <= carried[k][d]
                 /\ Paid(k, d)' <= carried[k][d]
      <4>1. CASE Fresh(k)
        <5>1. Paid(k, d) + device[k][d] <= carried[k][d] BY <4>1 DEF Fresh
        <5>2. Pending(r)[d] <= Pending(e)[d] + s[d] BY <3>2, <3>4
        <5> QED BY <5>1, <5>2, <3>3, <3>4
      <4>2. CASE Seen(k)
        <5>1. /\ Paid(k, d) - e.cur[d] + device[k][d] <= carried[k][d] /\ e # NoEntry
              /\ Pending(r)[d] = Pending(e)[d] + s[d] - e.cur[d]
          BY <2>2, <3>2, <4>2 DEF Seen
        <5> QED BY <5>1, <3>3, <3>4
      <4> QED BY <4>1, <4>2, <2>0, <3>3 DEF Settled, Attributed
    <3>6. Aside(k)' BY <3>2 DEF Aside, r, LastOf
    <3>7. Current(k)' BY <3>3 DEF Current
    <3>8. Covered(k)' BY <3>3, <3>5 DEF Covered
    <3>9. Seen(k)' BY <3>2, <3>3, <3>5 DEF Seen, r
    <3>10. Once(k)'
      <4>1. OnceNew(k)' BY <2>0, <3>3 DEF Settled, Once, OnceNew
      <4>2. OnceUnseen(k)' BY <3>2 DEF OnceUnseen, r
      <4>3. ASSUME added[k] = 1, NEW d \in Dir PROVE Paid(k, d)' = s[d]
        <5>1. CASE e = NoEntry
          <6>1. billed[k][d] = 0 /\ Pending(r)[d] = s[d]
            BY <2>0, <3>2, <3>3, <4>3, <5>1 DEF Settled, Once, OnceUnseen
          <6> QED BY <6>1, <3>4
        <5>2. CASE e # NoEntry
          <6>1. /\ Paid(k, d) = e.cur[d]
                /\ Pending(r)[d] = Pending(e)[d] + s[d] - e.cur[d]
            BY <2>0, <2>2, <3>2, <3>3, <4>3, <5>2 DEF Settled, Once, OnceSeen
          <6> QED BY <6>1, <5>2, <3>4
        <5> QED BY <5>1, <5>2
      <4>4. OnceSeen(k)' BY <3>2, <3>3, <4>3 DEF OnceSeen, r
      <4> QED BY <4>1, <4>2, <4>4 DEF Once
    <3> QED BY <3>6, <3>7, <3>8, <3>9, <3>10 DEF Settled, Attributed
  <2> QED BY <2>1, <2>2
<1> QED BY <1>3, <1>4

\* A removal puts what is pending aside.
LEMMA RemoveStatsIs ==
    ASSUME Types, NEW j \in Key, RemoveStats(j)
    PROVE  /\ entry[j] \in Entry /\ entry' = [entry EXCEPT ![j] = entry'[j]]
           /\ entry'[j] \in Entry /\ entry'[j].cur = entry[j].cur /\ entry'[j].base = entry[j].base
           /\ entry'[j].last = Pending(entry[j]) /\ entry'[j].deleted = TRUE
           /\ \A d \in Dir : Pending(entry'[j])[d] = Pending(entry[j])[d]
<1>0. /\ device[j] = NoEntry /\ entry[j] # NoEntry /\ UNCHANGED <<device, added, polled, billed, carried>>
      /\ entry' = [entry EXCEPT ![j] = [entry[j] EXCEPT !.last = Pending(entry[j]), !.deleted = TRUE]]
  BY DEF RemoveStats, Types
<1>1. entry[j] \in Entry BY <1>0 DEF Types
<1>2. Pending(entry[j]) \in [Dir -> Int]
  <2>1. Pending(entry[j]) = [d \in Dir |-> entry[j].cur[d] - entry[j].base[d]]
    BY <1>0 DEF Pending, Minus
  <2> QED BY <1>1, <2>1, StatsTrackerAssumption DEF Entry, Counter
<1>3. /\ entry'[j] \in Entry /\ entry'[j].cur = entry[j].cur /\ entry'[j].base = entry[j].base
      /\ entry'[j].last = Pending(entry[j]) /\ entry'[j].deleted = TRUE
  BY <1>0, <1>1, <1>2 DEF Entry, Types
<1>4. entry'[j] # NoEntry BY <1>3, StatsTrackerAssumption
<1>5. \A d \in Dir : Pending(entry'[j])[d] = Pending(entry[j])[d]
  BY <1>0, <1>3, <1>4 DEF Pending, Minus
<1>6. entry' = [entry EXCEPT ![j] = entry'[j]] BY <1>0 DEF Types
<1> QED BY <1>1, <1>3, <1>5, <1>6

\* It changes nothing of what is paid.
LEMMA RemoveStatsInv ==
    ASSUME IInv, NEW j \in Key, RemoveStats(j)
    PROVE  IInv'
<1> USE DEF IInv
<1>0. /\ device[j] = NoEntry /\ entry[j] # NoEntry /\ UNCHANGED <<device, added, polled, billed, carried>>
      /\ entry' = [entry EXCEPT ![j] = entry'[j]]
  BY RemoveStatsIs DEF RemoveStats
<1>1. entry[j] \in Entry BY RemoveStatsIs
<1>3. /\ entry'[j] \in Entry /\ entry'[j].cur = entry[j].cur /\ entry'[j].base = entry[j].base
      /\ entry'[j].last = Pending(entry[j]) /\ entry'[j].deleted = TRUE
  BY RemoveStatsIs
<1>5. \A d \in Dir : Pending(entry'[j])[d] = Pending(entry[j])[d] BY RemoveStatsIs
<1>6. Types' BY <1>0, <1>3 DEF Types
<1>7. ASSUME NEW k \in Key PROVE Settled(k)'
  <2>0. Settled(k) /\ Types OBVIOUS
  <2>1. CASE k # j BY <2>0, <2>1, <1>0, Untouched DEF Polled, Types
  <2>2. CASE k = j
    <3>1. device'[k] = NoEntry /\ ~Polled(k)' /\ billed'[k] = billed[k] /\ carried'[k] = carried[k]
          /\ added'[k] = added[k]
      BY <2>0, <2>2, <1>0 DEF Settled, Current, Polled
    <3>2. \A d \in Dir : Paid(k, d)' = Paid(k, d) BY <2>2, <3>1, <1>5 DEF Paid
    <3>3. Aside(k)'
      <4>1. \A d \in Dir : Pending(entry[k])[d] = entry[k].cur[d] - entry[k].base[d]
        BY <1>0, <1>1, <2>2, PendingIs
      <4> QED BY <4>1, <2>2, <1>3 DEF Aside, LastOf
    <3>4. Covered(k)' BY <2>0, <3>1, <3>2 DEF Settled, Covered
    <3>5. Once(k)'
      BY <2>0, <2>2, <1>0, <1>3, <3>1, <3>2 DEF Settled, Once, OnceNew, OnceUnseen, OnceSeen
    <3> QED BY <3>1, <3>3, <3>4, <3>5 DEF Settled, Current, Attributed
  <2> QED BY <2>1, <2>2
<1> QED BY <1>6, <1>7

\* A pull reports what is pending, which leaves nothing pending.
LEMMA GetStatsIs ==
    ASSUME Types, NEW j \in Key, GetStats(j)
    PROVE  /\ entry' = [entry EXCEPT ![j] = entry'[j]] /\ entry'[j] \in {NoEntry} \cup Entry
           /\ entry[j].deleted => entry'[j] = NoEntry
           /\ ~entry[j].deleted =>
                /\ entry'[j] # NoEntry /\ entry'[j].cur = entry[j].cur
                /\ entry'[j].last = entry[j].last /\ ~entry'[j].deleted
           /\ \A d \in Dir : /\ billed'[j][d] = billed[j][d] + Pending(entry[j])[d]
                             /\ billed[j][d] \in Int /\ Pending(entry[j])[d] \in Int
                             /\ Pending(entry'[j])[d] = 0
<1>0. /\ entry[j] # NoEntry /\ UNCHANGED <<device, added, polled, carried>>
      /\ billed' = [billed EXCEPT ![j] = [d \in Dir |-> billed[j][d] + Pending(entry[j])[d]]]
      /\ entry' = [entry EXCEPT ![j] =
             IF entry[j].deleted THEN NoEntry ELSE [entry[j] EXCEPT !.base = entry[j].cur]]
  BY DEF GetStats, Types
<1>1. entry[j] \in Entry BY <1>0 DEF Types
<1>2. /\ entry[j].deleted => entry'[j] = NoEntry
      /\ ~entry[j].deleted =>
            /\ entry'[j] \in Entry /\ entry'[j].cur = entry[j].cur /\ entry'[j].base = entry[j].cur
            /\ entry'[j].last = entry[j].last /\ ~entry'[j].deleted
  <2>1. CASE entry[j].deleted BY <2>1, <1>0 DEF Types
  <2>2. CASE ~entry[j].deleted
    <3>1. entry'[j] = [entry[j] EXCEPT !.base = entry[j].cur] BY <2>2, <1>0 DEF Types
    <3>2. entry[j].cur \in [Dir -> Int] BY <1>1, StatsTrackerAssumption DEF Entry, Counter
    <3> QED BY <2>2, <3>1, <3>2, <1>1 DEF Entry
  <2> QED BY <2>1, <2>2
<1>3. ~entry[j].deleted => entry'[j] # NoEntry BY <1>2, StatsTrackerAssumption
<1>4. entry'[j] \in {NoEntry} \cup Entry BY <1>2
<1>5. \A d \in Dir : /\ billed'[j][d] = billed[j][d] + Pending(entry[j])[d]
                     /\ billed[j][d] \in Int /\ Pending(entry[j])[d] \in Int
  BY <1>0, Numbers DEF Types
<1>6. \A d \in Dir : Pending(entry'[j])[d] = 0
  BY <1>1, <1>2, <1>3, <1>4, PendingIs
<1>7. entry' = [entry EXCEPT ![j] = entry'[j]] BY <1>0 DEF Types
<1> QED BY <1>2, <1>3, <1>4, <1>5, <1>6, <1>7

\* What is paid stays the same.
LEMMA GetStatsInv ==
    ASSUME IInv, NEW j \in Key, GetStats(j)
    PROVE  IInv'
<1> USE DEF IInv
<1>0. /\ entry[j] # NoEntry /\ UNCHANGED <<device, added, polled, carried>>
      /\ billed' = [billed EXCEPT ![j] = [d \in Dir |-> billed[j][d] + Pending(entry[j])[d]]]
      /\ entry' = [entry EXCEPT ![j] = entry'[j]]
  BY GetStatsIs DEF GetStats, Types
<1>2. /\ entry[j].deleted => entry'[j] = NoEntry
      /\ ~entry[j].deleted =>
            /\ entry'[j] # NoEntry /\ entry'[j].cur = entry[j].cur
            /\ entry'[j].last = entry[j].last /\ ~entry'[j].deleted
  BY GetStatsIs
<1>3. ~entry[j].deleted => entry'[j] # NoEntry BY <1>2
<1>4. entry'[j] \in {NoEntry} \cup Entry BY GetStatsIs
<1>5. \A d \in Dir : /\ billed'[j][d] = billed[j][d] + Pending(entry[j])[d]
                     /\ billed[j][d] \in Int /\ Pending(entry[j])[d] \in Int
  BY GetStatsIs
<1>6. \A d \in Dir : Pending(entry'[j])[d] = 0 BY GetStatsIs
<1>7. Types'
  <2>1. [d \in Dir |-> billed[j][d] + Pending(entry[j])[d]] \in [Dir -> Int] BY <1>5
  <2> QED BY <1>0, <1>4, <2>1 DEF Types
<1>8. ASSUME NEW k \in Key PROVE Settled(k)'
  <2>0. Settled(k) /\ Types OBVIOUS
  <2>1. CASE k # j BY <2>0, <2>1, <1>0, Untouched DEF Polled, Types
  <2>2. CASE k = j
    <3>1. /\ device'[k] = device[k] /\ carried'[k] = carried[k] /\ added'[k] = added[k]
          /\ (Polled(k)' <=> Polled(k)) /\ polled' = polled
      BY <1>0 DEF Polled
    <3>2. \A d \in Dir : Paid(k, d)' = Paid(k, d)
      BY <2>2, <1>5, <1>6 DEF Paid
    <3>3. Aside(k)' BY <2>0, <2>2, <1>0, <1>2 DEF Settled, Aside, LastOf
    <3>4. Current(k)' BY <2>0, <3>1 DEF Settled, Current
    <3>5. Covered(k)' BY <2>0, <3>1, <3>2 DEF Settled, Covered
    <3>6. Fresh(k) => Fresh(k)' BY <3>1, <3>2 DEF Fresh
    <3>7. Seen(k) => Seen(k)' BY <2>2, <1>2, <1>3, <3>1, <3>2 DEF Seen
    <3>8. Attributed(k)' BY <2>0, <3>1, <3>6, <3>7 DEF Settled, Attributed
    <3>9. Once(k)'
      <4>1. OnceNew(k)' BY <2>0, <2>2, <1>0, <3>1 DEF Settled, Once, OnceNew
      <4>2. OnceUnseen(k)'
        BY <2>0, <2>2, <1>0, <1>3, <3>1 DEF Settled, Once, OnceUnseen, OnceSeen
      <4>3. OnceSeen(k)'
        BY <2>0, <2>2, <1>0, <1>2, <3>1, <3>2 DEF Settled, Once, OnceSeen
      <4> QED BY <4>1, <4>2, <4>3 DEF Once
    <3> QED BY <3>3, <3>4, <3>5, <3>8, <3>9 DEF Settled
  <2> QED BY <2>1, <2>2
<1> QED BY <1>7, <1>8

\* An entry that is cleaned up has nothing pending.
LEMMA CleanupInv ==
    ASSUME IInv, CleanupDeletedEntries
    PROVE  IInv'
<1> USE DEF IInv
<1>0. UNCHANGED <<device, added, polled, billed, carried>> BY DEF CleanupDeletedEntries
<1>1. \A k \in Key :
        \/ entry'[k] = entry[k]
        \/ entry[k] # NoEntry /\ entry[k].deleted /\ Pending(entry[k]) = Zero /\ entry'[k] = NoEntry
  BY DEF CleanupDeletedEntries
<1>2. Types'
  <2>1. entry' \in [Key -> {NoEntry} \cup Entry] BY DEF CleanupDeletedEntries, Types
  <2> QED BY <1>0, <2>1 DEF Types
<1>3. ASSUME NEW k \in Key PROVE Settled(k)'
  <2>0. Settled(k) /\ Types OBVIOUS
  <2>1. CASE entry'[k] = entry[k] BY <2>0, <2>1, <1>0, Untouched DEF Polled
  <2>2. CASE entry'[k] # entry[k]
    <3>1. entry[k] # NoEntry /\ entry[k].deleted /\ Pending(entry[k]) = Zero /\ entry'[k] = NoEntry
      BY <1>1, <2>2
    <3>2. \A d \in Dir : Paid(k, d)' = Paid(k, d) BY <1>0, <3>1 DEF Paid, Pending
    <3>3. Current(k)' BY <2>0, <1>0 DEF Settled, Current, Polled
    <3>4. Covered(k)' BY <2>0, <1>0, <3>2 DEF Settled, Covered
    <3>5. Attributed(k)'
      <4>1. Fresh(k) => Fresh(k)' BY <1>0, <3>2 DEF Fresh
      <4>2. ~Seen(k) BY <3>1 DEF Seen
      <4> QED BY <2>0, <1>0, <4>1, <4>2 DEF Settled, Attributed
    <3>6. Once(k)'
      BY <2>0, <1>0, <3>1 DEF Settled, Once, OnceNew, OnceUnseen, OnceSeen
    <3> QED BY <3>1, <3>3, <3>4, <3>5, <3>6 DEF Settled, Aside
  <2> QED BY <2>1, <2>2
<1> QED BY <1>2, <1>3

-----------------------------------------------------------------------------
\* Every step keeps the invariant when no peer is removed during a poll.
LEMMA NextInv ==
    ASSUME Atomic, IInv, [StatsNext]_statsVars
    PROVE  IInv'
<1>1. CASE UNCHANGED statsVars
  <2>1. Types' BY <1>1 DEF IInv, Types, statsVars
  <2>2. ASSUME NEW k \in Key PROVE Settled(k)'
    BY <1>1, Untouched DEF IInv, statsVars, Polled
  <2> QED BY <2>1, <2>2 DEF IInv
<1>2. ASSUME NEW k \in Key, AddPeer(k) PROVE IInv' BY <1>2, AddPeerInv
<1>3. ASSUME NEW k \in Key, RemovePeer(k) PROVE IInv' BY <1>3, RemovePeerInv
<1>4. ASSUME NEW k \in Key, RemoveStats(k) PROVE IInv' BY <1>4, RemoveStatsInv
<1>5. ASSUME NEW k \in Key, GetStats(k) PROVE IInv' BY <1>5, GetStatsInv
<1>6. ASSUME NEW k \in Key, NEW d \in Dir, Traffic(k, d) PROVE IInv' BY <1>6, TrafficInv
<1>7. CASE PollRead BY <1>7, PollReadInv
<1>8. CASE UpdateStatsBatch BY <1>8, UpdateInv
<1>9. CASE CleanupDeletedEntries BY <1>9, CleanupInv
<1> QED BY <1>1, <1>2, <1>3, <1>4, <1>5, <1>6, <1>7, <1>8, <1>9 DEF StatsNext

\* With polls that no removal interrupts nobody is ever charged for more than the device
\* carried for him: removals, re-additions, rollbacks, cleanups and pulls in any order.
THEOREM NobodyIsOverbilled == Atomic => (StatsSpec => []NeverOverbilled)
<1> SUFFICES ASSUME Atomic PROVE StatsSpec => []NeverOverbilled OBVIOUS
<1>1. IInv => NeverOverbilled BY DEF IInv, Settled, Covered, Paid, NeverOverbilled
<1>2. IInv /\ [StatsNext]_statsVars => IInv' BY NextInv
<1> QED BY <1>1, <1>2, InitInv, PTL DEF StatsSpec

\* Under the same condition a user whose peer was added once is charged for exactly what
\* the polls saw.
THEOREM OnceAddedIsExact == Atomic => (StatsSpec => []Exact)
<1> SUFFICES ASSUME Atomic PROVE StatsSpec => []Exact OBVIOUS
<1>1. IInv => Exact BY DEF IInv, Settled, Once, OnceSeen, Paid, Exact
<1>2. IInv /\ [StatsNext]_statsVars => IInv' BY NextInv
<1> QED BY <1>1, <1>2, InitInv, PTL DEF StatsSpec

\* A step that reports nothing of a key leaves at least as much of it pending.
LEMMA PendingGrows ==
    ASSUME IInv, [StatsNext]_statsVars, NEW k \in Key, NEW d \in Dir, billed'[k] = billed[k]
    PROVE  Pending(entry'[k])[d] >= Pending(entry[k])[d]
<1>0. /\ entry[k] \in {NoEntry} \cup Entry /\ Pending(entry[k])[d] \in Int
      /\ Polled(k) => polled[k][d] \in Nat
  BY Numbers DEF IInv
<1>1. CASE entry'[k] = entry[k] BY <1>0, <1>1
<1>2. CASE UpdateStatsBatch
  <2>1. CASE ~Polled(k) BY <1>0, <1>2, <2>1, UpdateIs
  <2>2. CASE Polled(k)
    <3>1. SampleOf(entry[k], polled[k], entry'[k]) BY <1>2, <2>2, UpdateIs
    <3>2. entry[k] = NoEntry => Pending(entry[k])[d] = 0 BY <1>0, PendingIs
    <3>3. entry[k] # NoEntry => entry[k].cur[d] \in Nat BY <1>0, PendingIs
    <3> QED BY <1>0, <2>2, <3>1, <3>2, <3>3 DEF SampleOf
  <2> QED BY <2>1, <2>2
<1>3. ASSUME NEW j \in Key, RemoveStats(j) PROVE Pending(entry'[k])[d] >= Pending(entry[k])[d]
  <2>1. CASE k = j
    <3>1. Pending(entry'[k])[d] = Pending(entry[k])[d] BY <1>3, <2>1, RemoveStatsIs DEF IInv
    <3> QED BY <1>0, <3>1
  <2>2. CASE k # j BY <1>0, <1>3, <2>2 DEF RemoveStats, IInv, Types
  <2> QED BY <2>1, <2>2
<1>4. ASSUME NEW j \in Key, GetStats(j) PROVE Pending(entry'[k])[d] >= Pending(entry[k])[d]
  <2>1. CASE k = j
    <3>1. billed[k][d] = billed[k][d] + Pending(entry[k])[d] BY <1>4, <2>1, GetStatsIs DEF IInv
    <3>2. Pending(entry'[k])[d] = 0 /\ billed[k][d] \in Int BY <1>4, <2>1, GetStatsIs DEF IInv
    <3> QED BY <1>0, <3>1, <3>2
  <2>2. CASE k # j BY <1>0, <1>4, <2>2 DEF GetStats, IInv, Types
  <2> QED BY <2>1, <2>2
<1>5. CASE CleanupDeletedEntries
  <2>1. \/ entry'[k] = entry[k]
        \/ entry[k] # NoEntry /\ entry[k].deleted /\ Pending(entry[k]) = Zero /\ entry'[k] = NoEntry
    BY <1>5 DEF CleanupDeletedEntries
  <2>2. entry'[k] = NoEntry => Pending(entry'[k])[d] = 0 BY DEF Pending, Zero
  <2>3. Zero[d] = 0 BY DEF Zero
  <2> QED BY <1>0, <1>1, <2>1, <2>2, <2>3
<1>6. ASSUME NEW j \in Key, AddPeer(j) \/ RemovePeer(j) \/ \E c \in Dir : Traffic(j, c)
      PROVE  entry'[k] = entry[k]
  BY <1>6 DEF AddPeer, RemovePeer, Traffic
<1>7. CASE PollRead \/ UNCHANGED statsVars BY <1>7, <1>1 DEF PollRead, statsVars
<1> QED BY <1>1, <1>2, <1>3, <1>4, <1>5, <1>6, <1>7 DEF StatsNext

\* Nothing that is pending is lost before a pull reports it.
THEOREM PendingIsKept == Atomic => (StatsSpec => PendingKept)
<1> SUFFICES ASSUME Atomic PROVE StatsSpec => PendingKept OBVIOUS
<1>1. IInv /\ [StatsNext]_statsVars =>
        [\A k \in Key, d \in Dir :
            billed'[k] = billed[k] => Pending(entry'[k])[d] >= Pending(entry[k])[d]]_statsVars
  BY PendingGrows
<1>2. IInv /\ [StatsNext]_statsVars => IInv' BY NextInv
<1> QED BY <1>1, <1>2, InitInv, PTL DEF StatsSpec, PendingKept
=============================================================================
