--------------------------- MODULE SessionsProofs ---------------------------
(* What holds of the IKEv2, L2TP and PPTP backends for any names, lists,   *)
(* streams, nodes and budgets.  Three invariants carry it:                 *)
(*   Revoking   how far the revocation under way has come: which of the    *)
(*              users it removed may still have a secret or an SA;         *)
(*   Ledger     what a backend counted, what it has listed and what the    *)
(*              live sessions can still be billed for was all carried      *)
(*              there, user by user for IKEv2, in sum for PPP; Homed keeps *)
(*              a session at the backends that list it, and Pulled relates *)
(*              the samples and baselines of pulls to what was counted;    *)
(*   Applying   which users of the list under way each backend already     *)
(*              has, in its table and in what it accepts.                  *)
(* All rest on Access: the types of the tables, the request and the        *)
(* sessions, and that numbers of ppp interfaces do not run out.            *)
EXTENDS Sessions, DataProofs

-----------------------------------------------------------------------------
(* Lists and the tables they make.                                         *)

\* A number of a set that none exceeds.
LEMMA MaxIs ==
    ASSUME NEW n \in Nat, NEW s \in SUBSET (1..n), s # {}
    PROVE  Max(s) \in s /\ \A y \in s : y <= Max(s)
<1>1. IsFiniteSet(1..n)
  BY FS_Interval
<1>2. IsFiniteSet(s)
  BY <1>1, FS_Subset
<1>0. s \subseteq Int
  OBVIOUS
<1>3. \E m \in s : \A y \in s : y <= m
  BY <1>0, <1>2, LargestExists
<1>4. \E m \in s : \A y \in s : m >= y
  BY <1>0, <1>3
<1>5. Max(s) \in s /\ \A y \in s : Max(s) >= y
  BY <1>4 DEF Max
<1> QED
  BY <1>0, <1>5

\* F has the tables that the users of q numbered by a subset of 1..n make of t.
IsTaken(F, b, full, t, q, n) ==
    F = [s \in SUBSET (1..n) |->
            IF s = {} THEN t ELSE TakeUser(b, full, F[s \ {Max(s)}], q[Max(s)])]

\* The table that the first n users of q make of t.
TakenTo(b, full, t, q, n) == (CHOOSE F : IsTaken(F, b, full, t, q, n))[1..n]

\* Taking a list is taking its users one after the other.
LEMMA TakenIs ==
    ASSUME NEW b, NEW full, NEW t, NEW n, NEW q, DOMAIN q = 1..n
    PROVE  Taken(b, full, t, q) = TakenTo(b, full, t, q, n)
BY DEF Taken, FoldLeft, MapThenFoldSet, TakenTo, IsTaken

\* What the first users make does not depend on those behind them.
LEMMA TakenUnique ==
    ASSUME NEW b, NEW full, NEW t, NEW q, NEW m \in Nat, NEW n \in Nat, n <= m,
           NEW F, IsTaken(F, b, full, t, q, m), NEW G, IsTaken(G, b, full, t, q, n)
    PROVE  \A s \in SUBSET (1..n) : F[s] = G[s]
<1> DEFINE Q == {s \in SUBSET (1..n) : F[s] = G[s]}
<1>1. ASSUME NEW s \in SUBSET (1..n), \A u \in SUBSET s : u # s => u \in Q
      PROVE  s \in Q
  <2>0. s \in SUBSET (1..m)
    OBVIOUS
  <2>1. CASE s = {}
    BY <2>0, <2>1 DEF IsTaken
  <2>2. CASE s # {}
    <3>1. Max(s) \in s
      BY <2>2, MaxIs
    <3>2. s \ {Max(s)} \in Q
      BY <3>1, <1>1
    <3>3. F[s] = TakeUser(b, full, F[s \ {Max(s)}], q[Max(s)])
      BY <2>0, <2>2 DEF IsTaken
    <3>4. G[s] = TakeUser(b, full, G[s \ {Max(s)}], q[Max(s)])
      BY <2>2 DEF IsTaken
    <3> QED
      BY <3>2, <3>3, <3>4
  <2> QED
    BY <2>1, <2>2
<1>2. \A s \in SUBSET (1..n) : s \in Q
  <2> HIDE DEF Q
  <2>1. IsFiniteSet(1..n)
    BY FS_Interval
  <2> QED
    BY <1>1, <2>1, FiniteInduction
<1> QED
  BY <1>2

\* There are such tables for every list.
LEMMA TakenExists ==
    ASSUME NEW b, NEW full, NEW t, NEW q
    PROVE  \A n \in Nat : IsTaken(CHOOSE F : IsTaken(F, b, full, t, q, n), b, full, t, q, n)
<1> DEFINE Q == {n \in Nat : \E F : IsTaken(F, b, full, t, q, n)}
<1> SUFFICES \A n \in Nat : n \in Q
  OBVIOUS
<1>1. 0 \in Q
  <2> DEFINE F == [s \in SUBSET (1..0) |-> t]
  <2>1. \A s \in SUBSET (1..0) : s = {}
    <3>1. 1..0 = {}
      OBVIOUS
    <3> QED
      BY <3>1
  <2>2. F = [s \in SUBSET (1..0) |->
            IF s = {} THEN t ELSE TakeUser(b, full, F[s \ {Max(s)}], q[Max(s)])]
    BY <2>1
  <2>3. IsTaken(F, b, full, t, q, 0)
    BY <2>2 DEF IsTaken
  <2> QED
    BY <2>3
<1>2. ASSUME NEW n \in Nat, n \in Q
      PROVE  n + 1 \in Q
  <2>1. PICK F : IsTaken(F, b, full, t, q, n)
    BY <1>2
  <2> DEFINE G == [s \in SUBSET (1..(n + 1)) |->
                     IF n + 1 \in s THEN TakeUser(b, full, F[s \ {n + 1}], q[n + 1]) ELSE F[s]]
  <2>2. ASSUME NEW s \in SUBSET (1..(n + 1))
        PROVE  G[s] = IF s = {} THEN t ELSE TakeUser(b, full, G[s \ {Max(s)}], q[Max(s)])
    <3>1. CASE n + 1 \in s
      <4>1. Max(s) = n + 1
        <5>1. n + 1 \in Nat /\ s # {}
          BY <3>1
        <5>2. Max(s) \in s /\ \A y \in s : y <= Max(s)
          BY <5>1, MaxIs
        <5>3. Max(s) \in 1..(n + 1) /\ n + 1 <= Max(s)
          BY <5>2, <3>1
        <5> HIDE DEF G
        <5> QED
          BY <5>3
      <4>2. s \ {n + 1} \in SUBSET (1..(n + 1)) /\ n + 1 \notin s \ {n + 1} /\ s # {}
        BY <3>1
      <4>3. G[s \ {n + 1}] = F[s \ {n + 1}]
        BY <4>2
      <4>4. G[s] = TakeUser(b, full, F[s \ {n + 1}], q[n + 1])
        BY <3>1
      <4> HIDE DEF G
      <4> QED
        BY <4>1, <4>2, <4>3, <4>4
    <3>2. CASE n + 1 \notin s
      <4>1. s \in SUBSET (1..n)
        BY <3>2
      <4>2. G[s] = F[s]
        BY <3>2
      <4>3. CASE s = {}
        BY <4>1, <4>2, <4>3, <2>1 DEF IsTaken
      <4>4. CASE s # {}
        <5>1. Max(s) \in s
          BY <4>1, <4>4, MaxIs
        <5>2. s \ {Max(s)} \in SUBSET (1..(n + 1)) /\ n + 1 \notin s \ {Max(s)}
          BY <3>2
        <5>3. G[s \ {Max(s)}] = F[s \ {Max(s)}]
          BY <5>2
        <5>4. F[s] = TakeUser(b, full, F[s \ {Max(s)}], q[Max(s)])
          BY <4>1, <4>4, <2>1 DEF IsTaken
        <5> HIDE DEF G
        <5> QED
          BY <4>2, <4>4, <5>3, <5>4
      <4> QED
        BY <4>3, <4>4
    <3> QED
      BY <3>1, <3>2
  <2>3. G = [s \in SUBSET (1..(n + 1)) |->
            IF s = {} THEN t ELSE TakeUser(b, full, G[s \ {Max(s)}], q[Max(s)])]
    BY <2>2
  <2>4. IsTaken(G, b, full, t, q, n + 1)
    <3> HIDE DEF G
    <3> QED
      BY <2>3 DEF IsTaken
  <2> QED
    BY <2>4
<1> HIDE DEF Q
<1> QED
  BY <1>1, <1>2, NatSetInduction

\* The table after no user is the one before.
LEMMA TakenNone ==
    ASSUME NEW b, NEW full, NEW t, NEW q
    PROVE  TakenTo(b, full, t, q, 0) = t
<1> DEFINE F == CHOOSE F : IsTaken(F, b, full, t, q, 0)
<1>1. IsTaken(F, b, full, t, q, 0)
  BY TakenExists
<1>2. TakenTo(b, full, t, q, 0) = F[1..0]
  BY DEF TakenTo
<1> HIDE DEF F
<1>3. 1..0 = {}
  OBVIOUS
<1> QED
  BY <1>1, <1>2, <1>3 DEF IsTaken

\* Each user is taken into the table of those before him.
LEMMA TakenNext ==
    ASSUME NEW b, NEW full, NEW t, NEW q, NEW n \in Nat
    PROVE  TakenTo(b, full, t, q, n + 1) = TakeUser(b, full, TakenTo(b, full, t, q, n), q[n + 1])
<1> DEFINE P(k) == CHOOSE F : IsTaken(F, b, full, t, q, k)
           s == 1..(n + 1)
<1>1. \A k \in Nat : IsTaken(P(k), b, full, t, q, k)
  BY TakenExists
<1>2. \A k \in Nat : TakenTo(b, full, t, q, k) = P(k)[1..k]
  BY DEF TakenTo
<1> HIDE DEF P
<1>3. Max(s) = n + 1
  <2>1. n + 1 \in Nat /\ s # {}
    OBVIOUS
  <2>2. Max(s) \in s /\ \A y \in s : y <= Max(s)
    BY <2>1, MaxIs
  <2>3. Max(s) \in 1..(n + 1) /\ n + 1 <= Max(s)
    BY <2>2
  <2> QED
    BY <2>3
<1>4. s \ {n + 1} = 1..n
  OBVIOUS
<1>5. P(n + 1)[s] = TakeUser(b, full, P(n + 1)[1..n], q[n + 1])
  <2>1. IsTaken(P(n + 1), b, full, t, q, n + 1) /\ s # {} /\ s \in SUBSET s
    BY <1>1
  <2>2. P(n + 1)[s] = TakeUser(b, full, P(n + 1)[s \ {Max(s)}], q[Max(s)])
    BY <2>1 DEF IsTaken
  <2> HIDE DEF s
  <2> QED
    BY <2>2, <1>3, <1>4
<1>6. P(n + 1)[1..n] = P(n)[1..n]
  <2>1. n + 1 \in Nat /\ n <= n + 1 /\ 1..n \in SUBSET (1..n)
    OBVIOUS
  <2>2. IsTaken(P(n + 1), b, full, t, q, n + 1) /\ IsTaken(P(n), b, full, t, q, n)
    BY <1>1
  <2>3. PICK m, F, G : m = n + 1 /\ F = P(n + 1) /\ G = P(n)
    OBVIOUS
  <2>4. m \in Nat /\ n <= m /\ IsTaken(F, b, full, t, q, m) /\ IsTaken(G, b, full, t, q, n)
    BY ONLY <2>1, <2>2, <2>3
  <2>5. \A u \in SUBSET (1..n) : F[u] = G[u]
    BY ONLY n \in Nat, <2>4, TakenUnique
  <2> QED
    BY ONLY <2>1, <2>3, <2>5
<1> QED
  BY <1>2, <1>5, <1>6

\* What a user does to a table: of a list that is applied, and of a full one.
LEMMA TakeUserIs ==
    ASSUME NEW b \in Backend, NEW t, NEW u
    PROVE  /\ TakeUser(b, FALSE, t, u) =
                 IF Wants(b, u) THEN Put(t, u.name, Entry(b, u)) ELSE Without(t, {u.email})
           /\ TakeUser(b, TRUE, t, u) =
                 IF Wants(b, u) THEN Put(t, u.name, Entry(b, u)) ELSE t
BY DEF TakeUser, ListUser, ApplyUser, Ikev2ListUser, L2tpListUser, PptpListUser, Upsert,
       Ikev2ApplyUser, L2tpApplyUser, PptpApplyUser, Wants, Backend

\* Only the users taken matter.
LEMMA TakenSame ==
    ASSUME NEW b, NEW full, NEW t, NEW q, NEW r, NEW m \in Nat, \A i \in 1..m : q[i] = r[i]
    PROVE  TakenTo(b, full, t, q, m) = TakenTo(b, full, t, r, m)
<1> DEFINE Q == {n \in Nat : n <= m => TakenTo(b, full, t, q, n) = TakenTo(b, full, t, r, n)}
<1>1. 0 \in Q
  BY TakenNone
<1>2. ASSUME NEW n \in Nat, n \in Q
      PROVE  n + 1 \in Q
  <2> SUFFICES ASSUME n + 1 <= m
               PROVE  TakenTo(b, full, t, q, n + 1) = TakenTo(b, full, t, r, n + 1)
    OBVIOUS
  <2>1. TakenTo(b, full, t, q, n) = TakenTo(b, full, t, r, n) /\ q[n + 1] = r[n + 1]
    BY <1>2
  <2> HIDE DEF Q
  <2>2. TakenTo(b, full, t, q, n + 1) = TakeUser(b, full, TakenTo(b, full, t, q, n), q[n + 1])
    BY TakenNext
  <2>3. TakenTo(b, full, t, r, n + 1) = TakeUser(b, full, TakenTo(b, full, t, r, n), r[n + 1])
    BY TakenNext
  <2> QED
    BY <2>1, <2>2, <2>3
<1> HIDE DEF Q
<1>3. m \in Q
  BY <1>1, <1>2, NatSetInduction
<1> QED
  BY <1>3 DEF Q

\* The users before the n-th make the table that the n-th meets.
LEMMA TakenPrefix ==
    ASSUME NEW b, NEW full, NEW t, NEW X, NEW q \in Seq(X), NEW n \in 0..Len(q)
    PROVE  Taken(b, full, t, SubSeq(q, 1, n)) = TakenTo(b, full, t, q, n)
<1> DEFINE p == SubSeq(q, 1, n)
<1>1. n \in Nat /\ DOMAIN p = 1..n /\ \A i \in 1..n : p[i] = q[i]
  BY SubSeqProperties
<1> HIDE DEF p
<1>2. Taken(b, full, t, p) = TakenTo(b, full, t, p, n)
  BY <1>1, TakenIs
<1>3. TakenTo(b, full, t, p, n) = TakenTo(b, full, t, q, n)
  BY <1>1, TakenSame
<1> QED
  BY <1>2, <1>3 DEF p

\* Tables have the names of users that arrive, and of those only.
LEMMA TakenNames ==
    ASSUME NEW b \in Backend, NEW full \in BOOLEAN, NEW t, DOMAIN t \subseteq Name,
           NEW q \in Seq(Anyone)
    PROVE  DOMAIN Taken(b, full, t, q) \subseteq Name
<1> DEFINE T(n) == TakenTo(b, full, t, q, n)
           Q == {n \in Nat : n <= Len(q) => DOMAIN T(n) \subseteq Name}
<1>1. 0 \in Q
  BY TakenNone
<1>2. ASSUME NEW n \in Nat, n \in Q
      PROVE  n + 1 \in Q
  <2> SUFFICES ASSUME n + 1 <= Len(q)
               PROVE  DOMAIN T(n + 1) \subseteq Name
    OBVIOUS
  <2>1. DOMAIN T(n) \subseteq Name
    BY <1>2
  <2>2. q[n + 1] \in Anyone
    OBVIOUS
  <2>3. q[n + 1].name \in Name
    BY <2>2, SessionsAssumption
  <2>4. T(n + 1) = TakeUser(b, full, T(n), q[n + 1])
    BY TakenNext, Zenon
  <2> HIDE DEF T, Q
  <2> QED
    <3>1. CASE full
      <4>1. full = TRUE
        BY <3>1
      <4>2. T(n + 1) = IF Wants(b, q[n + 1]) THEN Put(T(n), q[n + 1].name, Entry(b, q[n + 1])) ELSE T(n)
        BY <2>4, <4>1, TakeUserIs
      <4> QED
        BY <4>2, <2>1, <2>3 DEF Put
    <3>2. CASE ~full
      <4>1. full = FALSE
        BY <3>2
      <4>2. T(n + 1) = IF Wants(b, q[n + 1]) THEN Put(T(n), q[n + 1].name, Entry(b, q[n + 1]))
                       ELSE Without(T(n), {q[n + 1].email})
        BY <2>4, <4>1, TakeUserIs
      <4> QED
        BY <4>2, <2>1, <2>3 DEF Put, Without
    <3> QED
      BY <3>1, <3>2
<1> HIDE DEF Q
<1>3. Len(q) \in Q
  BY <1>1, <1>2, NatSetInduction
<1>4. Taken(b, full, t, q) = T(Len(q))
  BY TakenIs
<1> QED
  BY <1>3, <1>4 DEF Q

\* Whoever a list takes out of a table is reported as removed.
LEMMA RemovedIsReported ==
    ASSUME NEW b \in Backend, NEW t, NEW q \in Seq(Anyone)
    PROVE  DOMAIN t \subseteq DOMAIN ApplyUsers(b, t, q) \cup RemovedBy(b, t, q)
<1> DEFINE T(n) == TakenTo(b, FALSE, t, q, n)
           R == RemovedBy(b, t, q)
           Q == {n \in Nat : n <= Len(q) => DOMAIN t \subseteq DOMAIN T(n) \cup R}
<1>0. T(0) = t
  BY TakenNone
<1> HIDE DEF T, R
<1>1. 0 \in Q
  BY <1>0
<1>2. ASSUME NEW n \in Nat, n \in Q
      PROVE  n + 1 \in Q
  <2> SUFFICES ASSUME n + 1 <= Len(q), NEW x \in DOMAIN t, x \notin DOMAIN T(n + 1)
               PROVE  x \in R
    OBVIOUS
  <2> DEFINE u == q[n + 1]
  <2>1. x \in DOMAIN T(n) \/ x \in R
    BY <1>2
  <2>2. T(n + 1) = TakeUser(b, FALSE, T(n), u)
    BY TakenNext, Zenon DEF T
  <2> HIDE DEF Q
  <2>3. x \in DOMAIN T(n) => ~Wants(b, u) /\ x = u.email
    <3>1. T(n + 1) = IF Wants(b, u) THEN Put(T(n), u.name, Entry(b, u)) ELSE Without(T(n), {u.email})
      BY <2>2, TakeUserIs
    <3> HIDE DEF u
    <3> QED
      BY <3>1 DEF Put, Without
  <2>4. ASSUME x \in DOMAIN T(n)
        PROVE  x \in R
    <3>1. n + 1 \in DOMAIN q /\ n \in 0..Len(q) /\ (n + 1) - 1 = n
      OBVIOUS
    <3>2. ApplyUsers(b, t, SubSeq(q, 1, n)) = T(n)
      BY <3>1, TakenPrefix DEF T, ApplyUsers
    <3>3. ~Wants(b, q[n + 1]) /\ q[n + 1].email \in DOMAIN ApplyUsers(b, t, SubSeq(q, 1, (n + 1) - 1))
      BY <2>3, <2>4, <3>1, <3>2
    <3>4. q[n + 1].email \in R
      BY <3>1, <3>3 DEF R, RemovedBy
    <3> QED
      BY <2>3, <2>4, <3>4
  <2> QED
    BY <2>1, <2>4
<1> HIDE DEF Q
<1>3. Len(q) \in Q
  BY <1>1, <1>2, NatSetInduction
<1>4. ApplyUsers(b, t, q) = T(Len(q))
  <2>1. DOMAIN q = 1..Len(q)
    OBVIOUS
  <2> QED
    BY <2>1, TakenIs DEF ApplyUsers, T
<1> QED
  BY <1>3, <1>4 DEF Q, R

-----------------------------------------------------------------------------
(* What arrives, and what is live.                                         *)

\* A chunk of a stream.
Chunk == [index : Nat, users : Seq(Anyone), last : BOOLEAN]

\* A stream is read up to its first last chunk.
LEMMA ReadType ==
    ASSUME NEW s \in Streams
    PROVE  /\ Read(s) \in Seq(Chunk)
           /\ Lasts(s) # {} => Len(Read(s)) \in DOMAIN Read(s)
<1>1. s \in Seq(Chunk)
  BY SessionsAssumption DEF Chunk
<1>2. CASE Lasts(s) = {}
  BY <1>1, <1>2 DEF Read
<1>3. CASE Lasts(s) # {}
  <2> DEFINE k == CHOOSE k \in Lasts(s) : \A j \in Lasts(s) : k <= j
  <2>1. Lasts(s) \in SUBSET Nat /\ Lasts(s) \subseteq 1..Len(s)
    BY <1>1 DEF Lasts
  <2>2. \E n \in Lasts(s) : \A j \in Lasts(s) : n <= j
    BY <1>3, <2>1, LeastExists
  <2>3. k \in 1..Len(s)
    BY <2>1, <2>2
  <2>4. Read(s) = SubSeq(s, 1, k)
    BY <1>3 DEF Read
  <2> HIDE DEF k
  <2>5. /\ SubSeq(s, 1, k) \in Seq(Chunk) /\ Len(SubSeq(s, 1, k)) = k
        /\ DOMAIN SubSeq(s, 1, k) = 1..k
    BY <1>1, <2>3, SubSeqProperties
  <2> QED
    BY <2>3, <2>4, <2>5
<1> QED
  BY <1>2, <1>3

\* Chunks make a list of users that arrived in them, or an error.
LEMMA BuildType ==
    ASSUME NEW s \in Streams
    PROVE  BuildUsersFromChunks(s) \in Seq(Anyone) \cup {None}
<1>1. CASE Lasts(s) = {}
  BY <1>1 DEF BuildUsersFromChunks
<1>2. CASE Lasts(s) # {}
  <2> DEFINE r == Read(s)
             last == r[Len(r)].index
             lists == [i \in 1..(last + 1) |-> ChunkUsers(s, i - 1)]
  <2>1. r \in Seq(Chunk) /\ Len(r) \in DOMAIN r
    BY <1>2, ReadType
  <2>0. \A k \in DOMAIN r : r[k] \in Chunk
    BY <2>1
  <2> HIDE DEF r
  <2>2. last \in Nat
    BY <2>0, <2>1 DEF Chunk
  <2>3. ASSUME NEW i
        PROVE  ChunkUsers(s, i) \in Seq(Anyone)
    <3> DEFINE q == [k \in DOMAIN r |-> IF r[k].index = i THEN r[k].users ELSE <<>>]
    <3>1. ASSUME NEW k \in DOMAIN r
          PROVE  q[k] \in Seq(Anyone)
      <4>1. r[k].users \in Seq(Anyone)
        BY <2>0 DEF Chunk
      <4>2. <<>> \in Seq(Anyone)
        OBVIOUS
      <4> QED
        BY <4>1, <4>2
    <3>2. DOMAIN r = 1..Len(r) /\ Len(r) \in Nat
      BY <2>1
    <3>3. q \in Seq(Seq(Anyone))
      BY <3>1, <3>2
    <3>4. ChunkUsers(s, i) = FlattenSeq(q)
      BY DEF ChunkUsers, r
    <3> HIDE DEF q
    <3> QED
      BY <3>3, <3>4, FlattenSeqType
  <2>4. lists \in Seq(Seq(Anyone))
    <3> HIDE DEF last
    <3>1. last + 1 \in Nat /\ lists = [i \in 1..(last + 1) |-> lists[i]]
      BY <2>2
    <3>2. \A i \in 1..(last + 1) : lists[i] \in Seq(Anyone)
      BY <2>3
    <3> HIDE DEF lists
    <3> QED
      BY <3>1, <3>2
  <2>5. BuildUsersFromChunks(s) \in {FlattenSeq(lists), None}
    BY <1>2 DEF BuildUsersFromChunks, r
  <2> HIDE DEF lists
  <2> QED
    BY <2>4, <2>5, FlattenSeqType
<1> QED
  BY <1>1, <1>2

\* The lists that requests bring.
Arrivals == Lists \cup {<<u>> : u \in User} \cup (ChunkedLists \ {None})

\* Whatever arrives is a list of users who arrive.
LEMMA ArrivalsType == Arrivals \subseteq Seq(Anyone)
<1>1. Lists \subseteq Seq(Anyone)
  BY SessionsAssumption
<1>2. ASSUME NEW u \in User
      PROVE  <<u>> \in Seq(Anyone)
  BY DEF Anyone
<1>3. ChunkedLists \subseteq Seq(Anyone) \cup {None}
  BY BuildType DEF ChunkedLists
<1> QED
  BY <1>1, <1>2, <1>3 DEF Arrivals

-----------------------------------------------------------------------------
(* The steps, by what they do to access.                                   *)

\* Sessions end or are told to end; none comes and none changes hands.
Shrinks ==
    /\ DOMAIN session' \subseteq DOMAIN session
    /\ \A i \in DOMAIN session' :
          session'[i] = session[i] \/ session'[i] = [session[i] EXCEPT !.closing = TRUE]
    /\ UNCHANGED <<clock, carried, again>>

\* The loops, the clients that leave and the panel that pulls leave access alone.
Loop == UNCHANGED <<nodeVars, listVars, reqVars, sa, lapsed>> /\ Shrinks

\* Chunks that make no list.
Refused == req = None /\ reply' = "error" /\ UNCHANGED <<nodeVars, listVars, req, liveVars, lapsed>>

\* A list arrives whole, or its first user before the others.
Asks ==
    \E op \in {"apply", "replace", "restart"} : \E named \in Arrivals :
        \/ Request(op, named, <<>>, named)
        \/ op = "apply" /\ named # <<>> /\ Request(op, <<Head(named)>>, Tail(named), named)

\* Ending some sessions.
LEMMA EndsShrinks ==
    ASSUME NEW v, Ends(v)
    PROVE  Shrinks /\ sa' = sa
BY DEF Ends, Shrinks, Without

\* Sessions that are left out are lost.
LEMMA WithoutShrinks ==
    ASSUME NEW X, session' = Without(session, X), UNCHANGED <<clock, carried, again>>
    PROVE  Shrinks
BY DEF Shrinks, Without

\* Nothing happens to the sessions.
LEMMA SameShrinks ==
    ASSUME UNCHANGED liveVars
    PROVE  Shrinks /\ sa' = sa
BY DEF Shrinks, liveVars

\* A termination ends its session or misses it.
LEMMA TerminateShrinks ==
    ASSUME NEW v, Terminate(v)
    PROVE  Shrinks /\ sa' = sa
BY EndsShrinks, SameShrinks DEF Terminate

\* The polls.
LEMMA PollLoops ==
    ASSUME NEW b \in Backend, PollRead(b) \/ Count(b) \/ EnforceDeviceLimits(b)
    PROVE  Loop
<1>1. CASE PollRead(b)
  BY <1>1, SameShrinks DEF PollRead, Loop, PollFrame, histVars, liveVars
<1>2. CASE Count(b)
  BY <1>2, SameShrinks DEF Count, Loop, PollFrame, histVars, liveVars
<1>3. CASE EnforceDeviceLimits(b)
  BY <1>3, TerminateShrinks DEF EnforceDeviceLimits, Loop, PollFrame
<1> QED
  BY <1>1, <1>2, <1>3

\* The pass over all backends.
LEMMA PassLoops ==
    ASSUME EnforceGlobalDeviceLimits
    PROVE  Loop
<1>1. ASSUME PassKeeps PROVE Loop
  BY <1>1, SameShrinks DEF PassKeeps, PassFrame, Loop, histVars, liveVars
<1>2. ASSUME NEW b, KeepDevices(b) PROVE Loop
  BY <1>2, SameShrinks DEF KeepDevices, PassFrame, Loop, histVars, liveVars
<1>3. ASSUME PassTerminate PROVE Loop
  BY <1>3, TerminateShrinks DEF PassTerminate, PassFrame, Loop
<1> QED
  BY <1>1, <1>2, <1>3 DEF EnforceGlobalDeviceLimits, enforceGlobalLimits, OnlineDeviceCounts,
     ShareBudget, Share, PassEnd, Ikev2KeepDevices, L2tpKeepDevices, PptpKeepDevices

\* Every step is a step of a request or of a client, or one of the loops.
LEMMA Steps ==
    ASSUME [Next]_vars
    PROVE  \/ Asks \/ Refused
           \/ \E b \in Backend : Table(b) \/ Down(b) \/ Up(b)
           \/ Load \/ UnloadShared \/ ListRevoked \/ TerminateRevoked \/ Answer
           \/ Connects \/ Traffic \/ Rekey \/ Loop
<1>1. ASSUME SyncUser \/ RestSyncUser \/ SyncUsers \/ RestSyncUsers PROVE Asks
  BY <1>1 DEF SyncUser, RestSyncUser, SyncUsers, RestSyncUsers, Asks, Arrivals
<1>2. ASSUME SyncUsersChunked \/ RestSyncUsersChunked PROVE Asks \/ Refused
  BY <1>2 DEF SyncUsersChunked, RestSyncUsersChunked, Asks, Arrivals, Refused, histVars
<1>3. ASSUME RequestStep
      PROVE  \/ \E b \in Backend : Table(b) \/ Down(b) \/ Up(b)
             \/ Load \/ UnloadShared \/ ListRevoked \/ TerminateRevoked \/ Answer
  BY <1>3 DEF RequestStep, Ikev2Reload, L2tpWriteChapSecrets, PptpWriteChapSecrets,
     Ikev2Restart, L2tpRestart, PptpRestart, Backend
<1>4. ASSUME Leaves \/ Closes PROVE Loop
  BY <1>4, WithoutShrinks DEF Leaves, Closes, Loop, LiveFrame, histVars
<1>5. ASSUME Polls PROVE Loop
  BY <1>5, PollLoops DEF Polls, Ikev2Poll, Ikev2Enforce, L2tpPoll, L2tpEnforce, PptpPoll,
     PptpEnforce, Backend
<1>6. ASSUME GetStats \/ RestGetStats \/ CompositeGetStats PROVE Loop
  <2>1. PullFrame
    BY <1>6 DEF GetStats, RestGetStats, CompositeGetStats, Ikev2GetStats, L2tpGetStats, PptpGetStats,
       Sample, Delta
  <2> QED
    BY <2>1, SameShrinks DEF PullFrame, Loop, histVars, liveVars
<1>7. ASSUME UNCHANGED vars PROVE Loop
  BY <1>7, SameShrinks DEF vars, Loop, histVars, liveVars
<1> QED
  BY <1>1, <1>2, <1>3, <1>4, <1>5, <1>6, <1>7, PassLoops DEF Next

-----------------------------------------------------------------------------
(* Types.                                                                  *)

\* Session numbers, and sessions.
Id == {"ike", "ppp"} \X Nat
Live == [b : Backend, user : Name, rank : Nat, bytes : Nat, closing : BOOLEAN]

\* The tables and what is accepted name known users.
Tables ==
    /\ node \in SUBSET Backend /\ running \in SUBSET Backend
    /\ DOMAIN users = Backend /\ DOMAIN secrets = Backend
    /\ \A b \in Backend : DOMAIN users[b] \subseteq Name /\ DOMAIN secrets[b] \subseteq Name

\* A request is one of those under way.
Asking == req \in Requests \cup {None}

\* The ppp interfaces in use.
PppIds == {i \in DOMAIN session : i[1] = "ppp"}

\* There were more logins than there are ppp interfaces.
Living ==
    /\ IsFiniteSet(DOMAIN session) /\ DOMAIN session \subseteq Id
    /\ \A i \in DOMAIN session : session[i] \in Live
    /\ clock \in Nat /\ sa \in Nat
    /\ carried \in [Backend -> [Name -> Nat]] /\ again \in [Name -> Nat]
    /\ Cardinality(PppIds) < clock

\* The types that all the invariants rest on.
Access == Tables /\ Asking /\ Living

\* A node starts with typed tables, no request and no session.
LEMMA AccessInit == Init => Access
<1> SUFFICES ASSUME Init PROVE Access
  OBVIOUS
<1>1. Tables
  <2>1. PICK l \in Lists : users = [b \in Backend |-> IF b \in node THEN Replaced(b, l) ELSE Nothing]
    BY DEF Init
  <2>2. l \in Seq(Anyone) /\ node \in SUBSET Backend
    BY SessionsAssumption DEF Init
  <2>3. ASSUME NEW b \in Backend
        PROVE  DOMAIN Replaced(b, l) \subseteq Name
    <3>1. DOMAIN Nothing \subseteq Name
      BY DEF Nothing
    <3> QED
      BY <2>2, <3>1, TakenNames DEF Replaced
  <2>4. \A b \in Backend : DOMAIN users[b] \subseteq Name
    BY <2>1, <2>3 DEF Nothing
  <2> QED
    BY <2>1, <2>2, <2>4 DEF Tables, Init, Passwords
<1>2. Asking
  BY DEF Init, Asking
<1>3. Living
  <2>1. /\ session = Nothing /\ clock = 1 /\ sa = 1
        /\ carried = [b \in Backend |-> [u \in Name |-> 0]] /\ again = [u \in Name |-> 0]
    BY DEF Init
  <2>2. DOMAIN session = {} /\ PppIds = {}
    BY <2>1 DEF Nothing, PppIds
  <2>3. IsFiniteSet({}) /\ Cardinality({}) = 0
    BY FS_EmptySet
  <2> QED
    BY <2>1, <2>2, <2>3 DEF Living
<1> QED
  BY <1>1, <1>2, <1>3 DEF Access

\* The tables, and what they are changed to.
LEMMA TablesStep ==
    ASSUME Tables, Asking, [Next]_vars
    PROVE  Tables'
<1>1. CASE Asks
  BY <1>1 DEF Asks, Request, Tables, nodeVars, listVars
<1>2. CASE Refused
  BY <1>2 DEF Refused, Tables, nodeVars, listVars
<1>3. ASSUME NEW b \in Backend, Table(b)
      PROVE  Tables'
  <2> DEFINE t == IF req.op = "apply" THEN ApplyUsers(b, users[b], req.list) ELSE Replaced(b, req.list)
  <2>1. users' = [users EXCEPT ![b] = t] /\ UNCHANGED <<node, running, secrets>>
    BY <1>3 DEF Table, ReqFrame
  <2>2. req.list \in Seq(Anyone)
    BY <1>3 DEF Table, At, Asking, Requests
  <2>3. DOMAIN t \subseteq Name
    <3>1. DOMAIN Nothing \subseteq Name
      BY DEF Nothing
    <3>2. DOMAIN ApplyUsers(b, users[b], req.list) \subseteq Name
      BY <2>2, TakenNames DEF ApplyUsers, Tables
    <3>3. DOMAIN Replaced(b, req.list) \subseteq Name
      BY <2>2, <3>1, TakenNames DEF Replaced
    <3> QED
      BY <3>2, <3>3
  <2> HIDE DEF t
  <2> QED
    BY <2>1, <2>3 DEF Tables
<1>4. CASE Load
  <2>1. UNCHANGED <<node, running, users>>
    BY <1>4 DEF Load, ReqFrame
  <2>2. secrets' = secrets \/ secrets' = [secrets EXCEPT ![req.b] = Loaded(req.b)]
    BY <1>4 DEF Load
  <2>3. ASSUME NEW b \in Backend
        PROVE  DOMAIN Loaded(b) \subseteq Name
    BY DEF Loaded, Merge, Passwords, Tables
  <2> QED
    BY <2>1, <2>2, <2>3 DEF Tables
<1>5. CASE UnloadShared
  <2>1. UNCHANGED <<node, running, users>>
    BY <1>5 DEF UnloadShared, ReqFrame
  <2>2. \E X : secrets' = [secrets EXCEPT !["ikev2"] = Without(secrets["ikev2"], X)]
    BY <1>5 DEF UnloadShared
  <2> QED
    BY <2>1, <2>2 DEF Tables, Without
<1>6. CASE ListRevoked \/ TerminateRevoked
  BY <1>6 DEF ListRevoked, TerminateRevoked, ReqFrame, Tables, listVars
<1>7. ASSUME NEW b \in Backend, Down(b)
      PROVE  Tables'
  <2>1. UNCHANGED <<node, users>> /\ running' = running \ {b}
    BY <1>7 DEF Down, ReqFrame
  <2>2. secrets' = secrets \/ secrets' = [secrets EXCEPT ![b] = Nothing]
    BY <1>7 DEF Down, Ikev2Down, PppDown
  <2> QED
    BY <2>1, <2>2 DEF Tables, Nothing
<1>8. ASSUME NEW b \in Backend, Up(b)
      PROVE  Tables'
  <2>1. UNCHANGED <<node, users>> /\ running' \in {running, running \cup {b}}
    BY <1>8 DEF Up, ReqFrame
  <2>2. secrets' = secrets \/ secrets' = [secrets EXCEPT ![b] = Loaded(b)]
    BY <1>8 DEF Up
  <2>3. DOMAIN Loaded(b) \subseteq Name
    BY DEF Loaded, Merge, Passwords, Tables
  <2> QED
    BY <2>1, <2>2, <2>3 DEF Tables
<1>9. CASE Answer
  BY <1>9 DEF Answer, Tables, nodeVars, listVars
<1>10. CASE Connects \/ Traffic \/ Rekey
  BY <1>10 DEF Connects, Traffic, Rekey, RekeyIke, RekeyChild, LiveFrame, Tables, nodeVars, listVars
<1>11. CASE Loop
  BY <1>11 DEF Loop, Tables, nodeVars, listVars
<1> QED
  BY <1>1, <1>2, <1>3, <1>4, <1>5, <1>6, <1>7, <1>8, <1>9, <1>10, <1>11, Steps

\* A step of a request goes on with it.
Goes ==
    \/ \E b \in Backend : Table(b) \/ Down(b) \/ Up(b)
    \/ Load \/ UnloadShared \/ ListRevoked \/ TerminateRevoked

\* A call of a backend leaves a request.
LEMMA GoesOn ==
    ASSUME Tables, Asking, Living, Goes
    PROVE  req' \in Requests
<1> DEFINE Emails == {u.email : u \in Anyone}
<1>0. ASSUME req # None PROVE req \in Requests
  BY <1>0 DEF Asking
<1>3. ASSUME NEW b \in Backend, Table(b)
      PROVE  req' \in Requests
  <2>1. req \in Requests
    BY <1>3, <1>0 DEF Table, At
  <2> DEFINE removed == IF req.op = "apply" THEN RemovedBy(b, users[b], req.list)
                        ELSE DOMAIN users[b] \ DOMAIN Replaced(b, req.list)
             R == IF b = "ikev2" THEN removed ELSE {}
  <2>2. removed \in SUBSET (Name \cup Emails)
    <3>1. req.list \in Seq(Anyone)
      BY <2>1 DEF Requests
    <3>2. RemovedBy(b, users[b], req.list) \subseteq Emails
      <4>1. \A i \in DOMAIN req.list : req.list[i] \in Anyone
        BY <3>1
      <4> QED
        BY <4>1 DEF RemovedBy
    <3>3. DOMAIN users[b] \ DOMAIN Replaced(b, req.list) \subseteq Name
      BY DEF Tables
    <3> QED
      BY <3>2, <3>3
  <2>3. PICK at \in {"down", "load"} :
           req' = [req EXCEPT !.left = @ \ {b}, !.b = b, !.removed = R, !.at = at]
    BY <1>3 DEF Table
  <2>4. R \in SUBSET (Name \cup Emails)
    BY <2>2
  <2> HIDE DEF R, removed
  <2> QED
    BY <2>1, <2>3, <2>4 DEF Requests
<1>4. CASE Load
  <2>1. req \in Requests
    BY <1>4, <1>0 DEF Load, At
  <2>2. PICK at \in {"next", "unload"}, err \in BOOLEAN : req' = [req EXCEPT !.at = at, !.err = err]
    <3>1. req.err \in BOOLEAN
      BY <2>1 DEF Requests
    <3>2. req' = [req EXCEPT !.at = IF req.removed = {} THEN "next" ELSE "unload"]
          \/ req' = [req EXCEPT !.err = TRUE, !.at = IF req.removed = {} THEN "next" ELSE "unload"]
      BY <1>4 DEF Load, LoadThen, LoadFails, Goto
    <3>3. \A at : [req EXCEPT !.at = at] = [req EXCEPT !.at = at, !.err = req.err]
      BY <2>1 DEF Requests
    <3>4. \A at : [req EXCEPT !.err = TRUE, !.at = at] = [req EXCEPT !.at = at, !.err = TRUE]
      BY <2>1 DEF Requests
    <3> QED
      BY <3>1, <3>2, <3>3, <3>4
  <2> QED
    BY <2>1, <2>2 DEF Requests
<1>5. CASE UnloadShared
  <2>1. req \in Requests /\ req' = [req EXCEPT !.at = "list"]
    BY <1>5, <1>0 DEF UnloadShared, At, Goto
  <2> QED
    BY <2>1 DEF Requests
<1>6. CASE ListRevoked
  <2>1. req \in Requests
    BY <1>6, <1>0 DEF ListRevoked, At
  <2> DEFINE V == {i \in listSAs : session[i].user \in req.removed}
             W == {<<i, session[i].rank>> : i \in V}
  <2>2. W \in SUBSET (({"ike", "ppp"} \X Nat) \X Nat)
    <3>1. ASSUME NEW i \in V
          PROVE  i \in {"ike", "ppp"} \X Nat /\ session[i].rank \in Nat
      BY DEF Living, Id, Live, listSAs
    <3> QED
      BY <3>1
  <2>3. \/ req' = [req EXCEPT !.victims = W, !.at = "next"]
        \/ req' = [req EXCEPT !.victims = W, !.at = "kill"]
        \/ req' = [req EXCEPT !.at = "next"]
    BY <1>6 DEF ListRevoked, Goto
  <2> HIDE DEF W
  <2>4. ASSUME NEW at \in {"next", "kill"}
        PROVE  [req EXCEPT !.victims = W, !.at = at] \in Requests
    BY <2>1, <2>2 DEF Requests
  <2>5. [req EXCEPT !.at = "next"] \in Requests
    BY <2>1 DEF Requests
  <2> QED
    BY <2>3, <2>4, <2>5
<1>7. CASE TerminateRevoked
  <2>1. req \in Requests
    BY <1>7, <1>0 DEF TerminateRevoked, At
  <2>2. PICK v \in req.victims, at \in {"next", "kill"} :
            req' = [req EXCEPT !.victims = @ \ {v}, !.at = at]
    BY <1>7 DEF TerminateRevoked
  <2> QED
    BY <2>1, <2>2 DEF Requests
<1>8. ASSUME NEW b \in Backend, Down(b)
      PROVE  req' \in Requests
  <2>1. req \in Requests /\ req' = [req EXCEPT !.at = "up"]
    BY <1>8, <1>0 DEF Down, At, Goto
  <2> QED
    BY <2>1 DEF Requests
<1>9. ASSUME NEW b \in Backend, Up(b)
      PROVE  req' \in Requests
  <2>1. req \in Requests
    BY <1>9, <1>0 DEF Up, At
  <2>2. \/ req' = [req EXCEPT !.at = "next"]
        \/ req' = [req EXCEPT !.err = TRUE, !.at = "next"]
    BY <1>9 DEF Up, Goto, LoadFails
  <2>3. [req EXCEPT !.at = "next"] \in Requests
    BY <2>1 DEF Requests
  <2>4. [req EXCEPT !.err = TRUE, !.at = "next"] \in Requests
    BY <2>1 DEF Requests
  <2> QED
    BY <2>2, <2>3, <2>4
<1> QED
  BY <1>3, <1>4, <1>5, <1>6, <1>7, <1>8, <1>9 DEF Goes

\* The request under way.
LEMMA AskingStep ==
    ASSUME Tables, Asking, Living, [Next]_vars
    PROVE  Asking'
<1>0. ASSUME req # None PROVE req \in Requests
  BY <1>0 DEF Asking
<1>1. CASE Asks
  <2>1. PICK op \in {"apply", "replace", "restart"}, named \in Arrivals :
             \/ Request(op, named, <<>>, named)
             \/ op = "apply" /\ named # <<>> /\ Request(op, <<Head(named)>>, Tail(named), named)
    BY <1>1 DEF Asks
  <2>2. named \in Seq(Anyone)
    BY ArrivalsType
  <2>3. ASSUME NEW list \in Seq(Anyone), NEW more \in Seq(Anyone), Request(op, list, more, named)
        PROVE  Asking'
    BY <2>3 DEF Request, Asking, Requests, Tables
  <2>4. <<>> \in Seq(Anyone)
    OBVIOUS
  <2>5. named # <<>> => <<Head(named)>> \in Seq(Anyone) /\ Tail(named) \in Seq(Anyone)
    BY <2>2
  <2> QED
    BY <2>1, <2>2, <2>3, <2>4, <2>5
<1>2. CASE Refused
  BY <1>2 DEF Refused, Asking
<1>3. CASE Goes
  BY <1>3, GoesOn DEF Asking
<1>10. CASE Answer
  <2>1. req \in Requests
    BY <1>10, <1>0 DEF Answer
  <2>2. CASE req' = None
    BY <2>2 DEF Asking
  <2>3. CASE req' # None
    <3>1. /\ req.more # <<>>
          /\ req' = [req EXCEPT !.list = <<Head(req.more)>>, !.more = Tail(req.more), !.left = node]
      BY <1>10, <2>3 DEF Answer
    <3>2. req.more \in Seq(Anyone) /\ node \in SUBSET Backend
      BY <2>1 DEF Requests, Tables
    <3>3. <<Head(req.more)>> \in Seq(Anyone) /\ Tail(req.more) \in Seq(Anyone)
      BY <3>1, <3>2
    <3> QED
      BY <2>1, <3>1, <3>2, <3>3 DEF Asking, Requests
  <2> QED
    BY <2>2, <2>3
<1>11. CASE Connects \/ Traffic \/ Rekey
  BY <1>11 DEF Connects, Traffic, Rekey, RekeyIke, RekeyChild, LiveFrame, reqVars, Asking
<1>12. CASE Loop
  BY <1>12 DEF Loop, Asking, reqVars
<1> QED
  BY <1>1, <1>2, <1>3, <1>10, <1>11, <1>12, Steps DEF Goes

\* There is a free ppp interface, and pppd takes the first.
LEMMA FreePppType ==
    ASSUME Living
    PROVE  FreePpp \in Nat
<1> DEFINE X == {n \in 0..clock : <<"ppp", n>> \notin DOMAIN session}
<1>1. clock \in Nat /\ IsFiniteSet(PppIds) /\ Cardinality(PppIds) < clock
  BY FS_Subset DEF Living, PppIds
<1>2. X # {}
  <2> SUFFICES ASSUME X = {} PROVE FALSE
    OBVIOUS
  <2> DEFINE f == [n \in 0..clock |-> <<"ppp", n>>]
  <2>1. f \in [0..clock -> PppIds]
    BY DEF PppIds
  <2>2. IsFiniteSet(0..clock) /\ Cardinality(0..clock) = clock + 1
    BY <1>1, FS_Interval
  <2>3. Cardinality(PppIds) \in Nat
    BY <1>1, FS_CardinalityType
  <2>4. Cardinality(PppIds) < Cardinality(0..clock)
    BY <1>1, <2>2, <2>3
  <2>5. PICK x \in 0..clock, y \in 0..clock : x # y /\ f[x] = f[y]
    <3> HIDE DEF f
    <3> QED
      BY <1>1, <2>1, <2>2, <2>4, FS_PigeonHole
  <2> QED
    BY <2>5
<1>3. X \in SUBSET Nat
  BY <1>1
<1>4. PICK n \in X : \A m \in X : n <= m
  <2> HIDE DEF X
  <2> QED
    BY <1>2, <1>3, LeastExists
<1>5. n \in 0..clock /\ <<"ppp", n>> \notin DOMAIN session
  OBVIOUS
<1>6. ASSUME NEW m \in 0..(n - 1)
      PROVE  <<"ppp", m>> \in DOMAIN session
  <2>1. m \in 0..clock /\ ~(n <= m)
    BY <1>1, <1>5
  <2> QED
    BY <1>4, <2>1
<1>7. \E k \in 0..clock : /\ <<"ppp", k>> \notin DOMAIN session
                          /\ \A m \in 0..(k - 1) : <<"ppp", m>> \in DOMAIN session
  BY <1>5, <1>6
<1>8. FreePpp \in 0..clock
  BY <1>7 DEF FreePpp
<1> QED
  BY <1>1, <1>8

\* Sessions that end.
LEMMA LivingShrinks ==
    ASSUME Living, Shrinks, sa' \in Nat
    PROVE  Living'
<1>1. IsFiniteSet(DOMAIN session')
  BY FS_Subset DEF Living, Shrinks
<1>2. \A i \in DOMAIN session' : session'[i] \in Live
  BY DEF Living, Shrinks, Live
<1>3. PppIds' \subseteq PppIds /\ IsFiniteSet(PppIds)
  BY FS_Subset DEF Living, Shrinks, PppIds
<1>4. /\ Cardinality(PppIds') <= Cardinality(PppIds)
      /\ Cardinality(PppIds') \in Nat /\ Cardinality(PppIds) \in Nat
  BY <1>3, FS_Subset, FS_CardinalityType
<1> QED
  BY <1>1, <1>2, <1>4 DEF Living, Shrinks

\* The sessions, and the numbers they are known by.
LEMMA LivingStep ==
    ASSUME Tables, Asking, Living, [Next]_vars
    PROVE  Living'
<1>1. CASE Asks
  <2>1. UNCHANGED liveVars
    BY <1>1 DEF Asks, Request
  <2> QED
    BY <2>1, SameShrinks, LivingShrinks DEF Living
<1>2. CASE Refused
  BY <1>2, SameShrinks, LivingShrinks DEF Refused, Living
<1>3. CASE (\E b \in Backend : Table(b) \/ Up(b)) \/ Load \/ UnloadShared \/ ListRevoked \/ Answer
  <2>1. UNCHANGED liveVars
    BY <1>3 DEF Table, Up, Load, UnloadShared, ListRevoked, Answer
  <2> QED
    BY <2>1, SameShrinks, LivingShrinks DEF Living
<1>4. CASE TerminateRevoked
  <2>1. Shrinks /\ sa' = sa
    BY <1>4, EndsShrinks, SameShrinks DEF TerminateRevoked
  <2> QED
    BY <2>1, LivingShrinks DEF Living
<1>5. ASSUME NEW b \in Backend, Down(b)
      PROVE  Living'
  <2>1. Shrinks /\ sa' \in {sa, 1}
    BY <1>5, SameShrinks, WithoutShrinks DEF Down, Ikev2Down, PppDown, EndWith
  <2> QED
    BY <2>1, LivingShrinks DEF Living
<1>6. CASE Connects
  <2>1. PICK i \in Id, s \in Live :
            /\ session' = Put(session, i, s) /\ sa' \in {sa, sa + 1}
            /\ clock' = clock + 1 /\ carried' = carried /\ again' = again
    <3>0. PICK b \in running : \E x \in DOMAIN secrets[b] :
            IF b = "ikev2"
            THEN /\ \E ip \in Address : session' = Put(session, <<"ike", sa>>, Session(b, x, ip))
                 /\ sa' = sa + 1
            ELSE session' = Put(session, <<"ppp", FreePpp>>, Session(b, x, clock)) /\ UNCHANGED sa
      BY <1>6 DEF Connects
    <3>1. PICK u \in DOMAIN secrets[b] :
            IF b = "ikev2"
            THEN /\ \E ip \in Address : session' = Put(session, <<"ike", sa>>, Session(b, u, ip))
                 /\ sa' = sa + 1
            ELSE session' = Put(session, <<"ppp", FreePpp>>, Session(b, u, clock)) /\ UNCHANGED sa
      BY <3>0
    <3>2. b \in Backend /\ u \in Name
      BY DEF Tables
    <3>3. \A r \in Nat : Session(b, u, r) \in Live
      BY <3>2 DEF Session, Live
    <3>4. <<"ike", sa>> \in Id /\ <<"ppp", FreePpp>> \in Id /\ clock \in Nat /\ Address \subseteq Nat
      BY FreePppType, SessionsAssumption DEF Id, Living
    <3>5. clock' = clock + 1 /\ carried' = carried /\ again' = again
      BY <1>6 DEF Connects
    <3> QED
      BY <3>1, <3>3, <3>4, <3>5
  <2>2. DOMAIN session' = DOMAIN session \cup {i}
    BY <2>1 DEF Put
  <2>3. IsFiniteSet(DOMAIN session')
    BY <2>2, FS_AddElement DEF Living
  <2>4. \A j \in DOMAIN session' : session'[j] \in Live
    BY <2>1 DEF Put, Living
  <2>5. PppIds' \subseteq PppIds \cup {i} /\ IsFiniteSet(PppIds)
    BY <2>2, FS_Subset DEF PppIds, Living
  <2>6. IsFiniteSet(PppIds \cup {i}) /\ Cardinality(PppIds \cup {i}) <= Cardinality(PppIds) + 1
    <3>1. PICK P : P = PppIds
      OBVIOUS
    <3>2. IsFiniteSet(P) /\ Cardinality(P) \in Nat
      BY <2>5, <3>1, FS_CardinalityType
    <3>3. /\ IsFiniteSet(P \cup {i})
          /\ Cardinality(P \cup {i}) = IF i \in P THEN Cardinality(P) ELSE Cardinality(P) + 1
      BY ONLY <3>2, FS_AddElement
    <3> QED
      BY ONLY <3>1, <3>2, <3>3
  <2>7. Cardinality(PppIds') <= Cardinality(PppIds \cup {i})
    BY <2>5, <2>6, FS_Subset
  <2>8. /\ Cardinality(PppIds) \in Nat /\ Cardinality(PppIds \cup {i}) \in Nat
        /\ Cardinality(PppIds') \in Nat
    BY <2>5, <2>6, FS_Subset, FS_CardinalityType
  <2>9. Cardinality(PppIds') < clock'
    BY <2>1, <2>6, <2>7, <2>8 DEF Living
  <2> QED
    BY <2>1, <2>2, <2>3, <2>4, <2>9 DEF Living
<1>7. CASE Traffic
  <2>1. PICK i \in DOMAIN session :
            /\ session' = [session EXCEPT ![i].bytes = @ + 1]
            /\ carried' = [carried EXCEPT ![session[i].b][session[i].user] = @ + 1]
    BY <1>7 DEF Traffic
  <2>2. UNCHANGED <<clock, sa, again>>
    BY <1>7 DEF Traffic
  <2>3. DOMAIN session' = DOMAIN session
    BY <2>1
  <2>4. PppIds' = PppIds
    BY <2>3 DEF PppIds
  <2>5. \A j \in DOMAIN session : session'[j] \in Live
    BY <2>1 DEF Living, Live
  <2>6. carried' \in [Backend -> [Name -> Nat]]
    BY <2>1 DEF Living, Live
  <2> QED
    BY <2>2, <2>3, <2>4, <2>5, <2>6 DEF Living
<1>8. CASE RekeyIke
  <2>1. PICK i \in listSAs :
            /\ session' = Put(Without(session, {i}), <<"ike", sa>>, session[i])
            /\ again' = [again EXCEPT ![session[i].user] = @ + session[i].bytes]
    BY <1>8 DEF RekeyIke
  <2>2. sa' = sa + 1 /\ UNCHANGED <<clock, carried>>
    BY <1>8 DEF RekeyIke
  <2>3. i \in DOMAIN session /\ i[1] = "ike" /\ session[i] \in Live
    BY DEF listSAs, Living
  <2>4. DOMAIN session' = (DOMAIN session \ {i}) \cup {<<"ike", sa>>}
    BY <2>1 DEF Put, Without
  <2>5. IsFiniteSet(DOMAIN session')
    <3>1. PICK P : P = DOMAIN session \ {i}
      OBVIOUS
    <3>2. IsFiniteSet(P)
      BY <3>1, FS_RemoveElement DEF Living
    <3>3. IsFiniteSet(P \cup {<<"ike", sa>>})
      BY ONLY <3>2, FS_AddElement
    <3> QED
      BY <2>4, <3>1, <3>3
  <2>6. \A j \in DOMAIN session' : session'[j] \in Live
    BY <2>1, <2>3 DEF Put, Without, Living
  <2>7. DOMAIN session' \subseteq Id
    BY <2>4 DEF Id, Living
  <2>8. PppIds' = PppIds
    BY <2>3, <2>4 DEF PppIds
  <2>9. again' \in [Name -> Nat]
    BY <2>1, <2>3 DEF Living, Live
  <2> QED
    BY <2>2, <2>5, <2>6, <2>7, <2>8, <2>9 DEF Living
<1>9. CASE RekeyChild
  <2>1. PICK i \in listSAs : \E n \in 0..session[i].bytes :
            /\ session' = [session EXCEPT ![i].bytes = n]
            /\ again' = [again EXCEPT ![session[i].user] = @ + n]
    BY <1>9 DEF RekeyChild
  <2>2. PICK n \in 0..session[i].bytes :
            /\ session' = [session EXCEPT ![i].bytes = n]
            /\ again' = [again EXCEPT ![session[i].user] = @ + n]
    BY <2>1
  <2>3. UNCHANGED <<clock, sa, carried>>
    BY <1>9 DEF RekeyChild
  <2>4. i \in DOMAIN session /\ session[i] \in Live /\ n \in Nat
    BY DEF listSAs, Living, Live
  <2>5. DOMAIN session' = DOMAIN session
    BY <2>2
  <2>6. PppIds' = PppIds
    BY <2>5 DEF PppIds
  <2>7. \A j \in DOMAIN session : session'[j] \in Live
    BY <2>2, <2>4 DEF Living, Live
  <2>8. again' \in [Name -> Nat]
    BY <2>2, <2>4 DEF Living, Live
  <2> QED
    BY <2>3, <2>5, <2>6, <2>7, <2>8 DEF Living
<1>10. CASE Loop
  BY <1>10, LivingShrinks DEF Loop, Living
<1> QED
  BY <1>1, <1>2, <1>3, <1>4, <1>5, <1>6, <1>7, <1>8, <1>9, <1>10, Steps DEF Rekey

\* Everything above holds all the time.
LEMMA AccessStep == Access /\ [Next]_vars => Access'
  BY TablesStep, AskingStep, LivingStep DEF Access

-----------------------------------------------------------------------------
(* Revocation.                                                             *)

\* Whom the IKEv2 table has, and whom charon accepts.
Known == DOMAIN users["ikev2"]
Secrets == DOMAIN secrets["ikev2"]

\* Where a request is in the revocation of the users that it removed from IKEv2: their
\* secrets are still loaded, or only their SAs are left, or only the SAs that are listed.
Revoking ==
    /\ req = None \/ req.b # "ikev2" \/ req.at \in {"next", "up"} => Clean
    /\ req # None /\ req.b = "ikev2" =>
         /\ req.at \in {"load", "unload"} =>
              /\ Secrets \subseteq Known \cup req.removed
              /\ \A i \in listSAs : session[i].user \in Known \cup req.removed
         /\ req.at = "list" =>
              /\ Secrets \subseteq Known
              /\ \A i \in listSAs : session[i].user \in Known \cup req.removed
         /\ req.at = "kill" =>
              /\ Secrets \subseteq Known
              /\ \A i \in listSAs : session[i].user \in Known \/ \E v \in req.victims : v[1] = i

\* Once something lapsed nothing is promised.
RevokingInv == lapsed = TRUE \/ Revoking

\* SAs that are left after some ended are SAs of the same users.
LEMMA SAsShrink ==
    ASSUME Living, Shrinks
    PROVE  \A i \in listSAs' : i \in listSAs /\ session'[i].user = session[i].user
BY DEF Living, Shrinks, listSAs, Live

\* Steps that end sessions at most.
LEMMA RevokingShrinks ==
    ASSUME Living, Revoking, Shrinks, UNCHANGED <<users, secrets, req>>
    PROVE  Revoking'
<1>1. \A i \in listSAs' : i \in listSAs /\ session'[i].user = session[i].user
  BY SAsShrink
<1>2. Known' = Known /\ Secrets' = Secrets
  BY DEF Known, Secrets
<1>3. Clean => Clean'
  BY <1>1, <1>2 DEF Clean, Known, Secrets
<1> QED
  BY <1>1, <1>2, <1>3 DEF Revoking

\* The next backend takes its list.
LEMMA RevokingTable ==
    ASSUME Access, Revoking, NEW b \in Backend, Table(b)
    PROVE  Revoking'
<1> DEFINE table == IF req.op = "apply" THEN ApplyUsers(b, users[b], req.list) ELSE Replaced(b, req.list)
           removed == IF req.op = "apply" THEN RemovedBy(b, users[b], req.list)
                      ELSE DOMAIN users[b] \ DOMAIN table
<1>1. req \in Requests /\ req # None /\ req.at = "next"
  BY DEF Table, At, Access, Asking
<1>2. Clean
  BY <1>1 DEF Revoking
<1>3. /\ users' = [users EXCEPT ![b] = table]
      /\ req'.b = b /\ req'.removed = IF b = "ikev2" THEN removed ELSE {}
      /\ req'.at \in {"down", "load"}
  BY <1>1 DEF Table, Requests
<1>4. UNCHANGED <<secrets, session>>
  BY DEF Table, liveVars
<1>5. DOMAIN users[b] \subseteq DOMAIN table \cup removed
  <2>1. req.list \in Seq(Anyone)
    BY <1>1 DEF Requests
  <2>2. DOMAIN users[b] \subseteq DOMAIN ApplyUsers(b, users[b], req.list) \cup RemovedBy(b, users[b], req.list)
    BY <2>1, RemovedIsReported
  <2> QED
    BY <2>2
<1>6. listSAs' = listSAs /\ Secrets' = Secrets
  BY <1>4 DEF listSAs, Secrets
<1>9. req' # None
  BY GoesOn, SessionsAssumption DEF Access, Goes
<1> HIDE DEF table, removed
<1>7. CASE b = "ikev2"
  <2>1. Known' = DOMAIN table
    BY <1>3, <1>7 DEF Known, Access, Tables
  <2>2. Known \subseteq Known' \cup req'.removed
    BY <2>1, <1>3, <1>5, <1>7 DEF Known
  <2>3. Secrets \subseteq Known /\ \A i \in listSAs : session[i].user \in Known
    BY <1>2 DEF Clean, Known, Secrets
  <2>4. /\ Secrets' \subseteq Known' \cup req'.removed
        /\ \A i \in listSAs' : session'[i].user \in Known' \cup req'.removed
    BY <2>2, <2>3, <1>4, <1>6
  <2> QED
    BY <2>4, <1>3, <1>7, <1>9 DEF Revoking
<1>8. CASE b # "ikev2"
  <2>1. Known' = Known
    BY <1>3, <1>8 DEF Known, Access, Tables
  <2>2. Clean'
    BY <2>1, <1>2, <1>4, <1>6 DEF Clean, Known, Secrets
  <2> QED
    BY <2>2, <1>3, <1>8 DEF Revoking
<1> QED
  BY <1>7, <1>8

\* What charon accepts is loaded.
LEMMA RevokingLoad ==
    ASSUME Access, Revoking, Load
    PROVE  Revoking'
<1>1. req \in Requests /\ req # None /\ req.at = "load"
  BY DEF Load, At, Access, Asking
<1>2. UNCHANGED <<users, session>>
  BY DEF Load, liveVars
<1>3. secrets' = secrets \/ secrets' = [secrets EXCEPT ![req.b] = Loaded(req.b)]
  BY DEF Load
<1>4. /\ req'.b = req.b /\ req'.removed = req.removed
      /\ req'.at = IF req.removed = {} THEN "next" ELSE "unload"
  BY <1>1 DEF Load, LoadThen, LoadFails, Goto, Requests
<1>5. listSAs' = listSAs /\ Known' = Known
  BY <1>2 DEF listSAs, Known
<1>8. req' # None
  BY GoesOn, SessionsAssumption DEF Access, Goes
<1>6. CASE req.b = "ikev2"
  <2>1. Secrets' \subseteq Secrets \cup Known
    BY <1>3, <1>6 DEF Secrets, Known, Loaded, Merge, Passwords, Access, Tables, Backend
  <2>2. Secrets' \subseteq Known \cup req.removed
    BY <2>1, <1>1, <1>6 DEF Revoking
  <2>3. \A i \in listSAs : session[i].user \in Known \cup req.removed
    BY <1>1, <1>6 DEF Revoking
  <2>4. req.removed = {} => Clean'
    BY <2>2, <2>3, <1>2, <1>5 DEF Clean, Known, Secrets
  <2> QED
    BY <2>2, <2>3, <2>4, <1>2, <1>4, <1>5, <1>6, <1>8 DEF Revoking
<1>7. CASE req.b # "ikev2"
  <2>1. Secrets' = Secrets
    BY <1>3, <1>7 DEF Secrets, Access, Tables, Backend
  <2>2. Clean'
    BY <2>1, <1>2, <1>5, <1>7 DEF Revoking, Clean, Known, Secrets
  <2> QED
    BY <2>2, <1>4, <1>7 DEF Revoking
<1> QED
  BY <1>6, <1>7

\* The secrets of the users that were removed are unloaded.
LEMMA RevokingUnload ==
    ASSUME Access, RevokingInv, UnloadShared
    PROVE  RevokingInv'
<1>1. req \in Requests /\ req # None /\ req.at = "unload" /\ req' # None
  BY GoesOn, SessionsAssumption DEF UnloadShared, At, Access, Asking, Goes
<1>2. UNCHANGED <<users, session>>
  BY DEF UnloadShared, liveVars
<1>3. req'.b = req.b /\ req'.removed = req.removed /\ req'.at = "list"
  BY <1>1 DEF UnloadShared, Goto, Requests
<1>4. listSAs' = listSAs /\ Known' = Known
  BY <1>2 DEF listSAs, Known
<1>5. CASE lapsed' = TRUE
  BY <1>5 DEF RevokingInv
<1>6. CASE lapsed' # TRUE
  <2>0. \/ /\ secrets' = [secrets EXCEPT !["ikev2"] = Without(secrets["ikev2"], req.removed)]
           /\ lapsed' = lapsed
        \/ lapsed' = TRUE
    BY DEF UnloadShared
  <2>1. secrets' = [secrets EXCEPT !["ikev2"] = Without(secrets["ikev2"], req.removed)] /\ lapsed # TRUE
    BY <2>0, <1>6
  <2>2. Revoking
    BY <2>1 DEF RevokingInv
  <2>3. Secrets' = Secrets \ req.removed
    BY <2>1 DEF Secrets, Without, Access, Tables, Backend
  <2>4. CASE req.b = "ikev2"
    BY <1>1, <1>2, <1>3, <1>4, <2>2, <2>3, <2>4 DEF Revoking, RevokingInv
  <2>5. CASE req.b # "ikev2"
    <3>1. Clean
      BY <2>2, <2>5 DEF Revoking
    <3>2. Clean'
      BY <3>1, <1>2, <1>4, <2>3 DEF Clean, Secrets, Known
    <3> QED
      BY <3>2, <2>5, <1>3 DEF Revoking, RevokingInv
  <2> QED
    BY <2>4, <2>5
<1> QED
  BY <1>5, <1>6

\* The SAs of the users that were removed are listed.
LEMMA RevokingList ==
    ASSUME Access, RevokingInv, ListRevoked
    PROVE  RevokingInv'
<1> DEFINE V == {i \in listSAs : session[i].user \in req.removed}
           W == {<<i, session[i].rank>> : i \in V}
<1>1. req \in Requests /\ req # None /\ req.at = "list" /\ req' # None
  BY GoesOn, SessionsAssumption DEF ListRevoked, At, Access, Asking, Goes
<1>2. UNCHANGED <<users, secrets, session>>
  BY DEF ListRevoked, liveVars, listVars
<1>3. listSAs' = listSAs /\ Known' = Known /\ Secrets' = Secrets
  BY <1>2 DEF listSAs, Known, Secrets
<1>4. Clean => Clean'
  BY <1>2, <1>3 DEF Clean, Known, Secrets
<1>5. CASE lapsed' = TRUE
  BY <1>5 DEF RevokingInv
<1>6. CASE lapsed' # TRUE
  <2>1. /\ req' = [req EXCEPT !.victims = W, !.at = IF V = {} THEN "next" ELSE "kill"]
        /\ lapsed # TRUE
    BY <1>6 DEF ListRevoked
  <2>2. Revoking
    BY <2>1 DEF RevokingInv
  <2>3. req'.b = req.b /\ req'.victims = W /\ req'.at = IF V = {} THEN "next" ELSE "kill"
    BY <1>1, <2>1 DEF Requests
  <2>4. CASE req.b = "ikev2"
    <3>1. Secrets \subseteq Known /\ \A i \in listSAs : session[i].user \in Known \cup req.removed
      BY <1>1, <2>2, <2>4 DEF Revoking
    <3>2. \A i \in listSAs : session[i].user \in Known \/ \E v \in W : v[1] = i
      <4>1. \A i \in V : <<i, session[i].rank>> \in W /\ <<i, session[i].rank>>[1] = i
        OBVIOUS
      <4>2. \A i \in listSAs : session[i].user \in Known \/ i \in V
        BY <3>1
      <4> HIDE DEF V, W
      <4> QED
        BY <4>1, <4>2
    <3>3. V = {} => Clean
      BY <3>1 DEF Clean, Known, Secrets
    <3> HIDE DEF V, W
    <3> QED
      BY <3>1, <3>2, <3>3, <2>3, <2>4, <1>1, <1>2, <1>3, <1>4 DEF Revoking, RevokingInv
  <2>5. CASE req.b # "ikev2"
    BY <2>2, <2>3, <2>5, <1>4 DEF Revoking, RevokingInv
  <2> QED
    BY <2>4, <2>5
<1> QED
  BY <1>5, <1>6

\* One SA of them after the other is closed.
LEMMA RevokingKill ==
    ASSUME Access, RevokingInv, TerminateRevoked
    PROVE  RevokingInv'
<1>1. req \in Requests /\ req # None /\ req.at = "kill" /\ req' # None
  BY GoesOn, SessionsAssumption DEF TerminateRevoked, At, Access, Asking, Goes
<1>2. UNCHANGED <<users, secrets>>
  BY DEF TerminateRevoked, listVars
<1>3. Known' = Known /\ Secrets' = Secrets
  BY <1>2 DEF Known, Secrets
<1>5. CASE lapsed' = TRUE
  BY <1>5 DEF RevokingInv
<1>6. CASE lapsed' # TRUE
  <2>1. PICK v \in req.victims :
          /\ req' = [req EXCEPT !.victims = @ \ {v}, !.at = IF req.victims = {v} THEN "next" ELSE "kill"]
          /\ Ends(v) /\ lapsed # TRUE
    <3>1. PICK v \in req.victims :
            /\ req' = [req EXCEPT !.victims = @ \ {v}, !.at = IF req.victims = {v} THEN "next" ELSE "kill"]
            /\ (Ends(v) /\ lapsed' = lapsed) \/ lapsed' = TRUE
      BY DEF TerminateRevoked
    <3> QED
      BY <3>1, <1>6
  <2>2. Revoking
    BY <2>1 DEF RevokingInv
  <2>3. /\ req'.b = req.b /\ req'.victims = req.victims \ {v}
        /\ req'.at = IF req.victims = {v} THEN "next" ELSE "kill"
    BY <1>1, <2>1 DEF Requests
  <2>4. Shrinks
    BY <2>1, EndsShrinks
  <2>5. \A i \in listSAs' : i \in listSAs /\ session'[i].user = session[i].user
    BY <2>4, SAsShrink DEF Access
  <2>6. Clean => Clean'
    BY <2>5, <1>3 DEF Clean, Known, Secrets
  <2>7. CASE req.b = "ikev2"
    <3>1. /\ Secrets \subseteq Known
          /\ \A i \in listSAs : session[i].user \in Known \/ \E w \in req.victims : w[1] = i
      BY <1>1, <2>2, <2>7 DEF Revoking
    <3>2. v[1] \notin listSAs'
      BY <2>1 DEF Ends, listSAs, Without
    <3>3. \A i \in listSAs' : session'[i].user \in Known' \/ \E w \in req.victims \ {v} : w[1] = i
      BY <3>1, <3>2, <2>5, <1>3
    <3>4. req.victims = {v} => Clean'
      BY <3>1, <3>3, <1>3 DEF Clean, Known, Secrets
    <3> QED
      BY <3>1, <3>3, <3>4, <2>3, <2>7, <1>1, <1>3 DEF Revoking, RevokingInv
  <2>8. CASE req.b # "ikev2"
    BY <2>2, <2>3, <2>6, <2>8 DEF Revoking, RevokingInv
  <2> QED
    BY <2>7, <2>8
<1> QED
  BY <1>5, <1>6

\* A backend stops for a restart.
LEMMA RevokingDown ==
    ASSUME Access, RevokingInv, NEW b \in Backend, Down(b)
    PROVE  RevokingInv'
<1>1. req \in Requests /\ req # None /\ req.at = "down" /\ req.b = b /\ req' # None
  BY GoesOn, SessionsAssumption DEF Down, At, Access, Asking, Goes
<1>2. users' = users /\ req'.b = b /\ req'.at = "up"
  BY <1>1 DEF Down, Goto, Requests
<1>3. Known' = Known
  BY <1>2 DEF Known
<1>4. CASE lapsed' = TRUE
  BY <1>4 DEF RevokingInv
<1>5. CASE lapsed' # TRUE /\ b = "ikev2"
  <2>1. Ikev2Down
    BY <1>5 DEF Down
  <2>2. CASE /\ secrets' = [secrets EXCEPT !["ikev2"] = Nothing]
             /\ session' = Without(session, listSAs)
    <3>1. Secrets' = {} /\ listSAs' = {}
      BY <2>2 DEF Secrets, Nothing, Without, listSAs, Access, Tables, Backend
    <3>2. Clean'
      BY <3>1 DEF Clean, Secrets
    <3> QED
      BY <3>2, <1>1, <1>2, <1>5 DEF Revoking, RevokingInv
  <2>3. CASE Clean /\ UNCHANGED <<secrets, session>>
    <3>1. Clean'
      BY <2>3, <1>2 DEF Clean, listSAs
    <3> QED
      BY <3>1, <1>1, <1>2, <1>5 DEF Revoking, RevokingInv
  <2> QED
    BY <2>1, <2>2, <2>3, <1>5 DEF Ikev2Down, EndWith, liveVars
<1>6. CASE lapsed' # TRUE /\ b # "ikev2"
  <2>1. PppDown(b)
    BY <1>6 DEF Down
  <2>2. lapsed # TRUE /\ secrets' = [secrets EXCEPT ![b] = Nothing] /\ Shrinks
    BY <2>1, <1>6, WithoutShrinks DEF PppDown, EndWith
  <2>3. Clean
    BY <2>2, <1>1, <1>6 DEF Revoking, RevokingInv
  <2>4. Secrets' = Secrets
    BY <2>2, <1>6 DEF Secrets, Access, Tables, Backend
  <2>5. Clean'
    BY <2>2, <2>3, <2>4, <1>3, SAsShrink DEF Clean, Known, Secrets, Access
  <2> QED
    BY <2>5, <1>2, <1>6 DEF Revoking, RevokingInv
<1> QED
  BY <1>4, <1>5, <1>6

\* A backend starts again, with the secrets of its table.
LEMMA RevokingUp ==
    ASSUME Access, Revoking, NEW b \in Backend, Up(b)
    PROVE  Revoking'
<1>1. req \in Requests /\ req # None /\ req.at = "up" /\ req.b = b /\ req' # None
  BY GoesOn, SessionsAssumption DEF Up, At, Access, Asking, Goes
<1>2. UNCHANGED <<users, session>> /\ req'.b = b /\ req'.at = "next"
  BY <1>1 DEF Up, Goto, LoadFails, Requests, liveVars
<1>3. secrets' = secrets \/ secrets' = [secrets EXCEPT ![b] = Loaded(b)]
  BY DEF Up
<1>4. Clean
  BY <1>1 DEF Revoking
<1>5. Secrets' \subseteq Secrets \cup Known
  BY <1>3 DEF Secrets, Known, Loaded, Merge, Passwords, Access, Tables, Backend
<1>6. listSAs' = listSAs /\ Known' = Known
  BY <1>2 DEF listSAs, Known
<1>7. Clean'
  BY <1>2, <1>4, <1>5, <1>6 DEF Clean, Secrets, Known
<1> QED
  BY <1>7, <1>1, <1>2 DEF Revoking

\* A device of a user whose secret is loaded connects.
LEMMA RevokingConnects ==
    ASSUME Access, Revoking, Connects
    PROVE  Revoking'
<1>1. UNCHANGED <<users, secrets, req>>
  BY DEF Connects, LiveFrame, listVars, reqVars
<1>2. Known' = Known /\ Secrets' = Secrets
  BY <1>1 DEF Known, Secrets
<1>3. ASSUME NEW i \in listSAs'
      PROVE  (i \in listSAs /\ session'[i] = session[i]) \/ session'[i].user \in Secrets
  <2>1. PICK b \in running : \E x \in DOMAIN secrets[b] :
          IF b = "ikev2"
          THEN \E ip \in Address : session' = Put(session, <<"ike", sa>>, Session(b, x, ip))
          ELSE session' = Put(session, <<"ppp", FreePpp>>, Session(b, x, clock))
    BY DEF Connects
  <2>2. PICK u \in DOMAIN secrets[b] :
          IF b = "ikev2"
          THEN \E ip \in Address : session' = Put(session, <<"ike", sa>>, Session(b, u, ip))
          ELSE session' = Put(session, <<"ppp", FreePpp>>, Session(b, u, clock))
    BY <2>1
  <2>3. i \in DOMAIN session' /\ i[1] = "ike"
    BY DEF listSAs
  <2>4. CASE b = "ikev2"
    <3>1. PICK ip \in Address : session' = Put(session, <<"ike", sa>>, Session(b, u, ip))
      BY <2>2, <2>4
    <3>2. u \in Secrets
      BY <2>4 DEF Secrets
    <3> QED
      BY <3>1, <3>2, <2>3 DEF Put, Session, listSAs
  <2>5. CASE b # "ikev2"
    <3>1. session' = Put(session, <<"ppp", FreePpp>>, Session(b, u, clock))
      BY <2>2, <2>5
    <3>2. i # <<"ppp", FreePpp>>
      BY <2>3
    <3> QED
      BY <3>1, <3>2, <2>3 DEF Put, listSAs
  <2> QED
    BY <2>4, <2>5
<1>4. Clean => Clean'
  BY <1>2, <1>3 DEF Clean, Known, Secrets
<1>5. Secrets \subseteq Known => \A i \in listSAs' : (i \in listSAs /\ session'[i] = session[i]) \/ session'[i].user \in Known
  BY <1>3
<1> QED
  BY <1>1, <1>2, <1>3, <1>4, <1>5 DEF Revoking

\* Traffic changes no SA's user.
LEMMA RevokingTraffic ==
    ASSUME Access, Revoking, Traffic
    PROVE  Revoking'
<1>1. UNCHANGED <<users, secrets, req>>
  BY DEF Traffic, LiveFrame, listVars, reqVars
<1>2. Known' = Known /\ Secrets' = Secrets
  BY <1>1 DEF Known, Secrets
<1>3. PICK j \in DOMAIN session : session' = [session EXCEPT ![j].bytes = @ + 1]
  BY DEF Traffic
<1>4. \A i \in listSAs' : i \in listSAs /\ session'[i].user = session[i].user
  BY <1>3 DEF listSAs, Access, Living, Live
<1>5. Clean => Clean'
  BY <1>2, <1>4 DEF Clean, Known, Secrets
<1> QED
  BY <1>1, <1>2, <1>4, <1>5 DEF Revoking

\* A rekey changes no SA's user; one of an SA that is listed to be closed is a lapse.
LEMMA RevokingRekey ==
    ASSUME Access, Revoking, Rekey
    PROVE  RevokingInv'
<1>1. UNCHANGED <<users, secrets, req>>
  BY DEF Rekey, RekeyIke, RekeyChild, LiveFrame, listVars, reqVars
<1>2. Known' = Known /\ Secrets' = Secrets
  BY <1>1 DEF Known, Secrets
<1>3. ASSUME \A i \in listSAs' :
                \E j \in listSAs : session'[i].user = session[j].user /\ (i = j \/ j \notin Condemned)
      PROVE  Revoking'
  <2>1. Clean => Clean'
    <3> SUFFICES ASSUME Clean PROVE Clean'
      OBVIOUS
    <3>1. Secrets' \subseteq Known'
      BY <1>2 DEF Clean, Known, Secrets
    <3>2. \A i \in listSAs' : session'[i].user \in Known'
      BY <1>2, <1>3 DEF Clean, Known
    <3> QED
      BY <3>1, <3>2 DEF Clean, Known, Secrets
  <2>2. ASSUME req # None, \A i \in listSAs : session[i].user \in Known \/ \E v \in req.victims : v[1] = i
        PROVE  \A i \in listSAs' : session'[i].user \in Known \/ \E v \in req.victims : v[1] = i
    BY <1>3, <2>2 DEF Condemned
  <2>3. ASSUME NEW S, \A i \in listSAs : session[i].user \in S
        PROVE  \A i \in listSAs' : session'[i].user \in S
    BY <1>3, <2>3
  <2> QED
    BY <1>1, <1>2, <2>1, <2>2, <2>3 DEF Revoking
<1>4. CASE RekeyIke
  <2>1. PICK j \in listSAs :
            /\ session' = Put(Without(session, {j}), <<"ike", sa>>, session[j])
            /\ lapsed' = (lapsed \/ j \in Condemned)
    BY <1>4 DEF RekeyIke
  <2>2. CASE j \in Condemned
    BY <2>1, <2>2 DEF RevokingInv
  <2>3. CASE j \notin Condemned
    <3>1. \A i \in listSAs' : i = <<"ike", sa>> \/ (i \in listSAs /\ i # j)
      BY <2>1 DEF listSAs, Put, Without
    <3>2. \A i \in listSAs' : session'[i] = IF i = <<"ike", sa>> THEN session[j] ELSE session[i]
      BY <2>1, <3>1 DEF listSAs, Put, Without
    <3> QED
      BY <1>3, <2>3, <3>1, <3>2 DEF RevokingInv
  <2> QED
    BY <2>2, <2>3
<1>5. CASE RekeyChild
  <2>1. PICK j \in listSAs : \E n \in 0..session[j].bytes : session' = [session EXCEPT ![j].bytes = n]
    BY <1>5 DEF RekeyChild
  <2>2. \A i \in listSAs' : i \in listSAs /\ session'[i].user = session[i].user
    BY <2>1 DEF listSAs, Access, Living, Live
  <2> QED
    BY <1>3, <2>2 DEF RevokingInv
<1> QED
  BY <1>4, <1>5 DEF Rekey

\* A request begins or is answered.
LEMMA RevokingAnswer ==
    ASSUME Access, Revoking, Asks \/ Refused \/ Answer
    PROVE  Revoking'
<1>1. UNCHANGED <<users, secrets, session>>
  BY DEF Asks, Request, Refused, Answer, listVars, liveVars
<1>2. Clean => Clean'
  BY <1>1 DEF Clean, listSAs
<1>3. CASE Asks
  <2>1. req = None /\ req'.at = "next"
    BY <1>3 DEF Asks, Request
  <2>2. Clean'
    BY <2>1, <1>2 DEF Revoking
  <2> QED
    BY <2>1, <2>2 DEF Revoking
<1>4. CASE Refused
  <2>1. UNCHANGED req /\ listSAs' = listSAs /\ Known' = Known /\ Secrets' = Secrets
    BY <1>1, <1>4 DEF Refused, listSAs, Known, Secrets
  <2> QED
    BY <2>1, <1>1, <1>2 DEF Revoking
<1>5. CASE Answer
  <2>1. req # None /\ req.at = "next" /\ req \in Requests
    BY <1>5 DEF Answer, Access, Asking
  <2>2. req' = None \/ req'.at = "next"
    BY <1>5, <2>1 DEF Answer, Requests
  <2>3. Clean'
    BY <2>1, <1>2 DEF Revoking
  <2> QED
    BY <2>2, <2>3 DEF Revoking
<1> QED
  BY <1>3, <1>4, <1>5

\* A node starts without SAs and with the secrets of its table.
LEMMA RevokingInit == Init => RevokingInv
<1> SUFFICES ASSUME Init PROVE Clean /\ req = None
  BY DEF RevokingInv, Revoking
<1>1. Secrets = Known
  BY DEF Init, Secrets, Known, Passwords, Backend
<1>2. listSAs = {} /\ req = None
  BY DEF Init, listSAs, Nothing
<1> QED
  BY <1>1, <1>2 DEF Clean, Secrets, Known

\* No step lets a revoked user stay or return.
LEMMA RevokingStep ==
    ASSUME Access, RevokingInv, [Next]_vars
    PROVE  RevokingInv'
<1>1. CASE UnloadShared \/ ListRevoked \/ TerminateRevoked \/ \E b \in Backend : Down(b)
  BY <1>1, RevokingUnload, RevokingList, RevokingKill, RevokingDown
<1>2. ASSUME \/ Asks \/ Refused \/ Answer \/ \E b \in Backend : Table(b) \/ Up(b)
             \/ Load \/ Connects \/ Traffic \/ Loop
      PROVE  RevokingInv'
  <2>1. lapsed' = lapsed
    BY <1>2 DEF Asks, Request, Refused, Answer, Table, Up, Load, Connects, Traffic, Loop, histVars
  <2>2. CASE lapsed = TRUE
    BY <2>1, <2>2 DEF RevokingInv
  <2>3. CASE Revoking
    <3>1. ASSUME Loop PROVE Revoking'
      BY <3>1, <2>3, RevokingShrinks DEF Loop, Access, listVars, reqVars
    <3>2. Revoking'
      BY <1>2, <2>3, <3>1, RevokingAnswer, RevokingTable, RevokingUp, RevokingLoad, RevokingConnects,
         RevokingTraffic
    <3> QED
      BY <3>2 DEF RevokingInv
  <2> QED
    BY <2>2, <2>3 DEF RevokingInv
<1>3. CASE Rekey
  <2>1. lapsed = TRUE => lapsed' = TRUE
    BY <1>3 DEF Rekey, RekeyIke, RekeyChild, histVars
  <2> QED
    BY <1>3, <2>1, RevokingRekey DEF RevokingInv
<1> QED
  BY <1>1, <1>2, <1>3, Steps

\* Between requests nobody is connected through IKEv2, or can connect, whom its table
\* does not have, unless a call of a revocation failed, charon renumbered an SA that it
\* had listed or a restart left charon running:
\* the order in which Load, UnloadShared, ListRevoked and TerminateRevoked take the
\* secrets before the SAs leaves nobody a way in while it is under way.
THEOREM RevokedUsersStayOut == Spec => []RevokedStaysOut
<1>1. Init => Access /\ RevokingInv
  BY AccessInit, RevokingInit
<1>2. Access /\ RevokingInv /\ [Next]_vars => (Access /\ RevokingInv)'
  BY AccessStep, RevokingStep
<1>3. RevokingInv => RevokedStaysOut
  BY DEF RevokingInv, Revoking, RevokedStaysOut, Idle
<1> QED
  BY <1>1, <1>2, <1>3, PTL DEF Spec

-----------------------------------------------------------------------------
(* Billing.                                                                *)

\* A poll that has its rows and has not counted them.
Counts(b) == poll[b] # None /\ poll[b].at = "count"

\* The books of a backend: totals, marks and listed rows.
BooksTypes(b) ==
    /\ counted[b] \in [Name -> Nat]
    /\ \A i \in DOMAIN seen[b] : seen[b][i] \in Nat
    /\ Counts(b) => /\ IsFiniteSet(DOMAIN poll[b].rows)
                    /\ \A i \in DOMAIN poll[b].rows :
                          poll[b].rows[i] \in Live /\ (b # "ikev2" => i[1] = "ppp")

\* The books of all backends.
Books ==
    /\ DOMAIN poll = Backend /\ DOMAIN seen = Backend /\ DOMAIN counted = Backend
    /\ \A b \in Backend : BooksTypes(b)

\* Whose traffic is billed together: IKEv2 has the user and the counters of an SA from
\* one list; a PPP backend may read the counters of the next user of an interface.
Whose(b) == IF b = "ikev2" THEN {{u} : u \in Name} ELSE {Name}

\* What a counter has grown by since the marks f.
Over(x, f, i) == IF i \in DOMAIN f /\ x >= f[i] THEN x - f[i] ELSE x

\* What the sessions X of s can still be billed for.
Due(s, f, X) == Sum([i \in X |-> Over(s[i].bytes, f, i)], X)

\* The marks that the sessions are next measured from: those of the last poll, while
\* none is under way.  IKEv2 has the counters that it listed; a PPP backend reads them
\* when it counts, and forgets the interfaces that it did not list.
Mark(b) ==
    IF ~Counts(b) THEN seen[b]
    ELSE IF b = "ikev2" THEN [i \in DOMAIN poll[b].rows |-> poll[b].rows[i].bytes]
    ELSE [i \in DOMAIN seen[b] \cap DOMAIN poll[b].rows |-> seen[b][i]]

\* The sessions, and the listed rows, of the users U.
Mine(b, U) == {i \in Recorded(b) : session[i].user \in U}
RowsFor(b, U) == {i \in DOMAIN poll[b].rows : poll[b].rows[i].user \in U}

\* What IKEv2 has listed and not counted yet.
Listed(b, U) == IF Counts(b) /\ b = "ikev2" THEN Due(poll[b].rows, seen[b], RowsFor(b, U)) ELSE 0

\* What may be billed: what the sessions carried, and what charon showed of it again.
Allowed(b, U) == Sum(carried[b], U) + IF b = "ikev2" THEN Sum(again, U) ELSE 0

\* What is counted, what is about to be and what still may be was all carried.
Ledger(b, U) == Sum(counted[b], U) + Listed(b, U) + Due(session, Mark(b), Mine(b, U)) <= Allowed(b, U)

\* The steps that the sessions and what they carried can take.
Moves == Shrinks \/ Connects \/ Traffic \/ Rekey

\* Marks are counter values.
Marks(f) == \A i \in DOMAIN f : f[i] \in Nat

\* Growth is a number, at most the counter.
LEMMA OverNat ==
    ASSUME NEW f, Marks(f), NEW x \in Nat, NEW i
    PROVE  Over(x, f, i) \in Nat /\ Over(x, f, i) <= x
BY DEF Marks, Over

\* A byte more makes the growth at most a byte larger.
LEMMA OverNext ==
    ASSUME NEW f, Marks(f), NEW x \in Nat, NEW i
    PROVE  Over(x + 1, f, i) <= Over(x, f, i) + 1
<1>1. CASE i \in DOMAIN f
  <2>1. f[i] \in Nat
    BY <1>1 DEF Marks
  <2> QED
    BY <1>1, <2>1 DEF Over
<1>2. CASE i \notin DOMAIN f
  BY <1>2 DEF Over
<1> QED
  BY <1>1, <1>2

\* What can be billed is a number.
LEMMA DueNat ==
    ASSUME NEW s, NEW f, Marks(f), NEW X, IsFiniteSet(X), \A i \in X : s[i].bytes \in Nat
    PROVE  Due(s, f, X) \in Nat
<1> DEFINE d == [i \in X |-> Over(s[i].bytes, f, i)]
<1>1. \A i \in X : d[i] \in Nat
  BY OverNat
<1> HIDE DEF d
<1>2. Sum(d, X) \in Nat
  BY <1>1, SumNat
<1> QED
  BY <1>2 DEF Due, d

\* Sessions that end are no longer due, and new ones are not due yet.
LEMMA DueCovered ==
    ASSUME NEW s, NEW t, NEW f, Marks(f), NEW X, IsFiniteSet(X), NEW Y, IsFiniteSet(Y),
           \A i \in X : s[i].bytes \in Nat,
           \A i \in Y : t[i].bytes = 0 \/ (i \in X /\ t[i].bytes = s[i].bytes)
    PROVE  Due(t, f, Y) <= Due(s, f, X)
<1> DEFINE d == [i \in X |-> Over(s[i].bytes, f, i)]
           e == [i \in Y |-> Over(t[i].bytes, f, i)]
<1>1. \A i \in X : d[i] \in Nat
  BY OverNat
<1>2. \A i \in Y : e[i] \in Nat
  BY OverNat
<1>3. \A i \in Y : e[i] = 0 \/ (i \in X /\ e[i] <= d[i])
  <2> SUFFICES ASSUME NEW i \in Y PROVE e[i] = 0 \/ (i \in X /\ e[i] <= d[i])
    OBVIOUS
  <2>1. CASE t[i].bytes = 0
    <3>1. Over(0, f, i) \in Nat /\ Over(0, f, i) <= 0
      BY OverNat
    <3> QED
      BY <2>1, <3>1
  <2>2. CASE i \in X /\ t[i].bytes = s[i].bytes
    <3>1. e[i] = d[i]
      BY <2>2
    <3> QED
      BY <3>1, <2>2, <1>1
  <2> QED
    BY <2>1, <2>2
<1> HIDE DEF d, e
<1>4. Sum(e, Y) <= Sum(d, X)
  BY <1>1, <1>2, <1>3, SumCovered
<1> QED
  BY <1>4 DEF Due, d, e

\* One session is due for n more than it was, or for n and was not there.
LEMMA DueRaised ==
    ASSUME NEW s, NEW t, NEW f, Marks(f), NEW X, IsFiniteSet(X), NEW Y, IsFiniteSet(Y),
           NEW z \in Y, NEW n \in Nat, t[z].bytes \in Nat,
           \A i \in X : s[i].bytes \in Nat,
           \A i \in Y \ {z} : t[i].bytes = 0 \/ (i \in X /\ t[i].bytes = s[i].bytes),
           \/ Over(t[z].bytes, f, z) <= n
           \/ z \in X /\ Over(t[z].bytes, f, z) <= Over(s[z].bytes, f, z) + n
    PROVE  Due(t, f, Y) <= Due(s, f, X) + n
<1> DEFINE d == [i \in X |-> Over(s[i].bytes, f, i)]
           e == [i \in Y |-> Over(t[i].bytes, f, i)]
           A == X \ {z}
           B == Y \ {z}
<1>1. IsFiniteSet(A) /\ IsFiniteSet(B) /\ A \in SUBSET X /\ B \in SUBSET Y
  BY FS_RemoveElement
<1>2. \A i \in X : d[i] \in Nat
  BY OverNat
<1>3. \A i \in Y : e[i] \in Nat
  BY OverNat
<1>4. \A i \in B : e[i] = 0 \/ (i \in A /\ e[i] <= d[i])
  <2> SUFFICES ASSUME NEW i \in B PROVE e[i] = 0 \/ (i \in A /\ e[i] <= d[i])
    OBVIOUS
  <2>1. CASE t[i].bytes = 0
    <3>1. Over(0, f, i) \in Nat /\ Over(0, f, i) <= 0
      BY OverNat
    <3> QED
      BY <2>1, <3>1
  <2>2. CASE i \in X /\ t[i].bytes = s[i].bytes
    <3>1. e[i] = d[i] /\ i \in A
      BY <2>2
    <3> QED
      BY <3>1, <1>2
  <2> QED
    BY <2>1, <2>2
<1>5. e[z] <= n \/ (z \in X /\ e[z] <= d[z] + n)
  OBVIOUS
<1> HIDE DEF d, e
<1>6. Sum(e, B) <= Sum(d, A)
  <2>1. (\A i \in A : d[i] \in Nat) /\ (\A i \in B : e[i] \in Nat)
    BY <1>1, <1>2, <1>3
  <2> HIDE DEF A, B
  <2> QED
    BY <1>1, <1>4, <2>1, SumCovered
<1>7. Sum(e, Y) = e[z] + Sum(e, B)
  <2>1. Y \in SUBSET Y
    OBVIOUS
  <2>2. Sum(e, Y) = e[z] + Sum(e, Y \ {z})
    BY ONLY IsFiniteSet(Y), z \in Y, <1>3, <2>1, SumElement
  <2> QED
    BY <2>2
<1>8. Sum(d, A) \in Nat /\ Sum(e, B) \in Nat /\ Sum(d, X) \in Nat /\ e[z] \in Nat
  BY <1>1, <1>2, <1>3, SumNat
<1>9. Sum(e, Y) <= Sum(d, X) + n
  <2>1. CASE z \in X
    <3>1. Sum(d, X) = d[z] + Sum(d, A) /\ d[z] \in Nat
      <4>1. X \in SUBSET X /\ d[z] \in Nat
        BY <2>1, <1>2
      <4>2. Sum(d, X) = d[z] + Sum(d, X \ {z})
        BY ONLY IsFiniteSet(X), <1>2, <2>1, <4>1, SumElement
      <4> QED
        BY <4>1, <4>2
    <3> HIDE DEF A, B
    <3> QED
      BY <3>1, <1>5, <1>6, <1>7, <1>8
  <2>2. CASE z \notin X
    <3>1. A = X
      BY <2>2
    <3> HIDE DEF A, B
    <3> QED
      BY <2>2, <3>1, <1>5, <1>6, <1>7, <1>8
  <2> QED
    BY <2>1, <2>2
<1> QED
  BY <1>9 DEF Due, d, e

\* A sum of one term, and a sum one of whose terms grows by n.
LEMMA SumOne ==
    ASSUME NEW f, NEW x, f[x] \in Nat
    PROVE  Sum(f, {x}) = f[x]
<1>1. IsFiniteSet({x}) /\ {x} \ {x} = {}
  BY FS_Singleton
<1>2. Sum(f, {x}) = f[x] + Sum(f, {x} \ {x})
  BY <1>1, SumElement
<1> QED
  BY <1>1, <1>2, SumEmpty

LEMMA SumRaised ==
    ASSUME NEW X, IsFiniteSet(X), NEW f, NEW g, NEW z \in X, NEW n \in Nat,
           \A x \in X : f[x] \in Nat /\ g[x] = IF x = z THEN f[x] + n ELSE f[x]
    PROVE  Sum(g, X) = Sum(f, X) + n
<1> DEFINE A == X \ {z}
<1>1. IsFiniteSet(A) /\ A \in SUBSET X
  BY FS_RemoveElement
<1>2. \A x \in X : g[x] \in Nat
  OBVIOUS
<1>3. Sum(f, X) = f[z] + Sum(f, A) /\ Sum(g, X) = g[z] + Sum(g, A)
  BY <1>2, SumElement
<1>4. \A x \in A : f[x] \in Nat /\ g[x] = f[x]
  OBVIOUS
<1>5. Sum(f, A) \in Nat
  BY <1>1, SumNat
<1> HIDE DEF A
<1>6. Sum(g, A) = Sum(f, A)
  BY <1>1, <1>4, SumSame
<1> QED
  BY <1>3, <1>5, <1>6

\* Every step is a step of a poll or of a pull, or leaves the books alone.
Quiet == UNCHANGED <<poll, seen, counted, pulls, base, pulled, rebased>> /\ Moves
Pulls == GetStats \/ \E k \in DOMAIN pulls, b \in Backend : Sample(k, b) \/ Delta(k, b)

\* Who writes the books: the polls and the outbound; the rest only moves sessions.
LEMMA Bills ==
    ASSUME [Next]_vars
    PROVE  \/ Quiet \/ Pulls
           \/ \E b \in Backend : PollRead(b) \/ Count(b) \/ EnforceDeviceLimits(b)
<1>0. ASSUME UNCHANGED <<poll, statVars>>, Moves PROVE Quiet
  BY <1>0 DEF statVars, pullVars, Quiet
<1>1. ASSUME SyncUser \/ RestSyncUser \/ SyncUsers \/ RestSyncUsers \/ SyncUsersChunked \/ RestSyncUsersChunked
      PROVE  Quiet
  <2>1. UNCHANGED <<poll, statVars, liveVars>>
    BY <1>1 DEF SyncUser, RestSyncUser, SyncUsers, RestSyncUsers, SyncUsersChunked, RestSyncUsersChunked,
       Request
  <2> QED
    BY <1>0, <2>1, SameShrinks DEF Moves
<1>2. ASSUME RequestStep PROVE Quiet
  <2>1. \/ \E b \in Backend : Table(b) \/ Down(b) \/ Up(b)
        \/ Load \/ UnloadShared \/ ListRevoked \/ TerminateRevoked \/ Answer
    BY <1>2 DEF RequestStep, Ikev2Reload, L2tpWriteChapSecrets, PptpWriteChapSecrets,
       Ikev2Restart, L2tpRestart, PptpRestart, Backend
  <2>2. UNCHANGED <<poll, statVars>>
    BY <2>1 DEF Table, Down, Up, Load, UnloadShared, ListRevoked, TerminateRevoked, Answer, ReqFrame
  <2>3. ASSUME NEW b \in Backend, Table(b) \/ Up(b)
        PROVE  Shrinks
    BY <2>3, SameShrinks DEF Table, Up
  <2>4. ASSUME Load \/ UnloadShared \/ ListRevoked \/ Answer
        PROVE  Shrinks
    BY <2>4, SameShrinks DEF Load, UnloadShared, ListRevoked, Answer
  <2>5. ASSUME NEW b \in Backend, Down(b)
        PROVE  Shrinks
    BY <2>5, SameShrinks, WithoutShrinks DEF Down, Ikev2Down, PppDown, EndWith
  <2>6. ASSUME TerminateRevoked PROVE Shrinks
    BY <2>6, EndsShrinks, SameShrinks DEF TerminateRevoked
  <2>7. Shrinks
    BY <2>1, <2>3, <2>4, <2>5, <2>6
  <2> QED
    BY <1>0, <2>2, <2>7 DEF Moves
<1>3. ASSUME Connects \/ Traffic \/ Rekey PROVE Quiet
  <2>1. UNCHANGED <<poll, statVars>>
    BY <1>3 DEF Connects, Traffic, Rekey, RekeyIke, RekeyChild, LiveFrame
  <2> QED
    BY <1>0, <1>3, <2>1 DEF Moves
<1>4. ASSUME Leaves \/ Closes PROVE Quiet
  <2>1. UNCHANGED <<poll, statVars>> /\ Shrinks
    BY <1>4, WithoutShrinks DEF Leaves, Closes, LiveFrame
  <2> QED
    BY <1>0, <2>1 DEF Moves
<1>5. ASSUME Polls
      PROVE  \E b \in Backend : PollRead(b) \/ Count(b) \/ EnforceDeviceLimits(b)
  BY <1>5 DEF Polls, Ikev2Poll, Ikev2Enforce, L2tpPoll, L2tpEnforce, PptpPoll, PptpEnforce, Backend
<1>6. ASSUME EnforceGlobalDeviceLimits PROVE Quiet
  <2>1. UNCHANGED <<poll, statVars>>
    BY <1>6 DEF EnforceGlobalDeviceLimits, enforceGlobalLimits, OnlineDeviceCounts, ShareBudget, Share,
       PassEnd, Ikev2KeepDevices, L2tpKeepDevices, PptpKeepDevices, KeepDevices, PassTerminate, PassKeeps,
       PassFrame
  <2> QED
    BY <1>0, <2>1, <1>6, PassLoops DEF Loop, Moves
<1>7. ASSUME UNCHANGED vars PROVE Quiet
  BY <1>0, <1>7, SameShrinks DEF vars, liveVars, Moves
<1>8. ASSUME GetStats \/ RestGetStats \/ CompositeGetStats PROVE Pulls
  BY <1>8 DEF RestGetStats, CompositeGetStats, Ikev2GetStats, L2tpGetStats, PptpGetStats, Backend, Pulls
<1> QED
  BY <1>1, <1>2, <1>3, <1>4, <1>5, <1>6, <1>7, <1>8 DEF Next

\* A node with both PPP backends is left out: pppd runs the hooks of both for every
\* session, and each counts what the other's sessions carry.
OnePpp == \A n \in Nodes : ~({"l2tp", "pptp"} \subseteq n)

\* Every session is one of a backend that the node has, and its number says of which kind.
Homed ==
    /\ node \in Nodes /\ running \subseteq node
    /\ req # None => req.left \subseteq node /\ (req.at # "next" => req.b \in node)
    /\ \A i \in DOMAIN session : session[i].b \in node /\ (i[1] = "ike" <=> session[i].b = "ikev2")

\* The sessions that a backend records are its own.
LEMMA OwnSessions ==
    ASSUME OnePpp, Access, Homed, NEW b \in Backend, b \in node
    PROVE  \A i \in Recorded(b) : session[i].b = b
<1> SUFFICES ASSUME NEW i \in Recorded(b) PROVE session[i].b = b
  OBVIOUS
<1>1. /\ i \in DOMAIN session /\ i[1] = IF b = "ikev2" THEN "ike" ELSE "ppp"
  BY DEF Recorded, listSAs, L2tpSessions, PptpSessions, L2tpHook, PptpHook, Backend
<1>2. session[i].b \in node /\ (i[1] = "ike" <=> session[i].b = "ikev2")
  BY <1>1 DEF Homed
<1>3. session[i].b \in Backend
  BY <1>1 DEF Access, Living, Live
<1>4. ~({"l2tp", "pptp"} \subseteq node)
  BY DEF OnePpp, Homed
<1> QED
  BY <1>1, <1>2, <1>3, <1>4 DEF Backend

\* Sessions that change nothing but their bytes, or end, stay where they are.
LEMMA HomedKept ==
    ASSUME Homed, UNCHANGED <<node, running, req>>,
           \A i \in DOMAIN session' :
              \E j \in DOMAIN session : session'[i].b = session[j].b /\ (i[1] = "ike" <=> j[1] = "ike")
    PROVE  Homed'
BY DEF Homed

LEMMA HomedStep ==
    ASSUME Access, Homed, [Next]_vars
    PROVE  Homed'
<1>0. ASSUME Shrinks
      PROVE  \A i \in DOMAIN session' : i \in DOMAIN session /\ session'[i].b = session[i].b
  BY <1>0 DEF Shrinks, Access, Living, Live
<1>1. CASE Asks \/ Refused
  <2>1. UNCHANGED <<node, running, session>>
    BY <1>1 DEF Asks, Request, Refused, nodeVars, liveVars
  <2>2. req' = req \/ (req'.left = node /\ req'.at = "next")
    BY <1>1 DEF Asks, Request, Refused
  <2> QED
    BY <2>1, <2>2 DEF Homed
<1>2. CASE Goes
  <2>1. req \in Requests /\ req # None
    BY <1>2 DEF Goes, Table, Down, Up, Load, UnloadShared, ListRevoked, TerminateRevoked, At, Access, Asking
  <2>2. node' = node
    BY <1>2 DEF Goes, Table, Down, Up, Load, UnloadShared, ListRevoked, TerminateRevoked, ReqFrame
  <2>3. Shrinks
    <3>1. ASSUME NEW b \in Backend, Table(b) \/ Up(b) PROVE Shrinks
      BY <3>1, SameShrinks DEF Table, Up
    <3>2. ASSUME Load \/ UnloadShared \/ ListRevoked PROVE Shrinks
      BY <3>2, SameShrinks DEF Load, UnloadShared, ListRevoked
    <3>3. ASSUME NEW b \in Backend, Down(b) PROVE Shrinks
      BY <3>3, SameShrinks, WithoutShrinks DEF Down, Ikev2Down, PppDown, EndWith
    <3>4. ASSUME TerminateRevoked PROVE Shrinks
      BY <3>4, EndsShrinks, SameShrinks DEF TerminateRevoked
    <3> QED
      BY <1>2, <3>1, <3>2, <3>3, <3>4 DEF Goes
  <2>4. req'.left \subseteq node /\ (req'.at # "next" => req'.b \in node)
    <3>1. ASSUME NEW b \in Backend, Table(b)
          PROVE  req'.left \subseteq node /\ req'.b \in node
      BY <3>1, <2>1 DEF Table, Requests, Homed
    <3>2. ASSUME req.at # "next", req'.left = req.left, req'.b = req.b
          PROVE  req'.left \subseteq node /\ req'.b \in node
      BY <3>2, <2>1 DEF Homed
    <3>3. ASSUME Load \/ UnloadShared \/ ListRevoked \/ TerminateRevoked \/ \E b \in Backend : Down(b) \/ Up(b)
          PROVE  req.at # "next" /\ req'.left = req.left /\ req'.b = req.b
      BY <3>3, <2>1 DEF Load, UnloadShared, ListRevoked, TerminateRevoked, Down, Up, At, Goto, LoadThen,
         LoadFails, Requests
    <3> QED
      BY <1>2, <3>1, <3>2, <3>3 DEF Goes
  <2>5. running' \subseteq node
    <3>1. ASSUME NEW b \in Backend, Up(b)
          PROVE  running' \subseteq running \cup {b} /\ b \in node
      BY <3>1, <2>1 DEF Up, At, Homed
    <3>2. ASSUME ~\E b \in Backend : Up(b)
          PROVE  running' \subseteq running
      BY <1>2, <3>2 DEF Goes, Table, Down, Load, UnloadShared, ListRevoked, TerminateRevoked
    <3> QED
      BY <3>1, <3>2 DEF Homed
  <2> QED
    BY <1>0, <2>2, <2>3, <2>4, <2>5 DEF Homed
<1>3. CASE Answer
  <2>1. UNCHANGED <<node, running, session>>
    BY <1>3 DEF Answer, nodeVars, liveVars
  <2>2. req \in Requests /\ req.at = "next"
    BY <1>3 DEF Answer, Access, Asking
  <2>3. req' # None => req'.left = node /\ req'.at = "next"
    BY <1>3, <2>2 DEF Answer, Requests
  <2> QED
    BY <2>1, <2>3 DEF Homed
<1>4. CASE Connects
  <2>1. UNCHANGED <<node, running, req>>
    BY <1>4 DEF Connects, LiveFrame, nodeVars, reqVars
  <2>2. PICK b \in running : \E u : IF b = "ikev2"
            THEN \E ip \in Address : session' = Put(session, <<"ike", sa>>, Session(b, u, ip))
            ELSE session' = Put(session, <<"ppp", FreePpp>>, Session(b, u, clock))
    BY <1>4 DEF Connects
  <2>3. PICK j, s : /\ session' = Put(session, j, s) /\ s.b = b
                    /\ j[1] = IF b = "ikev2" THEN "ike" ELSE "ppp"
    <3>1. \A u, r : Session(b, u, r).b = b
      BY DEF Session
    <3> QED
      BY <2>2, <3>1
  <2>4. \A i \in DOMAIN session' : session'[i] = IF i = j THEN s ELSE session[i]
    BY <2>3 DEF Put
  <2>5. \A i \in DOMAIN session' : i = j \/ i \in DOMAIN session
    BY <2>3 DEF Put
  <2> QED
    BY <2>1, <2>3, <2>4, <2>5 DEF Homed
<1>5. CASE Traffic
  <2>1. UNCHANGED <<node, running, req>>
    BY <1>5 DEF Traffic, LiveFrame, nodeVars, reqVars
  <2>2. PICK z \in DOMAIN session : session' = [session EXCEPT ![z].bytes = @ + 1]
    BY <1>5 DEF Traffic
  <2>3. \A i \in DOMAIN session' : i \in DOMAIN session /\ session'[i].b = session[i].b
    BY <2>2 DEF Access, Living, Live
  <2> QED
    BY <2>1, <2>3, HomedKept
<1>6. CASE RekeyIke
  <2>1. UNCHANGED <<node, running, req>>
    BY <1>6 DEF RekeyIke, LiveFrame, nodeVars, reqVars
  <2>2. PICK j \in listSAs : session' = Put(Without(session, {j}), <<"ike", sa>>, session[j])
    BY <1>6 DEF RekeyIke
  <2>3. j \in DOMAIN session /\ j[1] = "ike"
    BY DEF listSAs
  <2>4. \A i \in DOMAIN session' : i = <<"ike", sa>> \/ i \in DOMAIN session
    BY <2>2 DEF Put, Without
  <2>5. \A i \in DOMAIN session' : session'[i] = IF i = <<"ike", sa>> THEN session[j] ELSE session[i]
    BY <2>2 DEF Put, Without
  <2> QED
    BY <2>1, <2>3, <2>4, <2>5, HomedKept
<1>7. CASE RekeyChild
  <2>1. UNCHANGED <<node, running, req>>
    BY <1>7 DEF RekeyChild, LiveFrame, nodeVars, reqVars
  <2>2. PICK j \in listSAs : \E n : session' = [session EXCEPT ![j].bytes = n]
    BY <1>7 DEF RekeyChild
  <2>3. \A i \in DOMAIN session' : i \in DOMAIN session /\ session'[i].b = session[i].b
    BY <2>2 DEF listSAs, Access, Living, Live
  <2> QED
    BY <2>1, <2>3, HomedKept
<1>8. CASE Loop
  <2>1. UNCHANGED <<node, running, req>> /\ Shrinks
    BY <1>8 DEF Loop, nodeVars, reqVars
  <2> QED
    BY <1>0, <2>1, HomedKept
<1> QED
  BY <1>1, <1>2, <1>3, <1>4, <1>5, <1>6, <1>7, <1>8, Steps DEF Goes, Rekey

\* The sessions of a backend, and what they have carried.
LEMMA RecordedType ==
    ASSUME Living, NEW b \in Backend
    PROVE  /\ IsFiniteSet(Recorded(b)) /\ Recorded(b) \subseteq DOMAIN session
           /\ Recorded(b) = {i \in DOMAIN session : i[1] = IF b = "ikev2" THEN "ike" ELSE "ppp"}
           /\ \A i \in Recorded(b) : session[i].bytes \in Nat
<1>1. Recorded(b) = {i \in DOMAIN session : i[1] = IF b = "ikev2" THEN "ike" ELSE "ppp"}
  BY DEF Recorded, listSAs, L2tpSessions, PptpSessions, L2tpHook, PptpHook, Backend
<1>2. Recorded(b) \subseteq DOMAIN session
  BY <1>1
<1> QED
  BY <1>1, <1>2, FS_Subset DEF Living, Live

\* Those of some users.
LEMMA MineType ==
    ASSUME Living, NEW b \in Backend, NEW U
    PROVE  /\ IsFiniteSet(Mine(b, U)) /\ Mine(b, U) \subseteq Recorded(b)
           /\ \A i \in Mine(b, U) : session[i].bytes \in Nat
<1>1. Mine(b, U) \subseteq Recorded(b)
  BY DEF Mine
<1> QED
  BY <1>1, RecordedType, FS_Subset

\* Users who are billed together.
LEMMA WhoseType ==
    ASSUME NEW b \in Backend, NEW U \in Whose(b)
    PROVE  U \in SUBSET Name /\ IsFiniteSet(U) /\ (b # "ikev2" => U = Name)
BY SessionsAssumption, FS_Singleton DEF Whose

\* The marks in use are marks.
LEMMA MarkType ==
    ASSUME NEW b \in Backend, BooksTypes(b)
    PROVE  Marks(Mark(b)) /\ Marks(seen[b])
<1>1. Marks(seen[b])
  BY DEF BooksTypes, Marks
<1>2. CASE ~Counts(b)
  BY <1>1, <1>2 DEF Mark
<1>3. CASE Counts(b) /\ b = "ikev2"
  <2>1. Mark(b) = [i \in DOMAIN poll[b].rows |-> poll[b].rows[i].bytes]
    BY <1>3 DEF Mark
  <2>2. \A i \in DOMAIN poll[b].rows : poll[b].rows[i].bytes \in Nat
    BY <1>3 DEF BooksTypes, Live
  <2> QED
    BY <1>1, <2>1, <2>2 DEF Marks
<1>4. CASE Counts(b) /\ b # "ikev2"
  <2>1. Mark(b) = [i \in DOMAIN seen[b] \cap DOMAIN poll[b].rows |-> seen[b][i]]
    BY <1>4 DEF Mark
  <2> QED
    BY <1>1, <2>1 DEF Marks
<1> QED
  BY <1>2, <1>3, <1>4

\* Totals are sums, and numbers.
LEMMA TotalsNat ==
    ASSUME NEW b \in Backend, BooksTypes(b)
    PROVE  /\ TotalOf(b) = Sum(counted[b], Name) /\ TotalOf(b) \in Nat
           /\ \A U \in SUBSET Name : Sum(counted[b], U) \in Nat /\ Listed(b, U) \in Nat
<1>1. TotalOf(b) = Sum(counted[b], Name)
  BY SumIs DEF TotalOf
<1>2. \A U \in SUBSET Name : Sum(counted[b], U) \in Nat
  <2>1. IsFiniteSet(Name) /\ \A u \in Name : counted[b][u] \in Nat
    BY SessionsAssumption DEF BooksTypes
  <2> QED
    BY <2>1, SumNat
<1>3. ASSUME NEW U \in SUBSET Name
      PROVE  Listed(b, U) \in Nat
  <2>1. CASE Counts(b) /\ b = "ikev2"
    <3>1. IsFiniteSet(DOMAIN poll[b].rows) /\ \A i \in DOMAIN poll[b].rows : poll[b].rows[i].bytes \in Nat
      BY <2>1 DEF BooksTypes, Live
    <3>2. IsFiniteSet(RowsFor(b, U)) /\ \A i \in RowsFor(b, U) : poll[b].rows[i].bytes \in Nat
      BY <3>1, FS_Subset DEF RowsFor
    <3>3. Due(poll[b].rows, seen[b], RowsFor(b, U)) \in Nat
      BY <3>2, MarkType, DueNat
    <3> QED
      BY <2>1, <3>3 DEF Listed
  <2>2. CASE ~(Counts(b) /\ b = "ikev2")
    BY <2>2 DEF Listed
  <2> QED
    BY <2>1, <2>2
<1> QED
  BY <1>1, <1>2, <1>3

\* What may be billed is a number.
LEMMA TallyNat ==
    ASSUME NEW b \in Backend, NEW U \in SUBSET Name, NEW c \in [Backend -> [Name -> Nat]],
           NEW a \in [Name -> Nat]
    PROVE  Sum(c[b], U) \in Nat /\ Sum(a, U) \in Nat
<1>1. IsFiniteSet(Name) /\ (\A u \in Name : c[b][u] \in Nat) /\ (\A u \in Name : a[u] \in Nat)
  BY SessionsAssumption
<1>2. PICK d : d = c[b]
  OBVIOUS
<1> QED
  BY <1>1, <1>2, SumNat

\* What a step adds to what is due it adds to what may be billed.
LEMMA DueStep ==
    ASSUME OnePpp, Access, Access', Homed, Moves, NEW b \in Backend, b \in node,
           NEW U \in Whose(b), NEW f, Marks(f)
    PROVE  /\ Due(session', f, Mine(b, U)') \in Nat /\ Due(session, f, Mine(b, U)) \in Nat
           /\ Allowed(b, U) \in Nat /\ Allowed(b, U)' \in Nat
           /\ Due(session', f, Mine(b, U)') + Allowed(b, U) <= Due(session, f, Mine(b, U)) + Allowed(b, U)'
<1> DEFINE M == Mine(b, U)
           N == Mine(b, U)'
           d == Due(session, f, M)
           e == Due(session', f, N)
           A == Allowed(b, U)
           B == Allowed(b, U)'
           kind == IF b = "ikev2" THEN "ike" ELSE "ppp"
<1>1. U \in SUBSET Name /\ IsFiniteSet(U)
  BY WhoseType
<1>2. IsFiniteSet(M) /\ \A i \in M : session[i].bytes \in Nat
  BY MineType DEF Access
<1>3. \A i : i \in M <=> i \in DOMAIN session /\ i[1] = kind /\ session[i].user \in U
  BY RecordedType DEF Mine, Access
<1>4. \A i : i \in N <=> i \in DOMAIN session' /\ i[1] = kind /\ session'[i].user \in U
  BY DEF Mine, Recorded, listSAs, L2tpSessions, PptpSessions, L2tpHook, PptpHook, Backend
<1>5. IsFiniteSet(N) /\ \A i \in N : session'[i].bytes \in Nat
  BY <1>4, FS_Subset DEF Access, Living, Live
<1>6. d \in Nat /\ e \in Nat
  BY <1>2, <1>5, DueNat
<1>7. /\ carried \in [Backend -> [Name -> Nat]] /\ carried' \in [Backend -> [Name -> Nat]]
      /\ again \in [Name -> Nat] /\ again' \in [Name -> Nat]
  BY DEF Access, Living
<1>8. /\ Sum(carried[b], U) \in Nat /\ Sum(carried'[b], U) \in Nat
      /\ Sum(again, U) \in Nat /\ Sum(again', U) \in Nat
  BY <1>1, <1>7, TallyNat
<1>9. /\ A = Sum(carried[b], U) + IF b = "ikev2" THEN Sum(again, U) ELSE 0
      /\ B = Sum(carried'[b], U) + IF b = "ikev2" THEN Sum(again', U) ELSE 0
  BY DEF Allowed
<1>10. A \in Nat /\ B \in Nat
  BY <1>8, <1>9
<1> SUFFICES e + A <= d + B
  BY <1>6, <1>10
<1> HIDE DEF A, B, M, N
<1>11. ASSUME \A i \in N : session'[i].bytes = 0 \/ (i \in M /\ session'[i].bytes = session[i].bytes),
              A <= B
       PROVE  e + A <= d + B
  <2>1. e <= d
    BY <1>2, <1>5, <1>11, DueCovered
  <2> HIDE DEF d, e
  <2> QED
    BY <2>1, <1>6, <1>10, <1>11
<1>12. ASSUME NEW z \in N, NEW n \in Nat, B = A + n,
              \A i \in N \ {z} : i \in M /\ session'[i].bytes = session[i].bytes,
              \/ session'[z].bytes <= n
              \/ z \in M /\ session'[z].bytes = session[z].bytes + 1 /\ n = 1
       PROVE  e + A <= d + B
  <2>1. session'[z].bytes \in Nat
    BY <1>5
  <2>2. \/ Over(session'[z].bytes, f, z) <= n
        \/ z \in M /\ Over(session'[z].bytes, f, z) <= Over(session[z].bytes, f, z) + n
    <3>1. CASE session'[z].bytes <= n
      <4>1. Over(session'[z].bytes, f, z) \in Nat /\ Over(session'[z].bytes, f, z) <= session'[z].bytes
        BY <2>1, OverNat
      <4> QED
        BY <2>1, <3>1, <4>1
    <3>2. CASE z \in M /\ session'[z].bytes = session[z].bytes + 1 /\ n = 1
      <4>1. session[z].bytes \in Nat
        BY <3>2, <1>2
      <4>2. Over(session[z].bytes + 1, f, z) <= Over(session[z].bytes, f, z) + 1
        BY <4>1, OverNext
      <4> QED
        BY <3>2, <4>2
    <3> QED
      BY <1>12, <3>1, <3>2
  <2>3. e <= d + n
    BY <1>2, <1>5, <1>12, <2>1, <2>2, DueRaised
  <2> HIDE DEF d, e
  <2> QED
    BY <2>3, <1>6, <1>10, <1>12
<1>13. ASSUME UNCHANGED <<carried, again>> PROVE A = B
  BY <1>9, <1>13
<1>14. CASE Shrinks
  <2>1. \A i \in N : i \in M /\ session'[i].bytes = session[i].bytes
    BY <1>3, <1>4, <1>14 DEF Shrinks, Access, Living, Live
  <2>2. A = B
    BY <1>13, <1>14 DEF Shrinks
  <2> QED
    BY <1>6, <1>10, <1>11, <2>1, <2>2
<1>15. CASE Connects
  <2>1. PICK j, s : session' = Put(session, j, s) /\ s.bytes = 0
    <3>1. \A c, u, r : Session(c, u, r).bytes = 0
      BY DEF Session
    <3>2. \E j, c, u, r : session' = Put(session, j, Session(c, u, r))
      BY <1>15 DEF Connects
    <3> QED
      BY <3>1, <3>2
  <2>2. \A i \in N : session'[i].bytes = 0 \/ (i \in M /\ session'[i].bytes = session[i].bytes)
    BY <1>3, <1>4, <2>1 DEF Put
  <2>3. A = B
    BY <1>13, <1>15 DEF Connects
  <2> QED
    BY <1>6, <1>10, <1>11, <2>2, <2>3
<1>16. CASE Traffic
  <2>1. PICK z \in DOMAIN session :
            /\ session' = [session EXCEPT ![z].bytes = @ + 1]
            /\ carried' = [carried EXCEPT ![session[z].b][session[z].user] = @ + 1]
    BY <1>16 DEF Traffic
  <2>2. again' = again
    BY <1>16 DEF Traffic
  <2>3. session[z].b \in Backend /\ session[z].user \in Name
    BY DEF Access, Living, Live
  <2>4. \A i \in DOMAIN session : /\ i \in DOMAIN session' /\ session'[i].user = session[i].user
                                  /\ session'[i].bytes = IF i = z THEN session[i].bytes + 1 ELSE session[i].bytes
    BY <2>1 DEF Access, Living, Live
  <2>5. N = M
    BY <1>3, <1>4, <2>1, <2>4
  <2>6. CASE z \in M
    <3>1. session[z].b = b /\ session[z].user \in U
      BY <2>6, <1>3, OwnSessions DEF M, Mine
    <3>2. \A u \in U : /\ carried[b][u] \in Nat
                       /\ carried'[b][u] = IF u = session[z].user THEN carried[b][u] + 1 ELSE carried[b][u]
      BY <1>1, <1>7, <2>1, <3>1
    <3>3. Sum(carried'[b], U) = Sum(carried[b], U) + 1
      <4> DEFINE g == carried[b]
                 h == carried'[b]
                 u == session[z].user
      <4>1. u \in U /\ \A x \in U : g[x] \in Nat /\ h[x] = IF x = u THEN g[x] + 1 ELSE g[x]
        BY <3>1, <3>2
      <4> HIDE DEF g, h, u
      <4>2. Sum(h, U) = Sum(g, U) + 1
        BY <1>1, <4>1, SumRaised
      <4> QED
        BY <4>2 DEF g, h
    <3>4. B = A + 1
      BY <1>8, <1>9, <2>2, <3>3
    <3> QED
      BY <1>6, <1>10, <1>3, <1>12, <2>4, <2>5, <2>6, <3>4
  <2>7. CASE z \notin M
    <3>1. \A u \in U : carried[b][u] \in Nat /\ carried'[b][u] \in Nat /\ carried[b][u] <= carried'[b][u]
      BY <1>1, <1>7, <2>1, <2>3
    <3>2. Sum(carried[b], U) <= Sum(carried'[b], U)
      <4> DEFINE g == carried[b]
                 h == carried'[b]
      <4>1. \A x \in U : g[x] \in Nat /\ h[x] \in Nat /\ g[x] <= h[x]
        BY <3>1
      <4> HIDE DEF g, h
      <4>2. Sum(g, U) <= Sum(h, U)
        BY <1>1, <4>1, SumLeq
      <4> QED
        BY <4>2 DEF g, h
    <3>3. A <= B
      BY <1>8, <1>9, <2>2, <3>2
    <3>4. \A i \in N : i \in M /\ session'[i].bytes = session[i].bytes
      BY <1>3, <2>4, <2>5, <2>7
    <3> QED
      BY <1>6, <1>10, <1>11, <3>3, <3>4
  <2> QED
    BY <2>6, <2>7
<1>17. ASSUME NEW z \in listSAs, NEW n \in Nat, again' = [again EXCEPT ![session[z].user] = @ + n], carried' = carried
       PROVE  /\ session[z].user \in Name
              /\ b = "ikev2" /\ session[z].user \in U => B = A + n
              /\ ~(b = "ikev2" /\ session[z].user \in U) => A = B
  <2>1. session[z].user \in Name
    BY DEF listSAs, Access, Living, Live
  <2>2. \A u \in U : again[u] \in Nat /\ again'[u] = IF u = session[z].user THEN again[u] + n ELSE again[u]
    BY <1>1, <1>7, <1>17
  <2>3. CASE session[z].user \in U
    <3> DEFINE u == session[z].user
    <3>1. u \in U /\ \A x \in U : again[x] \in Nat /\ again'[x] = IF x = u THEN again[x] + n ELSE again[x]
      BY <2>2, <2>3
    <3> HIDE DEF u
    <3>2. Sum(again', U) = Sum(again, U) + n
      BY <1>1, <3>1, SumRaised
    <3> QED
      BY <1>8, <1>9, <1>17, <2>1, <2>3, <3>2
  <2>4. CASE session[z].user \notin U
    <3>1. \A x \in U : again[x] \in Nat /\ again'[x] = again[x]
      BY <2>2, <2>4
    <3>2. Sum(again', U) = Sum(again, U)
      BY <1>1, <3>1, SumSame
    <3> QED
      BY <1>8, <1>9, <1>17, <2>1, <2>4, <3>2
  <2> QED
    BY <2>3, <2>4
<1>18. CASE RekeyIke
  <2>1. PICK z \in listSAs : /\ session' = Put(Without(session, {z}), <<"ike", sa>>, session[z])
                             /\ again' = [again EXCEPT ![session[z].user] = @ + session[z].bytes]
    BY <1>18 DEF RekeyIke
  <2> DEFINE j == <<"ike", sa>>
             n == session[z].bytes
  <2>2. z \in DOMAIN session /\ z[1] = "ike" /\ n \in Nat /\ carried' = carried
    BY <1>18 DEF RekeyIke, listSAs, Access, Living, Live
  <2>3. /\ \A i \in DOMAIN session' : i = j \/ i \in DOMAIN session
        /\ \A i \in DOMAIN session' : session'[i] = IF i = j THEN session[z] ELSE session[i]
        /\ j \in DOMAIN session' /\ j[1] = "ike"
    BY <2>1 DEF Put, Without
  <2> HIDE DEF j
  <2>4. \A i \in N \ {j} : i \in M /\ session'[i].bytes = session[i].bytes
    BY <1>3, <1>4, <2>3
  <2>5. /\ b = "ikev2" /\ session[z].user \in U => B = A + n
        /\ ~(b = "ikev2" /\ session[z].user \in U) => A = B
    BY <1>17, <2>1, <2>2
  <2>6. CASE b = "ikev2" /\ session[z].user \in U
    <3>1. j \in N /\ session'[j].bytes <= n
      BY <1>4, <2>2, <2>3, <2>6
    <3>2. B = A + n
      BY <2>5, <2>6
    <3> HIDE DEF n
    <3> QED
      BY <1>6, <1>10, <1>12, <2>2, <2>4, <3>1, <3>2
  <2>7. CASE ~(b = "ikev2" /\ session[z].user \in U)
    <3>1. j \notin N
      BY <1>4, <2>3, <2>7
    <3>2. A = B
      BY <2>5, <2>7
    <3> QED
      BY <1>6, <1>10, <1>11, <2>4, <3>1, <3>2
  <2> QED
    BY <2>6, <2>7
<1>19. CASE RekeyChild
  <2>1. PICK z \in listSAs : \E k \in 0..session[z].bytes :
            /\ session' = [session EXCEPT ![z].bytes = k]
            /\ again' = [again EXCEPT ![session[z].user] = @ + k]
    BY <1>19 DEF RekeyChild
  <2>2. PICK n \in 0..session[z].bytes :
            /\ session' = [session EXCEPT ![z].bytes = n]
            /\ again' = [again EXCEPT ![session[z].user] = @ + n]
    BY <2>1
  <2>3. z \in DOMAIN session /\ z[1] = "ike" /\ n \in Nat /\ carried' = carried
    BY <1>19 DEF RekeyChild, listSAs, Access, Living, Live
  <2>4. /\ DOMAIN session' = DOMAIN session
        /\ \A i \in DOMAIN session : /\ session'[i].user = session[i].user
                                     /\ session'[i].bytes = IF i = z THEN n ELSE session[i].bytes
    BY <2>2 DEF Access, Living, Live
  <2>5. \A i \in N \ {z} : i \in M /\ session'[i].bytes = session[i].bytes
    BY <1>3, <1>4, <2>4
  <2>6. /\ b = "ikev2" /\ session[z].user \in U => B = A + n
        /\ ~(b = "ikev2" /\ session[z].user \in U) => A = B
    BY <1>17, <2>2, <2>3
  <2>7. CASE b = "ikev2" /\ session[z].user \in U
    <3>1. z \in N /\ session'[z].bytes <= n
      BY <1>4, <2>3, <2>4, <2>7
    <3>2. B = A + n
      BY <2>6, <2>7
    <3> QED
      BY <1>6, <1>10, <1>12, <2>3, <2>5, <3>1, <3>2
  <2>8. CASE ~(b = "ikev2" /\ session[z].user \in U)
    <3>1. z \notin N
      BY <1>4, <2>3, <2>4, <2>8
    <3>2. A = B
      BY <2>6, <2>8
    <3> QED
      BY <1>6, <1>10, <1>11, <2>5, <3>1, <3>2
  <2> QED
    BY <2>7, <2>8
<1> QED
  BY <1>14, <1>15, <1>16, <1>18, <1>19 DEF Moves, Rekey

\* A step that leaves the books of b alone.
LEMMA LedgerKept ==
    ASSUME OnePpp, Access, Access', Homed, Moves, NEW b \in Backend, b \in node, NEW U \in Whose(b),
           BooksTypes(b), Ledger(b, U),
           Mark(b)' = Mark(b), Listed(b, U)' = Listed(b, U), counted'[b] = counted[b]
    PROVE  Ledger(b, U)'
<1>1. PICK f : f = Mark(b)
  OBVIOUS
<1>2. Marks(f) /\ Mark(b)' = f
  BY <1>1, MarkType
<1> DEFINE d == Due(session, f, Mine(b, U))
           e == Due(session', f, Mine(b, U)')
           c == Sum(counted[b], U)
           l == Listed(b, U)
           A == Allowed(b, U)
           B == Allowed(b, U)'
<1>3. c \in Nat /\ l \in Nat
  BY WhoseType, TotalsNat
<1>4. c + l + d <= A
  BY <1>1 DEF Ledger
<1>5. d \in Nat /\ e \in Nat /\ A \in Nat /\ B \in Nat /\ e + A <= d + B
  BY <1>2, DueStep
<1>6. Ledger(b, U)' <=> c + l + e <= B
  BY <1>2 DEF Ledger
<1> HIDE DEF c, l, d, e, A, B
<1>7. c + l + e <= B
  BY <1>3, <1>4, <1>5
<1> QED
  BY <1>6, <1>7

\* Sessions that come, carry or go keep the ledger of a backend that does not count.
LEMMA LedgerQuiet ==
    ASSUME OnePpp, Access, Access', Homed, Moves, NEW b \in Backend, b \in node, NEW U \in Whose(b),
           BooksTypes(b), Ledger(b, U),
           poll'[b] = poll[b], seen'[b] = seen[b], counted'[b] = counted[b]
    PROVE  Ledger(b, U)'
<1>1. Counts(b)' = Counts(b) /\ RowsFor(b, U)' = RowsFor(b, U)
  BY DEF Counts, RowsFor
<1>2. Mark(b)' = Mark(b) /\ Listed(b, U)' = Listed(b, U)
  BY <1>1 DEF Mark, Listed
<1> QED
  BY <1>2, LedgerKept

\* A poll reads the sessions.
LEMMA LedgerRead ==
    ASSUME Access, Access', Books, NEW b \in Backend, NEW U \in Whose(b), Ledger(b, U), PollRead(b)
    PROVE  Ledger(b, U)'
<1> DEFINE M == Mine(b, U)
<1>1. UNCHANGED <<session, carried, again, seen, counted>>
  BY DEF PollRead, liveVars, statVars
<1>2. ~Counts(b) /\ poll'[b] = [at |-> "count", rows |-> Rows(b), victims |-> {}]
  BY DEF PollRead, Counts, Books
<1>3. /\ IsFiniteSet(M) /\ M \subseteq Recorded(b) /\ \A i \in M : session[i].bytes \in Nat
  BY MineType DEF Access
<1>4. /\ poll'[b].rows = Rows(b) /\ DOMAIN Rows(b) = Recorded(b)
      /\ \A i \in Recorded(b) : Rows(b)[i] = session[i]
  BY <1>2 DEF Rows
<1>5. BooksTypes(b) /\ Marks(seen[b])
  BY MarkType DEF Books
<1>6. M' = M /\ counted'[b] = counted[b] /\ Allowed(b, U)' = Allowed(b, U)
  BY <1>1 DEF Mine, Recorded, listSAs, L2tpSessions, PptpSessions, L2tpHook, PptpHook, Allowed
<1>7. RowsFor(b, U)' = M
  BY <1>4 DEF RowsFor, Mine
<1> DEFINE c == Sum(counted[b], U)
           A == Allowed(b, U)
           x == Due(session, seen[b], M)
           d == [i \in M |-> Over(session[i].bytes, seen[b], i)]
<1>8. c \in Nat /\ x \in Nat
  BY <1>3, <1>5, WhoseType, TotalsNat, DueNat
<1>9. c + x <= A
  <2>1. Mark(b) = seen[b] /\ Listed(b, U) = 0
    BY <1>2 DEF Mark, Listed
  <2>2. c + 0 + x <= A
    BY <2>1 DEF Ledger
  <2> HIDE DEF c, x, A
  <2> QED
    BY <2>2, <1>8
<1>10. x = Sum(d, M)
  BY DEF Due
<1>11. ASSUME NEW l \in Nat, NEW y \in Nat, Listed(b, U)' = l, Due(session, Mark(b)', M) = y, l + y = x
       PROVE  Ledger(b, U)'
  <2>1. Ledger(b, U)' <=> c + l + y <= A
    BY <1>1, <1>6, <1>11 DEF Ledger
  <2> HIDE DEF c, x, A
  <2>2. c + l + y <= A
    BY <1>8, <1>9, <1>11
  <2> QED
    BY <2>1, <2>2
<1>13. CASE ~Counts(b)'
  <2>1. Mark(b)' = seen[b] /\ Listed(b, U)' = 0
    BY <1>1, <1>13 DEF Mark, Listed
  <2>2. Due(session, Mark(b)', M) = x
    BY <2>1
  <2> HIDE DEF x
  <2> QED
    BY <2>1, <2>2, <1>8, <1>11
<1>14. CASE Counts(b)' /\ b = "ikev2"
  <2>1. Listed(b, U)' = Due(Rows(b), seen[b], M)
    BY <1>1, <1>4, <1>7, <1>14 DEF Listed
  <2>2. Due(Rows(b), seen[b], M) = x
    <3>1. [i \in M |-> Over(Rows(b)[i].bytes, seen[b], i)] = d
      BY <1>3, <1>4
    <3> QED
      BY <3>1 DEF Due
  <2>3. Mark(b)' = [i \in Recorded(b) |-> session[i].bytes]
    BY <1>4, <1>14 DEF Mark
  <2>4. Due(session, Mark(b)', M) = 0
    <3> DEFINE e == [i \in M |-> Over(session[i].bytes, Mark(b)', i)]
    <3>1. \A i \in M : e[i] = 0
      BY <2>3, <1>3 DEF Over
    <3> HIDE DEF e
    <3>2. Sum(e, M) = 0
      BY <3>1, <1>3, SumZero
    <3> QED
      BY <3>2 DEF Due, e
  <2> HIDE DEF x
  <2> QED
    BY <2>1, <2>2, <2>4, <1>8, <1>11
<1>15. CASE Counts(b)' /\ b # "ikev2"
  <2>1. Listed(b, U)' = 0
    BY <1>15 DEF Listed
  <2>2. Mark(b)' = [i \in DOMAIN seen[b] \cap Recorded(b) |-> seen[b][i]]
    BY <1>1, <1>4, <1>15 DEF Mark
  <2>3. Due(session, Mark(b)', M) = x
    <3>1. [i \in M |-> Over(session[i].bytes, Mark(b)', i)] = d
      BY <1>3, <2>2 DEF Over
    <3> QED
      BY <3>1 DEF Due
  <2> HIDE DEF x
  <2> QED
    BY <2>1, <2>3, <1>8, <1>11
<1> QED
  BY <1>13, <1>14, <1>15

\* Its rows are live sessions.
LEMMA BooksRead ==
    ASSUME Access, Books, NEW b \in Backend, PollRead(b)
    PROVE  BooksTypes(b)'
<1>1. UNCHANGED <<seen, counted>>
  BY DEF PollRead, statVars
<1>2. /\ poll'[b].rows = Rows(b) /\ DOMAIN Rows(b) = Recorded(b)
      /\ \A i \in Recorded(b) : Rows(b)[i] = session[i]
  BY DEF PollRead, Books, Rows
<1>3. /\ IsFiniteSet(Recorded(b)) /\ Recorded(b) \subseteq DOMAIN session
      /\ Recorded(b) = {i \in DOMAIN session : i[1] = IF b = "ikev2" THEN "ike" ELSE "ppp"}
  BY RecordedType DEF Access
<1> QED
  BY <1>1, <1>2, <1>3 DEF BooksTypes, Books, Access, Living

\* A poll counts the rows it has: all of them, each once.
LEMMA TotalGrows ==
    ASSUME Access, Books, NEW b \in Backend, NEW U \in SUBSET Name, Count(b)
    PROVE  LET R == DOMAIN poll[b].rows
               g == [i \in R |-> Over(BytesOf(b, i), seen[b], i)]
           IN  /\ IsFiniteSet(R) /\ \A i \in R : BytesOf(b, i) \in Nat /\ g[i] \in Nat
               /\ Sum(counted'[b], U) = Sum(counted[b], U) + Sum(g, RowsFor(b, U))
               /\ IsFiniteSet(RowsFor(b, U)) /\ Sum(g, RowsFor(b, U)) \in Nat
               /\ counted'[b] \in [Name -> Nat]
<1> DEFINE R == DOMAIN poll[b].rows
           g == [i \in R |-> Over(BytesOf(b, i), seen[b], i)]
           own == [i \in R |-> poll[b].rows[i].user]
<1>1. Counts(b) /\ BooksTypes(b) /\ Marks(seen[b])
  BY MarkType DEF Count, Counts, Books
<1>2. IsFiniteSet(R) /\ \A i \in R : poll[b].rows[i] \in Live
  BY <1>1 DEF BooksTypes
<1>3. \A i \in R : BytesOf(b, i) \in Nat
  BY <1>2 DEF BytesOf, Live, Access, Living
<1>4. \A i \in R : g[i] \in Nat
  BY <1>1, <1>3, OverNat
<1>5. \A i \in R : own[i] \in Name /\ own[i] = poll[b].rows[i].user
  BY <1>2 DEF Live
<1>6. ASSUME NEW u \in Name
      PROVE  /\ Grown(b, u) = Sum(g, {i \in R : own[i] = u})
             /\ Grown(b, u) \in Nat
  <2> DEFINE P == RowsOf(poll[b].rows, u)
             h == [i \in P |-> Growth(b, i)]
  <2>1. P = {i \in R : own[i] = u}
    BY DEF RowsOf
  <2>2. IsFiniteSet(P) /\ P \in SUBSET R
    BY <2>1, <1>2, FS_Subset
  <2>3. \A i \in P : g[i] \in Nat /\ h[i] = g[i]
    BY <2>2, <1>4 DEF Growth, Over
  <2>4. Grown(b, u) = Sum(h, P)
    <3>1. DOMAIN h = P
      OBVIOUS
    <3>2. Grown(b, u) = SumFunctionOnSet(h, DOMAIN h)
      BY DEF Grown, SumFunction
    <3> HIDE DEF h, P
    <3> QED
      BY <3>1, <3>2, SumIs
  <2>5. Sum(g, P) \in Nat
    BY <1>2, <1>4, <2>2, SumNat
  <2> HIDE DEF P, g, h
  <2>6. Sum(h, P) = Sum(g, P)
    BY <2>2, <2>3, SumSame
  <2> QED
    BY <2>1, <2>4, <2>5, <2>6
<1>7. counted'[b] = [u \in Name |-> counted[b][u] + Grown(b, u)]
  BY DEF Count, Books
<1>8. counted[b] \in [Name -> Nat] /\ IsFiniteSet(Name)
  BY <1>1, SessionsAssumption DEF BooksTypes
<1>9. counted'[b] \in [Name -> Nat]
  <2>1. \A u \in Name : Grown(b, u) \in Nat
    BY <1>6
  <2>2. \A u \in Name : counted[b][u] + Grown(b, u) \in Nat
    BY <2>1, <1>8
  <2> QED
    BY <2>2, <1>7
<1> DEFINE Q == RowsFor(b, U)
           p == [u \in U |-> Sum(g, {i \in Q : own[i] = u})]
<1>10. /\ IsFiniteSet(U) /\ Q \in SUBSET R /\ IsFiniteSet(Q)
       /\ \A i \in R : i \in Q <=> own[i] \in U
  BY <1>2, SessionsAssumption, FS_Subset DEF RowsFor
<1>11. \A u \in U : p[u] \in Nat /\ counted'[b][u] = counted[b][u] + p[u]
  <2> SUFFICES ASSUME NEW u \in U PROVE p[u] \in Nat /\ counted'[b][u] = counted[b][u] + p[u]
    OBVIOUS
  <2>1. {i \in Q : own[i] = u} = {i \in R : own[i] = u}
    BY <1>10
  <2> HIDE DEF g, Q, R, own
  <2>2. p[u] = Grown(b, u)
    BY <1>6, <2>1
  <2> QED
    BY <1>6, <1>7, <2>2
<1>12. Sum(p, U) = Sum(g, Q)
  <2>1. \A i \in Q : g[i] \in Nat /\ own[i] \in U
    BY <1>4, <1>10
  <2> HIDE DEF g, own, R, Q
  <2> QED
    BY <2>1, <1>10, SumParts DEF p
<1>13. Sum(counted'[b], U) = Sum(counted[b], U) + Sum(p, U)
  <2> DEFINE f == counted[b]
             k == counted'[b]
  <2>1. \A u \in U : f[u] \in Nat /\ k[u] \in Nat
    BY <1>8, <1>9
  <2>2. \A u \in U : p[u] \in Nat /\ k[u] = f[u] + p[u]
    BY <1>11
  <2>3. U \in SUBSET U /\ \A u \in U \ U : k[u] = f[u]
    OBVIOUS
  <2> HIDE DEF f, k, p
  <2>4. Sum(k, U) = Sum(f, U) + Sum(p, U)
    BY <2>1, <2>2, <2>3, <1>10, SumPlus
  <2> QED
    BY <2>4 DEF f, k
<1>14. Sum(g, Q) \in Nat
  <2> HIDE DEF g, Q, R
  <2> QED
    BY <1>2, <1>4, <1>10, SumNat
<1> QED
  BY <1>2, <1>3, <1>4, <1>9, <1>10, <1>12, <1>13, <1>14

\* Counting leaves totals and marks.
LEMMA BooksCount ==
    ASSUME Access, Books, NEW b \in Backend, Count(b)
    PROVE  BooksTypes(b)' /\ ~Counts(b)'
<1>1. /\ \A i \in DOMAIN poll[b].rows : BytesOf(b, i) \in Nat
      /\ counted'[b] \in [Name -> Nat]
  <2>1. Name \in SUBSET Name
    OBVIOUS
  <2> QED
    BY <2>1, TotalGrows
<1>2. seen'[b] = [i \in DOMAIN poll[b].rows |-> BytesOf(b, i)] /\ ~Counts(b)'
  BY DEF Count, Counts, Ending, Books
<1> QED
  BY <1>1, <1>2 DEF BooksTypes

\* Counting moves what was listed, or can be read, into the totals.
LEMMA LedgerCount ==
    ASSUME Access, Books, NEW b \in Backend, NEW U \in Whose(b), Ledger(b, U), Count(b)
    PROVE  Ledger(b, U)'
<1> DEFINE R == DOMAIN poll[b].rows
           Q == RowsFor(b, U)
           L == Mine(b, U)
           g == [i \in R |-> Over(BytesOf(b, i), seen[b], i)]
<1>1. Counts(b) /\ BooksTypes(b) /\ Marks(seen[b]) /\ Marks(Mark(b))
  BY MarkType DEF Count, Counts, Books
<1>2. /\ IsFiniteSet(R) /\ \A i \in R : BytesOf(b, i) \in Nat /\ g[i] \in Nat
      /\ Sum(counted'[b], U) = Sum(counted[b], U) + Sum(g, Q)
      /\ IsFiniteSet(Q) /\ Sum(g, Q) \in Nat
  BY WhoseType, TotalGrows
<1>3. /\ UNCHANGED <<session, carried, again>>
      /\ seen'[b] = [i \in R |-> BytesOf(b, i)]
      /\ ~Counts(b)'
  BY DEF Count, Counts, Ending, liveVars, Books
<1>4. Q \in SUBSET R
  BY DEF RowsFor
<1>5. IsFiniteSet(L) /\ L \subseteq Recorded(b) /\ \A i \in L : session[i].bytes \in Nat
  BY MineType DEF Access
<1>6. Mine(b, U)' = L /\ Allowed(b, U)' = Allowed(b, U) /\ Mark(b)' = seen'[b] /\ Listed(b, U)' = 0
  BY <1>3 DEF Mine, Recorded, listSAs, L2tpSessions, PptpSessions, L2tpHook, PptpHook, Allowed, Mark, Listed
<1>7. Sum(counted[b], U) \in Nat /\ Listed(b, U) \in Nat
  BY <1>1, WhoseType, TotalsNat
<1>8. Due(session, Mark(b), L) \in Nat /\ Due(session, seen'[b], L) \in Nat
  <2>1. Marks(seen'[b])
    BY <1>2, <1>3 DEF Marks
  <2> QED
    BY <2>1, <1>1, <1>5, DueNat
<1>9. Sum(g, Q) + Due(session, seen'[b], L) <= Listed(b, U) + Due(session, Mark(b), L)
  <2>1. CASE b = "ikev2"
    <3>1. \A i \in R : BytesOf(b, i) = poll[b].rows[i].bytes
      BY <2>1 DEF BytesOf
    <3> DEFINE h == [i \in Q |-> Over(poll[b].rows[i].bytes, seen[b], i)]
    <3>2. \A i \in Q : g[i] \in Nat /\ h[i] = g[i]
      BY <3>1, <1>2, <1>4
    <3>3. Listed(b, U) = Sum(h, Q)
      BY <2>1, <1>1 DEF Listed, Due
    <3>4. Mark(b) = seen'[b]
      BY <3>1, <2>1, <1>1, <1>3 DEF Mark
    <3> HIDE DEF g, h, Q
    <3>5. Sum(h, Q) = Sum(g, Q)
      BY <1>2, <3>2, SumSame
    <3> QED
      BY <3>3, <3>4, <3>5, <1>2, <1>7, <1>8
  <2>2. CASE b # "ikev2"
    <3> DEFINE d == [i \in L |-> Over(session[i].bytes, Mark(b), i)]
               e == [i \in L |-> Over(session[i].bytes, seen'[b], i)]
               C == L \cap R
    <3>0. /\ Q = R
          /\ L = {i \in DOMAIN session : i[1] = "ppp"}
      <4>1. U = Name
        BY <2>2, WhoseType
      <4>2. Q = R
        BY <4>1, <1>1 DEF RowsFor, BooksTypes, Live
      <4>3. L = Recorded(b)
        BY <4>1, RecordedType DEF Mine, Access, Living, Live
      <4> QED
        BY <2>2, <4>2, <4>3, RecordedType DEF Access
    <3>1. Listed(b, U) = 0 /\ Due(session, Mark(b), L) = Sum(d, L) /\ Due(session, seen'[b], L) = Sum(e, L)
      BY <2>2 DEF Listed, Due
    <3>2. \A i \in R : i \in DOMAIN session => i \in L
      BY <2>2, <3>0, <1>1 DEF BooksTypes
    <3>3. \A i \in R : BytesOf(b, i) = IF i \in L THEN session[i].bytes ELSE 0
      BY <2>2, <3>0, <3>2 DEF BytesOf
    <3>4. Mark(b) = [i \in DOMAIN seen[b] \cap R |-> seen[b][i]]
      BY <2>2, <1>1 DEF Mark
    <3>5. \A i \in L : d[i] \in Nat
      BY <1>1, <1>5, OverNat
    <3>6. \A i \in C : e[i] = 0 /\ d[i] = g[i]
      <4> SUFFICES ASSUME NEW i \in C PROVE e[i] = 0 /\ d[i] = g[i]
        OBVIOUS
      <4>1. BytesOf(b, i) = session[i].bytes /\ session[i].bytes \in Nat
        BY <3>3, <1>5
      <4>2. e[i] = 0
        BY <4>1, <1>3 DEF Over
      <4>3. d[i] = g[i]
        BY <4>1, <3>4 DEF Over
      <4> QED
        BY <4>2, <4>3
    <3>7. \A i \in L \ C : e[i] = d[i]
      BY <3>4, <1>3 DEF Over
    <3>8. \A i \in R : g[i] = 0 \/ (i \in C /\ g[i] <= d[i])
      <4> SUFFICES ASSUME NEW i \in R PROVE g[i] = 0 \/ (i \in C /\ g[i] <= d[i])
        OBVIOUS
      <4>1. CASE i \in L
        BY <4>1, <3>5, <3>6
      <4>2. CASE i \notin L
        <5>1. Over(0, seen[b], i) \in Nat /\ Over(0, seen[b], i) <= 0
          BY <1>1, OverNat
        <5> QED
          BY <4>2, <5>1, <3>3
      <4> QED
        BY <4>1, <4>2
    <3>9. \A i \in R : g[i] \in Nat
      BY <1>2
    <3>12. C \in SUBSET L /\ IsFiniteSet(C) /\ IsFiniteSet(L)
      BY <1>5, FS_Subset
    <3> HIDE DEF L, R, C, Q, d, e, g
    <3>10. \A i \in C : d[i] = e[i] + d[i]
      BY <3>5, <3>6, <3>12
    <3>11. \A i \in L : e[i] \in Nat
      BY <3>5, <3>6, <3>7
    <3>13. Sum(g, R) <= Sum(d, C)
      BY <3>5, <3>8, <3>9, <3>12, <1>2, SumCovered
    <3>14. Sum(d, L) = Sum(e, L) + Sum(d, C)
      <4>1. \A i \in L : e[i] \in Nat /\ d[i] \in Nat
        BY <3>5, <3>11
      <4>2. \A i \in C : d[i] \in Nat /\ d[i] = e[i] + d[i]
        BY <3>5, <3>10, <3>12
      <4>3. \A i \in L \ C : d[i] = e[i]
        BY <3>7
      <4> QED
        BY <4>1, <4>2, <4>3, <3>12, SumPlus
    <3>15. Sum(d, C) \in Nat /\ Sum(e, L) \in Nat /\ Sum(d, L) \in Nat
      BY <3>5, <3>11, <3>12, SumNat
    <3> QED
      BY <3>0, <3>1, <3>13, <3>14, <3>15, <1>2
  <2> QED
    BY <2>1, <2>2
<1> DEFINE c == Sum(counted[b], U)
           l == Listed(b, U)
           A == Allowed(b, U)
           x == Due(session, seen'[b], L)
           y == Due(session, Mark(b), L)
           z == Sum(g, Q)
<1>10. c + l + y <= A
  BY DEF Ledger
<1>11. Ledger(b, U)' <=> (c + z) + 0 + x <= A
  BY <1>2, <1>3, <1>6 DEF Ledger
<1>12. z + x <= l + y /\ x \in Nat /\ y \in Nat /\ z \in Nat /\ c \in Nat /\ l \in Nat
  BY <1>2, <1>7, <1>8, <1>9
<1>13. A \in Nat
  BY WhoseType, TallyNat DEF Allowed, Living, Access
<1> HIDE DEF c, l, A, x, y, z
<1>14. (c + z) + 0 + x <= A
  BY <1>10, <1>12, <1>13
<1> QED
  BY <1>11, <1>14

\* A poll ends what exceeds the limit.
LEMMA LedgerEnforce ==
    ASSUME OnePpp, Access, Access', Homed, Books, NEW b \in Backend, b \in node, NEW U \in Whose(b),
           Ledger(b, U), EnforceDeviceLimits(b)
    PROVE  Ledger(b, U)'
<1>1. UNCHANGED <<seen, counted>> /\ Moves
  BY TerminateShrinks DEF EnforceDeviceLimits, statVars, Moves
<1>2. ~Counts(b) /\ ~Counts(b)'
  BY DEF EnforceDeviceLimits, Counts, Ending, Books
<1>3. Mark(b)' = Mark(b) /\ Listed(b, U)' = Listed(b, U)
  BY <1>1, <1>2 DEF Mark, Listed
<1> QED
  BY <1>1, <1>3, LedgerKept DEF Books

\* Nothing is counted and nothing carried at the start.
LEMMA LedgerInit ==
    ASSUME Init
    PROVE  Books /\ Homed /\ \A b \in Backend : \A U \in Whose(b) : Ledger(b, U)
<1>1. Homed
  BY DEF Init, Homed, Nothing
<1>2. ASSUME NEW b \in Backend
      PROVE  BooksTypes(b) /\ \A U \in Whose(b) : Ledger(b, U)
  <2>1. /\ counted[b] = [u \in Name |-> 0] /\ seen[b] = Nothing /\ poll[b] = None /\ session = Nothing
        /\ carried = [c \in Backend |-> [u \in Name |-> 0]] /\ again = [u \in Name |-> 0]
    BY DEF Init
  <2>2. ~Counts(b) /\ BooksTypes(b)
    BY <2>1 DEF Counts, BooksTypes, Nothing
  <2>3. ASSUME NEW U \in Whose(b)
        PROVE  Ledger(b, U)
    <3>1. Mine(b, U) = {} /\ Listed(b, U) = 0
      BY <2>1, <2>2 DEF Mine, Recorded, listSAs, L2tpSessions, PptpSessions, Nothing, Listed
    <3>2. Due(session, Mark(b), {}) = 0
      BY SumEmpty DEF Due
    <3>3. U \in SUBSET Name /\ IsFiniteSet(U)
      BY WhoseType
    <3>4. \A u \in U : counted[b][u] = 0 /\ carried[b][u] = 0 /\ again[u] = 0
      BY <2>1, <3>3
    <3>5. Sum(counted[b], U) = 0 /\ Sum(carried[b], U) = 0 /\ Sum(again, U) = 0
      <4> DEFINE f == counted[b]
                 g == carried[b]
      <4>1. \A u \in U : f[u] = 0 /\ g[u] = 0 /\ again[u] = 0
        BY <3>4
      <4> HIDE DEF f, g
      <4>2. Sum(f, U) = 0 /\ Sum(g, U) = 0 /\ Sum(again, U) = 0
        BY <3>3, <4>1, SumZero
      <4> QED
        BY <4>2 DEF f, g
    <3> QED
      BY <3>1, <3>2, <3>5 DEF Ledger, Allowed
  <2> QED
    BY <2>2, <2>3
<1> QED
  BY <1>1, <1>2 DEF Books, Init

\* Books stay books.
LEMMA BooksStep ==
    ASSUME Access, Books, [Next]_vars
    PROVE  Books'
<1>1. DOMAIN poll' = Backend /\ DOMAIN seen' = Backend /\ DOMAIN counted' = Backend
  BY Bills DEF Books, Quiet, Pulls, GetStats, Sample, Delta, PullFrame, PollRead, Count,
     EnforceDeviceLimits, statVars
<1>2. ASSUME NEW b \in Backend
      PROVE  BooksTypes(b)'
  <2>1. ASSUME poll'[b] = poll[b], seen'[b] = seen[b], counted'[b] = counted[b]
        PROVE  BooksTypes(b)'
    <3>1. Counts(b)' = Counts(b) /\ BooksTypes(b)
      BY <2>1 DEF Counts, Books
    <3> QED
      BY <2>1, <3>1 DEF BooksTypes
  <2>2. CASE Quiet \/ Pulls
    BY <2>1, <2>2 DEF Quiet, Pulls, GetStats, Sample, Delta, PullFrame
  <2>3. ASSUME NEW c \in Backend, PollRead(c) \/ Count(c) \/ EnforceDeviceLimits(c)
        PROVE  BooksTypes(b)'
    <3>1. CASE c # b
      BY <2>1, <2>3, <3>1 DEF PollRead, Count, EnforceDeviceLimits, statVars, Books
    <3>2. CASE c = b /\ EnforceDeviceLimits(b)
      <4>1. UNCHANGED <<seen, counted>> /\ ~Counts(b)'
        BY <3>2 DEF EnforceDeviceLimits, Counts, Ending, statVars, Books
      <4> QED
        BY <4>1 DEF BooksTypes, Books
    <3> QED
      BY <2>3, <3>1, <3>2, BooksRead, BooksCount
  <2> QED
    BY <2>2, <2>3, Bills
<1> QED
  BY <1>1, <1>2 DEF Books

\* Every step keeps every ledger.
LEMMA LedgerStep ==
    ASSUME OnePpp, Access, Access', Homed, Books, NEW b \in Backend, b \in node, NEW U \in Whose(b),
           Ledger(b, U), [Next]_vars
    PROVE  Ledger(b, U)'
<1>1. BooksTypes(b)
  BY DEF Books
<1>2. CASE Quiet
  BY <1>1, <1>2, LedgerQuiet DEF Quiet
<1>3. CASE Pulls
  <2>1. UNCHANGED <<poll, seen, counted, liveVars>>
    BY <1>3 DEF Pulls, GetStats, Sample, Delta, PullFrame
  <2>2. Moves
    BY <2>1, SameShrinks DEF Moves
  <2> QED
    BY <1>1, <2>1, <2>2, LedgerQuiet
<1>4. ASSUME NEW c \in Backend, PollRead(c) \/ Count(c) \/ EnforceDeviceLimits(c)
      PROVE  Ledger(b, U)'
  <2>1. CASE c = b
    BY <1>4, <2>1, LedgerRead, LedgerCount, LedgerEnforce
  <2>2. CASE c # b
    <3>1. poll'[b] = poll[b] /\ seen'[b] = seen[b] /\ counted'[b] = counted[b]
      BY <1>4, <2>2 DEF PollRead, Count, EnforceDeviceLimits, statVars, Books
    <3>2. Moves
      BY <1>4, PollLoops DEF Loop, Moves
    <3> QED
      BY <1>1, <3>1, <3>2, LedgerQuiet
  <2> QED
    BY <2>1, <2>2
<1> QED
  BY <1>2, <1>3, <1>4, Bills

\* A pull under way.
Pulling == [left : SUBSET Backend, b : Backend \cup {None}, sample : Nat]

\* Samples were totals, and what the panel pulled was counted before the baseline, but for
\* what the baseline went back by.
Pulled ==
    /\ DOMAIN base = Backend /\ DOMAIN pulled = Backend /\ DOMAIN rebased = Backend
    /\ \A b \in Backend : /\ pulled[b] \in Nat /\ rebased[b] \in Nat /\ base[b] \in Nat \cup {None}
                          /\ base[b] = None => pulled[b] = 0
                          /\ base[b] # None => pulled[b] <= base[b] + rebased[b] /\ base[b] <= TotalOf(b)
    /\ \A k \in DOMAIN pulls : /\ pulls[k] \in Pulling
                               /\ pulls[k].b # None => pulls[k].sample <= TotalOf(pulls[k].b)

\* Totals only grow.
LEMMA TotalStep ==
    ASSUME Access, Books, Books', [Next]_vars, NEW b \in Backend
    PROVE  TotalOf(b) \in Nat /\ TotalOf(b)' \in Nat /\ TotalOf(b) <= TotalOf(b)'
<1>1. TotalOf(b) \in Nat /\ TotalOf(b) = Sum(counted[b], Name) /\ BooksTypes(b)
  BY TotalsNat DEF Books
<1>2. CASE counted'[b] = counted[b]
  BY <1>1, <1>2 DEF TotalOf
<1>3. CASE Count(b)
  <2> DEFINE R == DOMAIN poll[b].rows
             g == [i \in R |-> Over(BytesOf(b, i), seen[b], i)]
             Q == RowsFor(b, Name)
  <2>1. Sum(g, Q) \in Nat /\ Sum(counted'[b], Name) = Sum(counted[b], Name) + Sum(g, Q)
    <3>1. Name \in SUBSET Name
      OBVIOUS
    <3> QED
      BY <1>3, <3>1, TotalGrows
  <2>2. TotalOf(b)' = Sum(counted'[b], Name)
    BY SumIs DEF TotalOf
  <2> HIDE DEF g, Q
  <2> QED
    BY <1>1, <2>1, <2>2
<1>4. counted'[b] = counted[b] \/ Count(b)
  <2>1. Quiet \/ Pulls => UNCHANGED counted
    BY DEF Quiet, Pulls, GetStats, Sample, Delta, PullFrame, statVars
  <2>2. ASSUME NEW c \in Backend, PollRead(c) \/ Count(c) \/ EnforceDeviceLimits(c)
        PROVE  counted'[b] = counted[b] \/ Count(b)
    <3>1. CASE PollRead(c) \/ EnforceDeviceLimits(c)
      BY <3>1 DEF PollRead, EnforceDeviceLimits, statVars
    <3>2. CASE Count(c) /\ c # b
      BY <3>2 DEF Count, Books
    <3> QED
      BY <2>2, <3>1, <3>2
  <2> QED
    BY <2>1, <2>2, Bills
<1> QED
  BY <1>2, <1>3, <1>4

\* What was pulled stays below what is counted.
LEMMA PulledStep ==
    ASSUME Access, Books, Books', Pulled, [Next]_vars
    PROVE  Pulled'
<1>1. \A b \in Backend : TotalOf(b) \in Nat /\ TotalOf(b)' \in Nat /\ TotalOf(b) <= TotalOf(b)'
  BY TotalStep
<1>2. CASE UNCHANGED <<pulls, base, pulled, rebased>>
  <2>1. ASSUME NEW b \in Backend, base[b] # None
        PROVE  base[b] <= TotalOf(b)'
    <3>1. base[b] \in Nat /\ base[b] <= TotalOf(b)
      BY <2>1 DEF Pulled
    <3> QED
      BY <3>1, <1>1
  <2>2. ASSUME NEW k \in DOMAIN pulls, pulls[k].b # None
        PROVE  pulls[k].sample <= TotalOf(pulls[k].b)'
    <3>1. PICK b : b = pulls[k].b
      OBVIOUS
    <3>2. b \in Backend /\ pulls[k].sample \in Nat /\ pulls[k].sample <= TotalOf(b)
      BY <2>2, <3>1 DEF Pulled, Pulling
    <3>3. pulls[k].sample <= TotalOf(b)'
      BY <3>2, <1>1
    <3>4. TotalOf(pulls[k].b)' = TotalOf(b)'
      BY <1>2, <3>1 DEF TotalOf
    <3> QED
      BY <3>3, <3>4
  <2> QED
    BY <1>2, <2>1, <2>2 DEF Pulled
<1>3. CASE Pulls
  <2>1. counted' = counted /\ \A b \in Backend : TotalOf(b)' = TotalOf(b)
    BY <1>3 DEF Pulls, GetStats, Sample, Delta, PullFrame, TotalOf
  <2>2. ASSUME NEW p, NEW k, pulls' = Put(pulls, k, p) \/ pulls' = Without(pulls, {k}),
               p \in Pulling, p.b # None => p.sample <= TotalOf(p.b)
        PROVE  \A j \in DOMAIN pulls' : /\ pulls'[j] \in Pulling
                                        /\ pulls'[j].b # None => pulls'[j].sample <= TotalOf(pulls'[j].b)
    <3> SUFFICES ASSUME NEW j \in DOMAIN pulls'
                 PROVE  /\ pulls'[j] \in Pulling
                        /\ pulls'[j].b # None => pulls'[j].sample <= TotalOf(pulls'[j].b)
      OBVIOUS
    <3>1. pulls'[j] = p \/ (j \in DOMAIN pulls /\ pulls'[j] = pulls[j])
      BY <2>2 DEF Put, Without
    <3> QED
      BY <2>2, <3>1 DEF Pulled
  <2>3. ASSUME \A j \in DOMAIN pulls' : /\ pulls'[j] \in Pulling
                                        /\ pulls'[j].b # None => pulls'[j].sample <= TotalOf(pulls'[j].b)
        PROVE  \A j \in DOMAIN pulls' : /\ pulls'[j] \in Pulling
                                        /\ pulls'[j].b # None => pulls'[j].sample <= TotalOf(pulls[j].b)'
    BY <2>1, <2>3 DEF TotalOf
  <2>4. CASE GetStats
    <3> DEFINE p == [left |-> node, b |-> None, sample |-> 0]
    <3>1. pulls' = Put(pulls, budget["pulls"], p) /\ UNCHANGED <<base, pulled, rebased>>
      BY <2>4 DEF GetStats
    <3>2. p \in Pulling /\ p.b = None
      BY DEF Pulling, Access, Tables
    <3> HIDE DEF p
    <3>3. \A j \in DOMAIN pulls' : /\ pulls'[j] \in Pulling
                                   /\ pulls'[j].b # None => pulls'[j].sample <= TotalOf(pulls[j].b)'
      BY <2>2, <2>3, <3>1, <3>2
    <3> QED
      BY <2>1, <3>1, <3>3 DEF Pulled
  <2>5. ASSUME NEW k \in DOMAIN pulls, NEW b \in Backend, Sample(k, b)
        PROVE  Pulled'
    <3> DEFINE p == [left |-> pulls[k].left \ {b}, b |-> IF b \in running THEN b ELSE None,
                     sample |-> IF b \in running THEN TotalOf(b) ELSE 0]
    <3>1. /\ pulls' = Put(pulls, k, p) \/ pulls' = Without(pulls, {k})
          /\ UNCHANGED <<base, pulled, rebased>>
      BY <2>5 DEF Sample, Continue
    <3>2. pulls[k].left \in SUBSET Backend /\ TotalOf(b) \in Nat
      BY <1>1 DEF Pulled, Pulling
    <3>3. p \in Pulling
      BY <3>2 DEF Pulling
    <3>4. p.b # None => p.b = b /\ p.sample = TotalOf(b)
      OBVIOUS
    <3> HIDE DEF p
    <3>5. p.b # None => p.sample <= TotalOf(p.b)
      BY <3>2, <3>4
    <3>6. \A j \in DOMAIN pulls' : /\ pulls'[j] \in Pulling
                                   /\ pulls'[j].b # None => pulls'[j].sample <= TotalOf(pulls[j].b)'
      BY <2>2, <2>3, <3>1, <3>3, <3>5
    <3> QED
      BY <2>1, <3>1, <3>6 DEF Pulled
  <2>6. ASSUME NEW k \in DOMAIN pulls, NEW b \in Backend, Delta(k, b)
        PROVE  Pulled'
    <3> DEFINE p == [pulls[k] EXCEPT !.b = None]
               s == pulls[k].sample
               r == Rebased(b, s)
    <3>1. /\ pulls' = Put(pulls, k, p) \/ pulls' = Without(pulls, {k})
          /\ pulls[k].b = b
          /\ \/ /\ base' = [base EXCEPT ![b] = s] /\ pulled' = [pulled EXCEPT ![b] = @ + s - r]
             \/ base' = [base EXCEPT ![b] = r] /\ UNCHANGED pulled
          /\ rebased' = [rebased EXCEPT ![b] = IF base[b] # None /\ s < base[b] THEN @ + base[b] - s ELSE @]
      BY <2>6 DEF Delta, Continue
    <3>2. p \in Pulling /\ p.b = None
      BY DEF Pulled, Pulling
    <3>3. s \in Nat /\ s <= TotalOf(b)
      BY <3>1, SessionsAssumption DEF Pulled, Pulling
    <3>4. r = IF base[b] = None \/ s < base[b] THEN s ELSE base[b]
      BY DEF Rebased
    <3>5. \A j \in DOMAIN pulls' : /\ pulls'[j] \in Pulling
                                   /\ pulls'[j].b # None => pulls'[j].sample <= TotalOf(pulls[j].b)'
      <4> HIDE DEF p
      <4> QED
        BY <2>2, <2>3, <3>1, <3>2
    <3> HIDE DEF p, s, r
    <3>6. /\ pulled[b] \in Nat /\ rebased[b] \in Nat /\ base[b] \in Nat \cup {None} /\ TotalOf(b) \in Nat
          /\ base[b] = None => pulled[b] = 0
          /\ base[b] # None => pulled[b] <= base[b] + rebased[b] /\ base[b] <= TotalOf(b)
          /\ DOMAIN base = Backend /\ DOMAIN pulled = Backend /\ DOMAIN rebased = Backend
      BY <1>1 DEF Pulled
    <3>7. /\ pulled'[b] \in Nat /\ rebased'[b] \in Nat /\ base'[b] \in Nat
          /\ pulled'[b] <= base'[b] + rebased'[b] /\ base'[b] <= TotalOf(b)
      <4>0. None \notin Nat
        BY SessionsAssumption
      <4>1. /\ \/ base'[b] = s /\ pulled'[b] = pulled[b] + s - r
               \/ base'[b] = r /\ pulled'[b] = pulled[b]
            /\ rebased'[b] = IF base[b] # None /\ s < base[b] THEN rebased[b] + base[b] - s ELSE rebased[b]
        <5>1. rebased'[b] = IF base[b] # None /\ s < base[b] THEN rebased[b] + base[b] - s ELSE rebased[b]
          BY <3>1, <3>6
        <5>2. CASE base' = [base EXCEPT ![b] = s] /\ pulled' = [pulled EXCEPT ![b] = @ + s - r]
          BY <5>1, <5>2, <3>6
        <5>3. CASE base' = [base EXCEPT ![b] = r] /\ UNCHANGED pulled
          BY <5>1, <5>3, <3>6
        <5> QED
          BY <5>2, <5>3, <3>1
      <4>2. CASE base[b] = None
        BY <4>0, <4>1, <4>2, <3>3, <3>4, <3>6
      <4>3. CASE base[b] # None /\ s < base[b]
        BY <4>0, <4>1, <4>3, <3>3, <3>4, <3>6
      <4>4. CASE base[b] # None /\ ~(s < base[b])
        BY <4>0, <4>1, <4>4, <3>3, <3>4, <3>6
      <4> QED
        BY <4>2, <4>3, <4>4
    <3>8. \A c \in Backend \ {b} : base'[c] = base[c] /\ pulled'[c] = pulled[c] /\ rebased'[c] = rebased[c]
      BY <3>1, <3>6
    <3>9. DOMAIN base' = Backend /\ DOMAIN pulled' = Backend /\ DOMAIN rebased' = Backend
      BY <3>1, <3>6
    <3>10. None \notin Nat
      BY SessionsAssumption
    <3> QED
      BY <2>1, <3>5, <3>7, <3>8, <3>9, <3>10 DEF Pulled
  <2> QED
    BY <1>3, <2>4, <2>5, <2>6 DEF Pulls
<1> QED
  BY <1>2, <1>3, Bills DEF Quiet, PollRead, Count, EnforceDeviceLimits, statVars, pullVars

\* On a node without two PPP backends no traffic is billed twice: poll bills every counter
\* from the mark of the poll before, IKEv2 to the user who carried it, through SAs and ppp
\* interfaces that end between the list and the count, numbers that are used again, and
\* restarts; and pulls report what was counted.  What charon shows again after a rekey, and
\* what a stale sample of an overlapping pull moves the baseline back by, is left out.
THEOREM NobodyIsOverbilled == OnePpp => (Spec => []NeverOverbilled)
<1> DEFINE Ledgers == \A b \in Backend : \A U \in Whose(b) : b \in node => Ledger(b, U)
           IInv == OnePpp /\ Access /\ Homed /\ Books /\ Ledgers /\ Pulled
<1>1. OnePpp /\ Init => IInv
  <2> SUFFICES ASSUME OnePpp, Init PROVE IInv
    OBVIOUS
  <2>1. Pulled
    BY DEF Init, Pulled, Nothing
  <2> QED
    BY <2>1, AccessInit, LedgerInit
<1>2. IInv /\ [Next]_vars => IInv'
  <2> SUFFICES ASSUME IInv, [Next]_vars PROVE IInv'
    OBVIOUS
  <2>1. Access' /\ Homed' /\ Books'
    BY AccessStep, HomedStep, BooksStep
  <2>2. Ledgers'
    <3> SUFFICES ASSUME NEW b \in Backend, NEW U \in Whose(b), b \in node' PROVE Ledger(b, U)'
      BY DEF Whose
    <3>1. b \in node
      BY Steps DEF Asks, Request, Refused, Table, Down, Up, Load, UnloadShared, ListRevoked,
         TerminateRevoked, Answer, Connects, Traffic, Rekey, RekeyIke, RekeyChild, Loop, ReqFrame,
         LiveFrame, nodeVars
    <3> QED
      BY <2>1, <3>1, LedgerStep
  <2>3. Pulled'
    BY <2>1, PulledStep
  <2>4. OnePpp'
    BY DEF OnePpp
  <2> QED
    BY <2>1, <2>2, <2>3, <2>4
<1>3. IInv => NeverOverbilled
  <2> SUFFICES ASSUME IInv, NEW b \in node
               PROVE  /\ IF b = "ikev2" THEN \A u \in Name : counted[b][u] <= carried[b][u] + again[u]
                         ELSE TotalOf(b) <= CarriedBy(b)
                      /\ pulled[b] <= TotalOf(b) + rebased[b]
    BY DEF NeverOverbilled
  <2>1. b \in Backend /\ Living /\ BooksTypes(b)
    BY DEF Access, Tables, Books
  <2>2. TotalOf(b) \in Nat /\ TotalOf(b) = Sum(counted[b], Name)
    BY <2>1, TotalsNat
  <2>3. ASSUME NEW U \in Whose(b)
        PROVE  Sum(counted[b], U) <= Allowed(b, U)
    <3> DEFINE c == Sum(counted[b], U)
               l == Listed(b, U)
               d == Due(session, Mark(b), Mine(b, U))
               A == Allowed(b, U)
    <3>1. U \in SUBSET Name
      BY <2>1, WhoseType
    <3>2. c \in Nat /\ l \in Nat
      BY <2>1, <3>1, TotalsNat
    <3>3. d \in Nat
      BY <2>1, MineType, MarkType, DueNat
    <3>4. A \in Nat
      BY <2>1, <3>1, TallyNat DEF Allowed, Living
    <3>5. c + l + d <= A
      BY <2>1 DEF Ledger
    <3> HIDE DEF c, l, d, A
    <3>6. c <= A
      BY <3>2, <3>3, <3>4, <3>5
    <3> QED
      BY <3>6 DEF c, A
  <2>4. pulled[b] <= TotalOf(b) + rebased[b]
    BY <2>1, <2>2 DEF Pulled
  <2>5. CASE b = "ikev2"
    <3> SUFFICES ASSUME NEW u \in Name PROVE counted[b][u] <= carried[b][u] + again[u]
      BY <2>5, <2>4
    <3>1. {u} \in Whose(b)
      BY <2>5 DEF Whose
    <3>2. counted[b][u] \in Nat /\ carried[b][u] \in Nat /\ again[u] \in Nat
      BY <2>1 DEF BooksTypes, Living
    <3>3. Sum(counted[b], {u}) = counted[b][u] /\ Sum(carried[b], {u}) = carried[b][u] /\ Sum(again, {u}) = again[u]
      BY <3>2, SumOne
    <3> QED
      BY <2>3, <2>5, <3>1, <3>3 DEF Allowed
  <2>6. CASE b # "ikev2"
    <3>1. Sum(counted[b], Name) <= Allowed(b, Name)
      BY <2>3, <2>6 DEF Whose
    <3>2. Sum(carried[b], Name) \in Nat
      BY <2>1, TallyNat DEF Living
    <3>3. Allowed(b, Name) = CarriedBy(b)
      BY <2>6, <3>2, SumIs DEF Allowed, CarriedBy
    <3> QED
      BY <2>2, <2>4, <2>6, <3>1, <3>3
  <2> QED
    BY <2>5, <2>6
<1> QED
  BY <1>1, <1>2, <1>3, PTL DEF Spec

-----------------------------------------------------------------------------
(* Answers.                                                                *)

\* What the code takes for granted of the lists: the user name of a credential and the
\* e-mail are both the user's id (users.go: "keyed by username = user id", "email = user
\* id"), and a list names a user once.
PanelLists ==
    /\ \A u \in Anyone : u.email = u.name
    /\ \A l \in Arrivals : \A i, j \in DOMAIN l : l[i].name = l[j].name => i = j

\* A table, and what is accepted, as a user has to be found in them.
InTable(b, t, u) ==
    IF Wants(b, u) THEN u.name \in DOMAIN t /\ t[u.name] = Entry(b, u) ELSE u.name \notin DOMAIN t
InSecrets(b, t, s, u) ==
    IF Wants(b, u) THEN u.name \in DOMAIN s /\ s[u.name] = t[u.name].pass
    ELSE b # "ikev2" => u.name \notin DOMAIN s

\* A list makes of a table what it says of its users, and leaves the others alone.
LEMMA TakenHas ==
    ASSUME NEW b \in Backend, NEW full \in BOOLEAN, NEW t, full => DOMAIN t = {}, NEW q \in Seq(Anyone),
           \A u \in Anyone : u.email = u.name, \A i, j \in DOMAIN q : q[i].name = q[j].name => i = j
    PROVE  LET T == Taken(b, full, t, q)
           IN  /\ \A i \in DOMAIN q : InTable(b, T, q[i])
               /\ \A x : (\A i \in DOMAIN q : q[i].name # x) =>
                     (x \in DOMAIN T <=> x \in DOMAIN t) /\ (x \in DOMAIN t => T[x] = t[x])
<1> DEFINE T(n) == TakenTo(b, full, t, q, n)
<1>5. \A n \in Nat : T(n + 1) = TakeUser(b, full, T(n), q[n + 1])
  BY TakenNext
<1>6. \A r, v : /\ TakeUser(b, TRUE, r, v) = IF Wants(b, v) THEN Put(r, v.name, Entry(b, v)) ELSE r
               /\ TakeUser(b, FALSE, r, v) =
                     IF Wants(b, v) THEN Put(r, v.name, Entry(b, v)) ELSE Without(r, {v.email})
  <2> SUFFICES ASSUME NEW r, NEW v
               PROVE  /\ TakeUser(b, TRUE, r, v) = IF Wants(b, v) THEN Put(r, v.name, Entry(b, v)) ELSE r
                      /\ TakeUser(b, FALSE, r, v) =
                            IF Wants(b, v) THEN Put(r, v.name, Entry(b, v)) ELSE Without(r, {v.email})
    OBVIOUS
  <2> QED
    BY ONLY b \in Backend, TakeUserIs
<1> DEFINE Has(n) == /\ \A i \in 1..n : InTable(b, T(n), q[i])
                     /\ \A x : (\A i \in 1..n : q[i].name # x) =>
                           (x \in DOMAIN T(n) <=> x \in DOMAIN t) /\ (x \in DOMAIN t => T(n)[x] = t[x])
           Q == {n \in Nat : n <= Len(q) => Has(n)}
<1>0. Len(q) \in Nat /\ DOMAIN q = 1..Len(q)
  OBVIOUS
<1>1. 0 \in Q
  <2>1. T(0) = t
    BY TakenNone
  <2> HIDE DEF T
  <2> QED
    BY <2>1
<1>2. ASSUME NEW n \in Nat, n \in Q
      PROVE  n + 1 \in Q
  <2> SUFFICES ASSUME n + 1 <= Len(q)
               PROVE  Has(n + 1)
    BY <1>2
  <2> DEFINE u == q[n + 1]
  <2>1. Has(n)
    BY <1>0, <1>2
  <2>2. u \in Anyone /\ n + 1 \in DOMAIN q
    BY <1>0
  <2>3. T(n + 1) = TakeUser(b, full, T(n), u)
    BY <1>5
  <2>4. \A i \in 1..n : q[i].name # u.name
    BY <1>0, <2>2
  <2> HIDE DEF T
  <2>5. u.email = u.name
    BY <2>2
  <2> HIDE DEF u
  <2>6. CASE Wants(b, u)
    <3>1. T(n + 1) = Put(T(n), u.name, Entry(b, u))
      BY <2>3, <2>6, <1>6
    <3>2. u.name \in DOMAIN T(n + 1) /\ T(n + 1)[u.name] = Entry(b, u)
      BY <3>1 DEF Put
    <3>3. \A x : x # u.name => /\ x \in DOMAIN T(n + 1) <=> x \in DOMAIN T(n)
                               /\ x \in DOMAIN T(n) => T(n + 1)[x] = T(n)[x]
      BY <3>1 DEF Put
    <3>4. \A i \in 1..n : InTable(b, T(n + 1), q[i])
      BY <2>1, <2>4, <3>3 DEF InTable
    <3>5. InTable(b, T(n + 1), u)
      BY <3>2, <2>6 DEF InTable
    <3>6. \A i \in 1..(n + 1) : InTable(b, T(n + 1), q[i])
      BY <3>4, <3>5 DEF u
    <3>7. ASSUME NEW x, \A i \in 1..(n + 1) : q[i].name # x
          PROVE  (x \in DOMAIN T(n + 1) <=> x \in DOMAIN t) /\ (x \in DOMAIN t => T(n + 1)[x] = t[x])
      <4>1. x # u.name /\ \A i \in 1..n : q[i].name # x
        BY <3>7 DEF u
      <4> QED
        BY <4>1, <3>3, <2>1
    <3> QED
      BY <3>6, <3>7
  <2>7. CASE ~Wants(b, u)
    <3>1. T(n + 1) = Without(T(n), {u.name}) \/ (full /\ T(n + 1) = T(n))
      <4>1. CASE full = TRUE
        <5>1. TakeUser(b, TRUE, T(n), u) = T(n)
          BY <2>7, <1>6
        <5> QED
          BY <4>1, <5>1, <2>3
      <4>2. CASE full = FALSE
        <5>1. TakeUser(b, FALSE, T(n), u) = Without(T(n), {u.email})
          BY <2>7, <1>6
        <5> QED
          BY <4>2, <5>1, <2>3, <2>5
      <4> QED
        BY <4>1, <4>2
    <3>2. u.name \notin DOMAIN T(n + 1)
      <4>1. CASE full /\ T(n + 1) = T(n)
        BY <4>1, <2>1, <2>4
      <4>2. CASE T(n + 1) = Without(T(n), {u.name})
        BY <4>2 DEF Without
      <4> QED
        BY <4>1, <4>2, <3>1
    <3>3. \A x : x # u.name => /\ x \in DOMAIN T(n + 1) <=> x \in DOMAIN T(n)
                               /\ x \in DOMAIN T(n) => T(n + 1)[x] = T(n)[x]
      BY <3>1 DEF Without
    <3>4. \A i \in 1..n : InTable(b, T(n + 1), q[i])
      BY <2>1, <2>4, <3>3 DEF InTable
    <3>5. InTable(b, T(n + 1), u)
      BY <3>2, <2>7 DEF InTable
    <3>6. \A i \in 1..(n + 1) : InTable(b, T(n + 1), q[i])
      BY <3>4, <3>5 DEF u
    <3>7. ASSUME NEW x, \A i \in 1..(n + 1) : q[i].name # x
          PROVE  (x \in DOMAIN T(n + 1) <=> x \in DOMAIN t) /\ (x \in DOMAIN t => T(n + 1)[x] = t[x])
      <4>1. x # u.name /\ \A i \in 1..n : q[i].name # x
        BY <3>7 DEF u
      <4> QED
        BY <4>1, <3>3, <2>1
    <3> QED
      BY <3>6, <3>7
  <2> QED
    BY <2>6, <2>7
<1>3. Len(q) \in Q
  <2> HIDE DEF Q
  <2> QED
    BY <1>0, <1>1, <1>2, NatSetInduction
<1>4. Taken(b, full, t, q) = T(Len(q))
  BY <1>0, TakenIs
<1> QED
  BY <1>0, <1>3, <1>4

\* A partial list leaves the users that it does not name alone.
LEMMA TakenLeaves ==
    ASSUME NEW b \in Backend, NEW t, NEW q \in Seq(Anyone),
           \A u \in Anyone : u.email = u.name, \A i, j \in DOMAIN q : q[i].name = q[j].name => i = j,
           NEW x, \A i \in DOMAIN q : q[i].name # x
    PROVE  /\ x \in DOMAIN ApplyUsers(b, t, q) <=> x \in DOMAIN t
           /\ x \in DOMAIN t => ApplyUsers(b, t, q)[x] = t[x]
<1>1. PICK full \in BOOLEAN : full = FALSE
  OBVIOUS
<1>2. full => DOMAIN t = {}
  BY <1>1
<1> DEFINE T == Taken(b, full, t, q)
<1>3. (x \in DOMAIN T <=> x \in DOMAIN t) /\ (x \in DOMAIN t => T[x] = t[x])
  BY <1>2, TakenHas
<1>4. T = ApplyUsers(b, t, q)
  BY <1>1 DEF ApplyUsers
<1> HIDE DEF T
<1> QED
  BY <1>3, <1>4

\* The users before From have been given to every backend, those from there to To are
\* the ones under way, and those after To are still to be read.
To == Len(asked) - Len(req.more)
From == To - Len(req.list)

\* Whose entries, and whose secrets, a backend has taken.
Entered(b, i) == i <= From \/ (b \notin req.left /\ i <= To)
Opened(b, i) == i <= From \/ (b \notin req.left /\ i <= To /\ ~(b = req.b /\ req.at \in {"load", "down", "up"}))

\* Where the list is.
Placed ==
    /\ asked \in Arrivals /\ req \in Requests /\ From \in Nat /\ req.left \subseteq node
    /\ \A i \in 1..Len(req.list) : req.list[i] = asked[From + i]
    /\ \A i \in 1..Len(req.more) : req.more[i] = asked[To + i]
    /\ req.op # "apply" => From = 0 /\ req.more = <<>>
    /\ req.at \in {"down", "up"} => req.op # "apply"

\* Without an error every backend called so far has what was asked.
Applying ==
    /\ Placed
    /\ \A b \in node : \A i \in DOMAIN asked :
          /\ Entered(b, i) => InTable(b, users[b], asked[i])
          /\ Opened(b, i) => InSecrets(b, users[b], secrets[b], asked[i])
    /\ req.at \in {"load", "unload"} =>
          \A i \in DOMAIN asked : i <= To /\ Wants("ikev2", asked[i]) => asked[i].name \notin req.removed

\* Every backend has what was asked.
Applied ==
    /\ asked \in Arrivals
    /\ \A b \in node : \A i \in DOMAIN asked :
          InTable(b, users[b], asked[i]) /\ InSecrets(b, users[b], secrets[b], asked[i])

\* A request answered with success is applied, and one without an error so far is as far as it got.
ApplyingInv ==
    /\ req = None /\ reply = "ok" => Applied \/ asked = <<>>
    /\ req # None /\ ~req.err => Applying

\* Places in the list, as numbers.
LEMMA Places ==
    ASSUME PanelLists, Placed
    PROVE  /\ asked \in Seq(Anyone) /\ DOMAIN asked = 1..Len(asked) /\ Len(asked) \in Nat
           /\ req.list \in Seq(Anyone) /\ req.more \in Seq(Anyone)
           /\ Len(req.list) \in Nat /\ Len(req.more) \in Nat
           /\ DOMAIN req.list = 1..Len(req.list)
           /\ To \in Nat /\ From \in Nat /\ To <= Len(asked) /\ From + Len(req.list) = To
           /\ \A i, j \in DOMAIN asked : asked[i].name = asked[j].name => i = j
           /\ \A i, j \in DOMAIN req.list : req.list[i].name = req.list[j].name => i = j
<1>1. asked \in Seq(Anyone)
  BY ArrivalsType DEF Placed
<1>2. DOMAIN asked = 1..Len(asked) /\ Len(asked) \in Nat
  BY <1>1
<1>3. req.list \in Seq(Anyone) /\ req.more \in Seq(Anyone)
  BY DEF Placed, Requests
<1>4. Len(req.list) \in Nat /\ Len(req.more) \in Nat /\ DOMAIN req.list = 1..Len(req.list)
  BY <1>3
<1>5. To \in Nat /\ From \in Nat /\ To <= Len(asked) /\ From + Len(req.list) = To
  <2>1. From \in Nat /\ From = To - Len(req.list)
    BY DEF Placed, From
  <2>2. To = Len(asked) - Len(req.more)
    BY DEF To
  <2> QED
    BY <2>1, <2>2, <1>2, <1>4
<1>6. \A i, j \in DOMAIN asked : asked[i].name = asked[j].name => i = j
  BY DEF PanelLists, Placed
<1>7. ASSUME NEW i \in DOMAIN req.list, NEW j \in DOMAIN req.list, req.list[i].name = req.list[j].name
      PROVE  i = j
  <2>1. req.list[i] = asked[From + i] /\ req.list[j] = asked[From + j]
    BY <1>4 DEF Placed
  <2>2. From + i \in DOMAIN asked /\ From + j \in DOMAIN asked
    BY <1>2, <1>4, <1>5
  <2>3. From + i = From + j
    BY <1>6, <1>7, <2>1, <2>2
  <2> QED
    BY <2>3, <1>4, <1>5
<1> QED
  BY <1>1, <1>2, <1>3, <1>4, <1>5, <1>6, <1>7

\* A request begins.
LEMMA ApplyingAsks ==
    ASSUME PanelLists, Access, Asks
    PROVE  ApplyingInv'
<1>1. PICK op \in {"apply", "replace", "restart"}, named \in Arrivals :
           \/ Request(op, named, <<>>, named)
           \/ op = "apply" /\ named # <<>> /\ Request(op, <<Head(named)>>, Tail(named), named)
  BY DEF Asks
<1>2. named \in Seq(Anyone)
  BY ArrivalsType
<1>3. PICK list \in Seq(Anyone), more \in Seq(Anyone) :
        /\ Request(op, list, more, named)
        /\ Len(list) + Len(more) = Len(named) /\ (op # "apply" => more = <<>>)
        /\ \A i \in 1..Len(list) : list[i] = named[i]
        /\ \A i \in 1..Len(more) : more[i] = named[Len(list) + i]
  <2>1. CASE Request(op, named, <<>>, named)
    <3>1. /\ <<>> \in Seq(Anyone) /\ Len(named) + Len(<<>>) = Len(named)
          /\ \A i \in 1..Len(<<>>) : <<>>[i] = named[Len(named) + i]
      BY <1>2
    <3> QED
      BY <2>1, <3>1, <1>2
  <2>2. CASE op = "apply" /\ named # <<>> /\ Request(op, <<Head(named)>>, Tail(named), named)
    <3>1. /\ <<Head(named)>> \in Seq(Anyone) /\ Tail(named) \in Seq(Anyone)
          /\ Len(<<Head(named)>>) = 1 /\ Len(Tail(named)) = Len(named) - 1 /\ Len(named) \in Nat
          /\ <<Head(named)>>[1] = named[1]
          /\ \A i \in 1..Len(Tail(named)) : Tail(named)[i] = named[1 + i]
      BY <1>2, <2>2
    <3> DEFINE l == <<Head(named)>>
               m == Tail(named)
    <3>2. Len(l) + Len(m) = Len(named)
      BY <3>1
    <3>3. \A i \in 1..Len(l) : l[i] = named[i]
      BY <3>1
    <3>4. \A i \in 1..Len(m) : m[i] = named[Len(l) + i]
      BY <3>1
    <3>5. Request(op, l, m, named) /\ l \in Seq(Anyone) /\ m \in Seq(Anyone)
      BY <2>2, <3>1
    <3> HIDE DEF l, m
    <3> QED
      BY <2>2, <3>2, <3>3, <3>4, <3>5
  <2> QED
    BY <1>1, <2>1, <2>2
<1>4. /\ req' = [op |-> op, list |-> list, more |-> more, left |-> node, b |-> None, at |-> "next",
                 removed |-> {}, victims |-> {}, err |-> FALSE]
      /\ asked' = named /\ node' = node
  BY <1>3 DEF Request, nodeVars
<1>5. req' \in Requests
  BY <1>4 DEF Requests, Access, Tables
<1>6. To' = Len(list) /\ From' = 0
  BY <1>2, <1>3, <1>4 DEF To, From
<1>7. Placed'
  BY <1>2, <1>3, <1>4, <1>5, <1>6 DEF Placed
<1>8. \A b \in node, i \in DOMAIN asked' : ~Entered(b, i)' /\ ~Opened(b, i)'
  BY <1>2, <1>4, <1>6 DEF Entered, Opened
<1>9. Applying'
  BY <1>4, <1>7, <1>8 DEF Applying
<1> QED
  BY <1>5, <1>9, SessionsAssumption DEF ApplyingInv

\* A backend takes the list into its table.
LEMMA ApplyingTable ==
    ASSUME PanelLists, Access, Applying, NEW b \in Backend, Table(b)
    PROVE  Applying'
<1> DEFINE table == IF req.op = "apply" THEN ApplyUsers(b, users[b], req.list) ELSE Replaced(b, req.list)
           removed == IF req.op = "apply" THEN RemovedBy(b, users[b], req.list)
                      ELSE DOMAIN users[b] \ DOMAIN table
<1>1. Placed /\ req.at = "next" /\ b \in req.left /\ req \in Requests
  BY DEF Applying, Placed, Table, At
<1>2. /\ asked \in Seq(Anyone) /\ DOMAIN asked = 1..Len(asked) /\ Len(asked) \in Nat
      /\ req.list \in Seq(Anyone) /\ Len(req.list) \in Nat /\ DOMAIN req.list = 1..Len(req.list)
      /\ To \in Nat /\ From \in Nat /\ To <= Len(asked) /\ From + Len(req.list) = To
      /\ \A i, j \in DOMAIN asked : asked[i].name = asked[j].name => i = j
      /\ \A i, j \in DOMAIN req.list : req.list[i].name = req.list[j].name => i = j
  BY <1>1, Places
<1>3. /\ users' = [users EXCEPT ![b] = table] /\ UNCHANGED <<node, secrets, asked>>
      /\ req'.list = req.list /\ req'.more = req.more /\ req'.op = req.op
      /\ req'.left = req.left \ {b} /\ req'.b = b /\ req'.removed = (IF b = "ikev2" THEN removed ELSE {})
      /\ req'.at = IF req.op = "restart" THEN "down" ELSE "load"
  BY <1>1 DEF Table, At, ReqFrame, Requests
<1>4. To' = To /\ From' = From
  BY <1>3 DEF To, From
<1>5. Placed'
  <2>1. req' \in Requests
    BY GoesOn DEF Access, Goes
  <2> QED
    BY <2>1, <1>1, <1>3, <1>4 DEF Placed
<1>6. ASSUME NEW i \in DOMAIN asked, From < i, i <= To
      PROVE  i - From \in DOMAIN req.list /\ asked[i] = req.list[i - From]
  <2>1. i - From \in 1..Len(req.list) /\ From + (i - From) = i
    BY <1>2, <1>6
  <2> QED
    BY <2>1, <1>1, <1>2 DEF Placed
<1>7. ASSUME NEW i \in DOMAIN asked, i <= From
      PROVE  \A j \in DOMAIN req.list : req.list[j].name # asked[i].name
  <2> SUFFICES ASSUME NEW j \in DOMAIN req.list
               PROVE  req.list[j].name # asked[i].name
    OBVIOUS
  <2>1. req.list[j] = asked[From + j] /\ From + j \in DOMAIN asked /\ From + j # i
    BY <1>1, <1>2, <1>7 DEF Placed
  <2> QED
    BY <2>1, <1>2
<1>8. /\ \A j \in DOMAIN req.list : InTable(b, table, req.list[j])
      /\ req.op = "apply" =>
           \A x : (\A j \in DOMAIN req.list : req.list[j].name # x) =>
              (x \in DOMAIN table <=> x \in DOMAIN users[b]) /\ (x \in DOMAIN users[b] => table[x] = users[b][x])
  <2>1. \A u \in Anyone : u.email = u.name
    BY DEF PanelLists
  <2>2. CASE req.op = "apply"
    <3> DEFINE T == Taken(b, FALSE, users[b], req.list)
    <3>1. table = T /\ T = ApplyUsers(b, users[b], req.list)
      BY <2>2 DEF ApplyUsers
    <3> HIDE DEF table
    <3>2. \A j \in DOMAIN req.list : InTable(b, T, req.list[j])
      <4>1. PICK full \in BOOLEAN : full = FALSE
        OBVIOUS
      <4>2. full => DOMAIN users[b] = {}
        BY <4>1
      <4>3. \A j \in DOMAIN req.list : InTable(b, Taken(b, full, users[b], req.list), req.list[j])
        BY <1>2, <2>1, <4>2, TakenHas
      <4> QED
        BY <4>1, <4>3
    <3>3. ASSUME NEW x, \A j \in DOMAIN req.list : req.list[j].name # x
          PROVE  /\ x \in DOMAIN ApplyUsers(b, users[b], req.list) <=> x \in DOMAIN users[b]
                 /\ x \in DOMAIN users[b] => ApplyUsers(b, users[b], req.list)[x] = users[b][x]
      <4>1. PICK t, q : t = users[b] /\ q = req.list
        OBVIOUS
      <4>2. q \in Seq(Anyone) /\ \A i, j \in DOMAIN q : q[i].name = q[j].name => i = j
        BY <4>1, <1>2
      <4>3. \A j \in DOMAIN q : q[j].name # x
        BY <4>1, <3>3
      <4>4. /\ x \in DOMAIN ApplyUsers(b, t, q) <=> x \in DOMAIN t
            /\ x \in DOMAIN t => ApplyUsers(b, t, q)[x] = t[x]
        BY ONLY b \in Backend, <2>1, <4>2, <4>3, TakenLeaves
      <4> QED
        BY <4>1, <4>4
    <3> HIDE DEF T
    <3> QED
      BY <3>1, <3>2, <3>3
  <2>3. CASE req.op # "apply"
    <3> DEFINE T == Taken(b, TRUE, Nothing, req.list)
    <3>1. table = T
      BY <2>3 DEF Replaced
    <3> HIDE DEF table
    <3>2. DOMAIN Nothing = {}
      BY DEF Nothing
    <3>3. \A j \in DOMAIN req.list : InTable(b, T, req.list[j])
      BY <1>2, <2>1, <3>2, TakenHas
    <3> HIDE DEF T
    <3> QED
      BY <3>1, <3>3, <2>3
  <2> QED
    BY <2>2, <2>3
<1>9. ASSUME NEW i \in DOMAIN asked, i <= To
      PROVE  InTable(b, table, asked[i])
  <2> HIDE DEF table
  <2>1. CASE From < i
    BY <2>1, <1>6, <1>8, <1>9
  <2>2. CASE ~(From < i)
    <3>1. i <= From /\ i >= 1
      BY <2>2, <1>2
    <3>2. req.op = "apply" /\ b \in node
      BY <3>1, <1>1, <1>2 DEF Placed
    <3>3. InTable(b, users[b], asked[i])
      BY <3>1, <3>2 DEF Applying, Entered
    <3> QED
      BY <3>1, <3>2, <3>3, <1>7, <1>8 DEF InTable
  <2> QED
    BY <2>1, <2>2
<1>10. ASSUME NEW c \in node, NEW i \in DOMAIN asked, Entered(c, i)'
       PROVE  InTable(c, users'[c], asked[i])
  <2> HIDE DEF table, removed
  <2>1. c \in Backend /\ DOMAIN users = Backend
    BY DEF Access, Tables
  <2>2. CASE c = b
    <3>1. i <= To
      BY <1>2, <1>3, <1>4, <1>10 DEF Entered
    <3> QED
      BY <2>1, <2>2, <3>1, <1>3, <1>9
  <2>3. CASE c # b
    <3>1. Entered(c, i)
      BY <2>3, <1>3, <1>4, <1>10 DEF Entered
    <3> QED
      BY <2>1, <2>3, <3>1, <1>3 DEF Applying
  <2> QED
    BY <2>2, <2>3
<1>11. ASSUME NEW c \in node, NEW i \in DOMAIN asked, Opened(c, i)'
       PROVE  InSecrets(c, users'[c], secrets[c], asked[i])
  <2> HIDE DEF table, removed
  <2>1. c \in Backend /\ DOMAIN users = Backend
    BY DEF Access, Tables
  <2>2. CASE c = b
    <3>1. i <= From
      BY <2>2, <1>3, <1>4, <1>11 DEF Opened
    <3>2. Entered(b, i) /\ Opened(b, i)
      BY <3>1 DEF Entered, Opened
    <3>3. InTable(b, users[b], asked[i]) /\ InSecrets(b, users[b], secrets[b], asked[i])
      BY <2>2, <3>2 DEF Applying
    <3>4. req.op = "apply"
      BY <3>1, <1>1, <1>2 DEF Placed
    <3>5. asked[i].name \in DOMAIN users[b] => table[asked[i].name] = users[b][asked[i].name]
      BY <3>1, <3>4, <1>7, <1>8
    <3>6. users'[c] = table
      BY <2>1, <2>2, <1>3
    <3> QED
      BY <2>2, <3>3, <3>5, <3>6 DEF InTable, InSecrets
  <2>3. CASE c # b
    <3>1. Opened(c, i)
      BY <2>3, <1>1, <1>3, <1>4, <1>11 DEF Opened
    <3> QED
      BY <2>1, <2>3, <3>1, <1>3 DEF Applying
  <2> QED
    BY <2>2, <2>3
<1>12. ASSUME NEW i \in DOMAIN asked, i <= To, Wants("ikev2", asked[i])
       PROVE  asked[i].name \notin req'.removed
  <2>1. CASE b # "ikev2"
    BY <2>1, <1>3
  <2>2. CASE b = "ikev2" /\ req.op # "apply"
    <3>1. InTable(b, table, asked[i])
      BY <1>9, <1>12
    <3> HIDE DEF table
    <3> QED
      BY <2>2, <3>1, <1>3, <1>12 DEF InTable
  <2>3. CASE b = "ikev2" /\ req.op = "apply"
    <3>1. req'.removed = RemovedBy(b, users[b], req.list)
      BY <2>3, <1>3
    <3>2. ASSUME NEW j \in DOMAIN req.list, ~Wants(b, req.list[j])
          PROVE  req.list[j].email # asked[i].name
      <4>1. /\ req.list[j] = asked[From + j] /\ From + j \in DOMAIN asked
            /\ req.list[j].email = req.list[j].name
        BY <1>1, <1>2 DEF Placed, PanelLists
      <4>2. From + j # i
        BY <2>3, <3>2, <4>1, <1>12
      <4> QED
        BY <4>1, <4>2, <1>2
    <3> QED
      BY <3>1, <3>2 DEF RemovedBy
  <2> QED
    BY <2>1, <2>2, <2>3
<1> HIDE DEF table, removed
<1> QED
  BY <1>3, <1>4, <1>5, <1>10, <1>11, <1>12 DEF Applying

\* Steps of the backend that is called leave the list where it is.
Stays ==
    /\ req' \in Requests /\ UNCHANGED <<node, asked, users>>
    /\ req'.op = req.op /\ req'.list = req.list /\ req'.more = req.more /\ req'.left = req.left
    /\ req'.b = req.b /\ req'.removed = req.removed

\* A step that leaves the list alone leaves its place alone.
LEMMA StaysPlaced ==
    ASSUME Placed, Stays, req'.at \in {"down", "up"} => req.at \in {"down", "up"}
    PROVE  Placed' /\ To' = To /\ From' = From
<1>1. To' = To /\ From' = From
  BY DEF To, From, Stays
<1> QED
  BY <1>1 DEF Placed, Stays

\* Every secret of a table is loaded.
LEMMA LoadedHas ==
    ASSUME NEW b \in Backend, NEW u, InTable(b, users[b], u)
    PROVE  InSecrets(b, users[b], Loaded(b), u)
<1>1. CASE b = "ikev2"
  BY <1>1 DEF InTable, InSecrets, Loaded, Merge, Passwords
<1>2. CASE b # "ikev2"
  BY <1>2 DEF InTable, InSecrets, Loaded, Passwords
<1> QED
  BY <1>1, <1>2

\* The secrets of the backend that is called are loaded, after its table or its restart.
LEMMA ApplyingLoaded ==
    ASSUME Access, Applying, Stays, req'.at \in {"next", "unload"}, req.at \in {"load", "up"},
           req'.at = "unload" => req.at = "load",
           secrets' = [secrets EXCEPT ![req.b] = Loaded(req.b)]
    PROVE  Applying'
<1>1. Placed' /\ To' = To /\ From' = From
  BY StaysPlaced DEF Applying
<1>2. ASSUME NEW c \in node, NEW i \in DOMAIN asked
      PROVE  /\ Entered(c, i)' => InTable(c, users[c], asked[i])
             /\ Opened(c, i)' => InSecrets(c, users[c], secrets'[c], asked[i])
  <2>1. Entered(c, i)' <=> Entered(c, i)
    BY <1>1 DEF Entered, Stays
  <2>2. Entered(c, i) => InTable(c, users[c], asked[i])
    BY DEF Applying
  <2>3. Opened(c, i)' => Entered(c, i)
    BY <1>1 DEF Entered, Opened, Stays
  <2>4. c \in Backend /\ DOMAIN secrets = Backend
    BY DEF Access, Tables
  <2>5. CASE c = req.b
    <3>1. secrets'[c] = Loaded(c)
      BY <2>4, <2>5
    <3> QED
      BY <2>1, <2>2, <2>3, <2>4, <3>1, LoadedHas
  <2>6. CASE c # req.b
    <3>1. secrets'[c] = secrets[c]
      BY <2>4, <2>6
    <3>2. Opened(c, i)' => Opened(c, i)
      BY <2>6, <1>1 DEF Opened, Stays
    <3> QED
      BY <2>1, <2>2, <3>1, <3>2 DEF Applying
  <2> QED
    BY <2>5, <2>6
<1>3. req'.at \in {"load", "unload"} =>
        \A i \in DOMAIN asked : i <= To /\ Wants("ikev2", asked[i]) => asked[i].name \notin req'.removed
  BY DEF Applying, Stays
<1> QED
  BY <1>1, <1>2, <1>3 DEF Applying, Stays

\* The other steps of a backend: what they take from it nobody asked for.
LEMMA ApplyingStays ==
    ASSUME Access, Applying, Stays,
           req.at \in {"load", "down", "up"} <=> req'.at \in {"load", "down", "up"},
           req'.at \in {"down", "up"} => req.at \in {"down", "up"}, req'.at \notin {"load", "unload"},
           \A c \in node, i \in DOMAIN asked :
               InSecrets(c, users[c], secrets[c], asked[i]) /\ InTable(c, users[c], asked[i]) /\ Opened(c, i)
               => InSecrets(c, users[c], secrets'[c], asked[i])
    PROVE  Applying'
<1>1. Placed' /\ To' = To /\ From' = From
  BY StaysPlaced DEF Applying
<1>2. ASSUME NEW c \in node, NEW i \in DOMAIN asked
      PROVE  /\ Entered(c, i)' => InTable(c, users[c], asked[i])
             /\ Opened(c, i)' => InSecrets(c, users[c], secrets'[c], asked[i])
  <2>1. (Entered(c, i)' <=> Entered(c, i)) /\ (Opened(c, i)' <=> Opened(c, i))
    BY <1>1 DEF Entered, Opened, Stays
  <2>2. Opened(c, i) => Entered(c, i)
    BY DEF Entered, Opened
  <2> QED
    BY <2>1, <2>2 DEF Applying
<1> QED
  BY <1>1, <1>2 DEF Applying, Stays

\* Steps of a request that go on without an error.
LEMMA ApplyingGoes ==
    ASSUME PanelLists, Access, req # None, ~req.err => Applying, Goes, ~req'.err
    PROVE  Applying'
<1>1. req \in Requests /\ req' \in Requests
  BY GoesOn DEF Access, Asking
<1>2. ASSUME NEW b \in Backend, Table(b)
      PROVE  Applying'
  <2>1. req'.err = req.err
    BY <1>1, <1>2 DEF Table, Requests
  <2>2. Applying
    BY <2>1
  <2> QED
    BY <1>2, <2>2, ApplyingTable
<1>3. CASE Load
  <2>1. /\ req.at = "load" /\ UNCHANGED <<node, asked, users>>
        /\ \/ /\ req' = [req EXCEPT !.at = IF req.removed = {} THEN "next" ELSE "unload"]
              /\ secrets' = [secrets EXCEPT ![req.b] = Loaded(req.b)]
           \/ req' = [req EXCEPT !.err = TRUE, !.at = IF req.removed = {} THEN "next" ELSE "unload"]
    BY <1>3 DEF Load, LoadThen, LoadFails, Goto, At, ReqFrame
  <2>2. ~(req' = [req EXCEPT !.err = TRUE, !.at = IF req.removed = {} THEN "next" ELSE "unload"])
    BY <1>1 DEF Requests
  <2>3. /\ Stays /\ req'.at \in {"next", "unload"} /\ req'.err = req.err
    BY <1>1, <2>1, <2>2 DEF Stays, Requests
  <2>4. Applying
    BY <2>3
  <2> QED
    BY <2>1, <2>2, <2>3, <2>4, ApplyingLoaded
<1>4. CASE UnloadShared
  <2>1. req.at = "unload" /\ UNCHANGED <<node, asked, users>> /\ req' = [req EXCEPT !.at = "list"]
    BY <1>4 DEF UnloadShared, Goto, At, ReqFrame
  <2>2. Stays /\ req'.at = "list" /\ req'.err = req.err
    BY <1>1, <2>1 DEF Stays, Requests
  <2>3. Applying
    BY <2>2
  <2>4. PICK X \in SUBSET req.removed :
            secrets' = [secrets EXCEPT !["ikev2"] = Without(secrets["ikev2"], X)]
    BY <1>4 DEF UnloadShared
  <2>5. ASSUME NEW c \in node, NEW i \in DOMAIN asked, InSecrets(c, users[c], secrets[c], asked[i]), Opened(c, i)
        PROVE  InSecrets(c, users[c], secrets'[c], asked[i])
    <3>1. c \in Backend /\ DOMAIN secrets = Backend
      BY DEF Access, Tables
    <3>2. CASE c # "ikev2"
      BY <2>4, <2>5, <3>1, <3>2
    <3>3. CASE c = "ikev2"
      <4>1. secrets'[c] = Without(secrets[c], X)
        BY <2>4, <3>1, <3>3
      <4>2. Placed
        BY <2>3 DEF Applying
      <4>3. i <= To
        BY <2>5, <4>2, Places DEF Opened
      <4>4. Wants(c, asked[i]) => asked[i].name \notin req.removed
        BY <2>1, <2>3, <3>3, <4>3 DEF Applying
      <4> QED
        BY <2>5, <3>3, <4>1, <4>4 DEF InSecrets, Without
    <3> QED
      BY <3>2, <3>3
  <2> QED
    BY <2>1, <2>2, <2>3, <2>5, ApplyingStays
<1>5. CASE ListRevoked
  <2>1. /\ req.at = "list" /\ UNCHANGED <<node, asked, users, secrets>>
        /\ \E V, at : at \in {"next", "kill"} /\ (req' = [req EXCEPT !.victims = V, !.at = at] \/ req' = [req EXCEPT !.at = at])
    BY <1>5 DEF ListRevoked, Goto, At, ReqFrame, listVars
  <2>2. Stays /\ req'.at \in {"next", "kill"} /\ req'.err = req.err
    BY <1>1, <2>1 DEF Stays, Requests
  <2>3. Applying
    BY <2>2
  <2> QED
    BY <2>1, <2>2, <2>3, ApplyingStays
<1>6. CASE TerminateRevoked
  <2>1. /\ req.at = "kill" /\ UNCHANGED <<node, asked, users, secrets>>
        /\ \E V, at : at \in {"next", "kill"} /\ req' = [req EXCEPT !.victims = V, !.at = at]
    BY <1>6 DEF TerminateRevoked, At, ReqFrame, listVars
  <2>2. Stays /\ req'.at \in {"next", "kill"} /\ req'.err = req.err
    BY <1>1, <2>1 DEF Stays, Requests
  <2>3. Applying
    BY <2>2
  <2> QED
    BY <2>1, <2>2, <2>3, ApplyingStays
<1>7. ASSUME NEW b \in Backend, Down(b)
      PROVE  Applying'
  <2>1. req.at = "down" /\ req.b = b /\ UNCHANGED <<node, asked, users>> /\ req' = [req EXCEPT !.at = "up"]
    BY <1>7 DEF Down, Goto, At, ReqFrame
  <2>2. Stays /\ req'.at = "up" /\ req'.err = req.err
    BY <1>1, <2>1 DEF Stays, Requests
  <2>3. Applying /\ Placed
    BY <2>2 DEF Applying
  <2>4. secrets' = secrets \/ secrets' = [secrets EXCEPT ![b] = Nothing]
    BY <1>7 DEF Down, Ikev2Down, PppDown
  <2>5. ASSUME NEW c \in node, NEW i \in DOMAIN asked, InSecrets(c, users[c], secrets[c], asked[i]), Opened(c, i)
        PROVE  InSecrets(c, users[c], secrets'[c], asked[i])
    <3>1. c # b
      <4>1. From = 0 /\ DOMAIN asked = 1..Len(asked)
        BY <2>1, <2>3, Places DEF Placed
      <4> QED
        BY <2>1, <2>5, <4>1 DEF Opened
    <3>2. secrets'[c] = secrets[c]
      BY <2>4, <3>1 DEF Access, Tables
    <3> QED
      BY <2>5, <3>2
  <2> QED
    BY <2>1, <2>2, <2>3, <2>5, ApplyingStays
<1>8. ASSUME NEW b \in Backend, Up(b)
      PROVE  Applying'
  <2>1. /\ req.at = "up" /\ req.b = b /\ UNCHANGED <<node, asked, users>>
        /\ \/ req' = [req EXCEPT !.at = "next"] /\ secrets' = [secrets EXCEPT ![b] = Loaded(b)]
           \/ req' = [req EXCEPT !.err = TRUE, !.at = "next"]
    BY <1>8 DEF Up, LoadFails, Goto, At, ReqFrame
  <2>2. ~(req' = [req EXCEPT !.err = TRUE, !.at = "next"])
    BY <1>1 DEF Requests
  <2>3. Stays /\ req'.at = "next" /\ req'.err = req.err
    BY <1>1, <2>1, <2>2 DEF Stays, Requests
  <2>4. Applying
    BY <2>3
  <2> QED
    BY <2>1, <2>2, <2>3, <2>4, ApplyingLoaded
<1> QED
  BY <1>2, <1>3, <1>4, <1>5, <1>6, <1>7, <1>8 DEF Goes

\* Every backend was called: the request is answered, or goes on with the next user.
LEMMA ApplyingAnswer ==
    ASSUME PanelLists, Access, ApplyingInv, Answer
    PROVE  ApplyingInv'
<1>1. /\ req # None /\ req \in Requests /\ req.at = "next" /\ req.left = {}
      /\ UNCHANGED <<node, users, secrets, asked>>
  BY DEF Answer, Access, Asking, nodeVars, listVars
<1>2. CASE req.err
  BY <1>2 DEF Answer, ApplyingInv
<1>3. CASE ~req.err
  <2>1. Applying /\ Placed
    BY <1>1, <1>3 DEF ApplyingInv, Applying
  <2>2. /\ asked \in Seq(Anyone) /\ DOMAIN asked = 1..Len(asked) /\ Len(asked) \in Nat
        /\ req.more \in Seq(Anyone) /\ Len(req.list) \in Nat /\ Len(req.more) \in Nat
        /\ To \in Nat /\ From \in Nat /\ To <= Len(asked) /\ From + Len(req.list) = To
    BY <2>1, Places
  <2>3. \A b \in node, i \in DOMAIN asked :
          i <= To => InTable(b, users[b], asked[i]) /\ InSecrets(b, users[b], secrets[b], asked[i])
    BY <1>1, <2>1 DEF Applying, Entered, Opened
  <2>4. CASE req.more = <<>>
    <3>1. req' = None /\ To = Len(asked)
      BY <2>2, <2>4 DEF Answer, To
    <3>2. Applied
      <4>1. \A i \in DOMAIN asked : i <= To
        <5>1. PICK n : n = Len(asked) /\ n = To
          BY <3>1
        <5>2. DOMAIN asked = 1..n /\ n \in Nat
          BY <2>2, <5>1
        <5>3. \A i \in 1..n : i <= n
          BY ONLY <5>2
        <5> QED
          BY ONLY <5>1, <5>2, <5>3
      <4> QED
        BY <2>1, <2>3, <4>1 DEF Applied, Placed
    <3>3. Applied'
      BY <1>1, <3>2 DEF Applied
    <3> QED
      BY <3>1, <3>3 DEF ApplyingInv
  <2>5. CASE req.more # <<>>
    <3>1. req' = [req EXCEPT !.list = <<Head(req.more)>>, !.more = Tail(req.more), !.left = node]
      BY <1>3, <2>5 DEF Answer
    <3>2. /\ req'.list = <<Head(req.more)>> /\ req'.more = Tail(req.more) /\ req'.left = node
          /\ req'.at = "next" /\ req'.op = req.op /\ req'.b = req.b
      BY <1>1, <3>1 DEF Requests
    <3>3. /\ <<Head(req.more)>> \in Seq(Anyone) /\ Tail(req.more) \in Seq(Anyone)
          /\ Len(<<Head(req.more)>>) = 1 /\ Len(Tail(req.more)) = Len(req.more) - 1
          /\ <<Head(req.more)>>[1] = req.more[1] /\ Len(req.more) >= 1
          /\ \A i \in 1..Len(Tail(req.more)) : Tail(req.more)[i] = req.more[i + 1]
      BY <2>2, <2>5
    <3>4. req' \in Requests
      BY <1>1, <3>1, <3>3 DEF Requests, Access, Tables
    <3>5. To' = To + 1 /\ From' = To
      <4>1. To = Len(asked) - Len(req.more)
        BY DEF To
      <4>2. To' = Len(asked) - Len(Tail(req.more))
        BY <1>1, <3>2 DEF To
      <4>3. From' = To' - Len(<<Head(req.more)>>)
        BY <3>2 DEF From
      <4>4. PICK n, m, k, one : /\ n = Len(asked) /\ m = Len(req.more)
                                /\ k = Len(Tail(req.more)) /\ one = Len(<<Head(req.more)>>)
        OBVIOUS
      <4>5. n \in Nat /\ m \in Nat /\ k = m - 1 /\ one = 1
        BY <2>2, <3>3, <4>4
      <4>6. To = n - m /\ To' = n - k /\ From' = To' - one
        BY ONLY <4>1, <4>2, <4>3, <4>4
      <4>7. PICK t, tt, f : t = To /\ tt = To' /\ f = From'
        OBVIOUS
      <4>8. t = n - m /\ tt = n - k /\ f = tt - one
        BY ONLY <4>6, <4>7
      <4>9. tt = t + 1 /\ f = t
        BY ONLY <4>5, <4>8
      <4> QED
        BY ONLY <4>7, <4>9
    <3>6. \A i \in 1..Len(req'.list) : req'.list[i] = asked[From' + i]
      <4>1. req.more[1] = asked[To + 1]
        BY <2>1, <2>2, <3>3 DEF Placed
      <4> QED
        BY <3>2, <3>3, <3>5, <4>1
    <3>7. \A i \in 1..Len(req'.more) : req'.more[i] = asked[To' + i]
      <4> SUFFICES ASSUME NEW i \in 1..Len(Tail(req.more))
                   PROVE  req.more[i + 1] = asked[(To + 1) + i]
        BY <3>2, <3>3, <3>5
      <4>1. i + 1 \in 1..Len(req.more) /\ (To + 1) + i = To + (i + 1)
        BY <2>2, <3>3
      <4> QED
        BY <2>1, <4>1 DEF Placed
    <3>8. req.op = "apply"
      BY <2>1, <2>5 DEF Placed
    <3>9. Placed'
      BY <1>1, <2>1, <2>2, <3>2, <3>4, <3>5, <3>6, <3>7, <3>8 DEF Placed
    <3>10. \A b \in node, i \in DOMAIN asked : Entered(b, i)' \/ Opened(b, i)' => i <= To
      BY <1>1, <3>2, <3>5 DEF Entered, Opened
    <3>11. Applying'
      BY <1>1, <2>3, <3>2, <3>9, <3>10 DEF Applying
    <3>12. req' # None
      BY <3>4, SessionsAssumption
    <3> QED
      BY <3>11, <3>12 DEF ApplyingInv
  <2> QED
    BY <2>4, <2>5
<1> QED
  BY <1>2, <1>3

\* Every step keeps what was applied.
LEMMA ApplyingStep ==
    ASSUME PanelLists, Access, ApplyingInv, [Next]_vars
    PROVE  ApplyingInv'
<1>1. CASE Goes
  <2>1. req # None
    BY <1>1 DEF Goes, Table, Down, Up, Load, UnloadShared, ListRevoked, TerminateRevoked, At
  <2>2. req' # None
    BY <1>1, GoesOn, SessionsAssumption DEF Access
  <2> QED
    BY <1>1, <2>1, <2>2, ApplyingGoes DEF ApplyingInv
<1>2. CASE Refused
  <2>1. reply' = "error" /\ UNCHANGED <<req, users, secrets, node>>
    BY <1>2 DEF Refused, nodeVars, listVars
  <2>2. req = None
    BY <1>2 DEF Refused
  <2> QED
    BY <2>1, <2>2 DEF ApplyingInv
<1>3. CASE Connects \/ Traffic \/ Rekey \/ Loop
  <2>1. UNCHANGED <<node, users, secrets, req, reply, asked>>
    BY <1>3 DEF Connects, Traffic, Rekey, RekeyIke, RekeyChild, Loop, LiveFrame, nodeVars, listVars, reqVars
  <2>2. To' = To /\ From' = From
    BY <2>1 DEF To, From
  <2>3. /\ Placed => Placed'
        /\ \A b, i : (Entered(b, i)' <=> Entered(b, i)) /\ (Opened(b, i)' <=> Opened(b, i))
    BY <2>1, <2>2 DEF Placed, Entered, Opened
  <2>4. Applying => Applying'
    BY <2>1, <2>2, <2>3 DEF Applying
  <2>5. Applied => Applied'
    BY <2>1 DEF Applied
  <2> QED
    BY <2>1, <2>4, <2>5 DEF ApplyingInv
<1> QED
  BY <1>1, <1>2, <1>3, Steps, ApplyingAsks, ApplyingAnswer DEF Goes

\* A request answered with success has reached every backend of the node: each user it
\* named is in the tables and has the credentials of exactly the backends it is listed
\* for, through removals, reloads and restarts of the other users; what IKEv2 removes may
\* lapse.  The code's own reading of the lists is needed (PanelLists).
THEOREM WhatIsAckedIsApplied == PanelLists => (Spec => []AckedIsApplied)
<1> DEFINE IInv == PanelLists /\ Access /\ RevokingInv /\ ApplyingInv
<1>1. PanelLists /\ Init => IInv
  <2> SUFFICES ASSUME PanelLists, Init PROVE RevokingInv /\ ApplyingInv
    BY AccessInit
  <2>1. RevokingInv
    BY RevokingInit
  <2>2. ApplyingInv
    BY DEF Init, ApplyingInv
  <2> QED
    BY <2>1, <2>2
<1>2. IInv /\ [Next]_vars => IInv'
  BY AccessStep, RevokingStep, ApplyingStep
<1>3. IInv => AckedIsApplied
  <2> SUFFICES ASSUME IInv, Idle, reply = "ok", NEW b \in node, NEW x \in Named
               PROVE  IF Wants(b, LastOf(x))
                      THEN /\ x \in DOMAIN users[b] /\ users[b][x] = Entry(b, LastOf(x))
                           /\ x \in DOMAIN secrets[b] /\ secrets[b][x] = users[b][x].pass
                      ELSE /\ x \notin DOMAIN users[b]
                           /\ x \in DOMAIN secrets[b] => b = "ikev2" /\ lapsed
    BY DEF AckedIsApplied
  <2>1. PICK i \in DOMAIN asked : asked[i].name = x
    BY DEF Named
  <2>2. Applied
    BY <2>1 DEF ApplyingInv, Idle
  <2>3. asked \in Seq(Anyone) /\ Len(asked) \in Nat /\ DOMAIN asked = 1..Len(asked)
    BY <2>2, ArrivalsType DEF Applied
  <2>4. {j \in DOMAIN asked : asked[j].name = x} = {i}
    BY <2>1, <2>2 DEF PanelLists, Applied
  <2>5. LastOf(x) = asked[i]
    <3>1. {i} \in SUBSET (1..Len(asked)) /\ {i} # {}
      BY <2>3
    <3>2. Max({i}) \in {i}
      BY <2>3, <3>1, MaxIs
    <3> QED
      BY <2>4, <3>2 DEF LastOf
  <2>6. InTable(b, users[b], asked[i]) /\ InSecrets(b, users[b], secrets[b], asked[i])
    BY <2>2 DEF Applied
  <2>7. CASE Wants(b, asked[i])
    BY <2>1, <2>5, <2>6, <2>7 DEF InTable, InSecrets
  <2>8. CASE ~Wants(b, asked[i])
    <3>1. x \notin DOMAIN users[b] /\ (b # "ikev2" => x \notin DOMAIN secrets[b])
      BY <2>1, <2>6, <2>8 DEF InTable, InSecrets
    <3>2. b = "ikev2" /\ x \in DOMAIN secrets[b] => lapsed = TRUE
      BY <3>1 DEF RevokingInv, Revoking, Clean, Idle
    <3>3. x \in DOMAIN secrets[b] => b = "ikev2" /\ lapsed
      BY <3>1, <3>2
    <3> QED
      BY <2>5, <2>8, <3>1, <3>3
  <2> QED
    BY <2>7, <2>8
<1> QED
  BY <1>1, <1>2, <1>3, PTL DEF Spec
=============================================================================
