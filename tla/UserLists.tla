----------------------------- MODULE UserLists -----------------------------
(***************************************************************************)
(* Lists of users on their way to the IPsec and PPP backends: how a stream *)
(* of chunks becomes one list, and what a list makes of a backend's table. *)
(* Everything here is a function of its arguments.                         *)
(*                                                                         *)
(* A user is [email, name, ikev2, pptp, limit, tags]: the user name of its *)
(* credentials, its IKEv2 and its PPTP password (None: no credential), the *)
(* number of devices allowed (0: any), and the backends it is listed for.  *)
(***************************************************************************)
EXTENDS Naturals, Sequences, SequencesExt

CONSTANTS
    None,
    Large       \* longer chunked lists restart the backends (100 in the code)

Nothing == [x \in {} |-> None]
Put(f, x, v) == [y \in DOMAIN f \cup {x} |-> IF y = x THEN v ELSE f[y]]
Without(f, X) == [y \in DOMAIN f \ X |-> f[y]]
Merge(f, g) == [y \in DOMAIN f \cup DOMAIN g |-> IF y \in DOMAIN g THEN g[y] ELSE f[y]]

-----------------------------------------------------------------------------
(* Chunks.  A chunk is [index, users, last]; a stream is what was received *)
(* until its end.                                                          *)

Lasts(stream) == {k \in DOMAIN stream : stream[k].last}

\* Nothing is read after the first chunk that says it is the last.
Read(stream) ==
    IF Lasts(stream) = {} THEN stream
    ELSE SubSeq(stream, 1, CHOOSE k \in Lasts(stream) : \A j \in Lasts(stream) : k <= j)

Indices(stream) == {Read(stream)[k].index : k \in DOMAIN Read(stream)}

\* Chunks of one index are joined in the order they came.
ChunkUsers(stream, i) ==
    FlattenSeq([k \in DOMAIN Read(stream) |->
                   IF Read(stream)[k].index = i THEN Read(stream)[k].users ELSE <<>>])

\* The users in the order of the indices; None is an error.
BuildUsersFromChunks(stream) ==
    IF Lasts(stream) = {} THEN None
    ELSE LET last == Read(stream)[Len(Read(stream))].index
             all == FlattenSeq([i \in 1..(last + 1) |-> ChunkUsers(stream, i - 1)])
         IN  IF 0..last \subseteq Indices(stream) /\ all # <<>> THEN all ELSE None

-----------------------------------------------------------------------------
(* Tables: [pass, limit] by user name.                                     *)

Ikev2Wants(u) == u.ikev2 # None /\ "ikev2" \in u.tags

\* L2TP has no credentials of its own: it uses the IKEv2 ones.
L2tpWants(u) == u.ikev2 # None /\ "l2tp" \in u.tags
PptpWants(u) == u.pptp # None /\ "pptp" \in u.tags

Wants(b, u) == CASE b = "ikev2" -> Ikev2Wants(u) [] b = "l2tp" -> L2tpWants(u) [] OTHER -> PptpWants(u)
Entry(b, u) == [pass |-> IF b = "pptp" THEN u.pptp ELSE u.ikev2, limit |-> u.limit]

Upsert(b, table, u) == Put(table, u.name, Entry(b, u))

\* A user the backend does not serve is deleted by e-mail.
Ikev2ApplyUser(table, u) == IF Ikev2Wants(u) THEN Upsert("ikev2", table, u) ELSE Without(table, {u.email})
L2tpApplyUser(table, u) == IF L2tpWants(u) THEN Upsert("l2tp", table, u) ELSE Without(table, {u.email})
PptpApplyUser(table, u) == IF PptpWants(u) THEN Upsert("pptp", table, u) ELSE Without(table, {u.email})

ApplyUser(b, table, u) ==
    CASE b = "ikev2" -> Ikev2ApplyUser(table, u)
      [] b = "l2tp" -> L2tpApplyUser(table, u)
      [] OTHER -> PptpApplyUser(table, u)

\* In a full list such a user is passed over: it makes a new table.
Ikev2ListUser(table, u) == IF Ikev2Wants(u) THEN Upsert("ikev2", table, u) ELSE table
L2tpListUser(table, u) == IF L2tpWants(u) THEN Upsert("l2tp", table, u) ELSE table
PptpListUser(table, u) == IF PptpWants(u) THEN Upsert("pptp", table, u) ELSE table

ListUser(b, table, u) ==
    CASE b = "ikev2" -> Ikev2ListUser(table, u)
      [] b = "l2tp" -> L2tpListUser(table, u)
      [] OTHER -> PptpListUser(table, u)

\* One user of a list after the other.
TakeUser(b, full, table, u) == IF full THEN ListUser(b, table, u) ELSE ApplyUser(b, table, u)
Taken(b, full, table, list) == FoldLeft(LAMBDA t, u : TakeUser(b, full, t, u), table, list)

ApplyUsers(b, table, list) == Taken(b, FALSE, table, list)
Replaced(b, list) == Taken(b, TRUE, Nothing, list)

\* Whom a list removes, one after the other, as applyUser reports it.
RemovedBy(b, table, list) ==
    {list[i].email : i \in {i \in DOMAIN list :
        ~Wants(b, list[i]) /\ list[i].email \in DOMAIN ApplyUsers(b, table, SubSeq(list, 1, i - 1))}}

Passwords(table) == [x \in DOMAIN table |-> table[x].pass]
=============================================================================
