----------------------------- MODULE MCSessions -----------------------------
(* Sessions on small instances: two users, two addresses, two backends.    *)
EXTENDS Sessions

All == {"ikev2", "l2tp", "pptp"}
U(x, p, limit, tags) ==
    [limit |-> limit, tags |-> tags, email |-> x, name |-> x, ikev2 |-> p, pptp |-> p]

MCNodes == {{"ikev2", "l2tp"}, {"ikev2", "pptp"}}
MCUser == {U("a", "p", 1, {})}
MCLists == {<<U("a", "p", 1, All)>>, <<U("b", "q", 0, {"ikev2"}), U("a", "p", 2, All)>>}

Chunk(i, list, last) == [index |-> i, users |-> list, last |-> last]
A == U("a", "q", 2, All)
B == U("b", "p", 1, All)

\* Whole and small, out of order and large, without a last chunk, with a hole.
MCStreams ==
    {<<Chunk(0, <<A>>, TRUE)>>,
     <<Chunk(1, <<B>>, FALSE), Chunk(0, <<A>>, FALSE), Chunk(2, <<>>, TRUE)>>,
     <<Chunk(0, <<A>>, FALSE)>>,
     <<Chunk(1, <<B>>, TRUE)>>}

Budget(f) ==
    [k \in {"requests", "logins", "bytes", "pulls", "fails", "leaves", "loops", "rekeys"} |->
        IF k \in DOMAIN f THEN f[k] ELSE 0]

\* Lists against clients that come meanwhile; the limits; the accounting; lists and loops.
\* A single device is never too much: the pass would do nothing for it.
MCBudgets ==
    {Budget([requests |-> 2, logins |-> 1, fails |-> 1]),
     Budget([requests |-> 1, logins |-> 2, fails |-> 1]),
     Budget([requests |-> 1, logins |-> 1, rekeys |-> 1]),
     Budget([logins |-> 3, fails |-> 1, loops |-> 2]),
     Budget([logins |-> 2, bytes |-> 1, leaves |-> 1, loops |-> 2]),
     Budget([logins |-> 2, rekeys |-> 1, loops |-> 2]),
     Budget([logins |-> 1, bytes |-> 2, rekeys |-> 1, loops |-> 1]),
     Budget([logins |-> 1, bytes |-> 1, pulls |-> 2, loops |-> 1]),
     Budget([requests |-> 1, logins |-> 1, loops |-> 2])}
=============================================================================
