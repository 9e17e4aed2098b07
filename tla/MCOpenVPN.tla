----------------------------- MODULE MCOpenVPN -----------------------------
(* OpenVPN on small instances: two names, a reissued certificate, limits.  *)
EXTENDS OpenVPN

U(cn, serial, pass, limit, tag) ==
    [cn |-> cn, serial |-> serial, pass |-> pass, limit |-> limit, tag |-> tag]
L(cn, serial, pass) == [cn |-> cn, serial |-> serial, pass |-> pass]

MCLogin == {L("a", "s", "p"), L("b", "t", "p")}
MCUser == {U("a", "s", "p", 1, TRUE), U("a", "s", "p", 1, FALSE), U("b", "s", "q", 0, TRUE)}
MCLists == {<<U("a", "s", "p", 2, TRUE), U("b", None, None, 1, TRUE)>>, <<U("b", "t", "p", 1, TRUE)>>}

Budget(f) ==
    [k \in {"lists", "restarts", "stops", "logins", "renewals", "polls", "bytes", "crashes"} |->
        IF k \in DOMAIN f THEN f[k] ELSE 0]

\* Accounting across a restart; admissions against lists, restarts, crashes, the stop.
MCBudgets ==
    {Budget([restarts |-> 1, logins |-> 2, polls |-> 2, bytes |-> 3]),
     Budget([lists |-> 2, logins |-> 2, renewals |-> 1]),
     Budget([lists |-> 1, logins |-> 3]),
     Budget([lists |-> 1, restarts |-> 1, logins |-> 2, crashes |-> 1]),
     Budget([lists |-> 1, stops |-> 1, logins |-> 2, crashes |-> 1])}
=============================================================================
