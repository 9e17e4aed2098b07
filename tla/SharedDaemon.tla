---------------------------- MODULE SharedDaemon ----------------------------
(***************************************************************************)
(* What ipsec/charon.go promises the backends that share charon: the first *)
(* to Acquire starts it, the last to Release stops it.  Charon implements  *)
(* it with a count and with backends that hold a reference while they are  *)
(* somewhere in New, Restart or Shutdown; here only who holds the daemon   *)
(* and whether it runs can be seen.                                        *)
(*                                                                         *)
(* The promise is whole while it is sound.  It ends when the daemon dies   *)
(* by itself or a backend releases what it does not hold; even then the    *)
(* daemon comes up only for a holder and is down once nobody holds it.     *)
(***************************************************************************)
CONSTANT Backend

VARIABLES
    holders,  \* the backends that acquired and have not released
    up,       \* the daemon runs
    sound     \* nothing has broken the promise

abstractVars == <<holders, up, sound>>

Init == holders = {} /\ up = FALSE /\ sound = TRUE

Acquire(b) ==
    /\ b \notin holders
    /\ holders' = holders \cup {b}
    /\ up' \in BOOLEAN /\ (up => up') /\ (sound => up')
    /\ UNCHANGED sound

Release(b) ==
    /\ holders' = holders \ {b}
    /\ up' \in BOOLEAN /\ (up' => up /\ holders' # {})
    /\ sound => b \in holders /\ (up' <=> holders' # {})
    /\ UNCHANGED sound

Break ==
    /\ sound' = FALSE
    /\ up' \in BOOLEAN /\ (up' => up)
    /\ UNCHANGED holders

Next == (\E b \in Backend : Acquire(b) \/ Release(b)) \/ Break

Spec == Init /\ [][Next]_abstractVars
=============================================================================
