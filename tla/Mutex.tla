-------------------------------- MODULE Mutex --------------------------------
(***************************************************************************)
(* What the README promises of the distributed lock (section "Split-brain  *)
(* prevention"): at any time at most one client owns it, and the only way  *)
(* from one owner to the next goes through "nobody".                       *)
(***************************************************************************)
CONSTANTS Clients,  \* processes that may want the lock
          Nobody    \* the owner of a free lock

VARIABLE owner

Init == owner = Nobody

Acquire(c) == owner = Nobody /\ owner' = c

\* The owner leaves its critical section, by returning or by dying.
Leave(c) == owner = c /\ owner' = Nobody

Next == \E c \in Clients : Acquire(c) \/ Leave(c)

Spec == Init /\ [][Next]_owner
==============================================================================
