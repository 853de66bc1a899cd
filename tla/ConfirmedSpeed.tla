--------------------------- MODULE ConfirmedSpeed ---------------------------
(***************************************************************************)
(* What the speed control promises about the speeds it shows: a fan's      *)
(* confirmed speed changes only to the speed the fan is running at, and it *)
(* is wrong only for a fan that did something nobody acknowledged in time. *)
(***************************************************************************)
CONSTANTS Fans, Speeds, Unknown

VARIABLES
  running,    \* per fan, the speed it is really running at
  confirmed,  \* per fan, the speed that is shown
  doubtful    \* the fans that may have done what nobody acknowledged

vars == <<running, confirmed, doubtful>>

Init ==
  /\ confirmed = [f \in Fans |-> Unknown]
  /\ doubtful = {}

\* The fan runs at s and says so.
Confirm(f, s) ==
  /\ running' = [running EXCEPT ![f] = s]
  /\ confirmed' = [confirmed EXCEPT ![f] = s]
  /\ doubtful' = doubtful \ {f}

\* The fan was told to run at s and did, but did not say so in time.
ActSilently(f, s) ==
  /\ running' = [running EXCEPT ![f] = s]
  /\ doubtful' = doubtful \cup {f}
  /\ UNCHANGED confirmed

Next == \E f \in Fans, s \in Speeds : Confirm(f, s) \/ ActSilently(f, s)

Spec == Init /\ [][Next]_vars
=============================================================================
