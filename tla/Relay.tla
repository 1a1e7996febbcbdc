------------------------------- MODULE Relay -------------------------------
(***************************************************************************)
(* What the gateway promises of the sensors' values: each value posted was *)
(* heard, none is posted twice, and none overtakes another.  Values are    *)
(* numbered in the order in which the dongle hears them; they may be lost. *)
(***************************************************************************)
EXTENDS Naturals, SequencesExt

VARIABLES
  heard,    \* number of values heard
  posted    \* the values posted, in order

vars == <<heard, posted>>

Increasing(s) == \A i \in 1..Len(s) - 1 : s[i] < s[i + 1]

Init == heard = 0 /\ posted = <<>>

Hear == heard' > heard /\ UNCHANGED posted

Post ==
  /\ IsStrictPrefix(posted, posted')
  /\ Increasing(posted')
  /\ Last(posted') <= heard
  /\ UNCHANGED heard

Next == Hear \/ Post

Spec == Init /\ [][Next]_vars
=============================================================================
