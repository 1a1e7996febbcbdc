----------------------------- MODULE MCXplConfig -----------------------------
(***************************************************************************)
(* An instance of XplConfig: an item of two values, an item of one.       *)
(***************************************************************************)
EXTENDS XplConfig, TLC

CONSTANTS n1, n2, v, w, g, h

Definitions2 ==
  (n1 :> [type |-> "option", max |-> 2]) @@ (n2 :> [type |-> "reconf", max |-> 1])

Sensors == <<"xpl-stat", ".", "*", ".", "*", ".", "*", ".", "sensor", ".", "*">>
Lights == <<"*", ".", "other", ".", "dev", ".", "*", ".", "lighting", ".", "basic">>
Bad == <<"xpl-stat", ".", "*">>

Both == << <<"filter", Sensors>>, <<"group", h>>, <<"filter", Lights>>, <<"group", g>> >>
Neither == << <<"group", Blank>>, <<"filter", Bad>> >>
Texts == {g, h, Blank}
Tokens == UNION {ToSet(t) : t \in {Sensors, Lights, Bad}} \cup FilterTypes
AllLists == {<<>>, Both, Neither}
ValueSymmetry == Permutations({v, w})
=============================================================================
