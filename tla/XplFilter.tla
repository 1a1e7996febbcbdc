------------------------------ MODULE XplFilter ------------------------------
(***************************************************************************)
(* The filters of a service: their text, what is kept of it and which      *)
(* broadcasts they let through (formatFilter and parseFilter of            *)
(* oflbridge/xPLLib/xPL-config.c, doesFilterMatch of xPL-service.c).       *)
(*                                                                         *)
(* A text is a sequence of tokens as in XplMessage.                        *)
(***************************************************************************)
EXTENDS Integers, Sequences, SequencesExt, FiniteSetsExt

Anything == <<"*">>
FilterTypes == {"xpl-cmnd", "xpl-stat", "xpl-trig"}

\* Where the next dot behind i is: behind the text when there is none.
NextDot(text, i) == Min({j \in DOMAIN text : j > i /\ text[j] = "."} \cup {Len(text) + 1})

\* parseFilter cuts at the first five dots; the last field takes the rest.
Dots(text) ==
  LET d1 == NextDot(text, 0)   d2 == NextDot(text, d1)  d3 == NextDot(text, d2)
      d4 == NextDot(text, d3)  d5 == NextDot(text, d4)
  IN  <<d1, d2, d3, d4, d5>>
Between(text, i, j) == SubSeq(text, i + 1, j - 1)

\* Of a field that begins with a star nothing else is looked at, and of a
\* message type only its first eight characters.
Kept(field) == IF field # <<>> /\ Head(field) = "*" THEN Anything ELSE field

IsFilter(text) ==
  /\ Dots(text)[5] \in DOMAIN text
  /\ text[1] \in FilterTypes \cup {"*"}

parseFilter(text) ==
  LET dot == Dots(text) IN
  [type     |-> <<text[1]>>,
   vendor   |-> Kept(Between(text, dot[1], dot[2])),
   device   |-> Kept(Between(text, dot[2], dot[3])),
   instance |-> Kept(Between(text, dot[3], dot[4])),
   class    |-> Kept(Between(text, dot[4], dot[5])),
   schema   |-> Kept(Between(text, dot[5], Len(text) + 1))]

formatFilter(f) ==
  f.type \o <<".">> \o f.vendor \o <<".">> \o f.device \o <<".">> \o f.instance
    \o <<".">> \o f.class \o <<".">> \o f.schema

Passes(field, text) == field = Anything \/ field = text
doesFilterMatch(f, m) ==
  /\ Passes(f.type, <<m.type>>)
  /\ Passes(f.vendor, m.source.vendor) /\ Passes(f.device, m.source.device)
  /\ Passes(f.instance, m.source.instance)
  /\ Passes(f.class, m.class) /\ Passes(f.schema, m.schema)
=============================================================================
