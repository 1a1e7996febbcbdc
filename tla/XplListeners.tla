---------------------------- MODULE XplListeners ----------------------------
(***************************************************************************)
(* The lists of listeners of oflbridge/xPLLib (xPL-listeners.c): they are  *)
(* installed at the end, removed from anywhere, and called from the last   *)
(* to the first; a listener may change the list that is walked through.    *)
(* Raw, message, service and configuration listeners have one list each    *)
(* and all work the same way.                                              *)
(***************************************************************************)
EXTENDS Integers, Sequences, SequencesExt

WithListener(list, listener) == Append(list, listener)

\* The first entry of that listener goes.  Those behind it are moved by a memcpy
\* between blocks that overlap (xPL-listeners.c:115, :188), which C leaves
\* undefined: it is taken to copy upwards, so that all of them arrive.
WithoutListener(list, listener) == RemoveFirst(list, listener)

\* Indices go down from the last entry of the list, which is looked up anew each
\* time.  Call(p, i) is what can become of the program p when the entry that is
\* at i by then is called; Count(p) is the number of entries p has.  The code
\* does not test the upper end: an index past it is reached only when listeners
\* remove others, which XplProgram's do not.
Upwards(n) == [i \in 1..n |-> i]
Walked(n) == [i \in 1..n |-> n + 1 - i]
Dispatch(Call(_, _), Count(_), p) ==
  LET n == Count(p)
      after[k \in 0..n] ==
        IF k = 0 THEN {p}
        ELSE UNION {IF Walked(n)[k] =< Count(q) THEN Call(q, Walked(n)[k]) ELSE {q} :
                      q \in after[k - 1]}
  IN  after[n]
=============================================================================
