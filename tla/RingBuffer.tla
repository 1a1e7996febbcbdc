----------------------------- MODULE RingBuffer -----------------------------
(***************************************************************************)
(* ofllibs/ringbuffer.c, on a record.  buf has one cell more than size:    *)
(* MODULO_INC runs from 1 to size, and ring_push writes at size.           *)
(***************************************************************************)
EXTENDS Naturals

MODULO_INC(x, y) == (x % y) + 1

ring_init(n) ==
  [buf |-> [i \in 0..n |-> 0], head |-> 0, tail |-> 0, count |-> 0, size |-> n]

ResetCountOnly(r) == [r EXCEPT !.count = 0]
ring_reset(r) == [r EXCEPT !.count = 0, !.head = r.tail]

ring_push(r, v) ==
  [r EXCEPT !.buf[r.head] = v,
            !.head = MODULO_INC(r.head, r.size),
            !.count = IF @ < r.size THEN @ + 1 ELSE @,
            !.tail = IF r.count < r.size THEN @ ELSE MODULO_INC(r.tail, r.size)]

ring_get(r, pos) ==
  IF pos < r.count THEN r.buf[(r.tail + pos) % r.size] ELSE 0
=============================================================================
