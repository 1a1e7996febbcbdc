----------------------------- MODULE OmniRadio -----------------------------
(***************************************************************************)
(* The 433 MHz receiver (oflomniradio/oflomniradio.c).  kbi7_isr measures  *)
(* the time between two edges, finds a start pattern, records the edges of *)
(* a frame in a ring and decodes them; main() prints the decoded messages. *)
(* The interrupt runs between any two memory accesses of main().           *)
(***************************************************************************)
EXTENDS Integers, Sequences, RingBuffer

CONSTANTS
  HE_BITLEN,   \* bits of a frame, 64 in the code
  RINGS_SZ,    \* 1024 in the code
  Slots,       \* messages msg_buf holds, 10 in the code
  Durations    \* microseconds between two edges

ASSUME OmniAssumption ==
  /\ HE_BITLEN \in Nat \ {0, 1} /\ RINGS_SZ \in Nat /\ RINGS_SZ >= 2 * HE_BITLEN
  /\ Slots \in Nat \ {0} /\ Durations \subseteq Nat

VARIABLES
  b_edge_direction, trans_prev, trans_cur,
  record,          \* edges to record, counting down; 0: look for a start
  ring,
  msg_buf, msg_cnt,
  pc, j, reg,      \* main(): its step, its index, the register of msg_cnt--
  wire,            \* history: the edges pushed since the ring was emptied
  sent,            \* history: the edges since the last start pattern
  last             \* history: of the last frame, its edges, its message and
                   \* whether it was the first one

isr_vars == <<b_edge_direction, trans_prev, trans_cur, record, ring, wire, sent,
              last>>
main_vars == <<pc, j, reg>>
vars == <<isr_vars, msg_buf, msg_cnt, main_vars>>

PRECISION == 50
LOLO(x) == (x * (100 - PRECISION)) \div 100
HIHI(x) == (x * (100 + PRECISION)) \div 100
High(d, x) == LOLO(x) < d /\ d < HIHI(x)
Low(d, x) == -HIHI(x) < d /\ d < -LOLO(x)

Bit(d0, d1) ==
  IF High(d0, 275) /\ Low(d1, 275) THEN "1"
  ELSE IF High(d0, 275) /\ Low(d1, 1225) THEN "0"
  ELSE "?"

\* data_process: the message of the recorded edges, two to a bit.
decode(r) ==
  [i \in 0..HE_BITLEN - 1 |-> Bit(ring_get(r, 2 * i), ring_get(r, 2 * i + 1))]

StartsFrame(prev, cur) == High(prev, 275) /\ Low(cur, 2675)

None == [sent |-> <<>>, first |-> TRUE, msg |-> [i \in 0..HE_BITLEN - 1 |-> "?"]]
-----------------------------------------------------------------------------
Init ==
  /\ b_edge_direction = 0 /\ trans_prev = 0 /\ trans_cur = 0
  /\ record = 0
  /\ ring = ring_init(RINGS_SZ)
  /\ msg_buf = [s \in 0..Slots - 1 |-> None.msg] /\ msg_cnt = 0
  /\ pc = "test" /\ j = 0 /\ reg = 0
  /\ wire = <<>> /\ sent = <<>> /\ last = None

\* What is left to record after an edge was looked at.
LatchedLate(rec, prev, cur) ==
  IF rec = 0 /\ StartsFrame(prev, cur) THEN 2 * HE_BITLEN + 1 ELSE rec
Latched(rec, prev, cur) ==
  IF rec = 0 /\ StartsFrame(prev, cur) THEN 2 * HE_BITLEN ELSE rec

\* One edge, d microseconds after the one before.  Bound: main() is fast
\* enough to leave a free slot for each frame.
kbi7_isr(d) ==
  LET cur   == IF b_edge_direction = 0 THEN d ELSE -d
      rec   == Latched(record, trans_cur, cur)
      r     == IF rec > 0 THEN ring_push(ring, cur) ELSE ring
      w     == IF rec > 0 THEN Append(wire, cur) ELSE wire
      edges == IF record > 0 THEN Append(sent, cur) ELSE <<>>
      left  == IF rec > 0 THEN rec - 1 ELSE 0
  IN  /\ msg_cnt < Slots
      /\ b_edge_direction' = 1 - b_edge_direction
      /\ trans_prev' = trans_cur
      /\ trans_cur' = cur
      /\ record' = left
      /\ IF left = 1
           THEN /\ msg_buf' = [msg_buf EXCEPT ![msg_cnt] = decode(r)]
                /\ msg_cnt' = msg_cnt + 1
                /\ ring' = ring_reset(r)
                /\ last' = [sent |-> edges, msg |-> decode(r),
                             first |-> Len(w) < 2 * HE_BITLEN]
                /\ wire' = <<>> /\ sent' = <<>>
           ELSE /\ ring' = r /\ wire' = w /\ sent' = edges
                /\ UNCHANGED <<msg_buf, msg_cnt, last>>
      /\ UNCHANGED main_vars

\* main(): if (msg_cnt>0) for (j=0; j<msg_cnt; j++) { print slot j; msg_cnt--; }
Test ==
  /\ pc = "test"
  /\ msg_cnt > 0
  /\ pc' = "loop" /\ j' = 0
  /\ UNCHANGED <<isr_vars, msg_buf, msg_cnt, reg>>

LoopOneMore ==
  /\ pc = "loop"
  /\ IF j <= msg_cnt THEN pc' = "putstr" /\ UNCHANGED j
                     ELSE pc' = "test" /\ j' = 0
  /\ UNCHANGED <<isr_vars, msg_buf, msg_cnt, reg>>
Loop ==
  /\ pc = "loop"
  /\ IF j < msg_cnt THEN pc' = "putstr" /\ UNCHANGED j
                    ELSE pc' = "test" /\ j' = 0
  /\ UNCHANGED <<isr_vars, msg_buf, msg_cnt, reg>>

\* putchr and putstr: slot j is read during this step.
Putstr ==
  /\ pc = "putstr"
  /\ pc' = "load"
  /\ UNCHANGED <<isr_vars, msg_buf, msg_cnt, j, reg>>

\* msg_cnt--, two accesses.
Load ==
  /\ pc = "load"
  /\ reg' = msg_cnt
  /\ pc' = "store"
  /\ UNCHANGED <<isr_vars, msg_buf, msg_cnt, j>>

Store ==
  /\ pc = "store"
  /\ msg_cnt' = reg - 1
  /\ reg' = 0
  /\ pc' = "loop" /\ j' = j + 1
  /\ UNCHANGED <<isr_vars, msg_buf>>

Edge == \E d \in Durations : kbi7_isr(d)

Main == Test \/ Loop \/ Putstr \/ Load \/ Store

Next == Edge \/ Main

Spec == Init /\ [][Next]_vars
-----------------------------------------------------------------------------
\* The ring gives back what kbi7_isr put in it, in order.  It does because
\* kbi7_isr empties it before it wraps: ring_push would write behind its end
\* and ring_get would not find the value there (ringbuffer.c:5, :47).
RingFaithful ==
  /\ ring.head < RINGS_SZ
  /\ ring.count = Len(wire)
  /\ \A i \in 0..ring.count - 1 : ring_get(ring, i) = wire[i + 1]

\* What data_process takes for each symbol: microseconds of high, then of low.
\* The comment before the interrupt (oflomniradio.c:171-172) gives the symbols
\* other lows, 2675 for a 0 and 1300 for a 1: a transmitter that kept to it
\* would have its 1 read as "0" and its 0 as "?".
Symbol == {"0", "1"}
Pulse(b) == [high |-> 275, low |-> IF b = "1" THEN 275 ELSE 1225]

\* Two edges that are a symbol's to within so many percent of each of them.
Off(x, nominal, percent) ==
  /\ 100 * (x - nominal) <= percent * nominal
  /\ 100 * (nominal - x) <= percent * nominal
Sends(b, percent, d0, d1) ==
  Off(d0, Pulse(b).high, percent) /\ Off(-d1, Pulse(b).low, percent)

\* A frame is decoded to what was sent, symbol by symbol: one whose pulses are
\* off by up to 49 % is read as itself, and what is read as a symbol was one, to
\* within 50 %.  It holds of every frame but the first after a reset, and of
\* every symbol but the last: the edge that the countdown leaves in the ring
\* (oflomniradio.c:203-212) moves the next frame's start pattern to symbol 0.
Decodes ==
  ~last.first =>
    \A i \in 1..HE_BITLEN - 1 : \A b \in Symbol :
      LET Is(percent) == Sends(b, percent, last.sent[2 * i - 1], last.sent[2 * i])
      IN  (Is(49) => last.msg[i] = b) /\ (last.msg[i] = b => Is(50))

\* The interrupt does not write the slot main() is printing, and main() counts
\* no message that is not there: no interleaving of msg_cnt++ with msg_cnt--
\* takes the counter below zero (oflomniradio.c:160-161, :364-371).
PrintedIntact ==
  /\ pc \in {"putstr", "load"} => j < msg_cnt
  /\ pc = "store" => reg > j
=============================================================================
