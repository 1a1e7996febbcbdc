-------------------------- MODULE OmniRadio_proofs --------------------------
(***************************************************************************)
(* Proofs about the 433 MHz receiver, for frames of any length, any ring   *)
(* that takes one, any message buffer and any durations, in whatever order *)
(* the interrupt and main() run.                                           *)
(***************************************************************************)
EXTENDS OmniRadio, TLAPS

\* The ring starts at its first cell and holds what was pushed.
Ring == [buf : [0..RINGS_SZ -> Int], head : Nat, tail : Nat, count : Nat, size : Nat]

RingInv ==
  /\ ring \in Ring
  /\ ring.size = RINGS_SZ /\ ring.tail = 0 /\ ring.head = ring.count
  /\ ring.count = Len(wire)
  /\ \A i \in 0..ring.count - 1 : ring.buf[i] = wire[i + 1]

\* Between frames the ring has at most the edge that the last one left.  Within
\* a frame it ends with the edges since the start, before them the second edge
\* of the start pattern and, if there was one, that leftover.
FrameInv ==
  /\ wire \in Seq(Int) /\ sent \in Seq(Int)
  /\ record \in 0..2 * HE_BITLEN - 1
  /\ record = 0 => Len(wire) =< 1
  /\ record = 1 => wire = <<>>
  /\ record > 1 =>
       /\ Len(sent) = 2 * HE_BITLEN - 1 - record
       /\ Len(wire) \in {Len(sent) + 1, Len(sent) + 2}
       /\ Len(wire) = Len(sent) + 2 => \A k \in 1..Len(sent) : wire[k + 2] = sent[k]

\* main() against the counter.
MainInv ==
  /\ b_edge_direction \in 0..1 /\ trans_cur \in Int
  /\ msg_cnt \in 0..Slots /\ j \in 0..Slots /\ reg \in 0..Slots
  /\ pc \in {"test", "loop", "putstr", "load", "store"}
  /\ pc \in {"putstr", "load"} => j < msg_cnt
  /\ pc = "store" => reg > j /\ msg_cnt >= reg

\* The message of a frame is read off the edges since its start pattern.
EdgesRead ==
  ~last.first =>
    \A i \in 1..HE_BITLEN - 1 :
      /\ last.sent[2 * i - 1] \in Int /\ last.sent[2 * i] \in Int
      /\ last.msg[i] = Bit(last.sent[2 * i - 1], last.sent[2 * i])

Inv == RingInv /\ FrameInv /\ MainInv /\ EdgesRead
-----------------------------------------------------------------------------
LEMMA Sizes ==
  /\ HE_BITLEN \in Nat /\ HE_BITLEN >= 2
  /\ RINGS_SZ \in Nat /\ RINGS_SZ >= 2 * HE_BITLEN
  /\ Slots \in Nat /\ Slots > 0
BY OmniAssumption

LEMMA Small ==
  ASSUME NEW x \in Nat, NEW y \in Nat, x < y
  PROVE  x % y = x
OBVIOUS

\* One edge more in both histories.
LEMMA Longer ==
  ASSUME NEW s \in Nat, NEW n \in Nat, n \in {s + 1, s + 2}
  PROVE  n + 1 \in {(s + 1) + 1, (s + 1) + 2} /\ (n + 1 = (s + 1) + 2 => n = s + 2)
OBVIOUS

LEMMA Appended ==
  ASSUME NEW t \in Seq(Int), NEW e \in Int
  PROVE  /\ Append(t, e) \in Seq(Int)
         /\ Len(t) \in Nat /\ Len(Append(t, e)) \in Nat
         /\ Len(Append(t, e)) = Len(t) + 1
OBVIOUS

\* A push into a ring that has room, and what is read back.
LEMMA Pushed ==
  ASSUME RingInv, FrameInv, ring.count < RINGS_SZ, NEW v \in Int
  PROVE  LET r == ring_push(ring, v)  w == Append(wire, v) IN
         /\ r \in Ring
         /\ r.size = RINGS_SZ /\ r.tail = 0 /\ r.head = r.count
         /\ r.count = ring.count + 1 /\ r.count = Len(w)
         /\ \A i \in 0..r.count - 1 : r.buf[i] = w[i + 1]
<1> DEFINE r == ring_push(ring, v)
           w == Append(wire, v)
<1>1. /\ ring.count \in 0..RINGS_SZ - 1 /\ ring.head = ring.count
      /\ ring \in Ring /\ ring.buf \in [0..RINGS_SZ -> Int]
  BY Sizes DEF RingInv, FrameInv, Ring
<1>2. MODULO_INC(ring.head, ring.size) = ring.count + 1
  BY <1>1, Small, Sizes DEF MODULO_INC, RingInv
<1>3. /\ r = [buf |-> [ring.buf EXCEPT ![ring.count] = v], head |-> ring.count + 1,
                tail |-> 0, count |-> ring.count + 1, size |-> RINGS_SZ]
  <2>1. /\ ring.count < ring.size /\ ring.size = RINGS_SZ
        /\ ring.head = ring.count /\ ring.tail = 0
    BY <1>1 DEF RingInv
  <2>2. r = [ring EXCEPT !.buf = [ring.buf EXCEPT ![ring.count] = v],
                         !.head = ring.count + 1, !.count = ring.count + 1, !.tail = 0]
    BY <1>2, <2>1 DEF ring_push
  <2>3. DOMAIN ring = {"buf", "head", "tail", "count", "size"}
    BY <1>1 DEF Ring
  <2>4. ring = [buf |-> ring.buf, head |-> ring.head, tail |-> ring.tail,
                count |-> ring.count, size |-> ring.size]
    BY <1>1 DEF Ring
  <2> HIDE DEF r
  <2> QED BY <2>1, <2>2, <2>4
<1>3a. /\ r.size = RINGS_SZ /\ r.tail = 0 /\ r.head = ring.count + 1
      /\ r.count = ring.count + 1 /\ r.buf = [ring.buf EXCEPT ![ring.count] = v]
  BY <1>3
<1>4. r.buf \in [0..RINGS_SZ -> Int] /\ r \in Ring /\ r.buf[ring.count] = v
      /\ \A i \in 0..ring.count - 1 : r.buf[i] = ring.buf[i]
  BY <1>1, <1>3, <1>3a, Sizes DEF Ring
<1>5. Len(w) = ring.count + 1 /\ w[ring.count + 1] = v
      /\ \A i \in 1..ring.count : w[i] = wire[i]
  BY DEF RingInv, FrameInv
<1>6. ASSUME NEW i \in 0..r.count - 1 PROVE r.buf[i] = w[i + 1]
  <2>1. CASE i = ring.count
    BY <1>4, <1>5, <2>1
  <2>2. CASE i # ring.count
    BY <1>1, <1>3a, <1>4, <1>5, <2>2 DEF RingInv
  <2> QED BY <2>1, <2>2
<1> QED BY <1>3a, <1>4, <1>5, <1>6

LEMMA Got ==
  ASSUME NEW r, r.size = RINGS_SZ, r.tail = 0, r.count \in Nat, r.count =< RINGS_SZ,
         NEW i \in 0..r.count - 1
  PROVE  ring_get(r, i) = r.buf[i]
BY Small, Sizes DEF ring_get

\* Bits of a full ring.
LEMMA Decoded ==
  ASSUME NEW r, NEW w \in Seq(Int), r.size = RINGS_SZ, r.tail = 0,
         r.count = 2 * HE_BITLEN, Len(w) = r.count,
         \A i \in 0..r.count - 1 : r.buf[i] = w[i + 1]
  PROVE  \A i \in 0..HE_BITLEN - 1 : decode(r)[i] = Bit(w[2 * i + 1], w[2 * i + 2])
<1> SUFFICES ASSUME NEW i \in 0..HE_BITLEN - 1
             PROVE  decode(r)[i] = Bit(w[2 * i + 1], w[2 * i + 2])
  OBVIOUS
<1>1. 2 * i \in 0..r.count - 1 /\ 2 * i + 1 \in 0..r.count - 1
  BY Sizes
<1>2. r.count \in Nat /\ r.count =< RINGS_SZ
  BY Sizes
<1>2a. ring_get(r, 2 * i) = r.buf[2 * i]
  BY <1>1, <1>2, Got
<1>2b. ring_get(r, 2 * i + 1) = r.buf[2 * i + 1]
  BY <1>1, <1>2, Got
<1>3. r.buf[2 * i] = w[2 * i + 1]
  BY <1>1
<1>4. r.buf[2 * i + 1] = w[(2 * i + 1) + 1] /\ (2 * i + 1) + 1 = 2 * i + 2
  BY <1>1
<1> QED BY <1>2a, <1>2b, <1>3, <1>4 DEF decode
-----------------------------------------------------------------------------
LEMMA Initial == Init => Inv
<1> SUFFICES ASSUME Init PROVE Inv
  OBVIOUS
<1>1. RingInv
  BY Sizes DEF Init, RingInv, Ring, ring_init
<1>2. FrameInv
  BY Sizes DEF Init, FrameInv
<1>3. MainInv
  BY Sizes DEF Init, MainInv
<1>4. EdgesRead
  BY DEF Init, EdgesRead, None
<1> QED BY <1>1, <1>2, <1>3, <1>4 DEF Inv

\* main() leaves what the interrupt writes alone, but for the counter.
LEMMA MainKeeps == Inv /\ Main => Inv'
<1> SUFFICES ASSUME Inv, Main PROVE Inv'
  OBVIOUS
<1>1. UNCHANGED isr_vars
  BY DEF Main, Test, Loop, Putstr, Load, Store
<1>2. RingInv' /\ FrameInv' /\ EdgesRead'
  BY <1>1 DEF Inv, isr_vars, RingInv, FrameInv, EdgesRead
<1>3. MainInv'
  <2>1. CASE Test
    BY <2>1, Sizes DEF Test, Inv, MainInv, isr_vars
  <2>2. CASE Loop
    BY <2>2, Sizes DEF Loop, Inv, MainInv, isr_vars
  <2>3. CASE Putstr
    BY <2>3 DEF Putstr, Inv, MainInv, isr_vars
  <2>4. CASE Load
    BY <2>4 DEF Load, Inv, MainInv, isr_vars
  <2>5. CASE Store
    BY <2>5, Sizes DEF Store, Inv, MainInv, isr_vars
  <2> QED BY <2>1, <2>2, <2>3, <2>4, <2>5 DEF Main
<1> QED BY <1>2, <1>3 DEF Inv

\* What one edge makes of the receiver: the names kbi7_isr gives its values.
LEMMA EdgeKeeps ==
  ASSUME Inv, NEW d \in Durations, kbi7_isr(d)
  PROVE  Inv'
<1> DEFINE cur   == IF b_edge_direction = 0 THEN d ELSE -d
           rec   == Latched(record, trans_cur, cur)
           r     == IF rec > 0 THEN ring_push(ring, cur) ELSE ring
           w     == IF rec > 0 THEN Append(wire, cur) ELSE wire
           edges == IF record > 0 THEN Append(sent, cur) ELSE <<>>
           left  == IF rec > 0 THEN rec - 1 ELSE 0
           m     == decode(r)
<1> USE Sizes
<1>1. cur \in Int
  BY OmniAssumption DEF Inv, MainInv
<1>2. \/ record > 0 /\ rec = record
      \/ record = 0 /\ rec \in {0, 2 * HE_BITLEN}
  BY DEF Latched, Inv, FrameInv
<1>3. record' = left /\ trans_cur' = cur /\ b_edge_direction' = 1 - b_edge_direction
  BY DEF kbi7_isr
<1>4. left = 1 =>
        /\ msg_cnt' = msg_cnt + 1 /\ ring' = ring_reset(r)
        /\ last' = [sent |-> edges, msg |-> m, first |-> Len(w) < 2 * HE_BITLEN]
        /\ wire' = <<>> /\ sent' = <<>>
  BY DEF kbi7_isr
<1>5. left # 1 =>
        ring' = r /\ wire' = w /\ sent' = edges /\ UNCHANGED <<msg_cnt, last>>
  BY DEF kbi7_isr
<1>6. msg_cnt < Slots /\ UNCHANGED main_vars
  BY DEF kbi7_isr
<1> HIDE DEF cur, rec, m
<1>7. left = IF rec > 0 THEN rec - 1 ELSE 0
  OBVIOUS
<1>8. /\ rec > 0 => r = ring_push(ring, cur) /\ w = Append(wire, cur)
      /\ ~(rec > 0) => r = ring /\ w = wire
  OBVIOUS
<1>9. edges = IF record > 0 THEN Append(sent, cur) ELSE <<>>
  OBVIOUS
<1>10. m = decode(r)
  BY DEF m
<1> HIDE DEF r, w, edges, left
<1>11. /\ record \in 0..2 * HE_BITLEN - 1
       /\ wire \in Seq(Int) /\ sent \in Seq(Int) /\ Len(wire) \in Nat /\ Len(sent) \in Nat
       /\ Len(wire) < 2 * HE_BITLEN
  BY DEF Inv, FrameInv
<1>12. /\ w \in Seq(Int) /\ edges \in Seq(Int) /\ Len(w) \in Nat /\ Len(edges) \in Nat
       /\ rec > 0 => Len(w) = Len(wire) + 1
       /\ record > 0 => Len(edges) = Len(sent) + 1
  <2>1. w \in Seq(Int) /\ Len(w) \in Nat /\ (rec > 0 => Len(w) = Len(wire) + 1)
    <3>1. CASE rec > 0
      BY <1>1, <1>8, <1>11, <3>1, Appended
    <3>2. CASE ~(rec > 0)
      BY <1>8, <1>11, <3>2
    <3> QED BY <3>1, <3>2
  <2>2. edges \in Seq(Int) /\ Len(edges) \in Nat
        /\ (record > 0 => Len(edges) = Len(sent) + 1)
    <3>1. CASE record > 0
      BY <1>1, <1>9, <1>11, <3>1, Appended
    <3>2. CASE ~(record > 0)
      BY <1>9, <3>2
    <3> QED BY <3>1, <3>2
  <2> QED BY <2>1, <2>2
<1>13. MainInv'
  <2>1. msg_cnt' \in {msg_cnt, msg_cnt + 1}
    BY <1>4, <1>5
  <2>2. msg_cnt' \in 0..Slots /\ msg_cnt' >= msg_cnt
    BY <1>6, <2>1 DEF Inv, MainInv
  <2> QED BY <1>1, <1>3, <1>6, <2>2 DEF main_vars, Inv, MainInv
<1>14. /\ r \in Ring
       /\ r.size = RINGS_SZ /\ r.tail = 0 /\ r.head = r.count
       /\ r.count = Len(w)
       /\ \A i \in 0..r.count - 1 : r.buf[i] = w[i + 1]
  <2>1. CASE rec > 0
    <3>1. ring.count < RINGS_SZ
      BY <1>11 DEF Inv, RingInv
    <3> QED BY <1>1, <1>8, <2>1, <3>1, Pushed DEF Inv
  <2>2. CASE ~(rec > 0)
    BY <1>8, <2>2 DEF Inv, RingInv
  <2> QED BY <2>1, <2>2
<1>15. RingInv'
  <2>1. CASE left = 1
    <3>1. ring' = [buf |-> r.buf, head |-> 0, tail |-> 0, count |-> 0, size |-> RINGS_SZ]
      BY <1>4, <1>14, <2>1 DEF ring_reset, Ring
    <3>2. r.buf \in [0..RINGS_SZ -> Int]
      BY <1>14 DEF Ring
    <3>3. ring' \in Ring
      BY <3>1, <3>2, Sizes DEF Ring
    <3> QED BY <1>4, <2>1, <3>1, <3>3 DEF RingInv
  <2>2. CASE left # 1
    BY <1>5, <1>14, <2>2 DEF RingInv
  <2> QED BY <2>1, <2>2
\* A step that completes no frame: what is left of FrameInv.
<1>16. ASSUME left # 1, FrameInv' PROVE Inv'
  BY <1>5, <1>13, <1>15, <1>16 DEF Inv, EdgesRead
\* What the ring ends with.
<1>17. CASE record > 1
  <2>1. rec = record /\ left = record - 1 /\ rec > 0 /\ record > 0
    BY <1>2, <1>7, <1>11, <1>17
  <2>2. /\ Len(sent) = 2 * HE_BITLEN - 1 - record
        /\ Len(wire) \in {Len(sent) + 1, Len(sent) + 2}
        /\ Len(wire) = Len(sent) + 2 => \A k \in 1..Len(sent) : wire[k + 2] = sent[k]
    BY <1>17 DEF Inv, FrameInv
  <2>3. /\ Len(edges) = 2 * HE_BITLEN - record
        /\ Len(w) \in {Len(edges) + 1, Len(edges) + 2}
    <3>1. Len(edges) = Len(sent) + 1 /\ Len(w) = Len(wire) + 1
      BY <1>12, <2>1
    <3>2. Len(w) \in {Len(edges) + 1, Len(edges) + 2}
      <4>1. Len(wire) = Len(sent) + 1 \/ Len(wire) = Len(sent) + 2
        BY <2>2
      <4>2. Len(sent) \in Nat
        BY <1>11
      <4>3. CASE Len(wire) = Len(sent) + 1
        BY <3>1, <4>2, <4>3
      <4>4. CASE Len(wire) = Len(sent) + 2
        BY <3>1, <4>2, <4>4
      <4> QED BY <4>1, <4>3, <4>4
    <3>3. Len(sent) = 2 * HE_BITLEN - 1 - record /\ record \in Nat
      BY <1>11, <2>2
    <3>4. (2 * HE_BITLEN - 1 - record) + 1 = 2 * HE_BITLEN - record
      BY <3>3
    <3> QED BY <3>1, <3>2, <3>3, <3>4
  <2>4. ASSUME Len(w) = Len(edges) + 2, NEW k \in 1..Len(edges)
        PROVE  w[k + 2] = edges[k]
    <3>1. Len(wire) = Len(sent) + 2 /\ Len(edges) = Len(sent) + 1
      <4>1. Len(edges) = Len(sent) + 1 /\ Len(w) = Len(wire) + 1
        BY <1>12, <2>1
      <4> QED BY <1>11, <2>2, <2>4, <4>1, Longer
    <3>2. w = Append(wire, cur) /\ edges = Append(sent, cur)
      BY <1>8, <1>9, <2>1
    <3>3. CASE k = Len(edges)
      BY <1>1, <1>11, <3>1, <3>2, <3>3
    <3>4. CASE k # Len(edges)
      <4>1. k \in 1..Len(sent) /\ k + 2 \in 1..Len(wire)
        BY <1>11, <3>1, <3>4
      <4>2. w[k + 2] = wire[k + 2] /\ edges[k] = sent[k]
        BY <1>1, <1>11, <3>2, <4>1
      <4> QED BY <2>2, <3>1, <4>1, <4>2
    <3> QED BY <3>3, <3>4
  <2>5. CASE left = 1
    <3>1. FrameInv'
      <4>1. record' = 1 /\ wire' = <<>> /\ sent' = <<>>
        BY <1>3, <1>4, <2>5
      <4> QED BY <4>1 DEF FrameInv
    <3>2. Len(edges) = 2 * HE_BITLEN - 2
      BY <1>11, <2>1, <2>3, <2>5
    <3>3. EdgesRead'
      <4> SUFFICES ASSUME ~(Len(w) < 2 * HE_BITLEN), NEW i \in 1..HE_BITLEN - 1
                   PROVE  /\ edges[2 * i - 1] \in Int /\ edges[2 * i] \in Int
                          /\ m[i] = Bit(edges[2 * i - 1], edges[2 * i])
        <5>1. last' = [sent |-> edges, msg |-> m, first |-> Len(w) < 2 * HE_BITLEN]
          BY <1>4, <2>5
        <5>2. last.first' = (Len(w) < 2 * HE_BITLEN) /\ last.msg' = m /\ last.sent' = edges
          BY <5>1
        <5> QED BY <5>2, Zenon DEF EdgesRead
      <4>1. Len(w) = 2 * HE_BITLEN /\ Len(w) = Len(edges) + 2
        BY <2>3, <3>2
      <4>2. i \in 0..HE_BITLEN - 1 /\ r.count = 2 * HE_BITLEN
        BY <1>14, <4>1
      <4>3. m[i] = Bit(w[2 * i + 1], w[2 * i + 2])
        BY <1>10, <1>12, <1>14, <4>1, <4>2, Decoded
      <4>4. 2 * i - 1 \in 1..Len(edges) /\ 2 * i \in 1..Len(edges)
        BY <3>2
      <4>5. w[(2 * i - 1) + 2] = edges[2 * i - 1] /\ w[2 * i + 2] = edges[2 * i]
        BY <2>4, <4>1, <4>4
      <4>6. (2 * i - 1) + 2 = 2 * i + 1
        OBVIOUS
      <4>7. edges[2 * i - 1] \in Int /\ edges[2 * i] \in Int
        <5>1. edges \in Seq(Int)
          BY <1>12
        <5>2. \A k \in 1..Len(edges) : edges[k] \in Int
          BY <5>1
        <5> QED BY <4>4, <5>2
      <4>8. m[i] = Bit(edges[2 * i - 1], edges[2 * i])
        BY <4>3, <4>5, <4>6
      <4> QED BY <4>7, <4>8
    <3> QED BY <1>13, <1>15, <3>1, <3>3 DEF Inv
  <2>6. CASE left # 1
    <3>1. record' = record - 1 /\ wire' = w /\ sent' = edges
      BY <1>3, <1>5, <2>1, <2>6
    <3>2. record' \in 0..2 * HE_BITLEN - 1 /\ record' > 1
      BY <1>11, <1>17, <2>1, <2>6, <3>1
    <3>3. Len(sent') = 2 * HE_BITLEN - 1 - record'
      BY <1>11, <2>3, <3>1
    <3>4. Len(wire') \in {Len(sent') + 1, Len(sent') + 2}
      BY <2>3, <3>1
    <3>5. Len(wire') = Len(sent') + 2 => \A k \in 1..Len(sent') : wire'[k + 2] = sent'[k]
      BY <2>4, <3>1
    <3>6. FrameInv'
      BY <1>12, <3>1, <3>2, <3>3, <3>4, <3>5 DEF FrameInv
    <3> QED BY <1>16, <2>6, <3>6
  <2> QED BY <2>5, <2>6
<1>18. CASE record = 1
  <2>1. rec = 1 /\ left = 0 /\ Len(w) = 1
    <3>1. rec = 1 /\ left = 0
      BY <1>2, <1>7, <1>18
    <3>2. Len(wire) = 0
      BY <1>18 DEF Inv, FrameInv
    <3> QED BY <1>12, <3>1, <3>2
  <2>2. FrameInv'
    <3>1. record' = 0 /\ wire' = w /\ sent' = edges
      BY <1>3, <1>5, <2>1
    <3> QED BY <1>12, <2>1, <3>1 DEF FrameInv
  <2> QED BY <1>16, <2>1, <2>2
<1>19. CASE record = 0 /\ rec = 0
  <2>1. left = 0 /\ Len(w) =< 1
    BY <1>7, <1>8, <1>19 DEF Inv, FrameInv
  <2>2. FrameInv'
    <3>1. record' = 0 /\ wire' = w /\ sent' = edges
      BY <1>3, <1>5, <2>1
    <3> QED BY <1>12, <2>1, <3>1 DEF FrameInv
  <2> QED BY <1>16, <2>1, <2>2
<1>20. CASE record = 0 /\ rec = 2 * HE_BITLEN
  <2>1. left = 2 * HE_BITLEN - 1 /\ left > 1 /\ rec > 0
    BY <1>7, <1>20
  <2>2. edges = <<>> /\ Len(w) \in {1, 2}
    <3>1. Len(wire) =< 1
      BY <1>20 DEF Inv, FrameInv
    <3> QED BY <1>9, <1>11, <1>12, <1>20, <2>1, <3>1
  <2>3. FrameInv'
    <3>1. Len(sent') = 0 /\ Len(wire') \in {1, 2}
      BY <1>5, <2>1, <2>2
    <3>2. record' = 2 * HE_BITLEN - 1 /\ sent' \in Seq(Int) /\ wire' \in Seq(Int)
      BY <1>3, <1>5, <1>12, <2>1
    <3> QED BY <2>1, <3>1, <3>2, <1>3 DEF FrameInv
  <2> QED BY <1>16, <2>1, <2>3
<1> QED BY <1>2, <1>11, <1>17, <1>18, <1>19, <1>20

LEMMA Invariance == Spec => []Inv
<1>1. Inv /\ [Next]_vars => Inv'
  <2>1. Inv /\ UNCHANGED vars => Inv'
    BY DEF Inv, vars, isr_vars, main_vars, RingInv, FrameInv, MainInv, EdgesRead
  <2> QED BY <2>1, MainKeeps, EdgeKeeps DEF Next, Edge
<1> QED BY <1>1, Initial, PTL DEF Spec

\* For every length of frame and every ring that takes one, the ring gives back
\* what the interrupt put in: it is emptied before it wraps.
THEOREM RingHolds == Spec => []RingFaithful
<1>1. Inv => RingFaithful
  <2> SUFFICES ASSUME Inv PROVE RingFaithful
    OBVIOUS
  <2>1. Len(wire) < 2 * HE_BITLEN
    BY Sizes DEF Inv, FrameInv
  <2>2. ring.count \in Nat /\ ring.count < RINGS_SZ
    BY <2>1, Sizes DEF Inv, RingInv, FrameInv
  <2>3. \A i \in 0..ring.count - 1 : ring_get(ring, i) = ring.buf[i]
    <3>1. ring.size = RINGS_SZ /\ ring.tail = 0
      BY DEF Inv, RingInv
    <3> SUFFICES ASSUME NEW i \in 0..ring.count - 1
                 PROVE  ring_get(ring, i) = ring.buf[i]
      OBVIOUS
    <3>2. i \in Nat /\ i < ring.count /\ i < RINGS_SZ
      BY <2>2, Sizes
    <3>3. (ring.tail + i) % ring.size = i
      BY <3>1, <3>2, Small, Sizes
    <3> QED BY <3>2, <3>3 DEF ring_get
  <2> QED BY <2>2, <2>3 DEF RingFaithful, Inv, RingInv
<1> QED BY <1>1, Invariance, PTL

\* What data_process tests of two edges, in numbers.
LEMMA Bounds ==
  /\ LOLO(275) = 137 /\ HIHI(275) = 412
  /\ LOLO(1225) = 612 /\ HIHI(1225) = 1837
BY DEF LOLO, HIHI, PRECISION

\* Of two edges it reads the symbol whose pulse they are.
LEMMA BitReads ==
  ASSUME NEW d0 \in Int, NEW d1 \in Int
  PROVE  \A b \in Symbol : /\ Sends(b, 49, d0, d1) => Bit(d0, d1) = b
                           /\ Bit(d0, d1) = b => Sends(b, 50, d0, d1)
<1>1. Bit(d0, d1) = IF 137 < d0 /\ d0 < 412 /\ -412 < d1 /\ d1 < -137 THEN "1"
                    ELSE IF 137 < d0 /\ d0 < 412 /\ -1837 < d1 /\ d1 < -612 THEN "0"
                    ELSE "?"
  <2>1. \A d \in Int : High(d, 275) <=> 137 < d /\ d < 412
    BY Bounds DEF High
  <2>2. \A d \in Int : Low(d, 275) <=> -412 < d /\ d < -137
    BY Bounds DEF Low
  <2>3. \A d \in Int : Low(d, 1225) <=> -1837 < d /\ d < -612
    BY Bounds DEF Low
  <2> QED BY <2>1, <2>2, <2>3 DEF Bit
<1>2. \A p \in {49, 50} : Sends("1", p, d0, d1) <=>
        /\ 100 * (d0 - 275) <= p * 275 /\ 100 * (275 - d0) <= p * 275
        /\ 100 * (-d1 - 275) <= p * 275 /\ 100 * (275 - (-d1)) <= p * 275
  BY DEF Sends, Off, Pulse
<1>3. \A p \in {49, 50} : Sends("0", p, d0, d1) <=>
        /\ 100 * (d0 - 275) <= p * 275 /\ 100 * (275 - d0) <= p * 275
        /\ 100 * (-d1 - 1225) <= p * 1225 /\ 100 * (1225 - (-d1)) <= p * 1225
  BY DEF Sends, Off, Pulse
<1>4. /\ Sends("1", 49, d0, d1) => Bit(d0, d1) = "1"
      /\ Bit(d0, d1) = "1" => Sends("1", 50, d0, d1)
  BY <1>1, <1>2
<1>5. /\ Sends("0", 49, d0, d1) => Bit(d0, d1) = "0"
      /\ Bit(d0, d1) = "0" => Sends("0", 50, d0, d1)
  BY <1>1, <1>3
<1> QED BY <1>4, <1>5 DEF Symbol

\* For every length of frame, whatever edges come before, between and after: the
\* symbols of a frame are read as what was sent.
THEOREM FramesDecode == Spec => []Decodes
<1>1. EdgesRead => Decodes
  <2> SUFFICES ASSUME EdgesRead, ~last.first,
                      NEW i \in 1..HE_BITLEN - 1, NEW b \in Symbol
               PROVE  /\ Sends(b, 49, last.sent[2 * i - 1], last.sent[2 * i])
                           => last.msg[i] = b
                      /\ last.msg[i] = b
                           => Sends(b, 50, last.sent[2 * i - 1], last.sent[2 * i])
    BY Zenon DEF Decodes
  <2>1. /\ last.sent[2 * i - 1] \in Int /\ last.sent[2 * i] \in Int
        /\ last.msg[i] = Bit(last.sent[2 * i - 1], last.sent[2 * i])
    BY DEF EdgesRead
  <2> QED BY <2>1, BitReads
<1> QED BY <1>1, Invariance, PTL DEF Inv

\* main() prints only slots that hold a message and its countdown takes away
\* none that is not there, wherever the interrupt comes, for every number of
\* slots.
THEOREM PrintsOnlyDecoded == Spec => []PrintedIntact
<1>1. Inv => PrintedIntact
  BY DEF Inv, MainInv, PrintedIntact
<1> QED BY <1>1, Invariance, PTL
=============================================================================
