------------------------------ MODULE OflNode ------------------------------
(***************************************************************************)
(* The main loop of the sensor firmware (oflnode/oflnode.c): wake up, turn *)
(* the radio on, measure, drain the receive queue, take a packet from the  *)
(* radio library's pool, transmit, turn the radio off, check the uptime,   *)
(* hibernate.  The radio interrupt of libmc1322x (external, seen through   *)
(* the calls main() makes) runs between any two steps of the loop.         *)
(*                                                                         *)
(* Payloads are abstracted to the set of fields they hold and to the       *)
(* largest number of bytes sprintf can write for each of them: the frame   *)
(* buffer of the radio library has 125 bytes and nothing in the code       *)
(* checks a length.  How many digits the battery voltage has is not the    *)
(* code's to say: it is a constant of the board.                           *)
(***************************************************************************)
EXTENDS Integers

CONSTANTS
  NumPackets,   \* packets in the radio library's pool
  ResetAfter,   \* seconds of loops before the watchdog reset, 10*60*60 in the code
  MaxLoop,      \* bound: main_loop_count wraps above it, see NextLoop
  MaxMisses,    \* bound: misses stops counting there, it is exact below
  MaxBattery,   \* largest reading of the battery, in millivolts: get_batteryLevel
                \* returns any uint16_t, the hardware at most some 3600
  Boards        \* the boards considered, records [bme, capa]

SLEEP_DELAY == 60
BatteryEvery == 5

ASSUME NodeAssumption ==
  /\ NumPackets \in Nat \ {0}
  /\ ResetAfter \in Nat
  /\ MaxLoop \in Nat
  /\ MaxLoop >= BatteryEvery
  /\ (MaxLoop - BatteryEvery) * SLEEP_DELAY > ResetAfter
  /\ MaxMisses \in Nat
  /\ (MaxLoop - MaxMisses) * SLEEP_DELAY <= ResetAfter
  /\ Boards \subseteq [bme : BOOLEAN, capa : SUBSET {"TEMP", "LIGHT", "POWER"}]

ASSUME BatteryAssumption == MaxBattery \in 0..65535

VARIABLES
  pc,               \* the step main() is about to take
  board,            \* bme280_presence and myconfig.capa, fixed for a board
  main_loop_count,
  free, rx, tx,     \* the packets of the pool: free, received, queued to send
  radio,            \* maca_on / maca_off
  payload,          \* fields written to tx_paquet.data in this loop
  misses            \* history: loops in a row that found the pool empty and so
                    \* skipped the uptime check

pool == <<free, rx, tx>>
vars == <<pc, board, main_loop_count, pool, radio, payload, misses>>

Steps == {"boot", "top", "measure", "drain", "alloc", "send", "flush",
          "check", "the_end", "sleep"}

Fields == {"FWVER", "CAPA", "BATLEV", "AWAKE_SEC", "MAIN_LOOP", "TEMP",
           "PRESS", "HUMI", "LUMI", "POWER", "ERROR"}
-----------------------------------------------------------------------------
(***************************************************************************)
(* The payload.                                                            *)
(***************************************************************************)
HasDs1820 == ~board.bme /\ "TEMP" \in board.capa

\* What a ds1820 reading adds: a value, nothing but error 11 (85 degrees,
\* the power-on value), or nothing but error 12 (crc).
TempOutcomes ==
  IF HasDs1820 THEN {{"TEMP"}, {"ERROR"}} ELSE {{}}

BatteryFields(n) ==
  IF n % BatteryEvery = 0
    THEN {"FWVER", "CAPA", "BATLEV", "AWAKE_SEC", "MAIN_LOOP"} ELSE {}

\* Every payload loop n can build.
Payloads(n) ==
  { BatteryFields(n)
      \cup t
      \cup (IF board.bme THEN {"TEMP", "PRESS", "HUMI"} ELSE {})
      \cup (IF "LIGHT" \in board.capa THEN {"LUMI"} ELSE {})
      \cup (IF "POWER" \in board.capa THEN {"POWER"} ELSE {})
    : t \in TempOutcomes }

Digits(n) ==
  IF n < 10 THEN 1 ELSE IF n < 100 THEN 2 ELSE IF n < 1000 THEN 3
  ELSE IF n < 10000 THEN 4 ELSE 5

\* A loop keeps the CPU awake for less than 5 seconds: the waits of one loop
\* (battery 1, light 11, power 1, radio 1, led 1, wake-up 21 tenths) and the
\* second ds1820_readTemp spends waiting for its conversion.
AwakePerLoop == 5

\* Longest text of a field in loop n, "NAME:value;" included, for any value of
\* the variable sprintf is given: TEMP, PRESS, HUMI, LUMI and POWER print all 16
\* bits, BATLEV what the supply allows, and the counters what the loop does.
FieldLen(f, n) ==
  CASE f = "FWVER"     -> 11
    [] f = "CAPA"      -> 10
    [] f = "BATLEV"    -> 8 + Digits(MaxBattery)
    [] f = "AWAKE_SEC" -> 11 + Digits(AwakePerLoop * (n + 1))
    [] f = "MAIN_LOOP" -> 11 + Digits(n)
    [] f = "TEMP"      -> 13
    [] f = "PRESS"     -> 12
    [] f = "HUMI"      -> 13
    [] f = "LUMI"      -> 12
    [] f = "POWER"     -> 13
    [] f = "ERROR"     -> 11

DataLen(fs, n) ==
  LET Len(f) == IF f \in fs THEN FieldLen(f, n) ELSE 0
  IN  Len("FWVER") + Len("CAPA") + Len("BATLEV") + Len("AWAKE_SEC")
        + Len("MAIN_LOOP") + Len("TEMP") + Len("PRESS") + Len("HUMI")
        + Len("LUMI") + Len("POWER") + Len("ERROR")

\* paquet2packet: frame control and sequence 3, two PAN ids and two 64-bit
\* addresses 20, crc 2.
FrameLenWithNul(fs, n) == DataLen(fs, n) + 1 + 3 + 2 + 8 + 2 + 8 + 2
FrameLen(fs, n) == DataLen(fs, n) + 3 + 2 + 8 + 2 + 8 + 2
MAX_PAYLOAD_SIZE == 125
-----------------------------------------------------------------------------
(***************************************************************************)
(* main()                                                                  *)
(***************************************************************************)
OverUptimeInLoops(n) == n > ResetAfter
OverUptime(n) == n * SLEEP_DELAY > ResetAfter

\* main_loop_count++, wrapped so that the counter stays above the reset
\* threshold and keeps its residue modulo BatteryEvery.
NextLoop(n) == IF n < MaxLoop THEN n + 1 ELSE n + 1 - BatteryEvery

Init ==
  /\ pc = "boot"
  /\ board \in Boards
  /\ main_loop_count = 0
  /\ free = NumPackets /\ rx = 0 /\ tx = 0
  /\ radio = FALSE
  /\ payload = {}
  /\ misses = 0

\* Reset vector to the top of the loop: counters cleared, rad_init (maca_init
\* puts every packet of the pool back on the free list).
Boot ==
  /\ pc = "boot"
  /\ pc' = "top"
  /\ main_loop_count' = 0
  /\ free' = NumPackets /\ rx' = 0 /\ tx' = 0
  /\ radio' = FALSE
  /\ payload' = {}
  /\ misses' = 0
  /\ UNCHANGED board

RadOn ==
  /\ pc = "top"
  /\ pc' = "measure"
  /\ radio' = TRUE
  /\ payload' = {}
  /\ UNCHANGED <<board, main_loop_count, pool, misses>>

Measure ==
  /\ pc = "measure"
  /\ pc' = "drain"
  /\ payload' \in Payloads(main_loop_count)
  /\ UNCHANGED <<board, main_loop_count, pool, radio, misses>>

\* while ((rxp = rx_packet())) free_packet(rxp);  One step: a frame takes
\* milliseconds to arrive, the loop microseconds, and a frame received during
\* the loop leaves the same state as one received just before or just after.
DrainWithoutFree ==
  /\ pc = "drain"
  /\ pc' = "alloc"
  /\ rx' = 0
  /\ UNCHANGED <<board, main_loop_count, free, tx, radio, payload, misses>>
DrainRx ==
  /\ pc = "drain"
  /\ pc' = "alloc"
  /\ rx' = 0 /\ free' = free + rx
  /\ UNCHANGED <<board, main_loop_count, tx, radio, payload, misses>>

GetFreePacketUnchecked ==
  /\ pc = "alloc"
  /\ free' = free - 1
  /\ pc' = "send"
  /\ UNCHANGED <<board, main_loop_count, rx, tx, radio, payload, misses>>
GetFreePacket ==
  /\ pc = "alloc"
  /\ free > 0
  /\ free' = free - 1
  /\ pc' = "send"
  /\ UNCHANGED <<board, main_loop_count, rx, tx, radio, payload, misses>>

\* goto the_end: neither rad_off nor the uptime check is reached.
NoFreePacket ==
  /\ pc = "alloc"
  /\ free = 0
  /\ pc' = "the_end"
  /\ misses' = IF misses < MaxMisses THEN misses + 1 ELSE misses
  /\ UNCHANGED <<board, main_loop_count, pool, radio, payload>>

SendPacket ==
  /\ pc = "send"
  /\ pc' = "flush"
  /\ tx' = tx + 1
  /\ UNCHANGED <<board, main_loop_count, free, rx, radio, payload, misses>>

\* rad_off: wait100ms(1) "to flush Tx buffers", then maca_off.
RadOff ==
  /\ pc = "flush"
  /\ pc' = "check"
  /\ radio' = FALSE
  /\ UNCHANGED <<board, main_loop_count, pool, payload, misses>>

\* reset_watchdog does not return: the watchdog takes the node to Boot.
ResetWatchdog ==
  /\ pc = "check"
  /\ OverUptime(main_loop_count)
  /\ pc' = "boot"
  /\ UNCHANGED <<board, main_loop_count, pool, radio, payload, misses>>

UptimeOk ==
  /\ pc = "check"
  /\ ~OverUptime(main_loop_count)
  /\ pc' = "the_end"
  /\ misses' = 0
  /\ UNCHANGED <<board, main_loop_count, pool, radio, payload>>

TheEnd ==
  /\ pc = "the_end"
  /\ pc' = "sleep"
  /\ main_loop_count' = NextLoop(main_loop_count)
  /\ UNCHANGED <<board, pool, radio, payload, misses>>

WakeUp ==
  /\ pc = "sleep"
  /\ pc' = "top"
  /\ UNCHANGED <<board, main_loop_count, pool, radio, payload, misses>>

(***************************************************************************)
(* The radio interrupt (libmc1322x): no frame moves while the radio is off *)
(* or the node hibernates.                                                 *)
(***************************************************************************)
RadioUp == radio /\ pc \notin {"sleep", "boot"}

MacaRx ==
  /\ RadioUp
  /\ free > 0
  /\ free' = free - 1 /\ rx' = rx + 1
  /\ UNCHANGED <<pc, board, main_loop_count, tx, radio, payload, misses>>

MacaTxDone ==
  /\ RadioUp
  /\ tx > 0
  /\ tx' = tx - 1 /\ free' = free + 1
  /\ UNCHANGED <<pc, board, main_loop_count, rx, radio, payload, misses>>

Main ==
  \/ Boot \/ RadOn \/ Measure \/ DrainRx
  \/ GetFreePacket \/ NoFreePacket \/ SendPacket \/ RadOff \/ ResetWatchdog
  \/ UptimeOk \/ TheEnd \/ WakeUp

Next == Main \/ MacaRx \/ MacaTxDone

Spec == Init /\ [][Next]_vars
-----------------------------------------------------------------------------
(***************************************************************************)
(* Fairness.  The CPU never stops.  A few instructions separate the end of *)
(* the drain loop from get_free_packet, so frames cannot refill the whole  *)
(* pool there every time: strong fairness of GetFreePacket.                *)
(***************************************************************************)
CpuFairness ==
  /\ WF_vars(Main)
  /\ SF_vars(GetFreePacket)

CpuFairSpec == Spec /\ CpuFairness

\* A radio that does its part: whatever is queued is sent in the end.
FairSpec == CpuFairSpec /\ SF_vars(MacaTxDone)
-----------------------------------------------------------------------------
\* The state of a node.
TypeOK ==
  /\ pc \in Steps
  /\ board \in Boards
  /\ main_loop_count \in 0..MaxLoop
  /\ free \in 0..NumPackets /\ rx \in 0..NumPackets /\ tx \in 0..NumPackets
  /\ radio \in BOOLEAN
  /\ payload \subseteq Fields
  /\ misses \in 0..MaxMisses

\* Every packet of the pool is free, received, queued, or in main()'s hands
\* between get_free_packet and tx_packet: no path of the loop leaks one.
Held == IF pc = "send" THEN 1 ELSE 0
PoolConserved == free + rx + tx + Held = NumPackets

\* The node never runs past the reset threshold by more loops than those,
\* all the last ones, in which the pool was empty and the check was skipped.
UptimeBounded ==
  (main_loop_count - misses - 1) * SLEEP_DELAY <= ResetAfter

\* A frame fits the radio library's buffer on every board that has either a
\* bme280 and no light or power sensor, or any set of sensors without bme280,
\* as long as the loops that skipped the uptime check are few.  It fits to the
\* byte: the uptime check is what keeps the counters it prints at three and
\* four digits; 399 loops in a row with an empty pool (more than six hours)
\* bring the loop counter a fourth, and its frame is a byte too long.  So is
\* one that reports a battery of ten volts and more, which no line of the code
\* rules out: the theorem has a hypothesis for it.  A
\* bme280 with a light or power sensor writes up to 25 bytes past the buffer
\* when all fields coincide.
SmallBoard == ~board.bme \/ board.capa \subseteq {"TEMP"}
FewMisses == misses <= 398 /\ misses < MaxMisses
FrameFits ==
  pc = "send" /\ SmallBoard /\ FewMisses
    => FrameLen(payload, main_loop_count) <= MAX_PAYLOAD_SIZE

\* oflnode.c:566-570: the watchdog resets the node again and again.
RebootsForever == []<>(pc = "boot")
=============================================================================
