--------------------------- MODULE OflNode_proofs --------------------------
(***************************************************************************)
(* Theorems about the firmware of the sensor: its main loop (OflNode), for *)
(* every pool size, reset delay and set of boards; the configuration page  *)
(* it boots from (NodeConfig), for any number of power cuts, any foreign   *)
(* channel and both programs that read the page; and the timer interrupt   *)
(* and wait100ms (Clock), for every width of the counter, every split of   *)
(* the day and every length of a wait.                                     *)
(***************************************************************************)
EXTENDS OflNode, NodeConfig, Clock, TLAPS

\* The counter stays in its bounds, and above the threshold once it wraps.
LEMMA NextLoopType ==
  ASSUME NEW n \in 0..MaxLoop
  PROVE  /\ NextLoop(n) \in 0..MaxLoop
         /\ NextLoop(n) <= n + 1
  BY NodeAssumption DEF NextLoop, BatteryEvery

LEMMA PayloadsType ==
  ASSUME NEW n \in Nat, NEW p \in Payloads(n)
  PROVE  p \subseteq Fields
  BY DEF Payloads, TempOutcomes, BatteryFields, Fields

\* Every variable keeps its type: in particular the three counters of the
\* packet pool stay between 0 and the size of the pool.  The bound on a counter
\* that grows comes from the conservation of the pool.
IInv == TypeOK /\ PoolConserved

THEOREM PoolSafe == Spec => [](TypeOK /\ PoolConserved)
<1>1. Init => IInv
  <2> SUFFICES ASSUME Init
               PROVE  IInv
    OBVIOUS
  <2> USE DEF Init
  <2>1. /\ NumPackets \in Nat /\ MaxLoop \in Nat /\ MaxMisses \in Nat
    BY NodeAssumption
  <2>2. /\ pc \in Steps
        /\ board \in Boards
        /\ payload \subseteq Fields
    BY DEF Steps
  <2>3. radio \in BOOLEAN
    OBVIOUS
  <2>4. main_loop_count \in 0..MaxLoop /\ misses \in 0..MaxMisses
    BY <2>1
  <2>5. free \in 0..NumPackets /\ rx \in 0..NumPackets /\ tx \in 0..NumPackets
    BY <2>1
  <2>6. PoolConserved
    BY <2>1 DEF PoolConserved, Held
  <2> QED
    BY <2>2, <2>3, <2>4, <2>5, <2>6 DEF IInv, TypeOK
<1>2. IInv /\ [Next]_vars => IInv'
  <2> SUFFICES ASSUME IInv, [Next]_vars
               PROVE  IInv'
    OBVIOUS
  <2> USE NodeAssumption DEF IInv, TypeOK, PoolConserved, Held, Steps, pool
  <2>1. CASE Boot
    <3>1. pc' = "top" /\ radio' \in BOOLEAN /\ payload' \subseteq Fields /\ board' = board
      BY <2>1 DEF Boot
    <3>2. main_loop_count' = 0 /\ misses' = 0 /\ free' = NumPackets /\ rx' = 0 /\ tx' = 0
      BY <2>1 DEF Boot
    <3> QED
      BY <3>1, <3>2
  <2>2. CASE RadOn
    BY <2>2 DEF RadOn
  <2>3. CASE Measure
    BY <2>3, PayloadsType DEF Measure
  <2>4. CASE DrainRx
    BY <2>4 DEF DrainRx
  <2>5. CASE GetFreePacket
    BY <2>5 DEF GetFreePacket
  <2>6. CASE NoFreePacket
    BY <2>6 DEF NoFreePacket
  <2>7. CASE SendPacket
    BY <2>7 DEF SendPacket
  <2>8. CASE RadOff
    BY <2>8 DEF RadOff
  <2>9. CASE ResetWatchdog \/ UptimeOk
    BY <2>9 DEF ResetWatchdog, UptimeOk
  <2>10. CASE TheEnd
    BY <2>10, NextLoopType DEF TheEnd
  <2>11. CASE WakeUp
    BY <2>11 DEF WakeUp
  <2>12. CASE MacaRx
    BY <2>12 DEF MacaRx
  <2>13. CASE MacaTxDone
    BY <2>13 DEF MacaTxDone
  <2>14. CASE UNCHANGED vars
    BY <2>14 DEF vars
  <2> QED
    BY <2>1, <2>2, <2>3, <2>4, <2>5, <2>6, <2>7, <2>8, <2>9, <2>10, <2>11,
       <2>12, <2>13, <2>14 DEF Next, Main
<1> QED
  BY <1>1, <1>2, PTL DEF Spec, IInv

\* No counter of the pool goes below zero or above the size of the pool, whatever
\* main() and the radio interrupt do in between (get_free_packet, free_packet).
THEOREM NodeTyped == Spec => []TypeOK
BY PoolSafe, PTL
-----------------------------------------------------------------------------
(***************************************************************************)
(* The uptime bound.  It is not inductive by itself: between the check and *)
(* the end of the loop the counter must still be within the threshold, and *)
(* a loop that skipped the check has at least one miss to show for it.     *)
(***************************************************************************)
Slack(k) == (main_loop_count - misses - k) * SLEEP_DELAY <= ResetAfter

UInv ==
  /\ Slack(1)
  /\ pc = "the_end" => Slack(0)

\* Unless loops found the packet pool empty, the watchdog check of main() keeps
\* the node from running more than one loop past the reset threshold.
THEOREM Uptime == Spec => []UptimeBounded
<1>1. Init => UInv
  BY NodeAssumption DEF Init, UInv, Slack, SLEEP_DELAY
<1>2. TypeOK /\ UInv /\ [Next]_vars => UInv'
  <2> SUFFICES ASSUME TypeOK, UInv, [Next]_vars
               PROVE  UInv'
    OBVIOUS
  <2> USE NodeAssumption DEF TypeOK, UInv, Slack, SLEEP_DELAY, pool
  <2>1. CASE Boot
    BY <2>1 DEF Boot
  <2>2. CASE RadOn \/ Measure \/ DrainRx \/ GetFreePacket \/ SendPacket \/ RadOff
    BY <2>2 DEF RadOn, Measure, DrainRx, GetFreePacket, SendPacket, RadOff
  <2>3. CASE NoFreePacket
    \* A miss pays for the skipped check; once misses has reached its bound
    \* the bound on the counter does.
    BY <2>3 DEF NoFreePacket
  <2>4. CASE ResetWatchdog
    BY <2>4 DEF ResetWatchdog
  <2>5. CASE UptimeOk
    BY <2>5 DEF UptimeOk, OverUptime
  <2>6. CASE TheEnd
    BY <2>6, NextLoopType DEF TheEnd
  <2>7. CASE WakeUp
    BY <2>7 DEF WakeUp
  <2>8. CASE MacaRx \/ MacaTxDone
    BY <2>8 DEF MacaRx, MacaTxDone
  <2>9. CASE UNCHANGED vars
    BY <2>9 DEF vars
  <2> QED
    BY <2>1, <2>2, <2>3, <2>4, <2>5, <2>6, <2>7, <2>8, <2>9 DEF Next, Main
<1>3. UInv => UptimeBounded
  BY DEF UInv, Slack, UptimeBounded
<1> QED
  BY <1>1, <1>2, <1>3, PoolSafe, PTL DEF Spec
-----------------------------------------------------------------------------
(***************************************************************************)
(* Frames fit.  Nothing in the code compares a length with the size of a   *)
(* buffer: what bounds a frame is the set of fields a board can report and *)
(* the number of digits of the two counters, which the uptime check bounds.*)
(***************************************************************************)
PInv == pc \in {"drain", "alloc", "send"} => payload \in Payloads(main_loop_count)

LEMMA BoardType ==
  ASSUME TypeOK
  PROVE  /\ board.bme \in BOOLEAN
         /\ board.capa \subseteq {"TEMP", "LIGHT", "POWER"}
  BY NodeAssumption DEF TypeOK

\* The text of the longest payload of a board without bme280 has 100 bytes,
\* and so has that of a board with a bme280 and no other sensor.
LEMMA PayloadBound ==
  ASSUME NEW n \in 0..999, NEW p \in Payloads(n), SmallBoard, TypeOK,
         MaxBattery < 10000
  PROVE  DataLen(p, n) <= 100
<1> DEFINE L(f) == IF f \in p THEN FieldLen(f, n) ELSE 0
<1>0. Digits(MaxBattery) \in 1..4
  BY BatteryAssumption DEF Digits
<1>1. /\ L("FWVER") \in 0..11 /\ L("CAPA") \in 0..10 /\ L("BATLEV") \in 0..12
      /\ L("LUMI") \in 0..12 /\ L("POWER") \in 0..13
      /\ L("TEMP") \in 0..13 /\ L("ERROR") \in 0..11
      /\ L("PRESS") \in 0..12 /\ L("HUMI") \in 0..13
  BY <1>0 DEF FieldLen
<1>2. L("AWAKE_SEC") \in 0..15 /\ L("MAIN_LOOP") \in 0..14
  <2>1. Digits(n) \in 1..3
    BY DEF Digits
  <2> DEFINE m == AwakePerLoop * (n + 1)
  <2>2. m \in 0..5000
    BY DEF AwakePerLoop
  <2> HIDE DEF m
  <2>3. Digits(m) \in 1..4
    BY <2>2 DEF Digits
  <2> QED
    BY <2>1, <2>3 DEF FieldLen, m
<1>3. DataLen(p, n) = L("FWVER") + L("CAPA") + L("BATLEV") + L("AWAKE_SEC")
                        + L("MAIN_LOOP") + L("TEMP") + L("PRESS") + L("HUMI")
                        + L("LUMI") + L("POWER") + L("ERROR")
  BY DEF DataLen
<1>4. PICK t \in TempOutcomes :
        p = BatteryFields(n) \cup t
              \cup (IF board.bme THEN {"TEMP", "PRESS", "HUMI"} ELSE {})
              \cup (IF "LIGHT" \in board.capa THEN {"LUMI"} ELSE {})
              \cup (IF "POWER" \in board.capa THEN {"POWER"} ELSE {})
  BY DEF Payloads
<1>5. \A f \in {"TEMP", "ERROR", "PRESS", "HUMI", "LUMI", "POWER"} :
        f \notin BatteryFields(n)
  BY DEF BatteryFields
<1> HIDE DEF L
<1>6. CASE board.bme
  <2>1. t = {} /\ "LIGHT" \notin board.capa /\ "POWER" \notin board.capa
    BY <1>6 DEF SmallBoard, TempOutcomes, HasDs1820
  <2>2. "ERROR" \notin p /\ "LUMI" \notin p /\ "POWER" \notin p
    BY <1>4, <1>5, <1>6, <2>1
  <2>3. L("ERROR") = 0 /\ L("LUMI") = 0 /\ L("POWER") = 0
    BY <2>2 DEF L
  <2> QED
    BY <1>1, <1>2, <1>3, <2>3
<1>7. CASE ~board.bme
  <2>1. "PRESS" \notin t /\ "HUMI" \notin t /\ ("TEMP" \notin t \/ "ERROR" \notin t)
    BY DEF TempOutcomes
  <2>2. "PRESS" \notin p /\ "HUMI" \notin p /\ ("TEMP" \notin p \/ "ERROR" \notin p)
    BY <1>4, <1>5, <1>7, <2>1
  <2>3. L("PRESS") = 0 /\ L("HUMI") = 0 /\ (L("TEMP") = 0 \/ L("ERROR") = 0)
    BY <2>2 DEF L
  <2> QED
    BY <1>1, <1>2, <1>3, <2>3
<1> QED
  BY <1>6, <1>7

\* In the shipped configuration (a reset after ten hours, or after any shorter
\* time), and with a battery below ten volts, no frame of these boards overruns
\* the radio library's buffer, whatever the pool does, until 399 loops in a row
\* have skipped the uptime check: this is why an unchecked length is harmless.
\* Both hypotheses are needed: a fifth digit of the battery, or a fourth of the
\* loop counter, is one byte too many (oflnode.c:448).
THEOREM FramesFit ==
  ResetAfter <= 36000 /\ MaxBattery < 10000 => (Spec => []FrameFits)
<1> SUFFICES ASSUME ResetAfter <= 36000, MaxBattery < 10000
             PROVE  Spec => []FrameFits
  OBVIOUS
<1>1. Init => PInv
  BY DEF Init, PInv
<1>2. TypeOK /\ PInv /\ [Next]_vars => PInv'
  <2> SUFFICES ASSUME TypeOK, PInv, [Next]_vars
               PROVE  PInv'
    OBVIOUS
  <2>1. CASE Measure
    BY <2>1 DEF Measure, PInv, Payloads, TempOutcomes, HasDs1820
  <2>2. CASE DrainRx \/ GetFreePacket \/ MacaRx \/ MacaTxDone
    BY <2>2 DEF DrainRx, GetFreePacket, MacaRx, MacaTxDone, PInv, Payloads,
                TempOutcomes, HasDs1820
  <2>3. CASE Boot \/ RadOn \/ NoFreePacket \/ SendPacket \/ RadOff
               \/ ResetWatchdog \/ UptimeOk \/ TheEnd \/ WakeUp
    BY <2>3 DEF Boot, RadOn, NoFreePacket, SendPacket, RadOff, ResetWatchdog,
                UptimeOk, TheEnd, WakeUp, PInv
  <2>4. CASE UNCHANGED vars
    BY <2>4 DEF vars, pool, PInv, Payloads, TempOutcomes, HasDs1820
  <2> QED
    BY <2>1, <2>2, <2>3, <2>4 DEF Next, Main
<1>3. TypeOK /\ PInv /\ UptimeBounded => FrameFits
  <2> SUFFICES ASSUME TypeOK, PInv, UptimeBounded,
                      pc = "send", SmallBoard, FewMisses
               PROVE  FrameLen(payload, main_loop_count) <= MAX_PAYLOAD_SIZE
    BY DEF FrameFits
  <2>1. main_loop_count \in 0..999
    BY NodeAssumption DEF TypeOK, UptimeBounded, SLEEP_DELAY, FewMisses
  <2>2. payload \in Payloads(main_loop_count)
    BY DEF PInv
  <2>3. DataLen(payload, main_loop_count) <= 100
    BY <2>1, <2>2, PayloadBound
  <2>4. DataLen(payload, main_loop_count) \in Int
    <3>1. \A f \in Fields : FieldLen(f, main_loop_count) \in Int
      BY <2>1, BatteryAssumption DEF Fields, FieldLen, Digits
    <3> QED
      BY <3>1 DEF DataLen, Fields
  <2> QED
    BY <2>3, <2>4 DEF FrameLen, MAX_PAYLOAD_SIZE
<1> QED
  BY <1>1, <1>2, <1>3, PoolSafe, Uptime, PTL DEF Spec
-----------------------------------------------------------------------------
(***************************************************************************)
(* The configuration page.  No power cut, flash error or boot leaves in it *)
(* anything but what another program wrote or a part of what write_config  *)
(* writes.                                                                 *)
(***************************************************************************)
Saved == Buffer(NodeDefaults)

\* What a page can hold: the page somebody else wrote, or a part of what
\* write_config writes.
PageInv == page = ForeignPage \/ \A f \in Field : page[f] \in {ERASED, Saved[f]}

\* While the node writes, what it has not reached is still erased.
WriteInv ==
  step = "write" =>
    /\ at \in 0..8
    /\ \A j \in 1..9 : j > at => page[Layout[j]] = ERASED
    /\ page # ForeignPage

BootInv ==
  /\ page \in [Field -> Nat]
  /\ step \in {"boot", "read", "erase", "write", "rad_init", "running"}
  /\ step \in {"boot", "read"} => source = "zero" /\ config = ZeroConfig
  /\ step \in {"erase", "write"} => source = "default" /\ config = NodeDefaults
  /\ step = "erase" => ~Signed(page)
  /\ source = "nvm" => config = LoadedConfig(page, ZeroConfig)

ConfigInv == PageInv /\ WriteInv /\ BootInv /\ NodeTuned
-----------------------------------------------------------------------------
\* The fields of the page are distinct, and Layout numbers all of them.
LEMMA LayoutFields ==
  /\ Len(Layout) = 9
  /\ \A i \in 1..9 : Layout[i] \in Field
  /\ \A f \in Field : \E i \in 1..9 : f = Layout[i]
  /\ \A i, j \in 1..9 : Layout[i] = Layout[j] => i = j
BY DEF Layout, Field

\* The pages and buffers of the program, field by field.
LEMMA PagesType ==
  /\ ErasedPage \in [Field -> Nat] /\ ForeignPage \in [Field -> Nat]
  /\ Saved \in [Field -> Nat]
  /\ Saved["sig0"] = 240 /\ Saved["sig1"] = 240
  /\ \A f \in Field : f \notin {"sig0", "sig1"} => Saved[f] = NodeDefaults[f]
  /\ \A f \in Field : Saved[f] # ERASED
  /\ ForeignPage["sig0"] = 240
  /\ ForeignPage["smac"] = 7 /\ Saved["smac"] = 1 /\ "smac" \in Field
  /\ "sig0" \in Field /\ "sig1" \in Field /\ "radiochan" \in Field
<1>1. Field = {"sig0", "sig1", "smac", "radiochan", "txpower", "capa",
               "securekey", "flag", "counter"}
  BY DEF Field, Layout
<1>3. /\ ForeignPage \in [Field -> Nat]
      /\ ForeignPage["sig0"] = 240 /\ ForeignPage["smac"] = 7
  BY <1>1, ConfigAssumption DEF ForeignPage, CAPA_TEMP
<1>4. /\ NodeDefaults["sig0"] = 240 /\ NodeDefaults["sig1"] = 15
      /\ NodeDefaults["smac"] = 1 /\ NodeDefaults["radiochan"] = 0
      /\ NodeDefaults["txpower"] = 18 /\ NodeDefaults["capa"] = 4
      /\ NodeDefaults["securekey"] = 0 /\ NodeDefaults["flag"] = 0
      /\ NodeDefaults["counter"] = 0
  BY <1>1 DEF NodeDefaults, Patched, default_config, ZeroConfig, ConfigField, NODE_ID,
              CAPA_TEMP
<1>5. ErasedPage \in [Field -> Nat]
  BY DEF ErasedPage, ERASED
<1>6. Saved = [f \in Field |-> IF f = "sig1" THEN NodeDefaults["sig0"] ELSE NodeDefaults[f]]
  BY DEF Saved, Buffer
<1>7. /\ Saved \in [Field -> Nat]
      /\ Saved["sig0"] = 240 /\ Saved["sig1"] = 240
      /\ \A f \in Field : f \notin {"sig0", "sig1"} => Saved[f] = NodeDefaults[f]
  BY <1>1, <1>4, <1>6
<1>8. \A f \in Field : Saved[f] # ERASED
  BY <1>1, <1>4, <1>7 DEF ERASED
<1> QED BY <1>1, <1>3, <1>4, <1>5, <1>7, <1>8

\* A page without a signature is not complete: its first byte is still erased.
LEMMA UnsignedIncomplete == PageInv /\ ~Signed(page) => ~Complete(page)
BY PagesType DEF PageInv, Signed, Complete, ERASED

LEMMA ConfigInitial == BootInit => ConfigInv
<1> SUFFICES ASSUME BootInit PROVE ConfigInv
  OBVIOUS
<1>1. PageInv
  BY DEF BootInit, PageInv, ErasedPage
<1>2. WriteInv /\ BootInv /\ NodeTuned
  BY PagesType DEF BootInit, WriteInv, BootInv, NodeTuned
<1> QED BY <1>1, <1>2 DEF ConfigInv

LEMMA ConfigPreserved == ConfigInv /\ [BootNext]_bootVars => ConfigInv'
<1> SUFFICES ASSUME ConfigInv, [BootNext]_bootVars PROVE ConfigInv'
  OBVIOUS
<1> USE DEF ConfigInv
<1>1. CASE TuneFirst
  BY <1>1 DEF TuneFirst, PageInv, WriteInv, BootInv, NodeTuned, Signed
<1>2. CASE ReadConfig
  BY <1>2 DEF ReadConfig, PageInv, WriteInv, BootInv, NodeTuned, Loaded, Signed
<1>3. CASE NoSignature
  <2>1. device = "node" => config' = NodeDefaults
    BY <1>3 DEF NoSignature, BootInv, NodeDefaults
  <2>2. source' = "default" /\ step' \in {"erase", "rad_init", "running"}
    BY <1>3 DEF NoSignature, Loaded
  <2>3. step' = "running" => device' # "node"
    BY <1>3 DEF NoSignature, Loaded
  <2>4. step' = "erase" => config' = NodeDefaults /\ ~Signed(page)
    BY <1>3, <2>1 DEF NoSignature, Loaded
  <2>5. page' = page
    BY <1>3 DEF NoSignature
  <2> QED BY <2>2, <2>3, <2>4, <2>5 DEF PageInv, WriteInv, BootInv, NodeTuned, Signed
<1>4. CASE ReadFails
  BY <1>4 DEF ReadFails, PageInv, WriteInv, BootInv, NodeTuned, Loaded, Signed
<1>5. CASE Erase
  <2>1. page' = ErasedPage /\ ErasedPage["sig0"] # 240
    BY <1>5, PagesType DEF Erase, ErasedPage, ERASED
  <2>2. PageInv'
    BY <2>1 DEF PageInv, ErasedPage
  <2>3. WriteInv'
    BY <1>5, <2>1, PagesType, LayoutFields DEF Erase, WriteInv, ErasedPage
  <2>4. BootInv' /\ NodeTuned'
    BY <1>5, <2>1, PagesType DEF Erase, BootInv, NodeTuned
  <2> QED BY <2>2, <2>3, <2>4
<1>6. CASE WriteField
  <2> DEFINE f == Layout[at + 1]
  <2>1. at \in 0..8 /\ at + 1 \in 1..9 /\ at' = at + 1
    BY <1>6 DEF WriteField, WriteInv
  <2>2. f \in Field
    BY <2>1, LayoutFields
  <2>3. page' = [page EXCEPT ![f] = Saved[f]]
    BY <1>6 DEF WriteField, BootInv, Saved
  <2>4. page # ForeignPage /\ \A g \in Field : page[g] \in {ERASED, Saved[g]}
    BY <1>6 DEF WriteField, WriteInv, PageInv
  <2>5. page' \in [Field -> Nat]
    <3>1. page \in [Field -> Nat] /\ Saved[f] \in Nat
      BY <2>2, PagesType DEF BootInv
    <3> HIDE DEF f
    <3> QED BY <2>3, <3>1
  <2>6. \A g \in Field : page'[g] \in {ERASED, Saved[g]}
    BY <2>2, <2>3, <2>4 DEF BootInv
  <2>7. ForeignPage["smac"] # ERASED /\ ForeignPage["smac"] # Saved["smac"]
    BY PagesType DEF ERASED
  <2>8. page' # ForeignPage
    BY <2>6, <2>7, PagesType
  <2>9. \A j \in 1..9 : j > at' => page'[Layout[j]] = ERASED
    <3> SUFFICES ASSUME NEW j \in 1..9, j > at + 1 PROVE page'[Layout[j]] = ERASED
      BY <2>1
    <3>1. page[Layout[j]] = ERASED
      BY <1>6, <2>1 DEF WriteField, WriteInv
    <3>2. Layout[j] \in Field /\ Layout[j] # f
      BY <2>1, LayoutFields
    <3> QED BY <2>3, <3>1, <3>2 DEF BootInv
  <2>10. WriteInv'
    <3>1. step' = "write" => at' \in 0..8
      BY <1>6, <2>1, LayoutFields DEF WriteField, Loaded
    <3> QED BY <2>8, <2>9, <3>1 DEF WriteInv
  <2>11. BootInv' /\ NodeTuned'
    <3>1. step' \in {"write", "rad_init", "running"} /\ source = "default" /\ source' = source
      BY <1>6 DEF WriteField, BootInv, Loaded
    <3>2. config' = config /\ config = NodeDefaults
      BY <1>6 DEF WriteField, BootInv
    <3>3. BootInv'
      BY <2>5, <3>1, <3>2 DEF BootInv
    <3>4. NodeTuned'
      BY <1>6 DEF WriteField, NodeTuned, Loaded
    <3> QED BY <3>3, <3>4
  <2>12. PageInv'
    BY <2>6 DEF PageInv
  <2> QED BY <2>10, <2>11, <2>12
<1>7. CASE WriteFails
  BY <1>7 DEF WriteFails, PageInv, WriteInv, BootInv, NodeTuned, Loaded, Signed
<1>8. CASE RadInit
  BY <1>8 DEF RadInit, PageInv, WriteInv, BootInv, NodeTuned, Signed
<1>9. CASE PowerCut
  BY <1>9 DEF PowerCut, PageInv, WriteInv, BootInv, NodeTuned, Signed
<1>10. CASE UNCHANGED bootVars
  BY <1>10 DEF bootVars, PageInv, WriteInv, BootInv, NodeTuned, Signed
<1> QED BY <1>1, <1>2, <1>3, <1>4, <1>5, <1>6, <1>7, <1>8, <1>9, <1>10 DEF BootNext

LEMMA ConfigInvariance == BootSpec => []ConfigInv
BY ConfigInitial, ConfigPreserved, PTL DEF BootSpec

-----------------------------------------------------------------------------
\* A page completely written by write_config is recognised at the next boot,
\* although write_config stores F0F0 and read_config accepts one byte of the
\* signature (utils.c:47, :74).  Address, channel, power, capabilities and the
\* low-uptime fields come back as they were saved; the key and the PAN never do,
\* whatever the page holds (utils.c:59).
THEOREM Loads == BootSpec => []RoundTrip
<1>1. ConfigInv => RoundTrip
  <2> SUFFICES ASSUME ConfigInv PROVE RoundTrip
    OBVIOUS
  <2>1. ASSUME source = "nvm", Complete(page), NEW f \in Restored
        PROVE  config[f] = Written[f]
    <3>1. f \in Field /\ f \in Field \ {"securekey"} /\ f \notin {"sig0", "sig1"}
      BY <2>1 DEF Restored
    <3>2. config[f] = page[f]
      BY <2>1, <3>1 DEF ConfigInv, BootInv, LoadedConfig, ConfigField
    <3>3. page # ForeignPage => page[f] = Saved[f]
      BY <2>1, <3>1 DEF ConfigInv, PageInv, Complete
    <3> QED BY <3>1, <3>2, <3>3, PagesType DEF Written
  <2>2. ASSUME source = "nvm", NEW f \in {"securekey", "span"}
        PROVE  config[f] = 0
    <3>1. f \in ConfigField /\ f \notin Field \ {"securekey"}
      BY <2>2 DEF ConfigField, Field, Layout
    <3> QED BY <2>2, <3>1 DEF ConfigInv, BootInv, LoadedConfig, ZeroConfig
  <2>3. Complete(page) => Signed(page)
    BY UnsignedIncomplete DEF ConfigInv
  <2> QED BY <2>1, <2>2, <2>3 DEF RoundTrip
<1> QED BY <1>1, ConfigInvariance, PTL

\* No boot, flash error or power cut takes a complete page away: it is erased
\* only for want of a signature (oflnode.c:368).
THEOREM PageKept == BootSpec => PageNeverLost
<1>1. ConfigInv /\ [BootNext]_bootVars => [Complete(page) => page' = page]_bootVars
  <2> SUFFICES ASSUME ConfigInv, BootNext, Complete(page) PROVE page' = page
    BY DEF bootVars
  <2>1. CASE Erase
    BY <2>1, UnsignedIncomplete DEF Erase, ConfigInv, BootInv
  <2>2. CASE WriteField
    <3>1. Layout[at + 1] \in Field /\ page[Layout[at + 1]] = ERASED
      BY <2>2, LayoutFields DEF WriteField, ConfigInv, WriteInv
    <3> QED BY <3>1 DEF Complete
  <2>3. CASE TuneFirst \/ ReadConfig \/ NoSignature \/ ReadFails \/ WriteFails
               \/ RadInit \/ PowerCut
    BY <2>3 DEF TuneFirst, ReadConfig, NoSignature, ReadFails, WriteFails, RadInit, PowerCut
  <2> QED BY <2>1, <2>2, <2>3 DEF BootNext
<1> QED BY <1>1, ConfigInvariance, PTL DEF BootSpec, PageNeverLost

\* A running node listens on the channel of its configuration (oflnode.c:298).
THEOREM NodeOnChannel == BootSpec => []NodeTuned
BY ConfigInvariance, PTL DEF ConfigInv
-----------------------------------------------------------------------------
\* What the interrupt and wait100ms keep: the wall clock's fields in range and
\* reading ticks, and a wait that has counted its interrupts.
Waited == Minus(tmr_cntr, oldc)

WaitInv ==
  doing = "wait" =>
    /\ delta >= 1
    /\ Waited <= delta
    /\ Waited = delta => phase = 0 /\ ~polled
    /\ \E start \in 0..Phases - 1 : elapsed + start = Waited * Phases + phase
-----------------------------------------------------------------------------
\* The unsigned difference of the counter grows by one with every interrupt,
\* across the wrap of the counter too.
LEMMA MinusInc ==
  ASSUME NEW a \in 0..CntMod - 1, NEW b \in 0..CntMod - 1,
         Minus(a, b) + 1 < CntMod
  PROVE  /\ Inc(a) \in 0..CntMod - 1
         /\ Minus(a, b) \in Nat
         /\ Minus(Inc(a), b) = Minus(a, b) + 1
BY ClockAssumption DEF Minus, Inc

LEMMA MinusSelf ==
  ASSUME NEW a \in 0..CntMod - 1
  PROVE  Minus(a, a) = 0
BY ClockAssumption DEF Minus

LEMMA IncRange ==
  ASSUME NEW a \in 0..CntMod - 1
  PROVE  Inc(a) \in 0..CntMod - 1
BY ClockAssumption DEF Inc

LEMMA Successor ==
  ASSUME NEW a \in Nat, NEW b \in Nat
  PROVE  a * b \in Nat /\ (a + 1) * b = a * b + b
OBVIOUS

LEMMA Monotone ==
  ASSUME NEW a \in Nat, NEW b \in Nat, NEW c \in Nat, a <= b
  PROVE  a * c \in Nat /\ b * c \in Nat /\ a * c <= b * c
<1>1. PICK k \in Nat : b = a + k
  <2>1. b - a \in Nat /\ b = a + (b - a)
    OBVIOUS
  <2> QED BY <2>1
<1>2. a * c \in Nat /\ k * c \in Nat /\ b * c = a * c + k * c
  BY <1>1
<1> QED BY <1>2

\* The bound on elapsed cuts no wait short.
LEMMA NotCut ==
  ASSUME NEW w \in Nat, w <= MaxDelta,
         elapsed \in Nat, phase \in 0..Phases - 1,
         NEW start \in Nat, elapsed + start = w * Phases + phase
  PROVE  Later(elapsed) = elapsed + 1
<1>1. (w + 1) * Phases <= (MaxDelta + 1) * Phases /\ (MaxDelta + 1) * Phases \in Nat
  BY Monotone, ClockAssumption
<1>2. (w + 1) * Phases = w * Phases + Phases /\ w * Phases \in Nat
  BY Successor, ClockAssumption
<1>3. elapsed < (MaxDelta + 1) * Phases
  BY <1>1, <1>2, ClockAssumption
<1> QED BY <1>3 DEF Later

LEMMA ClockInitInv == ClockInit => ClockTypes /\ WaitInv
BY ClockAssumption DEF ClockInit, ClockTypes, WaitInv

\* Every carry stays in range.
LEMMA CarryRanges ==
  ASSUME ClockTypes, CarriedClock
  PROVE  /\ clock_100ms' \in 0..9 /\ clock_s' \in 0..SPM - 1
         /\ clock_m' \in 0..MPH - 1
         /\ clock_h' \in 0..HPD - 1 /\ clock_d' \in 0..DAYS - 1
<1>1. clock_100ms' \in 0..9
  BY DEF ClockTypes, CarriedClock
<1>2. clock_s' \in 0..SPM - 1
  BY ClockAssumption DEF ClockTypes, CarriedClock
<1>3. clock_m' \in 0..MPH - 1
  BY ClockAssumption DEF ClockTypes, CarriedClock
<1>4. clock_h' \in 0..HPD - 1
  BY ClockAssumption DEF ClockTypes, CarriedClock
<1>5. clock_d' \in 0..DAYS - 1
  BY ClockAssumption DEF ClockTypes, CarriedClock
<1> QED BY <1>1, <1>2, <1>3, <1>4, <1>5

LEMMA TickInv == ClockTypes /\ WaitInv /\ tmr0_isr => (ClockTypes /\ WaitInv)'
<1> SUFFICES ASSUME ClockTypes, WaitInv, tmr0_isr PROVE (ClockTypes /\ WaitInv)'
  OBVIOUS
<1>1. tmr_cntr' = Inc(tmr_cntr) /\ tmr_cntr' \in 0..CntMod - 1
  BY IncRange DEF ClockTypes, tmr0_isr
<1>2. ClockTypes'
  <2>1. phase' \in 0..Phases - 1 /\ oldc' \in 0..CntMod - 1
    BY ClockAssumption DEF ClockTypes, tmr0_isr
  <2>2. ticks' \in Nat /\ elapsed' \in Nat
    BY DEF ClockTypes, tmr0_isr, Later
  <2>3. doing' \in {"run", "wait"} /\ delta' \in 0..MaxDelta
    BY DEF ClockTypes, tmr0_isr
  <2>4. polled' \in BOOLEAN
    BY DEF tmr0_isr
  <2>5. CarriedClock
    BY DEF tmr0_isr
  <2> QED BY <1>1, <2>1, <2>2, <2>3, <2>4, <2>5, CarryRanges DEF ClockTypes
<1>3. WaitInv'
  <2> SUFFICES ASSUME doing' = "wait" PROVE WaitInv'
    BY DEF WaitInv
  <2>1. doing = "wait" /\ polled /\ phase + 1 = Phases /\ phase' = 0 /\ ~polled'
        /\ elapsed' = Later(elapsed) /\ delta' = delta /\ oldc' = oldc
    BY DEF tmr0_isr
  <2>2. delta >= 1 /\ Waited < delta /\ delta \in Nat /\ delta + 1 < CntMod
    <3>1. Waited \in Nat
      BY ClockAssumption DEF ClockTypes, Waited, Minus
    <3> QED BY <2>1, <3>1, ClockAssumption DEF WaitInv, ClockTypes
  <2>3. Waited \in Nat /\ Waited' = Waited + 1
    <3>1. tmr_cntr \in 0..CntMod - 1 /\ oldc \in 0..CntMod - 1
      BY DEF ClockTypes
    <3>2. Waited \in Nat
      BY <3>1, ClockAssumption DEF Waited, Minus
    <3>3. Minus(tmr_cntr, oldc) + 1 < CntMod
      BY <2>2, <3>2, ClockAssumption DEF Waited
    <3>4. Minus(Inc(tmr_cntr), oldc) = Waited + 1
      BY <3>1, <3>3, MinusInc DEF Waited
    <3>5. Waited' = Minus(Inc(tmr_cntr), oldc)
      BY <1>1, <2>1 DEF Waited
    <3> QED BY <3>2, <3>4, <3>5
  <2>4. PICK start \in 0..Phases - 1 : elapsed + start = Waited * Phases + phase
    BY <2>1 DEF WaitInv
  <2>5. (Waited + 1) * Phases = Waited * Phases + Phases /\ Waited * Phases \in Nat
    BY <2>3, Successor, ClockAssumption
  <2>6. elapsed' + start = Waited' * Phases + phase'
    <3>1. Waited' * Phases = Waited * Phases + Phases
      BY <2>3, <2>5
    <3>2. elapsed' = elapsed + 1
      BY <2>1, <2>2, <2>3, <2>4, NotCut, ClockAssumption DEF ClockTypes
    <3> HIDE DEF Waited
    <3> QED BY <2>1, <2>4, <2>5, <3>1, <3>2, ClockAssumption DEF ClockTypes
  <2> QED BY <2>1, <2>2, <2>3, <2>6 DEF WaitInv
<1> QED BY <1>2, <1>3

LEMMA ClockStepInv == ClockTypes /\ WaitInv /\ [ClockNext]_clockVars => (ClockTypes /\ WaitInv)'
<1> SUFFICES ASSUME ClockTypes, WaitInv, [ClockNext]_clockVars PROVE (ClockTypes /\ WaitInv)'
  OBVIOUS
<1>1. CASE tmr0_isr
  BY <1>1, TickInv
<1>2. CASE Advance
  <2>1. ClockTypes'
    BY <1>2, ClockAssumption DEF Advance, ClockTypes, wall, Later
  <2>2. WaitInv'
    <3> SUFFICES ASSUME doing' = "wait" PROVE WaitInv'
      BY DEF WaitInv
    <3>1. doing = "wait" /\ polled /\ delta' = delta /\ Waited' = Waited
          /\ elapsed' = Later(elapsed) /\ phase' = phase + 1
      BY <1>2 DEF Advance, Waited
    <3>2. delta >= 1 /\ Waited <= delta /\ Waited # delta
      BY <3>1 DEF WaitInv
    <3>3. PICK start \in 0..Phases - 1 : elapsed + start = Waited * Phases + phase
      BY <3>1 DEF WaitInv
    <3>4. Waited * Phases \in Nat
      BY ClockAssumption, Successor DEF ClockTypes, Waited, Minus
    <3>5. elapsed' + start = Waited' * Phases + phase'
      <4>1. Waited \in Nat /\ Waited <= MaxDelta
        BY <3>1, ClockAssumption DEF ClockTypes, WaitInv, Waited, Minus
      <4>2. elapsed' = elapsed + 1
        BY <3>1, <3>3, <4>1, NotCut, ClockAssumption DEF ClockTypes
      <4> QED BY <3>1, <3>3, <3>4, <4>2, ClockAssumption DEF ClockTypes
    <3> QED BY <3>1, <3>2, <3>5 DEF WaitInv
  <2> QED BY <2>1, <2>2
<1>3. CASE Wait100ms
  <2>1. ClockTypes'
    BY <1>3 DEF Wait100ms, ClockTypes, wall
  <2>2. Waited' = 0
    BY <1>3, MinusSelf DEF Wait100ms, ClockTypes, Waited
  <2>3. delta' \in 1..MaxDelta /\ elapsed' = 0 /\ phase' = phase /\ phase' \in 0..Phases - 1
    BY <1>3 DEF Wait100ms, ClockTypes
  <2>4. elapsed' + phase' = Waited' * Phases + phase'
    BY <2>2, <2>3, ClockAssumption
  <2>5. Waited' <= delta' /\ Waited' # delta' /\ delta' >= 1
    BY <2>2, <2>3, ClockAssumption
  <2> QED BY <2>1, <2>3, <2>4, <2>5 DEF WaitInv
<1>4. CASE PollAgain
  <2>1. ClockTypes'
    BY <1>4 DEF PollAgain, ClockTypes, wall
  <2>2. WaitInv'
    <3>1. Waited' = Waited /\ Waited # delta /\ delta \in Nat
      BY <1>4, ClockAssumption DEF PollAgain, Enough, Waited, ClockTypes, Minus
    <3> QED BY <1>4, <3>1 DEF PollAgain, WaitInv
  <2> QED BY <2>1, <2>2
<1>5. CASE Return
  BY <1>5, ClockAssumption DEF Return, ClockTypes, WaitInv, wall
<1>6. CASE UNCHANGED clockVars
  <2>1. ClockTypes'
    BY <1>6 DEF clockVars, wall, ClockTypes
  <2>2. WaitInv'
    BY <1>6 DEF clockVars, WaitInv, Waited
  <2> QED BY <2>1, <2>2
<1> QED BY <1>1, <1>2, <1>3, <1>4, <1>5, <1>6 DEF ClockNext

LEMMA ClockInvariance == ClockSpec => [](ClockTypes /\ WaitInv)
BY ClockInitInv, ClockStepInv, PTL DEF ClockSpec
-----------------------------------------------------------------------------
\* oflnode.c:170: wait100ms works when tmr_cntr overflows.  It returns in the
\* tick of the delta-th interrupt, whatever the counter's value at the call.
THEOREM WaitIsExact == ClockSpec => []WaitInTicks
<1>1. ClockTypes /\ WaitInv => WaitInTicks
  <2> SUFFICES ASSUME ClockTypes, WaitInv, doing = "wait", Enough
               PROVE  elapsed + Phases > delta * Phases /\ elapsed <= delta * Phases
    BY DEF WaitInTicks
  <2>1. Waited = delta /\ delta \in Nat
    BY ClockAssumption DEF WaitInv, Enough, Waited, ClockTypes, Minus
  <2>2. phase = 0
    BY <2>1 DEF WaitInv
  <2>3. PICK start \in 0..Phases - 1 : elapsed + start = delta * Phases + phase
    BY <2>1 DEF WaitInv
  <2>4. delta * Phases \in Nat
    BY <2>1, Successor, ClockAssumption
  <2> QED BY <2>2, <2>3, <2>4, ClockAssumption DEF ClockTypes
<1> QED BY <1>1, ClockInvariance, PTL

\* Every field of the wall clock stays in its range.
THEOREM ClockInRange == ClockSpec => []ClockTypes
BY ClockInvariance, PTL
-----------------------------------------------------------------------------
(***************************************************************************)
(* The wall clock reads the number of ticks.  Seconds, minutes, hours and  *)
(* days are counted up to T1 to T4; a carry hands one unit to the next.    *)
(***************************************************************************)
T4 == clock_d
T3 == HPD * T4 + clock_h
T2 == MPH * T3 + clock_m
T1 == SPM * T2 + clock_s

\* A counter of modulus n below units u: one more is one more.
LEMMA Carry ==
  ASSUME NEW n \in Nat \ {0}, NEW u \in Nat, NEW x \in 0..n - 1
  PROVE  /\ n * u + x \in Nat
         /\ x + 1 = n => n * (u + 1) + 0 = n * u + x + 1
         /\ x + 1 # n => n * u + (x + 1) = n * u + x + 1
<1>1. n * u \in Nat /\ n * (u + 1) = n * u + n
  BY Successor
<1> QED BY <1>1

\* The largest reading is one less than the period.
LEMMA Largest ==
  ASSUME ClockTypes,
         clock_100ms = 9, clock_s + 1 = SPM, clock_m + 1 = MPH,
         clock_h + 1 = HPD, clock_d + 1 = DAYS
  PROVE  Reading + 1 = Period
<1>1. \A n, u, x \in Nat : x + 1 = n => n * u + x + 1 = n * (u + 1)
  BY Successor
<1>2. T4 \in Nat /\ T4 + 1 = DAYS
  BY DEF ClockTypes, T4
<1>3. T3 \in Nat /\ T3 + 1 = HPD * DAYS
  <2>1. HPD * T4 \in Nat /\ HPD * (T4 + 1) = HPD * T4 + HPD
    BY <1>2, Successor, ClockAssumption
  <2> QED BY <1>2, <2>1, ClockAssumption DEF T3, ClockTypes
<1>4. T2 \in Nat /\ T2 + 1 = MPH * (HPD * DAYS)
  <2>1. MPH * T3 \in Nat /\ MPH * (T3 + 1) = MPH * T3 + MPH
    BY <1>3, Successor, ClockAssumption
  <2> QED BY <1>3, <2>1, ClockAssumption DEF T2, ClockTypes
<1>5. T1 \in Nat /\ T1 + 1 = SPM * (MPH * (HPD * DAYS))
  <2>1. SPM * T2 \in Nat /\ SPM * (T2 + 1) = SPM * T2 + SPM
    BY <1>4, Successor, ClockAssumption
  <2> QED BY <1>4, <2>1, ClockAssumption DEF T1, ClockTypes
<1>6. Reading = 10 * T1 + clock_100ms
  BY DEF Reading, T1, T2, T3, T4
<1>7. Reading + 1 = 10 * (SPM * (MPH * (HPD * DAYS)))
  BY <1>5, <1>6
<1>8. Period = 10 * (SPM * (MPH * (HPD * DAYS)))
  BY ClockAssumption DEF Period
<1> QED BY <1>7, <1>8

LEMMA Below ==
  ASSUME NEW n \in Nat, NEW u \in Nat, NEW x \in Nat, NEW w \in Nat,
         x < n, u < w
  PROVE  n * u + x \in Nat /\ n * w \in Nat /\ n * u + x < n * w
<1>1. PICK k \in Nat : w = u + 1 + k
  <2>1. w - u - 1 \in Nat /\ w = u + 1 + (w - u - 1)
    OBVIOUS
  <2> QED BY <2>1
<1>2. n * u \in Nat /\ n * k \in Nat /\ n * w = n * u + n + n * k
  BY <1>1
<1> QED BY <1>2

\* A clock in range never reads as much as the period.
LEMMA ReadingBelow == ClockTypes => Reading \in Nat /\ Reading < Period
<1> SUFFICES ASSUME ClockTypes PROVE Reading \in Nat /\ Reading < Period
  OBVIOUS
<1>1. T4 \in Nat /\ T4 < DAYS /\ DAYS \in Nat
  BY ClockAssumption DEF ClockTypes, T4
<1>2. T3 \in Nat /\ HPD * DAYS \in Nat /\ T3 < HPD * DAYS
  BY <1>1, Below, ClockAssumption DEF ClockTypes, T3
<1>3. T2 \in Nat /\ MPH * (HPD * DAYS) \in Nat /\ T2 < MPH * (HPD * DAYS)
  BY <1>2, Below, ClockAssumption DEF ClockTypes, T2
<1>4. T1 \in Nat /\ SPM * (MPH * (HPD * DAYS)) \in Nat
      /\ T1 < SPM * (MPH * (HPD * DAYS))
  BY <1>3, Below, ClockAssumption DEF ClockTypes, T1
<1>5. Reading = 10 * T1 + clock_100ms /\ clock_100ms \in 0..9
  BY DEF Reading, T1, T2, T3, T4, ClockTypes
<1>6. Period = 10 * (SPM * (MPH * (HPD * DAYS)))
  BY ClockAssumption DEF Period
<1> QED BY <1>4, <1>5, <1>6

LEMMA NextReadingBelow == ClockTypes' => (Reading \in Nat /\ Reading < Period)'
BY ReadingBelow, PTL

\* tmr0_isr adds one to the reading, or takes the largest one to zero.
LEMMA CarryReading ==
  ASSUME ClockTypes, ClockTypes', CarriedClock
  PROVE  Reading' = IF Reading + 1 = Period THEN 0 ELSE Reading + 1
<1> DEFINE s == clock_100ms = 9
           m == s /\ clock_s + 1 = SPM
           h == m /\ clock_m + 1 = MPH
           d == h /\ clock_h + 1 = HPD
<1>0. Reading < Period /\ Reading' < Period /\ Reading \in Nat
  <2>1. Reading' < Period
    <3>1. (Reading \in Nat /\ Reading < Period)'
      BY NextReadingBelow
    <3>2. Period' = Period
      BY DEF Period
    <3> QED BY <3>1, <3>2
  <2> QED BY <2>1, ReadingBelow
<1>1. /\ Reading = 10 * T1 + clock_100ms
      /\ Reading' = 10 * T1' + clock_100ms'
  BY DEF Reading, T1, T2, T3, T4
<1>2. /\ T4 \in Nat /\ T3 \in Nat /\ T2 \in Nat /\ T1 \in Nat
  <2>1. T4 \in Nat
    BY DEF ClockTypes, T4
  <2>2. T3 \in Nat
    BY <2>1, Carry, ClockAssumption DEF ClockTypes, T3
  <2>3. T2 \in Nat
    BY <2>2, Carry, ClockAssumption DEF ClockTypes, T2
  <2> QED BY <2>1, <2>2, <2>3, Carry, ClockAssumption DEF ClockTypes, T1
<1>3. CASE d /\ clock_d + 1 = DAYS
  <2>1. Reading + 1 = Period
    BY <1>3, Largest
  <2>2. clock_100ms' = 0 /\ clock_s' = 0 /\ clock_m' = 0 /\ clock_h' = 0 /\ clock_d' = 0
    BY <1>3 DEF CarriedClock, ClockTypes
  <2>3. Reading' = 0
    BY <2>2, ClockAssumption DEF Reading
  <2> QED BY <2>1, <2>3
<1>4. CASE ~(d /\ clock_d + 1 = DAYS)
  <2>1. d => T4' = T4 + 1
    BY <1>4 DEF CarriedClock, ClockTypes, T4
  <2>2. ~d => T4' = T4
    BY DEF CarriedClock, ClockTypes, T4
  <2>3. h => T3' = T3 + 1
    <3>1. CASE d
      <4>1. clock_h' = 0
        BY <3>1 DEF CarriedClock, ClockTypes
      <4> QED BY <1>2, <2>1, <3>1, <4>1, Carry, ClockAssumption DEF T3, ClockTypes
    <3>2. CASE h /\ ~d
      <4>1. clock_h' = clock_h + 1 /\ clock_h + 1 # HPD
        BY <3>2 DEF CarriedClock, ClockTypes
      <4> QED BY <1>2, <2>2, <3>2, <4>1, Carry, ClockAssumption DEF T3, ClockTypes
    <3> QED BY <3>1, <3>2
  <2>4. ~h => T3' = T3
    <3> SUFFICES ASSUME ~h PROVE T3' = T3
      OBVIOUS
    <3>1. clock_h' = clock_h
      BY DEF CarriedClock, ClockTypes
    <3> QED BY <2>2, <3>1 DEF T3
  <2>5. m => T2' = T2 + 1
    <3>1. CASE h
      <4>1. clock_m' = 0
        BY <3>1 DEF CarriedClock, ClockTypes
      <4> QED BY <1>2, <2>3, <3>1, <4>1, Carry, ClockAssumption DEF T2, ClockTypes
    <3>2. CASE m /\ ~h
      <4>1. clock_m' = clock_m + 1 /\ clock_m + 1 # MPH
        BY <3>2 DEF CarriedClock, ClockTypes
      <4> QED BY <1>2, <2>4, <3>2, <4>1, Carry, ClockAssumption DEF T2, ClockTypes
    <3> QED BY <3>1, <3>2
  <2>6. ~m => T2' = T2
    <3> SUFFICES ASSUME ~m PROVE T2' = T2
      OBVIOUS
    <3>1. clock_m' = clock_m
      BY DEF CarriedClock, ClockTypes
    <3> QED BY <2>4, <3>1 DEF T2
  <2>7. s => T1' = T1 + 1
    <3>1. CASE m
      <4>1. clock_s' = 0
        BY <3>1 DEF CarriedClock, ClockTypes
      <4> QED BY <1>2, <2>5, <3>1, <4>1, Carry, ClockAssumption DEF T1, ClockTypes
    <3>2. CASE s /\ ~m
      <4>1. clock_s' = clock_s + 1 /\ clock_s + 1 # SPM
        BY <3>2 DEF CarriedClock, ClockTypes
      <4> QED BY <1>2, <2>6, <3>2, <4>1, Carry, ClockAssumption DEF T1, ClockTypes
    <3> QED BY <3>1, <3>2
  <2>8. ~s => T1' = T1 /\ clock_100ms' = clock_100ms + 1
    <3> SUFFICES ASSUME ~s PROVE T1' = T1 /\ clock_100ms' = clock_100ms + 1
      OBVIOUS
    <3>1. clock_s' = clock_s /\ clock_100ms' = clock_100ms + 1
      BY DEF CarriedClock, ClockTypes
    <3> QED BY <2>6, <3>1 DEF T1
  <2>9. s => clock_100ms' = 0
    BY DEF CarriedClock, ClockTypes
  <2>10. Reading' = Reading + 1
    BY <1>1, <1>2, <2>7, <2>8, <2>9 DEF ClockTypes
  <2> QED BY <1>0, <2>10
<1> QED BY <1>3, <1>4

\* The wall clock of every firmware reads the ticks since the boot, through all
\* of its carries.
THEOREM ClockReadsTicks == ClockSpec => []ClockExact
<1>1. ClockInit => ClockExact
  BY ClockAssumption DEF ClockInit, ClockExact, Reading
<1>2. ClockTypes /\ ClockTypes' /\ ClockExact /\ [ClockNext]_clockVars => ClockExact'
  <2> SUFFICES ASSUME ClockTypes, ClockTypes', ClockExact, [ClockNext]_clockVars PROVE ClockExact'
    OBVIOUS
  <2>1. CASE tmr0_isr
    BY <2>1, CarryReading DEF tmr0_isr, ClockExact
  <2>2. CASE UNCHANGED wall
    BY <2>2 DEF wall, ClockExact, Reading
  <2>3. ~tmr0_isr => UNCHANGED wall
    BY DEF ClockNext, clockVars, Advance, Wait100ms, PollAgain, Return
  <2> QED BY <2>1, <2>2, <2>3
<1> QED BY <1>1, <1>2, ClockInRange, PTL DEF ClockSpec
=============================================================================
