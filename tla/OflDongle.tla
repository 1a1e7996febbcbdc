----------------------------- MODULE OflDongle -----------------------------
(***************************************************************************)
(* The dongle firmware (ofldongle/ofldongle.c): frames heard by the radio, *)
(* commands read from the serial port, everything printed to that port.    *)
(* printf is not atomic: what one iteration of main() prints leaves the    *)
(* dongle token by token, and the key interrupts print in between.         *)
(***************************************************************************)
EXTENDS SerialLink

CONSTANTS
  MaxFrames,    \* bound: frames that reach the antenna
  NumPackets,   \* packets in the radio library's pool
  CmdMax        \* tokens that fit cmd_data, CMD_MAXLEN characters in the code

ASSUME DongleBounds ==
  MaxFrames \in Nat /\ NumPackets \in Nat /\ CmdMax \in Nat

VARIABLES
  heard,          \* history: frames that reached the dongle, numbered from 1
  rxq,            \* packets received by the radio and not yet read by main()
  tx,             \* packets queued for transmission
  pk,             \* main's paquet: frame its header and its data come from
  monitor_mode,   \* 0, DUMP_HEX or DUMP_HUMAN
  cur_chan,       \* 0: the channel of the nodes, 1: another one
  cmd,            \* cmd_data
  out             \* printed and not yet sent

dongle == <<heard, rxq, tx, pk, monitor_mode, cur_chan, cmd, out>>

Frames == [id : 1..MaxFrames, kind : {"sensor", "short"}]
-----------------------------------------------------------------------------
(***************************************************************************)
(* packet2paquet: the data is cleared first; a packet shorter than the     *)
(* headers then leaves the rest of the structure as it was.                *)
(***************************************************************************)
Packet2PaquetLateClear(f, old) ==
  IF f.kind = "short" THEN old ELSE [hdr |-> f.id, data |-> f.id]
Packet2PaquetDataFirst(f, old) ==
  [hdr |-> IF f.kind = "short" THEN old.hdr ELSE f.id, data |-> f.id]
packet2paquet(f, old) ==
  IF f.kind = "short" THEN [hdr |-> old.hdr, data |-> 0]
  ELSE [hdr |-> f.id, data |-> f.id]

DumpNoNewline(p) ==
  << <<"rx", p.hdr>>, <<"hdr", p.hdr>>,
     <<"fa", p.data>>, <<"fo", p.data>>, <<"fb", p.data>> >>
dump_human(p) ==
  << <<"rx", p.hdr>>, <<"hdr", p.hdr>> >>
    \o (IF p.data = 0 THEN <<>>
        ELSE << <<"fa", p.data>>, <<"fo", p.data>>, <<"fb", p.data>> >>)
    \o <<EOL>>

\* "RX: len=0x.. lqi=..": no separator that oflbridge knows, then "~ .." lines.
dump_hex(p) == << <<"rx", p.hdr>>, Tok("msg"), EOL, Tok("msg"), EOL>>

Dump(p) ==
  CASE monitor_mode = "human" -> dump_human(p)
    [] monitor_mode = "hex"   -> dump_hex(p)
    [] monitor_mode = "off"   -> <<>>

(***************************************************************************)
(* process_cmd, in the order of its tests.  tx_packet of ":send" needs a   *)
(* free packet.                                                            *)
(***************************************************************************)
Has(c, t) == Contains(c, t)
HasHuman(c) == \E i \in 1..Len(c) - 1 : c[i] = "dh1" /\ c[i + 1] = "dh2"
Reply(t) == <<Tok(t), EOL>>
FreePackets == NumPackets - Len(rxq) - tx

Effect(mode, chan, sent, print) ==
  [mode |-> mode, chan |-> chan, sent |-> sent, print |-> print]
NoEffect(print) == Effect(monitor_mode, cur_chan, 0, print)

process_cmd(c, free) ==
  IF monitor_mode # "off" /\ c = <<>> THEN Effect("off", cur_chan, 0, Reply("msg"))
  ELSE IF c # <<>> /\ Head(c) = "q" THEN NoEffect(Reply("msg"))
  ELSE IF Has(c, "hex") THEN Effect("hex", cur_chan, 0, Reply("msg"))
  ELSE IF HasHuman(c)
    THEN Effect("human", cur_chan, 0, <<Tok("ok1"), Tok("ok2"), EOL>>)
  ELSE IF Has(c, "chan") THEN Effect(monitor_mode, 1, 0, <<Tok("msg")>>)
  ELSE IF Has(c, "send") /\ free > 0
    THEN Effect(monitor_mode, cur_chan, 1,
                Reply("msg") \o dump_hex([hdr |-> 0, data |-> 0]))
  ELSE NoEffect(Reply("msg"))

\* The characters of the serial port, one at a time: a full buffer drops the
\* character and the command, the end of a line included.
SerialStep(c, free) ==
  IF Len(cmd) = CmdMax THEN [cmd |-> <<>>, effect |-> NoEffect(Reply("msg"))]
  ELSE IF c = "nl"
    THEN LET e == process_cmd(cmd, free)
         IN  [cmd |-> <<>>, effect |-> [e EXCEPT !.print = <<EOL>> \o @]]
  ELSE [cmd |-> Append(cmd, c), effect |-> NoEffect(<<Tok("echo")>>)]
-----------------------------------------------------------------------------
DongleInit ==
  /\ heard = 0 /\ rxq = <<>> /\ tx = 0
  /\ pk = [hdr |-> 0, data |-> 0]
  /\ monitor_mode = "off" /\ cur_chan = 0
  /\ cmd = <<>>
  /\ out = Reply("msg")

\* One iteration of main()'s loop: a packet if there is one, then a character
\* if there is one.
Iterate ==
  /\ out = <<>>
  /\ rxq # <<>> \/ toDongle # <<>>
  /\ LET got  == rxq # <<>>
         p    == IF got THEN packet2paquet(Head(rxq), pk) ELSE pk
         free == FreePackets + IF got THEN 1 ELSE 0
         step == IF toDongle = <<>>
                   THEN [cmd |-> cmd, effect |-> NoEffect(<<>>)]
                   ELSE SerialStep(Head(toDongle), free)
     IN  /\ pk' = p
         /\ rxq' = IF got THEN Tail(rxq) ELSE rxq
         /\ toDongle' = IF toDongle = <<>> THEN <<>> ELSE Tail(toDongle)
         /\ cmd' = step.cmd
         /\ monitor_mode' = step.effect.mode
         /\ cur_chan' = step.effect.chan
         /\ tx' = tx + step.effect.sent
         /\ out' = (IF got THEN Dump(p) ELSE <<>>) \o step.effect.print
  /\ UNCHANGED <<heard, toHost, opened, upsets>>

UartSend ==
  /\ out # <<>>
  /\ Len(toHost) < LinkMax
  /\ toHost' = Sent(<<Head(out)>>)
  /\ out' = Tail(out)
  /\ UNCHANGED <<heard, rxq, tx, pk, monitor_mode, cur_chan, cmd,
                 toDongle, opened, upsets>>

\* kbi4_isr and kbi7_isr print a line of their own wherever main() is.
KeyInterrupt ==
  /\ Upset("key")
  /\ Len(toHost) + 1 < LinkMax
  /\ toHost' = Sent(Reply("msg"))
  /\ UNCHANGED <<dongle, toDongle, opened>>

RxWithoutPacket ==
  /\ heard < MaxFrames
  /\ cur_chan = 0
  /\ heard' = heard + 1
  /\ rxq' = Append(rxq, [id |-> heard + 1, kind |-> "sensor"])
  /\ UNCHANGED <<tx, pk, monitor_mode, cur_chan, cmd, out, link, upsets>>

\* The radio library puts a frame of the current channel in a free packet.
MacaRx ==
  /\ heard < MaxFrames
  /\ cur_chan = 0
  /\ FreePackets > 0
  /\ heard' = heard + 1
  /\ \E k \in {"sensor", "short"} :
        rxq' = Append(rxq, [id |-> heard + 1, kind |-> k])
  /\ UNCHANGED <<tx, pk, monitor_mode, cur_chan, cmd, out, link, upsets>>

MacaTxDone ==
  /\ tx > 0
  /\ tx' = tx - 1
  /\ UNCHANGED <<heard, rxq, pk, monitor_mode, cur_chan, cmd, out, link, upsets>>

\* Everything the dongle holds is lost, and what it was printing with it.
DongleReset ==
  /\ Upset("reset")
  /\ rxq' = <<>> /\ tx' = 0
  /\ pk' = [hdr |-> 0, data |-> 0]
  /\ monitor_mode' = "off" /\ cur_chan' = 0
  /\ cmd' = <<>> /\ out' = Reply("msg")
  /\ toDongle' = <<>>
  /\ UNCHANGED <<heard, toHost, opened>>

DongleNext ==
  Iterate \/ UartSend \/ KeyInterrupt \/ MacaRx \/ MacaTxDone \/ DongleReset

DongleTypeOK ==
  /\ heard \in 0..MaxFrames
  /\ rxq \in Seq(Frames) /\ tx \in 0..NumPackets
  /\ Len(rxq) + tx <= NumPackets
  /\ pk \in [hdr : 0..MaxFrames, data : 0..MaxFrames]
  /\ monitor_mode \in {"off", "hex", "human"} /\ cur_chan \in 0..1
  /\ cmd \in Seq(TypedTokens \ {"nl"}) /\ Len(cmd) <= CmdMax
  /\ out \in Seq(HostTokens(MaxFrames))
=============================================================================
