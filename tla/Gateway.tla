------------------------------ MODULE Gateway ------------------------------
(***************************************************************************)
(* The gateway: the dongle and oflbridge on the two ends of the serial     *)
(* link, and what they are for: the values of the frames the dongle hears  *)
(* reach the database (Relay).                                             *)
(***************************************************************************)
EXTENDS OflDongle, SerialDevice

vars == <<link, upsets, dongle, bridge>>

Init == LinkInit /\ DongleInit /\ BridgeInit

Next ==
  \/ DongleNext /\ UNCHANGED bridge
  \/ BridgeNext /\ UNCHANGED dongle

Spec == Init /\ [][Next]_vars

(***************************************************************************)
(* Fairness: both processors run; a write to an open port succeeds in the  *)
(* end.                                                                    *)
(***************************************************************************)
Fairness ==
  /\ WF_vars(Iterate /\ UNCHANGED bridge)
  /\ WF_vars(UartSend /\ UNCHANGED bridge)
  /\ WF_vars(Open /\ UNCHANGED dongle)
  /\ SF_vars(WriteCommand /\ UNCHANGED dongle)
  /\ WF_vars(AwaitOK /\ UNCHANGED dongle)
  /\ WF_vars(Listen /\ UNCHANGED dongle)
  /\ WF_vars(Connect /\ UNCHANGED dongle)
  /\ WF_vars(insertPacket /\ UNCHANGED dongle)

FairSpec == Spec /\ Fairness
-----------------------------------------------------------------------------
\* Types of the composition.
TypeOK ==
  /\ DongleTypeOK /\ BridgeTypeOK
  /\ toDongle \in Seq(TypedTokens)
  /\ toHost \in Seq(HostTokens(MaxFrames)) /\ Len(toHost) <= LinkMax
  /\ opened = (state # 0)
  /\ upsets \in [Upsets -> 0..MaxUpsets]

\* A value is posted under the node that sent it: the fields of a packet come
\* from the frame its header comes from, however prints, key interrupts,
\* resets, restarts and cut lines fall (dump_human, Packet::initialize).
RightSource ==
  \A i \in DOMAIN signals :
    \A j \in DOMAIN signals[i].msg :
      IsField(signals[i].msg[j]) => signals[i].msg[j][2] = signals[i].src

\* The gateway implements Relay: no value is posted that was not heard, none
\* twice, none out of order (packet2paquet clears the data of short frames,
\* one thread reads the port, one queue leads to insertPacket).
R == INSTANCE Relay WITH heard <- 2 * heard
Relays == R!Spec

\* serialdevicethread.cpp:85-104: the bridge gets its "OK" and listens.
ReachesListening == <>[](state = 3)

\* It does, restarted or not, unless one of the other upsets falls between its
\* opening the port and the dongle's answer: it then waits for an "OK" that
\* nothing will make the dongle send again.
OnlyRestarts == \A k \in Upsets \ {"restart"} : upsets[k] = 0
ListensAfterRestarts == []OnlyRestarts => ReachesListening

\* README.md:23-24: with the bridge listening, the dongle in the mode it asked
\* for and no upset (no read that a line straddles, in particular), both values of
\* the kinds the bridge knows are posted of every sensor frame the dongle hears,
\* the one behind a field it does not know included.  That field is posted by
\* nothing: what the README says of "sensor's values" is not so of pressure,
\* humidity, light and power (packetprocessor.cpp:61).
Undisturbed == \A k \in Upsets : upsets[k] = 0
InStep == state = 3 /\ connected /\ monitor_mode = "human"
Pending(k) == \E i \in DOMAIN rxq : rxq[i] = [id |-> k, kind |-> "sensor"]
FramesRelayed ==
  []Undisturbed =>
    \A k \in 1..MaxFrames :
      (InStep /\ Pending(k)) ~> ({2 * k - 1, 2 * k} \subseteq Range(posted))
=============================================================================
