---------------------------- MODULE SerialDevice ----------------------------
(***************************************************************************)
(* oflbridge: the thread that owns the serial port (serialdevicethread.cpp *)
(* over serialib.cpp), the main thread that connects it to the packet      *)
(* processor (main.cpp, Qt's queued signals external) and the processor    *)
(* that posts one value per field (packet.cpp, packetprocessor.cpp).       *)
(***************************************************************************)
EXTENDS SerialLink

VARIABLES
  state,        \* of the thread: 0 open, 1 send command, 2 wait for OK, 3 listen
  connected,    \* main() has connected broadcastPacket to insertPacket
  signals,      \* packets broadcast and not yet handled by the main thread
  posted        \* history: values posted, of frame k 2k-1 and 2k

bridge == <<state, connected, signals, posted>>

\* ReadString up to '\n', when the end of a line has arrived.
LineEnd == SelectInSeq(toHost, LAMBDA t : t = EOL)
Line == SubSeq(toHost, 1, LineEnd)
AfterLine == SubSeq(toHost, LineEnd + 1, Len(toHost))

SaysOK(l) == \E i \in 1..Len(l) - 1 : l[i] = Tok("ok1") /\ l[i + 1] = Tok("ok2")
StartsRX(l) == l[1][1] = "rx"

\* Packet::initialize: the header's separators make src and msg of the line,
\* without them both stay empty.  initialize's result is ignored.
initialize(l) ==
  IF Len(l) > 1 /\ l[2][1] = "hdr"
    THEN [src |-> l[2][2], msg |-> SubSeq(l, 3, Len(l) - 1)]
    ELSE [src |-> 0, msg |-> <<>>]

\* insertPacket walks msg and stops at each field that its expression matches:
\* seven kinds, the others are passed over.
IsField(t) == t[1] \in {"fa", "fb"}
ValueOf(t) == IF t[1] = "fa" THEN 2 * t[2] - 1 ELSE 2 * t[2]
ValuesIn(m) ==
  LET walk[pos \in 0..Len(m)] ==
        IF pos = 0 THEN <<>>
        ELSE IF IsField(m[pos]) THEN Append(walk[pos - 1], ValueOf(m[pos]))
        ELSE walk[pos - 1]
  IN  walk[Len(m)]

-----------------------------------------------------------------------------
BridgeInit ==
  /\ state = 0
  /\ connected = FALSE
  /\ signals = <<>>
  /\ posted = <<>>

Open ==
  /\ state = 0
  /\ state' = 1
  /\ opened' = TRUE
  /\ UNCHANGED <<toDongle, toHost, connected, signals, posted, upsets>>

WriteUnterminated ==
  /\ state = 1
  /\ state' = 2
  /\ toDongle' = toDongle \o <<"dh1", "dh2">>
  /\ UNCHANGED <<toHost, opened, connected, signals, posted, upsets>>
WriteCommand ==
  /\ state = 1
  /\ state' = 2
  /\ toDongle' = toDongle \o <<"dh1", "dh2", "nl">>
  /\ UNCHANGED <<toHost, opened, connected, signals, posted, upsets>>

\* The kernel drops what a closed port had received.  What a write cut short has
\* sent is what Type can leave there while state is 0.
WriteFails ==
  /\ state = 1
  /\ state' = 0
  /\ opened' = FALSE /\ toHost' = <<>>
  /\ UNCHANGED <<toDongle, connected, signals, posted, upsets>>

AwaitOK ==
  /\ state = 2
  /\ LineEnd > 0
  /\ state' = IF SaysOK(Line) THEN 3 ELSE 2
  /\ toHost' = AfterLine
  /\ UNCHANGED <<toDongle, opened, connected, signals, posted, upsets>>

\* A signal nobody is connected to yet is lost.
Listen ==
  /\ state = 3
  /\ LineEnd > 0
  /\ toHost' = AfterLine
  /\ signals' = IF StartsRX(Line) /\ connected
                  THEN Append(signals, initialize(Line)) ELSE signals
  /\ UNCHANGED <<toDongle, opened, state, connected, posted, upsets>>

\* ReadString's time starts at the call, not at the first character: what it
\* has read of an unfinished line is thrown away.
ReadTimesOut ==
  /\ state \in {2, 3}
  /\ toHost # <<>> /\ LineEnd = 0
  /\ Upset("cut")
  /\ toHost' = <<>>
  /\ UNCHANGED <<toDongle, opened, bridge>>

\* ReadString gives up after 128 characters and what it has read is thrown away;
\* the rest of the line is read as a line.  A line of dump_human has at most 128,
\* its '\n' included: 25 before the data, 100 of data in a frame that fits the
\* radio's buffer (OflNode's FrameFits), 3 behind.  One into which a key interrupt
\* prints, or that follows the echo of a command, may have more.
Mixed(l) ==
  \E i, j \in DOMAIN l :
    l[i][1] \in FrameTokens /\ l[j][1] \notin FrameTokens \cup {"eol"}
LineTooLong ==
  /\ state \in {2, 3}
  /\ LET arrived == IF LineEnd = 0 THEN Len(toHost) ELSE LineEnd - 1
     IN  /\ Mixed(SubSeq(toHost, 1, arrived))
         /\ \E n \in 1..arrived : toHost' = SubSeq(toHost, n + 1, Len(toHost))
  /\ UNCHANGED <<toDongle, opened, bridge, upsets>>

\* main(): the thread is started first and connected afterwards.
Connect ==
  /\ ~connected
  /\ connected' = TRUE
  /\ UNCHANGED <<link, state, signals, posted, upsets>>

insertPacket ==
  /\ signals # <<>>
  /\ signals' = Tail(signals)
  /\ posted' = posted \o ValuesIn(Head(signals).msg)
  /\ UNCHANGED <<link, state, connected, upsets>>

Restart ==
  /\ Upset("restart")
  /\ state' = 0 /\ connected' = FALSE /\ signals' = <<>>
  /\ opened' = FALSE /\ toHost' = <<>>
  /\ UNCHANGED <<toDongle, posted>>

\* A terminal used on the port while the daemon does not run: a word, with or
\* without the end of the line.
Type ==
  /\ state = 0
  /\ Upset("typed")
  /\ \E t \in TypedTokens : toDongle' \in {Append(toDongle, t), toDongle \o <<t, "nl">>}
  /\ UNCHANGED <<toHost, opened, bridge>>

BridgeNext ==
  \/ Open \/ WriteCommand \/ WriteFails \/ AwaitOK \/ Listen \/ ReadTimesOut
  \/ LineTooLong \/ Connect \/ insertPacket \/ Restart \/ Type

BridgeTypeOK ==
  /\ state \in 0..3
  /\ connected \in BOOLEAN
  /\ \A i \in DOMAIN signals : signals[i].src \in Nat
=============================================================================
