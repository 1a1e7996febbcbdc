----------------------------- MODULE SerialLink -----------------------------
(***************************************************************************)
(* The serial link between the dongle and the computer.  A token stands    *)
(* for a run of characters that only matters as a whole; the lines of the  *)
(* dongle's human-readable mode are                                        *)
(*     "RX" ": smac|dmac|len|" "FIELD:value;" x 3 "|\r\n"                  *)
(*      rx   hdr               fa  fo  fb        eol                       *)
(* with the number of the frame that was heard attached to each token: fa  *)
(* and fb are of kinds the bridge knows (TEMP, BATLEV, FWVER, CAPA, ERROR, *)
(* AWAKE_SEC, MAIN_LOOP), fo of one it does not (PRESS, HUMI, LUMI, POWER).*)
(***************************************************************************)
EXTENDS Naturals, SequencesExt

CONSTANTS
  LinkMax,     \* bound: tokens on their way to the computer
  MaxUpsets    \* bound: upsets of all kinds together

ASSUME LinkBounds == LinkMax \in Nat /\ MaxUpsets \in Nat

VARIABLES
  toDongle,   \* characters sent by the computer, unread by the dongle
  toHost,     \* characters sent by the dongle, unread by oflbridge
  opened,     \* the computer has the serial port open
  upsets      \* history: what has disturbed the two sides, counted by kind

link == <<toDongle, toHost, opened>>

(***************************************************************************)
(* An edge on a key input of the dongle, a reset of the dongle, a line     *)
(* that straddles the 100 ms a read waits, a restart of the daemon, a      *)
(* word typed at the port before the daemon opens it.                      *)
(***************************************************************************)
Upsets == {"key", "reset", "cut", "restart", "typed"}
AllUpsets ==
  upsets["key"] + upsets["reset"] + upsets["cut"] + upsets["restart"] + upsets["typed"]
Upset(k) ==
  /\ AllUpsets < MaxUpsets
  /\ upsets' = [upsets EXCEPT ![k] = @ + 1]

Tok(t) == <<t, 0>>
EOL == Tok("eol")

FrameTokens == {"rx", "hdr", "fa", "fo", "fb"}
HostTokens(n) ==
  {Tok(t) : t \in {"eol", "msg", "echo", "ok1", "ok2"}} \cup FrameTokens \X (0..n)
TypedTokens == {"dh1", "dh2", "hex", "q", "chan", "send", "x", "nl"}

\* What a sender may put on the line to the computer: a closed port loses it.
Sent(s) == IF opened THEN toHost \o s ELSE toHost

LinkInit ==
  /\ toDongle = <<>>
  /\ toHost = <<>>
  /\ opened = FALSE
  /\ upsets = [k \in Upsets |-> 0]
=============================================================================
