----------------------------- MODULE XplMessage -----------------------------
(***************************************************************************)
(* The text of an xPL message (oflbridge/xPLLib/xPL-message.c): what       *)
(* xPL_formatMessage writes for a message and what parseMessage makes of a *)
(* text.                                                                   *)
(*                                                                         *)
(* A text is a sequence of tokens: a character the parser looks at, "SP",  *)
(* "LF", "TAB" and "HIGH" (a byte from 128 on) included, or a string that  *)
(* stands for a run of characters it only copies.  Letters that differ in  *)
(* case only are one token, as all comparisons but one ignore the case.    *)
(***************************************************************************)
EXTENDS Integers, Sequences, SequencesExt

CONSTANTS
  GroupRoom,     \* tokens of a group's name that its buffer takes (6 characters)
  MSG_MAX_SIZE,  \* tokens a message may have (1500 characters)
  NoMessage

Broadcast == [kind |-> "broadcast"]
ToGroup(name) == [kind |-> "group", group |-> name]
ToService(name) == [kind |-> "service", name |-> name]

Pair(name, value) == [name |-> name, value |-> value, binary |-> FALSE]
-----------------------------------------------------------------------------
\* xPL_formatMessage: every hop count is written as 1, a binary value as the
\* hex digits of binaryLength bytes, which is 0 in a message that was received.
NameText(name) == name.vendor \o <<"-">> \o name.device \o <<".">> \o name.instance

GroupPrefix == <<"xpl", "-", "group", ".">>
TargetText(target) ==
  CASE target.kind = "broadcast" -> <<"*">>
    [] target.kind = "group"     -> GroupPrefix \o target.group
    [] target.kind = "service"   -> NameText(target.name)

Line(name, value) == name \o <<"=">> \o value \o <<"LF">>
BodyText(body) ==
  FlattenSeq([i \in DOMAIN body |->
    Line(body[i].name, IF body[i].binary THEN <<>> ELSE body[i].value)])

Written(m) ==
  <<m.type, "LF", "{", "LF">>
    \o Line(<<"hop">>, <<"1">>)
    \o Line(<<"source">>, NameText(m.source))
    \o Line(<<"target">>, TargetText(m.target))
    \o <<"}", "LF">>
    \o m.class \o <<".">> \o m.schema \o <<"LF", "{", "LF">>
    \o BodyText(m.body) \o <<"}", "LF">>

formatMessage(m) == IF Len(Written(m)) < MSG_MAX_SIZE THEN Written(m) ELSE <<>>
-----------------------------------------------------------------------------
\* VALID_CHAR assigns where it should compare: it accepts every character, and
\* turns those outside of 32..122 into a bar.
Control == {"LF", "TAB", "HIGH"}
Altered == Control \cup {"{", "}", "~"}
Stored(c) == IF c \in Altered THEN "|" ELSE c

\* parseBlock reads one character after the other.
BlockStart ==
  [state |-> "header", header |-> <<>>, name |-> <<>>, value |-> <<>>,
   binary |-> FALSE, pairs |-> <<>>, read |-> 0]

InHeader(p, c) ==
  IF p.header = <<>> /\ c \in Control \cup {"SP"} THEN p
  ELSE IF c = "LF" THEN [p EXCEPT !.state = "open"]
  ELSE [p EXCEPT !.header = Append(@, Stored(c))]

InName(p, c) ==
  CASE c \in {"=", "!"} -> [p EXCEPT !.state = "value", !.binary = c = "!", !.value = <<>>]
    [] c = "}"          -> [p EXCEPT !.state = "close"]
    [] OTHER            -> [p EXCEPT !.name = Append(@, Stored(c))]

\* textToBinary takes pairs of the digits that hexToNibble knows.
HexByte == {"00", "7F", "A0"}
IsBinary(value) == \A i \in DOMAIN value : value[i] \in HexByte

InValue(p, c) ==
  IF c # "LF" THEN [p EXCEPT !.value = Append(@, Stored(c))]
  ELSE IF p.binary /\ ~IsBinary(p.value) THEN [p EXCEPT !.state = "error"]
  ELSE [p EXCEPT !.state = "name", !.name = <<>>,
          !.pairs = Append(@, [name |-> p.name, value |-> p.value, binary |-> p.binary])]

Wants(p, c, wanted, next) == [p EXCEPT !.state = IF c = wanted THEN next ELSE "error"]

Reads(p, c) ==
  LET q == CASE p.state = "header" -> InHeader(p, c)
             [] p.state = "open"   -> Wants(p, c, "{", "opened")
             [] p.state = "opened" -> Wants(p, c, "LF", "name")
             [] p.state = "name"   -> InName(p, c)
             [] p.state = "value"  -> InValue(p, c)
             [] p.state = "close"  -> Wants(p, c, "LF", "done")
  IN [q EXCEPT !.read = @ + 1]

parseBlock(text) ==
  FoldLeft(LAMBDA p, c : IF p.state \in {"done", "error"} THEN p ELSE Reads(p, c),
           BlockStart, text)
-----------------------------------------------------------------------------
\* The first pair of a name, as xPL_getNamedValuePair finds it.
Has(pairs, name) == \E i \in DOMAIN pairs : pairs[i].name = name
ValueOf(pairs, name) == pairs[SelectInSeq(pairs, LAMBDA p : p.name = name)].value

\* vendor-device.instance, cut at the first dash and the first period after it.
Cut(text, at) == [before |-> SubSeq(text, 1, at - 1), after |-> SubSeq(text, at + 1, Len(text))]
FirstOf(text, c) == SelectInSeq(text, LAMBDA x : x = c)
LastOf(text, c) == SelectLastInSeq(text, LAMBDA x : x = c)

IsName(text) ==
  FirstOf(text, "-") # 0 /\ FirstOf(Cut(text, FirstOf(text, "-")).after, ".") # 0
NameOf(text) ==
  LET vendor == Cut(text, FirstOf(text, "-"))
      device == Cut(vendor.after, FirstOf(vendor.after, "."))
  IN [vendor |-> vendor.before, device |-> device.before, instance |-> device.after]

\* The group's name as it was received starts with XPL-GROUP. and is cut off
\* where that and the name exceed 16 characters.
GroupOf(name) ==
  ToGroup(GroupPrefix \o
    SubSeq(name.instance, 1, IF Len(name.instance) < GroupRoom THEN Len(name.instance) ELSE GroupRoom))
TargetOfAnyDevice(text) ==
  LET name == NameOf(text) IN
  IF text = <<"*">> THEN Broadcast
  ELSE IF name.vendor = <<"xpl">> THEN GroupOf(name) ELSE ToService(name)
TargetOf(text) ==
  LET name == NameOf(text) IN
  IF text = <<"*">> THEN Broadcast
  ELSE IF name.vendor = <<"xpl">> /\ name.device = <<"group">> THEN GroupOf(name)
  ELSE ToService(name)

\* parseMessageHeader
Number == {"1", "2", "5", "9"}
HeaderOK(pairs) ==
  /\ Has(pairs, <<"hop">>) /\ ValueOf(pairs, <<"hop">>) \in {<<n>> : n \in Number}
  /\ Has(pairs, <<"source">>) /\ IsName(ValueOf(pairs, <<"source">>))
  /\ Has(pairs, <<"target">>)
  /\ ValueOf(pairs, <<"target">>) = <<"*">> \/ IsName(ValueOf(pairs, <<"target">>))

\* parseMessage: a header and at most one block; what follows is not looked at.
\* A message whose text ends after the header has no schema.
Types == {"xpl-cmnd", "xpl-stat", "xpl-trig"}
Parsed(type, pairs, class, schema, body) ==
  [type |-> type,
   source |-> NameOf(ValueOf(pairs, <<"source">>)),
   target |-> TargetOf(ValueOf(pairs, <<"target">>)),
   class |-> class, schema |-> schema, body |-> body]

parseMessage(text) ==
  LET head == parseBlock(text)
      rest == parseBlock(SubSeq(text, head.read + 1, Len(text)))
      dot  == FirstOf(rest.header, ".")
      good == /\ head.state = "done" /\ head.header \in {<<t>> : t \in Types}
              /\ HeaderOK(head.pairs)
  IN IF ~good THEN NoMessage
     ELSE IF rest.header = <<>> THEN Parsed(head.header[1], head.pairs, <<>>, <<>>, <<>>)
     ELSE IF rest.state # "done" \/ dot = 0 THEN NoMessage
     ELSE Parsed(head.header[1], head.pairs, Cut(rest.header, dot).before,
                 Cut(rest.header, dot).after, rest.pairs)

\* What a hub sends on for a text it received (rebroadcastMessageToClients of
\* xPL-hub.c).
relayed(text) ==
  LET m == parseMessage(text) IN IF m = NoMessage THEN <<>> ELSE formatMessage(m)
-----------------------------------------------------------------------------
\* The messages whose text says what they are: names that can be told apart, no
\* character with a meaning or beyond VALID_CHAR's range, no binary value, a
\* group's name that fits.
Free(text, chars) == \A i \in DOMAIN text : text[i] \notin chars
PlainName(name) ==
  /\ Free(name.vendor, {"-"} \cup Altered) /\ Free(name.device, {"."} \cup Altered)
  /\ Free(name.instance, Altered)
Plain(m) ==
  /\ PlainName(m.source)
  /\ m.target.kind = "service" =>
       PlainName(m.target.name) /\ (m.target.name.vendor = <<"xpl">> => m.target.name.device # <<"group">>)
  /\ m.target.kind = "group" => Len(m.target.group) =< GroupRoom /\ Free(m.target.group, Altered)
  /\ m.class # <<>> /\ m.class[1] # "SP" /\ Free(m.class, {"."} \cup Altered)
  /\ Free(m.schema, Altered)
  /\ \A i \in DOMAIN m.body :
       /\ ~m.body[i].binary
       /\ Free(m.body[i].name, {"=", "!"} \cup Altered)
       /\ Free(m.body[i].value, Altered)
  /\ Len(Written(m)) < MSG_MAX_SIZE
=============================================================================
