---------------------------- MODULE MCXplProgram ----------------------------
(***************************************************************************)
(* Instances of XplProgram: four applications and the messages they get.  *)
(***************************************************************************)
EXTENDS XplProgram

CONSTANTS s1, s2

Lamp(instance) == [vendor |-> <<"xpl">>, device |-> <<"lamp">>, instance |-> <<instance>>]
a == Lamp("one")
b == Lamp("two")
Identities == {a, b}
Other == [vendor |-> <<"other">>, device |-> <<"dev">>, instance |-> <<"x">>]

Message(type, source, target, class, schema, body) ==
  [type |-> type, source |-> source, target |-> target,
   class |-> class, schema |-> schema, body |-> body]
Command(target, class, schema, body) ==
  Message("xpl-cmnd", Other, target, class, schema, body)

Request == Command(Broadcast, <<"hbeat">>, <<"request">>, << Pair(<<"command">>, <<"request">>) >>)
Reading ==
  Message("xpl-stat", Other, Broadcast, <<"sensor">>, <<"basic">>,
          << Pair(<<"device">>, <<"x", "=", "!">>), Pair(<<"current">>, <<"1", "SP", "2">>) >>)
Unclean ==
  Message("xpl-stat", Other, Broadcast, <<"sensor">>, <<"basic">>,
          << Pair(<<"note", "{">>, <<"}", "~">>) >>)
Switch(target) == Command(target, <<"lighting">>, <<"basic">>, << Pair(<<"level">>, <<"5">>) >>)
Dim == Command(Broadcast, <<"lighting">>, <<"dim">>, << Pair(<<"level">>, <<"5">>) >>)
OwnBeat ==
  Message("xpl-stat", a, Broadcast, <<"hbeat">>, <<"app">>,
          << Pair(<<"port">>, <<"50000">>), Pair(<<"remote-ip">>, <<"10.0.0.1">>) >>)

Response(target, body) == Command(target, <<"config">>, <<"response">>, body)
Rename(from, to) == Response(ToService(from), << Pair(<<"newconf">>, to.instance) >>)
Slower(target) ==
  Response(target, << Pair(<<"newconf">>, <<"one">>), Pair(<<"interval">>, <<"2">>) >>)

Hall == <<"h", "a", "l", "l">>
Upstairs == <<"u", "p", "s", "t", "a", "i", "r", "s">>
Grouped ==
  Response(ToService(a), << Pair(<<"group">>, GroupPrefix \o Hall), Pair(<<"filter">>, <<>>) >>)
Sensors == <<"xpl-stat", ".", "*", ".", "*", ".", "*", ".", "sensor", ".", "*">>
Bad == <<"xpl-stat", ".", "*">>
Others == <<"*", ".", "other", ".", "dev", ".", "*", ".", "lighting", ".", "basic">>
Filtered ==
  Response(ToService(a),
    << Pair(<<"filter">>, Bad), Pair(<<"filter">>, Sensors), Pair(<<"group">>, <<>>) >>)
FilteredAll == Response(Broadcast, << Pair(<<"filter">>, Others), Pair(<<"newconf">>, <<"two">>) >>)

Renamer ==
  [uses |-> {"switch", "release", "set"}, room |-> 1, services |-> {s1, s2},
   hears |-> {Direct(Rename(a, b)), Relayed(Rename(b, a)), Direct(Slower(ToService(a))),
              Direct(Request)}]
Listener ==
  [uses |-> {"clear", "listen"}, room |-> 3, services |-> {s1},
   hears |-> {Direct(m) : m \in {Request, Reading, Unclean, Switch(ToService(b)), OwnBeat, Dim,
                                 Switch(ToGroup(Hall)), Switch(ToGroup(Upstairs)),
                                 Grouped, Filtered}}
       \cup {Relayed(m) : m \in {Reading, Switch(ToService(a)), Switch(Broadcast),
                                 Switch(ToGroup(Hall)), FilteredAll}}
       \cup {Noise(<<"xpl-stat", "LF", "{", "LF", "hop", "=", "1", "LF", "}", "LF">>)}]
Couple ==
  [uses |-> {"listen", "release"}, room |-> 2, services |-> {s1, s2},
   hears |-> {Direct(Switch(ToService(a))), Relayed(OwnBeat), Relayed(FilteredAll),
              Direct(Rename(b, a))}]
Restarter ==
  [uses |-> {"switch", "restart", "watch", "listen"}, room |-> 3, services |-> {s2},
   hears |-> {Direct(Request), Direct(Switch(ToService(a)))}]

OwnAddress == <<"10.0.0.1">>
OwnPortText == <<"50000">>
AllApplications == {Renamer, Listener, Couple, Restarter}
Habits == [plain |-> "watches", once |-> "leaves", host |-> "once"]
Patterns ==
  [config |-> [type |-> "any", class |-> <<"config">>, schema |-> Anything],
   all |-> [type |-> "any", class |-> Anything, schema |-> Anything],
   readings |-> [type |-> "xpl-stat", class |-> <<"sensor">>, schema |-> Anything]]
=============================================================================
