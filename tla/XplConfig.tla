------------------------------ MODULE XplConfig ------------------------------
(***************************************************************************)
(* The configuration of one service of oflbridge/xPLLib (xPL-config.c): a  *)
(* program creates the service and, if no configuration file was loaded,   *)
(* defines its configurables (CONFIG.txt); config.response messages change *)
(* them and rewrite the file.  The program may end, or be killed between   *)
(* two writes of the file, and start again.                                *)
(*                                                                         *)
(* The file is a sequence of lines.  Lines of the built-in items           *)
(* (reconf=newconf and so on), which loading skips, are left out.          *)
(***************************************************************************)
EXTENDS XplFilter, TLC

CONSTANTS
  Definition,   \* the configurables of the program: [name -> [type, max]]
  BuiltinPrefix,   \* names that are a prefix of newconf, interval, filter or group
  Id, Minutes, Group, Token, Value,   \* what a configuration program sends,
  Lists,        \* and its lists of groups and of filters, texts of tokens
  MaxBody,      \* bound on the values in a config.response
  Block,        \* lines that stdio writes at a time
  FreshId, DEFAULT_MINUTES,   \* of a service without configuration
  NoService, NoFile, Nothing

Name == DOMAIN Definition
ItemTypes == {"config", "reconf", "option"}

ASSUME ConfigAssumption ==
  /\ \A n \in Name : /\ Definition[n].type \in ItemTypes
                     /\ Definition[n].max \in Nat \ {0}
  /\ BuiltinPrefix \subseteq Name
  /\ "define" \notin Name /\ ItemTypes \cap Name = {}   \* see Take
  /\ Name \cap {"newconf", "interval", "filter", "group"} \subseteq BuiltinPrefix
  /\ FreshId \notin Id
  /\ FilterTypes \cup {"*", "."} \subseteq Token
  /\ Lists \subseteq Seq(({"group"} \X Group) \cup ({"filter"} \X Seq(Token)))
  /\ MaxBody \in Nat /\ Block \in Nat \ {0} /\ DEFAULT_MINUTES \in Nat

VARIABLES
  service,
  answer,    \* the last answer to a config.list or config.current request
  file,
  toWrite,   \* what xPL_saveServiceConfig has not written to the file yet
  saved,     \* history: the configuration of the last save that was completed
  told,      \* history: the configuration that a config.current answer described
  torn       \* history: the program was once killed inside a save
disk == <<file, toWrite, saved, torn>>
vars == <<service, answer, told, disk>>

Fresh == [enabled |-> FALSE, configured |-> FALSE, id |-> FreshId,
          interval |-> DEFAULT_MINUTES, groups |-> <<>>, filters |-> <<>>, items |-> <<>>]
-----------------------------------------------------------------------------
ItemNames(s) == {s.items[i].name : i \in DOMAIN s.items}

\* xPL_addServiceConfigurable
Added(s, name, d) ==
  IF name \in ItemNames(s) THEN s
  ELSE [s EXCEPT !.items =
          Append(@, [name |-> name, type |-> d.type, max |-> d.max, values |-> <<>>])]

\* xPL_addServiceConfigValue: a full item discards the value.
WithValue(s, name, value) ==
  [s EXCEPT !.items = [i \in DOMAIN s.items |->
     LET item == s.items[i] IN
     IF item.name = name /\ Len(item.values) < item.max
       THEN [item EXCEPT !.values = Append(@, value)] ELSE item]]
\* xPL_setServiceConfigValueAt
WithValueAt(s, name, index, value) ==
  IF \E i \in DOMAIN s.items : s.items[i].name = name /\ index \in DOMAIN s.items[i].values
    THEN [s EXCEPT !.items = [i \in DOMAIN @ |->
            IF @[i].name = name THEN [@[i] EXCEPT !.values[index] = value] ELSE @[i]]]
    ELSE WithValue(s, name, value)

\* xPL_clearServiceConfigValues and xPL_clearAllServiceConfigValues
ClearedOf(s, names) ==
  [s EXCEPT !.items = [i \in DOMAIN @ |->
     IF @[i].name \in names THEN [@[i] EXCEPT !.values = <<>>] ELSE @[i]]]
Cleared(s) == ClearedOf(s, ItemNames(s))

\* xPL_removeServiceConfigurable: those behind it move up by one.
Removed(s, name) ==
  [s EXCEPT !.items = RemoveAt(@, CHOOSE i \in DOMAIN @ : @[i].name = name)]

\* parseConfigDefinition: a prefix of a built-in item is taken for that item.
Defined(s, name, d) == IF name \in BuiltinPrefix THEN s ELSE Added(s, name, d)

\* A message body or a file is a sequence of pairs.  An empty text is Blank;
\* of a filter that does not parse nothing is kept.
Blank == <<>>
Text == Value \cup {Blank}
Def(n) == [name |-> n, type |-> Definition[n].type, max |-> Definition[n].max]
Element ==
  ({"define"} \X {Def(n) : n \in Name})
    \cup ({"newconf"} \X (Id \cup {FreshId}))
    \cup ({"interval"} \X (Minutes \cup {DEFAULT_MINUTES}))
    \cup ({"group"} \X (Group \cup {Blank})) \cup ({"filter"} \X Seq(Token))
    \cup (Name \X Text)
Service ==
  [enabled : BOOLEAN, configured : BOOLEAN, id : Id \cup {FreshId},
   interval : Minutes \cup {DEFAULT_MINUTES}, groups : Seq(Group),
   filters : Seq([type : Seq(Token), vendor : Seq(Token), device : Seq(Token),
                  instance : Seq(Token), class : Seq(Token), schema : Seq(Token)]),
   items : Seq([name : Name, type : ItemTypes, max : Nat, values : Seq(Text)])]
ASSUME AbsenceAssumption == NoFile \notin Seq(Element) /\ NoService \notin Service
\* "define" stands for an element named config, reconf or option, the type of the
\* item it defines.  What such an element says is never a value: an item of one of
\* these names could not be set (xPL-config.c:323-344), and ConfigAssumption has
\* no such item.
Take(s, e, allowDefinitions) ==
  CASE e[1] = "define" -> IF allowDefinitions THEN Defined(s, e[2].name, e[2]) ELSE s
    [] e[1] = "newconf" -> [s EXCEPT !.id = e[2]]
    [] e[1] = "interval" -> [s EXCEPT !.interval = e[2]]
    [] e[1] = "group" -> IF e[2] = Blank THEN s ELSE [s EXCEPT !.groups = Append(@, e[2])]
    [] e[1] = "filter" ->
         IF IsFilter(e[2]) THEN [s EXCEPT !.filters = Append(@, parseFilter(e[2]))] ELSE s
    [] OTHER -> WithValue(s, e[1], e[2])

\* installNewConfig: the values go first, the groups and the filters when the
\* first of their kind comes.  The elements are taken one after the other.
Names(elements) == {elements[i][1] : i \in DOMAIN elements}
Emptied(s, elements) ==
  [s EXCEPT !.groups = IF "group" \in Names(elements) THEN <<>> ELSE @,
            !.filters = IF "filter" \in Names(elements) THEN <<>> ELSE @]
Taken(s, elements, allowDefinitions) ==
  LET after[i \in 0..Len(elements)] ==
        IF i = 0 THEN s ELSE Take(after[i - 1], elements[i], allowDefinitions)
  IN  after[Len(elements)]
InstalledOver(s, elements, allowDefinitions) ==
  [Taken(Emptied(s, elements), elements, allowDefinitions) EXCEPT !.configured = TRUE]
Installed(s, elements, allowDefinitions) ==
  [Taken(Emptied(Cleared(s), elements), elements, allowDefinitions) EXCEPT !.configured = TRUE]

\* What is written of a service: a placeholder stands for no groups, no
\* filters and, in an answer, for no values.
ListedBare(name, texts) == [i \in DOMAIN texts |-> <<name, texts[i]>>]
Listed(name, texts) ==
  IF texts = <<>> THEN << <<name, Blank>> >> ELSE [i \in DOMAIN texts |-> <<name, texts[i]>>]
Settings(s) == << <<"newconf", s.id>>, <<"interval", s.interval>> >>
FilterTexts(s) == [i \in DOMAIN s.filters |-> formatFilter(s.filters[i])]
DefinitionOf(item) == [name |-> item.name, type |-> item.type, max |-> item.max]
Definitions(items) == [i \in DOMAIN items |-> <<"define", DefinitionOf(items[i])>>]
Values(s) ==
  FlattenSeq([i \in DOMAIN s.items |->
    [k \in DOMAIN s.items[i].values |-> <<s.items[i].name, s.items[i].values[k]>>]])

\* xPL_saveServiceConfig, the header line left out.
LinesValuesFirst(s) ==
  Values(s) \o Definitions(s.items)
    \o Settings(s) \o Listed("filter", FilterTexts(s)) \o Listed("group", s.groups)
LinesOfUsedItems(s) ==
  Definitions(SelectSeq(s.items, LAMBDA item : item.values # <<>>))
    \o Settings(s) \o Listed("filter", FilterTexts(s)) \o Listed("group", s.groups) \o Values(s)
Lines(s) ==
  Definitions(s.items)
    \o Settings(s) \o Listed("filter", FilterTexts(s)) \o Listed("group", s.groups) \o Values(s)

\* sendServiceCurrentConfig
CurrentConfig(s) ==
  Settings(s) \o Listed("group", s.groups) \o Listed("filter", FilterTexts(s))
    \o FlattenSeq([i \in DOMAIN s.items |-> Listed(s.items[i].name, s.items[i].values)])

\* sendServiceConfigList, the built-in items left out: the text of an item of
\* several values is released before it is added to the message.
ConfigList(s) ==
  [i \in DOMAIN s.items |->
     <<s.items[i].type, IF s.items[i].max > 1 THEN Blank ELSE s.items[i].name>>]

\* xPL_loadServiceConfig into a new service.  A file without a header, or with
\* nothing after it, configures nothing.
Loaded(f) == IF f = NoFile \/ f = <<>> THEN Fresh ELSE Installed(Fresh, f, TRUE)
-----------------------------------------------------------------------------
Init ==
  /\ service = NoService /\ answer = Nothing /\ told = Nothing
  /\ file = NoFile /\ toWrite = <<>> /\ saved = Nothing /\ torn = FALSE

Running == service # NoService /\ toWrite = <<>>

\* xPL_createConfigurableService
createService ==
  /\ service = NoService /\ service' = Loaded(file)
  /\ UNCHANGED <<answer, told, disk>>

\* The program defines its configurables, and their first values, when nothing
\* was loaded; it may change its mind about them.
Prepares == Running /\ ~service.configured /\ ~service.enabled
addServiceConfigurable(name) ==
  /\ Prepares /\ name \notin ItemNames(service)
  /\ service' = Added(service, name, Definition[name])
  /\ UNCHANGED <<answer, told, disk>>
removeServiceConfigurable(name) ==
  /\ Prepares /\ name \in ItemNames(service)
  /\ service' = Removed(service, name)
  /\ UNCHANGED <<answer, told, disk>>
removeAllServiceConfigurables ==
  /\ Prepares /\ service' = [service EXCEPT !.items = <<>>]
  /\ UNCHANGED <<answer, told, disk>>
clearServiceConfigValues(names) ==
  /\ Prepares /\ service' = ClearedOf(service, names)
  /\ UNCHANGED <<answer, told, disk>>
addServiceConfigValue(name, value) ==
  /\ Prepares /\ service' = WithValue(service, name, value)
  /\ UNCHANGED <<answer, told, disk>>
setServiceConfigValueAt(name, index, value) ==
  /\ Prepares /\ service' = WithValueAt(service, name, index, value)
  /\ UNCHANGED <<answer, told, disk>>
\* It enables the service once it has defined what it needs.
setServiceEnabled ==
  /\ Running /\ ~service.enabled
  /\ service.configured \/ ItemNames(service) = Name
  /\ service' = [service EXCEPT !.enabled = TRUE]
  /\ UNCHANGED <<answer, told, disk>>

\* configHandler of a config.list and of a config.current request
Configuration(s) == [s EXCEPT !.enabled = FALSE]
configListRequest ==
  /\ Running /\ service.enabled
  /\ answer' = ConfigList(service) /\ told' = Nothing
  /\ UNCHANGED <<service, disk>>
configCurrentRequest ==
  /\ Running /\ service.enabled
  /\ answer' = CurrentConfig(service) /\ told' = Configuration(service)
  /\ UNCHANGED <<service, disk>>

\* configHandler of a config.response: the new configuration is installed and
\* saved; when the file cannot be created it is installed only.  (A file that
\* was once created can be opened again.)  A configuration program composes a
\* response, or sends back what it was told.
Assignments == BoundedSeq(Name \X Value, MaxBody)
Composed ==
  { << <<"newconf", id>>, <<"interval", m>> >> \o lists \o values :
      id \in Id, m \in Minutes, lists \in Lists, values \in Assignments }
Bodies == Composed \cup (IF told = Nothing THEN {} ELSE {answer})
configResponse(body) ==
  /\ Running /\ service.enabled
  /\ service' = Installed(service, body, FALSE)
  /\ \/ file' = <<>> /\ toWrite' = Lines(service') /\ saved' = Nothing
     \/ file = NoFile /\ UNCHANGED <<file, toWrite, saved>>
  /\ UNCHANGED <<answer, told, torn>>

\* stdio writes a full buffer, and the rest when the file is closed.
WriteBlock ==
  /\ toWrite # <<>>
  /\ LET n == IF Len(toWrite) < Block THEN Len(toWrite) ELSE Block IN
     /\ file' = file \o SubSeq(toWrite, 1, n)
     /\ toWrite' = SubSeq(toWrite, n + 1, Len(toWrite))
  /\ saved' = IF toWrite' = <<>> THEN Configuration(service) ELSE Nothing
  /\ UNCHANGED <<service, answer, told, torn>>

\* The program ends or is killed.
Ends ==
  /\ service # NoService
  /\ service' = NoService /\ toWrite' = <<>>
  /\ torn' = (torn \/ toWrite # <<>>)
  /\ UNCHANGED <<answer, told, file, saved>>

Next ==
  \/ createService \/ setServiceEnabled \/ WriteBlock \/ Ends
  \/ \E n \in Name :
       \/ addServiceConfigurable(n) \/ removeServiceConfigurable(n)
       \/ \E v \in Value : addServiceConfigValue(n, v) \/ setServiceConfigValueAt(n, 1, v)
  \/ removeAllServiceConfigurables
  \/ \E names \in SUBSET Name : clearServiceConfigValues(names)
  \/ configListRequest \/ configCurrentRequest
  \/ \E body \in Bodies : configResponse(body)

Spec == Init /\ [][Next]_vars
-----------------------------------------------------------------------------
\* What was saved is what is loaded: definitions, values in their order,
\* filters, groups, instance and interval (CONFIG.txt:92).
RoundTrip == saved # Nothing => Loaded(file) = saved

\* A response replaces the configuration, it does not add to it: the values of
\* an item afterwards are those the response gave it, in their order, as many
\* as it can hold, and none if it gave none.
Given(body, name) == {p \in DOMAIN body : body[p][1] = name}
Rank(p, places) == Cardinality({q \in places : q <= p})
AreThoseOf(values, body, item) ==
  LET given == Given(body, item.name) IN
  /\ Len(values) = Min({Cardinality(given), item.max})
  /\ \A p \in given : Rank(p, given) <= item.max => values[Rank(p, given)] = body[p][2]
ResponseReplaces ==
  Running /\ service.enabled =>
    \A body \in Assignments :
      LET new == Installed(service, body, FALSE).items IN
      \A i \in DOMAIN service.items : AreThoseOf(new[i].values, body, service.items[i])

\* An enabled service has all the configurables of its program, defined anew
\* or restored (CONFIG.txt:104-108: a configured service was successfully
\* restored), unless the program was once killed inside a save: the file it
\* leaves then counts as a configuration (xPL-config.c:594).
HasItsItems ==
  service # NoService /\ service.enabled /\ ~torn =>
    \A n \in Name : \E i \in DOMAIN service.items :
      DefinitionOf(service.items[i]) = Def(n)

\* Whatever responses came in between, and whether or not the program was
\* started again, sending back a config.current answer restores the
\* configuration the answer described: instance, interval, groups, filters and
\* the values of each item, where a blank stands for none.
Filled(values) == IF values = <<Blank>> THEN <<>> ELSE values
AnswerRestores ==
  Running /\ service.enabled /\ told # Nothing =>
    LET new == Installed(service, answer, FALSE) IN
    /\ new.id = told.id /\ new.interval = told.interval
    /\ new.groups = told.groups /\ new.filters = told.filters
    /\ \A i \in DOMAIN new.items, k \in DOMAIN told.items :
         new.items[i].name = told.items[k].name =>
           Filled(new.items[i].values) = Filled(told.items[k].values)
=============================================================================
