----------------------------- MODULE XplProgram -----------------------------
(***************************************************************************)
(* A program that uses oflbridge/xPLLib, from the text of a message to the *)
(* listeners it reaches: xPL_receiveMessage (xPL-message.c) parses it,     *)
(* message listeners get it (xPL-listeners.c), one of them hands it to the *)
(* services (xPL-service.c), and these to their own listeners or to the    *)
(* configuration handler (xPL-config.c).  Listeners and services change    *)
(* what is walked through while it is walked through.                      *)
(*                                                                         *)
(* One step is one call of the library or one message.  Within a message   *)
(* everything runs to its end; what can become of the program is a set of  *)
(* records [service, ears, listeners, said, calls].                        *)
(***************************************************************************)
EXTENDS XplService, XplMessage, XplFilter, XplListeners

CONSTANTS
  Applications,     \* what a program may use of the library, and the datagrams
                    \* it may get: [uses, services, hears, room], where room
                    \* bounds the entries of its lists of listeners
  ReportOwn,        \* services that asked for their own messages
  SERVICES, CONFIG, \* the listeners the library installs itself
  Habit,            \* what each message listener does when it is called
  Pattern,          \* what each service listener asked for: [type, class, schema]
  Address, OwnPort, \* of this program, as heartbeats give them
  MaxStarts,        \* bound on the calls of xPL_initialize
  NoDatagram

\* A message listener does nothing, removes itself, or installs another one.
ASSUME ProgramAssumption ==
  /\ \A l \in DOMAIN Habit : Habit[l] \in {"watches", "leaves"} \cup DOMAIN Habit
  /\ NoService \notin Service

VARIABLES
  application,      \* constant, one of Applications
  running, starts,
  serviceList,      \* in the order of creation
  ears,             \* filters, groups and listeners of each service
  listeners,        \* the message listeners
  got,              \* history: the datagram of the last step
  calls,            \* history: the listeners called in the last step
  wanted            \* history: the texts of the filters a service was given
vars == <<serviceVars, application, running, starts, serviceList, ears, listeners,
          got, calls, wanted>>

Deaf == [filters |-> <<>>, groups |-> <<>>, listeners |-> <<>>]
-----------------------------------------------------------------------------
\* What a datagram is: the message its sender meant, whether the hub has sent it
\* on, and the text that arrives.
Direct(m) == [meant |-> m, relayed |-> FALSE, text |-> formatMessage(m)]
Relayed(m) == [meant |-> m, relayed |-> TRUE, text |-> relayed(formatMessage(m))]
Noise(text) == [meant |-> NoMessage, relayed |-> FALSE, text |-> text]

Datagrams == UNION {a.hears : a \in Applications}
Arrived == [d \in Datagrams |-> parseMessage(d.text)]

\* A hub's echo of a heartbeat of this program.
isHubEcho(m) ==
  /\ m.class \in {<<"hbeat">>, <<"config">>}
  /\ Has(m.body, <<"remote-ip">>) /\ ValueOf(m.body, <<"remote-ip">>) = Address
  /\ Has(m.body, <<"port">>) /\ ValueOf(m.body, <<"port">>) = OwnPort

IsRequest(m) ==
  m.type = "xpl-cmnd" /\ m.class = <<"hbeat">> /\ m.schema = <<"request">>
-----------------------------------------------------------------------------
\* installNewConfig of a config.response in which newconf and interval occur at
\* most once.  The first filter and the first group clear what there was; empty
\* ones and filters that cannot be parsed are skipped.
AllOf(body, name) ==
  LET pairs == SelectSeq(body, LAMBDA pair : pair.name = name)
  IN  [i \in DOMAIN pairs |-> pairs[i].value]
NotEmpty(texts) == SelectSeq(texts, LAMBDA text : text # <<>>)

FilterTexts(body) ==
  SelectSeq(NotEmpty(AllOf(body, <<"filter">>)), LAMBDA text : IsFilter(text))
FiltersAfter(old, body) ==
  IF ~Has(body, <<"filter">>) THEN old
  ELSE LET texts == FilterTexts(body) IN [i \in DOMAIN texts |-> parseFilter(texts[i])]
GroupsAfter(old, body) ==
  IF Has(body, <<"group">>) THEN NotEmpty(AllOf(body, <<"group">>)) ELSE old

MinutesIn(text) == CASE text = <<"1">> -> 1 [] text = <<"2">> -> 2 [] text = <<"5">> -> 5
Configured(p, s, body) ==
  LET v  == p.service[s]
      id == IF Has(body, <<"newconf">>)
              THEN [v.identity EXCEPT !.instance = ValueOf(body, <<"newconf">>)] ELSE v.identity
      i  == IF Has(body, <<"interval">>)
              THEN MinutesIn(ValueOf(body, <<"interval">>)) * MINUTE ELSE v.interval
  IN { [p EXCEPT !.service[s] = o.now, !.said = @ \o o.said,
                 !.ears[s].filters = FiltersAfter(@, body),
                 !.ears[s].groups = GroupsAfter(@, body)] : o \in Restarts(s, v, id, i) }

\* configHandler.  Its answers to list and current requests are in XplConfig;
\* they change nothing here.
configHandler(p, s, m) ==
  IF m.type = "xpl-cmnd" /\ m.schema = <<"response">> THEN Configured(p, s, m.body) ELSE {p}

\* xPL_dispatchServiceEvent
Asks(pattern, m) ==
  /\ pattern.type \in {"any", m.type}
  /\ pattern.class \in {Anything, m.class} /\ pattern.schema \in {Anything, m.schema}
Called(p, to, s, m) == [p EXCEPT !.calls = Append(@, [to |-> to, of |-> s, message |-> m])]

dispatchServiceEvent(p, s, m) ==
  LET call(q, i) ==
        LET l == q.ears[s].listeners[i] IN
        IF ~Asks(Pattern[l], m) THEN {q}
        ELSE IF l = CONFIG THEN configHandler(q, s, m)
        ELSE {Called(q, l, s, m)}
      count(q) == Len(q.ears[s].listeners)
  IN Dispatch(call, count, p)

\* handleMessage: a request for heartbeats is answered before filters are looked
\* at, and by a service that is not enabled as well.
Interested(p, s, m) ==
  LET e == p.ears[s] IN
  CASE m.target.kind = "broadcast" ->
         e.filters = <<>> \/ \E i \in DOMAIN e.filters : doesFilterMatch(e.filters[i], m)
    [] m.target.kind = "group"   -> \E i \in DOMAIN e.groups : e.groups[i] = m.target.group
    [] m.target.kind = "service" -> m.target.name = p.service[s].identity

Answered(p, s, m) ==
  IF m.target.kind = "broadcast" /\ IsRequest(m)
    THEN { [p EXCEPT !.service[s] = o.now, !.said = @ \o o.said] :
             o \in Beats(s, p.service[s], <<>>) }
    ELSE {p}

handleMessageFiltersFirst(p, s, m) ==
  IF s \notin ReportOwn /\ m.source = p.service[s].identity THEN {p}
  ELSE IF ~Interested(p, s, m) THEN {p}
  ELSE UNION {dispatchServiceEvent(q, s, m) : q \in Answered(p, s, m)}
handleMessage(p, s, m) ==
  IF s \notin ReportOwn /\ m.source = p.service[s].identity THEN {p}
  ELSE UNION { IF Interested(q, s, m) THEN dispatchServiceEvent(q, s, m) ELSE {q} :
                 q \in Answered(p, s, m) }

\* xPL_handleServiceMessage: the services from the last to the first.
handleServiceMessage(p, m) ==
  LET call(q, i) == handleMessage(q, serviceList[i], m)
      count(q) == Len(serviceList)
  IN  Dispatch(call, count, p)

\* xPL_dispatchMessageEvent.  What the application's listeners do is assumed:
\* nothing, remove themselves, or install the one that Habit names.
dispatchMessageEvent(p, m) ==
  LET call(q, i) ==
        LET l == q.listeners[i]
            r == Called(q, l, NoService, m)
        IN IF l = SERVICES THEN handleServiceMessage(r, m)
           ELSE CASE Habit[l] = "watches" -> {r}
                  [] Habit[l] = "leaves"  -> {[r EXCEPT !.listeners = WithoutListener(@, l)]}
                  [] OTHER -> {[r EXCEPT !.listeners = WithListener(@, Habit[l])]}
      count(q) == Len(q.listeners)
  IN Dispatch(call, count, p)
-----------------------------------------------------------------------------
\* What the properties compare with.  A filter's text allows a message if each
\* of its fields is a star or what the message says.
Allows(text, m) ==
  \E type \in {Anything, <<m.type>>}, vendor \in {Anything, m.source.vendor},
     device \in {Anything, m.source.device}, instance \in {Anything, m.source.instance},
     class \in {Anything, m.class}, schema \in {Anything, m.schema} :
    text = type \o <<".">> \o vendor \o <<".">> \o device \o <<".">> \o instance
             \o <<".">> \o class \o <<".">> \o schema

\* Whom a message is for (the comment at xPL-service.c:542-546), besides those
\* who sent it.
IsFor(s, m) ==
  /\ Is(s) /\ (m.source = service[s].identity => s \in ReportOwn)
  /\ \/ m.target = Broadcast /\ (wanted[s] = <<>> \/ \E i \in DOMAIN wanted[s] : Allows(wanted[s][i], m))
     \/ \E i \in DOMAIN ears[s].groups : m.target = ToGroup(ears[s].groups[i])
     \/ m.target = ToService(service[s].identity)

\* A configurable service is sent filters.
Told(s, m) ==
  /\ m # NoMessage /\ s \in Configurables /\ IsFor(s, m)
  /\ m.type = "xpl-cmnd" /\ m.class = <<"config">> /\ m.schema = <<"response">>
  /\ Has(m.body, <<"filter">>)
-----------------------------------------------------------------------------
Init ==
  /\ ServiceInit
  /\ application \in Applications
  /\ running = FALSE /\ starts = 0
  /\ serviceList = <<>> /\ ears = [s \in Service |-> Deaf] /\ listeners = <<>>
  /\ got = NoDatagram /\ calls = <<>> /\ wanted = [s \in Service |-> <<>>]

Calls(name) ==
  /\ name \in application.uses /\ got' = NoDatagram /\ calls' = <<>>
  /\ UNCHANGED application

\* xPL_initialize adds the handler of the services every time it starts.
initialize ==
  /\ ~running /\ starts < MaxStarts
  /\ starts = 0 \/ "restart" \in application.uses
  /\ running' = TRUE /\ starts' = starts + 1
  /\ listeners' = WithListener(listeners, SERVICES)
  /\ sent' = <<>> /\ got' = NoDatagram /\ calls' = <<>>
  /\ UNCHANGED <<application, service, hubConfirmed, serviceList, ears, wanted>>

\* xPL_shutdown disables the services in their order and leaves the handler.
shutdown ==
  /\ running /\ Calls("restart")
  /\ LET on == SelectSeq(serviceList, LAMBDA s : service[s].enabled) IN
     sent' = [i \in DOMAIN on |-> End(on[i], service[on[i]])]
  /\ service' = [s \in Service |-> IF Is(s) THEN Disabled(service[s]) ELSE NoService]
  /\ running' = FALSE
  /\ UNCHANGED <<hubConfirmed, starts, serviceList, ears, listeners, wanted>>

\* The calls of XplService, of an application that uses the library while it
\* runs.  A new service goes to the end of the list; a configurable one has the
\* configuration handler for its first listener.
Quietly == UNCHANGED <<running, starts, listeners>>
Creates(s) ==
  /\ running /\ s \in application.services /\ createService(s)
  /\ got' = NoDatagram /\ calls' = <<>>
  /\ serviceList' = Append(serviceList, s)
  /\ ears' = [ears EXCEPT ![s].listeners = IF s \in Configurables THEN <<CONFIG>> ELSE <<>>]
  /\ Quietly /\ UNCHANGED <<application, wanted>>
Switches(s) ==
  /\ running /\ Calls("switch") /\ (enableService(s) \/ disableService(s))
  /\ Quietly /\ UNCHANGED <<serviceList, ears, wanted>>
\* The services behind a released one move down, by a memcpy between blocks that
\* overlap (xPL-service.c:244) which is taken to copy upwards.
Releases(s) ==
  /\ running /\ Calls("release") /\ releaseService(s)
  /\ serviceList' = RemoveFirst(serviceList, s)
  /\ ears' = [ears EXCEPT ![s] = Deaf] /\ wanted' = [wanted EXCEPT ![s] = <<>>]
  /\ Quietly
Sets(s) ==
  /\ running /\ Calls("set")
  /\ \/ \E id \in Identity : setServiceIdentity(s, id)
     \/ \E i \in Intervals : setHeartbeatInterval(s, i)
  /\ Quietly /\ UNCHANGED <<serviceList, ears, wanted>>

Unspoken == sent' = <<>> /\ UNCHANGED <<service, hubConfirmed>>
clearServiceFilters(s) ==
  /\ running /\ Calls("clear") /\ Is(s) /\ ears[s].filters # <<>>
  /\ ears' = [ears EXCEPT ![s].filters = <<>>] /\ wanted' = [wanted EXCEPT ![s] = <<>>]
  /\ Unspoken /\ Quietly /\ UNCHANGED serviceList
clearServiceGroups(s) ==
  /\ running /\ Calls("clear") /\ Is(s) /\ ears[s].groups # <<>>
  /\ ears' = [ears EXCEPT ![s].groups = <<>>]
  /\ Unspoken /\ Quietly /\ UNCHANGED <<serviceList, wanted>>
changeServiceListeners(s, l) ==
  /\ running /\ Calls("listen") /\ Is(s) /\ l # CONFIG
  /\ \/ Len(ears[s].listeners) < application.room
          /\ ears' = [ears EXCEPT ![s].listeners = WithListener(@, l)]
     \/ l \in Range(ears[s].listeners)
          /\ ears' = [ears EXCEPT ![s].listeners = WithoutListener(@, l)]
  /\ Unspoken /\ Quietly /\ UNCHANGED <<serviceList, wanted>>
changeMessageListeners(l) ==
  /\ running /\ Calls("watch")
  /\ \/ Len(listeners) < application.room /\ listeners' = WithListener(listeners, l)
     \/ l \in Range(listeners) /\ listeners' = WithoutListener(listeners, l)
  /\ Unspoken /\ UNCHANGED <<running, starts, serviceList, ears, wanted>>

\* xPL_receiveMessage of one datagram.
receiveMessage(d) ==
  LET m   == Arrived[d]
      now == [service |-> service, ears |-> ears, listeners |-> listeners,
              said |-> <<>>, calls |-> <<>>]
  IN /\ running /\ got' = d
     /\ \E p \in IF m = NoMessage THEN {now} ELSE dispatchMessageEvent(now, m) :
          /\ service' = p.service /\ ears' = p.ears /\ listeners' = p.listeners
          /\ sent' = p.said /\ calls' = p.calls
     /\ Len(listeners') =< application.room
     /\ hubConfirmed' = (hubConfirmed \/ (m # NoMessage /\ isHubEcho(m)))
     /\ wanted' = [s \in Service |-> IF Told(s, d.meant) THEN FilterTexts(d.meant.body) ELSE wanted[s]]
     /\ UNCHANGED <<application, running, starts, serviceList>>

Next ==
  \/ initialize \/ shutdown
  \/ \E s \in Service :
       \/ Creates(s) \/ Switches(s) \/ Releases(s) \/ Sets(s)
       \/ clearServiceFilters(s) \/ clearServiceGroups(s)
       \/ \E l \in DOMAIN Pattern : changeServiceListeners(s, l)
  \/ \E l \in DOMAIN Habit : changeMessageListeners(l)
  \/ \E d \in application.hears : receiveMessage(d)

Spec == Init /\ [][Next]_vars
-----------------------------------------------------------------------------
CallsOf(l, s) == SelectSeq(calls, LAMBDA c : c.to = l /\ c.of = s)
TimesCalled(l) == Cardinality({i \in DOMAIN calls : calls[i].to = l /\ calls[i].of = NoService})
TimesIn(list, l) == Cardinality({i \in DOMAIN list : list[i] = l})

\* The name of a group is read with its prefix.
AsRead(m) ==
  IF m.target.kind = "group" THEN [m EXCEPT !.target.group = GroupPrefix \o @] ELSE m

\* What one program means to say reaches, word by word, the listeners of another
\* that asked for it, each as often as it was installed, and nobody else:
\* written, sent on by the hub or not, parsed, filtered by what the
\* configuration asked for, and not lost or doubled when services are renamed
\* by the very message.  This is for a program that was started once and, by way
\* of the hub, not for groups.
DeliveredAsAddressed ==
  [][ /\ got' # NoDatagram /\ starts = 1
      /\ got'.meant # NoMessage /\ Plain(got'.meant)
      /\ got'.relayed => got'.meant.target.kind # "group"
      => LET m == AsRead(got'.meant) IN
          \A s \in Service, l \in DOMAIN Pattern \ {CONFIG} :
            CallsOf(l, s)' =
              [i \in 1..(IF IsFor(s, m) /\ Asks(Pattern[l], m)
                           THEN TimesIn(ears[s].listeners, l) ELSE 0) |->
                 [to |-> l, of |-> s, message |-> m]] ]_vars

\* Every message listener that is installed when a message arrives is called as
\* often as it is installed, while listeners remove themselves and install
\* others.
EachListenerOnce ==
  [][ got' # NoDatagram /\ Arrived[got'] # NoMessage =>
        \A l \in DOMAIN Habit \cup {SERVICES} :
          TimesCalled(l)' = TimesIn(listeners, l) ]_vars

\* A request for heartbeats makes each service speak once, whatever its filters
\* let through, except for a service that itself asked.
RequestsAnswered ==
  [][ got' # NoDatagram /\ starts = 1 =>
        LET m == got'.meant IN
        m # NoMessage /\ Plain(m) /\ m.target = Broadcast /\ IsRequest(m) =>
          \A s \in Service :
            Cardinality({i \in DOMAIN sent' : sent'[i].of = s}) =
              IF Is(s) /\ (m.source # service[s].identity \/ s \in ReportOwn) THEN 1 ELSE 0 ]_vars
=============================================================================
