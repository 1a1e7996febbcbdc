----------------------------- MODULE XplService -----------------------------
(***************************************************************************)
(* The services of one program that uses oflbridge/xPLLib: how they are    *)
(* created, enabled, renamed and configured, and the heartbeats they send  *)
(* (xPL-service.c, the configuration handler of xPL-config.c and the hub   *)
(* detection of xPL-message.c).                                            *)
(*                                                                         *)
(* A service keeps the heartbeat message it built and sends it again.  The *)
(* source fields of that message point into the service.                   *)
(***************************************************************************)
EXTENDS Integers, Sequences

CONSTANTS
  Service,
  Identity,        \* vendor-device.instance
  Intervals,       \* heartbeat intervals, in ticks
  MINUTE,          \* ticks in 60 s
  DEFAULT_HEARTBEAT_INTERVAL,   \* 300 s (xPL.h:16)
  CONFIG_HEARTBEAT_INTERVAL,    \* 60 s (xPL.h:17)
  HUB_DISCOVERY_INTERVAL,       \* 3 s (xPL.h:18)
  Setters,         \* services whose names and interval the application sets
  Configurables,   \* services made by xPL_createConfigurableService
  NoService, NoBeat,
  Garbage          \* what is read through a pointer to freed memory

Delays == Intervals \cup {CONFIG_HEARTBEAT_INTERVAL, HUB_DISCOVERY_INTERVAL}

ASSUME ServiceAssumption ==
  /\ MINUTE \in Nat \ {0}
  /\ Intervals \subseteq Nat /\ DEFAULT_HEARTBEAT_INTERVAL \in Intervals
  /\ CONFIG_HEARTBEAT_INTERVAL \in Nat /\ HUB_DISCOVERY_INTERVAL \in Nat
  /\ Configurables \subseteq Service /\ Setters \subseteq Service
  /\ \E i \in Delays : \A j \in Delays : j =< i
  /\ NoBeat # NoService /\ Garbage \notin Identity

VARIABLES
  service,        \* what each service is
  hubConfirmed,   \* one flag for the whole program (xPL-message.c:20)
  sent            \* the messages of the last call, in order
serviceVars == <<service, hubConfirmed, sent>>

Longest == CHOOSE i \in Delays : \A j \in Delays : j =< i

Beat == [class : {"hbeat", "config"}, minutes : Nat, dangling : BOOLEAN]
\* lastHeartbeatAt is represented by its age, up to the longest interval.
ServiceRecord ==
  [enabled : BOOLEAN, configured : BOOLEAN, identity : Identity, interval : Intervals,
   beat : Beat \cup {NoBeat}, age : 0..Longest]
Heartbeat ==
  [of : Service, class : {"hbeat", "config"}, type : {"app", "end"},
   minutes : Nat, source : Identity \cup {Garbage}]
-----------------------------------------------------------------------------
InConfigMode(s, v) == s \in Configurables /\ ~v.configured

\* createHeartbeatMessage
Class(s, v) == IF InConfigMode(s, v) THEN "config" ELSE "hbeat"
Minutes(s, v) ==
  (IF InConfigMode(s, v) THEN CONFIG_HEARTBEAT_INTERVAL ELSE v.interval) \div MINUTE

Built(s, v) == [class |-> Class(s, v), minutes |-> Minutes(s, v), dangling |-> FALSE]

\* The service after xPL_sendHeartbeat: the message is built once and kept.
Beating(s, v) ==
  [v EXCEPT !.beat = IF v.beat = NoBeat THEN Built(s, v) ELSE v.beat, !.age = 0]

\* The messages it may send: a source that points to freed memory reads as
\* anything, the name that was just allocated included.
Apps(s, v) ==
  LET beat == Beating(s, v).beat IN
  {[of |-> s, class |-> beat.class, type |-> "app", minutes |-> beat.minutes,
    source |-> source] : source \in {v.identity} \cup (IF beat.dangling THEN {Garbage} ELSE {})}

\* xPL_sendGoodbyeHeartbeat: always a new message.
End(s, v) ==
  [of |-> s, class |-> Class(s, v), type |-> "end",
   minutes |-> Minutes(s, v), source |-> v.identity]

\* STR_FREE of the old name: what the kept message points to is gone.
Renamed(v, id) ==
  [v EXCEPT !.identity = id,
            !.beat = IF v.beat = NoBeat \/ id = v.identity THEN v.beat
                     ELSE [v.beat EXCEPT !.dangling = TRUE]]

\* The first lines of xPL_setServiceEnabled(TRUE): the kept message goes.
KeepsBeat(v) == [v EXCEPT !.enabled = TRUE]
Enabled(v) == [v EXCEPT !.enabled = TRUE, !.beat = NoBeat]
Disabled(v) == [v EXCEPT !.enabled = FALSE]

Is(s) == service[s] # NoService

\* What a call can make of a service: its new state and the messages it sends,
\* in order.  A service beats after the messages in first, or says nothing.
Beats(s, v, first) == {[now |-> Beating(s, v), said |-> Append(first, w)] : w \in Apps(s, v)}
Quiet(v) == {[now |-> v, said |-> <<>>]}

Becomes(s, outcomes) ==
  \E o \in outcomes : service' = [service EXCEPT ![s] = o.now] /\ sent' = o.said
-----------------------------------------------------------------------------
ServiceInit ==
  /\ service = [s \in Service |-> NoService]
  /\ hubConfirmed = FALSE /\ sent = <<>>

\* xPL_createService and xPL_createConfigurableService without a stored
\* configuration.
createService(s) ==
  /\ ~Is(s)
  /\ \E id \in Identity :
       Becomes(s, Quiet([enabled |-> FALSE, configured |-> FALSE, identity |-> id,
                          interval |-> DEFAULT_HEARTBEAT_INTERVAL,
                          beat |-> NoBeat, age |-> Longest]))
  /\ UNCHANGED hubConfirmed

enableService(s) ==
  /\ Is(s) /\ ~service[s].enabled
  /\ Becomes(s, Beats(s, Enabled(service[s]), <<>>))
  /\ UNCHANGED hubConfirmed

disableService(s) ==
  /\ Is(s) /\ service[s].enabled
  /\ service' = [service EXCEPT ![s] = Disabled(service[s])]
  /\ sent' = <<End(s, service[s])>>
  /\ UNCHANGED hubConfirmed

\* xPL_releaseService disables the service first.
releaseService(s) ==
  /\ Is(s)
  /\ service' = [service EXCEPT ![s] = NoService]
  /\ sent' = IF service[s].enabled THEN <<End(s, service[s])>> ELSE <<>>
  /\ UNCHANGED hubConfirmed

\* xPL_setServiceVendor, DeviceID and InstanceID.
setServiceIdentity(s, id) ==
  /\ s \in Setters /\ Is(s) /\ id # service[s].identity
  /\ LET v == Renamed(service[s], id) IN
     Becomes(s, IF service[s].enabled THEN Beats(s, v, <<End(s, service[s])>>) ELSE Quiet(v))
  /\ UNCHANGED hubConfirmed

\* xPL_setHeartbeatInterval
setHeartbeatInterval(s, i) ==
  /\ s \in Setters /\ Is(s)
  /\ Becomes(s, Quiet([service[s] EXCEPT !.interval = i]))
  /\ UNCHANGED hubConfirmed

\* installNewConfig of a config.response that names the service id and asks for
\* a heartbeat every i ticks.  It restarts the service only when one of the two
\* is new.
Installed(v, id, i) == [Renamed(v, id) EXCEPT !.interval = i, !.configured = TRUE]

RestartsNewFirst(s, v, id, i) ==
  LET new == Installed(v, id, i) IN
  IF v.enabled /\ (id # v.identity \/ i # v.interval)
    THEN Beats(s, Enabled(new), <<End(s, new)>>) ELSE Quiet(new)
Restarts(s, v, id, i) ==
  LET new == Installed(v, id, i) IN
  IF v.enabled /\ (id # v.identity \/ i # v.interval)
    THEN Beats(s, Enabled(new), <<End(s, v)>>) ELSE Quiet(new)
installNewConfig(s, id, i) ==
  /\ s \in Configurables /\ Is(s)
  /\ Becomes(s, Restarts(s, service[s], id, i))
  /\ UNCHANGED hubConfirmed

\* handleMessage of a broadcast hbeat.request: enabled is not looked at.
handleHeartbeatRequest(s) ==
  /\ Is(s) /\ Becomes(s, Beats(s, service[s], <<>>)) /\ UNCHANGED hubConfirmed

\* One turn of xPL_sendTimelyHeartbeats.
DueOnceConfirmed(s) ==
  /\ Is(s) /\ service[s].enabled /\ hubConfirmed
  /\ service[s].age >= IF InConfigMode(s, service[s]) THEN CONFIG_HEARTBEAT_INTERVAL
                       ELSE service[s].interval
Due(s) ==
  /\ Is(s) /\ service[s].enabled
  /\ service[s].age >= IF ~hubConfirmed THEN HUB_DISCOVERY_INTERVAL
                       ELSE IF InConfigMode(s, service[s]) THEN CONFIG_HEARTBEAT_INTERVAL
                       ELSE service[s].interval
sendTimelyHeartbeat(s) ==
  /\ Due(s) /\ Becomes(s, Beats(s, service[s], <<>>)) /\ UNCHANGED hubConfirmed

\* xPL_receiveMessage sees a heartbeat with this program's address and port.
hearHubEcho ==
  /\ ~hubConfirmed /\ hubConfirmed' = TRUE
  /\ sent' = <<>> /\ UNCHANGED service

ServiceTick ==
  /\ service' = [s \in Service |->
       IF Is(s) /\ service[s].age < Longest
         THEN [service[s] EXCEPT !.age = @ + 1] ELSE service[s]]
  /\ sent' = <<>> /\ UNCHANGED hubConfirmed

\* What the application makes a service do.
Commanded(s) ==
  \/ createService(s) \/ enableService(s) \/ disableService(s) \/ releaseService(s)
  \/ \E id \in Identity : setServiceIdentity(s, id)
  \/ \E i \in Intervals : setHeartbeatInterval(s, i)

\* What the network makes it do.
Asked(s) ==
  \/ \E id \in Identity, i \in Intervals : installNewConfig(s, id, i)
  \/ handleHeartbeatRequest(s)

ServiceNext ==
  \/ \E s \in Service : Commanded(s) \/ Asked(s) \/ sendTimelyHeartbeat(s)
  \/ hearHubEcho
  \/ ServiceTick

ServiceSpec == ServiceInit /\ [][ServiceNext]_serviceVars
-----------------------------------------------------------------------------
\* The state of the services.
ServiceTypeOK ==
  /\ service \in [Service -> ServiceRecord \cup {NoService}]
  /\ hubConfirmed \in BOOLEAN
  /\ sent \in Seq(Heartbeat)

\* A service that changes its name says goodbye under the old name and as what
\* it was, and then something, and nothing before it, whoever renamed it
\* (CONFIG.txt, step 9 of the overview).
GoodbyeFirst(s) ==
  Is(s) /\ service[s].enabled /\ service'[s] # NoService
    /\ service'[s].identity # service[s].identity
  => \E i, j \in DOMAIN sent' :
       /\ sent'[i] = End(s, service[s])
       /\ i < j /\ sent'[j].of = s /\ sent'[j].type = "app"
       /\ \A k \in 1..(i - 1) : sent'[k].of # s
GoodbyeBeforeRename == [][\A s \in Service : GoodbyeFirst(s)]_serviceVars

\* A restart announces what is new: a configuration that changes the name or the
\* interval of an enabled service ends with a heartbeat that says both and that
\* it is configured (for an application that leaves the setters alone, as
\* CONFIG.txt asks).  One that keeps both restarts nothing, and after a first
\* one the kept config.app goes on saying that the service is not configured
\* (xPL-config.c:349, :365, :432, :452, xPL-service.c:65-77), where
\* CONFIG.txt:273-279 says a hbeat.app follows.
Announces(s) ==
  Is(s) /\ service[s].enabled /\ service'[s] # NoService
    /\ <<service'[s].identity, service'[s].interval>>
         # <<service[s].identity, service[s].interval>>
  => \E i \in DOMAIN sent' :
       /\ sent'[i].of = s /\ sent'[i].class = "hbeat"
       /\ sent'[i].source = service'[s].identity
       /\ sent'[i].minutes = service'[s].interval \div MINUTE
       /\ \A k \in (i + 1)..Len(sent') : sent'[k].of # s
RestartAnnounces == [][\A s \in Configurables \ Setters : Announces(s)]_serviceVars

\* While it is enabled a service speaks under its own name, reconfigured or
\* not.  A service that the application renames does not: the message it keeps
\* points to the name that xPL_setServiceVendor has freed (xPL-service.c:323).
OwnName(s) ==
  \A k \in DOMAIN sent' :
    /\ sent'[k].of = s /\ sent'[k].type = "app"
    /\ service'[s] # NoService /\ service'[s].enabled
    => sent'[k].source = service'[s].identity
SpeaksAsItself == [][\A s \in Service \ Setters : OwnName(s)]_serviceVars
=============================================================================
