----------------------------- MODULE XplNetwork -----------------------------
(***************************************************************************)
(* A program with xPL services (XplService) and the xPL hub of its machine *)
(* (XplHub), which talk by UDP: the program broadcasts heartbeats to the   *)
(* hub's port, the hub registers the program's port and sends the message  *)
(* back to it, and this echo confirms the hub.                             *)
(***************************************************************************)
EXTENDS XplService, FiniteSets

CONSTANTS
  MAX_INTERVAL, DEFAULT_INTERVAL,   \* of the hub
  NoPort, NoInterval, NotHeard,
  Lossy,                            \* datagrams can be lost
  MaxNet                            \* bound on the heartbeats in flight

VARIABLES
  hubRunning, clientList, clientIndex, sinceCheck, rebroadcast, heard,   \* the hub
  net,      \* heartbeats on their way to the hub, in order
  echo,     \* a heartbeat of ours waits in our socket
  lost      \* history: a heartbeat was lost since the hub last got one
            \* that registers a port

Here == "port"   \* the port of the program

Hub == INSTANCE XplHub WITH
  Port <- {Here}, Ident <- Identity \cup {Garbage},
  Interval <- {i \div MINUTE : i \in Intervals \cup {CONFIG_HEARTBEAT_INTERVAL}},
  Copies <- {"ascending"}

\* The hub's defaults, and the marks for what is missing.
ASSUME NetworkAssumption ==
  /\ DEFAULT_INTERVAL \in Nat /\ MAX_INTERVAL \in Nat /\ DEFAULT_INTERVAL =< MAX_INTERVAL
  /\ NoPort # Here /\ NotHeard \notin Hub!Client

hubVars == <<hubRunning, clientList, clientIndex, sinceCheck, rebroadcast, heard>>
vars == <<serviceVars, hubVars, net, echo, lost>>
-----------------------------------------------------------------------------
Init == ServiceInit /\ Hub!Init /\ net = <<>> /\ echo = FALSE /\ lost = FALSE

\* What the hub reads out of a heartbeat of this program.
AsReceived(w) ==
  [heartbeat |-> TRUE, local |-> TRUE, end |-> w.type = "end",
   port |-> Here, ident |-> w.source, interval |-> w.minutes]

\* A call that sends: what sendto accepts is on the network.
Sends ==
  /\ net' = net \o sent' /\ Len(net') =< MaxNet
  /\ UNCHANGED <<hubVars, echo, lost>>

Use(s) == (Commanded(s) \/ Asked(s)) /\ Sends
Timely(s) == sendTimelyHeartbeat(s) /\ Sends

\* The hub handles a heartbeat and sends it to its clients, us included.
Deliver ==
  /\ net # <<>> /\ net' = Tail(net)
  /\ Hub!handleXPLMessage(AsReceived(Head(net)))
  /\ echo' = (echo \/ Here \in rebroadcast') 
  /\ lost' = (lost /\ Head(net).type = "end")
  /\ sent' = <<>> /\ UNCHANGED <<service, hubConfirmed>>

\* A datagram is lost: always when nobody listens on the hub's port.
Lose ==
  /\ Lossy \/ ~hubRunning
  /\ net # <<>> /\ net' = Tail(net) /\ lost' = TRUE
  /\ sent' = <<>> /\ UNCHANGED <<service, hubConfirmed, hubVars, echo>>
LoseEcho ==
  /\ Lossy /\ echo /\ echo' = FALSE
  /\ sent' = <<>> /\ UNCHANGED <<service, hubConfirmed, hubVars, net, lost>>

\* The program reads its socket.
ReceiveEcho ==
  /\ echo /\ echo' = FALSE
  /\ hearHubEcho \/ (hubConfirmed /\ sent' = <<>> /\ UNCHANGED <<service, hubConfirmed>>)
  /\ UNCHANGED <<hubVars, net, lost>>

\* The hub alone.
HubAlone == sent' = <<>> /\ UNCHANGED <<service, hubConfirmed, net, echo, lost>>
HubSwitched == (Hub!startHub \/ Hub!stopHub) /\ HubAlone
HubChecks == (Hub!StartChecks \/ Hub!CheckClient) /\ HubAlone

\* Time passes once both programs have done what is due and read what arrived.
Idle ==
  /\ net = <<>> /\ ~echo /\ \A s \in Service : ~Due(s)
  /\ clientIndex = 0 /\ ~(hubRunning /\ sinceCheck >= MINUTE)
Tick == Idle /\ ServiceTick /\ Hub!Tick /\ UNCHANGED <<net, echo, lost>>

Next ==
  \/ \E s \in Service : Use(s) \/ Timely(s)
  \/ Deliver \/ Lose \/ LoseEcho \/ ReceiveEcho
  \/ HubSwitched \/ HubChecks
  \/ Tick

Spec == Init /\ [][Next]_vars

\* Both programs are scheduled and time passes.  The network does not lose
\* every datagram, and the hub does not fail to open its socket every time.
Fairness ==
  /\ WF_vars(Tick) /\ WF_vars(HubChecks) /\ WF_vars(Lose)
  /\ \A s \in Service : WF_vars(Timely(s))
  /\ SF_vars(Deliver /\ echo') /\ SF_vars(ReceiveEcho)
FairSpec == Spec /\ Fairness
-----------------------------------------------------------------------------
\* While a service of the program is enabled and the hub has heard the last that
\* it said, the program's port stays registered, whatever the other services on
\* that port do: the beats of the one side and the timeouts of the other fit.
ServiceReachable ==
  \A s \in Service :
    Is(s) /\ service[s].enabled /\ net = <<>> /\ ~lost
      /\ hubRunning /\ heard[Here] # NotHeard
      => Hub!Known(Here)

\* While a hub keeps running and a service stays enabled, the program finds
\* out that there is a hub, and it is registered again whenever it is lost:
\* after a restart of the hub, after lost datagrams and lost echoes.
SomeEnabled == \E s \in Service : Is(s) /\ service[s].enabled
HubFound ==
  <>[](hubRunning /\ SomeEnabled) => <>hubConfirmed /\ []<>Hub!Known(Here)
=============================================================================
