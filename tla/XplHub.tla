------------------------------- MODULE XplHub -------------------------------
(***************************************************************************)
(* The xPL hub of oflbridge/xPLLib (xPL-hub.c): the list of local clients, *)
(* fed by heartbeats, shortened by a check every minute, and used to       *)
(* rebroadcast every message of the network to each client's port.         *)
(*                                                                         *)
(* A time stamp is represented by its age in ticks, which stops at the     *)
(* value above which the code cannot tell two ages apart.                  *)
(***************************************************************************)
EXTENDS Integers, Sequences, FiniteSets

CONSTANTS
  Port,              \* the client ports a heartbeat can name
  Ident,             \* vendor-device.instance
  Interval,          \* the minutes a heartbeat can announce
  MINUTE,            \* ticks in the 60 s of the code
  DEFAULT_INTERVAL,  \* 5 in the code (xPL-hub.c:170, :176)
  MAX_INTERVAL,      \* 30 in the code (xPL-hub.c:178-181)
  NoPort,            \* getClientPort returns -1
  NoInterval,        \* the interval is missing or not a number
  NotHeard,
  Copies             \* what memcpy does to overlapping areas (xPL-hub.c:295)

ASSUME HubAssumption ==
  /\ Interval \subseteq Int
  /\ MINUTE \in Nat \ {0}
  /\ DEFAULT_INTERVAL \in Nat /\ MAX_INTERVAL \in Nat
  /\ DEFAULT_INTERVAL =< MAX_INTERVAL
  /\ Copies \subseteq {"ascending", "descending"} /\ Copies # {}

ASSUME NoPortAssumption == NoPort \notin Port

VARIABLES
  hubRunning,
  clientList,      \* the clients, in the order of their registration
  clientIndex,     \* position of doClientTimeoutChecks in it, 0 when it is not running
  sinceCheck,      \* age of the lastTimedoutAt of the timeout handler
  rebroadcast,     \* the ports the last message went to
  heard            \* history: the last heartbeat of each port that reached the list
vars == <<hubRunning, clientList, clientIndex, sinceCheck, rebroadcast, heard>>

\* The messages the hub can receive: every message of the network goes through it.
Message ==
  [heartbeat : BOOLEAN, local : BOOLEAN, end : BOOLEAN,
   port : Port \cup {NoPort}, ident : Ident, interval : Interval \cup {NoInterval}]

Oldest == (2 * MAX_INTERVAL + 1) * MINUTE
Older(age) == IF age < Oldest THEN age + 1 ELSE age

Client == [clientPort : Port, clientIdent : Ident, heartbeatInterval : Int,
           lastHeardFrom : 0..Oldest]
ASSUME NotHeardAssumption == NotHeard \notin Client
-----------------------------------------------------------------------------
getHeartbeatInterval(m) ==
  IF m.interval = NoInterval THEN DEFAULT_INTERVAL
  ELSE IF m.interval > MAX_INTERVAL THEN MAX_INTERVAL ELSE m.interval

Known(port) == \E i \in DOMAIN clientList : clientList[i].clientPort = port

\* The client as a heartbeat describes it.
Described(m) ==
  [clientPort |-> m.port, clientIdent |-> m.ident,
   heartbeatInterval |-> getHeartbeatInterval(m), lastHeardFrom |-> 0]

\* doClientTimeoutChecks: whole minutes against twice the interval plus one.
ExpiredSoon(client) ==
  client.lastHeardFrom \div MINUTE >= client.heartbeatInterval + 1
Expired(client) ==
  client.lastHeardFrom \div MINUTE >= client.heartbeatInterval * 2 + 1

\* The list after releaseClient of its i-th client.  The records above it move
\* down by one with memcpy: a copy that starts at the far end reads records it
\* has already overwritten.
releaseLast(i, copy) == [k \in 1..(Len(clientList) - 1) |-> clientList[k]]
releaseClient(i, copy) ==
  [k \in 1..(Len(clientList) - 1) |->
     IF k < i THEN clientList[k]
     ELSE IF copy = "ascending" THEN clientList[k + 1]
     ELSE clientList[Len(clientList)]]

\* addNewClient: no UDP protocol entry or no socket, and the client is given up.
addNewClient(m) ==
  \/ /\ clientList' = Append(clientList, Described(m))
     /\ heard' = [heard EXCEPT ![m.port] = Described(m)]
  \/ UNCHANGED clientList /\ heard' = [heard EXCEPT ![m.port] = NotHeard]

\* updateClientIdent and the two assignments after it.
UpdateIdentOnly(m) ==
  /\ clientList' = [i \in DOMAIN clientList |->
       IF clientList[i].clientPort = m.port
         THEN [clientList[i] EXCEPT !.clientIdent = m.ident, !.lastHeardFrom = 0]
         ELSE clientList[i]]
  /\ heard' = [heard EXCEPT ![m.port] = Described(m)]
updateClient(m) ==
  /\ clientList' = [i \in DOMAIN clientList |->
       IF clientList[i].clientPort = m.port THEN Described(m) ELSE clientList[i]]
  /\ heard' = [heard EXCEPT ![m.port] = Described(m)]

\* A message that says nothing about a client of this host.
Irrelevant(m) ==
  ~m.heartbeat \/ ~m.local \/ m.port = NoPort \/ (m.end /\ ~Known(m.port))

UpdatesAppend(m) ==
  \/ Irrelevant(m) /\ UNCHANGED <<clientList, heard>>
  \/ ~Irrelevant(m) /\ addNewClient(m)
UpdatesReleaseOnEnd(m) ==
  \/ Irrelevant(m) /\ UNCHANGED <<clientList, heard>>
  \/ ~Irrelevant(m) /\ ~Known(m.port) /\ addNewClient(m)
  \/ ~Irrelevant(m) /\ Known(m.port) /\ ~m.end /\ updateClient(m)
  \/ /\ ~Irrelevant(m) /\ Known(m.port) /\ m.end /\ UNCHANGED heard
     /\ \E i \in DOMAIN clientList :
          /\ clientList[i].clientPort = m.port
          /\ clientList' = releaseClient(i, "ascending")
checkForClientUpdates(m) ==
  \/ Irrelevant(m) /\ UNCHANGED <<clientList, heard>>
  \/ ~Irrelevant(m) /\ ~Known(m.port) /\ addNewClient(m)
  \/ ~Irrelevant(m) /\ Known(m.port) /\ updateClient(m)

\* rebroadcastMessageToClients: one datagram per client, after the update.
rebroadcastMessageToClients ==
  rebroadcast' = {clientList'[i].clientPort : i \in DOMAIN clientList'}
-----------------------------------------------------------------------------
Init ==
  /\ hubRunning = FALSE /\ clientList = <<>> /\ clientIndex = 0
  /\ sinceCheck = 0 /\ rebroadcast = {}
  /\ heard = [p \in Port |-> NotHeard]

\* xPL_startHub: the message listener and the one-minute timeout handler.
startHub ==
  /\ ~hubRunning
  /\ hubRunning' = TRUE /\ sinceCheck' = 0
  /\ UNCHANGED <<clientList, clientIndex, rebroadcast, heard>>

\* xPL_stopHub: both handlers are removed and every client is released.
stopHub ==
  /\ hubRunning /\ clientIndex = 0
  /\ hubRunning' = FALSE /\ clientList' = <<>>
  /\ rebroadcast' = {} /\ heard' = [p \in Port |-> NotHeard]
  /\ UNCHANGED <<clientIndex, sinceCheck>>

handleXPLMessage(m) ==
  /\ hubRunning /\ clientIndex = 0
  /\ checkForClientUpdates(m)
  /\ rebroadcastMessageToClients
  /\ UNCHANGED <<hubRunning, clientIndex, sinceCheck>>

\* The library calls doClientTimeoutChecks: it starts at the last client.
StartChecksPast ==
  /\ hubRunning /\ clientIndex = 0 /\ sinceCheck >= MINUTE
  /\ clientIndex' = Len(clientList) + 1 /\ sinceCheck' = 0
  /\ UNCHANGED <<hubRunning, clientList, rebroadcast, heard>>
StartChecks ==
  /\ hubRunning /\ clientIndex = 0 /\ sinceCheck >= MINUTE
  /\ clientIndex' = Len(clientList) /\ sinceCheck' = 0
  /\ UNCHANGED <<hubRunning, clientList, rebroadcast, heard>>

\* One turn of its loop.
CheckClient ==
  /\ clientIndex > 0
  /\ IF Expired(clientList[clientIndex])
       THEN \E copy \in Copies : clientList' = releaseClient(clientIndex, copy)
       ELSE UNCHANGED clientList
  /\ clientIndex' = clientIndex - 1
  /\ UNCHANGED <<hubRunning, sinceCheck, rebroadcast, heard>>

\* Time passes between two calls of the library.
Tick ==
  /\ clientIndex = 0
  /\ clientList' = [i \in DOMAIN clientList |->
       [clientList[i] EXCEPT !.lastHeardFrom = Older(@)]]
  /\ heard' = [p \in Port |->
       IF heard[p] = NotHeard THEN NotHeard
       ELSE [heard[p] EXCEPT !.lastHeardFrom = Older(@)]]
  /\ sinceCheck' = IF sinceCheck < MINUTE THEN sinceCheck + 1 ELSE sinceCheck
  /\ UNCHANGED <<hubRunning, clientIndex, rebroadcast>>

Next ==
  \/ startHub \/ stopHub
  \/ \E m \in Message : handleXPLMessage(m)
  \/ StartChecks \/ CheckClient
  \/ Tick

Spec == Init /\ [][Next]_vars

\* The machine's clock runs and the library calls the check when it is due:
\* doTimeouts needs a second without traffic (xPL-io.c:713-720).
Fairness == WF_vars(StartChecks) /\ WF_vars(CheckClient) /\ WF_vars(Tick)
FairSpec == Spec /\ Fairness
-----------------------------------------------------------------------------
\* The state of the hub.
TypeOK ==
  /\ hubRunning \in BOOLEAN
  /\ clientList \in Seq(Client)
  /\ clientIndex \in 0..Len(clientList)
  /\ sinceCheck \in 0..MINUTE
  /\ rebroadcast \subseteq Port
  /\ heard \in [Port -> Client \cup {NotHeard}]

\* findClientByPort stops at the first match and releaseClient removes one
\* record: both are right only while no port is listed twice.
OnePerPort ==
  \A i, j \in DOMAIN clientList :
    clientList[i].clientPort = clientList[j].clientPort => i = j

\* Every record says what the last heartbeat of its port said, and when:
\* shifting the list and updating a record never mix two clients up.
ListMirrorsHeard ==
  \A i \in DOMAIN clientList : heard[clientList[i].clientPort] = clientList[i]

\* A client that was registered and has been heard within twice its interval
\* plus a minute is on the list, whatever the other clients, and the services
\* that say goodbye on its port, do.
Fresh(client) ==
  client.lastHeardFrom \div MINUTE =< 2 * client.heartbeatInterval
LiveClientKept ==
  \A p \in Port : heard[p] # NotHeard /\ Fresh(heard[p]) => Known(p)

\* A client that goes silent leaves the list.
Silent(p) == [][~(heard'[p] # NotHeard /\ heard'[p].lastHeardFrom = 0)]_vars
SilentClientDropped == \A p \in Port : <>Silent(p) => <>[]~Known(p)
=============================================================================
