--------------------------- MODULE XplHub_proofs ---------------------------
(***************************************************************************)
(* Proofs about the hub for any ports, identities, intervals and minute,   *)
(* on a machine whose memcpy copies upwards.                               *)
(***************************************************************************)
EXTENDS XplHub, TLAPS

Inv == TypeOK /\ OnePerPort /\ ListMirrorsHeard /\ LiveClientKept
-----------------------------------------------------------------------------
\* Whole minutes never go down while time passes.
LEMMA MinutesGrow ==
  ASSUME NEW a \in Nat, NEW k \in Int, (a + 1) \div MINUTE =< k
  PROVE  a \div MINUTE =< k
BY HubAssumption

LEMMA OldestType == Oldest \in Nat
<1>1. 2 * MAX_INTERVAL + 1 \in Nat /\ MINUTE \in Nat
  BY HubAssumption
<1>2. \A x, y \in Nat : x * y \in Nat
  OBVIOUS
<1> QED BY <1>1, <1>2 DEF Oldest

LEMMA OlderType ==
  ASSUME NEW a \in 0..Oldest
  PROVE  /\ Older(a) \in 0..Oldest
         /\ \A k \in Int : Older(a) \div MINUTE =< k => a \div MINUTE =< k
<1>1. Older(a) \in 0..Oldest /\ a \in Nat
  BY OldestType DEF Older
<1>2. CASE a < Oldest
  BY <1>1, <1>2, MinutesGrow DEF Older
<1>3. CASE ~(a < Oldest)
  BY <1>1, <1>3 DEF Older
<1> QED BY <1>1, <1>2, <1>3

\* The invariant, unfolded for a client and for a position of the list.
LEMMA DescribedType ==
  ASSUME NEW m \in Message, m.port # NoPort
  PROVE  /\ Described(m) \in Client
         /\ Described(m).clientPort = m.port /\ m.port \in Port
<1>1. m.port \in Port /\ m.ident \in Ident /\ m.interval \in Interval \cup {NoInterval}
  BY DEF Message
<1>2. getHeartbeatInterval(m) \in Int
  <2>1. CASE m.interval = NoInterval
    BY <2>1, HubAssumption DEF getHeartbeatInterval
  <2>2. CASE m.interval # NoInterval
    <3>1. m.interval \in Int
      <4>1. Interval \subseteq Int
        BY HubAssumption
      <4>2. m.interval \in Interval
        BY <1>1, <2>2
      <4> QED BY <4>1, <4>2
    <3>2. MAX_INTERVAL \in Int
      BY HubAssumption
    <3> QED BY <2>2, <3>1, <3>2 DEF getHeartbeatInterval
  <2> QED BY <2>1, <2>2
<1>3. 0 \in 0..Oldest
  BY OldestType
<1> QED BY <1>1, <1>2, <1>3 DEF Described, Client

\* What a list of clients holds.
LEMMA Listed ==
  ASSUME NEW L \in Seq(Client)
  PROVE  /\ \A i \in DOMAIN L : L[i] \in Client /\ L[i].clientPort \in Port
         /\ {L[i].clientPort : i \in DOMAIN L} \subseteq Port
<1>1. \A i \in DOMAIN L : L[i] \in Client
  OBVIOUS
<1>2. \A c \in Client : c.clientPort \in Port
  BY DEF Client
<1> QED BY <1>1, <1>2

LEMMA Initial == Init => Inv
<1> SUFFICES ASSUME Init PROVE Inv
  OBVIOUS
<1>1. TypeOK
  <2>1. clientList \in Seq(Client) /\ clientIndex \in 0..Len(clientList)
    BY DEF Init
  <2>2. sinceCheck \in 0..MINUTE
    BY HubAssumption DEF Init
  <2>3. heard \in [Port -> Client \cup {NotHeard}]
    BY DEF Init
  <2> QED BY <2>1, <2>2, <2>3 DEF Init, TypeOK
<1>2. OnePerPort /\ ListMirrorsHeard /\ LiveClientKept
  BY DEF Init, OnePerPort, ListMirrorsHeard, LiveClientKept
<1> QED BY <1>1, <1>2 DEF Inv
-----------------------------------------------------------------------------
\* A message adds a client whose port is not listed, or overwrites its record.
LEMMA MessageStep ==
  ASSUME Inv, NEW m \in Message, handleXPLMessage(m)
  PROVE  Inv'
<1>1. CASE UNCHANGED <<clientList, heard>>
  <2>1. rebroadcast' \subseteq Port
    BY <1>1, Listed DEF handleXPLMessage, rebroadcastMessageToClients, Inv, TypeOK
  <2>2. TypeOK'
    BY <1>1, <2>1 DEF handleXPLMessage, Inv, TypeOK
  <2> QED BY <1>1, <2>2 DEF Inv, OnePerPort, ListMirrorsHeard, LiveClientKept, Known
<1>2. CASE /\ ~Irrelevant(m) /\ ~Known(m.port)
           /\ clientList' = Append(clientList, Described(m))
           /\ heard' = [heard EXCEPT ![m.port] = Described(m)]
  <2> DEFINE d == Described(m)  n == Len(clientList)
  <2>1. d \in Client /\ d.clientPort = m.port /\ m.port \in Port
    BY <1>2, DescribedType DEF Irrelevant
  <2>2. clientList \in Seq(Client) /\ n \in Nat
    BY DEF Inv, TypeOK
  <2> HIDE DEF d
  <2>3. /\ clientList' \in Seq(Client) /\ Len(clientList') = n + 1
        /\ \A i \in 1..n : clientList'[i] = clientList[i]
        /\ clientList'[n + 1] = d
    BY <1>2, <2>1, <2>2 DEF d
  <2>4. \A i \in 1..n : clientList[i].clientPort # m.port /\ clientList[i] \in Client
    BY <1>2, <2>2 DEF Known
  <2>5. /\ heard' \in [Port -> Client \cup {NotHeard}]
        /\ heard'[m.port] = d
        /\ \A p \in Port : p # m.port => heard'[p] = heard[p]
    BY <1>2, <2>1 DEF d, Inv, TypeOK
  <2> DEFINE L == clientList'
  <2>6. rebroadcast' \subseteq Port
    BY <2>3, Listed DEF handleXPLMessage, rebroadcastMessageToClients
  <2>7. TypeOK'
    BY <2>2, <2>3, <2>5, <2>6 DEF handleXPLMessage, Inv, TypeOK
  <2>8. OnePerPort'
    BY <2>1, <2>2, <2>3, <2>4 DEF Inv, OnePerPort
  <2>9. ListMirrorsHeard'
    <3>1. \A i \in 1..n : clientList[i].clientPort \in Port /\ heard[clientList[i].clientPort] = clientList[i]
      BY <2>2, <2>4 DEF Inv, ListMirrorsHeard, Client
    <3> QED BY <2>1, <2>2, <2>3, <2>4, <2>5, <3>1 DEF ListMirrorsHeard
  <2>10. LiveClientKept'
    <3> SUFFICES ASSUME NEW p \in Port, heard'[p] # NotHeard, Fresh(heard'[p])
                 PROVE  \E i \in DOMAIN clientList' : clientList'[i].clientPort = p
      BY DEF LiveClientKept, Known, Fresh
    <3>1. CASE p = m.port
      BY <2>1, <2>2, <2>3, <3>1
    <3>2. CASE p # m.port
      <4>1. \E i \in DOMAIN clientList : clientList[i].clientPort = p
        BY <2>5, <3>2 DEF Inv, LiveClientKept, Known
      <4> QED BY <2>2, <2>3, <4>1
    <3> QED BY <3>1, <3>2
  <2> QED BY <2>7, <2>8, <2>9, <2>10 DEF Inv
<1>3. CASE ~Irrelevant(m) /\ Known(m.port) /\ updateClient(m)
  <2> DEFINE d == Described(m)
  <2>1. d \in Client /\ d.clientPort = m.port /\ m.port \in Port
    BY <1>3, DescribedType DEF Irrelevant
  <2> HIDE DEF d
  <2>2. clientList \in Seq(Client) /\ DOMAIN clientList = 1..Len(clientList)
    BY DEF Inv, TypeOK
  <2>3. /\ DOMAIN clientList' = DOMAIN clientList
        /\ \A i \in DOMAIN clientList :
             clientList'[i] = IF clientList[i].clientPort = m.port THEN d ELSE clientList[i]
    BY <1>3 DEF updateClient, d
  <2>4. clientList' \in Seq(Client) /\ Len(clientList') = Len(clientList)
    <3>1. \A i \in DOMAIN clientList : clientList[i] \in Client
      BY <2>2
    <3>2. clientList' = [i \in 1..Len(clientList) |-> clientList'[i]]
      BY <1>3, <2>2, <2>3 DEF updateClient
    <3>3. \A i \in 1..Len(clientList) : clientList'[i] \in Client
      BY <2>1, <2>2, <2>3, <3>1
    <3> QED BY <2>2, <3>2, <3>3
  <2>5. /\ heard' \in [Port -> Client \cup {NotHeard}]
        /\ heard'[m.port] = d
        /\ \A p \in Port : p # m.port => heard'[p] = heard[p]
    BY <1>3, <2>1 DEF updateClient, d, Inv, TypeOK
  <2>6. rebroadcast' \subseteq Port
    BY <2>4, Listed DEF handleXPLMessage, rebroadcastMessageToClients
  <2>7. TypeOK'
    BY <2>4, <2>5, <2>6 DEF handleXPLMessage, Inv, TypeOK
  <2>8. \A i \in DOMAIN clientList : clientList'[i].clientPort = clientList[i].clientPort
    BY <2>1, <2>3
  <2>9. OnePerPort'
    BY <2>3, <2>8 DEF Inv, OnePerPort
  <2>10. ListMirrorsHeard'
    <3>1. \A i \in DOMAIN clientList : clientList[i].clientPort \in Port /\ heard[clientList[i].clientPort] = clientList[i]
      BY <2>2, Listed DEF Inv, ListMirrorsHeard
    <3> QED BY <2>1, <2>3, <2>5, <3>1 DEF ListMirrorsHeard
  <2>11. LiveClientKept'
    <3> SUFFICES ASSUME NEW p \in Port, heard'[p] # NotHeard, Fresh(heard'[p])
                 PROVE  \E i \in DOMAIN clientList' : clientList'[i].clientPort = p
      BY DEF LiveClientKept, Known, Fresh
    <3>1. Known(p)
      BY <1>3, <2>5 DEF Inv, LiveClientKept
    <3> QED BY <2>3, <2>8, <3>1 DEF Known
  <2> QED BY <2>7, <2>9, <2>10, <2>11 DEF Inv
<1>4. CASE /\ ~Irrelevant(m) /\ ~Known(m.port)
           /\ UNCHANGED clientList
           /\ heard' = [heard EXCEPT ![m.port] = NotHeard]
  <2>1. rebroadcast' \subseteq Port
    BY <1>4, Listed DEF handleXPLMessage, rebroadcastMessageToClients, Inv, TypeOK
  <2>2. m.port \in Port
    BY <1>4 DEF Irrelevant, Message
  <2>3. /\ heard' \in [Port -> Client \cup {NotHeard}]
        /\ heard'[m.port] = NotHeard
        /\ \A p \in Port : p # m.port => heard'[p] = heard[p]
    BY <1>4, <2>2 DEF Inv, TypeOK
  <2>4. TypeOK'
    BY <1>4, <2>1, <2>3 DEF handleXPLMessage, Inv, TypeOK
  <2>5. ListMirrorsHeard'
    <3>1. \A i \in DOMAIN clientList :
            clientList[i].clientPort \in Port /\ clientList[i].clientPort # m.port
      BY <1>4, Listed DEF Inv, TypeOK, Known
    <3> QED BY <1>4, <2>3, <3>1 DEF Inv, ListMirrorsHeard
  <2>6. LiveClientKept'
    <3> SUFFICES ASSUME NEW p \in Port, heard'[p] # NotHeard, Fresh(heard'[p])
                 PROVE  \E i \in DOMAIN clientList' : clientList'[i].clientPort = p
      BY DEF LiveClientKept, Known, Fresh
    <3> QED BY <1>4, <2>3 DEF Inv, LiveClientKept, Known
  <2> QED BY <1>4, <2>4, <2>5, <2>6 DEF Inv, OnePerPort
<1> QED BY <1>1, <1>2, <1>3, <1>4 DEF handleXPLMessage, checkForClientUpdates, addNewClient

\* The list after one client is released, on a machine that copies upwards.
LEMMA CheckStep ==
  ASSUME Copies = {"ascending"}, Inv, CheckClient
  PROVE  Inv'
<1> DEFINE n == Len(clientList)  j == clientIndex
<1>1. clientList \in Seq(Client) /\ n \in Nat /\ j \in 1..n /\ DOMAIN clientList = 1..n
  BY DEF Inv, TypeOK, CheckClient
<1>2. /\ hubRunning' = hubRunning /\ sinceCheck' = sinceCheck
      /\ rebroadcast' = rebroadcast /\ heard' = heard /\ clientIndex' = j - 1
  BY DEF CheckClient
<1>3. CASE ~Expired(clientList[j])
  <2>1. clientList' = clientList
    BY <1>3 DEF CheckClient
  <2>2. TypeOK'
    BY <1>1, <1>2, <2>1 DEF Inv, TypeOK
  <2> QED BY <1>2, <2>1, <2>2 DEF Inv, OnePerPort, ListMirrorsHeard, LiveClientKept, Known
<1>4. CASE Expired(clientList[j])
  <2> DEFINE up(k) == IF k < j THEN k ELSE k + 1
  <2>1. clientList' = releaseClient(j, "ascending")
    BY <1>4 DEF CheckClient
  <2>2. clientList' = [k \in 1..(n - 1) |-> clientList[up(k)]]
    BY <2>1 DEF releaseClient
  <2>3. \A k \in 1..(n - 1) : up(k) \in 1..n /\ up(k) # j
    BY <1>1
  <2>4. \A k, l \in 1..(n - 1) : up(k) = up(l) => k = l
    BY <1>1
  <2>5. \A i \in 1..n : i # j => \E k \in 1..(n - 1) : up(k) = i
    <3> SUFFICES ASSUME NEW i \in 1..n, i # j
                 PROVE  \E k \in 1..(n - 1) : up(k) = i
      OBVIOUS
    <3>1. CASE i < j
      BY <1>1, <3>1
    <3>2. CASE i > j
      <4>1. i - 1 \in 1..(n - 1) /\ up(i - 1) = i
        BY <1>1, <3>2
      <4> QED BY <4>1
    <3> QED BY <1>1, <3>1, <3>2
  <2> HIDE DEF up
  <2>6. \A i \in 1..n : clientList[i] \in Client /\ clientList[i].clientPort \in Port
    BY <1>1, Listed
  <2>7. clientList' \in Seq(Client) /\ Len(clientList') = n - 1 /\ DOMAIN clientList' = 1..(n - 1)
    <3>1. \A k \in 1..(n - 1) : clientList[up(k)] \in Client
      BY <2>3, <2>6
    <3>2. n - 1 \in Nat
      BY <1>1
    <3> QED BY <2>2, <3>1, <3>2
  <2>8. \A k \in 1..(n - 1) : clientList'[k] = clientList[up(k)]
    BY <2>2
  <2>9. TypeOK'
    <3>1. clientIndex' \in 0..Len(clientList')
      BY <1>1, <1>2, <2>7
    <3> QED BY <1>2, <2>7, <3>1 DEF Inv, TypeOK
  <2>10. OnePerPort'
    <3> SUFFICES ASSUME NEW k \in 1..(n - 1), NEW l \in 1..(n - 1), k # l
                 PROVE  clientList'[k].clientPort # clientList'[l].clientPort
      BY <2>7 DEF OnePerPort
    <3>1. up(k) \in DOMAIN clientList /\ up(l) \in DOMAIN clientList /\ up(k) # up(l)
      BY <1>1, <2>3, <2>4
    <3>2. clientList[up(k)].clientPort # clientList[up(l)].clientPort
      BY <3>1 DEF Inv, OnePerPort
    <3> QED BY <2>8, <3>2
  <2>11. ListMirrorsHeard'
    BY <1>1, <1>2, <2>3, <2>7, <2>8 DEF Inv, ListMirrorsHeard
  <2>12. LiveClientKept'
    <3> SUFFICES ASSUME NEW p \in Port, heard[p] # NotHeard, Fresh(heard[p])
                 PROVE  \E k \in DOMAIN clientList' : clientList'[k].clientPort = p
      BY <1>2 DEF LiveClientKept, Known, Fresh
    <3>1. PICK i \in 1..n : clientList[i].clientPort = p
      BY <1>1 DEF Inv, LiveClientKept, Known
    <3>2. clientList[i] = heard[p]
      BY <1>1, <3>1 DEF Inv, ListMirrorsHeard
    <3>3. i # j
      <4> SUFFICES ASSUME i = j PROVE FALSE
        OBVIOUS
      <4> DEFINE q == heard[p].lastHeardFrom \div MINUTE
                 h == heard[p].heartbeatInterval
      <4>1. q >= h * 2 + 1 /\ q =< 2 * h
        BY <1>4, <3>2 DEF Expired, Fresh
      <4>2. h \in Int /\ q \in Int
        BY <1>1, <2>6, <3>1, <3>2, HubAssumption DEF Client
      <4> HIDE DEF q, h
      <4> QED BY <4>1, <4>2
    <3>4. PICK k \in 1..(n - 1) : up(k) = i
      BY <2>5, <3>3
    <3> QED BY <2>7, <2>8, <3>1, <3>4
  <2> QED BY <2>9, <2>10, <2>11, <2>12 DEF Inv
<1> QED BY <1>3, <1>4

\* Time ages the list and the history together.
LEMMA TickStep ==
  ASSUME Inv, Tick
  PROVE  Inv'
<1> DEFINE aged(c) == [c EXCEPT !.lastHeardFrom = Older(@)]
<1>1. clientList \in Seq(Client) /\ DOMAIN clientList = 1..Len(clientList) /\ Len(clientList) \in Nat
  BY DEF Inv, TypeOK
<1>2. \A i \in DOMAIN clientList : clientList[i] \in Client /\ clientList[i].clientPort \in Port
  BY <1>1, Listed
<1>3. ASSUME NEW c \in Client
      PROVE  /\ aged(c) \in Client /\ aged(c).clientPort = c.clientPort
             /\ Fresh(aged(c)) => Fresh(c)
  <2>1. c.lastHeardFrom \in 0..Oldest /\ c.heartbeatInterval \in Int
    BY DEF Client
  <2>2. /\ Older(c.lastHeardFrom) \in 0..Oldest
        /\ \A k \in Int : Older(c.lastHeardFrom) \div MINUTE =< k
                          => c.lastHeardFrom \div MINUTE =< k
    BY <2>1, OlderType
  <2>3. /\ aged(c) \in Client /\ aged(c).clientPort = c.clientPort
        /\ aged(c).lastHeardFrom = Older(c.lastHeardFrom)
        /\ aged(c).heartbeatInterval = c.heartbeatInterval
    BY <2>2 DEF Client
  <2>4. 2 * c.heartbeatInterval \in Int
    BY <2>1
  <2> HIDE DEF aged
  <2> QED BY <2>2, <2>3, <2>4 DEF Fresh
<1>4. /\ DOMAIN clientList' = DOMAIN clientList
      /\ \A i \in DOMAIN clientList : clientList'[i] = aged(clientList[i])
      /\ clientList' = [i \in 1..Len(clientList) |-> aged(clientList[i])]
  BY <1>1 DEF Tick
<1>5. /\ \A p \in Port : heard'[p] = IF heard[p] = NotHeard THEN NotHeard ELSE aged(heard[p])
      /\ heard' = [p \in Port |-> heard'[p]]
  BY DEF Tick
<1> HIDE DEF aged
<1>6. clientList' \in Seq(Client) /\ Len(clientList') = Len(clientList)
  BY <1>1, <1>2, <1>3, <1>4
<1>7. \A p \in Port : heard[p] # NotHeard => heard[p] \in Client
  BY DEF Inv, TypeOK
<1>8. TypeOK'
  <2>1. heard' \in [Port -> Client \cup {NotHeard}]
    BY <1>3, <1>5, <1>7
  <2>2. sinceCheck' \in 0..MINUTE
    <3>1. sinceCheck \in 0..MINUTE /\ MINUTE \in Nat
      BY HubAssumption DEF Inv, TypeOK
    <3> QED BY <3>1 DEF Tick
  <2>3. clientIndex' \in 0..Len(clientList')
    BY <1>6 DEF Tick, Inv, TypeOK
  <2> QED BY <1>6, <2>1, <2>2, <2>3 DEF Tick, Inv, TypeOK
<1>9. \A i \in DOMAIN clientList : clientList'[i].clientPort = clientList[i].clientPort
  BY <1>2, <1>3, <1>4
<1>10. OnePerPort'
  <2> SUFFICES ASSUME NEW i \in DOMAIN clientList, NEW j \in DOMAIN clientList,
                      clientList'[i].clientPort = clientList'[j].clientPort
               PROVE  i = j
    BY <1>4 DEF OnePerPort
  <2>1. clientList[i].clientPort = clientList[j].clientPort
    BY <1>9
  <2> QED BY <2>1 DEF Inv, OnePerPort
<1>11. ListMirrorsHeard'
  <2> SUFFICES ASSUME NEW i \in DOMAIN clientList
               PROVE  heard'[clientList[i].clientPort] = aged(clientList[i])
    BY <1>4, <1>9 DEF ListMirrorsHeard
  <2> DEFINE p == clientList[i].clientPort
  <2>1. p \in Port /\ heard[p] = clientList[i]
    BY <1>2 DEF Inv, ListMirrorsHeard
  <2>2. heard[p] # NotHeard
    BY <1>2, <2>1, NotHeardAssumption
  <2> QED BY <1>5, <2>1, <2>2
<1>12. LiveClientKept'
  <2> SUFFICES ASSUME NEW p \in Port, heard'[p] # NotHeard, Fresh(heard'[p])
               PROVE  \E i \in DOMAIN clientList' : clientList'[i].clientPort = p
    BY DEF LiveClientKept, Known, Fresh
  <2>1. heard[p] # NotHeard /\ Fresh(heard[p])
    BY <1>3, <1>5, <1>7
  <2> QED BY <1>4, <1>9, <2>1 DEF Inv, LiveClientKept, Known
<1> QED BY <1>8, <1>10, <1>11, <1>12 DEF Inv

LEMMA Preserved ==
  ASSUME Copies = {"ascending"}, Inv, [Next]_vars
  PROVE  Inv'
<1>1. CASE startHub
  <2>1. TypeOK'
    BY <1>1, HubAssumption DEF startHub, Inv, TypeOK
  <2> QED BY <1>1, <2>1
       DEF startHub, Inv, OnePerPort, ListMirrorsHeard, LiveClientKept, Known
<1>2. CASE stopHub
  <2>1. clientList' \in Seq(Client) /\ clientIndex' \in 0..Len(clientList')
    BY <1>2 DEF stopHub
  <2>2. TypeOK'
    BY <1>2, <2>1 DEF stopHub, Inv, TypeOK
  <2>3. OnePerPort' /\ ListMirrorsHeard' /\ LiveClientKept'
    BY <1>2 DEF stopHub, OnePerPort, ListMirrorsHeard, LiveClientKept
  <2> QED BY <2>2, <2>3 DEF Inv
<1>3. ASSUME NEW m \in Message, handleXPLMessage(m) PROVE Inv'
  BY <1>3, MessageStep
<1>4. CASE StartChecks
  <2>1. TypeOK'
    BY <1>4, HubAssumption DEF StartChecks, Inv, TypeOK
  <2> QED BY <1>4, <2>1
       DEF StartChecks, Inv, OnePerPort, ListMirrorsHeard, LiveClientKept, Known
<1>5. CASE CheckClient
  BY <1>5, CheckStep
<1>6. CASE Tick
  BY <1>6, TickStep
<1>7. CASE UNCHANGED vars
  BY <1>7 DEF vars, Inv, TypeOK, OnePerPort, ListMirrorsHeard, LiveClientKept, Known
<1> QED BY <1>1, <1>2, <1>3, <1>4, <1>5, <1>6, <1>7 DEF Next

LEMMA Invariance == ASSUME Copies = {"ascending"} PROVE Spec => []Inv
<1>1. Inv /\ [Next]_vars => Inv'
  BY Preserved
<1> QED BY <1>1, Initial, PTL DEF Spec
-----------------------------------------------------------------------------
\* The client list is a list of clients of local ports and the index of the
\* timeout check stays in it, while clients are added, removed and checked
\* (clientList and doClientTimeoutChecks, xPL-hub.c:34-44 and :413-437).
THEOREM HubTyped ==
  ASSUME Copies = {"ascending"} PROVE Spec => []TypeOK
<1>1. Inv => TypeOK
  BY DEF Inv
<1> QED BY <1>1, Invariance, PTL

\* The hub's client list names no port twice, for any number of ports and
\* any traffic (findClientByPort, addNewClient and releaseClient,
\* xPL-hub.c:209-304).
THEOREM PortsListedOnce ==
  ASSUME Copies = {"ascending"} PROVE Spec => []OnePerPort
<1>1. Inv => OnePerPort
  BY DEF Inv
<1> QED BY <1>1, Invariance, PTL

\* Every record of the list is the last heartbeat of its port: neither the
\* update of one client nor the removal of another mixes records up.
THEOREM RecordsAreHeartbeats ==
  ASSUME Copies = {"ascending"} PROVE Spec => []ListMirrorsHeard
<1>1. Inv => ListMirrorsHeard
  BY DEF Inv
<1> QED BY <1>1, Invariance, PTL

\* No client is taken off the list before it has been silent for more than
\* twice the interval it announced (xPL-hub.c:415-437).
THEOREM LiveClientsStay ==
  ASSUME Copies = {"ascending"} PROVE Spec => []LiveClientKept
<1>1. Inv => LiveClientKept
  BY DEF Inv
<1> QED BY <1>1, Invariance, PTL
=============================================================================
