---------------------------- MODULE XplIo_proofs ----------------------------
(***************************************************************************)
(* Proofs about the event loop, for any devices, handlers and intervals,   *)
(* where handlers take no other handler off the lists.                     *)
(***************************************************************************)
EXTENDS XplIo, TLAPS

Entry == [fd : Device, revents : BOOLEAN]
Timer == [handler : Handler, age : 0..MaxAge]

\* A device is in the list once, and the socket while the library is open.
DevicesOnce ==
  /\ \A i, j \in DOMAIN devices : devices[i].fd = devices[j].fd => i = j
  /\ ~open => \A i \in DOMAIN devices : devices[i].fd # Xpl

\* What the loop over the devices has not come to yet is still ready.
StillReady ==
  pc = "dispatch" => \A i \in 1..index : devices[i].revents => devices[i].fd \in ready

\* A handler is in the list once, and no stamp is older than its handler's
\* last call.
TimersOnce == \A i, j \in DOMAIN timers : timers[i].handler = timers[j].handler => i = j
StampsOld ==
  /\ since \in [Handler -> 0..MaxAge]
  /\ \A i \in DOMAIN timers : timers[i].age =< since[timers[i].handler]

Inv == IoTypeOK /\ DevicesOnce /\ StillReady /\ TimersOnce /\ StampsOld
-----------------------------------------------------------------------------
LEMMA AgeType ==
  /\ MaxAge \in Nat
  /\ \A a \in 0..MaxAge : Older(a) \in 0..MaxAge
  /\ \A a, b \in 0..MaxAge : a =< b => Older(a) =< Older(b)
<1> DEFINE Limits == {1} \cup {Interval[h] : h \in Handler}
<1>1. MaxAge \in Limits
  <2>1. PICK a \in Limits : \A b \in Limits : b =< a
    BY IoAssumption
  <2> QED BY <2>1 DEF MaxAge
<1>2. MaxAge \in Nat
  BY <1>1, IoAssumption
<1> QED BY <1>2 DEF Older

\* A list without its k-th entry.
LEMMA Removing ==
  ASSUME NEW S, NEW list \in Seq(S), NEW k \in 1..Len(list)
  PROVE  /\ RemoveAt(list, k) \in Seq(S)
         /\ Len(RemoveAt(list, k)) = Len(list) - 1
         /\ DOMAIN RemoveAt(list, k) = 1..Len(list) - 1
         /\ \A i \in 1..Len(list) - 1 :
              RemoveAt(list, k)[i] = IF i < k THEN list[i] ELSE list[i + 1]
<1>1. /\ SubSeq(list, 1, k - 1) \in Seq(S) /\ Len(SubSeq(list, 1, k - 1)) = k - 1
      /\ \A i \in 1..k - 1 : SubSeq(list, 1, k - 1)[i] = list[i]
  OBVIOUS
<1>2. /\ SubSeq(list, k + 1, Len(list)) \in Seq(S)
      /\ Len(SubSeq(list, k + 1, Len(list))) = Len(list) - k
      /\ \A i \in 1..Len(list) - k : SubSeq(list, k + 1, Len(list))[i] = list[k + i]
  OBVIOUS
<1> DEFINE a == SubSeq(list, 1, k - 1)  b == SubSeq(list, k + 1, Len(list))
<1>3. RemoveAt(list, k) = a \o b
  BY DEF RemoveAt
<1> HIDE DEF a, b
<1>4. a \in Seq(S) /\ b \in Seq(S) /\ Len(a) = k - 1 /\ Len(b) = Len(list) - k
  BY <1>1, <1>2 DEF a, b
<1>5. /\ a \o b \in Seq(S) /\ Len(a \o b) = Len(list) - 1
      /\ \A i \in 1..Len(list) - 1 : (a \o b)[i] = IF i =< k - 1 THEN a[i] ELSE b[i - (k - 1)]
  BY <1>4
<1>6. \A i \in 1..Len(list) - 1 : (a \o b)[i] = IF i < k THEN list[i] ELSE list[i + 1]
  <2> SUFFICES ASSUME NEW i \in 1..Len(list) - 1
               PROVE  (a \o b)[i] = IF i < k THEN list[i] ELSE list[i + 1]
    OBVIOUS
  <2>1. CASE i < k
    BY <1>1, <1>5, <2>1 DEF a
  <2>2. CASE ~(i < k)
    <3>1. i - (k - 1) \in 1..Len(list) - k /\ k + (i - (k - 1)) = i + 1
      BY <2>2
    <3> QED BY <1>2, <1>5, <2>2, <3>1 DEF b
  <2> QED BY <2>1, <2>2
<1>7. DOMAIN (a \o b) = 1..Len(list) - 1
  <2>1. DOMAIN (a \o b) = 1..Len(a \o b)
    BY <1>5
  <2> QED BY <1>5, <2>1
<1> QED BY <1>3, <1>5, <1>6, <1>7

\* Of a list in which the k-th entry is the only one of its kind, that entry
\* goes; without such an entry the list stays.
LEMMA WithoutOne ==
  ASSUME NEW list, NEW d, NEW k \in 1..Len(list), list[k].fd = d,
         \A i \in 1..Len(list) : list[i].fd = d => i = k, Len(list) \in Nat
  PROVE  WithoutDevice(list, d) = RemoveAt(list, k)
<1> DEFINE I == {i \in 1..Len(list) : list[i].fd = d}
<1>1. I = {k}
  OBVIOUS
<1>2. Min(I) = k
  BY <1>1 DEF Min
<1>3. SelectInSeq(list, LAMBDA e : e.fd = d) = k
  BY <1>1, <1>2 DEF SelectInSeq
<1> QED BY <1>3 DEF WithoutDevice, Without

LEMMA WithoutNone ==
  ASSUME NEW list, NEW d, \A i \in 1..Len(list) : list[i].fd # d
  PROVE  WithoutDevice(list, d) = list
<1>1. SelectInSeq(list, LAMBDA e : e.fd = d) = 0
  BY DEF SelectInSeq
<1> QED BY <1>1 DEF WithoutDevice, Without

LEMMA WithoutOneTimer ==
  ASSUME NEW list, NEW h, NEW k \in 1..Len(list), list[k].handler = h,
         \A i \in 1..Len(list) : list[i].handler = h => i = k, Len(list) \in Nat
  PROVE  WithoutTimer(list, h) = RemoveAt(list, k)
<1> DEFINE I == {i \in 1..Len(list) : list[i].handler = h}
<1>1. I = {k}
  OBVIOUS
<1>2. Min(I) = k
  BY <1>1 DEF Min
<1>3. SelectInSeq(list, LAMBDA e : e.handler = h) = k
  BY <1>1, <1>2 DEF SelectInSeq
<1> QED BY <1>3 DEF WithoutTimer, Without

\* What is left of the devices when the device d goes.
LEMMA DeviceGone ==
  ASSUME Inv, NEW d \in Device
  PROVE  LET left == WithoutDevice(devices, d) IN
         /\ left \in Seq(Entry)
         /\ \A i \in DOMAIN left : left[i].fd # d
         /\ \A i, j \in DOMAIN left : left[i].fd = left[j].fd => i = j
         /\ \A i \in DOMAIN left : \E j \in DOMAIN devices : left[i] = devices[j]
         /\ \A k \in DOMAIN devices : devices[k].fd = d =>
              /\ Len(left) = Len(devices) - 1
              /\ \A i \in 1..k - 1 : left[i] = devices[i]
<1> DEFINE left == WithoutDevice(devices, d)  n == Len(devices)
<1>1. devices \in Seq(Entry) /\ n \in Nat /\ DOMAIN devices = 1..n
  BY DEF Inv, IoTypeOK, Entry
<1>2. \A i, j \in 1..n : devices[i].fd = devices[j].fd => i = j
  BY <1>1 DEF Inv, DevicesOnce
<1>3. CASE \E k \in 1..n : devices[k].fd = d
  <2>1. PICK k \in 1..n : devices[k].fd = d
    BY <1>3
  <2>2. left = RemoveAt(devices, k)
    <3>1. \A i \in 1..n : devices[i].fd = d => i = k
      BY <1>2, <2>1
    <3> QED BY <1>1, <2>1, <3>1, WithoutOne
  <2>3. /\ left \in Seq(Entry) /\ Len(left) = n - 1 /\ DOMAIN left = 1..n - 1
        /\ \A i \in 1..n - 1 : left[i] = IF i < k THEN devices[i] ELSE devices[i + 1]
    <3>1. LET gone == RemoveAt(devices, k) IN
          /\ gone \in Seq(Entry) /\ Len(gone) = n - 1 /\ DOMAIN gone = 1..n - 1
          /\ \A i \in 1..n - 1 : gone[i] = IF i < k THEN devices[i] ELSE devices[i + 1]
      BY <1>1, Removing
    <3> HIDE DEF left
    <3> QED BY <2>2, <3>1
  <2> DEFINE up(i) == IF i < k THEN i ELSE i + 1
  <2>4. \A i \in 1..n - 1 : up(i) \in 1..n /\ up(i) # k /\ left[i] = devices[up(i)]
    BY <1>1, <2>3
  <2>5. \A i, j \in 1..n - 1 : up(i) = up(j) => i = j
    BY <1>1
  <2>6. \A i \in 1..k - 1 : left[i] = devices[i]
    BY <1>1, <2>3
  <2> HIDE DEF up, left
  <2>7. \A i \in DOMAIN left : left[i].fd # d
    BY <1>2, <2>1, <2>3, <2>4
  <2>8. \A i, j \in DOMAIN left : left[i].fd = left[j].fd => i = j
    BY <1>2, <2>3, <2>4, <2>5
  <2>9. \A i \in DOMAIN left : \E j \in DOMAIN devices : left[i] = devices[j]
    BY <1>1, <2>3, <2>4
  <2>10. \A l \in DOMAIN devices : devices[l].fd = d => l = k
    BY <1>1, <1>2, <2>1
  <2> QED BY <2>3, <2>6, <2>7, <2>8, <2>9, <2>10 DEF left
<1>4. CASE \A k \in 1..n : devices[k].fd # d
  <2>1. left = devices
    BY <1>4, WithoutNone
  <2> HIDE DEF left
  <2>2. \A i \in DOMAIN left : left[i].fd # d
    BY <1>1, <1>4, <2>1
  <2> QED BY <1>1, <1>2, <1>4, <2>1, <2>2 DEF left
<1> QED BY <1>3, <1>4

\* What is left of the timeouts when the one at k goes.
LEMMA TimerGone ==
  ASSUME Inv, NEW k \in DOMAIN timers
  PROVE  LET left == WithoutTimer(timers, timers[k].handler) IN
         /\ left \in Seq(Timer) /\ Len(left) = Len(timers) - 1
         /\ \A i \in DOMAIN left : left[i].handler # timers[k].handler
         /\ \A i, j \in DOMAIN left : left[i].handler = left[j].handler => i = j
         /\ \A i \in DOMAIN left : \E j \in DOMAIN timers : left[i] = timers[j]
<1> DEFINE h == timers[k].handler  left == WithoutTimer(timers, h)  n == Len(timers)
<1>1. timers \in Seq(Timer) /\ n \in Nat /\ DOMAIN timers = 1..n
  BY DEF Inv, IoTypeOK, Timer
<1>2. \A i, j \in 1..n : timers[i].handler = timers[j].handler => i = j
  BY <1>1 DEF Inv, TimersOnce
<1>3. left = RemoveAt(timers, k)
  <2>1. \A i \in 1..n : timers[i].handler = h => i = k
    BY <1>1, <1>2
  <2> QED BY <1>1, <2>1, WithoutOneTimer
<1>4. /\ left \in Seq(Timer) /\ Len(left) = n - 1 /\ DOMAIN left = 1..n - 1
      /\ \A i \in 1..n - 1 : left[i] = IF i < k THEN timers[i] ELSE timers[i + 1]
  <2>1. LET gone == RemoveAt(timers, k) IN
        /\ gone \in Seq(Timer) /\ Len(gone) = n - 1 /\ DOMAIN gone = 1..n - 1
        /\ \A i \in 1..n - 1 : gone[i] = IF i < k THEN timers[i] ELSE timers[i + 1]
    BY <1>1, Removing
  <2> HIDE DEF left
  <2> QED BY <1>3, <2>1
<1> HIDE DEF left
<1> DEFINE up(i) == IF i < k THEN i ELSE i + 1
<1>5. \A i \in 1..n - 1 : up(i) \in 1..n /\ up(i) # k /\ left[i] = timers[up(i)]
  BY <1>1, <1>4
<1>6. \A i, j \in 1..n - 1 : up(i) = up(j) => i = j
  BY <1>1
<1> HIDE DEF up
<1>7. \A i \in DOMAIN left : left[i].handler # h
  <2>1. \A i \in 1..n - 1 : timers[up(i)].handler # h
    BY <1>1, <1>2, <1>5
  <2> QED BY <1>4, <1>5, <2>1
<1>8. \A i, j \in DOMAIN left : left[i].handler = left[j].handler => i = j
  BY <1>2, <1>4, <1>5, <1>6
<1>9. \A i \in DOMAIN left : \E j \in DOMAIN timers : left[i] = timers[j]
  BY <1>1, <1>4, <1>5
<1> QED BY <1>4, <1>7, <1>8, <1>9 DEF left
-----------------------------------------------------------------------------
\* xPL_shutdown takes the socket off the list.
LEMMA StoppedStep ==
  ASSUME Inv, Stopped
  PROVE  /\ open' = FALSE /\ installed' = FALSE /\ timers' = timers
         /\ devices' \in Seq(Entry) /\ DevicesOnce'
<1>1. Xpl \in Device
  BY DEF Device
<1>2. devices' = WithoutDevice(devices, Xpl)
  BY DEF Stopped
<1>3. /\ devices' \in Seq(Entry)
      /\ \A i \in DOMAIN devices' : devices'[i].fd # Xpl
      /\ \A i, j \in DOMAIN devices' : devices'[i].fd = devices'[j].fd => i = j
  BY <1>1, <1>2, DeviceGone
<1> QED BY <1>3 DEF Stopped, DevicesOnce

LEMMA ShutdownStep ==
  ASSUME Inv, shutdown
  PROVE  Inv'
<1>1. Stopped /\ pc = "app" /\ pc' = pc /\ ready' = ready \ {Xpl} /\ since' = since
  BY DEF shutdown, clocks
<1>2. open' = FALSE /\ installed' = FALSE /\ timers' = timers
      /\ devices' \in Seq(Entry) /\ DevicesOnce'
  BY <1>1, StoppedStep
<1>3. IoTypeOK'
  BY <1>1, <1>2 DEF Inv, IoTypeOK, Entry
<1> QED BY <1>1, <1>2, <1>3 DEF Inv, StillReady, TimersOnce, StampsOld

\* A device's handler is called: it may take itself off the list or shut the
\* library down.
LEMMA DispatchStep ==
  ASSUME "removeOther" \notin Calls, Inv, Dispatch
  PROVE  Inv' /\ \A d \in Device : called' = <<"device", d>> => d \in ready
<1> DEFINE d == devices[index].fd
<1>1. /\ pc = "dispatch" /\ index \in 1..Len(devices) /\ devices[index].revents
      /\ devices \in Seq(Entry) /\ Len(devices) \in Nat /\ DOMAIN devices = 1..Len(devices)
      /\ ready \subseteq Device
  BY DEF Dispatch, Inv, IoTypeOK, Entry
<1>2. d \in Device /\ d \in ready
  <2>1. devices[index] \in Entry /\ index \in 1..index
    BY <1>1
  <2> QED BY <1>1, <2>1 DEF Entry, Inv, StillReady
<1>3. /\ called' = <<"device", d>> /\ DeviceCalls(d)
      /\ ready' = IF open' THEN ready \ {d} ELSE ready \ {d, Xpl}
      /\ index' = index - 1 /\ pc' \in {"loop", "dispatch"}
      /\ pc' = "dispatch" => open' /\ index' # 0
      /\ since' = since
  BY DEF Dispatch, NextDevice, clocks
<1>4. \A e \in Device : called' = <<"device", e>> => e \in ready
  BY <1>2, <1>3
<1>5. \A i \in 1..index - 1 : devices[i].revents => devices[i].fd \in ready \ {d}
  <2>1. \A i \in 1..index - 1 : i \in DOMAIN devices /\ i # index /\ i \in 1..index
    BY <1>1
  <2>2. \A i \in 1..index - 1 : devices[i].fd # d
    BY <1>1, <2>1 DEF Inv, DevicesOnce
  <2> QED BY <1>1, <2>1, <2>2 DEF Inv, StillReady
<1>6. ready' \subseteq Device /\ (Xpl \in ready' => open')
  BY <1>1, <1>3
<1>7. /\ devices' \in Seq(Entry) /\ DevicesOnce' /\ timers' = timers
      /\ open' \in BOOLEAN /\ installed' = open'
      /\ open' => /\ Len(devices') >= index - 1
                  /\ \A i \in 1..index - 1 : devices'[i] = devices[i]
  <2> HIDE DEF d
  <2>1. CASE UNCHANGED library
    BY <1>1, <2>1 DEF library, Inv, IoTypeOK, DevicesOnce
  <2>2. CASE devices' = WithoutDevice(devices, d) /\ UNCHANGED <<open, installed, timers>>
    <3>1. /\ devices' \in Seq(Entry)
          /\ \A i, j \in DOMAIN devices' : devices'[i].fd = devices'[j].fd => i = j
          /\ \A i \in DOMAIN devices' : \E j \in DOMAIN devices : devices'[i] = devices[j]
          /\ Len(devices') = Len(devices) - 1
          /\ \A i \in 1..index - 1 : devices'[i] = devices[i]
      <4>1. index \in DOMAIN devices /\ devices[index].fd = d
        BY <1>1 DEF d
      <4>2. LET left == WithoutDevice(devices, d) IN
            /\ left \in Seq(Entry)
            /\ \A i, j \in DOMAIN left : left[i].fd = left[j].fd => i = j
            /\ \A i \in DOMAIN left : \E j \in DOMAIN devices : left[i] = devices[j]
            /\ \A k \in DOMAIN devices : devices[k].fd = d =>
                 /\ Len(left) = Len(devices) - 1
                 /\ \A i \in 1..k - 1 : left[i] = devices[i]
        BY <1>2, DeviceGone
      <4> QED BY <2>2, <4>1, <4>2
    <3>2. DevicesOnce'
      BY <2>2, <3>1 DEF Inv, DevicesOnce
    <3> QED BY <1>1, <2>2, <3>1, <3>2 DEF Inv, IoTypeOK
  <2>3. CASE Stopped
    BY <2>3, StoppedStep
  <2> QED BY <1>3, <2>1, <2>2, <2>3 DEF DeviceCalls
<1> HIDE DEF d
<1>8. pc' = "dispatch" => index' \in 1..Len(devices')
  <2>1. Len(devices') \in Nat
    BY <1>7
  <2> QED BY <1>1, <1>3, <1>7, <2>1
<1>9. IoTypeOK'
  BY <1>3, <1>6, <1>7, <1>8 DEF Inv, IoTypeOK, Entry
<1>10. StillReady'
  <2> SUFFICES ASSUME pc' = "dispatch", NEW i \in 1..index', devices'[i].revents
               PROVE  devices'[i].fd \in ready'
    BY DEF StillReady
  <2>1. open' /\ i \in 1..index - 1 /\ devices'[i] = devices[i]
    BY <1>3, <1>7
  <2> QED BY <1>3, <1>5, <2>1
<1> QED BY <1>3, <1>4, <1>7, <1>9, <1>10 DEF Inv, TimersOnce, StampsOld

\* Stamping an entry anew leaves the list a list of the same handlers.
LEMMA StampedList ==
  ASSUME NEW list \in Seq(Timer), NEW k \in Nat
  PROVE  /\ Stamped(list, k) \in Seq(Timer)
         /\ Len(Stamped(list, k)) = Len(list)
         /\ DOMAIN Stamped(list, k) = DOMAIN list
         /\ \A i \in DOMAIN list : /\ Stamped(list, k)[i].handler = list[i].handler
                                   /\ i # k => Stamped(list, k)[i] = list[i]
                                   /\ i = k => Stamped(list, k)[i].age = 0
<1>1. list \in [1..Len(list) -> Timer] /\ Len(list) \in Nat /\ DOMAIN list = 1..Len(list)
  OBVIOUS
<1>2. CASE k \in DOMAIN list
  <2>1. Stamped(list, k) = [list EXCEPT ![k].age = 0]
    BY <1>2 DEF Stamped
  <2> DEFINE e == [list[k] EXCEPT !.age = 0]
  <2>2. list[k] \in Timer /\ 0 \in 0..MaxAge
    BY <1>1, <1>2, AgeType
  <2>3. e \in Timer /\ e.handler = list[k].handler /\ e.age = 0
    BY <2>2 DEF Timer
  <2>4. Stamped(list, k) = [list EXCEPT ![k] = e]
    BY <2>1
  <2> HIDE DEF e
  <2>5. Stamped(list, k) \in [1..Len(list) -> Timer]
    BY <1>1, <1>2, <2>3, <2>4
  <2>6. Stamped(list, k) \in Seq(Timer) /\ Len(Stamped(list, k)) = Len(list)
    BY <1>1, <2>5
  <2> QED BY <1>1, <1>2, <2>3, <2>4, <2>5, <2>6
<1>3. CASE k \notin DOMAIN list
  BY <1>1, <1>3 DEF Stamped
<1> QED BY <1>2, <1>3

\* A timeout handler that is due is called and may take itself off the list: the
\* stamp then goes to the entry that moved up to its place.
LEMMA CheckTimerStep ==
  ASSUME "removeOther" \notin Calls, Inv, CheckTimer
  PROVE  Inv' /\ \A h \in Handler : called' = <<"timer", h>> => since[h] >= Interval[h]
<1> DEFINE h == timers[index].handler
<1>1. /\ index \in 1..Len(timers) /\ pc = "checks" /\ pc' = pc /\ index' = index - 1
      /\ timers \in Seq(Timer) /\ Len(timers) \in Nat /\ DOMAIN timers = 1..Len(timers)
      /\ open' = open /\ installed' = installed /\ devices' = devices /\ ready' = ready
  BY DEF CheckTimer, Inv, IoTypeOK, Timer
<1>2. /\ h \in Handler /\ timers[index].age \in 0..MaxAge
      /\ timers[index].age =< since[h] /\ since[h] \in 0..MaxAge
      /\ Interval[h] \in Nat /\ MaxAge \in Nat
  <2>1. timers[index] \in Timer
    BY <1>1
  <2>2. h \in Handler /\ timers[index].age \in 0..MaxAge
    BY <2>1 DEF Timer
  <2> QED BY <1>1, <2>2, IoAssumption, AgeType DEF Inv, StampsOld
<1>3. DevicesOnce' /\ StillReady'
  BY <1>1 DEF Inv, DevicesOnce, StillReady
<1>4. /\ timers' \in Seq(Timer) /\ Len(timers') \in Nat /\ Len(timers') >= index - 1
      /\ TimersOnce' /\ StampsOld'
      /\ \A g \in Handler : called' = <<"timer", g>> => since[g] >= Interval[g]
  <2>1. CASE timers[index].age < Interval[h]
    <3>1. called' = Nothing /\ since' = since /\ timers' = timers
      BY <1>2, <2>1 DEF CheckTimer
    <3>2. \A g \in Handler : called' # <<"timer", g>>
      BY <3>1 DEF Nothing
    <3> QED BY <1>1, <3>1, <3>2 DEF Inv, TimersOnce, StampsOld
  <2>2. CASE timers[index].age >= Interval[h]
    <3>1. /\ called' = <<"timer", h>> /\ since' = [since EXCEPT ![h] = 0]
          /\ \E left \in TimersLeft(h) : timers' = Stamped(left, index)
      BY <1>2, <2>2 DEF CheckTimer
    <3>2. PICK left \in {timers, WithoutTimer(timers, h)} : timers' = Stamped(left, index)
      BY <3>1 DEF TimersLeft
    <3> HIDE DEF h
    <3>3. /\ left \in Seq(Timer) /\ Len(left) \in Nat /\ Len(left) >= Len(timers) - 1
          /\ \A i, j \in DOMAIN left : left[i].handler = left[j].handler => i = j
          /\ \A i \in DOMAIN left : \E j \in DOMAIN timers : left[i] = timers[j]
          /\ \A i \in DOMAIN left : left[i].handler = h => i = index
      <4>1. CASE left = timers
        BY <1>1, <4>1 DEF Inv, TimersOnce, h
      <4>2. CASE left = WithoutTimer(timers, h)
        <5>1. LET rest == WithoutTimer(timers, timers[index].handler) IN
              /\ rest \in Seq(Timer) /\ Len(rest) = Len(timers) - 1
              /\ \A i \in DOMAIN rest : rest[i].handler # timers[index].handler
              /\ \A i, j \in DOMAIN rest : rest[i].handler = rest[j].handler => i = j
              /\ \A i \in DOMAIN rest : \E j \in DOMAIN timers : rest[i] = timers[j]
          BY <1>1, TimerGone
        <5>2. left = WithoutTimer(timers, timers[index].handler)
          BY <4>2 DEF h
        <5>3. \A i \in DOMAIN left : left[i].handler # h
          BY <5>1, <5>2 DEF h
        <5>4. left \in Seq(Timer) /\ Len(left) = Len(timers) - 1
          BY <5>1, <5>2
        <5>5. /\ \A i, j \in DOMAIN left : left[i].handler = left[j].handler => i = j
              /\ \A i \in DOMAIN left : \E j \in DOMAIN timers : left[i] = timers[j]
          BY <5>1, <5>2
        <5>6. Len(left) \in Nat /\ Len(left) >= Len(timers) - 1
          BY <1>1, <5>4
        <5> QED BY <5>3, <5>4, <5>5, <5>6
      <4> QED BY <3>2, <4>1, <4>2
    <3>4. /\ timers' \in Seq(Timer) /\ Len(timers') = Len(left)
          /\ DOMAIN timers' = DOMAIN left
          /\ \A i \in DOMAIN left : /\ timers'[i].handler = left[i].handler
                                    /\ i # index => timers'[i] = left[i]
                                    /\ i = index => timers'[i].age = 0
      <4>1. index \in Nat
        BY <1>1
      <4> QED BY <3>2, <3>3, <4>1, StampedList
    <3>5. TimersOnce'
      BY <3>3, <3>4 DEF TimersOnce
    <3>6. /\ since' \in [Handler -> 0..MaxAge] /\ since'[h] = 0
          /\ \A g \in Handler : g # h => since'[g] = since[g]
      BY <1>2, <3>1 DEF Inv, StampsOld
    <3>7. ASSUME NEW i \in DOMAIN left
          PROVE  timers'[i].age =< since'[timers'[i].handler]
      <4>1. left[i] \in Timer /\ left[i].handler \in Handler
        <5>1. i \in 1..Len(left) /\ left \in [1..Len(left) -> Timer]
          BY <3>3
        <5>2. left[i] \in Timer
          BY <5>1
        <5> QED BY <5>2 DEF Timer
      <4>2. CASE i = index
        BY <3>4, <3>6, <4>1, <4>2
      <4>3. CASE i # index
        <5>1. timers'[i] = left[i] /\ left[i].handler # h
          BY <3>3, <3>4, <4>3
        <5>2. PICK j \in DOMAIN timers : left[i] = timers[j]
          BY <3>3
        <5>3. timers[j].age =< since[timers[j].handler]
          BY DEF Inv, StampsOld
        <5> QED BY <3>6, <4>1, <5>1, <5>2, <5>3
      <4> QED BY <4>2, <4>3
    <3>8. StampsOld'
      BY <3>4, <3>6, <3>7 DEF StampsOld
    <3>9. \A g \in Handler : called' = <<"timer", g>> => since[g] >= Interval[g]
      <4>1. since[h] >= Interval[h]
        BY <1>2, <2>2 DEF h
      <4> QED BY <3>1, <4>1
    <3> QED BY <1>1, <3>3, <3>4, <3>5, <3>8, <3>9
  <2> QED BY <1>2, <2>1, <2>2
<1>5. IoTypeOK'
  <2>1. index' \in 0..Len(timers')
    BY <1>1, <1>4
  <2> QED BY <1>1, <1>4, <2>1 DEF Inv, IoTypeOK, Timer
<1> QED BY <1>3, <1>4, <1>5 DEF Inv

\* A second passes: stamps and calls grow older together.
LEMMA TickStep ==
  ASSUME Inv, Tick
  PROVE  Inv'
<1>1. /\ open' = open /\ installed' = installed /\ devices' = devices /\ ready' = ready
      /\ pc' = pc /\ index' = index /\ pc \in {"app", "poll"}
  BY DEF Tick, loop
<1>2. timers \in Seq(Timer) /\ Len(timers) \in Nat /\ DOMAIN timers = 1..Len(timers)
  BY DEF Inv, IoTypeOK, Timer
<1>3. timers' \in Seq(Timer) /\ TimersOnce' /\ StampsOld'
  <2>1. CASE timers' = timers /\ since' = since
    BY <1>2, <2>1 DEF Inv, TimersOnce, StampsOld
  <2>2. CASE /\ since' = [h \in Handler |-> Older(since[h])]
             /\ timers' = [i \in DOMAIN timers |-> [timers[i] EXCEPT !.age = Older(@)]]
    <3>1. since \in [Handler -> 0..MaxAge] /\ since' \in [Handler -> 0..MaxAge]
      BY <2>2, AgeType DEF Inv, StampsOld
    <3>2. ASSUME NEW i \in DOMAIN timers
          PROVE  /\ timers'[i] \in Timer /\ timers'[i].handler = timers[i].handler
                 /\ timers'[i].age =< since'[timers'[i].handler]
      <4>1. /\ timers[i] \in Timer /\ timers[i].handler \in Handler
            /\ timers[i].age \in 0..MaxAge
        <5>1. timers[i] \in Timer
          BY <1>2
        <5> QED BY <5>1 DEF Timer
      <4>2. timers'[i] = [timers[i] EXCEPT !.age = Older(timers[i].age)]
        BY <2>2
      <4>3. Older(timers[i].age) \in 0..MaxAge
        BY <4>1, AgeType
      <4>4. /\ timers'[i] \in Timer /\ timers'[i].handler = timers[i].handler
            /\ timers'[i].age = Older(timers[i].age)
        BY <4>1, <4>2, <4>3 DEF Timer
      <4>5. timers[i].age =< since[timers[i].handler]
        BY DEF Inv, StampsOld
      <4>6. Older(timers[i].age) =< Older(since[timers[i].handler])
        BY <3>1, <4>1, <4>5, AgeType
      <4> QED BY <2>2, <4>1, <4>4, <4>6
    <3>3. timers' \in Seq(Timer) /\ DOMAIN timers' = DOMAIN timers
      <4>1. DOMAIN timers' = 1..Len(timers)
        BY <1>2, <2>2
      <4>2. timers' \in [1..Len(timers) -> Timer]
        BY <1>2, <2>2, <3>2, <4>1
      <4> QED BY <1>2, <4>1, <4>2
    <3>4. TimersOnce'
      BY <3>2, <3>3 DEF Inv, TimersOnce
    <3> QED BY <3>1, <3>2, <3>3, <3>4 DEF StampsOld
  <2> QED BY <2>1, <2>2 DEF Tick
<1> QED BY <1>1, <1>3 DEF Inv, IoTypeOK, Timer, DevicesOnce, StillReady
-----------------------------------------------------------------------------
LEMMA Initial ==
  Init => Inv
<1> SUFFICES ASSUME Init PROVE Inv
  OBVIOUS
<1>1. devices = <<>> /\ timers = <<>> /\ DOMAIN devices = {} /\ DOMAIN timers = {}
  BY DEF Init
<1>2. devices \in Seq(Entry) /\ timers \in Seq(Timer)
  BY <1>1
<1>3. since \in [Handler -> 0..MaxAge]
  BY AgeType DEF Init
<1>4. IoTypeOK
  BY <1>2 DEF Init, IoTypeOK, Entry, Timer
<1> QED BY <1>1, <1>3, <1>4 DEF Init, Inv, DevicesOnce, StillReady, TimersOnce, StampsOld

\* A new device comes last, polled for nothing yet.
LEMMA DeviceAdded ==
  ASSUME Inv, NEW d \in Device, \A i \in DOMAIN devices : devices[i].fd # d,
         devices' = Append(devices, [fd |-> d, revents |-> FALSE])
  PROVE  /\ devices' \in Seq(Entry)
         /\ \A i, j \in DOMAIN devices' : devices'[i].fd = devices'[j].fd => i = j
         /\ \A i \in DOMAIN devices' :
              devices'[i].fd = d \/ \E j \in DOMAIN devices : devices'[i] = devices[j]
<1> DEFINE n == Len(devices)  e == [fd |-> d, revents |-> FALSE]
<1>1. devices \in Seq(Entry) /\ n \in Nat /\ DOMAIN devices = 1..n
  BY DEF Inv, IoTypeOK, Entry
<1>2. e \in Entry /\ e.fd = d
  BY DEF Entry
<1> HIDE DEF e
<1>3. /\ devices' \in Seq(Entry) /\ Len(devices') = n + 1 /\ DOMAIN devices' = 1..n + 1
      /\ \A i \in 1..n : devices'[i] = devices[i]
      /\ devices'[n + 1] = e
  <2>1. devices' = Append(devices, e)
    BY DEF e
  <2> QED BY <1>1, <1>2, <2>1
<1>4. \A i, j \in 1..n : devices[i].fd = devices[j].fd => i = j
  BY <1>1 DEF Inv, DevicesOnce
<1>5. \A i \in DOMAIN devices' : i \in 1..n \/ i = n + 1
  BY <1>1, <1>3
<1> QED BY <1>1, <1>2, <1>3, <1>4, <1>5

LEMMA InitializeStep ==
  ASSUME Inv, initialize
  PROVE  Inv'
<1>1. /\ pc = "app" /\ pc' = pc /\ open' = TRUE /\ installed' = TRUE
      /\ timers' = timers /\ since' = since /\ ready' = ready
      /\ ~open /\ ~installed
  BY DEF initialize, clocks, Inv, IoTypeOK
<1>2. /\ devices' = Append(devices, [fd |-> Xpl, revents |-> FALSE])
      /\ \A i \in DOMAIN devices : devices[i].fd # Xpl
  BY <1>1 DEF initialize, Inv, DevicesOnce
<1>3. /\ devices' \in Seq(Entry)
      /\ \A i, j \in DOMAIN devices' : devices'[i].fd = devices'[j].fd => i = j
  <2>1. Xpl \in Device
    BY DEF Device
  <2> QED BY <1>2, <2>1, DeviceAdded
<1>4. IoTypeOK'
  BY <1>1, <1>3 DEF Inv, IoTypeOK, Entry
<1> QED BY <1>1, <1>3, <1>4 DEF Inv, DevicesOnce, StillReady, TimersOnce, StampsOld

LEMMA AddDeviceStep ==
  ASSUME Inv, NEW d \in User, addIODevice(d)
  PROVE  Inv'
<1>1. /\ pc = "app" /\ pc' = pc /\ open' = open /\ installed' = installed
      /\ timers' = timers /\ since' = since /\ ready' = ready
  BY DEF addIODevice, clocks
<1>2. d \in Device /\ d # Xpl
  BY IoAssumption DEF Device
<1>3. /\ devices' \in Seq(Entry)
      /\ \A i, j \in DOMAIN devices' : devices'[i].fd = devices'[j].fd => i = j
      /\ \A i \in DOMAIN devices' :
           devices'[i].fd = d \/ \E j \in DOMAIN devices : devices'[i] = devices[j]
  BY <1>2, DeviceAdded DEF addIODevice
<1>4. DevicesOnce'
  BY <1>1, <1>2, <1>3 DEF Inv, DevicesOnce
<1>5. IoTypeOK'
  BY <1>1, <1>3 DEF Inv, IoTypeOK, Entry
<1> QED BY <1>1, <1>4, <1>5 DEF Inv, StillReady, TimersOnce, StampsOld

LEMMA AddTimerStep ==
  ASSUME Inv, NEW h \in Handler, addTimeoutHandler(h)
  PROVE  Inv'
<1> DEFINE n == Len(timers)  e == [handler |-> h, age |-> 0]
<1>1. /\ pc = "app" /\ pc' = pc /\ open' = open /\ installed' = installed
      /\ devices' = devices /\ ready' = ready
      /\ since' = [since EXCEPT ![h] = 0] /\ timers' = Append(timers, e)
      /\ \A i \in DOMAIN timers : timers[i].handler # h
  BY DEF addTimeoutHandler, Listed
<1>2. /\ timers \in Seq(Timer) /\ n \in Nat /\ DOMAIN timers = 1..n
      /\ \A i \in 1..n : timers[i].handler \in Handler
  <2>1. timers \in Seq(Timer) /\ n \in Nat /\ DOMAIN timers = 1..n
    BY DEF Inv, IoTypeOK, Timer
  <2>2. \A i \in 1..n : timers[i] \in Timer
    BY <2>1
  <2> QED BY <2>1, <2>2 DEF Timer
<1>3. e \in Timer /\ e.handler = h /\ e.age = 0
  BY AgeType DEF Timer
<1> HIDE DEF e
<1>4. /\ timers' \in Seq(Timer) /\ Len(timers') = n + 1 /\ DOMAIN timers' = 1..n + 1
      /\ \A i \in 1..n : timers'[i] = timers[i]
      /\ timers'[n + 1] = e
  BY <1>1, <1>2, <1>3
<1>5. \A i \in DOMAIN timers' : i \in 1..n \/ i = n + 1
  BY <1>2, <1>4
<1>6. TimersOnce'
  <2>1. \A i, j \in 1..n : timers[i].handler = timers[j].handler => i = j
    BY <1>2 DEF Inv, TimersOnce
  <2> QED BY <1>1, <1>2, <1>3, <1>4, <1>5, <2>1 DEF TimersOnce
<1>7. StampsOld'
  <2>1. /\ since' \in [Handler -> 0..MaxAge] /\ since'[h] = 0
        /\ \A g \in Handler : g # h => since'[g] = since[g]
    BY <1>1, AgeType DEF Inv, StampsOld
  <2>2. \A i \in 1..n : timers'[i].age =< since'[timers'[i].handler]
    BY <1>1, <1>2, <1>4, <2>1 DEF Inv, StampsOld
  <2>3. timers'[n + 1].age =< since'[timers'[n + 1].handler]
    BY <1>3, <1>4, <2>1
  <2> QED BY <1>5, <2>1, <2>2, <2>3 DEF StampsOld
<1>8. IoTypeOK'
  BY <1>1, <1>4 DEF Inv, IoTypeOK, Timer
<1> QED BY <1>1, <1>6, <1>7, <1>8 DEF Inv, DevicesOnce, StillReady

\* poll marks the devices that are ready.
LEMMA EventsStep ==
  ASSUME Inv, Events
  PROVE  Inv'
<1>1. /\ pc' = "dispatch" /\ open' = open /\ installed' = installed
      /\ timers' = timers /\ since' = since /\ ready' = ready /\ index' = Len(devices)
      /\ Active # {}
      /\ devices' = [i \in DOMAIN devices |-> [devices[i] EXCEPT !.revents = i \in Active]]
  BY DEF Events, clocks
<1>2. devices \in Seq(Entry) /\ Len(devices) \in Nat /\ DOMAIN devices = 1..Len(devices)
  BY DEF Inv, IoTypeOK, Entry
<1>3. \A i \in DOMAIN devices :
        /\ devices'[i] \in Entry /\ devices'[i].fd = devices[i].fd
        /\ devices'[i].revents => devices[i].fd \in ready
  <2> SUFFICES ASSUME NEW i \in DOMAIN devices
               PROVE  /\ devices'[i] \in Entry /\ devices'[i].fd = devices[i].fd
                      /\ devices'[i].revents => devices[i].fd \in ready
    OBVIOUS
  <2>1. devices[i] \in Entry /\ devices'[i] = [devices[i] EXCEPT !.revents = i \in Active]
    BY <1>1, <1>2
  <2>2. (i \in Active) \in BOOLEAN /\ (i \in Active => devices[i].fd \in ready)
    BY DEF Active
  <2> QED BY <2>1, <2>2 DEF Entry
<1>4. DOMAIN devices' = 1..Len(devices) /\ devices' \in Seq(Entry) /\ Len(devices') = Len(devices)
  <2>1. devices' \in [1..Len(devices) -> Entry]
    BY <1>1, <1>2, <1>3
  <2> QED BY <1>2, <2>1
<1>5. index' \in 1..Len(devices')
  <2>1. \E i \in DOMAIN devices : TRUE
    BY <1>1 DEF Active
  <2> QED BY <1>1, <1>2, <1>4, <2>1
<1>6. DevicesOnce'
  BY <1>1, <1>2, <1>3, <1>4 DEF Inv, DevicesOnce
<1>7. StillReady'
  BY <1>1, <1>2, <1>3 DEF StillReady
<1>8. IoTypeOK'
  BY <1>1, <1>4, <1>5 DEF Inv, IoTypeOK, Entry
<1> QED BY <1>1, <1>6, <1>7, <1>8 DEF Inv, TimersOnce, StampsOld

\* The steps that leave the lists alone and call nobody.
LEMMA QuietStep ==
  ASSUME Inv, UNCHANGED library, since' = since,
         \/ ready' = ready
         \/ \E d \in Device : ready' = ready \cup {d} /\ (d = Xpl => open),
         \/ pc' = pc /\ index' = index
         \/ pc' \in {"app", "loop", "poll"}
         \/ pc' = "checks" /\ index' \in 0..Len(timers)
         \/ pc = "dispatch" /\ pc' = pc /\ index' = index - 1 /\ index' # 0
  PROVE  Inv'
<1>1. /\ open' = open /\ installed' = installed /\ devices' = devices /\ timers' = timers
      /\ ready \subseteq ready' /\ ready' \subseteq Device /\ (Xpl \in ready' => open')
  BY DEF library, Inv, IoTypeOK
<1>2. /\ pc' \in {"app", "loop", "poll", "dispatch", "checks"}
      /\ pc' = "dispatch" => pc = "dispatch" /\ index' \in 1..Len(devices) /\ index' =< index
      /\ pc' = "checks" => index' \in 0..Len(timers)
  BY DEF Inv, IoTypeOK
<1>3. StillReady'
  BY <1>1, <1>2 DEF Inv, IoTypeOK, StillReady
<1>4. IoTypeOK'
  BY <1>1, <1>2 DEF Inv, IoTypeOK
<1> QED BY <1>1, <1>3, <1>4 DEF Inv, DevicesOnce, TimersOnce, StampsOld
-----------------------------------------------------------------------------
LEMMA CalledNothing ==
  ASSUME called' = Nothing
  PROVE  /\ \A d \in Device : called' # <<"device", d>>
         /\ \A h \in Handler : called' # <<"timer", h>>
BY DEF Nothing

\* Every step keeps the invariant, and calls a handler only in time.
CalledInTime ==
  /\ \A d \in Device : called' = <<"device", d>> => d \in ready
  /\ \A h \in Handler : called' = <<"timer", h>> => since[h] >= Interval[h]

LEMMA Step ==
  ASSUME "removeOther" \notin Calls, Inv, Next
  PROVE  Inv' /\ CalledInTime
<1>1. CASE StartPoll
  BY <1>1, QuietStep, CalledNothing DEF StartPoll, CalledInTime
<1>2. CASE Events
  BY <1>2, EventsStep, CalledNothing DEF Events, CalledInTime
<1>3. ASSUME NEW onExit \in BOOLEAN, doTimeouts(onExit)
      PROVE  Inv' /\ CalledInTime
  <2>1. Len(timers) \in Nat
    BY DEF Inv, IoTypeOK
  <2>2. pc' = "checks" /\ index' \in 0..Len(timers)
    BY <1>3, <2>1 DEF doTimeouts
  <2>3. UNCHANGED library /\ since' = since /\ ready' = ready /\ called' = Nothing
    BY <1>3 DEF doTimeouts
  <2> QED BY <2>2, <2>3, QuietStep, CalledNothing DEF CalledInTime
<1>4. CASE Idle
  BY <1>3, <1>4 DEF Idle
<1>5. CASE Return
  <2>1. CASE timeoutDone
    BY <1>5, <2>1, QuietStep, CalledNothing DEF Return, Leave, CalledInTime, clocks
  <2>2. CASE ~timeoutDone
    BY <1>3, <1>5, <2>2 DEF Return
  <2> QED BY <2>1, <2>2
<1>6. CASE Skip
  <2>1. /\ UNCHANGED library /\ since' = since /\ ready' = ready /\ called' = Nothing
        /\ \/ pc' = "loop"
           \/ pc = "dispatch" /\ pc' = pc /\ index' = index - 1 /\ index' # 0
    BY <1>6 DEF Skip, NextDevice, clocks
  <2> QED BY <2>1, QuietStep, CalledNothing DEF CalledInTime
<1>7. CASE Dispatch
  <2>1. \A h \in Handler : called' # <<"timer", h>>
    BY <1>7 DEF Dispatch
  <2> QED BY <1>7, <2>1, DispatchStep DEF CalledInTime
<1>8. CASE CheckTimer
  <2>1. \A d \in Device : called' # <<"device", d>>
    BY <1>8 DEF CheckTimer, Nothing
  <2> QED BY <1>8, <2>1, CheckTimerStep DEF CalledInTime
<1>9. CASE ChecksDone
  BY <1>9, QuietStep, CalledNothing DEF ChecksDone, Leave, CalledInTime, clocks
<1>10. CASE initialize
  BY <1>10, InitializeStep, CalledNothing DEF initialize, CalledInTime
<1>11. CASE shutdown
  BY <1>11, ShutdownStep, CalledNothing DEF shutdown, CalledInTime
<1>12. CASE \E d \in User : addIODevice(d)
  BY <1>12, AddDeviceStep, CalledNothing DEF addIODevice, CalledInTime
<1>13. CASE \E h \in Handler : addTimeoutHandler(h)
  BY <1>13, AddTimerStep, CalledNothing DEF addTimeoutHandler, CalledInTime
<1>14. CASE Enter
  <2>1. UNCHANGED library /\ since' = since /\ ready' = ready /\ pc' = "loop" /\ called' = Nothing
    BY <1>14 DEF Enter, processMessages, clocks
  <2> QED BY <2>1, QuietStep, CalledNothing DEF CalledInTime
<1>15. CASE Tick
  BY <1>15, TickStep, CalledNothing DEF Tick, CalledInTime
<1>16. CASE \E d \in Device : Arrive(d)
  <2>1. /\ UNCHANGED library /\ since' = since /\ pc' = pc /\ index' = index /\ called' = Nothing
        /\ \E d \in Device : ready' = ready \cup {d} /\ (d = Xpl => open)
    BY <1>16 DEF Arrive, loop, clocks
  <2> QED BY <2>1, QuietStep, CalledNothing DEF CalledInTime
<1>17. CASE PollFails
  BY <1>17, QuietStep, CalledNothing DEF PollFails, Leave, CalledInTime, clocks
<1> QED BY <1>1, <1>2, <1>4, <1>5, <1>6, <1>7, <1>8, <1>9, <1>10, <1>11, <1>12, <1>13,
           <1>14, <1>15, <1>16, <1>17 DEF Next, Library, Application

LEMMA Stutter ==
  ASSUME Inv, UNCHANGED vars
  PROVE  Inv'
<1>1. /\ UNCHANGED library /\ since' = since /\ ready' = ready
      /\ pc' = pc /\ index' = index
  BY DEF vars, loop, clocks
<1> QED BY <1>1, QuietStep

LEMMA Invariance ==
  ASSUME "removeOther" \notin Calls
  PROVE  Spec => []Inv
<1>1. Inv /\ [Next]_vars => Inv'
  BY Step, Stutter
<1> QED BY Initial, <1>1, PTL DEF Spec

\* The loops of xPL_processMessages and checkAllTimeoutHandlers never leave the
\* lists they walk through, for any devices and handlers that take nobody but
\* themselves off the lists.
THEOREM IoTyped ==
  ASSUME "removeOther" \notin Calls
  PROVE  Spec => []IoTypeOK
<1>1. Inv => IoTypeOK
  BY DEF Inv
<1> QED BY <1>1, Invariance, PTL

\* The handler of a device is called only for something to read, although the
\* handlers called before it changed the list (xPL_processMessages).
THEOREM ReadyDispatched ==
  ASSUME "removeOther" \notin Calls
  PROVE  Spec => OnlyReadyDispatched
<1>1. Inv /\ [Next]_vars => [\A d \in Device : called' = <<"device", d>> => d \in ready]_vars
  BY Step DEF CalledInTime
<1> QED BY <1>1, Invariance, PTL DEF Spec, OnlyReadyDispatched

\* No timeout handler is called before its interval is over, although
\* checkAllTimeoutHandlers stamps by position a list its handlers shorten.
THEOREM NotBefore ==
  ASSUME "removeOther" \notin Calls
  PROVE  Spec => NotEarly
<1>1. Inv /\ [Next]_vars
        => [\A h \in Handler : called' = <<"timer", h>> => since[h] >= Interval[h]]_vars
  BY Step DEF CalledInTime
<1> QED BY <1>1, Invariance, PTL DEF Spec, NotEarly
=============================================================================
