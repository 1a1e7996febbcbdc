------------------------- MODULE XplProgram_proofs -------------------------
(***************************************************************************)
(* Theorems about the way of a message through a program (XplProgram), for *)
(* any services, listeners and datagrams: nobody among the message         *)
(* listeners misses it or gets it twice.  Nothing is needed of the parser, *)
(* of filters or of what a configuration makes of a service.               *)
(***************************************************************************)
EXTENDS XplProgram, FiniteSetTheorems, WellFoundedInduction, TLAPS

LEMMA LeastNatural ==
  ASSUME NEW T \in SUBSET Nat, T # {}
  PROVE  \E x \in T : \A y \in T : x <= y
<1>1. \E x \in T : \A y \in T : <<y, x>> \notin OpToRel(<, Nat)
  BY NatLessThanWellFounded, WFMin
<1>2. ASSUME NEW x \in T, NEW y \in T, <<y, x>> \notin OpToRel(<, Nat)
      PROVE  x <= y
  BY <1>2 DEF OpToRel
<1> QED BY <1>1, <1>2

\* What holds at the start, and one step further wherever it holds, holds all
\* the way.
LEMMA Stepwise ==
  ASSUME NEW n \in Nat, NEW S, 0 \in S,
         \A k \in 0..n - 1 : k \in S => k + 1 \in S
  PROVE  \A k \in 0..n : k \in S
<1> DEFINE T == {k \in 0..n : k \notin S}
<1> SUFFICES ASSUME T # {} PROVE FALSE
  OBVIOUS
<1>1. PICK k \in T : \A y \in T : k <= y
  BY LeastNatural, T \in SUBSET Nat
<1>2. k # 0 /\ k - 1 \in 0..n - 1 /\ k - 1 \notin T
  BY <1>1
<1>3. k - 1 \in S /\ (k - 1) + 1 = k
  BY <1>2, <1>1
<1> QED BY <1>1, <1>2, <1>3
-----------------------------------------------------------------------------
(***************************************************************************)
(* The three walks of a message: the message listeners, the services and   *)
(* the listeners of one service s.                                         *)
(***************************************************************************)
ServiceCall(q, i, s, m) ==
  LET l == q.ears[s].listeners[i] IN
  IF ~Asks(Pattern[l], m) THEN {q}
  ELSE IF l = CONFIG THEN configHandler(q, s, m)
  ELSE {Called(q, l, s, m)}

ListenerCall(q, i, m) ==
  LET l == q.listeners[i]
      r == Called(q, l, NoService, m)
  IN IF l = SERVICES THEN handleServiceMessage(r, m)
     ELSE CASE Habit[l] = "watches" -> {r}
            [] Habit[l] = "leaves"  -> {[r EXCEPT !.listeners = WithoutListener(@, l)]}
            [] OTHER -> {[r EXCEPT !.listeners = WithListener(@, Habit[l])]}

Size(kind, q, s) ==
  IF kind = 1 THEN Len(q.listeners)
  ELSE IF kind = 2 THEN Len(serviceList) ELSE Len(q.ears[s].listeners)
Outcomes(kind, q, i, s, m) ==
  IF kind = 1 THEN ListenerCall(q, i, m)
  ELSE IF kind = 2 THEN handleMessage(q, serviceList[i], m) ELSE ServiceCall(q, i, s, m)

\* What can become of q when the entry at i is called, if there is one.
Step(kind, q, i, s, m) ==
  IF i =< Size(kind, q, s) THEN Outcomes(kind, q, i, s, m) ELSE {q}

\* The first j calls of a walk through n entries.
Walks(kind, p, s, m, n, j, w) ==
  w = [k \in 0..j |-> IF k = 0 THEN {p}
                      ELSE UNION {Step(kind, q, Walked(n)[k], s, m) : q \in w[k - 1]}]

LEMMA WalkExists ==
  ASSUME NEW kind, NEW p, NEW s, NEW m, NEW n
  PROVE  \A j \in Nat : \E w : Walks(kind, p, s, m, n, j, w)
<1> DEFINE T == {j \in Nat : ~ \E w : Walks(kind, p, s, m, n, j, w)}
<1> SUFFICES ASSUME T # {} PROVE FALSE
  OBVIOUS
<1>1. PICK j \in T : \A k \in T : j <= k
  BY LeastNatural, T \in SUBSET Nat
<1>2. j # 0
  <2>1. Walks(kind, p, s, m, n, 0, [k \in 0..0 |-> {p}])
    BY DEF Walks
  <2> QED BY <2>1
<1>3. PICK w : Walks(kind, p, s, m, n, j - 1, w)
  <2>1. j - 1 \in Nat /\ j - 1 \notin T
    BY <1>1, <1>2
  <2> QED BY <2>1
<1> DEFINE after(x, k) == UNION {Step(kind, q, Walked(n)[k], s, m) : q \in x}
           v == [k \in 0..j |-> IF k < j THEN w[k] ELSE after(w[j - 1], j)]
<1>4. w = [k \in 0..j - 1 |-> IF k = 0 THEN {p} ELSE after(w[k - 1], k)]
  BY <1>3 DEF Walks
<1>5. Walks(kind, p, s, m, n, j, v)
  <2> HIDE DEF after
  <2>1. ASSUME NEW k \in 0..j
        PROVE  v[k] = IF k = 0 THEN {p} ELSE after(v[k - 1], k)
    <3>1. CASE k < j
      <4>1. k \in 0..j - 1 /\ (k # 0 => k - 1 \in 0..j /\ k - 1 < j)
        BY <3>1
      <4>2. v[k] = w[k] /\ (k # 0 => v[k - 1] = w[k - 1])
        BY <3>1, <4>1
      <4>3. w[k] = IF k = 0 THEN {p} ELSE after(w[k - 1], k)
        BY <1>4, <4>1
      <4> HIDE DEF v
      <4> QED BY <4>1, <4>2, <4>3
    <3>2. CASE ~(k < j)
      <4>1. k = j /\ j - 1 \in 0..j /\ j - 1 < j
        BY <3>2, <1>2
      <4>2. v[j - 1] = w[j - 1] /\ v[j] = after(w[j - 1], j)
        BY <4>1
      <4> HIDE DEF v
      <4> QED BY <1>2, <4>1, <4>2
    <3> QED BY <3>1, <3>2
  <2>2. v = [k \in 0..j |-> v[k]]
    OBVIOUS
  <2> HIDE DEF v
  <2>3. v = [k \in 0..j |-> IF k = 0 THEN {p} ELSE after(v[k - 1], k)]
    BY <2>1, <2>2
  <2> QED BY <2>3 DEF Walks, after
<1> QED BY <1>1, <1>5

\* A walk through n entries from p that ends in one of the outcomes last.
Walk(kind, p, s, m, n, last, w) ==
  /\ w[0] = {p} /\ w[n] = last
  /\ \A k \in 1..n : w[k] = UNION {Step(kind, q, n + 1 - k, s, m) : q \in w[k - 1]}

LEMMA WalkFrom ==
  ASSUME NEW kind, NEW p, NEW s, NEW m, NEW n \in Nat, NEW w, Walks(kind, p, s, m, n, n, w)
  PROVE  Walk(kind, p, s, m, n, w[n], w)
<1>1. w[0] = {p}
  BY DEF Walks
<1>2. ASSUME NEW k \in 1..n
      PROVE  w[k] = UNION {Step(kind, q, n + 1 - k, s, m) : q \in w[k - 1]}
  <2>1. k \in 0..n /\ k # 0 /\ Walked(n)[k] = n + 1 - k
    BY DEF Walked
  <2> DEFINE after(i) == UNION {Step(kind, q, i, s, m) : q \in w[k - 1]}
  <2>2. w[k] = IF k = 0 THEN {p} ELSE after(Walked(n)[k])
    BY <2>1 DEF Walks
  <2> HIDE DEF after
  <2>3. w[k] = after(n + 1 - k)
    BY <2>1, <2>2
  <2> QED BY <2>3 DEF after
<1> QED BY <1>1, <1>2 DEF Walk

\* The listeners of a service.
LEMMA ServiceWalk ==
  ASSUME NEW p, NEW s, NEW m, Len(p.ears[s].listeners) \in Nat
  PROVE  \E w : Walk(3, p, s, m, Len(p.ears[s].listeners), dispatchServiceEvent(p, s, m), w)
<1> DEFINE n == Len(p.ears[s].listeners)
           Is3(w) == w = [k \in 0..n |-> IF k = 0 THEN {p} ELSE
                            UNION {IF Walked(n)[k] =< Len(q.ears[s].listeners)
                                     THEN ServiceCall(q, Walked(n)[k], s, m) ELSE {q} :
                                   q \in w[k - 1]}]
<1>1. dispatchServiceEvent(p, s, m) = (CHOOSE w : Is3(w))[n]
  BY DEF dispatchServiceEvent, Dispatch, ServiceCall
<1>2. \A w : Is3(w) <=> Walks(3, p, s, m, n, n, w)
  <2> DEFINE called(q, k) == IF Walked(n)[k] =< Len(q.ears[s].listeners)
                               THEN ServiceCall(q, Walked(n)[k], s, m) ELSE {q}
  <2>1. ASSUME NEW q, NEW k
        PROVE  called(q, k) = Step(3, q, Walked(n)[k], s, m)
    BY DEF Step, Size, Outcomes
  <2> DEFINE after(w, k) == IF k = 0 THEN {p} ELSE UNION {called(q, k) : q \in w[k - 1]}
             then(w, k) == IF k = 0 THEN {p}
                           ELSE UNION {Step(3, q, Walked(n)[k], s, m) : q \in w[k - 1]}
  <2>2. ASSUME NEW w, NEW k
        PROVE  after(w, k) = then(w, k)
    <3> HIDE DEF called
    <3> QED BY <2>1
  <2>3. \A w : Is3(w) <=> w = [k \in 0..n |-> after(w, k)]
    OBVIOUS
  <2>4. \A w : Walks(3, p, s, m, n, n, w) <=> w = [k \in 0..n |-> then(w, k)]
    BY DEF Walks
  <2> HIDE DEF after, then, Is3, called
  <2> QED BY <2>2, <2>3, <2>4
<1> DEFINE v == CHOOSE w : Is3(w)
<1> HIDE DEF Is3
<1>3. Is3(v)
  BY <1>2, WalkExists
<1>4. Walk(3, p, s, m, n, v[n], v)
  BY <1>2, <1>3, WalkFrom
<1> QED BY <1>1, <1>4

\* The services.
LEMMA ServicesWalk ==
  ASSUME NEW p, NEW m, NEW s, Len(serviceList) \in Nat
  PROVE  \E w : Walk(2, p, s, m, Len(serviceList), handleServiceMessage(p, m), w)
<1> DEFINE n == Len(serviceList)
           Is2(w) == w = [k \in 0..n |-> IF k = 0 THEN {p} ELSE
                            UNION {IF Walked(n)[k] =< Len(serviceList)
                                     THEN handleMessage(q, serviceList[Walked(n)[k]], m) ELSE {q} :
                                   q \in w[k - 1]}]
<1>1. handleServiceMessage(p, m) = (CHOOSE w : Is2(w))[n]
  BY DEF handleServiceMessage, Dispatch
<1>2. \A w : Is2(w) <=> Walks(2, p, s, m, n, n, w)
  <2> DEFINE called(q, k) == IF Walked(n)[k] =< Len(serviceList)
                               THEN handleMessage(q, serviceList[Walked(n)[k]], m) ELSE {q}
             after(w, k) == IF k = 0 THEN {p} ELSE UNION {called(q, k) : q \in w[k - 1]}
             then(w, k) == IF k = 0 THEN {p}
                           ELSE UNION {Step(2, q, Walked(n)[k], s, m) : q \in w[k - 1]}
  <2>1. ASSUME NEW q, NEW k
        PROVE  called(q, k) = Step(2, q, Walked(n)[k], s, m)
    BY DEF Step, Size, Outcomes
  <2>2. ASSUME NEW w, NEW k
        PROVE  after(w, k) = then(w, k)
    <3> HIDE DEF called
    <3> QED BY <2>1
  <2>3. \A w : Is2(w) <=> w = [k \in 0..n |-> after(w, k)]
    OBVIOUS
  <2>4. \A w : Walks(2, p, s, m, n, n, w) <=> w = [k \in 0..n |-> then(w, k)]
    BY DEF Walks
  <2> HIDE DEF after, then, Is2, called
  <2> QED BY <2>2, <2>3, <2>4
<1> DEFINE v == CHOOSE w : Is2(w)
<1> HIDE DEF Is2
<1>3. Is2(v)
  BY <1>2, WalkExists
<1>4. Walk(2, p, s, m, n, v[n], v)
  BY <1>2, <1>3, WalkFrom
<1> QED BY <1>1, <1>4

\* The message listeners.
LEMMA ListenersWalk ==
  ASSUME NEW p, NEW m, NEW s, Len(p.listeners) \in Nat
  PROVE  \E w : Walk(1, p, s, m, Len(p.listeners), dispatchMessageEvent(p, m), w)
<1> DEFINE n == Len(p.listeners)
           Is1(w) == w = [k \in 0..n |-> IF k = 0 THEN {p} ELSE
                            UNION {IF Walked(n)[k] =< Len(q.listeners)
                                     THEN ListenerCall(q, Walked(n)[k], m) ELSE {q} :
                                   q \in w[k - 1]}]
<1>1. dispatchMessageEvent(p, m) = (CHOOSE w : Is1(w))[n]
  BY DEF dispatchMessageEvent, Dispatch, ListenerCall
<1>2. \A w : Is1(w) <=> Walks(1, p, s, m, n, n, w)
  <2> DEFINE called(q, k) == IF Walked(n)[k] =< Len(q.listeners)
                               THEN ListenerCall(q, Walked(n)[k], m) ELSE {q}
             after(w, k) == IF k = 0 THEN {p} ELSE UNION {called(q, k) : q \in w[k - 1]}
             then(w, k) == IF k = 0 THEN {p}
                           ELSE UNION {Step(1, q, Walked(n)[k], s, m) : q \in w[k - 1]}
  <2>1. ASSUME NEW q, NEW k
        PROVE  called(q, k) = Step(1, q, Walked(n)[k], s, m)
    BY DEF Step, Size, Outcomes
  <2>2. ASSUME NEW w, NEW k
        PROVE  after(w, k) = then(w, k)
    <3> HIDE DEF called
    <3> QED BY <2>1
  <2>3. \A w : Is1(w) <=> w = [k \in 0..n |-> after(w, k)]
    OBVIOUS
  <2>4. \A w : Walks(1, p, s, m, n, n, w) <=> w = [k \in 0..n |-> then(w, k)]
    BY DEF Walks
  <2> HIDE DEF after, then, Is1, called
  <2> QED BY <2>2, <2>3, <2>4
<1> DEFINE v == CHOOSE w : Is1(w)
<1> HIDE DEF Is1
<1>3. Is1(v)
  BY <1>2, WalkExists
<1>4. Walk(1, p, s, m, n, v[n], v)
  BY <1>2, <1>3, WalkFrom
<1> QED BY <1>1, <1>4
-----------------------------------------------------------------------------
(***************************************************************************)
(* What is said within a service leaves the message listeners alone and is *)
(* no call of one of them.                                                 *)
(***************************************************************************)
Parts == {"service", "ears", "listeners", "said", "calls"}
Ear == DOMAIN Pattern \cup {CONFIG}
AreEars(e) ==
  /\ DOMAIN e = Service
  /\ \A s \in Service : /\ DOMAIN e[s] = {"filters", "groups", "listeners"}
                       /\ e[s].listeners \in Seq(Ear)
IsProgram(p) == DOMAIN p = Parts /\ (\E S : p.calls \in Seq(S)) /\ AreEars(p.ears)

CallsTo(p, l) == {i \in DOMAIN p.calls : p.calls[i].to = l /\ p.calls[i].of = NoService}

Silent(p, q) ==
  /\ IsProgram(q) /\ q.listeners = p.listeners
  /\ \A l : CallsTo(q, l) = CallsTo(p, l)

LEMMA SilentSelf ==
  ASSUME NEW p, IsProgram(p)
  PROVE  Silent(p, p)
BY DEF Silent

LEMMA SilentTwice ==
  ASSUME NEW p, NEW q, NEW r, Silent(p, q), Silent(q, r)
  PROVE  Silent(p, r)
BY DEF Silent

\* A call that is one more in calls.
LEMMA OneMoreCall ==
  ASSUME NEW p, IsProgram(p), NEW to, NEW of, NEW m
  PROVE  LET q == Called(p, to, of, m)  n == Len(p.calls) IN
         /\ IsProgram(q) /\ q.listeners = p.listeners
         /\ n \in Nat /\ DOMAIN p.calls = 1..n /\ DOMAIN q.calls = 1..n + 1
         /\ \A i \in 1..n : q.calls[i] = p.calls[i]
         /\ q.calls[n + 1].to = to /\ q.calls[n + 1].of = of
<1> DEFINE c == [to |-> to, of |-> of, message |-> m]
           q == Called(p, to, of, m)  n == Len(p.calls)  all == Append(p.calls, c)
<1>1. PICK S : p.calls \in Seq(S)
  BY DEF IsProgram
<1>2. n \in Nat /\ DOMAIN p.calls = 1..n
  BY <1>1
<1>3. c.to = to /\ c.of = of
  OBVIOUS
<1> HIDE DEF c
<1>4. p.calls \in Seq(S \cup {c})
  BY <1>1
<1>5. /\ all \in Seq(S \cup {c}) /\ DOMAIN all = 1..n + 1 /\ all[n + 1] = c
      /\ \A i \in 1..n : all[i] = p.calls[i]
  BY <1>2, <1>4
<1> HIDE DEF all
<1>6. q = [p EXCEPT !.calls = all]
  BY DEF Called, c, all
<1> HIDE DEF q
<1>7. DOMAIN q = Parts /\ q.calls = all /\ q.listeners = p.listeners /\ q.ears = p.ears
  BY <1>6 DEF IsProgram, Parts
<1>8. IsProgram(q)
  BY <1>5, <1>7 DEF IsProgram
<1> QED BY <1>2, <1>3, <1>5, <1>7, <1>8 DEF q

LEMMA CalledSilent ==
  ASSUME NEW p, IsProgram(p), NEW to, NEW of, of # NoService, NEW m
  PROVE  Silent(p, Called(p, to, of, m))
<1> DEFINE q == Called(p, to, of, m)  n == Len(p.calls)
<1>1. /\ IsProgram(q) /\ q.listeners = p.listeners
      /\ n \in Nat /\ DOMAIN p.calls = 1..n /\ DOMAIN q.calls = 1..n + 1
      /\ \A i \in 1..n : q.calls[i] = p.calls[i]
      /\ q.calls[n + 1].to = to /\ q.calls[n + 1].of = of
  BY OneMoreCall
<1> HIDE DEF q
<1>2. ASSUME NEW l
      PROVE  CallsTo(q, l) = CallsTo(p, l)
  <2>1. \A i \in 1..n + 1 : i \in 1..n \/ i = n + 1
    BY <1>1
  <2>2. \A i \in 1..n : i \in 1..n + 1
    BY <1>1
  <2> QED BY <1>1, <2>1, <2>2 DEF CallsTo
<1>3. Silent(p, q)
  BY <1>1, <1>2 DEF Silent
<1> QED BY <1>3 DEF q

LEMMA ConfiguredSilent ==
  ASSUME NEW p, IsProgram(p), NEW s \in Service, NEW m, NEW q \in configHandler(p, s, m)
  PROVE  Silent(p, q)
<1>1. CASE q = p
  BY <1>1, SilentSelf
<1>2. CASE q \in Configured(p, s, m.body)
  <2>1. PICK o : q = [p EXCEPT !.service[s] = o.now, !.said = @ \o o.said,
                               !.ears[s].filters = FiltersAfter(@, m.body),
                               !.ears[s].groups = GroupsAfter(@, m.body)]
    BY <1>2 DEF Configured
  <2> DEFINE filters == FiltersAfter(p.ears[s].filters, m.body)
             groups == GroupsAfter(p.ears[s].groups, m.body)
  <2>2. /\ q.listeners = p.listeners /\ q.calls = p.calls /\ DOMAIN q = Parts
        /\ q.ears = [p.ears EXCEPT ![s].filters = filters, ![s].groups = groups]
    BY <2>1 DEF IsProgram, Parts
  <2>3. AreEars(q.ears)
    <3> DEFINE e == p.ears  f == q.ears
    <3>1. AreEars(e) /\ f = [e EXCEPT ![s].filters = filters, ![s].groups = groups]
      BY <2>2 DEF IsProgram
    <3> HIDE DEF e, f
    <3>2. DOMAIN f = Service
      BY <3>1 DEF AreEars
    <3>3. ASSUME NEW t \in Service
          PROVE  DOMAIN f[t] = {"filters", "groups", "listeners"} /\ f[t].listeners \in Seq(Ear)
      <4>1. DOMAIN e[t] = {"filters", "groups", "listeners"} /\ e[t].listeners \in Seq(Ear)
        BY <3>1 DEF AreEars
      <4>2. CASE t # s
        BY <3>1, <4>1, <4>2 DEF AreEars
      <4>3. CASE t = s
        <5>1. f[s] = [e[s] EXCEPT !.filters = filters, !.groups = groups]
          BY <3>1 DEF AreEars
        <5> QED BY <4>1, <4>3, <5>1
      <4> QED BY <4>2, <4>3
    <3> QED BY <3>2, <3>3 DEF AreEars, f
  <2> QED BY <2>2, <2>3 DEF Silent, CallsTo, IsProgram
<1> QED BY <1>1, <1>2 DEF configHandler

LEMMA AnsweredSilent ==
  ASSUME NEW p, IsProgram(p), NEW s, NEW m, NEW q \in Answered(p, s, m)
  PROVE  Silent(p, q)
<1>1. CASE q = p
  BY <1>1, SilentSelf
<1>2. CASE q # p
  <2>1. /\ q.listeners = p.listeners /\ q.calls = p.calls /\ DOMAIN q = Parts
        /\ q.ears = p.ears
    BY <1>2 DEF Answered, IsProgram, Parts
  <2> QED BY <2>1 DEF Silent, CallsTo, IsProgram
<1> QED BY <1>1, <1>2

LEMMA ServiceCallSilent ==
  ASSUME NEW p, IsProgram(p), NEW i, NEW s \in Service, NEW m, NEW q \in ServiceCall(p, i, s, m)
  PROVE  Silent(p, q)
<1> DEFINE l == p.ears[s].listeners[i]
<1>1. q = p \/ q \in configHandler(p, s, m) \/ q = Called(p, l, s, m)
  BY DEF ServiceCall
<1> HIDE DEF l
<1>2. s # NoService
  BY ProgramAssumption
<1> QED BY <1>1, <1>2, SilentSelf, ConfiguredSilent, CalledSilent

\* A service's listeners, all of them.
LEMMA DispatchSilent ==
  ASSUME NEW p, IsProgram(p), NEW s \in Service, NEW m,
         NEW last \in dispatchServiceEvent(p, s, m)
  PROVE  Silent(p, last)
<1> DEFINE n == Len(p.ears[s].listeners)
<1>0. n \in Nat
  BY DEF IsProgram, AreEars
<1>1. PICK w : Walk(3, p, s, m, n, dispatchServiceEvent(p, s, m), w)
  BY <1>0, ServiceWalk
<1> HIDE DEF n
<1> DEFINE S == {k \in 0..n : \A q \in w[k] : Silent(p, q)}
<1>2. 0 \in S
  BY <1>0, <1>1, SilentSelf DEF Walk
<1>3. ASSUME NEW k \in 0..n - 1, k \in S
      PROVE  k + 1 \in S
  <2>1. k + 1 \in 1..n /\ k + 1 \in 0..n /\ (k + 1) - 1 = k
    BY <1>0
  <2>2. ASSUME NEW r \in w[k + 1]
        PROVE  Silent(p, r)
    <3> DEFINE i == n + 1 - (k + 1)
    <3>1. PICK q \in w[k] : r \in Step(3, q, i, s, m)
      <4>1. w[k + 1] = UNION {Step(3, q, i, s, m) : q \in w[k]}
        BY <1>1, <2>1 DEF Walk
      <4> QED BY <2>2, <4>1
    <3>2. Silent(p, q) /\ IsProgram(q)
      BY <1>3 DEF Silent
    <3> HIDE DEF i
    <3>3. r = q \/ r \in ServiceCall(q, i, s, m)
      BY <3>1 DEF Step, Outcomes
    <3> QED BY <3>2, <3>3, ServiceCallSilent, SilentTwice
  <2> QED BY <2>1, <2>2
<1>4. \A k \in 0..n : k \in S
  <2> HIDE DEF S
  <2> QED BY <1>0, <1>2, <1>3, Stepwise
<1>5. n \in S
  <2> HIDE DEF S
  <2> QED BY <1>0, <1>4
<1> QED BY <1>1, <1>5 DEF Walk

LEMMA MessageSilent ==
  ASSUME NEW p, IsProgram(p), NEW s \in Service, NEW m, NEW r \in handleMessage(p, s, m)
  PROVE  Silent(p, r)
<1>1. CASE r = p
  BY <1>1, SilentSelf
<1>2. CASE r # p
  <2>1. PICK q \in Answered(p, s, m) : r = q \/ r \in dispatchServiceEvent(q, s, m)
    BY <1>2 DEF handleMessage
  <2>2. Silent(p, q) /\ IsProgram(q)
    BY <2>1, AnsweredSilent DEF Silent
  <2> QED BY <2>1, <2>2, DispatchSilent, SilentTwice
<1> QED BY <1>1, <1>2

\* All the services.
LEMMA ServicesSilent ==
  ASSUME NEW p, IsProgram(p), serviceList \in Seq(Service), NEW m,
         NEW last \in handleServiceMessage(p, m)
  PROVE  Silent(p, last)
<1> DEFINE n == Len(serviceList)
<1>1. n \in Nat /\ \A i \in 1..n : serviceList[i] \in Service
  OBVIOUS
<1>2. PICK w : Walk(2, p, NoService, m, n, handleServiceMessage(p, m), w)
  BY <1>1, ServicesWalk
<1> HIDE DEF n
<1> DEFINE S == {k \in 0..n : \A q \in w[k] : Silent(p, q)}
<1>3. 0 \in S
  BY <1>1, <1>2, SilentSelf DEF Walk
<1>4. ASSUME NEW k \in 0..n - 1, k \in S
      PROVE  k + 1 \in S
  <2>1. k + 1 \in 1..n /\ k + 1 \in 0..n /\ (k + 1) - 1 = k
    BY <1>1
  <2>2. ASSUME NEW r \in w[k + 1]
        PROVE  Silent(p, r)
    <3> DEFINE i == n + 1 - (k + 1)
    <3>1. PICK q \in w[k] : r \in Step(2, q, i, NoService, m)
      <4>1. w[k + 1] = UNION {Step(2, q, i, NoService, m) : q \in w[k]}
        BY <1>2, <2>1 DEF Walk
      <4> QED BY <2>2, <4>1
    <3>2. Silent(p, q) /\ IsProgram(q)
      BY <1>4 DEF Silent
    <3>3. i \in 1..n
      BY <1>1, <2>1
    <3> HIDE DEF i
    <3>4. r = q \/ r \in handleMessage(q, serviceList[i], m)
      BY <3>1 DEF Step, Outcomes
    <3> QED BY <1>1, <3>2, <3>3, <3>4, MessageSilent, SilentTwice
  <2> QED BY <2>1, <2>2
<1>5. \A k \in 0..n : k \in S
  <2> HIDE DEF S
  <2> QED BY <1>1, <1>3, <1>4, Stepwise
<1>6. n \in S
  <2> HIDE DEF S
  <2> QED BY <1>1, <1>5
<1> QED BY <1>2, <1>6 DEF Walk
-----------------------------------------------------------------------------
(***************************************************************************)
(* Counting the entries of a listener among the first of a list.           *)
(***************************************************************************)
Places(list, j, l) == {i \in 1..j : list[i] = l}
Among(list, j, l) == Cardinality(Places(list, j, l))

LEMMA AmongNone ==
  ASSUME NEW list, NEW l
  PROVE  Among(list, 0, l) = 0
<1>1. Places(list, 0, l) = {}
  BY DEF Places
<1> QED BY <1>1, FS_EmptySet DEF Among

LEMMA AmongFinite ==
  ASSUME NEW list, NEW j \in Nat, NEW l
  PROVE  IsFiniteSet(Places(list, j, l)) /\ Among(list, j, l) \in Nat
<1>1. IsFiniteSet(1..j) /\ Places(list, j, l) \subseteq 1..j
  BY FS_Interval DEF Places
<1> QED BY <1>1, FS_Subset, FS_CardinalityType DEF Among

LEMMA AmongOneMore ==
  ASSUME NEW list, NEW j \in Nat, NEW l
  PROVE  Among(list, j + 1, l) = Among(list, j, l) + (IF list[j + 1] = l THEN 1 ELSE 0)
<1> DEFINE P == Places(list, j, l)
<1>1. IsFiniteSet(P) /\ Cardinality(P) \in Nat
  BY AmongFinite DEF Among
<1>2. CASE list[j + 1] = l
  <2>1. Places(list, j + 1, l) = P \cup {j + 1} /\ j + 1 \notin P
    BY <1>2 DEF Places
  <2> HIDE DEF P
  <2>2. Cardinality(P \cup {j + 1}) = Cardinality(P) + 1
    BY <1>1, <2>1, FS_AddElement
  <2> QED BY <1>2, <2>1, <2>2 DEF Among, P
<1>3. CASE list[j + 1] # l
  <2>1. Places(list, j + 1, l) = P
    BY <1>3 DEF Places
  <2> QED BY <1>1, <1>3, <2>1 DEF Among
<1> QED BY <1>2, <1>3

LEMMA AmongSame ==
  ASSUME NEW list, NEW other, NEW j \in Nat, \A i \in 1..j : list[i] = other[i], NEW l
  PROVE  Among(list, j, l) = Among(other, j, l)
<1>1. Places(list, j, l) = Places(other, j, l)
  BY DEF Places
<1> QED BY <1>1 DEF Among

\* A list without the first entry of one listener that is in it.
LEMMA FirstRemoved ==
  ASSUME NEW L, NEW list \in Seq(L), NEW k \in 1..Len(list)
  PROVE  LET less == WithoutListener(list, list[k]) IN
         /\ less \in Seq(L) /\ Len(less) = Len(list) - 1
         /\ \E f \in 1..k : /\ list[f] = list[k]
                            /\ \A i \in 1..Len(list) - 1 :
                                 less[i] = list[IF i < f THEN i ELSE i + 1]
<1> DEFINE n == Len(list)  e == list[k]
           I == {i \in 1..n : list[i] = e}
           f == Min(I)
           a == SubSeq(list, 1, f - 1)  b == SubSeq(list, f + 1, n)
           less == a \o b
<1>1. n \in Nat /\ k \in 1..n /\ k \in I /\ I \subseteq Nat
  OBVIOUS
<1>2. f \in I /\ f <= k
  <2>1. PICK x \in I : \A y \in I : x <= y
    <3> HIDE DEF I
    <3> QED BY <1>1, LeastNatural
  <2>2. f \in I /\ \A y \in I : f <= y
    <3> HIDE DEF I
    <3> QED BY <2>1 DEF Min
  <2> HIDE DEF f, I
  <2> QED BY <1>1, <2>2
<1>3. f \in 1..n /\ f \in 1..k /\ list[f] = e
  <2> HIDE DEF f
  <2> QED BY <1>1, <1>2
<1>4. WithoutListener(list, e) = less
  <2>1. \E i \in 1..Len(list) : list[i] = e
    BY <1>3
  <2>2. SelectInSeq(list, LAMBDA v : v = e) = f
    BY <1>1 DEF SelectInSeq
  <2>3. RemoveFirst(list, e) = RemoveAt(list, f)
    <3> HIDE DEF f
    <3> QED BY <2>1, <2>2 DEF RemoveFirst
  <2>4. RemoveAt(list, f) = less
    BY DEF RemoveAt
  <2> HIDE DEF less
  <2> QED BY <2>3, <2>4 DEF WithoutListener
<1> HIDE DEF f
<1>5. a \in Seq(L) /\ Len(a) = f - 1 /\ \A i \in 1..f - 1 : a[i] = list[i]
  BY <1>1, <1>3
<1>6. b \in Seq(L) /\ Len(b) = n - f /\ \A i \in 1..n - f : b[i] = list[f + i]
  BY <1>1, <1>3
<1> HIDE DEF a, b
<1>7. less \in Seq(L) /\ Len(less) = n - 1
  <2>0. a \in Seq(L) /\ b \in Seq(L)
    BY <1>5, <1>6
  <2>1. a \o b \in Seq(L)
    BY <2>0
  <2>2. Len(a \o b) = Len(a) + Len(b)
    BY <2>0
  <2>3. (f - 1) + (n - f) = n - 1
    BY <1>1, <1>3
  <2> QED BY <1>5, <1>6, <2>1, <2>2, <2>3
<1>8. ASSUME NEW i \in 1..n - 1
      PROVE  less[i] = list[IF i < f THEN i ELSE i + 1]
  <2>1. CASE i < f
    <3>1. i \in 1..f - 1
      BY <1>1, <1>3, <2>1
    <3>2. less[i] = a[i]
      BY <1>5, <1>6, <3>1
    <3> QED BY <1>5, <2>1, <3>1, <3>2
  <2>2. CASE ~(i < f)
    <3>1. i - (f - 1) \in 1..n - f /\ f + (i - (f - 1)) = i + 1 /\ i - Len(a) = i - (f - 1)
      BY <1>1, <1>3, <1>5, <2>2
    <3>2. i \in 1..Len(a) + Len(b) /\ ~(i <= Len(a))
      BY <1>1, <1>3, <1>5, <1>6, <2>2
    <3>3. (a \o b)[i] = b[i - Len(a)]
      BY <1>5, <1>6, <3>2
    <3>4. b[i - (f - 1)] = list[f + (i - (f - 1))]
      BY <1>6, <3>1
    <3> QED BY <2>2, <3>1, <3>3, <3>4
  <2> QED BY <2>1, <2>2
<1>9. WithoutListener(list, e) \in Seq(L) /\ Len(WithoutListener(list, e)) = n - 1
  BY <1>4, <1>7
<1> HIDE DEF less
<1> QED BY <1>3, <1>4, <1>8, <1>9

\* A listener removes its first entry: up to where it was called, there is one
\* less of it and as many of the others.
LEMMA AmongLess ==
  ASSUME NEW L, NEW list \in Seq(L), NEW k \in 1..Len(list), NEW l
  PROVE  LET less == WithoutListener(list, list[k]) IN
         Among(less, k - 1, l) = Among(list, k, l) - (IF list[k] = l THEN 1 ELSE 0)
<1> DEFINE less == WithoutListener(list, list[k])  n == Len(list)
           one == IF list[k] = l THEN 1 ELSE 0
<1>1. PICK f \in 1..k : /\ list[f] = list[k]
                        /\ \A i \in 1..n - 1 : less[i] = list[IF i < f THEN i ELSE i + 1]
  BY FirstRemoved
<1>2. n \in Nat /\ k \in Nat /\ k <= n /\ one \in {0, 1}
  OBVIOUS
<1> HIDE DEF less, n
<1> DEFINE S == {j \in 0..k - f : Among(less, f - 1 + j, l) = Among(list, f + j, l) - one}
<1>3. 0 \in S
  <2>1. f - 1 \in Nat /\ (f - 1) + 1 = f /\ f - 1 + 0 = f - 1 /\ f + 0 = f /\ 0 \in 0..k - f
    BY <1>2
  <2>2. \A i \in 1..f - 1 : i \in 1..n - 1 /\ i < f
    BY <1>2
  <2>3. \A i \in 1..f - 1 : less[i] = list[i]
    BY <1>1, <2>2
  <2>4. Among(less, f - 1, l) = Among(list, f - 1, l)
    BY <2>1, <2>3, AmongSame
  <2>5. Among(list, (f - 1) + 1, l) = Among(list, f - 1, l) + one
    <3>1. Among(list, (f - 1) + 1, l)
            = Among(list, f - 1, l) + (IF list[(f - 1) + 1] = l THEN 1 ELSE 0)
      BY <2>1, AmongOneMore
    <3> QED BY <1>1, <2>1, <3>1
  <2>6. Among(list, f - 1, l) \in Nat
    BY <2>1, AmongFinite
  <2>7. Among(less, f - 1, l) = Among(list, f, l) - one
    <3> HIDE DEF one
    <3> QED BY <1>2, <2>1, <2>4, <2>5, <2>6
  <2> HIDE DEF one
  <2> QED BY <2>1, <2>7
<1>4. ASSUME NEW j \in 0..(k - f) - 1, j \in S
      PROVE  j + 1 \in S
  <2> DEFINE x == f - 1 + j  y == f + j
  <2>1. /\ x \in Nat /\ y \in Nat /\ x + 1 = f - 1 + (j + 1) /\ y + 1 = f + (j + 1)
        /\ x + 1 \in 1..n - 1 /\ ~(x + 1 < f) /\ x + 1 = y
        /\ j + 1 \in 0..k - f
    BY <1>2
  <2>2. less[x + 1] = list[y + 1]
    BY <1>1, <2>1
  <2>3. Among(less, x, l) = Among(list, y, l) - one
    BY <1>4
  <2> HIDE DEF x, y, one
  <2> DEFINE more == IF list[y + 1] = l THEN 1 ELSE 0
  <2>4. Among(less, x + 1, l) = Among(less, x, l) + more
    <3>1. x \in Nat
      BY <2>1
    <3>2. Among(less, x + 1, l) = Among(less, x, l) + (IF less[x + 1] = l THEN 1 ELSE 0)
      BY <3>1, AmongOneMore
    <3> QED BY <2>2, <3>2
  <2>5. Among(list, y + 1, l) = Among(list, y, l) + more
    BY <2>1, AmongOneMore
  <2>6. Among(list, y, l) \in Nat /\ more \in {0, 1}
    BY <2>1, AmongFinite
  <2> HIDE DEF more
  <2>7. Among(less, x + 1, l) = Among(list, y + 1, l) - one
    BY <1>2, <2>3, <2>4, <2>5, <2>6 DEF one
  <2> QED BY <2>1, <2>7
<1>5. k - f \in Nat
  BY <1>2
<1>6. \A j \in 0..k - f : j \in S
  <2> HIDE DEF S
  <2> QED BY <1>3, <1>4, <1>5, Stepwise
<1>7. k - f \in S
  <2> HIDE DEF S
  <2> QED BY <1>5, <1>6
<1>8. f - 1 + (k - f) = k - 1 /\ f + (k - f) = k
  BY <1>2
<1>9. Among(less, k - 1, l) = Among(list, k, l) - one
  <2> HIDE DEF one
  <2> QED BY <1>7, <1>8
<1> QED BY <1>9 DEF less

-----------------------------------------------------------------------------
(***************************************************************************)
(* The walk through the message listeners.  What a listener has been       *)
(* called and what it has still to be called, among the first j entries,   *)
(* are together what it was installed at the start.                        *)
(***************************************************************************)
Entry == DOMAIN Habit \cup {SERVICES}
CalledSoFar(q, l) == Cardinality(CallsTo(q, l))

Balanced(list, q, j) ==
  /\ IsProgram(q) /\ q.listeners \in Seq(Entry) /\ j <= Len(q.listeners)
  /\ \A l : CalledSoFar(q, l) + Among(q.listeners, j, l) = Among(list, Len(list), l)

LEMMA CallsFinite ==
  ASSUME NEW q, IsProgram(q), NEW l
  PROVE  IsFiniteSet(CallsTo(q, l)) /\ CalledSoFar(q, l) \in Nat
<1>1. PICK S : q.calls \in Seq(S)
  BY DEF IsProgram
<1>2. DOMAIN q.calls = 1..Len(q.calls) /\ Len(q.calls) \in Nat
  BY <1>1
<1>3. IsFiniteSet(1..Len(q.calls)) /\ CallsTo(q, l) \subseteq 1..Len(q.calls)
  BY <1>2, FS_Interval DEF CallsTo
<1> QED BY <1>3, FS_Subset, FS_CardinalityType DEF CalledSoFar

LEMMA CalledCounts ==
  ASSUME NEW q, IsProgram(q), NEW to, NEW m, NEW l
  PROVE  CalledSoFar(Called(q, to, NoService, m), l) = CalledSoFar(q, l) + (IF to = l THEN 1 ELSE 0)
<1> DEFINE r == Called(q, to, NoService, m)  n == Len(q.calls)  C == CallsTo(q, l)
<1>1. /\ n \in Nat /\ DOMAIN q.calls = 1..n /\ DOMAIN r.calls = 1..n + 1
      /\ \A i \in 1..n : r.calls[i] = q.calls[i]
      /\ r.calls[n + 1].to = to /\ r.calls[n + 1].of = NoService
  BY OneMoreCall
<1> HIDE DEF r, n
<1>2. /\ \A i \in 1..n + 1 : i \in 1..n \/ i = n + 1
      /\ \A i \in 1..n : i \in 1..n + 1
      /\ n + 1 \notin 1..n /\ n + 1 \in 1..n + 1
  BY <1>1
<1>3. IsFiniteSet(C) /\ Cardinality(C) \in Nat
  BY CallsFinite DEF CalledSoFar
<1>4. CASE to = l
  <2>1. CallsTo(r, l) = C \cup {n + 1} /\ n + 1 \notin C
    BY <1>1, <1>2, <1>4 DEF CallsTo
  <2> HIDE DEF C
  <2>2. Cardinality(C \cup {n + 1}) = Cardinality(C) + 1
    BY <1>3, <2>1, FS_AddElement
  <2> QED BY <1>4, <2>1, <2>2 DEF CalledSoFar, C, r
<1>5. CASE to # l
  <2>1. CallsTo(r, l) = C
    BY <1>1, <1>2, <1>5 DEF CallsTo
  <2> QED BY <1>3, <1>5, <2>1 DEF CalledSoFar, r
<1> QED BY <1>4, <1>5

\* The listener at j + 1 is called.
LEMMA OneListener ==
  ASSUME NEW list, NEW q, NEW j \in Nat, Balanced(list, q, j + 1), NEW m,
         serviceList \in Seq(Service), NEW next \in ListenerCall(q, j + 1, m)
  PROVE  Balanced(list, next, j)
<1> DEFINE old == q.listeners  l == old[j + 1]  r == Called(q, l, NoService, m)
           one(x) == IF l = x THEN 1 ELSE 0
<1>1. /\ IsProgram(q) /\ old \in Seq(Entry) /\ j + 1 <= Len(old)
      /\ \A x : CalledSoFar(q, x) + Among(old, j + 1, x) = Among(list, Len(list), x)
  BY DEF Balanced
<1>2. Len(old) \in Nat /\ j + 1 \in 1..Len(old) /\ l \in Entry /\ DOMAIN old = 1..Len(old)
  BY <1>1
<1>3. IsProgram(r) /\ r.listeners = old
  BY <1>1, OneMoreCall
<1>4. \A x : CalledSoFar(r, x) = CalledSoFar(q, x) + one(x)
  BY <1>1, CalledCounts
<1>5. \A x : Among(old, j + 1, x) = Among(old, j, x) + one(x)
  BY AmongOneMore
<1>6. \A x : /\ CalledSoFar(q, x) \in Nat /\ Among(old, j, x) \in Nat
             /\ Among(old, j + 1, x) \in Nat /\ one(x) \in {0, 1}
  BY <1>1, CallsFinite, AmongFinite
<1> HIDE DEF r, l, one, old
<1>7. \A x : CalledSoFar(r, x) + Among(old, j, x) = Among(list, Len(list), x)
  BY <1>1, <1>4, <1>5, <1>6
<1>8. CASE l = SERVICES
  <2>1. next \in handleServiceMessage(r, m)
    BY <1>8 DEF ListenerCall, r, l, old
  <2>2. Silent(r, next)
    BY <1>3, <2>1, ServicesSilent
  <2>3. IsProgram(next) /\ next.listeners = old /\ \A x : CalledSoFar(next, x) = CalledSoFar(r, x)
    BY <1>3, <2>2 DEF Silent, CalledSoFar
  <2> QED BY <1>1, <1>2, <1>7, <2>3 DEF Balanced
<1>9. CASE l # SERVICES /\ Habit[l] = "watches"
  <2>1. next = r
    BY <1>9 DEF ListenerCall, r, l, old
  <2> QED BY <1>1, <1>2, <1>3, <1>7, <2>1 DEF Balanced
<1>10. ASSUME NEW other, next = [r EXCEPT !.listeners = other]
       PROVE  /\ IsProgram(next) /\ next.listeners = other
              /\ \A x : CalledSoFar(next, x) = CalledSoFar(r, x)
  <2>1. DOMAIN r = Parts /\ "listeners" \in Parts
    BY <1>3 DEF IsProgram, Parts
  <2>2. /\ DOMAIN next = Parts /\ next.listeners = other /\ next.calls = r.calls
        /\ next.ears = r.ears
    BY <1>10, <2>1
  <2> QED BY <1>3, <2>2 DEF IsProgram, CalledSoFar, CallsTo
<1>11. CASE l # SERVICES /\ Habit[l] = "leaves"
  <2> DEFINE less == WithoutListener(old, l)
  <2>1. next = [r EXCEPT !.listeners = less]
    <3>1. next = [r EXCEPT !.listeners = WithoutListener(@, l)]
      BY <1>11 DEF ListenerCall, r, l, old
    <3> QED BY <1>3, <3>1
  <2>2. less \in Seq(Entry) /\ Len(less) = Len(old) - 1
    BY <1>1, <1>2, FirstRemoved DEF l
  <2>3. \A x : Among(less, j, x) = Among(old, j + 1, x) - one(x)
    <3>1. (j + 1) - 1 = j
      OBVIOUS
    <3>2. \A x : Among(less, (j + 1) - 1, x)
                   = Among(old, j + 1, x) - (IF l = x THEN 1 ELSE 0)
      BY <1>1, <1>2, AmongLess DEF l
    <3> QED BY <3>1, <3>2 DEF one
  <2> HIDE DEF less
  <2>4. /\ IsProgram(next) /\ next.listeners = less
        /\ \A x : CalledSoFar(next, x) = CalledSoFar(r, x)
    BY <1>10, <2>1
  <2>5. \A x : CalledSoFar(next, x) + Among(less, j, x) = Among(list, Len(list), x)
    BY <1>5, <1>6, <1>7, <2>3, <2>4
  <2>6. j <= Len(less)
    BY <1>2, <2>2
  <2> QED BY <2>2, <2>4, <2>5, <2>6 DEF Balanced
<1>12. CASE l # SERVICES /\ Habit[l] # "watches" /\ Habit[l] # "leaves"
  <2> DEFINE more == Append(old, Habit[l])
  <2>1. next = [r EXCEPT !.listeners = more]
    <3>1. next = [r EXCEPT !.listeners = WithListener(@, Habit[l])]
      BY <1>12 DEF ListenerCall, r, l, old
    <3> QED BY <1>3, <3>1 DEF WithListener
  <2>2. Habit[l] \in Entry
    BY <1>2, <1>12, ProgramAssumption DEF Entry
  <2>3. more \in Seq(Entry) /\ Len(more) = Len(old) + 1 /\ \A i \in 1..j : more[i] = old[i]
    BY <1>1, <1>2, <2>2
  <2>4. \A x : Among(more, j, x) = Among(old, j, x)
    BY <2>3, AmongSame
  <2> HIDE DEF more
  <2>5. /\ IsProgram(next) /\ next.listeners = more
        /\ \A x : CalledSoFar(next, x) = CalledSoFar(r, x)
    BY <1>10, <2>1
  <2>6. \A x : CalledSoFar(next, x) + Among(more, j, x) = Among(list, Len(list), x)
    BY <1>7, <2>4, <2>5
  <2>7. j <= Len(more)
    BY <1>2, <2>3
  <2> QED BY <2>3, <2>5, <2>6, <2>7 DEF Balanced
<1> QED BY <1>8, <1>9, <1>11, <1>12

\* All of them: each is called as often as it was installed.
LEMMA AllListeners ==
  ASSUME NEW p, IsProgram(p), p.calls = <<>>, p.listeners \in Seq(Entry), NEW m,
         serviceList \in Seq(Service), NEW last \in dispatchMessageEvent(p, m)
  PROVE  /\ IsProgram(last) /\ last.listeners \in Seq(Entry)
         /\ \A l : CalledSoFar(last, l) = TimesIn(p.listeners, l)
<1> DEFINE list == p.listeners  n == Len(list)
<1>1. n \in Nat /\ DOMAIN list = 1..n
  OBVIOUS
<1>2. PICK w : Walk(1, p, NoService, m, n, dispatchMessageEvent(p, m), w)
  BY <1>1, ListenersWalk
<1> DEFINE S == {k \in 0..n : \A q \in w[k] : Balanced(list, q, n - k)}
<1>3. Balanced(list, p, n)
  <2>1. \A l : CallsTo(p, l) = {}
    BY DEF CallsTo
  <2>2. \A l : CalledSoFar(p, l) = 0
    BY <2>1, FS_EmptySet DEF CalledSoFar
  <2>3. \A l : Among(list, n, l) \in Nat
    BY <1>1, AmongFinite
  <2>4. \A l : CalledSoFar(p, l) + Among(list, n, l) = Among(list, n, l)
    BY <2>2, <2>3
  <2> QED BY <1>1, <2>4 DEF Balanced
<1> HIDE DEF list, n
<1>4. 0 \in S
  <2>1. w[0] = {p} /\ 0 \in 0..n /\ n - 0 = n
    BY <1>1, <1>2 DEF Walk
  <2> QED BY <1>3, <2>1
<1>5. ASSUME NEW k \in 0..n - 1, k \in S
      PROVE  k + 1 \in S
  <2> DEFINE j == n - (k + 1)
  <2>1. /\ k + 1 \in 1..n /\ k + 1 \in 0..n /\ (k + 1) - 1 = k
        /\ j \in Nat /\ n + 1 - (k + 1) = j + 1 /\ n - k = j + 1
    BY <1>1
  <2> HIDE DEF j
  <2>2. ASSUME NEW r \in w[k + 1]
        PROVE  Balanced(list, r, j)
    <3>1. PICK q \in w[k] : r \in Step(1, q, j + 1, NoService, m)
      <4>1. w[k + 1] = UNION {Step(1, q, j + 1, NoService, m) : q \in w[k]}
        BY <1>2, <2>1 DEF Walk
      <4> QED BY <2>2, <4>1
    <3>2. Balanced(list, q, j + 1)
      BY <1>5, <2>1
    <3>3. j + 1 <= Len(q.listeners)
      BY <3>2 DEF Balanced
    <3>4. r \in ListenerCall(q, j + 1, m)
      BY <3>1, <3>3 DEF Step, Size, Outcomes
    <3> QED BY <2>1, <3>2, <3>4, OneListener
  <2> QED BY <2>1, <2>2 DEF j
<1>6. \A k \in 0..n : k \in S
  <2> HIDE DEF S
  <2> QED BY <1>1, <1>4, <1>5, Stepwise
<1>7. n \in S /\ n - n = 0
  <2> HIDE DEF S
  <2> QED BY <1>1, <1>6
<1>8. Balanced(list, last, 0)
  BY <1>2, <1>7 DEF Walk
<1>9. ASSUME NEW l
      PROVE  CalledSoFar(last, l) = TimesIn(list, l)
  <2>1. CalledSoFar(last, l) + Among(last.listeners, 0, l) = Among(list, n, l)
    BY <1>8 DEF Balanced, n
  <2>2. Among(last.listeners, 0, l) = 0
    BY AmongNone
  <2>3. CalledSoFar(last, l) \in Nat
    BY <1>8, CallsFinite DEF Balanced
  <2>4. Among(list, n, l) = TimesIn(list, l)
    BY <1>1 DEF Among, Places, TimesIn
  <2> QED BY <2>1, <2>2, <2>3, <2>4
<1> QED BY <1>8, <1>9 DEF Balanced, list
-----------------------------------------------------------------------------
(***************************************************************************)
(* What the lists of a program hold.                                       *)
(***************************************************************************)
ListsInv ==
  /\ listeners \in Seq(Entry) /\ serviceList \in Seq(Service) /\ AreEars(ears)

LEMMA RemovedStays ==
  ASSUME NEW L, NEW list \in Seq(L), NEW l
  PROVE  WithoutListener(list, l) \in Seq(L)
<1>1. CASE \E k \in 1..Len(list) : list[k] = l
  BY <1>1, FirstRemoved
<1>2. CASE ~ \E k \in 1..Len(list) : list[k] = l
  BY <1>2 DEF WithoutListener, RemoveFirst
<1> QED BY <1>1, <1>2

\* The entry of one service is replaced.
LEMMA OneEarChanged ==
  ASSUME AreEars(ears), NEW s \in Service, NEW e, ears' = [ears EXCEPT ![s] = e],
         DOMAIN e = {"filters", "groups", "listeners"}, e.listeners \in Seq(Ear)
  PROVE  AreEars(ears')
BY DEF AreEars

\* Its listeners are.
LEMMA EarListenersChanged ==
  ASSUME AreEars(ears), NEW s \in Service, NEW list \in Seq(Ear),
         ears' = [ears EXCEPT ![s].listeners = list]
  PROVE  AreEars(ears')
<1> DEFINE e == [ears[s] EXCEPT !.listeners = list]
<1>1. ears' = [ears EXCEPT ![s] = e]
  OBVIOUS
<1>2. DOMAIN e = {"filters", "groups", "listeners"} /\ e.listeners \in Seq(Ear)
  BY DEF AreEars
<1> HIDE DEF e
<1> QED BY <1>1, <1>2, OneEarChanged

\* A message that is received.
LEMMA ReceivedKeeps ==
  ASSUME ListsInv, NEW d, receiveMessage(d)
  PROVE  /\ ListsInv'
         /\ Arrived[got'] # NoMessage =>
              \A l : TimesCalled(l)' = TimesIn(listeners, l)
<1> DEFINE m == Arrived[d]
           now == [service |-> service, ears |-> ears, listeners |-> listeners,
                   said |-> <<>>, calls |-> <<>>]
<1>1. PICK p \in IF m = NoMessage THEN {now} ELSE dispatchMessageEvent(now, m) :
        ears' = p.ears /\ listeners' = p.listeners /\ calls' = p.calls
  BY DEF receiveMessage
<1>2. got' = d /\ UNCHANGED serviceList
  BY DEF receiveMessage
<1>3. /\ IsProgram(now) /\ now.calls = <<>> /\ now.listeners = listeners
      /\ now.listeners \in Seq(Entry)
  <2>1. DOMAIN now = Parts
    BY DEF Parts
  <2>2. now.calls \in Seq({})
    OBVIOUS
  <2>3. now.ears = ears /\ now.calls = <<>> /\ now.listeners = listeners
    OBVIOUS
  <2> HIDE DEF now
  <2> QED BY <2>1, <2>2, <2>3 DEF IsProgram, ListsInv
<1> HIDE DEF now, m
<1>4. CASE m = NoMessage
  <2>1. p = now
    BY <1>1, <1>4
  <2> QED BY <1>1, <1>2, <1>3, <1>4, <2>1 DEF ListsInv, IsProgram, m
<1>5. CASE m # NoMessage
  <2>1. p \in dispatchMessageEvent(now, m)
    BY <1>1, <1>5
  <2>2. /\ IsProgram(p) /\ p.listeners \in Seq(Entry)
        /\ \A l : CalledSoFar(p, l) = TimesIn(listeners, l)
    BY <1>3, <2>1, AllListeners DEF ListsInv
  <2>3. \A l : TimesCalled(l)' = CalledSoFar(p, l)
    BY <1>1 DEF TimesCalled, CalledSoFar, CallsTo
  <2> QED BY <1>1, <1>2, <2>2, <2>3 DEF ListsInv, IsProgram
<1> QED BY <1>4, <1>5

LEMMA ListsInit == Init => ListsInv
<1> SUFFICES ASSUME Init PROVE ListsInv
  OBVIOUS
<1>1. listeners = <<>> /\ serviceList = <<>> /\ ears = [s \in Service |-> Deaf]
  BY DEF Init
<1>2. DOMAIN Deaf = {"filters", "groups", "listeners"} /\ Deaf.listeners = <<>>
  BY DEF Deaf
<1>3. \A s \in Service : ears[s] = Deaf
  BY <1>1
<1>4. AreEars(ears)
  <2>1. <<>> \in Seq(Ear)
    OBVIOUS
  <2> QED BY <1>1, <1>2, <1>3, <2>1 DEF AreEars
<1>5. listeners \in Seq(Entry) /\ serviceList \in Seq(Service)
  BY <1>1
<1> QED BY <1>4, <1>5 DEF ListsInv

LEMMA ListsNext == ListsInv /\ [Next]_vars => ListsInv'
<1> SUFFICES ASSUME ListsInv, [Next]_vars PROVE ListsInv'
  OBVIOUS
<1> USE DEF ListsInv
<1>0. CASE UNCHANGED vars
  BY <1>0 DEF vars, AreEars
<1>1. CASE initialize
  <2>1. listeners' = Append(listeners, SERVICES) /\ UNCHANGED <<serviceList, ears>>
    BY <1>1 DEF initialize, WithListener
  <2>2. SERVICES \in Entry
    BY DEF Entry
  <2> QED BY <2>1, <2>2 DEF AreEars
<1>2. CASE shutdown
  BY <1>2 DEF shutdown, AreEars
<1>3. ASSUME NEW s \in Service, Creates(s)
      PROVE  ListsInv'
  <2> DEFINE first == IF s \in Configurables THEN <<CONFIG>> ELSE <<>>
  <2>1. /\ serviceList' = Append(serviceList, s) /\ UNCHANGED listeners
        /\ ears' = [ears EXCEPT ![s].listeners = first]
    BY <1>3 DEF Creates, Quietly
  <2>2. first \in Seq(Ear)
    <3>1. CONFIG \in Ear
      BY DEF Ear
    <3>2. <<CONFIG>> \in Seq(Ear) /\ <<>> \in Seq(Ear)
      BY <3>1
    <3> QED BY <3>2
  <2> HIDE DEF first
  <2>3. AreEars(ears')
    BY <2>1, <2>2, EarListenersChanged
  <2> QED BY <2>1, <2>3
<1>4. ASSUME NEW s \in Service, Switches(s) \/ Sets(s)
      PROVE  ListsInv'
  BY <1>4 DEF Switches, Sets, Quietly, AreEars
<1>5. ASSUME NEW s \in Service, Releases(s)
      PROVE  ListsInv'
  <2>1. /\ serviceList' = WithoutListener(serviceList, s) /\ UNCHANGED listeners
        /\ ears' = [ears EXCEPT ![s] = Deaf]
    BY <1>5 DEF Releases, Quietly, WithoutListener
  <2>2. DOMAIN Deaf = {"filters", "groups", "listeners"} /\ Deaf.listeners \in Seq(Ear)
    BY DEF Deaf
  <2>3. AreEars(ears')
    BY <2>1, <2>2, OneEarChanged
  <2>4. serviceList' \in Seq(Service)
    BY <2>1, RemovedStays
  <2> QED BY <2>1, <2>3, <2>4
<1>6. ASSUME NEW s \in Service, clearServiceFilters(s)
      PROVE  ListsInv'
  <2> DEFINE e == [ears[s] EXCEPT !.filters = <<>>]
  <2>1. ears' = [ears EXCEPT ![s] = e] /\ UNCHANGED <<serviceList, listeners>>
    BY <1>6 DEF clearServiceFilters, Quietly
  <2>2. DOMAIN e = {"filters", "groups", "listeners"} /\ e.listeners \in Seq(Ear)
    BY DEF AreEars
  <2> HIDE DEF e
  <2>3. AreEars(ears')
    BY <2>1, <2>2, OneEarChanged
  <2> QED BY <2>1, <2>3
<1>7. ASSUME NEW s \in Service, clearServiceGroups(s)
      PROVE  ListsInv'
  <2> DEFINE e == [ears[s] EXCEPT !.groups = <<>>]
  <2>1. ears' = [ears EXCEPT ![s] = e] /\ UNCHANGED <<serviceList, listeners>>
    BY <1>7 DEF clearServiceGroups, Quietly
  <2>2. DOMAIN e = {"filters", "groups", "listeners"} /\ e.listeners \in Seq(Ear)
    BY DEF AreEars
  <2> HIDE DEF e
  <2>3. AreEars(ears')
    BY <2>1, <2>2, OneEarChanged
  <2> QED BY <2>1, <2>3
<1>8. ASSUME NEW s \in Service, NEW l \in DOMAIN Pattern, changeServiceListeners(s, l)
      PROVE  ListsInv'
  <2> DEFINE old == ears[s].listeners
  <2>1. /\ \/ ears' = [ears EXCEPT ![s].listeners = Append(old, l)]
           \/ ears' = [ears EXCEPT ![s].listeners = WithoutListener(old, l)]
        /\ UNCHANGED <<serviceList, listeners>>
    BY <1>8 DEF changeServiceListeners, Quietly, WithListener, AreEars
  <2>2. old \in Seq(Ear) /\ l \in Ear
    BY DEF AreEars, Ear
  <2> HIDE DEF old
  <2>3. Append(old, l) \in Seq(Ear) /\ WithoutListener(old, l) \in Seq(Ear)
    BY <2>2, RemovedStays
  <2>4. AreEars(ears')
    BY <2>1, <2>3, EarListenersChanged
  <2> QED BY <2>1, <2>4
<1>9. ASSUME NEW l \in DOMAIN Habit, changeMessageListeners(l)
      PROVE  ListsInv'
  <2>1. /\ listeners' = Append(listeners, l) \/ listeners' = WithoutListener(listeners, l)
        /\ UNCHANGED <<serviceList, ears>>
    BY <1>9 DEF changeMessageListeners, WithListener
  <2>2. l \in Entry
    BY DEF Entry
  <2>3. Append(listeners, l) \in Seq(Entry) /\ WithoutListener(listeners, l) \in Seq(Entry)
    BY <2>2, RemovedStays
  <2>4. listeners' \in Seq(Entry)
    BY <2>1, <2>3
  <2> QED BY <2>1, <2>4 DEF AreEars
<1>10. ASSUME NEW d, receiveMessage(d)
       PROVE  ListsInv'
  BY <1>10, ReceivedKeeps
<1> QED BY <1>0, <1>1, <1>2, <1>3, <1>4, <1>5, <1>6, <1>7, <1>8, <1>9, <1>10 DEF Next

\* The lists of listeners and services hold what they are for, whatever calls
\* and messages come.
THEOREM ListsHold == Spec => []ListsInv
<1> QED BY ListsInit, ListsNext, PTL DEF Spec

\* However many message listeners there are and whichever of them remove
\* themselves or install others while a message is handed to them, each is
\* called as often as it was installed when the message arrived.
THEOREM EachListenerCalledOnce == Spec => EachListenerOnce
<1> DEFINE Once == got' # NoDatagram /\ Arrived[got'] # NoMessage =>
                     \A l \in DOMAIN Habit \cup {SERVICES} :
                       TimesCalled(l)' = TimesIn(listeners, l)
<1>1. ListsInv /\ [Next]_vars => [Once]_vars
  <2> SUFFICES ASSUME ListsInv, Next, got' # NoDatagram, Arrived[got'] # NoMessage,
                      NEW l
               PROVE  TimesCalled(l)' = TimesIn(listeners, l)
    OBVIOUS
  <2>1. PICK d : receiveMessage(d)
    BY DEF Next, initialize, shutdown, Creates, Switches, Releases, Sets,
           clearServiceFilters, clearServiceGroups, changeServiceListeners,
           changeMessageListeners, Calls
  <2> QED BY <2>1, ReceivedKeeps
<1> HIDE DEF Once
<1>2. Spec => [][Once]_vars
  BY <1>1, ListsHold, PTL DEF Spec
<1> QED BY <1>2 DEF EachListenerOnce, Once
=============================================================================
