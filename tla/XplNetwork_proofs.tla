-------------------------- MODULE XplNetwork_proofs --------------------------
(***************************************************************************)
(* Proofs about the services of a program, for any services, identities,   *)
(* intervals and any order of calls and messages, and about services and   *)
(* hub together, for intervals that fit the hub's timeout.                 *)
(***************************************************************************)
EXTENDS XplNetwork, TLAPS

\* A service that the application does not rename keeps no message with a freed
\* source while it is enabled: who changes its name also builds the message anew.
Sound(s) ==
  Is(s) /\ service[s].enabled /\ service[s].beat # NoBeat => ~service[s].beat.dangling
Inv == ServiceTypeOK /\ \A s \in Service \ Setters : Sound(s)
-----------------------------------------------------------------------------
LEMMA LongestType == Longest \in Nat /\ 0 \in 0..Longest
<1>1. Delays \subseteq Nat
  BY ServiceAssumption DEF Delays
<1>2. Longest \in Delays
  BY ServiceAssumption DEF Longest
<1> QED BY <1>1, <1>2

LEMMA MinutesType ==
  ASSUME NEW s \in Service, NEW v \in ServiceRecord
  PROVE  Minutes(s, v) \in Nat /\ Class(s, v) \in {"hbeat", "config"}
<1>1. \A i \in Nat : i \div MINUTE \in Nat
  BY ServiceAssumption
<1>2. v.interval \in Nat /\ CONFIG_HEARTBEAT_INTERVAL \in Nat
  BY ServiceAssumption DEF ServiceRecord
<1> QED BY <1>1, <1>2 DEF Minutes, Class

LEMMA EndType ==
  ASSUME NEW s \in Service, NEW v \in ServiceRecord
  PROVE  End(s, v) \in Heartbeat
BY MinutesType DEF End, Heartbeat, ServiceRecord

\* What a service is and says after it beats.
LEMMA BeatsType ==
  ASSUME NEW s \in Service, NEW v \in ServiceRecord, NEW first \in Seq(Heartbeat),
         NEW o \in Beats(s, v, first)
  PROVE  /\ o.now \in ServiceRecord
         /\ o.now.identity = v.identity /\ o.now.interval = v.interval
         /\ o.now.enabled = v.enabled /\ o.now.configured = v.configured
         /\ o.now.beat = Beating(s, v).beat
         /\ \E w \in Apps(s, v) : w \in Heartbeat /\ o.said = Append(first, w)
         /\ o.said \in Seq(Heartbeat)
<1>1. Built(s, v) \in Beat
  BY MinutesType DEF Built, Beat
<1>2. Beating(s, v).beat \in Beat
  BY <1>1 DEF Beating, ServiceRecord
<1>3. Beating(s, v) \in ServiceRecord
  BY <1>2, LongestType DEF Beating, ServiceRecord
<1>4. \A w \in Apps(s, v) : w \in Heartbeat
  BY <1>2 DEF Apps, Heartbeat, Beat, ServiceRecord
<1>5. PICK w \in Apps(s, v) : o = [now |-> Beating(s, v), said |-> Append(first, w)]
  BY DEF Beats
<1>6. o.now = Beating(s, v) /\ o.said = Append(first, w)
  BY <1>5
<1>7. /\ o.now.identity = v.identity /\ o.now.interval = v.interval
      /\ o.now.enabled = v.enabled /\ o.now.configured = v.configured
  BY <1>6 DEF Beating, ServiceRecord
<1> QED BY <1>2, <1>3, <1>4, <1>6, <1>7
-----------------------------------------------------------------------------
\* What each outcome of a call must satisfy: it is a service, it speaks for
\* itself only, and if it changed its name or interval it said so.
Heard(s, o) == o.said \in Seq(Heartbeat) /\ \A k \in DOMAIN o.said : o.said[k].of = s
Named(s, o) ==
  s \notin Setters /\ o.now.enabled =>
    /\ o.now.beat # NoBeat => ~o.now.beat.dangling
    /\ \A k \in DOMAIN o.said : o.said[k].type = "app" => o.said[k].source = o.now.identity
Leaves(s, o) ==
  Is(s) /\ service[s].enabled /\ o.now.identity # service[s].identity =>
    /\ Len(o.said) = 2 /\ o.said[1] = End(s, service[s]) /\ o.said[2].type = "app"
Returns(s, o) ==
  s \in Configurables \ Setters /\ Is(s) /\ service[s].enabled
    /\ <<o.now.identity, o.now.interval>> # <<service[s].identity, service[s].interval>> =>
    /\ o.said # <<>>
    /\ o.said[Len(o.said)].class = "hbeat" /\ o.said[Len(o.said)].source = o.now.identity
    /\ o.said[Len(o.said)].minutes = o.now.interval \div MINUTE
Fits(s, o) == o.now \in ServiceRecord /\ Heard(s, o) /\ Named(s, o) /\ Leaves(s, o) /\ Returns(s, o)

Kept ==
  /\ Inv'
  /\ \A t \in Service : GoodbyeFirst(t)
  /\ \A t \in Configurables \ Setters : Announces(t)
  /\ \A t \in Service \ Setters : OwnName(t)

\* A call whose outcomes fit keeps the invariant and the three promises.
LEMMA FittingCall ==
  ASSUME Inv, NEW s \in Service, NEW outcomes, Becomes(s, outcomes), hubConfirmed' = hubConfirmed,
         \A o \in outcomes : Fits(s, o)
  PROVE  Kept
<1>1. PICK o \in outcomes : service' = [service EXCEPT ![s] = o.now] /\ sent' = o.said
  BY DEF Becomes
<1>2. Fits(s, o)
  BY <1>1
<1>3. service'[s] = o.now /\ \A t \in Service \ {s} : service'[t] = service[t]
  BY <1>1 DEF Inv, ServiceTypeOK
<1>4. ServiceTypeOK'
  BY <1>1, <1>2 DEF Inv, ServiceTypeOK, Fits, Heard
<1>5. \A t \in Service \ Setters : Sound(t)'
  BY <1>2, <1>3 DEF Inv, Sound, Is, Fits, Named
<1>6. \A k \in DOMAIN sent' : sent'[k].of = s
  BY <1>1, <1>2 DEF Fits, Heard
<1>7. ASSUME NEW t \in Service PROVE GoodbyeFirst(t)
  <2>1. CASE t # s
    BY <1>3, <2>1 DEF GoodbyeFirst
  <2>2. CASE t = s
    <3> SUFFICES ASSUME Is(s), service[s].enabled, o.now.identity # service[s].identity
                 PROVE  \E i, j \in DOMAIN sent' :
                          /\ sent'[i] = End(s, service[s])
                          /\ i < j /\ sent'[j].of = s /\ sent'[j].type = "app"
                          /\ \A k \in 1..(i - 1) : sent'[k].of # s
      BY <1>3, <2>2 DEF GoodbyeFirst
    <3>1. Len(sent') = 2 /\ sent'[1] = End(s, service[s]) /\ sent'[2].type = "app"
      BY <1>1, <1>2 DEF Fits, Leaves
    <3>2. 1 \in DOMAIN sent' /\ 2 \in DOMAIN sent' /\ 1 < 2 /\ 1..(1 - 1) = {}
      BY <1>4, <3>1 DEF ServiceTypeOK
    <3> QED BY <1>6, <3>1, <3>2
  <2> QED BY <2>1, <2>2
<1>8. ASSUME NEW t \in Configurables \ Setters PROVE Announces(t)
  <2>1. CASE t # s
    BY <1>3, <2>1, ServiceAssumption DEF Announces
  <2>2. CASE t = s
    <3> SUFFICES ASSUME Is(s), service[s].enabled,
                        <<o.now.identity, o.now.interval>>
                          # <<service[s].identity, service[s].interval>>
                 PROVE  \E i \in DOMAIN sent' :
                          /\ sent'[i].of = s /\ sent'[i].class = "hbeat"
                          /\ sent'[i].source = o.now.identity
                          /\ sent'[i].minutes = o.now.interval \div MINUTE
                          /\ \A k \in (i + 1)..Len(sent') : sent'[k].of # s
      BY <1>3, <2>2 DEF Announces
    <3> DEFINE n == Len(sent')
    <3>1. /\ sent' # <<>>
          /\ sent'[n].class = "hbeat" /\ sent'[n].source = o.now.identity
          /\ sent'[n].minutes = o.now.interval \div MINUTE
      BY <1>1, <1>2, <2>2 DEF Fits, Returns
    <3>2. n \in DOMAIN sent' /\ (n + 1)..n = {}
      BY <1>4, <3>1 DEF ServiceTypeOK
    <3> QED BY <1>6, <3>1, <3>2
  <2> QED BY <2>1, <2>2
<1>9. ASSUME NEW t \in Service \ Setters PROVE OwnName(t)
  BY <1>1, <1>2, <1>3, <1>6 DEF OwnName, Fits, Named
<1> QED BY <1>4, <1>5, <1>7, <1>8, <1>9 DEF Kept, Inv

LEMMA QuietFits ==
  ASSUME NEW s \in Service, NEW v \in ServiceRecord,
         s \notin Setters /\ v.enabled /\ v.beat # NoBeat => ~v.beat.dangling,
         Is(s) /\ service[s].enabled => v.identity = service[s].identity,
         s \in Configurables \ Setters /\ Is(s) /\ service[s].enabled
           => v.interval = service[s].interval,
         NEW o \in Quiet(v)
  PROVE  Fits(s, o)
<1>1. o.now = v /\ o.said = <<>>
  BY DEF Quiet
<1>2. Heard(s, o)
  BY <1>1 DEF Heard
<1>3. Named(s, o) /\ Leaves(s, o) /\ Returns(s, o)
  BY <1>1 DEF Named, Leaves, Returns
<1> QED BY <1>1, <1>2, <1>3 DEF Fits

\* A service that beats: the message it adds is its own, and names it unless
\* the message it kept is dangling.
LEMMA BeatsSay ==
  ASSUME NEW s \in Service, NEW v \in ServiceRecord, NEW first \in Seq(Heartbeat),
         \A k \in DOMAIN first : first[k].of = s,
         NEW o \in Beats(s, v, first)
  PROVE  /\ Heard(s, o) /\ Len(o.said) = Len(first) + 1
         /\ \A k \in DOMAIN first : o.said[k] = first[k]
         /\ LET last == o.said[Len(first) + 1] IN
            /\ last.of = s /\ last.type = "app"
            /\ last.class = Beating(s, v).beat.class
            /\ last.minutes = Beating(s, v).beat.minutes
            /\ ~Beating(s, v).beat.dangling => last.source = v.identity
<1>1. PICK w \in Apps(s, v) : w \in Heartbeat /\ o.said = Append(first, w)
  BY BeatsType
<1>2. /\ w.of = s /\ w.type = "app"
      /\ w.class = Beating(s, v).beat.class /\ w.minutes = Beating(s, v).beat.minutes
      /\ ~Beating(s, v).beat.dangling => w.source = v.identity
  BY DEF Apps
<1>3. /\ Len(o.said) = Len(first) + 1 /\ o.said[Len(first) + 1] = w
      /\ \A k \in DOMAIN first : o.said[k] = first[k]
  BY <1>1
<1>4. Heard(s, o)
  <2>1. \A k \in DOMAIN o.said : k \in DOMAIN first \/ k = Len(first) + 1
    BY <1>1
  <2> QED BY <1>1, <1>2, <1>3, <2>1, BeatsType DEF Heard
<1> QED BY <1>2, <1>3, <1>4

\* It speaks under its own name when what it kept is sound.
LEMMA BeatsNamed ==
  ASSUME NEW s \in Service, NEW v \in ServiceRecord, NEW first \in Seq(Heartbeat),
         \A k \in DOMAIN first : first[k].of = s /\ first[k].type = "end",
         s \notin Setters /\ v.enabled /\ v.beat # NoBeat => ~v.beat.dangling,
         NEW o \in Beats(s, v, first)
  PROVE  Named(s, o)
<1> SUFFICES ASSUME s \notin Setters, o.now.enabled PROVE
      /\ o.now.beat # NoBeat => ~o.now.beat.dangling
      /\ \A k \in DOMAIN o.said : o.said[k].type = "app" => o.said[k].source = o.now.identity
  BY DEF Named
<1>1. v.enabled /\ o.now.beat = Beating(s, v).beat /\ o.now.identity = v.identity
  BY BeatsType
<1>2. ~Beating(s, v).beat.dangling
  BY <1>1 DEF Beating, Built, ServiceRecord
<1>3. \A k \in DOMAIN o.said : k \in DOMAIN first \/ k = Len(first) + 1
  BY BeatsSay DEF Heard
<1> QED BY <1>1, <1>2, <1>3, BeatsSay

LEMMA BeatsFit ==
  ASSUME NEW s \in Service, NEW v \in ServiceRecord,
         s \notin Setters /\ v.enabled /\ v.beat # NoBeat => ~v.beat.dangling,
         Is(s) /\ service[s].enabled =>
           v.identity = service[s].identity /\ v.interval = service[s].interval,
         NEW o \in Beats(s, v, <<>>)
  PROVE  Fits(s, o)
<1>1. <<>> \in Seq(Heartbeat) /\ DOMAIN <<>> = {}
  OBVIOUS
<1>2. /\ o.now \in ServiceRecord
      /\ o.now.identity = v.identity /\ o.now.interval = v.interval
  BY <1>1, BeatsType
<1>3. Heard(s, o) /\ Named(s, o)
  BY <1>1, BeatsSay, BeatsNamed
<1> QED BY <1>2, <1>3 DEF Fits, Leaves, Returns

\* It says goodbye as what it was and then beats as what it is.
LEMMA GoodbyeFits ==
  ASSUME NEW s \in Service, NEW v \in ServiceRecord, service[s] \in ServiceRecord,
         s \notin Setters => v.beat = NoBeat /\ v.configured,
         NEW o \in Beats(s, v, <<End(s, service[s])>>)
  PROVE  Fits(s, o)
<1> DEFINE first == <<End(s, service[s])>>
<1>1. /\ first \in Seq(Heartbeat) /\ Len(first) = 1 /\ DOMAIN first = {1}
      /\ first[1] = End(s, service[s])
  BY EndType
<1>2. /\ \A k \in DOMAIN first : first[k].of = s
      /\ \A k \in DOMAIN first : first[k].of = s /\ first[k].type = "end"
  BY <1>1 DEF End
<1>3. o \in Beats(s, v, first)
  OBVIOUS
<1> HIDE DEF first
<1>4. /\ o.now \in ServiceRecord
      /\ o.now.identity = v.identity /\ o.now.interval = v.interval
  BY <1>1, <1>3, BeatsType
<1>5. Heard(s, o) /\ Len(o.said) = 2 /\ o.said[1] = End(s, service[s])
  <2>1. Heard(s, o)
    BY <1>1, <1>2, <1>3, BeatsSay
  <2>2. Len(o.said) = Len(first) + 1
    <3>1. first \in Seq(Heartbeat) /\ \A k \in DOMAIN first : first[k].of = s
      BY <1>1, <1>2
    <3> QED BY ONLY <1>3, <3>1, BeatsSay, s \in Service, v \in ServiceRecord
  <2>3. \A k \in DOMAIN first : o.said[k] = first[k]
    BY <1>1, <1>2, <1>3, BeatsSay
  <2> QED BY <1>1, <2>1, <2>2, <2>3
<1>6. /\ o.said[2].type = "app" /\ o.said[2].class = Beating(s, v).beat.class
      /\ o.said[2].minutes = Beating(s, v).beat.minutes
      /\ ~Beating(s, v).beat.dangling => o.said[2].source = v.identity
  <2>1. Len(first) + 1 = 2
    BY <1>1
  <2> QED BY <1>1, <1>2, <1>3, <2>1, BeatsSay
<1>7. Named(s, o)
  BY <1>1, <1>2, <1>3, BeatsNamed
<1>8. s \notin Setters =>
        /\ Beating(s, v).beat.class = "hbeat" /\ ~Beating(s, v).beat.dangling
        /\ Beating(s, v).beat.minutes = v.interval \div MINUTE
  <2>1. v.configured => Class(s, v) = "hbeat" /\ Minutes(s, v) = v.interval \div MINUTE
    BY DEF Class, Minutes, InConfigMode
  <2>2. v.beat = NoBeat => Beating(s, v).beat = Built(s, v)
    BY DEF Beating, ServiceRecord
  <2> QED BY <2>1, <2>2 DEF Built
<1>9. Returns(s, o)
  BY <1>4, <1>5, <1>6, <1>8 DEF Returns
<1>10. Leaves(s, o)
  BY <1>5, <1>6 DEF Leaves
<1> QED BY <1>4, <1>5, <1>7, <1>9, <1>10 DEF Fits
-----------------------------------------------------------------------------
LEMMA Created ==
  ASSUME Inv, NEW s \in Service, createService(s)
  PROVE  Kept
<1>1. PICK id \in Identity :
        Becomes(s, Quiet([enabled |-> FALSE, configured |-> FALSE, identity |-> id,
                          interval |-> DEFAULT_HEARTBEAT_INTERVAL,
                          beat |-> NoBeat, age |-> Longest]))
  BY DEF createService
<1> DEFINE v == [enabled |-> FALSE, configured |-> FALSE, identity |-> id,
                 interval |-> DEFAULT_HEARTBEAT_INTERVAL, beat |-> NoBeat, age |-> Longest]
<1>2. Longest \in 0..Longest
  BY LongestType
<1>3. v \in ServiceRecord
  BY <1>2, ServiceAssumption DEF ServiceRecord
<1>4. ~Is(s) /\ ~v.enabled
  BY DEF createService
<1>5. Becomes(s, Quiet(v)) /\ hubConfirmed' = hubConfirmed
  BY <1>1 DEF createService
<1> HIDE DEF v
<1>6. \A o \in Quiet(v) : Fits(s, o)
  BY <1>3, <1>4, QuietFits
<1> QED BY <1>5, <1>6, FittingCall

LEMMA Enabling ==
  ASSUME Inv, NEW s \in Service, enableService(s)
  PROVE  Kept
<1>1. service[s] \in ServiceRecord /\ Is(s) /\ ~service[s].enabled
  BY DEF enableService, Is, Inv, ServiceTypeOK
<1>2. Enabled(service[s]) \in ServiceRecord /\ Enabled(service[s]).beat = NoBeat
  BY <1>1 DEF Enabled, ServiceRecord
<1>3. \A o \in Beats(s, Enabled(service[s]), <<>>) : Fits(s, o)
  BY <1>1, <1>2, BeatsFit
<1> QED BY <1>3, FittingCall DEF enableService

LEMMA Disabling ==
  ASSUME Inv, NEW s \in Service, disableService(s)
  PROVE  Kept
<1> DEFINE o == [now |-> Disabled(service[s]), said |-> <<End(s, service[s])>>]
<1>1. service[s] \in ServiceRecord
  BY DEF disableService, Is, Inv, ServiceTypeOK
<1>2. /\ o.now \in ServiceRecord /\ ~o.now.enabled
      /\ o.now.identity = service[s].identity /\ o.now.interval = service[s].interval
  BY <1>1 DEF Disabled, ServiceRecord
<1>3. Heard(s, o)
  BY <1>1, EndType DEF Heard, End
<1>4. Fits(s, o)
  BY <1>2, <1>3 DEF Fits, Named, Leaves, Returns
<1>5. Becomes(s, {o}) /\ hubConfirmed' = hubConfirmed
  BY DEF disableService, Becomes
<1> HIDE DEF o
<1> QED BY <1>4, <1>5, FittingCall

LEMMA Releasing ==
  ASSUME Inv, NEW s \in Service, releaseService(s)
  PROVE  Kept
<1>1. service[s] \in ServiceRecord
  BY DEF releaseService, Is, Inv, ServiceTypeOK
<1>2. service'[s] = NoService /\ \A t \in Service \ {s} : service'[t] = service[t]
  BY DEF releaseService, Inv, ServiceTypeOK
<1>3. sent' \in Seq(Heartbeat) /\ \A k \in DOMAIN sent' : sent'[k].of = s
  BY <1>1, EndType DEF releaseService, End
<1>4. ServiceTypeOK'
  BY <1>3 DEF releaseService, Inv, ServiceTypeOK
<1> QED BY <1>2, <1>3, <1>4, ServiceAssumption
        DEF Kept, Inv, Sound, Is, GoodbyeFirst, Announces, OwnName

LEMMA Renaming ==
  ASSUME Inv, NEW s \in Service, NEW id \in Identity, setServiceIdentity(s, id)
  PROVE  Kept
<1> DEFINE v == Renamed(service[s], id)
<1>1. service[s] \in ServiceRecord /\ s \in Setters
  BY DEF setServiceIdentity, Is, Inv, ServiceTypeOK
<1>2. v \in ServiceRecord /\ v.enabled = service[s].enabled
  BY <1>1 DEF Renamed, ServiceRecord, Beat
<1>3. CASE service[s].enabled
  <2>1. \A o \in Beats(s, v, <<End(s, service[s])>>) : Fits(s, o)
    <3> HIDE DEF v
    <3> QED BY <1>1, <1>2, GoodbyeFits
  <2> QED BY <1>3, <2>1, FittingCall DEF setServiceIdentity
<1>4. CASE ~service[s].enabled
  <2>1. \A o \in Quiet(v) : Fits(s, o)
    <3> HIDE DEF v
    <3> QED BY <1>1, <1>2, <1>4, QuietFits
  <2> QED BY <1>4, <2>1, FittingCall DEF setServiceIdentity
<1> QED BY <1>3, <1>4

LEMMA Setting ==
  ASSUME Inv, NEW s \in Service, NEW i \in Intervals, setHeartbeatInterval(s, i)
  PROVE  Kept
<1> DEFINE v == [service[s] EXCEPT !.interval = i]
<1>1. service[s] \in ServiceRecord /\ s \in Setters
  BY DEF setHeartbeatInterval, Is, Inv, ServiceTypeOK
<1>2. v \in ServiceRecord /\ v.identity = service[s].identity
  BY <1>1 DEF ServiceRecord
<1>3. \A o \in Quiet(v) : Fits(s, o)
  <2> HIDE DEF v
  <2> QED BY <1>1, <1>2, QuietFits
<1> QED BY <1>3, FittingCall DEF setHeartbeatInterval

LEMMA Configuring ==
  ASSUME Inv, NEW s \in Service, NEW id \in Identity, NEW i \in Intervals,
         installNewConfig(s, id, i)
  PROVE  Kept
<1> DEFINE v   == service[s]
           new == Installed(v, id, i)
<1>1. v \in ServiceRecord /\ Is(s)
  BY DEF installNewConfig, Is, Inv, ServiceTypeOK
<1>2. /\ new \in ServiceRecord /\ new.identity = id /\ new.interval = i
      /\ new.enabled = v.enabled /\ new.configured
      /\ id = v.identity => new.beat = v.beat
  BY <1>1 DEF Installed, Renamed, ServiceRecord, Beat
<1>3. Becomes(s, Restarts(s, v, id, i)) /\ hubConfirmed' = hubConfirmed
  BY DEF installNewConfig
<1>4. CASE v.enabled /\ (id # v.identity \/ i # v.interval)
  <2>1. /\ Enabled(new) \in ServiceRecord /\ Enabled(new).beat = NoBeat
        /\ Enabled(new).configured
    BY <1>2 DEF Enabled, ServiceRecord
  <2>2. Restarts(s, v, id, i) = Beats(s, Enabled(new), <<End(s, service[s])>>)
    BY <1>4 DEF Restarts
  <2>3. \A o \in Beats(s, Enabled(new), <<End(s, service[s])>>) : Fits(s, o)
    <3> HIDE DEF new
    <3> QED BY <1>1, <2>1, GoodbyeFits
  <2> QED BY <1>3, <2>2, <2>3, FittingCall
<1>5. CASE ~(v.enabled /\ (id # v.identity \/ i # v.interval))
  <2>1. Restarts(s, v, id, i) = Quiet(new)
    BY <1>5 DEF Restarts
  <2>2. s \notin Setters /\ new.enabled /\ new.beat # NoBeat => ~new.beat.dangling
    BY <1>1, <1>2, <1>5 DEF Inv, Sound
  <2>3. \A o \in Quiet(new) : Fits(s, o)
    <3>1. v.enabled => new.identity = v.identity /\ new.interval = v.interval
      BY <1>2, <1>5
    <3> HIDE DEF new
    <3> QED BY <1>1, <1>2, <2>2, <3>1, QuietFits
  <2> QED BY <1>3, <2>1, <2>3, FittingCall
<1> QED BY <1>4, <1>5

\* A service that beats without being changed: asked for it, or in time.
LEMMA BeatsAgain ==
  ASSUME Inv, NEW s \in Service, Is(s),
         Becomes(s, Beats(s, service[s], <<>>)), hubConfirmed' = hubConfirmed
  PROVE  Kept
<1>1. service[s] \in ServiceRecord
  BY DEF Is, Inv, ServiceTypeOK
<1>2. s \notin Setters /\ service[s].enabled /\ service[s].beat # NoBeat
        => ~service[s].beat.dangling
  BY DEF Inv, Sound
<1>3. \A o \in Beats(s, service[s], <<>>) : Fits(s, o)
  BY <1>1, <1>2, BeatsFit
<1> QED BY <1>3, FittingCall
-----------------------------------------------------------------------------
\* Steps in which no service speaks.
LEMMA Silent ==
  ASSUME Inv, sent' = <<>>, hubConfirmed' \in BOOLEAN,
         service' \in [Service -> ServiceRecord \cup {NoService}],
         \A s \in Service :
           \/ service'[s] = service[s]
           \/ Is(s) /\ service'[s] = [service[s] EXCEPT !.age = @ + 1]
  PROVE  Kept
<1>1. ASSUME NEW s \in Service, service'[s] # service[s]
      PROVE  /\ Is(s) /\ service'[s].identity = service[s].identity
             /\ service'[s].interval = service[s].interval
             /\ service'[s].beat = service[s].beat
             /\ service'[s].enabled = service[s].enabled
  BY <1>1 DEF Is, Inv, ServiceTypeOK, ServiceRecord
<1>2. ServiceTypeOK' /\ DOMAIN sent' = {}
  BY DEF ServiceTypeOK
<1>3. \A s \in Service \ Setters : Sound(s)'
  BY <1>1 DEF Inv, Sound, Is
<1> QED BY <1>1, <1>2, <1>3, ServiceAssumption
        DEF Kept, Inv, GoodbyeFirst, Announces, OwnName

LEMMA Ticking == Inv /\ ServiceTick => Kept
<1> SUFFICES ASSUME Inv, ServiceTick PROVE Kept
  OBVIOUS
<1>1. \A s \in Service :
        \/ service'[s] = service[s]
        \/ /\ Is(s) /\ service[s].age < Longest
           /\ service'[s] = [service[s] EXCEPT !.age = @ + 1]
  BY DEF ServiceTick
<1>2. ASSUME NEW s \in Service, Is(s), service[s].age < Longest
      PROVE  [service[s] EXCEPT !.age = @ + 1] \in ServiceRecord
  <2>1. service[s] \in ServiceRecord
    BY <1>2 DEF Is, Inv, ServiceTypeOK
  <2>2. service[s].age + 1 \in 0..Longest
    BY <1>2, <2>1, LongestType DEF ServiceRecord
  <2> QED BY <2>1, <2>2 DEF ServiceRecord
<1>3. service' \in [Service -> ServiceRecord \cup {NoService}]
  <2>1. \A s \in Service : service'[s] \in ServiceRecord \cup {NoService}
    BY <1>1, <1>2 DEF Inv, ServiceTypeOK
  <2> QED BY <2>1 DEF ServiceTick
<1> QED BY <1>1, <1>3, Silent DEF ServiceTick, Inv, ServiceTypeOK

LEMMA Step == Inv /\ ServiceNext => Kept
<1> SUFFICES ASSUME Inv, ServiceNext PROVE Kept
  OBVIOUS
<1>1. CASE \E s \in Service : Commanded(s)
  BY <1>1, Created, Enabling, Disabling, Releasing, Renaming, Setting DEF Commanded
<1>2. CASE \E s \in Service : Asked(s) \/ sendTimelyHeartbeat(s)
  BY <1>2, Configuring, BeatsAgain DEF Asked, handleHeartbeatRequest, sendTimelyHeartbeat, Due
<1>3. CASE hearHubEcho
  BY <1>3, Silent DEF hearHubEcho, Inv, ServiceTypeOK
<1>4. CASE ServiceTick
  BY <1>4, Ticking
<1> QED BY <1>1, <1>2, <1>3, <1>4 DEF ServiceNext

LEMMA InitialServices == ServiceInit => Inv
<1> SUFFICES ASSUME ServiceInit PROVE Inv
  OBVIOUS
<1>1. service \in [Service -> ServiceRecord \cup {NoService}] /\ \A s \in Service : ~Is(s)
  BY DEF ServiceInit, Is
<1>2. hubConfirmed \in BOOLEAN
  BY Zenon DEF ServiceInit
<1>3. sent \in Seq(Heartbeat)
  BY DEF ServiceInit
<1> QED BY <1>1, <1>2, <1>3 DEF Inv, ServiceTypeOK, Sound

LEMMA Invariance == ServiceSpec => []Inv
<1>1. ServiceInit => Inv
  BY InitialServices
<1>2. Inv /\ [ServiceNext]_serviceVars => Inv'
  <2>1. Inv /\ UNCHANGED serviceVars => Inv'
    BY DEF Inv, serviceVars, ServiceTypeOK, Sound, Is
  <2> QED BY <2>1, Step DEF Kept
<1> QED BY <1>1, <1>2, PTL DEF ServiceSpec

\* Every service is well formed and every message sent is a heartbeat of one of
\* them, whatever application and network do with the services.
THEOREM ServicesTyped == ServiceSpec => []ServiceTypeOK
BY Invariance, PTL DEF Inv

\* Whoever renames an enabled service, and in whatever state, a goodbye under
\* the old name goes first (xPL-service.c:312, xPL-config.c:432).
THEOREM RenamesSayGoodbye == ServiceSpec => GoodbyeBeforeRename
<1>1. Inv /\ [ServiceNext]_serviceVars => [\A s \in Service : GoodbyeFirst(s)]_serviceVars
  BY Step DEF Kept
<1> QED BY <1>1, Invariance, PTL DEF ServiceSpec, GoodbyeBeforeRename

\* A change of the name or the interval of an enabled service is announced in the
\* step that makes it, if the application leaves the setters of that service
\* alone.  It says nothing of a configuration that keeps both.
THEOREM RestartsAnnounce == ServiceSpec => RestartAnnounces
<1>1. Inv /\ [ServiceNext]_serviceVars
        => [\A s \in Configurables \ Setters : Announces(s)]_serviceVars
  BY Step DEF Kept
<1> QED BY <1>1, Invariance, PTL DEF ServiceSpec, RestartAnnounces

\* A service that only the configuration renames speaks under its own name: the
\* message whose source was freed is never the one it sends while enabled.
THEOREM SpeakAsThemselves == ServiceSpec => SpeaksAsItself
<1>1. Inv /\ [ServiceNext]_serviceVars
        => [\A s \in Service \ Setters : OwnName(s)]_serviceVars
  BY Step DEF Kept
<1> QED BY <1>1, Invariance, PTL DEF ServiceSpec, SpeaksAsItself
-----------------------------------------------------------------------------
(***************************************************************************)
(* Services and hub.  A service announces one of the Announced intervals,  *)
(* beats after one of the Periods, and the hub remembers it for twice what *)
(* it makes of the interval, and a minute.                                 *)
(***************************************************************************)
Announced == Intervals \cup {CONFIG_HEARTBEAT_INTERVAL : s \in Configurables}
Periods == Announced \cup {HUB_DISCOVERY_INTERVAL}
HubMinutes(minutes) == Hub!getHeartbeatInterval([interval |-> minutes])

\* No service of the port beats more rarely than the hub forgets another one:
\* so it is for services of the default interval (xPL.h:16), and not for one of
\* them beside one that still waits for its configuration (xPL.h:17).
PeriodsFit ==
  \A d \in Periods, i \in Announced : d < (2 * HubMinutes(i \div MINUTE) + 1) * MINUTE

HP == INSTANCE XplHub_proofs WITH
  Port <- {Here}, Ident <- Identity \cup {Garbage},
  Interval <- {i \div MINUTE : i \in Intervals \cup {CONFIG_HEARTBEAT_INTERVAL}},
  Copies <- {"ascending"}

Mins == {i \div MINUTE : i \in Announced}

\* What the services keep and what is on its way says an announced interval.
AnnouncesKnown(s) == Is(s) /\ service[s].beat # NoBeat => service[s].beat.minutes \in Mins
\* An enabled service is never overdue.
InTime(s) == Is(s) /\ service[s].enabled => \E d \in Periods : service[s].age =< d
\* The hub has heard the port since any of its services last beat, unless a
\* beat is on its way.
Pending == \E k \in DOMAIN net : net[k].type = "app"
HeardSince(s) ==
  ~lost /\ heard[Here] # NotHeard /\ ~Pending /\ Is(s) /\ service[s].enabled
    => heard[Here].lastHeardFrom =< service[s].age

NetInv ==
  /\ Inv /\ HP!Inv
  /\ net \in Seq(Heartbeat) /\ \A k \in DOMAIN net : net[k].minutes \in Mins
  /\ \A s \in Service : AnnouncesKnown(s) /\ InTime(s) /\ HeardSince(s)
  /\ heard[Here] # NotHeard => \E m \in Mins : heard[Here].heartbeatInterval = HubMinutes(m)
  /\ ~hubRunning => heard[Here] = NotHeard /\ clientIndex = 0
-----------------------------------------------------------------------------
\* What each outcome of a call says: an announced interval, and that the
\* service beats, unless it was enabled before and its age is what it was.
Audible(s, o) ==
  /\ o.now.beat # NoBeat => o.now.beat.minutes \in Mins
  /\ o.now.enabled =>
       \/ o.now.age = 0 /\ \E k \in DOMAIN o.said : o.said[k].type = "app"
       \/ Is(s) /\ service[s].enabled /\ o.now.age = service[s].age
  /\ \A k \in DOMAIN o.said : o.said[k].minutes \in Mins

LEMMA MinutesAnnounced ==
  ASSUME NEW s \in Service, NEW v \in ServiceRecord
  PROVE  Minutes(s, v) \in Mins
<1>1. CASE InConfigMode(s, v)
  BY <1>1 DEF Minutes, InConfigMode, Mins, Announced
<1>2. CASE ~InConfigMode(s, v)
  BY <1>2 DEF Minutes, Mins, Announced, ServiceRecord
<1> QED BY <1>1, <1>2

LEMMA QuietIsAudible ==
  ASSUME NEW s \in Service, NEW v \in ServiceRecord,
         v.beat # NoBeat => v.beat.minutes \in Mins,
         v.enabled => Is(s) /\ service[s].enabled /\ v.age = service[s].age,
         NEW o \in Quiet(v)
  PROVE  Audible(s, o)
<1>1. o.now = v /\ o.said = <<>> /\ DOMAIN <<>> = {}
  BY DEF Quiet
<1> QED BY <1>1 DEF Audible

LEMMA BeatsAreAudible ==
  ASSUME NEW s \in Service, NEW v \in ServiceRecord,
         v.beat # NoBeat => v.beat.minutes \in Mins,
         NEW first \in Seq(Heartbeat), \A k \in DOMAIN first : first[k].minutes \in Mins,
         NEW o \in Beats(s, v, first)
  PROVE  Audible(s, o)
<1>1. PICK w \in Apps(s, v) : w \in Heartbeat /\ o.said = Append(first, w)
  BY BeatsType
<1>2. o.now = Beating(s, v)
  BY DEF Beats
<1>3. Beating(s, v).beat.minutes \in Mins /\ Beating(s, v).age = 0
  BY MinutesAnnounced DEF Beating, Built, ServiceRecord
<1>4. w.type = "app" /\ w.minutes \in Mins
  BY <1>3 DEF Apps
<1>5. /\ Len(first) + 1 \in DOMAIN o.said /\ o.said[Len(first) + 1] = w
      /\ \A k \in DOMAIN o.said : k \in DOMAIN first \/ k = Len(first) + 1
      /\ \A k \in DOMAIN first : o.said[k] = first[k]
  BY <1>1
<1> QED BY <1>2, <1>3, <1>4, <1>5 DEF Audible

LEMMA GoodbyeAnnounces ==
  ASSUME NEW s \in Service, NEW v \in ServiceRecord
  PROVE  /\ <<End(s, v)>> \in Seq(Heartbeat)
         /\ \A k \in DOMAIN <<End(s, v)>> : <<End(s, v)>>[k].minutes \in Mins
<1>1. End(s, v) \in Heartbeat
  BY EndType
<1>2. End(s, v).minutes \in Mins
  BY MinutesAnnounced DEF End
<1> QED BY <1>1, <1>2

\* A step in which s alone acts.
Speaks(s) ==
  /\ \A t \in Service \ {s} : service'[t] = service[t]
  /\ service'[s] # NoService => Audible(s, [now |-> service'[s], said |-> sent'])
  /\ \A k \in DOMAIN sent' : sent'[k].minutes \in Mins

LEMMA AudibleCall ==
  ASSUME Inv, NEW s \in Service, NEW outcomes, Becomes(s, outcomes),
         \A o \in outcomes : Audible(s, o)
  PROVE  Speaks(s)
<1>1. PICK o \in outcomes : service' = [service EXCEPT ![s] = o.now] /\ sent' = o.said
  BY DEF Becomes
<1>2. Audible(s, o)
  BY <1>1
<1>3. service'[s] = o.now /\ \A t \in Service \ {s} : service'[t] = service[t]
  BY <1>1 DEF Inv, ServiceTypeOK
<1> QED BY <1>1, <1>2, <1>3 DEF Speaks, Audible

LEMMA CommandSpeaks ==
  ASSUME Inv, NEW s \in Service, AnnouncesKnown(s), Commanded(s)
  PROVE  Speaks(s)
<1>0. Is(s) => service[s] \in ServiceRecord
  BY DEF Is, Inv, ServiceTypeOK
<1>a. <<>> \in Seq(Heartbeat) /\ DOMAIN <<>> = {}
  OBVIOUS
<1>1. CASE createService(s)
  <2>1. PICK id \in Identity :
          Becomes(s, Quiet([enabled |-> FALSE, configured |-> FALSE, identity |-> id,
                            interval |-> DEFAULT_HEARTBEAT_INTERVAL,
                            beat |-> NoBeat, age |-> Longest]))
    BY <1>1 DEF createService
  <2> DEFINE v == [enabled |-> FALSE, configured |-> FALSE, identity |-> id,
                   interval |-> DEFAULT_HEARTBEAT_INTERVAL, beat |-> NoBeat, age |-> Longest]
  <2>2. Longest \in 0..Longest
    BY LongestType
  <2>3. v \in ServiceRecord /\ ~v.enabled /\ v.beat = NoBeat
    BY <2>2, ServiceAssumption DEF ServiceRecord
  <2>4. Becomes(s, Quiet(v))
    BY <2>1
  <2> HIDE DEF v
  <2>5. \A o \in Quiet(v) : Audible(s, o)
    BY <2>3, QuietIsAudible
  <2> QED BY <2>4, <2>5, AudibleCall
<1>2. CASE enableService(s)
  <2>1. service[s] \in ServiceRecord
    BY <1>0, <1>2 DEF enableService
  <2>2. Enabled(service[s]) \in ServiceRecord /\ Enabled(service[s]).beat = NoBeat
    BY <2>1 DEF Enabled, ServiceRecord
  <2>3. \A o \in Beats(s, Enabled(service[s]), <<>>) : Audible(s, o)
    BY <1>a, <2>2, BeatsAreAudible
  <2> QED BY <1>2, <2>3, AudibleCall DEF enableService
<1>3. CASE disableService(s)
  <2> DEFINE o == [now |-> Disabled(service[s]), said |-> <<End(s, service[s])>>]
  <2>1. service[s] \in ServiceRecord /\ Is(s)
    BY <1>0, <1>3 DEF disableService
  <2>2. o.now.beat = service[s].beat /\ ~o.now.enabled
    BY <2>1 DEF Disabled, ServiceRecord
  <2>3. \A k \in DOMAIN o.said : o.said[k].minutes \in Mins
    BY <2>1, GoodbyeAnnounces
  <2>4. Becomes(s, {o})
    BY <1>3 DEF disableService, Becomes
  <2> HIDE DEF o
  <2>5. Audible(s, o)
    BY <2>1, <2>2, <2>3 DEF Audible, AnnouncesKnown
  <2> QED BY <2>4, <2>5, AudibleCall
<1>4. CASE releaseService(s)
  <2>1. service[s] \in ServiceRecord
    BY <1>0, <1>4 DEF releaseService
  <2>2. service'[s] = NoService /\ \A t \in Service \ {s} : service'[t] = service[t]
    BY <1>4 DEF releaseService, Inv, ServiceTypeOK
  <2>3. \A k \in DOMAIN sent' : sent'[k].minutes \in Mins
    BY <1>a, <1>4, <2>1, GoodbyeAnnounces DEF releaseService
  <2> QED BY <2>2, <2>3 DEF Speaks
<1>5. ASSUME NEW id \in Identity, setServiceIdentity(s, id) PROVE Speaks(s)
  <2> DEFINE v == Renamed(service[s], id)
  <2>1. service[s] \in ServiceRecord /\ Is(s)
    BY <1>0, <1>5 DEF setServiceIdentity
  <2>2. /\ v \in ServiceRecord /\ v.enabled = service[s].enabled /\ v.age = service[s].age
        /\ v.beat # NoBeat => service[s].beat # NoBeat /\ v.beat.minutes = service[s].beat.minutes
    BY <2>1 DEF Renamed, ServiceRecord, Beat
  <2>3. v.beat # NoBeat => v.beat.minutes \in Mins
    BY <2>1, <2>2 DEF AnnouncesKnown
  <2>4. CASE service[s].enabled
    <3>1. \A o \in Beats(s, v, <<End(s, service[s])>>) : Audible(s, o)
      <4> HIDE DEF v
      <4> QED BY <2>1, <2>2, <2>3, GoodbyeAnnounces, BeatsAreAudible
    <3> QED BY <1>5, <2>4, <3>1, AudibleCall DEF setServiceIdentity
  <2>5. CASE ~service[s].enabled
    <3>1. \A o \in Quiet(v) : Audible(s, o)
      <4> HIDE DEF v
      <4> QED BY <2>2, <2>3, <2>5, QuietIsAudible
    <3> QED BY <1>5, <2>5, <3>1, AudibleCall DEF setServiceIdentity
  <2> QED BY <2>4, <2>5
<1>6. ASSUME NEW i \in Intervals, setHeartbeatInterval(s, i) PROVE Speaks(s)
  <2> DEFINE v == [service[s] EXCEPT !.interval = i]
  <2>1. service[s] \in ServiceRecord /\ Is(s)
    BY <1>0, <1>6 DEF setHeartbeatInterval
  <2>2. /\ v \in ServiceRecord /\ v.beat = service[s].beat
        /\ v.enabled = service[s].enabled /\ v.age = service[s].age
    BY <2>1 DEF ServiceRecord
  <2>3. \A o \in Quiet(v) : Audible(s, o)
    <3> HIDE DEF v
    <3> QED BY <2>1, <2>2, QuietIsAudible DEF AnnouncesKnown
  <2> QED BY <1>6, <2>3, AudibleCall DEF setHeartbeatInterval
<1> QED BY <1>1, <1>2, <1>3, <1>4, <1>5, <1>6 DEF Commanded

LEMMA BeatSpeaks ==
  ASSUME Inv, NEW s \in Service, AnnouncesKnown(s), Is(s), Becomes(s, Beats(s, service[s], <<>>))
  PROVE  Speaks(s)
<1>1. service[s] \in ServiceRecord
  BY DEF Is, Inv, ServiceTypeOK
<1>2. <<>> \in Seq(Heartbeat) /\ DOMAIN <<>> = {}
  OBVIOUS
<1>3. \A o \in Beats(s, service[s], <<>>) : Audible(s, o)
  BY <1>1, <1>2, BeatsAreAudible DEF AnnouncesKnown
<1> QED BY <1>3, AudibleCall

LEMMA RequestSpeaks ==
  ASSUME Inv, NEW s \in Service, AnnouncesKnown(s), Asked(s)
  PROVE  Speaks(s)
<1>1. ASSUME NEW id \in Identity, NEW i \in Intervals, installNewConfig(s, id, i)
      PROVE  Speaks(s)
  <2> DEFINE v   == service[s]
             new == Installed(v, id, i)
  <2>1. v \in ServiceRecord /\ Is(s)
    BY <1>1 DEF installNewConfig, Is, Inv, ServiceTypeOK
  <2>2. /\ new \in ServiceRecord /\ new.enabled = v.enabled /\ new.age = v.age
        /\ new.beat # NoBeat => v.beat # NoBeat /\ new.beat.minutes = v.beat.minutes
    BY <2>1 DEF Installed, Renamed, ServiceRecord, Beat
  <2>3. new.beat # NoBeat => new.beat.minutes \in Mins
    BY <2>1, <2>2 DEF AnnouncesKnown
  <2>4. Becomes(s, Restarts(s, v, id, i))
    BY <1>1 DEF installNewConfig
  <2>5. CASE v.enabled /\ (id # v.identity \/ i # v.interval)
    <3>1. Enabled(new) \in ServiceRecord /\ Enabled(new).beat = NoBeat
      BY <2>2 DEF Enabled, ServiceRecord
    <3>2. Restarts(s, v, id, i) = Beats(s, Enabled(new), <<End(s, service[s])>>)
      BY <2>5 DEF Restarts
    <3>3. \A o \in Beats(s, Enabled(new), <<End(s, service[s])>>) : Audible(s, o)
      <4> HIDE DEF new
      <4> QED BY <2>1, <3>1, GoodbyeAnnounces, BeatsAreAudible
    <3> QED BY <2>4, <3>2, <3>3, AudibleCall
  <2>6. CASE ~(v.enabled /\ (id # v.identity \/ i # v.interval))
    <3>1. Restarts(s, v, id, i) = Quiet(new)
      BY <2>6 DEF Restarts
    <3>2. \A o \in Quiet(new) : Audible(s, o)
      <4> HIDE DEF new
      <4> QED BY <2>1, <2>2, <2>3, QuietIsAudible
    <3> QED BY <2>4, <3>1, <3>2, AudibleCall
  <2> QED BY <2>5, <2>6
<1>2. CASE handleHeartbeatRequest(s)
  BY <1>2, BeatSpeaks DEF handleHeartbeatRequest
<1> QED BY <1>1, <1>2 DEF Asked
-----------------------------------------------------------------------------
\* The hub's assumptions hold of the hub of this program.
LEMMA HubOfProgram == HP!HubAssumption /\ HP!NoPortAssumption /\ HP!NotHeardAssumption
<1> DEFINE announced == {i \div MINUTE : i \in Intervals \cup {CONFIG_HEARTBEAT_INTERVAL}}
<1>1. announced \subseteq Int
  <2>1. \A i \in Nat : i \div MINUTE \in Int
    BY ServiceAssumption
  <2>2. Intervals \cup {CONFIG_HEARTBEAT_INTERVAL} \subseteq Nat
    BY ServiceAssumption
  <2> QED BY <2>1, <2>2
<1>2. HP!HubAssumption
  BY <1>1, ServiceAssumption, NetworkAssumption
<1>3. HP!NoPortAssumption
  BY NetworkAssumption
<1>4. HP!NotHeardAssumption
  <2>1. NotHeard \notin HP!Client
    BY NetworkAssumption DEF HP!Client, Hub!Client, HP!Oldest, Hub!Oldest
  <2> QED BY <2>1
<1> QED BY <1>2, <1>3, <1>4

LEMMA HubStep ==
  ASSUME HP!Inv, [HP!Next]_HP!vars
  PROVE  HP!Inv'
BY HubOfProgram, HP!Preserved
LEMMA HubIdle == ASSUME HP!Inv, UNCHANGED hubVars PROVE HP!Inv'
<1>1. UNCHANGED HP!vars
  BY DEF hubVars, HP!vars
<1> QED BY <1>1, HubStep

LEMMA HubSwitches == ASSUME HP!Inv, HubSwitched PROVE HP!Inv'
<1>1. HP!startHub \/ HP!stopHub
  BY DEF HubSwitched, Hub!startHub, Hub!stopHub, HP!startHub, HP!stopHub
<1> QED BY <1>1, HubStep DEF HP!Next

LEMMA HubChecking == ASSUME HP!Inv, HubChecks PROVE HP!Inv'
<1>1. HP!StartChecks \/ HP!CheckClient
  BY DEF HubChecks, Hub!StartChecks, Hub!CheckClient, HP!StartChecks, HP!CheckClient,
         Hub!Expired, HP!Expired, Hub!releaseClient, HP!releaseClient
<1> QED BY <1>1, HubStep DEF HP!Next

LEMMA HubTicks == ASSUME HP!Inv, Hub!Tick PROVE HP!Inv'
<1>1. HP!Tick
  BY DEF Hub!Tick, HP!Tick, Hub!Older, HP!Older, Hub!Oldest, HP!Oldest
<1> QED BY <1>1, HubStep DEF HP!Next

LEMMA HubHears ==
  ASSUME HP!Inv, NEW m \in Hub!Message, Hub!handleXPLMessage(m)
  PROVE  HP!Inv'
<1>1. m \in HP!Message
  BY DEF Hub!Message, HP!Message
<1>2. HP!checkForClientUpdates(m)
  <2>1. Hub!checkForClientUpdates(m)
    BY DEF Hub!handleXPLMessage
  <2>2. Hub!Described(m) = HP!Described(m)
    BY DEF Hub!Described, HP!Described, Hub!getHeartbeatInterval, HP!getHeartbeatInterval
  <2>3. Hub!Irrelevant(m) = HP!Irrelevant(m) /\ Hub!Known(m.port) = HP!Known(m.port)
    BY DEF Hub!Irrelevant, HP!Irrelevant, Hub!Known, HP!Known
  <2> QED BY <2>1, <2>2, <2>3
          DEF Hub!checkForClientUpdates, HP!checkForClientUpdates, Hub!addNewClient,
              HP!addNewClient, Hub!updateClient, HP!updateClient
<1>3. HP!handleXPLMessage(m)
  BY <1>2 DEF Hub!handleXPLMessage, HP!handleXPLMessage,
              Hub!rebroadcastMessageToClients, HP!rebroadcastMessageToClients
<1> QED BY <1>1, <1>3, HubStep DEF HP!Next

\* What the hub makes of a heartbeat of this program.
LEMMA ReceivedType ==
  ASSUME NEW w \in Heartbeat, w.minutes \in Mins
  PROVE  AsReceived(w) \in Hub!Message
<1>1. w.minutes \in {i \div MINUTE : i \in Intervals \cup {CONFIG_HEARTBEAT_INTERVAL}}
  BY DEF Mins, Announced
<1> QED BY <1>1 DEF AsReceived, Hub!Message, Heartbeat

LEMMA Registered ==
  ASSUME NetInv, NEW w \in Heartbeat, Hub!handleXPLMessage(AsReceived(w))
  PROVE  \/ heard'[Here] = NotHeard
         \/ /\ heard'[Here].lastHeardFrom = 0
            /\ heard'[Here].heartbeatInterval = HubMinutes(w.minutes)
         \/ w.type = "end" /\ heard' = heard
<1> DEFINE m == AsReceived(w)
<1>1. /\ m.heartbeat /\ m.local /\ m.port = Here /\ m.interval = w.minutes
      /\ m.end = (w.type = "end")
  BY DEF AsReceived
<1>2. m.port # NoPort
  BY <1>1, NetworkAssumption
<1>3. Here \in DOMAIN heard
  BY DEF NetInv, HP!Inv, HP!TypeOK
<1>4. /\ Hub!Described(m).lastHeardFrom = 0
      /\ Hub!Described(m).heartbeatInterval = HubMinutes(w.minutes)
  BY <1>1 DEF Hub!Described, HubMinutes, Hub!getHeartbeatInterval
<1>5. Hub!checkForClientUpdates(m)
  BY DEF Hub!handleXPLMessage
<1> HIDE DEF m
<1>6. CASE Hub!Irrelevant(m) /\ UNCHANGED heard
  <2>1. m.end
    BY <1>1, <1>2, <1>6 DEF Hub!Irrelevant
  <2> QED BY <1>1, <1>6, <2>1
<1>7. CASE heard' = [heard EXCEPT ![m.port] = Hub!Described(m)]
  <2>1. heard'[Here] = Hub!Described(m)
    BY <1>1, <1>3, <1>7
  <2> QED BY <1>4, <2>1
<1>8. CASE heard' = [heard EXCEPT ![m.port] = NotHeard]
  BY <1>1, <1>3, <1>8
<1> QED BY <1>5, <1>6, <1>7, <1>8
        DEF Hub!checkForClientUpdates, Hub!addNewClient, Hub!updateClient
-----------------------------------------------------------------------------
LEMMA NatProduct == \A x, y \in Nat : x * y \in Nat
OBVIOUS

\* Less than k + 1 minutes are at most k whole ones.
LEMMA Whole ==
  ASSUME NEW a \in Nat, NEW k \in Int, NEW m \in Nat \ {0}, a < (k + 1) * m
  PROVE  a \div m =< k
<1> DEFINE q == a \div m
<1>1. q \in Nat /\ m * q =< a
  OBVIOUS
<1> HIDE DEF q
<1>2. ASSUME q > k PROVE FALSE
  <2>1. q >= k + 1 /\ q - (k + 1) \in Nat
    BY <1>1, <1>2
  <2>2. m * q = m * (k + 1) + m * (q - (k + 1))
    BY <1>1
  <2>3. m * (q - (k + 1)) >= 0
    BY <2>1, NatProduct
  <2> QED BY <1>1, <2>2, <2>3
<1> QED BY <1>1, <1>2 DEF q

LEMMA Numbers ==
  /\ Periods \subseteq Nat /\ Announced \subseteq Periods /\ Mins \subseteq Nat
  /\ \A d \in Periods : 0 =< d
<1>1. Periods \subseteq Nat
  BY ServiceAssumption DEF Periods, Announced
<1>2. \A i \in Nat : i \div MINUTE \in Nat
  BY ServiceAssumption
<1> QED BY <1>1, <1>2 DEF Periods, Mins

LEMMA Initially == Init => NetInv
<1> SUFFICES ASSUME Init PROVE NetInv
  OBVIOUS
<1>1. ServiceInit /\ Hub!Init /\ net = <<>>
  BY DEF Init
<1>2. Inv
  BY <1>1, InitialServices
<1>3. HP!Inv
  <2>1. HP!Init
    BY <1>1 DEF Hub!Init, HP!Init
  <2> QED BY <2>1, HubOfProgram, HP!Initial
<1>4. \A s \in Service : ~Is(s)
  BY <1>1 DEF ServiceInit, Is
<1>5. heard[Here] = NotHeard /\ clientIndex = 0
  BY <1>1 DEF Hub!Init
<1>6. net \in Seq(Heartbeat) /\ DOMAIN net = {}
  BY <1>1
<1> QED BY <1>2, <1>3, <1>4, <1>5, <1>6 DEF NetInv, AnnouncesKnown, InTime, HeardSince

\* A service that acts, and what it says goes on its way.
LEMMA SpeakingKeeps ==
  ASSUME NetInv, Inv', NEW s \in Service, Speaks(s), Sends
  PROVE  NetInv'
<1>1. /\ net \in Seq(Heartbeat) /\ sent' \in Seq(Heartbeat) /\ net' = net \o sent'
      /\ UNCHANGED hubVars /\ lost' = lost
  BY DEF NetInv, Inv, ServiceTypeOK, Sends
<1>2. HP!Inv'
  BY <1>1, HubIdle DEF NetInv
<1>3. /\ net' \in Seq(Heartbeat) /\ Len(net) \in Nat /\ Len(sent') \in Nat
      /\ Len(net') = Len(net) + Len(sent')
      /\ \A k \in 1..Len(net) : net'[k] = net[k]
      /\ \A k \in 1..Len(sent') : net'[Len(net) + k] = sent'[k]
      /\ DOMAIN net = 1..Len(net) /\ DOMAIN sent' = 1..Len(sent') /\ DOMAIN net' = 1..Len(net')
  <2> DEFINE said == sent'
  <2>1. said \in Seq(Heartbeat) /\ net' = net \o said
    BY <1>1
  <2> HIDE DEF said
  <2>2. /\ net \o said \in Seq(Heartbeat) /\ Len(net) \in Nat /\ Len(said) \in Nat
        /\ Len(net \o said) = Len(net) + Len(said)
        /\ \A k \in 1..Len(net) : (net \o said)[k] = net[k]
        /\ \A k \in 1..Len(said) : (net \o said)[Len(net) + k] = said[k]
        /\ DOMAIN net = 1..Len(net) /\ DOMAIN said = 1..Len(said)
        /\ DOMAIN (net \o said) = 1..Len(net \o said)
    BY <1>1, <2>1
  <2> QED BY <2>1, <2>2 DEF said
<1>4. \A k \in DOMAIN net' : net'[k].minutes \in Mins
  <2> SUFFICES ASSUME NEW k \in 1..Len(net') PROVE net'[k].minutes \in Mins
    BY <1>3
  <2>1. CASE k =< Len(net)
    BY <1>3, <2>1 DEF NetInv
  <2>2. CASE ~(k =< Len(net))
    <3>1. PICK j \in 1..Len(sent') : k = Len(net) + j
      <4>1. k - Len(net) \in 1..Len(sent') /\ k = Len(net) + (k - Len(net))
        BY <1>3, <2>2
      <4> QED BY <4>1
    <3>2. net'[k] = sent'[j] /\ j \in DOMAIN sent'
      BY <1>3, <3>1
    <3> QED BY <3>2 DEF Speaks
  <2> QED BY <2>1, <2>2
<1>5. ASSUME NEW k \in DOMAIN net, net[k].type = "app" PROVE Pending'
  <2>1. k \in DOMAIN net' /\ net'[k] = net[k]
    BY <1>3
  <2> QED BY <1>5, <2>1 DEF Pending
<1>6. ASSUME NEW k \in DOMAIN sent', sent'[k].type = "app" PROVE Pending'
  <2>1. Len(net) + k \in DOMAIN net' /\ net'[Len(net) + k] = sent'[k]
    BY <1>3
  <2> QED BY <1>6, <2>1 DEF Pending
<1>7. ~Pending' => ~Pending
  BY <1>5 DEF Pending
<1>8. ASSUME NEW t \in Service
      PROVE  (AnnouncesKnown(t) /\ InTime(t) /\ HeardSince(t))'
  <2>1. CASE t # s
    <3>1. service'[t] = service[t]
      BY <2>1 DEF Speaks
    <3> QED BY <1>1, <1>7, <3>1 DEF NetInv, AnnouncesKnown, InTime, HeardSince, Is, hubVars
  <2>2. CASE t = s
    <3>1. CASE service'[s] = NoService
      BY <2>2, <3>1 DEF AnnouncesKnown, InTime, HeardSince, Is
    <3>2. CASE service'[s] # NoService
      <4>1. /\ service'[s].beat # NoBeat => service'[s].beat.minutes \in Mins
            /\ service'[s].enabled =>
                 \/ service'[s].age = 0 /\ Pending'
                 \/ Is(s) /\ service[s].enabled /\ service'[s].age = service[s].age
        BY <1>6, <3>2 DEF Speaks, Audible
      <4>2. PICK d \in Periods : 0 =< d
        BY Numbers DEF Periods
      <4>3. InTime(s)'
        BY <4>1, <4>2 DEF NetInv, InTime
      <4>4. HeardSince(s)'
        BY <1>1, <1>7, <4>1 DEF NetInv, HeardSince, hubVars
      <4> QED BY <2>2, <4>1, <4>3, <4>4 DEF AnnouncesKnown
    <3> QED BY <3>1, <3>2
  <2> QED BY <2>1, <2>2
<1>9. /\ heard'[Here] # NotHeard => \E m \in Mins : heard'[Here].heartbeatInterval = HubMinutes(m)
      /\ ~hubRunning' => heard'[Here] = NotHeard /\ clientIndex' = 0
  BY <1>1 DEF NetInv, hubVars
<1> QED BY <1>2, <1>3, <1>4, <1>8, <1>9 DEF NetInv

\* A step of the network or the hub in which no service changes.
LEMMA ServicesKeep ==
  ASSUME Inv, service' = service, sent' = <<>>, hubConfirmed' \in BOOLEAN
  PROVE  Inv'
<1>1. Inv' /\ TRUE
  BY Silent DEF Inv, ServiceTypeOK, Kept
<1> QED BY <1>1

\* The first message on the way is gone.
LEMMA FirstGone ==
  ASSUME NetInv, net # <<>>, net' = Tail(net)
  PROVE  /\ net' \in Seq(Heartbeat) /\ \A k \in DOMAIN net' : net'[k].minutes \in Mins
         /\ Head(net) \in Heartbeat /\ Head(net).minutes \in Mins
         /\ Pending => Pending' \/ Head(net).type = "app"
<1>1. /\ net \in Seq(Heartbeat) /\ Len(net) \in Nat /\ Len(net) > 0
      /\ DOMAIN net = 1..Len(net) /\ Head(net) = net[1]
  BY DEF NetInv
<1>2. /\ net' \in Seq(Heartbeat) /\ Len(net') = Len(net) - 1
      /\ DOMAIN net' = 1..Len(net') /\ \A k \in 1..Len(net') : net'[k] = net[k + 1]
  BY <1>1
<1>3. \A k \in 1..Len(net') : k + 1 \in DOMAIN net
  BY <1>1, <1>2
<1>4. \A k \in DOMAIN net' : net'[k].minutes \in Mins
  BY <1>2, <1>3 DEF NetInv
<1>5. 1 \in DOMAIN net /\ Head(net) \in Heartbeat /\ Head(net).minutes \in Mins
  BY <1>1 DEF NetInv
<1>6. ASSUME NEW k \in DOMAIN net, net[k].type = "app", k # 1
      PROVE  Pending'
  <2>1. k - 1 \in 1..Len(net') /\ (k - 1) + 1 = k
    BY <1>1, <1>2, <1>6
  <2>2. k - 1 \in DOMAIN net' /\ net'[k - 1] = net[k]
    BY <1>2, <2>1
  <2> QED BY <1>6, <2>2 DEF Pending
<1>7. Pending => Pending' \/ Head(net).type = "app"
  BY <1>1, <1>6 DEF Pending
<1> QED BY <1>2, <1>4, <1>5, <1>7

LEMMA Aged ==
  ASSUME NetInv, NEW s \in Service, Is(s)
  PROVE  service[s] \in ServiceRecord /\ service[s].age \in Nat
<1>1. service[s] \in ServiceRecord
  BY DEF NetInv, Inv, ServiceTypeOK, Is
<1> QED BY <1>1, LongestType DEF ServiceRecord

LEMMA Delivering == ASSUME NetInv, Deliver PROVE NetInv'
<1> DEFINE w == Head(net)
<1>1. /\ net # <<>> /\ net' = Tail(net) /\ Hub!handleXPLMessage(AsReceived(w))
      /\ lost' = (lost /\ w.type = "end")
      /\ sent' = <<>> /\ UNCHANGED <<service, hubConfirmed>>
  BY DEF Deliver
<1>2. /\ net' \in Seq(Heartbeat) /\ \A k \in DOMAIN net' : net'[k].minutes \in Mins
      /\ w \in Heartbeat /\ w.minutes \in Mins /\ (Pending => Pending' \/ w.type = "app")
  BY <1>1, FirstGone
<1> HIDE DEF w
<1>3. HP!Inv'
  BY <1>1, <1>2, ReceivedType, HubHears DEF NetInv
<1>4. Inv'
  BY <1>1, ServicesKeep DEF NetInv, Inv, ServiceTypeOK
<1>5. \/ heard'[Here] = NotHeard
      \/ heard'[Here].lastHeardFrom = 0 /\ heard'[Here].heartbeatInterval = HubMinutes(w.minutes)
      \/ w.type = "end" /\ heard' = heard
  BY <1>1, <1>2, Registered
<1>6. hubRunning /\ hubRunning' = hubRunning
  BY <1>1 DEF Hub!handleXPLMessage
<1>7. heard'[Here] # NotHeard => \E m \in Mins : heard'[Here].heartbeatInterval = HubMinutes(m)
  BY <1>2, <1>5 DEF NetInv
<1>8. ASSUME NEW s \in Service PROVE (AnnouncesKnown(s) /\ InTime(s) /\ HeardSince(s))'
  <2>1. (AnnouncesKnown(s) /\ InTime(s))'
    BY <1>1 DEF NetInv, AnnouncesKnown, InTime, Is
  <2>2. HeardSince(s)'
    <3> SUFFICES ASSUME ~lost', heard'[Here] # NotHeard, ~Pending', Is(s), service[s].enabled
                 PROVE  heard'[Here].lastHeardFrom =< service[s].age
      BY <1>1 DEF HeardSince, Is
    <3>1. CASE heard'[Here].lastHeardFrom = 0
      BY <3>1, Aged
    <3>2. CASE w.type = "end" /\ heard' = heard
      <4>1. ~lost /\ ~Pending
        BY <1>1, <1>2, <3>2
      <4> QED BY <3>2, <4>1 DEF NetInv, HeardSince
    <3> QED BY <1>5, <3>1, <3>2
  <2> QED BY <2>1, <2>2
<1> QED BY <1>2, <1>3, <1>4, <1>6, <1>7, <1>8 DEF NetInv

LEMMA Losing == ASSUME NetInv, Lose PROVE NetInv'
<1>1. /\ net # <<>> /\ net' = Tail(net) /\ lost' /\ sent' = <<>>
      /\ UNCHANGED <<service, hubConfirmed, hubVars>>
  BY DEF Lose
<1>2. HP!Inv' /\ Inv'
  BY <1>1, HubIdle, ServicesKeep DEF NetInv, Inv, ServiceTypeOK
<1>3. net' \in Seq(Heartbeat) /\ \A k \in DOMAIN net' : net'[k].minutes \in Mins
  BY <1>1, FirstGone
<1> QED BY <1>1, <1>2, <1>3 DEF NetInv, AnnouncesKnown, InTime, HeardSince, Is, hubVars

LEMMA EchoGone == ASSUME NetInv, LoseEcho \/ ReceiveEcho PROVE NetInv'
<1>1. /\ UNCHANGED <<service, hubVars, net, lost>> /\ sent' = <<>>
      /\ hubConfirmed' = hubConfirmed \/ hubConfirmed' = TRUE
  BY DEF LoseEcho, ReceiveEcho, hearHubEcho
<1>2. hubConfirmed' \in BOOLEAN
  <2>1. hubConfirmed \in BOOLEAN
    BY DEF NetInv, Inv, ServiceTypeOK
  <2> QED BY <1>1, <2>1, Zenon
<1>3. HP!Inv' /\ Inv'
  BY <1>1, <1>2, HubIdle, ServicesKeep DEF NetInv
<1> QED BY <1>1, <1>3 DEF NetInv, AnnouncesKnown, InTime, HeardSince, Pending, Is, hubVars

LEMMA HubActing == ASSUME NetInv, HubSwitched \/ HubChecks PROVE NetInv'
<1>1. sent' = <<>> /\ UNCHANGED <<service, hubConfirmed, net, lost>>
  BY DEF HubSwitched, HubChecks, HubAlone
<1>2. HP!Inv' /\ Inv'
  BY <1>1, HubSwitches, HubChecking, ServicesKeep DEF NetInv, Inv, ServiceTypeOK
<1>3. heard' = heard \/ heard'[Here] = NotHeard
  BY DEF HubSwitched, HubChecks, Hub!startHub, Hub!stopHub, Hub!StartChecks, Hub!CheckClient
<1>4. ~hubRunning' => heard'[Here] = NotHeard /\ clientIndex' = 0
  <2>1. clientIndex \in Nat
    BY DEF NetInv, HP!Inv, HP!TypeOK
  <2> QED BY <2>1 DEF NetInv, HubSwitched, HubChecks, Hub!startHub, Hub!stopHub,
                      Hub!StartChecks, Hub!CheckClient
<1> QED BY <1>1, <1>2, <1>3, <1>4 DEF NetInv, AnnouncesKnown, InTime, HeardSince, Pending, Is

\* Time passes only when nobody is due and nothing is on its way, so the age of
\* what the hub has heard and the ages of the services grow together.
LEMMA Passing == ASSUME NetInv, Tick PROVE NetInv'
<1>1. /\ net = <<>> /\ UNCHANGED <<net, lost>> /\ \A s \in Service : ~Due(s)
      /\ ServiceTick /\ Hub!Tick
  BY DEF Tick, Idle
<1>2. Inv' /\ HP!Inv'
  BY <1>1, Ticking, HubTicks DEF NetInv, Kept
<1>3. ASSUME NEW s \in Service
      PROVE  \/ ~Is(s) /\ service'[s] = service[s]
             \/ /\ Is(s)
                /\ service'[s].beat = service[s].beat /\ service'[s].enabled = service[s].enabled
                /\ service'[s].age = IF service[s].age < Longest THEN service[s].age + 1
                                     ELSE service[s].age
  <2>1. CASE ~Is(s)
    BY <1>1, <2>1 DEF ServiceTick
  <2>2. CASE Is(s)
    <3>1. service[s] \in ServiceRecord
      BY <2>2, Aged
    <3>2. service'[s] = IF service[s].age < Longest
                          THEN [service[s] EXCEPT !.age = @ + 1] ELSE service[s]
      BY <1>1, <2>2 DEF ServiceTick
    <3> QED BY <2>2, <3>1, <3>2 DEF ServiceRecord
  <2> QED BY <2>1, <2>2
<1>4. ASSUME NEW s \in Service, Is(s), service[s].enabled
      PROVE  /\ service[s].age < Longest /\ service[s].age \in Nat
             /\ \E d \in Periods : service[s].age + 1 =< d
  <2>1. service[s] \in ServiceRecord /\ service[s].age \in Nat
    BY <1>4, Aged
  <2>2. PICK d \in Periods : ~(service[s].age >= d)
    <3>1. ~Due(s)
      BY <1>1
    <3>2. HUB_DISCOVERY_INTERVAL \in Periods /\ service[s].interval \in Periods
      BY <2>1 DEF Periods, Announced, ServiceRecord
    <3>3. InConfigMode(s, service[s]) => CONFIG_HEARTBEAT_INTERVAL \in Periods
      BY DEF InConfigMode, Periods, Announced
    <3> QED BY <1>4, <3>1, <3>2, <3>3 DEF Due
  <2>3. d \in Nat /\ d \in Delays
    BY Numbers DEF Periods, Announced, Delays
  <2>4. Longest \in Nat /\ d =< Longest
    BY <2>3, LongestType, ServiceAssumption DEF Longest
  <2> QED BY <2>1, <2>2, <2>3, <2>4
<1>5. heard[Here] # NotHeard =>
        /\ heard[Here].lastHeardFrom \in Nat
        /\ heard[Here].heartbeatInterval = heard'[Here].heartbeatInterval
        /\ heard'[Here].lastHeardFrom =< heard[Here].lastHeardFrom + 1
  <2> SUFFICES ASSUME heard[Here] # NotHeard
               PROVE  /\ heard[Here].lastHeardFrom \in Nat
                      /\ heard[Here].heartbeatInterval = heard'[Here].heartbeatInterval
                      /\ heard'[Here].lastHeardFrom =< heard[Here].lastHeardFrom + 1
    OBVIOUS
  <2>1. heard[Here] \in HP!Client
    BY DEF NetInv, HP!Inv, HP!TypeOK
  <2>2. heard[Here].lastHeardFrom \in Nat
    BY <2>1, HubOfProgram, HP!OldestType DEF HP!Client
  <2>3. heard'[Here] = [heard[Here] EXCEPT !.lastHeardFrom = Hub!Older(@)]
    BY <1>1 DEF Hub!Tick
  <2>4. Hub!Older(heard[Here].lastHeardFrom) =< heard[Here].lastHeardFrom + 1
    BY <2>2 DEF Hub!Older
  <2> QED BY <2>1, <2>2, <2>3, <2>4 DEF HP!Client
<1>6. heard[Here] = NotHeard => heard'[Here] = NotHeard
  BY <1>1 DEF Hub!Tick
<1>7. ASSUME NEW s \in Service PROVE (AnnouncesKnown(s) /\ InTime(s) /\ HeardSince(s))'
  <2>1. CASE ~Is(s)
    BY <1>3, <2>1 DEF AnnouncesKnown, InTime, HeardSince, Is
  <2>2. CASE Is(s)
    <3>1. /\ service'[s].beat = service[s].beat /\ service'[s].enabled = service[s].enabled
          /\ service'[s].age = IF service[s].age < Longest THEN service[s].age + 1
                               ELSE service[s].age
      BY <1>3, <2>2
    <3>2. AnnouncesKnown(s)'
      BY <2>2, <3>1 DEF NetInv, AnnouncesKnown
    <3>3. service[s].enabled =>
            /\ service'[s].age = service[s].age + 1 /\ service[s].age \in Nat
            /\ \E d \in Periods : service[s].age + 1 =< d
      BY <1>4, <2>2, <3>1
    <3>4. InTime(s)'
      BY <3>1, <3>3 DEF InTime
    <3>5. HeardSince(s)'
      <4> SUFFICES ASSUME ~lost, heard'[Here] # NotHeard, ~Pending', service[s].enabled
                   PROVE  heard'[Here].lastHeardFrom =< service'[s].age
        BY <1>1, <3>1 DEF HeardSince
      <4>1. heard[Here] # NotHeard /\ ~Pending
        BY <1>1, <1>6 DEF Pending
      <4>2. heard[Here].lastHeardFrom =< service[s].age
        BY <2>2, <4>1 DEF NetInv, HeardSince
      <4>3. heard'[Here].lastHeardFrom \in Nat
        <5>1. heard'[Here] \in HP!Client
          BY <1>2 DEF HP!Inv, HP!TypeOK
        <5> QED BY <5>1, HubOfProgram, HP!OldestType DEF HP!Client
      <4> QED BY <1>5, <3>3, <4>1, <4>2, <4>3
    <3> QED BY <3>2, <3>4, <3>5
  <2> QED BY <2>1, <2>2
<1>8. hubRunning' = hubRunning /\ clientIndex' = clientIndex
  BY <1>1 DEF Hub!Tick
<1>9. /\ heard'[Here] # NotHeard => \E m \in Mins : heard'[Here].heartbeatInterval = HubMinutes(m)
      /\ ~hubRunning' => heard'[Here] = NotHeard /\ clientIndex' = 0
  BY <1>5, <1>6, <1>8 DEF NetInv
<1> QED BY <1>1, <1>2, <1>7, <1>9 DEF NetInv

LEMMA NetStep == NetInv /\ [Next]_vars => NetInv'
<1>1. ASSUME NetInv, UNCHANGED vars PROVE NetInv'
  <2>1. UNCHANGED <<serviceVars, hubVars, net, lost>>
    BY <1>1 DEF vars
  <2>2. HP!Inv'
    BY <1>1, <2>1, HubIdle DEF NetInv
  <2>3. Inv'
    BY <1>1, <2>1 DEF NetInv, serviceVars, Inv, ServiceTypeOK, Sound, Is
  <2> QED BY <1>1, <2>1, <2>2, <2>3
          DEF NetInv, AnnouncesKnown, InTime, HeardSince, Pending, Is, hubVars, serviceVars
<1>2. ASSUME NetInv, NEW s \in Service, Use(s) \/ Timely(s) PROVE NetInv'
  <2>1. /\ Commanded(s) \/ Asked(s) \/ sendTimelyHeartbeat(s)
        /\ Sends
    BY <1>2 DEF Use, Timely
  <2>2. Inv /\ AnnouncesKnown(s)
    BY <1>2 DEF NetInv
  <2>3. Inv'
    BY <2>1, <2>2, Step DEF ServiceNext, Kept
  <2>4. Speaks(s)
    BY <2>1, <2>2, CommandSpeaks, RequestSpeaks, BeatSpeaks DEF sendTimelyHeartbeat, Due
  <2> QED BY <1>2, <2>1, <2>3, <2>4, SpeakingKeeps
<1> QED BY <1>1, <1>2, Delivering, Losing, EchoGone, HubActing, Passing DEF Next

LEMMA NetInvariance == Spec => []NetInv
BY Initially, NetStep, PTL DEF Spec
-----------------------------------------------------------------------------
\* As long as no service of the program beats more rarely than the hub forgets
\* what another one announced, the port of an enabled service stays in the
\* hub's list, unless a heartbeat was lost, for any services, names and
\* intervals (xPL_sendTimelyHeartbeats, doClientTimeoutChecks).
THEOREM PortStaysRegistered == ASSUME PeriodsFit PROVE Spec => []ServiceReachable
<1>1. NetInv => ServiceReachable
  <2> SUFFICES ASSUME NetInv, NEW s \in Service, Is(s), service[s].enabled, net = <<>>, ~lost,
                      heard[Here] # NotHeard
               PROVE  Hub!Known(Here)
    BY DEF ServiceReachable
  <2>1. ~Pending
    BY DEF Pending
  <2> DEFINE a == heard[Here].lastHeardFrom  h == heard[Here].heartbeatInterval
  <2>2. a =< service[s].age /\ service[s].age \in Nat
    BY <2>1, Aged DEF NetInv, HeardSince
  <2>3. PICK d \in Periods : service[s].age =< d
    BY DEF NetInv, InTime
  <2>4. PICK i \in Announced : h = HubMinutes(i \div MINUTE)
    BY DEF NetInv, Mins
  <2>5. d < (2 * h + 1) * MINUTE
    BY <2>3, <2>4 DEF PeriodsFit
  <2>6. heard[Here] \in HP!Client
    BY DEF NetInv, HP!Inv, HP!TypeOK
  <2>7. a \in Nat /\ h \in Int
    BY <2>6, HubOfProgram, HP!OldestType DEF HP!Client
  <2>8. d \in Nat /\ MINUTE \in Nat \ {0}
    BY Numbers, ServiceAssumption
  <2> HIDE DEF a, h
  <2>9. a \div MINUTE =< 2 * h
    <3>1. a < (2 * h + 1) * MINUTE
      BY <2>2, <2>3, <2>5, <2>7, <2>8
    <3> QED BY <2>7, <2>8, <3>1, Whole
  <2>10. HP!Fresh(heard[Here])
    BY <2>9 DEF HP!Fresh, a, h
  <2>11. HP!Known(Here)
    BY <2>10 DEF NetInv, HP!Inv, HP!LiveClientKept
  <2> QED BY <2>11 DEF HP!Known, Hub!Known
<1> QED BY <1>1, NetInvariance, PTL
=============================================================================
