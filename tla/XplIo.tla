-------------------------------- MODULE XplIo --------------------------------
(***************************************************************************)
(* The event loop of oflbridge/xPLLib: xPL_processMessages polls the       *)
(* devices, dispatches to their handlers and serves the timeouts           *)
(* (xPL-io.c), and xPL_initialize and xPL_shutdown start and stop the      *)
(* library.  Handlers may call the library again: the lists change while   *)
(* they are walked through.                                                *)
(*                                                                         *)
(* time(NULL) counts whole seconds: a time stamp is represented by the     *)
(* number of seconds that began since.                                     *)
(***************************************************************************)
EXTENDS Integers, Sequences, FiniteSets, SequencesExt

CONSTANTS
  User,         \* devices of the application
  Xpl,          \* the xPL socket, once xPL_initialize has added it
  Handler,      \* timeout handlers
  Interval,     \* timeoutInterval of each handler, in seconds
  SECOND,       \* ticks in 1000 ms
  Timeouts,     \* what xPL_processMessages is called with, in ticks, or -1
  Calls,        \* what a handler may do: "removeSelf", "removeOther", "shutdown"
  MaxArrivals   \* bound on the datagrams that arrive and the polls that fail

Device == User \cup {Xpl}
MaxAge == CHOOSE a \in {1} \cup {Interval[h] : h \in Handler} :
            \A b \in {1} \cup {Interval[h] : h \in Handler} : b =< a

ASSUME IoAssumption ==
  /\ Xpl \notin User /\ Interval \in [Handler -> Nat]
  /\ SECOND \in Nat \ {0} /\ MaxArrivals \in Nat
  /\ Timeouts \subseteq Nat \cup {-1}
  /\ Calls \subseteq {"removeSelf", "removeOther", "shutdown"}
  /\ \E a \in {1} \cup {Interval[h] : h \in Handler} :
       \A b \in {1} \cup {Interval[h] : h \in Handler} : b =< a   \* as in MaxAge

VARIABLES
  open,         \* xPLFD # -1
  installed,    \* xPL_IODeviceInstalled
  devices,      \* pollInfo: [fd, revents]
  timers,       \* timeoutList: [handler, age]
  checkAge,     \* timeoutChecksLastDoneAt
  pc,           \* "app", "loop", "poll", "dispatch", "checks"
  theTimeout, thisTimeout, timeoutsSoFar, timeoutDone,
  index, activeDevices,   \* the loops
  returning,    \* doTimeouts was called on the way out
  ready,        \* devices with something to read: the POLLERR, POLLHUP and
                \* POLLNVAL of a device that has broken are left out
  waited,       \* ticks spent in poll
  phase,        \* ticks into the current second
  arrivals,     \* datagrams still to come
  called,       \* history: what the last step called
  since         \* history: seconds since a handler was last called or added

library == <<open, installed, devices, timers>>
loop == <<theTimeout, thisTimeout, timeoutsSoFar, timeoutDone, index, activeDevices, returning>>
clocks == <<checkAge, phase, waited, since>>
vars == <<library, loop, clocks, pc, ready, arrivals, called>>

Nothing == <<"nothing">>
Listed(h) == \E i \in DOMAIN timers : timers[i].handler = h
Older(a) == IF a < MaxAge THEN a + 1 ELSE a

\* The list without its first entry that satisfies Test; the others move down.
\* xPL-io.c:176-177 and :218 move them with memcpy between blocks that overlap,
\* which C leaves undefined: here it copies upwards, the one order in which every
\* entry arrives.
Without(list, Test(_)) ==
  LET i == SelectInSeq(list, Test) IN IF i = 0 THEN list ELSE RemoveAt(list, i)
WithoutDevice(list, d) == Without(list, LAMBDA e : e.fd = d)
WithoutTimer(list, h) == Without(list, LAMBDA e : e.handler = h)
-----------------------------------------------------------------------------
Init ==
  /\ open = FALSE /\ installed = FALSE
  /\ devices = <<>> /\ timers = <<>>
  /\ checkAge = MaxAge
  /\ pc = "app"
  /\ theTimeout = 0 /\ thisTimeout = 0 /\ timeoutsSoFar = 0 /\ timeoutDone = FALSE
  /\ index = 0 /\ activeDevices = 0 /\ returning = FALSE
  /\ ready = {} /\ waited = 0 /\ phase = 0 /\ arrivals = MaxArrivals
  /\ called = Nothing /\ since = [h \in Handler |-> 0]

\* xPL_initialize, when the sockets can be opened: without them it changes
\* nothing a caller can see.  The message listener it adds each time, and that
\* xPL_shutdown leaves (xPL-io.c:605), is left out with what messages do.
initialize ==
  /\ pc = "app" /\ ~open
  /\ open' = TRUE /\ installed' = TRUE
  /\ devices' = IF installed THEN devices ELSE Append(devices, [fd |-> Xpl, revents |-> FALSE])
  /\ called' = Nothing
  /\ UNCHANGED <<timers, loop, clocks, pc, ready, arrivals>>

StoppedStillInstalled ==
  /\ open' = FALSE
  /\ devices' = WithoutDevice(devices, Xpl)
  /\ UNCHANGED <<installed, timers>>
\* xPL_shutdown
Stopped ==
  /\ open' = FALSE /\ installed' = FALSE
  /\ devices' = WithoutDevice(devices, Xpl)
  /\ UNCHANGED timers
shutdown ==
  /\ pc = "app" /\ open /\ Stopped
  /\ ready' = ready \ {Xpl} /\ called' = Nothing
  /\ UNCHANGED <<loop, clocks, pc, arrivals>>

addIODevice(d) ==
  /\ pc = "app" /\ \A i \in DOMAIN devices : devices[i].fd # d
  /\ devices' = Append(devices, [fd |-> d, revents |-> FALSE])
  /\ called' = Nothing
  /\ UNCHANGED <<open, installed, timers, loop, clocks, pc, ready, arrivals>>

addTimeoutHandler(h) ==
  /\ pc = "app" /\ ~Listed(h)
  /\ timers' = Append(timers, [handler |-> h, age |-> 0])
  /\ since' = [since EXCEPT ![h] = 0] /\ called' = Nothing
  /\ UNCHANGED <<open, installed, devices, loop, checkAge, phase, waited,
                 pc, ready, arrivals>>

\* What a handler does to the library before it returns: one call at most.
DeviceCalls(self) ==
  \/ UNCHANGED library
  \/ /\ "removeSelf" \in Calls /\ self # Xpl
     /\ devices' = WithoutDevice(devices, self)
     /\ UNCHANGED <<open, installed, timers>>
  \/ /\ "removeOther" \in Calls
     /\ \E d \in User \ {self} : devices' = WithoutDevice(devices, d)
     /\ UNCHANGED <<open, installed, timers>>
  \/ "shutdown" \in Calls /\ open /\ Stopped
\* The list of timeouts as a handler leaves it.
TimersLeft(self) ==
  {timers}
    \cup (IF "removeSelf" \in Calls THEN {WithoutTimer(timers, self)} ELSE {})
    \cup (IF "removeOther" \in Calls
            THEN {WithoutTimer(timers, h) : h \in Handler \ {self}} ELSE {})
-----------------------------------------------------------------------------
(***************************************************************************)
(* xPL_processMessages                                                     *)
(***************************************************************************)
processMessages(t) ==
  /\ pc = "app" /\ pc' = "loop"
  /\ theTimeout' = t /\ timeoutsSoFar' = 0 /\ timeoutDone' = FALSE
  /\ called' = Nothing
  /\ UNCHANGED <<library, thisTimeout, index, activeDevices, returning, clocks,
                 ready, arrivals>>

\* The call is over, and its variables are gone.
Leave ==
  /\ pc' = "app"
  /\ theTimeout' = 0 /\ thisTimeout' = 0 /\ timeoutsSoFar' = 0 /\ timeoutDone' = FALSE
  /\ index' = 0 /\ activeDevices' = 0 /\ returning' = FALSE

\* The wait of one poll.
PollTime ==
  IF theTimeout > SECOND
    THEN IF timeoutsSoFar + SECOND > theTimeout THEN theTimeout - timeoutsSoFar ELSE SECOND
  ELSE IF theTimeout > 0 THEN theTimeout
  ELSE IF theTimeout = -1 THEN SECOND
  ELSE 0
StartPoll ==
  /\ pc = "loop" /\ open
  /\ thisTimeout' = PollTime /\ waited' = 0 /\ pc' = "poll" /\ called' = Nothing
  /\ UNCHANGED <<library, theTimeout, timeoutsSoFar, timeoutDone, index, activeDevices, returning,
                 checkAge, phase, since, ready, arrivals>>

Active == {i \in DOMAIN devices : devices[i].fd \in ready}

\* poll reports devices.
Events ==
  /\ pc = "poll" /\ Active # {}
  /\ devices' = [i \in DOMAIN devices |-> [devices[i] EXCEPT !.revents = i \in Active]]
  /\ timeoutsSoFar' = 0
  /\ index' = Len(devices) /\ activeDevices' = Cardinality(Active)
  /\ pc' = "dispatch" /\ called' = Nothing
  /\ UNCHANGED <<open, installed, timers, theTimeout, thisTimeout, timeoutDone,
                 returning, clocks, ready, arrivals>>

\* doTimeouts: the timeouts are looked at once a second.  The heartbeats it
\* sends (xPL-io.c:653-656) touch nothing here: see XplService.
doTimeouts(onExit) ==
  /\ pc' = "checks" /\ returning' = onExit
  /\ index' = IF checkAge >= 1 THEN Len(timers) ELSE 0
  /\ checkAge' = 0
  /\ called' = Nothing
  /\ UNCHANGED <<library, theTimeout, thisTimeout, activeDevices, phase, since, waited,
                 ready, arrivals>>

\* poll fails with another error than EINTR: the call ends, and it serves no
\* timeouts on its way.
PollFails ==
  /\ pc = "poll" /\ arrivals > 0
  /\ arrivals' = arrivals - 1
  /\ Leave /\ called' = Nothing
  /\ UNCHANGED <<library, clocks, ready>>

PollTimedOut == pc = "poll" /\ Active = {} /\ waited >= thisTimeout

IdleForgetsTime ==
  /\ PollTimedOut /\ thisTimeout >= SECOND
  /\ timeoutDone' = TRUE /\ UNCHANGED timeoutsSoFar
  /\ doTimeouts(FALSE)
Idle ==
  /\ PollTimedOut /\ thisTimeout >= SECOND
  /\ timeoutDone' = TRUE
  /\ timeoutsSoFar' = IF theTimeout > SECOND THEN timeoutsSoFar + thisTimeout
                      ELSE timeoutsSoFar   \* not read then, and not bounded
  /\ doTimeouts(FALSE)

ReturnAtOnce ==
  /\ (pc = "loop" /\ ~open) \/ (PollTimedOut /\ thisTimeout < SECOND)
  /\ Leave /\ called' = Nothing
  /\ UNCHANGED <<library, clocks, ready, arrivals>>
\* Out of the loop: the library was stopped, or a short poll timed out.
Return ==
  /\ (pc = "loop" /\ ~open) \/ (PollTimedOut /\ thisTimeout < SECOND)
  /\ IF timeoutDone
       THEN Leave /\ called' = Nothing /\ UNCHANGED <<library, clocks, ready, arrivals>>
       ELSE doTimeouts(TRUE) /\ UNCHANGED <<timeoutDone, timeoutsSoFar>>

\* One turn of the loop over the devices, downwards.
NextDevice(leave) ==
  /\ index' = index - 1
  /\ pc' = IF leave \/ index' = 0 THEN "loop" ELSE "dispatch"
Skip ==
  /\ pc = "dispatch" /\ ~devices[index].revents
  /\ NextDevice(FALSE) /\ called' = Nothing
  /\ UNCHANGED <<library, theTimeout, thisTimeout, timeoutsSoFar, timeoutDone, activeDevices,
                 returning, clocks, ready, arrivals>>

DispatchAfterStop ==
  /\ pc = "dispatch" /\ devices[index].revents
  /\ LET d == devices[index].fd IN
     /\ called' = <<"device", d>>
     /\ DeviceCalls(d)
     /\ ready' = IF open' THEN ready \ {d} ELSE ready \ {d, Xpl}
  /\ activeDevices' = activeDevices - 1
  /\ NextDevice(activeDevices' = 0)
  /\ UNCHANGED <<theTimeout, thisTimeout, timeoutsSoFar, timeoutDone, returning, clocks, arrivals>>
Dispatch ==
  /\ pc = "dispatch" /\ devices[index].revents
  /\ LET d == devices[index].fd IN
     /\ called' = <<"device", d>>
     /\ DeviceCalls(d)
     /\ ready' = IF open' THEN ready \ {d} ELSE ready \ {d, Xpl}
  /\ activeDevices' = activeDevices - 1
  /\ NextDevice(~open' \/ activeDevices' = 0)
  /\ UNCHANGED <<theTimeout, thisTimeout, timeoutsSoFar, timeoutDone, returning, clocks, arrivals>>

\* checkAllTimeoutHandlers, one handler at a time, downwards.  The time stamp is
\* written at the same index after the call, whatever is there by then.
Unstamped(list, i) == list
Stamped(list, i) == IF i \in DOMAIN list THEN [list EXCEPT ![i].age = 0] ELSE list

CheckTimer ==
  /\ pc = "checks" /\ index > 0 /\ index =< Len(timers)
  /\ LET timer == timers[index]  h == timer.handler IN
     IF timer.age >= Interval[h]
       THEN /\ called' = <<"timer", h>> /\ since' = [since EXCEPT ![h] = 0]
            /\ \E left \in TimersLeft(h) : timers' = Stamped(left, index)
       ELSE called' = Nothing /\ UNCHANGED <<since, timers>>
  /\ index' = index - 1
  /\ UNCHANGED <<open, installed, devices, theTimeout, thisTimeout, timeoutsSoFar,
                 timeoutDone, activeDevices, returning, checkAge, phase, waited,
                 pc, ready, arrivals>>
ChecksDone ==
  /\ pc = "checks" /\ index = 0
  /\ IF returning THEN Leave ELSE pc' = "loop" /\ UNCHANGED loop
  /\ called' = Nothing /\ UNCHANGED <<library, clocks, ready, arrivals>>
-----------------------------------------------------------------------------
Arrive(d) ==
  /\ arrivals > 0 /\ d \notin ready /\ (d = Xpl => open)
  /\ ready' = ready \cup {d} /\ arrivals' = arrivals - 1 /\ called' = Nothing
  /\ UNCHANGED <<library, loop, clocks, pc>>

\* Time passes while the application computes and while poll waits: handlers
\* and the loop itself take none.
Tick ==
  /\ \/ pc = "app" /\ UNCHANGED waited
     \/ pc = "poll" /\ Active = {} /\ waited < thisTimeout /\ waited' = waited + 1
  /\ phase' = (phase + 1) % SECOND
  /\ IF phase' = 0
       THEN /\ checkAge' = Older(checkAge)
            /\ since' = [h \in Handler |-> Older(since[h])]
            /\ timers' = [i \in DOMAIN timers |-> [timers[i] EXCEPT !.age = Older(@)]]
       ELSE UNCHANGED <<checkAge, since, timers>>
  /\ called' = Nothing
  /\ UNCHANGED <<open, installed, devices, loop, pc, ready, arrivals>>

Library ==
  \/ StartPoll \/ Events \/ Idle \/ Return \/ Skip \/ Dispatch
  \/ CheckTimer \/ ChecksDone
Application ==
  \/ initialize \/ shutdown
  \/ \E d \in User : addIODevice(d)
  \/ \E h \in Handler : addTimeoutHandler(h)
Enter == \E t \in Timeouts : processMessages(t)

Next ==
  \/ Library \/ Application \/ Enter \/ Tick \/ PollFails
  \/ \E d \in Device : Arrive(d)
Spec == Init /\ [][Next]_vars

\* The library runs, the application calls it again and again, and the clock
\* does not wait for either.
Fairness == WF_vars(Library) /\ SF_vars(Tick) /\ WF_vars(Enter)
FairSpec == Spec /\ Fairness
-----------------------------------------------------------------------------
\* The state of the library: the loops never leave the lists they walk through.
IoTypeOK ==
  /\ open \in BOOLEAN /\ installed = open
  /\ devices \in Seq([fd : Device, revents : BOOLEAN])
  /\ timers \in Seq([handler : Handler, age : 0..MaxAge])
  /\ pc \in {"app", "loop", "poll", "dispatch", "checks"}
  /\ pc = "dispatch" => index \in 1..Len(devices)
  /\ pc = "checks" => index \in 0..Len(timers)
  /\ ready \subseteq Device /\ (Xpl \in ready => open)

\* A device's handler is called only when the device has something to read:
\* what poll reported stays right while handlers change the list.
OnlyReadyDispatched ==
  [][\A d \in Device : called' = <<"device", d>> => d \in ready]_vars

\* A timeout handler is called at the earliest its interval after it was added
\* or called, although the list is edited and stamped by position.
NotEarly ==
  [][\A h \in Handler : called' = <<"timer", h>> => since[h] >= Interval[h]]_vars

\* A call with a time limit returns when the network falls silent, unless the
\* limit is exactly a second: that one is polled for whole (xPL-io.c:695), a poll
\* of a second does not end the loop (:715), and what was waited for counts only
\* above a second (:689).  It waits as if it were -1, against xPL-io.c:669-676.
Returns == (pc = "loop" /\ theTimeout >= 0 /\ theTimeout # SECOND) ~> (pc = "app")

\* When the network falls silent every timeout handler is called again and
\* again, if the application keeps calling the library.
TimersServed == \A h \in Handler : []<>(Listed(h) => called = <<"timer", h>>)
=============================================================================
