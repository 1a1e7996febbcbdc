# Verification of oflmetrics

oflmetrics is a network of battery-powered sensors and the programs that
collect what they measure. This directory models its core in TLA+, checks it
with TLC and proves part of it with TLAPS. Line numbers refer to the sources in
`src/`; `PROJECT.json` maps every definition that models code to its lines.

## 1. The system

| part | code | state it keeps | what it does |
|---|---|---|---|
| sensor (*node*) | `oflnode/oflnode.c`, `ofllibs/` | loop counter, packet pool shared with the radio interrupt, configuration | measures, sends one frame, hibernates a minute; resets itself after 10 hours |
| clock of the firmwares | `tmr0_isr`, `wait100ms` | tick counter, wall clock | counts tenths of seconds; waits |
| configuration page | `ofllibs/utils.c` | one page of flash, its copy in RAM | read at boot, written by a node that finds none |
| dongle | `ofldongle/ofldongle.c` | receive queue, one decoded packet, command buffer, monitor mode, channel | prints every frame it hears on a serial line, obeys commands |
| omniradio | `oflomniradio/oflomniradio.c`, `ofllibs/ringbuffer.c` | ring of edges, message slots, `msg_cnt` | decodes 433 MHz sensors in an interrupt, prints in the main loop |
| bridge | `oflbridge/*.cpp` | state of the serial thread, queued packets | puts the dongle in human mode, reads lines, posts one value per field |
| xPL hub | `xPLLib/xPL-hub.c` | list of clients by port | registers local programs by their heartbeats and relays every message to them |
| xPL services | `xPL-service.c` | services, the heartbeat each keeps, filters and groups, `hubConfirmed` | say hello, goodbye and heartbeats; find the hub; take the messages that are for them |
| xPL messages | `xPL-message.c` | none between messages | writes the text of a message, reads it, receives datagrams |
| xPL listeners | `xPL-listeners.c` | lists of listeners of the library and of each service | calls whoever asked for a message |
| xPL event loop | `xPL-io.c` | lists of devices and timeouts, the socket | polls, calls handlers, serves timeouts |
| xPL configuration | `xPL-config.c` | configurables and values, a file | defines, saves, loads, is reconfigured from the network, tells its configuration |
| not modelled | string and list helpers of xPLLib, TCP server, options, sensor drivers, checksums, host tools | | see section 7 |

How they interact:

- node → dongle: one radio frame a minute, no acknowledgement. In each firmware
  the radio library's interrupt moves packets while `main` does.
- dongle ↔ bridge: characters on a serial line. The bridge writes
  `:dump_human`, waits for `OK`, then reads lines that start with `RX`. Key
  interrupts of the dongle print into the same line.
- serial thread → main thread of the bridge: a queued Qt signal per packet,
  connected *after* the thread was started.
- xPL program ↔ hub: UDP. A program broadcasts heartbeats; the hub registers its
  port and sends each message back to all ports, and that echo is how the
  program learns that there is a hub.
- inside an xPL program: the event loop calls `xPL_receiveMessage`, which parses
  the datagram and calls the message listeners; one of them is the library's own
  and hands the message to the services; a service that takes it calls its own
  listeners, of which the configuration handler may rename the service, change
  its filters and make it speak – all within one datagram.
- application ↔ xPLLib: callbacks that may call the library again while it
  walks through its lists.

What is hard about each of them, and what makes it correct:

- **node**: an interrupt between any two steps; a pool that must not leak; an
  uptime check that must be reached; a frame whose length nobody checks.
- **clock**: carries, the overflow of the counter, waits that start anywhere
  between two interrupts.
- **configuration page**: a power cut between erase and write; a signature that
  is written and tested in two different ways.
- **dongle and bridge**: one buffer reused for all frames, lines cut or mixed,
  restarts of either side; a value must not be posted under another node's name,
  twice, or out of order, and the bridge must come back to listening.
- **omniradio**: a counter that both contexts change without a lock, a ring that
  is one element short of safe.
- **hub and services**: lost messages, restarts of the hub, several services
  behind one port, a list that is edited while it is walked through; a program
  that is alive stays registered, one that is silent goes.
- **messages and listeners**: a text that one program writes, a hub changes and
  another reads; lists and services that change under the walk that serves one
  message; what is said must reach those it is for, once, word by word.
- **event loop**: handlers that remove themselves, remove others or shut the
  library down in the middle of the loop; timeouts against traffic.
- **xPL configuration**: a program killed in the middle of writing its file; one
  format for the file and another for the network, each with a reader and a
  writer that must agree, empty lists included.

`PROJECT.json` lists these hazards one by one, at their lines, with the
properties that watch them or the reason why none does.

## 2. The modules

| module | models | correspondence |
|---|---|---|
| `OflNode` | the node's `main` | `pc` names the step `main` is about to take (`boot`, `top`, `measure`, `drain`, `alloc`, `send`, `flush`, `check`, `the_end`, `sleep`); `MacaRx` and `MacaTxDone` are the radio interrupt and may run between any two. A payload is the set of its fields, `FieldLen` the longest text `sprintf` writes for each. |
| `Clock` | `tmr0_isr`, `wait100ms` | time is cut into `Phases` instants per tick so that a wait starts anywhere in one; `tmr_cntr` is arithmetic modulo `CntMod`. |
| `NodeConfig` | flash page and boot of node and dongle | the page by field; `nvm_write` one field per step, with `PowerCut` between any two. |
| `SerialLink` | the serial line | tokens for the runs of characters that matter; counts the disturbances ("upsets"). |
| `OflDongle` | the dongle | `Iterate` is one turn of the main loop (a packet, then a character), `UartSend` the transmit interrupt, `KeyInterrupt` the two key interrupts, `DongleReset` a reset. |
| `SerialDevice` | the bridge | `state` is the thread's own 0..3; `Connect` and `insertPacket` run in the main thread. |
| `Relay` | *abstract*: what dongle and bridge promise together | values heard, values posted. |
| `Gateway` | `OflDongle` and `SerialDevice` on one `SerialLink` | refines `Relay`. |
| `RingBuffer` | `ringbuffer.c` | the operations as operators on a record, with the positions the macro computes. |
| `OmniRadio` | the omniradio | `kbi7_isr(d)` one edge; `main` with a load and a store for `msg_cnt--`. |
| `XplHub` | the hub | `handleXPLMessage` is a whole message; the timeout check walks the list one client per step, with `Copies` for the direction of `memcpy`. |
| `XplService` | the services of one program | one action per API call; `sent` holds the messages of the last call. What a call makes of a service is an operator (`Beats`, `Restarts`, `Disabled`, ...) with a set of outcomes, which `XplProgram` uses within a message. The kept heartbeat is `beat`, with `dangling` when its source has been freed. |
| `XplMessage` | the text of a message | `formatMessage` and `parseMessage` over tokens; the parser is a fold with the code's states, `relayed` what a hub's copy of a text says. |
| `XplFilter` | filters of `xPL-service.c` | `parseFilter`, `doesFilterMatch`, and the text a filter is saved as. |
| `XplListeners` | `xPL-listeners.c` | how a list of listeners is changed and walked, whatever its entries do. |
| `XplProgram` | a program between the socket and its listeners | extends the four modules above. `receiveMessage` is a whole datagram: parse, message listeners, services, service listeners, configuration; everything a message can make of the program is a set of records, taken along the walks call by call (`Dispatch`). The calls of an application are the actions of `XplService` and those on filters, groups and listeners. |
| `XplNetwork` | a program with services and its hub | composes `XplService` and `XplHub` (`INSTANCE`) with datagrams in flight. |
| `XplIo` | `xPL_processMessages` and the lists it walks | `pc` is the place in the loop, `index` the position in the list. Times are ages, in ticks of which `SECOND` make a second. |
| `XplConfig` | configurables, file, `config.response`, the answers to `config.list` and `config.current` | the file is a sequence of lines, written in blocks as stdio does and read back element by element (`Taken`); an answer is a sequence of pairs. |

`MCOflNode`, `MCXplHub`, `MCXplProgram`, `MCXplIo` and `MCXplConfig` hold the
values of constants that a configuration file cannot spell. `*_proofs` hold the
theorems; those of `XplService` are in `XplNetwork_proofs`, with those of its
composition with the hub, and those of `NodeConfig` and `Clock` in `OflNode_proofs`,
with the rest of the sensor (which is why the three models share no name: `BootSpec`,
`ClockSpec`, `step`, `doing`).

Operators that no specification uses (`FrameLenWithNul`, `SignedStrict`,
`RestartsNewFirst`, `TargetOfAnyDevice`, `Upwards`, `InstalledOver` and the like)
are slips a programmer could make in the definition that follows them; each
property was seen to fail with one of them in the place of the real definition
(`PROJECT.json`, "mutants").

Abstractions worth knowing:

- Text is abstracted to what properties tell apart. Where a conversion matters
  it is modelled by what it does: a bridge's line into header and fields, edges
  into bits, a heartbeat into the minutes the hub reads, a message into tokens –
  those characters the parser looks at, and runs of those it only copies – and
  back, a configuration into lines and back.
- A frame shorter than its headers is `kind = "short"`; radio checksums are the
  hardware's.
- Lists are shortened with `memcpy` between blocks that overlap, which C leaves
  undefined: `xPL-hub.c:295`, `xPL-io.c:176-177` and `:218`,
  `xPL-listeners.c:115` and `:188`, `xPL-service.c:244`, `xPL-config.c:826`. All
  runs and theorems take it to copy upwards, so that every entry arrives. Only
  `XplHub` has the other direction as well, as a value of `Copies`; no run uses it:
  with three ports `OnePerPort` fails there, and with the two of the run the
  directions agree.
- Undefined behaviour elsewhere is a choice: a freed name reads as itself or as
  anything else.
- Times are ages with a ceiling above every limit they are compared with.
- A `sendto` that fails has the effect of a lost datagram.
- History variables (`misses`, `heard`, `lost`, `wire`, `sent`, `last`,
  `saved`, `told`, `torn`, `since`, `called`, `got`, `calls`, `wanted`, `elapsed`,
  `ticks`, `upsets`) are read by properties
  and bounds and by no guard that models code.

## 3. What the runs check

Each run is `tlc -config X.cfg M` with the names of `PROJECT.json`. State
counts are of distinct states.

| run | states | properties |
|---|---|---|
| `OflNode` | 619 000 | `PoolConserved`: no path of the loop leaks a packet. `UptimeBounded`: the node runs past the 10 hours only by loops that found the pool empty. `FrameFits`: frames of boards with a bme280 alone or with any sensors but a bme280, and a battery below 10 V, fit the radio's 125 bytes – exactly, thanks to the uptime check – while few loops in a row have skipped that check. `RebootsForever`: the watchdog fires again and again. |
| `OflNodeMute` | *violation* | `RebootsForever` when the radio stops sending: see section 5. |
| `Gateway` | 81 000 | `RightSource`: a value is posted under the node that sent it. `Relays`: refinement of `Relay`. `ListensAfterRestarts`: the bridge gets to listening after any restart of its own. `FramesRelayed`: in step and undisturbed, both values of every frame that are of a kind the bridge knows are posted, and the field between them that is not keeps neither back. |
| `NodeConfig` | 350 | `RoundTrip`: a completely written page is recognised and loads field by field as it was saved, but for the key and the PAN, which stay zero. `PageNeverLost`: nothing changes a complete page. |
| `Clock` | 166 000 | `ClockExact`: the wall clock reads the ticks counted. `WaitInTicks`: a wait returns in the tick of its `delta`-th interrupt, also across the overflow that the FIXME at `oflnode.c:170` doubts. `WaitReturns`. |
| `OmniRadio` | 2 200 000 | `RingFaithful`: the ring gives back what was pushed. `Decodes`: each frame but the first is decoded, but for its last bit, to the symbols whose pulses were sent, within stated tolerances. `PrintedIntact`: no slot is printed that holds no message, and the counter stays above what the loop takes from it. |
| `XplHub` | 57 000 | `OnePerPort`, `ListMirrorsHeard` (a record is what its port's last heartbeat said), `LiveClientKept`, `SilentClientDropped`. |
| `XplProgram` | 33 000 | `DeliveredAsAddressed`: what a program means to say reaches exactly the listeners it is for, word by word – written, relayed by a hub or not, parsed, filtered, and walked through lists that the same message changes. `EachListenerOnce`: listeners that leave and install others make nobody miss a message or get it twice. `RequestsAnswered`: a request for heartbeats is answered once by each service. `GoodbyeBeforeRename`, `RestartAnnounces` (a configuration that changes name or interval is announced at once; one that keeps both is not, section 6), `SpeaksAsItself` (no heartbeat under a stale name), for renames by calls and by messages. |
| `XplNetwork` | 238 000 | `ServiceReachable`: an enabled service whose last message arrived is behind a registered port. `HubFound`: with a running hub the program finds it, and is registered again and again whatever is lost. |
| `XplNetworkShared` | *violation* | `ServiceReachable` with two intervals behind one port: see section 5. |
| `XplIo` | 443 000 | `OnlyReadyDispatched`: a device's handler runs only while the device is ready. `NotEarly`: no timeout handler runs before its interval is over. `Returns`: a call with a limit returns, unless the limit is exactly a second. `TimersServed`: every timeout handler is called again and again. |
| `XplConfig` | 94 000 | `RoundTrip`: what is saved is what is loaded, lists of groups, filters and values included. `HasItsItems`: an enabled service has its program's items. `ResponseReplaces`: a response replaces values and does not add to them. `AnswerRestores`: sent back as a response, what the service tells of its configuration gives it the configuration it had. |

`OflNode`, `Gateway`, `XplHub` and `XplIo` have a type invariant besides; it
carries the bounds of queues, buffers and indices. That of `XplService` is part
of the proof.

### Bounds, and why they are enough

- `OflNode`: the real threshold of 36 000 s, hence 600 loops; the counter wraps
  above it by steps of 5, which keeps its residue for the battery fields. Two
  packets are the fewest with which the receive and the transmit queue can
  compete; `MaxMisses` = 6 loops in a row with an empty pool. The boards are the
  two with the longest frames. `MaxBattery` = 9999 mV, the most the four digits of
  `FrameFits` allow and more than the hardware can be given. The proofs cover all
  pools and boards, up to 398 loops in a row, and any lower battery.
- `Gateway`: two frames (one to leave a stale header, one to pick it up), each
  with two fields of kinds the bridge knows and one of a kind it does not between
  them, one upset of any kind, a line of 8 tokens, more than a whole line, and a command
  buffer of 3, the length of the bridge's command, so that an extra character
  overflows it. The proof covers all lines, frames and disturbances.
- `NodeConfig`: three power cuts: in the erase, in the write, and in the boot
  after.
- `Clock`: a counter of 7 values overflows in the middle of waits of up to 3
  ticks; minutes of 3 seconds, hours of 2 minutes and so on reach every carry.
- `OmniRadio`: frames of 3 bits, a ring of 7 (the code's 1024 also exceeds its
  128 edges), two slots. Of the three durations two make a 1 and a 0 well off
  their nominal lengths, the third only a start; in all other orders they are no
  symbol. The interrupt waits for a free slot (`msg_cnt < Slots`): the code tests
  nothing there.
- `XplHub`: two ports and two names are enough to mix two records up; intervals
  negative, normal and above the limit; a minute of 2 ticks so that the check
  falls inside one.
- `XplProgram`: one program with all calls and all messages has too many states
  and few of interest, so `Applications` lists four, of which a behaviour is one:
  `Renamer` (two services renamed, enabled and released by calls and by
  messages), `Listener` (one service with filters, groups and up to three
  listeners, and the widest choice of messages: requests, readings with the
  parser's own characters in their values, characters the parser spoils, own
  messages, noise, directly and by way of the hub), `Couple` (two services that
  take one message, which renames or filters one of them) and `Restarter` (the
  library stopped and started again, message listeners that leave and install
  others). A service the application may rename and a configurable one, two names,
  two intervals; a group's name has room for `GroupRoom` tokens, of which one test
  name is within and one beyond; `MSG_MAX_SIZE` cuts no message of the run.
- `XplNetwork`: two services on one port, two datagrams in flight, one interval.
  The proof covers any services and network, and intervals that differ as long as
  they fit each other.
- `XplIo`: one device of the application besides the socket, two handlers with
  intervals 1 and 2, waits without limit, shorter than a second, of exactly a
  second and of two and a half; two datagrams or failing polls.
- `XplConfig`: an item with room for two values and one for a single value, two
  values (symmetric: the code only copies them), responses of up to two values in
  either order and with every kind of list – none, groups and filters, an empty
  group with a filter that cannot be parsed; a file of several blocks of 5 lines.
  The proof covers all items, values, lists and blocks.

`CHECK_DEADLOCK FALSE` stands where the system may stop: `NodeConfig` (a booted
device), `Gateway` (all bounded inputs used up) and `XplProgram` (a library
stopped for the last of its `MaxStarts` times).

### Fairness, and why the code justifies it

- `OflNode`: the CPU runs (`WF` of `main`); strong fairness of taking a packet,
  since a few instructions separate it from the drain loop; `FairSpec` adds a
  radio that sends what is queued, `CpuFairSpec` does not.
- `Gateway`: both processors run; a write to an open port succeeds in the end
  (`SF`). No fairness of keys, resets, restarts or radio.
- `Clock`: the timer counts and `main` runs.
- `XplHub`: time passes and the library calls a check that is due – which
  `xPL_processMessages` does once it had a second without traffic.
- `XplNetwork`: both programs run; the network does not lose every datagram
  (`SF` of a delivery that reaches the program, and of reading it).
- `XplIo`: the library runs, the application calls it again, the clock is not
  held up. Arrivals are not fair and are finitely many.

## 4. What is proved

TLAPS checks these for every value of the constants that satisfies the named
assumptions.

- `OflNode_proofs`: `NodeTyped` and `PoolSafe` (`TypeOK` and `PoolConserved`,
  inductive together). `Uptime`: `UptimeBounded` is not inductive, since the check
  comes after the increment's turn; `UInv` adds that at `the_end` one loop more of
  room is left. `FramesFit`: `PInv` says that what is sent is one of the payloads
  of this loop; `PayloadBound` bounds every such payload, and `Uptime` the digits
  of the counters in it. It assumes `ResetAfter <= 36000`, the code's value, and
  `MaxBattery < 10000`, which the code does not see to.
- `Gateway_proofs`: `TypesHold`, `FieldsOfTheirSource` (`RightSource`) and
  `Refinement` (every step of dongle, line and bridge is a step of `Relay` or a
  stutter). It assumes `LinkBounds` and `DongleBounds`, which give the bounds a
  type and no more. The three are one inductive invariant, `IInv`: types and, in
  `Flow`, what every token under way belongs to. The wire is the line followed by
  what the dongle still has to print (`Wire`). Along it the fields ascend; behind
  every header and field there is an end of line before the next header; fields before that end belong to the
  header's frame; what is printed, queued as a signal and posted is in order and
  bounded by what the dongle has printed. Disturbances, resets on either side and
  overflowing buffers break lines but none of this, which is why no hypothesis about
  them is needed. What the bridge reads out of a line (`ValuesIn`) is a recursive
  function; lemmas about it take the shortest line that would be a counterexample
  (`WFMin`).
- `OflNode_proofs`, second part: `Loads`, `PageKept`, `NodeOnChannel` of
  `NodeConfig`. `ConfigInv` says which pages flash can hold: the foreign one, or any part of what `write_config`
  writes (`PageInv`), and while it is being written nothing behind the place
  reached (`WriteInv`). From it: a page without signature is incomplete, so the
  erase never hits a complete one.
- `OflNode_proofs`, third part, of `Clock`: `WaitIsExact` from `WaitInv`: the unsigned difference of the
  counter is the number of interrupts since the call and never exceeds `delta`,
  and `elapsed` is that many ticks less the phase the wait began in. The lemmas
  about `Minus` and `Inc` are the overflow. `ClockReadsTicks`: the reading and
  the ticks step together, carry by carry; `ClockInRange` from the same types.
- `OmniRadio_proofs`: `RingHolds`, `FramesDecode`, `PrintsOnlyDecoded`, for every
  frame length, every ring of at least twice that many entries and every set of
  durations. `BitReads` is the arithmetic of the tolerances: what the test of
  `data_process` makes of two edges against the pulses of a symbol. `Inv` joins what the ring holds of the edges pushed (`RingInv`), how
  many edges of the frame are in it at each value of the countdown (`FrameInv`:
  before them the second edge of the start and, after the first frame, one that the
  frame before left) and what `main` may have in its
  register (`MainInv`: `msg_cnt--` is under way in the only context that counts
  down, so the counter never falls below what `main` takes from it).
- `XplHub_proofs`: `HubTyped`, `PortsListedOnce`, `RecordsAreHeartbeats`,
  `LiveClientsStay`, inductive together: a record can be updated by its
  port only while ports are listed once, and the check removes the right client
  only while records are heartbeats. Assumes a `memcpy` that copies upwards
  (`Copies = {"ascending"}`): the code's call on overlapping memory is undefined
  otherwise.
- `XplNetwork_proofs`, first part: `ServicesTyped`, `RenamesSayGoodbye`,
  `RestartsAnnounce`, `SpeakAsThemselves`, of `XplService` alone (its messages from
  the network included). The invariant needs `Sound`: an enabled service that the application does not
  rename keeps no heartbeat with a freed source. The lemmas about what a service
  may say (`BeatsFit`, `GoodbyeFits`) are about operators that `XplProgram` uses as
  well; that its walks preserve the properties is model-checked.
- `XplProgram_proofs`: `EachListenerCalledOnce` (`EachListenerOnce`), under
  `ProgramAssumption`, which says what a message listener may do: nothing, remove
  itself, or install another one. A walk is counted entry by entry: what a listener
  has been called so far and how often it is among the entries still to come are
  together how often it was installed (`Balanced`). A listener that removes itself
  removes its first entry, which may be one still to come, or the very one that is
  called; either way one is left less to come (`AmongLess`), since entries behind
  it move down by one. One that is installed goes to the end, where this walk does
  not come. Services, their filters and what a configuration makes of them leave
  the list alone (`ServicesSilent`), by walks within the walk; `ListsHold` keeps the
  lists' types between messages. The walks are recursive functions, `Stepwise`
  (`WFMin`) does for induction, and nothing is assumed of the parser: the theorem
  is about any message it may return.
- `XplNetwork_proofs`, second part: `PortStaysRegistered`, that is `ServiceReachable`
  for all services, intervals and bounds of the network, under `PeriodsFit`: the
  period of one service's heartbeats is below the time after which the hub drops
  what another of its intervals asked for. The default of 300 s and any services of
  one interval satisfy it; a service that waits for its configuration with 60 s
  and one at the default do not, which is finding 2 (`XplNetworkShared`).
  `NetInv` says what the argument is: heartbeats under way announce intervals that
  services have; no enabled service is overdue; and what the hub has heard of the port is
  no older than any enabled service's last heartbeat, unless one is under way or
  lost. The hub's own invariants come from `XplHub_proofs` by `INSTANCE`, whose
  assumptions are proved of this hub (`HubOfProgram`).
- `XplIo_proofs`: `IoTyped`, `ReadyDispatched`, `NotBefore`, for handlers that take
  only themselves off the lists (`"removeOther" \notin Calls`; otherwise they are
  false, section 6). `OnlyReadyDispatched` needs that a device is listed once
  (`DevicesOnce`) and that those the loop has not come to are still ready
  (`StillReady`): the walk goes down, so what a handler removes moves only entries
  that were served. `NotEarly` needs that no stamp is older than its handler's last
  call (`StampsOld`), which the stamp written by position to the wrong entry keeps,
  since it is the youngest there is.
- `XplConfig_proofs`: `SavedIsLoaded` (`RoundTrip`), `EnabledHasItsItems`,
  `ResponseReplacesValues`, `AnswerIsRestored`, of one inductive invariant, `FInv`.
  Four facts about what is written and read carry it: a filter's text reads as that
  filter (`FormatThenParse`: none of its fields has a dot but the last, and a
  field that begins with a star was kept as a star); what is written of a
  configuration loads as that configuration (`LinesLoaded`); an answer sent back
  gives a service the values it described (`AnswerTaken`); a response gives
  each item its first `max` values, in order (`ResponseTaken`). All four follow
  `Taken` element by element, from what it has made of the first k elements to what
  it makes of k + 1 (`Stepwise`, from `WFMin`). `FInv` then says where the
  texts are: while a save goes on, what is in the file and what is still to be
  written are together what is written of the running service, and after it the file
  is what is written of the configuration `saved` remembers (`Saves`); the answer is
  what is sent of the configuration it described (`Answers`); and unless the program
  was killed inside a save, a file is what was written of some configuration with all
  the items of the program (`Restores`).
  It assumes `NoBuiltins`: no configurable has a name that begins `newconf`,
  `interval`, `filter` or `group`. That is a condition on the application, met by
  the one configurable the documents define (`debugMode`); without it
  `RoundTrip` is false, since `parseConfigDefinition` compares only as many
  characters as the name has (section 6). `AbsenceAssumption` says only that the
  values for no file and no service are neither.

Only model-checked: all liveness (the prover has no fairness or `ENABLED`), and of
the safety of `XplProgram` what depends on the text of a message:
`DeliveredAsAddressed` and `RequestsAnswered`, which compare what was meant with
what the parser made of it, and the properties of `XplService` where a message
changes a service. `XplMessage` computes with folds over sequences, which take an
operator, and the installed provers cannot instantiate an induction theorem that
takes one either. For a recursive function the argument can be made step by step,
with a shortest counterexample, as for `ValuesIn`, `Taken` and the walks of
`XplListeners`; the parser would have to be written as one.

## 5. Findings

1. **The watchdog is not reached by a node that is mute** (`oflnode.c:536`).
   The comment at 566-570 says that the reset cures nodes that "become mute after
   hours/days of uptime". A radio that stops sending keeps the pool empty, and
   `goto the_end` then skips `rad_off` and the uptime check in every loop.
   `OflNodeMute` shows the endless run; with a radio that sends, `OflNode` shows
   that the reset comes.
2. **The hub drops a live client whose port is shared** (`xPL-hub.c:351`).
   `CHANGELOG.txt:29-31` says that closing ports early "when more than one
   device was sharing the same port" was fixed. The interval kept for the port is
   still that of the last heartbeat: when a service with a short interval has
   spoken last and speaks no more, the port goes after twice that interval.

## 6. Where properties hold only within limits

The runs leave these cases out on purpose; each is in the list of hazards.

- A bme280 board with a light or power sensor overruns the frame (`FrameFits`
  excludes it).
- The battery is printed from 16 bits that nothing bounds (`oflnode.c:232-249`,
  `:448`): with five digits the longest frame is 126 bytes. So it is after 399 loops
  in a row that found the pool empty and skipped the uptime check, when the loop
  counter gets a fourth digit. `MaxBattery` and `FewMisses` exclude both.
- A page cut off in the middle of its write has a signature and is loaded.
- The key of the configuration is saved and never loaded: `utils.c:59` copies it
  from the structure into the buffer. The PAN has no place on the page. Only the
  debug listing reads either; `RoundTrip` says that both are zero after a load.
- The bridge posts seven kinds of values (`packetprocessor.cpp:61`). Pressure,
  humidity, light and power, which `oflnode.c:488`, `:500` and `:510` send, are
  passed over, although `README.md:24` of the repository speaks of the sensors'
  values without exception. `FramesRelayed` is about the kinds it knows.
- `ReadString` gives up at 128 characters. The longest line of a frame that fits
  has exactly these; a line that a key interrupt or an echo has made longer is cut
  (`LineTooLong`), which `RightSource` and `Relays` allow for.
- A reset of the dongle, or typed characters, between opening the port and `OK`
  leave the bridge waiting for ever.
- Two messages waiting in the omniradio: slot 0 is printed twice and slot 1
  never, since `j` goes up while `msg_cnt` goes down.
- The last bit of every omniradio frame but the first is wrong.
- The comment of the omniradio (`oflomniradio.c:171-172`) gives a 0 a low of 2675 µs
  and a 1 one of 1300; the test at 154-155 takes 1225 for a 0 and 275 for a 1. A
  transmitter that kept to the comment would have its 1 read as "0" and its 0 as
  "?". `Decodes` is about the pulses of the test.
- A service that the application renames keeps sending a freed name
  (`Setters`).
- A first `config.response` that keeps both the instance and the interval restarts
  nothing (`xPL-config.c:349`, `:365`, `:432`, `:452`), and the service goes on sending
  the `config.app` heartbeat it keeps (`xPL-service.c:65-77`) although it is
  configured, where `CONFIG.txt:273-279` says that a `hbeat.app` follows.
  `RestartAnnounces` is about configurations that change one of the two.
- After a restart of the library its own listener is there twice: every service
  gets every message twice, and answers twice (`starts = 1` in
  `DeliveredAsAddressed` and `RequestsAnswered`).
- The name of a group is read with its prefix and cut to 16 characters, and
  written with another prefix when the hub sends it on: a message to a group
  by way of the hub reaches nobody. `DeliveredAsAddressed` leaves relayed messages
  to groups out; groups are configured with the prefix in the run.
- `VALID_CHAR` assigns instead of comparing (`xPL-message.c:521`): control
  characters and everything from 123 on, braces and tildes among them, are read as
  `|`, in names and values alike.
  `Plain` excludes them; `Unclean` in the run shows them parsed.
- Messages that consist of a header alone are not sent to the program.
- A listener that removes *another* one makes the walk read past the list.
- Every list is shortened by a `memcpy` that is taken to copy upwards (section 2).
- An answer to `config.list` names items of several values with a freed string,
  which reads as `Blank`.
- A response is taken to give `newconf` and `interval` once at most.
- A configurable whose name is a prefix of `newconf`, `interval`, `filter` or
  `group` does not survive a save (`BuiltinPrefix`).
- An item named `config`, `reconf` or `option` could be defined and not set: its
  values read as definitions in the file and are skipped in a response
  (`xPL-config.c:323-344`). `ConfigAssumption` has no such item.
- A save that is torn leaves a file that counts as a configuration (`torn`).
- `xPL_processMessages(1000)` does not return when nothing arrives, since it
  takes its limit for the cap of a second (`xPL-io.c:689-695`, `:715`); the comment at
  669-676 says that it waits up to its limit and returns. The run calls it with this
  limit, and `Returns` excepts it (`theTimeout # SECOND`).
- Steady traffic keeps a call from returning and timeouts from being served.
- A device that `poll` reports for an error or because it was hung up (`POLLERR`,
  `POLLHUP`, `POLLNVAL`) goes to its handler like one with data: here devices only
  ever have data. A `poll` that fails is modelled (`PollFails`).
- A timeout handler that removes itself has the handler that moves up to its place
  stamped: that one waits longer than its interval.
- A handler that removes *another* device makes the loop call a handler whose
  device is not ready (`"removeOther"` in `Calls`).

## 7. Not modelled

- Raw listeners and listeners for changed configurations: their lists work like
  the others, but what they are called with is not followed.
- `ignoreBroadcasts`, which a service keeps (`xPL-service.c:364`) and nothing
  consults.
- Setters and getters of a message, and binary values in messages a program
  composes; the hop count, which is written as 1 whatever was read.
- `xPL-utils.c`, `xPL-store.c`: strings and name/value lists, used as sequences. The
  pool of freed strings has 256 entries for the lengths 0 to 256
  (`xPL-store.c:157`), which is in the list of hazards.
- Channel hopping of the dongle: `:chanhop` sets a variable that only `tmr0_isr`
  reads, and the call that would start its timer is commented out in `main`.
- The command line of the omniradio, which shares nothing with its receiver, and
  `ring_destroy`, which nothing calls.
- Choice of network interface and ports, options of the bridge: done once,
  before anything is shared.
- TCP server, xPL manager of the bridge: take part in nothing else.
- Sensor drivers (`ds1820.c`, `i2c_bme280.c`, `pressure.c`, `lcd.c`,
  `teleinfo.c`), `crc8.c`, `xtea.c`: bit-level protocols and pure arithmetic;
  `OflNode` takes their outcomes.
- `tools/`, `scripts/`, `docs/`: third-party programmers and hardware files.

## 8. Plan

Order in which the project was built, the most important behaviour first:

1. node (`OflNode`), its clock and its configuration, with proofs – done.
2. the path of a value to the database (`OflDongle`, `SerialDevice`, `Relay`,
   `Gateway`) – done, with proofs.
3. omniradio and ring – done, with proofs.
4. xPL: hub, services, event loop, program and hub together – done, with proofs.
5. xPL: configuration with lists and answers – done, with proofs; message text,
   listeners, filters and groups, and the whole way of a message through a program
   (`XplProgram`) – done, model-checked, with a proof of how listeners are called.

What would come next:

6. raw listeners, which see the buffer before it is parsed and may send from it;
   the pool of strings with its bound.
7. proofs: `DeliveredAsAddressed` and `RequestsAnswered`, once the parser of
   `XplMessage` is a recursive function.
8. runs that would show the limits of section 6 as violations, where a document
   of the repository states the opposite (`xPL-io.c:669-676`, `CONFIG.txt:273-279`,
   `oflomniradio.c:171-172`, `utils.h:23`).
