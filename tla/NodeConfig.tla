----------------------------- MODULE NodeConfig -----------------------------
(***************************************************************************)
(* The configuration page in flash (ofllibs/utils.c) and the two programs  *)
(* that load it at boot: oflnode, which writes defaults to a page that has *)
(* no signature, and ofldongle, which only reads.  Power may go at any     *)
(* step; the flash then keeps what was written.  nvm_detect, nvm_read,     *)
(* nvm_erase and nvm_write are ROM routines (external): each may fail, and *)
(* nvm_write programs the buffer from its first byte to its last.          *)
(***************************************************************************)
EXTENDS Naturals, Sequences

CONSTANTS
  MaxCuts,    \* bound: power cuts
  OtherChan   \* radio channel of a page somebody else has written

ASSUME ConfigAssumption ==
  MaxCuts \in Nat /\ OtherChan \in 1..15

VARIABLES
  step,     \* step of the boot sequence
  page,     \* the bytes of the page, by field
  config,   \* myconfig, zero at power-up
  source,   \* history: where config comes from: "zero", "nvm" or "default"
  tuned,    \* channel last given to set_channel, in the radio
  at,       \* nvm_write: fields programmed so far
  cuts,
  device    \* which program boots: "node" or "dongle"

bootVars == <<step, page, config, source, tuned, at, cuts, device>>

\* The fields in the order of buf[] (securekey: its first 8 bytes; the low-uptime
\* flag and counter); the bytes behind them are never used.
Layout == <<"sig0", "sig1", "smac", "radiochan", "txpower", "capa",
            "securekey", "flag", "counter">>
Field == {Layout[i] : i \in 1..Len(Layout)}

\* config_t has a PAN besides, which has no place in buf[].
ConfigField == Field \cup {"span"}

ERASED == 255
CAPA_TEMP == 4
DEFAULT_NODENO == 153
NODE_ID == 1
PAN == 61453      \* F00D

ZeroConfig == [f \in ConfigField |-> 0]
ErasedPage == [f \in Field |-> ERASED]

\* default_config leaves the key, the flag and the PAN of the structure alone.
default_config(c) ==
  [c EXCEPT !["sig0"] = 240, !["sig1"] = 15, !["smac"] = DEFAULT_NODENO,
            !["radiochan"] = 0, !["txpower"] = 18, !["capa"] = CAPA_TEMP,
            !["counter"] = 0]

\* What oflnode patches in the defaults before it saves them.
Patched(c) == [c EXCEPT !["smac"] = NODE_ID, !["span"] = PAN]

NodeDefaults == Patched(default_config(ZeroConfig))

\* A page another program has written, with a key and a flag.
ForeignPage ==
  [f \in Field |-> CASE f = "sig0" -> 240
                     [] f = "sig1" -> 15
                     [] f = "smac" -> 7
                     [] f = "radiochan" -> OtherChan
                     [] f = "txpower" -> 18
                     [] f = "capa" -> CAPA_TEMP + 2
                     [] f = "securekey" -> 90
                     [] f = "flag" -> 1
                     [] f = "counter" -> 3]

\* write_config's buffer: buf[1] is signature[0].
Buffer(c) == [f \in Field |-> IF f = "sig1" THEN c["sig0"] ELSE c[f]]

\* What read_config takes from the buffer.  The memcpy of the key goes the other
\* way, from the structure into the buffer.
LoadedConfig(p, c) ==
  [f \in ConfigField |-> IF f \in Field \ {"securekey"} THEN p[f] ELSE c[f]]

\* read_config's test of the signature: either byte is enough.
SignedStrict(p) == p["sig0"] = 240 /\ p["sig1"] = 15
Signed(p) == ~(p["sig0"] # 240 /\ p["sig1"] # 15)

Complete(p) == \A f \in Field : p[f] # ERASED
-----------------------------------------------------------------------------
BootInit ==
  /\ step = "boot"
  /\ page \in {ErasedPage, ForeignPage}
  /\ config = ZeroConfig /\ source = "zero"
  /\ tuned = 0 /\ at = 0 /\ cuts = 0
  /\ device \in {"node", "dongle"}

\* The dongle's init_hw tunes the radio before main() reads the configuration.
TuneFirst ==
  /\ step = "boot"
  /\ tuned' = IF device = "dongle" THEN config["radiochan"] ELSE tuned
  /\ step' = "read"
  /\ UNCHANGED <<page, config, source, at, cuts, device>>

\* Where the boot goes once config is what it is going to be.
Loaded == IF device = "node" THEN "rad_init" ELSE "running"

ReadConfig ==
  /\ step = "read"
  /\ Signed(page)
  /\ config' = LoadedConfig(page, config) /\ source' = "nvm"
  /\ step' = Loaded
  /\ UNCHANGED <<page, tuned, at, cuts, device>>

NoSignature ==
  /\ step = "read"
  /\ ~Signed(page)
  /\ config' = IF device = "node" THEN Patched(default_config(config))
                                  ELSE default_config(config)
  /\ source' = "default"
  /\ step' = IF device = "node" THEN "erase" ELSE Loaded
  /\ UNCHANGED <<page, tuned, at, cuts, device>>

\* nvm_detect or nvm_read fails: the dongle takes the defaults, the node runs
\* with a configuration of zeros.
ReadFailsErase ==
  /\ step = "read"
  /\ config' = Patched(default_config(config)) /\ source' = "default"
  /\ step' = IF device = "node" THEN "erase" ELSE Loaded
  /\ UNCHANGED <<page, tuned, at, cuts, device>>
ReadFails ==
  /\ step = "read"
  /\ IF device = "dongle"
       THEN config' = default_config(config) /\ source' = "default"
       ELSE UNCHANGED <<config, source>>
  /\ step' = Loaded
  /\ UNCHANGED <<page, tuned, at, cuts, device>>

Erase ==
  /\ step = "erase"
  /\ page' = ErasedPage
  /\ at' = 0
  /\ step' = "write"
  /\ UNCHANGED <<config, source, tuned, cuts, device>>

WriteField ==
  /\ step = "write"
  /\ LET f == Layout[at + 1] IN page' = [page EXCEPT ![f] = Buffer(config)[f]]
  /\ at' = at + 1
  /\ step' = IF at' = Len(Layout) THEN Loaded ELSE "write"
  /\ UNCHANGED <<config, source, tuned, cuts, device>>

\* An error of nvm_detect, nvm_erase or nvm_write is logged and forgotten.
WriteFails ==
  /\ step \in {"erase", "write"}
  /\ step' = Loaded
  /\ UNCHANGED <<page, config, source, tuned, at, cuts, device>>

RadInit ==
  /\ step = "rad_init"
  /\ tuned' = config["radiochan"]
  /\ step' = "running"
  /\ UNCHANGED <<page, config, source, at, cuts, device>>

PowerCut ==
  /\ cuts < MaxCuts
  /\ cuts' = cuts + 1
  /\ step' = "boot"
  /\ config' = ZeroConfig /\ source' = "zero"
  /\ tuned' = 0 /\ at' = 0
  /\ UNCHANGED <<page, device>>

BootNext ==
  \/ TuneFirst \/ ReadConfig \/ NoSignature \/ ReadFails
  \/ Erase \/ WriteField \/ WriteFails \/ RadInit \/ PowerCut

BootSpec == BootInit /\ [][BootNext]_bootVars
-----------------------------------------------------------------------------
\* A page that was completely written is recognised at the next boot.  The test
\* of read_config is weaker than its comment and write_config writes F0F0, and
\* only both together make this work (utils.c:47 and :74).  It gives back the
\* address, channel, power, capabilities and low-uptime fields that write_config
\* was given, or another program had written; it never gives back the key
\* (utils.c:59 copies it the wrong way, although utils.h:23 shows it on the page)
\* nor the PAN, which has no place there: after a load both are zero.
Restored == Field \ {"sig0", "sig1", "securekey"}
Written == IF page = ForeignPage THEN page ELSE NodeDefaults
RoundTrip ==
  /\ source = "nvm" /\ Complete(page)
       => \A f \in Restored : config[f] = Written[f]
  /\ source = "nvm" => \A f \in {"securekey", "span"} : config[f] = 0
  /\ source = "default" /\ step = "running" /\ device = "node" /\ Complete(page)
       => Signed(page)

\* The node erases a page only for want of a signature: no step of any boot,
\* power cut or flash error takes a complete page away (oflnode.c:368: res == -3).
PageNeverLost == [][Complete(page) => page' = page]_bootVars

\* oflnode.c:298 after :364: a running node listens on the configured channel.
NodeTuned == step = "running" /\ device = "node" => tuned = config["radiochan"]
=============================================================================
