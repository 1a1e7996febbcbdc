----------------------------- MODULE MCOflNode -----------------------------
(* Instances of OflNode for TLC. *)
EXTENDS OflNode

\* The two boards of SmallBoard with the longest frames.
WidestBoards ==
  { [bme |-> TRUE,  capa |-> {"TEMP"}],
    [bme |-> FALSE, capa |-> {"TEMP", "LIGHT", "POWER"}] }

\* The board of default_config, with and without bme280.
DefaultBoards == [bme : BOOLEAN, capa : {{"TEMP"}}]
=============================================================================
