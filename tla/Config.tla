------------------------------- MODULE Config -------------------------------
(***************************************************************************)
(* What a node makes of its configuration file (src/config/mod.rs and the  *)
(* beginning of src/main.rs).  Operators only.                             *)
(*                                                                         *)
(* An optional value is <<>> or <<v>>.  A file is missing, malformed, or   *)
(* TOML with three optional sections, each with optional entries.  Of the  *)
(* entries only the ones some code reads are here; delivery_timeout is     *)
(* read too, but the models let timeouts fire at any time.                 *)
(***************************************************************************)
EXTENDS Naturals, Sequences

MissingFile == [kind |-> "missing"]
MalformedFile == [kind |-> "malformed"]

(* A file that parses as TOML.                                             *)
TomlFile(network, peer, noise) ==
    [kind |-> "toml", network |-> network, peer |-> peer, noise |-> noise]

(* Where a file gives the address to bind, it gives optional values.       *)
Optional(entry) == entry = <<>> \/ entry = <<entry[1]>>
WellFormed(file) ==
    file.kind = "toml" /\ file.network # <<>> =>
        Optional(file.network[1].bind) /\ Optional(file.network[1].port)

DefaultNetwork == [bind |-> "localhost", port |-> 6680]
DefaultSeeds == <<>>
DefaultKey == ""
DefaultConfig == [network |-> DefaultNetwork, seeds |-> DefaultSeeds,
                  key |-> DefaultKey]

(* serde's default for an entry.                                           *)
OrDefault(entry, default) == IF entry = <<>> THEN default ELSE entry[1]

NetworkOf(section) ==
    IF section = <<>> THEN DefaultNetwork
    ELSE [bind |-> OrDefault(section[1].bind, DefaultNetwork.bind),
          port |-> OrDefault(section[1].port, DefaultNetwork.port)]

SeedsOf(section) ==
    IF section = <<>> THEN DefaultSeeds
                      ELSE OrDefault(section[1].seeds, DefaultSeeds)

(* The key has no default of its own: the section may be left out as a     *)
(* whole, which gives an empty key, but not the key in the section.        *)
KeyMissing(section) == section # <<>> /\ section[1].key = <<>>
KeyOf(section) == IF section = <<>> THEN DefaultKey ELSE section[1].key[1]

ParseConfig(file) ==
    IF file.kind = "malformed" \/ KeyMissing(file.noise) THEN <<>>
    ELSE <<[network |-> NetworkOf(file.network), seeds |-> SeedsOf(file.peer),
            key |-> KeyOf(file.noise)]>>

(* load_config_from_file: a file that cannot be read is not an error.      *)
LoadConfig(file) ==
    IF file.kind = "missing" THEN <<DefaultConfig>> ELSE ParseConfig(file)

(* The address as a pair; nothing takes the text "bind:port" apart again.  *)
GetBindAddress(network) == <<network.bind, network.port>>
=============================================================================
