---------------------------- MODULE MCLifecycle -----------------------------
(* Models of Lifecycle for TLC.                                            *)
EXTENDS Lifecycle

(* Another process has the default address.                                *)
DefaultTaken == {<<"localhost", 6680>>}

Network(port) == <<[bind |-> <<>>, port |-> <<port>>]>>
Key(k) == <<[key |-> k]>>

(* The file of a node that can serve.                                      *)
GoodFile == TomlFile(Network(7000), <<>>, Key(<<PemKey>>))

AllFiles ==
    {MissingFile, MalformedFile, GoodFile,
     TomlFile(Network(7000), <<>>, <<>>),       \* no noise section
     TomlFile(Network(7000), <<>>, Key(<<>>)),  \* a noise section, no key
     TomlFile(<<>>, <<>>, Key(<<PemKey>>)),     \* the default address
     TomlFile(Network(7000), <<[seeds |-> << <<"localhost:1">> >>]>>,
              Key(<<PemKey>>))}                 \* a seed that is not up
OneFile == {GoodFile}
=============================================================================
