------------------------------- MODULE Noise --------------------------------
(***************************************************************************)
(* The noise state of one end of a connection (src/node/noise_handler.rs). *)
(* Operators only.                                                         *)
(*                                                                         *)
(* The cipher (crate snow) is external.  What the code relies on is kept:  *)
(* the three handshake messages are written and read in turn, beginning    *)
(* with the initiator; the transport starts after the third; a transport   *)
(* message is numbered by its writer and is read under that number only.   *)
(* The code unwraps every result of snow, so that an operation in the      *)
(* wrong state, or on the wrong message, is a panic of its task.           *)
(***************************************************************************)
EXTENDS Naturals, Sequences

HandshakeLength == 3

(* The only thing build_keypair accepts is a private key in PEM format.    *)
PemKey == "pem"
BuildsKeypair(key) == key = PemKey

(* NoiseHandler::new.  out and in number the transport messages.           *)
NewNoise(initiator) ==
    [initiator |-> initiator, mode |-> "handshake", done |-> 0,
     out |-> 0, in |-> 0]

InHandshake(s) == s.mode = "handshake" /\ s.done < HandshakeLength
MyTurn(s) == InHandshake(s) /\ (s.initiator <=> s.done % 2 = 0)

HandshakeFrame(s) == [kind |-> "handshake", n |-> s.done + 1, body |-> <<>>]
TransportFrame(s, body) == [kind |-> "transport", n |-> s.out, body |-> body]

(* build_handshake_message and read_handshake_message: what must hold, and *)
(* the state after.                                                        *)
CanBuildHandshake(s) == MyTurn(s)
CanReadHandshake(s, f) ==
    /\ InHandshake(s)
    /\ ~MyTurn(s)
    /\ f.kind = "handshake"
    /\ f.n = s.done + 1
AfterHandshakeMessage(s) == [s EXCEPT !.done = @ + 1]

(* start_transport                                                         *)
CanStartTransport(s) == s.mode = "handshake" /\ s.done = HandshakeLength
StartTransport(s) == [s EXCEPT !.mode = "transport"]

(* build_transport_message and read_transport_message.                     *)
CanReadTransport(s, f) ==
    /\ s.mode = "transport"
    /\ f.kind = "transport"
    /\ f.n = s.in
AfterTransportOut(s) == [s EXCEPT !.out = @ + 1]
AfterTransportIn(s) == [s EXCEPT !.in = @ + 1]
=============================================================================
