--------------------------- MODULE MCWorldSocket ---------------------------
(* An instance of WorldSocket: the client logs in, pings without a payload *)
(* and sends one more packet.                                              *)
EXTENDS WorldSocket

ClientPackets == << [kind |-> "auth", size |-> 1],
                    [kind |-> "ping", size |-> 0],
                    [kind |-> "data", size |-> 0] >>

=============================================================================
