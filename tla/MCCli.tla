------------------------------- MODULE MCCli -------------------------------
(* A query over UDP and one over TCP, whose Ids differ from each other. *)
EXTENDS Cli, TLC

CONSTANTS u, t, i1, i2

MCProto == (u :> "udp") @@ (t :> "tcp")
MCIdOf == (u :> i1) @@ (t :> i2)
=============================================================================
