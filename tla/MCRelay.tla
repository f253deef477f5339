------------------------------ MODULE MCRelay ------------------------------
(* Streams of up to nine bytes whose first record announces up to four,    *)
(* one of them more than is allowed.                                       *)
EXTENDS Relay
=============================================================================
