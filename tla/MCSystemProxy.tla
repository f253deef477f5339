--------------------------- MODULE MCSystemProxy ---------------------------
(* The three platforms and two ports, with a proxy of the user's in use, a  *)
(* SOCKS proxy (Linux), none, and none with values that are absent.        *)
EXTENDS SystemProxy

CONSTANTS p1, p2

S(en, host, prt) == [en |-> en, host |-> host, port |-> prt]

MCUserSettings ==
    {S("on", User, User), S("on", Unset, p1), S("off", Unset, p1),
     S("off", Unset, Unset), S(Unset, Unset, Unset)}
=============================================================================
