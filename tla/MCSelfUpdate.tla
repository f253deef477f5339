---------------------------- MODULE MCSelfUpdate ----------------------------
(* A shipped release, a candidate for the next one, that one itself, whose *)
(* files are uploaded twice, and the one after it.                         *)
EXTENDS SelfUpdate

CONSTANTS bg, ui

V(core, pre) == [valid |-> TRUE, core |-> core, pre |-> pre]
Full == {"archive", "sums"}

MCShipped == [tag |-> V(1, 0), prerelease |-> FALSE, assets |-> Full]
MCNext == [tag |-> V(2, 0), prerelease |-> FALSE, assets |-> Full]
MCReleases ==
    {MCShipped, MCNext,
     [tag |-> V(2, 1), prerelease |-> TRUE, assets |-> Full],
     [tag |-> V(3, 0), prerelease |-> FALSE, assets |-> Full]}
MCReuploaded == {MCNext}
=============================================================================
