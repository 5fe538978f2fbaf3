------------------------------ MODULE MCSession ------------------------------
(* Builds for TLC: two versions, with and without each feature. *)
EXTENDS Session

Full      == [sw |-> 1, features |-> {"z", "e"}]
Reactive  == [sw |-> 1, features |-> {"z"}]
Plain     == [sw |-> 1, features |-> {"e"}]
OldBuild  == [sw |-> 0, features |-> {"z", "e"}]

MCServerBuilds == {Full, Reactive}
MCClientBuilds == {Full, Reactive, Plain, OldBuild}
MCOneBuild     == {Full}
=============================================================================
