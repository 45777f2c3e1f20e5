----------------------------- MODULE MCRouter ------------------------------
(* Instances of Router for TLC.                                            *)
EXTENDS Router

CONSTANTS router, animals, main, worker, get

(* With anchors and without. *)
CatPaths == {<<"^", "cat", "$">>, <<"cat">>}
OnePath == {<<"^", "cat", "$">>}
CatTargets == {<<"cat">>, <<"animals", "cat">>}
OneTarget == {<<"cat">>}

(* router.use("^/animals$", animals) *)
AnimalMount == {<<router, <<"^", "animals", "$">>, animals>>}
NoMounts == {}
=============================================================================
