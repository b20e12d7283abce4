------------------------ MODULE MCRepositoryFactory ------------------------
(* Three stores that list the same eggs in part, and a newer one that is   *)
(* for another Python; two threads, so that one store has to wait.         *)
EXTENDS RepositoryFactory, TLC

CONSTANTS c1, c2, c3, old, new, alien

ThreeStores == <<c1, c2, c3>>
ThreeContexts == {c1, c2, c3}
ThreeEggs == {old, new, alien}
Versions == old :> 1 @@ new :> 2 @@ alien :> 3
Indices == c1 :> {old, new} @@ c2 :> {new, alien} @@ c3 :> {old}
EggsForPython == {old, new}

(* A missing store, one that is broken, and an answer without a body that  *)
(* is no error.                                                            *)
FourAnswers == {200, 204, 404, 500}
=============================================================================
