---------------------- MODULE MCWorkStealingDispatcher ----------------------
(* Two workers, each served by one loop or, as the factory starts them, two. *)
EXTENDS WorkStealingDispatcher

CONSTANTS w1, w2, a1, b1, a2

OneWorker == {w1}
TwoWorkers == {w1, w2}
OneLoop == {a1}
PairOfLoops == {a1, b1}
OneLoopEach == {a1, a2}
OwnOf == [l \in Loops |-> IF l \in {a1, b1} THEN w1 ELSE w2]
NoId == {}
FirstId == {1}
=============================================================================
