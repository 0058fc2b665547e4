---------------------------- MODULE MCGuestFutex ----------------------------
(* GuestFutex with two workers, a callback and the pump on two words. *)
EXTENDS GuestFutex

CONSTANTS w1, w2, c1, p, a1, a2
TwoWords == {a1, a2}
Symmetry == Permutations(TwoWords)
OneWorker == {w1}
TwoWorkers == {w1, w2}
OneCallback == {c1}
OnePump == {p}
Nobody == {}
WorkerAndCallback == {w1, c1}
WorkerAndPump == {w1, p}
Everybody == {w1, c1, p}
WorkersAndCallback == {w1, w2, c1}
=============================================================================
