-------------------------- MODULE MCMegatronBackend --------------------------
(* An instance of MegatronBackend for TLC: an actor (one thread), and the    *)
(* locking discipline with two threads inside the backend at once.           *)
EXTENDS MegatronBackend
CONSTANTS c1, c2

TwoThreads == {c1, c2}
OneOrTwoThreads == {{c1}, {c1, c2}}
=============================================================================
