------------------------- MODULE MCCrossProcessLock -------------------------
(* Small instances of CrossProcessLock.                                      *)
EXTENDS CrossProcessLock, TLC

CONSTANTS a, b, c, p, q, r

(* Two callers queue in p, one in q.                                         *)
TwoInOneProcess == (a :> p) @@ (b :> p) @@ (c :> q)

OneProcess == [x \in {a, b, c} |-> p]

OneProcessEach == (a :> p) @@ (b :> q) @@ (c :> r)

Inodes == 1..7

=============================================================================
