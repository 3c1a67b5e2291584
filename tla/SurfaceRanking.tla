--------------------------- MODULE SurfaceRanking ---------------------------
(***************************************************************************)
(* Who should hold an inbound surface, decided identically on every node   *)
(* (packages/sdk/src/platform/cluster/ranking.ts).  Two orders live there: *)
(* the STABLE order (version, then a hash of node and surface) that settles*)
(* a split brain, and the SPREAD order, which puts the observed number of  *)
(* holdings between the two and settles a contested election.              *)
(***************************************************************************)
EXTENDS Integers

CONSTANTS
    Node,       \* the nodes that can serve the surface
    Version,    \* Version[n]: the build of n, as a number that grows with it
    HashRank,   \* HashRank[n]: position of the hash of (n, surface)
    Load        \* Load[v][n]: OTHER surfaces n holds, as counted by v's ledger

(* A collision of two 256-bit hashes is excluded, so the hash is injective. *)
ASSUME RankingAssumption ==
    /\ Version \in [Node -> Nat]
    /\ HashRank \in [Node -> Nat]
    /\ \A m, n \in Node : HashRank[m] = HashRank[n] => m = n
    /\ Load \in [Node -> [Node -> Nat]]

-----------------------------------------------------------------------------

(* isStrictlyNewerVersion: the only grounds for preempting a sitting holder. *)
StrictlyNewer(m, n) == Version[m] > Version[n]

(* compareStableRank(m, n) < 0. *)
OutranksStably(m, n) ==
    \/ StrictlyNewer(m, n)
    \/ Version[m] = Version[n] /\ HashRank[m] < HashRank[n]

(* outranksForSurface as v computes it, from the holdings v has observed. *)
OutranksForSurface(v, m, n) ==
    \/ StrictlyNewer(m, n)
    \/ Version[m] = Version[n] /\ Load[v][m] < Load[v][n]
    \/ /\ Version[m] = Version[n]
       /\ Load[v][m] = Load[v][n]
       /\ HashRank[m] < HashRank[n]

(* SURFACE_YIELD_GAP: two, so that one move balances the pair exactly. *)
SurfaceYieldGap == 2

(* shouldYieldSurface. *)
ShouldYieldSurface(held, candidateHeld) == held - candidateHeld >= SurfaceYieldGap

=============================================================================
