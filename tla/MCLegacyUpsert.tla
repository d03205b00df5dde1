--------------------------- MODULE MCLegacyUpsert ---------------------------
(* Two persons; a family update that can place both, one that cannot place *)
(* the second, and a primary update.                                       *)
EXTENDS LegacyUpsert, TLC

CONSTANTS p1, p2, h1, h2

MCMembersOf == "family" :> {p1, p2} @@ "odd" :> {p1, p2} @@ "headless" :> {p2}
MCUnusable == "family" :> {} @@ "odd" :> {p2} @@ "headless" :> {}
Symmetry == Permutations({h1, h2})
=============================================================================
