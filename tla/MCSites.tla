------------------------------ MODULE MCSites ------------------------------
(* Two Sites that may share a PHP version and take over each other's domain. *)
EXTENDS Sites, TLC

CONSTANTS s1, s2, d1, d2, r1, r2, t1, t2, p1

OneSite == {s1}
TwoSites == {s1, s2}
TwoDomains == {d1, d2}
OneRoot == {r1}
TwoRoots == {r1, r2}
OneTimeout == {t1}
OnePhp == {p1}
Alike == Permutations(Ids) \cup Permutations(Domains) \cup Permutations(Roots)
=============================================================================
