---------------------------- MODULE MCDbSession -----------------------------
(* Instances of DbSession for TLC. *)
EXTENDS DbSession, TLC

CONSTANTS s1, s2, r1, r2, p1

NoSessions == {}
NoPairs == {}
OneSession == {s1}
TwoSessions == {s1, s2}
SecondSession == {s2}
OneKiller == {<<s1, s2>>}
OneRequest == {r1}
TwoRequests == {r1, r2}
OnePlugin == {p1}
NoPlugins == {}

\* The requests are interchangeable.
RequestSymmetry == Permutations(Requests)

=============================================================================
