--------------------------- MODULE MCAuthSessions ---------------------------
(* Instances of AuthSessions for TLC. *)
EXTENDS AuthSessions, TLC

CONSTANTS u1, s1, s2, b1, b2, t1, q1, q2, q3

MCUsers == {u1}
MCSessions == {s1, s2}
OneBrowser == {b1}
TwoBrowsers == {b1, b2}
OneTab == {t1}
TwoRequests == {q1, q2}
ThreeRequests == {q1, q2, q3}

\* Sessions, browsers and request slots are interchangeable
Symmetry == Permutations(Sessions) \cup Permutations(Browsers) \cup Permutations(Requests)
=============================================================================
