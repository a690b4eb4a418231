----------------------------- MODULE MCSessions -----------------------------
(***************************************************************************)
(* Two sessions with ids in one working tree, beside a command that takes  *)
(* both locks and the legacy job.                                          *)
(***************************************************************************)
EXTENDS Sessions

CONSTANTS s1, s2, r1, a, b

TwoSessions == {s1, s2}
NoneAnonymous == {}
OneRound == {r1}
TwoPaths == {a, b}
MCLimit == [p \in Paths |-> 1]
MCSettings == {<<"ok", "on">>}
=============================================================================
