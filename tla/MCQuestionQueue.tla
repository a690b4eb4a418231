-------------------------- MODULE MCQuestionQueue ---------------------------
(***************************************************************************)
(* Three writers over two days and two texts that share an id, on a queue  *)
(* with a line that cannot be read.                                        *)
(***************************************************************************)
EXTENDS QuestionQueue

CONSTANTS w1, w2, w3, ta, tb, ia

MCWriters == {w1, w2, w3}
MCTexts == {ta, tb}
MCIds == {ia}
MCIdOf == [t \in Texts |-> ia]
MCDays == 0 .. 1
MCFirst == {<<Corrupt>>}
=============================================================================
