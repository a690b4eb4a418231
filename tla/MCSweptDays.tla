---------------------------- MODULE MCSweptDays ----------------------------
(***************************************************************************)
(* The marks with their history, round after round: from marks two windows *)
(* behind, or none, so that two sources begin more than a window apart.    *)
(***************************************************************************)
EXTENDS SweptDays

CONSTANT Transcripts

MarksFarOrNone == {Unset, 0}
=============================================================================
