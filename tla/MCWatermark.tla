---------------------------- MODULE MCWatermark ----------------------------
(***************************************************************************)
(* The marks over a few days, with windows of at most two days in place of *)
(* seven so that a few days already clip them and part two sources by more *)
(* than a window; with the owner's commands and the clock set back.        *)
(***************************************************************************)
EXTENDS Watermark

CONSTANT Transcripts

MarksFew == {Unset, 2, 3}
=============================================================================
