--------------------------- MODULE MCReferenceArena ---------------------------
(* One agent, one scenario family and one detector; two of the stages, one   *)
(* tick apart, so that labels change from tick to tick.                      *)
EXTENDS ReferenceArena
MCDetectors == <<"spoofing_like">>
MCStageAt == <<0, 1>>
=============================================================================
