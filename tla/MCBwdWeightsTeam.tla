-------------------------- MODULE MCBwdWeightsTeam --------------------------
(* Two groups of two threads; three images, so that one group has two and  *)
(* the other one; three blocks of input channels in tiles of two and one,  *)
(* so that the buffer of a group is reused within an image.                *)
EXTENDS BwdWeightsTeam
=============================================================================
