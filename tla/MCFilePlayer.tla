---------------------------- MODULE MCFilePlayer ----------------------------
(* FilePlayer.tla for TLC.                                                 *)
EXTENDS FilePlayer
=============================================================================
