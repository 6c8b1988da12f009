----------------------------- MODULE MCRecorder -----------------------------
(* Recorder.tla for TLC.                                                   *)
EXTENDS Recorder
=============================================================================
