------------------------------ MODULE MCVoice -------------------------------
(* TLC instance of VoiceThreads. *)
EXTENDS VoiceThreads

WavFormats == {<<44100, 1>>, <<48000, 2>>}
=============================================================================
