---------------------------- MODULE MCStemStore ----------------------------
(* StemStore with the audio thread and the waveform worker as readers.      *)
EXTENDS StemStore

CONSTANTS audio, wave, message, s1, s2, s3
=============================================================================
