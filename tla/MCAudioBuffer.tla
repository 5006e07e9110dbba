--------------------------- MODULE MCAudioBuffer ---------------------------
(* AudioBuffer for TLC: a stream with a gap that is filled with silence, and *)
(* one longer than the ring that jumps twice.                                *)
EXTENDS AudioBuffer

MCStreams ==
  {<<1, 3, 9>>, <<1, 3, 21, 23, 41>>}
=============================================================================
