----------------------------- MODULE MCFraming -----------------------------
(* A stream of three RPCs of 3, 4 and 2 bytes, the last one with an unknown *)
(* command, over buffers with room for five bytes after a headroom of one.  *)
EXTENDS Framing
MCStarts == {0, 3, 7}
MCRpcSize == [s \in MCStarts |-> CASE s = 0 -> 3 [] s = 3 -> 4 [] s = 7 -> 2]
MCUnknown == {7}
=============================================================================
