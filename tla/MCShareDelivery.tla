-------------------------- MODULE MCShareDelivery --------------------------
(* A small instance of ShareDelivery: bits for bytes, two to a field element. *)
EXTENDS ShareDelivery

\* One chunk, which is padded.
OneChunk == {<<1>>}

Indices == 1 .. K
=============================================================================
