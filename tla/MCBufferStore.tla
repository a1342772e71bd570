--------------------------- MODULE MCBufferStore ---------------------------
(* BufferStore for model checking. *)
EXTENDS BufferStore

=============================================================================
