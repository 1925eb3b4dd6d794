----------------------------- MODULE MCLmcBitmap -----------------------------
(***************************************************************************)
(* A machine of three bits to a byte and two bytes to a word: a stride of  *)
(* six.  Blocks start anywhere, are two words or more, and may reach past  *)
(* the end of the pool.                                                    *)
(***************************************************************************)
EXTENDS LmcBitmap

CONSTANT Sizes

Blocks == [va : 0 .. Total, size : Sizes]

=============================================================================
