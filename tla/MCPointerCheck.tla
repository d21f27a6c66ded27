--------------------------- MODULE MCPointerCheck ---------------------------
(* Two threads, two lines each; two of three pointers share a page. *)
EXTENDS PointerCheck

Addresses == {0, 2, 3, 4}
=============================================================================
