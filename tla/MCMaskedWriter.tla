--------------------------- MODULE MCMaskedWriter ---------------------------
EXTENDS MaskedWriter

(* Secrets that are prefixes of one another, overlap and nest. *)
MCSecrets == {<<"a">>, <<"a", "b">>, <<"a", "b", "b", "a">>, <<"b", "a", "b">>}
=============================================================================
