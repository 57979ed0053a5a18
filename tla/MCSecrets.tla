----------------------------- MODULE MCSecrets -----------------------------
EXTENDS Secrets

CONSTANTS p1, p2

(* One process, or two at the same time. *)
OneAndTwo == {{p1}, {p1, p2}}

BothProviders == {"file", "binary"}

(* A file without vals references needs no program. *)
OnlyBinary == {"binary"}
=============================================================================
