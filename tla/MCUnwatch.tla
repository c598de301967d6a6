----------------------------- MODULE MCUnwatch -----------------------------
(* A call of the client, made by unwatch, with three attempts, the default. *)
EXTENDS Unwatch
=============================================================================
