---- MODULE MCCompositor ----
(* TLC instance of the compositor. *)
EXTENDS Compositor
====
