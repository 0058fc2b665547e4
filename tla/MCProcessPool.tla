---------------------------- MODULE MCProcessPool ----------------------------
(* ProcessPool with two names, guest pids for two or three processes, one-message sockets. *)
EXTENDS ProcessPool

CONSTANTS a, b
TwoNames == {a, b}
=============================================================================
