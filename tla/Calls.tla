------------------------------- MODULE Calls -------------------------------
(***************************************************************************)
(* How the functions of the libraries are checked: a behaviour begins with *)
(* a call, of which "result" then holds what it returned.  An object, such *)
(* as a hash table, is called again and again; then "result" is its state  *)
(* and "call" also holds what has been done to it.                         *)
(***************************************************************************)
CONSTANT NULL
VARIABLES call, result

Returned(op) == call.op = op /\ result # NULL
=============================================================================
