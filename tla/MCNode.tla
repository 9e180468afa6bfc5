------------------------------- MODULE MCNode -------------------------------
(* Model checking of Node: a node of two domains, with two values for each   *)
(* of its tables. Those of a refused message's forms that only differ in     *)
(* who asks are represented by one.                                          *)
EXTENDS Node

MCReceived == {m \in Messages : m.form = "fits" \/ (m.asks /\ ~m.auth)}
=============================================================================
