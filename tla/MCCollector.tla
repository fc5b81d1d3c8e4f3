------------------------------ MODULE MCCollector ------------------------------
(* Model checking of Collector: a heap of three cells, ripe with two objects. *)
EXTENDS Collector

CONSTANTS o1, o2, o3

ObjectsValue == {o1, o2, o3}
PreloadsValue == <<>>
=============================================================================
