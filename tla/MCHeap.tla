-------------------------------- MODULE MCHeap --------------------------------
(* Model checking of HeapStorage, alone and against ObjectPool. *)
EXTENDS HeapStorage

CONSTANTS o1, o2, o3, o4, o5

\* One address more than there are cells, so that the heap can overflow.
ObjectsValue == {o1, o2, o3, o4, o5}
PreloadsValue == <<o1, o2>>
=============================================================================
