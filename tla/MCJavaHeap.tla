------------------------------ MODULE MCJavaHeap ------------------------------
(* The instances of MCCollector, with the history variable.                   *)
EXTENDS HeapHistory, MCCollector
=============================================================================
