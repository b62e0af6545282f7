---------------------------- MODULE MCKeyedMutex ----------------------------
(* Finite instances of KeyedMutex.                                         *)
EXTENDS KeyedMutexProofs
=============================================================================
