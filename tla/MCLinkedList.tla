---------------------------- MODULE MCLinkedList ----------------------------
(* LinkedList with a few addresses for TLC.                                *)
EXTENDS LinkedList
=============================================================================
