-------------------------------- MODULE MCList --------------------------------
(* TLC instance of SortedList: lists of up to five items. *)
EXTENDS SortedList

FiveItems == 1 .. 5
=============================================================================
