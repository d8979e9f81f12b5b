-------------------------------- MODULE Lists ---------------------------------
(***************************************************************************)
(* Lists as the code uses them: those of container/list, the ring of the   *)
(* cache's entries and the slice of its free ones.                         *)
(***************************************************************************)
EXTENDS Integers, Sequences, Functions

(* The element at the back of a list, and what is in front of it. *)
Last(list) == list[Len(list)]

Front(list) == SubSeq(list, 1, Len(list) - 1)

(* Remove, of the element at a place or of an element in whatever place. *)
RemoveAt(list, i) == SubSeq(list, 1, i - 1) \o SubSeq(list, i + 1, Len(list))

Remove(list, e) == SelectSeq(list, LAMBDA x : x # e)
================================================================================
