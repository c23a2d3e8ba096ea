---------------------------- MODULE MCSoloBooking ----------------------------
(* SoloBooking on small instances. *)
EXTENDS SoloBooking, TLC

Interchangeable == Permutations(Slot) \union Permutations(Hold) \union Permutations(Run)

==============================================================================
