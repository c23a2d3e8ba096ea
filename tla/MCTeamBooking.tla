---------------------------- MODULE MCTeamBooking ----------------------------
(* TeamBooking on small instances. *)
EXTENDS TeamBooking, TLC

Interchangeable == Permutations(Call) \union Permutations(Player \ {captain})

==============================================================================
