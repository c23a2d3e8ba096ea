-------------------------------- MODULE SharePool --------------------------------
(***************************************************************************)
(* What the players of a team booking may rely on.  The captain asks them  *)
(* to pay once; each of those asked owes a first share until he has paid,  *)
(* the captain has covered for him, or he has been left out; the pitch is  *)
(* booked only when nobody but the captain owes his first share any more   *)
(* ("BOOKED: fully paid, real Booking rows created",                       *)
(* TeamBookingRequestStatus; the captain's own share is not promised).     *)
(***************************************************************************)
CONSTANTS Player, captain

VARIABLES
    opened,    \* the captain has asked for the money
    owes,      \* who still owes a first share
    booked     \* a booking has been made

TypeOK ==
    /\ opened \in BOOLEAN
    /\ owes \subseteq Player
    /\ booked \in BOOLEAN

Init == opened = FALSE /\ owes = {} /\ booked = FALSE

\* The captain asks these players, and himself, to pay: once and for all.
Open(asked) ==
    /\ ~opened
    /\ captain \in asked
    /\ opened' = TRUE
    /\ owes' = asked
    /\ UNCHANGED booked

\* Some shares are paid, covered or dropped, and the pitch may be booked with
\* the same step.
Settle(some) ==
    /\ opened
    /\ owes' = owes \ some
    /\ booked' \in {booked, TRUE}
    /\ booked' /\ ~booked => owes' \subseteq {captain}
    /\ UNCHANGED opened

Next == \E some \in SUBSET Player : Open(some) \/ Settle(some)

Spec == Init /\ [][Next]_<<opened, owes, booked>>

================================================================================
