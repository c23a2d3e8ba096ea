----------------------------- MODULE PaymentLedger -----------------------------
(***************************************************************************)
(* What the payments of a pitch owner promise: each thing that is paid for *)
(* (a solo hold, a share of a team booking, a plain booking) is paid by at *)
(* most one transaction reference, and a reference pays for at most one    *)
(* thing.  "One attempt to pay for a booking.  Multiple rows can exist per *)
(* booking; only one can ever reach VERIFIED" (PaymentTransaction).        *)
(***************************************************************************)
CONSTANTS
    Target,       \* what is paid for
    Ref,          \* transaction references, as somebody may type them
    Canonical,    \* the bank's own spelling of each reference
    Unpaid        \* stands for "no reference"

VARIABLE paid     \* the reference that pays for each target

TypeOK == paid \in [Target -> Ref \union {Unpaid}]

Init == paid = [x \in Target |-> Unpaid]

\* A target is paid, with a reference that pays for nothing else.
Pay(x, p) ==
    /\ paid[x] = Unpaid
    /\ \A y \in Target : paid[y] # p
    /\ paid' = [paid EXCEPT ![x] = p]

\* The reference that pays for x is replaced by another spelling of itself.
Respell(x, p) ==
    /\ paid[x] # Unpaid
    /\ Canonical[p] = Canonical[paid[x]]
    /\ \A y \in Target : paid[y] # p
    /\ paid' = [paid EXCEPT ![x] = p]

\* The payment of x does not count any more.
Void(x) ==
    /\ paid[x] # Unpaid
    /\ paid' = [paid EXCEPT ![x] = Unpaid]

Next ==
    \E x \in Target :
        \/ \E p \in Ref : Pay(x, p) \/ Respell(x, p)
        \/ Void(x)

Spec == Init /\ [][Next]_paid

\* A reference pays once.
PaysOnce == \A x, y \in Target : paid[x] = paid[y] /\ paid[x] # Unpaid => x = y

================================================================================
