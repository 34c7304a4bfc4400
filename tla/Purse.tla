-------------------------------- MODULE Purse --------------------------------
(***************************************************************************)
(* What a prepaid balance promises its holder: it is funded once, every    *)
(* call is paid for in one atomic step that the balance covers, a call is  *)
(* turned away only while the balance is too short for it or the purse is  *)
(* closed, and a call that was answered is never answered again.           *)
(***************************************************************************)
EXTENDS Integers

CONSTANTS Calls, Cost, Total

VARIABLES
    funded,   \* the purchase was recorded
    balance,
    closed,   \* an operator has revoked the purse
    verdict   \* what each call was told

vars == <<funded, balance, closed, verdict>>

Init ==
    /\ funded = FALSE
    /\ balance = 0
    /\ closed = FALSE
    /\ verdict = [c \in Calls |-> "none"]

Fund ==
    /\ ~funded
    /\ funded' = TRUE
    /\ balance' = Total
    /\ UNCHANGED <<closed, verdict>>

Tell(c, v) ==
    /\ verdict[c] = "none"
    /\ verdict' = [verdict EXCEPT ![c] = v]

Pay(c) ==
    /\ funded /\ ~closed
    /\ Cost[c] <= balance
    /\ balance' = balance - Cost[c]
    /\ Tell(c, "paid")
    /\ UNCHANGED <<funded, closed>>

RefuseShort(c) ==
    /\ funded
    /\ Cost[c] > balance
    /\ Tell(c, "short")
    /\ UNCHANGED <<funded, balance, closed>>

RefuseClosed(c) ==
    /\ closed
    /\ Tell(c, "closed")
    /\ UNCHANGED <<funded, balance, closed>>

Close ==
    /\ funded /\ ~closed
    /\ closed' = TRUE
    /\ UNCHANGED <<funded, balance, verdict>>

Next ==
    \/ Fund
    \/ \E c \in Calls : Pay(c) \/ RefuseShort(c) \/ RefuseClosed(c)
    \/ Close

Spec == Init /\ [][Next]_vars
=============================================================================
