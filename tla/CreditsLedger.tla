---------------------------- MODULE CreditsLedger ----------------------------
(***************************************************************************)
(* One account of the credits ledger (SupabaseCreditsLedger) behind the    *)
(* credits gate: clients that call paid routes at the same time, and the   *)
(* grants, top-ups and settlements that land in between.                   *)
(*                                                                         *)
(* The ledger is append-only and the balance is the sum of its rows, so    *)
(* debit is three awaits: sum the rows, insert one, sum them again.  A     *)
(* client sends its next request when the last one has ended.              *)
(***************************************************************************)
EXTENDS Integers, FiniteSets

CONSTANTS
    Clients,     \* requests of the account that may be in flight together
    Prices,      \* price_credits of the paid routes
    MaxPrice,
    Floor,       \* tab_floor: how negative the account may go
    Amounts,     \* amounts of grant, comp, topup and settle
    MaxCredits   \* bound: credits that are ever added

ASSUME LedgerAssumption ==
    /\ IsFiniteSet(Clients) /\ Clients # {}
    /\ MaxPrice \in Nat
    /\ Prices \subseteq 0..MaxPrice
    /\ Floor \in Int /\ Floor <= 0
    /\ Amounts \subseteq Nat
    /\ MaxCredits \in Nat

VARIABLES
    credited,   \* sum of the grant, comp, topup and settle rows
    debited,    \* sum of the debit rows, without their sign
    pc,         \* where each client's request is
    price,      \* price of the route it asks for
    served      \* prices of the requests served without x402

vars == <<credited, debited, pc, price, served>>

Balance == credited - debited

Init ==
    /\ credited = 0
    /\ debited = 0
    /\ pc = [c \in Clients |-> "idle"]
    /\ price = [c \in Clients |-> 0]
    /\ served = 0

Goto(c, p) == pc' = [pc EXCEPT ![c] = p]
------------------------------------------------------------------------------
\* grant, comp, topup and settle: one row with a positive amount.
Credit ==
    /\ \E a \in Amounts :
          /\ credited + a <= MaxCredits
          /\ credited' = credited + a
    /\ UNCHANGED <<debited, pc, price, served>>

\* A session user asks for a paid route (any other request goes straight to
\* x402 and does not come near the ledger).
Request(c) ==
    /\ pc[c] = "idle"
    /\ \E p \in Prices : price' = [price EXCEPT ![c] = p]
    /\ Goto(c, "read")
    /\ UNCHANGED <<credited, debited, served>>

\* Variant: the balance is compared with the floor before the price is taken.
ReadBalanceLoosely(c) ==
    /\ pc[c] = "read"
    /\ Goto(c, IF Balance < Floor THEN "x402" ELSE "approved")
    /\ UNCHANGED <<credited, debited, price, served>>

\* debit compares the balance it reads with the floor, or the read raises.
ReadBalance(c) ==
    /\ pc[c] = "read"
    /\ \/ Goto(c, IF Balance - price[c] < Floor THEN "x402" ELSE "approved")
       \/ Goto(c, "failed")
    /\ UNCHANGED <<credited, debited, price, served>>

\* Variant: a failed insert is taken for a debit.
InsertDebitSwallowed(c) ==
    /\ pc[c] = "approved"
    /\ \/ debited' = debited + price[c]
       \/ UNCHANGED debited
    /\ Goto(c, "debited")
    /\ UNCHANGED <<credited, price, served>>

\* Variant: a debit row that keeps the positive sign.
InsertDebitUnsigned(c) ==
    /\ pc[c] = "approved"
    /\ debited' = debited - price[c]
    /\ Goto(c, "debited")
    /\ UNCHANGED <<credited, price, served>>

\* The insert lands, or it raises.
InsertDebit(c) ==
    /\ pc[c] = "approved"
    /\ \/ debited' = debited + price[c] /\ Goto(c, "debited")
       \/ UNCHANGED debited /\ Goto(c, "failed")
    /\ UNCHANGED <<credited, price, served>>

\* _add sums the rows again for its return value.  If that read raises, the
\* request fails and the debit row stays.
ReadAgain(c) ==
    /\ pc[c] = "debited"
    /\ \/ Goto(c, "free") /\ served' = served + price[c]
       \/ Goto(c, "failed") /\ UNCHANGED served
    /\ UNCHANGED <<credited, debited, price>>

\* The request has been served, handed to x402 or answered 500.
Finish(c) ==
    /\ pc[c] \in {"free", "x402", "failed"}
    /\ Goto(c, "idle")
    /\ price' = [price EXCEPT ![c] = 0]
    /\ UNCHANGED <<credited, debited, served>>
------------------------------------------------------------------------------
Serve(c) ==
    Request(c) \/ ReadBalance(c) \/ InsertDebit(c) \/ ReadAgain(c) \/ Finish(c)

Next == Credit \/ \E c \in Clients : Serve(c)

Spec == Init /\ [][Next]_vars
------------------------------------------------------------------------------
(* Properties.                                                              *)

\* The values each variable ranges over.
TypeOK ==
    /\ credited \in 0..MaxCredits
    /\ debited \in Nat
    /\ pc \in [Clients -> {"idle", "read", "approved", "debited", "free", "x402", "failed"}]
    /\ price \in [Clients -> 0..MaxPrice]
    /\ served \in Nat

\* However the awaits of concurrent debits interleave, an account falls at
\* most one call's price below its floor for each other request in flight,
\* so a client that sends one request at a time never falls below it.
OverdraftBounded ==
    Balance >= Floor - (Cardinality(Clients) - 1) * MaxPrice

\* Nothing is served around x402 that was not debited: what the ledger has
\* taken covers the free service and the requests about to get it.
ServiceIsDebited == served <= debited
=============================================================================
