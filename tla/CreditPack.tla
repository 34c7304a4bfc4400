------------------------------ MODULE CreditPack ------------------------------
(***************************************************************************)
(* One credit pack of the skills API: the purchase that mints its JWT and  *)
(* stores its balance in Mongo, the skill calls that spend it, and the     *)
(* operator who revokes it.  All purchases here present the same X-PAYMENT *)
(* (a client that retries), so they share the jti of the settlement.       *)
(*                                                                         *)
(* Each Mongo operation is one step, but an upsert is two, find and        *)
(* insert: only a unique index on jti keeps two of them from inserting.    *)
(***************************************************************************)
EXTENDS Integers, FiniteSets

CONSTANTS
    Buyers,     \* POSTs of /skills/credit-pack with one X-PAYMENT
    Calls,      \* skill calls that carry the pack's JWT
    Cost,       \* skill_token_cost of the skill each call asks for
    Total,      \* total_tokens of the pack
    UniqueJti   \* the unique index on jti exists

ASSUME PackAssumption ==
    /\ Cost \in [Calls -> Nat]
    /\ Total \in Nat
    /\ UniqueJti \in BOOLEAN

VARIABLES
    buyer,      \* where each purchase is
    call,       \* where each skill call is
    docs,       \* documents with this jti, named by the purchase that inserted each
    remaining,  \* tokens_remaining of each document
    revoked     \* documents with revoked_at set

vars == <<buyer, call, docs, remaining, revoked>>

Init ==
    /\ buyer = [b \in Buyers |-> "idle"]
    /\ call = [c \in Calls |-> "idle"]
    /\ docs = {}
    /\ remaining = [b \in Buyers |-> 0]
    /\ revoked = {}

\* The client knows the JWT once a purchase has been answered.
TokenKnown == \E b \in Buyers : buyer[b] = "answered"
------------------------------------------------------------------------------
(* Purchase.                                                                *)

\* X402Dispatcher.authorize: the payment verifies (or was verified before),
\* or the answer is 402.
Authorize(b) ==
    /\ buyer[b] = "idle"
    /\ \E p \in {"authorized", "refused"} : buyer' = [buyer EXCEPT ![b] = p]
    /\ UNCHANGED <<call, docs, remaining, revoked>>

Insert(b) ==
    /\ docs' = docs \union {b}
    /\ remaining' = [remaining EXCEPT ![b] = Total]
    /\ buyer' = [buyer EXCEPT ![b] = "stored"]

\* Variant: an upsert with $set where $setOnInsert belongs.
StoreResets(b) ==
    /\ buyer[b] = "authorized"
    /\ buyer' = [buyer EXCEPT ![b] = IF docs = {} THEN "inserting" ELSE "stored"]
    /\ remaining' = [d \in Buyers |-> IF d \in docs THEN Total ELSE remaining[d]]
    /\ UNCHANGED <<call, docs, revoked>>

\* Variant: the JWT is returned before the pack is stored.
StoreSkipped(b) ==
    /\ buyer[b] = "authorized"
    /\ buyer' = [buyer EXCEPT ![b] = "stored"]
    /\ UNCHANGED <<call, docs, remaining, revoked>>

\* store_credit_pack: an upsert that leaves a document it finds alone ...
Store(b) ==
    /\ buyer[b] = "authorized"
    /\ buyer' = [buyer EXCEPT ![b] = IF docs = {} THEN "inserting" ELSE "stored"]
    /\ UNCHANGED <<call, docs, remaining, revoked>>

\* ... and inserts one if it found none.  The index turns a second insert
\* into an update that changes nothing.
StoreInsert(b) ==
    /\ buyer[b] = "inserting"
    /\ \/ /\ docs = {} \/ ~UniqueJti
          /\ Insert(b)
       \/ /\ docs # {} /\ UniqueJti
          /\ buyer' = [buyer EXCEPT ![b] = "stored"]
          /\ UNCHANGED <<docs, remaining>>
    /\ UNCHANGED <<call, revoked>>

Answer(b) ==
    /\ buyer[b] = "stored"
    /\ buyer' = [buyer EXCEPT ![b] = "answered"]
    /\ UNCHANGED <<call, docs, remaining, revoked>>

\* Mongo raises, the process dies or the reply is lost, before or after the
\* write: the client has no JWT and may post again.
LosePurchase(b) ==
    /\ buyer[b] \in {"authorized", "inserting", "stored"}
    /\ buyer' = [buyer EXCEPT ![b] = "failed"]
    /\ UNCHANGED <<call, docs, remaining, revoked>>
------------------------------------------------------------------------------
(* Spending.                                                                *)

Goto(c, p) == call' = [call EXCEPT ![c] = p]

\* verify_credit_token accepts the JWT, or finds it expired.
Present(c) ==
    /\ call[c] = "idle" /\ TokenKnown
    /\ \E p \in {"verified", "rejected"} : Goto(c, p)
    /\ UNCHANGED <<buyer, docs, remaining, revoked>>

\* Variant: the filter without tokens_remaining >= tokens_used.
CoversAnything(d, c) == d \notin revoked

\* The filter of the conditional update.
Covers(d, c) == d \notin revoked /\ Cost[c] <= remaining[d]

\* find_one_and_update: decrement a document the filter matches, or miss.
Decrement(c) ==
    /\ call[c] = "verified"
    /\ \/ \E d \in docs :
             /\ Covers(d, c)
             /\ remaining' = [remaining EXCEPT ![d] = @ - Cost[c]]
             /\ Goto(c, "charged")
       \/ /\ \A d \in docs : ~Covers(d, c)
          /\ Goto(c, "missed")
          /\ UNCHANGED remaining
    /\ UNCHANGED <<buyer, docs, revoked>>

\* Variant: a miss is reported as an empty pack without looking again.
ClassifyBlindly(c) ==
    /\ call[c] = "missed"
    /\ Goto(c, "exhausted")
    /\ UNCHANGED <<buyer, docs, remaining, revoked>>

\* The follow-up read that tells the client why the update missed.
Classify(c) ==
    /\ call[c] = "missed"
    /\ \/ docs = {} /\ Goto(c, "notFound")
       \/ \E d \in docs : Goto(c, IF d \in revoked THEN "revoked" ELSE "exhausted")
    /\ UNCHANGED <<buyer, docs, remaining, revoked>>

Serve(c) ==
    /\ call[c] = "charged"
    /\ Goto(c, "served")
    /\ UNCHANGED <<buyer, docs, remaining, revoked>>

\* Mongo raises, the process dies or the reply is lost.  A decrement that
\* landed is not refunded.
LoseCall(c) ==
    /\ \/ call[c] \in {"verified", "missed"} /\ Goto(c, "failed")
       \/ call[c] = "charged" /\ Goto(c, "burnt")
    /\ UNCHANGED <<buyer, docs, remaining, revoked>>

\* revoke_credit_pack, on one document that is not revoked.
Revoke ==
    /\ \E d \in docs \ revoked : revoked' = revoked \union {d}
    /\ UNCHANGED <<buyer, call, docs, remaining>>
------------------------------------------------------------------------------
Purchase(b) ==
    Authorize(b) \/ Store(b) \/ StoreInsert(b) \/ Answer(b) \/ LosePurchase(b)
Spend(c) ==
    Present(c) \/ Decrement(c) \/ Classify(c) \/ Serve(c) \/ LoseCall(c)

Next ==
    \/ \E b \in Buyers : Purchase(b)
    \/ \E c \in Calls : Spend(c)
    \/ Revoke

Spec == Init /\ [][Next]_vars
------------------------------------------------------------------------------
(* Properties.                                                              *)

Charged == {"charged", "served", "burnt"}

\* The values each variable ranges over; no balance is ever negative.
TypeOK ==
    /\ buyer \in [Buyers -> {"idle", "refused", "authorized", "inserting", "stored",
                             "answered", "failed"}]
    /\ call \in [Calls -> {"idle", "rejected", "verified", "missed", "notFound",
                           "revoked", "exhausted", "failed"} \union Charged]
    /\ docs \subseteq Buyers
    /\ remaining \in [Buyers -> 0..Total]
    /\ revoked \subseteq docs

\* What a client is told stays true, although the read that explains a miss
\* comes after it and other calls and the operator run in between: a pack
\* called exhausted cannot pay for that call, a pack called revoked is
\* revoked, and the holder of a JWT never hears that its pack does not exist.
RefusalsTruthful ==
    \A c \in Calls :
        /\ call[c] = "exhausted" => \A d \in docs : Cost[c] > remaining[d]
        /\ call[c] = "revoked" => revoked # {}
        /\ call[c] # "notFound"

\* The tokens of the calls that were charged, numbered call by call.
Spent == UNION {{c} \X (1..Cost[c]) : c \in {c \in Calls : call[c] \in Charged}}

\* The calls that were charged cost no more than the pack holds, however
\* purchases are repeated: a replayed purchase neither mints a second balance
\* nor refills the first ("we must not double-mint or reset the balance").
NeverOverspent == Cardinality(Spent) <= Total

\* The pack is a Purse: the two steps of a refused call and the retries of a
\* purchase look like the atomic steps of the abstract specification.
Pack == CHOOSE d \in docs : TRUE
Verdict ==
    [c \in Calls |->
        IF call[c] \in Charged THEN "paid"
        ELSE IF call[c] = "exhausted" THEN "short"
        ELSE IF call[c] = "revoked" THEN "closed" ELSE "none"]

P == INSTANCE Purse WITH
        funded <- docs # {},
        balance <- IF docs = {} THEN 0 ELSE remaining[Pack],
        closed <- revoked # {},
        verdict <- Verdict

IsPurse == P!Spec
=============================================================================
