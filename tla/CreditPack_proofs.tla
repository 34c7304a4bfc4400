-------------------------- MODULE CreditPack_proofs --------------------------
(***************************************************************************)
(* Proofs about CreditPack: its type invariant (no balance is ever         *)
(* negative), that refusals stay true, that with the index on jti the pack *)
(* implements a Purse, and what a pack can lose without it.  Each needs to *)
(* know more than it says: that there is one document, that a call that    *)
(* missed keeps missing, and that no token is spent twice.                 *)
(***************************************************************************)
EXTENDS CreditPack, FiniteSetTheorems, TLAPS

\* The initial state has its types.
LEMMA InitType == Init => TypeOK
  BY PackAssumption DEF Init, TypeOK

\* Every step keeps the types: the update only takes what the filter saw.
LEMMA NextType == TypeOK /\ [Next]_vars => TypeOK'
  <1> SUFFICES ASSUME TypeOK, [Next]_vars
               PROVE  TypeOK'
    OBVIOUS
  <1> USE PackAssumption DEF TypeOK, Charged
  <1>1. ASSUME NEW b \in Buyers, Purchase(b)
        PROVE  TypeOK'
    <2>1. CASE Authorize(b)
      BY <2>1 DEF Authorize
    <2>2. CASE Store(b)
      BY <2>2 DEF Store
    <2>3. CASE StoreInsert(b)
      BY <2>3 DEF StoreInsert, Insert
    <2>4. CASE Answer(b)
      BY <2>4 DEF Answer
    <2>5. CASE LosePurchase(b)
      BY <2>5 DEF LosePurchase
    <2> QED BY <1>1, <2>1, <2>2, <2>3, <2>4, <2>5 DEF Purchase
  <1>2. ASSUME NEW c \in Calls, Spend(c)
        PROVE  TypeOK'
    <2>1. CASE Present(c)
      BY <2>1 DEF Present, Goto
    <2>2. CASE Decrement(c)
      <3>1. ASSUME NEW d \in docs, Covers(d, c),
                   remaining' = [remaining EXCEPT ![d] = @ - Cost[c]]
            PROVE  remaining' \in [Buyers -> 0..Total]
        <4>1. remaining[d] - Cost[c] \in 0..Total
          BY <3>1 DEF Covers
        <4> QED BY <3>1, <4>1
      <3> QED BY <2>2, <3>1 DEF Decrement, Goto
    <2>3. CASE Classify(c)
      BY <2>3 DEF Classify, Goto
    <2>4. CASE Serve(c)
      BY <2>4 DEF Serve, Goto
    <2>5. CASE LoseCall(c)
      BY <2>5 DEF LoseCall, Goto
    <2> QED BY <1>2, <2>1, <2>2, <2>3, <2>4, <2>5 DEF Spend
  <1>3. CASE Revoke
    BY <1>3 DEF Revoke
  <1>4. CASE UNCHANGED vars
    BY <1>4 DEF vars
  <1> QED BY <1>1, <1>2, <1>3, <1>4 DEF Next

\* The balance of a pack is never negative and never above its purchase,
\* for any set of calls and costs, with or without the index.
THEOREM TypeCorrect == Spec => []TypeOK
  BY InitType, NextType, PTL DEF Spec
------------------------------------------------------------------------------
(* With the index.                                                          *)

\* There is one document once a client can have a JWT, and a call that
\* missed will not be covered again: balances only fall, revocation stays.
PackInv ==
    /\ \A d, e \in docs : d = e
    /\ \A b \in Buyers : buyer[b] \in {"stored", "answered"} => docs # {}
    /\ \A c \in Calls : call[c] \notin {"idle", "rejected"} => docs # {}
    /\ \A c \in Calls : call[c] = "missed" => \A d \in docs : ~Covers(d, c)
    /\ RefusalsTruthful

\* Before the first purchase no call has a JWT to present.
LEMMA PackInvInit == Init => PackInv
  BY DEF Init, PackInv, RefusalsTruthful

\* How the stored state may change: the first document appears, a balance
\* falls, or a document is revoked.
DocsOnly ==
    \/ docs = {} /\ revoked' = revoked
    \/ /\ docs' = docs /\ revoked \subseteq revoked'
       /\ \A d \in docs : remaining'[d] <= remaining[d]

\* A miss, and what was said about it, survives every such change.
LEMMA MissStays ==
  ASSUME TypeOK, TypeOK', PackInv, DocsOnly,
         NEW c \in Calls, call[c] \notin {"idle", "rejected"}
  PROVE  /\ (\A d \in docs : ~Covers(d, c)) => (\A d \in docs' : ~Covers(d, c)')
         /\ (\A d \in docs : Cost[c] > remaining[d]) =>
                (\A d \in docs' : Cost[c] > remaining'[d])
  <1>1. docs # {}
    BY DEF PackInv
  <1>2. /\ docs' = docs /\ revoked \subseteq revoked'
        /\ \A d \in docs : remaining'[d] <= remaining[d]
    BY <1>1 DEF DocsOnly
  <1>3. \A d \in docs : remaining[d] \in Int /\ remaining'[d] \in Int /\ Cost[c] \in Int
    BY <1>2, PackAssumption DEF TypeOK
  <1> QED BY <1>2, <1>3 DEF Covers

\* With the index every step keeps the pack's invariant.
LEMMA PackInvNext == UniqueJti /\ TypeOK /\ PackInv /\ [Next]_vars => PackInv'
  <1> SUFFICES ASSUME UniqueJti, TypeOK, PackInv, [Next]_vars
               PROVE  PackInv'
    OBVIOUS
  <1>1. TypeOK'
    BY NextType
  <1>2. ASSUME NEW b \in Buyers, Purchase(b)
        PROVE  PackInv'
    <2>1. call' = call /\ revoked' = revoked
      BY <1>2 DEF Purchase, Authorize, Store, StoreInsert, Answer, LosePurchase
    <2>2. CASE docs' = docs /\ remaining' = remaining
      <3>1. \A a \in Buyers : buyer'[a] \in {"stored", "answered"} => docs # {}
        BY <1>2, <2>2 DEF Purchase, Authorize, Store, StoreInsert, Insert, Answer,
                      LosePurchase, PackInv, TypeOK
      <3> QED BY <2>1, <2>2, <3>1 DEF PackInv, RefusalsTruthful, Covers
    <2>3. CASE docs = {} /\ Insert(b)
      <3>1. docs' = {b}
        BY <2>3 DEF Insert
      <3>2. \A c \in Calls : call[c] \in {"idle", "rejected"}
        BY <2>3 DEF PackInv
      <3> QED BY <2>1, <3>1, <3>2 DEF PackInv, RefusalsTruthful
    <2> QED BY <1>2, <2>2, <2>3 DEF Purchase, Authorize, Store, StoreInsert, Answer,
                                    LosePurchase
  <1>3. ASSUME NEW c \in Calls, Spend(c)
        PROVE  PackInv'
    <2>1. docs' = docs /\ revoked' = revoked /\ buyer' = buyer
      BY <1>3 DEF Spend, Present, Decrement, Classify, Serve, LoseCall
    <2>2. \A d \in docs : remaining'[d] <= remaining[d]
      <3>1. \A d \in docs : remaining[d] \in Int /\ Cost[c] \in Nat
        BY PackAssumption DEF TypeOK
      <3> QED BY <1>3, <3>1 DEF Spend, Present, Decrement, Classify, Serve, LoseCall,
                               TypeOK
    <2>3. DocsOnly
      BY <2>1, <2>2 DEF DocsOnly
    <2>4. \A e \in Calls : e # c => call'[e] = call[e]
      BY <1>3 DEF Spend, Present, Decrement, Classify, Serve, LoseCall, Goto, TypeOK
    <2>5. call'[c] \notin {"idle", "rejected"} => docs # {}
      <3>1. call[c] = "idle" => call'[c] = "rejected" \/ docs # {}
        BY <1>3 DEF Spend, Present, Decrement, Classify, Serve, LoseCall, TokenKnown,
                    PackInv, Goto, TypeOK
      <3> QED BY <1>3, <3>1 DEF Spend, Present, Decrement, Classify, Serve, LoseCall,
                               PackInv
    <2>6. call'[c] = "missed" => \A d \in docs' : ~Covers(d, c)'
      <3>1. SUFFICES ASSUME call'[c] = "missed"
                     PROVE  \A d \in docs' : ~Covers(d, c)'
        OBVIOUS
      <3>2. remaining' = remaining /\ \A d \in docs : ~Covers(d, c)
        BY <1>3, <3>1 DEF Spend, Present, Decrement, Classify, Serve, LoseCall, Goto,
                          TypeOK
      <3> QED BY <2>1, <3>2 DEF Covers
    <2>7. /\ call'[c] = "exhausted" => \A d \in docs' : Cost[c] > remaining'[d]
          /\ call'[c] = "revoked" => revoked' # {}
          /\ call'[c] # "notFound"
      <3>1. CASE Classify(c)
        <4>1. PICK d \in docs : call' = [call EXCEPT ![c] =
                                   IF d \in revoked THEN "revoked" ELSE "exhausted"]
          BY <3>1 DEF Classify, Goto, PackInv
        <4>2. docs = {d}
          BY <4>1 DEF PackInv
        <4>3. ~Covers(d, c) /\ remaining' = remaining
          BY <3>1, <4>1 DEF Classify, PackInv
        <4>4. Cost[c] \in Nat /\ remaining[d] \in 0..Total
          <5>1. d \in Buyers
            BY <4>1 DEF TypeOK
          <5> QED BY <5>1, PackAssumption DEF TypeOK
        <4> QED BY <2>1, <4>1, <4>2, <4>3, <4>4, PackAssumption DEF Covers, TypeOK
      <3>2. CASE ~Classify(c)
        BY <1>3, <3>2 DEF Spend, Present, Decrement, Serve, LoseCall, Goto, TypeOK
      <3> QED BY <3>1, <3>2
    <2>8. \A e \in Calls : e # c =>
            /\ call'[e] = "missed" => \A d \in docs' : ~Covers(d, e)'
            /\ call'[e] = "exhausted" => \A d \in docs' : Cost[e] > remaining'[d]
      BY <1>1, <2>3, <2>4, MissStays DEF PackInv, RefusalsTruthful
    <2> QED BY <2>1, <2>4, <2>5, <2>6, <2>7, <2>8 DEF PackInv, RefusalsTruthful
  <1>4. CASE Revoke
    <2>1. DocsOnly
      <3>1. \A d \in docs : remaining[d] \in Int
        BY DEF TypeOK
      <3> QED BY <1>4, <3>1 DEF Revoke, DocsOnly
    <2>2. docs' = docs /\ buyer' = buyer /\ call' = call /\ revoked \subseteq revoked'
      BY <1>4 DEF Revoke
    <2>3. \A e \in Calls :
            /\ call'[e] = "missed" => \A d \in docs' : ~Covers(d, e)'
            /\ call'[e] = "exhausted" => \A d \in docs' : Cost[e] > remaining'[d]
      BY <1>1, <2>1, <2>2, MissStays DEF PackInv, RefusalsTruthful
    <2> QED BY <2>2, <2>3 DEF PackInv, RefusalsTruthful
  <1>5. CASE UNCHANGED vars
    BY <1>5 DEF vars, PackInv, RefusalsTruthful, Covers
  <1> QED BY <1>2, <1>3, <1>4, <1>5 DEF Next

\* With the index on jti, PackInv holds in every reachable state.
THEOREM PackCorrect ==
  ASSUME UniqueJti
  PROVE  Spec => []PackInv
  <1>1. Spec => []TypeOK
    BY TypeCorrect
  <1>2. TypeOK /\ PackInv /\ [Next]_vars => PackInv'
    BY PackInvNext
  <1> QED BY <1>1, <1>2, PackInvInit, PTL DEF Spec

\* A holder who is refused was refused for a reason that stays true.
THEOREM RefusalsTruthfulCorrect ==
  ASSUME UniqueJti
  PROVE  Spec => []RefusalsTruthful
  <1>1. PackInv => RefusalsTruthful
    BY DEF PackInv
  <1> QED BY <1>1, PackCorrect, PTL
------------------------------------------------------------------------------
(* The refinement.                                                          *)

\* A pack without a document is an unfunded Purse.
LEMMA PurseInit == Init => P!Init
  BY DEF Init, P!Init, Verdict, Charged

\* A step that leaves the documents alone and tells no call anything new
\* is a stutter of the Purse.
LEMMA PurseStutter ==
  ASSUME docs' = docs, remaining' = remaining, revoked' = revoked, Verdict' = Verdict
  PROVE  UNCHANGED P!vars
  BY DEF P!vars, Pack

\* What one call is told is what the Purse hears.
LEMMA VerdictStep ==
  ASSUME TypeOK, NEW c \in Calls, NEW p, Goto(c, p)
  PROVE  Verdict' = [Verdict EXCEPT ![c] =
                        IF p \in Charged THEN "paid"
                        ELSE IF p = "exhausted" THEN "short"
                        ELSE IF p = "revoked" THEN "closed" ELSE "none"]
  BY DEF Verdict, Goto, TypeOK

\* Every step of the pack is a step of the Purse or a stutter of it.
LEMMA PurseNext ==
  ASSUME UniqueJti, TypeOK, PackInv, [Next]_vars
  PROVE  [P!Next]_(P!vars)
  <1>1. ASSUME NEW b \in Buyers, Purchase(b)
        PROVE  [P!Next]_(P!vars)
    <2>1. Verdict' = Verdict /\ revoked' = revoked
      BY <1>1 DEF Purchase, Authorize, Store, StoreInsert, Answer, LosePurchase, Verdict
    <2>2. CASE docs' = docs /\ remaining' = remaining
      BY <2>1, <2>2, PurseStutter
    <2>3. CASE docs = {} /\ Insert(b)
      <3>1. docs' = {b} /\ Pack' = b /\ remaining'[b] = Total
        BY <2>3 DEF Insert, Pack, TypeOK
      <3>2. P!Fund
        BY <2>1, <2>3, <3>1 DEF P!Fund
      <3> QED BY <3>2 DEF P!Next
    <2> QED BY <1>1, <2>2, <2>3 DEF Purchase, Authorize, Store, StoreInsert, Answer,
                                    LosePurchase
  <1>2. ASSUME NEW c \in Calls, Spend(c)
        PROVE  [P!Next]_(P!vars)
    <2>1. docs' = docs /\ revoked' = revoked
      BY <1>2 DEF Spend, Present, Decrement, Classify, Serve, LoseCall
    <2>2. docs # {} => Pack \in docs /\ docs = {Pack} /\ Pack' = Pack
      BY <2>1 DEF PackInv, Pack
    <2>3. CASE Present(c)
      <3>1. Verdict' = Verdict
        BY <2>3, VerdictStep DEF Present, Charged, Verdict, TypeOK, Goto
      <3> QED BY <2>1, <2>3, <3>1, PurseStutter DEF Present
    <2>4. CASE Decrement(c)
      <3>1. CASE call' = [call EXCEPT ![c] = "charged"]
        <4>1. PICK d \in docs : /\ Covers(d, c)
                                /\ remaining' = [remaining EXCEPT ![d] = @ - Cost[c]]
          BY <2>4, <3>1 DEF Decrement, Goto, TypeOK
        <4>2. d = Pack
          BY <2>2, <4>1
        <4>3. Verdict' = [Verdict EXCEPT ![c] = "paid"]
          BY <3>1, VerdictStep DEF Goto, Charged
        <4>4. Verdict[c] = "none"
          BY <2>4 DEF Decrement, Verdict, Charged
        <4>5. revoked = {}
          BY <2>2, <4>1, <4>2 DEF Covers, TypeOK
        <4>6. remaining'[Pack] = remaining[Pack] - Cost[c]
          BY <4>1, <4>2 DEF TypeOK
        <4>7. P!Pay(c)
          BY <2>1, <2>2, <4>1, <4>2, <4>3, <4>4, <4>5, <4>6 DEF P!Pay, P!Tell, Covers
        <4> QED BY <4>7 DEF P!Next
      <3>2. CASE remaining' = remaining /\ call' = [call EXCEPT ![c] = "missed"]
        <4>1. Verdict' = Verdict
          BY <2>4, <3>2 DEF Decrement, Charged, Verdict, TypeOK
        <4> QED BY <2>1, <3>2, <4>1, PurseStutter
      <3> QED BY <2>4, <3>1, <3>2 DEF Decrement, Goto
    <2>5. CASE Classify(c)
      <3>1. Verdict[c] = "none" /\ remaining' = remaining
        BY <2>5 DEF Classify, Verdict, Charged
      <3>2. docs # {}
        BY <2>5 DEF Classify, PackInv
      <3>3. CASE call' = [call EXCEPT ![c] = "revoked"] /\ revoked # {}
        <4>1. Verdict' = [Verdict EXCEPT ![c] = "closed"]
          BY <3>3, VerdictStep DEF Goto, Charged
        <4>2. P!RefuseClosed(c)
          BY <2>1, <2>2, <3>1, <3>2, <3>3, <4>1 DEF P!RefuseClosed, P!Tell
        <4> QED BY <4>2 DEF P!Next
      <3>4. CASE call' = [call EXCEPT ![c] = "exhausted"]
        <4>1. Verdict' = [Verdict EXCEPT ![c] = "short"]
          BY <3>4, VerdictStep DEF Goto, Charged
        <4>2. TypeOK' /\ PackInv'
          BY NextType, PackInvNext
        <4>3. Cost[c] > remaining[Pack]
          BY <2>1, <2>2, <3>1, <3>2, <3>4, <4>2 DEF PackInv, RefusalsTruthful, TypeOK
        <4>4. P!RefuseShort(c)
          BY <2>1, <2>2, <3>1, <3>2, <4>1, <4>3 DEF P!RefuseShort, P!Tell
        <4> QED BY <4>4 DEF P!Next
      <3> QED BY <2>5, <3>2, <3>3, <3>4 DEF Classify, Goto
    <2>6. CASE Serve(c) \/ LoseCall(c)
      <3>1. Verdict' = Verdict /\ remaining' = remaining
        BY <2>6 DEF Serve, LoseCall, Goto, Charged, Verdict, TypeOK
      <3> QED BY <2>1, <3>1, PurseStutter
    <2> QED BY <1>2, <2>3, <2>4, <2>5, <2>6 DEF Spend
  <1>3. CASE Revoke
    <2>1. PICK d \in docs \ revoked : revoked' = revoked \union {d}
      BY <1>3 DEF Revoke
    <2>2. revoked = {}
      BY <2>1 DEF PackInv, TypeOK
    <2>3. docs' = docs /\ remaining' = remaining /\ Verdict' = Verdict
      BY <1>3 DEF Revoke, Verdict
    <2>4. Pack' = Pack
      BY <2>3 DEF Pack
    <2>5. P!Close
      BY <2>1, <2>2, <2>3, <2>4 DEF P!Close
    <2> QED BY <2>5 DEF P!Next
  <1>4. CASE UNCHANGED vars
    <2>1. Verdict' = Verdict
      BY <1>4 DEF vars, Verdict
    <2> QED BY <1>4, <2>1, PurseStutter DEF vars
  <1> QED BY <1>1, <1>2, <1>3, <1>4 DEF Next

\* With the index on jti a credit pack implements a Purse: retried purchases
\* fund it once, every charge is atomic and covered, and a refusal is the
\* purse's own, although the code takes two steps to make it.
THEOREM IsPurseCorrect ==
  ASSUME UniqueJti
  PROVE  Spec => IsPurse
  <1>1. Spec => []TypeOK
    BY TypeCorrect
  <1>2. Spec => []PackInv
    BY PackCorrect
  <1>3. TypeOK /\ PackInv /\ [Next]_vars => [P!Next]_(P!vars)
    BY PurseNext
  <1> QED BY <1>1, <1>2, <1>3, PurseInit, PTL DEF Spec, IsPurse, P!Spec
------------------------------------------------------------------------------
(* Spending.  What was charged and what is left make up the purchase.       *)

SpendInv ==
    /\ IsFiniteSet(Spent)
    /\ docs = {} => Spent = {}
    /\ \A d \in docs : Cardinality(Spent) + remaining[d] <= Total

\* Nothing has been charged at first.
LEMMA SpendInit == Init => SpendInv
  <1> SUFFICES ASSUME Init PROVE SpendInv
    OBVIOUS
  <1>1. Spent = {} /\ docs = {}
    BY DEF Init, Spent, Charged
  <1> QED BY <1>1, FS_EmptySet DEF SpendInv

\* One call's tokens are as many as it costs.
LEMMA CallTokens ==
  ASSUME NEW c, NEW n \in Nat
  PROVE  IsFiniteSet({c} \X (1..n)) /\ Cardinality({c} \X (1..n)) = n
  <1>1. n \in Int /\ 1 \in Int
    OBVIOUS
  <1>2. IsFiniteSet(1..n) /\ Cardinality(1..n) = IF 1 > n THEN 0 ELSE n - 1 + 1
    BY <1>1, FS_Interval
  <1>3. Cardinality(1..n) = n
    BY <1>2
  <1>4. IsFiniteSet({c}) /\ Cardinality({c}) = 1
    BY FS_Singleton
  <1>5. /\ IsFiniteSet({c} \X (1..n))
        /\ Cardinality({c} \X (1..n)) = Cardinality({c}) * Cardinality(1..n)
    BY <1>2, <1>4, FS_Product
  <1> QED BY <1>3, <1>4, <1>5

\* A call that is charged adds its tokens.
LEMMA SpentGrows ==
  ASSUME TypeOK, IsFiniteSet(Spent), NEW c \in Calls, call[c] \notin Charged,
         Goto(c, "charged")
  PROVE  IsFiniteSet(Spent') /\ Cardinality(Spent') = Cardinality(Spent) + Cost[c]
  <1> DEFINE mine == {c} \X (1..Cost[c])
             paying == {e \in Calls : call[e] \in Charged}
  <1>1. Cost[c] \in Nat
    BY PackAssumption
  <1>2. IsFiniteSet(mine) /\ Cardinality(mine) = Cost[c]
    BY <1>1, CallTokens
  <1>3. paying' = paying \union {c} /\ c \notin paying
    BY DEF Goto, TypeOK, Charged
  <1>4. Spent' = Spent \union mine
    BY <1>3 DEF Spent
  <1>5. Spent \cap mine = {}
    BY <1>3 DEF Spent
  <1>6. Cardinality(Spent \cap mine) = 0
    BY <1>5, FS_EmptySet
  <1>7. Cardinality(Spent) \in Nat
    BY FS_CardinalityType
  <1>8. /\ IsFiniteSet(Spent \union mine)
        /\ Cardinality(Spent \union mine) =
              Cardinality(Spent) + Cardinality(mine) - Cardinality(Spent \cap mine)
    BY <1>2, FS_Union
  <1>9. \A i, j \in Nat : i + j - 0 = i + j
    OBVIOUS
  <1> QED BY <1>1, <1>2, <1>4, <1>6, <1>7, <1>8, <1>9

\* With the index every step keeps the balance and the charges together.
LEMMA SpendNext ==
  ASSUME UniqueJti, TypeOK, PackInv, SpendInv, [Next]_vars
  PROVE  SpendInv'
  <1>1. \A d \in docs : remaining[d] \in Nat
    BY PackAssumption DEF TypeOK
  <1>2. Cardinality(Spent) \in Nat /\ Cardinality({}) = 0 /\ Total \in Nat
    BY FS_CardinalityType, FS_EmptySet, PackAssumption DEF SpendInv
  <1>3. ASSUME Spent' = Spent, docs' = docs, remaining' = remaining
        PROVE  SpendInv'
    BY <1>3 DEF SpendInv
  <1>4. ASSUME NEW b \in Buyers, Purchase(b)
        PROVE  SpendInv'
    <2>1. Spent' = Spent
      BY <1>4 DEF Purchase, Authorize, Store, StoreInsert, Answer, LosePurchase, Spent
    <2>2. CASE docs' = docs /\ remaining' = remaining
      BY <1>3, <2>1, <2>2
    <2>3. CASE docs = {} /\ Insert(b)
      <3>1. docs' = {b} /\ remaining'[b] = Total /\ Spent' = {}
        BY <2>1, <2>3 DEF Insert, TypeOK, SpendInv
      <3>2. 0 + Total <= Total
        BY <1>2
      <3> QED BY <1>2, <3>1, <3>2, FS_EmptySet DEF SpendInv
    <2> QED BY <1>4, <2>2, <2>3 DEF Purchase, Authorize, Store, StoreInsert, Answer,
                                    LosePurchase
  <1>5. ASSUME NEW c \in Calls, Spend(c)
        PROVE  SpendInv'
    <2>1. docs' = docs
      BY <1>5 DEF Spend, Present, Decrement, Classify, Serve, LoseCall
    <2>2. CASE \E d \in docs : /\ Decrement(c)
                               /\ Covers(d, c)
                               /\ remaining' = [remaining EXCEPT ![d] = @ - Cost[c]]
                               /\ Goto(c, "charged")
      <3>1. PICK d \in docs : /\ Covers(d, c)
                              /\ remaining' = [remaining EXCEPT ![d] = @ - Cost[c]]
                              /\ Goto(c, "charged")
        BY <2>2
      <3>2. docs = {d} /\ d \in Buyers
        BY <3>1 DEF PackInv, TypeOK
      <3>3. call[c] \notin Charged
        BY <2>2 DEF Decrement, Charged
      <3>4. IsFiniteSet(Spent') /\ Cardinality(Spent') = Cardinality(Spent) + Cost[c]
        BY <3>1, <3>3, SpentGrows DEF SpendInv
      <3>5. Cost[c] \in Nat /\ remaining'[d] = remaining[d] - Cost[c]
        BY <3>1, <3>2, PackAssumption DEF TypeOK
      <3>6. Cardinality(Spent) + remaining[d] <= Total
        BY DEF SpendInv
      <3>7. (Cardinality(Spent) + Cost[c]) + (remaining[d] - Cost[c]) <= Total
        BY <1>1, <1>2, <3>5, <3>6
      <3> QED BY <2>1, <3>2, <3>4, <3>5, <3>7 DEF SpendInv
    <2>3. ASSUME remaining' = remaining,
                 \A e \in Calls : call'[e] \in Charged <=> call[e] \in Charged
          PROVE  SpendInv'
      <3>1. Spent' = Spent
        BY <2>3 DEF Spent
      <3> QED BY <1>3, <2>1, <2>3, <3>1
    <2>4. CASE ~Decrement(c)
      BY <1>5, <2>3, <2>4 DEF Spend, Present, Classify, Serve, LoseCall, Goto, Charged,
                              TypeOK
    <2>5. CASE Decrement(c) /\ Goto(c, "missed") /\ UNCHANGED remaining
      BY <2>3, <2>5 DEF Decrement, Goto, Charged, TypeOK
    <2> QED BY <2>2, <2>4, <2>5 DEF Decrement
  <1>6. CASE Revoke \/ UNCHANGED vars
    BY <1>3, <1>6 DEF Revoke, vars, Spent
  <1> QED BY <1>4, <1>5, <1>6 DEF Next

\* With the index on jti the calls that are charged never cost more than one
\* purchase holds, for any calls, costs and replays of the purchase.
THEOREM NeverOverspentCorrect ==
  ASSUME UniqueJti
  PROVE  Spec => []NeverOverspent
  <1>1. TypeOK /\ SpendInv => NeverOverspent
    <2> SUFFICES ASSUME TypeOK, SpendInv PROVE NeverOverspent
      OBVIOUS
    <2>1. Cardinality(Spent) \in Nat /\ Total \in Nat /\ Cardinality({}) = 0
      BY FS_CardinalityType, FS_EmptySet, PackAssumption DEF SpendInv
    <2>2. ASSUME NEW d \in docs PROVE Cardinality(Spent) <= Total
      <3>1. remaining[d] \in Nat /\ Cardinality(Spent) + remaining[d] <= Total
        BY PackAssumption DEF TypeOK, SpendInv
      <3> QED BY <2>1, <3>1
    <2>3. CASE docs = {}
      BY <2>1, <2>3 DEF SpendInv, NeverOverspent
    <2> QED BY <2>2, <2>3 DEF NeverOverspent
  <1>2. TypeOK /\ PackInv /\ SpendInv /\ [Next]_vars => SpendInv'
    BY SpendNext
  <1> QED BY <1>1, <1>2, TypeCorrect, PackCorrect, SpendInit, PTL DEF Spec
------------------------------------------------------------------------------
(* Without the index.  Purchases that race may each insert a document, and  *)
(* every document is a balance; but a balance is only ever spent once.      *)

\* What the calls are charged is covered by the documents there are: a race
\* of purchases mints one pack for each document and not a token more.
OverspendBounded == IsFiniteSet(docs) /\ Cardinality(Spent) <= Total * Cardinality(docs)

\* The tokens left, numbered document by document.
Unspent == UNION {{d} \X (1..remaining[d]) : d \in docs}

MintInv ==
    /\ \A d \in docs : buyer[d] \in {"stored", "answered", "failed"}
    /\ IsFiniteSet(docs) /\ IsFiniteSet(Spent) /\ IsFiniteSet(Unspent)
    /\ Cardinality(Spent) + Cardinality(Unspent) = Total * Cardinality(docs)

\* Disjoint sets add up.
LEMMA AddUp ==
  ASSUME NEW A, NEW B, IsFiniteSet(A), IsFiniteSet(B), A \cap B = {}
  PROVE  /\ IsFiniteSet(A \union B)
         /\ Cardinality(A \union B) = Cardinality(A) + Cardinality(B)
         /\ Cardinality(A) \in Nat /\ Cardinality(B) \in Nat
  <1>1. /\ IsFiniteSet(A \union B)
        /\ Cardinality(A \union B) = Cardinality(A) + Cardinality(B) - Cardinality(A \cap B)
    BY FS_Union
  <1>2. Cardinality(A) \in Nat /\ Cardinality(B) \in Nat /\ Cardinality(A \cap B) = 0
    BY FS_CardinalityType, FS_EmptySet
  <1>3. \A i, j \in Nat : i + j - 0 = i + j
    OBVIOUS
  <1> QED BY <1>1, <1>2, <1>3

\* The tokens a call takes from a document, from the top.
LEMMA TakenTokens ==
  ASSUME NEW d, NEW k \in Nat, NEW n \in Nat, n <= k
  PROVE  /\ IsFiniteSet({d} \X ((k - n + 1)..k)) /\ Cardinality({d} \X ((k - n + 1)..k)) = n
  <1> DEFINE top == (k - n + 1)..k
  <1>1. k - n + 1 \in Int /\ k \in Int
    OBVIOUS
  <1>2. IsFiniteSet(top) /\ Cardinality(top) = IF k - n + 1 > k THEN 0 ELSE k - (k - n + 1) + 1
    BY <1>1, FS_Interval
  <1>3. Cardinality(top) = n
    BY <1>2
  <1>4. IsFiniteSet({d}) /\ Cardinality({d}) = 1
    BY FS_Singleton
  <1> HIDE DEF top
  <1>5. /\ IsFiniteSet({d} \X top)
        /\ Cardinality({d} \X top) = Cardinality({d}) * Cardinality(top)
    BY <1>2, <1>4, FS_Product
  <1>6. IsFiniteSet({d} \X top) /\ Cardinality({d} \X top) = n
    BY <1>3, <1>4, <1>5
  <1> QED BY <1>6 DEF top

\* A document that is inserted brings one pack.
LEMMA MintInsert ==
  ASSUME TypeOK, MintInv, NEW b \in Buyers, buyer[b] = "inserting", Insert(b), call' = call
  PROVE  MintInv'
  <1> DEFINE new == {b} \X (1..Total)
  <1>1. b \notin docs
    BY DEF MintInv
  <1>2. docs' = docs \union {b} /\ buyer' = [buyer EXCEPT ![b] = "stored"]
    BY DEF Insert
  <1>3. remaining'[b] = Total /\ \A d \in docs : remaining'[d] = remaining[d]
    BY <1>1 DEF Insert, TypeOK
  <1>4. Unspent' = Unspent \union new /\ Unspent \cap new = {}
    BY <1>1, <1>2, <1>3 DEF Unspent
  <1>5. IsFiniteSet(new) /\ Cardinality(new) = Total
    BY CallTokens, PackAssumption
  <1> HIDE DEF new
  <1>6. /\ IsFiniteSet(Unspent') /\ Cardinality(Unspent') = Cardinality(Unspent) + Total
        /\ Cardinality(Unspent) \in Nat
    BY <1>4, <1>5, AddUp DEF MintInv
  <1>7. /\ IsFiniteSet(docs') /\ Cardinality(docs') = Cardinality(docs) + 1
        /\ Cardinality(docs) \in Nat
    BY <1>1, <1>2, FS_AddElement, FS_CardinalityType DEF MintInv
  <1>8. Spent' = Spent /\ Cardinality(Spent) \in Nat
    BY FS_CardinalityType DEF Spent, MintInv
  <1>9. Total * (Cardinality(docs) + 1) = Total * Cardinality(docs) + Total
    <2>1. \A m, n \in Nat : m * (n + 1) = m * n + m
      OBVIOUS
    <2> QED BY <1>7, <2>1, PackAssumption
  <1>10. Cardinality(Spent) + Cardinality(Unspent) = Total * Cardinality(docs)
    BY DEF MintInv
  <1>11. Cardinality(Spent) + (Cardinality(Unspent) + Total) = Total * (Cardinality(docs) + 1)
    <2>1. \A m, n : \A i, j, t \in Nat : i + j = m /\ n = m + t => i + (j + t) = n
      OBVIOUS
    <2> QED BY <1>6, <1>8, <1>9, <1>10, <2>1, PackAssumption
  <1>12. \A d \in docs' : buyer'[d] \in {"stored", "answered", "failed"}
    BY <1>2 DEF MintInv, TypeOK
  <1> QED BY <1>6, <1>7, <1>8, <1>11, <1>12 DEF MintInv

\* A charge moves tokens from a document to a call.
LEMMA MintDecrement ==
  ASSUME TypeOK, MintInv, NEW c \in Calls, NEW d \in docs, call[c] = "verified",
         Covers(d, c), remaining' = [remaining EXCEPT ![d] = @ - Cost[c]],
         Goto(c, "charged"), docs' = docs, buyer' = buyer
  PROVE  MintInv'
  <1> DEFINE k == remaining[d]
             taken == {d} \X ((k - Cost[c] + 1)..k)
  <1>1. d \in Buyers /\ Cost[c] \in Nat /\ k \in Nat /\ Cost[c] <= k
    BY PackAssumption DEF TypeOK, Covers
  <1>2. remaining'[d] = k - Cost[c] /\ \A e \in docs : e # d => remaining'[e] = remaining[e]
    BY <1>1 DEF TypeOK
  <1>3. IsFiniteSet(taken) /\ Cardinality(taken) = Cost[c]
    <2> HIDE DEF k
    <2>1. \A n \in Nat : n <= k => /\ IsFiniteSet({d} \X ((k - n + 1)..k))
                                  /\ Cardinality({d} \X ((k - n + 1)..k)) = n
      BY <1>1, TakenTokens
    <2> QED BY <1>1, <2>1
  <1>4. 1..k = 1..(k - Cost[c]) \union ((k - Cost[c] + 1)..k)
    BY <1>1
  <1>5. 1..(k - Cost[c]) \cap ((k - Cost[c] + 1)..k) = {}
    BY <1>1
  <1>6. Unspent = Unspent' \union taken
    <2>1. \A e, i : <<e, i>> \in Unspent <=> <<e, i>> \in Unspent' \union taken
      BY <1>2, <1>4 DEF Unspent
    <2>2. \A x \in Unspent \union Unspent' \union taken : \E e, i : x = <<e, i>>
      BY DEF Unspent
    <2> QED BY <2>1, <2>2
  <1>7. Unspent' \cap taken = {}
    BY <1>2, <1>5 DEF Unspent
  <1> HIDE DEF taken, k
  <1>8. IsFiniteSet(Unspent')
    BY <1>6, FS_Subset DEF MintInv
  <1>9. /\ Cardinality(Unspent) = Cardinality(Unspent') + Cost[c]
        /\ Cardinality(Unspent') \in Nat
    BY <1>3, <1>6, <1>7, <1>8, AddUp
  <1>10. IsFiniteSet(Spent') /\ Cardinality(Spent') = Cardinality(Spent) + Cost[c]
    BY SpentGrows DEF MintInv, Charged
  <1>11. Cardinality(Spent) \in Nat
    BY FS_CardinalityType DEF MintInv
  <1>12. Cardinality(Spent') + Cardinality(Unspent') = Cardinality(Spent) + Cardinality(Unspent)
    BY <1>1, <1>9, <1>10, <1>11
  <1> QED BY <1>8, <1>10, <1>12 DEF MintInv

\* Every step keeps the tokens together, with or without the index.
LEMMA MintNext == TypeOK /\ MintInv /\ [Next]_vars => MintInv'
  <1> SUFFICES ASSUME TypeOK, MintInv, [Next]_vars PROVE MintInv'
    OBVIOUS
  <1>1. ASSUME docs' = docs, remaining' = remaining,
               \A c \in Calls : call'[c] \in Charged <=> call[c] \in Charged,
               \A d \in docs : buyer'[d] \in {"stored", "answered", "failed"}
        PROVE  MintInv'
    BY <1>1 DEF MintInv, Spent, Unspent
  <1>2. ASSUME NEW b \in Buyers, Purchase(b) PROVE MintInv'
    <2>1. call' = call
      BY <1>2 DEF Purchase, Authorize, Store, StoreInsert, Answer, LosePurchase
    <2>2. CASE buyer[b] = "inserting" /\ Insert(b)
      BY <2>1, <2>2, MintInsert
    <2>3. CASE docs' = docs /\ remaining' = remaining
      <3>1. \A d \in docs : buyer'[d] \in {"stored", "answered", "failed"}
        BY <1>2, <2>3 DEF Purchase, Authorize, Store, StoreInsert, Insert, Answer,
                          LosePurchase, MintInv, TypeOK
      <3> QED BY <1>1, <2>1, <2>3, <3>1
    <2> QED BY <1>2, <2>2, <2>3 DEF Purchase, Authorize, Store, StoreInsert, Answer,
                                    LosePurchase
  <1>3. ASSUME NEW c \in Calls, Spend(c) PROVE MintInv'
    <2>1. docs' = docs /\ buyer' = buyer
      BY <1>3 DEF Spend, Present, Decrement, Classify, Serve, LoseCall
    <2>2. ASSUME NEW d \in docs, call[c] = "verified", Covers(d, c), Goto(c, "charged"),
                 remaining' = [remaining EXCEPT ![d] = @ - Cost[c]]
          PROVE  MintInv'
      BY <2>1, <2>2, MintDecrement
    <2>3. ASSUME remaining' = remaining,
                 \A e \in Calls : call'[e] \in Charged <=> call[e] \in Charged
          PROVE  MintInv'
      BY <1>1, <2>1, <2>3 DEF MintInv
    <2>4. CASE ~Decrement(c)
      BY <1>3, <2>3, <2>4 DEF Spend, Present, Classify, Serve, LoseCall, Goto, Charged,
                              TypeOK
    <2>5. CASE Decrement(c) /\ Goto(c, "missed") /\ UNCHANGED remaining
      BY <2>3, <2>5 DEF Decrement, Goto, Charged, TypeOK
    <2> QED BY <2>2, <2>4, <2>5 DEF Decrement
  <1>4. CASE Revoke \/ UNCHANGED vars
    BY <1>1, <1>4 DEF Revoke, vars, MintInv
  <1> QED BY <1>2, <1>3, <1>4 DEF Next

\* Whether or not the index is there, the calls that are charged cost no more
\* than one pack for each document the purchases inserted: the loss that a
\* double mint can bring is what it minted.
THEOREM OverspendBoundedCorrect == Spec => []OverspendBounded
  <1>1. Init => MintInv
    <2> SUFFICES ASSUME Init PROVE MintInv
      OBVIOUS
    <2>1. docs = {} /\ Spent = {} /\ Unspent = {}
      BY DEF Init, Spent, Unspent, Charged
    <2>2. IsFiniteSet({}) /\ Cardinality({}) = 0 /\ 0 + 0 = Total * 0
      BY FS_EmptySet, PackAssumption
    <2> QED BY <2>1, <2>2 DEF MintInv
  <1>2. MintInv => OverspendBounded
    <2> SUFFICES ASSUME MintInv PROVE OverspendBounded
      OBVIOUS
    <2>1. /\ Cardinality(Spent) \in Nat /\ Cardinality(Unspent) \in Nat
          /\ Cardinality(docs) \in Nat
      BY FS_CardinalityType DEF MintInv
    <2>2. Total * Cardinality(docs) \in Nat
      BY <2>1, PackAssumption
    <2> QED BY <2>1, <2>2 DEF MintInv, OverspendBounded
  <1> QED BY <1>1, <1>2, TypeCorrect, MintNext, PTL DEF Spec
=============================================================================
