------------------------- MODULE CreditsLedger_proofs -------------------------
(***************************************************************************)
(* Proofs about CreditsLedger.  The balance alone is not inductive: what   *)
(* is already approved has to be counted against it.  The last request to  *)
(* be approved saw a balance that covered it, and every other approved     *)
(* request can take at most MaxPrice more.                                 *)
(***************************************************************************)
EXTENDS CreditsLedger, FiniteSetTheorems, TLAPS

\* The initial state has its types.
LEMMA InitType == Init => TypeOK
  BY LedgerAssumption DEF Init, TypeOK

\* A step of a request that is not about to debit keeps the types.
LEMMA ServeType ==
  ASSUME TypeOK, NEW c \in Clients, Serve(c), pc[c] # "approved"
  PROVE  TypeOK'
  BY LedgerAssumption
  DEF TypeOK, Serve, Request, ReadBalance, InsertDebit, ReadAgain, Finish, Goto

\* Every step keeps the types: debits are negated prices, credits amounts.
LEMMA NextType == TypeOK /\ [Next]_vars => TypeOK'
  <1> SUFFICES ASSUME TypeOK, [Next]_vars
               PROVE  TypeOK'
    OBVIOUS
  <1>1. ASSUME NEW c \in Clients, Serve(c), pc[c] = "approved"
        PROVE  TypeOK'
    <2>1. InsertDebit(c)
      BY <1>1 DEF Serve, Request, ReadBalance, ReadAgain, Finish
    <2>2. price[c] \in Nat
      BY LedgerAssumption DEF TypeOK
    <2> QED BY <2>1, <2>2 DEF InsertDebit, Goto, TypeOK
  <1>2. CASE Credit
    BY <1>2, LedgerAssumption DEF Credit, TypeOK
  <1>3. CASE UNCHANGED vars
    BY <1>3 DEF vars, TypeOK
  <1> QED BY <1>1, <1>2, <1>3, ServeType DEF Next

\* The ledger's sums and every request stay within their types, for any set
\* of clients, prices and amounts.
THEOREM TypeCorrect == Spec => []TypeOK
  BY InitType, NextType, PTL DEF Spec
------------------------------------------------------------------------------
Approved == {c \in Clients : pc[c] = "approved"}
Lowest == Floor - (Cardinality(Clients) - 1) * MaxPrice

\* What the balance will still be when every approved request has taken
\* MaxPrice - or, for one of them, its own price.
Covered(rest) == Balance - rest >= Lowest
OverdraftInv ==
    \/ Covered(Cardinality(Approved) * MaxPrice)
    \/ \E c \in Approved : Covered(price[c] + (Cardinality(Approved) - 1) * MaxPrice)

\* The approved requests are finitely many, like the clients.
LEMMA Finite ==
  /\ IsFiniteSet(Approved)
  /\ Cardinality(Approved) \in Nat
  /\ Cardinality(Clients) \in Nat
  /\ Cardinality(Clients) >= 1
  /\ Approved # {} => Cardinality(Approved) >= 1
  <1>1. Approved \subseteq Clients
    BY DEF Approved
  <1>2. IsFiniteSet(Approved)
    BY <1>1, LedgerAssumption, FS_Subset
  <1> QED BY <1>2, LedgerAssumption, FS_CardinalityType, FS_EmptySet

\* The invariant bounds the balance itself.
LEMMA OverdraftImplied ==
  ASSUME TypeOK, OverdraftInv
  PROVE  OverdraftBounded
  <1> DEFINE k == Cardinality(Approved)
             n == Cardinality(Clients)
  <1>1. k \in Nat /\ n \in Nat /\ MaxPrice \in Nat /\ Floor \in Int /\ Balance \in Int
    BY Finite, LedgerAssumption DEF TypeOK, Balance
  <1>2. \A i \in Nat : i * MaxPrice \in Nat
    BY <1>1
  <1>3. CASE Covered(k * MaxPrice)
    <2>1. k * MaxPrice \in Nat /\ Lowest \in Int
      BY <1>1, <1>2 DEF Lowest
    <2> QED BY <1>1, <1>3, <2>1 DEF Covered, OverdraftBounded, Lowest
  <1>4. ASSUME NEW c \in Approved, Covered(price[c] + (k - 1) * MaxPrice)
        PROVE  OverdraftBounded
    <2>1. k - 1 \in Nat
      BY <1>1, Finite
    <2>2. (k - 1) * MaxPrice \in Nat /\ Lowest \in Int
      BY <1>1, <1>2, <2>1 DEF Lowest
    <2>3. price[c] \in Nat
      BY <1>4, LedgerAssumption DEF TypeOK, Approved
    <2> QED BY <1>1, <1>4, <2>2, <2>3 DEF Covered, OverdraftBounded, Lowest
  <1> QED BY <1>3, <1>4 DEF OverdraftInv

\* An empty ledger covers the floor, and nothing is approved yet.
LEMMA OverdraftInit ==
  ASSUME Init
  PROVE  OverdraftInv
  <1>1. Approved = {} /\ Cardinality(Approved) = 0
    BY FS_EmptySet DEF Init, Approved
  <1> DEFINE n == Cardinality(Clients)
  <1>2. n - 1 \in Nat /\ MaxPrice \in Nat /\ Floor \in Int /\ Floor <= 0
    BY Finite, LedgerAssumption
  <1>3. (n - 1) * MaxPrice \in Nat
    BY <1>2
  <1>4. Balance = 0
    BY DEF Init, Balance
  <1>5. 0 * MaxPrice = 0
    BY <1>2
  <1> QED BY <1>1, <1>2, <1>3, <1>4, <1>5 DEF OverdraftInv, Covered, Lowest

\* A step that changes neither the balance nor what is approved, or raises
\* the balance.
LEMMA OverdraftFrame ==
  ASSUME TypeOK, TypeOK', OverdraftInv, Balance' >= Balance, Approved' = Approved,
         \A c \in Approved : price'[c] = price[c]
  PROVE  OverdraftInv'
  <1> DEFINE k == Cardinality(Approved)
  <1>1. Balance \in Int /\ Balance' \in Int /\ Lowest \in Int /\ k \in Nat /\ MaxPrice \in Nat
    BY Finite, LedgerAssumption DEF TypeOK, Balance, Lowest
  <1>2. k * MaxPrice \in Int /\ (k - 1) * MaxPrice \in Int
    BY <1>1
  <1>3. \A c \in Approved : price[c] \in Int
    BY LedgerAssumption DEF TypeOK, Approved
  <1>4. \A r \in Int : Covered(r) => Balance' - r >= Lowest
    BY <1>1 DEF Covered
  <1>5. Cardinality(Approved') = k
    OBVIOUS
  <1> QED BY <1>1, <1>2, <1>3, <1>4, <1>5 DEF OverdraftInv, Covered, Lowest

\* The request that is approved last has seen a balance that covers it.
LEMMA OverdraftApprove ==
  ASSUME TypeOK, NEW c \in Clients, pc[c] = "read", Balance - price[c] >= Floor,
         pc' = [pc EXCEPT ![c] = "approved"], Balance' = Balance, price' = price
  PROVE  OverdraftInv'
  <1> DEFINE k == Cardinality(Approved)
             n == Cardinality(Clients)
  <1>1. c \notin Approved /\ Approved' = Approved \union {c}
    BY DEF Approved, TypeOK
  <1>2. Cardinality(Approved') = k + 1
    BY <1>1, Finite, FS_AddElement
  <1>3. k + 1 <= n
    <2>1. Approved' \subseteq Clients
      BY <1>1 DEF Approved
    <2> QED BY <1>2, <2>1, LedgerAssumption, FS_Subset
  <1>4. /\ Balance \in Int /\ k \in Nat /\ n \in Nat /\ MaxPrice \in Nat
        /\ Floor \in Int /\ price[c] \in Nat
    BY Finite, LedgerAssumption DEF TypeOK, Balance
  <1>5. k * MaxPrice <= (n - 1) * MaxPrice
    <2>1. \A i, j \in Nat : i <= j => i * MaxPrice <= j * MaxPrice
      BY <1>4
    <2>2. n - 1 \in Nat /\ k <= n - 1
      BY <1>3, <1>4
    <2> QED BY <1>4, <2>1, <2>2
  <1>6. k * MaxPrice \in Int /\ (n - 1) * MaxPrice \in Int
    BY <1>4
  <1>7. Balance - (price[c] + k * MaxPrice) >= Lowest
    BY <1>4, <1>5, <1>6 DEF Lowest
  <1>8. (k + 1) - 1 = k
    BY <1>4
  <1>9. c \in Approved'
    BY <1>1
  <1>10. Balance' - (price'[c] + (Cardinality(Approved') - 1) * MaxPrice) >= Lowest
    BY <1>2, <1>7, <1>8
  <1> QED BY <1>9, <1>10 DEF OverdraftInv, Covered, Lowest

\* An insert takes the request out of the approved ones.
LEMMA OverdraftInsert ==
  ASSUME TypeOK, OverdraftInv, NEW c \in Approved, NEW p, p # "approved",
         pc' = [pc EXCEPT ![c] = p], price' = price,
         Balance' = Balance - price[c] \/ Balance' = Balance
  PROVE  OverdraftInv'
  <1> DEFINE k == Cardinality(Approved)
  <1>1. Approved' = Approved \ {c}
    BY DEF Approved, TypeOK
  <1>2. Cardinality(Approved') = k - 1
    BY <1>1, Finite, FS_RemoveElement
  <1>3. /\ Balance \in Int /\ k \in Nat /\ k - 1 \in Nat /\ MaxPrice \in Nat /\ Lowest \in Int
        /\ \A d \in Approved : price[d] \in 0..MaxPrice
    BY Finite, LedgerAssumption DEF TypeOK, Balance, Lowest, Approved
  <1>4. k * MaxPrice = (k - 1) * MaxPrice + MaxPrice
    BY <1>3
  <1>5. (k - 1) * MaxPrice = (k - 2) * MaxPrice + MaxPrice
    BY <1>3
  <1>6. (k - 1) * MaxPrice \in Int /\ (k - 2) * MaxPrice \in Int
    BY <1>3
  <1>7. Balance' >= Balance - price[c] /\ Balance' \in Int
    BY <1>3
  <1>8. CASE Covered(k * MaxPrice)
    <2>1. Balance' - (k - 1) * MaxPrice >= Lowest
      BY <1>3, <1>4, <1>6, <1>7, <1>8 DEF Covered
    <2> QED BY <1>2, <2>1 DEF OverdraftInv, Covered, Lowest
  <1>9. ASSUME NEW d \in Approved, Covered(price[d] + (k - 1) * MaxPrice)
        PROVE  OverdraftInv'
    <2>1. CASE d = c
      <3>1. Balance' - (k - 1) * MaxPrice >= Lowest
        BY <1>3, <1>6, <1>7, <1>9, <2>1 DEF Covered
      <3> QED BY <1>2, <3>1 DEF OverdraftInv, Covered, Lowest
    <2>2. CASE d # c
      <3>1. Balance' - (price[d] + (k - 2) * MaxPrice) >= Lowest
        BY <1>3, <1>5, <1>6, <1>7, <1>9 DEF Covered
      <3>2. (k - 1) - 1 = k - 2
        BY <1>3
      <3>3. d \in Approved'
        BY <1>1, <2>2
      <3>4. Balance' - (price'[d] + (Cardinality(Approved') - 1) * MaxPrice) >= Lowest
        BY <1>2, <3>1, <3>2
      <3> QED BY <3>3, <3>4 DEF OverdraftInv, Covered, Lowest
    <2> QED BY <2>1, <2>2
  <1> QED BY <1>8, <1>9 DEF OverdraftInv

\* Every step keeps the balance covered against what is approved.
LEMMA OverdraftNext == TypeOK /\ OverdraftInv /\ [Next]_vars => OverdraftInv'
  <1> SUFFICES ASSUME TypeOK, OverdraftInv, [Next]_vars
               PROVE  OverdraftInv'
    OBVIOUS
  <1>1. TypeOK'
    BY NextType
  <1>2. credited \in Int /\ debited \in Int
    BY LedgerAssumption DEF TypeOK
  <1>3. ASSUME NEW c \in Clients, Serve(c)
        PROVE  OverdraftInv'
    <2>1. CASE InsertDebit(c)
      <3>1. c \in Approved /\ price' = price
        BY <2>1 DEF InsertDebit, Approved
      <3>2. price[c] \in Int
        BY LedgerAssumption DEF TypeOK
      <3>3. PICK p \in {"debited", "failed"} : pc' = [pc EXCEPT ![c] = p]
        BY <2>1 DEF InsertDebit, Goto
      <3>4. Balance' = Balance - price[c] \/ Balance' = Balance
        BY <1>2, <2>1, <3>2 DEF InsertDebit, Balance
      <3> QED BY <3>1, <3>3, <3>4, OverdraftInsert
    <2>2. CASE ReadBalance(c)
      <3>1. price' = price /\ Balance' = Balance /\ pc[c] = "read"
        BY <2>2 DEF ReadBalance, Balance
      <3>2. Balance \in Int /\ price[c] \in Int /\ Floor \in Int
        BY <1>2, LedgerAssumption DEF TypeOK, Balance
      <3>3. CASE pc' = [pc EXCEPT ![c] = "approved"] /\ ~(Balance - price[c] < Floor)
        <4>1. Balance - price[c] >= Floor
          BY <3>2, <3>3
        <4> QED BY <3>1, <3>3, <4>1, OverdraftApprove
      <3>4. CASE \E p \in {"x402", "failed"} : pc' = [pc EXCEPT ![c] = p]
        <4>1. Approved' = Approved
          BY <3>1, <3>4 DEF Approved, TypeOK
        <4> QED BY <1>1, <3>1, <3>2, <4>1, OverdraftFrame
      <3> QED BY <2>2, <3>3, <3>4 DEF ReadBalance, Goto
    <2>3. CASE Request(c) \/ ReadAgain(c) \/ Finish(c)
      <3>1. Approved' = Approved /\ c \notin Approved
        BY <2>3 DEF Request, ReadAgain, Finish, Goto, Approved, TypeOK
      <3>2. \A d \in Clients : d # c => price'[d] = price[d]
        BY <2>3 DEF Request, ReadAgain, Finish, TypeOK
      <3>3. Balance' = Balance /\ Balance \in Int
        BY <1>2, <2>3 DEF Request, ReadAgain, Finish, Balance
      <3>4. \A d \in Approved : price'[d] = price[d]
        BY <3>1, <3>2 DEF Approved
      <3> QED BY <1>1, <3>1, <3>3, <3>4, OverdraftFrame
    <2> QED BY <1>3, <2>1, <2>2, <2>3 DEF Serve
  <1>4. CASE Credit
    <2>1. Approved' = Approved /\ price' = price
      BY <1>4 DEF Credit, Approved
    <2>2. Balance' >= Balance
      BY <1>2, <1>4, LedgerAssumption DEF Credit, Balance
    <2> QED BY <1>1, <2>1, <2>2, OverdraftFrame
  <1>5. CASE UNCHANGED vars
    <2>1. Approved' = Approved /\ price' = price /\ Balance' = Balance /\ Balance \in Int
      BY <1>2, <1>5 DEF vars, Approved, Balance
    <2> QED BY <1>1, <2>1, OverdraftFrame
  <1> QED BY <1>3, <1>4, <1>5 DEF Next

\* For any number of concurrent requests and any prices up to MaxPrice, the
\* account never falls further below its floor than the requests in flight
\* but one can take it; with one request at a time the floor itself holds.
THEOREM OverdraftBoundedCorrect == Spec => []OverdraftBounded
  <1>1. Spec => []TypeOK
    BY TypeCorrect
  <1>2. Init => OverdraftInv
    BY OverdraftInit
  <1>3. TypeOK /\ OverdraftInv => OverdraftBounded
    BY OverdraftImplied
  <1> QED BY <1>1, <1>2, <1>3, OverdraftNext, PTL DEF Spec
------------------------------------------------------------------------------
(* What has been debited and is not served yet.  A request whose debit      *)
(* landed holds one voucher for each credit of its price, so that sums over *)
(* requests become the size of a set.                                       *)

Voucher(c) == {c} \X (1..price[c])
Owed == {x \in Clients \X (1..MaxPrice) : pc[x[1]] = "debited" /\ x[2] <= price[x[1]]}
ServiceInv == served + Cardinality(Owed) <= debited

\* The pairs of one element with the numbers up to p are p many.
LEMMA Column ==
  ASSUME NEW c, NEW p \in Nat
  PROVE  IsFiniteSet({c} \X (1..p)) /\ Cardinality({c} \X (1..p)) = p
  <1>1. p \in Int /\ 1 \in Int
    OBVIOUS
  <1>2. IsFiniteSet(1..p) /\ Cardinality(1..p) = IF 1 > p THEN 0 ELSE p - 1 + 1
    BY <1>1, FS_Interval
  <1>3. Cardinality(1..p) = p
    BY <1>2
  <1>4. IsFiniteSet({c}) /\ Cardinality({c}) = 1
    BY FS_Singleton
  <1>5. /\ IsFiniteSet({c} \X (1..p))
        /\ Cardinality({c} \X (1..p)) = Cardinality({c}) * Cardinality(1..p)
    BY <1>2, <1>4, FS_Product
  <1> QED BY <1>3, <1>4, <1>5

\* There are finitely many vouchers.
LEMMA AllVouchers == IsFiniteSet(Clients \X (1..MaxPrice))
  <1>1. MaxPrice \in Int /\ 1 \in Int
    BY LedgerAssumption
  <1>2. IsFiniteSet(1..MaxPrice)
    BY <1>1, FS_Interval
  <1> QED BY <1>2, LedgerAssumption, FS_Product

\* A request holds as many vouchers as its price, and all of them are finite.
LEMMA Vouchers ==
  ASSUME TypeOK
  PROVE  /\ IsFiniteSet(Owed) /\ Cardinality(Owed) \in Nat
         /\ \A c \in Clients : /\ price[c] \in Nat
                               /\ IsFiniteSet(Voucher(c))
                               /\ Cardinality(Voucher(c)) = price[c]
  <1>1. IsFiniteSet(Owed) /\ Cardinality(Owed) \in Nat
    <2>1. Owed \subseteq Clients \X (1..MaxPrice)
      BY DEF Owed
    <2>2. IsFiniteSet(Owed)
      BY <2>1, AllVouchers, FS_Subset
    <2> QED BY <2>2, FS_CardinalityType
  <1>2. \A c \in Clients : price[c] \in Nat
    BY LedgerAssumption DEF TypeOK
  <1> QED BY <1>1, <1>2, Column DEF Voucher

\* The size of a set that splits in two.
LEMMA Split ==
  ASSUME NEW S, NEW T, IsFiniteSet(S), IsFiniteSet(T), S \cap T = {}
  PROVE  Cardinality(S \union T) = Cardinality(S) + Cardinality(T)
  <1>1. Cardinality(S) \in Nat /\ Cardinality(T) \in Nat /\ Cardinality({}) = 0
    BY FS_CardinalityType, FS_EmptySet
  <1>2. Cardinality(S \union T) = Cardinality(S) + Cardinality(T) - Cardinality(S \cap T)
    BY FS_Union
  <1>3. Cardinality(S \cap T) = 0
    BY <1>1
  <1>4. \A i, j \in Nat : i + j - 0 = i + j
    OBVIOUS
  <1> QED BY <1>1, <1>2, <1>3, <1>4

\* A step by which nobody comes to hold or gives up vouchers.
LEMMA ServiceFrame ==
  ASSUME TypeOK, ServiceInv, served' = served, debited' = debited,
         \A c \in Clients : /\ pc'[c] = "debited" <=> pc[c] = "debited"
                            /\ pc[c] = "debited" => price'[c] = price[c]
  PROVE  ServiceInv'
  <1>1. Owed' = Owed
    BY DEF Owed
  <1> QED BY <1>1 DEF ServiceInv

\* The step of a request keeps its vouchers covered by its debit.
LEMMA ServiceStep ==
  ASSUME TypeOK, ServiceInv, NEW c \in Clients, Serve(c)
  PROVE  ServiceInv'
  <1>1. /\ served \in Nat /\ debited \in Nat /\ Cardinality(Owed) \in Nat
        /\ price[c] \in Nat /\ IsFiniteSet(Voucher(c))
        /\ Cardinality(Voucher(c)) = price[c] /\ IsFiniteSet(Owed)
    BY Vouchers DEF TypeOK
  <1>2. IsFiniteSet(Owed') /\ Cardinality(Owed') \in Nat
    <2>1. Owed' \subseteq Clients \X (1..MaxPrice)
      BY DEF Owed
    <2>2. IsFiniteSet(Owed')
      BY <2>1, AllVouchers, FS_Subset
    <2> QED BY <2>2, FS_CardinalityType
  <1>3. pc \in [Clients -> {"idle", "read", "approved", "debited", "free", "x402", "failed"}]
        /\ price \in [Clients -> 0..MaxPrice] /\ MaxPrice \in Nat
    BY LedgerAssumption DEF TypeOK
  <1>4. CASE InsertDebit(c) /\ debited' = debited + price[c] /\ Goto(c, "debited")
    <2>1. price' = price /\ served' = served /\ pc[c] = "approved"
      BY <1>4 DEF InsertDebit
    <2>2. Owed' = Owed \union Voucher(c) /\ Owed \cap Voucher(c) = {}
      BY <1>3, <1>4, <2>1 DEF Owed, Voucher, Goto
    <2>3. Cardinality(Owed') = Cardinality(Owed) + price[c]
      BY <1>1, <2>2, Split
    <2>4. served + (Cardinality(Owed) + price[c]) <= debited + price[c]
      BY <1>1 DEF ServiceInv
    <2> QED BY <1>4, <2>1, <2>3, <2>4 DEF ServiceInv
  <1>5. CASE ReadAgain(c)
    <2>1. price' = price /\ debited' = debited /\ pc[c] = "debited"
      BY <1>5 DEF ReadAgain
    <2>2. PICK p \in {"free", "failed"} : pc' = [pc EXCEPT ![c] = p]
      BY <1>5 DEF ReadAgain, Goto
    <2>3. Owed = Owed' \union Voucher(c) /\ Owed' \cap Voucher(c) = {}
      BY <1>3, <2>1, <2>2 DEF Owed, Voucher
    <2>4. PICK k \in Nat : k = Cardinality(Owed')
      BY <1>2
    <2>5. Cardinality(Owed) = k + price[c]
      BY <1>1, <1>2, <2>3, <2>4, Split
    <2>6. served + k <= debited /\ (served + price[c]) + k <= debited
      BY <1>1, <2>5 DEF ServiceInv
    <2>7. served' = served \/ served' = served + price[c]
      BY <1>5 DEF ReadAgain
    <2> QED BY <2>1, <2>4, <2>6, <2>7 DEF ServiceInv
  <1>6. CASE \/ Request(c) \/ ReadBalance(c) \/ Finish(c)
             \/ InsertDebit(c) /\ UNCHANGED debited /\ Goto(c, "failed")
    <2>1. served' = served /\ debited' = debited
      BY <1>6 DEF Request, ReadBalance, Finish, InsertDebit
    <2>2. \A d \in Clients : /\ pc'[d] = "debited" <=> pc[d] = "debited"
                             /\ pc[d] = "debited" => price'[d] = price[d]
      BY <1>3, <1>6 DEF Request, ReadBalance, Finish, InsertDebit, Goto
    <2> QED BY <2>1, <2>2, ServiceFrame
  <1> QED BY <1>4, <1>5, <1>6 DEF Serve, InsertDebit

\* Every step keeps what was served and what is owed within the debits.
LEMMA ServiceNext == TypeOK /\ ServiceInv /\ [Next]_vars => ServiceInv'
  <1> SUFFICES ASSUME TypeOK, ServiceInv, [Next]_vars
               PROVE  ServiceInv'
    OBVIOUS
  <1>1. CASE Credit \/ UNCHANGED vars
    <2>1. served' = served /\ debited' = debited /\ pc' = pc /\ price' = price
      BY <1>1 DEF Credit, vars
    <2> QED BY <2>1, ServiceFrame
  <1> QED BY <1>1, ServiceStep DEF Next

\* Nothing is debited, owed or served in an empty ledger.
LEMMA ServiceInit == Init => ServiceInv
  <1> SUFFICES ASSUME Init PROVE ServiceInv
    OBVIOUS
  <1>1. Owed = {}
    BY DEF Owed, Init
  <1>2. Cardinality(Owed) = 0
    BY <1>1, FS_EmptySet
  <1> QED BY <1>2 DEF ServiceInv, Init

\* For any number of concurrent requests and whatever calls fail, the debits
\* cover all that was served around x402.
THEOREM ServiceIsDebitedCorrect == Spec => []ServiceIsDebited
  <1>1. TypeOK /\ ServiceInv => ServiceIsDebited
    <2> SUFFICES ASSUME TypeOK, ServiceInv PROVE ServiceIsDebited
      OBVIOUS
    <2>1. served \in Nat /\ debited \in Nat /\ Cardinality(Owed) \in Nat
      BY Vouchers DEF TypeOK
    <2> QED BY <2>1 DEF ServiceInv, ServiceIsDebited
  <1> QED BY <1>1, TypeCorrect, ServiceInit, ServiceNext, PTL DEF Spec
=============================================================================
