------------------------ MODULE ProjectBudget_proofs ------------------------
(***************************************************************************)
(* Proofs about the budget and the wallet of a project, for any number of  *)
(* requests, any cap and prices, and any number of faults.                 *)
(***************************************************************************)
EXTENDS ProjectBudget, FiniteSetTheorems, TLAPS

\* The initial state has its types.
LEMMA InitType == Init => TypeOK
<1> SUFFICES ASSUME Init PROVE TypeOK
  OBVIOUS
<1>1. /\ at \in [Requests -> {"idle", "wallet"}] /\ hand = [r \in Requests |-> 0]
      /\ wallet = 0 /\ made = 0 /\ shown = 0 /\ deleted = FALSE /\ spent = 0
      /\ extra = 0 /\ glitches = 0 /\ mishaps = 0 /\ crashes = 0
  BY DEF Init
<1>2. \A r \in Requests : at[r] \notin {"bind", "run", "charge"}
  BY <1>1
<1>3. at \in [Requests -> {"idle", "wallet", "create", "again", "bind", "run", "charge", "over"}]
  BY <1>1
<1>4. MaxWallets \in Nat /\ MaxExtra \in Nat /\ MaxGlitches \in Nat /\ MaxMishaps \in Nat /\ MaxCrashes \in Nat
  BY BudgetAssumption
<1>5. \A r \in Requests : hand[r] = 0
  BY <1>1
<1>6. hand \in [Requests -> 0..made]
  BY <1>1
<1>7. \A r \in Requests : at[r] = "bind" <=> hand[r] # 0
  BY <1>2, <1>5
<1>8. \A r \in Requests : at[r] \in {"run", "charge"} => r # creator
  BY <1>2
<1>9. made \in 0..MaxWallets /\ wallet \in 0..made /\ shown \in 0..made
      /\ extra \in 0..MaxExtra /\ glitches \in 0..MaxGlitches
      /\ mishaps \in 0..MaxMishaps /\ crashes \in 0..MaxCrashes
  BY <1>1, <1>4
<1> QED
  BY <1>1, <1>3, <1>6, <1>7, <1>8, <1>9 DEF TypeOK

\* Every step keeps the types.
LEMMA NextType == TypeOK /\ [Next]_vars => TypeOK'
<1> SUFFICES ASSUME TypeOK, [Next]_vars PROVE TypeOK'
  OBVIOUS
<1> USE BudgetAssumption DEF TypeOK, Goto, requests, purse, faults
<1>1. CASE UNCHANGED vars
  BY <1>1 DEF vars
<1>2. ASSUME NEW r \in Requests, Check(r) PROVE TypeOK'
  <2>1. glitches' \in 0..MaxGlitches /\ r # creator
    BY <1>2 DEF Check
  <2> QED
    BY <1>2, <2>1 DEF Check
<1>3. ASSUME NEW r \in Requests, Look(r) PROVE TypeOK'
  BY <1>3 DEF Look, Ensured
<1>4. ASSUME NEW r \in Requests, Create(r) PROVE TypeOK'
  <2>1. /\ at[r] = "create" /\ hand[r] = 0
        /\ mishaps' \in 0..MaxMishaps /\ made' \in 0..MaxWallets /\ made <= made'
        /\ UNCHANGED <<wallet, deleted, spent, extra, glitches, crashes>>
    BY <1>4 DEF Create, Mishap
  <2>2. wallet' \in 0..made' /\ hand \in [Requests -> 0..made'] /\ shown \in 0..made'
    BY <2>1
  <2>3. CASE made' = made + 1 /\ hand' = [hand EXCEPT ![r] = made'] /\ Goto(r, "bind")
             /\ UNCHANGED shown
    <3>1. hand' \in [Requests -> 0..made'] /\ made' # 0
      BY <2>1, <2>2, <2>3
    <3> QED
      BY <2>1, <2>2, <2>3, <3>1
  <2>4. CASE Goto(r, "again") /\ UNCHANGED <<hand, shown>>
    BY <2>1, <2>2, <2>4
  <2>5. CASE Ensured(r, 0)
    <3>1. hand' \in [Requests -> 0..made'] /\ shown' \in 0..made'
      BY <2>1, <2>2, <2>5 DEF Ensured
    <3> QED
      BY <2>1, <2>2, <2>5, <3>1 DEF Ensured
  <2> QED
    BY <1>4, <2>3, <2>4, <2>5 DEF Create
<1>5. ASSUME NEW r \in Requests, Again(r) PROVE TypeOK'
  BY <1>5 DEF Again, Ensured
<1>6. ASSUME NEW r \in Requests, Bind(r) PROVE TypeOK'
  <2>1. mishaps' \in 0..MaxMishaps /\ hand[r] \in 0..made /\ wallet' \in 0..made
    BY <1>6 DEF Bind, Mishap
  <2> QED
    BY <1>6, <2>1 DEF Bind, Ensured
<1>7. ASSUME NEW r \in Requests, Begin(r) PROVE TypeOK'
  BY <1>7 DEF Begin
<1>8. ASSUME NEW r \in Requests, Work(r) PROVE TypeOK'
  BY <1>8 DEF Work
<1>9. ASSUME NEW r \in Requests, Charge(r) PROVE TypeOK'
  <2>1. r \in Paid \union Free
    BY <1>9 DEF Charge, Requests
  <2>2. spent' \in Nat /\ extra' \in 0..MaxExtra
    BY <1>9, <2>1 DEF Charge
  <2> QED
    BY <1>9, <2>2 DEF Charge
<1>10. CASE Delete
  BY <1>10 DEF Delete
<1>11. CASE Crash
  <2>1. crashes' \in 0..MaxCrashes
    BY <1>11 DEF Crash
  <2> QED
    BY <1>11, <2>1 DEF Crash
<1> QED
  BY <1>1, <1>2, <1>3, <1>4, <1>5, <1>6, <1>7, <1>8, <1>9, <1>10, <1>11 DEF Next

\* Every variable keeps its values.
THEOREM BudgetTyped == Spec => []TypeOK
<1> QED
  BY InitType, NextType, PTL DEF Spec
------------------------------------------------------------------------------
(* The wallet.                                                              *)

\* A wallet that is bound gives way only to a second one, and to a request
\* that had found the row empty; no request sets out to replace it.
THEOREM WalletKeptHolds == Spec => WalletKept
<1> DEFINE Keeps == /\ Provisioning' \subseteq Provisioning
                    /\ wallet' # wallet =>
                          made > 1 /\ \E r \in Provisioning : hand[r] = wallet'
<1>1. TypeOK /\ [Next]_vars => [wallet # 0 => Keeps]_vars
  <2> SUFFICES ASSUME TypeOK, Next, wallet # 0 PROVE Keeps
    BY DEF vars, purse
  <2> USE DEF TypeOK, Provisioning, Goto, Ensured, purse, requests
  <2>1. ASSUME NEW r \in Requests, Bind(r) PROVE Keeps
    <3>1. Provisioning' \subseteq Provisioning
      BY <2>1 DEF Bind
    <3>2. wallet' \in {wallet, hand[r]} /\ r \in Provisioning
      BY <2>1 DEF Bind
    <3>3. hand[r] # wallet => made > 1
      BY <2>1 DEF Bind
    <3> QED
      BY <3>1, <3>2, <3>3
  <2>2. ASSUME NEW r \in Requests,
               Check(r) \/ Look(r) \/ Again(r) \/ Begin(r) \/ Work(r) \/ Charge(r)
        PROVE  Keeps
    <3>1. /\ wallet' = wallet /\ at'[r] \notin {"create", "bind"}
          /\ \A q \in Requests \ {r} : at'[q] = at[q]
      BY <2>2 DEF Check, Look, Again, Begin, Work, Charge
    <3> QED
      BY <3>1
  <2>3. ASSUME NEW r \in Requests, Create(r) PROVE Keeps
    BY <2>3 DEF Create
  <2>4. CASE Delete \/ Crash
    BY <2>4 DEF Delete, Crash
  <2> QED
    BY <2>1, <2>2, <2>3, <2>4 DEF Next
<1> QED
  BY <1>1, BudgetTyped, PTL DEF Spec, WalletKept

\* The address the creator was shown is the project's, or was until a second
\* wallet took its place.
THEOREM AddressHolds == Spec => []AddressTruthful
<1>1. Init => AddressTruthful
  BY DEF Init, AddressTruthful
<1>2. TypeOK /\ AddressTruthful /\ [Next]_vars => AddressTruthful'
  <2> SUFFICES ASSUME TypeOK, AddressTruthful, [Next]_vars PROVE AddressTruthful'
    OBVIOUS
  <2> USE DEF AddressTruthful, TypeOK, Ensured, purse
  <2>1. CASE UNCHANGED vars
    BY <2>1 DEF vars
  <2>2. ASSUME NEW r \in Requests, Look(r) \/ Again(r) PROVE AddressTruthful'
    BY <2>2 DEF Look, Again
  <2>3. ASSUME NEW r \in Requests, Create(r) PROVE AddressTruthful'
    <3>1. wallet' = wallet /\ (shown' = shown \/ shown' = 0)
      BY <2>3 DEF Create
    <3>2. made \in Nat /\ made' \in Nat /\ made <= made'
      BY <2>3, BudgetAssumption DEF Create
    <3> QED
      BY <3>1, <3>2
  <2>4. ASSUME NEW r \in Requests, Bind(r) PROVE AddressTruthful'
    <3>1. hand[r] \in 1..made /\ made' = made /\ shown \in 0..made /\ wallet \in 0..made
      BY <2>4 DEF Bind
    <3>2. wallet' = hand[r] \/ wallet' = wallet
      BY <2>4 DEF Bind
    <3>3. shown' = shown \/ shown' = 0 \/ (shown' = hand[r] /\ wallet' = hand[r])
      BY <2>4 DEF Bind
    <3> QED
      BY <3>1, <3>2, <3>3
  <2>5. ASSUME NEW r \in Requests, Check(r) \/ Begin(r) \/ Work(r) \/ Charge(r)
        PROVE  AddressTruthful'
    BY <2>5 DEF Check, Begin, Work, Charge
  <2>6. CASE Delete \/ Crash
    BY <2>6 DEF Delete, Crash
  <2> QED
    BY <2>1, <2>2, <2>3, <2>4, <2>5, <2>6 DEF Next
<1> QED
  BY <1>1, <1>2, BudgetTyped, PTL DEF Spec

\* A wallet that exists at the provider is the project's, or about to be,
\* unless a call failed or the process died.
THEOREM WalletFoundHolds == Spec => []WalletFound
<1>1. Init => WalletFound
  BY DEF Init, WalletFound
<1>2. TypeOK /\ WalletFound /\ [Next]_vars => WalletFound'
  <2> SUFFICES ASSUME TypeOK, WalletFound, [Next]_vars PROVE WalletFound'
    OBVIOUS
  <2> USE DEF WalletFound, TypeOK, Ensured, Goto, purse, faults, requests
  <2>1. CASE UNCHANGED vars
    BY <2>1 DEF vars
  <2>2. ASSUME NEW r \in Requests, Look(r) \/ Again(r) PROVE WalletFound'
    BY <2>2 DEF Look, Again
  <2>3. ASSUME NEW r \in Requests, Create(r) PROVE WalletFound'
    <3>1. CASE Goto(r, "bind")
      BY <3>1
    <3>2. CASE (Goto(r, "again") \/ Ensured(r, 0)) /\ UNCHANGED <<made, mishaps>>
      BY <2>3, <3>2 DEF Create
    <3>3. CASE Mishap
      BY <3>3 DEF Mishap
    <3> QED
      BY <2>3, <3>1, <3>2, <3>3 DEF Create
  <2>4. ASSUME NEW r \in Requests, Bind(r) PROVE WalletFound'
    BY <2>4 DEF Bind, Mishap
  <2>5. ASSUME NEW r \in Requests, Check(r) \/ Begin(r) \/ Work(r) \/ Charge(r)
        PROVE  WalletFound'
    BY <2>5 DEF Check, Begin, Work, Charge
  <2>6. CASE Delete
    BY <2>6 DEF Delete
  <2>7. CASE Crash
    BY <2>7 DEF Crash
  <2> QED
    BY <2>1, <2>2, <2>3, <2>4, <2>5, <2>6, <2>7 DEF Next
<1> QED
  BY <1>1, <1>2, BudgetTyped, PTL DEF Spec
------------------------------------------------------------------------------
(* The budget.                                                              *)

\* The paid requests that passed the check and may still be charged: none,
\* once the project is deleted.
InFlight == {r \in Paid : at[r] # "idle" /\ ~deleted}

\* The inductive form of BudgetHeld: the requests in flight are as good as
\* charged.
BudgetInv ==
    spent + MaxPrice * Cardinality(InFlight)
        <= Cap - 1 + MaxPrice * (Cardinality(Paid) + glitches + extra)

\* The requests in flight are finitely many, and no more than all paid ones.
LEMMA FlightFinite ==
    /\ IsFiniteSet(InFlight) /\ Cardinality(InFlight) \in Nat /\ Cardinality(Paid) \in Nat
    /\ Cardinality(InFlight) <= Cardinality(Paid)
<1>1. InFlight \subseteq Paid
  BY DEF InFlight
<1> QED
  BY <1>1, BudgetAssumption, FS_Subset, FS_CardinalityType

\* A product grows with its second factor.
LEMMA Times ==
    ASSUME NEW m \in Nat, NEW a \in Int, NEW b \in Int, a <= b
    PROVE  m * a <= m * b /\ m * a \in Int /\ m * b \in Int
OBVIOUS

\* Steps that neither charge nor pass the check keep the bound.
LEMMA BudgetQuiet ==
    ASSUME TypeOK, BudgetInv, InFlight' \subseteq InFlight, UNCHANGED <<spent, glitches, extra>>
    PROVE  BudgetInv'
<1> DEFINE n == Cardinality(InFlight)
           m == Cardinality(InFlight')
           room == MaxPrice * (Cardinality(Paid) + glitches + extra)
<1>1. n \in Nat /\ m \in Nat /\ m <= n
  BY FlightFinite, FS_Subset, FS_CardinalityType
<1>2. MaxPrice * m <= MaxPrice * n /\ MaxPrice * m \in Int /\ MaxPrice * n \in Int
  BY <1>1, Times, BudgetAssumption
<1>3. room \in Int /\ spent \in Int /\ Cap \in Int
  BY FlightFinite, BudgetAssumption DEF TypeOK
<1>4. spent + MaxPrice * n <= Cap - 1 + room
  BY DEF BudgetInv
<1> HIDE DEF n, m, room
<1>5. spent + MaxPrice * m <= Cap - 1 + room
  BY <1>2, <1>3, <1>4
<1> QED
  BY <1>5 DEF BudgetInv, m, room

\* A request passes the check while the project is below its cap, or deleted,
\* or where the check failed, which is counted.
LEMMA BudgetCheck ==
    ASSUME TypeOK, BudgetInv, NEW r \in Requests, Check(r) PROVE BudgetInv'
<1> DEFINE N == Cardinality(Paid)
           n == Cardinality(InFlight)
           m == Cardinality(InFlight')
           g == N + glitches + extra
<1>1. N \in Nat /\ n \in Nat /\ MaxPrice \in Nat /\ glitches \in Nat /\ extra \in Nat
      /\ spent \in Nat /\ Cap \in Nat /\ g \in Nat
  BY FlightFinite, BudgetAssumption DEF TypeOK
<1>2. InFlight' \subseteq InFlight \union {r} /\ UNCHANGED <<spent, extra, deleted>>
  BY DEF Check, Goto, InFlight, TypeOK
<1>3. m \in Nat /\ m <= N /\ m <= n + 1
  <2>1. InFlight' \subseteq Paid
    BY DEF InFlight
  <2>2. m \in Nat /\ m <= N
    BY <2>1, BudgetAssumption, FS_Subset, FS_CardinalityType
  <2>3. IsFiniteSet(InFlight \union {r})
        /\ Cardinality(InFlight \union {r}) \in {n, n + 1}
    BY FlightFinite, FS_AddElement
  <2>4. m <= Cardinality(InFlight \union {r})
    BY <1>2, <2>3, FS_Subset
  <2> QED
    BY <1>1, <2>2, <2>3, <2>4
<1>4. CASE deleted /\ UNCHANGED glitches
  <2>1. InFlight' \subseteq InFlight
    BY <1>2, <1>4 DEF InFlight
  <2> QED
    BY <1>2, <1>4, <2>1, BudgetQuiet
<1>5. CASE spent < Cap /\ UNCHANGED glitches
  <2>1. MaxPrice * m <= MaxPrice * g /\ MaxPrice * m \in Int /\ MaxPrice * g \in Int
    BY <1>1, <1>3, Times
  <2> HIDE DEF m, g
  <2>2. spent + MaxPrice * m <= Cap - 1 + MaxPrice * g
    BY <1>1, <1>5, <2>1
  <2> QED
    BY <1>2, <1>5, <2>2 DEF BudgetInv, m, g
<1>6. CASE glitches' = glitches + 1
  <2>1. MaxPrice * m <= MaxPrice * (n + 1) /\ MaxPrice * m \in Int
    BY <1>1, <1>3, Times
  <2>2. MaxPrice * (n + 1) = MaxPrice * n + MaxPrice /\ MaxPrice * n \in Int
        /\ MaxPrice * (g + 1) = MaxPrice * g + MaxPrice /\ MaxPrice * g \in Int
    BY <1>1
  <2>3. spent + MaxPrice * n <= Cap - 1 + MaxPrice * g
    BY DEF BudgetInv
  <2>4. N + glitches' + extra = g + 1
    BY <1>1, <1>6
  <2> HIDE DEF m, n, g
  <2>5. spent + MaxPrice * m <= Cap - 1 + MaxPrice * (g + 1)
    BY <1>1, <2>1, <2>2, <2>3
  <2> QED
    BY <1>2, <2>4, <2>5 DEF BudgetInv, m
<1> QED
  BY <1>4, <1>5, <1>6 DEF Check

\* A charge takes the place of a request in flight, or is counted.
LEMMA BudgetCharge ==
    ASSUME TypeOK, BudgetInv, NEW r \in Requests, Charge(r) PROVE BudgetInv'
<1> DEFINE N == Cardinality(Paid)
           n == Cardinality(InFlight)
           m == Cardinality(InFlight')
           g == N + glitches + extra
<1>1. N \in Nat /\ n \in Nat /\ MaxPrice \in Nat /\ glitches \in Nat /\ extra \in Nat
      /\ spent \in Nat /\ Cap \in Nat /\ g \in Nat
  BY FlightFinite, BudgetAssumption DEF TypeOK
<1>2. r \in Paid \union Free /\ Price[r] \in Nat /\ Price[r] <= MaxPrice
  BY BudgetAssumption DEF Charge, TypeOK, Requests
<1>3. InFlight' \subseteq InFlight /\ InFlight' = InFlight \ {r} /\ UNCHANGED <<glitches, deleted>>
  BY <1>2, BudgetAssumption DEF Charge, Goto, InFlight, TypeOK, faults
<1>4. CASE UNCHANGED <<spent, extra>>
  BY <1>3, <1>4, BudgetQuiet
<1>5. CASE ~deleted /\ spent' = spent + Price[r] /\ r \notin Free /\ UNCHANGED extra
  <2>1. r \in InFlight
    BY <1>2, <1>5 DEF InFlight, Charge
  <2>2. m = n - 1
    BY <1>3, <2>1, FlightFinite, FS_RemoveElement
  <2>3. MaxPrice * (n - 1) = MaxPrice * n - MaxPrice /\ MaxPrice * n \in Int /\ MaxPrice * g \in Int
    BY <1>1
  <2>4. spent + MaxPrice * n <= Cap - 1 + MaxPrice * g
    BY DEF BudgetInv
  <2> HIDE DEF m, n, g
  <2>5. spent' + MaxPrice * m <= Cap - 1 + MaxPrice * g
    BY <1>1, <1>2, <1>5, <2>2, <2>3, <2>4
  <2> QED
    BY <1>3, <1>5, <2>5 DEF BudgetInv, m, g
<1>6. CASE spent' = spent + Price[r] /\ r \in Free /\ extra' = extra + 1
  <2>1. InFlight' = InFlight
    BY <1>3, <1>6, BudgetAssumption DEF InFlight
  <2>2. MaxPrice * (g + 1) = MaxPrice * g + MaxPrice /\ MaxPrice * g \in Int /\ MaxPrice * n \in Int
    BY <1>1
  <2>3. spent + MaxPrice * n <= Cap - 1 + MaxPrice * g
    BY DEF BudgetInv
  <2>4. N + glitches + extra' = g + 1
    BY <1>1, <1>6
  <2> HIDE DEF n, g
  <2>5. spent' + MaxPrice * n <= Cap - 1 + MaxPrice * (g + 1)
    BY <1>1, <1>2, <1>6, <2>2, <2>3
  <2> QED
    BY <1>3, <2>1, <2>4, <2>5 DEF BudgetInv, n
<1> QED
  BY <1>4, <1>5, <1>6 DEF Charge

\* What a project has spent exceeds its cap by no more than the paid requests
\* under way, the checks that failed open and what is charged unchecked.
THEOREM BudgetHolds == Spec => []BudgetHeld
<1>1. Init => BudgetInv
  <2> SUFFICES ASSUME Init PROVE BudgetInv
    OBVIOUS
  <2>1. InFlight = {}
    BY BudgetAssumption DEF Init, InFlight, Requests
  <2>2. Cardinality(InFlight) = 0
    BY <2>1, FS_EmptySet
  <2>3. MaxPrice * 0 = 0 /\ MaxPrice * (Cardinality(Paid) + 0 + 0) \in Nat
    BY FlightFinite, BudgetAssumption
  <2> QED
    BY <2>2, <2>3, BudgetAssumption DEF Init, BudgetInv
<1>2. TypeOK /\ BudgetInv /\ [Next]_vars => BudgetInv'
  <2> SUFFICES ASSUME TypeOK, BudgetInv, [Next]_vars PROVE BudgetInv'
    OBVIOUS
  <2> USE BudgetQuiet DEF InFlight, Goto, Ensured, TypeOK, faults, purse
  <2>1. CASE UNCHANGED vars
    BY <2>1 DEF vars, requests
  <2>2. ASSUME NEW r \in Requests, Look(r) \/ Create(r) \/ Again(r) \/ Bind(r) \/ Work(r)
        PROVE  BudgetInv'
    <3>1. at[r] # "idle" /\ (\A q \in Requests \ {r} : at'[q] = at[q])
          /\ UNCHANGED <<deleted, spent, glitches, extra>>
      BY <2>2 DEF Look, Create, Again, Bind, Work, Mishap
    <3>2. Paid \subseteq Requests
      BY DEF Requests
    <3> QED
      BY <3>1, <3>2
  <2>3. ASSUME NEW r \in Requests, Begin(r) PROVE BudgetInv'
    BY <2>3, BudgetAssumption DEF Begin
  <2>4. CASE Delete
    BY <2>4 DEF Delete, requests
  <2>5. CASE Crash
    <3>1. \A r \in Paid : at'[r] = "idle"
      BY <2>5, BudgetAssumption DEF Crash, Requests
    <3> QED
      BY <2>5, <3>1 DEF Crash
  <2> QED
    BY <2>1, <2>2, <2>3, <2>4, <2>5, BudgetCheck, BudgetCharge DEF Next
<1>3. TypeOK /\ BudgetInv => BudgetHeld
  <2> SUFFICES ASSUME TypeOK, BudgetInv PROVE BudgetHeld
    OBVIOUS
  <2> DEFINE n == Cardinality(InFlight)
             room == MaxPrice * (Cardinality(Paid) + glitches + extra)
  <2>1. n \in Nat /\ MaxPrice \in Nat /\ spent \in Nat /\ Cap \in Nat /\ room \in Int
    BY FlightFinite, BudgetAssumption DEF TypeOK
  <2>2. MaxPrice * n \in Nat
    BY <2>1
  <2>3. spent + MaxPrice * n <= Cap - 1 + room
    BY DEF BudgetInv
  <2> HIDE DEF n, room
  <2>4. spent <= Cap - 1 + room
    BY <2>1, <2>2, <2>3
  <2> QED
    BY <2>4 DEF BudgetHeld, room
<1> QED
  BY <1>1, <1>2, <1>3, BudgetTyped, PTL DEF Spec
==============================================================================
