---------------------------- MODULE Oracle_proofs ----------------------------
(***************************************************************************)
(* Proofs about the verdict oracle, for any number of calls and processes, *)
(* any cap and prices, and any number of failed lookups and charges        *)
(* without a record.                                                       *)
(***************************************************************************)
EXTENDS Oracle, FiniteSetTheorems, TLAPS

\* The initial state has its types.
LEMMA InitType == Init => TypeOK
BY OracleAssumption DEF Init, TypeOK

\* Every step keeps the types.
LEMMA NextType == TypeOK /\ [Next]_vars => TypeOK'
<1> SUFFICES ASSUME TypeOK, [Next]_vars PROVE TypeOK'
  OBVIOUS
<1> USE OracleAssumption DEF TypeOK, Goto, Return, money, ghosts
<1>1. CASE UNCHANGED vars
  BY <1>1 DEF vars, call
<1>2. ASSUME NEW c \in Callers, NEW i \in Ideas, Ask(c, i) PROVE TypeOK'
  BY <1>2 DEF Ask
<1>3. ASSUME NEW c \in Callers, Rate(c) PROVE TypeOK'
  BY <1>3 DEF Rate, Pass, Beside, Peers
<1>4. ASSUME NEW c \in Callers, CapCheck(c) PROVE TypeOK'
  <2>1. glitches' \in 0..MaxGlitches
    BY <1>4 DEF CapCheck, Glitch
  <2> QED
    BY <1>4, <2>1 DEF CapCheck
<1>5. ASSUME NEW c \in Callers, Lock(c) PROVE TypeOK'
  BY <1>5 DEF Lock, Acquire, Paying
<1>6. ASSUME NEW c \in Callers, Serve(c) PROVE TypeOK'
  <2>1. PICK p \in Prices :
          \/ ledger' = ledger + p /\ UNCHANGED <<hidden, unrecorded>>
          \/ /\ unrecorded < MaxUnrecorded /\ unrecorded' = unrecorded + 1
             /\ hidden' = hidden + p /\ UNCHANGED ledger
    BY <1>6 DEF Serve
  <2>2. ledger' \in Nat /\ hidden' \in Nat /\ unrecorded' \in 0..MaxUnrecorded
    BY <2>1
  <2> QED
    BY <1>6, <2>2 DEF Serve
<1>7. ASSUME NEW c \in Callers, Fail(c) \/ Reply(c) PROVE TypeOK'
  BY <1>7 DEF Fail, Reply, Holding
<1>8. ASSUME NEW c \in Callers, Store(c) PROVE TypeOK'
  BY <1>8 DEF Store
<1>9. CASE Age
  <2>1. ledger' \in Nat /\ hidden' \in Nat /\ cached' \subseteq Ideas /\ fired' \subseteq Callers
    BY <1>9 DEF Age
  <2> QED
    BY <1>9, <2>1 DEF Age, call
<1> QED
  BY <1>1, <1>2, <1>3, <1>4, <1>5, <1>6, <1>7, <1>8, <1>9 DEF Next

\* Every variable keeps its values.
THEOREM OracleTyped == Spec => []TypeOK
<1> QED
  BY InitType, NextType, PTL DEF Spec
------------------------------------------------------------------------------
(* The daily cap.                                                           *)

\* The calls that passed the check of the cap and have not been charged.
InFlight == {c \in Callers : at[c] \in {"lock", "call"}}

\* The inductive form of SpendBounded: the calls in flight are as good as
\* charged, and what the record misses is counted apart.
SpendInv ==
    /\ ledger + MaxPrice * Cardinality(InFlight)
         <= Cap - 1 + MaxPrice * (Cardinality(Callers) + glitches)
    /\ hidden <= MaxPrice * unrecorded

\* The calls in flight are finitely many, and no more than all calls.
LEMMA FlightFinite ==
    /\ IsFiniteSet(InFlight) /\ Cardinality(InFlight) \in Nat /\ Cardinality(Callers) \in Nat
    /\ Cardinality(InFlight) <= Cardinality(Callers)
<1>1. InFlight \subseteq Callers
  BY DEF InFlight
<1> QED
  BY <1>1, OracleAssumption, FS_Subset, FS_CardinalityType

\* A product grows with its second factor.
LEMMA Times ==
    ASSUME NEW m \in Nat, NEW a \in Int, NEW b \in Int, a <= b
    PROVE  m * a <= m * b /\ m * a \in Int /\ m * b \in Int
OBVIOUS

\* Where a call leaves the flight, it makes room for its charge.
LEMMA Landed ==
    ASSUME TypeOK, NEW c \in Callers, c \in InFlight, InFlight' = InFlight \ {c}
    PROVE  Cardinality(InFlight)' = Cardinality(InFlight) - 1
<1>1. Cardinality(InFlight \ {c}) = Cardinality(InFlight) - 1
  BY FlightFinite, FS_RemoveElement
<1> QED
  BY <1>1

\* Steps that neither charge nor pass the check of the cap keep the bound.
LEMMA SpendQuiet ==
    ASSUME TypeOK, SpendInv, InFlight' \subseteq InFlight,
           ledger' \in 0..ledger, hidden' \in 0..hidden, UNCHANGED <<glitches, unrecorded>>
    PROVE  SpendInv'
<1> DEFINE n == Cardinality(InFlight)
           m == Cardinality(InFlight')
<1>1. n \in Nat /\ m \in Nat /\ m <= n
  BY FlightFinite, FS_Subset, FS_CardinalityType
<1>2. MaxPrice * m <= MaxPrice * n /\ MaxPrice * m \in Int /\ MaxPrice * n \in Int
  BY <1>1, Times, OracleAssumption
<1>3. ledger' \in Int /\ ledger \in Int /\ ledger' <= ledger /\ hidden' <= hidden /\ hidden \in Int
  BY DEF TypeOK
<1>4. MaxPrice * (Cardinality(Callers) + glitches) \in Int /\ MaxPrice * unrecorded \in Int
  BY FlightFinite, OracleAssumption DEF TypeOK
<1> QED
  BY <1>2, <1>3, <1>4, OracleAssumption DEF SpendInv

\* A call passes the check while the record is below the cap, or where the
\* lookup failed, which is counted.
LEMMA SpendCheck ==
    ASSUME TypeOK, SpendInv, NEW c \in Callers, CapCheck(c) PROVE SpendInv'
<1> DEFINE N == Cardinality(Callers)
           n == Cardinality(InFlight)
           m == Cardinality(InFlight')
<1>1. N \in Nat /\ n \in Nat /\ MaxPrice \in Nat /\ glitches \in Nat /\ ledger \in Nat /\ Cap \in Nat
  BY FlightFinite, OracleAssumption DEF TypeOK
<1>2. InFlight' \subseteq InFlight \union {c} /\ at[c] = "cap"
  BY DEF CapCheck, Goto, Return, InFlight, TypeOK
<1>3. m \in Nat /\ m <= N /\ m <= n + 1
  <2>1. InFlight' \subseteq Callers
    BY DEF InFlight
  <2>2. m \in Nat /\ m <= N
    BY <2>1, OracleAssumption, FS_Subset, FS_CardinalityType
  <2>3. IsFiniteSet(InFlight \union {c}) /\ Cardinality(InFlight \union {c}) \in Nat
        /\ Cardinality(InFlight \union {c}) <= n + 1
    <3>1. IsFiniteSet(InFlight \union {c})
          /\ Cardinality(InFlight \union {c}) \in {n, n + 1}
      BY FlightFinite, FS_AddElement
    <3> QED
      BY <1>1, <3>1
  <2> QED
    BY <1>1, <1>2, <2>2, <2>3, FS_Subset
<1>4. CASE ledger >= Cap /\ Return(c) /\ UNCHANGED glitches
  <2>1. InFlight' \subseteq InFlight
    BY <1>2, <1>4 DEF Return, Goto, InFlight, TypeOK
  <2>2. UNCHANGED <<ledger, hidden, unrecorded>>
    BY DEF CapCheck, money
  <2> QED
    BY <1>4, <2>1, <2>2, SpendQuiet DEF TypeOK
<1>5. CASE ledger < Cap /\ UNCHANGED glitches
  <2>1. ledger <= Cap - 1
    BY <1>1, <1>5
  <2>2. MaxPrice * m <= MaxPrice * (N + glitches)
    BY <1>1, <1>3, Times
  <2>3. MaxPrice * m \in Int /\ MaxPrice * (N + glitches) \in Int
    BY <1>1, <1>3
  <2> HIDE DEF m, N
  <2>4. ledger + MaxPrice * m <= Cap - 1 + MaxPrice * (N + glitches)
    BY <1>1, <2>1, <2>2, <2>3
  <2> QED
    BY <1>5, <2>4 DEF SpendInv, CapCheck, money, m, N
<1>6. CASE Glitch
  <2>1. glitches' = glitches + 1
    BY <1>6 DEF Glitch
  <2>2. MaxPrice * m <= MaxPrice * (n + 1)
    BY <1>1, <1>3, Times
  <2>3. MaxPrice * (n + 1) = MaxPrice * n + MaxPrice
        /\ MaxPrice * (N + glitches') = MaxPrice * (N + glitches) + MaxPrice
    BY <1>1, <2>1
  <2>4. MaxPrice * m \in Int /\ MaxPrice * n \in Int /\ MaxPrice * (N + glitches) \in Int
    BY <1>1, <1>3
  <2>5. ledger + MaxPrice * n <= Cap - 1 + MaxPrice * (N + glitches)
    BY DEF SpendInv
  <2> HIDE DEF m, n, N
  <2>6. ledger + MaxPrice * m <= Cap - 1 + MaxPrice * (N + glitches')
    BY <1>1, <2>2, <2>3, <2>4, <2>5
  <2> QED
    BY <2>6 DEF SpendInv, CapCheck, money, m, N
<1> QED
  BY <1>4, <1>5, <1>6 DEF CapCheck

\* A charge takes the place of a call in flight.
LEMMA SpendServe ==
    ASSUME TypeOK, SpendInv, NEW c \in Callers, Serve(c) PROVE SpendInv'
<1> DEFINE N == Cardinality(Callers)
           n == Cardinality(InFlight)
           m == Cardinality(InFlight')
<1>1. N \in Nat /\ n \in Nat /\ MaxPrice \in Nat /\ glitches \in Nat /\ ledger \in Nat /\ Cap \in Nat
      /\ hidden \in Nat /\ unrecorded \in Nat
  BY FlightFinite, OracleAssumption DEF TypeOK
<1>2. c \in InFlight /\ InFlight' = InFlight \ {c} /\ UNCHANGED glitches
  BY DEF Serve, Goto, InFlight, TypeOK
<1>3. m = n - 1
  BY <1>2, Landed
<1>4. PICK p \in Prices :
        \/ ledger' = ledger + p /\ UNCHANGED <<hidden, unrecorded>>
        \/ unrecorded' = unrecorded + 1 /\ hidden' = hidden + p /\ UNCHANGED ledger
  BY DEF Serve
<1>5. p \in Nat /\ p <= MaxPrice
  BY OracleAssumption
<1>6. MaxPrice * (n - 1) = MaxPrice * n - MaxPrice /\ MaxPrice * n \in Int
  BY <1>1
<1>7. MaxPrice * (unrecorded + 1) = MaxPrice * unrecorded + MaxPrice /\ MaxPrice * unrecorded \in Int
  BY <1>1
<1>8. MaxPrice * (N + glitches) \in Int
  BY <1>1
<1>9. ledger + MaxPrice * n <= Cap - 1 + MaxPrice * (N + glitches) /\ hidden <= MaxPrice * unrecorded
  BY DEF SpendInv
<1> HIDE DEF m, n, N
<1>10. ledger' + MaxPrice * m <= Cap - 1 + MaxPrice * (N + glitches)
       /\ hidden' <= MaxPrice * unrecorded'
  BY <1>1, <1>3, <1>4, <1>5, <1>6, <1>7, <1>8, <1>9
<1> QED
  BY <1>2, <1>10 DEF SpendInv, m, N

\* The agent's daily spend exceeds the cap by no more than the calls that can
\* be under way and those the record missed.
THEOREM SpendHolds == Spec => []SpendBounded
<1>1. Init => SpendInv
  <2> SUFFICES ASSUME Init PROVE SpendInv
    OBVIOUS
  <2>1. InFlight = {}
    BY DEF Init, InFlight
  <2>2. Cardinality(InFlight) = 0
    BY <2>1, FS_EmptySet
  <2>3. MaxPrice * 0 = 0 /\ MaxPrice * (Cardinality(Callers) + 0) \in Nat
    BY FlightFinite, OracleAssumption
  <2> QED
    BY <2>2, <2>3, OracleAssumption DEF Init, SpendInv
<1>2. TypeOK /\ SpendInv /\ [Next]_vars => SpendInv'
  <2> SUFFICES ASSUME TypeOK, SpendInv, [Next]_vars PROVE SpendInv'
    OBVIOUS
  <2> USE SpendQuiet DEF InFlight, Goto, Return, money, TypeOK
  <2>1. CASE UNCHANGED vars
    BY <2>1 DEF vars, call
  <2>2. ASSUME NEW c \in Callers, NEW i \in Ideas, Ask(c, i) PROVE SpendInv'
    BY <2>2 DEF Ask
  <2>3. ASSUME NEW c \in Callers, Rate(c) \/ Fail(c) \/ Reply(c) PROVE SpendInv'
    BY <2>3 DEF Rate, Pass, Fail, Reply, Holding
  <2>4. ASSUME NEW c \in Callers, Lock(c) PROVE SpendInv'
    BY <2>4 DEF Lock, Acquire
  <2>5. ASSUME NEW c \in Callers, Store(c) PROVE SpendInv'
    BY <2>5 DEF Store
  <2>6. CASE Age
    <3>1. UNCHANGED <<at, glitches, unrecorded>>
      BY <2>6 DEF Age, call
    <3>2. ledger' \in 0..ledger /\ hidden' \in 0..hidden
      BY <2>6, OracleAssumption DEF Age
    <3> QED
      BY <3>1, <3>2
  <2> QED
    BY <2>1, <2>2, <2>3, <2>4, <2>5, <2>6, SpendCheck, SpendServe DEF Next
<1>3. TypeOK /\ SpendInv => SpendBounded
  <2> SUFFICES ASSUME TypeOK, SpendInv PROVE SpendBounded
    OBVIOUS
  <2> DEFINE N == Cardinality(Callers)
             n == Cardinality(InFlight)
  <2>1. N \in Nat /\ n \in Nat /\ MaxPrice \in Nat /\ glitches \in Nat /\ unrecorded \in Nat
        /\ ledger \in Nat /\ hidden \in Nat /\ Cap \in Nat
    BY FlightFinite, OracleAssumption DEF TypeOK
  <2>2. MaxPrice * n \in Nat
    BY <2>1
  <2>3. /\ MaxPrice * (N + glitches + unrecorded)
             = MaxPrice * (N + glitches) + MaxPrice * unrecorded
        /\ MaxPrice * (N + glitches) \in Int /\ MaxPrice * unrecorded \in Int
    BY <2>1
  <2>4. ledger + MaxPrice * n <= Cap - 1 + MaxPrice * (N + glitches) /\ hidden <= MaxPrice * unrecorded
    BY DEF SpendInv
  <2> HIDE DEF N, n
  <2>5. ledger + hidden <= Cap - 1 + MaxPrice * (N + glitches + unrecorded)
    BY <2>1, <2>2, <2>3, <2>4
  <2> QED
    BY <2>5 DEF SpendBounded, N
<1> QED
  BY <1>1, <1>2, <1>3, OracleTyped, PTL DEF Spec
------------------------------------------------------------------------------
(* The cache and the ceilings.                                              *)

\* The inductive form of PaidOnce: an undisturbed call is alone with its idea.
PaidInv ==
    \A c \in Callers \ Forced : at[c] = "call" /\ c \notin overtaken =>
        /\ what[c] \notin cached
        /\ \A d \in Callers \ {c} : what[d] = what[c] => at[d] \notin Holding \union {"store"}

\* No idea is paid for when a fresh verdict of it is at hand, unless another
\* call was paying for it, or had paid and not cached it, at the same time.
THEOREM PaidOnceHolds == Spec => []PaidOnce
<1>1. Init => PaidInv
  BY DEF Init, PaidInv
<1>2. TypeOK /\ PaidInv /\ [Next]_vars => PaidInv'
  <2> SUFFICES ASSUME TypeOK, PaidInv, [Next]_vars PROVE PaidInv'
    OBVIOUS
  <2> USE DEF Goto, Return, money, ghosts, Holding, PaidInv
  <2>1. CASE UNCHANGED vars
    BY <2>1 DEF vars, call
  <2>2. ASSUME NEW c \in Callers, NEW i \in Ideas, Ask(c, i) PROVE PaidInv'
    BY <2>2 DEF Ask, TypeOK
  <2>3. ASSUME NEW c \in Callers, Rate(c) PROVE PaidInv'
    BY <2>3 DEF Rate, Pass, TypeOK
  <2>4. ASSUME NEW c \in Callers, CapCheck(c) PROVE PaidInv'
    BY <2>4 DEF CapCheck, TypeOK
  <2>5. ASSUME NEW c \in Callers, Acquire(c), c \in Forced \/ what[c] \notin cached
        PROVE  PaidInv'
    <3>1. /\ at[c] = "lock" /\ UNCHANGED <<what, cached>>
          /\ \A d \in Callers : at'[d] = IF d = c THEN "call" ELSE at[d]
      BY <2>5 DEF Acquire, TypeOK
    <3>2. CASE Paying(what[c]) = {}
      <4>1. overtaken' = overtaken \ {c}
        BY <2>5, <3>2 DEF Acquire
      <4>2. \A d \in Callers : what[d] = what[c] => at[d] \notin Holding \union {"store"}
        BY <3>2 DEF Paying
      <4> QED
        BY <2>5, <3>1, <4>1, <4>2
    <3>3. CASE Paying(what[c]) # {}
      <4>1. overtaken' = overtaken \union Paying(what[c]) \union {c}
        BY <2>5, <3>3 DEF Acquire
      <4>2. \A d \in Callers : at[d] = "call" /\ d \notin overtaken' => what[d] # what[c]
        BY <4>1 DEF Paying
      <4> QED
        BY <2>5, <3>1, <4>1, <4>2
    <3> QED
      BY <3>2, <3>3
  <2>6. ASSUME NEW c \in Callers, Lock(c) PROVE PaidInv'
    <3>1. CASE Acquire(c) /\ (c \in Forced \/ what[c] \notin cached)
      BY <2>5, <3>1
    <3>2. CASE at[c] = "lock" /\ Return(c) /\ UNCHANGED <<cached, ghosts>>
      BY <3>2 DEF TypeOK
    <3> QED
      BY <2>6, <3>1, <3>2 DEF Lock
  <2>7. ASSUME NEW c \in Callers, Serve(c) \/ Reply(c) PROVE PaidInv'
    <3>1. /\ at[c] \in Holding /\ UNCHANGED <<what, cached, overtaken>>
          /\ \A d \in Callers : at'[d] = IF d = c THEN at'[c] ELSE at[d]
          /\ at'[c] \in {"reply", "store"}
      BY <2>7 DEF Serve, Reply, TypeOK
    <3> QED
      BY <3>1
  <2>8. ASSUME NEW c \in Callers, Fail(c) PROVE PaidInv'
    BY <2>8 DEF Fail, TypeOK
  <2>9. ASSUME NEW c \in Callers, Store(c) PROVE PaidInv'
    <3>1. /\ at[c] = "store" /\ UNCHANGED overtaken /\ cached' \subseteq cached \union {what[c]}
          /\ \A d \in Callers \ {c} : at'[d] = at[d] /\ what'[d] = what[d]
          /\ at'[c] = "idle"
      BY <2>9 DEF Store, TypeOK
    <3>2. ASSUME NEW d \in Callers \ Forced, at'[d] = "call", d \notin overtaken
          PROVE  /\ what'[d] \notin cached'
                 /\ \A e \in Callers \ {d} : what'[e] = what'[d] => at'[e] \notin Holding \union {"store"}
      <4>1. d # c /\ at[d] = "call" /\ what'[d] = what[d]
        BY <3>1, <3>2
      <4>2. what[c] # what[d]
        BY <3>1, <3>2, <4>1
      <4> QED
        BY <3>1, <3>2, <4>1, <4>2
    <3> QED
      BY <3>1, <3>2
  <2>10. CASE Age
    BY <2>10 DEF Age, call
  <2> QED
    BY <2>1, <2>2, <2>3, <2>4, <2>6, <2>7, <2>8, <2>9, <2>10 DEF Next
<1>3. PaidInv => PaidOnce
  BY DEF PaidInv, PaidOnce
<1> QED
  BY <1>1, <1>2, <1>3, OracleTyped, PTL DEF Spec

\* A call past the ceiling of its trigger.
Past(c) == at[c] \in {"cap", "lock", "call", "reply", "store"}

\* The inductive form of CeilingHeld: an undisturbed call is the only one of
\* its process past the ceiling.
CeilingInv ==
    \A c \in Limited \cap Callers : Past(c) /\ c \notin lapped =>
        /\ Wrapper[c] \notin fired
        /\ \A d \in Peers(c) \cap Limited : ~Past(d)

\* A limited trigger is not fired twice within its ceiling by one wrapper,
\* unless the second call passed the ceiling before the first was answered.
THEOREM CeilingHolds == Spec => []CeilingHeld
<1>1. Init => CeilingInv
  BY DEF Init, CeilingInv, Past
<1>2. TypeOK /\ CeilingInv /\ [Next]_vars => CeilingInv'
  <2> SUFFICES ASSUME TypeOK, CeilingInv, [Next]_vars PROVE CeilingInv'
    OBVIOUS
  <2> USE DEF Goto, Return, money, ghosts, CeilingInv, Past, Peers
  <2>1. CASE UNCHANGED vars
    BY <2>1 DEF vars, call
  <2>2. ASSUME NEW c \in Callers, NEW i \in Ideas, Ask(c, i) PROVE CeilingInv'
    BY <2>2 DEF Ask, TypeOK
  <2>3. ASSUME NEW c \in Callers, Rate(c) PROVE CeilingInv'
    <3>1. CASE Return(c) /\ UNCHANGED <<fired, lapped>>
      BY <3>1 DEF TypeOK
    <3>2. CASE Pass(c) /\ UNCHANGED fired /\ ~(c \in Limited /\ Wrapper[c] \in fired)
      <4>1. \A d \in Callers : at'[d] = IF d = c THEN "cap" ELSE at[d]
        BY <3>2 DEF Pass, TypeOK
      <4>2. \A d \in Beside(c) : d \in Peers(c) \cap Limited /\ Past(d)
        BY DEF Beside, TypeOK
      <4>3. \A d \in Peers(c) \cap Limited : Past(d) => d \in Beside(c)
        BY DEF Beside
      <4>4. CASE c \in Limited /\ Beside(c) # {}
        <5>1. lapped' = lapped \union Beside(c) \union {c}
          BY <3>2, <4>4 DEF Pass
        <5> QED
          BY <3>2, <4>1, <4>3, <5>1
      <4>5. CASE ~(c \in Limited /\ Beside(c) # {})
        <5>1. lapped' = lapped \ {c}
          BY <3>2, <4>5 DEF Pass
        <5>2. c \in Limited => \A d \in Peers(c) \cap Limited : ~Past(d)
          BY <4>3, <4>5
        <5> QED
          BY <3>2, <4>1, <5>1, <5>2
      <4> QED
        BY <4>4, <4>5
    <3> QED
      BY <2>3, <3>1, <3>2 DEF Rate
  <2>4. ASSUME NEW c \in Callers, CapCheck(c) \/ Serve(c) \/ Reply(c) \/ Fail(c) \/ Lock(c)
        PROVE  CeilingInv'
    <3>1. /\ UNCHANGED <<fired, lapped>>
          /\ \A d \in Callers : at'[d] = IF d = c THEN at'[c] ELSE at[d]
          /\ Past(c)
      <4>1. CASE CapCheck(c) \/ Lock(c)
        BY <4>1 DEF CapCheck, Lock, Acquire, TypeOK
      <4>2. CASE Serve(c) \/ Reply(c) \/ Fail(c)
        BY <4>2 DEF Serve, Reply, Fail, Holding, TypeOK
      <4> QED
        BY <2>4, <4>1, <4>2
    <3> QED
      BY <3>1
  <2>5. ASSUME NEW c \in Callers, Store(c) PROVE CeilingInv'
    <3>1. /\ Past(c) /\ UNCHANGED lapped /\ at'[c] = "idle"
          /\ \A d \in Callers \ {c} : at'[d] = at[d]
          /\ fired' \subseteq IF c \in Limited THEN fired \union {Wrapper[c]} ELSE fired
      BY <2>5 DEF Store, TypeOK
    <3>2. ASSUME NEW d \in Limited \cap Callers, Past(d)', d \notin lapped
          PROVE  /\ Wrapper[d] \notin fired'
                 /\ \A e \in Peers(d) \cap Limited : ~Past(e)'
      <4>1. d # c /\ Past(d)
        BY <3>1, <3>2
      <4>2. c \in Limited => Wrapper[d] # Wrapper[c]
        BY <3>1, <3>2, <4>1
      <4>3. Wrapper[d] \notin fired /\ \A e \in Peers(d) \cap Limited : ~Past(e)
        BY <3>2, <4>1
      <4> QED
        BY <3>1, <4>2, <4>3
    <3> QED
      BY <3>1, <3>2
  <2>6. CASE Age
    BY <2>6 DEF Age, call
  <2> QED
    BY <2>1, <2>2, <2>3, <2>4, <2>5, <2>6 DEF Next
<1>3. CeilingInv => CeilingHeld
  BY OracleAssumption DEF CeilingInv, CeilingHeld, Past
<1> QED
  BY <1>1, <1>2, <1>3, OracleTyped, PTL DEF Spec
==============================================================================
