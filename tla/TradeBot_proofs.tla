---------------------------- MODULE TradeBot_proofs ----------------------------
(***************************************************************************)
(* Proofs about the trading bot, for any set of instruments, any limits    *)
(* and any number of crashes, glitches and days.                           *)
(***************************************************************************)
EXTENDS TradeBot, FiniteSetTheorems, WellFoundedInduction, TLAPS

AtRest == {"down", "tick", "monitor", "poll"}

\* The inductive form of TypeOK: a sale, too, has a position to close.
TypeInv ==
    /\ TypeOK
    /\ pc = "selling" => mem.open[tok] > 0

\* The initial state has its types.
LEMMA InitType == Init => TypeInv
BY BotAssumption DEF Init, TypeInv, TypeOK, None, EmptyState, EmptyLog, States

\* An empty state and a replayed artifact are states.
LEMMA RebuiltType == TypeOK => EmptyState \in States /\ Rebuilt \in States
<1> SUFFICES ASSUME TypeOK PROVE EmptyState \in States /\ Rebuilt \in States
  OBVIOUS
<1>1. EmptyState \in States
  BY DEF EmptyState, None, States
<1>2. \A t \in Tokens : log.opened[t] \in Nat /\ Less1(log.opened[t]) \in Nat
  BY DEF TypeOK, Less1
<1>3. log.rows \in Nat /\ day \in Nat
  BY DEF TypeOK
<1>4. Rebuilt \in States
  BY <1>2, <1>3 DEF Rebuilt, States
<1> QED
  BY <1>1, <1>4

\* Starting, stopping and the calendar keep the types.
LEMMA LifeType == TypeInv /\ (Stop \/ Crash \/ Midnight \/ Tick
                              \/ \E r \in BOOLEAN : Boot(r)) => TypeInv'
<1> SUFFICES ASSUME TypeInv PROVE
      (Stop \/ Crash \/ Midnight \/ Tick \/ \E r \in BOOLEAN : Boot(r)) => TypeInv'
  OBVIOUS
<1> USE BotAssumption DEF Goto, Done, faulty, calendar
<1>0. EmptyState \in States /\ Rebuilt \in States
  BY RebuiltType DEF TypeInv
<1>1. Stop => TypeInv'
  BY <1>0 DEF Stop, TypeInv, TypeOK
<1>2. Crash => TypeInv'
  BY <1>0 DEF Crash, TypeInv, TypeOK
<1>3. Midnight => TypeInv'
  BY DEF Midnight, TypeInv, TypeOK, EmptyLog, None
<1>4. Tick => TypeInv'
  <2> SUFFICES ASSUME Tick PROVE TypeInv'
    OBVIOUS
  <2> day \in Nat /\ mem \in States
    BY DEF TypeInv, TypeOK
  <2>1. mem' \in States
    <3>1. CASE UNCHANGED <<mem, disk>>
      BY <3>1
    <3>2. CASE mem' = [mem EXCEPT !.daily = 0, !.reset = day]
      BY <3>2 DEF States
    <3> QED
      BY <3>1, <3>2 DEF Tick
  <2>2. disk' \in States \union {NoFile}
    BY <2>1 DEF Tick, Save, TypeInv, TypeOK
  <2>3. /\ hit' \subseteq Tokens /\ crashes' \in 0..MaxCrashes
        /\ glitches' \in 0..MaxGlitches /\ rebuilds' \in 0..MaxRebuilds
    BY DEF Tick, Save, Smooth, Glitch, TypeInv, TypeOK
  <2> QED
    BY <2>1, <2>2, <2>3 DEF Tick, TypeInv, TypeOK
<1>5. ASSUME NEW r \in BOOLEAN, Boot(r) PROVE TypeInv'
  <2>1. mem' \in States
    BY <1>0, <1>5 DEF Boot, TypeInv, TypeOK
  <2>2. disk' \in States \union {NoFile}
    BY <2>1, <1>5 DEF Boot, TypeInv, TypeOK
  <2>3. rebuilds' \in 0..MaxRebuilds /\ glitches' \in 0..MaxGlitches
    BY <1>5 DEF Boot, TypeInv, TypeOK
  <2> QED
    BY <1>5, <2>1, <2>2, <2>3 DEF Boot, TypeInv, TypeOK
<1> QED
  BY <1>1, <1>2, <1>3, <1>4, <1>5

\* Saving leaves a state in the file, and the fault counters in range.
LEMMA SaveType ==
    ASSUME TypeOK, NEW s \in States, Save(s)
    PROVE  /\ disk' \in States \union {NoFile}
           /\ hit' \subseteq Tokens /\ crashes' \in 0..MaxCrashes
           /\ glitches' \in 0..MaxGlitches /\ rebuilds' \in 0..MaxRebuilds
BY BotAssumption DEF Save, Smooth, Glitch, faulty, TypeOK

\* Closing a position keeps the types.
LEMMA CloseType == TypeInv /\ (Close \/ EndMonitor) => TypeInv'
<1> SUFFICES ASSUME TypeInv PROVE (Close \/ EndMonitor) => TypeInv'
  OBVIOUS
<1> USE BotAssumption DEF Goto, Done, Begin, faulty, calendar
<1>1. ASSUME NEW t \in Tokens, Exit(t) PROVE TypeInv'
  BY <1>1 DEF Exit, Smooth, Glitch, TypeInv, TypeOK
<1>2. Sell => TypeInv'
  BY DEF Sell, Smooth, Glitch, TypeInv, TypeOK
<1>3. ASSUME Book PROVE TypeInv'
  <2>1. tok \in Tokens /\ mem.open[tok] \in Nat /\ mem.open[tok] > 0
    BY <1>3 DEF Book, TypeInv, TypeOK, States
  <2>2. PICK n \in {0, mem.losses + 1} :
          mem' = [mem EXCEPT !.open[tok] = @ - 1, !.spent = Less1(@), !.losses = n]
    BY <1>3 DEF Book
  <2>3. n \in Nat /\ Less1(mem.spent) \in Nat
    BY DEF TypeInv, TypeOK, States, Less1
  <2>4. mem' \in States
    <3>1. mem \in States
      BY DEF TypeInv, TypeOK
    <3>2. [mem.open EXCEPT ![tok] = @ - 1] \in [Tokens -> Nat]
      BY <2>1, <3>1 DEF States
    <3>3. mem' = [mem EXCEPT !.open = [mem.open EXCEPT ![tok] = @ - 1],
                             !.spent = Less1(mem.spent), !.losses = n]
      BY <2>2, <3>1 DEF States
    <3> QED
      BY <2>3, <3>1, <3>2, <3>3 DEF States
  <2>5. log' \in [opened : [Tokens -> Nat], closed : SUBSET Tokens, rows : Nat]
    <3>1. log \in [opened : [Tokens -> Nat], closed : SUBSET Tokens, rows : Nat]
      BY DEF TypeInv, TypeOK
    <3>2. log.closed \union {tok} \in SUBSET Tokens
      BY <2>1, <3>1
    <3> QED
      BY <1>3, <3>1, <3>2 DEF Book
  <2> QED
    BY <1>3, <2>1, <2>4, <2>5 DEF Book, TypeInv, TypeOK
<1>4. ASSUME SaveClose PROVE TypeInv'
  <2>1. mem \in States /\ TypeOK
    BY DEF TypeInv, TypeOK
  <2> QED
    BY <1>4, <2>1, SaveType DEF SaveClose, TypeInv, TypeOK
<1>5. EndMonitor => TypeInv'
  BY DEF EndMonitor, TypeInv, TypeOK
<1> QED
  BY <1>1, <1>2, <1>3, <1>4, <1>5 DEF Close

\* Opening a position keeps the types.
LEMMA OpenType == TypeInv /\ (Open \/ EndPoll) => TypeInv'
<1> SUFFICES ASSUME TypeInv PROVE (Open \/ EndPoll) => TypeInv'
  OBVIOUS
<1> USE BotAssumption DEF Goto, Done, Begin, faulty, calendar
<1>1. ASSUME NEW t \in Tokens, Entry(t) PROVE TypeInv'
  BY <1>1 DEF Entry, TypeInv, TypeOK
<1>2. Buy => TypeInv'
  BY DEF Buy, Smooth, Glitch, TypeInv, TypeOK
<1>3. ASSUME BookEntry PROVE TypeInv'
  <2> tok \in Tokens
    BY <1>3 DEF BookEntry, TypeInv, TypeOK
  <2>1. mem' \in States
    <3>1. mem \in States
      BY DEF TypeInv, TypeOK
    <3>2. [mem.open EXCEPT ![tok] = @ + 1] \in [Tokens -> Nat]
      BY <3>1 DEF States
    <3>3. mem' = [mem EXCEPT !.open = [mem.open EXCEPT ![tok] = @ + 1],
                             !.daily = mem.daily + 1, !.spent = mem.spent + 1]
      BY <1>3, <3>1 DEF BookEntry, States
    <3>4. mem.daily + 1 \in Nat /\ mem.spent + 1 \in Nat
      BY <3>1 DEF States
    <3> QED
      BY <3>1, <3>2, <3>3, <3>4 DEF States
  <2>2. log' \in [opened : [Tokens -> Nat], closed : SUBSET Tokens, rows : Nat]
    <3>1. log \in [opened : [Tokens -> Nat], closed : SUBSET Tokens, rows : Nat]
      BY DEF TypeInv, TypeOK
    <3>2. [log.opened EXCEPT ![tok] = @ + 1] \in [Tokens -> Nat]
      BY <3>1
    <3>3. log' = [log EXCEPT !.opened = [log.opened EXCEPT ![tok] = @ + 1],
                             !.rows = log.rows + 1]
      BY <1>3, <3>1 DEF BookEntry
    <3>4. log.rows + 1 \in Nat
      BY <3>1
    <3> QED
      BY <3>1, <3>2, <3>3, <3>4
  <2> QED
    BY <1>3, <2>1, <2>2 DEF BookEntry, TypeInv, TypeOK
<1>4. ASSUME SaveEntry PROVE TypeInv'
  <2>1. mem \in States /\ TypeOK
    BY DEF TypeInv, TypeOK
  <2> QED
    BY <1>4, <2>1, SaveType DEF SaveEntry, TypeInv, TypeOK
<1>5. EndPoll => TypeInv'
  BY DEF EndPoll, TypeInv, TypeOK
<1> QED
  BY <1>1, <1>2, <1>3, <1>4, <1>5 DEF Open

\* Every step keeps the types.
LEMMA NextType == TypeInv /\ [Next]_vars => TypeInv'
<1>1. TypeInv /\ Next => TypeInv'
  BY LifeType, CloseType, OpenType DEF Next
<1>2. TypeInv /\ UNCHANGED vars => TypeInv'
  BY DEF vars, TypeInv, TypeOK
<1> QED
  BY <1>1, <1>2

\* Counters never go negative and no trade is booked without a token and an
\* open position behind it, in every run of the bot.
THEOREM TypeCorrect == Spec => []TypeOK
<1>1. TypeInv => TypeOK
  BY DEF TypeInv
<1> QED
  BY InitType, NextType, <1>1, PTL DEF Spec
------------------------------------------------------------------------------
\* The positions a start would find in the file.
Filed == IF disk = NoFile THEN None ELSE disk.open

\* A trade that is under way and not yet in the memory or in the file, or a
\* fault, explains every token in the wallet that the copy does not know.
MemoryCovers ==
    \A t \in Tokens : held[t] > 0 /\ mem.open[t] = 0 /\ t \notin hit
                         => t = tok /\ pc = "bought"
FileCovers ==
    \A t \in Tokens : held[t] > 0 /\ Filed[t] = 0 /\ t \notin hit
                         => t = tok /\ pc \in {"bought", "opened"}

\* The inductive invariant.  NoSilentOrphan speaks of the memory alone, but a
\* start copies the file into it; and a position is only closed when its
\* token left the wallet, unless a fault struck.
OrphanInv ==
    rebuilds = 0 =>
        /\ pc # "down" => MemoryCovers
        /\ FileCovers
        /\ pc \in {"booking", "closed"} => held[tok] = 0 \/ tok \in hit

\* At the start nothing is held.
LEMMA OrphanInit == Init => OrphanInv
BY BotAssumption DEF Init, OrphanInv, MemoryCovers, FileCovers, None

\* A save, successful or not, of what the memory holds keeps the file honest.
LEMMA OrphanSave ==
    ASSUME TypeInv, TypeInv', OrphanInv, NEW s \in States, Save(s), s.open = mem.open,
           pc \in {"tick", "closed", "opened"}, pc' \in AtRest, tok' = NoToken,
           mem'.open = mem.open, held' = held
    PROVE  OrphanInv'
<1> SUFFICES ASSUME rebuilds' = 0
    PROVE /\ MemoryCovers' /\ FileCovers'
          /\ pc' \notin {"booking", "closed"}
  BY DEF OrphanInv
<1>1. rebuilds = 0 /\ hit \subseteq hit' /\ MemoryCovers /\ FileCovers
  BY DEF Save, Smooth, Glitch, faulty, OrphanInv
<1>2. MemoryCovers'
  BY <1>1 DEF MemoryCovers
<1>3. CASE disk' = s
  <2>1. Filed' = mem.open
    BY <1>3, BotAssumption DEF Filed
  <2> QED
    BY <1>1, <1>2, <2>1 DEF MemoryCovers, FileCovers, AtRest
<1>4. CASE disk' = disk /\ hit' = hit \union ({tok} \ {NoToken})
  BY <1>1, <1>2, <1>4 DEF FileCovers, Filed, TypeInv, TypeOK, AtRest
<1> QED
  BY <1>2, <1>3, <1>4 DEF Save, Glitch, AtRest

\* Starting, stopping and the calendar explain no less.
LEMMA OrphanLife ==
    ASSUME TypeInv, TypeInv', OrphanInv,
           Stop \/ Crash \/ Midnight \/ Tick \/ \E r \in BOOLEAN : Boot(r)
    PROVE  OrphanInv'
<1>1. CASE Stop
  BY <1>1 DEF Stop, Goto, faulty, calendar, OrphanInv, FileCovers, Filed, TypeInv, TypeOK
<1>2. CASE Crash
  BY <1>2 DEF Crash, Goto, Done, calendar, OrphanInv, FileCovers, Filed, TypeInv, TypeOK
<1>3. CASE Midnight
  BY <1>3 DEF Midnight, faulty, OrphanInv, MemoryCovers, FileCovers, Filed
<1>4. CASE Tick
  <2>1. tok' = NoToken /\ pc' \in AtRest /\ held' = held /\ mem \in States
    BY <1>4 DEF Tick, Goto, AtRest, TypeInv, TypeOK
  <2>2. CASE UNCHANGED <<mem, disk>> /\ Smooth
    BY <1>4, <2>1, <2>2 DEF Tick, Goto, Smooth, faulty, calendar, OrphanInv,
       MemoryCovers, FileCovers, Filed, AtRest, TypeInv, TypeOK
  <2>3. CASE mem' = [mem EXCEPT !.daily = 0, !.reset = day] /\ Save(mem')
    <3>1. mem'.open = mem.open /\ mem' \in States
      BY <2>1, <2>3 DEF States, TypeInv, TypeOK
    <3> QED
      BY <1>4, <2>1, <2>3, <3>1, OrphanSave DEF Tick
  <2> QED
    BY <1>4, <2>2, <2>3 DEF Tick
<1>5. ASSUME NEW r \in BOOLEAN, Boot(r) PROVE OrphanInv'
  <2> SUFFICES ASSUME rebuilds' = 0 PROVE OrphanInv'
    BY DEF OrphanInv
  <2>1. r = FALSE /\ rebuilds = 0 /\ pc = "down" /\ tok = NoToken
    BY <1>5 DEF Boot, TypeInv, TypeOK
  <2>2. /\ FileCovers
        /\ pc' = "tick" /\ UNCHANGED <<tok, held, hit>>
    BY <1>5, <2>1 DEF Boot, Goto, OrphanInv
  <2>3. CASE disk = NoFile
    <3>1. \A t \in Tokens : held[t] > 0 => t \in hit
      BY <2>1, <2>2, <2>3, BotAssumption DEF FileCovers, Filed, None
    <3> QED
      BY <2>1, <2>2, <3>1 DEF OrphanInv, MemoryCovers, FileCovers
  <2>4. CASE disk # NoFile
    <3>1. mem' = disk /\ disk' = disk
      BY <1>5, <2>1, <2>4 DEF Boot
    <3> QED
      BY <2>1, <2>2, <2>4, <3>1, BotAssumption
      DEF OrphanInv, MemoryCovers, FileCovers, Filed
  <2> QED
    BY <2>3, <2>4
<1> QED
  BY <1>1, <1>2, <1>3, <1>4, <1>5

\* A position is closed after its token has left the wallet.
LEMMA OrphanClose ==
    ASSUME TypeInv, TypeInv', OrphanInv, Close \/ EndMonitor
    PROVE  OrphanInv'
<1> SUFFICES ASSUME rebuilds' = 0 PROVE OrphanInv'
  BY DEF OrphanInv
<1> USE DEF Goto, Done, Begin, faulty, calendar, TypeInv, TypeOK
<1>1. ASSUME NEW t \in Tokens, Exit(t) PROVE OrphanInv'
  BY <1>1 DEF Exit, Smooth, Glitch, OrphanInv, MemoryCovers, FileCovers, Filed
<1>2. CASE Sell
  BY <1>2 DEF Sell, Smooth, Glitch, OrphanInv, MemoryCovers, FileCovers, Filed
<1>3. CASE Book
  <2>1. \A t \in Tokens \ {tok} : mem'.open[t] = mem.open[t]
    BY <1>3 DEF Book, States
  <2>2. /\ tok \in Tokens
        /\ held[tok] = 0 \/ tok \in hit
        /\ MemoryCovers /\ FileCovers
    BY <1>3 DEF Book, OrphanInv
  <2>3. MemoryCovers'
    BY <1>3, <2>1, <2>2 DEF Book, MemoryCovers
  <2>4. FileCovers'
    BY <1>3, <2>2 DEF Book, FileCovers, Filed
  <2> QED
    BY <1>3, <2>2, <2>3, <2>4 DEF Book, OrphanInv
<1>4. CASE SaveClose
  <2>1. mem \in States /\ mem' = mem /\ held' = held /\ tok' = NoToken
        /\ pc = "closed" /\ pc' = "monitor" /\ Save(mem)
    BY <1>4 DEF SaveClose
  <2> QED
    BY <2>1, OrphanSave DEF AtRest
<1>5. CASE EndMonitor
  BY <1>5 DEF EndMonitor, OrphanInv, MemoryCovers, FileCovers, Filed
<1> QED
  BY <1>1, <1>2, <1>3, <1>4, <1>5 DEF Close

\* A token that enters the wallet is in memory one step later, or in hit.
LEMMA OrphanOpen ==
    ASSUME TypeInv, TypeInv', OrphanInv, Open \/ EndPoll
    PROVE  OrphanInv'
<1> SUFFICES ASSUME rebuilds' = 0 PROVE OrphanInv'
  BY DEF OrphanInv
<1> USE DEF Goto, Done, Begin, faulty, calendar, TypeInv, TypeOK
<1>1. ASSUME NEW t \in Tokens, Entry(t) PROVE OrphanInv'
  BY <1>1 DEF Entry, OrphanInv, MemoryCovers, FileCovers, Filed
<1>2. CASE Buy
  BY <1>2 DEF Buy, Smooth, Glitch, OrphanInv, MemoryCovers, FileCovers, Filed
<1>3. CASE BookEntry
  <2>1. \A t \in Tokens \ {tok} : mem'.open[t] = mem.open[t]
    BY <1>3 DEF BookEntry, States
  <2>2. tok \in Tokens /\ mem'.open[tok] > 0
    BY <1>3 DEF BookEntry, States
  <2>3. MemoryCovers /\ FileCovers
    BY <1>3 DEF BookEntry, OrphanInv
  <2>4. MemoryCovers'
    BY <1>3, <2>1, <2>2, <2>3 DEF BookEntry, MemoryCovers
  <2>5. FileCovers'
    BY <1>3, <2>3 DEF BookEntry, FileCovers, Filed
  <2> QED
    BY <1>3, <2>4, <2>5 DEF BookEntry, OrphanInv
<1>4. CASE SaveEntry
  <2>1. mem \in States /\ mem' = mem /\ held' = held /\ tok' = NoToken
        /\ pc = "opened" /\ pc' = "poll" /\ Save(mem)
    BY <1>4 DEF SaveEntry
  <2> QED
    BY <2>1, OrphanSave DEF AtRest
<1>5. CASE EndPoll
  BY <1>5 DEF EndPoll, OrphanInv, MemoryCovers, FileCovers, Filed
<1> QED
  BY <1>1, <1>2, <1>3, <1>4, <1>5 DEF Open

\* A token is held without a position only after a fault in a trade of that
\* token, for any instruments, limits, crashes and glitches: restarts, failed
\* swaps and faults of other tokens lose nothing.
THEOREM NoSilentOrphanCorrect == Spec => []NoSilentOrphan
<1>1. TypeInv /\ OrphanInv /\ [Next]_vars => OrphanInv'
  <2> SUFFICES ASSUME TypeInv, OrphanInv, [Next]_vars PROVE OrphanInv'
    OBVIOUS
  <2>1. TypeInv'
    BY NextType
  <2>2. CASE Next
    BY <2>1, <2>2, OrphanLife, OrphanClose, OrphanOpen DEF Next
  <2>3. CASE UNCHANGED vars
    BY <2>3 DEF vars, OrphanInv, MemoryCovers, FileCovers, Filed
  <2> QED
    BY <2>2, <2>3
<1>2. TypeInv /\ OrphanInv => NoSilentOrphan
  BY DEF OrphanInv, MemoryCovers, NoSilentOrphan, Orphans
<1> QED
  BY InitType, NextType, OrphanInit, <1>1, <1>2, PTL DEF Spec
------------------------------------------------------------------------------
(* Sums over the instruments: what Total, a fold of the library, does to    *)
(* functions that differ at one token or cover one another.                *)

\* Induction over the subsets of Tokens, by a smallest counterexample.
LEMMA SubsetInduction ==
    ASSUME NEW G,
           \A s \in SUBSET Tokens : (\A t \in s : s \ {t} \in G) => s \in G
    PROVE  SUBSET Tokens \subseteq G
<1> DEFINE Bad == (SUBSET Tokens) \ G
           Smaller == StrictSubsetOrdering(Tokens)
<1> SUFFICES ASSUME Bad # {} PROVE FALSE
  OBVIOUS
<1>1. PICK s \in Bad : \A r \in Bad : ~ (<<r, s>> \in Smaller)
  <2>1. IsWellFoundedOn(Smaller, FiniteSubsetsOf(Tokens))
    BY FS_StrictSubsetOrderingWellFounded
  <2>2. Bad \subseteq FiniteSubsetsOf(Tokens)
    BY BotAssumption, FS_Subset DEF FiniteSubsetsOf
  <2> HIDE DEF Smaller, Bad
  <2> QED
    BY <2>1, <2>2, WFMin
<1>2. ASSUME NEW t \in s, s \ {t} \notin G PROVE FALSE
  <2>1. <<s \ {t}, s>> \in Smaller
    BY <1>2 DEF StrictSubsetOrdering
  <2> QED
    BY <1>1, <1>2, <2>1
<1> QED
  BY <1>1, <1>2

\* What the definition of a sum unfolds to.
Pick(s) == CHOOSE t \in s : TRUE
SumsTo(f, g) ==
    g = [s \in SUBSET Tokens |-> IF s = {} THEN 0 ELSE f[Pick(s)] + g[s \ {Pick(s)}]]
Sums(f) == CHOOSE g : SumsTo(f, g)

\* Total, which folds over the instruments, is this sum over all of them.
LEMMA TotalIsSum == \A f : Total(f) = Sums(f)[Tokens]
BY DEF Total, Sums, SumsTo, Pick, MapThenSumSet, MapThenFoldSet

\* The recursion has a solution: one for the subsets up to some size gives
\* one for those with one element more.
LEMMA SumsExist == ASSUME NEW f PROVE SumsTo(f, Sums(f))
<1> DEFINE Step(g, s) == IF s = {} THEN 0 ELSE f[Pick(s)] + g[s \ {Pick(s)}]
           UpTo(g, n) == \A r \in SUBSET Tokens : Cardinality(r) <= n => g[r] = Step(g, r)
           G == {s \in SUBSET Tokens : \E g : UpTo(g, Cardinality(s))}
<1>1. \A s \in SUBSET Tokens : IsFiniteSet(s) /\ Cardinality(s) \in Nat
  BY BotAssumption, FS_Subset, FS_CardinalityType
<1>2. \A s \in SUBSET Tokens : \A t \in s :
        Cardinality(s \ {t}) = Cardinality(s) - 1 /\ s \ {t} \in SUBSET Tokens
  BY <1>1, FS_RemoveElement
<1>3. \A s \in SUBSET Tokens : s # {} => Pick(s) \in s
  BY DEF Pick
<1>4. ASSUME NEW s \in SUBSET Tokens, \A t \in s : s \ {t} \in G PROVE s \in G
  <2>1. CASE s = {}
    <3> DEFINE g == [r \in SUBSET Tokens |-> 0]
    <3>1. \A r \in SUBSET Tokens : Cardinality(r) <= 0 => r = {}
      BY <1>1, FS_EmptySet
    <3>2. UpTo(g, 0)
      BY <3>1
    <3>3. Cardinality(s) = 0
      BY <2>1, FS_EmptySet
    <3> HIDE DEF g, UpTo
    <3> QED
      BY <3>2, <3>3
  <2>2. CASE s # {}
    <3> DEFINE n == Cardinality(s \ {Pick(s)})
    <3>1. PICK g : UpTo(g, n)
      BY <1>3, <1>4, <2>2
    <3>2. n \in Nat /\ Cardinality(s) = n + 1
      BY <1>1, <1>2, <1>3, <2>2
    <3> HIDE DEF n
    <3> DEFINE h == [r \in SUBSET Tokens |-> Step(g, r)]
    <3>3. \A r \in SUBSET Tokens : Cardinality(r) <= n => h[r] = g[r]
      BY <3>1
    <3>4. ASSUME NEW r \in SUBSET Tokens, Cardinality(r) <= n + 1 PROVE h[r] = Step(h, r)
      <4>1. CASE r = {}
        BY <4>1
      <4>2. CASE r # {}
        <5>1. r \ {Pick(r)} \in SUBSET Tokens /\ Cardinality(r \ {Pick(r)}) <= n
          BY <1>1, <1>2, <1>3, <3>2, <3>4, <4>2
        <5>2. h[r \ {Pick(r)}] = g[r \ {Pick(r)}]
          BY <3>3, <5>1
        <5> QED
          BY <4>2, <5>2
      <4> QED
        BY <4>1, <4>2
    <3>5. UpTo(h, n + 1)
      BY <3>4
    <3> HIDE DEF h, UpTo
    <3> QED
      BY <3>2, <3>5
  <2> QED
    BY <2>1, <2>2
<1>5. Tokens \in G
  <2> HIDE DEF G
  <2> QED
    BY <1>4, SubsetInduction
<1>6. PICK g : UpTo(g, Cardinality(Tokens))
  BY <1>5
<1>7. \A r \in SUBSET Tokens : g[r] = Step(g, r)
  <2>1. \A r \in SUBSET Tokens : Cardinality(r) <= Cardinality(Tokens)
    BY BotAssumption, FS_Subset
  <2> QED
    BY <1>6, <2>1
<1> DEFINE h == [r \in SUBSET Tokens |-> g[r]]
<1>8. SumsTo(f, h)
  <2>1. \A r \in SUBSET Tokens : r # {} => h[r \ {Pick(r)}] = g[r \ {Pick(r)}]
    BY <1>2, <1>3
  <2>2. \A r \in SUBSET Tokens : h[r] = IF r = {} THEN 0 ELSE f[Pick(r)] + h[r \ {Pick(r)}]
    BY <1>7, <2>1
  <2> QED
    BY <2>2 DEF SumsTo
<1> QED
  BY <1>8 DEF Sums

\* A sum is the picked summand and the sum of the others.
LEMMA SumsStep ==
    ASSUME NEW f
    PROVE  /\ Sums(f)[{}] = 0
           /\ \A s \in SUBSET Tokens : s # {} =>
                /\ Pick(s) \in s
                /\ Sums(f)[s] = f[Pick(s)] + Sums(f)[s \ {Pick(s)}]
<1>1. \A s \in SUBSET Tokens :
        Sums(f)[s] = IF s = {} THEN 0 ELSE f[Pick(s)] + Sums(f)[s \ {Pick(s)}]
  BY SumsExist DEF SumsTo
<1> QED
  BY <1>1 DEF Pick

\* A sum of natural numbers is one, and zeros sum to zero.
LEMMA TotalType ==
    ASSUME NEW f \in [Tokens -> Nat]
    PROVE  /\ Total(f) \in Nat
           /\ (\A t \in Tokens : f[t] = 0) => Total(f) = 0
<1> DEFINE G == {s \in SUBSET Tokens :
                   /\ Sums(f)[s] \in Nat
                   /\ (\A t \in Tokens : f[t] = 0) => Sums(f)[s] = 0}
<1>1. ASSUME NEW s \in SUBSET Tokens, \A t \in s : s \ {t} \in G PROVE s \in G
  <2>1. CASE s = {}
    BY <2>1, SumsStep
  <2>2. CASE s # {}
    <3>1. Pick(s) \in s /\ Sums(f)[s] = f[Pick(s)] + Sums(f)[s \ {Pick(s)}]
      BY <2>2, SumsStep
    <3>2. s \ {Pick(s)} \in G
      BY <1>1, <3>1
    <3> QED
      BY <3>1, <3>2
  <2> QED
    BY <2>1, <2>2
<1>2. Tokens \in G
  <2> HIDE DEF G
  <2> QED
    BY <1>1, SubsetInduction
<1> QED
  BY <1>2, TotalIsSum

\* Sums of functions that differ at one token differ by as much.
LEMMA TotalPoint ==
    ASSUME NEW f \in [Tokens -> Nat], NEW g \in [Tokens -> Nat], NEW t \in Tokens,
           \A u \in Tokens \ {t} : g[u] = f[u]
    PROVE  Total(g) = Total(f) + g[t] - f[t]
<1> DEFINE G == {s \in SUBSET Tokens :
                   /\ Sums(f)[s] \in Int
                   /\ Sums(g)[s] = Sums(f)[s] + (IF t \in s THEN g[t] - f[t] ELSE 0)}
<1>1. ASSUME NEW s \in SUBSET Tokens, \A u \in s : s \ {u} \in G PROVE s \in G
  <2>1. CASE s = {}
    BY <2>1, SumsStep
  <2>2. CASE s # {}
    <3>1. /\ Pick(s) \in s
          /\ Sums(f)[s] = f[Pick(s)] + Sums(f)[s \ {Pick(s)}]
          /\ Sums(g)[s] = g[Pick(s)] + Sums(g)[s \ {Pick(s)}]
      BY <2>2, SumsStep
    <3>2. s \ {Pick(s)} \in G
      BY <1>1, <3>1
    <3>3. CASE Pick(s) = t
      BY <3>1, <3>2, <3>3
    <3>4. CASE Pick(s) # t
      BY <3>1, <3>2, <3>4
    <3> QED
      BY <3>3, <3>4
  <2> QED
    BY <2>1, <2>2
<1>2. Tokens \in G
  <2> HIDE DEF G
  <2> QED
    BY <1>1, SubsetInduction
<1> QED
  BY <1>2, TotalIsSum

\* A function that two others cover token by token has no greater sum.
LEMMA TotalBelow ==
    ASSUME NEW f \in [Tokens -> Nat], NEW g \in [Tokens -> Nat], NEW k \in [Tokens -> Nat],
           \A t \in Tokens : k[t] <= f[t] + g[t]
    PROVE  Total(k) <= Total(f) + Total(g)
<1> DEFINE G == {s \in SUBSET Tokens :
                   /\ Sums(f)[s] \in Int /\ Sums(g)[s] \in Int /\ Sums(k)[s] \in Int
                   /\ Sums(k)[s] <= Sums(f)[s] + Sums(g)[s]}
<1>1. ASSUME NEW s \in SUBSET Tokens, \A u \in s : s \ {u} \in G PROVE s \in G
  <2>1. CASE s = {}
    BY <2>1, SumsStep
  <2>2. CASE s # {}
    <3>1. /\ Pick(s) \in s
          /\ Sums(f)[s] = f[Pick(s)] + Sums(f)[s \ {Pick(s)}]
          /\ Sums(g)[s] = g[Pick(s)] + Sums(g)[s \ {Pick(s)}]
          /\ Sums(k)[s] = k[Pick(s)] + Sums(k)[s \ {Pick(s)}]
      BY <2>2, SumsStep
    <3>2. s \ {Pick(s)} \in G
      BY <1>1, <3>1
    <3>3. k[Pick(s)] <= f[Pick(s)] + g[Pick(s)]
      BY <3>1
    <3> QED
      BY <3>1, <3>2, <3>3
  <2> QED
    BY <2>1, <2>2
<1>2. Tokens \in G
  <2> HIDE DEF G
  <2> QED
    BY <1>1, SubsetInduction
<1> QED
  BY <1>2, TotalIsSum
------------------------------------------------------------------------------
\* What weakens the counters: faults so far, an entry that is bought and not
\* booked, one that is not in the file.
Faults == crashes + glitches
Bought == IF pc = "bought" THEN 1 ELSE 0
Unsaved == IF pc \in {"bought", "opened"} THEN 1 ELSE 0

Monitoring == {"monitor", "selling", "booking", "closed"}
Polling == {"poll", "buying", "bought", "opened"}

\* A state of today leaves only so many entries; one of an earlier day will
\* be reset, and leaves all of them.  n entries are on their way into it.
LeftToday(s, n) == IF s.daily + n < MaxDaily THEN MaxDaily - s.daily - n ELSE 0
Within(s, n) ==
    IF s.reset = day
    THEN buys + LeftToday(s, n) <= MaxDaily + MaxConcurrent + Faults
    ELSE buys <= MaxConcurrent + Faults + n

\* The artifact log counts no less than a state of today does.
Dated(s) == s.reset <= day /\ (s.reset = day => s.daily <= log.rows)

\* In a poll that midnight interrupts every entry fills a free position.
Overnight ==
    mem.reset # day =>
        /\ buys <= MaxConcurrent + Faults
        /\ pc \in Monitoring => buys = 0
        /\ pc \in Polling =>
              /\ buys <= Total(mem.open) + Bought + Faults
              /\ buys <= Faults \/ Total(mem.open) + Bought <= MaxConcurrent

\* The file is not ahead of the memory.
FileBehind ==
    disk # NoFile /\ disk.reset = day =>
        IF mem.reset = day THEN disk.daily <= mem.daily
        ELSE disk.daily = 0 /\ pc = "tick"

\* The inductive invariant of the daily cap: whatever the process forgets,
\* the copy it will start from leaves no more entries than the cap does.
DailyInv ==
    /\ buys <= MaxDaily + MaxConcurrent + Faults
    /\ buys <= log.rows + Bought + Faults
    /\ Dated(mem)
    /\ disk # NoFile => Dated(disk) /\ Within(disk, Unsaved)
    /\ pc \in {"buying", "bought"} => mem.daily < MaxDaily /\ Total(mem.open) < MaxConcurrent
    /\ pc # "down" => /\ mem.reset = day => Within(mem, Bought)
                      /\ Overnight /\ FileBehind

\* At the start nothing has been bought.
LEMMA DailyInit == Init => DailyInv
BY BotAssumption DEF Init, DailyInv, Faults, Bought, Dated, EmptyState, EmptyLog

\* The numbers the arguments below reason about.
LEMMA Numbers ==
    ASSUME TypeOK
    PROVE  /\ buys \in Nat /\ day \in Nat \ {0} /\ crashes \in Nat /\ glitches \in Nat
           /\ log.rows \in Nat /\ Total(log.opened) \in Nat /\ Total(held) \in Nat
           /\ mem.daily \in Nat /\ mem.reset \in Nat /\ mem.spent \in Nat
           /\ Total(mem.open) \in Nat
           /\ disk # NoFile => disk \in States /\ disk.daily \in Nat /\ disk.reset \in Nat
                               /\ disk.spent \in Nat /\ disk.open \in [Tokens -> Nat]
           /\ {MaxConcurrent, MaxDaily, Budget} \subseteq Nat
<1>1. /\ log.opened \in [Tokens -> Nat] /\ held \in [Tokens -> Nat]
      /\ mem.open \in [Tokens -> Nat]
  BY DEF TypeOK, States
<1>2. /\ Total(log.opened) \in Nat /\ Total(held) \in Nat /\ Total(mem.open) \in Nat
  BY <1>1, TotalType
<1> QED
  BY <1>2, BotAssumption DEF TypeOK, States

\* A save reaches the file, or is one more fault.
LEMMA SaveFaults ==
    ASSUME TypeOK, NEW s, Save(s)
    PROVE  \/ disk' = s /\ Faults' = Faults
           \/ disk' = disk /\ Faults' = Faults + 1
<1>1. CASE disk' = s /\ Smooth
  BY <1>1 DEF Smooth, faulty, Faults
<1>2. CASE disk' = disk /\ Glitch(tok)
  BY <1>2, Numbers DEF Glitch, Faults
<1> QED
  BY <1>1, <1>2 DEF Save

\* A save of the memory leaves a file that leaves no more entries than it.
LEMMA DailySave ==
    ASSUME TypeInv, TypeInv', DailyInv, NEW s \in States, Save(s),
           pc \in {"closed", "opened"}, pc' \in {"monitor", "poll"},
           s = mem, mem' = mem, log' = log, day' = day, buys' = buys,
           pc = "closed" => pc' = "monitor", pc = "opened" => pc' = "poll"
    PROVE  DailyInv'
<1>0. TypeOK /\ TypeOK'
  BY DEF TypeInv
<1>1. PICK f \in Nat : /\ Faults' = f /\ Faults \in Nat
                       /\ \/ disk' = mem /\ f = Faults
                          \/ disk' = disk /\ f = Faults + 1
  <2>1. Faults \in Nat
    BY <1>0, Numbers DEF Faults
  <2>2. (disk' = mem /\ Faults' = Faults) \/ (disk' = disk /\ Faults' = Faults + 1)
    BY <1>0, SaveFaults
  <2> QED
    BY <2>1, <2>2
<1> buys \in Nat /\ mem.daily \in Nat /\ MaxDaily \in Nat /\ MaxConcurrent \in Nat
  BY <1>0, Numbers
<1>2. (buys <= MaxDaily + MaxConcurrent + Faults)'
  BY <1>1 DEF DailyInv
<1>3. Bought = 0 /\ Bought' = 0 /\ Unsaved' = 0 /\ Unsaved \in {0, 1}
  BY DEF Bought, Unsaved
<1>4. (buys <= log.rows + Bought + Faults)' /\ Dated(mem)'
  BY <1>0, <1>1, <1>3, Numbers DEF DailyInv, Dated
<1>5. (mem.reset = day => Within(mem, Bought))'
  BY <1>1, <1>3 DEF DailyInv, Within, LeftToday
<1>8. Overnight'
  <2> Total(mem.open) \in Nat
    BY <1>0, Numbers
  <2> QED
    BY <1>1, <1>3 DEF DailyInv, Overnight, Monitoring, Polling
<1>6. (disk # NoFile => Dated(disk) /\ Within(disk, Unsaved))'
  <2>1. CASE disk' = mem
    BY <1>1, <1>3, <1>4, <1>5, <1>8, <2>1 DEF Within, LeftToday, Dated, Overnight
  <2>2. CASE disk' = disk /\ f = Faults + 1
    <3> SUFFICES ASSUME disk # NoFile
        PROVE (Dated(disk) /\ Within(disk, Unsaved))'
      BY <2>2
    <3> disk.daily \in Nat
      BY <1>0, Numbers
    <3> QED
      BY <1>3, <2>2, <1>1 DEF DailyInv, Dated, Within, LeftToday
  <2> QED
    BY <1>1, <2>1, <2>2
<1>7. FileBehind'
  BY <1>0, <1>1, Numbers DEF DailyInv, FileBehind
<1> QED
  BY <1>2, <1>4, <1>5, <1>6, <1>7, <1>8 DEF DailyInv

\* Steps that only move the process: they leave the counters alone.
LEMMA DailyQuiet ==
    ASSUME TypeInv, DailyInv, UNCHANGED <<mem, disk, log, day, buys>>,
           Faults' = Faults \/ Faults' = Faults + 1,
           pc \notin {"down", "bought", "opened"}, pc' \notin {"down", "bought", "opened"},
           pc' = "buying" => mem.daily < MaxDaily /\ Total(mem.open) < MaxConcurrent,
           pc = "tick" => mem.reset = day,
           pc' \in Monitoring => pc \in Monitoring \union {"tick"},
           pc' \in Polling => pc \in Polling \union Monitoring
    PROVE  DailyInv'
<1>0. TypeOK
  BY DEF TypeInv
<1>1. PICK f \in Nat : Faults' = f /\ Faults \in Nat /\ (f = Faults \/ f = Faults + 1)
  BY <1>0, Numbers DEF Faults
<1>2. Bought = 0 /\ Bought' = 0 /\ Unsaved = 0 /\ Unsaved' = 0
  BY DEF Bought, Unsaved
<1> /\ buys \in Nat /\ mem.daily \in Nat /\ MaxDaily \in Nat /\ MaxConcurrent \in Nat
    /\ Total(mem.open) \in Nat /\ log.rows \in Nat
  BY <1>0, Numbers
<1>3. /\ (buys <= MaxDaily + MaxConcurrent + Faults)'
      /\ (buys <= log.rows + Bought + Faults)'
      /\ Dated(mem)'
  BY <1>1, <1>2 DEF DailyInv, Dated
<1>4. (disk # NoFile => Dated(disk) /\ Within(disk, Unsaved))'
  <2> SUFFICES ASSUME disk # NoFile PROVE (Dated(disk) /\ Within(disk, Unsaved))'
    OBVIOUS
  <2> disk.daily \in Nat
    BY <1>0, Numbers
  <2> QED
    BY <1>1, <1>2 DEF DailyInv, Dated, Within, LeftToday
<1>5. (mem.reset = day => Within(mem, Bought))'
  BY <1>1, <1>2 DEF DailyInv, Within, LeftToday
<1>6. Overnight'
  <2> SUFFICES ASSUME mem.reset # day
      PROVE /\ buys <= MaxConcurrent + f
            /\ pc' \in Monitoring => buys = 0
            /\ pc' \in Polling => /\ buys <= Total(mem.open) + f
                                  /\ buys <= f \/ Total(mem.open) <= MaxConcurrent
    BY <1>1, <1>2 DEF Overnight
  <2>1. /\ buys <= MaxConcurrent + Faults
        /\ pc \in Monitoring => buys = 0
        /\ pc \in Polling => /\ buys <= Total(mem.open) + Faults
                             /\ buys <= Faults \/ Total(mem.open) <= MaxConcurrent
    BY <1>2 DEF DailyInv, Overnight
  <2>2. pc # "tick"
    OBVIOUS
  <2> QED
    BY <1>1, <2>1, <2>2 DEF Monitoring, Polling
<1>7. FileBehind'
  BY DEF DailyInv, FileBehind
<1> QED
  BY <1>3, <1>4, <1>5, <1>6, <1>7 DEF DailyInv

\* A process that goes down forgets at most the entry under way.
LEMMA DailyDown ==
    ASSUME TypeInv, DailyInv, Stop \/ Crash
    PROVE  DailyInv'
<1>0. TypeOK
  BY DEF TypeInv
<1>1. PICK f \in Nat : /\ Faults' = f /\ Faults \in Nat
                       /\ Bought + Faults <= f /\ Unsaved + Faults <= f
  <2>1. CASE Stop
    BY <1>0, <2>1, Numbers DEF Stop, faulty, Faults, Bought, Unsaved
  <2>2. CASE Crash
    BY <1>0, <2>2, Numbers DEF Crash, Faults, Bought, Unsaved
  <2> QED
    BY <2>1, <2>2
<1>2. Bought \in {0, 1} /\ Bought' = 0 /\ Unsaved \in {0, 1} /\ Unsaved' = 0
  BY DEF Bought, Unsaved, Stop, Crash, Goto
<1>3. UNCHANGED <<disk, log, day, buys>> /\ mem' = EmptyState /\ pc' = "down"
  BY DEF Stop, Crash, Goto, calendar
<1> /\ buys \in Nat /\ day \in Nat \ {0} /\ MaxDaily \in Nat /\ MaxConcurrent \in Nat
    /\ log.rows \in Nat
  BY <1>0, Numbers
<1>4. /\ (buys <= MaxDaily + MaxConcurrent + Faults)'
      /\ (buys <= log.rows + Bought + Faults)'
  BY <1>1, <1>2, <1>3 DEF DailyInv
<1>5. Dated(mem)'
  BY <1>3 DEF Dated, EmptyState
<1>6. (disk # NoFile => Dated(disk) /\ Within(disk, Unsaved))'
  <2> SUFFICES ASSUME disk # NoFile PROVE (Dated(disk) /\ Within(disk, Unsaved))'
    BY <1>3
  <2> disk.daily \in Nat
    BY <1>0, Numbers
  <2> QED
    BY <1>1, <1>2, <1>3 DEF DailyInv, Dated, Within, LeftToday
<1> QED
  BY <1>3, <1>4, <1>5, <1>6 DEF DailyInv

\* Midnight makes both copies old, and nothing has been bought since.
LEMMA DailyMidnight == ASSUME TypeInv, DailyInv, Midnight PROVE DailyInv'
<1>0. TypeOK
  BY DEF TypeInv
<1>1. PICK f \in Nat : Faults' = f
  BY <1>0, Numbers DEF Midnight, faulty, Faults
<1>2. PICK b \in Nat, n \in Nat : Bought' = b /\ Unsaved' = n
  BY DEF Bought, Unsaved
<1> /\ day \in Nat /\ MaxDaily \in Nat /\ MaxConcurrent \in Nat
    /\ mem.reset \in Nat /\ Total(mem.open) \in Nat
  BY <1>0, Numbers
<1>3. /\ UNCHANGED <<pc, mem, disk>> /\ buys' = 0 /\ day' = day + 1 /\ log'.rows = 0
  BY DEF Midnight, EmptyLog
<1>4. mem.reset < day + 1
  BY DEF DailyInv, Dated
<1>5. disk # NoFile => disk.reset < day + 1
  BY <1>0, Numbers DEF DailyInv, Dated
<1>6. (disk # NoFile => Dated(disk) /\ Within(disk, Unsaved))'
  <2> SUFFICES ASSUME disk # NoFile PROVE (Dated(disk) /\ Within(disk, Unsaved))'
    BY <1>3
  <2> disk.reset \in Nat
    BY <1>0, Numbers
  <2> QED
    BY <1>1, <1>2, <1>3, <1>5 DEF Dated, Within
<1>7. Overnight'
  BY <1>1, <1>2, <1>3 DEF Overnight
<1>8. Dated(mem)' /\ ~ (mem.reset = day)'
  BY <1>3, <1>4 DEF Dated
<1>9. FileBehind'
  BY <1>0, <1>3, <1>5, Numbers DEF FileBehind
<1>10. (buys <= MaxDaily + MaxConcurrent + Faults)' /\ (buys <= log.rows + Bought + Faults)'
  BY <1>1, <1>2, <1>3
<1> QED
  BY <1>3, <1>6, <1>7, <1>8, <1>9, <1>10 DEF DailyInv

\* The reset at the top of the loop, saved or not.
LEMMA DailyTick == ASSUME TypeInv, TypeInv', DailyInv, Tick PROVE DailyInv'
<1>0. TypeOK
  BY DEF TypeInv
<1>1. CASE mem.reset = day /\ UNCHANGED <<mem, disk>> /\ Smooth
  <2>1. Faults' = Faults
    BY <1>1 DEF Smooth, faulty, Faults
  <2>2. pc = "tick" /\ pc' \in {"tick", "monitor"} /\ UNCHANGED <<log, day, buys>>
    BY DEF Tick, Goto, calendar
  <2> QED
    BY <1>1, <2>1, <2>2, DailyQuiet DEF Polling, Monitoring
<1>2. CASE /\ mem.reset # day
           /\ mem' = [mem EXCEPT !.daily = 0, !.reset = day]
           /\ Save(mem')
  <2>1. /\ mem'.daily = 0 /\ mem'.reset = day
        /\ pc = "tick" /\ pc' \in {"tick", "monitor"} /\ UNCHANGED <<log, day, buys>>
    BY <1>0, <1>2 DEF Tick, Goto, calendar, TypeOK, States
  <2>2. PICK f \in Nat : /\ Faults' = f /\ Faults \in Nat
                         /\ \/ disk' = mem' /\ f = Faults
                            \/ disk' = disk /\ f = Faults + 1
    <3>1. Faults \in Nat
      BY <1>0, Numbers DEF Faults
    <3>2. (disk' = mem' /\ Faults' = Faults) \/ (disk' = disk /\ Faults' = Faults + 1)
      BY <1>0, <1>2, SaveFaults
    <3> QED
      BY <3>1, <3>2
  <2>3. Bought = 0 /\ Bought' = 0 /\ Unsaved = 0 /\ Unsaved' = 0
    BY <2>1 DEF Bought, Unsaved
  <2> /\ buys \in Nat /\ MaxDaily \in Nat /\ MaxConcurrent \in Nat /\ log.rows \in Nat
      /\ day \in Nat
    BY <1>0, Numbers
  <2>4. buys <= MaxConcurrent + Faults
    BY <1>2, <2>1 DEF DailyInv, Overnight
  <2>5. (buys <= MaxDaily + MaxConcurrent + Faults)' /\ (buys <= log.rows + Bought + Faults)'
    BY <2>1, <2>2, <2>3, <2>4 DEF DailyInv
  <2>6. Dated(mem)' /\ Within(mem, 0)'
    BY <2>1, <2>2, <2>4 DEF Dated, Within, LeftToday
  <2>7. (disk # NoFile => Dated(disk) /\ Within(disk, Unsaved))'
    <3>1. CASE disk' = mem'
      BY <2>3, <2>6, <3>1 DEF Dated, Within, LeftToday
    <3>2. CASE disk' = disk /\ f = Faults + 1
      <4> SUFFICES ASSUME disk # NoFile PROVE (Dated(disk) /\ Within(disk, Unsaved))'
        BY <3>2
      <4> disk.daily \in Nat
        BY <1>0, Numbers
      <4> QED
        BY <2>1, <2>2, <2>3, <3>2 DEF DailyInv, Dated, Within, LeftToday
    <3> QED
      BY <2>2, <3>1, <3>2
  <2>8. Overnight'
    BY <2>1 DEF Overnight
  <2>9. FileBehind'
    <3>1. CASE disk' = mem'
      BY <2>1, <3>1 DEF FileBehind
    <3>2. CASE disk' = disk
      BY <1>2, <2>1, <3>2 DEF DailyInv, FileBehind
    <3> QED
      BY <2>2, <3>1, <3>2
  <2> QED
    BY <2>1, <2>3, <2>5, <2>6, <2>7, <2>8, <2>9 DEF DailyInv
<1> QED
  BY <1>1, <1>2 DEF Tick

\* A start loads the file or replays the log, and the file may not be
\* rewritten.
LEMMA DailyBoot ==
    ASSUME TypeInv, TypeInv', DailyInv, NEW r \in BOOLEAN, Boot(r)
    PROVE  DailyInv'
<1>0. TypeOK
  BY DEF TypeInv
<1>1. PICK f \in Nat : /\ Faults' = f /\ Faults \in Nat
                       /\ f = Faults \/ f = Faults + 1
  BY <1>0, Numbers DEF Boot, Faults
<1>2. pc = "down" /\ pc' = "tick" /\ UNCHANGED <<log, day, buys>>
  BY DEF Boot, Goto, calendar
<1>3. Bought = 0 /\ Bought' = 0 /\ Unsaved = 0 /\ Unsaved' = 0
  BY <1>2 DEF Bought, Unsaved
<1> /\ buys \in Nat /\ MaxDaily \in Nat /\ MaxConcurrent \in Nat /\ log.rows \in Nat
    /\ day \in Nat \ {0}
  BY <1>0, Numbers
<1>4. (buys <= MaxDaily + MaxConcurrent + Faults)' /\ (buys <= log.rows + Bought + Faults)'
  BY <1>1, <1>2, <1>3 DEF DailyInv
<1>5. disk # NoFile => (Dated(disk) /\ Within(disk, 0) /\ disk.daily \in Nat)
  BY <1>0, <1>3, Numbers DEF DailyInv
<1>6. CASE mem' = disk /\ disk' = disk /\ disk # NoFile
  <2>1. Dated(mem)' /\ Dated(disk)'
    BY <1>2, <1>5, <1>6 DEF Dated
  <2>2. Within(mem, 0)' /\ Within(disk, 0)'
    BY <1>1, <1>2, <1>5, <1>6 DEF Within, LeftToday
  <2>3. Overnight'
    BY <1>1, <1>2, <1>6, <2>2 DEF Overnight, Within, Monitoring, Polling
  <2>4. FileBehind'
    BY <1>2, <1>5, <1>6 DEF FileBehind
  <2> QED
    BY <1>2, <1>3, <1>4, <2>1, <2>2, <2>3, <2>4 DEF DailyInv
<1>7. CASE /\ mem' = EmptyState /\ log.rows = 0
           /\ disk' = mem' \/ disk' = disk
  <2>1. buys <= Faults
    BY <1>1, <1>3, <1>7 DEF DailyInv
  <2>2. mem'.reset = 0 /\ mem'.daily = 0
    BY <1>7 DEF EmptyState
  <2>3. Dated(mem)'
    BY <1>2, <2>2 DEF Dated
  <2>4. Overnight'
    BY <1>1, <1>2, <2>1 DEF Overnight, Monitoring, Polling
  <2>5. (disk # NoFile => Dated(disk) /\ Within(disk, Unsaved))'
    <3>1. CASE disk' = mem'
      BY <1>1, <1>2, <1>3, <2>1, <2>2, <2>3, <3>1 DEF Dated, Within
    <3>2. CASE disk' = disk
      BY <1>1, <1>2, <1>3, <1>5, <3>2 DEF Dated, Within, LeftToday
    <3> QED
      BY <1>7, <3>1, <3>2
  <2>6. FileBehind'
    <3>1. CASE disk' = mem'
      BY <1>2, <2>2, <3>1 DEF FileBehind
    <3>2. CASE disk' = disk
      BY <1>2, <1>5, <1>7, <2>2, <3>2 DEF FileBehind, Dated
    <3> QED
      BY <1>7, <3>1, <3>2
  <2> QED
    BY <1>2, <1>3, <1>4, <2>2, <2>3, <2>4, <2>5, <2>6 DEF DailyInv
<1>8. CASE mem' = Rebuilt /\ (disk' = mem' \/ disk' = disk)
  <2>1. mem'.reset = day /\ mem'.daily = log.rows
    BY <1>8 DEF Rebuilt
  <2>2. buys <= log.rows + Faults
    BY <1>3 DEF DailyInv
  <2>3. Dated(mem)' /\ Within(mem, 0)'
    BY <1>1, <1>2, <1>3, <1>4, <2>1, <2>2 DEF Dated, Within, LeftToday
  <2>4. Overnight'
    BY <1>2, <2>1 DEF Overnight
  <2>5. (disk # NoFile => Dated(disk) /\ Within(disk, Unsaved))'
    <3>1. CASE disk' = mem'
      BY <1>3, <2>3, <3>1 DEF Dated, Within, LeftToday
    <3>2. CASE disk' = disk
      BY <1>1, <1>2, <1>3, <1>5, <3>2 DEF Dated, Within, LeftToday
    <3> QED
      BY <1>8, <3>1, <3>2
  <2>6. FileBehind'
    <3>1. CASE disk' = mem'
      BY <1>2, <2>1, <3>1 DEF FileBehind
    <3>2. CASE disk' = disk
      BY <1>2, <1>5, <2>1, <3>2 DEF FileBehind, Dated
    <3> QED
      BY <1>8, <3>1, <3>2
  <2> QED
    BY <1>2, <1>3, <1>4, <2>1, <2>3, <2>4, <2>5, <2>6 DEF DailyInv
<1> QED
  BY <1>6, <1>7, <1>8 DEF Boot

\* What Smooth and Glitch do to the count of faults.
LEMMA StepFaults ==
    ASSUME TypeOK
    PROVE  /\ Smooth => Faults' = Faults
           /\ \A t \in Tokens : Glitch(t) => Faults' = Faults + 1
           /\ UNCHANGED faulty => Faults' = Faults
BY Numbers DEF Smooth, Glitch, faulty, Faults

\* Closing a position does not touch the counters of the day.
LEMMA DailyClose ==
    ASSUME TypeInv, TypeInv', DailyInv, Close \/ EndMonitor
    PROVE  DailyInv'
<1>0. TypeOK
  BY DEF TypeInv
<1> USE DEF Goto, Begin, Done, calendar
<1>1. ASSUME NEW t \in Tokens, Exit(t) PROVE DailyInv'
  <2>1. Faults' = Faults \/ Faults' = Faults + 1
    BY <1>0, <1>1, StepFaults DEF Exit
  <2>2. /\ UNCHANGED <<mem, disk, log, day, buys>>
        /\ pc = "monitor" /\ pc' \in {"selling", "booking"}
    BY <1>1 DEF Exit
  <2> QED
    BY <2>1, <2>2, DailyQuiet DEF Monitoring, Polling
<1>2. CASE Sell
  <2>0. tok \in Tokens
    BY <1>0, <1>2 DEF Sell, TypeOK
  <2>1. Faults' = Faults \/ Faults' = Faults + 1
    BY <1>0, <1>2, <2>0, StepFaults DEF Sell
  <2>2. /\ UNCHANGED <<mem, disk, log, day, buys>>
        /\ pc = "selling" /\ pc' \in {"monitor", "booking"}
    BY <1>2 DEF Sell
  <2> QED
    BY <2>1, <2>2, DailyQuiet DEF Monitoring, Polling
<1>3. CASE Book
  <2>1. Faults' = Faults /\ Faults \in Nat
    BY <1>0, <1>3, StepFaults, Numbers DEF Book, Faults
  <2>2. /\ mem'.daily = mem.daily /\ mem'.reset = mem.reset /\ log'.rows = log.rows
        /\ UNCHANGED <<disk, day, buys>>
        /\ pc = "booking" /\ pc' = "closed"
    BY <1>0, <1>3 DEF Book, TypeOK, States
  <2>3. Bought = 0 /\ Bought' = 0 /\ Unsaved = 0 /\ Unsaved' = 0
    BY <2>2 DEF Bought, Unsaved
  <2>4. Overnight'
    BY <2>1, <2>2 DEF DailyInv, Overnight, Monitoring, Polling
  <2>5. FileBehind'
    BY <2>2 DEF DailyInv, FileBehind
  <2>6. (disk # NoFile => Dated(disk) /\ Within(disk, Unsaved))'
    BY <2>1, <2>2, <2>3 DEF DailyInv, Dated, Within, LeftToday
  <2>7. Dated(mem)' /\ (mem.reset = day => Within(mem, Bought))'
    BY <2>1, <2>2, <2>3 DEF DailyInv, Dated, Within, LeftToday
  <2>8. (buys <= MaxDaily + MaxConcurrent + Faults)' /\ (buys <= log.rows + Bought + Faults)'
    BY <2>1, <2>2, <2>3 DEF DailyInv
  <2> QED
    BY <2>2, <2>4, <2>5, <2>6, <2>7, <2>8 DEF DailyInv
<1>4. CASE SaveClose
  BY <1>0, <1>4, DailySave DEF SaveClose, TypeOK
<1>5. CASE EndMonitor
  <2>1. Faults' = Faults
    BY <1>0, <1>5, StepFaults DEF EndMonitor
  <2> QED
    BY <1>5, <2>1, DailyQuiet DEF EndMonitor, Monitoring, Polling
<1> QED
  BY <1>1, <1>2, <1>3, <1>4, <1>5 DEF Close

\* An entry that lands takes one of the entries left, in memory and in the
\* file, unless its report was lost.
LEMMA DailyBuy ==
    ASSUME TypeInv, TypeInv', DailyInv, Buy
    PROVE  DailyInv'
<1>0. TypeOK /\ tok \in Tokens
  BY DEF TypeInv, TypeOK, Buy
<1> USE DEF Goto, Begin, Done, calendar
<1>1. pc = "buying" /\ UNCHANGED <<mem, disk, log, day>>
  BY DEF Buy
<1>2. CASE buys' = buys
  <2>1. Faults' = Faults /\ pc' = "poll"
    BY <1>0, <1>2, StepFaults, Numbers DEF Buy
  <2> QED
    BY <1>1, <1>2, <2>1, DailyQuiet DEF Monitoring, Polling
<1>3. CASE /\ buys' = buys + 1
           /\ \/ pc' = "bought" /\ Smooth
              \/ pc' = "poll" /\ Glitch(tok)
  <2>1. PICK f \in Nat, b \in Nat :
          /\ Faults' = f /\ Bought' = b /\ Unsaved' = b
          /\ Faults \in Nat /\ f + b = Faults + 1 /\ b \in {0, 1}
    <3>1. Faults \in Nat
      BY <1>0, Numbers DEF Faults
    <3>2. CASE pc' = "bought" /\ Smooth
      BY <1>0, <3>1, <3>2, StepFaults DEF Bought, Unsaved
    <3>3. CASE pc' = "poll" /\ Glitch(tok)
      BY <1>0, <3>1, <3>3, StepFaults DEF Bought, Unsaved
    <3> QED
      BY <1>3, <3>2, <3>3
  <2>2. Bought = 0 /\ Unsaved = 0
    BY <1>1 DEF Bought, Unsaved
  <2> /\ buys \in Nat /\ mem.daily \in Nat /\ MaxDaily \in Nat /\ MaxConcurrent \in Nat
      /\ Total(mem.open) \in Nat /\ log.rows \in Nat
    BY <1>0, Numbers
  <2>3. mem.daily < MaxDaily /\ Total(mem.open) < MaxConcurrent
    BY <1>1 DEF DailyInv
  <2>4. buys + 1 <= MaxDaily + MaxConcurrent + Faults
    <3>1. CASE mem.reset = day
      BY <1>1, <2>1, <2>2, <2>3, <3>1 DEF DailyInv, Within, LeftToday
    <3>2. CASE mem.reset # day
      BY <1>1, <2>1, <2>2, <2>3, <3>2 DEF DailyInv, Overnight, Polling
    <3> QED
      BY <3>1, <3>2
  <2>5. (buys <= MaxDaily + MaxConcurrent + Faults)'
    BY <1>3, <2>1, <2>4
  <2>6. (buys <= log.rows + Bought + Faults)' /\ Dated(mem)'
    BY <1>1, <1>3, <2>1, <2>2 DEF DailyInv, Dated
  <2>7. (mem.reset = day => Within(mem, Bought))'
    BY <1>1, <1>3, <2>1, <2>2, <2>3 DEF DailyInv, Within, LeftToday
  <2>8. Overnight'
    <3> SUFFICES ASSUME mem.reset # day
        PROVE /\ buys + 1 <= MaxConcurrent + f
              /\ buys + 1 <= Total(mem.open) + b + f
              /\ Total(mem.open) + b <= MaxConcurrent
      BY <1>1, <1>3, <2>1 DEF Overnight, Monitoring, Polling
    <3>1. buys <= Total(mem.open) + Faults
      BY <1>1, <2>1, <2>2 DEF DailyInv, Overnight, Polling
    <3> QED
      BY <2>1, <2>3, <3>1
  <2>9. FileBehind'
    BY <1>1, <1>3 DEF DailyInv, FileBehind
  <2>10. (disk # NoFile => Dated(disk) /\ Within(disk, Unsaved))'
    <3> SUFFICES ASSUME disk # NoFile PROVE (Dated(disk) /\ Within(disk, Unsaved))'
      BY <1>1
    <3>1. Dated(disk) /\ Within(disk, 0) /\ disk.daily \in Nat
      BY <1>0, <2>2, Numbers DEF DailyInv
    <3>2. disk.reset = day => mem.reset = day /\ disk.daily <= mem.daily
      BY <1>1 DEF DailyInv, FileBehind
    <3>3. Dated(disk)'
      BY <1>1, <3>1 DEF Dated
    <3>4. Within(disk, Unsaved)'
      BY <1>1, <1>3, <2>1, <2>3, <3>1, <3>2 DEF Within, LeftToday
    <3> QED
      BY <3>3, <3>4
  <2> QED
    BY <1>1, <1>3, <2>3, <2>5, <2>6, <2>7, <2>8, <2>9, <2>10 DEF DailyInv
<1> QED
  BY <1>2, <1>3 DEF Buy

\* Booking moves the entry from "bought" into the memory and the log.
LEMMA DailyBook ==
    ASSUME TypeInv, TypeInv', DailyInv, BookEntry
    PROVE  DailyInv'
<1>0. TypeOK /\ tok \in Tokens
  BY DEF TypeInv, TypeOK, BookEntry
<1>1. /\ pc = "bought" /\ pc' = "opened" /\ UNCHANGED <<disk, day, buys>>
      /\ mem'.daily = mem.daily + 1 /\ mem'.reset = mem.reset
      /\ log'.rows = log.rows + 1
      /\ mem'.open = [mem.open EXCEPT ![tok] = @ + 1]
  BY <1>0 DEF BookEntry, Goto, calendar, TypeOK, States
<1>2. Faults' = Faults /\ Faults \in Nat
  BY <1>0, StepFaults, Numbers DEF BookEntry, Faults
<1>3. Bought = 1 /\ Bought' = 0 /\ Unsaved = 1 /\ Unsaved' = 1
  BY <1>1 DEF Bought, Unsaved
<1> /\ buys \in Nat /\ mem.daily \in Nat /\ MaxDaily \in Nat /\ MaxConcurrent \in Nat
    /\ Total(mem.open) \in Nat /\ log.rows \in Nat
  BY <1>0, Numbers
<1>4. Total(mem'.open) = Total(mem.open) + 1
  <2>1. mem.open \in [Tokens -> Nat] /\ mem'.open \in [Tokens -> Nat]
    BY <1>0, <1>1 DEF TypeOK, States
  <2>2. Total(mem'.open) = Total(mem.open) + mem'.open[tok] - mem.open[tok]
    BY <1>0, <1>1, <2>1, TotalPoint
  <2> QED
    BY <1>0, <1>1, <2>1, <2>2
<1>5. (buys <= MaxDaily + MaxConcurrent + Faults)' /\ (buys <= log.rows + Bought + Faults)'
  BY <1>1, <1>2, <1>3 DEF DailyInv
<1>6. Dated(mem)'
  BY <1>1 DEF DailyInv, Dated
<1>7. (mem.reset = day => Within(mem, Bought))'
  BY <1>1, <1>2, <1>3 DEF DailyInv, Within, LeftToday
<1>8. Overnight'
  BY <1>1, <1>2, <1>3, <1>4 DEF DailyInv, Overnight, Monitoring, Polling
<1>9. FileBehind'
  <2> SUFFICES ASSUME disk # NoFile, disk.reset = day
      PROVE mem.reset = day /\ disk.daily <= mem.daily + 1
    BY <1>1 DEF FileBehind
  <2>1. disk.daily \in Nat
    BY <1>0, Numbers
  <2> QED
    BY <1>1, <2>1 DEF DailyInv, FileBehind
<1>10. (disk # NoFile => Dated(disk) /\ Within(disk, Unsaved))'
  <2> SUFFICES ASSUME disk # NoFile PROVE (Dated(disk) /\ Within(disk, Unsaved))'
    BY <1>1
  <2>1. disk.daily \in Nat
    BY <1>0, Numbers
  <2> QED
    BY <1>1, <1>2, <1>3, <2>1 DEF DailyInv, Dated, Within, LeftToday
<1> QED
  BY <1>1, <1>5, <1>6, <1>7, <1>8, <1>9, <1>10 DEF DailyInv

\* Opening a position uses up the day.
LEMMA DailyOpen ==
    ASSUME TypeInv, TypeInv', DailyInv, Open \/ EndPoll
    PROVE  DailyInv'
<1>0. TypeOK
  BY DEF TypeInv
<1> USE DEF Goto, Begin, Done, calendar
<1>1. ASSUME NEW t \in Tokens, Entry(t) PROVE DailyInv'
  <2>1. Faults' = Faults
    BY <1>0, <1>1, StepFaults DEF Entry
  <2>2. /\ UNCHANGED <<mem, disk, log, day, buys>>
        /\ pc = "poll" /\ pc' = "buying"
        /\ mem.daily < MaxDaily /\ Total(mem.open) < MaxConcurrent
    BY <1>1 DEF Entry
  <2> QED
    BY <2>1, <2>2, DailyQuiet DEF Monitoring, Polling
<1>2. CASE SaveEntry
  BY <1>0, <1>2, DailySave DEF SaveEntry, TypeOK
<1>3. CASE EndPoll
  <2>1. Faults' = Faults
    BY <1>0, <1>3, StepFaults DEF EndPoll
  <2> QED
    BY <1>3, <2>1, DailyQuiet DEF EndPoll, Monitoring, Polling
<1> QED
  BY <1>1, <1>2, <1>3, DailyBuy, DailyBook DEF Open

\* A day sees MAX_DAILY_TRADES entries at most, but for the faults that lose
\* a count and the poll that midnight interrupts, for any instruments, limits
\* and faults, with or without rebuilds.
THEOREM DailyCapHolds == Spec => []DailyCapBounded
<1>1. TypeInv /\ DailyInv /\ [Next]_vars => DailyInv'
  <2> SUFFICES ASSUME TypeInv, DailyInv, [Next]_vars PROVE DailyInv'
    OBVIOUS
  <2>1. TypeInv'
    BY NextType
  <2>2. CASE Next
    BY <2>1, <2>2, DailyDown, DailyMidnight, DailyTick, DailyBoot, DailyClose, DailyOpen DEF Next
  <2>3. CASE UNCHANGED vars
    BY <2>3 DEF vars, DailyInv, Faults, Bought, Unsaved, Dated, Within, LeftToday,
       Overnight, FileBehind
  <2> QED
    BY <2>2, <2>3
<1>2. TypeInv /\ DailyInv => DailyCapBounded
  BY Numbers DEF TypeInv, DailyInv, DailyCapBounded, Faults
<1> QED
  BY InitType, NextType, DailyInit, <1>1, <1>2, PTL DEF Spec
------------------------------------------------------------------------------
\* Units of each token that are in the wallet, or that a copy with these open
\* positions believes to be there.
Claimed(open) == [t \in Tokens |-> IF held[t] > open[t] THEN held[t] ELSE open[t]]

\* A position about to be closed although its token is still there.
Doubtful == pc = "booking" /\ held[tok] > 0

FiledSpent == IF disk = NoFile THEN 0 ELSE disk.spent

\* The inductive invariant of the budget: both copies have counted as spent
\* what they or the wallet hold, but for the trade under way and the faults.
\* What the wallet holds alone would not do: closing a position whose token
\* is gone already frees a unit and takes none out.
BudgetInv ==
    rebuilds = 0 =>
        /\ Total(held) <= Budget + Faults
        /\ Total(log.opened) <= log.rows
        /\ pc \in {"buying", "bought"} => mem.spent < Budget /\ mem.open[tok] = 0
        /\ pc = "bought" => held[tok] > 0
        /\ pc # "down" => Total(Claimed(mem.open)) + (IF Doubtful THEN 1 ELSE 0)
                             <= mem.spent + Bought + Faults
        /\ Total(Claimed(Filed)) <= FiledSpent + Unsaved + Faults

\* Claims are natural numbers, and no smaller than what is held.
LEMMA ClaimedType ==
    ASSUME TypeOK, NEW open \in [Tokens -> Nat]
    PROVE  /\ Claimed(open) \in [Tokens -> Nat] /\ Total(Claimed(open)) \in Nat
           /\ Total(held) <= Total(Claimed(open))
           /\ Total(Claimed(open)) <= Total(held) + Total(open)
<1>1. held \in [Tokens -> Nat] /\ Claimed(open) \in [Tokens -> Nat]
  BY DEF TypeOK, Claimed
<1>2. None \in [Tokens -> Nat] /\ Total(None) = 0
  BY TotalType DEF None
<1>3. Total(Claimed(open)) \in Nat /\ Total(held) \in Nat
  BY <1>1, TotalType
<1>4. \A t \in Tokens : held[t] <= Claimed(open)[t] + None[t]
  BY <1>1 DEF Claimed, None
<1>5. Total(held) <= Total(Claimed(open)) + Total(None)
  BY <1>1, <1>2, <1>4, TotalBelow
<1>6. \A t \in Tokens : Claimed(open)[t] <= held[t] + open[t]
  BY <1>1 DEF Claimed
<1>7. Total(Claimed(open)) <= Total(held) + Total(open)
  BY <1>1, <1>6, TotalBelow
<1> QED
  BY <1>1, <1>2, <1>3, <1>5, <1>7

\* The file's view has its types.
LEMMA FiledType == ASSUME TypeOK PROVE Filed \in [Tokens -> Nat] /\ FiledSpent \in Nat
BY Numbers DEF Filed, FiledSpent, None, TypeOK

\* At the start nothing is held, claimed or spent.
LEMMA BudgetInit == Init => BudgetInv
<1> SUFFICES ASSUME Init PROVE BudgetInv
  OBVIOUS
<1>1. TypeOK
  BY InitType DEF TypeInv
<1>2. None \in [Tokens -> Nat] /\ Total(None) = 0
  BY TotalType DEF None
<1>3. Claimed(None) = None
  BY DEF Init, Claimed, None
<1>4. /\ held = None /\ log.opened = None /\ log.rows = 0 /\ disk = NoFile
      /\ pc = "down" /\ Faults = 0
  BY DEF Init, EmptyLog, Faults
<1> QED
  BY <1>2, <1>3, <1>4, BotAssumption DEF BudgetInv, Filed, FiledSpent, Unsaved

\* Steps that change neither the wallet nor what a copy says of it.
LEMMA BudgetQuiet ==
    ASSUME TypeInv, TypeInv', BudgetInv, rebuilds' = rebuilds,
           UNCHANGED <<held, disk, log>>,
           mem'.open = mem.open, mem'.spent = mem.spent,
           Faults' = Faults \/ Faults' = Faults + 1,
           pc \notin {"down", "bought", "opened"}, pc' \notin {"down", "bought", "opened"},
           pc' = "buying" => mem.spent < Budget /\ mem.open[tok'] = 0,
           Doubtful' => Faults' = Faults + 1
    PROVE  BudgetInv'
<1> SUFFICES ASSUME rebuilds = 0 PROVE BudgetInv'
  BY DEF BudgetInv
<1>0. TypeOK
  BY DEF TypeInv
<1>1. PICK f \in Nat : Faults' = f /\ Faults \in Nat /\ (f = Faults \/ f = Faults + 1)
  BY <1>0, Numbers DEF Faults
<1>2. Bought = 0 /\ Bought' = 0 /\ Unsaved = 0 /\ Unsaved' = 0
  BY DEF Bought, Unsaved
<1>3. Filed' = Filed /\ FiledSpent' = FiledSpent
  BY DEF Filed, FiledSpent
<1>4. Claimed(mem.open)' = Claimed(mem.open) /\ Claimed(Filed)' = Claimed(Filed)
  BY <1>3 DEF Claimed
<1>5. /\ Total(Claimed(mem.open)) \in Nat /\ Total(Claimed(Filed)) \in Nat
      /\ FiledSpent \in Nat /\ mem.spent \in Nat /\ Total(held) \in Nat
      /\ Budget \in Nat
  BY <1>0, ClaimedType, FiledType, Numbers DEF TypeOK, States
<1>6. Total(held') <= Budget + f
  BY <1>1, <1>5 DEF BudgetInv
<1>7. Total(Claimed(mem.open)) + (IF Doubtful' THEN 1 ELSE 0) <= mem.spent + f
  BY <1>1, <1>2, <1>5 DEF BudgetInv
<1>8. Total(Claimed(Filed)) <= FiledSpent + f
  BY <1>1, <1>2, <1>5 DEF BudgetInv
<1> QED
  BY <1>1, <1>2, <1>3, <1>4, <1>5, <1>6, <1>7, <1>8 DEF BudgetInv

\* Saving what the memory says brings the file up to it, or is a fault.
LEMMA BudgetSave ==
    ASSUME TypeInv, TypeInv', BudgetInv, rebuilds' = rebuilds,
           UNCHANGED <<held, log>>, Save(mem'),
           mem'.open = mem.open, mem'.spent = mem.spent,
           pc \in {"tick", "closed", "opened"}, pc' \in {"tick", "monitor", "poll"}
    PROVE  BudgetInv'
<1> SUFFICES ASSUME rebuilds = 0 PROVE BudgetInv'
  BY DEF BudgetInv
<1>0. TypeOK
  BY DEF TypeInv
<1>1. PICK f \in Nat : /\ Faults' = f /\ Faults \in Nat
                       /\ \/ disk' = mem' /\ f = Faults
                          \/ disk' = disk /\ f = Faults + 1
  <2>1. Faults \in Nat
    BY <1>0, Numbers DEF Faults
  <2>2. (disk' = mem' /\ Faults' = Faults) \/ (disk' = disk /\ Faults' = Faults + 1)
    BY <1>0, SaveFaults
  <2> QED
    BY <2>1, <2>2
<1>2. Bought = 0 /\ Bought' = 0 /\ Unsaved \in {0, 1} /\ Unsaved' = 0
      /\ ~ Doubtful /\ ~ Doubtful'
  BY DEF Bought, Unsaved, Doubtful
<1>3. Claimed(mem.open)' = Claimed(mem.open)
  BY DEF Claimed
<1>4. /\ Total(Claimed(mem.open)) \in Nat /\ Total(Claimed(Filed)) \in Nat
      /\ FiledSpent \in Nat /\ mem.spent \in Nat /\ Total(held) \in Nat
      /\ Budget \in Nat
  BY <1>0, ClaimedType, FiledType, Numbers DEF TypeOK, States
<1>5. Total(held) <= Budget + f /\ Total(Claimed(mem.open)) <= mem.spent + f
  BY <1>1, <1>2, <1>4 DEF BudgetInv
<1>6. (Total(Claimed(Filed)) <= FiledSpent + Unsaved + Faults)'
  <2>1. CASE disk' = mem' /\ f = Faults
    <3>1. mem' \in States /\ NoFile \notin States
      BY BotAssumption DEF TypeInv, TypeOK
    <3>2. Filed' = mem.open /\ FiledSpent' = mem.spent
      BY <2>1, <3>1 DEF Filed, FiledSpent
    <3>3. Claimed(Filed)' = Claimed(mem.open)
      BY <3>2 DEF Claimed
    <3> QED
      BY <1>1, <1>2, <1>4, <1>5, <3>2, <3>3
  <2>2. CASE disk' = disk /\ f = Faults + 1
    <3>1. Filed' = Filed /\ FiledSpent' = FiledSpent
      BY <2>2 DEF Filed, FiledSpent
    <3>2. Claimed(Filed)' = Claimed(Filed)
      BY <3>1 DEF Claimed
    <3>3. Total(Claimed(Filed)) <= FiledSpent + f
      BY <1>1, <1>2, <1>4, <2>2 DEF BudgetInv
    <3> QED
      BY <1>1, <1>2, <1>4, <3>1, <3>2, <3>3
  <2> QED
    BY <1>1, <2>1, <2>2
<1> QED
  BY <1>1, <1>2, <1>3, <1>4, <1>5, <1>6 DEF BudgetInv

\* Going down costs the file at most the entry under way.
LEMMA BudgetDown ==
    ASSUME TypeInv, BudgetInv, Stop \/ Crash
    PROVE  BudgetInv'
<1> SUFFICES ASSUME rebuilds = 0 PROVE BudgetInv'
  BY DEF BudgetInv, Stop, Crash, faulty
<1>0. TypeOK
  BY DEF TypeInv
<1>1. PICK f \in Nat : /\ Faults' = f /\ Faults \in Nat
                       /\ Faults <= f /\ Unsaved + Faults <= f
  <2>1. CASE Stop
    BY <1>0, <2>1, Numbers DEF Stop, faulty, Faults, Unsaved
  <2>2. CASE Crash
    BY <1>0, <2>2, Numbers DEF Crash, Faults, Unsaved
  <2> QED
    BY <2>1, <2>2
<1>2. /\ UNCHANGED <<disk, held, log>> /\ pc' = "down"
      /\ Unsaved \in {0, 1} /\ Unsaved' = 0
  BY DEF Stop, Crash, Goto, calendar, Unsaved
<1>3. Filed' = Filed /\ FiledSpent' = FiledSpent
  BY <1>2 DEF Filed, FiledSpent
<1>4. Claimed(Filed)' = Claimed(Filed)
  BY <1>2, <1>3 DEF Claimed
<1>5. /\ Total(Claimed(Filed)) \in Nat /\ Total(held) \in Nat
      /\ FiledSpent \in Nat /\ Budget \in Nat
  BY <1>0, ClaimedType, FiledType, Numbers
<1>6. Total(held) <= Budget + f /\ Total(Claimed(Filed)) <= FiledSpent + f
  BY <1>1, <1>2, <1>5 DEF BudgetInv
<1> QED
  BY <1>1, <1>2, <1>3, <1>4, <1>5, <1>6 DEF BudgetInv

\* Midnight only empties the log.
LEMMA BudgetMidnight == ASSUME TypeInv, BudgetInv, Midnight PROVE BudgetInv'
<1>1. /\ UNCHANGED <<pc, tok, held, mem, disk, rebuilds>>
      /\ log'.opened = None /\ log'.rows = 0
  BY DEF Midnight, EmptyLog, faulty
<1>2. Faults' = Faults /\ Bought' = Bought /\ Unsaved' = Unsaved
      /\ (Doubtful' <=> Doubtful)
  BY DEF Midnight, faulty, Faults, Bought, Unsaved, Doubtful
<1>3. Filed' = Filed /\ FiledSpent' = FiledSpent
  BY <1>1 DEF Filed, FiledSpent
<1>4. Claimed(mem.open)' = Claimed(mem.open) /\ Claimed(Filed)' = Claimed(Filed)
  BY <1>1, <1>3 DEF Claimed
<1>5. Total(None) = 0
  BY TotalType DEF None
<1> QED
  BY <1>1, <1>2, <1>3, <1>4, <1>5 DEF BudgetInv

\* The reset of the day leaves positions and money alone.
LEMMA BudgetTick == ASSUME TypeInv, TypeInv', BudgetInv, Tick PROVE BudgetInv'
<1>0. TypeOK
  BY DEF TypeInv
<1>1. pc = "tick" /\ pc' \in {"tick", "monitor"} /\ UNCHANGED <<held, log>>
  BY DEF Tick, Goto
<1>2. CASE mem.reset = day /\ UNCHANGED <<mem, disk>> /\ Smooth
  <2>1. Faults' = Faults /\ rebuilds' = rebuilds
    BY <1>0, <1>2, StepFaults DEF Smooth, faulty
  <2> QED
    BY <1>1, <1>2, <2>1, BudgetQuiet DEF Doubtful
<1>3. CASE mem' = [mem EXCEPT !.daily = 0, !.reset = day] /\ Save(mem')
  <2>1. mem'.open = mem.open /\ mem'.spent = mem.spent /\ rebuilds' = rebuilds
    BY <1>0, <1>3 DEF TypeOK, States, Save, Smooth, Glitch, faulty
  <2> QED
    BY <1>1, <1>3, <2>1, BudgetSave
<1> QED
  BY <1>2, <1>3 DEF Tick

\* Without a file a wallet holds no more than was lost to faults, and a log
\* has counted every position it can be replayed to.
LEMMA BudgetBoot ==
    ASSUME TypeInv, TypeInv', BudgetInv, NEW r \in BOOLEAN, Boot(r)
    PROVE  BudgetInv'
<1> SUFFICES ASSUME rebuilds' = 0 PROVE BudgetInv'
  BY DEF BudgetInv
<1>0. TypeOK
  BY DEF TypeInv
<1>1. /\ r = FALSE /\ rebuilds = 0
      /\ pc = "down" /\ pc' = "tick" /\ UNCHANGED <<held, log>>
  BY <1>0 DEF Boot, Goto, TypeOK
<1>2. PICK f \in Nat : /\ Faults' = f /\ Faults \in Nat
                       /\ f = Faults \/ f = Faults + 1
  BY <1>0, Numbers DEF Boot, Faults
<1>3. /\ Bought = 0 /\ Bought' = 0 /\ Unsaved = 0 /\ Unsaved' = 0
      /\ ~ Doubtful /\ ~ Doubtful'
  BY <1>1 DEF Bought, Unsaved, Doubtful
<1>4. /\ Total(held) \in Nat /\ Total(Claimed(Filed)) \in Nat /\ FiledSpent \in Nat
      /\ log.rows \in Nat /\ Total(log.opened) \in Nat /\ Budget \in Nat
      /\ Total(held) <= Total(Claimed(Filed))
  BY <1>0, ClaimedType, FiledType, Numbers
<1>5. /\ Total(held) <= Budget + f /\ Total(log.opened) <= log.rows
      /\ Total(Claimed(Filed)) <= FiledSpent + f
  BY <1>1, <1>2, <1>3, <1>4 DEF BudgetInv
<1>6. CASE disk # NoFile
  <2>1. mem' = disk /\ disk' = disk
    BY <1>1, <1>6 DEF Boot
  <2>2. Filed = disk.open /\ FiledSpent = disk.spent /\ Filed' = Filed /\ FiledSpent' = FiledSpent
    BY <1>6, <2>1 DEF Filed, FiledSpent
  <2>3. Claimed(mem.open)' = Claimed(Filed) /\ Claimed(Filed)' = Claimed(Filed)
    BY <1>1, <2>1, <2>2 DEF Claimed
  <2> QED
    BY <1>1, <1>2, <1>3, <1>4, <1>5, <2>1, <2>2, <2>3 DEF BudgetInv
<1>7. CASE disk = NoFile
  <2>1. Total(held) <= f
    BY <1>2, <1>4, <1>5, <1>7 DEF FiledSpent
  <2>2. mem' \in States /\ mem'.open \in [Tokens -> Nat] /\ NoFile \notin States
    BY BotAssumption DEF TypeInv, TypeOK, States
  <2>3. disk' = mem' \/ disk' = disk
    BY <1>7 DEF Boot
  <2>4. Total(mem'.open) <= mem'.spent /\ mem'.spent \in Nat /\ Total(mem'.open) \in Nat
    <3>1. CASE mem' = EmptyState
      BY <3>1, TotalType DEF EmptyState, None
    <3>2. CASE mem' = Rebuilt
      <4>1. log.opened \in [Tokens -> Nat] /\ None \in [Tokens -> Nat]
        BY <1>0 DEF TypeOK, None
      <4>2. \A t \in Tokens : mem'.open[t] <= log.opened[t] + None[t]
        BY <3>2, <4>1 DEF Rebuilt, Less1, None
      <4>3. Total(None) = 0
        BY TotalType DEF None
      <4>4. Total(mem'.open) <= Total(log.opened) + Total(None)
        BY <2>2, <4>1, <4>2, TotalBelow
      <4>5. mem'.spent = log.rows /\ Total(mem'.open) \in Nat
        BY <2>2, <3>2, TotalType DEF Rebuilt
      <4> QED
        BY <1>4, <1>5, <4>3, <4>4, <4>5
    <3> QED
      BY <1>7, <3>1, <3>2 DEF Boot
  <2>5. Claimed(mem.open)' = Claimed(mem'.open)
    BY <1>1 DEF Claimed
  <2>6. /\ Total(Claimed(mem'.open)) \in Nat
        /\ Total(Claimed(mem'.open)) <= mem'.spent + f
    <3>1. /\ Total(Claimed(mem'.open)) \in Nat
          /\ Total(Claimed(mem'.open)) <= Total(held) + Total(mem'.open)
      BY <1>0, <2>2, ClaimedType
    <3> QED
      BY <1>2, <1>4, <2>1, <2>4, <3>1
  <2>7. (Total(Claimed(Filed)) <= FiledSpent + Unsaved + Faults)'
    <3>1. CASE disk' = mem'
      <4>1. Filed' = mem'.open /\ FiledSpent' = mem'.spent
        BY <2>2, <3>1 DEF Filed, FiledSpent
      <4>2. Claimed(Filed)' = Claimed(mem'.open)
        BY <1>1, <4>1 DEF Claimed
      <4> QED
        BY <1>2, <1>3, <2>4, <2>6, <4>1, <4>2
    <3>2. CASE disk' = disk
      <4>1. Filed' = Filed /\ FiledSpent' = FiledSpent
        BY <3>2 DEF Filed, FiledSpent
      <4>2. Claimed(Filed)' = Claimed(Filed)
        BY <1>1, <4>1 DEF Claimed
      <4> QED
        BY <1>2, <1>3, <1>4, <1>5, <4>1, <4>2
    <3> QED
      BY <2>3, <3>1, <3>2
  <2> QED
    BY <1>1, <1>2, <1>3, <1>5, <2>4, <2>5, <2>6, <2>7 DEF BudgetInv
<1> QED
  BY <1>6, <1>7

\* Selling the balance of a token lowers what the copies and the wallet
\* claim, by one at least in the copies that closing will change.
LEMMA BudgetSell ==
    ASSUME TypeInv, TypeInv', BudgetInv, Sell
    PROVE  BudgetInv'
<1> SUFFICES ASSUME rebuilds = 0 PROVE BudgetInv'
  BY DEF BudgetInv, Sell, Smooth, Glitch, faulty
<1>0. TypeOK /\ tok \in Tokens /\ held \in [Tokens -> Nat] /\ mem.open \in [Tokens -> Nat]
      /\ Filed \in [Tokens -> Nat]
  BY FiledType DEF TypeInv, TypeOK, Sell, States
<1>1. CASE held' = held /\ pc' = "monitor" /\ Smooth
  <2>1. Faults' = Faults /\ rebuilds' = rebuilds
    BY <1>0, <1>1, StepFaults DEF Smooth, faulty
  <2> QED
    BY <1>1, <2>1, BudgetQuiet DEF Sell, Doubtful
<1>2. CASE /\ held' = [held EXCEPT ![tok] = 0]
           /\ \/ pc' = "booking" /\ Smooth /\ UNCHANGED tok
              \/ pc' = "monitor" /\ Glitch(tok)
  <2>1. PICK f \in Nat : Faults' = f /\ Faults \in Nat /\ Faults <= f
    <3>1. Faults \in Nat
      BY <1>0, Numbers DEF Faults
    <3>2. Faults' = Faults \/ Faults' = Faults + 1
      BY <1>0, <1>2, StepFaults
    <3> QED
      BY <3>1, <3>2
  <2>2. /\ Bought = 0 /\ Bought' = 0 /\ Unsaved = 0 /\ Unsaved' = 0
        /\ ~ Doubtful' /\ ~ Doubtful
    BY <1>0, <1>2 DEF Sell, Bought, Unsaved, Doubtful
  <2>3. /\ UNCHANGED <<mem, disk, log>> /\ rebuilds' = rebuilds
        /\ Filed' = Filed /\ FiledSpent' = FiledSpent
    BY DEF Sell, Smooth, Glitch, faulty, Filed, FiledSpent
  <2>4. ASSUME NEW open \in [Tokens -> Nat]
        PROVE  /\ Claimed(open)' \in [Tokens -> Nat]
               /\ Total(Claimed(open)') \in Nat
               /\ Total(Claimed(open)') <= Total(Claimed(open))
    <3>1. Claimed(open)' \in [Tokens -> Nat] /\ Claimed(open) \in [Tokens -> Nat]
      BY <1>0, <1>2 DEF Claimed
    <3>2. None \in [Tokens -> Nat] /\ Total(None) = 0
      BY TotalType DEF None
    <3>3. \A t \in Tokens : (Claimed(open)')[t] <= Claimed(open)[t] + None[t]
      BY <1>0, <1>2 DEF Claimed, None
    <3>4. Total(Claimed(open)') <= Total(Claimed(open)) + Total(None)
      BY <3>1, <3>2, <3>3, TotalBelow
    <3>5. Total(Claimed(open)') \in Nat /\ Total(Claimed(open)) \in Nat
      BY <3>1, TotalType
    <3> QED
      BY <3>1, <3>2, <3>4, <3>5
  <2>5. /\ Total(Claimed(mem.open)') <= Total(Claimed(mem.open))
        /\ Total(Claimed(mem.open)') \in Nat
    <3>1. PICK m \in [Tokens -> Nat] : m = mem.open /\ m = mem'.open
      BY <1>0, <2>3
    <3>2. Claimed(mem.open)' = Claimed(m)' /\ Claimed(mem.open) = Claimed(m)
      BY <3>1 DEF Claimed
    <3> QED
      BY <2>4, <3>1, <3>2
  <2>6. /\ Total(Claimed(Filed)') <= Total(Claimed(Filed))
        /\ Total(Claimed(Filed)') \in Nat
    <3>1. PICK m \in [Tokens -> Nat] : m = Filed /\ m = Filed'
      BY <1>0, <2>3
    <3>2. Claimed(Filed)' = Claimed(m)' /\ Claimed(Filed) = Claimed(m)
      BY <3>1 DEF Claimed
    <3> QED
      BY <2>4, <3>1, <3>2
  <2>7. Total(held') \in Nat /\ Total(held') <= Total(held)
    <3>1. Total(held') = Total(held) + held'[tok] - held[tok] /\ held' \in [Tokens -> Nat]
      BY <1>0, <1>2, TotalPoint
    <3>2. Total(held') \in Nat /\ Total(held) \in Nat
      BY <1>0, <3>1, TotalType
    <3> QED
      BY <1>0, <1>2, <3>1, <3>2
  <2>8. /\ Total(Claimed(mem.open)) \in Nat /\ Total(Claimed(Filed)) \in Nat
        /\ Total(held) \in Nat /\ FiledSpent \in Nat /\ mem.spent \in Nat /\ Budget \in Nat
    BY <1>0, ClaimedType, FiledType, Numbers
  <2>9. /\ Total(held') <= Budget + f
        /\ Total(Claimed(mem.open)') <= mem.spent + f
        /\ Total(Claimed(Filed)') <= FiledSpent + f
    BY <2>1, <2>2, <2>5, <2>6, <2>7, <2>8 DEF BudgetInv, Sell
  <2> QED
    BY <1>2, <2>1, <2>2, <2>3, <2>5, <2>6, <2>8, <2>9 DEF BudgetInv
<1> QED
  BY <1>1, <1>2 DEF Sell, Goto

\* Closing a position frees what its token no longer claims.
LEMMA BudgetBook ==
    ASSUME TypeInv, TypeInv', BudgetInv, Book
    PROVE  BudgetInv'
<1> SUFFICES ASSUME rebuilds = 0 PROVE BudgetInv'
  BY DEF BudgetInv, Book, faulty
<1>0. /\ TypeOK /\ tok \in Tokens /\ held \in [Tokens -> Nat] /\ mem.open \in [Tokens -> Nat]
      /\ mem'.open \in [Tokens -> Nat] /\ mem.open[tok] > 0
  BY DEF TypeInv, TypeOK, Book, States
<1>1. /\ Faults' = Faults /\ Faults \in Nat
      /\ Bought = 0 /\ Bought' = 0 /\ Unsaved = 0 /\ Unsaved' = 0 /\ ~ Doubtful'
      /\ pc = "booking" /\ pc' = "closed"
      /\ UNCHANGED <<held, disk, rebuilds>>
      /\ log'.opened = log.opened /\ log'.rows = log.rows
  BY <1>0, StepFaults, Numbers
  DEF Book, Goto, faulty, Faults, Bought, Unsaved, Doubtful, TypeOK
<1>2. mem'.open = [mem.open EXCEPT ![tok] = @ - 1] /\ mem'.spent = Less1(mem.spent)
  BY <1>0 DEF Book, TypeOK, States
<1>3. Filed' = Filed /\ FiledSpent' = FiledSpent
  BY <1>1 DEF Filed, FiledSpent
<1>4. Claimed(mem.open)' = Claimed(mem'.open) /\ Claimed(Filed)' = Claimed(Filed)
  BY <1>1, <1>3 DEF Claimed
<1>5. /\ Total(Claimed(mem.open)) \in Nat /\ Total(Claimed(mem'.open)) \in Nat
      /\ mem.spent \in Nat
      /\ Claimed(mem.open) \in [Tokens -> Nat] /\ Claimed(mem'.open) \in [Tokens -> Nat]
  BY <1>0, ClaimedType, Numbers
<1>6. Total(Claimed(mem'.open))
        = Total(Claimed(mem.open)) + Claimed(mem'.open)[tok] - Claimed(mem.open)[tok]
  <2>1. \A t \in Tokens \ {tok} : Claimed(mem'.open)[t] = Claimed(mem.open)[t]
    BY <1>0, <1>2 DEF Claimed
  <2> QED
    BY <1>0, <1>5, <2>1, TotalPoint
<1>7. Claimed(mem'.open)[tok] <= Claimed(mem.open)[tok] - (IF held[tok] > 0 THEN 0 ELSE 1)
  BY <1>0, <1>2 DEF Claimed
<1>8. Total(Claimed(mem.open)) + (IF held[tok] > 0 THEN 1 ELSE 0) <= mem.spent + Faults
  <2>1. Doubtful <=> held[tok] > 0
    BY <1>1 DEF Doubtful
  <2>2. Total(Claimed(mem.open)) + (IF Doubtful THEN 1 ELSE 0) <= mem.spent + Faults
    BY <1>1, <1>5 DEF BudgetInv
  <2> QED
    BY <2>1, <2>2
<1>9. Total(Claimed(mem'.open)) <= Less1(mem.spent) + Faults
  <2>1. Claimed(mem'.open)[tok] \in Nat /\ Claimed(mem.open)[tok] \in Nat
    BY <1>0, <1>5
  <2>2. CASE held[tok] > 0
    BY <1>1, <1>5, <1>6, <1>7, <1>8, <2>1, <2>2 DEF Less1
  <2>3. CASE ~ (held[tok] > 0)
    BY <1>1, <1>5, <1>6, <1>7, <1>8, <2>1, <2>3 DEF Less1
  <2> QED
    BY <2>2, <2>3
<1>10. Less1(mem.spent) \in Nat
  BY <1>5 DEF Less1
<1> QED
  BY <1>1, <1>2, <1>3, <1>4, <1>5, <1>9, <1>10 DEF BudgetInv

\* The steps of closing a position.
LEMMA BudgetClose ==
    ASSUME TypeInv, TypeInv', BudgetInv, Close \/ EndMonitor
    PROVE  BudgetInv'
<1>0. TypeOK
  BY DEF TypeInv
<1> USE DEF Goto, Begin, Done, faulty
<1>1. ASSUME NEW t \in Tokens, Exit(t) PROVE BudgetInv'
  <2>1. /\ UNCHANGED <<held, disk, log, mem>> /\ rebuilds' = rebuilds
        /\ pc = "monitor" /\ pc' \in {"selling", "booking"} /\ tok' = t
        /\ \/ (pc' = "selling" \/ ~ (held[t] > 0)) /\ Smooth
           \/ Glitch(t)
    BY <1>1 DEF Exit, Smooth, Glitch
  <2>2. Faults' = Faults \/ Faults' = Faults + 1
    BY <1>0, <2>1, StepFaults
  <2>3. Doubtful' => Faults' = Faults + 1
    BY <1>0, <2>1, StepFaults DEF Doubtful
  <2> QED
    BY <2>1, <2>2, <2>3, BudgetQuiet
<1>2. CASE SaveClose
  <2>1. /\ UNCHANGED <<held, mem, log>> /\ Save(mem') /\ rebuilds' = rebuilds
        /\ pc = "closed" /\ pc' = "monitor"
    BY <1>2 DEF SaveClose, Save, Smooth, Glitch
  <2> QED
    BY <2>1, BudgetSave
<1>3. CASE EndMonitor
  <2>1. Faults' = Faults
    BY <1>0, <1>3, StepFaults DEF EndMonitor
  <2> QED
    BY <1>3, <2>1, BudgetQuiet DEF EndMonitor, Doubtful
<1> QED
  BY <1>1, <1>2, <1>3, BudgetSell, BudgetBook DEF Close

\* A swap that lands adds a unit to every claim, and the entry under way or
\* the lost report accounts for it.
LEMMA BudgetBuy ==
    ASSUME TypeInv, TypeInv', BudgetInv, Buy
    PROVE  BudgetInv'
<1> SUFFICES ASSUME rebuilds = 0 PROVE BudgetInv'
  BY DEF BudgetInv, Buy, Smooth, Glitch, faulty
<1>0. TypeOK /\ tok \in Tokens /\ held \in [Tokens -> Nat] /\ mem.open \in [Tokens -> Nat]
      /\ Filed \in [Tokens -> Nat]
  BY FiledType DEF TypeInv, TypeOK, Buy, States
<1>1. CASE held' = held /\ pc' = "poll" /\ Smooth
  <2>1. Faults' = Faults /\ rebuilds' = rebuilds
    BY <1>0, <1>1, StepFaults DEF Smooth, faulty
  <2> QED
    BY <1>1, <2>1, BudgetQuiet DEF Buy, Doubtful
<1>2. CASE /\ held' = [held EXCEPT ![tok] = @ + 1]
           /\ \/ pc' = "bought" /\ Smooth /\ UNCHANGED tok
              \/ pc' = "poll" /\ Glitch(tok)
  <2>1. PICK f \in Nat, b \in Nat :
          /\ Faults' = f /\ Bought' = b /\ Unsaved' = b
          /\ Faults \in Nat /\ f + b = Faults + 1 /\ b \in {0, 1}
    <3>1. Faults \in Nat
      BY <1>0, Numbers DEF Faults
    <3>2. CASE pc' = "bought" /\ Smooth
      BY <1>0, <3>1, <3>2, StepFaults DEF Bought, Unsaved
    <3>3. CASE pc' = "poll" /\ Glitch(tok)
      BY <1>0, <3>1, <3>3, StepFaults DEF Bought, Unsaved
    <3> QED
      BY <1>2, <3>2, <3>3
  <2>2. /\ Bought = 0 /\ Unsaved = 0 /\ ~ Doubtful' /\ ~ Doubtful /\ pc = "buying"
    BY <1>2 DEF Buy, Bought, Unsaved, Doubtful
  <2>3. /\ UNCHANGED <<mem, disk, log>> /\ rebuilds' = rebuilds
        /\ Filed' = Filed /\ FiledSpent' = FiledSpent
    BY DEF Buy, Smooth, Glitch, faulty, Filed, FiledSpent
  <2>4. ASSUME NEW open \in [Tokens -> Nat]
        PROVE  Total(Claimed(open)') \in Nat /\ Total(Claimed(open)') <= Total(Claimed(open)) + 1
    <3>1. Claimed(open)' \in [Tokens -> Nat] /\ Claimed(open) \in [Tokens -> Nat]
      BY <1>0, <1>2 DEF Claimed
    <3>2. \A t \in Tokens \ {tok} : (Claimed(open)')[t] = Claimed(open)[t]
      BY <1>0, <1>2 DEF Claimed
    <3>3. (Claimed(open)')[tok] <= Claimed(open)[tok] + 1
      BY <1>0, <1>2 DEF Claimed
    <3>4. Total(Claimed(open)') = Total(Claimed(open)) + (Claimed(open)')[tok] - Claimed(open)[tok]
      BY <1>0, <3>1, <3>2, TotalPoint
    <3>5. Total(Claimed(open)') \in Nat /\ Total(Claimed(open)) \in Nat
      BY <3>1, TotalType
    <3>6. (Claimed(open)')[tok] \in Nat /\ Claimed(open)[tok] \in Nat
      BY <1>0, <3>1
    <3> QED
      BY <3>3, <3>4, <3>5, <3>6
  <2>5. /\ Total(Claimed(mem.open)') <= Total(Claimed(mem.open)) + 1
        /\ Total(Claimed(mem.open)') \in Nat
    <3>1. PICK m \in [Tokens -> Nat] : m = mem.open /\ m = mem'.open
      BY <1>0, <2>3
    <3>2. Claimed(mem.open)' = Claimed(m)' /\ Claimed(mem.open) = Claimed(m)
      BY <3>1 DEF Claimed
    <3> QED
      BY <2>4, <3>1, <3>2
  <2>6. /\ Total(Claimed(Filed)') <= Total(Claimed(Filed)) + 1
        /\ Total(Claimed(Filed)') \in Nat
    <3>1. PICK m \in [Tokens -> Nat] : m = Filed /\ m = Filed'
      BY <1>0, <2>3
    <3>2. Claimed(Filed)' = Claimed(m)' /\ Claimed(Filed) = Claimed(m)
      BY <3>1 DEF Claimed
    <3> QED
      BY <2>4, <3>1, <3>2
  <2>7. Total(held') = Total(held) + 1
    <3>1. held' \in [Tokens -> Nat]
      BY <1>0, <1>2
    <3>2. Total(held') = Total(held) + held'[tok] - held[tok]
      BY <1>0, <1>2, <3>1, TotalPoint
    <3>3. Total(held) \in Nat
      BY <1>0, TotalType
    <3> QED
      BY <1>0, <1>2, <3>2, <3>3
  <2>8. /\ Total(Claimed(mem.open)) \in Nat /\ Total(Claimed(Filed)) \in Nat
        /\ Total(held) \in Nat /\ FiledSpent \in Nat /\ mem.spent \in Nat /\ Budget \in Nat
        /\ Total(held) <= Total(Claimed(mem.open))
    BY <1>0, ClaimedType, FiledType, Numbers
  <2>9. /\ Total(Claimed(mem.open)) <= mem.spent + Faults /\ mem.spent < Budget
        /\ Total(Claimed(Filed)) <= FiledSpent + Faults /\ Total(held) <= Budget + Faults
    BY <2>1, <2>2, <2>8 DEF BudgetInv
  <2>10. /\ Total(held') <= Budget + f
         /\ Total(Claimed(mem.open)') <= mem.spent + b + f
         /\ Total(Claimed(Filed)') <= FiledSpent + b + f
    BY <2>1, <2>5, <2>6, <2>7, <2>8, <2>9
  <2>11. /\ pc' = "bought" => held'[tok'] > 0
         /\ pc' \in {"buying", "bought"} => mem.spent < Budget /\ mem.open[tok'] = 0
    BY <1>0, <1>2, <2>2, <2>9 DEF BudgetInv, Smooth
  <2> QED
    BY <1>2, <2>1, <2>2, <2>3, <2>5, <2>6, <2>8, <2>10, <2>11 DEF BudgetInv
<1> QED
  BY <1>1, <1>2 DEF Buy, Goto

\* Booking an entry counts what the wallet holds already.
LEMMA BudgetBookEntry ==
    ASSUME TypeInv, TypeInv', BudgetInv, BookEntry
    PROVE  BudgetInv'
<1> SUFFICES ASSUME rebuilds = 0 PROVE BudgetInv'
  BY DEF BudgetInv, BookEntry, faulty
<1>0. /\ TypeOK /\ tok \in Tokens /\ held \in [Tokens -> Nat] /\ mem.open \in [Tokens -> Nat]
      /\ mem'.open \in [Tokens -> Nat] /\ log.opened \in [Tokens -> Nat]
  BY DEF TypeInv, TypeOK, BookEntry, States
<1>1. /\ Faults' = Faults /\ Faults \in Nat
      /\ Bought = 1 /\ Bought' = 0 /\ Unsaved = 1 /\ Unsaved' = 1 /\ ~ Doubtful /\ ~ Doubtful'
      /\ pc = "bought" /\ pc' = "opened"
      /\ UNCHANGED <<held, disk, rebuilds>>
  BY <1>0, StepFaults, Numbers
  DEF BookEntry, Goto, faulty, Faults, Bought, Unsaved, Doubtful
<1>2. /\ mem'.open = [mem.open EXCEPT ![tok] = @ + 1] /\ mem'.spent = mem.spent + 1
      /\ log'.opened = [log.opened EXCEPT ![tok] = @ + 1] /\ log'.rows = log.rows + 1
  BY <1>0 DEF BookEntry, TypeOK, States
<1>3. Filed' = Filed /\ FiledSpent' = FiledSpent
  BY <1>1 DEF Filed, FiledSpent
<1>4. Claimed(Filed)' = Claimed(Filed)
  BY <1>1, <1>3 DEF Claimed
<1>5. Claimed(mem.open)' = Claimed(mem.open)
  <2>1. held[tok] > 0 /\ mem.open[tok] = 0
    BY <1>1 DEF BudgetInv
  <2> QED
    BY <1>0, <1>1, <1>2, <2>1 DEF Claimed
<1>6. Total(log'.opened) = Total(log.opened) + 1
  <2>1. log'.opened \in [Tokens -> Nat]
    BY <1>0, <1>2
  <2>2. Total(log'.opened) = Total(log.opened) + log'.opened[tok] - log.opened[tok]
    BY <1>0, <1>2, <2>1, TotalPoint
  <2>3. Total(log.opened) \in Nat
    BY <1>0, TotalType
  <2> QED
    BY <1>0, <1>2, <2>2, <2>3
<1>7. /\ Total(Claimed(mem.open)) \in Nat /\ mem.spent \in Nat
      /\ Total(log.opened) \in Nat /\ log.rows \in Nat
  BY <1>0, ClaimedType, Numbers
<1>8. Total(log.opened) + 1 <= log.rows + 1
  BY <1>7 DEF BudgetInv
<1>9. Total(Claimed(mem.open)) <= mem.spent + 1 + Faults
  BY <1>1, <1>7 DEF BudgetInv
<1> QED
  BY <1>1, <1>2, <1>3, <1>4, <1>5, <1>6, <1>7, <1>8, <1>9 DEF BudgetInv

\* The steps of opening a position.
LEMMA BudgetOpen ==
    ASSUME TypeInv, TypeInv', BudgetInv, Open \/ EndPoll
    PROVE  BudgetInv'
<1>0. TypeOK
  BY DEF TypeInv
<1> USE DEF Goto, Begin, Done, faulty
<1>1. ASSUME NEW t \in Tokens, Entry(t) PROVE BudgetInv'
  <2>1. /\ UNCHANGED <<held, disk, log, mem>> /\ rebuilds' = rebuilds /\ Faults' = Faults
        /\ pc = "poll" /\ pc' = "buying" /\ tok' = t
        /\ mem.open[t] = 0 /\ mem.spent + 1 <= Budget
    BY <1>0, <1>1, StepFaults DEF Entry
  <2>2. mem.spent < Budget
    BY <1>0, <2>1, Numbers
  <2> QED
    BY <2>1, <2>2, BudgetQuiet DEF Doubtful
<1>2. CASE SaveEntry
  <2>1. /\ UNCHANGED <<held, mem, log>> /\ Save(mem') /\ rebuilds' = rebuilds
        /\ pc = "opened" /\ pc' = "poll"
    BY <1>2 DEF SaveEntry, Save, Smooth, Glitch
  <2> QED
    BY <2>1, BudgetSave
<1>3. CASE EndPoll
  <2>1. Faults' = Faults
    BY <1>0, <1>3, StepFaults DEF EndPoll
  <2> QED
    BY <1>3, <2>1, BudgetQuiet DEF EndPoll, Doubtful
<1> QED
  BY <1>1, <1>2, <1>3, BudgetBuy, BudgetBookEntry DEF Open

\* The money in the wallet exceeds MAX_BUDGET_USD by at most one trade for
\* each crash, misreported swap, lost balance and failed save, for any
\* instruments and limits, as long as no state is rebuilt by hand.
THEOREM BudgetHolds == Spec => []BudgetBounded
<1>1. TypeInv /\ BudgetInv /\ [Next]_vars => BudgetInv'
  <2> SUFFICES ASSUME TypeInv, BudgetInv, [Next]_vars PROVE BudgetInv'
    OBVIOUS
  <2>1. TypeInv'
    BY NextType
  <2>2. CASE Next
    BY <2>1, <2>2, BudgetDown, BudgetMidnight, BudgetTick, BudgetBoot, BudgetClose,
       BudgetOpen DEF Next
  <2>3. CASE UNCHANGED vars
    BY <2>3 DEF vars, BudgetInv, Faults, Bought, Unsaved, Doubtful, Claimed, Filed,
       FiledSpent
  <2> QED
    BY <2>2, <2>3
<1>2. TypeInv /\ BudgetInv => BudgetBounded
  BY Numbers DEF TypeInv, BudgetInv, BudgetBounded, Faults
<1> QED
  BY InitType, NextType, BudgetInit, <1>1, <1>2, PTL DEF Spec
------------------------------------------------------------------------------
(* The rebuild.  Of a token that was out of the books when the day began,   *)
(* entered once at most and struck by no fault, wallet, memory, file and    *)
(* log tell the same, but for the trade under way.                          *)

\* What the log of the day says of a token that was entered once at most.
Tracked(t) == IF log.opened[t] = 1 /\ t \notin log.closed THEN 1 ELSE 0

InTrade(t, phases) == tok = t /\ pc \in phases

Agrees(t) ==
    /\ held[t] = IF InTrade(t, {"bought"}) THEN 1
                 ELSE IF InTrade(t, {"booking"}) THEN 0 ELSE Tracked(t)
    /\ pc # "down" => mem.open[t] = Tracked(t)
    /\ ~InTrade(t, {"closed", "opened"}) => Filed[t] = Tracked(t)
    /\ InTrade(t, {"buying", "bought"}) => Tracked(t) = 0

\* Besides, a token is closed that day only after it was entered, every
\* entry has its row, and what was bought is in the wallet.
RebuildInv ==
    /\ pc = "bought" => held[tok] > 0
    /\ \A t \in Tokens : log.opened[t] <= log.rows
    /\ \A t \in fresh \ hit : /\ t \in log.closed => log.opened[t] > 0
                              /\ log.opened[t] <= 1 => Agrees(t)

\* At the start there is nothing to tell.
LEMMA RebuildInit == Init => RebuildInv
BY BotAssumption DEF Init, RebuildInv, Agrees, Tracked, InTrade, Filed, None, EmptyLog,
   EmptyState

\* A step that leaves the four records alone, and no trade of a phase that
\* they disagree in behind.
LEMMA RebuildQuiet ==
    ASSUME TypeInv, RebuildInv, UNCHANGED <<held, disk, log, fresh>>,
           hit \subseteq hit', mem'.open = mem.open \/ pc' = "down",
           pc = "down" => pc' = "down",
           pc' = "bought" => pc = "bought" /\ tok' = tok,
           \A t \in Tokens \ hit' :
              /\ \A p \in {"bought", "booking", "closed", "opened"} :
                    InTrade(t, {p})' <=> InTrade(t, {p})
              /\ InTrade(t, {"buying", "bought"})' =>
                    \/ InTrade(t, {"buying", "bought"})
                    \/ mem.open[t] = 0 /\ pc # "down"
    PROVE  RebuildInv'
<1>1. ASSUME NEW t \in fresh \ hit', log.opened[t] <= 1
      PROVE  Agrees(t)'
  <2>1. t \in Tokens \ hit' /\ Agrees(t) /\ t \in fresh \ hit
    BY <1>1 DEF RebuildInv, TypeInv, TypeOK
  <2>2. Tracked(t)' = Tracked(t) /\ Filed'[t] = Filed[t] /\ held'[t] = held[t]
    BY DEF Tracked, Filed
  <2>3. /\ InTrade(t, {"bought"})' <=> InTrade(t, {"bought"})
        /\ InTrade(t, {"booking"})' <=> InTrade(t, {"booking"})
        /\ InTrade(t, {"closed", "opened"})' <=> InTrade(t, {"closed", "opened"})
    BY <2>1 DEF InTrade
  <2> QED
    BY <2>1, <2>2, <2>3 DEF Agrees
<1> QED
  BY <1>1 DEF RebuildInv

\* A save of what the memory holds, or a fault of its trade.
LEMMA RebuildSave ==
    ASSUME TypeInv, RebuildInv, UNCHANGED <<held, log, fresh>>, mem'.open = mem.open,
           NEW s \in States, s.open = mem.open, Save(s),
           pc \in {"tick", "closed", "opened"}, pc' \in {"tick", "monitor", "poll"}
    PROVE  RebuildInv'
<1>1. hit \subseteq hit' /\ disk' \in {s, disk}
  BY DEF Save, Smooth, Glitch, faulty
<1>2. ASSUME NEW t \in fresh \ hit', log.opened[t] <= 1
      PROVE  Agrees(t)'
  <2>1. t \in Tokens /\ Agrees(t)
    BY <1>1, <1>2 DEF RebuildInv, TypeInv, TypeOK
  <2>2. Tracked(t)' = Tracked(t) /\ held'[t] = held[t]
    BY DEF Tracked
  <2>3. mem.open[t] = Tracked(t) /\ held[t] = Tracked(t)
    BY <2>1 DEF Agrees, InTrade
  <2>4. Filed'[t] = Tracked(t)
    <3>1. CASE disk' = s
      BY <2>3, <3>1, BotAssumption DEF Filed
    <3>2. CASE disk' = disk /\ hit' = hit \union ({tok} \ {NoToken})
      <4>1. t # tok
        BY <1>2, <2>1, <3>2, BotAssumption
      <4> QED
        BY <2>1, <3>2, <4>1 DEF Agrees, InTrade, Filed
    <3> QED
      BY <3>1, <3>2 DEF Save, Glitch
  <2> QED
    BY <2>2, <2>3, <2>4 DEF Agrees, InTrade
<1> QED
  BY <1>1, <1>2 DEF RebuildInv

\* Stopping and dying leave the file and the log.
LEMMA RebuildDown ==
    ASSUME TypeInv, RebuildInv, Stop \/ Crash
    PROVE  RebuildInv'
<1>1. CASE Stop
  BY <1>1, RebuildQuiet DEF Stop, Goto, faulty, calendar, InTrade, TypeInv, TypeOK
<1>2. CASE Crash
  <2>1. /\ UNCHANGED <<held, disk, log, fresh>> /\ hit \subseteq hit' /\ pc' = "down"
        /\ \A t \in Tokens \ hit' : t # tok
    BY <1>2, BotAssumption DEF Crash, Goto, calendar
  <2> QED
    BY <2>1, RebuildQuiet DEF InTrade
<1> QED
  BY <1>1, <1>2

\* The new day starts with the tokens that no record holds.
LEMMA RebuildMidnight == ASSUME TypeInv, RebuildInv, Midnight PROVE RebuildInv'
<1>1. /\ UNCHANGED <<pc, tok, held, mem, disk, hit>>
      /\ log' = EmptyLog
      /\ \A t \in fresh' : /\ t \in Tokens /\ held[t] = 0 /\ mem.open[t] = 0
                           /\ Filed[t] = 0
  BY DEF Midnight, faulty, Filed, None
<1>2. \A t \in Tokens : log'.opened[t] = 0 /\ t \notin log'.closed /\ log'.rows = 0
  BY <1>1 DEF EmptyLog, None
<1>3. ASSUME NEW t \in fresh' \ hit'
      PROVE  Agrees(t)'
  <2>1. t \in Tokens /\ t \notin hit
    BY <1>1, <1>3
  <2>2. Tracked(t)' = 0 /\ held'[t] = 0 /\ Filed'[t] = 0 /\ mem'.open[t] = 0
    BY <1>1, <1>2, <1>3 DEF Tracked, Filed
  <2>3. ~InTrade(t, {"bought"})'
    BY <1>1, <1>3 DEF InTrade, RebuildInv
  <2> QED
    BY <2>2, <2>3 DEF Agrees
<1>4. pc' = "bought" => held'[tok'] > 0
  BY <1>1 DEF RebuildInv
<1> QED
  BY <1>1, <1>2, <1>3, <1>4 DEF RebuildInv

\* reset_daily leaves the positions.
LEMMA RebuildTick == ASSUME TypeInv, TypeInv', RebuildInv, Tick PROVE RebuildInv'
<1>1. /\ UNCHANGED <<tok, held, log, fresh>> /\ mem \in States /\ tok = NoToken
      /\ pc = "tick" /\ pc' \in {"tick", "monitor"}
  BY DEF Tick, Goto, calendar, TypeInv, TypeOK
<1>2. CASE UNCHANGED <<mem, disk>> /\ Smooth
  BY <1>1, <1>2, RebuildQuiet, BotAssumption DEF Smooth, faulty, InTrade
<1>3. CASE mem' = [mem EXCEPT !.daily = 0, !.reset = day] /\ Save(mem')
  <2>1. mem'.open = mem.open /\ mem' \in States
    BY <1>1, <1>3 DEF States, TypeInv, TypeOK
  <2> QED
    BY <1>1, <1>3, <2>1, RebuildSave
<1> QED
  BY <1>2, <1>3 DEF Tick

\* A start copies what the file or the log says of the token.
LEMMA RebuildBoot ==
    ASSUME TypeInv, RebuildInv, NEW r \in BOOLEAN, Boot(r)
    PROVE  /\ RebuildInv'
           /\ r => \A t \in fresh \ hit : log.opened[t] <= 1 => mem'.open[t] = held[t]
<1>1. /\ UNCHANGED <<tok, held, log, fresh, hit>>
      /\ pc = "down" /\ pc' = "tick" /\ tok = NoToken
  BY DEF Boot, Goto, calendar, TypeInv, TypeOK
<1>2. ASSUME NEW t \in fresh \ hit, log.opened[t] <= 1
      PROVE  Agrees(t)' /\ mem'.open[t] = held[t]
  <2>1. /\ t \in Tokens /\ Agrees(t) /\ t # tok
        /\ log.opened[t] \in {0, 1}
        /\ log.rows = 0 => log.opened[t] = 0
    <3>1. t \in Tokens /\ Agrees(t)
      BY <1>2 DEF RebuildInv, TypeInv, TypeOK
    <3>2. log.opened[t] \in Nat /\ log.opened[t] <= log.rows /\ log.rows \in Nat
      BY <3>1 DEF RebuildInv, TypeInv, TypeOK
    <3> QED
      BY <1>1, <1>2, <3>1, <3>2, BotAssumption
  <2>2. held[t] = Tracked(t) /\ Filed[t] = Tracked(t)
    BY <2>1 DEF Agrees, InTrade
  <2>3. EmptyState.open[t] = 0 /\ (log.rows = 0 => Tracked(t) = 0)
    BY <2>1 DEF EmptyState, None, Tracked
  <2>4. Rebuilt.open[t] = Tracked(t)
    BY <2>1 DEF Rebuilt, Tracked, Less1
  <2>5. mem'.open[t] = Tracked(t)
    BY <2>2, <2>3, <2>4 DEF Boot, Filed
  <2>6. Filed'[t] = Tracked(t)
    <3>1. CASE disk' = disk
      BY <2>2, <3>1 DEF Filed
    <3>2. CASE disk' = mem' /\ mem' \in {EmptyState, Rebuilt}
      <4>1. disk' # NoFile
        BY <3>2, RebuiltType, BotAssumption DEF TypeInv
      <4> QED
        BY <2>5, <3>2, <4>1 DEF Filed
    <3> QED
      BY <3>1, <3>2 DEF Boot
  <2>7. Tracked(t)' = Tracked(t)
    BY <1>1 DEF Tracked
  <2> QED
    BY <1>1, <2>1, <2>2, <2>5, <2>6, <2>7 DEF Agrees, InTrade
<1> QED
  BY <1>1, <1>2 DEF RebuildInv

\* Closing a position.
LEMMA RebuildClose ==
    ASSUME TypeInv, TypeInv', RebuildInv, Close \/ EndMonitor
    PROVE  RebuildInv'
<1> USE DEF Goto, Begin, Done, faulty, calendar
<1>0. /\ TypeOK /\ NoToken \notin Tokens /\ fresh \subseteq Tokens
      /\ held \in [Tokens -> Nat] /\ mem \in States
      /\ log \in [opened : [Tokens -> Nat], closed : SUBSET Tokens, rows : Nat]
  BY BotAssumption DEF TypeInv, TypeOK
<1>1. ASSUME NEW t \in Tokens, Exit(t) PROVE RebuildInv'
  <2>1. /\ UNCHANGED <<mem, disk, log, fresh>> /\ held' = held /\ hit \subseteq hit'
        /\ tok = NoToken /\ tok' = t /\ pc = "monitor" /\ mem.open[t] > 0
        /\ pc' \in {"selling", "booking"}
        /\ pc' = "booking" => held[t] = 0 \/ t \in hit'
    BY <1>0, <1>1 DEF Exit, Smooth, Glitch, TypeOK
  <2>2. ASSUME NEW u \in fresh \ hit', log.opened[u] <= 1
        PROVE  Agrees(u)'
    <3>1. Agrees(u) /\ u # NoToken /\ u \in Tokens
      BY <1>0, <2>1, <2>2 DEF RebuildInv
    <3>2. Tracked(u)' = Tracked(u) /\ Filed'[u] = Filed[u]
      BY <2>1 DEF Tracked, Filed
    <3> QED
      BY <1>0, <2>1, <2>2, <3>1, <3>2 DEF Agrees, InTrade
  <2> QED
    BY <2>1, <2>2 DEF RebuildInv
<1>2. CASE Sell
  <2>1. /\ UNCHANGED <<mem, disk, log, fresh>> /\ hit \subseteq hit' /\ pc = "selling"
        /\ tok \in Tokens /\ mem.open[tok] > 0
        /\ \/ /\ held' = [held EXCEPT ![tok] = 0] /\ pc' = "booking" /\ tok' = tok
           \/ /\ held' = held /\ pc' = "monitor" /\ tok' = NoToken
           \/ /\ held' = [held EXCEPT ![tok] = 0] /\ pc' = "monitor" /\ tok \in hit'
    BY <1>0, <1>2 DEF Sell, Smooth, Glitch, TypeInv, TypeOK
  <2>2. ASSUME NEW u \in fresh \ hit', log.opened[u] <= 1
        PROVE  Agrees(u)'
    <3>1. Agrees(u) /\ u # NoToken /\ u \in Tokens
      BY <1>0, <2>1, <2>2 DEF RebuildInv
    <3>2. Tracked(u)' = Tracked(u) /\ Filed'[u] = Filed[u]
      BY <2>1 DEF Tracked, Filed
    <3> QED
      BY <1>0, <2>1, <2>2, <3>1, <3>2 DEF Agrees, InTrade
  <2> QED
    BY <2>1, <2>2 DEF RebuildInv
<1>3. CASE Book
  <2>1. /\ UNCHANGED <<tok, held, disk, fresh, hit>> /\ pc = "booking" /\ pc' = "closed"
        /\ tok \in Tokens /\ mem.open[tok] > 0
        /\ log'.opened = log.opened /\ log'.rows = log.rows
        /\ log'.closed = log.closed \union {tok}
    BY <1>0, <1>3 DEF Book, TypeOK
  <2>2. \A u \in Tokens : mem'.open[u] = IF u = tok THEN mem.open[u] - 1 ELSE mem.open[u]
    BY <1>0, <1>3 DEF Book, States
  <2>3. ASSUME NEW u \in fresh \ hit
        PROVE  /\ u \in log'.closed => log.opened[u] > 0
               /\ log.opened[u] <= 1 => Agrees(u)'
    <3>1. /\ u \in Tokens /\ mem.open[u] \in Nat /\ log.opened[u] \in Nat
          /\ log.opened[u] <= 1 => Agrees(u)
          /\ u \in log.closed => log.opened[u] > 0
      BY <1>0, <2>1, <2>3 DEF RebuildInv, States
    <3>2. Filed'[u] = Filed[u]
      BY <2>1 DEF Filed
    <3>3. CASE u = tok
      <4>1. ASSUME log.opened[u] <= 1
            PROVE  mem.open[u] = 1 /\ log.opened[u] = 1 /\ held[u] = 0
        BY <2>1, <3>1, <3>3, <4>1 DEF Agrees, InTrade, Tracked
      <4>2. log.opened[u] > 0
        BY <3>1, <4>1
      <4>3. Tracked(u)' = 0
        BY <2>1, <3>3 DEF Tracked
      <4> QED
        BY <2>1, <2>2, <3>1, <3>3, <4>1, <4>2, <4>3 DEF Agrees, InTrade
    <3>4. CASE u # tok
      <4>1. Tracked(u)' = Tracked(u)
        BY <2>1, <3>4 DEF Tracked
      <4> QED
        BY <2>1, <2>2, <3>1, <3>2, <3>4, <4>1 DEF Agrees, InTrade
    <3> QED
      BY <3>3, <3>4
  <2> QED
    BY <2>1, <2>3 DEF RebuildInv
<1>4. CASE SaveClose
  <2>1. /\ UNCHANGED <<held, mem, log, fresh>> /\ Save(mem)
        /\ pc = "closed" /\ pc' = "monitor"
    BY <1>4 DEF SaveClose
  <2> QED
    BY <1>0, <2>1, RebuildSave
<1>5. CASE EndMonitor
  BY <1>0, <1>5, RebuildQuiet DEF EndMonitor, InTrade, TypeOK
<1> QED
  BY <1>1, <1>2, <1>3, <1>4, <1>5 DEF Close

\* Opening a position.
LEMMA RebuildOpen ==
    ASSUME TypeInv, TypeInv', RebuildInv, Open \/ EndPoll
    PROVE  RebuildInv'
<1> USE DEF Goto, Begin, Done, faulty, calendar
<1>0. /\ TypeOK /\ NoToken \notin Tokens /\ fresh \subseteq Tokens
      /\ held \in [Tokens -> Nat] /\ mem \in States
      /\ log \in [opened : [Tokens -> Nat], closed : SUBSET Tokens, rows : Nat]
  BY BotAssumption DEF TypeInv, TypeOK
<1>1. ASSUME NEW t \in Tokens, Entry(t) PROVE RebuildInv'
  <2>1. /\ UNCHANGED <<held, mem, disk, log, fresh, hit>>
        /\ tok = NoToken /\ tok' = t /\ pc = "poll" /\ pc' = "buying" /\ mem.open[t] = 0
    BY <1>0, <1>1 DEF Entry, TypeOK
  <2> QED
    BY <1>0, <2>1, RebuildQuiet DEF InTrade
<1>2. CASE Buy
  <2>1. /\ UNCHANGED <<mem, disk, log, fresh>> /\ hit \subseteq hit' /\ pc = "buying"
        /\ tok \in Tokens
        /\ \/ /\ held' = [held EXCEPT ![tok] = @ + 1] /\ pc' = "bought" /\ tok' = tok
           \/ /\ held' = [held EXCEPT ![tok] = @ + 1] /\ pc' = "poll" /\ tok \in hit'
           \/ held' = held /\ pc' = "poll"
    BY <1>0, <1>2 DEF Buy, Smooth, Glitch, TypeOK
  <2>2. ASSUME NEW u \in fresh \ hit', log.opened[u] <= 1
        PROVE  Agrees(u)'
    <3>1. Agrees(u) /\ u \in Tokens
      BY <1>0, <2>1, <2>2 DEF RebuildInv
    <3>2. Tracked(u)' = Tracked(u) /\ Filed'[u] = Filed[u]
      BY <2>1 DEF Tracked, Filed
    <3> QED
      BY <1>0, <2>1, <2>2, <3>1, <3>2 DEF Agrees, InTrade
  <2>3. pc' = "bought" => held'[tok'] > 0
    BY <1>0, <2>1
  <2> QED
    BY <2>1, <2>2, <2>3 DEF RebuildInv
<1>3. CASE BookEntry
  <2>1. /\ UNCHANGED <<tok, held, disk, fresh, hit>> /\ pc = "bought" /\ pc' = "opened"
        /\ tok \in Tokens
        /\ log'.closed = log.closed /\ log'.rows = log.rows + 1
    BY <1>0, <1>3 DEF BookEntry, TypeOK
  <2>2. \A u \in Tokens :
           /\ mem'.open[u] = IF u = tok THEN mem.open[u] + 1 ELSE mem.open[u]
           /\ log'.opened[u] = IF u = tok THEN log.opened[u] + 1 ELSE log.opened[u]
    BY <1>0, <1>3 DEF BookEntry, States
  <2>3. \A u \in Tokens : /\ log.opened[u] \in Nat /\ log.opened[u] <= log.rows
                          /\ log.rows \in Nat
    BY <1>0 DEF RebuildInv
  <2>4. \A u \in Tokens : log'.opened[u] <= log'.rows
    BY <2>1, <2>2, <2>3
  <2>5. ASSUME NEW u \in fresh \ hit
        PROVE  /\ u \in log'.closed => log'.opened[u] > 0
               /\ log'.opened[u] <= 1 => Agrees(u)'
    <3>1. /\ u \in Tokens /\ mem.open[u] \in Nat
          /\ log.opened[u] <= 1 => Agrees(u)
          /\ u \in log.closed => log.opened[u] > 0
      BY <1>0, <2>5 DEF RebuildInv, States
    <3>2. Filed'[u] = Filed[u]
      BY <2>1 DEF Filed
    <3>3. CASE u = tok
      <4>1. log'.opened[u] = log.opened[u] + 1 /\ mem'.open[u] = mem.open[u] + 1
        BY <2>2, <3>1, <3>3
      <4>2. u \in log'.closed => log'.opened[u] > 0
        BY <2>1, <2>3, <3>1, <4>1
      <4>3. ASSUME log'.opened[u] <= 1 PROVE Agrees(u)'
        <5>1. log.opened[u] = 0 /\ u \notin log.closed /\ Agrees(u)
          BY <2>3, <3>1, <4>1, <4>3
        <5>2. Tracked(u) = 0 /\ Tracked(u)' = 1
          BY <2>1, <4>1, <5>1 DEF Tracked
        <5>3. held[u] = 1 /\ mem.open[u] = 0
          BY <2>1, <3>3, <5>1, <5>2 DEF Agrees, InTrade
        <5> QED
          BY <2>1, <3>3, <4>1, <5>2, <5>3 DEF Agrees, InTrade
      <4> QED
        BY <4>2, <4>3
    <3>4. CASE u # tok
      <4>1. /\ Tracked(u)' = Tracked(u)
            /\ log'.opened[u] = log.opened[u] /\ mem'.open[u] = mem.open[u]
        BY <2>1, <2>2, <3>1, <3>4 DEF Tracked
      <4> QED
        BY <2>1, <3>1, <3>2, <3>4, <4>1 DEF Agrees, InTrade
    <3> QED
      BY <3>3, <3>4
  <2> QED
    BY <2>1, <2>4, <2>5 DEF RebuildInv
<1>4. CASE SaveEntry
  <2>1. /\ UNCHANGED <<held, mem, log, fresh>> /\ Save(mem)
        /\ pc = "opened" /\ pc' = "poll"
    BY <1>4 DEF SaveEntry
  <2> QED
    BY <1>0, <2>1, RebuildSave
<1>5. CASE EndPoll
  BY <1>0, <1>5, RebuildQuiet DEF EndPoll, InTrade, TypeOK
<1> QED
  BY <1>1, <1>2, <1>3, <1>4, <1>5 DEF Open

\* A rebuild from the artifact log gives every token that was out of the
\* books at midnight, entered at most once since and struck by no fault the
\* position that the wallet holds: for any crashes and failed saves, and
\* whatever was rebuilt before.
THEOREM RebuildHolds == Spec => RebuildRecovers
<1> DEFINE Recovers == rebuilds' > rebuilds =>
              \A t \in fresh \ hit : log.opened[t] <= 1 => mem'.open[t] = held[t]
<1>1. TypeInv /\ RebuildInv /\ [Next]_vars => RebuildInv'
  <2> SUFFICES ASSUME TypeInv, RebuildInv, [Next]_vars PROVE RebuildInv'
    OBVIOUS
  <2>1. TypeInv'
    BY NextType
  <2>2. CASE Next
    BY <2>1, <2>2, RebuildDown, RebuildMidnight, RebuildTick, RebuildBoot, RebuildClose,
       RebuildOpen DEF Next
  <2>3. CASE UNCHANGED vars
    BY <2>3 DEF vars, RebuildInv, Agrees, Tracked, InTrade, Filed
  <2> QED
    BY <2>2, <2>3
<1>2. TypeInv /\ RebuildInv /\ [Next]_vars => [Recovers]_vars
  <2> SUFFICES ASSUME TypeInv, RebuildInv, Next, rebuilds' > rebuilds
      PROVE \A t \in fresh \ hit : log.opened[t] <= 1 => mem'.open[t] = held[t]
    OBVIOUS
  <2>1. rebuilds \in Nat /\ ~(rebuilds > rebuilds)
    BY BotAssumption DEF TypeInv, TypeOK
  <2>2. PICK r \in BOOLEAN : Boot(r)
    BY <2>1 DEF Next, Stop, Crash, Midnight, Tick, Close, EndMonitor, Open, EndPoll,
       Exit, Sell, Book, SaveClose, Entry, Buy, BookEntry, SaveEntry, Save, Smooth,
       Glitch, faulty
  <2>3. r
    BY <2>1, <2>2 DEF Boot
  <2> QED
    BY <2>2, <2>3, RebuildBoot
<1> QED
  BY InitType, NextType, RebuildInit, <1>1, <1>2, PTL DEF Spec, RebuildRecovers
------------------------------------------------------------------------------
(* The pause.                                                               *)

\* The bot sleeps or is down, and the file that the next start loads says
\* what the memory says: enough losses in a row to pause.
Frozen ==
    /\ pc \in {"down", "tick"}
    /\ disk # NoFile /\ disk.losses >= LossPause
    /\ pc = "tick" => mem.losses >= LossPause

\* Once the losses that pause the bot are in its file, nothing short of a
\* rebuild ends the pause: reset_daily leaves the count alone, so midnights
\* and restarts do not lift it, and the positions it holds are neither sold
\* nor closed.  (should_pause, and the `continue` ahead of monitor_positions.)
PauseLasts ==
    [][Frozen /\ rebuilds' = rebuilds =>
          Frozen' /\ held' = held /\ log'.closed \subseteq log.closed]_vars

\* The types suffice: Frozen is kept by every step that can be taken in it.
THEOREM PauseLastsHolds == Spec => PauseLasts
<1> DEFINE Stays == Frozen' /\ held' = held /\ log'.closed \subseteq log.closed
<1>0. TypeInv /\ Next => TypeInv'
  BY NextType
<1>1. TypeInv /\ Next /\ Frozen /\ rebuilds' = rebuilds => Stays
  <2> SUFFICES ASSUME TypeInv, Next, Frozen, rebuilds' = rebuilds PROVE Stays
    OBVIOUS
  <2>0. /\ pc \in {"down", "tick"}
        /\ mem \in States /\ disk \in States /\ rebuilds \in Nat /\ LossPause \in Nat
    BY BotAssumption DEF TypeInv, TypeOK, Frozen
  <2>1. ASSUME NEW r \in BOOLEAN, Boot(r) PROVE Stays
    <3>1. ~r
      BY <2>0, <2>1 DEF Boot
    <3>2. mem' = disk /\ disk' = disk /\ pc' = "tick" /\ held' = held /\ log' = log
      BY <2>1, <3>1 DEF Boot, Goto, Frozen
    <3> QED
      BY <3>2 DEF Frozen
  <2>2. CASE Stop
    BY <2>2 DEF Stop, Goto, Frozen
  <2>3. CASE Midnight
    BY <2>3 DEF Midnight, EmptyLog, Frozen
  <2>4. CASE Tick
    <3>1. mem'.losses = mem.losses /\ disk' \in {disk, mem'}
      BY <2>0, <2>4 DEF Tick, Save, States
    <3>2. pc = "tick" /\ mem.losses >= LossPause /\ pc' = "tick"
      BY <2>4 DEF Tick, Goto, Frozen
    <3>3. disk' # NoFile
      <4>1. mem' \in States
        BY <1>0 DEF TypeInv, TypeOK
      <4> QED
        BY <3>1, <4>1, BotAssumption DEF Frozen
    <3>4. held' = held /\ log' = log
      BY <2>4 DEF Tick
    <3>5. disk'.losses >= LossPause
      BY <3>1, <3>2 DEF Frozen
    <3> QED
      BY <3>1, <3>2, <3>3, <3>4, <3>5 DEF Frozen
  <2> QED
    BY <2>0, <2>1, <2>2, <2>3, <2>4 DEF Next, Crash, Close, Exit, Sell, Book, SaveClose,
       EndMonitor, Open, Entry, Buy, BookEntry, SaveEntry, EndPoll
<1>2. TypeInv /\ [Next]_vars => [Frozen /\ rebuilds' = rebuilds => Stays]_vars
  BY <1>1
<1> QED
  BY InitType, NextType, <1>2, PTL DEF Spec, PauseLasts
=============================================================================
