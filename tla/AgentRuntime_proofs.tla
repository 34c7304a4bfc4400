------------------------- MODULE AgentRuntime_proofs -------------------------
(***************************************************************************)
(* Proofs about the process of an agent, for any size of the queue, any    *)
(* versions and any number of starts, calls and faults.                    *)
(***************************************************************************)
EXTENDS AgentRuntime, TLAPS

Marks == {"early", "late"}

\* What join() waits for: the entries queued and the one in hand.
Exact == unfinished = Len(queue) + (IF hand = "none" THEN 0 ELSE 1)

TypeInv == TypeOK /\ Exact

\* A queue that has room takes an entry, and one that is full a newer one.
LEMMA PutType ==
    ASSUME NEW q \in Seq(Marks), Len(q) <= QueueMax
    PROVE  Put(q) \in Seq(Marks) /\ Len(Put(q)) <= QueueMax
<1> DEFINE p == IF Len(q) < QueueMax THEN q ELSE Tail(q)
<1>1. QueueMax \in Nat /\ QueueMax >= 2
  BY RuntimeAssumption
<1>2. p \in Seq(Marks) /\ Len(p) < QueueMax
  <2>1. CASE Len(q) < QueueMax
    BY <2>1
  <2>2. CASE ~(Len(q) < QueueMax)
    <3>1. q # <<>>
      BY <1>1, <2>2
    <3>2. Tail(q) \in Seq(Marks) /\ Len(Tail(q)) = Len(q) - 1
      BY <3>1
    <3> QED
      BY <1>1, <2>2, <3>2
  <2> QED
    BY <2>1, <2>2
<1>3. Mark \in Marks
  BY DEF Mark, Marks
<1> HIDE DEF p
<1>4. Append(p, Mark) \in Seq(Marks) /\ Len(Append(p, Mark)) = Len(p) + 1
  BY <1>2, <1>3
<1>5. Len(p) \in Nat
  BY <1>2
<1> QED
  BY <1>1, <1>2, <1>4, <1>5 DEF Put, p

\* An entry keeps the count exact.
LEMMA SayType ==
    ASSUME TypeInv, NEW q \in Seq(Marks), Len(q) <= QueueMax, Say(q)
    PROVE  /\ queue' \in Seq(Marks) /\ Len(queue') <= QueueMax
           /\ hand' = hand /\ unfinished' \in Nat /\ Exact'
<1>1. Len(q) \in Nat /\ Len(queue) \in Nat
  BY DEF TypeInv, TypeOK
<1> QED
  BY <1>1 DEF TypeInv, TypeOK, Exact, Say

\* The process that is gone has its types.
LEMMA ExitType ==
    ASSUME TypeInv, NEW m \in {"dead", "stopped"}, Exit(m),
           row' \in [status : Statuses, version : {Base} \union Newer],
           stale' \in BOOLEAN, left' \in [Kinds -> Nat]
    PROVE  TypeInv'
<1>1. queue' \in Seq({"early", "late"}) /\ Len(queue') = 0
  BY DEF Exit
<1>2. Exact' /\ unfinished' \in Nat /\ hand' = "none" /\ Len(queue') <= QueueMax
  BY <1>1, RuntimeAssumption DEF Exit, Exact
<1>3. wake' \in BOOLEAN /\ late' \in BOOLEAN /\ pausing' \in BOOLEAN /\ crossed' \in BOOLEAN
  BY DEF Exit
<1>4. swap' \in [Newer -> {"idle", "read", "wrote"}] /\ seen' \in [Newer -> Statuses]
  BY DEF Exit, Statuses
<1>5. main' = "down" /\ mem' = m /\ version' = Base /\ sched' = "off" /\ due' = {}
  BY DEF Exit
<1> QED
  BY <1>1, <1>2, <1>3, <1>4, <1>5 DEF TypeInv, TypeOK

\* A bound is spent.
LEMMA SpendType ==
    ASSUME TypeOK, NEW k \in Kinds, Spend(k) PROVE left' \in [Kinds -> Nat]
BY DEF TypeOK, Spend

\* The initial state has its types.
LEMMA InitType == Init => TypeInv
<1> SUFFICES ASSUME Init PROVE TypeInv
  OBVIOUS
<1>1. queue \in Seq({"early", "late"}) /\ Len(queue) = 0
  BY DEF Init
<1>2. Exact /\ unfinished \in Nat /\ hand = "none" /\ Len(queue) <= QueueMax
  BY <1>1, RuntimeAssumption DEF Init, Exact
<1>3. wake \in BOOLEAN /\ late \in BOOLEAN /\ pausing \in BOOLEAN /\ crossed \in BOOLEAN
      /\ stale \in BOOLEAN
  BY DEF Init
<1>4. swap \in [Newer -> {"idle", "read", "wrote"}] /\ seen \in [Newer -> Statuses]
  BY DEF Init, Statuses
<1>5. main = "down" /\ mem = "dead" /\ version = Base /\ sched = "off" /\ due = {}
      /\ row \in [status : Statuses, version : {Base} \union Newer]
      /\ left \in [Kinds -> Nat]
  BY RuntimeAssumption DEF Init, Statuses
<1> QED
  BY <1>1, <1>2, <1>3, <1>4, <1>5 DEF TypeInv, TypeOK

\* The writer of the journal keeps the types.
LEMMA WriterType == ASSUME TypeInv, Writer PROVE TypeInv'
<1>1. CASE Take
  <2>1. queue \in Seq(Marks) /\ queue # <<>> /\ Len(queue) <= QueueMax
    BY <1>1 DEF Take, TypeInv, TypeOK, Marks
  <2>2. /\ Tail(queue) \in Seq(Marks) /\ Len(Tail(queue)) = Len(queue) - 1
        /\ Head(queue) \in Marks /\ Len(queue) \in Nat
    BY <2>1
  <2>3. QueueMax \in Nat
    BY RuntimeAssumption
  <2>4. queue' \in Seq(Marks) /\ Len(queue') <= QueueMax /\ hand' \in Marks /\ Exact'
    BY <1>1, <2>1, <2>2, <2>3 DEF Take, TypeInv, Exact, Marks
  <2> QED
    BY <1>1, <2>4 DEF Take, TypeInv, TypeOK, Marks, process, timer, swaps
<1>2. CASE Write
  <2>1. Len(queue) \in Nat /\ unfinished = Len(queue) + 1
    BY <1>2 DEF Write, TypeInv, TypeOK, Exact
  <2>2. unfinished' \in Nat /\ Exact'
    BY <1>2, <2>1 DEF Write, Exact
  <2> QED
    BY <1>2, <2>2 DEF Write, TypeInv, TypeOK, timer, swaps
<1> QED
  BY <1>1, <1>2 DEF Writer

\* Every step keeps the types.
LEMMA NextType == TypeInv /\ [Next]_vars => TypeInv'
<1> SUFFICES ASSUME TypeInv, [Next]_vars PROVE TypeInv'
  OBVIOUS
<1>q. queue \in Seq(Marks) /\ Len(queue) <= QueueMax
  BY DEF TypeInv, TypeOK, Marks
<1>p. Put(queue) \in Seq(Marks) /\ Len(Put(queue)) <= QueueMax
  BY <1>q, PutType
<1>pp. Put(Put(queue)) \in Seq(Marks) /\ Len(Put(Put(queue))) <= QueueMax
  BY <1>p, PutType
<1>s. ASSUME Say(Put(queue)) \/ Say(Put(Put(queue))) \/ UNCHANGED journal
      PROVE  /\ queue' \in Seq({"early", "late"}) /\ Len(queue') <= QueueMax
             /\ hand' = hand /\ unfinished' \in Nat /\ Exact'
  <2>1. CASE Say(Put(queue)) \/ Say(Put(Put(queue)))
    BY <1>p, <1>pp, <2>1, SayType DEF Marks
  <2>2. CASE UNCHANGED journal
    BY <2>2 DEF journal, TypeInv, TypeOK, Exact
  <2> QED
    BY <1>s, <2>1, <2>2
<1> USE DEF process, timer, swaps
<1>1. CASE UNCHANGED vars
  BY <1>1 DEF vars, journal, TypeInv, TypeOK, Exact
<1>2. CASE Boot
  <2>1. left' \in [Kinds -> Nat]
    BY <1>2, SpendType DEF Boot, Kinds, TypeInv
  <2> QED
    BY <1>2, <1>s, <2>1 DEF Boot, TypeInv, TypeOK
<1>3. CASE Up
  <2>1. CASE Exit("dead") /\ Spend("fault") /\ UNCHANGED <<row, stale>>
    BY <2>1, ExitType, SpendType DEF TypeInv, TypeOK, Kinds
  <2>2. CASE ~(Exit("dead") /\ Spend("fault") /\ UNCHANGED <<row, stale>>)
    <3>1. queue' \in Seq({"early", "late"}) /\ Len(queue') <= QueueMax
          /\ hand' = hand /\ unfinished' \in Nat /\ Exact'
      BY <1>3, <2>2, <1>s DEF Up
    <3>2. /\ main' = "up" /\ mem' = "running" /\ version' = Base /\ sched' = "loop"
          /\ row' = [status |-> "running", version |-> Base]
          /\ wake' \in BOOLEAN /\ stale' \in BOOLEAN
          /\ UNCHANGED <<due, late, pausing, swap, seen, crossed, left>>
      BY <1>3, <2>2 DEF Up
    <3> QED
      BY <3>1, <3>2 DEF TypeInv, TypeOK, Statuses
  <2> QED
    BY <2>1, <2>2
<1>4. CASE Poll \/ Interrupt
  <2>1. UNCHANGED journal /\ UNCHANGED <<mem, version, row, sched, due, pausing, swaps, left>>
        /\ main' = "stopping"
    BY <1>4 DEF Poll, Interrupt, BeginStop
  <2>2. wake' \in BOOLEAN /\ late' \in BOOLEAN
    <3>1. BeginStop
      BY <1>4 DEF Poll, Interrupt
    <3>2. wake' = TRUE /\ late' = (sched \in {"job", "halt", "halted"})
      BY <3>1 DEF BeginStop
    <3> QED
      BY <3>2
  <2>3. queue' \in Seq({"early", "late"}) /\ Len(queue') <= QueueMax
             /\ hand' = hand /\ unfinished' \in Nat /\ Exact'
    BY <2>1, <1>s
  <2> QED
    BY <2>1, <2>2, <2>3 DEF TypeInv, TypeOK
<1>5. CASE SchedulerStopped
  BY <1>5, <1>s DEF SchedulerStopped, TypeInv, TypeOK
<1>6. CASE Close
  <2>1. CASE Exit("dead") /\ Spend("fault") /\ UNCHANGED <<row, stale>>
    BY <2>1, ExitType, SpendType DEF TypeInv, TypeOK, Kinds
  <2>2. CASE ~(Exit("dead") /\ Spend("fault") /\ UNCHANGED <<row, stale>>)
    BY <1>6, <2>2, <1>s DEF Close, TypeInv, TypeOK, Statuses
  <2> QED
    BY <2>1, <2>2
<1>7. CASE Leave
  BY <1>7, ExitType DEF Leave, TypeInv, TypeOK
<1>8. CASE Writer
  BY <1>8, WriterType
<1>9. CASE Pass
  <2>1. queue' \in Seq({"early", "late"}) /\ Len(queue') <= QueueMax
        /\ hand' = hand /\ unfinished' \in Nat /\ Exact'
    BY <1>9, <1>s DEF Pass
  <2>2. sched' \in {"off", "loop", "job", "halt", "halted", "sleep"}
        /\ due' \subseteq {"refresh", "snapshot"} /\ wake' \in BOOLEAN
    BY <1>9 DEF Pass, Sleep, TypeInv, TypeOK
  <2>3. UNCHANGED <<process, row, late, pausing, swaps, left>>
    BY <1>9 DEF Pass
  <2> QED
    BY <2>1, <2>2, <2>3 DEF TypeInv, TypeOK
<1>10. CASE Snapshot
  <2>1. queue' \in Seq({"early", "late"}) /\ Len(queue') <= QueueMax
        /\ hand' = hand /\ unfinished' \in Nat /\ Exact'
    BY <1>10, <1>s DEF Snapshot
  <2>2. sched' \in {"off", "loop", "job", "halt", "halted", "sleep"}
        /\ due' \subseteq {"refresh", "snapshot"} /\ wake' \in BOOLEAN
    BY <1>10 DEF Snapshot, Finish, Sleep, TypeInv, TypeOK
  <2>3. UNCHANGED <<process, row, late, pausing, swaps, left>>
    BY <1>10 DEF Snapshot
  <2> QED
    BY <2>1, <2>2, <2>3 DEF TypeInv, TypeOK
<1>11. CASE Refresh
  <2>1. queue' \in Seq({"early", "late"}) /\ Len(queue') <= QueueMax
        /\ hand' = hand /\ unfinished' \in Nat /\ Exact'
    BY <1>11, <1>s DEF Refresh
  <2>2. sched' \in {"off", "loop", "job", "halt", "halted", "sleep"}
        /\ due' \subseteq {"refresh", "snapshot"} /\ wake' \in BOOLEAN
    BY <1>11 DEF Refresh, Finish, Sleep, TypeInv, TypeOK
  <2>3. UNCHANGED <<process, row, late, pausing, swaps, left>>
    BY <1>11 DEF Refresh
  <2> QED
    BY <2>1, <2>2, <2>3 DEF TypeInv, TypeOK
<1>12. CASE Halt
  <2>1. left' \in [Kinds -> Nat]
    BY <1>12, SpendType DEF Halt, Kinds, TypeInv, TypeOK
  <2>2. queue' \in Seq({"early", "late"}) /\ Len(queue') <= QueueMax
        /\ hand' = hand /\ unfinished' \in Nat /\ Exact'
    BY <1>12, <1>s DEF Halt
  <2>3. row' \in [status : Statuses, version : {Base} \union Newer] /\ sched' = "halted"
    BY <1>12 DEF Halt, TypeInv, TypeOK, Statuses
  <2>4. UNCHANGED <<process, due, wake, late, pausing, swaps>>
    BY <1>12 DEF Halt
  <2> QED
    BY <2>1, <2>2, <2>3, <2>4 DEF TypeInv, TypeOK
<1>13. CASE Halted
  <2>1. queue' \in Seq({"early", "late"}) /\ Len(queue') <= QueueMax
        /\ hand' = hand /\ unfinished' \in Nat /\ Exact'
    BY <1>13, <1>s DEF Halted
  <2>2. sched' \in {"off", "loop", "job", "halt", "halted", "sleep"}
        /\ due' \subseteq {"refresh", "snapshot"} /\ wake' \in BOOLEAN
        /\ mem' = "halted"
    BY <1>13 DEF Halted, Finish, Sleep, TypeInv, TypeOK
  <2>3. UNCHANGED <<main, version, row, late, pausing, swaps, left>>
    BY <1>13 DEF Halted
  <2> QED
    BY <2>1, <2>2, <2>3 DEF TypeInv, TypeOK
<1>14. CASE Awake
  BY <1>14, <1>s DEF Awake, TypeInv, TypeOK
<1>15. CASE Tick
  <2>1. left' \in [Kinds -> Nat]
    BY <1>15, SpendType DEF Tick, Kinds, TypeInv
  <2> QED
    BY <1>15, <1>s, <2>1 DEF Tick, TypeInv, TypeOK
<1>16. CASE Pause
  <2>1. left' \in [Kinds -> Nat]
    BY <1>16, SpendType DEF Pause, Kinds, TypeInv
  <2>2. queue' \in Seq({"early", "late"}) /\ Len(queue') <= QueueMax
        /\ hand' = hand /\ unfinished' \in Nat /\ Exact'
    BY <1>16, <1>s DEF Pause
  <2>3. row' \in [status : Statuses, version : {Base} \union Newer] /\ pausing' \in BOOLEAN
    BY <1>16 DEF Pause, TypeInv, TypeOK, Statuses
  <2>4. UNCHANGED <<process, timer, swaps>>
    BY <1>16 DEF Pause
  <2> QED
    BY <2>1, <2>2, <2>3, <2>4 DEF TypeInv, TypeOK
<1>17. CASE Paused
  <2>1. queue' \in Seq({"early", "late"}) /\ Len(queue') <= QueueMax
        /\ hand' = hand /\ unfinished' \in Nat /\ Exact'
    BY <1>17, <1>s DEF Paused
  <2>2. mem' = "paused" /\ pausing' \in BOOLEAN
    BY <1>17 DEF Paused, TypeInv, TypeOK
  <2>3. UNCHANGED <<main, version, row, timer, swaps, left>>
    BY <1>17 DEF Paused
  <2> QED
    BY <2>1, <2>2, <2>3 DEF TypeInv, TypeOK
<1>18. CASE Flip
  <2>1. left' \in [Kinds -> Nat]
    BY <1>18, SpendType DEF Flip, Kinds, TypeInv
  <2>2. queue' \in Seq({"early", "late"}) /\ Len(queue') <= QueueMax
        /\ hand' = hand /\ unfinished' \in Nat /\ Exact'
    BY <1>18, <1>s DEF Flip
  <2>3. row' \in [status : Statuses, version : {Base} \union Newer]
    BY <1>18 DEF Flip, TypeInv, TypeOK, Statuses
  <2>4. UNCHANGED <<process, timer, pausing, swaps>>
    BY <1>18 DEF Flip
  <2> QED
    BY <2>1, <2>2, <2>3, <2>4 DEF TypeInv, TypeOK
<1>19. CASE Crash
  BY <1>19, ExitType, SpendType DEF Crash, TypeInv, TypeOK, Kinds
<1>20. ASSUME NEW s \in Newer, SwapRead(s) PROVE TypeInv'
  <2>1. left' \in [Kinds -> Nat]
    BY <1>20, SpendType DEF SwapRead, Kinds, TypeInv
  <2> QED
    BY <1>20, <1>s, <2>1 DEF SwapRead, Midway, TypeInv, TypeOK
<1>21. ASSUME NEW s \in Newer, SwapWrite(s) PROVE TypeInv'
  <2>1. left' \in [Kinds -> Nat]
    BY <1>21, SpendType DEF SwapWrite, Kinds, TypeInv, TypeOK
  <2>2. queue' \in Seq({"early", "late"}) /\ Len(queue') <= QueueMax
        /\ hand' = hand /\ unfinished' \in Nat /\ Exact'
    BY <1>21, <1>s DEF SwapWrite
  <2>3. row' \in [status : Statuses, version : {Base} \union Newer]
        /\ swap' \in [Newer -> {"idle", "read", "wrote"}] /\ seen' \in [Newer -> Statuses]
        /\ stale' \in BOOLEAN
    <3>1. seen[s] \in Statuses /\ seen' \in [Newer -> Statuses]
      BY <1>21 DEF SwapWrite, TypeInv, TypeOK, Statuses
    <3>2. swap' \in [Newer -> {"idle", "read", "wrote"}]
      BY <1>21 DEF SwapWrite, TypeInv, TypeOK
    <3>3. CASE row' = [status |-> seen[s], version |-> s] /\ stale' = (stale \/ seen[s] # row.status)
      <4>1. row' \in [status : Statuses, version : {Base} \union Newer]
        BY <3>1, <3>3
      <4>2. stale' \in BOOLEAN
        BY <3>3
      <4> QED
        BY <3>1, <3>2, <4>1, <4>2
    <3>4. CASE UNCHANGED <<row, stale>>
      BY <3>1, <3>2, <3>4 DEF TypeInv, TypeOK
    <3> QED
      BY <1>21, <3>3, <3>4 DEF SwapWrite
  <2>4. UNCHANGED <<process, timer, pausing, crossed>>
    BY <1>21 DEF SwapWrite
  <2> QED
    BY <2>1, <2>2, <2>3, <2>4 DEF TypeInv, TypeOK
<1>22. ASSUME NEW s \in Newer, SwapDone(s) PROVE TypeInv'
  BY <1>22, <1>s DEF SwapDone, TypeInv, TypeOK
<1> QED
  BY <1>1, <1>2, <1>3, <1>4, <1>5, <1>6, <1>7, <1>8, <1>9, <1>10, <1>11, <1>12, <1>13, <1>14,
     <1>15, <1>16, <1>17, <1>18, <1>19, <1>20, <1>21, <1>22 DEF Next, Main, Timer

\* Every variable keeps its values, the queue its limit, and join() its count.
THEOREM RuntimeTyped == Spec => [](TypeOK /\ Exact)
<1> QED
  BY InitType, NextType, PTL DEF Spec, TypeInv
------------------------------------------------------------------------------
(* The journal.                                                             *)

\* Once join() has returned, no early entry is left.
JournalInv ==
    main \in {"closing", "leaving"} =>
        hand # "early" /\ \A i \in 1..Len(queue) : queue[i] # "early"

\* A late entry brings no early one into a queue that has none.
LEMMA PutLate ==
    ASSUME NEW q \in Seq(Marks), \A i \in 1..Len(q) : q[i] # "early",
           main \in {"closing", "leaving"}
    PROVE  Put(q) \in Seq(Marks) /\ \A i \in 1..Len(Put(q)) : Put(q)[i] # "early"
<1> DEFINE p == IF Len(q) < QueueMax THEN q ELSE Tail(q)
<1>1. p \in Seq(Marks) /\ \A i \in 1..Len(p) : p[i] # "early"
  <2>1. CASE Len(q) < QueueMax
    BY <2>1
  <2>2. CASE ~(Len(q) < QueueMax)
    <3>1. q # <<>>
      BY <2>2, RuntimeAssumption
    <3>2. Tail(q) \in Seq(Marks) /\ Len(Tail(q)) = Len(q) - 1
          /\ \A i \in 1..Len(Tail(q)) : Tail(q)[i] = q[i + 1]
      BY <3>1
    <3>3. \A i \in 1..(Len(q) - 1) : i + 1 \in 1..Len(q)
      OBVIOUS
    <3> QED
      BY <2>2, <3>2, <3>3
  <2> QED
    BY <2>1, <2>2
<1>2. Mark = "late"
  BY DEF Mark
<1> HIDE DEF p
<1>3. Append(p, "late") \in Seq(Marks) /\ Len(Append(p, "late")) = Len(p) + 1
      /\ \A i \in 1..(Len(p) + 1) :
            Append(p, "late")[i] = IF i = Len(p) + 1 THEN "late" ELSE p[i]
  BY <1>1 DEF Marks
<1>4. \A i \in 1..(Len(p) + 1) : i # Len(p) + 1 => i \in 1..Len(p)
  BY <1>1
<1>5. Put(q) = Append(p, "late")
  BY <1>2 DEF Put, p
<1> QED
  BY <1>1, <1>3, <1>4, <1>5

\* When a stopped agent writes its last status, every entry it had journalled
\* before it began to wait was written, or its loss logged.
THEOREM JournalHolds == Spec => []JournalComplete
<1>1. Init => JournalInv
  BY DEF Init, JournalInv
<1>2. TypeInv /\ JournalInv /\ [Next]_vars => JournalInv'
  <2> SUFFICES ASSUME TypeInv, JournalInv, [Next]_vars PROVE JournalInv'
    OBVIOUS
  <2>1. ASSUME main' = main, Say(Put(queue)) \/ Say(Put(Put(queue))) \/ UNCHANGED journal
        PROVE  JournalInv'
    <3>1. CASE main \in {"closing", "leaving"}
      <4>1. queue \in Seq(Marks) /\ \A i \in 1..Len(queue) : queue[i] # "early"
        BY <3>1 DEF TypeInv, TypeOK, JournalInv, Marks
      <4>2. /\ Put(queue) \in Seq(Marks)
            /\ \A i \in 1..Len(Put(queue)) : Put(queue)[i] # "early"
        BY <3>1, <4>1, PutLate
      <4>3. \A i \in 1..Len(Put(Put(queue))) : Put(Put(queue))[i] # "early"
        BY <3>1, <4>2, PutLate
      <4>4. hand' = hand /\ queue' \in {queue, Put(queue), Put(Put(queue))}
        BY <2>1 DEF Say, journal
      <4> QED
        BY <3>1, <4>1, <4>2, <4>3, <4>4 DEF JournalInv
    <3>2. CASE main \notin {"closing", "leaving"}
      BY <2>1, <3>2 DEF JournalInv
    <3> QED
      BY <3>1, <3>2
  <2> USE DEF process
  <2>2. CASE UNCHANGED vars
    BY <2>1, <2>2 DEF vars
  <2>3. CASE Take
    <3>1. CASE main = "closing"
      <4>1. queue \in Seq(Marks) /\ queue # <<>>
        BY <2>3 DEF Take, TypeInv, TypeOK, Marks
      <4>2. Len(queue) >= 1 /\ Len(Tail(queue)) = Len(queue) - 1 /\ Head(queue) = queue[1]
            /\ \A i \in 1..(Len(queue) - 1) : Tail(queue)[i] = queue[i + 1]
        BY <4>1
      <4>3. Len(queue) \in Nat
        BY <4>1
      <4>4. 1 \in 1..Len(queue) /\ \A i \in 1..(Len(queue) - 1) : i + 1 \in 1..Len(queue)
        BY <4>2, <4>3
      <4>5. \A i \in 1..Len(queue) : queue[i] # "early"
        BY <3>1 DEF JournalInv
      <4>6. hand' = queue[1] /\ queue' = Tail(queue)
        BY <2>3, <4>2 DEF Take
      <4> QED
        BY <4>2, <4>4, <4>5, <4>6 DEF JournalInv
    <3>2. CASE main # "closing"
      BY <2>3, <3>2 DEF Take, Writing, JournalInv
    <3> QED
      BY <3>1, <3>2
  <2>4. CASE Write
    <3>1. CASE main = "joining" /\ unfinished' = 0
      <4>1. Len(queue) \in Nat /\ unfinished = Len(queue) + 1 /\ unfinished' = unfinished - 1
        BY <2>4 DEF Write, TypeInv, TypeOK, Exact
      <4>2. Len(queue) = 0
        BY <3>1, <4>1
      <4> QED
        BY <2>4, <4>2 DEF Write, JournalInv
    <3>2. CASE ~(main = "joining" /\ unfinished' = 0)
      BY <2>4, <3>2 DEF Write, JournalInv
    <3> QED
      BY <3>1, <3>2
  <2>5. CASE Boot \/ Poll \/ Interrupt \/ SchedulerStopped
    BY <2>5 DEF Boot, Poll, Interrupt, BeginStop, SchedulerStopped, JournalInv
  <2>6. CASE Up \/ Leave \/ Crash
    BY <2>6 DEF Up, Leave, Crash, Exit, JournalInv
  <2>7. CASE Close
    BY <2>7 DEF Close, Exit, JournalInv, journal
  <2>8. CASE Pass \/ Snapshot \/ Refresh \/ Halt \/ Halted \/ Awake
    BY <2>1, <2>8 DEF Pass, Snapshot, Refresh, Halt, Halted, Awake
  <2>9. CASE Tick \/ Pause \/ Paused \/ Flip
    BY <2>1, <2>9 DEF Tick, Pause, Paused, Flip
  <2>10. ASSUME NEW s \in Newer, SwapRead(s) \/ SwapWrite(s) \/ SwapDone(s) PROVE JournalInv'
    BY <2>1, <2>10 DEF SwapRead, SwapWrite, SwapDone
  <2> QED
    BY <2>2, <2>3, <2>4, <2>5, <2>6, <2>7, <2>8, <2>9, <2>10 DEF Next, Main, Writer, Timer
<1>3. JournalInv => JournalComplete
  BY DEF JournalInv, JournalComplete
<1> QED
  BY <1>1, <1>2, <1>3, InitType, NextType, PTL DEF Spec
------------------------------------------------------------------------------
(* The scheduler, and the stop.                                             *)

\* A stop that finds a job running is late, and so remembered.  The jobs of a
\* pass are there while it runs and only then, a halt is that of a refresh, and
\* before the agent is up there is no scheduler.
PassInv ==
    /\ main = "stopping" /\ sched = "sleep" => wake \/ late
    /\ main = "stopping" /\ sched \in {"job", "halt", "halted"} => late
    /\ sched \in {"job", "halt", "halted"} <=> due # {}
    /\ sched \in {"halt", "halted"} => "refresh" \in due
    /\ ~Running => sched = "off"

\* While the stop waits for the queue there is an entry that it waits for.
WaitInv == main = "joining" => hand # "none" \/ queue # <<>>

\* Every step of the process keeps the jobs and the stop in step.
LEMMA PassInvNext == PassInv /\ [Next]_vars => PassInv'
<1> SUFFICES ASSUME PassInv, [Next]_vars PROVE PassInv'
  OBVIOUS
<1> USE DEF PassInv, Running, process, timer
<1>1. CASE UNCHANGED vars
  BY <1>1 DEF vars
<1>2. CASE Boot \/ Up \/ SchedulerStopped \/ Close \/ Leave \/ Crash \/ Writer
  BY <1>2 DEF Boot, Up, SchedulerStopped, Close, Leave, Crash, Exit, Writer, Take, Write,
              Writing
<1>3. CASE Poll \/ Interrupt
  <2>1. BeginStop
    BY <1>3 DEF Poll, Interrupt
  <2>2. /\ main' = "stopping" /\ wake' = TRUE /\ sched' = sched /\ due' = due
        /\ sched \in {"job", "halt", "halted"} => late'
    BY <2>1 DEF BeginStop
  <2> QED
    BY <2>2
<1>4. CASE Pass
  BY <1>4 DEF Pass, Sleep
<1>5. CASE Snapshot \/ Refresh \/ Halt \/ Halted
  BY <1>5 DEF Snapshot, Refresh, Halt, Halted, Finish, Sleep
<1>6. CASE Awake
  BY <1>6 DEF Awake
<1>7. CASE Tick \/ Pause \/ Paused \/ Flip
  BY <1>7 DEF Tick, Pause, Paused, Flip
<1>8. ASSUME NEW s \in Newer, SwapRead(s) \/ SwapWrite(s) \/ SwapDone(s) PROVE PassInv'
  BY <1>8 DEF SwapRead, SwapWrite, SwapDone
<1> QED
  BY <1>1, <1>2, <1>3, <1>4, <1>5, <1>6, <1>7, <1>8 DEF Next, Main, Timer

\* The entry that the stop brings is never the one that is dropped.
LEMMA PutFills == ASSUME NEW q \in Seq(Marks), Len(q) <= QueueMax PROVE Put(q) # <<>>
<1>1. \A p \in Seq(Marks) : Append(p, Mark) # <<>>
  OBVIOUS
<1>2. Len(q) < QueueMax \/ (q # <<>> /\ Tail(q) \in Seq(Marks))
  BY RuntimeAssumption
<1> QED
  BY <1>1, <1>2 DEF Put

\* Every step keeps an entry in sight of a stop that waits.
LEMMA WaitInvNext == TypeInv /\ WaitInv /\ [Next]_vars => WaitInv'
<1> SUFFICES ASSUME TypeInv, WaitInv, [Next]_vars PROVE WaitInv'
  OBVIOUS
<1>q. queue \in Seq(Marks) /\ Len(queue) <= QueueMax
  BY DEF TypeInv, TypeOK, Marks
<1>p. Put(queue) # <<>> /\ Put(Put(queue)) # <<>>
  BY <1>q, PutType, PutFills
<1>s. ASSUME Say(Put(queue)) \/ Say(Put(Put(queue))) PROVE WaitInv'
  BY <1>p, <1>s DEF Say, WaitInv
<1>u. ASSUME UNCHANGED journal, main' = main PROVE WaitInv'
  BY <1>u DEF journal, WaitInv
<1> USE DEF process
<1>1. CASE UNCHANGED vars
  BY <1>1, <1>u DEF vars
<1>2. CASE Boot \/ Up \/ Poll \/ Interrupt \/ Close \/ Leave \/ Crash
  BY <1>2 DEF Boot, Up, Poll, Interrupt, BeginStop, Close, Leave, Crash, Exit, WaitInv
<1>3. CASE SchedulerStopped \/ Tick \/ Paused
  BY <1>3, <1>s DEF SchedulerStopped, Tick, Paused
<1>4. CASE Take
  <2>1. Head(queue) \in Marks
    BY <1>q, <1>4 DEF Take
  <2> QED
    BY <1>4, <2>1 DEF Take, WaitInv, Marks
<1>5. CASE Write
  <2>1. Len(queue) \in Nat /\ unfinished' = Len(queue)
    BY <1>5 DEF Write, TypeInv, TypeOK, Exact
  <2>2. main' = "joining" => Len(queue) # 0
    BY <1>5, <2>1 DEF Write
  <2> QED
    BY <1>5, <2>2, <1>q DEF Write, WaitInv
<1>6. CASE Pass \/ Snapshot \/ Refresh \/ Halt \/ Halted \/ Awake \/ Pause \/ Flip
  BY <1>6, <1>s, <1>u DEF Pass, Snapshot, Refresh, Halt, Halted, Awake, Pause, Flip
<1>7. ASSUME NEW s \in Newer, SwapRead(s) \/ SwapWrite(s) \/ SwapDone(s) PROVE WaitInv'
  BY <1>7, <1>s, <1>u DEF SwapRead, SwapWrite, SwapDone
<1> QED
  BY <1>1, <1>2, <1>3, <1>4, <1>5, <1>6, <1>7 DEF Next, Main, Writer, Timer

\* The jobs and the stop are in step in every reachable state.
THEOREM PassHolds == Spec => []PassInv
<1>1. Init => PassInv
  BY DEF Init, PassInv, Running
<1> QED
  BY <1>1, PassInvNext, PTL DEF Spec

\* The scheduler does not sleep through a stop, unless the stop came while a
\* job was running, and whatever a stop waits for has a task with work to do.
THEOREM StopHeardHolds == Spec => []StopHeard
<1>1. Init => WaitInv
  BY DEF Init, WaitInv
<1>2. PassInv /\ WaitInv => StopHeard
  BY DEF PassInv, WaitInv, StopHeard
<1> QED
  BY <1>1, <1>2, InitType, NextType, WaitInvNext, PassHolds, PTL DEF Spec
------------------------------------------------------------------------------
(* The end of a stop: the half of StopEnds that is safety.                  *)

\* How far the scheduler is from its end: three steps for each job of the pass,
\* then the sleep and the look at the stop flag.
Jobs == (IF "refresh" \in due THEN 1 ELSE 0) + (IF "snapshot" \in due THEN 1 ELSE 0)
Distance ==
    CASE sched = "off" -> 0 [] sched = "loop" -> 1 [] sched = "sleep" -> 2
      [] sched = "job" -> 2 + 3 * Jobs [] sched = "halt" -> 1 + 3 * Jobs
      [] sched = "halted" -> 3 * Jobs

\* Once a stop has begun the scheduler only comes nearer its end: it runs what
\* is left of its pass, halts included, and never begins another.
SchedulerWindsDown ==
    [][main \notin {"down", "boot", "up"} /\ <<sched, due>>' # <<sched, due>>
          => Distance' < Distance]_vars

\* The distance is a natural number, and zero at the end alone.
LEMMA DistanceType ==
    ASSUME TypeInv, PassInv
    PROVE  Distance \in Nat /\ (Distance = 0 <=> <<sched, due>> = <<"off", {}>>)
<1>1. Jobs \in Nat /\ (due # {} => Jobs >= 1)
  <2>1. due # {} => "refresh" \in due \/ "snapshot" \in due
    BY DEF TypeInv, TypeOK
  <2> QED
    BY <2>1 DEF Jobs
<1>2. sched \in {"off", "loop", "job", "halt", "halted", "sleep"}
  BY DEF TypeInv, TypeOK
<1> HIDE DEF Jobs
<1> QED
  BY <1>1, <1>2 DEF Distance, PassInv

\* A job that ends takes three steps away.
LEMMA FinishNearer ==
    ASSUME TypeInv, PassInv, NEW j \in due, Finish(j),
           j = "refresh" \/ due = {"snapshot"}, sched \in {"job", "halted"}
    PROVE  Distance' < Distance
<1>1. due \subseteq {"refresh", "snapshot"} /\ due' = due \ {j}
  BY DEF Finish, TypeInv, TypeOK
<1>2. CASE due' = {}
  <2>1. Jobs = 1 /\ sched' = "sleep"
    BY <1>1, <1>2 DEF Jobs, Finish, Sleep
  <2> QED
    BY <2>1 DEF Distance
<1>3. CASE due' # {}
  <2>1. j = "refresh" /\ "snapshot" \in due
    BY <1>1, <1>3
  <2>2. "refresh" \in due /\ due' = {"snapshot"}
    BY <1>1, <2>1
  <2>3. sched' = "job"
    BY <1>3 DEF Finish
  <2>4. Jobs = 2 /\ Jobs' = 1
    BY <2>1, <2>2 DEF Jobs
  <2> QED
    BY <2>3, <2>4 DEF Distance
<1> QED
  BY <1>2, <1>3

\* A stop finds the scheduler at most eight steps from its end, and none of
\* the calls and commands that run beside it takes it further away.
THEOREM SchedulerWindsDownHolds == Spec => SchedulerWindsDown
<1> DEFINE Stopping == main \notin {"down", "boot", "up"}
           Moved == <<sched, due>>' # <<sched, due>>
<1>1. ASSUME TypeInv, PassInv, PassInv', Next, Stopping, Moved PROVE Distance' < Distance
  <2>1. CASE Exit("dead") \/ Exit("stopped")
    <3>1. <<sched, due>>' = <<"off", {}>> /\ Distance' = 0
      BY <2>1 DEF Exit, Distance
    <3>2. Distance \in Nat /\ Distance # 0
      BY <1>1, <3>1, DistanceType
    <3> QED
      BY <3>1, <3>2
  <2>2. CASE Pass
    BY <1>1, <2>2 DEF Pass, Distance
  <2>3. CASE Snapshot
    BY <1>1, <2>3, FinishNearer DEF Snapshot
  <2>4. CASE Refresh
    <3>1. CASE Finish("refresh")
      BY <1>1, <2>4, <3>1, FinishNearer DEF Refresh
    <3>2. CASE ~Finish("refresh")
      <4>1. sched = "job" /\ sched' = "halt" /\ due' = due
        BY <2>4, <3>2 DEF Refresh
      <4>2. Jobs' = Jobs /\ Jobs \in Nat
        BY <4>1 DEF Jobs
      <4> HIDE DEF Jobs
      <4> QED
        BY <4>1, <4>2 DEF Distance
    <3> QED
      BY <3>1, <3>2
  <2>5. CASE Halt
    <3>1. sched = "halt" /\ sched' = "halted" /\ due' = due
      BY <2>5 DEF Halt
    <3>2. Jobs' = Jobs /\ Jobs \in Nat
      BY <3>1 DEF Jobs
    <3> HIDE DEF Jobs
    <3> QED
      BY <3>1, <3>2 DEF Distance
  <2>6. CASE Halted
    BY <1>1, <2>6, FinishNearer DEF Halted, PassInv
  <2>7. CASE Awake
    BY <2>7 DEF Awake, Distance
  <2>8. CASE Boot \/ Up
    BY <1>1, <2>8 DEF Boot, Up
  <2>9. CASE Poll \/ Interrupt \/ SchedulerStopped \/ Writer
    BY <1>1, <2>9 DEF Poll, Interrupt, BeginStop, SchedulerStopped, Writer, Take, Write, timer
  <2>10. CASE Close \/ Leave \/ Crash
    BY <1>1, <2>1, <2>10 DEF Close, Leave, Crash, timer
  <2>11. CASE Tick \/ Pause \/ Paused \/ Flip
    BY <1>1, <2>11 DEF Tick, Pause, Paused, Flip, timer
  <2>12. ASSUME NEW s \in Newer, SwapRead(s) \/ SwapWrite(s) \/ SwapDone(s)
         PROVE  Distance' < Distance
    BY <1>1, <2>12 DEF SwapRead, SwapWrite, SwapDone, timer
  <2> QED
    BY <1>1, <2>2, <2>3, <2>4, <2>5, <2>6, <2>7, <2>8, <2>9, <2>10, <2>11, <2>12
       DEF Next, Main, Timer
<1>2. TypeInv /\ PassInv /\ PassInv' /\ [Next]_vars
        => [Stopping /\ Moved => Distance' < Distance]_vars
  BY <1>1
<1> QED
  BY <1>2, InitType, NextType, PassHolds, PTL DEF Spec, SchedulerWindsDown

------------------------------------------------------------------------------
(* What the row says of the process.                                        *)

\* A process that is alive does not look dead, and one that is not does nothing.
PhantomInv ==
    /\ NoPhantomRunner
    /\ main # "down" => mem # "dead"
    /\ ~Running => ~pausing /\ sched = "off"

\* An agent whose process ended by stop() is not left as running in the
\* database, unless a hot swap wrote back a status it had read earlier.
THEOREM NoPhantomHolds == Spec => []NoPhantomRunner
<1>1. Init => PhantomInv
  BY DEF Init, PhantomInv, NoPhantomRunner
<1>2. TypeInv /\ PhantomInv /\ [Next]_vars => PhantomInv'
  <2> SUFFICES ASSUME TypeInv, PhantomInv, [Next]_vars PROVE PhantomInv'
    OBVIOUS
  <2>t. row \in [status : Statuses, version : {Base} \union Newer]
    BY DEF TypeInv, TypeOK
  <2> USE <2>t DEF PhantomInv, NoPhantomRunner, process, swaps, timer, Running
  <2>1. CASE UNCHANGED vars
    BY <2>1 DEF vars
  <2>2. CASE Boot \/ Up \/ SchedulerStopped \/ Poll \/ Interrupt \/ Writer
    <3>1. CASE Boot \/ Up
      BY <3>1 DEF Boot, Up, Exit
    <3>2. CASE SchedulerStopped \/ Poll \/ Interrupt
      BY <3>2 DEF SchedulerStopped, Poll, Interrupt, BeginStop
    <3>3. CASE Writer
      BY <3>3 DEF Writer, Take, Write, Writing
    <3> QED
      BY <2>2, <3>1, <3>2, <3>3
  <2>3. CASE Close
    BY <2>3 DEF Close, Exit
  <2>4. CASE Leave \/ Crash
    BY <2>4 DEF Leave, Crash, Exit
  <2>5. CASE Timer
    <3>1. /\ UNCHANGED <<main, stale, pausing>> /\ sched # "off"
          /\ mem' \in {mem, "halted"} /\ row'.status \in {row.status, "halted"}
      BY <2>5 DEF Timer, Pass, Snapshot, Refresh, Halt, Halted, Awake
    <3> QED
      BY <3>1
  <2>6. CASE Tick \/ Pause \/ Paused \/ Flip
    <3>1. /\ UNCHANGED <<main, stale, sched>> /\ (pausing' => Running)
          /\ row'.status \in {row.status, "stopped", "paused"}
          /\ mem' \in {mem, "paused"} /\ (mem' # mem => Running)
      BY <2>6 DEF Tick, Pause, Paused, Flip, timer
    <3> QED
      BY <3>1
  <2>7. ASSUME NEW s \in Newer, SwapRead(s) \/ SwapDone(s) PROVE PhantomInv'
    BY <2>7 DEF SwapRead, SwapDone
  <2>8. ASSUME NEW s \in Newer, SwapWrite(s) PROVE PhantomInv'
    <3>1. main' = main /\ mem' = mem
      BY <2>8 DEF SwapWrite
    <3>2. UNCHANGED <<pausing, sched>>
      BY <2>8 DEF SwapWrite, timer
    <3>3. CASE row' = [status |-> seen[s], version |-> s] /\ stale' = (stale \/ seen[s] # row.status)
      <4>1. row'.status = seen[s]
        BY <3>3
      <4>2. stale' \/ (seen[s] = row.status /\ ~stale)
        BY <3>3
      <4> QED
        BY <3>1, <3>2, <4>1, <4>2
    <3>4. CASE UNCHANGED <<row, stale>>
      BY <3>1, <3>2, <3>4
    <3> QED
      BY <2>8, <3>3, <3>4 DEF SwapWrite
  <2> QED
    BY <2>1, <2>2, <2>3, <2>4, <2>5, <2>6, <2>7, <2>8 DEF Next, Main
<1>3. PhantomInv => NoPhantomRunner
  BY DEF PhantomInv
<1> QED
  BY <1>1, <1>2, <1>3, InitType, NextType, PTL DEF Spec

\* While no two hot swaps have overlapped, the one that is midway is newer
\* than the memory, and on record once it is written.
SwapInv ==
    /\ VersionAhead
    /\ ~Running => \A s \in Newer : swap[s] = "idle"
    /\ ~crossed =>
         /\ \A s, t \in Newer : Midway(s) /\ Midway(t) => s = t
         /\ \A s \in Newer : swap[s] = "read" => s > version
         /\ \A s \in Newer : swap[s] = "wrote" => row.version = s

\* The row is never behind the version that runs, unless two hot swaps
\* overlapped.
THEOREM VersionHolds == Spec => []VersionAhead
<1>1. Init => SwapInv
  BY DEF Init, SwapInv, VersionAhead, Running, Midway
<1>2. TypeInv /\ SwapInv /\ [Next]_vars => SwapInv'
  <2> SUFFICES ASSUME TypeInv, SwapInv, [Next]_vars PROVE SwapInv'
    OBVIOUS
  <2>t. /\ row \in [status : Statuses, version : {Base} \union Newer]
        /\ version \in {Base} \union Newer /\ {Base} \union Newer \subseteq Nat
        /\ swap \in [Newer -> {"idle", "read", "wrote"}]
    BY RuntimeAssumption DEF TypeInv, TypeOK
  <2> USE <2>t DEF SwapInv, VersionAhead, Running, Midway, process, swaps
  <2>1. CASE UNCHANGED vars
    BY <2>1 DEF vars
  <2>2. CASE Boot \/ Up
    <3>1. CASE Boot
      BY <3>1 DEF Boot
    <3>2. CASE Exit("dead")
      BY <3>2 DEF Exit
    <3>3. CASE Up /\ ~Exit("dead")
      <4>1. version' = Base /\ row'.version = Base /\ UNCHANGED <<swap, crossed>>
        BY <3>3 DEF Up
      <4>2. \A s \in Newer : swap[s] = "idle"
        BY <3>3 DEF Up
      <4> QED
        BY <4>1, <4>2
    <3> QED
      BY <2>2, <3>1, <3>2, <3>3
  <2>3. CASE Close \/ Leave \/ Crash
    BY <2>3 DEF Close, Leave, Crash, Exit
  <2>4. CASE SchedulerStopped \/ Poll \/ Interrupt \/ Writer
    BY <2>4 DEF SchedulerStopped, Poll, Interrupt, BeginStop, Writer, Take, Write, Writing
  <2>5. CASE Timer
    BY <2>5 DEF Timer, Pass, Snapshot, Refresh, Halt, Halted, Awake
  <2>6. CASE Tick \/ Pause \/ Paused \/ Flip
    BY <2>6 DEF Tick, Pause, Paused, Flip
  <2>7. ASSUME NEW s \in Newer, SwapRead(s) PROVE SwapInv'
    BY <2>7 DEF SwapRead
  <2>8. ASSUME NEW s \in Newer, SwapWrite(s) PROVE SwapInv'
    BY <2>8 DEF SwapWrite
  <2>9. ASSUME NEW s \in Newer, SwapDone(s) PROVE SwapInv'
    BY <2>9 DEF SwapDone
  <2> QED
    BY <2>1, <2>2, <2>3, <2>4, <2>5, <2>6, <2>7, <2>8, <2>9 DEF Next, Main
<1>3. SwapInv => VersionAhead
  BY DEF SwapInv
<1> QED
  BY <1>1, <1>2, <1>3, InitType, NextType, PTL DEF Spec
==============================================================================
