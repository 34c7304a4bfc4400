---------------------------- MODULE Fleet_proofs ----------------------------
(***************************************************************************)
(* Proofs about the control plane of the hosted agents, for any sets of    *)
(* agents, users and threads, any cap, and any number of crashes and       *)
(* restarts.                                                               *)
(***************************************************************************)
EXTENDS Fleet, FiniteSetTheorems, TLAPS

\* The initial state has its types.
LEMMA InitType == Init => TypeOK
BY FleetAssumption DEF Init, TypeOK, Nothing, Procs, Alive

\* A status write keeps the types of what it changes.
LEMMA WriteType ==
    ASSUME TypeOK, NEW a \in Agents, NEW s \in {"running", "stopped"}, Lands(a, s) \/ Raises(a, s)
    PROVE  /\ status' \in [Agents -> {"deployed", "running", "stopped"}]
           /\ unsaid' \subseteq Agents /\ raises' \in 0..MaxRaises
BY FleetAssumption DEF Lands, Raises, TypeOK

\* Pruning the table keeps the types.
LEMMA PruneType ==
    ASSUME TypeOK, NEW h \in Handlers, Prune(h) \/ WriteOff(h) PROVE TypeOK'
<1> USE FleetAssumption
<1>1. CASE Prune(h)
  <2>1. PICK a \in Agents :
          /\ snap' = [snap EXCEPT ![h][a] = 0]
          /\ \/ UNCHANGED <<table, mark, overlapped>>
             \/ /\ table' = [table EXCEPT ![a] = 0]
                /\ mark' = [mark EXCEPT ![h] = a]
                /\ Overlap(h, a)
    BY <1>1 DEF Prune
  <2>2. 0 \in 0..born
    BY DEF TypeOK
  <2>3. snap' \in [Handlers -> [Agents -> 0..born]]
    BY <2>1, <2>2 DEF TypeOK
  <2>4. /\ table' \in [Agents -> 0..born] /\ mark' \in [Handlers -> Agents \union {None}]
        /\ overlapped' \subseteq Agents
    <3>1. CASE UNCHANGED <<table, mark, overlapped>>
      BY <3>1 DEF TypeOK
    <3>2. CASE /\ table' = [table EXCEPT ![a] = 0]
               /\ mark' = [mark EXCEPT ![h] = a]
               /\ Overlap(h, a)
      BY <2>2, <3>2 DEF Overlap, TypeOK
    <3> QED
      BY <2>1, <3>1, <3>2
  <2> QED
    BY <1>1, <2>3, <2>4 DEF Prune, TypeOK, Alive, faults
<1>2. CASE WriteOff(h)
  <2>1. mark[h] \in Agents /\ 0 \in 0..born
    BY <1>2 DEF WriteOff, TypeOK
  <2>2. /\ status' \in [Agents -> {"deployed", "running", "stopped"}]
        /\ unsaid' \subseteq Agents /\ raises' \in 0..MaxRaises
    BY <1>2, <2>1, WriteType DEF WriteOff
  <2>3. mark' \in [Handlers -> Agents \union {None}]
    BY <1>2 DEF WriteOff, TypeOK
  <2>4. CASE UNCHANGED <<pc, on, hand, snap>>
    BY <1>2, <2>2, <2>3, <2>4 DEF WriteOff, TypeOK, Alive
  <2>5. CASE Answer(h) /\ snap' = [snap EXCEPT ![h] = Nothing]
    <3>1. snap' \in [Handlers -> [Agents -> 0..born]]
      BY <2>1, <2>5 DEF Nothing, TypeOK
    <3> QED
      BY <1>2, <2>1, <2>2, <2>3, <2>5, <3>1 DEF WriteOff, Answer, Goto, TypeOK, Alive
  <2> QED
    BY <1>2, <2>4, <2>5 DEF WriteOff
<1> QED
  BY <1>1, <1>2

\* Listing the agents keeps the types.
LEMMA ListType ==
    ASSUME TypeOK, NEW h \in Handlers, List(h) \/ EndList(h) PROVE TypeOK'
<1> USE FleetAssumption DEF Goto, Alive, fleet, ghosts, faults
<1>1. CASE List(h)
  <2>1. snap' \in [Handlers -> [Agents -> 0..born]]
    BY <1>1 DEF List, Snapshot, TypeOK
  <2> QED
    BY <1>1, <2>1 DEF List, TypeOK
<1>2. CASE EndList(h)
  BY <1>2 DEF EndList, Pruned, TypeOK
<1> QED
  BY <1>1, <1>2

\* Starting an agent keeps the types.
LEMMA StartType ==
    ASSUME TypeOK, NEW h \in Handlers,
           (\E a \in Agents : Start(h, a)) \/ Check(h) \/ Admit(h)
               \/ Spawn(h) \/ Record(h) \/ Announce(h)
    PROVE  TypeOK'
<1> USE FleetAssumption DEF Goto, Answer, fleet, faults
<1>0. 0 \in 0..born
  BY DEF TypeOK
<1>1. ASSUME NEW a \in Agents, Start(h, a) PROVE TypeOK'
  BY <1>1 DEF Start, Snapshot, Overlap, TypeOK, Alive
<1>2. CASE Check(h)
  <2>1. on[h] \in Agents
    BY <1>2 DEF Check, Pruned, TypeOK
  <2>2. raced' \subseteq Agents
    BY <1>2, <2>1 DEF Check, TypeOK
  <2>3. snap' \in [Handlers -> [Agents -> 0..born]]
    BY <1>2 DEF Check, Snapshot, TypeOK
  <2>4. pc[h] = "first"
    BY <1>2 DEF Check, Pruned
  <2>5. CASE Answer(h)
    BY <1>0, <1>2, <2>2, <2>3, <2>5 DEF Check, TypeOK, Alive
  <2>6. CASE Goto(h, "second") /\ UNCHANGED <<on, hand>>
    BY <1>2, <2>2, <2>3, <2>4, <2>6 DEF Check, TypeOK, Alive
  <2> QED
    BY <1>2, <2>5, <2>6 DEF Check
<1>3. CASE Admit(h)
  <2>0. pc[h] = "second"
    BY <1>3 DEF Admit, Pruned
  <2>1. OnTheWay(h) \union {on[h]} \subseteq Agents
    <3>1. \A g \in Handlers : pc[g] \in {"spawn", "record", "second"} => on[g] \in Agents
      BY DEF TypeOK
    <3> QED
      BY <2>0, <3>1 DEF OnTheWay
  <2>2. crossed' \subseteq Agents
    BY <1>3, <2>1 DEF Admit, Cross, TypeOK
  <2>3. CASE Answer(h)
    BY <1>0, <1>3, <2>2, <2>3 DEF Admit, TypeOK, Alive
  <2>4. CASE Goto(h, "spawn") /\ UNCHANGED <<on, hand>>
    BY <1>3, <2>0, <2>2, <2>4 DEF Admit, TypeOK, Alive
  <2> QED
    BY <1>3, <2>3, <2>4 DEF Admit
<1>4. CASE Spawn(h)
  <2>1. on[h] \in Agents /\ pc[h] = "spawn"
    BY <1>4 DEF Spawn, TypeOK
  <2>2. CASE Answer(h) /\ UNCHANGED <<owner, proc, born>>
    BY <1>0, <1>4, <2>1, <2>2 DEF Spawn, TypeOK, Alive, ghosts
  <2>3. CASE /\ born < MaxProcs
             /\ hand' = [hand EXCEPT ![h] = born + 1]
             /\ proc' = [proc EXCEPT ![born + 1] = "live"]
             /\ owner' = [owner EXCEPT ![born + 1] = on[h]]
             /\ born' = born + 1
             /\ Goto(h, "record") /\ UNCHANGED on
    <3>1. born \in Nat /\ born + 1 \in Procs /\ 0..born \subseteq 0..born'
      BY <2>3 DEF TypeOK, Procs
    <3>2. table' \in [Agents -> 0..born'] /\ snap' \in [Handlers -> [Agents -> 0..born']]
      BY <1>4, <3>1 DEF Spawn, TypeOK
    <3>3. hand' \in [Handlers -> 0..born']
      BY <2>3, <3>1 DEF TypeOK
    <3>4. \A p \in Procs : (p > born' <=> proc'[p] = "unborn")
      BY <2>3, <3>1 DEF TypeOK, Procs
    <3>5. \A p \in Procs : (Alive(p)' <=> owner'[p] # None)
      BY <2>1, <2>3, <3>1 DEF TypeOK, Alive
    <3> QED
      BY <1>4, <2>1, <2>3, <3>1, <3>2, <3>3, <3>4, <3>5 DEF Spawn, TypeOK, ghosts
  <2> QED
    BY <1>4, <2>2, <2>3 DEF Spawn
<1>5. CASE Record(h)
  BY <1>5 DEF Record, TypeOK, Alive
<1>6. CASE Announce(h)
  <2>1. on[h] \in Agents
    BY <1>6 DEF Announce, TypeOK
  <2> QED
    BY <1>0, <1>6, <2>1, WriteType DEF Announce, TypeOK, Alive
<1> QED
  BY <1>1, <1>2, <1>3, <1>4, <1>5, <1>6

\* Stopping an agent keeps the types.
LEMMA StopType ==
    ASSUME TypeOK, NEW h \in Handlers,
           (\E a \in Agents : Stop(h, a)) \/ Kill(h) \/ Unannounce(h)
    PROVE  TypeOK'
<1> USE FleetAssumption DEF Goto, Answer, fleet, faults
<1>0. 0 \in 0..born
  BY DEF TypeOK
<1>1. ASSUME NEW a \in Agents, Stop(h, a) PROVE TypeOK'
  BY <1>0, <1>1 DEF Stop, Overlap, TypeOK, Alive
<1>2. CASE Kill(h)
  BY <1>2 DEF Kill, TypeOK, Alive, ghosts
<1>3. CASE Unannounce(h)
  <2>1. on[h] \in Agents
    BY <1>3 DEF Unannounce, TypeOK
  <2> QED
    BY <1>0, <1>3, <2>1, WriteType DEF Unannounce, TypeOK, Alive
<1> QED
  BY <1>1, <1>2, <1>3

\* The end of a process and a restart keep the types.
LEMMA LifeType ==
    ASSUME TypeOK, (\E p \in Procs : Exit(p)) \/ Restart PROVE TypeOK'
<1> USE FleetAssumption
<1>1. ASSUME NEW p \in Procs, Exit(p) PROVE TypeOK'
  <2>1. crashes' \in 0..MaxCrashes
    BY <1>1 DEF Exit, TypeOK
  <2> QED
    BY <1>1, <2>1 DEF Exit, TypeOK, Alive, handler, ghosts
<1>2. CASE Restart
  <2>1. raced' \subseteq Agents
    BY <1>2 DEF Restart, TypeOK
  <2>2. restarts' \in 0..MaxRestarts /\ 0 \in 0..born
    BY <1>2 DEF Restart, TypeOK
  <2> QED
    BY <1>2, <2>1, <2>2 DEF Restart, Nothing, TypeOK, Alive
<1> QED
  BY <1>1, <1>2

\* Every step keeps the types.
LEMMA NextType == TypeOK /\ [Next]_vars => TypeOK'
<1> SUFFICES ASSUME TypeOK, [Next]_vars PROVE TypeOK'
  OBVIOUS
<1>1. CASE UNCHANGED vars
  BY <1>1 DEF vars, fleet, handler, ghosts, faults, TypeOK, Alive
<1>2. ASSUME NEW h \in Handlers, Handle(h) PROVE TypeOK'
  BY <1>2, PruneType, ListType, StartType, StopType DEF Handle
<1>3. CASE (\E p \in Procs : Exit(p)) \/ Restart
  BY <1>3, LifeType
<1> QED
  BY <1>1, <1>2, <1>3 DEF Next

\* Every variable keeps its values: in particular the alive processes, and
\* only they, have an agent to trade for.
THEOREM FleetTyped == Spec => []TypeOK
<1>1. Init => TypeOK
  BY InitType
<1>2. TypeOK /\ [Next]_vars => TypeOK'
  BY NextType
<1> QED
  BY <1>1, <1>2, PTL DEF Spec

\* A status is written off before the handler goes on.
Marks == \A h \in Handlers : mark[h] # None => pc[h] \in {"list", "first", "second"}

\* No mark outlives the pruning.
LEMMA MarksHold == Spec => []Marks
<1> USE FleetAssumption
<1>1. Init => Marks
  BY DEF Init, Marks
<1>2. TypeOK /\ Marks /\ [Next]_vars => Marks'
  <2> SUFFICES ASSUME TypeOK, Marks, [Next]_vars PROVE Marks'
    OBVIOUS
  <2> USE DEF TypeOK, Marks, Goto, Answer, fleet, ghosts, faults
  <2>1. ASSUME NEW h \in Handlers, Prune(h) \/ WriteOff(h) PROVE Marks'
    BY <2>1 DEF Prune, Pruning, WriteOff
  <2>2. ASSUME NEW h \in Handlers, List(h) \/ EndList(h) \/ Check(h) \/ Admit(h) PROVE Marks'
    BY <2>2 DEF List, EndList, Check, Admit, Pruned
  <2>3. ASSUME NEW h \in Handlers, NEW a \in Agents, Start(h, a) \/ Stop(h, a) PROVE Marks'
    BY <2>3 DEF Start, Stop
  <2>4. ASSUME NEW h \in Handlers, Spawn(h) \/ Record(h) \/ Announce(h) \/ Kill(h) \/ Unannounce(h)
        PROVE  Marks'
    BY <2>4 DEF Spawn, Record, Announce, Kill, Unannounce
  <2>5. CASE (\E p \in Procs : Exit(p)) \/ Restart \/ UNCHANGED vars
    BY <2>5 DEF Exit, Restart, handler, vars
  <2> QED
    BY <2>1, <2>2, <2>3, <2>4, <2>5 DEF Next, Handle
<1> QED
  BY <1>1, <1>2, FleetTyped, PTL DEF Spec
------------------------------------------------------------------------------
(* No process is lost.                                                      *)

\* A handler past the check of a start whose process is not in the table yet.
Entering(h) == pc[h] \in {"second", "spawn", "record"}

\* Listed entries are polled before the handler goes on.
Polls == \A h \in Handlers : snap[h] # Nothing => pc[h] \in {"list", "first", "second"}

\* A listed entry is still the one in the table, if there is one.
Fresh == \A h \in Handlers, a \in Agents \ raced :
            snap[h][a] # 0 /\ table[a] # 0 => snap[h][a] = table[a]

\* The place of a process on its way to the table is empty, and its alone.
Room == \A h \in Handlers : Entering(h) /\ on[h] \notin raced => table[on[h]] = 0
Alone == \A h \in Handlers, g \in Handlers :
            h # g /\ Entering(h) /\ Entering(g) /\ on[h] = on[g] => on[h] \in raced

\* The process a start has spawned trades for the agent it was asked for.
Spawned == \A h \in Handlers : pc[h] = "record" =>
            /\ hand[h] \in Procs
            /\ Alive(hand[h]) => owner[hand[h]] = on[h]

\* The inductive form of NoLostProcess.
RaceInv == Polls /\ Fresh /\ Room /\ Alone /\ Spawned /\ NoLostProcess


\* Nothing runs at first.
LEMMA InitRace == Init => RaceInv
BY FleetAssumption DEF Init, RaceInv, Polls, Fresh, Entering, Room, Alone, Spawned,
   NoLostProcess, Nothing, Procs

\* A process leaves the table only when it is the one that was polled, or its
\* agent was struck by a race.
LEMMA PruneRace ==
    ASSUME TypeOK, RaceInv, NEW h \in Handlers, Prune(h) PROVE RaceInv'
<1> USE DEF RaceInv
<1>1. PICK a \in Agents :
        /\ snap[h][a] # 0
        /\ snap' = [snap EXCEPT ![h][a] = 0]
        /\ \/ table' = table
           \/ ~Alive(snap[h][a]) /\ table' = [table EXCEPT ![a] = 0]
  BY DEF Prune
<1>2. UNCHANGED <<status, owner, proc, born, pc, on, hand, crossed, raced>>
  BY DEF Prune, faults
<1>3. Polls'
  <2>1. \A g \in Handlers \ {h} : snap'[g] = snap[g]
    BY <1>1 DEF TypeOK
  <2>2. pc[h] \in {"list", "first", "second"}
    BY DEF Prune, Pruning
  <2> QED
    BY <1>2, <2>1, <2>2 DEF Polls, Nothing
<1>4. Fresh'
  BY <1>1, <1>2 DEF Fresh, TypeOK
<1>5. Room' /\ Alone'
  <2>1. \A b \in Agents : table[b] = 0 => table'[b] = 0
    BY <1>1 DEF TypeOK
  <2>2. \A g \in Handlers : Entering(g) => on[g] \in Agents
    BY DEF Entering, TypeOK
  <2> QED
    BY <1>2, <2>1, <2>2 DEF Room, Alone, Entering
<1>6. Spawned'
  BY <1>2 DEF Spawned, Alive
<1>7. NoLostProcess'
  <2> SUFFICES ASSUME NEW p \in Procs, proc[p] = "live", owner[p] \notin raced
               PROVE  table'[owner[p]] = p \/ InHand(p)
    BY <1>2 DEF NoLostProcess, InHand
  <2>1. CASE InHand(p)
    BY <2>1
  <2>2. CASE table[owner[p]] = p
    <3>1. owner[p] \in Agents /\ p # 0 /\ Alive(p)
      <4>1. Alive(p) /\ p # 0
        BY DEF Alive, Procs
      <4> QED
        BY <4>1 DEF TypeOK
    <3>2. a = owner[p] => snap[h][a] = p
      BY <1>1, <2>2, <3>1 DEF Fresh
    <3> QED
      BY <1>1, <2>2, <3>1, <3>2 DEF TypeOK
  <2> QED
    BY <2>1, <2>2 DEF NoLostProcess
<1> QED
  BY <1>3, <1>4, <1>5, <1>6, <1>7

\* A list is the table itself.
LEMMA SnapshotFresh ==
    ASSUME TypeOK, Fresh, NEW h \in Handlers, Snapshot(h), UNCHANGED table, raced \subseteq raced'
    PROVE  Fresh'
<1>1. \A g \in Handlers : snap'[g] = IF g = h THEN table ELSE snap[g]
  BY DEF Snapshot, TypeOK
<1> QED
  BY <1>1 DEF Fresh

\* Listing, and the first half of a start, keep track of the processes.
LEMMA CheckRace ==
    ASSUME TypeOK, RaceInv, NEW h \in Handlers,
           List(h) \/ (\E a \in Agents : Start(h, a)) \/ Check(h)
    PROVE  RaceInv'
<1> USE DEF RaceInv
<1> DEFINE Others == \A g \in Handlers \ {h} : /\ pc'[g] = pc[g] /\ on'[g] = on[g]
                                              /\ snap'[g] = snap[g] /\ hand'[g] = hand[g]
           Same == UNCHANGED <<table, owner, proc>> /\ raced \subseteq raced'
<1>1. Same /\ Others /\ pc[h] \in {"idle", "first"}
  <2>1. CASE List(h)
    BY <2>1 DEF List, Goto, Snapshot, fleet, ghosts, TypeOK
  <2>2. ASSUME NEW a \in Agents, Start(h, a) PROVE Same /\ Others /\ pc[h] = "idle"
    BY <2>2 DEF Start, Goto, Snapshot, fleet, TypeOK
  <2>3. CASE Check(h)
    BY <2>3 DEF Check, Pruned, Answer, Goto, Snapshot, fleet, TypeOK
  <2> QED
    BY <2>1, <2>2, <2>3
<1>2. CASE pc'[h] \in {"list", "first"} /\ Snapshot(h)
  <2>1. Polls' /\ Spawned'
    BY <1>1, <1>2 DEF Polls, Spawned, Alive
  <2>2. Room' /\ Alone'
    BY <1>1, <1>2 DEF Room, Alone, Entering
  <2>3. NoLostProcess'
    BY <1>1, <1>2 DEF NoLostProcess, InHand
  <2> QED
    BY <1>1, <1>2, <2>1, <2>2, <2>3, SnapshotFresh
<1>3. CASE pc'[h] = "idle" /\ snap' = snap /\ pc[h] = "first" /\ Pruned(h, "first")
  <2>1. Polls' /\ Spawned'
    BY <1>1, <1>3 DEF Polls, Spawned, Alive, Pruned
  <2>2. Room' /\ Alone'
    BY <1>1, <1>3 DEF Room, Alone, Entering
  <2>3. NoLostProcess'
    BY <1>1, <1>3 DEF NoLostProcess, InHand
  <2> QED
    BY <1>1, <1>3, <2>1, <2>2, <2>3 DEF Fresh
<1>4. CASE /\ pc'[h] = "second" /\ Snapshot(h) /\ on' = on /\ table[on[h]] = 0
           /\ Starting(h, on[h]) => on[h] \in raced'
  <2>1. Polls' /\ Spawned'
    BY <1>1, <1>4 DEF Polls, Spawned, Alive
  <2>2. Room'
    BY <1>1, <1>4 DEF Room, Entering
  <2>3. Alone'
    <3> SUFFICES ASSUME NEW f \in Handlers, NEW g \in Handlers, f # g,
                        Entering(f)', Entering(g)', on[f] = on[g]
                 PROVE  on[f] \in raced'
      BY <1>4 DEF Alone
    <3>1. CASE f = h
      BY <1>1, <1>4, <3>1 DEF Starting, Entering
    <3>2. CASE g = h
      BY <1>1, <1>4, <3>2 DEF Starting, Entering
    <3>3. CASE f # h /\ g # h
      BY <1>1, <3>3 DEF Alone, Entering
    <3> QED
      BY <3>1, <3>2, <3>3
  <2>4. NoLostProcess'
    BY <1>1, <1>4 DEF NoLostProcess, InHand
  <2> QED
    BY <1>1, <1>4, <2>1, <2>2, <2>3, <2>4, SnapshotFresh
<1>5. List(h) \/ (\E a \in Agents : Start(h, a)) => pc'[h] \in {"list", "first"} /\ Snapshot(h)
  BY DEF List, Start, Goto, TypeOK
<1>6. CASE Check(h)
  <2>1. pc[h] = "first" /\ on[h] \in Agents
    BY <1>6 DEF Check, Pruned, TypeOK
  <2>2. CASE Answer(h) /\ UNCHANGED <<snap, raced>>
    BY <1>3, <1>6, <2>1, <2>2 DEF Check, Answer, Goto, TypeOK
  <2>3. CASE /\ on[h] \notin Tracked /\ Goto(h, "second") /\ Snapshot(h)
             /\ raced' = IF Starting(h, on[h]) THEN raced \union {on[h]} ELSE raced
             /\ UNCHANGED <<on, hand>>
    BY <1>4, <1>6, <2>1, <2>3 DEF Goto, Tracked, TypeOK
  <2> QED
    BY <1>6, <2>2, <2>3 DEF Check
<1> QED
  BY <1>2, <1>5, <1>6
\* The second half of a start: what enters the table finds its place empty,
\* or its agent was struck by a race.
LEMMA SpawnRace ==
    ASSUME TypeOK, RaceInv, NEW h \in Handlers, Admit(h) \/ Spawn(h) \/ Record(h)
    PROVE  RaceInv'
<1> USE DEF RaceInv
<1>1. CASE Admit(h)
  <2>1. /\ UNCHANGED <<table, owner, proc, snap, raced>> /\ Pruned(h, "second")
        /\ \A g \in Handlers \ {h} : pc'[g] = pc[g] /\ on'[g] = on[g] /\ hand'[g] = hand[g]
        /\ pc'[h] \in {"idle", "spawn"} /\ (pc'[h] = "spawn" => on'[h] = on[h])
    <3>1. UNCHANGED <<table, owner, proc, snap, raced>> /\ Pruned(h, "second")
      BY <1>1 DEF Admit, fleet
    <3>2. CASE Answer(h)
      <4>1. pc \in [Handlers -> {"idle", "list", "first", "second", "spawn", "record",
                               "announce", "kill", "unannounce"}]
            /\ on \in [Handlers -> Agents \union {None}] /\ DOMAIN hand = Handlers
        BY DEF TypeOK
      <4>2. pc'[h] = "idle" /\ \A g \in Handlers \ {h} : pc'[g] = pc[g] /\ on'[g] = on[g]
        BY <3>2, <4>1 DEF Answer, Goto
      <4>3. \A g \in Handlers \ {h} : hand'[g] = hand[g]
        BY <3>2, <4>1 DEF Answer
      <4> QED
        BY <3>1, <4>2, <4>3
    <3>3. CASE Goto(h, "spawn") /\ UNCHANGED <<on, hand>>
      BY <3>1, <3>3 DEF Goto, TypeOK
    <3> QED
      BY <1>1, <3>2, <3>3 DEF Admit
  <2>2. Polls' /\ Fresh' /\ Spawned'
    BY <2>1 DEF Polls, Fresh, Spawned, Alive, Pruned
  <2>3. Room' /\ Alone'
    BY <2>1 DEF Room, Alone, Entering, Pruned
  <2>4. NoLostProcess'
    BY <2>1 DEF NoLostProcess, InHand, Pruned
  <2> QED
    BY <2>2, <2>3, <2>4
<1>2. CASE Spawn(h)
  <2>1. /\ UNCHANGED <<table, snap, raced>> /\ pc[h] = "spawn" /\ on[h] \in Agents
        /\ \A g \in Handlers \ {h} : pc'[g] = pc[g] /\ on'[g] = on[g] /\ hand'[g] = hand[g]
    BY <1>2 DEF Spawn, Answer, Goto, ghosts, TypeOK
  <2>2. Polls' /\ Fresh'
    BY <2>1 DEF Polls, Fresh
  <2>3. CASE pc'[h] = "idle" /\ UNCHANGED <<owner, proc>>
    <3>1. Room' /\ Alone' /\ Spawned'
      BY <2>1, <2>3 DEF Room, Alone, Entering, Spawned, Alive
    <3>2. NoLostProcess'
      BY <2>1, <2>3 DEF NoLostProcess, InHand
    <3> QED
      BY <2>2, <3>1, <3>2
  <2>4. CASE /\ born < MaxProcs
             /\ hand' = [hand EXCEPT ![h] = born + 1]
             /\ proc' = [proc EXCEPT ![born + 1] = "live"]
             /\ owner' = [owner EXCEPT ![born + 1] = on[h]]
             /\ pc'[h] = "record" /\ UNCHANGED on
    <3>1. born + 1 \in Procs /\ hand'[h] = born + 1
      BY <2>4, FleetAssumption DEF TypeOK, Procs
    <3>2. /\ \A p \in Procs \ {born + 1} : proc'[p] = proc[p] /\ owner'[p] = owner[p]
          /\ proc'[born + 1] = "live" /\ owner'[born + 1] = on[h]
      BY <2>4, <3>1 DEF TypeOK
    <3>3. Room' /\ Alone'
      BY <2>1, <2>4 DEF Room, Alone, Entering
    <3>4. Spawned'
      <4>1. \A g \in Handlers : hand[g] # born + 1
        BY DEF TypeOK
      <4> QED
        BY <2>1, <2>4, <3>1, <3>2, <4>1 DEF Spawned, Alive
    <3>5. NoLostProcess'
      BY <2>1, <2>4, <3>1, <3>2 DEF NoLostProcess, InHand
    <3> QED
      BY <2>2, <3>3, <3>4, <3>5
  <2> QED
    BY <1>2, <2>3, <2>4 DEF Spawn, Answer, Goto, TypeOK
<1>3. CASE Record(h)
  <2>1. /\ UNCHANGED <<owner, proc, on, snap, hand>> /\ pc[h] = "record" /\ on[h] \in Agents
        /\ \A g \in Handlers \ {h} : pc'[g] = pc[g]
        /\ pc'[h] = "announce"
        /\ table' = [table EXCEPT ![on[h]] = hand[h]]
        /\ raced \subseteq raced'
        /\ (\E g \in Handlers \ {h} : snap[g][on[h]] # 0) => on[h] \in raced'
    BY <1>3 DEF Record, Goto, TypeOK
  <2>2. snap[h] = Nothing
    BY <2>1 DEF Polls
  <2>3. Polls' /\ Spawned'
    BY <2>1 DEF Polls, Spawned, Alive
  <2>4. Fresh'
    BY <2>1, <2>2 DEF Fresh, Nothing, TypeOK
  <2>5. Room' /\ Alone'
    <3>1. \A g \in Handlers : Entering(g)' => g # h /\ Entering(g)
      BY <2>1 DEF Entering
    <3>2. \A g \in Handlers : Entering(g)' /\ on[g] = on[h] => on[g] \in raced
      BY <2>1, <3>1 DEF Alone, Entering
    <3>3. \A g \in Handlers : Entering(g) => on[g] \in Agents
      BY DEF Entering, TypeOK
    <3> QED
      BY <2>1, <3>1, <3>2, <3>3 DEF Room, Alone, TypeOK
  <2>6. NoLostProcess'
    <3> SUFFICES ASSUME NEW p \in Procs, proc[p] = "live", owner[p] \notin raced'
                 PROVE  table'[owner[p]] = p \/ InHand(p)'
      BY <2>1 DEF NoLostProcess
    <3>1. owner[p] \in Agents
      BY DEF TypeOK, Alive
    <3>2. CASE hand[h] = p
      BY <2>1, <3>1, <3>2 DEF Spawned, Alive, TypeOK
    <3>3. CASE hand[h] # p /\ InHand(p)
      BY <2>1, <3>3 DEF InHand
    <3>4. CASE table[owner[p]] = p
      <4>1. on[h] \notin raced => table[on[h]] = 0
        BY <2>1 DEF Room, Entering
      <4> QED
        <5>1. p # 0
          BY DEF Procs
        <5> QED
          BY <2>1, <3>1, <3>4, <4>1, <5>1 DEF TypeOK
    <3> QED
      BY <2>1, <3>2, <3>3, <3>4 DEF NoLostProcess
  <2> QED
    BY <2>3, <2>4, <2>5, <2>6
<1> QED
  BY <1>1, <1>2, <1>3

\* A stop takes a process out of the table into the hands that signal it.
LEMMA StopRace ==
    ASSUME TypeOK, RaceInv, NEW h \in Handlers,
           (\E a \in Agents : Stop(h, a)) \/ Kill(h)
    PROVE  RaceInv'
<1> USE DEF RaceInv
<1>1. ASSUME NEW a \in Agents, Stop(h, a) PROVE RaceInv'
  <2>1. /\ UNCHANGED <<owner, proc, snap, raced>> /\ pc[h] = "idle" /\ pc'[h] = "kill"
        /\ \A g \in Handlers \ {h} : pc'[g] = pc[g] /\ on'[g] = on[g] /\ hand'[g] = hand[g]
        /\ table' = [table EXCEPT ![a] = 0] /\ hand'[h] = table[a]
    BY <1>1 DEF Stop, Goto, faults, TypeOK
  <2>2. Polls' /\ Fresh' /\ Spawned'
    <3>1. \A b \in Agents : table'[b] # 0 => table'[b] = table[b]
      BY <2>1 DEF TypeOK
    <3> QED
      BY <2>1, <3>1 DEF Polls, Fresh, Spawned, Alive
  <2>3. Room' /\ Alone'
    <3>1. \A g \in Handlers : Entering(g)' => g # h /\ Entering(g) /\ on[g] \in Agents
      BY <2>1 DEF Entering, TypeOK
    <3> QED
      BY <2>1, <3>1 DEF Room, Alone, TypeOK
  <2>4. NoLostProcess'
    <3> SUFFICES ASSUME NEW p \in Procs, proc[p] = "live", owner[p] \notin raced
                 PROVE  table'[owner[p]] = p \/ InHand(p)'
      BY <2>1 DEF NoLostProcess
    <3>1. owner[p] \in Agents
      BY DEF TypeOK, Alive
    <3>2. CASE InHand(p)
      BY <2>1, <3>2 DEF InHand
    <3>3. CASE table[owner[p]] = p
      BY <2>1, <3>1, <3>3 DEF InHand, TypeOK
    <3> QED
      BY <3>2, <3>3 DEF NoLostProcess
  <2> QED
    BY <2>2, <2>3, <2>4
<1>2. CASE Kill(h)
  <2>1. /\ UNCHANGED <<table, owner, on, snap, hand, raced>>
        /\ pc[h] = "kill" /\ pc'[h] = "unannounce"
        /\ \A g \in Handlers \ {h} : pc'[g] = pc[g]
        /\ \A p \in Procs : /\ Alive(p)' <=> Alive(p)
                            /\ proc'[p] = "live" => p # hand[h] /\ proc[p] = "live"
    BY <1>2 DEF Kill, Goto, Alive, ghosts, TypeOK
  <2>2. Polls' /\ Fresh' /\ Spawned'
    BY <2>1 DEF Polls, Fresh, Spawned
  <2>3. Room' /\ Alone'
    BY <2>1 DEF Room, Alone, Entering
  <2>4. NoLostProcess'
    BY <2>1 DEF NoLostProcess, InHand
  <2> QED
    BY <2>2, <2>3, <2>4
<1> QED
  BY <1>1, <1>2

\* The steps that leave the table and the processes alone.
LEMMA QuietRace ==
    ASSUME TypeOK, Marks, RaceInv, NEW h \in Handlers,
           WriteOff(h) \/ EndList(h) \/ Announce(h) \/ Unannounce(h)
    PROVE  RaceInv'
<1>1. /\ UNCHANGED <<table, owner, proc, raced>>
      /\ \A g \in Handlers \ {h} : /\ pc'[g] = pc[g] /\ on'[g] = on[g]
                                   /\ snap'[g] = snap[g] /\ hand'[g] = hand[g]
      /\ snap'[h] \in {snap[h], Nothing}
      /\ \/ pc'[h] = pc[h] /\ on'[h] = on[h] /\ hand'[h] = hand[h]
         \/ /\ pc[h] \in {"list", "first", "second", "announce", "unannounce"}
            /\ pc'[h] = "idle" /\ snap'[h] = Nothing
  <2>1. CASE WriteOff(h) /\ UNCHANGED <<pc, on, hand, snap>>
    BY <2>1 DEF WriteOff
  <2>2. CASE WriteOff(h) /\ Answer(h) /\ snap' = [snap EXCEPT ![h] = Nothing]
    <3>1. pc[h] \in {"list", "first", "second"}
      BY <2>2 DEF WriteOff, Marks
    <3> QED
      BY <2>2, <3>1 DEF WriteOff, Answer, Goto, TypeOK
  <2>3. CASE EndList(h)
    BY <2>3 DEF EndList, Pruned, Goto, fleet, ghosts, TypeOK
  <2>4. CASE Announce(h) \/ Unannounce(h)
    <3>1. snap[h] = Nothing
      BY <2>4 DEF Announce, Unannounce, RaceInv, Polls
    <3> QED
      BY <2>4, <3>1 DEF Announce, Unannounce, Answer, Goto, TypeOK
  <2> QED
    BY <2>1, <2>2, <2>3, <2>4 DEF WriteOff
<1>2. Polls'
  BY <1>1 DEF RaceInv, Polls
<1>3. Fresh' /\ Spawned'
  BY <1>1 DEF RaceInv, Fresh, Spawned, Alive, Nothing
<1>4. Room' /\ Alone'
  BY <1>1 DEF RaceInv, Room, Alone, Entering
<1>5. NoLostProcess'
  BY <1>1 DEF RaceInv, NoLostProcess, InHand
<1> QED
  BY <1>2, <1>3, <1>4, <1>5 DEF RaceInv

\* A process that ends is not lost, and a restart marks what it loses.
LEMMA LifeRace ==
    ASSUME TypeOK, RaceInv, (\E p \in Procs : Exit(p)) \/ Restart PROVE RaceInv'
<1> USE DEF RaceInv
<1>1. ASSUME NEW p \in Procs, Exit(p) PROVE RaceInv'
  <2>1. /\ UNCHANGED <<table, pc, on, snap, hand, raced>> /\ ~Alive(p)'
        /\ \A q \in Procs \ {p} : proc'[q] = proc[q] /\ owner'[q] = owner[q]
    BY <1>1 DEF Exit, Alive, handler, ghosts, TypeOK
  <2>2. Polls' /\ Fresh' /\ Spawned'
    BY <2>1 DEF Polls, Fresh, Spawned, Alive
  <2>3. Room' /\ Alone'
    BY <2>1 DEF Room, Alone, Entering
  <2>4. NoLostProcess'
    BY <2>1 DEF NoLostProcess, InHand, Alive
  <2> QED
    BY <2>2, <2>3, <2>4
<1>2. CASE Restart
  <2>1. Polls' /\ Fresh' /\ Room' /\ Alone' /\ Spawned'
    BY <1>2 DEF Restart, Nothing, Polls, Fresh, Entering, Room, Alone, Spawned
  <2>2. NoLostProcess'
    BY <1>2 DEF Restart, NoLostProcess, Alive
  <2> QED
    BY <2>1, <2>2
<1> QED
  BY <1>1, <1>2

\* The inductive form holds.
LEMMA RaceHolds == Spec => []RaceInv
<1>1. TypeOK /\ Marks /\ RaceInv /\ [Next]_vars => RaceInv'
  <2> SUFFICES ASSUME TypeOK, Marks, RaceInv, [Next]_vars PROVE RaceInv'
    OBVIOUS
  <2>1. CASE UNCHANGED vars
    BY <2>1 DEF vars, fleet, handler, ghosts, RaceInv, Polls, Fresh, Room, Alone, Entering,
       Spawned, Alive, NoLostProcess, InHand
  <2>2. ASSUME NEW h \in Handlers, Handle(h) PROVE RaceInv'
    BY <2>2, PruneRace, CheckRace, SpawnRace, StopRace, QuietRace DEF Handle
  <2>3. CASE (\E p \in Procs : Exit(p)) \/ Restart
    BY <2>3, LifeRace
  <2> QED
    BY <2>1, <2>2, <2>3 DEF Next
<1> QED
  BY <1>1, InitRace, FleetTyped, MarksHold, PTL DEF Spec

\* A process that runs and was not told to end is in the table, or in the
\* hands of a handler, or its agent was struck by one of three races: a
\* second start, a late prune, a restart of the control plane.
THEOREM ProcessNeverLost == Spec => []NoLostProcess
<1>1. RaceInv => NoLostProcess
  BY DEF RaceInv
<1> QED
  BY <1>1, RaceHolds, PTL

\* An agent never trades twice: of two processes of it that run and were not
\* told to end, one is about to be told.
NeverTwice ==
    \A p, q \in Procs :
        proc[p] = "live" /\ proc[q] = "live" /\ owner[p] = owner[q] /\ p # q
            => \/ owner[p] \in raced
               \/ \E h \in Handlers : pc[h] = "kill" /\ hand[h] \in {p, q}

\* The races that lose a process are also the only ones that double one: a
\* start does not go ahead while the process of an earlier one is in the table
\* or on its way there.
THEOREM ProcessNeverTwice == Spec => []NeverTwice
<1>1. TypeOK /\ RaceInv => NeverTwice
  <2> SUFFICES ASSUME TypeOK, RaceInv, NEW p \in Procs, NEW q \in Procs,
                      proc[p] = "live", proc[q] = "live", owner[p] = owner[q], p # q,
                      owner[p] \notin raced,
                      \A h \in Handlers : pc[h] = "kill" => hand[h] \notin {p, q}
               PROVE  FALSE
    BY DEF NeverTwice
  <2> DEFINE Recording(r) == \E h \in Handlers : hand[h] = r /\ pc[h] = "record"
  <2>1. /\ table[owner[p]] = p \/ Recording(p)
        /\ table[owner[p]] = q \/ Recording(q)
    BY DEF RaceInv, NoLostProcess, InHand
  <2>2. \A h \in Handlers : pc[h] = "record" /\ hand[h] \in {p, q}
           => Entering(h) /\ on[h] = owner[p]
    BY DEF RaceInv, Spawned, Alive, Entering
  <2>3. CASE Recording(p) /\ Recording(q)
    BY <2>2, <2>3 DEF RaceInv, Alone
  <2>4. CASE table[owner[p]] # 0 /\ (Recording(p) \/ Recording(q))
    BY <2>2, <2>4 DEF RaceInv, Room
  <2>5. p # 0 /\ q # 0
    BY DEF Procs
  <2> QED
    BY <2>1, <2>3, <2>4, <2>5
<1> QED
  BY <1>1, FleetTyped, RaceHolds, PTL
------------------------------------------------------------------------------
(* No user exceeds the cap.                                                 *)

\* The agents of u in the table or on their way to it.
Coming(u) == {a \in Agents : Owner[a] = u /\ \E h \in Handlers : on[h] = a /\ pc[h] \in {"spawn", "record"}}

\* The inductive form of CapBounded: the starts on their way count.
CapInv == \A u \in Owners :
            Cardinality((Running(u) \union Coming(u)) \ crossed) <= MaxPerUser

\* A set inside another is no larger.
LEMMA Smaller ==
    ASSUME NEW S \in SUBSET Agents, NEW T \in SUBSET S
    PROVE  IsFiniteSet(S) /\ Cardinality(S) \in Nat /\ Cardinality(T) \in Nat
           /\ Cardinality(T) <= Cardinality(S)
<1>1. IsFiniteSet(S)
  BY FleetAssumption, FS_Subset
<1> QED
  BY <1>1, FS_Subset, FS_CardinalityType

\* Where nothing is added to the agents of a user, the cap still holds.
LEMMA CapShrinks ==
    ASSUME CapInv,
           \A u \in Owners : ((Running(u) \union Coming(u)) \ crossed)'
                                 \subseteq (Running(u) \union Coming(u)) \ crossed
    PROVE  CapInv'
<1> SUFFICES ASSUME NEW u \in Owners
             PROVE  Cardinality((Running(u) \union Coming(u)) \ crossed)' <= MaxPerUser
  BY DEF CapInv
<1> DEFINE S == (Running(u) \union Coming(u)) \ crossed
<1>1. S \in SUBSET Agents
  BY DEF Running, Tracked, Coming
<1>2. S' \in SUBSET S
  OBVIOUS
<1>3. MaxPerUser \in Nat /\ Cardinality(S) <= MaxPerUser
  BY FleetAssumption DEF CapInv
<1> HIDE DEF S
<1>4. Cardinality(S') <= MaxPerUser
  BY <1>1, <1>2, <1>3, Smaller
<1> QED
  BY <1>4 DEF S

\* An admission leaves room for the agent, or is marked as crossed.
LEMMA CapAdmit ==
    ASSUME TypeOK, CapInv, NEW h \in Handlers, Admit(h) PROVE CapInv'
<1>1. UNCHANGED <<table, status, owner>> /\ pc[h] = "second" /\ on[h] \in Agents
      /\ \A u \in Owners : Running(u)' = Running(u)
  BY DEF Admit, Pruned, fleet, Running, Tracked, TypeOK
<1>2. CASE Answer(h) /\ UNCHANGED crossed
  <2>1. \A u \in Owners : Coming(u)' \subseteq Coming(u)
    BY <1>1, <1>2 DEF Answer, Goto, Coming, TypeOK
  <2> QED
    BY <1>1, <1>2, <2>1, CapShrinks
<1>3. CASE /\ Goto(h, "spawn") /\ Cross(h) /\ UNCHANGED <<on, hand>>
           /\ Cardinality(Running(Owner[on[h]])) < MaxPerUser
  <2>1. \A u \in Owners : Coming(u)' \subseteq Coming(u) \union {on[h]}
    BY <1>1, <1>3 DEF Goto, Coming, TypeOK
  <2>2. CASE OnTheWay(h) # {}
    <3>1. crossed' = crossed \union OnTheWay(h) \union {on[h]}
      BY <1>3, <2>2 DEF Cross
    <3> QED
      BY <1>1, <2>1, <3>1, CapShrinks
  <2>3. CASE OnTheWay(h) = {}
    <3>1. \A u \in Owners : Coming(u) = {}
      BY <1>1, <2>3 DEF OnTheWay, Coming
    <3>2. crossed' = crossed \ {on[h]}
      BY <1>3, <2>3 DEF Cross
    <3> SUFFICES ASSUME NEW u \in Owners
                 PROVE  Cardinality((Running(u) \union Coming(u)) \ crossed)' <= MaxPerUser
      BY DEF CapInv
    <3> DEFINE R == Running(u)
               S == ((Running(u) \union Coming(u)) \ crossed)'
    <3>3. R \in SUBSET Agents
      BY DEF Running, Tracked
    <3>4. MaxPerUser \in Nat /\ IsFiniteSet(R) /\ Cardinality(R) \in Nat
      BY <3>3, Smaller, FleetAssumption
    <3>5. CASE u = Owner[on[h]]
      <4>1. S \in SUBSET (R \union {on[h]})
        BY <1>1, <2>1, <3>1
      <4>2. R \union {on[h]} \in SUBSET Agents
        BY <1>1, <3>3
      <4>3. Cardinality(R \union {on[h]}) <= Cardinality(R) + 1
        BY <3>4, FS_AddElement
      <4>4. Cardinality(R) < MaxPerUser
        BY <1>3, <3>4, <3>5
      <4> HIDE DEF S, R
      <4>5. Cardinality(S) <= MaxPerUser
        BY <3>4, <4>1, <4>2, <4>3, <4>4, Smaller
      <4> QED
        BY <4>5 DEF S
    <3>6. CASE u # Owner[on[h]]
      <4>1. Coming(u)' = {}
        BY <1>1, <1>3, <3>1, <3>6 DEF Goto, Coming, TypeOK
      <4>2. S \in SUBSET (R \ crossed)
        BY <1>1, <3>2, <3>6, <4>1 DEF Running
      <4>3. Cardinality(R \ crossed) <= MaxPerUser
        BY <3>1 DEF CapInv
      <4>4. R \ crossed \in SUBSET Agents
        BY <3>3
      <4> HIDE DEF S, R
      <4>5. Cardinality(S) <= MaxPerUser
        BY <3>4, <4>2, <4>3, <4>4, Smaller
      <4> QED
        BY <4>5 DEF S
    <3> QED
      BY <3>5, <3>6
  <2> QED
    BY <2>2, <2>3
<1> QED
  BY <1>2, <1>3 DEF Admit

\* No other step adds an agent to those that run or come.
LEMMA CapElse ==
    ASSUME TypeOK, CapInv, [Next]_vars, \A h \in Handlers : ~Admit(h) PROVE CapInv'
<1> USE DEF Running, Tracked, Coming
<1>1. CASE UNCHANGED vars
  BY <1>1, CapShrinks DEF vars, fleet, handler, ghosts
<1>2. ASSUME NEW h \in Handlers, Handle(h) PROVE CapInv'
  <2>1. CASE Record(h)
    <3>1. /\ UNCHANGED <<on, crossed>> /\ pc[h] = "record"
          /\ \A g \in Handlers \ {h} : pc'[g] = pc[g]
          /\ \A a \in Agents \ {on[h]} : table'[a] = table[a]
          /\ pc'[h] = "announce"
      BY <2>1 DEF Record, Goto, TypeOK
    <3> QED
      BY <3>1, CapShrinks
  <2>2. CASE ~Record(h)
    <3>1. /\ UNCHANGED crossed
          /\ \A a \in Agents : table'[a] # 0 => table[a] # 0
          /\ \A g \in Handlers : pc'[g] \in {"spawn", "record"} =>
                                    pc[g] \in {"spawn", "record"} /\ on'[g] = on[g]
      <4>1. CASE Prune(h) \/ WriteOff(h)
        BY <4>1 DEF Prune, WriteOff, Answer, Goto, TypeOK
      <4>2. CASE List(h) \/ EndList(h) \/ Check(h)
        BY <4>2 DEF List, EndList, Check, Pruned, Answer, Goto, fleet, ghosts, TypeOK
      <4>3. CASE (\E a \in Agents : Start(h, a)) \/ (\E a \in Agents : Stop(h, a))
        BY <4>3 DEF Start, Stop, Goto, fleet, TypeOK
      <4>4. CASE Spawn(h)
        BY <4>4 DEF Spawn, Answer, Goto, ghosts, TypeOK
      <4>5. CASE Announce(h) \/ Kill(h) \/ Unannounce(h)
        BY <4>5 DEF Announce, Kill, Unannounce, Answer, Goto, ghosts, TypeOK
      <4> QED
        BY <1>2, <2>2, <4>1, <4>2, <4>3, <4>4, <4>5 DEF Handle
    <3> QED
      BY <3>1, CapShrinks
  <2> QED
    BY <2>1, <2>2
<1>3. ASSUME NEW p \in Procs, Exit(p) PROVE CapInv'
  BY <1>3, CapShrinks DEF Exit, handler, ghosts
<1>4. CASE Restart
  BY <1>4, CapShrinks DEF Restart, Nothing
<1> QED
  BY <1>1, <1>2, <1>3, <1>4 DEF Next

\* The running agents of a user exceed the cap only by those whose start was
\* admitted while another was on its way to the table.
THEOREM CapHolds == Spec => []CapBounded
<1>1. Init => CapInv
  <2>1. Init => \A u \in Owners : (Running(u) \union Coming(u)) \ crossed = {}
    BY DEF Init, Running, Tracked, Coming, Nothing
  <2> QED
    BY <2>1, FS_EmptySet, FleetAssumption DEF CapInv
<1>2. TypeOK /\ CapInv /\ [Next]_vars => CapInv'
  BY CapAdmit, CapElse
<1>3. CapInv => CapBounded
  <2> SUFFICES ASSUME CapInv, NEW u \in Owners
               PROVE  Cardinality(Running(u) \ crossed) <= MaxPerUser
    BY DEF CapBounded
  <2> DEFINE S == (Running(u) \union Coming(u)) \ crossed
             T == Running(u) \ crossed
  <2>1. S \in SUBSET Agents /\ T \in SUBSET S
    BY DEF Running, Tracked, Coming
  <2>2. MaxPerUser \in Nat /\ Cardinality(S) <= MaxPerUser
    BY FleetAssumption DEF CapInv
  <2> HIDE DEF S, T
  <2>3. Cardinality(T) <= MaxPerUser
    BY <2>1, <2>2, Smaller
  <2> QED
    BY <2>3 DEF T
<1> QED
  BY <1>1, <1>2, <1>3, FleetTyped, PTL DEF Spec
-------------------------------------------------------------------------------
(* The status is true.                                                      *)

\* A handler works on an agent; and the work has not begun to change anything.
Works(h, a) == on[h] = a \/ mark[h] = a
Begun == {"first", "second", "spawn", "record"}
Settled(a) == \A h \in Handlers : mark[h] # a /\ (on[h] = a => pc[h] \in Begun)

\* What is known of an agent on which no two handlers have worked at a time,
\* whatever became of the writes to the registry; its status is true where the
\* last of them landed.
Clean(a) ==
    /\ \A h, g \in Handlers : Works(h, a) /\ Works(g, a) => h = g
    /\ a \notin unsaid /\ Settled(a) => (status[a] = "running" <=> table[a] # 0)
    /\ \A h \in Handlers : mark[h] = a => table[a] = 0
    /\ \A h \in Handlers : on[h] = a /\ pc[h] = "announce" => table[a] # 0
    /\ \A h \in Handlers : on[h] = a /\ pc[h] \in {"kill", "unannounce"} => table[a] = 0

\* The inductive form of StatusTruthful.
StatusInv == \A a \in Agents \ overlapped : Clean(a)

\* A start that goes on or is refused changes nothing that is shown.
LEMMA StartStatus ==
    ASSUME TypeOK, NEW a \in Agents, Clean(a), NEW h \in Handlers, pc[h] \in Begun,
           UNCHANGED <<table, status, mark, unsaid>>,
           \A g \in Handlers \ {h} : pc'[g] = pc[g] /\ on'[g] = on[g],
           \/ on'[h] = on[h] /\ pc'[h] \in Begun
           \/ on'[h] = None /\ pc'[h] = "idle"
    PROVE  Clean(a)'
<1>1. \A g \in Handlers : Works(g, a)' => Works(g, a)
  BY FleetAssumption DEF Works
<1>2. Settled(a)' => Settled(a)
  BY FleetAssumption DEF Settled
<1>3. \A g \in Handlers :
        on'[g] = a /\ pc'[g] \in {"announce", "kill", "unannounce"} => pc'[g] = pc[g] /\ on[g] = a
  BY FleetAssumption DEF Begun
<1> QED
  BY <1>1, <1>2, <1>3 DEF Clean

\* Every step of a handler keeps what is known of the agents it leaves clean.
LEMMA HandleStatus ==
    ASSUME TypeOK, Spawned, Marks, StatusInv, NEW h \in Handlers, Handle(h) PROVE StatusInv'
<1> SUFFICES ASSUME NEW a \in Agents, a \notin overlapped' PROVE Clean(a)'
  BY DEF StatusInv
<1> USE FleetAssumption DEF TypeOK, Goto, Answer, fleet, ghosts, faults
<1>1. a \notin overlapped => Clean(a)
  BY DEF StatusInv
<1>2. CASE Prune(h)
  <2>1. PICK b \in Agents :
          /\ snap' = [snap EXCEPT ![h][b] = 0]
          /\ IF Alive(snap[h][b])
             THEN UNCHANGED <<table, mark, overlapped>>
             ELSE /\ table' = [table EXCEPT ![b] = 0]
                  /\ mark' = [mark EXCEPT ![h] = b]
                  /\ Overlap(h, b)
    BY <1>2 DEF Prune
  <2>2. UNCHANGED <<status, pc, on, unsaid>> /\ mark[h] = None
        /\ pc[h] \in {"list", "first", "second"}
    BY <1>2 DEF Prune, Pruning
  <2>3. CASE UNCHANGED <<table, mark, overlapped>>
    BY <2>2, <2>3, <1>1 DEF Clean, Works, Settled, Begun
  <2>4. CASE /\ table' = [table EXCEPT ![b] = 0]
             /\ mark' = [mark EXCEPT ![h] = b]
             /\ Overlap(h, b)
    <3>1. overlapped \subseteq overlapped' /\ (Busy(h, b) => b \in overlapped')
      BY <2>4 DEF Overlap
    <3>2. CASE a = b
      <4>1. \A g \in Handlers \ {h} : on[g] # a /\ mark[g] # a
        BY <3>1, <3>2 DEF Busy
      <4>2. table'[a] = 0 /\ mark'[h] = a /\ \A g \in Handlers \ {h} : mark'[g] = mark[g]
        BY <2>4, <3>2
      <4> QED BY <2>2, <4>1, <4>2 DEF Clean, Works, Settled, Begun
    <3>3. CASE a # b
      BY <1>1, <2>2, <2>4, <3>1, <3>3 DEF Clean, Works, Settled, Begun
    <3> QED BY <3>2, <3>3
  <2> QED BY <2>1, <2>3, <2>4
<1>3. CASE WriteOff(h)
  <2> DEFINE b == mark[h]
  <2>1. /\ b \in Agents /\ pc[h] \in {"list", "first", "second"}
        /\ table' = table /\ overlapped' = overlapped /\ mark' = [mark EXCEPT ![h] = None]
    BY <1>3 DEF WriteOff, Marks
  <2>2. /\ Clean(a) /\ mark'[h] = None
        /\ \A g \in Handlers \ {h} : mark'[g] = mark[g]
    BY <1>1, <2>1
  <2>3. a = b => table[a] = 0
    BY <2>2 DEF Clean
  <2>4. CASE Lands(b, "stopped") /\ UNCHANGED <<pc, on, hand, snap>>
    <3>1. IF a = b THEN status'[a] = "stopped"
                   ELSE status'[a] = status[a] /\ (a \in unsaid' <=> a \in unsaid)
      BY <2>4 DEF Lands
    <3> QED BY <2>1, <2>2, <2>3, <2>4, <3>1 DEF Clean, Works, Settled, Begun
  <2>5. CASE Raises(b, "stopped") /\ Answer(h)
    <3>1. IF a = b THEN a \in unsaid'
                   ELSE status'[a] = status[a] /\ (a \in unsaid' <=> a \in unsaid)
      BY <2>5 DEF Raises
    <3>2. /\ pc'[h] = "idle" /\ on'[h] = None
          /\ \A g \in Handlers \ {h} : pc'[g] = pc[g] /\ on'[g] = on[g]
      BY <2>5
    <3>3. \A g \in Handlers : Works(g, a)' => Works(g, a)
      BY <2>2, <3>2 DEF Works
    <3>4. a \notin unsaid' /\ Settled(a)' => a \notin unsaid /\ Settled(a)
      BY <2>1, <2>2, <3>1, <3>2 DEF Settled, Begun
    <3>5. \A g \in Handlers : on'[g] = a => pc'[g] = pc[g] /\ on[g] = a
      BY <3>2
    <3>6. a # b => status'[a] = status[a]
      BY <3>1
    <3>7. \A g \in Handlers : mark'[g] = a => mark[g] = a
      BY <2>2
    <3>8. a = b => a \in unsaid'
      BY <3>1
    <3> HIDE DEF b
    <3> QED BY <2>1, <2>2, <3>3, <3>4, <3>5, <3>6, <3>7, <3>8 DEF Clean
  <2> QED BY <1>3, <2>4, <2>5 DEF WriteOff
<1>4. CASE List(h) \/ EndList(h)
  BY <1>1, <1>4 DEF List, EndList, Pruned, Clean, Works, Settled, Begun
<1>5. ASSUME NEW b \in Agents, Start(h, b) PROVE Clean(a)'
  <2>1. overlapped \subseteq overlapped' /\ (Busy(h, b) => b \in overlapped')
    BY <1>5 DEF Start, Overlap
  <2>2. a = b => \A g \in Handlers \ {h} : on[g] # a /\ mark[g] # a
    BY <2>1 DEF Busy
  <2> QED BY <1>1, <1>5, <2>1, <2>2 DEF Start, Clean, Works, Settled, Begun
<1>6. CASE Check(h) \/ Admit(h) \/ Spawn(h)
  <2>1. /\ pc[h] \in Begun /\ UNCHANGED <<table, status, mark, unsaid>> /\ overlapped' = overlapped
        /\ \/ pc' = [pc EXCEPT ![h] = "idle"] /\ on' = [on EXCEPT ![h] = None]
           \/ \E p \in Begun : pc' = [pc EXCEPT ![h] = p] /\ on' = on
    BY <1>6 DEF Check, Admit, Spawn, Pruned, Begun
  <2>2. /\ \A g \in Handlers \ {h} : pc'[g] = pc[g] /\ on'[g] = on[g]
        /\ \/ on'[h] = on[h] /\ pc'[h] \in Begun
           \/ on'[h] = None /\ pc'[h] = "idle"
    BY <2>1
  <2> QED BY <1>1, <2>1, <2>2, StartStatus
<1>7. CASE Record(h)
  <2>1. hand[h] # 0
    BY <1>7 DEF Record, Spawned, Procs
  <2>2. /\ pc[h] = "record" /\ UNCHANGED <<status, mark, on, unsaid>> /\ overlapped' = overlapped
        /\ pc' = [pc EXCEPT ![h] = "announce"] /\ table' = [table EXCEPT ![on[h]] = hand[h]]
    BY <1>7 DEF Record
  <2>3. CASE on[h] = a
    <3>1. \A g \in Handlers \ {h} : on[g] # a /\ mark[g] # a
      BY <1>1, <2>2, <2>3 DEF Clean, Works
    <3>2. mark[h] # a /\ table'[a] = hand[h] /\ pc'[h] = "announce"
      BY <2>2, <2>3 DEF Marks
    <3> QED BY <2>1, <2>2, <2>3, <3>1, <3>2 DEF Clean, Works, Settled, Begun
  <2>4. CASE on[h] # a
    <3>1. table'[a] = table[a] /\ \A g \in Handlers \ {h} : pc'[g] = pc[g]
      BY <2>2, <2>4
    <3> QED BY <1>1, <2>2, <2>4, <3>1 DEF Clean, Works, Settled, Begun
  <2> QED BY <2>3, <2>4
<1>8. CASE Announce(h)
  BY <1>1, <1>8 DEF Announce, Lands, Raises, Clean, Works, Settled, Begun
<1>9. ASSUME NEW b \in Agents, Stop(h, b) PROVE Clean(a)'
  <2>1. overlapped \subseteq overlapped' /\ (Busy(h, b) => b \in overlapped')
    BY <1>9 DEF Stop, Overlap
  <2>2. a = b => \A g \in Handlers \ {h} : on[g] # a /\ mark[g] # a
    BY <2>1 DEF Busy
  <2> QED BY <1>1, <1>9, <2>1, <2>2 DEF Stop, Clean, Works, Settled, Begun
<1>10. CASE Kill(h)
  BY <1>1, <1>10 DEF Kill, Clean, Works, Settled, Begun
<1>11. CASE Unannounce(h)
  BY <1>1, <1>11 DEF Unannounce, Lands, Raises, Clean, Works, Settled, Begun
<1> QED
  BY <1>2, <1>3, <1>4, <1>5, <1>6, <1>7, <1>8, <1>9, <1>10, <1>11 DEF Handle

\* The status the dashboard shows of an agent that no two handlers worked on
\* at a time is the truth, once the handler that changes it is done, or from
\* then on when the write raised: as soon as a later one for the agent lands.
THEOREM StatusHolds == Spec => []StatusTruthful
<1>1. Init => StatusInv
  BY FleetAssumption DEF Init, Nothing, StatusInv, Clean, Works, Settled, Begun
<1>2. TypeOK /\ Spawned /\ Marks /\ StatusInv /\ [Next]_vars => StatusInv'
  <2> SUFFICES ASSUME TypeOK, Spawned, Marks, StatusInv, [Next]_vars PROVE StatusInv'
    OBVIOUS
  <2>1. CASE \E h \in Handlers : Handle(h)
    BY <2>1, HandleStatus
  <2>2. CASE \E p \in Procs : Exit(p)
    BY <2>2 DEF Exit, handler, ghosts, StatusInv, Clean, Works, Settled, Begun
  <2>3. CASE Restart
    BY <2>3 DEF Restart, StatusInv
  <2>4. CASE UNCHANGED vars
    BY <2>4 DEF vars, fleet, handler, ghosts, StatusInv, Clean, Works, Settled, Begun
  <2> QED BY <2>1, <2>2, <2>3, <2>4 DEF Next
<1>3. TypeOK /\ StatusInv => StatusTruthful
  BY DEF TypeOK, StatusInv, Clean, Settled, StatusTruthful, Tracked
<1>4. RaceInv => Spawned
  BY DEF RaceInv
<1> QED
  BY <1>1, <1>2, <1>3, <1>4, FleetTyped, MarksHold, RaceHolds, PTL DEF Spec
==============================================================================
