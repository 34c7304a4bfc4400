-------------------------------- MODULE Fleet --------------------------------
(***************************************************************************)
(* The control plane of the hosted agents: a table of the processes it has *)
(* spawned, a registry with the status of every deployed agent, and the    *)
(* processes themselves.  The endpoints are plain functions that the       *)
(* server runs in a pool of threads, and no lock protects the table or     *)
(* orders the writes to the registry: every handler is a sequence of       *)
(* steps between which any other handler may run.  The registry is a       *)
(* database: a call to it may raise, a write before or after it landed,    *)
(* and the request then ends with an error that nothing repairs.           *)
(*                                                                         *)
(* A process ends some time after it was told to, or for reasons of its    *)
(* own: another one holds its port, its script fails, it is killed.  When  *)
(* the control plane goes down its table is gone and the processes live    *)
(* on.                                                                     *)
(***************************************************************************)
EXTENDS Integers, FiniteSets

CONSTANTS
    Agents, Owners, Owner,   \* deployed agents and the user of each
    Handlers,                \* threads of the server's pool
    None,                    \* no agent
    MaxPerUser,              \* MAX_AGENTS_PER_USER
    MaxProcs,                \* bound: processes ever spawned
    MaxCrashes,              \* bound: processes that die on their own
    MaxRestarts,             \* bound: restarts of the control plane
    MaxRaises                \* bound: status writes that raise

Procs == 1..MaxProcs

ASSUME FleetAssumption ==
    /\ None \notin Agents
    /\ Owner \in [Agents -> Owners]
    /\ {MaxPerUser, MaxProcs, MaxCrashes, MaxRestarts, MaxRaises} \subseteq Nat
    /\ IsFiniteSet(Agents) /\ IsFiniteSet(Handlers)

VARIABLES
    table,      \* _running: the process of an agent, 0 when there is none
    status,     \* the registry's status of every agent
    owner,      \* the agent each process trades for
    proc,       \* "unborn", "live", "told" to end, or "dead"
    born,       \* processes spawned so far
    pc, on,     \* where each handler is, and the agent it was asked for
    snap,       \* the entries of the table a handler has listed and not polled
    mark,       \* the agent whose status a handler is about to write off
    hand,       \* the process in a handler's hands
    crossed,    \* agents whose last start was admitted beside another
    raced,      \* agents struck by a race that can lose a process
    overlapped, \* agents two handlers worked on at a time
    unsaid,     \* agents whose last status write raised
    crashes, restarts, raises

fleet == <<table, status, owner, proc, born>>
handler == <<pc, on, snap, mark, hand>>
ghosts == <<crossed, raced, overlapped, unsaid>>
faults == <<crashes, restarts, raises>>
vars == <<fleet, handler, ghosts, faults>>

Nothing == [a \in Agents |-> 0]

Init ==
    /\ table = Nothing
    /\ status = [a \in Agents |-> "deployed"]
    /\ owner = [p \in Procs |-> None]
    /\ proc = [p \in Procs |-> "unborn"]
    /\ born = 0
    /\ pc = [h \in Handlers |-> "idle"]
    /\ on = [h \in Handlers |-> None]
    /\ snap = [h \in Handlers |-> Nothing]
    /\ mark = [h \in Handlers |-> None]
    /\ hand = [h \in Handlers |-> 0]
    /\ crossed = {} /\ raced = {} /\ overlapped = {} /\ unsaid = {}
    /\ crashes = 0 /\ restarts = 0 /\ raises = 0

Alive(p) == proc[p] \in {"live", "told"}
Tracked == {a \in Agents : table[a] # 0}

Goto(h, p) == pc' = [pc EXCEPT ![h] = p]
Answer(h) ==
    /\ Goto(h, "idle")
    /\ on' = [on EXCEPT ![h] = None]
    /\ hand' = [hand EXCEPT ![h] = 0]

\* set_status: the write lands, or raises.
Lands(a, s) ==
    /\ status' = [status EXCEPT ![a] = s]
    /\ unsaid' = unsaid \ {a}
    /\ UNCHANGED raises
Raises(a, s) ==
    /\ raises < MaxRaises /\ raises' = raises + 1
    /\ status' \in {status, [status EXCEPT ![a] = s]}
    /\ unsaid' = unsaid \union {a}

\* Another handler is past the check of a start of a and has not put its
\* process in the table yet.
Starting(h, a) ==
    \E g \in Handlers \ {h} : on[g] = a /\ pc[g] \in {"second", "spawn", "record"}

\* Another handler works on a: it was asked for it, or writes its status off.
Busy(h, a) ==
    \E g \in Handlers \ {h} : (pc[g] # "idle" /\ on[g] = a) \/ mark[g] = a
Overlap(h, a) ==
    overlapped' = IF Busy(h, a) THEN overlapped \union {a} ELSE overlapped
------------------------------------------------------------------------------
(* _prune: the entries of the table are listed, the handle of each is then  *)
(* polled, and an entry whose process is gone is popped and its status      *)
(* written off.                                                             *)

Snapshot(h) == snap' = [snap EXCEPT ![h] = table]
Pruning(h) == pc[h] \in {"list", "first", "second"} /\ mark[h] = None

\* The pop goes by the agent's name: if a new process has taken the place of
\* the one that was listed, it is the one to go.
Prune(h) ==
    /\ Pruning(h)
    /\ \E a \in Agents :
          /\ snap[h][a] # 0
          /\ snap' = [snap EXCEPT ![h][a] = 0]
          /\ IF Alive(snap[h][a])
             THEN UNCHANGED <<table, mark, overlapped>>
             ELSE /\ table' = [table EXCEPT ![a] = 0]
                  /\ mark' = [mark EXCEPT ![h] = a]
                  /\ Overlap(h, a)
    /\ UNCHANGED <<status, owner, proc, born, pc, on, hand, crossed, raced, unsaid, faults>>

\* Variant: the entry goes and the registry is not told.
WriteNothing(h) ==
    /\ mark[h] # None
    /\ mark' = [mark EXCEPT ![h] = None]
    /\ UNCHANGED <<fleet, pc, on, snap, hand, ghosts, faults>>

\* A write that raises takes the request with it: what is left of the list
\* is not polled.
WriteOff(h) ==
    /\ mark[h] # None
    /\ mark' = [mark EXCEPT ![h] = None]
    /\ \/ Lands(mark[h], "stopped") /\ UNCHANGED <<pc, on, hand, snap>>
       \/ /\ Raises(mark[h], "stopped") /\ Answer(h)
          /\ snap' = [snap EXCEPT ![h] = Nothing]
    /\ UNCHANGED <<table, owner, proc, born, crossed, raced, overlapped, crashes, restarts>>

Pruned(h, p) == pc[h] = p /\ snap[h] = Nothing /\ mark[h] = None
------------------------------------------------------------------------------
(* GET /orchestrator: list_running, where there is something to poll.       *)

List(h) ==
    /\ pc[h] = "idle"
    /\ Tracked # {}
    /\ Goto(h, "list") /\ Snapshot(h)
    /\ UNCHANGED <<fleet, on, mark, hand, ghosts, faults>>

EndList(h) ==
    /\ Pruned(h, "list")
    /\ Goto(h, "idle")
    /\ UNCHANGED <<fleet, on, snap, mark, hand, ghosts, faults>>
------------------------------------------------------------------------------
(* POST /agents/{agent_id}/start.                                           *)

Start(h, a) ==
    /\ pc[h] = "idle"
    /\ Goto(h, "first") /\ Snapshot(h)
    /\ on' = [on EXCEPT ![h] = a]
    /\ Overlap(h, a)
    /\ UNCHANGED <<fleet, mark, hand, crossed, raced, unsaid, faults>>

\* An agent in the table is running already; for another the registry is
\* read, which may raise, and count_for_user prunes once more.
Check(h) ==
    /\ Pruned(h, "first")
    /\ \/ Answer(h) /\ UNCHANGED <<snap, raced>>
       \/ /\ on[h] \notin Tracked
          /\ Goto(h, "second") /\ Snapshot(h)
          /\ raced' = IF Starting(h, on[h]) THEN raced \union {on[h]} ELSE raced
          /\ UNCHANGED <<on, hand>>
    /\ UNCHANGED <<fleet, mark, crossed, overlapped, unsaid, faults>>

Running(u) == {a \in Tracked : Owner[a] = u}

\* The starts another handler was admitted to and has not recorded.
OnTheWay(h) == {on[g] : g \in {k \in Handlers \ {h} : pc[k] \in {"spawn", "record"}}}
Cross(h) ==
    crossed' = IF OnTheWay(h) = {} THEN crossed \ {on[h]}
               ELSE crossed \union OnTheWay(h) \union {on[h]}

\* Variant: the cap is compared with >.
AdmitOneMore(h) ==
    /\ Pruned(h, "second")
    /\ \/ Answer(h) /\ UNCHANGED crossed
       \/ /\ Cardinality(Running(Owner[on[h]])) <= MaxPerUser
          /\ Goto(h, "spawn") /\ Cross(h) /\ UNCHANGED <<on, hand>>
    /\ UNCHANGED <<fleet, snap, mark, raced, overlapped, unsaid, faults>>

\* The user's running agents against the cap; the agents are read from the
\* registry, which may raise.
Admit(h) ==
    /\ Pruned(h, "second")
    /\ \/ Answer(h) /\ UNCHANGED crossed
       \/ /\ Cardinality(Running(Owner[on[h]])) < MaxPerUser
          /\ Goto(h, "spawn") /\ Cross(h) /\ UNCHANGED <<on, hand>>
    /\ UNCHANGED <<fleet, snap, mark, raced, overlapped, unsaid, faults>>

\* The launch script gets a process of its own and the lowest port the table
\* does not use.  Without a free port, or when the table changes while its
\* ports are collected, the allocation raises and the request fails.
Spawn(h) ==
    /\ pc[h] = "spawn"
    /\ \/ /\ Answer(h)
          /\ UNCHANGED <<owner, proc, born>>
       \/ /\ born < MaxProcs
          /\ hand' = [hand EXCEPT ![h] = born + 1]
          /\ proc' = [proc EXCEPT ![born + 1] = "live"]
          /\ owner' = [owner EXCEPT ![born + 1] = on[h]]
          /\ born' = born + 1
          /\ Goto(h, "record") /\ UNCHANGED on
    /\ UNCHANGED <<table, status, snap, mark, ghosts, faults>>

\* The process enters the table.  A handler that has listed an older process
\* of the agent may still pop the entry.
Record(h) ==
    /\ pc[h] = "record"
    /\ table' = [table EXCEPT ![on[h]] = hand[h]]
    /\ raced' = IF \E g \in Handlers \ {h} : snap[g][on[h]] # 0
                THEN raced \union {on[h]} ELSE raced
    /\ Goto(h, "announce")
    /\ UNCHANGED <<status, owner, proc, born, on, snap, mark, hand, crossed, overlapped, unsaid, faults>>

\* The process stays in the table though the write raises.
Announce(h) ==
    /\ pc[h] = "announce"
    /\ Lands(on[h], "running") \/ Raises(on[h], "running")
    /\ Answer(h)
    /\ UNCHANGED <<table, owner, proc, born, snap, mark, crossed, raced, overlapped, crashes, restarts>>
------------------------------------------------------------------------------
(* POST /agents/{agent_id}/stop.                                            *)

Stop(h, a) ==
    /\ pc[h] = "idle"
    /\ table' = [table EXCEPT ![a] = 0]
    /\ hand' = [hand EXCEPT ![h] = table[a]]
    /\ on' = [on EXCEPT ![h] = a]
    /\ Goto(h, "kill")
    /\ Overlap(h, a)
    /\ UNCHANGED <<status, owner, proc, born, snap, mark, crossed, raced, unsaid, faults>>

\* Variant: the process is forgotten without a signal.
KillNobody(h) ==
    /\ pc[h] = "kill"
    /\ Goto(h, "unannounce")
    /\ UNCHANGED <<fleet, on, snap, mark, hand, ghosts, faults>>

\* Variant: a process that has ended is told to end.
KillTheDead(h) ==
    /\ pc[h] = "kill"
    /\ proc' = [p \in Procs |-> IF p = hand[h] THEN "told" ELSE proc[p]]
    /\ Goto(h, "unannounce")
    /\ UNCHANGED <<table, status, owner, born, on, snap, mark, hand, ghosts, faults>>

\* terminate() returns before the process is gone.
Kill(h) ==
    /\ pc[h] = "kill"
    /\ proc' = [p \in Procs |-> IF p = hand[h] /\ Alive(p) THEN "told" ELSE proc[p]]
    /\ Goto(h, "unannounce")
    /\ UNCHANGED <<table, status, owner, born, on, snap, mark, hand, ghosts, faults>>

Unannounce(h) ==
    /\ pc[h] = "unannounce"
    /\ Lands(on[h], "stopped") \/ Raises(on[h], "stopped")
    /\ Answer(h)
    /\ UNCHANGED <<table, owner, proc, born, snap, mark, crossed, raced, overlapped, crashes, restarts>>
------------------------------------------------------------------------------
(* The processes, and the life of the control plane.                        *)

\* A process ends when it was told to, or on its own.
Exit(p) ==
    /\ Alive(p)
    /\ IF proc[p] = "told" THEN UNCHANGED crashes
       ELSE crashes < MaxCrashes /\ crashes' = crashes + 1
    /\ proc' = [proc EXCEPT ![p] = "dead"]
    /\ owner' = [owner EXCEPT ![p] = None]
    /\ UNCHANGED <<table, status, born, handler, ghosts, restarts, raises>>

\* Everything the control plane had in memory is gone.
Restart ==
    /\ restarts < MaxRestarts
    /\ restarts' = restarts + 1
    /\ table' = Nothing
    /\ pc' = [h \in Handlers |-> "idle"]
    /\ on' = [h \in Handlers |-> None]
    /\ snap' = [h \in Handlers |-> Nothing]
    /\ mark' = [h \in Handlers |-> None]
    /\ hand' = [h \in Handlers |-> 0]
    /\ raced' = raced \union {owner[p] : p \in {q \in Procs : Alive(q)}}
    /\ overlapped' = Agents
    /\ UNCHANGED <<status, owner, proc, born, crossed, unsaid, crashes, raises>>
------------------------------------------------------------------------------
Handle(h) ==
    \/ Prune(h) \/ WriteOff(h)
    \/ List(h) \/ EndList(h)
    \/ (\E a \in Agents : Start(h, a)) \/ Check(h) \/ Admit(h)
    \/ Spawn(h) \/ Record(h) \/ Announce(h)
    \/ (\E a \in Agents : Stop(h, a)) \/ Kill(h) \/ Unannounce(h)

Next ==
    \/ \E h \in Handlers : Handle(h)
    \/ \E p \in Procs : Exit(p)
    \/ Restart

Spec == Init /\ [][Next]_vars
------------------------------------------------------------------------------
(* Properties.                                                              *)

\* The values each variable ranges over.
TypeOK ==
    /\ table \in [Agents -> 0..born]
    /\ status \in [Agents -> {"deployed", "running", "stopped"}]
    /\ born \in 0..MaxProcs
    /\ proc \in [Procs -> {"unborn", "live", "told", "dead"}]
    /\ owner \in [Procs -> Agents \union {None}]
    /\ \A p \in Procs : (p > born <=> proc[p] = "unborn") /\ (Alive(p) <=> owner[p] # None)
    /\ pc \in [Handlers -> {"idle", "list", "first", "second", "spawn", "record",
                            "announce", "kill", "unannounce"}]
    /\ on \in [Handlers -> Agents \union {None}]
    /\ \A h \in Handlers : on[h] = None <=> pc[h] \in {"idle", "list"}
    /\ snap \in [Handlers -> [Agents -> 0..born]]
    /\ mark \in [Handlers -> Agents \union {None}]
    /\ hand \in [Handlers -> 0..born]
    /\ crossed \subseteq Agents /\ raced \subseteq Agents /\ overlapped \subseteq Agents
    /\ unsaid \subseteq Agents
    /\ crashes \in 0..MaxCrashes /\ restarts \in 0..MaxRestarts /\ raises \in 0..MaxRaises

\* A handler is about to put p in the table, or to stop it.
InHand(p) == \E h \in Handlers : hand[h] = p /\ pc[h] \in {"record", "kill"}

\* A process that runs and was not told to stop is in the table or in the
\* hands of a handler: only two overlapping starts of its agent, a prune that
\* examined an older process of it, or a restart of the control plane loses
\* a process.  A stop that crosses a start, a crash or a port conflict do not.
NoLostProcess ==
    \A p \in Procs : proc[p] = "live" =>
        \/ table[owner[p]] = p
        \/ InHand(p)
        \/ owner[p] \in raced

\* The status the dashboard shows of an agent that no two handlers worked on
\* at a time is the truth: it is running if and only if it is in the table,
\* once the handler that changes it is done.  A write that raised leaves it
\* wrong until a later one for the agent lands, and only so long.
StatusTruthful ==
    \A a \in Agents \ (overlapped \union unsaid) :
        (\A h \in Handlers : on[h] # a /\ mark[h] # a)
            => (status[a] = "running" <=> a \in Tracked)

\* The running agents of a user exceed the cap only by those whose start was
\* admitted while another was on its way to the table.
CapBounded ==
    \A u \in Owners : Cardinality(Running(u) \ crossed) <= MaxPerUser
==============================================================================
