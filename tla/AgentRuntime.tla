----------------------------- MODULE AgentRuntime -----------------------------
(***************************************************************************)
(* The process behind `bb trade-agent up`: one event loop that runs an     *)
(* agent (AgentRuntime), with a task that writes the journal from a        *)
(* bounded queue and a Scheduler that runs jobs and sleeps between them.   *)
(* The agent's row in the database is also written by the operator's       *)
(* commands and by a hot swap to a newer spec.  Every await is a step.     *)
(*                                                                         *)
(* A journal entry is early if it was made before stop() began to wait for *)
(* the queue, and late afterwards.  Heartbeats only touch a time and are   *)
(* left out, as are opportunities a trader would act on: nothing reaches   *)
(* that code yet.                                                          *)
(***************************************************************************)
EXTENDS Integers, Sequences

CONSTANTS
    Base, Newer,        \* the version of the spec file, and those to swap to
    QueueMax,           \* JOURNAL_QUEUE_MAX
    Bound               \* bounds: starts, calls of others, faults

Kinds == {"start", "call", "fault"}

ASSUME RuntimeAssumption ==
    /\ Base \in Nat /\ Newer \subseteq Nat
    /\ QueueMax \in Nat /\ QueueMax >= 2
    /\ Bound \in [Kinds -> Nat]

VARIABLES
    main,               \* where up_cmd is
    mem, version,       \* the status and the spec version in memory
    row,                \* the agent_state document
    queue, hand,        \* the journal queue, and the entry being written
    unfinished,         \* what Queue.join waits to see at zero
    sched, due, wake,   \* the scheduler, the jobs of its pass, its wake event
    late,               \* the stop came while a job was running
    pausing,            \* pause() has written the row
    swap, seen,         \* where each hot swap is, and the status it read
    crossed,            \* two hot swaps overlapped
    stale,              \* a hot swap wrote back a status that had changed
    left                \* what is left of each bound

process == <<main, mem, version>>
journal == <<queue, hand, unfinished>>
timer == <<sched, due, wake, late>>
swaps == <<swap, seen, crossed, stale>>
vars == <<process, row, journal, timer, pausing, swaps, left>>

Init ==
    /\ main = "down" /\ mem = "dead" /\ version = Base
    /\ row = [status |-> "none", version |-> Base]
    /\ queue = <<>> /\ hand = "none" /\ unfinished = 0
    /\ sched = "off" /\ due = {} /\ wake = FALSE /\ late = FALSE
    /\ pausing = FALSE
    /\ swap = [s \in Newer |-> "idle"] /\ seen = [s \in Newer |-> "none"]
    /\ crossed = FALSE /\ stale = FALSE
    /\ left = Bound

Spend(k) == left[k] > 0 /\ left' = [left EXCEPT ![k] = @ - 1]
Running == main \notin {"down", "boot"}
------------------------------------------------------------------------------
(* The journal.                                                             *)

Mark == IF main \in {"joining", "closing", "leaving"} THEN "late" ELSE "early"

\* Variant: the queue has no limit.
PutMore(q) == Append(q, Mark)

\* The oldest entry makes room, and counts as done.
Put(q) == Append(IF Len(q) < QueueMax THEN q ELSE Tail(q), Mark)

\* Variant: what is dropped does not count as done.
SayMore(q) == queue' = q /\ unfinished' = unfinished + 1 /\ UNCHANGED hand

Say(q) ==
    /\ queue' = q
    /\ unfinished' = (unfinished + Len(q)) - Len(queue)
    /\ UNCHANGED hand

\* The task that writes the journal, until stop() cancels it.
Writing == main \in {"up", "stopping", "joining", "closing"}

Take ==
    /\ Writing /\ hand = "none" /\ queue # <<>>
    /\ hand' = Head(queue) /\ queue' = Tail(queue)
    /\ UNCHANGED <<process, row, unfinished, timer, pausing, swaps, left>>

\* The entry is written, or its failure logged; the last one releases join().
Write ==
    /\ Writing /\ hand # "none"
    /\ hand' = "none" /\ unfinished' = unfinished - 1
    /\ main' = IF main = "joining" /\ unfinished' = 0 THEN "closing" ELSE main
    /\ UNCHANGED <<mem, version, row, queue, timer, pausing, swaps, left>>
------------------------------------------------------------------------------
(* start, and the loop of up_cmd.                                           *)

\* The process is gone, and with it what it had in memory and under way.
Exit(m) ==
    /\ main' = "down" /\ mem' = m /\ version' = Base
    /\ queue' = <<>> /\ hand' = "none" /\ unfinished' = 0
    /\ sched' = "off" /\ due' = {} /\ wake' = FALSE /\ late' = FALSE
    /\ pausing' = FALSE
    /\ swap' = [s \in Newer |-> "idle"] /\ seen' = [s \in Newer |-> "none"]
    /\ crossed' = FALSE

\* A running row with an old heartbeat is a crash to be told of.
Boot ==
    /\ main = "down" /\ Spend("start")
    /\ main' = "boot" /\ mem' = "starting"
    /\ \/ UNCHANGED journal
       \/ row.status = "running" /\ Say(Put(Put(queue)))
    /\ UNCHANGED <<version, row, timer, pausing, swaps>>

\* The row is written whatever it says, and the tasks begin.
Up ==
    /\ main = "boot"
    /\ \/ /\ main' = "up" /\ mem' = "running" /\ version' = Base
          /\ row' = [status |-> "running", version |-> Base]
          /\ Say(Put(queue))
          /\ sched' = "loop" /\ wake' = TRUE
          /\ stale' = FALSE
          /\ UNCHANGED <<due, late, pausing, swap, seen, crossed, left>>
       \/ Exit("dead") /\ Spend("fault") /\ UNCHANGED <<row, stale>>

\* Variant: the scheduler is not woken.
BeginStopQuietly ==
    /\ main' = "stopping"
    /\ late' = (sched \in {"job", "halt", "halted"})
    /\ UNCHANGED <<mem, version, row, journal, sched, due, wake, pausing, swaps, left>>

\* stop(): both stop flags and the wake event are set, the scheduler awaited.
BeginStop ==
    /\ main' = "stopping"
    /\ wake' = TRUE
    /\ late' = (sched \in {"job", "halt", "halted"})
    /\ UNCHANGED <<mem, version, row, journal, sched, due, pausing, swaps, left>>

\* Once a second the loop looks at the status in memory.
Poll == main = "up" /\ mem # "running" /\ BeginStop

Interrupt == main = "up" /\ BeginStop

\* Variant: the queue is not waited for.
SchedulerStoppedHastily ==
    /\ main = "stopping" /\ sched = "off"
    /\ main' = "closing"
    /\ Say(Put(queue))
    /\ UNCHANGED <<mem, version, row, timer, pausing, swaps, left>>

SchedulerStopped ==
    /\ main = "stopping" /\ sched = "off"
    /\ main' = "joining"
    /\ Say(Put(queue))
    /\ UNCHANGED <<mem, version, row, timer, pausing, swaps, left>>

\* Variant: only the memory says that the agent has stopped.
CloseSilently ==
    /\ main = "closing" /\ main' = "leaving"
    /\ UNCHANGED <<mem, version, row, journal, timer, pausing, swaps, left>>

\* The tasks are cancelled and the row is written.
Close ==
    /\ main = "closing"
    /\ \/ /\ main' = "leaving" /\ row' = [row EXCEPT !.status = "stopped"]
          /\ UNCHANGED <<mem, version, journal, timer, pausing, swaps, left>>
       \/ Exit("dead") /\ Spend("fault") /\ UNCHANGED <<row, stale>>

Leave ==
    /\ main = "leaving" /\ Exit("stopped")
    /\ UNCHANGED <<row, stale, left>>
------------------------------------------------------------------------------
(* The scheduler.                                                           *)

Sleep == sched' = "sleep" /\ wake' = FALSE

\* A pass: the stop flag is read at its top, the wake event cleared at its end.
Pass ==
    /\ sched = "loop"
    /\ IF main # "up"
       THEN sched' = "off" /\ UNCHANGED <<due, wake>>
       ELSE \/ due' \in (SUBSET {"refresh", "snapshot"}) \ {{}}
               /\ sched' = "job" /\ UNCHANGED wake
            \/ Sleep /\ UNCHANGED due
    /\ UNCHANGED <<process, row, journal, late, pausing, swaps, left>>

Finish(j) ==
    /\ due' = due \ {j}
    /\ IF due' = {} THEN Sleep ELSE sched' = "job" /\ UNCHANGED wake

\* A snapshot, or its failure, leaves no trace here.
Snapshot ==
    /\ sched = "job" /\ due = {"snapshot"} /\ Finish("snapshot")
    /\ UNCHANGED <<process, row, journal, late, pausing, swaps, left>>

\* A refreshed verdict is journalled, a refused one is not, and one beyond the
\* spend cap halts the agent.
Refresh ==
    /\ sched = "job" /\ "refresh" \in due
    /\ \/ Finish("refresh") /\ Say(Put(queue))
       \/ Finish("refresh") /\ UNCHANGED journal
       \/ sched' = "halt" /\ Say(Put(Put(queue))) /\ UNCHANGED <<due, wake>>
    /\ UNCHANGED <<process, row, late, pausing, swaps, left>>

Halt ==
    /\ sched = "halt" /\ sched' = "halted"
    /\ \/ row' = [row EXCEPT !.status = "halted"] /\ UNCHANGED left
       \/ Spend("fault") /\ UNCHANGED row
    /\ UNCHANGED <<process, journal, due, wake, late, pausing, swaps>>

Halted ==
    /\ sched = "halted" /\ mem' = "halted" /\ Finish("refresh")
    /\ UNCHANGED <<main, version, row, journal, late, pausing, swaps, left>>

\* A deadline, or the wake event.
Awake ==
    /\ sched = "sleep" /\ sched' = "loop"
    /\ UNCHANGED <<process, row, journal, due, wake, late, pausing, swaps, left>>
------------------------------------------------------------------------------
(* Other calls of the runtime, and of the operator.                         *)

\* An event that is an opportunity.
Tick ==
    /\ Running /\ Spend("call") /\ Say(Put(queue))
    /\ UNCHANGED <<process, row, timer, pausing, swaps>>

Pause ==
    /\ Running /\ ~pausing /\ Spend("call")
    /\ pausing' = TRUE /\ row' = [row EXCEPT !.status = "paused"]
    /\ UNCHANGED <<process, journal, timer, swaps>>

Paused ==
    /\ pausing /\ pausing' = FALSE
    /\ mem' = "paused" /\ Say(Put(queue))
    /\ UNCHANGED <<main, version, row, timer, swaps, left>>

\* The stop and pause commands write the row and nothing else: up_cmd never
\* reads it.
Flip ==
    /\ row.status # "none" /\ Spend("call")
    /\ \E v \in {"stopped", "paused"} : row' = [row EXCEPT !.status = v]
    /\ UNCHANGED <<process, journal, timer, pausing, swaps>>

Midway(s) == swap[s] \in {"read", "wrote"}

\* Variant: the memory is swapped before the row.
SwapReadEarly(s) ==
    /\ Running /\ swap[s] = "idle" /\ s > version /\ Spend("call")
    /\ swap' = [swap EXCEPT ![s] = "read"] /\ seen' = [seen EXCEPT ![s] = row.status]
    /\ version' = s
    /\ crossed' = (crossed \/ \E t \in Newer : Midway(t))
    /\ UNCHANGED <<main, mem, row, journal, timer, pausing, stale>>

\* hot_swap_to: the new version is compared with the memory's and the row read,
SwapRead(s) ==
    /\ Running /\ swap[s] = "idle" /\ s > version /\ Spend("call")
    /\ swap' = [swap EXCEPT ![s] = "read"] /\ seen' = [seen EXCEPT ![s] = row.status]
    /\ crossed' = (crossed \/ \E t \in Newer : Midway(t))
    /\ UNCHANGED <<process, row, journal, timer, pausing, stale>>

\* written back as a whole,
SwapWrite(s) ==
    /\ swap[s] = "read"
    /\ \/ /\ row' = [status |-> seen[s], version |-> s]
          /\ stale' = (stale \/ seen[s] # row.status)
          /\ swap' = [swap EXCEPT ![s] = "wrote"] /\ UNCHANGED left
       \/ /\ Spend("fault") /\ swap' = [swap EXCEPT ![s] = "idle"]
          /\ UNCHANGED <<row, stale>>
    /\ seen' = [seen EXCEPT ![s] = "none"]
    /\ UNCHANGED <<process, journal, timer, pausing, crossed>>

\* and then the memory.
SwapDone(s) ==
    /\ swap[s] = "wrote" /\ swap' = [swap EXCEPT ![s] = "idle"]
    /\ version' = s /\ Say(Put(queue))
    /\ UNCHANGED <<main, mem, row, timer, pausing, seen, crossed, stale, left>>

\* A second interrupt, one during the start, or the death of the process.
Crash ==
    /\ main # "down" /\ Spend("fault") /\ Exit("dead")
    /\ UNCHANGED <<row, stale>>
------------------------------------------------------------------------------
Main == Up \/ Poll \/ SchedulerStopped \/ Close \/ Leave
Writer == Take \/ Write
Timer == Pass \/ Snapshot \/ Refresh \/ Halt \/ Halted \/ Awake

Next ==
    \/ Boot \/ Main \/ Interrupt \/ Writer \/ Timer
    \/ Tick \/ Pause \/ Paused \/ Flip \/ Crash
    \/ \E s \in Newer : SwapRead(s) \/ SwapWrite(s) \/ SwapDone(s)

\* The event loop runs every task that is ready, calls to the database and to
\* the oracle have timeouts, and no sleep is for ever.
Fairness == WF_vars(Main) /\ WF_vars(Writer) /\ WF_vars(Timer)

Spec == Init /\ [][Next]_vars
FairSpec == Spec /\ Fairness
------------------------------------------------------------------------------
(* Properties.                                                              *)

Statuses == {"none", "running", "paused", "halted", "stopped"}

\* The values each variable ranges over, and the limit of the queue.
TypeOK ==
    /\ main \in {"down", "boot", "up", "stopping", "joining", "closing", "leaving"}
    /\ mem \in {"dead", "starting", "running", "paused", "halted", "stopped"}
    /\ version \in {Base} \union Newer
    /\ row \in [status : Statuses, version : {Base} \union Newer]
    /\ queue \in Seq({"early", "late"}) /\ Len(queue) <= QueueMax
    /\ hand \in {"none", "early", "late"}
    /\ unfinished \in Nat
    /\ sched \in {"off", "loop", "job", "halt", "halted", "sleep"}
    /\ due \subseteq {"refresh", "snapshot"}
    /\ wake \in BOOLEAN /\ late \in BOOLEAN /\ pausing \in BOOLEAN
    /\ swap \in [Newer -> {"idle", "read", "wrote"}]
    /\ seen \in [Newer -> Statuses]
    /\ crossed \in BOOLEAN /\ stale \in BOOLEAN
    /\ left \in [Kinds -> Nat]

\* When a stopped agent writes its last status, every entry it had journalled
\* before it began to wait was written, or its loss logged: the count join()
\* waits for survives overflows.
JournalComplete ==
    main = "leaving" =>
        hand # "early" /\ \A i \in 1..Len(queue) : queue[i] # "early"

\* A stop is heard: the scheduler does not sleep through it, unless it came
\* while a job was running (then the wake event is cleared before the sleep);
\* a pass it meets always has the job it is in; and while the stop waits for
\* the queue the writer has an entry to take or to write, however many were
\* dropped.
StopHeard ==
    /\ main = "stopping" /\ sched = "sleep" => wake \/ late
    /\ sched \in {"job", "halt", "halted"} => due # {}
    /\ sched \in {"halt", "halted"} => "refresh" \in due
    /\ main = "joining" => hand # "none" \/ queue # <<>>

\* An agent whose process ended by stop() is not left as running in the
\* database, unless a hot swap wrote back a status it had read earlier.
NoPhantomRunner ==
    row.status = "running" /\ main \in {"leaving", "down"} => mem = "dead" \/ stale

\* The row is never behind the version that runs, so that a crash in a hot
\* swap leaves the newer version on record, unless two swaps overlapped.
VersionAhead == Running /\ ~crossed => row.version >= version

\* A stop ends, and so does the process of an agent that was paused or halted.
StopEnds == (main = "stopping" \/ (main = "up" /\ mem # "running")) ~> main = "down"
==============================================================================
