--------------------------- MODULE ResearchSession ---------------------------
(***************************************************************************)
(* One paid research session of gecko-api, from the POST that creates its  *)
(* row to the answer the client polls for: the background workflow that    *)
(* writes the row, the retry route that runs the debate again, the         *)
(* pro_events log with the SSE streams that tail it, and the shutdown of   *)
(* the workers that host the tasks.                                        *)
(*                                                                         *)
(* A request is the unit of concurrency.  The handler of a POST or retry   *)
(* request ends in asyncio.create_task, so a request is also the debate it *)
(* starts: pc[q] first follows the handler, then the background task.      *)
(* Every await is a point where any other request, worker or stream may    *)
(* run, so every store call is an action of its own.                       *)
(***************************************************************************)
EXTENDS Naturals, Sequences

CONSTANTS
    Post,        \* the request that creates (and pays for) the session
    Retries,     \* requests to /research/pro/{id}/retry
    Workers,     \* API containers
    Viewers,     \* SSE subscriptions
    Nobody,      \* "no worker", "no token", "no result"
    MaxTurns,    \* turn events of one debate
    FailureSeq,  \* seq of the failure row (1_000_000 in the code)
    MaxFaults    \* bound: store calls that may fail

Requests == Retries \union {Post}

ASSUME SessionAssumption ==
    /\ Post \notin Retries
    /\ Nobody \notin Requests \union Workers
    /\ MaxTurns \in Nat
    /\ FailureSeq \in Nat /\ FailureSeq > MaxTurns + 1
    /\ MaxFaults \in Nat

VARIABLES
    tier,     \* sessions.tier
    status,   \* sessions.status, "absent" before the row exists
    result,   \* sessions.result_json: the request whose debate wrote it
    events,   \* rows of pro_events, in id order
    billed,   \* debates whose price is in projects.spent_usd
    pc,       \* where each request is
    host,     \* the worker that serves each request
    turn,     \* pro_events rows each debate has tried to append
    token,    \* the retry token each request presented, named by its issuer
    worker,   \* the phase of each container
    vpc,      \* phase of each SSE stream
    lastId,   \* the id of the last row each stream has sent
    known,    \* retry tokens that some stream has delivered
    faults    \* store calls that have failed so far

vars == <<tier, status, result, events, billed, pc, turn, host, token, worker,
          vpc, lastId, known, faults>>
row == <<status, result>>
stream == <<vpc, lastId, known>>

NonTerminal == {"pending", "indexing", "generating"}
Terminal == {"complete", "failed", "interrupted"}

Working == {"gather", "noSources", "ready", "generate", "debate", "persist",
            "finish", "persistAgain", "finishAgain", "bill", "failing"}
Task == Working \union {"announce"}
Handling == {"checked", "flipped"}
Ended == {"done", "dead", "lost"}
Accepted == Task \union Ended \union {"flipped"}

Row(q, seq, kind) == [seq |-> seq, kind |-> kind, by |-> q]
Finals == {"final", "failure"}

Init ==
    /\ tier \in {"basic", "pro"}
    /\ status = "absent"
    /\ result = Nobody
    /\ events = <<>>
    /\ billed = {}
    /\ pc = [q \in Requests |-> "idle"]
    /\ turn = [q \in Requests |-> 0]
    /\ host = [q \in Requests |-> Nobody]
    /\ token = [q \in Requests |-> Nobody]
    /\ worker = [w \in Workers |-> "up"]
    /\ vpc = [v \in Viewers |-> "idle"]
    /\ lastId = [v \in Viewers |-> 0]
    /\ known = {}
    /\ faults = 0
------------------------------------------------------------------------------
(* Store calls.  A call lands, or it raises and one fault is spent.  A call *)
(* that raises may have landed all the same: only its reply was lost.       *)

Lands == faults' = faults
Fails == faults < MaxFaults /\ faults' = faults + 1

Goto(q, p) == pc' = [pc EXCEPT ![q] = p]

\* update_status and set_error are UPDATEs on the id alone: whatever the
\* status was, it is overwritten.
SetStatus(s) == status' = s

\* Variant: pro_events without its UNIQUE constraint.
SeqNeverTaken(seq) == FALSE

\* A row whose (session_id, seq) is taken is refused; both callers of the
\* insert log the error and go on.
SeqTaken(seq) == \E i \in DOMAIN events : events[i].seq = seq
AppendRow(q, seq, kind) ==
    \/ /\ ~SeqTaken(seq)
       /\ events' = Append(events, Row(q, seq, kind))
       /\ Lands
    \/ SeqTaken(seq) /\ events' = events /\ Lands
    \/ /\ \/ ~SeqTaken(seq) /\ events' = Append(events, Row(q, seq, kind))
          \/ events' = events
       /\ Fails
------------------------------------------------------------------------------
(* The request handlers.                                                    *)

\* POST /research and /research/pro: store.create inserts the row.  If it
\* raises the answer is a 500, and the row may be there without a task.
CreateSession(w) ==
    /\ pc[Post] = "idle"
    /\ worker[w] = "up"
    /\ \/ status' = "pending" /\ Goto(Post, "flipped") /\ Lands
       \/ status' = "pending" /\ Goto(Post, "cutOff") /\ Fails
       \/ UNCHANGED status /\ Goto(Post, "refused") /\ Fails
    /\ host' = [host EXCEPT ![Post] = w]
    /\ UNCHANGED <<tier, result, events, billed, turn, token, worker, stream>>

\* The retry handler verifies the token and reads the row.  Anything but a
\* failed pro session is a 409.
CheckRetry(q, w, t) ==
    /\ q \in Retries /\ pc[q] = "idle"
    /\ worker[w] = "up"
    /\ t \in known
    /\ Goto(q, IF status = "failed" /\ tier = "pro" THEN "checked" ELSE "refused")
    /\ host' = [host EXCEPT ![q] = w]
    /\ token' = [token EXCEPT ![q] = t]
    /\ UNCHANGED <<tier, row, events, billed, turn, worker, stream, faults>>

\* Variant: the status the comments of the route speak of, which the CHECK
\* constraint of sessions.status does not know.
BurnTokenRunning(q) ==
    /\ pc[q] = "checked"
    /\ SetStatus("running") /\ Goto(q, "flipped") /\ Lands
    /\ UNCHANGED <<tier, result, events, billed, turn, host, token, worker, stream>>

\* It then flips the row to pending, on the strength of the earlier read.
\* If the reply to that is lost, nobody works on the pending session.
BurnToken(q) ==
    /\ pc[q] = "checked"
    /\ \/ SetStatus("pending") /\ Goto(q, "flipped") /\ Lands
       \/ SetStatus("pending") /\ Goto(q, "cutOff") /\ Fails
       \/ UNCHANGED status /\ Goto(q, "refused") /\ Fails
    /\ UNCHANGED <<tier, result, events, billed, turn, host, token, worker, stream>>

\* create_task and _track_inflight, with no await between them.
StartTask(q) ==
    /\ pc[q] = "flipped"
    /\ Goto(q, "gather")
    /\ UNCHANGED <<tier, row, events, billed, turn, host, token, worker, stream, faults>>
------------------------------------------------------------------------------
(* The background task: workflows.research, then the API's own epilogue.    *)

\* Discovery and ingestion find sources, find none, or raise.
Gather(q) ==
    /\ pc[q] = "gather"
    /\ \E p \in {"ready", "noSources", "failing"} : Goto(q, p)
    /\ UNCHANGED <<tier, row, events, billed, turn, host, token, worker, stream, faults>>

\* Variant: the token is announced where the failure is found.
NoSourcesAnnounced(q) ==
    /\ pc[q] = "noSources"
    /\ SetStatus("failed")
    /\ AppendRow(q, FailureSeq, "failure")
    /\ Goto(q, "failing")
    /\ UNCHANGED <<tier, result, billed, turn, host, token, worker, stream>>

\* The workflow marks the row failed itself before it raises.
NoSources(q) ==
    /\ pc[q] = "noSources"
    /\ \/ SetStatus("failed") /\ Lands
       \/ status' \in {status, "failed"} /\ Fails
    /\ Goto(q, "failing")
    /\ UNCHANGED <<tier, result, events, billed, turn, host, token, worker, stream>>

MarkGenerating(q) ==
    /\ pc[q] = "ready"
    /\ \/ SetStatus("generating") /\ Goto(q, "generate") /\ Lands
       \/ status' \in {status, "generating"} /\ Goto(q, "failing") /\ Fails
    /\ UNCHANGED <<tier, result, events, billed, turn, host, token, worker, stream>>

\* The single-pass generation; pro goes on to the debate.
Generate(q) ==
    /\ pc[q] = "generate"
    /\ \E p \in {IF tier = "pro" THEN "debate" ELSE "persist", "failing"} : Goto(q, p)
    /\ UNCHANGED <<tier, row, events, billed, turn, host, token, worker, stream, faults>>

\* One turn_start / turn_end / error event.  seq counts from 1 in every
\* debate, whether or not its rows land.
EmitTurn(q) ==
    /\ pc[q] = "debate" /\ turn[q] < MaxTurns
    /\ turn' = [turn EXCEPT ![q] = @ + 1]
    /\ AppendRow(q, turn[q] + 1, "turn")
    /\ UNCHANGED <<tier, row, billed, pc, host, token, worker, stream>>

\* The debate ends (perhaps halted early) with its final event.
EmitFinal(q) ==
    /\ pc[q] = "debate"
    /\ AppendRow(q, turn[q] + 1, "final")
    /\ Goto(q, "persist")
    /\ UNCHANGED <<tier, row, billed, turn, host, token, worker, stream>>

\* pro_generate raises, or AG2 is not installed and the basic result is kept.
AbandonDebate(q) ==
    /\ pc[q] = "debate"
    /\ \E p \in {"persist", "failing"} : Goto(q, p)
    /\ UNCHANGED <<tier, row, events, billed, turn, host, token, worker, stream, faults>>

\* The workflow's set_result: a failure is logged and swallowed.
Persist(q) ==
    /\ pc[q] = "persist"
    /\ \/ result' = q /\ Lands
       \/ result' \in {result, q} /\ Fails
    /\ Goto(q, "finish")
    /\ UNCHANGED <<tier, status, events, billed, turn, host, token, worker, stream>>

\* The workflow's update_status("complete"); precedent, transcript and
\* journal follow, and none of them can raise.
Finish(q) ==
    /\ pc[q] = "finish"
    /\ \/ SetStatus("complete") /\ Goto(q, "persistAgain") /\ Lands
       \/ status' \in {status, "complete"} /\ Goto(q, "failing") /\ Fails
    /\ UNCHANGED <<tier, result, events, billed, turn, host, token, worker, stream>>

\* Variant: the API leaves set_result to the workflow.
PersistAgainSkipped(q) ==
    /\ pc[q] = "persistAgain"
    /\ Goto(q, "finishAgain")
    /\ UNCHANGED <<tier, row, events, billed, turn, host, token, worker, stream, faults>>

\* The API's set_result and update_status: here a failure fails the session.
PersistAgain(q) ==
    /\ pc[q] = "persistAgain"
    /\ \/ result' = q /\ Goto(q, "finishAgain") /\ Lands
       \/ result' \in {result, q} /\ Goto(q, "failing") /\ Fails
    /\ UNCHANGED <<tier, status, events, billed, turn, host, token, worker, stream>>

FinishAgain(q) ==
    /\ pc[q] = "finishAgain"
    /\ \/ SetStatus("complete") /\ Goto(q, "bill") /\ Lands
       \/ status' \in {status, "complete"} /\ Goto(q, "failing") /\ Fails
    /\ UNCHANGED <<tier, result, events, billed, turn, host, token, worker, stream>>

\* Variant: a failure of the roll-up fails the session.
BillRaises(q) ==
    /\ pc[q] = "bill"
    /\ \/ billed' = billed \union {q} /\ Goto(q, "done") /\ Lands
       \/ billed' \in {billed, billed \union {q}} /\ Goto(q, "failing") /\ Fails
    /\ UNCHANGED <<tier, row, events, turn, host, token, worker, stream>>

\* increment_project_spent_safe: one atomic RPC, its failure swallowed.
Bill(q) ==
    /\ pc[q] = "bill"
    /\ \/ billed' = billed \union {q} /\ Lands
       \/ billed' \in {billed, billed \union {q}} /\ Fails
    /\ Goto(q, "done")
    /\ UNCHANGED <<tier, row, events, turn, host, token, worker, stream>>

\* Variant: no failure row follows set_error.
SetErrorSilent(q) ==
    /\ pc[q] = "failing"
    /\ SetStatus("failed") /\ Goto(q, "done") /\ Lands
    /\ UNCHANGED <<tier, result, events, billed, turn, host, token, worker, stream>>

\* Variant: the failure is announced and the row forgotten.
SetErrorForgotten(q) ==
    /\ pc[q] = "failing"
    /\ Goto(q, IF tier = "pro" THEN "announce" ELSE "done")
    /\ UNCHANGED <<tier, row, events, billed, turn, host, token, worker, stream, faults>>

\* The except handler.  If set_error itself raises, the task dies there: the
\* stream, and perhaps the row, never hears of the failure.
SetError(q) ==
    /\ pc[q] = "failing"
    /\ \/ /\ SetStatus("failed") /\ Lands
          /\ Goto(q, IF tier = "pro" THEN "announce" ELSE "done")
       \/ status' \in {status, "failed"} /\ Goto(q, "dead") /\ Fails
    /\ UNCHANGED <<tier, result, events, billed, turn, host, token, worker, stream>>

\* The synthetic final row that carries this failure's retry token.
Announce(q) ==
    /\ pc[q] = "announce"
    /\ AppendRow(q, FailureSeq, "failure")
    /\ Goto(q, "done")
    /\ UNCHANGED <<tier, row, billed, turn, host, token, worker, stream>>
------------------------------------------------------------------------------
(* Containers.  A rolling deploy stops a worker gracefully; a crash does not.*)

On(w) == {q \in Requests : host[q] = w}
InFlight(w) == {q \in On(w) : pc[q] \in Task}

\* uvicorn lets the handlers finish, then the lifespan snapshots
\* _INFLIGHT_SESSIONS.  The tasks keep running while it does so.
BeginDrain(w) ==
    /\ worker[w] = "up"
    /\ \A q \in On(w) : pc[q] \notin Handling
    /\ worker' = [worker EXCEPT ![w] = IF InFlight(w) = {} THEN "drained" ELSE "draining"]
    /\ UNCHANGED <<tier, row, events, billed, pc, turn, host, token, stream, faults>>

\* Variant: mark_interrupted without its WHERE status IN (...).
MarkInterruptedUnguarded(w) ==
    /\ worker[w] = "draining"
    /\ SetStatus("interrupted") /\ Lands
    /\ worker' = [worker EXCEPT ![w] = "drained"]
    /\ UNCHANGED <<tier, result, events, billed, pc, turn, host, token, stream>>

\* mark_interrupted: UPDATE ... WHERE status IN (pending, indexing, generating).
MarkInterrupted(w) ==
    /\ worker[w] = "draining"
    /\ LET stamped == IF status \in NonTerminal THEN "interrupted" ELSE status
       IN  \/ status' = stamped /\ Lands
           \/ status' \in {status, stamped} /\ Fails
    /\ worker' = [worker EXCEPT ![w] = "drained"]
    /\ UNCHANGED <<tier, result, events, billed, pc, turn, host, token, stream>>

\* The process ends, and with it every task and handler it was running.
Stop(w, how) ==
    /\ worker' = [worker EXCEPT ![w] = how]
    /\ pc' = [q \in Requests |->
                IF host[q] # w THEN pc[q]
                ELSE IF pc[q] \in Task \union {"flipped"} THEN "lost"
                ELSE IF pc[q] = "checked" THEN "refused"
                ELSE pc[q]]
    /\ UNCHANGED <<tier, row, events, billed, turn, host, token, stream, faults>>

Exit(w) == worker[w] = "drained" /\ Stop(w, "exited")
Crash(w) == worker[w] \in {"up", "draining"} /\ Stop(w, "crashed")
------------------------------------------------------------------------------
(* SSE streams over pro_events: each starts at id 0 and closes at a final.  *)

\* The events token of a pro request opens a stream.
Subscribe(v) ==
    /\ vpc[v] = "idle" /\ tier = "pro"
    /\ \E q \in Requests : pc[q] \in Accepted \ {"flipped"}
    /\ vpc' = [vpc EXCEPT ![v] = "open"]
    /\ UNCHANGED <<tier, row, events, billed, pc, turn, host, token, worker,
                   lastId, known, faults>>

Unsent(v) == {i \in DOMAIN events : i > lastId[v]}

\* A poll that returns rows with no final among them: all are sent.
StreamRows(v) ==
    /\ vpc[v] = "open"
    /\ Unsent(v) # {}
    /\ \A i \in Unsent(v) : events[i].kind \notin Finals
    /\ lastId' = [lastId EXCEPT ![v] = Len(events)]
    /\ UNCHANGED <<tier, row, events, billed, pc, turn, host, token, worker,
                   vpc, known, faults>>

\* Variant: the loop over the polled rows goes on behind a final.
StreamFinalRunsOn(v) ==
    /\ vpc[v] = "open"
    /\ \E i \in Unsent(v) : events[i].kind \in Finals
    /\ lastId' = [lastId EXCEPT ![v] = Len(events)]
    /\ known' = known \union
          {events[i].by : i \in {i \in Unsent(v) : events[i].kind = "failure"}}
    /\ vpc' = [vpc EXCEPT ![v] = "closed"]
    /\ UNCHANGED <<tier, row, events, billed, pc, turn, host, token, worker, faults>>

\* A poll that reaches a final: it is the last row sent.
StreamFinal(v) ==
    /\ vpc[v] = "open"
    /\ \E i \in Unsent(v) :
          /\ events[i].kind \in Finals
          /\ \A j \in Unsent(v) : j < i => events[j].kind \notin Finals
          /\ lastId' = [lastId EXCEPT ![v] = i]
          /\ known' = known \union
                        (IF events[i].kind = "failure" THEN {events[i].by} ELSE {})
    /\ vpc' = [vpc EXCEPT ![v] = "closed"]
    /\ UNCHANGED <<tier, row, events, billed, pc, turn, host, token, worker, faults>>

\* The client disconnects, or the 300 s deadline passes.
StreamEnds(v) ==
    /\ vpc[v] = "open"
    /\ vpc' = [vpc EXCEPT ![v] = "timeout"]
    /\ UNCHANGED <<tier, row, events, billed, pc, turn, host, token, worker,
                   lastId, known, faults>>
------------------------------------------------------------------------------
Step(q) ==
    \/ BurnToken(q) \/ StartTask(q)
    \/ Gather(q) \/ NoSources(q) \/ MarkGenerating(q) \/ Generate(q)
    \/ EmitTurn(q) \/ EmitFinal(q) \/ AbandonDebate(q)
    \/ Persist(q) \/ Finish(q) \/ PersistAgain(q) \/ FinishAgain(q) \/ Bill(q)
    \/ SetError(q) \/ Announce(q)

Shutdown(w) == MarkInterrupted(w) \/ Exit(w)

Stream(v) == StreamRows(v) \/ StreamFinal(v)

Next ==
    \/ \E w \in Workers : CreateSession(w)
    \/ \E q \in Retries, w \in Workers, t \in known : CheckRetry(q, w, t)
    \/ \E q \in Requests : Step(q)
    \/ \E w \in Workers : BeginDrain(w) \/ Shutdown(w) \/ Crash(w)
    \/ \E v \in Viewers : Subscribe(v) \/ Stream(v) \/ StreamEnds(v)

Spec == Init /\ [][Next]_vars

\* The event loop runs every task and a shutdown in progress ends.  Nobody
\* has to send a request, and no worker has to stop.
Fairness ==
    /\ \A q \in Requests : WF_vars(Step(q))
    /\ \A w \in Workers : WF_vars(Shutdown(w))

FairSpec == Spec /\ Fairness
------------------------------------------------------------------------------
(* Properties.                                                              *)

PCs == {"idle", "refused", "cutOff"} \union Handling \union Task \union Ended
Rows == [seq : Nat, kind : {"turn"} \union Finals, by : Requests]

\* The values each variable ranges over.
TypeOK ==
    /\ tier \in {"basic", "pro"}
    /\ status \in {"absent"} \union NonTerminal \union Terminal
    /\ result \in Requests \union {Nobody}
    /\ events \in Seq(Rows)
    /\ billed \subseteq Requests
    /\ pc \in [Requests -> PCs]
    /\ turn \in [Requests -> 0..MaxTurns]
    /\ host \in [Requests -> Workers \union {Nobody}]
    /\ token \in [Requests -> Requests \union {Nobody}]
    /\ worker \in [Workers -> {"up", "draining", "drained", "exited", "crashed"}]
    /\ vpc \in [Viewers -> {"idle", "open", "closed", "timeout"}]
    /\ lastId \in [Viewers -> Nat]
    /\ known \subseteq Requests
    /\ faults \in 0..MaxFaults

\* A shutdown never takes back an answer: mark_interrupted only changes a row
\* that has not ended, however the task and the drain interleave.
NeverInterruptFinished ==
    [][status' = "interrupted" => status \in NonTerminal \union {"interrupted"}]_vars

\* The failure rows of all debates share one seq and pro_events refuses the
\* second, so a session hands out one retry token in its life, whatever the
\* retries, crashes and lost calls.
OneRetryToken ==
    \A i, j \in DOMAIN events :
        events[i].kind = "failure" /\ events[j].kind = "failure" => i = j

\* Each retry token was accepted at most once.
RedeemedOnce ==
    \A p, q \in Retries :
        /\ pc[p] \in Accepted /\ pc[q] \in Accepted
        /\ token[p] = token[q]
        => p = q

\* A client that redeems its token once never has two debates running, so
\* the unguarded status writes of one are never mixed with another's.
OneDebateAtATime ==
    RedeemedOnce => \A p, q \in Requests : pc[p] \in Working /\ pc[q] \in Working => p = q

\* ... and the project is charged for at most one of the session's debates.
\* Whatever the client redeems, a session whose original debate was charged
\* for is over: no token of it is known and no retry gets past the door.
BilledOnce ==
    /\ RedeemedOnce => \A p, q \in billed : p = q
    /\ Post \in billed => known = {} /\ \A q \in Retries : pc[q] = "idle"

Quiet == \A q \in Requests : pc[q] \notin Handling \union Task

\* The project is only charged when there is an answer to read, and a session
\* that is complete once nothing runs has one, although the workflow swallows
\* a failed set_result and completes the row all the same, unless a worker
\* stopped or the write of the failure was itself lost.
BilledForAnswer ==
    /\ billed # {} => result # Nobody
    /\ Quiet /\ status = "complete"
          => result # Nobody \/ \E q \in Requests : pc[q] \in {"lost", "dead"}

\* The answer a project has paid for stays: if the token was redeemed once,
\* no debate replaces the result any more, and if only one retry ever
\* presented it, no debate and no drain touches the status either.
PresentedOnce ==
    \A p, q \in Retries : pc[p] # "idle" /\ pc[q] # "idle" => p = q
PaidAnswerStays ==
    [][billed # {} => /\ RedeemedOnce => result' = result
                      /\ PresentedOnce => status' = status]_vars

\* Streams may come and go at any time, but a stream that a final row closes
\* always stops at the first final of the log: every client, whenever it
\* subscribes, is told the same end of the session.  A retry token is only
\* delivered as that end: a debate that fails behind its own final has none.
StreamsEndAlike ==
    /\ \A v \in Viewers : vpc[v] = "closed" =>
          /\ events[lastId[v]].kind \in Finals
          /\ \A i \in 1..(lastId[v] - 1) : events[i].kind \notin Finals
    /\ \A t \in known : \E i \in DOMAIN events :
          /\ events[i].kind = "failure" /\ events[i].by = t
          /\ \A j \in 1..(i - 1) : events[j].kind \notin Finals

\* A pro session that ends up failed has told its streams: once nothing
\* runs, no store call was lost and no worker stopped, the log has a final row.
FailureReachesStream ==
    /\ status = "failed" /\ tier = "pro"
    /\ Quiet /\ faults = 0 /\ \A q \in Requests : pc[q] # "lost"
    => \E i \in DOMAIN events : events[i].kind \in Finals

\* An accepted session does not stay in progress: its row reaches a terminal
\* status, unless a worker stopped under one of its requests, the write of
\* the failure was itself lost, or the write that accepted the request landed
\* and its reply was lost.
SessionSettles ==
    status \in NonTerminal
        ~> (status \in Terminal \/ \E q \in Requests : pc[q] \in {"lost", "dead", "cutOff"})

\* Documented: "Single-use is enforced by the status guard on the retry
\* endpoint (failed -> running burns the token)".  Does not hold.
RetryTokenSingleUse == RedeemedOnce

\* Documented: the drain stamps "every still-running session this worker is
\* holding as 'interrupted'" so that clients do not "poll 425 forever".  Once
\* every worker that served the session drained and exited, and no write
\* failed, the row should be terminal.  Does not hold.
NoZombieAfterDrain ==
    (/\ \A q \in Requests : host[q] # Nobody => worker[host[q]] = "exited"
     /\ faults = 0)
    => status \notin NonTerminal
=============================================================================
