------------------------ MODULE ResearchSession_proofs ------------------------
(***************************************************************************)
(* Proofs about ResearchSession: its type invariant, the uniqueness of the *)
(* retry token that follows from the shape of the pro_events log, what a   *)
(* token that is redeemed once is worth, what the streams and the project  *)
(* that pays may rely on, and why every session comes to an end.           *)
(***************************************************************************)
EXTENDS ResearchSession, TLAPS

\* The initial state has its types.
LEMMA InitType == Init => TypeOK
  BY SessionAssumption DEF Init, TypeOK, Requests, Terminal, NonTerminal, PCs

\* A store append keeps the log a sequence of rows.
LEMMA AppendType ==
  ASSUME TypeOK, NEW q \in Requests, NEW seq \in Nat,
         NEW kind \in {"turn"} \union Finals, AppendRow(q, seq, kind)
  PROVE  events' \in Seq(Rows) /\ faults' \in 0..MaxFaults
  <1>1. Row(q, seq, kind) \in Rows
    BY DEF Row, Rows
  <1>2. events' \in Seq(Rows)
    <2>1. events \in Seq(Rows)
      BY DEF TypeOK
    <2>2. events' = events \/ events' = Append(events, Row(q, seq, kind))
      BY DEF AppendRow
    <2> QED BY <1>1, <2>1, <2>2
  <1>3. faults' \in 0..MaxFaults
    BY SessionAssumption DEF TypeOK, AppendRow, Lands, Fails
  <1> QED BY <1>2, <1>3

\* The other store calls only move the fault counter.
LEMMA FaultType ==
  ASSUME TypeOK, Lands \/ Fails
  PROVE  faults' \in 0..MaxFaults
  BY SessionAssumption DEF TypeOK, Lands, Fails

\* A step of a request, in its handler or its task, keeps the types.
LEMMA StepType ==
  ASSUME TypeOK, NEW q \in Requests, Step(q)
  PROVE  TypeOK'
  <1> USE DEF TypeOK, row, stream, PCs, Handling, Task, Working, Ended
  <1>1. CASE BurnToken(q)
    BY <1>1, FaultType DEF BurnToken, Goto, SetStatus, NonTerminal
  <1>2. CASE StartTask(q)
    BY <1>2 DEF StartTask, Goto
  <1>3. CASE Gather(q)
    BY <1>3 DEF Gather, Goto
  <1>4. CASE NoSources(q)
    BY <1>4, FaultType DEF NoSources, Goto, SetStatus, Terminal
  <1>5. CASE MarkGenerating(q)
    BY <1>5, FaultType DEF MarkGenerating, Goto, SetStatus, NonTerminal
  <1>6. CASE Generate(q)
    BY <1>6 DEF Generate, Goto
  <1>7. CASE EmitTurn(q)
    <2>1. turn[q] + 1 \in Nat /\ turn' \in [Requests -> 0..MaxTurns]
      BY <1>7, SessionAssumption DEF EmitTurn
    <2> QED BY <1>7, <2>1, AppendType DEF EmitTurn, Finals
  <1>8. CASE EmitFinal(q)
    <2>1. turn[q] + 1 \in Nat
      BY SessionAssumption
    <2> QED BY <1>8, <2>1, AppendType DEF EmitFinal, Goto, Finals
  <1>9. CASE AbandonDebate(q)
    BY <1>9 DEF AbandonDebate, Goto
  <1>10. CASE Persist(q)
    BY <1>10, FaultType DEF Persist, Goto
  <1>11. CASE Finish(q)
    BY <1>11, FaultType DEF Finish, Goto, SetStatus, Terminal
  <1>12. CASE PersistAgain(q)
    BY <1>12, FaultType DEF PersistAgain, Goto
  <1>13. CASE FinishAgain(q)
    BY <1>13, FaultType DEF FinishAgain, Goto, SetStatus, Terminal
  <1>14. CASE Bill(q)
    BY <1>14, FaultType DEF Bill, Goto
  <1>15. CASE SetError(q)
    BY <1>15, FaultType DEF SetError, Goto, SetStatus, Terminal
  <1>16. CASE Announce(q)
    BY <1>16, SessionAssumption, AppendType DEF Announce, Goto, Finals
  <1> QED BY <1>1, <1>2, <1>3, <1>4, <1>5, <1>6, <1>7, <1>8, <1>9, <1>10, <1>11,
             <1>12, <1>13, <1>14, <1>15, <1>16 DEF Step

\* The shutdown or crash of a container keeps the types.
LEMMA WorkerType ==
  ASSUME TypeOK, NEW w \in Workers, BeginDrain(w) \/ Shutdown(w) \/ Crash(w)
  PROVE  TypeOK'
  <1> USE DEF TypeOK, row, stream
  <1>1. CASE BeginDrain(w)
    BY <1>1 DEF BeginDrain
  <1>2. CASE MarkInterrupted(w)
    BY <1>2, FaultType DEF MarkInterrupted, Terminal
  <1>3. ASSUME NEW how \in {"exited", "crashed"}, Stop(w, how)
        PROVE  TypeOK'
    <2>1. pc' \in [Requests -> PCs]
      BY <1>3 DEF Stop, PCs, Ended
    <2> QED BY <1>3, <2>1 DEF Stop
  <1> QED BY <1>1, <1>2, <1>3 DEF Shutdown, Exit, Crash

\* A poll of an SSE stream keeps the types.
LEMMA ViewerType ==
  ASSUME TypeOK, NEW v \in Viewers, Subscribe(v) \/ Stream(v) \/ StreamEnds(v)
  PROVE  TypeOK'
  <1> USE DEF TypeOK, row
  <1>1. CASE Subscribe(v)
    BY <1>1 DEF Subscribe
  <1>2. CASE StreamRows(v)
    <2>1. Len(events) \in Nat
      OBVIOUS
    <2> QED BY <1>2, <2>1 DEF StreamRows
  <1>3. CASE StreamFinal(v)
    <2>1. PICK i \in Unsent(v) :
             /\ lastId' = [lastId EXCEPT ![v] = i]
             /\ known' = known \union
                   (IF events[i].kind = "failure" THEN {events[i].by} ELSE {})
      BY <1>3 DEF StreamFinal
    <2>2. i \in DOMAIN events
      BY <2>1 DEF Unsent
    <2>3. i \in Nat /\ events[i] \in Rows
      BY <2>2
    <2>4. events[i].by \in Requests
      BY <2>3 DEF Rows
    <2> QED BY <1>3, <2>1, <2>3, <2>4 DEF StreamFinal
  <1>4. CASE StreamEnds(v)
    BY <1>4 DEF StreamEnds
  <1> QED BY <1>1, <1>2, <1>3, <1>4 DEF Stream

\* Every step keeps the types.
LEMMA NextType == TypeOK /\ [Next]_vars => TypeOK'
  <1> SUFFICES ASSUME TypeOK, [Next]_vars PROVE TypeOK'
    OBVIOUS
  <1>1. ASSUME NEW w \in Workers, CreateSession(w) PROVE TypeOK'
    BY <1>1, SessionAssumption, FaultType
       DEF CreateSession, TypeOK, Goto, NonTerminal, PCs, Handling, Requests, stream
  <1>2. ASSUME NEW q \in Retries, NEW w \in Workers, NEW t \in known, CheckRetry(q, w, t)
        PROVE  TypeOK'
    <2>1. q \in Requests /\ t \in Requests
      BY DEF Requests, TypeOK
    <2> QED BY <1>2, <2>1 DEF CheckRetry, TypeOK, Goto, PCs, Handling, row, stream
  <1>3. CASE UNCHANGED vars
    BY <1>3 DEF vars, row, stream, TypeOK
  <1> QED BY <1>1, <1>2, <1>3, StepType, WorkerType, ViewerType DEF Next

\* Every reachable state has the types TypeOK gives, for any number of
\* retries, workers and streams, any length of debate and any fault bound.
THEOREM TypeCorrect == Spec => []TypeOK
  <1> QED BY InitType, NextType, PTL DEF Spec
------------------------------------------------------------------------------
(* The log.  Its seq is a key, and only failure rows use FailureSeq.        *)

LogInv ==
    /\ \A i, j \in DOMAIN events : events[i].seq = events[j].seq => i = j
    /\ \A i \in DOMAIN events :
          events[i].kind = "failure" <=> events[i].seq = FailureSeq

\* A row with a fresh seq enters the log.
Appends(q, seq, kind) ==
    ~SeqTaken(seq) /\ events' = Append(events, Row(q, seq, kind))

\* A step leaves the log alone or appends in one of two ways: a row of a
\* debate, or the failure row of a task that has just recorded its error.
LEMMA LogStep ==
  ASSUME TypeOK, [Next]_vars
  PROVE  \/ events' = events
         \/ \E q \in Requests, kind \in {"turn", "final"} :
               Appends(q, turn[q] + 1, kind)
         \/ \E q \in Requests : Announce(q) /\ Appends(q, FailureSeq, "failure")
  <1>1. ASSUME NEW q \in Requests, Step(q)
        PROVE  \/ events' = events
               \/ \E kind \in {"turn", "final"} : Appends(q, turn[q] + 1, kind)
               \/ Announce(q) /\ Appends(q, FailureSeq, "failure")
    <2>1. CASE EmitTurn(q)
      BY <2>1 DEF EmitTurn, AppendRow, Appends
    <2>2. CASE EmitFinal(q)
      BY <2>2 DEF EmitFinal, AppendRow, Appends
    <2>3. CASE Announce(q)
      BY <2>3 DEF Announce, AppendRow, Appends
    <2> QED BY <1>1, <2>1, <2>2, <2>3
            DEF Step, BurnToken, StartTask, Gather, NoSources, MarkGenerating,
                Generate, AbandonDebate, Persist, Finish, PersistAgain,
                FinishAgain, Bill, SetError, row
  <1>2. ASSUME NEW w \in Workers, BeginDrain(w) \/ Shutdown(w) \/ Crash(w)
        PROVE  events' = events
    BY <1>2 DEF BeginDrain, Shutdown, Crash, MarkInterrupted, Exit, Stop
  <1>3. ASSUME NEW v \in Viewers, Subscribe(v) \/ Stream(v) \/ StreamEnds(v)
        PROVE  events' = events
    BY <1>3 DEF Subscribe, Stream, StreamRows, StreamFinal, StreamEnds
  <1>4. CASE \E w \in Workers : CreateSession(w)
    BY <1>4 DEF CreateSession
  <1>5. CASE \E q \in Retries, w \in Workers, t \in known : CheckRetry(q, w, t)
    BY <1>5 DEF CheckRetry
  <1>6. CASE UNCHANGED vars
    BY <1>6 DEF vars
  <1> QED BY <1>1, <1>2, <1>3, <1>4, <1>5, <1>6 DEF Next

\* Appending a row with a fresh seq leaves the earlier rows where they were.
LEMMA AppendKeeps ==
  ASSUME TypeOK, NEW q, NEW seq, NEW kind, Appends(q, seq, kind)
  PROVE  /\ DOMAIN events' = DOMAIN events \union {Len(events) + 1}
         /\ \A i \in DOMAIN events : events'[i] = events[i] /\ i # Len(events) + 1
         /\ events'[Len(events) + 1] = Row(q, seq, kind)
         /\ \A i \in DOMAIN events : events[i].seq # seq
  <1>1. events \in Seq(Rows) /\ Len(events) \in Nat /\ DOMAIN events = 1..Len(events)
    BY DEF TypeOK
  <1>2. events' = Append(events, Row(q, seq, kind))
    BY DEF Appends
  <1>3. \A i \in DOMAIN events : events[i].seq # seq
    BY DEF Appends, SeqTaken
  <1>4. Len(events') = Len(events) + 1 /\ DOMAIN events' = 1..(Len(events) + 1)
    BY <1>1, <1>2
  <1>5. \A i \in 1..Len(events) : events'[i] = events[i]
    BY <1>1, <1>2
  <1>6. events'[Len(events) + 1] = Row(q, seq, kind)
    BY <1>1, <1>2
  <1> QED BY <1>1, <1>3, <1>4, <1>5, <1>6

\* Every step keeps seq a key of the log and FailureSeq for failures.
LEMMA LogInvNext == TypeOK /\ LogInv /\ [Next]_vars => LogInv'
  <1> SUFFICES ASSUME TypeOK, LogInv, [Next]_vars PROVE LogInv'
    OBVIOUS
  <1>1. CASE events' = events
    BY <1>1 DEF LogInv
  <1>2. ASSUME NEW q, NEW seq, NEW kind, Appends(q, seq, kind),
               kind = "failure" <=> seq = FailureSeq
        PROVE  LogInv'
    <2>1. Row(q, seq, kind).seq = seq /\ Row(q, seq, kind).kind = kind
      BY DEF Row
    <2> QED BY <1>2, <2>1, AppendKeeps DEF LogInv
  <1>3. CASE \E q \in Requests, kind \in {"turn", "final"} : Appends(q, turn[q] + 1, kind)
    <2>1. \A q \in Requests : turn[q] + 1 # FailureSeq
      BY SessionAssumption DEF TypeOK
    <2> QED BY <1>2, <1>3, <2>1
  <1>4. CASE \E q \in Requests : Announce(q) /\ Appends(q, FailureSeq, "failure")
    BY <1>2, <1>4
  <1> QED BY <1>1, <1>3, <1>4, LogStep

\* The empty log has no duplicate seq.
LEMMA LogInvInit == Init => LogInv
  BY DEF Init, LogInv

\* seq is a key of the log in every reachable state, and only failure rows
\* have FailureSeq.
THEOREM LogCorrect == Spec => []LogInv
  <1>1. Spec => []TypeOK
    BY TypeCorrect
  <1> QED BY <1>1, LogInvInit, LogInvNext, PTL DEF Spec

\* The log never holds two failure rows: one session, one retry token, for
\* any number of retries, crashes and lost store calls.
THEOREM OneRetryTokenCorrect == Spec => []OneRetryToken
  <1>1. LogInv => OneRetryToken
    BY DEF LogInv, OneRetryToken
  <1> QED BY <1>1, LogCorrect, PTL
------------------------------------------------------------------------------
(* Interruption.                                                            *)

\* No step takes a terminal status back to interrupted.
THEOREM NeverInterruptFinishedCorrect == Spec => NeverInterruptFinished
  <1> DEFINE Safe == status' = "interrupted" => status \in NonTerminal \union {"interrupted"}
  <1>1. ASSUME NEW q \in Requests, Step(q) PROVE Safe
    BY <1>1 DEF Step, BurnToken, StartTask, Gather, NoSources, MarkGenerating,
                Generate, EmitTurn, EmitFinal, AbandonDebate, Persist, Finish,
                PersistAgain, FinishAgain, Bill, SetError, Announce, SetStatus, row
  <1>2. ASSUME NEW w \in Workers, BeginDrain(w) \/ Shutdown(w) \/ Crash(w) PROVE Safe
    BY <1>2 DEF BeginDrain, Shutdown, Crash, MarkInterrupted, Exit, Stop, row
  <1>3. ASSUME NEW v \in Viewers, Subscribe(v) \/ Stream(v) \/ StreamEnds(v) PROVE Safe
    BY <1>3 DEF Subscribe, Stream, StreamRows, StreamFinal, StreamEnds, row
  <1>4. ASSUME NEW w \in Workers, CreateSession(w) PROVE Safe
    BY <1>4 DEF CreateSession
  <1>5. ASSUME NEW q \in Retries, NEW w \in Workers, NEW t \in known, CheckRetry(q, w, t)
        PROVE  Safe
    BY <1>5 DEF CheckRetry, row
  <1>6. [Next]_vars => [Safe]_vars
    BY <1>1, <1>2, <1>3, <1>4, <1>5 DEF Next
  <1> QED BY <1>6, PTL DEF Spec, NeverInterruptFinished
------------------------------------------------------------------------------
(* What one redemption of the token is worth.  The token is issued by the   *)
(* last step of a failed debate, so its issuer has ended and was not        *)
(* billed; a retry beyond its first step presented an issued token.         *)

IssuerInv ==
    /\ \A i \in DOMAIN events : events[i].kind = "failure" =>
          pc[events[i].by] = "done" /\ events[i].by \notin billed
    /\ \A t \in known : \E i \in DOMAIN events :
          events[i].kind = "failure" /\ events[i].by = t
    /\ \A q \in Retries : pc[q] # "idle" => token[q] \in known
    /\ \A q \in billed : pc[q] = "done"

\* At first no failure row, no token and no bill exists.
LEMMA IssuerInvInit == Init => IssuerInv
  BY DEF Init, IssuerInv, Requests

\* A step that leaves the log, the tokens and the bill alone, and neither
\* wakes a request nor moves one that is done.
LEMMA IssuerInvFrame ==
  ASSUME IssuerInv, events' = events, known' = known, token' = token, billed' = billed,
         \A q \in Requests : pc[q] = "done" => pc'[q] = "done",
         \A q \in Retries : pc[q] = "idle" => pc'[q] = "idle",
         TypeOK
  PROVE  IssuerInv'
  <1>1. Retries \subseteq Requests /\ billed \subseteq Requests
    BY DEF TypeOK, Requests
  <1>2. \A i \in DOMAIN events : events[i].by \in Requests
    <2>1. \A i \in DOMAIN events : events[i] \in Rows
      BY DEF TypeOK
    <2> QED BY <2>1 DEF Rows
  <1> QED BY <1>1, <1>2 DEF IssuerInv

\* A step of a request keeps each failure row behind its debate.
LEMMA IssuerInvStep ==
  ASSUME TypeOK, IssuerInv, NEW q \in Requests, Step(q)
  PROVE  IssuerInv'
  <1>1. \A i \in DOMAIN events : events[i] \in Rows /\ events[i].by \in Requests
    <2>1. \A i \in DOMAIN events : events[i] \in Rows
      BY DEF TypeOK
    <2> QED BY <2>1 DEF Rows
  <1>2. /\ Retries \subseteq Requests /\ billed \subseteq Requests
        /\ pc \in [Requests -> PCs]
    BY DEF TypeOK, Requests
  <1>3. CASE EmitTurn(q)
    <2>1. events' = events \/ Appends(q, turn[q] + 1, "turn")
      BY <1>3 DEF EmitTurn, AppendRow, Appends
    <2>2. Row(q, turn[q] + 1, "turn").kind = "turn"
      BY DEF Row
    <2> QED BY <1>1, <1>2, <1>3, <2>1, <2>2, AppendKeeps DEF IssuerInv, EmitTurn, stream
  <1>4. CASE EmitFinal(q)
    <2>1. events' = events \/ Appends(q, turn[q] + 1, "final")
      BY <1>4 DEF EmitFinal, AppendRow, Appends
    <2>2. Row(q, turn[q] + 1, "final").kind = "final"
      BY DEF Row
    <2>3. known' = known /\ token' = token /\ billed' = billed
      BY <1>4 DEF EmitFinal, stream
    <2>4. pc[q] = "debate" /\ pc' = [pc EXCEPT ![q] = "persist"]
      BY <1>4 DEF EmitFinal, Goto
    <2> QED BY <1>1, <1>2, <2>1, <2>2, <2>3, <2>4, AppendKeeps DEF IssuerInv
  <1>5. CASE Announce(q)
    <2>1. events' = events \/ Appends(q, FailureSeq, "failure")
      BY <1>5 DEF Announce, AppendRow, Appends
    <2>2. /\ Row(q, FailureSeq, "failure").kind = "failure"
          /\ Row(q, FailureSeq, "failure").by = q
      BY DEF Row
    <2>3. known' = known /\ token' = token /\ billed' = billed
      BY <1>5 DEF Announce, stream
    <2>4. pc[q] = "announce" /\ pc' = [pc EXCEPT ![q] = "done"]
      BY <1>5 DEF Announce, Goto
    <2>5. q \notin billed
      BY <2>4 DEF IssuerInv
    <2> QED BY <1>1, <1>2, <2>1, <2>2, <2>3, <2>4, <2>5, AppendKeeps DEF IssuerInv
  <1>6. CASE Bill(q)
    <2>1. /\ events' = events /\ known' = known /\ token' = token
          /\ billed' = billed \/ billed' = billed \union {q}
      BY <1>6 DEF Bill, stream
    <2>2. pc[q] = "bill" /\ pc' = [pc EXCEPT ![q] = "done"]
      BY <1>6 DEF Bill, Goto
    <2> QED BY <1>1, <1>2, <2>1, <2>2 DEF IssuerInv
  <1>7. ASSUME ~EmitTurn(q), ~EmitFinal(q), ~Announce(q), ~Bill(q)
        PROVE  IssuerInv'
    <2>1. events' = events /\ known' = known /\ token' = token /\ billed' = billed
      BY <1>7 DEF Step, BurnToken, StartTask, Gather, NoSources, MarkGenerating,
                  Generate, AbandonDebate, Persist, Finish, PersistAgain,
                  FinishAgain, SetError, row, stream
    <2>2. pc[q] # "done" /\ pc[q] # "idle"
      BY <1>7 DEF Step, BurnToken, StartTask, Gather, NoSources, MarkGenerating,
                  Generate, AbandonDebate, Persist, Finish, PersistAgain,
                  FinishAgain, SetError
    <2>3. \E p : pc' = [pc EXCEPT ![q] = p]
      BY <1>7 DEF Step, BurnToken, StartTask, Gather, NoSources, MarkGenerating,
                  Generate, AbandonDebate, Persist, Finish, PersistAgain,
                  FinishAgain, SetError, Goto
    <2>4. \A r \in Requests : r # q => pc'[r] = pc[r]
      BY <1>2, <2>3
    <2> QED BY <1>2, <2>1, <2>2, <2>4, IssuerInvFrame
  <1> QED BY <1>3, <1>4, <1>5, <1>6, <1>7

\* Every step keeps the issuer's invariant.
LEMMA IssuerInvNext == TypeOK /\ IssuerInv /\ [Next]_vars => IssuerInv'
  <1> SUFFICES ASSUME TypeOK, IssuerInv, [Next]_vars PROVE IssuerInv'
    OBVIOUS
  <1>1. /\ Retries \subseteq Requests /\ Post \in Requests /\ Post \notin Retries
        /\ pc \in [Requests -> PCs] /\ token \in [Requests -> Requests \union {Nobody}]
    BY SessionAssumption DEF TypeOK, Requests
  <1>2. ASSUME NEW w \in Workers, CreateSession(w) PROVE IssuerInv'
    <2>1. pc[Post] = "idle" /\ \E p \in PCs : pc' = [pc EXCEPT ![Post] = p]
      BY <1>2, <1>1 DEF CreateSession, Goto, PCs, Handling
    <2>2. \A q \in Retries : pc'[q] = pc[q]
      BY <1>1, <2>1
    <2>3. \A q \in Requests : pc[q] = "done" => pc'[q] = "done"
      BY <1>1, <2>1
    <2> QED BY <1>2, <2>2, <2>3, IssuerInvFrame DEF CreateSession, stream
  <1>3. ASSUME NEW q \in Retries, NEW w \in Workers, NEW t \in known, CheckRetry(q, w, t)
        PROVE  IssuerInv'
    <2>1. /\ pc[q] = "idle" /\ \A r \in Requests : r # q => pc'[r] = pc[r]
          /\ token'[q] = t /\ \A r \in Requests : r # q => token'[r] = token[r]
          /\ events' = events /\ known' = known /\ billed' = billed
      BY <1>1, <1>3 DEF CheckRetry, Goto, stream
    <2>2. \A i \in DOMAIN events : events[i].by \in Requests
      <3>1. \A i \in DOMAIN events : events[i] \in Rows
        BY DEF TypeOK
      <3> QED BY <3>1 DEF Rows
    <2>3. billed \subseteq Requests
      BY DEF TypeOK
    <2> QED BY <1>1, <2>1, <2>2, <2>3 DEF IssuerInv
  <1>4. ASSUME NEW w \in Workers, BeginDrain(w) \/ Shutdown(w) \/ Crash(w)
        PROVE  IssuerInv'
    <2>1. events' = events /\ known' = known /\ token' = token /\ billed' = billed
      BY <1>4 DEF BeginDrain, Shutdown, MarkInterrupted, Exit, Crash, Stop, stream
    <2>2. \A q \in Requests : pc[q] \in {"done", "idle"} => pc'[q] = pc[q]
      BY <1>4 DEF BeginDrain, Shutdown, MarkInterrupted, Exit, Crash, Stop, Task, Working
    <2> QED BY <1>1, <2>1, <2>2, IssuerInvFrame
  <1>5. ASSUME NEW v \in Viewers, Subscribe(v) \/ Stream(v) \/ StreamEnds(v)
        PROVE  IssuerInv'
    <2>1. events' = events /\ token' = token /\ billed' = billed /\ pc' = pc
      BY <1>5 DEF Subscribe, Stream, StreamRows, StreamFinal, StreamEnds
    <2>2. \/ known' = known
          \/ \E i \in DOMAIN events : /\ events[i].kind = "failure"
                                      /\ known' = known \union {events[i].by}
      BY <1>5 DEF Subscribe, Stream, StreamRows, StreamFinal, StreamEnds, Unsent
    <2> QED BY <2>1, <2>2 DEF IssuerInv
  <1>6. CASE UNCHANGED vars
    BY <1>6 DEF vars, stream, IssuerInv
  <1> QED BY <1>2, <1>3, <1>4, <1>5, <1>6, IssuerInvStep DEF Next

\* In every reachable state a token was issued by a debate that is over, and
\* a retry that was accepted presents a token that some stream delivered.
THEOREM IssuerCorrect == Spec => []IssuerInv
  <1>1. Spec => []TypeOK
    BY TypeCorrect
  <1> QED BY <1>1, IssuerInvInit, IssuerInvNext, PTL DEF Spec

\* If two different requests were accepted and neither issued the token, one
\* token was redeemed twice.
LEMMA TwoAccepted ==
  ASSUME TypeOK, LogInv, IssuerInv, RedeemedOnce,
         NEW p \in Requests, NEW q \in Requests, p # q,
         pc[p] \in Accepted, pc[q] \in Accepted,
         \A i \in DOMAIN events : events[i].kind = "failure" =>
             events[i].by # p /\ events[i].by # q
  PROVE  FALSE
  <1>1. \A r \in Requests : pc[r] \in Accepted => pc[r] # "idle"
    BY DEF Accepted, Task, Working, Ended
  <1>2. \A s, t \in known : s = t
    BY DEF IssuerInv, LogInv
  <1>3. \A r \in Retries : pc[r] \in Accepted => token[r] \in known
    BY <1>1 DEF IssuerInv, Requests
  <1>4. \A r, s \in Retries : pc[r] \in Accepted /\ pc[s] \in Accepted => r = s
    BY <1>2, <1>3 DEF RedeemedOnce
  <1>5. ASSUME NEW r \in Retries, pc[r] \in Accepted, pc[Post] \in Accepted,
               \A i \in DOMAIN events : events[i].kind = "failure" =>
                   events[i].by # r /\ events[i].by # Post
        PROVE  FALSE
    <2>1. PICK i \in DOMAIN events : events[i].kind = "failure" /\ events[i].by = token[r]
      BY <1>3, <1>5 DEF IssuerInv
    <2>2. events[i].by \in Retries
      <3>1. events[i] \in Rows
        BY DEF TypeOK
      <3> QED BY <1>5, <2>1, <3>1 DEF Rows, Requests
    <2>3. pc[events[i].by] \in Accepted
      BY <2>1 DEF IssuerInv, Accepted, Ended
    <2> QED BY <1>4, <1>5, <2>1, <2>2, <2>3
  <1> QED BY <1>4, <1>5 DEF Requests

\* A client that redeems its token once never has two debates of the session
\* running at the same time.
THEOREM OneDebateAtATimeCorrect == Spec => []OneDebateAtATime
  <1>1. TypeOK /\ LogInv /\ IssuerInv => OneDebateAtATime
    <2> SUFFICES ASSUME TypeOK, LogInv, IssuerInv, RedeemedOnce,
                        NEW p \in Requests, NEW q \in Requests,
                        pc[p] \in Working, pc[q] \in Working, p # q
                 PROVE  FALSE
      BY DEF OneDebateAtATime
    <2>1. pc[p] \in Accepted /\ pc[q] \in Accepted
      BY DEF Accepted, Task
    <2>2. pc[p] # "done" /\ pc[q] # "done"
      BY DEF Working
    <2>3. \A i \in DOMAIN events : events[i].kind = "failure" =>
             events[i].by # p /\ events[i].by # q
      BY <2>2 DEF IssuerInv
    <2> QED BY <2>1, <2>3, TwoAccepted
  <1> QED BY <1>1, TypeCorrect, LogCorrect, IssuerCorrect, PTL
------------------------------------------------------------------------------
(* Where tokens come from.  The first retry needs a token, and only the     *)
(* original debate can have issued that one; there is no second token.      *)

OriginInv ==
    (\E q \in Retries : pc[q] # "idle")
        => \E i \in DOMAIN events : events[i].kind = "failure" /\ events[i].by = Post

\* A retry leaves its place only behind the failure row of the original.
LEMMA OriginInvNext ==
  TypeOK /\ LogInv /\ IssuerInv /\ OriginInv /\ [Next]_vars => OriginInv'
  <1> SUFFICES ASSUME TypeOK, LogInv, IssuerInv, OriginInv, [Next]_vars PROVE OriginInv'
    OBVIOUS
  <1> DEFINE Issued == \E i \in DOMAIN events :
                           events[i].kind = "failure" /\ events[i].by = Post
  <1>1. Issued => Issued'
    <2>1. CASE events' = events
      BY <2>1
    <2>2. ASSUME NEW q, NEW seq, NEW kind, Appends(q, seq, kind)
          PROVE  Issued => Issued'
      BY <2>2, AppendKeeps
    <2> QED BY <2>1, <2>2, LogStep
  <1>2. ASSUME \A q \in Retries : pc[q] = "idle" => pc'[q] = "idle" PROVE OriginInv'
    BY <1>1, <1>2 DEF OriginInv
  <1>3. Retries \subseteq Requests /\ pc \in [Requests -> PCs] /\ Post \notin Retries
    BY SessionAssumption DEF TypeOK, Requests
  <1>4. ASSUME NEW q \in Retries, NEW w \in Workers, NEW t \in known, CheckRetry(q, w, t)
        PROVE  OriginInv'
    <2>1. PICK i \in DOMAIN events : events[i].kind = "failure" /\ events[i].by = t
      BY DEF IssuerInv
    <2>2. pc[t] = "done"
      BY <2>1 DEF IssuerInv
    <2>3. t \in Requests
      BY DEF TypeOK
    <2>4. Issued
      BY <2>1, <2>2, <2>3 DEF OriginInv, Requests
    <2> QED BY <1>1, <2>4 DEF OriginInv
  <1>5. ASSUME NEW q \in Requests, Step(q)
        PROVE  \A r \in Retries : pc[r] = "idle" => pc'[r] = "idle"
    <2>1. pc[q] # "idle" /\ (pc' = pc \/ \E p : pc' = [pc EXCEPT ![q] = p])
      BY <1>5 DEF Step, BurnToken, StartTask, Gather, NoSources, MarkGenerating,
                  Generate, EmitTurn, EmitFinal, AbandonDebate, Persist, Finish,
                  PersistAgain, FinishAgain, Bill, SetError, Announce, Goto
    <2> QED BY <1>3, <2>1
  <1>6. ASSUME \/ \E w \in Workers : CreateSession(w) \/ BeginDrain(w) \/ Shutdown(w) \/ Crash(w)
               \/ \E v \in Viewers : Subscribe(v) \/ Stream(v) \/ StreamEnds(v)
               \/ UNCHANGED vars
        PROVE  \A r \in Retries : pc[r] = "idle" => pc'[r] = "idle"
    BY <1>3, <1>6 DEF CreateSession, BeginDrain, Shutdown, MarkInterrupted, Exit, Crash,
       Stop, Task, Working, Subscribe, Stream, StreamRows, StreamFinal, StreamEnds, vars, Goto
  <1> QED BY <1>2, <1>4, <1>5, <1>6 DEF Next

\* Every token of a session was issued by its original debate.
THEOREM OriginCorrect == Spec => []OriginInv
  <1>1. Init => OriginInv
    BY DEF Init, OriginInv, Requests
  <1> QED BY <1>1, TypeCorrect, LogCorrect, IssuerCorrect, OriginInvNext, PTL DEF Spec

\* The project pays for at most one debate if the token is redeemed once, and
\* however often it is, a session whose original was paid for is over.
THEOREM BilledOnceCorrect == Spec => []BilledOnce
  <1>1. TypeOK /\ LogInv /\ IssuerInv /\ OriginInv => BilledOnce
    <2> SUFFICES ASSUME TypeOK, LogInv, IssuerInv, OriginInv PROVE BilledOnce
      OBVIOUS
    <2>1. ASSUME RedeemedOnce, NEW p \in billed, NEW q \in billed, p # q
          PROVE  FALSE
      <3>1. pc[p] \in Accepted /\ pc[q] \in Accepted
        BY DEF IssuerInv, Accepted, Ended
      <3>2. \A i \in DOMAIN events : events[i].kind = "failure" =>
               events[i].by # p /\ events[i].by # q
        BY DEF IssuerInv
      <3>3. p \in Requests /\ q \in Requests
        BY DEF TypeOK
      <3> QED BY <2>1, <3>1, <3>2, <3>3, TwoAccepted
    <2>2. ASSUME Post \in billed
          PROVE  known = {} /\ \A q \in Retries : pc[q] = "idle"
      <3>1. \A q \in Retries : pc[q] = "idle"
        BY <2>2 DEF IssuerInv, OriginInv
      <3>2. ASSUME NEW t \in known PROVE FALSE
        <4>1. PICK i \in DOMAIN events : events[i].kind = "failure" /\ events[i].by = t
          BY DEF IssuerInv
        <4>2. pc[t] = "done" /\ t \notin billed
          BY <4>1 DEF IssuerInv
        <4>3. t \in Requests
          BY DEF TypeOK
        <4> QED BY <2>2, <3>1, <4>2, <4>3 DEF Requests
      <3> QED BY <3>1, <3>2
    <2> QED BY <2>1, <2>2 DEF BilledOnce
  <1> QED BY <1>1, TypeCorrect, LogCorrect, IssuerCorrect, OriginCorrect, PTL
------------------------------------------------------------------------------
(* Streams.  What a stream has sent is a prefix of an append-only log.      *)

Sent(v) == 1..lastId[v]

StreamInv ==
    \A v \in Viewers :
        /\ lastId[v] <= Len(events)
        /\ IF vpc[v] = "closed"
           THEN /\ lastId[v] # 0
                /\ events[lastId[v]].kind \in Finals
                /\ \A i \in 1..(lastId[v] - 1) : events[i].kind \notin Finals
           ELSE \A i \in Sent(v) : events[i].kind \notin Finals

\* No stream has sent anything.
LEMMA StreamInvInit == Init => StreamInv
  BY DEF Init, StreamInv, Sent

\* A poll keeps the final, if any, the last row its stream has sent.
LEMMA StreamInvViewer ==
  ASSUME TypeOK, StreamInv, NEW v \in Viewers, Subscribe(v) \/ Stream(v) \/ StreamEnds(v)
  PROVE  StreamInv'
  <1>1. /\ Len(events) \in Nat /\ DOMAIN events = 1..Len(events)
        /\ lastId \in [Viewers -> Nat] /\ DOMAIN vpc = Viewers
    BY DEF TypeOK
  <1>2. events' = events
    BY DEF Subscribe, Stream, StreamRows, StreamFinal, StreamEnds
  <1>3. \A u \in Viewers : u # v => vpc'[u] = vpc[u] /\ lastId'[u] = lastId[u]
    BY <1>1 DEF Subscribe, Stream, StreamRows, StreamFinal, StreamEnds
  <1>4. CASE Subscribe(v) \/ StreamEnds(v)
    <2>1. lastId' = lastId /\ vpc[v] # "closed" /\ vpc'[v] # "closed"
      BY <1>1, <1>4 DEF Subscribe, StreamEnds
    <2> QED BY <1>2, <1>3, <2>1 DEF StreamInv, Sent
  <1>5. CASE StreamRows(v)
    <2>1. vpc' = vpc /\ vpc[v] = "open" /\ lastId'[v] = Len(events)
      BY <1>1, <1>5 DEF StreamRows
    <2>2. \A i \in 1..Len(events) : events[i].kind \notin Finals
      <3>1. \A i \in Sent(v) : events[i].kind \notin Finals
        BY <2>1 DEF StreamInv
      <3>2. \A i \in 1..Len(events) : i > lastId[v] => events[i].kind \notin Finals
        BY <1>1, <1>5 DEF StreamRows, Unsent
      <3>3. \A i \in 1..Len(events) : i \in Sent(v) \/ i > lastId[v]
        BY <1>1 DEF Sent
      <3> QED BY <3>1, <3>2, <3>3
    <2> QED BY <1>1, <1>2, <1>3, <2>1, <2>2 DEF StreamInv, Sent
  <1>6. CASE StreamFinal(v)
    <2>1. PICK k \in Unsent(v) :
             /\ events[k].kind \in Finals
             /\ \A j \in Unsent(v) : j < k => events[j].kind \notin Finals
             /\ lastId' = [lastId EXCEPT ![v] = k]
      BY <1>6 DEF StreamFinal
    <2>2. k \in 1..Len(events) /\ k > lastId[v] /\ lastId[v] \in Nat
      BY <1>1, <2>1 DEF Unsent
    <2>3. vpc[v] = "open" /\ vpc'[v] = "closed" /\ lastId'[v] = k
      BY <1>1, <1>6, <2>1 DEF StreamFinal
    <2>4. \A i \in 1..(k - 1) : events[i].kind \notin Finals
      <3>1. \A i \in Sent(v) : events[i].kind \notin Finals
        BY <2>3 DEF StreamInv
      <3>2. \A i \in 1..(k - 1) : i \in Sent(v) \/ (i \in Unsent(v) /\ i < k)
        BY <1>1, <2>2 DEF Sent, Unsent
      <3> QED BY <2>1, <3>1, <3>2
    <2>5. k <= Len(events) /\ k # 0
      BY <2>2
    <2> QED BY <1>2, <1>3, <2>1, <2>3, <2>4, <2>5 DEF StreamInv, Sent
  <1> QED BY <1>4, <1>5, <1>6 DEF Stream

\* The log only grows, and the rows that are there stay.
LEMMA LogGrows ==
  ASSUME TypeOK, [Next]_vars
  PROVE  /\ Len(events') \in Nat /\ Len(events) <= Len(events')
         /\ \A i \in 1..Len(events) : events'[i] = events[i]
  <1>1. events \in Seq(Rows) /\ Len(events) \in Nat /\ DOMAIN events = 1..Len(events)
    BY DEF TypeOK
  <1>2. ASSUME NEW q, NEW seq, NEW kind, Appends(q, seq, kind)
        PROVE  /\ Len(events') \in Nat /\ Len(events) <= Len(events')
               /\ \A i \in 1..Len(events) : events'[i] = events[i]
    <2>1. events' = Append(events, Row(q, seq, kind))
      BY <1>2 DEF Appends
    <2> QED BY <1>1, <2>1
  <1>3. CASE events' = events
    BY <1>1, <1>3
  <1> QED BY <1>2, <1>3, LogStep

\* The log grows behind the streams, so every step keeps what they sent.
LEMMA StreamInvNext == TypeOK /\ StreamInv /\ [Next]_vars => StreamInv'
  <1> SUFFICES ASSUME TypeOK, StreamInv, [Next]_vars PROVE StreamInv'
    OBVIOUS
  <1>1. CASE \E v \in Viewers : Subscribe(v) \/ Stream(v) \/ StreamEnds(v)
    BY <1>1, StreamInvViewer
  <1>2. CASE vpc' = vpc /\ lastId' = lastId
    <2>1. /\ Len(events) \in Nat /\ Len(events') \in Nat /\ Len(events) <= Len(events')
          /\ \A i \in 1..Len(events) : events'[i] = events[i]
          /\ \A v \in Viewers : lastId[v] \in Nat /\ lastId[v] <= Len(events)
      BY LogGrows DEF TypeOK, StreamInv
    <2>2. \A v \in Viewers : /\ lastId'[v] <= Len(events')
                             /\ \A i \in Sent(v) : events'[i] = events[i]
                             /\ Sent(v)' = Sent(v)
      BY <1>2, <2>1 DEF Sent
    <2>3. \A v \in Viewers : lastId[v] # 0 =>
             lastId[v] \in Sent(v) /\ 1..(lastId[v] - 1) \subseteq Sent(v)
      BY <2>1 DEF Sent
    <2> QED BY <1>2, <2>2, <2>3 DEF StreamInv
  <1>3. ASSUME NEW q \in Requests, Step(q) PROVE vpc' = vpc /\ lastId' = lastId
    BY <1>3 DEF Step, BurnToken, StartTask, Gather, NoSources, MarkGenerating,
                Generate, EmitTurn, EmitFinal, AbandonDebate, Persist, Finish,
                PersistAgain, FinishAgain, Bill, SetError, Announce, stream
  <1>4. ASSUME NEW w \in Workers, BeginDrain(w) \/ Shutdown(w) \/ Crash(w)
        PROVE  vpc' = vpc /\ lastId' = lastId
    BY <1>4 DEF BeginDrain, Shutdown, MarkInterrupted, Exit, Crash, Stop, stream
  <1>5. CASE \/ \E w \in Workers : CreateSession(w)
             \/ \E q \in Retries, w \in Workers, t \in known : CheckRetry(q, w, t)
             \/ UNCHANGED vars
    BY <1>2, <1>5 DEF CreateSession, CheckRetry, stream, vars
  <1> QED BY <1>1, <1>2, <1>3, <1>4, <1>5 DEF Next

\* Every token that a stream delivered names the failure row at which all
\* streams close.
TokenInv ==
    \A t \in known : \E i \in DOMAIN events :
        /\ events[i].kind = "failure" /\ events[i].by = t
        /\ \A j \in 1..(i - 1) : events[j].kind \notin Finals

\* The log grows behind those rows, and a poll delivers no other token.
LEMMA TokenInvNext == TypeOK /\ StreamInv /\ TokenInv /\ [Next]_vars => TokenInv'
  <1> SUFFICES ASSUME TypeOK, StreamInv, TokenInv, [Next]_vars PROVE TokenInv'
    OBVIOUS
  <1>1. /\ Len(events) \in Nat /\ DOMAIN events = 1..Len(events)
        /\ Len(events') \in Nat /\ DOMAIN events' = 1..Len(events')
        /\ Len(events) <= Len(events')
        /\ \A i \in 1..Len(events) : events'[i] = events[i]
    BY LogGrows, NextType DEF TypeOK
  <1> DEFINE First(i) == \A j \in 1..(i - 1) : events[j].kind \notin Finals
  <1>2. ASSUME NEW t, NEW i \in DOMAIN events,
               events[i].kind = "failure", events[i].by = t, First(i)
        PROVE  \E k \in DOMAIN events' :
                  /\ events'[k].kind = "failure" /\ events'[k].by = t
                  /\ \A j \in 1..(k - 1) : events'[j].kind \notin Finals
    <2>1. i \in DOMAIN events' /\ events'[i] = events[i]
      BY <1>1
    <2>2. \A j \in 1..(i - 1) : events'[j] = events[j]
      BY <1>1
    <2> QED BY <1>2, <2>1, <2>2
  <1>3. ASSUME known' = known PROVE TokenInv'
    BY <1>2, <1>3 DEF TokenInv
  <1>4. ASSUME NEW v \in Viewers, StreamFinal(v) PROVE TokenInv'
    <2>1. PICK k \in Unsent(v) :
             /\ \A j \in Unsent(v) : j < k => events[j].kind \notin Finals
             /\ known' = known \union
                   (IF events[k].kind = "failure" THEN {events[k].by} ELSE {})
      BY <1>4 DEF StreamFinal
    <2>2. k \in DOMAIN events /\ First(k)
      <3>1. \A i \in Sent(v) : events[i].kind \notin Finals
        BY <1>4 DEF StreamFinal, StreamInv
      <3>2. k \in 1..Len(events) /\ lastId[v] \in Nat
        BY <1>1, <2>1 DEF Unsent, TypeOK
      <3>3. \A j \in 1..(k - 1) : j \in Sent(v) \/ (j \in Unsent(v) /\ j < k)
        BY <1>1, <3>2 DEF Sent, Unsent
      <3> QED BY <1>1, <2>1, <3>1, <3>2, <3>3
    <2> QED BY <1>2, <2>1, <2>2 DEF TokenInv
  <1>5. ASSUME NEW q \in Requests, Step(q) PROVE known' = known
    BY <1>5 DEF Step, BurnToken, StartTask, Gather, NoSources, MarkGenerating,
                Generate, EmitTurn, EmitFinal, AbandonDebate, Persist, Finish,
                PersistAgain, FinishAgain, Bill, SetError, Announce, stream
  <1>6. ASSUME NEW w \in Workers,
               CreateSession(w) \/ BeginDrain(w) \/ Shutdown(w) \/ Crash(w)
        PROVE  known' = known
    BY <1>6 DEF CreateSession, BeginDrain, Shutdown, MarkInterrupted, Exit, Crash,
                Stop, stream
  <1>7. ASSUME \/ \E v \in Viewers : Subscribe(v) \/ StreamRows(v) \/ StreamEnds(v)
               \/ \E q \in Retries, w \in Workers, t \in known : CheckRetry(q, w, t)
               \/ UNCHANGED vars
        PROVE  known' = known
    BY <1>7 DEF Subscribe, StreamRows, StreamEnds, CheckRetry, vars, stream
  <1> QED BY <1>3, <1>4, <1>5, <1>6, <1>7 DEF Next, Stream

\* Whenever a client subscribes, and however many debates write to the log,
\* the stream that a final row closes stops at the first final of the log,
\* and a retry token is only handed out there.
THEOREM StreamsEndAlikeCorrect == Spec => []StreamsEndAlike
  <1>1. StreamInv /\ TokenInv => StreamsEndAlike
    BY DEF StreamInv, TokenInv, StreamsEndAlike
  <1>2. Init => TokenInv
    BY DEF Init, TokenInv
  <1> QED BY <1>1, <1>2, TypeCorrect, StreamInvInit, StreamInvNext, TokenInvNext,
             PTL DEF Spec
------------------------------------------------------------------------------
(* Billing.  A debate is billed only behind the API's own set_result, which *)
(* must have landed, and no step ever clears the answer.                    *)

AnswerInv ==
    /\ billed # {} => result # Nobody
    /\ \A q \in Requests : pc[q] \in {"finishAgain", "bill"} => result # Nobody

\* Every step keeps a stored answer behind every debate about to be billed.
LEMMA AnswerInvNext == TypeOK /\ AnswerInv /\ [Next]_vars => AnswerInv'
  <1> SUFFICES ASSUME TypeOK, AnswerInv, [Next]_vars PROVE AnswerInv'
    OBVIOUS
  <1>1. pc \in [Requests -> PCs] /\ Nobody \notin Requests
    BY SessionAssumption DEF TypeOK
  <1>2. ASSUME NEW q \in Requests, Step(q) PROVE AnswerInv'
    <2>1. CASE Bill(q)
      BY <1>1, <2>1 DEF Bill, Goto, AnswerInv, row
    <2>2. CASE Persist(q) \/ PersistAgain(q)
      BY <1>1, <2>2 DEF Persist, PersistAgain, Goto, AnswerInv
    <2>3. ASSUME ~Bill(q), ~Persist(q), ~PersistAgain(q) PROVE AnswerInv'
      <3>1. result' = result /\ billed' = billed
        BY <1>2, <2>3 DEF Step, BurnToken, StartTask, Gather, NoSources,
           MarkGenerating, Generate, EmitTurn, EmitFinal, AbandonDebate, Finish,
           FinishAgain, SetError, Announce, row
      <3>2. \A r \in Requests : pc'[r] \in {"finishAgain", "bill"} =>
               pc[r] \in {"finishAgain", "bill"}
        BY <1>1, <1>2, <2>3 DEF Step, BurnToken, StartTask, Gather, NoSources,
           MarkGenerating, Generate, EmitTurn, EmitFinal, AbandonDebate, Finish,
           FinishAgain, SetError, Announce, Goto
      <3> QED BY <3>1, <3>2 DEF AnswerInv
    <2> QED BY <2>1, <2>2, <2>3
  <1>3. ASSUME NEW w \in Workers,
               CreateSession(w) \/ BeginDrain(w) \/ Shutdown(w) \/ Crash(w)
        PROVE  AnswerInv'
    <2>1. result' = result /\ billed' = billed
      BY <1>3 DEF CreateSession, BeginDrain, Shutdown, MarkInterrupted, Exit, Crash,
                  Stop, row
    <2>2. \A r \in Requests : pc'[r] \in {"finishAgain", "bill"} => pc'[r] = pc[r]
      BY <1>1, <1>3 DEF CreateSession, BeginDrain, Shutdown, MarkInterrupted, Exit,
                        Crash, Stop, Goto
    <2> QED BY <2>1, <2>2 DEF AnswerInv
  <1>4. ASSUME NEW q \in Retries, NEW w \in Workers, NEW t \in known, CheckRetry(q, w, t)
        PROVE  AnswerInv'
    <2>1. result' = result /\ billed' = billed
      BY <1>4 DEF CheckRetry, row
    <2>2. \A r \in Requests : pc'[r] \in {"finishAgain", "bill"} => pc'[r] = pc[r]
      BY <1>1, <1>4 DEF CheckRetry, Goto, Requests
    <2> QED BY <2>1, <2>2 DEF AnswerInv
  <1>5. ASSUME \/ UNCHANGED vars
               \/ \E v \in Viewers : Subscribe(v) \/ Stream(v) \/ StreamEnds(v)
        PROVE  AnswerInv'
    <2>1. result' = result /\ billed' = billed /\ pc' = pc
      BY <1>5 DEF vars, Subscribe, Stream, StreamRows, StreamFinal, StreamEnds, row
    <2> QED BY <2>1 DEF AnswerInv
  <1> QED BY <1>2, <1>3, <1>4, <1>5 DEF Next

\* Where a request is while the row is complete without an answer: it has yet
\* to write the answer again, or to write that it failed to.
Answering == {"persistAgain", "failing", "lost", "dead"}

CompleteInv ==
    status = "complete" /\ result = Nobody => \E q \in Requests : pc[q] \in Answering

\* A step of a request moves that request only.
LEMMA OthersStay ==
  ASSUME TypeOK, NEW q \in Requests, Step(q), NEW r \in Requests, r # q
  PROVE  pc'[r] = pc[r]
  BY DEF TypeOK, Step, BurnToken, StartTask, Gather, NoSources, MarkGenerating,
         Generate, EmitTurn, EmitFinal, AbandonDebate, Persist, Finish, PersistAgain,
         FinishAgain, Bill, SetError, Announce, Goto

\* A request keeps a complete row without an answer on its way to one.
LEMMA CompleteInvStep ==
  ASSUME TypeOK, AnswerInv, CompleteInv, NEW q \in Requests, Step(q)
  PROVE  CompleteInv'
  <1> SUFFICES ASSUME status' = "complete", result' = Nobody
               PROVE  \E r \in Requests : pc'[r] \in Answering
    BY DEF CompleteInv
  <1>1. pc \in [Requests -> PCs] /\ q # Nobody
    BY SessionAssumption DEF TypeOK
  <1>2. result = Nobody
    BY <1>1 DEF Step, BurnToken, StartTask, Gather, NoSources, MarkGenerating,
       Generate, EmitTurn, EmitFinal, AbandonDebate, Persist, Finish, PersistAgain,
       FinishAgain, Bill, SetError, Announce, row
  <1>3. pc[q] # "finishAgain"
    BY <1>2 DEF AnswerInv
  <1>4. CASE Finish(q) \/ PersistAgain(q) \/ SetError(q)
    BY <1>1, <1>4 DEF Finish, PersistAgain, SetError, Goto, SetStatus, Answering
  <1>5. ASSUME ~Finish(q), ~PersistAgain(q), ~SetError(q)
        PROVE  \E r \in Requests : pc'[r] \in Answering
    <2>1. status = "complete"
      BY <1>3, <1>5 DEF Step, BurnToken, StartTask, Gather, NoSources, MarkGenerating,
         Generate, EmitTurn, EmitFinal, AbandonDebate, Persist, FinishAgain, Bill,
         Announce, SetStatus, row
    <2>2. PICK r \in Requests : pc[r] \in Answering
      BY <1>2, <2>1 DEF CompleteInv
    <2>3. pc[q] \notin Answering
      BY <1>5 DEF Step, BurnToken, StartTask, Gather, NoSources, MarkGenerating,
         Generate, EmitTurn, EmitFinal, AbandonDebate, Persist, FinishAgain, Bill,
         Announce, Answering
    <2> QED BY <2>2, <2>3, OthersStay
  <1> QED BY <1>4, <1>5

\* ... and so does every step.
LEMMA CompleteInvNext ==
  TypeOK /\ AnswerInv /\ CompleteInv /\ [Next]_vars => CompleteInv'
  <1> SUFFICES ASSUME TypeOK, AnswerInv, CompleteInv, [Next]_vars PROVE CompleteInv'
    OBVIOUS
  <1>1. /\ pc \in [Requests -> PCs] /\ Retries \subseteq Requests /\ Post \in Requests
    BY DEF TypeOK, Requests
  <1>2. ASSUME status' # "complete" \/ status' = status, result' = result,
               \A r \in Requests : pc[r] \in Answering => pc'[r] \in Answering
        PROVE  CompleteInv'
    BY <1>2 DEF CompleteInv
  <1>3. ASSUME NEW w \in Workers, CreateSession(w) \/ BeginDrain(w) \/ Shutdown(w) \/ Crash(w)
        PROVE  CompleteInv'
    <2>1. (status' # "complete" \/ status' = status) /\ result' = result
      BY <1>3 DEF CreateSession, BeginDrain, Shutdown, MarkInterrupted, Exit, Crash,
                  Stop, row
    <2>2. \A r \in Requests : pc[r] \in Answering => pc'[r] \in Answering
      BY <1>1, <1>3 DEF CreateSession, BeginDrain, Shutdown, MarkInterrupted, Exit,
         Crash, Stop, Goto, Answering
    <2> QED BY <1>2, <2>1, <2>2
  <1>4. ASSUME NEW q \in Retries, NEW w \in Workers, NEW t \in known, CheckRetry(q, w, t)
        PROVE  CompleteInv'
    BY <1>1, <1>2, <1>4 DEF CheckRetry, Goto, Answering, row
  <1>5. ASSUME \/ UNCHANGED vars
               \/ \E v \in Viewers : Subscribe(v) \/ Stream(v) \/ StreamEnds(v)
        PROVE  CompleteInv'
    BY <1>2, <1>5 DEF vars, Subscribe, Stream, StreamRows, StreamFinal, StreamEnds, row
  <1> QED BY <1>3, <1>4, <1>5, CompleteInvStep DEF Next

\* The project is never charged for a session that has no answer to read, and
\* no complete session is left without one unless a worker stopped or the
\* write of the failure was lost.
THEOREM BilledForAnswerCorrect == Spec => []BilledForAnswer
  <1>1. Init => AnswerInv /\ CompleteInv
    BY DEF Init, AnswerInv, CompleteInv
  <1>2. AnswerInv /\ CompleteInv => BilledForAnswer
    BY DEF AnswerInv, CompleteInv, BilledForAnswer, Answering, Quiet, Task, Working
  <1> QED BY <1>1, <1>2, TypeCorrect, AnswerInvNext, CompleteInvNext, PTL DEF Spec
------------------------------------------------------------------------------
(* The paid answer.  If one retry alone presented the token, a second       *)
(* request beside the one that is charged for can only be the original,     *)
(* which is over.                                                           *)

\* Of two requests under way, with one retry, one is the original, which
\* ended uncharged.
LEMMA OtherIsPost ==
  ASSUME TypeOK, IssuerInv, OriginInv, PresentedOnce,
         NEW p \in Requests, NEW q \in Requests, p # q, pc[p] # "idle", pc[q] # "idle"
  PROVE  Post \in {p, q} /\ pc[Post] = "done" /\ Post \notin billed
  <1>1. Post \in {p, q} /\ \E r \in Retries : pc[r] # "idle"
    BY DEF PresentedOnce, Requests
  <1> QED BY <1>1 DEF OriginInv, IssuerInv

PaidInv ==
    PresentedOnce => \A q \in Requests : pc[q] = "bill" \/ q \in billed => status = "complete"

\* Once a debate is charged for, or is about to be, nothing changes the
\* status any more.
LEMMA PaidStatusStays ==
  ASSUME TypeOK, IssuerInv, OriginInv, PresentedOnce, [Next]_vars, status = "complete",
         NEW p \in Requests, pc[p] = "bill" \/ p \in billed
  PROVE  status' = status
  <1>1. pc[p] \in {"bill", "done"} /\ (p = Post => \A q \in Retries : pc[q] = "idle")
    <2>1. pc[p] \in {"bill", "done"}
      BY DEF IssuerInv
    <2> QED BY <2>1 DEF IssuerInv, OriginInv
  <1>2. ASSUME NEW q \in Requests, Step(q) PROVE status' = status
    <2>1. pc[q] # "idle" /\ pc[q] # "done"
      BY <1>2 DEF Step, BurnToken, StartTask, Gather, NoSources, MarkGenerating,
         Generate, EmitTurn, EmitFinal, AbandonDebate, Persist, Finish, PersistAgain,
         FinishAgain, Bill, SetError, Announce
    <2>2. CASE q = p
      BY <1>1, <1>2, <2>1, <2>2 DEF Step, BurnToken, StartTask, Gather, NoSources,
         MarkGenerating, Generate, EmitTurn, EmitFinal, AbandonDebate, Persist, Finish,
         PersistAgain, FinishAgain, Bill, SetError, Announce, row
    <2>3. CASE q # p
      <3>1. Post \in {p, q} /\ pc[Post] = "done" /\ Post \notin billed
        BY <1>1, <2>1, <2>3, OtherIsPost
      <3> QED BY <2>1, <3>1
    <2> QED BY <2>2, <2>3
  <1>3. ASSUME NEW w \in Workers, CreateSession(w) PROVE status' = status
    <2>1. pc[Post] = "idle"
      BY <1>3 DEF CreateSession
    <2>2. p \in Retries /\ pc[p] # "idle"
      BY <1>1, <2>1 DEF Requests
    <2>3. pc[Post] = "done"
      BY <2>2 DEF OriginInv, IssuerInv
    <2> QED BY <2>1, <2>3
  <1>4. ASSUME NEW w \in Workers, BeginDrain(w) \/ Shutdown(w) \/ Crash(w)
        PROVE  status' = status
    BY <1>4 DEF BeginDrain, Shutdown, MarkInterrupted, Exit, Crash, Stop, row, NonTerminal
  <1>5. ASSUME \/ \E q \in Retries, w \in Workers, t \in known : CheckRetry(q, w, t)
               \/ \E v \in Viewers : Subscribe(v) \/ Stream(v) \/ StreamEnds(v)
               \/ UNCHANGED vars
        PROVE  status' = status
    BY <1>5 DEF CheckRetry, Subscribe, Stream, StreamRows, StreamFinal, StreamEnds,
                vars, row
  <1> QED BY <1>2, <1>3, <1>4, <1>5 DEF Next

\* A request that has begun does not become idle again.
LEMMA BegunStays ==
  ASSUME TypeOK, [Next]_vars, NEW r \in Requests, pc[r] # "idle"
  PROVE  pc'[r] # "idle"
  <1>1. pc \in [Requests -> PCs] /\ Retries \subseteq Requests
    BY DEF TypeOK, Requests
  <1>2. ASSUME NEW q \in Requests, Step(q) PROVE pc'[r] # "idle"
    BY <1>1, <1>2 DEF Step, BurnToken, StartTask, Gather, NoSources, MarkGenerating,
       Generate, EmitTurn, EmitFinal, AbandonDebate, Persist, Finish, PersistAgain,
       FinishAgain, Bill, SetError, Announce, Goto
  <1>3. ASSUME \/ \E w \in Workers : CreateSession(w) \/ BeginDrain(w) \/ Shutdown(w) \/ Crash(w)
               \/ \E v \in Viewers : Subscribe(v) \/ Stream(v) \/ StreamEnds(v)
               \/ UNCHANGED vars
        PROVE  pc'[r] # "idle"
    BY <1>1, <1>3 DEF CreateSession, BeginDrain, Shutdown, MarkInterrupted, Exit, Crash,
       Stop, Subscribe, Stream, StreamRows, StreamFinal, StreamEnds, vars, Goto
  <1>4. ASSUME NEW q \in Retries, NEW w \in Workers, NEW t \in known, CheckRetry(q, w, t)
        PROVE  pc'[r] # "idle"
    BY <1>1, <1>4 DEF CheckRetry, Goto
  <1> QED BY <1>2, <1>3, <1>4 DEF Next

\* A debate comes to its charge, or is charged for, only on a complete row.
LEMMA PaidInvNext ==
  TypeOK /\ IssuerInv /\ OriginInv /\ PaidInv /\ [Next]_vars => PaidInv'
  <1> SUFFICES ASSUME TypeOK, IssuerInv, OriginInv, PaidInv, [Next]_vars, PresentedOnce',
                      NEW p \in Requests, pc'[p] = "bill" \/ p \in billed'
               PROVE  status' = "complete"
    BY DEF PaidInv
  <1>1. /\ pc \in [Requests -> PCs] /\ Retries \subseteq Requests /\ Post \in Requests
        /\ billed \subseteq Requests
    BY DEF TypeOK, Requests
  <1>2. PresentedOnce
    BY <1>1, BegunStays DEF PresentedOnce
  <1>3. CASE pc[p] = "bill" \/ p \in billed
    BY <1>2, <1>3, PaidStatusStays DEF PaidInv
  <1>4. ASSUME pc[p] # "bill", p \notin billed PROVE status' = "complete"
    <2>1. ASSUME NEW q \in Requests, Step(q) PROVE status' = "complete"
      BY <1>1, <1>4, <2>1 DEF Step, BurnToken, StartTask, Gather, NoSources,
         MarkGenerating, Generate, EmitTurn, EmitFinal, AbandonDebate, Persist, Finish,
         PersistAgain, FinishAgain, Bill, SetError, Announce, Goto, SetStatus
    <2>2. ASSUME \/ \E w \in Workers : CreateSession(w) \/ BeginDrain(w) \/ Shutdown(w) \/ Crash(w)
                 \/ \E v \in Viewers : Subscribe(v) \/ Stream(v) \/ StreamEnds(v)
                 \/ UNCHANGED vars
          PROVE  FALSE
      BY <1>1, <1>4, <2>2 DEF CreateSession, BeginDrain, Shutdown, MarkInterrupted, Exit,
         Crash, Stop, Subscribe, Stream, StreamRows, StreamFinal, StreamEnds, vars, Goto
    <2>3. ASSUME NEW q \in Retries, NEW w \in Workers, NEW t \in known, CheckRetry(q, w, t)
          PROVE  FALSE
      BY <1>1, <1>4, <2>3 DEF CheckRetry, Goto
    <2> QED BY <2>1, <2>2, <2>3 DEF Next
  <1> QED BY <1>3, <1>4

\* The answer a project has paid for is not replaced if the token was redeemed
\* once, and its status stays if only one retry ever presented the token.
THEOREM PaidAnswerStaysCorrect == Spec => PaidAnswerStays
  <1> DEFINE Stays == billed # {} => /\ RedeemedOnce => result' = result
                                     /\ PresentedOnce => status' = status
  <1>1. TypeOK /\ LogInv /\ IssuerInv /\ OriginInv /\ PaidInv /\ [Next]_vars => [Stays]_vars
    <2> SUFFICES ASSUME TypeOK, LogInv, IssuerInv, OriginInv, PaidInv, [Next]_vars,
                        NEW p \in billed
                 PROVE  /\ RedeemedOnce => result' = result
                        /\ PresentedOnce => status' = status
      OBVIOUS
    <2>1. p \in Requests /\ pc[p] = "done"
      BY DEF TypeOK, IssuerInv
    <2>2. PresentedOnce => status' = status
      BY <2>1, PaidStatusStays DEF PaidInv
    <2>3. ASSUME RedeemedOnce PROVE result' = result
      <3>1. ASSUME NEW q \in Requests, Persist(q) \/ PersistAgain(q) PROVE FALSE
        <4>1. pc[q] \in {"persist", "persistAgain"}
          BY <3>1 DEF Persist, PersistAgain
        <4>2. p # q /\ pc[p] \in Accepted /\ pc[q] \in Accepted
          BY <2>1, <4>1 DEF Accepted, Task, Working, Ended
        <4>3. \A i \in DOMAIN events : events[i].kind = "failure" =>
                 events[i].by # p /\ events[i].by # q
          BY <4>1 DEF IssuerInv
        <4> QED BY <2>1, <2>3, <4>2, <4>3, TwoAccepted
      <3>2. ASSUME NEW q \in Requests, Step(q) PROVE result' = result
        BY <3>1, <3>2 DEF Step, BurnToken, StartTask, Gather, NoSources,
           MarkGenerating, Generate, EmitTurn, EmitFinal, AbandonDebate, Finish,
           FinishAgain, Bill, SetError, Announce, row
      <3>3. ASSUME \/ \E w \in Workers : CreateSession(w) \/ BeginDrain(w) \/ Shutdown(w) \/ Crash(w)
                   \/ \E v \in Viewers : Subscribe(v) \/ Stream(v) \/ StreamEnds(v)
                   \/ \E q \in Retries, w \in Workers, t \in known : CheckRetry(q, w, t)
                   \/ UNCHANGED vars
            PROVE  result' = result
        BY <3>3 DEF CreateSession, BeginDrain, Shutdown, MarkInterrupted, Exit, Crash,
           Stop, Subscribe, Stream, StreamRows, StreamFinal, StreamEnds, CheckRetry, vars, row
      <3> QED BY <3>2, <3>3 DEF Next
    <2> QED BY <2>2, <2>3
  <1>2. Init => PaidInv
    BY DEF Init, PaidInv
  <1> QED BY <1>1, <1>2, TypeCorrect, LogCorrect, IssuerCorrect, OriginCorrect,
             PaidInvNext, PTL DEF Spec, PaidAnswerStays
------------------------------------------------------------------------------
(* Failures.  Between the write of a failure and the row that announces it  *)
(* the task is on its way, unless its worker stopped.  A row that is        *)
(* refused finds FailureSeq taken, which by LogInv a failure row did.       *)

HasFinal == \E i \in DOMAIN events : events[i].kind \in Finals

Telling == {"failing", "announce", "lost"}

FailureInv ==
    status = "failed" /\ tier = "pro" /\ faults = 0
        => HasFinal \/ \E q \in Requests : pc[q] \in Telling

\* Before the row exists nothing has failed.
LEMMA FailureInvInit == Init => FailureInv
  BY DEF Init, FailureInv

\* A final stays in the log.
LEMMA FinalStays ==
  ASSUME TypeOK, [Next]_vars, HasFinal
  PROVE  HasFinal'
  <1>1. CASE events' = events
    BY <1>1 DEF HasFinal
  <1>2. ASSUME NEW q, NEW seq, NEW kind, Appends(q, seq, kind)
        PROVE  HasFinal'
    BY <1>2, AppendKeeps DEF HasFinal
  <1> QED BY <1>1, <1>2, LogStep

\* The step of a task either goes on telling of its failure or has a final
\* in the log.
LEMMA FailureInvStep ==
  ASSUME TypeOK, LogInv, FailureInv, NEW q \in Requests, Step(q)
  PROVE  FailureInv'
  <1> SUFFICES ASSUME status' = "failed", tier' = "pro", faults' = 0
               PROVE  HasFinal' \/ \E r \in Requests : pc'[r] \in Telling
    BY DEF FailureInv
  <1>1. [Next]_vars
    BY DEF Next
  <1>2. /\ pc \in [Requests -> PCs] /\ faults \in Nat /\ tier = "pro"
        /\ \A f \in Nat : f + 1 # 0
    BY SessionAssumption DEF TypeOK, Step, BurnToken, StartTask, Gather, NoSources,
       MarkGenerating, Generate, EmitTurn, EmitFinal, AbandonDebate, Persist, Finish,
       PersistAgain, FinishAgain, Bill, SetError, Announce
  <1>3. ~Fails
    BY <1>2 DEF Fails
  <1>4. CASE NoSources(q) \/ SetError(q)
    BY <1>2, <1>3, <1>4 DEF NoSources, SetError, Goto, Telling
  <1>5. CASE Announce(q)
    <2>1. CASE SeqTaken(FailureSeq) /\ events' = events
      <3>1. HasFinal
        BY <2>1 DEF SeqTaken, LogInv, HasFinal, Finals
      <3> QED BY <1>1, <3>1, FinalStays
    <2>2. CASE Appends(q, FailureSeq, "failure")
      <3>1. Row(q, FailureSeq, "failure").kind \in Finals
        BY DEF Row, Finals
      <3> QED BY <2>2, <3>1, AppendKeeps DEF HasFinal
    <2> QED BY <1>3, <1>5, <2>1, <2>2 DEF Announce, AppendRow, Appends
  <1>6. ASSUME ~(NoSources(q) \/ SetError(q)), ~Announce(q)
        PROVE  HasFinal' \/ \E r \in Requests : pc'[r] \in Telling
    <2>1. status = "failed" /\ faults = 0
      BY <1>2, <1>3, <1>6 DEF Step, BurnToken, StartTask, Gather, MarkGenerating,
         Generate, EmitTurn, EmitFinal, AbandonDebate, Persist, Finish, PersistAgain,
         FinishAgain, Bill, AppendRow, Lands, SetStatus, row
    <2>2. CASE HasFinal
      BY <1>1, <2>2, FinalStays
    <2>3. ASSUME NEW r \in Requests, pc[r] \in Telling
          PROVE  pc'[r] \in Telling
      BY <1>2, <1>6, <2>3 DEF Step, BurnToken, StartTask, Gather, MarkGenerating,
         Generate, EmitTurn, EmitFinal, AbandonDebate, Persist, Finish, PersistAgain,
         FinishAgain, Bill, Goto, Telling
    <2> QED BY <1>2, <2>1, <2>2, <2>3 DEF FailureInv
  <1> QED BY <1>4, <1>5, <1>6

\* Every step keeps a failure on its way to the log or in it.
LEMMA FailureInvNext == TypeOK /\ LogInv /\ FailureInv /\ [Next]_vars => FailureInv'
  <1> SUFFICES ASSUME TypeOK, LogInv, FailureInv, [Next]_vars PROVE FailureInv'
    OBVIOUS
  <1>1. pc \in [Requests -> PCs] /\ faults \in Nat /\ \A f \in Nat : f + 1 # 0
    BY SessionAssumption DEF TypeOK
  <1>2. ASSUME status' = status \/ status' # "failed", tier' = tier,
               faults' = 0 => faults = 0,
               \A q \in Requests : pc[q] \in Telling => pc'[q] \in Telling
        PROVE  FailureInv'
    BY <1>2, FinalStays DEF FailureInv
  <1>3. ASSUME NEW w \in Workers,
               CreateSession(w) \/ BeginDrain(w) \/ Shutdown(w) \/ Crash(w)
        PROVE  FailureInv'
    <2>1. /\ status' = status \/ status' # "failed"
          /\ tier' = tier
          /\ faults' = 0 => faults = 0
      BY <1>1, <1>3 DEF CreateSession, BeginDrain, Shutdown, MarkInterrupted, Exit,
                        Crash, Stop, row, Lands, Fails
    <2>2. \A q \in Requests : pc[q] \in Telling => pc'[q] \in Telling
      BY <1>1, <1>3 DEF CreateSession, BeginDrain, Shutdown, MarkInterrupted, Exit,
                        Crash, Stop, Goto, Telling
    <2> QED BY <1>2, <2>1, <2>2
  <1>4. ASSUME NEW q \in Retries, NEW w \in Workers, NEW t \in known, CheckRetry(q, w, t)
        PROVE  FailureInv'
    <2>1. /\ status' = status /\ tier' = tier /\ faults' = faults
          /\ \A r \in Requests : pc[r] \in Telling => pc'[r] \in Telling
      BY <1>1, <1>4 DEF CheckRetry, Goto, Telling, row
    <2> QED BY <1>2, <2>1
  <1>5. ASSUME \/ UNCHANGED vars
               \/ \E v \in Viewers : Subscribe(v) \/ Stream(v) \/ StreamEnds(v)
        PROVE  FailureInv'
    <2>1. status' = status /\ tier' = tier /\ faults' = faults /\ pc' = pc
      BY <1>5 DEF vars, Subscribe, Stream, StreamRows, StreamFinal, StreamEnds, row
    <2> QED BY <1>2, <2>1
  <1> QED BY <1>3, <1>4, <1>5, FailureInvStep DEF Next

\* A pro session that is failed when nothing runs any more has a final row,
\* so that every stream of it ends, if no store call was lost and no worker
\* stopped: for any retries that ran beside each other.
THEOREM FailureReachesStreamCorrect == Spec => []FailureReachesStream
  <1>1. FailureInv => FailureReachesStream
    BY DEF FailureInv, FailureReachesStream, Telling, HasFinal, Quiet, Task, Working
  <1> QED BY <1>1, TypeCorrect, LogCorrect, FailureInvInit, FailureInvNext, PTL DEF Spec
------------------------------------------------------------------------------
(* The session settles: the two halves of SessionSettles that are safety.   *)
(* Every step of a request brings it nearer its end, and when all are at    *)
(* their end the row is terminal or somebody was cut off.                   *)

\* The steps a request can take at most from each place, turns apart.
Left == [p \in PCs |->
    CASE p = "idle" -> 15 [] p = "checked" -> 14 [] p = "flipped" -> 13
      [] p = "gather" -> 12 [] p = "noSources" -> 11 [] p = "ready" -> 10
      [] p = "generate" -> 9 [] p = "debate" -> 8 [] p = "persist" -> 7
      [] p = "finish" -> 6 [] p = "persistAgain" -> 5 [] p = "finishAgain" -> 4
      [] p = "bill" -> 3 [] p = "failing" -> 2 [] p = "announce" -> 1
      [] OTHER -> 0]
StepsLeft(q) == Left[pc[q]] + (MaxTurns - turn[q])

\* Whatever fails on the way, every step that moves a request leaves it fewer
\* steps, so that each ends, and no step of one gives another more to do.
TasksWindDown ==
    [][\A q \in Requests :
          <<pc[q], turn[q]>>' # <<pc[q], turn[q]>> => StepsLeft(q)' < StepsLeft(q)]_vars

\* What no request will finish any more was cut off, lost with its worker, or
\* died while it recorded its failure.
NothingAbandoned ==
    Quiet /\ status \in NonTerminal
        => \E q \in Requests : pc[q] \in {"lost", "dead", "cutOff"}

\* Where a request is that answers for a row still in progress.
Driving == {"flipped", "gather", "noSources", "ready", "generate", "debate",
            "persist", "finish", "failing", "lost", "dead", "cutOff"}

SettleInv == status \in NonTerminal => \E q \in Requests : pc[q] \in Driving

\* A request that moves on from a row in progress leaves it to itself, or
\* leaves it terminal.
LEMMA SettleInvStep ==
  ASSUME TypeOK, SettleInv, NEW q \in Requests, Step(q)
  PROVE  SettleInv'
  <1> SUFFICES ASSUME status' \in NonTerminal
               PROVE  \E r \in Requests : pc'[r] \in Driving
    BY DEF SettleInv
  <1>1. pc \in [Requests -> PCs]
    BY DEF TypeOK
  <1>2. CASE pc'[q] \in Driving
    BY <1>2
  <1>3. ASSUME pc'[q] \notin Driving
        PROVE  \E r \in Requests : pc'[r] \in Driving
    <2>1. status' = status
      BY <1>1, <1>3 DEF Step, BurnToken, StartTask, Gather, NoSources, MarkGenerating,
         Generate, EmitTurn, EmitFinal, AbandonDebate, Persist, Finish, PersistAgain,
         FinishAgain, Bill, SetError, Announce, Goto, SetStatus, Driving, NonTerminal, row
    <2>2. pc[q] \notin Driving
      BY <1>1, <1>3 DEF Step, BurnToken, StartTask, Gather, NoSources, MarkGenerating,
         Generate, EmitTurn, EmitFinal, AbandonDebate, Persist, Finish, PersistAgain,
         FinishAgain, Bill, SetError, Announce, Goto, SetStatus, Driving, NonTerminal
    <2>3. PICK r \in Requests : pc[r] \in Driving
      BY <2>1 DEF SettleInv
    <2> QED BY <2>2, <2>3, OthersStay
  <1> QED BY <1>2, <1>3

\* Every step keeps somebody answering for a row in progress.
LEMMA SettleInvNext == TypeOK /\ SettleInv /\ [Next]_vars => SettleInv'
  <1> SUFFICES ASSUME TypeOK, SettleInv, [Next]_vars PROVE SettleInv'
    OBVIOUS
  <1>1. /\ pc \in [Requests -> PCs] /\ Retries \subseteq Requests /\ Post \in Requests
    BY DEF TypeOK, Requests
  <1>2. ASSUME status' \notin NonTerminal \/ status' = status,
               \A r \in Requests : pc[r] \in Driving => pc'[r] \in Driving
        PROVE  SettleInv'
    BY <1>2 DEF SettleInv
  <1>3. ASSUME NEW w \in Workers, CreateSession(w) PROVE SettleInv'
    <2>1. CASE status' = status
      <3>1. \A r \in Requests : pc[r] \in Driving => pc'[r] \in Driving
        BY <1>1, <1>3 DEF CreateSession, Goto, Driving
      <3> QED BY <1>2, <2>1, <3>1
    <2>2. CASE status' # status
      BY <1>1, <1>3, <2>2 DEF CreateSession, Goto, Driving, SettleInv
    <2> QED BY <2>1, <2>2
  <1>4. ASSUME NEW w \in Workers, BeginDrain(w) \/ Shutdown(w) \/ Crash(w)
        PROVE  SettleInv'
    <2>1. status' \notin NonTerminal \/ status' = status
      BY <1>4 DEF BeginDrain, Shutdown, MarkInterrupted, Exit, Crash, Stop, row, NonTerminal
    <2>2. \A r \in Requests : pc[r] \in Driving => pc'[r] \in Driving
      BY <1>1, <1>4 DEF BeginDrain, Shutdown, MarkInterrupted, Exit, Crash, Stop, Driving,
                        Task, Working
    <2> QED BY <1>2, <2>1, <2>2
  <1>5. ASSUME NEW q \in Retries, NEW w \in Workers, NEW t \in known, CheckRetry(q, w, t)
        PROVE  SettleInv'
    BY <1>1, <1>2, <1>5 DEF CheckRetry, Goto, Driving, row
  <1>6. ASSUME \/ UNCHANGED vars
               \/ \E v \in Viewers : Subscribe(v) \/ Stream(v) \/ StreamEnds(v)
        PROVE  SettleInv'
    BY <1>2, <1>6 DEF vars, Subscribe, Stream, StreamRows, StreamFinal, StreamEnds, row
  <1> QED BY <1>3, <1>4, <1>5, <1>6, SettleInvStep DEF Next

\* A row that is in progress when nothing runs any more was cut off, lost or
\* left by a task that died in its error handler: there is no other way, for
\* any retries, crashes and faults.
THEOREM NothingAbandonedCorrect == Spec => []NothingAbandoned
  <1>1. Init => SettleInv
    BY DEF Init, SettleInv, NonTerminal
  <1>2. SettleInv => NothingAbandoned
    BY DEF SettleInv, NothingAbandoned, Driving, Quiet, Handling, Task, Working
  <1> QED BY <1>1, <1>2, TypeCorrect, SettleInvNext, PTL DEF Spec

\* The table of Left, place by place.
LEMMA LeftValues ==
  /\ Left["idle"] = 15 /\ Left["checked"] = 14 /\ Left["flipped"] = 13
  /\ Left["gather"] = 12 /\ Left["noSources"] = 11 /\ Left["ready"] = 10
  /\ Left["generate"] = 9 /\ Left["debate"] = 8 /\ Left["persist"] = 7
  /\ Left["finish"] = 6 /\ Left["persistAgain"] = 5 /\ Left["finishAgain"] = 4
  /\ Left["bill"] = 3 /\ Left["failing"] = 2 /\ Left["announce"] = 1
  /\ Left["refused"] = 0 /\ Left["cutOff"] = 0 /\ Left["done"] = 0
  /\ Left["dead"] = 0 /\ Left["lost"] = 0
  /\ Left \in [PCs -> 0..15]
  BY DEF Left, PCs, Handling, Task, Working, Ended

\* A step that moves a request down the table, or keeps it and adds a turn.
LEMMA Nearer ==
  ASSUME TypeOK, TypeOK', NEW q \in Requests,
         \/ Left[pc'[q]] < Left[pc[q]] /\ turn'[q] = turn[q]
         \/ pc'[q] = pc[q] /\ turn'[q] = turn[q] + 1
  PROVE  StepsLeft(q)' < StepsLeft(q)
  <1>1. /\ pc[q] \in PCs /\ pc'[q] \in PCs
        /\ turn[q] \in 0..MaxTurns /\ turn'[q] \in 0..MaxTurns
    BY DEF TypeOK
  <1>2. Left[pc[q]] \in Nat /\ Left[pc'[q]] \in Nat
    BY <1>1, LeftValues
  <1> QED BY <1>1, <1>2, SessionAssumption DEF StepsLeft

\* Every request comes to its end: each step of its own or of its worker only
\* shortens the way, for any number of them and any faults.
THEOREM TasksWindDownCorrect == Spec => TasksWindDown
  <1> DEFINE Moved(r) == <<pc[r], turn[r]>>' # <<pc[r], turn[r]>>
             Down(r) == \/ Left[pc'[r]] < Left[pc[r]] /\ turn'[r] = turn[r]
                        \/ pc'[r] = pc[r] /\ turn'[r] = turn[r] + 1
  <1>1. ASSUME TypeOK, Next, NEW r \in Requests, Moved(r) PROVE Down(r)
    <2>1. /\ pc \in [Requests -> PCs] /\ turn \in [Requests -> 0..MaxTurns]
          /\ Retries \subseteq Requests /\ Post \in Requests
      BY <1>1 DEF TypeOK, Requests
    <2>2. ASSUME NEW q \in Requests, Step(q) PROVE Down(r)
      <3>1. q = r
        <4>1. q # r => turn'[r] = turn[r]
          BY <2>1, <2>2 DEF Step, BurnToken, StartTask, Gather, NoSources,
             MarkGenerating, Generate, EmitTurn, EmitFinal, AbandonDebate, Persist,
             Finish, PersistAgain, FinishAgain, Bill, SetError, Announce
        <4> QED BY <1>1, <2>2, <4>1, OthersStay
      <3>2. CASE EmitTurn(q)
        BY <2>1, <3>1, <3>2 DEF EmitTurn
      <3>3. CASE \/ BurnToken(q) \/ StartTask(q) \/ Gather(q) \/ NoSources(q)
                 \/ MarkGenerating(q) \/ Generate(q)
        BY <2>1, <3>1, <3>3, LeftValues DEF BurnToken, StartTask, Gather, NoSources,
           MarkGenerating, Generate, Goto
      <3>4. CASE \/ EmitFinal(q) \/ AbandonDebate(q) \/ Persist(q) \/ Finish(q)
                 \/ PersistAgain(q) \/ FinishAgain(q)
        BY <2>1, <3>1, <3>4, LeftValues DEF EmitFinal, AbandonDebate, Persist, Finish,
           PersistAgain, FinishAgain, Goto
      <3>5. CASE Bill(q) \/ SetError(q) \/ Announce(q)
        BY <2>1, <3>1, <3>5, LeftValues DEF Bill, SetError, Announce, Goto
      <3> QED BY <2>2, <3>2, <3>3, <3>4, <3>5 DEF Step
    <2>3. ASSUME NEW w \in Workers, CreateSession(w) PROVE Down(r)
      BY <1>1, <2>1, <2>3, LeftValues DEF CreateSession, Goto
    <2>4. ASSUME NEW q \in Retries, NEW w \in Workers, NEW t \in known, CheckRetry(q, w, t)
          PROVE  Down(r)
      BY <1>1, <2>1, <2>4, LeftValues DEF CheckRetry, Goto
    <2>5. ASSUME NEW w \in Workers, NEW how, Stop(w, how) PROVE Down(r)
      BY <1>1, <2>1, <2>5, LeftValues DEF Stop, Task, Working
    <2>6. ASSUME \/ \E w \in Workers : BeginDrain(w) \/ MarkInterrupted(w)
                 \/ \E v \in Viewers : Subscribe(v) \/ Stream(v) \/ StreamEnds(v)
          PROVE  Down(r)
      BY <1>1, <2>6 DEF BeginDrain, MarkInterrupted, Subscribe, Stream, StreamRows,
                        StreamFinal, StreamEnds
    <2> QED BY <1>1, <2>2, <2>3, <2>4, <2>5, <2>6 DEF Next, Shutdown, Exit, Crash
  <1>2. TypeOK /\ [Next]_vars
          => [\A q \in Requests : Moved(q) => StepsLeft(q)' < StepsLeft(q)]_vars
    BY <1>1, NextType, Nearer
  <1> QED BY <1>2, TypeCorrect, PTL DEF Spec, TasksWindDown
=============================================================================
