------------------------------- MODULE Oracle -------------------------------
(***************************************************************************)
(* The verdict oracle of a trade agent: OracleWrapper.get_verdict, which   *)
(* answers from a cache or pays for a panel call, under a cap on what the  *)
(* agent spends in 24 hours, a limit on how often a trigger may fire, and  *)
(* a lock.  The calls of one process share a wrapper, that is a lock and   *)
(* the memory of what fired; the cache, the record of what was spent and   *)
(* the cap are the agent's.  Every await is a step.                        *)
(*                                                                         *)
(* What is spent is recorded by the server, and the wrapper reads the      *)
(* record: a charge is recorded under the name of the agent or it is not   *)
(* (a write that fails, a caller that does not pass the name on), and a    *)
(* lookup that fails counts as nothing spent.                              *)
(***************************************************************************)
EXTENDS Integers, FiniteSets

CONSTANTS
    Callers,            \* concurrent calls of get_verdict
    Wrapper,            \* the wrapper each caller uses
    Forced,             \* callers that pass force_refresh
    Limited,            \* callers whose trigger has a ceiling
    Ideas, None,
    Cap, Prices,        \* the daily cap and what a panel call costs
    MaxPrice,
    MaxGlitches,        \* bound: lookups of the record that fail
    MaxUnrecorded       \* bound: charges that miss the record

ASSUME OracleAssumption ==
    /\ IsFiniteSet(Callers)
    /\ Wrapper \in [Callers -> Callers]
    /\ Forced \subseteq Callers /\ Limited \subseteq Callers
    /\ None \notin Ideas
    /\ Cap \in Nat \ {0} /\ MaxPrice \in Nat /\ Prices \subseteq 1..MaxPrice
    /\ MaxGlitches \in Nat /\ MaxUnrecorded \in Nat

VARIABLES
    at, what,           \* where each call is, and the idea it is about
    cached,             \* ideas with a fresh verdict
    fired,              \* wrappers whose limited trigger fired within its ceiling
    ledger, hidden,     \* charged in the last 24 hours: recorded, and not
    overtaken,          \* calls that went for an idea beside another one
    lapped,             \* limited calls that passed the ceiling beside another one
    glitches, unrecorded

call == <<at, what>>
money == <<ledger, hidden, unrecorded>>
ghosts == <<overtaken, lapped>>
vars == <<call, cached, fired, money, ghosts, glitches>>

Init ==
    /\ at = [c \in Callers |-> "idle"]
    /\ what = [c \in Callers |-> None]
    /\ cached = {} /\ fired = {}
    /\ ledger = 0 /\ hidden = 0
    /\ overtaken = {} /\ lapped = {}
    /\ glitches = 0 /\ unrecorded = 0

Goto(c, p) == at' = [at EXCEPT ![c] = p]
\* Variant: a call that is over keeps its idea.
ReturnStale(c) == Goto(c, "idle") /\ UNCHANGED what
Return(c) == Goto(c, "idle") /\ what' = [what EXCEPT ![c] = None]
Glitch == glitches < MaxGlitches /\ glitches' = glitches + 1

\* The calls of c's process.
Peers(c) == {d \in Callers \ {c} : Wrapper[d] = Wrapper[c]}
Holding == {"call", "reply"}
------------------------------------------------------------------------------
(* Before the charge.                                                       *)

\* Unless it is forced, a call is answered from the cache if it can be.
Ask(c, i) ==
    /\ at[c] = "idle"
    /\ c \in Forced \/ i \notin cached
    /\ Goto(c, "rate")
    /\ what' = [what EXCEPT ![c] = i]
    /\ UNCHANGED <<cached, fired, money, ghosts, glitches>>

Beside(c) == {d \in Peers(c) \cap Limited : at[d] \notin {"idle", "rate"}}
Pass(c) ==
    /\ Goto(c, "cap") /\ UNCHANGED what
    /\ lapped' = IF c \in Limited /\ Beside(c) # {}
                 THEN lapped \union Beside(c) \union {c} ELSE lapped \ {c}

\* Variant: the trigger has no ceiling.
RateOpen(c) ==
    /\ at[c] = "rate" /\ Pass(c)
    /\ UNCHANGED <<cached, fired, money, overtaken, glitches>>

\* The ceiling of the trigger, against the last call that was answered.
Rate(c) ==
    /\ at[c] = "rate"
    /\ IF c \in Limited /\ Wrapper[c] \in fired
       THEN Return(c) /\ UNCHANGED lapped
       ELSE Pass(c)
    /\ UNCHANGED <<cached, fired, money, overtaken, glitches>>

\* Variant: the cap is compared with >.
CapLate(c) ==
    /\ at[c] = "cap"
    /\ \/ ledger > Cap /\ Return(c) /\ UNCHANGED glitches
       \/ ledger <= Cap /\ Goto(c, "lock") /\ UNCHANGED <<what, glitches>>
       \/ Glitch /\ Goto(c, "lock") /\ UNCHANGED what
    /\ UNCHANGED <<cached, fired, money, ghosts>>

\* What was recorded in the last 24 hours, against the cap: fails open.
CapCheck(c) ==
    /\ at[c] = "cap"
    /\ \/ ledger >= Cap /\ Return(c) /\ UNCHANGED glitches
       \/ ledger < Cap /\ Goto(c, "lock") /\ UNCHANGED <<what, glitches>>
       \/ Glitch /\ Goto(c, "lock") /\ UNCHANGED what
    /\ UNCHANGED <<cached, fired, money, ghosts>>
------------------------------------------------------------------------------
(* Under the lock.                                                          *)

\* The calls that are paying for an idea, or have paid and not cached it.
Paying(i) == {d \in Callers : what[d] = i /\ at[d] \in Holding \union {"store"}}

Acquire(c) ==
    /\ at[c] = "lock"
    /\ \A d \in Peers(c) : at[d] \notin Holding
    /\ Goto(c, "call")
    /\ overtaken' = IF Paying(what[c]) = {} THEN overtaken \ {c}
                    ELSE overtaken \union Paying(what[c]) \union {c}
    /\ UNCHANGED <<what, cached, fired, money, lapped, glitches>>

\* Variant: the cache is not looked at again under the lock.
LockBlind(c) == Acquire(c)

\* A call that was not forced looks once more whether another one has paid.
Lock(c) ==
    \/ (c \in Forced \/ what[c] \notin cached) /\ Acquire(c)
    \/ /\ at[c] = "lock" /\ c \notin Forced /\ what[c] \in cached
       /\ \A d \in Peers(c) : at[d] \notin Holding
       /\ Return(c)
       /\ UNCHANGED <<cached, fired, money, ghosts, glitches>>

\* The panel answers and the server charges.
Serve(c) ==
    /\ at[c] = "call"
    /\ Goto(c, "reply")
    /\ \E p \in Prices :
         \/ ledger' = ledger + p /\ UNCHANGED <<hidden, unrecorded>>
         \/ /\ unrecorded < MaxUnrecorded /\ unrecorded' = unrecorded + 1
            /\ hidden' = hidden + p /\ UNCHANGED ledger
    /\ UNCHANGED <<what, cached, fired, ghosts, glitches>>

\* The call is refused, five times over when for a rate limit, or its answer
\* is lost on the way: the error releases the lock.
Fail(c) ==
    /\ at[c] \in Holding
    /\ Return(c)
    /\ UNCHANGED <<cached, fired, money, ghosts, glitches>>

Reply(c) ==
    /\ at[c] = "reply"
    /\ Goto(c, "store")
    /\ UNCHANGED <<what, cached, fired, money, ghosts, glitches>>
------------------------------------------------------------------------------
(* After the lock.                                                          *)

\* The verdict is cached and the trigger marked: neither, if the write fails.
Store(c) ==
    /\ at[c] = "store"
    /\ \/ /\ cached' = cached \union {what[c]}
          /\ fired' = IF c \in Limited THEN fired \union {Wrapper[c]} ELSE fired
       \/ UNCHANGED <<cached, fired>>
    /\ Return(c)
    /\ UNCHANGED <<money, ghosts, glitches>>

\* A verdict is too old, a ceiling is over, a charge is a day old.
Age ==
    /\ \/ \E i \in cached : cached' = cached \ {i} /\ UNCHANGED <<fired, ledger, hidden>>
       \/ \E w \in fired : fired' = fired \ {w} /\ UNCHANGED <<cached, ledger, hidden>>
       \/ \E p \in Prices :
            /\ \/ p <= ledger /\ ledger' = ledger - p /\ UNCHANGED hidden
               \/ p <= hidden /\ hidden' = hidden - p /\ UNCHANGED ledger
            /\ UNCHANGED <<cached, fired>>
    /\ UNCHANGED <<call, ghosts, glitches, unrecorded>>
------------------------------------------------------------------------------
Next ==
    \/ \E c \in Callers : \E i \in Ideas : Ask(c, i)
    \/ \E c \in Callers :
          Rate(c) \/ CapCheck(c) \/ Lock(c) \/ Serve(c) \/ Fail(c) \/ Reply(c) \/ Store(c)
    \/ Age

Spec == Init /\ [][Next]_vars
------------------------------------------------------------------------------
(* Properties.                                                              *)

\* The values each variable ranges over.
TypeOK ==
    /\ at \in [Callers -> {"idle", "rate", "cap", "lock", "call", "reply", "store"}]
    /\ what \in [Callers -> Ideas \union {None}]
    /\ \A c \in Callers : at[c] = "idle" <=> what[c] = None
    /\ cached \subseteq Ideas /\ fired \subseteq Callers
    /\ ledger \in Nat /\ hidden \in Nat
    /\ overtaken \subseteq Callers /\ lapped \subseteq Callers
    /\ glitches \in 0..MaxGlitches /\ unrecorded \in 0..MaxUnrecorded

\* The agent's daily spend exceeds the cap by no more than the calls that can
\* be under way, each of which may have seen the last cent below the cap, and
\* those the record missed: a lookup that failed, a charge that was not
\* recorded under the agent's name.
SpendBounded ==
    ledger + hidden
        <= Cap - 1 + MaxPrice * (Cardinality(Callers) + glitches + unrecorded)

\* No idea is paid for when a fresh verdict of it is at hand, unless another
\* call was paying for it, or had paid and not cached it, at the same time.
PaidOnce ==
    \A c \in Callers \ Forced :
        at[c] = "call" /\ c \notin overtaken => what[c] \notin cached

\* A limited trigger is not fired twice within its ceiling by one wrapper,
\* unless the second call passed the ceiling before the first was answered.
CeilingHeld ==
    \A c \in Limited : at[c] \in {"cap", "lock", "call", "reply", "store"} /\ c \notin lapped
                          => Wrapper[c] \notin fired
==============================================================================
