------------------------------- MODULE TradeBot -------------------------------
(***************************************************************************)
(* The live trading bot: one process that polls prices, opens and closes   *)
(* positions with swaps on chain, and keeps what it knows in memory, in    *)
(* bot_state.json and in the artifact log of the day.  The wallet is the   *)
(* truth; the three copies are written one after the other, so a crash, a  *)
(* swap that lands although the CLI reports an error, a balance that reads *)
(* as zero or a failed save makes them disagree.                           *)
(*                                                                         *)
(* Amounts are in units of USD_PER_TRADE.  Prices, candles, the safety     *)
(* filters, the panel and the circuit breaker only decide whether an entry *)
(* or an exit happens, so each is a choice the model makes freely.         *)
(***************************************************************************)
EXTENDS Integers, FiniteSets, FiniteSetsExt

CONSTANTS
    Tokens,          \* INSTRUMENTS
    NoToken,         \* no trade in progress
    NoFile,          \* bot_state.json does not exist
    MaxConcurrent, MaxDaily, Budget, LossPause,     \* config.py
    MaxDays,         \* bound: UTC days
    MaxCrashes,      \* bound: the process dies
    MaxGlitches,     \* bound: misreported swaps, lost balances, failed saves
    MaxRebuilds      \* bound: starts with --rebuild-state

\* BotState.
States == [open : [Tokens -> Nat], daily : Nat, spent : Nat, losses : Nat, reset : Nat]

ASSUME BotAssumption ==
    /\ NoToken \notin Tokens /\ IsFiniteSet(Tokens)
    /\ NoFile \notin States
    /\ {MaxConcurrent, MaxDaily, Budget, LossPause} \subseteq Nat
    /\ {MaxDays, MaxCrashes, MaxGlitches, MaxRebuilds} \subseteq Nat
    /\ MaxDays >= 1

VARIABLES
    pc,         \* where the process is, "down" when it does not run
    tok,        \* the token whose trade is in progress
    held,       \* units of each token in the wallet
    mem,        \* module state: open positions, counters, last_reset_day
    disk,       \* bot_state.json
    log,        \* position_open / position_close rows of today's artifact
    day,        \* the UTC day
    buys,       \* swaps into a token that landed today
    fresh,      \* tokens that nobody held or tracked when the day began
    hit,        \* tokens whose trade a fault has struck
    crashes, glitches, rebuilds

vars == <<pc, tok, held, mem, disk, log, day, buys, fresh, hit, crashes,
          glitches, rebuilds>>
faulty == <<hit, crashes, glitches, rebuilds>>
calendar == <<day, fresh>>

None == [t \in Tokens |-> 0]
EmptyState == [open |-> None, daily |-> 0, spent |-> 0, losses |-> 0, reset |-> 0]
EmptyLog == [opened |-> None, closed |-> {}, rows |-> 0]

Total(f) == MapThenSumSet(LAMBDA t : f[t], Tokens)
Less1(n) == IF n > 0 THEN n - 1 ELSE 0

Init ==
    /\ pc = "down" /\ tok = NoToken
    /\ held = None
    /\ mem = EmptyState
    /\ disk = NoFile
    /\ log = EmptyLog
    /\ day = 1 /\ buys = 0 /\ fresh = Tokens
    /\ hit = {} /\ crashes = 0 /\ glitches = 0 /\ rebuilds = 0

Goto(p) == pc' = p
Begin(t) == tok' = t
Done == tok' = NoToken

Smooth == UNCHANGED faulty
Glitch(t) ==
    /\ glitches < MaxGlitches
    /\ glitches' = glitches + 1
    /\ hit' = hit \union ({t} \ {NoToken})
    /\ UNCHANGED <<crashes, rebuilds>>

\* BotStateStore.save replaces the file, or logs the OSError and returns.
Save(state) ==
    \/ disk' = state /\ Smooth
    \/ disk' = disk /\ Glitch(tok)
------------------------------------------------------------------------------
(* Start and stop.                                                          *)

\* Variant: the rebuild believes every position_open row.
RebuiltOpens ==
    [open |-> log.opened, daily |-> log.rows, spent |-> log.rows,
     losses |-> 0, reset |-> day]

\* rebuild_from_artifact.  The open and the close row of a position carry
\* unrelated decision_ids, so no close matches an open by id, and the set of
\* closed tokens takes one open of each off.
Rebuilt ==
    [open   |-> [t \in Tokens |-> IF t \in log.closed THEN Less1(log.opened[t])
                                                       ELSE log.opened[t]],
     daily  |-> log.rows,
     spent  |-> log.rows,
     losses |-> 0,
     reset  |-> day]

\* A start loads the file.  Without a file, or when the operator asks for
\* it, the artifact is replayed and the result saved, if the disk lets it.
Boot(rebuild) ==
    /\ pc = "down"
    /\ rebuild => rebuilds < MaxRebuilds
    /\ rebuilds' = rebuilds + (IF rebuild THEN 1 ELSE 0)
    /\ IF rebuild \/ disk = NoFile
       THEN /\ mem' = IF log.rows = 0 THEN EmptyState ELSE Rebuilt
            /\ \/ disk' = mem' /\ UNCHANGED glitches
               \/ UNCHANGED disk /\ glitches < MaxGlitches /\ glitches' = glitches + 1
       ELSE mem' = disk /\ UNCHANGED <<disk, glitches>>
    /\ Goto("tick")
    /\ UNCHANGED <<tok, held, log, calendar, buys, hit, crashes>>

\* Ctrl+C in the sleep between two polls.
Stop ==
    /\ pc = "tick"
    /\ Goto("down")
    /\ mem' = EmptyState
    /\ UNCHANGED <<tok, held, disk, log, calendar, buys, faulty>>

\* The process dies anywhere else.
Crash ==
    /\ pc \notin {"down", "tick"}
    /\ crashes < MaxCrashes
    /\ crashes' = crashes + 1
    /\ hit' = hit \union ({tok} \ {NoToken})
    /\ Goto("down") /\ Done
    /\ mem' = EmptyState
    /\ UNCHANGED <<held, disk, log, calendar, buys, glitches, rebuilds>>

\* Midnight, UTC.  The artifact of the new day is empty.
Midnight ==
    /\ day < MaxDays
    /\ day' = day + 1
    /\ buys' = 0
    /\ log' = EmptyLog
    /\ fresh' = {t \in Tokens : /\ held[t] = 0 /\ mem.open[t] = 0
                                /\ disk # NoFile => disk.open[t] = 0}
    /\ UNCHANGED <<pc, tok, held, mem, disk, faulty>>

\* The top of the loop: reset_daily, then should_pause.  A paused bot goes
\* back to sleep without a look at its positions.
Tick ==
    /\ pc = "tick"
    /\ \/ mem.reset = day /\ UNCHANGED <<mem, disk>> /\ Smooth
       \/ /\ mem.reset # day
          /\ mem' = [mem EXCEPT !.daily = 0, !.reset = day]
          /\ Save(mem')
    /\ Goto(IF mem.losses >= LossPause THEN "tick" ELSE "monitor")
    /\ UNCHANGED <<tok, held, log, calendar, buys>>
------------------------------------------------------------------------------
(* monitor_positions and close_position.                                    *)

\* Variant: closed positions are monitored too.
ExitClosed(t) ==
    /\ pc = "monitor"
    /\ Begin(t) /\ Goto(IF held[t] > 0 THEN "selling" ELSE "booking")
    /\ UNCHANGED <<held, mem, disk, log, calendar, buys, faulty>>

\* A stop, a target or a stall asks for the exit of an open position, and
\* the wallet is asked for its balance.  An error of the CLI reads as zero.
Exit(t) ==
    /\ pc = "monitor" /\ mem.open[t] > 0
    /\ Begin(t)
    /\ \/ Goto(IF held[t] > 0 THEN "selling" ELSE "booking") /\ Smooth
       \/ held[t] > 0 /\ Goto("booking") /\ Glitch(t)
    /\ UNCHANGED <<held, mem, disk, log, calendar, buys>>

\* Variant: the position is closed whatever became of the swap.
SellAnyway ==
    /\ pc = "selling"
    /\ held' = [held EXCEPT ![tok] = 0] \/ UNCHANGED held
    /\ Goto("booking")
    /\ UNCHANGED <<tok, mem, disk, log, calendar, buys, faulty>>

\* The whole balance is sold.  A swap that fails, or that the CLI reports as
\* failed, leaves the position open for the next poll.
Sell ==
    /\ pc = "selling"
    /\ \/ held' = [held EXCEPT ![tok] = 0] /\ Goto("booking") /\ UNCHANGED tok /\ Smooth
       \/ held' = held /\ Goto("monitor") /\ Done /\ Smooth
       \/ held' = [held EXCEPT ![tok] = 0] /\ Goto("monitor") /\ Done /\ Glitch(tok)
    /\ UNCHANGED <<mem, disk, log, calendar, buys>>

\* The position is marked closed, its budget freed, and the row logged.
Book ==
    /\ pc = "booking"
    /\ \E losses \in {0, mem.losses + 1} :
          mem' = [mem EXCEPT !.open[tok] = @ - 1, !.spent = Less1(@), !.losses = losses]
    /\ log' = [log EXCEPT !.closed = @ \union {tok}]
    /\ Goto("closed")
    /\ UNCHANGED <<tok, held, disk, calendar, buys, faulty>>

SaveClose ==
    /\ pc = "closed"
    /\ Save(mem) /\ Done /\ Goto("monitor")
    /\ UNCHANGED <<held, mem, log, calendar, buys>>

EndMonitor ==
    /\ pc = "monitor" /\ Goto("poll")
    /\ UNCHANGED <<tok, held, mem, disk, log, calendar, buys, faulty>>
------------------------------------------------------------------------------
(* poll_instruments and open_position.                                      *)

\* An instrument signals, and every guard of the bot lets it through.
Entry(t) ==
    /\ pc = "poll"
    /\ mem.daily < MaxDaily
    /\ Total(mem.open) < MaxConcurrent
    /\ mem.open[t] = 0
    /\ mem.spent + 1 <= Budget
    /\ Begin(t) /\ Goto("buying")
    /\ UNCHANGED <<held, mem, disk, log, calendar, buys, faulty>>

\* The swap lands, fails, or lands and is reported as failed.
Buy ==
    /\ pc = "buying"
    /\ \/ /\ held' = [held EXCEPT ![tok] = @ + 1] /\ buys' = buys + 1
          /\ \/ Goto("bought") /\ UNCHANGED tok /\ Smooth
             \/ Goto("poll") /\ Done /\ Glitch(tok)
       \/ UNCHANGED <<held, buys>> /\ Goto("poll") /\ Done /\ Smooth
    /\ UNCHANGED <<mem, disk, log, calendar>>

\* Variant: an entry that does not count against the day.
BookEntryUncounted ==
    /\ pc = "bought"
    /\ mem' = [mem EXCEPT !.open[tok] = @ + 1, !.spent = @ + 1]
    /\ log' = [log EXCEPT !.opened[tok] = @ + 1, !.rows = @ + 1]
    /\ Goto("opened")
    /\ UNCHANGED <<tok, held, disk, calendar, buys, faulty>>

\* The position is appended and counted, and the row logged.
BookEntry ==
    /\ pc = "bought"
    /\ mem' = [mem EXCEPT !.open[tok] = @ + 1, !.daily = @ + 1, !.spent = @ + 1]
    /\ log' = [log EXCEPT !.opened[tok] = @ + 1, !.rows = @ + 1]
    /\ Goto("opened")
    /\ UNCHANGED <<tok, held, disk, calendar, buys, faulty>>

\* Variant: open_position without its _persist_state.
SaveEntrySkipped ==
    /\ pc = "opened"
    /\ Done /\ Goto("poll")
    /\ UNCHANGED <<held, mem, disk, log, calendar, buys, faulty>>

SaveEntry ==
    /\ pc = "opened"
    /\ Save(mem) /\ Done /\ Goto("poll")
    /\ UNCHANGED <<held, mem, log, calendar, buys>>

EndPoll ==
    /\ pc = "poll" /\ Goto("tick")
    /\ UNCHANGED <<tok, held, mem, disk, log, calendar, buys, faulty>>
------------------------------------------------------------------------------
Close == (\E t \in Tokens : Exit(t)) \/ Sell \/ Book \/ SaveClose
Open == (\E t \in Tokens : Entry(t)) \/ Buy \/ BookEntry \/ SaveEntry

Next ==
    \/ \E rebuild \in BOOLEAN : Boot(rebuild)
    \/ Stop \/ Crash \/ Midnight
    \/ Tick \/ Close \/ EndMonitor \/ Open \/ EndPoll

Spec == Init /\ [][Next]_vars
------------------------------------------------------------------------------
(* Properties.                                                              *)

\* The values each variable ranges over; a trade is in progress exactly
\* where the code is inside open_position or close_position.
TypeOK ==
    /\ pc \in {"down", "tick", "monitor", "selling", "booking", "closed",
               "poll", "buying", "bought", "opened"}
    /\ tok \in Tokens \union {NoToken}
    /\ tok = NoToken <=> pc \in {"down", "tick", "monitor", "poll"}
    /\ pc = "booking" => mem.open[tok] > 0
    /\ held \in [Tokens -> Nat]
    /\ mem \in States
    /\ disk \in States \union {NoFile}
    /\ log \in [opened : [Tokens -> Nat], closed : SUBSET Tokens, rows : Nat]
    /\ day \in 1..MaxDays /\ buys \in Nat
    /\ fresh \subseteq Tokens /\ hit \subseteq Tokens
    /\ crashes \in 0..MaxCrashes
    /\ glitches \in 0..MaxGlitches
    /\ rebuilds \in 0..MaxRebuilds

\* A token is in the wallet without a position to watch over it only if a
\* fault struck a trade of that very token: neither a fault of another
\* token, nor a restart, nor a swap that fails loses track of it.
Orphans == {t \in Tokens \ {tok} : held[t] > 0 /\ mem.open[t] = 0}
NoSilentOrphan == rebuilds = 0 /\ pc # "down" => Orphans \subseteq hit

\* Whatever the crashes and lost writes, the money in the wallet exceeds
\* MAX_BUDGET_USD by at most one trade for each of them.
BudgetBounded ==
    rebuilds = 0 => Total(held) <= Budget + crashes + glitches

\* A day sees at most MAX_DAILY_TRADES entries, one more for each fault that
\* loses a count, and those of a poll that midnight interrupts: reset_daily
\* only runs at the top of the loop.
DailyCapBounded == buys <= MaxDaily + MaxConcurrent + crashes + glitches

\* The rebuild finds again what the wallet holds of every token that was not
\* carried over midnight, was entered at most once since, and had no fault.
RebuildRecovers ==
    [][rebuilds' > rebuilds =>
          \A t \in fresh \ hit : log.opened[t] <= 1 => mem'.open[t] = held[t]]_vars
=============================================================================
