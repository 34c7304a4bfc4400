# Formal model of gecko-mcpay-api

This directory holds TLA+ models of the parts of the repository whose correctness
depends on the order in which things happen: paid research sessions, project budgets and
wallets, credits, the live trading bot, and the agents with their oracle, their runtime and
the control plane that hosts them. TLC checks small instances of every module; TLAPS proves
most of their safety properties for every value of the constants.

Run anything here with `tlc -config <run>.cfg <module>` and `tlapm <module>_proofs.tla`.
`PROJECT.json` lists the runs, maps each definition to the lines it models, and names the
hazards and the theorems.

## 1. The system

The repository is a Python monorepo. `gecko-api` (FastAPI, several containers) sells
research and skills over x402 micropayments, `gecko-core` holds workflows, stores and
payments, `gecko-mcp` and the CLI are clients, and two trading bots
(`gecko-trade-agent`, `contest_bot`) and a trade agent run from the command line
(`gecko_core.trade_agent`) consume its verdicts.

| component | state it keeps | operations | interacts with | modelled in |
|---|---|---|---|---|
| research session | `sessions` row: status, result, error | POST, background workflow, retry | event log, billing, drain | `ResearchSession` |
| pro_events + SSE | append-only rows keyed `(session_id, seq)`; per-stream `last_id` | append, tail, close at final | session tasks, clients (who learn the retry token here) | `ResearchSession` |
| container drain | `_INFLIGHT_SESSIONS` of one process | snapshot, `mark_interrupted`, exit | session rows | `ResearchSession` |
| credit packs / skills | Mongo `credit_tokens` documents | mint, decrement, classify, revoke | x402 dispatcher, JWT | `CreditPack`, `Purse` |
| credits ledger / gate | Supabase ledger rows | grant, debit, balance | ASGI gate in front of x402 | `CreditsLedger` |
| trading bot | wallet, module globals, `bot_state.json`, daily artifact log | poll, open, close, reset, rebuild | onchainos CLI (the chain) | `TradeBot` |
| project budget and wallet | `projects` row: `spent_usd`, wallet columns; Privy's wallets | gate, provision, charge, delete | research, plan and project routes | `ProjectBudget` |
| trade-agent oracle | verdict cache, gate lock, last-fired times, record of charges | `get_verdict` | agent runtime, CLI, the API that charges | `Oracle` |
| agent runtime + scheduler | `agent_state` row, memory, journal queue, job table, wake event | start, stop, pause, hot swap, tick; the operator's stop and pause | oracle, Mongo, CLI | `AgentRuntime` |
| agent orchestrator | table of processes, registry of agents | start, stop, list; restart of the control plane | processes of `launch_agent.sh`, Mongo | `Fleet` |
| contest bot | like the trading bot, per agent | poll, open, close | onchainos CLI | not modelled (see `TradeBot`) |
| pulse credits, spend ledger, payment gate | `remaining_calls` per pack, daily totals, intents | check, decrement, pay | pulse route, bazaar, CLI | not modelled |
| ingestion, RAG, debate internals, firewall, flywheel, memory, telemetry, CLI, MCP | vectors, files, counters | I/O pipelines | external services | not modelled |

What is hard in this code, and what correctness means there:

* **Sessions.** Every `await` is a point where another request, a second container or a
  stream may run; status writes are unguarded UPDATEs; a retry reuses the row and the log
  of the debate that failed; a deploy stops containers in the middle. Correct means: one
  retry token, one debate at a time, at most one bill and only for an answer, streams that
  agree, a drain that never takes an answer back, and a session that ends.
* **Credits.** Balances are read and then spent in separate requests; a client that lost a
  reply pays again with the same header. Correct means: bounded overdraft, nothing served
  without a debit, no second balance, refusals that are true.
* **The bot.** Four copies of one truth are written one after the other, and the outside
  world (swap, balance, disk) fails without saying so. Correct means: every token held is
  watched over, budget and daily caps hold up to the faults, and the rebuild recovers what
  can be recovered.
* **Caps that are read early.** The project budget and the agent's daily spend are compared
  with a record when a request begins, and charged when it is done, if the record is written
  at all. Correct means: the overshoot is bounded by what can be under way and by the faults.
  The oracle's lock and ceiling, and the provisioning of a wallet by whoever comes first, have
  to hold in between.
* **The agents.** The runtime's row has three writers that do not read before they write (its
  process, the operator, a hot swap), and its shutdown crosses a scheduler and a queue. The
  orchestrator's endpoints run in threads on a table without a lock. Correct means: a stop is
  heard, ends, and leaves a complete journal and a true row; a process is never lost.

## 2. Modules and how they correspond to the code

**`ResearchSession`** - one session. `pc[q]` follows a request from its handler into the
task that `create_task` starts, one action per store call: `CreateSession`, `CheckRetry` /
`BurnToken` / `StartTask` (the retry route's read, UPDATE, `create_task`), `Gather` to
`Finish` (`workflows.research` and its pro debate), `PersistAgain`, `FinishAgain`, `Bill`
(the API's epilogue), `SetError`, `Announce` (its `except` branch). `BeginDrain`,
`MarkInterrupted`, `Exit`, `Crash` are the container; `Subscribe`, `StreamRows`,
`StreamFinal`, `StreamEnds` the SSE generator. A store call either lands or raises
(`Lands`, `Fails`), and one that raises may have landed. `events` holds rows in id order; a row's `by` names the debate that
wrote it, so a failure row stands for the retry token it carries.

**`Purse`** - what a credit pack promises: funded once, each call is told once, atomically,
that it paid, was short, or came too late.
**`CreditPack`** - the mint handler, the Mongo upsert as a find and an insert, the
conditional `find_one_and_update`, the read that explains a miss, revocation. It
implements `Purse` (`IsPurse`, by `INSTANCE Purse WITH ...`) if the unique index exists
(`UniqueJti`).

**`CreditsLedger`** - `SupabaseCreditsLedger` behind the ASGI gate: `ReadBalance` (the floor
check), `InsertDebit`, `ReadAgain` (the `balance` at the end of `_add`), `Finish`.

**`TradeBot`** - one process: `Tick` (`reset_daily`, `should_pause`), `Exit` / `Sell` / `Book`
/ `SaveClose` (`monitor_positions`, `close_position`), `Entry` / `Buy` / `BookEntry` /
`SaveEntry` (`poll_instruments`, `open_position`), `Boot` (load, or replay of the artifact
log), `Stop`, `Crash`, `Midnight`. Amounts are in units of `USD_PER_TRADE`. `hit`, `fresh`
and the fault counters are history variables: they record which trades a fault struck.

**`ProjectBudget`** - one project. `at[r]` follows a request: `Check` (the gate), `Look` /
`Create` / `Again` / `Bind` (`ensure_project_wallet`, each call to the store or to Privy a
step; `Ensured` is what its caller does next), `Work`, `Charge`. The creator of the project
provisions the wallet too and is shown its address; `Begin` is a plan or a retry, which are
charged and never checked. Privy's wallets are numbered as they are made. Whether Privy refuses
a second one under the project's `external_id` is not said by code under `src/` that the API
runs (the smoke script says it does, the docstring of `set_project_wallet` allows for a second
one), so `Create` may be refused or get a wallet of its own: `MaxWallets = 1` is a provider that
refuses, and the run allows two. `Provisioning` are the requests that found the row empty and
may still write it.

**`Oracle`** - one agent. `at[c]` follows a `get_verdict`: `Ask` (the cache), `Rate`,
`CapCheck`, `Lock` (the lock and the second look at the cache), `Serve` (the API charges),
`Reply` or `Fail`, `Store` (cache and mark, after the lock). Callers with one `Wrapper` share a
lock and what fired: the runtime is one wrapper, each `reverdict` command another. `Age` lets
time pass. The cost of a call is recorded under the agent's name or not: `make_rest_caller`
does not pass the name on (oracle.py:646), so with the REST client every charge may be of the
second kind.

**`AgentRuntime`** - the process of `up` with its three tasks, and the agent's row. `main` is
`up_cmd` (`Boot`, `Up`, `Poll` or `Interrupt`, `SchedulerStopped`, `Close`, `Leave`); `sched` the
scheduler loop (`Pass`, `Refresh`, `Snapshot`, `Halt` / `Halted`, `Sleep`, `Awake`); `Take` and
`Write` the task that writes the journal; `SwapRead` / `SwapWrite` / `SwapDone` a hot swap,
`Pause` / `Paused` and `Tick` other calls, `Flip` the operator's commands. An entry is early or
late, by whether `stop` was already waiting for the queue; `late`, `stale` and `crossed` remember
a stop during a job, a hot swap that wrote back an old status, and two hot swaps that overlapped.
In this version only tests call `pause`, `tick` and `hot_swap_to`.

**`Fleet`** - the control plane. `pc[h]` is a thread of the server's pool in one of the
endpoints: `Start`, `Check`, `Admit`, `Spawn`, `Record`, `Announce`; `Stop`, `Kill`,
`Unannounce`; `List`; with `Prune` and `WriteOff` for `_prune`, whose list of the table (`snap`)
is polled entry by entry. A `set_status` lands or raises (`Lands`, `Raises`), and one that raises
may have landed; the handler then answers with an error, with the table as it is and the rest of
its list not polled, and nothing repeats the write. The reads of the registry in `Check` and
`Admit` may raise too. `Exit` is a process that ends, `Restart` the control plane. `raced`,
`crossed` and `overlapped` remember which races struck an agent, `unsaid` the agents whose last
status write raised. A user has more agents than the cap when deployments raced or the cap was lowered, because `POST /agents` compares with the
same number.

`X_proofs` holds the theorems about `X`; `MCX` gives the constants their values for TLC.
Definitions commented "Variant" are wrong versions of the one below them; each shows that a
property notices that mistake.

## 3. Runs

| run | checks | shows |
|---|---|---|
| `session_safety` | `TypeOK`, `OneRetryToken`, `OneDebateAtATime`, `BilledOnce`, `BilledForAnswer`, `StreamsEndAlike`, `FailureReachesStream`, `PaidAnswerStays` | safety of sessions under two retries, two containers, a stream, a failed store call, drains and crashes |
| `session_liveness` | `SessionSettles` | accepted sessions end |
| `retry_single_use` | `RetryTokenSingleUse` (violated) | both redemptions of one token pass the guard |
| `drain_zombie` | `NoZombieAfterDrain` (violated) | a running task overwrites the stamp, then the process exits |
| `credit_pack` | `TypeOK`, `RefusalsTruthful`, `NeverOverspent`, `IsPurse` | packs with the index |
| `mint_race` | `NeverOverspent` (violated) | packs without the index, which nothing creates |
| `credits_ledger` | `TypeOK`, `OverdraftBounded`, `ServiceIsDebited` | three concurrent debits |
| `trade_bot` | `TypeOK`, `NoSilentOrphan`, `BudgetBounded`, `DailyCapBounded`, `RebuildRecovers` | what the bot may lose, and no more |
| `project_budget` | `TypeOK`, `BudgetHeld`, `AddressTruthful`, `WalletFound`, `WalletKept` | by how much a budget is passed; when a wallet is left unbound, and when a bound one, shown to its owner, is still replaced |
| `oracle` | `TypeOK`, `SpendBounded`, `PaidOnce`, `CeilingHeld` | by how much the daily cap is passed; what lock and ceiling are worth |
| `agent_runtime` | `TypeOK`, `JournalComplete`, `StopHeard`, `NoPhantomRunner`, `VersionAhead`, `StopEnds` | what a stop leaves behind, and that it ends |
| `fleet` | `TypeOK`, `NoLostProcess`, `StatusTruthful`, `CapBounded` | which races lose a process, when the status is true and when a failed write makes it wrong |

The violated properties state what the code's own comments say of it; `PROJECT.json`
quotes them under `findings`. None needs a fault.

Most properties of the later modules have the form "always, except beside this race". Each
exemption is a history variable that one step sets, and none can be spared: without it TLC
finds a counterexample in the same instance. The exemptions are therefore what the runs show
of the code's weak points:

* a debate that fails behind its own final, because the API's second write of the result is
  lost, leaves its failure row and its retry token where no stream looks any more
  (`StreamsEndAlike`), although the comment at main.py:1964 says that a subscribed client sees
  them;
* an answer that was paid for is safe from other debates, and its status from drains, but only
  for a client that retries once (`PaidAnswerStays`): the retry that a second redemption starts
  rewrites both;
* a session stays in progress for ever if its worker stops, if the write of its failure is lost,
  or if the write that accepts a request lands and its reply is lost: then the row is pending, no
  task runs, and a retry is refused (`cutOff`);
* without the index each race of two purchases mints one pack more, and not a token more than
  that (`OverspendBounded`);
* a bot that lost too often in a row sleeps until it is rebuilt: midnights and restarts do not
  wake it, and the positions it holds are not watched (`PauseLasts`);
* a credit account passes its floor by one price for each concurrent debit, and a bot that
  dies between swap and save forgets a token (`hit`);
* two starts of one agent, or a prune beside a start, lose a process (`raced`), and so does a
  restart of the control plane; a status is only sure when one handler at a time touched the
  agent (`overlapped`) and its last write did not raise (`unsaid`): a start whose write raised
  leaves a process that trades while the registry says otherwise, and starting it again only
  answers that it runs, so that the status is wrong until the process ends or is stopped;
* the wallet of a project, once bound, is replaced if the provider makes a second one for a
  request that had found the row empty (`WalletKept`), and the address shown to the creator is
  then another's (`AddressTruthful`); with `made = 1` neither can happen, and later requests
  never provision;
* a project passes its cap by one price for each request under way, failed check and charge
  that is never checked, and an agent its daily cap likewise;
* a waiter that enters the lock before the first verdict is cached pays again (`overtaken`),
  and calls that pass the ceiling together all fire (`lapped`);
* a stop that meets a running job is only heard at the scheduler's next deadline, up to five
  minutes later (`late`); a hot swap can leave a stopped agent as `running` (`stale`), and two
  of them can take the version on record back (`crossed`).

Three more things the models follow from the code although its text says otherwise: the
operator's `stop` and `pause` write the row and `up` never reads it (cli.py:244-250 says it
does); `set_project_wallet` overwrites without looking, and the unique index that its docstring
counts on (store.py:1439) holds wallets apart between rows: it lets one row take a second wallet,
as `Bind` does; no tick looks for a newer version of the spec. And one that no model shows:
budgets are written to `budget_usd` but the gate reads `budget_cap_usd`, so every project has
the default cap.

**Bounds.** Two retries suffice for any pair of requests to interleave, and the second
failure row is the only one the UNIQUE key can refuse; two containers suffice for one to
drain while the other serves; one turn event suffices for a debate to collide with the rows
of another. A pack of three tokens and calls for 1, 1 and 2 make some call miss in every
order that pays the others. Two prices, three clients and a negative floor let overdrafts
add up. Two instruments, two trades a day, two units of budget, two days, one crash, one
glitch and one rebuild reach every guard of the bot at its limit; with the configured
`MAX_DAILY_TRADES` of 3 the state space is 2.5 times larger and the same properties hold.
Three paid requests and a plan pass a cap that one of them reaches, with one fault of each
kind; two wallets are enough for one to replace the other while a third request looks on. Three callers of one wrapper let two wait for the lock and pass the ceiling together
while a fourth, in another process, spends behind their back. A journal of two entries
overflows at a stop after one event; two newer versions make every pair of hot swaps
interleave, two starts let an agent come back after a crash. Two agents, two threads and two
processes suffice for every race of two handlers, and one status write that raises for a status
that goes wrong and is put right by the next one.
Retries and workers, buyers, clients and tokens are symmetric, and so are paid requests, manual
callers, agents and threads; the runs with a liveness property use no symmetry. Deadlock is
checked for the ledger, the bot, the oracle, the budget and the control plane, which never stop;
a session, a pack and an agent end.

**Fairness.** `FairSpec` assumes weak fairness of each request's next step (the event loop
runs every ready task, and store calls return or raise) and of a shutdown that has begun.
Nobody has to send a request, open a stream, drain or crash a container. A task is never
blocked by another, so weak fairness is enough. `AgentRuntime` assumes weak fairness of each of
its three tasks: the event loop runs what is ready, calls to Mongo and to the oracle have
timeouts, and the scheduler's sleep has a deadline. Nobody has to interrupt, pause or swap, and
nothing is assumed of faults. `StopEnds` needs the writer's fairness, since `join` waits for it.

**Assumptions of the models.** In `ResearchSession` a store call that raises may have landed; in
the other models it did not, except where an action says so (`LosePurchase`, `LoseCall`,
`ReadAgain`, the swaps of the bot, `Bind` and the creation of a wallet, `Raises` in `Fleet`). A
swap that the CLI reports as done has landed. `os.replace` is atomic. The POST request is one request: a
client that posts again creates another session. A process that fails or is refused by Privy
after the wallet was made leaves a wallet that no later request finds: `mishaps` and `crashes`
count those cases. The 429 backoff of the oracle is one failure. One process runs an agent at a
time; nothing in the code prevents a second `up` with the same id.

## 4. Proofs

| theorem | module | argument |
|---|---|---|
| `TypeCorrect` | the first four modules | inductive by itself; the bot adds that a sale has an open position |
| `LogCorrect`, `OneRetryTokenCorrect` | `ResearchSession_proofs` | `LogInv`: `seq` is a key of the log and `FailureSeq` is used by failure rows alone, since a turn's seq is at most `MaxTurns + 1` |
| `IssuerCorrect`, `OneDebateAtATimeCorrect` | | `IssuerInv`: the issuer of a delivered token is done and unbilled, and an accepted retry presents a delivered token; with one token and one redemption, only the retry can still work |
| `OriginCorrect`, `BilledOnceCorrect` | | `OriginInv`: a retry exists only behind the failure row of the original debate, so that a debate which was charged for has neither token nor retry |
| `StreamsEndAlikeCorrect` | | `StreamInv`: what a stream has sent is a prefix of an append-only log, free of finals except its last row; `TokenInv`: a delivered token is that of the first final |
| `FailureReachesStreamCorrect` | | `FailureInv`: between the write of a failure and a final row some task is on its way; a row that is refused finds `FailureSeq` taken, by a failure row (`LogInv`) |
| `BilledForAnswerCorrect` | | `AnswerInv`: between the API's `set_result` and the bill there is a result, and no step clears it; `CompleteInv`: while a row is complete without an answer, some request has yet to write it, or to fail |
| `PaidAnswerStaysCorrect` | | the answer: by `IssuerInv` the one billed debate is the only one left to write; the status: `PaidInv`, a debate to be billed or billed finds the row complete, and of two requests one is the original, which ended uncharged (`OriginInv`) |
| `NothingAbandonedCorrect`, `TasksWindDownCorrect` | | the two halves of `SessionSettles` that are safety. `SettleInv`: a row in progress has a request that answers for it; `StepsLeft`: a measure that every step of a request lowers and no other step raises |
| `NeverInterruptFinishedCorrect` | | one step at a time: only the guarded UPDATE writes `interrupted` |
| `PackCorrect`, `RefusalsTruthfulCorrect` | `CreditPack_proofs` | assuming `UniqueJti`, `PackInv`: at most one document, and a call that missed keeps missing, because balances only fall and revocations stay |
| `IsPurseCorrect` | | assuming `UniqueJti`, each step is a `Purse` step or a stutter; the miss takes effect where it is explained |
| `NeverOverspentCorrect` | | assuming `UniqueJti`, `SpendInv`: what was charged and what is left make up the purchase; the sum of the charges is the size of a set of numbered tokens |
| `OverspendBoundedCorrect` | | without `UniqueJti`. `MintInv`: the tokens that were charged and those that are left, numbered document by document, are `Total` for each document |
| `OverdraftBoundedCorrect` | `CreditsLedger_proofs` | the balance alone is not inductive: `OverdraftInv` counts what the approved requests can still take, at most `MaxPrice` each and for the last one its own price |
| `ServiceIsDebitedCorrect` | | `ServiceInv`: what is served and what is about to be (`Owed`) is within the debits |
| `NoSilentOrphanCorrect` | `TradeBot_proofs` | `OrphanInv`: memory and file each know every token held, except the trade under way and the tokens in `hit`; a position is only closed once its token left the wallet |
| `DailyCapHolds` | | `DailyInv`: whatever the process forgets, the copy it starts from next (its memory, the file, or the log) leaves no more entries of the day than the cap, faults apart; in the poll that midnight interrupts, each entry takes a position that was free |
| `BudgetHolds` | | `BudgetInv`: memory and file each count as spent what they or the wallet hold, token by token the larger, but for the trade under way and the faults; sums over the instruments are handled by induction over their subsets (`SubsetInduction`, from the well-foundedness of strict inclusion) |
| `RebuildHolds` | | `RebuildInv`: of a token in `fresh`, entered once at most and not in `hit`, wallet, memory, file and log tell the same, but for the trade under way |
| `PauseLastsHolds` | | one step at a time: `Frozen`, the pause as the file has it, is kept by every step that can be taken in it |
| `BudgetTyped`, `WalletKeptHolds`, `AddressHolds`, `WalletFoundHolds` | `ProjectBudget_proofs` | types, in which only the requests about to bind a wallet hold one; the others follow one step at a time: a request that holds a wallet other than the one bound shows that two were made |
| `BudgetHolds` | | `BudgetInv`: a paid request past the gate is as good as charged, so `spent` plus one price for each of them obeys the bound; a deletion empties the flight |
| `OracleTyped` | `Oracle_proofs` | inductive by itself |
| `SpendHolds` | | `SpendInv`: the same argument for the calls past the cap, with what the record misses counted apart |
| `PaidOnceHolds`, `CeilingHolds` | | `PaidInv`, `CeilingInv`: a call that no other one disturbed is alone with its idea, or alone of its process past the ceiling; the flags are set on both calls when two meet |
| `RuntimeTyped` | `AgentRuntime_proofs` | `Exact`: what `join` waits for is the length of the queue plus the entry being written, through every overflow |
| `JournalHolds` | | `JournalInv`: when the count is zero nothing is queued, and from then on every entry is late, including those that replace a dropped one |
| `StopHeardHolds` | | `PassInv`: a stop that meets a job is remembered, and a pass has its jobs while it runs and only then; `WaitInv`: what an overflow drops is replaced at once, so while a stop waits for the queue the writer holds or finds an entry |
| `SchedulerWindsDownHolds` | | the half of `StopEnds` that is safety: `Distance`, three steps for each job of the pass, is lowered by every step of the scheduler once the stop has begun |
| `NoPhantomHolds`, `VersionHolds` | | `PhantomInv`, `SwapInv`: a process that is gone has no swap or pause under way; a hot swap that overlaps no other is newer than the memory, and on record once written |
| `FleetTyped` | `Fleet_proofs` | inductive by itself; only live processes have an agent |
| `ProcessNeverLost` | | `RaceInv`: for an agent that no race struck, a list that is being polled still agrees with the table, a start on its way finds its place empty and is the only one |
| `ProcessNeverTwice` | | also from `RaceInv`: a live process that is not in hand is the one in the table, which has one for each agent |
| `CapHolds` | | `CapInv`: a start admitted alone counts towards the cap from its admission on; sets of agents are compared by `FS_Subset` and `FS_AddElement` |
| `StatusHolds` | | `StatusInv`: an agent on which no two handlers have worked at a time is worked on by one at most, and that one knows what the table holds, whatever became of its writes (`Clean`); the status agrees with the table unless the last write raised; of two handlers on one agent the second sees the first (`Busy`) |

The assumptions are the ones named in each module (`SessionAssumption`, `PackAssumption`,
`LedgerAssumption`, `BotAssumption`, `BudgetAssumption`, `OracleAssumption`,
`RuntimeAssumption`, `FleetAssumption`): distinct names, natural bounds, finite sets where
their members are counted, in the ledger a non-empty set of clients and a floor of at most
zero, and for the runtime a queue of at least two entries.

Some theorems state properties that are defined beside their proofs and that no run checks:
`NeverInterruptFinished` (in `ResearchSession`), `NothingAbandoned`, `TasksWindDown`,
`SchedulerWindsDown`, `OverspendBounded`, `NeverTwice`, `PauseLasts`. They hold of every instance
as they stand.

Only model-checked: the liveness properties `SessionSettles` and `StopEnds`. What is missing to
prove them is the step from "some request can move" to "it moves", which needs ENABLED of the
fair actions, and an induction over the measures; that nothing else stands between a session, or
a scheduler that was told to stop, and its end is what the theorems on `StepsLeft` and `Distance`
say. Every safety property of a passing run has its theorem, `NeverOverspent`,
`RefusalsTruthful` and `IsPurse` under the assumption that the index exists. (`Pass` writes
`(SUBSET S) \ {{}}` with its parentheses because TLC and tlapm read the expression differently
without them.) TLC alone would not
have been enough for `RebuildRecovers`: with `fresh` defined by what the running process knew at
midnight, and not by the file as well, every small instance passed, while the proof needed the
file, and three days with three rebuilds then gave a counterexample.

## 5. What is not modelled

The reasons are with each component in `PROJECT.json`. In short: external services (crawlers,
LLMs, Privy, the facilitator, the operating system) are outcomes chosen freely; parsing,
formatting and scoring have no state; the bot's paper mode, PnL and signal maths only decide
whether a trade happens. A corrupt `bot_state.json` is left out because the file is replaced
atomically. `ProjectBudget` and `ResearchSession` are separate views of one request: the first
sees many sessions of a project and treats each as `Work`, the second follows one session and
its bill. The dispatcher's idempotency cache (dispatch.py:190, 256 entries of one process) is left
out: `CreditPack` lets any call be replayed, so its properties do not lean on it.

Most of the repository is of that kind. Of some 160,000 lines the greater part prompts models,
fetches and ranks documents, renders, parses and reports; it keeps no state whose order
matters, and a model of it would have nothing to say. What is mapped is the code that writes
shared state, and the map stays small beside the whole for that reason.

## 6. Plan

1. `ResearchSession`, then `CreditPack` over `Purse`, `CreditsLedger`, `TradeBot` - done.
2. `ProjectBudget`, `Oracle`, `AgentRuntime`, `Fleet`, with proofs of their safety - done.
3. Store calls of `ResearchSession` that land although they raise; theorems for the properties
   that sum over calls and instruments, and for the rebuild - done.
4. Liveness split into what is safety, proved, and what is scheduling; what a session owes a client
   that paid; the pack without its index; agents that never run twice - done.
5. Left: pulse credits and the spend ledger as further views of the check-then-charge pattern; the
   contest bot's own files; the wallet and the research session of one request composed; a
   specification of what the control plane promises one user, refined as `Purse` is, if its proof
   is worth a module.
