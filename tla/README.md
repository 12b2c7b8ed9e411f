# A TLA+ model of the Praxis order path

This directory models the parts of the repository that turn a signal into an
order: the Praxis worker with its webhook, queue and bot control, the StrateTeach
execution service beside it, the Profit Engine's demo runs, and the backtest
engines that strategies are judged by. The question is
what they promise when messages are delivered twice, workers die, database writes
fail, the exchange does not answer and what was read is out of date. The models
are checked with TLC on small instances; the main safety properties are proved
with TLAPS for every value of the constants.

File paths below are relative to the repository; `index.ts` is
`worker/src/index.ts`, `webhook` is `supabase/functions/webhook/index.ts`. The
Python files of the execution service are in
`strateteach/execution-service/exec_service/`, those of the demo runs and the backtests in
`strateteach/python-backend/app/`.

## 1. The system

| Component | State it keeps | Operations | What makes it correct |
|---|---|---|---|
| Webhook intake (`webhook`, `_shared/queue-recovery.ts`) | `webhook_logs` (status, attempts, lease) | upsert of the signal, enqueue and mark, decision on a duplicate | a 200 or `queued` is only said of a stored message |
| Requeue recovery (`webhookRequeueSweeper.ts`, migration 025) | the same rows | claim a batch under a lease, send, mark, report the exhausted | no committed signal is lost silently; copies are bounded |
| Queue (pgmq, migration 007) | messages and their visibility timeouts | send, read, delete | external: at-least-once delivery |
| Order pipeline (`index.ts`: `pollOnce`, `processMessage`) | `trades`, `reconciliation_jobs`, `trades_dlq`, bot counters | guards, sizing, simulated fill or proposal, reservation, order, error split | one order per signal, reserved and approved; an outcome that is open is tracked |
| Reconciliation (`runBootReconciliation`, `reconciliation.ts`, `reconciliationScan.ts`) | `trades`, `reconciliation_jobs` | open jobs at boot, look stuck trades up, write verdicts | verdicts are true and overwrite nothing; stuck trades are resolved |
| Approvals (migration 045, `approve-order`, `reject-order`, `proposalSweeper.ts`) | `proposed_trades` | propose, approve and re-enqueue, reject, expire | no order without the owner's approval |
| Bot control (`create-bot`, `arm-bot`, `pause-bot`, migrations 019, 027, breaker in `index.ts`) | bot status, `trading_enabled`, mode, failures, lock | arm, go live, pause, kill, lock, trip | only a proven key arms a bot |
| Notional reservation (migration 029) | `trades` | check the caps and insert the pending row under a lock | the caps hold over concurrent signals |
| Exchange adapter (`BinanceAdapter.ts`) | none (a cache of market rules) | createOrder, fetchOrder, balances, prices | errors and statuses keep their meaning |
| Sizing (`sizingRisk.ts`) | none; reads the balance and the price | BUY and SELL quantities, reservation amount | an order is the largest lot its share pays for; rounding never exceeds a limit |
| Credentials (`connect-credential`, `validate-credential`, `credentialValidation.ts`, migration 042) | `user_exchange_credentials`, Vault secrets, a queue | store and link a key or roll it back, drain the queue, prove a key, set its status, disarm | a verdict is true and not lost; a failed connect leaves nothing half done |
| Flatten (`flatten.ts`) | a set of bots in work, per process | sell all of a bot's free base, by hand | what it answers is what it left |
| Heartbeat, worker status, alerts | rows nothing in the path reads | write | observability only |
| Provisioning functions, frontend | users, bots, tickets | single-transaction requests | a ticket is used once |
| StrateTeach execution service (`ingress.py`, `queue.py`, `worker.py`, `sizing.py`, `state.py`) | `exec_signals`, `exec_queue`, `exec_orders`, `exec_bots`, `exec_state` | classify, record and enqueue a signal; claim, gate, size, send, write, ack or nack; sweep; arm, kill, release | no order past a closed gate, no more orders than attempts, every item decided before it is done |
| Profit Engine demo runs (`routes/paper.py`, `services/autorun.py`, `database.py`) | `paper_sessions`, `paper_positions`, usage, auto-run settings | open, mark, close, harvest, stop, continue, hide, reset; auto-run loop with its daily reset; stop monitor | a run that is over holds nothing, one that goes on holds something; a stop fires unattended |
| Backtest engines (`engine/engine.py`) | cash, equity, sub-positions, pending orders, trailing extreme, peak and drawdown of one backtest | per bar: fills at the open, stops and targets, marks, signals, fills at the close | the trades account for the cash; one side at a time; fills at traded prices; the peak is complete; both copies of the loop agree |
| StrateTeach backend, dashboard | a research and reporting web application | pages, reports, plans | not a protocol |

How they interact: the webhook commits a row and sends a message; the sweeper in
the worker sends what the webhook could not; `pollOnce` reads one message under a
visibility timeout and `processMessage` takes it through a chain of awaited
calls; a live bot's signal becomes a proposal, whose approval puts a second
message in the same queue; an order with an open outcome becomes a job and a
blocked bot, until the resolver has asked the exchange. All of them share only
the tables and the queue, and no step of one waits for another: what is hard is
the order in which their writes fall.

The execution service is a second, separate order path over a database of its own:
a signed webhook, a queue in a table, workers that claim with a lock and a sweeper
that takes the lock away, and a gate (armed, not killed, bot enabled) that its
owners operate from the side. The demo runs are the third: they trade on paper,
in one process on one event loop, where two handlers meet only at an `await`.
The three share no state. A backtest is a sequential program of its own: what is hard
there is the order of fills within a bar and that the loop exists twice.
`PROJECT.json` lists these hazards at
their lines, with the properties that would catch them.

## 2. The modules

| Module | Models |
|---|---|
| `TradeWorker` | order pipeline, queue, resolver and scan, approvals, exchange, arming and pausing |
| `OrderLedger` | what the pipeline promises of a signal: consent, hold, send, settle |
| `BotControl` | connect, validate, arm, pause, kill and lock; the trade path's verdicts on a key |
| `SignalIntake` | webhook from its step 7 on, duplicate decision, claim, sweeper |
| `Positions` | one account's money: sizing, caps, fills, flatten |
| `ExecService` | the execution service: ingress, queue, workers, sweeper, gate, kill switch |
| `PaperRuns` | one user's demo runs: requests, auto-run loop, stop monitor |
| `Backtest` | the two backtest engines side by side on the same bars |
| `MC...` | each module's instance for TLC: definitions of constants, symmetry |
| `...Proofs` | the theorems of a module; those of `TradeWorker` are in `TradeWorkerProofs` (orders) and `TradeWorkerTruthProofs` (records, cap, guard, refinement) |

The components of the worker meet in tables and the queue only. `SignalIntake` shows that a signal is
stored at least once and, with its copies bounded, any number of times;
`TradeWorker` starts from a backlog with up to `MaxCopies` copies of each signal
and shows that this is harmless. They are therefore checked apart. `BotControl`
is the life of the bot row and its credential that `TradeWorker` takes as given
(a credential that turns out invalid, a bot that is armed or paused at any
moment): it keeps of a signal's processing only what reads or writes these two.
`Positions` is what `TradeWorker` abstracts as go on, block or skip: it keeps of a
signal the one run that may order, and adds balances, prices and rounding.
`ExecService`, `PaperRuns` and `Backtest` stand for themselves.

### TradeWorker

A worker's `pc` is the step of `processMessage` it is at; each action is one
awaited call of the code together with the branch taken on its result, so that
any other actor, or a crash, can come between two of them. Rows are what the
properties tell apart: a trade is its status, a job and a proposal are theirs;
`aged` says that a row is older than the reconciliation threshold. `exch` is the
truth on the exchange, which the code never sees directly; a `lagging` order is
accepted and not visible yet. `placed` counts createOrder calls.

`UPDATE`s whose error the code ignores may or may not happen (`WriteTrade`,
`WriteBot`); the ones whose error it acts upon may also have taken effect
(`Settle`, `Reserve`), for an error of a remote call says nothing of the
statement. The bot row that later steps decide on is the one read at step 1
(`seen`), stale or not, as in the code; so is the failure count it writes back
plus one (`TripBreaker`). `audited` is the signals whose `trade.created` audit row is
stored; `AuditFailClosed` is the live tier's flag, with which an order waits for
that row and without which it does not.

Other audit rows, logs, the column values of a fill and the sizing arithmetic are
left out. Sizing is present by its outcomes:
go on, block, skip. The message's shape check (step 0) refuses messages the
webhook does not produce. A bot without a credential (step 2.5) is not modelled:
`arm-bot` refuses to arm one. A credential that turned invalid does not become
valid again here; `BotControl` has that.

The daily cap is counted in buys of one unit, within one day: `Reserve` sums the
rows that may still become orders and inserts in one step, as migration 029 does
under its lock, against the cap of the bot row read at step 1. Sells are exempt.

### BotControl

A connect request goes through the calls of `connect-credential` one by one, each
of which may report an error having been made; its credential row, secret and
exchange key share its name. `key` is the truth at the exchange: a `good` key, a
`dead` one, or one `fenced` by an IP allowlist, whose refusal Binance words like a
bad key's. A validation message has its read count and visibility timeout; each
worker has one validation loop and one message loop, and dies with both.
`handleValidate`'s steps 1 to 6 are one action (`CheckGates`): of what they read
only the venue's switch changes. What they turn down for configuration other than
the venue, the ticket checks, ownership and the mainnet fences are left out; they
change nothing and the requests modelled are those that pass. A bot's credential
never changes once set (`IS NULL` in the link), so `handleValidate`'s check of a
stale pointer has nothing to refuse.

Names in Vault and labels of rows are unique per venue and bot; requests do not
carry their venue here, so what another request left may or may not be in the way.

### SignalIntake

A delivery is one invocation of the webhook, a sweep a chain of `sweepOnce`
calls; several sweeps exist because each container has a timer and a timer does
not wait for the sweep before. A row has its status, its attempt count, whether
it is `stale` (old enough to be recovered) and whether it is `leased`. `sends`
counts the messages stored in the queue. A send may fail having stored the
message, the claim's answer may be lost, an invocation may die at any point.
Requests refused before step 7 change none of this state.

### Positions

One bot on one spot account at a venue: `quote` and `base` are its balances, in
exact integers. Base is counted in units finer than the lot `Step`, so that fees
can leave dust; a percentage is kept exact by comparing amounts times 100. What
sizing reads (free balance, price) is kept with the order, since a second order, a
flatten or the price may move in between, and the order is sent for what was
read. The reservation's caps (`Reserve`) sum amounts, as migration 029 does.
`order` and `call` carry the stages of `processMessage` and `flattenBot` between
two awaited calls.

The floats of `sizingRisk.ts` come out exact: `roundDownToStep` adds a tolerance
before it floors, for just that. `flatten.ts` floors without one, and so may come
out one step short of an exact multiple (`flattenQuantities`). `toFixed` of the
precision derived from the step changes nothing for steps that are powers of ten,
which Binance's are. A flatten claims its bot in a set of its own process
(`flattenInFlight`): two processes may flatten one bot, and a process that dies
forgets. `calm` is a history variable: the flattens that began on a bot that is
killed and has no order between its gates and its answer, forgotten when the bot
is armed again.

### ExecService

The ingress of a signal, each worker, the sweeper and each owner's console are
processes; each of their database calls is a transaction, and between two of them
anyone else may act. `door` is how far a delivery is, `at` a worker's step in
`process_one`, `console` how far an owner's engage or release of the kill switch
is: the switch and the queue are two transactions. A release runs whether the switch
is on or not, as in the code, which is how items that a failed one left held get free;
`halted` gathers, over all kills, the signals no worker had loaded at one. Of the gate's four conditions
the two that change at run time are kept (`armed`, `kill`), with each bot's
`trading_enabled`, which the worker reads at another moment (`on`) than the gate.
A swept lock takes the item away from a worker that may only be slow: it goes on,
and its late ack or nack finds that it no longer `Owns` the item.

Every order of a bot has its `fixed_notional`, so that caps are counted in orders;
a rejected or skipped order is a row of its own. `VenueDedups` says whether the
venue refuses a client order id it has filled; the safety properties are checked
without it. The rate limit and the contract and signature checks of the
ingress refuse a delivery and change nothing here.

### PaperRuns

One event loop: what stands between two awaits is one step, so that only the
calls for prices and signals divide a handler. `job` holds what a handler carries
across such a call (the runs and positions it read before), `seen` the rows a
listing is about to mark with. Requests, the auto-run loop and the stop monitor
are processes that differ in what they do between the same calls; a listing
marks whatever it lists, whoever asked for it (`MarkSessions`, and `Tick` for the
loop), as `_build_paper_sessions` does.

Prices are there as far as they decide: a position is `low` when it is beyond its
stop, a run is `hit` when it is at its target, a harvest takes any subset as the
profitable ones. A mark may see only part of what is low (a cached price map). A
failed database call ends a handler with some of its writes done (`MarkBreaks`,
`RequestBreaks`, `OpenBreaks`, `ForceCloses`), and the run is remembered in `cut`; one
that fails before the first write, as a call for prices does, leaves the run as it was.
A reset whose record cannot be written ends the tick and is due again, until the hour
it is looked for in has passed (`ResetHourPasses`); the close of a run that fails is
passed over (`ResetSkips`) and remembered in `skipped`.

### Backtest

A step is one turn of the bar loop, of both engines at once, on the same candle,
signals and size: the loops call nothing that could interrupt them. `single` and
`dual` hold the locals of `run_backtest` and `run_backtest_long_short`; sub-positions
are kept by their number and sums, closed trades by the sum of their profits, since
everything done with them is a sum. Each engine's bar is composed of the code's
numbered steps in their order (`singleFillsAtOpen`, `Stops`, `MarkedAtClose`,
`singleSignals`, `singleFillsAtClose`, `Remarked`), and where the copies of the loop
differ, so do the operators: which entry price stops are measured from, whether
slippage is passed on, whether the peak is taken between an exit and an entry.

Prices, commission and slippage are exact integers, floats being the code's choice
of numbers and not of behaviour. An order's size is any of `Sizes`, whichever
`qty_type` gave it, the same for both engines. The stop and target columns are
constant over a backtest here. `fills` and `best` (what was filled on the bar, and
the most the account was worth while flat and in range), `span` and `shorted` are
history variables.

## 3. Properties and runs

Each run answers one question; the bounds are constants of the configuration. Type
invariants are not among the runs' properties: they are proved (section 4).

| Run | Configuration | Question | Bounds |
|---|---|---|---|
| `trade_race` | two workers, `Timely` false | can deliveries, races and failed writes order a signal twice, unreserved, unaudited or unapproved? | 1 signal, 1 copy and 1 approved message, 1 failed write, 1 owner request |
| `trade_truth` | one worker, two signals of one bot | do trade, job, dead letter and exchange agree, does each refusal get its letter, is the bot blocked while a trade is unknown, does the cap hold? | 1 crash, scan on, cap 1 or 2 |
| `trade_live` | one worker, fair | is a trade recorded as over really over; is every stuck trade resolved; is `OrderLedger` implemented, failed writes included? | 1 signal in 2 copies and 1 approved, 1 crash, 1 failed write, 1 owner request |
| `bot_control` | one worker, fair | can a bot be armed with an unproven key, a good key be branded, a request stay for ever or its verdict be lost? | 1 bot, 2 connects, 1 validation, 1 arm, 1 fault, 1 act of owner or operator, 2 attempts |
| `intake_races` | 2 deliveries, 2 sweeps, fair | is every success backed by a message; are copies bounded; does every committed row get enqueued or reach the cap? | 1 signal, 2 attempts, 1 killed sweep, 1 failed write |
| `positions` | four ways to size a bot | is each order the largest lot its share pays for, do the caps hold in money, what does a flatten leave? | 2 signals, 2 flattens on 2 hosts, prices 1 and 2, funds 8 or 15, holdings 0 or 5, lot 2 |
| `exec_races` | 2 workers, a venue that dedups nothing | is an item decided before it is done, sent no more often than claimed, held back by a kill; how far can the cap be passed? | 3 signals of 1 bot, 1 owner with 2 acts, 2 attempts, cap 1, 1 fault |
| `exec_live` | 2 workers, fair, a venue that dedups | does every item end? | 2 signals, 1 owner with 1 act, 2 attempts, 1 fault |
| `paper_runs` | admin or not | does the loop have one run at a time, how far can the plan's limit be passed? | 2 runs of 1 position, 1 request, 1 failed call, 1 reset |
| `paper_stops` | not admin, fair | is a stopped run empty and a going one not; does a stop fire? | 1 run of 2 positions, 2 requests one after the other, 1 failed call |
| `backtest` | six settings: stop and target, trailing, time stop, pyramiding, slippage, fills at the close | do the books balance, are positions and fills within limits, is the peak complete, do the engines agree? | 4 bars, 3 of them in range, of 5 candles with 3 prices, any signals |
| `inline_unknown` | the smallest that shows it | see section 5; expected to be violated | |

Why these bounds are enough. A duplicate order needs two processings of one
signal: two workers on one message whose timeout ran out, or the webhook's
message and the approved one. More copies repeat the same pair, and the theorem
covers any number. The guard, the ledger and the truth properties relate at most
two signals of a bot. Each crash or failed write is spent at any of the steps, so
one is every position. The intake has the smallest number of attempts with which a
row is retried, two deliveries so that one is the other's duplicate, and two sweeps
so that one may work on a row whose lease the other has taken over.
`bot_control` needs two connects
to have them overlap and one of everything else to overlap them with; its fault
is a failed call (made or not), an outage or a death, at any step. `NotStranded`
is claimed with fewer faults than attempts, as the code bounds its retries.
The runs that look for disagreement between two records keep one worker, as the
deployment does; the races of two workers are in `trade_race`, with the
properties that hold of them.

In `positions` the numbers are chosen so that each boundary is met: shares that
are and are not a multiple of the lot, orders at and below the minima, a second
order that the first one's reservation pushes over the cap, a balance that both
an order and a flatten have read. `exec_races` has a cap of one order and two
workers, so that both can pass it together, and a third signal that must then be
refused; two acts are what it takes to kill and release. In `paper_runs` a limit of
one is passed by one request beside the loop; the two runs are the one the reset
fails to close and the one opened after it. `paper_stops` has two positions, so
that a close may take one and the stop the other, and two requests, so that the
second works on what the first has left.

`backtest` has four bars because a position needs one to be decided on, one to be
filled, one to be held and one to be left or reversed; the last is out of range, where
fills still happen and signals, stops and the peak do not. The candles rise,
fall, gap either way and are wide enough to meet two levels at once; their unit and
`Share` are such that every division is exact.

Deadlock is not checked for `TradeWorker`, `BotControl`, `Positions`, `ExecService`,
`PaperRuns` and `Backtest`: with their bounded requests, messages, faults and bars used
up they rest. The intake never rests, its sweeps go on.

### Assumptions behind the configurations

- `Timely`. The visibility timeout (45 s) exceeds the worst case of a message as
  computed at `VISIBILITY_TIMEOUT_S` (about 26 s), the scan's threshold is at
  least that timeout plus 15 s (`reconciliationScan.ts`), and an accepted order is
  visible within it. With `Timely` a message does not reappear while it is being
  worked on, and a trade does not age while it is in a live worker's hands or
  its order lags. The properties about orders (one, reserved, approved) are
  checked and proved without it. `NoHiddenPosition`, `ResolvedJobHasTerminalTrade`,
  `CapIsKept` and `KeepsLedger` need it:
  the write after createOrder is unconditional and may overwrite a verdict the
  resolver gave in the meantime, which may have failed a trade whose order was still
  to come to light.
- `Prompt` (intake) says that a delivery is over before its row turns stale at
  60 s. No run sets it: the intake's properties hold of slow webhooks too.
- `VenueDedups` (`exec_live` only, for a smaller instance; the safety run is
  without it).
- One worker in `trade_truth`: with two, step 3.5 and the order that follows are
  not atomic, and `NoOrderWhileUnknown` is not claimed; nor is `UnknownIsTracked`, for
  a second worker may pause the bot (a credential found invalid) while the first
  crashes between the write of `unknown` and the job, as an owner's request may.
- `AuditFailClosed` is true, the live tier's setting, in `trade_race` and
  `trade_truth`, and false, the flag's default, in `trade_live`, so that both branches
  of `AuditCreated` are explored; the theorems hold of both.
- No failed write in `trade_truth`: a dead letter's trade may then be left pending,
  and the job of an unknown one unopened, as both updates' errors are not looked at.
- No owner request in `trade_truth`: a bot paused between a crash and the
  redelivery has the message acked at step 2, before step 3 could open the job;
  the boot sweep and the scan work from the trades and find it all the same.
- Powers of ten as lot steps (`Positions`), see section 5.

### Fairness

`Fairness` of `TradeWorker` asks that a worker that runs makes its next call, that
time passes, that an accepted order comes to light and an open one is closed, and
(strong) that the scan gets to each stuck trade and that fetchOrder, asked again
and again, gives a verdict in the end. The scan selects every stuck trade on each
tick (as long as they fit its cap), and an exchange that never answers cannot be
helped by the code; a venue refusing the credential for ever is excluded by that
too. Receiving a message, crashes, failures and the owner's requests are not
fair. `StuckResolves` excuses a bot whose credential was lost, for which
`defaultAdapterFor` returns no adapter.

`Fairness` of `SignalIntake` asks for the sweeps (a timer) and for time. It asks
nothing of the webhook: it may die and never be called again.

`Fairness` of `BotControl` asks that the validation loop is on and makes its next
call, that visibility timeouts run out, and (strong) that the queue's order gives
every message its turn. Nobody has to arm, trade or connect. `NotStranded`
excuses a venue that is off and a fenced key: both end a request with the status
left `pending_validation`, by design, for the owner to ask again.

`Fairness` of `ExecService` asks that a worker goes on with what it has claimed,
that the sweeper runs, and (strong, per signal) that an item that can be claimed
again and again is: `dequeue` orders by id, and each of the finitely many items
before it is claimed at most `max_attempts` times. Deliveries and owners are not
fair; `ItemsEnd` lets an item stay held.

`Fairness` of `PaperRuns` asks that the monitor's timer fires and (strong) that
it marks with current prices, again and again: the price cache serves a stale map
at most until it is refreshed behind it. No request and no tick of the auto-run
loop is needed for `StopFires`, which is the point of the monitor.

## 4. What is proved

Every proof is for any value of the constants, under the modules' named
assumptions (`BacktestOK`, `PositionsOK` and their like). Most theorems of
`TradeWorkerTruthProofs`, and one of `ExecServiceProofs`, have a hypothesis of their
own, given below. Every safety property that a run checks is stated by a theorem.

`TradeWorkerProofs`, for any sets of bots, signals and workers, any number of
copies, crashes, errors and requests, `Timely` or not:

- `TypeCorrect`: `Spec => []TypeOK`.
- `OneOrderPerSignal`, `EveryOrderReserved`, `EveryOrderApproved`: `AtMostOneOrder`,
  `OrderIsReserved`, `OrderIsApproved`.

None of the three is inductive: nothing in "at most one call so far" stops a
worker from making the next. The strengthening says who may. A worker between the
reservation and createOrder is sending; `OrderInvariant` states that a sending
worker's signal has been reserved and not been ordered, that no two workers are
sending the same signal, that a signal without a row has never been ordered, and
that each message marked approved, in the queue or in a worker's hand, and each
worker past the mode check, has an approved proposal behind it. Reservation hands
this right to one worker because the row's key admits one insert; a crash takes
it away for good because no step leads from an existing row back to createOrder.
The proof has a lemma per action for the types and one for the two frames
(consent and order), and one step per action.

`TradeWorkerTruthProofs` goes on from there, for the properties that relate the
records to each other and to the exchange:

| Theorem | Property | Given |
|---|---|---|
| `NothingIsHidden` | `NoHiddenPosition` | `Timely` |
| `ResolvedJobsAreSettled` | `ResolvedJobHasTerminalTrade` | `Timely` |
| `CapHolds` | `CapIsKept` | `Timely`, finitely many signals |
| `ImplementsLedger` | `KeepsLedger` | `Timely` |
| `NoneSentWhileUnknown` | `NoOrderWhileUnknown` | one worker |
| `RefusalsGetLetters` | `RefusalsAreLettered` | no failed write (`MaxDbErrors = 0`), finitely many signals |
| `LettersAreCounted` | its bound on the letters missing | finitely many signals |
| `UnknownsAreTracked` | `UnknownIsTracked` | `Undisturbed`: one worker, no failed write, no owner request, answers the adapter can map |

Each hypothesis is needed: with any one of them dropped, TLC finds the property
violated on the instances of the runs (finiteness apart, without which a
cardinality says nothing), in ways described under the configurations' assumptions and in section 5.
Apart from them workers, copies, crashes, failed writes and requests are any
number. The argument has five layers.

- `SentInvariant` (of `SentInv`, without any hypothesis): a worker from the audit to the last write of
  an outcome, or at a refusal, *owns* its signal's row, and no other worker is
  there (`OwnedRow`, `OneOwner`). An order that was not sent is nowhere, a row that is
  aged exists, and what was refused, or is a dead letter, never reached the exchange.
- `TruthInvariant` (of `TruthInv`, if `Timely`): a row in a worker's hands is neither
  terminal nor aged (`FreshRow`), an aged order is visible (`AgedIsVisible`), and the
  answer that a worker, and the verdict that the scan, is about to write agree with
  the exchange (`AnswersAgree`, `VerdictsAgree`). This is what `NoHiddenPosition`
  needs to be inductive: the two guarded writes of the resolver and the unguarded
  one of the worker each carry a fact read earlier, and it is still true when written.
- For the dead letters, `LetterInv` adds that a worker with an order's status in hand
  has that order on the exchange, that a row on its way to createOrder is pending, and
  that the scan asks about aged rows only. A refusal then comes from the write of the
  worker that owns the row, which goes on to the letter; only a crash or a failed write
  takes it off that way, one refusal each (`NoneForgotten`, `OneForgotten`). What the
  resolver fails later is its verdict and no refusal: it writes no letters.
- For the cap, `CapInv` counts as exposed what may be on the exchange *or is on its
  way there*; every exposed buy is a row that `Reserve`'s sum counts, so the
  reservation that fits is the step that preserves it. For the guard, `ClearInv`
  follows the one worker from step 3.5 to the order. For `UnknownIsTracked`,
  `TrackInv` says why the redelivered message gets as far as the check for duplicates
  that opens the job: the bot of an untracked unknown trade stays active, as whatever
  pauses a bot on the way does so past the guard.
- For the refinement, every step of the pipeline is shown to leave what the mapping
  shows alone (`SameEntries`), to consent, to send, or to be one `LedgerMove`.
  `EntryOf` says what a row means when a worker was told that its write failed: the row
  may already be terminal, but it is about to be marked unknown, so its entry is
  held until then (`InDoubt`).

`SignalIntakeProofs`, for any signals, deliveries, sweeps, attempts and batch:
`TypeCorrect` (no row passes the cap), `QueuedIsBacked`, `OkIsBacked` and
`CopiesAreBounded` (`SendsAreCounted`). The
invariant `SentInvariant` adds that a delivery about to mark a row queued, and a
sweep at its mark, have stored the message, and that the row a delivery reloads
exists; the count of stored messages never goes down. `CopiesAreBounded` counts
against the attempts, beside the messages stored, the sweeps that hold a claim and
have not sent yet: a claim adds one to each side and a send, a failure or a
killed sweep only ever trades one for the other.

`BotControlProofs`, for any bots, requests, workers, faults and attempts:
`TypeCorrect`, `ArmedIsProven` (`ArmedWasProven`) and `InvalidIsTrue`
(`InvalidIsDeserved`). Neither is inductive: an arm request decides on a row it
read earlier, and a verdict is written after the call it came from. The
`ControlInvariant` follows both back: an arm request holds its bot's own credential
(a bot gets one only once) and at its write an accepted one; a valid row, and a
verdict `valid` about to be written, are of an accepted key; a verdict `invalid`,
of either loop, is of a key that is refused, and stays so, for a secret is stored
only for a request that has no row yet (`Early`) and that no bot, message or signal
knows. The proof first says what a step can do to each table (`BotsStep`,
`RowStep`, ...), one case per process, and then draws each part of the invariant
from these.

`ExecServiceProofs`, for any signals, workers, owners, attempts and cap, any
number of faults and acts, a venue that dedups or not: `TypeCorrect`,
`DoneWasDecided`, `DecisionsAreFinal`, `HaltHolds`, `SendsHold` and `CapHolds`, the
last five of `DoneIsDecided`, `DecisionsStand`, `HaltedIsNotSent`,
`SendsAreClaimed` and `CapOvershootIsBounded` (the last one given that there is a
worker at all). What makes them inductive: a
worker at its ack has an order row under it; a worker past the load of a halted
signal has read the bot as disabled, unless it had loaded before the kill
(such signals are not in `halted`). `SendsAreClaimed` is a count: a claim adds one
to both sides, a submit moves one from the senders to the venue, and a sweep
changes an attempt in progress into a spent one while the slow worker keeps its
place among the senders. `CapOvershootIsBounded` follows the last worker that
passed the check: when it did, the orders used and its own fit the cap, and only
the other workers can have been past it.

`PaperRunsProofs`, for any runs, positions and request handlers, any number of
faults, acts and resets: `TypeCorrect`, `StoppedRunsAreDrained`,
`RunningRunsHold`, `QuestionsAreLive`, `AutoRunsAlone` and `DailyLimit`. The
difficulty is the stale read: a handler stops a run for what it read before an
await. The invariant (`Inv`) has three parts. `Sound` is the properties of the rows.
`JobsSound` says that whatever a handler read as open still covers what is open:
nothing is opened in a run that exists, so that positions only leave, and a
handler about to stop a run has every open position of it in hand. `LoopSound`
says that while the loop is at its reset, its going runs are among those it has
still to come to or has failed on, and that when it opens there are none.

`PositionsProofs`, for any signals, flattens, hosts, balances, prices and market
rules: `TypeCorrect` (no balance goes below zero), `OrdersAreSizedRight`
(`SizedRight`), `FlattenIsEnough` (`FlattenLeavesDust`) and `ReservationsAreCapped`
(`ReservedIsCapped`). The first two rest on
lemmas about division: rounding down to a lot is the largest multiple not above.
The third needs to know that nothing is bought behind a calm flatten: once a bot
is killed no order passes its gates, so that with none under way the base
can only be sold, and what a calm flatten read is at least what is there. The last is
about a sum, a fold that takes its elements in an order nobody knows. The library's
induction takes an operator and cannot be used here; a least counterexample can:
`MinimalSubset` takes from a set of finite sets one with no other inside it, and with it
`TotalCounts` shows that the fold is the number of units asked for (`Units`), after
which finite sets do the arithmetic. An order that opens was counted in the sum
that admitted it; any other step leaves the sum or lowers it.

`BacktestProofs`, for any settings, candles, sizes, capital, rates and length of data:
`TypeCorrect`, `TradesAccountForCash` (`BooksBalance`), `PositionsAreLimited`
(`NeverTooMany`), `FillsWithinBar` (`FillsAreTradable`), `PeakIsComplete`
(`PeakCountsEveryTrade`) and `EnginesAreTheSame` (`EnginesAgree`). A bar is a composition of operators on an engine's
state, and so is the proof: a lemma per operator says what it keeps of `Good` (the
books, and one side with as many sub-positions as it says), and the lemmas of a bar chain
them. Two facts join the properties in the invariant: an entry pending
in `run_backtest` has room left for it (`Room`), for it is filled without another
look, and the peak of the long/short engine is at least `best` (`Counted`).
Exactness of the divisions is not assumed. For `EnginesAreTheSame` each operator of
one engine is compared with its counterpart of the other (`OpensAlike`, `ClosesAlike`,
`StopsAlike`, `MarksAlike`, `SignalsAlike`) on an engine that has seen no short
(`LongOnly`), whose pending entries and exits are long ones only and whose position,
if any, was paid for; that state is what `Agree` adds to the equality.

Two slips of the models came out in these proofs: `MarkedRow` had two cases that
overlapped in states no run reaches, and `Init` of `PaperRuns` needed the
assumption that a run has a position.

Model-checked only: liveness (`StuckResolves`, `NoSilentLoss`, `Settles`,
`NotStranded`, `ItemsEnd`, `StopFires`), which is out of the prover's reach.
`inline_unknown` is a violation, and so not provable; `OpaqueAnswers`, which it sets,
is what `Undisturbed` excludes.

## 5. Where code and comments part

The run `inline_unknown` is expected to find its property violated: an inline lookup
that finds the order with a status it cannot map writes `unknown` and acks without
opening a job (`index.ts:1620`), against "Never ack a transient failure without
either a resolved trade or a reconciliation_job" (`index.ts:99`).

The rest was met while modelling. The models do what the code does; the properties
are stated so that they hold of it, and this list says what they therefore leave out.

Worker and functions:

- Step 3.5 looks at pending rows past an age only (`index.ts:844`): a second signal
  passes while the first one's row is fresh and its order open, against the header
  (`index.ts:87-90`).
- The header says that OrderNotFound after a timeout fails the trade, and the code,
  rightly, marks it unknown; it says that errors before the INSERT are retried, and
  a failed bot read is acked (`index.ts:745`).
- `approve-order` does not look at `expires_at` (`approve-order/index.ts:43`), against
  "a stale/expired proposal can't be approved" (`:42`); expiry is left to a sweeper
  that is off by default.
- When the answer of the linking update is lost, the rollback of `connect-credential`
  cannot delete the row a bot points at, does not look at the error, and deletes the
  secret (`connect-credential/index.ts:102-104`), against the rule of migration 005
  (`:26`). The bot keeps a credential without a secret and cannot connect another.
- A row that reaches the attempt cap as `accepted` is in no report
  (`webhookRequeueSweeper.ts:104`, against `:11-12`), and the webhook's failure write
  takes a `queued` row back (`webhook/index.ts:114`).
- `arm-bot` reads `operator_locked` before it arms; its comment (`:72`) leaves a lock in
  between to the operator's kill, but a kill in the same window is undone by the arm
  too.
- The rounding of `flatten.ts:34` lacks the tolerance of the one it "mirrors"
  (`sizingRisk.ts:34`) and may leave one lot; flatten does not look at the minimum
  notional. A flatten after a kill while an order is in flight leaves what that order
  buys. `qtyPrecision` comes out a digit short for steps such as 0.05 or 0.25, which
  Binance does not use.

Execution service:

- The enqueue comes after the signal's commit (`ingress.py:163`); if it fails, the
  sender's retry is a duplicate and the signal is never queued ("nothing is lost
  silently", `004_queue.sql:4`).
- The order is submitted before its unique row is written (`worker.py:176-201`): at a
  venue that does not dedup, a retry sends it again before it learns that "nothing
  was placed twice" (`worker.py:202`). `SendsAreClaimed` bounds how often.
- `release_kill_switch` says that the master gate "stays closed until an owner arms it
  deliberately" (`state.py:180-181`); engaging the switch does not disarm it, so that
  releasing opens the gate again. A worker that read its bot as enabled before a
  kill passes the gate after the release.
- Items enqueued, nacked or swept while the switch is on are not held
  (`state.py:155`); a failing `release_held` is swallowed and leaves items held; an
  item released is a no-op while its bot stays disabled, and is done with that.
- `open_now` counts statuses no order ever rests in (`worker.py:94`), so that
  `max_open_positions` has no effect; the rate limit is checked before the insert.
- `_expire_if_due` (`approvals_flow.py:113`) is rolled back by the error its caller
  raises, while its audit row is committed.
- A no-op row can stand over an order that was sent: an attempt that died after its
  submit is retried behind a closed gate and writes `noop_disarmed` (`worker.py:159`),
  which the reconciliation reads as "nothing was sent" (`reconcile.py:14`).

Demo runs:

- A position may be closed twice, and the second close overwrites the reason of the
  first (`database.py:4172`, `paper.py:109`), which is kept to "show WHY it closed"
  (`paper.py:112-113`).
- A daily reset goes on after a close that failed (`autorun.py:99-104`): the old run
  and the new one go on together. `OneAutoRun` keeps these runs apart (`skipped`) and
  says that no other joins them.
- A running run that is hidden is never evaluated again, although it keeps the loop
  from opening another; a run emptied by a failed write stays `running`.
- `lastSid` and `lastResetDay` can be set by the UI (`database.py:7683`) though they
  are "managed by the autorun loop" (`:7675`); the loop's write of `count`
  overwrites a change the user made meanwhile (`autorun.py:184`).
- The daily limit is checked before the awaits and counted after them
  (`paper.py:603`, `:667`); `RunsAreLimited` bounds by how much it is passed. "Continue"
  may be asked again from a stale snapshot, and the target's event written twice.

Backtest engines (`engine/engine.py`):

- A short exit at the open is slipped by the caller and again by `_close_positions`
  (`:1117`). Stops of the long/short engine are not slipped at all (`:1260`, `:1276`), and the
  long-only engine slips its take-profits (`:824`), both against the docstring of
  `apply_slippage` (`:582`) and `backtest/engine_adapter.py:69-71`.
- Entries at the close do not seed the trailing stop, though the comments
  (`:722`, `:1084`) say that each entry does. The adapter always fills at the open
  (`engine_adapter.py:78`).
- `run_backtest` takes no peak between an exit and an entry at the same open
  (`:744-753`), as the long/short engine does, "critical for reversal strategies"; it shows
  with pyramiding above one. `EnginesAgree` is about one position at a time, without
  slippage.
- The drawdown inside a bar leaves out the commission of the exit that follows.

## 6. Not modelled

- Within the modelled parts: the scan's batch cap (and which stuck trades it can
  starve), fill columns and audit rows of the worker but the one an order waits for; the dormant futures branch of
  `flatten.ts` and calls of `BinanceAdapter.ts`; of the demo runs the reinvested bank, the
  run counter, capital and profit, `onlyIfCapitalAvailable` off, and runs a user
  starts under a name the loop takes for its own; of the backtests percentage levels and
  drawdown, warm-up, sizing and the figures derived from the trades.
- Execution service: key vault, owners' fund and approvals, reconciliation report,
  envelope and signature. The approvals are one locked transaction per call.
- The live order engine of the StrateTeach backend is retired (`exchange.py:39-48` refuses
  every call), and with it the live AutoPilot loops.
- Observability (heartbeat, status, alerts), Vault and egress, provisioning: I/O, or
  single transactions with no state a modelled part depends on.
- The dashboard and the operator frontend, by far the largest part of the repository,
  and the backend's research, indicators, reports, plans and billing: presentation and
  formulas. They keep no shared state of their own between requests, and a model
  of them would restate their text.

## 7. Plan

Done: the order path with its intake, bot control and money; the execution service; the
demo runs; the backtest engines; a proof of every safety property, and of the
refinement. What would add most next:

1. The batch cap of `resolvePendingReconciliations`, as a constant of `TradeWorker`.
2. An abstract specification of the execution service (claimed, decided, done) and of the
   intake, with proofs that they implement it as `ImplementsLedger` has for the worker.
3. The owners' approvals of the execution service, with their expiry.
