---------------------------- MODULE TradeWorker ----------------------------
(***************************************************************************)
(* The order pipeline of the Praxis worker (worker/src/index.ts,           *)
(* processMessage and its helpers) together with what it shares state      *)
(* with: the pgmq queue it polls, the trades / reconciliation_jobs /       *)
(* trades_dlq / proposed_trades tables, the bot row, the exchange, the     *)
(* read-only reconciliation resolver (worker/src/reconciliation.ts) that   *)
(* runs at boot and on a timer, and the Edge functions that approve a      *)
(* proposed order and arm or pause a bot.                                  *)
(*                                                                         *)
(* Every step of a worker is one awaited call to the database or to the    *)
(* exchange, so that crashes, redeliveries, other workers, the resolver    *)
(* and the owner's requests interleave between any two of them.            *)
(***************************************************************************)
EXTENDS Naturals, FiniteSets

CONSTANTS
    Bot, Signal,       \* bots, and (bot_id, signal_id) pairs
    BotOf,             \* the bot a signal belongs to
    Buy,               \* the signals to buy; the others sell
    Worker,            \* worker processes (one per running container)
    NoMsg, NoSignal,   \* sentinels: nothing held, nothing being resolved
    OpaqueAnswers,     \* the exchange may answer with an order status that the
                       \* adapter maps to 'unknown'
    MaxFailures,       \* MAX_CONSECUTIVE_FAILURES
    MaxCap,            \* bound: daily caps, in buys of the size the bot makes
    ScanEnabled,       \* RECONCILIATION_SCAN_ENABLED
    AuditFailClosed,   \* PRAXIS_IS_PRODUCTION and AUDIT_FAIL_CLOSED_ENABLED
    Timely,            \* a message is done with, and its order visible on the
                       \* exchange, before the visibility timeout and the
                       \* reconciliation threshold run out
    MaxCopies,         \* bound: copies of a signal's message in the queue
    MaxCrashes,        \* bound: worker crashes
    MaxDbErrors,       \* bound: failed database writes
    MaxOps             \* bound: arm and pause requests

OrderStatus == {"submitted", "filled", "cancelled", "failed", "unknown"}
TradeStatus == OrderStatus \cup {"none", "pending", "simulated"}
Terminal    == {"filled", "cancelled", "failed"}
Modes       == {"simulation", "live"}

\* A message of the trade_signals queue. Copy tells apart the messages that
\* carry the same signal (a requeued webhook, say); pgmq gives each its id.
Message == [sig : Signal, approved : BOOLEAN, copy : 1..MaxCopies]

BotRow == [status : {"active", "paused", "error"}, enabled : BOOLEAN,
           mode : Modes, failures : 0..MaxFailures, cap : 0..MaxCap]

\* Where a worker is between two awaited calls.
Steps == {"boot", "resolve", "poll", "bot", "dup", "guard", "cred", "market",
          "mode", "reserve", "audit", "order", "lookup", "settle", "inline",
          "mark", "job", "reset", "breaker", "deadletter", "revoke",
          "disable", "pause", "ack"}

\* What createOrder, or the inline fetchOrder after it, came back with.
Answers == OrderStatus \cup {"nothing", "rejected", "auth", "authip",
                             "timeout", "notfound", "unreachable"}

ASSUME ConstantsOK ==
    /\ BotOf \in [Signal -> Bot] /\ Buy \subseteq Signal
    /\ {MaxFailures, MaxCap, MaxCopies} \subseteq Nat \ {0}
    /\ {OpaqueAnswers, ScanEnabled, AuditFailClosed, Timely} \subseteq BOOLEAN
    /\ {MaxCrashes, MaxDbErrors, MaxOps} \subseteq Nat
    /\ NoMsg \notin Message
    /\ NoSignal \notin Signal

VARIABLES
    queue,     \* messages in pgmq: a subset of Message
    hidden,    \* those of them under a visibility timeout
    bots,      \* the bots table: [Bot -> BotRow]
    creds,     \* status of each bot's credential
    trade,     \* status of the signal's trades row ("none": no row;
               \* "simulated": a filled row with simulated = true)
    aged,      \* signals whose row is older than the reconciliation threshold
    job,       \* status of the trade's reconciliation_jobs row
    dlq,       \* signals with a trades_dlq row
    proposal,  \* status of the signal's proposed_trades row ("lapsed": still
               \* pending, its expires_at in the past)
    unsent,    \* approved proposals whose message approve-order has not sent
    audited,   \* signals with a trade.created row in audit_log
    placed,    \* createOrder calls made for the signal
    exch,      \* the order's true state on the exchange ("lagging": accepted,
               \* not yet visible to fetchOrder)
    pc, msg,   \* each worker's step and the message it holds
    seen,      \* the bot row it read at step 1
    resp,      \* the last answer of the exchange
    scan,      \* each worker's resolver
    crashes, dbErrors, ops   \* what is used up of the bounds

queueVars    == <<queue, hidden>>
controlVars  == <<bots, creds>>
recordVars   == <<trade, aged, job, dlq>>
approvalVars == <<proposal, unsent>>
orderVars    == <<audited, placed, exch>>
workerVars   == <<pc, msg, seen, resp>>
boundVars    == <<crashes, dbErrors, ops>>
vars == <<queueVars, controlVars, recordVars, approvalVars, orderVars,
          workerVars, scan, boundVars>>

\* Everything but the worker's own registers.
worldVars == <<queueVars, controlVars, recordVars, approvalVars,
               orderVars, scan, boundVars>>

Sig(w) == msg[w].sig
BotAt(w) == BotOf[Sig(w)]

NoRow == [status |-> "paused", enabled |-> FALSE, mode |-> "simulation",
          failures |-> 0, cap |-> 0]
IdleScan == [at |-> "idle", sig |-> NoSignal, found |-> "nothing"]
ScanState == [at : {"idle", "lookup", "finalize", "close"},
              sig : Signal \cup {NoSignal}, found : OrderStatus \cup {"nothing"}]

QueueTypes    == queue \subseteq Message /\ hidden \subseteq queue
ControlTypes  == bots \in [Bot -> BotRow] /\ creds \in [Bot -> {"valid", "invalid"}]
RecordTypes   ==
    /\ trade \in [Signal -> TradeStatus]
    /\ aged \subseteq Signal
    /\ job \in [Signal -> {"none", "pending", "resolved", "failed"}]
    /\ dlq \subseteq Signal
ApprovalTypes ==
    /\ proposal \in [Signal -> {"none", "pending", "lapsed", "approved",
                                "rejected", "expired"}]
    /\ unsent \subseteq Signal
OrderTypes    ==
    /\ audited \subseteq Signal
    /\ placed \in [Signal -> Nat]
    /\ exch \in [Signal -> {"none", "lagging", "submitted", "filled",
                            "cancelled", "failed"}]
WorkerTypes   ==
    /\ pc \in [Worker -> Steps]
    /\ msg \in [Worker -> Message \cup {NoMsg}]
    /\ seen \in [Worker -> BotRow]
    /\ resp \in [Worker -> Answers]
    /\ \A w \in Worker : (msg[w] = NoMsg) = (pc[w] \in {"boot", "resolve", "poll"})
ScanTypes     ==
    /\ scan \in [Worker -> ScanState]
    /\ \A w \in Worker :
         /\ scan[w].at # "idle" => scan[w].sig \in Signal
         /\ scan[w].at = "finalize" => scan[w].found \in Terminal
BoundTypes    == {crashes, dbErrors, ops} \subseteq Nat

\* Every variable is of its type; a worker holds a message just while it works
\* on one (pollOnce), and a resolver finalizes a trade with a terminal status
\* only (resolveStuckTrade).
TypeOK ==
    /\ QueueTypes /\ ControlTypes /\ RecordTypes /\ ApprovalTypes
    /\ OrderTypes /\ WorkerTypes /\ ScanTypes /\ BoundTypes

\* A worker process starting on a backlog of webhook signals of armed bots,
\* within one UTC day.
Init ==
    /\ queue = [sig : Signal, approved : {FALSE}, copy : 1..MaxCopies]
    /\ hidden = {}
    /\ \E m \in [Bot -> Modes], cap \in [Bot -> 1..MaxCap] :
         bots = [b \in Bot |-> [status |-> "active", enabled |-> TRUE,
                                mode |-> m[b], failures |-> 0, cap |-> cap[b]]]
    /\ creds = [b \in Bot |-> "valid"]
    /\ trade = [s \in Signal |-> "none"]
    /\ aged = {} /\ dlq = {} /\ unsent = {} /\ audited = {}
    /\ job = [s \in Signal |-> "none"]
    /\ proposal = [s \in Signal |-> "none"]
    /\ placed = [s \in Signal |-> 0]
    /\ exch = [s \in Signal |-> "none"]
    /\ pc = [w \in Worker |-> "boot"]
    /\ msg = [w \in Worker |-> NoMsg]
    /\ seen = [w \in Worker |-> NoRow]
    /\ resp = [w \in Worker |-> "nothing"]
    /\ scan = [w \in Worker |-> IdleScan]
    /\ crashes = 0 /\ dbErrors = 0 /\ ops = 0

-----------------------------------------------------------------------------
(* Helpers *)

Go(w, step) == pc' = [pc EXCEPT ![w] = step]

\* From one step of processMessage to the next, the message still held.
Step(w, from, to) ==
    /\ pc[w] = from
    /\ Go(w, to)
    /\ UNCHANGED <<msg, seen, resp>>

\* The worker forgets the message it held and is next at step.
Drop(w, step) ==
    /\ Go(w, step)
    /\ msg'  = [msg EXCEPT ![w] = NoMsg]
    /\ seen' = [seen EXCEPT ![w] = NoRow]
    /\ resp' = [resp EXCEPT ![w] = "nothing"]

DbFails == dbErrors < MaxDbErrors /\ dbErrors' = dbErrors + 1

\* An UPDATE of a trade's status whose error, if any, is not acted upon.
WriteTrade(s, status) ==
    \/ trade' = [trade EXCEPT ![s] = status] /\ UNCHANGED dbErrors
    \/ DbFails /\ UNCHANGED trade

\* Likewise for columns of a bot row.
WriteBot(b, row) ==
    \/ bots' = [bots EXCEPT ![b] = row] /\ UNCHANGED dbErrors
    \/ DbFails /\ UNCHANGED bots

\* upsert({trade_id}, ignoreDuplicates): a job that exists keeps its status.
JobsOpened(S) ==
    [s \in Signal |-> IF s \in S /\ job[s] = "none" THEN "pending" ELSE job[s]]

OpenJobFor(s) ==
    \/ job' = JobsOpened({s}) /\ UNCHANGED dbErrors
    \/ DbFails /\ UNCHANGED job

\* Mutant: only a trade that is over counts as a duplicate.
SignalTakenWhenOver(s) == trade[s] \in Terminal

\* UNIQUE(bot_id, signal_id): the signal has its trades row already.
SignalTaken(s) == trade[s] # "none"

\* A row that reconciliation selects.
Stuck(s) == s \in aged /\ trade[s] \in {"pending", "unknown"}

\* Mutant: the guard as it would be with the age condition on both statuses.
AmbiguousWhenAged(s) == Stuck(s)

\* Step 3.5: an unknown trade, or a pending one older than the threshold.
Ambiguous(s) == trade[s] = "unknown" \/ Stuck(s)

Blocked(b) == \E s \in Signal : BotOf[s] = b /\ Ambiguous(s)

\* The signal's trade is being worked on by a live worker.
InHand(s) ==
    \E w \in Worker : /\ pc[w] \in {"audit", "order", "lookup", "settle",
                                    "inline", "mark"}
                      /\ Sig(w) = s

\* What the adapter may make of an order that the exchange has as status.
Report(status) == IF OpaqueAnswers THEN {status, "unknown"} ELSE {status}

Visible == {"submitted", "filled", "cancelled", "failed"}

-----------------------------------------------------------------------------
(* Start of a worker process, and the queue *)

\* Boot reconciliation hands the stuck trades over to reconciliation_jobs.
Boot(w) ==
    /\ Step(w, "boot", "resolve")
    /\ \E S \in SUBSET {s \in Signal : Stuck(s)} :
         /\ job' = JobsOpened(S)
         /\ IF \E s \in Signal \ S : Stuck(s) THEN DbFails ELSE UNCHANGED dbErrors
    /\ UNCHANGED <<queueVars, controlVars, trade, aged, dlq, approvalVars,
                   orderVars, scan, crashes, ops>>

\* The boot's resolver pass is over (ScanPick and what follows are the pass).
EndResolve(w) ==
    /\ scan[w] = IdleScan
    /\ Step(w, "resolve", "poll")
    /\ UNCHANGED worldVars

\* pgmq_read(vt, 1).
Receive(w) ==
    /\ pc[w] = "poll"
    /\ \E m \in queue \ hidden :
         /\ hidden' = hidden \cup {m}
         /\ msg' = [msg EXCEPT ![w] = m]
    /\ Go(w, "bot")
    /\ UNCHANGED <<queue, controlVars, recordVars, approvalVars, orderVars,
                   seen, resp, scan, boundVars>>

\* { ack: true }: pgmq_delete, which may fail.
Ack(w) ==
    /\ pc[w] = "ack"
    /\ \/ /\ queue' = queue \ {msg[w]}
          /\ hidden' = hidden \ {msg[w]}
          /\ UNCHANGED dbErrors
       \/ DbFails /\ UNCHANGED queueVars
    /\ Drop(w, "poll")
    /\ UNCHANGED <<controlVars, recordVars, approvalVars, orderVars, scan,
                   crashes, ops>>

\* { ack: false }: the message stays hidden until its timeout.
Release(w) == Drop(w, "poll") /\ UNCHANGED worldVars

\* The visibility timeout of a message runs out.
Reappear(m) ==
    /\ m \in hidden
    /\ Timely => \A w \in Worker : msg[w] # m
    /\ hidden' = hidden \ {m}
    /\ UNCHANGED <<queue, controlVars, recordVars, approvalVars, orderVars,
                   workerVars, scan, boundVars>>

-----------------------------------------------------------------------------
(* processMessage, up to the reservation *)

\* Steps 1 and 2. The row read here is the one every later step decides on. A
\* failed read is taken for a bot that does not exist: the message is dropped.
ReadBot(w) ==
    /\ pc[w] = "bot"
    /\ \/ /\ bots[BotAt(w)].status = "active"
          /\ seen' = [seen EXCEPT ![w] = bots[BotAt(w)]]
          /\ Go(w, "dup")
          /\ UNCHANGED dbErrors
       \/ /\ IF bots[BotAt(w)].status = "active" THEN DbFails
             ELSE UNCHANGED dbErrors
          /\ Go(w, "ack")
          /\ UNCHANGED seen
    /\ UNCHANGED <<msg, resp, queueVars, controlVars, recordVars, approvalVars,
                   orderVars, scan, crashes, ops>>

\* Mutant: every existing trade is a duplicate, one that is unknown too.
CheckDuplicateNoTriage(w) ==
    /\ \/ Step(w, "dup", "guard") /\ ~SignalTaken(Sig(w))
       \/ Step(w, "dup", "ack") /\ SignalTaken(Sig(w))
    /\ UNCHANGED worldVars

\* Step 3. The error of the query is not looked at: it counts as no row.
CheckDuplicate(w) ==
    LET s == Sig(w) IN
    /\ \/ /\ Step(w, "dup", "guard")
          /\ UNCHANGED job
          /\ IF SignalTaken(s) THEN DbFails ELSE UNCHANGED dbErrors
       \/ /\ Step(w, "dup", "ack")
          /\ trade[s] = "unknown"
          /\ OpenJobFor(s)
       \/ /\ Step(w, "dup", "ack")
          /\ trade[s] \notin {"none", "unknown"}
          /\ UNCHANGED <<job, dbErrors>>
    /\ UNCHANGED <<queueVars, controlVars, trade, aged, dlq, approvalVars,
                   orderVars, scan, crashes, ops>>

\* Step 3.5. A failed query blocks too.
Guard(w) ==
    \/ pc[w] = "guard" /\ Release(w)
    \/ Step(w, "guard", "cred") /\ ~Blocked(BotAt(w)) /\ UNCHANGED worldVars

\* The bot, and nothing else, is stopped.
disableBotMisconfigured(b) == WriteBot(b, [bots[b] EXCEPT !.status = "error"])

\* Steps 4a to 4b: a credential that is missing, of another owner, not valid or
\* of a venue that is off stops the bot; a policy gate (the bot's kill switch is
\* one) turns the signal down; a read may fail.
CheckCredential(w) ==
    LET b == BotAt(w) IN
    \/ pc[w] = "cred" /\ Release(w)
    \/ /\ \/ Step(w, "cred", "ack")
          \/ Step(w, "cred", "market") /\ seen[w].enabled
       /\ creds[b] = "valid"
       /\ UNCHANGED worldVars
    \/ /\ Step(w, "cred", "ack")
       /\ disableBotMisconfigured(b)
       /\ UNCHANGED <<queueVars, creds, recordVars, approvalVars, orderVars,
                      scan, crashes, ops>>

\* Steps 5 and 6: market rules, balance and price, then the sizing, which goes
\* on, blocks or skips; the exchange may be down or refuse the credential.
ReadMarket(w) ==
    \/ pc[w] = "market" /\ Release(w)
    \/ \E next \in {"mode", "ack", "pause", "revoke"} :
         Step(w, "market", next) /\ UNCHANGED worldVars

\* INSERTs whose conflict or error is logged and ignored.
RecordSimulatedFill(s) ==
    \/ /\ trade' = IF SignalTaken(s) THEN trade
                   ELSE [trade EXCEPT ![s] = "simulated"]
       /\ UNCHANGED dbErrors
    \/ DbFails /\ UNCHANGED trade

ProposeOrder(s) ==
    \/ /\ proposal' = IF proposal[s] # "none" THEN proposal
                      ELSE [proposal EXCEPT ![s] = "pending"]
       /\ UNCHANGED dbErrors
    \/ DbFails /\ UNCHANGED proposal

\* Mutant: a live bot's order is proposed and goes ahead.
ChooseModeWithoutConsent(w) ==
    /\ \/ /\ seen[w].mode = "simulation"
          /\ Step(w, "mode", "ack")
          /\ RecordSimulatedFill(Sig(w))
          /\ UNCHANGED proposal
       \/ /\ seen[w].mode = "live"
          /\ Step(w, "mode", "reserve")
          /\ ProposeOrder(Sig(w))
          /\ UNCHANGED trade
    /\ UNCHANGED <<queueVars, controlVars, aged, job, dlq, unsent,
                   orderVars, scan, crashes, ops>>

\* Execution mode: a simulated fill, a proposal, or on to the real order.
ChooseMode(w) ==
    /\ \/ /\ seen[w].mode = "simulation"
          /\ Step(w, "mode", "ack")
          /\ RecordSimulatedFill(Sig(w))
          /\ UNCHANGED proposal
       \/ /\ seen[w].mode = "live" /\ ~msg[w].approved
          /\ Step(w, "mode", "ack")
          /\ ProposeOrder(Sig(w))
          /\ UNCHANGED trade
       \/ /\ seen[w].mode = "live" /\ msg[w].approved
          /\ Step(w, "mode", "reserve")
          /\ UNCHANGED <<trade, proposal, dbErrors>>
    /\ UNCHANGED <<queueVars, controlVars, aged, job, dlq, unsent,
                   orderVars, scan, crashes, ops>>

\* Mutant: a row that is still pending is taken up again after a redelivery.
ReserveResuming(w) ==
    LET s == Sig(w) IN
    /\ \/ Step(w, "reserve", "ack") /\ trade[s] \notin {"none", "pending"}
       \/ Step(w, "reserve", "audit") /\ trade[s] \in {"none", "pending"}
    /\ trade' = IF SignalTaken(s) THEN trade ELSE [trade EXCEPT ![s] = "pending"]
    /\ UNCHANGED <<queueVars, controlVars, aged, job, dlq, approvalVars,
                   orderVars, scan, boundVars>>

\* Mutant: an order that is open does not count against the cap yet.
SpentWhenFilled(b) ==
    Cardinality({s \in Buy : BotOf[s] = b
                   /\ trade[s] \in {"pending", "unknown", "filled", "simulated"}})

\* The day's buys that count against the bot's cap. A simulated fill's row is
\* a filled one; a sell's has no notional.
Spent(b) ==
    Cardinality({s \in Buy : BotOf[s] = b
                   /\ trade[s] \notin {"none", "failed", "cancelled"}})

\* insert_pending_trade_atomic under the bot's advisory lock, with the cap of
\* the row read at step 1; sells are exempt.
WithinCap(w) == Sig(w) \in Buy => Spent(BotAt(w)) < seen[w].cap

\* Step 7: the pending row, inserted before any createOrder. The call may fail
\* before or after it took effect; another limit may turn it down as well.
Reserve(w) ==
    LET s == Sig(w)
        reserved == [trade EXCEPT ![s] = "pending"]
        granted  == ~SignalTaken(s) /\ WithinCap(w)
    IN  /\ \/ /\ Step(w, "reserve", "ack")
              /\ UNCHANGED <<trade, dbErrors>>
           \/ /\ Step(w, "reserve", "audit")
              /\ granted
              /\ trade' = reserved
              /\ UNCHANGED dbErrors
           \/ /\ pc[w] = "reserve"
              /\ DbFails
              /\ Drop(w, "poll")
              /\ trade' \in {trade} \cup (IF granted THEN {reserved} ELSE {})
        /\ UNCHANGED <<queueVars, controlVars, aged, job, dlq, approvalVars,
                       orderVars, scan, crashes, ops>>

-----------------------------------------------------------------------------
(* processMessage, the order and what becomes of it *)

\* Mutant: the order goes ahead although its audit row was not written.
AuditCreatedAtBest(w) ==
    /\ Step(w, "audit", "order")
    /\ \/ audited' = audited \cup {Sig(w)} /\ UNCHANGED dbErrors
       \/ DbFails /\ UNCHANGED audited
    /\ UNCHANGED <<queueVars, controlVars, recordVars, approvalVars, placed,
                   exch, scan, crashes, ops>>

\* The trade.created audit row, without which the live tier sends no order. A
\* write that failed may have been made all the same.
AuditCreated(w) ==
    LET s == Sig(w) IN
    /\ \/ /\ Step(w, "audit", "order")
          /\ audited' = audited \cup {s}
          /\ UNCHANGED <<trade, dbErrors>>
       \/ /\ DbFails
          /\ IF AuditFailClosed
             THEN /\ Step(w, "audit", "ack")
                  /\ trade' \in {trade, [trade EXCEPT ![s] = "cancelled"]}
             ELSE Step(w, "audit", "order") /\ UNCHANGED trade
          /\ audited' \in {audited, audited \cup {s}}
    /\ UNCHANGED <<queueVars, controlVars, aged, job, dlq, approvalVars, placed,
                   exch, scan, crashes, ops>>

\* Step 8. The exchange accepts the order and says so, refuses it or the
\* credential, or the call ends with nothing known of either.
CreateOrder(w) ==
    LET s == Sig(w)
        Answered(status, answer) ==
            /\ exch' = [exch EXCEPT ![s] = status]
            /\ resp' = [resp EXCEPT ![w] = answer]
    IN  /\ pc[w] = "order"
        /\ placed' = [placed EXCEPT ![s] = @ + 1]
        /\ \/ /\ \E status \in Visible : \E answer \in Report(status) :
                   Answered(status, answer)
              /\ Go(w, "settle")
           \/ /\ \E answer \in {"rejected", "auth", "authip"} :
                   Answered("none", answer)
              /\ Go(w, "settle")
           \/ /\ \E status \in Visible \cup {"none", "lagging"} :
                   Answered(status, "timeout")
              /\ Go(w, "lookup")
        /\ UNCHANGED <<queueVars, controlVars, recordVars, approvalVars, audited,
                       msg, seen, scan, boundVars>>

\* fetchOrder on the order of signal s, when the exchange answers.
Found(s) == IF exch[s] \in Visible THEN Report(exch[s]) ELSE {"notfound"}

\* Branch 3: the one inline fetchOrder after a createOrder that timed out.
InlineLookup(w) ==
    /\ pc[w] = "lookup"
    /\ \E answer \in Found(Sig(w)) \cup {"unreachable"} :
         resp' = [resp EXCEPT ![w] = answer]
    /\ Go(w, "inline")
    /\ UNCHANGED <<msg, seen, worldVars>>

\* Only a filled or submitted order resets the circuit breaker.
AfterOrder(w) ==
    IF seen[w].failures > 0 /\ resp[w] \in {"filled", "submitted"}
    THEN "reset" ELSE "ack"

\* Step 9, and the trade's update in branches 0, 1 and 2 of step 10. Only the
\* error of step 9's is looked at, and it may come after the update was made.
Settle(w) ==
    LET s == Sig(w) IN
    /\ \/ /\ resp[w] \in OrderStatus
          /\ \/ /\ trade' = [trade EXCEPT ![s] = resp[w]]
                /\ Step(w, "settle",
                        IF resp[w] = "unknown" THEN "job" ELSE AfterOrder(w))
                /\ UNCHANGED dbErrors
             \/ /\ DbFails
                /\ trade' \in {trade, [trade EXCEPT ![s] = resp[w]]}
                /\ Step(w, "settle", "mark")
       \/ /\ resp[w] = "rejected"
          /\ Step(w, "settle", "breaker")
          /\ WriteTrade(s, "failed")
       \/ /\ resp[w] \in {"auth", "authip"}
          /\ Step(w, "settle", "deadletter")
          /\ WriteTrade(s, "failed")
    /\ UNCHANGED <<queueVars, controlVars, aged, job, dlq, approvalVars,
                   orderVars, scan, crashes, ops>>

\* Mutant: an order that was not found never reached the exchange.
InlineSettleNotFound(w) ==
    LET s == Sig(w) IN
    /\ \/ /\ resp[w] \in OrderStatus
          /\ Step(w, "inline", AfterOrder(w))
          /\ WriteTrade(s, resp[w])
       \/ /\ resp[w] = "notfound"
          /\ Step(w, "inline", "ack")
          /\ WriteTrade(s, "failed")
       \/ /\ resp[w] = "unreachable"
          /\ Step(w, "inline", "job")
          /\ WriteTrade(s, "unknown")
    /\ UNCHANGED <<queueVars, controlVars, aged, job, dlq, approvalVars,
                   orderVars, scan, crashes, ops>>

\* Branch 3's update: an order that was found has its status written (case A);
\* one that was not, or could not be looked up, is unknown (cases B and C).
InlineSettle(w) ==
    LET s == Sig(w) IN
    /\ \/ /\ resp[w] \in OrderStatus
          /\ Step(w, "inline", AfterOrder(w))
          /\ WriteTrade(s, resp[w])
       \/ /\ resp[w] \in {"notfound", "unreachable"}
          /\ Step(w, "inline", "job")
          /\ WriteTrade(s, "unknown")
    /\ UNCHANGED <<queueVars, controlVars, aged, job, dlq, approvalVars,
                   orderVars, scan, crashes, ops>>

\* Step 9's update failed: mark the trade unknown.
MarkUnknown(w) ==
    /\ Step(w, "mark", "job")
    /\ WriteTrade(Sig(w), "unknown")
    /\ UNCHANGED <<queueVars, controlVars, aged, job, dlq, approvalVars,
                   orderVars, scan, crashes, ops>>

OpenJob(w) ==
    /\ Step(w, "job", "ack")
    /\ OpenJobFor(Sig(w))
    /\ UNCHANGED <<queueVars, controlVars, trade, aged, dlq, approvalVars,
                   orderVars, scan, crashes, ops>>

\* The writes to the bot row that follow an order or a refusal.
WriteBotStep(w, from, to, row) ==
    /\ Step(w, from, to)
    /\ WriteBot(BotAt(w), row)
    /\ UNCHANGED <<queueVars, creds, recordVars, approvalVars, orderVars,
                   scan, crashes, ops>>

ResetFailures(w) ==
    WriteBotStep(w, "reset", "ack", [bots[BotAt(w)] EXCEPT !.failures = 0])

\* Mutant: the refusal that trips the breaker ends there, with no dead letter.
TripBreakerAndStop(w) ==
    LET tripped  == seen[w].failures + 1 >= MaxFailures
        row      == bots[BotAt(w)]
    IN  IF tripped
        THEN WriteBotStep(w, "breaker", "ack",
               [row EXCEPT !.failures = MaxFailures, !.status = "error"])
        ELSE WriteBotStep(w, "breaker", "deadletter",
               [row EXCEPT !.failures = seen[w].failures + 1])

\* consecutive_failures is written from the row read at step 1, plus one
\* (counted here no further than MaxFailures).
TripBreaker(w) ==
    LET tripped  == seen[w].failures + 1 >= MaxFailures
        row      == bots[BotAt(w)]
    IN  WriteBotStep(w, "breaker", "deadletter",
          IF tripped THEN [row EXCEPT !.failures = MaxFailures, !.status = "error"]
          ELSE [row EXCEPT !.failures = seen[w].failures + 1])

DeadLetter(w) ==
    /\ Step(w, "deadletter", CASE resp[w] = "authip" -> "pause"
                               [] resp[w] = "auth"   -> "revoke"
                               [] OTHER              -> "ack")
    /\ \/ dlq' = dlq \cup {Sig(w)} /\ UNCHANGED dbErrors
       \/ DbFails /\ UNCHANGED dlq
    /\ UNCHANGED <<queueVars, controlVars, trade, aged, job, approvalVars,
                   orderVars, scan, crashes, ops>>

\* disableCredentialAndBot: the credential, then the bot.
RevokeCredential(w) ==
    /\ Step(w, "revoke", "disable")
    /\ \/ creds' = [creds EXCEPT ![BotAt(w)] = "invalid"] /\ UNCHANGED dbErrors
       \/ DbFails /\ UNCHANGED creds
    /\ UNCHANGED <<queueVars, bots, recordVars, approvalVars, orderVars,
                   scan, crashes, ops>>

DisableBot(w) ==
    WriteBotStep(w, "disable", "ack", [bots[BotAt(w)] EXCEPT !.status = "error"])

\* pauseBotForAuthAttention.
PauseForAttention(w) ==
    WriteBotStep(w, "pause", "ack",
        [bots[BotAt(w)] EXCEPT !.enabled = FALSE, !.status = "paused"])

ProcessMessage(w) ==
    \/ ReadBot(w) \/ CheckDuplicate(w) \/ Guard(w) \/ CheckCredential(w)
    \/ ReadMarket(w) \/ ChooseMode(w) \/ Reserve(w) \/ AuditCreated(w)
    \/ CreateOrder(w) \/ InlineLookup(w) \/ Settle(w) \/ InlineSettle(w)
    \/ MarkUnknown(w) \/ OpenJob(w) \/ ResetFailures(w) \/ TripBreaker(w)
    \/ DeadLetter(w) \/ RevokeCredential(w) \/ DisableBot(w)
    \/ PauseForAttention(w)

-----------------------------------------------------------------------------
(* The resolver: one pass at boot, then a scan on a timer if it is enabled.  *)
(* It only ever reads the exchange.                                          *)

\* The boot pass, or a tick of the timer that finds no scan in flight.
ScanDue(w) ==
    /\ scan[w] = IdleScan
    /\ pc[w] = "resolve" \/ (ScanEnabled /\ pc[w] # "boot")

\* defaultAdapterFor: no adapter, and no lookup, without a valid credential.
AdapterFor(s) == creds[BotOf[s]] = "valid"

\* Mutant: the resolver works through the jobs, not through the trades.
ScanPickByJob(w, s) ==
    /\ ScanDue(w)
    /\ Stuck(s) /\ job[s] = "pending"
    /\ AdapterFor(s)
    /\ scan' = [scan EXCEPT ![w] = [at |-> "lookup", sig |-> s, found |-> "nothing"]]
    /\ UNCHANGED <<queueVars, controlVars, recordVars, approvalVars,
                   orderVars, workerVars, boundVars>>

ScanPick(w, s) ==
    /\ ScanDue(w)
    /\ Stuck(s)
    /\ AdapterFor(s)
    /\ scan' = [scan EXCEPT ![w] = [at |-> "lookup", sig |-> s, found |-> "nothing"]]
    /\ UNCHANGED <<queueVars, controlVars, recordVars, approvalVars,
                   orderVars, workerVars, boundVars>>

\* Mutant: an order that is open gets its trade and its job settled as well.
ScanVerdictWhenOpen(w) ==
    LET s == scan[w].sig IN
    /\ scan[w].at = "lookup"
    /\ \E answer \in Found(s) \ {"unknown"} :
         scan' = [scan EXCEPT ![w].at = "finalize",
                    ![w].found = IF answer = "notfound" THEN "failed" ELSE answer]
    /\ UNCHANGED <<queueVars, controlVars, recordVars, approvalVars,
                   orderVars, workerVars, boundVars>>

\* fetchOrder gave a verdict: the order's terminal status, or no such order.
ScanVerdict(w) ==
    LET s == scan[w].sig IN
    /\ scan[w].at = "lookup"
    /\ \E answer \in Found(s) \cap (Terminal \cup {"notfound"}) :
         scan' = [scan EXCEPT ![w].at = "finalize",
                    ![w].found = IF answer = "notfound" THEN "failed" ELSE answer]
    /\ UNCHANGED <<queueVars, controlVars, recordVars, approvalVars,
                   orderVars, workerVars, boundVars>>

\* The order is open, or the exchange says nothing useful or is unreachable.
ScanInconclusive(w) ==
    /\ scan[w].at = "lookup"
    /\ scan' = [scan EXCEPT ![w] = IdleScan]
    /\ UNCHANGED <<queueVars, controlVars, recordVars, approvalVars,
                   orderVars, workerVars, boundVars>>

\* The exchange refuses the credential: the job is failed, the trade is not.
ScanRefused(w) ==
    LET s == scan[w].sig IN
    /\ scan[w].at = "lookup"
    /\ scan' = [scan EXCEPT ![w] = IdleScan]
    /\ \/ /\ job' = IF job[s] = "pending" THEN [job EXCEPT ![s] = "failed"] ELSE job
          /\ UNCHANGED dbErrors
       \/ DbFails /\ UNCHANGED job
    /\ UNCHANGED <<queueVars, controlVars, trade, aged, dlq, approvalVars,
                   orderVars, workerVars, crashes, ops>>

\* updateTradeStatus: UPDATE ... WHERE status IN ('pending','unknown'). With no
\* row updated the trade was settled by another path and the job is let be.
ScanFinalize(w) ==
    LET s == scan[w].sig IN
    /\ scan[w].at = "finalize"
    /\ \/ /\ trade[s] \in {"pending", "unknown"}
          /\ trade' = [trade EXCEPT ![s] = scan[w].found]
          /\ scan' = [scan EXCEPT ![w].at = "close"]
          /\ UNCHANGED dbErrors
       \/ /\ IF trade[s] \in {"pending", "unknown"} THEN DbFails
             ELSE UNCHANGED dbErrors
          /\ scan' = [scan EXCEPT ![w] = IdleScan]
          /\ UNCHANGED trade
    /\ UNCHANGED <<queueVars, controlVars, aged, job, dlq, approvalVars,
                   orderVars, workerVars, crashes, ops>>

\* updateJob: UPDATE ... WHERE status = 'pending'.
ScanClose(w) ==
    LET s == scan[w].sig IN
    /\ scan[w].at = "close"
    /\ \/ /\ job' = IF job[s] = "pending" THEN [job EXCEPT ![s] = "resolved"] ELSE job
          /\ UNCHANGED dbErrors
       \/ DbFails /\ UNCHANGED job
    /\ scan' = [scan EXCEPT ![w] = IdleScan]
    /\ UNCHANGED <<queueVars, controlVars, trade, aged, dlq, approvalVars,
                   orderVars, workerVars, crashes, ops>>

Resolver(w) ==
    \/ \E s \in Signal : ScanPick(w, s)
    \/ ScanVerdict(w) \/ ScanInconclusive(w) \/ ScanRefused(w)
    \/ ScanFinalize(w) \/ ScanClose(w)

\* The process dies, between any two of its calls.
Crash(w) ==
    /\ crashes < MaxCrashes
    /\ crashes' = crashes + 1
    /\ pc[w] # "boot"
    /\ Drop(w, "boot")
    /\ scan' = [scan EXCEPT ![w] = IdleScan]
    /\ UNCHANGED <<queueVars, controlVars, recordVars, approvalVars,
                   orderVars, dbErrors, ops>>

-----------------------------------------------------------------------------
(* Time, the exchange, and the owner's requests *)

\* A trade gets older than the threshold (which matters only to one that is
\* pending or unknown).
Age(s) ==
    /\ s \notin aged
    /\ trade[s] \in {"pending", "unknown"}
    /\ Timely => ~InHand(s) /\ exch[s] # "lagging"
    /\ aged' = aged \cup {s}
    /\ UNCHANGED <<queueVars, controlVars, trade, job, dlq, approvalVars,
                   orderVars, workerVars, scan, boundVars>>

\* An accepted order comes to light, or an open one is closed.
ExchangeMoves(s) ==
    /\ \/ exch[s] = "lagging" /\ \E status \in Visible :
            exch' = [exch EXCEPT ![s] = status]
       \/ exch[s] = "submitted" /\ \E status \in Terminal :
            exch' = [exch EXCEPT ![s] = status]
    /\ UNCHANGED <<queueVars, controlVars, recordVars, approvalVars, audited,
                   placed, workerVars, scan, boundVars>>

Decide(s, from, to) ==
    /\ proposal[s] \in from
    /\ proposal' = [proposal EXCEPT ![s] = to]

ProposalUnchanged == <<controlVars, recordVars, orderVars, workerVars, scan,
                       boundVars>>

\* The expires_at of a proposal passes; the sweep, if enabled, expires it.
Lapse(s) ==
    Decide(s, {"pending"}, "lapsed") /\ UNCHANGED <<queueVars, unsent, ProposalUnchanged>>

ExpireProposal(s) ==
    Decide(s, {"lapsed"}, "expired") /\ UNCHANGED <<queueVars, unsent, ProposalUnchanged>>

\* reject-order, and approve-order's update: WHERE status = 'pending'.
RejectOrder(s) ==
    /\ Decide(s, {"pending", "lapsed"}, "rejected")
    /\ UNCHANGED <<queueVars, unsent, ProposalUnchanged>>

ApproveOrder(s) ==
    /\ Decide(s, {"pending", "lapsed"}, "approved")
    /\ unsent' = unsent \cup {s}
    /\ UNCHANGED <<queueVars, ProposalUnchanged>>

\* approve-order's pgmq_send, which may fail or never be reached.
SendApproved(s) ==
    /\ s \in unsent
    /\ unsent' = unsent \ {s}
    /\ LET m == [sig |-> s, approved |-> TRUE, copy |-> 1]
       IN  queue' \in {queue, queue \cup {m}}
    /\ UNCHANGED <<hidden, proposal, ProposalUnchanged>>

\* arm-bot (the owner's choice of mode included), and pause-bot.
ArmBot(b, mode) ==
    /\ ops < MaxOps
    /\ ops' = ops + 1
    /\ creds[b] = "valid"
    /\ bots' = [bots EXCEPT ![b] = [@ EXCEPT !.status = "active", !.enabled = TRUE,
                                             !.mode = mode]]
    /\ UNCHANGED <<queueVars, creds, recordVars, approvalVars, orderVars,
                   workerVars, scan, crashes, dbErrors>>

PauseBot(b) ==
    /\ ops < MaxOps
    /\ ops' = ops + 1
    /\ bots' = [bots EXCEPT ![b] = [@ EXCEPT !.status = "paused", !.enabled = FALSE]]
    /\ UNCHANGED <<queueVars, creds, recordVars, approvalVars, orderVars,
                   workerVars, scan, crashes, dbErrors>>

WorkerStep(w) ==
    \/ Boot(w) \/ EndResolve(w) \/ Receive(w) \/ ProcessMessage(w) \/ Ack(w)
    \/ Resolver(w) \/ Crash(w)

SignalStep(s) ==
    \/ Age(s) \/ ExchangeMoves(s) \/ Lapse(s) \/ ExpireProposal(s)
    \/ RejectOrder(s) \/ ApproveOrder(s) \/ SendApproved(s)

Next ==
    \/ \E w \in Worker : WorkerStep(w)
    \/ \E s \in Signal : SignalStep(s)
    \/ \E m \in hidden : Reappear(m)
    \/ \E b \in Bot : PauseBot(b) \/ \E mode \in Modes : ArmBot(b, mode)

Spec == Init /\ [][Next]_vars

\* A worker that runs makes its next call; time passes; an order that was
\* accepted comes to light and is closed; the scan gets round to every stuck
\* trade, and the exchange does not refuse to answer for ever. A worker need
\* not receive a message, and no owner has to do anything.
Fairness ==
    /\ \A w \in Worker :
         /\ WF_vars(Boot(w) \/ EndResolve(w) \/ ProcessMessage(w) \/ Ack(w))
         /\ \A s \in Signal : SF_vars(ScanPick(w, s))
         /\ SF_vars(ScanVerdict(w))
         /\ WF_vars(ScanInconclusive(w) \/ ScanFinalize(w) \/ ScanClose(w))
    /\ \A s \in Signal : WF_vars(Age(s)) /\ WF_vars(ExchangeMoves(s))

FairSpec == Spec /\ Fairness

-----------------------------------------------------------------------------
(* Properties *)

\* A signal is sent to the exchange at most once, however often its message is
\* delivered, to however many workers, and wherever they crash (Step 3, Step 7
\* and UNIQUE(bot_id, signal_id)).
AtMostOneOrder == \A s \in Signal : placed[s] <= 1

\* An order has its own trades row, which no simulated fill took first (the
\* row is reserved before createOrder, index.ts Step 7), and in the live tier,
\* failing closed, a durable audit row of it as well (the HB-A gate).
OrderIsReserved ==
    \A s \in Signal : placed[s] > 0 =>
        /\ trade[s] \notin {"none", "simulated"}
        /\ AuditFailClosed => s \in audited

\* Only a signal whose proposal the owner approved is ever sent (045).
OrderIsApproved == \A s \in Signal : placed[s] > 0 => proposal[s] = "approved"

\* A trade recorded as over is over: no order the exchange holds, or may still
\* bring to light, lies behind a trade recorded as failed or cancelled, and no
\* trade is recorded as filled without its fill (Step 10 case B, the resolver).
NoHiddenPosition ==
    \A s \in Signal :
      /\ trade[s] = "filled" => exch[s] = "filled"
      /\ trade[s] \in {"failed", "cancelled"} =>
           exch[s] \notin {"lagging", "submitted", "filled"}

\* The buys of a day that are, or may yet turn out to be, on the exchange stay
\* within the bot's daily cap (migration 029), whatever became of their trades
\* meanwhile.
CapIsKept ==
    \A b \in Bot :
      Cardinality({s \in Buy : BotOf[s] = b
                     /\ exch[s] \in {"lagging", "submitted", "filled"}}) <= bots[b].cap

\* No signal is done with while its trade is unknown and no job says so: the
\* message is still to be redelivered, or a reconciliation job exists.
UnknownIsTracked ==
    \A s \in Signal :
      trade[s] = "unknown" /\ job[s] = "none" => \E m \in queue : m.sig = s

\* A job is closed as resolved only with the trade it is about terminal: an
\* open order's job stays open (resolveStuckTrade, [S4-3a P1 fix]).
ResolvedJobHasTerminalTrade ==
    \A s \in Signal : job[s] = "resolved" => trade[s] \in Terminal

\* The orders that were refused and have no dead letter, nor a worker that is
\* about to write one. (A failed trade that is aged may be the resolver's, of
\* an order that never came to light.)
Unlettered ==
    {s \in Signal : /\ placed[s] > 0 /\ exch[s] = "none"
                    /\ trade[s] = "failed" /\ s \notin aged \cup dlq
                    /\ \A w \in Worker :
                         pc[w] \in {"breaker", "deadletter"} => Sig(w) # s}

\* Every dead letter is of a failed trade with no order on the exchange, and
\* every refused order gets one, but for those that a crash or a failed write
\* took, each of which takes at most one (step 10, branches 0 to 2).
RefusalsAreLettered ==
    /\ \A s \in dlq : trade[s] = "failed" /\ exch[s] = "none"
    /\ Cardinality(Unlettered) <= crashes + dbErrors

Exposed(s) ==
    {t \in Signal \ {s} : BotOf[t] = BotOf[s]
                          /\ trade[t] \in {"pending", "unknown"} /\ placed[t] > 0}

\* No order is sent while another order of the bot is unknown (Step 3.5).
NoOrderWhileUnknown ==
    [][\A s \in Signal : placed'[s] > placed[s] =>
         \A t \in Exposed(s) : trade[t] # "unknown"]_vars

\* With the scan on, no trade stays pending or unknown for ever, unless the
\* bot's credential was lost (resolvePendingReconciliations skips those).
StuckResolves ==
    \A s \in Signal : []<>(\/ trade[s] \notin {"pending", "unknown"}
                           \/ creds[BotOf[s]] = "invalid")

\* A worker was told that its update of the signal's trade failed, which may
\* have been made all the same (step 9): what the row says is open.
InDoubt(s) == \E w \in Worker : pc[w] = "mark" /\ Sig(w) = s

EntryOf(s) ==
    IF trade[s] = "none" THEN "fresh"
    ELSE IF trade[s] \in Terminal \cup {"simulated"} /\ ~InDoubt(s) THEN "settled"
    ELSE "held"

\* The ledger of orders this implements, failed writes and crashes included: a
\* row that is not terminal, or in doubt, holds the signal's entry, and
\* createOrder sends it.
Ledger == INSTANCE OrderLedger WITH
    consent <- {s \in Signal : proposal[s] = "approved"},
    entry   <- [s \in Signal |-> EntryOf(s)],
    sent    <- {s \in Signal : placed[s] > 0}

KeepsLedger == Ledger!Spec
=============================================================================
