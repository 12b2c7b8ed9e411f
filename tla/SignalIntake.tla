---------------------------- MODULE SignalIntake ----------------------------
(***************************************************************************)
(* How a TradingView alert becomes a message of the trade_signals queue:   *)
(* the webhook Edge function (webhook/index.ts from its step 7 on), the    *)
(* decision it takes on a repeated delivery (_shared/queue-recovery.ts),   *)
(* the claim_webhook_requeue function of migration 025 and the sweeper of  *)
(* the worker (worker/src/webhookRequeueSweeper.ts) that recovers what the *)
(* webhook committed and did not enqueue.                                  *)
(*                                                                         *)
(* A delivery is one invocation of the webhook; it may die between any two *)
(* of its awaited calls. A sweep is one chain of sweepOnce calls: every    *)
(* container runs a timer, and a timer does not wait for the previous      *)
(* sweep, so sweeps overlap. Requests the webhook turns down before step 7 *)
(* (token, rate limit, inactive bot, malformed body) change nothing here.  *)
(***************************************************************************)
EXTENDS Naturals, FiniteSets

CONSTANTS
    Signal,        \* (bot_id, signal_id) pairs
    Delivery,      \* webhook invocations
    Sweep,         \* concurrent sweeps; {} when the sweeper's flag is off
    NoSignal,      \* sentinel: a sweep is at no row
    MaxAttempts,   \* MAX_REQUEUE_ATTEMPTS
    Batch,         \* rows one claim takes at most
    Prompt,        \* a delivery is over before its row turns stale
    MaxCrashes,    \* bound: workers killed in a sweep
    MaxDbErrors    \* bound: failed status writes and counts

ASSUME ConstantsOK ==
    /\ NoSignal \notin Signal
    /\ IsFiniteSet(Delivery)
    /\ {MaxAttempts, Batch} \subseteq Nat \ {0}
    /\ Prompt \in BOOLEAN
    /\ {MaxCrashes, MaxDbErrors} \subseteq Nat

VARIABLES
    row,        \* the signal's webhook_logs row
    sends,      \* messages pgmq_send stored for the signal
    at, sig,    \* each delivery's step and signal
    answer,     \* what it answered: "ok" 200, "infra" 503
    sweep,      \* each sweep's step, claimed rows and row in hand
    reported,   \* signals a webhook_requeue_exhausted report has counted
    crashes, dbErrors   \* what is used up of the bounds

deliveryVars == <<at, sig, answer>>
boundVars    == <<crashes, dbErrors>>
vars == <<row, sends, deliveryVars, sweep, reported, boundVars>>

\* "stale": received STALE_ACCEPTED_SECONDS ago or earlier;
\* "leased": next_retry_at lies in the future.
Row == [status : {"none", "accepted", "queued", "queue_failed"},
        attempts : 0..MaxAttempts, stale : BOOLEAN, leased : BOOLEAN]
SweepState == [at : {"idle", "next", "mark"}, rows : SUBSET Signal,
               cur : Signal \cup {NoSignal}]

NoRow == [status |-> "none", attempts |-> 0, stale |-> FALSE, leased |-> FALSE]
NewRow == [NoRow EXCEPT !.status = "accepted"]
IdleSweep == [at |-> "idle", rows |-> {}, cur |-> NoSignal]

\* Every variable keeps its type: no row's requeue_attempts passes the cap.
TypeOK ==
    /\ row \in [Signal -> Row]
    /\ sends \in [Signal -> Nat]
    /\ at \in [Delivery -> {"new", "reload", "send", "queued", "failed", "done"}]
    /\ sig \in [Delivery -> Signal]
    /\ answer \in [Delivery -> {"none", "ok", "infra"}]
    /\ sweep \in [Sweep -> SweepState]
    /\ reported \subseteq Signal
    /\ crashes \in 0..MaxCrashes
    /\ dbErrors \in 0..MaxDbErrors

Init ==
    /\ row = [s \in Signal |-> NoRow]
    /\ sends = [s \in Signal |-> 0]
    /\ at = [d \in Delivery |-> "new"]
    /\ sig \in [Delivery -> Signal]
    /\ answer = [d \in Delivery |-> "none"]
    /\ sweep = [k \in Sweep |-> IdleSweep]
    /\ reported = {}
    /\ crashes = 0
    /\ dbErrors = 0

(***************************************************************************)
(* A write whose error nobody looks at: it is done, or it is not.          *)
(***************************************************************************)
DbFails == dbErrors < MaxDbErrors /\ dbErrors' = dbErrors + 1

WriteRow(s, r) ==
    \/ row' = [row EXCEPT ![s] = r] /\ UNCHANGED dbErrors
    \/ DbFails /\ UNCHANGED row

\* pgmq_send: stored and confirmed, or an error that tells nothing about
\* whether the message is stored.
Sent(s) == sends' = [sends EXCEPT ![s] = @ + 1]
SendError(s) == Sent(s) \/ UNCHANGED sends

Pending(r) == r.status \in {"accepted", "queue_failed"}
AtCap(r) == r.attempts >= MaxAttempts

\* UPDATE ... SET status='queued' WHERE status IN ('accepted','queue_failed').
MarkedQueued(r) == IF Pending(r) THEN [r EXCEPT !.status = "queued"] ELSE r

(***************************************************************************)
(* The webhook.                                                            *)
(***************************************************************************)
GoTo(d, step) == at' = [at EXCEPT ![d] = step] /\ UNCHANGED <<sig, answer>>

Respond(d, code) ==
    /\ at' = [at EXCEPT ![d] = "done"]
    /\ answer' = [answer EXCEPT ![d] = code]
    /\ UNCHANGED sig

\* Step 7: the upsert that ignores duplicates. Its error may hide a commit.
Upsert(d) ==
    /\ at[d] = "new"
    /\ IF row[sig[d]].status = "none"
       THEN \/ row' = [row EXCEPT ![sig[d]] = NewRow] /\ GoTo(d, "send")
            \/ row' = [row EXCEPT ![sig[d]] = NewRow] /\ Respond(d, "infra")
            \/ UNCHANGED row /\ Respond(d, "infra")
       ELSE UNCHANGED row /\ (GoTo(d, "reload") \/ Respond(d, "infra"))
    /\ UNCHANGED <<sends, sweep, reported, boundVars>>

decideDuplicateAction(r) ==
    CASE r.status = "queued" -> "dedup_success"
      [] r.status = "accepted" /\ ~r.stale -> "race_fresh_accepted"
      [] Pending(r) /\ (r.status = "accepted" => r.stale) ->
            IF AtCap(r) THEN "exhausted" ELSE "reenqueue"

\* Mutant: a duplicate is acknowledged whatever became of the original, as
\* before the recovery states existed.
DecidedSwallowing(d, decision) ==
    \/ decision = "reenqueue" /\ GoTo(d, "send")
    \/ decision /= "reenqueue" /\ Respond(d, "ok")

\* Step 8a: reload the row and decide on it. A failed read answers 503.
Decided(d, decision) ==
    \/ decision = "dedup_success" /\ Respond(d, "ok")
    \/ decision = "reenqueue" /\ GoTo(d, "send")
    \/ Respond(d, "infra")

Reload(d) ==
    /\ at[d] = "reload"
    /\ Decided(d, decideDuplicateAction(row[sig[d]]))
    /\ UNCHANGED <<row, sends, sweep, reported, boundVars>>

\* enqueueAndMark, first half.
Send(d) ==
    /\ at[d] = "send"
    /\ \/ Sent(sig[d]) /\ GoTo(d, "queued")
       \/ SendError(sig[d]) /\ GoTo(d, "failed")
    /\ UNCHANGED <<row, sweep, reported, boundVars>>

\* enqueueAndMark, second half. Only the write of success looks at the status
\* it overwrites.
MarkQueued(d) ==
    /\ at[d] = "queued"
    /\ WriteRow(sig[d], MarkedQueued(row[sig[d]]))
    /\ Respond(d, "ok")
    /\ UNCHANGED <<sends, sweep, reported, crashes>>

MarkFailed(d) ==
    /\ at[d] = "failed"
    /\ WriteRow(sig[d], [row[sig[d]] EXCEPT !.status = "queue_failed",
                                            !.leased = FALSE])
    /\ Respond(d, "infra")
    /\ UNCHANGED <<sends, sweep, reported, crashes>>

\* The platform kills the invocation: nobody hears of it again.
Die(d) ==
    /\ at[d] \in {"reload", "send", "queued", "failed"}
    /\ GoTo(d, "done")
    /\ UNCHANGED <<row, sends, sweep, reported, boundVars>>

(***************************************************************************)
(* The sweeper.                                                            *)
(***************************************************************************)
\* Mutant: the claim takes queue_failed rows only.
EligibleFailedOnly(s) ==
    /\ row[s].status = "queue_failed"
    /\ ~AtCap(row[s])
    /\ ~row[s].leased

Eligible(s) ==
    /\ Pending(row[s])
    /\ row[s].status = "accepted" => row[s].stale
    /\ ~AtCap(row[s])
    /\ ~row[s].leased

\* Mutant: the claim leases without counting the attempt.
ClaimedUncounted(r) == [r EXCEPT !.leased = TRUE]

Claimed(r) == [r EXCEPT !.attempts = @ + 1, !.leased = TRUE]

\* claim_webhook_requeue is one statement: a full batch of the eligible rows,
\* in whatever order they fall due. Its answer may be lost after it took effect.
Claim(k) ==
    /\ sweep[k].at = "idle"
    /\ \E rows \in SUBSET {s \in Signal : Eligible(s)} :
         /\ Cardinality(rows) <= Batch
         /\ \/ \A s \in Signal : Eligible(s) => s \in rows
            \/ Cardinality(rows) = Batch
         /\ row' = [s \in Signal |-> IF s \in rows THEN Claimed(row[s]) ELSE row[s]]
         /\ \/ sweep' = [sweep EXCEPT ![k] = [IdleSweep EXCEPT !.at = "next",
                                                                !.rows = rows]]
            \/ rows /= {} /\ UNCHANGED sweep
    /\ UNCHANGED <<sends, deliveryVars, reported, boundVars>>

\* Mutant: the row is marked before the send, so that an error leaves it
\* marked.
RequeueMarkingFirst(k) ==
    /\ sweep[k].at = "next"
    /\ \E s \in sweep[k].rows :
         /\ SendError(s)
         /\ sweep' = [sweep EXCEPT ![k].at = "mark", ![k].cur = s,
                                   ![k].rows = @ \ {s}]
    /\ UNCHANGED <<row, deliveryVars, reported, boundVars>>

\* The next claimed row is sent. On an error markError writes only
\* last_requeue_error, which nothing reads, and the sweep moves on.
Requeue(k) ==
    /\ sweep[k].at = "next"
    /\ \E s \in sweep[k].rows :
         \/ /\ Sent(s)
            /\ sweep' = [sweep EXCEPT ![k].at = "mark", ![k].cur = s,
                                      ![k].rows = @ \ {s}]
         \/ /\ SendError(s)
            /\ sweep' = [sweep EXCEPT ![k].rows = @ \ {s}]
    /\ UNCHANGED <<row, deliveryVars, reported, boundVars>>

MarkRequeued(k) ==
    /\ sweep[k].at = "mark"
    /\ WriteRow(sweep[k].cur, MarkedQueued(row[sweep[k].cur]))
    /\ sweep' = [sweep EXCEPT ![k].at = "next", ![k].cur = NoSignal]
    /\ UNCHANGED <<sends, deliveryVars, reported, crashes>>

\* reportExhausted, once the batch is done: best effort.
ReportExhausted(k) ==
    /\ sweep[k].at = "next"
    /\ sweep[k].rows = {}
    /\ \/ /\ reported' = reported \cup
                {s \in Signal : row[s].status = "queue_failed" /\ AtCap(row[s])}
          /\ UNCHANGED dbErrors
       \/ DbFails /\ UNCHANGED reported
    /\ sweep' = [sweep EXCEPT ![k] = IdleSweep]
    /\ UNCHANGED <<row, sends, deliveryVars, crashes>>

\* The worker dies in the middle of a batch; a new one starts over.
KillSweep(k) ==
    /\ crashes < MaxCrashes
    /\ sweep[k].at /= "idle"
    /\ sweep' = [sweep EXCEPT ![k] = IdleSweep]
    /\ crashes' = crashes + 1
    /\ UNCHANGED <<row, sends, deliveryVars, reported, dbErrors>>

(***************************************************************************)
(* Time passes.                                                            *)
(***************************************************************************)
TurnStale(s) ==
    /\ row[s].status /= "none"
    /\ ~row[s].stale
    /\ Prompt => \A d \in Delivery : sig[d] = s => at[d] \in {"new", "done"}
    /\ row' = [row EXCEPT ![s].stale = TRUE]
    /\ UNCHANGED <<sends, deliveryVars, sweep, reported, boundVars>>

LeaseExpires(s) ==
    /\ row[s].leased
    /\ row' = [row EXCEPT ![s].leased = FALSE]
    /\ UNCHANGED <<sends, deliveryVars, sweep, reported, boundVars>>

DeliveryStep(d) ==
    Upsert(d) \/ Reload(d) \/ Send(d) \/ MarkQueued(d) \/ MarkFailed(d) \/ Die(d)

SweepStep(k) ==
    Claim(k) \/ Requeue(k) \/ MarkRequeued(k) \/ ReportExhausted(k)

Next ==
    \/ \E d \in Delivery : DeliveryStep(d)
    \/ \E k \in Sweep : SweepStep(k) \/ KillSweep(k)
    \/ \E s \in Signal : TurnStale(s) \/ LeaseExpires(s)

Spec == Init /\ [][Next]_vars

\* The sweeps run on a timer and time passes. Nothing is asked of the webhook.
Fairness ==
    /\ \A k \in Sweep : WF_vars(SweepStep(k))
    /\ \A s \in Signal : WF_vars(TurnStale(s)) /\ WF_vars(LeaseExpires(s))

FairSpec == Spec /\ Fairness

(***************************************************************************)
(* Properties.                                                             *)
(***************************************************************************)

\* 'queued' is only ever written after a confirmed pgmq_send: whatever races
\* or dies, a row that says so has a message behind it.
QueuedMeansSent == \A s \in Signal : row[s].status = "queued" => sends[s] > 0

\* A 200 is a promise: the source of the alert will not deliver it again, so
\* a fresh delivery, a re-enqueue or a duplicate that is told 200 must find
\* the signal stored in the queue.
OkMeansSent == \A d \in Delivery : answer[d] = "ok" => sends[sig[d]] > 0

\* Copies are bounded: a signal is enqueued at most once per delivery that
\* got that far and once per attempt the claim has counted, however many
\* sweeps overlap and leases expire.
SendsAreCounted ==
    \A s \in Signal :
        sends[s] <= row[s].attempts +
            Cardinality({d \in Delivery : sig[d] = s /\ at[d] \notin {"new", "reload"}})

\* No silent loss: a committed row ends up enqueued, or at the attempt cap
\* where it is left for triage, though the webhook never comes back to it.
NoSilentLoss ==
    \A s \in Signal :
        row[s].status /= "none" ~> (row[s].status = "queued" \/ AtCap(row[s]))
=============================================================================
