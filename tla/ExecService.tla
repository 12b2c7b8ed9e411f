----------------------------- MODULE ExecService -----------------------------
(***************************************************************************)
(* The StrateTeach execution service: how a signed intent becomes a row of *)
(* exec_signals (ingress.py), an item of exec_queue (queue.py), an order   *)
(* at the exchange and a row of exec_orders (worker.py), under the master  *)
(* gate and the kill switch (state.py) that the owners operate meanwhile.  *)
(*                                                                         *)
(* The ingress, each worker, the sweeper and each owner's console are      *)
(* processes; every database call is a transaction of its own, and a       *)
(* process may fail or die between two of them. EXECUTION_ARMED and the    *)
(* environment are taken as set: of the four conditions of the gate the    *)
(* model keeps the two that change while the service runs. Every order of  *)
(* a bot has its fixed_notional, so notionals are counted in orders.       *)
(***************************************************************************)
EXTENDS Naturals, FiniteSets

CONSTANTS
    Signal,       \* (bot, signal_id) pairs that may be delivered
    Bot,
    BotOf,        \* the bot of each signal
    Worker,       \* worker ids; one process_one loop each
    Owner,        \* consoles that may operate the gate
    NoSignal,     \* sentinel: a worker has no item
    MaxAttempts,  \* exec_queue.max_attempts
    DailyCap,     \* orders of fixed_notional that fit daily_notional_cap
    VenueDedups,  \* the venue refuses a client_order_id it has filled
    MaxFaults,    \* bound: crashes, exceptions, failed reads, slow workers
    MaxActs       \* bound: acts of the owners

ASSUME ConstantsOK ==
    /\ NoSignal \notin Signal
    /\ IsFiniteSet(Signal) /\ IsFiniteSet(Worker)
    /\ BotOf \in [Signal -> Bot]
    /\ {MaxAttempts, DailyCap} \subseteq Nat \ {0}
    /\ VenueDedups \in BOOLEAN
    /\ {MaxFaults, MaxActs} \subseteq Nat

VARIABLES
    signal,     \* exec_signals.status of the signal's row
    door,       \* step of the delivery that records the signal
    queue,      \* the signal's exec_queue row
    order,      \* exec_orders.status of the row sig-<signal_row_id>
    venue,      \* orders the exchange has filled for that client_order_id
    armed,      \* exec_state.execution_armed
    kill,       \* exec_state.kill_switch
    enabled,    \* exec_bots.trading_enabled
    at, item, on,  \* each worker's step, item, and trading_enabled as it read it
    console,    \* each owner's step inside engage/release_kill_switch
    halted,     \* history: signals stopped by a kill switch, bot not enabled since
    faults, acts   \* what is used up of the bounds

workerVars == <<at, item, on>>
gateVars   == <<armed, kill, enabled>>
boundVars  == <<faults, acts>>
vars == <<signal, door, queue, order, venue, gateVars, workerVars, console,
          halted, boundVars>>

Row == [st : {"none", "queued", "processing", "held", "done", "dead"},
        att : 0..MaxAttempts, by : Worker \cup {NoSignal}]
Steps == {"idle", "claimed", "loaded", "passed", "cleared", "noop", "refuse",
          "filled", "ack", "nack"}
PastGate == {"passed", "cleared", "filled"}   \* the gate was found open
Writing  == {"noop", "refuse", "filled"}      \* about to write the order row

\* Every variable keeps its type: no item's attempts pass max_attempts.
TypeOK ==
    /\ signal \in [Signal -> {"none", "accepted", "noop"}]
    /\ door \in [Signal -> {"idle", "open", "shut", "recorded", "gone"}]
    /\ queue \in [Signal -> Row]
    /\ order \in [Signal -> {"none", "noop", "rejected", "filled"}]
    /\ venue \in [Signal -> Nat]
    /\ armed \in BOOLEAN /\ kill \in BOOLEAN
    /\ enabled \in [Bot -> BOOLEAN]
    /\ at \in [Worker -> Steps]
    /\ item \in [Worker -> Signal \cup {NoSignal}]
    /\ \A w \in Worker : at[w] = "idle" <=> item[w] = NoSignal
    /\ on \in [Worker -> BOOLEAN]
    /\ console \in [Owner -> {"idle", "hold", "restore"}]
    /\ halted \subseteq Signal
    /\ faults \in 0..MaxFaults /\ acts \in 0..MaxActs

\* The service starts with nothing received, the gate as the owners left it.
Init ==
    /\ signal = [s \in Signal |-> "none"]
    /\ door = [s \in Signal |-> "idle"]
    /\ queue = [s \in Signal |-> [st |-> "none", att |-> 0, by |-> NoSignal]]
    /\ order = [s \in Signal |-> "none"]
    /\ venue = [s \in Signal |-> 0]
    /\ armed \in BOOLEAN /\ kill \in BOOLEAN
    /\ enabled \in [Bot -> BOOLEAN]
    /\ at = [w \in Worker |-> "idle"]
    /\ item = [w \in Worker |-> NoSignal]
    /\ on = [w \in Worker |-> FALSE]
    /\ console = [o \in Owner |-> "idle"]
    /\ halted = {}
    /\ faults = 0 /\ acts = 0

Fault == faults < MaxFaults /\ faults' = faults + 1 /\ UNCHANGED acts
Act   == acts < MaxActs /\ acts' = acts + 1 /\ UNCHANGED faults

GateOpen == armed /\ ~kill

-----------------------------------------------------------------------------
(* Ingress: a delivery that passes the contract checks, the bot lookup and *)
(* the rate limit. A refused delivery, or one of a signal on record,       *)
(* changes nothing and is no step.                                         *)

doorUnchanged == UNCHANGED <<order, venue, gateVars, workerVars, console, halted>>

\* read_gate classifies the signal; a gate that cannot be read is shut.
Classify(s) ==
    /\ door[s] = "idle"
    /\ \/ /\ door' = [door EXCEPT ![s] = IF GateOpen THEN "open" ELSE "shut"]
          /\ UNCHANGED boundVars
       \/ /\ door' = [door EXCEPT ![s] = "shut"]
          /\ Fault
    /\ UNCHANGED <<signal, queue>> /\ doorUnchanged

\* INSERT ... ON CONFLICT DO NOTHING and COMMIT, with the gate read before.
Record(s) ==
    /\ door[s] \in {"open", "shut"}
    /\ signal' = [signal EXCEPT ![s] = IF door[s] = "open" THEN "accepted" ELSE "noop"]
    /\ door' = [door EXCEPT ![s] = IF door[s] = "open" THEN "recorded" ELSE "gone"]
    /\ UNCHANGED <<queue, boundVars>> /\ doorUnchanged

\* enqueue, in a transaction of its own; the item is claimable at once.
Enqueue(s) ==
    /\ door[s] = "recorded"
    /\ queue' = [queue EXCEPT ![s].st = "queued"]
    /\ door' = [door EXCEPT ![s] = "gone"]
    /\ UNCHANGED <<signal, boundVars>> /\ doorUnchanged

\* The call fails or the process dies. Before the COMMIT the sender tries
\* again; after it, a new delivery is answered "duplicate" and goes nowhere.
DeliveryFails(s) ==
    /\ \/ door[s] \in {"open", "shut"} /\ door' = [door EXCEPT ![s] = "idle"]
       \/ door[s] = "recorded" /\ door' = [door EXCEPT ![s] = "gone"]
    /\ Fault
    /\ UNCHANGED <<signal, queue>> /\ doorUnchanged

-----------------------------------------------------------------------------
(* The worker: process_one.                                                *)

workUnchanged == UNCHANGED <<signal, door, gateVars, console, halted>>
Goes(w, step) == at' = [at EXCEPT ![w] = step]
\* process_one returns, or its process is gone: nothing of its locals is left.
Ends(w) ==
    /\ Goes(w, "idle")
    /\ item' = [item EXCEPT ![w] = NoSignal]
    /\ on' = [on EXCEPT ![w] = FALSE]
Owns(w) == queue[item[w]].st = "processing" /\ queue[item[w]].by = w

\* dequeue. The wait of visible_at runs at its own pace, so that any queued
\* item may be the oldest claimable one.
Claim(w, s) ==
    /\ at[w] = "idle"
    /\ queue[s].st = "queued"
    /\ queue' = [queue EXCEPT ![s].st = "processing", ![s].by = w]
    /\ item' = [item EXCEPT ![w] = s]
    /\ Goes(w, "claimed")
    /\ UNCHANGED <<order, venue, on, boundVars>> /\ workUnchanged

\* _load_context: the bot's row, trading_enabled included.
LoadContext(w) ==
    /\ at[w] = "claimed"
    /\ on' = [on EXCEPT ![w] = enabled[BotOf[item[w]]]]
    /\ Goes(w, "loaded")
    /\ UNCHANGED <<queue, order, venue, item, boundVars>> /\ workUnchanged

\* Mutant: the master gate alone decides.
CheckGateOfMaster(w) ==
    /\ at[w] = "loaded"
    /\ Goes(w, IF GateOpen THEN "passed" ELSE "noop")
    /\ UNCHANGED <<queue, order, venue, item, on, boundVars>> /\ workUnchanged

\* Mutant: a closed gate acks the item without an order row.
CheckGateSilently(w) ==
    /\ at[w] = "loaded"
    /\ Goes(w, IF GateOpen /\ on[w] THEN "passed" ELSE "ack")
    /\ UNCHANGED <<queue, order, venue, item, on, boundVars>> /\ workUnchanged

\* read_gate, AND trading_enabled as loaded. It never raises: a gate that
\* cannot be read is shut.
CheckGate(w) ==
    /\ at[w] = "loaded"
    /\ \/ Goes(w, IF GateOpen /\ on[w] THEN "passed" ELSE "noop") /\ UNCHANGED boundVars
       \/ Goes(w, "noop") /\ Fault
    /\ UNCHANGED <<queue, order, venue, item, on>> /\ workUnchanged

\* _usage: what counts against the bot's daily cap.
Used(b) == Cardinality({s \in Signal : BotOf[s] = b /\ order[s] = "filled"})

\* Mutant: the cap is compared with what is used, without the new order.
CheckCapsWithoutOrder(w) ==
    /\ at[w] = "passed"
    /\ Goes(w, IF Used(BotOf[item[w]]) <= DailyCap THEN "cleared" ELSE "refuse")
    /\ UNCHANGED <<queue, order, venue, item, on, boundVars>> /\ workUnchanged

\* _usage and sizing.decide. No row is ever pending, submitted or partially
\* filled: open_positions is 0 and max_open_positions refuses nothing.
CheckCaps(w) ==
    /\ at[w] = "passed"
    /\ Goes(w, IF Used(BotOf[item[w]]) + 1 <= DailyCap THEN "cleared" ELSE "refuse")
    /\ UNCHANGED <<queue, order, venue, item, on, boundVars>> /\ workUnchanged

\* adapter.submit_intent: the venue fills the order, and the answer may be
\* lost; or it knows the client_order_id and the adapter raises.
Submit(w) ==
    /\ at[w] = "cleared"
    /\ IF VenueDedups /\ venue[item[w]] > 0
       THEN Goes(w, "nack") /\ UNCHANGED <<venue, boundVars>>
       ELSE /\ venue' = [venue EXCEPT ![item[w]] = @ + 1]
            /\ \/ Goes(w, "filled") /\ UNCHANGED boundVars
               \/ Goes(w, "nack") /\ Fault
    /\ UNCHANGED <<queue, order, item, on>> /\ workUnchanged

RowOf(step) == CASE step = "noop" -> "noop" [] step = "refuse" -> "rejected"
                 [] step = "filled" -> "filled"

\* Mutant: ON CONFLICT DO UPDATE.
WriteOrderOver(w) ==
    /\ at[w] \in Writing
    /\ order' = [order EXCEPT ![item[w]] = RowOf(at[w])]
    /\ Goes(w, "ack")
    /\ UNCHANGED <<queue, venue, item, on, boundVars>> /\ workUnchanged

\* _write_order: ON CONFLICT (client_order_id) DO NOTHING keeps a row that is
\* there; the worker acks in either case.
WriteOrder(w) ==
    /\ at[w] \in Writing
    /\ order' = [order EXCEPT ![item[w]] = IF @ = "none" THEN RowOf(at[w]) ELSE @]
    /\ Goes(w, "ack")
    /\ UNCHANGED <<queue, venue, item, on, boundVars>> /\ workUnchanged

\* ack: only the lock's holder finishes the item.
Ack(w) ==
    /\ at[w] = "ack"
    /\ queue' = IF Owns(w) THEN [queue EXCEPT ![item[w]].st = "done"] ELSE queue
    /\ Ends(w)
    /\ UNCHANGED <<order, venue, boundVars>> /\ workUnchanged

\* Mutant: the retry does not count the attempt.
RetriedUncounted(row) == [row EXCEPT !.st = "queued", !.by = NoSignal]

\* One more attempt is used up: back to the queue, or dead at the cap.
Retried(row) == [st |-> IF row.att + 1 >= MaxAttempts THEN "dead" ELSE "queued",
                 att |-> row.att + 1, by |-> NoSignal]

\* nack, from the failure branches and from the except clause.
Nack(w) ==
    /\ at[w] = "nack"
    /\ queue' = IF Owns(w) THEN [queue EXCEPT ![item[w]] = Retried(@)] ELSE queue
    /\ Ends(w)
    /\ UNCHANGED <<order, venue, boundVars>> /\ workUnchanged

\* A call raises: the context, the usage, the credentials, the adapter before
\* it sends, the order row, the ack.
Raise(w) ==
    /\ at[w] \notin {"idle", "loaded", "nack"}
    /\ Goes(w, "nack")
    /\ Fault
    /\ UNCHANGED <<queue, order, venue, item, on>> /\ workUnchanged

\* The process dies, or the nack itself raises; the item stays processing.
Crash(w) ==
    /\ at[w] # "idle"
    /\ Ends(w)
    /\ Fault
    /\ UNCHANGED <<queue, order, venue>> /\ workUnchanged

\* sweep finds the lock older than the visibility timeout: its worker is
\* gone, or (a fault) slow and still at work.
Sweep(s) ==
    /\ queue[s].st = "processing"
    /\ IF \E w \in Worker : queue[s].by = w /\ item[w] = s
       THEN Fault ELSE UNCHANGED boundVars
    /\ queue' = [queue EXCEPT ![s] = Retried(@)]
    /\ UNCHANGED <<order, venue, workerVars>> /\ workUnchanged

-----------------------------------------------------------------------------
(* The owners: state.py, and the operator's own UPDATE of exec_bots.       *)

ownUnchanged == UNCHANGED <<signal, door, order, venue, workerVars>>

\* set_execution_armed.
SetArmed(o, b) ==
    /\ console[o] = "idle" /\ armed # b
    /\ armed' = b
    /\ Act
    /\ UNCHANGED <<queue, kill, enabled, console, halted>> /\ ownUnchanged

\* engage_kill_switch, first transaction: the switch and every bot.
Engage(o) ==
    /\ console[o] = "idle"
    /\ kill' = TRUE
    /\ enabled' = [b \in Bot |-> FALSE]
    /\ console' = [console EXCEPT ![o] = "hold"]
    /\ halted' = halted \cup
         (Signal \ {item[w] : w \in {v \in Worker : at[v] \notin {"idle", "claimed"}}})
    /\ Act
    /\ UNCHANGED <<queue, armed>> /\ ownUnchanged

\* hold_all, in a transaction of its own.
HoldAll(o) ==
    /\ console[o] = "hold"
    /\ queue' = [s \in Signal |->
                    IF queue[s].st = "queued" THEN [queue[s] EXCEPT !.st = "held"] ELSE queue[s]]
    /\ console' = [console EXCEPT ![o] = "idle"]
    /\ UNCHANGED <<gateVars, halted, boundVars>> /\ ownUnchanged

\* release_kill_switch, first transaction: neither execution_armed nor the
\* bots' switches are touched. It runs with the switch off as well: to release
\* once more is how items get free that a release left held.
ReleaseSwitch(o) ==
    /\ console[o] = "idle"
    /\ kill' = FALSE
    /\ console' = [console EXCEPT ![o] = "restore"]
    /\ Act
    /\ UNCHANGED <<queue, armed, enabled, halted>> /\ ownUnchanged

\* release_held: what is held is claimable now.
ReleaseHeld(o) ==
    /\ console[o] = "restore"
    /\ queue' = [s \in Signal |->
                    IF queue[s].st = "held" THEN [queue[s] EXCEPT !.st = "queued"] ELSE queue[s]]
    /\ console' = [console EXCEPT ![o] = "idle"]
    /\ UNCHANGED <<gateVars, halted, boundVars>> /\ ownUnchanged

\* The queue's transaction fails; the error is logged and swallowed.
QueueCallFails(o) ==
    /\ console[o] # "idle"
    /\ console' = [console EXCEPT ![o] = "idle"]
    /\ Fault
    /\ UNCHANGED <<queue, gateVars, halted>> /\ ownUnchanged

\* An owner switches a bot on again; no code of the service does.
EnableBot(b) ==
    /\ ~enabled[b]
    /\ enabled' = [enabled EXCEPT ![b] = TRUE]
    /\ halted' = {s \in halted : BotOf[s] # b}
    /\ Act
    /\ UNCHANGED <<queue, armed, kill, console>> /\ ownUnchanged

-----------------------------------------------------------------------------
Deliver(s) == Classify(s) \/ Record(s) \/ Enqueue(s) \/ DeliveryFails(s)
\* What process_one does with the item in hand.
Work(w) ==
    \/ LoadContext(w) \/ CheckGate(w) \/ CheckCaps(w) \/ Submit(w)
    \/ WriteOrder(w) \/ Ack(w) \/ Nack(w)
Operate(o) ==
    \/ \E b \in BOOLEAN : SetArmed(o, b)
    \/ Engage(o) \/ HoldAll(o) \/ ReleaseSwitch(o) \/ ReleaseHeld(o) \/ QueueCallFails(o)

Next ==
    \/ \E s \in Signal : Deliver(s) \/ Sweep(s)
    \/ \E w \in Worker : Work(w) \/ Raise(w) \/ Crash(w) \/ \E s \in Signal : Claim(w, s)
    \/ \E o \in Owner : Operate(o)
    \/ \E b \in Bot : EnableBot(b)

Spec == Init /\ [][Next]_vars

\* Workers finish what they claim and the sweeper runs. Strong fairness of a
\* claim stands for ORDER BY id over finitely many items, each of which is
\* claimed at most max_attempts times.
Fairness ==
    /\ \A w \in Worker : WF_vars(Work(w))
    /\ \A s \in Signal : WF_vars(Sweep(s)) /\ SF_vars(\E w \in Worker : Claim(w, s))
FairSpec == Spec /\ Fairness
-----------------------------------------------------------------------------
(* Properties *)

\* An item that is done has a decision on record: whatever crashed, was
\* swept or was taken over on the way, ack comes after the order row
\* (worker.py, process_one).
DoneIsDecided == \A s \in Signal : queue[s].st = "done" => order[s] # "none"

Sending(s) == {w \in Worker : at[w] \in {"claimed", "loaded", "passed", "cleared"} /\ item[w] = s}
Claims(s) == queue[s].att + (IF queue[s].st \in {"processing", "done"} THEN 1 ELSE 0)

\* The retry counter bounds what a signal can cost: the orders the venue has
\* filled for it, and the workers that may still send one, are never more
\* than the claims its attempts account for, slow and crashed workers
\* included (queue.py nack and sweep, worker.py process_one).
SendsAreClaimed == \A s \in Signal : venue[s] + Cardinality(Sending(s)) <= Claims(s)

Cleared(b) == {w \in Worker : at[w] \in {"cleared", "filled"} /\ BotOf[item[w]] = b}

\* The daily cap is read in one transaction and the order recorded in a later
\* one. Concurrent workers may pass it, but by no more than one order each
\* besides the one that fits (worker.py _usage, sizing.py decide).
CapOvershootIsBounded ==
    \A b \in Bot : Used(b) + Cardinality(Cleared(b)) <= DailyCap + Cardinality(Worker) - 1

\* What a kill switch found before the gate is not sent by its release: it
\* waits until an owner enables the bot again (state.py
\* engage_kill_switch, worker.py: the per-bot switch).
HaltedIsNotSent ==
    \A w \in Worker : at[w] \in PastGate => item[w] \notin halted

\* A decision stands: an item that is done or dead and an order row that is
\* written are changed by no later step, a late worker's, the sweeper's or
\* the kill switch's (queue.py, the status conditions of every UPDATE).
DecisionsStand ==
    [][\A s \in Signal :
        /\ queue[s].st \in {"done", "dead"} => queue'[s] = queue[s]
        /\ order[s] # "none" => order'[s] = order[s]]_vars

\* Every item the service takes up ends: done, dead-lettered, or parked by
\* the kill switch (worker.py process_one: "never lost").
ItemsEnd ==
    \A s \in Signal :
        queue[s].st \in {"queued", "processing"} ~> queue[s].st \in {"done", "dead", "held"}
=============================================================================
