---------------------- MODULE TradeWorkerTruthProofs ----------------------
(***************************************************************************)
(* More theorems about TradeWorker: what the trades table, the jobs and    *)
(* the dead letters say of the orders on the exchange, the daily cap, the  *)
(* guard against ordering while an order is unknown, that no unknown order *)
(* is forgotten, and that the pipeline implements OrderLedger. Most of     *)
(* them hold under a condition on the run, which each states.              *)
(***************************************************************************)
EXTENDS TradeWorkerProofs, FiniteSetTheorems

USE DEF queueVars, controlVars, recordVars, approvalVars, orderVars,
        workerVars, boundVars, worldVars, ProposalUnchanged

-----------------------------------------------------------------------------
(* What a step leaves alone *)

\* The steps at which a worker has its signal's row to itself: the order is
\* being placed or its outcome recorded (InHand), or its refusal is.
InHandSteps == {"audit", "order", "lookup", "settle", "inline", "mark"}
Owning      == InHandSteps \cup {"breaker", "deadletter"}

\* The steps between the reading of the bot row and the reservation, and those
\* between the guard and the order.
Reading == {"dup", "guard", "cred", "market", "mode", "reserve"}
Vetted  == {"cred", "market", "mode", "reserve", "audit", "order"}

\* No order, no age, no dead letter and no verdict changes, no trade but by a
\* simulated fill, no worker comes to own a row, and none stops on its way to a
\* dead letter unless it dies.
Calm ==
    /\ placed' = placed /\ exch' = exch /\ aged' = aged /\ dlq' = dlq
    /\ \A s \in Signal : \/ trade'[s] = trade[s]
                         \/ trade[s] = "none" /\ trade'[s] = "simulated"
    /\ \A s \in Signal : job'[s] = "resolved" => job[s] = "resolved"
    /\ \A w \in Worker : pc'[w] \in Owning =>
         pc'[w] = pc[w] /\ msg'[w] = msg[w] /\ resp'[w] = resp[w]
    /\ \A w \in Worker : scan'[w].at # "idle" => scan'[w] = scan[w]
    /\ \/ \A w \in Worker : pc[w] \in {"breaker", "deadletter"} =>
            pc'[w] = pc[w] /\ msg'[w] = msg[w]
       \/ \E w \in Worker : Crash(w)

\* Nothing that OrderLedger sees changes.
SameEntries ==
    /\ trade' = trade
    /\ \A s \in Signal : placed'[s] > 0 <=> placed[s] > 0
    /\ \A s \in Signal : proposal'[s] = "approved" <=> proposal[s] = "approved"
    /\ \A w \in Worker : pc'[w] = "mark" \/ pc[w] = "mark" =>
                           pc'[w] = pc[w] /\ msg'[w] = msg[w]

\* A bot's cap is never written, a worker that acts on a bot row read it, and
\* one that got past the guard found nothing ambiguous there.
CapsKept == \A b \in Bot : bots'[b].cap = bots[b].cap

Registers ==
    /\ CapsKept
    /\ \A w \in Worker : pc'[w] \in Reading =>
         /\ msg'[w] = msg[w]
         /\ \/ pc[w] \in Reading /\ seen'[w] = seen[w]
            \/ seen'[w] = bots[BotAt(w)]
    /\ \A w \in Worker : pc'[w] \in Vetted =>
         /\ msg'[w] = msg[w]
         /\ pc[w] \in Vetted \/ (~Blocked(BotAt(w)) /\ trade' = trade)

LEMMA WriteBotKeepsCap ==
    ASSUME ControlTypes, NEW b \in Bot, NEW row, row.cap = bots[b].cap,
           WriteBot(b, row)
    PROVE  CapsKept
  BY DEF ControlTypes, WriteBot, CapsKept

-----------------------------------------------------------------------------
(* One lemma per action: which of the three it keeps to *)

LEMMA QuietBoot ==
    ASSUME TypeOK, NEW w \in Worker, Boot(w)
    PROVE  Calm /\ SameEntries /\ Registers
<1>1. Calm
  BY DEF Boot, Step, Go, JobsOpened, TypeOK, WorkerTypes, RecordTypes,
     ScanTypes, Calm, Owning, InHandSteps
<1>2. SameEntries
  BY DEF Boot, Step, Go, JobsOpened, TypeOK, WorkerTypes, ApprovalTypes,
     SameEntries
<1>3. Registers
  BY DEF Boot, Step, Go, TypeOK, WorkerTypes, ControlTypes, BotRow, BotAt,
     Sig, Registers, CapsKept, Reading, Vetted
<1> QED
  BY <1>1, <1>2, <1>3

LEMMA QuietEndResolve ==
    ASSUME TypeOK, NEW w \in Worker, EndResolve(w)
    PROVE  Calm /\ SameEntries /\ Registers
<1>1. Calm
  BY DEF EndResolve, Step, Go, TypeOK, WorkerTypes, RecordTypes, ScanTypes,
     Calm, Owning, InHandSteps
<1>2. SameEntries
  BY DEF EndResolve, Step, Go, TypeOK, WorkerTypes, ApprovalTypes,
     SameEntries
<1>3. Registers
  BY DEF EndResolve, Step, Go, TypeOK, WorkerTypes, ControlTypes, BotRow,
     BotAt, Sig, Registers, CapsKept, Reading, Vetted
<1> QED
  BY <1>1, <1>2, <1>3

LEMMA QuietReceive ==
    ASSUME TypeOK, NEW w \in Worker, Receive(w)
    PROVE  Calm /\ SameEntries /\ Registers
<1>1. Calm
  BY DEF Receive, Go, TypeOK, WorkerTypes, RecordTypes, ScanTypes, Calm,
     Owning, InHandSteps
<1>2. SameEntries
  BY DEF Receive, Go, TypeOK, WorkerTypes, ApprovalTypes, SameEntries
<1>3. Registers
  BY DEF Receive, Go, TypeOK, WorkerTypes, ControlTypes, BotRow, BotAt, Sig,
     Registers, CapsKept, Reading, Vetted
<1> QED
  BY <1>1, <1>2, <1>3

LEMMA QuietAck ==
    ASSUME TypeOK, NEW w \in Worker, Ack(w)
    PROVE  Calm /\ SameEntries /\ Registers
<1>1. Calm
  BY DEF Ack, Drop, Go, TypeOK, WorkerTypes, RecordTypes, ScanTypes, Calm,
     Owning, InHandSteps
<1>2. SameEntries
  BY DEF Ack, Drop, Go, TypeOK, WorkerTypes, ApprovalTypes, SameEntries
<1>3. Registers
  BY DEF Ack, Drop, Go, TypeOK, WorkerTypes, ControlTypes, BotRow, BotAt,
     Sig, Registers, CapsKept, Reading, Vetted
<1> QED
  BY <1>1, <1>2, <1>3

LEMMA QuietReadBot ==
    ASSUME TypeOK, NEW w \in Worker, ReadBot(w)
    PROVE  Calm /\ SameEntries /\ Registers
<1>1. Calm
  BY DEF ReadBot, Go, TypeOK, WorkerTypes, RecordTypes, ScanTypes, Calm,
     Owning, InHandSteps
<1>2. SameEntries
  BY DEF ReadBot, Go, TypeOK, WorkerTypes, ApprovalTypes, SameEntries
<1>3. Registers
  BY DEF ReadBot, Go, TypeOK, WorkerTypes, ControlTypes, BotRow, BotAt, Sig,
     Registers, CapsKept, Reading, Vetted
<1> QED
  BY <1>1, <1>2, <1>3

LEMMA QuietCheckDuplicate ==
    ASSUME TypeOK, NEW w \in Worker, CheckDuplicate(w)
    PROVE  Calm /\ SameEntries /\ Registers
<1>1. Calm
  BY DEF CheckDuplicate, Step, Go, OpenJobFor, JobsOpened, TypeOK,
     WorkerTypes, RecordTypes, ScanTypes, Calm, Owning, InHandSteps
<1>2. SameEntries
  BY DEF CheckDuplicate, Step, Go, OpenJobFor, JobsOpened, TypeOK,
     WorkerTypes, ApprovalTypes, SameEntries
<1>3. Registers
  BY DEF CheckDuplicate, Step, Go, TypeOK, WorkerTypes, ControlTypes,
     BotRow, BotAt, Sig, Registers, CapsKept, Reading, Vetted
<1> QED
  BY <1>1, <1>2, <1>3

LEMMA QuietGuard ==
    ASSUME TypeOK, NEW w \in Worker, Guard(w)
    PROVE  Calm /\ SameEntries /\ Registers
<1>1. Calm
  BY DEF Guard, Step, Go, Release, Drop, TypeOK, WorkerTypes, RecordTypes,
     ScanTypes, Calm, Owning, InHandSteps
<1>2. SameEntries
  BY DEF Guard, Step, Go, Release, Drop, TypeOK, WorkerTypes, ApprovalTypes,
     SameEntries
<1>3. Registers
  BY DEF Guard, Step, Go, Release, Drop, TypeOK, WorkerTypes, ControlTypes,
     BotRow, BotAt, Sig, Registers, CapsKept, Reading, Vetted
<1> QED
  BY <1>1, <1>2, <1>3

LEMMA QuietCheckCredential ==
    ASSUME TypeOK, NEW w \in Worker, CheckCredential(w)
    PROVE  Calm /\ SameEntries /\ Registers
<1>1. Calm
  BY DEF CheckCredential, Step, Go, Release, Drop, disableBotMisconfigured,
     WriteBot, TypeOK, WorkerTypes, RecordTypes, ScanTypes, Calm, Owning,
     InHandSteps
<1>2. SameEntries
  BY DEF CheckCredential, Step, Go, Release, Drop, disableBotMisconfigured,
     WriteBot, TypeOK, WorkerTypes, ApprovalTypes, SameEntries
<1>3. CapsKept
  <2> DEFINE row == [bots[BotAt(w)] EXCEPT !.status = "error"]
  <2>1. BotAt(w) \in Bot /\ row.cap = bots[BotAt(w)].cap
    BY HeldMessage DEF CheckCredential, disableBotMisconfigured, Release, Step, Idle, TypeOK, ControlTypes, BotRow
  <2>2. WriteBot(BotAt(w), row) \/ bots' = bots
    BY DEF CheckCredential, disableBotMisconfigured, Release
  <2> QED
    BY <2>1, <2>2, WriteBotKeepsCap DEF TypeOK, CapsKept
<1>4. Registers
  BY <1>3 DEF CheckCredential, Step, Go, Release, Drop, disableBotMisconfigured,
     WriteBot, TypeOK, WorkerTypes, BotAt, Sig,
     Registers, Reading, Vetted
<1> QED
  BY <1>1, <1>2, <1>3, <1>4

LEMMA QuietReadMarket ==
    ASSUME TypeOK, NEW w \in Worker, ReadMarket(w)
    PROVE  Calm /\ SameEntries /\ Registers
<1>1. Calm
  BY DEF ReadMarket, Step, Go, Release, Drop, TypeOK, WorkerTypes,
     RecordTypes, ScanTypes, Calm, Owning, InHandSteps
<1>2. SameEntries
  BY DEF ReadMarket, Step, Go, Release, Drop, TypeOK, WorkerTypes,
     ApprovalTypes, SameEntries
<1>3. Registers
  BY DEF ReadMarket, Step, Go, Release, Drop, TypeOK, WorkerTypes,
     ControlTypes, BotRow, BotAt, Sig, Registers, CapsKept, Reading, Vetted
<1> QED
  BY <1>1, <1>2, <1>3

LEMMA QuietChooseMode ==
    ASSUME TypeOK, NEW w \in Worker, ChooseMode(w)
    PROVE  Calm /\ Registers
<1>1. Calm
  BY DEF ChooseMode, Step, Go, RecordSimulatedFill, ProposeOrder,
     SignalTaken, TypeOK, WorkerTypes, RecordTypes, ScanTypes, Calm, Owning,
     InHandSteps
<1>2. Registers
  BY DEF ChooseMode, Step, Go, TypeOK, WorkerTypes, ControlTypes, BotRow,
     BotAt, Sig, Registers, CapsKept, Reading, Vetted
<1> QED
  BY <1>1, <1>2

LEMMA QuietReserve ==
    ASSUME TypeOK, NEW w \in Worker, Reserve(w)
    PROVE  Registers
<1>1. Registers
  BY DEF Reserve, Step, Go, Drop, TypeOK, WorkerTypes, ControlTypes, BotRow,
     BotAt, Sig, Registers, CapsKept, Reading, Vetted
<1> QED
  BY <1>1

LEMMA QuietAuditCreated ==
    ASSUME TypeOK, NEW w \in Worker, AuditCreated(w)
    PROVE  Registers
<1>1. Registers
  BY DEF AuditCreated, Step, Go, TypeOK, WorkerTypes, ControlTypes, BotRow,
     BotAt, Sig, Registers, CapsKept, Reading, Vetted
<1> QED
  BY <1>1

LEMMA QuietCreateOrder ==
    ASSUME TypeOK, NEW w \in Worker, CreateOrder(w)
    PROVE  Registers
<1>1. Registers
  BY DEF CreateOrder, Go, TypeOK, WorkerTypes, ControlTypes, BotRow, BotAt,
     Sig, Registers, CapsKept, Reading, Vetted
<1> QED
  BY <1>1

LEMMA QuietInlineLookup ==
    ASSUME TypeOK, NEW w \in Worker, InlineLookup(w)
    PROVE  SameEntries /\ Registers
<1>1. SameEntries
  BY DEF InlineLookup, Go, TypeOK, WorkerTypes, ApprovalTypes, SameEntries
<1>2. Registers
  BY DEF InlineLookup, Go, TypeOK, WorkerTypes, ControlTypes, BotRow, BotAt,
     Sig, Registers, CapsKept, Reading, Vetted
<1> QED
  BY <1>1, <1>2

LEMMA QuietSettle ==
    ASSUME TypeOK, NEW w \in Worker, Settle(w)
    PROVE  Registers
<1>1. Registers
  BY DEF Settle, Step, Go, AfterOrder, TypeOK, WorkerTypes, ControlTypes,
     BotRow, BotAt, Sig, Registers, CapsKept, Reading, Vetted
<1> QED
  BY <1>1

LEMMA QuietInlineSettle ==
    ASSUME TypeOK, NEW w \in Worker, InlineSettle(w)
    PROVE  Registers
<1>1. Registers
  BY DEF InlineSettle, Step, Go, AfterOrder, TypeOK, WorkerTypes,
     ControlTypes, BotRow, BotAt, Sig, Registers, CapsKept, Reading, Vetted
<1> QED
  BY <1>1

LEMMA QuietMarkUnknown ==
    ASSUME TypeOK, NEW w \in Worker, MarkUnknown(w)
    PROVE  Registers
<1>1. Registers
  BY DEF MarkUnknown, Step, Go, TypeOK, WorkerTypes, ControlTypes, BotRow,
     BotAt, Sig, Registers, CapsKept, Reading, Vetted
<1> QED
  BY <1>1

LEMMA QuietOpenJob ==
    ASSUME TypeOK, NEW w \in Worker, OpenJob(w)
    PROVE  Calm /\ SameEntries /\ Registers
<1>1. Calm
  BY DEF OpenJob, Step, Go, OpenJobFor, JobsOpened, TypeOK, WorkerTypes,
     RecordTypes, ScanTypes, Calm, Owning, InHandSteps
<1>2. SameEntries
  BY DEF OpenJob, Step, Go, OpenJobFor, JobsOpened, TypeOK, WorkerTypes,
     ApprovalTypes, SameEntries
<1>3. Registers
  BY DEF OpenJob, Step, Go, TypeOK, WorkerTypes, ControlTypes, BotRow,
     BotAt, Sig, Registers, CapsKept, Reading, Vetted
<1> QED
  BY <1>1, <1>2, <1>3

LEMMA QuietResetFailures ==
    ASSUME TypeOK, NEW w \in Worker, ResetFailures(w)
    PROVE  Calm /\ SameEntries /\ Registers
<1>1. Calm
  BY DEF ResetFailures, WriteBotStep, WriteBot, Step, Go, TypeOK,
     WorkerTypes, RecordTypes, ScanTypes, Calm, Owning, InHandSteps
<1>2. SameEntries
  BY DEF ResetFailures, WriteBotStep, WriteBot, Step, Go, TypeOK,
     WorkerTypes, ApprovalTypes, SameEntries
<1>3. CapsKept
  <2> DEFINE row == [bots[BotAt(w)] EXCEPT !.failures = 0]
  <2>1. BotAt(w) \in Bot /\ row.cap = bots[BotAt(w)].cap
    BY HeldMessage DEF ResetFailures, WriteBotStep, Step, Idle, TypeOK, ControlTypes, BotRow
  <2>2. WriteBot(BotAt(w), row)
    BY DEF ResetFailures, WriteBotStep
  <2> QED
    BY <2>1, <2>2, WriteBotKeepsCap DEF TypeOK, CapsKept
<1>4. Registers
  BY <1>3 DEF ResetFailures, WriteBotStep, WriteBot, Step, Go, TypeOK,
     WorkerTypes, BotAt, Sig, Registers,
     Reading, Vetted
<1> QED
  BY <1>1, <1>2, <1>3, <1>4

LEMMA QuietTripBreaker ==
    ASSUME TypeOK, NEW w \in Worker, TripBreaker(w)
    PROVE  SameEntries /\ Registers
<1>1. SameEntries
  BY DEF TripBreaker, WriteBotStep, WriteBot, Step, Go, TypeOK, WorkerTypes,
     ApprovalTypes, SameEntries
<1>2. CapsKept
  <2> DEFINE row     == bots[BotAt(w)]
             tripped == [row EXCEPT !.failures = MaxFailures, !.status = "error"]
             counted == [row EXCEPT !.failures = seen[w].failures + 1]
  <2>1. BotAt(w) \in Bot /\ tripped.cap = row.cap /\ counted.cap = row.cap
    BY HeldMessage DEF TripBreaker, WriteBotStep, Step, Idle, TypeOK,
       ControlTypes, BotRow
  <2>2. WriteBot(BotAt(w), tripped) \/ WriteBot(BotAt(w), counted)
    BY DEF TripBreaker, WriteBotStep
  <2> QED
    BY <2>1, <2>2, WriteBotKeepsCap DEF TypeOK
<1>3. Registers
  BY <1>2 DEF TripBreaker, WriteBotStep, WriteBot, Step, Go, TypeOK, WorkerTypes,
     BotAt, Sig, Registers, Reading, Vetted
<1> QED
  BY <1>1, <1>2, <1>3

LEMMA QuietDeadLetter ==
    ASSUME TypeOK, NEW w \in Worker, DeadLetter(w)
    PROVE  SameEntries /\ Registers
<1>1. SameEntries
  BY DEF DeadLetter, Step, Go, TypeOK, WorkerTypes, ApprovalTypes,
     SameEntries
<1>2. Registers
  BY DEF DeadLetter, Step, Go, TypeOK, WorkerTypes, ControlTypes, BotRow,
     BotAt, Sig, Registers, CapsKept, Reading, Vetted
<1> QED
  BY <1>1, <1>2

LEMMA QuietRevokeCredential ==
    ASSUME TypeOK, NEW w \in Worker, RevokeCredential(w)
    PROVE  Calm /\ SameEntries /\ Registers
<1>1. Calm
  BY DEF RevokeCredential, Step, Go, TypeOK, WorkerTypes, RecordTypes,
     ScanTypes, Calm, Owning, InHandSteps
<1>2. SameEntries
  BY DEF RevokeCredential, Step, Go, TypeOK, WorkerTypes, ApprovalTypes,
     SameEntries
<1>3. Registers
  BY DEF RevokeCredential, Step, Go, TypeOK, WorkerTypes, ControlTypes,
     BotRow, BotAt, Sig, Registers, CapsKept, Reading, Vetted
<1> QED
  BY <1>1, <1>2, <1>3

LEMMA QuietDisableBot ==
    ASSUME TypeOK, NEW w \in Worker, DisableBot(w)
    PROVE  Calm /\ SameEntries /\ Registers
<1>1. Calm
  BY DEF DisableBot, WriteBotStep, WriteBot, Step, Go, TypeOK, WorkerTypes,
     RecordTypes, ScanTypes, Calm, Owning, InHandSteps
<1>2. SameEntries
  BY DEF DisableBot, WriteBotStep, WriteBot, Step, Go, TypeOK, WorkerTypes,
     ApprovalTypes, SameEntries
<1>3. CapsKept
  <2> DEFINE row == [bots[BotAt(w)] EXCEPT !.status = "error"]
  <2>1. BotAt(w) \in Bot /\ row.cap = bots[BotAt(w)].cap
    BY HeldMessage DEF DisableBot, WriteBotStep, Step, Idle, TypeOK, ControlTypes, BotRow
  <2>2. WriteBot(BotAt(w), row)
    BY DEF DisableBot, WriteBotStep
  <2> QED
    BY <2>1, <2>2, WriteBotKeepsCap DEF TypeOK, CapsKept
<1>4. Registers
  BY <1>3 DEF DisableBot, WriteBotStep, WriteBot, Step, Go, TypeOK, WorkerTypes,
     BotAt, Sig, Registers, Reading, Vetted
<1> QED
  BY <1>1, <1>2, <1>3, <1>4

LEMMA QuietPauseForAttention ==
    ASSUME TypeOK, NEW w \in Worker, PauseForAttention(w)
    PROVE  Calm /\ SameEntries /\ Registers
<1>1. Calm
  BY DEF PauseForAttention, WriteBotStep, WriteBot, Step, Go, TypeOK,
     WorkerTypes, RecordTypes, ScanTypes, Calm, Owning, InHandSteps
<1>2. SameEntries
  BY DEF PauseForAttention, WriteBotStep, WriteBot, Step, Go, TypeOK,
     WorkerTypes, ApprovalTypes, SameEntries
<1>3. CapsKept
  <2> DEFINE row == [bots[BotAt(w)] EXCEPT !.enabled = FALSE, !.status = "paused"]
  <2>1. BotAt(w) \in Bot /\ row.cap = bots[BotAt(w)].cap
    BY HeldMessage DEF PauseForAttention, WriteBotStep, Step, Idle, TypeOK, ControlTypes, BotRow
  <2>2. WriteBot(BotAt(w), row)
    BY DEF PauseForAttention, WriteBotStep
  <2> QED
    BY <2>1, <2>2, WriteBotKeepsCap DEF TypeOK, CapsKept
<1>4. Registers
  BY <1>3 DEF PauseForAttention, WriteBotStep, WriteBot, Step, Go, TypeOK,
     WorkerTypes, BotAt, Sig, Registers,
     Reading, Vetted
<1> QED
  BY <1>1, <1>2, <1>3, <1>4

LEMMA QuietScanPick ==
    ASSUME TypeOK, NEW w \in Worker, NEW s \in Signal, ScanPick(w, s)
    PROVE  SameEntries /\ Registers
<1>1. SameEntries
  BY DEF ScanPick, TypeOK, WorkerTypes, ApprovalTypes, SameEntries
<1>2. Registers
  BY DEF ScanPick, TypeOK, WorkerTypes, ControlTypes, BotRow, BotAt, Sig,
     Registers, CapsKept, Reading, Vetted
<1> QED
  BY <1>1, <1>2

LEMMA QuietScanVerdict ==
    ASSUME TypeOK, NEW w \in Worker, ScanVerdict(w)
    PROVE  SameEntries /\ Registers
<1>1. SameEntries
  BY DEF ScanVerdict, TypeOK, WorkerTypes, ApprovalTypes, SameEntries
<1>2. Registers
  BY DEF ScanVerdict, TypeOK, WorkerTypes, ControlTypes, BotRow, BotAt, Sig,
     Registers, CapsKept, Reading, Vetted
<1> QED
  BY <1>1, <1>2

LEMMA QuietScanInconclusive ==
    ASSUME TypeOK, NEW w \in Worker, ScanInconclusive(w)
    PROVE  Calm /\ SameEntries /\ Registers
<1>1. Calm
  BY DEF ScanInconclusive, IdleScan, TypeOK, WorkerTypes, RecordTypes,
     ScanTypes, Calm, Owning, InHandSteps
<1>2. SameEntries
  BY DEF ScanInconclusive, IdleScan, TypeOK, WorkerTypes, ApprovalTypes,
     SameEntries
<1>3. Registers
  BY DEF ScanInconclusive, IdleScan, TypeOK, WorkerTypes, ControlTypes,
     BotRow, BotAt, Sig, Registers, CapsKept, Reading, Vetted
<1> QED
  BY <1>1, <1>2, <1>3

LEMMA QuietScanRefused ==
    ASSUME TypeOK, NEW w \in Worker, ScanRefused(w)
    PROVE  Calm /\ SameEntries /\ Registers
<1>1. Calm
  BY DEF ScanRefused, IdleScan, TypeOK, WorkerTypes, RecordTypes, ScanTypes,
     Calm, Owning, InHandSteps
<1>2. SameEntries
  BY DEF ScanRefused, IdleScan, TypeOK, WorkerTypes, ApprovalTypes,
     SameEntries
<1>3. Registers
  BY DEF ScanRefused, IdleScan, TypeOK, WorkerTypes, ControlTypes, BotRow,
     BotAt, Sig, Registers, CapsKept, Reading, Vetted
<1> QED
  BY <1>1, <1>2, <1>3

LEMMA QuietScanFinalize ==
    ASSUME TypeOK, NEW w \in Worker, ScanFinalize(w)
    PROVE  Registers
<1>1. Registers
  BY DEF ScanFinalize, TypeOK, WorkerTypes, ControlTypes, BotRow, BotAt,
     Sig, Registers, CapsKept, Reading, Vetted
<1> QED
  BY <1>1

LEMMA QuietScanClose ==
    ASSUME TypeOK, NEW w \in Worker, ScanClose(w)
    PROVE  SameEntries /\ Registers
<1>1. SameEntries
  BY DEF ScanClose, IdleScan, TypeOK, WorkerTypes, ApprovalTypes,
     SameEntries
<1>2. Registers
  BY DEF ScanClose, IdleScan, TypeOK, WorkerTypes, ControlTypes, BotRow,
     BotAt, Sig, Registers, CapsKept, Reading, Vetted
<1> QED
  BY <1>1, <1>2

LEMMA QuietCrash ==
    ASSUME TypeOK, NEW w \in Worker, Crash(w)
    PROVE  Calm /\ Registers
<1>1. Calm
  BY DEF Crash, Drop, Go, IdleScan, TypeOK, WorkerTypes, RecordTypes,
     ScanTypes, Calm, Owning, InHandSteps
<1>2. Registers
  BY DEF Crash, Drop, Go, IdleScan, TypeOK, WorkerTypes, ControlTypes,
     BotRow, BotAt, Sig, Registers, CapsKept, Reading, Vetted
<1> QED
  BY <1>1, <1>2

LEMMA QuietAge ==
    ASSUME TypeOK, NEW s \in Signal, Age(s)
    PROVE  SameEntries /\ Registers
<1>1. SameEntries
  BY DEF Age, TypeOK, WorkerTypes, ApprovalTypes, SameEntries
<1>2. Registers
  BY DEF Age, TypeOK, WorkerTypes, ControlTypes, BotRow, BotAt, Sig,
     Registers, CapsKept, Reading, Vetted
<1> QED
  BY <1>1, <1>2

LEMMA QuietExchangeMoves ==
    ASSUME TypeOK, NEW s \in Signal, ExchangeMoves(s)
    PROVE  SameEntries /\ Registers
<1>1. SameEntries
  BY DEF ExchangeMoves, TypeOK, WorkerTypes, ApprovalTypes, SameEntries
<1>2. Registers
  BY DEF ExchangeMoves, TypeOK, WorkerTypes, ControlTypes, BotRow, BotAt,
     Sig, Registers, CapsKept, Reading, Vetted
<1> QED
  BY <1>1, <1>2

LEMMA QuietLapse ==
    ASSUME TypeOK, NEW s \in Signal, Lapse(s)
    PROVE  Calm /\ SameEntries /\ Registers
<1>1. Calm
  BY DEF Lapse, Decide, TypeOK, WorkerTypes, RecordTypes, ScanTypes, Calm,
     Owning, InHandSteps
<1>2. SameEntries
  BY DEF Lapse, Decide, TypeOK, WorkerTypes, ApprovalTypes, SameEntries
<1>3. Registers
  BY DEF Lapse, Decide, TypeOK, WorkerTypes, ControlTypes, BotRow, BotAt,
     Sig, Registers, CapsKept, Reading, Vetted
<1> QED
  BY <1>1, <1>2, <1>3

LEMMA QuietExpireProposal ==
    ASSUME TypeOK, NEW s \in Signal, ExpireProposal(s)
    PROVE  Calm /\ SameEntries /\ Registers
<1>1. Calm
  BY DEF ExpireProposal, Decide, TypeOK, WorkerTypes, RecordTypes,
     ScanTypes, Calm, Owning, InHandSteps
<1>2. SameEntries
  BY DEF ExpireProposal, Decide, TypeOK, WorkerTypes, ApprovalTypes,
     SameEntries
<1>3. Registers
  BY DEF ExpireProposal, Decide, TypeOK, WorkerTypes, ControlTypes, BotRow,
     BotAt, Sig, Registers, CapsKept, Reading, Vetted
<1> QED
  BY <1>1, <1>2, <1>3

LEMMA QuietRejectOrder ==
    ASSUME TypeOK, NEW s \in Signal, RejectOrder(s)
    PROVE  Calm /\ SameEntries /\ Registers
<1>1. Calm
  BY DEF RejectOrder, Decide, TypeOK, WorkerTypes, RecordTypes, ScanTypes,
     Calm, Owning, InHandSteps
<1>2. SameEntries
  BY DEF RejectOrder, Decide, TypeOK, WorkerTypes, ApprovalTypes,
     SameEntries
<1>3. Registers
  BY DEF RejectOrder, Decide, TypeOK, WorkerTypes, ControlTypes, BotRow,
     BotAt, Sig, Registers, CapsKept, Reading, Vetted
<1> QED
  BY <1>1, <1>2, <1>3

LEMMA QuietApproveOrder ==
    ASSUME TypeOK, NEW s \in Signal, ApproveOrder(s)
    PROVE  Calm /\ Registers
<1>1. Calm
  BY DEF ApproveOrder, Decide, TypeOK, WorkerTypes, RecordTypes, ScanTypes,
     Calm, Owning, InHandSteps
<1>2. Registers
  BY DEF ApproveOrder, Decide, TypeOK, WorkerTypes, ControlTypes, BotRow,
     BotAt, Sig, Registers, CapsKept, Reading, Vetted
<1> QED
  BY <1>1, <1>2

LEMMA QuietSendApproved ==
    ASSUME TypeOK, NEW s \in Signal, SendApproved(s)
    PROVE  Calm /\ SameEntries /\ Registers
<1>1. Calm
  BY DEF SendApproved, TypeOK, WorkerTypes, RecordTypes, ScanTypes, Calm,
     Owning, InHandSteps
<1>2. SameEntries
  BY DEF SendApproved, TypeOK, WorkerTypes, ApprovalTypes, SameEntries
<1>3. Registers
  BY DEF SendApproved, TypeOK, WorkerTypes, ControlTypes, BotRow, BotAt,
     Sig, Registers, CapsKept, Reading, Vetted
<1> QED
  BY <1>1, <1>2, <1>3

LEMMA QuietReappear ==
    ASSUME TypeOK, NEW m \in hidden, Reappear(m)
    PROVE  Calm /\ SameEntries /\ Registers
<1>1. Calm
  BY DEF Reappear, TypeOK, WorkerTypes, RecordTypes, ScanTypes, Calm,
     Owning, InHandSteps
<1>2. SameEntries
  BY DEF Reappear, TypeOK, WorkerTypes, ApprovalTypes, SameEntries
<1>3. Registers
  BY DEF Reappear, TypeOK, WorkerTypes, ControlTypes, BotRow, BotAt, Sig,
     Registers, CapsKept, Reading, Vetted
<1> QED
  BY <1>1, <1>2, <1>3

LEMMA QuietPauseBot ==
    ASSUME TypeOK, NEW b \in Bot, PauseBot(b)
    PROVE  Calm /\ SameEntries /\ Registers
<1>1. Calm
  BY DEF PauseBot, TypeOK, WorkerTypes, RecordTypes, ScanTypes, Calm,
     Owning, InHandSteps
<1>2. SameEntries
  BY DEF PauseBot, TypeOK, WorkerTypes, ApprovalTypes, SameEntries
<1>3. Registers
  BY DEF PauseBot, TypeOK, WorkerTypes, ControlTypes, BotRow, BotAt, Sig,
     Registers, CapsKept, Reading, Vetted
<1> QED
  BY <1>1, <1>2, <1>3

LEMMA QuietArmBot ==
    ASSUME TypeOK, NEW b \in Bot, NEW mode \in Modes, ArmBot(b, mode)
    PROVE  Calm /\ SameEntries /\ Registers
<1>1. Calm
  BY DEF ArmBot, TypeOK, WorkerTypes, RecordTypes, ScanTypes, Calm, Owning,
     InHandSteps
<1>2. SameEntries
  BY DEF ArmBot, TypeOK, WorkerTypes, ApprovalTypes, SameEntries
<1>3. Registers
  BY DEF ArmBot, TypeOK, WorkerTypes, ControlTypes, BotRow, BotAt, Sig,
     Registers, CapsKept, Reading, Vetted
<1> QED
  BY <1>1, <1>2, <1>3
-----------------------------------------------------------------------------
(* What holds however late a message or an order turns up *)

\* What the trades table says of an order is so, or may still be: a trade that
\* is filled has its fill, one that is over leaves nothing on the exchange.
Agrees(status, state) ==
    /\ status = "filled" => state = "filled"
    /\ status \in {"failed", "cancelled"} =>
         state \notin {"lagging", "submitted", "filled"}

\* Whoever owns a row, owns it alone.
OwnedRow == \A w \in Worker : pc[w] \in Owning =>
                trade[Sig(w)] \notin {"none", "simulated"}
OneOwner == \A v, w \in Worker :
    pc[v] \in Owning /\ pc[w] \in Owning /\ Sig(v) = Sig(w) => v = w

\* Nothing is on the exchange that was not sent, and no row ages that is not
\* that of an order.
UnsentIsNowhere == \A s \in Signal : placed[s] = 0 => exch[s] = "none"
AgedHasRow      == \A s \in aged : trade[s] \notin {"none", "simulated"}

\* A refused order was sent and is not on the exchange; its trade is failed
\* unless that could not be written.
Refusal(w) ==
    \/ pc[w] = "settle" /\ resp[w] \in {"rejected", "auth", "authip"}
    \/ pc[w] \in {"breaker", "deadletter"}
Refused == \A w \in Worker : Refusal(w) =>
    /\ exch[Sig(w)] = "none" /\ placed[Sig(w)] > 0
    /\ MaxDbErrors = 0 /\ pc[w] # "settle" => trade[Sig(w)] = "failed"

\* So was that of every dead letter, and no worker is at it any more.
DeadLetters == \A s \in dlq :
    /\ exch[s] = "none" /\ placed[s] > 0
    /\ \A w \in Worker : pc[w] \in InHandSteps => Sig(w) # s
    /\ MaxDbErrors = 0 => trade[s] = "failed"

SentInv == /\ OwnedRow /\ OneOwner /\ UnsentIsNowhere /\ AgedHasRow
           /\ Refused /\ DeadLetters

\* A worker that owns a row holds its signal.
LEMMA OwnedSignal ==
    ASSUME WorkerTypes, NEW w \in Worker, pc[w] \in Owning \cup {"reserve"}
    PROVE  Sig(w) \in Signal /\ msg[w] \in Message
  BY HeldMessage DEF Owning, InHandSteps, Idle

\* A calm step disturbs none of this.
LEMMA CalmKeepsSent ==
    ASSUME OrderInv, SentInv, Calm, TypeOK'
    PROVE  SentInv'
<1> USE DEF OrderInv, TypeOK, SentInv, Calm
<1>1. ASSUME NEW w \in Worker, pc'[w] \in Owning
      PROVE  /\ pc[w] = pc'[w] /\ Sig(w)' = Sig(w) /\ resp'[w] = resp[w]
             /\ Sig(w) \in Signal
  BY <1>1, OwnedSignal DEF Sig
<1>2. OwnedRow'
  BY <1>1 DEF OwnedRow
<1>3. OneOwner'
  BY <1>1 DEF OneOwner
<1>4. UnsentIsNowhere'
  BY DEF UnsentIsNowhere
<1>5. AgedHasRow'
  BY DEF AgedHasRow, RecordTypes
<1>6. Refused'
  BY <1>1 DEF Refused, Refusal, Owning, InHandSteps
<1>7. DeadLetters'
  BY <1>1 DEF DeadLetters, Owning, RecordTypes
<1> QED
  BY <1>2, <1>3, <1>4, <1>5, <1>6, <1>7

\* A worker's step on a row that it owns, or is about to: it changes nothing
\* of other signals or workers, and no job and no verdict.
OwnStep(w) ==
    /\ pc[w] \in Owning \cup {"reserve"}
    /\ aged' = aged /\ job' = job /\ scan' = scan
    /\ dlq \subseteq dlq' /\ dlq' \subseteq dlq \cup {Sig(w)}
    /\ \A s \in Signal \ {Sig(w)} : /\ trade'[s] = trade[s]
                                    /\ placed'[s] = placed[s]
                                    /\ exch'[s] = exch[s]
    /\ \A v \in Worker \ {w} : /\ pc'[v] = pc[v] /\ msg'[v] = msg[v]
                               /\ resp'[v] = resp[v]
    /\ pc'[w] \in Owning => msg'[w] = msg[w]

\* No other worker owns the row.
OwnsAlone(w) ==
    \A v \in Worker \ {w} : pc[v] \in Owning => Sig(v) # Sig(w)

LEMMA OwnersAreAlone ==
    ASSUME OrderInv, SentInv, NEW w \in Worker,
           \/ pc[w] \in Owning
           \/ pc[w] = "reserve" /\ trade[Sig(w)] = "none"
    PROVE  OwnsAlone(w)
  BY DEF SentInv, OwnedRow, OneOwner, OwnsAlone

\* What such a step has to see to: its own signal.
SignalSent(w, s) ==
    /\ pc[w] \in Owning => trade[s] \notin {"none", "simulated"}
    /\ s \in aged => trade[s] \notin {"none", "simulated"}
    /\ placed[s] = 0 => exch[s] = "none"
    /\ Refusal(w) => /\ exch[s] = "none" /\ placed[s] > 0
                     /\ MaxDbErrors = 0 /\ pc[w] # "settle" => trade[s] = "failed"
    /\ s \in dlq => /\ exch[s] = "none" /\ placed[s] > 0
                    /\ pc[w] \notin InHandSteps
                    /\ MaxDbErrors = 0 => trade[s] = "failed"

LEMMA OwnStepKeepsSent ==
    ASSUME OrderInv, SentInv, TypeOK', NEW w \in Worker, OwnStep(w),
           OwnsAlone(w), NEW s \in Signal, s = Sig(w), SignalSent(w, s)'
    PROVE  SentInv'
<1> USE DEF OrderInv, TypeOK, SentInv
<1>1. ASSUME NEW v \in Worker \ {w}
      PROVE  /\ pc'[v] = pc[v] /\ Sig(v)' = Sig(v) /\ resp'[v] = resp[v]
             /\ pc[v] \in Owning => Sig(v) \in Signal \ {s}
  BY OwnedSignal DEF OwnStep, OwnsAlone, Sig
<1>2. pc'[w] \in Owning => Sig(w)' = s
  BY DEF OwnStep, Sig
<1>3. \A t \in Signal \ {s} : /\ trade'[t] = trade[t] /\ placed'[t] = placed[t]
                              /\ exch'[t] = exch[t]
  BY DEF OwnStep
<1>4. OwnedRow'
  BY <1>1, <1>2, <1>3 DEF OwnedRow, SignalSent
<1>5. OneOwner'
  BY <1>1, <1>2 DEF OneOwner
<1>6. UnsentIsNowhere'
  BY <1>3 DEF UnsentIsNowhere, SignalSent
<1>7. AgedHasRow'
  BY <1>3 DEF AgedHasRow, SignalSent, OwnStep, RecordTypes
<1>8. Refused'
  <2> SUFFICES ASSUME NEW v \in Worker, Refusal(v)'
               PROVE  /\ exch'[Sig(v)'] = "none" /\ placed'[Sig(v)'] > 0
                      /\ MaxDbErrors = 0 /\ pc'[v] # "settle" =>
                           trade'[Sig(v)'] = "failed"
    BY DEF Refused
  <2>1. CASE v = w
    BY <1>2, <2>1 DEF Refusal, SignalSent, Owning, InHandSteps
  <2>2. CASE v # w
    <3>1. Refusal(v) /\ Sig(v) \in Signal \ {s}
      BY <1>1, <2>2 DEF Refusal, Owning, InHandSteps
    <3> QED
      BY <1>1, <1>3, <2>2, <3>1 DEF Refused
  <2> QED
    BY <2>1, <2>2
<1>9. DeadLetters'
  <2> SUFFICES ASSUME NEW t \in dlq'
               PROVE  /\ exch'[t] = "none" /\ placed'[t] > 0
                      /\ \A v \in Worker : pc'[v] \in InHandSteps => Sig(v)' # t
                      /\ MaxDbErrors = 0 => trade'[t] = "failed"
    BY DEF DeadLetters
  <2>1. CASE t = s
    BY <1>1, <2>1 DEF SignalSent, Owning
  <2>2. CASE t # s
    <3>1. t \in dlq /\ t \in Signal \ {s}
      BY <2>2 DEF OwnStep, RecordTypes
    <3> QED
      BY <1>1, <1>2, <1>3, <3>1 DEF DeadLetters, Owning
  <2> QED
    BY <2>1, <2>2
<1> QED
  BY <1>4, <1>5, <1>6, <1>7, <1>8, <1>9

-----------------------------------------------------------------------------
(* The steps that own a row, one by one *)

\* A reservation takes a row that nobody has, or is calm.
LEMMA OwnReserve ==
    ASSUME OrderInv, SentInv, TypeOK', NEW w \in Worker, Reserve(w)
    PROVE  \/ Calm
           \/ /\ OwnStep(w) /\ OwnsAlone(w)
              /\ trade[Sig(w)] = "none" /\ placed' = placed /\ exch' = exch
              /\ trade' = [trade EXCEPT ![Sig(w)] = "pending"] /\ dlq' = dlq
              /\ pc'[w] \in {"audit", "poll"}
<1> USE DEF OrderInv, TypeOK
<1>1. pc[w] = "reserve" /\ Sig(w) \in Signal
  BY OwnedSignal DEF Reserve, Step
<1>2. CASE trade' = trade /\ pc'[w] # "audit"
  <2> Calm
    BY <1>2 DEF Reserve, Step, Go, Drop, WorkerTypes, RecordTypes, Calm,
       Owning, InHandSteps
  <2> QED
    OBVIOUS
<1>3. CASE ~(trade' = trade /\ pc'[w] # "audit")
  <2>1. trade[Sig(w)] = "none"
    BY <1>1, <1>3 DEF Reserve, Step, Go, Drop, WorkerTypes, SignalTaken
  <2>2. OwnsAlone(w)
    BY <1>1, <2>1, OwnersAreAlone
  <2>3. /\ trade' = [trade EXCEPT ![Sig(w)] = "pending"] /\ placed' = placed
        /\ exch' = exch /\ dlq' = dlq
    BY <1>1, <1>3 DEF Reserve, Step, Go, Drop, WorkerTypes
  <2>4. pc'[w] \in {"audit", "poll"}
    BY <1>1, <1>3 DEF Reserve, Step, Go, Drop, WorkerTypes
  <2>5. OwnStep(w)
    BY <1>1, <2>3 DEF Reserve, Step, Go, Drop, WorkerTypes, RecordTypes,
       OwnStep, Owning, InHandSteps
  <2> QED
    BY <2>1, <2>2, <2>3, <2>4, <2>5
<1> QED
  BY <1>2, <1>3

LEMMA OwnAuditCreated ==
    ASSUME OrderInv, SentInv, TypeOK', NEW w \in Worker, AuditCreated(w)
    PROVE  OwnStep(w) /\ OwnsAlone(w) /\ Sig(w) \in Signal /\ pc[w] \in Owning
<1>1. pc[w] \in Owning
  BY DEF AuditCreated, Step, Owning, InHandSteps
<1>2. OwnStep(w)
  BY <1>1, OwnedSignal
  DEF AuditCreated, Step, Go, OrderInv, TypeOK, WorkerTypes, RecordTypes, OwnStep
<1> QED
  BY <1>1, <1>2, OwnersAreAlone, OwnedSignal DEF OrderInv, TypeOK

LEMMA OwnCreateOrder ==
    ASSUME OrderInv, SentInv, TypeOK', NEW w \in Worker, CreateOrder(w)
    PROVE  OwnStep(w) /\ OwnsAlone(w) /\ Sig(w) \in Signal /\ pc[w] \in Owning
<1>1. pc[w] \in Owning
  BY DEF CreateOrder, Owning, InHandSteps
<1>2. Sig(w) \in Signal
  BY <1>1, OwnedSignal DEF OrderInv, TypeOK
<1>3. /\ \A s \in Signal \ {Sig(w)} : placed'[s] = placed[s] /\ exch'[s] = exch[s]
      /\ \A v \in Worker \ {w} : pc'[v] = pc[v] /\ resp'[v] = resp[v]
  BY <1>2 DEF CreateOrder, Go, OrderInv, TypeOK, WorkerTypes, OrderTypes
<1>4. OwnStep(w)
  BY <1>1, <1>3 DEF CreateOrder, OwnStep
<1> QED
  BY <1>1, <1>2, <1>4, OwnersAreAlone

LEMMA OwnInlineLookup ==
    ASSUME OrderInv, SentInv, TypeOK', NEW w \in Worker, InlineLookup(w)
    PROVE  OwnStep(w) /\ OwnsAlone(w) /\ Sig(w) \in Signal /\ pc[w] \in Owning
<1>1. pc[w] \in Owning
  BY DEF InlineLookup, Owning, InHandSteps
<1>2. OwnStep(w)
  BY <1>1 DEF InlineLookup, Go, OrderInv, TypeOK, WorkerTypes, OwnStep
<1> QED
  BY <1>1, <1>2, OwnersAreAlone, OwnedSignal DEF OrderInv, TypeOK

LEMMA OwnSettle ==
    ASSUME OrderInv, SentInv, TypeOK', NEW w \in Worker, Settle(w)
    PROVE  OwnStep(w) /\ OwnsAlone(w) /\ Sig(w) \in Signal /\ pc[w] \in Owning
<1>1. pc[w] \in Owning
  BY DEF Settle, Step, Owning, InHandSteps
<1>2. OwnStep(w)
  BY <1>1 DEF Settle, WriteTrade, Step, Go, OrderInv, TypeOK, WorkerTypes,
     RecordTypes, OwnStep
<1> QED
  BY <1>1, <1>2, OwnersAreAlone, OwnedSignal DEF OrderInv, TypeOK

LEMMA OwnInlineSettle ==
    ASSUME OrderInv, SentInv, TypeOK', NEW w \in Worker, InlineSettle(w)
    PROVE  OwnStep(w) /\ OwnsAlone(w) /\ Sig(w) \in Signal /\ pc[w] \in Owning
<1>1. pc[w] \in Owning
  BY DEF InlineSettle, Step, Owning, InHandSteps
<1>2. OwnStep(w)
  BY <1>1 DEF InlineSettle, WriteTrade, Step, Go, OrderInv, TypeOK,
     WorkerTypes, RecordTypes, OwnStep
<1> QED
  BY <1>1, <1>2, OwnersAreAlone, OwnedSignal DEF OrderInv, TypeOK

LEMMA OwnMarkUnknown ==
    ASSUME OrderInv, SentInv, TypeOK', NEW w \in Worker, MarkUnknown(w)
    PROVE  OwnStep(w) /\ OwnsAlone(w) /\ Sig(w) \in Signal /\ pc[w] \in Owning
<1>1. pc[w] \in Owning
  BY DEF MarkUnknown, Step, Owning, InHandSteps
<1>2. OwnStep(w)
  BY <1>1 DEF MarkUnknown, WriteTrade, Step, Go, OrderInv, TypeOK, WorkerTypes,
     RecordTypes, OwnStep
<1> QED
  BY <1>1, <1>2, OwnersAreAlone, OwnedSignal DEF OrderInv, TypeOK

LEMMA OwnTripBreaker ==
    ASSUME OrderInv, SentInv, TypeOK', NEW w \in Worker, TripBreaker(w)
    PROVE  OwnStep(w) /\ OwnsAlone(w) /\ Sig(w) \in Signal /\ pc[w] \in Owning
<1>1. pc[w] \in Owning
  BY DEF TripBreaker, WriteBotStep, Step, Owning
<1>2. OwnStep(w)
  BY <1>1 DEF TripBreaker, WriteBotStep, Step, Go, OrderInv, TypeOK,
     WorkerTypes, OwnStep
<1> QED
  BY <1>1, <1>2, OwnersAreAlone, OwnedSignal DEF OrderInv, TypeOK

LEMMA OwnDeadLetter ==
    ASSUME OrderInv, SentInv, TypeOK', NEW w \in Worker, DeadLetter(w)
    PROVE  OwnStep(w) /\ OwnsAlone(w) /\ Sig(w) \in Signal /\ pc[w] \in Owning
<1>1. pc[w] \in Owning
  BY DEF DeadLetter, Step, Owning
<1>2. OwnStep(w)
  BY <1>1 DEF DeadLetter, Step, Go, OrderInv, TypeOK, WorkerTypes, OwnStep
<1> QED
  BY <1>1, <1>2, OwnersAreAlone, OwnedSignal DEF OrderInv, TypeOK

LEMMA SentAuditCreated ==
    ASSUME OrderInv, SentInv, TypeOK', NEW w \in Worker, AuditCreated(w)
    PROVE  SentInv'
<1>1. /\ OwnStep(w) /\ OwnsAlone(w)
      /\ Sig(w) \in Signal /\ pc[w] \in Owning
  BY OwnAuditCreated
<1>2. PICK s \in Signal : s = Sig(w)
  BY <1>1
<1>3. SignalSent(w, s)'
  BY <1>1, <1>2 DEF AuditCreated, Step, Go, SignalSent, Refusal, OrderInv,
     Reserved, OrderIsReserved, Sending, SentInv, OwnedRow, UnsentIsNowhere,
     AgedHasRow, Refused, DeadLetters, Owning, InHandSteps, TypeOK,
     WorkerTypes, RecordTypes, OrderTypes, BoundTypes
<1> QED
  BY <1>1, <1>2, <1>3, OwnStepKeepsSent

LEMMA SentCreateOrder ==
    ASSUME OrderInv, SentInv, TypeOK', NEW w \in Worker, CreateOrder(w)
    PROVE  SentInv'
<1>1. /\ OwnStep(w) /\ OwnsAlone(w)
      /\ Sig(w) \in Signal /\ pc[w] \in Owning
  BY OwnCreateOrder
<1>2. PICK s \in Signal : s = Sig(w)
  BY <1>1
<1>3. placed[s] = 0 /\ trade[s] \notin {"none", "simulated"} /\ s \notin dlq
  BY <1>2 DEF CreateOrder, OrderInv, Reserved, Sending, SentInv, DeadLetters
<1>4. /\ placed'[s] = 1 /\ trade' = trade /\ dlq' = dlq
      /\ pc'[w] \in {"settle", "lookup"}
  BY <1>2, <1>3 DEF CreateOrder, Go, OrderInv, TypeOK, WorkerTypes, OrderTypes
<1>5. pc'[w] = "settle" /\ resp'[w] \in {"rejected", "auth", "authip"} =>
        exch'[s] = "none"
  BY <1>2 DEF CreateOrder, Go, Report, Visible, OrderInv, TypeOK, WorkerTypes,
     OrderTypes
<1>6. SignalSent(w, s)'
  BY <1>3, <1>4, <1>5 DEF SignalSent, Refusal
<1> QED
  BY <1>1, <1>2, <1>6, OwnStepKeepsSent

LEMMA SentInlineLookup ==
    ASSUME OrderInv, SentInv, TypeOK', NEW w \in Worker, InlineLookup(w)
    PROVE  SentInv'
<1>1. /\ OwnStep(w) /\ OwnsAlone(w)
      /\ Sig(w) \in Signal /\ pc[w] \in Owning
  BY OwnInlineLookup
<1>2. PICK s \in Signal : s = Sig(w)
  BY <1>1
<1>3. SignalSent(w, s)'
  BY <1>1, <1>2 DEF InlineLookup, Go, SignalSent, Refusal, OrderInv,
     Reserved, OrderIsReserved, Sending, SentInv, OwnedRow, UnsentIsNowhere,
     AgedHasRow, Refused, DeadLetters, Owning, InHandSteps, TypeOK,
     WorkerTypes, RecordTypes, OrderTypes, BoundTypes
<1> QED
  BY <1>1, <1>2, <1>3, OwnStepKeepsSent

LEMMA SentSettle ==
    ASSUME OrderInv, SentInv, TypeOK', NEW w \in Worker, Settle(w)
    PROVE  SentInv'
<1>1. /\ OwnStep(w) /\ OwnsAlone(w)
      /\ Sig(w) \in Signal /\ pc[w] \in Owning
  BY OwnSettle
<1>2. PICK s \in Signal : s = Sig(w)
  BY <1>1
<1>3. SignalSent(w, s)'
  BY <1>1, <1>2 DEF Settle, WriteTrade, Step, Go, AfterOrder, OrderStatus,
     DbFails, SignalSent, Refusal, OrderInv, Reserved, OrderIsReserved,
     Sending, SentInv, OwnedRow, UnsentIsNowhere, AgedHasRow, Refused,
     DeadLetters, Owning, InHandSteps, TypeOK, WorkerTypes, RecordTypes,
     OrderTypes, BoundTypes
<1> QED
  BY <1>1, <1>2, <1>3, OwnStepKeepsSent

LEMMA SentInlineSettle ==
    ASSUME OrderInv, SentInv, TypeOK', NEW w \in Worker, InlineSettle(w)
    PROVE  SentInv'
<1>1. /\ OwnStep(w) /\ OwnsAlone(w)
      /\ Sig(w) \in Signal /\ pc[w] \in Owning
  BY OwnInlineSettle
<1>2. PICK s \in Signal : s = Sig(w)
  BY <1>1
<1>3. SignalSent(w, s)'
  BY <1>1, <1>2 DEF InlineSettle, WriteTrade, Step, Go, AfterOrder,
     OrderStatus, DbFails, SignalSent, Refusal, OrderInv, Reserved,
     OrderIsReserved, Sending, SentInv, OwnedRow, UnsentIsNowhere,
     AgedHasRow, Refused, DeadLetters, Owning, InHandSteps, TypeOK,
     WorkerTypes, RecordTypes, OrderTypes, BoundTypes
<1> QED
  BY <1>1, <1>2, <1>3, OwnStepKeepsSent

LEMMA SentMarkUnknown ==
    ASSUME OrderInv, SentInv, TypeOK', NEW w \in Worker, MarkUnknown(w)
    PROVE  SentInv'
<1>1. /\ OwnStep(w) /\ OwnsAlone(w)
      /\ Sig(w) \in Signal /\ pc[w] \in Owning
  BY OwnMarkUnknown
<1>2. PICK s \in Signal : s = Sig(w)
  BY <1>1
<1>3. SignalSent(w, s)'
  BY <1>1, <1>2 DEF MarkUnknown, WriteTrade, Step, Go, DbFails, SignalSent,
     Refusal, OrderInv, Reserved, OrderIsReserved, Sending, SentInv,
     OwnedRow, UnsentIsNowhere, AgedHasRow, Refused, DeadLetters, Owning,
     InHandSteps, TypeOK, WorkerTypes, RecordTypes, OrderTypes,
     BoundTypes
<1> QED
  BY <1>1, <1>2, <1>3, OwnStepKeepsSent

LEMMA SentTripBreaker ==
    ASSUME OrderInv, SentInv, TypeOK', NEW w \in Worker, TripBreaker(w)
    PROVE  SentInv'
<1>1. /\ OwnStep(w) /\ OwnsAlone(w)
      /\ Sig(w) \in Signal /\ pc[w] \in Owning
  BY OwnTripBreaker
<1>2. PICK s \in Signal : s = Sig(w)
  BY <1>1
<1>3. SignalSent(w, s)'
  BY <1>1, <1>2 DEF TripBreaker, WriteBotStep, Step, Go, SignalSent,
     Refusal, OrderInv, Reserved, OrderIsReserved, Sending, SentInv,
     OwnedRow, UnsentIsNowhere, AgedHasRow, Refused, DeadLetters, Owning,
     InHandSteps, TypeOK, WorkerTypes, RecordTypes, OrderTypes,
     BoundTypes
<1> QED
  BY <1>1, <1>2, <1>3, OwnStepKeepsSent

LEMMA SentDeadLetter ==
    ASSUME OrderInv, SentInv, TypeOK', NEW w \in Worker, DeadLetter(w)
    PROVE  SentInv'
<1>1. /\ OwnStep(w) /\ OwnsAlone(w)
      /\ Sig(w) \in Signal /\ pc[w] \in Owning
  BY OwnDeadLetter
<1>2. PICK s \in Signal : s = Sig(w)
  BY <1>1
<1>3. SignalSent(w, s)'
  BY <1>1, <1>2 DEF DeadLetter, DbFails, Step, Go, SignalSent, Refusal,
     OrderInv, Reserved, OrderIsReserved, Sending, SentInv, OwnedRow,
     UnsentIsNowhere, AgedHasRow, Refused, DeadLetters, Owning, InHandSteps,
     TypeOK, WorkerTypes, RecordTypes, OrderTypes, BoundTypes
<1> QED
  BY <1>1, <1>2, <1>3, OwnStepKeepsSent

\* A reservation keeps it.
LEMMA SentReserve ==
    ASSUME OrderInv, SentInv, TypeOK', NEW w \in Worker, Reserve(w)
    PROVE  SentInv'
<1>1. CASE Calm
  BY <1>1, CalmKeepsSent
<1>2. CASE /\ OwnStep(w) /\ OwnsAlone(w)
           /\ trade[Sig(w)] = "none" /\ placed' = placed /\ exch' = exch
           /\ trade' = [trade EXCEPT ![Sig(w)] = "pending"] /\ dlq' = dlq
           /\ pc'[w] \in {"audit", "poll"}
  <2>1. PICK s \in Signal : s = Sig(w)
    BY <1>2, OwnedSignal DEF OwnStep, OrderInv, TypeOK
  <2>2. trade'[s] = "pending" /\ placed[s] = 0
    BY <1>2, <2>1 DEF OrderInv, OrderIsReserved, TypeOK, RecordTypes, OrderTypes
  <2>3. SignalSent(w, s)'
    BY <1>2, <2>2 DEF SignalSent, Refusal, SentInv, UnsentIsNowhere, DeadLetters
  <2> QED
    BY <1>2, <2>1, <2>3, OwnStepKeepsSent
<1> QED
  BY <1>1, <1>2, OwnReserve

\* So do the resolver, the exchange and the passing of time.
LEMMA SentScanPick ==
    ASSUME OrderInv, SentInv, NEW w \in Worker, NEW s \in Signal, ScanPick(w, s)
    PROVE  SentInv'
  BY DEF ScanPick, SentInv, OwnedRow, OneOwner, UnsentIsNowhere, AgedHasRow,
     Refused, Refusal, DeadLetters, Sig

LEMMA SentScanVerdict ==
    ASSUME OrderInv, SentInv, NEW w \in Worker, ScanVerdict(w)
    PROVE  SentInv'
  BY DEF ScanVerdict, SentInv, OwnedRow, OneOwner, UnsentIsNowhere, AgedHasRow,
     Refused, Refusal, DeadLetters, Sig

LEMMA SentScanClose ==
    ASSUME OrderInv, SentInv, NEW w \in Worker, ScanClose(w)
    PROVE  SentInv'
  BY DEF ScanClose, SentInv, OwnedRow, OneOwner, UnsentIsNowhere, AgedHasRow,
     Refused, Refusal, DeadLetters, Sig

LEMMA SentScanFinalize ==
    ASSUME OrderInv, SentInv, NEW w \in Worker, ScanFinalize(w)
    PROVE  SentInv'
<1>1. \A s \in Signal : \/ trade'[s] = trade[s]
                        \/ trade[s] \in {"pending", "unknown"} /\ trade'[s] \in Terminal
  BY DEF ScanFinalize, OrderInv, TypeOK, RecordTypes, ScanTypes
<1>2. \A s \in Signal : /\ trade[s] \notin {"none", "simulated"} =>
                             trade'[s] \notin {"none", "simulated"}
                        /\ trade[s] = "failed" => trade'[s] = "failed"
  BY <1>1 DEF Terminal
<1>3. /\ UNCHANGED <<pc, msg, resp, placed, exch, aged, dlq>>
      /\ \A v \in Worker : Sig(v)' = Sig(v)
  BY DEF ScanFinalize, Sig
<1>4. \A v \in Worker : pc[v] \in Owning => Sig(v) \in Signal
  BY OwnedSignal DEF OrderInv, TypeOK
<1>5. OwnedRow' /\ OneOwner' /\ UnsentIsNowhere' /\ AgedHasRow'
  BY <1>2, <1>3, <1>4 DEF SentInv, OwnedRow, OneOwner, UnsentIsNowhere,
     AgedHasRow, OrderInv, TypeOK, RecordTypes
<1>6. Refused'
  BY <1>2, <1>3, <1>4 DEF SentInv, Refused, Refusal, Owning, InHandSteps
<1>7. DeadLetters'
  BY <1>2, <1>3 DEF SentInv, DeadLetters, OrderInv, TypeOK, RecordTypes
<1> QED
  BY <1>5, <1>6, <1>7 DEF SentInv

LEMMA SentAge ==
    ASSUME OrderInv, SentInv, NEW s \in Signal, Age(s)
    PROVE  SentInv'
  BY DEF Age, SentInv, OwnedRow, OneOwner, UnsentIsNowhere, AgedHasRow,
     Refused, Refusal, DeadLetters, Sig

LEMMA SentExchangeMoves ==
    ASSUME OrderInv, SentInv, NEW s \in Signal, ExchangeMoves(s)
    PROVE  SentInv'
<1>1. \A t \in Signal : exch[t] = "none" <=> exch'[t] = "none"
  BY DEF ExchangeMoves, Visible, Terminal, OrderInv, TypeOK, OrderTypes
<1>2. \A v \in Worker : pc[v] \in Owning => Sig(v) \in Signal
  BY OwnedSignal DEF OrderInv, TypeOK
<1>3. Refused'
  BY <1>1, <1>2 DEF ExchangeMoves, SentInv, Refused, Refusal, Sig, Owning,
     InHandSteps
<1>4. DeadLetters'
  BY <1>1 DEF ExchangeMoves, SentInv, DeadLetters, Sig, OrderInv, TypeOK,
     RecordTypes
<1> QED
  BY <1>1, <1>3, <1>4 DEF ExchangeMoves, SentInv, OwnedRow, OneOwner,
     UnsentIsNowhere, AgedHasRow, Sig

\* Every step but these is calm.
LEMMA CalmSteps ==
    ASSUME TypeOK, [Next]_vars
    PROVE  \/ Calm
           \/ \E w \in Worker :
                \/ Reserve(w) \/ AuditCreated(w) \/ CreateOrder(w)
                \/ InlineLookup(w) \/ Settle(w) \/ InlineSettle(w)
                \/ MarkUnknown(w) \/ TripBreaker(w) \/ DeadLetter(w)
                \/ \E s \in Signal : ScanPick(w, s)
                \/ ScanVerdict(w) \/ ScanFinalize(w) \/ ScanClose(w)
           \/ \E s \in Signal : Age(s) \/ ExchangeMoves(s)
<1>1. ASSUME NEW w \in Worker, WorkerStep(w)
      PROVE  \/ Calm
             \/ Reserve(w) \/ AuditCreated(w) \/ CreateOrder(w)
             \/ InlineLookup(w) \/ Settle(w) \/ InlineSettle(w)
             \/ MarkUnknown(w) \/ TripBreaker(w) \/ DeadLetter(w)
             \/ \E s \in Signal : ScanPick(w, s)
             \/ ScanVerdict(w) \/ ScanFinalize(w) \/ ScanClose(w)
  <2>1. CASE ProcessMessage(w)
    BY <2>1, QuietReadBot, QuietCheckDuplicate, QuietGuard,
       QuietCheckCredential, QuietReadMarket, QuietChooseMode, QuietOpenJob,
       QuietResetFailures, QuietRevokeCredential, QuietDisableBot,
       QuietPauseForAttention DEF ProcessMessage
  <2>2. CASE Resolver(w)
    BY <2>2, QuietScanInconclusive, QuietScanRefused DEF Resolver
  <2> QED
    BY <1>1, <2>1, <2>2, QuietBoot, QuietEndResolve, QuietReceive, QuietAck,
       QuietCrash DEF WorkerStep
<1>2. ASSUME NEW s \in Signal, SignalStep(s)
      PROVE  Calm \/ Age(s) \/ ExchangeMoves(s)
  BY <1>2, QuietLapse, QuietExpireProposal, QuietRejectOrder,
     QuietApproveOrder, QuietSendApproved DEF SignalStep
<1>3. CASE UNCHANGED vars
  BY <1>3 DEF vars, Calm
<1> QED
  BY <1>1, <1>2, <1>3, QuietReappear, QuietPauseBot, QuietArmBot DEF Next

\* This invariant is inductive as well, next to OrderInv.
LEMMA SentInvStep ==
    ASSUME OrderInv, SentInv, [Next]_vars
    PROVE  SentInv'
<1>1. TypeOK /\ TypeOK'
  BY TypesStep DEF OrderInv
<1> QED
  BY <1>1, CalmSteps, CalmKeepsSent, SentReserve, SentAuditCreated,
     SentCreateOrder, SentInlineLookup, SentSettle, SentInlineSettle,
     SentMarkUnknown, SentTripBreaker, SentDeadLetter, SentScanPick,
     SentScanVerdict, SentScanFinalize, SentScanClose, SentAge,
     SentExchangeMoves

LEMMA InitSent ==
    ASSUME Init
    PROVE  SentInv
  BY DEF Init, SentInv, OwnedRow, OneOwner, UnsentIsNowhere, AgedHasRow,
     Refused, Refusal, DeadLetters, Owning, InHandSteps

\* A row that an order was placed for, or is about to be, has one owner; what
\* was not sent is not on the exchange; a refused order is not either.
THEOREM SentInvariant == Spec => [](OrderInv /\ SentInv)
<1>1. Init => SentInv
  BY InitSent
<1>2. OrderInv /\ SentInv /\ [Next]_vars => SentInv'
  BY SentInvStep
<1> QED
  BY <1>1, <1>2, OrderInvariant, PTL DEF Spec

-----------------------------------------------------------------------------
(* Refusals and their dead letters *)

\* A resolver looks at old rows only; a worker that was told the state of an
\* order has one; a row whose order is still to come is pending, or old.
LetterInv ==
    /\ \A w \in Worker : scan[w].at # "idle" => scan[w].sig \in aged
    /\ \A w \in Worker : pc[w] \in {"settle", "inline"} /\ resp[w] \in OrderStatus =>
                           exch[Sig(w)] # "none"
    /\ \A w \in Worker : pc[w] \in {"audit", "order"} =>
                           Sig(w) \in aged \/ trade[Sig(w)] = "pending"

\* No refusal is left without its letter by a step, or one is and the step is
\* a failure.
NoneForgotten == Unlettered' \subseteq Unlettered
OneForgotten  ==
    /\ \E s : Unlettered' \subseteq Unlettered \cup {s}
    /\ crashes' + dbErrors' >= crashes + dbErrors + 1

LEMMA CalmKeepsLetters ==
    ASSUME OrderInv, LetterInv, Calm, TypeOK'
    PROVE  LetterInv' /\ (NoneForgotten \/ OneForgotten)
<1> USE DEF OrderInv, TypeOK, LetterInv, Calm
<1>1. ASSUME NEW w \in Worker, pc'[w] \in Owning
      PROVE  /\ pc[w] = pc'[w] /\ Sig(w)' = Sig(w) /\ resp'[w] = resp[w]
             /\ Sig(w) \in Signal
  BY <1>1, OwnedSignal DEF Sig
<1>2. LetterInv'
  BY <1>1 DEF Owning, InHandSteps
<1>3. \A s \in Unlettered' : /\ s \in Signal /\ placed[s] > 0 /\ exch[s] = "none"
                             /\ trade[s] = "failed" /\ s \notin aged \cup dlq
  BY DEF Unlettered
<1>4. CASE \A w \in Worker : pc[w] \in {"breaker", "deadletter"} =>
             pc'[w] = pc[w] /\ msg'[w] = msg[w]
  <2> NoneForgotten
    BY <1>3, <1>4 DEF NoneForgotten, Unlettered, Sig
  <2> QED
    BY <1>2
<1>5. ASSUME NEW w \in Worker, Crash(w)
      PROVE  OneForgotten
  <2>1. \A v \in Worker \ {w} : pc'[v] = pc[v] /\ msg'[v] = msg[v]
    BY <1>5 DEF Crash, Drop, Go, WorkerTypes
  <2>2. Unlettered' \subseteq Unlettered \cup {Sig(w)}
    BY <1>3, <2>1 DEF Unlettered, Sig
  <2>3. crashes' + dbErrors' = crashes + dbErrors + 1
    BY <1>5 DEF Crash, BoundTypes
  <2> QED
    BY <2>2, <2>3 DEF OneForgotten, BoundTypes
<1> QED
  BY <1>2, <1>4, <1>5

\* What a step on an owned row has to see to.
LetterSeenTo(w, s) ==
    /\ pc[w] \in {"settle", "inline"} /\ resp[w] \in OrderStatus => exch[s] # "none"
    /\ pc[w] \in {"audit", "order"} => s \in aged \/ trade[s] = "pending"

LEMMA OwnStepKeepsLetters ==
    ASSUME OrderInv, LetterInv, TypeOK', NEW w \in Worker, OwnStep(w),
           OwnsAlone(w), NEW s \in Signal, s = Sig(w), LetterSeenTo(w, s)'
    PROVE  LetterInv' /\ Unlettered' \subseteq Unlettered \cup {s}
<1> USE DEF OrderInv, TypeOK, LetterInv
<1>1. ASSUME NEW v \in Worker \ {w}
      PROVE  /\ pc'[v] = pc[v] /\ Sig(v)' = Sig(v) /\ resp'[v] = resp[v]
             /\ pc[v] \in Owning => Sig(v) \in Signal \ {s}
  BY OwnedSignal DEF OwnStep, OwnsAlone, Sig
<1>2. pc'[w] \in Owning => Sig(w)' = s
  BY DEF OwnStep, Sig
<1>3. /\ \A t \in Signal \ {s} : /\ trade'[t] = trade[t] /\ placed'[t] = placed[t]
                                 /\ exch'[t] = exch[t]
      /\ aged' = aged /\ dlq \subseteq dlq' /\ scan' = scan
  BY DEF OwnStep
<1>4. LetterInv'
  <2>1. ASSUME NEW v \in Worker, pc'[v] \in Owning
        PROVE  LetterSeenTo(v, Sig(v))'
    <3>1. CASE v = w
      BY <1>2, <2>1, <3>1 DEF LetterSeenTo
    <3>2. CASE v # w
      BY <1>1, <1>3, <2>1, <3>2 DEF LetterSeenTo, Owning, InHandSteps
    <3> QED
      BY <3>1, <3>2
  <2> QED
    BY <1>3, <2>1 DEF LetterSeenTo, Owning, InHandSteps
<1>5. Unlettered' \subseteq Unlettered \cup {s}
  BY <1>1, <1>3 DEF Unlettered
<1> QED
  BY <1>4, <1>5

\* The steps that own a row forget no refusal but when the dead letter fails.
LEMMA OwnersKeepLetters ==
    ASSUME OrderInv, SentInv, LetterInv, TypeOK', NEW w \in Worker,
           \/ AuditCreated(w) \/ CreateOrder(w) \/ InlineLookup(w)
           \/ Settle(w) \/ InlineSettle(w) \/ MarkUnknown(w)
           \/ TripBreaker(w) \/ DeadLetter(w)
    PROVE  LetterInv' /\ (NoneForgotten \/ OneForgotten)
<1>1. OwnStep(w) /\ OwnsAlone(w) /\ Sig(w) \in Signal /\ pc[w] \in Owning
  BY OwnAuditCreated, OwnCreateOrder, OwnInlineLookup, OwnSettle,
     OwnInlineSettle, OwnMarkUnknown, OwnTripBreaker, OwnDeadLetter
<1>2. PICK s \in Signal : s = Sig(w)
  BY <1>1
<1>3. ASSUME LetterSeenTo(w, s)', s \notin Unlettered'
      PROVE  LetterInv' /\ NoneForgotten
  BY <1>1, <1>2, <1>3, OwnStepKeepsLetters DEF NoneForgotten
<1> USE DEF OrderInv, TypeOK, WorkerTypes, RecordTypes
<1>4. CASE AuditCreated(w)
  <2>1. /\ pc[w] = "audit" /\ trade'[s] \in {trade[s], "cancelled"}
        /\ aged' = aged /\ placed' = placed
        /\ pc'[w] \in {"order", "ack"} /\ (pc'[w] = "order" => trade'[s] = trade[s])
    BY <1>2, <1>4 DEF AuditCreated, Step, Go
  <2>2. placed[s] = 0
    BY <1>2, <2>1 DEF Reserved, Sending
  <2> QED
    BY <1>2, <1>3, <2>1, <2>2 DEF LetterSeenTo, LetterInv, Unlettered
<1>5. CASE CreateOrder(w)
  <2>1. /\ pc[w] = "order" /\ trade' = trade /\ aged' = aged
        /\ pc'[w] \in {"settle", "lookup"}
        /\ resp'[w] \in OrderStatus => exch'[s] # "none"
    BY <1>2, <1>5 DEF CreateOrder, Go, Report, Visible, OrderTypes, OrderStatus
  <2> QED
    BY <1>2, <1>3, <2>1 DEF LetterSeenTo, LetterInv, Unlettered
<1>6. CASE InlineLookup(w)
  <2>1. /\ pc[w] = "lookup" /\ pc'[w] = "inline" /\ UNCHANGED <<msg, worldVars>>
        /\ resp'[w] \in OrderStatus => exch[s] # "none"
    BY <1>2, <1>6 DEF InlineLookup, Go, Found, Report, Visible, OrderStatus
  <2>2. LetterSeenTo(w, s)'
    BY <2>1 DEF LetterSeenTo
  <2>3. \A v \in Worker \ {w} : pc'[v] = pc[v]
    BY <1>6 DEF InlineLookup, Go
  <2>4. NoneForgotten
    BY <2>1, <2>3 DEF NoneForgotten, Unlettered, Sig
  <2> QED
    BY <1>1, <1>2, <2>2, <2>4, OwnStepKeepsLetters
<1>7. CASE Settle(w)
  <2>1. /\ pc[w] = "settle" /\ exch' = exch /\ msg' = msg
        /\ pc'[w] \in {"job", "reset", "ack", "mark", "breaker", "deadletter"}
        /\ resp[w] \in OrderStatus \/ pc'[w] \in {"breaker", "deadletter"}
    BY <1>7 DEF Settle, Step, Go, AfterOrder
  <2>2. exch'[s] # "none" \/ pc'[w] \in {"breaker", "deadletter"}
    BY <1>2, <2>1 DEF LetterInv
  <2> QED
    BY <1>2, <1>3, <2>1, <2>2 DEF LetterSeenTo, Unlettered, Sig
<1>8. CASE InlineSettle(w)
  <2>1. /\ pc[w] = "inline" /\ exch' = exch
        /\ pc'[w] \in {"job", "reset", "ack"}
        /\ resp[w] \in OrderStatus \/ trade'[s] = "unknown" \/ trade' = trade
    BY <1>2, <1>8 DEF InlineSettle, WriteTrade, Step, Go, AfterOrder
  <2>2. LetterSeenTo(w, s)'
    BY <2>1 DEF LetterSeenTo
  <2>3. CASE exch'[s] # "none" \/ trade'[s] = "unknown"
    BY <1>3, <2>2, <2>3 DEF Unlettered
  <2>4. CASE trade' = trade
    <3>1. /\ \A v \in Worker \ {w} : pc'[v] = pc[v]
          /\ UNCHANGED <<msg, aged, dlq, placed>>
      BY <1>8 DEF InlineSettle, Step, Go
    <3>2. NoneForgotten
      BY <2>1, <2>4, <3>1 DEF NoneForgotten, Unlettered, Sig
    <3> QED
      BY <1>1, <1>2, <2>2, <3>2, OwnStepKeepsLetters
  <2> QED
    BY <1>2, <2>1, <2>3, <2>4 DEF LetterInv
<1>9. CASE MarkUnknown(w)
  <2>1. /\ pc[w] = "mark" /\ pc'[w] = "job"
        /\ trade'[s] = "unknown" \/ trade' = trade
    BY <1>2, <1>9 DEF MarkUnknown, WriteTrade, Step, Go
  <2>2. LetterSeenTo(w, s)'
    BY <2>1 DEF LetterSeenTo
  <2>3. CASE trade'[s] = "unknown"
    BY <1>3, <2>2, <2>3 DEF Unlettered
  <2>4. CASE trade' = trade
    <3>1. /\ \A v \in Worker \ {w} : pc'[v] = pc[v]
          /\ UNCHANGED <<msg, aged, dlq, placed, exch>>
      BY <1>9 DEF MarkUnknown, Step, Go
    <3>2. NoneForgotten
      BY <2>1, <2>4, <3>1 DEF NoneForgotten, Unlettered, Sig
    <3> QED
      BY <1>1, <1>2, <2>2, <3>2, OwnStepKeepsLetters
  <2> QED
    BY <2>1, <2>3, <2>4
<1>10. CASE TripBreaker(w)
  <2>1. pc'[w] = "deadletter" /\ msg' = msg
    BY <1>10 DEF TripBreaker, WriteBotStep, Step, Go
  <2> QED
    BY <1>2, <1>3, <2>1 DEF LetterSeenTo, Unlettered, Sig
<1>11. CASE DeadLetter(w)
  <2>1. pc'[w] \in {"pause", "revoke", "ack"}
    BY <1>11 DEF DeadLetter, Step, Go
  <2>2. LetterSeenTo(w, s)'
    BY <2>1 DEF LetterSeenTo
  <2>3. CASE s \in dlq'
    BY <1>3, <2>2, <2>3 DEF Unlettered
  <2>4. CASE DbFails /\ crashes' = crashes
    <3>1. crashes' + dbErrors' >= crashes + dbErrors + 1
      BY <2>4 DEF DbFails, BoundTypes
    <3> QED
      BY <1>1, <1>2, <2>2, <3>1, OwnStepKeepsLetters DEF OneForgotten
  <2> QED
    BY <1>2, <1>11, <2>3, <2>4 DEF DeadLetter
<1> QED
  BY <1>4, <1>5, <1>6, <1>7, <1>8, <1>9, <1>10, <1>11

\* So do a reservation, the resolver, the exchange and the passing of time.
LEMMA OthersKeepLetters ==
    ASSUME OrderInv, SentInv, LetterInv, TypeOK',
           \/ \E w \in Worker :
                \/ Reserve(w) \/ \E s \in Signal : ScanPick(w, s)
                \/ ScanVerdict(w) \/ ScanFinalize(w) \/ ScanClose(w)
           \/ \E s \in Signal : Age(s) \/ ExchangeMoves(s)
    PROVE  LetterInv' /\ (NoneForgotten \/ OneForgotten)
<1> USE DEF OrderInv, TypeOK, WorkerTypes, RecordTypes
<1>1. \A v \in Worker : pc[v] \in Owning => Sig(v) \in Signal
  BY OwnedSignal
<1>2. ASSUME NEW w \in Worker, Reserve(w)
      PROVE  LetterInv' /\ (NoneForgotten \/ OneForgotten)
  <2>1. CASE Calm
    BY <2>1, CalmKeepsLetters
  <2>2. CASE /\ OwnStep(w) /\ OwnsAlone(w)
             /\ trade[Sig(w)] = "none" /\ placed' = placed /\ exch' = exch
             /\ trade' = [trade EXCEPT ![Sig(w)] = "pending"] /\ dlq' = dlq
             /\ pc'[w] \in {"audit", "poll"}
    <3>1. PICK s \in Signal : s = Sig(w)
      BY <2>2, OwnedSignal DEF OwnStep
    <3>2. trade'[s] = "pending"
      BY <2>2, <3>1
    <3>3. LetterSeenTo(w, s)' /\ s \notin Unlettered'
      BY <2>2, <3>2 DEF LetterSeenTo, Unlettered
    <3> QED
      BY <2>2, <3>1, <3>3, OwnStepKeepsLetters DEF NoneForgotten
  <2> QED
    BY <1>2, <2>1, <2>2, OwnReserve
<1>3. ASSUME NEW w \in Worker,
             \/ \E s \in Signal : ScanPick(w, s)
             \/ ScanVerdict(w) \/ ScanClose(w)
      PROVE  LetterInv' /\ NoneForgotten
  <2>1. /\ UNCHANGED <<pc, msg, resp, trade, placed, exch, aged, dlq>>
        /\ \A v \in Worker : scan'[v].at # "idle" => scan'[v].sig \in aged
    BY <1>3 DEF ScanPick, ScanVerdict, ScanClose, Stuck, IdleScan, ScanTypes,
       ScanState, LetterInv
  <2> QED
    BY <2>1 DEF LetterInv, NoneForgotten, Unlettered, Sig
<1>4. ASSUME NEW w \in Worker, ScanFinalize(w)
      PROVE  LetterInv' /\ NoneForgotten
  <2>1. /\ UNCHANGED <<pc, msg, resp, placed, exch, aged, dlq>>
        /\ \A v \in Worker : scan'[v].at # "idle" => scan'[v].sig \in aged
        /\ \A s \in Signal : s \in aged \/ trade'[s] = trade[s]
    BY <1>4 DEF ScanFinalize, IdleScan, ScanTypes, ScanState, LetterInv
  <2> QED
    BY <1>1, <2>1 DEF LetterInv, NoneForgotten, Unlettered, Sig, Owning, InHandSteps
<1>5. ASSUME NEW s \in Signal, Age(s)
      PROVE  LetterInv' /\ NoneForgotten
  BY <1>5 DEF Age, LetterInv, NoneForgotten, Unlettered, Sig
<1>6. ASSUME NEW s \in Signal, ExchangeMoves(s)
      PROVE  LetterInv' /\ NoneForgotten
  <2>1. \A t \in Signal : exch[t] = "none" <=> exch'[t] = "none"
    BY <1>6 DEF ExchangeMoves, Visible, Terminal, OrderTypes
  <2> QED
    BY <1>1, <1>6, <2>1 DEF ExchangeMoves, LetterInv, NoneForgotten, Unlettered,
       Sig, Owning, InHandSteps
<1> QED
  BY <1>2, <1>3, <1>4, <1>5, <1>6

\* No step gives back what it has used of the bounds.
LEMMA BoundsGrow ==
    ASSUME TypeOK, [Next]_vars
    PROVE  crashes' >= crashes /\ dbErrors' >= dbErrors
<1> USE DEF TypeOK, BoundTypes, DbFails
<1>1. ASSUME NEW w \in Worker,
             Boot(w) \/ EndResolve(w) \/ Receive(w) \/ Ack(w) \/ Crash(w)
      PROVE  crashes' >= crashes /\ dbErrors' >= dbErrors
  BY <1>1 DEF Boot, EndResolve, Receive, Ack, Crash
<1>2. ASSUME NEW w \in Worker,
             \/ ReadBot(w) \/ CheckDuplicate(w) \/ Guard(w) \/ CheckCredential(w)
             \/ ReadMarket(w)
      PROVE  crashes' >= crashes /\ dbErrors' >= dbErrors
  BY <1>2 DEF ReadBot, CheckDuplicate, OpenJobFor, Guard, Release, CheckCredential,
     disableBotMisconfigured, WriteBot, ReadMarket
<1>3. ASSUME NEW w \in Worker,
             \/ ChooseMode(w) \/ Reserve(w) \/ AuditCreated(w) \/ CreateOrder(w)
             \/ InlineLookup(w)
      PROVE  crashes' >= crashes /\ dbErrors' >= dbErrors
  BY <1>3 DEF ChooseMode, RecordSimulatedFill, ProposeOrder, Reserve, AuditCreated,
     CreateOrder, InlineLookup
<1>4. ASSUME NEW w \in Worker,
             \/ Settle(w) \/ InlineSettle(w) \/ MarkUnknown(w) \/ OpenJob(w)
             \/ DeadLetter(w) \/ RevokeCredential(w)
      PROVE  crashes' >= crashes /\ dbErrors' >= dbErrors
  BY <1>4 DEF Settle, InlineSettle, MarkUnknown, OpenJob, DeadLetter,
     RevokeCredential, WriteTrade, OpenJobFor
<1>5. ASSUME NEW w \in Worker,
             \/ ResetFailures(w) \/ TripBreaker(w) \/ DisableBot(w)
             \/ PauseForAttention(w)
      PROVE  crashes' >= crashes /\ dbErrors' >= dbErrors
  BY <1>5 DEF ResetFailures, TripBreaker, DisableBot, PauseForAttention,
     WriteBotStep, WriteBot
<1>6. ASSUME NEW w \in Worker, Resolver(w)
      PROVE  crashes' >= crashes /\ dbErrors' >= dbErrors
  BY <1>6 DEF Resolver, ScanPick, ScanVerdict, ScanInconclusive, ScanRefused,
     ScanFinalize, ScanClose
<1>7. ASSUME NEW w \in Worker, WorkerStep(w)
      PROVE  crashes' >= crashes /\ dbErrors' >= dbErrors
  BY <1>1, <1>2, <1>3, <1>4, <1>5, <1>6, <1>7 DEF WorkerStep, ProcessMessage
<1>8. ASSUME NEW s \in Signal, SignalStep(s)
      PROVE  crashes' >= crashes /\ dbErrors' >= dbErrors
  BY <1>8 DEF SignalStep, Age, ExchangeMoves, Lapse, ExpireProposal, RejectOrder,
     ApproveOrder, SendApproved, Decide
<1>9. ASSUME NEW b \in Bot, PauseBot(b) \/ \E mode \in Modes : ArmBot(b, mode)
      PROVE  crashes' >= crashes /\ dbErrors' >= dbErrors
  <2>1. crashes' = crashes /\ dbErrors' = dbErrors
    BY <1>9, Zenon DEF PauseBot, ArmBot
  <2> QED
    BY <2>1
<1>10. ASSUME NEW m \in hidden, Reappear(m)
       PROVE  crashes' >= crashes /\ dbErrors' >= dbErrors
  BY <1>10 DEF Reappear
<1>11. CASE UNCHANGED vars
  BY <1>11 DEF vars
<1> QED
  BY <1>7, <1>8, <1>9, <1>10, <1>11 DEF Next

\* Each failure takes one dead letter at most.
LostAreCounted == Cardinality(Unlettered) <= crashes + dbErrors

\* A count that grows by one stays within a bound that does.
LEMMA NextWithin ==
    ASSUME NEW a \in Nat, NEW b \in Nat, NEW c \in Nat, NEW d \in Nat,
           NEW m \in Nat, NEW n \in Nat,
           m <= a + b, n <= m + 1, c + d >= a + b + 1
    PROVE  n <= c + d
  OBVIOUS

\* Every step keeps the count.
LEMMA LetterStep ==
    ASSUME IsFiniteSet(Signal), OrderInv, SentInv, LetterInv, LostAreCounted,
           [Next]_vars
    PROVE  LetterInv' /\ LostAreCounted'
<1>1. TypeOK /\ TypeOK'
  BY TypesStep DEF OrderInv
<1>2. LetterInv' /\ (NoneForgotten \/ OneForgotten)
  BY <1>1, CalmSteps, CalmKeepsLetters, OwnersKeepLetters, OthersKeepLetters
<1>3. /\ crashes \in Nat /\ dbErrors \in Nat
      /\ crashes' \in Nat /\ dbErrors' \in Nat
      /\ crashes' >= crashes /\ dbErrors' >= dbErrors
  BY <1>1, BoundsGrow DEF TypeOK, BoundTypes
<1>4. IsFiniteSet(Unlettered) /\ IsFiniteSet(Unlettered')
  BY FS_Subset DEF Unlettered
<1>5. Cardinality(Unlettered) \in Nat /\ Cardinality(Unlettered') \in Nat
  BY <1>4, FS_CardinalityType
<1>6. CASE NoneForgotten
  <2>1. Cardinality(Unlettered') <= Cardinality(Unlettered)
    BY <1>4, <1>6, FS_Subset DEF NoneForgotten
  <2> QED
    BY <1>2, <1>3, <1>5, <2>1 DEF LostAreCounted
<1>7. CASE OneForgotten
  <2>1. PICK s : Unlettered' \subseteq Unlettered \cup {s}
    BY <1>7 DEF OneForgotten
  <2>2. /\ IsFiniteSet(Unlettered \cup {s})
        /\ Cardinality(Unlettered \cup {s}) \in {Cardinality(Unlettered),
                                                 Cardinality(Unlettered) + 1}
    BY <1>4, FS_AddElement
  <2>3. Cardinality(Unlettered') <= Cardinality(Unlettered \cup {s})
    BY <2>1, <2>2, FS_Subset
  <2>4. Cardinality(Unlettered') <= Cardinality(Unlettered) + 1
    BY <1>5, <2>2, <2>3
  <2>5. crashes' + dbErrors' >= crashes + dbErrors + 1
    BY <1>7 DEF OneForgotten
  <2>6. Cardinality(Unlettered) <= crashes + dbErrors
    BY DEF LostAreCounted
  <2>7. Cardinality(Unlettered') <= crashes' + dbErrors'
    BY <1>3, <1>5, <2>4, <2>5, <2>6, NextWithin
  <2> QED
    BY <1>2, <2>7 DEF LostAreCounted
<1> QED
  BY <1>2, <1>6, <1>7

\* However late messages and orders are, and whatever crashes: as many refused
\* orders are without a dead letter as there were crashes and failed writes.
THEOREM LettersAreCounted == IsFiniteSet(Signal) => (Spec => []LostAreCounted)
<1> SUFFICES ASSUME IsFiniteSet(Signal) PROVE Spec => []LostAreCounted
  OBVIOUS
<1>1. ASSUME Init PROVE LetterInv /\ LostAreCounted
  <2>1. LetterInv
    BY <1>1 DEF Init, LetterInv, IdleScan
  <2>2. Unlettered = {}
    BY <1>1 DEF Init, Unlettered
  <2> QED
    BY <1>1, <2>1, <2>2, FS_EmptySet DEF Init, LostAreCounted
<1>2. /\ OrderInv /\ SentInv /\ LetterInv /\ LostAreCounted
      /\ [Next]_vars
      => LetterInv' /\ LostAreCounted'
  BY LetterStep
<1> QED
  BY <1>1, <1>2, SentInvariant, PTL DEF Spec

\* Where no write fails, a dead letter's trade is failed with no order of it on
\* the exchange, and a refusal misses its letter only by a crash.
THEOREM RefusalsGetLetters ==
    MaxDbErrors = 0 /\ IsFiniteSet(Signal) => (Spec => []RefusalsAreLettered)
<1> SUFFICES ASSUME MaxDbErrors = 0, IsFiniteSet(Signal)
             PROVE  Spec => []RefusalsAreLettered
  OBVIOUS
<1>1. SentInv /\ LostAreCounted => RefusalsAreLettered
  BY DEF SentInv, DeadLetters, LostAreCounted, RefusalsAreLettered
<1> QED
  BY <1>1, SentInvariant, LettersAreCounted, PTL

-----------------------------------------------------------------------------
(* The truth of the trades table, when messages and orders are timely *)

\* A row in hand is neither old nor settled, unless its owner is about to mark
\* it unknown after an update that failed.
FreshRow == \A w \in Worker : pc[w] \in InHandSteps =>
    Sig(w) \notin aged /\ (trade[Sig(w)] = "pending" \/ pc[w] = "mark")

\* An order is visible by the time its row is old.
AgedIsVisible == \A s \in aged : exch[s] # "lagging"

\* What a worker is about to record agrees with the exchange.
AnswersAgree == \A w \in Worker :
    pc[w] \in {"settle", "inline"} => Agrees(resp[w], exch[Sig(w)])

\* A resolver looks at old rows only; so does its verdict, and the job it is
\* about to close is of a settled trade.
VerdictsAgree == \A w \in Worker :
    /\ scan[w].at # "idle" => scan[w].sig \in aged
    /\ scan[w].at = "finalize" => Agrees(scan[w].found, exch[scan[w].sig])
    /\ scan[w].at = "close" => trade[scan[w].sig] \in Terminal

\* The trade of a resolved job was old and is settled.
ResolvedIsSettled ==
    \A s \in Signal : job[s] = "resolved" => s \in aged /\ trade[s] \in Terminal

TruthInv ==
    /\ FreshRow /\ AgedIsVisible /\ NoHiddenPosition
    /\ AnswersAgree /\ VerdictsAgree /\ ResolvedIsSettled

\* NoHiddenPosition says just that every row agrees with the exchange.
LEMMA RowsAgree ==
    NoHiddenPosition <=> \A s \in Signal : Agrees(trade[s], exch[s])
  BY DEF NoHiddenPosition, Agrees

LEMMA RowsAgreeNext ==
    NoHiddenPosition' <=> \A s \in Signal : Agrees(trade'[s], exch'[s])
  BY DEF NoHiddenPosition, Agrees

\* A calm step disturbs none of this either.
LEMMA CalmKeepsTruth ==
    ASSUME OrderInv, SentInv, TruthInv, Calm, TypeOK'
    PROVE  TruthInv'
<1> USE DEF OrderInv, TypeOK, TruthInv, Calm
<1>1. ASSUME NEW w \in Worker, pc'[w] \in InHandSteps
      PROVE  /\ pc[w] = pc'[w] /\ Sig(w)' = Sig(w) /\ resp'[w] = resp[w]
             /\ Sig(w) \in Signal
  BY <1>1, OwnedSignal DEF Sig, Owning
<1>2. FreshRow'
  BY <1>1 DEF FreshRow
<1>3. AgedIsVisible'
  BY DEF AgedIsVisible
<1>4. NoHiddenPosition'
  BY RowsAgree, RowsAgreeNext DEF Agrees
<1>5. AnswersAgree'
  BY <1>1 DEF AnswersAgree, InHandSteps
<1>6. \A s \in Signal : trade[s] \in Terminal => trade'[s] = trade[s]
  BY DEF Terminal
<1>7. VerdictsAgree'
  BY <1>6 DEF VerdictsAgree, ScanTypes
<1>8. ResolvedIsSettled'
  BY <1>6 DEF ResolvedIsSettled
<1> QED
  BY <1>2, <1>3, <1>4, <1>5, <1>7, <1>8

\* What a step on a row has to see to here.
SignalTrue(w, s) ==
    /\ pc[w] \in InHandSteps => /\ s \notin aged
                                /\ trade[s] = "pending" \/ pc[w] = "mark"
    /\ s \in aged => exch[s] # "lagging"
    /\ pc[w] \in {"settle", "inline"} => Agrees(resp[w], exch[s])
    /\ Agrees(trade[s], exch[s])

LEMMA OwnStepKeepsTruth ==
    ASSUME OrderInv, SentInv, TruthInv, TypeOK', NEW w \in Worker, OwnStep(w),
           OwnsAlone(w), NEW s \in Signal, s = Sig(w), SignalTrue(w, s)',
           s \in aged => trade'[s] = trade[s] /\ exch'[s] = exch[s]
    PROVE  TruthInv'
<1> USE DEF OrderInv, TypeOK, TruthInv
<1>1. ASSUME NEW v \in Worker \ {w}
      PROVE  /\ pc'[v] = pc[v] /\ Sig(v)' = Sig(v) /\ resp'[v] = resp[v]
             /\ pc[v] \in InHandSteps => Sig(v) \in Signal \ {s}
  BY OwnedSignal DEF OwnStep, OwnsAlone, Sig, Owning
<1>2. pc'[w] \in InHandSteps => Sig(w)' = s
  BY DEF OwnStep, Sig, Owning
<1>3. /\ \A t \in Signal \ {s} : trade'[t] = trade[t] /\ exch'[t] = exch[t]
      /\ aged' = aged /\ scan' = scan /\ job' = job
  BY DEF OwnStep
<1>4. \A t \in aged : trade'[t] = trade[t] /\ exch'[t] = exch[t]
  BY <1>3 DEF RecordTypes
<1>5. FreshRow'
  BY <1>1, <1>2, <1>3 DEF FreshRow, SignalTrue
<1>6. AgedIsVisible'
  BY <1>3, <1>4 DEF AgedIsVisible
<1>7. NoHiddenPosition'
  BY <1>3, RowsAgree, RowsAgreeNext DEF SignalTrue
<1>8. AnswersAgree'
  BY <1>1, <1>2, <1>3 DEF AnswersAgree, SignalTrue, InHandSteps
<1>9. VerdictsAgree'
  BY <1>3, <1>4 DEF VerdictsAgree
<1>10. ResolvedIsSettled'
  BY <1>3, <1>4 DEF ResolvedIsSettled
<1> QED
  BY <1>5, <1>6, <1>7, <1>8, <1>9, <1>10

LEMMA TrueAuditCreated ==
    ASSUME OrderInv, SentInv, TruthInv, TypeOK', NEW w \in Worker, AuditCreated(w)
    PROVE  TruthInv'
<1>1. /\ OwnStep(w) /\ OwnsAlone(w)
      /\ Sig(w) \in Signal /\ pc[w] \in Owning
  BY OwnAuditCreated
<1>2. PICK s \in Signal : s = Sig(w)
  BY <1>1
<1>3. SignalTrue(w, s)'
  BY <1>1, <1>2, RowsAgree DEF AuditCreated, Step, Go, Reserved, Sending,
     SentInv, UnsentIsNowhere, SignalTrue, Agrees, OrderInv, TruthInv,
     FreshRow, AgedIsVisible, AnswersAgree, InHandSteps, TypeOK,
     WorkerTypes, RecordTypes, OrderTypes
<1>4. s \in aged => trade'[s] = trade[s] /\ exch'[s] = exch[s]
  BY <1>2 DEF AuditCreated, Step, TruthInv, FreshRow, InHandSteps
<1> QED
  BY <1>1, <1>2, <1>3, <1>4, OwnStepKeepsTruth

LEMMA TrueInlineLookup ==
    ASSUME OrderInv, SentInv, TruthInv, TypeOK', NEW w \in Worker, InlineLookup(w)
    PROVE  TruthInv'
<1>1. /\ OwnStep(w) /\ OwnsAlone(w)
      /\ Sig(w) \in Signal /\ pc[w] \in Owning
  BY OwnInlineLookup
<1>2. PICK s \in Signal : s = Sig(w)
  BY <1>1
<1>3. SignalTrue(w, s)'
  BY <1>1, <1>2, RowsAgree DEF InlineLookup, Go, Found, Report, Visible,
     SignalTrue, Agrees, OrderInv, TruthInv, FreshRow, AgedIsVisible,
     AnswersAgree, InHandSteps, TypeOK, WorkerTypes, RecordTypes,
     OrderTypes
<1>4. s \in aged => trade'[s] = trade[s] /\ exch'[s] = exch[s]
  BY DEF InlineLookup
<1> QED
  BY <1>1, <1>2, <1>3, <1>4, OwnStepKeepsTruth

LEMMA TrueSettle ==
    ASSUME OrderInv, SentInv, TruthInv, TypeOK', NEW w \in Worker, Settle(w)
    PROVE  TruthInv'
<1>1. /\ OwnStep(w) /\ OwnsAlone(w)
      /\ Sig(w) \in Signal /\ pc[w] \in Owning
  BY OwnSettle
<1>2. PICK s \in Signal : s = Sig(w)
  BY <1>1
<1>3. SignalTrue(w, s)'
  BY <1>1, <1>2, RowsAgree DEF Settle, WriteTrade, Step, Go, AfterOrder,
     OrderStatus, DbFails, SentInv, Refused, Refusal, SignalTrue, Agrees,
     OrderInv, TruthInv, FreshRow, AgedIsVisible, AnswersAgree, InHandSteps,
     TypeOK, WorkerTypes, RecordTypes, OrderTypes
<1>4. s \in aged => trade'[s] = trade[s] /\ exch'[s] = exch[s]
  BY <1>2 DEF Settle, Step, TruthInv, FreshRow, InHandSteps
<1> QED
  BY <1>1, <1>2, <1>3, <1>4, OwnStepKeepsTruth

LEMMA TrueInlineSettle ==
    ASSUME OrderInv, SentInv, TruthInv, TypeOK', NEW w \in Worker, InlineSettle(w)
    PROVE  TruthInv'
<1>1. /\ OwnStep(w) /\ OwnsAlone(w)
      /\ Sig(w) \in Signal /\ pc[w] \in Owning
  BY OwnInlineSettle
<1>2. PICK s \in Signal : s = Sig(w)
  BY <1>1
<1>3. SignalTrue(w, s)'
  BY <1>1, <1>2, RowsAgree DEF InlineSettle, WriteTrade, Step, Go,
     AfterOrder, OrderStatus, DbFails, SignalTrue, Agrees, OrderInv,
     TruthInv, FreshRow, AgedIsVisible, AnswersAgree, InHandSteps, TypeOK,
     WorkerTypes, RecordTypes, OrderTypes
<1>4. s \in aged => trade'[s] = trade[s] /\ exch'[s] = exch[s]
  BY <1>2 DEF InlineSettle, Step, TruthInv, FreshRow, InHandSteps
<1> QED
  BY <1>1, <1>2, <1>3, <1>4, OwnStepKeepsTruth

LEMMA TrueMarkUnknown ==
    ASSUME OrderInv, SentInv, TruthInv, TypeOK', NEW w \in Worker, MarkUnknown(w)
    PROVE  TruthInv'
<1>1. /\ OwnStep(w) /\ OwnsAlone(w)
      /\ Sig(w) \in Signal /\ pc[w] \in Owning
  BY OwnMarkUnknown
<1>2. PICK s \in Signal : s = Sig(w)
  BY <1>1
<1>3. SignalTrue(w, s)'
  BY <1>1, <1>2, RowsAgree DEF MarkUnknown, WriteTrade, Step, Go, DbFails,
     SignalTrue, Agrees, OrderInv, TruthInv, FreshRow, AgedIsVisible,
     AnswersAgree, InHandSteps, TypeOK, WorkerTypes, RecordTypes,
     OrderTypes
<1>4. s \in aged => trade'[s] = trade[s] /\ exch'[s] = exch[s]
  BY <1>2 DEF MarkUnknown, Step, TruthInv, FreshRow, InHandSteps
<1> QED
  BY <1>1, <1>2, <1>3, <1>4, OwnStepKeepsTruth

LEMMA TrueTripBreaker ==
    ASSUME OrderInv, SentInv, TruthInv, TypeOK', NEW w \in Worker, TripBreaker(w)
    PROVE  TruthInv'
<1>1. /\ OwnStep(w) /\ OwnsAlone(w)
      /\ Sig(w) \in Signal /\ pc[w] \in Owning
  BY OwnTripBreaker
<1>2. PICK s \in Signal : s = Sig(w)
  BY <1>1
<1>3. SignalTrue(w, s)'
  BY <1>1, <1>2, RowsAgree DEF TripBreaker, WriteBotStep, Step, Go,
     SignalTrue, Agrees, OrderInv, TruthInv, FreshRow, AgedIsVisible,
     AnswersAgree, InHandSteps, TypeOK, WorkerTypes, RecordTypes,
     OrderTypes
<1>4. s \in aged => trade'[s] = trade[s] /\ exch'[s] = exch[s]
  BY DEF TripBreaker, WriteBotStep
<1> QED
  BY <1>1, <1>2, <1>3, <1>4, OwnStepKeepsTruth

LEMMA TrueDeadLetter ==
    ASSUME OrderInv, SentInv, TruthInv, TypeOK', NEW w \in Worker, DeadLetter(w)
    PROVE  TruthInv'
<1>1. /\ OwnStep(w) /\ OwnsAlone(w)
      /\ Sig(w) \in Signal /\ pc[w] \in Owning
  BY OwnDeadLetter
<1>2. PICK s \in Signal : s = Sig(w)
  BY <1>1
<1>3. SignalTrue(w, s)'
  BY <1>1, <1>2, RowsAgree DEF DeadLetter, DbFails, Step, Go, SignalTrue,
     Agrees, OrderInv, TruthInv, FreshRow, AgedIsVisible, AnswersAgree,
     InHandSteps, TypeOK, WorkerTypes, RecordTypes, OrderTypes
<1>4. s \in aged => trade'[s] = trade[s] /\ exch'[s] = exch[s]
  BY DEF DeadLetter
<1> QED
  BY <1>1, <1>2, <1>3, <1>4, OwnStepKeepsTruth

LEMMA TrueCreateOrder ==
    ASSUME OrderInv, SentInv, TruthInv, TypeOK', NEW w \in Worker, CreateOrder(w)
    PROVE  TruthInv'
<1>1. /\ OwnStep(w) /\ OwnsAlone(w)
      /\ Sig(w) \in Signal /\ pc[w] = "order"
  BY OwnCreateOrder DEF CreateOrder
<1>2. PICK s \in Signal : s = Sig(w)
  BY <1>1
<1>3. s \notin aged /\ trade[s] = "pending"
  BY <1>1, <1>2 DEF TruthInv, FreshRow, InHandSteps
<1>4. trade' = trade /\ aged' = aged /\ pc'[w] \in {"settle", "lookup"}
  BY DEF CreateOrder, Go, OrderInv, TypeOK, WorkerTypes
<1>5. pc'[w] = "settle" => Agrees(resp'[w], exch'[s])
  BY <1>2 DEF CreateOrder, Go, Report, Visible, Agrees, OrderInv, TypeOK,
     WorkerTypes, OrderTypes
<1>6. SignalTrue(w, s)'
  BY <1>3, <1>4, <1>5 DEF SignalTrue, Agrees
<1> QED
  BY <1>1, <1>2, <1>3, <1>6, OwnStepKeepsTruth

LEMMA TrueReserve ==
    ASSUME OrderInv, SentInv, TruthInv, TypeOK', NEW w \in Worker, Reserve(w)
    PROVE  TruthInv'
<1>1. CASE Calm
  BY <1>1, CalmKeepsTruth
<1>2. CASE /\ OwnStep(w) /\ OwnsAlone(w)
           /\ trade[Sig(w)] = "none" /\ placed' = placed /\ exch' = exch
           /\ trade' = [trade EXCEPT ![Sig(w)] = "pending"] /\ dlq' = dlq
           /\ pc'[w] \in {"audit", "poll"}
  <2>1. PICK s \in Signal : s = Sig(w)
    BY <1>2, OwnedSignal DEF OwnStep, OrderInv, TypeOK
  <2>2. trade'[s] = "pending" /\ s \notin aged /\ s \notin aged'
    BY <1>2, <2>1 DEF OwnStep, SentInv, AgedHasRow, OrderInv, TypeOK, RecordTypes
  <2>3. SignalTrue(w, s)'
    BY <1>2, <2>2 DEF SignalTrue, Agrees
  <2> QED
    BY <1>2, <2>1, <2>2, <2>3, OwnStepKeepsTruth
<1> QED
  BY <1>1, <1>2, OwnReserve

LEMMA TrueScanPick ==
    ASSUME OrderInv, SentInv, TruthInv, NEW w \in Worker, NEW s \in Signal,
           ScanPick(w, s)
    PROVE  TruthInv'
<1>1. VerdictsAgree'
  BY DEF ScanPick, Stuck, TruthInv, VerdictsAgree, OrderInv, TypeOK, ScanTypes
<1> QED
  BY <1>1 DEF ScanPick, TruthInv, FreshRow, AgedIsVisible, NoHiddenPosition,
     AnswersAgree, ResolvedIsSettled, Sig

\* The verdict is what the exchange shows; an old order that it does not show
\* is not there.
LEMMA TrueScanVerdict ==
    ASSUME OrderInv, SentInv, TruthInv, TypeOK', NEW w \in Worker, ScanVerdict(w)
    PROVE  TruthInv'
<1> DEFINE s == scan[w].sig
<1>1. s \in Signal /\ s \in aged /\ exch[s] # "lagging"
  BY DEF ScanVerdict, TruthInv, VerdictsAgree, AgedIsVisible, OrderInv, TypeOK,
     ScanTypes
<1>2. PICK answer \in Found(s) \cap (Terminal \cup {"notfound"}) :
        scan' = [scan EXCEPT ![w].at = "finalize",
                   ![w].found = IF answer = "notfound" THEN "failed" ELSE answer]
  BY DEF ScanVerdict
<1> DEFINE verdict == IF answer = "notfound" THEN "failed" ELSE answer
<1>3. Agrees(verdict, exch[s])
  BY <1>1 DEF Found, Report, Visible, Terminal, Agrees, OrderInv, TypeOK,
     OrderTypes
<1>4. /\ scan'[w].at = "finalize" /\ scan'[w].sig = s /\ scan'[w].found = verdict
      /\ \A v \in Worker \ {w} : scan'[v] = scan[v]
  BY <1>2 DEF OrderInv, TypeOK, ScanTypes, ScanState
<1> HIDE DEF verdict
<1>5. UNCHANGED <<trade, aged, job, exch, pc, msg, resp>>
  BY DEF ScanVerdict
<1>6. VerdictsAgree'
  <2> SUFFICES ASSUME NEW v \in Worker
               PROVE  /\ scan'[v].at # "idle" => scan'[v].sig \in aged'
                      /\ scan'[v].at = "finalize" =>
                           Agrees(scan'[v].found, exch'[scan'[v].sig])
                      /\ scan'[v].at = "close" => trade'[scan'[v].sig] \in Terminal
    BY DEF VerdictsAgree
  <2>1. CASE v = w
    BY <1>1, <1>3, <1>4, <1>5, <2>1
  <2>2. CASE v # w
    BY <1>4, <1>5, <2>2 DEF TruthInv, VerdictsAgree
  <2> QED
    BY <2>1, <2>2
<1> QED
  BY <1>5, <1>6 DEF TruthInv, FreshRow, AgedIsVisible, NoHiddenPosition,
     AnswersAgree, ResolvedIsSettled, Sig

\* It is written to an old row that is still open, which nobody has in hand.
LEMMA TrueScanFinalize ==
    ASSUME OrderInv, SentInv, TruthInv, NEW w \in Worker, ScanFinalize(w)
    PROVE  TruthInv'
<1> DEFINE s == scan[w].sig
<1>1. /\ s \in Signal /\ s \in aged /\ scan[w].found \in Terminal
      /\ Agrees(scan[w].found, exch[s])
  BY DEF ScanFinalize, TruthInv, VerdictsAgree, OrderInv, TypeOK, ScanTypes
<1>2. UNCHANGED <<aged, job, exch, pc, msg, resp>>
  BY DEF ScanFinalize
<1>3. \/ trade' = trade
      \/ /\ trade[s] \in {"pending", "unknown"}
         /\ trade' = [trade EXCEPT ![s] = scan[w].found]
  BY DEF ScanFinalize
<1>4. /\ \A t \in Signal \ {s} : trade'[t] = trade[t]
      /\ trade'[s] = trade[s] \/ trade'[s] = scan[w].found
      /\ \A t \in Signal : trade[t] \in Terminal => trade'[t] \in Terminal
  BY <1>1, <1>3 DEF OrderInv, TypeOK, RecordTypes
<1>5. FreshRow'
  BY <1>1, <1>2, <1>4, OwnedSignal DEF TruthInv, FreshRow, Owning, Sig,
     OrderInv, TypeOK
<1>6. NoHiddenPosition'
  BY <1>1, <1>2, <1>4, RowsAgree, RowsAgreeNext DEF TruthInv
<1>7. VerdictsAgree'
  <2> SUFFICES ASSUME NEW v \in Worker
               PROVE  /\ scan'[v].at # "idle" => scan'[v].sig \in aged'
                      /\ scan'[v].at = "finalize" =>
                           Agrees(scan'[v].found, exch'[scan'[v].sig])
                      /\ scan'[v].at = "close" => trade'[scan'[v].sig] \in Terminal
    BY DEF VerdictsAgree
  <2>1. CASE v # w
    <3>1. scan'[v] = scan[v]
      BY <2>1 DEF ScanFinalize, OrderInv, TypeOK, ScanTypes
    <3> QED
      BY <1>2, <1>4, <3>1 DEF TruthInv, VerdictsAgree, OrderInv, TypeOK, ScanTypes
  <2>2. CASE v = w
    <3>1. \/ scan'[w] = IdleScan
          \/ /\ scan'[w].at = "close" /\ scan'[w].sig = s
             /\ trade' = [trade EXCEPT ![s] = scan[w].found]
      BY DEF ScanFinalize, OrderInv, TypeOK, ScanTypes, ScanState
    <3> QED
      BY <1>1, <1>2, <2>2, <3>1 DEF IdleScan, OrderInv, TypeOK, RecordTypes
  <2> QED
    BY <2>1, <2>2
<1>8. ResolvedIsSettled'
  BY <1>2, <1>4 DEF TruthInv, ResolvedIsSettled
<1> QED
  BY <1>2, <1>5, <1>6, <1>7, <1>8 DEF TruthInv, AgedIsVisible, AnswersAgree, Sig

LEMMA TrueScanClose ==
    ASSUME OrderInv, SentInv, TruthInv, NEW w \in Worker, ScanClose(w)
    PROVE  TruthInv'
<1>1. VerdictsAgree'
  BY DEF ScanClose, IdleScan, TruthInv, VerdictsAgree, OrderInv, TypeOK, ScanTypes
<1>2. ResolvedIsSettled'
  BY DEF ScanClose, TruthInv, VerdictsAgree, ResolvedIsSettled, OrderInv,
     TypeOK, ScanTypes, RecordTypes
<1> QED
  BY <1>1, <1>2 DEF ScanClose, TruthInv, FreshRow, AgedIsVisible,
     NoHiddenPosition, AnswersAgree, Sig

\* This is where timeliness comes in: no row in hand gets old, and none whose
\* order the exchange does not show yet.
LEMMA TrueAge ==
    ASSUME Timely, OrderInv, SentInv, TruthInv, NEW s \in Signal, Age(s)
    PROVE  TruthInv'
<1>1. FreshRow'
  BY DEF Age, InHand, TruthInv, FreshRow, InHandSteps, Sig
<1>2. AgedIsVisible'
  BY DEF Age, TruthInv, AgedIsVisible
<1> QED
  BY <1>1, <1>2 DEF Age, TruthInv, NoHiddenPosition, AnswersAgree,
     VerdictsAgree, ResolvedIsSettled, Sig

\* What is over on the exchange stays over, and what is old there visible.
LEMMA TrueExchangeMoves ==
    ASSUME OrderInv, SentInv, TruthInv, NEW s \in Signal, ExchangeMoves(s)
    PROVE  TruthInv'
<1>1. /\ \A t \in Signal : exch'[t] = "lagging" => exch[t] = "lagging"
      /\ \A t \in Signal : \A status : Agrees(status, exch[t]) =>
                                         Agrees(status, exch'[t])
  BY DEF ExchangeMoves, Visible, Terminal, Agrees, OrderInv, TypeOK, OrderTypes
<1>2. UNCHANGED <<trade, aged, job, scan, pc, msg, resp>>
  BY DEF ExchangeMoves
<1>3. AgedIsVisible'
  BY <1>1, <1>2 DEF TruthInv, AgedIsVisible, OrderInv, TypeOK, RecordTypes
<1>4. NoHiddenPosition'
  BY <1>1, <1>2, RowsAgree, RowsAgreeNext DEF TruthInv
<1>5. AnswersAgree'
  BY <1>1, <1>2, OwnedSignal DEF TruthInv, AnswersAgree, Sig, Owning,
     InHandSteps, OrderInv, TypeOK
<1>6. VerdictsAgree'
  BY <1>1, <1>2 DEF TruthInv, VerdictsAgree, OrderInv, TypeOK, ScanTypes
<1> QED
  BY <1>2, <1>3, <1>4, <1>5, <1>6 DEF TruthInv, FreshRow, ResolvedIsSettled, Sig

LEMMA TruthInvStep ==
    ASSUME Timely, OrderInv, SentInv, TruthInv, [Next]_vars
    PROVE  TruthInv'
<1>1. TypeOK /\ TypeOK'
  BY TypesStep DEF OrderInv
<1> QED
  BY <1>1, CalmSteps, CalmKeepsTruth, TrueReserve, TrueAuditCreated,
     TrueCreateOrder, TrueInlineLookup, TrueSettle, TrueInlineSettle,
     TrueMarkUnknown, TrueTripBreaker, TrueDeadLetter, TrueScanPick,
     TrueScanVerdict, TrueScanFinalize, TrueScanClose, TrueAge,
     TrueExchangeMoves

LEMMA InitTruth ==
    ASSUME Init
    PROVE  TruthInv
  BY DEF Init, IdleScan, TruthInv, FreshRow, AgedIsVisible, NoHiddenPosition,
     AnswersAgree, VerdictsAgree, ResolvedIsSettled, InHandSteps, Agrees

\* With messages and orders timely, and any failed writes, crashes, copies and
\* workers: what the tables and the workers hold agrees with the exchange.
THEOREM TruthInvariant == Timely => (Spec => [](OrderInv /\ SentInv /\ TruthInv))
<1> SUFFICES ASSUME Timely
             PROVE  Spec => [](OrderInv /\ SentInv /\ TruthInv)
  OBVIOUS
<1>1. Init => TruthInv
  BY InitTruth
<1>2. OrderInv /\ SentInv /\ TruthInv /\ [Next]_vars => TruthInv'
  BY TruthInvStep
<1> QED
  BY <1>1, <1>2, SentInvariant, PTL DEF Spec

\* Then no order that may still be live, or was filled, lies behind a trade
\* that is recorded as over, and no trade is recorded as filled without a fill.
THEOREM NothingIsHidden == Timely => (Spec => []NoHiddenPosition)
<1> SUFFICES ASSUME Timely PROVE Spec => []NoHiddenPosition
  OBVIOUS
<1>1. TruthInv => NoHiddenPosition
  BY DEF TruthInv
<1> QED
  BY <1>1, TruthInvariant, PTL

\* And a reconciliation job that is resolved stays one of a settled trade.
THEOREM ResolvedJobsAreSettled == Timely => (Spec => []ResolvedJobHasTerminalTrade)
<1> SUFFICES ASSUME Timely PROVE Spec => []ResolvedJobHasTerminalTrade
  OBVIOUS
<1>1. TruthInv => ResolvedJobHasTerminalTrade
  BY DEF TruthInv, ResolvedIsSettled, ResolvedJobHasTerminalTrade
<1> QED
  BY <1>1, TruthInvariant, PTL

-----------------------------------------------------------------------------
(* The daily cap *)

LEMMA RegistersStep ==
    ASSUME TypeOK, [Next]_vars
    PROVE  Registers
<1>1. ASSUME NEW w \in Worker, WorkerStep(w)
      PROVE  Registers
  <2>1. CASE ProcessMessage(w)
    BY <2>1, QuietReadBot, QuietCheckDuplicate, QuietGuard,
       QuietCheckCredential, QuietReadMarket, QuietChooseMode, QuietReserve,
       QuietAuditCreated, QuietCreateOrder, QuietInlineLookup, QuietSettle,
       QuietInlineSettle, QuietMarkUnknown, QuietOpenJob, QuietResetFailures,
       QuietTripBreaker, QuietDeadLetter, QuietRevokeCredential,
       QuietDisableBot, QuietPauseForAttention DEF ProcessMessage
  <2>2. CASE Resolver(w)
    BY <2>2, QuietScanPick, QuietScanVerdict, QuietScanInconclusive,
       QuietScanRefused, QuietScanFinalize, QuietScanClose DEF Resolver
  <2> QED
    BY <1>1, <2>1, <2>2, QuietBoot, QuietEndResolve, QuietReceive, QuietAck,
       QuietCrash DEF WorkerStep
<1>2. ASSUME NEW s \in Signal, SignalStep(s)
      PROVE  Registers
  BY <1>2, QuietAge, QuietExchangeMoves, QuietLapse, QuietExpireProposal,
     QuietRejectOrder, QuietApproveOrder, QuietSendApproved DEF SignalStep
<1>3. CASE UNCHANGED vars
  BY <1>3 DEF vars, Registers, CapsKept
<1> QED
  BY <1>1, <1>2, <1>3, QuietReappear, QuietPauseBot, QuietArmBot DEF Next

Live == {"lagging", "submitted", "filled"}

\* The buys of a bot that are, or may still turn out to be, on the exchange,
\* and those that a worker is about to send.
Exposure(b) ==
    {s \in Buy : /\ BotOf[s] = b
                 /\ \/ exch[s] \in Live
                    \/ \E w \in Worker : pc[w] \in Sending /\ Sig(w) = s}

\* They stay within the cap, which is the one that the worker goes by.
CapInv ==
    /\ \A b \in Bot : Cardinality(Exposure(b)) <= bots[b].cap
    /\ \A w \in Worker : pc[w] \in Reading => seen[w].cap = bots[BotAt(w)].cap

\* A bot's buys are finitely many when the signals are.
LEMMA ExposureFinite ==
    ASSUME IsFiniteSet(Signal), NEW b
    PROVE  /\ IsFiniteSet(Exposure(b)) /\ Cardinality(Exposure(b)) \in Nat
           /\ IsFiniteSet(Exposure(b)') /\ Cardinality(Exposure(b)') \in Nat
<1>1. Exposure(b) \in SUBSET Signal /\ Exposure(b)' \in SUBSET Signal
  BY ConstantsOK DEF Exposure
<1> QED
  BY <1>1, FS_Subset, FS_CardinalityType

\* Every buy that is exposed counts in the sum that a reservation looks at.
Counted(b) ==
    {s \in Buy : BotOf[s] = b /\ trade[s] \notin {"none", "failed", "cancelled"}}

LEMMA ExposureIsCounted ==
    ASSUME OrderInv, SentInv, TruthInv, NEW b \in Bot
    PROVE  Exposure(b) \subseteq Counted(b)
<1> SUFFICES ASSUME NEW s \in Buy, s \in Exposure(b)
             PROVE  trade[s] \notin {"none", "failed", "cancelled"}
  BY DEF Exposure, Counted
<1>1. s \in Signal
  BY ConstantsOK
<1>2. CASE exch[s] \in Live
  <2>1. placed[s] > 0
    BY <1>1, <1>2 DEF Live, SentInv, UnsentIsNowhere, OrderInv, TypeOK,
       OrderTypes
  <2> QED
    BY <1>1, <1>2, <2>1 DEF Live, OrderInv, OrderIsReserved, TruthInv,
       NoHiddenPosition
<1>3. CASE \E w \in Worker : pc[w] \in Sending /\ Sig(w) = s
  BY <1>3 DEF TruthInv, FreshRow, InHandSteps, Sending
<1> QED
  BY <1>2, <1>3 DEF Exposure

\* No step but a reservation exposes a buy.
LEMMA ExposureStep ==
    ASSUME OrderInv, SentInv, [Next]_vars, ~ \E w \in Worker : Reserve(w)
    PROVE  \A b \in Bot : Exposure(b)' \subseteq Exposure(b)
<1>1. \A s \in Signal : exch'[s] \in Live =>
        \/ exch[s] \in Live
        \/ \E w \in Worker : pc[w] \in Sending /\ Sig(w) = s
  <2>1. CASE exch' = exch
    BY <2>1
  <2>2. ASSUME NEW w \in Worker, CreateOrder(w)
        PROVE  \A s \in Signal : exch'[s] = exch[s]
                                 \/ (pc[w] \in Sending /\ Sig(w) = s)
    BY <2>2 DEF CreateOrder, Sending, OrderInv, TypeOK, OrderTypes
  <2>3. ASSUME NEW s \in Signal, ExchangeMoves(s)
        PROVE  \A t \in Signal : exch'[t] = exch[t] \/ exch[t] \in Live
    BY <2>3 DEF ExchangeMoves, Live, OrderInv, TypeOK, OrderTypes
  <2>4. \/ exch' = exch
        \/ \E w \in Worker : CreateOrder(w)
        \/ \E s \in Signal : ExchangeMoves(s)
    BY CalmSteps DEF OrderInv, Calm, AuditCreated, InlineLookup, Settle,
       InlineSettle, MarkUnknown, TripBreaker, WriteBotStep, DeadLetter,
       ScanPick, ScanVerdict, ScanFinalize, ScanClose, Age
  <2> QED
    BY <2>1, <2>2, <2>3, <2>4
<1>2. \A w \in Worker : pc'[w] \in Sending =>
        pc[w] \in Sending /\ Sig(w)' = Sig(w)
  <2>1. CASE OrderFrame
    BY <2>1 DEF OrderFrame, Sig
  <2>2. ASSUME NEW w \in Worker, CreateOrder(w)
        PROVE  \A v \in Worker : pc'[v] \in Sending =>
                 pc[v] \in Sending /\ Sig(v)' = Sig(v)
    BY <2>2 DEF CreateOrder, Go, Sending, Sig, OrderInv, TypeOK, WorkerTypes
  <2> QED
    BY <2>1, <2>2, Frames DEF OrderInv
<1> SUFFICES ASSUME NEW b \in Bot, NEW s \in Exposure(b)'
             PROVE  s \in Exposure(b)
  OBVIOUS
<1>3. s \in Buy /\ s \in Signal /\ BotOf[s] = b
  BY ConstantsOK DEF Exposure
<1>4. \/ exch'[s] \in Live
      \/ \E w \in Worker : pc'[w] \in Sending /\ Sig(w)' = s
  BY DEF Exposure
<1> QED
  BY <1>1, <1>2, <1>3, <1>4 DEF Exposure

LEMMA OneMore ==
    ASSUME NEW S, NEW x, IsFiniteSet(S)
    PROVE  /\ IsFiniteSet(S \cup {x})
           /\ Cardinality(S \cup {x}) <= Cardinality(S) + 1
<1>1. Cardinality(S) \in Nat
  BY FS_CardinalityType
<1>2. /\ IsFiniteSet(S \cup {x})
      /\ Cardinality(S \cup {x}) =
           IF x \in S THEN Cardinality(S) ELSE Cardinality(S) + 1
  BY FS_AddElement
<1> QED
  BY <1>1, <1>2

\* A reservation exposes one buy, and only with room for it under the cap.
LEMMA ReserveExposes ==
    ASSUME OrderInv, SentInv, TruthInv, CapInv, IsFiniteSet(Signal), TypeOK',
           NEW w \in Worker, Reserve(w), NEW b \in Bot
    PROVE  Cardinality(Exposure(b)') <= bots[b].cap
<1> DEFINE s == Sig(w)
<1>1. pc[w] = "reserve" /\ s \in Signal /\ BotAt(w) \in Bot /\ exch' = exch
  BY HeldMessage DEF Reserve, Step, OrderInv, TypeOK, Idle
<1>2. \A v \in Worker \ {w} : pc'[v] = pc[v] /\ Sig(v)' = Sig(v)
  BY DEF Reserve, Step, Go, Drop, Sig, OrderInv, TypeOK, WorkerTypes
<1>3. CASE pc'[w] \in Sending /\ s \in Buy /\ BotOf[s] = b
  <2>1. /\ pc'[w] = "audit" /\ Sig(w)' = s /\ WithinCap(w)
    BY <1>1, <1>3 DEF Reserve, Step, Go, Drop, Sig, Sending, OrderInv, TypeOK,
       WorkerTypes
  <2>2. BotAt(w) = b
    BY <1>3 DEF BotAt
  <2>3. Cardinality(Counted(b)) < bots[b].cap
    BY <1>1, <1>3, <2>1, <2>2 DEF WithinCap, Spent, Counted, CapInv, Reading
  <2>4. IsFiniteSet(Counted(b)) /\ Cardinality(Counted(b)) \in Nat
    <3>1. Counted(b) \in SUBSET Signal
      BY ConstantsOK DEF Counted
    <3> QED
      BY <3>1, FS_Subset, FS_CardinalityType
  <2>5. Cardinality(Exposure(b)) <= Cardinality(Counted(b))
    BY <2>4, ExposureIsCounted, FS_Subset
  <2>6. Exposure(b)' \subseteq Exposure(b) \cup {s}
    BY <1>1, <1>2, <2>1 DEF Exposure
  <2>7. /\ IsFiniteSet(Exposure(b) \cup {s})
        /\ Cardinality(Exposure(b) \cup {s}) <= Cardinality(Exposure(b)) + 1
    BY ExposureFinite, OneMore
  <2>8. Cardinality(Exposure(b)') <= Cardinality(Exposure(b) \cup {s})
    BY <2>6, <2>7, FS_Subset
  <2>9. /\ Cardinality(Exposure(b)') \in Nat /\ Cardinality(Exposure(b)) \in Nat
        /\ Cardinality(Exposure(b) \cup {s}) \in Nat
        /\ bots[b].cap \in Nat
    <3>1. bots[b].cap \in Nat
      BY ConstantsOK DEF OrderInv, TypeOK, ControlTypes, BotRow
    <3> QED
      BY <2>7, <3>1, ExposureFinite, FS_CardinalityType
  <2> QED
    BY <2>3, <2>4, <2>5, <2>7, <2>8, <2>9
<1>4. CASE ~(pc'[w] \in Sending /\ s \in Buy /\ BotOf[s] = b)
  <2>1. pc'[w] \in Sending => Sig(w)' = s
    BY <1>1 DEF Reserve, Step, Go, Drop, Sig, Sending, OrderInv, TypeOK,
       WorkerTypes
  <2>2. Exposure(b)' \subseteq Exposure(b)
    BY <1>1, <1>2, <1>4, <2>1 DEF Exposure
  <2>3. Cardinality(Exposure(b)') <= Cardinality(Exposure(b))
    BY <2>2, ExposureFinite, FS_Subset
  <2>4. bots[b].cap \in Nat /\ Cardinality(Exposure(b)) <= bots[b].cap
    BY ConstantsOK DEF CapInv, OrderInv, TypeOK, ControlTypes, BotRow
  <2> QED
    BY <2>3, <2>4, ExposureFinite
<1> QED
  BY <1>3, <1>4

LEMMA CapInvStep ==
    ASSUME OrderInv, SentInv, TruthInv, CapInv, IsFiniteSet(Signal), [Next]_vars
    PROVE  CapInv'
<1>1. TypeOK' /\ Registers
  BY TypesStep, RegistersStep DEF OrderInv
<1>2. \A w \in Worker : pc'[w] \in Reading =>
        seen'[w].cap = bots'[BotAt(w)'].cap
  <2> SUFFICES ASSUME NEW w \in Worker, pc'[w] \in Reading
               PROVE  seen'[w].cap = bots'[BotAt(w)'].cap
    OBVIOUS
  <2>1. /\ BotAt(w)' = BotAt(w) /\ BotAt(w)' \in Bot
        /\ \/ pc[w] \in Reading /\ seen'[w] = seen[w]
           \/ seen'[w] = bots[BotAt(w)]
    <3>1. msg'[w] = msg[w] /\ msg'[w] \in Message
      BY <1>1 DEF Registers, Reading, TypeOK, WorkerTypes, Idle
    <3>2. msg[w].sig \in Signal
      BY <3>1, MessageFields
    <3> QED
      BY <1>1, <3>1, <3>2, ConstantsOK DEF Registers, BotAt, Sig
  <2> QED
    BY <1>1, <2>1 DEF Registers, CapsKept, CapInv
<1>3. ASSUME NEW b \in Bot
      PROVE  Cardinality(Exposure(b)') <= bots[b].cap
  <2>1. CASE \E w \in Worker : Reserve(w)
    BY <1>1, <2>1, ReserveExposes
  <2>2. CASE ~ \E w \in Worker : Reserve(w)
    <3>1. Cardinality(Exposure(b)') <= Cardinality(Exposure(b))
      BY <2>2, ExposureStep, ExposureFinite, FS_Subset
    <3>2. bots[b].cap \in Nat /\ Cardinality(Exposure(b)) <= bots[b].cap
      BY ConstantsOK DEF CapInv, OrderInv, TypeOK, ControlTypes, BotRow
    <3> QED
      BY <3>1, <3>2, ExposureFinite
  <2> QED
    BY <2>1, <2>2
<1> QED
  BY <1>1, <1>2, <1>3 DEF CapInv, Registers, CapsKept

\* With messages and orders timely, a bot's live and filled buys of a day never
\* pass its cap, however many workers reserve for it at once.
THEOREM CapHolds == Timely /\ IsFiniteSet(Signal) => (Spec => []CapIsKept)
<1> SUFFICES ASSUME Timely, IsFiniteSet(Signal)
             PROVE  Spec => []CapIsKept
  OBVIOUS
<1>1. Init => CapInv
  <2> SUFFICES ASSUME Init, NEW b \in Bot
               PROVE  Cardinality(Exposure(b)) <= bots[b].cap
    BY DEF Init, CapInv, Reading
  <2>1. Exposure(b) = {}
    BY ConstantsOK DEF Init, Exposure, Live, Sending
  <2>2. bots[b].cap \in Nat
    BY InitTypes, ConstantsOK DEF TypeOK, ControlTypes, BotRow
  <2> QED
    BY <2>1, <2>2, FS_EmptySet
<1>2. OrderInv /\ SentInv /\ TruthInv /\ CapInv /\ [Next]_vars => CapInv'
  BY CapInvStep
<1>3. OrderInv /\ CapInv => CapIsKept
  <2> SUFFICES ASSUME OrderInv, CapInv, NEW b \in Bot
               PROVE  Cardinality({s \in Buy : /\ BotOf[s] = b
                                               /\ exch[s] \in Live}) <= bots[b].cap
    BY DEF CapIsKept, Live
  <2> DEFINE L == {s \in Buy : BotOf[s] = b /\ exch[s] \in Live}
  <2>1. L \subseteq Exposure(b)
    BY DEF Exposure
  <2>2. IsFiniteSet(L) /\ Cardinality(L) <= Cardinality(Exposure(b))
    BY <2>1, ExposureFinite, FS_Subset
  <2>3. Cardinality(L) \in Nat
    BY <2>2, FS_CardinalityType
  <2>4. bots[b].cap \in Nat /\ Cardinality(Exposure(b)) <= bots[b].cap
    BY ConstantsOK DEF CapInv, OrderInv, TypeOK, ControlTypes, BotRow
  <2> QED
    BY <2>2, <2>3, <2>4, ExposureFinite
<1> QED
  BY <1>1, <1>2, <1>3, TruthInvariant, PTL DEF Spec

-----------------------------------------------------------------------------
(* No order while another is unknown *)

\* A worker that got past the guard works for a bot without an unknown trade.
ClearInv ==
    \A w \in Worker : pc[w] \in Vetted =>
      \A s \in Signal : BotOf[s] = BotAt(w) => trade[s] # "unknown"

\* Only a worker that records what became of an order makes a trade unknown,
\* and it is not on its way to send one then.
LEMMA UnknownIsWritten ==
    ASSUME OrderInv, [Next]_vars, NEW s \in Signal,
           trade'[s] = "unknown", trade[s] # "unknown"
    PROVE  \E w \in Worker : pc'[w] \notin Vetted
<1>1. ASSUME NEW w \in Worker,
             Settle(w) \/ InlineSettle(w) \/ MarkUnknown(w)
      PROVE  pc'[w] \notin Vetted
  BY <1>1 DEF Settle, InlineSettle, MarkUnknown, AfterOrder, Step, Go, Vetted,
     OrderInv, TypeOK, WorkerTypes
<1>2. ASSUME NEW w \in Worker,
             \/ Reserve(w) \/ AuditCreated(w) \/ CreateOrder(w)
             \/ InlineLookup(w) \/ TripBreaker(w) \/ DeadLetter(w)
             \/ \E t \in Signal : ScanPick(w, t)
             \/ ScanVerdict(w) \/ ScanFinalize(w) \/ ScanClose(w)
      PROVE  FALSE
  <2> USE DEF OrderInv, TypeOK, RecordTypes, Terminal
  <2>1. CASE Reserve(w)
    BY <2>1 DEF Reserve
  <2>2. CASE AuditCreated(w)
    BY <2>2 DEF AuditCreated
  <2>3. CASE ScanFinalize(w)
    BY <2>3 DEF ScanFinalize, ScanTypes
  <2>4. CASE trade' = trade
    BY <2>4
  <2> QED
    BY <1>2, <2>1, <2>2, <2>3, <2>4 DEF CreateOrder, InlineLookup, TripBreaker,
       WriteBotStep, DeadLetter, ScanPick, ScanVerdict, ScanClose
<1>3. ASSUME NEW t \in Signal, Age(t) \/ ExchangeMoves(t)
      PROVE  FALSE
  BY <1>3 DEF Age, ExchangeMoves
<1>4. ~Calm
  BY DEF Calm
<1> QED
  BY <1>1, <1>2, <1>3, <1>4, CalmSteps DEF OrderInv

LEMMA ClearInvStep ==
    ASSUME \A v, w \in Worker : v = w, OrderInv, ClearInv, [Next]_vars
    PROVE  ClearInv'
<1> SUFFICES ASSUME NEW w \in Worker, pc'[w] \in Vetted, NEW s \in Signal,
                    BotOf[s] = BotAt(w)'
             PROVE  trade'[s] # "unknown"
  BY DEF ClearInv
<1>1. /\ BotAt(w)' = BotAt(w)
      /\ pc[w] \in Vetted \/ ~Blocked(BotAt(w))
  BY RegistersStep DEF Registers, BotAt, Sig, OrderInv
<1>2. trade[s] # "unknown"
  BY <1>1 DEF ClearInv, Blocked, Ambiguous
<1> QED
  BY <1>2, UnknownIsWritten

\* A single worker sends no order while another order of the bot is unknown,
\* whatever fails, is delivered twice or crashes. (Two workers can: the guard
\* of the one may be past when the other's order turns out unknown.)
THEOREM NoneSentWhileUnknown ==
    (\A v, w \in Worker : v = w) => (Spec => NoOrderWhileUnknown)
<1> SUFFICES ASSUME \A v, w \in Worker : v = w
             PROVE  Spec => NoOrderWhileUnknown
  OBVIOUS
<1>1. Init => ClearInv
  BY DEF Init, ClearInv
<1>2. OrderInv /\ ClearInv /\ [Next]_vars => ClearInv'
  BY ClearInvStep
<1>3. ASSUME OrderInv, ClearInv, [Next]_vars, NEW s \in Signal,
             placed'[s] > placed[s], NEW t \in Exposed(s)
      PROVE  trade[t] # "unknown"
  <2>1. placed' # placed
    BY <1>3 DEF OrderInv, TypeOK, OrderTypes
  <2>2. PICK w \in Worker : CreateOrder(w)
    BY <1>3, <2>1, Frames DEF OrderInv, OrderFrame, Reserve
  <2>3. Sig(w) = s /\ pc[w] \in Vetted
    <3>1. placed' = [placed EXCEPT ![Sig(w)] = @ + 1] /\ pc[w] = "order"
      BY <2>2 DEF CreateOrder
    <3> QED
      BY <1>3, <3>1 DEF Vetted, OrderInv, TypeOK, OrderTypes
  <2> QED
    BY <1>3, <2>3 DEF Exposed, ClearInv, BotAt
<1>4. OrderInv /\ ClearInv /\ [Next]_vars =>
        [\A s \in Signal : placed'[s] > placed[s] =>
           \A t \in Exposed(s) : trade[t] # "unknown"]_vars
  BY <1>3
<1> QED
  BY <1>1, <1>2, <1>4, OrderInvariant, PTL DEF Spec, NoOrderWhileUnknown

-----------------------------------------------------------------------------
(* The pipeline implements OrderLedger *)

\* A step of the ledger, or none, in terms of a signal's entry.
LedgerMove(s) ==
    /\ \A t \in Signal : /\ placed'[t] > 0 <=> placed[t] > 0
                         /\ proposal'[t] = "approved" <=> proposal[t] = "approved"
                         /\ t # s => EntryOf(t)' = EntryOf(t)
    /\ \/ EntryOf(s)' = EntryOf(s)
       \/ /\ EntryOf(s) = "fresh" /\ EntryOf(s)' = "held"
          /\ proposal[s] = "approved"
       \/ /\ EntryOf(s) = "held" \/ (EntryOf(s) = "fresh" /\ placed[s] = 0)
          /\ EntryOf(s)' = "settled"

LEMMA MoveIsLedgerStep ==
    ASSUME NEW s \in Signal, LedgerMove(s)
    PROVE  [Ledger!Next]_(Ledger!vars)
<1> DEFINE E == [t \in Signal |-> EntryOf(t)]
<1>1. /\ {t \in Signal : placed[t] > 0}' = {t \in Signal : placed[t] > 0}
      /\ {t \in Signal : proposal[t] = "approved"}' =
           {t \in Signal : proposal[t] = "approved"}
  BY DEF LedgerMove
<1>2. \A e : EntryOf(s)' = e => E' = [E EXCEPT ![s] = e]
  BY DEF LedgerMove
<1>3. CASE EntryOf(s)' = EntryOf(s)
  <2>1. E' = E
    BY <1>3 DEF LedgerMove
  <2> QED
    BY <1>1, <2>1 DEF Ledger!vars
<1>4. CASE /\ EntryOf(s) = "fresh" /\ EntryOf(s)' = "held"
           /\ proposal[s] = "approved"
  <2>1. Ledger!Hold(s)
    BY <1>1, <1>2, <1>4 DEF Ledger!Hold
  <2> QED
    BY <2>1 DEF Ledger!Next
<1>5. CASE /\ EntryOf(s) = "held" \/ (EntryOf(s) = "fresh" /\ placed[s] = 0)
           /\ EntryOf(s)' = "settled"
  <2>1. Ledger!Settle(s)
    BY <1>1, <1>2, <1>5 DEF Ledger!Settle
  <2> QED
    BY <2>1 DEF Ledger!Next
<1> QED
  BY <1>3, <1>4, <1>5 DEF LedgerMove

LEMMA SameEntriesStutter ==
    ASSUME SameEntries
    PROVE  UNCHANGED Ledger!vars
<1>1. \A s \in Signal : EntryOf(s)' = EntryOf(s)
  BY DEF SameEntries, EntryOf, InDoubt, Sig
<1>2. [s \in Signal |-> EntryOf(s)]' = [s \in Signal |-> EntryOf(s)]
  BY <1>1
<1>3. /\ {t \in Signal : placed[t] > 0}' = {t \in Signal : placed[t] > 0}
      /\ {t \in Signal : proposal[t] = "approved"}' =
           {t \in Signal : proposal[t] = "approved"}
  BY DEF SameEntries
<1> QED
  BY <1>2, <1>3 DEF Ledger!vars

\* A worker's step on a row that it owns bears on that row's entry only.
RowEntry(status, doubt) ==
    IF status = "none" THEN "fresh"
    ELSE IF status \in Terminal \cup {"simulated"} /\ ~doubt THEN "settled"
    ELSE "held"

LEMMA OwnStepEntries ==
    ASSUME OrderInv, SentInv, NEW w \in Worker, OwnStep(w), OwnsAlone(w),
           NEW s \in Signal, s = Sig(w)
    PROVE  /\ EntryOf(s) = RowEntry(trade[s], pc[w] = "mark")
           /\ EntryOf(s)' = RowEntry(trade'[s], pc'[w] = "mark")
           /\ \A t \in Signal \ {s} : EntryOf(t)' = EntryOf(t)
<1>1. \A v \in Worker \ {w} : /\ pc'[v] = pc[v] /\ Sig(v)' = Sig(v)
                              /\ pc[v] = "mark" => Sig(v) # s
  BY DEF OwnStep, OwnsAlone, Sig, Owning, InHandSteps
<1>2. pc'[w] = "mark" => Sig(w)' = s
  BY DEF OwnStep, Sig, Owning, InHandSteps
<1>3. InDoubt(s) <=> pc[w] = "mark"
  BY <1>1 DEF InDoubt
<1>4. InDoubt(s)' <=> pc'[w] = "mark"
  BY <1>1, <1>2 DEF InDoubt
<1>5. \A t \in Signal \ {s} : InDoubt(t)' <=> InDoubt(t)
  BY <1>1, <1>2 DEF InDoubt
<1> QED
  BY <1>3, <1>4, <1>5 DEF EntryOf, RowEntry, OwnStep

LEMMA MoveReserve ==
    ASSUME OrderInv, SentInv, TypeOK', NEW w \in Worker, Reserve(w),
           NEW s \in Signal, s = Sig(w)
    PROVE  SameEntries \/ LedgerMove(s)
<1>1. s \in Signal /\ pc[w] = "reserve" /\ placed' = placed /\ proposal' = proposal
  BY OwnedSignal DEF Reserve, Step, OrderInv, TypeOK
<1>2. CASE trade' = trade
  <2>1. \A v \in Worker : pc'[v] = "mark" \/ pc[v] = "mark" =>
                            pc'[v] = pc[v] /\ msg'[v] = msg[v]
    BY <1>1 DEF Reserve, Step, Go, Drop, OrderInv, TypeOK, WorkerTypes
  <2> QED
    BY <1>1, <1>2, <2>1 DEF SameEntries
<1>3. CASE trade' # trade
  <2>1. /\ OwnStep(w) /\ OwnsAlone(w) /\ trade[s] = "none"
        /\ trade' = [trade EXCEPT ![s] = "pending"]
        /\ pc'[w] \in {"audit", "poll"}
    <3>1. trade[s] = "none" /\ trade' = [trade EXCEPT ![s] = "pending"]
      BY <1>3 DEF Reserve, SignalTaken
    <3>2. ~Calm
      BY <1>1, <3>1 DEF Calm, OrderInv, TypeOK, RecordTypes
    <3> QED
      BY <3>1, <3>2, OwnReserve
  <2>2. EntryOf(s) = "fresh" /\ EntryOf(s)' = "held"
    BY <1>1, <2>1, OwnStepEntries
    DEF RowEntry, OrderInv, TypeOK, RecordTypes, Terminal
  <2>3. proposal[s] = "approved"
    BY <1>1, OwnedSignal, ConstantsOK
    DEF Cleared, OrderInv, Consented, TypeOK, WorkerTypes
  <2> QED
    BY <1>1, <2>1, <2>2, <2>3, OwnStepEntries DEF LedgerMove
<1> QED
  BY <1>2, <1>3

LEMMA MoveAuditCreated ==
    ASSUME OrderInv, SentInv, TruthInv, TypeOK', NEW w \in Worker, AuditCreated(w),
           NEW s \in Signal, s = Sig(w)
    PROVE  LedgerMove(s)
<1>1. OwnStep(w) /\ OwnsAlone(w) /\ s \in Signal
  BY OwnAuditCreated
<1>2. pc[w] = "audit" /\ trade[s] = "pending"
  BY DEF AuditCreated, Step, TruthInv, FreshRow, InHandSteps
<1>3. /\ trade'[s] \in {"pending", "cancelled"} /\ pc'[w] # "mark"
      /\ placed' = placed /\ proposal' = proposal
  BY <1>1, <1>2 DEF AuditCreated, Step, Go, OrderInv, TypeOK, WorkerTypes,
     RecordTypes
<1>4. EntryOf(s) = "held" /\ EntryOf(s)' \in {"held", "settled"}
  BY <1>1, <1>2, <1>3, OwnStepEntries DEF RowEntry, Terminal
<1> QED
  BY <1>1, <1>3, <1>4, OwnStepEntries DEF LedgerMove

LEMMA MoveSettle ==
    ASSUME OrderInv, SentInv, TruthInv, TypeOK', NEW w \in Worker,
           Settle(w) \/ InlineSettle(w) \/ MarkUnknown(w),
           NEW s \in Signal, s = Sig(w)
    PROVE  LedgerMove(s)
<1>1. OwnStep(w) /\ OwnsAlone(w) /\ s \in Signal
  BY OwnSettle, OwnInlineSettle, OwnMarkUnknown
<1>2. trade[s] = "pending" \/ (trade[s] \notin {"none", "simulated"} /\ pc[w] = "mark")
  BY DEF Settle, InlineSettle, MarkUnknown, Step, TruthInv, FreshRow,
     InHandSteps, SentInv, OwnedRow, Owning
<1>3. trade'[s] # "none" /\ placed' = placed /\ proposal' = proposal
  BY <1>1, <1>2 DEF Settle, InlineSettle, MarkUnknown, WriteTrade, OrderInv,
     TypeOK, RecordTypes, OrderStatus
<1>4. EntryOf(s) = "held" /\ EntryOf(s)' \in {"held", "settled"}
  BY <1>1, <1>2, <1>3, OwnStepEntries DEF RowEntry, Terminal
<1> QED
  BY <1>1, <1>3, <1>4, OwnStepEntries DEF LedgerMove

LEMMA MoveCreateOrder ==
    ASSUME OrderInv, SentInv, TruthInv, TypeOK', NEW w \in Worker, CreateOrder(w),
           NEW s \in Signal, s = Sig(w)
    PROVE  Ledger!Send(s)
<1>1. OwnStep(w) /\ OwnsAlone(w) /\ s \in Signal
  BY OwnCreateOrder
<1>2. pc[w] = "order" /\ trade[s] = "pending" /\ placed[s] = 0
  BY DEF CreateOrder, TruthInv, FreshRow, InHandSteps, OrderInv, Reserved,
     Sending
<1>3. /\ trade' = trade /\ pc'[w] # "mark" /\ proposal' = proposal
      /\ placed' = [placed EXCEPT ![s] = @ + 1]
  BY <1>1 DEF CreateOrder, Go, OrderInv, TypeOK, WorkerTypes
<1>4. /\ EntryOf(s) = "held" /\ EntryOf(s)' = "held"
      /\ \A t \in Signal : EntryOf(t)' = EntryOf(t)
  BY <1>1, <1>2, <1>3, OwnStepEntries DEF RowEntry, Terminal
<1>5. [t \in Signal |-> EntryOf(t)]' = [t \in Signal |-> EntryOf(t)]
  BY <1>4
<1>6. {t \in Signal : placed[t] > 0}' = {t \in Signal : placed[t] > 0} \cup {s}
  BY <1>1, <1>2, <1>3 DEF OrderInv, TypeOK, OrderTypes
<1>7. {t \in Signal : proposal[t] = "approved"}' =
        {t \in Signal : proposal[t] = "approved"}
  BY <1>3
<1> QED
  BY <1>1, <1>2, <1>4, <1>5, <1>6, <1>7 DEF Ledger!Send

LEMMA MoveScanFinalize ==
    ASSUME OrderInv, SentInv, TruthInv, TypeOK', NEW w \in Worker, ScanFinalize(w),
           NEW s \in Signal, s = scan[w].sig
    PROVE  LedgerMove(s)
<1>1. /\ s \in aged /\ s \in Signal /\ scan[w].found \in Terminal
      /\ pc' = pc /\ msg' = msg /\ placed' = placed /\ proposal' = proposal
  BY DEF ScanFinalize, TruthInv, VerdictsAgree, OrderInv, TypeOK, ScanTypes
<1>2. \A t \in Signal : InDoubt(t)' <=> InDoubt(t)
  BY <1>1 DEF InDoubt, Sig
<1>3. \A t \in Signal \ {s} : EntryOf(t)' = EntryOf(t)
  BY <1>1, <1>2 DEF EntryOf, ScanFinalize, OrderInv, TypeOK, RecordTypes
<1>4. CASE trade' = trade
  BY <1>1, <1>2, <1>4 DEF EntryOf, LedgerMove
<1>5. CASE /\ trade[s] \in {"pending", "unknown"}
           /\ trade' = [trade EXCEPT ![s] = scan[w].found]
  <2>1. ~InDoubt(s)
    BY <1>1 DEF InDoubt, TruthInv, FreshRow, InHandSteps
  <2>2. EntryOf(s) = "held" /\ EntryOf(s)' = "settled"
    BY <1>1, <1>2, <1>5, <2>1
    DEF EntryOf, OrderInv, TypeOK, RecordTypes, Terminal
  <2> QED
    BY <1>1, <1>3, <2>2 DEF LedgerMove
<1> QED
  BY <1>4, <1>5 DEF ScanFinalize

LEMMA MoveChooseMode ==
    ASSUME OrderInv, SentInv, TypeOK', NEW w \in Worker, ChooseMode(w),
           NEW s \in Signal, s = Sig(w)
    PROVE  SameEntries \/ LedgerMove(s)
<1>1. /\ placed' = placed /\ pc[w] = "mode" /\ s \in Signal
      /\ \A t \in Signal : proposal'[t] = "approved" <=> proposal[t] = "approved"
      /\ \A v \in Worker : pc'[v] = "mark" \/ pc[v] = "mark" =>
                             pc'[v] = pc[v] /\ msg'[v] = msg[v]
  BY HeldMessage DEF ChooseMode, Step, Go, ProposeOrder, Idle, OrderInv,
     TypeOK, WorkerTypes, ApprovalTypes
<1>2. CASE trade' = trade
  BY <1>1, <1>2 DEF SameEntries
<1>3. CASE trade[s] = "none" /\ trade' = [trade EXCEPT ![s] = "simulated"]
  <2>1. \A t \in Signal : InDoubt(t)' <=> InDoubt(t)
    BY <1>1 DEF InDoubt, Sig
  <2>2. placed[s] = 0 /\ ~InDoubt(s)
    BY <1>1, <1>3 DEF OrderInv, OrderIsReserved, TypeOK, OrderTypes,
       InDoubt, SentInv, OwnedRow, Owning, InHandSteps
  <2>3. EntryOf(s) = "fresh" /\ EntryOf(s)' = "settled"
    BY <1>1, <1>3, <2>1, <2>2 DEF EntryOf, OrderInv, TypeOK, RecordTypes
  <2>4. \A t \in Signal \ {s} : EntryOf(t)' = EntryOf(t)
    BY <1>3, <2>1 DEF EntryOf, OrderInv, TypeOK, RecordTypes
  <2> QED
    BY <1>1, <2>2, <2>3, <2>4 DEF LedgerMove
<1> QED
  BY <1>2, <1>3 DEF ChooseMode, RecordSimulatedFill, SignalTaken

LEMMA MoveCrash ==
    ASSUME OrderInv, SentInv, TypeOK', NEW w \in Worker, Crash(w),
           NEW s \in Signal, s = Sig(w)
    PROVE  SameEntries \/ LedgerMove(s)
<1>1. /\ trade' = trade /\ placed' = placed /\ proposal' = proposal
      /\ pc'[w] = "boot"
      /\ \A v \in Worker \ {w} : pc'[v] = pc[v] /\ msg'[v] = msg[v]
  BY DEF Crash, Drop, Go, OrderInv, TypeOK, WorkerTypes
<1>2. CASE pc[w] # "mark"
  BY <1>1, <1>2 DEF SameEntries
<1>3. CASE pc[w] = "mark"
  <2>1. s \in Signal /\ trade[s] \notin {"none", "simulated"}
    BY <1>3, OwnedSignal
    DEF Owning, InHandSteps, OrderInv, TypeOK, SentInv, OwnedRow
  <2>2. \A t \in Signal \ {s} : InDoubt(t)' <=> InDoubt(t)
    BY <1>1, <1>3 DEF InDoubt, Sig
  <2>3. EntryOf(s) = "held" /\ EntryOf(s)' \in {"held", "settled"}
    BY <1>1, <1>3, <2>1 DEF EntryOf, InDoubt
  <2> QED
    BY <1>1, <2>1, <2>2, <2>3 DEF LedgerMove, EntryOf
<1> QED
  BY <1>2, <1>3

LEMMA MoveApproveOrder ==
    ASSUME OrderInv, NEW s \in Signal, ApproveOrder(s)
    PROVE  Ledger!Consent(s)
<1>1. /\ trade' = trade /\ placed' = placed /\ pc' = pc /\ msg' = msg
      /\ proposal' = [proposal EXCEPT ![s] = "approved"]
  BY DEF ApproveOrder, Decide
<1>2. \A t \in Signal : EntryOf(t)' = EntryOf(t)
  BY <1>1 DEF EntryOf, InDoubt, Sig
<1>3. [t \in Signal |-> EntryOf(t)]' = [t \in Signal |-> EntryOf(t)]
  BY <1>2
<1>4. {t \in Signal : placed[t] > 0}' = {t \in Signal : placed[t] > 0}
  BY <1>1
<1>5. {t \in Signal : proposal[t] = "approved"}' =
        {t \in Signal : proposal[t] = "approved"} \cup {s}
  BY <1>1 DEF OrderInv, TypeOK, ApprovalTypes
<1> QED
  BY <1>3, <1>4, <1>5 DEF Ledger!Consent

\* Every other step leaves the entries alone.
LEMMA EntrySteps ==
    ASSUME TypeOK, [Next]_vars
    PROVE  \/ SameEntries
           \/ \E w \in Worker :
                \/ ChooseMode(w) \/ Reserve(w) \/ AuditCreated(w)
                \/ CreateOrder(w) \/ Settle(w) \/ InlineSettle(w)
                \/ MarkUnknown(w) \/ ScanFinalize(w) \/ Crash(w)
           \/ \E s \in Signal : ApproveOrder(s)
<1>1. ASSUME NEW w \in Worker, WorkerStep(w)
      PROVE  \/ SameEntries
             \/ ChooseMode(w) \/ Reserve(w) \/ AuditCreated(w)
             \/ CreateOrder(w) \/ Settle(w) \/ InlineSettle(w)
             \/ MarkUnknown(w) \/ ScanFinalize(w) \/ Crash(w)
  <2>1. CASE ProcessMessage(w)
    BY <2>1, QuietReadBot, QuietCheckDuplicate, QuietGuard,
       QuietCheckCredential, QuietReadMarket, QuietInlineLookup, QuietOpenJob,
       QuietResetFailures, QuietTripBreaker, QuietDeadLetter,
       QuietRevokeCredential, QuietDisableBot, QuietPauseForAttention
    DEF ProcessMessage
  <2>2. CASE Resolver(w)
    BY <2>2, QuietScanPick, QuietScanVerdict, QuietScanInconclusive,
       QuietScanRefused, QuietScanClose DEF Resolver
  <2> QED
    BY <1>1, <2>1, <2>2, QuietBoot, QuietEndResolve, QuietReceive, QuietAck
    DEF WorkerStep
<1>2. ASSUME NEW s \in Signal, SignalStep(s)
      PROVE  SameEntries \/ ApproveOrder(s)
  BY <1>2, QuietAge, QuietExchangeMoves, QuietLapse, QuietExpireProposal,
     QuietRejectOrder, QuietSendApproved DEF SignalStep
<1>3. CASE UNCHANGED vars
  BY <1>3 DEF vars, SameEntries
<1> QED
  BY <1>1, <1>2, <1>3, QuietReappear, QuietPauseBot, QuietArmBot DEF Next

\* A step of the pipeline is a step of the ledger, or none.
LEMMA LedgerStep ==
    ASSUME OrderInv, SentInv, TruthInv, [Next]_vars
    PROVE  [Ledger!Next]_(Ledger!vars)
<1>1. TypeOK /\ TypeOK'
  BY TypesStep DEF OrderInv
<1>2. ASSUME NEW w \in Worker, CreateOrder(w)
      PROVE  Ledger!Next
  <2>1. PICK s \in Signal : s = Sig(w)
    BY <1>1, <1>2, OwnCreateOrder
  <2> QED
    BY <1>1, <1>2, <2>1, MoveCreateOrder DEF Ledger!Next
<1>3. ASSUME NEW s \in Signal, ApproveOrder(s)
      PROVE  Ledger!Next
  BY <1>3, MoveApproveOrder DEF Ledger!Next
<1>4. ASSUME NEW w \in Worker,
             \/ ChooseMode(w) \/ Reserve(w) \/ AuditCreated(w) \/ Settle(w)
             \/ InlineSettle(w) \/ MarkUnknown(w) \/ ScanFinalize(w) \/ Crash(w)
      PROVE  SameEntries \/ \E s \in Signal : LedgerMove(s)
  <2>1. CASE Crash(w) /\ msg[w] = NoMsg
    BY <2>1 DEF Crash, Drop, Go, SameEntries, OrderInv, TypeOK, WorkerTypes
  <2>2. CASE msg[w] # NoMsg /\ ~ScanFinalize(w)
    <3>1. PICK s \in Signal : s = Sig(w)
      BY <2>2, MessageFields DEF Sig, OrderInv, TypeOK, WorkerTypes
    <3> QED
      BY <1>1, <1>4, <2>2, <3>1, MoveChooseMode, MoveReserve, MoveAuditCreated,
         MoveSettle, MoveCrash
  <2>3. CASE ScanFinalize(w)
    <3>1. PICK s \in Signal : s = scan[w].sig
      BY <1>1, <2>3 DEF ScanFinalize, ScanTypes, TypeOK
    <3> QED
      BY <1>1, <2>3, <3>1, MoveScanFinalize
  <2>4. CASE /\ msg[w] = NoMsg
             /\ \/ ChooseMode(w) \/ Reserve(w) \/ AuditCreated(w) \/ Settle(w)
                \/ InlineSettle(w) \/ MarkUnknown(w)
    BY <1>1, <2>4 DEF ChooseMode, Reserve, AuditCreated, Settle, InlineSettle,
       MarkUnknown, Step, TypeOK, WorkerTypes
  <2> QED
    BY <1>4, <2>1, <2>2, <2>3, <2>4
<1> QED
  BY <1>1, <1>2, <1>3, <1>4, EntrySteps, SameEntriesStutter, MoveIsLedgerStep

LEMMA LedgerInit ==
    ASSUME Init
    PROVE  Ledger!Init
<1>1. \A s \in Signal : EntryOf(s) = "fresh"
  BY DEF Init, EntryOf
<1>2. {s \in Signal : placed[s] > 0} = {}
  BY DEF Init
<1>3. {s \in Signal : proposal[s] = "approved"} = {}
  BY DEF Init
<1> QED
  BY <1>1, <1>2, <1>3 DEF Ledger!Init

\* With messages and orders timely, the pipeline implements the ledger: consent,
\* then an entry, then at most one order while it is held, and what is settled
\* stays so, through failed writes, crashes, copies and any number of workers.
THEOREM ImplementsLedger == Timely => (Spec => KeepsLedger)
<1> SUFFICES ASSUME Timely PROVE Spec => KeepsLedger
  OBVIOUS
<1>1. Init => Ledger!Init
  BY LedgerInit
<1>2. OrderInv /\ SentInv /\ TruthInv /\ [Next]_vars => [Ledger!Next]_(Ledger!vars)
  BY LedgerStep
<1> QED
  BY <1>1, <1>2, TruthInvariant, PTL DEF Spec, KeepsLedger, Ledger!Spec

-----------------------------------------------------------------------------
(* No unknown trade is forgotten *)

\* One worker, no failed write and no request of the owner's to interfere, and
\* an exchange whose answers the adapter can read: each of the four, let go,
\* gives a trade that is unknown, has no job and whose message is done with.
Undisturbed ==
    /\ \A v, w \in Worker : v = w
    /\ MaxDbErrors = 0 /\ MaxOps = 0 /\ ~OpaqueAnswers

Untracked(s) == trade[s] = "unknown" /\ job[s] = "none"

\* The steps that a worker takes only for a bot without an unknown trade, and
\* those it takes only for one that is active.
Safe == Vetted \cup {"lookup", "settle", "inline", "breaker", "deadletter",
                         "revoke", "disable", "pause"}
Active   == Vetted \cup {"dup", "guard", "lookup", "settle", "inline"}

Tracks(w) ==
    /\ pc[w] \notin Idle => msg[w] \in queue
    /\ pc[w] \in Safe =>
         \A s \in Signal : BotOf[s] = BotAt(w) => trade[s] # "unknown"
    /\ pc[w] \in Active => bots[BotAt(w)].status = "active"
    /\ pc[w] \in {"ack", "reset"} => ~Untracked(Sig(w))
    /\ pc[w] # "mark"
    /\ pc[w] = "inline" => resp[w] # "unknown"

\* The bot of an untracked trade stays active, so that the redelivered message
\* gets as far as the check for duplicates, which opens the job.
TrackInv ==
    /\ \A s \in Signal : Untracked(s) => /\ bots[BotOf[s]].status = "active"
                                         /\ \E m \in queue : m.sig = s
    /\ \A w \in Worker : Tracks(w)

NoNewUnknown ==
    /\ \A s \in Signal : trade'[s] = "unknown" => trade[s] = "unknown"
    /\ \A s \in Signal : job'[s] = "none" => job[s] = "none"

\* A step that no worker takes, or that idles the one there is.
LEMMA TracksAside ==
    ASSUME TypeOK, TrackInv, NoNewUnknown, bots' = bots, queue \subseteq queue',
           \A w \in Worker : \/ pc'[w] \in Idle
                             \/ pc'[w] = pc[w] /\ msg'[w] = msg[w] /\ resp'[w] = resp[w]
    PROVE  TrackInv'
<1>1. \A s \in Signal : Untracked(s)' => Untracked(s)
  BY DEF NoNewUnknown, Untracked
<1>2. \A s \in Signal : Untracked(s)' => /\ bots'[BotOf[s]].status = "active"
                                         /\ \E m \in queue' : m.sig = s
  BY <1>1 DEF TrackInv
<1>3. ASSUME NEW w \in Worker PROVE Tracks(w)'
  <2>1. CASE pc'[w] \in Idle
    BY <2>1 DEF Tracks, Idle, Safe, Vetted, Active
  <2>2. CASE /\ pc'[w] \notin Idle
             /\ pc'[w] = pc[w] /\ msg'[w] = msg[w] /\ resp'[w] = resp[w]
    <3>1. Sig(w)' = Sig(w) /\ BotAt(w)' = BotAt(w) /\ Sig(w) \in Signal
      BY <2>2, HeldMessage DEF Sig, BotAt, TypeOK
    <3>2. Tracks(w)
      BY DEF TrackInv
    <3> QED
      BY <1>1, <2>2, <3>1, <3>2 DEF Tracks, NoNewUnknown
  <2> QED
    BY <2>1, <2>2
<1> QED
  BY <1>2, <1>3 DEF TrackInv

\* A step of the worker that keeps its message.
LEMMA TracksOn ==
    ASSUME Undisturbed, TypeOK, TrackInv, NEW w \in Worker, pc[w] \notin Idle,
           msg' = msg, queue' = queue,
           \A s \in Signal : job'[s] = "none" => job[s] = "none",
           \A s \in Signal : trade'[s] = "unknown" =>
             \/ trade[s] = "unknown"
             \/ s = Sig(w) /\ pc[w] \in Active /\ pc'[w] = "job" /\ bots' = bots,
           \A b \in Bot : \/ bots'[b].status = bots[b].status
                          \/ b = BotAt(w) /\ pc[w] \in Safe /\ pc'[w] # "job",
           pc'[w] \in Safe =>
             \/ pc[w] \in Safe
             \/ \A s \in Signal : BotOf[s] = BotAt(w) => trade[s] # "unknown",
           pc'[w] \in Active => /\ bots' = bots
                                /\ \/ pc[w] \in Active
                                   \/ bots[BotAt(w)].status = "active",
           pc'[w] \in {"ack", "reset"} => pc[w] \in Safe \/ ~Untracked(Sig(w))',
           pc'[w] # "mark", pc'[w] = "inline" => resp'[w] # "unknown"
    PROVE  TrackInv'
<1>1. Sig(w) \in Signal /\ Sig(w)' = Sig(w) /\ BotAt(w)' = BotAt(w)
  BY HeldMessage DEF Sig, BotAt, TypeOK
<1>2. Tracks(w)
  BY DEF TrackInv
<1>3. msg[w] \in queue
  BY <1>2 DEF Tracks
<1>4. ASSUME NEW s \in Signal, Untracked(s)'
      PROVE  bots'[BotOf[s]].status = "active" /\ \E m \in queue' : m.sig = s
  <2>1. job[s] = "none"
    BY <1>4 DEF Untracked
  <2>2. CASE trade[s] # "unknown"
    <3>1. s = Sig(w) /\ pc[w] \in Active /\ bots' = bots
      BY <1>4, <2>2 DEF Untracked
    <3> QED
      BY <1>2, <1>3, <3>1 DEF Tracks, BotAt, Sig
  <2>3. CASE trade[s] = "unknown"
    <3>1. Untracked(s)
      BY <2>1, <2>3 DEF Untracked
    <3>2. bots[BotOf[s]].status = "active" /\ \E m \in queue : m.sig = s
      BY <3>1 DEF TrackInv
    <3>3. ~(pc[w] \in Safe /\ BotOf[s] = BotAt(w))
      BY <1>2, <2>3 DEF Tracks
    <3>4. BotOf[s] \in Bot
      BY ConstantsOK
    <3> QED
      BY <3>2, <3>3, <3>4
  <2> QED
    BY <2>2, <2>3
<1>5. Tracks(w)'
  <2>1. pc'[w] \notin Idle => msg'[w] \in queue'
    BY <1>3
  <2>2. ASSUME pc'[w] \in Safe, NEW s \in Signal, BotOf[s] = BotAt(w)'
        PROVE  trade'[s] # "unknown"
    BY <1>1, <1>2, <2>2 DEF Tracks, Safe, Vetted
  <2>3. pc'[w] \in Active => bots'[BotAt(w)'].status = "active"
    BY <1>1, <1>2 DEF Tracks
  <2>4. ASSUME pc'[w] \in {"ack", "reset"} PROVE ~Untracked(Sig(w))'
    <3>1. CASE pc[w] \in Safe
      <4>1. trade[Sig(w)] # "unknown"
        BY <1>1, <1>2, <3>1 DEF Tracks, BotAt
      <4> QED
        BY <1>1, <2>4, <4>1 DEF Untracked
    <3> QED
      BY <2>4, <3>1
  <2> QED
    BY <2>1, <2>2, <2>3, <2>4 DEF Tracks
<1>6. \A v \in Worker : v = w
  BY DEF Undisturbed
<1> QED
  BY <1>4, <1>5, <1>6 DEF TrackInv

-----------------------------------------------------------------------------
(* The steps before the order, as far as they matter here *)

LEMMA NoFailedWrite == ASSUME Undisturbed, TypeOK PROVE ~DbFails
  BY DEF Undisturbed, TypeOK, BoundTypes, DbFails

LEMMA TracksBegin ==
    ASSUME Undisturbed, TypeOK, TrackInv, NEW w \in Worker,
           Boot(w) \/ EndResolve(w) \/ Receive(w) \/ Ack(w) \/ Crash(w)
    PROVE  TrackInv'
<1> USE DEF TypeOK, WorkerTypes, RecordTypes
<1>1. \A v \in Worker : v = w
  BY DEF Undisturbed
<1>2. CASE Boot(w)
  BY <1>1, <1>2, TracksAside DEF Boot, Step, Go, Idle, JobsOpened, NoNewUnknown
<1>3. CASE EndResolve(w)
  BY <1>1, <1>3, TracksAside DEF EndResolve, Step, Go, Idle, NoNewUnknown
<1>4. CASE Crash(w)
  BY <1>1, <1>4, TracksAside DEF Crash, Drop, Go, Idle, NoNewUnknown
<1>5. CASE Receive(w)
  <2>1. PICK m \in queue \ hidden : msg' = [msg EXCEPT ![w] = m]
    BY <1>5 DEF Receive
  <2>2. /\ pc'[w] = "bot" /\ msg'[w] \in queue /\ queue' = queue /\ bots' = bots
        /\ trade' = trade /\ job' = job
    BY <1>5, <2>1 DEF Receive, Go
  <2>3. Tracks(w)'
    BY <2>2 DEF Tracks, Idle, Safe, Vetted, Active
  <2> QED
    BY <1>1, <2>2, <2>3 DEF TrackInv, Untracked
<1>6. CASE Ack(w)
  <2>1. /\ pc[w] = "ack" /\ queue' = queue \ {msg[w]} /\ pc'[w] = "poll"
        /\ bots' = bots /\ trade' = trade /\ job' = job
    BY <1>6, NoFailedWrite DEF Ack, Drop, Go
  <2>2. ~Untracked(Sig(w))
    BY <2>1 DEF TrackInv, Tracks
  <2>3. ASSUME NEW s \in Signal, Untracked(s)'
        PROVE  bots'[BotOf[s]].status = "active" /\ \E m \in queue' : m.sig = s
    <3>1. Untracked(s)
      BY <2>1, <2>3 DEF Untracked
    <3>2. PICK m \in queue : m.sig = s
      BY <3>1 DEF TrackInv
    <3>3. m # msg[w]
      BY <2>2, <3>1, <3>2 DEF Sig
    <3> QED
      BY <2>1, <3>1, <3>2, <3>3 DEF TrackInv
  <2>4. Tracks(w)'
    BY <2>1 DEF Tracks, Idle, Safe, Vetted, Active
  <2> QED
    BY <1>1, <2>3, <2>4 DEF TrackInv
<1> QED
  BY <1>2, <1>3, <1>4, <1>5, <1>6

\* A message that is released is idled; a step on, for a bot without an
\* unknown trade, changes nothing that matters.
LEMMA TracksRelease ==
    ASSUME Undisturbed, TypeOK, TrackInv, NEW w \in Worker, Release(w)
    PROVE  TrackInv'
<1>1. \A v \in Worker : v = w
  BY DEF Undisturbed
<1>2. pc'[w] \in Idle
  BY DEF Release, Drop, Go, Idle, TypeOK, WorkerTypes
<1> QED
  BY <1>1, <1>2, TracksAside DEF Release, NoNewUnknown

LEMMA TracksReading ==
    ASSUME Undisturbed, TypeOK, TrackInv, NEW w \in Worker,
           ReadBot(w) \/ CheckDuplicate(w) \/ Guard(w)
    PROVE  TrackInv'
<1> USE DEF TypeOK, WorkerTypes, RecordTypes, Safe, Vetted, Active, Idle, Step, Go
<1>0. Tracks(w)
  BY DEF TrackInv
<1>1. CASE ReadBot(w)
  <2>1. /\ pc[w] = "bot" /\ msg' = msg /\ queue' = queue /\ bots' = bots
        /\ trade' = trade /\ job' = job
        /\ \/ pc'[w] = "dup" /\ bots[BotAt(w)].status = "active"
           \/ pc'[w] = "ack" /\ bots[BotAt(w)].status # "active"
    BY <1>1, NoFailedWrite DEF ReadBot
  <2>2. Sig(w) \in Signal /\ Sig(w)' = Sig(w)
    BY <2>1, HeldMessage DEF Sig
  <2>3. pc'[w] = "ack" => ~Untracked(Sig(w))'
    BY <2>1, <2>2 DEF TrackInv, Untracked, BotAt
  <2> QED
    BY <2>1, <2>3, TracksOn
<1>2. CASE CheckDuplicate(w)
  <2>1. /\ pc[w] = "dup" /\ msg' = msg /\ queue' = queue /\ bots' = bots /\ trade' = trade
        /\ \/ pc'[w] = "guard" /\ job' = job
           \/ pc'[w] = "ack" /\ trade[Sig(w)] = "unknown" /\ job' = JobsOpened({Sig(w)})
           \/ pc'[w] = "ack" /\ trade[Sig(w)] # "unknown" /\ job' = job
    BY <1>2, NoFailedWrite DEF CheckDuplicate, OpenJobFor
  <2>2. Sig(w) \in Signal /\ Sig(w)' = Sig(w)
    BY <2>1, HeldMessage DEF Sig
  <2>3. \A s \in Signal : job'[s] = "none" => job[s] = "none"
    BY <2>1 DEF JobsOpened
  <2>4. pc'[w] = "ack" => ~Untracked(Sig(w))'
    BY <2>1, <2>2 DEF JobsOpened, Untracked
  <2> QED
    BY <2>1, <2>3, <2>4, TracksOn
<1>3. CASE Guard(w)
  <2>1. CASE Step(w, "guard", "cred") /\ ~Blocked(BotAt(w)) /\ UNCHANGED worldVars
    <3>1. \A s \in Signal : BotOf[s] = BotAt(w) => trade[s] # "unknown"
      BY <2>1 DEF Blocked, Ambiguous
    <3> QED
      BY <2>1, <3>1, TracksOn
  <2> QED
    BY <1>3, <2>1, TracksRelease DEF Guard
<1> QED
  BY <1>1, <1>2, <1>3

LEMMA TracksVetting ==
    ASSUME Undisturbed, TypeOK, TrackInv, NEW w \in Worker,
           \/ CheckCredential(w) \/ ReadMarket(w) \/ ChooseMode(w) \/ Reserve(w)
           \/ AuditCreated(w)
    PROVE  TrackInv'
<1> USE DEF TypeOK, WorkerTypes, RecordTypes, Safe, Vetted, Active, Idle, Step, Go
<1>1. CASE CheckCredential(w)
  <2>1. CASE Step(w, "cred", "ack") /\ UNCHANGED worldVars
    BY <2>1, TracksOn
  <2>2. CASE Step(w, "cred", "market") /\ UNCHANGED worldVars
    BY <2>2, TracksOn
  <2>3. CASE Step(w, "cred", "ack") /\ disableBotMisconfigured(BotAt(w))
             /\ UNCHANGED <<queueVars, creds, recordVars, approvalVars, orderVars,
                            scan, crashes, ops>>
    <3>1. \A b \in Bot : bots'[b].status = bots[b].status \/ b = BotAt(w)
      BY <2>3 DEF disableBotMisconfigured, WriteBot, ControlTypes
    <3> QED
      BY <2>3, <3>1, TracksOn
  <2> QED
    BY <1>1, <2>1, <2>2, <2>3, TracksRelease DEF CheckCredential
<1>2. CASE ReadMarket(w)
  <2>1. ASSUME NEW next \in {"mode", "ack", "pause", "revoke"},
               Step(w, "market", next), UNCHANGED worldVars
        PROVE  TrackInv'
    BY <2>1, TracksOn
  <2> QED
    BY <1>2, <2>1, TracksRelease DEF ReadMarket
<1>3. CASE ChooseMode(w)
  <2>1. /\ pc[w] = "mode" /\ pc'[w] \in {"ack", "reserve"} /\ msg' = msg /\ queue' = queue
        /\ bots' = bots /\ job' = job
        /\ \A s \in Signal : trade'[s] = "unknown" => trade[s] = "unknown"
    BY <1>3 DEF ChooseMode, RecordSimulatedFill
  <2> QED
    BY <2>1, TracksOn
<1>4. CASE Reserve(w)
  <2>1. /\ pc[w] = "reserve" /\ pc'[w] \in {"ack", "audit"} /\ msg' = msg /\ queue' = queue
        /\ bots' = bots /\ job' = job
        /\ \A s \in Signal : trade'[s] = "unknown" => trade[s] = "unknown"
    BY <1>4, NoFailedWrite DEF Reserve
  <2> QED
    BY <2>1, TracksOn
<1>5. CASE AuditCreated(w)
  <2>1. /\ pc[w] = "audit" /\ pc'[w] = "order" /\ msg' = msg /\ queue' = queue
        /\ bots' = bots /\ job' = job /\ trade' = trade
    BY <1>5, NoFailedWrite DEF AuditCreated
  <2> QED
    BY <2>1, TracksOn
<1> QED
  BY <1>1, <1>2, <1>3, <1>4, <1>5

LEMMA TracksOrder ==
    ASSUME Undisturbed, TypeOK, TrackInv, NEW w \in Worker,
           CreateOrder(w) \/ InlineLookup(w) \/ Settle(w) \/ InlineSettle(w)
    PROVE  TrackInv'
<1> USE DEF TypeOK, WorkerTypes, RecordTypes, Safe, Vetted, Active, Idle, Step, Go
<1>0. Tracks(w)
  BY DEF TrackInv
<1>1. CASE CreateOrder(w)
  <2>1. /\ pc[w] = "order" /\ pc'[w] \in {"settle", "lookup"} /\ msg' = msg /\ queue' = queue
        /\ bots' = bots /\ job' = job /\ trade' = trade
    BY <1>1 DEF CreateOrder
  <2> QED
    BY <2>1, TracksOn
<1>2. CASE InlineLookup(w)
  <2>1. /\ pc[w] = "lookup" /\ pc'[w] = "inline" /\ msg' = msg /\ queue' = queue
        /\ bots' = bots /\ job' = job /\ trade' = trade
    BY <1>2 DEF InlineLookup
  <2>2. resp'[w] # "unknown"
    BY <1>2 DEF InlineLookup, Found, Report, Visible, Undisturbed
  <2> QED
    BY <2>1, <2>2, TracksOn
<1>3. CASE Settle(w)
  <2>1. /\ pc[w] = "settle" /\ msg' = msg /\ queue' = queue /\ bots' = bots /\ job' = job
        /\ \/ /\ trade' = [trade EXCEPT ![Sig(w)] = resp[w]]
              /\ pc'[w] = IF resp[w] = "unknown" THEN "job" ELSE AfterOrder(w)
           \/ /\ trade' = [trade EXCEPT ![Sig(w)] = "failed"]
              /\ pc'[w] \in {"breaker", "deadletter"}
    BY <1>3, NoFailedWrite DEF Settle, WriteTrade
  <2>2. AfterOrder(w) \in {"reset", "ack"}
    BY DEF AfterOrder
  <2>3. pc'[w] \in {"job", "reset", "ack", "breaker", "deadletter"}
    BY <2>1, <2>2
  <2>4. AfterOrder(w) # "job" /\ trade \in [Signal -> TradeStatus]
    BY <2>2
  <2>5. ASSUME NEW s \in Signal, trade'[s] = "unknown"
        PROVE  trade[s] = "unknown" \/ (s = Sig(w) /\ pc'[w] = "job")
    <3>1. CASE s = Sig(w)
      BY <2>1, <2>4, <2>5, <3>1
    <3>2. CASE s # Sig(w)
      BY <2>1, <2>4, <2>5, <3>2
    <3> QED
      BY <3>1, <3>2
  <2> QED
    BY <2>1, <2>3, <2>5, TracksOn
<1>4. CASE InlineSettle(w)
  <2>1. /\ pc[w] = "inline" /\ msg' = msg /\ queue' = queue /\ bots' = bots /\ job' = job
        /\ \/ /\ trade' = [trade EXCEPT ![Sig(w)] = resp[w]]
              /\ pc'[w] = AfterOrder(w)
           \/ /\ trade' = [trade EXCEPT ![Sig(w)] = "unknown"]
              /\ pc'[w] = "job"
    BY <1>4, NoFailedWrite DEF InlineSettle, WriteTrade
  <2>2. AfterOrder(w) \in {"reset", "ack"} /\ resp[w] # "unknown"
    BY <1>0, <2>1 DEF AfterOrder, Tracks
  <2>3. pc'[w] \in {"job", "reset", "ack"}
    BY <2>1, <2>2
  <2>4. trade \in [Signal -> TradeStatus]
    OBVIOUS
  <2>5. ASSUME NEW s \in Signal, trade'[s] = "unknown"
        PROVE  trade[s] = "unknown" \/ (s = Sig(w) /\ pc'[w] = "job")
    <3>1. CASE s = Sig(w)
      BY <2>1, <2>2, <2>4, <2>5, <3>1
    <3>2. CASE s # Sig(w)
      BY <2>1, <2>4, <2>5, <3>2
    <3> QED
      BY <3>1, <3>2
  <2> QED
    BY <2>1, <2>3, <2>5, TracksOn
<1> QED
  BY <1>1, <1>2, <1>3, <1>4

LEMMA TracksAfter ==
    ASSUME Undisturbed, TypeOK, TrackInv, NEW w \in Worker,
           \/ MarkUnknown(w) \/ OpenJob(w) \/ ResetFailures(w) \/ TripBreaker(w)
           \/ DeadLetter(w) \/ RevokeCredential(w) \/ DisableBot(w)
           \/ PauseForAttention(w)
    PROVE  TrackInv'
<1> USE DEF TypeOK, WorkerTypes, RecordTypes, Safe, Vetted, Active, Idle, Step, Go
<1>0. Tracks(w)
  BY DEF TrackInv
<1>1. CASE MarkUnknown(w)
  BY <1>0, <1>1 DEF MarkUnknown, Tracks
<1>2. CASE OpenJob(w)
  <2>1. /\ pc[w] = "job" /\ pc'[w] = "ack" /\ msg' = msg /\ queue' = queue
        /\ bots' = bots /\ trade' = trade /\ job' = JobsOpened({Sig(w)})
    BY <1>2, NoFailedWrite DEF OpenJob, OpenJobFor
  <2>2. Sig(w) \in Signal /\ Sig(w)' = Sig(w)
    BY <2>1, HeldMessage DEF Sig
  <2>3. ~Untracked(Sig(w))' /\ \A s \in Signal : job'[s] = "none" => job[s] = "none"
    BY <2>1, <2>2 DEF JobsOpened, Untracked
  <2> QED
    BY <2>1, <2>3, TracksOn
<1>3. ASSUME NEW row, NEW from, NEW to, WriteBotStep(w, from, to, row)
      PROVE  /\ pc[w] = from /\ pc'[w] = to /\ msg' = msg /\ queue' = queue
             /\ trade' = trade /\ job' = job
             /\ \A b \in Bot : \/ bots'[b].status = bots[b].status
                               \/ b = BotAt(w) /\ bots'[b] = row
  BY <1>3 DEF WriteBotStep, WriteBot, ControlTypes
<1>4. CASE ResetFailures(w)
  <2> DEFINE row == [bots[BotAt(w)] EXCEPT !.failures = 0]
  <2>1. WriteBotStep(w, "reset", "ack", row)
    BY <1>4 DEF ResetFailures
  <2>2. BotAt(w) \in Bot
    BY <2>1, HeldMessage DEF WriteBotStep
  <2>3. row.status = bots[BotAt(w)].status
    BY <2>2 DEF ControlTypes, BotRow
  <2> HIDE DEF row
  <2>4. /\ pc[w] = "reset" /\ pc'[w] = "ack" /\ msg' = msg /\ queue' = queue
        /\ trade' = trade /\ job' = job
        /\ \A b \in Bot : bots'[b].status = bots[b].status
    BY <1>3, <2>1, <2>3
  <2>5. ~Untracked(Sig(w))'
    BY <1>0, <2>4 DEF Tracks, Untracked, Sig
  <2> QED
    BY <2>4, <2>5, TracksOn
<1>5. CASE TripBreaker(w) \/ DisableBot(w) \/ PauseForAttention(w)
  <2>1. /\ pc[w] \in {"breaker", "disable", "pause"} /\ pc'[w] \in {"deadletter", "ack"}
        /\ msg' = msg /\ queue' = queue /\ trade' = trade /\ job' = job
        /\ \A b \in Bot : bots'[b].status = bots[b].status \/ b = BotAt(w)
    BY <1>3, <1>5 DEF TripBreaker, DisableBot, PauseForAttention
  <2> QED
    BY <2>1, TracksOn
<1>6. CASE DeadLetter(w) \/ RevokeCredential(w)
  <2>1. /\ pc[w] \in {"deadletter", "revoke"} /\ pc'[w] \in {"pause", "revoke", "ack", "disable"}
        /\ msg' = msg /\ queue' = queue /\ trade' = trade /\ job' = job /\ bots' = bots
    BY <1>6 DEF DeadLetter, RevokeCredential
  <2> QED
    BY <2>1, TracksOn
<1> QED
  BY <1>1, <1>2, <1>4, <1>5, <1>6

LEMMA TracksScan ==
    ASSUME Undisturbed, TypeOK, TrackInv, NEW w \in Worker, Resolver(w)
    PROVE  TrackInv'
<1>1. /\ queue' = queue /\ bots' = bots /\ pc' = pc /\ msg' = msg /\ resp' = resp
  BY DEF Resolver, ScanPick, ScanVerdict, ScanInconclusive, ScanRefused, ScanFinalize,
     ScanClose
<1>2. scan[w].at = "finalize" => scan[w].found # "unknown"
  BY DEF TypeOK, ScanTypes, Terminal
<1>3. NoNewUnknown
  BY <1>2 DEF Resolver, ScanPick, ScanVerdict, ScanInconclusive, ScanRefused, ScanFinalize,
     ScanClose, NoNewUnknown, TypeOK, RecordTypes
<1> QED
  BY <1>1, <1>3, TracksAside

LEMMA TracksOthers ==
    ASSUME Undisturbed, TypeOK, TrackInv,
           \/ \E s \in Signal : SignalStep(s)
           \/ \E m \in hidden : Reappear(m)
    PROVE  TrackInv'
<1>1. /\ bots' = bots /\ pc' = pc /\ msg' = msg /\ resp' = resp
      /\ trade' = trade /\ job' = job /\ queue \subseteq queue'
  BY DEF SignalStep, Age, ExchangeMoves, Lapse, ExpireProposal, RejectOrder,
     ApproveOrder, SendApproved, Reappear, Decide
<1> QED
  BY <1>1, TracksAside DEF NoNewUnknown

LEMMA TrackInvStep ==
    ASSUME Undisturbed, TypeOK, TrackInv, [Next]_vars
    PROVE  TrackInv'
<1>1. CASE UNCHANGED vars
  BY <1>1, TracksAside DEF vars, NoNewUnknown
<1>2. ASSUME NEW b \in Bot, PauseBot(b) \/ \E mode \in Modes : ArmBot(b, mode)
      PROVE  FALSE
  <2>1. ops \in Nat
    BY DEF TypeOK, BoundTypes
  <2>2. ops < MaxOps
    BY <1>2 DEF PauseBot, ArmBot
  <2> QED
    BY <2>1, <2>2, SMT DEF Undisturbed
<1>3. ASSUME NEW w \in Worker, WorkerStep(w)
      PROVE  TrackInv'
  BY <1>3, TracksBegin, TracksReading, TracksVetting, TracksOrder, TracksAfter,
     TracksScan DEF WorkerStep, ProcessMessage
<1>4. CASE Next
  BY <1>2, <1>3, <1>4, TracksOthers DEF Next
<1> QED
  BY <1>1, <1>4

\* A trade that is unknown has a job, or a message that will open one, however
\* the worker crashes, messages come again and orders come to light late
\* (Step 3's triage): where nothing disturbs it.
THEOREM UnknownsAreTracked == Undisturbed => (Spec => []UnknownIsTracked)
<1> SUFFICES ASSUME Undisturbed
             PROVE  Spec => []UnknownIsTracked
  OBVIOUS
<1>1. Init => TrackInv
  BY DEF Init, TrackInv, Tracks, Untracked, Idle, Safe, Vetted, Active
<1>2. OrderInv /\ TrackInv /\ [Next]_vars => TrackInv'
  BY TrackInvStep DEF OrderInv
<1>3. TrackInv => UnknownIsTracked
  BY DEF TrackInv, Untracked, UnknownIsTracked
<1> QED
  BY <1>1, <1>2, <1>3, OrderInvariant, PTL DEF Spec

=============================================================================
