------------------------- MODULE TradeWorkerProofs -------------------------
(***************************************************************************)
(* Theorems about TradeWorker, for any bots, signals and workers and any   *)
(* bounds.                                                                 *)
(***************************************************************************)
EXTENDS TradeWorker, TLAPS

Idle == {"boot", "resolve", "poll"}

USE DEF queueVars, controlVars, recordVars, approvalVars, orderVars,
        workerVars, boundVars, worldVars, ProposalUnchanged

-----------------------------------------------------------------------------
(* What the helpers write, typed *)

\* A message has a signal and says whether it is approved.
LEMMA MessageFields ==
    ASSUME NEW m \in Message
    PROVE  m.sig \in Signal /\ m.approved \in BOOLEAN
  BY DEF Message

\* A worker at work holds a message, of a signal of some bot.
LEMMA HeldMessage ==
    ASSUME WorkerTypes, NEW w \in Worker, pc[w] \notin Idle
    PROVE  msg[w] \in Message /\ Sig(w) \in Signal /\ BotAt(w) \in Bot
  BY MessageFields, ConstantsOK DEF WorkerTypes, Idle, Sig, BotAt

\* The registers of a worker stay typed in a step of processMessage.
LEMMA StepTyped ==
    ASSUME WorkerTypes, NEW w \in Worker, NEW from, NEW to \in Steps,
           Step(w, from, to), (from \in Idle) = (to \in Idle)
    PROVE  WorkerTypes'
  BY DEF WorkerTypes, Idle, Step, Go

LEMMA RowTyped == NoRow \in BotRow
  BY ConstantsOK DEF NoRow, BotRow, Modes

\* And when it is done with the message.
LEMMA DropTyped ==
    ASSUME WorkerTypes, NEW w \in Worker, NEW step \in {"boot", "poll"},
           Drop(w, step)
    PROVE  WorkerTypes'
  BY RowTyped DEF WorkerTypes, Drop, Go, Steps, Answers

LEMMA WriteTradeTyped ==
    ASSUME RecordTypes, BoundTypes, NEW s \in Signal,
           NEW status \in TradeStatus, WriteTrade(s, status)
    PROVE  trade' \in [Signal -> TradeStatus] /\ dbErrors' \in Nat
  BY DEF RecordTypes, BoundTypes, WriteTrade, DbFails

LEMMA WriteBotTyped ==
    ASSUME ControlTypes, BoundTypes, NEW b \in Bot, NEW row \in BotRow,
           WriteBot(b, row)
    PROVE  bots' \in [Bot -> BotRow] /\ dbErrors' \in Nat
  BY DEF ControlTypes, BoundTypes, WriteBot, DbFails

LEMMA StatusTyped ==
    ASSUME NEW row \in BotRow, NEW status \in {"active", "paused", "error"}
    PROVE  /\ [row EXCEPT !.status = status] \in BotRow
           /\ [row EXCEPT !.enabled = FALSE, !.status = status] \in BotRow
  BY DEF BotRow

LEMMA FailuresTyped ==
    ASSUME NEW row \in BotRow, NEW n \in 0..MaxFailures
    PROVE  /\ [row EXCEPT !.failures = n] \in BotRow
           /\ [row EXCEPT !.failures = n, !.status = "error"] \in BotRow
  BY DEF BotRow

LEMMA JobsOpenedTyped ==
    ASSUME RecordTypes, NEW S
    PROVE  JobsOpened(S) \in [Signal -> {"none", "pending", "resolved", "failed"}]
  BY DEF RecordTypes, JobsOpened

LEMMA OpenJobTyped ==
    ASSUME RecordTypes, BoundTypes, NEW s \in Signal, OpenJobFor(s)
    PROVE  /\ job' \in [Signal -> {"none", "pending", "resolved", "failed"}]
           /\ dbErrors' \in Nat
  BY JobsOpenedTyped DEF RecordTypes, BoundTypes, OpenJobFor, DbFails

-----------------------------------------------------------------------------
(* One lemma per action: it keeps every variable in its type *)

LEMMA TypesBoot ==
    ASSUME TypeOK, NEW w \in Worker, Boot(w)
    PROVE  TypeOK'
<1>1. WorkerTypes'
  BY StepTyped DEF Boot, Idle, Steps, TypeOK
<1>2. RecordTypes'
  BY JobsOpenedTyped DEF Boot, RecordTypes, TypeOK
<1>3. BoundTypes'
  BY DEF Boot, BoundTypes, DbFails, TypeOK
<1>4. QueueTypes' /\ ControlTypes' /\ ApprovalTypes' /\ OrderTypes' /\
       ScanTypes'
  BY DEF Boot, TypeOK, QueueTypes, ControlTypes, ApprovalTypes, OrderTypes,
     ScanTypes
<1> QED
  BY <1>1, <1>2, <1>3, <1>4 DEF TypeOK

LEMMA TypesEndResolve ==
    ASSUME TypeOK, NEW w \in Worker, EndResolve(w)
    PROVE  TypeOK'
<1>1. WorkerTypes'
  BY StepTyped DEF EndResolve, Idle, Steps, TypeOK
<1>2. QueueTypes' /\ ControlTypes' /\ RecordTypes' /\ ApprovalTypes' /\
       OrderTypes' /\ ScanTypes' /\ BoundTypes'
  BY DEF EndResolve, TypeOK, QueueTypes, ControlTypes, RecordTypes,
     ApprovalTypes, OrderTypes, ScanTypes, BoundTypes
<1> QED
  BY <1>1, <1>2 DEF TypeOK

LEMMA TypesReceive ==
    ASSUME TypeOK, NEW w \in Worker, Receive(w)
    PROVE  TypeOK'
<1>1. WorkerTypes'
  BY ConstantsOK DEF Receive, Go, WorkerTypes, QueueTypes, Steps, TypeOK
<1>2. QueueTypes'
  BY DEF Receive, QueueTypes, TypeOK
<1>3. ControlTypes' /\ RecordTypes' /\ ApprovalTypes' /\ OrderTypes' /\
       ScanTypes' /\ BoundTypes'
  BY DEF Receive, TypeOK, ControlTypes, RecordTypes, ApprovalTypes,
     OrderTypes, ScanTypes, BoundTypes
<1> QED
  BY <1>1, <1>2, <1>3 DEF TypeOK

LEMMA TypesAck ==
    ASSUME TypeOK, NEW w \in Worker, Ack(w)
    PROVE  TypeOK'
<1>1. WorkerTypes'
  BY DropTyped DEF Ack, TypeOK
<1>2. QueueTypes'
  BY DEF Ack, QueueTypes, TypeOK
<1>3. BoundTypes'
  BY DEF Ack, BoundTypes, DbFails, TypeOK
<1>4. ControlTypes' /\ RecordTypes' /\ ApprovalTypes' /\ OrderTypes' /\
       ScanTypes'
  BY DEF Ack, TypeOK, ControlTypes, RecordTypes, ApprovalTypes, OrderTypes,
     ScanTypes
<1> QED
  BY <1>1, <1>2, <1>3, <1>4 DEF TypeOK

LEMMA TypesReadBot ==
    ASSUME TypeOK, NEW w \in Worker, ReadBot(w)
    PROVE  TypeOK'
<1>1. WorkerTypes'
  BY HeldMessage DEF ReadBot, Go, WorkerTypes, ControlTypes, Idle, Steps,
     TypeOK
<1>2. BoundTypes'
  BY DEF ReadBot, BoundTypes, DbFails, TypeOK
<1>3. QueueTypes' /\ ControlTypes' /\ RecordTypes' /\ ApprovalTypes' /\
       OrderTypes' /\ ScanTypes'
  BY DEF ReadBot, TypeOK, QueueTypes, ControlTypes, RecordTypes,
     ApprovalTypes, OrderTypes, ScanTypes
<1> QED
  BY <1>1, <1>2, <1>3 DEF TypeOK

LEMMA TypesCheckDuplicate ==
    ASSUME TypeOK, NEW w \in Worker, CheckDuplicate(w)
    PROVE  TypeOK'
<1>1. WorkerTypes'
  BY StepTyped DEF CheckDuplicate, Idle, Steps, TypeOK
<1>2. RecordTypes'
  BY HeldMessage, OpenJobTyped DEF CheckDuplicate, RecordTypes, Step, Idle,
     TypeOK
<1>3. BoundTypes'
  BY HeldMessage, OpenJobTyped DEF CheckDuplicate, BoundTypes, DbFails, Step,
     Idle, TypeOK
<1>4. QueueTypes' /\ ControlTypes' /\ ApprovalTypes' /\ OrderTypes' /\
       ScanTypes'
  BY DEF CheckDuplicate, TypeOK, QueueTypes, ControlTypes, ApprovalTypes,
     OrderTypes, ScanTypes
<1> QED
  BY <1>1, <1>2, <1>3, <1>4 DEF TypeOK

LEMMA TypesGuard ==
    ASSUME TypeOK, NEW w \in Worker, Guard(w)
    PROVE  TypeOK'
<1>1. WorkerTypes'
  BY StepTyped, DropTyped DEF Guard, Release, Idle, Steps, TypeOK
<1>2. QueueTypes' /\ ControlTypes' /\ RecordTypes' /\ ApprovalTypes' /\
       OrderTypes' /\ ScanTypes' /\ BoundTypes'
  BY DEF Guard, Release, TypeOK, QueueTypes, ControlTypes, RecordTypes,
     ApprovalTypes, OrderTypes, ScanTypes, BoundTypes
<1> QED
  BY <1>1, <1>2 DEF TypeOK

LEMMA TypesCheckCredential ==
    ASSUME TypeOK, NEW w \in Worker, CheckCredential(w)
    PROVE  TypeOK'
<1>1. WorkerTypes'
  BY StepTyped, DropTyped DEF CheckCredential, disableBotMisconfigured, Release, Idle, Steps, TypeOK
<1>2. ControlTypes'
  <2>1. CASE creds' = creds /\ bots' = bots
    BY <2>1 DEF TypeOK, ControlTypes
  <2>2. CASE /\ Step(w, "cred", "ack")
             /\ WriteBot(BotAt(w), [bots[BotAt(w)] EXCEPT !.status = "error"])
             /\ creds' = creds
    <3>1. BotAt(w) \in Bot
      BY <2>2, HeldMessage DEF TypeOK, Step, Idle
    <3>2. [bots[BotAt(w)] EXCEPT !.status = "error"] \in BotRow
      BY <3>1, StatusTyped DEF TypeOK, ControlTypes
    <3> QED
      BY <2>2, <3>1, <3>2, WriteBotTyped DEF TypeOK, ControlTypes
  <2> QED
    BY <2>1, <2>2 DEF CheckCredential, disableBotMisconfigured, Release
<1>3. BoundTypes'
  BY DEF CheckCredential, disableBotMisconfigured, Release, BoundTypes, WriteBot, DbFails, TypeOK
<1>4. QueueTypes' /\ RecordTypes' /\ ApprovalTypes' /\ OrderTypes' /\
       ScanTypes'
  BY DEF CheckCredential, disableBotMisconfigured, Release, TypeOK, QueueTypes, RecordTypes,
     ApprovalTypes, OrderTypes, ScanTypes
<1> QED
  BY <1>1, <1>2, <1>3, <1>4 DEF TypeOK

LEMMA TypesReadMarket ==
    ASSUME TypeOK, NEW w \in Worker, ReadMarket(w)
    PROVE  TypeOK'
<1>1. WorkerTypes'
  BY StepTyped, DropTyped DEF ReadMarket, Release, Idle, Steps, TypeOK
<1>2. QueueTypes' /\ ControlTypes' /\ RecordTypes' /\ ApprovalTypes' /\
       OrderTypes' /\ ScanTypes' /\ BoundTypes'
  BY DEF ReadMarket, Release, TypeOK, QueueTypes, ControlTypes, RecordTypes,
     ApprovalTypes, OrderTypes, ScanTypes, BoundTypes
<1> QED
  BY <1>1, <1>2 DEF TypeOK

LEMMA TypesChooseMode ==
    ASSUME TypeOK, NEW w \in Worker, ChooseMode(w)
    PROVE  TypeOK'
<1>1. WorkerTypes'
  BY StepTyped DEF ChooseMode, Idle, Steps, TypeOK
<1>2. RecordTypes'
  BY HeldMessage DEF ChooseMode, RecordTypes, RecordSimulatedFill, Step, Idle,
     TradeStatus, OrderStatus, Terminal, TypeOK
<1>3. ApprovalTypes'
  BY HeldMessage DEF ChooseMode, ApprovalTypes, ProposeOrder, Step, Idle,
     TypeOK
<1>4. BoundTypes'
  BY DEF ChooseMode, BoundTypes, RecordSimulatedFill, ProposeOrder, DbFails,
     TypeOK
<1>5. QueueTypes' /\ ControlTypes' /\ OrderTypes' /\ ScanTypes'
  BY DEF ChooseMode, TypeOK, QueueTypes, ControlTypes, OrderTypes,
     ScanTypes
<1> QED
  BY <1>1, <1>2, <1>3, <1>4, <1>5 DEF TypeOK

LEMMA TypesReserve ==
    ASSUME TypeOK, NEW w \in Worker, Reserve(w)
    PROVE  TypeOK'
<1>1. WorkerTypes'
  BY StepTyped, DropTyped DEF Reserve, Release, Idle, Steps, TypeOK
<1>2. RecordTypes'
  BY HeldMessage DEF Reserve, RecordTypes, Step, Idle, TradeStatus,
     OrderStatus, Terminal, TypeOK
<1>3. BoundTypes'
  BY DEF Reserve, BoundTypes, DbFails, TypeOK
<1>4. QueueTypes' /\ ControlTypes' /\ ApprovalTypes' /\ OrderTypes' /\
       ScanTypes'
  BY DEF Reserve, TypeOK, QueueTypes, ControlTypes, ApprovalTypes,
     OrderTypes, ScanTypes
<1> QED
  BY <1>1, <1>2, <1>3, <1>4 DEF TypeOK

LEMMA TypesAuditCreated ==
    ASSUME TypeOK, NEW w \in Worker, AuditCreated(w)
    PROVE  TypeOK'
<1>1. WorkerTypes'
  BY StepTyped DEF AuditCreated, Idle, Steps, TypeOK
<1>2. RecordTypes'
  BY HeldMessage DEF AuditCreated, RecordTypes, Step, Idle, TradeStatus,
     OrderStatus, Terminal, TypeOK
<1>3. BoundTypes'
  BY DEF AuditCreated, BoundTypes, DbFails, TypeOK
<1>4. OrderTypes'
  BY HeldMessage DEF AuditCreated, OrderTypes, Step, Idle, TypeOK
<1>5. QueueTypes' /\ ControlTypes' /\ ApprovalTypes' /\ ScanTypes'
  BY DEF AuditCreated, TypeOK, QueueTypes, ControlTypes, ApprovalTypes,
     ScanTypes
<1> QED
  BY <1>1, <1>2, <1>3, <1>4, <1>5 DEF TypeOK

LEMMA TypesCreateOrder ==
    ASSUME TypeOK, NEW w \in Worker, CreateOrder(w)
    PROVE  TypeOK'
<1>1. WorkerTypes'
  BY DEF CreateOrder, Go, WorkerTypes, Steps, Answers, OrderStatus, Report,
     Visible, TypeOK
<1>2. OrderTypes'
  BY HeldMessage DEF CreateOrder, OrderTypes, Visible, Idle, TypeOK
<1>3. QueueTypes' /\ ControlTypes' /\ RecordTypes' /\ ApprovalTypes' /\
       ScanTypes' /\ BoundTypes'
  BY DEF CreateOrder, TypeOK, QueueTypes, ControlTypes, RecordTypes,
     ApprovalTypes, ScanTypes, BoundTypes
<1> QED
  BY <1>1, <1>2, <1>3 DEF TypeOK

LEMMA TypesInlineLookup ==
    ASSUME TypeOK, NEW w \in Worker, InlineLookup(w)
    PROVE  TypeOK'
<1>1. WorkerTypes'
  BY DEF InlineLookup, Go, WorkerTypes, Steps, Answers, OrderStatus, Found,
     Report, Visible, TypeOK
<1>2. QueueTypes' /\ ControlTypes' /\ RecordTypes' /\ ApprovalTypes' /\
       OrderTypes' /\ ScanTypes' /\ BoundTypes'
  BY DEF InlineLookup, TypeOK, QueueTypes, ControlTypes, RecordTypes,
     ApprovalTypes, OrderTypes, ScanTypes, BoundTypes
<1> QED
  BY <1>1, <1>2 DEF TypeOK

LEMMA TypesSettle ==
    ASSUME TypeOK, NEW w \in Worker, Settle(w)
    PROVE  TypeOK'
<1>1. WorkerTypes'
  BY StepTyped DEF Settle, Idle, Steps, AfterOrder, TypeOK
<1>2. RecordTypes'
  BY HeldMessage DEF Settle, WriteTrade, RecordTypes, Step, DbFails, Idle,
     TradeStatus, OrderStatus, Terminal, TypeOK
<1>3. BoundTypes'
  BY DEF Settle, BoundTypes, WriteTrade, DbFails, TypeOK
<1>4. QueueTypes' /\ ControlTypes' /\ ApprovalTypes' /\ OrderTypes' /\
       ScanTypes'
  BY DEF Settle, TypeOK, QueueTypes, ControlTypes, ApprovalTypes,
     OrderTypes, ScanTypes
<1> QED
  BY <1>1, <1>2, <1>3, <1>4 DEF TypeOK

LEMMA TypesInlineSettle ==
    ASSUME TypeOK, NEW w \in Worker, InlineSettle(w)
    PROVE  TypeOK'
<1>1. WorkerTypes'
  BY StepTyped DEF InlineSettle, Idle, Steps, AfterOrder, TypeOK
<1>2. RecordTypes'
  BY HeldMessage DEF InlineSettle, WriteTrade, RecordTypes, Step, DbFails,
     Idle, TradeStatus, OrderStatus, Terminal, TypeOK
<1>3. BoundTypes'
  BY DEF InlineSettle, BoundTypes, WriteTrade, DbFails, TypeOK
<1>4. QueueTypes' /\ ControlTypes' /\ ApprovalTypes' /\ OrderTypes' /\
       ScanTypes'
  BY DEF InlineSettle, TypeOK, QueueTypes, ControlTypes, ApprovalTypes,
     OrderTypes, ScanTypes
<1> QED
  BY <1>1, <1>2, <1>3, <1>4 DEF TypeOK

LEMMA TypesMarkUnknown ==
    ASSUME TypeOK, NEW w \in Worker, MarkUnknown(w)
    PROVE  TypeOK'
<1>1. WorkerTypes'
  BY StepTyped DEF MarkUnknown, Idle, Steps, TypeOK
<1>2. RecordTypes'
  BY HeldMessage DEF MarkUnknown, WriteTrade, RecordTypes, Step, DbFails,
     Idle, TradeStatus, OrderStatus, Terminal, TypeOK
<1>3. BoundTypes'
  BY DEF MarkUnknown, BoundTypes, WriteTrade, DbFails, TypeOK
<1>4. QueueTypes' /\ ControlTypes' /\ ApprovalTypes' /\ OrderTypes' /\
       ScanTypes'
  BY DEF MarkUnknown, TypeOK, QueueTypes, ControlTypes, ApprovalTypes,
     OrderTypes, ScanTypes
<1> QED
  BY <1>1, <1>2, <1>3, <1>4 DEF TypeOK

LEMMA TypesOpenJob ==
    ASSUME TypeOK, NEW w \in Worker, OpenJob(w)
    PROVE  TypeOK'
<1>1. WorkerTypes'
  BY StepTyped DEF OpenJob, Idle, Steps, TypeOK
<1>2. RecordTypes'
  BY HeldMessage, OpenJobTyped DEF OpenJob, RecordTypes, Step, Idle, TypeOK
<1>3. BoundTypes'
  BY HeldMessage, OpenJobTyped DEF OpenJob, BoundTypes, Step, Idle, TypeOK
<1>4. QueueTypes' /\ ControlTypes' /\ ApprovalTypes' /\ OrderTypes' /\
       ScanTypes'
  BY DEF OpenJob, TypeOK, QueueTypes, ControlTypes, ApprovalTypes,
     OrderTypes, ScanTypes
<1> QED
  BY <1>1, <1>2, <1>3, <1>4 DEF TypeOK

LEMMA TypesResetFailures ==
    ASSUME TypeOK, NEW w \in Worker, ResetFailures(w)
    PROVE  TypeOK'
<1>1. WorkerTypes'
  BY StepTyped DEF ResetFailures, WriteBotStep, Idle, Steps, TypeOK
<1>2. ControlTypes'
  <2>1. BotAt(w) \in Bot
    BY HeldMessage DEF ResetFailures, WriteBotStep, Step, TypeOK, Idle
  <2>2. bots[BotAt(w)] \in BotRow
    BY <2>1 DEF TypeOK, ControlTypes
  <2>3. 0 \in 0..MaxFailures
    BY ConstantsOK
  <2>4. [bots[BotAt(w)] EXCEPT !.failures = 0] \in BotRow
    BY <2>2, <2>3, FailuresTyped
  <2> QED
    BY <2>1, <2>4, WriteBotTyped
    DEF ResetFailures, WriteBotStep, TypeOK, ControlTypes
<1>3. BoundTypes'
  BY DEF ResetFailures, WriteBotStep, BoundTypes, WriteBot, DbFails, TypeOK
<1>4. QueueTypes' /\ RecordTypes' /\ ApprovalTypes' /\ OrderTypes' /\
       ScanTypes'
  BY DEF ResetFailures, WriteBotStep, TypeOK, QueueTypes, RecordTypes,
     ApprovalTypes, OrderTypes, ScanTypes
<1> QED
  BY <1>1, <1>2, <1>3, <1>4 DEF TypeOK

LEMMA TypesTripBreaker ==
    ASSUME TypeOK, NEW w \in Worker, TripBreaker(w)
    PROVE  TypeOK'
<1>1. WorkerTypes'
  BY StepTyped DEF TripBreaker, WriteBotStep, Idle, Steps, TypeOK
<1>2. ControlTypes'
  <2>1. BotAt(w) \in Bot
    BY HeldMessage DEF TripBreaker, WriteBotStep, Step, TypeOK, Idle
  <2>2. bots[BotAt(w)] \in BotRow
    BY <2>1 DEF TypeOK, ControlTypes
  <2> DEFINE tripped == seen[w].failures + 1 >= MaxFailures
             row == bots[BotAt(w)]
             written ==
               IF tripped
               THEN [row EXCEPT !.failures = MaxFailures, !.status = "error"]
               ELSE [row EXCEPT !.failures = seen[w].failures + 1]
  <2>3. seen[w].failures \in 0..MaxFailures
    BY DEF TypeOK, WorkerTypes, BotRow
  <2>4. MaxFailures \in 0..MaxFailures
    BY ConstantsOK
  <2>5. ~tripped => seen[w].failures + 1 \in 0..MaxFailures
    BY <2>3, ConstantsOK
  <2>6. written \in BotRow
    BY <2>2, <2>4, <2>5, FailuresTyped
  <2>7. WriteBot(BotAt(w), written) /\ creds' = creds
    BY DEF TripBreaker, WriteBotStep
  <2> HIDE DEF written
  <2> QED
    BY <2>1, <2>6, <2>7, WriteBotTyped DEF TypeOK, ControlTypes
<1>3. BoundTypes'
  BY DEF TripBreaker, WriteBotStep, BoundTypes, WriteBot, DbFails, TypeOK
<1>4. QueueTypes' /\ RecordTypes' /\ ApprovalTypes' /\ OrderTypes' /\
       ScanTypes'
  BY DEF TripBreaker, WriteBotStep, TypeOK, QueueTypes, RecordTypes,
     ApprovalTypes, OrderTypes, ScanTypes
<1> QED
  BY <1>1, <1>2, <1>3, <1>4 DEF TypeOK

LEMMA TypesDisableBot ==
    ASSUME TypeOK, NEW w \in Worker, DisableBot(w)
    PROVE  TypeOK'
<1>1. WorkerTypes'
  BY StepTyped DEF DisableBot, WriteBotStep, Idle, Steps, TypeOK
<1>2. ControlTypes'
  <2>1. BotAt(w) \in Bot
    BY HeldMessage DEF DisableBot, WriteBotStep, Step, TypeOK, Idle
  <2>2. bots[BotAt(w)] \in BotRow
    BY <2>1 DEF TypeOK, ControlTypes
  <2>3. [bots[BotAt(w)] EXCEPT !.status = "error"] \in BotRow
    BY <2>2, StatusTyped
  <2> QED
    BY <2>1, <2>3, WriteBotTyped DEF DisableBot, WriteBotStep, TypeOK, ControlTypes
<1>3. BoundTypes'
  BY DEF DisableBot, WriteBotStep, BoundTypes, WriteBot, DbFails, TypeOK
<1>4. QueueTypes' /\ RecordTypes' /\ ApprovalTypes' /\ OrderTypes' /\
       ScanTypes'
  BY DEF DisableBot, WriteBotStep, TypeOK, QueueTypes, RecordTypes,
     ApprovalTypes, OrderTypes, ScanTypes
<1> QED
  BY <1>1, <1>2, <1>3, <1>4 DEF TypeOK

LEMMA TypesPauseForAttention ==
    ASSUME TypeOK, NEW w \in Worker, PauseForAttention(w)
    PROVE  TypeOK'
<1>1. WorkerTypes'
  BY StepTyped DEF PauseForAttention, WriteBotStep, Idle, Steps, TypeOK
<1>2. ControlTypes'
  <2>1. BotAt(w) \in Bot
    BY HeldMessage DEF PauseForAttention, WriteBotStep, Step, TypeOK, Idle
  <2>2. bots[BotAt(w)] \in BotRow
    BY <2>1 DEF TypeOK, ControlTypes
  <2>3. [bots[BotAt(w)] EXCEPT !.enabled = FALSE, !.status = "paused"] \in BotRow
    BY <2>2, StatusTyped
  <2> QED
    BY <2>1, <2>3, WriteBotTyped DEF PauseForAttention, WriteBotStep, TypeOK, ControlTypes
<1>3. BoundTypes'
  BY DEF PauseForAttention, WriteBotStep, BoundTypes, WriteBot, DbFails,
     TypeOK
<1>4. QueueTypes' /\ RecordTypes' /\ ApprovalTypes' /\ OrderTypes' /\
       ScanTypes'
  BY DEF PauseForAttention, WriteBotStep, TypeOK, QueueTypes, RecordTypes,
     ApprovalTypes, OrderTypes, ScanTypes
<1> QED
  BY <1>1, <1>2, <1>3, <1>4 DEF TypeOK

LEMMA TypesDeadLetter ==
    ASSUME TypeOK, NEW w \in Worker, DeadLetter(w)
    PROVE  TypeOK'
<1>1. WorkerTypes'
  BY StepTyped DEF DeadLetter, Idle, Steps, TypeOK
<1>2. RecordTypes'
  BY HeldMessage DEF DeadLetter, RecordTypes, Step, Idle, TypeOK
<1>3. BoundTypes'
  BY DEF DeadLetter, BoundTypes, DbFails, TypeOK
<1>4. QueueTypes' /\ ControlTypes' /\ ApprovalTypes' /\ OrderTypes' /\
       ScanTypes'
  BY DEF DeadLetter, TypeOK, QueueTypes, ControlTypes, ApprovalTypes,
     OrderTypes, ScanTypes
<1> QED
  BY <1>1, <1>2, <1>3, <1>4 DEF TypeOK

LEMMA TypesRevokeCredential ==
    ASSUME TypeOK, NEW w \in Worker, RevokeCredential(w)
    PROVE  TypeOK'
<1>1. WorkerTypes'
  BY StepTyped DEF RevokeCredential, Idle, Steps, TypeOK
<1>2. ControlTypes'
  BY HeldMessage DEF RevokeCredential, ControlTypes, Step, Idle, TypeOK
<1>3. BoundTypes'
  BY DEF RevokeCredential, BoundTypes, DbFails, TypeOK
<1>4. QueueTypes' /\ RecordTypes' /\ ApprovalTypes' /\ OrderTypes' /\
       ScanTypes'
  BY DEF RevokeCredential, TypeOK, QueueTypes, RecordTypes, ApprovalTypes,
     OrderTypes, ScanTypes
<1> QED
  BY <1>1, <1>2, <1>3, <1>4 DEF TypeOK

LEMMA TypesScanPick ==
    ASSUME TypeOK, NEW w \in Worker, NEW s \in Signal, ScanPick(w, s)
    PROVE  TypeOK'
<1>1. WorkerTypes'
  BY DEF ScanPick, WorkerTypes, TypeOK
<1>2. ScanTypes'
  BY DEF ScanPick, ScanTypes, ScanState, IdleScan, TypeOK
<1>3. QueueTypes' /\ ControlTypes' /\ RecordTypes' /\ ApprovalTypes' /\
       OrderTypes' /\ BoundTypes'
  BY DEF ScanPick, TypeOK, QueueTypes, ControlTypes, RecordTypes,
     ApprovalTypes, OrderTypes, BoundTypes
<1> QED
  BY <1>1, <1>2, <1>3 DEF TypeOK

LEMMA TypesScanVerdict ==
    ASSUME TypeOK, NEW w \in Worker, ScanVerdict(w)
    PROVE  TypeOK'
<1>1. WorkerTypes'
  BY DEF ScanVerdict, WorkerTypes, TypeOK
<1>2. ScanTypes'
  <2>1. PICK answer \in Terminal \cup {"notfound"} :
          scan' = [scan EXCEPT ![w].at = "finalize",
                     ![w].found = IF answer = "notfound" THEN "failed" ELSE answer]
    BY DEF ScanVerdict
  <2> DEFINE verdict == IF answer = "notfound" THEN "failed" ELSE answer
  <2>2. verdict \in Terminal
    BY DEF Terminal
  <2>3. scan[w].sig \in Signal
    BY DEF ScanVerdict, TypeOK, ScanTypes
  <2>4. scan' = [scan EXCEPT ![w] = [scan[w] EXCEPT !.at = "finalize",
                                                    !.found = verdict]]
    BY <2>1
  <2> HIDE DEF verdict
  <2>5. scan[w] \in ScanState
    BY DEF TypeOK, ScanTypes
  <2> DEFINE next == [scan[w] EXCEPT !.at = "finalize", !.found = verdict]
  <2>6. /\ next \in ScanState
        /\ next.at = "finalize" /\ next.sig = scan[w].sig /\ next.found = verdict
    BY <2>2, <2>5 DEF ScanState, OrderStatus, Terminal
  <2>7. scan' = [scan EXCEPT ![w] = next]
    BY <2>4
  <2> HIDE DEF next
  <2> QED
    BY <2>2, <2>3, <2>6, <2>7 DEF TypeOK, ScanTypes
<1>3. QueueTypes' /\ ControlTypes' /\ RecordTypes' /\ ApprovalTypes' /\
       OrderTypes' /\ BoundTypes'
  BY DEF ScanVerdict, TypeOK, QueueTypes, ControlTypes, RecordTypes,
     ApprovalTypes, OrderTypes, BoundTypes
<1> QED
  BY <1>1, <1>2, <1>3 DEF TypeOK

LEMMA TypesScanInconclusive ==
    ASSUME TypeOK, NEW w \in Worker, ScanInconclusive(w)
    PROVE  TypeOK'
<1>1. WorkerTypes'
  BY DEF ScanInconclusive, WorkerTypes, TypeOK
<1>2. ScanTypes'
  BY DEF ScanInconclusive, ScanTypes, ScanState, IdleScan, TypeOK
<1>3. QueueTypes' /\ ControlTypes' /\ RecordTypes' /\ ApprovalTypes' /\
       OrderTypes' /\ BoundTypes'
  BY DEF ScanInconclusive, TypeOK, QueueTypes, ControlTypes, RecordTypes,
     ApprovalTypes, OrderTypes, BoundTypes
<1> QED
  BY <1>1, <1>2, <1>3 DEF TypeOK

LEMMA TypesScanRefused ==
    ASSUME TypeOK, NEW w \in Worker, ScanRefused(w)
    PROVE  TypeOK'
<1>1. WorkerTypes'
  BY DEF ScanRefused, WorkerTypes, TypeOK
<1>2. ScanTypes'
  BY DEF ScanRefused, ScanTypes, ScanState, IdleScan, TypeOK
<1>3. RecordTypes'
  BY DEF ScanRefused, ScanTypes, RecordTypes, TypeOK
<1>4. BoundTypes'
  BY DEF ScanRefused, BoundTypes, DbFails, TypeOK
<1>5. QueueTypes' /\ ControlTypes' /\ ApprovalTypes' /\ OrderTypes'
  BY DEF ScanRefused, TypeOK, QueueTypes, ControlTypes, ApprovalTypes,
     OrderTypes
<1> QED
  BY <1>1, <1>2, <1>3, <1>4, <1>5 DEF TypeOK

LEMMA TypesScanFinalize ==
    ASSUME TypeOK, NEW w \in Worker, ScanFinalize(w)
    PROVE  TypeOK'
<1>1. WorkerTypes'
  BY DEF ScanFinalize, WorkerTypes, TypeOK
<1>2. ScanTypes'
  BY DEF ScanFinalize, ScanTypes, ScanState, IdleScan, TypeOK
<1>3. RecordTypes'
  BY DEF ScanFinalize, ScanTypes, RecordTypes, TradeStatus, OrderStatus,
     Terminal, TypeOK
<1>4. BoundTypes'
  BY DEF ScanFinalize, BoundTypes, DbFails, TypeOK
<1>5. QueueTypes' /\ ControlTypes' /\ ApprovalTypes' /\ OrderTypes'
  BY DEF ScanFinalize, TypeOK, QueueTypes, ControlTypes, ApprovalTypes,
     OrderTypes
<1> QED
  BY <1>1, <1>2, <1>3, <1>4, <1>5 DEF TypeOK

LEMMA TypesScanClose ==
    ASSUME TypeOK, NEW w \in Worker, ScanClose(w)
    PROVE  TypeOK'
<1>1. WorkerTypes'
  BY DEF ScanClose, WorkerTypes, TypeOK
<1>2. ScanTypes'
  BY DEF ScanClose, ScanTypes, ScanState, IdleScan, TypeOK
<1>3. RecordTypes'
  BY DEF ScanClose, ScanTypes, RecordTypes, TypeOK
<1>4. BoundTypes'
  BY DEF ScanClose, BoundTypes, DbFails, TypeOK
<1>5. QueueTypes' /\ ControlTypes' /\ ApprovalTypes' /\ OrderTypes'
  BY DEF ScanClose, TypeOK, QueueTypes, ControlTypes, ApprovalTypes,
     OrderTypes
<1> QED
  BY <1>1, <1>2, <1>3, <1>4, <1>5 DEF TypeOK

LEMMA TypesCrash ==
    ASSUME TypeOK, NEW w \in Worker, Crash(w)
    PROVE  TypeOK'
<1>1. WorkerTypes'
  BY DropTyped DEF Crash, TypeOK
<1>2. ScanTypes'
  BY DEF Crash, ScanTypes, ScanState, IdleScan, TypeOK
<1>3. BoundTypes'
  BY DEF Crash, BoundTypes, TypeOK
<1>4. QueueTypes' /\ ControlTypes' /\ RecordTypes' /\ ApprovalTypes' /\
       OrderTypes'
  BY DEF Crash, TypeOK, QueueTypes, ControlTypes, RecordTypes, ApprovalTypes,
     OrderTypes
<1> QED
  BY <1>1, <1>2, <1>3, <1>4 DEF TypeOK

LEMMA TypesAge ==
    ASSUME TypeOK, NEW s \in Signal, Age(s)
    PROVE  TypeOK'
<1>1. WorkerTypes'
  BY DEF Age, WorkerTypes, TypeOK
<1>2. RecordTypes'
  BY DEF Age, RecordTypes, TypeOK
<1>3. QueueTypes' /\ ControlTypes' /\ ApprovalTypes' /\ OrderTypes' /\
       ScanTypes' /\ BoundTypes'
  BY DEF Age, TypeOK, QueueTypes, ControlTypes, ApprovalTypes, OrderTypes,
     ScanTypes, BoundTypes
<1> QED
  BY <1>1, <1>2, <1>3 DEF TypeOK

LEMMA TypesExchangeMoves ==
    ASSUME TypeOK, NEW s \in Signal, ExchangeMoves(s)
    PROVE  TypeOK'
<1>1. WorkerTypes'
  BY DEF ExchangeMoves, WorkerTypes, TypeOK
<1>2. OrderTypes'
  BY DEF ExchangeMoves, OrderTypes, Visible, Terminal, TypeOK
<1>3. QueueTypes' /\ ControlTypes' /\ RecordTypes' /\ ApprovalTypes' /\
       ScanTypes' /\ BoundTypes'
  BY DEF ExchangeMoves, TypeOK, QueueTypes, ControlTypes, RecordTypes,
     ApprovalTypes, ScanTypes, BoundTypes
<1> QED
  BY <1>1, <1>2, <1>3 DEF TypeOK

LEMMA TypesLapse ==
    ASSUME TypeOK, NEW s \in Signal, Lapse(s)
    PROVE  TypeOK'
<1>1. WorkerTypes'
  BY DEF Lapse, WorkerTypes, TypeOK
<1>2. ApprovalTypes'
  BY DEF Lapse, Decide, ApprovalTypes, TypeOK
<1>3. QueueTypes' /\ ControlTypes' /\ RecordTypes' /\ OrderTypes' /\
       ScanTypes' /\ BoundTypes'
  BY DEF Lapse, Decide, TypeOK, QueueTypes, ControlTypes, RecordTypes,
     OrderTypes, ScanTypes, BoundTypes
<1> QED
  BY <1>1, <1>2, <1>3 DEF TypeOK

LEMMA TypesExpireProposal ==
    ASSUME TypeOK, NEW s \in Signal, ExpireProposal(s)
    PROVE  TypeOK'
<1>1. WorkerTypes'
  BY DEF ExpireProposal, WorkerTypes, TypeOK
<1>2. ApprovalTypes'
  BY DEF ExpireProposal, Decide, ApprovalTypes, TypeOK
<1>3. QueueTypes' /\ ControlTypes' /\ RecordTypes' /\ OrderTypes' /\
       ScanTypes' /\ BoundTypes'
  BY DEF ExpireProposal, Decide, TypeOK, QueueTypes, ControlTypes,
     RecordTypes, OrderTypes, ScanTypes, BoundTypes
<1> QED
  BY <1>1, <1>2, <1>3 DEF TypeOK

LEMMA TypesRejectOrder ==
    ASSUME TypeOK, NEW s \in Signal, RejectOrder(s)
    PROVE  TypeOK'
<1>1. WorkerTypes'
  BY DEF RejectOrder, WorkerTypes, TypeOK
<1>2. ApprovalTypes'
  BY DEF RejectOrder, Decide, ApprovalTypes, TypeOK
<1>3. QueueTypes' /\ ControlTypes' /\ RecordTypes' /\ OrderTypes' /\
       ScanTypes' /\ BoundTypes'
  BY DEF RejectOrder, Decide, TypeOK, QueueTypes, ControlTypes, RecordTypes,
     OrderTypes, ScanTypes, BoundTypes
<1> QED
  BY <1>1, <1>2, <1>3 DEF TypeOK

LEMMA TypesApproveOrder ==
    ASSUME TypeOK, NEW s \in Signal, ApproveOrder(s)
    PROVE  TypeOK'
<1>1. WorkerTypes'
  BY DEF ApproveOrder, WorkerTypes, TypeOK
<1>2. ApprovalTypes'
  BY DEF ApproveOrder, Decide, ApprovalTypes, TypeOK
<1>3. QueueTypes' /\ ControlTypes' /\ RecordTypes' /\ OrderTypes' /\
       ScanTypes' /\ BoundTypes'
  BY DEF ApproveOrder, Decide, TypeOK, QueueTypes, ControlTypes, RecordTypes,
     OrderTypes, ScanTypes, BoundTypes
<1> QED
  BY <1>1, <1>2, <1>3 DEF TypeOK

LEMMA TypesSendApproved ==
    ASSUME TypeOK, NEW s \in Signal, SendApproved(s)
    PROVE  TypeOK'
<1>1. WorkerTypes'
  BY DEF SendApproved, WorkerTypes, TypeOK
<1>2. ApprovalTypes'
  BY DEF SendApproved, ApprovalTypes, TypeOK
<1>3. QueueTypes'
  <2> DEFINE m == [sig |-> s, approved |-> TRUE, copy |-> 1]
  <2>1. m \in Message
    BY ConstantsOK DEF Message
  <2>2. queue' \in {queue, queue \cup {m}} /\ hidden' = hidden
    BY DEF SendApproved
  <2> HIDE DEF m
  <2> QED
    BY <2>1, <2>2 DEF TypeOK, QueueTypes
<1>4. ControlTypes' /\ RecordTypes' /\ OrderTypes' /\ ScanTypes' /\
       BoundTypes'
  BY DEF SendApproved, TypeOK, ControlTypes, RecordTypes, OrderTypes,
     ScanTypes, BoundTypes
<1> QED
  BY <1>1, <1>2, <1>3, <1>4 DEF TypeOK

LEMMA TypesReappear ==
    ASSUME TypeOK, NEW m \in hidden, Reappear(m)
    PROVE  TypeOK'
<1>1. WorkerTypes'
  BY DEF Reappear, WorkerTypes, TypeOK
<1>2. QueueTypes'
  BY DEF Reappear, QueueTypes, TypeOK
<1>3. ControlTypes' /\ RecordTypes' /\ ApprovalTypes' /\ OrderTypes' /\
       ScanTypes' /\ BoundTypes'
  BY DEF Reappear, TypeOK, ControlTypes, RecordTypes, ApprovalTypes,
     OrderTypes, ScanTypes, BoundTypes
<1> QED
  BY <1>1, <1>2, <1>3 DEF TypeOK

LEMMA TypesPauseBot ==
    ASSUME TypeOK, NEW b \in Bot, PauseBot(b)
    PROVE  TypeOK'
<1>1. WorkerTypes'
  BY DEF PauseBot, WorkerTypes, TypeOK
<1>2. ControlTypes'
  BY DEF PauseBot, ControlTypes, BotRow, Modes, TypeOK
<1>3. BoundTypes'
  BY DEF PauseBot, BoundTypes, TypeOK
<1>4. QueueTypes' /\ RecordTypes' /\ ApprovalTypes' /\ OrderTypes' /\
       ScanTypes'
  BY DEF PauseBot, TypeOK, QueueTypes, RecordTypes, ApprovalTypes,
     OrderTypes, ScanTypes
<1> QED
  BY <1>1, <1>2, <1>3, <1>4 DEF TypeOK

LEMMA TypesArmBot ==
    ASSUME TypeOK, NEW b \in Bot, NEW mode \in Modes, ArmBot(b, mode)
    PROVE  TypeOK'
<1>1. WorkerTypes'
  BY DEF ArmBot, WorkerTypes, TypeOK
<1>2. ControlTypes'
  BY DEF ArmBot, ControlTypes, BotRow, Modes, TypeOK
<1>3. BoundTypes'
  BY DEF ArmBot, BoundTypes, TypeOK
<1>4. QueueTypes' /\ RecordTypes' /\ ApprovalTypes' /\ OrderTypes' /\
       ScanTypes'
  BY DEF ArmBot, TypeOK, QueueTypes, RecordTypes, ApprovalTypes,
     OrderTypes, ScanTypes
<1> QED
  BY <1>1, <1>2, <1>3, <1>4 DEF TypeOK

-----------------------------------------------------------------------------
(* Type correctness *)

\* Every step keeps the types.
LEMMA TypesStep ==
    ASSUME TypeOK, [Next]_vars
    PROVE  TypeOK'
<1>1. ASSUME NEW w \in Worker, WorkerStep(w)
      PROVE  TypeOK'
  <2>1. CASE ProcessMessage(w)
    BY <2>1, TypesReadBot, TypesCheckDuplicate, TypesGuard,
       TypesCheckCredential, TypesReadMarket, TypesChooseMode, TypesReserve,
       TypesAuditCreated, TypesCreateOrder, TypesInlineLookup, TypesSettle,
       TypesInlineSettle, TypesMarkUnknown, TypesOpenJob, TypesResetFailures,
       TypesTripBreaker, TypesDisableBot, TypesPauseForAttention,
       TypesDeadLetter, TypesRevokeCredential DEF ProcessMessage
  <2>2. CASE Resolver(w)
    BY <2>2, TypesScanPick, TypesScanVerdict, TypesScanInconclusive,
       TypesScanRefused, TypesScanFinalize, TypesScanClose DEF Resolver
  <2> QED
    BY <1>1, <2>1, <2>2, TypesBoot, TypesEndResolve, TypesReceive, TypesAck,
       TypesCrash DEF WorkerStep
<1>2. ASSUME NEW s \in Signal, SignalStep(s)
      PROVE  TypeOK'
  BY <1>2, TypesAge, TypesExchangeMoves, TypesLapse, TypesExpireProposal,
     TypesRejectOrder, TypesApproveOrder, TypesSendApproved DEF SignalStep
<1>3. CASE UNCHANGED vars
  BY <1>3 DEF vars, TypeOK, QueueTypes, ControlTypes, RecordTypes, ApprovalTypes,
     OrderTypes, WorkerTypes, ScanTypes, BoundTypes
<1> QED
  BY <1>1, <1>2, <1>3, TypesReappear, TypesPauseBot, TypesArmBot DEF Next

\* The first state is typed.
LEMMA InitTypes ==
    ASSUME Init
    PROVE  TypeOK
<1>1. QueueTypes
  BY ConstantsOK DEF Init, QueueTypes, Message
<1>2. ControlTypes
  BY ConstantsOK DEF Init, ControlTypes, BotRow
<1>3. RecordTypes /\ ApprovalTypes /\ OrderTypes /\ BoundTypes
  BY DEF Init, RecordTypes, ApprovalTypes, OrderTypes, BoundTypes,
     TradeStatus, OrderStatus
<1>4. WorkerTypes
  BY RowTyped DEF Init, WorkerTypes, Steps, Answers
<1>5. ScanTypes
  BY DEF Init, ScanTypes, ScanState, IdleScan
<1> QED
  BY <1>1, <1>2, <1>3, <1>4, <1>5 DEF TypeOK

\* Whatever the bots, signals and bounds: every variable stays in its type, a
\* worker holds a message just while it works on one, and the resolver
\* finalizes trades with terminal statuses only.
THEOREM TypeCorrect == Spec => []TypeOK
  BY InitTypes, TypesStep, PTL DEF Spec

-----------------------------------------------------------------------------
(* What any step may do to orders and to consent *)

\* The steps at which createOrder is still ahead of a reserved signal, and
\* those that only a message the owner approved reaches.
Sending == {"audit", "order"}
Cleared == Sending \cup {"reserve"}

\* No order is sent, a row that was reserved stays one, and so does its audit
\* row; no other worker comes to send, nor to the order without the audit row.
OrderFrame ==
    /\ placed' = placed
    /\ audited \subseteq audited'
    /\ \A s \in Signal : trade[s] \notin {"none", "simulated"} =>
                           trade'[s] \notin {"none", "simulated"}
    /\ \A w \in Worker : pc'[w] \in Sending =>
                           pc[w] \in Sending /\ msg'[w] = msg[w]
    /\ \A w \in Worker : pc'[w] = "order" =>
                           pc[w] = "order" \/ (AuditFailClosed => Sig(w) \in audited')

\* An approval stays, and every approved message comes from one.
ConsentFrame ==
    /\ \A s \in Signal : proposal[s] = "approved" => proposal'[s] = "approved"
    /\ \A m \in queue' : m.approved => m \in queue \/ m.sig \in unsent
    /\ \A s \in unsent' : s \in unsent \/ proposal'[s] = "approved"
    /\ \A w \in Worker : msg'[w] \in queue \cup {msg[w], NoMsg}
    /\ \A w \in Worker : pc'[w] \in Cleared =>
         msg'[w] = msg[w] /\ (pc[w] \in Cleared \/ msg[w].approved)

LEMMA FrameBoot ==
    ASSUME TypeOK, NEW w \in Worker, Boot(w)
    PROVE  ConsentFrame /\ OrderFrame
<1>1. ConsentFrame
  BY DEF Boot, Step, Go, TypeOK, WorkerTypes, ApprovalTypes, ConsentFrame,
     Cleared, Sending
<1>2. OrderFrame
  BY DEF Boot, Step, Go, TypeOK, WorkerTypes, RecordTypes, OrderFrame, Sending
<1> QED
  BY <1>1, <1>2

LEMMA FrameEndResolve ==
    ASSUME TypeOK, NEW w \in Worker, EndResolve(w)
    PROVE  ConsentFrame /\ OrderFrame
<1>1. ConsentFrame
  BY DEF EndResolve, Step, Go, TypeOK, WorkerTypes, ApprovalTypes,
     ConsentFrame, Cleared, Sending
<1>2. OrderFrame
  BY DEF EndResolve, Step, Go, TypeOK, WorkerTypes, RecordTypes, OrderFrame,
     Sending
<1> QED
  BY <1>1, <1>2

LEMMA FrameReceive ==
    ASSUME TypeOK, NEW w \in Worker, Receive(w)
    PROVE  ConsentFrame /\ OrderFrame
<1>1. ConsentFrame
  BY DEF Receive, Go, TypeOK, WorkerTypes, ApprovalTypes, QueueTypes,
     ConsentFrame, Cleared, Sending
<1>2. OrderFrame
  BY DEF Receive, Go, TypeOK, WorkerTypes, RecordTypes, OrderFrame, Sending
<1> QED
  BY <1>1, <1>2

LEMMA FrameAck ==
    ASSUME TypeOK, NEW w \in Worker, Ack(w)
    PROVE  ConsentFrame /\ OrderFrame
<1>1. ConsentFrame
  BY DEF Ack, Drop, Go, TypeOK, WorkerTypes, ApprovalTypes, ConsentFrame,
     Cleared, Sending
<1>2. OrderFrame
  BY DEF Ack, Drop, Go, TypeOK, WorkerTypes, RecordTypes, OrderFrame, Sending
<1> QED
  BY <1>1, <1>2

LEMMA FrameReadBot ==
    ASSUME TypeOK, NEW w \in Worker, ReadBot(w)
    PROVE  ConsentFrame /\ OrderFrame
<1>1. ConsentFrame
  BY DEF ReadBot, Go, TypeOK, WorkerTypes, ApprovalTypes, ConsentFrame,
     Cleared, Sending
<1>2. OrderFrame
  BY DEF ReadBot, Go, TypeOK, WorkerTypes, RecordTypes, OrderFrame, Sending
<1> QED
  BY <1>1, <1>2

LEMMA FrameCheckDuplicate ==
    ASSUME TypeOK, NEW w \in Worker, CheckDuplicate(w)
    PROVE  ConsentFrame /\ OrderFrame
<1>1. ConsentFrame
  BY DEF CheckDuplicate, Step, Go, TypeOK, WorkerTypes, ApprovalTypes,
     ConsentFrame, Cleared, Sending
<1>2. OrderFrame
  BY DEF CheckDuplicate, Step, Go, TypeOK, WorkerTypes, RecordTypes,
     OrderFrame, Sending
<1> QED
  BY <1>1, <1>2

LEMMA FrameGuard ==
    ASSUME TypeOK, NEW w \in Worker, Guard(w)
    PROVE  ConsentFrame /\ OrderFrame
<1>1. ConsentFrame
  BY DEF Guard, Step, Go, Release, Drop, TypeOK, WorkerTypes, ApprovalTypes,
     ConsentFrame, Cleared, Sending
<1>2. OrderFrame
  BY DEF Guard, Step, Go, Release, Drop, TypeOK, WorkerTypes, RecordTypes,
     OrderFrame, Sending
<1> QED
  BY <1>1, <1>2

LEMMA FrameCheckCredential ==
    ASSUME TypeOK, NEW w \in Worker, CheckCredential(w)
    PROVE  ConsentFrame /\ OrderFrame
<1>1. ConsentFrame
  BY DEF CheckCredential, disableBotMisconfigured, Step, Go, Release, Drop, TypeOK, WorkerTypes,
     ApprovalTypes, ConsentFrame, Cleared, Sending
<1>2. OrderFrame
  BY DEF CheckCredential, disableBotMisconfigured, Step, Go, Release, Drop, TypeOK, WorkerTypes,
     RecordTypes, OrderFrame, Sending
<1> QED
  BY <1>1, <1>2

LEMMA FrameReadMarket ==
    ASSUME TypeOK, NEW w \in Worker, ReadMarket(w)
    PROVE  ConsentFrame /\ OrderFrame
<1>1. ConsentFrame
  BY DEF ReadMarket, Step, Go, Release, Drop, TypeOK, WorkerTypes,
     ApprovalTypes, ConsentFrame, Cleared, Sending
<1>2. OrderFrame
  BY DEF ReadMarket, Step, Go, Release, Drop, TypeOK, WorkerTypes,
     RecordTypes, OrderFrame, Sending
<1> QED
  BY <1>1, <1>2

LEMMA FrameChooseMode ==
    ASSUME TypeOK, NEW w \in Worker, ChooseMode(w)
    PROVE  ConsentFrame /\ OrderFrame
<1>1. ConsentFrame
  BY DEF ChooseMode, Step, Go, TypeOK, WorkerTypes, ApprovalTypes,
     ProposeOrder, ConsentFrame, Cleared, Sending
<1>2. OrderFrame
  BY DEF ChooseMode, Step, Go, TypeOK, WorkerTypes, RecordTypes,
     RecordSimulatedFill, SignalTaken, OrderFrame, Sending
<1> QED
  BY <1>1, <1>2

LEMMA FrameReserve ==
    ASSUME TypeOK, NEW w \in Worker, Reserve(w)
    PROVE  ConsentFrame
<1>1. ConsentFrame
  BY DEF Reserve, Step, Go, Drop, TypeOK, WorkerTypes, ApprovalTypes,
     ConsentFrame, Cleared, Sending
<1> QED
  BY <1>1

LEMMA FrameAuditCreated ==
    ASSUME TypeOK, NEW w \in Worker, AuditCreated(w)
    PROVE  ConsentFrame /\ OrderFrame
<1>1. ConsentFrame
  BY DEF AuditCreated, Step, Go, TypeOK, WorkerTypes, ApprovalTypes,
     ConsentFrame, Cleared, Sending
<1>2. OrderFrame
  BY DEF AuditCreated, Step, Go, TypeOK, WorkerTypes, RecordTypes, OrderTypes,
     OrderFrame, Sending
<1> QED
  BY <1>1, <1>2

LEMMA FrameCreateOrder ==
    ASSUME TypeOK, NEW w \in Worker, CreateOrder(w)
    PROVE  ConsentFrame
<1>1. ConsentFrame
  BY DEF CreateOrder, Go, TypeOK, WorkerTypes, ApprovalTypes, ConsentFrame,
     Cleared, Sending
<1> QED
  BY <1>1

LEMMA FrameInlineLookup ==
    ASSUME TypeOK, NEW w \in Worker, InlineLookup(w)
    PROVE  ConsentFrame /\ OrderFrame
<1>1. ConsentFrame
  BY DEF InlineLookup, Go, TypeOK, WorkerTypes, ApprovalTypes, ConsentFrame,
     Cleared, Sending
<1>2. OrderFrame
  BY DEF InlineLookup, Go, TypeOK, WorkerTypes, RecordTypes, OrderFrame,
     Sending
<1> QED
  BY <1>1, <1>2

LEMMA FrameSettle ==
    ASSUME TypeOK, NEW w \in Worker, Settle(w)
    PROVE  ConsentFrame /\ OrderFrame
<1>1. ConsentFrame
  BY DEF Settle, Step, Go, AfterOrder, TypeOK, WorkerTypes, ApprovalTypes,
     ConsentFrame, Cleared, Sending
<1>2. OrderFrame
  BY DEF Settle, Step, Go, AfterOrder, TypeOK, WorkerTypes, RecordTypes,
     WriteTrade, OrderStatus, OrderFrame, Sending
<1> QED
  BY <1>1, <1>2

LEMMA FrameInlineSettle ==
    ASSUME TypeOK, NEW w \in Worker, InlineSettle(w)
    PROVE  ConsentFrame /\ OrderFrame
<1>1. ConsentFrame
  BY DEF InlineSettle, Step, Go, AfterOrder, TypeOK, WorkerTypes,
     ApprovalTypes, ConsentFrame, Cleared, Sending
<1>2. OrderFrame
  BY DEF InlineSettle, Step, Go, AfterOrder, TypeOK, WorkerTypes, RecordTypes,
     WriteTrade, OrderStatus, OrderFrame, Sending
<1> QED
  BY <1>1, <1>2

LEMMA FrameMarkUnknown ==
    ASSUME TypeOK, NEW w \in Worker, MarkUnknown(w)
    PROVE  ConsentFrame /\ OrderFrame
<1>1. ConsentFrame
  BY DEF MarkUnknown, Step, Go, TypeOK, WorkerTypes, ApprovalTypes,
     ConsentFrame, Cleared, Sending
<1>2. OrderFrame
  BY DEF MarkUnknown, Step, Go, TypeOK, WorkerTypes, RecordTypes, WriteTrade,
     OrderFrame, Sending
<1> QED
  BY <1>1, <1>2

LEMMA FrameOpenJob ==
    ASSUME TypeOK, NEW w \in Worker, OpenJob(w)
    PROVE  ConsentFrame /\ OrderFrame
<1>1. ConsentFrame
  BY DEF OpenJob, Step, Go, TypeOK, WorkerTypes, ApprovalTypes, ConsentFrame,
     Cleared, Sending
<1>2. OrderFrame
  BY DEF OpenJob, Step, Go, TypeOK, WorkerTypes, RecordTypes, OrderFrame,
     Sending
<1> QED
  BY <1>1, <1>2

LEMMA FrameResetFailures ==
    ASSUME TypeOK, NEW w \in Worker, ResetFailures(w)
    PROVE  ConsentFrame /\ OrderFrame
<1>1. ConsentFrame
  BY DEF ResetFailures, WriteBotStep, Step, Go, TypeOK, WorkerTypes,
     ApprovalTypes, ConsentFrame, Cleared, Sending
<1>2. OrderFrame
  BY DEF ResetFailures, WriteBotStep, Step, Go, TypeOK, WorkerTypes,
     RecordTypes, OrderFrame, Sending
<1> QED
  BY <1>1, <1>2

LEMMA FrameTripBreaker ==
    ASSUME TypeOK, NEW w \in Worker, TripBreaker(w)
    PROVE  ConsentFrame /\ OrderFrame
<1>1. ConsentFrame
  BY DEF TripBreaker, WriteBotStep, Step, Go, TypeOK, WorkerTypes,
     ApprovalTypes, ConsentFrame, Cleared, Sending
<1>2. OrderFrame
  BY DEF TripBreaker, WriteBotStep, Step, Go, TypeOK, WorkerTypes,
     RecordTypes, OrderFrame, Sending
<1> QED
  BY <1>1, <1>2

LEMMA FrameDisableBot ==
    ASSUME TypeOK, NEW w \in Worker, DisableBot(w)
    PROVE  ConsentFrame /\ OrderFrame
<1>1. ConsentFrame
  BY DEF DisableBot, WriteBotStep, Step, Go, TypeOK, WorkerTypes,
     ApprovalTypes, ConsentFrame, Cleared, Sending
<1>2. OrderFrame
  BY DEF DisableBot, WriteBotStep, Step, Go, TypeOK, WorkerTypes, RecordTypes,
     OrderFrame, Sending
<1> QED
  BY <1>1, <1>2

LEMMA FramePauseForAttention ==
    ASSUME TypeOK, NEW w \in Worker, PauseForAttention(w)
    PROVE  ConsentFrame /\ OrderFrame
<1>1. ConsentFrame
  BY DEF PauseForAttention, WriteBotStep, Step, Go, TypeOK, WorkerTypes,
     ApprovalTypes, ConsentFrame, Cleared, Sending
<1>2. OrderFrame
  BY DEF PauseForAttention, WriteBotStep, Step, Go, TypeOK, WorkerTypes,
     RecordTypes, OrderFrame, Sending
<1> QED
  BY <1>1, <1>2

LEMMA FrameDeadLetter ==
    ASSUME TypeOK, NEW w \in Worker, DeadLetter(w)
    PROVE  ConsentFrame /\ OrderFrame
<1>1. ConsentFrame
  BY DEF DeadLetter, Step, Go, TypeOK, WorkerTypes, ApprovalTypes,
     ConsentFrame, Cleared, Sending
<1>2. OrderFrame
  BY DEF DeadLetter, Step, Go, TypeOK, WorkerTypes, RecordTypes, OrderFrame,
     Sending
<1> QED
  BY <1>1, <1>2

LEMMA FrameRevokeCredential ==
    ASSUME TypeOK, NEW w \in Worker, RevokeCredential(w)
    PROVE  ConsentFrame /\ OrderFrame
<1>1. ConsentFrame
  BY DEF RevokeCredential, Step, Go, TypeOK, WorkerTypes, ApprovalTypes,
     ConsentFrame, Cleared, Sending
<1>2. OrderFrame
  BY DEF RevokeCredential, Step, Go, TypeOK, WorkerTypes, RecordTypes,
     OrderFrame, Sending
<1> QED
  BY <1>1, <1>2

LEMMA FrameScanPick ==
    ASSUME TypeOK, NEW w \in Worker, NEW s \in Signal, ScanPick(w, s)
    PROVE  ConsentFrame /\ OrderFrame
<1>1. ConsentFrame
  BY DEF ScanPick, TypeOK, WorkerTypes, ApprovalTypes, ConsentFrame, Cleared,
     Sending
<1>2. OrderFrame
  BY DEF ScanPick, TypeOK, WorkerTypes, RecordTypes, OrderFrame, Sending
<1> QED
  BY <1>1, <1>2

LEMMA FrameScanVerdict ==
    ASSUME TypeOK, NEW w \in Worker, ScanVerdict(w)
    PROVE  ConsentFrame /\ OrderFrame
<1>1. ConsentFrame
  BY DEF ScanVerdict, TypeOK, WorkerTypes, ApprovalTypes, ConsentFrame,
     Cleared, Sending
<1>2. OrderFrame
  BY DEF ScanVerdict, TypeOK, WorkerTypes, RecordTypes, OrderFrame, Sending
<1> QED
  BY <1>1, <1>2

LEMMA FrameScanInconclusive ==
    ASSUME TypeOK, NEW w \in Worker, ScanInconclusive(w)
    PROVE  ConsentFrame /\ OrderFrame
<1>1. ConsentFrame
  BY DEF ScanInconclusive, TypeOK, WorkerTypes, ApprovalTypes, ConsentFrame,
     Cleared, Sending
<1>2. OrderFrame
  BY DEF ScanInconclusive, TypeOK, WorkerTypes, RecordTypes, OrderFrame,
     Sending
<1> QED
  BY <1>1, <1>2

LEMMA FrameScanRefused ==
    ASSUME TypeOK, NEW w \in Worker, ScanRefused(w)
    PROVE  ConsentFrame /\ OrderFrame
<1>1. ConsentFrame
  BY DEF ScanRefused, TypeOK, WorkerTypes, ApprovalTypes, ConsentFrame,
     Cleared, Sending
<1>2. OrderFrame
  BY DEF ScanRefused, TypeOK, WorkerTypes, RecordTypes, OrderFrame, Sending
<1> QED
  BY <1>1, <1>2

LEMMA FrameScanFinalize ==
    ASSUME TypeOK, NEW w \in Worker, ScanFinalize(w)
    PROVE  ConsentFrame /\ OrderFrame
<1>1. ConsentFrame
  BY DEF ScanFinalize, TypeOK, WorkerTypes, ApprovalTypes, ConsentFrame,
     Cleared, Sending
<1>2. OrderFrame
  BY DEF ScanFinalize, TypeOK, WorkerTypes, RecordTypes, ScanTypes, Terminal,
     OrderFrame, Sending
<1> QED
  BY <1>1, <1>2

LEMMA FrameScanClose ==
    ASSUME TypeOK, NEW w \in Worker, ScanClose(w)
    PROVE  ConsentFrame /\ OrderFrame
<1>1. ConsentFrame
  BY DEF ScanClose, TypeOK, WorkerTypes, ApprovalTypes, ConsentFrame, Cleared,
     Sending
<1>2. OrderFrame
  BY DEF ScanClose, TypeOK, WorkerTypes, RecordTypes, OrderFrame, Sending
<1> QED
  BY <1>1, <1>2

LEMMA FrameCrash ==
    ASSUME TypeOK, NEW w \in Worker, Crash(w)
    PROVE  ConsentFrame /\ OrderFrame
<1>1. ConsentFrame
  BY DEF Crash, Drop, Go, TypeOK, WorkerTypes, ApprovalTypes, ConsentFrame,
     Cleared, Sending
<1>2. OrderFrame
  BY DEF Crash, Drop, Go, TypeOK, WorkerTypes, RecordTypes, OrderFrame,
     Sending
<1> QED
  BY <1>1, <1>2

LEMMA FrameAge ==
    ASSUME TypeOK, NEW s \in Signal, Age(s)
    PROVE  ConsentFrame /\ OrderFrame
<1>1. ConsentFrame
  BY DEF Age, TypeOK, WorkerTypes, ApprovalTypes, ConsentFrame, Cleared,
     Sending
<1>2. OrderFrame
  BY DEF Age, TypeOK, WorkerTypes, RecordTypes, OrderFrame, Sending
<1> QED
  BY <1>1, <1>2

LEMMA FrameExchangeMoves ==
    ASSUME TypeOK, NEW s \in Signal, ExchangeMoves(s)
    PROVE  ConsentFrame /\ OrderFrame
<1>1. ConsentFrame
  BY DEF ExchangeMoves, TypeOK, WorkerTypes, ApprovalTypes, ConsentFrame,
     Cleared, Sending
<1>2. OrderFrame
  BY DEF ExchangeMoves, TypeOK, WorkerTypes, RecordTypes, OrderFrame, Sending
<1> QED
  BY <1>1, <1>2

LEMMA FrameLapse ==
    ASSUME TypeOK, NEW s \in Signal, Lapse(s)
    PROVE  ConsentFrame /\ OrderFrame
<1>1. ConsentFrame
  BY DEF Lapse, Decide, TypeOK, WorkerTypes, ApprovalTypes, ConsentFrame,
     Cleared, Sending
<1>2. OrderFrame
  BY DEF Lapse, Decide, TypeOK, WorkerTypes, RecordTypes, OrderFrame, Sending
<1> QED
  BY <1>1, <1>2

LEMMA FrameExpireProposal ==
    ASSUME TypeOK, NEW s \in Signal, ExpireProposal(s)
    PROVE  ConsentFrame /\ OrderFrame
<1>1. ConsentFrame
  BY DEF ExpireProposal, Decide, TypeOK, WorkerTypes, ApprovalTypes,
     ConsentFrame, Cleared, Sending
<1>2. OrderFrame
  BY DEF ExpireProposal, Decide, TypeOK, WorkerTypes, RecordTypes, OrderFrame,
     Sending
<1> QED
  BY <1>1, <1>2

LEMMA FrameRejectOrder ==
    ASSUME TypeOK, NEW s \in Signal, RejectOrder(s)
    PROVE  ConsentFrame /\ OrderFrame
<1>1. ConsentFrame
  BY DEF RejectOrder, Decide, TypeOK, WorkerTypes, ApprovalTypes,
     ConsentFrame, Cleared, Sending
<1>2. OrderFrame
  BY DEF RejectOrder, Decide, TypeOK, WorkerTypes, RecordTypes, OrderFrame,
     Sending
<1> QED
  BY <1>1, <1>2

LEMMA FrameApproveOrder ==
    ASSUME TypeOK, NEW s \in Signal, ApproveOrder(s)
    PROVE  ConsentFrame /\ OrderFrame
<1>1. ConsentFrame
  BY DEF ApproveOrder, Decide, TypeOK, WorkerTypes, ApprovalTypes,
     ConsentFrame, Cleared, Sending
<1>2. OrderFrame
  BY DEF ApproveOrder, Decide, TypeOK, WorkerTypes, RecordTypes, OrderFrame,
     Sending
<1> QED
  BY <1>1, <1>2

LEMMA FrameSendApproved ==
    ASSUME TypeOK, NEW s \in Signal, SendApproved(s)
    PROVE  ConsentFrame /\ OrderFrame
<1>1. ConsentFrame
  BY DEF SendApproved, TypeOK, WorkerTypes, ApprovalTypes, QueueTypes,
     ConsentFrame, Cleared, Sending
<1>2. OrderFrame
  BY DEF SendApproved, TypeOK, WorkerTypes, RecordTypes, OrderFrame, Sending
<1> QED
  BY <1>1, <1>2

LEMMA FrameReappear ==
    ASSUME TypeOK, NEW m \in hidden, Reappear(m)
    PROVE  ConsentFrame /\ OrderFrame
<1>1. ConsentFrame
  BY DEF Reappear, TypeOK, WorkerTypes, ApprovalTypes, ConsentFrame, Cleared,
     Sending
<1>2. OrderFrame
  BY DEF Reappear, TypeOK, WorkerTypes, RecordTypes, OrderFrame, Sending
<1> QED
  BY <1>1, <1>2

LEMMA FramePauseBot ==
    ASSUME TypeOK, NEW b \in Bot, PauseBot(b)
    PROVE  ConsentFrame /\ OrderFrame
<1>1. ConsentFrame
  BY DEF PauseBot, TypeOK, WorkerTypes, ApprovalTypes, ConsentFrame, Cleared,
     Sending
<1>2. OrderFrame
  BY DEF PauseBot, TypeOK, WorkerTypes, RecordTypes, OrderFrame, Sending
<1> QED
  BY <1>1, <1>2

LEMMA FrameArmBot ==
    ASSUME TypeOK, NEW b \in Bot, NEW mode \in Modes, ArmBot(b, mode)
    PROVE  ConsentFrame /\ OrderFrame
<1>1. ConsentFrame
  BY DEF ArmBot, TypeOK, WorkerTypes, ApprovalTypes, ConsentFrame, Cleared,
     Sending
<1>2. OrderFrame
  BY DEF ArmBot, TypeOK, WorkerTypes, RecordTypes, OrderFrame, Sending
<1> QED
  BY <1>1, <1>2

\* Any step keeps consent, and is a reservation, an order, or neither.
LEMMA Frames ==
    ASSUME TypeOK, [Next]_vars
    PROVE  /\ ConsentFrame
           /\ OrderFrame \/ \E w \in Worker : Reserve(w) \/ CreateOrder(w)
<1>1. ASSUME NEW w \in Worker, WorkerStep(w)
      PROVE  ConsentFrame /\ (OrderFrame \/ Reserve(w) \/ CreateOrder(w))
  <2>1. CASE ProcessMessage(w)
    BY <2>1, FrameReadBot, FrameCheckDuplicate, FrameGuard,
       FrameCheckCredential, FrameReadMarket, FrameChooseMode, FrameReserve,
       FrameAuditCreated, FrameCreateOrder, FrameInlineLookup, FrameSettle,
       FrameInlineSettle, FrameMarkUnknown, FrameOpenJob, FrameResetFailures,
       FrameTripBreaker, FrameDisableBot, FramePauseForAttention,
       FrameDeadLetter, FrameRevokeCredential DEF ProcessMessage
  <2>2. CASE Resolver(w)
    BY <2>2, FrameScanPick, FrameScanVerdict, FrameScanInconclusive,
       FrameScanRefused, FrameScanFinalize, FrameScanClose DEF Resolver
  <2> QED
    BY <1>1, <2>1, <2>2, FrameBoot, FrameEndResolve, FrameReceive, FrameAck,
       FrameCrash DEF WorkerStep
<1>2. ASSUME NEW s \in Signal, SignalStep(s)
      PROVE  ConsentFrame /\ OrderFrame
  BY <1>2, FrameAge, FrameExchangeMoves, FrameLapse, FrameExpireProposal,
     FrameRejectOrder, FrameApproveOrder, FrameSendApproved DEF SignalStep
<1>3. CASE UNCHANGED vars
  BY <1>3 DEF vars, ConsentFrame, OrderFrame
<1> QED
  BY <1>1, <1>2, <1>3, FrameReappear, FramePauseBot, FrameArmBot DEF Next

-----------------------------------------------------------------------------
(* Orders are sent once, on a row of their own, with the owner's consent *)

\* A worker about to send has its signal's row, and past the gate its audit
\* row, and nothing was sent yet.
Audited(w) == pc[w] = "order" /\ AuditFailClosed => Sig(w) \in audited

Reserved ==
    \A w \in Worker : pc[w] \in Sending =>
        /\ trade[Sig(w)] \notin {"none", "simulated"}
        /\ placed[Sig(w)] = 0
        /\ Audited(w)

\* No two workers are about to send for one signal.
Exclusive ==
    \A v, w \in Worker :
        pc[v] \in Sending /\ pc[w] \in Sending /\ Sig(v) = Sig(w) => v = w

\* Every approved message, wherever it is, stands for an approved proposal.
Consented ==
    /\ \A m \in queue : m.approved => proposal[m.sig] = "approved"
    /\ \A s \in unsent : proposal[s] = "approved"
    /\ \A w \in Worker : msg[w] # NoMsg /\ msg[w].approved =>
                           proposal[Sig(w)] = "approved"
    /\ \A w \in Worker : pc[w] \in Cleared => msg[w].approved

OrderInv ==
    /\ TypeOK
    /\ AtMostOneOrder /\ OrderIsReserved /\ OrderIsApproved
    /\ Reserved /\ Exclusive /\ Consented

\* Consent is kept by every step.
LEMMA ConsentedStep ==
    ASSUME OrderInv, ConsentFrame, TypeOK'
    PROVE  Consented'
<1> USE DEF OrderInv, Consented, ConsentFrame
<1>1. \A m \in queue' : m.approved => proposal'[m.sig] = "approved"
  BY MessageFields DEF TypeOK, QueueTypes, ApprovalTypes
<1>2. \A s \in unsent' : proposal'[s] = "approved"
  BY DEF TypeOK, ApprovalTypes
<1>3. \A w \in Worker : msg'[w] # NoMsg /\ msg'[w].approved =>
                          proposal'[msg'[w].sig] = "approved"
  BY MessageFields DEF TypeOK, QueueTypes, WorkerTypes, Sig
<1>4. \A w \in Worker : pc'[w] \in Cleared => msg'[w].approved
  OBVIOUS
<1> QED
  BY <1>1, <1>2, <1>3, <1>4 DEF Sig

\* What is known of orders, without the consent to them.
Sends == AtMostOneOrder /\ OrderIsReserved /\ Reserved /\ Exclusive

\* A step that sends and reserves nothing keeps what is known of orders.
LEMMA FrameKeepsSends ==
    ASSUME OrderInv, OrderFrame
    PROVE  Sends'
<1> USE DEF OrderInv, OrderFrame
<1>1. AtMostOneOrder'
  BY DEF AtMostOneOrder
<1>2. OrderIsReserved'
  BY DEF OrderIsReserved
<1>3. ASSUME NEW w \in Worker, pc'[w] \in Sending
      PROVE  pc[w] \in Sending /\ Sig(w)' = Sig(w) /\ Sig(w) \in Signal
  BY <1>3, HeldMessage DEF Sig, TypeOK, Sending, Idle
<1>4. Reserved'
  BY <1>3 DEF Reserved, Audited
<1>5. Exclusive'
  BY <1>3 DEF Exclusive
<1> QED
  BY <1>1, <1>2, <1>4, <1>5 DEF Sends

\* So does a reservation: the signal had no row, so nobody is sending it.
LEMMA ReserveStep ==
    ASSUME OrderInv, NEW w \in Worker, Reserve(w)
    PROVE  Sends'
<1> DEFINE s == Sig(w)
<1>1. /\ s \in Signal /\ pc[w] = "reserve"
      /\ placed' = placed /\ audited' = audited
  BY HeldMessage DEF OrderInv, TypeOK, Reserve, Step, Idle
<1>2. CASE pc'[w] # "audit"
  <2>1. OrderFrame
    BY <1>1, <1>2 DEF OrderInv, TypeOK, WorkerTypes, RecordTypes, Reserve,
       OrderFrame, Step, Go, Drop, Sending, SignalTaken
  <2> QED
    BY <2>1, FrameKeepsSends
<1>3. CASE pc'[w] = "audit"
  <2>1. /\ trade[s] = "none" /\ trade' = [trade EXCEPT ![s] = "pending"]
        /\ pc' = [pc EXCEPT ![w] = "audit"] /\ msg' = msg
    BY <1>1, <1>3 DEF OrderInv, TypeOK, WorkerTypes, Reserve, Step, Go, Drop,
       SignalTaken
  <2>2. placed[s] = 0
    BY <1>1, <2>1 DEF OrderInv, OrderIsReserved, TypeOK, OrderTypes
  <2>3. ASSUME NEW v \in Worker, v # w, pc'[v] \in Sending
        PROVE  /\ pc[v] \in Sending /\ Sig(v)' = Sig(v)
               /\ Sig(v) \in Signal /\ Sig(v) # s
    <3>1. pc[v] \in Sending /\ Sig(v)' = Sig(v)
      BY <2>1, <2>3 DEF Sig, OrderInv, TypeOK, WorkerTypes
    <3>2. Sig(v) \in Signal
      BY <3>1, HeldMessage DEF Sending, Idle, OrderInv, TypeOK
    <3> QED
      BY <2>1, <3>1, <3>2 DEF OrderInv, Reserved
  <2>4. Sig(w)' = s
    BY <2>1 DEF Sig
  <2>5. AtMostOneOrder' /\ OrderIsReserved'
    BY <1>1, <2>1 DEF OrderInv, AtMostOneOrder, OrderIsReserved, TypeOK,
       RecordTypes
  <2>6. Reserved'
    <3> SUFFICES ASSUME NEW v \in Worker, pc'[v] \in Sending
                 PROVE  /\ trade'[Sig(v)'] \notin {"none", "simulated"}
                        /\ placed'[Sig(v)'] = 0
                        /\ Audited(v)'
      BY DEF Reserved
    <3>1. CASE v = w
      BY <1>1, <2>1, <2>2, <2>4, <3>1
      DEF OrderInv, TypeOK, RecordTypes, WorkerTypes, Audited
    <3>2. CASE v # w
      BY <1>1, <2>1, <2>3, <3>2
      DEF OrderInv, Reserved, TypeOK, RecordTypes, WorkerTypes, Audited, Reserve
    <3> QED
      BY <3>1, <3>2
  <2>7. Exclusive'
    BY <2>3, <2>4 DEF OrderInv, Exclusive
  <2> QED
    BY <2>5, <2>6, <2>7 DEF Sends
<1> QED
  BY <1>2, <1>3

\* So does sending an order: nothing was sent before, and nobody else is to.
LEMMA CreateOrderStep ==
    ASSUME OrderInv, NEW w \in Worker, CreateOrder(w)
    PROVE  Sends'
<1> DEFINE s == Sig(w)
<1>1. s \in Signal /\ pc[w] \in Sending
  BY HeldMessage DEF OrderInv, TypeOK, CreateOrder, Idle, Sending
<1>2. /\ placed' = [placed EXCEPT ![s] = @ + 1]
      /\ trade' = trade /\ msg' = msg /\ audited' = audited /\ pc[w] = "order"
      /\ pc' = [pc EXCEPT ![w] = "settle"] \/ pc' = [pc EXCEPT ![w] = "lookup"]
  BY DEF CreateOrder, Go
<1>3. /\ placed[s] = 0 /\ trade[s] \notin {"none", "simulated"}
      /\ AuditFailClosed => s \in audited
  BY <1>1, <1>2 DEF OrderInv, Reserved, Audited
<1>4. AtMostOneOrder' /\ OrderIsReserved'
  BY <1>1, <1>2, <1>3 DEF OrderInv, AtMostOneOrder, OrderIsReserved, TypeOK,
     OrderTypes
<1>5. ASSUME NEW v \in Worker, pc'[v] \in Sending
      PROVE  /\ pc[v] \in Sending /\ Sig(v)' = Sig(v)
             /\ Sig(v) \in Signal /\ Sig(v) # s
  <2>1. v # w /\ pc[v] \in Sending
    BY <1>2, <1>5 DEF Sending, OrderInv, TypeOK, WorkerTypes
  <2>2. Sig(v) \in Signal /\ Sig(v)' = Sig(v)
    BY <1>2, <2>1, HeldMessage DEF Sig, Sending, Idle, OrderInv, TypeOK
  <2> QED
    BY <1>1, <2>1, <2>2 DEF OrderInv, Exclusive
<1>6. Reserved'
  BY <1>2, <1>5 DEF OrderInv, Reserved, Audited, TypeOK, OrderTypes, WorkerTypes
<1>7. Exclusive'
  BY <1>5 DEF OrderInv, Exclusive
<1> QED
  BY <1>4, <1>6, <1>7 DEF Sends

\* What is sent was carried by an approved message.
LEMMA ApprovedStep ==
    ASSUME OrderInv, ConsentFrame, TypeOK',
           \/ placed' = placed
           \/ \E w \in Worker : CreateOrder(w)
    PROVE  OrderIsApproved'
<1>1. CASE placed' = placed
  BY <1>1 DEF OrderInv, ConsentFrame, OrderIsApproved
<1>2. ASSUME NEW w \in Worker, CreateOrder(w)
      PROVE  OrderIsApproved'
  <2>1. pc[w] \in Cleared /\ Sig(w) \in Signal /\ msg[w] # NoMsg
    BY <1>2, HeldMessage, ConstantsOK
    DEF CreateOrder, Cleared, Sending, Idle, OrderInv, TypeOK
  <2>2. proposal[Sig(w)] = "approved"
    BY <2>1 DEF OrderInv, Consented
  <2>3. placed' = [placed EXCEPT ![Sig(w)] = @ + 1]
    BY <1>2 DEF CreateOrder
  <2> QED
    BY <2>1, <2>2, <2>3
    DEF OrderInv, ConsentFrame, OrderIsApproved, TypeOK, OrderTypes
<1> QED
  BY <1>1, <1>2

\* The invariant is inductive.
LEMMA OrderInvStep ==
    ASSUME OrderInv, [Next]_vars
    PROVE  OrderInv'
<1>1. TypeOK'
  BY TypesStep DEF OrderInv
<1>2. /\ ConsentFrame
      /\ OrderFrame \/ \E w \in Worker : Reserve(w) \/ CreateOrder(w)
  BY Frames DEF OrderInv
<1>3. Consented'
  BY <1>1, <1>2, ConsentedStep
<1>4. Sends'
  BY <1>2, FrameKeepsSends, ReserveStep, CreateOrderStep
<1>5. placed' = placed \/ \E w \in Worker : CreateOrder(w)
  BY <1>2 DEF OrderFrame, Reserve
<1>6. OrderIsApproved'
  BY <1>1, <1>2, <1>5, ApprovedStep
<1> QED
  BY <1>1, <1>3, <1>4, <1>6 DEF OrderInv, Sends

\* The invariant that the three theorems below rest on.
THEOREM OrderInvariant == Spec => []OrderInv
<1>1. Init => OrderInv
  <2> SUFFICES ASSUME Init PROVE OrderInv
    OBVIOUS
  <2>1. TypeOK
    BY InitTypes
  <2>2. AtMostOneOrder /\ OrderIsReserved /\ OrderIsApproved
    BY DEF Init, AtMostOneOrder, OrderIsReserved, OrderIsApproved
  <2>3. Reserved /\ Exclusive
    BY DEF Init, Reserved, Exclusive, Sending
  <2>4. Consented
    BY DEF Init, Consented, Cleared, Sending
  <2> QED
    BY <2>1, <2>2, <2>3, <2>4 DEF OrderInv
<1> QED
  BY <1>1, OrderInvStep, PTL DEF Spec

\* However many workers there are, however often a message is delivered, and
\* wherever they crash, a signal's order is sent at most once.
THEOREM OneOrderPerSignal == Spec => []AtMostOneOrder
  BY OrderInvariant, PTL DEF OrderInv

\* An order is never without its row, and never shares it with a simulated
\* fill, even while the owner changes the bot's mode.
THEOREM EveryOrderReserved == Spec => []OrderIsReserved
  BY OrderInvariant, PTL DEF OrderInv

\* No order reaches the exchange without the owner's approval of its proposal.
THEOREM EveryOrderApproved == Spec => []OrderIsApproved
  BY OrderInvariant, PTL DEF OrderInv
=============================================================================
