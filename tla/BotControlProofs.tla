-------------------------- MODULE BotControlProofs --------------------------
(***************************************************************************)
(* Theorems about BotControl, for any bots, requests and workers and any   *)
(* bounds.                                                                 *)
(***************************************************************************)
EXTENDS BotControl, TLAPS

USE DEF worldVars, queueVars, credVars, ConnectUnchanged, CheckUnchanged,
        TradeUnchanged, ArmUnchanged, OpUnchanged

Statuses == {"none", "pending_validation", "valid", "invalid"}
CheckRec == [at : {"poll", "gates", "fetch", "write", "disarm", "ack"},
             req : Req \cup {NoReq}, verdict : {"none", "valid", "invalid"}]

-----------------------------------------------------------------------------
(* What the helpers write, typed *)

LEMMA BotTyped ==
    ASSUME NEW bot \in BotRow
    PROVE  /\ \A status \in {"pending_setup", "active", "paused", "error"} :
                /\ [bot EXCEPT !.status = status] \in BotRow
                /\ \A on \in BOOLEAN :
                     /\ [bot EXCEPT !.enabled = on, !.status = status] \in BotRow
                     /\ [bot EXCEPT !.locked = on] \in BotRow
           /\ \A c \in Cred : [bot EXCEPT !.cred = c] \in BotRow
           /\ Stopped(bot) \in BotRow
  BY DEF BotRow, Stopped

LEMMA UpdateBotTyped ==
    ASSUME BotTypes, BoundTypes, NEW b \in Bot, NEW bot \in BotRow,
           UpdateBot(b, bot)
    PROVE  BotTypes' /\ faults' \in Nat
  BY DEF BotTypes, BoundTypes, UpdateBot, Fault

LEMMA MarkedTyped ==
    ASSUME row \in [Cred -> Statuses], NEW c \in Cred, NEW status \in Statuses
    PROVE  Marked(c, status) \in [Cred -> Statuses]
  BY DEF Marked

LEMMA AboutTyped ==
    ASSUME CheckTypes, NEW w \in Worker, check[w].at # "poll"
    PROVE  check[w].req \in Req /\ About(w) \in Cred
  BY DEF CheckTypes, About

LEMMA CheckMovesTyped ==
    ASSUME CheckTypes, NEW w \in Worker, check[w].at # "poll", UNCHANGED about,
           NEW at \in {"gates", "fetch", "write", "disarm", "ack"},
           NEW verdict \in {"none", "valid", "invalid"}
    PROVE  /\ check' = [check EXCEPT ![w].at = at] => CheckTypes'
           /\ check' = [check EXCEPT ![w].at = at, ![w].verdict = verdict] => CheckTypes'
           /\ check' = [check EXCEPT ![w] = IdleCheck] => CheckTypes'
<1>1. check[w] \in CheckRec
  BY DEF CheckTypes, CheckRec
<1>2. ASSUME check' = [check EXCEPT ![w].at = at] PROVE CheckTypes'
  BY <1>1, <1>2 DEF CheckTypes, CheckRec
<1>3. ASSUME check' = [check EXCEPT ![w].at = at, ![w].verdict = verdict]
      PROVE  CheckTypes'
  BY <1>1, <1>3 DEF CheckTypes, CheckRec
<1>4. ASSUME check' = [check EXCEPT ![w] = IdleCheck] PROVE CheckTypes'
  BY <1>1, <1>4 DEF CheckTypes, CheckRec, IdleCheck
<1> QED
  BY <1>2, <1>3, <1>4

LEMMA RetryTyped ==
    ASSUME CheckTypes, NEW w \in Worker, check[w].at # "poll", UNCHANGED about,
           NEW from, RetryOrGiveUp(w, from)
    PROVE  CheckTypes'
<1>1. \/ check' = [check EXCEPT ![w].at = "ack"]
      \/ check' = [check EXCEPT ![w] = IdleCheck]
  BY DEF RetryOrGiveUp, CheckTypes
<1> QED
  BY <1>1, CheckMovesTyped

LEMMA TradesTyped ==
    ASSUME TradeTypes, NEW w \in Worker, trade[w].at # "idle",
           NEW from, NEW to \in {"use", "revoke", "disable", "pause"},
           Trades(w, from, to) \/ TradeEnds(w, from)
    PROVE  TradeTypes'
<1>1. CASE Trades(w, from, to)
  BY <1>1 DEF Trades, TradeTypes
<1>2. CASE TradeEnds(w, from)
  BY <1>2 DEF TradeEnds, TradeTypes, IdleTrade
<1> QED
  BY <1>1, <1>2

-----------------------------------------------------------------------------
(* What each process leaves alone keeps its type *)

LEMMA ConnectFrame ==
    ASSUME TypeOK, UNCHANGED ConnectUnchanged, BotTypes',
           row' \in [Cred -> Statuses], vault' \subseteq Cred,
           conn' \in [Cred -> ConnectSteps], faults' \in Nat
    PROVE  TypeOK'
  BY DEF TypeOK, CredTypes, QueueTypes, CheckTypes, TradeTypes, ArmTypes,
     BoundTypes, Statuses

LEMMA CheckFrame ==
    ASSUME TypeOK, UNCHANGED CheckUnchanged, BotTypes',
           row' \in [Cred -> Statuses], queue' \subseteq queue,
           hidden' \subseteq queue', reads' \in [Req -> Nat], CheckTypes',
           accepted' \subseteq Cred, faults' \in Nat
    PROVE  TypeOK'
  BY DEF TypeOK, CredTypes, QueueTypes, TradeTypes, ArmTypes, BoundTypes, Statuses

LEMMA TradeFrame ==
    ASSUME TypeOK, UNCHANGED TradeUnchanged, BotTypes',
           row' \in [Cred -> Statuses], TradeTypes', faults' \in Nat
    PROVE  TypeOK'
  BY DEF TypeOK, CredTypes, QueueTypes, CheckTypes, ArmTypes, BoundTypes, Statuses

LEMMA ArmFrame ==
    ASSUME TypeOK, UNCHANGED ArmUnchanged, BotTypes', ArmTypes', faults' \in Nat
    PROVE  TypeOK'
  BY DEF TypeOK, CredTypes, QueueTypes, CheckTypes, TradeTypes, BoundTypes

LEMMA OpFrame ==
    ASSUME TypeOK, UNCHANGED OpUnchanged, Op, BotTypes', venueOpen' \in BOOLEAN,
           key' \in [Cred -> {"good", "fenced", "dead"}]
    PROVE  TypeOK'
  BY DEF TypeOK, CredTypes, QueueTypes, CheckTypes, TradeTypes, ArmTypes,
     BoundTypes, Op

-----------------------------------------------------------------------------
(* One lemma per process: its steps keep every variable in its type *)

LEMMA TypesConnect ==
    ASSUME TypeOK, NEW c \in Cred, ConnectStep(c)
    PROVE  TypeOK'
<1>1. CASE \E from, to \in ConnectSteps : Connect(c, from, to)
  <2>1. conn' \in [Cred -> ConnectSteps]
    BY <1>1 DEF Connect, TypeOK, CredTypes
  <2>2. UNCHANGED ConnectUnchanged /\ faults' \in Nat
    BY DEF ConnectStep, ConnectBegin, StoreSecret, InsertCredential, LinkBot,
       DeleteCredential, DeleteSecret, ConnectDies, Fault, TypeOK, BoundTypes
  <2>3. vault' \subseteq Cred
    BY DEF ConnectStep, ConnectBegin, StoreSecret, InsertCredential, LinkBot,
       DeleteCredential, DeleteSecret, ConnectDies, TypeOK, CredTypes
  <2>4. row' \in [Cred -> Statuses]
    BY DEF ConnectStep, ConnectBegin, StoreSecret, InsertCredential, LinkBot,
       DeleteCredential, DeleteSecret, ConnectDies, TypeOK, CredTypes, Statuses
  <2>5. BotTypes'
    <3>1. bots' = bots \/ bots' = [bots EXCEPT ![BotOf[c]].cred = c]
      BY DEF ConnectStep, ConnectBegin, StoreSecret, InsertCredential, LinkBot,
         DeleteCredential, DeleteSecret, ConnectDies
    <3>2. BotOf[c] \in Bot /\ bots \in [Bot -> BotRow]
      BY ConstantsOK DEF TypeOK, BotTypes
    <3>3. [bots[BotOf[c]] EXCEPT !.cred = c] \in BotRow
      BY <3>2, BotTyped
    <3> QED
      BY <3>1, <3>2, <3>3 DEF BotTypes
  <2> QED
    BY <2>1, <2>2, <2>3, <2>4, <2>5, ConnectFrame
<1>2. \E from, to \in ConnectSteps : Connect(c, from, to)
  BY DEF ConnectStep, ConnectBegin, StoreSecret, InsertCredential, LinkBot,
     DeleteCredential, DeleteSecret, ConnectDies, Connect, ConnectSteps,
     TypeOK, CredTypes
<1> QED
  BY <1>1, <1>2

LEMMA TypesRequest ==
    ASSUME TypeOK, NEW r \in Req, NEW b \in Bot, RequestValidation(r, b)
    PROVE  TypeOK'
<1>1. bots[b].cred \in Cred
  BY DEF RequestValidation, TypeOK, BotTypes, BotRow
<1>2. QueueTypes'
  BY <1>1 DEF RequestValidation, TypeOK, QueueTypes
<1>3. CheckTypes'
  BY <1>1 DEF RequestValidation, TypeOK, CheckTypes, QueueTypes
<1> QED
  BY <1>2, <1>3 DEF RequestValidation, TypeOK, BotTypes, CredTypes, TradeTypes,
     ArmTypes, BoundTypes

LEMMA TypesReappear ==
    ASSUME TypeOK, NEW r \in Req, Reappear(r)
    PROVE  TypeOK'
  BY DEF Reappear, TypeOK, BotTypes, CredTypes, QueueTypes, CheckTypes,
     TradeTypes, ArmTypes, BoundTypes

LEMMA TypesRead ==
    ASSUME TypeOK, NEW w \in Worker, NEW r \in Req, ReadRequest(w, r)
    PROVE  TypeOK'
<1>1. CheckTypes'
  BY DEF ReadRequest, TypeOK, CheckTypes, QueueTypes
<1>2. reads' \in [Req -> Nat] /\ hidden' \subseteq queue'
  BY DEF ReadRequest, TypeOK, QueueTypes
<1> QED
  BY <1>1, <1>2, CheckFrame
  DEF ReadRequest, TypeOK, BotTypes, CredTypes, Statuses, BoundTypes

LEMMA TypesCheck ==
    ASSUME TypeOK, NEW w \in Worker, HandleValidate(w)
    PROVE  TypeOK'
<1>1. CASE CheckGates(w)
  <2>1. CheckTypes'
    BY <1>1, RetryTyped, CheckMovesTyped DEF CheckGates, Checks, RetryOrGiveUp, TypeOK
  <2> QED
    BY <1>1, <2>1, CheckFrame DEF CheckGates, Fault, TypeOK, BotTypes, CredTypes,
       QueueTypes, BoundTypes, Statuses
<1>2. CASE FetchBalance(w)
  <2>1. CheckTypes' /\ About(w) \in Cred
    BY <1>2, RetryTyped, CheckMovesTyped, AboutTyped
    DEF FetchBalance, Verdict, RetryOrGiveUp, TypeOK
  <2> QED
    BY <1>2, <2>1, CheckFrame DEF FetchBalance, Fault, TypeOK, BotTypes,
       CredTypes, QueueTypes, BoundTypes, Statuses
<1>3. CASE SetStatus(w)
  <2>1. CheckTypes' /\ About(w) \in Cred
    BY <1>3, RetryTyped, CheckMovesTyped, AboutTyped
    DEF SetStatus, Checks, AfterWrite, RetryOrGiveUp, TypeOK
  <2>2. check[w].verdict \in Statuses
    BY DEF TypeOK, CheckTypes, Statuses
  <2>3. row' \in [Cred -> Statuses]
    BY <1>3, <2>1, <2>2, MarkedTyped DEF SetStatus, TypeOK, CredTypes, Statuses
  <2> QED
    BY <1>3, <2>1, <2>3, CheckFrame DEF SetStatus, Fault, TypeOK, BotTypes,
       CredTypes, QueueTypes, BoundTypes
<1>4. CASE DisarmBots(w)
  <2>1. CheckTypes'
    BY <1>4, CheckMovesTyped DEF DisarmBots, Checks, TypeOK
  <2>2. \A b \in Bot : bots[b] \in BotRow /\ Stopped(bots[b]) \in BotRow
    BY BotTyped DEF TypeOK, BotTypes
  <2>3. BotTypes'
    BY <1>4, <2>2 DEF DisarmBots, TypeOK, BotTypes
  <2> QED
    BY <1>4, <2>1, <2>3, CheckFrame DEF DisarmBots, Fault, TypeOK,
       CredTypes, QueueTypes, BoundTypes, Statuses
<1>5. CASE AckRequest(w)
  <2>1. CheckTypes'
    BY <1>5, CheckMovesTyped DEF AckRequest, TypeOK
  <2> QED
    BY <1>5, <2>1, CheckFrame DEF AckRequest, Fault, TypeOK, BotTypes,
       CredTypes, QueueTypes, BoundTypes, Statuses
<1> QED
  BY <1>1, <1>2, <1>3, <1>4, <1>5 DEF HandleValidate

LEMMA TypesTrade ==
    ASSUME TypeOK, NEW w \in Worker, TradeStep(w)
    PROVE  TypeOK'
<1>1. ASSUME NEW b \in Bot, ReadBot(w, b) PROVE TypeOK'
  <2>1. bots[b].cred \in Cred /\ bots[b].enabled \in BOOLEAN
    BY <1>1 DEF ReadBot, TypeOK, BotTypes, BotRow
  <2>2. TradeTypes'
    BY <1>1, <2>1 DEF ReadBot, TypeOK, TradeTypes
  <2> QED
    BY <1>1, <2>2, TradeFrame DEF ReadBot, TypeOK, BotTypes, CredTypes,
       BoundTypes, Statuses
<1>2. ASSUME trade[w].at # "idle"
      PROVE  /\ TradeBot(w) \in Bot /\ trade[w].cred \in Cred
             /\ [bots[TradeBot(w)] EXCEPT !.status = "error"] \in BotRow
             /\ Stopped(bots[TradeBot(w)]) \in BotRow
  <2>1. trade[w].cred \in Cred
    BY <1>2 DEF TypeOK, TradeTypes
  <2>2. TradeBot(w) \in Bot /\ bots[TradeBot(w)] \in BotRow
    BY <2>1, ConstantsOK DEF TradeBot, TypeOK, BotTypes
  <2> QED
    BY <2>1, <2>2, BotTyped
<1>3. CASE ReadCredential(w)
  <2>1. trade[w].at # "idle"
    BY <1>3 DEF ReadCredential, Trades, TradeEnds
  <2>2. TradeTypes'
    BY <1>3, <2>1, TradesTyped DEF ReadCredential, TypeOK
  <2>3. BotTypes' /\ faults' \in Nat
    BY <1>2, <1>3, <2>1, UpdateBotTyped DEF ReadCredential, TypeOK, BotTypes, BoundTypes
  <2> QED
    BY <1>3, <2>2, <2>3, TradeFrame DEF ReadCredential, TypeOK, CredTypes, Statuses
<1>4. CASE UseKey(w)
  <2>1. TradeTypes'
    BY <1>4, TradesTyped DEF UseKey, Trades, TradeEnds, TypeOK
  <2> QED
    BY <1>4, <2>1, TradeFrame DEF UseKey, TypeOK, BotTypes, CredTypes,
       BoundTypes, Statuses
<1>5. CASE RevokeCredential(w)
  <2>1. trade[w].at # "idle"
    BY <1>5 DEF RevokeCredential, Trades
  <2>2. TradeTypes'
    BY <1>5, <2>1, TradesTyped DEF RevokeCredential, TypeOK
  <2>3. row' \in [Cred -> Statuses]
    BY <1>2, <1>5, <2>1, MarkedTyped DEF RevokeCredential, TypeOK, CredTypes, Statuses
  <2> QED
    BY <1>5, <2>2, <2>3, TradeFrame DEF RevokeCredential, Fault, TypeOK,
       BotTypes, BoundTypes
<1>6. CASE DisableBot(w) \/ PauseForAttention(w)
  <2>1. trade[w].at # "idle"
    BY <1>6 DEF DisableBot, PauseForAttention, TradeEnds
  <2>2. TradeTypes'
    BY <1>6, <2>1, TradesTyped DEF DisableBot, PauseForAttention, TypeOK
  <2>3. BotTypes' /\ faults' \in Nat
    BY <1>2, <1>6, <2>1, UpdateBotTyped DEF DisableBot, PauseForAttention, TypeOK
  <2> QED
    BY <1>6, <2>2, <2>3, TradeFrame
    DEF DisableBot, PauseForAttention, TypeOK, CredTypes, Statuses
<1> QED
  BY <1>1, <1>3, <1>4, <1>5, <1>6 DEF TradeStep

LEMMA TypesCrash ==
    ASSUME TypeOK, NEW w \in Worker, Crash(w)
    PROVE  TypeOK'
<1>1. CheckTypes'
  BY DEF Crash, IdleCheck, TypeOK, CheckTypes
<1>2. TradeTypes'
  BY DEF Crash, IdleTrade, TypeOK, TradeTypes
<1> QED
  BY <1>1, <1>2 DEF Crash, Fault, TypeOK, BotTypes, CredTypes, QueueTypes,
     ArmTypes, BoundTypes

LEMMA TypesArm ==
    ASSUME TypeOK, NEW a \in Arm, ArmStep(a)
    PROVE  TypeOK'
<1>1. ASSUME NEW b \in Bot, ArmBegin(a, b) PROVE TypeOK'
  <2>1. bots[b].cred \in Cred
    BY <1>1 DEF ArmBegin, TypeOK, BotTypes, BotRow
  <2>2. ArmTypes'
    BY <1>1, <2>1 DEF ArmBegin, TypeOK, ArmTypes
  <2> QED
    BY <1>1, <2>2, ArmFrame DEF ArmBegin, TypeOK, BotTypes, BoundTypes
<1>2. CASE ArmCheck(a)
  <2>1. ArmTypes'
    BY <1>2 DEF ArmCheck, TypeOK, ArmTypes
  <2> QED
    BY <1>2, <2>1, ArmFrame DEF ArmCheck, TypeOK, BotTypes, BoundTypes
<1>3. CASE ArmWrite(a)
  <2>1. ArmTypes'
    BY <1>3 DEF ArmWrite, TypeOK, ArmTypes
  <2> DEFINE b == BotOf[arming[a].cred]
  <2>2. b \in Bot /\ bots[b] \in BotRow
    BY <1>3, ConstantsOK DEF ArmWrite, TypeOK, ArmTypes, BotTypes
  <2>3. [bots[b] EXCEPT !.enabled = TRUE, !.status = "active"] \in BotRow
    BY <2>2, BotTyped
  <2>4. UpdateBot(b, [bots[b] EXCEPT !.enabled = TRUE, !.status = "active"])
    BY <1>3 DEF ArmWrite
  <2>5. BotTypes' /\ faults' \in Nat
    BY <2>2, <2>3, <2>4, UpdateBotTyped DEF TypeOK
  <2> QED
    BY <1>3, <2>1, <2>5, ArmFrame DEF ArmWrite
<1> QED
  BY <1>1, <1>2, <1>3 DEF ArmStep

LEMMA TypesOps ==
    ASSUME TypeOK,
           \/ \E c \in Cred : ChangeKey(c)
           \/ \E b \in Bot : BotOp(b)
           \/ \E hard \in BOOLEAN : KillAll(hard)
           \/ SwitchVenue
    PROVE  TypeOK'
<1>1. \A b \in Bot : bots[b] \in BotRow
  BY DEF TypeOK, BotTypes
<1>2. ASSUME NEW c \in Cred, ChangeKey(c) PROVE TypeOK'
  BY <1>2, OpFrame DEF ChangeKey, TypeOK, BotTypes, CredTypes
<1>3. ASSUME NEW b \in Bot, PauseBot(b) PROVE TypeOK'
  <2>1. BotTypes'
    BY <1>1, <1>3, BotTyped DEF PauseBot, TypeOK, BotTypes
  <2> QED
    BY <1>3, <2>1, OpFrame DEF PauseBot, TypeOK, CredTypes
<1>4. ASSUME NEW b \in Bot, NEW locked \in BOOLEAN, SetLock(b, locked)
      PROVE  TypeOK'
  <2>1. [bots[b] EXCEPT !.locked = locked] \in BotRow
    BY <1>1, BotTyped
  <2>2. BotTypes'
    BY <1>4, <2>1 DEF SetLock, TypeOK, BotTypes
  <2> QED
    BY <1>4, <2>2, OpFrame DEF SetLock, TypeOK, CredTypes
<1>5. ASSUME NEW hard \in BOOLEAN, KillAll(hard) PROVE TypeOK'
  <2>1. BotTypes'
    BY <1>1, <1>5 DEF KillAll, TypeOK, BotTypes, BotRow
  <2> QED
    BY <1>5, <2>1, OpFrame DEF KillAll, TypeOK, CredTypes
<1>6. CASE SwitchVenue
  BY <1>6, OpFrame DEF SwitchVenue, TypeOK, BotTypes, CredTypes
<1> QED
  BY <1>2, <1>3, <1>4, <1>5, <1>6 DEF BotOp

LEMMA TypesStep == TypeOK /\ [Next]_vars => TypeOK'
<1> SUFFICES ASSUME TypeOK, [Next]_vars PROVE TypeOK'
  OBVIOUS
<1>1. CASE UNCHANGED vars
  BY <1>1 DEF vars, TypeOK, BotTypes, CredTypes, QueueTypes, CheckTypes,
     TradeTypes, ArmTypes, BoundTypes
<1>2. CASE Next
  BY <1>2, TypesConnect, TypesRequest, TypesReappear, TypesRead, TypesCheck,
     TypesTrade, TypesCrash, TypesArm, TypesOps DEF Next
<1> QED
  BY <1>1, <1>2

LEMMA InitTypes == Init => TypeOK
  BY DEF Init, TypeOK, BotTypes, BotRow, CredTypes, ConnectSteps, QueueTypes,
     CheckTypes, IdleCheck, TradeTypes, IdleTrade, ArmTypes, NewArm, BoundTypes

\* Every variable stays in its type, and a message, a validation, a trade or an
\* arm that is under way has its credential at hand.
THEOREM TypeCorrect == Spec => []TypeOK
  BY InitTypes, TypesStep, PTL DEF Spec

-----------------------------------------------------------------------------
(* The inductive invariant *)

\* The request has not come to its row yet: nobody knows the credential.
Early(c) == conn[c] \in {"new", "store"}

\* A bot's credential is one that was asked for it and stored.
Linked ==
    \A b \in Bot : bots[b].cred # NoCred =>
      BotOf[bots[b].cred] = b /\ ~Early(bots[b].cred)

\* So is the credential of a message or of a signal under way.
Known ==
    /\ \A r \in Req : about[r] \in Cred => ~Early(about[r])
    /\ \A w \in Worker : trade[w].at # "idle" => ~Early(trade[w].cred)

\* A credential that is not stored has no row.
RowIsLate == \A c \in Cred : Early(c) => row[c] = "none"

\* A verdict that is about to be written is true.
VerdictIsTrue ==
    /\ \A w \in Worker : check[w].at = "write" =>
         /\ check[w].verdict = "valid" => About(w) \in accepted
         /\ check[w].verdict = "invalid" => Refused(About(w))
    /\ \A w \in Worker : trade[w].at = "revoke" => Refused(trade[w].cred)

ValidIsProven == \A c \in Cred : row[c] = "valid" => c \in accepted

\* An arm request is about its bot's credential, found valid before it arms.
ArmIsProven ==
    \A a \in Arm : arming[a].at \in {"cred", "write"} =>
      /\ bots[BotOf[arming[a].cred]].cred = arming[a].cred
      /\ arming[a].at = "write" => arming[a].cred \in accepted

ControlInvariant ==
    /\ TypeOK /\ Linked /\ Known /\ RowIsLate /\ VerdictIsTrue
    /\ ValidIsProven /\ ArmIsProven /\ InvalidIsDeserved /\ ArmedWasProven

-----------------------------------------------------------------------------
(* What a step can do to each table *)

EarlyNext(c)   == conn'[c] \in {"new", "store"}
RefusedNext(c) == c \notin vault' \/ key'[c] = "dead"

\* A bot is given a credential once, and enabled by an arm request only.
BotsStep ==
    \A b \in Bot :
      /\ \/ bots'[b].cred = bots[b].cred
         \/ \E c \in Cred : /\ BotOf[c] = b /\ conn[c] = "link"
                            /\ bots[b].cred = NoCred /\ bots'[b].cred = c
      /\ bots'[b].enabled =>
           \/ bots[b].enabled
           \/ \E a \in Arm : /\ arming[a].at = "write"
                             /\ BotOf[arming[a].cred] = b

\* A credential is stored once, a key that is refused stays so, a proof stands.
CredsStep ==
    /\ \A c \in Cred : /\ ~Early(c) => ~EarlyNext(c)
                       /\ conn[c] = "link" => ~Early(c)
                       /\ ~Early(c) /\ Refused(c) => RefusedNext(c)
    /\ accepted \subseteq accepted'

\* A row is inserted pending, deleted, or given a verdict.
RowStep ==
    \A c \in Cred :
      \/ row'[c] = row[c]
      \/ row'[c] = "none"
      \/ row'[c] = "pending_validation" /\ ~EarlyNext(c)
      \/ /\ row[c] # "none"
         /\ \/ \E w \in Worker : /\ check[w].at = "write" /\ About(w) = c
                                 /\ row'[c] = check[w].verdict
            \/ \E w \in Worker : /\ trade[w].at = "revoke" /\ trade[w].cred = c
                                 /\ row'[c] = "invalid"

\* A message is about a credential that a bot had.
AboutStep ==
    \A r \in Req :
      \/ about'[r] = about[r]
      \/ about[r] = NoCred /\ \E b \in Bot : about'[r] = bots[b].cred

\* A verdict is what the signed call came to.
CheckStep ==
    \A w \in Worker : check'[w].at = "write" =>
      \/ check'[w] = check[w]
      \/ /\ check[w].at # "poll"
         /\ check'[w].req = check[w].req
         /\ check'[w].verdict = "valid" => About(w) \in accepted'
         /\ check'[w].verdict = "invalid" => Refused(About(w))

\* A signal is under way with its bot's credential until it ends.
TradesStep ==
    \A w \in Worker : trade'[w].at # "idle" =>
      \/ trade'[w] = trade[w]
      \/ /\ trade[w].at # "idle"
         /\ trade'[w].cred = trade[w].cred
         /\ trade'[w].at = "revoke" => Refused(trade[w].cred)
      \/ /\ trade'[w].at = "cred"
         /\ \E b \in Bot : /\ bots[b].cred # NoCred
                           /\ trade'[w].cred = bots[b].cred

\* An arm request finds its bot's credential, and goes on if its row is valid.
ArmsStep ==
    \A a \in Arm : arming'[a].at \in {"cred", "write"} =>
      \/ arming'[a] = arming[a]
      \/ /\ arming'[a].at = "cred"
         /\ \E b \in Bot : /\ bots[b].cred # NoCred
                           /\ arming'[a].cred = bots[b].cred
      \/ /\ arming'[a].at = "write" /\ arming[a].at = "cred"
         /\ arming'[a].cred = arming[a].cred
         /\ row[arming[a].cred] = "valid"

LEMMA BotsStepHolds == TypeOK /\ [Next]_vars => BotsStep
<1> SUFFICES ASSUME TypeOK, [Next]_vars PROVE BotsStep
  OBVIOUS
<1> USE DEF TypeOK, BotTypes, BotRow, BotsStep
<1>1. ASSUME NEW x \in Bot, NEW bot, UpdateBot(x, bot),
             bot.cred = bots[x].cred, bot.enabled => bots[x].enabled
      PROVE  BotsStep
  BY <1>1 DEF UpdateBot
<1>2. ASSUME NEW c \in Cred, ConnectStep(c) PROVE BotsStep
  <2>1. \/ bots' = bots
        \/ /\ conn[c] = "link" /\ bots[BotOf[c]].cred = NoCred
           /\ bots' = [bots EXCEPT ![BotOf[c]].cred = c]
    BY <1>2 DEF ConnectStep, ConnectBegin, StoreSecret, InsertCredential,
       LinkBot, DeleteCredential, DeleteSecret, ConnectDies, Connect
  <2> QED
    BY <2>1, ConstantsOK
<1>3. ASSUME NEW w \in Worker, HandleValidate(w) PROVE BotsStep
  <2>1. CASE DisarmBots(w)
    BY <2>1 DEF DisarmBots, Stopped
  <2>2. CASE UNCHANGED bots
    BY <2>2
  <2> QED
    BY <1>3, <2>1, <2>2 DEF HandleValidate, CheckGates, FetchBalance, SetStatus,
       AckRequest
<1>4. ASSUME NEW w \in Worker, TradeStep(w) PROVE BotsStep
  <2> DEFINE b == TradeBot(w)
  <2>1. CASE UNCHANGED bots
    BY <2>1
  <2>2. CASE trade[w].at # "idle" /\ (\/ UpdateBot(b, [bots[b] EXCEPT !.status = "error"])
                                      \/ UpdateBot(b, Stopped(bots[b])))
    <3>1. b \in Bot /\ bots[b] \in BotRow
      BY <2>2, ConstantsOK DEF TradeBot, TradeTypes
    <3>2. /\ [bots[b] EXCEPT !.status = "error"].cred = bots[b].cred
          /\ [bots[b] EXCEPT !.status = "error"].enabled = bots[b].enabled
          /\ Stopped(bots[b]).cred = bots[b].cred
          /\ ~Stopped(bots[b]).enabled
      BY <3>1 DEF Stopped
    <3> QED
      BY <1>1, <2>2, <3>1, <3>2
  <2>3. CASE ReadCredential(w)
    BY <2>1, <2>2, <2>3 DEF ReadCredential, Trades, TradeEnds
  <2>4. CASE DisableBot(w) \/ PauseForAttention(w)
    BY <2>2, <2>4 DEF DisableBot, PauseForAttention, TradeEnds
  <2> QED
    BY <1>4, <2>1, <2>3, <2>4 DEF TradeStep, ReadBot, UseKey, RevokeCredential
<1>5. ASSUME NEW a \in Arm, ArmStep(a) PROVE BotsStep
  <2>1. CASE UNCHANGED bots
    BY <2>1
  <2>2. CASE ArmWrite(a)
    <3> DEFINE b == BotOf[arming[a].cred]
               bot == [bots[b] EXCEPT !.enabled = TRUE, !.status = "active"]
    <3>1. b \in Bot /\ bots[b] \in BotRow /\ arming[a].at = "write"
      BY <2>2, ConstantsOK DEF ArmWrite, ArmTypes
    <3>2. bot.cred = bots[b].cred
      BY <3>1
    <3>3. bots' = bots \/ bots' = [bots EXCEPT ![b] = bot]
      BY <2>2 DEF ArmWrite, UpdateBot
    <3> HIDE DEF bot
    <3> QED
      BY <3>1, <3>2, <3>3
  <2> QED
    BY <1>5, <2>1, <2>2 DEF ArmStep, ArmBegin, ArmCheck
<1>6. ASSUME NEW b \in Bot, BotOp(b) PROVE BotsStep
  <2>1. CASE PauseBot(b)
    BY <2>1 DEF PauseBot, Stopped
  <2>2. ASSUME NEW locked \in BOOLEAN, SetLock(b, locked) PROVE BotsStep
    BY <2>2 DEF SetLock
  <2> QED
    BY <1>6, <2>1, <2>2 DEF BotOp
<1>7. ASSUME NEW hard \in BOOLEAN, KillAll(hard) PROVE BotsStep
  BY <1>7 DEF KillAll
<1>8. CASE UNCHANGED bots
  BY <1>8
<1> QED
  BY <1>2, <1>3, <1>4, <1>5, <1>6, <1>7, <1>8
  DEF Next, vars, ChangeKey, Reappear, RequestValidation, ReadRequest, Crash, SwitchVenue

LEMMA CredsStepHolds == TypeOK /\ [Next]_vars => CredsStep
<1> SUFFICES ASSUME TypeOK, [Next]_vars PROVE CredsStep
  OBVIOUS
<1> USE DEF TypeOK, CredTypes, CredsStep, Early, EarlyNext, Refused, RefusedNext
<1>1. ASSUME NEW c \in Cred, ConnectStep(c) PROVE CredsStep
  <2>1. UNCHANGED <<key, accepted>> /\ (vault' \subseteq vault \/ conn[c] = "store")
    BY <1>1 DEF ConnectStep, ConnectBegin, StoreSecret, InsertCredential,
       LinkBot, DeleteCredential, DeleteSecret, ConnectDies, Connect
  <2>2. vault' \subseteq vault \cup {c}
    BY <1>1 DEF ConnectStep, ConnectBegin, StoreSecret, InsertCredential,
       LinkBot, DeleteCredential, DeleteSecret, ConnectDies
  <2>3. \E to \in ConnectSteps \ {"new"} :
          conn' = [conn EXCEPT ![c] = to] /\ (to = "store" => Early(c))
    BY <1>1 DEF ConnectStep, ConnectBegin, StoreSecret, InsertCredential,
       LinkBot, DeleteCredential, DeleteSecret, ConnectDies, Connect, ConnectSteps
  <2> QED
    BY <2>1, <2>2, <2>3
<1>2. ASSUME NEW c \in Cred, ChangeKey(c) PROVE CredsStep
  BY <1>2 DEF ChangeKey
<1>3. ASSUME NEW w \in Worker, HandleValidate(w) PROVE CredsStep
  BY <1>3 DEF HandleValidate, CheckGates, FetchBalance, SetStatus, DisarmBots,
     AckRequest
<1>4. CASE UNCHANGED <<conn, vault, key, accepted>>
  BY <1>4
<1>5. ASSUME NEW w \in Worker, TradeStep(w) PROVE UNCHANGED <<conn, vault, key, accepted>>
  BY <1>5 DEF TradeStep, ReadBot, ReadCredential, UseKey, RevokeCredential,
     DisableBot, PauseForAttention
<1>6. ASSUME NEW a \in Arm, ArmStep(a) PROVE UNCHANGED <<conn, vault, key, accepted>>
  BY <1>6 DEF ArmStep, ArmBegin, ArmCheck, ArmWrite
<1> QED
  BY <1>1, <1>2, <1>3, <1>4, <1>5, <1>6
  DEF Next, vars, Reappear, RequestValidation, ReadRequest, Crash, SwitchVenue,
      BotOp, PauseBot, SetLock, KillAll

LEMMA RowStepHolds == TypeOK /\ [Next]_vars => RowStep
<1> SUFFICES ASSUME TypeOK, [Next]_vars PROVE RowStep
  OBVIOUS
<1> USE DEF TypeOK, CredTypes, RowStep, Early, EarlyNext
<1>1. ASSUME NEW c \in Cred, ConnectStep(c) PROVE RowStep
  <2>1. CASE InsertCredential(c)
    BY <2>1 DEF InsertCredential, Connect
  <2>2. CASE UNCHANGED row
    BY <2>2
  <2>3. CASE DeleteCredential(c)
    BY <2>3 DEF DeleteCredential
  <2> QED
    BY <1>1, <2>1, <2>2, <2>3 DEF ConnectStep, ConnectBegin, StoreSecret, LinkBot,
       DeleteSecret, ConnectDies
<1>2. ASSUME NEW w \in Worker, HandleValidate(w) PROVE RowStep
  <2>1. CASE SetStatus(w)
    <3>1. check[w].at = "write"
      BY <2>1 DEF SetStatus, Checks, RetryOrGiveUp
    <3>2. About(w) \in Cred
      BY <3>1, AboutTyped
    <3> QED
      BY <2>1, <3>1, <3>2 DEF SetStatus, Marked
  <2>2. CASE UNCHANGED row
    BY <2>2
  <2> QED
    BY <1>2, <2>1, <2>2 DEF HandleValidate, CheckGates, FetchBalance, DisarmBots,
       AckRequest
<1>3. ASSUME NEW w \in Worker, TradeStep(w) PROVE RowStep
  <2>1. CASE RevokeCredential(w)
    BY <2>1 DEF RevokeCredential, Trades, Marked, TradeTypes
  <2>2. CASE UNCHANGED row
    BY <2>2
  <2> QED
    BY <1>3, <2>1, <2>2 DEF TradeStep, ReadBot, ReadCredential, UseKey, DisableBot,
       PauseForAttention
<1>4. CASE UNCHANGED row
  BY <1>4
<1>5. ASSUME NEW a \in Arm, ArmStep(a) PROVE UNCHANGED row
  BY <1>5 DEF ArmStep, ArmBegin, ArmCheck, ArmWrite
<1> QED
  BY <1>1, <1>2, <1>3, <1>4, <1>5
  DEF Next, vars, ChangeKey, Reappear, RequestValidation, ReadRequest, Crash,
      SwitchVenue, BotOp, PauseBot, SetLock, KillAll

LEMMA AboutStepHolds == TypeOK /\ [Next]_vars => AboutStep
<1> SUFFICES ASSUME TypeOK, [Next]_vars PROVE AboutStep
  OBVIOUS
<1>1. ASSUME NEW r \in Req, NEW b \in Bot, RequestValidation(r, b) PROVE AboutStep
  BY <1>1 DEF RequestValidation, AboutStep, TypeOK, QueueTypes
<1>2. CASE UNCHANGED about
  BY <1>2 DEF AboutStep
<1>3. ASSUME NEW c \in Cred, ConnectStep(c) PROVE UNCHANGED about
  BY <1>3 DEF ConnectStep, ConnectBegin, StoreSecret, InsertCredential, LinkBot,
     DeleteCredential, DeleteSecret, ConnectDies
<1>4. ASSUME NEW w \in Worker, HandleValidate(w) \/ TradeStep(w)
      PROVE  UNCHANGED about
  BY <1>4 DEF HandleValidate, CheckGates, FetchBalance, SetStatus, DisarmBots,
     AckRequest, TradeStep, ReadBot, ReadCredential, UseKey, RevokeCredential,
     DisableBot, PauseForAttention
<1>5. ASSUME NEW a \in Arm, ArmStep(a) PROVE UNCHANGED about
  BY <1>5 DEF ArmStep, ArmBegin, ArmCheck, ArmWrite
<1> QED
  BY <1>1, <1>2, <1>3, <1>4, <1>5
  DEF Next, vars, ChangeKey, Reappear, ReadRequest, Crash, SwitchVenue, BotOp,
      PauseBot, SetLock, KillAll

LEMMA CheckStepHolds == TypeOK /\ [Next]_vars => CheckStep
<1> SUFFICES ASSUME TypeOK, [Next]_vars PROVE CheckStep
  OBVIOUS
<1> USE DEF TypeOK, CheckTypes, CheckStep
<1>1. ASSUME NEW w \in Worker, HandleValidate(w) PROVE CheckStep
  <2>1. CASE FetchBalance(w)
    <3>1. CASE check' = [check EXCEPT ![w].at = "write", ![w].verdict = "valid"]
               /\ accepted' = accepted \cup {About(w)} /\ check[w].at = "fetch"
      BY <3>1
    <3>2. CASE check' = [check EXCEPT ![w].at = "write", ![w].verdict = "invalid"]
               /\ Refused(About(w)) /\ check[w].at = "fetch"
      BY <3>2
    <3>3. CASE RetryOrGiveUp(w, "fetch")
      BY <3>3 DEF RetryOrGiveUp, IdleCheck
    <3> QED
      BY <2>1, <3>1, <3>2, <3>3 DEF FetchBalance, Verdict
  <2>2. CASE RetryOrGiveUp(w, "gates") \/ RetryOrGiveUp(w, "write")
    BY <2>2 DEF RetryOrGiveUp, IdleCheck
  <2>3. CASE \E to \in {"fetch", "disarm", "ack"} : check' = [check EXCEPT ![w].at = to]
    BY <2>3
  <2>4. CASE AckRequest(w)
    BY <2>4 DEF AckRequest, IdleCheck
  <2> QED
    BY <1>1, <2>1, <2>2, <2>3, <2>4
    DEF HandleValidate, CheckGates, SetStatus, DisarmBots, Checks, AfterWrite
<1>2. ASSUME NEW w \in Worker, NEW r \in Req, ReadRequest(w, r) PROVE CheckStep
  BY <1>2 DEF ReadRequest
<1>3. ASSUME NEW w \in Worker, Crash(w) PROVE CheckStep
  BY <1>3 DEF Crash, IdleCheck
<1>4. CASE UNCHANGED check
  BY <1>4
<1>5. ASSUME NEW c \in Cred, ConnectStep(c) PROVE UNCHANGED check
  BY <1>5 DEF ConnectStep, ConnectBegin, StoreSecret, InsertCredential, LinkBot,
     DeleteCredential, DeleteSecret, ConnectDies
<1>6. ASSUME NEW w \in Worker, TradeStep(w) PROVE UNCHANGED check
  BY <1>6 DEF TradeStep, ReadBot, ReadCredential, UseKey, RevokeCredential,
     DisableBot, PauseForAttention
<1>7. ASSUME NEW a \in Arm, ArmStep(a) PROVE UNCHANGED check
  BY <1>7 DEF ArmStep, ArmBegin, ArmCheck, ArmWrite
<1> QED
  BY <1>1, <1>2, <1>3, <1>4, <1>5, <1>6, <1>7
  DEF Next, vars, ChangeKey, Reappear, RequestValidation, SwitchVenue, BotOp,
      PauseBot, SetLock, KillAll

LEMMA TradesStepHolds == TypeOK /\ [Next]_vars => TradesStep
<1> SUFFICES ASSUME TypeOK, [Next]_vars PROVE TradesStep
  OBVIOUS
<1> USE DEF TypeOK, TradeTypes, TradesStep
<1>1. ASSUME NEW w \in Worker, TradeStep(w) PROVE TradesStep
  <2>1. ASSUME NEW b \in Bot, ReadBot(w, b) PROVE TradesStep
    BY <2>1 DEF ReadBot
  <2>2. ASSUME NEW from, TradeEnds(w, from) PROVE TradesStep
    BY <2>2 DEF TradeEnds, IdleTrade
  <2>3. ASSUME NEW from, NEW to, Trades(w, from, to), from # "idle",
               to = "revoke" => Refused(trade[w].cred)
        PROVE  TradesStep
    BY <2>3 DEF Trades
  <2> QED
    BY <1>1, <2>1, <2>2, <2>3 DEF TradeStep, ReadCredential, UseKey, RevokeCredential,
       DisableBot, PauseForAttention
<1>2. ASSUME NEW w \in Worker, Crash(w) PROVE TradesStep
  BY <1>2 DEF Crash, IdleTrade
<1>3. CASE UNCHANGED trade
  BY <1>3
<1>4. ASSUME NEW c \in Cred, ConnectStep(c) PROVE UNCHANGED trade
  BY <1>4 DEF ConnectStep, ConnectBegin, StoreSecret, InsertCredential, LinkBot,
     DeleteCredential, DeleteSecret, ConnectDies
<1>5. ASSUME NEW w \in Worker, HandleValidate(w) PROVE UNCHANGED trade
  BY <1>5 DEF HandleValidate, CheckGates, FetchBalance, SetStatus, DisarmBots,
     AckRequest
<1>6. ASSUME NEW a \in Arm, ArmStep(a) PROVE UNCHANGED trade
  BY <1>6 DEF ArmStep, ArmBegin, ArmCheck, ArmWrite
<1> QED
  BY <1>1, <1>2, <1>3, <1>4, <1>5, <1>6
  DEF Next, vars, ChangeKey, Reappear, RequestValidation, ReadRequest,
      SwitchVenue, BotOp, PauseBot, SetLock, KillAll

LEMMA ArmsStepHolds == TypeOK /\ [Next]_vars => ArmsStep
<1> SUFFICES ASSUME TypeOK, [Next]_vars PROVE ArmsStep
  OBVIOUS
<1> USE DEF TypeOK, ArmTypes, ArmsStep
<1>1. ASSUME NEW a \in Arm, ArmStep(a) PROVE ArmsStep
  <2>1. ASSUME NEW b \in Bot, ArmBegin(a, b) PROVE ArmsStep
    BY <2>1 DEF ArmBegin
  <2>2. CASE ArmCheck(a)
    BY <2>2 DEF ArmCheck
  <2>3. CASE ArmWrite(a)
    BY <2>3 DEF ArmWrite
  <2> QED
    BY <1>1, <2>1, <2>2, <2>3 DEF ArmStep
<1>2. CASE UNCHANGED arming
  BY <1>2
<1>3. ASSUME NEW c \in Cred, ConnectStep(c) PROVE UNCHANGED arming
  BY <1>3 DEF ConnectStep, ConnectBegin, StoreSecret, InsertCredential, LinkBot,
     DeleteCredential, DeleteSecret, ConnectDies
<1>4. ASSUME NEW w \in Worker, HandleValidate(w) \/ TradeStep(w)
      PROVE  UNCHANGED arming
  BY <1>4 DEF HandleValidate, CheckGates, FetchBalance, SetStatus, DisarmBots,
     AckRequest, TradeStep, ReadBot, ReadCredential, UseKey, RevokeCredential,
     DisableBot, PauseForAttention
<1> QED
  BY <1>1, <1>2, <1>3, <1>4
  DEF Next, vars, ChangeKey, Reappear, RequestValidation, ReadRequest, Crash,
      SwitchVenue, BotOp, PauseBot, SetLock, KillAll

-----------------------------------------------------------------------------
(* The invariant holds *)

LEMMA InitControl == Init => ControlInvariant
<1> SUFFICES ASSUME Init PROVE ControlInvariant
  OBVIOUS
<1>1. TypeOK
  BY InitTypes
<1> QED
  BY <1>1, ConstantsOK DEF Init, ControlInvariant, Linked, Known, RowIsLate,
     VerdictIsTrue, ValidIsProven, ArmIsProven, InvalidIsDeserved, ArmedWasProven,
     IdleCheck, IdleTrade, NewArm

LEMMA ControlStep == ControlInvariant /\ [Next]_vars => ControlInvariant'
<1> SUFFICES ASSUME ControlInvariant, [Next]_vars PROVE ControlInvariant'
  OBVIOUS
<1>1. TypeOK /\ TypeOK'
  BY TypesStep DEF ControlInvariant
<1>2. BotsStep
  BY <1>1, BotsStepHolds
<1>3. CredsStep
  BY <1>1, CredsStepHolds
<1>4. RowStep
  BY <1>1, RowStepHolds
<1>5. \A b \in Bot : bots[b].cred # NoCred =>
        /\ bots[b].cred \in Cred /\ bots'[b].cred = bots[b].cred
        /\ BotOf[bots[b].cred] = b
        /\ ~Early(bots[b].cred) /\ ~EarlyNext(bots[b].cred)
  BY <1>1, <1>2, <1>3
  DEF ControlInvariant, Linked, BotsStep, CredsStep, TypeOK, BotTypes, BotRow
<1>6. Linked'
  <2> SUFFICES ASSUME NEW b \in Bot, bots'[b].cred # NoCred
               PROVE  BotOf[bots'[b].cred] = b /\ ~EarlyNext(bots'[b].cred)
    BY DEF Linked, Early, EarlyNext
  <2>1. CASE bots'[b].cred = bots[b].cred
    BY <1>5, <2>1
  <2>2. CASE \E c \in Cred : BotOf[c] = b /\ conn[c] = "link" /\ bots'[b].cred = c
    BY <1>3, <2>2 DEF CredsStep
  <2> QED
    BY <1>2, <2>1, <2>2 DEF BotsStep
<1>7. Known'
  <2>1. ASSUME NEW r \in Req, about'[r] \in Cred PROVE ~EarlyNext(about'[r])
    <3>1. AboutStep
      BY <1>1, AboutStepHolds
    <3>2. CASE about'[r] = about[r]
      BY <1>3, <2>1, <3>2 DEF ControlInvariant, Known, CredsStep
    <3>3. CASE \E b \in Bot : about'[r] = bots[b].cred
      BY <1>5, <2>1, <3>3, ConstantsOK
    <3> QED
      BY <3>1, <3>2, <3>3 DEF AboutStep
  <2>2. ASSUME NEW w \in Worker, trade'[w].at # "idle"
        PROVE  ~EarlyNext(trade'[w].cred)
    <3>1. TradesStep
      BY <1>1, TradesStepHolds
    <3>2. CASE trade[w].at # "idle" /\ trade'[w].cred = trade[w].cred
      <4>1. trade[w].cred \in Cred
        BY <1>1, <3>2 DEF TypeOK, TradeTypes
      <4> QED
        BY <1>3, <3>2, <4>1 DEF ControlInvariant, Known, CredsStep
    <3>3. CASE \E b \in Bot : bots[b].cred # NoCred /\ trade'[w].cred = bots[b].cred
      BY <1>5, <3>3
    <3> QED
      BY <2>2, <3>1, <3>2, <3>3 DEF TradesStep
  <2> QED
    BY <2>1, <2>2 DEF Known, Early, EarlyNext
<1>8. RowIsLate'
  BY <1>3, <1>4 DEF ControlInvariant, RowIsLate, RowStep, CredsStep, Early, EarlyNext
<1>9. VerdictIsTrue'
  <2>1. ASSUME NEW w \in Worker, check'[w].at = "write"
        PROVE  /\ check'[w].verdict = "valid" => about'[check'[w].req] \in accepted'
               /\ check'[w].verdict = "invalid" => RefusedNext(about'[check'[w].req])
    <3>1. CheckStep /\ AboutStep
      BY <1>1, CheckStepHolds, AboutStepHolds
    <3>2. check[w].at # "poll" /\ check'[w].req = check[w].req
      BY <2>1, <3>1 DEF CheckStep
    <3>3. About(w) \in Cred /\ about'[check'[w].req] = About(w)
      BY <1>1, <3>1, <3>2, ConstantsOK, AboutTyped
      DEF AboutStep, About, TypeOK, CheckTypes
    <3>4. ~Early(About(w))
      BY <1>1, <3>2, <3>3, AboutTyped DEF ControlInvariant, Known, About, TypeOK
    <3>5. /\ check'[w].verdict = "valid" => About(w) \in accepted'
          /\ check'[w].verdict = "invalid" => Refused(About(w))
      BY <1>3, <2>1, <3>1 DEF CheckStep, CredsStep, ControlInvariant, VerdictIsTrue
    <3>6. Refused(About(w)) => RefusedNext(About(w))
      BY <1>3, <3>3, <3>4 DEF CredsStep
    <3> QED
      BY <3>3, <3>5, <3>6
  <2>2. ASSUME NEW w \in Worker, trade'[w].at = "revoke"
        PROVE  RefusedNext(trade'[w].cred)
    <3>1. TradesStep
      BY <1>1, TradesStepHolds
    <3>2. /\ trade[w].at # "idle" /\ trade'[w].cred = trade[w].cred
          /\ Refused(trade[w].cred)
      BY <2>2, <3>1 DEF TradesStep, ControlInvariant, VerdictIsTrue
    <3>3. trade[w].cred \in Cred
      BY <1>1, <3>2 DEF TypeOK, TradeTypes
    <3> QED
      BY <1>3, <3>2, <3>3 DEF CredsStep, ControlInvariant, Known
  <2> QED
    BY <2>1, <2>2 DEF VerdictIsTrue, About, Refused, RefusedNext
<1>10. ValidIsProven'
  <2> SUFFICES ASSUME NEW c \in Cred, row'[c] = "valid" PROVE c \in accepted'
    BY DEF ValidIsProven
  <2>1. row[c] = "valid" \/ \E w \in Worker : /\ check[w].at = "write"
                                              /\ About(w) = c
                                              /\ check[w].verdict = "valid"
    BY <1>4 DEF RowStep
  <2> QED
    BY <1>3, <2>1 DEF CredsStep, ControlInvariant, ValidIsProven, VerdictIsTrue
<1>11. ArmIsProven'
  <2> SUFFICES ASSUME NEW a \in Arm, arming'[a].at \in {"cred", "write"}
               PROVE  /\ bots'[BotOf[arming'[a].cred]].cred = arming'[a].cred
                      /\ arming'[a].at = "write" => arming'[a].cred \in accepted'
    BY DEF ArmIsProven
  <2>1. ArmsStep
    BY <1>1, ArmsStepHolds
  <2>2. CASE /\ arming[a].at \in {"cred", "write"}
             /\ arming'[a].cred = arming[a].cred
             /\ arming'[a].at = "write" =>
                  arming[a].at = "write" \/ row[arming[a].cred] = "valid"
    <3>1. arming[a].cred \in Cred /\ BotOf[arming[a].cred] \in Bot
      BY <1>1, <2>2, ConstantsOK DEF TypeOK, ArmTypes
    <3>2. bots[BotOf[arming[a].cred]].cred = arming[a].cred
      BY <2>2 DEF ControlInvariant, ArmIsProven
    <3>3. arming'[a].at = "write" => arming[a].cred \in accepted
      BY <2>2, <3>1 DEF ControlInvariant, ArmIsProven, ValidIsProven
    <3> QED
      BY <1>3, <1>5, <2>2, <3>1, <3>2, <3>3, ConstantsOK DEF CredsStep
  <2>3. CASE arming'[a].at = "cred" /\ \E b \in Bot : /\ bots[b].cred # NoCred
                                                   /\ arming'[a].cred = bots[b].cred
    BY <1>5, <2>3
  <2> QED
    BY <2>1, <2>2, <2>3 DEF ArmsStep
<1>12. InvalidIsDeserved'
  <2> SUFFICES ASSUME NEW c \in Cred, row'[c] = "invalid" PROVE RefusedNext(c)
    BY DEF InvalidIsDeserved, Refused, RefusedNext
  <2>1. row[c] # "none"
    BY <1>4 DEF RowStep
  <2>2. ~Early(c)
    BY <2>1 DEF ControlInvariant, RowIsLate
  <2>3. Refused(c)
    BY <1>4 DEF RowStep, ControlInvariant, InvalidIsDeserved, VerdictIsTrue
  <2> QED
    BY <1>3, <2>2, <2>3 DEF CredsStep
<1>13. ArmedWasProven'
  <2> SUFFICES ASSUME NEW b \in Bot, bots'[b].enabled PROVE bots'[b].cred \in accepted'
    BY DEF ArmedWasProven
  <2>1. bots[b].cred \in accepted
    BY <1>2 DEF BotsStep, ControlInvariant, ArmedWasProven, ArmIsProven
  <2>2. bots[b].cred # NoCred
    BY <1>1, <2>1, ConstantsOK DEF TypeOK, CredTypes
  <2> QED
    BY <1>3, <1>5, <2>1, <2>2 DEF CredsStep
<1> QED
  BY <1>1, <1>6, <1>7, <1>8, <1>9, <1>10, <1>11, <1>12, <1>13 DEF ControlInvariant

\* The invariant is one: Linked to ArmIsProven say what stands behind each
\* credential, verdict and arm request on its way to the bot.
THEOREM ControlIsInvariant == Spec => []ControlInvariant
  BY InitControl, ControlStep, PTL DEF Spec

\* No overlap of connects, validations, arms, stops and crashes arms a bot with
\* a key that the exchange has not accepted.
THEOREM ArmedIsProven == Spec => []ArmedWasProven
<1>1. ControlInvariant => ArmedWasProven
  BY DEF ControlInvariant
<1> QED
  BY <1>1, ControlIsInvariant, PTL

\* A credential is marked invalid only when its key is dead or its secret gone.
THEOREM InvalidIsTrue == Spec => []InvalidIsDeserved
<1>1. ControlInvariant => InvalidIsDeserved
  BY DEF ControlInvariant
<1> QED
  BY <1>1, ControlIsInvariant, PTL
=============================================================================
