------------------------- MODULE SignalIntakeProofs -------------------------
(***************************************************************************)
(* Theorems about SignalIntake: its type invariant, and that neither a     *)
(* 'queued' row nor a 200 is ever without a message in the queue. Neither  *)
(* is inductive: a delivery about to mark its row, and a sweep about to,   *)
(* must be known to have sent, and a delivery that reloads a row must find *)
(* one. SentInv adds that.                                                 *)
(***************************************************************************)
EXTENDS SignalIntake, TLAPS, FiniteSetTheorems

DeliverySent == \A d \in Delivery : at[d] = "queued" => sends[sig[d]] > 0

SweepSent ==
    \A k \in Sweep : sweep[k].at = "mark" =>
        sweep[k].cur \in Signal /\ sends[sweep[k].cur] > 0

ReloadFinds == \A d \in Delivery : at[d] = "reload" => row[sig[d]].status /= "none"

SentInv ==
    /\ TypeOK /\ QueuedMeansSent /\ OkMeansSent
    /\ DeliverySent /\ SweepSent /\ ReloadFinds

USE DEF boundVars, deliveryVars

-----------------------------------------------------------------------------
(***************************************************************************)
(* Types.                                                                  *)
(***************************************************************************)

\* The row of a signal nobody has seen is a row.
LEMMA InitRow == NoRow \in Row
  <1>1. MaxAttempts \in Nat
    BY ConstantsOK
  <1> QED  BY <1>1 DEF NoRow, Row

\* The initial state has its types.
LEMMA InitTypes == Init => TypeOK
  BY ConstantsOK DEF Init, TypeOK, Row, NoRow, SweepState, IdleSweep

\* MarkedQueued yields a row.
LEMMA MarkedQueuedIsRow ==
    ASSUME NEW r \in Row PROVE MarkedQueued(r) \in Row
  BY DEF MarkedQueued, Row, Pending

\* A status write keeps the types of what it may write.
LEMMA WriteRowTypes ==
    ASSUME TypeOK, NEW s \in Signal, NEW r \in Row, WriteRow(s, r)
    PROVE  row' \in [Signal -> Row] /\ dbErrors' \in 0..MaxDbErrors
  <1>1. CASE row' = [row EXCEPT ![s] = r] /\ UNCHANGED dbErrors
    BY <1>1 DEF TypeOK
  <1>2. CASE DbFails /\ UNCHANGED row
    BY <1>2, ConstantsOK DEF TypeOK, DbFails
  <1> QED  BY <1>1, <1>2 DEF WriteRow

\* Going to a step, or answering, keeps the types of the delivery.
LEMMA DeliveryTypes ==
    ASSUME TypeOK, NEW d \in Delivery,
           NEW step \in {"new", "reload", "send", "queued", "failed", "done"},
           NEW code \in {"none", "ok", "infra"},
           GoTo(d, step) \/ Respond(d, code)
    PROVE  /\ at' \in [Delivery -> {"new", "reload", "send", "queued",
                                    "failed", "done"}]
           /\ sig' \in [Delivery -> Signal]
           /\ answer' \in [Delivery -> {"none", "ok", "infra"}]
  BY DEF TypeOK, GoTo, Respond

\* A send adds to the count, an error may have.
LEMMA SendTypes ==
    ASSUME TypeOK, NEW s \in Signal, SendError(s)
    PROVE  sends' \in [Signal -> Nat]
  BY DEF TypeOK, SendError, Sent

\* Every step of the webhook keeps the types.
LEMMA DeliveryStepTypes ==
    ASSUME TypeOK, NEW d \in Delivery, DeliveryStep(d)
    PROVE  TypeOK'
  <1> sig[d] \in Signal /\ row[sig[d]] \in Row
    BY DEF TypeOK
  <1>1. CASE Upsert(d)
    <2>1. NewRow \in Row
      BY InitRow DEF NewRow, Row
    <2>2. row' \in [Signal -> Row]
      BY <1>1, <2>1 DEF Upsert, TypeOK
    <2>3. GoTo(d, "send") \/ GoTo(d, "reload") \/ Respond(d, "infra")
      BY <1>1 DEF Upsert
    <2> QED  BY <1>1, <2>2, <2>3, DeliveryTypes DEF Upsert, TypeOK
  <1>2. CASE Reload(d)
    <2>1. GoTo(d, "send") \/ Respond(d, "ok") \/ Respond(d, "infra")
      BY <1>2 DEF Reload, Decided
    <2> QED  BY <1>2, <2>1, DeliveryTypes DEF Reload, TypeOK
  <1>3. CASE Send(d)
    <2>1. GoTo(d, "queued") \/ GoTo(d, "failed")
      BY <1>3 DEF Send
    <2>2. sends' \in [Signal -> Nat]
      BY <1>3, SendTypes DEF Send, SendError
    <2> QED  BY <1>3, <2>1, <2>2, DeliveryTypes DEF Send, TypeOK
  <1>4. CASE MarkQueued(d)
    BY <1>4, MarkedQueuedIsRow, WriteRowTypes, DeliveryTypes
    DEF MarkQueued, TypeOK
  <1>5. CASE MarkFailed(d)
    <2>1. [row[sig[d]] EXCEPT !.status = "queue_failed", !.leased = FALSE] \in Row
      BY DEF Row
    <2> QED  BY <1>5, <2>1, WriteRowTypes, DeliveryTypes DEF MarkFailed, TypeOK
  <1>6. CASE Die(d)
    BY <1>6, DeliveryTypes DEF Die, TypeOK
  <1> QED
    BY <1>1, <1>2, <1>3, <1>4, <1>5, <1>6 DEF DeliveryStep

\* Every step of a sweep, its death included, keeps the types; the claim
\* because it takes only rows below the cap.
LEMMA SweepStepTypes ==
    ASSUME TypeOK, NEW k \in Sweep, SweepStep(k) \/ KillSweep(k)
    PROVE  TypeOK'
  <1> sweep[k] \in SweepState
    BY DEF TypeOK
  <1>1. CASE Claim(k)
    <2>1. PICK rows \in SUBSET {s \in Signal : Eligible(s)} :
            /\ row' = [s \in Signal |->
                         IF s \in rows THEN Claimed(row[s]) ELSE row[s]]
            /\ \/ sweep' = [sweep EXCEPT ![k] = [IdleSweep EXCEPT !.at = "next",
                                                                  !.rows = rows]]
               \/ UNCHANGED sweep
      BY <1>1 DEF Claim
    <2>2. ASSUME NEW s \in rows PROVE Claimed(row[s]) \in Row
      <3>1. row[s] \in Row /\ MaxAttempts \in Nat
        BY <2>1, ConstantsOK DEF TypeOK
      <3>2. row[s].attempts + 1 \in 0..MaxAttempts
        BY <2>1, <3>1 DEF Eligible, AtCap, Row
      <3> QED  BY <3>1, <3>2 DEF Claimed, Row
    <2>3. row' \in [Signal -> Row]
      BY <2>1, <2>2 DEF TypeOK
    <2>4. [IdleSweep EXCEPT !.at = "next", !.rows = rows] \in SweepState
      BY <2>1 DEF IdleSweep, SweepState
    <2>5. sweep' \in [Sweep -> SweepState]
      BY <2>1, <2>4 DEF TypeOK
    <2> QED  BY <1>1, <2>3, <2>5 DEF Claim, TypeOK
  <1>2. CASE Requeue(k)
    <2>1. PICK s \in sweep[k].rows :
            /\ SendError(s)
            /\ \/ sweep' = [sweep EXCEPT ![k].at = "mark", ![k].cur = s,
                                         ![k].rows = @ \ {s}]
               \/ sweep' = [sweep EXCEPT ![k].rows = @ \ {s}]
      BY <1>2 DEF Requeue, SendError
    <2>2. s \in Signal
      BY <2>1 DEF SweepState
    <2>3. sweep' \in [Sweep -> SweepState]
      BY <2>1, <2>2 DEF TypeOK, SweepState
    <2> QED  BY <1>2, <2>1, <2>2, <2>3, SendTypes DEF Requeue, TypeOK
  <1>3. CASE MarkRequeued(k)
    <2>1. sweep' \in [Sweep -> SweepState]
      BY <1>3 DEF MarkRequeued, TypeOK, SweepState
    <2>2. CASE sweep[k].cur \in Signal
      <3>1. MarkedQueued(row[sweep[k].cur]) \in Row
        BY <2>2, MarkedQueuedIsRow DEF TypeOK
      <3> QED  BY <1>3, <2>1, <2>2, <3>1, WriteRowTypes DEF MarkRequeued, TypeOK
    <2>3. CASE sweep[k].cur \notin Signal
      <3>1. row' = row
        BY <1>3, <2>3 DEF MarkRequeued, WriteRow, TypeOK
      <3>2. dbErrors' \in 0..MaxDbErrors
        BY <1>3, ConstantsOK DEF MarkRequeued, WriteRow, DbFails, TypeOK
      <3> QED  BY <1>3, <2>1, <3>1, <3>2 DEF MarkRequeued, TypeOK
    <2> QED  BY <2>2, <2>3
  <1>4. CASE ReportExhausted(k)
    <2>1. sweep' \in [Sweep -> SweepState]
      BY <1>4 DEF ReportExhausted, TypeOK, IdleSweep, SweepState
    <2>2. reported' \subseteq Signal /\ dbErrors' \in 0..MaxDbErrors
      BY <1>4, ConstantsOK DEF ReportExhausted, DbFails, TypeOK
    <2> QED  BY <1>4, <2>1, <2>2 DEF ReportExhausted, TypeOK
  <1>5. CASE KillSweep(k)
    <2>1. sweep' \in [Sweep -> SweepState]
      BY <1>5 DEF KillSweep, TypeOK, IdleSweep, SweepState
    <2>2. crashes' \in 0..MaxCrashes
      BY <1>5, ConstantsOK DEF KillSweep, TypeOK
    <2> QED  BY <1>5, <2>1, <2>2 DEF KillSweep, TypeOK
  <1> QED  BY <1>1, <1>2, <1>3, <1>4, <1>5 DEF SweepStep

\* Every step keeps the types.
LEMMA TypesStep == TypeOK /\ [Next]_vars => TypeOK'
  <1> SUFFICES ASSUME TypeOK, [Next]_vars PROVE TypeOK'
    OBVIOUS
  <1>1. CASE \E d \in Delivery : DeliveryStep(d)
    BY <1>1, DeliveryStepTypes
  <1>2. CASE \E k \in Sweep : SweepStep(k) \/ KillSweep(k)
    BY <1>2, SweepStepTypes
  <1>3. CASE \E s \in Signal : TurnStale(s) \/ LeaseExpires(s)
    <2>1. PICK s \in Signal : \/ row' = [row EXCEPT ![s].stale = TRUE]
                              \/ row' = [row EXCEPT ![s].leased = FALSE]
      BY <1>3 DEF TurnStale, LeaseExpires
    <2>2. row[s] \in Row
      BY DEF TypeOK
    <2>3. /\ [row[s] EXCEPT !.stale = TRUE] \in Row
          /\ [row[s] EXCEPT !.leased = FALSE] \in Row
      BY <2>2 DEF Row
    <2>4. row' \in [Signal -> Row]
      BY <2>1, <2>3 DEF TypeOK
    <2> QED  BY <1>3, <2>4 DEF TurnStale, LeaseExpires, TypeOK
  <1>4. CASE UNCHANGED vars
    BY <1>4 DEF vars, TypeOK
  <1> QED  BY <1>1, <1>2, <1>3, <1>4 DEF Next

\* Every variable keeps its type; in particular requeue_attempts never passes
\* the cap of the claim.
THEOREM TypeCorrect == Spec => []TypeOK
  <1>1. Init => TypeOK
    BY InitTypes
  <1>2. TypeOK /\ [Next]_vars => TypeOK'
    BY TypesStep
  <1> QED  BY <1>1, <1>2, PTL DEF Spec

-----------------------------------------------------------------------------
(***************************************************************************)
(* What is marked or answered was sent.                                    *)
(***************************************************************************)

\* A send is never undone.
LEMMA SendsGrow ==
    ASSUME TypeOK, [Next]_vars
    PROVE  \A s \in Signal : sends[s] > 0 => sends'[s] > 0
  <1>1. CASE \E d \in Delivery : DeliveryStep(d)
    <2> PICK d \in Delivery : DeliveryStep(d)
      BY <1>1
    <2>1. UNCHANGED sends \/ SendError(sig[d])
      BY DEF DeliveryStep, Upsert, Reload, Send, MarkQueued, MarkFailed, Die,
             SendError
    <2> QED  BY <2>1 DEF SendError, Sent, TypeOK
  <1>2. CASE \E k \in Sweep : SweepStep(k) \/ KillSweep(k)
    <2>1. UNCHANGED sends \/ \E s \in Signal : SendError(s)
      BY <1>2 DEF SweepStep, KillSweep, Claim, Requeue, MarkRequeued,
                  ReportExhausted, SendError, TypeOK, SweepState
    <2> QED  BY <2>1 DEF SendError, Sent, TypeOK
  <1>3. CASE UNCHANGED sends
    BY <1>3
  <1> QED  BY <1>1, <1>2, <1>3 DEF Next, TurnStale, LeaseExpires, vars

\* The passing of time changes no status.
LEMMA TimeKeepsStatus ==
    ASSUME TypeOK, \E s \in Signal : TurnStale(s) \/ LeaseExpires(s)
    PROVE  \A s \in Signal : row'[s].status = row[s].status
  <1>1. PICK s \in Signal : \/ row' = [row EXCEPT ![s].stale = TRUE]
                            \/ row' = [row EXCEPT ![s].leased = FALSE]
    BY DEF TurnStale, LeaseExpires
  <1>2. row[s] \in Row
    BY DEF TypeOK
  <1>3. /\ [row[s] EXCEPT !.stale = TRUE].status = row[s].status
        /\ [row[s] EXCEPT !.leased = FALSE].status = row[s].status
    BY <1>2 DEF Row
  <1> QED  BY <1>1, <1>3 DEF TypeOK

\* A write of a committed row leaves it committed.
LEMMA WriteRowStays ==
    ASSUME TypeOK, NEW s \in Signal, NEW r \in Row, WriteRow(s, r),
           row[s].status /= "none" => r.status /= "none"
    PROVE  \A t \in Signal : row[t].status /= "none" => row'[t].status /= "none"
  BY DEF WriteRow, TypeOK

\* Rows are never deleted.
LEMMA RowsStay ==
    ASSUME SentInv, [Next]_vars
    PROVE  \A s \in Signal : row[s].status /= "none" => row'[s].status /= "none"
  <1> USE DEF SentInv
  <1>0. ASSUME NEW r \in Row, r.status /= "none"
        PROVE  MarkedQueued(r) \in Row /\ MarkedQueued(r).status /= "none"
    BY <1>0, MarkedQueuedIsRow DEF MarkedQueued, Row
  <1>1. CASE \E d \in Delivery : DeliveryStep(d)
    <2> PICK d \in Delivery : DeliveryStep(d)
      BY <1>1
    <2> sig[d] \in Signal /\ row[sig[d]] \in Row
      BY DEF TypeOK
    <2>1. CASE Upsert(d)
      BY <2>1 DEF Upsert, TypeOK
    <2>2. CASE MarkQueued(d)
      <3>1. MarkedQueued(row[sig[d]]) \in Row
        BY MarkedQueuedIsRow
      <3> QED  BY <1>0, <2>2, <3>1, WriteRowStays DEF MarkQueued
    <2>3. CASE MarkFailed(d)
      <3> DEFINE r == [row[sig[d]] EXCEPT !.status = "queue_failed", !.leased = FALSE]
      <3>1. r \in Row /\ r.status /= "none"
        BY DEF Row
      <3>2. WriteRow(sig[d], r)
        BY <2>3 DEF MarkFailed
      <3> HIDE DEF r
      <3> QED  BY <3>1, <3>2, WriteRowStays
    <2> QED  BY <2>1, <2>2, <2>3 DEF DeliveryStep, Reload, Send, Die
  <1>2. CASE \E k \in Sweep : SweepStep(k) \/ KillSweep(k)
    <2> PICK k \in Sweep : SweepStep(k) \/ KillSweep(k)
      BY <1>2
    <2>1. CASE Claim(k)
      <3>1. \A s \in Signal : row[s] \in Row /\ Claimed(row[s]).status = row[s].status
        BY DEF Claimed, TypeOK, Row
      <3> QED  BY <2>1, <3>1 DEF Claim
    <2>2. CASE MarkRequeued(k)
      <3>1. sweep[k].cur \in Signal
        BY <2>2 DEF MarkRequeued, SweepSent
      <3>2. row[sweep[k].cur] \in Row /\ MarkedQueued(row[sweep[k].cur]) \in Row
        BY <3>1, MarkedQueuedIsRow DEF TypeOK
      <3> QED  BY <1>0, <2>2, <3>1, <3>2, WriteRowStays DEF MarkRequeued
    <2> QED
      BY <2>1, <2>2 DEF SweepStep, KillSweep, Requeue, ReportExhausted
  <1>3. CASE \E s \in Signal : TurnStale(s) \/ LeaseExpires(s)
    BY <1>3, TimeKeepsStatus
  <1>4. CASE UNCHANGED vars
    BY <1>4 DEF vars
  <1> QED  BY <1>1, <1>2, <1>3, <1>4 DEF Next

\* A status write that may only turn a row into a queued one where something
\* was sent keeps queued rows backed by a message.
LEMMA MarkKeepsQueuedSent ==
    ASSUME TypeOK, QueuedMeansSent, NEW s \in Signal, NEW r \in Row,
           WriteRow(s, r), r.status = "queued" => sends[s] > 0
    PROVE  \A t \in Signal : row'[t].status = "queued" => sends[t] > 0
  <1>1. CASE row' = [row EXCEPT ![s] = r]
    BY <1>1 DEF TypeOK, QueuedMeansSent
  <1>2. CASE row' = row
    BY <1>2 DEF QueuedMeansSent
  <1> QED  BY <1>1, <1>2 DEF WriteRow

\* A step of a delivery keeps the invariant.
LEMMA DeliveryStepSent ==
    ASSUME SentInv, TypeOK', NEW d \in Delivery, DeliveryStep(d)
    PROVE  /\ QueuedMeansSent' /\ OkMeansSent' /\ DeliverySent' /\ SweepSent'
           /\ ReloadFinds'
  <1> USE DEF SentInv
  <1> sig[d] \in Signal /\ row[sig[d]] \in Row
    BY DEF TypeOK
  <1>1. \A s \in Signal : sends[s] > 0 => sends'[s] > 0
    BY SendsGrow DEF Next
  <1>2. SweepSent'
    <2>1. UNCHANGED sweep
      BY DEF DeliveryStep, Upsert, Reload, Send, MarkQueued, MarkFailed, Die
    <2> QED  BY <1>1, <2>1 DEF SweepSent
  <1>3. QueuedMeansSent'
    <2>1. CASE Upsert(d)
      <3>1. \A s \in Signal : row'[s].status = "queued" => row[s].status = "queued"
        BY <2>1 DEF Upsert, TypeOK, NewRow, NoRow
      <3> QED  BY <1>1, <3>1 DEF QueuedMeansSent
    <2>2. CASE MarkQueued(d)
      <3>1. MarkedQueued(row[sig[d]]) \in Row
        BY MarkedQueuedIsRow
      <3>2. sends[sig[d]] > 0
        BY <2>2 DEF MarkQueued, DeliverySent
      <3>3. \A t \in Signal : row'[t].status = "queued" => sends[t] > 0
        BY <2>2, <3>1, <3>2, MarkKeepsQueuedSent DEF MarkQueued
      <3> QED  BY <1>1, <3>3 DEF QueuedMeansSent
    <2>3. CASE MarkFailed(d)
      <3> DEFINE r == [row[sig[d]] EXCEPT !.status = "queue_failed", !.leased = FALSE]
      <3>1. r \in Row /\ r.status = "queue_failed"
        BY DEF Row
      <3>2. WriteRow(sig[d], r)
        BY <2>3 DEF MarkFailed
      <3>3. \A t \in Signal : row'[t].status = "queued" => sends[t] > 0
        <4> HIDE DEF r
        <4> QED  BY <3>1, <3>2, MarkKeepsQueuedSent
      <3> QED  BY <1>1, <3>3 DEF QueuedMeansSent
    <2>4. CASE UNCHANGED row
      BY <1>1, <2>4 DEF QueuedMeansSent
    <2> QED
      BY <2>1, <2>2, <2>3, <2>4 DEF DeliveryStep, Reload, Send, Die
  <1>4. OkMeansSent' /\ DeliverySent'
    <2>1. CASE Upsert(d) \/ MarkFailed(d) \/ Die(d)
      <3>1. /\ \A e \in Delivery : answer'[e] = "ok" => answer[e] = "ok"
            /\ \A e \in Delivery : at'[e] = "queued" => at[e] = "queued"
            /\ UNCHANGED sig
        BY <2>1 DEF Upsert, MarkFailed, Die, GoTo, Respond, TypeOK
      <3> QED  BY <1>1, <3>1 DEF OkMeansSent, DeliverySent, TypeOK
    <2>2. CASE Reload(d)
      <3>1. /\ \A e \in Delivery : at'[e] = "queued" => at[e] = "queued"
            /\ UNCHANGED sig
        BY <2>2 DEF Reload, Decided, GoTo, Respond, TypeOK
      <3>2. \A e \in Delivery \ {d} : answer'[e] = answer[e]
        BY <2>2 DEF Reload, Decided, GoTo, Respond, TypeOK
      <3>3. CASE Respond(d, "ok") /\ row[sig[d]].status = "queued"
        <4>1. sends[sig[d]] > 0
          BY <3>3 DEF QueuedMeansSent
        <4> QED  BY <1>1, <3>1, <3>2, <4>1 DEF OkMeansSent, DeliverySent, TypeOK
      <3>4. CASE GoTo(d, "send") \/ Respond(d, "infra")
        <4>1. answer'[d] = "ok" => answer[d] = "ok"
          BY <3>4 DEF GoTo, Respond, TypeOK
        <4> QED  BY <1>1, <3>1, <3>2, <4>1 DEF OkMeansSent, DeliverySent, TypeOK
      <3>5. decideDuplicateAction(row[sig[d]]) = "dedup_success"
               => row[sig[d]].status \notin {"accepted", "queue_failed"}
        BY DEF decideDuplicateAction, Pending
      <3>6. at[d] = "reload" /\ row[sig[d]].status /= "none"
        BY <2>2 DEF Reload, ReloadFinds
      <3> QED  BY <2>2, <3>3, <3>4, <3>5, <3>6 DEF Reload, Decided, Row
    <2>3. CASE Send(d)
      <3>1. CASE Sent(sig[d]) /\ GoTo(d, "queued")
        <4>1. sends'[sig[d]] > 0
          BY <3>1 DEF Sent, TypeOK
        <4> QED  BY <1>1, <3>1, <4>1 DEF GoTo, OkMeansSent, DeliverySent, TypeOK
      <3>2. CASE GoTo(d, "failed")
        BY <1>1, <3>2 DEF GoTo, OkMeansSent, DeliverySent, TypeOK
      <3> QED  BY <2>3, <3>1, <3>2 DEF Send
    <2>4. CASE MarkQueued(d)
      <3>1. sends[sig[d]] > 0 /\ Respond(d, "ok")
        BY <2>4 DEF MarkQueued, DeliverySent
      <3> QED  BY <1>1, <3>1 DEF Respond, OkMeansSent, DeliverySent, TypeOK
    <2> QED  BY <2>1, <2>2, <2>3, <2>4 DEF DeliveryStep
  <1>5. ReloadFinds'
    <2>1. \A s \in Signal : row[s].status /= "none" => row'[s].status /= "none"
      BY RowsStay DEF Next
    <2>2. UNCHANGED sig /\ \A e \in Delivery \ {d} : at'[e] = at[e]
      BY DEF DeliveryStep, Upsert, Reload, Decided, Send, MarkQueued,
             MarkFailed, Die, GoTo, Respond, TypeOK
    <2>3. at'[d] = "reload" => row[sig[d]].status /= "none"
      BY DEF DeliveryStep, Upsert, Reload, Decided, Send, MarkQueued,
             MarkFailed, Die, GoTo, Respond, TypeOK
    <2> QED  BY <2>1, <2>2, <2>3 DEF ReloadFinds, TypeOK
  <1> QED  BY <1>2, <1>3, <1>4, <1>5

\* A step of a sweep keeps the invariant.
LEMMA SweepStepSent ==
    ASSUME SentInv, TypeOK', NEW k \in Sweep, SweepStep(k) \/ KillSweep(k)
    PROVE  /\ QueuedMeansSent' /\ OkMeansSent' /\ DeliverySent' /\ SweepSent'
           /\ ReloadFinds'
  <1> USE DEF SentInv
  <1> sweep[k] \in SweepState
    BY DEF TypeOK
  <1>1. \A s \in Signal : sends[s] > 0 => sends'[s] > 0
    BY SendsGrow DEF Next
  <1>2. OkMeansSent' /\ DeliverySent'
    <2>1. UNCHANGED <<at, sig, answer>>
      BY DEF SweepStep, KillSweep, Claim, Requeue, MarkRequeued, ReportExhausted
    <2> QED  BY <1>1, <2>1 DEF OkMeansSent, DeliverySent, TypeOK
  <1>3. QueuedMeansSent'
    <2>1. CASE Claim(k)
      <3>1. \A s \in Signal : row[s] \in Row /\ Claimed(row[s]).status = row[s].status
        BY DEF Claimed, TypeOK, Row
      <3>2. \A s \in Signal : row'[s].status = row[s].status
        BY <2>1, <3>1 DEF Claim
      <3> QED  BY <1>1, <3>2 DEF QueuedMeansSent
    <2>2. CASE MarkRequeued(k)
      <3>1. sweep[k].cur \in Signal /\ sends[sweep[k].cur] > 0
        BY <2>2 DEF MarkRequeued, SweepSent
      <3>2. MarkedQueued(row[sweep[k].cur]) \in Row
        BY <3>1, MarkedQueuedIsRow DEF TypeOK
      <3>3. \A t \in Signal : row'[t].status = "queued" => sends[t] > 0
        BY <2>2, <3>1, <3>2, MarkKeepsQueuedSent DEF MarkRequeued
      <3> QED  BY <1>1, <3>3 DEF QueuedMeansSent
    <2>3. CASE UNCHANGED row
      BY <1>1, <2>3 DEF QueuedMeansSent
    <2> QED  BY <2>1, <2>2, <2>3 DEF SweepStep, KillSweep, Requeue, ReportExhausted
  <1>4. SweepSent'
    <2>1. \A j \in Sweep \ {k} : sweep'[j] = sweep[j]
      BY DEF SweepStep, KillSweep, Claim, Requeue, MarkRequeued,
             ReportExhausted, TypeOK
    <2>2. sweep'[k].at = "mark" =>
            sweep'[k].cur \in Signal /\ sends'[sweep'[k].cur] > 0
      <3>1. CASE Requeue(k)
        <4>1. PICK s \in sweep[k].rows :
                \/ /\ Sent(s)
                   /\ sweep' = [sweep EXCEPT ![k].at = "mark", ![k].cur = s,
                                             ![k].rows = @ \ {s}]
                \/ sweep' = [sweep EXCEPT ![k].rows = @ \ {s}]
          BY <3>1 DEF Requeue
        <4>2. s \in Signal
          BY <4>1 DEF SweepState
        <4>3. CASE Sent(s) /\ sweep'[k].cur = s
          BY <4>2, <4>3 DEF Sent, TypeOK
        <4>4. CASE sweep' = [sweep EXCEPT ![k].rows = @ \ {s}]
          BY <3>1, <4>4 DEF Requeue, TypeOK, SweepState
        <4>5. sweep' = [sweep EXCEPT ![k].at = "mark", ![k].cur = s,
                                     ![k].rows = @ \ {s}] => sweep'[k].cur = s
          BY DEF TypeOK, SweepState
        <4> QED  BY <4>1, <4>3, <4>4, <4>5
      <3>2. CASE Claim(k)
        <4>1. PICK rows : \/ sweep' = [sweep EXCEPT ![k] =
                                 [IdleSweep EXCEPT !.at = "next", !.rows = rows]]
                          \/ UNCHANGED sweep
          BY <3>2 DEF Claim
        <4>2. [IdleSweep EXCEPT !.at = "next", !.rows = rows].at = "next"
          BY DEF IdleSweep
        <4>3. sweep[k].at = "idle"
          BY <3>2 DEF Claim
        <4>4. sweep'[k].at /= "mark"
          BY <4>1, <4>2, <4>3 DEF TypeOK
        <4> QED  BY <4>4
      <3>3. CASE MarkRequeued(k) \/ ReportExhausted(k) \/ KillSweep(k)
        <4>1. sweep'[k].at /= "mark"
          BY <3>3 DEF MarkRequeued, ReportExhausted, KillSweep, IdleSweep,
                      TypeOK, SweepState
        <4> QED  BY <4>1
      <3> QED  BY <3>1, <3>2, <3>3 DEF SweepStep
    <2>3. \A j \in Sweep : sweep'[j].at = "mark" =>
            sweep'[j].cur \in Signal /\ sends'[sweep'[j].cur] > 0
      BY <1>1, <2>1, <2>2 DEF SweepSent
    <2> QED  BY <2>3 DEF SweepSent
  <1>5. ReloadFinds'
    <2>1. \A s \in Signal : row[s].status /= "none" => row'[s].status /= "none"
      BY RowsStay DEF Next
    <2>2. UNCHANGED <<at, sig>>
      BY DEF SweepStep, KillSweep, Claim, Requeue, MarkRequeued, ReportExhausted
    <2> QED  BY <2>1, <2>2 DEF ReloadFinds, TypeOK
  <1> QED  BY <1>2, <1>3, <1>4, <1>5

\* The strengthened invariant holds of every execution.
THEOREM SentInvariant == Spec => []SentInv
  <1>1. Init => SentInv
    BY InitTypes DEF Init, SentInv, QueuedMeansSent, OkMeansSent, DeliverySent,
                     SweepSent, ReloadFinds, NoRow, IdleSweep
  <1>2. SentInv /\ [Next]_vars => SentInv'
    <2> SUFFICES ASSUME SentInv, [Next]_vars PROVE SentInv'
      OBVIOUS
    <2>1. TypeOK'
      BY TypesStep DEF SentInv
    <2>2. CASE \E d \in Delivery : DeliveryStep(d)
      BY <2>1, <2>2, DeliveryStepSent DEF SentInv
    <2>3. CASE \E k \in Sweep : SweepStep(k) \/ KillSweep(k)
      BY <2>1, <2>3, SweepStepSent DEF SentInv
    <2>4. CASE \E s \in Signal : TurnStale(s) \/ LeaseExpires(s)
      <3>1. /\ UNCHANGED <<sends, at, sig, answer, sweep>>
            /\ \A s \in Signal : row'[s].status = row[s].status
        BY <2>4, TimeKeepsStatus DEF TurnStale, LeaseExpires, SentInv
      <3> QED
        BY <2>1, <3>1 DEF SentInv, QueuedMeansSent, OkMeansSent, DeliverySent,
                          SweepSent, ReloadFinds, TypeOK
    <2>5. CASE UNCHANGED vars
      BY <2>1, <2>5 DEF vars, SentInv, QueuedMeansSent, OkMeansSent,
                        DeliverySent, SweepSent, ReloadFinds
    <2> QED  BY <2>2, <2>3, <2>4, <2>5 DEF Next
  <1> QED  BY <1>1, <1>2, PTL DEF Spec

\* A row that reads 'queued' has a message behind it, for any number of
\* deliveries and overlapping sweeps, any batch and any attempt cap.
THEOREM QueuedIsBacked == Spec => []QueuedMeansSent
  <1>1. SentInv => QueuedMeansSent
    BY DEF SentInv
  <1> QED  BY <1>1, SentInvariant, PTL

\* A delivery answered 200 has its signal in the queue.
THEOREM OkIsBacked == Spec => []OkMeansSent
  <1>1. SentInv => OkMeansSent
    BY DEF SentInv
  <1> QED  BY <1>1, SentInvariant, PTL

-----------------------------------------------------------------------------
(***************************************************************************)
(* Copies are bounded. The property counts what may have been sent; what   *)
(* is still to be sent by a sweep has to be counted with what was.         *)
(***************************************************************************)

\* The deliveries that are past their send, and the sweeps that have the
\* signal ahead of them.
Past(s) == {d \in Delivery : sig[d] = s /\ at[d] \in {"queued", "failed", "done"}}
Claims(s) == {k \in Sweep : s \in sweep[k].rows}

\* Every message, and every one that a sweep will send, is that of a delivery
\* or of a claim that counted its attempt.
Counted ==
    \A s \in Signal :
        /\ row[s].status = "none" => row[s].attempts = 0
        /\ IsFiniteSet(Claims(s))
        /\ sends[s] + Cardinality(Claims(s)) <= row[s].attempts + Cardinality(Past(s))

\* What a step may do to a signal's count: nothing, or less to be sent; a claim
\* that counts the attempt; a sweep's send; a delivery's send.
Kept(s) ==
    /\ sends'[s] = sends[s] /\ row'[s].attempts = row[s].attempts
    /\ Claims(s)' \subseteq Claims(s)
ClaimCounts(s) ==
    /\ row[s].status # "none"
    /\ sends'[s] = sends[s] /\ row'[s].attempts = row[s].attempts + 1
    /\ \E k \in Sweep : Claims(s)' \subseteq Claims(s) \cup {k}
SweepSends(s) ==
    /\ sends'[s] <= sends[s] + 1 /\ row'[s].attempts = row[s].attempts
    /\ \E k \in Claims(s) : Claims(s)' = Claims(s) \ {k}
DeliverySends(s) ==
    /\ sends'[s] <= sends[s] + 1 /\ row'[s].attempts = row[s].attempts
    /\ Claims(s)' = Claims(s)
    /\ \E d \in Delivery \ Past(s) : d \in Past(s)'

\* Deliveries are finitely many.
LEMMA PastFinite ==
    ASSUME NEW s
    PROVE  /\ IsFiniteSet(Past(s)) /\ Cardinality(Past(s)) \in Nat
           /\ IsFiniteSet(Past(s)') /\ Cardinality(Past(s)') \in Nat
  <1>1. Past(s) \in SUBSET Delivery /\ Past(s)' \in SUBSET Delivery
    BY DEF Past
  <1> QED  BY <1>1, ConstantsOK, FS_Subset, FS_CardinalityType

\* A delivery that has sent, or died, stays so.
LEMMA PastGrows ==
    ASSUME TypeOK, [Next]_vars, NEW s \in Signal
    PROVE  Past(s) \subseteq Past(s)'
  <1>1. ASSUME NEW d \in Delivery, DeliveryStep(d)
        PROVE  /\ UNCHANGED sig /\ \A e \in Delivery \ {d} : at'[e] = at[e]
               /\ at[d] \in {"queued", "failed", "done"} =>
                    at'[d] \in {"queued", "failed", "done"}
    BY <1>1 DEF DeliveryStep, Upsert, Reload, Decided, Send, MarkQueued,
       MarkFailed, Die, GoTo, Respond, TypeOK
  <1>2. \/ UNCHANGED <<at, sig>>
        \/ \E d \in Delivery : DeliveryStep(d)
    BY DEF Next, SweepStep, Claim, Requeue, MarkRequeued, ReportExhausted,
       KillSweep, TurnStale, LeaseExpires, vars
  <1> QED  BY <1>1, <1>2 DEF Past

\* The four ways keep the count.
LEMMA CountKept ==
    ASSUME TypeOK, TypeOK', [Next]_vars, Counted, NEW s \in Signal,
           Kept(s) \/ ClaimCounts(s) \/ SweepSends(s) \/ DeliverySends(s)
    PROVE  /\ IsFiniteSet(Claims(s)')
           /\ sends'[s] + Cardinality(Claims(s)') <=
                row'[s].attempts + Cardinality(Past(s)')
  <1> DEFINE C == Cardinality(Claims(s))
             D == Cardinality(Claims(s)')
             P == Cardinality(Past(s))
             Q == Cardinality(Past(s)')
  <1>1. IsFiniteSet(Claims(s)) /\ C \in Nat /\ P \in Nat /\ Q \in Nat
    BY PastFinite, FS_CardinalityType DEF Counted
  <1>2. /\ sends[s] \in Nat /\ sends'[s] \in Nat
        /\ row[s].attempts \in Nat /\ row'[s].attempts \in Nat
    BY ConstantsOK DEF TypeOK, Row
  <1>3. P <= Q
    BY PastGrows, PastFinite, FS_Subset
  <1>4. sends[s] + C <= row[s].attempts + P
    BY DEF Counted
  <1>5. CASE Kept(s)
    <2>1. IsFiniteSet(Claims(s)') /\ D <= C
      BY <1>1, <1>5, FS_Subset DEF Kept
    <2>2. D \in Nat
      BY <2>1, FS_CardinalityType
    <2> HIDE DEF C, D, P, Q
    <2> QED  BY <1>1, <1>2, <1>3, <1>4, <1>5, <2>1, <2>2 DEF Kept, D, Q
  <1>6. CASE ClaimCounts(s)
    <2>1. PICK k \in Sweep : Claims(s)' \subseteq Claims(s) \cup {k}
      BY <1>6 DEF ClaimCounts
    <2>2. /\ IsFiniteSet(Claims(s) \cup {k})
          /\ Cardinality(Claims(s) \cup {k}) =
               IF k \in Claims(s) THEN C ELSE C + 1
      BY <1>1, FS_AddElement
    <2>3. IsFiniteSet(Claims(s)') /\ D <= Cardinality(Claims(s) \cup {k})
      BY <2>1, <2>2, FS_Subset
    <2>4. D \in Nat
      BY <2>3, FS_CardinalityType
    <2>5. D <= C + 1
      <3> HIDE DEF C, D, P, Q
      <3> QED  BY <1>1, <2>2, <2>3, <2>4
    <2> HIDE DEF C, D, P, Q
    <2> QED  BY <1>1, <1>2, <1>3, <1>4, <1>6, <2>3, <2>4, <2>5 DEF ClaimCounts, D, Q
  <1>7. CASE SweepSends(s)
    <2>1. PICK k \in Claims(s) : Claims(s)' = Claims(s) \ {k}
      BY <1>7 DEF SweepSends
    <2>2. IsFiniteSet(Claims(s)') /\ D = C - 1
      BY <1>1, <2>1, FS_RemoveElement
    <2> HIDE DEF C, D, P, Q
    <2> QED  BY <1>1, <1>2, <1>3, <1>4, <1>7, <2>2 DEF SweepSends, D, Q
  <1>8. CASE DeliverySends(s)
    <2>1. PICK d \in Delivery \ Past(s) : d \in Past(s)'
      BY <1>8 DEF DeliverySends
    <2>2. Past(s) \cup {d} \subseteq Past(s)'
      BY <2>1, PastGrows
    <2>3. Cardinality(Past(s) \cup {d}) = P + 1
      BY <2>1, PastFinite, FS_AddElement
    <2>4. P + 1 <= Q
      BY <2>2, <2>3, PastFinite, FS_Subset
    <2>5. IsFiniteSet(Claims(s)') /\ D = C
      BY <1>1, <1>8 DEF DeliverySends
    <2> HIDE DEF C, D, P, Q
    <2> QED  BY <1>1, <1>2, <1>4, <1>8, <2>4, <2>5 DEF DeliverySends, D, Q
  <1> QED  BY <1>5, <1>6, <1>7, <1>8

\* A status write leaves the attempts alone.
LEMMA WriteKeepsAttempts ==
    ASSUME TypeOK, NEW s \in Signal, NEW r \in Row, WriteRow(s, r),
           r.attempts = row[s].attempts
    PROVE  \A t \in Signal : row'[t].attempts = row[t].attempts
  BY DEF WriteRow, TypeOK

\* A step of the webhook: only a send bears on the count.
LEMMA DeliveryCounts ==
    ASSUME SentInv, Counted, NEW d \in Delivery, DeliveryStep(d), NEW s \in Signal
    PROVE  Kept(s) \/ DeliverySends(s)
  <1> USE DEF SentInv
  <1> sig[d] \in Signal /\ row[sig[d]] \in Row
    BY DEF TypeOK
  <1>1. Claims(s)' = Claims(s)
    BY DEF DeliveryStep, Upsert, Reload, Send, MarkQueued, MarkFailed, Die, Claims
  <1>2. row'[s].attempts = row[s].attempts
    <2>1. CASE Upsert(d)
      <3>1. row[sig[d]].status = "none" => NewRow.attempts = row[sig[d]].attempts
        BY DEF Counted, NewRow, NoRow
      <3> QED  BY <2>1, <3>1 DEF Upsert, TypeOK
    <2>2. CASE MarkQueued(d)
      <3>1. /\ MarkedQueued(row[sig[d]]) \in Row
            /\ MarkedQueued(row[sig[d]]).attempts = row[sig[d]].attempts
        BY MarkedQueuedIsRow DEF MarkedQueued, Row
      <3> QED  BY <2>2, <3>1, WriteKeepsAttempts DEF MarkQueued
    <2>3. CASE MarkFailed(d)
      <3> DEFINE r == [row[sig[d]] EXCEPT !.status = "queue_failed", !.leased = FALSE]
      <3>1. r \in Row /\ r.attempts = row[sig[d]].attempts
        BY DEF Row
      <3>2. WriteRow(sig[d], r)
        BY <2>3 DEF MarkFailed
      <3> HIDE DEF r
      <3> QED  BY <3>1, <3>2, WriteKeepsAttempts
    <2> QED  BY <2>1, <2>2, <2>3 DEF DeliveryStep, Reload, Send, Die
  <1>3. CASE UNCHANGED sends
    BY <1>1, <1>2, <1>3 DEF Kept
  <1>4. CASE Send(d)
    <2>1. CASE s = sig[d]
      <3>1. sends'[s] <= sends[s] + 1
        BY <1>4, <2>1 DEF Send, SendError, Sent, TypeOK
      <3>2. d \notin Past(s) /\ d \in Past(s)'
        BY <1>4, <2>1 DEF Send, GoTo, Past, TypeOK
      <3> QED  BY <1>1, <1>2, <3>1, <3>2 DEF DeliverySends
    <2>2. CASE s # sig[d]
      <3>1. sends'[s] = sends[s]
        BY <1>4, <2>2 DEF Send, SendError, Sent, TypeOK
      <3> QED  BY <1>1, <1>2, <3>1 DEF Kept
    <2> QED  BY <2>1, <2>2
  <1> QED
    BY <1>3, <1>4 DEF DeliveryStep, Upsert, Reload, MarkQueued, MarkFailed, Die

\* A step of a sweep: a claim counts its attempts, a send takes its row off.
LEMMA SweepCounts ==
    ASSUME SentInv, Counted, NEW k \in Sweep, SweepStep(k) \/ KillSweep(k),
           NEW s \in Signal
    PROVE  Kept(s) \/ ClaimCounts(s) \/ SweepSends(s)
  <1> USE DEF SentInv
  <1> sweep[k] \in SweepState /\ row[s] \in Row
    BY DEF TypeOK
  <1>1. \A j \in Sweep \ {k} : sweep'[j] = sweep[j]
    BY DEF SweepStep, KillSweep, Claim, Requeue, MarkRequeued, ReportExhausted,
       TypeOK
  <1>2. CASE Claim(k)
    <2>1. PICK rows \in SUBSET {t \in Signal : Eligible(t)} :
            /\ row' = [t \in Signal |->
                         IF t \in rows THEN Claimed(row[t]) ELSE row[t]]
            /\ \/ sweep' = [sweep EXCEPT ![k] = [IdleSweep EXCEPT !.at = "next",
                                                                  !.rows = rows]]
               \/ UNCHANGED sweep
      BY <1>2 DEF Claim
    <2>2. UNCHANGED sends
      BY <1>2 DEF Claim
    <2>3. UNCHANGED sweep \/ sweep'[k].rows = rows
      BY <2>1 DEF TypeOK, IdleSweep
    <2>4. CASE s \in rows
      <3>1. row'[s].attempts = row[s].attempts + 1
        BY <2>1, <2>4 DEF Claimed, Row
      <3>2. Claims(s)' \subseteq Claims(s) \cup {k}
        BY <1>1 DEF Claims
      <3>3. row[s].status # "none"
        BY <2>4 DEF Eligible, Pending
      <3> QED  BY <2>2, <3>1, <3>2, <3>3 DEF ClaimCounts
    <2>5. CASE s \notin rows
      <3>1. row'[s] = row[s]
        BY <2>1, <2>5
      <3>2. Claims(s)' \subseteq Claims(s)
        BY <1>1, <2>3, <2>5 DEF Claims
      <3> QED  BY <2>2, <3>1, <3>2 DEF Kept
    <2> QED  BY <2>4, <2>5
  <1>3. CASE Requeue(k)
    <2>1. PICK t \in sweep[k].rows :
            SendError(t) /\ sweep'[k].rows = sweep[k].rows \ {t}
      BY <1>3 DEF Requeue, SendError, TypeOK, SweepState
    <2>2. row' = row
      BY <1>3 DEF Requeue
    <2>3. CASE s = t
      <3>1. sends'[s] <= sends[s] + 1
        BY <2>1, <2>3 DEF SendError, Sent, TypeOK
      <3>2. k \in Claims(s) /\ Claims(s)' = Claims(s) \ {k}
        BY <1>1, <2>1, <2>3 DEF Claims
      <3> QED  BY <2>2, <3>1, <3>2 DEF SweepSends
    <2>4. CASE s # t
      <3>1. sends'[s] = sends[s]
        BY <2>1, <2>4 DEF SendError, Sent, TypeOK
      <3>2. Claims(s)' \subseteq Claims(s)
        BY <1>1, <2>1 DEF Claims
      <3> QED  BY <2>2, <3>1, <3>2 DEF Kept
    <2> QED  BY <2>3, <2>4
  <1>4. CASE MarkRequeued(k) \/ ReportExhausted(k) \/ KillSweep(k)
    <2>1. UNCHANGED sends
      BY <1>4 DEF MarkRequeued, ReportExhausted, KillSweep
    <2>2. sweep'[k].rows \subseteq sweep[k].rows
      BY <1>4 DEF MarkRequeued, ReportExhausted, KillSweep, IdleSweep, TypeOK,
         SweepState
    <2>3. Claims(s)' \subseteq Claims(s)
      BY <1>1, <2>2 DEF Claims
    <2>4. row'[s].attempts = row[s].attempts
      <3>1. CASE MarkRequeued(k)
        <4>1. sweep[k].cur \in Signal
          BY <3>1 DEF MarkRequeued, SweepSent
        <4>2. row[sweep[k].cur] \in Row
          BY <4>1 DEF TypeOK
        <4>3. /\ MarkedQueued(row[sweep[k].cur]) \in Row
              /\ MarkedQueued(row[sweep[k].cur]).attempts = row[sweep[k].cur].attempts
          BY <4>2, MarkedQueuedIsRow DEF MarkedQueued, Row
        <4> QED  BY <3>1, <4>1, <4>3, WriteKeepsAttempts DEF MarkRequeued
      <3>2. CASE row' = row
        BY <3>2
      <3> QED  BY <1>4, <3>1, <3>2 DEF ReportExhausted, KillSweep
    <2> QED  BY <2>1, <2>3, <2>4 DEF Kept
  <1> QED  BY <1>2, <1>3, <1>4 DEF SweepStep

\* The passing of time changes no attempts.
LEMMA TimeKeepsAttempts ==
    ASSUME TypeOK, \E s \in Signal : TurnStale(s) \/ LeaseExpires(s)
    PROVE  \A s \in Signal : row'[s].attempts = row[s].attempts
  <1>1. PICK s \in Signal : \/ row' = [row EXCEPT ![s].stale = TRUE]
                            \/ row' = [row EXCEPT ![s].leased = FALSE]
    BY DEF TurnStale, LeaseExpires
  <1>2. row[s] \in Row
    BY DEF TypeOK
  <1>3. /\ [row[s] EXCEPT !.stale = TRUE].attempts = row[s].attempts
        /\ [row[s] EXCEPT !.leased = FALSE].attempts = row[s].attempts
    BY <1>2 DEF Row
  <1> QED  BY <1>1, <1>3 DEF TypeOK

\* Every step goes one of the four ways.
LEMMA CountedStep ==
    ASSUME SentInv, SentInv', Counted, [Next]_vars
    PROVE  Counted'
  <1> SUFFICES ASSUME NEW s \in Signal
               PROVE  Kept(s) \/ ClaimCounts(s) \/ SweepSends(s) \/ DeliverySends(s)
    <2> SUFFICES ASSUME NEW s \in Signal
                 PROVE  /\ row'[s].status = "none" => row'[s].attempts = 0
                        /\ IsFiniteSet(Claims(s)')
                        /\ sends'[s] + Cardinality(Claims(s)') <=
                             row'[s].attempts + Cardinality(Past(s)')
      BY DEF Counted
    <2>1. row'[s].status = "none" => row[s].status = "none" /\ row[s].attempts = 0
      BY RowsStay DEF Counted
    <2> QED
      BY <2>1, CountKept
      DEF SentInv, Kept, ClaimCounts, SweepSends, DeliverySends
  <1>1. CASE \E d \in Delivery : DeliveryStep(d)
    BY <1>1, DeliveryCounts
  <1>2. CASE \E k \in Sweep : SweepStep(k) \/ KillSweep(k)
    BY <1>2, SweepCounts
  <1>3. CASE \E t \in Signal : TurnStale(t) \/ LeaseExpires(t)
    <2>1. row'[s].attempts = row[s].attempts
      BY <1>3, TimeKeepsAttempts DEF SentInv
    <2> QED  BY <1>3, <2>1 DEF TurnStale, LeaseExpires, Kept, Claims
  <1>4. CASE UNCHANGED vars
    BY <1>4 DEF vars, Kept, Claims
  <1> QED  BY <1>1, <1>2, <1>3, <1>4 DEF Next

\* However many deliveries and sweeps overlap, die or hear errors, a signal has
\* no more messages than the deliveries that came to send it and the attempts
\* that the claim has counted.
THEOREM CopiesAreBounded == Spec => []SendsAreCounted
  <1>1. Init => Counted
    <2> SUFFICES ASSUME Init, NEW s \in Signal
                 PROVE  /\ row[s].attempts = 0 /\ IsFiniteSet(Claims(s))
                        /\ sends[s] + Cardinality(Claims(s)) <=
                             row[s].attempts + Cardinality(Past(s))
      BY DEF Counted
    <2>1. Claims(s) = {}
      BY DEF Init, Claims, IdleSweep
    <2>2. Cardinality(Claims(s)) = 0 /\ IsFiniteSet(Claims(s))
      BY <2>1, FS_EmptySet
    <2>3. row[s].attempts = 0 /\ sends[s] = 0
      BY DEF Init, NoRow
    <2> QED  BY <2>2, <2>3, PastFinite
  <1>2. SentInv /\ SentInv' /\ Counted /\ [Next]_vars => Counted'
    BY CountedStep
  <1>3. SentInv /\ Counted => SendsAreCounted
    <2> SUFFICES ASSUME SentInv, Counted, NEW s \in Signal
                 PROVE  sends[s] <= row[s].attempts +
                          Cardinality({d \in Delivery : sig[d] = s /\ at[d] \notin {"new", "reload"}})
      BY DEF SendsAreCounted
    <2> DEFINE A == {d \in Delivery : sig[d] = s /\ at[d] \notin {"new", "reload"}}
    <2>1. IsFiniteSet(A) /\ Cardinality(A) \in Nat
      <3>1. A \in SUBSET Delivery
        OBVIOUS
      <3> QED  BY <3>1, ConstantsOK, FS_Subset, FS_CardinalityType
    <2>2. Past(s) \subseteq A
      BY DEF Past
    <2>3. Cardinality(Past(s)) <= Cardinality(A)
      BY <2>1, <2>2, FS_Subset
    <2>4. Cardinality(Claims(s)) \in Nat
      BY FS_CardinalityType DEF Counted
    <2>5. sends[s] \in Nat /\ row[s].attempts \in Nat
      BY ConstantsOK DEF SentInv, TypeOK, Row
    <2>6. sends[s] + Cardinality(Claims(s)) <= row[s].attempts + Cardinality(Past(s))
      BY DEF Counted
    <2> HIDE DEF A
    <2> QED  BY <2>1, <2>3, <2>4, <2>5, <2>6, PastFinite DEF A
  <1> QED  BY <1>1, <1>2, <1>3, SentInvariant, PTL DEF Spec
=============================================================================
