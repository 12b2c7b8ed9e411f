------------------------- MODULE ExecServiceProofs --------------------------
(***************************************************************************)
(* Theorems about ExecService, for any signals, bots, workers, owners,     *)
(* caps and bounds. Moved says what one step may do to a queue row: from   *)
(* it follow the types, the counting of attempts and that decisions stand. *)
(* SendsAreClaimed and the cap's bound are arguments about cardinalities:  *)
(* a worker that may send holds a claim, and leaves the set as it sends.   *)
(***************************************************************************)
EXTENDS ExecService, FiniteSetTheorems, TLAPS

\* What the types do not say of a row: below the cap unless dead, and not
\* there before its delivery has left.
Counted ==
    \A s \in Signal :
        /\ queue[s].st # "dead" => queue[s].att < MaxAttempts
        /\ door[s] # "gone" => queue[s].st = "none"

TypeInv == TypeOK /\ Counted

\* What one step may make of the queue row r.
Moved(r, q) ==
    \/ q = r
    \/ r.st = "none" /\ q = [r EXCEPT !.st = "queued"]
    \/ r.st = "queued" /\ \E w \in Worker : q = [r EXCEPT !.st = "processing", !.by = w]
    \/ r.st = "queued" /\ q = [r EXCEPT !.st = "held"]
    \/ r.st = "held" /\ q = [r EXCEPT !.st = "queued"]
    \/ r.st = "processing" /\ q = [r EXCEPT !.st = "done"]
    \/ r.st = "processing" /\ q = Retried(r)

USE DEF workerVars, gateVars, boundVars, doorUnchanged, workUnchanged, ownUnchanged

-----------------------------------------------------------------------------
(***************************************************************************)
(* Types and the counting of attempts.                                     *)
(***************************************************************************)

\* A retried row is a row, below the cap unless it is dead.
LEMMA RetriedIsRow ==
    ASSUME NEW r \in Row, r.att < MaxAttempts
    PROVE  Retried(r) \in Row /\ (Retried(r).st # "dead" => Retried(r).att < MaxAttempts)
  <1> MaxAttempts \in Nat /\ r.att \in Nat
    BY ConstantsOK DEF Row
  <1> QED  BY DEF Retried, Row

\* A moved row is a row, below the cap unless it is dead, and no row that
\* is not there yet appears as anything but queued.
LEMMA MovedIsRow ==
    ASSUME NEW r \in Row, NEW q, Moved(r, q), r.st # "dead" => r.att < MaxAttempts
    PROVE  q \in Row /\ (q.st # "dead" => q.att < MaxAttempts)
  <1>1. CASE r.st = "processing" /\ q = Retried(r)
    BY <1>1, RetriedIsRow
  <1>2. CASE ~(r.st = "processing" /\ q = Retried(r))
    BY <1>2 DEF Moved, Row
  <1> QED  BY <1>1, <1>2

\* The initial state has its types, and no attempt is counted yet.
LEMMA InitTypes == Init => TypeInv
  BY ConstantsOK DEF Init, TypeInv, TypeOK, Counted, Row, Steps

\* A step moves every queue row, or leaves it; a row appears as its delivery
\* leaves, and none comes back.
AllMoved ==
    /\ \A s \in Signal : Moved(queue[s], queue'[s])
    /\ \A s \in Signal : \/ door'[s] = "gone"
                         \/ door[s] # "gone" /\ queue'[s].st = queue[s].st
    /\ queue' = [s \in Signal |-> queue'[s]]

\* A step that leaves the queue and closes no door again moves nothing.
LEMMA QueueStays ==
    ASSUME TypeOK, UNCHANGED queue,
           \A s \in Signal : door[s] = "gone" => door'[s] = "gone"
    PROVE  AllMoved
  BY DEF AllMoved, Moved, TypeOK

\* The steps of a delivery, the sweeper and the owners move rows.
LEMMA ServiceMoves ==
    ASSUME TypeInv,
           \/ \E s \in Signal : Deliver(s) \/ Sweep(s)
           \/ \E o \in Owner : Operate(o)
           \/ \E b \in Bot : EnableBot(b)
    PROVE  AllMoved
  <1> TypeOK
    BY DEF TypeInv
  <1>1. ASSUME NEW s \in Signal, Enqueue(s) PROVE AllMoved
    BY <1>1 DEF AllMoved, Moved, Enqueue, Counted, TypeInv, TypeOK
  <1>2. ASSUME NEW s \in Signal, Sweep(s) PROVE AllMoved
    BY <1>2 DEF AllMoved, Moved, Sweep, TypeOK, TypeInv, Counted
  <1>3. ASSUME NEW o \in Owner, HoldAll(o) PROVE AllMoved
    BY <1>3 DEF AllMoved, Moved, HoldAll, TypeOK, TypeInv, Counted
  <1>4. ASSUME NEW o \in Owner, ReleaseHeld(o) PROVE AllMoved
    BY <1>4 DEF AllMoved, Moved, ReleaseHeld, TypeOK, TypeInv, Counted
  <1>5. ASSUME NEW s \in Signal, Classify(s) \/ Record(s) \/ DeliveryFails(s)
        PROVE  AllMoved
    BY <1>5, QueueStays DEF Classify, Record, DeliveryFails, TypeOK
  <1>6. CASE UNCHANGED <<queue, door>>
    BY <1>6, QueueStays
  <1> QED
    BY <1>1, <1>2, <1>3, <1>4, <1>5, <1>6
    DEF Deliver, Operate, SetArmed, Engage, ReleaseSwitch, QueueCallFails, EnableBot

\* So do a worker's.
LEMMA WorkerMoves ==
    ASSUME TypeInv, NEW w \in Worker,
           Work(w) \/ Raise(w) \/ Crash(w) \/ \E s \in Signal : Claim(w, s)
    PROVE  AllMoved
  <1> TypeOK
    BY DEF TypeInv
  <1>1. ASSUME NEW s \in Signal, Claim(w, s) PROVE AllMoved
    <2>1. Moved(queue[s], queue'[s])
      BY <1>1 DEF Moved, Claim, TypeOK
    <2>2. \A t \in Signal \ {s} : Moved(queue[t], queue'[t])
      BY <1>1 DEF Moved, Claim, TypeOK
    <2>3. \A t \in Signal : \/ door'[t] = "gone"
                            \/ door[t] # "gone" /\ queue'[t].st = queue[t].st
      <3>1. UNCHANGED door /\ queue[s].st = "queued"
        BY <1>1 DEF Claim
      <3>2. \A t \in Signal \ {s} : queue'[t] = queue[t]
        BY <1>1 DEF Claim, TypeOK
      <3>3. door[s] = "gone"
        BY <3>1 DEF TypeInv, Counted
      <3> QED  BY <3>1, <3>2, <3>3
    <2>4. queue' = [t \in Signal |-> queue'[t]]
      <3>1. queue \in [Signal -> Row]
        BY DEF TypeOK
      <3>2. queue' = [queue EXCEPT ![s].st = "processing", ![s].by = w]
        BY <1>1 DEF Claim
      <3> QED  BY <3>1, <3>2
    <2> QED  BY <2>1, <2>2, <2>3, <2>4 DEF AllMoved
  <1>2. ASSUME Ack(w) \/ Nack(w) PROVE AllMoved
    <2>1. item[w] \in Signal
      BY <1>2 DEF Ack, Nack, TypeOK
    <2>2. \/ UNCHANGED queue
          \/ Owns(w) /\ queue' = [queue EXCEPT ![item[w]].st = "done"]
          \/ Owns(w) /\ queue' = [queue EXCEPT ![item[w]] = Retried(@)]
      BY <1>2 DEF Ack, Nack
    <2>3. UNCHANGED door
      BY <1>2 DEF Ack, Nack
    <2>4. CASE UNCHANGED queue
      BY <2>3, <2>4, QueueStays
    <2>5. CASE Owns(w) /\ queue' = [queue EXCEPT ![item[w]].st = "done"]
      BY <2>1, <2>3, <2>5 DEF AllMoved, Moved, Owns, TypeOK, TypeInv, Counted
    <2>6. CASE Owns(w) /\ queue' = [queue EXCEPT ![item[w]] = Retried(@)]
      BY <2>1, <2>3, <2>6 DEF AllMoved, Moved, Owns, TypeOK, TypeInv, Counted
    <2> QED  BY <2>2, <2>4, <2>5, <2>6
  <1>3. CASE UNCHANGED <<queue, door>>
    BY <1>3, QueueStays
  <1> QED
    BY <1>1, <1>2, <1>3
    DEF Work, LoadContext, CheckGate, CheckCaps, Submit, WriteOrder, Raise, Crash

\* Every step moves every queue row, or leaves it.
LEMMA QueueMoves ==
    ASSUME TypeInv, [Next]_vars
    PROVE  AllMoved
  <1>1. CASE UNCHANGED vars
    BY <1>1, QueueStays DEF TypeInv, vars, Counted
  <1> QED  BY <1>1, ServiceMoves, WorkerMoves DEF Next

\* A bound is respected by what uses it.
LEMMA BoundTypes ==
    ASSUME TypeOK, Fault \/ Act \/ UNCHANGED boundVars
    PROVE  faults' \in 0..MaxFaults /\ acts' \in 0..MaxActs
  BY ConstantsOK DEF TypeOK, Fault, Act

\* The variables of a step outside the queue keep their types, in the steps
\* of a delivery, the sweeper and the owners.
LEMMA ServiceTypes ==
    ASSUME TypeInv, AllMoved,
           \/ \E s \in Signal : Deliver(s) \/ Sweep(s)
           \/ \E o \in Owner : Operate(o)
           \/ \E b \in Bot : EnableBot(b)
    PROVE  TypeOK'
  <1> TypeOK /\ queue' \in [Signal -> Row]
    BY MovedIsRow DEF TypeInv, Counted, AllMoved, TypeOK
  <1>1. ASSUME NEW s \in Signal, Deliver(s) PROVE TypeOK'
    BY <1>1, BoundTypes
    DEF TypeOK, Deliver, Classify, Record, Enqueue, DeliveryFails
  <1>2. ASSUME NEW s \in Signal, Sweep(s) PROVE TypeOK'
    BY <1>2, BoundTypes DEF TypeOK, Sweep
  <1>3. ASSUME NEW o \in Owner, Operate(o) PROVE TypeOK'
    <2>1. CASE \E b \in BOOLEAN : SetArmed(o, b)
      BY <2>1, BoundTypes DEF TypeOK, SetArmed
    <2>2. CASE Engage(o)
      BY <2>2, BoundTypes DEF TypeOK, Engage
    <2>3. CASE HoldAll(o) \/ ReleaseHeld(o) \/ QueueCallFails(o)
      BY <2>3, BoundTypes DEF TypeOK, HoldAll, ReleaseHeld, QueueCallFails
    <2>4. CASE ReleaseSwitch(o)
      BY <2>4, BoundTypes DEF TypeOK, ReleaseSwitch
    <2> QED  BY <1>3, <2>1, <2>2, <2>3, <2>4 DEF Operate
  <1>4. ASSUME NEW b \in Bot, EnableBot(b) PROVE TypeOK'
    BY <1>4, BoundTypes DEF TypeOK, EnableBot
  <1> QED  BY <1>1, <1>2, <1>3, <1>4

\* And in a worker's.
LEMMA WorkerTypes ==
    ASSUME TypeInv, AllMoved, NEW w \in Worker,
           Work(w) \/ Raise(w) \/ Crash(w) \/ \E s \in Signal : Claim(w, s)
    PROVE  TypeOK'
  <1> TypeOK /\ queue' \in [Signal -> Row]
    BY MovedIsRow DEF TypeInv, Counted, AllMoved, TypeOK
  <1> ConstantsOK
    BY ConstantsOK
  <1>1. ASSUME NEW s \in Signal, Claim(w, s) PROVE TypeOK'
    BY <1>1, BoundTypes DEF TypeOK, Claim, Goes, Steps, ConstantsOK
  <1>2. CASE LoadContext(w)
    BY <1>2, BoundTypes DEF TypeOK, LoadContext, Goes, Steps, ConstantsOK
  <1>3. CASE CheckGate(w) \/ CheckCaps(w) \/ Raise(w)
    BY <1>3, BoundTypes DEF TypeOK, CheckGate, CheckCaps, Raise, Goes, Steps
  <1>4. CASE Submit(w)
    BY <1>4, BoundTypes DEF TypeOK, Submit, Goes, Steps
  <1>5. CASE WriteOrder(w)
    BY <1>5, BoundTypes DEF TypeOK, WriteOrder, Writing, RowOf, Goes, Steps
  <1>6. CASE Ack(w) \/ Nack(w) \/ Crash(w)
    <2>1. faults' \in 0..MaxFaults /\ acts' \in 0..MaxActs
      BY <1>6, BoundTypes DEF Ack, Nack, Crash
    <2>2. /\ Ends(w)
          /\ UNCHANGED <<order, venue, signal, door, gateVars, console, halted>>
      BY <1>6 DEF Ack, Nack, Crash
    <2> QED  BY <2>1, <2>2 DEF TypeOK, Ends, Goes, Steps
  <1> QED  BY <1>1, <1>2, <1>3, <1>4, <1>5, <1>6 DEF Work

\* The attempts stay counted.
LEMMA CountedStep ==
    ASSUME TypeInv, AllMoved
    PROVE  Counted'
  <1> SUFFICES ASSUME NEW s \in Signal
               PROVE  /\ queue'[s].st # "dead" => queue'[s].att < MaxAttempts
                      /\ door'[s] # "gone" => queue'[s].st = "none"
    BY DEF Counted
  <1> queue[s] \in Row
    BY DEF TypeInv, TypeOK
  <1> QED  BY MovedIsRow DEF AllMoved, TypeInv, Counted

\* Types and counting are kept by every step.
LEMMA TypeStep == TypeInv /\ [Next]_vars => TypeInv'
  <1> SUFFICES ASSUME TypeInv, [Next]_vars PROVE TypeInv'
    OBVIOUS
  <1>1. AllMoved
    BY QueueMoves
  <1>2. TypeOK'
    <2>1. CASE UNCHANGED vars
      BY <2>1 DEF vars, TypeInv, TypeOK
    <2> QED  BY <1>1, <2>1, ServiceTypes, WorkerTypes DEF Next
  <1> QED  BY <1>1, <1>2, CountedStep DEF TypeInv

THEOREM TypesHold == Spec => []TypeInv
  BY InitTypes, TypeStep, PTL DEF Spec

\* The type invariant, for any bounds: no item is tried more often than
\* max_attempts (queue.py, nack and sweep).
THEOREM TypeCorrect == Spec => []TypeOK
  <1>1. TypeInv => TypeOK
    BY DEF TypeInv
  <1> QED  BY <1>1, TypesHold, PTL

-----------------------------------------------------------------------------
(***************************************************************************)
(* Whose step it is: a worker's leaves the others alone, any other leaves  *)
(* them all alone.                                                         *)
(***************************************************************************)

WorkerStep(w) == Work(w) \/ Raise(w) \/ Crash(w) \/ \E s \in Signal : Claim(w, s)
ServiceStep ==
    \/ \E s \in Signal : Deliver(s) \/ Sweep(s)
    \/ \E o \in Owner : Operate(o)
    \/ \E b \in Bot : EnableBot(b)

\* Every step is of one kind or the other.
LEMMA StepKinds ==
    ASSUME [Next]_vars
    PROVE  ServiceStep \/ UNCHANGED vars \/ \E w \in Worker : WorkerStep(w)
  BY DEF Next, ServiceStep, WorkerStep

\* The service and its owners move no worker and decide no order.
LEMMA ServiceFrame ==
    ASSUME ServiceStep \/ UNCHANGED vars
    PROVE  UNCHANGED <<at, item, on, order, venue>>
  BY DEF ServiceStep, vars, Deliver, Classify, Record, Enqueue, DeliveryFails, Sweep,
         Operate, SetArmed, Engage, HoldAll, ReleaseSwitch, ReleaseHeld,
         QueueCallFails, EnableBot

\* A worker's step moves no other worker.
LEMMA WorkerFrame ==
    ASSUME TypeOK, NEW w \in Worker, WorkerStep(w), NEW v \in Worker, v # w
    PROVE  at'[v] = at[v] /\ item'[v] = item[v] /\ on'[v] = on[v]
  <1> USE DEF TypeOK, Goes, Ends
  <1>1. ASSUME NEW s \in Signal, Claim(w, s)
        PROVE  at'[v] = at[v] /\ item'[v] = item[v] /\ on'[v] = on[v]
    BY <1>1 DEF Claim
  <1>5. CASE LoadContext(w)
    BY <1>5 DEF LoadContext
  <1>2. CASE CheckGate(w) \/ CheckCaps(w) \/ WriteOrder(w) \/ Raise(w)
    BY <1>2 DEF CheckGate, CheckCaps, WriteOrder, Raise
  <1>3. CASE Submit(w)
    BY <1>3 DEF Submit
  <1>4. CASE Ack(w) \/ Nack(w) \/ Crash(w)
    <2>1. Ends(w)
      BY <1>4 DEF Ack, Nack, Crash
    <2> QED  BY <2>1
  <1> QED  BY <1>1, <1>2, <1>3, <1>4, <1>5 DEF WorkerStep, Work

\* An order row is only written by WriteOrder.
LEMMA OrderFrame ==
    ASSUME NEW w \in Worker, WorkerStep(w)
    PROVE  UNCHANGED order \/ WriteOrder(w)
  BY DEF WorkerStep, Work, LoadContext, CheckGate, CheckCaps, Submit, Ack, Nack,
         Raise, Crash, Claim

\* A row that is written stays as it is.
LEMMA OrderStands ==
    ASSUME TypeOK, [Next]_vars, NEW s \in Signal, order[s] # "none"
    PROVE  order'[s] = order[s]
  <1>1. CASE ServiceStep \/ UNCHANGED vars
    BY <1>1, ServiceFrame
  <1>2. ASSUME NEW w \in Worker, WorkerStep(w) PROVE order'[s] = order[s]
    BY <1>2, OrderFrame DEF WriteOrder, TypeOK
  <1> QED  BY <1>1, <1>2, StepKinds

-----------------------------------------------------------------------------
(***************************************************************************)
(* Decisions.                                                              *)
(***************************************************************************)

\* A worker that is about to ack has the row behind it.
AckIsDecided == \A w \in Worker : at[w] = "ack" => order[item[w]] # "none"

DecidedInv == TypeInv /\ DoneIsDecided /\ AckIsDecided

\* Only an ack finishes an item.
LEMMA DoneByAck ==
    ASSUME TypeInv, [Next]_vars, NEW s \in Signal,
           queue'[s].st = "done", queue[s].st # "done"
    PROVE  \E w \in Worker : Ack(w) /\ item[w] = s
  <1> USE DEF TypeInv, TypeOK
  <1>0. queue[s].st = "processing" /\ queue'[s] # Retried(queue[s])
    <2>1. Moved(queue[s], queue'[s]) /\ queue[s] \in Row
      BY QueueMoves DEF AllMoved
    <2>2. \A w \in Worker :
            [queue[s] EXCEPT !.st = "processing", !.by = w].st = "processing"
      BY <2>1 DEF Row
    <2>3. Retried(queue[s]).st # "done"
      BY DEF Retried
    <2> QED  BY <2>1, <2>2, <2>3 DEF Moved, Row
  <1>1. CASE ServiceStep \/ UNCHANGED vars
    <2>1. ASSUME NEW t \in Signal, Enqueue(t) PROVE FALSE
      BY <1>0, <2>1 DEF Enqueue
    <2>4. ASSUME NEW t \in Signal, Sweep(t) PROVE FALSE
      <3>1. queue'[s] = queue[s] \/ queue'[s] = Retried(queue[s])
        BY <2>4 DEF Sweep
      <3> QED  BY <1>0, <3>1
    <2>2. ASSUME NEW o \in Owner, HoldAll(o) \/ ReleaseHeld(o) PROVE FALSE
      BY <1>0, <2>2 DEF HoldAll, ReleaseHeld
    <2>3. CASE UNCHANGED queue
      BY <1>0, <2>3
    <2> QED
      BY <1>1, <2>1, <2>2, <2>3, <2>4
      DEF ServiceStep, vars, Deliver, Classify, Record, DeliveryFails, Operate, SetArmed,
          Engage, ReleaseSwitch, QueueCallFails, EnableBot
  <1>2. ASSUME NEW w \in Worker, WorkerStep(w) PROVE Ack(w) /\ item[w] = s
    <2>1. CASE \E t \in Signal : Claim(w, t)
      BY <1>0, <2>1 DEF Claim
    <2>2. CASE Nack(w)
      <3>1. item[w] \in Signal
        BY <2>2 DEF Nack
      <3> QED  BY <1>0, <2>2, <3>1 DEF Nack
    <2>3. CASE Ack(w)
      <3>1. item[w] \in Signal
        BY <2>3 DEF Ack
      <3> QED  BY <1>0, <2>3, <3>1 DEF Ack
    <2>4. CASE UNCHANGED queue
      BY <1>0, <2>4
    <2> QED
      BY <1>2, <2>1, <2>2, <2>3, <2>4
      DEF WorkerStep, Work, LoadContext, CheckGate, CheckCaps, Submit, WriteOrder, Raise, Crash
  <1> QED  BY <1>1, <1>2, StepKinds

\* Every step keeps the decisions.
LEMMA DecidedStep == DecidedInv /\ [Next]_vars => DecidedInv'
  <1> SUFFICES ASSUME DecidedInv, [Next]_vars PROVE DecidedInv'
    OBVIOUS
  <1> USE DEF DecidedInv
  <1>1. TypeInv'
    BY TypeStep
  <1>2. DoneIsDecided'
    <2> SUFFICES ASSUME NEW s \in Signal, queue'[s].st = "done" PROVE order'[s] # "none"
      BY DEF DoneIsDecided
    <2>1. order[s] # "none"
      <3>1. CASE queue[s].st = "done"
        BY <3>1 DEF DoneIsDecided
      <3>2. CASE queue[s].st # "done"
        <4>1. PICK w \in Worker : Ack(w) /\ item[w] = s
          BY <3>2, DoneByAck
        <4> QED  BY <4>1 DEF AckIsDecided, Ack
      <3> QED  BY <3>1, <3>2
    <2> QED  BY <2>1, OrderStands DEF TypeInv
  <1>3. AckIsDecided'
    <2> SUFFICES ASSUME NEW v \in Worker, at'[v] = "ack" PROVE order'[item'[v]] # "none"
      BY DEF AckIsDecided
    <2> USE DEF TypeInv, TypeOK
    <2>1. CASE at[v] = "ack" /\ item'[v] = item[v]
      BY <2>1, OrderStands DEF AckIsDecided
    <2>2. CASE ServiceStep \/ UNCHANGED vars
      BY <2>1, <2>2, ServiceFrame
    <2>3. ASSUME NEW w \in Worker, WorkerStep(w) PROVE order'[item'[v]] # "none"
      <3>1. CASE v # w
        BY <2>1, <2>3, <3>1, WorkerFrame
      <3>2. CASE v = w /\ WriteOrder(w)
        <4>1. at[w] \in Writing /\ item[w] \in Signal
          BY <3>2 DEF WriteOrder, Writing
        <4>2. RowOf(at[w]) # "none"
          BY <4>1 DEF RowOf, Writing
        <4> QED  BY <3>2, <4>1, <4>2 DEF WriteOrder
      <3>3. CASE v = w /\ ~WriteOrder(w)
        <4>1. CASE LoadContext(w) \/ CheckGate(w) \/ CheckCaps(w)
          BY <3>3, <4>1 DEF LoadContext, CheckGate, CheckCaps, Goes
        <4>2. CASE Submit(w)
          BY <3>3, <4>2 DEF Submit, Goes
        <4>3. CASE Ack(w) \/ Nack(w) \/ Crash(w)
          BY <3>3, <4>3 DEF Ack, Nack, Crash, Ends, Goes
        <4>4. CASE Raise(w)
          BY <3>3, <4>4 DEF Raise, Goes
        <4>5. CASE \E s \in Signal : Claim(w, s)
          BY <3>3, <4>5 DEF Claim, Goes
        <4> QED
          BY <2>3, <3>3, <4>1, <4>2, <4>3, <4>4, <4>5 DEF WorkerStep, Work
      <3> QED  BY <3>1, <3>2, <3>3
    <2> QED  BY <2>2, <2>3, StepKinds
  <1> QED  BY <1>1, <1>2, <1>3

\* Whatever crashed or was taken over on the way, an item that is done has
\* its row in exec_orders (worker.py, process_one).
THEOREM DoneWasDecided == Spec => []DoneIsDecided
  <1>1. Init => DecidedInv
    BY InitTypes DEF Init, DecidedInv, DoneIsDecided, AckIsDecided
  <1>2. DecidedInv => DoneIsDecided
    BY DEF DecidedInv
  <1> QED  BY <1>1, <1>2, DecidedStep, PTL DEF Spec

\* No step undoes a decision: done and dead items and written order rows
\* stay (queue.py, the status conditions of its UPDATEs).
THEOREM DecisionsAreFinal == Spec => DecisionsStand
  <1>1. TypeInv /\ [Next]_vars =>
            [\A s \in Signal :
                /\ queue[s].st \in {"done", "dead"} => queue'[s] = queue[s]
                /\ order[s] # "none" => order'[s] = order[s]]_vars
    BY QueueMoves, OrderStands DEF TypeInv, AllMoved, Moved
  <1> QED  BY <1>1, TypesHold, PTL DEF Spec, DecisionsStand

-----------------------------------------------------------------------------
(***************************************************************************)
(* The kill switch.                                                        *)
(***************************************************************************)

\* The bot of a halted signal is off, and no worker has read it as on.
HaltedIsOff ==
    /\ \A s \in halted : ~enabled[BotOf[s]]
    /\ \A w \in Worker : at[w] = "loaded" /\ on[w] => item[w] \notin halted

HaltInv == TypeOK /\ HaltedIsOff /\ HaltedIsNotSent

\* An engage halts nothing a worker has taken past its context; an owner who
\* enables a bot frees its signals; the rest of the service halts nothing.
LEMMA ServiceHalts ==
    ASSUME HaltInv, ServiceStep \/ UNCHANGED vars
    PROVE  HaltedIsOff' /\ HaltedIsNotSent'
  <1> USE DEF HaltInv, HaltedIsOff, HaltedIsNotSent, PastGate
  <1>0. UNCHANGED <<at, item, on>>
    BY ServiceFrame
  <1>1. ASSUME NEW o \in Owner, Engage(o) PROVE HaltedIsOff' /\ HaltedIsNotSent'
    <2>1. \A s \in Signal : ~enabled'[BotOf[s]]
      BY <1>1, ConstantsOK DEF Engage
    <2>2. \A w \in Worker :
            at[w] \notin {"idle", "claimed"} /\ item[w] \notin halted => item[w] \notin halted'
      BY <1>1 DEF Engage
    <2>3. halted' \subseteq Signal
      BY <1>1 DEF Engage, TypeOK
    <2> QED  BY <1>0, <2>1, <2>2, <2>3
  <1>2. ASSUME NEW b \in Bot, EnableBot(b) PROVE HaltedIsOff' /\ HaltedIsNotSent'
    <2>1. halted' \subseteq halted
      BY <1>2 DEF EnableBot
    <2>2. \A s \in halted' : enabled'[BotOf[s]] = enabled[BotOf[s]]
      BY <1>2, ConstantsOK DEF EnableBot, TypeOK
    <2> QED  BY <1>0, <2>1, <2>2
  <1>3. CASE UNCHANGED <<halted, enabled>>
    BY <1>0, <1>3
  <1> QED
    BY <1>1, <1>2, <1>3
    DEF ServiceStep, vars, Deliver, Classify, Record, Enqueue, DeliveryFails, Sweep,
        Operate, SetArmed, HoldAll, ReleaseSwitch, ReleaseHeld, QueueCallFails

\* A worker reads the switch of a halted signal's bot as off, and stops.
LEMMA WorkerHalts ==
    ASSUME HaltInv, NEW w \in Worker, WorkerStep(w)
    PROVE  HaltedIsOff' /\ HaltedIsNotSent'
  <1> TypeOK
    BY DEF HaltInv
  <1>1. UNCHANGED <<halted, enabled>>
    BY DEF WorkerStep, Work, LoadContext, CheckGate, CheckCaps, Submit, WriteOrder, Ack,
           Nack, Raise, Crash, Claim
  <1>2. /\ at'[w] = "loaded" /\ on'[w] => item'[w] \notin halted
        /\ at'[w] \in PastGate => item'[w] \notin halted
    <2> USE DEF HaltInv, HaltedIsOff, HaltedIsNotSent, PastGate, TypeOK, Goes, Ends
    <2>1. ASSUME NEW s \in Signal, Claim(w, s) PROVE at'[w] = "claimed"
      BY <2>1 DEF Claim
    <2>2. CASE LoadContext(w)
      BY <2>2 DEF LoadContext
    <2>3. CASE CheckGate(w)
      BY <2>3 DEF CheckGate
    <2>4. CASE CheckCaps(w) \/ Submit(w)
      BY <2>4 DEF CheckCaps, Submit
    <2>5. CASE WriteOrder(w) \/ Raise(w) \/ Ack(w) \/ Nack(w) \/ Crash(w)
      <3>1. at'[w] \in {"ack", "nack", "idle"}
        BY <2>5 DEF WriteOrder, Raise, Ack, Nack, Crash
      <3> QED  BY <3>1
    <2> QED  BY <2>1, <2>2, <2>3, <2>4, <2>5 DEF WorkerStep, Work
  <1>3. \A v \in Worker \ {w} : at'[v] = at[v] /\ item'[v] = item[v] /\ on'[v] = on[v]
    BY WorkerFrame
  <1> QED  BY <1>1, <1>2, <1>3 DEF HaltInv, HaltedIsOff, HaltedIsNotSent

\* For any owners and workers, what a kill switch stopped before the gate
\* waits until an owner enables its bot (state.py, worker.py).
THEOREM HaltHolds == Spec => []HaltedIsNotSent
  <1>1. Init => HaltInv
    BY InitTypes DEF Init, HaltInv, HaltedIsOff, HaltedIsNotSent, PastGate, TypeInv
  <1>2. TypeInv /\ HaltInv /\ [Next]_vars => HaltInv'
    BY TypeStep, StepKinds, ServiceHalts, WorkerHalts DEF HaltInv, TypeInv
  <1>3. HaltInv => HaltedIsNotSent
    BY DEF HaltInv
  <1> QED  BY <1>1, <1>2, <1>3, TypesHold, PTL DEF Spec

-----------------------------------------------------------------------------
(***************************************************************************)
(* What a signal can cost.                                                 *)
(***************************************************************************)

\* The workers that may still send a signal's order are finitely many.
LEMMA SendingFinite ==
    ASSUME NEW s \in Signal
    PROVE  /\ IsFiniteSet(Sending(s)) /\ IsFiniteSet(Sending(s)')
           /\ Cardinality(Sending(s)) \in Nat /\ Cardinality(Sending(s)') \in Nat
  <1>1. Sending(s) \subseteq Worker /\ Sending(s)' \subseteq Worker
    BY DEF Sending
  <1> QED  BY <1>1, ConstantsOK, FS_Subset, FS_CardinalityType

\* Moving a row never takes a claim back.
LEMMA ClaimsGrow ==
    ASSUME NEW r \in Row, NEW q \in Row, Moved(r, q)
    PROVE  r.att + (IF r.st \in {"processing", "done"} THEN 1 ELSE 0)
             <= q.att + (IF q.st \in {"processing", "done"} THEN 1 ELSE 0)
  <1> r.att \in Nat /\ q.att \in Nat
    BY ConstantsOK DEF Row
  <1>1. CASE q = Retried(r) /\ r.st = "processing"
    BY <1>1 DEF Retried
  <1>2. ASSUME NEW w \in Worker, q = [r EXCEPT !.st = "processing", !.by = w], r.st = "queued"
        PROVE  q.att = r.att /\ r.st \notin {"processing", "done"}
    BY <1>2 DEF Row
  <1>3. CASE r.st = "processing" /\ q = [r EXCEPT !.st = "done"]
    BY <1>3 DEF Row
  <1>4. CASE \/ r.st = "none" /\ q = [r EXCEPT !.st = "queued"]
             \/ r.st = "queued" /\ q = [r EXCEPT !.st = "held"]
             \/ r.st = "held" /\ q = [r EXCEPT !.st = "queued"]
    BY <1>4 DEF Row
  <1>5. CASE q = r
    BY <1>5
  <1>6. CASE r.st = "queued" /\ \E w \in Worker : q = [r EXCEPT !.st = "processing", !.by = w]
    BY <1>2, <1>6
  <1> QED  BY <1>1, <1>3, <1>4, <1>5, <1>6 DEF Moved

\* A worker's step takes at most itself out of a signal's senders, and enters
\* them by a claim only.
LEMMA SendersMove ==
    ASSUME TypeOK, NEW w \in Worker, WorkerStep(w), NEW s \in Signal
    PROVE  \/ Sending(s)' \subseteq Sending(s)
           \/ Claim(w, s) /\ w \notin Sending(s) /\ Sending(s)' = Sending(s) \cup {w}
  <1>1. \A v \in Worker \ {w} : v \in Sending(s)' <=> v \in Sending(s)
    BY WorkerFrame DEF Sending
  <1>2. ASSUME w \in Sending(s)', w \notin Sending(s) PROVE Claim(w, s)
    <2> USE DEF TypeOK, Goes, Ends, Sending
    <2>1. ASSUME NEW t \in Signal, Claim(w, t) PROVE Claim(w, s)
      BY <1>2, <2>1 DEF Claim
    <2>2. CASE LoadContext(w) \/ CheckGate(w) \/ CheckCaps(w)
      BY <1>2, <2>2 DEF LoadContext, CheckGate, CheckCaps
    <2>3. CASE Submit(w) \/ WriteOrder(w) \/ Raise(w) \/ Ack(w) \/ Nack(w) \/ Crash(w)
      <3>1. at'[w] \in {"filled", "ack", "nack", "idle"}
        BY <2>3 DEF Submit, WriteOrder, Raise, Ack, Nack, Crash
      <3> QED  BY <1>2, <3>1
    <2> QED  BY <2>1, <2>2, <2>3 DEF WorkerStep, Work
  <1>3. Sending(s) \subseteq Worker /\ Sending(s)' \subseteq Worker
    BY DEF Sending
  <1> QED  BY <1>1, <1>2, <1>3

\* An order is sent by a worker that leaves the senders with it.
LEMMA SendLeaves ==
    ASSUME TypeOK, NEW w \in Worker, WorkerStep(w), NEW s \in Signal,
           venue'[s] # venue[s]
    PROVE  /\ venue'[s] = venue[s] + 1
           /\ w \in Sending(s) /\ Sending(s)' \subseteq Sending(s) \ {w}
  <1>1. Submit(w)
    BY DEF WorkerStep, Work, LoadContext, CheckGate, CheckCaps, WriteOrder, Ack, Nack,
           Raise, Crash, Claim
  <1>2. item[w] = s /\ venue'[s] = venue[s] + 1 /\ at[w] = "cleared"
    BY <1>1 DEF Submit, TypeOK
  <1>3. at'[w] \in {"filled", "nack"}
    BY <1>1 DEF Submit, Goes, TypeOK
  <1>4. \A v \in Worker \ {w} : at'[v] = at[v] /\ item'[v] = item[v]
    BY WorkerFrame
  <1> QED  BY <1>2, <1>3, <1>4 DEF Sending

\* Every step keeps the sends within the claims.
LEMMA SendsStep == TypeInv /\ SendsAreClaimed /\ [Next]_vars => SendsAreClaimed'
  <1> SUFFICES ASSUME TypeInv, SendsAreClaimed, [Next]_vars, NEW s \in Signal
               PROVE  venue'[s] + Cardinality(Sending(s)') <= Claims(s)'
    BY DEF SendsAreClaimed
  <1> USE DEF TypeInv
  <1>1. /\ queue[s] \in Row /\ queue'[s] \in Row
        /\ Claims(s) \in Nat /\ Claims(s)' \in Nat
        /\ venue[s] \in Nat /\ venue'[s] \in Nat
    BY TypeStep, ConstantsOK DEF TypeOK, Claims, Row
  <1>2. venue[s] + Cardinality(Sending(s)) <= Claims(s)
    BY DEF SendsAreClaimed
  <1>3. Claims(s) <= Claims(s)'
    BY <1>1, QueueMoves, ClaimsGrow DEF AllMoved, Claims
  <1>4. CASE ServiceStep \/ UNCHANGED vars
    <2>1. Sending(s)' = Sending(s) /\ venue'[s] = venue[s]
      BY <1>4, ServiceFrame DEF Sending
    <2> QED  BY <1>1, <1>2, <1>3, <2>1, SendingFinite
  <1>5. ASSUME NEW w \in Worker, WorkerStep(w)
        PROVE  venue'[s] + Cardinality(Sending(s)') <= Claims(s)'
    <2>1. CASE venue'[s] # venue[s]
      <3>1. /\ venue'[s] = venue[s] + 1
            /\ w \in Sending(s) /\ Sending(s)' \subseteq Sending(s) \ {w}
        BY <1>5, <2>1, SendLeaves
      <3>2. Cardinality(Sending(s)') <= Cardinality(Sending(s) \ {w})
        BY <3>1, SendingFinite, FS_RemoveElement, FS_Subset
      <3>3. Cardinality(Sending(s) \ {w}) = Cardinality(Sending(s)) - 1
        BY <3>1, SendingFinite, FS_RemoveElement
      <3> QED  BY <1>1, <1>2, <1>3, <3>1, <3>2, <3>3, SendingFinite
    <2>2. CASE venue'[s] = venue[s] /\ Sending(s)' \subseteq Sending(s)
      <3>1. Cardinality(Sending(s)') <= Cardinality(Sending(s))
        BY <2>2, SendingFinite, FS_Subset
      <3> QED  BY <1>1, <1>2, <1>3, <2>2, <3>1, SendingFinite
    <2>3. CASE /\ venue'[s] = venue[s] /\ Claim(w, s)
               /\ w \notin Sending(s) /\ Sending(s)' = Sending(s) \cup {w}
      <3>1. Cardinality(Sending(s)') = Cardinality(Sending(s)) + 1
        BY <2>3, SendingFinite, FS_AddElement
      <3>2. Claims(s)' = Claims(s) + 1
        BY <2>3, <1>1 DEF Claim, Claims, TypeOK, Row
      <3> QED  BY <1>1, <1>2, <2>3, <3>1, <3>2, SendingFinite
    <2> QED  BY <1>5, <2>1, <2>2, <2>3, SendersMove
  <1> QED  BY <1>4, <1>5, StepKinds

\* For any workers, crashes and sweeps: max_attempts bounds the orders a
\* signal can cost (queue.py nack and sweep, worker.py process_one).
THEOREM SendsHold == Spec => []SendsAreClaimed
  <1>1. Init => SendsAreClaimed
    <2> SUFFICES ASSUME Init, NEW s \in Signal
                 PROVE  venue[s] + Cardinality(Sending(s)) <= Claims(s)
      BY DEF SendsAreClaimed
    <2>1. Sending(s) = {} /\ venue[s] = 0 /\ Claims(s) = 0
      BY DEF Init, Sending, Claims
    <2> QED  BY <2>1, FS_EmptySet
  <1> QED  BY <1>1, SendsStep, TypesHold, PTL DEF Spec

-----------------------------------------------------------------------------
(***************************************************************************)
(* The daily cap.                                                          *)
(***************************************************************************)

\* What Used counts.
Filled(b) == {s \in Signal : BotOf[s] = b /\ order[s] = "filled"}

\* Both sides of the cap's bound are numbers.
LEMMA CapNumbers ==
    ASSUME NEW b \in Bot
    PROVE  /\ IsFiniteSet(Filled(b)) /\ IsFiniteSet(Filled(b)')
           /\ IsFiniteSet(Cleared(b)) /\ IsFiniteSet(Cleared(b)')
           /\ Used(b) = Cardinality(Filled(b)) /\ Used(b)' = Cardinality(Filled(b)')
           /\ Used(b) \in Nat /\ Used(b)' \in Nat
           /\ Cardinality(Cleared(b)) \in Nat /\ Cardinality(Cleared(b)') \in Nat
           /\ Cardinality(Worker) \in Nat /\ DailyCap \in Nat
           /\ Cardinality(Cleared(b)') <= Cardinality(Worker)
  <1>1. /\ Filled(b) \subseteq Signal /\ Filled(b)' \subseteq Signal
        /\ Cleared(b) \subseteq Worker /\ Cleared(b)' \subseteq Worker
    BY DEF Filled, Cleared
  <1>2. Used(b) = Cardinality(Filled(b)) /\ Used(b)' = Cardinality(Filled(b)')
    BY DEF Used, Filled
  <1> QED  BY <1>1, <1>2, ConstantsOK, FS_Subset, FS_CardinalityType

\* A worker's step clears nobody but a worker that CheckCaps lets through.
LEMMA ClearedMoves ==
    ASSUME TypeOK, NEW w \in Worker, WorkerStep(w), NEW b \in Bot
    PROVE  \/ Cleared(b)' \subseteq Cleared(b)
           \/ CheckCaps(w) /\ Used(b) + 1 <= DailyCap
  <1>1. \A v \in Worker \ {w} : v \in Cleared(b)' <=> v \in Cleared(b)
    BY WorkerFrame DEF Cleared
  <1>2. ASSUME w \in Cleared(b)', w \notin Cleared(b)
        PROVE  CheckCaps(w) /\ Used(b) + 1 <= DailyCap
    <2> USE DEF TypeOK, Goes, Ends, Cleared
    <2>1. ASSUME NEW t \in Signal, Claim(w, t) PROVE FALSE
      BY <1>2, <2>1 DEF Claim
    <2>2. CASE LoadContext(w) \/ CheckGate(w)
      BY <1>2, <2>2 DEF LoadContext, CheckGate
    <2>3. CASE CheckCaps(w)
      BY <1>2, <2>3 DEF CheckCaps
    <2>4. CASE Submit(w)
      BY <1>2, <2>4 DEF Submit
    <2>5. CASE WriteOrder(w) \/ Raise(w) \/ Ack(w) \/ Nack(w) \/ Crash(w)
      <3>1. at'[w] \in {"ack", "nack", "idle"}
        BY <2>5 DEF WriteOrder, Raise, Ack, Nack, Crash
      <3> QED  BY <1>2, <3>1
    <2> QED  BY <2>1, <2>2, <2>3, <2>4, <2>5 DEF WorkerStep, Work
  <1>3. Cleared(b) \subseteq Worker /\ Cleared(b)' \subseteq Worker
    BY DEF Cleared
  <1> QED  BY <1>1, <1>2, <1>3

\* An order row counts against the cap as its writer leaves the cleared.
LEMMA FillLeaves ==
    ASSUME TypeOK, NEW w \in Worker, WorkerStep(w), NEW b \in Bot,
           ~(Filled(b)' \subseteq Filled(b))
    PROVE  /\ WriteOrder(w) /\ Filled(b)' \subseteq Filled(b) \cup {item[w]}
           /\ w \in Cleared(b) /\ Cleared(b)' \subseteq Cleared(b) \ {w}
  <1>1. WriteOrder(w)
    BY OrderFrame DEF Filled
  <1>2. \A s \in Signal \ {item[w]} : order'[s] = order[s]
    BY <1>1 DEF WriteOrder, TypeOK
  <1>3. Filled(b)' \subseteq Filled(b) \cup {item[w]}
    BY <1>2 DEF Filled
  <1>4. BotOf[item[w]] = b /\ order'[item[w]] = "filled" /\ order[item[w]] # "filled"
        /\ item[w] \in Signal
    BY <1>3 DEF Filled
  <1>5. at[w] = "filled"
    BY <1>1, <1>4 DEF WriteOrder, Writing, RowOf, TypeOK
  <1>6. at'[w] = "ack"
    BY <1>1 DEF WriteOrder, Goes, TypeOK
  <1>7. \A v \in Worker \ {w} : at'[v] = at[v] /\ item'[v] = item[v]
    BY WorkerFrame
  <1> QED  BY <1>1, <1>3, <1>4, <1>5, <1>6, <1>7 DEF Cleared

\* Every step keeps the cap's bound.
LEMMA CapStep == TypeOK /\ CapOvershootIsBounded /\ [Next]_vars => CapOvershootIsBounded'
  <1> SUFFICES ASSUME TypeOK, CapOvershootIsBounded, [Next]_vars, NEW b \in Bot
               PROVE  Used(b)' + Cardinality(Cleared(b)') <= DailyCap + Cardinality(Worker) - 1
    BY DEF CapOvershootIsBounded
  <1>1. Used(b) + Cardinality(Cleared(b)) <= DailyCap + Cardinality(Worker) - 1
    BY DEF CapOvershootIsBounded
  <1>2. CASE ServiceStep \/ UNCHANGED vars
    <2>1. Filled(b)' = Filled(b) /\ Cleared(b)' = Cleared(b)
      BY <1>2, ServiceFrame DEF Filled, Cleared
    <2> QED  BY <1>1, <2>1, CapNumbers
  <1>3. ASSUME NEW w \in Worker, WorkerStep(w)
        PROVE  Used(b)' + Cardinality(Cleared(b)') <= DailyCap + Cardinality(Worker) - 1
    <2>1. CASE ~(Filled(b)' \subseteq Filled(b))
      <3>1. /\ Filled(b)' \subseteq Filled(b) \cup {item[w]}
            /\ w \in Cleared(b) /\ Cleared(b)' \subseteq Cleared(b) \ {w}
        BY <1>3, <2>1, FillLeaves
      <3>2. Used(b)' <= Used(b) + 1
        <4>1. /\ IsFiniteSet(Filled(b) \cup {item[w]})
              /\ Cardinality(Filled(b) \cup {item[w]}) <= Used(b) + 1
          <5>1. IsFiniteSet(Filled(b)) /\ Cardinality(Filled(b)) = Used(b) /\ Used(b) \in Nat
            BY CapNumbers
          <5>2. /\ IsFiniteSet(Filled(b) \cup {item[w]})
                /\ Cardinality(Filled(b) \cup {item[w]}) =
                     IF item[w] \in Filled(b) THEN Cardinality(Filled(b))
                                              ELSE Cardinality(Filled(b)) + 1
            BY <5>1, FS_AddElement
          <5> QED  BY <5>1, <5>2
        <4>2. Cardinality(Filled(b)') <= Cardinality(Filled(b) \cup {item[w]})
          BY <3>1, <4>1, FS_Subset
        <4>3. Cardinality(Filled(b) \cup {item[w]}) \in Nat
          BY <4>1, FS_CardinalityType
        <4> QED  BY <4>1, <4>2, <4>3, CapNumbers
      <3>3. Cardinality(Cleared(b)') <= Cardinality(Cleared(b)) - 1
        <4>1. /\ IsFiniteSet(Cleared(b) \ {w})
              /\ Cardinality(Cleared(b) \ {w}) = Cardinality(Cleared(b)) - 1
          BY <3>1, CapNumbers, FS_RemoveElement
        <4>2. Cardinality(Cleared(b)') <= Cardinality(Cleared(b) \ {w})
          BY <3>1, <4>1, FS_Subset
        <4> QED  BY <4>1, <4>2, CapNumbers
      <3> QED  BY <1>1, <3>2, <3>3, CapNumbers
    <2>2. CASE Filled(b)' \subseteq Filled(b) /\ Cleared(b)' \subseteq Cleared(b)
      <3>1. /\ Cardinality(Filled(b)') <= Cardinality(Filled(b))
            /\ Cardinality(Cleared(b)') <= Cardinality(Cleared(b))
        BY <2>2, CapNumbers, FS_Subset
      <3> QED  BY <1>1, <3>1, CapNumbers
    <2>3. CASE CheckCaps(w) /\ Used(b) + 1 <= DailyCap
      <3>1. Filled(b)' = Filled(b)
        BY <2>3 DEF CheckCaps, Filled
      <3> QED  BY <2>3, <3>1, CapNumbers
    <2> QED  BY <1>3, <2>1, <2>2, <2>3, ClearedMoves
  <1> QED  BY <1>2, <1>3, StepKinds

\* For any number of workers, the daily cap is passed by less than one order
\* for each of them (worker.py _usage, sizing.py decide).
THEOREM CapHolds == Worker # {} => (Spec => []CapOvershootIsBounded)
  <1> SUFFICES ASSUME Worker # {} PROVE Spec => []CapOvershootIsBounded
    OBVIOUS
  <1>1. Init => CapOvershootIsBounded
    <2> SUFFICES ASSUME Init, NEW b \in Bot
                 PROVE  Used(b) + Cardinality(Cleared(b)) <= DailyCap + Cardinality(Worker) - 1
      BY DEF CapOvershootIsBounded
    <2>1. Filled(b) = {} /\ Cleared(b) = {}
      BY DEF Init, Filled, Cleared
    <2>2. Cardinality(Worker) # 0
      BY ConstantsOK, FS_EmptySet
    <2>3. Used(b) = 0 /\ Cardinality(Cleared(b)) = 0
      BY <2>1, FS_EmptySet, CapNumbers
    <2> QED  BY <2>2, <2>3, CapNumbers
  <1> QED  BY <1>1, CapStep, TypeCorrect, PTL DEF Spec
=============================================================================
