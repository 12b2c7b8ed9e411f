-------------------------- MODULE PaperRunsProofs --------------------------
(***************************************************************************)
(* Proofs about PaperRuns, for every number of runs, positions, requests,  *)
(* faults and days.                                                        *)
(***************************************************************************)
EXTENDS PaperRuns, FiniteSetTheorems, TLAPS

Status == {"none", "open", "low"} \cup Reasons
Table == [Run -> [Pos -> Status]]
Job == [op : Ops, runs : SUBSET Run, take : SUBSET (Run \X Pos)]

RunsTyped == run \in [Run -> RunRow] /\ pos \in Table
JobsTyped == job \in [Process -> Job] /\ seen \in [Process -> [Run -> RunRow]]
BoundsTyped == acts \in 0..MaxActs /\ faults \in 0..MaxFaults /\ days \in 0..MaxDays
RestTyped == /\ on \in BOOLEAN /\ due \in BOOLEAN /\ admin \in BOOLEAN /\ used \in Nat
             /\ cut \subseteq Run /\ skipped \subseteq Run /\ BoundsTyped

LEMMA Types == TypeOK <=> RunsTyped /\ JobsTyped /\ RestTyped
  BY DEF TypeOK, RunsTyped, JobsTyped, RestTyped, BoundsTyped, Status, Table, Job

LEMMA TypesNext == ASSUME RunsTyped', JobsTyped', RestTyped' PROVE TypeOK'
  BY DEF TypeOK, RunsTyped, JobsTyped, RestTyped, BoundsTyped, Status, Table, Job

-----------------------------------------------------------------------------
(* The helpers                                                             *)

LEMMA AbsentRows ==
    \A st \in {"none", "running", "stopped", "deleted"} :
        Absent(st) \in RunRow /\ Absent(st).st = st /\ ~Absent(st).auto /\ ~Absent(st).pending
  BY DEF Absent, RunRow

LEMMA ClosingType ==
    ASSUME NEW ps \in Table, NEW T, NEW why \in Reasons
    PROVE  Closing(ps, T, why) \in Table
  BY DEF Closing, Table, Status

LEMMA StoppingType ==
    ASSUME NEW rows \in [Run -> RunRow], NEW S
    PROVE  Stopping(rows, S) \in [Run -> RunRow]
  <1>1. \A r \in Run : [rows[r] EXCEPT !.st = "stopped", !.pending = FALSE] \in RunRow
    BY DEF RunRow
  <1>. QED
    BY <1>1 DEF Stopping

\* What is left open by closing, whatever was there.
LEMMA OpenAfterClosing ==
    ASSUME NEW ps \in Table, NEW T, NEW why \in Reasons, NEW r \in Run
    PROVE  OpenIn(Closing(ps, T, why), r) = {p \in OpenIn(ps, r) : <<r, p>> \notin T}
  <1>1. ~IsOpen(why)
    BY DEF IsOpen, Reasons
  <1>2. \A p \in Pos : Closing(ps, T, why)[r][p] =
                       IF <<r, p>> \in T /\ ps[r][p] # "none" THEN why ELSE ps[r][p]
    BY DEF Closing
  <1>3. ~IsOpen("none")
    BY DEF IsOpen
  <1>4. \A p \in Pos : IsOpen(Closing(ps, T, why)[r][p]) <=> IsOpen(ps[r][p]) /\ <<r, p>> \notin T
    BY <1>1, <1>2, <1>3
  <1>. QED
    BY <1>4 DEF OpenIn

LEMMA WaitsType ==
    ASSUME JobsTyped, NEW q \in Process, NEW op \in Ops, NEW runs \in SUBSET Run,
           NEW take \in SUBSET (Run \X Pos), Waits(q, op, runs, take)
    PROVE  JobsTyped'
  BY DEF JobsTyped, Waits, Job

LEMMA EndsType ==
    ASSUME JobsTyped, NEW q \in Process, Ends(q)
    PROVE  JobsTyped'
  <1>1. Idle \in Job
    BY DEF Idle, Job, Ops
  <1>2. Nothing \in [Run -> RunRow]
    BY AbsentRows DEF Nothing
  <1>. QED
    BY <1>1, <1>2 DEF JobsTyped, Ends

LEMMA ListsType ==
    ASSUME JobsTyped, run' \in [Run -> RunRow], NEW q \in Process, Lists(q)
    PROVE  JobsTyped'
  <1>1. [Idle EXCEPT !.op = "mark"] \in Job
    BY DEF Idle, Job, Ops
  <1>2. \A row \in RunRow : Listing(row) \in RunRow
    BY AbsentRows DEF Listing, RunRow
  <1>3. [r \in Run |-> Listing(run'[r])] \in [Run -> RunRow]
    BY <1>2
  <1>. QED
    BY <1>1, <1>3 DEF JobsTyped, Lists

LEMMA Processes == Request \subseteq Process /\ Autorun \in Process /\ Monitor \in Process
  BY DEF Process

LEMMA PairsType == \A runs \in SUBSET Run : OpenPairs(runs) \in SUBSET (Run \X Pos)
  BY DEF OpenPairs

\* Calls fail, or a request comes: the counters stay bounded.
LEMMA FaultsType ==
    ASSUME BoundsTyped, NEW n \in Nat, Faults(n)
    PROVE  BoundsTyped'
  <1>1. MaxFaults \in Nat
    BY ConstantsOK DEF ConstantsOK
  <1>. QED
    BY <1>1 DEF BoundsTyped, Faults

LEMMA BoundsType ==
    ASSUME RestTyped, Act \/ Fault \/ UNCHANGED bounds
    PROVE  BoundsTyped'
  <1>1. MaxActs \in Nat
    BY ConstantsOK DEF ConstantsOK
  <1>2. CASE Act \/ UNCHANGED bounds
    BY <1>1, <1>2 DEF RestTyped, BoundsTyped, Act, bounds
  <1>3. CASE Fault
    BY <1>3, FaultsType DEF Fault, RestTyped
  <1>. QED
    BY <1>2, <1>3

LEMMA BreaksType ==
    ASSUME RestTyped, NEW ps \in Table, NEW runs \in SUBSET Run, NEW some,
           NEW why \in Reasons, Breaks(ps, runs, some, why)
    PROVE  pos' \in Table /\ cut' \subseteq Run
  <1>1. pos' = Closing(ps, some, why) /\ cut' \in {cut, cut \cup runs}
    BY DEF Breaks
  <1>. QED
    BY <1>1, ClosingType DEF RestTyped

LEMMA RowsType == Rows \in SUBSET Run
  BY DEF Rows

-----------------------------------------------------------------------------
(* Types, action by action                                                 *)

LEMMA MarkedTypes ==
    ASSUME RunsTyped, NEW q \in Process, NEW low, NEW hit, NEW done
    PROVE  /\ MarkedPos(q, low, hit, done) \in Table
           /\ MarkedRun(q, low, hit, done) \in [Run -> RunRow]
  <1>1. ASSUME NEW r \in Run, NEW p \in Pos
        PROVE  MarkedPos(q, low, hit, done)[r][p] \in Status
    <2>1. pos[r][p] \in Status /\ "stop_loss" \in Status /\ "target_hit" \in Status
      BY DEF RunsTyped, Table, Status, Reasons
    <2>. QED
      BY <2>1, Zenon DEF MarkedPos
  <1>2. MarkedPos(q, low, hit, done) \in Table
    BY <1>1 DEF MarkedPos, Table
  <1>3. ASSUME NEW r \in Run PROVE MarkedRow(q, low, hit, r) \in RunRow
    <2>1. run[r] \in RunRow
      BY DEF RunsTyped
    <2>2. /\ [run[r] EXCEPT !.st = "stopped", !.pending = FALSE, !.ack = FALSE] \in RunRow
          /\ [run[r] EXCEPT !.st = "stopped", !.pending = FALSE] \in RunRow
          /\ [run[r] EXCEPT !.pending = TRUE] \in RunRow
          /\ [run[r] EXCEPT !.ack = FALSE] \in RunRow
      BY <2>1 DEF RunRow
    <2>. QED
      BY <2>1, <2>2, Zenon DEF MarkedRow
  <1>4. MarkedRun(q, low, hit, done) \in [Run -> RunRow]
    BY <1>3 DEF MarkedRun, RunsTyped
  <1>. QED
    BY <1>2, <1>4

LEMMA MarksType ==
    ASSUME RunsTyped, RestTyped, NEW q \in Process, NEW low, NEW hit,
           \/ Marks(q, low, hit) /\ UNCHANGED history
           \/ MarkBreaks(q, low, hit)
    PROVE  RunsTyped' /\ cut' \subseteq Run /\ UNCHANGED skipped
  <1>1. CASE Marks(q, low, hit) /\ UNCHANGED history
    BY <1>1, MarkedTypes DEF Marks, RunsTyped, RestTyped, history
  <1>2. CASE MarkBreaks(q, low, hit)
    <2>1. PICK done, r, some :
            /\ r \in Listed(q)
            /\ Breaks(MarkedPos(q, low, hit, done), {r}, some,
                      IF some \subseteq low THEN "stop_loss" ELSE "target_hit")
            /\ run' = MarkedRun(q, low, hit, done)
      BY <1>2 DEF MarkBreaks
    <2>2. (IF some \subseteq low THEN "stop_loss" ELSE "target_hit") \in Reasons
      BY DEF Reasons
    <2>3. {r} \in SUBSET Run
      BY <2>1 DEF Listed
    <2>. QED
      BY <1>2, <2>1, <2>2, <2>3, MarkedTypes, BreaksType DEF RunsTyped, MarkBreaks
  <1>. QED
    BY <1>1, <1>2

LEMMA MarkSessionsType ==
    ASSUME TypeOK, NEW q \in Process, NEW low, NEW hit, MarkSessions(q, low, hit)
    PROVE  TypeOK'
  <1>1. RunsTyped'
    BY Types, MarksType DEF MarkSessions
  <1>2. JobsTyped'
    BY Types, EndsType DEF MarkSessions
  <1>3. cut' \subseteq Run /\ UNCHANGED <<userVars, skipped>>
    BY Types, MarksType DEF MarkSessions
  <1>4. Fault \/ UNCHANGED bounds
    BY DEF MarkSessions
  <1>5. RestTyped'
    BY <1>3, <1>4, Types, BoundsType DEF RestTyped, userVars
  <1>. QED
    BY <1>1, <1>2, <1>5, TypesNext

\* A step of the user that changes no run.
LEMMA QuietType ==
    ASSUME TypeOK, UNCHANGED <<run, pos, userVars, history>>, JobsTyped',
           Act \/ Fault \/ UNCHANGED bounds
    PROVE  TypeOK'
  <1>1. RunsTyped'
    BY Types DEF RunsTyped
  <1>2. RestTyped'
    BY Types, BoundsType DEF RestTyped, userVars, history, bounds
  <1>. QED
    BY <1>1, <1>2, TypesNext

LEMMA AsksType ==
    ASSUME TypeOK, NEW q \in Request,
           \/ Get(q) \/ CloseProfitableAll(q) \/ CloseAllActive(q)
           \/ \E r \in Run :
                \/ CloseRun(q, r) \/ CloseProfitable(q, r)
                \/ \E p \in Pos : CloseOne(q, r, p)
    PROVE  TypeOK'
  <1>0. q \in Process /\ JobsTyped /\ run \in [Run -> RunRow]
    BY Processes, Types DEF RunsTyped
  <1>1. ASSUME NEW op \in {"close", "harvest"}, NEW runs \in SUBSET Run,
               NEW take \in SUBSET (Run \X Pos), AskClose(q, op, runs, take)
        PROVE  TypeOK'
    <2>1. UNCHANGED <<run, pos, userVars, history>> /\ Act
      BY <1>1 DEF AskClose, requestUnchanged, Arrives
    <2>2. Lists(q) \/ Waits(q, op, runs, take)
      BY <1>1 DEF AskClose
    <2>3. op \in Ops
      BY DEF Ops
    <2>4. JobsTyped'
      BY <1>0, <2>1, <2>2, <2>3, ListsType, WaitsType
    <2>. QED
      BY <2>1, <2>4, QuietType
  <1>2. CASE Get(q)
    BY <1>0, <1>2, ListsType, QuietType DEF Get, requestUnchanged, Arrives
  <1>3. CASE CloseProfitableAll(q) \/ CloseAllActive(q)
    BY <1>1, <1>3, RowsType, PairsType DEF CloseProfitableAll, CloseAllActive
  <1>4. ASSUME NEW r \in Run,
               CloseRun(q, r) \/ CloseProfitable(q, r) \/ \E p \in Pos : CloseOne(q, r, p)
        PROVE  TypeOK'
    <2>1. {r} \in SUBSET Run /\ OpenPairs({r}) \in SUBSET (Run \X Pos)
      BY PairsType
    <2>2. \A p : OpenPairs({r}) \cap {<<r, p>>} \in SUBSET (Run \X Pos)
      BY <2>1
    <2>. QED
      BY <1>1, <1>4, <2>1, <2>2 DEF CloseRun, CloseProfitable, CloseOne
  <1>. QED
    BY <1>2, <1>3, <1>4

LEMMA FinishesType ==
    ASSUME TypeOK, NEW q \in Request, FinishClose(q) \/ FinishStop(q) \/ FinishContinue(q)
    PROVE  TypeOK'
  <1>0. q \in Process /\ JobsTyped /\ RunsTyped /\ RestTyped
    BY Processes, Types
  <1>1. RunsTyped'
    <2>1. CASE FinishClose(q)
      <3>1. PICK targets : pos' = Closing(pos, targets, IF job[q].op = "close" THEN "manual"
                                                        ELSE "take_profit")
        BY <2>1 DEF FinishClose
      <3>2. (IF job[q].op = "close" THEN "manual" ELSE "take_profit") \in Reasons
        BY DEF Reasons
      <3>3. run' \in [Run -> RunRow]
        BY <1>0, <2>1, StoppingType DEF FinishClose, RunsTyped
      <3>. QED
        BY <1>0, <3>1, <3>2, <3>3, ClosingType DEF RunsTyped
    <2>2. CASE FinishStop(q)
      BY <1>0, <2>2, ClosingType, StoppingType DEF FinishStop, Reasons, RunsTyped
    <2>3. CASE FinishContinue(q)
      <3>1. \A r \in Run : [run[r] EXCEPT !.pending = FALSE, !.ack = TRUE] \in RunRow
        BY <1>0 DEF RunsTyped, RunRow
      <3>. QED
        BY <1>0, <2>3, <3>1 DEF FinishContinue, RunsTyped
    <2>. QED
      BY <2>1, <2>2, <2>3
  <1>2. JobsTyped'
    BY <1>0, <1>1, ListsType DEF RunsTyped, FinishClose, FinishStop, FinishContinue
  <1>3. RestTyped'
    BY <1>0, BoundsType
    DEF RestTyped, FinishClose, FinishStop, FinishContinue, requestUnchanged,
        userVars, history, bounds
  <1>. QED
    BY <1>1, <1>2, <1>3, TypesNext

LEMMA RequestBreaksType ==
    ASSUME TypeOK, NEW q \in Request, RequestBreaks(q)
    PROVE  TypeOK'
  <1>0. q \in Process /\ JobsTyped /\ RunsTyped /\ RestTyped
    BY Processes, Types
  <1> DEFINE why == CASE job[q].op = "close" -> "manual"
                      [] job[q].op = "harvest" -> "take_profit"
                      [] OTHER -> "target_hit"
  <1>1. why \in Reasons
    BY DEF Reasons
  <1>a. PICK some \in SUBSET job[q].take : Breaks(pos, job[q].runs, some, why)
    BY DEF RequestBreaks
  <1>. HIDE DEF why
  <1>b. job[q].runs \in SUBSET Run
    BY <1>0 DEF JobsTyped, Job
  <1>4. pos' \in Table /\ cut' \subseteq Run
    BY <1>0, <1>1, <1>a, <1>b, BreaksType DEF RunsTyped
  <1>2. RunsTyped'
    BY <1>0, <1>4 DEF RunsTyped, RequestBreaks
  <1>3. JobsTyped'
    BY <1>0, EndsType DEF RequestBreaks
  <1>5. RestTyped'
    BY <1>0, <1>4, BoundsType DEF RestTyped, RequestBreaks, userVars
  <1>. QED
    BY <1>2, <1>3, <1>5, TypesNext

LEMMA DecideType ==
    ASSUME TypeOK, NEW q \in Request, NEW r \in Run, NEW op \in {"stop", "continue"},
           Decide(q, r, op)
    PROVE  TypeOK'
  <1>0. q \in Process /\ JobsTyped /\ RunsTyped /\ RestTyped
    BY Processes, Types
  <1>1. run' \in [Run -> RunRow]
    <2>1. run[r] \in RunRow
      BY <1>0 DEF RunsTyped
    <2>2. [run[r] EXCEPT !.pending = FALSE, !.ack = TRUE] \in RunRow
      BY <2>1 DEF RunRow
    <2>3. CASE OpenPairs({r}) # {}
      BY <1>0, <2>3 DEF Decide, RunsTyped
    <2>4. CASE OpenPairs({r}) = {} /\ op = "stop"
      BY <1>0, <2>4, StoppingType DEF Decide, RunsTyped
    <2>5. CASE OpenPairs({r}) = {} /\ op = "continue"
      <3>1. run' = [run EXCEPT ![r] = [run[r] EXCEPT !.pending = FALSE, !.ack = TRUE]]
        BY <1>0, <2>5 DEF Decide, RunsTyped
      <3>. QED
        BY <1>0, <2>2, <3>1 DEF RunsTyped
    <2>. QED
      BY <2>3, <2>4, <2>5
  <1>2. JobsTyped'
    <2>1. Lists(q) \/ Waits(q, op, {r}, OpenPairs({r}))
      BY DEF Decide
    <2>2. op \in Ops /\ {r} \in SUBSET Run /\ OpenPairs({r}) \in SUBSET (Run \X Pos)
      BY PairsType DEF Ops
    <2>. QED
      BY <1>0, <1>1, <2>1, <2>2, ListsType, WaitsType
  <1>3. RunsTyped' /\ RestTyped'
    BY <1>0, <1>1, BoundsType
       DEF Decide, RunsTyped, RestTyped, requestUnchanged, Arrives, userVars, history
  <1>. QED
    BY <1>2, <1>3, TypesNext

LEMMA RemovalsType ==
    ASSUME TypeOK, NEW q \in Request,
           DeleteClosed(q) \/ Reset(q) \/ \E r \in Run : Delete(q, r)
    PROVE  TypeOK'
  <1>0. q \in Process /\ JobsTyped /\ RunsTyped /\ RestTyped
    BY Processes, Types
  <1>1. CASE Reset(q)
    <2>1. run' \in [Run -> RunRow]
      BY <1>0, <1>1, AbsentRows DEF Reset, RunsTyped
    <2>2. pos' \in Table
      BY <1>0, <1>1 DEF Reset, RunsTyped, Table, Status
    <2>3. JobsTyped'
      BY <1>0, <1>1, <2>1, ListsType DEF Reset
    <2>4. RunsTyped' /\ RestTyped'
      BY <1>0, <1>1, <2>1, <2>2, BoundsType
         DEF Reset, RunsTyped, RestTyped, requestUnchanged, Arrives, userVars, history
    <2>. QED
      BY <2>3, <2>4, TypesNext
  <1>2. ASSUME NEW runs, Hide(q, runs) PROVE TypeOK'
    <2>1. \A r \in Run : [run[r] EXCEPT !.hidden = TRUE] \in RunRow
      BY <1>0 DEF RunsTyped, RunRow
    <2>2. run' \in [Run -> RunRow]
      BY <1>0, <1>2, <2>1 DEF Hide, RunsTyped
    <2>3. JobsTyped'
      BY <1>0, <1>2, <2>2, ListsType DEF Hide
    <2>4. RunsTyped' /\ RestTyped'
      BY <1>0, <1>2, <2>2, BoundsType
         DEF Hide, RunsTyped, RestTyped, requestUnchanged, Arrives, userVars, history
    <2>. QED
      BY <2>3, <2>4, TypesNext
  <1>. QED
    BY <1>1, <1>2 DEF DeleteClosed, Delete

LEMMA StartsType ==
    ASSUME TypeOK, NEW q \in Request, SaveAutorun(q) \/ Start(q)
    PROVE  TypeOK'
  <1>0. q \in Process /\ JobsTyped /\ RunsTyped /\ RestTyped
    BY Processes, Types
  <1>1. CASE SaveAutorun(q)
    <2>1. JobsTyped'
      BY <1>0, <1>1, EndsType DEF SaveAutorun
    <2>2. RunsTyped' /\ RestTyped'
      BY <1>0, <1>1, BoundsType DEF SaveAutorun, RunsTyped, RestTyped, Arrives, history
    <2>. QED
      BY <2>1, <2>2, TypesNext
  <1>2. CASE Start(q)
    <2>1. JobsTyped'
      <3>1. "open" \in Ops /\ {} \in SUBSET Run /\ {} \in SUBSET (Run \X Pos)
        BY DEF Ops
      <3>. QED
        BY <1>0, <1>2, <3>1, WaitsType DEF Start
    <2>. QED
      BY <1>2, <2>1, QuietType DEF Start, requestUnchanged, Arrives
  <1>. QED
    BY <1>1, <1>2

LEMMA OpensType ==
    ASSUME RunsTyped, NEW q, NEW r \in Run, NEW ask \in BOOLEAN, NEW filled \in BOOLEAN,
           Opens(q, r, ask, filled)
    PROVE  RunsTyped'
  <1> DEFINE row == [Absent("running") EXCEPT !.auto = (q = Autorun), !.ask = ask]
  <1>1. row \in RunRow
    <2>1. (q = Autorun) \in BOOLEAN
      OBVIOUS
    <2>. QED
      BY <2>1, AbsentRows DEF RunRow
  <1>2. run' = [run EXCEPT ![r] = row]
    BY DEF Opens
  <1>. HIDE DEF row
  <1>3. pos' \in Table
    BY DEF Opens, RunsTyped, Table, Status
  <1>. QED
    BY <1>1, <1>2, <1>3 DEF RunsTyped

LEMMA OpenStepType ==
    ASSUME TypeOK, NEW q \in Process, OpenStep(q)
    PROVE  TypeOK'
  <1>0. JobsTyped /\ RunsTyped /\ RestTyped
    BY Types
  <1>1. CASE OpensNothing(q)
    BY <1>0, <1>1, EndsType, QuietType DEF OpensNothing
  <1>2. ASSUME NEW r \in Run, NEW ask \in BOOLEAN, Open(q, r, ask) PROVE TypeOK'
    <2>1. RunsTyped'
      BY <1>0, <1>2, OpensType DEF Open
    <2>2. JobsTyped'
      BY <1>0, <1>2, <2>1, ListsType, EndsType DEF Open, RunsTyped
    <2>3. used' \in Nat /\ on' \in BOOLEAN
      <3>1. used' \in Nat
        BY <1>0, <1>2 DEF Open, RestTyped
      <3>2. on \in BOOLEAN
        BY <1>0 DEF RestTyped
      <3>3. on' = on \/ on' = FALSE
        BY <1>2 DEF Open
      <3>. QED
        BY <3>1, <3>2, <3>3
    <2>4. RestTyped'
      BY <1>0, <1>2, <2>3 DEF Open, RestTyped, BoundsTyped, history, bounds
    <2>. QED
      BY <2>1, <2>2, <2>4, TypesNext
  <1>3. ASSUME NEW r \in Run, NEW ask \in BOOLEAN, NEW filled \in BOOLEAN,
               OpenBreaks(q, r, ask, filled)
        PROVE  TypeOK'
    <2>1. RunsTyped'
      BY <1>0, <1>3, OpensType DEF OpenBreaks
    <2>2. JobsTyped'
      BY <1>0, <1>3, EndsType DEF OpenBreaks
    <2>3. used' \in Nat /\ cut' \subseteq Run
      BY <1>0, <1>3 DEF OpenBreaks, RestTyped
    <2>4. RestTyped'
      BY <1>0, <1>3, <2>3, BoundsType DEF OpenBreaks, RestTyped
    <2>. QED
      BY <2>1, <2>2, <2>4, TypesNext
  <1>. QED
    BY <1>1, <1>2, <1>3 DEF OpenStep

\* What the tick and the reset do next: wait for the prices, or end.
LEMMA TickOpensType ==
    ASSUME JobsTyped, NEW busy, TickOpens(busy)
    PROVE  JobsTyped'
  <1>1. "open" \in Ops /\ {} \in SUBSET Run /\ {} \in SUBSET (Run \X Pos)
    BY DEF Ops
  <1>. QED
    BY <1>1, Processes, WaitsType, EndsType DEF TickOpens

LEMMA ResetOverType ==
    ASSUME JobsTyped, RestTyped, NEW n \in Nat, ResetOver(n)
    PROVE  JobsTyped' /\ due' \in BOOLEAN /\ BoundsTyped'
  <1>1. JobsTyped'
    BY Processes, TickOpensType, EndsType DEF ResetOver
  <1>2. BoundsTyped'
    <2>1. n + 1 \in Nat
      OBVIOUS
    <2>. QED
      BY <2>1, FaultsType DEF ResetOver, RestTyped
  <1>. QED
    BY <1>1, <1>2 DEF ResetOver, RestTyped

LEMMA ResetGoesOnType ==
    ASSUME JobsTyped, RestTyped, NEW rest \in SUBSET Run, NEW n \in Nat, ResetGoesOn(rest, n)
    PROVE  JobsTyped' /\ due' \in BOOLEAN /\ BoundsTyped'
  <1>1. "reset" \in Ops /\ {} \in SUBSET (Run \X Pos)
    BY DEF Ops
  <1>. QED
    BY <1>1, Processes, ResetOverType, WaitsType, FaultsType DEF ResetGoesOn, RestTyped

LEMMA TickGoesOnType ==
    ASSUME JobsTyped, RestTyped, NEW n \in Nat, TickGoesOn(n)
    PROVE  JobsTyped' /\ due' \in BOOLEAN /\ BoundsTyped'
  <1>1. "reset" \in Ops /\ AutoRunning(run') \in SUBSET Run /\ {} \in SUBSET (Run \X Pos)
    BY DEF Ops, AutoRunning
  <1>2. CASE ResetOver(n)
    BY <1>2, ResetOverType
  <1>3. CASE /\ UNCHANGED due /\ Faults(n)
             /\ \/ Ends(Autorun) \/ TickOpens(AutoRunning(run'))
                \/ Waits(Autorun, "reset", AutoRunning(run'), {})
    BY <1>1, <1>3, Processes, EndsType, TickOpensType, WaitsType, FaultsType DEF RestTyped
  <1>. QED
    BY <1>2, <1>3 DEF TickGoesOn

LEMMA TickType ==
    ASSUME TypeOK, NEW low, NEW hit, Tick(low, hit)
    PROVE  TypeOK'
  <1>0. Autorun \in Process /\ JobsTyped /\ RunsTyped /\ RestTyped
    BY Processes, Types
  <1>1. RunsTyped' /\ cut' \subseteq Run /\ UNCHANGED skipped
    BY <1>0, MarksType DEF Tick
  <1>2. JobsTyped' /\ due' \in BOOLEAN /\ BoundsTyped'
    BY <1>0, TickGoesOnType DEF Tick
  <1>3. RestTyped'
    BY <1>0, <1>1, <1>2 DEF Tick, RestTyped
  <1>. QED
    BY <1>1, <1>2, <1>3, TypesNext

LEMMA ForceType ==
    ASSUME TypeOK, NEW r \in Run, ForceClose(r) \/ ForceCloses(r)
    PROVE  TypeOK'
  <1>0. Autorun \in Process /\ JobsTyped /\ RunsTyped /\ RestTyped
    BY Processes, Types
  <1>1. job[Autorun].runs \in SUBSET Run /\ job[Autorun].runs \ {r} \in SUBSET Run
    BY <1>0 DEF JobsTyped, Job
  <1>2. ASSUME NEW n \in Nat, ResetGoesOn(job[Autorun].runs \ {r}, n)
        PROVE  JobsTyped' /\ due' \in BOOLEAN /\ BoundsTyped'
    BY <1>0, <1>1, <1>2, ResetGoesOnType
  <1>3. CASE ForceClose(r)
    <2>1. RunsTyped'
      BY <1>0, <1>3, StoppingType DEF ForceClose, ResetSkips, RunsTyped
    <2>2. "force" \in Ops /\ OpenPairs({r}) \in SUBSET (Run \X Pos)
      BY PairsType DEF Ops
    <2>3. JobsTyped' /\ due' \in BOOLEAN /\ BoundsTyped'
      <3>1. CASE /\ Waits(Autorun, "force", job[Autorun].runs, OpenPairs({r}))
                 /\ UNCHANGED <<run, due, skipped, bounds>>
        BY <1>0, <1>1, <2>2, <3>1, WaitsType, BoundsType DEF RestTyped
      <3>. QED
        BY <1>2, <1>3, <3>1 DEF ForceClose, ResetSkips
    <2>4. skipped' \subseteq Run /\ UNCHANGED <<on, admin, used, cut>>
      BY <1>0, <1>3 DEF ForceClose, ResetSkips, RestTyped
    <2>5. RestTyped'
      BY <1>0, <2>3, <2>4 DEF RestTyped
    <2>. QED
      BY <2>1, <2>3, <2>5, TypesNext
  <1>4. CASE ForceCloses(r)
    <2>1. RunsTyped' /\ cut' \subseteq Run /\ skipped' \subseteq Run
      <3>1. "daily_reset" \in Reasons /\ {r} \in SUBSET Run
        BY DEF Reasons
      <3>2. CASE /\ pos' = Closing(pos, job[Autorun].take, "daily_reset")
                 /\ run' = Stopping(run, {r}) /\ UNCHANGED history
        BY <1>0, <3>1, <3>2, ClosingType, StoppingType DEF RunsTyped, RestTyped, history
      <3>3. ASSUME NEW some, Breaks(pos, {r}, some, "daily_reset"), ResetSkips(r)
            PROVE  RunsTyped' /\ cut' \subseteq Run /\ skipped' \subseteq Run
        <4>1. pos' \in Table /\ cut' \subseteq Run
          BY <1>0, <3>1, <3>3, BreaksType DEF RunsTyped
        <4>. QED
          BY <1>0, <3>3, <4>1 DEF ResetSkips, RunsTyped, RestTyped
      <3>. QED
        BY <1>4, <3>2, <3>3 DEF ForceCloses
    <2>2. JobsTyped' /\ due' \in BOOLEAN /\ BoundsTyped'
      BY <1>2, <1>4 DEF ForceCloses, ResetSkips
    <2>3. RestTyped'
      BY <1>0, <1>4, <2>1, <2>2 DEF ForceCloses, RestTyped
    <2>. QED
      BY <2>1, <2>2, <2>3, TypesNext
  <1>. QED
    BY <1>3, <1>4

LEMMA WorldType ==
    ASSUME TypeOK, \/ MonitorBegins \/ TickBegins \/ Midnight \/ ResetHourPasses
                   \/ \E r \in Run, p \in Pos : Drop(r, p)
    PROVE  TypeOK'
  <1>0. {Autorun, Monitor} \subseteq Process /\ JobsTyped /\ RunsTyped /\ RestTyped
    BY Processes, Types
  <1>1. CASE MonitorBegins \/ TickBegins
    <2>1. JobsTyped'
      BY <1>0, <1>1, ListsType DEF MonitorBegins, TickBegins, RunsTyped
    <2>. QED
      BY <1>1, <2>1, QuietType DEF MonitorBegins, TickBegins
  <1>2. CASE Midnight
    <2>1. BoundsTyped'
      BY <1>0, <1>2, ConstantsOK DEF Midnight, RestTyped, BoundsTyped, ConstantsOK
    <2>2. RunsTyped' /\ JobsTyped' /\ RestTyped'
      BY <1>0, <1>2, <2>1 DEF Midnight, RunsTyped, JobsTyped, RestTyped, history
    <2>. QED
      BY <2>2, TypesNext
  <1>4. CASE ResetHourPasses
    <2>1. RunsTyped' /\ JobsTyped' /\ RestTyped'
      BY <1>0, <1>4, BoundsType
         DEF ResetHourPasses, RunsTyped, JobsTyped, RestTyped, history
    <2>. QED
      BY <2>1, TypesNext
  <1>3. ASSUME NEW r \in Run, NEW p \in Pos, Drop(r, p) PROVE TypeOK'
    <2>1. pos' \in Table
      BY <1>0, <1>3 DEF Drop, RunsTyped, Table, Status
    <2>2. RunsTyped' /\ JobsTyped' /\ RestTyped'
      BY <1>0, <1>3, <2>1
         DEF Drop, RunsTyped, JobsTyped, RestTyped, BoundsTyped, userVars, history, bounds
    <2>. QED
      BY <2>2, TypesNext
  <1>. QED
    BY <1>1, <1>2, <1>3, <1>4

LEMMA NextType == ASSUME TypeOK, [Next]_vars PROVE TypeOK'
  <1>1. CASE UNCHANGED vars
    BY <1>1 DEF vars, userVars, history, bounds, TypeOK
  <1>2. CASE Next
    <2>1. ASSUME NEW q \in Request, Serve(q) PROVE TypeOK'
      BY <2>1, AsksType, FinishesType, RequestBreaksType, DecideType, RemovalsType, StartsType
         DEF Serve
    <2>2. CASE Loops
      BY <2>2, WorldType, TickType, ForceType DEF Loops
    <2>. QED
      BY <1>2, <2>1, <2>2, OpenStepType, MarkSessionsType, WorldType DEF Next
  <1>. QED
    BY <1>1, <1>2

LEMMA InitType == ASSUME Init PROVE TypeOK
  <1>1. RunsTyped
    BY AbsentRows DEF Init, Nothing, RunsTyped, Table, Status
  <1>2. JobsTyped
    <2>1. Idle \in Job /\ Nothing \in [Run -> RunRow]
      BY AbsentRows DEF Idle, Job, Ops, Nothing
    <2>. QED
      BY <2>1 DEF Init, JobsTyped
  <1>3. RestTyped
    <2>1. on \in BOOLEAN /\ due \in BOOLEAN /\ admin \in BOOLEAN
      BY ConstantsOK DEF Init, ConstantsOK
    <2>2. acts \in 0..MaxActs /\ faults \in 0..MaxFaults /\ days \in 0..MaxDays
      BY ConstantsOK DEF Init, ConstantsOK
    <2>. QED
      BY <2>1, <2>2 DEF Init, RestTyped, BoundsTyped
  <1>. QED
    BY <1>1, <1>2, <1>3, Types

\* Every variable of the model keeps its type: no bound is passed, no row of
\* paper_sessions or paper_positions leaves its columns' domains.
THEOREM TypeCorrect == Spec => []TypeOK
  <1>1. TypeOK /\ [Next]_vars => TypeOK'
    BY NextType
  <1>2. Init => TypeOK
    BY InitType
  <1>. QED
    BY <1>1, <1>2, PTL DEF Spec

-----------------------------------------------------------------------------
(* The invariant                                                           *)

\* A run with something open is going; a run asked about is going; a run that
\* goes on has something open, unless a write to it failed.
RowSound(r) ==
    /\ OpenIn(pos, r) # {} => run[r].st = "running"
    /\ run[r].pending => run[r].st = "running"
    /\ run[r].st = "running" /\ r \notin cut => OpenIn(pos, r) # {}
Sound == \A r \in Run : RowSound(r)

\* The runs a process is about to stop whatever it finds then.
Aimed(q) ==
    CASE job[q].op = "stop" -> job[q].runs
      [] job[q].op = "force" -> {r \in Run : \E p \in Pos : <<r, p>> \in job[q].take}
      [] OTHER -> {}

\* Of a run it is about to stop, it has read every position that is open
\* still: nothing is ever opened in a run that exists. What it closes is in
\* runs it will look at.
JobSound(q) ==
    /\ \A r \in Aimed(q) : /\ run[r].st # "none"
                           /\ \A p \in OpenIn(pos, r) : <<r, p>> \in job[q].take
    /\ job[q].op \in {"close", "harvest", "stop"} => job[q].take \subseteq job[q].runs \X Pos
    /\ job[q].op = "force" => \A x, y \in job[q].take : x[1] = y[1]
    /\ q = Autorun => job[q].op \in {"idle", "mark", "open", "reset", "force"}
    /\ q = Monitor => job[q].op \in {"idle", "mark"}
JobsSound == \A q \in Process : JobSound(q)

\* The loop's own runs, but for those its reset could not close: never two,
\* none while it is about to open one, none the reset will not come to.
Going1 == AutoRunning(run) \ skipped
LoopSound ==
    /\ \A r1, r2 \in Going1 : r1 = r2
    /\ job[Autorun].op = "open" => Going1 = {}
    /\ job[Autorun].op \in {"reset", "force"} => Going1 \subseteq job[Autorun].runs

-----------------------------------------------------------------------------
(* What a step does to one run                                             *)

\* No run goes back to not existing, nothing is opened in one that exists,
\* and none comes to be a run of the loop's that is going.
TameRow(r) ==
    /\ run[r].st # "none" => run'[r].st # "none" /\ OpenIn(pos', r) \subseteq OpenIn(pos, r)
    /\ run'[r].auto /\ run'[r].st = "running" => run[r].auto /\ run[r].st = "running"

LEMMA RowKept ==
    ASSUME NEW r \in Run, RowSound(r), run'[r] = run[r], cut \subseteq cut',
           OpenIn(pos', r) \subseteq OpenIn(pos, r),
           OpenIn(pos', r) = OpenIn(pos, r) \/ r \in cut'
    PROVE  RowSound(r)' /\ TameRow(r)
  BY DEF RowSound, TameRow

\* Closed and stopped, or neither.
LEMMA RowStopped ==
    ASSUME TypeOK, NEW r \in Run, RowSound(r), NEW S, cut \subseteq cut',
           run' = Stopping(run, S), OpenIn(pos', r) \subseteq OpenIn(pos, r),
           r \in S => OpenIn(pos', r) = {},
           OpenIn(pos', r) = {} => OpenIn(pos, r) = {} \/ r \in S \/ r \in cut'
    PROVE  RowSound(r)' /\ TameRow(r)
  <1> DEFINE stops == r \in S /\ run[r].st \in {"running", "stopped"}
  <1>1. run[r] \in RunRow
    BY DEF TypeOK
  <1>2. CASE stops
    <2>1. run'[r] = [run[r] EXCEPT !.st = "stopped", !.pending = FALSE]
      BY <1>2 DEF Stopping
    <2>2. run'[r].st = "stopped" /\ ~run'[r].pending
      BY <1>1, <2>1 DEF RunRow
    <2>. QED
      BY <1>2, <2>2 DEF RowSound, TameRow
  <1>3. CASE ~stops
    <2>1. run'[r] = run[r]
      BY <1>3 DEF Stopping
    <2>2. r \in S => run[r].st # "running"
      BY <1>3
    <2>. QED
      BY <2>1, <2>2 DEF RowSound, TameRow
  <1>. QED
    BY <1>2, <1>3

\* What marking leaves open.
LEMMA OpenAfterMarking ==
    ASSUME TypeOK, NEW q \in Process, NEW low, NEW hit, NEW done, NEW r \in Run
    PROVE  OpenIn(MarkedPos(q, low, hit, done), r) =
             IF r \notin done THEN OpenIn(pos, r)
             ELSE IF Banks(q, low, hit, r) THEN {} ELSE Left(q, low, r)
  <1> DEFINE ps == MarkedPos(q, low, hit, done)
  <1>1. ~IsOpen("stop_loss") /\ ~IsOpen("target_hit")
    BY DEF IsOpen
  <1>2. Lost(q, low, r) \subseteq OpenIn(pos, r)
    BY DEF Lost
  <1>3. ASSUME r \notin done PROVE \A p \in Pos : ps[r][p] = pos[r][p]
    BY <1>3 DEF MarkedPos
  <1>4. ASSUME r \in done
        PROVE  /\ \A p \in Lost(q, low, r) : ps[r][p] = "stop_loss"
               /\ \A p \in Left(q, low, r) :
                    ps[r][p] = IF Banks(q, low, hit, r) THEN "target_hit" ELSE pos[r][p]
               /\ \A p \in Pos \ OpenIn(pos, r) : ps[r][p] = pos[r][p]
    <2>1. \A p \in Pos : p \in Lost(q, low, r) => ps[r][p] = "stop_loss"
      BY <1>4 DEF MarkedPos, Left
    <2>2. \A p \in Pos : p \in Left(q, low, r) =>
                 ps[r][p] = IF Banks(q, low, hit, r) THEN "target_hit" ELSE pos[r][p]
      BY <1>4 DEF MarkedPos, Left
    <2>3. \A p \in Pos : p \notin OpenIn(pos, r) => ps[r][p] = pos[r][p]
      BY <1>2, <1>4 DEF MarkedPos, Left
    <2>4. Left(q, low, r) \subseteq Pos /\ Lost(q, low, r) \subseteq Pos
      BY DEF Left, Lost, OpenIn
    <2>. QED
      BY <2>1, <2>2, <2>3, <2>4
  <1>. HIDE DEF ps
  <1>5. CASE r \notin done
    BY <1>3, <1>5 DEF OpenIn, ps
  <1>6. CASE r \in done
    <2>1. \A p \in Pos : IsOpen(ps[r][p]) <=> p \in Left(q, low, r) /\ ~Banks(q, low, hit, r)
      BY <1>1, <1>2, <1>4, <1>6 DEF Left, OpenIn
    <2>. QED
      BY <1>6, <2>1 DEF OpenIn, ps, Left
  <1>. QED
    BY <1>5, <1>6

\* A run is stopped by marking just when marking leaves nothing open in it,
\* and asked about only when it leaves something.
LEMMA RowMarked ==
    ASSUME TypeOK, NEW q \in Process, NEW low, NEW hit, NEW r \in Run, RowSound(r),
           run'[r] = MarkedRow(q, low, hit, r), cut \subseteq cut',
           OpenIn(pos', r) = IF Banks(q, low, hit, r) THEN {} ELSE Left(q, low, r)
    PROVE  RowSound(r)' /\ TameRow(r)
  <1>1. run[r] \in RunRow
    BY DEF TypeOK
  <1>2. OpenIn(pos', r) \subseteq OpenIn(pos, r)
    BY DEF Left
  <1>3. CASE Drained(q, low, r)
    <2>1. run'[r] = [run[r] EXCEPT !.st = "stopped", !.pending = FALSE, !.ack = FALSE]
      BY <1>3, Zenon DEF MarkedRow, Drained, Banks, Hit
    <2>2. run'[r].st = "stopped" /\ ~run'[r].pending
      BY <1>1, <2>1 DEF RunRow
    <2>3. OpenIn(pos', r) = {}
      BY <1>3 DEF Drained
    <2>. QED
      BY <2>2, <2>3 DEF RowSound, TameRow
  <1>4. CASE ~Drained(q, low, r) /\ Banks(q, low, hit, r)
    <2>1. run'[r] = [run[r] EXCEPT !.st = "stopped", !.pending = FALSE]
      BY <1>4, Zenon DEF MarkedRow, Banks
    <2>2. run'[r].st = "stopped" /\ ~run'[r].pending
      BY <1>1, <2>1 DEF RunRow
    <2>. QED
      BY <1>4, <2>2 DEF RowSound, TameRow
  <1>5. CASE ~Drained(q, low, r) /\ ~Banks(q, low, hit, r)
    <2>1. run'[r] \in {run[r], [run[r] EXCEPT !.pending = TRUE], [run[r] EXCEPT !.ack = FALSE]}
      BY <1>5 DEF MarkedRow
    <2>2. run'[r].st = run[r].st /\ run'[r].auto = run[r].auto
      BY <1>1, <2>1 DEF RunRow
    <2>3. run'[r].pending => run[r].pending \/ Hit(q, low, hit, r)
      BY <1>1, <1>5 DEF MarkedRow, RunRow
    <2>4. OpenIn(pos, r) # {} => OpenIn(pos', r) # {}
      <3>1. OpenIn(pos', r) = Left(q, low, r)
        BY <1>5
      <3>2. Lost(q, low, r) = {} => Left(q, low, r) = OpenIn(pos, r)
        BY DEF Left
      <3>. QED
        BY <1>5, <3>1, <3>2 DEF Drained
    <2>5. Hit(q, low, hit, r) => OpenIn(pos, r) # {}
      BY DEF Hit, Left
    <2>6. cut \subseteq cut'
      OBVIOUS
    <2>. QED
      BY <1>2, <2>2, <2>3, <2>4, <2>5, <2>6 DEF RowSound, TameRow
  <1>. QED
    BY <1>3, <1>4, <1>5

LEMMA RowsMarked ==
    ASSUME TypeOK, NEW q \in Process, NEW low, NEW hit, Sound,
           \/ Marks(q, low, hit) /\ UNCHANGED cut
           \/ MarkBreaks(q, low, hit)
    PROVE  \A r \in Run : RowSound(r)' /\ TameRow(r)
  <1>1. CASE Marks(q, low, hit) /\ UNCHANGED cut
    <2> SUFFICES ASSUME NEW r \in Run PROVE RowSound(r)' /\ TameRow(r)
      OBVIOUS
    <2>1. OpenIn(pos', r) = IF r \notin Listed(q) THEN OpenIn(pos, r)
                            ELSE IF Banks(q, low, hit, r) THEN {} ELSE Left(q, low, r)
      BY <1>1, OpenAfterMarking DEF Marks
    <2>2. run'[r] = IF r \in Listed(q) THEN MarkedRow(q, low, hit, r) ELSE run[r]
      BY <1>1 DEF Marks, MarkedRun
    <2>3. RowSound(r)
      BY DEF Sound
    <2>. QED
      BY <1>1, <2>1, <2>2, <2>3, RowMarked, RowKept
  <1>2. CASE MarkBreaks(q, low, hit)
    <2>a. PICK done \in SUBSET Listed(q), b \in Listed(q) :
            /\ b \notin done
            /\ \E some \in (SUBSET (OpenPairs({b}) \cap low)) \cup
                       (IF Banks(q, {}, hit, b) THEN SUBSET OpenPairs({b}) ELSE {}) :
                  Breaks(MarkedPos(q, low, hit, done), {b}, some,
                         IF some \subseteq low THEN "stop_loss" ELSE "target_hit")
            /\ run' = MarkedRun(q, low, hit, done)
      BY <1>2 DEF MarkBreaks
    <2>b. PICK some \in (SUBSET (OpenPairs({b}) \cap low)) \cup
                       (IF Banks(q, {}, hit, b) THEN SUBSET OpenPairs({b}) ELSE {}) :
              Breaks(MarkedPos(q, low, hit, done), {b}, some,
                     IF some \subseteq low THEN "stop_loss" ELSE "target_hit")
      BY <2>a
    <2>1. /\ b \notin done
          /\ pos' = Closing(MarkedPos(q, low, hit, done), some,
                            IF some \subseteq low THEN "stop_loss" ELSE "target_hit")
          /\ run' = MarkedRun(q, low, hit, done)
          /\ cut' = IF some = {} THEN cut ELSE cut \cup {b}
      BY <2>a, <2>b DEF Breaks
    <2>2. some \subseteq {b} \X Pos
      <3>1. OpenPairs({b}) \subseteq {b} \X Pos
        BY DEF OpenPairs
      <3>2. some \subseteq OpenPairs({b})
        <4> DEFINE all == OpenPairs({b})
        <4>1. some \in SUBSET (all \cap low) \/ some \in SUBSET all
          BY <2>b, Zenon
        <4>. HIDE DEF all
        <4>2. some \subseteq all
          BY <4>1
        <4>. QED
          BY <4>2 DEF all
      <3>. QED
        BY <3>1, <3>2
    <2> SUFFICES ASSUME NEW r \in Run PROVE RowSound(r)' /\ TameRow(r)
      OBVIOUS
    <2>3. RowSound(r)
      BY DEF Sound
    <2> DEFINE marked == MarkedPos(q, low, hit, done)
    <2>4. OpenIn(pos', r) = {p \in OpenIn(marked, r) : <<r, p>> \notin some}
      <3>1. (IF some \subseteq low THEN "stop_loss" ELSE "target_hit") \in Reasons
        BY DEF Reasons
      <3>2. marked \in Table
        BY Types, MarkedTypes
      <3>. QED
        BY <2>1, <3>1, <3>2, OpenAfterClosing
    <2>5. OpenIn(marked, r) = IF r \notin done THEN OpenIn(pos, r)
                              ELSE IF Banks(q, low, hit, r) THEN {} ELSE Left(q, low, r)
      BY OpenAfterMarking
    <2>6. run'[r] = IF r \in done THEN MarkedRow(q, low, hit, r) ELSE run[r]
      BY <2>1 DEF MarkedRun
    <2>. HIDE DEF marked
    <2>7. r # b \/ some = {} => OpenIn(pos', r) = OpenIn(marked, r)
      BY <2>2, <2>4 DEF OpenIn
    <2>8. CASE r \in done
      BY <2>1, <2>3, <2>5, <2>6, <2>7, <2>8, RowMarked
    <2>9. CASE r \notin done
      <3>1. OpenIn(pos', r) \subseteq OpenIn(pos, r)
        BY <2>4, <2>5, <2>9
      <3>2. OpenIn(pos', r) = OpenIn(pos, r) \/ r \in cut'
        BY <2>1, <2>5, <2>7, <2>9
      <3>. QED
        BY <2>1, <2>3, <2>6, <2>9, <3>1, <3>2, RowKept
    <2>. QED
      BY <2>8, <2>9
  <1>. QED
    BY <1>1, <1>2


-----------------------------------------------------------------------------
(* What a step does to the jobs of the processes                           *)

Inv == Sound /\ JobsSound /\ LoopSound
RowsStep == \A r \in Run : RowSound(r)' /\ TameRow(r)

LEMMA WaitsJob ==
    ASSUME JobsTyped, NEW q \in Process, NEW op, NEW runs, NEW take, Waits(q, op, runs, take)
    PROVE  /\ job'[q].op = op /\ job'[q].runs = runs /\ job'[q].take = take
           /\ \A p \in Process \ {q} : job'[p] = job[p]
  BY DEF JobsTyped, Waits

LEMMA EndsJob ==
    ASSUME JobsTyped, NEW q \in Process, Ends(q)
    PROVE  job'[q].op = "idle" /\ \A p \in Process \ {q} : job'[p] = job[p]
  BY DEF JobsTyped, Ends, Idle

LEMMA ListsJob ==
    ASSUME JobsTyped, NEW q \in Process, Lists(q)
    PROVE  job'[q].op = "mark" /\ \A p \in Process \ {q} : job'[p] = job[p]
  <1>1. [Idle EXCEPT !.op = "mark"].op = "mark"
    BY DEF Idle
  <1>. QED
    BY <1>1 DEF JobsTyped, Lists

\* A job that will stop and close nothing by itself.
LEMMA HarmlessJob ==
    ASSUME NEW q \in Process, job'[q].op \in {"idle", "mark", "open", "continue", "reset"},
           q = Autorun => job'[q].op # "continue",
           q = Monitor => job'[q].op \in {"idle", "mark"}
    PROVE  JobSound(q)'
  BY DEF JobSound, Aimed

\* What a process has read stays enough while it waits.
LEMMA KeepsJob ==
    ASSUME JobsTyped, NEW q \in Process, JobSound(q), job'[q] = job[q],
           \A r \in Run : TameRow(r)
    PROVE  JobSound(q)'
  <1>1. job[q].runs \subseteq Run
    BY DEF JobsTyped, Job
  <1>2. Aimed(q)' = Aimed(q) /\ Aimed(q) \subseteq Run
    BY <1>1 DEF Aimed
  <1>3. \A r \in Aimed(q) : /\ run'[r].st # "none"
                            /\ \A p \in OpenIn(pos', r) : <<r, p>> \in job'[q].take
    BY <1>2 DEF JobSound, TameRow
  <1>4. /\ job'[q].op \in {"close", "harvest", "stop"} => job'[q].take \subseteq job'[q].runs \X Pos
        /\ job'[q].op = "force" => \A x, y \in job'[q].take : x[1] = y[1]
        /\ q = Autorun => job'[q].op \in {"idle", "mark", "open", "reset", "force"}
        /\ q = Monitor => job'[q].op \in {"idle", "mark"}
    BY DEF JobSound
  <1>. QED
    BY <1>2, <1>3, <1>4 DEF JobSound

LEMMA GoingFalls ==
    ASSUME RowsStep, skipped \subseteq skipped'
    PROVE  Going1' \subseteq Going1
  BY DEF RowsStep, TameRow, Going1, AutoRunning

\* A step of a process other than the loop.
LEMMA Frame ==
    ASSUME JobsTyped, Inv, RowsStep, skipped \subseteq skipped', NEW q \in Process, q # Autorun,
           \A p \in Process \ {q} : job'[p] = job[p], JobSound(q)'
    PROVE  Inv'
  <1>1. Sound'
    BY DEF RowsStep, Sound
  <1>2. \A p \in Process \ {q} : JobSound(p)'
    BY KeepsJob DEF Inv, JobsSound, RowsStep
  <1>3. JobsSound'
    BY <1>2 DEF JobsSound
  <1>4. job'[Autorun] = job[Autorun]
    BY Processes
  <1>5. LoopSound'
    BY <1>4, GoingFalls DEF Inv, LoopSound
  <1>. QED
    BY <1>1, <1>3, <1>5 DEF Inv

\* A step of the loop.
LEMMA LoopFrame ==
    ASSUME JobsTyped, Inv, RowsStep, \A p \in Process \ {Autorun} : job'[p] = job[p],
           JobSound(Autorun)', LoopSound'
    PROVE  Inv'
  <1>1. Sound'
    BY DEF RowsStep, Sound
  <1>2. \A p \in Process \ {Autorun} : JobSound(p)'
    BY KeepsJob DEF Inv, JobsSound, RowsStep
  <1>3. JobsSound'
    BY <1>2 DEF JobsSound
  <1>. QED
    BY <1>1, <1>3 DEF Inv

LEMMA RowsSame ==
    ASSUME Inv, UNCHANGED <<run, pos, cut>>
    PROVE  RowsStep
  BY RowKept DEF Inv, Sound, RowsStep

LEMMA RequestIsNotLoop == \A q \in Request : q \in Process /\ q # Autorun /\ q # Monitor
  BY ConstantsOK DEF ConstantsOK, Process

\* A request that ends, lists or opens, having kept every run sound.
LEMMA RequestHarmless ==
    ASSUME JobsTyped, Inv, RowsStep, skipped \subseteq skipped', NEW q \in Request,
           \/ Lists(q) \/ Ends(q)
           \/ \E op \in {"open", "continue"} : \E runs, take : Waits(q, op, runs, take)
    PROVE  Inv'
  <1>1. /\ job'[q].op \in {"mark", "idle", "open", "continue"}
        /\ \A p \in Process \ {q} : job'[p] = job[p]
    BY RequestIsNotLoop, ListsJob, EndsJob, WaitsJob
  <1>. QED
    BY <1>1, RequestIsNotLoop, HarmlessJob, Frame

-----------------------------------------------------------------------------
(* Requests                                                                *)

LEMMA AskCloseInv ==
    ASSUME TypeOK, Inv, NEW q \in Request, NEW op \in {"close", "harvest"},
           NEW runs, NEW take, take \subseteq runs \X Pos, AskClose(q, op, runs, take)
    PROVE  Inv'
  <1>0. JobsTyped
    BY Types
  <1>1. UNCHANGED <<run, pos, cut, skipped>>
    BY DEF AskClose, requestUnchanged, history
  <1>2. RowsStep
    BY <1>1, RowsSame
  <1>3. CASE Lists(q)
    BY <1>0, <1>1, <1>2, <1>3, RequestHarmless
  <1>4. CASE Waits(q, op, runs, take)
    <2>1. /\ job'[q].op = op /\ job'[q].runs = runs /\ job'[q].take = take
          /\ \A p \in Process \ {q} : job'[p] = job[p]
      BY <1>0, <1>4, RequestIsNotLoop, WaitsJob
    <2>2. JobSound(q)'
      BY <2>1, RequestIsNotLoop DEF JobSound, Aimed
    <2>. QED
      BY <1>0, <1>1, <1>2, <2>1, <2>2, RequestIsNotLoop, Frame
  <1>. QED
    BY <1>3, <1>4 DEF AskClose

LEMMA AsksInv ==
    ASSUME TypeOK, Inv, NEW q \in Request,
           \/ Get(q) \/ CloseProfitableAll(q) \/ CloseAllActive(q) \/ SaveAutorun(q) \/ Start(q)
           \/ \E r \in Run :
                \/ CloseRun(q, r) \/ CloseProfitable(q, r)
                \/ \E p \in Pos : CloseOne(q, r, p)
    PROVE  Inv'
  <1>0. JobsTyped
    BY Types
  <1>1. \A runs : OpenPairs(runs) \subseteq runs \X Pos
    BY DEF OpenPairs
  <1>2. CASE Get(q) \/ SaveAutorun(q) \/ Start(q)
    <2>1. UNCHANGED <<run, pos, cut, skipped>>
      BY <1>2 DEF Get, SaveAutorun, Start, requestUnchanged, history
    <2>2. Lists(q) \/ Ends(q) \/ Waits(q, "open", {}, {})
      BY <1>2 DEF Get, SaveAutorun, Start
    <2>. QED
      BY <1>0, <2>1, <2>2, RowsSame, RequestHarmless
  <1>3. CASE CloseProfitableAll(q) \/ CloseAllActive(q)
    BY <1>1, <1>3, AskCloseInv DEF CloseProfitableAll, CloseAllActive
  <1>4. ASSUME NEW r \in Run,
               CloseRun(q, r) \/ CloseProfitable(q, r) \/ \E p \in Pos : CloseOne(q, r, p)
        PROVE  Inv'
    <2>1. CASE CloseRun(q, r) \/ CloseProfitable(q, r)
      BY <1>1, <2>1, AskCloseInv DEF CloseRun, CloseProfitable
    <2>2. ASSUME NEW p \in Pos, CloseOne(q, r, p) PROVE Inv'
      <3>1. OpenPairs({r}) \cap {<<r, p>>} \subseteq {r} \X Pos
        BY <1>1
      <3>. QED
        BY <2>2, <3>1, AskCloseInv DEF CloseOne
    <2>. QED
      BY <1>4, <2>1, <2>2
  <1>. QED
    BY <1>2, <1>3, <1>4

\* Closing what is in the aimed runs only, and stopping such of these as are
\* left empty: all of them, or else a write failed.
LEMMA ClosesSound ==
    ASSUME TypeOK, Sound, NEW runs, NEW T, T \subseteq runs \X Pos, NEW why \in Reasons,
           NEW S, pos' = Closing(pos, T, why), run' = Stopping(run, S), cut \subseteq cut',
           \A r \in Run : r \in S => OpenIn(pos', r) = {},
           \A r \in Run : r \in runs /\ OpenIn(pos', r) = {} => r \in S \/ r \in cut'
    PROVE  RowsStep
  <1> SUFFICES ASSUME NEW r \in Run PROVE RowSound(r)' /\ TameRow(r)
    BY DEF RowsStep
  <1>1. OpenIn(pos', r) = {p \in OpenIn(pos, r) : <<r, p>> \notin T}
    BY Types, OpenAfterClosing DEF RunsTyped
  <1>2. r \notin runs => OpenIn(pos', r) = OpenIn(pos, r)
    BY <1>1
  <1>3. OpenIn(pos', r) \subseteq OpenIn(pos, r) /\ RowSound(r)
    BY <1>1 DEF Sound
  <1>. QED
    BY <1>2, <1>3, RowStopped

LEMMA FinishCloseInv ==
    ASSUME TypeOK, Inv, NEW q \in Request, FinishClose(q)
    PROVE  Inv'
  <1>0. JobsTyped /\ JobSound(q) /\ Sound
    BY Types, RequestIsNotLoop DEF Inv, JobsSound
  <1>1. PICK targets \in (IF job[q].op = "close" THEN {job[q].take} ELSE SUBSET job[q].take) :
          pos' = Closing(pos, targets, IF job[q].op = "close" THEN "manual" ELSE "take_profit")
    BY DEF FinishClose
  <1>2. targets \subseteq job[q].take
    BY <1>1
  <1>3. targets \subseteq job[q].runs \X Pos
    BY <1>0, <1>2 DEF FinishClose, JobSound
  <1>4. (IF job[q].op = "close" THEN "manual" ELSE "take_profit") \in Reasons
    BY DEF Reasons
  <1> DEFINE S == {r \in job[q].runs : OpenIn(pos', r) = {}}
  <1>5. run' = Stopping(run, S) /\ UNCHANGED <<cut, skipped>> /\ Lists(q)
    BY DEF FinishClose, requestUnchanged, history
  <1>6. /\ \A r \in Run : r \in S => OpenIn(pos', r) = {}
        /\ \A r \in Run : r \in job[q].runs /\ OpenIn(pos', r) = {} => r \in S
    OBVIOUS
  <1>. HIDE DEF S
  <1>7. RowsStep
    BY <1>0, <1>1, <1>3, <1>4, <1>5, <1>6, ClosesSound
  <1>. QED
    BY <1>0, <1>5, <1>7, RequestHarmless

LEMMA FinishStopInv ==
    ASSUME TypeOK, Inv, NEW q \in Request, FinishStop(q)
    PROVE  Inv'
  <1>0. JobsTyped /\ JobSound(q) /\ Sound
    BY Types, RequestIsNotLoop DEF Inv, JobsSound
  <1>1. /\ pos' = Closing(pos, job[q].take, "target_hit")
        /\ run' = Stopping(run, job[q].runs)
        /\ UNCHANGED <<cut, skipped>> /\ Lists(q)
    BY DEF FinishStop, requestUnchanged, history
  <1>2. job[q].take \subseteq job[q].runs \X Pos
    BY <1>0 DEF FinishStop, JobSound
  <1>3. "target_hit" \in Reasons
    BY DEF Reasons
  <1>4. ASSUME NEW r \in Run, r \in job[q].runs PROVE OpenIn(pos', r) = {}
    <2>1. \A p \in OpenIn(pos, r) : <<r, p>> \in job[q].take
      BY <1>0, <1>4 DEF FinishStop, JobSound, Aimed
    <2>2. OpenIn(pos', r) = {p \in OpenIn(pos, r) : <<r, p>> \notin job[q].take}
      BY <1>1, <1>3, Types, OpenAfterClosing DEF RunsTyped
    <2>. QED
      BY <2>1, <2>2
  <1>5. RowsStep
    BY <1>0, <1>1, <1>2, <1>3, <1>4, ClosesSound
  <1>. QED
    BY <1>0, <1>1, <1>5, RequestHarmless

LEMMA NoneStopped == ASSUME TypeOK PROVE run = Stopping(run, {})
  BY DEF TypeOK, Stopping

\* A call fails after some of the closes of these runs, or before any.
LEMMA BreaksSound ==
    ASSUME TypeOK, Sound, NEW runs, NEW some, some \subseteq runs \X Pos,
           NEW why \in Reasons, Breaks(pos, runs, some, why), UNCHANGED run
    PROVE  RowsStep
  <1>0. pos \in Table /\ pos' = Closing(pos, some, why)
    BY Types DEF Breaks, RunsTyped
  <1>1. CASE some = {}
    <2>1. \A r \in Run : OpenIn(pos', r) = OpenIn(pos, r)
      <3>1. \A r \in Run : OpenIn(pos', r) = {p \in OpenIn(pos, r) : <<r, p>> \notin some}
        BY <1>0, OpenAfterClosing
      <3>. QED
        BY <1>1, <3>1 DEF OpenIn
    <2>. QED
      BY <1>1, <2>1, RowKept DEF RowsStep, Sound, Breaks
  <1>2. CASE some # {}
    <2>1. cut' = cut \cup runs
      BY <1>2 DEF Breaks
    <2>2. run' = Stopping(run, {})
      BY NoneStopped
    <2>. QED
      BY <1>0, <2>1, <2>2, ClosesSound
  <1>. QED
    BY <1>1, <1>2

LEMMA RequestBreaksInv ==
    ASSUME TypeOK, Inv, NEW q \in Request, RequestBreaks(q)
    PROVE  Inv'
  <1>0. JobsTyped /\ JobSound(q) /\ Sound
    BY Types, RequestIsNotLoop DEF Inv, JobsSound
  <1> DEFINE why == CASE job[q].op = "close" -> "manual"
                      [] job[q].op = "harvest" -> "take_profit"
                      [] OTHER -> "target_hit"
  <1>1. why \in Reasons
    BY DEF Reasons
  <1>2. PICK some \in SUBSET job[q].take : Breaks(pos, job[q].runs, some, why)
    BY DEF RequestBreaks
  <1>. HIDE DEF why
  <1>3. some \subseteq job[q].runs \X Pos
    BY <1>0 DEF RequestBreaks, JobSound
  <1>4. UNCHANGED <<run, skipped>> /\ Ends(q)
    BY DEF RequestBreaks
  <1>5. RowsStep
    BY <1>0, <1>1, <1>2, <1>3, <1>4, BreaksSound
  <1>. QED
    BY <1>0, <1>4, <1>5, RequestHarmless

\* The question withdrawn, or the run hidden.
LEMMA RowMoved ==
    ASSUME TypeOK, NEW r \in Run, RowSound(r), UNCHANGED <<pos, cut>>,
           run'[r] \in {run[r], [run[r] EXCEPT !.pending = FALSE, !.ack = TRUE],
                        [run[r] EXCEPT !.hidden = TRUE]}
    PROVE  RowSound(r)' /\ TameRow(r)
  <1>1. run[r] \in RunRow
    BY DEF TypeOK
  <1>2. /\ run'[r].st = run[r].st /\ run'[r].auto = run[r].auto
        /\ run'[r].pending => run[r].pending
    BY <1>1 DEF RunRow
  <1>. QED
    BY <1>2 DEF RowSound, TameRow

LEMMA MovesInv ==
    ASSUME TypeOK, Inv, NEW q \in Request,
           \/ FinishContinue(q) \/ DeleteClosed(q) \/ \E r \in Run : Delete(q, r)
    PROVE  Inv'
  <1>0. JobsTyped /\ Sound /\ run \in [Run -> RunRow]
    BY Types DEF Inv, RunsTyped
  <1>1. ASSUME NEW runs, Hide(q, runs)
        PROVE  /\ UNCHANGED <<pos, cut, skipped>> /\ Lists(q)
               /\ \A r \in Run : run'[r] \in {run[r], [run[r] EXCEPT !.hidden = TRUE]}
    BY <1>1 DEF Hide, requestUnchanged, history
  <1>2. /\ UNCHANGED <<pos, cut, skipped>> /\ Lists(q)
        /\ \A r \in Run : run'[r] \in {run[r], [run[r] EXCEPT !.pending = FALSE, !.ack = TRUE],
                                       [run[r] EXCEPT !.hidden = TRUE]}
    <2>1. CASE FinishContinue(q)
      BY <2>1 DEF FinishContinue, requestUnchanged, history
    <2>2. CASE DeleteClosed(q) \/ \E r \in Run : Delete(q, r)
      <3>1. \E runs : Hide(q, runs)
        BY <2>2 DEF DeleteClosed, Delete
      <3>. QED
        BY <1>1, <3>1
    <2>. QED
      BY <2>1, <2>2
  <1>3. RowsStep
    BY <1>0, <1>2, RowMoved DEF RowsStep, Sound
  <1>. QED
    BY <1>0, <1>2, <1>3, RequestHarmless

LEMMA ResetInv ==
    ASSUME TypeOK, Inv, NEW q \in Request, Reset(q)
    PROVE  Inv'
  <1>0. JobsTyped /\ Sound
    BY Types DEF Inv
  <1>1. UNCHANGED <<cut, skipped>> /\ Lists(q)
    BY DEF Reset, requestUnchanged, history
  <1>2. ASSUME NEW r \in Run PROVE RowSound(r)' /\ TameRow(r)
    <2>1. RowSound(r)
      BY <1>0 DEF Sound
    <2>2. CASE r \in Rows
      <3>1. run'[r] = Absent("deleted") /\ \A p \in Pos : pos'[r][p] = "none"
        BY <2>2 DEF Reset
      <3>2. OpenIn(pos', r) = {}
        BY <3>1 DEF OpenIn, IsOpen
      <3>. QED
        BY <3>1, <3>2, AbsentRows DEF RowSound, TameRow
    <2>3. CASE r \notin Rows
      <3>1. run'[r] = run[r] /\ pos'[r] = pos[r]
        BY <2>3 DEF Reset
      <3>2. OpenIn(pos', r) = OpenIn(pos, r)
        BY <3>1 DEF OpenIn
      <3>. QED
        BY <1>1, <2>1, <3>1, <3>2, RowKept
    <2>. QED
      BY <2>2, <2>3
  <1>3. RowsStep
    BY <1>2 DEF RowsStep
  <1>. QED
    BY <1>0, <1>1, <1>3, RequestHarmless

LEMMA DecideInv ==
    ASSUME TypeOK, Inv, NEW q \in Request, NEW r \in Run, NEW op \in {"stop", "continue"},
           Decide(q, r, op)
    PROVE  Inv'
  <1>0. JobsTyped /\ Sound /\ run \in [Run -> RunRow]
    BY Types DEF Inv, RunsTyped
  <1>1. UNCHANGED <<pos, cut, skipped>> /\ r \in Rows
    BY DEF Decide, requestUnchanged, history
  <1>2. \A p \in OpenIn(pos, r) : <<r, p>> \in OpenPairs({r})
    BY DEF OpenIn, OpenPairs
  <1>3. OpenPairs({r}) \subseteq {r} \X Pos
    BY DEF OpenPairs
  <1>4. CASE OpenPairs({r}) # {}
    <2>1. UNCHANGED run /\ Waits(q, op, {r}, OpenPairs({r}))
      BY <1>4 DEF Decide
    <2>2. RowsStep
      BY <1>1, <2>1, RowsSame
    <2>3. /\ job'[q].op = op /\ job'[q].runs = {r} /\ job'[q].take = OpenPairs({r})
          /\ \A p \in Process \ {q} : job'[p] = job[p]
      BY <1>0, <2>1, RequestIsNotLoop, WaitsJob
    <2>4. run'[r].st # "none"
      BY <1>1, <2>1 DEF Rows
    <2>5. Aimed(q)' = IF op = "stop" THEN {r} ELSE {}
      BY <2>3 DEF Aimed
    <2>6. JobSound(q)'
      BY <1>1, <1>2, <1>3, <2>3, <2>4, <2>5, RequestIsNotLoop DEF JobSound
    <2>. QED
      BY <1>0, <1>1, <2>2, <2>3, <2>6, RequestIsNotLoop, Frame
  <1>5. CASE OpenPairs({r}) = {}
    <2>1. Lists(q)
      BY <1>5 DEF Decide
    <2>2. OpenIn(pos', r) = {} /\ OpenIn(pos, r) = {}
      BY <1>1, <1>2, <1>5
    <2>3. RowsStep
      <3>1. CASE op = "stop"
        <4>1. run' = Stopping(run, {r})
          BY <1>5, <3>1 DEF Decide
        <4>2. \A s \in Run : OpenIn(pos', s) = OpenIn(pos, s)
          BY <1>1
        <4>3. \A s \in Run : RowSound(s)
          BY <1>0 DEF Sound
        <4>. QED
          BY <1>1, <2>2, <4>1, <4>2, <4>3, RowStopped DEF RowsStep
      <3>2. CASE op = "continue"
        <4>1. run' = [run EXCEPT ![r] = [run[r] EXCEPT !.pending = FALSE, !.ack = TRUE]]
          BY <1>0, <1>5, <3>2 DEF Decide
        <4>2. \A s \in Run : run'[s] \in {run[s], [run[s] EXCEPT !.pending = FALSE, !.ack = TRUE]}
          BY <1>0, <4>1
        <4>. QED
          BY <1>0, <1>1, <4>2, RowMoved DEF RowsStep, Sound
      <3>. QED
        BY <3>1, <3>2
    <2>. QED
      BY <1>0, <1>1, <2>1, <2>3, RequestHarmless
  <1>. QED
    BY <1>4, <1>5


-----------------------------------------------------------------------------
(* Opening, marking and the loops                                          *)

LEMMA OpensSound ==
    ASSUME TypeOK, Sound, NEW q, NEW r \in Run, NEW ask, NEW filled \in BOOLEAN,
           Opens(q, r, ask, filled), cut \subseteq cut', filled \/ r \in cut'
    PROVE  /\ \A s \in Run : RowSound(s)'
           /\ \A s \in Run \ {r} : TameRow(s)
           /\ q # Autorun => TameRow(r)
  <1> DEFINE row == [Absent("running") EXCEPT !.auto = (q = Autorun), !.ask = ask]
  <1>1. row.st = "running" /\ ~row.pending /\ (row.auto <=> q = Autorun)
    BY DEF Absent
  <1>2. run' = [run EXCEPT ![r] = row] /\ run[r].st = "none"
    BY DEF Opens
  <1>. HIDE DEF row
  <1>3. run'[r] = row /\ \A s \in Run \ {r} : run'[s] = run[s]
    BY <1>2 DEF TypeOK
  <1>4. \A s \in Run \ {r} : OpenIn(pos', s) = OpenIn(pos, s)
    BY DEF Opens, OpenIn, TypeOK
  <1>5. filled => OpenIn(pos', r) # {}
    <2>1. Pos # {} /\ IsOpen("open")
      BY ConstantsOK DEF ConstantsOK, IsOpen
    <2>2. filled => \A p \in Pos : pos'[r][p] = "open"
      BY DEF Opens, TypeOK
    <2>. QED
      BY <2>1, <2>2 DEF OpenIn
  <1>6. RowSound(r)' /\ (q # Autorun => TameRow(r))
    BY <1>1, <1>2, <1>3, <1>5 DEF RowSound, TameRow
  <1>7. \A s \in Run \ {r} : RowSound(s)' /\ TameRow(s)
    BY <1>3, <1>4, RowKept DEF Sound
  <1>. QED
    BY <1>6, <1>7

LEMMA OpenStepInv ==
    ASSUME TypeOK, Inv, NEW q \in Process, OpenStep(q)
    PROVE  Inv'
  <1>0. JobsTyped /\ Sound /\ JobSound(q) /\ LoopSound
    BY Types DEF Inv, JobsSound
  <1>1. /\ job'[q].op \in {"idle", "mark"} /\ job[q].op = "open"
        /\ \A p \in Process \ {q} : job'[p] = job[p]
        /\ cut \subseteq cut' /\ UNCHANGED skipped
    <2>1. Lists(q) \/ Ends(q)
      BY DEF OpenStep, OpensNothing, Open, OpenBreaks
    <2>2. cut \subseteq cut' /\ UNCHANGED skipped /\ job[q].op = "open"
      BY DEF OpenStep, OpensNothing, Open, OpenBreaks, history
    <2>. QED
      BY <1>0, <2>1, <2>2, EndsJob, ListsJob
  <1>2. JobSound(q)'
    BY <1>1, HarmlessJob
  <1>3. q \in Request \/ q = Autorun
    BY <1>0, <1>1 DEF JobSound, Process
  <1>4. CASE OpensNothing(q)
    <2>1. UNCHANGED <<run, pos, cut, skipped>>
      BY <1>4 DEF OpensNothing, history
    <2>2. RowsStep
      BY <2>1, RowsSame
    <2>3. CASE q # Autorun
      BY <1>0, <1>1, <1>2, <2>2, <2>3, Frame
    <2>4. CASE q = Autorun
      <3>1. LoopSound'
        BY <1>0, <1>1, <2>1, <2>2, <2>4, GoingFalls DEF LoopSound
      <3>. QED
        BY <1>0, <1>1, <1>2, <2>2, <2>4, <3>1, LoopFrame
    <2>. QED
      BY <2>3, <2>4
  <1>5. ASSUME NEW r \in Run, NEW ask, NEW filled \in BOOLEAN, Opens(q, r, ask, filled),
               filled \/ r \in cut'
        PROVE  Inv'
    <2>1. /\ \A s \in Run : RowSound(s)'
          /\ \A s \in Run \ {r} : TameRow(s)
          /\ q # Autorun => TameRow(r)
      BY <1>0, <1>1, <1>5, OpensSound
    <2>2. CASE q # Autorun
      <3>1. RowsStep
        BY <2>1, <2>2 DEF RowsStep
      <3>. QED
        BY <1>0, <1>1, <1>2, <2>2, <3>1, Frame
    <2>3. CASE q = Autorun
      <3>1. Going1 = {}
        BY <1>0, <1>1, <2>3 DEF LoopSound
      <3>2. Going1' \subseteq {r}
        BY <1>1, <2>1, <3>1 DEF TameRow, Going1, AutoRunning
      <3>3. LoopSound'
        BY <1>1, <2>3, <3>2 DEF LoopSound
      <3>4. \A p \in Process \ {Autorun} : JobSound(p)'
        <4>1. SUFFICES ASSUME NEW p \in Process \ {Autorun} PROVE JobSound(p)'
          OBVIOUS
        <4>2. JobSound(p) /\ job'[p] = job[p]
          BY <1>1, <2>3 DEF Inv, JobsSound
        <4>3. \A s \in Aimed(p) : s # r
          BY <1>5, <4>2 DEF JobSound, Opens
        <4>4. job[p].runs \subseteq Run
          BY <1>0 DEF JobsTyped, Job
        <4>5. Aimed(p)' = Aimed(p) /\ Aimed(p) \subseteq Run
          BY <4>2, <4>4 DEF Aimed
        <4>6. \A s \in Aimed(p) : /\ run'[s].st # "none"
                                  /\ \A x \in OpenIn(pos', s) : <<s, x>> \in job'[p].take
          BY <2>1, <4>2, <4>3, <4>5 DEF JobSound, TameRow
        <4>7. /\ job'[p].op \in {"close", "harvest", "stop"} =>
                    job'[p].take \subseteq job'[p].runs \X Pos
              /\ job'[p].op = "force" => \A x, y \in job'[p].take : x[1] = y[1]
              /\ p = Autorun => job'[p].op \in {"idle", "mark", "open", "reset", "force"}
              /\ p = Monitor => job'[p].op \in {"idle", "mark"}
          BY <4>2 DEF JobSound
        <4>. QED
          BY <4>5, <4>6, <4>7 DEF JobSound
      <3>5. JobsSound'
        BY <1>2, <2>3, <3>4 DEF JobsSound
      <3>6. Sound'
        BY <2>1 DEF Sound
      <3>. QED
        BY <3>3, <3>5, <3>6 DEF Inv
    <2>. QED
      BY <2>2, <2>3
  <1>6. ASSUME NEW r \in Run, NEW ask \in BOOLEAN, Open(q, r, ask) PROVE Inv'
    BY <1>5, <1>6 DEF Open
  <1>7. ASSUME NEW r \in Run, NEW ask \in BOOLEAN, NEW filled \in BOOLEAN,
               OpenBreaks(q, r, ask, filled)
        PROVE  Inv'
    <2>1. Opens(q, r, ask, filled) /\ (filled \/ r \in cut')
      BY <1>7 DEF OpenBreaks
    <2>. QED
      BY <1>5, <2>1
  <1>. QED
    BY <1>4, <1>6, <1>7 DEF OpenStep

LEMMA MarkSessionsInv ==
    ASSUME TypeOK, Inv, NEW q \in Process, NEW low, NEW hit, MarkSessions(q, low, hit)
    PROVE  Inv'
  <1>0. JobsTyped /\ Sound
    BY Types DEF Inv
  <1>1. RowsStep
    BY <1>0, RowsMarked DEF MarkSessions, RowsStep, history
  <1>2. q # Autorun /\ Ends(q) /\ UNCHANGED skipped
    BY DEF MarkSessions, MarkBreaks, history
  <1>3. job'[q].op = "idle" /\ \A p \in Process \ {q} : job'[p] = job[p]
    BY <1>0, <1>2, EndsJob
  <1>4. JobSound(q)'
    BY <1>3, HarmlessJob
  <1>. QED
    BY <1>0, <1>1, <1>2, <1>3, <1>4, Frame

\* The tick opens, having found no run of the loop's, or ends.
LEMMA TickOpensSound ==
    ASSUME JobsTyped, LoopSound, Going1' \subseteq Going1, NEW busy,
           busy = {} => Going1' = {}, TickOpens(busy)
    PROVE  /\ JobSound(Autorun)' /\ LoopSound'
           /\ \A p \in Process \ {Autorun} : job'[p] = job[p]
  <1>1. CASE busy = {} /\ Waits(Autorun, "open", {}, {})
    <2>1. job'[Autorun].op = "open" /\ \A p \in Process \ {Autorun} : job'[p] = job[p]
      BY <1>1, Processes, WaitsJob
    <2>2. JobSound(Autorun)'
      BY <2>1, Processes, HarmlessJob, ConstantsOK DEF ConstantsOK
    <2>. QED
      BY <1>1, <2>1, <2>2 DEF LoopSound
  <1>2. CASE Ends(Autorun)
    <2>1. job'[Autorun].op = "idle" /\ \A p \in Process \ {Autorun} : job'[p] = job[p]
      BY <1>2, Processes, EndsJob
    <2>2. JobSound(Autorun)'
      BY <2>1, Processes, HarmlessJob
    <2>. QED
      BY <2>1, <2>2 DEF LoopSound
  <1>. QED
    BY <1>1, <1>2 DEF TickOpens

\* The reset goes on with the runs that are left, and these are all.
LEMMA ResetsSound ==
    ASSUME JobsTyped, LoopSound, Going1' \subseteq Going1, NEW rest, Going1' \subseteq rest,
           Waits(Autorun, "reset", rest, {})
    PROVE  /\ JobSound(Autorun)' /\ LoopSound'
           /\ \A p \in Process \ {Autorun} : job'[p] = job[p]
  <1>1. /\ job'[Autorun].op = "reset" /\ job'[Autorun].runs = rest
        /\ \A p \in Process \ {Autorun} : job'[p] = job[p]
    BY Processes, WaitsJob
  <1>2. JobSound(Autorun)'
    BY <1>1, Processes, HarmlessJob, ConstantsOK DEF ConstantsOK
  <1>. QED
    BY <1>1, <1>2 DEF LoopSound

LEMMA EndsSound ==
    ASSUME JobsTyped, LoopSound, Going1' \subseteq Going1, Ends(Autorun)
    PROVE  /\ JobSound(Autorun)' /\ LoopSound'
           /\ \A p \in Process \ {Autorun} : job'[p] = job[p]
  <1>1. job'[Autorun].op = "idle" /\ \A p \in Process \ {Autorun} : job'[p] = job[p]
    BY Processes, EndsJob
  <1>2. JobSound(Autorun)'
    BY <1>1, Processes, HarmlessJob
  <1>. QED
    BY <1>1, <1>2 DEF LoopSound

LEMMA ResetOverSound ==
    ASSUME JobsTyped, LoopSound, Going1' \subseteq Going1, Going1' = {}, NEW n, ResetOver(n)
    PROVE  /\ JobSound(Autorun)' /\ LoopSound'
           /\ \A p \in Process \ {Autorun} : job'[p] = job[p]
  BY TickOpensSound, EndsSound DEF ResetOver

LEMMA ResetGoesOnSound ==
    ASSUME JobsTyped, LoopSound, Going1' \subseteq Going1, NEW rest, Going1' \subseteq rest,
           NEW n, ResetGoesOn(rest, n)
    PROVE  /\ JobSound(Autorun)' /\ LoopSound'
           /\ \A p \in Process \ {Autorun} : job'[p] = job[p]
  <1>1. CASE rest # {}
    BY <1>1, ResetsSound DEF ResetGoesOn
  <1>2. CASE rest = {}
    BY <1>2, ResetOverSound DEF ResetGoesOn
  <1>. QED
    BY <1>1, <1>2

LEMMA TickInv ==
    ASSUME TypeOK, Inv, NEW low, NEW hit, Tick(low, hit)
    PROVE  Inv'
  <1>0. JobsTyped /\ Sound /\ LoopSound /\ Autorun \in Process
    BY Types, Processes DEF Inv
  <1>1. RowsStep
    BY <1>0, RowsMarked DEF Tick, RowsStep, history
  <1>2. UNCHANGED skipped
    BY DEF Tick, MarkBreaks, history
  <1>3. Going1' \subseteq Going1 /\ Going1' \subseteq AutoRunning(run')
    BY <1>1, <1>2, GoingFalls DEF Going1
  <1>4. PICK n \in {0, 1} : TickGoesOn(n)
    BY DEF Tick
  <1>5. /\ JobSound(Autorun)' /\ LoopSound'
        /\ \A p \in Process \ {Autorun} : job'[p] = job[p]
    <2>1. CASE Ends(Autorun)
      BY <1>0, <1>3, <2>1, EndsSound
    <2>2. CASE Waits(Autorun, "reset", AutoRunning(run'), {})
      BY <1>0, <1>3, <2>2, ResetsSound
    <2>3. CASE TickOpens(AutoRunning(run'))
      BY <1>0, <1>3, <2>3, TickOpensSound
    <2>4. CASE AutoRunning(run') = {} /\ ResetOver(n)
      BY <1>0, <1>3, <2>4, ResetOverSound
    <2>. QED
      BY <1>4, <2>1, <2>2, <2>3, <2>4 DEF TickGoesOn
  <1>. QED
    BY <1>0, <1>1, <1>5, LoopFrame

\* A run whose close failed is the reset's no more.
LEMMA ResetSkipsSound ==
    ASSUME TypeOK, Inv, NEW r \in Run, RowsStep, ResetSkips(r),
           Going1 \subseteq job[Autorun].runs
    PROVE  Inv'
  <1>0. JobsTyped /\ LoopSound
    BY Types DEF Inv
  <1>1. Going1' \subseteq Going1 /\ Going1' \subseteq job[Autorun].runs \ {r}
    BY GoingFalls DEF ResetSkips, Going1
  <1>. QED
    BY <1>0, <1>1, ResetGoesOnSound, LoopFrame DEF ResetSkips

LEMMA ForceCloseInv ==
    ASSUME TypeOK, Inv, NEW r \in Run, ForceClose(r)
    PROVE  Inv'
  <1>0. JobsTyped /\ Sound /\ LoopSound /\ Autorun \in Process
    BY Types, Processes DEF Inv
  <1>1. UNCHANGED <<pos, cut>> /\ Going1 \subseteq job[Autorun].runs
    BY <1>0 DEF ForceClose, LoopSound
  <1>2. \A p \in OpenIn(pos, r) : <<r, p>> \in OpenPairs({r})
    BY DEF OpenIn, OpenPairs
  <1>3. CASE /\ run[r].st = "running" /\ OpenPairs({r}) # {}
             /\ Waits(Autorun, "force", job[Autorun].runs, OpenPairs({r}))
             /\ UNCHANGED <<run, due, skipped, bounds>>
    <2>1. UNCHANGED <<run, skipped>>
          /\ Waits(Autorun, "force", job[Autorun].runs, OpenPairs({r}))
      BY <1>3
    <2>2. RowsStep
      BY <1>1, <2>1, RowsSame
    <2>3. /\ job'[Autorun].op = "force" /\ job'[Autorun].runs = job[Autorun].runs
          /\ job'[Autorun].take = OpenPairs({r})
          /\ \A p \in Process \ {Autorun} : job'[p] = job[p]
      BY <1>0, <2>1, WaitsJob
    <2>4. OpenPairs({r}) \subseteq {r} \X Pos
      BY DEF OpenPairs
    <2>5. \A s \in Aimed(Autorun)' : s = r
      <3>1. Aimed(Autorun)' = {s \in Run : \E p \in Pos : <<s, p>> \in OpenPairs({r})}
        BY <2>3 DEF Aimed
      <3>2. \A s, p : <<s, p>> \in {r} \X Pos => s = r
        OBVIOUS
      <3>. QED
        BY <2>4, <3>1, <3>2
    <2>6. \A x, y \in OpenPairs({r}) : x[1] = y[1]
      BY <2>4
    <2>7. JobSound(Autorun)'
      BY <1>1, <1>2, <1>3, <2>1, <2>3, <2>5, <2>6, ConstantsOK DEF JobSound, ConstantsOK
    <2>8. LoopSound'
      BY <1>0, <1>1, <2>1, <2>2, <2>3, GoingFalls DEF LoopSound
    <2>. QED
      BY <1>0, <2>2, <2>3, <2>7, <2>8, LoopFrame
  <1>4. CASE /\ run[r].st # "running" \/ OpenPairs({r}) = {}
             /\ run' = IF run[r].st = "running" THEN Stopping(run, {r}) ELSE run
             /\ ResetGoesOn(job[Autorun].runs \ {r}, 0)
             /\ UNCHANGED skipped
    <2>1. /\ run' = IF run[r].st = "running" THEN Stopping(run, {r}) ELSE run
          /\ ResetGoesOn(job[Autorun].runs \ {r}, 0) /\ UNCHANGED skipped
      BY <1>4
    <2>2. RowsStep /\ run'[r].st # "running"
      <3>1. CASE run[r].st = "running"
        <4>1. OpenIn(pos, r) = {}
          BY <1>2, <1>4, <3>1
        <4>2. run' = Stopping(run, {r})
          BY <2>1, <3>1
        <4>3. run'[r].st = "stopped"
          <5>1. run[r] \in RunRow
            BY DEF TypeOK
          <5>2. run'[r] = [run[r] EXCEPT !.st = "stopped", !.pending = FALSE]
            BY <3>1, <4>2 DEF Stopping
          <5>. QED
            BY <5>1, <5>2 DEF RunRow
        <4>4. \A s \in Run : RowSound(s) /\ OpenIn(pos', s) = OpenIn(pos, s)
          BY <1>0, <1>1 DEF Sound
        <4>. QED
          BY <1>1, <4>1, <4>2, <4>3, <4>4, RowStopped DEF RowsStep
      <3>2. CASE run[r].st # "running"
        BY <1>1, <2>1, <3>2, RowsSame
      <3>. QED
        BY <3>1, <3>2
    <2>3. Going1' \subseteq Going1 /\ Going1' \subseteq job[Autorun].runs \ {r}
      BY <1>1, <2>1, <2>2, GoingFalls DEF Going1, AutoRunning
    <2>. QED
      BY <1>0, <2>1, <2>2, <2>3, ResetGoesOnSound, LoopFrame
  <1>5. CASE ResetSkips(r)
    <2>1. RowsStep
      BY <1>1, <1>5, RowsSame DEF ResetSkips
    <2>. QED
      BY <1>1, <1>5, <2>1, ResetSkipsSound
  <1>. QED
    BY <1>3, <1>4, <1>5 DEF ForceClose

LEMMA ForceClosesInv ==
    ASSUME TypeOK, Inv, NEW r \in Run, ForceCloses(r)
    PROVE  Inv'
  <1>0. /\ JobsTyped /\ Sound /\ LoopSound /\ Autorun \in Process /\ JobSound(Autorun)
        /\ run \in [Run -> RunRow] /\ pos \in Table
    BY Types, Processes DEF Inv, JobsSound, RunsTyped
  <1> DEFINE take == job[Autorun].take
  <1>1. job[Autorun].op = "force" /\ \E p \in Pos : <<r, p>> \in take
    BY DEF ForceCloses
  <1>2. take \subseteq Run \X Pos
    BY <1>0 DEF JobsTyped, Job
  <1>3. take \subseteq {r} \X Pos
    <2>1. \A x \in take : x[1] = r
      BY <1>0, <1>1 DEF JobSound
    <2>. QED
      BY <1>2, <2>1
  <1>4. \A p \in OpenIn(pos, r) : <<r, p>> \in take
    BY <1>0, <1>1 DEF JobSound, Aimed
  <1>5. "daily_reset" \in Reasons
    BY DEF Reasons
  <1>6. Going1 \subseteq job[Autorun].runs
    BY <1>0, <1>1 DEF LoopSound
  <1>. HIDE DEF take
  <1>8. CASE /\ pos' = Closing(pos, take, "daily_reset")
             /\ run' = Stopping(run, {r})
             /\ ResetGoesOn(job[Autorun].runs \ {r}, 0)
             /\ UNCHANGED <<cut, skipped>>
    <2>1. OpenIn(pos', r) = {}
      <3>1. OpenIn(pos', r) = {p \in OpenIn(pos, r) : <<r, p>> \notin take}
        BY <1>0, <1>5, <1>8, OpenAfterClosing
      <3>. QED
        BY <1>4, <3>1
    <2>2. RowsStep
      <3>1. /\ \A s \in Run : s \in {r} => OpenIn(pos', s) = {}
            /\ \A s \in Run : s \in {r} /\ OpenIn(pos', s) = {} => s \in {r}
            /\ cut \subseteq cut'
        BY <1>8, <2>1
      <3>. QED
        BY <1>0, <1>3, <1>5, <1>8, <3>1, ClosesSound
    <2>3. run'[r].st # "running"
      <3>1. run[r] \in RunRow
        BY <1>0
      <3>2. run'[r] = IF run[r].st \in {"running", "stopped"}
                      THEN [run[r] EXCEPT !.st = "stopped", !.pending = FALSE] ELSE run[r]
        BY <1>8 DEF Stopping
      <3>. QED
        BY <3>1, <3>2 DEF RunRow
    <2>4. Going1' \subseteq Going1 /\ Going1' \subseteq job[Autorun].runs \ {r}
      BY <1>6, <1>8, <2>2, <2>3, GoingFalls DEF Going1, AutoRunning
    <2>. QED
      BY <1>0, <1>8, <2>2, <2>4, ResetGoesOnSound, LoopFrame
  <1>9. ASSUME NEW some \in SUBSET take, Breaks(pos, {r}, some, "daily_reset"), ResetSkips(r)
        PROVE  Inv'
    <2>1. UNCHANGED run /\ some \subseteq {r} \X Pos
      BY <1>3, <1>9 DEF ResetSkips
    <2>2. RowsStep
      BY <1>0, <1>5, <1>9, <2>1, BreaksSound
    <2>. QED
      BY <1>6, <1>9, <2>2, ResetSkipsSound
  <1>. QED
    BY <1>8, <1>9 DEF ForceCloses, history, take

LEMMA WorldInv ==
    ASSUME TypeOK, Inv, \/ MonitorBegins \/ TickBegins \/ Midnight \/ ResetHourPasses
                        \/ \E r \in Run, p \in Pos : Drop(r, p)
    PROVE  Inv'
  <1>0. JobsTyped /\ Sound /\ LoopSound
    BY Types DEF Inv
  <1>1. CASE MonitorBegins
    <2>1. UNCHANGED <<run, pos, cut, skipped>> /\ Lists(Monitor)
      BY <1>1 DEF MonitorBegins, history
    <2>2. job'[Monitor].op = "mark" /\ \A p \in Process \ {Monitor} : job'[p] = job[p]
      BY <1>0, <2>1, Processes, ListsJob
    <2>3. JobSound(Monitor)' /\ Monitor # Autorun
      BY <2>2, Processes, HarmlessJob, ConstantsOK DEF ConstantsOK
    <2>. QED
      BY <1>0, <2>1, <2>2, <2>3, Processes, RowsSame, Frame
  <1>2. CASE TickBegins
    <2>1. UNCHANGED <<run, pos, cut, skipped>> /\ Lists(Autorun)
      BY <1>2 DEF TickBegins, history
    <2>2. job'[Autorun].op = "mark" /\ \A p \in Process \ {Autorun} : job'[p] = job[p]
      BY <1>0, <2>1, Processes, ListsJob
    <2>3. JobSound(Autorun)' /\ RowsStep
      BY <2>1, <2>2, Processes, HarmlessJob, RowsSame
    <2>4. LoopSound'
      BY <1>0, <2>1, <2>2, <2>3, GoingFalls DEF LoopSound
    <2>. QED
      BY <1>0, <2>2, <2>3, <2>4, LoopFrame
  <1>3. CASE Midnight \/ ResetHourPasses
    <2>1. UNCHANGED <<run, pos, cut, skipped, job>>
      BY <1>3 DEF Midnight, ResetHourPasses, history
    <2>. QED
      BY <2>1 DEF Inv, Sound, RowSound, JobsSound, JobSound, Aimed, LoopSound, Going1
  <1>4. ASSUME NEW r \in Run, NEW p \in Pos, Drop(r, p) PROVE Inv'
    <2>1. UNCHANGED <<run, cut, skipped, job>>
      BY <1>4 DEF Drop, history
    <2>2. \A s \in Run, x \in Pos : IsOpen(pos'[s][x]) <=> IsOpen(pos[s][x])
      BY <1>4 DEF Drop, IsOpen, TypeOK
    <2>3. \A s \in Run : OpenIn(pos', s) = OpenIn(pos, s)
      BY <2>2 DEF OpenIn
    <2>4. RowsStep
      BY <1>0, <2>1, <2>3, RowKept DEF RowsStep, Sound
    <2>5. JobSound(Autorun)'
      BY <1>0, <2>1, <2>4, KeepsJob, Processes DEF Inv, JobsSound, RowsStep
    <2>6. LoopSound'
      BY <1>0, <2>1 DEF LoopSound, Going1
    <2>. QED
      BY <1>0, <2>1, <2>4, <2>5, <2>6, LoopFrame
  <1>. QED
    BY <1>1, <1>2, <1>3, <1>4

LEMMA NextInv == ASSUME TypeOK, Inv, [Next]_vars PROVE Inv'
  <1>1. CASE UNCHANGED vars
    BY <1>1 DEF vars, history, Inv, Sound, RowSound, JobsSound, JobSound, Aimed, LoopSound, Going1
  <1>2. CASE Next
    <2>1. ASSUME NEW q \in Request, Serve(q) PROVE Inv'
      BY <2>1, AsksInv, FinishCloseInv, FinishStopInv, RequestBreaksInv, MovesInv, ResetInv,
         DecideInv DEF Serve
    <2>2. CASE Loops
      BY <2>2, WorldInv, TickInv, ForceCloseInv, ForceClosesInv DEF Loops
    <2>. QED
      BY <1>2, <2>1, <2>2, OpenStepInv, MarkSessionsInv, WorldInv DEF Next
  <1>. QED
    BY <1>1, <1>2

LEMMA InitInv == ASSUME Init PROVE Inv
  <1>1. \A r \in Run : OpenIn(pos, r) = {} /\ run[r].st = "none" /\ ~run[r].pending
    BY AbsentRows DEF Init, OpenIn, IsOpen, Nothing
  <1>2. \A q \in Process : job[q].op = "idle"
    BY DEF Init, Idle
  <1>3. Sound
    BY <1>1 DEF Sound, RowSound
  <1>4. JobsSound
    BY <1>2 DEF JobsSound, JobSound, Aimed
  <1>5. LoopSound
    BY <1>1, <1>2, Processes DEF LoopSound, Going1, AutoRunning
  <1>. QED
    BY <1>3, <1>4, <1>5 DEF Inv

LEMMA Invariant == Spec => []Inv
  <1>1. TypeOK /\ Inv /\ [Next]_vars => Inv'
    BY NextInv
  <1>2. Init => Inv
    BY InitInv
  <1>. QED
    BY <1>1, <1>2, TypeCorrect, PTL DEF Spec

\* Whichever request, loop or failed write ended a run, whatever the number
\* of positions and of requests in between: it holds nothing open.
THEOREM StoppedRunsAreDrained == Spec => []StoppedIsDrained
  <1>1. Inv => StoppedIsDrained
    BY DEF Inv, Sound, RowSound, StoppedIsDrained
  <1>. QED
    BY <1>1, Invariant, PTL

\* A run that goes on without a failed write always has something open, so
\* that no run blocks the auto-run loop that nobody evaluates.
THEOREM RunningRunsHold == Spec => []RunningHolds
  <1>1. Inv => RunningHolds
    BY DEF Inv, Sound, RowSound, RunningHolds
  <1>. QED
    BY <1>1, Invariant, PTL

\* No question to the user outlives its run.
THEOREM QuestionsAreLive == Spec => []PendingIsLive
  <1>1. Inv => PendingIsLive
    BY DEF Inv, Sound, RowSound, PendingIsLive
  <1>. QED
    BY <1>1, Invariant, PTL

\* "Don't open a new run while one is still running" (database.py), for any
\* number of requests, marks and resets between the tick's read and its open.
THEOREM AutoRunsAlone == Spec => []OneAutoRun
  <1>1. LoopSound => OneAutoRun
    <2>1. SUFFICES ASSUME LoopSound PROVE OneAutoRun
      OBVIOUS
    <2>2. CASE Going1 = {}
      BY <2>2, FS_EmptySet DEF OneAutoRun, Going1
    <2>3. CASE Going1 # {}
      <3>1. PICK r : r \in Going1
        BY <2>3
      <3>2. Going1 = {r}
        BY <2>1, <3>1 DEF LoopSound
      <3>3. Cardinality({r}) = 1
        BY FS_Singleton
      <3>. QED
        BY <3>2, <3>3 DEF OneAutoRun, Going1
    <2>. QED
      BY <2>2, <2>3
  <1>. QED
    BY <1>1, Invariant, PTL DEF Inv


-----------------------------------------------------------------------------
(* The daily limit                                                         *)

\* Nothing new is about to be opened and nothing is counted; or the limit was
\* looked at; or what was about to be opened is, or is given up.
LimitStep ==
    /\ UNCHANGED admin
    /\ \/ UNCHANGED used /\ Opening' \subseteq Opening
       \/ UNCHANGED used /\ MayOpen
       \/ \E q \in Opening : used' \in {used, used + 1} /\ Opening' = Opening \ {q}

LEMMA NotOpening ==
    ASSUME NEW q \in Process, job'[q].op # "open",
           \A p \in Process \ {q} : job'[p] = job[p]
    PROVE  Opening' \subseteq Opening /\ Opening' = Opening \ {q}
  BY DEF Opening

LEMMA LimitRequest ==
    ASSUME TypeOK, NEW q \in Request, Serve(q)
    PROVE  LimitStep
  <1>0. JobsTyped /\ q \in Process
    BY Types, RequestIsNotLoop
  <1>1. UNCHANGED <<admin, used>>
    BY DEF Serve, Get, CloseProfitableAll, CloseAllActive, CloseRun, CloseProfitable, CloseOne,
           AskClose, FinishClose, FinishStop, FinishContinue, RequestBreaks, DeleteClosed,
           Delete, Hide, Reset, SaveAutorun, Start, Decide, requestUnchanged, userVars
  <1>2. \/ Lists(q) \/ Ends(q) \/ MayOpen
        \/ \E op \in {"close", "harvest", "stop", "continue"} : \E runs, take :
              Waits(q, op, runs, take)
    BY DEF Serve, Get, CloseProfitableAll, CloseAllActive, CloseRun, CloseProfitable, CloseOne,
           AskClose, FinishClose, FinishStop, FinishContinue, RequestBreaks, DeleteClosed,
           Delete, Hide, Reset, SaveAutorun, Start, Decide
  <1>3. CASE ~MayOpen
    <2>1. job'[q].op # "open" /\ \A p \in Process \ {q} : job'[p] = job[p]
      BY <1>0, <1>2, <1>3, ListsJob, EndsJob, WaitsJob
    <2>. QED
      BY <1>0, <1>1, <2>1, NotOpening DEF LimitStep
  <1>. QED
    BY <1>1, <1>3 DEF LimitStep

LEMMA LimitOpen ==
    ASSUME TypeOK, NEW q \in Process, OpenStep(q)
    PROVE  LimitStep
  <1>1. JobsTyped /\ (Lists(q) \/ Ends(q)) /\ q \in Opening
    BY Types DEF OpenStep, OpensNothing, Open, OpenBreaks, Opening
  <1>2. Opening' = Opening \ {q}
    <2>1. job'[q].op # "open" /\ \A p \in Process \ {q} : job'[p] = job[p]
      BY <1>1, ListsJob, EndsJob
    <2>. QED
      BY <2>1, NotOpening
  <1>3. UNCHANGED admin /\ used' \in {used, used + 1}
    BY DEF OpenStep, OpensNothing, Open, OpenBreaks, userVars
  <1>. QED
    BY <1>1, <1>2, <1>3 DEF LimitStep

LEMMA LimitTick ==
    ASSUME JobsTyped, UNCHANGED <<admin, used>>,
           \/ Ends(Autorun)
           \/ \E busy : TickOpens(busy)
           \/ \E n : ResetOver(n)
    PROVE  LimitStep
  <1>1. CASE MayOpen
    BY <1>1 DEF LimitStep
  <1>2. CASE Ends(Autorun)
    BY <1>2, Processes, EndsJob, NotOpening DEF LimitStep
  <1>. QED
    BY <1>1, <1>2 DEF TickOpens, ResetOver

LEMMA LimitWaits ==
    ASSUME JobsTyped, NEW op, op # "open", NEW runs, NEW take,
           Waits(Autorun, op, runs, take), UNCHANGED <<admin, used>>
    PROVE  LimitStep
  BY Processes, WaitsJob, NotOpening DEF LimitStep

LEMMA LimitLoops ==
    ASSUME TypeOK, Loops
    PROVE  LimitStep
  <1>0. JobsTyped
    BY Types
  <1>1. CASE MonitorBegins \/ TickBegins
    <2>1. UNCHANGED <<admin, used>>
      BY <1>1 DEF MonitorBegins, TickBegins, userVars
    <2>. QED
      BY <1>0, <1>1, <2>1, Processes, ListsJob, NotOpening
         DEF MonitorBegins, TickBegins, LimitStep
  <1>2. ASSUME NEW low, NEW hit, Tick(low, hit) PROVE LimitStep
    <2>1. UNCHANGED <<admin, used>>
      BY <1>2 DEF Tick
    <2>2. PICK n \in {0, 1} : TickGoesOn(n)
      BY <1>2 DEF Tick
    <2>. QED
      BY <1>0, <2>1, <2>2, LimitTick, LimitWaits DEF TickGoesOn
  <1>3. ASSUME NEW r \in Run, ForceClose(r) \/ ForceCloses(r) PROVE LimitStep
    <2>1. UNCHANGED <<admin, used>>
      BY <1>3 DEF ForceClose, ForceCloses
    <2>2. \/ Waits(Autorun, "force", job[Autorun].runs, OpenPairs({r}))
          \/ \E n : ResetGoesOn(job[Autorun].runs \ {r}, n)
      BY <1>3 DEF ForceClose, ForceCloses, ResetSkips
    <2>. QED
      BY <1>0, <2>1, <2>2, LimitTick, LimitWaits DEF ResetGoesOn
  <1>. QED
    BY <1>1, <1>2, <1>3 DEF Loops

LEMMA LimitNext ==
    ASSUME TypeOK, [Next]_vars
    PROVE  LimitStep
  <1>0. JobsTyped
    BY Types
  <1>1. CASE UNCHANGED <<admin, used, job>>
    BY <1>1 DEF LimitStep, Opening
  <1>2. ASSUME NEW q \in Process, NEW low, NEW hit, MarkSessions(q, low, hit) PROVE LimitStep
    <2>1. UNCHANGED <<admin, used>> /\ Ends(q)
      BY <1>2 DEF MarkSessions, MarkBreaks, userVars
    <2>. QED
      BY <1>0, <2>1, EndsJob, NotOpening DEF LimitStep
  <1>3. CASE Midnight \/ ResetHourPasses \/ \E r \in Run, p \in Pos : Drop(r, p)
    BY <1>1, <1>3 DEF Midnight, ResetHourPasses, Drop, userVars
  <1>4. CASE UNCHANGED vars
    BY <1>1, <1>4 DEF vars, userVars
  <1>. QED
    BY <1>2, <1>3, <1>4, LimitRequest, LimitOpen, LimitLoops DEF Next

LEMMA OpeningFinite ==
    ASSUME JobsSound
    PROVE  /\ IsFiniteSet(Opening) /\ Cardinality(Opening) \in Nat
           /\ Cardinality(Request) \in Nat
           /\ Cardinality(Opening) <= Cardinality(Request) + 1
  <1> DEFINE all == Request \cup {Autorun}
  <1>1. IsFiniteSet(Request) /\ Autorun \notin Request
    BY ConstantsOK DEF ConstantsOK
  <1>2. IsFiniteSet(all) /\ Cardinality(all) = Cardinality(Request) + 1
    BY <1>1, FS_AddElement
  <1>3. Opening \subseteq all
    BY DEF Opening, Process, JobsSound, JobSound
  <1>4. IsFiniteSet(Opening) /\ Cardinality(Opening) <= Cardinality(all)
    BY <1>2, <1>3, FS_Subset
  <1>. QED
    BY <1>1, <1>2, <1>4, FS_CardinalityType

LEMMA LimitKept ==
    ASSUME TypeOK, TypeOK', JobsSound, JobsSound', RunsAreLimited, LimitStep
    PROVE  RunsAreLimited'
  <1>1. /\ IsFiniteSet(Opening) /\ Cardinality(Opening) \in Nat
        /\ Cardinality(Request) \in Nat
    BY OpeningFinite
  <1>2. /\ Cardinality(Opening') \in Nat /\ Cardinality(Opening') <= Cardinality(Request) + 1
    <2>1. Opening' \subseteq Request \cup {Autorun}
      BY DEF Opening, Process, JobsSound, JobSound
    <2>2. IsFiniteSet(Request) /\ Autorun \notin Request
      BY ConstantsOK DEF ConstantsOK
    <2>3. /\ IsFiniteSet(Request \cup {Autorun})
          /\ Cardinality(Request \cup {Autorun}) = Cardinality(Request) + 1
      BY <2>2, FS_AddElement
    <2>4. IsFiniteSet(Opening') /\ Cardinality(Opening') <= Cardinality(Request \cup {Autorun})
      BY <2>1, <2>3, FS_Subset
    <2>. QED
      BY <2>3, <2>4, FS_CardinalityType
  <1>3. used \in Nat /\ used' \in Nat /\ RunsPerDay \in Nat
    BY ConstantsOK DEF TypeOK, ConstantsOK
  <1> SUFFICES ASSUME ~admin'
               PROVE  used' + Cardinality(Opening') <= RunsPerDay + Cardinality(Request)
    BY DEF RunsAreLimited
  <1>4. ~admin /\ used + Cardinality(Opening) <= RunsPerDay + Cardinality(Request)
    BY DEF RunsAreLimited, LimitStep
  <1>5. CASE UNCHANGED used /\ Opening' \subseteq Opening
    <2>1. Cardinality(Opening') <= Cardinality(Opening)
      BY <1>1, <1>5, FS_Subset
    <2>. QED
      BY <1>1, <1>2, <1>3, <1>4, <1>5, <2>1
  <1>6. CASE UNCHANGED used /\ MayOpen
    BY <1>1, <1>2, <1>3, <1>4, <1>6 DEF MayOpen
  <1>7. ASSUME NEW q \in Opening, used' \in {used, used + 1}, Opening' = Opening \ {q}
        PROVE  used' + Cardinality(Opening') <= RunsPerDay + Cardinality(Request)
    <2>1. Cardinality(Opening') = Cardinality(Opening) - 1
      BY <1>1, <1>7, FS_RemoveElement
    <2>. QED
      BY <1>1, <1>2, <1>3, <1>4, <1>7, <2>1
  <1>. QED
    BY <1>5, <1>6, <1>7 DEF LimitStep

\* The daily limit of runs is passed by no more than the requests that were
\* under way together, however the awaits between the check and the count fall.
THEOREM DailyLimit == Spec => []RunsAreLimited
  <1>1. Init => RunsAreLimited
    <2>1. SUFFICES ASSUME Init PROVE RunsAreLimited
      OBVIOUS
    <2>2. Opening = {} /\ used = 0
      BY <2>1 DEF Init, Opening, Idle
    <2>3. Cardinality(Opening) = 0
      BY <2>2, FS_EmptySet
    <2>4. Cardinality(Request) \in Nat /\ RunsPerDay \in Nat
      BY ConstantsOK, FS_CardinalityType DEF ConstantsOK
    <2>. QED
      BY <2>2, <2>3, <2>4 DEF RunsAreLimited
  <1>2. TypeOK /\ TypeOK' /\ Inv /\ Inv' /\ RunsAreLimited /\ [Next]_vars => RunsAreLimited'
    BY LimitNext, LimitKept DEF Inv
  <1>. QED
    BY <1>1, <1>2, TypeCorrect, Invariant, PTL DEF Spec
=============================================================================
