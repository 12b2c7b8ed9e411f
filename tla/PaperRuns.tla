------------------------------ MODULE PaperRuns ------------------------------
(***************************************************************************)
(* The demo runs of the Profit Engine for one user: paper.py (requests),   *)
(* autorun.py (the auto-run loop and the stop monitor) and the rows of     *)
(* database.py. All of it runs on one event loop: what stands between two  *)
(* awaits is one step, and the only awaits are the calls for prices and    *)
(* signals. Whatever a process has read before such a call (which          *)
(* positions are open, what a run's row says) may be stale after it.       *)
(*                                                                         *)
(* Prices are kept as far as they decide something: which positions are    *)
(* beyond their run's stop-loss, which are in profit, which runs are at    *)
(* their target. Capital, P&L and the reinvested bank are left out; so are *)
(* runs the user labels "Auto ..." by hand.                                *)
(***************************************************************************)
EXTENDS Naturals, FiniteSets

CONSTANTS
    Run, Pos,      \* ids of the runs, and of the positions within a run
    Request,       \* client requests under way at one time
    Autorun, Monitor, \* autorun_loop and stop_monitor_loop
    Admins,        \* whether the user is an admin: TRUE, FALSE or either
    RunsPerDay,    \* profitRunsPerDay of the user's plan
    MaxActs,       \* bound: requests made
    MaxFaults,     \* bound: failed calls, of the database or for prices
    MaxDays        \* bound: daily resets that fall due

ASSUME ConstantsOK ==
    /\ IsFiniteSet(Run) /\ IsFiniteSet(Request) /\ Pos # {}
    /\ Autorun # Monitor /\ {Autorun, Monitor} \cap Request = {}
    /\ Admins \subseteq BOOLEAN
    /\ {RunsPerDay, MaxActs, MaxFaults, MaxDays} \subseteq Nat

VARIABLES
    run,      \* paper_sessions: the row of each run
    pos,      \* paper_positions: each position's status, and why it closed
    on,       \* autorun.enabled
    due,      \* admin: the daily reset is due (lastResetDay is not today)
    admin,    \* users.role = 'admin'
    used,     \* usage of profit_run today
    job,      \* what each process is waiting to do, with what it has read
    seen,     \* the rows a process has listed to mark them to market
    cut,      \* history: runs of which a failed call has left a write half done
    skipped,  \* history: runs the daily reset could not close
    acts, faults, days   \* what is used up of the bounds

userVars   == <<on, due, admin, used>>
history    == <<cut, skipped>>
bounds     == <<acts, faults, days>>
vars == <<run, pos, userVars, job, seen, history, bounds>>

Process == Request \cup {Autorun, Monitor}
Reasons == {"manual", "take_profit", "target_hit", "stop_loss", "daily_reset"}
RunRow == [st : {"none", "running", "stopped", "deleted"}, auto : BOOLEAN,
           ask : BOOLEAN, hidden : BOOLEAN, pending : BOOLEAN, ack : BOOLEAN]
Absent(st) == [st |-> st, auto |-> FALSE, ask |-> FALSE, hidden |-> FALSE,
               pending |-> FALSE, ack |-> FALSE]
Ops == {"idle", "mark", "close", "harvest", "stop", "continue", "open", "reset", "force"}
Idle == [op |-> "idle", runs |-> {}, take |-> {}]
Nothing == [r \in Run |-> Absent("none")]

\* Every variable keeps its type.
TypeOK ==
    /\ run \in [Run -> RunRow]
    /\ pos \in [Run -> [Pos -> {"none", "open", "low"} \cup Reasons]]
    /\ on \in BOOLEAN /\ due \in BOOLEAN /\ admin \in BOOLEAN /\ used \in Nat
    /\ job \in [Process -> [op : Ops, runs : SUBSET Run, take : SUBSET (Run \X Pos)]]
    /\ seen \in [Process -> [Run -> RunRow]]
    /\ cut \subseteq Run /\ skipped \subseteq Run
    /\ acts \in 0..MaxActs /\ faults \in 0..MaxFaults /\ days \in 0..MaxDays

\* A user without runs, with the auto-run settings as saved before.
Init ==
    /\ run = Nothing
    /\ pos = [r \in Run |-> [p \in Pos |-> "none"]]
    /\ on \in BOOLEAN /\ due = FALSE /\ admin \in Admins /\ used = 0
    /\ job = [q \in Process |-> Idle]
    /\ seen = [q \in Process |-> Nothing]
    /\ cut = {} /\ skipped = {}
    /\ acts = 0 /\ faults = 0 /\ days = 0

Act   == acts < MaxActs /\ acts' = acts + 1 /\ UNCHANGED <<faults, days>>
Faults(n) == faults' = faults + n /\ faults' <= MaxFaults /\ UNCHANGED <<acts, days>>
Fault == Faults(1)

IsOpen(v) == v \in {"open", "low"}
OpenIn(ps, r) == {p \in Pos : IsOpen(ps[r][p])}
OpenPairs(runs) == {x \in runs \X Pos : IsOpen(pos[x[1]][x[2]])}
Rows == {r \in Run : run[r].st \in {"running", "stopped"}}

\* close_paper_position for each position: no look at the status, only at
\* whether the row is there.
Closing(ps, targets, why) ==
    [r \in Run |-> [p \in Pos |->
        IF <<r, p>> \in targets /\ ps[r][p] # "none" THEN why ELSE ps[r][p]]]

\* A call fails after some of the closes of these runs: with none made, as
\* when it is the call for prices that fails, the runs are as they were.
Breaks(ps, runs, some, why) ==
    /\ pos' = Closing(ps, some, why)
    /\ cut' = IF some = {} THEN cut ELSE cut \cup runs

\* Mutant: the question to the user is not withdrawn.
StoppingOnly(rows, runs) ==
    [r \in Run |-> IF r \in runs /\ rows[r].st \in {"running", "stopped"}
                   THEN [rows[r] EXCEPT !.st = "stopped"] ELSE rows[r]]

\* update_paper_session_row(status="stopped"): nothing if the row is gone.
Stopping(rows, runs) ==
    [r \in Run |-> IF r \in runs /\ rows[r].st \in {"running", "stopped"}
                   THEN [rows[r] EXCEPT !.st = "stopped", !.pending = FALSE]
                   ELSE rows[r]]

Waits(q, op, runs, take) ==
    /\ job' = [job EXCEPT ![q] = [op |-> op, runs |-> runs, take |-> take]]
    /\ UNCHANGED seen
Ends(q) ==
    /\ job' = [job EXCEPT ![q] = Idle]
    /\ seen' = [seen EXCEPT ![q] = Nothing]
\* What marking needs of a row: nothing of a hidden one, and of a stopped one
\* only that it is acknowledged.
Listing(row) ==
    IF row.st \in {"running", "stopped"} /\ ~row.hidden /\ (row.st = "running" \/ row.ack)
    THEN [row EXCEPT !.auto = FALSE] ELSE Absent("none")
\* _build_paper_sessions up to its call for prices: the rows as they are now.
Lists(q) ==
    /\ job' = [job EXCEPT ![q] = [Idle EXCEPT !.op = "mark"]]
    /\ seen' = [seen EXCEPT ![q] = [r \in Run |-> Listing(run'[r])]]

-----------------------------------------------------------------------------
(* Marking to market: _build_one_session_state for each listed run that is *)
(* not hidden, with the prices at hand. The row is as listed, the open     *)
(* positions are read again. low are the positions the prices show beyond  *)
(* the stop, hit the runs they show at their target.                       *)

Listed(q) == {r \in Run : seen[q][r].st # "none"}
Lost(q, low, r) ==
    {p \in OpenIn(pos, r) : <<r, p>> \in low /\ seen[q][r].st = "running"}
Left(q, low, r) == OpenIn(pos, r) \ Lost(q, low, r)
Hit(q, low, hit, r) == r \in hit /\ Left(q, low, r) # {}
Banks(q, low, hit, r) ==
    Hit(q, low, hit, r) /\ seen[q][r].st = "running" /\ ~seen[q][r].ask
\* Mutant: the run counts as drained when the stop took every position of it.
DrainedByStop(q, low, r) == Lost(q, low, r) = Pos
Drained(q, low, r) == Lost(q, low, r) # {} /\ Left(q, low, r) = {}

MarkedPos(q, low, hit, runs) ==
    [r \in Run |-> [p \in Pos |->
        CASE r \in runs /\ p \in Lost(q, low, r) -> "stop_loss"
          [] r \in runs /\ p \in Left(q, low, r) /\ Banks(q, low, hit, r) -> "target_hit"
          [] OTHER -> pos[r][p]]]

\* What becomes of a row: stopped when the stop-loss has drained the run or
\* the target is banked; else the target is asked about, or forgotten.
MarkedRow(q, low, hit, r) ==
    LET row == run[r]  s == seen[q][r] IN
    CASE Drained(q, low, r) -> [row EXCEPT !.st = "stopped", !.pending = FALSE, !.ack = FALSE]
      [] Banks(q, low, hit, r) -> [row EXCEPT !.st = "stopped", !.pending = FALSE]
      [] Hit(q, low, hit, r) /\ s.st = "running" /\ s.ask /\ ~s.pending /\ ~s.ack ->
            [row EXCEPT !.pending = TRUE]
      [] ~Hit(q, low, hit, r) /\ ~Drained(q, low, r) /\ s.ack -> [row EXCEPT !.ack = FALSE]
      [] OTHER -> row

MarkedRun(q, low, hit, runs) ==
    [r \in Run |-> IF r \in runs THEN MarkedRow(q, low, hit, r) ELSE run[r]]

\* The runs with something to mark; the positions beyond their stop, of which
\* a cached price map may show only some.
Going == {r \in Run : OpenIn(pos, r) # {}}
Low == {x \in Run \X Pos : pos[x[1]][x[2]] = "low"}
Marks(q, low, hit) ==
    /\ job[q].op = "mark"
    /\ low \subseteq Low
    /\ pos' = MarkedPos(q, low, hit, Listed(q))
    /\ run' = MarkedRun(q, low, hit, Listed(q))

\* A database call fails: some runs are done, one may have had some of its
\* positions closed, the rest is left as it was.
MarkBreaks(q, low, hit) ==
    /\ job[q].op = "mark"
    /\ low \subseteq Low
    /\ \E done \in SUBSET Listed(q), r \in Listed(q) :
        /\ r \notin done
        /\ \E some \in (SUBSET (OpenPairs({r}) \cap low)) \cup
                       (IF Banks(q, {}, hit, r) THEN SUBSET OpenPairs({r}) ELSE {}) :
              Breaks(MarkedPos(q, low, hit, done), {r}, some,
                     IF some \subseteq low THEN "stop_loss" ELSE "target_hit")
        /\ run' = MarkedRun(q, low, hit, done)
    /\ UNCHANGED skipped

MarkSessions(q, low, hit) ==
    /\ q # Autorun
    /\ \/ Marks(q, low, hit) /\ UNCHANGED <<history, bounds>>
       \/ MarkBreaks(q, low, hit) /\ Fault
    /\ Ends(q)
    /\ UNCHANGED userVars

-----------------------------------------------------------------------------
(* Requests: what they read, then what they do with it once the prices are *)
(* there, then a listing of the runs to answer with.                       *)

requestUnchanged == UNCHANGED <<userVars, history>>
Arrives(q) == job[q].op = "idle" /\ q \in Request /\ Act

\* GET state, sessions.
Get(q) == Arrives(q) /\ UNCHANGED <<run, pos>> /\ Lists(q) /\ requestUnchanged

\* close (one position or all), close-profitable, close-profitable-all and
\* close-all-active, up to the call for prices.
AskClose(q, op, runs, take) ==
    /\ Arrives(q)
    /\ UNCHANGED <<run, pos>> /\ requestUnchanged
    /\ IF OpenPairs(runs) = {} THEN Lists(q) ELSE Waits(q, op, runs, take)
CloseOne(q, r, p)     == r \in Rows /\ AskClose(q, "close", {r}, OpenPairs({r}) \cap {<<r, p>>})
CloseRun(q, r)        == r \in Rows /\ AskClose(q, "close", {r}, OpenPairs({r}))
CloseProfitable(q, r) == r \in Rows /\ AskClose(q, "harvest", {r}, OpenPairs({r}))
CloseProfitableAll(q) == AskClose(q, "harvest", Rows, OpenPairs(Rows))
CloseAllActive(q)     == AskClose(q, "close", Rows, OpenPairs(Rows))

\* Mutant: the run is stopped when what was read is closed.
FinishCloseByRead(q) ==
    /\ job[q].op \in {"close", "harvest"}
    /\ \E targets \in (IF job[q].op = "close" THEN {job[q].take} ELSE SUBSET job[q].take) :
          pos' = Closing(pos, targets, IF job[q].op = "close" THEN "manual" ELSE "take_profit")
    /\ run' = Stopping(run, job[q].runs)
    /\ Lists(q)
    /\ UNCHANGED bounds /\ requestUnchanged

\* What they do after it: the positions as read then are closed, and of the
\* runs as listed then those with nothing open now are stopped.
FinishClose(q) ==
    /\ job[q].op \in {"close", "harvest"}
    /\ \E targets \in (IF job[q].op = "close" THEN {job[q].take} ELSE SUBSET job[q].take) :
          pos' = Closing(pos, targets, IF job[q].op = "close" THEN "manual" ELSE "take_profit")
    /\ run' = Stopping(run, {r \in job[q].runs : OpenIn(pos', r) = {}})
    /\ Lists(q)
    /\ UNCHANGED bounds /\ requestUnchanged

\* decision, up to the call for prices; with nothing open it has none.
Decide(q, r, op) ==
    /\ Arrives(q) /\ r \in Rows /\ op \in {"stop", "continue"}
    /\ IF OpenPairs({r}) # {} THEN Waits(q, op, {r}, OpenPairs({r})) /\ UNCHANGED run
       ELSE /\ run' = IF op = "stop" THEN Stopping(run, {r})
                      ELSE [run EXCEPT ![r].pending = FALSE, ![r].ack = TRUE]
            /\ Lists(q)
    /\ UNCHANGED pos /\ requestUnchanged
FinishStop(q) ==
    /\ job[q].op = "stop"
    /\ pos' = Closing(pos, job[q].take, "target_hit")
    /\ run' = Stopping(run, job[q].runs)
    /\ Lists(q)
    /\ UNCHANGED bounds /\ requestUnchanged
FinishContinue(q) ==
    /\ job[q].op = "continue"
    /\ run' = [r \in Run |-> IF r \in job[q].runs \cap Rows
                             THEN [run[r] EXCEPT !.pending = FALSE, !.ack = TRUE] ELSE run[r]]
    /\ Lists(q)
    /\ UNCHANGED <<pos, bounds>> /\ requestUnchanged

\* A call fails before, between or after the closes; the request is over.
RequestBreaks(q) ==
    /\ job[q].op \in {"close", "harvest", "stop"}
    /\ \E some \in SUBSET job[q].take :
          Breaks(pos, job[q].runs, some,
                 CASE job[q].op = "close"   -> "manual"
                   [] job[q].op = "harvest" -> "take_profit"
                   [] OTHER                 -> "target_hit")
    /\ Ends(q)
    /\ Fault /\ UNCHANGED <<run, userVars, skipped>>

\* delete (any run) and delete-closed hide; reset deletes.
Hide(q, runs) ==
    /\ Arrives(q)
    /\ run' = [r \in Run |-> IF r \in runs THEN [run[r] EXCEPT !.hidden = TRUE] ELSE run[r]]
    /\ Lists(q)
    /\ UNCHANGED pos /\ requestUnchanged
Delete(q, r)    == r \in Rows /\ Hide(q, {r})
DeleteClosed(q) == Hide(q, {r \in Run : run[r].st = "stopped"})
Reset(q) ==
    /\ Arrives(q)
    /\ run' = [r \in Run |-> IF r \in Rows THEN Absent("deleted") ELSE run[r]]
    /\ pos' = [r \in Run |-> IF r \in Rows THEN [p \in Pos |-> "none"] ELSE pos[r]]
    /\ Lists(q)
    /\ requestUnchanged

\* The auto-run settings are saved.
SaveAutorun(q) ==
    /\ Arrives(q)
    /\ on' = ~on
    /\ Ends(q)
    /\ UNCHANGED <<run, pos, due, admin, used, history>>

-----------------------------------------------------------------------------
(* Opening a run: the plan's daily limit is read, then signals and prices  *)
(* are fetched, then the run is written and counted.                       *)

\* Mutant: one more than the limit.
MayOpenOneMore == admin \/ used <= RunsPerDay
MayOpen == admin \/ used < RunsPerDay
Start(q) ==
    /\ Arrives(q) /\ MayOpen
    /\ Waits(q, "open", {}, {})
    /\ UNCHANGED <<run, pos>> /\ requestUnchanged

Opens(q, r, ask, filled) ==
    /\ run[r].st = "none"
    /\ run' = [run EXCEPT ![r] = [Absent("running") EXCEPT !.auto = (q = Autorun), !.ask = ask]]
    /\ pos' = [pos EXCEPT ![r] = [p \in Pos |-> IF filled THEN "open" ELSE "none"]]

\* paper_start and _open_run to their end; what they open is all priced. The
\* loop saves its state, and switches itself off after the last of a count.
Open(q, r, ask) ==
    /\ job[q].op = "open"
    /\ Opens(q, r, ask, TRUE)
    /\ used' = used + 1
    /\ IF q = Autorun THEN on' \in {on, FALSE} /\ Ends(q) ELSE UNCHANGED on /\ Lists(q)
    /\ UNCHANGED <<due, admin, history, bounds>>

\* No signals, no prices, or no answer.
OpensNothing(q) ==
    /\ job[q].op = "open"
    /\ Ends(q)
    /\ UNCHANGED <<run, pos, userVars, history, bounds>>

\* A database call fails after the run's row: before its positions, or
\* between them and the count, or in the loop's own record of it.
OpenBreaks(q, r, ask, filled) ==
    /\ job[q].op = "open"
    /\ Opens(q, r, ask, filled)
    /\ used' \in IF filled THEN {used, used + 1} ELSE {used}
    /\ cut' = IF filled THEN cut ELSE cut \cup {r}
    /\ Ends(q)
    /\ Fault /\ UNCHANGED <<on, due, admin, skipped>>

-----------------------------------------------------------------------------
(* The two loops.                                                          *)

\* Mutant: only a user with auto-run on is looked after.
MonitorBeginsForAuto ==
    /\ job[Monitor].op = "idle" /\ on
    /\ \E r \in Run : run[r].st = "running" /\ ~run[r].hidden
    /\ UNCHANGED <<run, pos, userVars, history, bounds>>
    /\ Lists(Monitor)

MonitorBegins ==
    /\ job[Monitor].op = "idle"
    /\ \E r \in Run : run[r].st = "running" /\ ~run[r].hidden
    /\ UNCHANGED <<run, pos, userVars, history, bounds>>
    /\ Lists(Monitor)

\* _tick_user: the loop marks first.
TickBegins ==
    /\ job[Autorun].op = "idle" /\ on
    /\ UNCHANGED <<run, pos, userVars, history, bounds>>
    /\ Lists(Autorun)

AutoRunning(rows) == {r \in Run : rows[r].auto /\ rows[r].st = "running"}

\* Mutant: the tick does not look for a run that is open.
TickOpensAnyway(busy) ==
    /\ \/ MayOpen /\ Waits(Autorun, "open", {}, {})
       \/ Ends(Autorun)

\* The rest of the tick once busy is known: onlyIfCapitalAvailable (its
\* default), the interval or count, and the plan. No await before the open.
TickOpens(busy) ==
    /\ \/ busy = {} /\ MayOpen /\ Waits(Autorun, "open", {}, {})
       \/ Ends(Autorun)

\* The reset's record. If it fails (the exception leaves _tick_user) the tick
\* is over and the reset still due; n calls of this step have failed before.
ResetOver(n) ==
    \/ due' = FALSE /\ TickOpens({}) /\ Faults(n)
    \/ UNCHANGED due /\ Ends(Autorun) /\ Faults(n + 1)

\* After the mark, or its failure, runs and settings are read again. When
\* the daily reset is due for an admin, it closes the auto-runs first.
TickGoesOn(n) ==
    IF ~on THEN Ends(Autorun) /\ UNCHANGED due /\ Faults(n)
    ELSE IF ~(admin /\ due)
         THEN TickOpens(AutoRunning(run')) /\ UNCHANGED due /\ Faults(n)
    ELSE IF AutoRunning(run') = {} THEN ResetOver(n)
    ELSE Waits(Autorun, "reset", AutoRunning(run'), {}) /\ UNCHANGED due /\ Faults(n)

Tick(low, hit) ==
    /\ \/ Marks(Autorun, low, hit) /\ UNCHANGED history /\ TickGoesOn(0)
       \/ MarkBreaks(Autorun, low, hit) /\ TickGoesOn(1)
    /\ UNCHANGED <<on, admin, used>>

\* One run of the reset is dealt with: on to the next, or on with the tick,
\* as if none were running.
ResetGoesOn(rest, n) ==
    IF rest = {} THEN ResetOver(n)
    ELSE Waits(Autorun, "reset", rest, {}) /\ UNCHANGED due /\ Faults(n)

\* The close of a run fails: the exception is logged and swallowed, and the
\* reset goes on with the others.
ResetSkips(r) ==
    /\ skipped' = skipped \cup {r}
    /\ UNCHANGED run
    /\ ResetGoesOn(job[Autorun].runs \ {r}, 1)

\* _force_close_run: its row and open positions are read, and a run that holds
\* nothing is stopped ...
ForceClose(r) ==
    /\ job[Autorun].op = "reset" /\ r \in job[Autorun].runs
    /\ \/ /\ run[r].st = "running" /\ OpenPairs({r}) # {}
          /\ Waits(Autorun, "force", job[Autorun].runs, OpenPairs({r}))
          /\ UNCHANGED <<run, due, skipped, bounds>>
       \/ /\ run[r].st # "running" \/ OpenPairs({r}) = {}
          /\ run' = IF run[r].st = "running" THEN Stopping(run, {r}) ELSE run
          /\ ResetGoesOn(job[Autorun].runs \ {r}, 0)
          /\ UNCHANGED skipped
       \/ ResetSkips(r)
    /\ UNCHANGED <<pos, on, admin, used, cut>>

\* ... and after the prices the positions are closed and the run is stopped.
ForceCloses(r) ==
    /\ job[Autorun].op = "force" /\ \E p \in Pos : <<r, p>> \in job[Autorun].take
    /\ \/ /\ pos' = Closing(pos, job[Autorun].take, "daily_reset")
          /\ run' = Stopping(run, {r})
          /\ ResetGoesOn(job[Autorun].runs \ {r}, 0)
          /\ UNCHANGED history
       \/ /\ \E some \in SUBSET job[Autorun].take : Breaks(pos, {r}, some, "daily_reset")
          /\ ResetSkips(r)
    /\ UNCHANGED <<on, admin, used>>

-----------------------------------------------------------------------------
(* The world: prices fall beyond a stop for good; a day begins, and the    *)
(* hour in which its reset is looked for passes.                           *)

Drop(r, p) ==
    /\ pos[r][p] = "open"
    /\ pos' = [pos EXCEPT ![r][p] = "low"]
    /\ UNCHANGED <<run, userVars, job, seen, history, bounds>>
Midnight ==
    /\ admin /\ ~due /\ days < MaxDays
    /\ due' = TRUE /\ days' = days + 1
    /\ UNCHANGED <<run, pos, on, admin, used, job, seen, history, acts, faults>>
ResetHourPasses ==
    /\ due /\ due' = FALSE
    /\ UNCHANGED <<run, pos, on, admin, used, job, seen, history, bounds>>

-----------------------------------------------------------------------------
Serve(q) ==
    \/ Get(q) \/ CloseProfitableAll(q) \/ CloseAllActive(q) \/ FinishClose(q)
    \/ FinishStop(q) \/ FinishContinue(q) \/ RequestBreaks(q)
    \/ DeleteClosed(q) \/ Reset(q) \/ SaveAutorun(q) \/ Start(q)
    \/ \E r \in Run :
        \/ CloseRun(q, r) \/ CloseProfitable(q, r) \/ Delete(q, r)
        \/ \E p \in Pos : CloseOne(q, r, p)
        \/ \E op \in {"stop", "continue"} : Decide(q, r, op)
OpenStep(q) ==
    \/ OpensNothing(q)
    \/ \E r \in Run, ask \in BOOLEAN :
        Open(q, r, ask) \/ \E filled \in BOOLEAN : OpenBreaks(q, r, ask, filled)
Loops ==
    \/ MonitorBegins \/ TickBegins
    \/ \E low \in SUBSET Low, hit \in SUBSET Going : Tick(low, hit)
    \/ \E r \in Run : ForceClose(r) \/ ForceCloses(r)

Next ==
    \/ \E q \in Request : Serve(q)
    \/ \E q \in Process : OpenStep(q)
    \/ \E q \in Process, low \in SUBSET Low, hit \in SUBSET Going : MarkSessions(q, low, hit)
    \/ Loops \/ Midnight \/ ResetHourPasses
    \/ \E r \in Run, p \in Pos : Drop(r, p)

Spec == Init /\ [][Next]_vars

\* The monitor polls for ever. A cached price map is served stale once and
\* refreshed behind it, so that a mark with current prices comes again and again.
Fairness ==
    /\ WF_vars(MonitorBegins)
    /\ SF_vars(\E hit \in SUBSET Going : MarkSessions(Monitor, Low, hit))
FairSpec == Spec /\ Fairness
-----------------------------------------------------------------------------
(* Properties *)

\* A run that is over holds no open position, whichever request, loop or
\* failed write ended it (paper.py: every path closes before it stops).
StoppedIsDrained == \A r \in Run : run[r].st = "stopped" => OpenIn(pos, r) = {}

\* A run that goes on has something open, unless a write to it failed: a run
\* without open positions is evaluated by nobody and would block the
\* auto-run loop for good (paper.py, the checks after each close).
RunningHolds ==
    \A r \in Run : run[r].st = "running" /\ r \notin cut => OpenIn(pos, r) # {}

\* The user is only asked about a run that is still going: no request or
\* mark with rows read earlier asks about one that has been stopped
\* (paper.py, _build_one_session_state).
PendingIsLive == \A r \in Run : run[r].pending => run[r].st = "running"

\* "don't open a new run while one is still running" (database.py): with
\* onlyIfCapitalAvailable the loop never has two runs going, but for those
\* its daily reset could not close.
OneAutoRun == Cardinality(AutoRunning(run) \ skipped) <= 1

Opening == {q \in Process : job[q].op = "open"}

\* The daily limit is read before the awaits and counted after them: it may
\* be passed, but only by the requests that were under way together.
RunsAreLimited ==
    ~admin => used + Cardinality(Opening) <= RunsPerDay + Cardinality(Request)

\* "a per-position stop-loss fires even when nobody is watching"
\* (autorun.py, stop_monitor_loop): a position beyond its stop in a run the
\* user has not removed is closed in the end, by the monitor alone.
StopFires ==
    \A r \in Run, p \in Pos :
        pos[r][p] = "low" /\ r \notin cut ~> pos[r][p] # "low" \/ run[r].hidden \/ r \in cut
=============================================================================
