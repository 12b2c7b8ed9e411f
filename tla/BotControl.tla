----------------------------- MODULE BotControl -----------------------------
(***************************************************************************)
(* How a bot comes to trade and is stopped: the Edge functions that        *)
(* connect an exchange key (connect-credential), ask for its validation    *)
(* (validate-credential) and arm the bot (arm-bot), the worker's           *)
(* validation loop (worker/src/credentialValidation.ts) and its queue, the *)
(* trade path's verdicts on a credential, the pause, and the operator's    *)
(* kill and lock (migrations 019 and 027).                                 *)
(*                                                                         *)
(* An awaited call is a step. Reads of columns that nothing modelled here  *)
(* changes once they are set (the bot's credential, its owner, the secret's*)
(* id) are joined with the next step.                                      *)
(***************************************************************************)
EXTENDS Naturals, FiniteSets

CONSTANTS
    Bot,
    Cred, BotOf,       \* connect requests, each for a bot; a request's
                       \* credential, secret and exchange key share its name
    Req,               \* validate requests
    Arm,               \* arm requests
    Worker,            \* worker processes
    NoCred, NoReq,     \* sentinels: no credential, no message held
    MaxAttempts,       \* MAX_VALIDATION_ATTEMPTS
    MaxFaults,         \* bound: failed calls, crashes and outages
    MaxOps             \* bound: what owner and operator do besides requests

ASSUME ConstantsOK ==
    /\ BotOf \in [Cred -> Bot]
    /\ MaxAttempts \in Nat \ {0}
    /\ {MaxFaults, MaxOps} \subseteq Nat
    /\ NoCred \notin Cred
    /\ NoReq \notin Req

BotRow == [status : {"pending_setup", "active", "paused", "error"},
           enabled : BOOLEAN, locked : BOOLEAN, cred : Cred \cup {NoCred}]

VARIABLES
    bots,       \* the bots table: [Bot -> BotRow]
    row,        \* status of a credential's row ("none": no row)
    vault,      \* credentials whose secret is in Vault
    venueOpen,  \* exchanges.is_active, of all venues alike
    key,        \* the key's state at the exchange ("fenced": the caller's IP is
                \* not on its allowlist, "dead": revoked)
    conn,       \* each connect request's next call
    queue,      \* messages of credential_validations: a subset of Req
    hidden,     \* those of them under a visibility timeout
    about,      \* the credential a message is about
    reads,      \* its read_ct
    check,      \* each worker's validation loop
    trade,      \* each worker's message loop, as far as credentials go
    arming,     \* each arm request
    accepted,   \* history: credentials whose key the exchange has accepted
    faults, ops \* what is used up of the bounds

credVars  == <<row, vault, conn>>
queueVars == <<queue, hidden, about, reads>>
worldVars == <<venueOpen, key>>
vars == <<bots, credVars, worldVars, queueVars, check, trade, arming, accepted,
          faults, ops>>

ConnectSteps == {"new", "store", "insert", "link", "unrow", "unstore", "done"}
IdleCheck == [at |-> "poll", req |-> NoReq, verdict |-> "none"]
IdleTrade == [at |-> "idle", cred |-> NoCred, enabled |-> FALSE]
NewArm    == [at |-> "new", cred |-> NoCred]

BotTypes   == bots \in [Bot -> BotRow]
CredTypes  ==
    /\ row \in [Cred -> {"none", "pending_validation", "valid", "invalid"}]
    /\ vault \subseteq Cred
    /\ conn \in [Cred -> ConnectSteps]
    /\ venueOpen \in BOOLEAN
    /\ key \in [Cred -> {"good", "fenced", "dead"}]
    /\ accepted \subseteq Cred
QueueTypes ==
    /\ queue \subseteq Req /\ hidden \subseteq queue
    /\ about \in [Req -> Cred \cup {NoCred}]
    /\ \A r \in queue : about[r] \in Cred
    /\ reads \in [Req -> Nat]
CheckTypes ==
    /\ check \in [Worker -> [at : {"poll", "gates", "fetch", "write", "disarm", "ack"},
                             req : Req \cup {NoReq},
                             verdict : {"none", "valid", "invalid"}]]
    /\ \A w \in Worker : check[w].at # "poll" =>
         check[w].req \in Req /\ about[check[w].req] \in Cred
TradeTypes ==
    /\ trade \in [Worker -> [at : {"idle", "cred", "use", "revoke", "disable", "pause"},
                             cred : Cred \cup {NoCred}, enabled : BOOLEAN]]
    /\ \A w \in Worker : trade[w].at # "idle" => trade[w].cred \in Cred
ArmTypes   ==
    /\ arming \in [Arm -> [at : {"new", "cred", "write", "done"},
                           cred : Cred \cup {NoCred}]]
    /\ \A a \in Arm : arming[a].at \in {"cred", "write"} => arming[a].cred \in Cred
BoundTypes == {faults, ops} \subseteq Nat

\* Every variable is of its type; a loop that is under way has the credential
\* it is about at hand, and only a message of the queue is hidden.
TypeOK ==
    /\ BotTypes /\ CredTypes /\ QueueTypes /\ CheckTypes /\ TradeTypes
    /\ ArmTypes /\ BoundTypes

\* Bots as create-bot leaves them.
Init ==
    /\ bots = [b \in Bot |-> [status |-> "pending_setup", enabled |-> FALSE,
                              locked |-> FALSE, cred |-> NoCred]]
    /\ row = [c \in Cred |-> "none"]
    /\ vault = {} /\ queue = {} /\ hidden = {} /\ accepted = {}
    /\ venueOpen = TRUE
    /\ key \in [Cred -> {"good", "fenced", "dead"}]
    /\ conn = [c \in Cred |-> "new"]
    /\ about = [r \in Req |-> NoCred]
    /\ reads = [r \in Req |-> 0]
    /\ check = [w \in Worker |-> IdleCheck]
    /\ trade = [w \in Worker |-> IdleTrade]
    /\ arming = [a \in Arm |-> NewArm]
    /\ faults = 0 /\ ops = 0

Fault == faults < MaxFaults /\ faults' = faults + 1

-----------------------------------------------------------------------------
(* connect-credential. A call that reports an error may have been made.      *)

Connect(c, from, to) ==
    /\ conn[c] = from
    /\ conn' = [conn EXCEPT ![c] = to]

ConnectUnchanged == <<worldVars, queueVars, check, trade, arming, accepted, ops>>

\* The venue is active and the bot has no credential yet.
ConnectBegin(c) ==
    /\ Connect(c, "new", IF venueOpen /\ bots[BotOf[c]].cred = NoCred
                         THEN "store" ELSE "done")
    /\ UNCHANGED <<bots, row, vault, faults, ConnectUnchanged>>

\* Names in Vault are unique by venue and bot, and so are labels, by owner,
\* venue and bot: what another request for the bot has left behind is in the
\* way when it is for the same venue, and it may be.
Named(c)    == \E d \in Cred \ {c} : BotOf[d] = BotOf[c] /\ d \in vault
Labelled(c) == \E d \in Cred \ {c} : BotOf[d] = BotOf[c] /\ row[d] # "none"

StoreSecret(c) ==
    /\ \/ /\ Connect(c, "store", "insert")
          /\ vault' = vault \cup {c}
          /\ UNCHANGED faults
       \/ /\ Connect(c, "store", "done")
          /\ Named(c)
          /\ UNCHANGED <<vault, faults>>
       \/ /\ Connect(c, "store", "done")
          /\ Fault
          /\ vault' \in {vault, vault \cup {c}}
    /\ UNCHANGED <<bots, row, ConnectUnchanged>>

InsertCredential(c) ==
    LET inserted == [row EXCEPT ![c] = "pending_validation"] IN
    /\ \/ /\ Connect(c, "insert", "link")
          /\ row' = inserted
          /\ UNCHANGED faults
       \/ /\ Connect(c, "insert", "unstore")
          /\ Labelled(c)
          /\ UNCHANGED <<row, faults>>
       \/ /\ Connect(c, "insert", "unstore")
          /\ Fault
          /\ row' \in {row, inserted}
    /\ UNCHANGED <<bots, vault, ConnectUnchanged>>

\* Mutant: the bot is pointed at the new credential whatever it points at.
LinkBotBlindly(c) ==
    /\ Connect(c, "link", "done")
    /\ bots' = [bots EXCEPT ![BotOf[c]].cred = c]
    /\ UNCHANGED <<row, vault, faults, ConnectUnchanged>>

\* UPDATE bots ... WHERE credential_id IS NULL, one row or all is rolled back.
LinkBot(c) ==
    LET free   == bots[BotOf[c]].cred = NoCred
        linked == [bots EXCEPT ![BotOf[c]].cred = c]
    IN  /\ \/ /\ Connect(c, "link", "done")
              /\ free
              /\ bots' = linked
              /\ UNCHANGED faults
           \/ /\ Connect(c, "link", "unrow")
              /\ IF free THEN Fault ELSE UNCHANGED faults
              /\ bots' \in {bots} \cup (IF free THEN {linked} ELSE {})
        /\ UNCHANGED <<row, vault, ConnectUnchanged>>

\* The row's DELETE, which the foreign key refuses for a credential in use; its
\* error is not looked at. Then the secret's, at best.
DeleteCredential(c) ==
    /\ Connect(c, "unrow", "unstore")
    /\ \/ /\ row' = IF bots[BotOf[c]].cred = c THEN row
                    ELSE [row EXCEPT ![c] = "none"]
          /\ UNCHANGED faults
       \/ Fault /\ UNCHANGED row
    /\ UNCHANGED <<bots, vault, ConnectUnchanged>>

DeleteSecret(c) ==
    /\ Connect(c, "unstore", "done")
    /\ \/ vault' = vault \ {c} /\ UNCHANGED faults
       \/ Fault /\ UNCHANGED vault
    /\ UNCHANGED <<bots, row, ConnectUnchanged>>

\* The function's instance is killed between two calls.
ConnectDies(c) ==
    /\ conn[c] \notin {"new", "done"}
    /\ Connect(c, conn[c], "done")
    /\ Fault
    /\ UNCHANGED <<bots, row, vault, ConnectUnchanged>>

-----------------------------------------------------------------------------
(* Validation: validate-credential sends, the worker's loop decides          *)

CheckUnchanged == <<vault, conn, worldVars, about, trade, arming, ops>>

RequestValidation(r, b) ==
    /\ about[r] = NoCred
    /\ bots[b].cred # NoCred
    /\ about' = [about EXCEPT ![r] = bots[b].cred]
    /\ queue' = queue \cup {r}
    /\ UNCHANGED <<bots, credVars, worldVars, hidden, reads, check, trade,
                   arming, accepted, faults, ops>>

\* Mutant: read_ct is not a number, and every read the first.
ReadRequestUncounted(w, r) ==
    /\ check[w].at = "poll"
    /\ r \in queue \ hidden
    /\ hidden' = hidden \cup {r}
    /\ reads' = [reads EXCEPT ![r] = 1]
    /\ check' = [check EXCEPT ![w] = [at |-> "gates", req |-> r, verdict |-> "none"]]
    /\ UNCHANGED <<bots, row, queue, accepted, faults, CheckUnchanged>>

\* pgmq_read(vt, 1), under the in-flight guard.
ReadRequest(w, r) ==
    /\ check[w].at = "poll"
    /\ r \in queue \ hidden
    /\ hidden' = hidden \cup {r}
    /\ reads' = [reads EXCEPT ![r] = @ + 1]
    /\ check' = [check EXCEPT ![w] = [at |-> "gates", req |-> r, verdict |-> "none"]]
    /\ UNCHANGED <<bots, row, queue, accepted, faults, CheckUnchanged>>

Reappear(r) ==
    /\ r \in hidden
    /\ hidden' = hidden \ {r}
    /\ UNCHANGED <<bots, row, queue, reads, check, accepted, faults, CheckUnchanged>>

About(w) == about[check[w].req]

Checks(w, from, to) ==
    /\ check[w].at = from
    /\ check' = [check EXCEPT ![w].at = to]

\* retryOrGiveUp: the message is left to its visibility timeout, or dropped
\* with the credential's status as it is.
RetryOrGiveUp(w, from) ==
    /\ check[w].at = from
    /\ check' = [check EXCEPT ![w] =
         IF reads[check[w].req] >= MaxAttempts THEN [@ EXCEPT !.at = "ack"] ELSE IdleCheck]

\* Steps 1 to 6: a fault of the configuration is nobody's key's.
CheckGates(w) ==
    /\ \/ /\ \/ Checks(w, "gates", "fetch") /\ venueOpen
             \/ Checks(w, "gates", "ack") /\ ~venueOpen
          /\ UNCHANGED faults
       \/ RetryOrGiveUp(w, "gates") /\ Fault
    /\ UNCHANGED <<bots, row, queue, hidden, reads, accepted, CheckUnchanged>>

Verdict(w, verdict) ==
    /\ check[w].at = "fetch"
    /\ check' = [check EXCEPT ![w].at = "write", ![w].verdict = verdict]

\* What the signed call comes to: with no secret, or a revoked key, it is
\* refused for good; a fenced key is refused in a way that proves nothing.
Refused(c)  == c \notin vault \/ key[c] = "dead"
Fenced(c)   == c \in vault /\ key[c] = "fenced"
Welcome(c)  == c \in vault /\ key[c] = "good"

\* Mutant: whoever is refused has a bad key.
FetchBalanceBlaming(w) ==
    LET c == About(w) IN
    /\ \/ /\ Verdict(w, "valid") /\ Welcome(c)
          /\ accepted' = accepted \cup {c}
       \/ Verdict(w, "invalid") /\ ~Welcome(c) /\ UNCHANGED accepted
    /\ UNCHANGED <<bots, row, queue, hidden, reads, faults, CheckUnchanged>>

\* Step 7: fetchBalance, the proof that the key authenticates.
FetchBalance(w) ==
    LET c == About(w) IN
    /\ \/ /\ Verdict(w, "valid") /\ Welcome(c)
          /\ accepted' = accepted \cup {c}
          /\ UNCHANGED faults
       \/ Verdict(w, "invalid") /\ Refused(c) /\ UNCHANGED <<accepted, faults>>
       \/ RetryOrGiveUp(w, "fetch") /\ Fenced(c) /\ UNCHANGED <<accepted, faults>>
       \/ RetryOrGiveUp(w, "fetch") /\ Fault /\ UNCHANGED accepted
    /\ UNCHANGED <<bots, row, queue, hidden, reads, CheckUnchanged>>

\* UPDATE ... WHERE the row is there, in one of the three statuses.
Marked(c, status) ==
    IF row[c] = "none" THEN row ELSE [row EXCEPT ![c] = status]

\* Bots are disarmed only for a row that was changed.
AfterWrite(w) ==
    IF check[w].verdict = "invalid" /\ row[About(w)] # "none" THEN "disarm" ELSE "ack"

\* Mutant: an UPDATE that failed is taken for one that matched no row.
SetStatusOnce(w) ==
    /\ \/ /\ Checks(w, "write", AfterWrite(w))
          /\ row' = Marked(About(w), check[w].verdict)
          /\ UNCHANGED faults
       \/ Checks(w, "write", "ack") /\ Fault /\ UNCHANGED row
    /\ UNCHANGED <<bots, queue, hidden, reads, accepted, CheckUnchanged>>

\* setStatus: the verdict is written, or an error has the request tried again.
SetStatus(w) ==
    LET marked == Marked(About(w), check[w].verdict) IN
    /\ \/ /\ Checks(w, "write", AfterWrite(w))
          /\ row' = marked
          /\ UNCHANGED faults
       \/ /\ RetryOrGiveUp(w, "write")
          /\ Fault
          /\ row' \in {row, marked}
    /\ UNCHANGED <<bots, queue, hidden, reads, accepted, CheckUnchanged>>

Stopped(bot) == [bot EXCEPT !.enabled = FALSE, !.status = "paused"]

\* disarmBotsForInvalidCredential, at best.
DisarmBots(w) ==
    /\ Checks(w, "disarm", "ack")
    /\ \/ /\ bots' = [b \in Bot |-> IF bots[b].cred = About(w) /\ bots[b].enabled
                                    THEN Stopped(bots[b]) ELSE bots[b]]
          /\ UNCHANGED faults
       \/ Fault /\ UNCHANGED bots
    /\ UNCHANGED <<row, queue, hidden, reads, accepted, CheckUnchanged>>

\* pgmq_delete, whose error is not looked at.
AckRequest(w) ==
    /\ check[w].at = "ack"
    /\ check' = [check EXCEPT ![w] = IdleCheck]
    /\ \/ /\ queue' = queue \ {check[w].req}
          /\ hidden' = hidden \ {check[w].req}
          /\ UNCHANGED faults
       \/ Fault /\ UNCHANGED <<queue, hidden>>
    /\ UNCHANGED <<bots, row, reads, accepted, CheckUnchanged>>

-----------------------------------------------------------------------------
(* The trade path's part: a signal that runs into the credential             *)

TradeUnchanged == <<vault, conn, worldVars, queueVars, check, arming, accepted, ops>>

Trades(w, from, to) ==
    /\ trade[w].at = from
    /\ trade' = [trade EXCEPT ![w].at = to]

TradeEnds(w, from) ==
    /\ trade[w].at = from
    /\ trade' = [trade EXCEPT ![w] = IdleTrade]

UpdateBot(b, bot) ==
    \/ bots' = [bots EXCEPT ![b] = bot] /\ UNCHANGED faults
    \/ Fault /\ UNCHANGED bots

TradeBot(w) == BotOf[trade[w].cred]

\* Step 1: a signal of an active bot.
ReadBot(w, b) ==
    /\ trade[w].at = "idle"
    /\ bots[b].status = "active" /\ bots[b].cred # NoCred
    /\ trade' = [trade EXCEPT ![w] = [at |-> "cred", cred |-> bots[b].cred,
                                      enabled |-> bots[b].enabled]]
    /\ UNCHANGED <<bots, row, faults, TradeUnchanged>>

\* Steps 4a and 4b: the credential must be valid, the venue active and the bot
\* enabled; other gates may end it too.
ReadCredential(w) ==
    LET c == trade[w].cred IN
    /\ \/ /\ Trades(w, "cred", "use")
          /\ row[c] = "valid" /\ venueOpen /\ trade[w].enabled
          /\ UNCHANGED <<bots, faults>>
       \/ TradeEnds(w, "cred") /\ UNCHANGED <<bots, faults>>
       \/ /\ TradeEnds(w, "cred")
          /\ row[c] # "valid" \/ ~venueOpen
          /\ UpdateBot(TradeBot(w), [bots[TradeBot(w)] EXCEPT !.status = "error"])
    /\ UNCHANGED <<row, TradeUnchanged>>

\* fetchBalance or createOrder under the key: it ends with nothing to say of
\* the key, or with a refusal.
UseKey(w) ==
    LET c == trade[w].cred IN
    /\ \/ TradeEnds(w, "use")
       \/ Trades(w, "use", "revoke") /\ Refused(c)
       \/ Trades(w, "use", "pause") /\ Fenced(c)
    /\ UNCHANGED <<bots, row, faults, TradeUnchanged>>

\* disableCredentialAndBot: the credential, then the bot, each at best.
RevokeCredential(w) ==
    /\ Trades(w, "revoke", "disable")
    /\ \/ row' = Marked(trade[w].cred, "invalid") /\ UNCHANGED faults
       \/ Fault /\ UNCHANGED row
    /\ UNCHANGED <<bots, TradeUnchanged>>

DisableBot(w) ==
    /\ TradeEnds(w, "disable")
    /\ UpdateBot(TradeBot(w), [bots[TradeBot(w)] EXCEPT !.status = "error"])
    /\ UNCHANGED <<row, TradeUnchanged>>

\* pauseBotForAuthAttention: the credential is left alone.
PauseForAttention(w) ==
    /\ TradeEnds(w, "pause")
    /\ UpdateBot(TradeBot(w), Stopped(bots[TradeBot(w)]))
    /\ UNCHANGED <<row, TradeUnchanged>>

\* The worker process dies, between any two calls of its loops.
Crash(w) ==
    /\ Fault
    /\ check' = [check EXCEPT ![w] = IdleCheck]
    /\ trade' = [trade EXCEPT ![w] = IdleTrade]
    /\ UNCHANGED <<bots, credVars, worldVars, queueVars, arming, accepted, ops>>

-----------------------------------------------------------------------------
(* arm-bot, the stops, and the world                                         *)

ArmUnchanged == <<credVars, worldVars, queueVars, check, trade, accepted, ops>>

\* The bot is read: not locked, with a credential.
ArmBegin(a, b) ==
    /\ arming[a].at = "new"
    /\ ~bots[b].locked /\ bots[b].cred # NoCred
    /\ arming' = [arming EXCEPT ![a] = [at |-> "cred", cred |-> bots[b].cred]]
    /\ UNCHANGED <<bots, faults, ArmUnchanged>>

ArmCheck(a) ==
    /\ arming[a].at = "cred"
    /\ arming' = [arming EXCEPT ![a].at =
         IF row[arming[a].cred] = "valid" THEN "write" ELSE "done"]
    /\ UNCHANGED <<bots, faults, ArmUnchanged>>

\* The UPDATE asks for the bot and its owner only.
ArmWrite(a) ==
    LET b == BotOf[arming[a].cred] IN
    /\ arming[a].at = "write"
    /\ arming' = [arming EXCEPT ![a].at = "done"]
    /\ UpdateBot(b, [bots[b] EXCEPT !.enabled = TRUE, !.status = "active"])
    /\ UNCHANGED ArmUnchanged

Op == ops < MaxOps /\ ops' = ops + 1

OpUnchanged == <<credVars, queueVars, check, trade, arming, accepted, faults>>

\* pause-bot and user_pause_own_bot.
PauseBot(b) ==
    /\ Op
    /\ bots' = [bots EXCEPT ![b] = Stopped(@)]
    /\ UNCHANGED <<worldVars, OpUnchanged>>

\* operator_kill_all; a hard kill pauses the active bots as well.
KillAll(hard) ==
    /\ Op
    /\ bots' = [b \in Bot |-> [bots[b] EXCEPT
         !.enabled = FALSE,
         !.status  = IF hard /\ @ = "active" THEN "paused" ELSE @]]
    /\ UNCHANGED <<worldVars, OpUnchanged>>

\* operator_set_bot_lock.
SetLock(b, locked) ==
    /\ Op
    /\ bots' = [bots EXCEPT ![b].locked = locked]
    /\ UNCHANGED <<worldVars, OpUnchanged>>

\* The owner revokes a key for good, or the worker's address comes onto its
\* allowlist or leaves it.
ChangeKey(c) ==
    /\ Op
    /\ key[c] # "dead"
    /\ \E state \in {"good", "fenced", "dead"} \ {key[c]} :
         key' = [key EXCEPT ![c] = state]
    /\ UNCHANGED <<bots, venueOpen, OpUnchanged>>

\* The operator switches the venue.
SwitchVenue ==
    /\ Op
    /\ venueOpen' = ~venueOpen
    /\ UNCHANGED <<bots, key, OpUnchanged>>

ConnectStep(c) ==
    \/ ConnectBegin(c) \/ StoreSecret(c) \/ InsertCredential(c) \/ LinkBot(c)
    \/ DeleteCredential(c) \/ DeleteSecret(c) \/ ConnectDies(c)

HandleValidate(w) ==
    CheckGates(w) \/ FetchBalance(w) \/ SetStatus(w) \/ DisarmBots(w) \/ AckRequest(w)

TradeStep(w) ==
    \/ \E b \in Bot : ReadBot(w, b)
    \/ ReadCredential(w) \/ UseKey(w) \/ RevokeCredential(w) \/ DisableBot(w)
    \/ PauseForAttention(w)

ArmStep(a) == (\E b \in Bot : ArmBegin(a, b)) \/ ArmCheck(a) \/ ArmWrite(a)

BotOp(b) == PauseBot(b) \/ \E locked \in BOOLEAN : SetLock(b, locked)

Next ==
    \/ \E c \in Cred : ConnectStep(c) \/ ChangeKey(c)
    \/ \E r \in Req : Reappear(r) \/ \E b \in Bot : RequestValidation(r, b)
    \/ \E w \in Worker : \/ \E r \in Req : ReadRequest(w, r)
                         \/ HandleValidate(w) \/ TradeStep(w) \/ Crash(w)
    \/ \E a \in Arm : ArmStep(a)
    \/ \E b \in Bot : BotOp(b)
    \/ \E hard \in BOOLEAN : KillAll(hard)
    \/ SwitchVenue

Spec == Init /\ [][Next]_vars

\* The validation loop is on and makes its next call, the visibility timeout of
\* a message runs out, and the queue's order lets every message have its turn.
Fairness ==
    /\ \A r \in Req : WF_vars(Reappear(r))
    /\ \A w \in Worker :
         /\ WF_vars(HandleValidate(w))
         /\ \A r \in Req : SF_vars(ReadRequest(w, r))

FairSpec == Spec /\ Fairness

-----------------------------------------------------------------------------
(* Properties *)

\* A bot is armed only with a credential whose key the exchange has accepted:
\* no connect, validation or arm that overlaps another gets one armed unproven
\* (connect-credential's IS NULL, setStatus, arm-bot's check).
ArmedWasProven ==
    \A b \in Bot : bots[b].enabled => bots[b].cred \in accepted

\* A credential is only called invalid when its key is dead or its secret is
\* gone, never for a fenced key, an outage or a venue that is off
\* (handleValidate, disableCredentialAndBot, pauseBotForAuthAttention).
InvalidIsDeserved ==
    \A c \in Cred : row[c] = "invalid" => Refused(c)

\* A request leaves the queue in the end, whatever the exchange answers
\* (retryOrGiveUp).
Settles == \A r \in Req : r \in queue ~> r \notin queue

\* With fewer faults than attempts, the owner of a credential whose validation
\* was just asked for gets an answer, unless the venue is off or the key fenced.
NotStranded ==
    \A r \in Req : \A c \in Cred :
      (r \in queue /\ reads[r] = 0 /\ about[r] = c /\ row[c] = "pending_validation")
        ~> (row[c] # "pending_validation" \/ ~venueOpen \/ key[c] = "fenced")
=============================================================================
