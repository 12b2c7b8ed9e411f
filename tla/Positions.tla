------------------------------ MODULE Positions ------------------------------
(***************************************************************************)
(* The money of one spot bot: how the worker sizes an order from what it   *)
(* reads of the market (sizingRisk.ts, index.ts Steps 4b to 8), how the    *)
(* reservation's caps count it (migration 029), and the operator's flatten *)
(* (flatten.ts), which sells what is there while orders may be under way.  *)
(*                                                                         *)
(* Each signal stands for the live, approved run of processMessage on it:  *)
(* copies, redeliveries, proposals and lost answers are TradeWorker's.     *)
(* Base is counted in units finer than the lot step, so that fees leave    *)
(* dust; percentages are kept exact by comparing amounts times 100. The    *)
(* steps of a venue are powers of ten (as Binance's are, the only venue    *)
(* the worker supports), so that toFixed(qtyPrecision) changes nothing.    *)
(***************************************************************************)
EXTENDS Naturals, FiniteSets, FiniteSetsExt

CONSTANTS
    Signal,      \* signals, each handled once
    Call,        \* calls of flattenBot
    Host,        \* worker processes
    Configs,     \* bots' sizing columns; 0 is NULL, as each is CHECKed positive
    Prices,      \* quote per unit of base, at any time
    Funds, Holdings,         \* what the account may hold at first
    Step, MinQty, MinNotional \* the market's rules

ASSUME PositionsOK ==
    /\ IsFiniteSet(Signal)
    /\ Configs \subseteq [pct : 0..100, fixed : Nat, max_order : Nat, cap : Nat,
                          sell_enabled : BOOLEAN, sell_pct : 0..100]
    /\ Prices \subseteq Nat \ {0} /\ Funds \subseteq Nat /\ Holdings \subseteq Nat
    /\ Step \in Nat \ {0} /\ MinQty \in Nat /\ MinNotional \in Nat

VARIABLES
    bot,       \* bots: the sizing columns
    enabled,   \* bots.trading_enabled
    quote, base, \* the account at the exchange
    order,     \* each signal: how far it is, and the order made for it
    call,      \* each flatten: its process, how far it is, what it sells, its outcome
    calm       \* history: calls with no order under way, nor any to come

vars == <<bot, enabled, quote, base, order, call, calm>>

Stages == {"new", "gated", "sized", "pending", "filled", "failed", "over"}
Outcomes == {"none", "flattened", "nothing_to_close", "skipped_locked",
             "skipped_no_adapter", "error"}
NoOrder == [at |-> "new", side |-> "buy", free |-> 0, price |-> 0, qty |-> 0, asked |-> 0]

\* Every variable keeps its type; no balance is ever negative.
TypeOK ==
    /\ bot \in Configs /\ enabled \in BOOLEAN /\ quote \in Nat /\ base \in Nat
    /\ order \in [Signal -> [at : Stages, side : {"buy", "sell"}, free : Nat, price : Nat,
                             qty : Nat, asked : Nat]]
    /\ call \in [Call -> [at : {"new", "looking", "selling", "over"}, host : Host, qty : Nat,
                          outcome : Outcomes]]
    /\ calm \subseteq Call

Init ==
    /\ bot \in Configs /\ enabled \in BOOLEAN
    /\ quote \in Funds /\ base \in Holdings
    /\ order = [s \in Signal |-> NoOrder]
    /\ \E host \in [Call -> Host] :
          call = [c \in Call |-> [at |-> "new", host |-> host[c], qty |-> 0, outcome |-> "none"]]
    /\ calm = {}

-----------------------------------------------------------------------------
(* Sizing. An operator that may refuse returns the set of what it grants.  *)

\* Mutant: to the nearest step.
RoundToStep(num, den) == ((num + (den * Step) \div 2) \div (den * Step)) * Step

\* num/den down to a multiple of the lot step; the tolerance in the code
\* makes its floats do this exactly.
roundDownToStep(num, den) == (num \div (den * Step)) * Step

isBotConfigReady ==
    /\ bot.pct > 0 \/ bot.fixed > 0
    /\ bot.max_order > 0 /\ bot.cap > 0
    /\ bot.sell_enabled => bot.sell_pct > 0

\* Times 100; percent_of_balance where pct is set, else fixed_notional.
computeRequestedNotional(free) ==
    IF bot.pct > 0 THEN bot.pct * free ELSE 100 * bot.fixed

computeBuyQuantity(price, free) ==
    LET asked == computeRequestedNotional(free)
        qty == roundDownToStep(asked, 100 * price)
    IN {q \in {qty} : /\ 0 < asked /\ asked <= 100 * free
                      /\ q >= MinQty /\ q * price >= MinNotional}

computeSellQuantity(free) ==
    {q \in {roundDownToStep(bot.sell_pct * free, 100)} :
        bot.sell_enabled /\ bot.sell_pct > 0 /\ q >= MinQty}

-----------------------------------------------------------------------------
(* The worker's way from the gates to the order.                           *)

Dropped(how) == [NoOrder EXCEPT !.at = how]
UnderWay(s) == order[s].at \in {"gated", "sized", "pending"}

\* Step 4b, with the bot row of Step 1.
Gates(s, side) ==
    /\ order[s].at = "new" /\ enabled
    /\ IF side = "buy" THEN isBotConfigReady ELSE bot.sell_enabled
    /\ order' = [order EXCEPT ![s] = [NoOrder EXCEPT !.at = "gated", !.side = side]]
    /\ UNCHANGED <<bot, enabled, quote, base, call, calm>>

\* Steps 5 and 6: the free balance and, for a buy, the price are read, and
\* the order is sized or refused.
ReadMarket(s, price) ==
    /\ order[s].at = "gated"
    /\ LET buy == order[s].side = "buy"
           free == IF buy THEN quote ELSE base
           granted == IF buy THEN computeBuyQuantity(price, free)
                      ELSE computeSellQuantity(free)
       IN order' = [order EXCEPT ![s] =
            IF granted = {} THEN Dropped("over")
            ELSE [@ EXCEPT !.at = "sized", !.free = free, !.price = price,
                           !.qty = CHOOSE q \in granted : TRUE,
                           !.asked = IF buy THEN computeRequestedNotional(free) ELSE 0]]
    /\ UNCHANGED <<bot, enabled, quote, base, call, calm>>

\* A failed read or reservation, or the worker's end: no order.
Abandon(s) ==
    /\ order[s].at \in {"gated", "sized"}
    /\ order' = [order EXCEPT ![s] = Dropped("over")]
    /\ UNCHANGED <<bot, enabled, quote, base, call, calm>>

Reserved == MapThenSumSet(LAMBDA s : order[s].asked,
                          {s \in Signal : order[s].at \in {"pending", "filled"}})

\* Mutant: the cap is compared with what was reserved before this order.
ReserveBehind(s) ==
    /\ order[s].at = "sized"
    /\ order' = [order EXCEPT ![s] =
            IF order[s].side = "buy" /\ \/ order[s].asked > 100 * bot.max_order
                                        \/ Reserved > 100 * bot.cap
            THEN Dropped("over") ELSE [@ EXCEPT !.at = "pending"]]
    /\ UNCHANGED <<bot, enabled, quote, base, call, calm>>

\* Step 7: a buy under its caps, in one transaction; a sell under none.
Reserve(s) ==
    /\ order[s].at = "sized"
    /\ order' = [order EXCEPT ![s] =
            IF order[s].side = "buy" /\ \/ order[s].asked > 100 * bot.max_order
                                        \/ Reserved + order[s].asked > 100 * bot.cap
            THEN Dropped("over") ELSE [@ EXCEPT !.at = "pending"]]
    /\ UNCHANGED <<bot, enabled, quote, base, call, calm>>

\* Step 8: the venue fills a market order at its own price, or refuses it.
CreateOrder(s, price) ==
    LET o == order[s] IN
    /\ o.at = "pending"
    /\ \/ /\ o.side = "buy" /\ o.qty * price <= quote
          /\ quote' = quote - o.qty * price /\ base' = base + o.qty
          /\ order' = [order EXCEPT ![s].at = "filled"]
       \/ /\ o.side = "sell" /\ o.qty <= base
          /\ quote' = quote + o.qty * price /\ base' = base - o.qty
          /\ order' = [order EXCEPT ![s].at = "filled"]
       \/ /\ order' = [order EXCEPT ![s] = Dropped("failed")]
          /\ UNCHANGED <<quote, base>>
    /\ UNCHANGED <<bot, enabled, call, calm>>

-----------------------------------------------------------------------------
(* Flatten. It does not look at trading_enabled.                           *)

Ended(c, outcome) == [call[c] EXCEPT !.at = "over", !.qty = 0, !.outcome = outcome]
InFlight(host) == \E c \in Call : call[c].host = host /\ call[c].at \in {"looking", "selling"}

\* The claim of the bot in this process, and the adapter and market rules.
FlattenBegins(c) ==
    /\ call[c].at = "new"
    /\ IF InFlight(call[c].host)
       THEN call' = [call EXCEPT ![c] = Ended(c, "skipped_locked")]
       ELSE call' \in {[call EXCEPT ![c].at = "looking"],
                       [call EXCEPT ![c] = Ended(c, "skipped_no_adapter")],
                       [call EXCEPT ![c] = Ended(c, "error")]}
    /\ calm' = IF enabled \/ \E s \in Signal : UnderWay(s) THEN calm ELSE calm \cup {c}
    /\ UNCHANGED <<bot, enabled, quote, base, order>>

\* Mutant: the share of the position that a sell signal would take.
flattenQuantitiesBySellPct == {roundDownToStep(bot.sell_pct * base, 100)}

\* All of the free base, rounded down without the tolerance: an exact
\* multiple of the step may come out one step short.
flattenQuantities ==
    LET all == roundDownToStep(base, 1)
        short == IF base = all /\ all >= Step THEN {all - Step} ELSE {}
    IN {all} \cup short

\* fetchBalance, and what it leaves to do.
FlattenReads(c) ==
    /\ call[c].at = "looking"
    /\ \/ \E qty \in flattenQuantities :
            call' = [call EXCEPT ![c] =
                IF qty >= MinQty /\ qty > 0 THEN [@ EXCEPT !.at = "selling", !.qty = qty]
                ELSE Ended(c, "nothing_to_close")]
       \/ call' = [call EXCEPT ![c] = Ended(c, "error")]
    /\ UNCHANGED <<bot, enabled, quote, base, order, calm>>

\* createOrder: filled, refused, or filled with its answer lost.
FlattenSells(c, price) ==
    /\ call[c].at = "selling"
    /\ \/ /\ call[c].qty <= base
          /\ quote' = quote + call[c].qty * price /\ base' = base - call[c].qty
          /\ \E outcome \in {"flattened", "error"} :
                call' = [call EXCEPT ![c] = Ended(c, outcome)]
       \/ /\ call' = [call EXCEPT ![c] = Ended(c, "error")]
          /\ UNCHANGED <<quote, base>>
    /\ UNCHANGED <<bot, enabled, order, calm>>

\* A worker process dies, and its claims with it; the operator may call again.
HostDies(host) ==
    /\ InFlight(host)
    /\ call' = [c \in Call |-> IF call[c].host = host /\ call[c].at \in {"looking", "selling"}
                               THEN Ended(c, "none") ELSE call[c]]
    /\ UNCHANGED <<bot, enabled, quote, base, order, calm>>

\* operator_kill_all, and arm-bot after it.
Kill ==
    /\ enabled /\ enabled' = FALSE
    /\ UNCHANGED <<bot, quote, base, order, call, calm>>
Arm ==
    /\ ~enabled /\ enabled' = TRUE /\ calm' = {}
    /\ UNCHANGED <<bot, quote, base, order, call>>

-----------------------------------------------------------------------------
Next ==
    \/ \E s \in Signal :
        \/ \E side \in {"buy", "sell"} : Gates(s, side)
        \/ Abandon(s) \/ Reserve(s)
        \/ \E price \in Prices : ReadMarket(s, price) \/ CreateOrder(s, price)
    \/ \E c \in Call :
        \/ FlattenBegins(c) \/ FlattenReads(c)
        \/ \E price \in Prices : FlattenSells(c, price)
    \/ \E host \in Host : HostDies(host)
    \/ Kill \/ Arm

Spec == Init /\ [][Next]_vars

-----------------------------------------------------------------------------
(* Properties *)

\* "Round down always" (sizingRisk.ts): each order is the largest lot that
\* the share of the balance it was sized from pays for at the price read, no
\* smaller than the market's minima, and what a buy reserves covers it.
SizedRight ==
    \A s \in Signal : order[s].at \in {"sized", "pending", "filled"} =>
        LET o == order[s]
            share == IF o.side = "buy" THEN o.asked ELSE bot.sell_pct * o.free
            unit == IF o.side = "buy" THEN 100 * o.price ELSE 100
        IN /\ o.qty % Step = 0 /\ o.qty >= MinQty
           /\ o.qty * unit <= share /\ share < (o.qty + Step) * unit
           /\ share <= 100 * o.free
           /\ o.side = "buy" => o.qty * o.price >= MinNotional

\* The reservations of the day stay within the cap, in money and not in
\* orders: what is sized from a balance read earlier counts in full, and a
\* failed order counts no more (migration 029).
ReservedIsCapped == Reserved <= 100 * bot.cap

\* Flatten "closes what is already open" (flatten.ts): called on a killed bot
\* with no order under way, alone or overlapping other calls, and answering
\* that it flattened or found nothing, it leaves no more than a lot, or less
\* than a lot more than the market's minimum.
FlattenLeavesDust ==
    \A c \in calm :
        call[c].outcome \in {"flattened", "nothing_to_close"} =>
            base <= Step \/ base < MinQty + Step
=============================================================================
