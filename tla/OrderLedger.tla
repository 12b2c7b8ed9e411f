---------------------------- MODULE OrderLedger ----------------------------
(***************************************************************************)
(* What the order pipeline promises of each signal: the owner's consent    *)
(* comes first, then an entry is held in the ledger, the order is sent to  *)
(* the exchange once at most and only while the entry is held, and what is *)
(* settled stays settled. A signal may also be settled without an order    *)
(* (a simulated fill).                                                     *)
(***************************************************************************)
CONSTANT Signal

VARIABLES
    consent,   \* signals the owner agreed to trade
    entry,     \* [Signal -> {"fresh", "held", "settled"}]
    sent       \* signals whose order was sent

vars == <<consent, entry, sent>>

Init ==
    /\ consent = {} /\ sent = {}
    /\ entry = [s \in Signal |-> "fresh"]

Consent(s) ==
    /\ consent' = consent \cup {s}
    /\ UNCHANGED <<entry, sent>>

Hold(s) ==
    /\ s \in consent /\ entry[s] = "fresh"
    /\ entry' = [entry EXCEPT ![s] = "held"]
    /\ UNCHANGED <<consent, sent>>

Send(s) ==
    /\ entry[s] = "held" /\ s \notin sent
    /\ sent' = sent \cup {s}
    /\ UNCHANGED <<consent, entry>>

Settle(s) ==
    /\ entry[s] = "held" \/ (entry[s] = "fresh" /\ s \notin sent)
    /\ entry' = [entry EXCEPT ![s] = "settled"]
    /\ UNCHANGED <<consent, sent>>

Next == \E s \in Signal : Consent(s) \/ Hold(s) \/ Send(s) \/ Settle(s)

Spec == Init /\ [][Next]_vars
=============================================================================
