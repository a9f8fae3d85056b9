----------------------------- MODULE PaymentPromise -----------------------------
(***************************************************************************)
(* What SatScout promises of Lightning payments, and no more: authority    *)
(* for a payment is reserved before it is sent, it is handed back only if  *)
(* it was not sent, a payment is sent at most once, and it is recorded as  *)
(* made only once it was.  WavelengthSpend and GiftCardAcquisition         *)
(* implement it.                                                           *)
(***************************************************************************)
EXTENDS Naturals

CONSTANT Payments

VARIABLES
    reserved,    \* payments whose authority is held
    sent,        \* how often each payment was sent
    made,        \* payments that reached their payee
    recorded     \* payments recorded as made

promise == <<reserved, sent, made, recorded>>

PromiseInit ==
    /\ reserved = {}
    /\ sent = [p \in Payments |-> 0]
    /\ made = {}
    /\ recorded = {}

Reserve(p) ==
    /\ p \notin reserved
    /\ reserved' = reserved \cup {p}
    /\ UNCHANGED <<sent, made, recorded>>

Return(p) ==
    /\ p \in reserved
    /\ sent[p] = 0
    /\ reserved' = reserved \ {p}
    /\ UNCHANGED <<sent, made, recorded>>

Send(p) ==
    /\ p \in reserved
    /\ sent[p] = 0
    /\ sent' = [sent EXCEPT ![p] = 1]
    /\ UNCHANGED <<reserved, made, recorded>>

\* A payment may be made any time after it was sent, or never.
Make(p) ==
    /\ sent[p] = 1
    /\ made' = made \cup {p}
    /\ UNCHANGED <<reserved, sent, recorded>>

Record(p) ==
    /\ p \in reserved \cap made
    /\ recorded' = recorded \cup {p}
    /\ UNCHANGED <<reserved, sent, made>>

PromiseNext == \E p \in Payments : Reserve(p) \/ Return(p) \/ Send(p) \/ Make(p) \/ Record(p)

PromiseSpec == PromiseInit /\ [][PromiseNext]_promise

=============================================================================
