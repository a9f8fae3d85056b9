------------------------------- MODULE MCWavelength -------------------------------
(***************************************************************************)
(* Signet payments (WavelengthSpend) and the judgements on the daemon's    *)
(* answers they rest on (WavelengthReading), which keep no state.  A       *)
(* behaviour has one subject, chosen at the start: the payments, or a      *)
(* single answer while nothing else moves.                                 *)
(***************************************************************************)
EXTENDS MCWavelengthSpend, Integers

CONSTANTS Absent, Odd, Refused, MaxSafeInteger

VARIABLE subject

SafetyCeilings == [maxPrincipal |-> 4, maxFee |-> 1, maxTotalOutflow |-> 4, maxWalletBalance |-> 5]

Reading == INSTANCE WavelengthReading WITH Hashes <- {"h1", "h2"}, Safety <- SafetyCeilings

\* The texts, those with a meaning by name.
Words ==
    STRING \cup {"UNKNOWN", "COMPLETE", "LIGHTNING", "SEND", "PENDING", "FAILED", "READY", "AUTHORIZABLE",
                "INDETERMINATE", "DENY", "SUCCEEDED", "AMBIGUOUS", "MISMATCH", "mainnet", "signet",
                "approved", "unparsable", "malformed", "valid", "h1", "h2", "short", "key", "other",
                "IN_ARK", "UNSPECIFIED", "LOCAL_ONLY", "LOCKED", "RECV", "REFUNDED", "elsewhere", "later",
                "a later code"}

\* What a field of an answer may hold.
Fields == Int \cup {Absent, Odd}
Flags == BOOLEAN \cup {Absent, Odd}
Texts == Words \cup {Absent, Odd}
Enums == [form : {"name", "number", "digits"}, of : Words]
HashTexts == [of : Words, upper : BOOLEAN]
Credits == [applied : Fields, must : Flags]
EntryBodies ==
    [kind : Enums \cup {Absent, Odd}, status : Enums \cup {Absent, Odd}, amount : Fields, fee : Fields,
     preimage : Texts, progressHash : HashTexts \cup {Absent, Odd}, requestHash : HashTexts \cup {Absent, Odd},
     id : HashTexts \cup {Absent, Odd}, failureCode : Enums \cup {Absent, Odd}]

\* What is read of an answer that can be read.
ReadAmounts == Int \cup {Absent}
Quotes ==
    [status : Words, rail : Words, feeKnown : BOOLEAN, totalKnown : BOOLEAN, principal : ReadAmounts,
     fee : ReadAmounts, totalOutflow : ReadAmounts, paymentHash : Words \cup {Absent}, expiresAt : ReadAmounts,
     usesCredit : BOOLEAN]
Wallets ==
    [ready : BOOLEAN, network : Words, balanceComplete : BOOLEAN, amounts : SUBSET Int, confirmed : Int]
SanitizedEntries ==
    [kind : Words, status : Words, signedAmountSat : ReadAmounts, feeSat : ReadAmounts,
     paymentHash : Words \cup {Absent}, preimageFits : BOOLEAN]

\* The clock, and the time an intent must still live.
Now == 3
MinTtl == 2

\* What is absent, of a wrong type or refused is no value; the times of the clock
\* are safe integers.
ASSUME ReadingAssumption ==
    /\ MaxSafeInteger \in Nat /\ Now + MinTtl <= MaxSafeInteger
    /\ Absent # Odd /\ Absent # Refused /\ Odd # Refused
    /\ \A mark \in {Absent, Odd, Refused} :
          mark \notin Int \cup BOOLEAN \cup Words \cup Enums \cup HashTexts \cup Credits
                      \cup EntryBodies \cup Quotes \cup Wallets \cup SanitizedEntries

-----------------------------------------------------------------------------
(* The questions.                                                          *)

Named(name) == [form |-> "name", of |-> name]
Hash(of) == [of |-> of, upper |-> FALSE]
Networks == {"signet", "mainnet"}

Quote(principal, fee, total) ==
    [amount |-> principal, feeKnown |-> TRUE, fee |-> fee, totalKnown |-> TRUE, total |-> total,
     expires |-> Now + MinTtl, hash |-> Hash("h1"), credit |-> Absent,
     rail |-> Named("LIGHTNING"), status |-> Named("COMPLETE")]

\* Amounts that agree or not, are missing, negative or too large.
Amounts == {Quote(principal, fee, total) : principal \in {Absent, -1, 0, 3, 4, 5},
                                           fee \in {Absent, Odd, -1, 0, 1, 2},
                                           total \in {Absent, 0, 3, 4, 5, 6, 7}}

SomeQuotes == {Quote(3, 1, 4), Quote(3, Absent, Absent), Quote(3, 0, 3)}
SomeFlags == {TRUE, FALSE, Odd}
SomeRails ==
    {Named("LIGHTNING"), [form |-> "digits", of |-> "LIGHTNING"], Named("IN_ARK"),
     Named("UNSPECIFIED"), Named("elsewhere"), Absent}
SomeStatus == {Named("COMPLETE"), Named("LOCAL_ONLY"), [form |-> "number", of |-> "later"]}
SomeHashes == {Absent, Odd, Hash("h1"), [of |-> "h1", upper |-> TRUE], Hash("short")}
SomeCredits ==
    {Absent, Odd, [applied |-> 0, must |-> FALSE], [applied |-> 1, must |-> Absent],
     [applied |-> -1, must |-> Absent], [applied |-> Absent, must |-> TRUE],
     [applied |-> 0, must |-> Odd]}

\* The same amounts, known or not, by another rail or not settled.
Settlement(q, feeKnown, totalKnown, rail, status) ==
    [q EXCEPT !.feeKnown = feeKnown, !.totalKnown = totalKnown, !.rail = rail, !.status = status]

Settlements ==
    {Settlement(q, feeKnown, totalKnown, rail, status) :
        q \in SomeQuotes, feeKnown \in SomeFlags, totalKnown \in BOOLEAN, rail \in SomeRails, status \in SomeStatus}

\* The same amounts at another time, for another payment or out of a credit.
Circumstance(q, expires, hash, credit) ==
    [q EXCEPT !.expires = expires, !.hash = hash, !.credit = credit]

Circumstances ==
    {Circumstance(Quote(3, 1, 4), expires, hash, credit) :
        expires \in {Absent, 0} \cup 3 .. 7, hash \in SomeHashes, credit \in SomeCredits}

QuotesAsked == Amounts \cup Settlements \cup Circumstances

\* PrepareSend was answered.
AsksQuote ==
    \E body \in QuotesAsked, network \in Networks :
        subject = [kind |-> "quote", body |-> body, network |-> network]

Entry(kind, status, amount, fee, hashes, preimage) ==
    [kind |-> kind, status |-> status, amount |-> amount, fee |-> fee, preimage |-> preimage,
     progressHash |-> hashes[1], requestHash |-> hashes[2], id |-> hashes[3],
     failureCode |-> Absent]

HashesAsked ==
    {<<Hash("h1"), Absent, Absent>>, <<Absent, Absent, [of |-> "h1", upper |-> TRUE]>>,
     <<Hash("h2"), Hash("h1"), Hash("h1")>>, <<Absent, Absent, Odd>>}
KindsAsked == {Named("SEND"), Named("RECV"), [form |-> "digits", of |-> "SEND"]}
StatusAsked == {[form |-> "number", of |-> "PENDING"], Named("COMPLETE"), Named("FAILED")}
AmountsAsked == {Absent, Odd, -4, -3, 0, 3}
FeesAsked == {Absent, -1, 0, 1, 2}
PreimagesAsked == {Absent, "h1", "h2"}

Failure(code) ==
    [Entry(Named("SEND"), Named("FAILED"), -3, 0, <<Hash("h1"), Absent, Absent>>, Absent)
        EXCEPT !.failureCode = code]

PlainEntries ==
    {Entry(kind, status, amount, fee, hashes, preimage) :
        kind \in KindsAsked, status \in StatusAsked, amount \in AmountsAsked, fee \in FeesAsked,
        hashes \in HashesAsked, preimage \in PreimagesAsked}
FailedEntries == {Failure(code) : code \in {Named("REFUNDED"), Named("a later code"), Odd}}

ActivityEntries == PlainEntries \cup FailedEntries

ActivityAnswers ==
    {[kind |-> kind] : kind \in {"404", "no JSON", "HTTP error", "no answer"}}
    \cup {[kind |-> "entry", entry |-> entry] : entry \in ActivityEntries \cup {Odd}}

\* A quote was authorized and the payment is inspected.
AsksActivity ==
    \E body \in {Quote(3, 0, 3), Quote(3, 1, 4)}, answer \in ActivityAnswers :
        subject = [kind |-> "activity", body |-> body, answer |-> answer]

StatusBodies ==
    {[ready |-> ready, network |-> network, confirmed |-> confirmed, inbound |-> inbound,
      outbound |-> outbound, pendingCount |-> pending] :
        ready \in BOOLEAN, network \in {"mainnet", "signet", Odd}, confirmed \in {-1, 0, 5, 6},
        inbound \in {Absent, 0, -1}, outbound \in {Absent, 0}, pending \in {Absent, 0, Odd}}

ReadyInfo ==
    [network |-> "mainnet", version |-> "approved", walletState |-> Named("READY"),
     connected |-> TRUE, identity |-> "key", constraints |-> {0, 1}]

InfoBodies ==
    {ReadyInfo}
    \cup {[ReadyInfo EXCEPT !.network = network, !.version = version] :
            network \in {"mainnet", "signet", Absent}, version \in {"approved", "other", Absent}}
    \cup {[ReadyInfo EXCEPT !.walletState = state] : state \in {Named("LOCKED"), Odd}}
    \cup {[ReadyInfo EXCEPT !.constraints = amounts] : amounts \in {{-1, 1}, {Odd}}}

\* GetStatus and GetInfo were answered.
AsksStatus ==
    \E statusBody \in StatusBodies, infoBody \in InfoBodies, network \in Networks :
        subject = [kind |-> "status", statusBody |-> statusBody, infoBody |-> infoBody,
                   network |-> network]

-----------------------------------------------------------------------------
WavelengthInit ==
    /\ Init
    /\ subject = [kind |-> "payments"] \/ AsksQuote \/ AsksActivity \/ AsksStatus

WavelengthNext == subject.kind = "payments" /\ Next /\ UNCHANGED subject

WavelengthChecked == WavelengthInit /\ [][WavelengthNext]_<<vars, subject>>

-----------------------------------------------------------------------------
(* Properties of the judgements.                                           *)

Admission == Reading!preparePayment(subject.network, subject.body, Now, MinTtl)

QuoteIsWhole(body, network) ==
    LET stated == {body.amount, body.fee, body.total, body.expires} IN
    /\ stated \cap {Absent, Odd} = {} /\ {body.feeKnown, body.totalKnown} = {TRUE}
    /\ \A amount \in stated : amount \in 0 .. MaxSafeInteger
    /\ body.amount > 0 /\ body.amount + body.fee = body.total
    /\ body.expires - Now \in MinTtl .. MaxSafeInteger
    /\ body.hash \in [of : {"h1", "h2"}, upper : BOOLEAN]
    /\ body.credit # Odd
    /\ body.credit # Absent => /\ body.credit.must \in {FALSE, Absent}
                               /\ body.credit.applied \in {Absent} \cup -MaxSafeInteger .. 0
    /\ {body.rail, body.status} \cap {Absent, Odd} = {}
    /\ body.rail.of = "LIGHTNING" /\ body.status.of = "COMPLETE"
    /\ network = "mainnet" => body.amount <= 4 /\ body.fee <= 1 /\ body.total <= 4

\* Unknown state never becomes ALLOW (docs/WAVELENGTH_MAINNET.md).  A quote is
\* authorizable just when the daemon states all of it and it adds up, and on
\* mainnet no part of it is above SatScout's own ceilings; a wallet that is READY
\* is not READY once any of what it said is taken away, and on mainnet a network
\* that contradicts is denied whatever else is unknown (parsePreparedQuote,
\* admitPreparedQuote, parseWavelengthStatus and the readiness of the adapter).
UnknownNeverAllows ==
    /\ subject.kind = "quote" =>
          (Admission = "AUTHORIZABLE" <=> QuoteIsWhole(subject.body, subject.network))
    /\ subject.kind = "status" =>
          LET statusBody == subject.statusBody
              infoBody == subject.infoBody
              Ready(s, i) == Reading!Readiness(subject.network, s, i) = "READY"
          IN  /\ Ready(statusBody, infoBody) =>
                    /\ \A field \in {"ready", "network"} : ~Ready([statusBody EXCEPT ![field] = Absent], infoBody)
                    /\ subject.network = "mainnet" =>
                          /\ \A field \in {"confirmed", "inbound", "outbound"} :
                                ~Ready([statusBody EXCEPT ![field] = Absent], infoBody)
                          /\ \A field \in DOMAIN infoBody :
                                ~Ready(statusBody, [infoBody EXCEPT ![field] = Absent])
              /\ subject.network = "mainnet" /\ "signet" \in {statusBody.network, infoBody.network} =>
                    Reading!Readiness("mainnet", statusBody, infoBody) \in {"DENY", Refused}

Quoted(body) == Reading!ResolvedTransfer(Reading!parsePreparedQuote(body))

\* Quotes and activities are read by different code and agree.  A payment carried
\* out as it was quoted, or for a lower fee, is read back as a success, however
\* the daemon writes it, so that one that was authorized can always be settled;
\* and what is read as a success left the wallet, for the payment of the quote,
\* and took no more than the quoted total with it (admitPreparedQuote,
\* parseSanitizedWalletEntry and mapReconciliation; docs/WAVELENGTH_SIGNET.md,
\* "Lower actual fee/outflow ... may be accepted").
QuoteAndActivityAgree ==
    /\ subject.kind = "quote" /\ Admission = "AUTHORIZABLE" =>
          \A fee \in 0 .. subject.body.fee, kind \in [form : {"name", "number"}, of : {"SEND"}],
             preimage \in {Absent, subject.body.hash.of},
             hashes \in {<<subject.body.hash, Absent, Absent>>, <<Absent, Absent, subject.body.hash>>} :
              Reading!reconcile(Quoted(subject.body),
                  [kind |-> "entry",
                   entry |-> Entry(kind, Named("COMPLETE"), -subject.body.amount, fee, hashes, preimage)])
                      = "SUCCEEDED"
    /\ subject.kind = "activity" =>
          LET answer == subject.answer IN
          Reading!reconcile(Quoted(subject.body), answer) = "SUCCEEDED" =>
              /\ answer.kind = "entry"
              /\ -answer.entry.amount = subject.body.amount
              /\ -answer.entry.amount + answer.entry.fee <= subject.body.total
              /\ Reading!EntryHash(answer.entry).of = subject.body.hash.of

\* docs/WAVELENGTH_SIGNET.md, Recovery: after EXECUTING a malformed result
\* becomes AMBIGUOUS; so an answer that holds an entry that cannot be read would.
MalformedBecomesAmbiguous ==
    subject.kind = "activity" /\ subject.answer.kind = "entry" =>
        Reading!reconcile(Quoted(subject.body), subject.answer) # Refused

=============================================================================
