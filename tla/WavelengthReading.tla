---------------------------- MODULE WavelengthReading ----------------------------
(***************************************************************************)
(* What the Wavelength adapter makes of the daemon's answers: adapter.ts,  *)
(* quote.ts, status.ts, daemon-info.ts, wallet-entry.ts and proto-json.ts  *)
(* under src/src/integrations/wavelength.  Nothing here keeps state.       *)
(*                                                                         *)
(* A field of an answer is Absent (missing, null or empty), Odd (of a type *)
(* or text it may not have) or has a value: an integer, perhaps beyond the *)
(* safe ones; an enum [form, of], written as its name, its number or the   *)
(* digits of its number; a hash [of, upper] in either case of letters.     *)
(* Parsing that throws gives Refused.                                      *)
(***************************************************************************)
EXTENDS Integers

CONSTANTS
    Absent, Odd, Refused,
    MaxSafeInteger,
    Hashes,            \* the payment hashes that are 64 digits
    Safety             \* the ceilings SatScout sets itself on mainnet

-----------------------------------------------------------------------------
(* proto-json.ts                                                           *)

parseProtoInteger(field) ==
    IF field \in {Absent, Odd} \/ field \notin -MaxSafeInteger..MaxSafeInteger
    THEN Refused ELSE field

parseOptionalProtoInteger(field) ==
    IF field = Absent THEN Absent ELSE parseProtoInteger(field)

\* The name of a known number, and a known name; digits are taken for a name.
parseEnumNameOrNumber(field, names) ==
    IF field \notin {Absent, Odd} /\ field.form # "digits" /\ field.of \in names
    THEN field.of ELSE Refused

\* enumNameOrUnknown and the names it is normalized to, in quote.ts.
enumNameOrUnknown(field, names) ==
    IF field \notin {Absent, Odd} /\ field.of \in names THEN field.of ELSE "UNKNOWN"

\* A hash is compared in lower case.
lowerCase(hash) == IF hash = Absent THEN Absent ELSE hash.of

Negative(amount) == amount # Absent /\ amount < 0

-----------------------------------------------------------------------------
(* quote.ts                                                                *)

Rails == {"UNSPECIFIED", "OFFCHAIN_UNKNOWN", "IN_ARK", "LIGHTNING", "ONCHAIN", "CREDIT", "MIXED"}
QuoteStatus == {"UNSPECIFIED", "COMPLETE", "LOCAL_ONLY"}

\* parsePreparedQuote; expires is in the unit of the clock.
parsePreparedQuote(body) ==
    LET Amount(known, field) ==
            IF known = TRUE THEN parseProtoInteger(field) ELSE parseOptionalProtoInteger(field)
        principal == parseOptionalProtoInteger(body.amount)
        fee == Amount(body.feeKnown, body.fee)
        total == Amount(body.totalKnown, body.total)
        expires == parseOptionalProtoInteger(body.expires)
        applied == IF body.credit \in {Absent, Odd} THEN Absent
                   ELSE parseOptionalProtoInteger(body.credit.applied)
    IN  IF \/ {body.feeKnown, body.totalKnown} \cap {Absent, Odd} # {}
           \/ body.credit = Odd \/ (body.credit # Absent /\ body.credit.must = Odd)
           \/ Refused \in {principal, fee, total, expires, applied}
           \/ body.hash = Odd
           \/ \E amount \in {principal, fee, total} : Negative(amount)
           \/ expires # Absent /\ expires <= 0
        THEN Refused
        ELSE [status |-> enumNameOrUnknown(body.status, QuoteStatus),
              rail |-> enumNameOrUnknown(body.rail, Rails),
              feeKnown |-> body.feeKnown, totalKnown |-> body.totalKnown,
              principal |-> principal, fee |-> fee, totalOutflow |-> total,
              paymentHash |-> lowerCase(body.hash), expiresAt |-> expires,
              usesCredit |-> /\ body.credit # Absent
                             /\ body.credit.must = TRUE \/ (applied # Absent /\ applied > 0)]

\* What the daemon has not made out: a later quote may be another.
Unsettled(quote) ==
    \/ quote.status # "COMPLETE"
    \/ ~quote.feeKnown \/ ~quote.totalKnown
    \/ quote.rail \in {"OFFCHAIN_UNKNOWN", "UNSPECIFIED", "UNKNOWN"}

OverCeiling(quote) ==
    \/ quote.principal > Safety.maxPrincipal
    \/ quote.fee > Safety.maxFee
    \/ quote.totalOutflow > Safety.maxTotalOutflow

\* Faulty variant: a total below principal and fee is taken for a discount.
admitDiscounted(quote, adapterId, now, minTtl) ==
    IF /\ ~Unsettled(quote) /\ quote.rail = "LIGHTNING" /\ ~quote.usesCredit
       /\ quote.principal # Absent /\ quote.principal > 0
       /\ quote.totalOutflow \in quote.principal .. quote.principal + quote.fee
       /\ quote.paymentHash \in Hashes
       /\ quote.expiresAt # Absent /\ quote.expiresAt > now /\ quote.expiresAt - now >= minTtl
       /\ adapterId = "wavelength.mainnet" => ~OverCeiling(quote)
    THEN "AUTHORIZABLE" ELSE "DENY"

\* admitPreparedQuote, without the codes.  A total is a safe integer, so one that
\* equals principal and fee leaves their sum one.
admitPreparedQuote(quote, adapterId, now, minTtl) ==
    CASE Unsettled(quote) -> "INDETERMINATE"
      [] ~Unsettled(quote) /\ (quote.rail # "LIGHTNING" \/ quote.usesCredit) -> "DENY"
      [] OTHER ->
        IF quote.principal = Absent THEN "INDETERMINATE"
        ELSE IF quote.principal <= 0 \/ quote.totalOutflow # quote.principal + quote.fee THEN "DENY"
        ELSE IF quote.paymentHash = Absent THEN "INDETERMINATE"
        ELSE IF quote.paymentHash \notin Hashes THEN "DENY"
        ELSE IF quote.expiresAt = Absent THEN "INDETERMINATE"
        ELSE IF \/ quote.expiresAt - now < minTtl
                \/ quote.expiresAt <= now
                \/ adapterId = "wavelength.mainnet" /\ OverCeiling(quote) THEN "DENY"
        ELSE "AUTHORIZABLE"

\* The action an authorizable quote is resolved to.
ResolvedTransfer(quote) ==
    [principal |-> quote.principal, fee |-> quote.fee, totalOutflow |-> quote.totalOutflow,
     externalIdentity |-> quote.paymentHash]

-----------------------------------------------------------------------------
(* status.ts and daemon-info.ts                                            *)

WalletStates == {"UNSPECIFIED", "NONE", "LOCKED", "READY", "SYNCING"}

\* Faulty variant: what is coming in and going out may be missing.
parseConfirmedOnly(body) ==
    LET confirmed == parseOptionalProtoInteger(body.confirmed) IN
    IF body.ready \in {Absent, Odd} \/ body.network \in {Absent, Odd} \/ confirmed = Refused
    THEN Refused
    ELSE [ready |-> body.ready, network |-> body.network, balanceComplete |-> confirmed # Absent,
          amounts |-> {confirmed} \ {Absent}, confirmed |-> IF confirmed = Absent THEN 0 ELSE confirmed]

\* parseWavelengthStatus: an amount that is missing counts as 0, and the
\* balance as incomplete.
parseWavelengthStatus(body) ==
    LET confirmed == parseOptionalProtoInteger(body.confirmed)
        others == {parseOptionalProtoInteger(body.inbound), parseOptionalProtoInteger(body.outbound)}
        pending == parseOptionalProtoInteger(body.pendingCount)
    IN  IF \/ body.ready \in {Absent, Odd} \/ body.network \in {Absent, Odd}
           \/ Refused \in others \cup {confirmed, pending}
        THEN Refused
        ELSE [ready |-> body.ready, network |-> body.network,
              balanceComplete |-> Absent \notin others \cup {confirmed},
              amounts |-> (others \cup {confirmed, pending}) \ {Absent},
              confirmed |-> IF confirmed = Absent THEN 0 ELSE confirmed]

\* normalizeWalletState: digits are read as the number here.
normalizeWalletState(field) ==
    IF field \in {Absent, Odd} THEN Absent
    ELSE IF field.of \in WalletStates THEN field.of ELSE "UNKNOWN"

\* parseWavelengthDaemonInfo: a field it cannot read is missing.
parseWavelengthDaemonInfo(body) ==
    LET Read(field) == IF field = Odd THEN Absent ELSE field IN
    [network |-> Read(body.network), version |-> Read(body.version),
     walletState |-> normalizeWalletState(body.walletState), serverConnected |-> Read(body.connected),
     identityPubkey |-> Read(body.identity),
     constraints |-> IF body.constraints \in {Absent, Odd} THEN Absent
                     ELSE IF \A amount \in body.constraints :
                                parseProtoInteger(amount) # Refused /\ amount >= 0
                          THEN "valid" ELSE Absent]

mainnetVersionCompatibility(version) ==
    CASE version \in {Absent, "unparsable"} -> "UNKNOWN"
      [] version = "approved" -> "SUPPORTED"
      [] OTHER -> "UNSUPPORTED"

NonNegative(wallet) == \A amount \in wallet.amounts : amount >= 0

\* assertSignetReady
assertSignetReady(wallet) == wallet.network = "signet" /\ wallet.ready /\ NonNegative(wallet)

\* assessMainnetReadiness: what contradicts is denied, what is unknown is not.
assessMainnetReadiness(wallet, info) ==
    LET version == mainnetVersionCompatibility(info.version) IN
    CASE wallet.network # "mainnet" \/ info.network \notin {Absent, "mainnet"} -> "DENY"
      [] OTHER ->
        IF info.network = Absent \/ version = "UNKNOWN" THEN "INDETERMINATE"
        ELSE IF version = "UNSUPPORTED" THEN "DENY"
        ELSE IF \/ ~wallet.ready
                \/ info.walletState # "READY"
                \/ info.serverConnected # TRUE
                \/ info.identityPubkey \in {Absent, "malformed"}
                \/ info.constraints # "valid"
                \/ ~wallet.balanceComplete
                \/ ~NonNegative(wallet) THEN "INDETERMINATE"
        ELSE IF wallet.confirmed > Safety.maxWalletBalance THEN "DENY"
        ELSE "READY"

\* status(): on Signet whatever is not ready throws, and getInfo is not asked.
Readiness(network, statusBody, infoBody) ==
    LET wallet == parseWavelengthStatus(statusBody) IN
    IF wallet = Refused THEN Refused
    ELSE IF network = "mainnet" THEN assessMainnetReadiness(wallet, parseWavelengthDaemonInfo(infoBody))
    ELSE IF assertSignetReady(wallet) THEN "READY" ELSE Refused

\* preparePayment once the wallet is READY: what becomes of PrepareSend's
\* answer.
preparePayment(network, body, now, minTtl) ==
    LET quote == parsePreparedQuote(body)
        adapterId == IF network = "mainnet" THEN "wavelength.mainnet" ELSE "wavelength.signet" IN
    IF quote = Refused THEN Refused ELSE admitPreparedQuote(quote, adapterId, now, minTtl)

-----------------------------------------------------------------------------
(* wallet-entry.ts and the reconciliation in adapter.ts                    *)

EntryKinds == {"UNSPECIFIED", "SEND", "RECV", "DEPOSIT", "EXIT"}
EntryStatus == {"UNSPECIFIED", "PENDING", "COMPLETE", "FAILED"}
FailureCodes == {"UNSPECIFIED", "TIMED_OUT", "EXPIRED", "REFUNDED", "NEEDS_INTERVENTION", "FAILED"}

\* The hash an entry is about: the progress, else the request, else the id.
EntryHash(entry) ==
    CASE entry.progressHash # Absent -> entry.progressHash
      [] entry.progressHash = Absent /\ entry.requestHash # Absent -> entry.requestHash
      [] OTHER -> entry.id

\* MALFORMED_RESPONSE of parseSanitizedWalletEntry.
MalformedResponse(entry) ==
    entry = Odd \/ Odd \in {EntryHash(entry), entry.id, entry.preimage}

\* parseSanitizedWalletEntry; a preimage is known by what it hashes to.
parseSanitizedWalletEntry(entry) ==
    LET kind == parseEnumNameOrNumber(entry.kind, EntryKinds)
        status == parseEnumNameOrNumber(entry.status, EntryStatus)
        amount == parseOptionalProtoInteger(entry.amount)
        fee == parseOptionalProtoInteger(entry.fee)
        hash == lowerCase(EntryHash(entry))
        failure == IF entry.failureCode = Absent THEN Absent
                   ELSE parseEnumNameOrNumber(entry.failureCode, FailureCodes)
    IN  IF Refused \in {kind, status, amount, fee, failure} THEN Refused
        ELSE [kind |-> kind, status |-> status, signedAmountSat |-> amount, feeSat |-> fee,
              paymentHash |-> hash,
              preimageFits |-> entry.preimage = Absent \/ (hash # Absent /\ entry.preimage = hash)]

\* Faulty variant: a payment that came in counts as one that went out.
outgoingEither(signedAmountSat) ==
    IF signedAmountSat = Absent THEN Absent
    ELSE IF signedAmountSat > 0 THEN signedAmountSat ELSE -signedAmountSat

\* outgoingPrincipal: what went out has a negative amount.
outgoingPrincipal(signedAmountSat) ==
    IF signedAmountSat = Absent THEN Absent
    ELSE IF signedAmountSat > 0 THEN Absent ELSE -signedAmountSat

\* Faulty variant: any other fee than the one quoted is a mismatch.
mapExactFee(transfer, entry) ==
    CASE entry.status \in {"PENDING", "UNSPECIFIED"} -> "PENDING"
      [] entry.status = "FAILED" -> "AMBIGUOUS"
      [] OTHER ->
        IF /\ entry.kind = "SEND" /\ entry.paymentHash = transfer.externalIdentity
           /\ outgoingPrincipal(entry.signedAmountSat) = transfer.principal
           /\ entry.feeSat = transfer.fee /\ entry.preimageFits
        THEN "SUCCEEDED" ELSE "MISMATCH"

\* mapReconciliation; a MISMATCH is an AMBIGUOUS that says so.
mapReconciliation(transfer, entry) ==
    LET principal == outgoingPrincipal(entry.signedAmountSat) IN
    CASE entry.status \in {"PENDING", "UNSPECIFIED"} -> "PENDING"
      [] entry.status = "FAILED" -> "AMBIGUOUS"
      [] OTHER ->
        IF /\ entry.kind = "SEND"
           /\ entry.paymentHash = transfer.externalIdentity
           /\ principal # Absent /\ principal = transfer.principal
           /\ entry.feeSat # Absent /\ entry.feeSat <= transfer.fee
           /\ principal + entry.feeSat <= transfer.totalOutflow
           /\ entry.preimageFits
        THEN "SUCCEEDED" ELSE "MISMATCH"

\* reconcile: an answer is an entry, 404, no JSON, another refusal of HTTP or
\* none in time.  Only a Send is ambiguous to the client, so the last two
\* throw, as does an entry with an enum or a number that cannot be read.
reconcile(transfer, answer) ==
    CASE answer.kind \in {"404", "no JSON"} -> "AMBIGUOUS"
      [] answer.kind \in {"HTTP error", "no answer"} -> Refused
      [] answer.kind = "entry" ->
            IF MalformedResponse(answer.entry) THEN "AMBIGUOUS"
            ELSE LET entry == parseSanitizedWalletEntry(answer.entry) IN
                 IF entry = Refused THEN Refused ELSE mapReconciliation(transfer, entry)

=============================================================================
