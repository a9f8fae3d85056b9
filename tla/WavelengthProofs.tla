---------------------------- MODULE WavelengthProofs ----------------------------
(***************************************************************************)
(* What SatScout makes of the daemon's answers, for every answer: when a   *)
(* quote is authorized, when a wallet is taken for ready and when an       *)
(* activity is taken for the payment that was authorized; and from it the  *)
(* properties of MCWavelength of the answers that are enumerated there.    *)
(***************************************************************************)
EXTENDS MCWavelength, TLAPS

-----------------------------------------------------------------------------
(* The answers.                                                            *)

QuoteBodies ==
    [amount : Fields, feeKnown : Flags, fee : Fields, totalKnown : Flags, total : Fields,
     expires : Fields, hash : HashTexts \cup {Absent, Odd}, credit : Credits \cup {Absent, Odd},
     rail : Enums \cup {Absent, Odd}, status : Enums \cup {Absent, Odd}]

StatusAnswers ==
    [ready : Flags, network : Texts, confirmed : Fields, inbound : Fields, outbound : Fields,
     pendingCount : Fields]

InfoAnswers ==
    [network : Texts, version : Texts, walletState : Enums \cup {Absent, Odd}, connected : Flags,
     identity : Texts, constraints : (SUBSET Fields) \cup {Absent, Odd}]

\* The integers that are read as they stand.
SafeIntegers == -MaxSafeInteger .. MaxSafeInteger

-----------------------------------------------------------------------------
(* A field.                                                                *)

LEMMA Marks ==
    /\ Absent \notin Int /\ Odd \notin Int /\ Refused \notin Int
    /\ Absent \notin BOOLEAN /\ Odd \notin BOOLEAN /\ Refused \notin BOOLEAN
    /\ Absent \notin Words /\ Odd \notin Words /\ Refused \notin Words
    /\ Absent \notin Enums /\ Odd \notin Enums
    /\ Absent \notin HashTexts /\ Odd \notin HashTexts
    /\ Absent \notin Credits /\ Odd \notin Credits
    /\ Odd \notin EntryBodies /\ Refused \notin Quotes
    /\ Refused \notin Wallets /\ Refused \notin SanitizedEntries
    /\ Absent # Odd /\ Absent # Refused /\ Odd # Refused
  BY Zenon, ReadingAssumption DEF ReadingAssumption

LEMMA Texted ==
    /\ "UNKNOWN" \in Words /\ "COMPLETE" \in Words /\ "LIGHTNING" \in Words /\ "SEND" \in Words
    /\ "mainnet" \in Words /\ "signet" \in Words /\ "approved" \in Words /\ "h1" \in Words
    /\ "h2" \in Words /\ "short" \in Words /\ "key" \in Words /\ "other" \in Words
    /\ "IN_ARK" \in Words /\ "UNSPECIFIED" \in Words /\ "LOCAL_ONLY" \in Words /\ "LOCKED" \in Words
    /\ "READY" \in Words /\ "RECV" \in Words /\ "PENDING" \in Words /\ "FAILED" \in Words
    /\ "REFUNDED" \in Words /\ "elsewhere" \in Words /\ "later" \in Words /\ "a later code" \in Words
  BY DEF Words

LEMMA Meanings ==
    \A mark \in {Absent, Odd, Refused} :
        mark \notin {"UNKNOWN", "COMPLETE", "LIGHTNING", "SEND", "PENDING", "FAILED", "READY", "AUTHORIZABLE",
                    "INDETERMINATE", "DENY", "SUCCEEDED", "AMBIGUOUS", "MISMATCH", "mainnet", "signet",
                    "approved", "unparsable", "malformed", "valid", "h1", "h2"}
  BY Marks DEF Words

LEMMA IntegerRead ==
    ASSUME NEW field \in Fields
    PROVE  /\ field \in SafeIntegers => Reading!parseProtoInteger(field) = field
           /\ field \notin SafeIntegers => Reading!parseProtoInteger(field) = Refused
           /\ field = Absent => Reading!parseOptionalProtoInteger(field) = Absent
           /\ field \in SafeIntegers => Reading!parseOptionalProtoInteger(field) = field
           /\ field \notin SafeIntegers /\ field # Absent
                  => Reading!parseOptionalProtoInteger(field) = Refused
           /\ field \in SafeIntegers => field \in Int /\ field # Absent /\ field # Odd /\ field # Refused
<1>1. SafeIntegers \subseteq Int /\ MaxSafeInteger \in Int
  BY ReadingAssumption DEF SafeIntegers, ReadingAssumption
<1> QED
  BY <1>1, Marks DEF Fields, SafeIntegers, Reading!parseProtoInteger, Reading!parseOptionalProtoInteger

-----------------------------------------------------------------------------
(* Quotes.                                                                 *)

\* What parsePreparedQuote makes of a body it does not refuse.
ParsedQuote(body) ==
    [status |-> Reading!enumNameOrUnknown(body.status, Reading!QuoteStatus),
     rail |-> Reading!enumNameOrUnknown(body.rail, Reading!Rails),
     feeKnown |-> body.feeKnown, totalKnown |-> body.totalKnown,
     principal |-> body.amount, fee |-> body.fee, totalOutflow |-> body.total,
     paymentHash |-> Reading!lowerCase(body.hash), expiresAt |-> body.expires,
     usesCredit |-> /\ body.credit # Absent
                    /\ \/ body.credit.must = TRUE
                       \/ body.credit.applied # Absent /\ body.credit.applied > 0]

Optional == SafeIntegers \cup {Absent}

\* The bodies it does not refuse.
Readable(body) ==
    /\ {body.feeKnown, body.totalKnown} \subseteq BOOLEAN
    /\ {body.amount, body.fee, body.total, body.expires} \subseteq Optional
    /\ body.feeKnown => body.fee # Absent
    /\ body.totalKnown => body.total # Absent
    /\ \A amount \in {body.amount, body.fee, body.total} : amount = Absent \/ amount >= 0
    /\ body.expires = Absent \/ body.expires > 0
    /\ body.hash # Odd /\ body.credit # Odd
    /\ body.credit # Absent => body.credit.must # Odd /\ body.credit.applied \in Optional

LEMMA ParsedOptional ==
    ASSUME NEW field \in Fields
    PROVE  /\ Reading!parseOptionalProtoInteger(field)
                  = IF field \in Optional THEN field ELSE Refused
           /\ Reading!parseProtoInteger(field)
                  = IF field \in Optional /\ field # Absent THEN field ELSE Refused
           /\ Refused \notin Optional
           /\ field \in Optional /\ field # Absent => field \in Int
  BY IntegerRead, Marks DEF Optional, SafeIntegers

LEMMA QuoteParsed ==
    ASSUME NEW body \in QuoteBodies
    PROVE  Reading!parsePreparedQuote(body) = IF Readable(body) THEN ParsedQuote(body) ELSE Refused
<1> DEFINE Parsed(known, field) ==
        IF known = TRUE THEN Reading!parseProtoInteger(field)
        ELSE Reading!parseOptionalProtoInteger(field)
<1> DEFINE principal == Reading!parseOptionalProtoInteger(body.amount)
<1> DEFINE fee == Parsed(body.feeKnown, body.fee)
<1> DEFINE total == Parsed(body.totalKnown, body.total)
<1> DEFINE expires == Reading!parseOptionalProtoInteger(body.expires)
<1> DEFINE applied == IF body.credit \in {Absent, Odd} THEN Absent
                      ELSE Reading!parseOptionalProtoInteger(body.credit.applied)
<1> DEFINE refuses ==
        \/ {body.feeKnown, body.totalKnown} \cap {Absent, Odd} # {}
        \/ body.credit = Odd \/ (body.credit # Absent /\ body.credit.must = Odd)
        \/ Refused \in {principal, fee, total, expires, applied}
        \/ body.hash = Odd
        \/ \E amount \in {principal, fee, total} : Reading!Negative(amount)
        \/ expires # Absent /\ expires <= 0
<1> DEFINE quote ==
        [status |-> Reading!enumNameOrUnknown(body.status, Reading!QuoteStatus),
         rail |-> Reading!enumNameOrUnknown(body.rail, Reading!Rails),
         feeKnown |-> body.feeKnown, totalKnown |-> body.totalKnown,
         principal |-> principal, fee |-> fee, totalOutflow |-> total,
         paymentHash |-> Reading!lowerCase(body.hash), expiresAt |-> expires,
         usesCredit |-> /\ body.credit # Absent
                        /\ body.credit.must = TRUE \/ (applied # Absent /\ applied > 0)]
<1>1. Reading!parsePreparedQuote(body) = IF refuses THEN Refused ELSE quote
  BY Zenon DEF Reading!parsePreparedQuote
<1>2. /\ {body.amount, body.fee, body.total, body.expires} \subseteq Fields
      /\ {body.feeKnown, body.totalKnown} \subseteq BOOLEAN \cup {Absent, Odd}
      /\ body.credit \in Credits \cup {Absent, Odd}
  BY DEF QuoteBodies, Flags
<1>3. body.credit \notin {Absent, Odd} => body.credit.applied \in Fields
  BY <1>2 DEF Credits
<1>4. /\ principal = IF body.amount \in Optional THEN body.amount ELSE Refused
      /\ expires = IF body.expires \in Optional THEN body.expires ELSE Refused
      /\ fee = IF body.fee \in Optional /\ (body.feeKnown = TRUE => body.fee # Absent)
               THEN body.fee ELSE Refused
      /\ total = IF body.total \in Optional /\ (body.totalKnown = TRUE => body.total # Absent)
                 THEN body.total ELSE Refused
  BY <1>2, ParsedOptional
<1>5. body.credit \notin {Absent, Odd} =>
          applied = IF body.credit.applied \in Optional THEN body.credit.applied ELSE Refused
  BY <1>3, ParsedOptional
<1>6. Refused \notin Optional
  BY <1>2, ParsedOptional
<1>7. {body.feeKnown, body.totalKnown} \subseteq BOOLEAN
          <=> {body.feeKnown, body.totalKnown} \cap {Absent, Odd} = {}
  BY <1>2, Marks
<1>8. \A x \in Optional : x = Absent \/ x \in Int
  BY IntegerRead, ReadingAssumption DEF Optional, SafeIntegers, ReadingAssumption
<1> HIDE DEF principal, fee, total, expires, applied
<1>9. CASE Readable(body)
  <2>1. /\ principal = body.amount /\ fee = body.fee /\ total = body.total
        /\ expires = body.expires
        /\ body.credit \notin {Absent, Odd} => applied = body.credit.applied
    BY <1>9, <1>4, <1>5 DEF Readable
  <2>2. applied = Absent \/ applied \in Optional
    BY <1>9, <2>1 DEF applied, Readable
  <2>3. Refused \notin {principal, fee, total, expires, applied}
    BY <1>9, <1>6, <2>1, <2>2, Marks DEF Readable
  <2>4. /\ ~ \E amount \in {principal, fee, total} : Reading!Negative(amount)
        /\ ~ (expires # Absent /\ expires <= 0)
    BY <1>9, <1>8, <2>1 DEF Readable, Reading!Negative
  <2>5. ~ refuses
    BY <1>9, <1>7, <2>3, <2>4 DEF Readable
  <2>6. quote = ParsedQuote(body)
    <3>1. quote.usesCredit <=> ParsedQuote(body).usesCredit
      BY <1>9, <2>1 DEF ParsedQuote, Readable
    <3> QED
      BY <2>1, <3>1 DEF ParsedQuote
  <2> QED
    BY <1>1, <1>9, <2>5, <2>6
<1>10. ASSUME ~ refuses PROVE Readable(body)
  <2>1. /\ principal = body.amount /\ body.amount \in Optional
        /\ expires = body.expires /\ body.expires \in Optional
        /\ fee = body.fee /\ body.fee \in Optional /\ (body.feeKnown = TRUE => body.fee # Absent)
        /\ total = body.total /\ body.total \in Optional
        /\ (body.totalKnown = TRUE => body.total # Absent)
    BY <1>10, <1>4
  <2>2. body.credit # Absent => body.credit.must # Odd /\ body.credit.applied \in Optional
    BY <1>10, <1>5
  <2>3. /\ \A amount \in {body.amount, body.fee, body.total} : amount = Absent \/ amount >= 0
        /\ body.expires = Absent \/ body.expires > 0
    BY <1>10, <1>8, <2>1 DEF Reading!Negative
  <2> QED
    BY <1>10, <1>7, <2>1, <2>2, <2>3 DEF Readable
<1> QED
  BY <1>1, <1>9, <1>10

LEMMA ReadableIsNoRefusal ==
    ASSUME NEW body \in QuoteBodies, Readable(body)
    PROVE  /\ ParsedQuote(body) # Refused
           /\ body.rail \notin {Absent, Odd} => body.rail.of \in Words
           /\ body.status \notin {Absent, Odd} => body.status.of \in Words
           /\ body.hash # Absent => body.hash \in HashTexts
<1>1. /\ {body.amount, body.fee, body.total, body.expires} \subseteq ReadAmounts
      /\ {body.feeKnown, body.totalKnown} \subseteq BOOLEAN
  BY IntegerRead, ReadingAssumption
  DEF Readable, Optional, SafeIntegers, ReadAmounts, ReadingAssumption
<1>2. /\ body.rail \notin {Absent, Odd} => body.rail.of \in Words
      /\ body.status \notin {Absent, Odd} => body.status.of \in Words
  BY DEF QuoteBodies, Enums
<1>3. body.hash # Absent => body.hash \in HashTexts /\ body.hash.of \in Words
  BY DEF QuoteBodies, HashTexts, Readable
<1>4. /\ Reading!enumNameOrUnknown(body.status, Reading!QuoteStatus) \in Words
      /\ Reading!enumNameOrUnknown(body.rail, Reading!Rails) \in Words
      /\ Reading!lowerCase(body.hash) \in Words \cup {Absent}
  BY <1>2, <1>3, Texted DEF Reading!enumNameOrUnknown, Reading!lowerCase
<1>5. ParsedQuote(body) \in Quotes
  BY <1>1, <1>4 DEF ParsedQuote, Quotes
<1> QED
  BY <1>2, <1>3, <1>5, Marks

LEMMA NamesRead ==
    ASSUME NEW body \in QuoteBodies
    PROVE  /\ Reading!enumNameOrUnknown(body.status, Reading!QuoteStatus) = "COMPLETE"
                  <=> body.status \notin {Absent, Odd} /\ body.status.of = "COMPLETE"
           /\ Reading!enumNameOrUnknown(body.rail, Reading!Rails) = "LIGHTNING"
                  <=> body.rail \notin {Absent, Odd} /\ body.rail.of = "LIGHTNING"
  BY DEF Reading!enumNameOrUnknown, Reading!QuoteStatus, Reading!Rails

\* A quote is authorized just when the daemon states all of it, it adds up, it is
\* paid over Lightning with nothing but the wallet's balance, its intent lives
\* long enough and, on mainnet, no part of it is above SatScout's own ceilings
\* (parsePreparedQuote, admitPreparedQuote).
THEOREM AuthorizedJustWhenWhole ==
    ASSUME NEW body \in QuoteBodies, NEW network
    PROVE  Reading!preparePayment(network, body, Now, MinTtl) = "AUTHORIZABLE"
               <=> QuoteIsWhole(body, network)
<1> DEFINE quote == ParsedQuote(body)
<1> DEFINE adapterId == IF network = "mainnet" THEN "wavelength.mainnet" ELSE "wavelength.signet"
<1> DEFINE admitted ==
        /\ ~ Reading!Unsettled(quote) /\ quote.rail = "LIGHTNING" /\ ~ quote.usesCredit
        /\ quote.principal # Absent /\ quote.principal > 0
        /\ quote.totalOutflow = quote.principal + quote.fee
        /\ quote.paymentHash # Absent /\ quote.paymentHash \in {"h1", "h2"}
        /\ quote.expiresAt # Absent /\ quote.expiresAt > Now /\ quote.expiresAt - Now >= MinTtl
        /\ network = "mainnet" => ~ Reading!OverCeiling(quote)
<1>1. Reading!preparePayment(network, body, Now, MinTtl)
          = IF Readable(body) THEN Reading!admitPreparedQuote(quote, adapterId, Now, MinTtl) ELSE Refused
  BY QuoteParsed, ReadableIsNoRefusal DEF Reading!preparePayment
<1>2. Refused # "AUTHORIZABLE"
  BY Meanings
<1>3. /\ quote.principal = body.amount /\ quote.fee = body.fee /\ quote.totalOutflow = body.total
      /\ quote.expiresAt = body.expires /\ quote.paymentHash = Reading!lowerCase(body.hash)
      /\ quote.feeKnown = body.feeKnown /\ quote.totalKnown = body.totalKnown
      /\ quote.usesCredit = (/\ body.credit # Absent
                            /\ \/ body.credit.must = TRUE
                               \/ body.credit.applied # Absent /\ body.credit.applied > 0)
      /\ quote.status = Reading!enumNameOrUnknown(body.status, Reading!QuoteStatus)
      /\ quote.rail = Reading!enumNameOrUnknown(body.rail, Reading!Rails)
  BY DEF ParsedQuote
<1> HIDE DEF quote
<1>4. ASSUME Readable(body)
      PROVE  Reading!admitPreparedQuote(quote, adapterId, Now, MinTtl) = "AUTHORIZABLE" <=> admitted
  <2>1. body.expires = Absent \/ body.expires \in Int
    BY <1>4, ReadingAssumption DEF Readable, Optional, SafeIntegers, ReadingAssumption
  <2>2. body.amount = Absent \/ body.amount \in Int
    BY <1>4, ReadingAssumption DEF Readable, Optional, SafeIntegers, ReadingAssumption
  <2>3. adapterId = "wavelength.mainnet" <=> network = "mainnet"
    OBVIOUS
  <2> HIDE DEF adapterId
  <2> QED
    BY <1>3, <2>1, <2>2, <2>3 DEF Reading!admitPreparedQuote, Now, MinTtl
<1>5. ASSUME Readable(body), admitted PROVE QuoteIsWhole(body, network)
  <2>1. /\ body.feeKnown = TRUE /\ body.totalKnown = TRUE
        /\ {body.rail, body.status} \cap {Absent, Odd} = {}
        /\ body.rail.of = "LIGHTNING" /\ body.status.of = "COMPLETE"
    BY <1>3, <1>5, NamesRead DEF Reading!Unsettled, Readable
  <2>2. /\ {body.amount, body.fee, body.total, body.expires} \subseteq SafeIntegers
        /\ \A amount \in {body.amount, body.fee, body.total} : amount >= 0
    BY <1>3, <1>5, <2>1, Marks DEF Readable, Optional
  <2>3. {body.amount, body.fee, body.total, body.expires} \subseteq 0 .. MaxSafeInteger
    BY <1>3, <1>5, <2>2, ReadingAssumption DEF SafeIntegers, ReadingAssumption, Now
  <2>4. {body.amount, body.fee, body.total, body.expires} \cap {Absent, Odd} = {}
    BY <2>3, Marks
  <2>5. body.hash \in [of : {"h1", "h2"}, upper : BOOLEAN]
    BY <1>3, <1>5, ReadableIsNoRefusal DEF Reading!lowerCase, HashTexts
  <2>6. body.credit # Odd /\ (body.credit # Absent =>
            /\ body.credit.must \in {FALSE, Absent}
            /\ body.credit.applied \in {Absent} \cup -MaxSafeInteger .. 0)
    <3>1. body.credit # Odd
      BY <1>5 DEF Readable
    <3>2. ASSUME body.credit # Absent
          PROVE  /\ body.credit.must \in {FALSE, Absent}
                 /\ body.credit.applied \in {Absent} \cup -MaxSafeInteger .. 0
      <4>1. body.credit \in Credits
        BY <3>1, <3>2 DEF QuoteBodies
      <4>2. body.credit.must # TRUE /\ body.credit.must # Odd
        BY <1>3, <1>5, <3>2 DEF Readable
      <4>3. body.credit.applied = Absent \/ ~ body.credit.applied > 0
        BY <1>3, <1>5, <3>2 DEF Readable
      <4>4. body.credit.applied = Absent \/ body.credit.applied \in SafeIntegers
        BY <1>5, <3>2 DEF Readable, Optional
      <4> QED
        BY <4>1, <4>2, <4>3, <4>4, ReadingAssumption
        DEF Credits, Flags, SafeIntegers, ReadingAssumption
    <3> QED
      BY <3>1, <3>2
  <2>7. body.amount > 0 /\ body.amount + body.fee = body.total
    BY <1>3, <1>5
  <2>8. body.expires - Now \in MinTtl .. MaxSafeInteger
    BY <1>3, <1>5, <2>3, ReadingAssumption DEF ReadingAssumption, Now, MinTtl
  <2>9. network = "mainnet" => body.amount <= 4 /\ body.fee <= 1 /\ body.total <= 4
    BY <1>3, <1>5, <2>3, ReadingAssumption
    DEF Reading!OverCeiling, SafetyCeilings, ReadingAssumption
  <2> QED
    BY <2>1, <2>3, <2>4, <2>5, <2>6, <2>7, <2>8, <2>9 DEF QuoteIsWhole
<1>6. ASSUME QuoteIsWhole(body, network) PROVE Readable(body) /\ admitted
  <2>1. /\ {body.amount, body.fee, body.total, body.expires} \subseteq 0 .. MaxSafeInteger
        /\ body.feeKnown = TRUE /\ body.totalKnown = TRUE
        /\ body.amount > 0 /\ body.amount + body.fee = body.total
        /\ body.expires - Now \in MinTtl .. MaxSafeInteger
        /\ body.hash \in [of : {"h1", "h2"}, upper : BOOLEAN]
        /\ {body.amount, body.fee, body.total, body.expires} \cap {Absent, Odd} = {}
        /\ body.credit # Odd /\ (body.credit # Absent =>
              /\ body.credit.must \in {FALSE, Absent}
              /\ body.credit.applied \in {Absent} \cup -MaxSafeInteger .. 0)
        /\ {body.rail, body.status} \cap {Absent, Odd} = {}
        /\ body.rail.of = "LIGHTNING" /\ body.status.of = "COMPLETE"
        /\ network = "mainnet" => body.amount <= 4 /\ body.fee <= 1 /\ body.total <= 4
    BY <1>6 DEF QuoteIsWhole
  <2>2. {body.amount, body.fee, body.total, body.expires} \subseteq SafeIntegers
    BY <2>1, ReadingAssumption DEF SafeIntegers, ReadingAssumption
  <2>3. /\ body.hash \in HashTexts /\ body.hash # Odd /\ body.hash # Absent
        /\ body.hash.of \in {"h1", "h2"} /\ body.hash.of # Absent
    <3>1. body.hash \in HashTexts /\ body.hash.of \in {"h1", "h2"}
      BY <2>1, Texted DEF HashTexts
    <3> QED
      BY <3>1, Marks, Meanings
  <2>4. body.credit # Absent => /\ body.credit.must # Odd /\ body.credit.must # TRUE
                                /\ body.credit.applied \in Optional
                                /\ body.credit.applied = Absent \/ ~ body.credit.applied > 0
    <3> SUFFICES ASSUME body.credit # Absent
                 PROVE  /\ body.credit.must # Odd /\ body.credit.must # TRUE
                        /\ body.credit.applied \in Optional
                        /\ body.credit.applied = Absent \/ ~ body.credit.applied > 0
      OBVIOUS
    <3>1. Absent # TRUE /\ Odd # FALSE /\ Odd # Absent
      BY Marks
    <3>2. body.credit.must = FALSE \/ body.credit.must = Absent
      BY <2>1
    <3>3. body.credit.must # Odd /\ body.credit.must # TRUE
      BY Zenon, <3>1, <3>2
    <3>4. body.credit.applied = Absent \/ body.credit.applied \in -MaxSafeInteger .. 0
      BY <2>1
    <3> QED
      BY <3>3, <3>4, ReadingAssumption DEF Optional, SafeIntegers, ReadingAssumption
  <2>5. Readable(body)
    <3>1. \A amount \in {body.amount, body.fee, body.total} : amount >= 0
      BY <2>1, ReadingAssumption DEF ReadingAssumption
    <3>2. body.expires > 0
      BY <2>1, ReadingAssumption DEF ReadingAssumption, Now, MinTtl
    <3> QED
      BY <2>1, <2>2, <2>3, <2>4, <3>1, <3>2 DEF Readable, Optional
  <2>6. ~ Reading!Unsettled(quote) /\ quote.rail = "LIGHTNING"
    BY <1>3, <2>1, NamesRead DEF Reading!Unsettled
  <2>7. ~ quote.usesCredit
    BY <1>3, <2>4
  <2>8. quote.paymentHash # Absent /\ quote.paymentHash \in {"h1", "h2"}
    BY <1>3, <2>3 DEF Reading!lowerCase
  <2>9. /\ quote.expiresAt # Absent /\ quote.expiresAt > Now /\ quote.expiresAt - Now >= MinTtl
        /\ quote.principal # Absent /\ quote.principal > 0
        /\ quote.totalOutflow = quote.principal + quote.fee
    BY <1>3, <2>1, ReadingAssumption DEF ReadingAssumption, Now, MinTtl
  <2>10. network = "mainnet" => ~ Reading!OverCeiling(quote)
    BY <1>3, <2>1, ReadingAssumption DEF Reading!OverCeiling, SafetyCeilings, ReadingAssumption
  <2> QED
    BY <2>5, <2>6, <2>7, <2>8, <2>9, <2>10
<1> HIDE DEF admitted
<1> QED
  BY <1>1, <1>2, <1>4, <1>5, <1>6

-----------------------------------------------------------------------------
(* Readiness.                                                              *)

ReadableStatus(body) ==
    /\ body.ready \in BOOLEAN /\ body.network \in Words
    /\ {body.confirmed, body.inbound, body.outbound, body.pendingCount} \subseteq Optional

ParsedStatus(body) ==
    [ready |-> body.ready, network |-> body.network,
     balanceComplete |-> Absent \notin {body.confirmed, body.inbound, body.outbound},
     amounts |-> {body.confirmed, body.inbound, body.outbound, body.pendingCount} \ {Absent},
     confirmed |-> IF body.confirmed = Absent THEN 0 ELSE body.confirmed]

LEMMA OptionalIsAmount ==
    \A x \in Optional : x = Absent \/ (x \in Int /\ x # Absent)
  BY Marks, ReadingAssumption DEF Optional, SafeIntegers, ReadingAssumption

LEMMA StatusParsed ==
    ASSUME NEW body \in StatusAnswers
    PROVE  Reading!parseWavelengthStatus(body) = IF ReadableStatus(body) THEN ParsedStatus(body) ELSE Refused
<1> DEFINE confirmed == Reading!parseOptionalProtoInteger(body.confirmed)
<1> DEFINE inbound == Reading!parseOptionalProtoInteger(body.inbound)
<1> DEFINE outbound == Reading!parseOptionalProtoInteger(body.outbound)
<1> DEFINE pending == Reading!parseOptionalProtoInteger(body.pendingCount)
<1> DEFINE refuses ==
        \/ body.ready \in {Absent, Odd} \/ body.network \in {Absent, Odd}
        \/ Refused \in {inbound, outbound} \cup {confirmed, pending}
<1> DEFINE wallet ==
        [ready |-> body.ready, network |-> body.network,
         balanceComplete |-> Absent \notin {inbound, outbound} \cup {confirmed},
         amounts |-> ({inbound, outbound} \cup {confirmed, pending}) \ {Absent},
         confirmed |-> IF confirmed = Absent THEN 0 ELSE confirmed]
<1>1. Reading!parseWavelengthStatus(body) = IF refuses THEN Refused ELSE wallet
  BY Zenon DEF Reading!parseWavelengthStatus
<1>2. /\ {body.confirmed, body.inbound, body.outbound, body.pendingCount} \subseteq Fields
      /\ body.ready \in BOOLEAN \cup {Absent, Odd} /\ body.network \in Words \cup {Absent, Odd}
  BY DEF StatusAnswers, Flags, Texts
<1>3. /\ confirmed = IF body.confirmed \in Optional THEN body.confirmed ELSE Refused
      /\ inbound = IF body.inbound \in Optional THEN body.inbound ELSE Refused
      /\ outbound = IF body.outbound \in Optional THEN body.outbound ELSE Refused
      /\ pending = IF body.pendingCount \in Optional THEN body.pendingCount ELSE Refused
      /\ Refused \notin Optional
  BY <1>2, ParsedOptional
<1>4. /\ body.ready \in BOOLEAN <=> body.ready \notin {Absent, Odd}
      /\ body.network \in Words <=> body.network \notin {Absent, Odd}
  BY Zenon, <1>2, Marks
<1> HIDE DEF confirmed, inbound, outbound, pending
<1>5. refuses <=> ~ ReadableStatus(body)
  BY <1>3, <1>4 DEF ReadableStatus
<1>6. ASSUME ReadableStatus(body) PROVE wallet = ParsedStatus(body)
  <2>1. confirmed = body.confirmed /\ inbound = body.inbound /\ outbound = body.outbound
        /\ pending = body.pendingCount
    BY <1>3, <1>6 DEF ReadableStatus
  <2>2. /\ {inbound, outbound} \cup {confirmed} = {body.confirmed, body.inbound, body.outbound}
        /\ {inbound, outbound} \cup {confirmed, pending}
               = {body.confirmed, body.inbound, body.outbound, body.pendingCount}
    BY <2>1
  <2> QED
    BY <2>1, <2>2 DEF ParsedStatus
<1> QED
  BY <1>1, <1>5, <1>6

LEMMA ReadableStatusIsNoRefusal ==
    ASSUME NEW body \in StatusAnswers, ReadableStatus(body)
    PROVE  ParsedStatus(body) # Refused
<1>1. {body.confirmed, body.inbound, body.outbound, body.pendingCount} \ {Absent} \in SUBSET Int
  BY OptionalIsAmount DEF ReadableStatus
<1>2. (IF body.confirmed = Absent THEN 0 ELSE body.confirmed) \in Int
  BY OptionalIsAmount DEF ReadableStatus
<1>3. ParsedStatus(body) \in Wallets
  BY <1>1, <1>2 DEF ParsedStatus, Wallets, ReadableStatus
<1> QED
  BY <1>3, Marks

LEMMA InfoParsed ==
    ASSUME NEW body \in InfoAnswers
    PROVE  LET info == Reading!parseWavelengthDaemonInfo(body) IN
           /\ info.network = "mainnet" <=> body.network = "mainnet"
           /\ info.network = "signet" <=> body.network = "signet"
           /\ Reading!mainnetVersionCompatibility(info.version) = "SUPPORTED" <=> body.version = "approved"
           /\ info.walletState = "READY"
                  <=> body.walletState \notin {Absent, Odd} /\ body.walletState.of = "READY"
           /\ info.serverConnected = TRUE <=> body.connected = TRUE
           /\ info.identityPubkey \in {Absent, "malformed"} <=> body.identity \in {Absent, Odd, "malformed"}
           /\ info.constraints = "valid"
                  <=> body.constraints \notin {Absent, Odd}
                      /\ \A amount \in body.constraints : amount \in 0 .. MaxSafeInteger
<1> DEFINE info == Reading!parseWavelengthDaemonInfo(body)
<1> DEFINE Read(field) == IF field = Odd THEN Absent ELSE field
<1> DEFINE valid == \A amount \in body.constraints :
                        Reading!parseProtoInteger(amount) # Refused /\ amount >= 0
<1>1. /\ info.network = Read(body.network) /\ info.version = Read(body.version)
      /\ info.walletState = Reading!normalizeWalletState(body.walletState)
      /\ info.serverConnected = Read(body.connected) /\ info.identityPubkey = Read(body.identity)
      /\ info.constraints = IF body.constraints \in {Absent, Odd} THEN Absent
                            ELSE IF valid THEN "valid" ELSE Absent
  BY DEF Reading!parseWavelengthDaemonInfo
<1> HIDE DEF info
<1>2. /\ info.network = "mainnet" <=> body.network = "mainnet"
      /\ info.network = "signet" <=> body.network = "signet"
      /\ info.identityPubkey \in {Absent, "malformed"} <=> body.identity \in {Absent, Odd, "malformed"}
  BY <1>1, Meanings
<1>3. Reading!mainnetVersionCompatibility(info.version) = "SUPPORTED" <=> body.version = "approved"
  BY <1>1, Meanings DEF Reading!mainnetVersionCompatibility
<1>4. info.walletState = "READY"
          <=> body.walletState \notin {Absent, Odd} /\ body.walletState.of = "READY"
  BY <1>1, Meanings DEF Reading!normalizeWalletState, Reading!WalletStates
<1>5. info.serverConnected = TRUE <=> body.connected = TRUE
  BY Zenon, <1>1, Marks
<1>6. info.constraints = "valid" <=> body.constraints \notin {Absent, Odd} /\ valid
  BY <1>1, Meanings
<1>7. ASSUME body.constraints \notin {Absent, Odd}
      PROVE  valid <=> \A amount \in body.constraints : amount \in 0 .. MaxSafeInteger
  <2>1. body.constraints \subseteq Fields
    BY <1>7 DEF InfoAnswers
  <2>2. \A amount \in body.constraints :
            Reading!parseProtoInteger(amount) # Refused <=> amount \in SafeIntegers
    BY <2>1, IntegerRead
  <2>3. \A amount \in SafeIntegers : amount >= 0 <=> amount \in 0 .. MaxSafeInteger
    BY ReadingAssumption DEF SafeIntegers, ReadingAssumption
  <2>4. 0 .. MaxSafeInteger \subseteq SafeIntegers
    BY ReadingAssumption DEF SafeIntegers, ReadingAssumption
  <2> QED
    BY <2>2, <2>3, <2>4
<1> HIDE DEF valid
<1> QED
  BY <1>2, <1>3, <1>4, <1>5, <1>6, <1>7 DEF info

\* What a wallet on mainnet and its daemon must have said.
WalletIsWhole(statusBody, infoBody) ==
    /\ statusBody.ready = TRUE /\ statusBody.network = "mainnet" /\ infoBody.network = "mainnet"
    /\ {statusBody.confirmed, statusBody.inbound, statusBody.outbound} \subseteq 0 .. MaxSafeInteger
    /\ statusBody.pendingCount \in {Absent} \cup 0 .. MaxSafeInteger
    /\ statusBody.confirmed <= SafetyCeilings.maxWalletBalance
    /\ infoBody.version = "approved" /\ infoBody.connected = TRUE
    /\ infoBody.walletState \notin {Absent, Odd} /\ infoBody.walletState.of = "READY"
    /\ infoBody.identity \notin {Absent, Odd, "malformed"}
    /\ infoBody.constraints \notin {Absent, Odd}
    /\ \A amount \in infoBody.constraints : amount \in 0 .. MaxSafeInteger

\* On mainnet a wallet is READY just when the wallet and the daemon have said all
\* there is to say, and nothing that contradicts (parseWavelengthStatus,
\* parseWavelengthDaemonInfo, assessMainnetReadiness).
THEOREM ReadyJustWhenWhole ==
    ASSUME NEW statusBody \in StatusAnswers, NEW infoBody \in InfoAnswers
    PROVE  Reading!Readiness("mainnet", statusBody, infoBody) = "READY"
               <=> WalletIsWhole(statusBody, infoBody)
<1> DEFINE wallet == ParsedStatus(statusBody)
<1> DEFINE info == Reading!parseWavelengthDaemonInfo(infoBody)
<1> DEFINE version == Reading!mainnetVersionCompatibility(info.version)
<1> DEFINE infoWhole ==
        /\ info.network = "mainnet" /\ version = "SUPPORTED" /\ info.walletState = "READY"
        /\ info.serverConnected = TRUE /\ info.identityPubkey \notin {Absent, "malformed"}
        /\ info.constraints = "valid"
<1> DEFINE walletWhole ==
        /\ wallet.network = "mainnet" /\ wallet.ready /\ wallet.balanceComplete
        /\ Reading!NonNegative(wallet)
        /\ ~ wallet.confirmed > SafetyCeilings.maxWalletBalance
<1>1. Reading!Readiness("mainnet", statusBody, infoBody)
          = IF ReadableStatus(statusBody) THEN Reading!assessMainnetReadiness(wallet, info) ELSE Refused
  BY StatusParsed, ReadableStatusIsNoRefusal DEF Reading!Readiness
<1>2. Refused # "READY" /\ Absent # "mainnet"
  BY Meanings
<1>3. version \in {"UNKNOWN", "SUPPORTED", "UNSUPPORTED"}
  BY DEF Reading!mainnetVersionCompatibility
<1>4. Reading!assessMainnetReadiness(wallet, info) = "READY" <=> infoWhole /\ walletWhole
  <2> HIDE DEF wallet, info
  <2>1. Reading!assessMainnetReadiness(wallet, info)
            = IF wallet.network # "mainnet" \/ info.network \notin {Absent, "mainnet"} THEN "DENY"
              ELSE IF info.network = Absent \/ version = "UNKNOWN" THEN "INDETERMINATE"
              ELSE IF version = "UNSUPPORTED" THEN "DENY"
              ELSE IF \/ ~wallet.ready
                      \/ info.walletState # "READY"
                      \/ info.serverConnected # TRUE
                      \/ info.identityPubkey \in {Absent, "malformed"}
                      \/ info.constraints # "valid"
                      \/ ~wallet.balanceComplete
                      \/ ~ Reading!NonNegative(wallet) THEN "INDETERMINATE"
              ELSE IF wallet.confirmed > SafetyCeilings.maxWalletBalance THEN "DENY"
              ELSE "READY"
    BY DEF Reading!assessMainnetReadiness
  <2> HIDE DEF version
  <2> QED
    BY <1>2, <1>3, <2>1
<1>5. infoWhole
          <=> /\ infoBody.network = "mainnet" /\ infoBody.version = "approved"
              /\ infoBody.walletState \notin {Absent, Odd} /\ infoBody.walletState.of = "READY"
              /\ infoBody.connected = TRUE /\ infoBody.identity \notin {Absent, Odd, "malformed"}
              /\ infoBody.constraints \notin {Absent, Odd}
              /\ \A amount \in infoBody.constraints : amount \in 0 .. MaxSafeInteger
  BY Zenon, InfoParsed
<1>6. ReadableStatus(statusBody) /\ walletWhole
          <=> /\ statusBody.ready = TRUE /\ statusBody.network = "mainnet"
              /\ {statusBody.confirmed, statusBody.inbound, statusBody.outbound}
                     \subseteq 0 .. MaxSafeInteger
              /\ statusBody.pendingCount \in {Absent} \cup 0 .. MaxSafeInteger
              /\ statusBody.confirmed <= SafetyCeilings.maxWalletBalance
  <2>1. /\ wallet.ready = statusBody.ready /\ wallet.network = statusBody.network
        /\ wallet.balanceComplete
               = (Absent \notin {statusBody.confirmed, statusBody.inbound, statusBody.outbound})
        /\ wallet.amounts = {statusBody.confirmed, statusBody.inbound, statusBody.outbound,
                             statusBody.pendingCount} \ {Absent}
        /\ wallet.confirmed = IF statusBody.confirmed = Absent THEN 0 ELSE statusBody.confirmed
    BY DEF ParsedStatus
  <2> HIDE DEF wallet
  <2>2. \A x : x \in 0 .. MaxSafeInteger <=> x \in Optional /\ x # Absent /\ x >= 0
    BY OptionalIsAmount, Marks, ReadingAssumption DEF Optional, SafeIntegers, ReadingAssumption
  <2>3. SafetyCeilings.maxWalletBalance \in Int
    BY DEF SafetyCeilings
  <2>4. ASSUME ReadableStatus(statusBody), walletWhole
        PROVE  /\ statusBody.ready = TRUE /\ statusBody.network = "mainnet"
               /\ {statusBody.confirmed, statusBody.inbound, statusBody.outbound}
                      \subseteq 0 .. MaxSafeInteger
               /\ statusBody.pendingCount \in {Absent} \cup 0 .. MaxSafeInteger
               /\ statusBody.confirmed <= SafetyCeilings.maxWalletBalance
    <3>1. statusBody.ready = TRUE
      BY <2>1, <2>4 DEF ReadableStatus
    <3>2. Absent \notin {statusBody.confirmed, statusBody.inbound, statusBody.outbound}
      BY <2>1, <2>4
    <3>3. \A x \in {statusBody.confirmed, statusBody.inbound, statusBody.outbound,
                    statusBody.pendingCount} \ {Absent} : x >= 0
      BY <2>1, <2>4 DEF Reading!NonNegative
    <3>4. {statusBody.confirmed, statusBody.inbound, statusBody.outbound} \subseteq 0 .. MaxSafeInteger
      BY <2>2, <2>4, <3>2, <3>3 DEF ReadableStatus
    <3>5. statusBody.pendingCount \in {Absent} \cup 0 .. MaxSafeInteger
      BY <2>2, <2>4, <3>3 DEF ReadableStatus
    <3>6. statusBody.confirmed \in Int
      BY <3>4, ReadingAssumption DEF ReadingAssumption
    <3> QED
      BY <2>1, <2>3, <2>4, <3>1, <3>2, <3>4, <3>5, <3>6
  <2>5. ASSUME statusBody.ready = TRUE, statusBody.network = "mainnet",
               {statusBody.confirmed, statusBody.inbound, statusBody.outbound}
                   \subseteq 0 .. MaxSafeInteger,
               statusBody.pendingCount \in {Absent} \cup 0 .. MaxSafeInteger,
               statusBody.confirmed <= SafetyCeilings.maxWalletBalance
        PROVE  ReadableStatus(statusBody) /\ walletWhole
    <3>1. ReadableStatus(statusBody)
      BY <2>2, <2>5, Texted DEF ReadableStatus, Optional
    <3>2. Absent \notin {statusBody.confirmed, statusBody.inbound, statusBody.outbound}
      BY <2>2, <2>5
    <3>3. Reading!NonNegative(wallet)
      BY <2>1, <2>2, <2>5 DEF Reading!NonNegative
    <3>4. statusBody.confirmed \in Int
      BY <2>5, ReadingAssumption DEF ReadingAssumption
    <3>5. wallet.confirmed = statusBody.confirmed
      BY <2>1, <3>2
    <3>6. ~ wallet.confirmed > SafetyCeilings.maxWalletBalance
      BY <2>3, <2>5, <3>4, <3>5
    <3>7. wallet.ready /\ wallet.balanceComplete
      BY <2>1, <2>5, <3>2
    <3>8. wallet.network = "mainnet"
      BY <2>1, <2>5
    <3> QED
      BY Zenon, <3>1, <3>3, <3>6, <3>7, <3>8
  <2> QED
    BY Zenon, <2>4, <2>5
<1> HIDE DEF infoWhole, walletWhole
<1>7. WalletIsWhole(statusBody, infoBody) <=> ReadableStatus(statusBody) /\ walletWhole /\ infoWhole
  BY Zenon, <1>5, <1>6 DEF WalletIsWhole
<1> QED
  BY <1>1, <1>2, <1>4, <1>7

\* A wallet is not READY once a field of what it said is taken away, and a network
\* that contradicts is denied whatever else is unknown.
LEMMA MissingIsNotReady ==
    ASSUME NEW statusBody \in StatusAnswers, NEW infoBody \in InfoAnswers, NEW network
    PROVE  /\ \A field \in {"ready", "network"} :
                  Reading!Readiness(network, [statusBody EXCEPT ![field] = Absent], infoBody) # "READY"
           /\ network = "mainnet" =>
                 /\ \A field \in {"confirmed", "inbound", "outbound"} :
                       Reading!Readiness(network, [statusBody EXCEPT ![field] = Absent], infoBody) # "READY"
                 /\ \A field \in DOMAIN infoBody :
                       Reading!Readiness(network, statusBody, [infoBody EXCEPT ![field] = Absent]) # "READY"
           /\ "signet" \in {statusBody.network, infoBody.network} =>
                 Reading!Readiness("mainnet", statusBody, infoBody) \in {"DENY", Refused}
<1> DEFINE Without(body, field) == [body EXCEPT ![field] = Absent]
<1>1. ASSUME NEW field \in {"ready", "network"}
      PROVE  Reading!Readiness(network, Without(statusBody, field), infoBody) # "READY"
  <2>1. Without(statusBody, field) \in StatusAnswers /\ Without(statusBody, field)[field] = Absent
    BY DEF StatusAnswers, Flags, Texts
  <2>2. Without(statusBody, field).ready = Absent \/ Without(statusBody, field).network = Absent
    BY <2>1
  <2>3. ~ ReadableStatus(Without(statusBody, field))
    BY Zenon, <2>2, Marks DEF ReadableStatus
  <2> HIDE DEF Without
  <2>4. Reading!parseWavelengthStatus(Without(statusBody, field)) = Refused
    BY Zenon, <2>1, <2>3, StatusParsed
  <2> QED
    BY <2>4, Meanings DEF Reading!Readiness
<1>2. ASSUME NEW field \in {"confirmed", "inbound", "outbound"}
      PROVE  Reading!Readiness("mainnet", Without(statusBody, field), infoBody) # "READY"
  <2>1. Without(statusBody, field) \in StatusAnswers /\ Without(statusBody, field)[field] = Absent
    BY DEF StatusAnswers, Fields
  <2> HIDE DEF Without
  <2>2. Absent \in {Without(statusBody, field).confirmed, Without(statusBody, field).inbound,
                    Without(statusBody, field).outbound}
    BY <2>1
  <2>3. Absent \notin 0 .. MaxSafeInteger
    BY Marks, ReadingAssumption DEF ReadingAssumption
  <2>4. ~ WalletIsWhole(Without(statusBody, field), infoBody)
    BY Zenon, <2>2, <2>3 DEF WalletIsWhole
  <2> QED
    BY Zenon, <2>1, <2>4, ReadyJustWhenWhole
<1>3. ASSUME NEW field \in DOMAIN infoBody
      PROVE  Reading!Readiness("mainnet", statusBody, Without(infoBody, field)) # "READY"
  <2>1. field \in {"network", "version", "walletState", "connected", "identity", "constraints"}
    BY DEF InfoAnswers
  <2>2. Without(infoBody, field) \in InfoAnswers /\ Without(infoBody, field)[field] = Absent
    BY DEF InfoAnswers, Texts, Flags
  <2> HIDE DEF Without
  <2>3. Absent # "mainnet" /\ Absent # "approved" /\ Absent # TRUE
    BY Marks, Meanings
  <2>4. ~ WalletIsWhole(statusBody, Without(infoBody, field))
    BY Zenon, <2>1, <2>2, <2>3 DEF WalletIsWhole
  <2> QED
    BY Zenon, <2>2, <2>4, ReadyJustWhenWhole
<1>4. ASSUME "signet" \in {statusBody.network, infoBody.network}
      PROVE  Reading!Readiness("mainnet", statusBody, infoBody) \in {"DENY", Refused}
  <2>1. CASE ~ ReadableStatus(statusBody)
    BY <2>1, StatusParsed DEF Reading!Readiness
  <2>2. CASE ReadableStatus(statusBody)
    <3> DEFINE wallet == ParsedStatus(statusBody)
    <3> DEFINE info == Reading!parseWavelengthDaemonInfo(infoBody)
    <3>1. Reading!Readiness("mainnet", statusBody, infoBody)
              = Reading!assessMainnetReadiness(wallet, info)
      BY <2>2, StatusParsed, ReadableStatusIsNoRefusal DEF Reading!Readiness
    <3>2. wallet.network = statusBody.network
      BY DEF ParsedStatus
    <3>3. info.network = "signet" <=> infoBody.network = "signet"
      BY InfoParsed
    <3> HIDE DEF wallet, info
    <3>4. wallet.network # "mainnet" \/ info.network \notin {Absent, "mainnet"}
      BY <1>4, <3>2, <3>3, Meanings
    <3> QED
      BY <3>1, <3>4 DEF Reading!assessMainnetReadiness
  <2> QED
    BY <2>1, <2>2
<1> QED
  BY <1>1, <1>2, <1>3, <1>4

-----------------------------------------------------------------------------
(* Activities.                                                             *)

\* What is authorized is what was quoted.
LEMMA QuotedAsStated ==
    ASSUME NEW body \in QuoteBodies, NEW network, QuoteIsWhole(body, network)
    PROVE  /\ Quoted(body) = [principal |-> body.amount, fee |-> body.fee,
                              totalOutflow |-> body.total, externalIdentity |-> body.hash.of]
           /\ body.amount \in 1 .. MaxSafeInteger /\ body.fee \in 0 .. MaxSafeInteger
           /\ body.total = body.amount + body.fee
           /\ body.hash \in HashTexts /\ body.hash.of \in {"h1", "h2"}
<1>1. Reading!preparePayment(network, body, Now, MinTtl) = "AUTHORIZABLE"
  BY AuthorizedJustWhenWhole
<1>2. Reading!parsePreparedQuote(body) = ParsedQuote(body)
  BY <1>1, QuoteParsed, Meanings DEF Reading!preparePayment
<1>3. body.hash \in HashTexts /\ body.hash.of \in {"h1", "h2"}
  BY Texted DEF QuoteIsWhole, HashTexts
<1>4. Quoted(body) = [principal |-> body.amount, fee |-> body.fee,
                      totalOutflow |-> body.total, externalIdentity |-> body.hash.of]
  BY <1>2, <1>3, Marks DEF Quoted, Reading!ResolvedTransfer, ParsedQuote, Reading!lowerCase
<1>5. /\ body.amount \in 1 .. MaxSafeInteger /\ body.fee \in 0 .. MaxSafeInteger
      /\ body.total = body.amount + body.fee
  BY ReadingAssumption DEF QuoteIsWhole, ReadingAssumption
<1> QED
  BY <1>3, <1>4, <1>5

SettledHowever(body) ==
    \A fee \in 0 .. body.fee, kind \in [form : {"name", "number"}, of : {"SEND"}],
       preimage \in {Absent, body.hash.of},
       hashes \in {<<body.hash, Absent, Absent>>, <<Absent, Absent, body.hash>>} :
        Reading!reconcile(Quoted(body),
            [kind |-> "entry",
             entry |-> Entry(kind, Named("COMPLETE"), -body.amount, fee, hashes, preimage)])
                = "SUCCEEDED"

\* A payment carried out as it was quoted, or for a lower fee, is read back as a
\* success, however the daemon writes it (parseSanitizedWalletEntry,
\* mapReconciliation).
THEOREM CarriedOutIsSettled ==
    ASSUME NEW body \in QuoteBodies, NEW network, QuoteIsWhole(body, network)
    PROVE  SettledHowever(body)
<1> SUFFICES ASSUME NEW fee \in 0 .. body.fee, NEW kind \in [form : {"name", "number"}, of : {"SEND"}],
                    NEW preimage \in {Absent, body.hash.of},
                    NEW hashes \in {<<body.hash, Absent, Absent>>, <<Absent, Absent, body.hash>>}
             PROVE  Reading!reconcile(Quoted(body),
                        [kind |-> "entry",
                         entry |-> Entry(kind, Named("COMPLETE"), -body.amount, fee, hashes, preimage)])
                            = "SUCCEEDED"
  BY Zenon DEF SettledHowever
<1> DEFINE entry == Entry(kind, Named("COMPLETE"), -body.amount, fee, hashes, preimage)
<1> DEFINE answer == [kind |-> "entry", entry |-> entry]
<1> DEFINE transfer == [principal |-> body.amount, fee |-> body.fee,
                        totalOutflow |-> body.total, externalIdentity |-> body.hash.of]
<1>1. /\ Quoted(body) = transfer
      /\ body.amount \in 1 .. MaxSafeInteger /\ body.fee \in 0 .. MaxSafeInteger
      /\ body.total = body.amount + body.fee
      /\ body.hash \in HashTexts /\ body.hash.of \in {"h1", "h2"}
  BY QuotedAsStated
<1>2. body.hash # Absent /\ body.hash # Odd /\ body.hash.of # Absent /\ body.hash.of # Odd
  BY <1>1, Marks, Meanings
<1>3. fee \in Int /\ fee >= 0 /\ fee <= body.fee /\ fee <= MaxSafeInteger
  BY <1>1, ReadingAssumption DEF ReadingAssumption
<1>4. /\ entry.kind = kind /\ entry.status = Named("COMPLETE") /\ entry.amount = -body.amount
      /\ entry.fee = fee /\ entry.preimage = preimage /\ entry.failureCode = Absent
      /\ entry.progressHash = hashes[1] /\ entry.requestHash = hashes[2] /\ entry.id = hashes[3]
  BY DEF Entry
<1>5. /\ kind \in Enums /\ kind.of = "SEND" /\ kind.form # "digits"
      /\ Named("COMPLETE") \in Enums /\ Named("COMPLETE").of = "COMPLETE"
      /\ Named("COMPLETE").form # "digits"
  BY Texted DEF Enums, Named
<1>6. entry \in EntryBodies
  <2>1. -body.amount \in Fields /\ fee \in Fields
    BY <1>1, <1>3, ReadingAssumption DEF Fields, ReadingAssumption
  <2>2. preimage \in Texts
    BY <1>1, Texted DEF Texts
  <2>3. {hashes[1], hashes[2], hashes[3]} \subseteq HashTexts \cup {Absent, Odd}
    BY <1>1
  <2> QED
    BY <1>5, <2>1, <2>2, <2>3 DEF EntryBodies, Entry
<1>7. Reading!EntryHash(entry) = body.hash
  BY <1>2, <1>4 DEF Reading!EntryHash
<1>8. entry.id \in {Absent, body.hash}
  BY <1>4
<1> HIDE DEF entry
<1>9. ~ Reading!MalformedResponse(entry)
  <2>1. entry # Odd
    BY <1>6, Marks
  <2>2. Odd \notin {Reading!EntryHash(entry), entry.id, entry.preimage}
    BY <1>2, <1>4, <1>7, <1>8, Marks
  <2> QED
    BY <2>1, <2>2 DEF Reading!MalformedResponse
<1> DEFINE parsed ==
        [kind |-> "SEND", status |-> "COMPLETE", signedAmountSat |-> -body.amount, feeSat |-> fee,
         paymentHash |-> body.hash.of, preimageFits |-> TRUE]
<1>10. Reading!parseSanitizedWalletEntry(entry) = parsed
  <2>1. /\ Reading!parseEnumNameOrNumber(entry.kind, Reading!EntryKinds) = "SEND"
        /\ Reading!parseEnumNameOrNumber(entry.status, Reading!EntryStatus) = "COMPLETE"
    BY <1>4, <1>5, Marks
    DEF Reading!parseEnumNameOrNumber, Reading!EntryKinds, Reading!EntryStatus
  <2>2. /\ Reading!parseOptionalProtoInteger(entry.amount) = -body.amount
        /\ Reading!parseOptionalProtoInteger(entry.fee) = fee
    <3>1. -body.amount \in SafeIntegers /\ fee \in SafeIntegers
      BY <1>1, <1>3, ReadingAssumption DEF SafeIntegers, ReadingAssumption
    <3>2. SafeIntegers \subseteq Fields
      BY ReadingAssumption DEF SafeIntegers, Fields, ReadingAssumption
    <3> QED
      BY <1>4, <3>1, <3>2, IntegerRead
  <2>3. Reading!lowerCase(Reading!EntryHash(entry)) = body.hash.of
    BY <1>2, <1>7 DEF Reading!lowerCase
  <2>4. entry.preimage = Absent \/ (body.hash.of # Absent /\ entry.preimage = body.hash.of)
    BY <1>2, <1>4
  <2>5. Refused \notin {"SEND", "COMPLETE", -body.amount, fee, Absent}
    BY <1>1, <1>3, Marks, Meanings, ReadingAssumption DEF ReadingAssumption
  <2> QED
    BY <1>4, <2>1, <2>2, <2>3, <2>4, <2>5 DEF Reading!parseSanitizedWalletEntry
<1>11. parsed \in SanitizedEntries
  <2>1. {body.hash.of, "SEND", "COMPLETE"} \subseteq Words
    BY <1>1, Texted
  <2>2. -body.amount \in ReadAmounts /\ fee \in ReadAmounts
    BY <1>1, <1>3 DEF ReadAmounts
  <2> QED
    BY <2>1, <2>2 DEF SanitizedEntries
<1>12. Reading!outgoingPrincipal(-body.amount) = body.amount
  <2>1. -body.amount \in Int /\ ~ -body.amount > 0 /\ -(-body.amount) = body.amount
    BY <1>1, ReadingAssumption DEF ReadingAssumption
  <2> QED
    BY <2>1, Marks DEF Reading!outgoingPrincipal
<1>13. Reading!mapReconciliation(transfer, parsed) = "SUCCEEDED"
  <2>1. body.amount # Absent /\ fee # Absent
    BY <1>1, <1>3, Marks
  <2>2. body.amount + fee <= body.total
    BY <1>1, <1>3, ReadingAssumption DEF ReadingAssumption
  <2> QED
    BY <1>3, <1>12, <2>1, <2>2 DEF Reading!mapReconciliation
<1> HIDE DEF parsed, transfer
<1>14. Reading!reconcile(transfer, answer) = Reading!mapReconciliation(transfer, parsed)
  BY <1>9, <1>10, <1>11, Marks DEF Reading!reconcile
<1> QED
  BY <1>1, <1>13, <1>14 DEF entry

\* What reconcile may be answered.
IsAnswer(answer) ==
    /\ answer.kind \in {"404", "no JSON", "HTTP error", "no answer", "entry"}
    /\ answer.kind = "entry" => answer.entry \in EntryBodies \cup {Odd}

TakenAsQuoted(body, answer) ==
    /\ answer.kind = "entry"
    /\ -answer.entry.amount = body.amount
    /\ -answer.entry.amount + answer.entry.fee <= body.total
    /\ Reading!EntryHash(answer.entry).of = body.hash.of

\* What is read as a success left the wallet, for the payment of the quote, and
\* took no more than the quoted total with it, whatever the daemon answers
\* (reconcile, parseSanitizedWalletEntry, mapReconciliation).
THEOREM SettledWasCarriedOut ==
    ASSUME NEW body \in QuoteBodies, NEW network, QuoteIsWhole(body, network),
           NEW answer, IsAnswer(answer), Reading!reconcile(Quoted(body), answer) = "SUCCEEDED"
    PROVE  TakenAsQuoted(body, answer)
<1> DEFINE entry == answer.entry
<1> DEFINE transfer == [principal |-> body.amount, fee |-> body.fee,
                        totalOutflow |-> body.total, externalIdentity |-> body.hash.of]
<1>1. /\ Quoted(body) = transfer
      /\ body.amount \in 1 .. MaxSafeInteger /\ body.fee \in 0 .. MaxSafeInteger
      /\ body.total = body.amount + body.fee
      /\ body.hash \in HashTexts /\ body.hash.of \in {"h1", "h2"}
  BY QuotedAsStated
<1> HIDE DEF transfer
<1>2. answer.kind = "entry"
  BY <1>1, Meanings DEF Reading!reconcile, IsAnswer
<1>3. ~ Reading!MalformedResponse(entry)
  BY <1>1, <1>2 DEF Reading!reconcile
<1>4. entry \in EntryBodies
  BY <1>2, <1>3 DEF Reading!MalformedResponse, IsAnswer
<1> DEFINE parsed == Reading!parseSanitizedWalletEntry(entry)
<1>5. parsed # Refused /\ Reading!mapReconciliation(transfer, parsed) = "SUCCEEDED"
  BY <1>1, <1>2, <1>3, Meanings DEF Reading!reconcile
<1>6. /\ parsed.signedAmountSat = Reading!parseOptionalProtoInteger(entry.amount)
      /\ parsed.feeSat = Reading!parseOptionalProtoInteger(entry.fee)
      /\ parsed.paymentHash = Reading!lowerCase(Reading!EntryHash(entry))
      /\ parsed.signedAmountSat # Refused /\ parsed.feeSat # Refused
  BY <1>5 DEF Reading!parseSanitizedWalletEntry
<1>7. entry.amount \in Fields /\ entry.fee \in Fields
  BY <1>4 DEF EntryBodies
<1>8. /\ parsed.signedAmountSat = entry.amount /\ entry.amount \in Optional
      /\ parsed.feeSat = entry.fee /\ entry.fee \in Optional
  BY <1>6, <1>7, ParsedOptional
<1> HIDE DEF parsed
<1>9. /\ parsed.paymentHash = transfer.externalIdentity
      /\ Reading!outgoingPrincipal(parsed.signedAmountSat) # Absent
      /\ Reading!outgoingPrincipal(parsed.signedAmountSat) = transfer.principal
      /\ parsed.feeSat # Absent
      /\ Reading!outgoingPrincipal(parsed.signedAmountSat) + parsed.feeSat <= transfer.totalOutflow
  BY <1>5 DEF Reading!mapReconciliation
<1>10. Reading!outgoingPrincipal(parsed.signedAmountSat) = -entry.amount
  BY <1>8, <1>9 DEF Reading!outgoingPrincipal
<1>11. Reading!EntryHash(entry).of = body.hash.of
  <2>1. Reading!lowerCase(Reading!EntryHash(entry)) = body.hash.of
    BY <1>6, <1>9 DEF transfer
  <2> QED
    BY <1>1, <2>1, Meanings DEF Reading!lowerCase
<1> QED
  BY <1>2, <1>8, <1>9, <1>10, <1>11 DEF transfer, TakenAsQuoted

-----------------------------------------------------------------------------
(* The answers that are enumerated.                                        *)

\* A subject stands for good.
Asked == subject = [kind |-> "payments"] \/ AsksQuote \/ AsksActivity \/ AsksStatus

LEMMA SubjectStands == WavelengthChecked => []Asked
<1>1. WavelengthInit => Asked
  BY DEF WavelengthInit, Asked
<1>2. ASSUME Asked, [WavelengthNext]_<<vars, subject>> PROVE Asked'
  <2>1. subject' = subject
    BY <1>2 DEF WavelengthNext
  <2> QED
    BY <1>2, <2>1 DEF Asked, AsksQuote, AsksActivity, AsksStatus
<1> QED
  BY <1>1, <1>2, PTL DEF WavelengthChecked

LEMMA EnumsAndHashes ==
    /\ \A word \in Words : Named(word) \in Enums /\ Hash(word) \in HashTexts
    /\ \A word \in Words, form \in {"name", "number", "digits"} : [form |-> form, of |-> word] \in Enums
    /\ \A word \in Words, upper \in BOOLEAN : [of |-> word, upper |-> upper] \in HashTexts
    /\ \A applied \in Fields, must \in Flags : [applied |-> applied, must |-> must] \in Credits
  BY DEF Named, Hash, Enums, HashTexts, Credits

LEMMA QuoteIsABody ==
    ASSUME NEW principal \in Fields, NEW fee \in Fields, NEW total \in Fields
    PROVE  Quote(principal, fee, total) \in QuoteBodies
<1>1. Now + MinTtl \in Fields /\ TRUE \in Flags
  BY DEF Now, MinTtl, Fields, Flags
<1>2. Hash("h1") \in HashTexts /\ Named("LIGHTNING") \in Enums /\ Named("COMPLETE") \in Enums
  BY Texted DEF Hash, HashTexts, Named, Enums
<1> QED
  BY <1>1, <1>2 DEF Quote, QuoteBodies

LEMMA SomeFields ==
    /\ SomeRails \subseteq Enums \cup {Absent, Odd} /\ SomeStatus \subseteq Enums
    /\ SomeHashes \subseteq HashTexts \cup {Absent, Odd}
    /\ SomeCredits \subseteq Credits \cup {Absent, Odd}
<1>1. SomeRails \subseteq Enums \cup {Absent, Odd}
  <2>1. /\ Named("LIGHTNING") \in Enums /\ Named("IN_ARK") \in Enums /\ Named("elsewhere") \in Enums
        /\ Named("UNSPECIFIED") \in Enums /\ [form |-> "digits", of |-> "LIGHTNING"] \in Enums
    BY Texted, EnumsAndHashes
  <2> QED
    BY Zenon, <2>1 DEF SomeRails
<1>2. SomeStatus \subseteq Enums
  <2>1. /\ Named("COMPLETE") \in Enums /\ Named("LOCAL_ONLY") \in Enums
        /\ [form |-> "number", of |-> "later"] \in Enums
    BY Texted, EnumsAndHashes
  <2> QED
    BY Zenon, <2>1 DEF SomeStatus
<1>3. SomeHashes \subseteq HashTexts \cup {Absent, Odd}
  <2>1. /\ Hash("h1") \in HashTexts /\ Hash("short") \in HashTexts
        /\ [of |-> "h1", upper |-> TRUE] \in HashTexts
    BY Texted, EnumsAndHashes
  <2> QED
    BY Zenon, <2>1 DEF SomeHashes
<1>4. SomeCredits \subseteq Credits \cup {Absent, Odd}
  <2>1. /\ Absent \in Fields /\ 0 \in Fields /\ 1 \in Fields /\ -1 \in Fields
        /\ Absent \in Flags /\ Odd \in Flags /\ TRUE \in Flags /\ FALSE \in Flags
    BY DEF Fields, Flags
  <2>2. /\ [applied |-> 0, must |-> FALSE] \in Credits /\ [applied |-> 1, must |-> Absent] \in Credits
        /\ [applied |-> -1, must |-> Absent] \in Credits /\ [applied |-> Absent, must |-> TRUE] \in Credits
        /\ [applied |-> 0, must |-> Odd] \in Credits
    BY <2>1, EnumsAndHashes
  <2> QED
    BY Zenon, <2>2 DEF SomeCredits
<1> QED
  BY <1>1, <1>2, <1>3, <1>4

LEMMA AskedBodies == QuotesAsked \subseteq QuoteBodies
<1>1. \A x \in {Absent, Odd, -1, 0, 1, 2, 3, 4, 5, 6, 7} : x \in Fields
  BY DEF Fields
<1>2. Amounts \subseteq QuoteBodies
  BY <1>1, QuoteIsABody DEF Amounts
<1>3. ASSUME NEW q \in QuoteBodies, NEW feeKnown \in SomeFlags, NEW totalKnown \in BOOLEAN,
             NEW rail \in SomeRails, NEW status \in SomeStatus
      PROVE  Settlement(q, feeKnown, totalKnown, rail, status) \in QuoteBodies
  <2>1. feeKnown \in Flags /\ totalKnown \in Flags
    BY DEF SomeFlags, Flags
  <2>2. rail \in Enums \cup {Absent, Odd} /\ status \in Enums \cup {Absent, Odd}
    BY SomeFields
  <2> QED
    BY <2>1, <2>2 DEF Settlement, QuoteBodies
<1>4. ASSUME NEW q \in QuoteBodies, NEW expires \in {Absent, 0} \cup 3 .. 7, NEW hash \in SomeHashes,
             NEW credit \in SomeCredits
      PROVE  Circumstance(q, expires, hash, credit) \in QuoteBodies
  <2>1. expires \in Fields
    BY DEF Fields
  <2>2. hash \in HashTexts \cup {Absent, Odd} /\ credit \in Credits \cup {Absent, Odd}
    BY SomeFields
  <2> QED
    BY <2>1, <2>2 DEF Circumstance, QuoteBodies
<1>5. SomeQuotes \subseteq QuoteBodies /\ Quote(3, 1, 4) \in QuoteBodies
  BY <1>1, QuoteIsABody DEF SomeQuotes
<1>6. Settlements \subseteq QuoteBodies
  <2> SUFFICES ASSUME NEW body \in Settlements PROVE body \in QuoteBodies
    OBVIOUS
  <2>1. PICK q \in SomeQuotes, feeKnown \in SomeFlags, totalKnown \in BOOLEAN, rail \in SomeRails, status \in SomeStatus :
             body = Settlement(q, feeKnown, totalKnown, rail, status)
    BY DEF Settlements
  <2>2. q \in QuoteBodies
    BY <1>5
  <2>3. Settlement(q, feeKnown, totalKnown, rail, status) \in QuoteBodies
    BY <1>3, <2>2
  <2> QED
    BY <2>1, <2>3
<1>7. Circumstances \subseteq QuoteBodies
  <2> SUFFICES ASSUME NEW body \in Circumstances PROVE body \in QuoteBodies
    OBVIOUS
  <2>1. PICK expires \in {Absent, 0} \cup 3 .. 7, hash \in SomeHashes, credit \in SomeCredits :
             body = Circumstance(Quote(3, 1, 4), expires, hash, credit)
    BY DEF Circumstances
  <2>2. Circumstance(Quote(3, 1, 4), expires, hash, credit) \in QuoteBodies
    BY <1>4, <1>5
  <2> QED
    BY <2>1, <2>2
<1> QED
  BY <1>2, <1>6, <1>7 DEF QuotesAsked

LEMMA AskedStatuses ==
    /\ StatusBodies \subseteq StatusAnswers /\ InfoBodies \subseteq InfoAnswers
<1>1. StatusBodies \subseteq StatusAnswers
  <2>1. \A x \in {Absent, Odd, -1, 0, 5, 6} : x \in Fields
    BY DEF Fields
  <2>2. BOOLEAN \subseteq Flags /\ {"mainnet", "signet", Odd} \subseteq Texts
    BY Texted DEF Flags, Texts
  <2> QED
    BY <2>1, <2>2 DEF StatusBodies, StatusAnswers
<1>2. ReadyInfo \in InfoAnswers
  <2>1. {0, 1} \in SUBSET Fields /\ TRUE \in Flags
    BY DEF Fields, Flags
  <2>3. Named("READY") \in Enums
    BY Texted, EnumsAndHashes
  <2>2. {"mainnet", "approved", "key"} \subseteq Texts
    BY Texted DEF Texts
  <2> QED
    BY <2>1, <2>2, <2>3 DEF ReadyInfo, InfoAnswers
<1>3. {"mainnet", "signet", "approved", "other", Absent} \subseteq Texts
  BY Texted DEF Texts
<1>4. Named("LOCKED") \in Enums
  BY Texted DEF Named, Enums
<1>5. {{-1, 1}, {Odd}} \subseteq SUBSET Fields
  BY DEF Fields
<1>6. ASSUME NEW network \in Texts, NEW version \in Texts
      PROVE  [ReadyInfo EXCEPT !.network = network, !.version = version] \in InfoAnswers
  BY <1>2 DEF InfoAnswers
<1>7. ASSUME NEW state \in Enums \cup {Absent, Odd}
      PROVE  [ReadyInfo EXCEPT !.walletState = state] \in InfoAnswers
  BY <1>2 DEF InfoAnswers
<1>8. ASSUME NEW amounts \in SUBSET Fields
      PROVE  [ReadyInfo EXCEPT !.constraints = amounts] \in InfoAnswers
  BY <1>2 DEF InfoAnswers
<1>9. ASSUME NEW body \in InfoBodies PROVE body \in InfoAnswers
  <2>1. \/ body = ReadyInfo
        \/ \E network \in {"mainnet", "signet", Absent}, version \in {"approved", "other", Absent} :
              body = [ReadyInfo EXCEPT !.network = network, !.version = version]
        \/ \E state \in {Named("LOCKED"), Odd} : body = [ReadyInfo EXCEPT !.walletState = state]
        \/ \E amounts \in {{-1, 1}, {Odd}} : body = [ReadyInfo EXCEPT !.constraints = amounts]
    BY <1>9 DEF InfoBodies
  <2>2. CASE \E network \in {"mainnet", "signet", Absent}, version \in {"approved", "other", Absent} :
                body = [ReadyInfo EXCEPT !.network = network, !.version = version]
    <3>1. PICK network \in {"mainnet", "signet", Absent}, version \in {"approved", "other", Absent} :
               body = [ReadyInfo EXCEPT !.network = network, !.version = version]
      BY <2>2
    <3>2. network \in Texts /\ version \in Texts
      BY <1>3
    <3> QED
      BY <1>6, <3>1, <3>2
  <2>3. CASE \E state \in {Named("LOCKED"), Odd} : body = [ReadyInfo EXCEPT !.walletState = state]
    BY <1>4, <1>7, <2>3
  <2>4. CASE \E amounts \in {{-1, 1}, {Odd}} : body = [ReadyInfo EXCEPT !.constraints = amounts]
    BY <1>5, <1>8, <2>4
  <2> QED
    BY <1>2, <2>1, <2>2, <2>3, <2>4
<1> QED
  BY <1>1, <1>9

LEMMA AskedEntries == ActivityEntries \subseteq EntryBodies
<1>1. \A x \in {Absent, Odd, -4, -3, -1, 0, 1, 2, 3} : x \in Fields
  BY DEF Fields
<1>2. /\ Hash("h1") \in HashTexts /\ Hash("h2") \in HashTexts /\ [of |-> "h1", upper |-> TRUE] \in HashTexts
      /\ Named("SEND") \in Enums /\ Named("RECV") \in Enums /\ [form |-> "digits", of |-> "SEND"] \in Enums
      /\ [form |-> "number", of |-> "PENDING"] \in Enums /\ Named("COMPLETE") \in Enums
      /\ Named("FAILED") \in Enums /\ Named("REFUNDED") \in Enums /\ Named("a later code") \in Enums
  BY Texted, EnumsAndHashes
<1>3. ASSUME NEW kind \in Enums, NEW status \in Enums, NEW amount \in Fields, NEW fee \in Fields,
             NEW hashes, {hashes[1], hashes[2], hashes[3]} \subseteq HashTexts \cup {Absent, Odd},
             NEW preimage \in Texts
      PROVE  Entry(kind, status, amount, fee, hashes, preimage) \in EntryBodies
  BY <1>3 DEF Entry, EntryBodies
<1>4. ASSUME NEW hashes \in HashesAsked
      PROVE  {hashes[1], hashes[2], hashes[3]} \subseteq HashTexts \cup {Absent, Odd}
  <2> DEFINE lower == Hash("h1")
  <2> DEFINE other == Hash("h2")
  <2> DEFINE upper == [of |-> "h1", upper |-> TRUE]
  <2>1. lower \in HashTexts /\ other \in HashTexts /\ upper \in HashTexts
    BY <1>2
  <2>2. hashes \in {<<lower, Absent, Absent>>, <<Absent, Absent, upper>>,
                    <<other, lower, lower>>, <<Absent, Absent, Odd>>}
    BY Zenon DEF HashesAsked
  <2> HIDE DEF lower, other, upper
  <2>3. {hashes[1], hashes[2], hashes[3]} \subseteq {lower, other, upper, Absent, Odd}
    BY <2>2
  <2> QED
    BY <2>1, <2>3
<1>5. PreimagesAsked \subseteq Texts
  BY Texted DEF Texts, PreimagesAsked
<1>6. ASSUME NEW kind \in KindsAsked, NEW status \in StatusAsked,
             NEW amount \in AmountsAsked, NEW fee \in FeesAsked,
             NEW hashes \in HashesAsked, NEW preimage \in PreimagesAsked
      PROVE  Entry(kind, status, amount, fee, hashes, preimage) \in EntryBodies
  <2>1. kind \in Enums /\ status \in Enums
    BY Zenon, <1>2 DEF KindsAsked, StatusAsked
  <2>2. amount \in Fields /\ fee \in Fields
    BY <1>1 DEF AmountsAsked, FeesAsked
  <2>3. preimage \in Texts
    BY <1>5
  <2>4. {hashes[1], hashes[2], hashes[3]} \subseteq HashTexts \cup {Absent, Odd}
    BY <1>4
  <2> QED
    BY <1>3, <2>1, <2>2, <2>3, <2>4
<1>7. ASSUME NEW code \in Enums \cup {Odd} PROVE Failure(code) \in EntryBodies
  <2>1. Entry(Named("SEND"), Named("FAILED"), -3, 0, <<Hash("h1"), Absent, Absent>>, Absent) \in EntryBodies
    <3>1. /\ Named("SEND") \in KindsAsked /\ Named("FAILED") \in StatusAsked
          /\ <<Hash("h1"), Absent, Absent>> \in HashesAsked
      BY Zenon DEF KindsAsked, StatusAsked, HashesAsked
    <3>2. -3 \in AmountsAsked /\ 0 \in FeesAsked /\ Absent \in PreimagesAsked
      BY DEF AmountsAsked, FeesAsked, PreimagesAsked
    <3> QED
      BY <1>6, <3>1, <3>2
  <2> QED
    BY <2>1 DEF EntryBodies, Failure
<1>8. {Named("REFUNDED"), Named("a later code"), Odd} \subseteq Enums \cup {Odd}
  BY Zenon, <1>2
<1>9. PlainEntries \subseteq EntryBodies
  BY <1>6 DEF PlainEntries
<1>10. FailedEntries \subseteq EntryBodies
  <2> SUFFICES ASSUME NEW entry \in FailedEntries PROVE entry \in EntryBodies
    OBVIOUS
  <2>1. PICK code \in {Named("REFUNDED"), Named("a later code"), Odd} : entry = Failure(code)
    BY DEF FailedEntries
  <2>2. code \in Enums \cup {Odd}
    BY <1>8, <2>1
  <2> QED
    BY <1>7, <2>1, <2>2
<1> QED
  BY <1>9, <1>10 DEF ActivityEntries

LEMMA AskedAnswers ==
    ASSUME NEW answer \in ActivityAnswers
    PROVE  IsAnswer(answer)
<1>1. CASE \E kind \in {"404", "no JSON", "HTTP error", "no answer"} : answer = [kind |-> kind]
  <2>1. PICK kind \in {"404", "no JSON", "HTTP error", "no answer"} : answer = [kind |-> kind]
    BY <1>1
  <2>2. answer.kind = kind
    BY <2>1
  <2> QED
    BY <2>1, <2>2 DEF IsAnswer
<1>2. CASE \E entry \in ActivityEntries \cup {Odd} : answer = [kind |-> "entry", entry |-> entry]
  <2>1. PICK entry \in ActivityEntries \cup {Odd} : answer = [kind |-> "entry", entry |-> entry]
    BY <1>2
  <2>2. answer.kind = "entry" /\ answer.entry = entry
    BY <2>1
  <2> QED
    BY <2>1, <2>2, AskedEntries DEF IsAnswer
<1> QED
  BY <1>1, <1>2 DEF ActivityAnswers

\* What is asked is of its kind.
LEMMA AskedOfItsKind ==
    ASSUME Asked
    PROVE  /\ subject.kind = "quote" => AsksQuote
           /\ subject.kind = "activity" => AsksActivity
           /\ subject.kind = "status" => AsksStatus
<1>1. AsksQuote => subject.kind = "quote"
  BY DEF AsksQuote
<1>2. AsksActivity => subject.kind = "activity"
  BY DEF AsksActivity
<1>3. AsksStatus => subject.kind = "status"
  BY DEF AsksStatus
<1>4. subject = [kind |-> "payments"] => subject.kind = "payments"
  OBVIOUS
<1> QED
  BY <1>1, <1>2, <1>3, <1>4 DEF Asked

\* Unknown state never becomes ALLOW, in whatever the daemon answers
\* (parsePreparedQuote, admitPreparedQuote, parseWavelengthStatus and the
\* readiness of the adapter).
THEOREM UnknownIsNotAllowed == WavelengthChecked => []UnknownNeverAllows
<1>1. ASSUME Asked PROVE UnknownNeverAllows
  <2>1. ASSUME subject.kind = "quote"
        PROVE  Admission = "AUTHORIZABLE" <=> QuoteIsWhole(subject.body, subject.network)
    <3>1. PICK body \in QuotesAsked, network \in Networks :
               subject = [kind |-> "quote", body |-> body, network |-> network]
      BY <1>1, <2>1, AskedOfItsKind DEF AsksQuote
    <3>2. body \in QuoteBodies /\ subject.body = body /\ subject.network = network
      BY <3>1, AskedBodies
    <3> QED
      BY Zenon, <3>2, AuthorizedJustWhenWhole DEF Admission
  <2>2. ASSUME subject.kind = "status"
        PROVE  /\ subject.statusBody \in StatusAnswers /\ subject.infoBody \in InfoAnswers
    <3>1. PICK statusBody \in StatusBodies, infoBody \in InfoBodies, network \in Networks :
               subject = [kind |-> "status", statusBody |-> statusBody, infoBody |-> infoBody,
                          network |-> network]
      BY <1>1, <2>2, AskedOfItsKind DEF AsksStatus
    <3> QED
      BY <3>1, AskedStatuses
  <2> QED
    BY Zenon, <2>1, <2>2, MissingIsNotReady DEF UnknownNeverAllows
<1> QED
  BY <1>1, SubjectStands, PTL

\* Quotes and activities are read by different code and agree, in whatever the
\* daemon answers (admitPreparedQuote, parseSanitizedWalletEntry and
\* mapReconciliation).
THEOREM QuotesAgreeWithActivities == WavelengthChecked => []QuoteAndActivityAgree
<1>1. ASSUME Asked PROVE QuoteAndActivityAgree
  <2>1. ASSUME subject.kind = "quote", Admission = "AUTHORIZABLE"
        PROVE  subject.body \in QuoteBodies /\ QuoteIsWhole(subject.body, subject.network)
    <3>1. PICK body \in QuotesAsked, network \in Networks :
               subject = [kind |-> "quote", body |-> body, network |-> network]
      BY <1>1, <2>1, AskedOfItsKind DEF AsksQuote
    <3>2. body \in QuoteBodies /\ subject.body = body /\ subject.network = network
      BY <3>1, AskedBodies
    <3> QED
      BY Zenon, <2>1, <3>2, AuthorizedJustWhenWhole DEF Admission
  <2>2. ASSUME subject.kind = "quote", Admission = "AUTHORIZABLE" PROVE SettledHowever(subject.body)
    BY <2>1, <2>2, CarriedOutIsSettled
  <2>3. ASSUME subject.kind = "activity",
               Reading!reconcile(Quoted(subject.body), subject.answer) = "SUCCEEDED"
        PROVE  TakenAsQuoted(subject.body, subject.answer)
    <3>1. PICK body \in {Quote(3, 0, 3), Quote(3, 1, 4)}, answer \in ActivityAnswers :
               subject = [kind |-> "activity", body |-> body, answer |-> answer]
      BY <1>1, <2>3, AskedOfItsKind DEF AsksActivity
    <3>2. body = subject.body /\ answer = subject.answer
      BY <3>1
    <3>3. body \in QuoteBodies
      BY <3>1, QuoteIsABody DEF Fields
    <3>4. QuoteIsWhole(body, "signet")
      <4>1. PICK fee \in {0, 1} : body = Quote(3, fee, 3 + fee)
        <5>1. body = Quote(3, 0, 3) => body = Quote(3, 0, 3 + 0)
          OBVIOUS
        <5>2. body = Quote(3, 1, 4) => body = Quote(3, 1, 3 + 1)
          OBVIOUS
        <5> QED
          BY <3>1, <5>1, <5>2
      <4>2. /\ body.amount = 3 /\ body.fee = fee /\ body.total = 3 + fee
            /\ body.expires = 5 /\ body.feeKnown = TRUE /\ body.totalKnown = TRUE
            /\ body.hash = [of |-> "h1", upper |-> FALSE] /\ body.credit = Absent
            /\ body.rail = Named("LIGHTNING") /\ body.status = Named("COMPLETE")
        BY <4>1 DEF Quote, Hash, Now, MinTtl
      <4>3. {3, fee, 3 + fee, 5} \subseteq 0 .. MaxSafeInteger
        BY <4>1, ReadingAssumption DEF ReadingAssumption, Now, MinTtl
      <4>4. {Named("LIGHTNING"), Named("COMPLETE")} \cap {Absent, Odd} = {}
        BY Marks, Texted, EnumsAndHashes
      <4>5. {body.amount, body.fee, body.total, body.expires} \cap {Absent, Odd} = {}
        BY <4>2, <4>3, Marks
      <4>6. /\ Named("LIGHTNING").of = "LIGHTNING" /\ Named("COMPLETE").of = "COMPLETE"
            /\ body.hash \in [of : {"h1", "h2"}, upper : BOOLEAN]
        BY <4>2 DEF Named
      <4>7. body.expires - Now \in MinTtl .. MaxSafeInteger
        BY <4>2, <4>3, ReadingAssumption DEF ReadingAssumption, Now, MinTtl
      <4>8. body.credit # Odd
        BY <4>2, Marks
      <4> QED
        <5>1. {body.amount, body.fee, body.total, body.expires} \subseteq 0 .. MaxSafeInteger
          BY <4>2, <4>3
        <5>2. body.amount > 0 /\ body.amount + body.fee = body.total
          BY <4>1, <4>2
        <5>3. {body.rail, body.status} \cap {Absent, Odd} = {}
          BY <4>2, <4>4
        <5>4. body.rail.of = "LIGHTNING" /\ body.status.of = "COMPLETE"
          BY <4>2, <4>6
        <5>5. {body.feeKnown, body.totalKnown} = {TRUE}
          BY <4>2
        <5>6. body.credit = Absent /\ "signet" # "mainnet"
          BY <4>2
        <5> QED
          BY <4>5, <4>6, <4>7, <4>8, <5>1, <5>2, <5>3, <5>4, <5>5, <5>6 DEF QuoteIsWhole
    <3>5. IsAnswer(answer)
      BY <3>1, AskedAnswers
    <3> QED
      <4>1. Reading!reconcile(Quoted(body), answer) = "SUCCEEDED"
        BY <2>3, <3>2
      <4> QED
        BY <3>2, <3>3, <3>4, <3>5, <4>1, SettledWasCarriedOut
  <2> QED
    BY Zenon, <2>2, <2>3 DEF QuoteAndActivityAgree, TakenAsQuoted, SettledHowever
<1> QED
  BY <1>1, SubjectStands, PTL

=============================================================================
