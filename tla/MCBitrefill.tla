------------------------------- MODULE MCBitrefill -------------------------------
(***************************************************************************)
(* One instance of everything that buys at Bitrefill: the invoice of an    *)
(* instrument (InstrumentInvoice), the prepayment chain of another         *)
(* (InstrumentPrepayment), and the judgements both rest on, which keep no  *)
(* state.  A behaviour has one subject, chosen at the start: it is a run   *)
(* of one of the two machines, while the other does not move, or a single  *)
(* question put to the judgements.                                         *)
(***************************************************************************)
EXTENDS InstrumentInvoice, BitrefillMoney, TLC

CONSTANTS k1, x1, x2, b1, b2,
          Bindings, Forms, Amount, MaxSteps, MaxChainMishaps

VARIABLES
    subject,     \* what the behaviour is about
    bindings, secrets, chainCall, submitted, withdrawn, died, chainMishaps

chainVars == <<bindings, secrets, chainCall, submitted, withdrawn, died, chainMishaps>>

\* The chain, with what is proved of it.
Chain == INSTANCE InstrumentPrepaymentProofs WITH
    call <- chainCall, mishaps <- chainMishaps, MaxMishaps <- MaxChainMishaps

Product == INSTANCE BitrefillProduct

\* What is absent is no identifier and no profile.
AbsentAssumption == Absent \notin {"a", "b", "profile"}

ASSUME Chain!PrepaymentAssumption
ASSUME AbsentAssumption

-----------------------------------------------------------------------------
(* Values for the constants.                                               *)

\* The commands that are not about a simulated outcome.
PlainCommands == {"EXECUTING", "AMBIGUOUS", "RELEASED"}

Input(name, type, required) ==
    [element |-> "input", wellFormed |-> TRUE, name |-> name, type |-> type,
     required |-> required, maxLength |-> Absent]
FirstForm(entries) == [shape |-> "first_form", conflicting |-> FALSE, entries |-> entries]

\* The amount, a name, a name with a box to tick, and no form at all.
FormsWithConsent ==
    {FirstForm(<<Input("bill_amount", "text", "yes")>>),
     FirstForm(<<Input("first_name", "text", "yes")>>),
     FirstForm(<<Input("first_name", "text", "yes"), Input("terms_accepted", "checkbox", "no")>>),
     [shape |-> "missing"]}

\* A name, and a name with a field that may be left empty.
FormsWithOptional ==
    {FirstForm(<<Input("first_name", "text", "yes")>>),
     FirstForm(<<Input("first_name", "text", "yes"), Input("nickname", "text", "no")>>)}

ExactAmount == [length |-> 5]

\* The units of small doubles: 1 is the 18th of them, and an amount from 1.28 on
\* no longer lies finely among numbers of ten binary digits.
PowersOfTwo == {2 ^ i : i \in 0 .. 19}

-----------------------------------------------------------------------------
(* The questions.                                                          *)

Catalogued(packages, range) ==
    [id |-> "card", currency |-> "USD", inStock |-> TRUE, prepaid |-> FALSE, recipient |-> "none",
     methods |-> {}, type |-> "gift_card", packages |-> packages, range |-> range]

PackageRecords == [id : {"a", "b"}, value : {5, 10}]
PackageLists == {<<>>} \cup {<<p>> : p \in PackageRecords} \cup
                {<<p, q>> : p \in PackageRecords, q \in PackageRecords}
Ranges == {Absent, [min |-> 5, max |-> 11, step |-> 3]}

Catalogue == {Catalogued(packages, range) : packages \in PackageLists, range \in Ranges}

\* One package, in every condition of the shop.
Conditions ==
    {[Catalogued(<<[id |-> "a", value |-> 5]>>, Absent) EXCEPT
        !.currency = currency, !.inStock = inStock, !.prepaid = prepaid, !.recipient = recipient,
        !.methods = methods, !.type = type] :
        currency \in {"USD", "EUR"}, inStock \in BOOLEAN, prepaid \in BOOLEAN,
        recipient \in {"none", "email"}, methods \in {{}, {"bitcoin"}, {"bitcoin", "lightning"}},
        type \in {"gift_card", "esim"}}

\* The product is fetched, authorized at this value, and fetched again.
AsksPurchase ==
    \/ \E before \in Catalogue, now \in Catalogue :
          subject = [kind |-> "purchase", before |-> before, now |-> now, faceValue |-> 5]
    \/ \E before \in {Catalogued(<<[id |-> "a", value |-> 5]>>, Absent)}, now \in Conditions :
          subject = [kind |-> "purchase", before |-> before, now |-> now, faceValue |-> 5]

\* An amount in minor units.
AsksAmount ==
    \E minor \in 0 .. 1100 : subject = [kind |-> "amount", minor |-> minor]

Fields ==
    [name : {"bill_amount", "first_name", "terms_accepted", "other"}, required : BOOLEAN,
     type : {"text", "checkbox"}, maxLength : {5}, fromFirstForm : BOOLEAN]

\* A form is judged before there is a profile.
AsksForm ==
    \E first \in Fields, second \in Fields, step \in {1, 2} :
        subject = [kind |-> "form", fields |-> <<first, second>>, step |-> step]

StatusWords == {"unpaid", "unknown", "not_delivered", "pending", "complete", "refunded", "odd"}
PaymentWords == {"unpaid", "paid", Absent}
Methods == {"lightning", "bitcoin"}
OrderWordings == {<<"created">>, <<"pending">>, <<"delivered">>, <<"created", "created">>, <<>>}
Purchases ==
    {<<"card", 5000, "USD">>, <<"card", 5000, Absent>>, <<"card", 5000, "EUR">>,
     <<"other", 5000, "USD">>, <<"card", 50, "USD">>}

InWords(status, payment, method, words, bought) ==
    [id |-> "id", status |-> status, payment |-> payment, method |-> method,
     request |-> TRUE, expiresAt |-> Absent,
     orders |-> [i \in DOMAIN words |->
        [id |-> "order", status |-> words[i], product |-> bought[1],
         faceValue |-> bought[2], currency |-> bought[3]]]]

\* An invoice just created, in the words of the shop.
AsksInvoice ==
    \E status \in StatusWords, payment \in PaymentWords, method \in Methods,
       words \in OrderWordings, bought \in Purchases :
        subject = [kind |-> "invoice words",
                   invoice |-> InWords(status, payment, method, words, bought)]

-----------------------------------------------------------------------------
BitrefillInit ==
    /\ Init /\ Chain!Init
    /\ \/ subject = [kind |-> "invoice"]
       \/ subject = [kind |-> "chain"]
       \/ AsksPurchase \/ AsksAmount \/ AsksForm \/ AsksInvoice

BitrefillNext ==
    \/ subject.kind = "invoice" /\ Next /\ UNCHANGED <<subject, chainVars>>
    \/ subject.kind = "chain" /\ Chain!Next /\ UNCHANGED <<subject, vars>>

\* The fairness of createInvoice and reconcile, which concerns the behaviours
\* about them.
BitrefillSpec ==
    /\ BitrefillInit /\ [][BitrefillNext]_<<subject, vars, chainVars>>
    /\ Patience

-----------------------------------------------------------------------------
(* Properties of the judgements.                                           *)

\* What the shop would sell for a request: a package of the id, or the value.
Sold(requested, product) ==
    IF requested.packageId # Absent
    THEN {product.packages[i].value : i \in {j \in DOMAIN product.packages : product.packages[j].id = requested.packageId}}
    ELSE {requested.value}

\* How an amount of minor units may be written: with the zeros it ends in or
\* without them.
Spellings(minor) ==
    {[digits |-> minor, scale |-> 100]}
    \cup (IF minor % 10 = 0 THEN {[digits |-> minor \div 10, scale |-> 10]} ELSE {})
    \cup (IF minor % 100 = 0 THEN {[digits |-> minor \div 100, scale |-> 1]} ELSE {})

\* Around a number of grains the doubles lie no further apart than the tolerance.
Finely(grains) == Ulp(grains) <= Epsilon

\* As text an amount is read exactly, or refused beyond the safe integers.
TextIsRead(minor) ==
    \A decimal \in Spellings(minor) :
        decimalStringToMinorUnits(decimal) = IF minor > MaxSafeInteger THEN Refused ELSE minor

\* As a number it is read as itself or refused, and not refused where the doubles
\* lie finely: below 671088.64.
NumberIsRead(minor) ==
    \A decimal \in Spellings(minor) :
        /\ numberToMinorUnits(numberOf(decimal)) \in {minor, Refused}
        /\ Finely(minor * One) => numberToMinorUnits(numberOf(decimal)) = minor

\* What an amount reads as that goes on with a third digit.
ReadWith(minor, further) ==
    numberToMinorUnits(numberOf([digits |-> 10 * minor + further, scale |-> 1000]))

\* A fraction of a cent is taken for one of its neighbours or refused, and half a
\* cent is refused where the doubles lie finely.
FractionIsRead(minor) ==
    /\ \A further \in 0 .. 9 : ReadWith(minor, further) \in {minor, minor + 1, Refused}
    /\ Finely(minor * One + (One \div 2)) => ReadWith(minor, 5) = Refused

\* The number that is written for the shop is read as the amount.
WrittenIsRead(minor) ==
    LET written == fiatMinorToBitrefillMajor(minor) IN
    /\ written # Refused => numberToMinorUnits(written) = minor
    /\ minor < Half /\ Finely(minor * One) => written # Refused

\* An amount on its way.  From Half on, 45035996273704.96, a double has no digits
\* left for the cents.
AmountIsRead(minor) ==
    /\ TextIsRead(minor) /\ WrittenIsRead(minor)
    /\ minor < Half => NumberIsRead(minor)
    /\ minor + 1 < Half => FractionIsRead(minor)

\* What is bought after the product was fetched again is what was authorized
\* from the first fetch, however the catalogue changed in between: a package
\* that kept its id and not its value is not bought, nor is anything that has
\* come to ask for a human, in another currency or of another kind
\* (revalidateBeforeExecuting and revalidateBoundDenomination).  And no amount
\* turns into another one on its way (money.ts).  Text is read exactly.  A JSON
\* number is a double, is multiplied by 100 and accepted within
\* EXACT_CENT_EPSILON of an integer: it is read as the amount or refused
\* (1048576.09 is refused), a fraction of a cent may pass for the cent next to
\* it (5.00000000001 is 500) but half a cent does not, and a number that would
\* be read as another amount is not written.
BoughtAsAuthorized ==
    /\ subject.kind = "purchase" =>
          LET bound == Product!Resolved(subject.before, subject.faceValue)
              current == Product!Revalidated(subject.before, bound, subject.now)
          IN  bound # Refused /\ current # Refused =>
                  /\ Sold(Product!RequestedOf(current), subject.now) = {subject.faceValue}
                  /\ ~ Product!humanActionRequired(subject.now)
                  /\ subject.now.currency = subject.before.currency
                  /\ Product!RevalidatedGiftCard(subject.before, bound, subject.now) # Refused
                        => subject.now.type # "esim"
    /\ subject.kind = "amount" => AmountIsRead(subject.minor)

\* Nothing is answered that was left to a human: no submitted field asks for
\* consent or identity.  And a form that inspection calls supported is filled
\* without a human once there is a profile and the amount fits, and one that it
\* does not is not: a chain is not begun whose first form stops it
\* (inspectFieldSupport and satisfyPrepaymentFields).
FormsAreLeftToAHuman ==
    /\ Chain!NothingLeavesForAHuman
    /\ subject.kind = "form" =>
          (Chain!inspectFieldSupport(subject.fields, subject.step) = "supported"
              <=> Chain!satisfyPrepaymentFields(subject.fields, "profile", [length |-> 5], subject.step)
                      = "supported")

\* An invoice is accepted when it is created just when a reconciliation of it
\* would find it unpaid: no invoice is taken into the books that the next look
\* at it makes a mismatch (assertUnpaidLightningInvoiceForAcquisition and
\* mapInvoiceReconciliation).
AcceptedIsReadUnpaid ==
    subject.kind = "invoice words" /\ Parses(subject.invoice) =>
        LET purchase == Purchase IN
        (AcceptedAsCreated(subject.invoice, purchase)
            <=> mapInvoiceReconciliation(subject.invoice, "id", purchase) = "UNPAID")

-----------------------------------------------------------------------------
(* The properties of the prepayment chain, under their names there.        *)

\* The types of both machines: an Authorization is attempted before its row is
\* written, and no chain is longer than it may be.
BitrefillTypeOK == TypeOK /\ Chain!TypeOK

\* Whatever left is on record before it left, each step once.
SubmittedIsOnRecord == Chain!SubmittedIsOnRecord

\* Two chains of one slot reach the provider only after an operator withdrew
\* one of them.
SecondChainNeedsAnOperator == Chain!SecondChainNeedsAnOperator

\* A READY binding can be loaded.
ReadyHasItsSecret == Chain!ReadyHasItsSecret

\* A repeated form is not submitted again.
RepeatIsNotResubmitted == Chain!RepeatIsNotResubmitted

\* A chain that nobody runs any longer does not hold its slot in PREPARING,
\* unless its own process died or its catch could not write the row.
SlotIsNotAbandoned == Chain!SlotIsNotAbandoned

=============================================================================
