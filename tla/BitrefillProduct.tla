---------------------------- MODULE BitrefillProduct ----------------------------
(***************************************************************************)
(* What may be bought of a Bitrefill product:                              *)
(* src/src/integrations/bitrefill/product.ts.                              *)
(*                                                                         *)
(* A product has packages (a sequence of [id, value]) and perhaps a range  *)
(* [min, max, step], in minor units; recipient is "none" unless the shop   *)
(* asks for one, and prepaid tells that it carries a field of the prepaid  *)
(* flow.  A selection that throws is Refused.                              *)
(***************************************************************************)
EXTENDS Integers, Sequences, FiniteSets

CONSTANTS
    Absent,
    Refused,
    MaxSafeInteger

\* parsePackages, parseRange: what a product must look like to be read at all.
Parses(product) ==
    product.range # Absent =>
        product.range.min <= product.range.max /\ product.range.step > 0

PackagesWith(product, id) == {i \in DOMAIN product.packages : product.packages[i].id = id}
PackagesWorth(product, faceValue) == {i \in DOMAIN product.packages : product.packages[i].value = faceValue}

Package(id, faceValue) == [kind |-> "package", packageId |-> id, faceValue |-> faceValue]
InRange(faceValue) == [kind |-> "range", packageId |-> Absent, faceValue |-> faceValue]

\* selectDenomination: the one package of the value, or a step of the range; a
\* value that is no safe integer is refused.
selectDenomination(product, faceValue) ==
    LET matching == PackagesWorth(product, faceValue)
        range == product.range IN
    IF faceValue \notin 0..MaxSafeInteger \/ Cardinality(matching) > 1 THEN Refused
    ELSE CASE Cardinality(matching) = 1 ->
                Package(product.packages[CHOOSE i \in matching : TRUE].id, faceValue)
           [] /\ matching = {} /\ range # Absent
              /\ faceValue \in range.min..range.max
              /\ (faceValue - range.min) % range.step = 0 -> InRange(faceValue)
           [] OTHER -> Refused

\* Faulty variant: the value of the bound package is not compared.
revalidateById(denomination, product) ==
    IF denomination.kind = "package"
    THEN IF Cardinality(PackagesWith(product, denomination.packageId)) = 1
         THEN denomination ELSE Refused
    ELSE LET current == selectDenomination(product, denomination.faceValue) IN
         IF current # Refused /\ current.kind = "range" THEN current ELSE Refused

\* revalidateBoundDenomination: the bound package is still there once and of
\* the same value; a value of the range is still one, and no package now.
revalidateBoundDenomination(denomination, product) ==
    IF denomination.kind = "package"
    THEN LET exact == PackagesWith(product, denomination.packageId) IN
         IF /\ Cardinality(exact) = 1
            /\ \A i \in exact : product.packages[i].value = denomination.faceValue
         THEN denomination ELSE Refused
    ELSE LET current == selectDenomination(product, denomination.faceValue) IN
         IF current # Refused /\ current.kind = "range" THEN current ELSE Refused

\* restPrepaidFlowUnavailable or a recipient asks for a human.
humanActionRequired(product) == product.prepaid \/ product.recipient # "none"

assertProductExecutable(product) ==
    /\ product.inStock
    /\ ~humanActionRequired(product)
    /\ product.packages # <<>> \/ product.range # Absent
    /\ product.methods # {} => "lightning" \in product.methods

\* assertOrdinaryGiftCardProduct
assertOrdinaryGiftCardProduct(product) ==
    /\ assertProductExecutable(product)
    /\ product.type \notin {"phone_refill", "esim", "bill_payment"}

assertProductUnchanged(previous, current) ==
    /\ previous.id = current.id
    /\ previous.currency = current.currency
    /\ previous.recipient = current.recipient
    /\ current.prepaid => previous.prepaid
    /\ current.inStock \/ ~previous.inStock

\* resolveInstrument: the bound denomination, or Refused.
Resolved(product, faceValue) ==
    IF Parses(product) /\ assertProductExecutable(product)
    THEN selectDenomination(product, faceValue)
    ELSE Refused

\* revalidateBeforeExecuting of the product fetched again.
Revalidated(product, denomination, current) ==
    IF /\ Parses(current)
       /\ assertProductUnchanged(product, current)
       /\ assertProductExecutable(current)
    THEN revalidateBoundDenomination(denomination, current)
    ELSE Refused

\* assertInvoiceMatchesRevalidatedBinding, as far as it is about the product:
\* the same for a gift card, which must be an ordinary one as well.
RevalidatedGiftCard(product, denomination, current) ==
    IF assertOrdinaryGiftCardProduct(current)
    THEN Revalidated(product, denomination, current)
    ELSE Refused

\* invoiceRequestFromBinding, buildLightningInvoiceBody: a package is asked for
\* by its id alone, a value of a range by the amount.
RequestedOf(denomination) ==
    IF denomination.kind = "package"
    THEN [packageId |-> denomination.packageId, value |-> Absent]
    ELSE [packageId |-> Absent, value |-> denomination.faceValue]

=============================================================================
