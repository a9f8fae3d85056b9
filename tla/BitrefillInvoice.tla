---------------------------- MODULE BitrefillInvoice ----------------------------
(***************************************************************************)
(* How an answer of the Bitrefill shop is read:                            *)
(* src/src/integrations/bitrefill/invoice.ts, the judgement of an invoice  *)
(* in adapter.ts and the classification of answers in rest-client.ts.      *)
(*                                                                         *)
(* An invoice is a record of what the shop wrote: its own status and that  *)
(* of its payment are the shop's words, trimmed and in lower case, and a   *)
(* field that is absent is Absent.                                         *)
(***************************************************************************)
EXTENDS Naturals, Sequences

CONSTANT Absent

\* The words for an invoice's status that are translated one by one.
InvoiceWords ==
    [unpaid |-> "UNPAID", payment_detected |-> "PAYMENT_DETECTED",
     payment_confirmed |-> "PAYMENT_CONFIRMED", pending |-> "PROCESSING",
     processing |-> "PROCESSING", complete |-> "COMPLETE", delivered |-> "COMPLETE",
     blocked |-> "BLOCKED", denied |-> "DENIED", payment_error |-> "PAYMENT_ERROR",
     failed |-> "FAILED", refunded |-> "REFUNDED"]

\* Words that say nothing of the payment.
SilentWords == {"", "unknown", "not_delivered"}

normalizeInvoiceStatus(word, paymentWord) ==
    CASE word \in DOMAIN InvoiceWords -> InvoiceWords[word]
      [] word \in SilentWords /\ paymentWord = "unpaid" -> "UNPAID"
      [] OTHER -> "UNKNOWN"

OrderWords ==
    [created |-> "CREATED", payment_detected |-> "PAYMENT_DETECTED",
     processing |-> "PROCESSING", pending |-> "PROCESSING", delivered |-> "DELIVERED",
     failed |-> "FAILED", refunded |-> "REFUNDED"]

normalizeOrderStatus(word) ==
    IF word \in DOMAIN OrderWords THEN OrderWords[word] ELSE "UNKNOWN"

UNEXPECTED_PAID_INVOICE_STATES ==
    {"PAYMENT_DETECTED", "PAYMENT_CONFIRMED", "PROCESSING", "COMPLETE"}

\* parseBitrefillInvoice refuses an invoice without an id, an order without
\* one, and a Lightning invoice without a payment request.
Parses(invoice) ==
    /\ invoice.id # Absent
    /\ \A i \in DOMAIN invoice.orders : invoice.orders[i].id # Absent
    /\ invoice.method = "lightning" => invoice.request

\* The order is for the product, value and, if it names one, the currency.
OrderIsFor(order, purchase) ==
    /\ order.product = purchase.product
    /\ order.faceValue = purchase.faceValue
    /\ order.currency \in {Absent, purchase.currency}

\* Faulty variant: the state of the order is not looked at.
AcceptedWithAnyOrder(invoice, purchase) ==
    /\ invoice.method = "lightning"
    /\ invoice.request
    /\ invoice.payment = "unpaid"
    /\ normalizeInvoiceStatus(invoice.status, invoice.payment) = "UNPAID"
    /\ Len(invoice.orders) = 1
    /\ OrderIsFor(invoice.orders[1], purchase)

\* assertUnpaidLightningInvoiceForAcquisition, of an invoice just created.
AcceptedAsCreated(invoice, purchase) ==
    /\ invoice.method = "lightning"
    /\ invoice.request
    /\ invoice.payment = "unpaid"
    /\ normalizeInvoiceStatus(invoice.status, invoice.payment) = "UNPAID"
    /\ Len(invoice.orders) = 1
    /\ normalizeOrderStatus(invoice.orders[1].status) = "CREATED"
    /\ OrderIsFor(invoice.orders[1], purchase)

\* The outcomes of a reconciliation, by the state they are recorded as: UNPAID
\* is the outcome PENDING, the others are AMBIGUOUS.
Readings == {"UNPAID", "AMBIGUOUS", "MISMATCH", "UNEXPECTED_PAYMENT"}

\* mapInvoiceReconciliation, as the state that reconcile records its result as.
mapInvoiceReconciliation(invoice, invoiceId, purchase) ==
    LET status == normalizeInvoiceStatus(invoice.status, invoice.payment)
        identified == /\ invoice.id = invoiceId
                      /\ Len(invoice.orders) = 1
                      /\ OrderIsFor(invoice.orders[1], purchase)
                      /\ invoice.method = "lightning"
        untouched == /\ invoice.payment = "unpaid"
                     /\ normalizeOrderStatus(invoice.orders[1].status) = "CREATED" IN
    CASE ~identified -> "MISMATCH"
      [] identified /\ status \in UNEXPECTED_PAID_INVOICE_STATES -> "UNEXPECTED_PAYMENT"
      [] identified /\ status = "UNPAID" -> IF untouched THEN "UNPAID" ELSE "MISMATCH"
      [] OTHER -> "AMBIGUOUS"

-----------------------------------------------------------------------------
(* The classes of answers to a request: the connection fails, the answer   *)
(* has an HTTP status, or its body cannot be read as JSON.                 *)

ConnectionFailures == {"timeout", "reset", "redirect", "malformed"}

\* Faulty variant: a conflict is taken for a refusal.
UncertainStatusButConflict(status) == status >= 500 \/ status = 408

\* An error status after which the shop may have acted all the same.
UncertainStatus(status) == status >= 500 \/ status \in {408, 409}

\* BitrefillError.ambiguous of an invoice request that was not answered well.
RequestIsAmbiguous(answer) ==
    \/ answer.kind \in ConnectionFailures
    \/ answer.kind = "status" /\ UncertainStatus(answer.status)

=============================================================================
