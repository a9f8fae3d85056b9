-------------------------- MODULE GiftCardAcquisition --------------------------
(***************************************************************************)
(* One gift card of one Permit, product and value:                         *)
(* src/src/application/bitrefill-gift-card.ts (acquire and reconcile), the *)
(* rows it keeps in the store, the shop it buys from and the daemon it     *)
(* pays with, run by several processes that may die at any point.          *)
(*                                                                         *)
(* The acquisition record has five stages to resume from, two              *)
(* Authorizations (to acquire the card, and below it to transfer the       *)
(* value), and an execution row for each.  Every transaction and every     *)
(* await is a step; what a call does between two of them is part of the    *)
(* step before.  Of the record it last read a call keeps which             *)
(* Authorizations it named (auth), and decides by them, however old.       *)
(*                                                                         *)
(* An Authorization and its rows are named by the idempotency key it was   *)
(* taken under.  A later call resolves its actions at a later time, which  *)
(* the digests cover, so it is never handed an Authorization of an earlier *)
(* call: a known key is a conflict.  What the engine refuses for other     *)
(* reasons than the Permit's status and the payment's identity             *)
(* (AuthorizationLedger) is one of the failures of Throws.  Shop and       *)
(* daemon are external.                                                    *)
(***************************************************************************)
EXTENDS AuthorizationLifecycle, WavelengthDaemon

CONSTANTS
    Keys,              \* idempotency keys
    Processes,
    Reconcilers,       \* processes that call reconcile, which no command does yet
    Payment,           \* the payment hash of the shop's invoice
    OperatorCommands,  \* statuses an operator may ask for
    MaxPosts,          \* bound on the invoices asked of the shop
    MaxMishaps,        \* bound on the crashes and operator commands of a run
    None

AcquisitionStatus ==
    {"CREATED", "INVOICE_DISPATCHED", "INVOICE_KNOWN", "INVOICE_AMBIGUOUS",
     "WAVELENGTH_PREPARED", "AUTHORIZED", "SEND_DISPATCHED", "PAYMENT_AMBIGUOUS",
     "PAYMENT_CONFIRMED", "DELIVERY_PENDING", "SUCCEEDED", "FAILED_SAFE",
     "RECONCILIATION_REQUIRED"}

\* posted: invoicePosted; invoice: the invoice id is known; auth: the key of
\* the two Authorizations, whose ids are always saved together.
AcquisitionRows ==
    [key : Keys, status : AcquisitionStatus, posted : BOOLEAN, invoice : BOOLEAN,
     auth : Keys \cup {None}]

AuthorizationRows == [status : AuthorizationStatus, externalActionAttempted : BOOLEAN]

ASSUME AcquisitionAssumption ==
    /\ Payment \in PaymentHashes
    /\ Reconcilers \subseteq Processes
    /\ OperatorCommands \subseteq AuthorizationStatus \ {"AUTHORIZED"}
    /\ MaxPosts \in Nat /\ MaxSends \in Nat /\ MaxMishaps \in Nat
    /\ None \notin Keys \cup AcquisitionRows \cup AuthorizationRows

VARIABLES
    permitActive,     \* the Permit is ACTIVE
    acquisition,      \* the row of gift_card_acquisitions
    acquireAuths,     \* the Authorizations to acquire, by key
    transferAuths,    \* the Authorizations to transfer, by the key of the parent
    instruments,      \* instrument_executions of the acquire Authorizations
    funding,          \* funding_executions of the transfer Authorizations
    secret,           \* the redemption secret is on disk
    call,             \* what each process is doing
    posts,            \* invoices asked of the shop
    shop,             \* the shop's invoice and order
    mishaps           \* crashes and operator commands so far

auths == <<acquireAuths, transferAuths>>
executions == <<instruments, funding>>
store == <<permitActive, acquisition, auths, executions>>
outside == <<posts, shop, daemon>>

\* Everything but the calls, and everything but the record and the calls.
world == <<store, secret, outside, mishaps>>
besidesRecord == <<permitActive, auths, executions, secret, outside, mishaps>>
vars == <<world, call>>

Idle == [pc |-> "idle", key |-> None, auth |-> None, seen |-> None, result |-> None,
         write |-> None]

Ends(x) == call' = [call EXCEPT ![x] = Idle]
Goes(x, pc) == call' = [call EXCEPT ![x].pc = pc]

\* The call is about to write a status to the record.
Writes(x, status) == call' = [call EXCEPT ![x].pc = "saving", ![x].write = status]

\* The call goes on from a record it has just read or written.
GoesOn(x, pc, record) == call' = [call EXCEPT ![x].pc = pc, ![x].auth = record.auth]

\* Authorizations that hold the authority to make the payment.
Holding ==
    {k \in Keys : /\ transferAuths[k] # None
                  /\ authorizationReservesAuthority(transferAuths[k].status)}

NewAuthorization == [status |-> "AUTHORIZED", externalActionAttempted |-> FALSE]

-----------------------------------------------------------------------------
(* acquire: the slot, the claim and the invoice.                           *)

\* The gates are open and the Permit is the ACTIVE one; the product is resolved.
StartAcquire(x) ==
    /\ call[x].pc = "idle"
    /\ permitActive
    /\ \E key \in Keys :
          call' = [call EXCEPT ![x] = [Idle EXCEPT !.pc = "beginning", !.key = key]]
    /\ UNCHANGED world

InvoicePosted == acquisition # None /\ acquisition.posted

NewAcquisition(key) ==
    [key |-> key, status |-> "CREATED", posted |-> FALSE, invoice |-> FALSE, auth |-> None]

\* Statuses from which a restarted acquire only reconciles.
Reconciling ==
    {"SEND_DISPATCHED", "PAYMENT_AMBIGUOUS", "PAYMENT_CONFIRMED", "DELIVERY_PENDING",
     "RECONCILIATION_REQUIRED"}

\* reconcileSystems, up to its first await: without an invoice there is nothing
\* to ask for.
Reconciles(x, record) ==
    IF record.invoice
    THEN GoesOn(x, "consuming", record)
    ELSE Writes(x, "RECONCILIATION_REQUIRED")

LostInvoice(record) == record.status = "INVOICE_DISPATCHED" /\ ~record.invoice

\* resumeAfterInvoiceMutation, by the record that was read.
Resumes(x, record) ==
    CASE record.status \in {"INVOICE_AMBIGUOUS", "SUCCEEDED"} -> Ends(x)
      [] record.status \in Reconciling -> Reconciles(x, record)
      [] LostInvoice(record) /\ record.key # call[x].key -> Ends(x)
      [] LostInvoice(record) /\ record.key = call[x].key -> Writes(x, "INVOICE_AMBIGUOUS")
      [] OTHER -> GoesOn(x, "checking", record)

\* The Permit must allow the purchase as long as no invoice was asked for; then
\* beginGiftCardAcquisition finds the record of the slot, whoever made it, or makes one.
BeginAcquisition(x) ==
    LET record == IF acquisition = None THEN NewAcquisition(call[x].key) ELSE acquisition IN
    /\ call[x].pc = "beginning"
    /\ permitActive \/ InvoicePosted
    /\ acquisition' = record
    /\ IF record.posted THEN Resumes(x, record) ELSE Goes(x, "claiming")
    /\ UNCHANGED besidesRecord

\* Faulty variant: any record may be claimed.
ClaimableAlways == TRUE

Claimable == ~acquisition.posted /\ acquisition.status = "CREATED"

\* claimGiftCardInvoiceDispatch: only one call may ask the shop for an invoice.
ClaimInvoiceDispatch(x) ==
    /\ call[x].pc = "claiming"
    /\ IF Claimable
       THEN /\ acquisition' = [acquisition EXCEPT !.status = "INVOICE_DISPATCHED",
                                                  !.posted = TRUE]
            /\ Goes(x, "posting")
       ELSE Goes(x, "rereading") /\ UNCHANGED acquisition
    /\ UNCHANGED besidesRecord

\* The invoice was claimed by another call: the record is read again.
ResumeClaimed(x) ==
    /\ call[x].pc = "rereading"
    /\ Resumes(x, acquisition)
    /\ UNCHANGED world

\* createExactLightningInvoice: the request leaves the process.
PostInvoice(x) ==
    /\ call[x].pc = "posting"
    /\ posts < MaxPosts
    /\ posts' = posts + 1
    /\ Goes(x, "posted")
    /\ UNCHANGED <<store, secret, shop, daemon, mishaps>>

InvoiceCreated(x) ==
    LET known == [acquisition EXCEPT !.status = "INVOICE_KNOWN", !.invoice = TRUE] IN
    /\ call[x].pc = "posted"
    /\ shop # "none"
    /\ acquisition' = known
    /\ GoesOn(x, "checking", known)
    /\ UNCHANGED besidesRecord

\* The answer is uncertain, or it says that there is no invoice.
InvoiceFailed(x) ==
    /\ call[x].pc = "posted"
    /\ \/ Writes(x, "INVOICE_AMBIGUOUS")
       \/ shop = "none" /\ Writes(x, "RECONCILIATION_REQUIRED")
    /\ UNCHANGED world

-----------------------------------------------------------------------------
(* acquire: preparing and authorizing the payment.                         *)

\* The invoice is fetched, by a resumed call twice (refetchBolt11): it must
\* still be unpaid.
InvoiceStillUnpaid(x) ==
    /\ call[x].pc = "checking"
    /\ shop = "unpaid"
    /\ Goes(x, "preparing")
    /\ UNCHANGED world

\* prepareMainnetPayment answers and the preparation is written to the record
\* as it is by now.
Prepared(x) ==
    LET prepared == [acquisition EXCEPT !.status = "WAVELENGTH_PREPARED"] IN
    /\ call[x].pc = "preparing"
    /\ acquisition' = prepared
    /\ GoesOn(x, "authorizing", prepared)
    /\ UNCHANGED besidesRecord

\* authorizeAcquire: the Authorization the record named, or a new one.
AuthorizeAcquire(x) ==
    LET named == call[x].auth
        key == call[x].key IN
    /\ call[x].pc = "authorizing"
    /\ IF named # None
       THEN UNCHANGED acquireAuths
       ELSE /\ permitActive
            /\ acquireAuths[key] = None
            /\ acquireAuths' = [acquireAuths EXCEPT ![key] = NewAuthorization]
    /\ call' = [call EXCEPT ![x].pc = "transferring", ![x].key = None,
                            ![x].auth = IF named # None THEN named ELSE key]
    /\ UNCHANGED <<permitActive, acquisition, transferAuths, executions, secret, outside,
                   mishaps>>

\* Faulty variant: the transfer already authorized is used whatever
\* preparation it was authorized for.
AuthorizeTransferOfAny(x) ==
    LET parent == call[x].auth IN
    /\ call[x].pc = "transferring"
    /\ \/ transferAuths[parent] # None /\ UNCHANGED transferAuths
       \/ /\ permitActive
          /\ acquireAuths[parent].status # "RELEASED"
          /\ transferAuths[parent] = None /\ Holding = {}
          /\ transferAuths' = [transferAuths EXCEPT ![parent] = NewAuthorization]
    /\ Goes(x, "savingIds")
    /\ UNCHANGED <<permitActive, acquisition, acquireAuths, executions, secret, outside,
                   mishaps>>

\* authorizeTransfer: a transfer below the same parent was authorized for
\* another preparation; without one, the payment must be free.
AuthorizeTransfer(x) ==
    LET parent == call[x].auth IN
    /\ call[x].pc = "transferring"
    /\ permitActive
    /\ acquireAuths[parent].status # "RELEASED"
    /\ transferAuths[parent] = None
    /\ Holding = {}
    /\ transferAuths' = [transferAuths EXCEPT ![parent] = NewAuthorization]
    /\ Goes(x, "savingIds")
    /\ UNCHANGED <<permitActive, acquisition, acquireAuths, executions, secret, outside,
                   mishaps>>

SaveIds(x) ==
    /\ call[x].pc = "savingIds"
    /\ acquisition' = [acquisition EXCEPT !.status = "AUTHORIZED", !.auth = call[x].auth]
    /\ Goes(x, "reading")
    /\ UNCHANGED besidesRecord

-----------------------------------------------------------------------------
(* sendOnce.                                                               *)

\* The rows are read and judged now, before the awaits of revalidateBeforeSend.
RowsAllowSend(k) ==
    /\ acquireAuths[k].status \in {"AUTHORIZED", "EXECUTING"}
    /\ transferAuths[k].status =
          IF funding[k] = "none" THEN "AUTHORIZED" ELSE "EXECUTING"

ReadForSend(x) ==
    LET k == call[x].auth IN
    /\ call[x].pc = "reading"
    /\ \/ funding[k] = "dispatched" /\ Goes(x, "consuming")
       \/ /\ funding[k] # "dispatched"
          /\ RowsAllowSend(k)
          /\ Goes(x, "revalidating")
    /\ UNCHANGED world

Revalidated(x) ==
    /\ call[x].pc = "revalidating"
    /\ permitActive
    /\ shop = "unpaid"
    /\ Goes(x, "instrumenting")
    /\ UNCHANGED world

\* Faulty variant: the row is written and the Authorization left as it was.
BeginInstrumentOnly(x) ==
    /\ call[x].pc = "instrumenting"
    /\ instruments' = [instruments EXCEPT ![call[x].auth] = TRUE]
    /\ Goes(x, "funding")
    /\ UNCHANGED <<permitActive, acquisition, auths, funding, secret, outside, mishaps>>

\* beginInstrumentExecution, unless another call has begun it.  The invoice that
\* is written to the row next is read by nothing here.
BeginInstrumentExecution(x) ==
    LET k == call[x].auth IN
    /\ call[x].pc = "instrumenting"
    /\ IF instruments[k]
       THEN UNCHANGED <<instruments, acquireAuths>>
       ELSE /\ TransitionAccepted(acquireAuths[k], "EXECUTING")
            /\ acquireAuths' = [acquireAuths EXCEPT ![k] =
                   transitionAuthorization(@, "EXECUTING")]
            /\ instruments' = [instruments EXCEPT ![k] = TRUE]
    /\ Goes(x, "funding")
    /\ UNCHANGED <<permitActive, acquisition, transferAuths, funding, secret, outside, mishaps>>

\* beginFundingExecution, unless another call has begun it.
BeginFundingExecution(x) ==
    LET k == call[x].auth IN
    /\ call[x].pc = "funding"
    /\ IF funding[k] # "none"
       THEN UNCHANGED <<funding, transferAuths>>
       ELSE /\ TransitionAccepted(transferAuths[k], "EXECUTING")
            /\ \A other \in Keys : funding[other] = "none"
            /\ transferAuths' = [transferAuths EXCEPT ![k] =
                   transitionAuthorization(@, "EXECUTING")]
            /\ funding' = [funding EXCEPT ![k] = "begun"]
    /\ Goes(x, "marking")
    /\ UNCHANGED <<permitActive, acquisition, acquireAuths, instruments, secret, outside,
                   mishaps>>

\* Faulty variant: the Send is not put on record.
MarkNothing(x) ==
    /\ call[x].pc = "marking"
    /\ Writes(x, "SEND_DISPATCHED")
    /\ UNCHANGED world

\* markSendDispatched, and SEND_DISPATCHED on the record next.  A row that is
\* marked already is passed over.
MarkSendDispatched(x) ==
    /\ call[x].pc = "marking"
    /\ funding' = [funding EXCEPT ![call[x].auth] = "dispatched"]
    /\ Writes(x, "SEND_DISPATCHED")
    /\ UNCHANGED <<permitActive, acquisition, auths, instruments, secret, outside, mishaps>>

\* dispatchAuthorizedSend, of the Authorization as it is by now.
DispatchSend(x) ==
    /\ call[x].pc = "dispatching"
    /\ transferAuths[call[x].auth].status = "EXECUTING"
    /\ SendLeaves(Payment)
    /\ Goes(x, "sent")
    /\ UNCHANGED <<store, secret, posts, shop, mishaps>>

\* The receipt arrives: the record is read again and reconciled.
SendAnswered(x) ==
    /\ call[x].pc = "sent"
    /\ activity[Payment] # "none"
    /\ Reconciles(x, acquisition)
    /\ UNCHANGED world

\* The answer is uncertain: the Send may have been made.
SendUncertain(x) ==
    /\ call[x].pc = "sent"
    /\ Goes(x, "doubting")
    /\ UNCHANGED world

-----------------------------------------------------------------------------
(* reconcile, called by acquire or on its own.                             *)

\* What reconcile does with the record it reads.
StartReconcile(x) ==
    /\ call[x].pc = "idle"
    /\ x \in Reconcilers
    /\ acquisition # None
    /\ acquisition.status \notin {"SUCCEEDED", "FAILED_SAFE"}
    /\ Reconciles(x, acquisition)
    /\ UNCHANGED world

\* What the funding of the snapshot's Authorization has come to.
Proceeds(x, result) ==
    call' = [call EXCEPT ![x].pc = "askingShop", ![x].result = result]

\* consumeConfirmedFunding, up to the inspection.
ConsumeFunding(x) ==
    LET k == call[x].auth
        status == transferAuths[k].status IN
    /\ call[x].pc = "consuming"
    /\ IF k = None
       THEN Proceeds(x, "SKIPPED")
       ELSE \/ status = "SUCCEEDED" /\ Proceeds(x, "CONFIRMED")
            \/ status \in {"AUTHORIZED", "RELEASED"} /\ Proceeds(x, "SKIPPED")
            \/ status = "FAILED_SAFE" /\ Writes(x, "PAYMENT_AMBIGUOUS")
            \/ /\ status \in {"EXECUTING", "AMBIGUOUS"}
               /\ call' = [call EXCEPT ![x].pc = "inspecting", ![x].seen = status]
    /\ UNCHANGED world

\* Faulty variant: an Authorization seen AMBIGUOUS is left so even by a
\* confirmed payment.
ShownOfExecuting(x, result) ==
    \/ result = "PENDING" /\ Proceeds(x, "PENDING")
    \/ result = "SUCCEEDED" /\ call[x].seen = "EXECUTING" /\ Goes(x, "confirming")
    \/ /\ result # "PENDING"
       /\ IF call[x].seen = "AMBIGUOUS"
          THEN Writes(x, "PAYMENT_AMBIGUOUS")
          ELSE result # "SUCCEEDED" /\ Goes(x, "doubting")

\* What an inspection leads to; an Authorization seen AMBIGUOUS and not
\* confirmed is left so.
Shown(x, result) ==
    \/ result = "PENDING" /\ Proceeds(x, "PENDING")
    \/ result = "SUCCEEDED" /\ Goes(x, "confirming")
    \/ /\ result \notin {"PENDING", "SUCCEEDED"}
       /\ IF call[x].seen = "AMBIGUOUS"
          THEN Writes(x, "PAYMENT_AMBIGUOUS")
          ELSE Goes(x, "doubting")

\* InspectActivity answers, or in a way that shows nothing.
Inspected(x) ==
    /\ call[x].pc = "inspecting"
    /\ funding[call[x].auth] # "none"
    /\ Shown(x, mapReconciliation(activity[Payment]))
    /\ UNCHANGED world

InspectedNothing(x) ==
    /\ call[x].pc = "inspecting"
    /\ funding[call[x].auth] # "none"
    /\ Shown(x, "AMBIGUOUS")
    /\ UNCHANGED world

Verdict(pc) == IF pc = "confirming" THEN "SUCCEEDED" ELSE "AMBIGUOUS"

\* markSucceeded or markAmbiguous of the transfer.
SettleTransfer(x) ==
    LET k == call[x].auth
        verdict == Verdict(call[x].pc) IN
    /\ call[x].pc \in {"confirming", "doubting"}
    /\ TransitionAccepted(transferAuths[k], verdict)
    /\ transferAuths' = [transferAuths EXCEPT ![k] = transitionAuthorization(@, verdict)]
    /\ Writes(x, IF verdict = "SUCCEEDED" THEN "PAYMENT_CONFIRMED" ELSE "PAYMENT_AMBIGUOUS")
    /\ UNCHANGED <<permitActive, acquisition, acquireAuths, executions, secret, outside,
                   mishaps>>

\* The invoice as the shop tells it.
AskShop(x) ==
    /\ call[x].pc = "askingShop"
    /\ \/ shop \in {"expired", "failed"} /\ Writes(x, "RECONCILIATION_REQUIRED")
       \/ /\ shop \notin {"expired", "failed"}
          /\ shop = "paid" \/ call[x].result = "PENDING"
          /\ Writes(x, "DELIVERY_PENDING")
       \/ /\ call[x].result # "PENDING"
          /\ shop = "unpaid"
          /\ Writes(x, "RECONCILIATION_REQUIRED")
       \/ /\ call[x].result # "PENDING"
          /\ shop \in {"complete", "delivered"}
          /\ Goes(x, "askingOrder")
    /\ UNCHANGED world

\* Faulty variant: a complete invoice is taken for a delivered order.
AskInvoiceOnly(x) ==
    /\ call[x].pc = "askingOrder"
    /\ Goes(x, "storing")
    /\ UNCHANGED world

AskOrder(x) ==
    /\ call[x].pc = "askingOrder"
    /\ IF shop = "delivered"
       THEN Goes(x, "storing")
       ELSE Writes(x, "RECONCILIATION_REQUIRED")
    /\ UNCHANGED world

\* An invoice or order of unknown status or with another id, or without the secret.
AskedInVain(x) ==
    /\ call[x].pc \in {"askingShop", "askingOrder"}
    /\ Writes(x, "RECONCILIATION_REQUIRED")
    /\ UNCHANGED world

StoreSecret(x) ==
    /\ call[x].pc = "storing"
    /\ secret' = TRUE
    /\ Goes(x, "crediting")
    /\ UNCHANGED <<store, outside, mishaps>>

SecretNotStored(x) ==
    /\ call[x].pc = "storing"
    /\ Writes(x, "RECONCILIATION_REQUIRED")
    /\ UNCHANGED world

\* markSucceeded of the acquire Authorization the snapshot names; a refusal is
\* taken for a failure to store the secret.
SettleAcquire(x) ==
    LET k == call[x].auth IN
    /\ call[x].pc = "crediting"
    /\ IF k = None
       THEN Writes(x, "SUCCEEDED") /\ UNCHANGED acquireAuths
       ELSE IF TransitionAccepted(acquireAuths[k], "SUCCEEDED")
       THEN /\ acquireAuths' = [acquireAuths EXCEPT ![k] =
                   transitionAuthorization(@, "SUCCEEDED")]
            /\ Writes(x, "SUCCEEDED")
       ELSE Writes(x, "RECONCILIATION_REQUIRED") /\ UNCHANGED acquireAuths
    /\ UNCHANGED <<permitActive, acquisition, transferAuths, executions, secret, outside,
                   mishaps>>

\* updateGiftCardAcquisition: the status is written whatever it is by now.
Save(x) ==
    /\ call[x].pc = "saving"
    /\ acquisition' = [acquisition EXCEPT !.status = call[x].write]
    /\ CASE call[x].write = "SEND_DISPATCHED" ->
              call' = [call EXCEPT ![x].pc = "dispatching", ![x].write = None]
         [] call[x].write = "PAYMENT_CONFIRMED" ->
              call' = [call EXCEPT ![x].pc = "askingShop", ![x].write = None,
                                   ![x].result = "CONFIRMED"]
         [] OTHER -> Ends(x)
    /\ UNCHANGED besidesRecord

-----------------------------------------------------------------------------
(* How a call ends early.                                                  *)

\* A peer answers with an error, the engine refuses, a check fails or a
\* transaction throws: another call has begun or marked the row, or has moved
\* the Authorization.
Throws(x) ==
    LET k == call[x].auth IN
    /\ \/ call[x].pc \in {"beginning", "claiming", "posted", "checking", "preparing",
                          "authorizing", "transferring", "reading",
                          "revalidating", "sent", "inspecting", "askingShop", "askingOrder"}
       \/ /\ call[x].pc = "instrumenting"
          /\ instruments[k] \/ ~TransitionAccepted(acquireAuths[k], "EXECUTING")
       \/ /\ call[x].pc = "funding"
          /\ \/ ~TransitionAccepted(transferAuths[k], "EXECUTING")
             \/ \E other \in Keys : funding[other] # "none"
       \/ call[x].pc = "marking" /\ funding[k] = "dispatched"
       \/ call[x].pc = "dispatching" /\ transferAuths[k].status # "EXECUTING"
       \/ /\ call[x].pc \in {"confirming", "doubting"}
          /\ ~TransitionAccepted(transferAuths[k], Verdict(call[x].pc))
    /\ Ends(x)
    /\ UNCHANGED world

Crash(x) ==
    /\ call[x].pc # "idle"
    /\ mishaps < MaxMishaps
    /\ mishaps' = mishaps + 1
    /\ Ends(x)
    /\ UNCHANGED <<store, secret, outside>>

-----------------------------------------------------------------------------
(* The operator, the shop and the daemon.                                  *)

\* `authorization` commands of the CLI, of either Authorization.
Moved(rows, k, requested) ==
    /\ rows[k] # None
    /\ requested # rows[k].status
    /\ TransitionAccepted(rows[k], requested)

Operator(k) ==
    /\ \E requested \in OperatorCommands :
          \/ /\ Moved(acquireAuths, k, requested)
             /\ acquireAuths' = [acquireAuths EXCEPT ![k] =
                    transitionAuthorization(@, requested)]
             /\ UNCHANGED transferAuths
          \/ /\ Moved(transferAuths, k, requested)
             /\ transferAuths' = [transferAuths EXCEPT ![k] =
                    transitionAuthorization(@, requested)]
             /\ UNCHANGED acquireAuths
    /\ mishaps < MaxMishaps
    /\ mishaps' = mishaps + 1
    /\ UNCHANGED <<permitActive, acquisition, executions, secret, call, outside>>

Revoke ==
    /\ permitActive
    /\ permitActive' = FALSE
    /\ mishaps < MaxMishaps
    /\ mishaps' = mishaps + 1
    /\ UNCHANGED <<acquisition, auths, executions, secret, call, outside>>

\* An invoice asked for is made, however late; it expires or is paid, and then
\* the card is delivered or not.
ShopMoves ==
    /\ \/ shop = "none" /\ posts > 0 /\ shop' = "unpaid"
       \/ shop = "unpaid" /\ shop' = "expired"
       \/ shop = "unpaid" /\ activity[Payment] \in {"complete", "overspent"} /\ shop' = "paid"
       \/ shop = "paid" /\ shop' \in {"complete", "failed"}
       \/ shop = "complete" /\ shop' = "delivered"
    /\ UNCHANGED <<store, secret, call, posts, daemon, mishaps>>

DaemonMoves ==
    /\ Pays(Payment) \/ Finishes(Payment)
    /\ UNCHANGED <<store, secret, call, posts, shop, mishaps>>

-----------------------------------------------------------------------------
Init ==
    /\ permitActive = TRUE
    /\ acquisition = None
    /\ acquireAuths = [k \in Keys |-> None]
    /\ transferAuths = [k \in Keys |-> None]
    /\ instruments = [k \in Keys |-> FALSE]
    /\ funding = [k \in Keys |-> "none"]
    /\ secret = FALSE
    /\ call = [x \in Processes |-> Idle]
    /\ posts = 0
    /\ shop = "none"
    /\ DaemonInit
    /\ mishaps = 0

\* The steps of a call once it has begun; one of them is always enabled.
Step(x) ==
    \/ BeginAcquisition(x) \/ ClaimInvoiceDispatch(x) \/ ResumeClaimed(x)
    \/ PostInvoice(x) \/ InvoiceCreated(x) \/ InvoiceFailed(x)
    \/ InvoiceStillUnpaid(x) \/ Prepared(x) \/ AuthorizeAcquire(x) \/ AuthorizeTransfer(x)
    \/ SaveIds(x) \/ ReadForSend(x) \/ Revalidated(x) \/ BeginInstrumentExecution(x)
    \/ BeginFundingExecution(x) \/ MarkSendDispatched(x)
    \/ DispatchSend(x) \/ SendAnswered(x) \/ SendUncertain(x)
    \/ ConsumeFunding(x) \/ Inspected(x) \/ InspectedNothing(x) \/ SettleTransfer(x)
    \/ AskShop(x) \/ AskOrder(x) \/ AskedInVain(x) \/ StoreSecret(x) \/ SecretNotStored(x)
    \/ SettleAcquire(x) \/ Save(x) \/ Throws(x)

Next ==
    \/ \E x \in Processes : StartAcquire(x) \/ StartReconcile(x) \/ Step(x) \/ Crash(x)
    \/ \E k \in Keys : Operator(k)
    \/ Revoke \/ ShopMoves \/ DaemonMoves

Spec == Init /\ [][Next]_vars

\* Every await of a call ends, so the process goes on until the call ends.
FairSpec == Spec /\ \A x \in Processes : WF_vars(Step(x))

\* Moreover reconciliation is kept up, and daemon, shop and disk do not fail
\* every time.
PatientSpec ==
    /\ FairSpec
    /\ \A x \in Reconcilers :
          /\ SF_vars(StartReconcile(x)) /\ SF_vars(Inspected(x))
          /\ SF_vars(AskShop(x)) /\ SF_vars(AskOrder(x)) /\ SF_vars(StoreSecret(x))

-----------------------------------------------------------------------------
(* Properties.                                                             *)

ControlStates ==
    {"idle", "beginning", "claiming", "rereading", "posting", "posted", "checking",
     "preparing", "authorizing", "transferring", "savingIds", "reading", "revalidating",
     "instrumenting", "funding", "marking", "dispatching", "sent", "consuming",
     "inspecting", "confirming", "doubting", "askingShop", "askingOrder", "storing",
     "crediting", "saving"}

Calls ==
    [pc : ControlStates, key : Keys \cup {None}, auth : Keys \cup {None},
     seen : {"EXECUTING", "AMBIGUOUS", None},
     result : {"SKIPPED", "CONFIRMED", "PENDING", None},
     write : AcquisitionStatus \cup {None}]

\* The rows and the calls have the types the schemas give them, and the rows
\* agree: a transfer stands below an acquire Authorization, an execution row
\* belongs to an Authorization whose external action may have begun, and the
\* record names Authorizations that exist.
TypeOK ==
    /\ permitActive \in BOOLEAN
    /\ acquisition \in AcquisitionRows \cup {None}
    /\ acquireAuths \in [Keys -> AuthorizationRows \cup {None}]
    /\ transferAuths \in [Keys -> AuthorizationRows \cup {None}]
    /\ instruments \in [Keys -> BOOLEAN]
    /\ funding \in [Keys -> {"none", "begun", "dispatched"}]
    /\ secret \in BOOLEAN
    /\ call \in [Processes -> Calls]
    /\ posts \in 0..MaxPosts
    /\ shop \in {"none", "unpaid", "expired", "paid", "failed", "complete", "delivered"}
    /\ sends \in [PaymentHashes -> 0..MaxSends]
    /\ activity \in [PaymentHashes -> Entries]
    /\ mishaps \in 0..MaxMishaps
    /\ \A k \in Keys :
          /\ transferAuths[k] # None => acquireAuths[k] # None
          /\ instruments[k] =>
                acquireAuths[k] # None /\ acquireAuths[k].externalActionAttempted
          /\ funding[k] # "none" =>
                transferAuths[k] # None /\ transferAuths[k].externalActionAttempted
    /\ acquisition # None /\ acquisition.auth # None =>
          transferAuths[acquisition.auth] # None

\* The shop is asked for one invoice per slot, whatever processes, keys and
\* restarts there are (docs/THREAT_MODEL.md:111, "Unique active ... slot plus
\* claim-before-POST").
InvoicePostedOnce == posts <= 1

\* The daemon is handed the payment at most once (docs/ROADMAP.md:40, "may call
\* Wavelength mainnet Send **once**"), under both Authorizations and on record,
\* though a call decides by rows it read before it waited, and passes over a
\* mark another call has set: the transfer's row is marked dispatched, and the
\* Authorization above it was begun, with its row.
SendAtMostOnce ==
    /\ sends[Payment] <= 1
    /\ sends[Payment] > 0 =>
          \E k \in Keys : /\ funding[k] = "dispatched"
                          /\ instruments[k]
                          /\ acquireAuths[k].externalActionAttempted

\* The record says SUCCEEDED only of a card that was delivered and whose
\* secret is on disk.
SucceededMeansDelivered ==
    acquisition # None /\ acquisition.status = "SUCCEEDED" => secret /\ shop = "delivered"

\* Statuses from which a restarted acquire goes on towards the Send.
Proceeding == {"CREATED", "INVOICE_KNOWN", "WAVELENGTH_PREPARED", "AUTHORIZED"}

\* Once the payment was sent, a restarted acquire no longer prepares and sends
\* but reconciles (docs/THREAT_MODEL.md:112, "`markSendDispatched` before Send.
\* Restart reconciles; it does not resend.").
RestartReconciles == sends[Payment] > 0 => acquisition.status \notin Proceeding

Promise == INSTANCE PaymentPromise WITH
    Payments <- {Payment},
    reserved <- {p \in {Payment} : Holding # {}},
    sent <- [p \in {Payment} |-> sends[p]],
    made <- {p \in {Payment} : activity[p] = "complete"},
    recorded <- {p \in {Payment} :
                    \E k \in Keys : /\ transferAuths[k] # None
                                    /\ transferAuths[k].status = "SUCCEEDED"}

\* The acquisition too keeps the promise made of payments: authority is held
\* from before the Send for good, the Send happens once, and success is
\* recorded only of a payment that was made.
PromiseKept == Promise!PromiseSpec

\* A card that was delivered against a payment of the promised cost is recorded
\* as acquired in the end, its secret stored, however calls overlap, end early and
\* overwrite each other's record, if reconciliation is kept up.  (A payment that
\* cost more than was authorized stays a MISMATCH, for the operator.)
DeliveredIsRecorded ==
    shop = "delivered" /\ activity[Payment] = "complete"
        ~> acquisition # None /\ acquisition.status = "SUCCEEDED"

=============================================================================
