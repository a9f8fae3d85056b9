---------------------------- MODULE InstrumentInvoice ----------------------------
(***************************************************************************)
(* One unpaid Lightning invoice per Authorization:                         *)
(* src/src/application/bitrefill-instrument.ts (createInvoice, reconcile)  *)
(* with the instrument row of the store and the adapter's reconciliation,  *)
(* for one Permit, product and value, run by several processes that may    *)
(* die at any point.                                                       *)
(*                                                                         *)
(* Every transaction and every await is a step; what a call does between   *)
(* two of them is part of the step before.  An Authorization and its rows  *)
(* are named by the idempotency key it was taken under.  A call resolves   *)
(* its action at an instant (resolvedAt, in milliseconds), which the       *)
(* digest covers: it is handed an Authorization taken under its key only   *)
(* if both were resolved at the same instant, and a conflict otherwise.    *)
(*                                                                         *)
(* Only the shop knows what became of a request that left.  It is external,*)
(* and so is how it words an invoice that it made.                         *)
(***************************************************************************)
EXTENDS AuthorizationLifecycle, BitrefillInvoice

CONSTANTS
    Keys,              \* idempotency keys
    Instants,          \* the milliseconds at which actions are resolved
    Processes,
    OperatorCommands,  \* statuses an operator may ask for
    MaxPosts,          \* bound on the requests for an invoice under one key
    MaxMishaps,        \* bound on the crashes and operator commands of a run
    None

\* posted: invoicePostedAt is set; invoice: invoiceId is known.
InstrumentRows ==
    [posted : BOOLEAN, invoice : BOOLEAN,
     state : {"EXECUTING", "INVOICE_POSTED", "UNPAID", "UNEXPECTED_PAYMENT", "FAILED",
              "AMBIGUOUS", "MISMATCH"}]

AuthorizationRows ==
    [status : AuthorizationStatus, externalActionAttempted : BOOLEAN, instant : Instants]

ASSUME InstrumentAssumption ==
    /\ OperatorCommands \subseteq AuthorizationStatus \ {"AUTHORIZED"}
    /\ MaxPosts \in Nat /\ MaxMishaps \in Nat
    /\ None \notin Keys \cup Instants \cup InstrumentRows \cup AuthorizationRows
                   \cup AuthorizationStatus \cup Readings \cup {"FAILED_SAFE"}

VARIABLES
    permitActive,     \* the Permit is ACTIVE
    authorizations,   \* the Authorization taken under each key
    instruments,      \* instrument_executions, by the key of the Authorization
    call,             \* what each process is doing
    posts,            \* requests for an invoice that left, by key
    shop,             \* what became of the request at the shop, by key
    mishaps           \* crashes and operator commands so far

store == <<permitActive, authorizations, instruments>>
outside == <<posts, shop>>
world == <<store, outside, mishaps>>
vars == <<world, call>>

Idle == [pc |-> "idle", key |-> None, instant |-> None, seen |-> None, result |-> None]

Ends(x) == call' = [call EXCEPT ![x] = Idle]
Goes(x, pc) == call' = [call EXCEPT ![x].pc = pc]

\* The call is about to move the Authorization, and to note it on the row next
\* if it is a createInvoice.
Settles(x, pc, verdict) == call' = [call EXCEPT ![x].pc = pc, ![x].result = verdict]

-----------------------------------------------------------------------------
(* The shop (external).                                                    *)

Purchase == [product |-> "card", faceValue |-> 5000, currency |-> "USD"]

\* The shop made the invoice of the request.
Made(k) == shop[k] \in {"unpaid", "paid", "closed"}

ShopMoves(k) ==
    /\ \/ shop[k] = "asked" /\ \E fate \in {"unpaid", "refused"} : shop' = [shop EXCEPT ![k] = fate]
       \/ shop[k] = "unpaid" /\ \E fate \in {"paid", "closed"} : shop' = [shop EXCEPT ![k] = fate]
    /\ UNCHANGED <<store, posts, mishaps, call>>

\* How the shop may word an invoice; of an unpaid one it may also show no order yet.
Words ==
    [unpaid |-> {"unpaid", "not_delivered"},
     paid |-> {"payment_detected", "complete", "not_delivered"},
     closed |-> {"denied", "refunded"}]

Shown(k) ==
    {[id |-> k, status |-> word, payment |-> IF shop[k] = "paid" THEN "paid" ELSE "unpaid",
      method |-> "lightning", request |-> TRUE, expiresAt |-> Absent, orders |-> orders] :
        word \in Words[shop[k]],
        orders \in {<<[id |-> "order", status |-> "created", product |-> Purchase.product,
                      faceValue |-> Purchase.faceValue, currency |-> Purchase.currency]>>, <<>>}}

-----------------------------------------------------------------------------
(* createInvoice.                                                          *)

\* requireInstrumentGrant and the live gates pass; the product is resolved.
StartCreate(x) ==
    /\ call[x].pc = "idle"
    /\ permitActive
    /\ \E k \in Keys, instant \in Instants :
          call' = [call EXCEPT ![x] =
              [Idle EXCEPT !.pc = "authorizing", !.key = k, !.instant = instant]]
    /\ UNCHANGED world

\* authorizeBitrefillPersonal under a new key.
AuthorizeNew(x) ==
    LET k == call[x].key IN
    /\ call[x].pc = "authorizing"
    /\ permitActive
    /\ authorizations[k] = None
    /\ authorizations' = [authorizations EXCEPT ![k] =
           [status |-> "AUTHORIZED", externalActionAttempted |-> FALSE,
            instant |-> call[x].instant]]
    /\ Goes(x, "revalidating")
    /\ UNCHANGED <<permitActive, instruments, outside, mishaps>>

\* The key is known.  An Authorization still open is reconciled, a settled one
\* is returned, one in AUTHORIZED is executed by this call too.
AuthorizeKnown(x) ==
    LET auth == authorizations[call[x].key] IN
    /\ call[x].pc = "authorizing"
    /\ permitActive
    /\ auth # None
    /\ CASE auth.instant # call[x].instant -> Ends(x)
         [] auth.instant = call[x].instant /\ auth.status = "AUTHORIZED" -> Goes(x, "revalidating")
         [] auth.instant = call[x].instant /\ auth.status \in {"EXECUTING", "AMBIGUOUS"} ->
                Goes(x, "reconciling")
         [] OTHER -> Ends(x)
    /\ UNCHANGED world

\* revalidateBeforeExecuting: the product is fetched again, then the Permit is
\* read again; the Authorization is the one read before.
Revalidated(x) ==
    /\ call[x].pc = "revalidating"
    /\ permitActive
    /\ Goes(x, "beginning")
    /\ UNCHANGED world

Begun == [posted |-> FALSE, invoice |-> FALSE, state |-> "EXECUTING"]

\* Faulty variant: a second call takes over the row of the first.
CanBeginAgain(k) == TransitionAccepted(authorizations[k], "EXECUTING")

CanBegin(k) ==
    /\ instruments[k] = None
    /\ TransitionAccepted(authorizations[k], "EXECUTING")

\* Faulty variant: the row is taken and the status left alone.
BeginRowOnly(x) ==
    LET k == call[x].key IN
    /\ call[x].pc = "beginning"
    /\ CanBegin(k)
    /\ instruments' = [instruments EXCEPT ![k] = Begun]
    /\ Goes(x, "marking")
    /\ UNCHANGED <<permitActive, authorizations, outside, mishaps>>

\* beginInstrumentExecution: the status and the row in one transaction.
BeginInstrumentExecution(x) ==
    LET k == call[x].key IN
    /\ call[x].pc = "beginning"
    /\ CanBegin(k)
    /\ authorizations' = [authorizations EXCEPT ![k] = transitionAuthorization(@, "EXECUTING")]
    /\ instruments' = [instruments EXCEPT ![k] = Begun]
    /\ Goes(x, "marking")
    /\ UNCHANGED <<permitActive, outside, mishaps>>

\* markInstrumentInvoicePosted
MarkInvoicePosted(x) ==
    LET k == call[x].key IN
    /\ call[x].pc = "marking"
    /\ ~instruments[k].posted
    /\ instruments' = [instruments EXCEPT ![k].posted = TRUE, ![k].state = "INVOICE_POSTED"]
    /\ Goes(x, "posting")
    /\ UNCHANGED <<permitActive, authorizations, outside, mishaps>>

\* createAuthorizedInvoice: the request leaves if the Authorization, read again,
\* is still EXECUTING and what it is for can be bought; a local refusal
\* (assertInvoiceMatchesRevalidatedBinding) fails the call with nothing posted.
PostInvoice(x) ==
    LET k == call[x].key IN
    /\ call[x].pc = "posting"
    /\ \/ /\ authorizations[k].status = "EXECUTING"
          /\ posts[k] < MaxPosts
          /\ posts' = [posts EXCEPT ![k] = @ + 1]
          /\ shop' = [shop EXCEPT ![k] = IF @ = "none" THEN "asked" ELSE @]
          /\ Goes(x, "posted")
       \/ Settles(x, "settling", "FAILED_SAFE") /\ UNCHANGED outside
    /\ UNCHANGED <<store, mishaps>>

\* The invoice arrives and is the one asked for; what is recorded of it needs no
\* regard to the status of the Authorization by now.
InvoiceCreated(x) ==
    LET k == call[x].key IN
    /\ call[x].pc = "posted"
    /\ Made(k)
    /\ \E invoice \in Shown(k) : Parses(invoice) /\ AcceptedAsCreated(invoice, Purchase)
    /\ instruments' = [instruments EXCEPT ![k].invoice = TRUE, ![k].state = "UNPAID"]
    /\ Goes(x, "reconciling")
    /\ UNCHANGED <<permitActive, authorizations, outside, mishaps>>

\* The shop's error answers: a refusal, or a failure that tells nothing.
ErrorAnswers(k) ==
    [kind : ConnectionFailures] \cup
    [kind : {"status"}, status : {409, 503} \cup (IF shop[k] = "refused" THEN {400, 429} ELSE {})]

\* The request failed, or the invoice that arrived is not the one asked for.
InvoiceFailed(x) ==
    LET k == call[x].key IN
    /\ call[x].pc = "posted"
    /\ \/ /\ Made(k)
          /\ \E invoice \in Shown(k) : ~AcceptedAsCreated(invoice, Purchase)
          /\ Settles(x, "settling", "AMBIGUOUS")
       \/ \E answer \in ErrorAnswers(k) :
             Settles(x, "settling",
                     IF RequestIsAmbiguous(answer) THEN "AMBIGUOUS" ELSE "FAILED_SAFE")
    /\ UNCHANGED world

\* markAmbiguous or markFailedSafe, by whoever created or reconciled.
Settle(x) ==
    LET k == call[x].key
        verdict == call[x].result IN
    /\ call[x].pc \in {"settling", "concluding"}
    /\ TransitionAccepted(authorizations[k], verdict)
    /\ authorizations' = [authorizations EXCEPT ![k] = transitionAuthorization(@, verdict)]
    /\ IF call[x].pc = "settling" THEN Goes(x, "noting") ELSE Ends(x)
    /\ UNCHANGED <<permitActive, instruments, outside, mishaps>>

\* The row follows the Authorization in a transaction of its own.
NoteOutcome(x) ==
    /\ call[x].pc = "noting"
    /\ instruments' = [instruments EXCEPT ![call[x].key].state =
           IF call[x].result = "FAILED_SAFE" THEN "FAILED" ELSE "AMBIGUOUS"]
    /\ Ends(x)
    /\ UNCHANGED <<permitActive, authorizations, outside, mishaps>>

-----------------------------------------------------------------------------
(* reconcile, called by createInvoice or on its own.                       *)

StartReconcile(x, k) ==
    /\ call[x].pc = "idle"
    /\ authorizations[k] # None
    /\ call' = [call EXCEPT ![x] = [Idle EXCEPT !.pc = "reconciling", !.key = k]]
    /\ UNCHANGED world

\* Faulty variant: an Authorization is left alone once a payment was seen.
LeavesOpenWhenPaid(result, seen) ==
    result \in {"UNPAID", "UNEXPECTED_PAYMENT"} \/ seen = "AMBIGUOUS"

LeavesOpen(result, seen) == result = "UNPAID" \/ seen = "AMBIGUOUS"

\* Both rows are read now.  Where there is no instrument row none is written
\* later; without an invoice id there is nothing to fetch.
ReadForReconcile(x) ==
    LET k == call[x].key
        status == authorizations[k].status
        row == instruments[k]
        open == status \notin {"AUTHORIZED", "RELEASED", "FAILED_SAFE"}
        Looks(pc, result) ==
            call' = [call EXCEPT ![x].pc = pc, ![x].seen = status, ![x].result = result] IN
    /\ call[x].pc = "reconciling"
    /\ \/ ~open /\ Ends(x)
       \/ /\ open /\ row = None
          /\ IF LeavesOpen("AMBIGUOUS", status)
             THEN Ends(x) ELSE Settles(x, "concluding", "AMBIGUOUS")
       \/ open /\ row # None /\ row.invoice /\ Looks("inspecting", None)
       \/ open /\ row # None /\ ~row.invoice /\ Looks("recording", "AMBIGUOUS")
    /\ UNCHANGED world

\* getInvoice answers.
Inspected(x) ==
    LET k == call[x].key IN
    /\ call[x].pc = "inspecting"
    /\ \E invoice \in Shown(k) :
          /\ Parses(invoice)
          /\ call' = [call EXCEPT ![x].pc = "recording",
                ![x].result = mapInvoiceReconciliation(invoice, k, Purchase)]
    /\ UNCHANGED world

\* The answer is malformed.
InspectedInVain(x) ==
    /\ call[x].pc = "inspecting"
    /\ call' = [call EXCEPT ![x].pc = "recording", ![x].result = "AMBIGUOUS"]
    /\ UNCHANGED world

\* The reading goes to the row found before the await, as it is by now; whether
\* the Authorization moves depends on the status read then.
RecordInspection(x) ==
    LET k == call[x].key
        result == call[x].result IN
    /\ call[x].pc = "recording"
    /\ instruments' = [instruments EXCEPT ![k].state = result]
    /\ IF LeavesOpen(result, call[x].seen)
       THEN Ends(x)
       ELSE Settles(x, "concluding", "AMBIGUOUS")
    /\ UNCHANGED <<permitActive, authorizations, outside, mishaps>>

-----------------------------------------------------------------------------
(* How a call ends early, and the operator.                                *)

\* A check, the engine or the shop refuses, or a transaction throws.  The body
\* of an answer that breaks off is thrown as it is and leaves EXECUTING.
Throws(x) ==
    LET k == call[x].key IN
    /\ \/ call[x].pc \in {"authorizing", "revalidating", "posted", "inspecting"}
       \/ call[x].pc = "beginning" /\ ~CanBegin(k)
       \/ call[x].pc = "marking" /\ instruments[k].posted
       \/ /\ call[x].pc \in {"settling", "concluding"}
          /\ ~TransitionAccepted(authorizations[k], call[x].result)
    /\ Ends(x)
    /\ UNCHANGED world

Crash(x) ==
    /\ call[x].pc # "idle"
    /\ mishaps < MaxMishaps
    /\ mishaps' = mishaps + 1
    /\ Ends(x)
    /\ UNCHANGED <<store, outside>>

\* The `authorization` commands: nothing but the status is looked at.
Operator(k) ==
    /\ authorizations[k] # None
    /\ mishaps < MaxMishaps
    /\ mishaps' = mishaps + 1
    /\ \E requested \in OperatorCommands \ {authorizations[k].status} :
          /\ TransitionAccepted(authorizations[k], requested)
          /\ authorizations' = [authorizations EXCEPT ![k] =
                 transitionAuthorization(@, requested)]
    /\ UNCHANGED <<permitActive, instruments, outside, call>>

Revoke ==
    /\ permitActive
    /\ permitActive' = FALSE
    /\ UNCHANGED <<authorizations, instruments, outside, call, mishaps>>

-----------------------------------------------------------------------------
Init ==
    /\ permitActive = TRUE
    /\ authorizations = [k \in Keys |-> None]
    /\ instruments = [k \in Keys |-> None]
    /\ call = [x \in Processes |-> Idle]
    /\ posts = [k \in Keys |-> 0]
    /\ shop = [k \in Keys |-> "none"]
    /\ mishaps = 0

\* The steps of a call once it has begun; one of them is always enabled.
Step(x) ==
    \/ AuthorizeNew(x) \/ AuthorizeKnown(x) \/ Revalidated(x)
    \/ BeginInstrumentExecution(x) \/ MarkInvoicePosted(x) \/ PostInvoice(x)
    \/ InvoiceCreated(x) \/ InvoiceFailed(x) \/ Settle(x) \/ NoteOutcome(x)
    \/ ReadForReconcile(x) \/ Inspected(x) \/ InspectedInVain(x) \/ RecordInspection(x)
    \/ Throws(x)

Next ==
    \/ \E x \in Processes : StartCreate(x) \/ Step(x) \/ Crash(x)
    \/ \E x \in Processes, k \in Keys : StartReconcile(x, k)
    \/ \E k \in Keys : Operator(k) \/ ShopMoves(k)
    \/ Revoke

Spec == Init /\ [][Next]_vars

\* The HTTP client gives up after a timeout, so a call goes on until it ends;
\* reconciliation is kept up and the shop does not fail to answer every time.
Patience ==
    /\ \A x \in Processes : WF_vars(Step(x)) /\ SF_vars(Inspected(x))
    /\ \A x \in Processes, k \in Keys : SF_vars(StartReconcile(x, k))

PatientSpec == Spec /\ Patience

-----------------------------------------------------------------------------
(* Properties.                                                             *)

ControlStates ==
    {"idle", "authorizing", "revalidating", "beginning", "marking", "posting", "posted",
     "settling", "noting", "reconciling", "inspecting", "recording", "concluding"}

Calls ==
    [pc : ControlStates, key : Keys \cup {None}, instant : Instants \cup {None},
     seen : AuthorizationStatus \cup {None},
     result : Readings \cup {"FAILED_SAFE", None}]

\* The rows and the calls have the types the schemas give them, and the rows
\* agree with each other: an instrument row belongs to an Authorization whose
\* external action may have begun.
TypeOK ==
    /\ permitActive \in BOOLEAN
    /\ authorizations \in [Keys -> {None} \cup AuthorizationRows]
    /\ instruments \in [Keys -> {None} \cup InstrumentRows]
    /\ call \in [Processes -> Calls]
    /\ posts \in [Keys -> 0..MaxPosts]
    /\ shop \in [Keys -> {"none", "asked", "refused", "unpaid", "paid", "closed"}]
    /\ mishaps \in 0..MaxMishaps
    /\ \A k \in Keys : instruments[k] # None =>
          authorizations[k] # None /\ authorizations[k].externalActionAttempted

\* Under one Authorization the shop is asked for an invoice at most once, and
\* only after the store says that it may have been: POST /invoices has no
\* idempotency field (docs/BITREFILL.md:70, "SatScout therefore never retries a
\* mutation").
InvoicePostedOnce ==
    \A k \in Keys : /\ posts[k] <= 1
                    /\ posts[k] = 1 => instruments[k] # None /\ instruments[k].posted

\* What is written off has not happened: where the instrument row says FAILED
\* or the Authorization FAILED_SAFE, no invoice exists and none will be made of
\* a request still under way (docs/THREAT_MODEL.md:129, "Timeout after POST
\* /invoices: Ambiguous external operation. Authority stays reserved").
WrittenOffMeansNoInvoice ==
    \A k \in Keys :
        \/ instruments[k] # None /\ instruments[k].state = "FAILED"
        \/ authorizations[k] # None /\ authorizations[k].status \in {"FAILED_SAFE", "RELEASED"}
        => shop[k] \in {"none", "refused"}

\* An invoice that the shop shows as paid, which nobody here did, is not left
\* EXECUTING: reconciliation makes the Authorization AMBIGUOUS in the end,
\* whatever older readings other calls write in between.
UnexpectedPaymentIsNoticed ==
    \A k \in Keys : shop[k] = "paid" ~>
        authorizations[k] # None /\ authorizations[k].status # "EXECUTING"

=============================================================================
