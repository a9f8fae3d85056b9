--------------------------- MODULE InstrumentPrepayment ---------------------------
(***************************************************************************)
(* The prepayment chain of one product and face value:                     *)
(* src/src/application/bitrefill-prepayment.ts (prepare, invalidate) with  *)
(* the instrument_prepayments rows of the store and the secret files of    *)
(* integrations/bitrefill/mcp/secrets.ts, run by several processes that    *)
(* may die at any point.                                                   *)
(*                                                                         *)
(* All bindings are of one slot (Mission, provider, product, currency and  *)
(* face value), which at most one of them holds.  Every transaction, file  *)
(* operation and await is a step.  Forms are read, judged and answered by  *)
(* PrepaymentForm; what the provider answers is external.                  *)
(***************************************************************************)
EXTENDS PrepaymentForm

CONSTANTS
    Bindings,        \* the identifiers the id factory may return
    Processes,
    Forms,           \* the forms the provider may advertise
    Amount,          \* the exact face value: [length |-> ...]
    MaxSteps,        \* BITREFILL_MCP_MAX_PREPAYMENT_STEPS
    MaxMishaps,      \* bound on the crashes, faults and invalidations of a run
    None

Active == {"PREPARING", "READY", "AMBIGUOUS"}

BindingRows ==
    [status : Active \cup {"INVALIDATED"}, mutationDispatched : BOOLEAN,
     lastStep : 0 .. MaxSteps, digest : BOOLEAN]

\* What the proofs and the runs assume of the constants.
PrepaymentAssumption ==
    /\ MaxSteps \in Nat \ {0} /\ MaxMishaps \in Nat
    /\ None \notin BindingRows \cup Bindings

VARIABLES
    bindings,      \* instrument_prepayments
    secrets,       \* the bindings whose bill_payment_id is on disk
    call,          \* what each process is doing
    submitted,     \* the steps that left, by binding
    withdrawn,     \* the bindings an operator has invalidated
    died,          \* the bindings whose chain ended with its process
    mishaps        \* crashes, faults and invalidations so far

durable == <<bindings, secrets>>
vars == <<durable, call, submitted, withdrawn, died, mishaps>>

\* step is the number the chain gives the form, reported that of the response.
Idle == [pc |-> "idle", binding |-> None, fields |-> <<>>, step |-> 0, reported |-> 0, code |-> None]

Ends(x) == call' = [call EXCEPT ![x] = Idle]
Goes(x, pc) == call' = [call EXCEPT ![x].pc = pc]
Fails(x, code) == call' = [call EXCEPT ![x].pc = "failing", ![x].code = code]

-----------------------------------------------------------------------------
(* The rows.                                                               *)

Holders == {b \in Bindings : bindings[b] # None /\ bindings[b].status \in Active}

\* The unique index admits the row: it leaves the slot, or nobody else holds it.
Admitted(b, status) == status \in Active => Holders \subseteq {b}

\* updateInstrumentPrepayment, whatever the status is by now.
Update(b, status) == bindings' = [bindings EXCEPT ![b].status = status]

-----------------------------------------------------------------------------
(* prepare.                                                                *)

\* The gates, the inspection and the preview pass and no binding is active: an
\* active one is returned or refused, and nothing changes.
StartPrepare(x) ==
    /\ call[x].pc = "idle"
    /\ Holders = {}
    /\ \E b \in Bindings :
          /\ bindings[b] = None
          /\ \A y \in Processes : call[y].binding # b
          /\ call' = [call EXCEPT ![x] = [Idle EXCEPT !.pc = "beginning", !.binding = b]]
    /\ UNCHANGED <<durable, submitted, withdrawn, died, mishaps>>

\* beginInstrumentPrepayment: the active binding of another caller is returned
\* and ends this call.
BeginInstrumentPrepayment(x) ==
    /\ call[x].pc = "beginning"
    /\ \/ Holders # {} /\ Ends(x) /\ UNCHANGED bindings
       \/ /\ Holders = {}
          /\ bindings' = [bindings EXCEPT ![call[x].binding] =
                 [status |-> "PREPARING", mutationDispatched |-> FALSE, lastStep |-> 0,
                  digest |-> FALSE]]
          /\ Goes(x, "inspecting")
    /\ UNCHANGED <<secrets, submitted, withdrawn, died, mishaps>>

\* The product is inspected again and must advertise a form with something
\* required in it.
InspectProduct(x) ==
    /\ call[x].pc = "inspecting"
    /\ \/ Fails(x, "BITREFILL_MCP_UNAVAILABLE")
       \/ \E form \in Forms :
             LET fields == extractRequiredFields(form) IN
             IF fields = Refused \/ RequiredOf(fields) = <<>>
             THEN Fails(x, "BITREFILL_MCP_SCHEMA_UNSUPPORTED")
             ELSE call' = [call EXCEPT ![x].pc = "filling", ![x].fields = fields,
                                       ![x].step = FirstStep]
    /\ UNCHANGED <<durable, submitted, withdrawn, died, mishaps>>

\* Faulty variant: the row says that a step was dispatched only once it was
\* answered.
FillUnmarked(x) ==
    /\ call[x].pc = "filling"
    /\ satisfyPrepaymentFields(call[x].fields, "profile", Amount, call[x].step) = "supported"
    /\ Goes(x, "submitting")
    /\ UNCHANGED <<durable, submitted, withdrawn, died, mishaps>>

\* The form is filled without a human: markPrepaymentMutationDispatched, before
\* anything leaves.
FillSupported(x) ==
    LET b == call[x].binding IN
    /\ call[x].pc = "filling"
    /\ satisfyPrepaymentFields(call[x].fields, "profile", Amount, call[x].step) = "supported"
    /\ bindings' = [bindings EXCEPT ![b].mutationDispatched = TRUE, ![b].lastStep = call[x].step]
    /\ Goes(x, "submitting")
    /\ UNCHANGED <<secrets, submitted, withdrawn, died, mishaps>>

\* The form asks for more: the binding is ambiguous if a step left before, and
\* given up if none did.  The flag is this chain's own.
FillUnsupported(x) ==
    LET b == call[x].binding
        judged == satisfyPrepaymentFields(call[x].fields, "profile", Amount, call[x].step)
        status == IF bindings[b].mutationDispatched THEN "AMBIGUOUS" ELSE "INVALIDATED"
    IN  /\ call[x].pc = "filling"
        /\ judged # "supported"
        /\ Fails(x, judged)
        /\ IF judged = "HUMAN_ACTION_REQUIRED" /\ Admitted(b, status)
           THEN Update(b, status) ELSE UNCHANGED bindings
        /\ UNCHANGED <<secrets, submitted, withdrawn, died, mishaps>>

\* submit-prepayment-step leaves; it is not sent again.
Submit(x) ==
    /\ call[x].pc = "submitting"
    /\ submitted' = [submitted EXCEPT ![call[x].binding] =
           Append(@, [step |-> call[x].step, reported |-> call[x].reported, fields |-> call[x].fields])]
    /\ Goes(x, "awaiting")
    /\ UNCHANGED <<durable, withdrawn, died, mishaps>>

IsLast(step) == step = MaxSteps

\* What the provider may answer a step with; what it says of the acquisition is
\* left out of these answers.
Answers(step) ==
    {[kind |-> "final", billPaymentId |-> known, step |-> step, form |-> [shape |-> "missing"],
      says |-> [product |-> Absent]] : known \in BOOLEAN}
    \cup {[kind |-> "step", billPaymentId |-> FALSE, step |-> n, form |-> form,
           says |-> [product |-> Absent]] : n \in {step - 1, step, step + 1, step + 2}, form \in Forms}

\* The answer, or none: a next form, the identifier, or a failure, all of them
\* ambiguous.  After the last step that is allowed the chain gives up.
StepAnswered(x) ==
    LET step == call[x].step
        ids == submittedPrepaymentFieldIds(call[x].fields)
    IN  /\ call[x].pc = "awaiting"
        /\ \/ Fails(x, "BITREFILL_TIMEOUT")
           \/ \E answer \in Answers(step) :
                 LET read == parsePrepaymentStepResult(answer, step, ids, [product |-> "card"]) IN
                 IF read = Refused THEN Fails(x, "PREPAYMENT_STEP_MISMATCH")
                 ELSE IF read.kind = "final" THEN Goes(x, "writing")
                 ELSE call' = [call EXCEPT
                          ![x].pc = IF IsLast(step) THEN "exhausted" ELSE "filling",
                          ![x].fields = read.fields, ![x].step = read.step,
                          ![x].reported = answer.step]
        /\ UNCHANGED <<durable, submitted, withdrawn, died, mishaps>>

ChainExhausted(x) ==
    LET b == call[x].binding IN
    /\ call[x].pc = "exhausted"
    /\ Fails(x, "HUMAN_ACTION_REQUIRED")
    /\ IF Admitted(b, "AMBIGUOUS") THEN Update(b, "AMBIGUOUS") ELSE UNCHANGED bindings
    /\ UNCHANGED <<secrets, submitted, withdrawn, died, mishaps>>

\* Faulty variant: the row is READY before the file is written.
BecomeReadyFirst(x) ==
    /\ call[x].pc = "writing"
    /\ bindings' = [bindings EXCEPT ![call[x].binding].status = "READY",
                                    ![call[x].binding].digest = TRUE]
    /\ Ends(x)
    /\ UNCHANGED <<secrets, submitted, withdrawn, died, mishaps>>

\* writeBillPaymentId: an identifier of another shape is refused; the file is
\* complete once it is renamed.
WriteBillPaymentId(x) ==
    /\ call[x].pc = "writing"
    /\ \/ secrets' = secrets \cup {call[x].binding} /\ Goes(x, "readying")
       \/ UNCHANGED secrets /\ Fails(x, "MALFORMED_RESPONSE")
    /\ UNCHANGED <<bindings, submitted, withdrawn, died, mishaps>>

\* The row becomes READY with the digest, whatever it says by now, unless
\* another binding took the slot.
BecomeReady(x) ==
    LET b == call[x].binding IN
    /\ call[x].pc = "readying"
    /\ IF Admitted(b, "READY")
       THEN /\ bindings' = [bindings EXCEPT ![b].status = "READY", ![b].digest = TRUE]
            /\ Goes(x, "previewing")
       ELSE Fails(x, "SQLITE_CONSTRAINT") /\ UNCHANGED bindings
    /\ UNCHANGED <<secrets, submitted, withdrawn, died, mishaps>>

\* The decision is previewed and the binding returned.
PreviewReady(x) ==
    /\ call[x].pc = "previewing"
    /\ Ends(x)
    /\ UNCHANGED <<durable, submitted, withdrawn, died, mishaps>>

\* Faulty variant: an unsupported form gives the binding up before it is asked
\* whether a step left.
OutcomeForgetful(row, code) ==
    IF code = "BITREFILL_MCP_SCHEMA_UNSUPPORTED" THEN "INVALIDATED"
    ELSE IF row.mutationDispatched THEN "AMBIGUOUS"
    ELSE IF row.status = "PREPARING" THEN "INVALIDATED"
    ELSE row.status

\* Faulty variant: a chain that failed keeps the slot.
OutcomeKept(row, code) == IF row.mutationDispatched THEN "AMBIGUOUS" ELSE row.status

\* What a failed chain leaves behind.
Outcome(row, code) ==
    IF row.mutationDispatched THEN "AMBIGUOUS"
    ELSE IF code = "BITREFILL_MCP_SCHEMA_UNSUPPORTED" \/ row.status = "PREPARING"
    THEN "INVALIDATED"
    ELSE row.status

\* The catch of prepare.  The row may have been invalidated meanwhile.
ChainFailed(x) ==
    LET b == call[x].binding
        status == Outcome(bindings[b], call[x].code)
    IN  /\ call[x].pc = "failing"
        /\ Ends(x)
        /\ IF Admitted(b, status) THEN Update(b, status) ELSE UNCHANGED bindings
        /\ UNCHANGED <<secrets, submitted, withdrawn, died, mishaps>>

-----------------------------------------------------------------------------
(* invalidate.                                                             *)

\* The row is read and judged; an ambiguous outcome must be acknowledged.
StartInvalidate(x) ==
    /\ call[x].pc = "idle"
    /\ mishaps < MaxMishaps
    /\ \E b \in Holders, acknowledged \in BOOLEAN :
          /\ \/ acknowledged
             \/ bindings[b].status = "READY"
             \/ bindings[b].status = "PREPARING" /\ ~ bindings[b].mutationDispatched
          /\ call' = [call EXCEPT ![x] = [Idle EXCEPT !.pc = "invalidating", !.binding = b]]
    /\ mishaps' = mishaps + 1
    /\ UNCHANGED <<durable, submitted, withdrawn, died>>

InvalidateRow(x) ==
    LET b == call[x].binding IN
    /\ call[x].pc = "invalidating"
    /\ Update(b, "INVALIDATED")
    /\ withdrawn' = withdrawn \cup {b}
    /\ Goes(x, "deleting")
    /\ UNCHANGED <<secrets, submitted, died, mishaps>>

DeleteSecret(x) ==
    /\ call[x].pc = "deleting"
    /\ secrets' = secrets \ {call[x].binding}
    /\ Ends(x)
    /\ UNCHANGED <<bindings, submitted, withdrawn, died, mishaps>>

-----------------------------------------------------------------------------
(* Faults.                                                                 *)

\* A store or file operation of the chain throws: the catch of prepare sees it.
Throws(x) ==
    /\ call[x].pc \in {"inspecting", "filling", "submitting", "writing", "readying", "previewing"}
    /\ mishaps < MaxMishaps
    /\ mishaps' = mishaps + 1
    /\ Fails(x, "ERROR")
    /\ UNCHANGED <<durable, submitted, withdrawn, died>>

\* The process dies, of whatever call; a catch whose own update throws leaves
\* the same behind.
Crash(x) ==
    /\ call[x].pc # "idle"
    /\ mishaps < MaxMishaps
    /\ mishaps' = mishaps + 1
    /\ died' = IF call[x].pc \in {"beginning", "invalidating", "deleting"} THEN died
               ELSE died \cup {call[x].binding}
    /\ Ends(x)
    /\ UNCHANGED <<durable, submitted, withdrawn>>

-----------------------------------------------------------------------------

Init ==
    /\ bindings = [b \in Bindings |-> None]
    /\ secrets = {}
    /\ call = [x \in Processes |-> Idle]
    /\ submitted = [b \in Bindings |-> <<>>]
    /\ withdrawn = {} /\ died = {}
    /\ mishaps = 0

Continue(x) ==
    \/ BeginInstrumentPrepayment(x) \/ InspectProduct(x) \/ FillSupported(x) \/ FillUnsupported(x)
    \/ Submit(x) \/ StepAnswered(x) \/ ChainExhausted(x) \/ WriteBillPaymentId(x)
    \/ BecomeReady(x) \/ PreviewReady(x) \/ ChainFailed(x) \/ InvalidateRow(x) \/ DeleteSecret(x)

Next ==
    \E x \in Processes :
        StartPrepare(x) \/ StartInvalidate(x) \/ Continue(x) \/ Throws(x) \/ Crash(x)

Spec == Init /\ [][Next]_vars

-----------------------------------------------------------------------------
(* Properties.                                                             *)

Begun == {b \in Bindings : bindings[b] # None}

\* The state has its types.
TypeOK ==
    /\ bindings \in [Bindings -> BindingRows \cup {None}]
    /\ secrets \subseteq Begun /\ withdrawn \subseteq Begun /\ died \subseteq Begun
    /\ \A x \in Processes : call[x].pc # "idle" => call[x].binding \in Bindings
    /\ \A b \in Bindings : Len(submitted[b]) <= MaxSteps
    /\ mishaps \in 0 .. MaxMishaps

\* Whatever left is on record before it left, step by step and each step once:
\* after a crash, a row that does not say so never reached the provider
\* (markPrepaymentMutationDispatched before submitPrepaymentForm).
SubmittedIsOnRecord ==
    \A b \in Bindings : submitted[b] # <<>> =>
        /\ bindings[b].mutationDispatched
        /\ Len(submitted[b]) <= bindings[b].lastStep
        /\ \A i \in 1 .. Len(submitted[b]) : submitted[b][i].step = i

\* Two chains of one slot have both reached the provider only after an operator
\* withdrew one of them: whatever fails after a dispatch keeps the slot taken.
SecondChainNeedsAnOperator ==
    \A b, c \in Bindings :
        (b # c /\ submitted[b] # <<>> /\ submitted[c] # <<>>) => (b \in withdrawn \/ c \in withdrawn)

\* A READY binding can be loaded: its bill_payment_id is on disk, unless an
\* operator invalidated it while its chain was still running.
ReadyHasItsSecret ==
    \A b \in Begun \ withdrawn :
        bindings[b].status = "READY" => bindings[b].digest /\ b \in secrets

\* What is answered without a human is only what was approved for it: no form
\* that asks for consent, and no unknown required field, ever leaves.
NothingLeavesForAHuman ==
    \A b \in Bindings : \A i \in 1 .. Len(submitted[b]) : \A field \in ToSet(submitted[b][i].fields) :
        /\ ~ requiresHumanAction(field)
        /\ field.required => isApprovedPrepaymentField(field, submitted[b][i].step)

\* A response that repeats, under the same step number, the field identifiers of
\* the form just submitted is not answered again (docs/BITREFILL.md:178).
RepeatIsNotResubmitted ==
    LET Ids(fields) == {field.name : field \in ToSet(fields)} IN
    \A b \in Bindings : \A i \in 1 .. Len(submitted[b]) - 1 :
        submitted[b][i + 1].reported = submitted[b][i].step =>
            Ids(submitted[b][i + 1].fields) # Ids(submitted[b][i].fields)

\* A binding in PREPARING belongs to a chain that still runs, unless the process
\* of that very chain died, or its catch could not write the row: however else a
\* chain ends, whatever threw in it and whatever an operator did meanwhile, it
\* gives the slot up, becomes READY or leaves it to an operator as AMBIGUOUS
\* (the catch of prepare).
SlotIsNotAbandoned ==
    \A b \in Begun \ died :
        bindings[b].status = "PREPARING" => \E x \in Processes : call[x].binding = b

=============================================================================
