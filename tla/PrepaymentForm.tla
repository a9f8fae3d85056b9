------------------------------ MODULE PrepaymentForm ------------------------------
(***************************************************************************)
(* The forms of a prepayment chain:                                        *)
(* src/src/integrations/bitrefill/mcp/form.ts and details.ts.  What the    *)
(* provider advertises is read strictly, judged without the profile        *)
(* (inspect) and with it (prepare), answered with the fields that may be   *)
(* filled without a human, and the response decides the next step.         *)
(*                                                                         *)
(* An entry of an advertised list carries the kind of its element, whether *)
(* its other keys are those of that element, and what is read from it.  A  *)
(* reading that throws is Refused; an optional field that is missing is    *)
(* Absent.                                                                 *)
(***************************************************************************)
EXTENDS Integers, Sequences, SequencesExt

CONSTANTS
    Absent,     \* undefined
    Refused     \* the reading threw

FirstStep == 1

HumanActionTypes == {"checkbox", "consent", "terms", "radio"}
SupportedTypes == {"text"} \cup HumanActionTypes

\* Names in which a human action is recognized.
HumanActionNames == {"terms_accepted", "consent_given"}

ProfileFields == {"first_name", "last_name"}
EconomicFields == {"value", "amount", "package_value", "face_value"}
AmountField == "bill_amount"

-----------------------------------------------------------------------------
(* Reading an advertised list.                                             *)

\* A label or a button; anything unexpected in it refuses the whole list.
IsNonInput(entry) == entry.element \in {"label", "confirmButton"}

\* parseFirstFormField: every key is known and present.
parseFirstFormField(entry) ==
    IF /\ entry.element = "input" /\ entry.wellFormed
       /\ entry.name # Absent
       /\ entry.type \in SupportedTypes
       /\ entry.required # Absent
    THEN [name |-> entry.name, required |-> entry.required = "yes", type |-> entry.type,
          maxLength |-> entry.maxLength, fromFirstForm |-> TRUE]
    ELSE Refused

\* parseFieldRequirement: a bare name, or an object that names its field and is
\* required unless it says otherwise.
parseFieldRequirement(entry) ==
    IF /\ entry.element \in {"input", "string"}
       /\ entry.name # Absent
       /\ entry.type \in SupportedTypes \cup {Absent}
    THEN [name |-> entry.name, required |-> entry.required # "no", type |-> entry.type,
          maxLength |-> Absent, fromFirstForm |-> FALSE]
    ELSE Refused

\* parseFieldList, with isRecognizedNonInputElement.
parseFieldList(entries, firstForm) ==
    LET inputs == SelectSeq(entries, LAMBDA entry : ~ IsNonInput(entry))
        fields == [i \in 1 .. Len(inputs) |->
            IF firstForm THEN parseFirstFormField(inputs[i]) ELSE parseFieldRequirement(inputs[i])]
    IN  IF \/ \E entry \in ToSet(entries) : IsNonInput(entry) /\ ~ entry.wellFormed
           \/ Refused \in ToSet(fields)
        THEN Refused
        ELSE fields

\* A source is a bare list, a first_form (possibly beside another list), or an
\* object with fields, required_fields or form.
extractRequiredFields(source) ==
    CASE source.shape = "missing" -> <<>>
      [] source.shape \in {"list", "fields", "required_fields", "form"} ->
             parseFieldList(source.entries, FALSE)
      [] source.shape = "first_form" ->
             IF source.conflicting \/ source.entries = <<>>
             THEN Refused
             ELSE parseFieldList(source.entries, TRUE)
      [] OTHER -> Refused

-----------------------------------------------------------------------------
(* Judging and filling a form.                                             *)

requiresHumanAction(field) == field.type \in HumanActionTypes \/ field.name \in HumanActionNames

isSupportedBillAmount(field, step) ==
    /\ field.name = AmountField
    /\ field.required /\ field.type = "text" /\ field.fromFirstForm
    /\ step = FirstStep

BillAmountContract(fields, step) ==
    \A field \in ToSet(fields) : field.name = AmountField => isSupportedBillAmount(field, step)

isApprovedPrepaymentField(field, step) ==
    field.name \in ProfileFields \cup EconomicFields \/ isSupportedBillAmount(field, step)

\* Faulty variant: an optional field is passed over before it is asked whether
\* it wants a human.
StopsOnlyAtRequired(field, step, profile) ==
    /\ field.required
    /\ \/ requiresHumanAction(field)
       \/ ~ isApprovedPrepaymentField(field, step)
       \/ field.name \in ProfileFields /\ profile = Absent

\* The fields at which filling the form stops for a human.
StopsAt(field, step, profile) ==
    \/ requiresHumanAction(field)
    \/ /\ field.required
       /\ \/ ~ isApprovedPrepaymentField(field, step)
          \/ field.name \in ProfileFields /\ profile = Absent

\* The amount has as many characters as its exact decimal needs.
Fits(field, amount) ==
    (field.name = AmountField /\ field.maxLength # Absent) => amount.length <= field.maxLength

\* satisfyPrepaymentFields walks the fields in order: the first that throws or
\* stops decides.  A form is answered with its required fields only.
satisfyPrepaymentFields(fields, profile, amount, step) ==
    LET Throws(i) ==
            \/ fields[i].name = AmountField /\ ~ isSupportedBillAmount(fields[i], step)
            \/ ~ Fits(fields[i], amount)
        Ends(i) == Throws(i) \/ StopsAt(fields[i], step, profile)
        ending == {i \in DOMAIN fields : Ends(i)}
        first == CHOOSE i \in ending : \A j \in ending : i <= j
    IN  IF ending = {} THEN "supported"
        ELSE IF fields[first].name = AmountField /\ ~ isSupportedBillAmount(fields[first], step)
             THEN "BITREFILL_MCP_SCHEMA_UNSUPPORTED"
        ELSE IF StopsAt(fields[first], step, profile) THEN "HUMAN_ACTION_REQUIRED"
        ELSE "BITREFILL_MCP_SCHEMA_UNSUPPORTED"

\* inspectFieldSupport: the same judgement before there is a profile.
inspectFieldSupport(fields, step) ==
    IF ~ BillAmountContract(fields, step) THEN "BITREFILL_MCP_SCHEMA_UNSUPPORTED"
    ELSE IF \E field \in ToSet(fields) :
                \/ requiresHumanAction(field)
                \/ field.required /\ ~ isApprovedPrepaymentField(field, step)
    THEN "HUMAN_ACTION_REQUIRED"
    ELSE "supported"

RequiredOf(fields) == SelectSeq(fields, LAMBDA field : field.required)

\* submittedPrepaymentFieldIds: trimmed, without duplicates, in order: a set.
submittedPrepaymentFieldIds(fields) == {field.name : field \in ToSet(RequiredOf(fields))}

prepaymentFieldIdentitiesMatch(submitted, returned) ==
    submitted = {field.name : field \in ToSet(returned)}

-----------------------------------------------------------------------------
(* The response to a step.                                                 *)

\* What a response says of the acquisition, if anything, is what was asked.
SameAcquisition(response, expected) ==
    \A fact \in DOMAIN expected : response.says[fact] \in {Absent, expected[fact]}

\* A response that is not final: the form is read before the step is, a step of
\* the same number with other fields acknowledges the one submitted, and one
\* that went back, was skipped or repeats the submitted fields is refused.
ReadStep(response, submitted, submittedIds) ==
    LET fields == extractRequiredFields(response.form) IN
    IF \/ response.form.shape = "missing" \/ fields = Refused
       \/ response.step \notin {submitted, submitted + 1}
       \/ response.step = submitted /\ prepaymentFieldIdentitiesMatch(submittedIds, fields)
    THEN Refused
    ELSE [kind |-> "next", fields |-> fields, step |-> submitted + 1]

\* parsePrepaymentStepResult, then what submitPrepaymentForm compares.
parsePrepaymentStepResult(response, submitted, submittedIds, expected) ==
    LET read == IF response.kind = "step" THEN ReadStep(response, submitted, submittedIds)
                ELSE IF response.billPaymentId THEN [kind |-> "final"]
                ELSE Refused
    IN  IF read # Refused /\ SameAcquisition(response, expected) THEN read ELSE Refused
=============================================================================
