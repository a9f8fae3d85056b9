---------------------------- MODULE PermitEvaluation ----------------------------
(***************************************************************************)
(* The Permit Engine: src/src/domain/economy/evaluate.ts with usage.ts,    *)
(* arithmetic.ts and the provenance gate of application/spend-controller.ts*)
(*                                                                         *)
(* A decision is a set of reason codes: the code sorts them for display    *)
(* and the messages carry no control.  A value the schema leaves optional  *)
(* is Undefined (numbers) or NoId (identifiers) when it is absent.  The    *)
(* schemas admit one currency and one asset, so those two fields, and the  *)
(* reasons CURRENCY_MISMATCH and ASSET_NOT_ALLOWED, are left out.          *)
(***************************************************************************)
EXTENDS Integers, FiniteSets

CONSTANTS
    MaxSafeInteger   \* Number.MAX_SAFE_INTEGER: sums above it are refused

ASSUME MaxSafeIntegerAssumption == MaxSafeInteger \in Nat

Undefined == -1
NoId == "undefined"

Defined(n) == n # Undefined

When(condition, code) == IF condition THEN {code} ELSE {}

Greatest(m, n) == IF m >= n THEN m ELSE n

-----------------------------------------------------------------------------
(* Arithmetic and the usage of a grant.                                    *)

isSafeNonNegativeInteger(n) == n \in 0..MaxSafeInteger

safeAdd(left, right) ==
    IF left + right <= MaxSafeInteger THEN left + right ELSE Undefined

\* Faulty variant: lets one execution too many through.
remainingExecutionsOffByOne(grant, usage) ==
    Greatest(0, grant.maxExecutions - usage.executionsReserved + 1)

remainingExecutions(grant, usage) ==
    Greatest(0, grant.maxExecutions - usage.executionsReserved)

\* Faulty variant: forgets what is already reserved.
remainingUnreserved(aggregate, perExecution, reserved) ==
    IF Defined(aggregate) THEN aggregate ELSE perExecution

\* The four remaining-aggregate functions have one shape.
remaining(aggregate, perExecution, reserved) ==
    IF Defined(aggregate) THEN Greatest(0, aggregate - reserved) ELSE perExecution

remainingAmount(grant, usage) ==
    remaining(grant.maxAggregateAmount, grant.maxAmount, usage.amountReserved)

remainingFaceValue(grant, usage) ==
    remaining(grant.maxAggregateFaceValue, grant.maxFaceValue, usage.faceValueReserved)

\* Faulty variant: measures the principal against the outflow limit.
remainingPrincipalOfOutflow(grant, usage) ==
    remaining(grant.maxAggregateTotalOutflow, grant.maxPrincipal, usage.principalReserved)

remainingPrincipal(grant, usage) ==
    remaining(grant.maxAggregatePrincipal, grant.maxPrincipal, usage.principalReserved)

remainingTotalOutflow(grant, usage) ==
    remaining(grant.maxAggregateTotalOutflow, grant.maxTotalOutflow,
              usage.totalOutflowReserved)

-----------------------------------------------------------------------------
(* The parts of an evaluation: each yields the reasons it finds.           *)

IndeterminateCodes ==
    {"MISSING_TRUSTED_PROVENANCE", "SIMULATION_PROVENANCE_NOT_ACCEPTED",
     "MISSING_PRINCIPAL", "MISSING_FEE", "MISSING_TOTAL_OUTFLOW",
     "MISSING_DESTINATION_IDENTITY", "MISSING_PARENT_AUTHORIZATION",
     "MISSING_PURCHASE_PRICE", "MISSING_PURCHASE_PRICE_LIMIT", "GRANT_AMBIGUOUS"}

Outcome(reasons) ==
    CASE reasons = {} -> "ALLOW"
      [] reasons # {} /\ reasons \cap IndeterminateCodes # {} -> "INDETERMINATE"
      [] OTHER -> "DENY"

decision(reasons, grantId) ==
    [outcome |-> Outcome(reasons), grantId |-> grantId, reasons |-> reasons]

\* parent = NoId stands for an Authorization the ledger does not have.
evaluateParent(grant, action, permit, parent) ==
    IF action.parentAuthorizationId = NoId
    THEN When(grant.requiresParentAuthorization, "MISSING_PARENT_AUTHORIZATION")
    ELSE IF ~parent.found
    THEN {"PARENT_AUTHORIZATION_NOT_FOUND"}
    ELSE When(parent.missionId # permit.missionId, "PARENT_MISSION_MISMATCH")
         \cup When(parent.permitId # permit.id, "PARENT_PERMIT_MISMATCH")
         \cup When(/\ grant.requiredParentActionKind # NoId
                   /\ parent.actionKind # grant.requiredParentActionKind,
                   "PARENT_ACTION_KIND_MISMATCH")
         \cup When(parent.status = "RELEASED", "PARENT_AUTHORIZATION_RELEASED")

evaluateMerchantGrant(grant, action, usage) ==
    When(action.counterparty \notin grant.allowedCounterparties, "COUNTERPARTY_NOT_ALLOWED")
    \cup When(action.amount > grant.maxAmount, "AMOUNT_LIMIT_EXCEEDED")
    \cup When(remainingExecutions(grant, usage) < 1, "EXECUTION_LIMIT_REACHED")
    \cup When(/\ Defined(grant.maxAggregateAmount)
              /\ action.amount > remainingAmount(grant, usage),
              "AGGREGATE_LIMIT_EXCEEDED")

evaluatePurchasePrice(grant, action) ==
    IF ~Defined(grant.maxPurchasePriceMinor)
    THEN When(Defined(action.purchasePrice), "MISSING_PURCHASE_PRICE_LIMIT")
    ELSE IF ~Defined(action.purchasePrice)
    THEN {"MISSING_PURCHASE_PRICE"}
    ELSE When(action.purchasePrice > grant.maxPurchasePriceMinor,
              "PURCHASE_PRICE_LIMIT_EXCEEDED")

evaluateInstrumentGrant(grant, action, usage) ==
    When(action.provider \notin grant.allowedProviders, "PROVIDER_NOT_ALLOWED")
    \cup When(action.product \notin grant.allowedProducts, "PRODUCT_NOT_ALLOWED")
    \cup When(action.faceValue > grant.maxFaceValue, "FACE_VALUE_LIMIT_EXCEEDED")
    \cup evaluatePurchasePrice(grant, action)
    \cup When(remainingExecutions(grant, usage) < 1, "EXECUTION_LIMIT_REACHED")
    \cup When(/\ Defined(grant.maxAggregateFaceValue)
              /\ action.faceValue > remainingFaceValue(grant, usage),
              "AGGREGATE_LIMIT_EXCEEDED")

evaluateOutflowSum(action) ==
    IF Defined(action.principal) /\ Defined(action.fee) /\ Defined(action.totalOutflow)
    THEN LET summed == safeAdd(action.principal, action.fee) IN
         When(~Defined(summed), "INTEGER_OVERFLOW")
         \cup When(Defined(summed) /\ summed # action.totalOutflow, "INCONSISTENT_OUTFLOW")
    ELSE {}

evaluateValueTransferEvidence(action) ==
    When(~Defined(action.principal), "MISSING_PRINCIPAL")
    \cup When(~Defined(action.fee), "MISSING_FEE")
    \cup When(~Defined(action.totalOutflow), "MISSING_TOTAL_OUTFLOW")
    \cup When(\E field \in {action.principal, action.fee, action.totalOutflow} :
                 Defined(field) /\ ~isSafeNonNegativeInteger(field),
              "INVALID_ECONOMIC_VALUES")
    \cup When(action.destinationIdentity = NoId, "MISSING_DESTINATION_IDENTITY")
    \cup evaluateOutflowSum(action)

evaluateValueTransferGrant(grant, action, usage) ==
    When(action.rail \notin grant.allowedRails, "RAIL_NOT_ALLOWED")
    \cup When(action.adapterId \notin grant.allowedProvenanceAdapterIds,
              "PROVENANCE_ADAPTER_NOT_ALLOWED")
    \cup evaluateValueTransferEvidence(action)
    \cup When(Defined(action.principal) /\ action.principal > grant.maxPrincipal,
              "PRINCIPAL_LIMIT_EXCEEDED")
    \cup When(Defined(action.fee) /\ action.fee > grant.maxFee, "FEE_LIMIT_EXCEEDED")
    \cup When(Defined(action.totalOutflow) /\ action.totalOutflow > grant.maxTotalOutflow,
              "TOTAL_OUTFLOW_LIMIT_EXCEEDED")
    \cup When(remainingExecutions(grant, usage) < 1, "EXECUTION_LIMIT_REACHED")
    \cup When(/\ Defined(grant.maxAggregatePrincipal) /\ Defined(action.principal)
              /\ action.principal > remainingPrincipal(grant, usage),
              "AGGREGATE_LIMIT_EXCEEDED")
    \cup When(/\ Defined(grant.maxAggregateTotalOutflow) /\ Defined(action.totalOutflow)
              /\ action.totalOutflow > remainingTotalOutflow(grant, usage),
              "AGGREGATE_LIMIT_EXCEEDED")

evaluateGrantLimits(grant, action, usage) ==
    CASE grant.kind # action.kind -> {"NO_MATCHING_GRANT"}
      [] grant.kind = action.kind /\ grant.kind = "merchant.purchase"
           -> evaluateMerchantGrant(grant, action, usage)
      [] grant.kind = action.kind /\ grant.kind = "payment-instrument.acquire"
           -> evaluateInstrumentGrant(grant, action, usage)
      [] OTHER -> evaluateValueTransferGrant(grant, action, usage)

grantIdentityMatches(grant, action) ==
    /\ grant.kind = action.kind
    /\ grant.kind = "merchant.purchase"
          => action.counterparty \in grant.allowedCounterparties
    /\ grant.kind = "payment-instrument.acquire"
          => /\ action.provider \in grant.allowedProviders
             /\ action.product \in grant.allowedProducts
    /\ grant.kind = "value.transfer" => action.rail \in grant.allowedRails

-----------------------------------------------------------------------------
(* The whole evaluation.                                                   *)

\* Reasons that end an evaluation before any grant is looked at.  The
\* provenance schema ties the source to the environment, so an environment
\* outside the three known ones cannot reach the engine.
PermitReasons(permit, action, context) ==
    When(permit.status = "DRAFT", "PERMIT_NOT_ACTIVE")
    \cup When(permit.status = "REVOKED", "PERMIT_REVOKED")
    \cup When(context.now < permit.notBefore, "PERMIT_NOT_YET_VALID")
    \cup When(context.now >= permit.expiresAt, "PERMIT_EXPIRED")
    \cup When(action.missionId # permit.missionId, "MISSION_MISMATCH")
    \cup When(action.environment = "SIMULATION" /\ ~context.acceptSimulation,
              "SIMULATION_PROVENANCE_NOT_ACCEPTED")

KindGrants(permit, action) == {grant \in permit.grants : grant.kind = action.kind}

Nominated(permit, action) ==
    {grant \in KindGrants(permit, action) :
        IF action.grantId = NoId
        THEN grantIdentityMatches(grant, action)
        ELSE grant.id = action.grantId}

GrantReasons(grant, permit, action, context) ==
    evaluateParent(grant, action, permit, context.parent)
    \cup evaluateGrantLimits(grant, action, context.usage[grant.id])

evaluatePermitV2(permit, action, context) ==
    LET nominated == Nominated(permit, action)
        kindGrants == KindGrants(permit, action) IN
    IF PermitReasons(permit, action, context) # {}
    THEN decision(PermitReasons(permit, action, context), NoId)
    ELSE IF kindGrants = {} \/ (action.grantId # NoId /\ nominated = {})
    THEN decision({"NO_MATCHING_GRANT"}, NoId)
    ELSE IF nominated = {}
    THEN decision(UNION {evaluateGrantLimits(grant, action, context.usage[grant.id])
                            : grant \in kindGrants}, NoId)
    ELSE IF \E one, other \in nominated : one # other
    THEN decision({"GRANT_AMBIGUOUS"}, NoId)
    ELSE LET grant == CHOOSE grant \in nominated : TRUE IN
         decision(GrantReasons(grant, permit, action, context), grant.id)

evaluateResolvedAction(permit, action, context) ==
    IF permit.schemaVersion = 1
    THEN decision({"LEGACY_PERMIT_NOT_AUTHORIZABLE"}, NoId)
    ELSE evaluatePermitV2(permit, action, context)

-----------------------------------------------------------------------------
(* The gate of the Spend Controller, before the ledger is asked: which     *)
(* entry point (the adapter it trusts, or NoId for the public one) may     *)
(* carry which provenance.                                                 *)

TrustedAdapterId ==
    {"wavelength.signet", "wavelength.mainnet", "bitrefill.personal",
     "bitrefill.mcp-prepayment"}

InstrumentAdapters == {"bitrefill.personal", "bitrefill.mcp-prepayment"}

EnvironmentOf(adapterId) ==
    IF adapterId = "wavelength.signet" THEN "TEST_NETWORK" ELSE "PRODUCTION"

untrustedProvenanceBlock(action, trustedAdapter) ==
    IF action.environment = "SIMULATION"
    THEN {}
    ELSE When(~ /\ action.adapterId = trustedAdapter
                /\ trustedAdapter \in TrustedAdapterId
                /\ action.environment = EnvironmentOf(trustedAdapter)
                /\ trustedAdapter \in InstrumentAdapters
                      => action.kind = "payment-instrument.acquire"
                /\ trustedAdapter \notin InstrumentAdapters
                      => action.kind = "value.transfer" /\ action.externalIdentity # NoId,
              IF action.environment = "TEST_NETWORK"
              THEN "TEST_NETWORK_PATH_UNAVAILABLE"
              ELSE "PRODUCTION_PATH_UNAVAILABLE")

=============================================================================
