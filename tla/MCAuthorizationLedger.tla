------------------------- MODULE MCAuthorizationLedger -------------------------
(* Small instances of AuthorizationLedger for TLC.                         *)
EXTENDS AuthorizationLedger, TLC

CONSTANTS m1, m2, p1, p2, a1, a2, a3, k1, x1, x2

MerchantGrant(perExecution, executions, aggregate) ==
    [id |-> "merchant", kind |-> "merchant.purchase",
     allowedCounterparties |-> {"campground"}, maxAmount |-> perExecution,
     maxExecutions |-> executions, maxAggregateAmount |-> aggregate,
     requiresParentAuthorization |-> FALSE, requiredParentActionKind |-> NoId]

InstrumentGrant ==
    [id |-> "instrument", kind |-> "payment-instrument.acquire",
     allowedProviders |-> {"bitrefill"}, allowedProducts |-> {"card"},
     maxFaceValue |-> 5, maxPurchasePriceMinor |-> Undefined, maxExecutions |-> 2,
     maxAggregateFaceValue |-> 8,
     requiresParentAuthorization |-> FALSE, requiredParentActionKind |-> NoId]

TransferGrant(parentRequired) ==
    [id |-> "transfer", kind |-> "value.transfer", allowedRails |-> {"lightning"},
     maxPrincipal |-> 4, maxFee |-> 1, maxTotalOutflow |-> 5, maxExecutions |-> 2,
     maxAggregatePrincipal |-> 6, maxAggregateTotalOutflow |-> 9,
     allowedProvenanceAdapterIds |-> {"wavelength.mainnet"},
     requiresParentAuthorization |-> parentRequired,
     requiredParentActionKind |->
        IF parentRequired THEN "payment-instrument.acquire" ELSE NoId]

Document(missionId, grants) ==
    [schemaVersion |-> 2, missionId |-> missionId, notBefore |-> 0, expiresAt |-> 2,
     grants |-> grants]

LegacyDocument(missionId) ==
    [schemaVersion |-> 1, missionId |-> missionId, notBefore |-> 0, expiresAt |-> 2,
     grants |-> {}]

Purchase(missionId, amount) ==
    [kind |-> "merchant.purchase", missionId |-> missionId, grantId |-> NoId,
     parentAuthorizationId |-> NoId, environment |-> "SIMULATION",
     adapterId |-> "cli.simulation", counterparty |-> "campground", amount |-> amount]

Acquire(missionId, faceValue) ==
    [kind |-> "payment-instrument.acquire", missionId |-> missionId, grantId |-> "instrument",
     parentAuthorizationId |-> NoId, environment |-> "PRODUCTION",
     adapterId |-> "bitrefill.personal", provider |-> "bitrefill", product |-> "card",
     faceValue |-> faceValue, purchasePrice |-> Undefined]

Transfer(missionId, parent, principal, fee, paymentHash) ==
    [kind |-> "value.transfer", missionId |-> missionId, grantId |-> "transfer",
     parentAuthorizationId |-> parent, environment |-> "PRODUCTION",
     adapterId |-> "wavelength.mainnet", rail |-> "lightning", principal |-> principal,
     fee |-> fee, totalOutflow |-> principal + fee, destinationIdentity |-> "node",
     preparedAdapterId |-> "wavelength.mainnet", externalIdentity |-> paymentHash]

-----------------------------------------------------------------------------
\* Permit life with two processes: a document, a tighter replacement and a
\* legacy one.
LifeDocuments ==
    {Document(m1, {MerchantGrant(5, 2, 8)}), Document(m1, {MerchantGrant(3, 1, Undefined)}),
     LegacyDocument(m1)}
OnePurchase == {Purchase(m1, 3)}

\* Of two purchases one large and one small fill the aggregate, two large ones
\* exceed it; three small ones exceed the executions alone.
BudgetDocuments == {Document(m1, {MerchantGrant(5, 2, 7)})}
BudgetActions == {Purchase(m1, 2), Purchase(m1, 5)}

\* Transfers of two payments: parent-linked in m1, free in m2.
TransferDocuments ==
    {Document(m1, {InstrumentGrant, TransferGrant(TRUE)}), Document(m2, {TransferGrant(FALSE)})}
TransferActions ==
    {Acquire(m1, 5), Transfer(m2, NoId, 4, 1, "hash1"), Transfer(m2, NoId, 4, Undefined, "hash2")}
    \cup UNION {{Transfer(m1, a, 4, 1, "hash1"), Transfer(m1, a, 3, 1, "hash2")} : a \in AuthIds}

-----------------------------------------------------------------------------
\* The ids are interchangeable: the actions of a set name all of them or none.
PermitSymmetry == Permutations(Processes) \cup Permutations(Permits)

=============================================================================
