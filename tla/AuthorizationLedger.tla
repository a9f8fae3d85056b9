-------------------------- MODULE AuthorizationLedger --------------------------
(***************************************************************************)
(* The Permit and Authorization tables of src/src/persistence/store.ts, as *)
(* several operating-system processes use them through their own           *)
(* SatScoutStore.                                                          *)
(*                                                                         *)
(* A BEGIN IMMEDIATE transaction is one step.  An operation that reads a   *)
(* row before its transaction and writes it back inside is two steps, with *)
(* the row it read kept in call[x]: the transaction repeats only the       *)
(* check its UPDATE carries in the WHERE clause, and an index of           *)
(* src/src/persistence/migrations.ts may refuse the row.                   *)
(*                                                                         *)
(* A refusal (a decision other than ALLOW, a thrown error) writes nothing, *)
(* so it is no step here unless it ends a pending call.  Audit rows are    *)
(* written in the same transaction as the row they describe and are left   *)
(* out, as is SQLite's own recovery: a committed transaction is durable.   *)
(***************************************************************************)
EXTENDS PermitEvaluation, AuthorizationLifecycle, FiniteSetsExt

CONSTANTS
    Missions,          \* Mission ids in the missions table
    ActiveMissions,    \* those whose status is ACTIVE (no operation changes it)
    Permits,           \* Permit ids that may be created
    PermitDocuments,   \* Permit contents a human may submit
    AuthIds,           \* Authorization ids the id factory may produce
    IdempotencyKeys,   \* idempotency keys callers use
    Actions,           \* resolved actions adapters may submit
    Processes,         \* processes that hold the database open
    MaxTime,           \* bound of the clock
    NoPermit, NoAuthorization, Idle

ASSUME LedgerAssumption ==
    /\ ActiveMissions \subseteq Missions
    /\ IsFiniteSet(AuthIds)
    /\ MaxTime \in Nat

VARIABLES
    now,             \* the wall clock all processes read
    permits,         \* permits table
    authorizations,  \* authorizations table
    call             \* the row each process has read and not yet written back

vars == <<now, permits, authorizations, call>>

-----------------------------------------------------------------------------
(* Rows.                                                                   *)

PermitRow(id, status, document) ==
    [id |-> id, status |-> status,
     schemaVersion |-> document.schemaVersion, missionId |-> document.missionId,
     notBefore |-> document.notBefore, expiresAt |-> document.expiresAt,
     grants |-> document.grants]

Stored(id) == permits[id] # NoPermit
Issued(id) == authorizations[id] # NoAuthorization

InStatus(status, missionId) ==
    {id \in Permits : /\ Stored(id)
                      /\ permits[id].missionId = missionId
                      /\ permits[id].status = status}

\* Faulty variant: the index is missing.
NoActiveIndex(id, missionId) == TRUE

\* The unique index permits_one_active_per_mission admits id as ACTIVE.
ActiveIndexAdmits(id, missionId) == InStatus("ACTIVE", missionId) \subseteq {id}

assertMissionCanAcceptPermit(missionId, expiresAt) ==
    missionId \in ActiveMissions => expiresAt > now

\* The ACTIVE Permit of the Mission, else its only DRAFT.
permitForAction(missionId) ==
    IF InStatus("ACTIVE", missionId) # {}
    THEN InStatus("ACTIVE", missionId)
    ELSE IF \E id \in Permits : InStatus("DRAFT", missionId) = {id}
    THEN InStatus("DRAFT", missionId)
    ELSE {}

-----------------------------------------------------------------------------
(* Usage, derived from the rows and never counted separately.              *)

Reserving(permitId, grantId) ==
    {a \in AuthIds : /\ Issued(a)
                     /\ authorizations[a].permitId = permitId
                     /\ authorizations[a].grantId = grantId
                     /\ authorizationReservesAuthority(authorizations[a].status)}

reservedEconomicsFor(action) ==
    CASE action.kind = "merchant.purchase" ->
           [amount |-> action.amount, faceValue |-> 0, principal |-> 0,
            fee |-> 0, totalOutflow |-> 0]
      [] action.kind = "payment-instrument.acquire" ->
           [amount |-> 0, faceValue |-> action.faceValue, principal |-> 0,
            fee |-> 0, totalOutflow |-> 0]
      [] OTHER ->
           [amount |-> 0, faceValue |-> 0, principal |-> action.principal,
            fee |-> action.fee, totalOutflow |-> action.totalOutflow]

SumReserved(rows, field) ==
    MapThenSumSet(LAMBDA a : reservedEconomicsFor(authorizations[a].action)[field], rows)

computeGrantUsage(permitId, grantId) ==
    LET rows == Reserving(permitId, grantId) IN
    [executionsReserved   |-> Cardinality(rows),
     amountReserved       |-> SumReserved(rows, "amount"),
     faceValueReserved    |-> SumReserved(rows, "faceValue"),
     principalReserved    |-> SumReserved(rows, "principal"),
     feeReserved          |-> SumReserved(rows, "fee"),
     totalOutflowReserved |-> SumReserved(rows, "totalOutflow")]

computePermitUsage(permit) ==
    [g \in {grant.id : grant \in permit.grants} |-> computeGrantUsage(permit.id, g)]

\* No sum of addReserved leaves the safe integers; it throws when one does.
UsageIsSafe(permit) ==
    LET usage == computePermitUsage(permit) IN
    \A g \in DOMAIN usage : \A field \in DOMAIN usage[g] :
        isSafeNonNegativeInteger(usage[g][field])

-----------------------------------------------------------------------------
(* Authorizing a resolved action: one transaction.                         *)

ParentOf(action) ==
    LET parent == action.parentAuthorizationId IN
    IF parent \in AuthIds /\ Issued(parent)
    THEN [found |-> TRUE, missionId |-> authorizations[parent].missionId,
          permitId |-> authorizations[parent].permitId,
          actionKind |-> authorizations[parent].action.kind,
          status |-> authorizations[parent].status]
    ELSE [found |-> FALSE]

\* The decision of the Permit Engine on the ledger as it is.
Decision(permit, action, acceptSimulation) ==
    evaluateResolvedAction(permit, action,
        [now |-> now, usage |-> computePermitUsage(permit),
         parent |-> ParentOf(action), acceptSimulation |-> acceptSimulation])

\* Faulty variant: a released Authorization gives its key back.
KeyHeld(permitId, key) ==
    \E a \in AuthIds : /\ Issued(a)
                       /\ authorizations[a].permitId = permitId
                       /\ authorizations[a].idempotencyKey = key
                       /\ authorizationReservesAuthority(authorizations[a].status)

KeyTaken(permitId, key) ==
    \E a \in AuthIds : /\ Issued(a)
                       /\ authorizations[a].permitId = permitId
                       /\ authorizations[a].idempotencyKey = key

\* Only a value.transfer with a prepared operation has a payment identity.
PaymentIdentity(action) ==
    IF action.kind = "value.transfer" /\ action.externalIdentity # NoId
    THEN <<action.preparedAdapterId, action.externalIdentity>>
    ELSE <<>>

\* Faulty variant: only unfinished executions hold their payment.
findUnfinishedPaymentIdentity(identity) ==
    {a \in AuthIds : /\ Issued(a)
                     /\ PaymentIdentity(authorizations[a].action) = identity
                     /\ authorizations[a].status \in {"AUTHORIZED", "EXECUTING"}}

findActivePaymentIdentity(identity) ==
    {a \in AuthIds : /\ Issued(a)
                     /\ PaymentIdentity(authorizations[a].action) = identity
                     /\ authorizationReservesAuthority(authorizations[a].status)}

\* Faulty variant: stores the grant the action asked for.
NewAuthorizationAsAsked(permit, grantId, action, key) ==
    [permitId |-> permit.id, missionId |-> permit.missionId, grantId |-> action.grantId,
     action |-> action, status |-> "AUTHORIZED", externalActionAttempted |-> FALSE,
     idempotencyKey |-> key]

NewAuthorization(permit, grantId, action, key) ==
    [permitId |-> permit.id, missionId |-> permit.missionId, grantId |-> grantId,
     action |-> action, status |-> "AUTHORIZED", externalActionAttempted |-> FALSE,
     idempotencyKey |-> key]

\* The one outcome that writes: the key is new, the engine allows the action
\* and no live Authorization holds its payment.  A known key returns the row
\* it names, or a conflict, and writes nothing.
AuthorizeUnder(permit, action, key, acceptSimulation, id) ==
    /\ key # NoId /\ permit.schemaVersion = 2 => ~KeyTaken(permit.id, key)
    /\ UsageIsSafe(permit)
    /\ LET decided == Decision(permit, action, acceptSimulation) IN
       /\ decided.outcome = "ALLOW"
       /\ decided.grantId # NoId
       /\ PaymentIdentity(action) # <<>>
             => findActivePaymentIdentity(PaymentIdentity(action)) = {}
       /\ authorizations' = [authorizations EXCEPT ![id] =
              NewAuthorization(permit, decided.grantId, action, key)]
    /\ UNCHANGED <<now, permits, call>>

\* The Spend Controller has an entry point that lets the action through.
Admitted == {action \in Actions :
    \E trustedAdapter \in TrustedAdapterId \cup {NoId} :
        untrustedProvenanceBlock(action, trustedAdapter) = {}}

Authorize(id) ==
    /\ ~Issued(id)
    /\ \E action \in Admitted, key \in IdempotencyKeys \cup {NoId},
          acceptSimulation \in BOOLEAN :
          \E permitId \in permitForAction(action.missionId) :
             AuthorizeUnder(permits[permitId], action, key, acceptSimulation, id)

-----------------------------------------------------------------------------
(* Permits.                                                                *)

createPermit(id) ==
    /\ ~Stored(id)
    /\ \E document \in PermitDocuments :
          /\ assertMissionCanAcceptPermit(document.missionId, document.expiresAt)
          /\ document.schemaVersion = 1 => ActiveIndexAdmits(id, document.missionId)
          /\ permits' = [permits EXCEPT ![id] =
                PermitRow(id, IF document.schemaVersion = 1 THEN "ACTIVE" ELSE "DRAFT",
                          document)]
    /\ UNCHANGED <<now, authorizations, call>>

\* Each of the three operations first reads the Permit row.
ReadForReplace(x, id) ==
    /\ call[x] = Idle
    /\ Stored(id)
    /\ permits[id].schemaVersion = 2 /\ permits[id].status = "DRAFT"
    /\ \E document \in PermitDocuments :
          /\ document.schemaVersion = 2
          /\ document.missionId = permits[id].missionId
          /\ assertMissionCanAcceptPermit(document.missionId, document.expiresAt)
          /\ call' = [call EXCEPT ![x] =
                [op |-> "replace", read |-> permits[id],
                 write |-> PermitRow(id, "DRAFT", document)]]
    /\ UNCHANGED <<now, permits, authorizations>>

ReadForActivate(x, id) ==
    /\ call[x] = Idle
    /\ Stored(id)
    /\ permits[id].schemaVersion = 2 /\ permits[id].status = "DRAFT"
    /\ InStatus("ACTIVE", permits[id].missionId) = {}
    /\ now < permits[id].expiresAt
    /\ call' = [call EXCEPT ![x] =
          [op |-> "activate", read |-> permits[id],
           write |-> [permits[id] EXCEPT !.status = "ACTIVE"]]]
    /\ UNCHANGED <<now, permits, authorizations>>

ReadForRevoke(x, id) ==
    /\ call[x] = Idle
    /\ Stored(id)
    /\ permits[id].status # "REVOKED"
    /\ call' = [call EXCEPT ![x] =
          [op |-> "revoke", read |-> permits[id],
           write |-> [permits[id] EXCEPT !.status = "REVOKED"]]]
    /\ UNCHANGED <<now, permits, authorizations>>

PermitCall(x) == call[x] # Idle /\ call[x].op \in {"replace", "activate", "revoke"}

\* Faulty variant: the UPDATE names only the id.
PermitWriteUnconditional(c) ==
    c.write.status = "ACTIVE" => ActiveIndexAdmits(c.write.id, c.write.missionId)

\* WHERE id = ? AND status = ?, and the index on ACTIVE rows.
PermitWriteApplies(c) ==
    /\ permits[c.read.id].status = c.read.status
    /\ c.write.status = "ACTIVE" => ActiveIndexAdmits(c.write.id, c.write.missionId)

WritePermit(x) ==
    /\ PermitCall(x)
    /\ PermitWriteApplies(call[x])
    /\ permits' = [permits EXCEPT ![call[x].write.id] = call[x].write]
    /\ call' = [call EXCEPT ![x] = Idle]
    /\ UNCHANGED <<now, authorizations>>

\* "Concurrent Permit update detected", or the index refuses the row.
PermitWriteRefused(x) ==
    /\ PermitCall(x)
    /\ ~PermitWriteApplies(call[x])
    /\ call' = [call EXCEPT ![x] = Idle]
    /\ UNCHANGED <<now, permits, authorizations>>

-----------------------------------------------------------------------------
(* Authorization status: transitionAuthorizationStatus.                    *)

\* A request the lifecycle refuses, or that repeats the status, writes
\* nothing whatever happens in between.
ReadForTransition(x, a) ==
    /\ call[x] = Idle
    /\ Issued(a)
    /\ \E requested \in AuthorizationStatus \ {authorizations[a].status} :
          /\ TransitionAccepted(authorizations[a], requested)
          /\ call' = [call EXCEPT ![x] =
                [op |-> "transition", authorizationId |-> a,
                 existing |-> authorizations[a], requested |-> requested]]
    /\ UNCHANGED <<now, permits, authorizations>>

TransitionCall(x) == call[x] # Idle /\ call[x].op = "transition"

\* Faulty variant: the UPDATE names only the id.
TransitionWriteUnconditional(c) == TRUE

\* WHERE id = ? AND status = ?, with the status the process read.
TransitionWriteApplies(c) ==
    authorizations[c.authorizationId].status = c.existing.status

WriteTransition(x) ==
    /\ TransitionCall(x)
    /\ TransitionWriteApplies(call[x])
    /\ authorizations' = [authorizations EXCEPT ![call[x].authorizationId] =
          transitionAuthorization(call[x].existing, call[x].requested)]
    /\ call' = [call EXCEPT ![x] = Idle]
    /\ UNCHANGED <<now, permits>>

\* "Concurrent Authorization update detected".
TransitionWriteRefused(x) ==
    /\ TransitionCall(x)
    /\ ~TransitionWriteApplies(call[x])
    /\ call' = [call EXCEPT ![x] = Idle]
    /\ UNCHANGED <<now, permits, authorizations>>

-----------------------------------------------------------------------------
\* A process dies between its read and its transaction.
Crash(x) ==
    /\ call[x] # Idle
    /\ call' = [call EXCEPT ![x] = Idle]
    /\ UNCHANGED <<now, permits, authorizations>>

Tick ==
    /\ now < MaxTime
    /\ now' = now + 1
    /\ UNCHANGED <<permits, authorizations, call>>

Init ==
    /\ now = 0
    /\ permits = [id \in Permits |-> NoPermit]
    /\ authorizations = [a \in AuthIds |-> NoAuthorization]
    /\ call = [x \in Processes |-> Idle]

Next ==
    \/ Tick
    \/ \E id \in Permits : createPermit(id)
    \/ \E a \in AuthIds : Authorize(a)
    \/ \E x \in Processes, id \in Permits :
          ReadForReplace(x, id) \/ ReadForActivate(x, id) \/ ReadForRevoke(x, id)
    \/ \E x \in Processes, a \in AuthIds : ReadForTransition(x, a)
    \/ \E x \in Processes :
          \/ WritePermit(x) \/ PermitWriteRefused(x)
          \/ WriteTransition(x) \/ TransitionWriteRefused(x)
          \/ Crash(x)

Spec == Init /\ [][Next]_vars


-----------------------------------------------------------------------------
(* Types.                                                                  *)

PermitStatus == {"DRAFT", "ACTIVE", "REVOKED"}

PermitRows ==
    {PermitRow(id, status, document) :
        id \in Permits, status \in PermitStatus, document \in PermitDocuments}

GrantIds == {grant.id : grant \in UNION {document.grants : document \in PermitDocuments}}

AuthorizationRows ==
    [permitId : Permits, missionId : Missions, grantId : GrantIds, action : Actions,
     status : AuthorizationStatus, externalActionAttempted : BOOLEAN,
     idempotencyKey : IdempotencyKeys \cup {NoId}]

PermitCalls == [op : {"replace", "activate", "revoke"}, read : PermitRows, write : PermitRows]

TransitionCalls ==
    [op : {"transition"}, authorizationId : AuthIds, existing : AuthorizationRows,
     requested : AuthorizationStatus]

\* parsePermit: distinct grant ids, positive execution limits; every
\* document names a Mission (the foreign key of the permits table).
ASSUME DocumentAssumption ==
    \A document \in PermitDocuments :
        /\ document.missionId \in Missions
        /\ document.schemaVersion \in {1, 2}
        /\ document.schemaVersion = 1 => document.grants = {}
        /\ \A one, other \in document.grants : one.id = other.id => one = other
        /\ \A grant \in document.grants : grant.maxExecutions \in Nat \ {0}

\* Amounts are non-negative integers, an aggregate one or absent
\* (nonNegativeIntegerSchema in grants.ts and resolved-action.ts).
ASSUME AmountAssumption ==
    /\ \A document \in PermitDocuments : \A grant \in document.grants :
          /\ grant.kind = "merchant.purchase" => grant.maxAggregateAmount \in Nat \cup {Undefined}
          /\ grant.kind = "payment-instrument.acquire"
                => grant.maxAggregateFaceValue \in Nat \cup {Undefined}
          /\ grant.kind = "value.transfer"
                => /\ grant.maxAggregatePrincipal \in Nat \cup {Undefined}
                   /\ grant.maxAggregateTotalOutflow \in Nat \cup {Undefined}
    /\ \A action \in Actions :
          /\ action.kind = "merchant.purchase" => action.amount \in Nat
          /\ action.kind = "payment-instrument.acquire" => action.faceValue \in Nat

ASSUME NullAssumption ==
    /\ NoPermit \notin PermitRows
    /\ NoAuthorization \notin AuthorizationRows
    /\ Idle \notin PermitCalls \cup TransitionCalls

\* Every row and every pending call has the shape its schema gives it.
TypeOK ==
    /\ now \in 0..MaxTime
    /\ permits \in [Permits -> PermitRows \cup {NoPermit}]
    /\ authorizations \in [AuthIds -> AuthorizationRows \cup {NoAuthorization}]
    /\ call \in [Processes -> PermitCalls \cup TransitionCalls \cup {Idle}]

-----------------------------------------------------------------------------
(* What the ledger promises.                                               *)

\* A Mission never has two ACTIVE Permits, although activatePermit looks for
\* another one before its transaction begins (store.ts activatePermit).
OneActivePermit ==
    \A missionId \in Missions : \A one, other \in InStatus("ACTIVE", missionId) :
        one = other

\* "Concurrent callers cannot oversubscribe max executions": a grant is never
\* held by more Authorizations than the stored Permit allows, whichever
\* processes authorize, release, replace, activate and revoke
\* (authorizeResolvedAction, computeGrantUsage).
ExecutionsWithinGrant ==
    \A id \in Permits : Stored(id) =>
        \A grant \in permits[id].grants :
            Cardinality(Reserving(id, grant.id)) <= grant.maxExecutions

\* "... or aggregate budget": the amounts held under a grant, summed over its
\* live Authorizations, stay within every aggregate limit it states.
AggregatesWithinGrant ==
    \A id \in Permits : Stored(id) =>
        \A grant \in permits[id].grants :
            LET usage == computeGrantUsage(id, grant.id)
                Within(aggregate, reserved) == Defined(aggregate) => reserved <= aggregate IN
            /\ grant.kind = "merchant.purchase"
                  => Within(grant.maxAggregateAmount, usage.amountReserved)
            /\ grant.kind = "payment-instrument.acquire"
                  => Within(grant.maxAggregateFaceValue, usage.faceValueReserved)
            /\ grant.kind = "value.transfer"
                  => /\ Within(grant.maxAggregatePrincipal, usage.principalReserved)
                     /\ Within(grant.maxAggregateTotalOutflow, usage.totalOutflowReserved)

\* A Lightning payment is held by at most one live Authorization, across
\* Permits and Missions; a RELEASED one no longer holds it
\* (findActivePaymentIdentity and the index authorizations_active_payment_identity).
OnePaymentReservation ==
    \A a, b \in AuthIds :
        /\ Issued(a) /\ Issued(b)
        /\ authorizationReservesAuthority(authorizations[a].status)
        /\ authorizationReservesAuthority(authorizations[b].status)
        /\ PaymentIdentity(authorizations[a].action) # <<>>
        /\ PaymentIdentity(authorizations[a].action) = PaymentIdentity(authorizations[b].action)
        => a = b

\* Under one Permit an idempotency key names one Authorization for good, even
\* after that Authorization is released (index authorizations_idempotency).
OneAuthorizationPerKey ==
    \A a, b \in AuthIds :
        /\ Issued(a) /\ Issued(b)
        /\ authorizations[a].permitId = authorizations[b].permitId
        /\ authorizations[a].idempotencyKey = authorizations[b].idempotencyKey
        /\ authorizations[a].idempotencyKey # NoId
        => a = b

\* Whatever is written to the Permit later, each Authorization still names a
\* grant of the stored Permit of its kind and Mission, and the Permit is past
\* its DRAFT: the terms it was decided under are the terms on record.
AuthorizationsNameStoredTerms ==
    \A a \in AuthIds : Issued(a) =>
        LET auth == authorizations[a] IN
        /\ Stored(auth.permitId)
        /\ permits[auth.permitId].status # "DRAFT"
        /\ permits[auth.permitId].missionId = auth.missionId
        /\ auth.action.missionId = auth.missionId
        /\ \E grant \in permits[auth.permitId].grants :
              grant.id = auth.grantId /\ grant.kind = auth.action.kind

\* "There is no timeout -> release -> retry path": once execution may have
\* begun, no step hands the authority back or forgets the attempt, except
\* through FAILED_SAFE; a status read before another process moved the row
\* does not either (transitionAuthorizationStatus).
NoReleaseAfterExecution ==
    [][\A a \in AuthIds :
          Issued(a) /\ authorizations[a].status \in {"EXECUTING", "AMBIGUOUS", "SUCCEEDED"}
          => /\ authorizations'[a].status # "RELEASED"
             /\ authorizations'[a].externalActionAttempted]_vars

\* "ACTIVE Permits are immutable": after activation no step changes what the
\* Permit allows, and its status only moves to REVOKED, whatever a process
\* read while it was a DRAFT.
TermsFrozenAfterActivation ==
    [][\A id \in Permits :
          Stored(id) /\ permits[id].status # "DRAFT"
          => /\ permits'[id] \in {permits[id], [permits[id] EXCEPT !.status = "REVOKED"]}]_vars

\* store.ts activatePermit guards its write with "Concurrent Permit update
\* detected": activation is meant to put into force the DRAFT that is stored.
ActivationKeepsStoredTerms ==
    [][\A id \in Permits :
          Stored(id) /\ permits[id].status = "DRAFT" /\ permits'[id].status = "ACTIVE"
          => permits'[id].grants = permits[id].grants]_vars

=============================================================================
