------------------------ MODULE AuthorizationLedgerProofs ------------------------
(***************************************************************************)
(* Theorems about AuthorizationLedger, for every set of Permits, documents,*)
(* actions, Authorization ids and processes.                               *)
(***************************************************************************)
EXTENDS AuthorizationLedger, FiniteSetTheorems, TLAPS

-----------------------------------------------------------------------------
(* The inductive invariant.                                                *)

\* A Permit row is filed under its own id.
RowsKeyed == \A id \in Permits : Stored(id) => permits[id].id = id

\* Every row says of its attempt what AuthorizationSchema accepts.
AttemptsConsistent == \A a \in AuthIds : Issued(a) => AttemptConsistent(authorizations[a])

WithStatus(row, status) == [row EXCEPT !.status = status]

\* What a process about to write a Permit knows about the row it read.
PermitReadSound(c) ==
    /\ Stored(c.read.id)
    /\ permits[c.read.id].missionId = c.read.missionId
    /\ c.write.id = c.read.id
    /\ c.write.missionId = c.read.missionId
    /\ c.op = "replace" => c.read.status = "DRAFT" /\ c.write.status = "DRAFT"
    /\ c.op = "activate" =>
          c.read.status = "DRAFT" /\ c.write = WithStatus(c.read, "ACTIVE")
    /\ c.op = "revoke" =>
          c.read.status # "REVOKED" /\ c.write = WithStatus(c.read, "REVOKED")
    /\ c.read.status = "ACTIVE" =>
          /\ permits[c.read.id].status # "DRAFT"
          /\ permits[c.read.id].status = "ACTIVE" => permits[c.read.id] = c.read

PermitReadsSound == \A x \in Processes : PermitCall(x) => PermitReadSound(call[x])

\* Two rows that differ at most in status and attempt.
SameBinding(one, other) ==
    /\ one.permitId = other.permitId /\ one.missionId = other.missionId
    /\ one.grantId = other.grantId /\ one.action = other.action
    /\ one.idempotencyKey = other.idempotencyKey

\* What a process about to write an Authorization knows about the row it read.
TransitionReadSound(c) ==
    /\ Issued(c.authorizationId)
    /\ TransitionAccepted(c.existing, c.requested)
    /\ c.requested # c.existing.status
    /\ AttemptConsistent(c.existing)
    /\ SameBinding(c.existing, authorizations[c.authorizationId])

TransitionReadsSound ==
    \A x \in Processes : TransitionCall(x) => TransitionReadSound(call[x])

IInv ==
    /\ TypeOK
    /\ RowsKeyed
    /\ OneActivePermit
    /\ AttemptsConsistent
    /\ PermitReadsSound
    /\ TransitionReadsSound
    /\ AuthorizationsNameStoredTerms
    /\ ExecutionsWithinGrant
    /\ OneAuthorizationPerKey
    /\ OnePaymentReservation

-----------------------------------------------------------------------------
(* Rows and documents.                                                     *)

\* The fields of a Permit row come from its id, its status and one document.
LEMMA RowFields ==
    ASSUME NEW row \in PermitRows
    PROVE  /\ row.id \in Permits
           /\ row.status \in PermitStatus
           /\ row.missionId \in Missions
           /\ row.schemaVersion \in {1, 2}
           /\ row.schemaVersion = 1 => row.grants = {}
           /\ \A one, other \in row.grants : one.id = other.id => one = other
           /\ \A grant \in row.grants : grant.maxExecutions \in Nat \ {0} /\ grant.id \in GrantIds
<1>1. PICK id \in Permits, status \in PermitStatus, document \in PermitDocuments :
         row = PermitRow(id, status, document)
  BY DEF PermitRows
<1>2. /\ row.id = id /\ row.status = status
      /\ row.missionId = document.missionId
      /\ row.schemaVersion = document.schemaVersion
      /\ row.grants = document.grants
  BY <1>1 DEF PermitRow
<1>3. \A grant \in document.grants : grant.id \in GrantIds
  BY DEF GrantIds
<1> QED
  BY <1>2, <1>3, DocumentAssumption

\* A new status makes a row of the same Permit and the same terms.
LEMMA RowWithStatus ==
    ASSUME NEW row \in PermitRows, NEW status \in PermitStatus
    PROVE  /\ WithStatus(row, status) \in PermitRows
           /\ WithStatus(row, status).status = status
           /\ WithStatus(row, status).id = row.id
           /\ WithStatus(row, status).missionId = row.missionId
           /\ WithStatus(row, status).grants = row.grants
<1>1. PICK id \in Permits, old \in PermitStatus, document \in PermitDocuments :
         row = PermitRow(id, old, document)
  BY DEF PermitRows
<1>2. WithStatus(row, status) = PermitRow(id, status, document)
  BY <1>1 DEF PermitRow, WithStatus
<1>3. PermitRow(id, status, document) \in PermitRows
  BY DEF PermitRows
<1>4. /\ PermitRow(id, status, document).status = status
      /\ PermitRow(id, status, document).id = row.id
      /\ PermitRow(id, status, document).missionId = row.missionId
      /\ PermitRow(id, status, document).grants = row.grants
  BY <1>1 DEF PermitRow
<1> QED
  BY <1>2, <1>3, <1>4

\* A document makes a row.
LEMMA RowOfDocument ==
    ASSUME NEW id \in Permits, NEW status \in PermitStatus, NEW document \in PermitDocuments
    PROVE  /\ PermitRow(id, status, document) \in PermitRows
           /\ PermitRow(id, status, document).id = id
           /\ PermitRow(id, status, document).status = status
           /\ PermitRow(id, status, document).missionId = document.missionId
           /\ PermitRow(id, status, document).grants = document.grants
<1>1. PermitRow(id, status, document) \in PermitRows
  BY DEF PermitRows
<1> QED
  BY <1>1 DEF PermitRow

\* An accepted transition stays in the type, binds the same action, starts
\* from a status that holds authority and keeps a recorded attempt.
LEMMA TransitionFacts ==
    ASSUME NEW auth \in AuthorizationRows, NEW requested \in AuthorizationStatus,
           TransitionAccepted(auth, requested), requested # auth.status
    PROVE  LET next == transitionAuthorization(auth, requested) IN
           /\ next \in AuthorizationRows
           /\ next.status = requested
           /\ SameBinding(next, auth)
           /\ AttemptConsistent(next)
           /\ authorizationReservesAuthority(auth.status)
           /\ auth.externalActionAttempted => next.externalActionAttempted
           /\ requested = "RELEASED" => auth.status \in {"AUTHORIZED", "FAILED_SAFE"}
<1>1. auth.status \in AuthorizationStatus /\ auth.externalActionAttempted \in BOOLEAN
  BY DEF AuthorizationRows
<1>2. requested \in allowed[auth.status]
  BY DEF TransitionAccepted
<1>3. /\ requested # "AUTHORIZED" /\ auth.status # "RELEASED"
      /\ requested = "RELEASED" => auth.status \in {"AUTHORIZED", "FAILED_SAFE"}
  BY <1>1, <1>2 DEF allowed, AuthorizationStatus
<1>4. transitionAuthorization(auth, requested) =
         [auth EXCEPT !.status = requested,
                      !.externalActionAttempted =
                         @ \/ requested \in {"EXECUTING", "SUCCEEDED", "AMBIGUOUS"}]
  BY DEF transitionAuthorization
<1>5. transitionAuthorization(auth, requested) \in AuthorizationRows
  BY <1>1, <1>4 DEF AuthorizationRows
<1>6. /\ transitionAuthorization(auth, requested).status = requested
      /\ transitionAuthorization(auth, requested).externalActionAttempted =
            (\/ auth.externalActionAttempted
             \/ requested \in {"EXECUTING", "SUCCEEDED", "AMBIGUOUS"})
      /\ SameBinding(transitionAuthorization(auth, requested), auth)
  BY <1>4 DEF AuthorizationRows, SameBinding
<1>7. authorizationReservesAuthority(auth.status)
  BY <1>1, <1>3
     DEF authorizationReservesAuthority, AUTHORITY_RESERVING_STATUSES, AuthorizationStatus
<1>8. AttemptConsistent(transitionAuthorization(auth, requested))
  BY <1>3, <1>6, Zenon DEF AttemptConsistent
<1> QED
  BY <1>3, <1>5, <1>6, <1>7, <1>8

-----------------------------------------------------------------------------
(* The Permit Engine.                                                      *)

\* A decision allows exactly when it found no reason.
LEMMA AllowMeansNoReason ==
    ASSUME NEW reasons, Outcome(reasons) = "ALLOW"
    PROVE  reasons = {}
  BY DEF Outcome

\* A decision carries the outcome of its reasons and the grant they are about.
LEMMA DecisionFields ==
    ASSUME NEW reasons, NEW grantId
    PROVE  /\ decision(reasons, grantId).outcome = Outcome(reasons)
           /\ decision(reasons, grantId).grantId = grantId
  BY DEF decision

\* Every kind of grant refuses an action when no execution is left.
LEMMA LimitsLeaveExecution ==
    ASSUME NEW grant, NEW action, NEW usage,
           evaluateGrantLimits(grant, action, usage) = {}
    PROVE  /\ grant.kind = action.kind
           /\ ~(remainingExecutions(grant, usage) < 1)
<1>1. grant.kind = action.kind
  BY DEF evaluateGrantLimits
<1>2. \/ evaluateMerchantGrant(grant, action, usage) = {}
      \/ evaluateInstrumentGrant(grant, action, usage) = {}
      \/ evaluateValueTransferGrant(grant, action, usage) = {}
  BY <1>1 DEF evaluateGrantLimits
<1>3. When(remainingExecutions(grant, usage) < 1, "EXECUTION_LIMIT_REACHED") = {}
  BY <1>2, Zenon
     DEF evaluateMerchantGrant, evaluateInstrumentGrant, evaluateValueTransferGrant
<1> QED
  BY <1>1, <1>3 DEF When

\* What an allowed action says of the Permit and of the grant it names.
LEMMA AllowedAction ==
    ASSUME NEW permit \in PermitRows, NEW action, NEW acceptSimulation,
           Decision(permit, action, acceptSimulation).outcome = "ALLOW",
           Decision(permit, action, acceptSimulation).grantId # NoId
    PROVE  /\ permit.status = "ACTIVE"
           /\ permit.schemaVersion # 1
           /\ action.missionId = permit.missionId
           /\ \E grant \in permit.grants :
                 /\ grant.id = Decision(permit, action, acceptSimulation).grantId
                 /\ grant.kind = action.kind
                 /\ evaluateGrantLimits(grant, action, computeGrantUsage(permit.id, grant.id)) = {}
                 /\ Cardinality(Reserving(permit.id, grant.id)) \in Nat
                       => Cardinality(Reserving(permit.id, grant.id)) + 1
                             <= grant.maxExecutions
<1> DEFINE context ==
       [now |-> now, usage |-> computePermitUsage(permit),
        parent |-> ParentOf(action), acceptSimulation |-> acceptSimulation]
<1>1. Decision(permit, action, acceptSimulation) =
         evaluateResolvedAction(permit, action, context)
  BY DEF Decision
<1> HIDE DEF context
<1>2. permit.schemaVersion # 1
  <2>1. permit.schemaVersion = 1 =>
           Decision(permit, action, acceptSimulation)
              = decision({"LEGACY_PERMIT_NOT_AUTHORIZABLE"}, NoId)
    BY <1>1 DEF evaluateResolvedAction
  <2> QED
    BY <2>1, DecisionFields
<1>3. Decision(permit, action, acceptSimulation) = evaluatePermitV2(permit, action, context)
  BY <1>1, <1>2 DEF evaluateResolvedAction
<1>4. PermitReasons(permit, action, context) = {}
  <2>1. PermitReasons(permit, action, context) # {} =>
           Decision(permit, action, acceptSimulation)
              = decision(PermitReasons(permit, action, context), NoId)
    BY <1>3 DEF evaluatePermitV2
  <2> QED
    BY <2>1, DecisionFields
<1> DEFINE nominated == Nominated(permit, action)
           grant == CHOOSE grant \in nominated : TRUE
           undecided ==
              \/ KindGrants(permit, action) = {}
              \/ action.grantId # NoId /\ nominated = {}
              \/ nominated = {}
              \/ \E one, other \in nominated : one # other
<1>5. /\ nominated # {}
      /\ Decision(permit, action, acceptSimulation) =
            decision(GrantReasons(grant, permit, action, context), grant.id)
  <2>1. undecided => \E reasons :
           Decision(permit, action, acceptSimulation) = decision(reasons, NoId)
    BY <1>3, <1>4 DEF evaluatePermitV2
  <2>2. ~undecided
    BY <2>1, DecisionFields
  <2> QED
    BY <2>2, <1>3, <1>4 DEF evaluatePermitV2
<1>6. /\ grant \in permit.grants
      /\ grant.id = Decision(permit, action, acceptSimulation).grantId
  BY <1>5, DecisionFields DEF Nominated, KindGrants
<1> HIDE DEF grant, nominated
<1>7. GrantReasons(grant, permit, action, context) = {}
  <2>1. Outcome(GrantReasons(grant, permit, action, context)) = "ALLOW"
    BY <1>5, DecisionFields
  <2> QED
    BY <2>1, AllowMeansNoReason
<1>8. evaluateGrantLimits(grant, action, context.usage[grant.id]) = {}
  BY <1>7 DEF GrantReasons
<1>9. context.usage[grant.id] = computeGrantUsage(permit.id, grant.id)
  BY <1>6 DEF context, computePermitUsage
<1>10. /\ grant.kind = action.kind
       /\ ~(remainingExecutions(grant, computeGrantUsage(permit.id, grant.id)) < 1)
  BY <1>8, <1>9, LimitsLeaveExecution
<1>11. computeGrantUsage(permit.id, grant.id).executionsReserved
          = Cardinality(Reserving(permit.id, grant.id))
  BY DEF computeGrantUsage
<1>12. grant.maxExecutions \in Nat \ {0}
  BY <1>6, RowFields
<1>13. Cardinality(Reserving(permit.id, grant.id)) \in Nat
          => Cardinality(Reserving(permit.id, grant.id)) + 1 <= grant.maxExecutions
  BY <1>10, <1>11, <1>12 DEF remainingExecutions, Greatest
<1>14. permit.status = "ACTIVE" /\ action.missionId = permit.missionId
  <2>1. permit.status \in PermitStatus
    BY RowFields
  <2>2. When(permit.status = "DRAFT", "PERMIT_NOT_ACTIVE") = {}
    BY <1>4 DEF PermitReasons
  <2>3. When(permit.status = "REVOKED", "PERMIT_REVOKED") = {}
    BY <1>4 DEF PermitReasons
  <2>4. When(action.missionId # permit.missionId, "MISSION_MISMATCH") = {}
    BY <1>4 DEF PermitReasons
  <2> QED
    BY <2>1, <2>2, <2>3, <2>4 DEF When, PermitStatus
<1> QED
  BY <1>2, <1>6, <1>8, <1>9, <1>10, <1>13, <1>14

-----------------------------------------------------------------------------
(* The invariant holds in the initial state.                               *)

\* The markers of an absent row and of an idle process are not rows.
LEMMA NullFacts ==
    /\ \A row \in PermitRows : row # NoPermit
    /\ \A row \in AuthorizationRows : row # NoAuthorization
    /\ \A c \in PermitCalls \cup TransitionCalls : c # Idle
  BY NullAssumption

\* Nothing is reserved where nothing is issued.
LEMMA NoneReserving ==
    ASSUME NEW id, NEW g,
           \A a \in AuthIds : Issued(a) => authorizations[a].permitId # id
    PROVE  Reserving(id, g) = {} /\ Cardinality(Reserving(id, g)) = 0
<1>1. Reserving(id, g) = {}
  BY DEF Reserving
<1> QED
  BY <1>1, FS_EmptySet

\* The empty database satisfies the invariant.
THEOREM InitEstablishesIInv == Init => IInv
<1> SUFFICES ASSUME Init PROVE IInv
  OBVIOUS
<1> USE DEF Init
<1>1. /\ \A id \in Permits : ~Stored(id)
      /\ \A a \in AuthIds : ~Issued(a)
      /\ \A x \in Processes : ~PermitCall(x) /\ ~TransitionCall(x)
  BY DEF Stored, Issued, PermitCall, TransitionCall
<1>2. TypeOK
  BY LedgerAssumption DEF TypeOK
<1>3. OneActivePermit
  BY <1>1 DEF OneActivePermit, InStatus
<1>4. ExecutionsWithinGrant
  BY <1>1 DEF ExecutionsWithinGrant
<1> QED
  BY <1>1, <1>2, <1>3, <1>4
     DEF IInv, RowsKeyed, AttemptsConsistent, PermitReadsSound, TransitionReadsSound,
         AuthorizationsNameStoredTerms, OneAuthorizationPerKey, OnePaymentReservation

-----------------------------------------------------------------------------
(* Steps that touch only the pending calls and the clock.                  *)

\* A step that writes no row keeps the invariant, provided the calls it leaves
\* pending know what the invariant says they know.
LEMMA RowsUntouched ==
    ASSUME IInv, UNCHANGED <<permits, authorizations>>,
           now' \in 0..MaxTime,
           call' \in [Processes -> PermitCalls \cup TransitionCalls \cup {Idle}],
           PermitReadsSound', TransitionReadsSound'
    PROVE  IInv'
<1>1. TypeOK'
  BY DEF IInv, TypeOK
<1>2. RowsKeyed' /\ AttemptsConsistent'
  BY DEF IInv, RowsKeyed, AttemptsConsistent, Stored, Issued
<1>3. OneActivePermit'
  BY DEF IInv, OneActivePermit, InStatus, Stored
<1>4. AuthorizationsNameStoredTerms'
  BY DEF IInv, AuthorizationsNameStoredTerms, Stored, Issued
<1>5. ExecutionsWithinGrant'
  BY DEF IInv, ExecutionsWithinGrant, Reserving, Stored, Issued
<1>6. OneAuthorizationPerKey'
  BY DEF IInv, OneAuthorizationPerKey, Issued
<1>7. OnePaymentReservation'
  BY DEF IInv, OnePaymentReservation, Issued
<1> QED
  BY <1>1, <1>2, <1>3, <1>4, <1>5, <1>6, <1>7 DEF IInv

\* Calls that a step leaves alone stay sound while the rows do.
LEMMA OtherCalls ==
    ASSUME IInv, NEW y \in Processes, call'[y] = call[y], UNCHANGED <<permits, authorizations>>
    PROVE  /\ PermitCall(y)' => PermitReadSound(call[y])'
           /\ TransitionCall(y)' => TransitionReadSound(call[y])'
<1>1. PermitCall(y)' => PermitReadSound(call[y])
  BY DEF IInv, PermitReadsSound, PermitCall
<1>2. TransitionCall(y)' => TransitionReadSound(call[y])
  BY DEF IInv, TransitionReadsSound, TransitionCall
<1> QED
  BY <1>1, <1>2 DEF PermitReadSound, TransitionReadSound, Stored, Issued

\* A step that ends one call leaves the others as they were.
LEMMA CallEnds ==
    ASSUME IInv, NEW x \in Processes, call' = [call EXCEPT ![x] = Idle],
           UNCHANGED <<now, permits, authorizations>>
    PROVE  IInv'
<1>1. call' \in [Processes -> PermitCalls \cup TransitionCalls \cup {Idle}]
  BY DEF IInv, TypeOK
<1>2. \A y \in Processes : call'[y] = call[y] \/ call'[y] = Idle
  BY DEF IInv, TypeOK
<1>3. PermitReadsSound'
  BY <1>2, OtherCalls DEF PermitReadsSound, PermitCall
<1>4. TransitionReadsSound'
  BY <1>2, OtherCalls DEF TransitionReadsSound, TransitionCall
<1> QED
  BY <1>1, <1>3, <1>4, RowsUntouched DEF IInv, TypeOK

\* A step that begins a call has to answer only for that call.
LEMMA CallBegins ==
    ASSUME IInv, NEW x \in Processes, NEW c \in PermitCalls \cup TransitionCalls,
           call' = [call EXCEPT ![x] = c],
           UNCHANGED <<now, permits, authorizations>>,
           c \in PermitCalls => PermitReadSound(c),
           c \in TransitionCalls => TransitionReadSound(c)
    PROVE  IInv'
<1>1. call' \in [Processes -> PermitCalls \cup TransitionCalls \cup {Idle}]
  BY DEF IInv, TypeOK
<1>2. /\ call'[x] = c
      /\ \A y \in Processes : y # x => call'[y] = call[y]
  BY DEF IInv, TypeOK
<1>3. /\ c \in PermitCalls => c.op # "transition"
      /\ c \in TransitionCalls => c.op = "transition"
  BY DEF PermitCalls, TransitionCalls
<1>4. ASSUME NEW y \in Processes, PermitCall(y)' PROVE PermitReadSound(call[y])'
  <2>1. CASE y = x
    <3>1. c \in PermitCalls
      BY <1>2, <1>3, <1>4, <2>1 DEF PermitCall
    <3>2. PermitReadSound(c)
      BY <3>1
    <3> QED
      BY <3>2, <1>2, <2>1 DEF PermitReadSound, Stored
  <2> QED
    BY <2>1, <1>2, <1>4, OtherCalls
<1>5. ASSUME NEW y \in Processes, TransitionCall(y)' PROVE TransitionReadSound(call[y])'
  <2>1. CASE y = x
    <3>1. c \in TransitionCalls
      BY <1>2, <1>3, <1>5, <2>1 DEF TransitionCall
    <3>2. TransitionReadSound(c)
      BY <3>1
    <3> QED
      BY <3>2, <1>2, <2>1 DEF TransitionReadSound, Issued
  <2> QED
    BY <2>1, <1>2, <1>5, OtherCalls
<1>6. PermitReadsSound' /\ TransitionReadsSound'
  BY <1>4, <1>5 DEF PermitReadsSound, TransitionReadsSound
<1> QED
  BY <1>1, <1>6, RowsUntouched DEF IInv, TypeOK

\* Reading a Permit before replacing, activating or revoking it.
LEMMA ReadPermitKeeps ==
    ASSUME IInv, NEW x \in Processes, NEW id \in Permits,
           ReadForReplace(x, id) \/ ReadForActivate(x, id) \/ ReadForRevoke(x, id)
    PROVE  IInv'
<1>1. Stored(id) /\ permits[id] \in PermitRows /\ permits[id].id = id
  <2>1. Stored(id)
    BY DEF ReadForReplace, ReadForActivate, ReadForRevoke
  <2> QED
    BY <2>1 DEF IInv, TypeOK, RowsKeyed, Stored
<1>2. CASE ReadForReplace(x, id)
  <2>1. PICK document \in PermitDocuments :
           /\ document.missionId = permits[id].missionId
           /\ permits[id].status = "DRAFT"
           /\ call' = [call EXCEPT ![x] =
                 [op |-> "replace", read |-> permits[id],
                  write |-> PermitRow(id, "DRAFT", document)]]
           /\ UNCHANGED <<now, permits, authorizations>>
    BY <1>2 DEF ReadForReplace
  <2> DEFINE c == [op |-> "replace", read |-> permits[id],
                   write |-> PermitRow(id, "DRAFT", document)]
  <2>2. /\ PermitRow(id, "DRAFT", document) \in PermitRows
        /\ PermitRow(id, "DRAFT", document).id = id
        /\ PermitRow(id, "DRAFT", document).status = "DRAFT"
        /\ PermitRow(id, "DRAFT", document).missionId = permits[id].missionId
    BY <2>1, RowOfDocument DEF PermitStatus
  <2>3. c \in PermitCalls
    BY <1>1, <2>2 DEF PermitCalls
  <2>4. PermitReadSound(c)
    BY <1>1, <2>1, <2>2 DEF PermitReadSound
  <2>5. c \notin TransitionCalls
    BY DEF TransitionCalls
  <2> QED
    BY <2>1, <2>3, <2>4, <2>5, CallBegins
<1>3. ASSUME NEW op \in {"activate", "revoke"}, NEW status \in PermitStatus,
             op = "activate" => permits[id].status = "DRAFT" /\ status = "ACTIVE",
             op = "revoke" => permits[id].status # "REVOKED" /\ status = "REVOKED",
             call' = [call EXCEPT ![x] =
                [op |-> op, read |-> permits[id], write |-> WithStatus(permits[id], status)]],
             UNCHANGED <<now, permits, authorizations>>
      PROVE  IInv'
  <2> DEFINE c == [op |-> op, read |-> permits[id], write |-> WithStatus(permits[id], status)]
  <2>1. /\ WithStatus(permits[id], status) \in PermitRows
        /\ WithStatus(permits[id], status).id = id
        /\ WithStatus(permits[id], status).missionId = permits[id].missionId
    BY <1>1, RowWithStatus
  <2>2. c \in PermitCalls
    BY <1>1, <2>1 DEF PermitCalls
  <2>3. PermitReadSound(c)
    BY <1>1, <1>3, <2>1 DEF PermitReadSound
  <2>4. c \notin TransitionCalls
    BY DEF TransitionCalls
  <2> QED
    BY <1>3, <2>2, <2>3, <2>4, CallBegins
<1>4. CASE ReadForActivate(x, id)
  BY <1>3, <1>4 DEF ReadForActivate, WithStatus, PermitStatus
<1>5. CASE ReadForRevoke(x, id)
  BY <1>3, <1>5 DEF ReadForRevoke, WithStatus, PermitStatus
<1> QED
  BY <1>2, <1>4, <1>5

\* Reading an Authorization before moving its status.
LEMMA ReadForTransitionKeeps ==
    ASSUME IInv, NEW x \in Processes, NEW a \in AuthIds, ReadForTransition(x, a)
    PROVE  IInv'
<1>1. /\ Issued(a)
      /\ authorizations[a] \in AuthorizationRows
      /\ AttemptConsistent(authorizations[a])
  BY DEF ReadForTransition, IInv, TypeOK, AttemptsConsistent, Issued
<1>2. PICK requested \in AuthorizationStatus \ {authorizations[a].status} :
         /\ TransitionAccepted(authorizations[a], requested)
         /\ call' = [call EXCEPT ![x] =
               [op |-> "transition", authorizationId |-> a,
                existing |-> authorizations[a], requested |-> requested]]
         /\ UNCHANGED <<now, permits, authorizations>>
  BY DEF ReadForTransition
<1> DEFINE c == [op |-> "transition", authorizationId |-> a,
                 existing |-> authorizations[a], requested |-> requested]
<1>3. c \in TransitionCalls /\ c \notin PermitCalls
  BY <1>1 DEF TransitionCalls, PermitCalls
<1>4. TransitionReadSound(c)
  BY <1>1, <1>2 DEF TransitionReadSound, SameBinding
<1> QED
  BY <1>2, <1>3, <1>4, CallBegins

-----------------------------------------------------------------------------
(* Steps that write a row.                                                 *)

\* Calls in progress stay sound while their own Permit and Authorization do.
LEMMA CallsKept ==
    ASSUME IInv, UNCHANGED call,
           \A id \in Permits : Stored(id) => permits'[id] = permits[id],
           \A a \in AuthIds : Issued(a) => authorizations'[a] = authorizations[a]
    PROVE  PermitReadsSound' /\ TransitionReadsSound'
<1>1. ASSUME NEW x \in Processes, PermitCall(x)' PROVE PermitReadSound(call[x])'
  <2>1. PermitCall(x) /\ PermitReadSound(call[x])
    BY <1>1 DEF IInv, PermitReadsSound, PermitCall
  <2>2. call[x] \in PermitCalls
    BY <2>1 DEF IInv, TypeOK, PermitCall, TransitionCalls
  <2>3. call[x].read.id \in Permits
    BY <2>2, RowFields DEF PermitCalls
  <2>4. permits'[call[x].read.id] = permits[call[x].read.id]
    BY <2>1, <2>3 DEF PermitReadSound
  <2> QED
    BY <2>1, <2>4 DEF PermitReadSound, Stored
<1>2. ASSUME NEW x \in Processes, TransitionCall(x)' PROVE TransitionReadSound(call[x])'
  <2>1. TransitionCall(x) /\ TransitionReadSound(call[x])
    BY <1>2 DEF IInv, TransitionReadsSound, TransitionCall
  <2>2. call[x] \in TransitionCalls
    BY <2>1 DEF IInv, TypeOK, TransitionCall, PermitCalls
  <2>3. authorizations'[call[x].authorizationId] = authorizations[call[x].authorizationId]
    BY <2>1, <2>2 DEF TransitionReadSound, TransitionCalls
  <2> QED
    BY <2>1, <2>3 DEF TransitionReadSound, Issued
<1> QED
  BY <1>1, <1>2 DEF PermitReadsSound, TransitionReadsSound

\* A new Permit has no Authorization yet, and is ACTIVE only where it is alone.
LEMMA CreatePermitKeeps ==
    ASSUME IInv, NEW id \in Permits, createPermit(id)
    PROVE  IInv'
<1>1. PICK document \in PermitDocuments, status \in PermitStatus :
         /\ permits' = [permits EXCEPT ![id] = PermitRow(id, status, document)]
         /\ status = "ACTIVE" => ActiveIndexAdmits(id, document.missionId)
         /\ UNCHANGED <<now, authorizations, call>>
         /\ ~Stored(id)
  <2>1. PICK document \in PermitDocuments :
           /\ document.schemaVersion = 1 => ActiveIndexAdmits(id, document.missionId)
           /\ permits' = [permits EXCEPT ![id] =
                 PermitRow(id, IF document.schemaVersion = 1 THEN "ACTIVE" ELSE "DRAFT",
                           document)]
           /\ UNCHANGED <<now, authorizations, call>>
           /\ ~Stored(id)
    BY DEF createPermit
  <2>2. CASE document.schemaVersion = 1
    BY <2>1, <2>2 DEF PermitStatus
  <2>3. CASE document.schemaVersion # 1
    BY <2>1, <2>3 DEF PermitStatus
  <2> QED
    BY <2>2, <2>3
<1> DEFINE row == PermitRow(id, status, document)
<1>2. /\ row \in PermitRows /\ row.id = id /\ row.status = status
      /\ row.missionId = document.missionId
  BY RowOfDocument
<1> HIDE DEF row
<1>3. /\ permits'[id] = row
      /\ \A other \in Permits : other # id => permits'[other] = permits[other]
      /\ permits' \in [Permits -> PermitRows \cup {NoPermit}]
  BY <1>1, <1>2 DEF IInv, TypeOK, row
<1>4. \A other \in Permits : Stored(other) => other # id
  BY <1>1
<1>5. \A a \in AuthIds : Issued(a) =>
         authorizations[a].permitId \in Permits /\ authorizations[a].permitId # id
  <2>1. \A a \in AuthIds : Issued(a) => authorizations[a].permitId \in Permits
    BY DEF IInv, TypeOK, Issued, AuthorizationRows
  <2>2. \A a \in AuthIds : Issued(a) => Stored(authorizations[a].permitId)
    BY DEF IInv, AuthorizationsNameStoredTerms
  <2> QED
    BY <2>1, <2>2, <1>1
<1>6. TypeOK'
  BY <1>1, <1>3 DEF IInv, TypeOK
<1>7. RowsKeyed'
  BY <1>2, <1>3 DEF IInv, RowsKeyed, Stored
<1>8. OneActivePermit'
  <2>1. ASSUME NEW missionId \in Missions,
               NEW one \in InStatus("ACTIVE", missionId)',
               NEW other \in InStatus("ACTIVE", missionId)'
        PROVE  one = other
    <3>1. \A p \in InStatus("ACTIVE", missionId)' : p = id \/ p \in InStatus("ACTIVE", missionId)
      BY <1>3 DEF InStatus, Stored
    <3>2. CASE id \in InStatus("ACTIVE", missionId)'
      <4>1. status = "ACTIVE" /\ document.missionId = missionId
        BY <3>2, <1>2, <1>3 DEF InStatus
      <4>2. InStatus("ACTIVE", missionId) \subseteq {id}
        BY <4>1, <1>1 DEF ActiveIndexAdmits
      <4> QED
        BY <3>1, <4>2
    <3>3. CASE id \notin InStatus("ACTIVE", missionId)'
      BY <3>1, <3>3 DEF IInv, OneActivePermit
    <3> QED
      BY <3>2, <3>3
  <2> QED
    BY <2>1 DEF OneActivePermit
<1>9. AttemptsConsistent' /\ OneAuthorizationPerKey' /\ OnePaymentReservation'
  BY <1>1 DEF IInv, AttemptsConsistent, OneAuthorizationPerKey, OnePaymentReservation, Issued
<1>10. PermitReadsSound' /\ TransitionReadsSound'
  BY <1>1, <1>3, <1>4, CallsKept
<1>11. AuthorizationsNameStoredTerms'
  BY <1>1, <1>3, <1>5 DEF IInv, AuthorizationsNameStoredTerms, Stored, Issued
<1>12. ExecutionsWithinGrant'
  <2>1. ASSUME NEW other \in Permits, Stored(other)', NEW grant \in permits'[other].grants
        PROVE  Cardinality(Reserving(other, grant.id)') <= grant.maxExecutions
    <3>1. Reserving(other, grant.id)' = Reserving(other, grant.id)
      BY <1>1 DEF Reserving, Issued
    <3>2. CASE other = id
      <4>1. Cardinality(Reserving(other, grant.id)) = 0
        BY <3>2, <1>5, NoneReserving
      <4>2. grant.maxExecutions \in Nat \ {0}
        BY <3>2, <1>2, <1>3, <2>1, RowFields
      <4> QED
        BY <3>1, <4>1, <4>2
    <3>3. CASE other # id
      BY <3>1, <3>3, <1>3, <2>1 DEF IInv, ExecutionsWithinGrant, Stored
    <3> QED
      BY <3>2, <3>3
  <2> QED
    BY <2>1 DEF ExecutionsWithinGrant
<1> QED
  BY <1>6, <1>7, <1>8, <1>9, <1>10, <1>11, <1>12 DEF IInv

\* The rows that hold authority are finitely many.
LEMMA ReservingFinite ==
    ASSUME NEW id, NEW g
    PROVE  IsFiniteSet(Reserving(id, g)) /\ Cardinality(Reserving(id, g)) \in Nat
<1>1. Reserving(id, g) \subseteq AuthIds
  BY DEF Reserving
<1> QED
  BY <1>1, FS_Subset, FS_CardinalityType, LedgerAssumption

\* permitForAction only finds stored Permits.
LEMMA PermitForActionStored ==
    ASSUME NEW missionId, NEW id \in permitForAction(missionId)
    PROVE  id \in Permits /\ Stored(id)
<1>1. id \in InStatus("ACTIVE", missionId) \cup InStatus("DRAFT", missionId)
  BY DEF permitForAction
<1> QED
  BY <1>1 DEF InStatus

\* What the one writing outcome of authorizeResolvedAction does and relies on.
AuthorizesUnderGrant(a, id, grant, action, key) ==
    /\ ~Issued(a) /\ Stored(id)
    /\ permits[id].status = "ACTIVE"
    /\ action.missionId = permits[id].missionId
    /\ grant.kind = action.kind
    /\ evaluateGrantLimits(grant, action, computeGrantUsage(id, grant.id)) = {}
    /\ Cardinality(Reserving(id, grant.id)) + 1 <= grant.maxExecutions
    /\ key # NoId => ~KeyTaken(id, key)
    /\ PaymentIdentity(action) # <<>>
          => findActivePaymentIdentity(PaymentIdentity(action)) = {}
    /\ authorizations' = [authorizations EXCEPT ![a] =
          NewAuthorization(permits[id], grant.id, action, key)]
    /\ UNCHANGED <<now, permits, call>>

\* Authorize is such a step, for a grant of a stored Permit.
LEMMA AuthorizeFacts ==
    ASSUME IInv, NEW a \in AuthIds, Authorize(a)
    PROVE  \E id \in Permits, action \in Actions, key \in IdempotencyKeys \cup {NoId} :
           \E grant \in permits[id].grants : AuthorizesUnderGrant(a, id, grant, action, key)
<1>0. PICK action \in Actions, key \in IdempotencyKeys \cup {NoId},
           acceptSimulation \in BOOLEAN :
              /\ ~Issued(a)
              /\ \E id \in permitForAction(action.missionId) :
                    AuthorizeUnder(permits[id], action, key, acceptSimulation, a)
  BY DEF Authorize, Admitted
<1>1. PICK id \in permitForAction(action.missionId) :
         AuthorizeUnder(permits[id], action, key, acceptSimulation, a)
  BY <1>0
<1>2. /\ id \in Permits /\ Stored(id)
      /\ permits[id] \in PermitRows /\ permits[id].id = id
  <2>1. id \in Permits /\ Stored(id)
    BY PermitForActionStored
  <2> QED
    BY <2>1 DEF IInv, TypeOK, RowsKeyed, Stored
<1> DEFINE decided == Decision(permits[id], action, acceptSimulation)
<1>3. /\ key # NoId /\ permits[id].schemaVersion = 2 => ~KeyTaken(permits[id].id, key)
      /\ decided.outcome = "ALLOW"
      /\ decided.grantId # NoId
      /\ PaymentIdentity(action) # <<>>
            => findActivePaymentIdentity(PaymentIdentity(action)) = {}
      /\ authorizations' = [authorizations EXCEPT ![a] =
             NewAuthorization(permits[id], decided.grantId, action, key)]
      /\ UNCHANGED <<now, permits, call>>
  BY <1>1 DEF AuthorizeUnder
<1> HIDE DEF decided
<1>4. /\ permits[id].status = "ACTIVE"
      /\ permits[id].schemaVersion # 1
      /\ action.missionId = permits[id].missionId
      /\ \E grant \in permits[id].grants :
            /\ grant.id = decided.grantId
            /\ grant.kind = action.kind
            /\ evaluateGrantLimits(grant, action, computeGrantUsage(permits[id].id, grant.id)) = {}
            /\ Cardinality(Reserving(permits[id].id, grant.id)) \in Nat
                  => Cardinality(Reserving(permits[id].id, grant.id)) + 1
                        <= grant.maxExecutions
  BY <1>2, <1>3, AllowedAction DEF decided
<1>5. PICK grant \in permits[id].grants :
         /\ grant.id = decided.grantId
         /\ grant.kind = action.kind
         /\ evaluateGrantLimits(grant, action, computeGrantUsage(id, grant.id)) = {}
         /\ Cardinality(Reserving(id, grant.id)) + 1 <= grant.maxExecutions
  BY <1>2, <1>4, ReservingFinite
<1>6. permits[id].schemaVersion = 2
  BY <1>2, <1>4, RowFields
<1> QED
  BY <1>0, <1>2, <1>3, <1>4, <1>5, <1>6 DEF AuthorizesUnderGrant

\* One more Authorization: the engine counted every other one of its grant.
LEMMA AuthorizeKeeps ==
    ASSUME IInv, NEW a \in AuthIds, Authorize(a)
    PROVE  IInv'
<1>0. PICK id \in Permits, action \in Actions, key \in IdempotencyKeys \cup {NoId} :
         \E grant \in permits[id].grants : AuthorizesUnderGrant(a, id, grant, action, key)
  BY AuthorizeFacts
<1>1. PICK grant \in permits[id].grants :
              /\ ~Issued(a) /\ Stored(id)
              /\ permits[id].status = "ACTIVE"
              /\ action.missionId = permits[id].missionId
              /\ grant.kind = action.kind
              /\ Cardinality(Reserving(id, grant.id)) + 1 <= grant.maxExecutions
              /\ key # NoId => ~KeyTaken(id, key)
              /\ PaymentIdentity(action) # <<>>
                    => findActivePaymentIdentity(PaymentIdentity(action)) = {}
              /\ authorizations' = [authorizations EXCEPT ![a] =
                    NewAuthorization(permits[id], grant.id, action, key)]
              /\ UNCHANGED <<now, permits, call>>
  BY <1>0 DEF AuthorizesUnderGrant
<1> DEFINE new == NewAuthorization(permits[id], grant.id, action, key)
<1>2. permits[id] \in PermitRows /\ permits[id].id = id
  BY <1>1 DEF IInv, TypeOK, RowsKeyed, Stored
<1>3. /\ new \in AuthorizationRows
      /\ new.permitId = id /\ new.missionId = permits[id].missionId
      /\ new.grantId = grant.id /\ new.action = action
      /\ new.status = "AUTHORIZED" /\ new.externalActionAttempted = FALSE
      /\ new.idempotencyKey = key
  <2>1. permits[id].missionId \in Missions /\ grant.id \in GrantIds
    BY <1>2, RowFields
  <2> QED
    BY <1>2, <2>1 DEF NewAuthorization, AuthorizationRows, AuthorizationStatus
<1> HIDE DEF new
<1>4. /\ authorizations'[a] = new
      /\ \A b \in AuthIds : b # a => authorizations'[b] = authorizations[b]
      /\ authorizations' \in [AuthIds -> AuthorizationRows \cup {NoAuthorization}]
  BY <1>1, <1>3 DEF IInv, TypeOK, new
<1>5. \A b \in AuthIds : Issued(b)' <=> b = a \/ Issued(b)
  BY <1>3, <1>4, NullFacts DEF Issued
<1>6. TypeOK'
  BY <1>1, <1>4 DEF IInv, TypeOK
<1>7. RowsKeyed' /\ OneActivePermit'
  BY <1>1 DEF IInv, RowsKeyed, OneActivePermit, InStatus, Stored
<1>8. AttemptsConsistent'
  BY <1>3, <1>4, <1>5 DEF IInv, AttemptsConsistent, AttemptConsistent
<1>9. PermitReadsSound' /\ TransitionReadsSound'
  BY <1>1, <1>4, CallsKept
<1>10. AuthorizationsNameStoredTerms'
  <2>1. ASSUME NEW b \in AuthIds, b # a, Issued(b)
        PROVE  authorizations'[b] = authorizations[b]
    BY <1>4, <2>1
  <2> QED
    BY <1>1, <1>3, <1>4, <1>5, <2>1 DEF IInv, AuthorizationsNameStoredTerms, Stored
<1>11. ExecutionsWithinGrant'
  <2>1. ASSUME NEW other \in Permits, Stored(other)', NEW term \in permits'[other].grants
        PROVE  Cardinality(Reserving(other, term.id)') <= term.maxExecutions
    <3>1. /\ Stored(other) /\ term \in permits[other].grants
          /\ Cardinality(Reserving(other, term.id)) <= term.maxExecutions
      BY <1>1, <2>1 DEF IInv, ExecutionsWithinGrant, Stored
    <3>2. CASE other = id /\ term.id = grant.id
      <4>1. term = grant
        BY <1>2, <3>1, <3>2, RowFields
      <4>2. Reserving(id, grant.id)' = Reserving(id, grant.id) \cup {a}
        BY <1>3, <1>4, <1>5
           DEF Reserving, authorizationReservesAuthority, AUTHORITY_RESERVING_STATUSES
      <4>3. a \notin Reserving(id, grant.id)
        BY <1>1 DEF Reserving
      <4>4. Cardinality(Reserving(id, grant.id)') = Cardinality(Reserving(id, grant.id)) + 1
        BY <4>2, <4>3, ReservingFinite, FS_AddElement
      <4> QED
        BY <1>1, <3>2, <4>1, <4>4
    <3>3. CASE ~(other = id /\ term.id = grant.id)
      <4>1. Reserving(other, term.id)' = Reserving(other, term.id)
        BY <1>1, <1>3, <1>4, <1>5, <3>3 DEF Reserving
      <4> QED
        BY <3>1, <4>1
    <3> QED
      BY <3>2, <3>3
  <2> QED
    BY <2>1 DEF ExecutionsWithinGrant
<1>12. OneAuthorizationPerKey'
  <2>1. \A b \in AuthIds :
           Issued(b) /\ authorizations[b].permitId = id /\ key # NoId
           => authorizations[b].idempotencyKey # key
    BY <1>1 DEF KeyTaken
  <2> QED
    BY <1>3, <1>4, <1>5, <2>1 DEF IInv, OneAuthorizationPerKey
<1>13. OnePaymentReservation'
  <2>1. \A b \in AuthIds :
           /\ Issued(b) /\ authorizationReservesAuthority(authorizations[b].status)
           /\ PaymentIdentity(action) # <<>>
           => PaymentIdentity(authorizations[b].action) # PaymentIdentity(action)
    BY <1>1 DEF findActivePaymentIdentity
  <2> QED
    BY <1>3, <1>4, <1>5, <2>1 DEF IInv, OnePaymentReservation
<1> QED
  BY <1>6, <1>7, <1>8, <1>9, <1>10, <1>11, <1>12, <1>13 DEF IInv

\* What a Permit write that applies is about to do to the row it names.
LEMMA WritePermitFacts ==
    ASSUME IInv, NEW x \in Processes, WritePermit(x)
    PROVE  LET c == call[x]
               id == c.write.id IN
           /\ id \in Permits /\ Stored(id)
           /\ c.write \in PermitRows
           /\ c.write.missionId = permits[id].missionId
           /\ c.write.status = "ACTIVE" =>
                 permits[id].status = "DRAFT" /\ ActiveIndexAdmits(id, c.write.missionId)
           /\ c.write.status = "DRAFT" => permits[id].status = "DRAFT"
           /\ permits[id].status # "DRAFT" =>
                 c.write = WithStatus(permits[id], "REVOKED")
           /\ permits' = [permits EXCEPT ![id] = c.write]
           /\ call' = [call EXCEPT ![x] = Idle]
           /\ UNCHANGED <<now, authorizations>>
<1> DEFINE c == call[x]
           id == c.write.id
<1>1. /\ PermitCall(x) /\ PermitReadSound(c)
      /\ permits[c.read.id].status = c.read.status
      /\ c.write.status = "ACTIVE" => ActiveIndexAdmits(id, c.write.missionId)
      /\ permits' = [permits EXCEPT ![id] = c.write]
      /\ call' = [call EXCEPT ![x] = Idle]
      /\ UNCHANGED <<now, authorizations>>
  BY DEF WritePermit, PermitWriteApplies, IInv, PermitReadsSound
<1>2. c \in PermitCalls
  BY <1>1 DEF IInv, TypeOK, PermitCall, TransitionCalls
<1> HIDE DEF c
<1>3. /\ c.read \in PermitRows /\ c.write \in PermitRows
      /\ c.op \in {"replace", "activate", "revoke"}
  BY <1>2 DEF PermitCalls
<1>4. /\ id \in Permits /\ id = c.read.id /\ Stored(id)
      /\ c.write.missionId = permits[id].missionId
      /\ permits[id].status = c.read.status
      /\ c.op = "replace" => c.read.status = "DRAFT" /\ c.write.status = "DRAFT"
      /\ c.op = "activate" =>
            c.read.status = "DRAFT" /\ c.write = WithStatus(c.read, "ACTIVE")
      /\ c.op = "revoke" =>
            c.read.status # "REVOKED" /\ c.write = WithStatus(c.read, "REVOKED")
      /\ c.read.status = "ACTIVE" => permits[id] = c.read
  BY <1>1, <1>3, RowFields DEF PermitReadSound
<1>5. /\ c.op = "activate" => c.write.status = "ACTIVE"
      /\ c.op = "revoke" => c.write.status = "REVOKED"
  BY <1>3, <1>4, RowWithStatus DEF PermitStatus
<1>6. c.read.status \in PermitStatus
  BY <1>3, RowFields
<1>7. c.write.status = "ACTIVE" => permits[id].status = "DRAFT"
  BY <1>3, <1>4, <1>5
<1>8. c.write.status = "DRAFT" => permits[id].status = "DRAFT"
  BY <1>3, <1>4, <1>5
<1>9. permits[id].status # "DRAFT" => c.write = WithStatus(permits[id], "REVOKED")
  BY <1>3, <1>4, <1>6 DEF PermitStatus
<1> QED
  BY <1>1, <1>3, <1>4, <1>7, <1>8, <1>9 DEF c

\* Writing a Permit back: an activated one changes only to REVOKED.
LEMMA WritePermitKeeps ==
    ASSUME IInv, NEW x \in Processes, WritePermit(x)
    PROVE  IInv'
<1> DEFINE row == call[x].write
           id == row.id
<1>1. /\ id \in Permits /\ Stored(id)
      /\ row \in PermitRows
      /\ row.missionId = permits[id].missionId
      /\ row.status = "ACTIVE" =>
            permits[id].status = "DRAFT" /\ ActiveIndexAdmits(id, row.missionId)
      /\ row.status = "DRAFT" => permits[id].status = "DRAFT"
      /\ permits[id].status # "DRAFT" => row = WithStatus(permits[id], "REVOKED")
      /\ permits' = [permits EXCEPT ![id] = row]
      /\ call' = [call EXCEPT ![x] = Idle]
      /\ UNCHANGED <<now, authorizations>>
  BY WritePermitFacts
<1> HIDE DEF row
<1>2. /\ permits'[id] = row
      /\ \A other \in Permits : other # id => permits'[other] = permits[other]
      /\ permits' \in [Permits -> PermitRows \cup {NoPermit}]
      /\ \A other \in Permits : Stored(other)' <=> Stored(other)
  BY <1>1, NullFacts DEF IInv, TypeOK, Stored
<1>3. permits[id] \in PermitRows /\ permits[id].status \in PermitStatus
  BY <1>1, RowFields DEF IInv, TypeOK, Stored
<1>4. permits[id].status # "DRAFT" =>
         row.grants = permits[id].grants /\ row.status = "REVOKED"
  BY <1>1, <1>3, RowWithStatus DEF PermitStatus
<1>5. \A a \in AuthIds : Issued(a) /\ authorizations[a].permitId = id
         => permits[id].status # "DRAFT"
  BY DEF IInv, AuthorizationsNameStoredTerms
<1>6. TypeOK'
  BY <1>1, <1>2 DEF IInv, TypeOK
<1>7. RowsKeyed'
  BY <1>1, <1>2 DEF IInv, RowsKeyed
<1>8. OneActivePermit'
  <2>1. ASSUME NEW missionId \in Missions,
               NEW one \in InStatus("ACTIVE", missionId)',
               NEW other \in InStatus("ACTIVE", missionId)'
        PROVE  one = other
    <3>1. \A p \in InStatus("ACTIVE", missionId)' : p = id \/ p \in InStatus("ACTIVE", missionId)
      BY <1>2 DEF InStatus
    <3>2. CASE id \in InStatus("ACTIVE", missionId)'
      <4>1. row.status = "ACTIVE" /\ row.missionId = missionId
        BY <3>2, <1>2 DEF InStatus
      <4>2. InStatus("ACTIVE", missionId) \subseteq {id}
        BY <4>1, <1>1 DEF ActiveIndexAdmits
      <4> QED
        BY <3>1, <4>2
    <3>3. CASE id \notin InStatus("ACTIVE", missionId)'
      BY <3>1, <3>3 DEF IInv, OneActivePermit
    <3> QED
      BY <3>2, <3>3
  <2> QED
    BY <2>1 DEF OneActivePermit
<1>9. AttemptsConsistent' /\ OneAuthorizationPerKey' /\ OnePaymentReservation'
  BY <1>1 DEF IInv, AttemptsConsistent, OneAuthorizationPerKey, OnePaymentReservation, Issued
<1>10. \A y \in Processes : call'[y] = call[y] \/ call'[y] = Idle
  BY <1>1 DEF IInv, TypeOK
<1>11. PermitReadsSound'
  <2>1. ASSUME NEW y \in Processes, PermitCall(y)' PROVE PermitReadSound(call[y])'
    <3>1. /\ call'[y] = call[y] /\ PermitCall(y) /\ PermitReadSound(call[y])
      BY <1>10, <2>1 DEF IInv, PermitReadsSound, PermitCall
    <3>2. call[y] \in PermitCalls
      BY <3>1 DEF IInv, TypeOK, PermitCall, TransitionCalls
    <3>3. call[y].read.id \in Permits
      BY <3>2, RowFields DEF PermitCalls
    <3>4. CASE call[y].read.id # id
      BY <3>1, <3>3, <3>4, <1>2 DEF PermitReadSound, Stored
    <3>5. CASE call[y].read.id = id
      <4>1. call[y].read.status = "ACTIVE" => row.status = "REVOKED"
        BY <3>1, <3>5, <1>4 DEF PermitReadSound
      <4> QED
        BY <3>1, <3>5, <4>1, <1>1, <1>2 DEF PermitReadSound
    <3> QED
      BY <3>4, <3>5
  <2> QED
    BY <2>1 DEF PermitReadsSound
<1>12. TransitionReadsSound'
  <2>1. ASSUME NEW y \in Processes, TransitionCall(y)' PROVE TransitionReadSound(call[y])'
    <3>1. /\ call'[y] = call[y] /\ TransitionReadSound(call[y])
      BY <1>10, <2>1 DEF IInv, TransitionReadsSound, TransitionCall
    <3> QED
      BY <3>1, <1>1 DEF TransitionReadSound, Issued
  <2> QED
    BY <2>1 DEF TransitionReadsSound
<1>13. AuthorizationsNameStoredTerms'
  <2>1. ASSUME NEW a \in AuthIds, Issued(a)'
        PROVE  LET auth == authorizations[a] IN
               /\ permits'[auth.permitId] # NoPermit
               /\ permits'[auth.permitId].status # "DRAFT"
               /\ permits'[auth.permitId].missionId = auth.missionId
               /\ auth.action.missionId = auth.missionId
               /\ \E grant \in permits'[auth.permitId].grants :
                     grant.id = auth.grantId /\ grant.kind = auth.action.kind
    <3>1. Issued(a) /\ authorizations[a].permitId \in Permits
      BY <1>1, <2>1 DEF Issued, IInv, TypeOK, AuthorizationRows
    <3>2. LET auth == authorizations[a] IN
          /\ Stored(auth.permitId)
          /\ permits[auth.permitId].status # "DRAFT"
          /\ permits[auth.permitId].missionId = auth.missionId
          /\ auth.action.missionId = auth.missionId
          /\ \E grant \in permits[auth.permitId].grants :
                grant.id = auth.grantId /\ grant.kind = auth.action.kind
      BY <3>1 DEF IInv, AuthorizationsNameStoredTerms
    <3>3. CASE authorizations[a].permitId # id
      <4>1. permits'[authorizations[a].permitId] = permits[authorizations[a].permitId]
        BY <3>1, <3>3, <1>2
      <4> QED
        BY <3>2, <4>1 DEF Stored
    <3>4. CASE authorizations[a].permitId = id
      <4>1. /\ permits'[authorizations[a].permitId] = row
            /\ row.grants = permits[authorizations[a].permitId].grants
            /\ row.status = "REVOKED"
            /\ row.missionId = permits[authorizations[a].permitId].missionId
            /\ permits'[authorizations[a].permitId] # NoPermit
        BY <3>2, <3>4, <1>1, <1>2, <1>4 DEF Stored
      <4> QED
        BY <3>2, <4>1 DEF Stored
    <3> QED
      BY <3>3, <3>4
  <2> QED
    BY <1>1, <2>1 DEF AuthorizationsNameStoredTerms, Stored
<1>14. ExecutionsWithinGrant'
  <2>1. ASSUME NEW other \in Permits, Stored(other)', NEW grant \in permits'[other].grants
        PROVE  Cardinality(Reserving(other, grant.id)') <= grant.maxExecutions
    <3>1. Reserving(other, grant.id)' = Reserving(other, grant.id)
      BY <1>1 DEF Reserving, Issued
    <3>2. CASE other # id \/ permits[id].status # "DRAFT"
      BY <2>1, <3>1, <3>2, <1>1, <1>2, <1>4 DEF IInv, ExecutionsWithinGrant
    <3>3. CASE other = id /\ permits[id].status = "DRAFT"
      <4>1. Cardinality(Reserving(other, grant.id)) = 0
        BY <3>3, <1>5, NoneReserving
      <4>2. grant.maxExecutions \in Nat \ {0}
        BY <3>3, <1>1, <1>2, <2>1, RowFields
      <4> QED
        BY <3>1, <4>1, <4>2
    <3> QED
      BY <3>2, <3>3
  <2> QED
    BY <2>1 DEF ExecutionsWithinGrant
<1> QED
  BY <1>6, <1>7, <1>8, <1>9, <1>11, <1>12, <1>13, <1>14 DEF IInv

\* What a transition write that applies is about to do to the row it names.
LEMMA WriteTransitionFacts ==
    ASSUME IInv, NEW x \in Processes, WriteTransition(x)
    PROVE  \E a \in AuthIds, next \in AuthorizationRows :
           /\ Issued(a) /\ authorizations[a] \in AuthorizationRows
           /\ authorizationReservesAuthority(authorizations[a].status)
           /\ SameBinding(next, authorizations[a])
           /\ AttemptConsistent(next)
           /\ authorizations[a].status \in {"EXECUTING", "AMBIGUOUS", "SUCCEEDED"}
                 => next.status # "RELEASED" /\ next.externalActionAttempted
           /\ authorizations' = [authorizations EXCEPT ![a] = next]
           /\ call' = [call EXCEPT ![x] = Idle]
           /\ UNCHANGED <<now, permits>>
<1> DEFINE c == call[x]
           a == c.authorizationId
           next == transitionAuthorization(c.existing, c.requested)
<1>1. /\ TransitionCall(x) /\ TransitionReadSound(c)
      /\ authorizations[a].status = c.existing.status
      /\ authorizations' = [authorizations EXCEPT ![a] = next]
      /\ call' = [call EXCEPT ![x] = Idle]
      /\ UNCHANGED <<now, permits>>
  BY DEF WriteTransition, TransitionWriteApplies, IInv, TransitionReadsSound
<1>2. c \in TransitionCalls
  BY <1>1 DEF IInv, TypeOK, TransitionCall, PermitCalls
<1> HIDE DEF c
<1>3. a \in AuthIds /\ c.existing \in AuthorizationRows /\ c.requested \in AuthorizationStatus
  BY <1>2 DEF TransitionCalls
<1>4. /\ Issued(a)
      /\ TransitionAccepted(c.existing, c.requested)
      /\ c.requested # c.existing.status
      /\ AttemptConsistent(c.existing)
      /\ SameBinding(c.existing, authorizations[a])
  BY <1>1 DEF TransitionReadSound
<1>5. /\ next \in AuthorizationRows
      /\ next.status = c.requested
      /\ SameBinding(next, c.existing)
      /\ AttemptConsistent(next)
      /\ authorizationReservesAuthority(c.existing.status)
      /\ c.existing.externalActionAttempted => next.externalActionAttempted
      /\ c.requested = "RELEASED" => c.existing.status \in {"AUTHORIZED", "FAILED_SAFE"}
  BY <1>3, <1>4, TransitionFacts
<1>6. authorizations[a] \in AuthorizationRows
  BY <1>3, <1>4 DEF IInv, TypeOK, Issued
<1>7. SameBinding(next, authorizations[a])
  BY <1>4, <1>5 DEF SameBinding
<1>8. authorizations[a].status \in {"EXECUTING", "AMBIGUOUS", "SUCCEEDED"}
         => next.status # "RELEASED" /\ next.externalActionAttempted
  <2>1. c.existing.status \in {"EXECUTING", "AMBIGUOUS", "SUCCEEDED"}
           => c.existing.externalActionAttempted
    BY <1>4 DEF AttemptConsistent
  <2> QED
    BY <2>1, <1>1, <1>5
<1> HIDE DEF next, a
<1>9. authorizationReservesAuthority(authorizations[a].status)
  BY <1>1, <1>5
<1> QED
  BY <1>1, <1>3, <1>4, <1>5, <1>6, <1>7, <1>8, <1>9

\* A transition never gives a row authority it did not hold.
LEMMA WriteTransitionKeeps ==
    ASSUME IInv, NEW x \in Processes, WriteTransition(x)
    PROVE  IInv'
<1>1. PICK a \in AuthIds, next \in AuthorizationRows :
         /\ Issued(a) /\ authorizations[a] \in AuthorizationRows
         /\ authorizationReservesAuthority(authorizations[a].status)
         /\ SameBinding(next, authorizations[a])
         /\ AttemptConsistent(next)
         /\ authorizations' = [authorizations EXCEPT ![a] = next]
         /\ call' = [call EXCEPT ![x] = Idle]
         /\ UNCHANGED <<now, permits>>
  BY WriteTransitionFacts
<1>2. /\ authorizations'[a] = next
      /\ \A b \in AuthIds : b # a => authorizations'[b] = authorizations[b]
      /\ authorizations' \in [AuthIds -> AuthorizationRows \cup {NoAuthorization}]
  BY <1>1 DEF IInv, TypeOK
<1>3. \A b \in AuthIds : Issued(b)' <=> Issued(b)
  BY <1>1, <1>2, NullFacts DEF Issued
<1>4. \A b \in AuthIds : Issued(b) => SameBinding(authorizations'[b], authorizations[b])
  BY <1>1, <1>2 DEF SameBinding
<1>5. \A b \in AuthIds :
         /\ Issued(b) /\ authorizationReservesAuthority(authorizations'[b].status)
         => authorizationReservesAuthority(authorizations[b].status)
  BY <1>1, <1>2
<1>6. TypeOK'
  BY <1>1, <1>2 DEF IInv, TypeOK
<1>7. RowsKeyed' /\ OneActivePermit'
  BY <1>1 DEF IInv, RowsKeyed, OneActivePermit, InStatus, Stored
<1>8. AttemptsConsistent'
  BY <1>1, <1>2, <1>3 DEF IInv, AttemptsConsistent
<1>9. \A y \in Processes : call'[y] = call[y] \/ call'[y] = Idle
  BY <1>1 DEF IInv, TypeOK
<1>10. PermitReadsSound'
  <2>1. ASSUME NEW y \in Processes, PermitCall(y)' PROVE PermitReadSound(call[y])'
    <3>1. call'[y] = call[y] /\ PermitReadSound(call[y])
      BY <1>9, <2>1 DEF IInv, PermitReadsSound, PermitCall
    <3> QED
      BY <3>1, <1>1 DEF PermitReadSound, Stored
  <2> QED
    BY <2>1 DEF PermitReadsSound
<1>11. TransitionReadsSound'
  <2>1. ASSUME NEW y \in Processes, TransitionCall(y)' PROVE TransitionReadSound(call[y])'
    <3>1. call'[y] = call[y] /\ TransitionCall(y) /\ TransitionReadSound(call[y])
      BY <1>9, <2>1 DEF IInv, TransitionReadsSound, TransitionCall
    <3>2. call[y].authorizationId \in AuthIds
      BY <3>1 DEF IInv, TypeOK, TransitionCall, PermitCalls, TransitionCalls
    <3>3. SameBinding(authorizations'[call[y].authorizationId],
                      authorizations[call[y].authorizationId])
      BY <3>1, <3>2, <1>4 DEF TransitionReadSound
    <3>4. authorizations'[call[y].authorizationId] # NoAuthorization
      BY <3>1, <3>2, <1>3 DEF TransitionReadSound, Issued
    <3> QED
      BY <3>1, <3>3, <3>4 DEF TransitionReadSound, SameBinding, Issued
  <2> QED
    BY <2>1 DEF TransitionReadsSound
<1>12. AuthorizationsNameStoredTerms'
  <2>1. ASSUME NEW b \in AuthIds, Issued(b)
        PROVE  LET auth == authorizations[b] IN
               /\ permits[auth.permitId] # NoPermit
               /\ permits[auth.permitId].status # "DRAFT"
               /\ permits[auth.permitId].missionId = auth.missionId
               /\ auth.action.missionId = auth.missionId
               /\ \E grant \in permits[auth.permitId].grants :
                     grant.id = auth.grantId /\ grant.kind = auth.action.kind
    BY <2>1 DEF IInv, AuthorizationsNameStoredTerms, Stored
  <2> QED
    BY <1>1, <1>3, <1>4, <2>1 DEF AuthorizationsNameStoredTerms, SameBinding, Stored
<1>13. ExecutionsWithinGrant'
  <2>1. ASSUME NEW id \in Permits, Stored(id)', NEW grant \in permits'[id].grants
        PROVE  Cardinality(Reserving(id, grant.id)') <= grant.maxExecutions
    <3>1. /\ Stored(id) /\ grant \in permits[id].grants
          /\ permits[id] \in PermitRows
      BY <1>1, <2>1 DEF Stored, IInv, TypeOK
    <3>2. Cardinality(Reserving(id, grant.id)) <= grant.maxExecutions
      BY <3>1 DEF IInv, ExecutionsWithinGrant
    <3>3. Reserving(id, grant.id)' \subseteq Reserving(id, grant.id)
      BY <1>3, <1>4, <1>5 DEF Reserving, SameBinding
    <3>4. /\ Cardinality(Reserving(id, grant.id)') <= Cardinality(Reserving(id, grant.id))
          /\ Cardinality(Reserving(id, grant.id)') \in Nat
          /\ Cardinality(Reserving(id, grant.id)) \in Nat
      BY <3>3, ReservingFinite, FS_Subset, FS_CardinalityType
    <3>5. grant.maxExecutions \in Nat \ {0}
      BY <3>1, RowFields
    <3> QED
      BY <3>2, <3>4, <3>5
  <2> QED
    BY <2>1 DEF ExecutionsWithinGrant
<1>14. OneAuthorizationPerKey'
  BY <1>3, <1>4 DEF IInv, OneAuthorizationPerKey, SameBinding
<1>15. OnePaymentReservation'
  BY <1>3, <1>4, <1>5 DEF IInv, OnePaymentReservation, SameBinding
<1> QED
  BY <1>6, <1>7, <1>8, <1>10, <1>11, <1>12, <1>13, <1>14, <1>15 DEF IInv

-----------------------------------------------------------------------------
(* Every step preserves the invariant.                                     *)

\* Time passing keeps the invariant: no row depends on the clock.
LEMMA TickKeeps == ASSUME IInv, Tick PROVE IInv'
<1>1. now' \in 0..MaxTime
  BY LedgerAssumption DEF Tick, IInv, TypeOK
<1>2. call' = call /\ UNCHANGED <<permits, authorizations>>
  BY DEF Tick
<1>3. PermitReadsSound' /\ TransitionReadsSound'
  BY <1>2, CallsKept
<1> QED
  BY <1>1, <1>2, <1>3, RowsUntouched DEF IInv, TypeOK

\* Every transaction, every read before one and every stutter keeps the
\* invariant.
THEOREM NextPreservesIInv == IInv /\ [Next]_vars => IInv'
<1> SUFFICES ASSUME IInv, [Next]_vars PROVE IInv'
  OBVIOUS
<1>1. CASE Tick
  BY <1>1, TickKeeps
<1>2. ASSUME NEW id \in Permits, createPermit(id) PROVE IInv'
  BY <1>2, CreatePermitKeeps
<1>3. ASSUME NEW a \in AuthIds, Authorize(a) PROVE IInv'
  BY <1>3, AuthorizeKeeps
<1>4. ASSUME NEW x \in Processes, NEW id \in Permits,
             ReadForReplace(x, id) \/ ReadForActivate(x, id) \/ ReadForRevoke(x, id)
      PROVE  IInv'
  BY <1>4, ReadPermitKeeps
<1>5. ASSUME NEW x \in Processes, NEW a \in AuthIds, ReadForTransition(x, a) PROVE IInv'
  BY <1>5, ReadForTransitionKeeps
<1>6. ASSUME NEW x \in Processes, WritePermit(x) PROVE IInv'
  BY <1>6, WritePermitKeeps
<1>7. ASSUME NEW x \in Processes, WriteTransition(x) PROVE IInv'
  BY <1>7, WriteTransitionKeeps
<1>8. ASSUME NEW x \in Processes,
             PermitWriteRefused(x) \/ TransitionWriteRefused(x) \/ Crash(x)
      PROVE  IInv'
  BY <1>8, CallEnds DEF PermitWriteRefused, TransitionWriteRefused, Crash
<1>9. CASE UNCHANGED vars
  <2>1. call' = call /\ now' = now /\ UNCHANGED <<permits, authorizations>>
    BY <1>9 DEF vars
  <2>2. PermitReadsSound' /\ TransitionReadsSound'
    BY <2>1, CallsKept
  <2> QED
    BY <2>1, <2>2, RowsUntouched DEF IInv, TypeOK
<1> QED
  BY <1>1, <1>2, <1>3, <1>4, <1>5, <1>6, <1>7, <1>8, <1>9 DEF Next

\* The ledger never leaves IInv (the invariant the theorems below rest on).
THEOREM LedgerInvariant == Spec => []IInv
  BY InitEstablishesIInv, NextPreservesIInv, PTL DEF Spec

-----------------------------------------------------------------------------
(* The properties, for every value of the constants.                       *)

\* Every row and every pending call has the shape its schema gives it.
THEOREM TypeCorrect == Spec => []TypeOK
<1>1. IInv => TypeOK
  BY DEF IInv
<1> QED
  BY <1>1, LedgerInvariant, PTL

\* A Mission never has two ACTIVE Permits, although activatePermit and
\* createPermit check before they write.
THEOREM OneActivePermitHolds == Spec => []OneActivePermit
<1>1. IInv => OneActivePermit
  BY DEF IInv
<1> QED
  BY <1>1, LedgerInvariant, PTL

\* No grant is ever held by more live Authorizations than its maxExecutions,
\* however many processes authorize (authorizeResolvedAction).
THEOREM ExecutionsBounded == Spec => []ExecutionsWithinGrant
<1>1. IInv => ExecutionsWithinGrant
  BY DEF IInv
<1> QED
  BY <1>1, LedgerInvariant, PTL

\* A payment is held by at most one live Authorization.
THEOREM PaymentReservedOnce == Spec => []OnePaymentReservation
<1>1. IInv => OnePaymentReservation
  BY DEF IInv
<1> QED
  BY <1>1, LedgerInvariant, PTL

\* An idempotency key names one Authorization of its Permit for good.
THEOREM KeyNamesOneAuthorization == Spec => []OneAuthorizationPerKey
<1>1. IInv => OneAuthorizationPerKey
  BY DEF IInv
<1> QED
  BY <1>1, LedgerInvariant, PTL

\* The terms an Authorization was decided under stay the terms on record.
THEOREM TermsStayOnRecord == Spec => []AuthorizationsNameStoredTerms
<1>1. IInv => AuthorizationsNameStoredTerms
  BY DEF IInv
<1> QED
  BY <1>1, LedgerInvariant, PTL

\* Only two transactions write an Authorization.
LEMMA AuthorizationSteps ==
    ASSUME [Next]_vars
    PROVE  \/ UNCHANGED authorizations
           \/ \E b \in AuthIds : Authorize(b)
           \/ \E x \in Processes : WriteTransition(x)
  BY DEF Next, vars, Tick, createPermit, ReadForReplace, ReadForActivate, ReadForRevoke,
      ReadForTransition, WritePermit, PermitWriteRefused, TransitionWriteRefused, Crash

\* Once execution may have begun, authority is not handed back except through
\* FAILED_SAFE, and the attempt is not forgotten (transitionAuthorizationStatus).
THEOREM NoReleaseAfterExecutionHolds == Spec => NoReleaseAfterExecution
<1> DEFINE Kept(a) ==
      Issued(a) /\ authorizations[a].status \in {"EXECUTING", "AMBIGUOUS", "SUCCEEDED"}
      => /\ authorizations'[a].status # "RELEASED"
         /\ authorizations'[a].externalActionAttempted
<1>1. ASSUME IInv, [Next]_vars, NEW a \in AuthIds PROVE Kept(a)
  <2>1. Issued(a) /\ authorizations[a].status \in {"EXECUTING", "AMBIGUOUS", "SUCCEEDED"}
           => authorizations[a].status # "RELEASED" /\ authorizations[a].externalActionAttempted
    BY <1>1 DEF IInv, AttemptsConsistent, AttemptConsistent
  <2>2. CASE UNCHANGED authorizations
    BY <2>1, <2>2
  <2>3. ASSUME NEW b \in AuthIds, Authorize(b) PROVE Kept(a)
    <3>1. ~Issued(b) /\ \E new : authorizations' = [authorizations EXCEPT ![b] = new]
      BY <1>1, <2>3, AuthorizeFacts DEF AuthorizesUnderGrant
    <3>2. Issued(a) => authorizations'[a] = authorizations[a]
      BY <1>1, <3>1 DEF IInv, TypeOK
    <3> QED
      BY <2>1, <3>2
  <2>4. ASSUME NEW x \in Processes, WriteTransition(x) PROVE Kept(a)
    <3>1. PICK b \in AuthIds, next \in AuthorizationRows :
             /\ authorizations[b].status \in {"EXECUTING", "AMBIGUOUS", "SUCCEEDED"}
                   => next.status # "RELEASED" /\ next.externalActionAttempted
             /\ authorizations' = [authorizations EXCEPT ![b] = next]
      BY <1>1, <2>4, WriteTransitionFacts
    <3>2. authorizations'[a] = IF a = b THEN next ELSE authorizations[a]
      BY <1>1, <3>1 DEF IInv, TypeOK
    <3> QED
      BY <2>1, <3>1, <3>2
  <2> QED
    BY <1>1, <2>2, <2>3, <2>4, AuthorizationSteps
<1>2. IInv /\ [Next]_vars => [\A a \in AuthIds : Kept(a)]_vars
  BY <1>1
<1> QED
  BY <1>2, LedgerInvariant, PTL DEF Spec, NoReleaseAfterExecution

\* What is past its DRAFT stays as it is, or is revoked.
Frozen(id) ==
    Stored(id) /\ permits[id].status # "DRAFT"
    => /\ permits'[id] \in {permits[id], [permits[id] EXCEPT !.status = "REVOKED"]}

LEMMA PermitFrozen ==
    ASSUME IInv, [Next]_vars, NEW id \in Permits
    PROVE  Frozen(id)
<1> USE DEF Frozen
<1>1. CASE UNCHANGED permits
  BY <1>1
<1>2. ASSUME NEW other \in Permits, createPermit(other) PROVE Frozen(id)
  <2>1. ~Stored(other) /\ \E new : permits' = [permits EXCEPT ![other] = new]
    BY <1>2 DEF createPermit
  <2>2. Stored(id) => permits'[id] = permits[id]
    BY <2>1 DEF IInv, TypeOK
  <2> QED
    BY <2>2
<1>3. ASSUME NEW x \in Processes, WritePermit(x) PROVE Frozen(id)
  <2> DEFINE row == call[x].write
  <2>1. /\ permits[row.id].status # "DRAFT" => row = WithStatus(permits[row.id], "REVOKED")
        /\ permits' = [permits EXCEPT ![row.id] = row]
    BY <1>3, WritePermitFacts
  <2> HIDE DEF row
  <2>2. permits'[id] = IF id = row.id THEN row ELSE permits[id]
    BY <2>1 DEF IInv, TypeOK
  <2>3. CASE id = row.id
    BY <2>1, <2>2, <2>3 DEF WithStatus
  <2>4. CASE id # row.id
    BY <2>2, <2>4
  <2> QED
    BY <2>3, <2>4
<1>4. \/ UNCHANGED permits
      \/ \E other \in Permits : createPermit(other)
      \/ \E x \in Processes : WritePermit(x)
  BY DEF Next, vars, Tick, Authorize, AuthorizeUnder, ReadForReplace,
      ReadForActivate, ReadForRevoke, ReadForTransition, PermitWriteRefused,
      WriteTransition, TransitionWriteRefused, Crash
<1> QED
  BY <1>1, <1>2, <1>3, <1>4

\* After activation a Permit keeps its terms whatever a process read before;
\* its status only moves to REVOKED.
THEOREM TermsFrozenHolds == Spec => TermsFrozenAfterActivation
<1>1. IInv /\ [Next]_vars => \A id \in Permits : Frozen(id)
  BY PermitFrozen
<1>2. IInv /\ [Next]_vars => [\A id \in Permits : Frozen(id)]_vars
  BY <1>1
<1> QED
  BY <1>2, LedgerInvariant, PTL DEF Spec, TermsFrozenAfterActivation, Frozen

-----------------------------------------------------------------------------
(* Sums over finite sets.                                                  *)

\* A set of natural numbers that is not empty has a least one.
LEMMA LeastNumber ==
    ASSUME NEW T, T \subseteq Nat, T # {}
    PROVE  \E n \in T : \A m \in T : n <= m
<1> DEFINE R == OpToRel(<, Nat)
<1>1. IsWellFoundedOn(R, Nat)
  BY NatLessThanWellFounded
<1>2. \A i \in Nat, j \in Nat : <<i, j>> \in R <=> i < j
  BY DEF OpToRel
<1> HIDE DEF R
<1>3. PICK n \in T : \A m \in T : ~ (<<m, n>> \in R)
  BY <1>1, WFMin
<1>4. ASSUME NEW m \in T PROVE n <= m
  <2>1. n \in Nat /\ m \in Nat /\ ~ (m < n)
    BY <1>2, <1>3
  <2> QED
    BY <2>1
<1> QED
  BY <1>4

\* The element the sum takes next.
AnyOf(s) == CHOOSE x \in s : TRUE

\* The function that MapThenSumSet defines over the subsets of S.
Sums(w, S) ==
    CHOOSE sums : sums = [s \in SUBSET S |->
        IF s = {} THEN 0 ELSE LET x == CHOOSE x \in s : TRUE IN w[x] + sums[s \ {x}]]

Total(w, S) == Sums(w, S)[S]

\* f gives the subsets of S their sums, of the next element and of the rest.
AreSums(f, w, S) ==
    /\ f \in [SUBSET S -> Nat]
    /\ \A s \in SUBSET S : f[s] = IF s = {} THEN 0 ELSE w[AnyOf(s)] + f[s \ {AnyOf(s)}]

\* A set without one of its elements.
LEMMA OneLess ==
    ASSUME NEW S, IsFiniteSet(S), NEW s \in SUBSET S, NEW x \in s
    PROVE  /\ s \ {x} \in SUBSET S
           /\ Cardinality(s) \in Nat /\ Cardinality(s \ {x}) \in Nat
           /\ Cardinality(s \ {x}) = Cardinality(s) - 1
<1>1. IsFiniteSet(s)
  BY FS_Subset
<1> QED
  BY <1>1, FS_RemoveElement, FS_CardinalityType

\* There is such a function.
LEMMA SumsExist ==
    ASSUME NEW S, IsFiniteSet(S), NEW w, \A x \in S : w[x] \in Nat
    PROVE  \E f : AreSums(f, w, S)
<1> DEFINE Step(f, g, s) ==
        f[s] = IF s = {} THEN 0 ELSE w[AnyOf(s)] + g[s \ {AnyOf(s)}]
<1> DEFINE UpTo(n, g) ==
        g \in [SUBSET S -> Nat] /\ \A s \in SUBSET S : Cardinality(s) <= n => Step(g, g, s)
<1> DEFINE T == {n \in Nat : ~ \E g : UpTo(n, g)}
<1>1. \A s \in SUBSET S : Cardinality(s) \in Nat /\ (Cardinality(s) = 0 <=> s = {})
  <2> TAKE s \in SUBSET S
  <2>1. IsFiniteSet(s)
    BY FS_Subset
  <2> QED
    BY <2>1, FS_CardinalityType, FS_EmptySet
<1>2. \A s \in SUBSET S : s # {} =>
          /\ AnyOf(s) \in s /\ s \ {AnyOf(s)} \in SUBSET S
          /\ Cardinality(s \ {AnyOf(s)}) = Cardinality(s) - 1
  <2> TAKE s \in SUBSET S
  <2> HAVE s # {}
  <2>1. AnyOf(s) \in s
    BY DEF AnyOf
  <2> QED
    BY <2>1, OneLess
<1>3. T = {}
  <2> SUFFICES ASSUME T # {} PROVE FALSE
    OBVIOUS
  <2>1. PICK n \in T : \A m \in T : n <= m
    BY LeastNumber
  <2>2. n \in Nat
    OBVIOUS
  <2>3. CASE n = 0
    <3> DEFINE g == [s \in SUBSET S |-> 0]
    <3>1. g \in [SUBSET S -> Nat]
      OBVIOUS
    <3>2. \A s \in SUBSET S : Cardinality(s) <= n => Step(g, g, s)
      BY <1>1, <2>3
    <3>3. UpTo(n, g)
      BY <3>1, <3>2
    <3> QED
      BY <3>3
  <2>4. CASE n # 0
    <3>1. n - 1 \in Nat /\ ~ (n <= n - 1)
      BY <2>2, <2>4
    <3>2. n - 1 \notin T
      BY <2>1, <3>1
    <3>3. PICK g : UpTo(n - 1, g)
      BY <3>1, <3>2
    <3> DEFINE h == [s \in SUBSET S |->
            IF Cardinality(s) <= n - 1 THEN g[s] ELSE w[AnyOf(s)] + g[s \ {AnyOf(s)}]]
    <3>4. ASSUME NEW s \in SUBSET S PROVE h[s] \in Nat
      <4>1. CASE Cardinality(s) <= n - 1
        BY <3>3, <4>1
      <4>2. CASE ~ (Cardinality(s) <= n - 1)
        <5>1. s # {}
          BY <1>1, <3>1, <4>2
        <5>2. w[AnyOf(s)] \in Nat /\ g[s \ {AnyOf(s)}] \in Nat
          BY <1>2, <3>3, <5>1
        <5> QED
          BY <4>2, <5>2
      <4> QED
        BY <4>1, <4>2
    <3>5. h \in [SUBSET S -> Nat]
      BY <3>4
    <3>6. ASSUME NEW s \in SUBSET S, Cardinality(s) <= n PROVE Step(h, h, s)
      <4>1. CASE s = {}
        <5>1. Cardinality(s) <= n - 1
          BY <1>1, <3>1, <4>1
        <5> QED
          BY <3>3, <4>1, <5>1
      <4>2. CASE s # {}
        <5> DEFINE r == s \ {AnyOf(s)}
        <5>1. r \in SUBSET S /\ Cardinality(r) = Cardinality(s) - 1 /\ Cardinality(s) \in Nat
          BY <1>1, <1>2, <4>2
        <5>2. Cardinality(r) <= n - 1
          BY <2>2, <3>6, <5>1
        <5>3. h[r] = g[r]
          BY <5>1, <5>2
        <5>4. Step(h, g, s)
          BY <3>3, <4>2
        <5> QED
          BY <4>2, <5>3, <5>4
      <4> QED
        BY <4>1, <4>2
    <3>7. UpTo(n, h)
      BY <3>5, <3>6
    <3> QED
      BY <3>7
  <2> QED
    BY <2>3, <2>4
<1>4. Cardinality(S) \in Nat
  BY <1>1
<1>5. PICK g : UpTo(Cardinality(S), g)
  BY <1>3, <1>4
<1>6. \A s \in SUBSET S : Cardinality(s) <= Cardinality(S)
  BY FS_Subset
<1>7. AreSums(g, w, S)
  BY <1>5, <1>6 DEF AreSums
<1> QED
  BY <1>7

\* So the function that MapThenSumSet defines is one.
LEMMA SumsAreSums ==
    ASSUME NEW S, IsFiniteSet(S), NEW w, \A x \in S : w[x] \in Nat
    PROVE  AreSums(Sums(w, S), w, S)
<1> DEFINE Body(sums) == [s \in SUBSET S |->
        IF s = {} THEN 0 ELSE LET x == CHOOSE x \in s : TRUE IN w[x] + sums[s \ {x}]]
<1>1. PICK g : AreSums(g, w, S)
  BY SumsExist
<1>2. g = Body(g)
  BY <1>1 DEF AreSums, AnyOf
<1>3. Sums(w, S) = CHOOSE sums : sums = Body(sums)
  BY DEF Sums
<1>4. Sums(w, S) = Body(Sums(w, S))
  <2> HIDE DEF Body
  <2> QED
    BY <1>2, <1>3
<1> DEFINE f == Sums(w, S)
<1>5. \A s \in SUBSET S : f[s] = IF s = {} THEN 0 ELSE w[AnyOf(s)] + f[s \ {AnyOf(s)}]
  BY <1>4 DEF AnyOf
<1> DEFINE T == {n \in Nat : \E s \in SUBSET S : Cardinality(s) = n /\ f[s] \notin Nat}
<1>6. T = {}
  <2> SUFFICES ASSUME T # {} PROVE FALSE
    OBVIOUS
  <2>1. PICK n \in T : \A m \in T : n <= m
    BY LeastNumber
  <2>2. PICK s \in SUBSET S : Cardinality(s) = n /\ f[s] \notin Nat
    OBVIOUS
  <2>3. s # {} /\ AnyOf(s) \in s
    <3> HIDE DEF f
    <3>1. {} \in SUBSET S
      OBVIOUS
    <3>2. f[{}] = 0
      BY <1>5, <3>1
    <3>3. s # {}
      BY <2>2, <3>2
    <3> QED
      BY <3>3 DEF AnyOf
  <2>4. /\ s \ {AnyOf(s)} \in SUBSET S
        /\ Cardinality(s \ {AnyOf(s)}) \in Nat /\ Cardinality(s \ {AnyOf(s)}) = n - 1 /\ n \in Nat
    BY <2>2, <2>3, OneLess
  <2>5. f[s \ {AnyOf(s)}] \in Nat
    <3>1. ~ (n <= n - 1)
      BY <2>4
    <3> HIDE DEF f
    <3> QED
      BY <2>1, <2>4, <3>1
  <2>6. w[AnyOf(s)] \in Nat
    BY <2>3
  <2>7. f[s] = w[AnyOf(s)] + f[s \ {AnyOf(s)}]
    BY <1>5, <2>3
  <2> HIDE DEF f
  <2> QED
    BY <2>2, <2>5, <2>6, <2>7
<1>7. ASSUME NEW s \in SUBSET S PROVE f[s] \in Nat
  <2>1. Cardinality(s) \in Nat
    BY FS_Subset, FS_CardinalityType
  <2> HIDE DEF f
  <2> QED
    BY <1>6, <2>1
<1>8. f \in [SUBSET S -> Nat]
  BY <1>4, <1>7
<1> QED
  BY <1>5, <1>8 DEF AreSums

\* The sums of weights that agree agree.
LEMMA SumsAgree ==
    ASSUME NEW S, IsFiniteSet(S), NEW w, \A x \in S : w[x] \in Nat,
           NEW T \in SUBSET S, NEW v, \A x \in T : v[x] = w[x]
    PROVE  \A s \in SUBSET T : Sums(v, T)[s] = Sums(w, S)[s]
<1> DEFINE f == Sums(w, S)
           g == Sums(v, T)
           Differ == {n \in Nat : \E s \in SUBSET T : Cardinality(s) = n /\ g[s] # f[s]}
<1>1. IsFiniteSet(T) /\ \A x \in T : v[x] \in Nat
  BY FS_Subset
<1>2. \A s \in SUBSET S : f[s] = IF s = {} THEN 0 ELSE w[AnyOf(s)] + f[s \ {AnyOf(s)}]
  BY SumsAreSums DEF AreSums
<1>3. \A s \in SUBSET T : g[s] = IF s = {} THEN 0 ELSE v[AnyOf(s)] + g[s \ {AnyOf(s)}]
  BY <1>1, SumsAreSums DEF AreSums
<1> HIDE DEF f, g
<1>4. Differ = {}
  <2> SUFFICES ASSUME Differ # {} PROVE FALSE
    OBVIOUS
  <2>1. PICK n \in Differ : \A m \in Differ : n <= m
    BY LeastNumber
  <2>2. PICK s \in SUBSET T : Cardinality(s) = n /\ g[s] # f[s]
    OBVIOUS
  <2>3. s # {} /\ AnyOf(s) \in s
    BY <1>2, <1>3, <2>2 DEF AnyOf
  <2>4. /\ s \ {AnyOf(s)} \in SUBSET T
        /\ Cardinality(s \ {AnyOf(s)}) \in Nat /\ Cardinality(s \ {AnyOf(s)}) = n - 1 /\ n \in Nat
    BY <1>1, <2>2, <2>3, OneLess
  <2>5. ~ (n <= n - 1)
    BY <2>4
  <2>6. g[s \ {AnyOf(s)}] = f[s \ {AnyOf(s)}]
    BY <2>1, <2>4, <2>5
  <2> QED
    BY <1>2, <1>3, <2>2, <2>3, <2>6
<1>5. ASSUME NEW s \in SUBSET T PROVE g[s] = f[s]
  <2>1. Cardinality(s) \in Nat
    BY <1>1, FS_Subset, FS_CardinalityType
  <2> QED
    BY <1>4, <2>1
<1> QED
  BY <1>5 DEF f, g

\* Which element is taken next does not matter.
LEMMA SumsOfAny ==
    ASSUME NEW S, IsFiniteSet(S), NEW w, \A x \in S : w[x] \in Nat
    PROVE  \A s \in SUBSET S : \A x \in s : Sums(w, S)[s] = w[x] + Sums(w, S)[s \ {x}]
<1> DEFINE f == Sums(w, S)
           Fails == {n \in Nat : \E s \in SUBSET S : \E x \in s :
                        Cardinality(s) = n /\ f[s] # w[x] + f[s \ {x}]}
<1>1. /\ f \in [SUBSET S -> Nat]
      /\ \A s \in SUBSET S : f[s] = IF s = {} THEN 0 ELSE w[AnyOf(s)] + f[s \ {AnyOf(s)}]
  BY SumsAreSums DEF AreSums
<1> HIDE DEF f
<1>2. Fails = {}
  <2> SUFFICES ASSUME Fails # {} PROVE FALSE
    OBVIOUS
  <2>1. PICK n \in Fails : \A m \in Fails : n <= m
    BY LeastNumber
  <2>2. PICK s \in SUBSET S : \E x \in s : Cardinality(s) = n /\ f[s] # w[x] + f[s \ {x}]
    OBVIOUS
  <2>3. PICK x \in s : Cardinality(s) = n /\ f[s] # w[x] + f[s \ {x}]
    BY <2>2
  <2>4. PICK y \in s : y = AnyOf(s)
    BY <2>3 DEF AnyOf
  <2>5. f[s] = w[y] + f[s \ {y}]
    BY <1>1, <2>4
  <2>6. x # y
    BY <2>3, <2>5
  <2>7. /\ s \ {x} \in SUBSET S /\ Cardinality(s \ {x}) \in Nat /\ Cardinality(s \ {x}) = n - 1
        /\ s \ {y} \in SUBSET S /\ Cardinality(s \ {y}) \in Nat /\ Cardinality(s \ {y}) = n - 1
        /\ n \in Nat
    BY <2>3, OneLess
  <2>8. ~ (n <= n - 1)
    BY <2>7
  <2>9. f[s \ {x}] = w[y] + f[(s \ {x}) \ {y}]
    <3>1. y \in s \ {x}
      BY <2>6
    <3> QED
      BY <2>1, <2>7, <2>8, <3>1
  <2>10. f[s \ {y}] = w[x] + f[(s \ {y}) \ {x}]
    <3>1. x \in s \ {y}
      BY <2>6
    <3> QED
      BY <2>1, <2>7, <2>8, <3>1
  <2>11. (s \ {y}) \ {x} = (s \ {x}) \ {y} /\ (s \ {x}) \ {y} \in SUBSET S
    OBVIOUS
  <2> DEFINE r == (s \ {x}) \ {y}
  <2>12. w[x] \in Nat /\ w[y] \in Nat /\ f[r] \in Nat
    BY <1>1, <2>11
  <2>13. f[s \ {x}] = w[y] + f[r] /\ f[s] = w[y] + (w[x] + f[r])
    BY <2>5, <2>9, <2>10, <2>11
  <2> HIDE DEF r
  <2>14. w[y] + (w[x] + f[r]) = w[x] + (w[y] + f[r])
    BY <2>12
  <2> QED
    BY <2>3, <2>13, <2>14
<1>3. ASSUME NEW s \in SUBSET S, NEW x \in s PROVE f[s] = w[x] + f[s \ {x}]
  <2>1. Cardinality(s) \in Nat
    BY FS_Subset, FS_CardinalityType
  <2> QED
    BY <1>2, <2>1
<1> QED
  BY <1>3 DEF f

\* A sum is a natural number, of any one weight and of the rest.
LEMMA TotalOfAny ==
    ASSUME NEW S, IsFiniteSet(S), NEW w, \A x \in S : w[x] \in Nat
    PROVE  /\ Total(w, S) \in Nat
           /\ S = {} => Total(w, S) = 0
           /\ \A x \in S : Total(w, S) = w[x] + Total(w, S \ {x})
<1>1. /\ Sums(w, S) \in [SUBSET S -> Nat]
      /\ S = {} => Sums(w, S)[S] = 0
  BY SumsAreSums DEF AreSums
<1>2. ASSUME NEW x \in S PROVE Total(w, S) = w[x] + Total(w, S \ {x})
  <2>1. Sums(w, S)[S] = w[x] + Sums(w, S)[S \ {x}]
    BY SumsOfAny
  <2>2. Sums(w, S \ {x})[S \ {x}] = Sums(w, S)[S \ {x}]
    BY SumsAgree
  <2> QED
    BY <2>1, <2>2 DEF Total
<1> QED
  BY <1>1, <1>2 DEF Total

\* A sum depends on the weights of its elements only.
LEMMA TotalAgrees ==
    ASSUME NEW S, IsFiniteSet(S), NEW w, \A x \in S : w[x] \in Nat,
           NEW v, \A x \in S : v[x] = w[x]
    PROVE  Total(v, S) = Total(w, S)
  BY SumsAgree DEF Total

-----------------------------------------------------------------------------
(* The amounts held under a grant.                                         *)

\* The fields of what an Authorization holds.
Fields == {"amount", "faceValue", "principal", "fee", "totalOutflow"}

\* What each Authorization holds of a field.
Held(rows, field) == [a \in AuthIds |-> reservedEconomicsFor(rows[a].action)[field]]

SumOf(rows, ids, field) ==
    MapThenSumSet(LAMBDA a : reservedEconomicsFor(rows[a].action)[field], ids)

\* The aggregate limit of a grant on a field, Undefined when there is none.
AggregateOf(grant, field) ==
    CASE grant.kind = "merchant.purchase" /\ field = "amount" -> grant.maxAggregateAmount
      [] grant.kind = "payment-instrument.acquire" /\ field = "faceValue"
            -> grant.maxAggregateFaceValue
      [] grant.kind = "value.transfer" /\ field = "principal" -> grant.maxAggregatePrincipal
      [] grant.kind = "value.transfer" /\ field = "totalOutflow" -> grant.maxAggregateTotalOutflow
      [] OTHER -> Undefined

\* Every Authorization holds natural amounts.
HeldAreNat ==
    \A a \in AuthIds : Issued(a) =>
        \A field \in Fields : reservedEconomicsFor(authorizations[a].action)[field] \in Nat

\* The aggregate limits, field by field.
FieldsWithinGrant ==
    \A id \in Permits : Stored(id) =>
        \A grant \in permits[id].grants, field \in Fields :
            Defined(AggregateOf(grant, field)) =>
                SumOf(authorizations, Reserving(id, grant.id), field) <= AggregateOf(grant, field)

AggregateInv == HeldAreNat /\ FieldsWithinGrant

\* The usage of a grant is the sum, as MapThenSumSet computes it.
LEMMA SumIsTotal ==
    ASSUME NEW rows, NEW ids, ids \subseteq AuthIds, NEW field
    PROVE  SumOf(rows, ids, field) = Total(Held(rows, field), ids)
<1> DEFINE w == Held(rows, field)
           Body(sums) == [s \in SUBSET ids |->
               IF s = {} THEN 0
               ELSE LET x == CHOOSE x \in s : TRUE
                    IN reservedEconomicsFor(rows[x].action)[field] + sums[s \ {x}]]
           OwnBody(sums) == [s \in SUBSET ids |->
               IF s = {} THEN 0
               ELSE LET x == CHOOSE x \in s : TRUE IN w[x] + sums[s \ {x}]]
           iter == CHOOSE sums : sums = Body(sums)
<1>1. SumOf(rows, ids, field) = iter[ids]
  BY DEF SumOf, MapThenSumSet, MapThenFoldSet
<1>2. \A sums : Body(sums) = OwnBody(sums)
  <2> TAKE sums
  <2>1. ASSUME NEW s \in SUBSET ids, s # {}
        PROVE  reservedEconomicsFor(rows[CHOOSE x \in s : TRUE].action)[field]
                  = w[CHOOSE x \in s : TRUE]
    <3>1. PICK x \in AuthIds : x = CHOOSE y \in s : TRUE
      BY <2>1
    <3> QED
      BY <3>1 DEF Held
  <2> HIDE DEF w
  <2> QED
    BY <2>1
<1>3. iter = CHOOSE sums : sums = OwnBody(sums)
  <2> HIDE DEF Body, OwnBody
  <2> QED
    BY <1>2
<1>4. Sums(w, ids) = CHOOSE sums : sums = OwnBody(sums)
  BY DEF Sums
<1> HIDE DEF iter, OwnBody, w
<1> QED
  BY <1>1, <1>3, <1>4 DEF Total, w

\* What sums of amounts held there are, of finitely many Authorizations.
LEMMA SumFacts ==
    ASSUME NEW rows, NEW ids, ids \subseteq AuthIds, NEW field,
           \A a \in ids : reservedEconomicsFor(rows[a].action)[field] \in Nat
    PROVE  /\ SumOf(rows, ids, field) \in Nat
           /\ ids = {} => SumOf(rows, ids, field) = 0
           /\ \A a \in ids : SumOf(rows, ids, field) =
                 reservedEconomicsFor(rows[a].action)[field] + SumOf(rows, ids \ {a}, field)
           /\ \A others :
                 (\A a \in ids : others[a].action = rows[a].action)
                    => SumOf(others, ids, field) = SumOf(rows, ids, field)
<1>1. IsFiniteSet(ids)
  BY FS_Subset, LedgerAssumption
<1>2. \A a \in ids : Held(rows, field)[a] = reservedEconomicsFor(rows[a].action)[field]
  BY DEF Held
<1>3. \A a \in ids : Held(rows, field)[a] \in Nat
  BY <1>2
<1>4. /\ Total(Held(rows, field), ids) \in Nat
      /\ ids = {} => Total(Held(rows, field), ids) = 0
      /\ \A a \in ids : Total(Held(rows, field), ids)
                           = Held(rows, field)[a] + Total(Held(rows, field), ids \ {a})
  BY <1>1, <1>3, TotalOfAny
<1>5. ASSUME NEW a \in ids
      PROVE  SumOf(rows, ids, field) =
                 reservedEconomicsFor(rows[a].action)[field] + SumOf(rows, ids \ {a}, field)
  <2>1. ids \ {a} \subseteq AuthIds
    OBVIOUS
  <2> QED
    BY <1>2, <1>4, <2>1, SumIsTotal
<1>6. ASSUME NEW others, \A a \in ids : others[a].action = rows[a].action
      PROVE  SumOf(others, ids, field) = SumOf(rows, ids, field)
  <2>1. \A a \in ids : Held(others, field)[a] = Held(rows, field)[a]
    BY <1>6 DEF Held
  <2>2. Total(Held(others, field), ids) = Total(Held(rows, field), ids)
    BY <1>1, <1>3, <2>1, TotalAgrees
  <2> QED
    BY <2>2, SumIsTotal
<1> QED
  BY <1>4, <1>5, <1>6, SumIsTotal

\* A stored grant states an aggregate as a natural number, or not at all.
LEMMA AggregateIsNat ==
    ASSUME NEW row \in PermitRows, NEW grant \in row.grants, NEW field
    PROVE  AggregateOf(grant, field) \in Nat \cup {Undefined}
<1>1. PICK id \in Permits, status \in PermitStatus, document \in PermitDocuments :
         row = PermitRow(id, status, document)
  BY DEF PermitRows
<1>2. grant \in document.grants
  BY <1>1 DEF PermitRow
<1> QED
  BY <1>2, AmountAssumption DEF AggregateOf

\* An amount that is not more than what remains fits.
LEMMA RemainingFits ==
    ASSUME NEW aggregate \in Nat \cup {Undefined}, NEW perExecution, NEW reserved \in Nat,
           NEW amount \in Nat, Defined(aggregate), reserved <= aggregate,
           ~ (amount > remaining(aggregate, perExecution, reserved))
    PROVE  amount + reserved <= aggregate
<1>1. aggregate \in Nat
  BY DEF Defined
<1>2. remaining(aggregate, perExecution, reserved) = aggregate - reserved
  BY <1>1 DEF remaining, Greatest
<1> QED
  BY <1>1, <1>2

\* What the engine found of a purchase, of an instrument and of a transfer that
\* it allows.
LEMMA LimitsOfPurchase ==
    ASSUME NEW grant, NEW action, NEW usage, grant.kind = "merchant.purchase",
           evaluateGrantLimits(grant, action, usage) = {}
    PROVE  Defined(grant.maxAggregateAmount) => ~ (action.amount > remainingAmount(grant, usage))
<1>1. evaluateMerchantGrant(grant, action, usage) = {}
  BY DEF evaluateGrantLimits
<1>2. When(/\ Defined(grant.maxAggregateAmount)
           /\ action.amount > remainingAmount(grant, usage),
           "AGGREGATE_LIMIT_EXCEEDED") = {}
  BY <1>1, Zenon DEF evaluateMerchantGrant
<1> QED
  BY <1>2 DEF When

LEMMA LimitsOfInstrument ==
    ASSUME NEW grant, NEW action, NEW usage, grant.kind = "payment-instrument.acquire",
           evaluateGrantLimits(grant, action, usage) = {}
    PROVE  Defined(grant.maxAggregateFaceValue)
              => ~ (action.faceValue > remainingFaceValue(grant, usage))
<1>1. evaluateInstrumentGrant(grant, action, usage) = {}
  BY DEF evaluateGrantLimits
<1>2. When(/\ Defined(grant.maxAggregateFaceValue)
           /\ action.faceValue > remainingFaceValue(grant, usage),
           "AGGREGATE_LIMIT_EXCEEDED") = {}
  BY <1>1, Zenon DEF evaluateInstrumentGrant
<1> QED
  BY <1>2 DEF When

LEMMA LimitsOfTransfer ==
    ASSUME NEW grant, NEW action, NEW usage,
           grant.kind \notin {"merchant.purchase", "payment-instrument.acquire"},
           evaluateGrantLimits(grant, action, usage) = {}
    PROVE  /\ action.principal \in Nat /\ action.fee \in Nat /\ action.totalOutflow \in Nat
           /\ Defined(grant.maxAggregatePrincipal)
                 => ~ (action.principal > remainingPrincipal(grant, usage))
           /\ Defined(grant.maxAggregateTotalOutflow)
                 => ~ (action.totalOutflow > remainingTotalOutflow(grant, usage))
<1>1. evaluateValueTransferGrant(grant, action, usage) = {}
  BY DEF evaluateGrantLimits
<1>2. /\ evaluateValueTransferEvidence(action) = {}
      /\ When(/\ Defined(grant.maxAggregatePrincipal) /\ Defined(action.principal)
              /\ action.principal > remainingPrincipal(grant, usage),
              "AGGREGATE_LIMIT_EXCEEDED") = {}
      /\ When(/\ Defined(grant.maxAggregateTotalOutflow) /\ Defined(action.totalOutflow)
              /\ action.totalOutflow > remainingTotalOutflow(grant, usage),
              "AGGREGATE_LIMIT_EXCEEDED") = {}
  BY <1>1, Zenon DEF evaluateValueTransferGrant
<1>3. /\ When(~Defined(action.principal), "MISSING_PRINCIPAL") = {}
      /\ When(~Defined(action.fee), "MISSING_FEE") = {}
      /\ When(~Defined(action.totalOutflow), "MISSING_TOTAL_OUTFLOW") = {}
      /\ When(\E field \in {action.principal, action.fee, action.totalOutflow} :
                 Defined(field) /\ ~isSafeNonNegativeInteger(field),
              "INVALID_ECONOMIC_VALUES") = {}
  BY <1>2, Zenon DEF evaluateValueTransferEvidence
<1>4. Defined(action.principal) /\ Defined(action.fee) /\ Defined(action.totalOutflow)
  BY <1>3 DEF When
<1>5. \A field \in {action.principal, action.fee, action.totalOutflow} :
         Defined(field) => isSafeNonNegativeInteger(field)
  BY <1>3 DEF When
<1>6. /\ isSafeNonNegativeInteger(action.principal) /\ isSafeNonNegativeInteger(action.fee)
      /\ isSafeNonNegativeInteger(action.totalOutflow)
  BY <1>4, <1>5
<1>7. action.principal \in Nat /\ action.fee \in Nat /\ action.totalOutflow \in Nat
  BY <1>6, MaxSafeIntegerAssumption DEF isSafeNonNegativeInteger
<1> QED
  BY <1>2, <1>4, <1>7 DEF When

\* What an allowed action holds are natural numbers, and with what is held
\* already they stay within the aggregates of its grant.
LEMMA AllowedFits ==
    ASSUME NEW row \in PermitRows, NEW grant \in row.grants, NEW action \in Actions, NEW id,
           evaluateGrantLimits(grant, action, computeGrantUsage(id, grant.id)) = {},
           NEW field \in Fields
    PROVE  LET reserved == SumOf(authorizations, Reserving(id, grant.id), field)
               amount == reservedEconomicsFor(action)[field]
           IN  /\ amount \in Nat
               /\ /\ Defined(AggregateOf(grant, field))
                  /\ reserved \in Nat /\ reserved <= AggregateOf(grant, field)
                  => amount + reserved <= AggregateOf(grant, field)
<1> DEFINE usage == computeGrantUsage(id, grant.id)
           reserved == SumOf(authorizations, Reserving(id, grant.id), field)
           amount == reservedEconomicsFor(action)[field]
<1>1. /\ usage.amountReserved = SumOf(authorizations, Reserving(id, grant.id), "amount")
      /\ usage.faceValueReserved = SumOf(authorizations, Reserving(id, grant.id), "faceValue")
      /\ usage.principalReserved = SumOf(authorizations, Reserving(id, grant.id), "principal")
      /\ usage.totalOutflowReserved
            = SumOf(authorizations, Reserving(id, grant.id), "totalOutflow")
  BY DEF computeGrantUsage, SumReserved, SumOf
<1>2. grant.kind = action.kind
  BY LimitsLeaveExecution
<1>3. AggregateOf(grant, field) \in Nat \cup {Undefined}
  BY AggregateIsNat
<1> HIDE DEF usage
<1> SUFFICES /\ amount \in Nat
             /\ /\ Defined(AggregateOf(grant, field))
                /\ reserved \in Nat /\ reserved <= AggregateOf(grant, field)
                => amount + reserved <= AggregateOf(grant, field)
  OBVIOUS
<1>4. CASE grant.kind = "merchant.purchase"
  <2>1. amount = IF field = "amount" THEN action.amount ELSE 0
    BY <1>2, <1>4 DEF reservedEconomicsFor, Fields
  <2>2. action.amount \in Nat
    BY <1>2, <1>4, AmountAssumption
  <2>3. AggregateOf(grant, field) = IF field = "amount" THEN grant.maxAggregateAmount ELSE Undefined
    BY <1>4 DEF AggregateOf
  <2>4. Defined(grant.maxAggregateAmount)
           => ~ (action.amount > remaining(grant.maxAggregateAmount, grant.maxAmount,
                                           usage.amountReserved))
    BY <1>4, LimitsOfPurchase DEF remainingAmount, usage
  <2> HIDE DEF reserved, amount
  <2>5. CASE field = "amount"
    <3>1. usage.amountReserved = reserved
      BY <1>1, <2>5 DEF reserved
    <3> QED
      BY <1>3, <2>1, <2>2, <2>3, <2>4, <2>5, <3>1, RemainingFits
  <2>6. CASE field # "amount"
    BY <2>1, <2>3, <2>6 DEF Defined
  <2> QED
    BY <2>5, <2>6
<1>5. CASE grant.kind = "payment-instrument.acquire"
  <2>1. amount = IF field = "faceValue" THEN action.faceValue ELSE 0
    BY <1>2, <1>5 DEF reservedEconomicsFor, Fields
  <2>2. action.faceValue \in Nat
    BY <1>2, <1>5, AmountAssumption
  <2>3. AggregateOf(grant, field)
           = IF field = "faceValue" THEN grant.maxAggregateFaceValue ELSE Undefined
    BY <1>5 DEF AggregateOf
  <2>4. Defined(grant.maxAggregateFaceValue)
           => ~ (action.faceValue > remaining(grant.maxAggregateFaceValue, grant.maxFaceValue,
                                              usage.faceValueReserved))
    BY <1>5, LimitsOfInstrument DEF remainingFaceValue, usage
  <2> HIDE DEF reserved, amount
  <2>5. CASE field = "faceValue"
    <3>1. usage.faceValueReserved = reserved
      BY <1>1, <2>5 DEF reserved
    <3> QED
      BY <1>3, <2>1, <2>2, <2>3, <2>4, <2>5, <3>1, RemainingFits
  <2>6. CASE field # "faceValue"
    BY <2>1, <2>3, <2>6 DEF Defined
  <2> QED
    BY <2>5, <2>6
<1>6. CASE grant.kind \notin {"merchant.purchase", "payment-instrument.acquire"}
  <2>1. amount = CASE field = "principal" -> action.principal
                   [] field = "fee" -> action.fee
                   [] field = "totalOutflow" -> action.totalOutflow
                   [] OTHER -> 0
    BY <1>2, <1>6 DEF reservedEconomicsFor, Fields
  <2>2. /\ action.principal \in Nat /\ action.fee \in Nat /\ action.totalOutflow \in Nat
        /\ Defined(grant.maxAggregatePrincipal)
              => ~ (action.principal > remaining(grant.maxAggregatePrincipal, grant.maxPrincipal,
                                                 usage.principalReserved))
        /\ Defined(grant.maxAggregateTotalOutflow)
              => ~ (action.totalOutflow > remaining(grant.maxAggregateTotalOutflow,
                        grant.maxTotalOutflow, usage.totalOutflowReserved))
    BY <1>6, LimitsOfTransfer DEF remainingPrincipal, remainingTotalOutflow, usage
  <2>3. AggregateOf(grant, field) # Undefined =>
           \/ field = "principal" /\ AggregateOf(grant, field) = grant.maxAggregatePrincipal
           \/ field = "totalOutflow" /\ AggregateOf(grant, field) = grant.maxAggregateTotalOutflow
    BY <1>6 DEF AggregateOf
  <2> HIDE DEF reserved, amount
  <2>4. amount \in Nat
    BY <2>1, <2>2
  <2>5. CASE AggregateOf(grant, field) = Undefined
    BY <2>4, <2>5 DEF Defined
  <2>6. CASE field = "principal" /\ AggregateOf(grant, field) = grant.maxAggregatePrincipal
    <3>1. usage.principalReserved = reserved /\ amount = action.principal
      BY <1>1, <2>1, <2>6 DEF reserved
    <3> QED
      BY <1>3, <2>2, <2>4, <2>6, <3>1, RemainingFits
  <2>7. CASE field = "totalOutflow" /\ AggregateOf(grant, field) = grant.maxAggregateTotalOutflow
    <3>1. usage.totalOutflowReserved = reserved /\ amount = action.totalOutflow
      BY <1>1, <2>1, <2>7 DEF reserved
    <3> QED
      BY <1>3, <2>2, <2>4, <2>7, <3>1, RemainingFits
  <2> QED
    BY <2>3, <2>5, <2>6, <2>7
<1> QED
  BY <1>4, <1>5, <1>6

\* Field by field the limits are those of the ledger.
LEMMA FieldsAreAggregates == FieldsWithinGrant => AggregatesWithinGrant
<1> SUFFICES ASSUME FieldsWithinGrant, NEW id \in Permits, Stored(id),
                    NEW grant \in permits[id].grants
             PROVE  LET usage == computeGrantUsage(id, grant.id)
                        Within(aggregate, reserved) == Defined(aggregate) => reserved <= aggregate IN
                    /\ grant.kind = "merchant.purchase"
                          => Within(grant.maxAggregateAmount, usage.amountReserved)
                    /\ grant.kind = "payment-instrument.acquire"
                          => Within(grant.maxAggregateFaceValue, usage.faceValueReserved)
                    /\ grant.kind = "value.transfer"
                          => /\ Within(grant.maxAggregatePrincipal, usage.principalReserved)
                             /\ Within(grant.maxAggregateTotalOutflow, usage.totalOutflowReserved)
  BY DEF AggregatesWithinGrant
<1> DEFINE usage == computeGrantUsage(id, grant.id)
<1>1. /\ usage.amountReserved = SumOf(authorizations, Reserving(id, grant.id), "amount")
      /\ usage.faceValueReserved = SumOf(authorizations, Reserving(id, grant.id), "faceValue")
      /\ usage.principalReserved = SumOf(authorizations, Reserving(id, grant.id), "principal")
      /\ usage.totalOutflowReserved
            = SumOf(authorizations, Reserving(id, grant.id), "totalOutflow")
  BY DEF computeGrantUsage, SumReserved, SumOf
<1>2. \A field \in Fields :
         Defined(AggregateOf(grant, field)) =>
            SumOf(authorizations, Reserving(id, grant.id), field) <= AggregateOf(grant, field)
  BY DEF FieldsWithinGrant
<1>3. /\ grant.kind = "merchant.purchase" => AggregateOf(grant, "amount") = grant.maxAggregateAmount
      /\ grant.kind = "payment-instrument.acquire"
            => AggregateOf(grant, "faceValue") = grant.maxAggregateFaceValue
      /\ grant.kind = "value.transfer"
            => /\ AggregateOf(grant, "principal") = grant.maxAggregatePrincipal
               /\ AggregateOf(grant, "totalOutflow") = grant.maxAggregateTotalOutflow
  BY DEF AggregateOf
<1>4. {"amount", "faceValue", "principal", "totalOutflow"} \subseteq Fields
  BY DEF Fields
<1> HIDE DEF usage
<1> QED
  BY <1>1, <1>2, <1>3, <1>4 DEF usage

\* What is held under a grant is held by issued rows, in natural amounts.
LEMMA ReservingHolds ==
    ASSUME HeldAreNat, NEW id, NEW g, NEW field \in Fields
    PROVE  /\ Reserving(id, g) \subseteq AuthIds
           /\ \A a \in Reserving(id, g) :
                 reservedEconomicsFor(authorizations[a].action)[field] \in Nat
           /\ SumOf(authorizations, Reserving(id, g), field) \in Nat
<1>1. /\ Reserving(id, g) \subseteq AuthIds
      /\ \A a \in Reserving(id, g) :
            reservedEconomicsFor(authorizations[a].action)[field] \in Nat
  BY DEF Reserving, HeldAreNat
<1> QED
  BY <1>1, SumFacts

\* Authorizing adds one amount to sums that leave room for it.
LEMMA AuthorizeKeepsAggregates ==
    ASSUME IInv, AggregateInv, NEW a \in AuthIds, Authorize(a)
    PROVE  AggregateInv'
<1>0. PICK id \in Permits, action \in Actions, key \in IdempotencyKeys \cup {NoId} :
         \E grant \in permits[id].grants : AuthorizesUnderGrant(a, id, grant, action, key)
  BY AuthorizeFacts
<1>1. PICK grant \in permits[id].grants :
              /\ ~Issued(a) /\ Stored(id)
              /\ evaluateGrantLimits(grant, action, computeGrantUsage(id, grant.id)) = {}
              /\ authorizations' = [authorizations EXCEPT ![a] =
                    NewAuthorization(permits[id], grant.id, action, key)]
              /\ UNCHANGED permits
  BY <1>0 DEF AuthorizesUnderGrant
<1>2. permits[id] \in PermitRows /\ permits[id].id = id
  BY <1>1 DEF IInv, TypeOK, RowsKeyed, Stored
<1> DEFINE new == NewAuthorization(permits[id], grant.id, action, key)
<1>3. /\ new.permitId = id /\ new.grantId = grant.id /\ new.action = action
      /\ new.status = "AUTHORIZED" /\ new # NoAuthorization
  <2>1. permits[id].missionId \in Missions /\ grant.id \in GrantIds
    BY <1>2, RowFields
  <2>2. new \in AuthorizationRows
    BY <1>2, <2>1 DEF NewAuthorization, AuthorizationRows, AuthorizationStatus
  <2> QED
    BY <1>2, <2>2, NullFacts DEF NewAuthorization
<1>4. authorizations'[a] = new /\ \A b \in AuthIds : b # a => authorizations'[b] = authorizations[b]
  BY <1>1 DEF IInv, TypeOK
<1> HIDE DEF new
<1>5. \A b \in AuthIds : Issued(b)' <=> b = a \/ Issued(b)
  BY <1>3, <1>4 DEF Issued
<1>6. \A field \in Fields : reservedEconomicsFor(action)[field] \in Nat
  BY <1>1, <1>2, AllowedFits
<1>7. HeldAreNat'
  <2> SUFFICES ASSUME NEW b \in AuthIds, Issued(b)', NEW field \in Fields
               PROVE  reservedEconomicsFor(authorizations'[b].action)[field] \in Nat
    BY DEF HeldAreNat
  <2>1. CASE b = a
    BY <1>3, <1>4, <1>6, <2>1
  <2>2. CASE b # a
    BY <1>4, <1>5, <2>2 DEF AggregateInv, HeldAreNat
  <2> QED
    BY <2>1, <2>2
<1>8. ASSUME NEW other \in Permits, Stored(other)', NEW term \in permits'[other].grants,
             NEW field \in Fields, Defined(AggregateOf(term, field))
      PROVE  SumOf(authorizations', Reserving(other, term.id)', field) <= AggregateOf(term, field)
  <2>1. /\ Stored(other) /\ term \in permits[other].grants
        /\ SumOf(authorizations, Reserving(other, term.id), field) <= AggregateOf(term, field)
    BY <1>1, <1>8 DEF AggregateInv, FieldsWithinGrant, Stored
  <2>2. /\ Reserving(other, term.id) \subseteq AuthIds /\ a \notin Reserving(other, term.id)
        /\ \A b \in Reserving(other, term.id) :
              /\ reservedEconomicsFor(authorizations[b].action)[field] \in Nat
              /\ authorizations'[b] = authorizations[b]
        /\ SumOf(authorizations, Reserving(other, term.id), field) \in Nat
    <3>1. a \notin Reserving(other, term.id)
      BY <1>1 DEF Reserving
    <3> QED
      BY <1>4, <3>1, ReservingHolds DEF AggregateInv
  <2>3. SumOf(authorizations', Reserving(other, term.id), field)
           = SumOf(authorizations, Reserving(other, term.id), field)
    BY <2>2, SumFacts
  <2>4. CASE other = id /\ term.id = grant.id
    <3>1. term = grant
      BY <1>2, <2>1, <2>4, RowFields
    <3>2. Reserving(other, term.id)' = Reserving(other, term.id) \cup {a}
      BY <1>3, <1>4, <1>5, <2>4
         DEF Reserving, authorizationReservesAuthority, AUTHORITY_RESERVING_STATUSES
    <3>3. (Reserving(other, term.id) \cup {a}) \ {a} = Reserving(other, term.id)
      BY <2>2
    <3>4. \A b \in Reserving(other, term.id) \cup {a} :
             reservedEconomicsFor(authorizations'[b].action)[field] \in Nat
      BY <1>3, <1>4, <1>6, <2>2
    <3>5. SumOf(authorizations', Reserving(other, term.id) \cup {a}, field)
             = reservedEconomicsFor(action)[field]
                  + SumOf(authorizations, Reserving(other, term.id), field)
      <4> DEFINE all == Reserving(other, term.id) \cup {a}
      <4>1. all \subseteq AuthIds /\ a \in all
        BY <2>2
      <4>2. \A b \in all : reservedEconomicsFor(authorizations'[b].action)[field] \in Nat
        BY <3>4
      <4> HIDE DEF all
      <4>3. SumOf(authorizations', all, field)
               = reservedEconomicsFor(authorizations'[a].action)[field]
                    + SumOf(authorizations', all \ {a}, field)
        BY <4>1, <4>2, SumFacts
      <4> QED
        BY <1>3, <1>4, <2>3, <3>3, <4>3 DEF all
    <3>6. reservedEconomicsFor(action)[field]
             + SumOf(authorizations, Reserving(other, term.id), field) <= AggregateOf(term, field)
      BY <1>1, <1>2, <1>8, <2>1, <2>2, <2>4, <3>1, AllowedFits
    <3> QED
      BY <3>2, <3>5, <3>6
  <2>5. CASE ~ (other = id /\ term.id = grant.id)
    <3>1. Reserving(other, term.id)' = Reserving(other, term.id)
      BY <1>1, <1>3, <1>4, <1>5, <2>5 DEF Reserving
    <3> QED
      BY <2>1, <2>3, <3>1
  <2> QED
    BY <2>4, <2>5
<1>9. FieldsWithinGrant'
  BY <1>8 DEF FieldsWithinGrant
<1> QED
  BY <1>7, <1>9 DEF AggregateInv

\* A transition gives amounts back, or leaves them.
LEMMA WriteTransitionKeepsAggregates ==
    ASSUME IInv, AggregateInv, NEW x \in Processes, WriteTransition(x)
    PROVE  AggregateInv'
<1>1. PICK a \in AuthIds, next \in AuthorizationRows :
           /\ Issued(a) /\ authorizationReservesAuthority(authorizations[a].status)
           /\ SameBinding(next, authorizations[a])
           /\ authorizations' = [authorizations EXCEPT ![a] = next]
           /\ UNCHANGED permits
  BY WriteTransitionFacts
<1>2. authorizations'[a] = next /\ \A b \in AuthIds : b # a => authorizations'[b] = authorizations[b]
  BY <1>1 DEF IInv, TypeOK
<1>3. \A b \in AuthIds : (Issued(b)' <=> Issued(b))
                           /\ authorizations'[b].action = authorizations[b].action
  BY <1>1, <1>2, NullFacts DEF Issued, SameBinding
<1>4. HeldAreNat'
  BY <1>3 DEF AggregateInv, HeldAreNat
<1>5. ASSUME NEW id \in Permits, Stored(id)', NEW grant \in permits'[id].grants,
             NEW field \in Fields, Defined(AggregateOf(grant, field))
      PROVE  SumOf(authorizations', Reserving(id, grant.id)', field) <= AggregateOf(grant, field)
  <2> DEFINE held == Reserving(id, grant.id)
             kept == Reserving(id, grant.id)'
  <2>1. /\ SumOf(authorizations, held, field) <= AggregateOf(grant, field)
        /\ AggregateOf(grant, field) \in Nat
    <3>1. Stored(id) /\ grant \in permits[id].grants /\ permits[id] \in PermitRows
      BY <1>1, <1>5 DEF Stored, IInv, TypeOK
    <3> QED
      BY <1>5, <3>1, AggregateIsNat DEF AggregateInv, FieldsWithinGrant, Defined
  <2>2. /\ held \subseteq AuthIds
        /\ \A b \in held : reservedEconomicsFor(authorizations[b].action)[field] \in Nat
        /\ SumOf(authorizations, held, field) \in Nat
    BY ReservingHolds DEF AggregateInv
  <2>3. kept = held \/ (a \in held /\ kept = held \ {a})
    BY <1>1, <1>2, <1>3 DEF Reserving, SameBinding
  <2> HIDE DEF held, kept
  <2>4. /\ kept \subseteq AuthIds
        /\ \A b \in kept : /\ reservedEconomicsFor(authorizations[b].action)[field] \in Nat
                           /\ authorizations'[b].action = authorizations[b].action
    BY <1>3, <2>2, <2>3
  <2>5. /\ SumOf(authorizations', kept, field) = SumOf(authorizations, kept, field)
        /\ SumOf(authorizations, kept, field) \in Nat
    BY <2>4, SumFacts
  <2>6. CASE a \in held /\ kept = held \ {a}
    <3>1. SumOf(authorizations, held, field)
             = reservedEconomicsFor(authorizations[a].action)[field]
                  + SumOf(authorizations, kept, field)
      BY <2>2, <2>6, SumFacts
    <3>2. reservedEconomicsFor(authorizations[a].action)[field] \in Nat
      BY <2>2, <2>6
    <3>3. SumOf(authorizations, kept, field) <= AggregateOf(grant, field)
      BY <2>1, <2>5, <3>1, <3>2
    <3> QED
      BY <2>5, <3>3 DEF kept
  <2>7. CASE kept = held
    BY <2>1, <2>5, <2>7 DEF kept
  <2> QED
    BY <2>3, <2>6, <2>7
<1>6. FieldsWithinGrant'
  BY <1>5 DEF FieldsWithinGrant
<1> QED
  BY <1>4, <1>6 DEF AggregateInv

\* Permits that are written have no Authorization yet, or keep their terms.
LEMMA PermitsKeepAggregates ==
    ASSUME IInv, AggregateInv, [Next]_vars, UNCHANGED authorizations
    PROVE  AggregateInv'
<1>1. IInv'
  BY NextPreservesIInv
<1>2. HeldAreNat'
  BY DEF AggregateInv, HeldAreNat, Issued
<1>3. ASSUME NEW id \in Permits, Stored(id)', NEW grant \in permits'[id].grants,
             NEW field \in Fields, Defined(AggregateOf(grant, field))
      PROVE  SumOf(authorizations', Reserving(id, grant.id)', field) <= AggregateOf(grant, field)
  <2>1. Reserving(id, grant.id)' = Reserving(id, grant.id)
    BY DEF Reserving, Issued
  <2>2. CASE Reserving(id, grant.id) = {}
    <3>1. SumOf(authorizations, Reserving(id, grant.id), field) = 0
      BY <2>2, SumFacts
    <3>2. permits'[id] \in PermitRows
      BY <1>1, <1>3 DEF IInv, TypeOK, Stored
    <3>3. AggregateOf(grant, field) \in Nat
      BY <1>3, <3>2, AggregateIsNat DEF Defined
    <3> QED
      BY <2>1, <3>1, <3>3
  <2>3. CASE Reserving(id, grant.id) # {}
    <3>1. Stored(id) /\ permits[id].status # "DRAFT"
      BY <2>3 DEF Reserving, IInv, AuthorizationsNameStoredTerms
    <3>2. permits'[id] = permits[id] \/ permits'[id] = WithStatus(permits[id], "REVOKED")
      BY <3>1, PermitFrozen DEF Frozen, WithStatus
    <3>3. permits[id] \in PermitRows /\ "REVOKED" \in PermitStatus
      BY <3>1 DEF IInv, TypeOK, Stored, PermitStatus
    <3>4. grant \in permits[id].grants
      BY <1>3, <3>2, <3>3, RowWithStatus
    <3>5. SumOf(authorizations, Reserving(id, grant.id), field) <= AggregateOf(grant, field)
      BY <1>3, <3>1, <3>4 DEF AggregateInv, FieldsWithinGrant
    <3> QED
      BY <2>1, <3>5
  <2> QED
    BY <2>2, <2>3
<1>4. FieldsWithinGrant'
  BY <1>3 DEF FieldsWithinGrant
<1> QED
  BY <1>2, <1>4 DEF AggregateInv

\* No sum of amounts held under a grant exceeds the aggregate limit it states,
\* however many processes authorize (computeGrantUsage, authorizeResolvedAction).
THEOREM AggregatesBounded == Spec => []AggregatesWithinGrant
<1>1. Init => AggregateInv
  BY DEF Init, Issued, Stored, AggregateInv, HeldAreNat, FieldsWithinGrant
<1>2. ASSUME IInv, AggregateInv, [Next]_vars PROVE AggregateInv'
  BY <1>2, AuthorizationSteps, AuthorizeKeepsAggregates, WriteTransitionKeepsAggregates,
     PermitsKeepAggregates
<1>3. IInv /\ AggregateInv /\ [Next]_vars => AggregateInv'
  BY <1>2
<1>4. AggregateInv => AggregatesWithinGrant
  BY FieldsAreAggregates DEF AggregateInv
<1> QED
  BY <1>1, <1>3, <1>4, LedgerInvariant, PTL DEF Spec

=============================================================================
