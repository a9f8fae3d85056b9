------------------------- MODULE AuthorizationLifecycle -------------------------
(***************************************************************************)
(* The life of one Authorization, as operators on the pair of fields that  *)
(* move: its status and whether an external action may have begun.         *)
(* src/src/domain/economy/lifecycle.ts and authorization.ts.               *)
(***************************************************************************)

AuthorizationStatus ==
    {"AUTHORIZED", "EXECUTING", "SUCCEEDED", "FAILED_SAFE", "AMBIGUOUS", "RELEASED"}

\* The statuses that consume authority of the Permit.
AUTHORITY_RESERVING_STATUSES ==
    {"AUTHORIZED", "EXECUTING", "SUCCEEDED", "FAILED_SAFE", "AMBIGUOUS"}

authorizationReservesAuthority(status) == status \in AUTHORITY_RESERVING_STATUSES

allowed ==
    [AUTHORIZED  |-> {"EXECUTING", "RELEASED"},
     EXECUTING   |-> {"SUCCEEDED", "FAILED_SAFE", "AMBIGUOUS"},
     AMBIGUOUS   |-> {"SUCCEEDED", "FAILED_SAFE"},
     FAILED_SAFE |-> {"RELEASED"},
     SUCCEEDED   |-> {},
     RELEASED    |-> {}]

canReleaseAuthorization(auth) == auth.status \in {"AUTHORIZED", "FAILED_SAFE"}

canMarkExecuting(auth) ==
    auth.status = "AUTHORIZED" /\ ~auth.externalActionAttempted

\* The requested transition is accepted. Asking for the current status is
\* accepted and changes nothing.
TransitionAccepted(auth, requested) ==
    \/ requested = auth.status
    \/ /\ requested \in allowed[auth.status]
       /\ requested = "EXECUTING" => canMarkExecuting(auth)
       /\ requested = "RELEASED" => canReleaseAuthorization(auth)

\* The record after an accepted transition: only the two fields move.
transitionAuthorization(auth, requested) ==
    IF requested = auth.status
    THEN auth
    ELSE [auth EXCEPT
            !.status = requested,
            !.externalActionAttempted =
                @ \/ requested \in {"EXECUTING", "SUCCEEDED", "AMBIGUOUS"}]

\* What AuthorizationSchema accepts of the two fields.
AttemptConsistent(auth) ==
    /\ auth.status = "AUTHORIZED" => ~auth.externalActionAttempted
    /\ auth.status \in {"EXECUTING", "SUCCEEDED", "AMBIGUOUS"}
          => auth.externalActionAttempted

=============================================================================
