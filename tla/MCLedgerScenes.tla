---------------------------- MODULE MCLedgerScenes ----------------------------
(* Three instances of AuthorizationLedger in one run: the scene, chosen      *)
(* once, says which of them a behaviour is of.                               *)
(*   permits    the life of two Permits of one Mission, of three documents,  *)
(*              while the clock passes their validity; one Authorization;    *)
(*              two processes that interleave.                               *)
(*   budget     one Permit with a grant of two executions and an aggregate   *)
(*              that only some pairs fit; two processes that interleave, an  *)
(*              idempotency key.                                             *)
(*   transfers  two Permits of two Missions with parent-linked and free      *)
(*              transfers of two payments; one process at a time holds a     *)
(*              row it has read, no idempotency key.                         *)
EXTENDS MCAuthorizationLedger

VARIABLE scene

SceneDocuments == LifeDocuments \cup BudgetDocuments \cup TransferDocuments
SceneActions == OnePurchase \cup BudgetActions \cup TransferActions
SceneSymmetry == PermitSymmetry \cup Permutations(AuthIds)

PermitScene == INSTANCE AuthorizationLedger WITH
    PermitDocuments <- LifeDocuments, Actions <- OnePurchase

BudgetScene == INSTANCE AuthorizationLedger WITH
    PermitDocuments <- BudgetDocuments, Actions <- BudgetActions, MaxTime <- 0

TransferScene == INSTANCE AuthorizationLedger WITH
    PermitDocuments <- TransferDocuments, Actions <- TransferActions, MaxTime <- 0,
    IdempotencyKeys <- {}

StoredPermits == {id \in Permits : Stored(id)}

SceneInit == Init /\ scene \in {"permits", "budget", "transfers"}

SceneNext ==
    /\ UNCHANGED scene
    /\ \/ /\ scene = "permits" /\ PermitScene!Next
          /\ Cardinality({a \in AuthIds : Issued(a)'}) <= 1
       \/ /\ scene = "budget" /\ BudgetScene!Next
          /\ Cardinality(StoredPermits') <= 1
       \/ /\ scene = "transfers" /\ TransferScene!Next
          /\ Cardinality({x \in Processes : call'[x] # Idle}) <= 1

SceneSpec == SceneInit /\ [][SceneNext]_<<vars, scene>>

=============================================================================
