----------------------------- MODULE WavelengthSpend -----------------------------
(***************************************************************************)
(* One Signet payment: src/src/application/wavelength-spend.ts             *)
(* (executeSignet and reconcile), the rows it keeps in the store, the      *)
(* Wavelength daemon it talks to and the operator's `authorization`        *)
(* commands, run by several processes that may die at any point.           *)
(*                                                                         *)
(* Within a process the code between two awaits runs without another       *)
(* callback of that process, but other processes commit in between, so     *)
(* each transaction and each await is a step.  A transition that reads the *)
(* row before its own transaction is one step here: AuthorizationLedger    *)
(* shows that it then applies to the row it read or is refused, and a      *)
(* refused call ends just as a crashed one does.                           *)
(*                                                                         *)
(* What the Permit allows is the matter of AuthorizationLedger; here it is *)
(* active or not and may refuse for a reason not modelled.  The daemon is  *)
(* external: it is what the adapter assumes of it, that a Send may be      *)
(* carried out whether or not its answer arrives.                          *)
(***************************************************************************)
EXTENDS AuthorizationLifecycle, WavelengthDaemon

CONSTANTS
    AuthIds, IdempotencyKeys, Processes,
    Intents,           \* what PrepareSend may return
    HashOf,            \* HashOf[intent]: the payment an intent would make
    OperatorCommands,  \* statuses an operator may ask for, of those the CLI offers
    MaxCrashes,        \* bound on the crashes of a run
    None

\* The rows of the authorizations and funding_executions tables, as far as
\* they matter here.
AuthorizationRows ==
    [key : IdempotencyKeys, intent : Intents, status : AuthorizationStatus,
     externalActionAttempted : BOOLEAN]

FundingRows ==
    [dispatched : BOOLEAN,
     state : Results \cup {"EXECUTING", "SEND_DISPATCHED", "SEND_RESPONSE_RECEIVED"}]

ASSUME SpendAssumption ==
    /\ HashOf \in [Intents -> PaymentHashes]
    /\ OperatorCommands \subseteq AuthorizationStatus \ {"AUTHORIZED"}
    /\ MaxCrashes \in Nat
    /\ MaxSends \in Nat
    /\ None \notin AuthIds \cup IdempotencyKeys \cup Intents \cup PaymentHashes
    /\ None \notin AuthorizationRows \cup FundingRows

VARIABLES
    permitActive,     \* the Permit of the Mission is ACTIVE
    authorizations,   \* authorizations table
    funding,          \* funding_executions table
    call,             \* what each process is doing
    crashes           \* crashes so far

store == <<permitActive, authorizations, funding>>
vars == <<permitActive, authorizations, funding, call, sends, activity, crashes>>

Issued(a) == authorizations[a] # None
PaymentOf(a) == HashOf[authorizations[a].intent]

\* Authorizations that hold the authority to pay hash.
Holding(hash) ==
    {a \in AuthIds : /\ Issued(a)
                     /\ PaymentOf(a) = hash
                     /\ authorizationReservesAuthority(authorizations[a].status)}

Idle == [pc |-> "idle", key |-> None, intent |-> None, auth |-> None, seen |-> None,
         result |-> None]

Ends(x) == call' = [call EXCEPT ![x] = Idle]
Goes(x, pc) == call' = [call EXCEPT ![x].pc = pc]

-----------------------------------------------------------------------------
(* executeSignet.                                                          *)

\* The gates are open, the Permit is the ACTIVE one and grants the transfer.
StartExecute(x) ==
    /\ call[x].pc = "idle"
    /\ permitActive
    /\ \E key \in IdempotencyKeys :
          call' = [call EXCEPT ![x] = [Idle EXCEPT !.pc = "preparing", !.key = key]]
    /\ UNCHANGED <<store, daemon, crashes>>

\* PrepareSend answers with an intent; two calls may be given the same one.
Prepared(x) ==
    /\ call[x].pc = "preparing"
    /\ \E intent \in Intents :
          call' = [call EXCEPT ![x].pc = "authorizing", ![x].intent = intent]
    /\ UNCHANGED <<store, daemon, crashes>>

Under(key) == {a \in AuthIds : Issued(a) /\ authorizations[a].key = key}

\* The digest of the resolved action covers the prepared operation and the
\* time it was resolved: two preparations are equal only within a millisecond.
SameAction(a, intent) == authorizations[a].intent = intent

\* What executeSignet does with the Authorization it is handed.  From here on
\* the prepared operation is the one the Authorization is bound to.
Handed(x, a, status) ==
    IF status \in {"SUCCEEDED", "FAILED_SAFE", "RELEASED"}
    THEN Ends(x)
    ELSE call' = [call EXCEPT ![x] = [Idle EXCEPT !.auth = a,
            !.pc = IF status = "AUTHORIZED" THEN "revalidating" ELSE "reconciling"]]

\* The key is known: its Authorization, whatever became of it, if the action
\* is the same one, or a conflict.
AuthorizeKnown(x) ==
    /\ call[x].pc = "authorizing"
    /\ permitActive
    /\ \E a \in Under(call[x].key) :
          IF SameAction(a, call[x].intent)
          THEN Handed(x, a, authorizations[a].status)
          ELSE Ends(x)
    /\ UNCHANGED <<store, daemon, crashes>>

PaymentFree(hash) == Holding(hash) = {}

AuthorizeNew(x) ==
    /\ call[x].pc = "authorizing"
    /\ permitActive
    /\ Under(call[x].key) = {}
    /\ PaymentFree(HashOf[call[x].intent])
    /\ \E a \in AuthIds :
          /\ ~Issued(a)
          /\ authorizations' = [authorizations EXCEPT ![a] =
                [key |-> call[x].key, intent |-> call[x].intent, status |-> "AUTHORIZED",
                 externalActionAttempted |-> FALSE]]
          /\ Handed(x, a, "AUTHORIZED")
    /\ UNCHANGED <<permitActive, funding, daemon, crashes>>

\* revalidateBeforeExecuting: the Permit is read again after the await; the
\* Authorization is the one read before it.
Revalidated(x) ==
    /\ call[x].pc = "revalidating"
    /\ permitActive
    /\ Goes(x, "beginning")
    /\ UNCHANGED <<store, daemon, crashes>>

\* INSERT INTO funding_executions: one row per Authorization and, for good,
\* one per payment.
FundingRowFits(a) ==
    /\ funding[a] = None
    /\ \A b \in AuthIds : funding[b] # None => PaymentOf(b) # PaymentOf(a)

\* Faulty variant: the row is written and the status left as it was.
BeginWithoutStatus(x) ==
    LET a == call[x].auth IN
    /\ call[x].pc = "beginning"
    /\ TransitionAccepted(authorizations[a], "EXECUTING")
    /\ FundingRowFits(a)
    /\ funding' = [funding EXCEPT ![a] = [dispatched |-> FALSE, state |-> "EXECUTING"]]
    /\ Goes(x, "marking")
    /\ UNCHANGED <<permitActive, authorizations, daemon, crashes>>

\* beginFundingExecution: the status and the row in one transaction.  A row
\* already EXECUTING passes: asking for the current status changes nothing.
BeginFundingExecution(x) ==
    LET a == call[x].auth IN
    /\ call[x].pc = "beginning"
    /\ TransitionAccepted(authorizations[a], "EXECUTING")
    /\ FundingRowFits(a)
    /\ authorizations' = [authorizations EXCEPT ![a] =
           transitionAuthorization(@, "EXECUTING")]
    /\ funding' = [funding EXCEPT ![a] = [dispatched |-> FALSE, state |-> "EXECUTING"]]
    /\ Goes(x, "marking")
    /\ UNCHANGED <<permitActive, daemon, crashes>>

\* Faulty variant: the Send is recorded after it was made, if at all.
SendUnrecorded(x) ==
    /\ call[x].pc = "marking"
    /\ Goes(x, "dispatching")
    /\ UNCHANGED <<store, daemon, crashes>>

MarkSendDispatched(x) ==
    LET a == call[x].auth IN
    /\ call[x].pc = "marking"
    /\ ~funding[a].dispatched
    /\ funding' = [funding EXCEPT ![a] = [dispatched |-> TRUE, state |-> "SEND_DISPATCHED"]]
    /\ Goes(x, "dispatching")
    /\ UNCHANGED <<permitActive, authorizations, daemon, crashes>>

\* dispatchAuthorizedSend: the request leaves the process.
DispatchSend(x) ==
    LET hash == PaymentOf(call[x].auth) IN
    /\ call[x].pc = "dispatching"
    /\ SendLeaves(hash)
    /\ Goes(x, "sent")
    /\ UNCHANGED <<store, crashes>>

\* The receipt arrives, with the daemon's id of the activity or without.
SendAnswered(x) ==
    /\ call[x].pc = "sent"
    /\ activity[PaymentOf(call[x].auth)] # "none"
    /\ Goes(x, "recordingReceipt") \/ Goes(x, "reconciling")
    /\ UNCHANGED <<store, daemon, crashes>>

RecordReceipt(x) ==
    /\ call[x].pc = "recordingReceipt"
    /\ funding' = [funding EXCEPT ![call[x].auth].state = "SEND_RESPONSE_RECEIVED"]
    /\ Goes(x, "reconciling")
    /\ UNCHANGED <<permitActive, authorizations, daemon, crashes>>

\* Faulty variant: an uncertain Send is tried again.
SendRetried(x) ==
    /\ call[x].pc = "sent"
    /\ Goes(x, "dispatching")
    /\ UNCHANGED <<store, daemon, crashes>>

\* A timeout, a transport error or an HTTP error: the Send may have been made.
SendUncertain(x) ==
    /\ call[x].pc = "sent"
    /\ call' = [call EXCEPT ![x].pc = "settling", ![x].result = "AMBIGUOUS"]
    /\ UNCHANGED <<store, daemon, crashes>>

-----------------------------------------------------------------------------
(* reconcile, called by executeSignet or on its own by the operator.       *)

StartReconcile(x, a) ==
    /\ call[x].pc = "idle"
    /\ Issued(a)
    /\ call' = [call EXCEPT ![x] = [Idle EXCEPT !.pc = "reconciling", !.auth = a]]
    /\ UNCHANGED <<store, daemon, crashes>>

\* An Authorization not begun or already settled is left alone.
ReadForReconcile(x) ==
    LET status == authorizations[call[x].auth].status IN
    /\ call[x].pc = "reconciling"
    /\ IF status \in {"AUTHORIZED", "RELEASED", "SUCCEEDED"}
       THEN Ends(x)
       ELSE call' = [call EXCEPT ![x].pc = "inspecting", ![x].seen = status]
    /\ UNCHANGED <<store, daemon, crashes>>

\* InspectActivity answers.
Inspected(x) ==
    /\ call[x].pc = "inspecting"
    /\ call' = [call EXCEPT ![x].pc = "recording",
          ![x].result = mapReconciliation(activity[PaymentOf(call[x].auth)])]
    /\ UNCHANGED <<store, daemon, crashes>>

\* The answer is not found or malformed.
InspectedNothing(x) ==
    /\ call[x].pc = "inspecting"
    /\ call' = [call EXCEPT ![x].pc = "recording", ![x].result = "AMBIGUOUS"]
    /\ UNCHANGED <<store, daemon, crashes>>

\* Faulty variant: what was ambiguous stays so.
LeavesOpenWhenAmbiguous(result, seen) == result = "PENDING" \/ seen = "AMBIGUOUS"

\* The inspection does not change the status: it is still open, or it is as
\* ambiguous as it was when the call began.
LeavesOpen(result, seen) ==
    result = "PENDING" \/ (result # "SUCCEEDED" /\ seen = "AMBIGUOUS")

\* updateFundingExecution, by now perhaps of a row another call has settled.
RecordInspection(x) ==
    LET a == call[x].auth IN
    /\ call[x].pc = "recording"
    /\ funding[a] # None
    /\ funding' = [funding EXCEPT ![a].state = call[x].result]
    /\ IF LeavesOpen(call[x].result, call[x].seen)
       THEN Ends(x)
       ELSE Goes(x, "settling")
    /\ UNCHANGED <<permitActive, authorizations, daemon, crashes>>

Verdict(result) == IF result = "SUCCEEDED" THEN "SUCCEEDED" ELSE "AMBIGUOUS"

\* markSucceeded or markAmbiguous.
Settle(x) ==
    LET a == call[x].auth
        verdict == Verdict(call[x].result) IN
    /\ call[x].pc = "settling"
    /\ TransitionAccepted(authorizations[a], verdict)
    /\ authorizations' = [authorizations EXCEPT ![a] = transitionAuthorization(@, verdict)]
    /\ Ends(x)
    /\ UNCHANGED <<permitActive, funding, daemon, crashes>>

-----------------------------------------------------------------------------
(* How a call ends early.                                                  *)

\* The daemon rejects, the engine refuses, a check or a transaction throws.
\* A Send whose answer is unreadable is thrown too and leaves EXECUTING.
Throws(x) ==
    LET a == call[x].auth IN
    /\ \/ call[x].pc \in {"preparing", "authorizing", "revalidating", "sent", "inspecting"}
       \/ /\ call[x].pc = "beginning"
          /\ ~(TransitionAccepted(authorizations[a], "EXECUTING") /\ FundingRowFits(a))
       \/ call[x].pc = "marking" /\ funding[a].dispatched
       \/ call[x].pc = "recording" /\ funding[a] = None
       \/ /\ call[x].pc = "settling"
          /\ ~TransitionAccepted(authorizations[a], Verdict(call[x].result))
    /\ Ends(x)
    /\ UNCHANGED <<store, daemon, crashes>>

Crash(x) ==
    /\ call[x].pc # "idle"
    /\ crashes < MaxCrashes
    /\ crashes' = crashes + 1
    /\ Ends(x)
    /\ UNCHANGED <<store, daemon>>

-----------------------------------------------------------------------------
(* The operator and the daemon.                                            *)

\* `authorization release`, `mark-ambiguous` and the `-simulated` commands:
\* the Spend Controller asks for the status and nothing else is looked at.
Operator(a) ==
    /\ Issued(a)
    /\ \E requested \in OperatorCommands \ {authorizations[a].status} :
          /\ TransitionAccepted(authorizations[a], requested)
          /\ authorizations' = [authorizations EXCEPT ![a] =
                 transitionAuthorization(@, requested)]
    /\ UNCHANGED <<permitActive, funding, call, daemon, crashes>>

Revoke ==
    /\ permitActive
    /\ permitActive' = FALSE
    /\ UNCHANGED <<authorizations, funding, call, daemon, crashes>>

DaemonMoves(hash) ==
    /\ Pays(hash) \/ Finishes(hash)
    /\ UNCHANGED <<store, call, crashes>>

-----------------------------------------------------------------------------
Init ==
    /\ permitActive = TRUE
    /\ authorizations = [a \in AuthIds |-> None]
    /\ funding = [a \in AuthIds |-> None]
    /\ call = [x \in Processes |-> Idle]
    /\ DaemonInit
    /\ crashes = 0

\* The steps of a call once it has begun; one of them is always enabled.
Step(x) ==
    \/ Prepared(x) \/ AuthorizeKnown(x) \/ AuthorizeNew(x) \/ Revalidated(x)
    \/ BeginFundingExecution(x) \/ MarkSendDispatched(x) \/ DispatchSend(x)
    \/ SendAnswered(x) \/ RecordReceipt(x) \/ SendUncertain(x)
    \/ ReadForReconcile(x) \/ Inspected(x) \/ InspectedNothing(x)
    \/ RecordInspection(x) \/ Settle(x) \/ Throws(x)

Next ==
    \/ \E x \in Processes :
          StartExecute(x) \/ Step(x) \/ Crash(x)
    \/ \E x \in Processes, a \in AuthIds : StartReconcile(x, a)
    \/ \E a \in AuthIds : Operator(a)
    \/ Revoke
    \/ \E hash \in PaymentHashes : DaemonMoves(hash)

Spec == Init /\ [][Next]_vars

\* Every await of a call ends (the HTTP client gives up after a timeout), so
\* the process goes on until the call ends.
CallFairness == \A x \in Processes : WF_vars(Step(x))

FairSpec == Spec /\ CallFairness

\* Moreover the operator does not give up reconciling and the daemon does
\* not fail to answer every time.
PatientSpec ==
    /\ FairSpec
    /\ \A x \in Processes, a \in AuthIds : SF_vars(StartReconcile(x, a))
    /\ \A x \in Processes : SF_vars(Inspected(x))

-----------------------------------------------------------------------------
(* Properties.                                                             *)

ControlStates ==
    {"idle", "preparing", "authorizing", "revalidating", "beginning", "marking",
     "dispatching", "sent", "recordingReceipt", "reconciling", "inspecting",
     "recording", "settling"}

Calls ==
    [pc : ControlStates, key : IdempotencyKeys \cup {None},
     intent : Intents \cup {None}, auth : AuthIds \cup {None},
     seen : AuthorizationStatus \cup {None}, result : Results \cup {None}]

\* The rows and the calls have the types the schemas give them, and the rows
\* agree with each other: a funding row belongs to an Authorization that was
\* issued, and whose external action may have begun.
TypeOK ==
    /\ permitActive \in BOOLEAN
    /\ authorizations \in [AuthIds -> {None} \cup AuthorizationRows]
    /\ funding \in [AuthIds -> {None} \cup FundingRows]
    /\ call \in [Processes -> Calls]
    /\ sends \in [PaymentHashes -> 0..MaxSends]
    /\ activity \in [PaymentHashes -> Entries]
    /\ crashes \in 0..MaxCrashes
    /\ \A a \in AuthIds : funding[a] # None =>
          Issued(a) /\ authorizations[a].externalActionAttempted

\* A payment is handed to the daemon at most once, whatever calls, crashes,
\* repeated commands and operator commands there are ("Send is invoked at
\* most once and is never retried", docs/ARCHITECTURE.md:149).
SendAtMostOnce == \A hash \in PaymentHashes : sends[hash] <= 1

\* A Send leaves only after the store says that it may have: whoever looks
\* at the store after a crash finds, for every payment sent, a funding row
\* marked dispatched (wavelength-spend.ts, markSendDispatched before Send).
SendIsOnRecord ==
    \A hash \in PaymentHashes : sends[hash] > 0 =>
        \E a \in AuthIds : funding[a] # None /\ funding[a].dispatched /\ PaymentOf(a) = hash

\* The authority of a Send that was dispatched is never handed back
\* (docs/THREAT_MODEL.md:151, "Release is allowed only when SatScout can
\* prove no irreversible external action began").
ReleasedOnlyUnsent ==
    \A a \in AuthIds :
        Issued(a) /\ authorizations[a].status = "RELEASED" =>
            ~(funding[a] # None /\ funding[a].dispatched /\ sends[PaymentOf(a)] > 0)

\* An Authorization says that the payment was made.
RecordedAsMade(hash) ==
    \E a \in AuthIds : /\ Issued(a) /\ PaymentOf(a) = hash
                       /\ authorizations[a].status = "SUCCEEDED"

Promise == INSTANCE PaymentPromise WITH
    Payments <- PaymentHashes,
    reserved <- {hash \in PaymentHashes : Holding(hash) # {}},
    sent <- sends,
    made <- {hash \in PaymentHashes : activity[hash] = "complete"},
    recorded <- {hash \in PaymentHashes : RecordedAsMade(hash)}

\* The rows, the calls and the daemon together keep the promise: authority is
\* held from before the Send for good, the Send happens once, and success is
\* recorded only of a payment that was made.
PromiseKept == Promise!PromiseSpec

\* A payment that was made is recorded as made in the end, whatever calls,
\* crashes and commands come in between, if reconciliation is kept up.
MadeIsRecorded ==
    \A hash \in PaymentHashes : activity[hash] = "complete" ~> RecordedAsMade(hash)

=============================================================================
