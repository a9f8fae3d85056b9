-------------------------- MODULE WavelengthSpendProofs --------------------------
(***************************************************************************)
(* Theorems about WavelengthSpend, for every set of calls, Authorizations, *)
(* keys and payments, every command of the operator and every number of    *)
(* crashes; and, with no outcome declared by hand, that it implements      *)
(* PaymentPromise.                                                         *)
(***************************************************************************)
EXTENDS WavelengthSpend, TLAPS

-----------------------------------------------------------------------------
(* The inductive invariant.                                                *)

Dispatched(a) == funding[a] # None /\ funding[a].dispatched

\* What a call knows at each of its steps: from the Authorization on, that its
\* row was issued; from the funding row to the end of the Send, that the row
\* is there; about to send, that the row says so and that nothing was sent.
CallSound(c) ==
    /\ c.pc \in {"preparing", "authorizing"} => c.key \in IdempotencyKeys
    /\ c.pc = "authorizing" => c.intent \in Intents
    /\ c.pc \notin {"idle", "preparing", "authorizing"} =>
          c.auth \in AuthIds /\ Issued(c.auth)
    /\ c.pc \in {"marking", "dispatching", "sent", "recordingReceipt"} =>
          funding[c.auth] # None
    /\ c.pc \in {"recording", "settling"} => c.result \in Results
    /\ c.pc = "dispatching" => Dispatched(c.auth) /\ sends[PaymentOf(c.auth)] = 0

CallsSound == \A x \in Processes : CallSound(call[x])

\* Every row says of its attempt what AuthorizationSchema accepts.
AttemptsConsistent == \A a \in AuthIds : Issued(a) => AttemptConsistent(authorizations[a])

\* For good, one funding row per payment.
OneRowPerPayment ==
    \A a, b \in AuthIds :
        funding[a] # None /\ funding[b] # None /\ PaymentOf(a) = PaymentOf(b) => a = b

\* No two calls are about to send for the same row.
OneDispatcher ==
    \A x, y \in Processes :
        /\ call[x].pc = "dispatching" /\ call[y].pc = "dispatching"
        /\ call[x].auth = call[y].auth
        => x = y

SpendInv ==
    /\ TypeOK
    /\ CallsSound
    /\ AttemptsConsistent
    /\ OneRowPerPayment
    /\ OneDispatcher
    /\ SendIsOnRecord
    /\ SendAtMostOnce

-----------------------------------------------------------------------------
(* Facts about the operators.                                              *)

\* A row is not the absent row, and an idle call is a call.
LEMMA NoneFacts ==
    /\ \A r \in AuthorizationRows \cup FundingRows : r # None
    /\ Idle \in Calls
  BY SpendAssumption DEF Idle, Calls, ControlStates

\* The payment of an issued Authorization is one of the payments.
LEMMA PaymentTyped ==
    ASSUME TypeOK, NEW a \in AuthIds, Issued(a)
    PROVE  authorizations[a] \in AuthorizationRows /\ PaymentOf(a) \in PaymentHashes
<1>1. authorizations[a] \in AuthorizationRows
  BY DEF TypeOK, Issued
<1> QED
  BY <1>1, SpendAssumption DEF PaymentOf, AuthorizationRows

\* An accepted transition keeps a row a row, its payment and its attempt; what
\* it says of the attempt is consistent, and EXECUTING says it may have begun.
LEMMA TransitionFacts ==
    ASSUME NEW row \in AuthorizationRows, NEW requested \in AuthorizationStatus,
           AttemptConsistent(row), TransitionAccepted(row, requested)
    PROVE  LET next == transitionAuthorization(row, requested) IN
           /\ next \in AuthorizationRows
           /\ next.intent = row.intent /\ next.status = requested
           /\ row.externalActionAttempted => next.externalActionAttempted
           /\ requested = "EXECUTING" => next.externalActionAttempted
           /\ AttemptConsistent(next)
<1>1. CASE requested = row.status
  <2>1. transitionAuthorization(row, requested) = row
    BY <1>1 DEF transitionAuthorization
  <2> QED
    BY <1>1, <2>1 DEF AttemptConsistent
<1>2. CASE requested # row.status
  <2> DEFINE next == transitionAuthorization(row, requested)
             begun == requested \in {"EXECUTING", "SUCCEEDED", "AMBIGUOUS"}
  <2>1. row.externalActionAttempted \in BOOLEAN /\ row.status \in AuthorizationStatus
    BY DEF AuthorizationRows
  <2>2. requested # "AUTHORIZED"
    BY <1>2, <2>1 DEF TransitionAccepted, allowed, AuthorizationStatus
  <2>3. next = [row EXCEPT !.status = requested, !.externalActionAttempted = @ \/ begun]
    BY <1>2 DEF transitionAuthorization
  <2>4. (row.externalActionAttempted \/ begun) \in BOOLEAN
    OBVIOUS
  <2>5. next \in AuthorizationRows
    BY <2>3, <2>4 DEF AuthorizationRows
  <2>6. /\ next.status = requested /\ next.intent = row.intent
        /\ next.externalActionAttempted = (row.externalActionAttempted \/ begun)
    BY <2>3 DEF AuthorizationRows
  <2>7. /\ row.externalActionAttempted => next.externalActionAttempted
        /\ requested = "EXECUTING" => next.externalActionAttempted
    BY <2>6, Zenon
  <2>8. AttemptConsistent(next)
    BY <2>2, <2>6, Zenon DEF AttemptConsistent
  <2> QED
    BY <2>5, <2>6, <2>7, <2>8
<1> QED
  BY <1>1, <1>2

-----------------------------------------------------------------------------
(* Steps other than the Send.                                              *)

\* Nothing is sent, no row disappears, no payment changes, no mark of a
\* dispatched Send is taken back, and every call stays where it was or moves to
\* a step it knows enough for: the invariant stays.
LEMMA StepWithoutSend ==
    ASSUME SpendInv, TypeOK', AttemptsConsistent', OneRowPerPayment',
           sends' = sends,
           \A a \in AuthIds : /\ Issued(a) => Issued(a)' /\ PaymentOf(a)' = PaymentOf(a)
                              /\ funding[a] # None => funding'[a] # None
                              /\ Dispatched(a) => Dispatched(a)',
           \A y \in Processes : \/ call'[y] = call[y]
                                \/ CallSound(call[y])' /\ call'[y].pc # "dispatching"
    PROVE  SpendInv'
<1>1. CallsSound'
  <2> SUFFICES ASSUME NEW y \in Processes, call'[y] = call[y] PROVE CallSound(call[y])'
    BY DEF CallsSound
  <2>1. CallSound(call[y])
    BY DEF SpendInv, CallsSound
  <2> QED
    BY <2>1 DEF CallSound
<1>2. OneDispatcher'
  BY DEF SpendInv, OneDispatcher
<1>3. SendIsOnRecord'
  <2>1. \A a \in AuthIds : funding[a] # None => Issued(a)
    BY DEF SpendInv, TypeOK
  <2> QED
    BY <2>1 DEF SpendInv, SendIsOnRecord, Dispatched
<1>4. SendAtMostOnce'
  BY DEF SpendInv, SendAtMostOnce
<1> QED
  BY <1>1, <1>2, <1>3, <1>4 DEF SpendInv

\* A step that changes one call, and neither a row nor what was sent.
LEMMA CallMoves ==
    ASSUME SpendInv, NEW x \in Processes, NEW c \in Calls,
           call' = [call EXCEPT ![x] = c], CallSound(c), c.pc # "dispatching",
           UNCHANGED <<store, daemon>>, crashes' \in 0..MaxCrashes
    PROVE  SpendInv'
<1> USE DEF store, daemon
<1>1. \A y \in Processes : call'[y] = IF y = x THEN c ELSE call[y]
  BY DEF SpendInv, TypeOK
<1>2. TypeOK'
  <2>1. call' \in [Processes -> Calls]
    BY DEF SpendInv, TypeOK
  <2> QED
    BY <2>1 DEF SpendInv, TypeOK, Issued
<1>3. AttemptsConsistent' /\ OneRowPerPayment'
  BY DEF SpendInv, AttemptsConsistent, OneRowPerPayment, PaymentOf, Issued
<1>4. CallSound(c)'
  BY DEF CallSound, Dispatched, Issued, PaymentOf
<1>5. CallSound(call[x])' /\ call'[x].pc # "dispatching"
  BY <1>1, <1>4 DEF CallSound
<1> QED
  BY <1>1, <1>2, <1>3, <1>5, StepWithoutSend DEF Issued, PaymentOf, Dispatched

\* A call that ends knows nothing any more.
LEMMA CallEnds ==
    ASSUME SpendInv, NEW x \in Processes, Ends(x),
           UNCHANGED <<store, daemon>>, crashes' \in 0..MaxCrashes
    PROVE  SpendInv'
<1>1. CallSound(Idle)
  BY DEF CallSound, Idle
<1> QED
  BY <1>1, NoneFacts, CallMoves DEF Ends, Idle

\* The other steps of a call that write no row and send nothing.
LEMMA CallOnlyStepsKeep ==
    ASSUME SpendInv, NEW x \in Processes,
           \/ StartExecute(x) \/ Prepared(x) \/ AuthorizeKnown(x) \/ Revalidated(x)
           \/ SendAnswered(x) \/ SendUncertain(x) \/ ReadForReconcile(x)
           \/ Inspected(x) \/ InspectedNothing(x) \/ Throws(x) \/ Crash(x)
           \/ \E a \in AuthIds : StartReconcile(x, a)
    PROVE  SpendInv'
<1> DEFINE unmoved == UNCHANGED <<store, daemon>> /\ crashes' \in 0..MaxCrashes
<1>1. crashes \in 0..MaxCrashes /\ call[x] \in Calls /\ CallSound(call[x])
  BY DEF SpendInv, TypeOK, CallsSound
<1>2. ASSUME NEW c \in Calls, CallSound(c), c.pc # "dispatching", unmoved,
             call' = [call EXCEPT ![x] = c]
      PROVE  SpendInv'
  BY <1>2, CallMoves
<1>3. ASSUME NEW pc \in ControlStates \ {"dispatching"}, Goes(x, pc), unmoved,
             CallSound([call[x] EXCEPT !.pc = pc])
      PROVE  SpendInv'
  <2>1. call' = [call EXCEPT ![x] = [call[x] EXCEPT !.pc = pc]]
    BY <1>3 DEF Goes
  <2>2. [call[x] EXCEPT !.pc = pc] \in Calls /\ [call[x] EXCEPT !.pc = pc].pc = pc
    BY <1>1 DEF Calls
  <2> QED
    BY <1>2, <1>3, <2>1, <2>2
<1>4. ASSUME Ends(x), unmoved PROVE SpendInv'
  BY <1>4, CallEnds
<1>5. CASE StartExecute(x)
  <2>1. PICK key \in IdempotencyKeys :
           call' = [call EXCEPT ![x] = [Idle EXCEPT !.pc = "preparing", !.key = key]]
    BY <1>5 DEF StartExecute
  <2> DEFINE c == [Idle EXCEPT !.pc = "preparing", !.key = key]
  <2>2. c \in Calls /\ c.pc = "preparing" /\ c.key = key
    BY DEF Idle, Calls, ControlStates
  <2>3. CallSound(c)
    BY <2>2 DEF CallSound
  <2> QED
    BY <1>1, <1>2, <1>5, <2>1, <2>2, <2>3 DEF StartExecute
<1>6. CASE Prepared(x)
  <2>1. PICK intent \in Intents :
           call' = [call EXCEPT ![x].pc = "authorizing", ![x].intent = intent]
    BY <1>6 DEF Prepared
  <2> DEFINE c == [call[x] EXCEPT !.pc = "authorizing", !.intent = intent]
  <2>2. /\ c \in Calls /\ c.pc = "authorizing" /\ c.intent = intent
        /\ c.key = call[x].key
    BY <1>1 DEF Calls, ControlStates
  <2>3. CallSound(c)
    BY <1>1, <1>6, <2>2 DEF CallSound, Prepared
  <2>4. call' = [call EXCEPT ![x] = c]
    BY <2>1
  <2> QED
    BY <1>1, <1>2, <1>6, <2>2, <2>3, <2>4 DEF Prepared
<1>7. CASE AuthorizeKnown(x)
  <2>1. unmoved
    BY <1>1, <1>7 DEF AuthorizeKnown
  <2>2. PICK a \in Under(call[x].key) :
           IF SameAction(a, call[x].intent)
           THEN Handed(x, a, authorizations[a].status)
           ELSE Ends(x)
    BY <1>7 DEF AuthorizeKnown
  <2>3. a \in AuthIds /\ Issued(a)
    BY DEF Under
  <2>4. CASE ~Ends(x)
    <3> DEFINE pc == IF authorizations[a].status = "AUTHORIZED"
                     THEN "revalidating" ELSE "reconciling"
               c == [Idle EXCEPT !.auth = a, !.pc = pc]
    <3>1. call' = [call EXCEPT ![x] = c]
      BY <2>2, <2>4 DEF Handed
    <3>2. c \in Calls /\ c.pc \in {"revalidating", "reconciling"} /\ c.auth = a
      BY <2>3 DEF Idle, Calls, ControlStates
    <3>3. CallSound(c)
      BY <2>3, <3>2 DEF CallSound
    <3> QED
      BY <1>2, <2>1, <3>1, <3>2, <3>3
  <2> QED
    BY <1>4, <2>1, <2>4
<1>8. CASE Revalidated(x)
  <2>1. CallSound([call[x] EXCEPT !.pc = "beginning"])
    BY <1>1, <1>8 DEF CallSound, Revalidated, Calls
  <2> QED
    BY <1>1, <1>3, <1>8, <2>1 DEF Revalidated, ControlStates
<1>9. CASE SendAnswered(x)
  <2>1. /\ CallSound([call[x] EXCEPT !.pc = "recordingReceipt"])
        /\ CallSound([call[x] EXCEPT !.pc = "reconciling"])
    BY <1>1, <1>9 DEF CallSound, SendAnswered, Calls
  <2> QED
    BY <1>1, <1>3, <1>9, <2>1 DEF SendAnswered, ControlStates
<1>10. CASE SendUncertain(x)
  <2> DEFINE c == [call[x] EXCEPT !.pc = "settling", !.result = "AMBIGUOUS"]
  <2>1. /\ c \in Calls /\ c.pc = "settling" /\ c.result = "AMBIGUOUS"
        /\ c.auth = call[x].auth
    BY <1>1 DEF Calls, ControlStates, Results
  <2>2. CallSound(c)
    BY <1>1, <1>10, <2>1 DEF CallSound, SendUncertain, Results
  <2>3. call' = [call EXCEPT ![x] = c]
    BY <1>10 DEF SendUncertain
  <2> QED
    BY <1>1, <1>2, <1>10, <2>1, <2>2, <2>3 DEF SendUncertain
<1>11. CASE ReadForReconcile(x)
  <2> DEFINE status == authorizations[call[x].auth].status
             c == [call[x] EXCEPT !.pc = "inspecting", !.seen = status]
  <2>1. unmoved
    BY <1>1, <1>11 DEF ReadForReconcile
  <2>2. call[x].auth \in AuthIds /\ Issued(call[x].auth)
    BY <1>1, <1>11 DEF CallSound, ReadForReconcile
  <2>3. status \in AuthorizationStatus
    BY <2>2, PaymentTyped DEF SpendInv, AuthorizationRows
  <2>4. c \in Calls /\ c.pc = "inspecting" /\ c.auth = call[x].auth
    BY <1>1, <2>3 DEF Calls, ControlStates
  <2>5. CallSound(c)
    BY <2>2, <2>4 DEF CallSound
  <2>6. Ends(x) \/ call' = [call EXCEPT ![x] = c]
    BY <1>11 DEF ReadForReconcile
  <2> QED
    BY <1>2, <1>4, <2>1, <2>4, <2>5, <2>6
<1>12. CASE Inspected(x) \/ InspectedNothing(x)
  <2>1. PICK result \in Results :
           call' = [call EXCEPT ![x].pc = "recording", ![x].result = result]
    BY <1>12 DEF Inspected, InspectedNothing, mapReconciliation, Results
  <2> DEFINE c == [call[x] EXCEPT !.pc = "recording", !.result = result]
  <2>2. /\ c \in Calls /\ c.pc = "recording" /\ c.result = result
        /\ c.auth = call[x].auth
    BY <1>1 DEF Calls, ControlStates
  <2>3. CallSound(c)
    BY <1>1, <1>12, <2>2 DEF CallSound, Inspected, InspectedNothing
  <2>4. call' = [call EXCEPT ![x] = c]
    BY <2>1
  <2> QED
    BY <1>1, <1>2, <1>12, <2>2, <2>3, <2>4 DEF Inspected, InspectedNothing
<1>13. CASE Throws(x)
  BY <1>1, <1>4, <1>13 DEF Throws
<1>14. CASE Crash(x)
  <2>1. crashes' \in 0..MaxCrashes
    BY <1>1, <1>14, SpendAssumption DEF Crash
  <2> QED
    BY <1>4, <1>14, <2>1 DEF Crash
<1>15. CASE \E a \in AuthIds : StartReconcile(x, a)
  <2>1. PICK a \in AuthIds : StartReconcile(x, a)
    BY <1>15
  <2> DEFINE c == [Idle EXCEPT !.pc = "reconciling", !.auth = a]
  <2>2. c \in Calls /\ c.pc = "reconciling" /\ c.auth = a
    BY DEF Idle, Calls, ControlStates
  <2>3. CallSound(c)
    BY <2>1, <2>2 DEF CallSound, StartReconcile
  <2> QED
    BY <1>1, <1>2, <2>1, <2>2, <2>3 DEF StartReconcile
<1> QED
  BY <1>5, <1>6, <1>7, <1>8, <1>9, <1>10, <1>11, <1>12, <1>13, <1>14, <1>15

\* A new Authorization: its id was free, so no row and no call knows of it.
LEMMA AuthorizeNewKeeps == ASSUME SpendInv, NEW x \in Processes, AuthorizeNew(x) PROVE SpendInv'
<1> DEFINE row == [key |-> call[x].key, intent |-> call[x].intent, status |-> "AUTHORIZED",
                   externalActionAttempted |-> FALSE]
<1>1. PICK new \in AuthIds : /\ ~Issued(new)
                             /\ authorizations' = [authorizations EXCEPT ![new] = row]
                             /\ Handed(x, new, "AUTHORIZED")
  BY DEF AuthorizeNew
<1>2. UNCHANGED <<permitActive, funding, sends, activity, crashes>>
  BY DEF AuthorizeNew, daemon
<1> DEFINE c == [Idle EXCEPT !.auth = new, !.pc = "revalidating"]
<1>3. row \in AuthorizationRows /\ row # None
  <2>1. call[x].key \in IdempotencyKeys /\ call[x].intent \in Intents
    BY DEF SpendInv, CallsSound, CallSound, AuthorizeNew
  <2>2. row \in AuthorizationRows
    BY <2>1 DEF AuthorizationRows, AuthorizationStatus
  <2> QED
    BY <2>2, NoneFacts
<1>4. \A a \in AuthIds : authorizations'[a] = IF a = new THEN row ELSE authorizations[a]
  BY <1>1 DEF SpendInv, TypeOK
<1>5. /\ call' = [call EXCEPT ![x] = c] /\ c \in Calls
      /\ c.pc = "revalidating" /\ c.auth = new
  BY <1>1 DEF Handed, Idle, Calls, ControlStates
<1>6. \A y \in Processes : call'[y] = IF y = x THEN c ELSE call[y]
  BY <1>5 DEF SpendInv, TypeOK
<1>7. \A a \in AuthIds : /\ Issued(a) => Issued(a)' /\ PaymentOf(a)' = PaymentOf(a)
                         /\ funding[a] # None => Issued(a) /\ a # new
  BY <1>1, <1>4 DEF Issued, PaymentOf, SpendInv, TypeOK
<1>8. TypeOK'
  <2>1. /\ authorizations' \in [AuthIds -> {None} \cup AuthorizationRows]
        /\ call' \in [Processes -> Calls]
    BY <1>1, <1>3, <1>5 DEF SpendInv, TypeOK
  <2>2. \A a \in AuthIds : funding'[a] # None =>
           Issued(a)' /\ authorizations'[a].externalActionAttempted
    BY <1>2, <1>4, <1>7 DEF SpendInv, TypeOK
  <2> QED
    BY <1>2, <2>1, <2>2 DEF SpendInv, TypeOK
<1>9. AttemptsConsistent'
  <2>1. AttemptConsistent(row)
    BY DEF AttemptConsistent
  <2> QED
    BY <1>4, <2>1 DEF SpendInv, AttemptsConsistent, Issued
<1>10. OneRowPerPayment'
  BY <1>2, <1>7 DEF SpendInv, OneRowPerPayment
<1>11. CallSound(call[x])' /\ call'[x].pc # "dispatching"
  BY <1>3, <1>4, <1>5, <1>6 DEF CallSound, Issued
<1> QED
  BY <1>2, <1>6, <1>7, <1>8, <1>9, <1>10, <1>11, StepWithoutSend DEF Dispatched

\* A status that moves on its own, by a call that ends with it or by the
\* operator.
LEMMA StatusMoves ==
    ASSUME SpendInv, NEW a \in AuthIds, Issued(a),
           NEW requested \in AuthorizationStatus,
           TransitionAccepted(authorizations[a], requested),
           authorizations' =
               [authorizations EXCEPT ![a] = transitionAuthorization(@, requested)],
           UNCHANGED <<permitActive, funding, sends, activity, crashes>>,
           \/ call' = call
           \/ \E x \in Processes : Ends(x)
    PROVE  SpendInv'
<1> DEFINE row == authorizations[a]
           next == transitionAuthorization(row, requested)
<1>1. row \in AuthorizationRows /\ AttemptConsistent(row)
  BY PaymentTyped DEF SpendInv, AttemptsConsistent
<1>2. /\ next \in AuthorizationRows /\ next.intent = row.intent /\ next # None
      /\ row.externalActionAttempted => next.externalActionAttempted
      /\ AttemptConsistent(next)
  BY <1>1, TransitionFacts, NoneFacts
<1> HIDE DEF next
<1>3. \A b \in AuthIds : authorizations'[b] = IF b = a THEN next ELSE authorizations[b]
  BY DEF SpendInv, TypeOK, next
<1>4. \A b \in AuthIds : Issued(b) => Issued(b)' /\ PaymentOf(b)' = PaymentOf(b)
  BY <1>2, <1>3 DEF Issued, PaymentOf
<1>5. /\ call' \in [Processes -> Calls]
      /\ \A y \in Processes : call'[y] = call[y] \/ call'[y] = Idle
  BY NoneFacts DEF SpendInv, TypeOK, Ends
<1>6. TypeOK'
  <2>1. authorizations' \in [AuthIds -> {None} \cup AuthorizationRows]
    BY <1>2 DEF SpendInv, TypeOK, next
  <2>2. \A b \in AuthIds : funding'[b] # None =>
           Issued(b)' /\ authorizations'[b].externalActionAttempted
    BY <1>2, <1>3, <1>4 DEF SpendInv, TypeOK
  <2> QED
    BY <1>5, <2>1, <2>2 DEF SpendInv, TypeOK
<1>7. AttemptsConsistent'
  BY <1>2, <1>3 DEF SpendInv, AttemptsConsistent, Issued
<1>8. OneRowPerPayment'
  <2>1. \A b \in AuthIds : funding[b] # None => Issued(b)
    BY DEF SpendInv, TypeOK
  <2> QED
    BY <1>4, <2>1 DEF SpendInv, OneRowPerPayment
<1>9. \A y \in Processes : \/ call'[y] = call[y]
                           \/ CallSound(call[y])' /\ call'[y].pc # "dispatching"
  BY <1>5 DEF CallSound, Idle
<1> QED
  BY <1>4, <1>6, <1>7, <1>8, <1>9, StepWithoutSend DEF Dispatched

\* beginFundingExecution: the new row fits, and its Authorization says by then
\* that the action may have begun.
LEMMA BeginFundingExecutionKeeps ==
    ASSUME SpendInv, NEW x \in Processes, BeginFundingExecution(x) PROVE SpendInv'
<1> DEFINE a == call[x].auth
           row == authorizations[a]
           next == transitionAuthorization(row, "EXECUTING")
           entry == [dispatched |-> FALSE, state |-> "EXECUTING"]
           c == [call[x] EXCEPT !.pc = "marking"]
<1>1. call[x] \in Calls /\ a \in AuthIds /\ Issued(a)
  BY DEF SpendInv, TypeOK, CallsSound, CallSound, BeginFundingExecution
<1>2. /\ TransitionAccepted(row, "EXECUTING") /\ FundingRowFits(a)
      /\ authorizations' = [authorizations EXCEPT ![a] = next]
      /\ funding' = [funding EXCEPT ![a] = entry]
      /\ call' = [call EXCEPT ![x] = c]
      /\ UNCHANGED <<permitActive, sends, activity, crashes>>
  BY DEF BeginFundingExecution, Goes, daemon
<1>3. row \in AuthorizationRows /\ AttemptConsistent(row)
  BY <1>1, PaymentTyped DEF SpendInv, AttemptsConsistent
<1>4. /\ next \in AuthorizationRows /\ next.intent = row.intent /\ next # None
      /\ next.externalActionAttempted /\ AttemptConsistent(next)
  BY <1>2, <1>3, TransitionFacts, NoneFacts DEF AuthorizationStatus
<1>5. entry \in FundingRows /\ entry # None /\ c \in Calls /\ c.pc = "marking" /\ c.auth = a
  BY <1>1, NoneFacts DEF FundingRows, Calls, ControlStates
<1> HIDE DEF next, entry, c
<1>6. /\ \A b \in AuthIds : authorizations'[b] = IF b = a THEN next ELSE authorizations[b]
      /\ \A b \in AuthIds : funding'[b] = IF b = a THEN entry ELSE funding[b]
      /\ \A y \in Processes : call'[y] = IF y = x THEN c ELSE call[y]
  BY <1>2 DEF SpendInv, TypeOK
<1>7. \A b \in AuthIds : Issued(b) => Issued(b)' /\ PaymentOf(b)' = PaymentOf(b)
  BY <1>4, <1>6 DEF Issued, PaymentOf
<1>8. TypeOK'
  <2>1. /\ authorizations' \in [AuthIds -> {None} \cup AuthorizationRows]
        /\ funding' \in [AuthIds -> {None} \cup FundingRows]
        /\ call' \in [Processes -> Calls]
    BY <1>2, <1>4, <1>5 DEF SpendInv, TypeOK
  <2>2. \A b \in AuthIds : funding'[b] # None =>
           Issued(b)' /\ authorizations'[b].externalActionAttempted
    BY <1>1, <1>4, <1>6, <1>7 DEF SpendInv, TypeOK
  <2> QED
    BY <1>2, <2>1, <2>2 DEF SpendInv, TypeOK
<1>9. AttemptsConsistent'
  BY <1>4, <1>6 DEF SpendInv, AttemptsConsistent, Issued
<1>10. OneRowPerPayment'
  <2>1. \A b \in AuthIds : funding[b] # None => Issued(b) /\ PaymentOf(b) # PaymentOf(a)
    BY <1>2 DEF SpendInv, TypeOK, FundingRowFits
  <2>2. \A b \in AuthIds : funding'[b] # None => b = a \/ funding[b] # None
    BY <1>6
  <2>3. \A b \in AuthIds : funding'[b] # None => PaymentOf(b)' = PaymentOf(b)
    BY <1>1, <1>7, <2>1, <2>2
  <2> SUFFICES ASSUME NEW b1 \in AuthIds, NEW b2 \in AuthIds,
                      funding'[b1] # None, funding'[b2] # None,
                      PaymentOf(b1)' = PaymentOf(b2)'
               PROVE  b1 = b2
    BY DEF OneRowPerPayment
  <2> QED
    BY <2>1, <2>2, <2>3 DEF SpendInv, OneRowPerPayment
<1>11. \A b \in AuthIds : /\ funding[b] # None => funding'[b] # None
                          /\ Dispatched(b) => Dispatched(b)'
  BY <1>2, <1>5, <1>6 DEF Dispatched, FundingRowFits
<1>12. CallSound(call[x])' /\ call'[x].pc # "dispatching"
  BY <1>1, <1>5, <1>6, <1>7 DEF CallSound
<1> QED
  BY <1>2, <1>6, <1>7, <1>8, <1>9, <1>10, <1>11, <1>12, StepWithoutSend

\* updateFundingExecution changes what the row says of the inspection, and
\* neither whose it is nor that its Send was dispatched.
LEMMA FundingUpdatesKeep ==
    ASSUME SpendInv, NEW x \in Processes, RecordReceipt(x) \/ RecordInspection(x)
    PROVE  SpendInv'
<1> DEFINE a == call[x].auth
<1>1. /\ call[x] \in Calls /\ a \in AuthIds /\ Issued(a) /\ funding[a] \in FundingRows
      /\ call[x].pc = "recording" => call[x].result \in Results
  <2>1. call[x] \in Calls /\ CallSound(call[x])
    BY DEF SpendInv, TypeOK, CallsSound
  <2>2. a \in AuthIds /\ Issued(a) /\ funding[a] # None
    BY <2>1 DEF CallSound, RecordReceipt, RecordInspection
  <2> QED
    BY <2>1, <2>2 DEF SpendInv, TypeOK, CallSound
<1>2. PICK state \in Results \cup {"SEND_RESPONSE_RECEIVED"} :
         funding' = [funding EXCEPT ![a].state = state]
  BY <1>1 DEF RecordReceipt, RecordInspection
<1>3. UNCHANGED <<permitActive, authorizations, sends, activity, crashes>>
  BY DEF RecordReceipt, RecordInspection, daemon
<1> DEFINE entry == [funding[a] EXCEPT !.state = state]
<1>4. entry \in FundingRows /\ entry.dispatched = funding[a].dispatched /\ entry # None
  BY <1>1, NoneFacts DEF FundingRows
<1>5. \A b \in AuthIds : funding'[b] = IF b = a THEN entry ELSE funding[b]
  BY <1>2 DEF SpendInv, TypeOK
<1> HIDE DEF entry
<1>6. \A b \in AuthIds : /\ funding'[b] # None <=> funding[b] # None
                         /\ Dispatched(b) => Dispatched(b)'
                         /\ Issued(b)' = Issued(b) /\ PaymentOf(b)' = PaymentOf(b)
  BY <1>1, <1>3, <1>4, <1>5, NoneFacts DEF Dispatched, Issued, PaymentOf
<1>7. PICK c \in Calls : /\ call' = [call EXCEPT ![x] = c]
                         /\ c.pc \in {"idle", "reconciling", "settling"}
                         /\ c.pc # "idle" => c.auth = a
                         /\ c.pc = "settling" => c.result \in Results
  <2> DEFINE at(pc) == [call[x] EXCEPT !.pc = pc]
  <2>1. \/ call' = [call EXCEPT ![x] = Idle]
        \/ call' = [call EXCEPT ![x] = at("reconciling")]
        \/ call[x].pc = "recording" /\ call' = [call EXCEPT ![x] = at("settling")]
    BY DEF RecordReceipt, RecordInspection, Goes, Ends
  <2>2. /\ Idle \in Calls /\ Idle.pc = "idle"
        /\ \A pc \in {"reconciling", "settling"} :
              at(pc) \in Calls /\ at(pc).pc = pc /\ at(pc).auth = a
                 /\ at(pc).result = call[x].result
    BY <1>1, NoneFacts DEF Calls, ControlStates, Idle
  <2> HIDE DEF at
  <2> QED
    BY <1>1, <2>1, <2>2
<1>8. \A y \in Processes : call'[y] = IF y = x THEN c ELSE call[y]
  BY <1>7 DEF SpendInv, TypeOK
<1>9. CallSound(call[x])' /\ call'[x].pc # "dispatching"
  BY <1>1, <1>6, <1>7, <1>8 DEF CallSound
<1>10. TypeOK'
  <2>1. /\ funding' \in [AuthIds -> {None} \cup FundingRows]
        /\ call' \in [Processes -> Calls]
    BY <1>2, <1>4, <1>5, <1>7 DEF SpendInv, TypeOK, entry
  <2>2. \A b \in AuthIds : funding'[b] # None =>
           Issued(b)' /\ authorizations'[b].externalActionAttempted
    BY <1>3, <1>6 DEF SpendInv, TypeOK
  <2> QED
    BY <1>3, <2>1, <2>2 DEF SpendInv, TypeOK
<1>11. AttemptsConsistent' /\ OneRowPerPayment'
  BY <1>3, <1>6 DEF SpendInv, AttemptsConsistent, OneRowPerPayment
<1> QED
  BY <1>3, <1>6, <1>8, <1>9, <1>10, <1>11, StepWithoutSend

\* markSendDispatched: the row was not dispatched, so the payment was not sent
\* and no other call is about to.
LEMMA MarkSendDispatchedKeeps ==
    ASSUME SpendInv, NEW x \in Processes, MarkSendDispatched(x) PROVE SpendInv'
<1> DEFINE a == call[x].auth
           entry == [dispatched |-> TRUE, state |-> "SEND_DISPATCHED"]
           c == [call[x] EXCEPT !.pc = "dispatching"]
<1>1. call[x] \in Calls /\ a \in AuthIds /\ Issued(a) /\ funding[a] # None /\ ~Dispatched(a)
  BY DEF SpendInv, TypeOK, CallsSound, CallSound, MarkSendDispatched, Dispatched
<1>2. /\ funding' = [funding EXCEPT ![a] = entry]
      /\ call' = [call EXCEPT ![x] = c]
      /\ UNCHANGED <<permitActive, authorizations, sends, activity, crashes>>
  BY DEF MarkSendDispatched, Goes, daemon
<1>3. entry \in FundingRows /\ entry # None /\ entry.dispatched
  BY NoneFacts DEF FundingRows, Results
<1>4. c \in Calls /\ c.pc = "dispatching" /\ c.auth = a
  BY <1>1 DEF Calls, ControlStates
<1> HIDE DEF entry, c
<1>5. /\ \A b \in AuthIds : funding'[b] = IF b = a THEN entry ELSE funding[b]
      /\ \A y \in Processes : call'[y] = IF y = x THEN c ELSE call[y]
      /\ \A b \in AuthIds : Issued(b)' = Issued(b) /\ PaymentOf(b)' = PaymentOf(b)
  BY <1>2 DEF SpendInv, TypeOK, Issued, PaymentOf
<1>6. \A b \in AuthIds : /\ funding'[b] # None <=> funding[b] # None
                         /\ Dispatched(b)' <=> Dispatched(b) \/ b = a
  BY <1>1, <1>3, <1>5 DEF Dispatched
<1>7. PaymentOf(a) \in PaymentHashes /\ sends[PaymentOf(a)] = 0
  <2>1. PaymentOf(a) \in PaymentHashes
    BY <1>1, PaymentTyped DEF SpendInv
  <2>2. ~(sends[PaymentOf(a)] > 0)
    <3> SUFFICES ASSUME sends[PaymentOf(a)] > 0 PROVE FALSE
      OBVIOUS
    <3>1. PICK b \in AuthIds : Dispatched(b) /\ PaymentOf(b) = PaymentOf(a)
      BY <2>1 DEF SpendInv, SendIsOnRecord, Dispatched
    <3> QED
      BY <1>1, <3>1 DEF SpendInv, OneRowPerPayment, Dispatched
  <2>3. sends[PaymentOf(a)] \in Nat
    BY <2>1, SpendAssumption DEF SpendInv, TypeOK
  <2> QED
    BY <2>1, <2>2, <2>3
<1>8. TypeOK'
  <2>1. /\ funding' \in [AuthIds -> {None} \cup FundingRows]
        /\ call' \in [Processes -> Calls]
    BY <1>2, <1>3, <1>4 DEF SpendInv, TypeOK
  <2>2. \A b \in AuthIds : funding'[b] # None =>
           Issued(b)' /\ authorizations'[b].externalActionAttempted
    BY <1>2, <1>5, <1>6 DEF SpendInv, TypeOK
  <2> QED
    BY <1>2, <2>1, <2>2 DEF SpendInv, TypeOK
<1>9. CallsSound'
  <2> SUFFICES ASSUME NEW y \in Processes PROVE CallSound(call[y])'
    BY DEF CallsSound
  <2>1. CASE y = x
    BY <1>1, <1>2, <1>4, <1>5, <1>6, <1>7, <2>1 DEF CallSound
  <2>2. CASE y # x
    <3>1. call'[y] = call[y] /\ CallSound(call[y])
      BY <1>5, <2>2 DEF SpendInv, CallsSound
    <3> QED
      BY <1>2, <1>5, <1>6, <3>1 DEF CallSound
  <2> QED
    BY <2>1, <2>2
<1>10. OneDispatcher'
  <2>1. \A y \in Processes : call[y].pc = "dispatching" => call[y].auth # a
    BY <1>1 DEF SpendInv, CallsSound, CallSound
  <2> QED
    BY <1>4, <1>5, <2>1 DEF SpendInv, OneDispatcher
<1>11. AttemptsConsistent' /\ OneRowPerPayment'
  BY <1>2, <1>5, <1>6 DEF SpendInv, AttemptsConsistent, OneRowPerPayment
<1>12. SendIsOnRecord' /\ SendAtMostOnce'
  BY <1>2, <1>5, <1>6 DEF SpendInv, SendIsOnRecord, SendAtMostOnce, Dispatched
<1> QED
  BY <1>8, <1>9, <1>10, <1>11, <1>12 DEF SpendInv

\* The Send itself: nothing was sent of this payment, the row says so, and no
\* other call is about to send for that row or another of the payment.
LEMMA DispatchSendKeeps == ASSUME SpendInv, NEW x \in Processes, DispatchSend(x) PROVE SpendInv'
<1> DEFINE a == call[x].auth
           hash == PaymentOf(a)
           c == [call[x] EXCEPT !.pc = "sent"]
<1>1. call[x] \in Calls /\ a \in AuthIds /\ Issued(a) /\ Dispatched(a) /\ sends[hash] = 0
  BY DEF SpendInv, TypeOK, CallsSound, CallSound, DispatchSend, SendLeaves
<1>2. hash \in PaymentHashes
  BY <1>1, PaymentTyped DEF SpendInv
<1>3. /\ sends' = [sends EXCEPT ![hash] = @ + 1] /\ sends[hash] < MaxSends
      /\ call' = [call EXCEPT ![x] = c]
      /\ UNCHANGED <<permitActive, authorizations, funding, activity, crashes>>
  BY DEF DispatchSend, SendLeaves, Goes, store
<1>4. c \in Calls /\ c.pc = "sent" /\ c.auth = a
  BY <1>1 DEF Calls, ControlStates
<1> HIDE DEF c, hash
<1>5. /\ \A h \in PaymentHashes : sends'[h] = IF h = hash THEN 1 ELSE sends[h]
      /\ \A y \in Processes : call'[y] = IF y = x THEN c ELSE call[y]
      /\ \A b \in AuthIds : /\ Issued(b)' = Issued(b) /\ PaymentOf(b)' = PaymentOf(b)
                            /\ Dispatched(b)' = Dispatched(b)
  BY <1>1, <1>2, <1>3 DEF SpendInv, TypeOK, Issued, PaymentOf, Dispatched
<1>6. TypeOK'
  <2>1. 1 \in 0..MaxSends
    BY <1>1, <1>3, SpendAssumption
  <2>2. sends' = [sends EXCEPT ![hash] = 1]
    BY <1>1, <1>3 DEF hash
  <2>3. sends' \in [PaymentHashes -> 0..MaxSends]
    BY <2>1, <2>2 DEF SpendInv, TypeOK
  <2>4. call' \in [Processes -> Calls]
    BY <1>3, <1>4 DEF SpendInv, TypeOK
  <2> QED
    BY <1>3, <2>3, <2>4 DEF SpendInv, TypeOK, Issued
<1>7. CallsSound'
  <2> SUFFICES ASSUME NEW y \in Processes PROVE CallSound(call[y])'
    BY DEF CallsSound
  <2>1. CASE y = x
    BY <1>1, <1>3, <1>4, <1>5, <2>1 DEF CallSound, Dispatched
  <2>2. CASE y # x
    <3>1. call'[y] = call[y] /\ CallSound(call[y])
      BY <1>5, <2>2 DEF SpendInv, CallsSound
    <3>2. call[y].pc = "dispatching" =>
             /\ call[y].auth \in AuthIds /\ Issued(call[y].auth)
             /\ PaymentOf(call[y].auth) # hash
      <4> SUFFICES ASSUME call[y].pc = "dispatching", PaymentOf(call[y].auth) = hash
                   PROVE  FALSE
        BY <3>1 DEF CallSound
      <4>1. call[y].auth \in AuthIds /\ Dispatched(call[y].auth)
        BY <3>1 DEF CallSound
      <4>2. call[y].auth = a
        BY <1>1, <4>1 DEF SpendInv, OneRowPerPayment, Dispatched, hash
      <4> QED
        BY <2>2, <4>2 DEF SpendInv, OneDispatcher, DispatchSend, SendLeaves
    <3>3. call[y].pc = "dispatching" => PaymentOf(call[y].auth) \in PaymentHashes
      BY <3>2, PaymentTyped DEF SpendInv
    <3> QED
      BY <1>3, <1>5, <3>1, <3>2, <3>3 DEF CallSound
  <2> QED
    BY <2>1, <2>2
<1>8. OneDispatcher'
  BY <1>4, <1>5 DEF SpendInv, OneDispatcher
<1>9. AttemptsConsistent' /\ OneRowPerPayment'
  BY <1>3, <1>5 DEF SpendInv, AttemptsConsistent, OneRowPerPayment
<1>10. SendIsOnRecord'
  <2> SUFFICES ASSUME NEW h \in PaymentHashes, sends'[h] > 0
               PROVE  \E b \in AuthIds : Dispatched(b)' /\ PaymentOf(b)' = h
    BY DEF SendIsOnRecord, Dispatched
  <2>1. CASE h = hash
    BY <1>1, <1>5, <2>1 DEF hash
  <2>2. CASE h # hash
    BY <1>5, <2>2 DEF SpendInv, SendIsOnRecord, Dispatched
  <2> QED
    BY <2>1, <2>2
<1>11. SendAtMostOnce'
  BY <1>5 DEF SpendInv, SendAtMostOnce
<1> QED
  BY <1>6, <1>7, <1>8, <1>9, <1>10, <1>11 DEF SpendInv

\* Revocation and what happens at the daemon write none of what the invariant
\* relates.
LEMMA SurroundingsKeep ==
    ASSUME SpendInv,
           Revoke \/ \E hash \in PaymentHashes : DaemonMoves(hash)
    PROVE  SpendInv'
<1>1. UNCHANGED <<authorizations, funding, call, sends, crashes>>
  BY DEF Revoke, DaemonMoves, Pays, Finishes, store, daemon
<1>2. /\ permitActive' \in BOOLEAN
      /\ activity' \in [PaymentHashes -> Entries]
  BY DEF SpendInv, TypeOK, Entries, Revoke, DaemonMoves, Pays, Finishes, store, daemon
<1>3. TypeOK'
  BY <1>1, <1>2 DEF SpendInv, TypeOK, Issued
<1>4. AttemptsConsistent' /\ OneRowPerPayment'
  BY <1>1 DEF SpendInv, AttemptsConsistent, OneRowPerPayment, Issued, PaymentOf
<1> QED
  BY <1>1, <1>3, <1>4, StepWithoutSend DEF Issued, PaymentOf, Dispatched

-----------------------------------------------------------------------------
(* The theorems.                                                           *)

\* The empty store satisfies the invariant.
LEMMA InitEstablishesSpendInv == Init => SpendInv
<1> SUFFICES ASSUME Init PROVE SpendInv
  OBVIOUS
<1> USE DEF Init, DaemonInit, Entries
<1>1. \A a \in AuthIds : ~Issued(a) /\ funding[a] = None
  BY DEF Issued
<1>2. \A x \in Processes : call[x] = Idle /\ call[x].pc = "idle"
  BY DEF Idle
<1>3. TypeOK
  <2>1. 0 \in 0..MaxSends /\ 0 \in 0..MaxCrashes
    BY SpendAssumption
  <2> QED
    BY <1>1, <2>1, NoneFacts DEF TypeOK
<1>4. CallsSound /\ OneDispatcher
  BY <1>2 DEF CallsSound, CallSound, OneDispatcher
<1>5. SendIsOnRecord /\ SendAtMostOnce
  BY DEF SendIsOnRecord, SendAtMostOnce
<1> QED
  BY <1>1, <1>3, <1>4, <1>5 DEF SpendInv, AttemptsConsistent, OneRowPerPayment

\* Every step of a call, of the operator and of the daemon keeps the invariant.
LEMMA NextPreservesSpendInv == SpendInv /\ [Next]_vars => SpendInv'
<1> SUFFICES ASSUME SpendInv, [Next]_vars PROVE SpendInv'
  OBVIOUS
<1>1. CASE UNCHANGED vars
  <2>1. UNCHANGED <<permitActive, authorizations, funding, call, sends, activity, crashes>>
    BY <1>1 DEF vars
  <2>2. TypeOK' /\ AttemptsConsistent' /\ OneRowPerPayment'
    BY <2>1 DEF SpendInv, TypeOK, AttemptsConsistent, OneRowPerPayment, Issued, PaymentOf
  <2> QED
    BY <2>1, <2>2, StepWithoutSend DEF Issued, PaymentOf, Dispatched
<1>2. ASSUME NEW x \in Processes, Settle(x) PROVE SpendInv'
  <2>1. call[x].auth \in AuthIds /\ Issued(call[x].auth)
    BY <1>2 DEF SpendInv, CallsSound, CallSound, Settle
  <2>2. Verdict(call[x].result) \in AuthorizationStatus
    BY DEF Verdict, AuthorizationStatus
  <2> QED
    BY <1>2, <2>1, <2>2, StatusMoves DEF Settle, daemon
<1>3. ASSUME NEW a \in AuthIds, Operator(a) PROVE SpendInv'
  <2>1. PICK requested \in OperatorCommands :
           /\ TransitionAccepted(authorizations[a], requested)
           /\ authorizations' = [authorizations EXCEPT ![a] =
                  transitionAuthorization(@, requested)]
    BY <1>3 DEF Operator
  <2>2. requested \in AuthorizationStatus
    BY SpendAssumption
  <2> QED
    BY <1>3, <2>1, <2>2, StatusMoves DEF Operator, daemon
<1>4. ASSUME NEW x \in Processes, StartExecute(x) \/ Step(x) \/ Crash(x) PROVE SpendInv'
  BY <1>2, <1>4, CallOnlyStepsKeep, AuthorizeNewKeeps, BeginFundingExecutionKeeps,
     MarkSendDispatchedKeeps, DispatchSendKeeps, FundingUpdatesKeep DEF Step
<1>5. ASSUME NEW x \in Processes, NEW a \in AuthIds, StartReconcile(x, a) PROVE SpendInv'
  BY <1>5, CallOnlyStepsKeep
<1> QED
  BY <1>1, <1>3, <1>4, <1>5, SurroundingsKeep DEF Next

\* The invariant holds for good.
THEOREM SpendInvariant == Spec => []SpendInv
<1>1. Init => SpendInv
  BY InitEstablishesSpendInv
<1>2. SpendInv /\ [Next]_vars => SpendInv'
  BY NextPreservesSpendInv
<1> QED
  BY <1>1, <1>2, PTL DEF Spec

\* The rows and the calls stay well-typed, and a funding row is only there for
\* an Authorization that says its action may have begun.
THEOREM SpendTypeCorrect == Spec => []TypeOK
<1>1. SpendInv => TypeOK
  BY DEF SpendInv
<1> QED
  BY <1>1, SpendInvariant, PTL

\* No payment is sent twice, however many calls, keys, crashes and operator
\* commands there are (docs/ARCHITECTURE.md:149).
THEOREM SentAtMostOnce == Spec => []SendAtMostOnce
<1>1. SpendInv => SendAtMostOnce
  BY DEF SpendInv
<1> QED
  BY <1>1, SpendInvariant, PTL

\* What was sent is on record, whenever the process dies.
THEOREM SentIsOnRecord == Spec => []SendIsOnRecord
<1>1. SpendInv => SendIsOnRecord
  BY DEF SpendInv
<1> QED
  BY <1>1, SpendInvariant, PTL

-----------------------------------------------------------------------------
(* The refinement: WavelengthSpend implements PaymentPromise, unless an    *)
(* operator declares an outcome by hand.  A simulated outcome of a payment *)
(* that is not simulated may say what did not happen.                      *)

\* The commands a mainnet operator has: none says how a payment ended.
PlainCommandsOnly == {"SUCCEEDED", "FAILED_SAFE"} \cap OperatorCommands = {}

-----------------------------------------------------------------------------
(* What the mapping needs to know.                                         *)

\* The Authorization stands for a payment that may have been sent: nobody can
\* release it.
Covers(a) ==
    /\ Issued(a)
    /\ authorizations[a].status \in {"EXECUTING", "SUCCEEDED", "AMBIGUOUS"}

RowsCovered == \A a \in AuthIds : funding[a] # None => Covers(a)

\* Success is only of a payment that was made, and so is a call's news of it.
SuccessIsMade ==
    \A a \in AuthIds : Issued(a) /\ authorizations[a].status = "SUCCEEDED" =>
        activity[PaymentOf(a)] = "complete"

\* The call was shown that its payment succeeded.
WasShown(c) == c.pc \in {"recording", "settling"} /\ c.result = "SUCCEEDED"

ShownIsMade ==
    \A x \in Processes : WasShown(call[x]) => activity[PaymentOf(call[x].auth)] = "complete"

MadeWasSent == \A hash \in PaymentHashes : activity[hash] # "none" => sends[hash] > 0

Covered == RowsCovered /\ SuccessIsMade /\ ShownIsMade /\ MadeWasSent

-----------------------------------------------------------------------------
(* The kinds of steps.                                                     *)

\* An Authorization moves to a status it may have.
AuthorizationTurns(a, requested) ==
    /\ Issued(a)
    /\ TransitionAccepted(authorizations[a], requested)
    /\ authorizations' = [authorizations EXCEPT ![a] = transitionAuthorization(@, requested)]
    /\ UNCHANGED daemon

\* All a step may do to the Authorizations, to the set of rows and to the daemon.
LEMMA StepKinds ==
    ASSUME SpendInv, PlainCommandsOnly, ShownIsMade, [Next]_vars
    PROVE  \/ /\ UNCHANGED <<authorizations, daemon>>
              /\ \A a \in AuthIds : funding'[a] # None => funding[a] # None
           \/ \E x \in Processes : AuthorizeNew(x)
           \/ \E x \in Processes : DispatchSend(x)
           \/ \E hash \in PaymentHashes : DaemonMoves(hash)
           \/ \E x \in Processes : BeginFundingExecution(x)
           \/ \E a \in AuthIds : /\ UNCHANGED funding
                                 /\ \/ AuthorizationTurns(a, "EXECUTING")
                                    \/ AuthorizationTurns(a, "AMBIGUOUS")
                                    \/ /\ AuthorizationTurns(a, "RELEASED")
                                       /\ authorizations[a].status # "RELEASED"
                                    \/ /\ AuthorizationTurns(a, "SUCCEEDED")
                                       /\ activity[PaymentOf(a)] = "complete"
<1> USE DEF store
<1>1. ASSUME NEW x \in Processes,
             \/ StartExecute(x) \/ Crash(x) \/ Prepared(x) \/ AuthorizeKnown(x) \/ Revalidated(x)
             \/ SendAnswered(x) \/ SendUncertain(x) \/ ReadForReconcile(x) \/ Inspected(x)
             \/ InspectedNothing(x) \/ Throws(x) \/ \E a \in AuthIds : StartReconcile(x, a)
      PROVE  UNCHANGED <<authorizations, daemon, funding>>
  BY <1>1 DEF StartExecute, Crash, Prepared, AuthorizeKnown, Revalidated, SendAnswered,
     SendUncertain, ReadForReconcile, Inspected, InspectedNothing, Throws, StartReconcile
<1>2. ASSUME NEW x \in Processes,
             MarkSendDispatched(x) \/ RecordReceipt(x) \/ RecordInspection(x)
      PROVE  /\ UNCHANGED <<authorizations, daemon>>
             /\ \A a \in AuthIds : funding'[a] # None => funding[a] # None
  <2>1. UNCHANGED <<authorizations, daemon>>
    BY <1>2 DEF MarkSendDispatched, RecordReceipt, RecordInspection
  <2>2. CallSound(call[x]) /\ funding \in [AuthIds -> {None} \cup FundingRows]
    BY DEF SpendInv, CallsSound, TypeOK
  <2>3. funding[call[x].auth] # None
    BY <1>2, <2>2 DEF CallSound, MarkSendDispatched, RecordReceipt, RecordInspection
  <2>4. \A a \in AuthIds : a # call[x].auth => funding'[a] = funding[a]
    BY <1>2, <2>2 DEF MarkSendDispatched, RecordReceipt, RecordInspection
  <2> QED
    BY <2>1, <2>3, <2>4
<1>3. ASSUME NEW x \in Processes, Settle(x)
      PROVE  \E a \in AuthIds : /\ UNCHANGED funding
                                /\ \/ AuthorizationTurns(a, "AMBIGUOUS")
                                   \/ /\ AuthorizationTurns(a, "SUCCEEDED")
                                      /\ activity[PaymentOf(a)] = "complete"
  <2>1. CallSound(call[x]) /\ call[x].pc = "settling" /\ UNCHANGED <<funding, daemon>>
    BY <1>3 DEF SpendInv, CallsSound, Settle
  <2>2. call[x].auth \in AuthIds /\ Issued(call[x].auth)
    BY <2>1 DEF CallSound
  <2>3. CASE call[x].result = "SUCCEEDED"
    <3>1. AuthorizationTurns(call[x].auth, "SUCCEEDED")
      BY <1>3, <2>2, <2>3 DEF Settle, Verdict, AuthorizationTurns
    <3> QED
      BY <2>1, <2>2, <2>3, <3>1 DEF ShownIsMade, WasShown
  <2>4. CASE call[x].result # "SUCCEEDED"
    <3>1. AuthorizationTurns(call[x].auth, "AMBIGUOUS")
      BY <1>3, <2>2, <2>4 DEF Settle, Verdict, AuthorizationTurns
    <3> QED
      BY <2>1, <2>2, <3>1
  <2> QED
    BY <2>3, <2>4
<1>4. ASSUME NEW a \in AuthIds, Operator(a)
      PROVE  /\ UNCHANGED funding
             /\ \/ AuthorizationTurns(a, "EXECUTING") \/ AuthorizationTurns(a, "AMBIGUOUS")
                \/ AuthorizationTurns(a, "RELEASED") /\ authorizations[a].status # "RELEASED"
  <2>1. PICK requested \in OperatorCommands \ {authorizations[a].status} :
           /\ TransitionAccepted(authorizations[a], requested)
           /\ authorizations' = [authorizations EXCEPT ![a] =
                  transitionAuthorization(@, requested)]
    BY <1>4 DEF Operator
  <2>2. requested \in {"EXECUTING", "AMBIGUOUS", "RELEASED"}
    BY SpendAssumption DEF PlainCommandsOnly, AuthorizationStatus
  <2>3. AuthorizationTurns(a, requested) /\ requested # authorizations[a].status
    BY <1>4, <2>1 DEF Operator, AuthorizationTurns
  <2> QED
    BY <1>4, <2>2, <2>3 DEF Operator
<1>5. CASE Revoke \/ UNCHANGED vars
  BY <1>5 DEF Revoke, vars, daemon
<1> QED
  BY <1>1, <1>2, <1>3, <1>4, <1>5 DEF Next, Step

\* What a turn does: one Authorization moves, from a status that allows it.
LEMMA TurnFacts ==
    ASSUME SpendInv, NEW a \in AuthIds,
           NEW requested \in {"EXECUTING", "AMBIGUOUS", "RELEASED", "SUCCEEDED"},
           AuthorizationTurns(a, requested)
    PROVE  /\ authorizations'[a] # None /\ authorizations'[a].status = requested
           /\ \A b \in AuthIds \ {a} : authorizations'[b] = authorizations[b]
           /\ \A b \in AuthIds : Issued(b)' = Issued(b) /\ (Issued(b) => PaymentOf(b)' = PaymentOf(b))
           /\ Issued(a)
           /\ requested = "EXECUTING" => authorizations[a].status \in {"AUTHORIZED", "EXECUTING"}
           /\ requested = "AMBIGUOUS" => authorizations[a].status \in {"EXECUTING", "AMBIGUOUS"}
           /\ requested = "SUCCEEDED" =>
                 authorizations[a].status \in {"EXECUTING", "AMBIGUOUS", "SUCCEEDED"}
           /\ requested = "RELEASED" =>
                 authorizations[a].status \in {"AUTHORIZED", "FAILED_SAFE", "RELEASED"}
<1> DEFINE next == transitionAuthorization(authorizations[a], requested)
<1>1. /\ authorizations \in [AuthIds -> {None} \cup AuthorizationRows]
      /\ authorizations[a] \in AuthorizationRows /\ AttemptConsistent(authorizations[a])
      /\ Issued(a)
  BY DEF SpendInv, TypeOK, AttemptsConsistent, AuthorizationTurns, Issued
<1>2. requested \in AuthorizationStatus
  BY DEF AuthorizationStatus
<1>3. /\ TransitionAccepted(authorizations[a], requested)
      /\ authorizations' = [authorizations EXCEPT ![a] = next]
  BY DEF AuthorizationTurns
<1>4. /\ next \in AuthorizationRows /\ next.intent = authorizations[a].intent
      /\ next.status = requested /\ next # None
  <2>1. next \in AuthorizationRows /\ next.intent = authorizations[a].intent
        /\ next.status = requested
    BY <1>1, <1>2, <1>3, TransitionFacts
  <2> QED
    BY <2>1, NoneFacts
<1>5. authorizations[a].status \in AuthorizationStatus
  BY <1>1 DEF AuthorizationRows
<1> HIDE DEF next
<1>6. /\ authorizations'[a] = next
      /\ \A b \in AuthIds \ {a} : authorizations'[b] = authorizations[b]
  BY <1>1, <1>3
<1>7. \A b \in AuthIds : Issued(b)' = Issued(b) /\ (Issued(b) => PaymentOf(b)' = PaymentOf(b))
  BY <1>1, <1>4, <1>6 DEF Issued, PaymentOf
<1> QED
  BY <1>1, <1>3, <1>4, <1>5, <1>6, <1>7 DEF TransitionAccepted, allowed, AuthorizationStatus

\* Authority is held by an Authorization that was issued and not released.
LEMMA HoldingFacts ==
    ASSUME SpendInv, NEW a \in AuthIds, NEW hash
    PROVE  /\ a \in Holding(hash) <=>
                 Issued(a) /\ PaymentOf(a) = hash /\ authorizations[a].status # "RELEASED"
           /\ Covers(a) /\ PaymentOf(a) = hash => a \in Holding(hash)
<1>1. Issued(a) => authorizations[a].status \in AuthorizationStatus
  BY DEF SpendInv, TypeOK, AuthorizationRows, Issued
<1> QED
  BY <1>1 DEF Holding, authorizationReservesAuthority, AUTHORITY_RESERVING_STATUSES,
     AuthorizationStatus, Covers

\* A call is shown a success only by inspecting a payment that was made, and keeps what it
\* was shown while it records it.
LEMMA ShownFrom ==
    ASSUME SpendInv, [Next]_vars, NEW y \in Processes, WasShown(call'[y])
    PROVE  /\ call'[y].auth = call[y].auth
           /\ call[y].pc \in {"inspecting", "recording", "settling"}
           /\ WasShown(call[y]) \/ activity[PaymentOf(call[y].auth)] = "complete"
<1> USE DEF WasShown
<1>1. call \in [Processes -> Calls] /\ call[y] \in Calls
  BY DEF SpendInv, TypeOK
<1>2. CASE call'[y] = call[y]
  BY <1>2
<1>3. ASSUME NEW x \in Processes,
             \/ StartExecute(x) \/ Crash(x) \/ Settle(x) \/ Throws(x)
             \/ \E a \in AuthIds : StartReconcile(x, a)
      PROVE  call'[y] = call[y]
  <2>1. ASSUME Ends(x) PROVE call'[y] = call[y]
    BY <1>1, <2>1 DEF Ends, Idle
  <2>2. CASE Crash(x) \/ Settle(x) \/ Throws(x)
    BY <2>1, <2>2 DEF Crash, Settle, Throws
  <2>3. CASE StartExecute(x)
    BY <1>1, <2>3 DEF StartExecute, Idle
  <2>4. CASE \E a \in AuthIds : StartReconcile(x, a)
    BY <1>1, <2>4 DEF StartReconcile, Idle
  <2> QED
    BY <1>3, <2>2, <2>3, <2>4
<1>4. ASSUME NEW x \in Processes,
             \/ Prepared(x) \/ Revalidated(x) \/ SendAnswered(x) \/ SendUncertain(x)
             \/ ReadForReconcile(x) \/ BeginFundingExecution(x) \/ MarkSendDispatched(x)
             \/ DispatchSend(x) \/ RecordReceipt(x)
      PROVE  call'[y] = call[y]
  <2>1. CASE Prepared(x) \/ SendUncertain(x) \/ ReadForReconcile(x)
    BY <1>1, <2>1 DEF Prepared, SendUncertain, ReadForReconcile, Ends, Idle, Calls
  <2>2. CASE Revalidated(x) \/ SendAnswered(x) \/ RecordReceipt(x)
    BY <1>1, <2>2 DEF Revalidated, SendAnswered, RecordReceipt, Goes, Calls
  <2>3. CASE BeginFundingExecution(x) \/ MarkSendDispatched(x) \/ DispatchSend(x)
    BY <1>1, <2>3 DEF BeginFundingExecution, MarkSendDispatched, DispatchSend, Goes, Calls
  <2> QED
    BY <1>4, <2>1, <2>2, <2>3
<1>5. ASSUME NEW x \in Processes, AuthorizeKnown(x) \/ AuthorizeNew(x)
      PROVE  call'[y] = call[y]
  <2>1. PICK a, status : Handed(x, a, status) \/ Ends(x)
    BY <1>5 DEF AuthorizeKnown, AuthorizeNew
  <2> DEFINE pc == IF status = "AUTHORIZED" THEN "revalidating" ELSE "reconciling"
             c == [Idle EXCEPT !.auth = a, !.pc = pc]
  <2>2. Ends(x) \/ call' = [call EXCEPT ![x] = c]
    BY <2>1 DEF Handed
  <2>3. c.pc \in {"revalidating", "reconciling"}
    BY DEF Idle
  <2> HIDE DEF c
  <2>4. CASE Ends(x)
    BY <1>1, <2>4 DEF Ends, Idle
  <2>5. CASE call' = [call EXCEPT ![x] = c]
    BY <1>1, <2>3, <2>5
  <2> QED
    BY <2>2, <2>4, <2>5
<1>6. ASSUME NEW x \in Processes, RecordInspection(x), call'[y] # call[y]
      PROVE  call'[y].auth = call[y].auth /\ WasShown(call[y])
  <2>1. Ends(x) \/ Goes(x, "settling")
    BY <1>6 DEF RecordInspection
  <2>2. y = x /\ ~Ends(x)
    BY <1>1, <1>6, <2>1 DEF Ends, Goes, Idle
  <2>3. call'[y].auth = call[y].auth /\ call'[y].result = call[y].result
    BY <1>1, <2>1, <2>2 DEF Goes, Calls
  <2> QED
    BY <1>6, <2>2, <2>3 DEF RecordInspection
<1>7. ASSUME NEW x \in Processes, Inspected(x) \/ InspectedNothing(x), call'[y] # call[y]
      PROVE  /\ call'[y].auth = call[y].auth /\ call[y].pc = "inspecting"
             /\ activity[PaymentOf(call[y].auth)] = "complete"
  <2>1. y = x
    BY <1>1, <1>7 DEF Inspected, InspectedNothing
  <2>2. call'[y].auth = call[y].auth
    BY <1>1, <1>7, <2>1 DEF Inspected, InspectedNothing, Calls
  <2>3. CASE Inspected(x)
    <3>1. call'[x].result = mapReconciliation(activity[PaymentOf(call[x].auth)])
      BY <1>1, <2>1, <2>3 DEF Inspected, Calls
    <3>2. \A entry : mapReconciliation(entry) = "SUCCEEDED" => entry = "complete"
      BY DEF mapReconciliation
    <3> QED
      BY <1>7, <2>1, <2>2, <2>3, <3>1, <3>2 DEF Inspected
  <2>4. CASE InspectedNothing(x)
    BY <1>1, <2>1, <2>4 DEF InspectedNothing, Calls
  <2> QED
    BY <1>7, <2>1, <2>2, <2>3, <2>4 DEF Inspected, InspectedNothing
<1>8. CASE Revoke \/ UNCHANGED vars \/ (\E a \in AuthIds : Operator(a))
           \/ \E hash \in PaymentHashes : DaemonMoves(hash)
  BY <1>8 DEF Revoke, vars, Operator, DaemonMoves
<1> QED
  BY <1>2, <1>3, <1>4, <1>5, <1>6, <1>7, <1>8 DEF Next, Step

-----------------------------------------------------------------------------
(* What the mapping needs to know stays true.                              *)

\* A new Authorization is AUTHORIZED, of a payment nobody holds.
LEMMA AuthorizeNewFacts ==
    ASSUME SpendInv, NEW x \in Processes, AuthorizeNew(x)
    PROVE  \E a \in AuthIds, hash \in PaymentHashes :
              /\ ~Issued(a) /\ Issued(a)' /\ authorizations'[a].status = "AUTHORIZED"
              /\ PaymentOf(a)' = hash /\ Holding(hash) = {}
              /\ \A b \in AuthIds \ {a} : authorizations'[b] = authorizations[b]
              /\ UNCHANGED <<daemon, funding>>
<1> DEFINE row == [key |-> call[x].key, intent |-> call[x].intent, status |-> "AUTHORIZED",
                   externalActionAttempted |-> FALSE]
<1>1. PICK a \in AuthIds : /\ ~Issued(a)
                           /\ authorizations' = [authorizations EXCEPT ![a] = row]
  BY DEF AuthorizeNew
<1>2. call[x].key \in IdempotencyKeys /\ call[x].intent \in Intents
  BY DEF SpendInv, CallsSound, CallSound, AuthorizeNew
<1>3. row \in AuthorizationRows /\ row.intent = call[x].intent /\ row.status = "AUTHORIZED"
  BY <1>2 DEF AuthorizationRows, AuthorizationStatus
<1>4. row # None
  BY <1>3, NoneFacts
<1>5. HashOf[call[x].intent] \in PaymentHashes /\ Holding(HashOf[call[x].intent]) = {}
      /\ UNCHANGED <<daemon, funding>>
  BY <1>2, SpendAssumption DEF AuthorizeNew, PaymentFree
<1>6. authorizations \in [AuthIds -> {None} \cup AuthorizationRows]
  BY DEF SpendInv, TypeOK
<1> HIDE DEF row
<1>7. /\ authorizations'[a] = row
      /\ \A b \in AuthIds \ {a} : authorizations'[b] = authorizations[b]
  BY <1>1, <1>6
<1> QED
  BY <1>1, <1>3, <1>4, <1>5, <1>7 DEF Issued, PaymentOf

LEMMA CoveredStays ==
    ASSUME SpendInv, SpendInv', PlainCommandsOnly, Covered, [Next]_vars
    PROVE  Covered'
<1>1. \A a \in AuthIds : /\ Issued(a) => Issued(a)' /\ PaymentOf(a)' = PaymentOf(a)
                         /\ Issued(a) => PaymentOf(a) \in PaymentHashes
  <2>1. ASSUME NEW x \in Processes, AuthorizeNew(x), NEW a \in AuthIds, Issued(a)
        PROVE  Issued(a)' /\ PaymentOf(a)' = PaymentOf(a)
    BY <2>1, AuthorizeNewFacts DEF Issued, PaymentOf
  <2>2. ASSUME NEW a \in AuthIds, NEW b \in AuthIds,
               NEW requested \in {"EXECUTING", "AMBIGUOUS", "RELEASED", "SUCCEEDED"},
               AuthorizationTurns(b, requested), Issued(a)
        PROVE  Issued(a)' /\ PaymentOf(a)' = PaymentOf(a)
    BY <2>2, TurnFacts
  <2>3. ASSUME NEW x \in Processes, BeginFundingExecution(x)
        PROVE  \E b \in AuthIds : AuthorizationTurns(b, "EXECUTING")
    BY <2>3 DEF BeginFundingExecution, AuthorizationTurns, SpendInv, CallsSound, CallSound
  <2>4. ASSUME UNCHANGED authorizations, NEW a \in AuthIds, Issued(a)
        PROVE  Issued(a)' /\ PaymentOf(a)' = PaymentOf(a)
    BY <2>4 DEF Issued, PaymentOf
  <2>5. \/ UNCHANGED authorizations \/ (\E x \in Processes : AuthorizeNew(x))
        \/ \E b \in AuthIds : \E requested \in {"EXECUTING", "AMBIGUOUS", "RELEASED", "SUCCEEDED"} :
              AuthorizationTurns(b, requested)
    BY <2>3, StepKinds DEF Covered, DispatchSend, DaemonMoves, store
  <2>6. \A a \in AuthIds : Issued(a) => PaymentOf(a) \in PaymentHashes
    BY PaymentTyped DEF SpendInv
  <2> QED
    BY <2>1, <2>2, <2>4, <2>5, <2>6
<1>2. \A hash \in PaymentHashes : /\ activity[hash] = "complete" => activity'[hash] = "complete"
                                  /\ activity'[hash] # "none" => sends'[hash] > 0
  <2>1. CASE UNCHANGED daemon
    BY <2>1 DEF daemon, Covered, MadeWasSent
  <2>2. ASSUME NEW x \in Processes, DispatchSend(x)
        PROVE  UNCHANGED activity /\ \A hash \in PaymentHashes : sends[hash] > 0 => sends'[hash] > 0
    BY <2>2, SpendAssumption DEF DispatchSend, SendLeaves, SpendInv, TypeOK
  <2>3. ASSUME NEW hash \in PaymentHashes, DaemonMoves(hash)
        PROVE  /\ UNCHANGED sends
               /\ \A other \in PaymentHashes \ {hash} : activity'[other] = activity[other]
               /\ activity[hash] # "complete"
               /\ sends[hash] > 0 \/ activity[hash] # "none"
    BY <2>3 DEF DaemonMoves, Pays, Finishes, SpendInv, TypeOK
  <2>4. \/ UNCHANGED daemon \/ (\E x \in Processes : DispatchSend(x))
        \/ \E hash \in PaymentHashes : DaemonMoves(hash)
    BY StepKinds DEF Covered, AuthorizeNew, BeginFundingExecution, AuthorizationTurns
  <2> QED
    BY <2>1, <2>2, <2>3, <2>4 DEF Covered, MadeWasSent
<1>3. MadeWasSent'
  BY <1>2 DEF MadeWasSent
<1>4. ShownIsMade'
  <2> SUFFICES ASSUME NEW y \in Processes, WasShown(call'[y])
               PROVE  activity'[PaymentOf(call[y].auth)'] = "complete"
    BY DEF ShownIsMade, WasShown
  <2>1. /\ call'[y].auth = call[y].auth
        /\ activity[PaymentOf(call[y].auth)] = "complete"
    BY ShownFrom DEF Covered, ShownIsMade
  <2>2. call[y].auth \in AuthIds /\ Issued(call[y].auth)
    <3>1. CallSound(call[y])
      BY DEF SpendInv, CallsSound
    <3> QED
      BY <3>1, ShownFrom DEF CallSound
  <2> QED
    BY <1>1, <1>2, <2>1, <2>2 DEF PaymentOf
<1>5. RowsCovered' /\ SuccessIsMade'
  <2>1. CASE /\ UNCHANGED authorizations
             /\ \A a \in AuthIds : funding'[a] # None => funding[a] # None
    <3>1. RowsCovered'
      BY <2>1 DEF Covered, RowsCovered, Covers, Issued
    <3>2. SuccessIsMade'
      BY <1>1, <1>2, <2>1 DEF Covered, SuccessIsMade, Issued
    <3> QED
      BY <3>1, <3>2
  <2>2. ASSUME NEW x \in Processes, AuthorizeNew(x) PROVE RowsCovered' /\ SuccessIsMade'
    <3>1. PICK a \in AuthIds :
             /\ ~Issued(a) /\ authorizations'[a].status = "AUTHORIZED"
             /\ \A b \in AuthIds \ {a} : authorizations'[b] = authorizations[b]
             /\ UNCHANGED <<daemon, funding>>
      BY <2>2, AuthorizeNewFacts
    <3>2. funding[a] = None
      BY <3>1 DEF SpendInv, TypeOK
    <3>3. RowsCovered'
      BY <3>1, <3>2 DEF Covered, RowsCovered, Covers, Issued
    <3>4. SuccessIsMade'
      BY <1>1, <1>2, <3>1 DEF Covered, SuccessIsMade, Issued
    <3> QED
      BY <3>3, <3>4
  <2>3. ASSUME NEW a \in AuthIds,
               NEW requested \in {"EXECUTING", "AMBIGUOUS", "RELEASED", "SUCCEEDED"},
               AuthorizationTurns(a, requested),
               requested = "SUCCEEDED" => activity[PaymentOf(a)] = "complete",
               requested = "RELEASED" => authorizations[a].status # "RELEASED",
               \A b \in AuthIds \ {a} : funding'[b] # None => funding[b] # None,
               funding'[a] # None => funding[a] # None \/ requested = "EXECUTING"
        PROVE  RowsCovered' /\ SuccessIsMade'
    <3>1. /\ authorizations'[a] # None /\ authorizations'[a].status = requested
          /\ \A b \in AuthIds \ {a} : authorizations'[b] = authorizations[b]
          /\ Issued(a)
          /\ requested = "RELEASED" => authorizations[a].status \in {"AUTHORIZED", "FAILED_SAFE"}
      BY <2>3, TurnFacts
    <3>2. \A b \in AuthIds \ {a} : Covers(b)' <=> Covers(b)
      BY <3>1 DEF Covers, Issued
    <3>3. funding'[a] # None => Covers(a)'
      <4>1. requested = "RELEASED" => ~Covers(a)
        BY <3>1 DEF Covers
      <4> QED
        BY <2>3, <3>1, <4>1 DEF Covered, RowsCovered, Covers, Issued
    <3>4. RowsCovered'
      BY <2>3, <3>2, <3>3 DEF Covered, RowsCovered
    <3>5. SuccessIsMade'
      BY <1>1, <1>2, <2>3, <3>1 DEF Covered, SuccessIsMade, Issued
    <3> QED
      BY <3>4, <3>5
  <2>4. ASSUME NEW x \in Processes, BeginFundingExecution(x) PROVE RowsCovered' /\ SuccessIsMade'
    <3>1. PICK a \in AuthIds : a = call[x].auth /\ Issued(a)
      BY <2>4 DEF SpendInv, CallsSound, CallSound, BeginFundingExecution
    <3>2. AuthorizationTurns(a, "EXECUTING")
      BY <2>4, <3>1 DEF BeginFundingExecution, AuthorizationTurns
    <3>3. \A b \in AuthIds \ {a} : funding'[b] # None => funding[b] # None
      BY <2>4, <3>1 DEF BeginFundingExecution, SpendInv, TypeOK
    <3> QED
      BY <2>3, <3>2, <3>3
  <2>5. CASE (\E x \in Processes : DispatchSend(x)) \/ \E hash \in PaymentHashes : DaemonMoves(hash)
    BY <2>1, <2>5 DEF DispatchSend, DaemonMoves, store
  <2> QED
    BY <2>1, <2>2, <2>3, <2>4, <2>5, StepKinds DEF Covered
<1> QED
  BY <1>3, <1>4, <1>5 DEF Covered

-----------------------------------------------------------------------------
(* Every step is a step of the promise, or a stutter.                      *)

\* The mapped variables, by what the step leaves alone.
LEMMA Stutters ==
    ASSUME \A hash \in PaymentHashes : Holding(hash)' = {} <=> Holding(hash) = {},
           UNCHANGED sends,
           \A hash \in PaymentHashes : activity'[hash] = "complete" <=> activity[hash] = "complete",
           \A hash \in PaymentHashes : RecordedAsMade(hash)' <=> RecordedAsMade(hash)
    PROVE  UNCHANGED Promise!promise
<1>1. {hash \in PaymentHashes : Holding(hash) # {}}' = {hash \in PaymentHashes : Holding(hash) # {}}
  OBVIOUS
<1>2. {hash \in PaymentHashes : activity[hash] = "complete"}'
      = {hash \in PaymentHashes : activity[hash] = "complete"}
  OBVIOUS
<1>3. {hash \in PaymentHashes : RecordedAsMade(hash)}'
      = {hash \in PaymentHashes : RecordedAsMade(hash)}
  OBVIOUS
<1> QED
  BY <1>1, <1>2, <1>3 DEF Promise!promise

\* A new Authorization, of a payment nobody holds: Reserve.
LEMMA AuthorizeNewReserves ==
    ASSUME SpendInv, NEW x \in Processes, AuthorizeNew(x)
    PROVE  \E hash \in PaymentHashes : Promise!Reserve(hash)
<1>1. PICK a \in AuthIds, hash \in PaymentHashes :
         /\ ~Issued(a) /\ Issued(a)' /\ authorizations'[a].status = "AUTHORIZED"
         /\ PaymentOf(a)' = hash /\ Holding(hash) = {}
         /\ \A b \in AuthIds \ {a} : authorizations'[b] = authorizations[b]
         /\ UNCHANGED <<daemon, funding>>
  BY AuthorizeNewFacts
<1>2. a \in Holding(hash)'
  BY <1>1 DEF Holding, authorizationReservesAuthority, AUTHORITY_RESERVING_STATUSES
<1>3. \A h \in PaymentHashes \ {hash} : Holding(h)' = Holding(h)
  BY <1>1 DEF Holding, Issued, PaymentOf
<1>4. \A h \in PaymentHashes : RecordedAsMade(h)' <=> RecordedAsMade(h)
  BY <1>1 DEF RecordedAsMade, Issued, PaymentOf
<1>5. /\ hash \notin {h \in PaymentHashes : Holding(h) # {}}
      /\ {h \in PaymentHashes : Holding(h) # {}}'
         = {h \in PaymentHashes : Holding(h) # {}} \cup {hash}
  BY <1>1, <1>2, <1>3
<1>6. /\ UNCHANGED sends
      /\ {h \in PaymentHashes : activity[h] = "complete"}'
         = {h \in PaymentHashes : activity[h] = "complete"}
      /\ {h \in PaymentHashes : RecordedAsMade(h)}' = {h \in PaymentHashes : RecordedAsMade(h)}
  BY <1>1, <1>4 DEF daemon
<1> QED
  BY <1>5, <1>6 DEF Promise!Reserve

\* The payment leaves, for the first time and under an Authorization that holds it: Send.
LEMMA DispatchSendSends ==
    ASSUME SpendInv, Covered, NEW x \in Processes, DispatchSend(x)
    PROVE  \E hash \in PaymentHashes : Promise!Send(hash)
<1>1. PICK a \in AuthIds : a = call[x].auth /\ Issued(a) /\ Dispatched(a) /\ sends[PaymentOf(a)] = 0
  BY DEF SpendInv, CallsSound, CallSound, DispatchSend
<1>2. PICK hash \in PaymentHashes : hash = PaymentOf(a)
  BY <1>1, PaymentTyped DEF SpendInv
<1>3. /\ UNCHANGED <<authorizations, activity>> /\ sends' = [sends EXCEPT ![hash] = @ + 1]
      /\ sends[hash] = 0
  BY <1>1, <1>2 DEF DispatchSend, SendLeaves, store
<1>4. sends' = [sends EXCEPT ![hash] = 1]
  BY <1>3
<1>5. a \in Holding(hash)
  BY <1>1, <1>2, HoldingFacts DEF Covered, RowsCovered, Dispatched
<1>6. \A h \in PaymentHashes : Holding(h)' = Holding(h) /\ (RecordedAsMade(h)' <=> RecordedAsMade(h))
  BY <1>3 DEF Holding, RecordedAsMade, Issued, PaymentOf
<1>7. /\ hash \in {h \in PaymentHashes : Holding(h) # {}}
      /\ {h \in PaymentHashes : Holding(h) # {}}' = {h \in PaymentHashes : Holding(h) # {}}
      /\ {h \in PaymentHashes : activity[h] = "complete"}'
         = {h \in PaymentHashes : activity[h] = "complete"}
      /\ {h \in PaymentHashes : RecordedAsMade(h)}' = {h \in PaymentHashes : RecordedAsMade(h)}
  BY <1>3, <1>5, <1>6
<1> QED
  BY <1>3, <1>4, <1>7 DEF Promise!Send

\* The daemon completes a payment that was sent: Make; what else it does stutters.
LEMMA DaemonMakes ==
    ASSUME SpendInv, Covered, NEW hash \in PaymentHashes, DaemonMoves(hash)
    PROVE  Promise!Make(hash) \/ UNCHANGED Promise!promise
<1>1. UNCHANGED <<authorizations, sends>>
  BY DEF DaemonMoves, Pays, Finishes, store
<1>2. \A h \in PaymentHashes : Holding(h)' = Holding(h) /\ (RecordedAsMade(h)' <=> RecordedAsMade(h))
  BY <1>1 DEF Holding, RecordedAsMade, Issued, PaymentOf
<1>3. /\ \A h \in PaymentHashes \ {hash} : activity'[h] = activity[h]
      /\ activity[hash] # "complete" /\ sends[hash] > 0
  BY DEF DaemonMoves, Pays, Finishes, SpendInv, TypeOK, Covered, MadeWasSent
<1>4. CASE activity'[hash] # "complete"
  BY <1>1, <1>2, <1>3, <1>4, Stutters
<1>5. CASE activity'[hash] = "complete"
  <2>1. sends[hash] = 1
    BY <1>3, SpendAssumption DEF SpendInv, TypeOK, SendAtMostOnce
  <2>2. {h \in PaymentHashes : activity[h] = "complete"}'
        = {h \in PaymentHashes : activity[h] = "complete"} \cup {hash}
    BY <1>3, <1>5
  <2>3. /\ {h \in PaymentHashes : Holding(h) # {}}' = {h \in PaymentHashes : Holding(h) # {}}
        /\ {h \in PaymentHashes : RecordedAsMade(h)}' = {h \in PaymentHashes : RecordedAsMade(h)}
    BY <1>2
  <2> QED
    BY <1>1, <2>1, <2>2, <2>3 DEF Promise!Make
<1> QED
  BY <1>4, <1>5

\* A turn changes what is held and what is recorded of its own payment only.
LEMMA TurnsConcernOnePayment ==
    ASSUME SpendInv, NEW a \in AuthIds,
           NEW requested \in {"EXECUTING", "AMBIGUOUS", "RELEASED", "SUCCEEDED"},
           AuthorizationTurns(a, requested)
    PROVE  /\ \A h \in PaymentHashes : h # PaymentOf(a) =>
                 Holding(h)' = Holding(h) /\ (RecordedAsMade(h)' <=> RecordedAsMade(h))
           /\ requested # "RELEASED" => a \in Holding(PaymentOf(a)) /\ a \in Holding(PaymentOf(a))'
           /\ requested # "SUCCEEDED" =>
                 \A h \in PaymentHashes : RecordedAsMade(h)' <=> RecordedAsMade(h)
           /\ UNCHANGED <<sends, activity>>
<1>1. /\ authorizations'[a] # None /\ authorizations'[a].status = requested
      /\ \A b \in AuthIds \ {a} : authorizations'[b] = authorizations[b]
      /\ Issued(a) /\ Issued(a)' /\ PaymentOf(a)' = PaymentOf(a)
      /\ requested # "RELEASED" => authorizations[a].status # "RELEASED"
      /\ requested # "SUCCEEDED" => authorizations[a].status # "SUCCEEDED"
  BY TurnFacts
<1>2. \A b \in AuthIds \ {a} : Issued(b)' = Issued(b) /\ PaymentOf(b)' = PaymentOf(b)
  BY <1>1 DEF Issued, PaymentOf
<1>3. ASSUME NEW h \in PaymentHashes, h # PaymentOf(a)
      PROVE  Holding(h)' = Holding(h) /\ (RecordedAsMade(h)' <=> RecordedAsMade(h))
  <2>1. a \notin Holding(h) /\ a \notin Holding(h)'
    BY <1>1, <1>3 DEF Holding
  <2>2. \A b \in AuthIds \ {a} : b \in Holding(h)' <=> b \in Holding(h)
    BY <1>1, <1>2 DEF Holding
  <2>3. Holding(h)' = Holding(h)
    BY <2>1, <2>2 DEF Holding
  <2>4. RecordedAsMade(h)' <=> RecordedAsMade(h)
    BY <1>1, <1>2, <1>3 DEF RecordedAsMade
  <2> QED
    BY <2>3, <2>4
<1>4. ASSUME requested # "RELEASED"
      PROVE  a \in Holding(PaymentOf(a)) /\ a \in Holding(PaymentOf(a))'
  <2>1. a \in Holding(PaymentOf(a))
    BY <1>1, <1>4, HoldingFacts
  <2>2. a \in Holding(PaymentOf(a))'
    BY <1>1, <1>4 DEF Holding, authorizationReservesAuthority, AUTHORITY_RESERVING_STATUSES
  <2> QED
    BY <2>1, <2>2
<1>5. ASSUME requested # "SUCCEEDED", NEW h \in PaymentHashes
      PROVE  RecordedAsMade(h)' <=> RecordedAsMade(h)
  BY <1>1, <1>2, <1>5 DEF RecordedAsMade
<1>6. UNCHANGED <<sends, activity>>
  BY DEF AuthorizationTurns, daemon
<1> QED
  BY <1>3, <1>4, <1>5, <1>6

\* A turn to EXECUTING or AMBIGUOUS changes neither what is held nor what is recorded.
LEMMA DoubtStutters ==
    ASSUME SpendInv, NEW a \in AuthIds, NEW requested \in {"EXECUTING", "AMBIGUOUS"},
           AuthorizationTurns(a, requested)
    PROVE  UNCHANGED Promise!promise
<1>1. \A h \in PaymentHashes : Holding(h)' = {} <=> Holding(h) = {}
  <2> SUFFICES ASSUME NEW h \in PaymentHashes PROVE Holding(h)' = {} <=> Holding(h) = {}
    OBVIOUS
  <2>1. CASE h = PaymentOf(a)
    <3>1. a \in Holding(PaymentOf(a)) /\ a \in Holding(PaymentOf(a))' /\ PaymentOf(a)' = PaymentOf(a)
      BY TurnsConcernOnePayment, TurnFacts
    <3> QED
      BY <2>1, <3>1 DEF Holding
  <2>2. CASE h # PaymentOf(a)
    BY <2>2, TurnsConcernOnePayment
  <2> QED
    BY <2>1, <2>2
<1> QED
  BY <1>1, TurnsConcernOnePayment, Stutters

\* Success is recorded of a payment that was made and is held: Record.
LEMMA ConfirmationRecords ==
    ASSUME SpendInv, NEW a \in AuthIds, AuthorizationTurns(a, "SUCCEEDED"),
           activity[PaymentOf(a)] = "complete"
    PROVE  \E hash \in PaymentHashes : Promise!Record(hash)
<1>1. PICK hash \in PaymentHashes : hash = PaymentOf(a)
  BY TurnFacts, PaymentTyped DEF SpendInv
<1>2. /\ authorizations'[a].status = "SUCCEEDED" /\ Issued(a)' /\ PaymentOf(a)' = hash
      /\ UNCHANGED <<sends, activity>>
  BY <1>1, TurnFacts, TurnsConcernOnePayment
<1>3. RecordedAsMade(hash)'
  BY <1>2 DEF RecordedAsMade
<1>4. a \in Holding(hash) /\ a \in Holding(hash)'
  <2>1. a \in Holding(PaymentOf(a)) /\ a \in Holding(PaymentOf(a))'
    BY TurnsConcernOnePayment
  <2> QED
    BY <1>1, <1>2, <2>1 DEF Holding
<1>5. \A h \in PaymentHashes \ {hash} :
          Holding(h)' = Holding(h) /\ (RecordedAsMade(h)' <=> RecordedAsMade(h))
  BY <1>1, TurnsConcernOnePayment
<1>6. /\ hash \in {h \in PaymentHashes : Holding(h) # {}}
      /\ hash \in {h \in PaymentHashes : activity[h] = "complete"}
      /\ {h \in PaymentHashes : Holding(h) # {}}' = {h \in PaymentHashes : Holding(h) # {}}
  BY <1>1, <1>4, <1>5
<1>7. {h \in PaymentHashes : RecordedAsMade(h)}'
      = {h \in PaymentHashes : RecordedAsMade(h)} \cup {hash}
  BY <1>3, <1>5
<1>8. {h \in PaymentHashes : activity[h] = "complete"}'
      = {h \in PaymentHashes : activity[h] = "complete"}
  BY <1>2
<1> QED
  BY <1>2, <1>6, <1>7, <1>8 DEF Promise!Record

\* A release hands the authority back only of a payment that was not sent: Return.
LEMMA ReleaseReturns ==
    ASSUME SpendInv, Covered, NEW a \in AuthIds, AuthorizationTurns(a, "RELEASED"),
           authorizations[a].status # "RELEASED"
    PROVE  (\E hash \in PaymentHashes : Promise!Return(hash)) \/ UNCHANGED Promise!promise
<1>1. PICK hash \in PaymentHashes : hash = PaymentOf(a)
  BY TurnFacts, PaymentTyped DEF SpendInv
<1>2. /\ authorizations'[a].status = "RELEASED" /\ Issued(a) /\ PaymentOf(a)' = hash
      /\ authorizations[a].status \in {"AUTHORIZED", "FAILED_SAFE"}
      /\ \A b \in AuthIds \ {a} : authorizations'[b] = authorizations[b]
      /\ UNCHANGED <<sends, activity>>
  BY <1>1, TurnFacts, TurnsConcernOnePayment
<1>3. a \in Holding(hash)
  BY <1>1, <1>2, HoldingFacts
<1>4. /\ \A h \in PaymentHashes \ {hash} : Holding(h)' = Holding(h)
      /\ \A h \in PaymentHashes : RecordedAsMade(h)' <=> RecordedAsMade(h)
  BY <1>1, TurnsConcernOnePayment
<1>5. CASE Holding(hash)' # {}
  BY <1>2, <1>3, <1>4, <1>5, Stutters
<1>6. CASE Holding(hash)' = {}
  <2>1. ASSUME sends[hash] > 0 PROVE FALSE
    <3>1. PICK b \in AuthIds : Covers(b) /\ PaymentOf(b) = hash
      BY <2>1 DEF SpendInv, SendIsOnRecord, Covered, RowsCovered
    <3>2. b # a
      BY <1>2, <3>1 DEF Covers
    <3>3. b \in Holding(hash)'
      BY <1>2, <3>1, <3>2 DEF Covers, Holding, authorizationReservesAuthority,
         AUTHORITY_RESERVING_STATUSES, Issued, PaymentOf
    <3> QED
      BY <1>6, <3>3
  <2>2. sends[hash] = 0
    BY <2>1, SpendAssumption DEF SpendInv, TypeOK
  <2>3. /\ hash \in {h \in PaymentHashes : Holding(h) # {}}
        /\ {h \in PaymentHashes : Holding(h) # {}}'
           = {h \in PaymentHashes : Holding(h) # {}} \ {hash}
    BY <1>3, <1>4, <1>6
  <2>4. /\ {h \in PaymentHashes : activity[h] = "complete"}'
           = {h \in PaymentHashes : activity[h] = "complete"}
        /\ {h \in PaymentHashes : RecordedAsMade(h)}' = {h \in PaymentHashes : RecordedAsMade(h)}
    BY <1>2, <1>4
  <2> QED
    BY <1>2, <2>2, <2>3, <2>4 DEF Promise!Return
<1> QED
  BY <1>5, <1>6

LEMMA StepMaps ==
    ASSUME SpendInv, PlainCommandsOnly, Covered, [Next]_vars
    PROVE  [Promise!PromiseNext]_(Promise!promise)
<1>1. CASE UNCHANGED <<authorizations, daemon>>
  BY <1>1, Stutters DEF daemon, Holding, RecordedAsMade, Issued, PaymentOf
<1>2. ASSUME NEW x \in Processes, BeginFundingExecution(x) PROVE UNCHANGED Promise!promise
  <2>1. PICK a \in AuthIds : a = call[x].auth /\ Issued(a)
    BY <1>2 DEF SpendInv, CallsSound, CallSound, BeginFundingExecution
  <2>2. AuthorizationTurns(a, "EXECUTING")
    BY <1>2, <2>1 DEF BeginFundingExecution, AuthorizationTurns
  <2> QED
    BY <2>2, DoubtStutters
<1>3. CASE \E p \in PaymentHashes : \/ Promise!Reserve(p) \/ Promise!Return(p) \/ Promise!Send(p)
                                    \/ Promise!Make(p) \/ Promise!Record(p)
  BY <1>3 DEF Promise!PromiseNext
<1> QED
  BY <1>1, <1>2, <1>3, StepKinds, AuthorizeNewReserves, DispatchSendSends, DaemonMakes,
     DoubtStutters, ConfirmationRecords, ReleaseReturns DEF Covered

LEMMA InitMaps == Init => Promise!PromiseInit /\ Covered
<1> SUFFICES ASSUME Init PROVE Promise!PromiseInit /\ Covered
  OBVIOUS
<1>1. /\ \A a \in AuthIds : ~Issued(a) /\ funding[a] = None
      /\ \A hash \in PaymentHashes : activity[hash] = "none"
      /\ \A x \in Processes : call[x].pc = "idle"
  BY DEF Init, DaemonInit, Issued, Idle
<1>2. Covered
  BY <1>1 DEF Covered, RowsCovered, SuccessIsMade, ShownIsMade, WasShown, MadeWasSent
<1>3. \A hash \in PaymentHashes : Holding(hash) = {} /\ ~RecordedAsMade(hash)
  BY <1>1 DEF Holding, RecordedAsMade
<1>4. /\ {h \in PaymentHashes : Holding(h) # {}} = {}
      /\ sends = [p \in PaymentHashes |-> 0]
      /\ {h \in PaymentHashes : activity[h] = "complete"} = {}
      /\ {h \in PaymentHashes : RecordedAsMade(h)} = {}
  BY <1>1, <1>3 DEF Init, DaemonInit
<1> QED
  BY <1>2, <1>4 DEF Promise!PromiseInit

-----------------------------------------------------------------------------
(* The theorem.                                                            *)

\* executeSignet and reconcile keep the promise made of payments: authority is
\* held from before the Send for good, the Send happens once, and success is
\* recorded only of a payment that was made; unless an operator declares the
\* outcome by hand, and whatever else he releases or calls in doubt.
THEOREM SpendKeepsPromise ==
    ASSUME PlainCommandsOnly PROVE Spec => PromiseKept
<1>1. Init => SpendInv /\ Covered /\ Promise!PromiseInit
  BY InitEstablishesSpendInv, InitMaps
<1>2. SpendInv /\ Covered /\ [Next]_vars => SpendInv' /\ Covered'
  BY NextPreservesSpendInv, CoveredStays
<1>3. SpendInv /\ Covered /\ [Next]_vars => [Promise!PromiseNext]_(Promise!promise)
  BY StepMaps
<1> QED
  BY <1>1, <1>2, <1>3, PTL DEF Spec, PromiseKept, Promise!PromiseSpec

=============================================================================
