----------------------------- MODULE GiftCardProofs -----------------------------
(***************************************************************************)
(* Theorems about GiftCardAcquisition, for every set of keys, processes    *)
(* and reconcilers, any number of crashes and every command of the         *)
(* operator; and, with no outcome declared by hand, that it implements     *)
(* PaymentPromise.                                                         *)
(***************************************************************************)
EXTENDS GiftCardAcquisition, TLAPS

-----------------------------------------------------------------------------
(* The inductive invariant.                                                *)

\* The steps from an Authorization of the transfer to its Send.
ToSend == {"savingIds", "reading", "revalidating", "instrumenting", "funding", "marking",
           "dispatching"}

\* The call has the mark of the Send and saves it to the record.
SavesDispatch(c) == c.pc = "saving" /\ c.write = "SEND_DISPATCHED"

\* The call authorized the transfer below c.auth and has not sent the payment.
Buying(c) == c.pc \in ToSend \/ SavesDispatch(c)

\* What a call knows at each of its steps: the record is there; which
\* Authorizations are, below them which execution rows; what the shop, the disk and
\* the daemon have shown it.  No later step of anybody makes it untrue.
CallSound(c) ==
    /\ c.pc \notin {"idle", "beginning"} => acquisition # None
    /\ c.pc \in {"beginning", "claiming", "rereading", "posting", "posted", "checking",
                 "preparing", "authorizing"} => c.key \in Keys
    /\ c.auth # None => acquireAuths[c.auth] # None
    /\ c.auth # None /\ c.pc # "transferring" => transferAuths[c.auth] # None
    /\ Buying(c) \/ c.pc \in {"transferring", "sent", "inspecting", "confirming", "doubting"} =>
          c.auth \in Keys
    /\ c.pc \in {"funding", "marking", "dispatching"} \/ SavesDispatch(c) => instruments[c.auth]
    /\ c.pc = "marking" => funding[c.auth] # "none"
    /\ c.pc = "dispatching" \/ SavesDispatch(c) => funding[c.auth] = "dispatched"
    /\ c.pc = "posting" => InvoicePosted
    /\ c.pc = "confirming" => activity[Payment] = "complete"
    /\ c.pc \in {"storing", "crediting"} \/ (c.pc = "saving" /\ c.write = "SUCCEEDED") =>
          shop = "delivered"
    /\ c.pc = "crediting" \/ (c.pc = "saving" /\ c.write = "SUCCEEDED") => secret
    /\ c.pc = "saving" => c.write \in AcquisitionStatus

CallsSound == \A x \in Processes : CallSound(call[x])

\* Every row says of its attempt what AuthorizationSchema accepts.
AttemptsConsistent ==
    \A k \in Keys :
        /\ acquireAuths[k] # None => AttemptConsistent(acquireAuths[k])
        /\ transferAuths[k] # None => AttemptConsistent(transferAuths[k])

\* One claim, one call to post, and nothing posted before the claim.
OnePoster ==
    /\ \A x, y \in Processes : call[x].pc = "posting" /\ call[y].pc = "posting" => x = y
    /\ \A x \in Processes : call[x].pc = "posting" => posts = 0
    /\ posts > 0 => InvoicePosted

\* One call at a time buys under an Authorization.
OneBuyer ==
    \A x, y \in Processes :
        Buying(call[x]) /\ Buying(call[y]) /\ call[x].auth = call[y].auth => x = y

\* For good, one funding row of the payment.
OneFundingRow ==
    \A j, k \in Keys : funding[j] # "none" /\ funding[k] # "none" => j = k

\* The payment left under an Authorization with all its marks, and the call that
\* sent it buys no more.
SentAndDone ==
    sends[Payment] > 0 =>
        \E k \in Keys : /\ funding[k] = "dispatched" /\ instruments[k]
                        /\ \A x \in Processes : Buying(call[x]) => call[x].auth # k

GiftInv ==
    /\ TypeOK
    /\ CallsSound
    /\ AttemptsConsistent
    /\ OnePoster
    /\ OneBuyer
    /\ OneFundingRow
    /\ SentAndDone
    /\ InvoicePostedOnce
    /\ sends[Payment] <= 1
    /\ SucceededMeansDelivered

-----------------------------------------------------------------------------
(* Facts about the operators.                                              *)

\* A row is not the absent row, and an idle call is a call.
LEMMA NoneFacts ==
    /\ \A r \in AuthorizationRows \cup AcquisitionRows \cup Keys : r # None
    /\ Idle \in Calls /\ Idle.pc = "idle"
    /\ NewAuthorization \in AuthorizationRows /\ AttemptConsistent(NewAuthorization)
  BY AcquisitionAssumption DEF Idle, Calls, ControlStates, NewAuthorization,
     AuthorizationRows, AuthorizationStatus, AttemptConsistent

\* An accepted transition keeps a row a row; what it says of the attempt is
\* consistent, is not taken back, and EXECUTING says that it may have begun.
LEMMA TransitionFacts ==
    ASSUME NEW row \in AuthorizationRows, NEW requested \in AuthorizationStatus,
           AttemptConsistent(row), TransitionAccepted(row, requested)
    PROVE  LET next == transitionAuthorization(row, requested) IN
           /\ next \in AuthorizationRows /\ next # None
           /\ next.status = requested
           /\ row.externalActionAttempted => next.externalActionAttempted
           /\ requested = "EXECUTING" => next.externalActionAttempted
           /\ AttemptConsistent(next)
<1>1. CASE requested = row.status
  <2>1. transitionAuthorization(row, requested) = row
    BY <1>1 DEF transitionAuthorization
  <2> QED
    BY <1>1, <2>1, NoneFacts DEF AttemptConsistent
<1>2. CASE requested # row.status
  <2> DEFINE next == transitionAuthorization(row, requested)
             begun == requested \in {"EXECUTING", "SUCCEEDED", "AMBIGUOUS"}
  <2>1. row.externalActionAttempted \in BOOLEAN /\ row.status \in AuthorizationStatus
    BY DEF AuthorizationRows
  <2>2. requested # "AUTHORIZED"
    BY <1>2, <2>1 DEF TransitionAccepted, allowed, AuthorizationStatus
  <2>3. next = [row EXCEPT !.status = requested, !.externalActionAttempted = @ \/ begun]
    BY <1>2 DEF transitionAuthorization
  <2>4. (row.externalActionAttempted \/ begun) \in BOOLEAN
    OBVIOUS
  <2>5. next \in AuthorizationRows
    BY <2>3, <2>4 DEF AuthorizationRows
  <2>6. /\ next.status = requested
        /\ next.externalActionAttempted = (row.externalActionAttempted \/ begun)
    BY <2>3 DEF AuthorizationRows
  <2>7. /\ row.externalActionAttempted => next.externalActionAttempted
        /\ requested = "EXECUTING" => next.externalActionAttempted
    BY <2>6, Zenon
  <2>8. AttemptConsistent(next)
    BY <2>2, <2>6, Zenon DEF AttemptConsistent
  <2> QED
    BY <2>5, <2>6, <2>7, <2>8, NoneFacts
<1> QED
  BY <1>1, <1>2

-----------------------------------------------------------------------------
(* Steps that neither claim, nor ask the shop, nor authorize a transfer,   *)
(* nor send.                                                               *)

\* What no step ever takes back.
Grows ==
    /\ acquisition # None => acquisition' # None
    /\ InvoicePosted => InvoicePosted'
    /\ \A k \in Keys :
          /\ acquireAuths[k] # None => acquireAuths'[k] # None
          /\ transferAuths[k] # None => transferAuths'[k] # None
          /\ instruments[k] => instruments'[k]
          /\ funding[k] # "none" => funding'[k] # "none"
          /\ funding[k] = "dispatched" => funding'[k] = "dispatched"
    /\ secret => secret'
    /\ shop = "delivered" => shop' = "delivered"
    /\ activity[Payment] = "complete" => activity'[Payment] = "complete"

\* What a call knows stays true.
LEMMA KnowledgeStays ==
    ASSUME Grows, NEW c \in Calls, CallSound(c) PROVE CallSound(c)'
<1>1. c.auth \in Keys \cup {None}
  BY DEF Calls
<1>2. /\ c.auth # None => acquireAuths'[c.auth] # None
      /\ c.auth # None /\ c.pc # "transferring" => transferAuths'[c.auth] # None
  BY <1>1 DEF Grows, CallSound
<1>3. /\ c.pc \in {"funding", "marking", "dispatching"} \/ SavesDispatch(c) => instruments'[c.auth]
      /\ c.pc = "marking" => funding'[c.auth] # "none"
      /\ c.pc = "dispatching" \/ SavesDispatch(c) => funding'[c.auth] = "dispatched"
  <2> SUFFICES ASSUME c.pc \in {"funding", "marking", "dispatching"} \/ SavesDispatch(c)
               PROVE  /\ instruments'[c.auth]
                      /\ c.pc = "marking" => funding'[c.auth] # "none"
                      /\ c.pc = "dispatching" \/ SavesDispatch(c) => funding'[c.auth] = "dispatched"
    OBVIOUS
  <2>1. c.auth \in Keys
    BY DEF CallSound, Buying, ToSend
  <2> QED
    BY <2>1 DEF Grows, CallSound
<1> QED
  BY <1>2, <1>3 DEF Grows, CallSound, Buying, SavesDispatch

\* The calls stay where they were or move to a step they know enough for, and none
\* of them comes to post or to buy.
CallsGoOn ==
    \A y \in Processes :
        \/ call'[y] = call[y]
        \/ /\ CallSound(call[y])'
           /\ call'[y].pc # "posting"
           /\ Buying(call'[y]) => Buying(call[y]) /\ call'[y].auth = call[y].auth

LEMMA QuietStep ==
    ASSUME GiftInv, TypeOK', AttemptsConsistent', Grows, CallsGoOn,
           posts' = posts, sends'[Payment] = sends[Payment], OneFundingRow',
           SucceededMeansDelivered'
    PROVE  GiftInv'
<1>1. \A y \in Processes : call[y] \in Calls /\ CallSound(call[y])
  BY DEF GiftInv, TypeOK, CallsSound
<1>2. CallsSound'
  <2> SUFFICES ASSUME NEW y \in Processes PROVE CallSound(call[y])'
    BY DEF CallsSound
  <2>1. CASE call'[y] = call[y]
    <3>1. CallSound(call[y])
      BY <1>1
    <3>2. \A c \in Calls : CallSound(c) => CallSound(c)'
      BY KnowledgeStays
    <3> QED
      BY <1>1, <2>1, <3>1, KnowledgeStays
  <2> QED
    BY <2>1 DEF CallsGoOn
<1>3. OnePoster'
  BY DEF GiftInv, OnePoster, CallsGoOn, Grows
<1>4. OneBuyer'
  BY DEF GiftInv, OneBuyer, CallsGoOn
<1>5. SentAndDone'
  BY DEF GiftInv, SentAndDone, CallsGoOn, Grows
<1> QED
  BY <1>2, <1>3, <1>4, <1>5 DEF GiftInv, InvoicePostedOnce

-----------------------------------------------------------------------------
(* Steps that only move a call.                                            *)

\* A step that changes one call and nothing else, not to post or to buy anew.
LEMMA CallMoves ==
    ASSUME GiftInv, NEW x \in Processes, NEW c \in Calls,
           call' = [call EXCEPT ![x] = c], CallSound(c), c.pc # "posting",
           Buying(c) => Buying(call[x]) /\ c.auth = call[x].auth,
           UNCHANGED <<store, secret, outside>>, mishaps' \in 0..MaxMishaps
    PROVE  GiftInv'
<1> USE DEF store, auths, executions, outside, daemon
<1>1. \A y \in Processes : call'[y] = IF y = x THEN c ELSE call[y]
  BY DEF GiftInv, TypeOK
<1>2. TypeOK'
  <2>1. call' \in [Processes -> Calls]
    BY DEF GiftInv, TypeOK
  <2> QED
    BY <2>1 DEF GiftInv, TypeOK
<1>3. AttemptsConsistent' /\ OneFundingRow' /\ SucceededMeansDelivered'
  BY DEF GiftInv, AttemptsConsistent, OneFundingRow, SucceededMeansDelivered
<1>4. Grows
  BY DEF Grows, InvoicePosted
<1>5. CallSound(c)'
  BY <1>4, KnowledgeStays
<1>6. CallsGoOn
  BY <1>1, <1>5 DEF CallsGoOn, CallSound, Buying, SavesDispatch
<1> QED
  BY <1>2, <1>3, <1>4, <1>6, QuietStep

\* The ways in which a call moves on: it ends, goes on with what it knows, is about to
\* write a status, or goes on from the record.
LEMMA EndsKeeps ==
    ASSUME GiftInv, NEW x \in Processes, Ends(x),
           UNCHANGED <<store, secret, outside>>, mishaps' \in 0..MaxMishaps
    PROVE  GiftInv'
<1>1. CallSound(Idle) /\ ~Buying(Idle)
  BY DEF CallSound, Idle, Buying, SavesDispatch, ToSend
<1> QED
  BY <1>1, NoneFacts, CallMoves DEF Ends

LEMMA GoesKeeps ==
    ASSUME GiftInv, NEW x \in Processes, NEW pc \in ControlStates, Goes(x, pc), UNCHANGED world,
           CallSound([call[x] EXCEPT !.pc = pc]), pc # "posting", pc # "saving",
           pc \in ToSend => call[x].pc \in ToSend
    PROVE  GiftInv'
<1> DEFINE c == [call[x] EXCEPT !.pc = pc]
<1>1. call[x] \in Calls /\ mishaps \in 0..MaxMishaps
  BY DEF GiftInv, TypeOK
<1>2. c \in Calls /\ c.pc = pc /\ c.auth = call[x].auth
  BY <1>1 DEF Calls
<1>3. Buying(c) => Buying(call[x]) /\ c.auth = call[x].auth
  BY <1>2 DEF Buying, SavesDispatch
<1>4. call' = [call EXCEPT ![x] = c]
  BY DEF Goes
<1> QED
  BY <1>1, <1>2, <1>3, <1>4, CallMoves DEF world

LEMMA WritesKeeps ==
    ASSUME GiftInv, NEW x \in Processes, NEW status \in AcquisitionStatus \ {"SEND_DISPATCHED"},
           Writes(x, status), UNCHANGED world,
           acquisition # None \/ call[x].pc \notin {"idle", "beginning"},
           call[x].pc # "transferring",
           status = "SUCCEEDED" => secret /\ shop = "delivered"
    PROVE  GiftInv'
<1> DEFINE c == [call[x] EXCEPT !.pc = "saving", !.write = status]
<1>1. call[x] \in Calls /\ mishaps \in 0..MaxMishaps /\ CallSound(call[x])
  BY DEF GiftInv, TypeOK, CallsSound
<1>2. c \in Calls /\ c.pc = "saving" /\ c.write = status /\ c.auth = call[x].auth
  BY <1>1 DEF Calls, ControlStates
<1>3. CallSound(c) /\ ~Buying(c)
  BY <1>1, <1>2 DEF CallSound, Buying, SavesDispatch, ToSend
<1>4. call' = [call EXCEPT ![x] = c]
  BY DEF Writes
<1> QED
  BY <1>1, <1>2, <1>3, <1>4, CallMoves DEF world

\* reconcileSystems by the record that was just read.
LEMMA ReconcilesKeeps ==
    ASSUME GiftInv, NEW x \in Processes, acquisition # None, Reconciles(x, acquisition),
           UNCHANGED world, call[x].auth = None \/ call[x].pc # "transferring"
    PROVE  GiftInv'
<1> DEFINE asks == [call[x] EXCEPT !.pc = "consuming", !.auth = acquisition.auth]
           doubts == [call[x] EXCEPT !.pc = "saving", !.write = "RECONCILIATION_REQUIRED"]
<1>1. /\ call[x] \in Calls /\ mishaps \in 0..MaxMishaps /\ CallSound(call[x])
      /\ acquisition.auth \in Keys \cup {None}
      /\ acquisition.auth # None => /\ transferAuths[acquisition.auth] # None
                                    /\ acquireAuths[acquisition.auth] # None
  BY DEF GiftInv, TypeOK, CallsSound, AcquisitionRows
<1>2. /\ asks \in Calls /\ asks.pc = "consuming" /\ asks.auth = acquisition.auth
      /\ doubts \in Calls /\ doubts.pc = "saving" /\ doubts.auth = call[x].auth
      /\ doubts.write = "RECONCILIATION_REQUIRED"
  BY <1>1 DEF Calls, ControlStates, AcquisitionStatus
<1>3. CallSound(asks) /\ ~Buying(asks)
  BY <1>1, <1>2 DEF CallSound, Buying, SavesDispatch, ToSend
<1>4. CallSound(doubts) /\ ~Buying(doubts)
  BY <1>1, <1>2 DEF CallSound, Buying, SavesDispatch, ToSend, AcquisitionStatus
<1>5. call' = [call EXCEPT ![x] = asks] \/ call' = [call EXCEPT ![x] = doubts]
  BY DEF Reconciles, GoesOn, Writes
<1> QED
  BY <1>1, <1>2, <1>3, <1>4, <1>5, CallMoves DEF world

\* The steps of acquire that write nothing.
LEMMA AcquireCallStepsKeep ==
    ASSUME GiftInv, NEW x \in Processes,
           \/ StartAcquire(x) \/ InvoiceFailed(x) \/ InvoiceStillUnpaid(x) \/ ReadForSend(x)
           \/ Revalidated(x) \/ SendAnswered(x) \/ SendUncertain(x) \/ Throws(x) \/ Crash(x)
    PROVE  GiftInv'
<1>1. call[x] \in Calls /\ mishaps \in 0..MaxMishaps /\ CallSound(call[x])
  BY DEF GiftInv, TypeOK, CallsSound
<1>2. CASE StartAcquire(x)
  <2>1. PICK key \in Keys :
           call' = [call EXCEPT ![x] = [Idle EXCEPT !.pc = "beginning", !.key = key]]
    BY <1>2 DEF StartAcquire
  <2> DEFINE c == [Idle EXCEPT !.pc = "beginning", !.key = key]
  <2>2. c \in Calls /\ c.pc = "beginning" /\ c.key = key /\ c.auth = None
    BY DEF Idle, Calls, ControlStates
  <2>3. CallSound(c) /\ ~Buying(c)
    BY <2>2 DEF CallSound, Buying, SavesDispatch, ToSend
  <2> QED
    BY <1>1, <1>2, <2>1, <2>2, <2>3, CallMoves DEF StartAcquire, world
<1>3. CASE InvoiceFailed(x)
  <2>1. Writes(x, "INVOICE_AMBIGUOUS") \/ Writes(x, "RECONCILIATION_REQUIRED")
    BY <1>3 DEF InvoiceFailed
  <2> QED
    BY <1>3, <2>1, WritesKeeps DEF InvoiceFailed, AcquisitionStatus
<1>4. CASE InvoiceStillUnpaid(x)
  <2>1. CallSound([call[x] EXCEPT !.pc = "preparing"])
    BY <1>1, <1>4 DEF CallSound, InvoiceStillUnpaid, Calls, Buying, SavesDispatch, ToSend
  <2> QED
    BY <1>4, <2>1, GoesKeeps DEF InvoiceStillUnpaid, ControlStates, ToSend
<1>5. CASE ReadForSend(x)
  <2>1. /\ CallSound([call[x] EXCEPT !.pc = "consuming"])
        /\ CallSound([call[x] EXCEPT !.pc = "revalidating"])
    BY <1>1, <1>5 DEF CallSound, ReadForSend, Calls, Buying, SavesDispatch, ToSend
  <2>2. (Goes(x, "consuming") \/ Goes(x, "revalidating")) /\ call[x].pc \in ToSend
    BY <1>5 DEF ReadForSend, ToSend
  <2> QED
    BY <1>5, <2>1, <2>2, GoesKeeps DEF ReadForSend, ControlStates
<1>6. CASE Revalidated(x)
  <2>1. CallSound([call[x] EXCEPT !.pc = "instrumenting"])
    BY <1>1, <1>6 DEF CallSound, Revalidated, Calls, Buying, SavesDispatch, ToSend
  <2> QED
    BY <1>6, <2>1, GoesKeeps DEF Revalidated, ControlStates, ToSend
<1>7. CASE SendAnswered(x)
  <2>1. acquisition # None
    BY <1>1, <1>7 DEF CallSound, SendAnswered
  <2> QED
    BY <1>7, <2>1, ReconcilesKeeps DEF SendAnswered
<1>8. CASE SendUncertain(x)
  <2>1. CallSound([call[x] EXCEPT !.pc = "doubting"])
    BY <1>1, <1>8 DEF CallSound, SendUncertain, Calls, Buying, SavesDispatch, ToSend
  <2> QED
    BY <1>8, <2>1, GoesKeeps DEF SendUncertain, ControlStates, ToSend
<1>9. CASE Throws(x)
  BY <1>1, <1>9, EndsKeeps DEF Throws, world
<1>10. CASE Crash(x)
  <2>1. mishaps' \in 0..MaxMishaps
    BY <1>1, <1>10, AcquisitionAssumption DEF Crash
  <2> QED
    BY <1>10, <2>1, EndsKeeps DEF Crash
<1> QED
  BY <1>2, <1>3, <1>4, <1>5, <1>6, <1>7, <1>8, <1>9, <1>10

\* The steps of reconcile that write nothing.
LEMMA ReconcileCallStepsKeep ==
    ASSUME GiftInv, NEW x \in Processes,
           \/ StartReconcile(x) \/ ConsumeFunding(x) \/ Inspected(x) \/ InspectedNothing(x)
           \/ AskShop(x) \/ AskOrder(x) \/ AskedInVain(x) \/ SecretNotStored(x)
    PROVE  GiftInv'
<1>1. call[x] \in Calls /\ mishaps \in 0..MaxMishaps /\ CallSound(call[x])
  BY DEF GiftInv, TypeOK, CallsSound
<1>2. ASSUME NEW result \in {"SKIPPED", "CONFIRMED", "PENDING"}, Proceeds(x, result),
             call[x].pc \in {"consuming", "inspecting"}, UNCHANGED world
      PROVE  GiftInv'
  <2> DEFINE c == [call[x] EXCEPT !.pc = "askingShop", !.result = result]
  <2>1. c \in Calls /\ c.pc = "askingShop" /\ c.auth = call[x].auth
    BY <1>1 DEF Calls, ControlStates
  <2>2. CallSound(c) /\ ~Buying(c)
    BY <1>1, <1>2, <2>1 DEF CallSound, Buying, SavesDispatch, ToSend
  <2>3. call' = [call EXCEPT ![x] = c]
    BY <1>2 DEF Proceeds
  <2> QED
    BY <1>1, <1>2, <2>1, <2>2, <2>3, CallMoves DEF world
<1>3. CASE StartReconcile(x)
  BY <1>3, ReconcilesKeeps DEF StartReconcile
<1>4. CASE ConsumeFunding(x)
  <2> DEFINE k == call[x].auth
             status == transferAuths[k].status
             c == [call[x] EXCEPT !.pc = "inspecting", !.seen = status]
  <2>1. CASE \E result \in {"SKIPPED", "CONFIRMED"} : Proceeds(x, result)
    BY <1>2, <1>4, <2>1 DEF ConsumeFunding
  <2>2. CASE Writes(x, "PAYMENT_AMBIGUOUS")
    BY <1>4, <2>2, WritesKeeps DEF ConsumeFunding, AcquisitionStatus
  <2>3. CASE k # None /\ status \in {"EXECUTING", "AMBIGUOUS"} /\ call' = [call EXCEPT ![x] = c]
    <3>1. c \in Calls /\ c.pc = "inspecting" /\ c.auth = k /\ k \in Keys
      BY <1>1, <2>3 DEF Calls, ControlStates
    <3>2. CallSound(c) /\ ~Buying(c)
      BY <1>1, <1>4, <3>1 DEF CallSound, Buying, SavesDispatch, ToSend, ConsumeFunding
    <3> QED
      BY <1>1, <1>4, <2>3, <3>1, <3>2, CallMoves DEF ConsumeFunding, world
  <2> QED
    BY <1>4, <2>1, <2>2, <2>3 DEF ConsumeFunding
<1>5. CASE Inspected(x) \/ InspectedNothing(x)
  <2>1. PICK result \in Results :
           /\ Shown(x, result)
           /\ result = "SUCCEEDED" => activity[Payment] = "complete"
    <3>1. CASE Inspected(x)
      <4>1. mapReconciliation(activity[Payment]) \in Results
        BY DEF mapReconciliation, Results
      <4>2. mapReconciliation(activity[Payment]) = "SUCCEEDED" => activity[Payment] = "complete"
        BY DEF mapReconciliation
      <4> QED
        BY <3>1, <4>1, <4>2 DEF Inspected
    <3>2. CASE InspectedNothing(x)
      BY <3>2 DEF InspectedNothing, Results
    <3> QED
      BY <1>5, <3>1, <3>2
  <2>2. UNCHANGED world /\ call[x].pc = "inspecting"
    BY <1>5 DEF Inspected, InspectedNothing
  <2>3. CASE Proceeds(x, "PENDING")
    BY <1>2, <2>2, <2>3
  <2>4. CASE result = "SUCCEEDED" /\ Goes(x, "confirming")
    <3>1. CallSound([call[x] EXCEPT !.pc = "confirming"])
      BY <1>1, <2>1, <2>2, <2>4 DEF CallSound, Calls, Buying, SavesDispatch, ToSend
    <3> QED
      BY <2>2, <2>4, <3>1, GoesKeeps DEF ControlStates, ToSend
  <2>5. CASE Writes(x, "PAYMENT_AMBIGUOUS")
    BY <2>2, <2>5, WritesKeeps DEF AcquisitionStatus
  <2>6. CASE Goes(x, "doubting")
    <3>1. CallSound([call[x] EXCEPT !.pc = "doubting"])
      BY <1>1, <2>2 DEF CallSound, Calls, Buying, SavesDispatch, ToSend
    <3> QED
      BY <2>2, <2>6, <3>1, GoesKeeps DEF ControlStates, ToSend
  <2> QED
    BY <2>1, <2>3, <2>4, <2>5, <2>6 DEF Shown
<1>6. CASE AskShop(x)
  <2>1. \/ Writes(x, "RECONCILIATION_REQUIRED") \/ Writes(x, "DELIVERY_PENDING")
        \/ Goes(x, "askingOrder")
    BY <1>6 DEF AskShop
  <2>2. CallSound([call[x] EXCEPT !.pc = "askingOrder"])
    BY <1>1, <1>6 DEF CallSound, AskShop, Calls, Buying, SavesDispatch, ToSend
  <2> QED
    BY <1>6, <2>1, <2>2, WritesKeeps, GoesKeeps DEF AskShop, AcquisitionStatus, ControlStates, ToSend
<1>7. CASE AskOrder(x)
  <2>1. CASE shop = "delivered" /\ Goes(x, "storing")
    <3>1. CallSound([call[x] EXCEPT !.pc = "storing"])
      BY <1>1, <1>7, <2>1 DEF CallSound, AskOrder, Calls, Buying, SavesDispatch, ToSend
    <3> QED
      BY <1>7, <2>1, <3>1, GoesKeeps DEF AskOrder, ControlStates, ToSend
  <2>2. CASE Writes(x, "RECONCILIATION_REQUIRED")
    BY <1>7, <2>2, WritesKeeps DEF AskOrder, AcquisitionStatus
  <2> QED
    BY <1>7, <2>1, <2>2 DEF AskOrder
<1>8. CASE AskedInVain(x) \/ SecretNotStored(x)
  BY <1>8, WritesKeeps DEF AskedInVain, SecretNotStored, AcquisitionStatus
<1> QED
  BY <1>3, <1>4, <1>5, <1>6, <1>7, <1>8

-----------------------------------------------------------------------------
(* Steps that write the record.                                            *)

\* resumeAfterInvoiceMutation by the record that was just read.
LEMMA ResumesKeeps ==
    ASSUME GiftInv, NEW x \in Processes, acquisition # None, Resumes(x, acquisition),
           UNCHANGED world, call[x].pc \in {"beginning", "rereading"}
    PROVE  GiftInv'
<1>1. /\ call[x] \in Calls /\ mishaps \in 0..MaxMishaps /\ CallSound(call[x])
      /\ acquisition.auth \in Keys \cup {None}
      /\ acquisition.auth # None => /\ transferAuths[acquisition.auth] # None
                                    /\ acquireAuths[acquisition.auth] # None
  BY DEF GiftInv, TypeOK, CallsSound, AcquisitionRows
<1>2. CASE Ends(x)
  BY <1>1, <1>2, EndsKeeps DEF world
<1>3. CASE Reconciles(x, acquisition)
  BY <1>3, ReconcilesKeeps
<1>4. CASE Writes(x, "INVOICE_AMBIGUOUS")
  BY <1>4, WritesKeeps DEF AcquisitionStatus
<1>5. CASE GoesOn(x, "checking", acquisition)
  <2> DEFINE c == [call[x] EXCEPT !.pc = "checking", !.auth = acquisition.auth]
  <2>1. c \in Calls /\ c.pc = "checking" /\ c.auth = acquisition.auth /\ c.key = call[x].key
    BY <1>1 DEF Calls, ControlStates
  <2>2. CallSound(c) /\ ~Buying(c)
    BY <1>1, <2>1 DEF CallSound, Buying, SavesDispatch, ToSend
  <2>3. call' = [call EXCEPT ![x] = c]
    BY <1>5 DEF GoesOn
  <2> QED
    BY <1>1, <2>1, <2>2, <2>3, CallMoves DEF world
<1> QED
  BY <1>2, <1>3, <1>4, <1>5 DEF Resumes

\* A step that writes the record, takes back neither the claim nor a call's knowledge, and
\* puts SUCCEEDED there only of a delivered card.
LEMMA RecordMoves ==
    ASSUME GiftInv, NEW x \in Processes, UNCHANGED besidesRecord,
           acquisition' \in AcquisitionRows,
           InvoicePosted => acquisition'.posted,
           acquisition'.auth # None => transferAuths[acquisition'.auth] # None,
           acquisition'.status = "SUCCEEDED" => secret /\ shop = "delivered",
           call' \in [Processes -> Calls],
           \A y \in Processes \ {x} : call'[y] = call[y],
           CallSound(call[x])', call'[x].pc # "posting",
           Buying(call'[x]) => Buying(call[x]) /\ call'[x].auth = call[x].auth
    PROVE  GiftInv'
<1> USE DEF besidesRecord, auths, executions, outside, daemon
<1>1. acquisition' # None
  BY NoneFacts
<1>2. TypeOK'
  BY DEF GiftInv, TypeOK
<1>3. AttemptsConsistent' /\ OneFundingRow' /\ SucceededMeansDelivered'
  BY DEF GiftInv, AttemptsConsistent, OneFundingRow, SucceededMeansDelivered
<1>4. Grows
  BY <1>1 DEF Grows, InvoicePosted
<1>5. CallsGoOn
  BY DEF CallsGoOn
<1> QED
  BY <1>2, <1>3, <1>4, <1>5, QuietStep

\* The steps of acquire that write the record.
LEMMA RecordStepsKeep ==
    ASSUME GiftInv, NEW x \in Processes,
           \/ BeginAcquisition(x) \/ ResumeClaimed(x) \/ InvoiceCreated(x) \/ Prepared(x)
           \/ SaveIds(x) \/ Save(x)
    PROVE  GiftInv'
<1>1. /\ call[x] \in Calls /\ CallSound(call[x]) /\ call \in [Processes -> Calls]
      /\ acquisition # None => acquisition \in AcquisitionRows
      /\ acquisition # None /\ acquisition.auth # None => transferAuths[acquisition.auth] # None
      /\ \A k \in Keys : transferAuths[k] # None => acquireAuths[k] # None
  BY DEF GiftInv, TypeOK, CallsSound
<1>2. CASE ResumeClaimed(x)
  <2>1. acquisition # None
    BY <1>1, <1>2 DEF CallSound, ResumeClaimed
  <2> QED
    BY <1>2, <2>1, ResumesKeeps DEF ResumeClaimed
<1>3. CASE BeginAcquisition(x)
  <2>1. CASE acquisition # None /\ acquisition.posted
    <3>1. UNCHANGED world /\ Resumes(x, acquisition)
      BY <1>3, <2>1 DEF BeginAcquisition, world, store, besidesRecord
    <3> QED
      BY <1>3, <2>1, <3>1, ResumesKeeps DEF BeginAcquisition
  <2>2. CASE ~InvoicePosted
    <3>1. call[x].key \in Keys
      BY <1>1, <1>3 DEF CallSound, BeginAcquisition
    <3>2. /\ NewAcquisition(call[x].key) \in AcquisitionRows
          /\ NewAcquisition(call[x].key).posted = FALSE
          /\ NewAcquisition(call[x].key).auth = None
          /\ NewAcquisition(call[x].key).status = "CREATED"
      BY <3>1 DEF NewAcquisition, AcquisitionRows, AcquisitionStatus
    <3>3. /\ acquisition' \in AcquisitionRows /\ acquisition' # None
          /\ acquisition'.auth # None => transferAuths[acquisition'.auth] # None
          /\ acquisition'.status = "SUCCEEDED" => secret /\ shop = "delivered"
          /\ Goes(x, "claiming")
      BY <1>1, <1>3, <2>2, <3>2, NoneFacts
         DEF BeginAcquisition, InvoicePosted, GiftInv, SucceededMeansDelivered
    <3>4. /\ call' = [call EXCEPT ![x] = [call[x] EXCEPT !.pc = "claiming"]]
          /\ [call[x] EXCEPT !.pc = "claiming"] \in Calls
      BY <1>1, <3>3 DEF Goes, Calls, ControlStates
    <3>5. /\ call' \in [Processes -> Calls] /\ \A y \in Processes \ {x} : call'[y] = call[y]
          /\ call'[x].pc = "claiming" /\ call'[x].key = call[x].key
          /\ call'[x].auth = call[x].auth
      BY <1>1, <3>4 DEF Calls
    <3>6. UNCHANGED besidesRecord
      BY <1>3 DEF BeginAcquisition
    <3>7. CallSound(call[x])'
      BY <1>1, <1>3, <3>1, <3>3, <3>5, <3>6
         DEF CallSound, BeginAcquisition, besidesRecord, auths, Buying, SavesDispatch, ToSend
    <3> QED
      BY <2>2, <3>3, <3>5, <3>6, <3>7, RecordMoves DEF Buying, SavesDispatch, ToSend
  <2> QED
    BY <2>1, <2>2 DEF InvoicePosted
<1>4. CASE InvoiceCreated(x)
  <2> DEFINE known == [acquisition EXCEPT !.status = "INVOICE_KNOWN", !.invoice = TRUE]
             c == [call[x] EXCEPT !.pc = "checking", !.auth = known.auth]
  <2>1. acquisition \in AcquisitionRows /\ acquisition # None /\ call[x].key \in Keys
    BY <1>1, <1>4 DEF CallSound, InvoiceCreated
  <2>2. /\ known \in AcquisitionRows /\ known.auth = acquisition.auth
        /\ known.posted = acquisition.posted /\ known.status = "INVOICE_KNOWN"
    BY <2>1 DEF AcquisitionRows, AcquisitionStatus
  <2>3. /\ c \in Calls /\ c.pc = "checking" /\ c.auth = acquisition.auth
        /\ c.key = call[x].key /\ acquisition.auth \in Keys \cup {None}
    BY <1>1, <2>1, <2>2 DEF Calls, ControlStates, AcquisitionRows
  <2>4. /\ acquisition' = known /\ call' = [call EXCEPT ![x] = c] /\ UNCHANGED besidesRecord
    <3>1. acquisition' = known /\ GoesOn(x, "checking", known) /\ UNCHANGED besidesRecord
      BY <1>4 DEF InvoiceCreated
    <3> HIDE DEF known
    <3> QED
      BY <3>1 DEF GoesOn
  <2>5. /\ call' \in [Processes -> Calls] /\ \A y \in Processes \ {x} : call'[y] = call[y]
        /\ call'[x] = c /\ acquisition' # None
    BY <1>1, <2>2, <2>3, <2>4, NoneFacts
  <2>6. CallSound(call[x])'
    BY <1>1, <2>1, <2>3, <2>4, <2>5
       DEF CallSound, besidesRecord, auths, Buying, SavesDispatch, ToSend
  <2> QED
    BY <1>1, <2>1, <2>2, <2>3, <2>4, <2>5, <2>6, RecordMoves
       DEF Buying, SavesDispatch, ToSend, InvoicePosted, besidesRecord
<1>5. CASE Prepared(x)
  <2> DEFINE prepared == [acquisition EXCEPT !.status = "WAVELENGTH_PREPARED"]
             c == [call[x] EXCEPT !.pc = "authorizing", !.auth = prepared.auth]
  <2>1. acquisition \in AcquisitionRows /\ acquisition # None /\ call[x].key \in Keys
    BY <1>1, <1>5 DEF CallSound, Prepared
  <2>2. /\ prepared \in AcquisitionRows /\ prepared.auth = acquisition.auth
        /\ prepared.posted = acquisition.posted /\ prepared.status = "WAVELENGTH_PREPARED"
    BY <2>1 DEF AcquisitionRows, AcquisitionStatus
  <2>3. /\ c \in Calls /\ c.pc = "authorizing" /\ c.auth = acquisition.auth
        /\ c.key = call[x].key /\ acquisition.auth \in Keys \cup {None}
    BY <1>1, <2>1, <2>2 DEF Calls, ControlStates, AcquisitionRows
  <2>4. /\ acquisition' = prepared /\ call' = [call EXCEPT ![x] = c] /\ UNCHANGED besidesRecord
    <3>1. acquisition' = prepared /\ GoesOn(x, "authorizing", prepared) /\ UNCHANGED besidesRecord
      BY <1>5 DEF Prepared
    <3> HIDE DEF prepared
    <3> QED
      BY <3>1 DEF GoesOn
  <2>5. /\ call' \in [Processes -> Calls] /\ \A y \in Processes \ {x} : call'[y] = call[y]
        /\ call'[x] = c /\ acquisition' # None
    BY <1>1, <2>2, <2>3, <2>4, NoneFacts
  <2>6. CallSound(call[x])'
    BY <1>1, <2>1, <2>3, <2>4, <2>5
       DEF CallSound, besidesRecord, auths, Buying, SavesDispatch, ToSend
  <2> QED
    BY <1>1, <2>1, <2>2, <2>3, <2>4, <2>5, <2>6, RecordMoves
       DEF Buying, SavesDispatch, ToSend, InvoicePosted, besidesRecord
<1>6. CASE SaveIds(x)
  <2> DEFINE c == [call[x] EXCEPT !.pc = "reading"]
  <2>1. /\ acquisition \in AcquisitionRows /\ acquisition # None
        /\ call[x].auth \in Keys /\ call[x].pc = "savingIds"
        /\ transferAuths[call[x].auth] # None /\ call[x].auth # None
    BY <1>1, <1>6, NoneFacts DEF CallSound, SaveIds, Buying, ToSend
  <2>2. /\ acquisition' = [acquisition EXCEPT !.status = "AUTHORIZED", !.auth = call[x].auth]
        /\ UNCHANGED besidesRecord /\ call' = [call EXCEPT ![x] = c]
    BY <1>6 DEF SaveIds, Goes
  <2>3. /\ acquisition' \in AcquisitionRows /\ acquisition' # None
        /\ acquisition'.auth = call[x].auth /\ acquisition'.posted = acquisition.posted
        /\ acquisition'.status = "AUTHORIZED"
    BY <2>1, <2>2, NoneFacts DEF AcquisitionRows, AcquisitionStatus
  <2>4. c \in Calls /\ c.pc = "reading" /\ c.auth = call[x].auth
    BY <1>1 DEF Calls, ControlStates
  <2>5. /\ call' \in [Processes -> Calls] /\ \A y \in Processes \ {x} : call'[y] = call[y]
        /\ call'[x] = c
    BY <1>1, <2>2, <2>4
  <2>6. CallSound(call[x])'
    BY <1>1, <2>1, <2>2, <2>3, <2>4, <2>5
       DEF CallSound, besidesRecord, auths, Buying, SavesDispatch, ToSend
  <2> QED
    BY <2>1, <2>2, <2>3, <2>4, <2>5, <2>6, RecordMoves DEF Buying, ToSend, InvoicePosted
<1>7. CASE Save(x)
  <2>1. /\ acquisition \in AcquisitionRows /\ acquisition # None
        /\ call[x].write \in AcquisitionStatus /\ call[x].pc = "saving"
        /\ call[x].write = "SUCCEEDED" => secret /\ shop = "delivered"
    BY <1>1, <1>7 DEF CallSound, Save
  <2>2. acquisition' = [acquisition EXCEPT !.status = call[x].write] /\ UNCHANGED besidesRecord
    BY <1>7 DEF Save
  <2>3. /\ acquisition' \in AcquisitionRows /\ acquisition' # None
        /\ acquisition'.auth = acquisition.auth /\ acquisition'.posted = acquisition.posted
        /\ acquisition'.status = call[x].write
    BY <2>1, <2>2, NoneFacts DEF AcquisitionRows
  <2>4. PICK c \in Calls :
           /\ call' = [call EXCEPT ![x] = c]
           /\ \/ c = Idle
              \/ /\ c.pc = "askingShop" /\ c.auth = call[x].auth
              \/ /\ SavesDispatch(call[x]) /\ c.pc = "dispatching" /\ c.auth = call[x].auth
    <3> DEFINE sends1 == [call[x] EXCEPT !.pc = "dispatching", !.write = None]
               asks == [call[x] EXCEPT !.pc = "askingShop", !.write = None,
                                       !.result = "CONFIRMED"]
    <3>1. /\ sends1 \in Calls /\ sends1.pc = "dispatching" /\ sends1.auth = call[x].auth
          /\ asks \in Calls /\ asks.pc = "askingShop" /\ asks.auth = call[x].auth
      BY <1>1 DEF Calls, ControlStates
    <3>2. CASE call[x].write = "SEND_DISPATCHED"
      <4>1. call' = [call EXCEPT ![x] = sends1]
        BY <1>7, <3>2 DEF Save
      <4> QED
        BY <2>1, <3>1, <3>2, <4>1 DEF SavesDispatch
    <3>3. CASE call[x].write = "PAYMENT_CONFIRMED"
      <4>1. call' = [call EXCEPT ![x] = asks]
        BY <1>7, <3>3 DEF Save
      <4> QED
        BY <3>1, <4>1
    <3>4. CASE call[x].write \notin {"SEND_DISPATCHED", "PAYMENT_CONFIRMED"}
      <4>1. call' = [call EXCEPT ![x] = Idle]
        BY <1>7, <3>4 DEF Save, Ends
      <4> QED
        BY <4>1, NoneFacts
    <3> QED
      BY <3>2, <3>3, <3>4
  <2>5. /\ call' \in [Processes -> Calls] /\ \A y \in Processes \ {x} : call'[y] = call[y]
        /\ call'[x] = c
    BY <1>1, <2>4
  <2>6. CallSound(call[x])' /\ c.pc # "posting" /\ (Buying(c) => Buying(call[x]) /\ c.auth = call[x].auth)
    <3>1. CASE c = Idle
      BY <2>5, <3>1 DEF CallSound, Idle, Buying, SavesDispatch, ToSend
    <3>2. CASE c.pc = "askingShop" /\ c.auth = call[x].auth
      BY <1>1, <2>1, <2>2, <2>3, <2>5, <3>2
         DEF CallSound, besidesRecord, auths, Buying, SavesDispatch, ToSend
    <3>3. CASE SavesDispatch(call[x]) /\ c.pc = "dispatching" /\ c.auth = call[x].auth
      BY <1>1, <2>1, <2>2, <2>3, <2>5, <3>3
         DEF CallSound, besidesRecord, auths, executions, Buying, SavesDispatch, ToSend
    <3> QED
      BY <2>4, <3>1, <3>2, <3>3
  <2> QED
    BY <1>1, <2>1, <2>2, <2>3, <2>5, <2>6, RecordMoves DEF InvoicePosted, besidesRecord
<1> QED
  BY <1>2, <1>3, <1>4, <1>5, <1>6, <1>7

-----------------------------------------------------------------------------
(* The invoice: the claim, and the request to the shop.                    *)

\* What the other calls know stays true when one call moves.
LEMMA OthersStaySound ==
    ASSUME GiftInv, Grows, NEW x \in Processes, \A y \in Processes \ {x} : call'[y] = call[y],
           CallSound(call[x])'
    PROVE  CallsSound'
<1> SUFFICES ASSUME NEW y \in Processes, y # x PROVE CallSound(call[y])'
  BY DEF CallsSound
<1>1. call[y] \in Calls /\ CallSound(call[y]) /\ call'[y] = call[y]
  BY DEF GiftInv, TypeOK, CallsSound
<1>2. \A c \in Calls : CallSound(c) => CallSound(c)'
  BY KnowledgeStays
<1> QED
  BY <1>1, KnowledgeStays

LEMMA ClaimInvoiceDispatchKeeps ==
    ASSUME GiftInv, NEW x \in Processes, ClaimInvoiceDispatch(x)
    PROVE  GiftInv'
<1> USE DEF besidesRecord, auths, executions, outside, daemon
<1>1. /\ call[x] \in Calls /\ CallSound(call[x]) /\ call \in [Processes -> Calls]
      /\ acquisition # None /\ acquisition \in AcquisitionRows /\ call[x].key \in Keys
      /\ call[x].pc = "claiming"
  BY DEF GiftInv, TypeOK, CallsSound, CallSound, ClaimInvoiceDispatch
<1>2. CASE ~Claimable
  <2>1. UNCHANGED world /\ Goes(x, "rereading")
    BY <1>2 DEF ClaimInvoiceDispatch, world, store
  <2>2. CallSound([call[x] EXCEPT !.pc = "rereading"])
    BY <1>1 DEF CallSound, Calls, Buying, SavesDispatch, ToSend
  <2> QED
    BY <2>1, <2>2, GoesKeeps DEF ControlStates, ToSend
<1>3. CASE Claimable
  <2> DEFINE c == [call[x] EXCEPT !.pc = "posting"]
  <2>1. /\ acquisition' = [acquisition EXCEPT !.status = "INVOICE_DISPATCHED", !.posted = TRUE]
        /\ call' = [call EXCEPT ![x] = c] /\ UNCHANGED besidesRecord
    BY <1>3 DEF ClaimInvoiceDispatch, Goes
  <2>2. /\ acquisition' \in AcquisitionRows /\ acquisition' # None /\ acquisition'.posted
        /\ acquisition'.auth = acquisition.auth /\ acquisition'.status # "SUCCEEDED"
    BY <1>1, <2>1, NoneFacts DEF AcquisitionRows, AcquisitionStatus
  <2>3. c \in Calls /\ c.pc = "posting" /\ c.auth = call[x].auth /\ c.key = call[x].key
    BY <1>1 DEF Calls, ControlStates
  <2>4. /\ call' \in [Processes -> Calls] /\ \A y \in Processes \ {x} : call'[y] = call[y]
        /\ call'[x] = c
    BY <1>1, <2>1, <2>3
  <2>5. TypeOK'
    BY <1>1, <2>1, <2>2, <2>4 DEF GiftInv, TypeOK
  <2>6. AttemptsConsistent' /\ OneFundingRow' /\ SucceededMeansDelivered' /\ InvoicePostedOnce'
    BY <2>1, <2>2 DEF GiftInv, AttemptsConsistent, OneFundingRow, SucceededMeansDelivered,
                      InvoicePostedOnce
  <2>7. Grows
    BY <2>1, <2>2 DEF Grows, InvoicePosted
  <2>8. CallSound(call[x])'
    BY <1>1, <2>1, <2>2, <2>3, <2>4 DEF CallSound, InvoicePosted, Buying, SavesDispatch, ToSend
  <2>9. CallsSound'
    BY <2>4, <2>7, <2>8, OthersStaySound
  <2>10. \A y \in Processes : Buying(call'[y]) => call'[y] = call[y]
    BY <2>3, <2>4 DEF Buying, SavesDispatch, ToSend
  <2>11. OneBuyer' /\ SentAndDone'
    BY <2>1, <2>10 DEF GiftInv, OneBuyer, SentAndDone
  <2>12. \A y \in Processes : call'[y].pc = "posting" => y = x
    BY <1>3, <2>4 DEF GiftInv, CallsSound, CallSound, InvoicePosted, Claimable
  <2>13. OnePoster'
    BY <1>3, <2>1, <2>2, <2>12 DEF GiftInv, TypeOK, OnePoster, InvoicePosted, Claimable
  <2> QED
    BY <2>1, <2>5, <2>6, <2>9, <2>11, <2>13 DEF GiftInv
<1> QED
  BY <1>2, <1>3

LEMMA PostInvoiceKeeps ==
    ASSUME GiftInv, NEW x \in Processes, PostInvoice(x)
    PROVE  GiftInv'
<1> USE DEF store, auths, executions, daemon
<1> DEFINE c == [call[x] EXCEPT !.pc = "posted"]
<1>1. /\ call[x] \in Calls /\ CallSound(call[x]) /\ call \in [Processes -> Calls]
      /\ call[x].pc = "posting" /\ acquisition # None /\ call[x].key \in Keys /\ InvoicePosted
  BY DEF GiftInv, TypeOK, CallsSound, CallSound, PostInvoice
<1>2. /\ posts = 0 /\ posts' = 1 /\ 1 <= MaxPosts
      /\ \A y \in Processes \ {x} : call[y].pc # "posting"
  BY <1>1, AcquisitionAssumption DEF GiftInv, OnePoster, PostInvoice
<1>3. /\ call' = [call EXCEPT ![x] = c]
      /\ UNCHANGED <<store, secret, shop, daemon, mishaps>>
  BY DEF PostInvoice, Goes
<1>4. c \in Calls /\ c.pc = "posted" /\ c.auth = call[x].auth /\ c.key = call[x].key
  BY <1>1 DEF Calls, ControlStates
<1>5. /\ call' \in [Processes -> Calls] /\ \A y \in Processes \ {x} : call'[y] = call[y]
      /\ call'[x] = c
  BY <1>1, <1>3, <1>4
<1>6. TypeOK'
  <2>1. posts' \in 0..MaxPosts
    BY <1>2, AcquisitionAssumption
  <2> QED
    BY <1>3, <1>5, <2>1 DEF GiftInv, TypeOK
<1>7. AttemptsConsistent' /\ OneFundingRow' /\ SucceededMeansDelivered' /\ InvoicePostedOnce'
  BY <1>2, <1>3 DEF GiftInv, AttemptsConsistent, OneFundingRow, SucceededMeansDelivered,
                    InvoicePostedOnce
<1>8. Grows
  BY <1>3 DEF Grows, InvoicePosted
<1>9. CallSound(call[x])'
  BY <1>1, <1>3, <1>4, <1>5 DEF CallSound, Buying, SavesDispatch, ToSend
<1>10. CallsSound'
  BY <1>5, <1>8, <1>9, OthersStaySound
<1>11. \A y \in Processes : Buying(call'[y]) => call'[y] = call[y]
  BY <1>4, <1>5 DEF Buying, SavesDispatch, ToSend
<1>12. OneBuyer' /\ SentAndDone'
  BY <1>3, <1>11 DEF GiftInv, OneBuyer, SentAndDone
<1>13. OnePoster'
  <2>1. \A y \in Processes : call'[y].pc # "posting"
    BY <1>2, <1>4, <1>5
  <2> QED
    BY <1>1, <1>8, <2>1 DEF OnePoster, Grows
<1> QED
  BY <1>3, <1>6, <1>7, <1>10, <1>12, <1>13 DEF GiftInv

-----------------------------------------------------------------------------
(* Steps that write the Authorizations and their rows.                     *)

\* The part of TypeOK about the Authorizations and their rows.
RowsOK ==
    /\ acquireAuths \in [Keys -> AuthorizationRows \cup {None}]
    /\ transferAuths \in [Keys -> AuthorizationRows \cup {None}]
    /\ instruments \in [Keys -> BOOLEAN]
    /\ funding \in [Keys -> {"none", "begun", "dispatched"}]
    /\ \A k \in Keys :
          /\ transferAuths[k] # None => acquireAuths[k] # None
          /\ instruments[k] =>
                acquireAuths[k] # None /\ acquireAuths[k].externalActionAttempted
          /\ funding[k] # "none" =>
                transferAuths[k] # None /\ transferAuths[k].externalActionAttempted

\* No row goes, and no mark.
RowsGrow ==
    \A k \in Keys :
        /\ acquireAuths[k] # None => acquireAuths'[k] # None
        /\ transferAuths[k] # None => transferAuths'[k] # None
        /\ instruments[k] => instruments'[k]
        /\ funding[k] # "none" => funding'[k] # "none"
        /\ funding[k] = "dispatched" => funding'[k] = "dispatched"

LEMMA RowsGrowGrows ==
    ASSUME RowsGrow, TypeOK, UNCHANGED <<acquisition, secret, outside>> PROVE Grows
BY DEF RowsGrow, Grows, InvoicePosted, outside, daemon

\* A step that writes the rows, and at most lets a call go on.
LEMMA RowsMove ==
    ASSUME GiftInv, UNCHANGED <<acquisition, secret, outside>>, permitActive' \in BOOLEAN,
           mishaps' \in 0..MaxMishaps, RowsOK', RowsGrow, AttemptsConsistent', OneFundingRow',
           call' \in [Processes -> Calls], CallsGoOn
    PROVE  GiftInv'
<1> USE DEF outside, daemon
<1>1. \A k \in Keys : transferAuths[k] # None => transferAuths'[k] # None
  BY DEF RowsGrow
<1>2. acquisition # None => acquisition.auth \in Keys \cup {None}
  BY DEF GiftInv, TypeOK, AcquisitionRows
<1>3. TypeOK'
  BY <1>1, <1>2 DEF GiftInv, TypeOK, RowsOK
<1>4. SucceededMeansDelivered'
  BY DEF GiftInv, SucceededMeansDelivered
<1>5. Grows
  BY RowsGrowGrows DEF GiftInv
<1> QED
  BY <1>3, <1>4, <1>5, QuietStep

\* What an accepted transition of one row does to the table.
LEMMA RowMoves ==
    ASSUME NEW rows \in [Keys -> AuthorizationRows \cup {None}], NEW k \in Keys,
           NEW requested \in AuthorizationStatus, rows[k] # None, AttemptConsistent(rows[k]),
           TransitionAccepted(rows[k], requested)
    PROVE  LET moved == [rows EXCEPT ![k] = transitionAuthorization(@, requested)] IN
           /\ moved \in [Keys -> AuthorizationRows \cup {None}]
           /\ \A j \in Keys \ {k} : moved[j] = rows[j]
           /\ moved[k] # None /\ moved[k].status = requested
           /\ AttemptConsistent(moved[k])
           /\ rows[k].externalActionAttempted => moved[k].externalActionAttempted
           /\ requested = "EXECUTING" => moved[k].externalActionAttempted
<1> DEFINE next == transitionAuthorization(rows[k], requested)
           moved == [rows EXCEPT ![k] = transitionAuthorization(@, requested)]
<1>1. rows[k] \in AuthorizationRows
  OBVIOUS
<1>2. /\ next \in AuthorizationRows /\ next # None /\ next.status = requested
      /\ rows[k].externalActionAttempted => next.externalActionAttempted
      /\ requested = "EXECUTING" => next.externalActionAttempted
      /\ AttemptConsistent(next)
  BY <1>1, TransitionFacts
<1>3. moved = [rows EXCEPT ![k] = next]
  OBVIOUS
<1>4. moved[k] = next /\ \A j \in Keys \ {k} : moved[j] = rows[j]
  BY <1>3
<1>5. moved \in [Keys -> AuthorizationRows \cup {None}]
  <2> HIDE DEF next
  <2> QED
    BY <1>2, <1>3
<1> HIDE DEF next, moved
<1>6. /\ rows[k].externalActionAttempted => moved[k].externalActionAttempted
      /\ requested = "EXECUTING" => moved[k].externalActionAttempted
  BY <1>2, <1>4, Zenon
<1> QED
  BY <1>2, <1>4, <1>5, <1>6 DEF moved

\* A step that moves one acquire Authorization, or marks its row begun.
LEMMA AcquireMoves ==
    ASSUME GiftInv, NEW k \in Keys, NEW requested \in AuthorizationStatus,
           acquireAuths[k] # None, TransitionAccepted(acquireAuths[k], requested),
           acquireAuths' = [acquireAuths EXCEPT ![k] = transitionAuthorization(@, requested)],
           \/ UNCHANGED instruments
           \/ requested = "EXECUTING" /\ instruments' = [instruments EXCEPT ![k] = TRUE],
           UNCHANGED <<transferAuths, funding>>
    PROVE  RowsOK' /\ RowsGrow /\ AttemptsConsistent' /\ OneFundingRow'
<1>1. acquireAuths \in [Keys -> AuthorizationRows \cup {None}] /\ AttemptConsistent(acquireAuths[k])
  BY DEF GiftInv, TypeOK, AttemptsConsistent
<1>2. /\ acquireAuths' \in [Keys -> AuthorizationRows \cup {None}]
      /\ \A j \in Keys \ {k} : acquireAuths'[j] = acquireAuths[j]
      /\ acquireAuths'[k] # None /\ AttemptConsistent(acquireAuths'[k])
      /\ acquireAuths[k].externalActionAttempted => acquireAuths'[k].externalActionAttempted
      /\ requested = "EXECUTING" => acquireAuths'[k].externalActionAttempted
  BY <1>1, RowMoves
<1>3. /\ instruments' \in [Keys -> BOOLEAN]
      /\ \A j \in Keys : instruments[j] => instruments'[j]
      /\ \A j \in Keys \ {k} : instruments'[j] = instruments[j]
      /\ instruments'[k] => instruments[k] \/ requested = "EXECUTING"
  BY DEF GiftInv, TypeOK
<1>4. \A j \in Keys : instruments'[j] =>
          acquireAuths'[j] # None /\ acquireAuths'[j].externalActionAttempted
  <2> SUFFICES ASSUME NEW j \in Keys, instruments'[j]
               PROVE  acquireAuths'[j] # None /\ acquireAuths'[j].externalActionAttempted
    OBVIOUS
  <2>1. CASE j = k
    <3>1. acquireAuths[k].externalActionAttempted \/ requested = "EXECUTING"
      BY <1>3, <2>1 DEF GiftInv, TypeOK
    <3> QED
      BY <1>2, <2>1, <3>1, Zenon
  <2>2. CASE j # k
    BY <1>2, <1>3, <2>2 DEF GiftInv, TypeOK
  <2> QED
    BY <2>1, <2>2
<1>5. RowsOK'
  BY <1>2, <1>3, <1>4 DEF GiftInv, TypeOK, RowsOK
<1>6. RowsGrow
  BY <1>2, <1>3 DEF RowsGrow
<1>7. AttemptsConsistent'
  BY <1>2 DEF GiftInv, AttemptsConsistent
<1>8. OneFundingRow'
  BY DEF GiftInv, OneFundingRow
<1> QED
  BY <1>5, <1>6, <1>7, <1>8

\* A step that moves one transfer Authorization, or begins its row, the first of all.
LEMMA TransferMoves ==
    ASSUME GiftInv, NEW k \in Keys, NEW requested \in AuthorizationStatus,
           transferAuths[k] # None, TransitionAccepted(transferAuths[k], requested),
           transferAuths' = [transferAuths EXCEPT ![k] = transitionAuthorization(@, requested)],
           \/ UNCHANGED funding
           \/ /\ requested = "EXECUTING" /\ funding' = [funding EXCEPT ![k] = "begun"]
              /\ \A other \in Keys : funding[other] = "none",
           UNCHANGED <<acquireAuths, instruments>>
    PROVE  RowsOK' /\ RowsGrow /\ AttemptsConsistent' /\ OneFundingRow'
<1>1. /\ transferAuths \in [Keys -> AuthorizationRows \cup {None}]
      /\ AttemptConsistent(transferAuths[k])
  BY DEF GiftInv, TypeOK, AttemptsConsistent
<1>2. /\ transferAuths' \in [Keys -> AuthorizationRows \cup {None}]
      /\ \A j \in Keys \ {k} : transferAuths'[j] = transferAuths[j]
      /\ transferAuths'[k] # None /\ AttemptConsistent(transferAuths'[k])
      /\ transferAuths[k].externalActionAttempted => transferAuths'[k].externalActionAttempted
      /\ requested = "EXECUTING" => transferAuths'[k].externalActionAttempted
  BY <1>1, RowMoves
<1>3. /\ funding' \in [Keys -> {"none", "begun", "dispatched"}]
      /\ \A j \in Keys : /\ funding[j] # "none" => funding'[j] # "none"
                         /\ funding[j] = "dispatched" => funding'[j] = "dispatched"
      /\ \A j \in Keys \ {k} : funding'[j] = funding[j]
      /\ funding'[k] # "none" => funding[k] # "none" \/ requested = "EXECUTING"
      /\ OneFundingRow'
  <2>1. funding \in [Keys -> {"none", "begun", "dispatched"}] /\ OneFundingRow
    BY DEF GiftInv, TypeOK
  <2> QED
    BY <2>1 DEF OneFundingRow
<1>4. \A j \in Keys : funding'[j] # "none" =>
          transferAuths'[j] # None /\ transferAuths'[j].externalActionAttempted
  <2> SUFFICES ASSUME NEW j \in Keys, funding'[j] # "none"
               PROVE  transferAuths'[j] # None /\ transferAuths'[j].externalActionAttempted
    OBVIOUS
  <2>1. CASE j = k
    <3>1. transferAuths[k].externalActionAttempted \/ requested = "EXECUTING"
      BY <1>3, <2>1 DEF GiftInv, TypeOK
    <3> QED
      BY <1>2, <2>1, <3>1, Zenon
  <2>2. CASE j # k
    BY <1>2, <1>3, <2>2 DEF GiftInv, TypeOK
  <2> QED
    BY <2>1, <2>2
<1>5. RowsOK'
  BY <1>2, <1>3, <1>4 DEF GiftInv, TypeOK, RowsOK
<1>6. RowsGrow
  BY <1>2, <1>3 DEF RowsGrow
<1>7. AttemptsConsistent'
  BY <1>2 DEF GiftInv, AttemptsConsistent
<1> QED
  BY <1>3, <1>5, <1>6, <1>7

LEMMA AuthorizeAcquireKeeps ==
    ASSUME GiftInv, NEW x \in Processes, AuthorizeAcquire(x)
    PROVE  GiftInv'
<1> USE DEF executions, outside, daemon
<1> DEFINE k == IF call[x].auth # None THEN call[x].auth ELSE call[x].key
           c == [call[x] EXCEPT !.pc = "transferring", !.key = None, !.auth = k]
<1>1. /\ call[x] \in Calls /\ CallSound(call[x]) /\ call \in [Processes -> Calls]
      /\ acquisition # None /\ call[x].key \in Keys /\ RowsOK
      /\ permitActive \in BOOLEAN /\ mishaps \in 0..MaxMishaps
  BY DEF GiftInv, TypeOK, CallsSound, CallSound, AuthorizeAcquire, RowsOK
<1>2. k \in Keys /\ c \in Calls /\ c.pc = "transferring" /\ c.auth = k
  BY <1>1 DEF Calls, ControlStates
<1>3. /\ UNCHANGED <<permitActive, acquisition, transferAuths, executions, secret, outside,
                     mishaps>>
      /\ call' = [call EXCEPT ![x] = c]
  <2>1. UNCHANGED <<permitActive, acquisition, transferAuths, executions, secret, outside,
                    mishaps>>
    BY DEF AuthorizeAcquire
  <2>2. call' = [call EXCEPT ![x] = c]
    BY <1>1 DEF AuthorizeAcquire
  <2> QED
    BY <2>1, <2>2
<1>4. /\ call' \in [Processes -> Calls] /\ \A y \in Processes \ {x} : call'[y] = call[y]
      /\ call'[x] = c
  BY <1>1, <1>2, <1>3
<1>5. /\ acquireAuths' \in [Keys -> AuthorizationRows \cup {None}]
      /\ acquireAuths'[k] # None
      /\ \A j \in Keys : \/ acquireAuths'[j] = acquireAuths[j]
                         \/ acquireAuths[j] = None /\ acquireAuths'[j] = NewAuthorization
  <2>1. CASE call[x].auth # None
    BY <1>1, <2>1 DEF AuthorizeAcquire, CallSound, RowsOK
  <2>2. CASE call[x].auth = None
    BY <1>1, <2>2, NoneFacts DEF AuthorizeAcquire, RowsOK
  <2> QED
    BY <2>1, <2>2
<1>6. RowsOK' /\ RowsGrow
  BY <1>1, <1>3, <1>5, NoneFacts DEF RowsOK, RowsGrow
<1>7. AttemptsConsistent' /\ OneFundingRow'
  BY <1>3, <1>5, NoneFacts DEF GiftInv, AttemptsConsistent, OneFundingRow
<1>8. CallSound(call[x])'
  BY <1>1, <1>2, <1>3, <1>4, <1>5 DEF CallSound, Buying, SavesDispatch, ToSend
<1>9. CallsGoOn
  BY <1>2, <1>4, <1>8 DEF CallsGoOn, Buying, SavesDispatch, ToSend
<1> QED
  BY <1>1, <1>3, <1>4, <1>6, <1>7, <1>9, RowsMove

\* The call that authorizes the transfer is the only one that buys under it, and
\* nothing was sent under it.
LEMMA AuthorizeTransferKeeps ==
    ASSUME GiftInv, NEW x \in Processes, AuthorizeTransfer(x)
    PROVE  GiftInv'
<1> USE DEF executions, outside, daemon
<1> DEFINE c == [call[x] EXCEPT !.pc = "savingIds"]
<1>1. /\ call[x] \in Calls /\ CallSound(call[x]) /\ call \in [Processes -> Calls]
      /\ acquisition # None /\ call[x].auth \in Keys /\ call[x].auth # None
      /\ acquireAuths[call[x].auth] # None /\ RowsOK
  BY NoneFacts DEF GiftInv, TypeOK, CallsSound, CallSound, AuthorizeTransfer, RowsOK
<1>2. PICK k \in Keys : k = call[x].auth
  BY <1>1
<1>3. /\ UNCHANGED <<permitActive, acquisition, acquireAuths, executions, secret, outside,
                     mishaps>>
      /\ call' = [call EXCEPT ![x] = c]
      /\ transferAuths[k] = None
      /\ transferAuths' = [transferAuths EXCEPT ![k] = NewAuthorization]
  BY <1>2 DEF AuthorizeTransfer, Goes
<1>4. c \in Calls /\ c.pc = "savingIds" /\ c.auth = k
  BY <1>1, <1>2 DEF Calls, ControlStates
<1>5. /\ call' \in [Processes -> Calls] /\ \A y \in Processes \ {x} : call'[y] = call[y]
      /\ call'[x] = c
  BY <1>1, <1>3, <1>4
<1>6. /\ transferAuths' \in [Keys -> AuthorizationRows \cup {None}]
      /\ transferAuths'[k] = NewAuthorization
      /\ \A j \in Keys \ {k} : transferAuths'[j] = transferAuths[j]
  BY <1>1, <1>3, NoneFacts DEF RowsOK
<1>7. RowsOK' /\ RowsGrow
  BY <1>1, <1>2, <1>3, <1>6, NoneFacts DEF RowsOK, RowsGrow
<1>8. AttemptsConsistent' /\ OneFundingRow' /\ SucceededMeansDelivered' /\ InvoicePostedOnce'
  BY <1>3, <1>6, NoneFacts DEF GiftInv, AttemptsConsistent, OneFundingRow,
     SucceededMeansDelivered, InvoicePostedOnce
<1>9. TypeOK'
  <2>1. acquisition # None => acquisition.auth \in Keys \cup {None}
    BY DEF GiftInv, TypeOK, AcquisitionRows
  <2> QED
    BY <1>3, <1>5, <1>7, <2>1 DEF GiftInv, TypeOK, RowsOK, RowsGrow
<1>10. Grows
  BY <1>3, <1>7, RowsGrowGrows DEF GiftInv
<1>11. CallSound(call[x])'
  BY <1>1, <1>2, <1>3, <1>4, <1>5, <1>6, NoneFacts DEF CallSound, Buying, SavesDispatch, ToSend
<1>12. CallsSound'
  BY <1>5, <1>10, <1>11, OthersStaySound
<1>13. OnePoster'
  BY <1>3, <1>4, <1>5, <1>10 DEF GiftInv, OnePoster, Grows
<1>14. \A y \in Processes : Buying(call[y]) => call[y].auth # k
  <2> SUFFICES ASSUME NEW y \in Processes, Buying(call[y]), call[y].auth = k PROVE FALSE
    OBVIOUS
  <2>1. CallSound(call[y]) /\ call[y].pc # "transferring" /\ k # None
    BY NoneFacts DEF GiftInv, CallsSound, Buying, SavesDispatch, ToSend
  <2> QED
    BY <1>3, <2>1 DEF CallSound
<1>15. OneBuyer'
  <2> SUFFICES ASSUME NEW y \in Processes, NEW z \in Processes, Buying(call'[y]), Buying(call'[z]),
                      call'[y].auth = call'[z].auth
               PROVE  y = z
    BY DEF OneBuyer
  <2>1. CASE y # x /\ z # x
    BY <1>5, <2>1 DEF GiftInv, OneBuyer
  <2>2. CASE y = x /\ z # x
    BY <1>4, <1>5, <1>14, <2>2
  <2>3. CASE y # x /\ z = x
    BY <1>4, <1>5, <1>14, <2>3
  <2> QED
    BY <2>1, <2>2, <2>3
<1>16. SentAndDone'
  <2> SUFFICES ASSUME sends[Payment] > 0
               PROVE  \E j \in Keys : /\ funding[j] = "dispatched" /\ instruments[j]
                                      /\ \A y \in Processes : Buying(call'[y]) => call'[y].auth # j
    BY <1>3 DEF SentAndDone
  <2>1. PICK j \in Keys : /\ funding[j] = "dispatched" /\ instruments[j]
                          /\ \A y \in Processes : Buying(call[y]) => call[y].auth # j
    BY DEF GiftInv, SentAndDone
  <2>2. j # k
    BY <1>1, <1>3, <2>1 DEF RowsOK
  <2>3. ASSUME NEW y \in Processes, Buying(call'[y]) PROVE call'[y].auth # j
    <3>1. CASE y = x
      BY <1>4, <1>5, <2>2, <3>1
    <3>2. CASE y # x
      BY <1>5, <2>1, <2>3, <3>2
    <3> QED
      BY <3>1, <3>2
  <2> QED
    BY <2>1, <2>3
<1> QED
  BY <1>3, <1>8, <1>9, <1>12, <1>13, <1>15, <1>16 DEF GiftInv

\* The steps of sendOnce that write rows.
LEMMA SendRowStepsKeep ==
    ASSUME GiftInv, NEW x \in Processes,
           BeginInstrumentExecution(x) \/ BeginFundingExecution(x) \/ MarkSendDispatched(x)
    PROVE  GiftInv'
<1> USE DEF auths, executions, outside, daemon
<1>1. /\ call[x] \in Calls /\ CallSound(call[x]) /\ call \in [Processes -> Calls]
      /\ acquisition # None /\ call[x].auth \in Keys /\ call[x].auth # None
      /\ acquireAuths[call[x].auth] # None /\ transferAuths[call[x].auth] # None
      /\ Buying(call[x])
      /\ RowsOK /\ AttemptsConsistent /\ OneFundingRow
      /\ permitActive \in BOOLEAN /\ mishaps \in 0..MaxMishaps
  BY NoneFacts DEF GiftInv, TypeOK, CallsSound, CallSound, BeginInstrumentExecution,
     BeginFundingExecution, MarkSendDispatched, RowsOK, Buying, ToSend
<1>2. PICK k \in Keys : k = call[x].auth
  BY <1>1
<1>3. CASE BeginInstrumentExecution(x)
  <2> DEFINE c == [call[x] EXCEPT !.pc = "funding"]
  <2>1. /\ call' = [call EXCEPT ![x] = c]
        /\ UNCHANGED <<permitActive, acquisition, transferAuths, funding, secret, outside, mishaps>>
    BY <1>3 DEF BeginInstrumentExecution, Goes
  <2>2. c \in Calls /\ c.pc = "funding" /\ c.auth = k
    BY <1>1, <1>2 DEF Calls, ControlStates
  <2>3. /\ call' \in [Processes -> Calls] /\ \A y \in Processes \ {x} : call'[y] = call[y]
        /\ call'[x] = c
    BY <1>1, <2>1, <2>2
  <2>4. RowsOK' /\ RowsGrow /\ AttemptsConsistent' /\ OneFundingRow' /\ instruments'[k]
    <3>1. CASE instruments[k]
      <4>1. UNCHANGED <<instruments, acquireAuths>>
        BY <1>2, <1>3, <3>1 DEF BeginInstrumentExecution
      <4> QED
        BY <1>1, <2>1, <3>1, <4>1 DEF RowsOK, RowsGrow, AttemptsConsistent, OneFundingRow
    <3>2. CASE ~instruments[k]
      <4>1. /\ TransitionAccepted(acquireAuths[k], "EXECUTING")
            /\ acquireAuths' = [acquireAuths EXCEPT ![k] = transitionAuthorization(@, "EXECUTING")]
            /\ instruments' = [instruments EXCEPT ![k] = TRUE]
        BY <1>2, <1>3, <3>2 DEF BeginInstrumentExecution
      <4>2. instruments'[k]
        BY <1>1, <4>1 DEF RowsOK
      <4> QED
        BY <1>1, <1>2, <2>1, <4>1, <4>2, AcquireMoves DEF AuthorizationStatus
    <3> QED
      BY <3>1, <3>2
  <2>5. CallSound(call[x])'
    BY <1>1, <1>2, <2>1, <2>2, <2>3, <2>4
       DEF CallSound, Buying, SavesDispatch, ToSend, RowsGrow
  <2>6. CallsGoOn
    BY <1>1, <1>2, <2>2, <2>3, <2>5 DEF CallsGoOn
  <2> QED
    BY <1>1, <2>1, <2>3, <2>4, <2>6, RowsMove
<1>4. CASE BeginFundingExecution(x)
  <2> DEFINE c == [call[x] EXCEPT !.pc = "marking"]
  <2>1. /\ call' = [call EXCEPT ![x] = c] /\ call[x].pc = "funding"
        /\ UNCHANGED <<permitActive, acquisition, acquireAuths, instruments, secret, outside,
                       mishaps>>
    BY <1>4 DEF BeginFundingExecution, Goes
  <2>2. c \in Calls /\ c.pc = "marking" /\ c.auth = k
    BY <1>1, <1>2 DEF Calls, ControlStates
  <2>3. /\ call' \in [Processes -> Calls] /\ \A y \in Processes \ {x} : call'[y] = call[y]
        /\ call'[x] = c
    BY <1>1, <2>1, <2>2
  <2>4. RowsOK' /\ RowsGrow /\ AttemptsConsistent' /\ OneFundingRow' /\ funding'[k] # "none"
    <3>1. CASE funding[k] # "none"
      <4>1. UNCHANGED <<funding, transferAuths>>
        BY <1>2, <1>4, <3>1 DEF BeginFundingExecution
      <4> QED
        BY <1>1, <2>1, <3>1, <4>1 DEF RowsOK, RowsGrow, AttemptsConsistent, OneFundingRow
    <3>2. CASE funding[k] = "none"
      <4>1. /\ TransitionAccepted(transferAuths[k], "EXECUTING")
            /\ transferAuths' = [transferAuths EXCEPT ![k] = transitionAuthorization(@, "EXECUTING")]
            /\ funding' = [funding EXCEPT ![k] = "begun"]
            /\ \A other \in Keys : funding[other] = "none"
        BY <1>2, <1>4, <3>2 DEF BeginFundingExecution
      <4>2. funding'[k] # "none"
        BY <1>1, <4>1 DEF RowsOK
      <4> QED
        BY <1>1, <1>2, <2>1, <4>1, <4>2, TransferMoves DEF AuthorizationStatus
    <3> QED
      BY <3>1, <3>2
  <2>5. CallSound(call[x])'
    BY <1>1, <1>2, <2>1, <2>2, <2>3, <2>4
       DEF CallSound, Buying, SavesDispatch, ToSend, RowsGrow
  <2>6. CallsGoOn
    BY <1>1, <1>2, <2>2, <2>3, <2>5 DEF CallsGoOn
  <2> QED
    BY <1>1, <2>1, <2>3, <2>4, <2>6, RowsMove
<1>5. CASE MarkSendDispatched(x)
  <2> DEFINE c == [call[x] EXCEPT !.pc = "saving", !.write = "SEND_DISPATCHED"]
  <2>1. /\ call' = [call EXCEPT ![x] = c] /\ call[x].pc = "marking"
        /\ UNCHANGED <<permitActive, acquisition, auths, instruments, secret, outside, mishaps>>
        /\ funding' = [funding EXCEPT ![k] = "dispatched"]
    BY <1>2, <1>5 DEF MarkSendDispatched, Writes
  <2>2. c \in Calls /\ c.pc = "saving" /\ c.auth = k /\ c.write = "SEND_DISPATCHED"
    BY <1>1, <1>2 DEF Calls, ControlStates, AcquisitionStatus
  <2>3. /\ call' \in [Processes -> Calls] /\ \A y \in Processes \ {x} : call'[y] = call[y]
        /\ call'[x] = c
    BY <1>1, <2>1, <2>2
  <2>4. /\ funding' \in [Keys -> {"none", "begun", "dispatched"}]
        /\ funding'[k] = "dispatched" /\ funding[k] # "none"
        /\ \A j \in Keys \ {k} : funding'[j] = funding[j]
    BY <1>1, <1>2, <2>1 DEF RowsOK, CallSound
  <2>5. RowsOK' /\ RowsGrow
    BY <1>1, <2>1, <2>4 DEF RowsOK, RowsGrow
  <2>6. AttemptsConsistent' /\ OneFundingRow'
    BY <1>1, <2>1, <2>4 DEF AttemptsConsistent, OneFundingRow
  <2>7. CallSound(call[x])'
    BY <1>1, <1>2, <2>1, <2>2, <2>3, <2>4, <2>5
       DEF CallSound, Buying, SavesDispatch, ToSend, AcquisitionStatus
  <2>8. CallsGoOn
    BY <1>1, <1>2, <2>2, <2>3, <2>7 DEF CallsGoOn
  <2> QED
    BY <1>1, <2>1, <2>3, <2>5, <2>6, <2>8, RowsMove
<1> QED
  BY <1>3, <1>4, <1>5

\* Settling an Authorization, of the transfer or of the card.
LEMMA SettleStepsKeep ==
    ASSUME GiftInv, NEW x \in Processes, SettleTransfer(x) \/ SettleAcquire(x)
    PROVE  GiftInv'
<1> USE DEF auths, executions, outside, daemon
<1>1. /\ call[x] \in Calls /\ CallSound(call[x]) /\ call \in [Processes -> Calls]
      /\ acquisition # None
      /\ RowsOK /\ AttemptsConsistent /\ OneFundingRow
      /\ permitActive \in BOOLEAN /\ mishaps \in 0..MaxMishaps
  BY DEF GiftInv, TypeOK, CallsSound, CallSound, SettleTransfer, SettleAcquire, RowsOK
<1>2. ASSUME NEW status \in {"PAYMENT_CONFIRMED", "PAYMENT_AMBIGUOUS", "SUCCEEDED",
                             "RECONCILIATION_REQUIRED"},
             Writes(x, status), UNCHANGED <<acquisition, secret, outside>>, RowsGrow,
             RowsOK', call[x].pc # "transferring",
             status = "SUCCEEDED" => secret /\ shop = "delivered"
      PROVE  call' \in [Processes -> Calls] /\ CallsGoOn
  <2> DEFINE c == [call[x] EXCEPT !.pc = "saving", !.write = status]
  <2>1. call' = [call EXCEPT ![x] = c]
    BY <1>2 DEF Writes
  <2>2. c \in Calls /\ c.pc = "saving" /\ c.auth = call[x].auth /\ c.write = status
    BY <1>1, <1>2 DEF Calls, ControlStates, AcquisitionStatus
  <2>3. /\ call' \in [Processes -> Calls] /\ \A y \in Processes \ {x} : call'[y] = call[y]
        /\ call'[x] = c
    BY <1>1, <2>1, <2>2
  <2>4. c.auth \in Keys \cup {None} /\ status \in AcquisitionStatus
    BY <1>1, <1>2, <2>2 DEF Calls, AcquisitionStatus
  <2>5. CallSound(call[x])'
    BY <1>1, <1>2, <2>2, <2>3, <2>4
       DEF CallSound, Buying, SavesDispatch, ToSend, RowsGrow
  <2>6. CallsGoOn
    BY <1>2, <2>2, <2>3, <2>5 DEF CallsGoOn, Buying, SavesDispatch, ToSend
  <2> QED
    BY <2>3, <2>6
<1>3. CASE SettleTransfer(x)
  <2>1. /\ call[x].pc \in {"confirming", "doubting"} /\ call[x].auth \in Keys
        /\ call[x].auth # None /\ transferAuths[call[x].auth] # None
    BY <1>1, <1>3, NoneFacts DEF CallSound, SettleTransfer
  <2>2. PICK k \in Keys : k = call[x].auth
    BY <2>1
  <2>3. PICK verdict \in {"SUCCEEDED", "AMBIGUOUS"} :
           /\ TransitionAccepted(transferAuths[k], verdict)
           /\ transferAuths' = [transferAuths EXCEPT ![k] = transitionAuthorization(@, verdict)]
           /\ Writes(x, IF verdict = "SUCCEEDED" THEN "PAYMENT_CONFIRMED" ELSE "PAYMENT_AMBIGUOUS")
    <3>1. Verdict(call[x].pc) \in {"SUCCEEDED", "AMBIGUOUS"}
      BY DEF Verdict
    <3> QED
      BY <1>3, <2>2, <3>1 DEF SettleTransfer
  <2>4. UNCHANGED <<permitActive, acquisition, acquireAuths, executions, secret, outside, mishaps>>
    BY <1>3 DEF SettleTransfer
  <2>5. verdict \in AuthorizationStatus /\ transferAuths[k] # None
    BY <2>1, <2>2 DEF AuthorizationStatus
  <2>6. RowsOK' /\ RowsGrow /\ AttemptsConsistent' /\ OneFundingRow'
    BY <2>3, <2>4, <2>5, TransferMoves
  <2>7. call' \in [Processes -> Calls] /\ CallsGoOn
    BY <1>2, <2>1, <2>3, <2>4, <2>6
  <2> QED
    BY <1>1, <2>4, <2>6, <2>7, RowsMove
<1>4. CASE SettleAcquire(x)
  <2>1. /\ UNCHANGED <<permitActive, acquisition, transferAuths, executions, secret, outside,
                       mishaps>>
        /\ call[x].pc = "crediting" /\ secret /\ shop = "delivered"
        /\ call[x].auth \in Keys \cup {None}
    BY <1>1, <1>4 DEF SettleAcquire, CallSound, Calls
  <2>2. Writes(x, "SUCCEEDED") \/ Writes(x, "RECONCILIATION_REQUIRED")
    BY <1>4 DEF SettleAcquire
  <2>3. RowsOK' /\ RowsGrow /\ AttemptsConsistent' /\ OneFundingRow'
    <3>1. CASE UNCHANGED acquireAuths
      BY <1>1, <2>1, <3>1 DEF RowsOK, RowsGrow, AttemptsConsistent, OneFundingRow
    <3>2. CASE /\ call[x].auth # None
               /\ TransitionAccepted(acquireAuths[call[x].auth], "SUCCEEDED")
               /\ acquireAuths' = [acquireAuths EXCEPT ![call[x].auth] =
                                       transitionAuthorization(@, "SUCCEEDED")]
      <4>1. PICK k \in Keys : k = call[x].auth
        BY <2>1, <3>2
      <4>2. acquireAuths[k] # None /\ "SUCCEEDED" \in AuthorizationStatus
        BY <1>1, <3>2, <4>1 DEF CallSound, AuthorizationStatus
      <4>3. /\ TransitionAccepted(acquireAuths[k], "SUCCEEDED")
            /\ acquireAuths' = [acquireAuths EXCEPT ![k] = transitionAuthorization(@, "SUCCEEDED")]
        BY <3>2, <4>1
      <4> QED
        BY <2>1, <4>2, <4>3, AcquireMoves
    <3> QED
      BY <1>4, <3>1, <3>2 DEF SettleAcquire
  <2>4. call' \in [Processes -> Calls] /\ CallsGoOn
    BY <1>2, <2>1, <2>2, <2>3
  <2> QED
    BY <1>1, <2>1, <2>3, <2>4, RowsMove
<1> QED
  BY <1>3, <1>4

-----------------------------------------------------------------------------
(* The operator, the shop, the disk and the daemon.                        *)

LEMMA OperatorKeeps ==
    ASSUME GiftInv, NEW k \in Keys, Operator(k)
    PROVE  GiftInv'
<1> USE DEF auths, executions, outside, daemon
<1>1. /\ UNCHANGED <<permitActive, acquisition, executions, secret, call, outside>>
      /\ permitActive \in BOOLEAN /\ call \in [Processes -> Calls] /\ CallsGoOn
  BY DEF Operator, GiftInv, TypeOK, CallsGoOn
<1>2. mishaps' \in 0..MaxMishaps
  BY AcquisitionAssumption DEF Operator, GiftInv, TypeOK
<1>3. PICK requested \in OperatorCommands :
         \/ /\ Moved(acquireAuths, k, requested)
            /\ acquireAuths' = [acquireAuths EXCEPT ![k] = transitionAuthorization(@, requested)]
            /\ UNCHANGED transferAuths
         \/ /\ Moved(transferAuths, k, requested)
            /\ transferAuths' = [transferAuths EXCEPT ![k] = transitionAuthorization(@, requested)]
            /\ UNCHANGED acquireAuths
  BY DEF Operator
<1>4. requested \in AuthorizationStatus
  BY AcquisitionAssumption
<1>5. RowsOK' /\ RowsGrow /\ AttemptsConsistent' /\ OneFundingRow'
  BY <1>1, <1>3, <1>4, AcquireMoves, TransferMoves DEF Moved
<1> QED
  BY <1>1, <1>2, <1>5, RowsMove

LEMMA RevokeKeeps == GiftInv /\ Revoke => GiftInv'
<1> SUFFICES ASSUME GiftInv, Revoke PROVE GiftInv'
  OBVIOUS
<1> USE DEF auths, executions, outside, daemon
<1>1. /\ UNCHANGED <<acquisition, auths, executions, secret, call, outside>>
      /\ permitActive' \in BOOLEAN /\ call \in [Processes -> Calls] /\ CallsGoOn
  BY DEF Revoke, GiftInv, TypeOK, CallsGoOn
<1>2. mishaps' \in 0..MaxMishaps
  BY AcquisitionAssumption DEF Revoke, GiftInv, TypeOK
<1>3. RowsOK' /\ RowsGrow /\ AttemptsConsistent' /\ OneFundingRow'
  BY <1>1 DEF GiftInv, TypeOK, RowsOK, RowsGrow, AttemptsConsistent, OneFundingRow
<1> QED
  BY <1>1, <1>2, <1>3, RowsMove

\* The shop and the daemon move, and the disk keeps the secret.
LEMMA OutsideStepsKeep ==
    ASSUME GiftInv, ShopMoves \/ DaemonMoves \/ \E x \in Processes : StoreSecret(x)
    PROVE  GiftInv'
<1> USE DEF store, auths, executions
<1>1. UNCHANGED <<store, posts, mishaps>> /\ sends' = sends
  BY DEF ShopMoves, DaemonMoves, StoreSecret, outside, daemon, Pays, Finishes
<1>2. /\ secret \in BOOLEAN /\ secret' \in BOOLEAN /\ (secret => secret')
      /\ shop' \in {"none", "unpaid", "expired", "paid", "failed", "complete", "delivered"}
      /\ shop = "delivered" => shop' = "delivered"
  BY DEF GiftInv, TypeOK, ShopMoves, DaemonMoves, StoreSecret, outside
<1>3. /\ activity' \in [PaymentHashes -> Entries]
      /\ activity[Payment] = "complete" => activity'[Payment] = "complete"
  <2>1. CASE ShopMoves \/ \E x \in Processes : StoreSecret(x)
    BY <2>1 DEF GiftInv, TypeOK, ShopMoves, StoreSecret, outside, daemon
  <2>2. CASE DaemonMoves
    BY <2>2, AcquisitionAssumption DEF GiftInv, TypeOK, DaemonMoves, Pays, Finishes, Entries
  <2> QED
    BY <2>1, <2>2
<1>4. call' \in [Processes -> Calls] /\ CallsGoOn
  <2>1. CASE ShopMoves \/ DaemonMoves
    BY <2>1 DEF GiftInv, TypeOK, ShopMoves, DaemonMoves, CallsGoOn
  <2>2. CASE \E x \in Processes : StoreSecret(x)
    <3>1. PICK x \in Processes : StoreSecret(x)
      BY <2>2
    <3> DEFINE c == [call[x] EXCEPT !.pc = "crediting"]
    <3>2. /\ call[x] \in Calls /\ CallSound(call[x]) /\ call \in [Processes -> Calls]
          /\ call[x].pc = "storing" /\ shop = "delivered" /\ acquisition # None
      BY <3>1 DEF GiftInv, TypeOK, CallsSound, CallSound, StoreSecret
    <3>3. /\ secret' /\ UNCHANGED <<store, outside, mishaps>>
          /\ call' = [call EXCEPT ![x] = c]
      BY <3>1 DEF StoreSecret, Goes
    <3>4. c \in Calls /\ c.pc = "crediting" /\ c.auth = call[x].auth
      BY <3>2 DEF Calls, ControlStates
    <3>5. /\ call' \in [Processes -> Calls] /\ \A y \in Processes \ {x} : call'[y] = call[y]
          /\ call'[x] = c
      BY <3>2, <3>3, <3>4
    <3>6. CallSound(call[x])'
      BY <3>2, <3>3, <3>4, <3>5 DEF CallSound, Buying, SavesDispatch, ToSend, outside
    <3> QED
      BY <3>4, <3>5, <3>6 DEF CallsGoOn, Buying, SavesDispatch, ToSend
  <2> QED
    BY <2>1, <2>2
<1>5. TypeOK'
  BY <1>1, <1>2, <1>3, <1>4 DEF GiftInv, TypeOK
<1>6. Grows
  BY <1>1, <1>2, <1>3 DEF Grows, InvoicePosted
<1>7. AttemptsConsistent' /\ OneFundingRow' /\ SucceededMeansDelivered'
  BY <1>1, <1>2 DEF GiftInv, AttemptsConsistent, OneFundingRow, SucceededMeansDelivered
<1> QED
  BY <1>1, <1>4, <1>5, <1>6, <1>7, QuietStep

\* The Send leaves under an Authorization of which no other call buys, and which has
\* sent nothing.
LEMMA DispatchSendKeeps ==
    ASSUME GiftInv, NEW x \in Processes, DispatchSend(x)
    PROVE  GiftInv'
<1> USE DEF store, auths, executions
<1> DEFINE c == [call[x] EXCEPT !.pc = "sent"]
<1>1. /\ call[x] \in Calls /\ CallSound(call[x]) /\ call \in [Processes -> Calls]
      /\ call[x].pc = "dispatching" /\ acquisition # None /\ call[x].auth \in Keys
      /\ Buying(call[x]) /\ instruments[call[x].auth] /\ funding[call[x].auth] = "dispatched"
      /\ sends \in [PaymentHashes -> 0..MaxSends]
  BY DEF GiftInv, TypeOK, CallsSound, CallSound, DispatchSend, Buying, ToSend
<1>2. PICK k \in Keys : k = call[x].auth
  BY <1>1
<1>3. sends[Payment] = 0
  <2>1. sends[Payment] \in Nat
    BY <1>1, AcquisitionAssumption
  <2>2. ASSUME sends[Payment] > 0 PROVE FALSE
    <3>1. PICK j \in Keys : /\ funding[j] = "dispatched"
                            /\ \A y \in Processes : Buying(call[y]) => call[y].auth # j
      BY <2>2 DEF GiftInv, SentAndDone
    <3>2. j = k
      BY <1>1, <1>2, <3>1 DEF GiftInv, OneFundingRow
    <3> QED
      BY <1>1, <1>2, <3>1, <3>2
  <2> QED
    BY <2>1, <2>2
<1>4. /\ call' = [call EXCEPT ![x] = c] /\ UNCHANGED <<store, secret, posts, shop, mishaps>>
      /\ UNCHANGED activity /\ sends' = [sends EXCEPT ![Payment] = @ + 1]
      /\ sends[Payment] < MaxSends
  BY DEF DispatchSend, Goes, SendLeaves
<1>5. sends' \in [PaymentHashes -> 0..MaxSends] /\ sends'[Payment] = 1
  BY <1>1, <1>3, <1>4, AcquisitionAssumption
<1>6. c \in Calls /\ c.pc = "sent" /\ c.auth = k /\ ~Buying(c)
  BY <1>1, <1>2 DEF Calls, ControlStates, Buying, SavesDispatch, ToSend
<1>7. /\ call' \in [Processes -> Calls] /\ \A y \in Processes \ {x} : call'[y] = call[y]
      /\ call'[x] = c
  BY <1>1, <1>4, <1>6
<1>8. TypeOK'
  BY <1>4, <1>5, <1>7 DEF GiftInv, TypeOK
<1>9. AttemptsConsistent' /\ OneFundingRow' /\ SucceededMeansDelivered' /\ InvoicePostedOnce'
  BY <1>4 DEF GiftInv, AttemptsConsistent, OneFundingRow, SucceededMeansDelivered,
              InvoicePostedOnce
<1>10. Grows
  BY <1>4 DEF Grows, InvoicePosted
<1>11. CallSound(call[x])'
  BY <1>1, <1>2, <1>4, <1>6, <1>7 DEF CallSound, Buying, SavesDispatch, ToSend
<1>12. CallsSound'
  BY <1>7, <1>10, <1>11, OthersStaySound
<1>13. OnePoster'
  BY <1>4, <1>6, <1>7, <1>10 DEF GiftInv, OnePoster, Grows
<1>14. OneBuyer'
  BY <1>6, <1>7 DEF GiftInv, OneBuyer
<1>15. SentAndDone'
  <2>1. ASSUME NEW y \in Processes, Buying(call'[y]) PROVE call'[y].auth # k
    BY <1>1, <1>2, <1>6, <1>7, <2>1 DEF GiftInv, OneBuyer
  <2>2. funding'[k] = "dispatched" /\ instruments'[k]
    BY <1>1, <1>2, <1>4
  <2> QED
    BY <2>1, <2>2 DEF SentAndDone
<1> QED
  BY <1>5, <1>8, <1>9, <1>12, <1>13, <1>14, <1>15 DEF GiftInv

-----------------------------------------------------------------------------
(* The theorems.                                                           *)

LEMMA InitEstablishes == Init => GiftInv
<1> SUFFICES ASSUME Init PROVE GiftInv
  OBVIOUS
<1>1. TypeOK
  <2>1. 0 \in 0..MaxPosts /\ 0 \in 0..MaxSends /\ 0 \in 0..MaxMishaps
    BY AcquisitionAssumption
  <2>2. call \in [Processes -> Calls]
    BY NoneFacts DEF Init
  <2>3. /\ sends \in [PaymentHashes -> 0..MaxSends]
        /\ activity \in [PaymentHashes -> Entries]
    BY <2>1 DEF Init, DaemonInit, Entries
  <2>4. /\ acquireAuths \in [Keys -> AuthorizationRows \cup {None}]
        /\ transferAuths \in [Keys -> AuthorizationRows \cup {None}]
        /\ instruments \in [Keys -> BOOLEAN]
        /\ funding \in [Keys -> {"none", "begun", "dispatched"}]
    BY DEF Init
  <2>5. \A k \in Keys : transferAuths[k] = None /\ ~instruments[k] /\ funding[k] = "none"
    BY DEF Init
  <2> QED
    BY <2>1, <2>2, <2>3, <2>4, <2>5 DEF Init, TypeOK
<1>2. \A x \in Processes : call[x] = Idle
  BY DEF Init
<1>3. CallsSound
  BY <1>2 DEF CallsSound, CallSound, Idle, Buying, SavesDispatch, ToSend
<1>4. OnePoster /\ OneBuyer
  BY <1>2 DEF OnePoster, OneBuyer, Idle, Buying, SavesDispatch, ToSend, Init
<1>5. AttemptsConsistent /\ OneFundingRow /\ InvoicePostedOnce /\ SucceededMeansDelivered
  BY DEF Init, AttemptsConsistent, OneFundingRow, InvoicePostedOnce, SucceededMeansDelivered
<1>6. sends[Payment] = 0
  BY AcquisitionAssumption DEF Init, DaemonInit
<1> QED
  BY <1>1, <1>3, <1>4, <1>5, <1>6 DEF GiftInv, SentAndDone

LEMMA NextKeeps == GiftInv /\ [Next]_vars => GiftInv'
<1> SUFFICES ASSUME GiftInv, [Next]_vars PROVE GiftInv'
  OBVIOUS
<1>1. ASSUME NEW x \in Processes, StartAcquire(x) \/ StartReconcile(x) \/ Step(x) \/ Crash(x)
      PROVE  GiftInv'
  BY <1>1, AcquireCallStepsKeep, ReconcileCallStepsKeep, RecordStepsKeep,
     ClaimInvoiceDispatchKeeps, PostInvoiceKeeps, AuthorizeAcquireKeeps, AuthorizeTransferKeeps,
     SendRowStepsKeep, SettleStepsKeep, OutsideStepsKeep, DispatchSendKeeps DEF Step
<1>2. ASSUME NEW k \in Keys, Operator(k) PROVE GiftInv'
  BY <1>2, OperatorKeeps
<1>3. CASE Revoke \/ ShopMoves \/ DaemonMoves
  BY <1>3, RevokeKeeps, OutsideStepsKeep
<1>4. CASE UNCHANGED vars
  BY <1>4 DEF vars, world, store, auths, executions, outside, daemon, GiftInv, TypeOK, CallsSound,
     CallSound, InvoicePosted, AttemptsConsistent, OnePoster, OneBuyer, OneFundingRow,
     SentAndDone, InvoicePostedOnce, SucceededMeansDelivered
<1> QED
  BY <1>1, <1>2, <1>3, <1>4 DEF Next

\* In every state of every run: whatever processes run, however their calls
\* interleave and whatever they had read before they waited, one call at a time
\* buys under an Authorization, and none under the one the payment was sent under.
THEOREM GiftInvariant == Spec => []GiftInv
<1> QED
  BY InitEstablishes, NextKeeps, PTL DEF Spec

\* The record, the rows and the calls keep their types, and the rows agree: a
\* transfer below an Authorization, a row below one whose action may have begun.
THEOREM GiftTypeCorrect == Spec => []TypeOK
<1>1. GiftInv => TypeOK
  BY DEF GiftInv
<1> QED
  BY <1>1, GiftInvariant, PTL

\* claimGiftCardInvoiceDispatch lets one call post: the shop is asked for one
\* invoice, whatever processes, keys and restarts there are.
THEOREM GiftInvoicePostedOnce == Spec => []InvoicePostedOnce
<1>1. GiftInv => InvoicePostedOnce
  BY DEF GiftInv
<1> QED
  BY <1>1, GiftInvariant, PTL

\* sendOnce hands the payment to the daemon at most once, on record and under
\* both Authorizations, though it decides by rows it read before it waited.
THEOREM GiftSentAtMostOnce == Spec => []SendAtMostOnce
<1>1. GiftInv => SendAtMostOnce
  <2> SUFFICES ASSUME GiftInv PROVE SendAtMostOnce
    OBVIOUS
  <2>1. sends[Payment] > 0 => \E k \in Keys : funding[k] = "dispatched" /\ instruments[k]
    BY DEF GiftInv, SentAndDone
  <2>2. \A k \in Keys : instruments[k] => acquireAuths[k].externalActionAttempted
    BY DEF GiftInv, TypeOK
  <2>3. sends[Payment] <= 1
    BY DEF GiftInv
  <2> QED
    BY <2>1, <2>2, <2>3 DEF SendAtMostOnce
<1> QED
  BY <1>1, GiftInvariant, PTL

\* The record says SUCCEEDED only of a card the shop has delivered and whose
\* secret is on disk, however old the calls are that write it.
THEOREM GiftSucceededDelivered == Spec => []SucceededMeansDelivered
<1>1. GiftInv => SucceededMeansDelivered
  BY DEF GiftInv
<1> QED
  BY <1>1, GiftInvariant, PTL

-----------------------------------------------------------------------------
(* The refinement: GiftCardAcquisition implements PaymentPromise, unless   *)
(* an operator declares an outcome by hand.  A simulated outcome of a      *)
(* payment that is not simulated may say what did not happen.              *)

\* The commands a mainnet operator has: none says how a payment ended.
PlainCommandsOnly == {"SUCCEEDED", "FAILED_SAFE"} \cap OperatorCommands = {}

-----------------------------------------------------------------------------
(* What the mapping needs to know.                                         *)

\* The transfer stands for a payment that was sent: nobody can release it.
Covers(k) ==
    /\ transferAuths[k] # None
    /\ transferAuths[k].status \in {"EXECUTING", "SUCCEEDED", "AMBIGUOUS"}

\* Success is only of a payment that was made, a payment that left is covered, and what
\* the daemon knows of was sent.
SuccessIsMade ==
    \A k \in Keys : transferAuths[k] # None /\ transferAuths[k].status = "SUCCEEDED" =>
        activity[Payment] = "complete"

SentIsCovered == sends[Payment] > 0 => \E k \in Keys : Covers(k)

MadeWasSent == activity[Payment] # "none" => sends[Payment] > 0

Covered == SuccessIsMade /\ SentIsCovered /\ MadeWasSent

\* A transfer was recorded as made.
Recorded == \E k \in Keys : transferAuths[k] # None /\ transferAuths[k].status = "SUCCEEDED"

-----------------------------------------------------------------------------
(* The kinds of steps.                                                     *)

\* A transfer moves to a status it may have.
TransferTurns(k, requested) ==
    /\ transferAuths[k] # None
    /\ TransitionAccepted(transferAuths[k], requested)
    /\ transferAuths' = [transferAuths EXCEPT ![k] = transitionAuthorization(@, requested)]
    /\ UNCHANGED daemon

\* All a step may do to the transfers and to the daemon.
LEMMA StepKinds ==
    ASSUME GiftInv, PlainCommandsOnly, [Next]_vars
    PROVE  \/ UNCHANGED <<transferAuths, daemon>>
           \/ \E x \in Processes : AuthorizeTransfer(x)
           \/ \E x \in Processes : DispatchSend(x)
           \/ DaemonMoves
           \/ \E k \in Keys : TransferTurns(k, "EXECUTING")
           \/ \E k \in Keys : TransferTurns(k, "AMBIGUOUS")
           \/ \E k \in Keys : TransferTurns(k, "RELEASED") /\ transferAuths[k].status # "RELEASED"
           \/ \E k \in Keys : TransferTurns(k, "SUCCEEDED") /\ activity[Payment] = "complete"
<1> USE DEF auths, executions, store, outside, world, besidesRecord
<1>1. ASSUME NEW x \in Processes,
             \/ StartAcquire(x) \/ StartReconcile(x) \/ Crash(x) \/ BeginAcquisition(x)
             \/ ClaimInvoiceDispatch(x) \/ ResumeClaimed(x) \/ PostInvoice(x)
             \/ InvoiceCreated(x) \/ InvoiceFailed(x) \/ InvoiceStillUnpaid(x) \/ Prepared(x)
             \/ AuthorizeAcquire(x) \/ SaveIds(x) \/ ReadForSend(x) \/ Revalidated(x)
             \/ BeginInstrumentExecution(x) \/ MarkSendDispatched(x) \/ SendAnswered(x)
             \/ SendUncertain(x)
      PROVE  UNCHANGED <<transferAuths, daemon>>
  BY <1>1 DEF StartAcquire, StartReconcile, Crash, BeginAcquisition,
     ClaimInvoiceDispatch, ResumeClaimed, PostInvoice, InvoiceCreated, InvoiceFailed,
     InvoiceStillUnpaid, Prepared, AuthorizeAcquire, SaveIds, ReadForSend, Revalidated,
     BeginInstrumentExecution, MarkSendDispatched, SendAnswered, SendUncertain
<1>2. ASSUME NEW x \in Processes,
             \/ ConsumeFunding(x) \/ Inspected(x) \/ InspectedNothing(x) \/ AskShop(x)
             \/ AskOrder(x) \/ AskedInVain(x) \/ StoreSecret(x) \/ SecretNotStored(x)
             \/ SettleAcquire(x) \/ Save(x) \/ Throws(x)
      PROVE  UNCHANGED <<transferAuths, daemon>>
  BY <1>2 DEF ConsumeFunding, Inspected, InspectedNothing, AskShop, AskOrder, AskedInVain,
     StoreSecret, SecretNotStored, SettleAcquire, Save, Throws
<1>3. ASSUME NEW x \in Processes, BeginFundingExecution(x)
      PROVE  \/ UNCHANGED <<transferAuths, daemon>>
             \/ \E k \in Keys : TransferTurns(k, "EXECUTING")
  <2>1. CallSound(call[x]) /\ call[x].pc = "funding"
    BY <1>3 DEF GiftInv, CallsSound, BeginFundingExecution
  <2>2. call[x].auth \in Keys /\ transferAuths[call[x].auth] # None
    BY <2>1, NoneFacts DEF CallSound, Buying, ToSend
  <2>3. CASE funding[call[x].auth] # "none"
    BY <1>3, <2>3 DEF BeginFundingExecution
  <2>4. CASE funding[call[x].auth] = "none"
    BY <1>3, <2>2, <2>4 DEF BeginFundingExecution, TransferTurns
  <2> QED
    BY <2>3, <2>4
<1>4. ASSUME NEW x \in Processes, SettleTransfer(x)
      PROVE  \/ \E k \in Keys : TransferTurns(k, "AMBIGUOUS")
             \/ \E k \in Keys : TransferTurns(k, "SUCCEEDED") /\ activity[Payment] = "complete"
  <2>1. CallSound(call[x]) /\ call[x].pc \in {"confirming", "doubting"}
    BY <1>4 DEF GiftInv, CallsSound, SettleTransfer
  <2>2. call[x].auth \in Keys /\ transferAuths[call[x].auth] # None
    BY <2>1, NoneFacts DEF CallSound
  <2>3. CASE call[x].pc = "confirming"
    <3>1. TransferTurns(call[x].auth, "SUCCEEDED")
      BY <1>4, <2>2, <2>3 DEF SettleTransfer, Verdict, TransferTurns
    <3> QED
      BY <2>1, <2>2, <2>3, <3>1 DEF CallSound
  <2>4. CASE call[x].pc = "doubting"
    <3>1. TransferTurns(call[x].auth, "AMBIGUOUS")
      BY <1>4, <2>2, <2>4 DEF SettleTransfer, Verdict, TransferTurns
    <3> QED
      BY <2>2, <3>1
  <2> QED
    BY <2>1, <2>3, <2>4
<1>5. ASSUME NEW k \in Keys, Operator(k)
      PROVE  \/ UNCHANGED <<transferAuths, daemon>>
             \/ TransferTurns(k, "EXECUTING") \/ TransferTurns(k, "AMBIGUOUS")
             \/ TransferTurns(k, "RELEASED") /\ transferAuths[k].status # "RELEASED"
  <2>1. PICK requested \in OperatorCommands :
           \/ UNCHANGED transferAuths
           \/ /\ Moved(transferAuths, k, requested)
              /\ transferAuths' = [transferAuths EXCEPT ![k] =
                     transitionAuthorization(@, requested)]
    BY <1>5 DEF Operator
  <2>2. requested \in {"EXECUTING", "AMBIGUOUS", "RELEASED"}
    BY AcquisitionAssumption DEF PlainCommandsOnly, AuthorizationStatus
  <2>3. UNCHANGED daemon
    BY <1>5 DEF Operator
  <2>4. CASE UNCHANGED transferAuths
    BY <2>3, <2>4
  <2>5. CASE Moved(transferAuths, k, requested) /\ ~UNCHANGED transferAuths
    <3>1. TransferTurns(k, requested) /\ requested # transferAuths[k].status
      BY <2>1, <2>3, <2>5 DEF TransferTurns, Moved
    <3> QED
      BY <2>2, <3>1
  <2> QED
    BY <2>1, <2>4, <2>5
<1>6. CASE Revoke \/ ShopMoves \/ UNCHANGED vars
  BY <1>6 DEF Revoke, ShopMoves, vars
<1> QED
  BY <1>1, <1>2, <1>3, <1>4, <1>5, <1>6 DEF Next, Step

\* What a turn does: one row moves, from a status that allows it.
LEMMA TurnFacts ==
    ASSUME GiftInv, NEW k \in Keys,
           NEW requested \in {"EXECUTING", "AMBIGUOUS", "RELEASED", "SUCCEEDED"},
           TransferTurns(k, requested)
    PROVE  /\ transferAuths'[k] # None /\ transferAuths'[k].status = requested
           /\ \A j \in Keys \ {k} : transferAuths'[j] = transferAuths[j]
           /\ transferAuths[k] # None
           /\ requested = "EXECUTING" => transferAuths[k].status \in {"AUTHORIZED", "EXECUTING"}
           /\ requested = "AMBIGUOUS" => transferAuths[k].status \in {"EXECUTING", "AMBIGUOUS"}
           /\ requested = "SUCCEEDED" =>
                 transferAuths[k].status \in {"EXECUTING", "AMBIGUOUS", "SUCCEEDED"}
           /\ requested = "RELEASED" =>
                 transferAuths[k].status \in {"AUTHORIZED", "FAILED_SAFE", "RELEASED"}
<1>1. /\ transferAuths \in [Keys -> AuthorizationRows \cup {None}]
      /\ transferAuths[k] # None /\ AttemptConsistent(transferAuths[k])
  BY DEF GiftInv, TypeOK, AttemptsConsistent, TransferTurns
<1>2. requested \in AuthorizationStatus
  BY DEF AuthorizationStatus
<1>3. /\ TransitionAccepted(transferAuths[k], requested)
      /\ transferAuths' = [transferAuths EXCEPT ![k] = transitionAuthorization(@, requested)]
  BY DEF TransferTurns
<1>4. /\ transferAuths'[k] # None /\ transferAuths'[k].status = requested
      /\ \A j \in Keys \ {k} : transferAuths'[j] = transferAuths[j]
  BY <1>1, <1>2, <1>3, RowMoves
<1>5. transferAuths[k].status \in AuthorizationStatus
  BY <1>1 DEF AuthorizationRows
<1> QED
  BY <1>1, <1>3, <1>4, <1>5 DEF TransitionAccepted, allowed, AuthorizationStatus

\* Authority is held by a transfer that is authorized and was not released.
LEMMA HoldingFacts ==
    ASSUME GiftInv, NEW k \in Keys
    PROVE  /\ k \in Holding <=> transferAuths[k] # None /\ transferAuths[k].status # "RELEASED"
           /\ Covers(k) => k \in Holding
<1>1. transferAuths[k] # None => transferAuths[k].status \in AuthorizationStatus
  BY DEF GiftInv, TypeOK, AuthorizationRows
<1> QED
  BY <1>1 DEF Holding, authorizationReservesAuthority, AUTHORITY_RESERVING_STATUSES,
     AuthorizationStatus, Covers

\* A payment leaves for the first time.
LEMMA DispatchFacts ==
    ASSUME GiftInv, GiftInv', NEW x \in Processes, DispatchSend(x)
    PROVE  /\ sends[Payment] = 0 /\ sends'[Payment] = 1
           /\ UNCHANGED <<transferAuths, activity>>
           /\ \E k \in Keys : Covers(k)
<1>1. /\ sends \in [PaymentHashes -> 0..MaxSends] /\ Payment \in PaymentHashes
      /\ sends' = [sends EXCEPT ![Payment] = @ + 1]
      /\ UNCHANGED <<transferAuths, activity>>
  BY AcquisitionAssumption DEF GiftInv, TypeOK, DispatchSend, SendLeaves, store, auths
<1>2. sends'[Payment] <= 1
  BY DEF GiftInv
<1>3. sends[Payment] \in Nat
  BY <1>1, AcquisitionAssumption
<1>4. sends'[Payment] = sends[Payment] + 1
  BY <1>1
<1>5. CallSound(call[x]) /\ call[x].pc = "dispatching"
      /\ transferAuths[call[x].auth].status = "EXECUTING"
  BY DEF GiftInv, CallsSound, DispatchSend
<1>6. call[x].auth \in Keys /\ transferAuths[call[x].auth] # None
  BY <1>5, NoneFacts DEF CallSound, Buying, ToSend
<1> QED
  BY <1>1, <1>2, <1>3, <1>4, <1>5, <1>6 DEF Covers

LEMMA CoveredStays ==
    ASSUME GiftInv, GiftInv', PlainCommandsOnly, Covered, [Next]_vars
    PROVE  Covered'
<1>1. CASE UNCHANGED <<transferAuths, daemon>>
  BY <1>1 DEF Covered, SuccessIsMade, SentIsCovered, MadeWasSent, Covers, daemon
<1>2. ASSUME NEW x \in Processes, AuthorizeTransfer(x) PROVE Covered'
  <2>1. PICK k \in Keys : /\ transferAuths[k] = None
                          /\ transferAuths' = [transferAuths EXCEPT ![k] = NewAuthorization]
    <3>1. CallSound(call[x])
      BY DEF GiftInv, CallsSound
    <3> QED
      BY <1>2, <3>1 DEF AuthorizeTransfer, CallSound
  <2>2. /\ UNCHANGED daemon
        /\ transferAuths \in [Keys -> AuthorizationRows \cup {None}]
    BY <1>2 DEF AuthorizeTransfer, outside, GiftInv, TypeOK
  <2>3. /\ transferAuths'[k] = NewAuthorization
        /\ \A j \in Keys \ {k} : transferAuths'[j] = transferAuths[j]
    BY <2>1, <2>2
  <2> QED
    BY <2>1, <2>2, <2>3 DEF Covered, SuccessIsMade, SentIsCovered,
       MadeWasSent, Covers, daemon, NewAuthorization
<1>3. ASSUME NEW x \in Processes, DispatchSend(x) PROVE Covered'
  <2>1. /\ sends[Payment] = 0 /\ sends'[Payment] = 1 /\ UNCHANGED <<transferAuths, activity>>
        /\ \E k \in Keys : Covers(k)
    BY <1>3, DispatchFacts
  <2> QED
    BY <2>1 DEF Covered, SuccessIsMade, SentIsCovered, MadeWasSent, Covers
<1>4. CASE DaemonMoves
  <2>1. UNCHANGED <<sends, transferAuths>>
    BY <1>4 DEF DaemonMoves, Pays, Finishes, store, auths
  <2>2. \/ activity'[Payment] = activity[Payment]
        \/ /\ activity[Payment] # "complete"
           /\ sends[Payment] > 0 \/ activity[Payment] # "none"
    BY <1>4, AcquisitionAssumption DEF DaemonMoves, Pays, Finishes, GiftInv, TypeOK
  <2> QED
    BY <2>1, <2>2 DEF Covered, SuccessIsMade, SentIsCovered, MadeWasSent, Covers
<1>5. ASSUME NEW k \in Keys,
             NEW requested \in {"EXECUTING", "AMBIGUOUS", "RELEASED", "SUCCEEDED"},
             TransferTurns(k, requested), requested = "SUCCEEDED" => activity[Payment] = "complete",
             requested = "RELEASED" => transferAuths[k].status # "RELEASED"
      PROVE  Covered'
  <2>1. UNCHANGED <<sends, activity>>
    BY <1>5 DEF TransferTurns, daemon
  <2>2. /\ transferAuths'[k] # None /\ transferAuths'[k].status = requested
        /\ \A j \in Keys \ {k} : transferAuths'[j] = transferAuths[j]
        /\ requested = "RELEASED" => transferAuths[k].status \in {"AUTHORIZED", "FAILED_SAFE"}
    BY <1>5, TurnFacts
  <2>3. SuccessIsMade' /\ MadeWasSent'
    BY <1>5, <2>1, <2>2 DEF Covered, SuccessIsMade, MadeWasSent
  <2>4. SentIsCovered'
    <3> SUFFICES ASSUME sends[Payment] > 0 PROVE \E j \in Keys : Covers(j)'
      BY <2>1 DEF SentIsCovered
    <3>1. PICK j \in Keys : Covers(j)
      BY DEF Covered, SentIsCovered
    <3>2. CASE j # k
      BY <2>2, <3>1, <3>2 DEF Covers
    <3>3. CASE j = k
      <4>1. requested # "RELEASED"
        BY <2>2, <3>1, <3>3 DEF Covers
      <4> QED
        BY <2>2, <3>3, <4>1 DEF Covers
    <3> QED
      BY <3>2, <3>3
  <2> QED
    BY <2>3, <2>4 DEF Covered
<1> QED
  BY <1>1, <1>2, <1>3, <1>4, <1>5, StepKinds

-----------------------------------------------------------------------------
(* Every step is a step of the promise, or a stutter.                      *)

\* The mapped variables, by what the step leaves alone.
LEMMA Stutters ==
    ASSUME Holding' = {} <=> Holding = {}, sends'[Payment] = sends[Payment],
           activity'[Payment] = "complete" <=> activity[Payment] = "complete",
           Recorded' <=> Recorded
    PROVE  UNCHANGED Promise!promise
<1>1. {p \in {Payment} : Holding # {}}' = {p \in {Payment} : Holding # {}}
  OBVIOUS
<1>2. [p \in {Payment} |-> sends[p]]' = [p \in {Payment} |-> sends[p]]
  OBVIOUS
<1>3. {p \in {Payment} : activity[p] = "complete"}' = {p \in {Payment} : activity[p] = "complete"}
  OBVIOUS
<1>4. {p \in {Payment} : \E k \in Keys : /\ transferAuths[k] # None
                                         /\ transferAuths[k].status = "SUCCEEDED"}'
      = {p \in {Payment} : \E k \in Keys : /\ transferAuths[k] # None
                                           /\ transferAuths[k].status = "SUCCEEDED"}
  BY DEF Recorded
<1> QED
  BY <1>1, <1>2, <1>3, <1>4 DEF Promise!promise

\* The transfer is authorized when no other holds the payment: Reserve.
LEMMA AuthorizeTransferReserves ==
    ASSUME GiftInv, GiftInv', NEW x \in Processes, AuthorizeTransfer(x)
    PROVE  Promise!Reserve(Payment)
<1>1. PICK k \in Keys : transferAuths[k] = None /\ transferAuths' = [transferAuths EXCEPT ![k] = NewAuthorization]
  <2>1. CallSound(call[x])
    BY DEF GiftInv, CallsSound
  <2> QED
    BY <2>1 DEF AuthorizeTransfer, CallSound
<1>2. /\ Holding = {} /\ UNCHANGED daemon
      /\ transferAuths \in [Keys -> AuthorizationRows \cup {None}]
  BY DEF AuthorizeTransfer, outside, GiftInv, TypeOK
<1>3. /\ transferAuths'[k] = NewAuthorization
      /\ \A j \in Keys \ {k} : transferAuths'[j] = transferAuths[j]
  BY <1>1, <1>2
<1>4. k \in Holding'
  BY <1>3, NoneFacts DEF Holding, NewAuthorization, authorizationReservesAuthority,
     AUTHORITY_RESERVING_STATUSES
<1>5. ~Recorded
  <2> SUFFICES ASSUME NEW j \in Keys, transferAuths[j] # None, transferAuths[j].status = "SUCCEEDED"
               PROVE  FALSE
    BY DEF Recorded
  <2>1. j \in Holding
    BY HoldingFacts
  <2> QED
    BY <1>2, <2>1
<1>6. ~Recorded'
  BY <1>1, <1>3, <1>5 DEF Recorded, NewAuthorization
<1>7. {p \in {Payment} : Holding # {}} = {} /\ {p \in {Payment} : Holding # {}}' = {Payment}
  BY <1>2, <1>4
<1>8. /\ [p \in {Payment} |-> sends[p]]' = [p \in {Payment} |-> sends[p]]
      /\ {p \in {Payment} : activity[p] = "complete"}' = {p \in {Payment} : activity[p] = "complete"}
  BY <1>2 DEF daemon
<1>9. {p \in {Payment} : \E j \in Keys : /\ transferAuths[j] # None
                                         /\ transferAuths[j].status = "SUCCEEDED"}'
      = {p \in {Payment} : \E j \in Keys : /\ transferAuths[j] # None
                                           /\ transferAuths[j].status = "SUCCEEDED"}
  BY <1>5, <1>6 DEF Recorded
<1> QED
  BY <1>7, <1>8, <1>9 DEF Promise!Reserve

\* The payment leaves, for the first time and under a transfer that holds it: Send.
LEMMA DispatchSendSends ==
    ASSUME GiftInv, GiftInv', NEW x \in Processes, DispatchSend(x)
    PROVE  Promise!Send(Payment)
<1>1. /\ sends[Payment] = 0 /\ sends'[Payment] = 1 /\ UNCHANGED <<transferAuths, activity>>
      /\ \E k \in Keys : Covers(k)
  BY DispatchFacts
<1>2. Holding # {} /\ UNCHANGED Holding
  BY <1>1, HoldingFacts DEF Holding
<1>3. [p \in {Payment} |-> sends[p]]' = [[p \in {Payment} |-> sends[p]] EXCEPT ![Payment] = 1]
  BY <1>1
<1>4. /\ [p \in {Payment} |-> sends[p]][Payment] = 0
      /\ Payment \in {p \in {Payment} : Holding # {}}
      /\ {p \in {Payment} : Holding # {}}' = {p \in {Payment} : Holding # {}}
  BY <1>1, <1>2
<1>5. /\ {p \in {Payment} : activity[p] = "complete"}' = {p \in {Payment} : activity[p] = "complete"}
      /\ {p \in {Payment} : \E j \in Keys : /\ transferAuths[j] # None
                                            /\ transferAuths[j].status = "SUCCEEDED"}'
         = {p \in {Payment} : \E j \in Keys : /\ transferAuths[j] # None
                                              /\ transferAuths[j].status = "SUCCEEDED"}
  BY <1>1
<1> QED
  BY <1>3, <1>4, <1>5 DEF Promise!Send

\* The daemon completes a payment that was sent: Make; what else it does stutters.
LEMMA DaemonMakes ==
    ASSUME GiftInv, Covered, DaemonMoves
    PROVE  Promise!Make(Payment) \/ UNCHANGED Promise!promise
<1>1. UNCHANGED <<transferAuths, sends>> /\ UNCHANGED Holding /\ (Recorded' <=> Recorded)
  BY DEF DaemonMoves, Pays, Finishes, store, auths, Holding, Recorded
<1>2. CASE activity'[Payment] = "complete" <=> activity[Payment] = "complete"
  BY <1>1, <1>2, Stutters
<1>3. CASE ~(activity'[Payment] = "complete" <=> activity[Payment] = "complete")
  <2>1. /\ activity'[Payment] = "complete" /\ activity[Payment] # "complete"
        /\ sends[Payment] > 0
    BY <1>3, AcquisitionAssumption DEF DaemonMoves, Pays, Finishes, GiftInv, TypeOK, Covered,
       MadeWasSent
  <2>2. sends[Payment] = 1
    BY <2>1, AcquisitionAssumption DEF GiftInv, TypeOK
  <2>3. /\ [p \in {Payment} |-> sends[p]][Payment] = 1
        /\ [p \in {Payment} |-> sends[p]]' = [p \in {Payment} |-> sends[p]]
    BY <1>1, <2>2
  <2>4. {p \in {Payment} : activity[p] = "complete"}'
        = {p \in {Payment} : activity[p] = "complete"} \cup {Payment}
    BY <2>1
  <2>5. /\ {p \in {Payment} : Holding # {}}' = {p \in {Payment} : Holding # {}}
        /\ {p \in {Payment} : \E j \in Keys : /\ transferAuths[j] # None
                                              /\ transferAuths[j].status = "SUCCEEDED"}'
           = {p \in {Payment} : \E j \in Keys : /\ transferAuths[j] # None
                                                /\ transferAuths[j].status = "SUCCEEDED"}
    BY <1>1
  <2> QED
    BY <2>3, <2>4, <2>5 DEF Promise!Make
<1> QED
  BY <1>2, <1>3

\* A turn to EXECUTING or AMBIGUOUS changes neither what is held nor what is recorded.
LEMMA DoubtStutters ==
    ASSUME GiftInv, GiftInv', NEW k \in Keys, NEW requested \in {"EXECUTING", "AMBIGUOUS"},
           TransferTurns(k, requested)
    PROVE  UNCHANGED Promise!promise
<1>1. /\ transferAuths'[k] # None /\ transferAuths'[k].status = requested
      /\ \A j \in Keys \ {k} : transferAuths'[j] = transferAuths[j]
      /\ transferAuths[k] # None
      /\ transferAuths[k].status \in {"AUTHORIZED", "EXECUTING", "AMBIGUOUS"}
  BY TurnFacts
<1>2. k \in Holding
  BY <1>1, HoldingFacts
<1>3. k \in Holding'
  BY <1>1 DEF Holding, authorizationReservesAuthority, AUTHORITY_RESERVING_STATUSES
<1>4. Recorded' <=> Recorded
  BY <1>1 DEF Recorded
<1>5. UNCHANGED <<sends, activity>>
  BY DEF TransferTurns, daemon
<1> QED
  BY <1>2, <1>3, <1>4, <1>5, Stutters

\* A confirmed transfer is recorded of a payment that was made and is held: Record.
LEMMA ConfirmationRecords ==
    ASSUME GiftInv, NEW k \in Keys, TransferTurns(k, "SUCCEEDED"), activity[Payment] = "complete"
    PROVE  Promise!Record(Payment)
<1>1. /\ transferAuths'[k] # None /\ transferAuths'[k].status = "SUCCEEDED"
      /\ transferAuths[k] # None
      /\ transferAuths[k].status \in {"EXECUTING", "AMBIGUOUS", "SUCCEEDED"}
  BY TurnFacts
<1>2. k \in Holding
  BY <1>1, HoldingFacts
<1>3. k \in Holding'
  BY <1>1 DEF Holding, authorizationReservesAuthority, AUTHORITY_RESERVING_STATUSES
<1>4. UNCHANGED <<sends, activity>>
  BY DEF TransferTurns, daemon
<1>5. {p \in {Payment} : \E j \in Keys : /\ transferAuths[j] # None
                                         /\ transferAuths[j].status = "SUCCEEDED"}' = {Payment}
  BY <1>1
<1>6. /\ {p \in {Payment} : Holding # {}}' = {p \in {Payment} : Holding # {}}
      /\ Payment \in {p \in {Payment} : Holding # {}}
      /\ Payment \in {p \in {Payment} : activity[p] = "complete"}
  BY <1>2, <1>3
<1>7. /\ [p \in {Payment} |-> sends[p]]' = [p \in {Payment} |-> sends[p]]
      /\ {p \in {Payment} : activity[p] = "complete"}' = {p \in {Payment} : activity[p] = "complete"}
  BY <1>4
<1> QED
  BY <1>5, <1>6, <1>7 DEF Promise!Record

\* A release hands the authority back only of a payment that was not sent: Return.
LEMMA ReleaseReturns ==
    ASSUME GiftInv, Covered, NEW k \in Keys, TransferTurns(k, "RELEASED"),
           transferAuths[k].status # "RELEASED"
    PROVE  Promise!Return(Payment) \/ UNCHANGED Promise!promise
<1>1. /\ transferAuths'[k] # None /\ transferAuths'[k].status = "RELEASED"
      /\ \A j \in Keys \ {k} : transferAuths'[j] = transferAuths[j]
      /\ transferAuths[k] # None /\ transferAuths[k].status \in {"AUTHORIZED", "FAILED_SAFE"}
  BY TurnFacts
<1>2. k \in Holding
  BY <1>1, HoldingFacts
<1>3. Recorded' <=> Recorded
  BY <1>1 DEF Recorded
<1>4. UNCHANGED <<sends, activity>>
  BY DEF TransferTurns, daemon
<1>5. CASE Holding' # {}
  BY <1>2, <1>3, <1>4, <1>5, Stutters
<1>6. CASE Holding' = {}
  <2>1. ASSUME sends[Payment] > 0 PROVE FALSE
    <3>1. PICK j \in Keys : Covers(j)
      BY <2>1 DEF Covered, SentIsCovered
    <3>2. j # k
      BY <1>1, <3>1 DEF Covers
    <3>3. j \in Holding'
      BY <1>1, <3>1, <3>2 DEF Covers, Holding, authorizationReservesAuthority,
         AUTHORITY_RESERVING_STATUSES
    <3> QED
      BY <1>6, <3>3
  <2>2. sends[Payment] = 0
    BY <2>1, AcquisitionAssumption DEF GiftInv, TypeOK
  <2>3. /\ Payment \in {p \in {Payment} : Holding # {}}
        /\ {p \in {Payment} : Holding # {}}' = {p \in {Payment} : Holding # {}} \ {Payment}
    BY <1>2, <1>6
  <2>4. /\ [p \in {Payment} |-> sends[p]][Payment] = 0
        /\ [p \in {Payment} |-> sends[p]]' = [p \in {Payment} |-> sends[p]]
        /\ {p \in {Payment} : activity[p] = "complete"}' = {p \in {Payment} : activity[p] = "complete"}
    BY <1>4, <2>2
  <2>5. {p \in {Payment} : \E j \in Keys : /\ transferAuths[j] # None
                                           /\ transferAuths[j].status = "SUCCEEDED"}'
        = {p \in {Payment} : \E j \in Keys : /\ transferAuths[j] # None
                                             /\ transferAuths[j].status = "SUCCEEDED"}
    BY <1>3 DEF Recorded
  <2> QED
    BY <2>3, <2>4, <2>5 DEF Promise!Return
<1> QED
  BY <1>5, <1>6

LEMMA StepMaps ==
    ASSUME GiftInv, GiftInv', PlainCommandsOnly, Covered, [Next]_vars
    PROVE  [Promise!PromiseNext]_(Promise!promise)
<1>1. CASE UNCHANGED <<transferAuths, daemon>>
  BY <1>1, Stutters DEF daemon, Holding, Recorded
<1>2. CASE \E p \in {Payment} : \/ Promise!Reserve(p) \/ Promise!Return(p) \/ Promise!Send(p)
                                \/ Promise!Make(p) \/ Promise!Record(p)
  BY <1>2 DEF Promise!PromiseNext
<1> QED
  BY <1>1, <1>2, StepKinds, AuthorizeTransferReserves, DispatchSendSends, DaemonMakes,
     DoubtStutters, ConfirmationRecords, ReleaseReturns

LEMMA InitMaps == Init => Promise!PromiseInit /\ Covered
<1> SUFFICES ASSUME Init PROVE Promise!PromiseInit /\ Covered
  OBVIOUS
<1>1. /\ \A k \in Keys : transferAuths[k] = None
      /\ sends[Payment] = 0 /\ activity[Payment] = "none"
  BY AcquisitionAssumption DEF Init, DaemonInit
<1>2. Covered
  BY <1>1 DEF Covered, SuccessIsMade, SentIsCovered, MadeWasSent
<1>3. Holding = {} /\ ~Recorded
  BY <1>1 DEF Holding, Recorded
<1>4. /\ {p \in {Payment} : Holding # {}} = {}
      /\ [p \in {Payment} |-> sends[p]] = [p \in {Payment} |-> 0]
      /\ {p \in {Payment} : activity[p] = "complete"} = {}
      /\ {p \in {Payment} : \E j \in Keys : /\ transferAuths[j] # None
                                            /\ transferAuths[j].status = "SUCCEEDED"} = {}
  BY <1>1, <1>3
<1> QED
  BY <1>2, <1>4 DEF Promise!PromiseInit

-----------------------------------------------------------------------------
(* The theorem.                                                            *)

\* Buying a gift card keeps the promise made of payments: authority is held from
\* before the Send for good, the Send happens once, and a transfer is recorded as
\* made only of a payment that was; unless an operator declares the outcome by
\* hand, and whatever else he releases or calls in doubt.
THEOREM GiftKeepsPromise ==
    ASSUME PlainCommandsOnly PROVE Spec => PromiseKept
<1>1. Init => GiftInv /\ Covered /\ Promise!PromiseInit
  BY InitEstablishes, InitMaps
<1>2. GiftInv /\ Covered /\ [Next]_vars => GiftInv' /\ Covered'
  BY NextKeeps, CoveredStays
<1>3. GiftInv /\ Covered /\ [Next]_vars => [Promise!PromiseNext]_(Promise!promise)
  BY NextKeeps, StepMaps
<1> QED
  BY <1>1, <1>2, <1>3, PTL DEF Spec, PromiseKept, Promise!PromiseSpec

=============================================================================
