------------------------- MODULE InstrumentInvoiceProofs -------------------------
(***************************************************************************)
(* Theorems about InstrumentInvoice, for every set of keys, instants and   *)
(* processes, any number of crashes and, but for the last theorem, every   *)
(* command of the operator.                                                *)
(***************************************************************************)
EXTENDS InstrumentInvoice, TLAPS

-----------------------------------------------------------------------------
(* The inductive invariant.                                                *)

\* The store says that the request for the invoice may have left.
Posted(k) == instruments[k] # None /\ instruments[k].posted

\* What a call knows at each of its steps: from the Authorization on, that
\* there is one; from the row on, that there is one; about to post, that the row
\* says so and that nothing was posted; with the answer, that something was.
CallSound(c) ==
    /\ c.pc # "idle" => c.key \in Keys
    /\ c.pc = "authorizing" => c.instant \in Instants
    /\ c.pc \notin {"idle", "authorizing"} => authorizations[c.key] # None
    /\ c.pc \in {"marking", "inspecting", "recording"} => instruments[c.key] # None
    /\ c.pc \in {"posting", "posted", "settling", "noting"} => Posted(c.key)
    /\ c.pc = "posting" => posts[c.key] = 0
    /\ c.pc = "posted" => posts[c.key] = 1
    /\ c.pc = "recording" => c.result \in Readings
    /\ c.pc = "settling" => c.result \in {"AMBIGUOUS", "FAILED_SAFE"}
    /\ c.pc = "concluding" => c.result = "AMBIGUOUS"

CallsSound == \A x \in Processes : CallSound(call[x])

\* Every row says of its attempt what AuthorizationSchema accepts.
AttemptsConsistent ==
    \A k \in Keys : authorizations[k] # None => AttemptConsistent(authorizations[k])

\* No two calls are about to post for the same Authorization.
OnePoster ==
    \A x, y \in Processes :
        /\ call[x].pc = "posting" /\ call[y].pc = "posting"
        /\ call[x].key = call[y].key
        => x = y

\* The shop is silent until it was asked.
ShopIsAsked == \A k \in Keys : shop[k] # "none" => posts[k] = 1

InvoiceInv ==
    /\ TypeOK
    /\ CallsSound
    /\ AttemptsConsistent
    /\ OnePoster
    /\ ShopIsAsked
    /\ InvoicePostedOnce

-----------------------------------------------------------------------------
(* Facts about the operators.                                              *)

\* A row is not the absent row, and an idle call is a call.
LEMMA NoneFacts ==
    /\ \A r \in AuthorizationRows \cup InstrumentRows : r # None
    /\ Idle \in Calls
  BY InstrumentAssumption DEF Idle, Calls, ControlStates

\* An accepted transition keeps a row a row; what it says of the attempt is
\* consistent, is not taken back, and EXECUTING says that it may have begun.
LEMMA TransitionFacts ==
    ASSUME NEW row \in AuthorizationRows, NEW requested \in AuthorizationStatus,
           AttemptConsistent(row), TransitionAccepted(row, requested)
    PROVE  LET next == transitionAuthorization(row, requested) IN
           /\ next \in AuthorizationRows
           /\ next.status = requested
           /\ row.externalActionAttempted => next.externalActionAttempted
           /\ requested = "EXECUTING" => next.externalActionAttempted
           /\ AttemptConsistent(next)
<1>1. CASE requested = row.status
  <2>1. transitionAuthorization(row, requested) = row
    BY <1>1 DEF transitionAuthorization
  <2> QED
    BY <1>1, <2>1 DEF AttemptConsistent
<1>2. CASE requested # row.status
  <2> DEFINE next == transitionAuthorization(row, requested)
             begun == requested \in {"EXECUTING", "SUCCEEDED", "AMBIGUOUS"}
  <2>1. row.externalActionAttempted \in BOOLEAN /\ row.status \in AuthorizationStatus
    BY DEF AuthorizationRows
  <2>2. requested # "AUTHORIZED"
    BY <1>2, <2>1 DEF TransitionAccepted, allowed, AuthorizationStatus
  <2>3. next = [row EXCEPT !.status = requested, !.externalActionAttempted = @ \/ begun]
    BY <1>2 DEF transitionAuthorization
  <2>4. (row.externalActionAttempted \/ begun) \in BOOLEAN
    OBVIOUS
  <2>5. next \in AuthorizationRows
    BY <2>3, <2>4 DEF AuthorizationRows
  <2>6. /\ next.status = requested
        /\ next.externalActionAttempted = (row.externalActionAttempted \/ begun)
    BY <2>3 DEF AuthorizationRows
  <2>7. /\ row.externalActionAttempted => next.externalActionAttempted
        /\ requested = "EXECUTING" => next.externalActionAttempted
    BY <2>6, Zenon
  <2>8. AttemptConsistent(next)
    BY <2>2, <2>6, Zenon DEF AttemptConsistent
  <2> QED
    BY <2>5, <2>6, <2>7, <2>8
<1> QED
  BY <1>1, <1>2

\* A reconciled invoice is recorded as one of the readings.
LEMMA ReadingTyped ==
    ASSUME NEW invoice, NEW k
    PROVE  mapInvoiceReconciliation(invoice, k, Purchase) \in Readings
  BY DEF mapInvoiceReconciliation, Readings, OrderIsFor, UNEXPECTED_PAID_INVOICE_STATES

-----------------------------------------------------------------------------
(* Steps other than the request.                                           *)

\* Nothing is posted, no row and no mark disappears, and every call stays where
\* it was or moves to a step it knows enough for: the invariant stays.
LEMMA StepWithoutPost ==
    ASSUME InvoiceInv, TypeOK', AttemptsConsistent', posts' = posts,
           \A k \in Keys : /\ authorizations[k] # None => authorizations'[k] # None
                           /\ instruments[k] # None => instruments'[k] # None
                           /\ Posted(k) => Posted(k)'
                           /\ shop'[k] = "none" <=> shop[k] = "none",
           \A y \in Processes : \/ call'[y] = call[y]
                                \/ CallSound(call[y])' /\ call'[y].pc # "posting"
    PROVE  InvoiceInv'
<1>1. CallsSound'
  <2> SUFFICES ASSUME NEW y \in Processes, call'[y] = call[y] PROVE CallSound(call[y])'
    BY DEF CallsSound
  <2>1. CallSound(call[y])
    BY DEF InvoiceInv, CallsSound
  <2> QED
    BY <2>1 DEF CallSound
<1>2. OnePoster'
  BY DEF InvoiceInv, OnePoster
<1>3. ShopIsAsked'
  BY DEF InvoiceInv, ShopIsAsked
<1>4. InvoicePostedOnce'
  BY DEF InvoiceInv, InvoicePostedOnce, Posted
<1> QED
  BY <1>1, <1>2, <1>3, <1>4 DEF InvoiceInv

\* A step that changes one call and no row.
LEMMA CallMoves ==
    ASSUME InvoiceInv, NEW x \in Processes, NEW c \in Calls,
           call' = [call EXCEPT ![x] = c], CallSound(c), c.pc # "posting",
           UNCHANGED <<store, outside>>, mishaps' \in 0..MaxMishaps
    PROVE  InvoiceInv'
<1> USE DEF store, outside
<1>1. \A y \in Processes : call'[y] = IF y = x THEN c ELSE call[y]
  BY DEF InvoiceInv, TypeOK
<1>2. TypeOK'
  <2>1. call' \in [Processes -> Calls]
    BY DEF InvoiceInv, TypeOK
  <2> QED
    BY <2>1 DEF InvoiceInv, TypeOK
<1>3. AttemptsConsistent'
  BY DEF InvoiceInv, AttemptsConsistent
<1>4. CallSound(c)'
  BY DEF CallSound, Posted
<1>5. CallSound(call[x])' /\ call'[x].pc # "posting"
  BY <1>1, <1>4 DEF CallSound
<1> QED
  BY <1>1, <1>2, <1>3, <1>5, StepWithoutPost DEF Posted

\* A call that ends knows nothing any more.
LEMMA CallEnds ==
    ASSUME InvoiceInv, NEW x \in Processes, Ends(x),
           UNCHANGED <<store, outside>>, mishaps' \in 0..MaxMishaps
    PROVE  InvoiceInv'
<1>1. CallSound(Idle) /\ Idle.pc # "posting"
  BY DEF CallSound, Idle
<1> QED
  BY <1>1, NoneFacts, CallMoves DEF Ends

\* The other steps of a call that write no row and post nothing.
LEMMA CallOnlyStepsKeep ==
    ASSUME InvoiceInv, NEW x \in Processes,
           \/ StartCreate(x) \/ AuthorizeKnown(x) \/ Revalidated(x) \/ InvoiceFailed(x)
           \/ ReadForReconcile(x) \/ Inspected(x) \/ InspectedInVain(x) \/ Throws(x)
           \/ Crash(x) \/ \E k \in Keys : StartReconcile(x, k)
    PROVE  InvoiceInv'
<1> DEFINE unmoved == UNCHANGED <<store, outside>> /\ mishaps' \in 0..MaxMishaps
<1>1. mishaps \in 0..MaxMishaps /\ call[x] \in Calls /\ CallSound(call[x])
  BY DEF InvoiceInv, TypeOK, CallsSound
<1>2. ASSUME NEW c \in Calls, CallSound(c), c.pc # "posting", unmoved,
             call' = [call EXCEPT ![x] = c]
      PROVE  InvoiceInv'
  BY <1>2, CallMoves
<1>3. ASSUME NEW pc \in ControlStates \ {"posting"}, Goes(x, pc), unmoved,
             CallSound([call[x] EXCEPT !.pc = pc])
      PROVE  InvoiceInv'
  <2>1. call' = [call EXCEPT ![x] = [call[x] EXCEPT !.pc = pc]]
    BY <1>3 DEF Goes
  <2>2. [call[x] EXCEPT !.pc = pc] \in Calls /\ [call[x] EXCEPT !.pc = pc].pc = pc
    BY <1>1 DEF Calls
  <2> QED
    BY <1>2, <1>3, <2>1, <2>2
<1>4. ASSUME Ends(x), unmoved PROVE InvoiceInv'
  BY <1>4, CallEnds
<1>5. CASE StartCreate(x)
  <2>1. PICK k \in Keys, instant \in Instants :
           call' = [call EXCEPT ![x] =
              [Idle EXCEPT !.pc = "authorizing", !.key = k, !.instant = instant]]
    BY <1>5 DEF StartCreate
  <2> DEFINE c == [Idle EXCEPT !.pc = "authorizing", !.key = k, !.instant = instant]
  <2>2. c \in Calls /\ c.pc = "authorizing" /\ c.key = k /\ c.instant = instant
    BY DEF Idle, Calls, ControlStates
  <2>3. CallSound(c)
    BY <2>2 DEF CallSound
  <2> QED
    BY <1>1, <1>2, <1>5, <2>1, <2>2, <2>3 DEF StartCreate, world
<1>6. CASE AuthorizeKnown(x)
  <2>1. unmoved
    BY <1>1, <1>6 DEF AuthorizeKnown, world
  <2>2. call[x].key \in Keys /\ authorizations[call[x].key] # None
    BY <1>1, <1>6 DEF CallSound, AuthorizeKnown
  <2>3. Ends(x) \/ Goes(x, "revalidating") \/ Goes(x, "reconciling")
    BY <1>6 DEF AuthorizeKnown
  <2>4. /\ CallSound([call[x] EXCEPT !.pc = "revalidating"])
        /\ CallSound([call[x] EXCEPT !.pc = "reconciling"])
    BY <1>1, <2>2 DEF CallSound, Calls
  <2> QED
    BY <1>3, <1>4, <2>1, <2>3, <2>4 DEF ControlStates
<1>7. CASE Revalidated(x)
  <2>1. CallSound([call[x] EXCEPT !.pc = "beginning"])
    BY <1>1, <1>7 DEF CallSound, Revalidated, Calls
  <2> QED
    BY <1>1, <1>3, <1>7, <2>1 DEF Revalidated, ControlStates, world
<1>8. CASE InvoiceFailed(x)
  <2>1. PICK verdict \in {"AMBIGUOUS", "FAILED_SAFE"} : Settles(x, "settling", verdict)
    BY <1>8 DEF InvoiceFailed
  <2> DEFINE c == [call[x] EXCEPT !.pc = "settling", !.result = verdict]
  <2>2. c \in Calls /\ c.pc = "settling" /\ c.result = verdict /\ c.key = call[x].key
    BY <1>1 DEF Calls, ControlStates, Readings
  <2>3. CallSound(c)
    BY <1>1, <1>8, <2>2 DEF CallSound, InvoiceFailed
  <2>4. call' = [call EXCEPT ![x] = c]
    BY <2>1 DEF Settles
  <2> QED
    BY <1>1, <1>2, <1>8, <2>2, <2>3, <2>4 DEF InvoiceFailed, world
<1>9. CASE ReadForReconcile(x)
  <2> DEFINE k == call[x].key
             status == authorizations[k].status
             looks == [call[x] EXCEPT !.pc = "inspecting", !.seen = status, !.result = None]
             verdict == [call[x] EXCEPT !.pc = "concluding", !.result = "AMBIGUOUS"]
             doubts == [call[x] EXCEPT !.pc = "recording", !.seen = status, !.result = "AMBIGUOUS"]
  <2>1. unmoved
    BY <1>1, <1>9 DEF ReadForReconcile, world
  <2>2. k \in Keys /\ authorizations[k] # None
    BY <1>1, <1>9 DEF CallSound, ReadForReconcile
  <2>3. status \in AuthorizationStatus
    BY <2>2 DEF InvoiceInv, TypeOK, AuthorizationRows
  <2>4. /\ looks \in Calls /\ looks.pc = "inspecting" /\ looks.key = k
        /\ doubts \in Calls /\ doubts.pc = "recording" /\ doubts.key = k
        /\ doubts.result = "AMBIGUOUS"
        /\ verdict \in Calls /\ verdict.pc = "concluding" /\ verdict.key = k
        /\ verdict.result = "AMBIGUOUS"
    BY <1>1, <2>3 DEF Calls, ControlStates, Readings
  <2>5. (instruments[k] # None => CallSound(looks) /\ CallSound(doubts)) /\ CallSound(verdict)
    BY <2>2, <2>4 DEF CallSound, Readings
  <2>6. \/ Ends(x) \/ call' = [call EXCEPT ![x] = verdict]
        \/ instruments[k] # None /\ call' = [call EXCEPT ![x] = looks]
        \/ instruments[k] # None /\ call' = [call EXCEPT ![x] = doubts]
    BY <1>9 DEF ReadForReconcile, Settles
  <2> QED
    BY <1>2, <1>4, <2>1, <2>4, <2>5, <2>6
<1>10. CASE Inspected(x) \/ InspectedInVain(x)
  <2>1. PICK result \in Readings :
           call' = [call EXCEPT ![x].pc = "recording", ![x].result = result]
    <3>1. CASE Inspected(x)
      BY <3>1, ReadingTyped DEF Inspected
    <3>2. CASE InspectedInVain(x)
      BY <3>2 DEF InspectedInVain, Readings
    <3> QED
      BY <1>10, <3>1, <3>2
  <2> DEFINE c == [call[x] EXCEPT !.pc = "recording", !.result = result]
  <2>2. /\ c \in Calls /\ c.pc = "recording" /\ c.result = result
        /\ c.key = call[x].key
    BY <1>1 DEF Calls, ControlStates
  <2>3. CallSound(c)
    BY <1>1, <1>10, <2>2 DEF CallSound, Inspected, InspectedInVain
  <2>4. call' = [call EXCEPT ![x] = c]
    BY <2>1
  <2> QED
    BY <1>1, <1>2, <1>10, <2>2, <2>3, <2>4 DEF Inspected, InspectedInVain, world
<1>11. CASE Throws(x)
  BY <1>1, <1>4, <1>11 DEF Throws, world
<1>12. CASE Crash(x)
  <2>1. mishaps' \in 0..MaxMishaps
    BY <1>1, <1>12, InstrumentAssumption DEF Crash
  <2> QED
    BY <1>4, <1>12, <2>1 DEF Crash
<1>13. CASE \E k \in Keys : StartReconcile(x, k)
  <2>1. PICK k \in Keys : StartReconcile(x, k)
    BY <1>13
  <2> DEFINE c == [Idle EXCEPT !.pc = "reconciling", !.key = k]
  <2>2. c \in Calls /\ c.pc = "reconciling" /\ c.key = k
    BY DEF Idle, Calls, ControlStates
  <2>3. CallSound(c)
    BY <2>1, <2>2 DEF CallSound, StartReconcile
  <2> QED
    BY <1>1, <1>2, <2>1, <2>2, <2>3 DEF StartReconcile, world
<1> QED
  BY <1>5, <1>6, <1>7, <1>8, <1>9, <1>10, <1>11, <1>12, <1>13

-----------------------------------------------------------------------------
(* Steps that write a row.                                                 *)

\* A new Authorization: no row and no call knows of it.
LEMMA AuthorizeNewKeeps ==
    ASSUME InvoiceInv, NEW x \in Processes, AuthorizeNew(x) PROVE InvoiceInv'
<1> DEFINE k == call[x].key
           row == [status |-> "AUTHORIZED", externalActionAttempted |-> FALSE,
                   instant |-> call[x].instant]
           c == [call[x] EXCEPT !.pc = "revalidating"]
<1>1. call[x] \in Calls /\ k \in Keys /\ call[x].instant \in Instants
  BY DEF InvoiceInv, TypeOK, CallsSound, CallSound, AuthorizeNew
<1>2. row \in AuthorizationRows /\ row # None
  BY <1>1, NoneFacts DEF AuthorizationRows, AuthorizationStatus
<1>3. c \in Calls /\ c.pc = "revalidating" /\ c.key = k
  BY <1>1 DEF Calls, ControlStates
<1>4. /\ authorizations' = [authorizations EXCEPT ![k] = row]
      /\ call' = [call EXCEPT ![x] = c]
  BY DEF AuthorizeNew, Goes
<1>5. /\ \A a \in Keys : authorizations'[a] = IF a = k THEN row ELSE authorizations[a]
      /\ \A y \in Processes : call'[y] = IF y = x THEN c ELSE call[y]
  BY <1>4 DEF InvoiceInv, TypeOK
<1>6. instruments[k] = None
  BY <1>1 DEF InvoiceInv, TypeOK, AuthorizeNew
<1>7. TypeOK'
  <2>1. /\ authorizations' \in [Keys -> {None} \cup AuthorizationRows]
        /\ call' \in [Processes -> Calls]
    BY <1>1, <1>2, <1>3, <1>4 DEF InvoiceInv, TypeOK
  <2> QED
    BY <1>5, <1>6, <2>1 DEF InvoiceInv, TypeOK, AuthorizeNew, outside
<1>8. AttemptsConsistent'
  BY <1>5 DEF InvoiceInv, AttemptsConsistent, AttemptConsistent
<1>9. CallSound(call[x])' /\ call'[x].pc # "posting"
  BY <1>1, <1>2, <1>3, <1>5 DEF CallSound
<1> QED
  BY <1>2, <1>5, <1>7, <1>8, <1>9, StepWithoutPost DEF AuthorizeNew, outside, Posted

\* beginInstrumentExecution: the Authorization moves and gets its row.
LEMMA BeginKeeps ==
    ASSUME InvoiceInv, NEW x \in Processes, BeginInstrumentExecution(x) PROVE InvoiceInv'
<1> DEFINE k == call[x].key
           next == transitionAuthorization(authorizations[k], "EXECUTING")
           c == [call[x] EXCEPT !.pc = "marking"]
<1>1. call[x] \in Calls /\ k \in Keys /\ authorizations[k] # None
  BY DEF InvoiceInv, TypeOK, CallsSound, CallSound, BeginInstrumentExecution
<1>2. authorizations[k] \in AuthorizationRows /\ AttemptConsistent(authorizations[k])
  BY <1>1 DEF InvoiceInv, TypeOK, AttemptsConsistent
<1>3. /\ next \in AuthorizationRows /\ next.externalActionAttempted
      /\ AttemptConsistent(next)
  BY <1>2, TransitionFacts DEF BeginInstrumentExecution, CanBegin, AuthorizationStatus
<1>4. Begun \in InstrumentRows /\ next # None /\ Begun # None
  BY <1>3, NoneFacts DEF Begun, InstrumentRows
<1>5. c \in Calls /\ c.pc = "marking" /\ c.key = k
  BY <1>1 DEF Calls, ControlStates
<1>6. /\ authorizations' = [authorizations EXCEPT ![k] = next]
      /\ instruments' = [instruments EXCEPT ![k] = Begun]
      /\ call' = [call EXCEPT ![x] = c]
  BY DEF BeginInstrumentExecution, Goes
<1>7. /\ \A a \in Keys : /\ authorizations'[a] = IF a = k THEN next ELSE authorizations[a]
                         /\ instruments'[a] = IF a = k THEN Begun ELSE instruments[a]
      /\ \A y \in Processes : call'[y] = IF y = x THEN c ELSE call[y]
  BY <1>6 DEF InvoiceInv, TypeOK
<1>8. TypeOK'
  <2>1. /\ authorizations' \in [Keys -> {None} \cup AuthorizationRows]
        /\ instruments' \in [Keys -> {None} \cup InstrumentRows]
        /\ call' \in [Processes -> Calls]
    BY <1>3, <1>4, <1>5, <1>6 DEF InvoiceInv, TypeOK
  <2> QED
    BY <1>3, <1>4, <1>7, <2>1 DEF InvoiceInv, TypeOK, BeginInstrumentExecution, outside
<1>9. AttemptsConsistent'
  BY <1>3, <1>7 DEF InvoiceInv, AttemptsConsistent
<1>10. CallSound(call[x])' /\ call'[x].pc # "posting"
  BY <1>1, <1>4, <1>5, <1>7 DEF CallSound
<1>11. instruments[k] = None
  BY DEF BeginInstrumentExecution, CanBegin
<1> QED
  BY <1>4, <1>7, <1>8, <1>9, <1>10, <1>11, StepWithoutPost
  DEF BeginInstrumentExecution, outside, Posted

\* A row that is there is written again: its mark stays, its state changes.
LEMMA RowWrites ==
    ASSUME InvoiceInv, NEW x \in Processes, NEW k \in Keys, NEW row \in InstrumentRows,
           instruments[k] # None, Posted(k) => row.posted,
           instruments' = [instruments EXCEPT ![k] = row],
           NEW c \in Calls, call' = [call EXCEPT ![x] = c], CallSound(c),
           c.pc \notin {"posting", "posted", "marking", "settling", "noting", "inspecting",
                        "recording"},
           UNCHANGED <<permitActive, authorizations, outside, mishaps>>
    PROVE  InvoiceInv'
<1>1. /\ \A a \in Keys : instruments'[a] = IF a = k THEN row ELSE instruments[a]
      /\ \A y \in Processes : call'[y] = IF y = x THEN c ELSE call[y]
  BY DEF InvoiceInv, TypeOK
<1>2. row # None
  BY NoneFacts
<1>3. TypeOK'
  <2>1. /\ instruments' \in [Keys -> {None} \cup InstrumentRows]
        /\ call' \in [Processes -> Calls]
    BY DEF InvoiceInv, TypeOK
  <2> QED
    BY <1>1, <2>1 DEF InvoiceInv, TypeOK, outside
<1>4. AttemptsConsistent'
  BY DEF InvoiceInv, AttemptsConsistent
<1>5. CallSound(call[x])' /\ call'[x].pc # "posting"
  BY <1>1 DEF CallSound
<1> QED
  BY <1>1, <1>2, <1>3, <1>4, <1>5, StepWithoutPost DEF outside, Posted

\* What the answer or an inspection says is recorded.
LEMMA RowStepsKeep ==
    ASSUME InvoiceInv, NEW x \in Processes,
           InvoiceCreated(x) \/ NoteOutcome(x) \/ RecordInspection(x)
    PROVE  InvoiceInv'
<1> DEFINE k == call[x].key
<1>1. call[x] \in Calls /\ CallSound(call[x])
  BY DEF InvoiceInv, TypeOK, CallsSound
<1>2. k \in Keys /\ authorizations[k] # None
  BY <1>1 DEF CallSound, InvoiceCreated, NoteOutcome, RecordInspection
<1>3. instruments[k] # None => instruments[k] \in InstrumentRows
  BY <1>2 DEF InvoiceInv, TypeOK
<1>4. CallSound(Idle) /\ Idle \in Calls /\ Idle.pc = "idle"
  BY NoneFacts DEF CallSound, Idle
<1>5. CASE InvoiceCreated(x)
  <2> DEFINE row == [instruments[k] EXCEPT !.invoice = TRUE, !.state = "UNPAID"]
             c == [call[x] EXCEPT !.pc = "reconciling"]
  <2>1. Posted(k)
    BY <1>1, <1>5 DEF CallSound, InvoiceCreated
  <2>2. row \in InstrumentRows /\ row.posted
    BY <1>3, <2>1 DEF InstrumentRows, Posted
  <2>3. c \in Calls /\ c.pc = "reconciling" /\ c.key = k
    BY <1>1 DEF Calls, ControlStates
  <2>4. CallSound(c)
    BY <1>2, <2>3 DEF CallSound
  <2>5. instruments' = [instruments EXCEPT ![k] = row] /\ call' = [call EXCEPT ![x] = c]
    BY <1>5 DEF InvoiceCreated, Goes
  <2> QED
    BY <1>2, <1>5, <2>1, <2>2, <2>3, <2>4, <2>5, RowWrites DEF InvoiceCreated, Posted
<1>6. CASE NoteOutcome(x)
  <2> DEFINE state == IF call[x].result = "FAILED_SAFE" THEN "FAILED" ELSE "AMBIGUOUS"
             row == [instruments[k] EXCEPT !.state = state]
  <2>1. Posted(k)
    BY <1>1, <1>6 DEF CallSound, NoteOutcome
  <2>2. row \in InstrumentRows /\ row.posted
    BY <1>3, <2>1 DEF InstrumentRows, Posted
  <2>3. instruments' = [instruments EXCEPT ![k] = row] /\ call' = [call EXCEPT ![x] = Idle]
    BY <1>6 DEF NoteOutcome, Ends
  <2> QED
    BY <1>2, <1>4, <1>6, <2>1, <2>2, <2>3, RowWrites DEF NoteOutcome, Posted
<1>7. CASE RecordInspection(x)
  <2> DEFINE result == call[x].result
             row == [instruments[k] EXCEPT !.state = result]
             verdict == [call[x] EXCEPT !.pc = "concluding", !.result = "AMBIGUOUS"]
  <2>1. result \in Readings
    BY <1>1, <1>7 DEF CallSound, RecordInspection
  <2>2. /\ verdict \in Calls /\ verdict.pc = "concluding" /\ verdict.key = k
        /\ verdict.result = "AMBIGUOUS"
    BY <1>1 DEF Calls, ControlStates, Readings
  <2>3. CallSound(verdict)
    BY <1>2, <2>2 DEF CallSound
  <2>4. PICK c \in {Idle, verdict} : call' = [call EXCEPT ![x] = c]
    BY <1>7 DEF RecordInspection, Ends, Settles
  <2>5. c \in Calls /\ CallSound(c) /\ c.pc \in {"idle", "concluding"}
    BY <1>4, <2>2, <2>3, <2>4
  <2>6. instruments[k] # None
    BY <1>1, <1>7 DEF CallSound, RecordInspection
  <2>7. row \in InstrumentRows /\ (Posted(k) => row.posted)
    BY <1>3, <2>1, <2>6 DEF InstrumentRows, Posted, Readings
  <2>8. instruments' = [instruments EXCEPT ![k] = row]
    BY <1>7 DEF RecordInspection
  <2> QED
    BY <1>2, <1>7, <2>4, <2>5, <2>6, <2>7, <2>8, RowWrites DEF RecordInspection
<1> QED
  BY <1>5, <1>6, <1>7

\* An Authorization moves and nothing else: rows, marks and the shop stay.
LEMMA AuthorizationMoves ==
    ASSUME InvoiceInv, NEW k \in Keys, authorizations[k] # None,
           NEW requested \in AuthorizationStatus, TransitionAccepted(authorizations[k], requested),
           authorizations' = [authorizations EXCEPT ![k] = transitionAuthorization(@, requested)],
           call' \in [Processes -> Calls],
           \A y \in Processes : \/ call'[y] = call[y]
                                \/ CallSound(call[y])' /\ call'[y].pc # "posting",
           UNCHANGED <<permitActive, instruments, outside>>, mishaps' \in 0..MaxMishaps
    PROVE  InvoiceInv'
<1> DEFINE next == transitionAuthorization(authorizations[k], requested)
<1>1. authorizations[k] \in AuthorizationRows /\ AttemptConsistent(authorizations[k])
  BY DEF InvoiceInv, TypeOK, AttemptsConsistent
<1>2. /\ next \in AuthorizationRows /\ AttemptConsistent(next)
      /\ authorizations[k].externalActionAttempted => next.externalActionAttempted
  BY <1>1, TransitionFacts
<1>3. next # None
  BY <1>2, NoneFacts
<1>4. \A a \in Keys : authorizations'[a] = IF a = k THEN next ELSE authorizations[a]
  BY DEF InvoiceInv, TypeOK
<1>5. TypeOK'
  <2>1. authorizations' \in [Keys -> {None} \cup AuthorizationRows]
    BY <1>2 DEF InvoiceInv, TypeOK
  <2> QED
    BY <1>2, <1>3, <1>4, <2>1 DEF InvoiceInv, TypeOK, outside
<1>6. AttemptsConsistent'
  BY <1>2, <1>4 DEF InvoiceInv, AttemptsConsistent
<1> QED
  BY <1>3, <1>4, <1>5, <1>6, StepWithoutPost DEF outside, Posted

\* markAmbiguous, markFailedSafe and the commands of the operator.
LEMMA SettleKeeps == ASSUME InvoiceInv, NEW x \in Processes, Settle(x) PROVE InvoiceInv'
<1> DEFINE k == call[x].key
           verdict == call[x].result
           noting == [call[x] EXCEPT !.pc = "noting"]
<1>1. call[x] \in Calls /\ CallSound(call[x])
  BY DEF InvoiceInv, TypeOK, CallsSound
<1>2. k \in Keys /\ authorizations[k] # None /\ verdict \in AuthorizationStatus
  BY <1>1 DEF CallSound, Settle, AuthorizationStatus
<1>3. /\ noting \in Calls /\ noting.pc = "noting" /\ noting.key = k
      /\ Idle \in Calls /\ Idle.pc = "idle"
  BY <1>1, NoneFacts DEF Calls, ControlStates, Idle
<1>4. PICK c \in {noting, Idle} :
         /\ call' = [call EXCEPT ![x] = c]
         /\ c = noting => call[x].pc = "settling"
  BY <1>3 DEF Settle, Goes, Ends
<1>5. \A y \in Processes : call'[y] = IF y = x THEN c ELSE call[y]
  BY <1>4 DEF InvoiceInv, TypeOK
<1>6. transitionAuthorization(authorizations[k], verdict) # None
  <2>1. authorizations[k] \in AuthorizationRows /\ AttemptConsistent(authorizations[k])
    BY <1>2 DEF InvoiceInv, TypeOK, AttemptsConsistent
  <2> QED
    BY <1>2, <2>1, TransitionFacts, NoneFacts DEF Settle
<1>7. CallSound(call[x])' /\ call'[x].pc # "posting"
  <2>1. c = noting => Posted(k)
    BY <1>1, <1>4 DEF CallSound
  <2>2. instruments' = instruments /\ authorizations'[k] # None
    BY <1>2, <1>6 DEF Settle, InvoiceInv, TypeOK
  <2>3. CASE c = noting
    BY <1>2, <1>3, <1>5, <2>1, <2>2, <2>3 DEF CallSound, Posted
  <2>4. CASE c = Idle
    BY <1>3, <1>5, <2>4 DEF CallSound
  <2> QED
    BY <2>3, <2>4
<1>8. call' \in [Processes -> Calls]
  BY <1>3, <1>4 DEF InvoiceInv, TypeOK
<1> QED
  BY <1>2, <1>5, <1>7, <1>8, AuthorizationMoves DEF Settle, InvoiceInv, TypeOK

LEMMA OperatorKeeps == ASSUME InvoiceInv, NEW k \in Keys, Operator(k) PROVE InvoiceInv'
<1>1. PICK requested \in OperatorCommands :
         /\ TransitionAccepted(authorizations[k], requested)
         /\ authorizations' = [authorizations EXCEPT ![k] = transitionAuthorization(@, requested)]
  BY DEF Operator
<1>2. requested \in AuthorizationStatus
  BY InstrumentAssumption
<1>3. call' \in [Processes -> Calls] /\ mishaps' \in 0..MaxMishaps
  BY InstrumentAssumption DEF Operator, InvoiceInv, TypeOK
<1> QED
  BY <1>1, <1>2, <1>3, AuthorizationMoves DEF Operator

\* The shop makes, refuses or moves an invoice it was asked for.
LEMMA ShopMovesKeep == ASSUME InvoiceInv, NEW k \in Keys, ShopMoves(k) PROVE InvoiceInv'
<1> USE DEF store
<1>1. PICK fate \in {"unpaid", "refused", "paid", "closed"} : shop' = [shop EXCEPT ![k] = fate]
  BY DEF ShopMoves
<1>2. \A a \in Keys : shop'[a] = "none" <=> shop[a] = "none"
  BY <1>1 DEF ShopMoves, InvoiceInv, TypeOK
<1>3. TypeOK'
  BY <1>1 DEF ShopMoves, InvoiceInv, TypeOK
<1>4. AttemptsConsistent'
  BY DEF ShopMoves, InvoiceInv, AttemptsConsistent
<1> QED
  BY <1>2, <1>3, <1>4, StepWithoutPost DEF ShopMoves, Posted

LEMMA RevokeKeeps == ASSUME InvoiceInv, Revoke PROVE InvoiceInv'
<1> USE DEF outside
<1>1. TypeOK' /\ AttemptsConsistent'
  BY DEF Revoke, InvoiceInv, TypeOK, AttemptsConsistent
<1> QED
  BY <1>1, StepWithoutPost DEF Revoke, Posted

-----------------------------------------------------------------------------
(* The request.                                                            *)

\* The mark: it was not there, so nothing was posted and nobody else may post.
LEMMA MarkKeeps == ASSUME InvoiceInv, NEW x \in Processes, MarkInvoicePosted(x) PROVE InvoiceInv'
<1> DEFINE k == call[x].key
           row == [instruments[k] EXCEPT !.posted = TRUE, !.state = "INVOICE_POSTED"]
           c == [call[x] EXCEPT !.pc = "posting"]
<1>1. call[x] \in Calls /\ CallSound(call[x])
  BY DEF InvoiceInv, TypeOK, CallsSound
<1>2. k \in Keys /\ authorizations[k] # None /\ instruments[k] \in InstrumentRows /\ ~Posted(k)
  BY <1>1 DEF CallSound, MarkInvoicePosted, InvoiceInv, TypeOK, Posted
<1>3. row \in InstrumentRows /\ row.posted /\ row # None
  BY <1>2, NoneFacts DEF InstrumentRows
<1>4. posts[k] = 0
  <2>1. posts[k] \in 0..MaxPosts /\ posts[k] <= 1 /\ posts[k] # 1
    BY <1>2 DEF InvoiceInv, TypeOK, InvoicePostedOnce, Posted
  <2> QED
    BY <2>1, InstrumentAssumption
<1>5. c \in Calls /\ c.pc = "posting" /\ c.key = k
  BY <1>1 DEF Calls, ControlStates
<1>6. /\ instruments' = [instruments EXCEPT ![k] = row]
      /\ call' = [call EXCEPT ![x] = c]
      /\ UNCHANGED <<permitActive, authorizations, posts, shop, mishaps>>
  BY DEF MarkInvoicePosted, Goes, outside
<1>7. /\ \A a \in Keys : instruments'[a] = IF a = k THEN row ELSE instruments[a]
      /\ \A y \in Processes : call'[y] = IF y = x THEN c ELSE call[y]
  BY <1>6 DEF InvoiceInv, TypeOK
<1>8. TypeOK'
  <2>1. /\ instruments' \in [Keys -> {None} \cup InstrumentRows]
        /\ call' \in [Processes -> Calls]
    BY <1>3, <1>5, <1>6 DEF InvoiceInv, TypeOK
  <2>2. \A a \in Keys : instruments'[a] # None => instruments[a] # None
    BY <1>2, <1>7, NoneFacts
  <2> QED
    BY <1>6, <2>1, <2>2 DEF InvoiceInv, TypeOK
<1>9. \A a \in Keys : /\ Posted(a) => Posted(a)'
                      /\ instruments[a] # None => instruments'[a] # None
  BY <1>3, <1>7 DEF Posted
<1>10. CallsSound'
  <2> SUFFICES ASSUME NEW y \in Processes PROVE CallSound(call[y])'
    BY DEF CallsSound
  <2>1. CASE y = x
    BY <1>2, <1>3, <1>4, <1>5, <1>6, <1>7, <2>1 DEF CallSound, Posted
  <2>2. CASE y # x
    <3>1. CallSound(call[y]) /\ call'[y] = call[y]
      BY <1>7, <2>2 DEF InvoiceInv, CallsSound
    <3> QED
      BY <1>6, <1>9, <3>1 DEF CallSound
  <2> QED
    BY <2>1, <2>2
<1>11. OnePoster'
  <2>1. \A y \in Processes : call[y].pc = "posting" => call[y].key # k
    BY <1>2 DEF InvoiceInv, CallsSound, CallSound
  <2> SUFFICES ASSUME NEW y \in Processes, NEW z \in Processes,
                      call'[y].pc = "posting", call'[z].pc = "posting",
                      call'[y].key = call'[z].key
               PROVE  y = z
    BY DEF OnePoster
  <2>2. CASE y = x
    <3>1. call'[z].key = k
      BY <1>5, <1>7, <2>2
    <3> QED
      BY <1>7, <2>1, <2>2, <3>1
  <2>3. CASE z = x
    <3>1. call'[y].key = k
      BY <1>5, <1>7, <2>3
    <3> QED
      BY <1>7, <2>1, <2>3, <3>1
  <2>4. CASE y # x /\ z # x
    BY <1>7, <2>4 DEF InvoiceInv, OnePoster
  <2> QED
    BY <2>2, <2>3, <2>4
<1>12. AttemptsConsistent' /\ ShopIsAsked' /\ InvoicePostedOnce'
  BY <1>6, <1>9 DEF InvoiceInv, AttemptsConsistent, ShopIsAsked, InvoicePostedOnce, Posted
<1> QED
  BY <1>8, <1>10, <1>11, <1>12 DEF InvoiceInv

\* The request: it is the first under its Authorization, and on record.
LEMMA PostKeeps == ASSUME InvoiceInv, NEW x \in Processes, PostInvoice(x) PROVE InvoiceInv'
<1> DEFINE k == call[x].key
           verdict == [call[x] EXCEPT !.pc = "settling", !.result = "FAILED_SAFE"]
           c == [call[x] EXCEPT !.pc = "posted"]
<1>1. call[x] \in Calls /\ CallSound(call[x]) /\ call[x].pc = "posting"
  BY DEF InvoiceInv, TypeOK, CallsSound, PostInvoice
<1>2. k \in Keys /\ authorizations[k] # None /\ Posted(k) /\ posts[k] = 0
  BY <1>1 DEF CallSound
<1>3. CASE Settles(x, "settling", "FAILED_SAFE") /\ UNCHANGED outside
  <2>1. /\ verdict \in Calls /\ verdict.pc = "settling" /\ verdict.key = k
        /\ verdict.result = "FAILED_SAFE"
    BY <1>1 DEF Calls, ControlStates
  <2>2. CallSound(verdict)
    BY <1>2, <2>1 DEF CallSound
  <2>3. call' = [call EXCEPT ![x] = verdict] /\ UNCHANGED <<store, outside, mishaps>>
    BY <1>3 DEF PostInvoice, Settles
  <2> QED
    BY <2>1, <2>2, <2>3, CallMoves DEF InvoiceInv, TypeOK
<1>4. CASE ~ (Settles(x, "settling", "FAILED_SAFE") /\ UNCHANGED outside)
  <2>1. c \in Calls /\ c.pc = "posted" /\ c.key = k
    BY <1>1 DEF Calls, ControlStates
  <2>2. /\ posts' = [posts EXCEPT ![k] = 1] /\ MaxPosts >= 1
        /\ shop' = [shop EXCEPT ![k] = IF @ = "none" THEN "asked" ELSE @]
        /\ call' = [call EXCEPT ![x] = c]
        /\ UNCHANGED <<permitActive, authorizations, instruments, mishaps>>
    BY <1>2, <1>4, InstrumentAssumption DEF PostInvoice, Goes, store
  <2>3. /\ \A a \in Keys : posts'[a] = IF a = k THEN 1 ELSE posts[a]
        /\ \A a \in Keys : a # k => shop'[a] = shop[a]
        /\ \A y \in Processes : call'[y] = IF y = x THEN c ELSE call[y]
    BY <2>2 DEF InvoiceInv, TypeOK
  <2>4. TypeOK'
    <3>1. /\ posts' \in [Keys -> 0..MaxPosts]
          /\ shop' \in [Keys -> {"none", "asked", "refused", "unpaid", "paid", "closed"}]
          /\ call' \in [Processes -> Calls]
      <4>1. 1 \in 0..MaxPosts
        BY <2>2, InstrumentAssumption
      <4>2. posts' \in [Keys -> 0..MaxPosts]
        BY <2>2, <4>1 DEF InvoiceInv, TypeOK
      <4>3. shop' \in [Keys -> {"none", "asked", "refused", "unpaid", "paid", "closed"}]
        BY <1>2, <2>2 DEF InvoiceInv, TypeOK
      <4> QED
        BY <2>1, <2>2, <4>2, <4>3 DEF InvoiceInv, TypeOK
    <3> QED
      BY <2>2, <3>1 DEF InvoiceInv, TypeOK
  <2>5. CallsSound'
    <3> SUFFICES ASSUME NEW y \in Processes PROVE CallSound(call[y])'
      BY DEF CallsSound
    <3>1. CASE y = x
      <4>1. /\ call'[y] = c /\ posts'[k] = 1
            /\ authorizations'[k] # None /\ instruments'[k] # None /\ instruments'[k].posted
        BY <1>2, <2>2, <2>3, <3>1 DEF Posted
      <4> QED
        BY <1>2, <2>1, <4>1 DEF CallSound, Posted
    <3>2. CASE y # x
      <4>1. CallSound(call[y]) /\ call'[y] = call[y]
        BY <2>3, <3>2 DEF InvoiceInv, CallsSound
      <4>2. call[y].pc = "posting" => call[y].key # k
        BY <1>1, <3>2 DEF InvoiceInv, OnePoster
      <4>3. call[y].pc \in {"posting", "posted"} => call[y].key \in Keys
        BY <4>1 DEF CallSound
      <4> QED
        BY <2>2, <2>3, <4>1, <4>2, <4>3 DEF CallSound, Posted
    <3> QED
      BY <3>1, <3>2
  <2>6. OnePoster'
    <3>1. \A y \in Processes : call'[y].pc = "posting" => call'[y] = call[y]
      BY <2>1, <2>3
    <3> SUFFICES ASSUME NEW y \in Processes, NEW z \in Processes,
                        call'[y].pc = "posting", call'[z].pc = "posting",
                        call'[y].key = call'[z].key
                 PROVE  y = z
      BY DEF OnePoster
    <3> QED
      BY <3>1 DEF InvoiceInv, OnePoster
  <2>7. AttemptsConsistent'
    BY <2>2 DEF InvoiceInv, AttemptsConsistent
  <2>8. ShopIsAsked'
    BY <2>3 DEF InvoiceInv, ShopIsAsked
  <2>9. InvoicePostedOnce'
    BY <1>2, <2>2, <2>3 DEF InvoiceInv, InvoicePostedOnce, Posted
  <2> QED
    BY <2>4, <2>5, <2>6, <2>7, <2>8, <2>9 DEF InvoiceInv
<1> QED
  BY <1>3, <1>4

-----------------------------------------------------------------------------
(* The theorems.                                                           *)

LEMMA InitEstablishes == Init => InvoiceInv
<1> SUFFICES ASSUME Init PROVE InvoiceInv
  OBVIOUS
<1>1. TypeOK
  BY NoneFacts, InstrumentAssumption DEF Init, TypeOK
<1>2. CallsSound
  BY DEF Init, CallsSound, CallSound, Idle
<1>3. AttemptsConsistent /\ OnePoster /\ ShopIsAsked /\ InvoicePostedOnce
  BY DEF Init, AttemptsConsistent, OnePoster, ShopIsAsked, InvoicePostedOnce, Idle
<1> QED
  BY <1>1, <1>2, <1>3 DEF InvoiceInv

LEMMA NextKeeps == InvoiceInv /\ [Next]_vars => InvoiceInv'
<1> SUFFICES ASSUME InvoiceInv, [Next]_vars PROVE InvoiceInv'
  OBVIOUS
<1>1. CASE UNCHANGED vars
  <2>1. TypeOK' /\ AttemptsConsistent'
    BY <1>1 DEF vars, world, store, outside, InvoiceInv, TypeOK, AttemptsConsistent
  <2> QED
    BY <1>1, <2>1, StepWithoutPost DEF vars, world, store, outside, Posted
<1>2. ASSUME NEW x \in Processes, StartCreate(x) \/ Step(x) \/ Crash(x) PROVE InvoiceInv'
  BY <1>2, CallOnlyStepsKeep, AuthorizeNewKeeps, BeginKeeps, RowStepsKeep, SettleKeeps,
     MarkKeeps, PostKeeps DEF Step
<1>3. ASSUME NEW x \in Processes, NEW k \in Keys, StartReconcile(x, k) PROVE InvoiceInv'
  BY <1>3, CallOnlyStepsKeep
<1>4. ASSUME NEW k \in Keys, Operator(k) \/ ShopMoves(k) PROVE InvoiceInv'
  BY <1>4, OperatorKeeps, ShopMovesKeep
<1> QED
  BY <1>1, <1>2, <1>3, <1>4, RevokeKeeps DEF Next

\* The inductive invariant holds in every reachable state: what the calls know
\* is true, however they interleave.
THEOREM InvoiceInvariant == Spec => []InvoiceInv
  BY InitEstablishes, NextKeeps, PTL DEF Spec

\* The type invariant: the rows and calls have their types, and an instrument row
\* belongs to an Authorization whose external action may have begun.
THEOREM InvoiceTypeCorrect == Spec => []TypeOK
<1>1. InvoiceInv => TypeOK
  BY DEF InvoiceInv
<1> QED
  BY <1>1, InvoiceInvariant, PTL

\* The shop is asked for an invoice at most once under an Authorization, and only
\* after the store says so (beginInstrumentExecution, markInstrumentInvoicePosted).
THEOREM PostedOnce == Spec => []InvoicePostedOnce
<1>1. InvoiceInv => InvoicePostedOnce
  BY DEF InvoiceInv
<1> QED
  BY <1>1, InvoiceInvariant, PTL

-----------------------------------------------------------------------------
(* What is written off.                                                    *)

Unmade(k) == shop[k] \in {"none", "refused"}

\* The one request of the Authorization is over, and the shop made nothing of it.
Final(k) ==
    /\ Unmade(k)
    /\ Posted(k)
    /\ \A x \in Processes : ~(call[x].pc = "posting" /\ call[x].key = k)

\* Written off, or about to be by a call that has the shop's refusal.
WrittenOff(k) ==
    \/ instruments[k] # None /\ instruments[k].state = "FAILED"
    \/ authorizations[k] # None /\ authorizations[k].status = "FAILED_SAFE"
    \/ \E x \in Processes : /\ call[x].pc \in {"settling", "noting"}
                            /\ call[x].key = k
                            /\ call[x].result = "FAILED_SAFE"

\* The operator may release what was written off or never begun.
ReleasedSound(k) ==
    authorizations[k] # None /\ authorizations[k].status = "RELEASED"
    => instruments[k] = None \/ Final(k)

WrittenOffInv == \A k \in Keys : (WrittenOff(k) => Final(k)) /\ ReleasedSound(k)

\* Without a row, or with a call about to post, the shop has heard nothing.
LEMMA SilentShop ==
    ASSUME InvoiceInv, NEW k \in Keys, posts[k] = 0 \/ instruments[k] = None
    PROVE  posts[k] = 0 /\ shop[k] = "none"
<1>1. posts[k] \in 0..MaxPosts /\ posts[k] <= 1 /\ (posts[k] = 1 => instruments[k] # None)
  BY DEF InvoiceInv, TypeOK, InvoicePostedOnce
<1>2. posts[k] = 0
  BY <1>1, InstrumentAssumption
<1> QED
  BY <1>2 DEF InvoiceInv, ShopIsAsked

\* The steps of one call: which of them ends in a request, and which in a refusal.
LEMMA CallFrame ==
    ASSUME InvoiceInv, NEW x \in Processes,
           \/ StartCreate(x) \/ Step(x) \/ Crash(x) \/ \E k \in Keys : StartReconcile(x, k)
    PROVE  /\ \A y \in Processes : y # x => call'[y] = call[y]
           /\ call'[x].pc = "posting" => MarkInvoicePosted(x) /\ call'[x].key = call[x].key
           /\ call'[x].pc \in {"settling", "noting"} => call'[x].key = call[x].key
           /\ call'[x].pc = "settling" => PostInvoice(x) \/ InvoiceFailed(x)
           /\ call'[x].pc = "noting" =>
                 Settle(x) /\ call[x].pc = "settling" /\ call'[x].result = call[x].result
<1>1. call \in [Processes -> Calls] /\ call[x] \in Calls
  BY DEF InvoiceInv, TypeOK
<1>2. ASSUME NEW c, call' = [call EXCEPT ![x] = c]
      PROVE  call'[x] = c /\ \A y \in Processes : y # x => call'[y] = call[y]
  BY <1>1, <1>2
<1>3. ASSUME NEW pc, Goes(x, pc)
      PROVE  /\ call'[x].pc = pc /\ call'[x].key = call[x].key
             /\ call'[x].result = call[x].result
             /\ \A y \in Processes : y # x => call'[y] = call[y]
  BY <1>1, <1>3 DEF Goes, Calls
<1>4. ASSUME NEW pc, NEW verdict, Settles(x, pc, verdict)
      PROVE  /\ call'[x].pc = pc /\ call'[x].key = call[x].key
             /\ \A y \in Processes : y # x => call'[y] = call[y]
  BY <1>1, <1>4 DEF Settles, Calls
<1>5. ASSUME Ends(x)
      PROVE  call'[x].pc = "idle" /\ \A y \in Processes : y # x => call'[y] = call[y]
  BY <1>1, <1>5 DEF Ends, Idle
<1>6. CASE StartCreate(x)
  BY <1>1, <1>6 DEF StartCreate, Idle
<1>7. CASE AuthorizeNew(x) \/ Revalidated(x) \/ BeginInstrumentExecution(x) \/ InvoiceCreated(x)
  BY <1>3, <1>7 DEF AuthorizeNew, Revalidated, BeginInstrumentExecution, InvoiceCreated
<1>8. CASE AuthorizeKnown(x)
  <2>1. Ends(x) \/ Goes(x, "revalidating") \/ Goes(x, "reconciling")
    BY <1>8 DEF AuthorizeKnown
  <2> QED
    BY <1>3, <1>5, <2>1
<1>9. CASE MarkInvoicePosted(x)
  BY <1>3, <1>9 DEF MarkInvoicePosted
<1>10. CASE PostInvoice(x)
  <2>1. Goes(x, "posted") \/ Settles(x, "settling", "FAILED_SAFE")
    BY <1>10 DEF PostInvoice
  <2> QED
    BY <1>3, <1>4, <1>10, <2>1
<1>11. CASE InvoiceFailed(x)
  <2>1. Settles(x, "settling", "AMBIGUOUS") \/ Settles(x, "settling", "FAILED_SAFE")
    BY <1>11 DEF InvoiceFailed
  <2> QED
    BY <1>4, <1>11, <2>1
<1>12. CASE Settle(x)
  <2>1. (call[x].pc = "settling" /\ Goes(x, "noting")) \/ Ends(x)
    BY <1>12 DEF Settle
  <2> QED
    BY <1>3, <1>5, <1>12, <2>1
<1>13. CASE NoteOutcome(x) \/ Throws(x) \/ Crash(x)
  BY <1>5, <1>13 DEF NoteOutcome, Throws, Crash
<1>14. CASE ReadForReconcile(x) \/ Inspected(x) \/ InspectedInVain(x)
  <2>1. Ends(x) \/ (/\ call'[x].pc \in {"inspecting", "recording"}
                    /\ \A y \in Processes : y # x => call'[y] = call[y])
                   \/ Settles(x, "concluding", "AMBIGUOUS")
    BY <1>1, <1>14 DEF ReadForReconcile, Inspected, InspectedInVain, Calls
  <2> QED
    BY <1>4, <1>5, <2>1
<1>15. CASE RecordInspection(x)
  <2>1. Ends(x) \/ Settles(x, "concluding", "AMBIGUOUS")
    BY <1>15 DEF RecordInspection
  <2> QED
    BY <1>4, <1>5, <2>1
<1>16. CASE \E k \in Keys : StartReconcile(x, k)
  BY <1>1, <1>16 DEF StartReconcile, Idle
<1> QED
  BY <1>6, <1>7, <1>8, <1>9, <1>10, <1>11, <1>12, <1>13, <1>14, <1>15, <1>16 DEF Step

\* The mark stays; FAILED is written by the call that has the refusal, and a row
\* begins only under an Authorization that may still execute.
RowGoesOn(k) ==
    /\ Posted(k) => Posted(k)'
    /\ instruments'[k] # None /\ instruments'[k].state = "FAILED" =>
          \/ instruments[k] # None /\ instruments[k].state = "FAILED"
          \/ \E x \in Processes : /\ call[x].pc = "noting" /\ call[x].key = k
                                  /\ call[x].result = "FAILED_SAFE"
    /\ instruments[k] = None /\ instruments'[k] # None =>
          /\ TransitionAccepted(authorizations[k], "EXECUTING")
          /\ authorizations' = [authorizations EXCEPT ![k] =
                 transitionAuthorization(@, "EXECUTING")]

LEMMA RowFrame == ASSUME InvoiceInv, Next, NEW k \in Keys PROVE RowGoesOn(k)
<1>1. /\ instruments \in [Keys -> {None} \cup InstrumentRows]
      /\ \A x \in Processes : call[x] \in Calls /\ CallSound(call[x])
  BY DEF InvoiceInv, TypeOK, CallsSound
<1>2. ASSUME instruments'[k] = instruments[k] PROVE RowGoesOn(k)
  BY <1>2 DEF RowGoesOn, Posted
<1>3. ASSUME NEW row \in InstrumentRows, instruments[k] # None, instruments'[k] = row,
             row.state # "FAILED", Posted(k) => row.posted
      PROVE  RowGoesOn(k)
  BY <1>3, NoneFacts DEF RowGoesOn, Posted
<1>4. ASSUME NEW x \in Processes, BeginInstrumentExecution(x) PROVE RowGoesOn(k)
  <2>1. CASE call[x].key = k
    <3>1. instruments[k] = None /\ instruments'[k] = Begun
      BY <1>1, <1>4, <2>1 DEF BeginInstrumentExecution, CanBegin
    <3>2. Begun.state # "FAILED"
      BY DEF Begun
    <3> QED
      BY <1>4, <2>1, <3>1, <3>2 DEF RowGoesOn, Posted, BeginInstrumentExecution, CanBegin
  <2>2. CASE call[x].key # k
    BY <1>1, <1>2, <1>4, <2>2 DEF BeginInstrumentExecution
  <2> QED
    BY <2>1, <2>2
<1>5. ASSUME NEW x \in Processes, call[x].key = k, MarkInvoicePosted(x) \/ InvoiceCreated(x)
      PROVE  RowGoesOn(k)
  <2>1. instruments[k] \in InstrumentRows /\ instruments[k] # None
    BY <1>1, <1>5 DEF MarkInvoicePosted, InvoiceCreated, CallSound, Posted
  <2>2. CASE MarkInvoicePosted(x)
    <3> DEFINE row == [instruments[k] EXCEPT !.posted = TRUE, !.state = "INVOICE_POSTED"]
    <3>1. row \in InstrumentRows /\ row.posted /\ row.state # "FAILED"
      BY <2>1 DEF InstrumentRows
    <3>2. instruments'[k] = row
      BY <1>1, <1>5, <2>2 DEF MarkInvoicePosted
    <3> QED
      BY <1>3, <2>1, <3>1, <3>2
  <2>3. CASE InvoiceCreated(x)
    <3> DEFINE row == [instruments[k] EXCEPT !.invoice = TRUE, !.state = "UNPAID"]
    <3>1. row \in InstrumentRows /\ row.posted = instruments[k].posted /\ row.state # "FAILED"
      BY <2>1 DEF InstrumentRows
    <3>2. instruments'[k] = row
      BY <1>1, <1>5, <2>3 DEF InvoiceCreated
    <3> QED
      BY <1>3, <2>1, <3>1, <3>2 DEF Posted
  <2> QED
    BY <1>5, <2>2, <2>3
<1>6. ASSUME NEW x \in Processes, call[x].key = k, NoteOutcome(x) PROVE RowGoesOn(k)
  <2>1. instruments[k] \in InstrumentRows /\ instruments[k] # None /\ Posted(k)
    BY <1>1, <1>6 DEF NoteOutcome, CallSound, Posted
  <2>2. CASE call[x].result = "FAILED_SAFE"
    <3> DEFINE row == [instruments[k] EXCEPT !.state = "FAILED"]
    <3>1. row \in InstrumentRows /\ row.posted = instruments[k].posted
      BY <2>1 DEF InstrumentRows
    <3>2. instruments'[k] = row
      BY <1>1, <1>6, <2>2 DEF NoteOutcome
    <3> QED
      BY <1>6, <2>1, <2>2, <3>1, <3>2, NoneFacts DEF RowGoesOn, Posted, NoteOutcome
  <2>3. CASE call[x].result # "FAILED_SAFE"
    <3> DEFINE row == [instruments[k] EXCEPT !.state = "AMBIGUOUS"]
    <3>1. row \in InstrumentRows /\ row.posted = instruments[k].posted /\ row.state # "FAILED"
      BY <2>1 DEF InstrumentRows
    <3>2. instruments'[k] = row
      BY <1>1, <1>6, <2>3 DEF NoteOutcome
    <3> QED
      BY <1>3, <2>1, <3>1, <3>2 DEF Posted
  <2> QED
    BY <2>2, <2>3
<1>7. ASSUME NEW x \in Processes, call[x].key = k, RecordInspection(x) PROVE RowGoesOn(k)
  <2> DEFINE row == [instruments[k] EXCEPT !.state = call[x].result]
  <2>1. call[x].result \in Readings /\ instruments[k] # None
    BY <1>1, <1>7 DEF CallSound, RecordInspection
  <2>2. row \in InstrumentRows /\ row.posted = instruments[k].posted /\ row.state # "FAILED"
    BY <1>1, <2>1 DEF InstrumentRows, Readings
  <2>3. instruments'[k] = row
    BY <1>1, <1>7 DEF RecordInspection
  <2> QED
    BY <1>3, <2>1, <2>2, <2>3 DEF Posted
<1>8. ASSUME NEW x \in Processes, call[x].key # k,
             MarkInvoicePosted(x) \/ InvoiceCreated(x) \/ NoteOutcome(x) \/ RecordInspection(x)
      PROVE  RowGoesOn(k)
  BY <1>1, <1>2, <1>8 DEF MarkInvoicePosted, InvoiceCreated, NoteOutcome, RecordInspection
<1>9. ASSUME NEW x \in Processes,
             \/ StartCreate(x) \/ AuthorizeNew(x) \/ AuthorizeKnown(x) \/ Revalidated(x)
             \/ PostInvoice(x) \/ InvoiceFailed(x) \/ Settle(x) \/ ReadForReconcile(x)
             \/ Inspected(x) \/ InspectedInVain(x) \/ Throws(x) \/ Crash(x)
             \/ \E a \in Keys : StartReconcile(x, a)
      PROVE  RowGoesOn(k)
  <2>1. UNCHANGED instruments
    BY <1>9 DEF StartCreate, AuthorizeNew, AuthorizeKnown, Revalidated, PostInvoice,
       InvoiceFailed, Settle, ReadForReconcile, Inspected, InspectedInVain, Throws, Crash,
       StartReconcile, world, store
  <2> QED
    BY <1>2, <2>1
<1>10. ASSUME NEW a \in Keys, Operator(a) \/ ShopMoves(a) \/ Revoke PROVE RowGoesOn(k)
  BY <1>2, <1>10 DEF Operator, ShopMoves, Revoke, store
<1> QED
  BY <1>4, <1>5, <1>6, <1>7, <1>8, <1>9, <1>10 DEF Next, Step

\* FAILED_SAFE is written by the call that has the refusal; RELEASED follows it, or
\* an Authorization that never began.
StatusGoesOn(k) ==
    authorizations'[k] # None =>
        /\ authorizations'[k].status = "FAILED_SAFE" =>
              \/ authorizations[k] # None /\ authorizations[k].status = "FAILED_SAFE"
              \/ \E x \in Processes : /\ call[x].pc = "settling" /\ call[x].key = k
                                      /\ call[x].result = "FAILED_SAFE"
        /\ authorizations'[k].status = "RELEASED" =>
              /\ authorizations[k] # None
              /\ authorizations[k].status \in {"AUTHORIZED", "FAILED_SAFE", "RELEASED"}

LEMMA StatusFrame ==
    ASSUME InvoiceInv, Next, "FAILED_SAFE" \notin OperatorCommands, NEW k \in Keys
    PROVE  StatusGoesOn(k)
<1>1. /\ authorizations \in [Keys -> {None} \cup AuthorizationRows]
      /\ \A x \in Processes : CallSound(call[x])
  BY DEF InvoiceInv, TypeOK, CallsSound
<1>2. ASSUME authorizations'[k] = authorizations[k] PROVE StatusGoesOn(k)
  <2> SUFFICES ASSUME authorizations[k] # None PROVE StatusGoesOn(k)
    BY <1>2 DEF StatusGoesOn
  <2> QED
    BY <1>1, <1>2 DEF StatusGoesOn
<1>3. ASSUME NEW requested \in AuthorizationStatus, authorizations[k] # None,
             TransitionAccepted(authorizations[k], requested),
             authorizations'[k] = transitionAuthorization(authorizations[k], requested)
      PROVE  /\ authorizations'[k].status = requested
             /\ requested = "RELEASED" =>
                   authorizations[k].status \in {"AUTHORIZED", "FAILED_SAFE", "RELEASED"}
  <2>1. authorizations[k] \in AuthorizationRows /\ AttemptConsistent(authorizations[k])
    BY <1>1, <1>3 DEF InvoiceInv, AttemptsConsistent
  <2>2. authorizations'[k].status = requested
    BY <1>3, <2>1, TransitionFacts
  <2>3. requested = "RELEASED" =>
           authorizations[k].status \in {"AUTHORIZED", "FAILED_SAFE", "RELEASED"}
    BY <1>3 DEF TransitionAccepted, canReleaseAuthorization
  <2> QED
    BY <2>2, <2>3
<1>4. ASSUME NEW x \in Processes, BeginInstrumentExecution(x) PROVE StatusGoesOn(k)
  <2>1. CASE call[x].key = k
    <3>1. authorizations[k] # None
      BY <1>1, <1>4, <2>1 DEF CallSound, BeginInstrumentExecution
    <3>2. authorizations'[k].status = "EXECUTING"
      BY <1>1, <1>3, <1>4, <2>1, <3>1 DEF BeginInstrumentExecution, CanBegin, AuthorizationStatus
    <3> QED
      BY <3>2 DEF StatusGoesOn
  <2>2. CASE call[x].key # k
    BY <1>1, <1>2, <1>4, <2>2 DEF BeginInstrumentExecution
  <2> QED
    BY <2>1, <2>2
<1>5. ASSUME NEW x \in Processes, AuthorizeNew(x) PROVE StatusGoesOn(k)
  <2>1. CASE call[x].key = k
    <3>1. authorizations'[k].status = "AUTHORIZED"
      BY <1>1, <1>5, <2>1 DEF AuthorizeNew
    <3> QED
      BY <3>1 DEF StatusGoesOn
  <2>2. CASE call[x].key # k
    BY <1>1, <1>2, <1>5, <2>2 DEF AuthorizeNew
  <2> QED
    BY <2>1, <2>2
<1>6. ASSUME NEW x \in Processes, Settle(x) PROVE StatusGoesOn(k)
  <2>1. CASE call[x].key = k
    <3> DEFINE verdict == call[x].result
    <3>1. /\ authorizations[k] # None /\ verdict \in {"AMBIGUOUS", "FAILED_SAFE"}
          /\ verdict = "FAILED_SAFE" => call[x].pc = "settling"
      BY <1>1, <1>6, <2>1 DEF CallSound, Settle
    <3>2. verdict \in AuthorizationStatus
      BY <3>1 DEF AuthorizationStatus
    <3>3. /\ TransitionAccepted(authorizations[k], verdict)
          /\ authorizations'[k] = transitionAuthorization(authorizations[k], verdict)
      BY <1>1, <1>6, <2>1 DEF Settle
    <3>4. authorizations'[k].status = verdict
      BY <1>3, <3>1, <3>2, <3>3
    <3> QED
      BY <2>1, <3>1, <3>4 DEF StatusGoesOn
  <2>2. CASE call[x].key # k
    BY <1>1, <1>2, <1>6, <2>2 DEF Settle
  <2> QED
    BY <2>1, <2>2
<1>7. ASSUME NEW a \in Keys, Operator(a) PROVE StatusGoesOn(k)
  <2>1. CASE a = k
    <3>1. PICK requested \in OperatorCommands :
             /\ TransitionAccepted(authorizations[k], requested)
             /\ authorizations'[k] = transitionAuthorization(authorizations[k], requested)
      BY <1>1, <1>7, <2>1 DEF Operator
    <3>2. requested \in AuthorizationStatus /\ requested # "FAILED_SAFE"
      BY InstrumentAssumption
    <3>3. authorizations[k] # None
      BY <1>7, <2>1 DEF Operator
    <3> QED
      BY <1>3, <3>1, <3>2, <3>3 DEF StatusGoesOn
  <2>2. CASE a # k
    BY <1>1, <1>2, <1>7, <2>2 DEF Operator
  <2> QED
    BY <2>1, <2>2
<1>8. ASSUME NEW x \in Processes,
             \/ StartCreate(x) \/ AuthorizeKnown(x) \/ Revalidated(x) \/ MarkInvoicePosted(x)
             \/ PostInvoice(x) \/ InvoiceCreated(x) \/ InvoiceFailed(x) \/ NoteOutcome(x)
             \/ ReadForReconcile(x) \/ Inspected(x) \/ InspectedInVain(x)
             \/ RecordInspection(x) \/ Throws(x) \/ Crash(x)
             \/ \E a \in Keys : StartReconcile(x, a)
      PROVE  StatusGoesOn(k)
  <2>1. UNCHANGED authorizations
    BY <1>8 DEF StartCreate, AuthorizeKnown, Revalidated, MarkInvoicePosted, PostInvoice,
       InvoiceCreated, InvoiceFailed, NoteOutcome, ReadForReconcile, Inspected,
       InspectedInVain, RecordInspection, Throws, Crash, StartReconcile, world, store
  <2> QED
    BY <1>2, <2>1
<1>9. ASSUME NEW a \in Keys, ShopMoves(a) \/ Revoke PROVE StatusGoesOn(k)
  BY <1>2, <1>9 DEF ShopMoves, Revoke, store
<1> QED
  BY <1>4, <1>5, <1>6, <1>7, <1>8, <1>9 DEF Next, Step

\* The shop moves on what it was asked, and only a call about to post asks.
LEMMA UnmadeStays ==
    ASSUME InvoiceInv, Next, NEW k \in Keys, Final(k) PROVE Unmade(k)'
<1>1. shop \in [Keys -> {"none", "asked", "refused", "unpaid", "paid", "closed"}]
  BY DEF InvoiceInv, TypeOK
<1>2. ASSUME NEW x \in Processes, PostInvoice(x) PROVE shop'[k] = shop[k]
  <2>1. call[x].key # k
    BY <1>2 DEF PostInvoice, Final
  <2> QED
    BY <1>1, <1>2, <2>1 DEF PostInvoice, outside
<1>3. ASSUME NEW a \in Keys, ShopMoves(a) PROVE shop'[k] = shop[k]
  BY <1>1, <1>3 DEF ShopMoves, Final, Unmade
<1>4. ASSUME NEW x \in Processes, ~PostInvoice(x), StartCreate(x) \/ Step(x) \/ Crash(x)
      PROVE  UNCHANGED shop
  BY <1>4 DEF Step, StartCreate, AuthorizeNew, AuthorizeKnown, Revalidated,
     BeginInstrumentExecution, MarkInvoicePosted, InvoiceCreated, InvoiceFailed, Settle,
     NoteOutcome, ReadForReconcile, Inspected, InspectedInVain, RecordInspection, Throws,
     Crash, world, outside
<1>5. ASSUME NEW x \in Processes, NEW a \in Keys, StartReconcile(x, a) PROVE UNCHANGED shop
  BY <1>5 DEF StartReconcile, world, outside
<1>6. ASSUME NEW a \in Keys, Operator(a) \/ Revoke PROVE UNCHANGED shop
  BY <1>6 DEF Operator, Revoke, outside
<1> QED
  BY <1>2, <1>3, <1>4, <1>5, <1>6 DEF Next, Final, Unmade

\* What is final stays so: the mark keeps every other call from posting.
LEMMA FinalStays ==
    ASSUME InvoiceInv, Next, NEW k \in Keys, Final(k) PROVE Final(k)'
<1>1. Unmade(k)' /\ Posted(k)'
  BY UnmadeStays, RowFrame DEF RowGoesOn, Final
<1>2. ASSUME NEW x \in Processes, call'[x].pc = "posting", call'[x].key = k PROVE FALSE
  <2>1. CASE call'[x] = call[x]
    BY <1>2, <2>1 DEF Final
  <2>2. CASE call'[x] # call[x]
    <3>1. PICK y \in Processes :
             StartCreate(y) \/ Step(y) \/ Crash(y) \/ \E a \in Keys : StartReconcile(y, a)
      BY <2>2 DEF Next, Operator, ShopMoves, Revoke
    <3>2. x = y
      BY <2>2, <3>1, CallFrame
    <3>3. MarkInvoicePosted(x) /\ call[x].key = k
      BY <1>2, <3>1, <3>2, CallFrame
    <3> QED
      BY <3>3 DEF MarkInvoicePosted, Final, Posted
  <2> QED
    BY <2>1, <2>2
<1> QED
  BY <1>1, <1>2 DEF Final

\* The refusal of the only request is final, and so is a request that did not leave.
LEMMA RefusalIsFinal ==
    ASSUME InvoiceInv, NEW x \in Processes, NEW k \in Keys, call[x].key = k,
           PostInvoice(x) \/ InvoiceFailed(x),
           call'[x].pc = "settling", call'[x].result = "FAILED_SAFE"
    PROVE  Final(k)'
<1>1. call \in [Processes -> Calls] /\ \A y \in Processes : CallSound(call[y])
  BY DEF InvoiceInv, TypeOK, CallsSound
<1>2. Posted(k)
  BY <1>1 DEF CallSound, PostInvoice, InvoiceFailed
<1>3. \A y \in Processes : y # x => call'[y] = call[y]
  BY CallFrame DEF Step
<1>4. CASE PostInvoice(x)
  <2>1. ~ Goes(x, "posted")
    BY <1>1, <1>4 DEF PostInvoice, Goes, Calls
  <2>2. UNCHANGED <<shop, instruments>>
    BY <1>4, <2>1 DEF PostInvoice, outside, store
  <2>3. call[x].pc = "posting" /\ posts[k] = 0
    BY <1>1, <1>4 DEF PostInvoice, CallSound
  <2>4. shop[k] = "none"
    BY <2>3, SilentShop
  <2>5. \A y \in Processes : y # x => ~(call[y].pc = "posting" /\ call[y].key = k)
    BY <2>3 DEF InvoiceInv, OnePoster
  <2> QED
    BY <1>2, <1>3, <2>2, <2>4, <2>5 DEF Final, Unmade, Posted
<1>5. CASE InvoiceFailed(x)
  <2>1. UNCHANGED <<shop, instruments>> /\ posts[k] = 1
    BY <1>1, <1>5 DEF InvoiceFailed, world, outside, store, CallSound
  <2>2. ~Settles(x, "settling", "AMBIGUOUS")
    BY <1>1 DEF Settles, Calls
  <2>3. PICK answer \in ErrorAnswers(k) : ~RequestIsAmbiguous(answer)
    BY <1>5, <2>2 DEF InvoiceFailed
  <2>4. shop[k] = "refused"
    BY <2>3 DEF ErrorAnswers, RequestIsAmbiguous, UncertainStatus, ConnectionFailures
  <2>5. \A y \in Processes : ~(call[y].pc = "posting" /\ call[y].key = k)
    BY <1>1, <2>1 DEF CallSound
  <2> QED
    BY <1>2, <1>3, <2>1, <2>4, <2>5 DEF Final, Unmade, Posted
<1> QED
  BY <1>4, <1>5

\* A call is about to write off only what was written off already, or is final now.
LEMMA WrittenOffGoesOn ==
    ASSUME InvoiceInv, WrittenOffInv, Next, "FAILED_SAFE" \notin OperatorCommands,
           NEW k \in Keys, WrittenOff(k)'
    PROVE  Final(k)'
<1>1. CASE WrittenOff(k)
  BY <1>1, FinalStays DEF WrittenOffInv
<1>2. CASE instruments'[k] # None /\ instruments'[k].state = "FAILED"
  BY <1>1, <1>2, RowFrame DEF RowGoesOn, WrittenOff
<1>3. CASE authorizations'[k] # None /\ authorizations'[k].status = "FAILED_SAFE"
  BY <1>1, <1>3, StatusFrame DEF StatusGoesOn, WrittenOff
<1>4. ASSUME NEW x \in Processes, call'[x].pc \in {"settling", "noting"},
             call'[x].key = k, call'[x].result = "FAILED_SAFE"
      PROVE  Final(k)'
  <2>1. CASE call'[x] = call[x]
    BY <1>1, <1>4, <2>1 DEF WrittenOff
  <2>2. CASE call'[x] # call[x]
    <3>1. PICK y \in Processes :
             StartCreate(y) \/ Step(y) \/ Crash(y) \/ \E a \in Keys : StartReconcile(y, a)
      BY <2>2 DEF Next, Operator, ShopMoves, Revoke
    <3>2. x = y /\ call[x].key = k
      BY <1>4, <2>2, <3>1, CallFrame
    <3>3. CASE call'[x].pc = "settling"
      BY <1>4, <3>1, <3>2, <3>3, CallFrame, RefusalIsFinal
    <3>4. CASE call'[x].pc = "noting"
      <4>1. call[x].pc = "settling" /\ call[x].result = "FAILED_SAFE"
        BY <1>4, <3>1, <3>2, <3>4, CallFrame
      <4> QED
        BY <1>1, <3>2, <4>1 DEF WrittenOff
    <3> QED
      BY <1>4, <3>3, <3>4
  <2> QED
    BY <2>1, <2>2
<1> QED
  BY <1>2, <1>3, <1>4 DEF WrittenOff

\* A released Authorization has no row and gets none, or was written off.
LEMMA ReleasedGoesOn ==
    ASSUME InvoiceInv, WrittenOffInv, Next, "FAILED_SAFE" \notin OperatorCommands,
           NEW k \in Keys
    PROVE  ReleasedSound(k)'
<1> SUFFICES ASSUME authorizations'[k] # None, authorizations'[k].status = "RELEASED"
             PROVE  instruments'[k] = None \/ Final(k)'
  BY DEF ReleasedSound
<1>1. /\ authorizations[k] # None
      /\ authorizations[k].status \in {"AUTHORIZED", "FAILED_SAFE", "RELEASED"}
  BY StatusFrame DEF StatusGoesOn
<1>2. authorizations[k] \in AuthorizationRows /\ AttemptConsistent(authorizations[k])
  BY <1>1 DEF InvoiceInv, TypeOK, AttemptsConsistent
<1>3. ASSUME instruments[k] = None, instruments'[k] # None PROVE FALSE
  <2>1. /\ TransitionAccepted(authorizations[k], "EXECUTING")
        /\ authorizations' = [authorizations EXCEPT ![k] =
               transitionAuthorization(@, "EXECUTING")]
    BY <1>3, RowFrame DEF RowGoesOn
  <2>2. authorizations'[k] = transitionAuthorization(authorizations[k], "EXECUTING")
    BY <2>1 DEF InvoiceInv, TypeOK
  <2>3. authorizations'[k].status = "EXECUTING"
    BY <1>2, <2>1, <2>2, TransitionFacts DEF AuthorizationStatus
  <2> QED
    BY <2>3
<1>4. CASE authorizations[k].status = "AUTHORIZED"
  <2>1. instruments[k] = None
    BY <1>2, <1>4 DEF InvoiceInv, TypeOK, AttemptConsistent
  <2> QED
    BY <1>3, <2>1
<1>5. CASE authorizations[k].status = "FAILED_SAFE"
  BY <1>1, <1>5, FinalStays DEF WrittenOffInv, WrittenOff
<1>6. CASE authorizations[k].status = "RELEASED"
  BY <1>1, <1>3, <1>6, FinalStays DEF WrittenOffInv, ReleasedSound
<1> QED
  BY <1>1, <1>4, <1>5, <1>6

\* What is written off has not happened and will not: where the row says FAILED or
\* the Authorization FAILED_SAFE or RELEASED, the shop made no invoice and no call
\* will ask it for one (markFailedSafe after a refusal that was not ambiguous), if
\* the operator simulates no failure of his own.
THEOREM WrittenOffSound ==
    ASSUME "FAILED_SAFE" \notin OperatorCommands
    PROVE  Spec => []WrittenOffMeansNoInvoice
<1>1. Init => WrittenOffInv
  BY DEF Init, WrittenOffInv, WrittenOff, ReleasedSound, Idle
<1>2. InvoiceInv /\ WrittenOffInv /\ [Next]_vars => WrittenOffInv'
  <2> SUFFICES ASSUME InvoiceInv, WrittenOffInv, [Next]_vars PROVE WrittenOffInv'
    OBVIOUS
  <2>1. CASE UNCHANGED vars
    BY <2>1 DEF vars, world, store, outside, WrittenOffInv, WrittenOff, ReleasedSound, Final,
       Unmade, Posted
  <2>2. CASE Next
    BY <2>2, WrittenOffGoesOn, ReleasedGoesOn DEF WrittenOffInv
  <2> QED
    BY <2>1, <2>2
<1>3. InvoiceInv /\ WrittenOffInv => WrittenOffMeansNoInvoice
  <2> SUFFICES ASSUME InvoiceInv, WrittenOffInv, NEW k \in Keys,
                      \/ instruments[k] # None /\ instruments[k].state = "FAILED"
                      \/ /\ authorizations[k] # None
                         /\ authorizations[k].status \in {"FAILED_SAFE", "RELEASED"}
               PROVE  shop[k] \in {"none", "refused"}
    BY DEF WrittenOffMeansNoInvoice
  <2>1. Final(k) \/ instruments[k] = None
    BY DEF WrittenOffInv, WrittenOff, ReleasedSound
  <2> QED
    BY <2>1, SilentShop DEF Final, Unmade
<1> QED
  BY <1>1, <1>2, <1>3, InvoiceInvariant, PTL DEF Spec

=============================================================================
