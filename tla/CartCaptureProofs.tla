----------------------------- MODULE CartCaptureProofs -----------------------------
(***************************************************************************)
(* The cart of CartCapture for every number of processes and attempts, any *)
(* sites, pages and requests of the operator, and any crashes and changes  *)
(* of the cart by others.                                                  *)
(*                                                                         *)
(* A process works with a row it read long ago.  What makes the invariants *)
(* inductive is that, as long as no operator moves an attempt, its row     *)
(* only goes from AVAILABLE to CARTING, with the target, and from there to *)
(* CART_HELD: whatever a process has committed or read of it stays true.   *)
(*                                                                         *)
(* Then what the readings of the cart, the page and the calendar promise   *)
(* of any answer and any page, and with that of the questions of MCCart.   *)
(***************************************************************************)
EXTENDS MCCart, FiniteSetTheorems, TLAPS

CartStates == {"CARTING", "CART_HELD"}

Pcs == {"idle", "launching", "rereading", "holding", "completing", "moving"} \cup InSession

Calls ==
    [pc : Pcs, kind : {None, "capture", "reconcile", "look"} \cup WorkflowStates,
     attempt : Attempts \cup {None}, site : Sites \cup {None},
     seen : AttemptRows \cup {None}, saw : (SUBSET Sites) \cup {None}]

CartTypes ==
    /\ attempts \in [Attempts -> AttemptRows]
    /\ browser \in Processes \cup {None, Stale}
    /\ call \in [Processes -> Calls]
    /\ cart \subseteq Sites /\ pending \subseteq Sites
    /\ commits \in [Attempts -> Nat]
    /\ clicks \in [Attempts -> Seq(Sites)]
    /\ proofs \in [Attempts -> SUBSET SUBSET Sites]
    /\ moves \in [Attempts -> Seq(WorkflowStates)]
    /\ mishaps \in 0 .. MaxMishaps

\* No operator has moved the attempt.
Untouched(a) == moves[a] = <<>>

\* Until an operator moves it, the attempt is carting, or holds, this target.
Kept(a, target) == Untouched(a) => attempts[a].state \in CartStates /\ attempts[a].target = target

\* The stages of a capture, and those after its commit.
Capturing == {"preparing", "authorizing", "committing", "rechecking", "acting", "verifying"}
Committed == {"rechecking", "acting", "verifying"}

\* What a call knows of its attempt: what it is about, what it read, and what it
\* has committed or proved.
CallSound(c) ==
    LET a == c.attempt IN
    /\ c.pc \in Capturing => c.kind = "capture"
    /\ c.pc = "rereading" => c.kind = "reconcile"
    /\ c.pc \in {"launching", "looking"} => c.kind \in {"capture", "reconcile", "look"}
    /\ c.pc = "looking" => c.kind # "capture"
    /\ c.pc \in Capturing \cup {"launching"} /\ c.kind = "capture" =>
          a \in Attempts /\ c.site \in Sites
    /\ c.pc \in {"rereading", "launching", "looking"} /\ c.kind = "reconcile" =>
          a \in Attempts /\ c.seen \in AttemptRows /\ Kept(a, c.seen.target)
    /\ c.pc \in {"launching", "looking"} /\ c.kind = "reconcile" => c.site \in Sites
    /\ c.pc \notin {"closing", "holding", "completing"} => c.saw = None
    /\ c.pc \in {"holding", "completing"} => c.saw # None
    /\ c.saw # None =>
          a \in Attempts /\ c.site \in Sites /\ c.saw = {c.site} /\ Kept(a, TargetOf(c.site))
    /\ c.pc \in Committed => Kept(a, TargetOf(c.site))
    /\ c.pc = "committing" =>
          c.seen \in AttemptRows /\ transitionWorkflow(c.seen.state, "CARTING") = "transitioned"
    /\ c.pc = "completing" =>
          /\ c.seen \in AttemptRows /\ transitionWorkflow(c.seen.state, "CART_HELD") = "transitioned"
          /\ Kept(a, c.seen.target)
    /\ c.pc = "moving" =>
          /\ a \in Attempts /\ c.seen \in AttemptRows /\ c.kind \in WorkflowStates
          /\ transitionWorkflow(c.seen.state, c.kind) = "transitioned"

Locked(x) == browser = x <=> call[x].pc \in InSession

\* The history of an attempt that no operator has moved.
RowSound(a) ==
    Untouched(a) =>
        /\ attempts[a].state \in {"AVAILABLE"} \cup CartStates
        /\ attempts[a].state \in {"AVAILABLE", "CARTING"} => proofs[a] = {}
        /\ attempts[a].state = "CART_HELD" => proofs[a] = {{attempts[a].target.siteId}}
        /\ clicks[a] # <<>> =>
              attempts[a].state \in CartStates /\ attempts[a].target = TargetOf(clicks[a][1])

\* The captures that have committed and may still click.
Pledged(a) == {x \in Processes : call[x].pc \in {"rechecking", "acting"} /\ call[x].attempt = a}

\* Every click was committed, and every commit took an availability.
Counted(a) ==
    /\ Len(clicks[a]) + Cardinality(Pledged(a)) <= commits[a]
    /\ commits[a] + (IF attempts[a].state = "AVAILABLE" THEN 1 ELSE 0) <= 1 + Reopened(a)

\* The inductive invariant.
CartInv ==
    /\ CartTypes
    /\ \A x \in Processes : CallSound(call[x]) /\ Locked(x)
    /\ \A a \in Attempts : RowSound(a) /\ Counted(a)

-----------------------------------------------------------------------------
(* The workflow.                                                           *)

\* A transition leads to a state of the workflow, another one
\* (transitionWorkflow).
LEMMA TransitionTyped ==
    ASSUME NEW from \in WorkflowStates, NEW to, transitionWorkflow(from, to) = "transitioned"
    PROVE  to \in WorkflowStates /\ to # from
<1>1. to \in allowedTransitions(from) /\ to # from
  BY DEF transitionWorkflow
<1>2. WorkflowStates = {"WAITING", "AVAILABLE", "CARTING", "CART_HELD", "PAYMENT_REQUESTED",
                        "PAYMENT_AUTHORIZED", "CARD_ACQUIRED", "CHECKOUT", "PAUSED",
                        "CONFIRMED", "FAILED", "EXPIRED", "ABORTED"}
  BY DEF WorkflowStates, Onward, terminalStates
<1> QED
  BY <1>1, <1>2 DEF allowedTransitions, Onward, terminalStates

\* CARTING is entered from AVAILABLE only, and CART_HELD from CARTING only.
LEMMA CartTransitions ==
    ASSUME NEW from \in WorkflowStates
    PROVE  /\ transitionWorkflow(from, "CARTING") = "transitioned" => from = "AVAILABLE"
           /\ transitionWorkflow(from, "CART_HELD") = "transitioned" => from = "CARTING"
<1>1. WorkflowStates = {"WAITING", "AVAILABLE", "CARTING", "CART_HELD", "PAYMENT_REQUESTED",
                        "PAYMENT_AUTHORIZED", "CARD_ACQUIRED", "CHECKOUT", "PAUSED",
                        "CONFIRMED", "FAILED", "EXPIRED", "ABORTED"}
  BY DEF WorkflowStates, Onward, terminalStates
<1> QED
  BY <1>1 DEF transitionWorkflow, allowedTransitions, Onward, terminalStates

-----------------------------------------------------------------------------
(* The cart.                                                               *)

LEMMA EmptyTails ==
    ASSUME NEW S, NEW s \in Seq(S)
    PROVE  s \o <<>> \o <<>> = s
  OBVIOUS

\* A reading that matches a target exactly was asked for that target, of a cart
\* that holds its site and nothing else (inspectRecreationCartInSession and
\* cartInspectionExactlyMatches).
LEMMA MatchMeansHeld ==
    ASSUME cart \subseteq Sites, NEW target, NEW asked, NEW inspection \in Inspections(asked),
           cartInspectionExactlyMatches(inspection, target)
    PROVE  target = asked /\ cart = {target.siteId}
<1>1. PICK response \in Responses, ui \in Screens :
          inspection = inspectRecreationCartInSession(response, ui, asked)
  BY DEF Inspections
<1>2. /\ inspection.status = "EXACT_MATCH" /\ inspection.requested = target
      /\ Len(inspection.items) = 1 /\ inspection.items[1].siteId = target.siteId
  BY DEF cartInspectionExactlyMatches, TargetFields, IdentityFields
<1>3. IsFiniteSet(cart) /\ Cardinality(cart) \in Nat
  BY CartAssumption, FS_Subset, FS_CardinalityType
<1> DEFINE n == Cardinality(cart)
           Order(s) == s \in [1 .. n -> cart] /\ \A i, j \in DOMAIN s : s[i] = s[j] => i = j
           order == CHOOSE s \in [1 .. n -> cart] : \A i, j \in DOMAIN s : s[i] = s[j] => i = j
           reservations == [i \in DOMAIN order |-> ItemOf(order[i])]
<1>4. order \in [1 .. n -> cart]
  <2>1. PICK s \in Bijection(1 .. n, cart) : TRUE
    BY <1>3, FS_CardinalityType DEF ExistsBijection
  <2>2. s \in [1 .. n -> cart] /\ \A i, j \in DOMAIN s : s[i] = s[j] => i = j
    BY <2>1 DEF Bijection, Injection, IsInjective
  <2> QED
    BY <2>2
<1>5. n \in Nat
  BY <1>3
<1> HIDE DEF n, order
<1> DEFINE items == {ItemOf(site) : site \in cart}
<1>6. reservations \in Seq(items) /\ Len(reservations) = n
  BY <1>4, <1>5
<1>7. \A i \in 1 .. n : reservations[i].siteId = order[i] /\ order[i] \in cart
  BY <1>4, <1>5 DEF ItemOf
<1> DEFINE payload(account) ==
               [account |-> account, expiresIn |-> 0, untimed |-> <<>>, modification |-> <<>>,
                reservations |-> reservations]
<1>8. response \in {[kind |-> "payload", payload |-> payload(TRUE)],
                    [kind |-> "payload", payload |-> payload(FALSE)],
                    [kind |-> "none"], [kind |-> "failed"]}
  BY DEF Responses, order, n
<1> HIDE DEF reservations
<1>9. response.kind # "none"
  <2> SUFFICES ASSUME response.kind = "none" PROVE FALSE
    OBVIOUS
  <2>1. inspection.status \in {"LOADING", "UNKNOWN"}
    BY <1>1 DEF inspectRecreationCartInSession, Inspection
  <2> QED
    BY <1>2, <2>1
<1>10. response.kind # "failed"
  <2> SUFFICES ASSUME response.kind = "failed" PROVE FALSE
    OBVIOUS
  <2>1. inspection.status = "failed"
    BY <1>1 DEF inspectRecreationCartInSession
  <2> QED
    BY <1>2, <2>1
<1>11. PICK account \in BOOLEAN : response = [kind |-> "payload", payload |-> payload(account)]
  <2>1. response # [kind |-> "none"] /\ response # [kind |-> "failed"]
    BY <1>9, <1>10
  <2> QED
    BY <1>8, <2>1
<1> DEFINE given == payload(account)
           raw == apiCartItems(given)
           read == inspectRecreationCartApiPayload(given, asked)
<1>12. raw = Absent \/ raw = reservations
  <2>1. given.reservations \o given.untimed \o given.modification = reservations
    BY <1>6, EmptyTails
  <2> QED
    BY <2>1 DEF apiCartItems
<1>13. PICK st, au, its :
          /\ read = Inspection(asked, st, au, "NONE", its)
          /\ its = <<>> \/ \E hold : its = [i \in DOMAIN reservations |->
                                               cartItemFromApi(reservations[i], hold)]
  <2> HIDE DEF given, raw
  <2>1. CASE given = Absent
    BY <2>1 DEF inspectRecreationCartApiPayload
  <2>2. CASE given # Absent /\ raw = Absent
    BY <2>2 DEF inspectRecreationCartApiPayload, raw
  <2>3. CASE given # Absent /\ raw # Absent
    BY <1>12, <2>3 DEF inspectRecreationCartApiPayload, raw
  <2> QED
    BY <2>1, <2>2, <2>3
<1> HIDE DEF given, raw
<1>14. inspection.requested = asked /\ inspection.items = its
  <2>1. inspection.requested = read.requested /\ inspection.items = read.items
    <3>1. response.kind = "payload" /\ response.payload = given
      BY <1>11 DEF given
    <3>2. PICK st2, au2 : inspection = [read EXCEPT !.status = st2, !.authentication = au2]
      BY <1>1, <3>1 DEF inspectRecreationCartInSession
    <3> QED
      BY <1>13, <3>2 DEF Inspection
  <2> QED
    BY <1>13, <2>1 DEF Inspection
<1>15. PICK hold : its = [i \in DOMAIN reservations |-> cartItemFromApi(reservations[i], hold)]
  BY <1>2, <1>13, <1>14
<1>16. DOMAIN reservations = 1 .. n
  BY <1>5, <1>6
<1>17. n = 1
  BY <1>2, <1>5, <1>14, <1>15, <1>16
<1>18. its[1].siteId = order[1] /\ order[1] \in cart
  BY <1>7, <1>15, <1>16, <1>17 DEF cartItemFromApi
<1>19. cart = {order[1]}
  <2>1. PICK site : cart = {site}
    BY <1>3, <1>17, FS_Singleton DEF n
  <2> QED
    BY <1>18, <2>1
<1> QED
  BY <1>2, <1>14, <1>18, <1>19

-----------------------------------------------------------------------------
(* Frames.                                                                 *)

\* No step of anyone takes from an attempt that no operator moves what it has.
Steady ==
    \A a \in Attempts : Untouched(a)' =>
        /\ Untouched(a)
        /\ attempts[a].state \in CartStates =>
              attempts'[a].state \in CartStates /\ attempts'[a].target = attempts[a].target

LEMMA KeptStays ==
    ASSUME Steady, NEW a \in Attempts, NEW target, Kept(a, target)
    PROVE  Kept(a, target)'
  BY DEF Steady, Kept

\* What a process knows stays true while others move.
LEMMA CallStays ==
    ASSUME NEW y \in Processes, CallSound(call[y]), call'[y] = call[y], Steady
    PROVE  CallSound(call[y])'
<1> DEFINE c == call[y]
           a == c.attempt
<1>1. c.pc \in Committed => Kept(a, TargetOf(c.site)) /\ a \in Attempts
  BY DEF CallSound, Committed, Capturing
<1>2. c.pc \in {"rereading", "launching", "looking"} /\ c.kind = "reconcile" =>
          Kept(a, c.seen.target) /\ a \in Attempts
  BY DEF CallSound
<1>3. c.saw # None => Kept(a, TargetOf(c.site)) /\ a \in Attempts
  BY DEF CallSound
<1>4. c.pc = "completing" => Kept(a, c.seen.target) /\ a \in Attempts
  BY DEF CallSound
<1>5. PICK d, b : d = c /\ b = d.attempt
  OBVIOUS
<1>6. d.pc \in Committed => Kept(b, TargetOf(d.site))'
  BY <1>1, <1>5, KeptStays
<1>7. d.pc \in {"rereading", "launching", "looking"} /\ d.kind = "reconcile" => Kept(b, d.seen.target)'
  BY <1>2, <1>5, KeptStays
<1>8. d.saw # None => Kept(b, TargetOf(d.site))'
  BY <1>3, <1>5, KeptStays
<1>9. d.pc = "completing" => Kept(b, d.seen.target)'
  BY <1>4, <1>5, KeptStays
<1>10. CallSound(d)
  BY <1>5
<1>11. CallSound(d)'
  BY <1>5, <1>6, <1>7, <1>8, <1>9, <1>10 DEF CallSound
<1> QED
  BY <1>5, <1>11

\* A step of one process that changes rows, or the outside, at one attempt only.
LEMMA RowStep ==
    ASSUME CartInv, NEW x \in Processes, NEW a \in Attempts, CartTypes',
           \A y \in Processes \ {x} : call'[y] = call[y],
           UNCHANGED browser, Steady,
           CallSound(call[x])', Locked(x)',
           \A b \in Attempts \ {a} :
               /\ attempts'[b] = attempts[b] /\ commits'[b] = commits[b] /\ clicks'[b] = clicks[b]
               /\ proofs'[b] = proofs[b] /\ moves'[b] = moves[b] /\ Pledged(b)' \subseteq Pledged(b),
           RowSound(a)', Counted(a)'
    PROVE  CartInv'
<1>1. ASSUME NEW y \in Processes PROVE CallSound(call[y])' /\ Locked(y)'
  <2>1. CASE y = x
    BY <2>1
  <2>2. CASE y # x
    <3>1. call'[y] = call[y] /\ CallSound(call[y]) /\ Locked(y)
      BY <2>2 DEF CartInv
    <3> QED
      BY <3>1, CallStays DEF Locked
  <2> QED
    BY <2>1, <2>2
<1>2. ASSUME NEW b \in Attempts PROVE RowSound(b)' /\ Counted(b)'
  <2>1. CASE b = a
    BY <2>1
  <2>2. CASE b # a
    <3>1. /\ attempts'[b] = attempts[b] /\ commits'[b] = commits[b] /\ clicks'[b] = clicks[b]
          /\ proofs'[b] = proofs[b] /\ moves'[b] = moves[b] /\ Pledged(b)' \subseteq Pledged(b)
      BY <2>2
    <3>2. RowSound(b) /\ Counted(b)
      BY DEF CartInv
    <3>3. RowSound(b)'
      BY <3>1, <3>2 DEF RowSound, Untouched
    <3>4. /\ Cardinality(Pledged(b)) \in Nat /\ Cardinality(Pledged(b)') \in Nat
          /\ Cardinality(Pledged(b)') <= Cardinality(Pledged(b))
      <4>1. IsFiniteSet(Pledged(b))
        BY CartAssumption, FS_Subset DEF Pledged
      <4> QED
        BY <3>1, <4>1, FS_Subset, FS_CardinalityType
    <3>5. Len(clicks[b]) \in Nat /\ commits[b] \in Nat
      BY DEF CartInv, CartTypes
    <3>6. Reopened(b)' = Reopened(b)
      BY <3>1 DEF Reopened
    <3>7. Counted(b)'
      BY <3>1, <3>2, <3>4, <3>5, <3>6 DEF Counted
    <3> QED
      BY <3>3, <3>7
  <2> QED
    BY <2>1, <2>2
<1> QED
  BY <1>1, <1>2 DEF CartInv

\* A step of one process that changes its call, and perhaps the lock it holds or
\* takes, and pledges no new click.
LEMMA CallStep ==
    ASSUME CartInv, NEW x \in Processes,
           call' \in [Processes -> Calls], \A y \in Processes \ {x} : call'[y] = call[y],
           UNCHANGED <<rows, outside, ghosts>>, mishaps' \in 0 .. MaxMishaps,
           browser' = browser \/ {browser, browser'} \subseteq {x, None, Stale},
           CallSound(call[x])', Locked(x)',
           call'[x].pc \in {"rechecking", "acting"} =>
               call[x].pc \in {"rechecking", "acting"} /\ call'[x].attempt = call[x].attempt
    PROVE  CartInv'
<1>1. /\ attempts' = attempts /\ cart' = cart /\ pending' = pending
      /\ commits' = commits /\ clicks' = clicks /\ proofs' = proofs /\ moves' = moves
  BY DEF rows, outside, ghosts
<1>2. browser' \in Processes \cup {None, Stale}
  BY DEF CartInv, CartTypes
<1>3. CartTypes'
  BY <1>1, <1>2 DEF CartInv, CartTypes
<1>4. Steady
  BY <1>1 DEF Steady, Untouched
<1>5. ASSUME NEW y \in Processes PROVE CallSound(call[y])' /\ Locked(y)'
  <2>1. CASE y = x
    BY <2>1
  <2>2. CASE y # x
    <3>1. call'[y] = call[y] /\ CallSound(call[y]) /\ Locked(y)
      BY <2>2 DEF CartInv
    <3>2. y # None /\ y # Stale
      BY CartAssumption
    <3>3. browser' = y <=> browser = y
      BY <2>2, <3>2
    <3> QED
      BY <1>4, <3>1, <3>3, CallStays DEF Locked
  <2> QED
    BY <2>1, <2>2
<1>6. ASSUME NEW b \in Attempts PROVE RowSound(b)' /\ Counted(b)'
  <2>1. RowSound(b) /\ Counted(b)
    BY DEF CartInv
  <2>2. RowSound(b)'
    BY <1>1, <2>1 DEF RowSound, Untouched
  <2>3. Pledged(b)' \subseteq Pledged(b)
    BY DEF Pledged
  <2>4. /\ Cardinality(Pledged(b)) \in Nat /\ Cardinality(Pledged(b)') \in Nat
        /\ Cardinality(Pledged(b)') <= Cardinality(Pledged(b))
    <3>1. IsFiniteSet(Pledged(b))
      BY CartAssumption, FS_Subset DEF Pledged
    <3> QED
      BY <2>3, <3>1, FS_Subset, FS_CardinalityType
  <2>5. Len(clicks[b]) \in Nat /\ commits[b] \in Nat
    BY DEF CartInv, CartTypes
  <2>6. Counted(b)'
    BY <1>1, <2>1, <2>4, <2>5 DEF Counted, Reopened
  <2> QED
    BY <2>2, <2>6
<1> QED
  BY <1>3, <1>5, <1>6 DEF CartInv

\* What a step starts from.
LEMMA CallFacts ==
    ASSUME CartInv, NEW x \in Processes
    PROVE  /\ call \in [Processes -> Calls] /\ call[x] \in Calls
           /\ CallSound(call[x]) /\ Locked(x) /\ mishaps \in 0 .. MaxMishaps
           /\ cart \subseteq Sites /\ cart # None
<1>1. cart \subseteq Sites
  BY DEF CartInv, CartTypes
<1> QED
  BY <1>1, CartAssumption DEF CartInv, CartTypes

\* The ways in which a step changes its call.
LEMMA GoesFacts ==
    ASSUME call \in [Processes -> Calls], NEW x \in Processes, NEW pc \in Pcs, Goes(x, pc)
    PROVE  /\ call' \in [Processes -> Calls] /\ \A y \in Processes \ {x} : call'[y] = call[y]
           /\ call'[x].pc = pc /\ call'[x].kind = call[x].kind
           /\ call'[x].attempt = call[x].attempt /\ call'[x].site = call[x].site
           /\ call'[x].seen = call[x].seen /\ call'[x].saw = call[x].saw
<1> DEFINE c == [call[x] EXCEPT !.pc = pc]
<1>1. call' = [call EXCEPT ![x] = c]
  BY DEF Goes
<1>2. call[x] \in Calls
  OBVIOUS
<1>3. /\ c \in Calls /\ c.pc = pc /\ c.kind = call[x].kind
      /\ c.attempt = call[x].attempt /\ c.site = call[x].site
      /\ c.seen = call[x].seen /\ c.saw = call[x].saw
  BY <1>2 DEF Calls
<1> HIDE DEF c
<1>4. call' \in [Processes -> Calls] /\ \A y \in Processes \ {x} : call'[y] = call[y]
  BY <1>1, <1>3
<1>5. call'[x] = c
  BY <1>1
<1> QED
  BY <1>3, <1>4, <1>5

LEMMA IdleIsCall ==
    Idle \in Calls /\ Idle.pc = "idle" /\ Idle.saw = None
  BY DEF Idle, Calls, Pcs

LEMMA IdleIsSound ==
    ASSUME NEW x \in Processes, call'[x] = Idle
    PROVE  CallSound(call[x])'
  BY IdleIsCall DEF CallSound, Capturing, Committed

LEMMA EndsFacts ==
    ASSUME call \in [Processes -> Calls], NEW x \in Processes, Ends(x)
    PROVE  /\ call' \in [Processes -> Calls] /\ \A y \in Processes \ {x} : call'[y] = call[y]
           /\ call'[x] = Idle /\ call'[x].pc = "idle" /\ call'[x].pc \notin InSession
           /\ CallSound(call[x])'
<1>1. call' = [call EXCEPT ![x] = Idle]
  BY DEF Ends
<1>2. call' \in [Processes -> Calls] /\ \A y \in Processes \ {x} : call'[y] = call[y]
  BY <1>1, IdleIsCall
<1>3. call'[x] = Idle
  BY <1>1
<1> QED
  BY <1>2, <1>3, IdleIsCall, IdleIsSound DEF InSession

\* A session that gives up leaves nothing but itself to be closed.
LEMMA ClosingStep ==
    ASSUME CartInv, NEW x \in Processes, call[x].pc \in InSession, call[x].pc # "closing",
           Goes(x, "closing"), UNCHANGED <<rows, browser, outside, ghosts>>,
           mishaps' \in 0 .. MaxMishaps
    PROVE  CartInv'
<1>1. call \in [Processes -> Calls] /\ CallSound(call[x]) /\ Locked(x)
  BY CallFacts
<1>2. "closing" \in Pcs /\ "closing" \in InSession
  BY DEF Pcs, InSession
<1>3. /\ call' \in [Processes -> Calls] /\ \A y \in Processes \ {x} : call'[y] = call[y]
      /\ call'[x].pc = "closing" /\ call'[x].saw = call[x].saw
  BY <1>1, <1>2, GoesFacts
<1>4. call[x].saw = None
  BY <1>1 DEF CallSound, InSession
<1>5. CallSound(call[x])'
  BY <1>3, <1>4 DEF CallSound, Capturing, Committed
<1>6. Locked(x)'
  BY <1>1, <1>2, <1>3 DEF Locked
<1>7. call'[x].pc \notin {"rechecking", "acting"} /\ browser' = browser
  BY <1>3
<1> QED
  BY <1>3, <1>5, <1>6, <1>7, CallStep

\* A call that ends without a session leaves nothing behind.
LEMMA EndStep ==
    ASSUME CartInv, NEW x \in Processes, call[x].pc \notin InSession,
           Ends(x), UNCHANGED <<rows, browser, outside, ghosts>>,
           mishaps' \in 0 .. MaxMishaps
    PROVE  CartInv'
<1>1. call \in [Processes -> Calls] /\ Locked(x)
  BY CallFacts
<1>2. /\ call' \in [Processes -> Calls] /\ \A y \in Processes \ {x} : call'[y] = call[y]
      /\ call'[x].pc = "idle" /\ call'[x].pc \notin InSession /\ CallSound(call[x])'
  BY <1>1, EndsFacts
<1>3. Locked(x)' /\ browser' = browser
  BY <1>1, <1>2 DEF Locked
<1> QED
  BY <1>2, <1>3, CallStep

\* A session that has read its target in the cart, and nothing else, takes the
\* cart with it as its proof.
LEMMA ProvedStep ==
    ASSUME CartInv, NEW x \in Processes, call[x].pc \in InSession,
           call[x].attempt \in Attempts, call[x].site \in Sites,
           Kept(call[x].attempt, TargetOf(call[x].site)),
           NEW inspection \in Inspections(TargetOf(call[x].site)),
           cartInspectionExactlyMatches(inspection, TargetOf(call[x].site)),
           call' = [call EXCEPT ![x].pc = "closing", ![x].saw = cart],
           UNCHANGED <<rows, browser, outside, ghosts, mishaps>>
    PROVE  CartInv'
<1>1. /\ call \in [Processes -> Calls] /\ call[x] \in Calls /\ Locked(x)
      /\ mishaps \in 0 .. MaxMishaps /\ cart \subseteq Sites /\ cart # None
  BY CallFacts
<1> DEFINE c == [call[x] EXCEPT !.pc = "closing", !.saw = cart]
<1>2. call' = [call EXCEPT ![x] = c]
  OBVIOUS
<1>3. /\ c \in Calls /\ c.pc = "closing" /\ c.saw = cart
      /\ c.attempt = call[x].attempt /\ c.site = call[x].site
  BY <1>1 DEF Calls, Pcs, InSession
<1> HIDE DEF c
<1>4. call' \in [Processes -> Calls] /\ \A y \in Processes \ {x} : call'[y] = call[y]
  BY <1>1, <1>2, <1>3
<1>5. call'[x] = c
  BY <1>1, <1>2
<1>6. cart = {call[x].site}
  BY <1>1, MatchMeansHeld DEF TargetOf
<1>7. CallSound(call[x])'
  <2>1. PICK a \in Attempts, site \in Sites : a = call[x].attempt /\ site = call[x].site
    OBVIOUS
  <2>2. Kept(a, TargetOf(site))'
    BY <2>1 DEF Kept, Untouched, rows, ghosts
  <2> QED
    BY <1>1, <1>3, <1>5, <1>6, <2>1, <2>2 DEF CallSound, Capturing, Committed
<1>8. Locked(x)'
  BY <1>1, <1>3, <1>5 DEF Locked, InSession
<1>9. call'[x].pc \notin {"rechecking", "acting"} /\ browser' = browser /\ mishaps' \in 0 .. MaxMishaps
  BY <1>1, <1>3, <1>5
<1> QED
  BY <1>4, <1>7, <1>8, <1>9, CallStep DEF rows, outside, ghosts

-----------------------------------------------------------------------------
(* One lemma per action.                                                   *)

LEMMA LaunchStep ==
    ASSUME CartInv, NEW x \in Processes, Launch(x)
    PROVE  CartInv'
<1>1. /\ call \in [Processes -> Calls] /\ call[x] \in Calls /\ CallSound(call[x])
      /\ Locked(x) /\ mishaps' \in 0 .. MaxMishaps
  BY CallFacts DEF Launch
<1>2. call[x].pc = "launching" /\ call[x].pc \notin InSession
      /\ UNCHANGED <<rows, outside, ghosts, mishaps>>
  BY DEF Launch, InSession
<1>3. CASE Ends(x) /\ UNCHANGED browser
  BY <1>1, <1>2, <1>3, EndStep
<1>4. CASE /\ browser = None /\ browser' = x
           /\ Goes(x, IF call[x].kind = "capture" THEN "preparing" ELSE "looking")
  <2>1. PICK pc \in {"preparing", "looking"} :
            pc = IF call[x].kind = "capture" THEN "preparing" ELSE "looking"
    OBVIOUS
  <2>2. pc \in Pcs /\ pc \in InSession
    BY DEF Pcs, InSession
  <2>3. Goes(x, pc)
    BY <1>4, <2>1
  <2>4. /\ call' \in [Processes -> Calls] /\ \A y \in Processes \ {x} : call'[y] = call[y]
        /\ call'[x].pc = pc /\ call'[x].kind = call[x].kind
        /\ call'[x].attempt = call[x].attempt /\ call'[x].site = call[x].site
        /\ call'[x].seen = call[x].seen /\ call'[x].saw = call[x].saw
    BY <1>1, <2>2, <2>3, GoesFacts
  <2>5. CallSound(call[x])'
    <3>1. PICK c : c = call'[x]
      OBVIOUS
    <3>2. PICK d : d = call[x]
      OBVIOUS
    <3>3. CallSound(d) /\ d.pc = "launching" /\ d.saw = None
      BY <1>1, <1>2, <3>2 DEF CallSound
    <3>4. CASE pc = "preparing"
      <4>1. c.pc = "preparing" /\ c.kind = "capture" /\ c.attempt \in Attempts /\ c.site \in Sites
            /\ c.saw = None
        BY <2>1, <2>4, <3>1, <3>2, <3>3, <3>4 DEF CallSound
      <4> QED
        BY <3>1, <4>1 DEF CallSound, Capturing, Committed
    <3>5. CASE pc = "looking"
      <4>1. /\ c.pc = "looking" /\ c.kind \in {"reconcile", "look"} /\ c.saw = None
            /\ c.kind = "reconcile" =>
                  /\ c.attempt \in Attempts /\ c.seen \in AttemptRows /\ c.site \in Sites
                  /\ Kept(c.attempt, c.seen.target)
        BY <2>1, <2>4, <3>1, <3>2, <3>3, <3>5 DEF CallSound
      <4>2. c.kind = "reconcile" => Kept(c.attempt, c.seen.target)'
        BY <1>2, <4>1 DEF Kept, Untouched, rows, ghosts
      <4> QED
        BY <3>1, <4>1, <4>2 DEF CallSound, Capturing, Committed
    <3> QED
      BY <3>4, <3>5
  <2>6. Locked(x)'
    BY <1>4, <2>2, <2>4 DEF Locked
  <2>7. call'[x].pc \notin {"rechecking", "acting"} /\ {browser, browser'} \subseteq {x, None, Stale}
    BY <1>4, <2>4
  <2> QED
    BY <1>1, <1>2, <2>4, <2>5, <2>6, <2>7, CallStep
<1> QED
  BY <1>3, <1>4 DEF Launch

LEMMA CloseStep ==
    ASSUME CartInv, NEW x \in Processes, Close(x)
    PROVE  CartInv'
<1>1. /\ call \in [Processes -> Calls] /\ call[x] \in Calls /\ CallSound(call[x])
      /\ Locked(x) /\ mishaps' \in 0 .. MaxMishaps
  BY CallFacts DEF Close
<1>2. /\ call[x].pc = "closing" /\ browser' = None
      /\ UNCHANGED <<rows, outside, ghosts, mishaps>>
  BY DEF Close
<1>3. browser = x /\ {browser, browser'} \subseteq {x, None, Stale}
  BY <1>1, <1>2 DEF Locked, InSession
<1>4. x # None
  BY CartAssumption
<1>5. CASE Ends(x)
  <2>1. /\ call' \in [Processes -> Calls] /\ \A y \in Processes \ {x} : call'[y] = call[y]
        /\ call'[x].pc = "idle" /\ call'[x].pc \notin InSession /\ CallSound(call[x])'
    BY <1>1, <1>5, EndsFacts
  <2>2. Locked(x)'
    BY <1>2, <1>4, <2>1 DEF Locked
  <2> QED
    BY <1>1, <1>2, <1>3, <2>1, <2>2, CallStep
<1>6. CASE call[x].saw # None /\ Goes(x, "holding")
  <2>1. "holding" \in Pcs /\ "holding" \notin InSession
    BY DEF Pcs, InSession
  <2>2. /\ call' \in [Processes -> Calls] /\ \A y \in Processes \ {x} : call'[y] = call[y]
        /\ call'[x].pc = "holding" /\ call'[x].attempt = call[x].attempt
        /\ call'[x].site = call[x].site /\ call'[x].saw = call[x].saw
    BY <1>1, <1>6, <2>1, GoesFacts
  <2>3. PICK c : c = call'[x]
    OBVIOUS
  <2>4. /\ c.pc = "holding" /\ c.saw # None
        /\ c.attempt \in Attempts /\ c.site \in Sites /\ c.saw = {c.site}
        /\ Kept(c.attempt, TargetOf(c.site))
    BY <1>1, <1>6, <2>2, <2>3 DEF CallSound
  <2>5. Kept(c.attempt, TargetOf(c.site))'
    BY <1>2, <2>4 DEF Kept, Untouched, rows, ghosts
  <2>6. CallSound(call[x])'
    BY <2>3, <2>4, <2>5 DEF CallSound, Capturing, Committed
  <2>7. Locked(x)'
    BY <1>2, <1>4, <2>1, <2>2 DEF Locked
  <2>8. call'[x].pc \notin {"rechecking", "acting"}
    BY <2>2
  <2> QED
    BY <1>1, <1>2, <1>3, <2>2, <2>6, <2>7, <2>8, CallStep
<1> QED
  BY <1>5, <1>6 DEF Close

\* A call that starts, or goes on with something that it read.
LEMMA OtherCallStep ==
    ASSUME CartInv, NEW x \in Processes, NEW c \in Calls,
           call' = [call EXCEPT ![x] = c], CallSound(c),
           c.pc \in InSession <=> call[x].pc \in InSession,
           c.pc \in {"rechecking", "acting"} =>
               call[x].pc \in {"rechecking", "acting"} /\ c.attempt = call[x].attempt,
           UNCHANGED <<rows, browser, outside, ghosts, mishaps>>
    PROVE  CartInv'
<1>1. call \in [Processes -> Calls] /\ Locked(x) /\ mishaps' \in 0 .. MaxMishaps
  BY CallFacts
<1>2. call' \in [Processes -> Calls] /\ \A y \in Processes \ {x} : call'[y] = call[y]
  BY <1>1
<1>3. call'[x] = c
  BY <1>1
<1>4. CallSound(c)'
  <2>1. attempts' = attempts /\ moves' = moves
    BY DEF rows, ghosts
  <2> QED
    BY <2>1 DEF CallSound, Kept, Untouched
<1>5. CallSound(call[x])'
  BY <1>3, <1>4
<1>6. Locked(x)'
  BY <1>1, <1>3 DEF Locked
<1>7. browser' = browser
  OBVIOUS
<1> QED
  BY <1>1, <1>2, <1>3, <1>5, <1>6, <1>7, CallStep

LEMMA StartCaptureStep ==
    ASSUME CartInv, NEW x \in Processes, StartCapture(x)
    PROVE  CartInv'
<1>1. PICK a \in Attempts, site \in Sites :
          call' = [call EXCEPT ![x] = [Idle EXCEPT
              !.pc = "launching", !.kind = "capture", !.attempt = a, !.site = site]]
  BY DEF StartCapture
<1> DEFINE c == [Idle EXCEPT !.pc = "launching", !.kind = "capture", !.attempt = a, !.site = site]
<1>2. /\ c \in Calls /\ c.pc = "launching" /\ c.kind = "capture" /\ c.attempt = a
      /\ c.site = site /\ c.saw = None
  BY IdleIsCall DEF Calls, Pcs
<1>3. call' = [call EXCEPT ![x] = c]
  BY <1>1
<1> HIDE DEF c
<1>4. CallSound(c)
  BY <1>2 DEF CallSound, Capturing, Committed
<1>5. c.pc \notin InSession /\ call[x].pc \notin InSession
      /\ UNCHANGED <<rows, browser, outside, ghosts, mishaps>>
  BY <1>2 DEF StartCapture, InSession
<1> QED
  BY <1>2, <1>3, <1>4, <1>5, OtherCallStep

LEMMA StartReconcileStep ==
    ASSUME CartInv, NEW x \in Processes, StartReconcile(x)
    PROVE  CartInv'
<1>1. PICK a \in Attempts, row \in AttemptRows :
          /\ row = attempts[a] /\ row.state = "CARTING"
          /\ call' = [call EXCEPT ![x] = [Idle EXCEPT
                 !.pc = "rereading", !.kind = "reconcile", !.attempt = a, !.seen = row]]
  BY DEF StartReconcile, CartInv, CartTypes
<1> DEFINE c == [Idle EXCEPT !.pc = "rereading", !.kind = "reconcile", !.attempt = a, !.seen = row]
<1>2. /\ c \in Calls /\ c.pc = "rereading" /\ c.kind = "reconcile" /\ c.attempt = a
      /\ c.seen = row /\ c.saw = None
  BY IdleIsCall DEF Calls, Pcs
<1>3. call' = [call EXCEPT ![x] = c]
  BY <1>1
<1> HIDE DEF c
<1>4. Kept(a, row.target)
  BY <1>1 DEF Kept, CartStates
<1>5. CallSound(c)
  BY <1>2, <1>4 DEF CallSound, Capturing, Committed
<1>6. c.pc \notin InSession /\ call[x].pc \notin InSession
      /\ UNCHANGED <<rows, browser, outside, ghosts, mishaps>>
  BY <1>2 DEF StartReconcile, InSession
<1> QED
  BY <1>2, <1>3, <1>5, <1>6, OtherCallStep

LEMMA RereadTargetStep ==
    ASSUME CartInv, NEW x \in Processes, RereadTarget(x)
    PROVE  CartInv'
<1>1. /\ call \in [Processes -> Calls] /\ call[x] \in Calls /\ CallSound(call[x])
      /\ mishaps' \in 0 .. MaxMishaps
  BY CallFacts DEF RereadTarget
<1>2. call[x].pc = "rereading" /\ call[x].pc \notin InSession
      /\ UNCHANGED <<rows, browser, outside, ghosts, mishaps>>
  BY DEF RereadTarget, InSession
<1>3. CASE Ends(x)
  BY <1>1, <1>2, <1>3, EndStep
<1>4. CASE attempts[call[x].attempt].target # None /\ ~ Ends(x)
  <2>1. PICK d \in Calls : d = call[x]
    BY <1>1
  <2>2. /\ CallSound(d) /\ d.pc = "rereading" /\ d.kind = "reconcile" /\ d.attempt \in Attempts
        /\ d.seen \in AttemptRows /\ Kept(d.attempt, d.seen.target) /\ d.saw = None
    BY <1>1, <1>2, <2>1 DEF CallSound
  <2>3. PICK site \in Sites : attempts[d.attempt].target = TargetOf(site)
    BY <1>4, <2>1, <2>2 DEF CartInv, CartTypes, AttemptRows
  <2> DEFINE c == [d EXCEPT !.pc = "launching", !.site = site]
  <2>4. call' = [call EXCEPT ![x] = c]
    <3>1. attempts[call[x].attempt].target.siteId = site
      BY <2>1, <2>3 DEF TargetOf
    <3>2. call' = [call EXCEPT ![x].pc = "launching", ![x].site = site]
      BY <1>4, <3>1 DEF RereadTarget
    <3> QED
      BY <2>1, <3>2
  <2>5. /\ c \in Calls /\ c.pc = "launching" /\ c.kind = "reconcile" /\ c.attempt = d.attempt
        /\ c.site = site /\ c.seen = d.seen /\ c.saw = None
    BY <2>2 DEF Calls, Pcs
  <2> HIDE DEF c
  <2>6. CallSound(c)
    BY <2>2, <2>5 DEF CallSound, Capturing, Committed
  <2>7. c.pc \notin InSession
    BY <2>5 DEF InSession
  <2> QED
    BY <1>2, <2>4, <2>5, <2>6, <2>7, OtherCallStep
<1> QED
  BY <1>3, <1>4 DEF RereadTarget

LEMMA StartLookStep ==
    ASSUME CartInv, NEW x \in Processes, StartLook(x)
    PROVE  CartInv'
<1> DEFINE c == [Idle EXCEPT !.pc = "launching", !.kind = "look"]
<1>1. c \in Calls /\ c.pc = "launching" /\ c.kind = "look" /\ c.saw = None
  BY IdleIsCall DEF Calls, Pcs
<1>2. call' = [call EXCEPT ![x] = c]
  BY DEF StartLook
<1> HIDE DEF c
<1>3. CallSound(c)
  BY <1>1 DEF CallSound, Capturing, Committed
<1>4. c.pc \notin InSession /\ call[x].pc \notin InSession
      /\ UNCHANGED <<rows, browser, outside, ghosts, mishaps>>
  BY <1>1 DEF StartLook, InSession
<1> QED
  BY <1>1, <1>2, <1>3, <1>4, OtherCallStep

LEMMA StartTransitionStep ==
    ASSUME CartInv, NEW x \in Processes, StartTransition(x)
    PROVE  CartInv'
<1>1. PICK a \in Attempts, to \in Requests, row \in AttemptRows :
          /\ row = attempts[a] /\ transitionWorkflow(row.state, to) = "transitioned"
          /\ call' = [call EXCEPT ![x] = [Idle EXCEPT
                 !.pc = "moving", !.kind = to, !.attempt = a, !.seen = row]]
  BY DEF StartTransition, CartInv, CartTypes
<1>2. to \in WorkflowStates
  BY <1>1, TransitionTyped DEF AttemptRows
<1> DEFINE c == [Idle EXCEPT !.pc = "moving", !.kind = to, !.attempt = a, !.seen = row]
<1>3. /\ c \in Calls /\ c.pc = "moving" /\ c.kind = to /\ c.attempt = a
      /\ c.seen = row /\ c.saw = None
  BY <1>2, IdleIsCall DEF Calls, Pcs
<1>4. call' = [call EXCEPT ![x] = c]
  BY <1>1
<1> HIDE DEF c
<1>5. CallSound(c)
  BY <1>1, <1>2, <1>3 DEF CallSound, Capturing, Committed
<1>6. c.pc \notin InSession /\ call[x].pc \notin InSession
      /\ UNCHANGED <<rows, browser, outside, ghosts, mishaps>>
  BY <1>3 DEF StartTransition, InSession
<1> QED
  BY <1>3, <1>4, <1>5, <1>6, OtherCallStep

\* A capture keeps what it is about from stage to stage.
LEMMA StageStep ==
    ASSUME CartInv, NEW x \in Processes, NEW pc \in {"authorizing", "acting"}, Goes(x, pc),
           pc = "authorizing" => call[x].pc = "preparing",
           pc = "acting" => call[x].pc = "rechecking",
           UNCHANGED <<rows, browser, outside, ghosts, mishaps>>
    PROVE  CartInv'
<1>1. /\ call \in [Processes -> Calls] /\ call[x] \in Calls /\ CallSound(call[x])
  BY CallFacts
<1>2. PICK d \in Calls : d = call[x]
  BY <1>1
<1>3. /\ CallSound(d) /\ d.pc \in Capturing /\ d.kind = "capture" /\ d.attempt \in Attempts
      /\ d.site \in Sites /\ d.saw = None
      /\ pc = "acting" => Kept(d.attempt, TargetOf(d.site))
  BY <1>1, <1>2 DEF CallSound, Capturing, Committed
<1> DEFINE c == [d EXCEPT !.pc = pc]
<1>4. call' = [call EXCEPT ![x] = c]
  BY <1>2 DEF Goes
<1>5. /\ c \in Calls /\ c.pc = pc /\ c.kind = "capture" /\ c.attempt = d.attempt
      /\ c.site = d.site /\ c.saw = None
  BY <1>3 DEF Calls, Pcs, InSession
<1> HIDE DEF c
<1>6. CallSound(c)
  BY <1>3, <1>5 DEF CallSound, Capturing, Committed
<1>7. c.pc \in InSession /\ call[x].pc \in InSession
  BY <1>5 DEF InSession
<1> QED
  BY <1>2, <1>4, <1>5, <1>6, <1>7, OtherCallStep

LEMMA PrepareStep ==
    ASSUME CartInv, NEW x \in Processes, Prepare(x)
    PROVE  CartInv'
<1>1. call[x].pc = "preparing" /\ call[x].pc \in InSession
      /\ UNCHANGED <<rows, browser, outside, ghosts, mishaps>> /\ mishaps' \in 0 .. MaxMishaps
  BY CallFacts DEF Prepare, InSession
<1>2. Goes(x, "closing") \/ Goes(x, "authorizing")
  BY DEF Prepare
<1>3. CASE Goes(x, "closing")
  BY <1>1, <1>3, ClosingStep
<1>4. CASE Goes(x, "authorizing")
  BY <1>1, <1>4, StageStep
<1> QED
  BY <1>2, <1>3, <1>4

LEMMA BeginStep ==
    ASSUME CartInv, NEW x \in Processes, BeginCartCapture(x)
    PROVE  CartInv'
<1>1. call[x].pc = "authorizing" /\ call[x].pc \in InSession
      /\ UNCHANGED <<rows, browser, outside, ghosts, mishaps>> /\ mishaps' \in 0 .. MaxMishaps
  BY CallFacts DEF BeginCartCapture, InSession
<1>2. CASE Goes(x, "closing")
  BY <1>1, <1>2, ClosingStep
<1>3. CASE ~ Goes(x, "closing")
  <2>1. PICK d \in Calls : d = call[x]
    BY CallFacts
  <2>2. /\ d.kind = "capture" /\ d.attempt \in Attempts /\ d.site \in Sites /\ d.saw = None
    BY <1>1, <2>1, CallFacts DEF CallSound, Capturing
  <2>3. PICK row \in AttemptRows :
            /\ row = attempts[d.attempt] /\ transitionWorkflow(row.state, "CARTING") = "transitioned"
            /\ call' = [call EXCEPT ![x].pc = "committing", ![x].seen = row]
    BY <1>3, <2>1, <2>2 DEF BeginCartCapture, CartInv, CartTypes
  <2> DEFINE c == [d EXCEPT !.pc = "committing", !.seen = row]
  <2>4. call' = [call EXCEPT ![x] = c]
    BY <2>1, <2>3
  <2>5. /\ c \in Calls /\ c.pc = "committing" /\ c.kind = "capture" /\ c.attempt = d.attempt
        /\ c.site = d.site /\ c.seen = row /\ c.saw = None
    BY <2>2 DEF Calls, Pcs, InSession
  <2> HIDE DEF c
  <2>6. CallSound(c)
    BY <2>2, <2>3, <2>5 DEF CallSound, Capturing, Committed
  <2>7. c.pc \in InSession
    BY <2>5 DEF InSession
  <2> QED
    BY <1>1, <2>4, <2>5, <2>6, <2>7, OtherCallStep
<1> QED
  BY <1>2, <1>3

\* What a capture knows after its commit.
LEMMA CommittedFacts ==
    ASSUME CartInv, NEW x \in Processes, call[x].pc \in Committed
    PROVE  /\ call[x].attempt \in Attempts /\ call[x].site \in Sites
           /\ Kept(call[x].attempt, TargetOf(call[x].site))
           /\ call[x].pc \in InSession /\ call[x].pc # "closing" /\ call[x].saw = None
           /\ call[x].kind = "capture"
<1>1. CallSound(call[x])
  BY CallFacts
<1> QED
  BY <1>1 DEF CallSound, Capturing, Committed, InSession

LEMMA RecheckStep ==
    ASSUME CartInv, NEW x \in Processes, Recheck(x)
    PROVE  CartInv'
<1>1. call[x].pc = "rechecking" /\ call[x].pc \in Committed
      /\ UNCHANGED <<rows, browser, outside, ghosts, mishaps>> /\ mishaps' \in 0 .. MaxMishaps
  BY CallFacts DEF Recheck, Committed
<1>2. CASE Goes(x, "closing")
  BY <1>1, <1>2, CommittedFacts, ClosingStep
<1>3. CASE Goes(x, "acting")
  BY <1>1, <1>3, StageStep
<1>4. CASE \E inspection \in Inspections(TargetOf(call[x].site)) :
              /\ cartInspectionExactlyMatches(inspection, TargetOf(call[x].site))
              /\ call' = [call EXCEPT ![x].pc = "closing", ![x].saw = cart]
  BY <1>1, <1>4, CommittedFacts, ProvedStep
<1> QED
  BY <1>2, <1>3, <1>4 DEF Recheck

LEMMA VerifyStep ==
    ASSUME CartInv, NEW x \in Processes, Verify(x)
    PROVE  CartInv'
<1>1. call[x].pc = "verifying" /\ call[x].pc \in Committed
      /\ UNCHANGED <<rows, browser, outside, ghosts, mishaps>> /\ mishaps' \in 0 .. MaxMishaps
  BY CallFacts DEF Verify, Committed
<1>2. CASE Goes(x, "closing")
  BY <1>1, <1>2, CommittedFacts, ClosingStep
<1>3. CASE \E inspection \in Inspections(TargetOf(call[x].site)) :
              /\ cartInspectionExactlyMatches(inspection, TargetOf(call[x].site))
              /\ call' = [call EXCEPT ![x].pc = "closing", ![x].saw = cart]
  BY <1>1, <1>3, CommittedFacts, ProvedStep
<1> QED
  BY <1>2, <1>3 DEF Verify

\* A reconciliation asks for the target that it reads again and compares with the
\* one that it read first: they match only when they are the same.
LEMMA LookStep ==
    ASSUME CartInv, NEW x \in Processes, Look(x)
    PROVE  CartInv'
<1>1. call[x].pc = "looking" /\ call[x].pc \in InSession
      /\ UNCHANGED <<rows, browser, outside, ghosts, mishaps>> /\ mishaps' \in 0 .. MaxMishaps
  BY CallFacts DEF Look, InSession
<1>2. CASE Goes(x, "closing")
  BY <1>1, <1>2, ClosingStep
<1>3. CASE /\ call[x].kind # "look"
           /\ \E inspection \in Inspections(TargetOf(call[x].site)) :
                 /\ cartInspectionExactlyMatches(inspection, call[x].seen.target)
                 /\ call' = [call EXCEPT ![x].pc = "closing", ![x].saw = cart]
  <2>1. call[x].kind = "reconcile"
    BY <1>1, <1>3, CallFacts DEF CallSound
  <2>2. /\ call[x].attempt \in Attempts /\ call[x].site \in Sites
        /\ Kept(call[x].attempt, call[x].seen.target)
    BY <1>1, <2>1, CallFacts DEF CallSound
  <2>3. PICK inspection \in Inspections(TargetOf(call[x].site)) :
              /\ cartInspectionExactlyMatches(inspection, call[x].seen.target)
              /\ call' = [call EXCEPT ![x].pc = "closing", ![x].saw = cart]
    BY <1>3
  <2>4. call[x].seen.target = TargetOf(call[x].site)
    BY <2>3, CallFacts, MatchMeansHeld
  <2> QED
    BY <1>1, <2>2, <2>3, <2>4, ProvedStep
<1> QED
  BY <1>2, <1>3 DEF Look

\* The page is looked at once more and the click leaves, or it does not: a pledge
\* becomes a click at most once.
LEMMA ActStep ==
    ASSUME CartInv, NEW x \in Processes, Act(x)
    PROVE  CartInv'
<1>1. /\ call[x].pc = "acting" /\ call[x].pc \in Committed /\ mishaps' \in 0 .. MaxMishaps
      /\ UNCHANGED <<rows, browser, cart, commits, proofs, moves, mishaps>>
  BY CallFacts DEF Act, Committed
<1>2. CASE Goes(x, "closing") /\ UNCHANGED <<pending, clicks>>
  BY <1>1, <1>2, CommittedFacts, ClosingStep DEF outside, ghosts
<1>3. CASE Goes(x, "verifying")
  <2>1. PICK a \in Attempts, site \in Sites, d \in Calls :
            a = call[x].attempt /\ site = call[x].site /\ d = call[x]
    BY <1>1, CommittedFacts, CallFacts
  <2>2. /\ CallSound(d) /\ d.pc = "acting" /\ d.kind = "capture" /\ d.saw = None
        /\ d.attempt = a /\ d.site = site /\ Kept(a, TargetOf(site))
    BY <1>1, <2>1, CommittedFacts, CallFacts
  <2>3. /\ attempts' = attempts /\ commits' = commits /\ proofs' = proofs /\ moves' = moves
        /\ browser' = browser /\ cart' = cart /\ mishaps' = mishaps
    BY <1>1 DEF rows
  <2>4. "verifying" \in Pcs /\ "verifying" \in InSession /\ "acting" \in InSession
    BY DEF Pcs, InSession
  <2>5. /\ call' \in [Processes -> Calls] /\ \A y \in Processes \ {x} : call'[y] = call[y]
        /\ call'[x].pc = "verifying" /\ call'[x].kind = "capture" /\ call'[x].attempt = a
        /\ call'[x].site = site /\ call'[x].saw = None
    BY <1>3, <2>1, <2>2, <2>4, CallFacts, GoesFacts
  <2>6. Steady
    BY <2>3 DEF Steady, Untouched
  <2>7. CallSound(call[x])'
    <3>1. Kept(a, TargetOf(site))'
      BY <2>2, <2>6, KeptStays
    <3>2. PICK c : c = call'[x]
      OBVIOUS
    <3>3. /\ c.pc = "verifying" /\ c.kind = "capture" /\ c.attempt = a /\ c.site = site
          /\ c.saw = None
      BY <2>5, <3>2
    <3>4. CallSound(c)'
      BY <3>1, <3>3 DEF CallSound, Capturing, Committed
    <3> QED
      BY <3>2, <3>4
  <2>8. Locked(x)'
    <3>1. Locked(x)
      BY CallFacts
    <3> QED
      BY <1>1, <2>3, <2>4, <2>5, <3>1 DEF Locked
  <2>9. clicks \in [Attempts -> Seq(Sites)] /\ commits \in [Attempts -> Nat]
    BY DEF CartInv, CartTypes
  <2>10. \/ pending' = pending /\ clicks' = clicks
         \/ pending' = pending \cup {site} /\ clicks' = [clicks EXCEPT ![a] = Append(@, site)]
    <3>1. ~ Goes(x, "closing")
      <4>1. "closing" \in Pcs
        BY DEF Pcs, InSession
      <4>2. Goes(x, "closing") => call'[x].pc = "closing"
        BY <4>1, CallFacts, GoesFacts
      <4> QED
        BY <2>5, <4>2
    <3> QED
      BY <2>1, <3>1 DEF Act
  <2>11. /\ clicks' \in [Attempts -> Seq(Sites)] /\ pending' \subseteq Sites
         /\ \A b \in Attempts \ {a} : clicks'[b] = clicks[b]
         /\ Len(clicks'[a]) <= Len(clicks[a]) + 1
         /\ Len(clicks[a]) \in Nat /\ Len(clicks'[a]) \in Nat
    <3>1. pending \subseteq Sites
      BY DEF CartInv, CartTypes
    <3>2. /\ clicks[a] \in Seq(Sites) /\ Append(clicks[a], site) \in Seq(Sites)
          /\ Len(Append(clicks[a], site)) = Len(clicks[a]) + 1
      BY <2>9
    <3>3. CASE pending' = pending /\ clicks' = clicks
      BY <2>9, <3>1, <3>2, <3>3
    <3>4. CASE pending' = pending \cup {site} /\ clicks' = [clicks EXCEPT ![a] = Append(@, site)]
      <4>1. /\ clicks' \in [Attempts -> Seq(Sites)]
            /\ \A b \in Attempts \ {a} : clicks'[b] = clicks[b]
            /\ clicks'[a] = Append(clicks[a], site)
        BY <2>9, <3>2, <3>4
      <4> QED
        BY <3>1, <3>2, <3>4, <4>1
    <3> QED
      BY <2>10, <3>3, <3>4
  <2>12. CartTypes'
    BY <2>3, <2>5, <2>11 DEF CartInv, CartTypes
  <2>13. ASSUME NEW b \in Attempts \ {a} PROVE Pledged(b)' \subseteq Pledged(b)
    BY <2>5 DEF Pledged
  <2>14. RowSound(a)'
    <3> SUFFICES ASSUME moves[a] = <<>>
                 PROVE  /\ attempts[a].state \in {"AVAILABLE"} \cup CartStates
                        /\ attempts[a].state \in {"AVAILABLE", "CARTING"} => proofs[a] = {}
                        /\ attempts[a].state = "CART_HELD" => proofs[a] = {{attempts[a].target.siteId}}
                        /\ clicks'[a] # <<>> => attempts[a].state \in CartStates
                              /\ attempts[a].target = TargetOf(clicks'[a][1])
      BY <2>3 DEF RowSound, Untouched
    <3>1. /\ RowSound(a) /\ Untouched(a)
      BY DEF CartInv, Untouched
    <3>2. attempts[a].state \in CartStates /\ attempts[a].target = TargetOf(site)
      BY <2>2, <3>1 DEF Kept
    <3>3. CASE clicks'[a] = clicks[a]
      BY <3>1, <3>3 DEF RowSound
    <3>4. CASE clicks'[a] = Append(clicks[a], site)
      <4>1. clicks[a] \in Seq(Sites)
        BY <2>9
      <4>2. CASE clicks[a] = <<>>
        <5>1. clicks'[a][1] = site
          BY <3>4, <4>1, <4>2
        <5> QED
          BY <3>1, <3>2, <5>1 DEF RowSound
      <4>3. CASE clicks[a] # <<>>
        <5>1. clicks'[a][1] = clicks[a][1]
          BY <3>4, <4>1, <4>3
        <5> QED
          BY <3>1, <4>3, <5>1 DEF RowSound
      <4> QED
        BY <4>2, <4>3
    <3> QED
      BY <2>9, <2>10, <3>3, <3>4
  <2>15. Counted(a)'
    <3>1. Counted(a) /\ commits[a] \in Nat
      BY <2>9 DEF CartInv
    <3>2. x \in Pledged(a) /\ Pledged(a)' = Pledged(a) \ {x}
      BY <1>1, <2>1, <2>5 DEF Pledged
    <3>3. IsFiniteSet(Pledged(a))
      BY CartAssumption, FS_Subset DEF Pledged
    <3>4. Cardinality(Pledged(a)') = Cardinality(Pledged(a)) - 1 /\ Cardinality(Pledged(a)) \in Nat
      BY <3>2, <3>3, FS_RemoveElement, FS_CardinalityType
    <3>5. Reopened(a)' = Reopened(a)
      BY <2>3 DEF Reopened
    <3>6. Len(clicks'[a]) + Cardinality(Pledged(a)') <= commits[a]
      BY <2>11, <3>1, <3>4 DEF Counted
    <3> QED
      BY <2>3, <3>1, <3>5, <3>6 DEF Counted
  <2> QED
    BY <2>3, <2>5, <2>6, <2>7, <2>8, <2>11, <2>12, <2>13, <2>14, <2>15, RowStep
<1> QED
  BY <1>2, <1>3 DEF Act

\* The commit takes the availability it read, and pledges one click for it.
LEMMA CommitCartingStep ==
    ASSUME CartInv, NEW x \in Processes, CommitCarting(x)
    PROVE  CartInv'
<1>1. /\ call[x].pc = "committing" /\ call[x].pc \in InSession /\ mishaps' \in 0 .. MaxMishaps
      /\ UNCHANGED <<browser, outside, clicks, proofs, moves, mishaps>>
  BY CallFacts DEF CommitCarting, InSession
<1>2. CASE Goes(x, "closing") /\ UNCHANGED <<attempts, commits>>
  <2>1. UNCHANGED <<rows, browser, outside, ghosts>>
    BY <1>1, <1>2 DEF rows, ghosts
  <2> QED
    BY <1>1, <1>2, <2>1, ClosingStep
<1>3. CASE /\ attempts[call[x].attempt].state = call[x].seen.state
           /\ attempts' = [attempts EXCEPT ![call[x].attempt] = [call[x].seen EXCEPT
                  !.state = "CARTING", !.target = TargetOf(call[x].site)]]
           /\ commits' = [commits EXCEPT ![call[x].attempt] = @ + 1]
           /\ Goes(x, "rechecking")
  <2>1. CallSound(call[x]) /\ Locked(x) /\ call \in [Processes -> Calls]
    BY CallFacts
  <2>2. call[x].attempt \in Attempts /\ call[x].site \in Sites /\ call[x].seen \in AttemptRows
    BY <1>1, <2>1 DEF CallSound, Capturing
  <2>3. PICK a \in Attempts, site \in Sites, row \in AttemptRows :
            a = call[x].attempt /\ site = call[x].site /\ row = call[x].seen
    BY <2>2
  <2>4. /\ call[x].kind = "capture" /\ call[x].saw = None
        /\ transitionWorkflow(row.state, "CARTING") = "transitioned"
    BY <1>1, <2>1, <2>3 DEF CallSound, Capturing
  <2>5. attempts[a].state = "AVAILABLE"
    BY <1>3, <2>3, <2>4, CartTransitions DEF AttemptRows
  <2>6. /\ attempts' = [attempts EXCEPT ![a] = [row EXCEPT
                  !.state = "CARTING", !.target = TargetOf(site)]]
        /\ commits' = [commits EXCEPT ![a] = @ + 1]
    BY <1>3, <2>3
  <2>7. /\ clicks' = clicks /\ proofs' = proofs /\ moves' = moves
        /\ browser' = browser /\ cart' = cart /\ pending' = pending /\ mishaps' = mishaps
    BY <1>1 DEF outside
  <2> DEFINE new == [row EXCEPT !.state = "CARTING", !.target = TargetOf(site)]
  <2>8. new \in AttemptRows /\ new.state = "CARTING" /\ new.target = TargetOf(site)
    <3>1. "CARTING" \in WorkflowStates
      BY DEF WorkflowStates, Onward
    <3> QED
      BY <3>1 DEF AttemptRows
  <2> HIDE DEF new
  <2>9. /\ attempts \in [Attempts -> AttemptRows] /\ commits \in [Attempts -> Nat]
    BY DEF CartInv, CartTypes
  <2>10. /\ attempts' \in [Attempts -> AttemptRows] /\ attempts'[a] = new
         /\ \A b \in Attempts \ {a} : attempts'[b] = attempts[b]
    BY <2>6, <2>8, <2>9 DEF new
  <2>11. /\ commits' \in [Attempts -> Nat] /\ commits'[a] = commits[a] + 1
         /\ \A b \in Attempts \ {a} : commits'[b] = commits[b]
    BY <2>6, <2>9
  <2>12. "rechecking" \in Pcs /\ "rechecking" \in InSession
    BY DEF Pcs, InSession
  <2>13. /\ call' \in [Processes -> Calls] /\ \A y \in Processes \ {x} : call'[y] = call[y]
         /\ call'[x].pc = "rechecking" /\ call'[x].kind = "capture" /\ call'[x].attempt = a
         /\ call'[x].site = site /\ call'[x].saw = None
    BY <1>3, <2>1, <2>3, <2>4, <2>12, GoesFacts
  <2>14. CartTypes'
    BY <2>7, <2>10, <2>11, <2>13 DEF CartInv, CartTypes
  <2>15. Steady
    BY <2>5, <2>7, <2>10 DEF Steady, Untouched, CartStates
  <2>16. CallSound(call[x])'
    <3>1. Kept(a, TargetOf(site))'
      BY <2>8, <2>10 DEF Kept, CartStates
    <3>2. PICK c : c = call'[x]
      OBVIOUS
    <3>3. /\ c.pc = "rechecking" /\ c.kind = "capture" /\ c.attempt = a /\ c.site = site
          /\ c.saw = None
      BY <2>13, <3>2
    <3>4. CallSound(c)'
      BY <3>1, <3>3 DEF CallSound, Capturing, Committed
    <3> QED
      BY <3>2, <3>4
  <2>17. Locked(x)'
    BY <1>1, <2>1, <2>7, <2>12, <2>13 DEF Locked
  <2>18. RowSound(a) /\ Counted(a)
    BY DEF CartInv
  <2>19. RowSound(a)'
    <3>1. Untouched(a) => proofs[a] = {} /\ clicks[a] = <<>>
      BY <2>5, <2>18 DEF RowSound, CartStates
    <3> QED
      BY <2>7, <2>8, <2>10, <3>1 DEF RowSound, Untouched, CartStates
  <2>20. Counted(a)'
    <3>1. x \notin Pledged(a) /\ Pledged(a)' = Pledged(a) \cup {x}
      BY <1>1, <2>13 DEF Pledged
    <3>2. IsFiniteSet(Pledged(a))
      BY CartAssumption, FS_Subset DEF Pledged
    <3>3. Cardinality(Pledged(a)') = Cardinality(Pledged(a)) + 1 /\ Cardinality(Pledged(a)) \in Nat
      BY <3>1, <3>2, FS_AddElement, FS_CardinalityType
    <3>4. Reopened(a)' = Reopened(a)
      BY <2>7 DEF Reopened
    <3>5. Len(clicks[a]) \in Nat /\ commits[a] \in Nat
      BY DEF CartInv, CartTypes
    <3>6. Len(clicks[a]) + Cardinality(Pledged(a)) <= commits[a] /\ commits[a] + 1 <= 1 + Reopened(a)
      BY <2>5, <2>18 DEF Counted
    <3>7. Len(clicks'[a]) + Cardinality(Pledged(a)') <= commits'[a]
      BY <2>7, <2>11, <3>3, <3>5, <3>6
    <3>8. commits'[a] + 0 <= 1 + Reopened(a)'
      BY <2>11, <3>4, <3>5, <3>6
    <3>9. attempts'[a].state # "AVAILABLE"
      BY <2>8, <2>10
    <3> QED
      BY <3>7, <3>8, <3>9 DEF Counted
  <2>21. ASSUME NEW b \in Attempts \ {a} PROVE Pledged(b)' \subseteq Pledged(b)
    BY <2>13 DEF Pledged
  <2> QED
    BY <2>7, <2>10, <2>11, <2>13, <2>14, <2>15, <2>16, <2>17, <2>19, <2>20, <2>21, RowStep
<1> QED
  BY <1>2, <1>3 DEF CommitCarting

\* The attempt must be CARTING when its proof is brought, whatever has moved it.
LEMMA CompleteCartCaptureStep ==
    ASSUME CartInv, NEW x \in Processes, CompleteCartCapture(x)
    PROVE  CartInv'
<1>1. /\ call[x].pc = "holding" /\ call[x].pc \notin InSession /\ mishaps' \in 0 .. MaxMishaps
      /\ UNCHANGED <<rows, browser, outside, ghosts, mishaps>>
  BY CallFacts DEF CompleteCartCapture, InSession
<1>2. CASE Ends(x)
  BY <1>1, <1>2, EndStep
<1>3. CASE ~ Ends(x)
  <2>1. PICK d \in Calls : d = call[x]
    BY CallFacts
  <2>2. /\ d.saw # None /\ d.attempt \in Attempts /\ d.site \in Sites /\ d.saw = {d.site}
        /\ Kept(d.attempt, TargetOf(d.site))
    BY <1>1, <2>1, CallFacts DEF CallSound
  <2>3. PICK row \in AttemptRows :
            /\ row = attempts[d.attempt] /\ transitionWorkflow(row.state, "CART_HELD") = "transitioned"
            /\ call' = [call EXCEPT ![x].pc = "completing", ![x].seen = row]
    BY <1>3, <2>1, <2>2 DEF CompleteCartCapture, CartInv, CartTypes
  <2> DEFINE c == [d EXCEPT !.pc = "completing", !.seen = row]
  <2>4. call' = [call EXCEPT ![x] = c]
    BY <2>1, <2>3
  <2>5. /\ c \in Calls /\ c.pc = "completing" /\ c.attempt = d.attempt
        /\ c.site = d.site /\ c.seen = row /\ c.saw = d.saw
    BY <2>2 DEF Calls, Pcs
  <2> HIDE DEF c
  <2>6. Kept(d.attempt, row.target)
    BY <2>2, <2>3 DEF Kept
  <2>7. CallSound(c)
    BY <2>2, <2>3, <2>5, <2>6 DEF CallSound, Capturing, Committed
  <2>8. c.pc \notin InSession
    BY <2>5 DEF InSession
  <2> QED
    BY <1>1, <2>4, <2>5, <2>7, <2>8, OtherCallStep
<1> QED
  BY <1>2, <1>3

\* The hold is written with the row read, and the cart that proved it beside it.
LEMMA CommitHeldStep ==
    ASSUME CartInv, NEW x \in Processes, CommitHeld(x)
    PROVE  CartInv'
<1>1. /\ call[x].pc = "completing" /\ call[x].pc \notin InSession /\ mishaps' \in 0 .. MaxMishaps
      /\ Ends(x) /\ UNCHANGED <<browser, outside, commits, clicks, moves, mishaps>>
  BY CallFacts DEF CommitHeld, InSession
<1>2. CASE UNCHANGED <<attempts, proofs>>
  <2>1. UNCHANGED <<rows, browser, outside, ghosts>>
    BY <1>1, <1>2 DEF rows, ghosts
  <2> QED
    BY <1>1, <2>1, EndStep
<1>3. CASE /\ attempts[call[x].attempt].state = call[x].seen.state
           /\ attempts' = [attempts EXCEPT ![call[x].attempt] =
                               [call[x].seen EXCEPT !.state = "CART_HELD"]]
           /\ proofs' = [proofs EXCEPT ![call[x].attempt] = @ \cup {call[x].saw}]
  <2>1. CallSound(call[x]) /\ Locked(x) /\ call \in [Processes -> Calls] /\ call[x] \in Calls
    BY CallFacts
  <2>2. /\ call[x].saw # None /\ call[x].attempt \in Attempts /\ call[x].site \in Sites
        /\ call[x].seen \in AttemptRows
    BY <1>1, <2>1 DEF CallSound
  <2>3. PICK a \in Attempts, site \in Sites, row \in AttemptRows :
            a = call[x].attempt /\ site = call[x].site /\ row = call[x].seen
    BY <2>2
  <2>4. /\ call[x].saw = {site} /\ Kept(a, TargetOf(site)) /\ Kept(a, row.target)
        /\ transitionWorkflow(row.state, "CART_HELD") = "transitioned"
    BY <1>1, <2>1, <2>2, <2>3 DEF CallSound
  <2>5. attempts[a].state = "CARTING"
    BY <1>3, <2>3, <2>4, CartTransitions DEF AttemptRows
  <2> DEFINE new == [row EXCEPT !.state = "CART_HELD"]
  <2>6. new \in AttemptRows /\ new.state = "CART_HELD" /\ new.target = row.target
    <3>1. "CART_HELD" \in WorkflowStates
      BY DEF WorkflowStates, Onward
    <3> QED
      BY <3>1 DEF AttemptRows
  <2>7. attempts' = [attempts EXCEPT ![a] = new] /\ proofs' = [proofs EXCEPT ![a] = @ \cup {{site}}]
    BY <1>3, <2>3, <2>4
  <2> HIDE DEF new
  <2>8. /\ clicks' = clicks /\ commits' = commits /\ moves' = moves
        /\ browser' = browser /\ cart' = cart /\ pending' = pending /\ mishaps' = mishaps
    BY <1>1 DEF outside
  <2>9. attempts \in [Attempts -> AttemptRows] /\ proofs \in [Attempts -> SUBSET SUBSET Sites]
    BY DEF CartInv, CartTypes
  <2>10. /\ attempts' \in [Attempts -> AttemptRows] /\ attempts'[a] = new
         /\ \A b \in Attempts \ {a} : attempts'[b] = attempts[b]
    BY <2>6, <2>7, <2>9
  <2>11. /\ proofs' \in [Attempts -> SUBSET SUBSET Sites] /\ proofs'[a] = proofs[a] \cup {{site}}
         /\ \A b \in Attempts \ {a} : proofs'[b] = proofs[b]
    BY <2>7, <2>9
  <2>12. /\ call' \in [Processes -> Calls] /\ \A y \in Processes \ {x} : call'[y] = call[y]
         /\ call'[x].pc = "idle" /\ call'[x].pc \notin InSession /\ CallSound(call[x])'
    BY <1>1, <2>1, EndsFacts
  <2>13. CartTypes'
    BY <2>8, <2>10, <2>11, <2>12 DEF CartInv, CartTypes
  <2>14. Untouched(a) => attempts[a].target = TargetOf(site) /\ row.target = TargetOf(site)
    BY <2>4 DEF Kept
  <2>15. Steady
    BY <2>6, <2>8, <2>10, <2>14 DEF Steady, Untouched, CartStates
  <2>16. Locked(x)'
    BY <1>1, <2>1, <2>8, <2>12 DEF Locked
  <2>17. RowSound(a) /\ Counted(a)
    BY DEF CartInv
  <2>18. RowSound(a)'
    <3>1. Untouched(a) => proofs[a] = {} /\ (clicks[a] # <<>> => attempts[a].target = TargetOf(clicks[a][1]))
      BY <2>5, <2>17 DEF RowSound
    <3>2. TargetOf(site).siteId = site
      BY DEF TargetOf
    <3> QED
      BY <2>6, <2>8, <2>10, <2>11, <2>14, <3>1, <3>2 DEF RowSound, Untouched, CartStates
  <2>19. Pledged(a)' = Pledged(a)
    BY <1>1, <2>12 DEF Pledged
  <2>20. Counted(a)'
    <3>1. attempts'[a].state # "AVAILABLE" /\ attempts[a].state # "AVAILABLE"
      BY <2>5, <2>6, <2>10
    <3>2. Reopened(a)' = Reopened(a)
      BY <2>8 DEF Reopened
    <3> QED
      BY <2>8, <2>17, <2>19, <3>1, <3>2 DEF Counted
  <2>21. ASSUME NEW b \in Attempts \ {a} PROVE Pledged(b)' \subseteq Pledged(b)
    BY <2>12 DEF Pledged
  <2> QED
    BY <2>8, <2>10, <2>11, <2>12, <2>13, <2>15, <2>16, <2>18, <2>20, <2>21, RowStep
<1> QED
  BY <1>2, <1>3 DEF CommitHeld

\* Another move counts one more availability exactly when it leads to AVAILABLE.
LEMMA ReopenedGrows ==
    ASSUME CartTypes, NEW a \in Attempts, NEW to, moves'[a] = Append(moves[a], to)
    PROVE  /\ Reopened(a) \in Nat /\ Reopened(a)' \in Nat
           /\ Reopened(a)' = IF to = "AVAILABLE" THEN Reopened(a) + 1 ELSE Reopened(a)
<1> DEFINE s == moves[a]
           t == moves'[a]
           n == Len(s)
           I == {i \in DOMAIN s : s[i] = "AVAILABLE"}
           J == {i \in DOMAIN t : t[i] = "AVAILABLE"}
<1>1. s \in Seq(WorkflowStates) /\ n \in Nat
  BY DEF CartTypes
<1>2. t = Append(s, to)
  OBVIOUS
<1>3. DOMAIN s = 1 .. n /\ DOMAIN t = 1 .. (n + 1) /\ t[n + 1] = to /\ \A i \in 1 .. n : t[i] = s[i]
  BY <1>1, <1>2
<1>4. I \subseteq 1 .. n /\ n + 1 \notin I
  BY <1>1, <1>3
<1>5. J = IF to = "AVAILABLE" THEN I \cup {n + 1} ELSE I
  BY <1>1, <1>3
<1>6. IsFiniteSet(1 .. n)
  BY <1>1, FS_Interval
<1> HIDE DEF I, J, n
<1>7. IsFiniteSet(I) /\ Cardinality(I) \in Nat
  BY <1>4, <1>6, FS_Subset, FS_CardinalityType
<1>8. Cardinality(J) = IF to = "AVAILABLE" THEN Cardinality(I) + 1 ELSE Cardinality(I)
  BY <1>4, <1>5, <1>7, FS_AddElement
<1>9. Reopened(a) = Cardinality(I) /\ Reopened(a)' = Cardinality(J)
  BY DEF Reopened, I, J
<1> QED
  BY <1>7, <1>8, <1>9

\* An operator's transition writes the row it read under the state it asks for.
LEMMA MoveStep ==
    ASSUME CartInv, NEW x \in Processes, Move(x)
    PROVE  CartInv'
<1>1. /\ call[x].pc = "moving" /\ call[x].pc \notin InSession /\ mishaps' \in 0 .. MaxMishaps
      /\ Ends(x) /\ UNCHANGED <<browser, outside, commits, clicks, proofs, mishaps>>
  BY CallFacts DEF Move, InSession
<1>2. CASE UNCHANGED <<attempts, moves>>
  <2>1. UNCHANGED <<rows, browser, outside, ghosts>>
    BY <1>1, <1>2 DEF rows, ghosts
  <2> QED
    BY <1>1, <2>1, EndStep
<1>3. CASE /\ attempts[call[x].attempt].state = call[x].seen.state
           /\ attempts' = [attempts EXCEPT ![call[x].attempt] =
                               [call[x].seen EXCEPT !.state = call[x].kind]]
           /\ moves' = [moves EXCEPT ![call[x].attempt] = Append(@, call[x].kind)]
  <2>1. CallSound(call[x]) /\ Locked(x) /\ call \in [Processes -> Calls] /\ call[x] \in Calls
    BY CallFacts
  <2>2. /\ call[x].attempt \in Attempts /\ call[x].seen \in AttemptRows
        /\ call[x].kind \in WorkflowStates
    BY <1>1, <2>1 DEF CallSound
  <2>3. PICK a \in Attempts, to \in WorkflowStates, row \in AttemptRows :
            a = call[x].attempt /\ to = call[x].kind /\ row = call[x].seen
    BY <2>2
  <2>4. transitionWorkflow(row.state, to) = "transitioned" /\ attempts[a].state = row.state
    BY <1>1, <1>3, <2>1, <2>3 DEF CallSound
  <2> DEFINE new == [row EXCEPT !.state = to]
  <2>5. new \in AttemptRows /\ new.state = to
    BY DEF AttemptRows
  <2>6. attempts' = [attempts EXCEPT ![a] = new] /\ moves' = [moves EXCEPT ![a] = Append(@, to)]
    BY <1>3, <2>3
  <2> HIDE DEF new
  <2>7. /\ clicks' = clicks /\ commits' = commits /\ proofs' = proofs
        /\ browser' = browser /\ cart' = cart /\ pending' = pending /\ mishaps' = mishaps
    BY <1>1 DEF outside
  <2>8. attempts \in [Attempts -> AttemptRows] /\ moves \in [Attempts -> Seq(WorkflowStates)]
    BY DEF CartInv, CartTypes
  <2>9. /\ attempts' \in [Attempts -> AttemptRows] /\ attempts'[a] = new
        /\ \A b \in Attempts \ {a} : attempts'[b] = attempts[b]
    BY <2>5, <2>6, <2>8
  <2>10. moves[a] \in Seq(WorkflowStates) /\ Append(moves[a], to) \in Seq(WorkflowStates)
         /\ Append(moves[a], to) # <<>>
    <3>1. moves[a] \in Seq(WorkflowStates)
      BY <2>8
    <3>2. Append(moves[a], to) \in Seq(WorkflowStates)
      BY <3>1
    <3>3. Len(Append(moves[a], to)) = Len(moves[a]) + 1 /\ Len(moves[a]) \in Nat
      BY <3>1
    <3>4. Append(moves[a], to) # <<>>
      BY <3>3
    <3> QED
      BY <3>1, <3>2, <3>4
  <2>11. /\ moves' \in [Attempts -> Seq(WorkflowStates)] /\ moves'[a] = Append(moves[a], to)
         /\ \A b \in Attempts \ {a} : moves'[b] = moves[b]
    BY <2>6, <2>8, <2>10
  <2>12. /\ call' \in [Processes -> Calls] /\ \A y \in Processes \ {x} : call'[y] = call[y]
         /\ call'[x].pc = "idle" /\ call'[x].pc \notin InSession /\ CallSound(call[x])'
    BY <1>1, <2>1, EndsFacts
  <2>13. CartTypes'
    BY <2>7, <2>9, <2>11, <2>12 DEF CartInv, CartTypes
  <2>14. ~ Untouched(a)'
    BY <2>10, <2>11 DEF Untouched
  <2>15. Steady
    <3>1. ASSUME NEW b \in Attempts \ {a}
          PROVE  attempts'[b] = attempts[b] /\ (Untouched(b)' <=> Untouched(b))
      BY <2>9, <2>11 DEF Untouched
    <3> QED
      BY <2>14, <3>1 DEF Steady
  <2>16. Locked(x)'
    BY <1>1, <2>1, <2>7, <2>12 DEF Locked
  <2>17. RowSound(a)'
    BY <2>14 DEF RowSound
  <2>18. Pledged(a)' = Pledged(a)
    BY <1>1, <2>12 DEF Pledged
  <2>19. Counted(a)'
    <3>1. /\ Reopened(a) \in Nat /\ Reopened(a)' \in Nat
          /\ Reopened(a)' = IF to = "AVAILABLE" THEN Reopened(a) + 1 ELSE Reopened(a)
      BY <2>11, ReopenedGrows DEF CartInv
    <3>2. Counted(a) /\ commits[a] \in Nat
      BY DEF CartInv, CartTypes
    <3>3. attempts'[a].state = to
      BY <2>5, <2>9
    <3>4. commits'[a] + (IF attempts'[a].state = "AVAILABLE" THEN 1 ELSE 0) <= 1 + Reopened(a)'
      BY <2>7, <3>1, <3>2, <3>3 DEF Counted
    <3>5. Len(clicks'[a]) + Cardinality(Pledged(a)') <= commits'[a]
      BY <2>7, <2>18, <3>2 DEF Counted
    <3> QED
      BY <3>4, <3>5 DEF Counted
  <2>20. ASSUME NEW b \in Attempts \ {a} PROVE Pledged(b)' \subseteq Pledged(b)
    BY <2>12 DEF Pledged
  <2> QED
    BY <2>7, <2>9, <2>11, <2>12, <2>13, <2>15, <2>16, <2>17, <2>19, <2>20, RowStep
<1> QED
  BY <1>2, <1>3 DEF Move

\* The process is gone, and what it committed stays.
LEMMA CrashStep ==
    ASSUME CartInv, NEW x \in Processes, Crash(x)
    PROVE  CartInv'
<1>1. call \in [Processes -> Calls] /\ Locked(x) /\ mishaps \in 0 .. MaxMishaps
  BY CallFacts
<1>2. /\ Ends(x) /\ mishaps < MaxMishaps /\ mishaps' = mishaps + 1
      /\ browser' \in IF browser = x THEN {None, Stale} ELSE {browser}
      /\ UNCHANGED <<rows, outside, ghosts>>
  BY DEF Crash
<1>3. mishaps' \in 0 .. MaxMishaps
  BY <1>1, <1>2, CartAssumption
<1>4. x # None /\ x # Stale
  BY CartAssumption
<1>5. /\ call' \in [Processes -> Calls] /\ \A y \in Processes \ {x} : call'[y] = call[y]
      /\ call'[x].pc = "idle" /\ call'[x].pc \notin InSession /\ CallSound(call[x])'
  BY <1>1, <1>2, EndsFacts
<1>6. /\ browser' = browser \/ {browser, browser'} \subseteq {x, None, Stale}
      /\ browser' # x
  BY <1>2, <1>4
<1>7. Locked(x)'
  BY <1>5, <1>6 DEF Locked
<1>8. call'[x].pc \notin {"rechecking", "acting"}
  BY <1>5
<1> QED
  BY <1>2, <1>3, <1>5, <1>6, <1>7, <1>8, CallStep

LEMMA StoreFailsStep ==
    ASSUME CartInv, NEW x \in Processes, StoreFails(x)
    PROVE  CartInv'
<1>1. /\ call[x].pc # "closing" /\ mishaps < MaxMishaps /\ mishaps' = mishaps + 1
      /\ UNCHANGED <<rows, browser, outside, ghosts>>
  BY DEF StoreFails
<1>2. mishaps' \in 0 .. MaxMishaps
  <2>1. mishaps \in 0 .. MaxMishaps
    BY CallFacts
  <2> QED
    BY <1>1, <2>1, CartAssumption
<1>3. CASE call[x].pc \in InSession
  <2>1. Goes(x, "closing")
    BY <1>3 DEF StoreFails
  <2> QED
    BY <1>1, <1>2, <1>3, <2>1, ClosingStep
<1>4. CASE call[x].pc \notin InSession
  <2>1. Ends(x)
    BY <1>4 DEF StoreFails
  <2> QED
    BY <1>1, <1>2, <1>4, <2>1, EndStep
<1> QED
  BY <1>3, <1>4

\* What happens outside, and the removal of a stale lock, concern no call.
LEMMA OutsideStep ==
    ASSUME CartInv, UNCHANGED <<rows, call, ghosts>>,
           browser' = browser \/ (browser = Stale /\ browser' = None),
           cart' \subseteq Sites, pending' \subseteq Sites, mishaps' \in 0 .. MaxMishaps
    PROVE  CartInv'
<1>1. /\ attempts' = attempts /\ call' = call
      /\ commits' = commits /\ clicks' = clicks /\ proofs' = proofs /\ moves' = moves
  BY DEF rows, ghosts
<1>2. CartTypes'
  BY <1>1 DEF CartInv, CartTypes
<1>3. Steady
  BY <1>1 DEF Steady, Untouched
<1>4. ASSUME NEW y \in Processes PROVE CallSound(call[y])' /\ Locked(y)'
  <2>1. call'[y] = call[y] /\ CallSound(call[y]) /\ Locked(y)
    BY <1>1, CallFacts
  <2>2. y # None /\ y # Stale
    BY CartAssumption
  <2>3. browser' = y <=> browser = y
    BY <2>2
  <2> QED
    BY <1>3, <2>1, <2>3, CallStays DEF Locked
<1>5. ASSUME NEW b \in Attempts PROVE RowSound(b)' /\ Counted(b)'
  <2>1. RowSound(b) /\ Counted(b)
    BY DEF CartInv
  <2> QED
    BY <1>1, <2>1 DEF RowSound, Untouched, Counted, Reopened, Pledged
<1> QED
  BY <1>2, <1>4, <1>5 DEF CartInv

LEMMA OutsideSteps ==
    ASSUME CartInv, (\E site \in Sites : Lands(site)) \/ CartChanges \/ RemoveLock
    PROVE  CartInv'
<1>1. cart \subseteq Sites /\ pending \subseteq Sites /\ mishaps \in 0 .. MaxMishaps
  BY DEF CartInv, CartTypes
<1>2. ASSUME NEW site \in Sites, Lands(site) PROVE CartInv'
  <2>1. /\ cart' \subseteq Sites /\ pending' \subseteq Sites /\ mishaps' \in 0 .. MaxMishaps
        /\ UNCHANGED <<rows, call, ghosts>> /\ browser' = browser
    BY <1>1, <1>2 DEF Lands
  <2> QED
    BY <2>1, OutsideStep
<1>3. CASE CartChanges
  <2>1. /\ cart' \subseteq Sites /\ pending' \subseteq Sites /\ mishaps' \in 0 .. MaxMishaps
        /\ UNCHANGED <<rows, call, ghosts>> /\ browser' = browser
    BY <1>1, <1>3, CartAssumption DEF CartChanges
  <2> QED
    BY <2>1, OutsideStep
<1>4. CASE RemoveLock
  <2>1. /\ cart' \subseteq Sites /\ pending' \subseteq Sites /\ mishaps' \in 0 .. MaxMishaps
        /\ UNCHANGED <<rows, call, ghosts>> /\ browser = Stale /\ browser' = None
    BY <1>1, <1>4 DEF RemoveLock, outside
  <2> QED
    BY <2>1, OutsideStep
<1> QED
  BY <1>2, <1>3, <1>4

-----------------------------------------------------------------------------
(* The invariant.                                                          *)

LEMMA CartInitially == Init => CartInv
<1> SUFFICES ASSUME Init PROVE CartInv
  OBVIOUS
<1>1. /\ \A a \in Attempts : /\ attempts[a] = [state |-> "AVAILABLE", target |-> None]
                             /\ commits[a] = 0 /\ clicks[a] = <<>> /\ proofs[a] = {} /\ moves[a] = <<>>
      /\ \A x \in Processes : call[x] = Idle
  BY DEF Init
<1>2. CartTypes
  <2>1. "AVAILABLE" \in WorkflowStates
    BY DEF WorkflowStates, Onward
  <2>2. attempts \in [Attempts -> AttemptRows]
    BY <2>1 DEF Init, AttemptRows
  <2>3. call \in [Processes -> Calls]
    BY IdleIsCall DEF Init
  <2>4. <<>> \in Seq(Sites) /\ <<>> \in Seq(WorkflowStates)
    OBVIOUS
  <2> QED
    BY <2>2, <2>3, <2>4, CartAssumption DEF Init, CartTypes
<1>3. ASSUME NEW x \in Processes PROVE CallSound(call[x]) /\ Locked(x)
  <2>1. x # None
    BY CartAssumption
  <2>2. call[x] = Idle /\ browser = None
    BY <1>1 DEF Init
  <2> QED
    BY <2>1, <2>2, IdleIsCall DEF CallSound, Capturing, Committed, Locked, InSession
<1>4. ASSUME NEW a \in Attempts PROVE RowSound(a) /\ Counted(a)
  <2>1. Pledged(a) = {}
    BY <1>1, IdleIsCall DEF Pledged
  <2>2. Reopened(a) \in Nat
    <3>1. DOMAIN moves[a] = {}
      BY <1>1
    <3>2. {i \in DOMAIN moves[a] : moves[a][i] = "AVAILABLE"} = {}
      BY <3>1
    <3> QED
      BY <3>2, FS_EmptySet DEF Reopened
  <2>3. RowSound(a)
    BY <1>1 DEF RowSound
  <2>4. Len(clicks[a]) = 0 /\ Cardinality(Pledged(a)) = 0
    BY <1>1, <2>1, FS_EmptySet
  <2> QED
    BY <1>1, <2>2, <2>3, <2>4 DEF Counted
<1> QED
  BY <1>2, <1>3, <1>4 DEF CartInv

LEMMA CartStep == CartInv /\ [Next]_vars => CartInv'
<1> SUFFICES ASSUME CartInv, [Next]_vars PROVE CartInv'
  OBVIOUS
<1>1. CASE UNCHANGED vars
  <2>1. /\ UNCHANGED <<rows, call, ghosts>> /\ browser' = browser
        /\ cart' = cart /\ pending' = pending /\ mishaps' = mishaps
    BY <1>1 DEF vars, outside
  <2> QED
    BY <2>1, OutsideStep DEF CartInv, CartTypes
<1>2. ASSUME NEW x \in Processes,
             \/ StartCapture(x) \/ StartReconcile(x) \/ StartLook(x) \/ StartTransition(x)
             \/ Launch(x) \/ Prepare(x) \/ BeginCartCapture(x) \/ CommitCarting(x) \/ Recheck(x)
             \/ Act(x) \/ Verify(x) \/ RereadTarget(x) \/ Look(x) \/ Close(x)
             \/ CompleteCartCapture(x) \/ CommitHeld(x) \/ Move(x) \/ Crash(x) \/ StoreFails(x)
      PROVE  CartInv'
  BY <1>2, StartCaptureStep, StartReconcileStep, StartLookStep, StartTransitionStep,
     LaunchStep, PrepareStep, BeginStep, CommitCartingStep, RecheckStep, ActStep, VerifyStep,
     RereadTargetStep, LookStep, CloseStep, CompleteCartCaptureStep, CommitHeldStep, MoveStep,
     CrashStep, StoreFailsStep
<1>3. CASE (\E site \in Sites : Lands(site)) \/ CartChanges \/ RemoveLock
  BY <1>3, OutsideSteps
<1> QED
  BY <1>1, <1>2, <1>3 DEF Next

\* The invariant holds of every behaviour of the cart.
THEOREM CartInvariant == Spec => []CartInv
  BY CartInitially, CartStep, PTL DEF Spec

\* The state has its types, and the profile is locked exactly while a session of a
\* live process uses it: launchRecreationContext and the finally of every session.
THEOREM CartTypeCorrect == Spec => []TypeOK
<1>1. CartInv => TypeOK
  <2> SUFFICES ASSUME CartInv PROVE TypeOK
    OBVIOUS
  <2>1. ASSUME NEW x \in Processes,
               call[x].pc \in {"committing", "completing", "moving"}
        PROVE  call[x].seen \in AttemptRows
    BY <2>1, CallFacts DEF CallSound
  <2>2. ASSUME NEW x \in Processes PROVE browser = x <=> call[x].pc \in InSession
    BY CallFacts DEF Locked
  <2> QED
    BY <2>1, <2>2 DEF TypeOK, CartInv, CartTypes
<1> QED
  BY <1>1, CartInvariant, PTL

\* However many captures of an attempt run side by side, it is clicked for once per
\* availability: captureRecreationCart commits CARTING before it clicks.
THEOREM ClickedOncePerAvailability == Spec => []OneClickPerAvailability
<1>1. CartInv => OneClickPerAvailability
  <2> SUFFICES ASSUME CartInv, NEW a \in Attempts PROVE Len(clicks[a]) <= 1 + Reopened(a)
    BY DEF OneClickPerAvailability
  <2>1. Counted(a) /\ Len(clicks[a]) \in Nat /\ commits[a] \in Nat
    BY DEF CartInv, CartTypes
  <2>2. Cardinality(Pledged(a)) \in Nat
    BY CartAssumption, FS_Subset, FS_CardinalityType DEF Pledged
  <2>3. Reopened(a) \in Nat
    <3>1. moves[a] \in Seq(WorkflowStates)
      BY DEF CartInv, CartTypes
    <3>2. DOMAIN moves[a] = 1 .. Len(moves[a]) /\ Len(moves[a]) \in Nat
      BY <3>1
    <3>3. IsFiniteSet(DOMAIN moves[a])
      BY <3>2, FS_Interval
    <3> QED
      BY <3>3, FS_Subset, FS_CardinalityType DEF Reopened
  <2>4. Len(clicks[a]) <= commits[a]
    BY <2>1, <2>2 DEF Counted
  <2>5. commits[a] <= 1 + Reopened(a)
    BY <2>1, <2>3 DEF Counted
  <2> QED
    BY <2>1, <2>3, <2>4, <2>5
<1> QED
  BY <1>1, CartInvariant, PTL

\* An attempt that has been clicked for, and that no operator has moved, is on
\* record with the target a reconciliation asks for: beginCartCapture.
THEOREM ClickOnRecord == Spec => []ClickIsOnRecord
<1>1. CartInv => ClickIsOnRecord
  BY DEF CartInv, RowSound, Untouched, CartStates, ClickIsOnRecord
<1> QED
  BY <1>1, CartInvariant, PTL

\* A hold that no operator has touched was proved by a cart with its site and
\* nothing else: cartInspectionExactlyMatches and completeCartCapture.
THEOREM HoldProved == Spec => []HoldIsProved
<1>1. CartInv => HoldIsProved
  BY DEF CartInv, RowSound, Untouched, HoldIsProved
<1> QED
  BY <1>1, CartInvariant, PTL

\* A row is written for the state it was read in only, by beginCartCapture,
\* completeCartCapture and transitionAttempt alike.
LEMMA WritesFollow ==
    ASSUME CartInv, NEW x \in Processes, CommitCarting(x) \/ CommitHeld(x) \/ Move(x),
           attempts' # attempts
    PROVE  \E b \in Attempts, to \in WorkflowStates : \E new :
              /\ attempts' = [attempts EXCEPT ![b] = new] /\ new.state = to
              /\ transitionWorkflow(attempts[b].state, to) = "transitioned"
<1>1. CallSound(call[x])
  BY CallFacts
<1>2. WorkflowStates = {"WAITING", "AVAILABLE", "CARTING", "CART_HELD", "PAYMENT_REQUESTED",
                        "PAYMENT_AUTHORIZED", "CARD_ACQUIRED", "CHECKOUT", "PAUSED",
                        "CONFIRMED", "FAILED", "EXPIRED", "ABORTED"}
  BY DEF WorkflowStates, Onward, terminalStates
<1>3. PICK b, row : b = call[x].attempt /\ row = call[x].seen
  OBVIOUS
<1>4. CASE CommitCarting(x)
  <2>1. b \in Attempts /\ row \in AttemptRows /\ transitionWorkflow(row.state, "CARTING") = "transitioned"
    BY <1>1, <1>3, <1>4 DEF CallSound, Capturing, CommitCarting
  <2> DEFINE new == [row EXCEPT !.state = "CARTING", !.target = TargetOf(call[x].site)]
  <2>2. attempts' = [attempts EXCEPT ![b] = new] /\ attempts[b].state = row.state
    BY <1>3, <1>4 DEF CommitCarting
  <2>3. new.state = "CARTING"
    BY <2>1 DEF AttemptRows
  <2> HIDE DEF new
  <2> QED
    BY <1>2, <2>1, <2>2, <2>3
<1>5. CASE CommitHeld(x)
  <2>1. b \in Attempts /\ row \in AttemptRows /\ transitionWorkflow(row.state, "CART_HELD") = "transitioned"
    BY <1>1, <1>3, <1>5 DEF CallSound, CommitHeld
  <2> DEFINE new == [row EXCEPT !.state = "CART_HELD"]
  <2>2. attempts' = [attempts EXCEPT ![b] = new] /\ attempts[b].state = row.state
    BY <1>3, <1>5 DEF CommitHeld
  <2>3. new.state = "CART_HELD"
    BY <2>1 DEF AttemptRows
  <2> HIDE DEF new
  <2> QED
    BY <1>2, <2>1, <2>2, <2>3
<1>6. CASE Move(x)
  <2>1. PICK to \in WorkflowStates : to = call[x].kind
    BY <1>1, <1>6 DEF CallSound, Move
  <2>2. b \in Attempts /\ row \in AttemptRows /\ transitionWorkflow(row.state, to) = "transitioned"
    BY <1>1, <1>3, <1>6, <2>1 DEF CallSound, Move
  <2> DEFINE new == [row EXCEPT !.state = to]
  <2>3. attempts' = [attempts EXCEPT ![b] = new] /\ attempts[b].state = row.state
    BY <1>3, <1>6, <2>1 DEF Move
  <2>4. new.state = to
    BY <2>2 DEF AttemptRows
  <2> HIDE DEF new
  <2> QED
    BY <2>2, <2>3, <2>4
<1> QED
  BY <1>4, <1>5, <1>6

LEMMA StepsFollow ==
    CartInv /\ [Next]_vars =>
        \A a \in Attempts : transitionWorkflow(attempts[a].state, attempts'[a].state) # "rejected"
<1> SUFFICES ASSUME CartInv, [Next]_vars, NEW a \in Attempts
             PROVE  transitionWorkflow(attempts[a].state, attempts'[a].state) # "rejected"
  OBVIOUS
<1>1. CASE attempts'[a].state = attempts[a].state
  BY <1>1 DEF transitionWorkflow
<1>2. CASE \E x \in Processes : (CommitCarting(x) \/ CommitHeld(x) \/ Move(x)) /\ attempts' # attempts
  <2> DEFINE Written(b, to, new) ==
                 /\ attempts' = [attempts EXCEPT ![b] = new] /\ new.state = to
                 /\ transitionWorkflow(attempts[b].state, to) = "transitioned"
  <2>a. PICK b \in Attempts, to \in WorkflowStates : \E new : Written(b, to, new)
    BY <1>2, WritesFollow
  <2>1. PICK new : Written(b, to, new)
    BY <2>a
  <2>2. attempts \in [Attempts -> AttemptRows]
    BY DEF CartInv, CartTypes
  <2>3. CASE a = b
    <3>1. attempts'[a].state = to
      BY <2>1, <2>2, <2>3
    <3> QED
      BY <2>1, <2>3, <3>1
  <2>4. CASE a # b
    <3>1. attempts'[a] = attempts[a]
      BY <2>1, <2>2, <2>4
    <3> QED
      BY <1>1, <3>1
  <2> QED
    BY <2>3, <2>4
<1>3. CASE attempts' = attempts
  BY <1>1, <1>3
<1>4. attempts' = attempts \/ \E x \in Processes : CommitCarting(x) \/ CommitHeld(x) \/ Move(x)
  <2>1. CASE UNCHANGED vars
    BY <2>1 DEF vars, rows
  <2>2. CASE (\E site \in Sites : Lands(site)) \/ CartChanges \/ RemoveLock
    BY <2>2 DEF Lands, CartChanges, RemoveLock, rows
  <2>3. ASSUME NEW x \in Processes,
               \/ StartCapture(x) \/ StartReconcile(x) \/ StartLook(x) \/ StartTransition(x)
               \/ Launch(x) \/ Prepare(x) \/ BeginCartCapture(x) \/ Recheck(x)
        PROVE  attempts' = attempts
    BY <2>3 DEF StartCapture, StartReconcile, StartLook, StartTransition, Launch, Prepare,
       BeginCartCapture, Recheck, rows
  <2>4. ASSUME NEW x \in Processes,
               \/ Act(x) \/ Verify(x) \/ RereadTarget(x) \/ Look(x) \/ Close(x)
               \/ CompleteCartCapture(x) \/ Crash(x) \/ StoreFails(x)
        PROVE  attempts' = attempts
    BY <2>4 DEF Act, Verify, RereadTarget, Look, Close, CompleteCartCapture, Crash, StoreFails, rows
  <2> QED
    BY <2>1, <2>2, <2>3, <2>4 DEF Next
<1> QED
  BY <1>2, <1>3, <1>4

\* However stale the row a process has read, an attempt only moves along the table
\* of transitionWorkflow.
THEOREM TableFollowed == Spec => AttemptsFollowTheTable
<1>1. Spec => []CartInv /\ [][Next]_vars
  BY CartInvariant, PTL DEF Spec
<1>2. CartInv /\ [Next]_vars =>
         [\A a \in Attempts : transitionWorkflow(attempts[a].state, attempts'[a].state) # "rejected"]_vars
  BY StepsFollow
<1> QED
  BY <1>1, <1>2, PTL DEF AttemptsFollowTheTable

-----------------------------------------------------------------------------
(* The readings of the cart, for every answer and every page.              *)

\* A cart answer that could be parsed; an entry may be Absent, if it was not.
CartPayloads(Entries) ==
    [account : BOOLEAN, expiresIn : Int, reservations : Seq(Entries) \cup {Absent},
     untimed : Seq(Entries) \cup {Absent}, modification : Seq(Entries)] \cup {Absent}

InspectionOf(payload, ui) ==
    inspectRecreationCartInSession([kind |-> "payload", payload |-> payload], ui, ours)

\* What is made of a cart that could be read.
ItemsOf(payload) ==
    [i \in DOMAIN Everything(payload) |->
        cartItemFromApi(Everything(payload)[i],
            IF Everything(payload) # <<>> /\ payload.expiresIn > 0 THEN "HELD" ELSE "IN_CART")]

Parsed(payload) == payload # Absent /\ apiCartItems(payload) # Absent

\* An answer is parsed or UNKNOWN.
LEMMA AnswerParsed ==
    ASSUME NEW payload
    PROVE  LET api == inspectRecreationCartApiPayload(payload, ours) IN
           /\ api.challenge = "NONE" /\ api.requested = ours
           /\ api.authentication
                  = IF payload # Absent /\ payload.account THEN "AUTHENTICATED" ELSE "UNKNOWN"
           /\ Parsed(payload) =>
                 /\ Readable(payload) /\ api.items = ItemsOf(payload)
                 /\ api.status = IF ItemsOf(payload) = <<>> THEN "EMPTY"
                                 ELSE classifyCartItems(ours, ItemsOf(payload))
           /\ ~ Parsed(payload) => api.status = "UNKNOWN"
<1>1. CASE payload = Absent
  BY <1>1 DEF inspectRecreationCartApiPayload, Inspection, Parsed
<1>2. CASE payload # Absent /\ apiCartItems(payload) = Absent
  BY <1>2 DEF inspectRecreationCartApiPayload, Inspection, Parsed
<1>3. CASE payload # Absent /\ apiCartItems(payload) # Absent
  <2>1. apiCartItems(payload) = Everything(payload) /\ Readable(payload)
    BY <1>3 DEF apiCartItems, Everything, Readable
  <2> QED
    BY <1>3, <2>1 DEF inspectRecreationCartApiPayload, Inspection, Parsed, ItemsOf
<1> QED
  BY <1>1, <1>2, <1>3

\* The page is held against what was parsed.
LEMMA AnswerCompared ==
    ASSUME NEW payload, NEW ui
    PROVE  LET api == inspectRecreationCartApiPayload(payload, ours)
               inspection == InspectionOf(payload, ui)
           IN  /\ inspection.challenge = "NONE" /\ inspection.requested = ours
               /\ inspection.items = api.items
               /\ inspection.status = IF uiContradictsApi(api, ui) THEN "UNKNOWN" ELSE api.status
               /\ inspection.authentication \in {"AUTHENTICATED", "NOT_AUTHENTICATED", "UNKNOWN"}
               /\ inspection.authentication = "AUTHENTICATED"
                      <=> payload # Absent /\ payload.account
<1> DEFINE api == inspectRecreationCartApiPayload(payload, ours)
<1> DEFINE shown == detectAuthenticationState(ui.glances)
<1>1. InspectionOf(payload, ui) =
          [api EXCEPT
              !.status = IF uiContradictsApi(api, ui) THEN "UNKNOWN" ELSE @,
              !.authentication = IF @ = "UNKNOWN" /\ shown = "NOT_AUTHENTICATED" THEN shown ELSE @]
  BY DEF InspectionOf, inspectRecreationCartInSession
<1>2. DOMAIN api = {"status", "authentication", "challenge", "requested", "items"}
  BY DEF inspectRecreationCartApiPayload, Inspection
<1>3. /\ api.challenge = "NONE" /\ api.requested = ours
      /\ api.authentication = IF payload # Absent /\ payload.account THEN "AUTHENTICATED" ELSE "UNKNOWN"
  BY AnswerParsed
<1> HIDE DEF api, shown
<1>4. /\ InspectionOf(payload, ui).challenge = api.challenge
      /\ InspectionOf(payload, ui).requested = api.requested
      /\ InspectionOf(payload, ui).items = api.items
      /\ InspectionOf(payload, ui).status = IF uiContradictsApi(api, ui) THEN "UNKNOWN" ELSE api.status
      /\ InspectionOf(payload, ui).authentication
             = IF api.authentication = "UNKNOWN" /\ shown = "NOT_AUTHENTICATED" THEN shown
               ELSE api.authentication
  BY <1>1, <1>2
<1> QED
  BY <1>3, <1>4 DEF api

\* The length of what is read.
LEMMA ItemsCounted ==
    ASSUME NEW Entries, NEW payload \in CartPayloads(Entries), Parsed(payload)
    PROVE  LET raw == Everything(payload)
               items == ItemsOf(payload)
           IN  /\ raw \in Seq(Entries) /\ DOMAIN raw = 1 .. Len(raw)
               /\ DOMAIN items = 1 .. Len(raw) /\ Len(items) = Len(raw)
               /\ items = <<>> <=> raw = <<>>
               /\ Len(raw) = 1 =>
                     \E hold \in {"HELD", "IN_CART"} : items[1] = cartItemFromApi(raw[1], hold)
<1> DEFINE raw == Everything(payload)
<1> DEFINE items == ItemsOf(payload)
<1>1. /\ payload.reservations \in Seq(Entries) /\ payload.untimed \in Seq(Entries)
      /\ payload.modification \in Seq(Entries)
  BY AnswerParsed DEF CartPayloads, Parsed, Readable
<1>2. raw \in Seq(Entries)
  BY <1>1 DEF Everything
<1>3. DOMAIN raw = 1 .. Len(raw) /\ Len(raw) \in Nat /\ (Len(raw) = 0 <=> raw = <<>>)
  BY <1>2
<1> DEFINE hold == IF raw # <<>> /\ payload.expiresIn > 0 THEN "HELD" ELSE "IN_CART"
<1>4. items = [i \in 1 .. Len(raw) |-> cartItemFromApi(raw[i], hold)]
  BY <1>3 DEF ItemsOf
<1>5. hold \in {"HELD", "IN_CART"}
  OBVIOUS
<1> HIDE DEF raw, items, hold
<1>6. items \in Seq({cartItemFromApi(raw[i], hold) : i \in 1 .. Len(raw)}) /\ Len(items) = Len(raw)
  BY <1>3, <1>4
<1>7. items = <<>> <=> raw = <<>>
  BY <1>3, <1>6
<1>8. Len(raw) = 1 => items[1] = cartItemFromApi(raw[1], hold)
  BY <1>4
<1> QED
  BY <1>2, <1>3, <1>4, <1>5, <1>6, <1>7, <1>8 DEF raw, items

LEMMA StayCounted == Stay(ours) = Departure - Arrival /\ Stay(ours) # 0
<1>1. Arrival \in Int /\ Departure - 1 \in Int /\ Arrival <= Departure - 1
  BY QuestionAssumption DEF QuestionAssumption
<1>2. Cardinality(Arrival .. Departure - 1) = Departure - Arrival
  BY <1>1, FS_Interval, QuestionAssumption DEF QuestionAssumption
<1> QED
  BY <1>1, <1>2, QuestionAssumption DEF Stay, ours, TargetOf, calendarDatesForStay, QuestionAssumption

\* What an exact match must have been, and what the page has not said.
IsTheTarget(payload, ui) ==
    /\ Readable(payload) /\ payload.account /\ Len(Everything(payload)) = 1
    /\ LET raw == Everything(payload)[1] IN
       /\ raw.campgroundId = "ours" /\ raw.siteId = s1
       /\ raw.arrival = Arrival /\ raw.departure = Departure
       /\ raw.nights \in {Absent, Departure - Arrival}
    /\ cartUiState(ui) # "EMPTY" /\ (cartUiState(ui) = "ITEMS" => ui.items = 1)

\* Whatever is in the cart and whatever its page shows, an exact match is one item,
\* the target, and nothing in another list, seen by a signed-in account, and
\* the page does not say otherwise (inspectRecreationCartInSession,
\* cartInspectionExactlyMatches).
THEOREM MatchIsTheTarget ==
    ASSUME NEW Entries, NEW payload \in CartPayloads(Entries), NEW ui,
           cartInspectionExactlyMatches(InspectionOf(payload, ui), ours)
    PROVE  IsTheTarget(payload, ui)
<1> DEFINE inspection == InspectionOf(payload, ui)
<1> DEFINE api == inspectRecreationCartApiPayload(payload, ours)
<1> DEFINE raw == Everything(payload)
<1> DEFINE items == ItemsOf(payload)
<1>1. /\ inspection.status = "EXACT_MATCH" /\ inspection.authentication = "AUTHENTICATED"
      /\ Len(inspection.items) = 1
      /\ \A f \in TargetFields : inspection.items[1][f] = ours[f]
      /\ inspection.items[1].numberOfNights = Stay(ours)
  BY DEF cartInspectionExactlyMatches
<1>2. ~ uiContradictsApi(api, ui) /\ api.status = "EXACT_MATCH"
  BY <1>1, AnswerCompared
<1>3. Parsed(payload) /\ Readable(payload) /\ payload.account /\ api.items = items
  BY <1>1, <1>2, AnswerParsed, AnswerCompared
<1>4. Len(items) = 1 /\ Len(raw) = 1 /\ items # <<>>
  BY <1>1, <1>3, AnswerCompared, ItemsCounted
<1>5. PICK hold \in {"HELD", "IN_CART"} : items[1] = cartItemFromApi(raw[1], hold)
  BY <1>3, <1>4, ItemsCounted
<1>6. inspection.items[1] = items[1]
  BY <1>3, AnswerCompared
<1> HIDE DEF inspection, api, raw, items
<1>7. /\ raw[1].campgroundId = "ours" /\ raw[1].siteId = s1
      /\ raw[1].arrival = Arrival /\ raw[1].departure = Departure
  BY <1>1, <1>5, <1>6 DEF cartItemFromApi, TargetFields, IdentityFields, ours, TargetOf
<1>8. raw[1].nights # Absent => raw[1].nights = Stay(ours)
  BY <1>1, <1>5, <1>6 DEF cartItemFromApi
<1>9. cartUiState(ui) # "EMPTY" /\ (cartUiState(ui) = "ITEMS" => ui.items = 1)
  BY <1>2, <1>3, <1>4 DEF uiContradictsApi
<1> QED
  BY <1>3, <1>4, <1>7, <1>8, <1>9, StayCounted DEF IsTheTarget, raw

\* Only an empty cart of a signed-in account, with no challenge, is no failure.
LEMMA NoFailureIsEmpty ==
    ASSUME NEW inspection, cartInspectionFailure(inspection, ours) = None
    PROVE  /\ inspection.status = "EMPTY"
           /\ inspection.authentication \notin {"NOT_AUTHENTICATED", "UNKNOWN"}
           /\ inspection.challenge \notin {"HUMAN_VERIFICATION_REQUIRED", "UNKNOWN"}
<1>1. \A failure \in Failures : failure # None
  BY QuestionAssumption DEF QuestionAssumption
<1>2. /\ "AUTH_REQUIRED" # None /\ "AUTH_UNKNOWN" # None /\ "HUMAN_VERIFICATION_REQUIRED" # None
      /\ "CHALLENGE_UNKNOWN" # None /\ "CART_ALREADY_CONTAINS_TARGET" # None
      /\ "CART_NOT_EMPTY" # None /\ "CART_CONFLICT" # None /\ "CART_STRUCTURE_UNKNOWN" # None
  BY <1>1 DEF Failures
<1> QED
  BY <1>2 DEF cartInspectionFailure

IsEmptied(payload, ui) ==
    /\ Readable(payload) /\ payload.account /\ Everything(payload) = <<>>
    /\ cartUiState(ui) # "ITEMS"

\* Whatever is in the cart and whatever its page shows, a cart that is no reason to
\* stop has nothing in any list, belongs to a signed-in account, and its page
\* shows no item (inspectRecreationCartInSession, cartInspectionFailure).
THEOREM EmptyIsEmpty ==
    ASSUME NEW Entries, NEW payload \in CartPayloads(Entries), NEW ui,
           cartInspectionFailure(InspectionOf(payload, ui), ours) = None
    PROVE  IsEmptied(payload, ui)
<1> DEFINE inspection == InspectionOf(payload, ui)
<1> DEFINE api == inspectRecreationCartApiPayload(payload, ours)
<1> DEFINE items == ItemsOf(payload)
<1>1. inspection.status = "EMPTY" /\ inspection.authentication = "AUTHENTICATED"
  BY NoFailureIsEmpty, AnswerCompared
<1>2. ~ uiContradictsApi(api, ui) /\ api.status = "EMPTY"
  BY <1>1, AnswerCompared
<1>3. Parsed(payload) /\ Readable(payload) /\ payload.account
  BY <1>1, <1>2, AnswerParsed, AnswerCompared
<1>4. items = <<>>
  <2>1. classifyCartItems(ours, items) # "EMPTY"
    BY DEF classifyCartItems
  <2> QED
    BY <1>2, <1>3, <2>1, AnswerParsed
<1>5. Everything(payload) = <<>>
  BY <1>3, <1>4, ItemsCounted
<1>6. cartUiState(ui) # "ITEMS"
  BY <1>2 DEF uiContradictsApi
<1> QED
  BY <1>3, <1>5, <1>6 DEF IsEmptied

\* A signed-in reading that is called EXACT_MATCH is never refused as evidence:
\* what classifyCartItems compares and what cartInspectionExactlyMatches
\* compares again are the same.
THEOREM MatchIsEvidence ==
    ASSUME NEW Entries, NEW payload \in CartPayloads(Entries), NEW ui,
           InspectionOf(payload, ui).status = "EXACT_MATCH",
           InspectionOf(payload, ui).authentication = "AUTHENTICATED"
    PROVE  cartInspectionExactlyMatches(InspectionOf(payload, ui), ours)
<1> DEFINE inspection == InspectionOf(payload, ui)
<1> DEFINE api == inspectRecreationCartApiPayload(payload, ours)
<1> DEFINE raw == Everything(payload)
<1> DEFINE items == ItemsOf(payload)
<1>1. api.status = "EXACT_MATCH" /\ inspection.items = api.items
  BY AnswerCompared
<1>2. Parsed(payload) /\ api.items = items
  BY <1>1, AnswerParsed
<1>3. items # <<>> /\ classifyCartItems(ours, items) = "EXACT_MATCH"
  BY <1>1, <1>2, AnswerParsed
<1>4. /\ ~ Len(items) > 1
      /\ \A f \in TargetFields : items[1][f] \in {Absent, ours[f]} /\ items[1][f] # Absent
      /\ items[1].numberOfNights = Stay(ours)
  <2> HIDE DEF items
  <2> QED
    BY <1>3 DEF classifyCartItems
<1>5. /\ raw \in Seq(Entries) /\ Len(items) = Len(raw) /\ (items = <<>> <=> raw = <<>>)
      /\ Len(raw) = 1 => \E hold \in {"HELD", "IN_CART"} : items[1] = cartItemFromApi(raw[1], hold)
  BY <1>2, ItemsCounted
<1> HIDE DEF items, raw
<1>6. Len(items) = 1 /\ Len(raw) = 1
  BY <1>3, <1>4, <1>5
<1>7. items[1].holdStatus \in {"IN_CART", "HELD"}
  BY <1>5, <1>6 DEF cartItemFromApi
<1> QED
  BY <1>1, <1>2, <1>4, <1>6, <1>7, AnswerCompared DEF cartInspectionExactlyMatches

-----------------------------------------------------------------------------
(* The readiness of a session, for every page and every answer.            *)

LEMMA ChallengeRead ==
    ASSUME NEW moment
    PROVE  /\ detectChallengeState(moment) \in {"HUMAN_VERIFICATION_REQUIRED", "NONE", "UNKNOWN"}
           /\ detectChallengeState(moment) # "HUMAN_VERIFICATION_REQUIRED" => ~ moment.challenge
  BY DEF detectChallengeState

\* Every label that is used was read, and is of its day.
LEMMA LabelsRead ==
    ASSUME NEW calendar
    PROVE  LET labels == observeRequestedCalendarDates(calendar, Arrival, Departure) IN
           \A d \in DOMAIN labels :
               labels[d] = labelForDate(calendar, d) /\ labelForDate(calendar, d) # Absent
  BY DEF observeRequestedCalendarDates

\* What is available has the label that says so.
LEMMA AvailableIsLabelled ==
    ASSUME NEW labels, summarizeAvailability(Arrival, Departure, labels).overall = "AVAILABLE"
    PROVE  \A d \in Arrival .. Departure - 1 : d \in DOMAIN labels /\ labels[d] = "Available"
<1> DEFINE nights == [d \in Arrival .. Departure - 1 |->
                         IF d \in DOMAIN labels THEN statusFromLabel(labels[d]) ELSE "UNKNOWN"]
<1> DEFINE available == {d \in DOMAIN nights : nights[d] = "AVAILABLE"}
<1>1. available = DOMAIN nights
  <2>1. summarizeAvailability(Arrival, Departure, labels).overall
            = IF DOMAIN nights = {} \/ \E d \in DOMAIN nights : nights[d] = "UNKNOWN"
              THEN "UNKNOWN"
              ELSE IF available = DOMAIN nights THEN "AVAILABLE"
              ELSE IF available = {} THEN "UNAVAILABLE" ELSE "PARTIALLY_AVAILABLE"
    BY DEF summarizeAvailability, calendarDatesForStay
  <2> HIDE DEF nights, available
  <2> QED
    BY <2>1
<1> SUFFICES ASSUME NEW d \in Arrival .. Departure - 1
             PROVE  d \in DOMAIN labels /\ labels[d] = "Available"
  OBVIOUS
<1>2. nights[d] = "AVAILABLE"
  BY <1>1
<1>3. d \in DOMAIN labels /\ statusFromLabel(labels[d]) = "AVAILABLE"
  BY <1>2
<1> QED
  BY <1>3 DEF statusFromLabel

\* One label, that all the controls of the day agree on.
LEMMA LabelIsAgreed ==
    ASSUME NEW calendar, NEW d, IsFiniteSet(LabelsOf(calendar, d)), labelForDate(calendar, d) # Absent
    PROVE  LabelsOf(calendar, d) = {labelForDate(calendar, d)}
<1> DEFINE labels == LabelsOf(calendar, d)
<1>1. Cardinality(labels) = 1 /\ labelForDate(calendar, d) = CHOOSE label \in labels : TRUE
  BY DEF labelForDate
<1> HIDE DEF labels
<1>2. \E label : labels = {label}
  BY <1>1, FS_Singleton DEF labels
<1> QED
  BY <1>1, <1>2 DEF labels

LEMMA LinkIsTheOne ==
    ASSUME NEW page, IsFiniteSet(page.links), readCampgroundLink(page) # Absent
    PROVE  {link.id : link \in page.links} = {readCampgroundLink(page)}
<1>1. /\ Cardinality(page.links) = 1
      /\ readCampgroundLink(page) = (CHOOSE link \in page.links : TRUE).id
  BY DEF readCampgroundLink
<1>2. PICK link : page.links = {link}
  BY <1>1, FS_Singleton
<1> QED
  BY <1>1, <1>2

LabelsOn(page) == observeRequestedCalendarDates(page.calendar, Arrival, Departure)

\* What an observation that matches and is available has seen.
LEMMA MatchWasSeen ==
    ASSUME NEW page,
           LET observation == observeRecreationMissionTargetOnPage(page, ours) IN
           /\ observation.challenge = "NONE" /\ observation.targetMatch = "MATCH"
           /\ observation.availability.overall = "AVAILABLE"
    PROVE  /\ page.siteId = s1 /\ readCampgroundLink(page) = "ours" /\ readCampgroundLink(page) # Absent
           /\ ~ page.before.challenge /\ ~ page.after.challenge
           /\ summarizeAvailability(Arrival, Departure, LabelsOn(page)).overall = "AVAILABLE"
           /\ Departure \in DOMAIN LabelsOn(page)
<1> DEFINE observation == observeRecreationMissionTargetOnPage(page, ours)
<1> DEFINE authentication == detectAuthenticationState(page.glances)
<1> DEFINE identity == [f \in TargetFields |->
                           IF f \in IdentityFields THEN readObservedTarget(page)[f] ELSE Absent]
<1> DEFINE labels == observeRequestedCalendarDates(page.calendar, ours.arrival, ours.departure)
<1> DEFINE Day(d) == IF d \in DOMAIN labels THEN d ELSE Absent
<1> DEFINE observed == [identity EXCEPT !.arrival = Day(ours.arrival), !.departure = Day(ours.departure)]
<1> DEFINE summary == summarizeAvailability(ours.arrival, ours.departure, labels)
<1>1. ours.arrival = Arrival /\ ours.departure = Departure /\ ours.siteId = s1 /\ ours.campgroundId = "ours"
  BY DEF ours, TargetOf
<1>2. labels = LabelsOn(page) /\ summary = summarizeAvailability(Arrival, Departure, LabelsOn(page))
  BY <1>1 DEF LabelsOn
<1>3. /\ detectChallengeState(page.before) # "HUMAN_VERIFICATION_REQUIRED"
      /\ detectChallengeState(page.after) # "HUMAN_VERIFICATION_REQUIRED"
      /\ observation = Observation(ours, "NONE", authentication, observed, summary)
  <2>1. observation.challenge = "NONE" /\ observation.availability.overall = "AVAILABLE"
    OBVIOUS
  <2>2. ASSUME NEW challenge, NEW authenticated, NEW seen
        PROVE  Observation(ours, challenge, authenticated, seen, unknownAvailability).availability.overall
                   = "UNKNOWN"
    BY DEF Observation, unknownAvailability
  <2>3. \/ observation = [challenge |-> "failed"]
        \/ observation = Observation(ours, "HUMAN_VERIFICATION_REQUIRED", "UNKNOWN", NothingObserved,
                                     unknownAvailability)
        \/ observation = Observation(ours, "NONE", authentication, identity, unknownAvailability)
        \/ /\ detectChallengeState(page.before) # "HUMAN_VERIFICATION_REQUIRED"
           /\ detectChallengeState(page.after) # "HUMAN_VERIFICATION_REQUIRED"
           /\ observation = Observation(ours, "NONE", authentication, observed, summary)
    <3> HIDE DEF authentication, summary
    <3> QED
      BY DEF observeRecreationMissionTargetOnPage, summary, authentication
  <2> HIDE DEF observation, identity, observed, labels, summary, authentication
  <2> QED
    BY <2>1, <2>2, <2>3
<1> HIDE DEF observation, labels, summary, authentication
<1>4. /\ observation.targetMatch = verifyRecreationTarget(ours, observed)
      /\ observation.availability = summary
  BY <1>3 DEF Observation
<1>5. \A f \in TargetFields : observed[f] # Absent /\ observed[f] = ours[f]
  <2>1. verifyRecreationTarget(ours, observed) = "MATCH"
    BY <1>4 DEF observation
  <2> HIDE DEF observed
  <2> QED
    BY <2>1 DEF verifyRecreationTarget, Mismatches
<1>6. /\ observed.siteId = page.siteId /\ observed.campgroundId = readCampgroundLink(page)
      /\ observed.departure = Day(ours.departure)
  BY DEF TargetFields, IdentityFields, readObservedTarget
<1>7. page.siteId = s1 /\ readCampgroundLink(page) = "ours" /\ readCampgroundLink(page) # Absent
      /\ Departure \in DOMAIN labels
  <2> HIDE DEF observed
  <2> QED
    BY <1>1, <1>5, <1>6 DEF TargetFields, IdentityFields
<1> QED
  BY <1>2, <1>3, <1>4, <1>7, ChallengeRead DEF observation

\* Nothing but the selection of the dates is left to fail.
LEMMA OnlyDatesAreLeft ==
    ASSUME NEW evidence, readinessFailure(evidence, ours) \in {None, "DATES_UNKNOWN"}
    PROVE  /\ cartInspectionFailure(evidence.cart, ours) = None
           /\ evidence.observation.challenge \notin {"HUMAN_VERIFICATION_REQUIRED", "UNKNOWN"}
           /\ evidence.observation.targetMatch = "MATCH"
           /\ evidence.observation.availability.overall = "AVAILABLE"
           /\ readinessFailure(evidence, ours) = None => evidence.dateSelection = "VERIFIED"
<1> DEFINE observed == preflightFailure(evidence.observation, evidence.authentication, ours)
<1> DEFINE carted == cartInspectionFailure(evidence.cart, ours)
<1>1. \A failure \in Failures : failure # None
  BY QuestionAssumption DEF QuestionAssumption
<1>2. /\ "AUTH_REQUIRED" # None /\ "AUTH_UNKNOWN" # None /\ "HUMAN_VERIFICATION_REQUIRED" # None
      /\ "CHALLENGE_UNKNOWN" # None /\ "DATES_MISMATCH" # None /\ "TARGET_MISMATCH" # None
      /\ "TARGET_UNKNOWN" # None /\ "AVAILABILITY_UNKNOWN" # None
      /\ "AVAILABILITY_NOT_AVAILABLE" # None /\ "DATES_UNKNOWN" # None
  BY <1>1 DEF Failures
<1>3. observed # "DATES_UNKNOWN" /\ carted # "DATES_UNKNOWN"
  <2>1. observed # "DATES_UNKNOWN"
    BY <1>2 DEF preflightFailure
  <2>2. carted # "DATES_UNKNOWN"
    BY <1>2 DEF cartInspectionFailure
  <2> QED
    BY <2>1, <2>2
<1>4. observed = None =>
        /\ evidence.observation.challenge \notin {"HUMAN_VERIFICATION_REQUIRED", "UNKNOWN"}
        /\ evidence.observation.targetMatch = "MATCH"
        /\ evidence.observation.availability.overall = "AVAILABLE"
  BY <1>2 DEF preflightFailure
<1>5. readinessFailure(evidence, ours)
          = IF observed # None THEN observed ELSE IF carted # None THEN carted
            ELSE IF evidence.dateSelection = "VERIFIED" THEN None
            ELSE IF evidence.dateSelection = "HUMAN_VERIFICATION_REQUIRED" THEN evidence.dateSelection
            ELSE "DATES_UNKNOWN"
  BY DEF readinessFailure
<1> HIDE DEF observed, carted
<1>6. observed = None /\ carted = None
  BY <1>3, <1>5
<1>7. readinessFailure(evidence, ours) = None => evidence.dateSelection = "VERIFIED"
  BY <1>2, <1>5, <1>6
<1> QED
  BY <1>4, <1>6, <1>7 DEF carted

\* An empty cart is read of a payload.
LEMMA EmptyIsAPayload ==
    ASSUME NEW response, NEW ui, inspectRecreationCartInSession(response, ui, ours).status = "EMPTY"
    PROVE  /\ response.kind \notin {"failed", "none", "refused", "error"}
           /\ inspectRecreationCartInSession(response, ui, ours) = InspectionOf(response.payload, ui)
  BY DEF inspectRecreationCartInSession, InspectionOf, Inspection

EvidenceOf(page, response, ui) == inspectReadinessInSession(page, response, ui, ours)

\* A session from which at most the dates are missing has observed the page, read
\* the cart, and tried to select the stay.
LEMMA EverythingWasRead ==
    ASSUME NEW page, NEW response, NEW ui, ~ EvidenceOf(page, response, ui).failed,
           readinessFailure(EvidenceOf(page, response, ui), ours) \in {None, "DATES_UNKNOWN"}
    PROVE  LET evidence == EvidenceOf(page, response, ui)
               observation == observeRecreationMissionTargetOnPage(page, ours)
               read == inspectRecreationCartInSession(response, ui, ours)
           IN  /\ evidence.observation = observation /\ evidence.cart = read
               /\ observation.challenge = "NONE" /\ observation.targetMatch = "MATCH"
               /\ observation.availability.overall = "AVAILABLE"
               /\ cartInspectionFailure(read, ours) = None
               /\ evidence.dateSelection = DateSelection(observation, read, page, ours)
<1> DEFINE evidence == EvidenceOf(page, response, ui)
<1> DEFINE observation == observeRecreationMissionTargetOnPage(page, ours)
<1> DEFINE read == inspectRecreationCartInSession(response, ui, ours)
<1> DEFINE selection == DateSelection(observation, read, page, ours)
<1>1. observation.challenge \in {"failed", "HUMAN_VERIFICATION_REQUIRED", "NONE"}
  BY DEF observeRecreationMissionTargetOnPage, Observation
<1>2. \/ evidence = [failed |-> TRUE]
      \/ evidence.observation = observation /\ observation.challenge \notin {"failed", "NONE"}
      \/ /\ evidence.observation = observation /\ evidence.cart = read
         /\ evidence.dateSelection = selection /\ observation.challenge = "NONE"
  <2> HIDE DEF observation, read, selection
  <2> QED
    BY DEF EvidenceOf, inspectReadinessInSession, observation, read, selection
<1>3. ~ evidence.failed /\ readinessFailure(evidence, ours) \in {None, "DATES_UNKNOWN"}
  OBVIOUS
<1> HIDE DEF evidence, observation, read, selection
<1>4. /\ evidence.observation.challenge # "HUMAN_VERIFICATION_REQUIRED"
      /\ evidence.observation.targetMatch = "MATCH"
      /\ evidence.observation.availability.overall = "AVAILABLE"
      /\ cartInspectionFailure(evidence.cart, ours) = None
  BY <1>3, OnlyDatesAreLeft
<1>5. evidence # [failed |-> TRUE]
  BY <1>3
<1> QED
  BY <1>1, <1>2, <1>4, <1>5 DEF evidence, observation, read, selection

\* What a session that may go on has seen.
WasSeen(page, response, ui) ==
    /\ page.siteId = s1 /\ {link.id : link \in page.links} = {"ours"}
    /\ \A d \in Arrival .. Departure - 1 : LabelsOf(page.calendar, d) = {"Available"}
    /\ LabelsOf(page.calendar, Departure) # {}
    /\ \E stay \in {page.stay, page.stayAfter} : selectedStayMatches(stay, ours)
    /\ ~ page.before.challenge /\ ~ page.after.challenge
    /\ response.kind \notin {"failed", "none", "refused", "error"}
    /\ cartInspectionFailure(InspectionOf(response.payload, ui), ours) = None

\* Whatever a page shows and the cart answers, a session that may go on has seen the
\* requested campsite and its one campground, every night Available under every
\* label that names it, the departure day, the stay selected, a cart that is no
\* reason to stop (EmptyIsEmpty says of which that is), and no challenge
\* (inspectReadinessInSession, readinessFailure).
THEOREM ReadyWasSeen ==
    ASSUME NEW page, IsFiniteSet(page.links), IsFiniteSet(page.calendar.controls),
           NEW response, NEW ui, ~ EvidenceOf(page, response, ui).failed,
           readinessFailure(EvidenceOf(page, response, ui), ours) = None
    PROVE  WasSeen(page, response, ui)
<1> DEFINE evidence == EvidenceOf(page, response, ui)
<1> DEFINE observation == observeRecreationMissionTargetOnPage(page, ours)
<1> DEFINE read == inspectRecreationCartInSession(response, ui, ours)
<1> DEFINE labels == LabelsOn(page)
<1>1. /\ observation.challenge = "NONE" /\ observation.targetMatch = "MATCH"
      /\ observation.availability.overall = "AVAILABLE"
      /\ cartInspectionFailure(read, ours) = None
      /\ evidence.dateSelection = DateSelection(observation, read, page, ours)
  BY EverythingWasRead
<1>2. /\ page.siteId = s1 /\ readCampgroundLink(page) = "ours" /\ readCampgroundLink(page) # Absent
      /\ ~ page.before.challenge /\ ~ page.after.challenge
      /\ summarizeAvailability(Arrival, Departure, labels).overall = "AVAILABLE"
      /\ Departure \in DOMAIN labels
  BY <1>1, MatchWasSeen
<1>3. {link.id : link \in page.links} = {"ours"}
  BY <1>2, LinkIsTheOne
<1>4. ASSUME NEW d \in DOMAIN labels
      PROVE  LabelsOf(page.calendar, d) = {labels[d]}
  <2>1. IsFiniteSet(LabelsOf(page.calendar, d))
    <3> DEFINE Of(kind) == {k \in page.calendar.controls : k.kind = kind /\ k.date = d}
    <3> DEFINE LabelsIn(kind) == {c.label : c \in Of(kind)}
    <3>1. ASSUME NEW kind PROVE IsFiniteSet(LabelsIn(kind))
      <4>1. IsFiniteSet(Of(kind))
        BY FS_Subset
      <4> HIDE DEF Of
      <4> DEFINE label == [c \in Of(kind) |-> c.label]
      <4>2. label \in Surjection(Of(kind), LabelsIn(kind))
        BY DEF Surjection
      <4> QED
        BY <4>1, <4>2, FS_Surjection
    <3>2. LabelsOf(page.calendar, d)
              = IF LabelsIn("button") # {} THEN LabelsIn("button") ELSE LabelsIn("gridcell")
      BY DEF LabelsOf
    <3> HIDE DEF LabelsIn
    <3> QED
      BY <3>1, <3>2
  <2>2. labels[d] = labelForDate(page.calendar, d) /\ labelForDate(page.calendar, d) # Absent
    BY <1>4, LabelsRead DEF LabelsOn
  <2> QED
    BY <2>1, <2>2, LabelIsAgreed
<1>5. \A d \in Arrival .. Departure - 1 : d \in DOMAIN labels /\ labels[d] = "Available"
  BY <1>2, AvailableIsLabelled
<1> HIDE DEF labels
<1>6. /\ \A d \in Arrival .. Departure - 1 : LabelsOf(page.calendar, d) = {"Available"}
      /\ LabelsOf(page.calendar, Departure) # {}
  BY <1>2, <1>4, <1>5
<1>7. evidence.dateSelection = "VERIFIED"
  BY OnlyDatesAreLeft
<1>8. selectExactStay(page, page.calendar.first, ours)
  <2> HIDE DEF observation, read, evidence
  <2>1. DateSelection(observation, read, page, ours) = "VERIFIED"
    BY <1>1, <1>7
  <2> QED
    BY <2>1 DEF DateSelection
<1>9. \E stay \in {page.stay, page.stayAfter} : selectedStayMatches(stay, ours)
  BY <1>8 DEF selectExactStay
<1>10. /\ response.kind \notin {"failed", "none", "refused", "error"}
       /\ cartInspectionFailure(InspectionOf(response.payload, ui), ours) = None
  BY <1>1, NoFailureIsEmpty, EmptyIsAPayload
<1> QED
  BY <1>2, <1>3, <1>6, <1>9, <1>10 DEF WasSeen

\* Whoever is refused is told why: a selection that was never tried is not given as
\* the reason, and lets nobody on (the gate of the date selection in
\* inspectReadinessInSession and readinessFailure test the same in two places).
THEOREM SkippedIsNotTheReason ==
    ASSUME NEW page, NEW response, NEW ui, ~ EvidenceOf(page, response, ui).failed,
           EvidenceOf(page, response, ui).dateSelection = "SKIPPED"
    PROVE  readinessFailure(EvidenceOf(page, response, ui), ours) \notin {None, "DATES_UNKNOWN"}
<1> SUFFICES ASSUME readinessFailure(EvidenceOf(page, response, ui), ours) \in {None, "DATES_UNKNOWN"}
             PROVE  FALSE
  OBVIOUS
<1> DEFINE observation == observeRecreationMissionTargetOnPage(page, ours)
<1> DEFINE read == inspectRecreationCartInSession(response, ui, ours)
<1>1. /\ observation.challenge = "NONE" /\ observation.targetMatch = "MATCH"
      /\ observation.availability.overall = "AVAILABLE"
      /\ cartInspectionFailure(read, ours) = None
      /\ DateSelection(observation, read, page, ours) = "SKIPPED"
  BY EverythingWasRead
<1>2. /\ read.status = "EMPTY" /\ read.authentication \notin {"NOT_AUTHENTICATED", "UNKNOWN"}
  BY <1>1, NoFailureIsEmpty
<1>3. read = InspectionOf(response.payload, ui)
  BY <1>2, EmptyIsAPayload
<1>4. read.authentication = "AUTHENTICATED" /\ read.challenge = "NONE"
  BY <1>2, <1>3, AnswerCompared
<1> HIDE DEF observation, read
<1>5. detectChallengeState(page.after) # "SKIPPED"
  BY ChallengeRead
<1> QED
  BY <1>1, <1>2, <1>4, <1>5 DEF DateSelection, combinedAuthentication

-----------------------------------------------------------------------------
(* The search of the calendar, for every calendar and month.               *)

Following(c, month, first) == IF month > first + c.shown - 1 THEN first + 1 ELSE first - 1

\* One look at the months shown, and what the rest of the search makes of it.
Looked(c, month, n, first, rest) ==
    IF n > MaxMovements THEN [found |-> FALSE, first |-> first]
    ELSE IF month \in first .. first + c.shown - 1 THEN [found |-> TRUE, first |-> first]
    ELSE IF Following(c, month, first) \notin c.months THEN [found |-> FALSE, first |-> first]
    ELSE rest

IsSearch(search, c, month) ==
    search = [n \in 0 .. MaxMovements + 1 |->
                 [first \in c.months |->
                     Looked(c, month, n, first, search[n + 1][Following(c, month, first)])]]

LEMMA MoveIsASearch ==
    ASSUME NEW c, NEW from, NEW month
    PROVE  moveCalendarToMonth(c, from, month) = (CHOOSE search : IsSearch(search, c, month))[0][from]
  BY DEF moveCalendarToMonth, IsSearch, Looked, Following

\* A calendar of months without a gap, of which it shows one or more.
Calendar(c, lowest, last) ==
    /\ lowest \in Int /\ last \in Int /\ lowest <= last
    /\ c.months = lowest .. last /\ c.shown \in Nat \ {0}

\* Where the search would end with movements without number, how far that is, and
\* what it comes to with those that are left.
Reach(c, month, lowest, last, first) ==
    IF month > first + c.shown - 1
    THEN IF month - c.shown + 1 <= last THEN month - c.shown + 1 ELSE last
    ELSE IF month < first THEN IF month >= lowest THEN month ELSE lowest
    ELSE first

EndedAt(reach, found, n, first) ==
    LET left == MaxMovements + 1 - n
        far == IF reach >= first THEN reach - first ELSE first - reach
    IN  IF far < left THEN [found |-> found, first |-> reach]
        ELSE [found |-> FALSE, first |-> IF reach >= first THEN first + left ELSE first - left]

Ended(c, month, lowest, last, n, first) ==
    LET reach == Reach(c, month, lowest, last, first) IN
    EndedAt(reach, IF month \in reach .. reach + c.shown - 1 THEN TRUE ELSE FALSE, n, first)

LEMMA EndedSteps ==
    ASSUME NEW reach \in Int, NEW first \in Int, NEW n \in 0 .. MaxMovements + 1, NEW found
    PROVE  /\ n > MaxMovements => EndedAt(reach, found, n, first) = [found |-> FALSE, first |-> first]
           /\ ~ (n > MaxMovements) /\ reach = first =>
                 EndedAt(reach, found, n, first) = [found |-> found, first |-> reach]
           /\ ~ (n > MaxMovements) /\ reach > first =>
                 EndedAt(reach, found, n, first) = EndedAt(reach, found, n + 1, first + 1)
           /\ ~ (n > MaxMovements) /\ reach < first =>
                 EndedAt(reach, found, n, first) = EndedAt(reach, found, n + 1, first - 1)
<1>1. MaxMovements \in Int /\ n \in Int /\ 0 <= n /\ n <= MaxMovements + 1
  BY QuestionAssumption DEF QuestionAssumption
<1> DEFINE left == MaxMovements + 1 - n
<1> DEFINE later == MaxMovements + 1 - (n + 1)
<1> DEFINE Comes(m, from, rest) ==
        EndedAt(reach, found, m, from)
            = IF (IF reach >= from THEN reach - from ELSE from - reach) < rest
              THEN [found |-> found, first |-> reach]
              ELSE [found |-> FALSE, first |-> IF reach >= from THEN from + rest ELSE from - rest]
<1>2. Comes(n, first, left) /\ Comes(n + 1, first + 1, later) /\ Comes(n + 1, first - 1, later)
  BY DEF EndedAt
<1>3. left \in Int /\ later = left - 1 /\ (n > MaxMovements <=> left = 0) /\ left >= 0
  BY <1>1
<1> HIDE DEF left, later
<1>4. ASSUME n > MaxMovements PROVE EndedAt(reach, found, n, first) = [found |-> FALSE, first |-> first]
  <2>1. left = 0 /\ first + left = first /\ first - left = first
    BY <1>3, <1>4
  <2>2. ~ ((IF reach >= first THEN reach - first ELSE first - reach) < left)
    BY <2>1
  <2> QED
    BY <1>2, <2>1, <2>2
<1>5. ASSUME ~ (n > MaxMovements), reach = first
      PROVE  EndedAt(reach, found, n, first) = [found |-> found, first |-> reach]
  <2>1. reach >= first /\ reach - first < left
    BY <1>3, <1>5
  <2> QED
    BY <1>2, <2>1
<1>6. ASSUME ~ (n > MaxMovements), reach > first
      PROVE  EndedAt(reach, found, n, first) = EndedAt(reach, found, n + 1, first + 1)
  <2>1. /\ reach >= first /\ reach >= first + 1
        /\ (reach - first < left) <=> (reach - (first + 1) < later)
        /\ first + left = first + 1 + later
    BY <1>3, <1>6
  <2>2. CASE reach - first < left
    BY <1>2, <2>1, <2>2
  <2>3. CASE ~ (reach - first < left)
    <3>1. /\ EndedAt(reach, found, n, first) = [found |-> FALSE, first |-> first + left]
          /\ EndedAt(reach, found, n + 1, first + 1) = [found |-> FALSE, first |-> first + 1 + later]
      BY <1>2, <2>1, <2>3
    <3> QED
      BY <2>1, <3>1
  <2> QED
    BY <2>2, <2>3
<1>7. ASSUME ~ (n > MaxMovements), reach < first
      PROVE  EndedAt(reach, found, n, first) = EndedAt(reach, found, n + 1, first - 1)
  <2>1. ~ (reach >= first) /\ (reach >= first - 1 => reach = first - 1)
    BY <1>7
  <2>2. EndedAt(reach, found, n, first)
            = IF first - reach < left THEN [found |-> found, first |-> reach]
              ELSE [found |-> FALSE, first |-> first - left]
    BY <1>2, <2>1
  <2>3. CASE reach = first - 1
    <3>1. reach >= first - 1 /\ reach - (first - 1) = 0 /\ first - reach = 1
      BY <2>3
    <3>2. EndedAt(reach, found, n + 1, first - 1)
              = IF 0 < later THEN [found |-> found, first |-> reach]
                ELSE [found |-> FALSE, first |-> first - 1 + later]
      BY <1>2, <3>1
    <3>3. (1 < left <=> 0 < later) /\ (~ (1 < left) => first - 1 + later = first - left)
      BY <1>3, <1>7
    <3>4. CASE 1 < left
      BY <2>2, <3>1, <3>2, <3>3, <3>4
    <3>5. CASE ~ (1 < left)
      <4>1. /\ EndedAt(reach, found, n, first) = [found |-> FALSE, first |-> first - left]
            /\ EndedAt(reach, found, n + 1, first - 1) = [found |-> FALSE, first |-> first - 1 + later]
        BY <2>2, <3>1, <3>2, <3>3, <3>5
      <4> QED
        BY <3>3, <3>5, <4>1
    <3> QED
      BY <3>4, <3>5
  <2>4. CASE ~ (reach >= first - 1)
    <3>1. EndedAt(reach, found, n + 1, first - 1)
              = IF first - 1 - reach < later THEN [found |-> found, first |-> reach]
                ELSE [found |-> FALSE, first |-> first - 1 - later]
      BY <1>2, <2>4
    <3>2. (first - reach < left <=> first - 1 - reach < later) /\ first - 1 - later = first - left
      BY <1>3
    <3>3. CASE first - reach < left
      BY <2>2, <3>1, <3>2, <3>3
    <3>4. CASE ~ (first - reach < left)
      <4>1. /\ EndedAt(reach, found, n, first) = [found |-> FALSE, first |-> first - left]
            /\ EndedAt(reach, found, n + 1, first - 1) = [found |-> FALSE, first |-> first - 1 - later]
        BY <2>2, <3>1, <3>2, <3>4
      <4> QED
        BY <3>2, <4>1
    <3> QED
      BY <3>3, <3>4
  <2> QED
    BY <2>1, <2>3, <2>4
<1> QED
  BY <1>4, <1>5, <1>6, <1>7

LEMMA EndedIsLooked ==
    ASSUME NEW c, NEW lowest, NEW last, Calendar(c, lowest, last), NEW month \in Int,
           NEW n \in 0 .. MaxMovements + 1, NEW first \in c.months
    PROVE  Ended(c, month, lowest, last, n, first)
               = Looked(c, month, n, first,
                        Ended(c, month, lowest, last, n + 1, Following(c, month, first)))
<1> DEFINE next == Following(c, month, first)
<1> DEFINE reach == Reach(c, month, lowest, last, first)
<1> DEFINE shown == c.shown
<1>1. /\ lowest \in Int /\ last \in Int /\ lowest <= last /\ first \in lowest .. last
      /\ shown \in Nat /\ shown >= 1 /\ MaxMovements \in Nat /\ n \in Int
      /\ c.months = lowest .. last
  BY QuestionAssumption DEF Calendar, QuestionAssumption
<1> DEFINE found == IF month \in reach .. reach + shown - 1 THEN TRUE ELSE FALSE
<1>2. reach \in Int /\ first \in Int
  BY <1>1 DEF Reach
<1>3. Ended(c, month, lowest, last, n, first) = EndedAt(reach, found, n, first)
  BY DEF Ended
<1> HIDE DEF found
<1>4. CASE n > MaxMovements
  BY <1>2, <1>3, <1>4, EndedSteps DEF Looked
<1>5. CASE ~ (n > MaxMovements) /\ month \in first .. first + shown - 1
  <2>1. reach = first
    BY <1>1, <1>5 DEF Reach
  <2>2. found = TRUE
    BY <1>5, <2>1 DEF found
  <2> HIDE DEF reach
  <2>3. ~ (n > MaxMovements) /\ reach \in Int /\ first \in Int
    BY <1>2, <1>5
  <2>4. EndedAt(reach, found, n, first) = [found |-> found, first |-> reach]
    BY <2>1, <2>3, EndedSteps
  <2>5. Ended(c, month, lowest, last, n, first) = [found |-> TRUE, first |-> first]
    BY <1>3, <2>1, <2>2, <2>4
  <2> QED
    BY <1>5, <2>5 DEF Looked
<1>6. CASE ~ (n > MaxMovements) /\ month \notin first .. first + shown - 1 /\ next \notin c.months
  <2>1. reach = first
    BY <1>1, <1>6 DEF Reach, Following
  <2>2. found = FALSE
    BY <1>6, <2>1 DEF found
  <2> HIDE DEF reach
  <2>3. ~ (n > MaxMovements) /\ reach \in Int /\ first \in Int
    BY <1>2, <1>6
  <2>4. EndedAt(reach, found, n, first) = [found |-> found, first |-> reach]
    BY <2>1, <2>3, EndedSteps
  <2>5. Ended(c, month, lowest, last, n, first) = [found |-> FALSE, first |-> first]
    BY <1>3, <2>1, <2>2, <2>4
  <2> QED
    BY <1>6, <2>5 DEF Looked
<1>7. CASE ~ (n > MaxMovements) /\ month \notin first .. first + shown - 1 /\ next \in c.months
  <2> DEFINE later == Reach(c, month, lowest, last, next)
  <2>1. ASSUME month > first + shown - 1 PROVE later = reach /\ next = first + 1 /\ reach > first
    <3>1. next = first + 1 /\ first + 1 <= last
      BY <1>1, <1>7, <2>1 DEF Following
    <3>2. reach = (IF month - shown + 1 <= last THEN month - shown + 1 ELSE last) /\ reach > first
      BY <1>1, <2>1, <3>1 DEF Reach
    <3>3. later = reach
      <4>1. CASE month > first + 1 + shown - 1
        BY <1>1, <3>1, <3>2, <4>1 DEF Reach
      <4>2. CASE month = first + shown
        <5>1. month - shown + 1 = first + 1 /\ ~ (month > first + 1 + shown - 1) /\ ~ (month < first + 1)
          BY <1>1, <4>2
        <5> QED
          BY <3>1, <3>2, <5>1 DEF Reach
      <4> QED
        BY <1>1, <2>1, <4>1, <4>2
    <3> QED
      BY <3>1, <3>2, <3>3
  <2>2. ASSUME month < first PROVE later = reach /\ next = first - 1 /\ reach < first
    <3>1. next = first - 1 /\ lowest <= first - 1
      BY <1>1, <1>7, <2>2 DEF Following
    <3>2. reach = (IF month >= lowest THEN month ELSE lowest) /\ reach < first
      BY <1>1, <2>2, <3>1 DEF Reach
    <3>3. ~ (month > first - 1 + shown - 1)
      BY <1>1, <2>2
    <3>4. later = IF month < first - 1 THEN IF month >= lowest THEN month ELSE lowest ELSE first - 1
      BY <3>1, <3>3 DEF Reach
    <3>5. later = reach
      BY <1>1, <2>2, <3>1, <3>2, <3>4
    <3> QED
      BY <3>1, <3>2, <3>5
  <2>3. /\ later = reach
        /\ \/ next = first + 1 /\ reach > first
           \/ next = first - 1 /\ reach < first
    BY <1>1, <1>7, <2>1, <2>2
  <2>4. Ended(c, month, lowest, last, n + 1, next) = EndedAt(reach, found, n + 1, next)
    BY <2>3 DEF Ended, found
  <2> HIDE DEF reach, later, next
  <2>5. Ended(c, month, lowest, last, n, first) = Ended(c, month, lowest, last, n + 1, next)
    BY <1>2, <1>3, <1>7, <2>3, <2>4, EndedSteps
  <2> QED
    BY <1>7, <2>5 DEF Looked, next
<1> QED
  BY <1>4, <1>5, <1>6, <1>7

\* The rest of a search matters only where the search goes on.
LEMMA RestMatters ==
    ASSUME NEW c, NEW month, NEW n, NEW first, NEW rest, NEW other,
           ~ (n > MaxMovements) /\ Following(c, month, first) \in c.months => rest = other
    PROVE  Looked(c, month, n, first, rest) = Looked(c, month, n, first, other)
  BY DEF Looked

Movements == 0 .. MaxMovements + 1

LEMMA NextMovement == \A n \in Movements : ~ (n > MaxMovements) => n + 1 \in Movements
  BY QuestionAssumption DEF Movements, QuestionAssumption

\* There is such a search.
LEMMA SearchExists ==
    ASSUME NEW c, NEW lowest, NEW last, Calendar(c, lowest, last), NEW month \in Int
    PROVE  \E search : IsSearch(search, c, month)
<1> DEFINE E(n, first) == Ended(c, month, lowest, last, n, first)
<1> DEFINE s == [n \in Movements |-> [first \in c.months |-> E(n, first)]]
<1>1. ASSUME NEW n \in Movements, NEW first \in c.months
      PROVE  E(n, first) = Looked(c, month, n, first, s[n + 1][Following(c, month, first)])
  <2> DEFINE next == Following(c, month, first)
  <2>1. E(n, first) = Looked(c, month, n, first, E(n + 1, next))
    BY EndedIsLooked DEF Movements
  <2>2. ~ (n > MaxMovements) /\ next \in c.months => E(n + 1, next) = s[n + 1][next]
    <3> HIDE DEF E, next
    <3> QED
      BY NextMovement
  <2> HIDE DEF E, s, next
  <2>3. Looked(c, month, n, first, E(n + 1, next)) = Looked(c, month, n, first, s[n + 1][next])
    BY <2>2, RestMatters DEF next
  <2> QED
    BY <2>1, <2>3 DEF next
<1>2. s = [n \in Movements |->
              [first \in c.months |->
                  Looked(c, month, n, first, s[n + 1][Following(c, month, first)])]]
  BY <1>1
<1>3. IsSearch(s, c, month)
  <2> HIDE DEF s
  <2> QED
    BY <1>2 DEF IsSearch, Movements
<1> QED
  BY <1>3

\* A set of natural numbers that is not empty has a least one.
LEMMA LeastOfSome ==
    ASSUME NEW T, T \subseteq Nat, T # {}
    PROVE  \E n \in T : \A m \in T : n <= m
<1> DEFINE Less == OpToRel(<, Nat)
<1>1. IsWellFoundedOn(Less, Nat)
  BY NatLessThanWellFounded
<1>2. \A i \in Nat, j \in Nat : <<i, j>> \in Less <=> i < j
  BY DEF OpToRel
<1> HIDE DEF Less
<1>3. PICK n \in T : \A m \in T : ~ (<<m, n>> \in Less)
  BY <1>1, WFMin
<1>4. ASSUME NEW m \in T PROVE n <= m
  <2>1. n \in Nat /\ m \in Nat /\ ~ (m < n)
    BY <1>2, <1>3
  <2> QED
    BY <2>1
<1> QED
  BY <1>4

\* Every search comes to what was foreseen, by induction over the movements left.
LEMMA SearchIsEnded ==
    ASSUME NEW c, NEW lowest, NEW last, Calendar(c, lowest, last), NEW month \in Int,
           NEW search, IsSearch(search, c, month)
    PROVE  \A n \in Movements, first \in c.months :
               search[n][first] = Ended(c, month, lowest, last, n, first)
<1> DEFINE E(n, first) == Ended(c, month, lowest, last, n, first)
<1> DEFINE Wrong(n) == \E first \in c.months : search[n][first] # E(n, first)
<1> DEFINE T == {k \in Nat : \E n \in Movements : k = MaxMovements + 1 - n /\ Wrong(n)}
<1>1. \A n \in Movements : n \in Int /\ MaxMovements + 1 - n \in Nat
  BY QuestionAssumption DEF Movements, QuestionAssumption
<1>2. ASSUME NEW n \in Movements, NEW first \in c.months
      PROVE  search[n][first] = Looked(c, month, n, first, search[n + 1][Following(c, month, first)])
  <2> DEFINE L(m, from) == Looked(c, month, m, from, search[m + 1][Following(c, month, from)])
  <2> DEFINE G(m) == [from \in c.months |-> L(m, from)]
  <2>1. search = [m \in Movements |-> G(m)]
    BY DEF IsSearch, Movements
  <2> HIDE DEF L
  <2>2. G(n)[first] = L(n, first)
    OBVIOUS
  <2> HIDE DEF G
  <2>3. search[n] = G(n)
    BY <2>1
  <2> QED
    BY <2>2, <2>3 DEF L
<1>3. T = {}
  <2> SUFFICES ASSUME T # {} PROVE FALSE
    OBVIOUS
  <2>1. PICK k \in T : \A m \in T : k <= m
    BY LeastOfSome
  <2>2. PICK n \in Movements : k = MaxMovements + 1 - n /\ Wrong(n)
    BY <2>1
  <2>3. PICK first \in c.months : search[n][first] # E(n, first)
    BY <2>2
  <2> DEFINE next == Following(c, month, first)
  <2>4. ASSUME ~ (n > MaxMovements), next \in c.months
        PROVE  search[n + 1][next] = E(n + 1, next)
    <3> HIDE DEF E
    <3>1. n + 1 \in Movements
      BY <2>4, NextMovement
    <3>2. ~ (k <= MaxMovements + 1 - (n + 1))
      BY <1>1, <2>2, QuestionAssumption DEF QuestionAssumption
    <3>3. MaxMovements + 1 - (n + 1) \in Nat
      BY <1>1, <3>1
    <3>4. ~ Wrong(n + 1)
      BY <2>1, <3>1, <3>2, <3>3
    <3> QED
      BY <2>4, <3>4
  <2>5. E(n, first) = Looked(c, month, n, first, E(n + 1, next))
    BY EndedIsLooked DEF Movements
  <2> HIDE DEF E, next
  <2>6. Looked(c, month, n, first, search[n + 1][next]) = Looked(c, month, n, first, E(n + 1, next))
    BY <2>4, RestMatters DEF next
  <2>7. search[n][first] = Looked(c, month, n, first, search[n + 1][next])
    BY <1>2 DEF next
  <2> QED
    BY <2>3, <2>5, <2>6, <2>7
<1> HIDE DEF E
<1>4. \A n \in Movements : ~ Wrong(n)
  BY <1>1, <1>3
<1> QED
  BY <1>4 DEF E

\* How many months away the nearest one shown is.
Away(c, month) ==
    IF month < c.first THEN c.first - month
    ELSE IF month > c.first + c.shown - 1 THEN month - (c.first + c.shown - 1) ELSE 0

\* In every calendar, however many months it shows, a month is found just when it
\* exists and is at most MaxMovements away from those shown, forwards or
\* backwards (moveCalendarToMonth).
THEOREM MonthsAreFound ==
    ASSUME NEW c, NEW lowest, NEW last, Calendar(c, lowest, last), c.first \in c.months, NEW month \in Int
    PROVE  moveCalendarToMonth(c, c.first, month).found
               <=> Away(c, month) <= MaxMovements /\ month \in lowest .. last + c.shown - 1
<1> DEFINE first == c.first
<1> DEFINE shown == c.shown
<1> DEFINE reach == Reach(c, month, lowest, last, first)
<1> DEFINE far == IF reach >= first THEN reach - first ELSE first - reach
<1> DEFINE search == CHOOSE s : IsSearch(s, c, month)
<1>1. /\ lowest \in Int /\ last \in Int /\ lowest <= last /\ first \in Int
      /\ lowest <= first /\ first <= last
      /\ shown \in Nat /\ shown >= 1 /\ MaxMovements \in Nat /\ 0 \in Movements
  BY QuestionAssumption DEF Calendar, QuestionAssumption, Movements
<1>2. IsSearch(search, c, month)
  BY SearchExists
<1>3. moveCalendarToMonth(c, first, month) = search[0][first]
  BY MoveIsASearch
<1>4. moveCalendarToMonth(c, first, month) = Ended(c, month, lowest, last, 0, first)
  BY <1>1, <1>2, <1>3, SearchIsEnded
<1>5. Ended(c, month, lowest, last, 0, first).found
          = IF far < MaxMovements + 1 - 0
            THEN IF month \in reach .. reach + shown - 1 THEN TRUE ELSE FALSE ELSE FALSE
  <2> HIDE DEF reach
  <2> QED
    BY DEF Ended, EndedAt, reach
<1>6. far < MaxMovements + 1 - 0 /\ month \in reach .. reach + shown - 1
          <=> Away(c, month) <= MaxMovements /\ month \in lowest .. last + shown - 1
  <2>1. reach = IF month > first + shown - 1
                THEN IF month - shown + 1 <= last THEN month - shown + 1 ELSE last
                ELSE IF month < first THEN IF month >= lowest THEN month ELSE lowest
                ELSE first
    BY DEF Reach
  <2>2. Away(c, month) = IF month < first THEN first - month
                         ELSE IF month > first + shown - 1 THEN month - (first + shown - 1) ELSE 0
    BY DEF Away
  <2> HIDE DEF reach, first, shown
  <2> QED
    BY <1>1, <2>1, <2>2
<1> HIDE DEF far, reach, shown
<1> QED
  BY <1>4, <1>5, <1>6 DEF shown

-----------------------------------------------------------------------------
(* The questions of MCCart.                                                *)

\* A behaviour with questions is one of the cart, and its question stays.
Asked == subject = [kind |-> "session"] \/ AsksCart \/ AsksReadiness \/ AsksCalendar

LEMMA SessionRuns == CartSpec => Spec
<1>1. CartInit => Init
  BY DEF CartInit
<1>2. [CartNext]_<<vars, subject>> => [Next]_vars
  BY DEF CartNext
<1> QED
  BY <1>1, <1>2, PTL DEF CartSpec, Spec

LEMMA SubjectStays == CartSpec => []Asked
<1>1. CartInit => Asked
  BY DEF CartInit, Asked
<1>2. Asked /\ [CartNext]_<<vars, subject>> => Asked'
  <2>1. [CartNext]_<<vars, subject>> => subject' = subject
    BY DEF CartNext
  <2> QED
    BY <2>1 DEF Asked, AsksCart, AsksReadiness, AsksCalendar
<1> QED
  BY <1>1, <1>2, PTL DEF CartSpec

LEMMA AskedOfACart ==
    ASSUME Asked, subject.kind = "cart"
    PROVE  \E payload \in Payloads, ui \in Screens1 :
               subject = [kind |-> "cart", response |-> [kind |-> "payload", payload |-> payload], ui |-> ui]
  BY DEF Asked, AsksCart, AsksReadiness, AsksCalendar

Entered == RawItems \cup {Ticket, Absent}

LEMMA AskedPayloads == Payloads \subseteq CartPayloads(Entered)
<1>1. /\ Timed \subseteq Seq(Entered) \cup {Absent} /\ Untimed \subseteq Seq(Entered) \cup {Absent}
      /\ Modified \subseteq Seq(Entered)
  <2>1. \A e \in Entered : <<e>> \in Seq(Entered)
    OBVIOUS
  <2>2. <<>> \in Seq(Entered)
    OBVIOUS
  <2>3. Ticket \in Entered /\ Absent \in Entered /\ RawItems \subseteq Entered
    BY DEF Entered
  <2> QED
    BY <2>1, <2>2, <2>3 DEF Timed, Untimed, Modified
<1>2. ASSUME NEW payload \in Payloads, payload # Absent
      PROVE  \E account \in BOOLEAN, timed \in Timed, untimed \in Untimed, modification \in Modified :
                 payload = Payload(account, timed, untimed, modification)
  BY <1>2 DEF Payloads
<1>3. ASSUME NEW payload \in Payloads, payload # Absent
      PROVE  payload \in CartPayloads(Entered)
  <2>1. PICK account \in BOOLEAN, timed \in Timed, untimed \in Untimed, modification \in Modified :
            payload = Payload(account, timed, untimed, modification)
    BY <1>2, <1>3
  <2>2. /\ timed \in Seq(Entered) \cup {Absent} /\ untimed \in Seq(Entered) \cup {Absent}
        /\ modification \in Seq(Entered) /\ account \in BOOLEAN
    BY <1>1, <2>1
  <2> QED
    BY <2>1, <2>2 DEF CartPayloads, Payload
<1> QED
  BY <1>3 DEF CartPayloads

\* A page with items is not called empty.
LEMMA AskedScreens ==
    ASSUME NEW ui \in Screens1
    PROVE  LET shows == IF ui.main THEN {ui.items} ELSE {0, 1, 2} IN
           /\ cartUiState(ui) # "EMPTY" /\ (cartUiState(ui) = "ITEMS" => ui.items = 1) => 1 \in shows
           /\ cartUiState(ui) # "ITEMS" => 0 \in shows
<1>1. ui.main \in BOOLEAN /\ ui.items \in 0 .. 2 /\ (ui.empty <=> ui.items = 0)
  <2>1. PICK main \in BOOLEAN, items \in Counts, glances \in Headers : ui = Screen(main, items, glances)
    BY DEF Screens1
  <2>2. ui.main = main /\ ui.items = items /\ ui.empty = (items = 0)
    BY <2>1, Zenon DEF Screen
  <2>3. items \in 0 .. 2
    BY <2>1 DEF Counts
  <2>4. ui.empty <=> ui.items = 0
    BY <2>2
  <2> QED
    BY <2>1, <2>2, <2>3, <2>4
<1> DEFINE shows == IF ui.main THEN {ui.items} ELSE {0, 1, 2}
<1>2. CASE ~ ui.main
  BY <1>2
<1>3. CASE ui.main
  <2>1. cartUiState(ui) = IF ui.empty THEN "EMPTY"
                          ELSE IF ui.items > 0 THEN "ITEMS" ELSE IF ui.spinner THEN "LOADING" ELSE "UNKNOWN"
    BY <1>3 DEF cartUiState
  <2>2. ui.items = 0 => cartUiState(ui) = "EMPTY"
    BY <1>1, <2>1
  <2>3. ui.items # 0 => cartUiState(ui) = "ITEMS"
    BY <1>1, <2>1
  <2> QED
    BY <1>3, <2>2, <2>3
<1> QED
  BY <1>2, <1>3

\* What the readings promise of the carts asked about, from what they promise of any
\* (inspectRecreationCartInSession and its judges).
THEOREM CartsAreReadRight == CartSpec => []CartIsReadRight
<1>1. ASSUME Asked PROVE CartIsReadRight
  <2> SUFFICES ASSUME subject.kind = "cart" PROVE CartIsReadRight
    BY DEF CartIsReadRight
  <2>1. PICK payload \in Payloads, ui \in Screens1 :
            subject = [kind |-> "cart", response |-> [kind |-> "payload", payload |-> payload], ui |-> ui]
    BY <1>1, AskedOfACart
  <2> DEFINE inspection == InspectionOf(payload, ui)
  <2> DEFINE shows == IF ui.main THEN {ui.items} ELSE {0, 1, 2}
  <2>2. payload \in CartPayloads(Entered)
    BY <2>1, AskedPayloads
  <2>3. cartInspectionExactlyMatches(inspection, ours) => IsTheTarget(payload, ui)
    BY <2>2, MatchIsTheTarget
  <2>4. cartInspectionFailure(inspection, ours) = None => IsEmptied(payload, ui)
    BY <2>2, EmptyIsEmpty
  <2>5. inspection.status = "EXACT_MATCH" /\ inspection.authentication = "AUTHENTICATED" =>
            cartInspectionExactlyMatches(inspection, ours)
    BY <2>2, MatchIsEvidence
  <2>6. /\ IsTheTarget(payload, ui) => 1 \in shows
        /\ IsEmptied(payload, ui) => 0 \in shows
    BY <2>1, AskedScreens DEF IsTheTarget, IsEmptied
  <2>7. /\ subject.response.payload = payload /\ subject.ui = ui
        /\ inspectRecreationCartInSession(subject.response, subject.ui, ours) = inspection
    BY <2>1 DEF InspectionOf
  <2> HIDE DEF inspection, shows
  <2> QED
    BY <2>3, <2>4, <2>5, <2>6, <2>7 DEF CartIsReadRight, IsTheTarget, IsEmptied, shows
<1> QED
  BY <1>1, SubjectStays, PTL

\* The pages asked about have finitely much on them, and nothing but buttons in the
\* calendar.
PageShape(page) ==
    /\ IsFiniteSet(page.links) /\ IsFiniteSet(page.calendar.controls)
    /\ \A c \in page.calendar.controls : c.kind = "button"

LEMMA ControlsAreFinite ==
    ASSUME NEW labels, NEW days \in SUBSET (Arrival .. Departure)
    PROVE  IsFiniteSet({Control(d, labels[d]) : d \in days})
<1> DEFINE controls == {Control(d, labels[d]) : d \in days}
<1> DEFINE control == [d \in days |-> Control(d, labels[d])]
<1>1. control \in Surjection(days, controls)
  BY DEF Surjection
<1>2. IsFiniteSet(days)
  <2>1. IsFiniteSet(Arrival .. Departure)
    BY FS_Interval, QuestionAssumption DEF QuestionAssumption
  <2> QED
    BY <2>1, FS_Subset
<1> QED
  BY <1>1, <1>2, FS_Surjection

LEMMA GoodShape == PageShape(GoodPage(s1))
<1> DEFINE days == Arrival .. Departure
<1> DEFINE labels == [d \in days |-> "Available"]
<1>1. GoodPage(s1).links = {[id |-> "ours", name |-> "campground"]}
      /\ GoodPage(s1).calendar.controls = {Control(d, "Available") : d \in days}
  BY DEF GoodPage, OpenCalendar
<1>2. {Control(d, "Available") : d \in days} = {Control(d, labels[d]) : d \in days}
  OBVIOUS
<1>3. IsFiniteSet({Control(d, labels[d]) : d \in days})
  BY ControlsAreFinite
<1>4. IsFiniteSet({[id |-> "ours", name |-> "campground"]})
  BY FS_Singleton
<1>5. \A c \in {Control(d, "Available") : d \in days} : c.kind = "button"
  BY DEF Control
<1> QED
  BY <1>1, <1>2, <1>3, <1>4, <1>5 DEF PageShape

LEMMA ControlsShape ==
    ASSUME NEW labels, NEW twice \in BOOLEAN
    PROVE  IsFiniteSet(ControlsOf(labels, twice)) /\ \A c \in ControlsOf(labels, twice) : c.kind = "button"
<1> DEFINE days == {e \in Arrival .. Departure : labels[e] # "missing"}
<1> DEFINE one == {Control(d, labels[d]) : d \in days}
<1> DEFINE more == IF twice THEN {Control(Arrival, "Reserved")} ELSE {}
<1>1. IsFiniteSet(one)
  BY ControlsAreFinite
<1>2. IsFiniteSet(more)
  <2>1. IsFiniteSet({Control(Arrival, "Reserved")}) /\ IsFiniteSet({})
    BY FS_Singleton, FS_EmptySet
  <2> QED
    BY <2>1
<1>3. ControlsOf(labels, twice) = one \cup more
  BY DEF ControlsOf
<1>4. \A c \in one \cup more : c.kind = "button"
  BY DEF Control
<1> HIDE DEF one, more
<1> QED
  BY <1>1, <1>2, <1>3, <1>4, FS_Union

LEMMA AskedPages == \A page \in Pages1 \cup Pages2 : PageShape(page)
<1>1. ASSUME NEW before, NEW after, NEW heading PROVE PageShape(PageAt(before, after, heading))
  <2>1. /\ PageAt(before, after, heading).links = GoodPage(s1).links
        /\ PageAt(before, after, heading).calendar = GoodPage(s1).calendar
    BY DEF PageAt, GoodPage
  <2> QED
    BY <2>1, GoodShape DEF PageShape
<1>2. ASSUME NEW site, NEW links \in Links, NEW glances PROVE PageShape(PageOf(site, links, glances))
  <2>1. /\ PageOf(site, links, glances).links = links
        /\ PageOf(site, links, glances).calendar = GoodPage(s1).calendar
    BY DEF PageOf, GoodPage
  <2>2. IsFiniteSet(links)
    <3> DEFINE both == {[id |-> "ours", name |-> "campground"], [id |-> "theirs", name |-> "nearby"]}
    <3>1. both = {[id |-> "ours", name |-> "campground"]} \cup {[id |-> "theirs", name |-> "nearby"]}
      OBVIOUS
    <3>2. /\ IsFiniteSet({[id |-> "ours", name |-> "campground"]})
          /\ IsFiniteSet({[id |-> "theirs", name |-> "nearby"]})
      BY FS_Singleton
    <3>3. IsFiniteSet(both)
      BY <3>1, <3>2, FS_Union
    <3> QED
      BY <3>3, FS_Subset DEF Links
  <2> QED
    BY <2>1, <2>2, GoodShape DEF PageShape
<1>3. ASSUME NEW labels, NEW twice \in BOOLEAN PROVE PageShape(PageLabelled(labels, twice))
  <2>1. /\ PageLabelled(labels, twice).links = GoodPage(s1).links
        /\ PageLabelled(labels, twice).calendar.controls = ControlsOf(labels, twice)
    BY DEF PageLabelled, GoodPage, OpenCalendar
  <2> QED
    BY <2>1, GoodShape, ControlsShape DEF PageShape
<1>4. ASSUME NEW before, NEW after, NEW n PROVE PageShape(PageSelecting(before, after, n))
  <2>1. /\ PageSelecting(before, after, n).links = GoodPage(s1).links
        /\ PageSelecting(before, after, n).calendar = GoodPage(s1).calendar
    BY DEF PageSelecting, GoodPage
  <2> QED
    BY <2>1, GoodShape DEF PageShape
<1>5. ASSUME NEW page \in Pages1 PROVE PageShape(page)
  <2>1. \/ \E before \in Moments, after \in Moments, heading \in BOOLEAN : page = PageAt(before, after, heading)
        \/ \E site \in {s1, s2, Absent}, links \in Links, glances \in Glances :
              page = PageOf(site, links, glances)
    BY <1>5 DEF Pages1
  <2> QED
    BY <1>1, <1>2, <2>1
<1>6. ASSUME NEW page \in Pages2 PROVE PageShape(page)
  <2>1. \/ \E labels \in [Arrival .. Departure -> Labels], twice \in BOOLEAN : page = PageLabelled(labels, twice)
        \/ \E before \in {Unselected, Selected}, after \in Stays, n \in 0 .. 2 :
              page = PageSelecting(before, after, n)
    BY <1>6 DEF Pages2
  <2> QED
    BY <1>3, <1>4, <2>1
<1> QED
  BY <1>5, <1>6

\* An answer to a session is no cart at all, the empty one, or one that is not empty or
\* not signed in.
LEMMA AskedAnswers ==
    ASSUME NEW response \in Answers, response.kind \notin {"failed", "none", "refused", "error"}
    PROVE  /\ response.payload \in CartPayloads({ItemOf(s1)})
           /\ response.payload.account /\ Everything(response.payload) = <<>> => response = EmptyAnswer
<1> DEFINE sought == EmptyAnswer.payload
<1> DEFINE held == <<ItemOf(s1)>>
<1>1. \/ response = EmptyAnswer
      \/ response = [EmptyAnswer EXCEPT !.payload.account = FALSE]
      \/ response = [EmptyAnswer EXCEPT !.payload.reservations = held]
  BY DEF Answers
<1>2. /\ sought.account = TRUE /\ sought.untimed = <<>> /\ sought.modification = <<>>
      /\ sought = [account |-> TRUE, expiresIn |-> 0, reservations |-> <<>>, untimed |-> <<>>,
                   modification |-> <<>>]
  BY DEF EmptyAnswer
<1>3. <<>> \in Seq({ItemOf(s1)}) /\ held \in Seq({ItemOf(s1)}) /\ held \o <<>> # <<>>
  OBVIOUS
<1>4. CASE response = EmptyAnswer
  <2>1. response.payload = [account |-> TRUE, expiresIn |-> 0, reservations |-> <<>>, untimed |-> <<>>,
                            modification |-> <<>>]
    BY <1>2, <1>4
  <2> HIDE DEF held
  <2> QED
    BY <1>3, <1>4, <2>1 DEF CartPayloads
<1>5. CASE response = [EmptyAnswer EXCEPT !.payload.account = FALSE]
  <2>1. response.payload = [account |-> FALSE, expiresIn |-> 0, reservations |-> <<>>, untimed |-> <<>>,
                            modification |-> <<>>]
    BY <1>5 DEF EmptyAnswer
  <2> HIDE DEF held
  <2> QED
    BY <1>3, <2>1 DEF CartPayloads
<1>6. CASE response = [EmptyAnswer EXCEPT !.payload.reservations = held]
  <2> HIDE DEF held
  <2>1. response.payload = [account |-> TRUE, expiresIn |-> 0, reservations |-> held, untimed |-> <<>>,
                            modification |-> <<>>]
    BY <1>6 DEF EmptyAnswer
  <2>2. response.payload \in CartPayloads({ItemOf(s1)})
    BY <1>3, <2>1 DEF CartPayloads
  <2>3. Everything(response.payload) # <<>>
    <3>1. Everything(response.payload) = held \o <<>> \o <<>>
      BY <2>1 DEF Everything
    <3>2. held \o <<>> \o <<>> # <<>>
      BY DEF held
    <3> QED
      BY <3>1, <3>2
  <2> QED
    BY <2>2, <2>3
<1> QED
  BY <1>1, <1>4, <1>5, <1>6

LEMMA AskedOfReadiness ==
    ASSUME Asked, subject.kind = "readiness"
    PROVE  subject.page \in Pages1 \cup Pages2 /\ subject.response \in Answers
<1>1. PICK page \in Pages1 \cup Pages2, response \in Answers,
           ui \in {EmptyScreen, [EmptyScreen EXCEPT !.main = FALSE]} :
          subject = [kind |-> "readiness", page |-> page, response |-> response, ui |-> ui]
  BY DEF Asked, AsksCart, AsksReadiness, AsksCalendar
<1> QED
  BY <1>1

LEMMA AskedOfACalendar ==
    ASSUME Asked, subject.kind = "calendar"
    PROVE  \E last \in Nat :
               /\ subject.month \in Nat /\ subject.calendar.first \in subject.calendar.months
               /\ subject.calendar.months = 0 .. last /\ Calendar(subject.calendar, 0, last)
<1>1. PICK first \in 0 .. 6, shown \in 1 .. 2, last \in 3 .. 6, month \in 0 .. 7 :
          /\ first <= last
          /\ subject = [kind |-> "calendar", month |-> month,
                        calendar |-> [first |-> first, shown |-> shown, months |-> 0 .. last,
                                      controls |-> {}]]
  BY DEF Asked, AsksCart, AsksReadiness, AsksCalendar
<1>2. /\ subject.month = month /\ subject.calendar.first = first /\ subject.calendar.shown = shown
      /\ subject.calendar.months = 0 .. last
  BY <1>1
<1> QED
  BY <1>1, <1>2 DEF Calendar

\* Among buttons, the labels of a day are those of every control that names it.
LEMMA ButtonsAreAll ==
    ASSUME NEW page, PageShape(page), NEW d
    PROVE  LabelsOf(page.calendar, d) = {c.label : c \in {k \in page.calendar.controls : k.date = d}}
<1> DEFINE day == {k \in page.calendar.controls : k.date = d}
<1> DEFINE Of(kind) == {k \in page.calendar.controls : k.kind = kind /\ k.date = d}
<1>1. Of("button") = day
  BY DEF PageShape
<1>2. Of("gridcell") = {}
  BY DEF PageShape
<1>3. LabelsOf(page.calendar, d)
          = IF {c.label : c \in Of("button")} # {} THEN {c.label : c \in Of("button")}
            ELSE {c.label : c \in Of("gridcell")}
  BY DEF LabelsOf
<1> HIDE DEF Of, day
<1> QED
  BY <1>1, <1>2, <1>3 DEF day

\* Of the pages asked about: what a session that may go on has seen, and why another may
\* not; of the calendars: which months are found.  Each follows from what holds of any
\* (inspectReadinessInSession, readinessFailure, moveCalendarToMonth).
THEOREM PagesAreReadRight == CartSpec => []PageIsReadRight
<1>1. ASSUME Asked, subject.kind = "readiness", ~ Evidence.failed,
             readinessFailure(Evidence, ours) = None
      PROVE  ReadyMeansSeen(subject.page, subject.response)
  <2> DEFINE page == subject.page
  <2> DEFINE response == subject.response
  <2>1. PageShape(page) /\ response \in Answers
    BY <1>1, AskedOfReadiness, AskedPages
  <2>2. Evidence = EvidenceOf(page, response, subject.ui)
    BY DEF Evidence, EvidenceOf
  <2>3. WasSeen(page, response, subject.ui)
    BY <1>1, <2>1, <2>2, ReadyWasSeen DEF PageShape
  <2>4. response = EmptyAnswer
    <3>1. /\ response.kind \notin {"failed", "none", "refused", "error"}
          /\ cartInspectionFailure(InspectionOf(response.payload, subject.ui), ours) = None
      BY <2>3 DEF WasSeen
    <3> HIDE DEF response
    <3>2. response.payload \in CartPayloads({ItemOf(s1)})
      BY <2>1, <3>1, AskedAnswers
    <3>3. IsEmptied(response.payload, subject.ui)
      BY <3>1, <3>2, EmptyIsEmpty
    <3> QED
      BY <2>1, <3>1, <3>3, AskedAnswers DEF IsEmptied
  <2> DEFINE Day(d) == {c \in page.calendar.controls : c.date = d}
  <2> HIDE DEF page, response
  <2>5. \A d : LabelsOf(page.calendar, d) = {c.label : c \in Day(d)}
    BY <2>1, ButtonsAreAll
  <2>6. /\ \A d \in Arrival .. Departure - 1 : {c.label : c \in Day(d)} = {"Available"}
        /\ Day(Departure) # {}
    BY <2>3, <2>5 DEF WasSeen
  <2> QED
    BY <2>3, <2>4, <2>6 DEF WasSeen, ReadyMeansSeen, page, response
<1>2. ASSUME ~ Evidence.failed, Evidence.dateSelection = "SKIPPED"
      PROVE  readinessFailure(Evidence, ours) \notin {None, "DATES_UNKNOWN"}
  BY <1>2, SkippedIsNotTheReason DEF Evidence, EvidenceOf
<1>3. ASSUME Asked, subject.kind = "calendar"
      PROVE  MonthIsFound(subject.calendar, subject.month)
  <2> DEFINE c == subject.calendar
  <2> DEFINE month == subject.month
  <2>1. PICK last \in Nat : /\ month \in Nat /\ c.first \in c.months /\ c.months = 0 .. last
                            /\ Calendar(c, 0, last)
    BY <1>3, AskedOfACalendar
  <2> DEFINE latest == CHOOSE n \in c.months : \A k \in c.months : k <= n
  <2> HIDE DEF c, month
  <2>2. latest = last
    <3>1. last \in c.months /\ \A k \in c.months : k <= last
      BY <2>1
    <3>2. latest \in c.months /\ \A k \in c.months : k <= latest
      BY <3>1
    <3> HIDE DEF latest
    <3> QED
      BY <2>1, <3>1, <3>2
  <2>3. moveCalendarToMonth(c, c.first, month).found
            <=> Away(c, month) <= MaxMovements /\ month \in 0 .. last + c.shown - 1
    BY <2>1, MonthsAreFound
  <2>4. month \in 0 .. last + c.shown - 1 <=> month <= last + c.shown - 1
    <3>1. c.shown \in Nat
      BY <2>1 DEF Calendar
    <3> QED
      BY <2>1, <3>1
  <2>5. MonthIsFound(c, month)
            <=> (moveCalendarToMonth(c, c.first, month).found
                     <=> Away(c, month) <= MaxMovements /\ month <= latest + c.shown - 1)
    BY DEF MonthIsFound, Away
  <2> HIDE DEF latest
  <2>6. MonthIsFound(c, month)
    BY <2>2, <2>3, <2>4, <2>5
  <2> QED
    BY <2>6 DEF c, month
<1>4. Asked => PageIsReadRight
  <2> HIDE DEF Asked
  <2> QED
    BY <1>1, <1>2, <1>3 DEF PageIsReadRight
<1> QED
  BY <1>4, SubjectStays, PTL

=============================================================================
