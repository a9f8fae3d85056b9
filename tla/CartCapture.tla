------------------------------- MODULE CartCapture -------------------------------
(***************************************************************************)
(* One reservation cart and the BookingAttempts of one Mission:            *)
(* src/src/application/recreation-cart.ts (capture, reconcile), the        *)
(* session of integrations/recreation-gov/cart-capture.ts, the attempt     *)
(* rows of the store (beginCartCapture, completeCartCapture and            *)
(* transitionAttempt: a read, then an update conditional on the state      *)
(* read) and the one browser profile.                                      *)
(*                                                                         *)
(* Processes interleave between any two transactions and any two awaits,   *)
(* and may die there.  The cart is external: a click takes effect late or  *)
(* never, and items come and go without SatScout.                          *)
(***************************************************************************)
EXTENDS CartReading, BookingWorkflow

CONSTANTS
    Attempts,
    Processes,
    Sites,            \* the siteIds of the Mission
    Arrival, Departure,
    Requests,         \* the states an operator asks for
    Pages(_),         \* what the page of a site may show
    MaxMoves,         \* bound on the operator's transitions
    MaxMishaps,       \* bound on the crashes and the changes of the cart by others
    Stale             \* the profile lock of a browser whose owner died

ASSUME CartAssumption ==
    /\ IsFiniteSet(Processes) /\ IsFiniteSet(Sites)
    /\ MaxMishaps \in Nat
    /\ None # Stale /\ Processes \cap {None, Stale} = {}
    /\ \A sites \in SUBSET Sites : sites # None

TargetOf(site) ==
    [campgroundId |-> "ours", siteId |-> site, arrival |-> Arrival, departure |-> Departure]

AttemptRows == [state : WorkflowStates, target : {TargetOf(site) : site \in Sites} \cup {None}]

VARIABLES
    attempts,    \* booking_attempts: state and cartTarget
    browser,     \* the holder of the profile lock
    call,        \* what each process is doing
    cart,        \* the sites in the cart of the account
    pending,     \* the sites of the clicks that have not taken effect
    commits,     \* AVAILABLE to CARTING by beginCartCapture, by attempt
    clicks,      \* the sites clicked for, by attempt
    proofs,      \* the carts that proved a hold, by attempt
    moves,       \* the states an operator moved each attempt to
    mishaps

rows == <<attempts>>
ghosts == <<commits, clicks, proofs, moves>>
outside == <<cart, pending>>
vars == <<rows, browser, call, outside, ghosts, mishaps>>

Idle == [pc |-> "idle", kind |-> None, attempt |-> None, site |-> None, seen |-> None, saw |-> None]

Ends(x) == call' = [call EXCEPT ![x] = Idle]
Goes(x, pc) == call' = [call EXCEPT ![x].pc = pc]

\* The places where a process holds a browser session.
InSession == {"preparing", "authorizing", "committing", "rechecking", "acting", "verifying",
              "looking", "closing"}

-----------------------------------------------------------------------------
(* The cart as a session reads it.                                         *)

ItemOf(site) ==
    [inventoryType |-> "CAMPING", campgroundId |-> "ours", siteId |-> site,
     arrival |-> Arrival, departure |-> Departure, nights |-> Absent]

\* The answers of the cart endpoint, complete or missing.
Responses ==
    LET items == CHOOSE s \in [1 .. Cardinality(cart) -> cart] : \A i, j \in DOMAIN s : s[i] = s[j] => i = j
        answer(account) ==
            [kind |-> "payload",
             payload |-> [account |-> account, expiresIn |-> 0, untimed |-> <<>>, modification |-> <<>>,
                          reservations |-> [i \in DOMAIN items |-> ItemOf(items[i])]]]
    IN  {answer(TRUE), answer(FALSE), [kind |-> "none"], [kind |-> "failed"]}

\* The cart page, rendered or not.
Screens ==
    {[main |-> main, empty |-> cart = {}, items |-> Cardinality(cart), spinner |-> FALSE,
      glances |-> <<>>, moment |-> [challenge |-> FALSE, normal |-> TRUE]] : main \in BOOLEAN}

Inspections(target) ==
    {inspectRecreationCartInSession(response, ui, target) : response \in Responses, ui \in Screens}

-----------------------------------------------------------------------------
(* The browser.                                                            *)

\* launchRecreationContext: a profile that is in use ends the call, as any other
\* failure to launch does.
Launch(x) ==
    /\ call[x].pc = "launching"
    /\ \/ Ends(x) /\ UNCHANGED browser
       \/ /\ browser = None
          /\ browser' = x
          /\ Goes(x, IF call[x].kind = "capture" THEN "preparing" ELSE "looking")
    /\ UNCHANGED <<rows, outside, ghosts, mishaps>>

\* Faulty variant: a session that proved nothing is left open.
CloseWhenProved(x) ==
    /\ call[x].pc = "closing"
    /\ browser' = IF call[x].saw = None THEN browser ELSE None
    /\ IF call[x].saw = None THEN Ends(x) ELSE Goes(x, "holding")
    /\ UNCHANGED <<rows, outside, ghosts, mishaps>>

\* The finally of every session; what proved the hold is still in hand.
Close(x) ==
    /\ call[x].pc = "closing"
    /\ browser' = None
    /\ IF call[x].saw = None THEN Ends(x) ELSE Goes(x, "holding")
    /\ UNCHANGED <<rows, outside, ghosts, mishaps>>

-----------------------------------------------------------------------------
(* captureRecreationCart.                                                  *)

\* The gates pass and the attempt is AVAILABLE; anything else is refused.
StartCapture(x) ==
    /\ call[x].pc = "idle"
    /\ \E a \in Attempts, site \in Sites :
          /\ attempts[a].state = "AVAILABLE"
          /\ call' = [call EXCEPT ![x] = [Idle EXCEPT
                 !.pc = "launching", !.kind = "capture", !.attempt = a, !.site = site]]
    /\ UNCHANGED <<rows, browser, outside, ghosts, mishaps>>

\* inspectReadinessInSession and the first half of the callback: any failure
\* ends the session before anything is committed.
Prepare(x) ==
    LET target == TargetOf(call[x].site) IN
    /\ call[x].pc = "preparing"
    /\ \E page \in Pages(call[x].site), response \in Responses, ui \in Screens :
          LET evidence == inspectReadinessInSession(page, response, ui, target) IN
          IF evidence.failed THEN Goes(x, "closing")
          ELSE IF readinessFailure(evidence, target) # None THEN Goes(x, "closing")
          ELSE Goes(x, "authorizing")
    /\ UNCHANGED <<rows, browser, outside, ghosts, mishaps>>

\* beginCartCapture reads the attempt, which must admit CARTING.
BeginCartCapture(x) ==
    LET row == attempts[call[x].attempt] IN
    /\ call[x].pc = "authorizing"
    /\ IF transitionWorkflow(row.state, "CARTING") = "transitioned"
       THEN call' = [call EXCEPT ![x].pc = "committing", ![x].seen = row]
       ELSE Goes(x, "closing")
    /\ UNCHANGED <<rows, browser, outside, ghosts, mishaps>>

\* Faulty variant: the target is left to be written with the hold.
CommitStateOnly(x) ==
    LET a == call[x].attempt IN
    /\ call[x].pc = "committing"
    /\ IF attempts[a].state = call[x].seen.state
       THEN /\ attempts' = [attempts EXCEPT ![a] = [call[x].seen EXCEPT !.state = "CARTING"]]
            /\ commits' = [commits EXCEPT ![a] = @ + 1]
            /\ Goes(x, "rechecking")
       ELSE Goes(x, "closing") /\ UNCHANGED <<attempts, commits>>
    /\ UNCHANGED <<browser, outside, clicks, proofs, moves, mishaps>>

\* ... and writes it back with the target, unless its state changed meanwhile.
CommitCarting(x) ==
    LET a == call[x].attempt IN
    /\ call[x].pc = "committing"
    /\ IF attempts[a].state = call[x].seen.state
       THEN /\ attempts' = [attempts EXCEPT ![a] = [call[x].seen EXCEPT
                   !.state = "CARTING", !.target = TargetOf(call[x].site)]]
            /\ commits' = [commits EXCEPT ![a] = @ + 1]
            /\ Goes(x, "rechecking")
       ELSE Goes(x, "closing") /\ UNCHANGED <<attempts, commits>>
    /\ UNCHANGED <<browser, outside, clicks, proofs, moves, mishaps>>

\* The cart again, after the commit: the target is there already, or the cart
\* must still be empty.
Recheck(x) ==
    LET target == TargetOf(call[x].site) IN
    /\ call[x].pc = "rechecking"
    /\ \E inspection \in Inspections(target) :
          IF inspection.status = "failed" THEN Goes(x, "closing")
          ELSE IF cartInspectionExactlyMatches(inspection, target)
          THEN call' = [call EXCEPT ![x].pc = "closing", ![x].saw = cart]
          ELSE IF inspection.status = "EMPTY" THEN Goes(x, "acting")
          ELSE Goes(x, "closing")
    /\ UNCHANGED <<rows, browser, outside, ghosts, mishaps>>

\* The page once more, and the click.  It may fail before it has left.
Act(x) ==
    LET a == call[x].attempt IN
    /\ call[x].pc = "acting"
    /\ \E page \in Pages(call[x].site) :
          IF page.siteId # call[x].site \/ ~ MayClick(page, TargetOf(call[x].site))
          THEN Goes(x, "closing") /\ UNCHANGED <<pending, clicks>>
          ELSE /\ Goes(x, "verifying")
               /\ \/ UNCHANGED <<pending, clicks>>
                  \/ /\ pending' = pending \cup {call[x].site}
                     /\ clicks' = [clicks EXCEPT ![a] = Append(@, call[x].site)]
    /\ UNCHANGED <<rows, browser, cart, commits, proofs, moves, mishaps>>

\* Faulty variant: a cart that is not verified is given another click.
VerifyOrActAgain(x) ==
    LET target == TargetOf(call[x].site) IN
    /\ call[x].pc = "verifying"
    /\ \E inspection \in Inspections(target) :
          IF inspection.status = "failed" THEN Goes(x, "closing")
          ELSE IF cartInspectionExactlyMatches(inspection, target)
          THEN call' = [call EXCEPT ![x].pc = "closing", ![x].saw = cart]
          ELSE IF inspection.status = "EMPTY" THEN Goes(x, "acting")
          ELSE Goes(x, "closing")
    /\ UNCHANGED <<rows, browser, outside, ghosts, mishaps>>

\* A fresh reading proves the hold or leaves the outcome ambiguous.
Verify(x) ==
    LET target == TargetOf(call[x].site) IN
    /\ call[x].pc = "verifying"
    /\ \E inspection \in Inspections(target) :
          IF inspection.status # "failed" /\ cartInspectionExactlyMatches(inspection, target)
          THEN call' = [call EXCEPT ![x].pc = "closing", ![x].saw = cart]
          ELSE Goes(x, "closing")
    /\ UNCHANGED <<rows, browser, outside, ghosts, mishaps>>

\* completeCartCapture reads the attempt, which must be CARTING; its target is
\* not looked at.
CompleteCartCapture(x) ==
    LET row == attempts[call[x].attempt] IN
    /\ call[x].pc = "holding"
    /\ IF transitionWorkflow(row.state, "CART_HELD") = "transitioned"
       THEN call' = [call EXCEPT ![x].pc = "completing", ![x].seen = row]
       ELSE Ends(x)
    /\ UNCHANGED <<rows, browser, outside, ghosts, mishaps>>

CommitHeld(x) ==
    LET a == call[x].attempt IN
    /\ call[x].pc = "completing"
    /\ Ends(x)
    /\ IF attempts[a].state = call[x].seen.state
       THEN /\ attempts' = [attempts EXCEPT ![a] = [call[x].seen EXCEPT !.state = "CART_HELD"]]
            /\ proofs' = [proofs EXCEPT ![a] = @ \cup {call[x].saw}]
       ELSE UNCHANGED <<attempts, proofs>>
    /\ UNCHANGED <<browser, outside, commits, clicks, moves, mishaps>>

-----------------------------------------------------------------------------
(* reconcileRecreationCart and the sessions that only look.                *)

\* The attempt is CARTING with a target.
StartReconcile(x) ==
    /\ call[x].pc = "idle"
    /\ \E a \in Attempts :
          /\ attempts[a].state = "CARTING"
          /\ attempts[a].target # None
          /\ call' = [call EXCEPT ![x] = [Idle EXCEPT
                 !.pc = "rereading", !.kind = "reconcile", !.attempt = a, !.seen = attempts[a]]]
    /\ UNCHANGED <<rows, browser, outside, ghosts, mishaps>>

\* inspectRecreationCart reads the attempt again for the target it asks for.
RereadTarget(x) ==
    LET target == attempts[call[x].attempt].target IN
    /\ call[x].pc = "rereading"
    /\ IF target = None THEN Ends(x)
       ELSE call' = [call EXCEPT ![x].pc = "launching", ![x].site = target.siteId]
    /\ UNCHANGED <<rows, browser, outside, ghosts, mishaps>>

\* Readiness, inspection, observation and the manual browser: a session that
\* changes neither a row nor the cart.
StartLook(x) ==
    /\ call[x].pc = "idle"
    /\ call' = [call EXCEPT ![x] = [Idle EXCEPT !.pc = "launching", !.kind = "look"]]
    /\ UNCHANGED <<rows, browser, outside, ghosts, mishaps>>

\* Faulty variant: whatever is in the cart is taken for the hold.
LookLoosely(x) ==
    /\ call[x].pc = "looking"
    /\ IF call[x].kind = "look" THEN Goes(x, "closing")
       ELSE \E inspection \in Inspections(TargetOf(call[x].site)) :
            IF inspection.status \in {"EXACT_MATCH", "MULTIPLE_ITEMS", "MISMATCH"}
            THEN call' = [call EXCEPT ![x].pc = "closing", ![x].saw = cart]
            ELSE Goes(x, "closing")
    /\ UNCHANGED <<rows, browser, outside, ghosts, mishaps>>

\* A reconciliation compares the reading with the target of its first read.
Look(x) ==
    /\ call[x].pc = "looking"
    /\ IF call[x].kind = "look" THEN Goes(x, "closing")
       ELSE \E inspection \in Inspections(TargetOf(call[x].site)) :
            IF /\ inspection.status # "failed"
               /\ cartInspectionExactlyMatches(inspection, call[x].seen.target)
            THEN call' = [call EXCEPT ![x].pc = "closing", ![x].saw = cart]
            ELSE Goes(x, "closing")
    /\ UNCHANGED <<rows, browser, outside, ghosts, mishaps>>

-----------------------------------------------------------------------------
(* transitionAttempt, as an operator runs it.                              *)

\* Rejected and repeated requests change nothing but the audit trail.
StartTransition(x) ==
    /\ call[x].pc = "idle"
    /\ \E a \in Attempts, to \in Requests :
          /\ Len(moves[a]) < MaxMoves
          /\ transitionWorkflow(attempts[a].state, to) = "transitioned"
          /\ call' = [call EXCEPT ![x] = [Idle EXCEPT
                 !.pc = "moving", !.kind = to, !.attempt = a, !.seen = attempts[a]]]
    /\ UNCHANGED <<rows, browser, outside, ghosts, mishaps>>

\* Faulty variant: the state read is trusted.
MoveUnchecked(x) ==
    LET a == call[x].attempt IN
    /\ call[x].pc = "moving"
    /\ Ends(x)
    /\ attempts' = [attempts EXCEPT ![a] = [call[x].seen EXCEPT !.state = call[x].kind]]
    /\ moves' = [moves EXCEPT ![a] = Append(@, call[x].kind)]
    /\ UNCHANGED <<browser, outside, commits, clicks, proofs, mishaps>>

\* The attempt as it was read, target included, unless its state changed.
Move(x) ==
    LET a == call[x].attempt IN
    /\ call[x].pc = "moving"
    /\ Ends(x)
    /\ IF attempts[a].state = call[x].seen.state
       THEN /\ attempts' = [attempts EXCEPT ![a] = [call[x].seen EXCEPT !.state = call[x].kind]]
            /\ moves' = [moves EXCEPT ![a] = Append(@, call[x].kind)]
       ELSE UNCHANGED <<attempts, moves>>
    /\ UNCHANGED <<browser, outside, commits, clicks, proofs, mishaps>>

-----------------------------------------------------------------------------
(* The outside.                                                            *)

\* A click takes effect, or is refused: the site may be gone.
Lands(site) ==
    /\ site \in pending
    /\ pending' = pending \ {site}
    /\ cart' \in {cart, cart \cup {site}}
    /\ UNCHANGED <<rows, browser, call, ghosts, mishaps>>

\* A hold expires, or the account's owner adds and removes items.
CartChanges ==
    /\ mishaps < MaxMishaps
    /\ mishaps' = mishaps + 1
    /\ cart' \in SUBSET Sites \ {cart}
    /\ UNCHANGED <<rows, browser, call, pending, ghosts>>

\* The process dies; its browser goes with it, or leaves its lock behind.
Crash(x) ==
    /\ call[x].pc # "idle"
    /\ mishaps < MaxMishaps
    /\ mishaps' = mishaps + 1
    /\ Ends(x)
    /\ browser' \in IF browser = x THEN {None, Stale} ELSE {browser}
    /\ UNCHANGED <<rows, outside, ghosts>>

\* A transaction throws: a capture that has not committed closes its session, any
\* other call ends.
StoreFails(x) ==
    /\ call[x].pc \in {"authorizing", "committing", "holding", "completing", "moving"}
    /\ mishaps < MaxMishaps
    /\ mishaps' = mishaps + 1
    /\ IF call[x].pc \in InSession THEN Goes(x, "closing") ELSE Ends(x)
    /\ UNCHANGED <<rows, browser, outside, ghosts>>

\* A stale lock is removed by hand.
RemoveLock ==
    /\ browser = Stale
    /\ browser' = None
    /\ UNCHANGED <<rows, call, outside, ghosts, mishaps>>

-----------------------------------------------------------------------------

Init ==
    /\ attempts = [a \in Attempts |-> [state |-> "AVAILABLE", target |-> None]]
    /\ browser = None
    /\ call = [x \in Processes |-> Idle]
    /\ cart = {} /\ pending = {}
    /\ commits = [a \in Attempts |-> 0]
    /\ clicks = [a \in Attempts |-> <<>>]
    /\ proofs = [a \in Attempts |-> {}]
    /\ moves = [a \in Attempts |-> <<>>]
    /\ mishaps = 0

Next ==
    \/ \E x \in Processes :
          \/ StartCapture(x) \/ StartReconcile(x) \/ StartLook(x) \/ StartTransition(x)
          \/ Launch(x) \/ Prepare(x) \/ BeginCartCapture(x) \/ CommitCarting(x) \/ Recheck(x)
          \/ Act(x) \/ Verify(x) \/ RereadTarget(x) \/ Look(x) \/ Close(x)
          \/ CompleteCartCapture(x) \/ CommitHeld(x) \/ Move(x) \/ Crash(x) \/ StoreFails(x)
    \/ \E site \in Sites : Lands(site)
    \/ CartChanges
    \/ RemoveLock

Spec == Init /\ [][Next]_vars

-----------------------------------------------------------------------------
(* Properties.                                                             *)

\* The state has its types, and the profile is locked exactly while a session of a
\* live process uses it: no two sessions share it, and none leaves it locked.
TypeOK ==
    /\ attempts \in [Attempts -> AttemptRows]
    /\ \A x \in Processes :
          call[x].pc \in {"committing", "completing", "moving"} => call[x].seen \in AttemptRows
    /\ browser \in Processes \cup {None, Stale}
    /\ cart \subseteq Sites /\ pending \subseteq Sites
    /\ mishaps \in 0 .. MaxMishaps
    /\ \A x \in Processes : browser = x <=> call[x].pc \in InSession

Reopened(a) == Cardinality({i \in DOMAIN moves[a] : moves[a][i] = "AVAILABLE"})

\* Add to Cart is clicked at most once for an attempt, however many captures of it
\* run side by side, unless an operator has made it AVAILABLE again
\* (ARCHITECTURE.md:206).
OneClickPerAvailability == \A a \in Attempts : Len(clicks[a]) <= 1 + Reopened(a)

\* A click is on record before it leaves: whatever dies afterwards, an attempt
\* that no operator has moved is CARTING or CART_HELD with the target that was
\* clicked for, which is what a reconciliation needs.
ClickIsOnRecord ==
    \A a \in Attempts : (clicks[a] # <<>> /\ moves[a] = <<>>) =>
        /\ attempts[a].state \in {"CARTING", "CART_HELD"}
        /\ attempts[a].target = TargetOf(clicks[a][1])

\* A hold was proved: some session has seen the cart with this target and nothing
\* else, unless an operator moved the attempt between the reading and the update,
\* which compares the state alone.
HoldIsProved ==
    \A a \in Attempts : (attempts[a].state = "CART_HELD" /\ moves[a] = <<>>) =>
        proofs[a] = {{attempts[a].target.siteId}}

\* However stale the row a process has read, an attempt only moves along the table:
\* what has ended stays ended.
AttemptsFollowTheTable ==
    [][\A a \in Attempts : transitionWorkflow(attempts[a].state, attempts'[a].state) # "rejected"]_vars

=============================================================================
