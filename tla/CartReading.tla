------------------------------- MODULE CartReading -------------------------------
(***************************************************************************)
(* What SatScout makes of the cart, and when it lets a session go on:      *)
(* src/src/integrations/recreation-gov/cart-capture.ts (the structured     *)
(* cart answer, its cross-check with the rendered cart, the readiness      *)
(* evidence and the last look at the page before Add to Cart) and the      *)
(* judgements of src/src/application/recreation-cart.ts.                   *)
(*                                                                         *)
(* A response is one answer of /api/cart/shoppingcart, or none; a ui is    *)
(* what the cart page settles on.  Both are records of what they show.     *)
(***************************************************************************)
EXTENDS RecreationPage

CONSTANT None

-----------------------------------------------------------------------------
(* The structured answer.                                                  *)

nightsFromDates(arrival, departure) ==
    IF arrival = Absent \/ departure = Absent THEN Absent
    ELSE IF departure <= arrival THEN Absent
    ELSE Cardinality(calendarDatesForStay(arrival, departure))

\* Everything in the cart, or Absent when a list or an entry is not recognized.
apiCartItems(payload) ==
    IF payload.reservations = Absent \/ payload.untimed = Absent THEN Absent
    ELSE LET items == payload.reservations \o payload.untimed \o payload.modification IN
         IF \E i \in DOMAIN items : items[i] = Absent THEN Absent ELSE items

\* The number of nights is the one given, or the one the dates make.
cartItemFromApi(raw, holdStatus) ==
    [inventoryType |-> raw.inventoryType, campgroundId |-> raw.campgroundId, siteId |-> raw.siteId,
     arrival |-> raw.arrival, departure |-> raw.departure, holdStatus |-> holdStatus,
     numberOfNights |-> IF raw.nights # Absent THEN raw.nights
                        ELSE nightsFromDates(raw.arrival, raw.departure)]

Stay(target) == Cardinality(calendarDatesForStay(target.arrival, target.departure))

\* Faulty variant: the number of nights is not compared.
ClassifyByDates(target, items) ==
    IF Len(items) > 1 THEN "MULTIPLE_ITEMS"
    ELSE IF items = <<>> THEN "UNKNOWN"
    ELSE LET item == items[1] IN
         IF \/ item.inventoryType \notin {Absent, "CAMPING"}
            \/ \E f \in TargetFields : item[f] \notin {Absent, target[f]}
         THEN "MISMATCH"
         ELSE IF \E f \in TargetFields \cup {"numberOfNights"} : item[f] = Absent THEN "UNKNOWN"
         ELSE "EXACT_MATCH"

\* One item, of which everything known is the target's, is the target when
\* everything is known.
classifyCartItems(target, items) ==
    IF Len(items) > 1 THEN "MULTIPLE_ITEMS"
    ELSE IF items = <<>> THEN "UNKNOWN"
    ELSE LET item == items[1] IN
         IF \/ item.inventoryType \notin {Absent, "CAMPING"}
            \/ \E f \in TargetFields : item[f] \notin {Absent, target[f]}
         THEN "MISMATCH"
         ELSE IF \/ \E f \in TargetFields \cup {"numberOfNights"} : item[f] = Absent
                 \/ item.holdStatus = "UNKNOWN"
         THEN "UNKNOWN"
         ELSE IF item.numberOfNights # Stay(target) THEN "MISMATCH"
         ELSE "EXACT_MATCH"

Inspection(target, status, authentication, challenge, items) ==
    [status |-> status, authentication |-> authentication, challenge |-> challenge,
     requested |-> target, items |-> items]

\* An account identifier is what proves a signed-in answer.
inspectRecreationCartApiPayload(payload, target) ==
    IF payload = Absent THEN Inspection(target, "UNKNOWN", "UNKNOWN", "NONE", <<>>)
    ELSE LET authentication == IF payload.account THEN "AUTHENTICATED" ELSE "UNKNOWN"
             raw == apiCartItems(payload)
         IN  IF raw = Absent THEN Inspection(target, "UNKNOWN", authentication, "NONE", <<>>)
             ELSE LET hold == IF raw # <<>> /\ payload.expiresIn > 0 THEN "HELD" ELSE "IN_CART"
                      items == [i \in DOMAIN raw |-> cartItemFromApi(raw[i], hold)]
                  IN  Inspection(target,
                          IF items = <<>> THEN "EMPTY" ELSE classifyCartItems(target, items),
                          authentication, "NONE", items)

-----------------------------------------------------------------------------
(* The rendered cart.                                                      *)

cartUiState(ui) ==
    IF ~ ui.main THEN "LOADING"
    ELSE IF ui.empty THEN "EMPTY"
    ELSE IF ui.items > 0 THEN "ITEMS"
    ELSE IF ui.spinner THEN "LOADING"
    ELSE "UNKNOWN"

\* Faulty variant: only an empty cart page is held against the answer.
UiContradictsWhenEmpty(api, ui) == api.status # "EMPTY" /\ cartUiState(ui) = "EMPTY"

uiContradictsApi(api, ui) ==
    \/ api.status = "EMPTY" /\ cartUiState(ui) = "ITEMS"
    \/ api.status # "EMPTY" /\ cartUiState(ui) = "EMPTY"
    \/ api.items # <<>> /\ cartUiState(ui) = "ITEMS" /\ ui.items # Len(api.items)

\* No answer, a refusal, an error, or a payload cross-checked with the page.
\* "failed" is a navigation that threw.
inspectRecreationCartInSession(response, ui, target) ==
    LET challenge == detectChallengeState(ui.moment)
        shown == detectAuthenticationState(ui.glances)
    IN  CASE response.kind = "failed" -> [status |-> "failed"]
          [] response.kind = "none" ->
                Inspection(target, IF cartUiState(ui) = "LOADING" THEN "LOADING" ELSE "UNKNOWN",
                           "UNKNOWN", challenge, <<>>)
          [] response.kind = "refused" ->
                Inspection(target, "UNKNOWN", "NOT_AUTHENTICATED", challenge, <<>>)
          [] response.kind = "error" -> Inspection(target, "UNKNOWN", "UNKNOWN", challenge, <<>>)
          [] OTHER ->
                LET api == inspectRecreationCartApiPayload(response.payload, target) IN
                [api EXCEPT
                    !.status = IF uiContradictsApi(api, ui) THEN "UNKNOWN" ELSE @,
                    !.authentication =
                        IF @ = "UNKNOWN" /\ shown = "NOT_AUTHENTICATED" THEN shown ELSE @]

-----------------------------------------------------------------------------
(* The judgements of recreation-cart.ts.                                   *)

cartInspectionExactlyMatches(inspection, target) ==
    /\ inspection.status = "EXACT_MATCH"
    /\ inspection.authentication = "AUTHENTICATED"
    /\ inspection.challenge = "NONE"
    /\ inspection.requested = target
    /\ Len(inspection.items) = 1
    /\ LET item == inspection.items[1] IN
       /\ \A f \in TargetFields : item[f] = target[f]
       /\ item.numberOfNights = Stay(target)
       /\ item.holdStatus \in {"IN_CART", "HELD"}

\* Faulty variant: a cart that could not be read is let through.
UnknownIsTolerated(inspection, target) ==
    IF inspection.authentication # "AUTHENTICATED" THEN "AUTH_UNKNOWN"
    ELSE IF inspection.status \in {"EMPTY", "UNKNOWN", "LOADING"} THEN None
    ELSE "CART_NOT_EMPTY"

cartInspectionFailure(inspection, target) ==
    IF inspection.authentication = "NOT_AUTHENTICATED" THEN "AUTH_REQUIRED"
    ELSE IF inspection.authentication = "UNKNOWN" THEN "AUTH_UNKNOWN"
    ELSE IF inspection.challenge = "HUMAN_VERIFICATION_REQUIRED" THEN "HUMAN_VERIFICATION_REQUIRED"
    ELSE IF inspection.challenge = "UNKNOWN" THEN "CHALLENGE_UNKNOWN"
    ELSE IF inspection.status = "EMPTY" THEN None
    ELSE IF cartInspectionExactlyMatches(inspection, target) THEN "CART_ALREADY_CONTAINS_TARGET"
    ELSE IF inspection.status = "MISMATCH" THEN "CART_NOT_EMPTY"
    ELSE IF inspection.status = "MULTIPLE_ITEMS" THEN "CART_CONFLICT"
    ELSE "CART_STRUCTURE_UNKNOWN"

\* In this order: the challenge, the account, the identity, the dates, the
\* nights.
preflightFailure(observation, authentication, target) ==
    LET nights == observation.availability.nights IN
    IF observation.challenge = "HUMAN_VERIFICATION_REQUIRED" THEN "HUMAN_VERIFICATION_REQUIRED"
    ELSE IF observation.challenge = "UNKNOWN" THEN "CHALLENGE_UNKNOWN"
    ELSE IF authentication = "NOT_AUTHENTICATED" THEN "AUTH_REQUIRED"
    ELSE IF authentication = "UNKNOWN" THEN "AUTH_UNKNOWN"
    ELSE IF observation.targetMatch = "MISMATCH"
    THEN IF observation.mismatches \cap {"arrival", "departure"} # {} THEN "DATES_MISMATCH"
         ELSE "TARGET_MISMATCH"
    ELSE IF observation.targetMatch # "MATCH" THEN "TARGET_UNKNOWN"
    ELSE IF observation.availability.overall = "UNKNOWN" THEN "AVAILABILITY_UNKNOWN"
    ELSE IF observation.availability.overall # "AVAILABLE" THEN "AVAILABILITY_NOT_AVAILABLE"
    ELSE IF \/ DOMAIN nights # calendarDatesForStay(target.arrival, target.departure)
            \/ \E d \in DOMAIN nights : nights[d] # "AVAILABLE"
    THEN "AVAILABILITY_UNKNOWN"
    ELSE None

readinessFailure(evidence, target) ==
    LET observed == preflightFailure(evidence.observation, evidence.authentication, target)
        cart == cartInspectionFailure(evidence.cart, target)
    IN  IF observed # None THEN observed
        ELSE IF cart # None THEN cart
        ELSE IF evidence.dateSelection = "VERIFIED" THEN None
        ELSE IF evidence.dateSelection = "HUMAN_VERIFICATION_REQUIRED" THEN evidence.dateSelection
        ELSE "DATES_UNKNOWN"

-----------------------------------------------------------------------------
(* The session.                                                            *)

\* What the page says of the selected stay: the exact range, or both dates in
\* words, or both days marked in the calendar.
selectedStayMatches(stay, target) ==
    \/ stay.range = [arrival |-> target.arrival, departure |-> target.departure]
    \/ stay.arrival = target.arrival /\ stay.departure = target.departure
    \/ /\ stay.arrival = Absent /\ stay.departure = Absent
       /\ {target.arrival, target.departure} \subseteq stay.marked

\* Arrival and departure each have a control to click, departure from where the
\* calendar was left for arrival.
BothDaysAreClicked(calendar, from, target) ==
    LET left == moveCalendarToMonth(calendar, from, calendarMonth(target.arrival)).first
    IN  /\ findRequestedCalendarDateControl(calendar, from, target.arrival)
        /\ findRequestedCalendarDateControl(calendar, left, target.departure)

\* Faulty variant: both days are clicked, and that is taken for a selection.
SelectWithoutLooking(page, from, target) ==
    \/ selectedStayMatches(page.stay, target)
    \/ page.enterDates = 1 /\ BothDaysAreClicked(page.calendar, from, target)

\* Nothing is clicked when the stay is selected already; after both days are, the
\* page must say so.  The calendar shows the months from "from" on.
selectExactStay(page, from, target) ==
    \/ selectedStayMatches(page.stay, target)
    \/ /\ page.enterDates = 1
       /\ BothDaysAreClicked(page.calendar, from, target)
       /\ selectedStayMatches(page.stayAfter, target)

\* The cart decides who is signed in, not the page.
combinedAuthentication(cart) == cart.authentication

\* The dates are selected only where everything else is ready; page is what the
\* campsite shows when the session comes back to it, its calendar from the start.
DateSelection(observation, cart, page, target) ==
    LET challenge == detectChallengeState(page.after) IN
    IF ~ /\ combinedAuthentication(cart) = "AUTHENTICATED"
         /\ observation.challenge = "NONE" /\ observation.targetMatch = "MATCH"
         /\ observation.availability.overall = "AVAILABLE"
         /\ cart.challenge = "NONE" /\ cart.status = "EMPTY"
    THEN "SKIPPED"
    ELSE IF page.siteId # target.siteId THEN "UNKNOWN"
    ELSE IF challenge = "HUMAN_VERIFICATION_REQUIRED" THEN challenge
    ELSE IF selectExactStay(page, page.calendar.first, target) /\ challenge = "NONE" THEN "VERIFIED"
    ELSE "UNKNOWN"

\* The campsite is observed, then the cart is read, then the dates are selected;
\* a challenge ends it, and a failed navigation throws.
inspectReadinessInSession(page, response, ui, target) ==
    LET observation == observeRecreationMissionTargetOnPage(page, target)
        cart == inspectRecreationCartInSession(response, ui, target)
        skipped == Inspection(target, "UNKNOWN", "UNKNOWN", observation.challenge, <<>>)
    IN  IF observation.challenge = "failed" THEN [failed |-> TRUE]
        ELSE IF observation.challenge # "NONE"
        THEN [failed |-> FALSE, authentication |-> "UNKNOWN", observation |-> observation,
              cart |-> skipped, dateSelection |-> "SKIPPED"]
        ELSE IF cart.status = "failed" THEN [failed |-> TRUE]
        ELSE [failed |-> FALSE, authentication |-> combinedAuthentication(cart),
              observation |-> observation, cart |-> cart,
              dateSelection |-> DateSelection(observation, cart, page, target)]

\* captureVerifiedCartOnPage, up to the click: the same page, looked at again, and
\* its calendar left where the dates were read.
MayClick(page, target) ==
    LET identity == [f \in TargetFields |->
            IF f \in IdentityFields THEN readObservedTarget(page)[f] ELSE target[f]]
        labels == observeRequestedCalendarDates(page.calendar, target.arrival, target.departure)
        left == MonthsOfStay(page.calendar, target.arrival, target.departure)
                    [calendarMonth(target.departure)].first
    IN  /\ detectChallengeState(page.before) = "NONE"
        /\ verifyRecreationTarget(target, identity) = "MATCH"
        /\ summarizeAvailability(target.arrival, target.departure, labels).overall = "AVAILABLE"
        /\ selectExactStay(page, left, target)
        /\ detectChallengeState(page.after) = "NONE"
        /\ selectedStayMatches(page.stayAfter, target)
        /\ page.addToCart = 1

=============================================================================
