--------------------------------- MODULE MCCart ---------------------------------
(***************************************************************************)
(* One instance of the reservation cart: a behaviour is a run of           *)
(* CartCapture or, while that does not move, a single question put to the  *)
(* judgements of RecreationPage and CartReading.                           *)
(***************************************************************************)
EXTENDS CartCapture

CONSTANTS a1, x1, x2, s1, s2

VARIABLE subject

Symmetry == Permutations({x1, x2})

-----------------------------------------------------------------------------
(* Values for the constants.                                               *)

OperatorRequests == {"WAITING", "AVAILABLE", "CARTING", "PAUSED", "ABORTED"}

Calm == [challenge |-> FALSE, normal |-> TRUE]
Challenged == [challenge |-> TRUE, normal |-> TRUE]
Blank == [challenge |-> FALSE, normal |-> FALSE]

SignedIn == [banner |-> TRUE, loggedOut |-> FALSE, account |-> TRUE]
SignedOut == [banner |-> TRUE, loggedOut |-> TRUE, account |-> FALSE]
Undecided == [banner |-> TRUE, loggedOut |-> TRUE, account |-> TRUE]

Control(date, label) == [kind |-> "button", date |-> date, label |-> label, enabled |-> TRUE]

\* The calendar as it should be: every day of the stay and the one after it.
OpenCalendar ==
    [first |-> 1, shown |-> 2, months |-> 0 .. 6,
     controls |-> {Control(d, "Available") : d \in Arrival .. Departure}]

Unselected == [range |-> Absent, arrival |-> Absent, departure |-> Absent, marked |-> {}]
Selected == [Unselected EXCEPT !.range = [arrival |-> Arrival, departure |-> Departure]]

GoodPage(site) ==
    [siteId |-> site, before |-> Calm, after |-> Calm, heading |-> TRUE, glances |-> <<SignedIn>>,
     links |-> {[id |-> "ours", name |-> "campground"]}, calendar |-> OpenCalendar,
     stay |-> Unselected, stayAfter |-> Selected, enterDates |-> 1, addToCart |-> 1]

\* The page of a capture: as it should be, or asking for a human.
SessionPages(site) == {GoodPage(site), [GoodPage(site) EXCEPT !.after = Challenged]}

-----------------------------------------------------------------------------
(* The questions.                                                          *)

ours == TargetOf(s1)

\* Why a session is not let on (preflightFailure, cartInspectionFailure).
Failures ==
    {"AUTH_REQUIRED", "AUTH_UNKNOWN", "HUMAN_VERIFICATION_REQUIRED", "CHALLENGE_UNKNOWN", "DATES_MISMATCH",
     "TARGET_MISMATCH", "TARGET_UNKNOWN", "AVAILABILITY_UNKNOWN", "AVAILABILITY_NOT_AVAILABLE",
     "CART_ALREADY_CONTAINS_TARGET", "CART_NOT_EMPTY", "CART_CONFLICT", "CART_STRUCTURE_UNKNOWN",
     "DATES_UNKNOWN"}

\* Days are numbers, and a stay has a night (addDateOrderIssue); no failure is
\* none.
ASSUME QuestionAssumption ==
    /\ Arrival \in Int /\ Departure \in Int /\ Arrival < Departure
    /\ MaxMovements \in Nat
    /\ None \notin Failures

\* What a page may show instead, one or two things at a time.
Moments == {Calm, Challenged, Blank}

PageAt(before, after, heading) ==
    [GoodPage(s1) EXCEPT !.before = before, !.after = after, !.heading = heading]

Links == SUBSET {[id |-> "ours", name |-> "campground"], [id |-> "theirs", name |-> "nearby"]}
Glances == {<<>>, <<SignedIn>>, <<SignedOut>>, <<Undecided, SignedOut>>, <<Undecided>>}

PageOf(site, links, glances) ==
    [GoodPage(s1) EXCEPT !.siteId = site, !.links = links, !.glances = glances]

Pages1 ==
    {PageAt(before, after, heading) : before \in Moments, after \in Moments, heading \in BOOLEAN}
    \cup
    {PageOf(site, links, glances) : site \in {s1, s2, Absent}, links \in Links, glances \in Glances}

\* Every label on every day, with a second button where a day has two.
Labels == {"Available", "Reserved", "Open to walk-ins", "missing"}

ControlsOf(labels, twice) ==
    {Control(d, labels[d]) : d \in {e \in Arrival .. Departure : labels[e] # "missing"}}
    \cup (IF twice THEN {Control(Arrival, "Reserved")} ELSE {})

PageLabelled(labels, twice) ==
    [GoodPage(s1) EXCEPT !.calendar = [OpenCalendar EXCEPT !.controls = ControlsOf(labels, twice)]]

Stays ==
    {Selected, Unselected, [Unselected EXCEPT !.arrival = Arrival],
     [Unselected EXCEPT !.arrival = Arrival, !.departure = Departure],
     [Unselected EXCEPT !.marked = {Arrival, Departure}]}

PageSelecting(before, after, n) ==
    [GoodPage(s1) EXCEPT !.stay = before, !.stayAfter = after, !.enterDates = n]

Pages2 ==
    {PageLabelled(labels, twice) : labels \in [Arrival .. Departure -> Labels], twice \in BOOLEAN}
    \cup
    {PageSelecting(before, after, n) : before \in {Unselected, Selected}, after \in Stays, n \in 0 .. 2}

Raw(site, arrival, nights, type) ==
    [inventoryType |-> type, campgroundId |-> "ours", siteId |-> site, arrival |-> arrival,
     departure |-> Departure, nights |-> nights]

RawItems ==
    {Raw(site, arrival, nights, type) : site \in {s1, s2, Absent}, arrival \in {Arrival, Arrival - 1, Absent},
        nights \in {Departure - Arrival, 1, Absent}, type \in {"CAMPING", "PERMIT", Absent}}

Ticket == [Raw(Absent, Absent, Absent, "TICKET") EXCEPT !.campgroundId = Absent]

\* One timed entry of any kind, with or without an entry in another list.
Timed == {<<>>, Absent, <<Absent>>} \cup {<<raw>> : raw \in RawItems}
Untimed == {<<>>, <<Ticket>>, Absent}
Modified == {<<>>, <<Ticket>>}

Payload(account, timed, untimed, modification) ==
    [account |-> account, expiresIn |-> 0, reservations |-> timed, untimed |-> untimed,
     modification |-> modification]

Payloads ==
    {Payload(account, timed, untimed, modification) :
        account \in BOOLEAN, timed \in Timed, untimed \in Untimed, modification \in Modified}
    \cup {Absent}

Screen(main, items, glances) ==
    [main |-> main, empty |-> items = 0, items |-> items, spinner |-> FALSE, glances |-> glances,
     moment |-> Calm]

Headers == {<<SignedIn>>, <<SignedOut>>}
Counts == 0 .. 2

Screens1 ==
    {Screen(main, items, glances) : main \in BOOLEAN, items \in Counts, glances \in Headers}

EmptyAnswer ==
    [kind |-> "payload",
     payload |-> [account |-> TRUE, expiresIn |-> 0, reservations |-> <<>>, untimed |-> <<>>,
                  modification |-> <<>>]]
EmptyScreen ==
    [main |-> TRUE, empty |-> TRUE, items |-> 0, spinner |-> FALSE, glances |-> <<SignedIn>>,
     moment |-> Calm]

Answers ==
    {[kind |-> k] : k \in {"none", "refused", "error", "failed"}}
    \cup {EmptyAnswer, [EmptyAnswer EXCEPT !.payload.account = FALSE],
          [EmptyAnswer EXCEPT !.payload.reservations = <<ItemOf(s1)>>]}

\* The cart is read.
AsksCart ==
    \E payload \in Payloads, ui \in Screens1 :
        subject = [kind |-> "cart", response |-> [kind |-> "payload", payload |-> payload], ui |-> ui]

\* A session prepares.
AsksReadiness ==
    \/ \E page \in Pages1 \cup Pages2, response \in Answers, ui \in {EmptyScreen, [EmptyScreen EXCEPT !.main = FALSE]} :
          subject = [kind |-> "readiness", page |-> page, response |-> response, ui |-> ui]

\* A month is looked for in a calendar that shows one or two and ends somewhere.
AsksCalendar ==
    \E first \in 0 .. 6, shown \in 1 .. 2, last \in 3 .. 6, month \in 0 .. 7 :
        /\ first <= last
        /\ subject = [kind |-> "calendar", month |-> month,
                      calendar |-> [first |-> first, shown |-> shown, months |-> 0 .. last, controls |-> {}]]

-----------------------------------------------------------------------------

CartInit ==
    /\ Init
    /\ subject = [kind |-> "session"] \/ AsksCart \/ AsksReadiness \/ AsksCalendar

CartNext ==
    \/ subject.kind = "session" /\ Next /\ UNCHANGED subject
    \/ subject.kind # "session" /\ UNCHANGED <<vars, subject>>

CartSpec == CartInit /\ [][CartNext]_<<vars, subject>>

Readable(payload) == payload # Absent /\ Absent \notin {payload.reservations, payload.untimed}

Everything(payload) == payload.reservations \o payload.untimed \o payload.modification

\* What the readings promise of the cart they were given: an exact match is one
\* item that is the target and nothing in another list, seen by a signed-in
\* account, and no rendered cart that says otherwise; a cart taken for empty has
\* nothing in any list; and no signed-in reading is called EXACT_MATCH and then
\* refused as evidence (inspectRecreationCartInSession and its judges).
CartIsReadRight ==
    subject.kind = "cart" =>
        LET payload == subject.response.payload
            inspection == inspectRecreationCartInSession(subject.response, subject.ui, ours)
            shows == IF subject.ui.main THEN {subject.ui.items} ELSE {0, 1, 2}
        IN  /\ cartInspectionExactlyMatches(inspection, ours) =>
                  /\ Readable(payload) /\ payload.account /\ Len(Everything(payload)) = 1 /\ 1 \in shows
                  /\ LET raw == Everything(payload)[1] IN
                     /\ raw.siteId = s1 /\ raw.arrival = Arrival
                     /\ raw.nights \in {Absent, Departure - Arrival}
            /\ cartInspectionFailure(inspection, ours) = None =>
                  /\ Readable(payload) /\ payload.account /\ Everything(payload) = <<>>
                  /\ 0 \in shows
            /\ (inspection.status = "EXACT_MATCH" /\ inspection.authentication = "AUTHENTICATED") =>
                  cartInspectionExactlyMatches(inspection, ours)

Evidence == inspectReadinessInSession(subject.page, subject.response, subject.ui, ours)

ReadyMeansSeen(page, response) ==
    LET Day(d) == {c \in page.calendar.controls : c.date = d}
    IN  /\ page.siteId = s1 /\ {link.id : link \in page.links} = {"ours"}
        /\ \A d \in Arrival .. Departure - 1 : {c.label : c \in Day(d)} = {"Available"}
        /\ Day(Departure) # {}
        /\ \E stay \in {page.stay, page.stayAfter} : selectedStayMatches(stay, ours)
        /\ ~ page.before.challenge /\ ~ page.after.challenge
        /\ response = EmptyAnswer

MonthIsFound(c, month) ==
    LET away == IF month < c.first THEN c.first - month
                ELSE IF month > c.first + c.shown - 1 THEN month - (c.first + c.shown - 1) ELSE 0
        last == CHOOSE n \in c.months : \A k \in c.months : k <= n
    IN  moveCalendarToMonth(c, c.first, month).found
            <=> away <= MaxMovements /\ month <= last + c.shown - 1

\* A session that may go on has seen everything: the requested campsite and its one
\* campground, every night and the departure day in the calendar with no night
\* that is not Available under all its labels (labelForDate passes over the grid
\* cells once a button names the day: the pages of the run have buttons only), the
\* stay selected, an empty cart of a signed-in account, and no challenge.  Whoever
\* is refused is told why: a selection that was never tried is not given as the
\* reason (the gate of the date selection and readinessFailure test the same things
\* in two places).  A month that exists is found when it is at most MaxMovements
\* away from those shown, forwards or backwards, and no other.
PageIsReadRight ==
    /\ (subject.kind = "readiness" /\ ~ Evidence.failed) =>
          /\ readinessFailure(Evidence, ours) = None => ReadyMeansSeen(subject.page, subject.response)
          /\ Evidence.dateSelection = "SKIPPED" =>
                readinessFailure(Evidence, ours) \notin {None, "DATES_UNKNOWN"}
    /\ subject.kind = "calendar" => MonthIsFound(subject.calendar, subject.month)

=============================================================================
