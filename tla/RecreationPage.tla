----------------------------- MODULE RecreationPage -----------------------------
(***************************************************************************)
(* What SatScout reads off a campsite page of Recreation.gov, as pure      *)
(* operators: src/src/integrations/recreation-gov/{challenge, session,     *)
(* target, availability, dates, observer}.ts.                              *)
(*                                                                         *)
(* A page is what it shows while it is read: siteId in its address, two    *)
(* moments of its challenge, whether its heading appears, the glances at   *)
(* its header, the campground links, and a calendar of months in which     *)
(* each control names a date and a status.  Whatever does not appear       *)
(* before a deadline is not on the page.  Days are numbers.                *)
(***************************************************************************)
EXTENDS Integers, Sequences, FiniteSets, TLC

CONSTANTS
    Absent,
    MonthLength,       \* days of a month
    MaxMovements       \* the last movement of a calendar search (24)

-----------------------------------------------------------------------------
(* challenge.ts, session.ts.                                               *)

\* A challenge that shows wins over a page that looks normal.
detectChallengeState(moment) ==
    IF moment.challenge THEN "HUMAN_VERIFICATION_REQUIRED"
    ELSE IF moment.normal THEN "NONE" ELSE "UNKNOWN"

\* Signed in and signed out at once, or neither, is unknown.
classifyAuthenticationState(glance) ==
    IF ~ glance.banner \/ glance.loggedOut = glance.account THEN "UNKNOWN"
    ELSE IF glance.account THEN "AUTHENTICATED" ELSE "NOT_AUTHENTICATED"

\* The first glance that decides, until the deadline.
detectAuthenticationState(glances) ==
    LET decided == SelectSeq(glances, LAMBDA g : classifyAuthenticationState(g) # "UNKNOWN") IN
    IF decided = <<>> THEN "UNKNOWN" ELSE classifyAuthenticationState(Head(decided))

-----------------------------------------------------------------------------
(* target.ts.                                                              *)

IdentityFields == {"campgroundId", "siteId"}
TargetFields == IdentityFields \cup {"arrival", "departure"}

\* One distinct visible link, or none.
readCampgroundLink(page) ==
    IF Cardinality(page.links) = 1 THEN (CHOOSE link \in page.links : TRUE).id ELSE Absent

readObservedTarget(page) ==
    [siteId |-> page.siteId, campgroundId |-> readCampgroundLink(page)]

Mismatches(requested, observed) ==
    {f \in TargetFields : observed[f] # Absent /\ observed[f] # requested[f]}

verifyRecreationTarget(requested, observed) ==
    IF Mismatches(requested, observed) # {} THEN "MISMATCH"
    ELSE IF \E f \in TargetFields : observed[f] = Absent THEN "UNKNOWN"
    ELSE "MATCH"

-----------------------------------------------------------------------------
(* availability.ts.                                                        *)

calendarDatesForStay(arrival, departure) == arrival .. departure - 1

statusFromLabel(label) ==
    CASE label = "Available" -> "AVAILABLE"
      [] label \in {"Unavailable", "Reserved", "Current Reservation"} -> "UNAVAILABLE"
      [] OTHER -> "UNKNOWN"

\* Every night of the stay, the departure day excluded; one unknown night makes
\* the stay unknown.
summarizeAvailability(arrival, departure, labels) ==
    LET nights == [d \in calendarDatesForStay(arrival, departure) |->
                      IF d \in DOMAIN labels THEN statusFromLabel(labels[d]) ELSE "UNKNOWN"]
        available == {d \in DOMAIN nights : nights[d] = "AVAILABLE"}
    IN  [nights |-> nights,
         overall |-> IF DOMAIN nights = {} \/ \E d \in DOMAIN nights : nights[d] = "UNKNOWN"
                     THEN "UNKNOWN"
                     ELSE IF available = DOMAIN nights THEN "AVAILABLE"
                     ELSE IF available = {} THEN "UNAVAILABLE"
                     ELSE "PARTIALLY_AVAILABLE"]

unknownAvailability == [nights |-> <<>>, overall |-> "UNKNOWN"]

-----------------------------------------------------------------------------
(* dates.ts.                                                               *)

calendarMonth(date) == date \div MonthLength

\* Faulty variant: the search stops a movement early.
MoveOnceLess(calendar, from, month) ==
    LET Search[n \in 0 .. MaxMovements] ==
            [first \in calendar.months |->
                LET next == IF month > first + calendar.shown - 1 THEN first + 1 ELSE first - 1 IN
                IF n = MaxMovements THEN [found |-> FALSE, first |-> first]
                ELSE IF month \in first .. first + calendar.shown - 1
                THEN [found |-> TRUE, first |-> first]
                ELSE IF next \notin calendar.months THEN [found |-> FALSE, first |-> first]
                ELSE Search[n + 1][next]]
    IN  Search[0][from]

\* Next or Previous until the month is one of those shown: its grid, and where
\* the calendar is left.  A button that is missing or disabled ends the search,
\* and so does the movement after the last one.
moveCalendarToMonth(calendar, from, month) ==
    LET Search[n \in 0 .. MaxMovements + 1] ==
            [first \in calendar.months |->
                LET next == IF month > first + calendar.shown - 1 THEN first + 1 ELSE first - 1 IN
                IF n > MaxMovements THEN [found |-> FALSE, first |-> first]
                ELSE IF month \in first .. first + calendar.shown - 1
                THEN [found |-> TRUE, first |-> first]
                ELSE IF next \notin calendar.months THEN [found |-> FALSE, first |-> first]
                ELSE Search[n + 1][next]]
    IN  Search[0][from]

\* The labels that name a date: those of buttons, and those of cells where no
\* button does.
LabelsOf(calendar, date) ==
    LET Of(kind) == {c.label : c \in {k \in calendar.controls : k.kind = kind /\ k.date = date}} IN
    IF Of("button") # {} THEN Of("button") ELSE Of("gridcell")

\* The label, when every control of the date agrees on it.
labelForDate(calendar, date) ==
    LET labels == LabelsOf(calendar, date) IN
    IF Cardinality(labels) = 1 THEN CHOOSE label \in labels : TRUE ELSE Absent

\* The control to click, when the date has exactly one; its month is looked for
\* from where the calendar was left.
findRequestedCalendarDateControl(calendar, from, date) ==
    LET Of(kind) == {c \in calendar.controls : c.kind = kind /\ c.date = date /\ c.enabled}
        found == IF Of("button") # {} THEN Of("button") ELSE Of("gridcell")
    IN  moveCalendarToMonth(calendar, from, calendarMonth(date)).found
        /\ Cardinality(found) = 1

\* The months of the stay, each looked for from where the calendar was left.
MonthsOfStay(calendar, arrival, departure) ==
    LET Moved[m \in calendarMonth(arrival) .. calendarMonth(departure)] ==
            moveCalendarToMonth(calendar,
                IF m = calendarMonth(arrival) THEN calendar.first ELSE Moved[m - 1].first, m)
    IN  Moved

\* The nights of the stay and the departure day, month by month.
observeRequestedCalendarDates(calendar, arrival, departure) ==
    LET requested == calendarDatesForStay(arrival, departure) \cup {departure}
        moved == MonthsOfStay(calendar, arrival, departure)
        read == {d \in requested : /\ moved[calendarMonth(d)].found
                                   /\ labelForDate(calendar, d) # Absent}
    IN  [d \in read |-> labelForDate(calendar, d)]

-----------------------------------------------------------------------------
(* observer.ts.                                                            *)

Observation(requested, challenge, authentication, observed, availability) ==
    [challenge |-> challenge, authentication |-> authentication, observed |-> observed,
     mismatches |-> Mismatches(requested, observed),
     targetMatch |-> verifyRecreationTarget(requested, observed), availability |-> availability]

NothingObserved == [f \in TargetFields |-> Absent]

\* The page is read in this order, and reading stops at a challenge or at a page
\* that is not recognized ("failed").  The calendar is read only of a campsite
\* that is the requested one.
observeRecreationMissionTargetOnPage(page, requested) ==
    LET challenged == Observation(requested, "HUMAN_VERIFICATION_REQUIRED", "UNKNOWN",
                                  NothingObserved, unknownAvailability)
        authentication == detectAuthenticationState(page.glances)
        identity == [f \in TargetFields |->
                        IF f \in IdentityFields THEN readObservedTarget(page)[f] ELSE Absent]
        labels == observeRequestedCalendarDates(page.calendar, requested.arrival, requested.departure)
        Day(d) == IF d \in DOMAIN labels THEN d ELSE Absent
        observed == [identity EXCEPT !.arrival = Day(requested.arrival),
                                     !.departure = Day(requested.departure)]
    IN  IF page.siteId = Absent THEN [challenge |-> "failed"]
        ELSE IF detectChallengeState(page.before) = "HUMAN_VERIFICATION_REQUIRED" THEN challenged
        ELSE IF detectChallengeState(page.after) = "HUMAN_VERIFICATION_REQUIRED" THEN challenged
        ELSE IF ~ page.heading \/ detectChallengeState(page.after) = "UNKNOWN"
        THEN [challenge |-> "failed"]
        ELSE IF Mismatches(requested, identity) # {} \/ \E f \in IdentityFields : identity[f] = Absent
        THEN Observation(requested, "NONE", authentication, identity, unknownAvailability)
        ELSE Observation(requested, "NONE", authentication, observed,
                 summarizeAvailability(requested.arrival, requested.departure, labels))

=============================================================================
