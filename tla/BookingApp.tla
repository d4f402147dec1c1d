----------------------------- MODULE BookingApp -----------------------------
(***************************************************************************)
(* App.tsx of apps/web around the confirmation page: the catalog lists and *)
(* their reloads, the trip form, the POST that books the trip, and the     *)
(* booking on display, with the rules by which the service validates,      *)
(* stores and reserves what was posted.                                    *)
(*                                                                         *)
(* BookingPage follows one booking on display in detail; here there are    *)
(* several, of which only the statuses that move the catalog are kept.     *)
(***************************************************************************)
EXTENDS Integers, SequencesExt

CONSTANTS
    Flight, Room,   \* the ids of the catalog
    NoFlight,
    Units,          \* what is left of each when the page is opened
    MaxQuantity,    \* bound: passengers, or rooms of one stay
    MaxBookings,    \* bound: trips booked
    MaxLoads        \* bound: catalog requests under way

Item == Flight \cup Room

ASSUME AppAssumption ==
    /\ NoFlight \notin Item /\ Flight \cap Room = {}
    /\ Units \in [Item -> Nat]
    /\ {MaxQuantity, MaxLoads} \subseteq Nat \ {0} /\ MaxBookings \in Nat

VARIABLES
    form,        \* selectedFlightId, passengers, selectedRooms, fullName, email
    loading,     \* bookingState.status = "loading"
    awaited,     \* bookings whose POST has not been answered
    confirmed,   \* confirmedBooking: 0, or the booking on display
    key,         \* the statuses it shows, stepStatusKey
    deciding,    \* bookings with a decision under way
    catalog,     \* flights and hotels on display
    loads,       \* loadCatalog: requests not yet served, answers not yet shown
    order,       \* what was posted for each booking
    progress,    \* how far the service is with it
    taken,       \* the items it has reserved for it
    left,        \* Flight.seatsLeft and Room.roomsLeft
    mishap       \* history, and bound: what went wrong, at most once

page == <<form, loading, awaited, confirmed, key, deciding, catalog, loads>>
service == <<order, progress, taken, left>>
vars == <<page, service, mishap>>

Booking == 1..MaxBookings
NotAdded == [rooms |-> 0, dated |-> FALSE]
Quantity == 0..MaxQuantity

EmptyForm == [flight |-> NoFlight, passengers |-> 1,
              stays |-> [r \in Room |-> NotAdded], contact |-> {}]
NoOrder == [items |-> <<>>, userId |-> FALSE]

Progress == {"none", "posted", "refused", "placed", "reserving", "reserved",
             "releasing", "released"}
Key == {"none", "placed", "reserved", "released"}

\* A request fails; a catalog request is overtaken by a later one; a late answer
\* brings back a booking that was closed.
Mishap == {"none", "failure", "overtaken", "reopened"}

\* The numbers of passengers and rooms the form can hold.
FormOK ==
    form \in [flight : Flight \cup {NoFlight}, passengers : 1..MaxQuantity,
              stays : [Room -> [rooms : Quantity, dated : BOOLEAN]],
              contact : SUBSET {"fullName", "email"}]

TypeOK ==
    /\ FormOK
    /\ loading \in BOOLEAN
    /\ awaited \subseteq Booking
    /\ confirmed \in Booking \cup {0}
    /\ key \in Key
    /\ deciding \subseteq Booking
    /\ catalog \in [Item -> Nat] \cup {<<>>}
    /\ loads.sent \in 0..MaxLoads
    /\ \A k \in DOMAIN loads.read : loads.read[k] \in [Item -> Nat]
    /\ order \in [Booking -> [items : UNION {[S -> 1..MaxQuantity] : S \in SUBSET Item},
                            userId : BOOLEAN]]
    /\ progress \in [Booking -> Progress]
    /\ taken \in [Booking -> SUBSET Item]
    /\ left \in [Item -> Nat]
    /\ mishap \in Mishap

\* The page is opened: nothing is on display and the catalog is being loaded.
Init ==
    /\ form = EmptyForm
    /\ loading = FALSE
    /\ awaited = {}
    /\ confirmed = 0
    /\ key = "none"
    /\ deciding = {}
    /\ catalog = <<>>
    /\ loads = [sent |-> 1, read |-> <<>>]
    /\ order = [n \in Booking |-> NoOrder]
    /\ progress = [n \in Booking |-> "none"]
    /\ taken = [n \in Booking |-> {}]
    /\ left = Units
    /\ mishap = "none"

-----------------------------------------------------------------------------
(* The catalog lists and the trip form. *)

\* Edits that show nothing are left out: selections beside a confirmation, which
\* its reset clears, and those after the last of MaxBookings trips is posted.
Edit(f) ==
    /\ confirmed = 0
    /\ \E n \in Booking : progress[n] = "none"
    /\ form' = f
    /\ UNCHANGED <<loading, awaited, confirmed, key, deciding, catalog, loads,
                   service, mishap>>

Added == {r \in Room : form.stays[r] # NotAdded}

\* Sold out items are listed, but only deselected.
Selectable(i, selected) == catalog # <<>> /\ (selected \/ catalog[i] > 0)

SelectFlight(f) ==
    /\ Selectable(f, form.flight = f)
    /\ Edit([form EXCEPT !.flight = IF @ = f THEN NoFlight ELSE f])

ToggleRoom(r) ==
    /\ Selectable(r, r \in Added)
    /\ Edit([form EXCEPT !.stays[r] = IF r \in Added THEN NotAdded
                                      ELSE [rooms |-> 1, dated |-> FALSE]])

\* The summary is there once something is selected, also while a POST is under
\* way, and gives way to a confirmation.
InSummary == confirmed = 0 /\ (form.flight # NoFlight \/ Added # {})

StepperFromZero(value, max) ==
    {n \in {value - 1, value + 1} : n \in 0..MaxQuantity /\ (n < value \/ value < max)}
Stepper(value, max) ==
    {n \in {value - 1, value + 1} : n \in 1..MaxQuantity /\ (n < value \/ value < max)}

\* The number of passengers has no upper limit, that of rooms what is left.
ChangePassengers ==
    /\ InSummary /\ form.flight # NoFlight
    /\ \E n \in Stepper(form.passengers, MaxQuantity) :
         Edit([form EXCEPT !.passengers = n])

ChangeRooms(r) ==
    /\ InSummary /\ r \in Added
    /\ \E n \in Stepper(form.stays[r].rooms, catalog[r]) :
         Edit([form EXCEPT !.stays[r].rooms = n])

\* Both dates of the stay; a field that is cleared again is as it was before.
EnterDates(r) ==
    /\ InSummary /\ r \in Added /\ ~form.stays[r].dated
    /\ Edit([form EXCEPT !.stays[r].dated = TRUE])

EnterContact(field) ==
    /\ InSummary /\ field \notin form.contact
    /\ Edit([form EXCEPT !.contact = @ \cup {field}])

Deselect(i) ==
    /\ InSummary
    /\ i = form.flight \/ i \in Added
    /\ Edit(IF i = form.flight THEN [form EXCEPT !.flight = NoFlight]
            ELSE [form EXCEPT !.stays[i] = NotAdded])

-----------------------------------------------------------------------------
(* Booking the trip. *)

Complete ==
    \A r \in Added : /\ form.stays[r].dated
                     /\ form.stays[r].rooms \in 1..catalog[r]
CanBookUnsigned == InSummary /\ Complete /\ ~loading /\ "fullName" \in form.contact
CanBookAgain == InSummary /\ Complete /\ form.contact = {"fullName", "email"}
CanBook ==
    /\ InSummary /\ Complete
    /\ form.contact = {"fullName", "email"}
    /\ ~loading

Posted ==
    [items |-> [i \in Added \cup ({form.flight} \ {NoFlight}) |->
                  IF i \in Room THEN form.stays[i].rooms ELSE form.passengers],
     userId |-> "email" \in form.contact]

Book(n) ==
    /\ CanBook
    /\ progress[n] = "none" /\ \A m \in 1..(n - 1) : progress[m] # "none"
    /\ order' = [order EXCEPT ![n] = Posted]
    /\ progress' = [progress EXCEPT ![n] = "posted"]
    /\ awaited' = awaited \cup {n}
    /\ loading' = TRUE
    /\ UNCHANGED <<form, confirmed, key, deciding, catalog, loads, taken, left, mishap>>

\* PublishBookingDto: a user, at least one product, quantities from one.
Valid(o) ==
    /\ o.userId
    /\ DOMAIN o.items # {}
    /\ \A i \in DOMAIN o.items : o.items[i] >= 1

Goto(n, label) == progress' = [progress EXCEPT ![n] = label]

Publish(n) ==
    /\ progress[n] = "posted"
    /\ Goto(n, IF Valid(order[n]) THEN "placed" ELSE "refused")
    /\ UNCHANGED <<page, order, taken, left, mishap>>

\* setConfirmedBooking; the catalog is loaded again when a status changes.
ShowQuietly(n, statuses) ==
    /\ confirmed' = n /\ key' = statuses
    /\ loads' = IF n = confirmed THEN loads ELSE [loads EXCEPT !.sent = @ + 1]
    /\ loads'.sent + Len(loads'.read) <= MaxLoads
Show(n, statuses) ==
    /\ confirmed' = n /\ key' = statuses
    /\ loads' = IF n = confirmed /\ statuses = key THEN loads
                ELSE [loads EXCEPT !.sent = @ + 1]
    /\ loads'.sent + Len(loads'.read) <= MaxLoads

PostAnswered(n) ==
    /\ n \in awaited
    /\ progress[n] \notin {"posted", "refused"}
    /\ awaited' = awaited \ {n}
    /\ loading' = FALSE
    /\ Show(n, "placed")
    /\ UNCHANGED <<form, deciding, catalog, service, mishap>>

Suffer(what) == mishap = "none" /\ mishap' = what

\* An error is shown.  Unless the service refused it, it may have, or may still
\* get, what was posted.
PostFails(n) ==
    /\ n \in awaited
    /\ awaited' = awaited \ {n}
    /\ loading' = FALSE
    /\ IF progress[n] = "refused" THEN UNCHANGED mishap ELSE Suffer("failure")
    /\ UNCHANGED <<form, confirmed, key, deciding, catalog, loads, service>>

-----------------------------------------------------------------------------
(* The confirmation. *)

\* The statuses GET /bookings/:id answers with.
Statuses(n) ==
    CASE progress[n] \in {"placed", "reserving"} -> "placed"
      [] progress[n] \in {"reserved", "releasing"} -> "reserved"
      [] OTHER -> "released"

PollUncancelled(n) ==
    /\ progress[n] \notin {"none", "posted", "refused"} /\ n \notin awaited
    /\ Show(n, Statuses(n))
    /\ UNCHANGED <<form, loading, awaited, deciding, catalog, service, mishap>>
\* Only the booking on display is polled, and a poll of one that is closed
\* meanwhile is cancelled.
Poll(n) ==
    /\ confirmed = n /\ key # Statuses(n)
    /\ Show(n, Statuses(n))
    /\ UNCHANGED <<form, loading, awaited, deciding, catalog, service, mishap>>

Partial(n) == taken[n] # {} /\ taken[n] # DOMAIN order[n].items

Decide(n) ==
    /\ confirmed = n /\ key = "reserved" /\ Partial(n)
    /\ n \notin deciding
    /\ deciding' = deciding \cup {n}
    /\ UNCHANGED <<form, loading, awaited, confirmed, key, catalog, loads, service, mishap>>

\* Nothing cancels a decision: its answer is displayed, closed or not.
DecisionAnswered(n) ==
    /\ n \in deciding
    /\ deciding' = deciding \ {n}
    /\ Show(n, Statuses(n))
    /\ IF confirmed = n THEN UNCHANGED mishap ELSE Suffer("reopened")
    /\ UNCHANGED <<form, loading, awaited, catalog, service>>

DecisionFails(n) ==
    /\ n \in deciding
    /\ deciding' = deciding \ {n}
    /\ Suffer("failure")
    /\ UNCHANGED <<form, loading, awaited, confirmed, key, catalog, loads, service>>

\* "Book another trip".
Reset ==
    /\ confirmed # 0
    /\ confirmed' = 0 /\ key' = "none"
    /\ loading' = FALSE
    /\ form' = [EmptyForm EXCEPT !.contact = form.contact]
    /\ UNCHANGED <<awaited, deciding, catalog, loads, service, mishap>>

-----------------------------------------------------------------------------
(* loadCatalog.  Its two requests read different products, so that they may *)
(* be taken for one.                                                       *)

ServeLoad ==
    /\ loads.sent > 0
    /\ loads' = [sent |-> loads.sent - 1, read |-> Append(loads.read, left)]
    /\ UNCHANGED <<form, loading, awaited, confirmed, key, deciding, catalog, service, mishap>>

LoadAnswered(k) ==
    /\ catalog' = loads.read[k]
    /\ loads' = [loads EXCEPT !.read = RemoveAt(@, k)]
    /\ IF k = 1 THEN UNCHANGED mishap ELSE Suffer("overtaken")
    /\ UNCHANGED <<form, loading, awaited, confirmed, key, deciding, service>>

LoadFails ==
    /\ loads.sent > 0
    /\ loads' = [loads EXCEPT !.sent = @ - 1]
    /\ Suffer("failure")
    /\ UNCHANGED <<form, loading, awaited, confirmed, key, deciding, catalog, service>>

-----------------------------------------------------------------------------
(* The service. *)

Amount(n, i) == IF i \in DOMAIN order[n].items THEN order[n].items[i] ELSE 0

\* The allotments of the booking, each for itself.
Reserve(n) ==
    LET fits == {i \in DOMAIN order[n].items : left[i] >= Amount(n, i)} IN
    /\ progress[n] = "placed"
    /\ Goto(n, "reserving")
    /\ taken' = [taken EXCEPT ![n] = fits]
    /\ left' = [i \in Item |-> IF i \in fits THEN left[i] - Amount(n, i) ELSE left[i]]
    /\ UNCHANGED <<page, order, mishap>>

\* Rejected, expired, or the payment failed.
GiveBack(n) ==
    /\ progress[n] = "reserved" /\ taken[n] # {}
    /\ Goto(n, "releasing")
    /\ left' = [i \in Item |-> IF i \in taken[n] THEN left[i] + Amount(n, i) ELSE left[i]]
    /\ UNCHANGED <<page, order, taken, mishap>>

\* The rows get their statuses when the agents' answers are applied.
Settle(n) ==
    /\ \/ progress[n] = "reserving" /\ Goto(n, "reserved")
       \/ progress[n] = "releasing" /\ Goto(n, "released")
    /\ UNCHANGED <<page, order, taken, left, mishap>>

-----------------------------------------------------------------------------

User ==
    \/ \E f \in Flight : SelectFlight(f)
    \/ \E r \in Room : ToggleRoom(r) \/ ChangeRooms(r) \/ EnterDates(r)
    \/ ChangePassengers
    \/ \E field \in {"fullName", "email"} : EnterContact(field)
    \/ \E i \in Item : Deselect(i)
    \/ \E n \in Booking : Book(n) \/ Decide(n)
    \/ Reset

Answers ==
    \/ \E n \in Booking : PostAnswered(n) \/ Poll(n) \/ DecisionAnswered(n)
    \/ \E n \in Booking : PostFails(n) \/ DecisionFails(n)
    \/ LoadFails

Loading == ServeLoad \/ \E k \in DOMAIN loads.read : LoadAnswered(k)

Serving ==
    \/ \E n \in Booking : Publish(n) \/ Reserve(n) \/ GiveBack(n) \/ Settle(n)

Next == User \/ Answers \/ Loading \/ Serving
Spec == Init /\ [][Next]_vars

\* Requests for the catalog are served and answered; nothing else is assumed.
FairSpec == Spec /\ WF_vars(Loading)

-----------------------------------------------------------------------------
(* Properties *)

\* What the page lets through is what the service takes: the rules of
\* TripSummary.tsx:118-131 and the decorators of publish-booking.dto.ts are
\* written independently of each other.
NeverRefused ==
    \A n \in Booking : progress[n] # "none" => Valid(order[n])

\* A trip is not posted while another one is: the button is disabled until the
\* answer (TripSummary.tsx:130).  Only a late answer to a decision breaks
\* this: it brings back a closed booking, whose reset enables the button.
OnePostAtATime ==
    mishap = "reopened" \/ \A n, m \in awaited : n = m

\* The booking on display is the last one made, and no other is being made
\* behind it, unless a late answer brought back a closed one.
LatestIsShown ==
    \/ mishap = "reopened" \/ confirmed = 0
    \/ \A n \in Booking : n > confirmed => progress[n] = "none"

\* The inductive invariant behind the three: trips are booked in order, the form
\* never holds a number of passengers below one, and while a POST is awaited
\* nothing is on display and the button stays disabled.
InOrder ==
    \A n, m \in Booking : n < m /\ progress[n] = "none" => progress[m] = "none"
OneAtWork ==
    \A n \in awaited :
      /\ n \in Booking /\ awaited = {n} /\ loading /\ confirmed = 0
      /\ \A m \in Booking : m > n => progress[m] = "none"
IInv ==
    /\ FormOK /\ InOrder /\ NeverRefused
    /\ progress \in [Booking -> Progress] /\ DOMAIN order = Booking
    /\ confirmed \in Booking \cup {0}
    /\ mishap = "reopened" \/ (OneAtWork /\ LatestIsShown)

\* "Inventory changes the moment a step changes status (a seat is reserved,
\* or released by compensation), not only when the whole booking ends. So
\* reload the catalog whenever any step status changes." (App.tsx:129-132):
\* a page that shows the statuses of its booking as they are ends up with the
\* inventory as it is, unless a request failed or was overtaken, or another
\* booking took or returned something.
UpToDate ==
    /\ confirmed # 0 /\ key = Statuses(confirmed)
    /\ progress[confirmed] \notin {"reserving", "releasing"}
Alone ==
    /\ mishap \in {"none", "reopened"}
    /\ \A n \in Booking : n # confirmed => progress[n] \in {"none", "refused"}
CatalogCatchesUp ==
    UpToDate /\ Alone ~> (catalog = left \/ ~(UpToDate /\ Alone))
=============================================================================
