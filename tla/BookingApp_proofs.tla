-------------------------- MODULE BookingApp_proofs --------------------------
(***************************************************************************)
(* Proofs about the form, the POST and the booking on display, for any     *)
(* catalog, any numbers of passengers, rooms and bookings.                 *)
(***************************************************************************)
EXTENDS BookingApp, SequenceTheorems, TLAPS

Form == [flight : Flight \cup {NoFlight}, passengers : 1..MaxQuantity,
         stays : [Room -> [rooms : Quantity, dated : BOOLEAN]],
         contact : SUBSET {"fullName", "email"}]
Stay == [rooms : Quantity, dated : BOOLEAN]

\* The edits keep the form well formed.
LEMMA EditedForm ==
    ASSUME NEW old \in Form
    PROVE  /\ \A f \in Flight \cup {NoFlight} : [old EXCEPT !.flight = f] \in Form
           /\ \A p \in 1..MaxQuantity : [old EXCEPT !.passengers = p] \in Form
           /\ \A r \in Room, s \in Stay : [old EXCEPT !.stays[r] = s] \in Form
           /\ \A c \in SUBSET {"fullName", "email"} : [old EXCEPT !.contact = c] \in Form
<1>1. \A f \in Flight \cup {NoFlight} : [old EXCEPT !.flight = f] \in Form
  BY DEF Form
<1>2. \A p \in 1..MaxQuantity : [old EXCEPT !.passengers = p] \in Form
  BY DEF Form
<1>3. \A r \in Room, s \in Stay : [old EXCEPT !.stays[r] = s] \in Form
  <2> TAKE r \in Room, s \in Stay
  <2>1. [old.stays EXCEPT ![r] = s] \in [Room -> Stay]
    BY DEF Form, Stay
  <2>2. [old EXCEPT !.stays[r] = s] = [old EXCEPT !.stays = [old.stays EXCEPT ![r] = s]]
    BY DEF Form
  <2> QED BY <2>1, <2>2 DEF Form, Stay
<1>4. \A c \in SUBSET {"fullName", "email"} : [old EXCEPT !.contact = c] \in Form
  BY DEF Form
<1> QED BY <1>1, <1>2, <1>3, <1>4

LEMMA FormIs == FormOK <=> form \in Form
BY DEF FormOK, Form

LEMMA EmptyFormIs == EmptyForm \in Form
<1>1. 1 \in 1..MaxQuantity /\ 0 \in Quantity
  BY AppAssumption DEF Quantity
<1> QED BY <1>1 DEF EmptyForm, Form, NotAdded

\* What the invariant reads, apart from the form.
booked == <<loading, awaited, confirmed, order, progress, mishap>>

LEMMA FormKeeps ==
    ASSUME IInv, form' \in Form, UNCHANGED booked PROVE IInv'
BY FormIs DEF IInv, FormOK, Form, InOrder, NeverRefused, OneAtWork, LatestIsShown, booked

LEMMA EditKeeps ==
    ASSUME IInv, NEW f \in Form, Edit(f) PROVE IInv'
BY FormKeeps DEF Edit, booked, service

LEMMA EditsInv ==
    ASSUME IInv,
           \/ \E f \in Flight : SelectFlight(f)
           \/ \E r \in Room : ToggleRoom(r) \/ ChangeRooms(r) \/ EnterDates(r)
           \/ ChangePassengers
           \/ \E field \in {"fullName", "email"} : EnterContact(field)
           \/ \E i \in Item : Deselect(i)
    PROVE  IInv'
<1>1. form \in Form
  BY FormIs DEF IInv
<1>2. NotAdded \in Stay /\ [rooms |-> 1, dated |-> FALSE] \in Stay
  <2>1. {0, 1} \subseteq Quantity
    BY AppAssumption DEF Quantity
  <2> QED BY <2>1 DEF NotAdded, Stay
<1>3. \A value, max : Stepper(value, max) \subseteq 1..MaxQuantity
  BY Zenon DEF Stepper
<1>4. CASE \E f \in Flight : SelectFlight(f)
  <2> PICK f \in Flight : SelectFlight(f)
    BY <1>4
  <2> DEFINE g == IF form.flight = f THEN NoFlight ELSE f
  <2>1. Edit([form EXCEPT !.flight = g])
    BY DEF SelectFlight
  <2>2. [form EXCEPT !.flight = g] \in Form
    BY <1>1, EditedForm
  <2> QED BY <2>1, <2>2, EditKeeps
<1>5. CASE \E r \in Room : ToggleRoom(r)
  <2> PICK r \in Room : ToggleRoom(r)
    BY <1>5
  <2> DEFINE s == IF r \in Added THEN NotAdded ELSE [rooms |-> 1, dated |-> FALSE]
  <2>1. Edit([form EXCEPT !.stays[r] = s])
    BY DEF ToggleRoom
  <2>2. [form EXCEPT !.stays[r] = s] \in Form
    BY <1>1, <1>2, EditedForm
  <2> QED BY <2>1, <2>2, EditKeeps
<1>6. CASE \E r \in Room : ChangeRooms(r)
  <2> PICK r \in Room : ChangeRooms(r)
    BY <1>6
  <2>1. PICK n \in 1..MaxQuantity : Edit([form EXCEPT !.stays[r].rooms = n])
    BY <1>3 DEF ChangeRooms
  <2> DEFINE s == [form.stays[r] EXCEPT !.rooms = n]
  <2>2. s \in Stay
    <3>1. n \in Quantity
      BY AppAssumption DEF Quantity
    <3> QED BY <1>1, <3>1 DEF Form, Stay
  <2>3. [form EXCEPT !.stays[r].rooms = n] = [form EXCEPT !.stays[r] = s]
    OBVIOUS
  <2>4. [form EXCEPT !.stays[r] = s] \in Form
    BY <1>1, <2>2, EditedForm
  <2> QED BY <2>1, <2>3, <2>4, EditKeeps
<1>7. CASE \E r \in Room : EnterDates(r)
  <2> PICK r \in Room : EnterDates(r)
    BY <1>7
  <2> DEFINE s == [form.stays[r] EXCEPT !.dated = TRUE]
  <2>1. Edit([form EXCEPT !.stays[r].dated = TRUE])
    BY DEF EnterDates
  <2>2. s \in Stay
    BY <1>1 DEF Form, Stay
  <2>3. [form EXCEPT !.stays[r].dated = TRUE] = [form EXCEPT !.stays[r] = s]
    OBVIOUS
  <2>4. [form EXCEPT !.stays[r] = s] \in Form
    BY <1>1, <2>2, EditedForm
  <2> QED BY <2>1, <2>3, <2>4, EditKeeps
<1>8. CASE ChangePassengers
  <2>1. PICK n \in 1..MaxQuantity : Edit([form EXCEPT !.passengers = n])
    BY <1>3, <1>8 DEF ChangePassengers
  <2> QED BY <1>1, <2>1, EditedForm, EditKeeps
<1>9. CASE \E field \in {"fullName", "email"} : EnterContact(field)
  <2> PICK field \in {"fullName", "email"} : EnterContact(field)
    BY <1>9
  <2> DEFINE c == form.contact \cup {field}
  <2>1. Edit([form EXCEPT !.contact = c])
    BY DEF EnterContact
  <2>2. c \in SUBSET {"fullName", "email"}
    BY <1>1 DEF Form
  <2>3. [form EXCEPT !.contact = c] \in Form
    BY <1>1, <2>2, EditedForm
  <2> QED BY <2>1, <2>3, EditKeeps
<1>10. CASE \E i \in Item : Deselect(i)
  <2> PICK i \in Item : Deselect(i)
    BY <1>10
  <2>1. CASE i = form.flight
    <3>1. Edit([form EXCEPT !.flight = NoFlight])
      BY <2>1 DEF Deselect
    <3> QED BY <1>1, <3>1, EditedForm, EditKeeps
  <2>2. CASE i # form.flight
    <3>1. i \in Room /\ Edit([form EXCEPT !.stays[i] = NotAdded])
      BY <2>2 DEF Deselect, Added
    <3> QED BY <1>1, <1>2, <3>1, EditedForm, EditKeeps
  <2> QED BY <2>1, <2>2
<1> QED BY <1>4, <1>5, <1>6, <1>7, <1>8, <1>9, <1>10

-----------------------------------------------------------------------------
(* Booking. *)

\* The trip that CanBook lets through is one the service takes.
LEMMA PostedIsValid == ASSUME FormOK, CanBook PROVE Valid(Posted)
<1>1. Posted.userId
  BY DEF Posted, CanBook
<1>2. DOMAIN Posted.items = Added \cup ({form.flight} \ {NoFlight})
  BY DEF Posted
<1>3. DOMAIN Posted.items # {}
  BY <1>2 DEF CanBook, InSummary
<1>4. ASSUME NEW i \in DOMAIN Posted.items PROVE Posted.items[i] >= 1
  <2>1. Posted.items[i] = IF i \in Room THEN form.stays[i].rooms ELSE form.passengers
    BY <1>2 DEF Posted
  <2>2. CASE i \in Room
    <3>1. i \in Added
      BY <1>2, <2>2, AppAssumption DEF FormOK, Item
    <3>2. form.stays[i].rooms \in 1..catalog[i]
      BY <3>1 DEF CanBook, Complete
    <3> QED BY <2>1, <2>2, <3>2
  <2>3. CASE i \notin Room
    BY <2>1, <2>3, AppAssumption DEF FormOK
  <2> QED BY <2>2, <2>3
<1> QED BY <1>1, <1>3, <1>4 DEF Valid

LEMMA BookInv == ASSUME IInv, NEW n \in Booking, Book(n) PROVE IInv'
<1>1. /\ CanBook /\ progress[n] = "none"
      /\ \A m \in 1..(n - 1) : progress[m] # "none"
      /\ order' = [order EXCEPT ![n] = Posted]
      /\ progress' = [progress EXCEPT ![n] = "posted"]
      /\ awaited' = awaited \cup {n} /\ loading' = TRUE
      /\ UNCHANGED <<form, confirmed, mishap>>
  BY DEF Book
<1>2. /\ progress \in [Booking -> Progress] /\ "posted" \in Progress
      /\ confirmed \in Booking \cup {0} /\ FormOK /\ InOrder /\ NeverRefused
      /\ DOMAIN order = Booking
  BY DEF IInv, Progress
<1>3. /\ progress' \in [Booking -> Progress] /\ progress'[n] = "posted"
      /\ \A m \in Booking : m # n => progress'[m] = progress[m] /\ order'[m] = order[m]
  <2>1. \A m \in Booking : m # n => order'[m] = order[m]
    BY <1>1, <1>2
  <2> QED BY <1>1, <1>2, <2>1
<1>4. InOrder'
  <2> SUFFICES ASSUME NEW k \in Booking, NEW m \in Booking, k < m, progress'[k] = "none"
               PROVE  progress'[m] = "none"
    BY DEF InOrder
  <2>1. k # n /\ progress[k] = "none"
    BY <1>3
  <2>2. m # n
    <3>1. m = n => k \in 1..(n - 1)
      BY DEF Booking
    <3> QED BY <1>1, <2>1, <3>1
  <2> QED BY <1>2, <1>3, <2>1, <2>2 DEF InOrder
<1>5. NeverRefused'
  <2>1. Valid(Posted)
    BY <1>1, <1>2, PostedIsValid
  <2> SUFFICES ASSUME NEW m \in Booking, progress'[m] # "none" PROVE Valid(order'[m])
    BY DEF NeverRefused
  <2>3. CASE m = n
    BY <1>1, <1>2, <2>1, <2>3
  <2>4. CASE m # n
    BY <1>2, <1>3, <2>4 DEF NeverRefused
  <2> QED BY <2>3, <2>4
<1>6. confirmed = 0 /\ ~loading
  BY <1>1 DEF CanBook, InSummary
<1>7. mishap = "reopened" \/ (OneAtWork' /\ LatestIsShown')
  <2>1. LatestIsShown'
    BY <1>1, <1>6 DEF LatestIsShown
  <2>2. mishap # "reopened" => awaited = {}
    BY <1>6 DEF IInv, OneAtWork
  <2>3. \A m \in Booking : m > n => progress'[m] = "none"
    BY <1>1, <1>2, <1>3 DEF InOrder, Booking
  <2>4. mishap # "reopened" => OneAtWork'
    BY <1>1, <1>6, <2>2, <2>3 DEF OneAtWork
  <2> QED BY <2>1, <2>4
<1> QED BY <1>1, <1>2, <1>3, <1>4, <1>5, <1>7 DEF IInv, FormOK

-----------------------------------------------------------------------------
(* The service: what it does makes no new booking. *)

LEMMA ServingInv ==
    ASSUME IInv, NEW n \in Booking, Publish(n) \/ Reserve(n) \/ GiveBack(n) \/ Settle(n)
    PROVE  IInv'
<1>1. /\ progress[n] # "none"
      /\ \E label \in Progress \ {"none"} : Goto(n, label)
      /\ UNCHANGED <<form, loading, awaited, confirmed, order, mishap>>
  BY DEF Publish, Reserve, GiveBack, Settle, Progress, page
<1>2. /\ progress' \in [Booking -> Progress]
      /\ \A m \in Booking : progress'[m] = "none" <=> progress[m] = "none"
  BY <1>1 DEF Goto, IInv
<1>3. InOrder' /\ NeverRefused'
  BY <1>1, <1>2 DEF IInv, InOrder, NeverRefused
<1>4. mishap = "reopened" \/ (OneAtWork' /\ LatestIsShown')
  BY <1>1, <1>2 DEF IInv, OneAtWork, LatestIsShown
<1> QED BY <1>1, <1>2, <1>3, <1>4 DEF IInv, FormOK

-----------------------------------------------------------------------------
(* Answers and the confirmation. *)

LEMMA PostInv ==
    ASSUME IInv, NEW n \in Booking, PostAnswered(n) \/ PostFails(n) PROVE IInv'
<1>1. /\ n \in awaited /\ awaited' = awaited \ {n}
      /\ UNCHANGED <<form, order, progress>>
      /\ confirmed' = n \/ confirmed' = confirmed
      /\ mishap' = "failure" \/ UNCHANGED mishap
      /\ mishap = "reopened" => mishap' = "reopened"
  BY DEF PostAnswered, PostFails, Show, Suffer, service
<1>2. confirmed' \in Booking \cup {0}
  BY <1>1 DEF IInv
<1>3. mishap # "reopened" =>
        /\ awaited' = {}
        /\ \A m \in Booking : m > n => progress'[m] = "none"
  BY <1>1 DEF IInv, OneAtWork
<1>4. mishap' = "reopened" \/ (OneAtWork' /\ LatestIsShown')
  BY <1>1, <1>3 DEF IInv, OneAtWork, LatestIsShown
<1> QED BY <1>1, <1>2, <1>4 DEF IInv, FormOK, InOrder, NeverRefused

\* A closed booking comes back only with a late answer to a decision.
LEMMA ConfirmationInv ==
    ASSUME IInv, NEW n \in Booking,
           Poll(n) \/ Decide(n) \/ DecisionAnswered(n) \/ DecisionFails(n)
    PROVE  IInv'
<1>1. /\ UNCHANGED <<form, loading, awaited, order, progress>>
      /\ \/ confirmed' = confirmed /\ (mishap' = mishap \/ mishap' = "failure")
         \/ confirmed' = n /\ mishap' = "reopened"
      /\ mishap = "reopened" => mishap' = "reopened"
  BY DEF Poll, Decide, DecisionAnswered, DecisionFails, Show, Suffer, service
<1>2. confirmed' \in Booking \cup {0}
  BY <1>1 DEF IInv
<1>3. mishap' = "reopened" \/ (OneAtWork' /\ LatestIsShown')
  BY <1>1 DEF IInv, OneAtWork, LatestIsShown
<1> QED BY <1>1, <1>2, <1>3 DEF IInv, FormOK, InOrder, NeverRefused

LEMMA ResetInv == ASSUME IInv, Reset PROVE IInv'
<1>1. /\ confirmed # 0 /\ confirmed' = 0
      /\ form' = [EmptyForm EXCEPT !.contact = form.contact]
      /\ UNCHANGED <<awaited, order, progress, mishap>>
  BY DEF Reset, service
<1>2. form' \in Form
  <2>1. form.contact \in SUBSET {"fullName", "email"}
    BY DEF IInv, FormOK
  <2> QED BY <1>1, <2>1, EmptyFormIs, EditedForm
<1>3. mishap = "reopened" \/ awaited = {}
  BY <1>1 DEF IInv, OneAtWork
<1>4. mishap' = "reopened" \/ (OneAtWork' /\ LatestIsShown')
  BY <1>1, <1>3 DEF OneAtWork, LatestIsShown
<1> QED BY <1>1, <1>2, <1>4, FormIs
        DEF IInv, Form, FormOK, InOrder, NeverRefused

LEMMA LoadsInv ==
    ASSUME IInv, ServeLoad \/ LoadFails \/ \E k \in DOMAIN loads.read : LoadAnswered(k)
    PROVE  IInv'
<1>1. /\ UNCHANGED <<form, loading, awaited, confirmed, order, progress>>
      /\ mishap' = mishap \/ (mishap = "none" /\ mishap' \in {"failure", "overtaken"})
  BY DEF ServeLoad, LoadFails, LoadAnswered, Suffer, service
<1> QED BY <1>1 DEF IInv, FormOK, InOrder, NeverRefused, OneAtWork, LatestIsShown

-----------------------------------------------------------------------------

LEMMA InitInv == Init => IInv
<1> SUFFICES ASSUME Init PROVE IInv
  OBVIOUS
<1>1. FormOK
  BY EmptyFormIs, FormIs DEF Init
<1>2. \A n \in Booking : progress[n] = "none"
  BY DEF Init
<1> QED BY <1>1, <1>2 DEF Init, IInv, InOrder, NeverRefused, OneAtWork, LatestIsShown, Progress

\* Trips are booked in order and one at a time, whatever the user edits and
\* however late the answers come.
THEOREM AppInvariant == Spec => []IInv
<1>1. IInv /\ [Next]_vars => IInv'
  <2> SUFFICES ASSUME IInv, [Next]_vars PROVE IInv'
    OBVIOUS
  <2>1. CASE UNCHANGED vars
    BY <2>1 DEF vars, page, service, IInv, FormOK, InOrder, NeverRefused, OneAtWork,
                LatestIsShown
  <2>2. CASE User
    BY <2>2, EditsInv, BookInv, ConfirmationInv, ResetInv DEF User
  <2>3. CASE Answers
    BY <2>3, PostInv, ConfirmationInv, LoadsInv DEF Answers
  <2>4. CASE Loading
    BY <2>4, LoadsInv DEF Loading
  <2>5. CASE Serving
    BY <2>5, ServingInv DEF Serving
  <2> QED BY <2>1, <2>2, <2>3, <2>4, <2>5 DEF Next
<1> QED BY <1>1, InitInv, PTL DEF Spec

\* The service refuses nothing that the form lets through.
THEOREM FormMatchesService == Spec => []NeverRefused
<1>1. IInv => NeverRefused
  BY DEF IInv
<1> QED BY <1>1, AppInvariant, PTL

\* No trip is posted while the answer to another is awaited, unless a late
\* answer to a decision brought back a booking that was closed.
THEOREM PostsOneAtATime == Spec => []OnePostAtATime
<1>1. IInv => OnePostAtATime
  BY DEF IInv, OneAtWork, OnePostAtATime
<1> QED BY <1>1, AppInvariant, PTL

\* The booking on display is the last one made, with the same exception.
THEOREM ShowsTheLatest == Spec => []LatestIsShown
<1>1. IInv => LatestIsShown
  BY DEF IInv, LatestIsShown
<1> QED BY <1>1, AppInvariant, PTL

-----------------------------------------------------------------------------
(* Types.  What the catalog requests hold is a sequence that never grows    *)
(* beyond MaxLoads; everything else follows TypeOK.                         *)

Stock == [Item -> Nat]
Order == [items : UNION {[S -> 1..MaxQuantity] : S \in SUBSET Item}, userId : BOOLEAN]

PageOK ==
    /\ loading \in BOOLEAN
    /\ awaited \subseteq Booking
    /\ confirmed \in Booking \cup {0}
    /\ key \in Key
    /\ deciding \subseteq Booking
    /\ catalog \in Stock \cup {<<>>}
LoadsOK ==
    /\ loads \in [sent : Nat, read : Seq(Stock)]
    /\ loads.sent + Len(loads.read) <= MaxLoads
ServiceOK ==
    /\ order \in [Booking -> Order]
    /\ progress \in [Booking -> Progress]
    /\ taken \in [Booking -> SUBSET Item]
    /\ left \in Stock
Types == PageOK /\ LoadsOK /\ ServiceOK /\ mishap \in Mishap

LEMMA TypesSuffice == ASSUME IInv, Types PROVE TypeOK
<1>1. loads.sent \in 0..MaxLoads
  <2>1. Len(loads.read) \in Nat
    BY LenProperties DEF Types, LoadsOK
  <2> QED BY <2>1, AppAssumption DEF Types, LoadsOK
<1>2. \A k \in DOMAIN loads.read : loads.read[k] \in Stock
  BY LenProperties DEF Types, LoadsOK
<1> QED BY <1>1, <1>2 DEF IInv, Types, TypeOK, PageOK, ServiceOK, Stock, Order

LEMMA ShowTypes ==
    ASSUME Types, NEW n \in Booking, NEW statuses \in Key, Show(n, statuses)
    PROVE  confirmed' \in Booking \cup {0} /\ key' \in Key /\ LoadsOK'
BY DEF Types, Show, LoadsOK

LEMMA StatusesAreKeys == \A n : Statuses(n) \in Key
BY DEF Statuses, Key

\* Everything a step leaves alone.
LEMMA TypesKept ==
    /\ PageOK /\ UNCHANGED <<loading, awaited, confirmed, key, deciding, catalog>> => PageOK'
    /\ LoadsOK /\ UNCHANGED loads => LoadsOK'
    /\ ServiceOK /\ UNCHANGED service => ServiceOK'
BY DEF PageOK, LoadsOK, ServiceOK, service

LEMMA UserTypes == ASSUME IInv, Types, User PROVE Types'
<1>1. CASE UNCHANGED <<loading, awaited, confirmed, key, deciding, catalog, loads,
                       service, mishap>>
  BY <1>1, TypesKept DEF Types
<1>2. ASSUME NEW n \in Booking, Book(n) PROVE Types'
  <2>1. Posted \in Order
    <3> DEFINE S == Added \cup ({form.flight} \ {NoFlight})
    <3>1. FormOK /\ CanBook
      BY <1>2 DEF IInv, Book
    <3>2. S \in SUBSET Item
      BY <3>1 DEF FormOK, Added, Item
    <3>3. \A i \in S : (IF i \in Room THEN form.stays[i].rooms ELSE form.passengers)
                         \in 1..MaxQuantity
      <4> SUFFICES ASSUME NEW i \in S, i \in Room
                   PROVE  form.stays[i].rooms \in 1..MaxQuantity
        BY <3>1 DEF FormOK
      <4>1. i \in Added
        BY <3>1, AppAssumption DEF FormOK, Item
      <4>2. form.stays[i].rooms >= 1
        BY <3>1, <4>1 DEF CanBook, Complete
      <4>3. form.stays[i].rooms \in 0..MaxQuantity
        BY <3>1 DEF FormOK, Quantity
      <4> QED BY <4>2, <4>3, AppAssumption
    <3> DEFINE items == [i \in S |-> IF i \in Room THEN form.stays[i].rooms
                                     ELSE form.passengers]
    <3>4. items \in [S -> 1..MaxQuantity]
      BY <3>3
    <3>5. items \in UNION {[T -> 1..MaxQuantity] : T \in SUBSET Item}
      BY <3>2, <3>4, Zenon
    <3> HIDE DEF items
    <3>6. Posted = [items |-> items, userId |-> "email" \in form.contact]
      BY DEF Posted, items
    <3> QED BY <3>5, <3>6 DEF Order
  <2>2. ServiceOK'
    BY <1>2, <2>1 DEF Book, Types, ServiceOK, Progress
  <2>3. PageOK'
    BY <1>2 DEF Book, Types, PageOK
  <2>4. UNCHANGED <<loads, mishap>>
    BY <1>2 DEF Book
  <2> QED BY <2>2, <2>3, <2>4, TypesKept DEF Types
<1>3. ASSUME NEW n \in Booking, Decide(n) PROVE Types'
  <2>1. PageOK'
    BY <1>3 DEF Decide, Types, PageOK
  <2>2. UNCHANGED <<loads, service, mishap>>
    BY <1>3 DEF Decide
  <2> QED BY <2>1, <2>2, TypesKept DEF Types
<1>4. CASE Reset
  <2>1. PageOK'
    BY <1>4 DEF Reset, Types, PageOK, Key
  <2>2. UNCHANGED <<loads, service, mishap>>
    BY <1>4 DEF Reset
  <2> QED BY <2>1, <2>2, TypesKept DEF Types
<1>5. \A f : Edit(f) => UNCHANGED <<loading, awaited, confirmed, key, deciding, catalog,
                                    loads, service, mishap>>
  BY DEF Edit
<1>6. CASE \/ \E f \in Flight : SelectFlight(f)
           \/ \E r \in Room : ToggleRoom(r) \/ ChangeRooms(r) \/ EnterDates(r)
           \/ ChangePassengers
           \/ \E field \in {"fullName", "email"} : EnterContact(field)
           \/ \E i \in Item : Deselect(i)
  BY <1>1, <1>5, <1>6, Zenon DEF SelectFlight, ToggleRoom, ChangeRooms, EnterDates,
     ChangePassengers, EnterContact, Deselect
<1> QED BY <1>2, <1>3, <1>4, <1>6 DEF User

LEMMA AnswersTypes == ASSUME Types, Answers PROVE Types'
<1>1. ASSUME NEW n \in Booking, PostAnswered(n) PROVE Types'
  <2>1. UNCHANGED <<deciding, catalog, service, mishap>>
        /\ awaited' = awaited \ {n} /\ loading' = FALSE /\ Show(n, "placed")
    BY <1>1 DEF PostAnswered
  <2>2. confirmed' \in Booking \cup {0} /\ key' \in Key /\ LoadsOK'
    BY <2>1, ShowTypes DEF Key
  <2> QED BY <2>1, <2>2, TypesKept DEF Types, PageOK
<1>2. ASSUME NEW n \in Booking, Poll(n) PROVE Types'
  <2>1. UNCHANGED <<loading, awaited, deciding, catalog, service, mishap>>
        /\ Show(n, Statuses(n))
    BY <1>2 DEF Poll
  <2>2. confirmed' \in Booking \cup {0} /\ key' \in Key /\ LoadsOK'
    BY <2>1, ShowTypes, StatusesAreKeys
  <2> QED BY <2>1, <2>2, TypesKept DEF Types, PageOK
<1>3. ASSUME NEW n \in Booking, DecisionAnswered(n) PROVE Types'
  <2>1. UNCHANGED <<loading, awaited, catalog, service>>
        /\ deciding' = deciding \ {n} /\ Show(n, Statuses(n))
        /\ (UNCHANGED mishap \/ mishap' = "reopened")
    BY <1>3 DEF DecisionAnswered, Suffer
  <2>2. confirmed' \in Booking \cup {0} /\ key' \in Key /\ LoadsOK'
    BY <2>1, ShowTypes, StatusesAreKeys
  <2> QED BY <2>1, <2>2, TypesKept DEF Types, PageOK, Mishap
<1>4. ASSUME NEW n \in Booking, PostFails(n) \/ DecisionFails(n) PROVE Types'
  <2>1. UNCHANGED <<confirmed, key, catalog, loads, service>>
        /\ loading' \in {loading, FALSE}
        /\ awaited' \in {awaited, awaited \ {n}}
        /\ deciding' \in {deciding, deciding \ {n}}
        /\ mishap' \in {mishap, "failure"}
    BY <1>4 DEF PostFails, DecisionFails, Suffer
  <2>2. PageOK'
    BY <2>1 DEF Types, PageOK
  <2> QED BY <2>1, <2>2, TypesKept DEF Types, Mishap
<1>5. CASE LoadFails
  <2>1. UNCHANGED <<loading, awaited, confirmed, key, deciding, catalog, service>>
        /\ loads.sent > 0 /\ loads' = [loads EXCEPT !.sent = @ - 1]
        /\ mishap' = "failure"
    BY <1>5 DEF LoadFails, Suffer
  <2>2. LoadsOK'
    <3>1. Len(loads.read) \in Nat
      BY LenProperties DEF Types, LoadsOK
    <3> QED BY <2>1, <3>1, AppAssumption DEF Types, LoadsOK
  <2> QED BY <2>1, <2>2, TypesKept DEF Types, Mishap
<1> QED BY <1>1, <1>2, <1>3, <1>4, <1>5 DEF Answers

LEMMA LoadingTypes == ASSUME Types, Loading PROVE Types'
<1>1. /\ loads.read \in Seq(Stock) /\ Len(loads.read) \in Nat
      /\ DOMAIN loads.read = 1..Len(loads.read)
      /\ loads.sent \in Nat /\ left \in Stock
  BY LenProperties DEF Types, LoadsOK, ServiceOK
<1>2. CASE ServeLoad
  <2>1. UNCHANGED <<loading, awaited, confirmed, key, deciding, catalog, service, mishap>>
        /\ loads.sent > 0
        /\ loads' = [sent |-> loads.sent - 1, read |-> Append(loads.read, left)]
    BY <1>2 DEF ServeLoad
  <2>2. Append(loads.read, left) \in Seq(Stock)
        /\ Len(Append(loads.read, left)) = Len(loads.read) + 1
    BY <1>1
  <2>3. LoadsOK'
    BY <1>1, <2>1, <2>2, AppAssumption DEF Types, LoadsOK
  <2> QED BY <2>1, <2>3, TypesKept DEF Types
<1>3. ASSUME NEW k \in DOMAIN loads.read, LoadAnswered(k) PROVE Types'
  <2>1. UNCHANGED <<loading, awaited, confirmed, key, deciding, service>>
        /\ catalog' = loads.read[k]
        /\ loads' = [loads EXCEPT !.read = RemoveAt(loads.read, k)]
        /\ (UNCHANGED mishap \/ mishap' = "overtaken")
    BY <1>3 DEF LoadAnswered, Suffer
  <2>2. k \in 1..Len(loads.read)
    BY <1>1
  <2> DEFINE before == SubSeq(loads.read, 1, k - 1)
             after == SubSeq(loads.read, k + 1, Len(loads.read))
  <2>3. before \in Seq(Stock) /\ Len(before) = k - 1
    <3>1. \A i \in 1..(k - 1) : loads.read[i] \in Stock
      BY <1>1, <2>2, ElementOfSeq
    <3>2. before \in Seq(Stock) /\ Len(before) = IF 1 <= k - 1 THEN (k - 1) - 1 + 1 ELSE 0
      BY <1>1, <2>2, <3>1, SubSeqProperties
    <3> QED BY <1>1, <2>2, <3>2
  <2>4. after \in Seq(Stock) /\ Len(after) = Len(loads.read) - k
    <3>1. \A i \in (k + 1)..Len(loads.read) : loads.read[i] \in Stock
      BY <1>1, <2>2, ElementOfSeq
    <3>2. after \in Seq(Stock)
          /\ Len(after) = IF k + 1 <= Len(loads.read) THEN Len(loads.read) - (k + 1) + 1
                          ELSE 0
      BY <1>1, <2>2, <3>1, SubSeqProperties
    <3> QED BY <1>1, <2>2, <3>2
  <2>5. /\ RemoveAt(loads.read, k) \in Seq(Stock)
        /\ Len(RemoveAt(loads.read, k)) = Len(loads.read) - 1
    <3> HIDE DEF before, after
    <3>1. before \o after \in Seq(Stock) /\ Len(before \o after) = Len(before) + Len(after)
      BY <2>3, <2>4, ConcatProperties
    <3>2. RemoveAt(loads.read, k) = before \o after
      BY DEF RemoveAt, before, after
    <3>3. Len(before \o after) = Len(loads.read) - 1
      BY <1>1, <2>2, <2>3, <2>4, <3>1
    <3> QED BY <3>1, <3>2, <3>3, Zenon
  <2>6. LoadsOK'
    BY <1>1, <2>1, <2>5, AppAssumption DEF Types, LoadsOK
  <2>7. catalog' \in Stock
    BY <1>1, <2>1, <2>2, ElementOfSeq
  <2> QED BY <2>1, <2>6, <2>7, TypesKept DEF Types, PageOK, Mishap
<1> QED BY <1>2, <1>3 DEF Loading

\* A booking has no more of an item than was posted for it, and gives back what
\* it took.
LEMMA ServingTypes == ASSUME Types, Serving PROVE Types'
<1>1. ASSUME NEW n \in Booking, NEW i \in Item PROVE Amount(n, i) \in Nat
  <2>0. order[n].items \in UNION {[S -> 1..MaxQuantity] : S \in SUBSET Item}
    BY DEF Types, ServiceOK, Order
  <2>1. PICK S \in SUBSET Item : order[n].items \in [S -> 1..MaxQuantity]
    BY <2>0, Zenon
  <2> QED BY <2>1, AppAssumption DEF Amount
<1>2. \A n \in Booking : DOMAIN order[n].items \subseteq Item
  <2> SUFFICES ASSUME NEW n \in Booking PROVE DOMAIN order[n].items \subseteq Item
    OBVIOUS
  <2>0. order[n].items \in UNION {[S -> 1..MaxQuantity] : S \in SUBSET Item}
    BY DEF Types, ServiceOK, Order
  <2>1. PICK S \in SUBSET Item : order[n].items \in [S -> 1..MaxQuantity]
    BY <2>0, Zenon
  <2> QED BY <2>1
<1>3. ASSUME NEW n \in Booking, Publish(n) \/ Settle(n) PROVE Types'
  <2>1. UNCHANGED <<page, order, taken, left, mishap>>
        /\ \E label \in Progress : Goto(n, label)
    BY <1>3 DEF Publish, Settle, Progress
  <2>2. ServiceOK'
    BY <2>1 DEF Types, ServiceOK, Goto
  <2> QED BY <2>1, <2>2, TypesKept DEF Types, page
<1>4. ASSUME NEW n \in Booking, Reserve(n) PROVE Types'
  <2> DEFINE fits == {i \in DOMAIN order[n].items : left[i] >= Amount(n, i)}
  <2>1. UNCHANGED <<page, order, mishap>> /\ Goto(n, "reserving")
        /\ taken' = [taken EXCEPT ![n] = fits]
        /\ left' = [i \in Item |-> IF i \in fits THEN left[i] - Amount(n, i) ELSE left[i]]
    BY <1>4 DEF Reserve
  <2>2. \A i \in Item : (IF i \in fits THEN left[i] - Amount(n, i) ELSE left[i]) \in Nat
    BY <1>1 DEF Types, ServiceOK, Stock
  <2>3. fits \in SUBSET Item
    BY <1>2
  <2> HIDE DEF fits
  <2>4. left' \in Stock
    BY <2>1, <2>2 DEF Stock
  <2>5. ServiceOK'
    BY <2>1, <2>3, <2>4 DEF Types, ServiceOK, Goto, Progress
  <2> QED BY <2>1, <2>5, TypesKept DEF Types, page
<1>5. ASSUME NEW n \in Booking, GiveBack(n) PROVE Types'
  <2>1. UNCHANGED <<page, order, taken, mishap>> /\ Goto(n, "releasing")
        /\ left' = [i \in Item |->
                      IF i \in taken[n] THEN left[i] + Amount(n, i) ELSE left[i]]
    BY <1>5 DEF GiveBack
  <2>2. \A i \in Item : (IF i \in taken[n] THEN left[i] + Amount(n, i) ELSE left[i]) \in Nat
    BY <1>1 DEF Types, ServiceOK, Stock
  <2>3. left' \in Stock
    BY <2>1, <2>2 DEF Stock
  <2>4. ServiceOK'
    BY <2>1, <2>3 DEF Types, ServiceOK, Goto, Progress
  <2> QED BY <2>1, <2>4, TypesKept DEF Types, page
<1> QED BY <1>3, <1>4, <1>5 DEF Serving

LEMMA InitTypes == Init => Types
<1> SUFFICES ASSUME Init PROVE Types
  OBVIOUS
<1>1. NoOrder \in Order
  <2>1. <<>> \in [{} -> 1..MaxQuantity]
    OBVIOUS
  <2>2. <<>> \in UNION {[S -> 1..MaxQuantity] : S \in SUBSET Item}
    BY <2>1, Zenon
  <2> QED BY <2>2 DEF NoOrder, Order
<1>2. <<>> \in Seq(Stock) /\ Len(<<>>) = 0
  BY EmptySeq
<1>3. LoadsOK
  BY <1>2, AppAssumption DEF Init, LoadsOK
<1>4. ServiceOK
  BY <1>1, AppAssumption DEF Init, ServiceOK, Progress, Stock
<1> QED BY <1>3, <1>4 DEF Init, Types, PageOK, Key, Mishap

\* The catalog, the form, what is posted and what is left keep their types: no
\* quantity leaves its range and no booking takes more than there is.
THEOREM AppTypeCorrect == Spec => []TypeOK
<1>1. IInv /\ Types /\ [Next]_vars => Types'
  <2> SUFFICES ASSUME IInv, Types, [Next]_vars PROVE Types'
    OBVIOUS
  <2>1. CASE UNCHANGED vars
    BY <2>1, TypesKept DEF vars, page, Types
  <2> QED BY <2>1, UserTypes, AnswersTypes, LoadingTypes, ServingTypes DEF Next
<1>2. IInv /\ Types => TypeOK
  BY TypesSuffice
<1> QED BY <1>1, <1>2, InitTypes, AppInvariant, PTL DEF Spec
=============================================================================
