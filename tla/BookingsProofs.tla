--------------------------- MODULE BookingsProofs ---------------------------
(***************************************************************************)
(* Proofs about Bookings: for every amenity, every number of residents and *)
(* of requests in flight, a confirmed booking owes nothing, no booking is  *)
(* checked in more often than its passes were spent, and the sweeps change *)
(* only what is still as they found it.                                    *)
(***************************************************************************)
EXTENDS Bookings, FiniteSetTheorems, TLAPS

(* The argument: isPaid never goes back to FALSE, so it is enough that     *)
(* whoever is about to confirm, use or close a booking has seen it paid,   *)
(* or knows that the amenity is free.  A booking not yet inserted is not   *)
(* paid, and a request that is to insert one carries a blank record.       *)
Paid(b) == b \in Bookings /\ booking[b].paid
Inserted(b) == b \in Bookings /\ booking[b].status # "NONE"

Charged == {"CONFIRMED", "COMPLETED", "NO_SHOW"}
Inserting == {"claim", "create"}
UsesPaid == {"issue", "link", "scanCheck", "consume", "markUsed", "arrive",
             "arriveById", "leave"}
OnBooking == UsesPaid \cup {"confirm", "confirmWrite", "decide", "cancel"}

GoodBooking(b) ==
    /\ booking[b].paid => booking[b].status # "NONE"
    /\ booking[b].status # "NONE" /\ ~policy.charged => booking[b].paid
    /\ booking[b].status \in Charged \/ booking[b].arrived => booking[b].paid

GoodPass(p) ==
    /\ passes[p].of # "none" => Paid(passes[p].of)
    /\ passes[p].status = "ACTIVE" => passes[p].of # "none"

GoodLocal(i) ==
    /\ h[i].pc \in Inserting => h[i].b \in Bookings /\ ~h[i].seen.arrived
    /\ h[i].pc \in OnBooking => Inserted(h[i].b)
    /\ h[i].pc \in UsesPaid => Paid(h[i].b)
    /\ h[i].pc = "decide" /\ h[i].seen.paid => Paid(h[i].b)

IInv ==
    /\ TypeOK
    /\ \A b \in Bookings : GoodBooking(b)
    /\ \A p \in Passes : GoodPass(p)
    /\ \A i \in Handlers : GoodLocal(i)

-----------------------------------------------------------------------------
(* What the requests in flight may become.                                 *)

LEMMA IdleTyped ==
    /\ NoBooking \in Booking /\ ~NoBooking.arrived
    /\ Idle \in Local /\ Idle.seen = NoBooking
    BY DEF NoBooking, Booking, Status, Idle, Local, Steps

LEMMA GotoTyped ==
    ASSUME TypeOK, NEW i \in Handlers, NEW step \in Steps, Goto(i, step)
    PROVE  /\ h' \in [Handlers -> Local]
           /\ h'[i].pc = step /\ h'[i].b = h[i].b
           /\ h'[i].p = h[i].p /\ h'[i].seen = h[i].seen
           /\ \A j \in Handlers \ {i} : h'[j] = h[j]
<1>1. h'[i] = [pc |-> step, b |-> h[i].b, p |-> h[i].p, seen |-> h[i].seen]
    BY DEF TypeOK, Goto, Local
<1>2. \A j \in Handlers \ {i} : h'[j] = h[j]
    BY DEF TypeOK, Goto
<1>3. h' \in [Handlers -> Local]
  <2>1. h'[i] \in Local
      BY <1>1 DEF TypeOK, Local
  <2>2. h' = [h EXCEPT ![i] = h'[i]]
      BY DEF TypeOK, Goto
  <2> QED
      BY <2>1, <2>2 DEF TypeOK
<1> QED
    BY <1>1, <1>2, <1>3

LEMMA SetTyped ==
    ASSUME TypeOK, NEW i \in Handlers, NEW l \in Local, h' = [h EXCEPT ![i] = l]
    PROVE  /\ h' \in [Handlers -> Local]
           /\ h'[i] = l
           /\ \A j \in Handlers \ {i} : h'[j] = h[j]
    BY DEF TypeOK

LEMMA FinishTyped ==
    ASSUME TypeOK, NEW i \in Handlers, Finish(i)
    PROVE  /\ h' \in [Handlers -> Local]
           /\ GoodLocal(i)'
           /\ \A j \in Handlers \ {i} : h'[j] = h[j]
<1>1. /\ h' \in [Handlers -> Local]
      /\ h'[i] = Idle
      /\ \A j \in Handlers \ {i} : h'[j] = h[j]
    BY IdleTyped, SetTyped DEF Finish
<1>2. h'[i].pc = "idle"
    BY <1>1 DEF Idle
<1> QED
    BY <1>1, <1>2 DEF GoodLocal, Inserting, OnBooking, UsesPaid

(* A request that starts with what it has read of booking b.               *)
LEMMA ReadingTyped ==
    ASSUME TypeOK, NEW b \in Bookings, NEW step \in Steps
    PROVE  /\ Reading(step, b) \in Local
           /\ Reading(step, b).pc = step /\ Reading(step, b).b = b
           /\ Reading(step, b).seen = booking[b]
<1>1. booking[b] \in Booking
    BY DEF TypeOK
<1> QED
    BY <1>1, IdleTyped DEF Reading, Local

(* Setting the status of a booking keeps the rest of it.                   *)
LEMMA StatusTyped ==
    ASSUME TypeOK, NEW b \in Bookings, NEW status \in Status, SetStatus(b, status)
    PROVE  /\ booking' \in [Bookings -> Booking]
           /\ booking'[b].status = status
           /\ booking'[b].paid = booking[b].paid /\ booking'[b].arrived = booking[b].arrived
           /\ \A c \in Bookings \ {b} : booking'[c] = booking[c]
<1>1. booking'[b] = [booking[b] EXCEPT !.status = status, !.by = "user"]
    BY DEF TypeOK, SetStatus
<1>2. \A c \in Bookings \ {b} : booking'[c] = booking[c]
    BY DEF TypeOK, SetStatus
<1>3. booking' = [booking EXCEPT ![b] = booking'[b]]
    BY <1>1 DEF TypeOK, SetStatus
<1>4. booking[b] \in Booking
    BY DEF TypeOK
<1>5. /\ booking'[b] \in Booking
      /\ booking'[b].status = status
      /\ booking'[b].paid = booking[b].paid /\ booking'[b].arrived = booking[b].arrived
    BY <1>1, <1>4 DEF Booking
<1>6. booking' \in [Bookings -> Booking]
    BY <1>3, <1>5 DEF TypeOK
<1> QED
    BY <1>2, <1>5, <1>6

(* The variables a request may write, when they keep their type.           *)
LEMMA TypeStep ==
    ASSUME TypeOK, UNCHANGED rest, started' \in 0..MaxRequests,
           booking' \in [Bookings -> Booking], passes' \in [Passes -> Pass],
           h' \in [Handlers -> Local], checkins' \in [Bookings -> Nat]
    PROVE  TypeOK'
    BY DEF TypeOK, rest

(* The invariant is kept by a step after which the bookings are good, what *)
(* was paid is paid, no pass changes hands, and whoever moved is good.     *)
LEMMA Preserved ==
    ASSUME IInv, TypeOK', policy' = policy,
           \A b \in Bookings : GoodBooking(b)',
           \A b \in Bookings : booking[b].paid => booking'[b].paid,
           \A b \in Bookings : booking[b].status # "NONE" => booking'[b].status # "NONE",
           \A p \in Passes : /\ passes'[p].of = passes[p].of
                             /\ passes'[p].status = "ACTIVE" => passes[p].status = "ACTIVE",
           \A i \in Handlers : h'[i] = h[i] \/ GoodLocal(i)'
    PROVE  IInv'
<1>1. \A p \in Passes : GoodPass(p)'
    BY DEF IInv, GoodPass, Paid
<1>2. ASSUME NEW i \in Handlers, h'[i] = h[i] PROVE GoodLocal(i)'
  <2>1. GoodLocal(i)
      BY DEF IInv
  <2> QED
      BY <1>2, <2>1 DEF GoodLocal, Paid, Inserted
<1> QED
    BY <1>1, <1>2 DEF IInv

-----------------------------------------------------------------------------
(* Requests that read and go on: nothing is written but the request.       *)

LEMMA Moves ==
    ASSUME IInv, NEW i \in Handlers, UNCHANGED <<booking, passes, checkins, rest>>,
           started' \in 0..MaxRequests, h' \in [Handlers -> Local],
           \A j \in Handlers \ {i} : h'[j] = h[j], GoodLocal(i)'
    PROVE  IInv'
<1>1. TypeOK'
    BY TypeStep DEF IInv, TypeOK
<1>2. \A b \in Bookings : GoodBooking(b)'
    BY DEF IInv, GoodBooking, rest
<1> QED
    BY <1>1, <1>2, Preserved DEF rest

(* A request that starts, or goes on to a step that it may take.           *)
LEMMA Begins ==
    ASSUME IInv, NEW i \in Handlers, NEW l \in Local, Begin(i, l),
           UNCHANGED <<booking, passes, checkins>>,
           l.pc \in Inserting => l.b \in Bookings /\ ~l.seen.arrived,
           l.pc \in OnBooking => Inserted(l.b),
           l.pc \in UsesPaid => Paid(l.b),
           l.pc = "decide" /\ l.seen.paid => Paid(l.b)
    PROVE  IInv'
<1>1. h' = [h EXCEPT ![i] = l] /\ UNCHANGED rest
    BY DEF Begin
<1>2. started' \in 0..MaxRequests
    BY BookingsAssumption DEF Begin, IInv, TypeOK
<1>3. /\ h' \in [Handlers -> Local] /\ h'[i] = l
      /\ \A j \in Handlers \ {i} : h'[j] = h[j]
    BY <1>1, SetTyped DEF IInv
<1>4. GoodLocal(i)'
    BY <1>3 DEF GoodLocal, Inserted, Paid
<1> QED
    BY <1>1, <1>2, <1>3, <1>4, Moves

LEMMA GoesOn ==
    ASSUME IInv, NEW i \in Handlers, NEW step \in Steps,
           UNCHANGED <<booking, passes, checkins, started, rest>>, Goto(i, step),
           step \in Inserting => h[i].pc \in Inserting,
           step \in OnBooking => Inserted(h[i].b),
           step \in UsesPaid => Paid(h[i].b),
           step # "decide"
    PROVE  IInv'
<1>1. /\ h' \in [Handlers -> Local]
      /\ h'[i].pc = step /\ h'[i].b = h[i].b /\ h'[i].seen = h[i].seen
      /\ \A j \in Handlers \ {i} : h'[j] = h[j]
    BY GotoTyped DEF IInv
<1>2. GoodLocal(i)'
    BY <1>1 DEF IInv, GoodLocal, Inserted, Paid
<1>3. started' \in 0..MaxRequests
    BY DEF IInv, TypeOK
<1> QED
    BY <1>1, <1>2, <1>3, Moves

LEMMA Finishes ==
    ASSUME IInv, NEW i \in Handlers, Finish(i),
           UNCHANGED <<booking, passes, checkins, started, rest>>
    PROVE  IInv'
<1>1. /\ h' \in [Handlers -> Local] /\ GoodLocal(i)'
      /\ \A j \in Handlers \ {i} : h'[j] = h[j]
    BY FinishTyped DEF IInv
<1>2. started' \in 0..MaxRequests
    BY DEF IInv, TypeOK
<1> QED
    BY <1>1, <1>2, Moves

(* The requests of residents, staff and guards.                            *)
LEMMA InvRequest == ASSUME IInv, NEW i \in Handlers, Request(i) PROVE IInv'
<1> USE DEF Inserting, OnBooking, UsesPaid, Inserted, Paid
<1>1. ASSUME NEW b \in Bookings, NEW unit \in Units, NEW n \in Parties,
             BookRead(i, b, unit, n)
      PROVE  IInv'
  <2> DEFINE l == [Idle EXCEPT !.pc = "claim", !.b = b,
                               !.seen.unit = unit, !.seen.people = n]
  <2>1. l.pc = "claim" /\ l.b = b /\ l \in Local /\ ~l.seen.arrived
      BY IdleTyped DEF Local, Booking, Steps
  <2>2. Begin(i, l) /\ UNCHANGED <<booking, passes, checkins>>
      BY <1>1 DEF BookRead
  <2> HIDE DEF l
  <2> QED
      BY <2>1, <2>2, Begins
<1>2. ASSUME NEW b \in Bookings, Pay(i, b) PROVE IInv'
  <2> DEFINE l == [Idle EXCEPT !.pc = "confirm", !.b = b]
  <2>1. l.pc = "confirm" /\ l.b = b /\ l \in Local
      BY IdleTyped DEF Local, Steps
  <2>2. Begin(i, l) /\ UNCHANGED <<booking, passes, checkins>> /\ booking[b].status # "NONE"
      BY <1>2 DEF Pay
  <2> HIDE DEF l
  <2> QED
      BY <2>1, <2>2, Begins
<1>3. ASSUME NEW b \in Bookings, DecideRead(i, b) PROVE IInv'
  <2>1. /\ Reading("decide", b) \in Local
        /\ Reading("decide", b).pc = "decide" /\ Reading("decide", b).b = b
        /\ Reading("decide", b).seen = booking[b]
      BY ReadingTyped DEF IInv, Steps
  <2>2. Begin(i, Reading("decide", b)) /\ UNCHANGED <<booking, passes, checkins>>
      BY <1>3 DEF DecideRead
  <2>3. booking[b].status # "NONE"
      BY <1>3 DEF DecideRead
  <2> QED
      BY <2>1, <2>2, <2>3, Begins
<1>4. ASSUME NEW b \in Bookings, CancelRead(i, b) PROVE IInv'
  <2>1. /\ Reading("cancel", b) \in Local
        /\ Reading("cancel", b).pc = "cancel" /\ Reading("cancel", b).b = b
      BY ReadingTyped DEF IInv, Steps
  <2>2. Begin(i, Reading("cancel", b)) /\ UNCHANGED <<booking, passes, checkins>>
      BY <1>4 DEF CancelRead
  <2>3. booking[b].status # "NONE"
      BY <1>4 DEF CancelRead
  <2> QED
      BY <2>1, <2>2, <2>3, Begins
<1>5. ASSUME NEW b \in Bookings, ArriveRead(i, b) PROVE IInv'
  <2>1. /\ Reading("arriveById", b) \in Local
        /\ Reading("arriveById", b).pc = "arriveById" /\ Reading("arriveById", b).b = b
      BY ReadingTyped DEF IInv, Steps
  <2>2. Begin(i, Reading("arriveById", b)) /\ UNCHANGED <<booking, passes, checkins>>
      BY <1>5 DEF ArriveRead
  <2>3. booking[b].status # "NONE" /\ booking[b].paid
      BY <1>5 DEF ArriveRead, IInv, GoodBooking, Charged
  <2> QED
      BY <2>1, <2>2, <2>3, Begins
<1>6. ASSUME NEW b \in Bookings, LeaveRead(i, b) PROVE IInv'
  <2>1. /\ Reading("leave", b) \in Local
        /\ Reading("leave", b).pc = "leave" /\ Reading("leave", b).b = b
      BY ReadingTyped DEF IInv, Steps
  <2>2. Begin(i, Reading("leave", b)) /\ UNCHANGED <<booking, passes, checkins>>
      BY <1>6 DEF LeaveRead
  <2>3. booking[b].status # "NONE" /\ booking[b].paid
      BY <1>6 DEF LeaveRead, IInv, GoodBooking, Charged
  <2> QED
      BY <2>1, <2>2, <2>3, Begins
<1> QED
    BY <1>1, <1>2, <1>3, <1>4, <1>5, <1>6 DEF Request

LEMMA InvScanRead ==
    ASSUME IInv, NEW i \in Handlers, NEW p \in Passes, ScanRead(i, p) PROVE IInv'
<1> DEFINE l == [Idle EXCEPT !.pc = "scanCheck", !.b = passes[p].of, !.p = p]
<1>1. Paid(passes[p].of) /\ Inserted(passes[p].of)
    BY DEF ScanRead, IInv, GoodPass, GoodBooking, Paid, Inserted
<1>2. l.pc = "scanCheck" /\ l.b = passes[p].of /\ l \in Local
    BY <1>1, IdleTyped DEF Local, Steps, Paid
<1>3. Begin(i, l) /\ UNCHANGED <<booking, passes, checkins>>
    BY DEF ScanRead
<1> HIDE DEF l
<1> QED
    BY <1>1, <1>2, <1>3, Begins DEF Inserting

-----------------------------------------------------------------------------
(* Steps that write one booking.                                           *)

LEMMA Writes ==
    ASSUME IInv, NEW i \in Handlers, NEW b \in Bookings,
           UNCHANGED <<passes, started, rest>>,
           booking' \in [Bookings -> Booking], checkins' \in [Bookings -> Nat],
           \A c \in Bookings \ {b} : booking'[c] = booking[c],
           booking[b].paid => booking'[b].paid, GoodBooking(b)',
           booking'[b].status # "NONE",
           h' \in [Handlers -> Local],
           \A j \in Handlers \ {i} : h'[j] = h[j], GoodLocal(i)'
    PROVE  IInv'
<1>1. TypeOK'
    BY TypeStep DEF IInv, TypeOK
<1>2. ASSUME NEW c \in Bookings \ {b} PROVE GoodBooking(c)'
  <2>1. GoodBooking(c)
      BY DEF IInv
  <2> QED
      BY <2>1 DEF GoodBooking, rest
<1> QED
    BY <1>1, <1>2, Preserved DEF rest

LEMMA InvCreate == ASSUME IInv, NEW i \in Handlers, Create(i) PROVE IInv'
<1>0. PICK b0 \in Bookings : b0 = h[i].b
    BY DEF Create, At, IInv, GoodLocal, Inserting
<1>1. /\ ~h[i].seen.arrived /\ h[i].seen \in Booking
      /\ UNCHANGED <<passes, started, checkins, rest>>
    BY <1>0 DEF Create, At, IInv, GoodLocal, Inserting, TypeOK, Local
<1>2. CASE booking[b0].status # "NONE"
    BY <1>0, <1>1, <1>2, Finishes DEF Create
<1>3. CASE booking[b0].status = "NONE"
  <2> DEFINE new == [h[i].seen EXCEPT !.status = NewStatus, !.paid = ~policy.charged]
  <2>1. /\ new \in Booking /\ new.status = NewStatus
        /\ new.paid = ~policy.charged /\ new.arrived = h[i].seen.arrived
      BY <1>0, <1>1 DEF Booking, NewStatus, Status
  <2>2. booking' = [booking EXCEPT ![b0] = new]
      BY <1>0, <1>3 DEF Create
  <2> HIDE DEF new
  <2>3. /\ booking' \in [Bookings -> Booking] /\ booking'[b0] = new
        /\ \A c \in Bookings \ {b0} : booking'[c] = booking[c]
      BY <1>0, <1>1, <2>1, <2>2 DEF IInv, TypeOK
  <2>4. ~booking[b0].paid
      BY <1>0, <1>1, <1>3 DEF IInv, GoodBooking
  <2>5. policy' = policy /\ policy.charged \in BOOLEAN
      BY <1>0, <1>1, BookingsAssumption DEF rest, IInv, TypeOK
  <2>6. GoodBooking(b0)' /\ booking'[b0].status # "NONE"
      BY <1>0, <1>1, <2>1, <2>3, <2>5 DEF GoodBooking, NewStatus, Charged
  <2>7. CASE NewStatus = "CONFIRMED"
    <3>1. Goto(i, "issue")
        BY <1>0, <1>3, <2>7 DEF Create
    <3>2. /\ h' \in [Handlers -> Local]
          /\ h'[i].pc = "issue" /\ h'[i].b = b0
          /\ \A j \in Handlers \ {i} : h'[j] = h[j]
        BY <1>0, <3>1, GotoTyped DEF IInv, Steps
    <3>3. GoodLocal(i)'
        BY <1>0, <1>1, <2>1, <2>3, <2>6, <2>7, <3>2
           DEF GoodLocal, GoodBooking, Charged, Inserting, OnBooking, UsesPaid, Inserted, Paid
    <3> QED
        BY <1>0, <1>1, <2>3, <2>4, <2>6, <3>2, <3>3, Writes DEF IInv, TypeOK
  <2>8. CASE NewStatus # "CONFIRMED"
    <3>1. /\ h' \in [Handlers -> Local] /\ GoodLocal(i)'
          /\ \A j \in Handlers \ {i} : h'[j] = h[j]
        BY <1>0, <1>3, <2>8, FinishTyped DEF Create, IInv
    <3> QED
        BY <1>0, <1>1, <2>3, <2>4, <2>6, <3>1, Writes DEF IInv, TypeOK
  <2> QED
      BY <2>7, <2>8
<1> QED
    BY <1>0, <1>2, <1>3

LEMMA InvLinkPass == ASSUME IInv, NEW i \in Handlers, LinkPass(i) PROVE IInv'
<1>0. PICK b0 \in Bookings : b0 = h[i].b
    BY DEF LinkPass, At, IInv, GoodLocal, OnBooking, UsesPaid, Inserted
<1>1. /\ booking[b0].paid /\ booking[b0].status # "NONE"
      /\ h[i].p \in Passes \cup {"none"}
      /\ UNCHANGED <<passes, started, checkins, rest>>
    BY <1>0 DEF LinkPass, At, IInv, GoodLocal, UsesPaid, OnBooking, Paid, Inserted, TypeOK, Local
<1>2. /\ booking'[b0] = [booking[b0] EXCEPT !.pass = h[i].p]
      /\ booking' = [booking EXCEPT ![b0] = booking'[b0]]
      /\ \A c \in Bookings \ {b0} : booking'[c] = booking[c]
    BY <1>0, <1>1 DEF LinkPass, IInv, TypeOK
<1>3. booking[b0] \in Booking
    BY <1>0, <1>1 DEF IInv, TypeOK
<1>4. /\ booking'[b0] \in Booking
      /\ booking'[b0].status = booking[b0].status
      /\ booking'[b0].paid = booking[b0].paid
    BY <1>0, <1>1, <1>2, <1>3 DEF Booking
<1>5. booking' \in [Bookings -> Booking]
    BY <1>0, <1>2, <1>4 DEF IInv, TypeOK
<1>6. GoodBooking(b0)'
    BY <1>0, <1>1, <1>4 DEF GoodBooking
<1>7. /\ h' \in [Handlers -> Local] /\ GoodLocal(i)'
      /\ \A j \in Handlers \ {i} : h'[j] = h[j]
    BY FinishTyped DEF LinkPass, IInv
<1> QED
    BY <1>0, <1>1, <1>2, <1>4, <1>5, <1>6, <1>7, Writes DEF IInv, TypeOK

LEMMA InvConfirmWrite == ASSUME IInv, NEW i \in Handlers, ConfirmWrite(i) PROVE IInv'
<1>0. PICK b0 \in Bookings : b0 = h[i].b
    BY DEF ConfirmWrite, At, IInv, GoodLocal, OnBooking, Inserted
<1>1. UNCHANGED <<passes, started, checkins, rest>>
    BY DEF ConfirmWrite, At
<1>2. /\ booking'[b0] = [booking[b0] EXCEPT !.status = "CONFIRMED", !.paid = TRUE, !.by = "user"]
      /\ booking' = [booking EXCEPT ![b0] = booking'[b0]]
      /\ \A c \in Bookings \ {b0} : booking'[c] = booking[c]
    BY <1>0, <1>1 DEF ConfirmWrite, IInv, TypeOK
<1>3. booking[b0] \in Booking
    BY <1>0, <1>1 DEF IInv, TypeOK
<1>4. /\ booking'[b0] \in Booking
      /\ booking'[b0].status = "CONFIRMED" /\ booking'[b0].paid
    BY <1>0, <1>2, <1>3 DEF Booking, Status
<1>5. booking' \in [Bookings -> Booking]
    BY <1>0, <1>2, <1>4 DEF IInv, TypeOK
<1>6. GoodBooking(b0)'
    BY <1>4 DEF GoodBooking
<1>7. /\ h' \in [Handlers -> Local]
      /\ h'[i].pc = "issue" /\ h'[i].b = b0
      /\ \A j \in Handlers \ {i} : h'[j] = h[j]
    BY <1>0, GotoTyped DEF ConfirmWrite, IInv, Steps
<1>8. GoodLocal(i)'
    BY <1>0, <1>1, <1>4, <1>7 DEF GoodLocal, Inserting, OnBooking, UsesPaid, Inserted, Paid
<1> QED
    BY <1>0, <1>1, <1>2, <1>4, <1>5, <1>6, <1>7, <1>8, Writes DEF IInv, TypeOK

(* A decision, a cancellation or a departure sets the status of a booking  *)
(* that was inserted, and confirms or closes it only when it is paid.      *)
LEMMA StatusWritten ==
    ASSUME IInv, NEW i \in Handlers, NEW b \in Bookings, NEW status \in Status,
           SetStatus(b, status), UNCHANGED <<passes, started, checkins, rest>>,
           booking[b].status # "NONE", status # "NONE",
           status \in Charged => booking[b].paid,
           \/ Finish(i)
           \/ /\ h[i].b = b
              /\ \/ Goto(i, "issue") /\ booking[b].paid
                 \/ Goto(i, "revoke")
    PROVE  IInv'
<1>1. /\ booking' \in [Bookings -> Booking]
      /\ booking'[b].status = status
      /\ booking'[b].paid = booking[b].paid /\ booking'[b].arrived = booking[b].arrived
      /\ \A c \in Bookings \ {b} : booking'[c] = booking[c]
    BY StatusTyped DEF IInv
<1>2. GoodBooking(b)'
    BY <1>1 DEF IInv, GoodBooking, rest
<1>3. CASE Finish(i)
    BY <1>1, <1>2, <1>3, FinishTyped, Writes DEF IInv, TypeOK
<1>4. CASE h[i].b = b /\ Goto(i, "issue") /\ booking[b].paid
  <2>1. /\ h' \in [Handlers -> Local]
        /\ h'[i].pc = "issue" /\ h'[i].b = b
        /\ \A j \in Handlers \ {i} : h'[j] = h[j]
      BY <1>4, GotoTyped DEF IInv, Steps
  <2>2. GoodLocal(i)'
      BY <1>1, <1>4, <2>1 DEF GoodLocal, Inserting, OnBooking, UsesPaid, Inserted, Paid
  <2> QED
      BY <1>1, <1>2, <2>1, <2>2, Writes DEF IInv, TypeOK
<1>5. CASE Goto(i, "revoke")
  <2>1. /\ h' \in [Handlers -> Local] /\ h'[i].pc = "revoke"
        /\ \A j \in Handlers \ {i} : h'[j] = h[j]
      BY <1>5, GotoTyped DEF IInv, Steps
  <2>2. GoodLocal(i)'
      BY <2>1 DEF GoodLocal, Inserting, OnBooking, UsesPaid
  <2> QED
      BY <1>1, <1>2, <2>1, <2>2, Writes DEF IInv, TypeOK
<1> QED
    BY <1>3, <1>4, <1>5

LEMMA InvDecideWrite ==
    ASSUME IInv, NEW i \in Handlers, NEW yes \in BOOLEAN, DecideWrite(i, yes) PROVE IInv'
<1>1. PICK b \in Bookings : b = h[i].b /\ booking[b].status # "NONE"
    BY DEF DecideWrite, At, IInv, GoodLocal, OnBooking, Inserted
<1>2. PICK status : status = IF yes THEN Approved(h[i].seen) ELSE "REJECTED"
    OBVIOUS
<1>3. status \in {"PENDING_PAYMENT", "CONFIRMED", "REJECTED"}
    BY <1>2 DEF Approved
<1>4. status = "CONFIRMED" => booking[b].paid
  <2>1. Approved(h[i].seen) = "CONFIRMED" => ~policy.charged \/ h[i].seen.paid
      BY DEF Approved
  <2>2. ~policy.charged => booking[b].paid
      BY <1>1 DEF IInv, GoodBooking
  <2>3. h[i].seen.paid => booking[b].paid
      BY <1>1 DEF DecideWrite, At, IInv, GoodLocal, Paid
  <2> QED
      BY <1>2, <2>1, <2>2, <2>3
<1>5. SetStatus(b, status) /\ UNCHANGED <<passes, started, checkins, rest>>
    BY <1>1, <1>2 DEF DecideWrite, At
<1>6. IF status = "CONFIRMED" THEN Goto(i, "issue") ELSE Finish(i)
    BY <1>2 DEF DecideWrite
<1> QED
    BY <1>1, <1>3, <1>4, <1>5, <1>6, StatusWritten DEF Status, Charged

LEMMA InvCancelWrite ==
    ASSUME IInv, NEW i \in Handlers, NEW yes \in BOOLEAN, CancelWrite(i, yes) PROVE IInv'
<1>1. PICK b \in Bookings : b = h[i].b /\ booking[b].status # "NONE"
    BY DEF CancelWrite, At, IInv, GoodLocal, OnBooking, Inserted
<1>2. PICK status \in {"REFUNDED", "CANCELLED"} : SetStatus(b, status)
    BY <1>1 DEF CancelWrite
<1>3. UNCHANGED <<passes, started, checkins, rest>>
    BY DEF CancelWrite, At
<1>4. Finish(i) \/ Goto(i, "revoke")
    BY DEF CancelWrite
<1> QED
    BY <1>1, <1>2, <1>3, <1>4, StatusWritten DEF Status, Charged

LEMMA InvLeave == ASSUME IInv, NEW i \in Handlers, Leave(i) PROVE IInv'
<1>1. PICK b \in Bookings : b = h[i].b /\ booking[b].status # "NONE" /\ booking[b].paid
    BY DEF Leave, At, IInv, GoodLocal, OnBooking, UsesPaid, Inserted, Paid
<1>2. SetStatus(b, "COMPLETED") /\ Finish(i) /\ UNCHANGED <<passes, started, checkins, rest>>
    BY <1>1 DEF Leave, At
<1> QED
    BY <1>1, <1>2, StatusWritten DEF Status, Charged

LEMMA InvArrive ==
    ASSUME IInv, NEW i \in Handlers, Arrive(i) \/ ArriveById(i) PROVE IInv'
<1>1. PICK b \in Bookings : b = h[i].b /\ booking[b].status # "NONE" /\ booking[b].paid
    BY DEF Arrive, ArriveById, At, IInv, GoodLocal, OnBooking, UsesPaid, Inserted, Paid
<1>2. SetArrived(i) /\ UNCHANGED <<passes, started, rest>>
    BY DEF Arrive, ArriveById, At, SetArrived
<1>3. /\ booking'[b] = [booking[b] EXCEPT !.arrived = TRUE, !.by = "user"]
      /\ booking' = [booking EXCEPT ![b] = booking'[b]]
      /\ \A c \in Bookings \ {b} : booking'[c] = booking[c]
    BY <1>1, <1>2 DEF SetArrived, IInv, TypeOK
<1>4. booking[b] \in Booking
    BY DEF IInv, TypeOK
<1>5. /\ booking'[b] \in Booking /\ booking'[b].status = booking[b].status
      /\ booking'[b].paid = booking[b].paid
    BY <1>3, <1>4 DEF Booking
<1>6. booking' \in [Bookings -> Booking]
    BY <1>3, <1>5 DEF IInv, TypeOK
<1>7. GoodBooking(b)'
    BY <1>1, <1>5 DEF GoodBooking
<1>8. checkins' \in [Bookings -> Nat]
    BY <1>1 DEF Arrive, ArriveById, IInv, TypeOK
<1>9. /\ h' \in [Handlers -> Local] /\ GoodLocal(i)'
      /\ \A j \in Handlers \ {i} : h'[j] = h[j]
    BY <1>2, FinishTyped DEF SetArrived, IInv
<1> QED
    BY <1>1, <1>2, <1>3, <1>5, <1>6, <1>7, <1>8, <1>9, Writes

-----------------------------------------------------------------------------
(* Steps that write one pass.                                              *)

LEMMA InvIssuePass ==
    ASSUME IInv, NEW i \in Handlers, NEW p \in Passes, IssuePass(i, p) PROVE IInv'
<1>1. PICK b \in Bookings : b = h[i].b /\ booking[b].status # "NONE" /\ booking[b].paid
    BY DEF IssuePass, At, IInv, GoodLocal, OnBooking, UsesPaid, Inserted, Paid
<1>2. UNCHANGED <<booking, started, checkins, rest>>
    BY DEF IssuePass, At
<1>3. /\ passes'[p] = [status |-> "ACTIVE", used |-> 0, of |-> b]
      /\ \A q \in Passes \ {p} : passes'[q] = passes[q]
      /\ passes' \in [Passes -> Pass]
    BY <1>1 DEF IssuePass, IInv, TypeOK, Pass
<1>4. /\ h'[i] = [pc |-> "link", b |-> b, p |-> p, seen |-> h[i].seen]
      /\ \A j \in Handlers \ {i} : h'[j] = h[j]
      /\ h' = [h EXCEPT ![i] = h'[i]]
    BY <1>1 DEF IssuePass, IInv, TypeOK, Local
<1>5. h'[i] \in Local
    BY <1>1, <1>4 DEF IInv, TypeOK, Local, Steps
<1>6. h' \in [Handlers -> Local]
    BY <1>4, <1>5 DEF IInv, TypeOK
<1>7. TypeOK'
    BY <1>2, <1>3, <1>6, TypeStep DEF IInv, TypeOK
<1>8. \A c \in Bookings : GoodBooking(c)'
    BY <1>2 DEF IInv, GoodBooking, rest
<1>9. \A q \in Passes : GoodPass(q)'
    BY <1>1, <1>2, <1>3, BookingsAssumption DEF IInv, GoodPass, Paid
<1>10. GoodLocal(i)'
    BY <1>1, <1>2, <1>4 DEF GoodLocal, Inserting, OnBooking, UsesPaid, Inserted, Paid
<1>11. ASSUME NEW j \in Handlers \ {i} PROVE GoodLocal(j)'
  <2>1. GoodLocal(j)
      BY DEF IInv
  <2> QED
      BY <1>2, <1>4, <2>1 DEF GoodLocal, Paid, Inserted
<1> QED
    BY <1>7, <1>8, <1>9, <1>10, <1>11 DEF IInv

(* A pass that is charged or loses its validity does not change hands.     *)
LEMMA PassWritten ==
    ASSUME IInv, NEW i \in Handlers, UNCHANGED <<booking, started, checkins, rest>>,
           passes' \in [Passes -> Pass],
           \A p \in Passes : /\ passes'[p].of = passes[p].of
                             /\ passes'[p].status = "ACTIVE" => passes[p].status = "ACTIVE",
           h' \in [Handlers -> Local],
           \A j \in Handlers \ {i} : h'[j] = h[j], GoodLocal(i)'
    PROVE  IInv'
<1>1. TypeOK'
    BY TypeStep DEF IInv, TypeOK
<1>2. \A b \in Bookings : GoodBooking(b)'
    BY DEF IInv, GoodBooking, rest
<1> QED
    BY <1>1, <1>2, Preserved DEF rest

LEMMA PassStatusTyped ==
    ASSUME TypeOK, NEW q \in Passes \cup {"none"}, NEW status \in {"USED", "REVOKED"},
           passes' = [passes EXCEPT ![q].status = status]
    PROVE  /\ passes' \in [Passes -> Pass]
           /\ \A p \in Passes : /\ passes'[p].of = passes[p].of
                                /\ passes'[p].status = "ACTIVE" => passes[p].status = "ACTIVE"
<1>1. ASSUME NEW p \in Passes
      PROVE  /\ passes'[p] \in Pass /\ passes'[p].of = passes[p].of
             /\ passes'[p].status = "ACTIVE" => passes[p].status = "ACTIVE"
  <2>1. passes[p] \in Pass
      BY DEF TypeOK
  <2>2. passes'[p] = IF p = q THEN [passes[p] EXCEPT !.status = status] ELSE passes[p]
      BY DEF TypeOK
  <2> QED
      BY <2>1, <2>2 DEF Pass
<1>2. passes' \in [Passes -> Pass]
  <2>1. passes' = [p \in Passes |-> passes'[p]]
      BY DEF TypeOK
  <2> QED
      BY <1>1, <2>1
<1> QED
    BY <1>1, <1>2

LEMMA InvRevokePass == ASSUME IInv, NEW i \in Handlers, RevokePass(i) PROVE IInv'
<1>1. h[i].seen.pass \in Passes \cup {"none"}
    BY DEF IInv, TypeOK, Local, Booking
<1>2. UNCHANGED <<booking, started, checkins, rest>>
    BY DEF RevokePass, At
<1>3. /\ passes' \in [Passes -> Pass]
      /\ \A p \in Passes : /\ passes'[p].of = passes[p].of
                           /\ passes'[p].status = "ACTIVE" => passes[p].status = "ACTIVE"
    BY <1>1, PassStatusTyped DEF RevokePass, IInv
<1>4. /\ h' \in [Handlers -> Local] /\ GoodLocal(i)'
      /\ \A j \in Handlers \ {i} : h'[j] = h[j]
    BY FinishTyped DEF RevokePass, IInv
<1> QED
    BY <1>2, <1>3, <1>4, PassWritten

(* A scan goes on with the booking of its pass, which it knows to be paid. *)
LEMMA ScanGoesOn ==
    ASSUME IInv, NEW i \in Handlers, h[i].pc \in UsesPaid,
           NEW step \in {"markUsed", "arrive"}, Goto(i, step), UNCHANGED booking
    PROVE  /\ h' \in [Handlers -> Local] /\ GoodLocal(i)'
           /\ \A j \in Handlers \ {i} : h'[j] = h[j]
<1>1. /\ h' \in [Handlers -> Local] /\ h'[i].pc = step /\ h'[i].b = h[i].b
      /\ \A j \in Handlers \ {i} : h'[j] = h[j]
    BY GotoTyped DEF IInv, Steps
<1>2. Paid(h[i].b) /\ Inserted(h[i].b)
    BY DEF IInv, GoodLocal, OnBooking
<1> QED
    BY <1>1, <1>2 DEF GoodLocal, Inserting, Paid, Inserted

LEMMA InvConsume == ASSUME IInv, NEW i \in Handlers, Consume(i) PROVE IInv'
<1>1. h[i].pc \in UsesPaid /\ UNCHANGED <<booking, started, checkins, rest>>
    BY DEF Consume, At, UsesPaid
<1>2. CASE ~Consumable(h[i].p)
    BY <1>1, <1>2, Finishes DEF Consume
<1>3. CASE Consumable(h[i].p)
  <2> DEFINE q == h[i].p
  <2>1. passes' = [passes EXCEPT ![q].used = @ + 1] /\ Goto(i, "markUsed")
      BY <1>3 DEF Consume
  <2>2. ASSUME NEW p \in Passes
        PROVE  /\ passes'[p] \in Pass /\ passes'[p].of = passes[p].of
               /\ passes'[p].status = passes[p].status
    <3>1. passes[p] \in Pass
        BY DEF IInv, TypeOK
    <3>2. passes'[p] = IF p = q THEN [passes[p] EXCEPT !.used = @ + 1] ELSE passes[p]
        BY <2>1 DEF IInv, TypeOK
    <3>3. p = q => passes[p].used = 0
        BY <1>3, <3>1 DEF Consumable, Pass
    <3> QED
        BY <3>1, <3>2, <3>3 DEF Pass
  <2>3. passes' = [p \in Passes |-> passes'[p]]
      BY <2>1 DEF IInv, TypeOK
  <2>4. passes' \in [Passes -> Pass]
      BY <2>2, <2>3
  <2>5. /\ h' \in [Handlers -> Local] /\ GoodLocal(i)'
        /\ \A j \in Handlers \ {i} : h'[j] = h[j]
      BY <1>1, <2>1, ScanGoesOn
  <2> QED
      BY <1>1, <2>2, <2>4, <2>5, PassWritten
<1> QED
    BY <1>2, <1>3

LEMMA InvMarkUsed == ASSUME IInv, NEW i \in Handlers, MarkUsed(i) PROVE IInv'
<1>1. h[i].pc \in UsesPaid /\ UNCHANGED <<booking, started, checkins, rest>>
    BY DEF MarkUsed, At, UsesPaid
<1>2. h[i].p \in Passes \cup {"none"}
    BY DEF IInv, TypeOK, Local
<1>3. /\ passes' \in [Passes -> Pass]
      /\ \A p \in Passes : /\ passes'[p].of = passes[p].of
                           /\ passes'[p].status = "ACTIVE" => passes[p].status = "ACTIVE"
    BY <1>2, PassStatusTyped DEF MarkUsed, IInv
<1>4. Goto(i, "arrive") \/ Finish(i)
    BY DEF MarkUsed
<1>5. /\ h' \in [Handlers -> Local] /\ GoodLocal(i)'
      /\ \A j \in Handlers \ {i} : h'[j] = h[j]
    BY <1>1, <1>4, ScanGoesOn, FinishTyped DEF IInv
<1> QED
    BY <1>1, <1>3, <1>5, PassWritten

LEMMA InvScanCheck == ASSUME IInv, NEW i \in Handlers, ScanCheck(i) PROVE IInv'
<1>1. h[i].pc \in UsesPaid /\ UNCHANGED <<booking, passes, started, checkins, rest>>
    BY DEF ScanCheck, At, UsesPaid
<1>2. PICK b \in Bookings : b = h[i].b /\ booking[b].status # "NONE" /\ booking[b].paid
    BY <1>1 DEF IInv, GoodLocal, OnBooking, Inserted, Paid
<1>3. CASE Finish(i)
    BY <1>1, <1>3, Finishes
<1>4. CASE h' = [h EXCEPT ![i].pc = "consume", ![i].seen = booking[b]]
  <2>1. /\ h'[i] = [pc |-> "consume", b |-> b, p |-> h[i].p, seen |-> booking[b]]
        /\ \A j \in Handlers \ {i} : h'[j] = h[j]
        /\ h' = [h EXCEPT ![i] = h'[i]]
      BY <1>2, <1>4 DEF IInv, TypeOK, Local
  <2>2. h'[i] \in Local
      BY <1>2, <2>1 DEF IInv, TypeOK, Local, Steps
  <2>3. h' \in [Handlers -> Local]
      BY <2>1, <2>2 DEF IInv, TypeOK
  <2>4. GoodLocal(i)'
      BY <1>1, <1>2, <2>1 DEF GoodLocal, Inserting, OnBooking, UsesPaid, Inserted, Paid
  <2>5. started' \in 0..MaxRequests
      BY <1>1 DEF IInv, TypeOK
  <2> QED
      BY <1>1, <2>1, <2>3, <2>4, <2>5, Moves
<1> QED
    BY <1>2, <1>3, <1>4 DEF ScanCheck

LEMMA InvGoesOn ==
    ASSUME IInv, NEW i \in Handlers, Claim(i) \/ ConfirmRead(i) \/ Abort(i) PROVE IInv'
<1>1. UNCHANGED <<booking, passes, started, checkins, rest>>
    BY DEF Claim, ConfirmRead, Abort, At
<1>2. CASE Finish(i)
    BY <1>1, <1>2, Finishes
<1>3. CASE h[i].pc = "claim" /\ Goto(i, "create")
    BY <1>1, <1>3, GoesOn DEF Inserting, OnBooking, UsesPaid, Steps
<1>4. CASE h[i].pc = "confirm" /\ Goto(i, "confirmWrite")
  <2>1. Inserted(h[i].b)
      BY <1>4 DEF IInv, GoodLocal, OnBooking
  <2> QED
      BY <1>1, <1>4, <2>1, GoesOn DEF Inserting, OnBooking, UsesPaid, Steps
<1> QED
    BY <1>2, <1>3, <1>4 DEF Claim, ConfirmRead, Abort, At

-----------------------------------------------------------------------------
(* The sweeps and the clock.                                               *)

LEMMA InvSweepWrite == ASSUME IInv, NEW b \in Bookings, SweepWrite(b) PROVE IInv'
<1>1. UNCHANGED <<still, passes>>
    BY DEF SweepWrite
<1>2. sweep' \in [kind : {"idle", "unpaid", "past"}, found : SUBSET Bookings,
                  arrived : SUBSET Bookings]
    BY DEF SweepWrite, IInv, TypeOK, NoSweep
<1>3. CASE ~Unchanged(b)
  <2>1. booking' = booking
      BY <1>3 DEF SweepWrite
  <2>2. TypeOK'
      BY <1>1, <1>2, <2>1 DEF still, IInv, TypeOK
  <2>3. \A c \in Bookings : GoodBooking(c)'
      BY <1>1, <2>1 DEF still, IInv, GoodBooking
  <2> QED
      BY <1>1, <2>1, <2>2, <2>3, Preserved DEF still
<1>4. CASE Unchanged(b)
  <2>1. /\ booking'[b] = [booking[b] EXCEPT !.status = Swept(b), !.by = "system"]
        /\ booking' = [booking EXCEPT ![b] = booking'[b]]
        /\ \A c \in Bookings \ {b} : booking'[c] = booking[c]
      BY <1>4 DEF SweepWrite, IInv, TypeOK
  <2>2. booking[b] \in Booking
      BY DEF IInv, TypeOK
  <2>3. /\ booking'[b] \in Booking /\ booking'[b].status = Swept(b)
        /\ booking'[b].paid = booking[b].paid /\ booking'[b].arrived = booking[b].arrived
      BY <2>1, <2>2 DEF Booking, Swept, Status
  <2>4. booking' \in [Bookings -> Booking]
      BY <2>1, <2>3 DEF IInv, TypeOK
  <2>5. TypeOK'
      BY <1>1, <1>2, <2>4 DEF still, IInv, TypeOK
  <2>6. booking[b].status # "NONE" /\ Swept(b) # "NONE"
      BY <1>4 DEF Unchanged, Swept
  <2>7. Swept(b) \in Charged => booking[b].paid
      BY <1>4 DEF Unchanged, Swept, Charged, IInv, GoodBooking
  <2>8. GoodBooking(b)'
      BY <1>1, <2>3, <2>6, <2>7 DEF still, IInv, GoodBooking
  <2>9. ASSUME NEW c \in Bookings \ {b} PROVE GoodBooking(c)'
    <3>1. GoodBooking(c)
        BY DEF IInv
    <3> QED
        BY <1>1, <2>1, <3>1 DEF still, GoodBooking
  <2> QED
      BY <1>1, <2>1, <2>3, <2>5, <2>6, <2>8, <2>9, Preserved DEF still
<1> QED
    BY <1>3, <1>4

LEMMA InvExpirePasses == ASSUME IInv, ExpirePasses PROVE IInv'
<1>1. UNCHANGED <<still, booking, sweep>>
    BY DEF ExpirePasses
<1>2. ASSUME NEW p \in Passes
      PROVE  /\ passes'[p] \in Pass /\ passes'[p].of = passes[p].of
             /\ passes'[p].status = "ACTIVE" => passes[p].status = "ACTIVE"
  <2>1. passes[p] \in Pass
      BY DEF IInv, TypeOK
  <2> QED
      BY <2>1 DEF ExpirePasses, Pass
<1>3. passes' \in [Passes -> Pass]
  <2>1. passes' = [p \in Passes |-> passes'[p]]
      BY DEF ExpirePasses
  <2> QED
      BY <1>2, <2>1
<1>4. TypeOK'
    BY <1>1, <1>3 DEF still, IInv, TypeOK
<1>5. \A c \in Bookings : GoodBooking(c)'
    BY <1>1 DEF still, IInv, GoodBooking
<1> QED
    BY <1>1, <1>2, <1>4, <1>5, Preserved DEF still

LEMMA InvTime ==
    ASSUME IInv, TypeOK', UNCHANGED <<policy, booking, passes, h>>
    PROVE  IInv'
<1>1. \A c \in Bookings : GoodBooking(c)'
    BY DEF IInv, GoodBooking
<1> QED
    BY <1>1, Preserved

LEMMA InvNext == IInv /\ [Next]_vars => IInv'
<1> SUFFICES ASSUME IInv, [Next]_vars PROVE IInv'
    OBVIOUS
<1>1. ASSUME NEW i \in Handlers, Continue(i) PROVE IInv'
    BY <1>1, InvGoesOn, InvCreate, InvLinkPass, InvIssuePass, InvConfirmWrite, InvDecideWrite,
       InvCancelWrite, InvRevokePass, InvScanCheck, InvConsume, InvMarkUsed, InvArrive, InvLeave
       DEF Continue
<1>2. CASE ExpireRead \/ ReconcileRead
  <2>1. sweep' \in [kind : {"idle", "unpaid", "past"}, found : SUBSET Bookings,
                    arrived : SUBSET Bookings]
      BY <1>2 DEF ExpireRead, ReconcileRead
  <2>2. TypeOK' /\ UNCHANGED <<policy, booking, passes, h>>
      BY <1>2, <2>1 DEF ExpireRead, ReconcileRead, still, IInv, TypeOK
  <2> QED
      BY <2>2, InvTime
<1>3. CASE Clock
    BY <1>3, InvTime DEF Clock, IInv, TypeOK
<1>4. ASSUME NEW b \in Bookings, Lapse(b) PROVE IInv'
    BY <1>4, InvTime DEF Lapse, IInv, TypeOK
<1>5. CASE UNCHANGED vars
    BY <1>5, InvTime DEF vars, IInv, TypeOK
<1> QED
    BY <1>1, <1>2, <1>3, <1>4, <1>5, InvRequest, InvGoesOn, InvScanRead, InvSweepWrite,
       InvExpirePasses DEF Next, Sweep

LEMMA InvInit == Init => IInv
<1> SUFFICES ASSUME Init PROVE IInv
    OBVIOUS
<1>1. \A b \in Bookings : booking[b] = NoBooking
    BY DEF Init
<1>2. \A p \in Passes : passes[p] = NoPass
    BY DEF Init
<1>3. \A i \in Handlers : h[i].pc = "idle"
    BY DEF Init, Idle
<1>4. TypeOK
  <2>1. NoPass \in Pass /\ 0 \in 0..MaxRequests
      BY BookingsAssumption DEF NoPass, Pass
  <2>2. NoSweep \in [kind : {"idle", "unpaid", "past"}, found : SUBSET Bookings,
                     arrived : SUBSET Bookings]
      BY DEF NoSweep
  <2> QED
      BY <2>1, <2>2, IdleTyped DEF Init, TypeOK
<1>5. \A b \in Bookings : GoodBooking(b)
    BY <1>1 DEF NoBooking, GoodBooking, Charged
<1>6. \A p \in Passes : GoodPass(p)
    BY <1>2 DEF NoPass, GoodPass
<1>7. \A i \in Handlers : GoodLocal(i)
    BY <1>3 DEF GoodLocal, Inserting, OnBooking, UsesPaid
<1> QED
    BY <1>4, <1>5, <1>6, <1>7 DEF IInv

(* Whatever requests, sweeps and the clock do, the documents keep their    *)
(* shape; a pass is never spent twice (qr.ts 323).                         *)
THEOREM TypeCorrect == Spec => []TypeOK
<1>1. IInv => TypeOK
    BY DEF IInv
<1> QED
    BY InvInit, InvNext, <1>1, PTL DEF Spec

(* A booking that is confirmed, was used or was given a QR is paid, for    *)
(* any number of requests in flight and whichever of approval, payment and *)
(* the sweeps came first (amenityService.ts 267-272, 422, 483).            *)
THEOREM OwesNothingCorrect == Spec => []OwesNothing
<1>1. IInv => OwesNothing
  <2> SUFFICES ASSUME IInv, NEW b \in Bookings,
                      \/ booking[b].status \in {"CONFIRMED", "COMPLETED", "NO_SHOW"}
                      \/ \E p \in Passes : passes[p].of = b
               PROVE  booking[b].paid
      BY DEF OwesNothing
  <2>1. CASE booking[b].status \in {"CONFIRMED", "COMPLETED", "NO_SHOW"}
      BY <2>1 DEF IInv, GoodBooking, Charged
  <2>2. ASSUME NEW p \in Passes, passes[p].of = b PROVE booking[b].paid
      BY <2>2, BookingsAssumption DEF IInv, GoodPass, Paid
  <2> QED
      BY <2>1, <2>2
<1> QED
    BY InvInit, InvNext, <1>1, PTL DEF Spec

-----------------------------------------------------------------------------
(* Check-ins are charged: a scan that spent a pass and has still to stamp  *)
(* the booking is counted beside the stamps.  A pass never issued was      *)
(* never spent, and the pass a scan holds was issued for its booking.      *)
Stamping == {"markUsed", "arrive"}
Scanning == {"scanCheck", "consume"}
ToStamp(b) == {i \in Handlers : h[i].pc \in Stamping /\ h[i].b = b}
Spent(b) == {p \in Passes : passes[p].of = b /\ passes[p].used = 1}

Counted(b) == checkins[b] + Cardinality(ToStamp(b)) <= Cardinality(Spent(b))
Blank(p) == passes[p].status = "NONE" => passes[p].used = 0
HoldsPass(i) == h[i].pc \in Scanning => /\ h[i].p \in Passes
                                       /\ passes[h[i].p].status # "NONE"
                                       /\ passes[h[i].p].of = h[i].b
(* What a request is to insert was not written by a sweep.                 *)
ByUser(i) == h[i].pc \in Inserting => h[i].seen.by = "user"

CInv ==
    /\ IInv
    /\ \A b \in Bookings : Counted(b)
    /\ \A p \in Passes : Blank(p)
    /\ \A i \in Handlers : HoldsPass(i) /\ ByUser(i)

LEMMA Finite ==
    ASSUME NEW b
    PROVE  /\ IsFiniteSet(ToStamp(b)) /\ Cardinality(ToStamp(b)) \in Nat
           /\ IsFiniteSet(ToStamp(b)') /\ Cardinality(ToStamp(b)') \in Nat
           /\ IsFiniteSet(Spent(b)) /\ Cardinality(Spent(b)) \in Nat
           /\ IsFiniteSet(Spent(b)') /\ Cardinality(Spent(b)') \in Nat
<1>1. /\ ToStamp(b) \subseteq Handlers /\ ToStamp(b)' \subseteq Handlers
      /\ Spent(b) \subseteq Passes /\ Spent(b)' \subseteq Passes
    BY DEF ToStamp, Spent
<1>2. /\ IsFiniteSet(ToStamp(b)) /\ IsFiniteSet(ToStamp(b)')
      /\ IsFiniteSet(Spent(b)) /\ IsFiniteSet(Spent(b)')
    BY <1>1, BookingsAssumption, FS_Subset
<1> QED
    BY <1>2, FS_CardinalityType

(* No pass that was issued is spent or changes hands.                      *)
PassesKept ==
    \A p \in Passes :
        /\ passes[p].status # "NONE" => /\ passes'[p].status # "NONE"
                                        /\ passes'[p].of = passes[p].of
                                        /\ passes'[p].used = passes[p].used
        /\ passes[p].status = "NONE" => passes'[p].used = 0

(* A request that stays where it is, comes to a step that neither scans    *)
(* nor stamps, or goes on with the pass and the booking it holds.          *)
Calm(i) ==
    \/ h'[i] = h[i]
    \/ /\ HoldsPass(i)' /\ ByUser(i)'
       /\ h'[i].pc \in Stamping => h[i].pc \in Stamping /\ h'[i].b = h[i].b

LEMMA CalmStep ==
    ASSUME CInv, IInv', PassesKept, checkins' = checkins, \A i \in Handlers : Calm(i)
    PROVE  CInv'
<1>1. \A p \in Passes : Blank(p)'
    BY DEF CInv, PassesKept, Blank
<1>2. ASSUME NEW i \in Handlers PROVE HoldsPass(i)' /\ ByUser(i)'
  <2>1. CASE h'[i] = h[i]
      BY <2>1 DEF CInv, HoldsPass, ByUser, PassesKept
  <2> QED
      BY <2>1 DEF Calm
<1>3. ASSUME NEW b \in Bookings PROVE Counted(b)'
  <2>1. Spent(b)' = Spent(b)
    <3>1. ASSUME NEW p \in Passes PROVE p \in Spent(b)' <=> p \in Spent(b)
        BY DEF CInv, Blank, PassesKept, Spent
    <3> QED
        BY <3>1 DEF Spent
  <2>2. ToStamp(b)' \subseteq ToStamp(b)
      BY DEF Calm, ToStamp
  <2>3. Cardinality(ToStamp(b)') <= Cardinality(ToStamp(b))
      BY <2>2, Finite, FS_Subset
  <2>4. checkins[b] \in Nat
      BY DEF CInv, IInv, TypeOK
  <2> QED
      BY <2>1, <2>3, <2>4, Finite DEF CInv, Counted
<1> QED
    BY <1>1, <1>2, <1>3 DEF CInv

LEMMA PassesStay == ASSUME CInv, passes' = passes PROVE PassesKept
    BY DEF CInv, Blank, PassesKept

(* Where Goto, Finish and Begin lead to.                                   *)
Elsewhere == Steps \ (Stamping \cup Scanning \cup Inserting)

LEMMA CalmMove ==
    ASSUME CInv, NEW i \in Handlers,
           \/ Finish(i)
           \/ \E l \in Local : l.pc \in Elsewhere /\ h' = [h EXCEPT ![i] = l]
           \/ \E step \in Elsewhere : Goto(i, step)
           \/ h[i].pc \in Stamping /\ Goto(i, "arrive")
    PROVE  \A j \in Handlers : Calm(j)
<1>1. h \in [Handlers -> Local] /\ TypeOK
    BY DEF CInv, IInv, TypeOK
<1>2. CASE \E l \in Local : l.pc \in Elsewhere /\ h' = [h EXCEPT ![i] = l]
  <2>1. h'[i].pc \in Elsewhere /\ \A j \in Handlers \ {i} : h'[j] = h[j]
      BY <1>1, <1>2
  <2> QED
      BY <2>1 DEF Calm, HoldsPass, ByUser, Elsewhere
<1>3. CASE Finish(i)
    BY <1>2, <1>3, IdleTyped DEF Finish, Idle, Elsewhere, Steps, Stamping, Scanning, Inserting
<1>4. ASSUME NEW step \in Elsewhere, Goto(i, step) PROVE \A j \in Handlers : Calm(j)
  <2>1. h'[i].pc = step /\ \A j \in Handlers \ {i} : h'[j] = h[j]
      BY <1>1, <1>4, GotoTyped DEF Elsewhere
  <2> QED
      BY <1>4, <2>1 DEF Calm, HoldsPass, ByUser, Elsewhere
<1>5. CASE h[i].pc \in Stamping /\ Goto(i, "arrive")
  <2>1. h'[i].pc = "arrive" /\ h'[i].b = h[i].b /\ \A j \in Handlers \ {i} : h'[j] = h[j]
      BY <1>1, <1>5, GotoTyped DEF Steps
  <2> QED
      BY <1>5, <2>1 DEF Calm, HoldsPass, ByUser, Stamping, Scanning, Inserting
<1> QED
    BY <1>2, <1>3, <1>4, <1>5

LEMMA CalmRequest == ASSUME CInv, NEW i \in Handlers, Request(i) PROVE \A j \in Handlers : Calm(j)
<1> USE DEF Elsewhere, Steps, Stamping, Scanning, Inserting
<1>1. ASSUME NEW b \in Bookings, NEW unit \in Units, NEW n \in Parties,
             BookRead(i, b, unit, n)
      PROVE  \A j \in Handlers : Calm(j)
  <2> DEFINE l == [Idle EXCEPT !.pc = "claim", !.b = b,
                               !.seen.unit = unit, !.seen.people = n]
  <2>1. l.pc = "claim" /\ l.seen.by = "user"
      BY DEF Idle, NoBooking
  <2>2. h' = [h EXCEPT ![i] = l]
      BY <1>1 DEF BookRead, Begin
  <2> HIDE DEF l
  <2>3. h'[i] = l /\ \A j \in Handlers \ {i} : h'[j] = h[j]
      BY <2>2 DEF CInv, IInv, TypeOK
  <2> QED
      BY <2>1, <2>3 DEF Calm, HoldsPass, ByUser
<1>2. ASSUME NEW b \in Bookings, Pay(i, b) PROVE \A j \in Handlers : Calm(j)
  <2> DEFINE l == [Idle EXCEPT !.pc = "confirm", !.b = b]
  <2>1. l.pc = "confirm" /\ l \in Local
      BY IdleTyped DEF Local
  <2>2. h' = [h EXCEPT ![i] = l]
      BY <1>2 DEF Pay, Begin
  <2> HIDE DEF l
  <2> QED
      BY <2>1, <2>2, CalmMove
<1>3. ASSUME NEW b \in Bookings, NEW step \in {"decide", "cancel", "arriveById", "leave"},
             Begin(i, Reading(step, b))
      PROVE  \A j \in Handlers : Calm(j)
  <2>1. Reading(step, b) \in Local /\ Reading(step, b).pc = step
      BY ReadingTyped DEF CInv, IInv
  <2>2. h' = [h EXCEPT ![i] = Reading(step, b)]
      BY <1>3 DEF Begin
  <2> QED
      BY <2>1, <2>2, CalmMove
<1> QED
    BY <1>1, <1>2, <1>3 DEF Request, DecideRead, CancelRead, ArriveRead, LeaveRead

LEMMA CalmScan ==
    ASSUME CInv, NEW i \in Handlers, ScanCheck(i) \/ \E p \in Passes : ScanRead(i, p)
    PROVE  \A j \in Handlers : Calm(j)
<1> USE DEF Stamping, Scanning, Inserting
<1>1. h \in [Handlers -> Local]
    BY DEF CInv, IInv, TypeOK
<1>2. CASE ScanCheck(i) /\ ~Finish(i)
  <2>1. /\ h[i].pc = "scanCheck" /\ passes' = passes
        /\ h' = [h EXCEPT ![i].pc = "consume", ![i].seen = booking[h[i].b]]
      BY <1>2 DEF ScanCheck, At
  <2>2. h'[i].pc = "consume" /\ h'[i].b = h[i].b /\ h'[i].p = h[i].p
      BY <1>1, <2>1 DEF Local
  <2>3. \A j \in Handlers \ {i} : h'[j] = h[j]
      BY <1>1, <2>1
  <2> QED
      BY <2>1, <2>2, <2>3 DEF CInv, Calm, HoldsPass, ByUser
<1>3. ASSUME NEW p \in Passes, ScanRead(i, p) PROVE \A j \in Handlers : Calm(j)
  <2> DEFINE l == [Idle EXCEPT !.pc = "scanCheck", !.b = passes[p].of, !.p = p]
  <2>1. l.pc = "scanCheck" /\ l.b = passes[p].of /\ l.p = p
      BY DEF Idle
  <2>2. h' = [h EXCEPT ![i] = l] /\ passes' = passes /\ passes[p].status # "NONE"
      BY <1>3 DEF ScanRead, Begin
  <2> HIDE DEF l
  <2>3. h'[i] = l /\ \A j \in Handlers \ {i} : h'[j] = h[j]
      BY <1>1, <2>2
  <2> QED
      BY <2>1, <2>2, <2>3 DEF Calm, HoldsPass, ByUser
<1> QED
    BY <1>2, <1>3, CalmMove

LEMMA CalmGoesOn ==
    ASSUME CInv, NEW i \in Handlers,
           \/ Claim(i) \/ Create(i) \/ LinkPass(i) \/ ConfirmRead(i) \/ ConfirmWrite(i)
           \/ \E yes \in BOOLEAN : DecideWrite(i, yes) \/ CancelWrite(i, yes)
           \/ RevokePass(i) \/ MarkUsed(i) \/ ArriveById(i) \/ Leave(i) \/ Abort(i)
    PROVE  \A j \in Handlers : Calm(j)
<1>1. \/ Finish(i)
      \/ h[i].pc = "claim" /\ Goto(i, "create")
      \/ \E step \in {"issue", "confirmWrite", "revoke"} : Goto(i, step)
      \/ h[i].pc = "markUsed" /\ Goto(i, "arrive")
    BY DEF Claim, Create, LinkPass, ConfirmRead, ConfirmWrite, DecideWrite, CancelWrite,
           RevokePass, MarkUsed, ArriveById, SetArrived, Leave, Abort, At
<1>2. CASE h[i].pc = "claim" /\ Goto(i, "create")
  <2>1. h'[i].pc = "create" /\ h'[i].seen = h[i].seen /\ \A j \in Handlers \ {i} : h'[j] = h[j]
      BY <1>2, GotoTyped DEF CInv, IInv, Steps
  <2> QED
      BY <1>2, <2>1 DEF CInv, Calm, HoldsPass, ByUser, Stamping, Scanning, Inserting
<1> QED
    BY <1>1, <1>2, CalmMove DEF Elsewhere, Steps, Stamping, Scanning, Inserting

-----------------------------------------------------------------------------
(* The steps that write passes or count a check-in.                        *)

LEMMA CountRequest ==
    ASSUME CInv, IInv', NEW i \in Handlers, Request(i) \/ \E p \in Passes : ScanRead(i, p)
    PROVE  CInv'
<1>1. passes' = passes /\ checkins' = checkins
    BY DEF Request, BookRead, Pay, DecideRead, CancelRead, ArriveRead, LeaveRead, ScanRead
<1> QED
    BY <1>1, CalmRequest, CalmScan, PassesStay, CalmStep

LEMMA CountGoesOn ==
    ASSUME CInv, IInv', NEW i \in Handlers,
           \/ Claim(i) \/ Create(i) \/ LinkPass(i) \/ ConfirmRead(i) \/ ConfirmWrite(i)
           \/ \E yes \in BOOLEAN : DecideWrite(i, yes) \/ CancelWrite(i, yes)
           \/ ScanCheck(i) \/ ArriveById(i) \/ Leave(i) \/ Abort(i)
    PROVE  CInv'
<1>1. passes' = passes /\ checkins' = checkins
    BY DEF Claim, Create, LinkPass, ConfirmRead, ConfirmWrite, DecideWrite, CancelWrite,
           ScanCheck, ArriveById, SetArrived, Leave, Abort
<1> QED
    BY <1>1, CalmGoesOn, CalmScan, PassesStay, CalmStep

LEMMA CountStatus ==
    ASSUME CInv, IInv', NEW i \in Handlers, RevokePass(i) \/ MarkUsed(i) PROVE CInv'
<1>1. checkins' = checkins /\ \A j \in Handlers : Calm(j)
    BY CalmGoesOn DEF RevokePass, MarkUsed
<1>2. PICK q, status : /\ status \in {"USED", "REVOKED"}
                       /\ passes' = [passes EXCEPT ![q].status = status]
    BY DEF RevokePass, MarkUsed
<1>3. ASSUME NEW p \in Passes
      PROVE  /\ passes'[p].of = passes[p].of /\ passes'[p].used = passes[p].used
             /\ passes[p].status # "NONE" => passes'[p].status # "NONE"
  <2>1. passes[p] \in Pass
      BY DEF CInv, IInv, TypeOK
  <2>2. passes'[p] = IF p = q THEN [passes[p] EXCEPT !.status = status] ELSE passes[p]
      BY <1>2 DEF CInv, IInv, TypeOK
  <2> QED
      BY <1>2, <2>1, <2>2 DEF Pass
<1>4. PassesKept
    BY <1>3 DEF CInv, Blank, PassesKept
<1> QED
    BY <1>1, <1>4, CalmStep

LEMMA CountIssuePass ==
    ASSUME CInv, IInv', NEW i \in Handlers, NEW p \in Passes, IssuePass(i, p) PROVE CInv'
<1>1. /\ passes' = [passes EXCEPT ![p] = [status |-> "ACTIVE", used |-> 0, of |-> h[i].b]]
      /\ passes[p].status = "NONE" /\ checkins' = checkins
    BY DEF IssuePass
<1>2. passes'[p].used = 0 /\ \A q \in Passes \ {p} : passes'[q] = passes[q]
    BY <1>1 DEF CInv, IInv, TypeOK
<1>3. PassesKept
    BY <1>1, <1>2 DEF CInv, Blank, PassesKept
<1>4. h'[i].pc = "link" /\ \A j \in Handlers \ {i} : h'[j] = h[j]
    BY DEF IssuePass, CInv, IInv, TypeOK, Local
<1>5. \A j \in Handlers : Calm(j)
    BY <1>4 DEF Calm, HoldsPass, ByUser, Stamping, Scanning, Inserting
<1> QED
    BY <1>1, <1>3, <1>5, CalmStep

LEMMA CountExpirePasses == ASSUME CInv, IInv', ExpirePasses PROVE CInv'
<1>1. checkins' = checkins /\ h' = h
    BY DEF ExpirePasses, still
<1>2. ASSUME NEW p \in Passes
      PROVE  /\ passes'[p].of = passes[p].of /\ passes'[p].used = passes[p].used
             /\ passes[p].status # "NONE" => passes'[p].status # "NONE"
  <2>1. passes[p] \in Pass
      BY DEF CInv, IInv, TypeOK
  <2> QED
      BY <2>1 DEF ExpirePasses, Pass
<1>3. PassesKept
    BY <1>2 DEF CInv, Blank, PassesKept
<1> QED
    BY <1>1, <1>3, CalmStep DEF Calm

(* A scan spends its pass: one more pass of the booking is spent, and one  *)
(* more request has to stamp it.                                           *)
LEMMA CountConsume == ASSUME CInv, IInv', NEW i \in Handlers, Consume(i) PROVE CInv'
<1> USE DEF Stamping, Scanning, Inserting
<1>1. h[i].pc = "consume" /\ checkins' = checkins /\ UNCHANGED <<booking, rest>>
    BY DEF Consume, At
<1>2. CASE ~Consumable(h[i].p)
    BY <1>1, <1>2, CalmMove, PassesStay, CalmStep DEF Consume
<1>3. CASE Consumable(h[i].p)
  <2>1. PICK q \in Passes : q = h[i].p /\ passes[q].status # "NONE" /\ passes[q].of = h[i].b
      BY <1>1 DEF CInv, HoldsPass
  <2>2. passes[q] \in Pass /\ passes[q].used = 0
      BY <1>3, <2>1 DEF CInv, IInv, TypeOK, Consumable, Pass
  <2>3. /\ passes'[q].used = 1 /\ passes'[q].of = passes[q].of
        /\ passes'[q].status = passes[q].status
        /\ \A p \in Passes \ {q} : passes'[p] = passes[p]
      BY <1>3, <2>1, <2>2 DEF Consume, CInv, IInv, TypeOK, Pass
  <2>4. /\ h'[i].pc = "markUsed" /\ h'[i].b = h[i].b
        /\ \A j \in Handlers \ {i} : h'[j] = h[j]
      BY <1>3, GotoTyped DEF Consume, CInv, IInv, Steps
  <2>5. \A p \in Passes : Blank(p)'
      BY <2>1, <2>3 DEF CInv, Blank
  <2>6. \A j \in Handlers : HoldsPass(j)' /\ ByUser(j)'
      BY <2>1, <2>3, <2>4 DEF CInv, HoldsPass, ByUser
  <2>7. ASSUME NEW b \in Bookings PROVE Counted(b)'
    <3>1. checkins[b] \in Nat
        BY DEF CInv, IInv, TypeOK
    <3>2. CASE b = h[i].b
      <4>1. Spent(b)' = Spent(b) \cup {q} /\ q \notin Spent(b)
          BY <2>1, <2>2, <2>3, <3>2 DEF Spent
      <4>2. ToStamp(b)' = ToStamp(b) \cup {i} /\ i \notin ToStamp(b)
          BY <1>1, <2>4, <3>2 DEF ToStamp
      <4>3. Cardinality(Spent(b)') = Cardinality(Spent(b)) + 1
          BY <4>1, Finite, FS_AddElement
      <4>4. Cardinality(ToStamp(b)') = Cardinality(ToStamp(b)) + 1
          BY <4>2, Finite, FS_AddElement
      <4> QED
          BY <1>1, <3>1, <4>3, <4>4, Finite DEF CInv, Counted
    <3>3. CASE b # h[i].b
      <4>1. Spent(b)' = Spent(b)
          BY <2>1, <2>3, <3>3 DEF Spent
      <4>2. ToStamp(b)' = ToStamp(b)
          BY <1>1, <2>4, <3>3 DEF ToStamp
      <4> QED
          BY <1>1, <4>1, <4>2 DEF CInv, Counted
    <3> QED
        BY <3>2, <3>3
  <2> QED
      BY <2>5, <2>6, <2>7 DEF CInv
<1> QED
    BY <1>2, <1>3

(* The stamp itself: one more check-in, one request less.                  *)
LEMMA CountArrive == ASSUME CInv, IInv', NEW i \in Handlers, Arrive(i) PROVE CInv'
<1> USE DEF Stamping, Scanning, Inserting
<1>1. /\ h[i].pc = "arrive" /\ passes' = passes /\ Finish(i)
      /\ checkins' = [checkins EXCEPT ![h[i].b] = @ + 1]
    BY DEF Arrive, SetArrived, At
<1>2. h'[i].pc = "idle" /\ \A j \in Handlers \ {i} : h'[j] = h[j]
    BY <1>1 DEF Finish, Idle, CInv, IInv, TypeOK
<1>3. (\A p \in Passes : Blank(p)') /\ \A j \in Handlers : HoldsPass(j)' /\ ByUser(j)'
    BY <1>1, <1>2 DEF CInv, Blank, HoldsPass, ByUser
<1>4. ASSUME NEW b \in Bookings PROVE Counted(b)'
  <2>1. checkins \in [Bookings -> Nat]
      BY DEF CInv, IInv, TypeOK
  <2>2. Spent(b)' = Spent(b)
      BY <1>1 DEF Spent
  <2>3. CASE b = h[i].b
    <3>1. checkins'[b] = checkins[b] + 1
        BY <1>1, <2>1, <2>3
    <3>2. ToStamp(b)' = ToStamp(b) \ {i} /\ i \in ToStamp(b)
        BY <1>1, <1>2, <2>3 DEF ToStamp
    <3>3. Cardinality(ToStamp(b)') = Cardinality(ToStamp(b)) - 1
        BY <3>2, Finite, FS_RemoveElement
    <3> QED
        BY <2>1, <2>2, <3>1, <3>3, Finite DEF CInv, Counted
  <2>4. CASE b # h[i].b
    <3>1. checkins'[b] = checkins[b]
        BY <1>1, <2>1, <2>4
    <3>2. ToStamp(b)' = ToStamp(b)
        BY <1>1, <1>2, <2>4 DEF ToStamp
    <3> QED
        BY <2>2, <3>1, <3>2 DEF CInv, Counted
  <2> QED
      BY <2>3, <2>4
<1> QED
    BY <1>3, <1>4 DEF CInv

LEMMA CountNext == CInv /\ [Next]_vars => CInv'
<1> SUFFICES ASSUME CInv, [Next]_vars PROVE CInv'
    OBVIOUS
<1>1. IInv'
    BY InvNext DEF CInv
<1>2. ASSUME NEW i \in Handlers, Continue(i) PROVE CInv'
    BY <1>1, <1>2, CountGoesOn, CountStatus, CountIssuePass, CountConsume, CountArrive
       DEF Continue
<1>3. CASE \/ ExpireRead \/ ReconcileRead \/ (\E b \in Bookings : SweepWrite(b))
           \/ Clock \/ (\E b \in Bookings : Lapse(b)) \/ UNCHANGED vars
  <2>1. UNCHANGED <<passes, h, checkins>>
      BY <1>3 DEF ExpireRead, ReconcileRead, SweepWrite, Clock, Lapse, still, vars
  <2> QED
      BY <1>1, <2>1, PassesStay, CalmStep DEF Calm
<1> QED
    BY <1>1, <1>2, <1>3, CountRequest, CountGoesOn, CountExpirePasses DEF Next, Sweep

LEMMA CountInit == Init => CInv
<1> SUFFICES ASSUME Init PROVE CInv
    OBVIOUS
<1>1. IInv
    BY InvInit
<1>2. \A i \in Handlers : h[i].pc = "idle"
    BY DEF Init, Idle
<1>3. \A p \in Passes : passes[p].used = 0
    BY DEF Init, NoPass
<1>4. ASSUME NEW b \in Bookings PROVE Counted(b)
  <2>1. checkins[b] = 0 /\ ToStamp(b) = {} /\ Spent(b) = {}
      BY <1>2, <1>3 DEF Init, ToStamp, Spent, Stamping
  <2> QED
      BY <2>1, FS_EmptySet DEF Counted
<1> QED
    BY <1>1, <1>2, <1>3, <1>4 DEF CInv, Blank, HoldsPass, ByUser, Scanning, Inserting

(* A booking is checked in by QR at most once for each pass spent on it,   *)
(* however many passes it was given and guards scan them (qr.ts 322-349).  *)
THEOREM CheckinsAreChargedCorrect == Spec => []CheckinsAreCharged
<1>1. CInv => CheckinsAreCharged
  <2> SUFFICES ASSUME CInv, NEW b \in Bookings
               PROVE  checkins[b] <= Cardinality(Spent(b))
      BY DEF CheckinsAreCharged, Spent
  <2> QED
      BY Finite DEF CInv, IInv, TypeOK, Counted
<1> QED
    BY CountInit, CountNext, <1>1, PTL DEF Spec

(* A request writes a booking as a user's, so that what turns to the       *)
(* system's is written by a sweep, which looks at the status first.        *)
LEMMA UserWrites ==
    ASSUME CInv, NEW i \in Handlers, Continue(i), NEW b \in Bookings,
           booking[b].by = "user"
    PROVE  booking'[b].by = "user"
<1>1. booking \in [Bookings -> Booking] /\ booking[b] \in Booking
    BY DEF CInv, IInv, TypeOK
<1>2. CASE Create(i)
  <2>1. h[i].seen \in Booking /\ h[i].seen.by = "user"
      BY <1>2 DEF Create, At, CInv, ByUser, Inserting, IInv, TypeOK, Local
  <2>2. [h[i].seen EXCEPT !.status = NewStatus, !.paid = ~policy.charged].by = "user"
      BY <2>1 DEF Booking
  <2> QED
      BY <1>1, <1>2, <2>2 DEF Create
<1>3. CASE LinkPass(i)
    BY <1>1, <1>3 DEF LinkPass, Booking
<1>4. CASE \E c, status : SetStatus(c, status)
    BY <1>1, <1>4 DEF SetStatus, Booking
<1>5. CASE ConfirmWrite(i)
    BY <1>1, <1>5 DEF ConfirmWrite, Booking
<1>6. CASE SetArrived(i)
    BY <1>1, <1>6 DEF SetArrived, Booking
<1> QED
    BY <1>2, <1>3, <1>4, <1>5, <1>6
       DEF Continue, Claim, IssuePass, ConfirmRead, DecideWrite, CancelWrite, RevokePass,
           ScanCheck, Consume, MarkUsed, Arrive, ArriveById, Leave

(* What the sweeps cancel still awaited payment and what they close was    *)
(* still confirmed, whoever writes between their read and their update     *)
(* (amenityService.ts 683, 704).                                           *)
THEOREM SweepsYieldCorrect == Spec => SweepsYield
<1> DEFINE Yield(b) ==
      booking[b].by = "user" /\ booking'[b].by = "system" =>
         <<booking[b].status, booking'[b].status>> \in
             {<<"PENDING_PAYMENT", "CANCELLED">>, <<"CONFIRMED", "COMPLETED">>,
              <<"CONFIRMED", "NO_SHOW">>}
<1>1. CInv /\ [Next]_vars => [\A b \in Bookings : Yield(b)]_vars
  <2> SUFFICES ASSUME CInv, [Next]_vars, NEW b \in Bookings PROVE Yield(b)
      OBVIOUS
  <2>1. booking \in [Bookings -> Booking] /\ booking[b] \in Booking
      BY DEF CInv, IInv, TypeOK
  <2>2. CASE booking' = booking
      BY <2>2
  <2>3. ASSUME NEW i \in Handlers, Continue(i) PROVE Yield(b)
      BY <2>3, UserWrites
  <2>4. ASSUME NEW c \in Bookings, SweepWrite(c) PROVE Yield(b)
    <3>1. CASE booking' = booking
        BY <3>1
    <3>2. CASE Unchanged(c) /\ b = c
      <4>1. booking'[b].status = Swept(b)
          BY <2>1, <2>4, <3>2 DEF SweepWrite, Booking
      <4> QED
          BY <3>2, <4>1 DEF Unchanged, Swept
    <3>3. CASE Unchanged(c) /\ b # c
        BY <2>1, <2>4, <3>3 DEF SweepWrite
    <3> QED
        BY <2>4, <3>1, <3>2, <3>3 DEF SweepWrite
  <2>5. ASSUME NEW i \in Handlers, Request(i) \/ Abort(i) \/ \E p \in Passes : ScanRead(i, p)
        PROVE  booking' = booking
      BY <2>5 DEF Request, BookRead, Pay, DecideRead, CancelRead, ArriveRead, LeaveRead,
                  ScanRead, Abort
  <2>6. CASE \/ ExpireRead \/ ReconcileRead \/ ExpirePasses
             \/ Clock \/ (\E c \in Bookings : Lapse(c)) \/ UNCHANGED vars
      BY <2>6 DEF ExpireRead, ReconcileRead, ExpirePasses, Clock, Lapse, still, vars
  <2> HIDE DEF Yield
  <2> QED
      BY <2>2, <2>3, <2>4, <2>5, <2>6 DEF Next, Sweep
<1> QED
    BY CountInit, CountNext, <1>1, PTL DEF Spec, SweepsYield
=============================================================================
