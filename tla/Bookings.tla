------------------------------ MODULE Bookings ------------------------------
(***************************************************************************)
(* Bookings of one slot of one amenity: amenityService.ts (claim of the    *)
(* slot, approval, payment, cancellation, QR check-in and check-out, the   *)
(* two sweeps) with the pass calls of qr.ts and the booking branch of      *)
(* applySuccessfulPayment.  Handlers are split at their awaits.            *)
(*                                                                         *)
(* bookAmenity counts and inserts inside withTransaction but hands no      *)
(* session to either call, so on MongoDB nothing isolates the two: they    *)
(* are two steps here.  A booking is named by its clientRequestId, which   *)
(* the collection keeps unique.                                            *)
(***************************************************************************)
EXTENDS Naturals, FiniteSets, FiniteSetsExt

CONSTANTS
    Bookings,      \* clientRequestId values, one booking each
    Passes,        \* pass documents
    Units,         \* flats that book
    Handlers,      \* requests the API can be serving at the same time
    Policies,      \* [approval, charged]: how the amenity is configured
    Parties,       \* numbers of people a booking is for
    Capacity,      \* amenities.capacity
    PerDayCap,     \* amenities.maxSlotsPerUserPerDay
    MaxRequests    \* bound: requests served in a behaviour

ASSUME BookingsAssumption ==
    /\ Policies \subseteq [approval : BOOLEAN, charged : BOOLEAN]
    /\ Parties \subseteq Nat \ {0}
    /\ Capacity \in Nat /\ PerDayCap \in Nat /\ MaxRequests \in Nat
    /\ IsFiniteSet(Passes) /\ IsFiniteSet(Handlers)
    /\ "none" \notin Passes \cup Bookings \cup Units

VARIABLES
    policy,      \* the amenities document, as far as handlers read it
    booking,     \* the amenity_bookings collection
    passes,      \* the visitor_passes of these bookings
    clock,       \* where the clock stands in the window of the slot
    lapsed,      \* bookings created longer ago than an unpaid hold lasts
    h,           \* what each request in flight holds
    sweep,       \* the sweep in progress, and the documents it found
    started,     \* requests started so far
    checkins     \* history: QR check-ins stamped on each booking

vars == <<policy, booking, passes, clock, lapsed, h, sweep, started, checkins>>

-----------------------------------------------------------------------------
Status == {"NONE", "PENDING_APPROVAL", "PENDING_PAYMENT", "CONFIRMED",
           "CANCELLED", "REJECTED", "COMPLETED", "NO_SHOW", "REFUNDED"}
(* The statuses that hold a place in the slot.                             *)
Holding == {"PENDING_APPROVAL", "PENDING_PAYMENT", "CONFIRMED"}

Booking == [status : Status, unit : Units \cup {"none"}, people : Parties \cup {0},
            paid : BOOLEAN, pass : Passes \cup {"none"}, arrived : BOOLEAN,
            by : {"user", "system"}]
Pass == [status : {"NONE", "ACTIVE", "USED", "REVOKED", "EXPIRED"}, used : 0..1,
         of : Bookings \cup {"none"}]

Steps == {"idle", "claim", "create", "issue", "link", "confirm", "confirmWrite",
          "decide", "cancel", "revoke", "scanCheck", "consume", "markUsed",
          "arrive", "arriveById", "leave"}
Local == [pc : Steps, b : Bookings \cup {"none"}, p : Passes \cup {"none"},
          seen : Booking]

NoBooking == [status |-> "NONE", unit |-> "none", people |-> 0, paid |-> FALSE,
              pass |-> "none", arrived |-> FALSE, by |-> "user"]
NoPass == [status |-> "NONE", used |-> 0, of |-> "none"]
Idle == [pc |-> "idle", b |-> "none", p |-> "none", seen |-> NoBooking]
NoSweep == [kind |-> "idle", found |-> {}, arrived |-> {}]

TypeOK ==
    /\ policy \in Policies
    /\ booking \in [Bookings -> Booking]
    /\ passes \in [Passes -> Pass]
    /\ clock \in {"ahead", "during", "grace", "over"}
    /\ lapsed \subseteq Bookings
    /\ h \in [Handlers -> Local]
    /\ sweep \in [kind : {"idle", "unpaid", "past"}, found : SUBSET Bookings,
                  arrived : SUBSET Bookings]
    /\ started \in 0..MaxRequests
    /\ checkins \in [Bookings -> Nat]

Init ==
    /\ policy \in Policies
    /\ booking = [b \in Bookings |-> NoBooking]
    /\ passes = [p \in Passes |-> NoPass]
    /\ clock = "ahead"
    /\ lapsed = {}
    /\ h = [i \in Handlers |-> Idle]
    /\ sweep = NoSweep
    /\ started = 0
    /\ checkins = [b \in Bookings |-> 0]

-----------------------------------------------------------------------------
rest == <<policy, clock, lapsed, sweep>>

Begin(i, local) ==
    /\ h[i].pc = "idle"
    /\ started < MaxRequests
    /\ started' = started + 1
    /\ h' = [h EXCEPT ![i] = local]
    /\ UNCHANGED rest

At(i, step) == h[i].pc = step /\ UNCHANGED <<started, rest>>
Goto(i, step) == h' = [h EXCEPT ![i].pc = step]
Finish(i) == h' = [h EXCEPT ![i] = Idle]

(* A request dropped at an await.                                          *)
Abort(i) ==
    /\ h[i].pc # "idle"
    /\ Finish(i)
    /\ UNCHANGED <<booking, passes, started, checkins, rest>>

(* What a handler does next once it has read booking b.                    *)
Reading(step, b) ==
    [Idle EXCEPT !.pc = step, !.b = b, !.seen = booking[b]]

SetStatus(b, status) ==
    booking' = [booking EXCEPT ![b].status = status, ![b].by = "user"]

-----------------------------------------------------------------------------
(* bookAmenity                                                             *)

Booked(unit) == {b \in Bookings : /\ booking[b].unit = unit
                                  /\ booking[b].status \in Holding}

BookRead(i, b, unit, n) ==
    /\ clock \in {"ahead", "during"}
    /\ booking[b].status = "NONE"
    /\ Cardinality(Booked(unit)) < PerDayCap
    /\ Begin(i, [Idle EXCEPT !.pc = "claim", !.b = b,
                             !.seen.unit = unit, !.seen.people = n])
    /\ UNCHANGED <<booking, passes, checkins>>

Taken == LET people(b) == IF booking[b].status \in Holding
                          THEN booking[b].people ELSE 0
         IN MapThenSumSet(people, Bookings)

Claim(i) ==
    /\ At(i, "claim")
    /\ IF Taken + h[i].seen.people > Capacity THEN Finish(i) ELSE Goto(i, "create")
    /\ UNCHANGED <<booking, passes, checkins>>

(* Payment is required of a charged booking unless approval comes first.   *)
NewStatus == IF policy.approval THEN "PENDING_APPROVAL"
             ELSE IF policy.charged THEN "PENDING_PAYMENT" ELSE "CONFIRMED"

Create(i) ==
    /\ At(i, "create")
    /\ LET b == h[i].b IN
         IF booking[b].status # "NONE"
           THEN Finish(i) /\ UNCHANGED booking
           ELSE /\ booking' = [booking EXCEPT ![b] = [h[i].seen EXCEPT
                                  !.status = NewStatus, !.paid = ~policy.charged]]
                /\ IF NewStatus = "CONFIRMED" THEN Goto(i, "issue") ELSE Finish(i)
    /\ UNCHANGED <<passes, checkins>>

(* issueBookingPass: the pass, then its id on the booking.                 *)
IssuePass(i, p) ==
    /\ At(i, "issue")
    /\ passes[p].status = "NONE"
    /\ passes' = [passes EXCEPT ![p] = [status |-> "ACTIVE", used |-> 0, of |-> h[i].b]]
    /\ h' = [h EXCEPT ![i].pc = "link", ![i].p = p]
    /\ UNCHANGED <<booking, checkins>>

LinkPass(i) ==
    /\ At(i, "link")
    /\ booking' = [booking EXCEPT ![h[i].b].pass = h[i].p]
    /\ Finish(i)
    /\ UNCHANGED <<passes, checkins>>

-----------------------------------------------------------------------------
(* applySuccessfulPayment of a payment for the booking, claimed and posted *)
(* by then, and confirmBookingAfterPayment.  A payment taken at the office *)
(* looks at no status; an intent does, but is verified at any time later.  *)
Pay(i, b) ==
    /\ booking[b].status # "NONE"
    /\ Begin(i, [Idle EXCEPT !.pc = "confirm", !.b = b])
    /\ UNCHANGED <<booking, passes, checkins>>

ConfirmRead(i) ==
    /\ At(i, "confirm")
    /\ IF booking[h[i].b].status \in {"CONFIRMED", "CANCELLED", "REJECTED", "REFUNDED"}
         THEN Finish(i) ELSE Goto(i, "confirmWrite")
    /\ UNCHANGED <<booking, passes, checkins>>

(* Whatever the status has become since, or whether approval was given.    *)
ConfirmWrite(i) ==
    /\ At(i, "confirmWrite")
    /\ booking' = [booking EXCEPT ![h[i].b].status = "CONFIRMED",
                                  ![h[i].b].paid = TRUE, ![h[i].b].by = "user"]
    /\ Goto(i, "issue")
    /\ UNCHANGED <<passes, checkins>>

(* decideBooking, from the booking as it was read.                         *)
DecideRead(i, b) ==
    /\ booking[b].status = "PENDING_APPROVAL"
    /\ Begin(i, Reading("decide", b))
    /\ UNCHANGED <<booking, passes, checkins>>

(* Mutant of Approved: what is still to be paid is not looked at.          *)
ApprovedUnpaid(seen) == "CONFIRMED"

Approved(seen) == IF policy.charged /\ ~seen.paid THEN "PENDING_PAYMENT" ELSE "CONFIRMED"

DecideWrite(i, approve) ==
    /\ At(i, "decide")
    /\ LET status == IF approve THEN Approved(h[i].seen) ELSE "REJECTED" IN
         /\ SetStatus(h[i].b, status)
         /\ IF status = "CONFIRMED" THEN Goto(i, "issue") ELSE Finish(i)
    /\ UNCHANGED <<passes, checkins>>

(* cancelBooking; the policy of the amenity leaves a refund or does not.   *)
CancelRead(i, b) ==
    /\ booking[b].status \notin {"NONE", "CANCELLED", "REJECTED", "COMPLETED", "REFUNDED"}
    /\ Begin(i, Reading("cancel", b))
    /\ UNCHANGED <<booking, passes, checkins>>

CancelWrite(i, refund) ==
    /\ At(i, "cancel")
    /\ refund => policy.charged /\ clock = "ahead"
    /\ SetStatus(h[i].b, IF refund /\ h[i].seen.paid THEN "REFUNDED" ELSE "CANCELLED")
    /\ IF h[i].seen.pass = "none" THEN Finish(i) ELSE Goto(i, "revoke")
    /\ UNCHANGED <<passes, checkins>>

RevokePass(i) ==
    /\ At(i, "revoke")
    /\ passes' = [passes EXCEPT ![h[i].seen.pass].status = "REVOKED"]
    /\ Finish(i)
    /\ UNCHANGED <<booking, checkins>>

-----------------------------------------------------------------------------
(* scanAmenityPass: scanPass, then the booking it had read.                *)

(* Any pass issued may be shown: the booking's QR is fetched at will.      *)
ScanRead(i, p) ==
    /\ passes[p].status = "ACTIVE" /\ passes[p].used = 0
    /\ clock \in {"during", "grace"}
    /\ Begin(i, [Idle EXCEPT !.pc = "scanCheck", !.b = passes[p].of, !.p = p])
    /\ UNCHANGED <<booking, passes, checkins>>

ScanCheck(i) ==
    /\ At(i, "scanCheck")
    /\ IF booking[h[i].b].status \in {"CANCELLED", "REJECTED", "REFUNDED", "PENDING_PAYMENT"}
         THEN Finish(i)
         ELSE h' = [h EXCEPT ![i].pc = "consume", ![i].seen = booking[h[i].b]]
    /\ UNCHANGED <<booking, passes, checkins>>

(* Mutant of Consumable: the entries spent are not in the filter.          *)
ConsumableWhileActive(p) == passes[p].status = "ACTIVE"

(* Mutant of Consumable: the update is sent without its filter.            *)
ConsumableAlways(p) == TRUE

Consumable(p) == passes[p].status = "ACTIVE" /\ passes[p].used < 1

Consume(i) ==
    /\ At(i, "consume")
    /\ IF Consumable(h[i].p)
         THEN /\ passes' = [passes EXCEPT ![h[i].p].used = @ + 1]
              /\ Goto(i, "markUsed")
         ELSE Finish(i) /\ UNCHANGED passes
    /\ UNCHANGED <<booking, checkins>>

(* The entry is spent by now, whatever the booking's status says next.     *)
MarkUsed(i) ==
    /\ At(i, "markUsed")
    /\ passes' = [passes EXCEPT ![h[i].p].status = "USED"]
    /\ IF h[i].seen.status \in {"CONFIRMED", "COMPLETED"} /\ ~h[i].seen.arrived
         THEN Goto(i, "arrive") ELSE Finish(i)
    /\ UNCHANGED <<booking, checkins>>

SetArrived(i) ==
    /\ booking' = [booking EXCEPT ![h[i].b].arrived = TRUE, ![h[i].b].by = "user"]
    /\ Finish(i)
    /\ UNCHANGED passes

Arrive(i) ==
    /\ At(i, "arrive")
    /\ SetArrived(i)
    /\ checkins' = [checkins EXCEPT ![h[i].b] = @ + 1]

(* The routes that check a booking in by its id, and out.                  *)
ArriveRead(i, b) ==
    /\ booking[b].status = "CONFIRMED" /\ ~booking[b].arrived
    /\ clock \in {"during", "grace"}
    /\ Begin(i, Reading("arriveById", b))
    /\ UNCHANGED <<booking, passes, checkins>>

ArriveById(i) == At(i, "arriveById") /\ SetArrived(i) /\ UNCHANGED checkins

(* By id: a booking that was checked in.  By QR: one that was confirmed;   *)
(* an exit scan looks at neither window, status nor entries of the pass.   *)
LeaveRead(i, b) ==
    /\ \/ booking[b].arrived
       \/ /\ booking[b].status \in {"CONFIRMED", "COMPLETED"}
          /\ clock # "over"
          /\ \E p \in Passes : passes[p].of = b
    /\ Begin(i, Reading("leave", b))
    /\ UNCHANGED <<booking, passes, checkins>>

Leave(i) ==
    /\ At(i, "leave")
    /\ SetStatus(h[i].b, "COMPLETED")
    /\ Finish(i)
    /\ UNCHANGED <<passes, checkins>>

-----------------------------------------------------------------------------
(* expireUnpaidBookings (every five minutes) and reconcilePastBookings     *)
(* (every hour) find documents, then update them one at a time.            *)
still == <<policy, clock, lapsed, h, started, checkins>>

Unpaid(b) == booking[b].status = "PENDING_PAYMENT" /\ b \in lapsed

ExpireRead ==
    /\ sweep.kind = "idle"
    /\ \E b \in Bookings : Unpaid(b)
    /\ sweep' = [kind |-> "unpaid", found |-> {b \in Bookings : Unpaid(b)}, arrived |-> {}]
    /\ UNCHANGED <<still, booking, passes>>

Past(b) == booking[b].status = "CONFIRMED" /\ clock \in {"grace", "over"}

ReconcileRead ==
    /\ sweep.kind = "idle"
    /\ \E b \in Bookings : Past(b)
    /\ sweep' = [kind |-> "past", found |-> {b \in Bookings : Past(b)},
                 arrived |-> {b \in Bookings : booking[b].arrived}]
    /\ UNCHANGED <<still, booking, passes>>

(* Mutant of Unchanged: the updates filter on the id only.                 *)
UnchangedAssumed(b) == TRUE

Unchanged(b) == booking[b].status =
                  IF sweep.kind = "unpaid" THEN "PENDING_PAYMENT" ELSE "CONFIRMED"

(* Mutant of Swept: the hold is refreshed where it should be released.     *)
SweptHeld(b) == IF sweep.kind = "unpaid" THEN "PENDING_PAYMENT"
                ELSE IF b \in sweep.arrived THEN "COMPLETED" ELSE "NO_SHOW"

Swept(b) == IF sweep.kind = "unpaid" THEN "CANCELLED"
            ELSE IF b \in sweep.arrived THEN "COMPLETED" ELSE "NO_SHOW"

SweepWrite(b) ==
    /\ b \in sweep.found
    /\ booking' = IF Unchanged(b)
                  THEN [booking EXCEPT ![b].status = Swept(b), ![b].by = "system"]
                  ELSE booking
    /\ sweep' = IF sweep.found = {b} THEN NoSweep ELSE [sweep EXCEPT !.found = @ \ {b}]
    /\ UNCHANGED <<still, passes>>

(* expireStalePasses, once the grace of the passes is over.                *)
ExpirePasses ==
    /\ clock = "over"
    /\ \E p \in Passes : passes[p].status = "ACTIVE"
    /\ passes' = [p \in Passes |-> IF passes[p].status = "ACTIVE"
                                   THEN [passes[p] EXCEPT !.status = "EXPIRED"]
                                   ELSE passes[p]]
    /\ UNCHANGED <<still, booking, sweep>>

(* Time passes: over the slot, and over the hold of each booking; the age  *)
(* of a booking is looked at only while it waits for approval or payment.  *)
Clock ==
    /\ clock # "over"
    /\ clock' = CASE clock = "ahead" -> "during"
                  [] clock = "during" -> "grace"
                  [] clock = "grace" -> "over"
    /\ UNCHANGED <<policy, booking, passes, lapsed, h, sweep, started, checkins>>

Lapse(b) ==
    /\ booking[b].status \in {"PENDING_APPROVAL", "PENDING_PAYMENT"}
    /\ b \notin lapsed
    /\ lapsed' = lapsed \cup {b}
    /\ UNCHANGED <<policy, booking, passes, clock, h, sweep, started, checkins>>

-----------------------------------------------------------------------------
Request(i) ==
    \E b \in Bookings :
      \/ \E unit \in Units, n \in Parties : BookRead(i, b, unit, n)
      \/ Pay(i, b) \/ DecideRead(i, b) \/ CancelRead(i, b)
      \/ ArriveRead(i, b) \/ LeaveRead(i, b)

Continue(i) ==
    \/ Claim(i) \/ Create(i) \/ LinkPass(i)
    \/ \E p \in Passes : IssuePass(i, p)
    \/ ConfirmRead(i) \/ ConfirmWrite(i)
    \/ \E yes \in BOOLEAN : DecideWrite(i, yes) \/ CancelWrite(i, yes)
    \/ RevokePass(i)
    \/ ScanCheck(i) \/ Consume(i) \/ MarkUsed(i) \/ Arrive(i)
    \/ ArriveById(i) \/ Leave(i)

Sweep == ExpireRead \/ ReconcileRead \/ \E b \in Bookings : SweepWrite(b)

Next == \/ \E i \in Handlers :
              \/ Request(i) \/ Continue(i) \/ Abort(i)
              \/ \E p \in Passes : ScanRead(i, p)
        \/ Sweep \/ ExpirePasses
        \/ Clock \/ \E b \in Bookings : Lapse(b)

Spec == Init /\ [][Next]_vars

(* The scheduler's timers fire for as long as the process is up.           *)
FairSpec == Spec /\ WF_vars(Sweep)

-----------------------------------------------------------------------------
(* The claim of the file's header: however residents race, the people of   *)
(* the bookings that hold the slot fit in it (amenityService.ts 13-16).    *)
WithinCapacity == Taken <= Capacity

(* A booking is never confirmed, used or given a QR while it owes money,   *)
(* whichever of approval, payment and the sweeps came first                *)
(* (amenityService.ts 267-272, 483).                                       *)
OwesNothing ==
    \A b \in Bookings :
        \/ booking[b].status \in {"CONFIRMED", "COMPLETED", "NO_SHOW"}
        \/ \E p \in Passes : passes[p].of = b
        => booking[b].paid

(* However many passes a booking was given and guards scan them at once,   *)
(* it is checked in once for each pass spent on it (qr.ts 322-349).        *)
CheckinsAreCharged ==
    \A b \in Bookings :
        checkins[b] <= Cardinality({p \in Passes : passes[p].of = b /\ passes[p].used = 1})

(* The sweeps overtake nobody: what they cancel still awaited payment, and *)
(* what they close was still confirmed (amenityService.ts 683, 704).       *)
SweepsYield ==
    [][\A b \in Bookings :
         booking[b].by = "user" /\ booking'[b].by = "system" =>
            <<booking[b].status, booking'[b].status>> \in
                {<<"PENDING_PAYMENT", "CANCELLED">>, <<"CONFIRMED", "COMPLETED">>,
                 <<"CONFIRMED", "NO_SHOW">>}]_vars

(* A hold nobody pays for gives its place back (amenityService.ts 694).    *)
HoldReleased ==
    \A b \in Bookings : Unpaid(b) ~> booking[b].status # "PENDING_PAYMENT"
=============================================================================
