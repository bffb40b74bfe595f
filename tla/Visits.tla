------------------------------- MODULE Visits -------------------------------
(***************************************************************************)
(* One visit and its QR passes: visitorsService.ts (pre-approval, capture  *)
(* at the gate, decision, check-in, check-out, cancellation, expiry) and   *)
(* qr.ts (issue, scan, revoke, sweep), served to several guards, residents *)
(* and administrators at once.                                             *)
(*                                                                         *)
(* As in Payments.tla a handler is split where it awaits the database; the *)
(* documents are plain records and what a handler read of them is kept in  *)
(* the request.  Time is what the code compares it with: before, within    *)
(* or past the validity window of each pass.                               *)
(***************************************************************************)
EXTENDS Naturals, FiniteSets

CONSTANTS
    Passes,          \* pass documents
    Guards,          \* requests the API can be serving at the same time
    RequestIds,      \* clientRequestId values of the guards' offline queue
    Allowances,      \* the numbers of entries passes are issued for
    MaxRequests      \* bound: requests served in a behaviour

ASSUME VisitsAssumption ==
    /\ Allowances \subseteq Nat \ {0}
    /\ MaxRequests \in Nat
    /\ IsFiniteSet(Guards)
    /\ "none" \notin Passes \cup RequestIds

VARIABLES
    visit,       \* the visitors document: status and the pass it links
    passes,      \* the visitor_passes collection
    given,       \* the passes whose token was returned to somebody
    window,      \* where the clock stands in the window of each pass
    recorded,    \* clientRequestId values in visitor_entries (unique index)
    ins,         \* IN entries of the visit
    outs,        \* OUT entries of the visit
    h,           \* what each request in flight holds
    started,     \* requests started so far
    approved,    \* history: the visit was approved or pre-approved once
    scans        \* history: IN entries recorded by scanning each pass

vars == <<visit, passes, given, window, recorded, ins, outs, h, started,
          approved, scans>>
log == <<recorded, ins, outs, scans>>

-----------------------------------------------------------------------------
VisitStatus == {"NONE", "PRE_APPROVED", "AWAITING_APPROVAL", "APPROVED",
                "REJECTED", "IGNORED", "EXPIRED", "CANCELLED", "INSIDE", "EXITED"}
PassStatus == {"NONE", "ACTIVE", "USED", "EXPIRED", "REVOKED"}

Visit == [status: VisitStatus, pass: Passes \cup {"none"}]
Pass == [status: PassStatus, used: Nat, max: Nat]

Steps == {"idle", "issue", "link", "decide", "cancel", "revoke", "helperIssue",
          "helperLink", "scanCheck", "consume", "markUsed", "manualPass",
          "manualConsume", "enter", "setInside", "leave", "setExited",
          "expirePass", "autoExpire"}
Local == [pc: Steps, p: Passes \cup {"none"}, r: RequestIds \cup {"none"},
          snap: Pass, seen: VisitStatus, qr: BOOLEAN]

NoPass == [status |-> "NONE", used |-> 0, max |-> 0]
Idle == [pc |-> "idle", p |-> "none", r |-> "none", snap |-> NoPass,
         seen |-> "NONE", qr |-> FALSE]

TypeOK ==
    /\ visit \in Visit
    /\ passes \in [Passes -> Pass]
    /\ given \subseteq Passes
    /\ window \in [Passes -> {"early", "open", "past"}]
    /\ recorded \subseteq RequestIds
    /\ ins \in Nat /\ outs \in Nat
    /\ h \in [Guards -> Local]
    /\ started \in 0..MaxRequests
    /\ approved \in BOOLEAN
    /\ scans \in [Passes -> Nat]

Init ==
    /\ visit = [status |-> "NONE", pass |-> "none"]
    /\ passes = [p \in Passes |-> NoPass]
    /\ given = {}
    /\ window = [p \in Passes |-> "open"]
    /\ recorded = {}
    /\ ins = 0 /\ outs = 0
    /\ h = [i \in Guards |-> Idle]
    /\ started = 0
    /\ approved = FALSE
    /\ scans = [p \in Passes |-> 0]

-----------------------------------------------------------------------------
Begin(i, local) ==
    /\ h[i].pc = "idle"
    /\ started < MaxRequests
    /\ started' = started + 1
    /\ h' = [h EXCEPT ![i] = local]

At(i, step) == h[i].pc = step /\ UNCHANGED started
Goto(i, step) == h' = [h EXCEPT ![i].pc = step]
Finish(i) == h' = [h EXCEPT ![i] = Idle]

(* A request dropped at an await.                                          *)
Abort(i) ==
    /\ h[i].pc # "idle"
    /\ Finish(i)
    /\ UNCHANGED <<visit, passes, window, started, approved, given, log>>

SetVisit(status) ==
    /\ visit' = [visit EXCEPT !.status = status]
    /\ approved' = (approved \/ status \in {"APPROVED", "PRE_APPROVED"})

SetPass(p, status) == passes' = [passes EXCEPT ![p].status = status]

-----------------------------------------------------------------------------
(* preApproveVisitor: the visit, then the pass, then the link to it.       *)

PreApprove(i) ==
    /\ visit.status = "NONE"
    /\ Begin(i, [Idle EXCEPT !.pc = "issue"])
    /\ SetVisit("PRE_APPROVED")
    /\ UNCHANGED <<passes, window, given, log>>

(* issuePass, with the window open already or not yet.                     *)
Issue(i, p, n, w) ==
    /\ passes[p].status = "NONE"
    /\ n \in Allowances
    /\ passes' = [passes EXCEPT ![p] = [status |-> "ACTIVE", used |-> 0, max |-> n]]
    /\ window' = [window EXCEPT ![p] = w]

IssuePass(i, p, n, w) ==
    /\ At(i, "issue")
    /\ Issue(i, p, n, w)
    /\ h' = [h EXCEPT ![i].pc = "link", ![i].p = p]
    /\ UNCHANGED <<visit, approved, given, log>>

LinkPass(i) ==
    /\ At(i, "link")
    /\ visit' = [visit EXCEPT !.pass = h[i].p]
    /\ given' = given \cup {h[i].p}
    /\ Finish(i)
    /\ UNCHANGED <<passes, window, approved, log>>

(* createAtGateVisitor: approved at once where the society's settings do   *)
(* not require the resident's approval.                                    *)
CaptureAtGate(i, status) ==
    /\ visit.status = "NONE"
    /\ status \in {"AWAITING_APPROVAL", "APPROVED"}
    /\ Begin(i, Idle)
    /\ SetVisit(status)
    /\ UNCHANGED <<passes, window, given, log>>

(* decideVisitor: the update does not look at the status again.            *)
DecideRead(i) ==
    /\ visit.status \in {"AWAITING_APPROVAL", "PRE_APPROVED"}
    /\ Begin(i, [Idle EXCEPT !.pc = "decide"])
    /\ UNCHANGED <<visit, passes, window, approved, given, log>>

DecideWrite(i, status) ==
    /\ At(i, "decide")
    /\ status \in {"APPROVED", "REJECTED", "IGNORED"}
    /\ SetVisit(status)
    /\ Finish(i)
    /\ UNCHANGED <<passes, window, given, log>>

(* cancelVisitor, which revokes the pass it read, and revokeVisitorPass.   *)
CancelRead(i) ==
    /\ visit.status \notin {"NONE", "INSIDE", "EXITED"}
    /\ Begin(i, [Idle EXCEPT !.pc = "cancel", !.p = visit.pass])
    /\ UNCHANGED <<visit, passes, window, approved, given, log>>

CancelWrite(i) ==
    /\ At(i, "cancel")
    /\ SetVisit("CANCELLED")
    /\ IF h[i].p = "none" THEN Finish(i) ELSE Goto(i, "revoke")
    /\ UNCHANGED <<passes, window, given, log>>

RevokeRead(i) ==
    /\ visit.pass # "none"
    /\ Begin(i, [Idle EXCEPT !.pc = "revoke", !.p = visit.pass])
    /\ UNCHANGED <<visit, passes, window, approved, given, log>>

RevokePass(i) ==
    /\ At(i, "revoke")
    /\ SetPass(h[i].p, "REVOKED")
    /\ Finish(i)
    /\ UNCHANGED <<visit, window, approved, given, log>>

(* issueDailyHelperPass: any visit of a helper, whatever its status.       *)
HelperRead(i) ==
    /\ visit.status # "NONE"
    /\ Begin(i, [Idle EXCEPT !.pc = "helperIssue"])
    /\ UNCHANGED <<visit, passes, window, approved, given, log>>

HelperIssue(i, p, n) ==
    /\ At(i, "helperIssue")
    /\ Issue(i, p, n, "open")
    /\ h' = [h EXCEPT ![i].pc = "helperLink", ![i].p = p]
    /\ UNCHANGED <<visit, approved, given, log>>

HelperLink(i) ==
    /\ At(i, "helperLink")
    /\ visit' = [status |-> "PRE_APPROVED", pass |-> h[i].p]
    /\ given' = given \cup {h[i].p}
    /\ approved' = TRUE
    /\ Finish(i)
    /\ UNCHANGED <<passes, window, log>>

-----------------------------------------------------------------------------
(* scanPass with CHECK_IN, called by checkInVisitor.                       *)

(* The envelope of an expired token is rejected before any lookup.         *)
InHand(p) == p \in given /\ window[p] # "past"

ScanRead(i, p, r) ==
    /\ InHand(p)
    /\ Begin(i, [Idle EXCEPT !.pc = "scanCheck", !.p = p, !.r = r,
                             !.snap = passes[p], !.qr = TRUE])
    /\ UNCHANGED <<visit, passes, window, approved, given, log>>

Blocked == {"REJECTED", "CANCELLED", "IGNORED", "EXPIRED"}

Spent(pass) == pass.status # "ACTIVE" \/ pass.used >= pass.max

(* The clock is read again: it may have left the window since the token    *)
(* was parsed.                                                             *)
ScanCheck(i) ==
    /\ At(i, "scanCheck")
    /\ CASE window[h[i].p] = "early" -> Finish(i)
         [] window[h[i].p] = "past" -> Goto(i, "expirePass")
         [] window[h[i].p] = "open" /\ (Spent(h[i].snap) \/ visit.status \in Blocked) ->
              Finish(i)
         [] OTHER -> h' = [h EXCEPT ![i].pc = "consume", ![i].seen = visit.status]
    /\ UNCHANGED <<visit, passes, window, approved, given, log>>

(* No filter on the status: a revoked pass is turned to EXPIRED as well.   *)
ExpirePass(i) ==
    /\ At(i, "expirePass")
    /\ SetPass(h[i].p, "EXPIRED")
    /\ Finish(i)
    /\ UNCHANGED <<visit, window, approved, given, log>>

(* Mutant of Consumable: the status of the pass is not in the filter.      *)
ConsumableInAnyStatus(i) == passes[h[i].p].used < h[i].snap.max

(* The filter of the conditional update that charges an entry to the pass. *)
Consumable(i) == /\ passes[h[i].p].status = "ACTIVE"
                 /\ passes[h[i].p].used < h[i].snap.max

LastEntry(i) == h[i].snap.used + 1 >= h[i].snap.max

(* Mutant of ConsumeLost: the number of matched documents is ignored.      *)
ConsumeLostGoesOn(i) ==
    /\ At(i, "consume")
    /\ ~Consumable(i)
    /\ Goto(i, "enter")
    /\ UNCHANGED <<visit, passes, window, approved, given, log>>

ConsumeLost(i) ==
    /\ At(i, "consume")
    /\ ~Consumable(i)
    /\ Finish(i)
    /\ UNCHANGED <<visit, passes, window, approved, given, log>>

Consume(i) ==
    /\ At(i, "consume")
    /\ Consumable(i)
    /\ passes' = [passes EXCEPT ![h[i].p].used = @ + 1]
    /\ Goto(i, IF LastEntry(i) THEN "markUsed" ELSE "enter")
    /\ UNCHANGED <<visit, window, approved, given, log>>

(* A second update of its own, which a revocation may have overtaken.      *)
MarkUsed(i) ==
    /\ At(i, "markUsed")
    /\ SetPass(h[i].p, "USED")
    /\ Goto(i, "enter")
    /\ UNCHANGED <<visit, window, approved, given, log>>

-----------------------------------------------------------------------------
(* checkInVisitor by visitor id, the entry, and the visit turned INSIDE.   *)

(* Mutant of Admissible: a visit nobody decided may be let in.             *)
AdmissibleUndecided == {"APPROVED", "PRE_APPROVED", "AWAITING_APPROVAL"}

Admissible == {"APPROVED", "PRE_APPROVED"}

ManualRead(i, r) ==
    /\ visit.status \in Admissible
    /\ Begin(i, [Idle EXCEPT !.pc = IF visit.pass = "none" THEN "enter"
                                                           ELSE "manualPass",
                             !.p = visit.pass, !.r = r, !.seen = visit.status])
    /\ UNCHANGED <<visit, passes, window, approved, given, log>>

ManualPass(i) ==
    /\ At(i, "manualPass")
    /\ h' = [h EXCEPT ![i].snap = passes[h[i].p],
                      ![i].pc = IF passes[h[i].p].status = "ACTIVE"
                                THEN "manualConsume" ELSE "enter"]
    /\ UNCHANGED <<visit, passes, window, approved, given, log>>

(* Unlike a scan, the entry by hand goes on when the pass was not charged. *)
ManualConsume(i) ==
    /\ At(i, "manualConsume")
    /\ passes' = IF Consumable(i)
                 THEN [passes EXCEPT ![h[i].p].used = @ + 1,
                                     ![h[i].p].status =
                                        IF LastEntry(i) THEN "USED" ELSE @]
                 ELSE passes
    /\ Goto(i, "enter")
    /\ UNCHANGED <<visit, window, approved, given, log>>

Repeated(i) == h[i].r \in recorded

Record(i) == recorded' = recorded \cup ({h[i].r} \ {"none"})

(* A repeated request is answered with the entry it made, or loses on the  *)
(* unique index; the INSIDE check is on the visit as it was read.          *)
Refused(i) ==
    /\ At(i, "enter")
    /\ Repeated(i) \/ h[i].seen = "INSIDE"
    /\ Finish(i)
    /\ UNCHANGED <<visit, passes, window, approved, given, log>>

Enter(i) ==
    /\ At(i, "enter")
    /\ ~Repeated(i) /\ h[i].seen # "INSIDE"
    /\ ins' = ins + 1
    /\ scans' = IF h[i].qr THEN [scans EXCEPT ![h[i].p] = @ + 1] ELSE scans
    /\ Record(i)
    /\ Goto(i, "setInside")
    /\ UNCHANGED <<visit, passes, window, approved, given, outs>>

SetInside(i) ==
    /\ At(i, "setInside")
    /\ SetVisit("INSIDE")
    /\ Finish(i)
    /\ UNCHANGED <<passes, window, given, log>>

-----------------------------------------------------------------------------
(* checkOutVisitor, by visitor id or with a token.                         *)

(* Mutant of Leavable: anything but a visitor who left may leave.          *)
LeavableUnlessExited == visit.status \notin {"NONE", "EXITED"}

Leavable == visit.status = "INSIDE"

(* A token past its window is refused by parseToken, on the way out too.   *)
LeaveRead(i, r) ==
    /\ Leavable
    /\ Begin(i, [Idle EXCEPT !.pc = "leave", !.r = r])
    /\ UNCHANGED <<visit, passes, window, approved, given, log>>

Leave(i) ==
    /\ At(i, "leave")
    /\ IF Repeated(i)
         THEN Finish(i) /\ UNCHANGED <<outs, recorded>>
         ELSE Goto(i, "setExited") /\ outs' = outs + 1 /\ Record(i)
    /\ UNCHANGED <<visit, passes, window, approved, ins, given, scans>>

SetExited(i) ==
    /\ At(i, "setExited")
    /\ SetVisit("EXITED")
    /\ Finish(i)
    /\ UNCHANGED <<passes, window, given, log>>

-----------------------------------------------------------------------------
(* Expiry: passQrForVisitor, autoExpireVisitors and the sweep of passes.   *)

PassQrRead(i) ==
    /\ visit.pass # "none"
    /\ passes[visit.pass].status = "ACTIVE" /\ window[visit.pass] = "past"
    /\ Begin(i, [Idle EXCEPT !.pc = "expirePass", !.p = visit.pass])
    /\ UNCHANGED <<visit, passes, window, approved, given, log>>

AutoExpireRead(i) ==
    /\ visit.status = "AWAITING_APPROVAL"
    /\ Begin(i, [Idle EXCEPT !.pc = "autoExpire"])
    /\ UNCHANGED <<visit, passes, window, approved, given, log>>

(* Mutant of StillAwaiting: the update does not filter on the status.      *)
StillAwaitingAssumed == TRUE

StillAwaiting == visit.status = "AWAITING_APPROVAL"

AutoExpire(i) ==
    /\ At(i, "autoExpire")
    /\ IF StillAwaiting THEN SetVisit("EXPIRED") ELSE UNCHANGED <<visit, approved>>
    /\ Finish(i)
    /\ UNCHANGED <<passes, window, given, log>>

Stale(p) == passes[p].status = "ACTIVE" /\ window[p] = "past"

(* One updateMany, every five minutes (scheduler.ts, runSweep).            *)
ExpireStalePasses ==
    /\ \E p \in Passes : Stale(p)
    /\ passes' = [p \in Passes |->
                    IF Stale(p) THEN [passes[p] EXCEPT !.status = "EXPIRED"]
                                ELSE passes[p]]
    /\ UNCHANGED <<visit, window, approved, h, started, given, log>>

(* Time passes.                                                            *)
Clock(p) ==
    /\ passes[p].status # "NONE" /\ window[p] # "past"
    /\ window' = [window EXCEPT ![p] = IF @ = "early" THEN "open" ELSE "past"]
    /\ UNCHANGED <<visit, passes, approved, h, started, given, log>>

-----------------------------------------------------------------------------
Request(i) ==
    \/ PreApprove(i)
    \/ \E status \in VisitStatus : CaptureAtGate(i, status)
    \/ DecideRead(i) \/ CancelRead(i) \/ RevokeRead(i) \/ HelperRead(i)
    \/ PassQrRead(i) \/ AutoExpireRead(i)
    \/ \E r \in RequestIds \cup {"none"} :
          \/ ManualRead(i, r)
          \/ LeaveRead(i, r)
          \/ \E p \in Passes : ScanRead(i, p, r)

Continue(i) ==
    \/ \E p \in Passes, n \in Allowances :
          \/ HelperIssue(i, p, n)
          \/ \E w \in {"early", "open"} : IssuePass(i, p, n, w)
    \/ LinkPass(i) \/ HelperLink(i)
    \/ \E status \in VisitStatus : DecideWrite(i, status)
    \/ CancelWrite(i) \/ RevokePass(i) \/ ExpirePass(i) \/ AutoExpire(i)
    \/ ScanCheck(i) \/ Consume(i) \/ ConsumeLost(i) \/ MarkUsed(i)
    \/ ManualPass(i) \/ ManualConsume(i)
    \/ Refused(i) \/ Enter(i) \/ SetInside(i)
    \/ Leave(i) \/ SetExited(i)

Next == \/ \E i \in Guards : Request(i) \/ Continue(i) \/ Abort(i)
        \/ ExpireStalePasses
        \/ \E p \in Passes : Clock(p)

Spec == Init /\ [][Next]_vars

-----------------------------------------------------------------------------
(* A pass admits within its allowance and never after it died, although    *)
(* USED, EXPIRED and REVOKED are written from stale reads and overwrite    *)
(* one another, and scans race entries by hand (qr.ts 322-349).            *)
Gate == INSTANCE Turnstile WITH
            live <- {p \in Passes : passes[p].status = "ACTIVE"},
            used <- [p \in Passes |-> passes[p].used],
            allowed <- [p \in Passes |-> passes[p].max]
PassPromise == Gate!Spec

(* Scans record no more entries than were charged to the pass: the guard   *)
(* who loses the race of two scans is refused (visitorsService.ts 459).    *)
ScansAreCharged == \A p \in Passes : scans[p] <= passes[p].used

(* Nobody is let in whose visit was never approved, by a resident, by the  *)
(* settings or by a pass (visitorsService.ts 15-18, 500).                  *)
AdmittedWasApproved == ins > 0 => approved

(* The visit says INSIDE or EXITED, and an exit is recorded, only after an *)
(* entry is in the log (visitorsService.ts 658-661).                       *)
CrossingsInOrder ==
    visit.status \in {"INSIDE", "EXITED"} \/ outs > 0 => ins > 0

(* The expiry of visits nobody acted on never overtakes a decision made    *)
(* between its query and its update (visitorsService.ts 868-870).          *)
ExpiryKeepsDecisions ==
    [][visit'.status = "EXPIRED" => visit.status \in {"AWAITING_APPROVAL", "EXPIRED"}]_vars
=============================================================================
