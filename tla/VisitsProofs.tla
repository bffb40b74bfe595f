---------------------------- MODULE VisitsProofs ----------------------------
(***************************************************************************)
(* Proofs about Visits: for any number of passes, guards and requests, who *)
(* is let in was approved, crossings are logged in order, scans are        *)
(* charged, and a pass is the turnstile that Turnstile describes.          *)
(***************************************************************************)
EXTENDS Visits, FiniteSetTheorems, TLAPS

NeedsPass == {"link", "revoke", "helperLink", "scanCheck", "consume", "markUsed",
              "manualPass", "manualConsume", "expirePass"}
(* Steps that only an approved visit comes to.                             *)
OnTheWay == {"issue", "link", "scanCheck", "consume", "markUsed", "manualPass",
             "manualConsume", "enter", "setInside"}
(* Steps that go by what was read of the pass.                             *)
Reading == {"scanCheck", "consume", "manualConsume"}

(* What a request holds fits what the database has become since: a pass    *)
(* keeps its allowance and its charges only grow.                          *)
Fits(local, ps, ok, n) ==
    /\ local.p # "none" => ps[local.p].status # "NONE"
    /\ local.pc \in NeedsPass \/ local.qr => local.p \in Passes
    /\ local.pc \in OnTheWay => ok
    /\ local.pc \in {"setInside", "leave", "setExited"} => n > 0
    /\ local.pc \in Reading => /\ local.snap.max = ps[local.p].max
                               /\ local.snap.used <= ps[local.p].used
    /\ local.pc \in {"manualPass", "manualConsume"} => ~local.qr

Held == \A i \in Guards : Fits(h[i], passes, approved, ins)

(* A pass that was not issued is known to nobody.                          *)
Unknown(p) == /\ passes[p] = NoPass
              /\ p \notin given
              /\ visit.pass # p
              /\ scans[p] = 0
Unissued == \A p \in Passes : passes[p].status = "NONE" => Unknown(p)

Approvals ==
    /\ AdmittedWasApproved
    /\ visit.status \in Admissible => approved
    /\ given # {} => approved

(* Scans that charged the pass and have not recorded their entry.          *)
Owes(local, p) == local.qr /\ local.pc \in {"markUsed", "enter"} /\ local.p = p
Owed(p) == {i \in Guards : Owes(h[i], p)}
Charged == \A p \in Passes : scans[p] + Cardinality(Owed(p)) <= passes[p].used

IInv ==
    /\ TypeOK
    /\ Held
    /\ Unissued
    /\ Approvals
    /\ CrossingsInOrder
    /\ Charged

(* What was decided, charged and logged stays so.                          *)
Grown ==
    /\ \A p \in Passes : passes[p].status # "NONE" =>
          /\ passes'[p].status # "NONE"
          /\ passes'[p].max = passes[p].max
          /\ passes'[p].used >= passes[p].used
    /\ approved => approved'
    /\ ins <= ins'

-----------------------------------------------------------------------------
LEMMA PassTyped ==
    ASSUME TypeOK, NEW p \in Passes
    PROVE  /\ passes[p] \in Pass /\ passes[p].status \in PassStatus
           /\ passes[p].used \in Nat /\ passes[p].max \in Nat
<1>1. passes[p] \in Pass
    BY DEF TypeOK
<1> QED
    BY <1>1 DEF Pass

LEMMA LocalTyped ==
    ASSUME TypeOK, NEW i \in Guards
    PROVE  /\ h[i] \in Local /\ h[i].pc \in Steps
           /\ h[i].p \in Passes \cup {"none"} /\ h[i].r \in RequestIds \cup {"none"}
           /\ h[i].snap \in Pass /\ h[i].snap.used \in Nat /\ h[i].snap.max \in Nat
           /\ h[i].seen \in VisitStatus /\ h[i].qr \in BOOLEAN
<1>1. h[i] \in Local
    BY DEF TypeOK
<1>2. h[i].snap \in Pass
    BY <1>1 DEF Local
<1> QED
    BY <1>1, <1>2 DEF Local, Pass

LEMMA NoPassTyped == NoPass \in Pass /\ NoPass.status = "NONE" /\ NoPass.used = 0 /\ NoPass.max = 0
    BY DEF NoPass, Pass, PassStatus

LEMMA IdleTyped ==
    /\ Idle \in Local /\ Idle.pc = "idle" /\ Idle.p = "none" /\ Idle.r = "none"
    /\ Idle.qr = FALSE
    BY NoPassTyped DEF Idle, Local, Steps, VisitStatus

LEMMA IdleFits ==
    ASSUME NEW ps, NEW ok, NEW n
    PROVE  Fits(Idle, ps, ok, n) /\ \A p \in Passes : ~Owes(Idle, p)
    BY IdleTyped DEF Fits, Owes, NeedsPass, OnTheWay, Reading

-----------------------------------------------------------------------------
(* What requests hold.                                                     *)

LEMMA FitsGrown ==
    ASSUME IInv, Grown, TypeOK', NEW i \in Guards
    PROVE  Fits(h[i], passes', approved', ins')
<1>1. Fits(h[i], passes, approved, ins) /\ h[i] \in Local
    BY LocalTyped DEF IInv, Held
<1>2. h[i].p = "none" \/ (h[i].p \in Passes /\ passes[h[i].p].status # "NONE")
    BY <1>1, LocalTyped DEF Fits, IInv
<1>3. ins \in Nat /\ ins' \in Nat
    BY DEF IInv, TypeOK
<1>4. h[i].pc \in {"setInside", "leave", "setExited"} => ins' > 0
    BY <1>1, <1>3 DEF Fits, Grown
<1>5. h[i].p # "none" => passes'[h[i].p].status # "NONE"
    BY <1>2 DEF Grown
<1>6. h[i].pc \in OnTheWay => approved'
    BY <1>1 DEF Fits, Grown
<1>7. ASSUME h[i].pc \in Reading
      PROVE  h[i].snap.max = passes'[h[i].p].max /\ h[i].snap.used <= passes'[h[i].p].used
  <2>1. h[i].p \in Passes
      BY <1>1, <1>7 DEF Fits, Reading, NeedsPass
  <2>2. h[i].p # "none"
      BY <2>1, VisitsAssumption
  <2>3. /\ passes'[h[i].p].max = passes[h[i].p].max
        /\ passes'[h[i].p].used >= passes[h[i].p].used
      BY <1>2, <2>1, <2>2 DEF Grown
  <2>4. passes[h[i].p].used \in Nat /\ h[i].snap.used \in Nat
      BY <2>1, PassTyped, LocalTyped DEF IInv
  <2>5. passes'[h[i].p].used \in Nat
    <3>1. passes'[h[i].p] \in Pass
        BY <2>1 DEF TypeOK
    <3> QED
        BY <3>1 DEF Pass
  <2> QED
      BY <1>1, <1>7, <2>3, <2>4, <2>5 DEF Fits
<1> QED
    BY <1>1, <1>4, <1>5, <1>6, <1>7 DEF Fits

LEMMA HeldKept ==
    ASSUME IInv, Grown, TypeOK', NEW i \in Guards, NEW local,
           h' = [h EXCEPT ![i] = local], Fits(local, passes', approved', ins')
    PROVE  Held'
<1>1. ASSUME NEW j \in Guards PROVE Fits(h'[j], passes', approved', ins')
  <2>1. CASE j = i
    <3>1. h'[j] = local
        BY <2>1 DEF IInv, TypeOK
    <3> QED
        BY <3>1
  <2>2. CASE j # i
    <3>1. h'[j] = h[j]
        BY <2>2 DEF IInv, TypeOK
    <3> QED
        BY <3>1, FitsGrown
  <2> QED
      BY <2>1, <2>2
<1> QED
    BY <1>1 DEF Held

-----------------------------------------------------------------------------
(* What scans owe.                                                         *)

LEMMA OwedFinite ==
    ASSUME NEW p
    PROVE  /\ IsFiniteSet(Owed(p)) /\ Cardinality(Owed(p)) \in Nat
           /\ IsFiniteSet(Owed(p)') /\ Cardinality(Owed(p)') \in Nat
<1>1. Owed(p) \subseteq Guards /\ Owed(p)' \subseteq Guards
    BY DEF Owed
<1>2. IsFiniteSet(Owed(p)) /\ IsFiniteSet(Owed(p)')
    BY <1>1, VisitsAssumption, FS_Subset
<1> QED
    BY <1>2, FS_CardinalityType

(* A step of i leaves what the others owe alone.                           *)
LEMMA OwedByOthers ==
    ASSUME IInv, NEW i \in Guards, NEW local, h' = [h EXCEPT ![i] = local], NEW p
    PROVE  /\ Owed(p)' \subseteq Owed(p) \cup {i}
           /\ Owes(local, p) \/ i \notin Owed(p)'
           /\ \A j \in Guards \ {i} : j \in Owed(p)' <=> j \in Owed(p)
<1>1. h' \in [Guards -> {h'[j] : j \in Guards}] /\ h'[i] = local
      /\ \A j \in Guards \ {i} : h'[j] = h[j]
    BY DEF IInv, TypeOK
<1> QED
    BY <1>1 DEF Owed

LEMMA ChargedQuiet ==
    ASSUME IInv, TypeOK', NEW i \in Guards, NEW local, h' = [h EXCEPT ![i] = local],
           \A p \in Passes : ~Owes(local, p) \/ Owes(h[i], p), scans' = scans,
           \A p \in Passes : passes'[p].used >= passes[p].used
    PROVE  Charged'
<1>1. ASSUME NEW p \in Passes PROVE scans'[p] + Cardinality(Owed(p)') <= passes'[p].used
  <2>1. Owed(p)' \subseteq Owed(p)
      BY OwedByOthers DEF Owed
  <2>2. Cardinality(Owed(p)') <= Cardinality(Owed(p))
      BY <2>1, OwedFinite, FS_Subset
  <2>3. scans[p] + Cardinality(Owed(p)) <= passes[p].used /\ scans'[p] = scans[p]
      BY DEF IInv, Charged
  <2>4. passes[p].used \in Nat /\ scans[p] \in Nat /\ passes'[p] \in Pass
      BY PassTyped DEF IInv, TypeOK
  <2>5. passes'[p].used \in Nat
      BY <2>4 DEF Pass
  <2>6. passes'[p].used >= passes[p].used
      OBVIOUS
  <2>7. Cardinality(Owed(p)) \in Nat /\ Cardinality(Owed(p)') \in Nat
      BY OwedFinite
  <2> QED
      BY <2>2, <2>3, <2>4, <2>5, <2>6, <2>7
<1> QED
    BY <1>1 DEF Charged
-----------------------------------------------------------------------------
(* Steps of one kind.                                                      *)

(* A request moves and the database stays.                                 *)
LEMMA ReadKeeps ==
    ASSUME IInv, UNCHANGED <<visit, passes, window, approved, given, log>>,
           started' \in 0..MaxRequests,
           NEW i \in Guards, NEW local \in Local, h' = [h EXCEPT ![i] = local],
           Fits(local, passes, approved, ins),
           \A p \in Passes : ~Owes(local, p) \/ Owes(h[i], p)
    PROVE  IInv'
<1>1. h' \in [Guards -> Local]
    BY DEF IInv, TypeOK
<1>2. UNCHANGED <<visit, passes, window, approved, given, recorded, ins, outs, scans>>
    BY DEF log
<1>3. TypeOK'
    BY <1>1, <1>2 DEF IInv, TypeOK
<1>4. ins \in Nat /\ \A p \in Passes : passes[p].used \in Nat
    BY PassTyped DEF IInv, TypeOK
<1>5. Grown
    BY <1>2, <1>4 DEF Grown
<1>6. Held'
    BY <1>2, <1>3, <1>5, HeldKept
<1>7. Charged'
  <2>1. \A p \in Passes : passes'[p].used >= passes[p].used
      BY <1>2, <1>4
  <2> QED
      BY <1>2, <1>3, <2>1, ChargedQuiet
<1>8. Unissued' /\ Approvals' /\ CrossingsInOrder'
    BY <1>2 DEF IInv, Unissued, Unknown, Approvals, AdmittedWasApproved, CrossingsInOrder
<1> QED
    BY <1>3, <1>6, <1>7, <1>8 DEF IInv

(* The status of the visit is written.                                     *)
LEMMA VisitKeeps ==
    ASSUME IInv, UNCHANGED <<passes, window, given, log>>,
           started' \in 0..MaxRequests,
           NEW status \in VisitStatus, SetVisit(status),
           status \in {"INSIDE", "EXITED"} => ins > 0,
           NEW i \in Guards, NEW local \in Local, h' = [h EXCEPT ![i] = local],
           Fits(local, passes, approved', ins),
           \A p \in Passes : ~Owes(local, p) \/ Owes(h[i], p)
    PROVE  IInv'
<1>1. h' \in [Guards -> Local]
    BY DEF IInv, TypeOK
<1>2. UNCHANGED <<passes, window, given, recorded, ins, outs, scans>>
    BY DEF log
<1>3. visit \in Visit /\ approved \in BOOLEAN
    BY DEF IInv, TypeOK
<1>4. visit' \in Visit /\ visit'.status = status /\ visit'.pass = visit.pass
    BY <1>3 DEF SetVisit, Visit
<1>5. approved' \in BOOLEAN /\ (approved => approved')
      /\ (status \in Admissible => approved')
    BY <1>3 DEF SetVisit, Admissible
<1>6. TypeOK'
    BY <1>1, <1>2, <1>4, <1>5 DEF IInv, TypeOK
<1>7. ins \in Nat /\ \A p \in Passes : passes[p].used \in Nat
    BY PassTyped DEF IInv, TypeOK
<1>8. Grown
    BY <1>2, <1>5, <1>7 DEF Grown
<1>9. Held'
    BY <1>2, <1>6, <1>8, HeldKept
<1>10. Charged'
  <2>1. \A p \in Passes : passes'[p].used >= passes[p].used
      BY <1>2, <1>7
  <2> QED
      BY <1>2, <1>6, <2>1, ChargedQuiet
<1>11. Unissued'
    BY <1>2, <1>4 DEF IInv, Unissued, Unknown
<1>12. Approvals'
    BY <1>2, <1>4, <1>5 DEF IInv, Approvals, AdmittedWasApproved
<1>13. CrossingsInOrder'
    BY <1>2, <1>4 DEF IInv, CrossingsInOrder
<1> QED
    BY <1>6, <1>9, <1>10, <1>11, <1>12, <1>13 DEF IInv

(* Passes change, each in its status or its charges.                       *)
LEMMA PassesKeep ==
    ASSUME IInv, UNCHANGED <<visit, approved, given, log>>,
           started' \in 0..MaxRequests, window' \in [Passes -> {"early", "open", "past"}],
           passes' \in [Passes -> Pass],
           \A p \in Passes :
              IF passes[p].status = "NONE" THEN passes'[p] = passes[p]
              ELSE /\ passes'[p].status # "NONE" /\ passes'[p].max = passes[p].max
                   /\ passes'[p].used >= passes[p].used,
           h' \in [Guards -> Local], Charged'
    PROVE  /\ TypeOK' /\ Grown
           /\ Held' => IInv'
<1>1. UNCHANGED <<visit, approved, given, recorded, ins, outs, scans>>
    BY DEF log
<1>2. TypeOK'
    BY <1>1 DEF IInv, TypeOK
<1>3. ins \in Nat
    BY DEF IInv, TypeOK
<1>4. Grown
    BY <1>1, <1>3 DEF Grown
<1>5. Unissued'
  <2>1. ASSUME NEW p \in Passes, passes'[p].status = "NONE" PROVE Unknown(p)'
    <3>1. passes[p].status = "NONE" /\ passes'[p] = passes[p]
        BY <2>1
    <3> QED
        BY <1>1, <3>1 DEF IInv, Unissued, Unknown
  <2> QED
      BY <2>1 DEF Unissued
<1>6. Approvals' /\ CrossingsInOrder'
    BY <1>1 DEF IInv, Approvals, AdmittedWasApproved, CrossingsInOrder
<1> QED
    BY <1>2, <1>4, <1>5, <1>6 DEF IInv
-----------------------------------------------------------------------------
(* Requests.                                                               *)

LEMMA Counted ==
    ASSUME IInv, NEW i \in Guards, NEW local, Begin(i, local)
    PROVE  started' \in 0..MaxRequests /\ h' = [h EXCEPT ![i] = local]
    BY VisitsAssumption DEF Begin, IInv, TypeOK

LEMMA VisitTyped ==
    ASSUME IInv
    PROVE  /\ visit \in Visit /\ visit.status \in VisitStatus /\ visit.pass \in Passes \cup {"none"}
           /\ visit.pass # "none" => visit.pass \in Passes /\ passes[visit.pass].status # "NONE"
<1>1. visit \in Visit
    BY DEF IInv, TypeOK
<1>2. visit.pass \in Passes \cup {"none"} /\ visit.status \in VisitStatus
    BY <1>1 DEF Visit
<1>3. visit.pass \in Passes => passes[visit.pass].status # "NONE"
    BY DEF IInv, Unissued, Unknown
<1> QED
    BY <1>1, <1>2, <1>3

(* Requests on the visit alone.                                            *)
LEMMA VisitRequestsKeep ==
    ASSUME IInv, NEW i \in Guards,
           \/ PreApprove(i) \/ (\E status \in VisitStatus : CaptureAtGate(i, status))
           \/ DecideRead(i) \/ HelperRead(i) \/ AutoExpireRead(i)
           \/ \E r \in RequestIds \cup {"none"} : LeaveRead(i, r)
    PROVE  IInv'
<1>1. visit \in Visit /\ approved \in BOOLEAN
    BY DEF IInv, TypeOK
<1>2. CASE PreApprove(i)
  <2>1. PICK local : local = [Idle EXCEPT !.pc = "issue"]
      OBVIOUS
  <2>2. local \in Local /\ local.pc = "issue" /\ local.p = "none" /\ local.qr = FALSE
      BY <2>1, IdleTyped DEF Local, Steps
  <2>3. approved' /\ "PRE_APPROVED" \in VisitStatus
      BY <1>2 DEF PreApprove, SetVisit, VisitStatus
  <2>4. Fits(local, passes, approved', ins) /\ \A p \in Passes : ~Owes(local, p)
      BY <2>2, <2>3 DEF Fits, Owes, NeedsPass, OnTheWay, Reading
  <2> QED
      BY <1>2, <2>1, <2>2, <2>3, <2>4, Counted, VisitKeeps DEF PreApprove
<1>3. ASSUME NEW status \in VisitStatus, CaptureAtGate(i, status) PROVE IInv'
  <2>1. Fits(Idle, passes, approved', ins) /\ \A p \in Passes : ~Owes(Idle, p)
      BY IdleFits
  <2> QED
      BY <1>3, <2>1, IdleTyped, Counted, VisitKeeps DEF CaptureAtGate
<1>4. ASSUME NEW step \in {"decide", "helperIssue", "autoExpire"},
             Begin(i, [Idle EXCEPT !.pc = step]),
             UNCHANGED <<visit, passes, window, approved, given, log>>
      PROVE  IInv'
  <2>1. PICK local : local = [Idle EXCEPT !.pc = step]
      OBVIOUS
  <2>2. local \in Local /\ local.pc = step /\ local.p = "none" /\ local.qr = FALSE
      BY <2>1, IdleTyped DEF Local, Steps
  <2>3. Fits(local, passes, approved, ins) /\ \A p \in Passes : ~Owes(local, p)
      BY <2>2 DEF Fits, Owes, NeedsPass, OnTheWay, Reading
  <2> QED
      BY <1>4, <2>1, <2>2, <2>3, Counted, ReadKeeps
<1>5. ASSUME NEW r \in RequestIds \cup {"none"}, LeaveRead(i, r) PROVE IInv'
  <2>1. PICK local : local = [Idle EXCEPT !.pc = "leave", !.r = r]
      OBVIOUS
  <2>2. local \in Local /\ local.pc = "leave" /\ local.p = "none" /\ local.qr = FALSE
      BY <2>1, IdleTyped DEF Local, Steps
  <2>3. ins > 0
      BY <1>5 DEF LeaveRead, Leavable, IInv, CrossingsInOrder
  <2>4. Fits(local, passes, approved, ins) /\ \A p \in Passes : ~Owes(local, p)
      BY <2>2, <2>3 DEF Fits, Owes, NeedsPass, OnTheWay, Reading
  <2> QED
      BY <1>5, <2>1, <2>2, <2>4, Counted, ReadKeeps DEF LeaveRead
<1> QED
    BY <1>2, <1>3, <1>4, <1>5 DEF DecideRead, HelperRead, AutoExpireRead

(* Requests that remember the pass of the visit.                           *)
LEMMA PassRequestsKeep ==
    ASSUME IInv, NEW i \in Guards, CancelRead(i) \/ RevokeRead(i) \/ PassQrRead(i)
    PROVE  IInv'
<1>1. PICK step \in {"cancel", "revoke", "expirePass"} :
         /\ Begin(i, [Idle EXCEPT !.pc = step, !.p = visit.pass])
         /\ step # "cancel" => visit.pass # "none"
    BY DEF CancelRead, RevokeRead, PassQrRead
<1>2. PICK local : local = [Idle EXCEPT !.pc = step, !.p = visit.pass]
    OBVIOUS
<1>3. local \in Local /\ local.pc = step /\ local.p = visit.pass /\ local.qr = FALSE
    BY <1>2, IdleTyped, VisitTyped DEF Local, Steps
<1>4. Fits(local, passes, approved, ins) /\ \A p \in Passes : ~Owes(local, p)
    BY <1>1, <1>3, VisitTyped DEF Fits, Owes, NeedsPass, OnTheWay, Reading
<1>5. UNCHANGED <<visit, passes, window, approved, given, log>>
    BY DEF CancelRead, RevokeRead, PassQrRead
<1> QED
    BY <1>1, <1>2, <1>3, <1>4, <1>5, Counted, ReadKeeps

LEMMA ScanReadKeeps ==
    ASSUME IInv, NEW i \in Guards, NEW p \in Passes, NEW r \in RequestIds \cup {"none"},
           ScanRead(i, p, r)
    PROVE  IInv'
<1>1. PICK local : local = [Idle EXCEPT !.pc = "scanCheck", !.p = p, !.r = r,
                                        !.snap = passes[p], !.qr = TRUE]
    OBVIOUS
<1>2. /\ local \in Local /\ local.pc = "scanCheck" /\ local.p = p /\ local.qr = TRUE
      /\ local.snap = passes[p]
    BY <1>1, IdleTyped, PassTyped DEF Local, Steps, IInv
<1>3. p \in given
    BY DEF ScanRead, InHand
<1>4. approved /\ passes[p].status # "NONE"
    BY <1>3 DEF IInv, Approvals, Unissued, Unknown
<1>5. passes[p].used \in Nat
    BY PassTyped DEF IInv
<1>6. Fits(local, passes, approved, ins)
    BY <1>2, <1>4, <1>5 DEF Fits, NeedsPass, OnTheWay, Reading
<1>7. \A q \in Passes : ~Owes(local, q)
    BY <1>2 DEF Owes
<1> QED
    BY <1>1, <1>2, <1>6, <1>7, Counted, ReadKeeps DEF ScanRead

LEMMA ManualReadKeeps ==
    ASSUME IInv, NEW i \in Guards, NEW r \in RequestIds \cup {"none"}, ManualRead(i, r)
    PROVE  IInv'
<1>1. PICK step : step = IF visit.pass = "none" THEN "enter" ELSE "manualPass"
    OBVIOUS
<1>2. PICK local : local = [Idle EXCEPT !.pc = step, !.p = visit.pass, !.r = r,
                                        !.seen = visit.status]
    OBVIOUS
<1>3. local \in Local /\ local.pc = step /\ local.p = visit.pass /\ local.qr = FALSE
    BY <1>1, <1>2, IdleTyped, VisitTyped DEF Local, Steps
<1>4. approved
    BY DEF ManualRead, IInv, Approvals
<1>5. Fits(local, passes, approved, ins) /\ \A p \in Passes : ~Owes(local, p)
    BY <1>1, <1>3, <1>4, VisitTyped DEF Fits, Owes, NeedsPass, OnTheWay, Reading
<1> QED
    BY <1>1, <1>2, <1>3, <1>5, Counted, ReadKeeps DEF ManualRead

LEMMA RequestKeeps ==
    ASSUME IInv, NEW i \in Guards, Request(i)
    PROVE  IInv'
    BY VisitRequestsKeep, PassRequestsKeep, ScanReadKeeps, ManualReadKeeps DEF Request

-----------------------------------------------------------------------------
(* Steps that read or write the visit.                                     *)

LEMMA Moved ==
    ASSUME IInv, NEW i \in Guards, NEW step \in Steps, Goto(i, step)
    PROVE  \E local \in Local :
              /\ h' = [h EXCEPT ![i] = local] /\ local.pc = step
              /\ local.p = h[i].p /\ local.qr = h[i].qr /\ local.snap = h[i].snap
<1>1. PICK local : local = [h[i] EXCEPT !.pc = step]
    OBVIOUS
<1>2. h[i] \in Local
    BY LocalTyped DEF IInv
<1>3. /\ local \in Local /\ local.pc = step
      /\ local.p = h[i].p /\ local.qr = h[i].qr /\ local.snap = h[i].snap
    BY <1>1, <1>2 DEF Local
<1>4. h' = [h EXCEPT ![i] = local]
    BY <1>1 DEF Goto
<1> QED
    BY <1>3, <1>4

LEMMA FinishKeeps ==
    ASSUME IInv, UNCHANGED <<visit, passes, window, approved, given, log>>, UNCHANGED started,
           NEW i \in Guards, Finish(i)
    PROVE  IInv'
<1>1. started' \in 0..MaxRequests
    BY DEF IInv, TypeOK
<1>2. Fits(Idle, passes, approved, ins) /\ \A p \in Passes : ~Owes(Idle, p)
    BY IdleFits
<1> QED
    BY <1>1, <1>2, IdleTyped, ReadKeeps DEF Finish

LEMMA VisitEndsKeep ==
    ASSUME IInv, NEW i \in Guards, At(i, h[i].pc), UNCHANGED <<passes, window, given, log>>,
           NEW status \in VisitStatus, SetVisit(status),
           status \in {"INSIDE", "EXITED"} => ins > 0, Finish(i)
    PROVE  IInv'
<1>1. started' \in 0..MaxRequests
    BY DEF IInv, TypeOK, At
<1>2. Fits(Idle, passes, approved', ins) /\ \A p \in Passes : ~Owes(Idle, p)
    BY IdleFits
<1> QED
    BY <1>1, <1>2, IdleTyped, VisitKeeps DEF Finish

LEMMA VisitStepsKeep ==
    ASSUME IInv, NEW i \in Guards,
           \/ \E status \in VisitStatus : DecideWrite(i, status)
           \/ CancelWrite(i) \/ AutoExpire(i) \/ SetInside(i) \/ SetExited(i)
    PROVE  IInv'
<1>1. Fits(h[i], passes, approved, ins) /\ h[i].p \in Passes \cup {"none"} /\ h[i].qr \in BOOLEAN
    BY LocalTyped DEF IInv, Held
<1>2. ASSUME NEW status \in VisitStatus, DecideWrite(i, status) PROVE IInv'
    BY <1>2, VisitEndsKeep DEF DecideWrite, At
<1>3. CASE CancelWrite(i)
  <2>1. SetVisit("CANCELLED") /\ "CANCELLED" \in VisitStatus /\ "revoke" \in Steps
        /\ UNCHANGED <<passes, window, given, log, started>>
      BY <1>3 DEF CancelWrite, VisitStatus, Steps, At
  <2>2. CASE Finish(i)
      BY <1>3, <2>1, <2>2, VisitEndsKeep DEF At
  <2>3. CASE h[i].p # "none" /\ Goto(i, "revoke")
    <3>1. PICK local \in Local :
             /\ h' = [h EXCEPT ![i] = local] /\ local.pc = "revoke"
             /\ local.p = h[i].p /\ local.qr = h[i].qr /\ local.snap = h[i].snap
        BY <2>1, <2>3, Moved
    <3>2. Fits(local, passes, approved', ins) /\ \A p \in Passes : ~Owes(local, p)
        BY <1>1, <2>3, <3>1 DEF Fits, Owes, OnTheWay, Reading
    <3>3. started' \in 0..MaxRequests
        BY <2>1 DEF IInv, TypeOK
    <3> QED
        BY <2>1, <3>1, <3>2, <3>3, VisitKeeps
  <2> QED
      BY <1>3, <2>2, <2>3 DEF CancelWrite
<1>4. CASE AutoExpire(i)
  <2>1. CASE StillAwaiting
      BY <1>4, <2>1, VisitEndsKeep DEF AutoExpire, At, VisitStatus
  <2>2. CASE ~StillAwaiting
      BY <1>4, <2>2, FinishKeeps DEF AutoExpire, At
  <2> QED
      BY <2>1, <2>2
<1>5. CASE SetInside(i)
  <2>1. ins > 0
      BY <1>1, <1>5 DEF Fits, SetInside, At
  <2> QED
      BY <1>5, <2>1, VisitEndsKeep DEF SetInside, At, VisitStatus
<1>6. CASE SetExited(i)
  <2>1. ins > 0
      BY <1>1, <1>6 DEF Fits, SetExited, At
  <2> QED
      BY <1>6, <2>1, VisitEndsKeep DEF SetExited, At, VisitStatus
<1> QED
    BY <1>2, <1>3, <1>4, <1>5, <1>6

(* Steps that only read.                                                   *)
LEMMA ReadStepsKeep ==
    ASSUME IInv, NEW i \in Guards,
           ScanCheck(i) \/ ConsumeLost(i) \/ ManualPass(i) \/ Refused(i)
    PROVE  IInv'
<1>1. /\ Fits(h[i], passes, approved, ins) /\ h[i] \in Local
      /\ h[i].p \in Passes \cup {"none"} /\ h[i].qr \in BOOLEAN /\ h[i].snap \in Pass
    BY LocalTyped DEF IInv, Held
<1>2. UNCHANGED <<visit, passes, window, approved, given, log, started>>
      /\ started' \in 0..MaxRequests
    BY DEF ScanCheck, ConsumeLost, ManualPass, Refused, At, IInv, TypeOK
<1>3. CASE Finish(i)
    BY <1>2, <1>3, FinishKeeps
<1>4. CASE ScanCheck(i) /\ ~Finish(i)
  <2>1. h[i].pc = "scanCheck" /\ h[i].p \in Passes
      BY <1>1, <1>4 DEF ScanCheck, At, Fits, NeedsPass
  <2>2. CASE Goto(i, "expirePass")
    <3>1. PICK local \in Local :
             /\ h' = [h EXCEPT ![i] = local] /\ local.pc = "expirePass"
             /\ local.p = h[i].p /\ local.qr = h[i].qr /\ local.snap = h[i].snap
        BY <2>2, Moved DEF Steps
    <3>2. Fits(local, passes, approved, ins) /\ \A p \in Passes : ~Owes(local, p)
        BY <1>1, <2>1, <3>1 DEF Fits, Owes, NeedsPass, OnTheWay, Reading
    <3> QED
        BY <1>2, <3>1, <3>2, ReadKeeps
  <2>3. CASE h' = [h EXCEPT ![i].pc = "consume", ![i].seen = visit.status]
    <3>1. PICK local : local = [h[i] EXCEPT !.pc = "consume", !.seen = visit.status]
        OBVIOUS
    <3>2. /\ local \in Local /\ local.pc = "consume"
          /\ local.p = h[i].p /\ local.qr = h[i].qr /\ local.snap = h[i].snap
        BY <1>1, <3>1, VisitTyped DEF Local, Steps
    <3>3. Fits(local, passes, approved, ins) /\ \A p \in Passes : ~Owes(local, p)
        BY <1>1, <2>1, <3>2 DEF Fits, Owes, NeedsPass, OnTheWay, Reading
    <3>4. h' = [h EXCEPT ![i] = local]
        BY <2>3, <3>1
    <3> QED
        BY <1>2, <3>2, <3>3, <3>4, ReadKeeps
  <2>4. window[h[i].p] \in {"early", "open", "past"}
      BY <2>1 DEF IInv, TypeOK
  <2> QED
      BY <1>4, <2>2, <2>3, <2>4 DEF ScanCheck
<1>5. CASE ManualPass(i)
  <2>1. h[i].pc = "manualPass" /\ h[i].p \in Passes /\ ~h[i].qr
      BY <1>1, <1>5 DEF ManualPass, At, Fits, NeedsPass
  <2>2. PICK snap, step :
           /\ snap = passes[h[i].p]
           /\ step = IF passes[h[i].p].status = "ACTIVE" THEN "manualConsume" ELSE "enter"
      OBVIOUS
  <2>3. h' = [h EXCEPT ![i].snap = snap, ![i].pc = step]
      BY <1>5, <2>2 DEF ManualPass
  <2>4. snap \in Pass /\ step \in Steps /\ passes[h[i].p].used \in Nat
      BY <2>1, <2>2, PassTyped DEF Steps, IInv
  <2>5. PICK local : local = [h[i] EXCEPT !.snap = snap, !.pc = step]
      OBVIOUS
  <2>6. /\ local \in Local /\ local.pc = step /\ local.p = h[i].p /\ local.qr = h[i].qr
        /\ local.snap = snap
      BY <1>1, <2>4, <2>5 DEF Local
  <2>7. Fits(local, passes, approved, ins) /\ \A p \in Passes : ~Owes(local, p)
      BY <1>1, <2>1, <2>2, <2>4, <2>6 DEF Fits, Owes, NeedsPass, OnTheWay, Reading
  <2>8. h' = [h EXCEPT ![i] = local]
      BY <2>3, <2>5
  <2> QED
      BY <1>2, <2>6, <2>7, <2>8, ReadKeeps
<1> QED
    BY <1>3, <1>4, <1>5 DEF ConsumeLost, Refused
-----------------------------------------------------------------------------
(* Steps that write passes.                                                *)

(* One pass is given another status.                                       *)
LEMMA SetPassKeeps ==
    ASSUME IInv, UNCHANGED <<visit, window, approved, given, log, started>>,
           NEW i \in Guards, h[i].p \in Passes,
           NEW status \in PassStatus \ {"NONE"}, SetPass(h[i].p, status),
           NEW local \in Local, h' = [h EXCEPT ![i] = local], local.p \in {h[i].p, "none"},
           local.qr => local.p \in Passes, local.pc \notin Reading \cup NeedsPass,
           local.pc \in OnTheWay => approved, local.pc \notin {"setInside", "leave", "setExited"},
           \A p \in Passes : ~Owes(local, p) \/ Owes(h[i], p)
    PROVE  IInv'
<1>1. PICK p : p = h[i].p
    OBVIOUS
<1>2. /\ p \in Passes /\ passes[p] \in Pass /\ passes \in [Passes -> Pass]
      /\ passes[p].used \in Nat /\ passes[p].status # "NONE"
  <2>1. Fits(h[i], passes, approved, ins) /\ p # "none"
      BY <1>1, VisitsAssumption DEF IInv, Held
  <2> QED
      BY <1>1, <2>1, PassTyped DEF IInv, TypeOK, Fits
<1>3. PICK pass : pass = [passes[p] EXCEPT !.status = status]
    OBVIOUS
<1>4. /\ pass \in Pass /\ pass.status = status /\ pass.used = passes[p].used
      /\ pass.max = passes[p].max
    BY <1>2, <1>3 DEF Pass
<1>5. passes' = [passes EXCEPT ![p] = pass]
    BY <1>1, <1>3 DEF SetPass
<1>6. /\ passes' \in [Passes -> Pass] /\ passes'[p] = pass
      /\ \A q \in Passes : q # p => passes'[q] = passes[q]
    BY <1>2, <1>4, <1>5
<1>7. \A q \in Passes : passes[q].used \in Nat
    BY PassTyped DEF IInv
<1>8. \A q \in Passes :
         IF passes[q].status = "NONE" THEN passes'[q] = passes[q]
         ELSE /\ passes'[q].status # "NONE" /\ passes'[q].max = passes[q].max
              /\ passes'[q].used >= passes[q].used
    BY <1>2, <1>4, <1>6, <1>7
<1>9. \A q \in Passes : passes'[q].used >= passes[q].used
    BY <1>2, <1>4, <1>6, <1>7
<1>10. h' \in [Guards -> Local]
    BY DEF IInv, TypeOK
<1>11. UNCHANGED <<visit, window, approved, given, recorded, ins, outs, scans, started>>
    BY DEF log
<1>12. TypeOK'
    BY <1>6, <1>10, <1>11 DEF IInv, TypeOK
<1>13. Charged'
    BY <1>9, <1>11, <1>12, ChargedQuiet
<1>14. started' \in 0..MaxRequests /\ window' \in [Passes -> {"early", "open", "past"}]
    BY <1>12 DEF TypeOK
<1>15. Grown /\ (Held' => IInv')
    BY <1>6, <1>8, <1>10, <1>13, <1>14, PassesKeep
<1>16. Fits(local, passes', approved', ins')
  <2>1. local.p # "none" => passes'[local.p].status # "NONE"
      BY <1>1, <1>4, <1>6
  <2>2. local.pc \notin Reading /\ local.pc \notin NeedsPass
        /\ local.pc \notin {"manualPass", "manualConsume"}
      BY DEF NeedsPass
  <2>3. local.pc \in OnTheWay => approved'
      BY <1>11
  <2> QED
      BY <2>1, <2>2, <2>3 DEF Fits
<1>17. Held'
    BY <1>12, <1>15, <1>16, HeldKept
<1> QED
    BY <1>15, <1>17

LEMMA StatusStepsKeep ==
    ASSUME IInv, NEW i \in Guards, RevokePass(i) \/ ExpirePass(i) \/ MarkUsed(i)
    PROVE  IInv'
<1>1. Fits(h[i], passes, approved, ins) /\ h[i].qr \in BOOLEAN
    BY LocalTyped DEF IInv, Held
<1>2. h[i].p \in Passes /\ h[i].p # "none"
    BY <1>1, VisitsAssumption DEF RevokePass, ExpirePass, MarkUsed, At, Fits, NeedsPass
<1>3. ASSUME NEW status \in {"REVOKED", "EXPIRED"}, SetPass(h[i].p, status), Finish(i),
             UNCHANGED <<visit, window, approved, given, log, started>>
      PROVE  IInv'
  <2>1. \A p \in Passes : ~Owes(Idle, p)
      BY IdleFits
  <2>2. h' = [h EXCEPT ![i] = Idle] /\ status \in PassStatus \ {"NONE"}
      BY <1>3 DEF Finish, PassStatus
  <2>3. Idle.pc \notin Reading \cup NeedsPass /\ Idle.pc \notin OnTheWay
        /\ Idle.pc \notin {"setInside", "leave", "setExited"}
      BY IdleTyped DEF Reading, NeedsPass, OnTheWay
  <2> QED
      BY <1>2, <1>3, <2>1, <2>2, <2>3, IdleTyped, SetPassKeeps
<1>4. CASE MarkUsed(i)
  <2>1. PICK local \in Local :
           /\ h' = [h EXCEPT ![i] = local] /\ local.pc = "enter"
           /\ local.p = h[i].p /\ local.qr = h[i].qr /\ local.snap = h[i].snap
      BY <1>4, Moved DEF MarkUsed, Steps
  <2>2. h[i].pc = "markUsed" /\ approved
      BY <1>1, <1>4 DEF MarkUsed, At, Fits, OnTheWay
  <2>3. \A p \in Passes : ~Owes(local, p) \/ Owes(h[i], p)
      BY <2>1, <2>2 DEF Owes
  <2>4. local.pc \notin Reading \cup NeedsPass
        /\ local.pc \notin {"setInside", "leave", "setExited"}
      BY <2>1 DEF Reading, NeedsPass
  <2>5. "USED" \in PassStatus \ {"NONE"}
      BY DEF PassStatus
  <2>6. SetPass(h[i].p, "USED") /\ UNCHANGED <<visit, window, approved, given, log, started>>
      BY <1>4 DEF MarkUsed, At
  <2> QED
      BY <1>2, <2>1, <2>2, <2>3, <2>4, <2>5, <2>6, SetPassKeeps
<1> QED
    BY <1>3, <1>4 DEF RevokePass, ExpirePass, At

(* The scheduler and the clock.                                            *)
LEMMA TimeKeeps ==
    ASSUME IInv, ExpireStalePasses \/ \E p \in Passes : Clock(p)
    PROVE  IInv'
<1>1. /\ UNCHANGED <<visit, approved, given, log, h, started>> /\ h \in [Guards -> Local]
      /\ passes \in [Passes -> Pass] /\ window \in [Passes -> {"early", "open", "past"}]
      /\ started \in 0..MaxRequests
    BY DEF ExpireStalePasses, Clock, IInv, TypeOK
<1>2. window' \in [Passes -> {"early", "open", "past"}]
  <2>1. CASE ExpireStalePasses
      BY <1>1, <2>1 DEF ExpireStalePasses
  <2>2. ASSUME NEW p \in Passes, Clock(p) PROVE window' \in [Passes -> {"early", "open", "past"}]
    <3>1. PICK w \in {"open", "past"} : window' = [window EXCEPT ![p] = w]
        BY <2>2 DEF Clock
    <3> QED
        BY <1>1, <3>1
  <2> QED
      BY <2>1, <2>2
<1>3. ASSUME NEW p \in Passes
      PROVE  /\ passes'[p] \in Pass /\ passes'[p].used = passes[p].used
             /\ passes'[p].max = passes[p].max
             /\ IF passes[p].status = "NONE" THEN passes'[p] = passes[p]
                ELSE passes'[p].status # "NONE"
  <2>1. passes[p] \in Pass
      BY <1>1
  <2>2. passes'[p] = passes[p] \/ (Stale(p) /\ passes'[p] = [passes[p] EXCEPT !.status = "EXPIRED"])
      BY DEF ExpireStalePasses, Clock
  <2>3. CASE passes'[p] = passes[p]
      BY <2>1, <2>3
  <2>4. CASE Stale(p) /\ passes'[p] = [passes[p] EXCEPT !.status = "EXPIRED"]
      BY <2>1, <2>4 DEF Stale, Pass, PassStatus
  <2> QED
      BY <2>2, <2>3, <2>4
<1>4. passes' \in [Passes -> Pass]
    BY <1>1, <1>3 DEF ExpireStalePasses, Clock
<1>5. \A p \in Passes : passes[p].used \in Nat
    BY PassTyped DEF IInv
<1>6. \A p \in Passes :
         IF passes[p].status = "NONE" THEN passes'[p] = passes[p]
         ELSE /\ passes'[p].status # "NONE" /\ passes'[p].max = passes[p].max
              /\ passes'[p].used >= passes[p].used
    BY <1>3, <1>5
<1>7. UNCHANGED <<scans, ins>>
    BY <1>1 DEF log
<1>8. \A p \in Passes : Owed(p)' = Owed(p)
    BY <1>1 DEF Owed
<1>9. Charged'
    BY <1>3, <1>7, <1>8 DEF IInv, Charged
<1>10. TypeOK' /\ Grown /\ (Held' => IInv')
    BY <1>1, <1>2, <1>4, <1>6, <1>9, PassesKeep
<1>11. Held'
    BY <1>1, <1>10, FitsGrown DEF Held
<1> QED
    BY <1>10, <1>11
-----------------------------------------------------------------------------
(* Issuing and handing out a pass.                                         *)

LEMMA IssueKeeps ==
    ASSUME IInv, NEW i \in Guards, NEW p \in Passes, NEW n \in Allowances,
           NEW w \in {"early", "open"},
           NEW step \in {"link", "helperLink"}, Issue(i, p, n, w),
           step = "link" => approved,
           h' = [h EXCEPT ![i].pc = step, ![i].p = p],
           UNCHANGED <<visit, approved, given, log, started>>
    PROVE  IInv'
<1>1. PICK pass : pass = [status |-> "ACTIVE", used |-> 0, max |-> n]
    OBVIOUS
<1>2. pass \in Pass /\ pass.status = "ACTIVE" /\ pass.used = 0
    BY <1>1, VisitsAssumption DEF Pass, PassStatus
<1>3. Unknown(p) /\ passes[p].used = 0
    BY NoPassTyped DEF IInv, Unissued, Issue, Unknown
<1>4. /\ passes' = [passes EXCEPT ![p] = pass] /\ window' = [window EXCEPT ![p] = w]
      /\ passes \in [Passes -> Pass] /\ window \in [Passes -> {"early", "open", "past"}]
    BY <1>1 DEF Issue, IInv, TypeOK
<1>5. /\ passes' \in [Passes -> Pass] /\ passes'[p] = pass
      /\ window' \in [Passes -> {"early", "open", "past"}]
      /\ \A q \in Passes : q # p => passes'[q] = passes[q]
    BY <1>2, <1>4
<1>6. PICK local : local = [h[i] EXCEPT !.pc = step, !.p = p]
    OBVIOUS
<1>7. local \in Local /\ local.pc = step /\ local.p = p /\ local.qr = h[i].qr
  <2>1. h[i] \in Local
      BY LocalTyped DEF IInv
  <2> QED
      BY <1>6, <2>1 DEF Local, Steps
<1>8. h' = [h EXCEPT ![i] = local]
    BY <1>6
<1>9. h' \in [Guards -> Local]
    BY <1>7, <1>8 DEF IInv, TypeOK
<1>10. UNCHANGED <<visit, approved, given, recorded, ins, outs, scans, started>>
    BY DEF log
<1>11. TypeOK'
    BY <1>5, <1>9, <1>10 DEF IInv, TypeOK
<1>12. \A q \in Passes : passes[q].used \in Nat
    BY PassTyped DEF IInv
<1>13. passes[p].status = "NONE" /\ ins \in Nat
    BY DEF Issue, IInv, TypeOK
<1>14. Grown
    BY <1>5, <1>10, <1>12, <1>13 DEF Grown
<1>15. Fits(local, passes', approved', ins')
  <2>1. passes'[local.p].status # "NONE"
      BY <1>2, <1>5, <1>7
  <2>2. step \in OnTheWay => approved'
      BY <1>10 DEF OnTheWay
  <2>3. step \notin Reading /\ step \notin {"manualPass", "manualConsume"}
        /\ step \notin {"setInside", "leave", "setExited"}
      BY DEF Reading
  <2> QED
      BY <1>7, <2>1, <2>2, <2>3 DEF Fits
<1>16. Held'
    BY <1>8, <1>11, <1>14, <1>15, HeldKept
<1>17. Charged'
  <2>1. \A q \in Passes : passes'[q].used >= passes[q].used
      BY <1>2, <1>3, <1>5, <1>12
  <2>2. \A q \in Passes : ~Owes(local, q)
      BY <1>7 DEF Owes
  <2> QED
      BY <1>8, <1>10, <1>11, <2>1, <2>2, ChargedQuiet
<1>18. Unissued'
  <2>1. ASSUME NEW q \in Passes, passes'[q].status = "NONE" PROVE Unknown(q)'
    <3>1. q # p
        BY <1>2, <1>5, <2>1
    <3>2. passes'[q] = passes[q] /\ Unknown(q)
        BY <1>5, <2>1, <3>1 DEF IInv, Unissued
    <3> QED
        BY <1>10, <3>2 DEF Unknown
  <2> QED
      BY <2>1 DEF Unissued
<1>19. Approvals' /\ CrossingsInOrder'
    BY <1>10 DEF IInv, Approvals, AdmittedWasApproved, CrossingsInOrder
<1> QED
    BY <1>11, <1>16, <1>17, <1>18, <1>19 DEF IInv

LEMMA IssuesKeep ==
    ASSUME IInv, NEW i \in Guards, NEW p \in Passes, NEW n \in Allowances,
           HelperIssue(i, p, n) \/ \E w \in {"early", "open"} : IssuePass(i, p, n, w)
    PROVE  IInv'
<1>1. CASE HelperIssue(i, p, n)
    BY <1>1, IssueKeeps DEF HelperIssue, At
<1>2. ASSUME NEW w \in {"early", "open"}, IssuePass(i, p, n, w) PROVE IInv'
  <2>1. approved
      BY <1>2 DEF IssuePass, At, IInv, Held, Fits, OnTheWay
  <2> QED
      BY <1>2, <2>1, IssueKeeps DEF IssuePass, At
<1> QED
    BY <1>1, <1>2

(* The visit is linked to a pass that was issued, and its token returned.  *)
LEMMA LinksKeep ==
    ASSUME IInv, NEW i \in Guards, LinkPass(i) \/ HelperLink(i)
    PROVE  IInv'
<1>1. /\ Fits(h[i], passes, approved, ins) /\ visit \in Visit
      /\ given \subseteq Passes /\ approved \in BOOLEAN
    BY DEF IInv, Held, TypeOK
<1>2. h[i].p \in Passes /\ h[i].p # "none" /\ passes[h[i].p].status # "NONE"
    BY <1>1, VisitsAssumption DEF LinkPass, HelperLink, At, Fits, NeedsPass
<1>3. /\ visit' \in Visit /\ visit'.pass = h[i].p /\ visit'.status \in {visit.status, "PRE_APPROVED"}
      /\ approved'
  <2>1. CASE LinkPass(i)
    <3>1. visit' = [visit EXCEPT !.pass = h[i].p]
        BY <2>1 DEF LinkPass
    <3>2. approved
        BY <1>1, <2>1 DEF LinkPass, At, Fits, OnTheWay
    <3> QED
        BY <1>1, <1>2, <2>1, <3>1, <3>2 DEF LinkPass, Visit
  <2>2. CASE HelperLink(i)
      BY <1>2, <2>2 DEF HelperLink, Visit, VisitStatus
  <2> QED
      BY <2>1, <2>2
<1>4. /\ h' = [h EXCEPT ![i] = Idle] /\ given' = given \cup {h[i].p} /\ approved' \in BOOLEAN
      /\ UNCHANGED <<passes, window, recorded, ins, outs, scans, started>>
    BY <1>1 DEF LinkPass, HelperLink, Finish, At, log
<1>5. h' \in [Guards -> Local]
    BY <1>4, IdleTyped DEF IInv, TypeOK
<1>6. TypeOK'
    BY <1>1, <1>2, <1>3, <1>4, <1>5 DEF IInv, TypeOK
<1>7. ins \in Nat /\ \A p \in Passes : passes[p].used \in Nat
    BY PassTyped DEF IInv, TypeOK
<1>8. Grown
    BY <1>3, <1>4, <1>7 DEF Grown
<1>9. Held'
    BY <1>4, <1>6, <1>8, IdleFits, HeldKept
<1>10. Charged'
  <2>1. \A p \in Passes : passes'[p].used >= passes[p].used
      BY <1>4, <1>7
  <2> QED
      BY <1>4, <1>6, <2>1, IdleFits, ChargedQuiet
<1>11. Unissued'
  <2>1. ASSUME NEW p \in Passes, passes'[p].status = "NONE" PROVE Unknown(p)'
    <3>1. passes'[p] = passes[p] /\ p # h[i].p /\ Unknown(p)
        BY <1>2, <1>4, <2>1 DEF IInv, Unissued
    <3> QED
        BY <1>3, <1>4, <3>1 DEF Unknown
  <2> QED
      BY <2>1 DEF Unissued
<1>12. Approvals' /\ CrossingsInOrder'
    BY <1>3, <1>4 DEF IInv, Approvals, AdmittedWasApproved, CrossingsInOrder
<1> QED
    BY <1>6, <1>9, <1>10, <1>11, <1>12 DEF IInv

-----------------------------------------------------------------------------
(* Charging a pass.                                                        *)

(* One entry more is charged to the pass that the request holds; it owes   *)
(* no more than that entry.                                                *)
LEMMA ChargeKeeps ==
    ASSUME IInv, NEW i \in Guards, h[i].p \in Passes, ~Owes(h[i], h[i].p),
           UNCHANGED <<visit, window, approved, given, log, started>>,
           NEW pass \in Pass, pass.used = passes[h[i].p].used + 1,
           pass.max = passes[h[i].p].max, pass.status # "NONE",
           passes' = [passes EXCEPT ![h[i].p] = pass],
           NEW step \in {"markUsed", "enter"}, Goto(i, step), approved
    PROVE  IInv' /\ Grown
<1>1. PICK p : p = h[i].p
    OBVIOUS
<1>2. /\ p \in Passes /\ passes \in [Passes -> Pass] /\ passes[p].used \in Nat
      /\ passes[p].status # "NONE" /\ p # "none"
  <2>1. Fits(h[i], passes, approved, ins) /\ p # "none"
      BY <1>1, VisitsAssumption DEF IInv, Held
  <2> QED
      BY <1>1, <2>1, PassTyped DEF IInv, TypeOK, Fits
<1>3. /\ passes' \in [Passes -> Pass] /\ passes'[p] = pass
      /\ \A q \in Passes : q # p => passes'[q] = passes[q]
    BY <1>1, <1>2
<1>4. \A q \in Passes : passes[q].used \in Nat
    BY PassTyped DEF IInv
<1>5. \A q \in Passes :
         IF passes[q].status = "NONE" THEN passes'[q] = passes[q]
         ELSE /\ passes'[q].status # "NONE" /\ passes'[q].max = passes[q].max
              /\ passes'[q].used >= passes[q].used
    BY <1>1, <1>2, <1>3, <1>4
<1>6. PICK local \in Local :
         /\ h' = [h EXCEPT ![i] = local] /\ local.pc = step
         /\ local.p = h[i].p /\ local.qr = h[i].qr /\ local.snap = h[i].snap
    BY Moved DEF Steps
<1>7. h' \in [Guards -> Local]
    BY <1>6 DEF IInv, TypeOK
<1>8. UNCHANGED <<visit, window, approved, given, recorded, ins, outs, scans, started>>
    BY DEF log
<1>9. TypeOK'
    BY <1>3, <1>7, <1>8 DEF IInv, TypeOK
<1>10. Charged'
  <2>1. ASSUME NEW q \in Passes PROVE scans'[q] + Cardinality(Owed(q)') <= passes'[q].used
    <3>1. /\ scans[q] + Cardinality(Owed(q)) <= passes[q].used /\ scans'[q] = scans[q]
          /\ scans[q] \in Nat /\ passes[q].used \in Nat
        BY <1>4, <1>8 DEF IInv, Charged, TypeOK
    <3>2. /\ Cardinality(Owed(q)) \in Nat /\ Cardinality(Owed(q)') \in Nat
          /\ IsFiniteSet(Owed(q)) /\ IsFiniteSet(Owed(q)')
        BY OwedFinite
    <3>3. CASE q = p
      <4>1. i \notin Owed(p)
          BY <1>1 DEF Owed
      <4>2. Owed(p)' \subseteq Owed(p) \cup {i}
          BY <1>6, OwedByOthers
      <4>3. IsFiniteSet(Owed(p) \cup {i})
            /\ Cardinality(Owed(p) \cup {i}) = Cardinality(Owed(p)) + 1
          BY <3>2, <3>3, <4>1, FS_AddElement
      <4>4. Cardinality(Owed(p)') <= Cardinality(Owed(p)) + 1
          BY <4>2, <4>3, FS_Subset
      <4>5. passes'[p].used = passes[p].used + 1
          BY <1>1, <1>3
      <4> QED
          BY <3>1, <3>2, <3>3, <4>4, <4>5
    <3>4. CASE q # p
      <4>1. ~Owes(local, q)
          BY <1>1, <1>6, <3>4 DEF Owes
      <4>2. Owed(q)' \subseteq Owed(q)
          BY <1>6, <4>1, OwedByOthers
      <4>3. Cardinality(Owed(q)') <= Cardinality(Owed(q))
          BY <3>2, <4>2, FS_Subset
      <4> QED
          BY <1>3, <3>1, <3>2, <3>4, <4>3
    <3> QED
        BY <3>3, <3>4
  <2> QED
      BY <2>1 DEF Charged
<1>11. started' \in 0..MaxRequests /\ window' \in [Passes -> {"early", "open", "past"}]
    BY <1>9 DEF TypeOK
<1>12. Grown /\ (Held' => IInv')
    BY <1>3, <1>5, <1>7, <1>10, <1>11, PassesKeep
<1>13. Fits(local, passes', approved', ins')
  <2>1. passes'[local.p].status # "NONE" /\ local.p \in Passes /\ approved'
      BY <1>1, <1>2, <1>3, <1>6, <1>8
  <2>2. step \notin Reading /\ step \notin {"manualPass", "manualConsume"}
        /\ step \notin {"setInside", "leave", "setExited"}
      BY DEF Reading
  <2> QED
      BY <1>6, <2>1, <2>2 DEF Fits
<1>14. Held'
    BY <1>6, <1>9, <1>12, <1>13, HeldKept
<1> QED
    BY <1>12, <1>14
(* The pass a request found consumable, and what charging it makes of it.  *)
LEMMA Chargeable ==
    ASSUME IInv, NEW i \in Guards, h[i].pc \in {"consume", "manualConsume"}, Consumable(i)
    PROVE  /\ h[i].p \in Passes /\ passes[h[i].p] \in Pass
           /\ passes[h[i].p].status = "ACTIVE" /\ passes[h[i].p].used < passes[h[i].p].max
           /\ h[i].snap.max = passes[h[i].p].max
           /\ h[i].snap.used <= passes[h[i].p].used
           /\ approved /\ ~Owes(h[i], h[i].p)
<1>1. Fits(h[i], passes, approved, ins)
    BY DEF IInv, Held
<1>2. h[i].p \in Passes
    BY <1>1 DEF Fits, NeedsPass
<1>3. passes[h[i].p] \in Pass
    BY <1>2, PassTyped DEF IInv
<1>4. h[i].snap.max = passes[h[i].p].max /\ h[i].snap.used <= passes[h[i].p].used
    BY <1>1 DEF Fits, Reading
<1>5. approved /\ ~Owes(h[i], h[i].p)
    BY <1>1 DEF Fits, OnTheWay, Owes
<1> QED
    BY <1>2, <1>3, <1>4, <1>5 DEF Consumable

(* Charging is the turnstile's admission.                                  *)
LEMMA ConsumeCharges ==
    ASSUME IInv, NEW i \in Guards, Consume(i)
    PROVE  /\ IInv' /\ Grown
           /\ \E pass \in Pass :
                 /\ passes' = [passes EXCEPT ![h[i].p] = pass]
                 /\ pass.used = passes[h[i].p].used + 1 /\ pass.max = passes[h[i].p].max
                 /\ pass.status = "ACTIVE"
<1>1. h[i].pc = "consume" /\ Consumable(i) /\ UNCHANGED <<visit, window, approved, given, log, started>>
    BY DEF Consume, At
<1>2. PICK pass : pass = [passes[h[i].p] EXCEPT !.used = @ + 1]
    OBVIOUS
<1>3. /\ pass \in Pass /\ pass.status = "ACTIVE"
      /\ pass.used = passes[h[i].p].used + 1 /\ pass.max = passes[h[i].p].max
    BY <1>1, <1>2, Chargeable DEF Pass
<1>4. passes' = [passes EXCEPT ![h[i].p] = pass]
    BY <1>2 DEF Consume
<1>5. PICK step \in {"markUsed", "enter"} : Goto(i, step)
    BY DEF Consume
<1>6. IInv' /\ Grown
    BY <1>1, <1>3, <1>4, <1>5, Chargeable, ChargeKeeps
<1> QED
    BY <1>3, <1>4, <1>6

(* By hand the entry that uses the pass up marks it in the same update.    *)
LEMMA ManualConsumeCharges ==
    ASSUME IInv, NEW i \in Guards, ManualConsume(i), Consumable(i)
    PROVE  /\ IInv' /\ Grown
           /\ \E pass \in Pass :
                 /\ passes' = [passes EXCEPT ![h[i].p] = pass]
                 /\ pass.used = passes[h[i].p].used + 1 /\ pass.max = passes[h[i].p].max
                 /\ \/ pass.status = "ACTIVE"
                    \/ pass.status = "USED" /\ pass.used = pass.max
<1>1. h[i].pc = "manualConsume" /\ UNCHANGED <<visit, window, approved, given, log, started>>
    BY DEF ManualConsume, At
<1>2. PICK status : status = IF LastEntry(i) THEN "USED" ELSE passes[h[i].p].status
    OBVIOUS
<1>3. PICK pass : pass = [passes[h[i].p] EXCEPT !.used = @ + 1, !.status = status]
    OBVIOUS
<1>4. status \in {"ACTIVE", "USED"} /\ status \in PassStatus
    BY <1>1, <1>2, Chargeable DEF PassStatus
<1>5. /\ pass \in Pass /\ pass.status = status
      /\ pass.used = passes[h[i].p].used + 1 /\ pass.max = passes[h[i].p].max
  <2>1. /\ passes[h[i].p] \in Pass /\ passes[h[i].p].used + 1 \in Nat
        /\ passes[h[i].p].max \in Nat
      BY <1>1, Chargeable, PassTyped DEF IInv
  <2>2. PICK old, charged : old = passes[h[i].p] /\ charged = passes[h[i].p].used + 1
      OBVIOUS
  <2>3. pass = [old EXCEPT !.used = charged, !.status = status]
      BY <1>3, <2>2
  <2>4. pass \in Pass /\ pass.status = status /\ pass.used = charged /\ pass.max = old.max
      BY <1>4, <2>1, <2>2, <2>3 DEF Pass
  <2> QED
      BY <2>2, <2>4
<1>6. passes' = [passes EXCEPT ![h[i].p] = pass]
  <2>1. passes' = [passes EXCEPT ![h[i].p].used = @ + 1,
                                 ![h[i].p].status = IF LastEntry(i) THEN "USED" ELSE @]
      BY DEF ManualConsume
  <2>2. h[i].p \in Passes /\ passes \in [Passes -> Pass]
      BY <1>1, Chargeable DEF IInv, TypeOK
  <2> QED
      BY <1>2, <1>3, <2>1, <2>2
<1>7. IInv' /\ Grown
  <2>1. Goto(i, "enter") /\ pass.status # "NONE"
      BY <1>4, <1>5 DEF ManualConsume
  <2> QED
      BY <1>1, <1>5, <1>6, <2>1, Chargeable, ChargeKeeps
<1>8. status = "USED" => pass.used = pass.max
  <2>1. ASSUME status = "USED" PROVE pass.used = pass.max
    <3>1. LastEntry(i)
        BY <1>1, <1>2, <2>1, Chargeable
    <3>2. h[i].snap.used + 1 >= h[i].snap.max
        BY <3>1 DEF LastEntry
    <3>3. passes[h[i].p].used \in Nat /\ passes[h[i].p].max \in Nat /\ h[i].snap.used \in Nat
        BY <1>1, Chargeable, PassTyped, LocalTyped DEF IInv
    <3> QED
        BY <1>1, <1>5, <3>2, <3>3, Chargeable
  <2> QED
      BY <2>1
<1> QED
    BY <1>4, <1>5, <1>6, <1>7, <1>8

LEMMA ManualConsumeKeeps ==
    ASSUME IInv, NEW i \in Guards, ManualConsume(i)
    PROVE  IInv'
<1>1. CASE Consumable(i)
    BY <1>1, ManualConsumeCharges
<1>2. CASE ~Consumable(i)
  <2>1. UNCHANGED <<visit, passes, window, approved, given, log>> /\ Goto(i, "enter")
        /\ started' \in 0..MaxRequests /\ h[i].pc = "manualConsume"
      BY <1>2 DEF ManualConsume, At, IInv, TypeOK
  <2>2. PICK local \in Local :
           /\ h' = [h EXCEPT ![i] = local] /\ local.pc = "enter"
           /\ local.p = h[i].p /\ local.qr = h[i].qr /\ local.snap = h[i].snap
      BY <2>1, Moved DEF Steps
  <2>3. Fits(h[i], passes, approved, ins)
      BY DEF IInv, Held
  <2>4. Fits(local, passes, approved, ins) /\ \A p \in Passes : ~Owes(local, p)
      BY <2>1, <2>2, <2>3 DEF Fits, Owes, NeedsPass, OnTheWay, Reading
  <2> QED
      BY <2>1, <2>2, <2>4, ReadKeeps
<1> QED
    BY <1>1, <1>2

-----------------------------------------------------------------------------
(* The log.                                                                *)

LEMMA EnterKeeps ==
    ASSUME IInv, NEW i \in Guards, Enter(i)
    PROVE  IInv'
<1>1. /\ Fits(h[i], passes, approved, ins) /\ h[i].pc = "enter" /\ approved
      /\ h[i].r \in RequestIds \cup {"none"} /\ h[i].qr \in BOOLEAN
  <2>1. Fits(h[i], passes, approved, ins) /\ h[i].pc = "enter"
      BY DEF IInv, Held, Enter, At
  <2> QED
      BY <2>1, LocalTyped DEF IInv, Fits, OnTheWay
<1>2. /\ ins' = ins + 1 /\ Goto(i, "setInside")
      /\ recorded' = recorded \cup ({h[i].r} \ {"none"})
      /\ UNCHANGED <<visit, passes, window, approved, given, outs, started>>
    BY DEF Enter, Record, At
<1>3. /\ ins \in Nat /\ recorded \subseteq RequestIds /\ scans \in [Passes -> Nat]
      /\ \A p \in Passes : passes[p].used \in Nat
    BY PassTyped DEF IInv, TypeOK
<1>4. /\ scans' \in [Passes -> Nat]
      /\ \A p \in Passes : scans'[p] = IF Owes(h[i], p) THEN scans[p] + 1 ELSE scans[p]
  <2>1. CASE h[i].qr
    <3>1. h[i].p \in Passes /\ scans' = [scans EXCEPT ![h[i].p] = @ + 1]
        BY <1>1, <2>1 DEF Fits, Enter
    <3>2. \A p \in Passes : Owes(h[i], p) <=> p = h[i].p
        BY <1>1, <2>1 DEF Owes
    <3> QED
        BY <1>3, <3>1, <3>2
  <2>2. CASE ~h[i].qr
    <3>1. scans' = scans /\ \A p \in Passes : ~Owes(h[i], p)
        BY <2>2 DEF Owes, Enter
    <3> QED
        BY <1>3, <3>1
  <2> QED
      BY <2>1, <2>2
<1>5. PICK local \in Local :
         /\ h' = [h EXCEPT ![i] = local] /\ local.pc = "setInside"
         /\ local.p = h[i].p /\ local.qr = h[i].qr /\ local.snap = h[i].snap
    BY <1>2, Moved DEF Steps
<1>6. h' \in [Guards -> Local]
    BY <1>5 DEF IInv, TypeOK
<1>7. recorded' \subseteq RequestIds /\ ins' \in Nat /\ ins' > 0
    BY <1>1, <1>2, <1>3
<1>8. TypeOK'
    BY <1>2, <1>4, <1>6, <1>7 DEF IInv, TypeOK
<1>9. Grown
    BY <1>2, <1>3 DEF Grown
<1>10. Fits(local, passes', approved', ins')
    BY <1>1, <1>2, <1>5, <1>7 DEF Fits, NeedsPass, OnTheWay, Reading
<1>11. Held'
    BY <1>5, <1>8, <1>9, <1>10, HeldKept
<1>12. Charged'
  <2>1. ASSUME NEW p \in Passes PROVE scans'[p] + Cardinality(Owed(p)') <= passes'[p].used
    <3>1. /\ scans[p] + Cardinality(Owed(p)) <= passes[p].used /\ passes'[p] = passes[p]
          /\ scans[p] \in Nat /\ passes[p].used \in Nat
        BY <1>2, <1>3 DEF IInv, Charged
    <3>2. /\ Cardinality(Owed(p)) \in Nat /\ Cardinality(Owed(p)') \in Nat
          /\ IsFiniteSet(Owed(p)) /\ IsFiniteSet(Owed(p)')
        BY OwedFinite
    <3>3. ~Owes(local, p)
        BY <1>5 DEF Owes
    <3>4. Owed(p)' \subseteq Owed(p) \ {i}
        BY <1>5, <3>3, OwedByOthers
    <3>5. CASE Owes(h[i], p)
      <4>1. i \in Owed(p) /\ scans'[p] = scans[p] + 1
          BY <1>4, <3>5 DEF Owed
      <4>2. IsFiniteSet(Owed(p) \ {i})
            /\ Cardinality(Owed(p) \ {i}) = Cardinality(Owed(p)) - 1
          BY <3>2, <4>1, FS_RemoveElement
      <4>3. Cardinality(Owed(p)') <= Cardinality(Owed(p)) - 1
          BY <3>4, <4>2, FS_Subset
      <4> QED
          BY <3>1, <3>2, <4>1, <4>3
    <3>6. CASE ~Owes(h[i], p)
      <4>1. scans'[p] = scans[p] /\ Owed(p)' \subseteq Owed(p)
          BY <1>4, <3>4, <3>6
      <4>2. Cardinality(Owed(p)') <= Cardinality(Owed(p))
          BY <3>2, <4>1, FS_Subset
      <4> QED
          BY <3>1, <3>2, <4>1, <4>2
    <3> QED
        BY <3>5, <3>6
  <2> QED
      BY <2>1 DEF Charged
<1>13. Unissued'
  <2>1. ASSUME NEW p \in Passes, passes'[p].status = "NONE" PROVE Unknown(p)'
    <3>1. Unknown(p) /\ passes[p].status = "NONE"
        BY <1>2, <2>1 DEF IInv, Unissued
    <3>2. h[i].p # p
        BY <1>1, <3>1, VisitsAssumption DEF Fits
    <3>3. scans'[p] = scans[p]
        BY <1>4, <3>2 DEF Owes
    <3> QED
        BY <1>2, <3>1, <3>3 DEF Unknown
  <2> QED
      BY <2>1 DEF Unissued
<1>14. Approvals' /\ CrossingsInOrder'
    BY <1>1, <1>2, <1>7 DEF IInv, Approvals, AdmittedWasApproved, CrossingsInOrder
<1> QED
    BY <1>8, <1>11, <1>12, <1>13, <1>14 DEF IInv

LEMMA LeaveKeeps ==
    ASSUME IInv, NEW i \in Guards, Leave(i)
    PROVE  IInv'
<1>1. /\ Fits(h[i], passes, approved, ins) /\ h[i].pc = "leave"
      /\ h[i].r \in RequestIds \cup {"none"}
    BY LocalTyped DEF IInv, Held, Leave, At
<1>2. ins > 0
    BY <1>1 DEF Fits
<1>3. UNCHANGED <<visit, passes, window, approved, ins, given, scans, started>>
    BY DEF Leave, At
<1>4. CASE Finish(i) /\ UNCHANGED <<outs, recorded>>
    BY <1>3, <1>4, FinishKeeps DEF log
<1>5. CASE Goto(i, "setExited") /\ outs' = outs + 1 /\ Record(i)
  <2>1. PICK local \in Local :
           /\ h' = [h EXCEPT ![i] = local] /\ local.pc = "setExited"
           /\ local.p = h[i].p /\ local.qr = h[i].qr /\ local.snap = h[i].snap
      BY <1>5, Moved DEF Steps
  <2>2. h' \in [Guards -> Local]
      BY <2>1 DEF IInv, TypeOK
  <2>3. recorded' \subseteq RequestIds /\ outs' \in Nat
      BY <1>1, <1>5 DEF Record, IInv, TypeOK
  <2>4. TypeOK'
      BY <1>3, <2>2, <2>3 DEF IInv, TypeOK
  <2>5. ins \in Nat /\ \A p \in Passes : passes[p].used \in Nat
      BY PassTyped DEF IInv, TypeOK
  <2>6. Grown
      BY <1>3, <2>5 DEF Grown
  <2>7. Fits(local, passes', approved', ins')
      BY <1>1, <1>2, <1>3, <2>1 DEF Fits, NeedsPass, OnTheWay, Reading
  <2>8. Held'
      BY <2>1, <2>4, <2>6, <2>7, HeldKept
  <2>9. Charged'
    <3>1. \A p \in Passes : passes'[p].used >= passes[p].used
        BY <1>3, <2>5
    <3>2. \A p \in Passes : ~Owes(local, p)
        BY <2>1 DEF Owes
    <3> QED
        BY <1>3, <2>1, <2>4, <3>1, <3>2, ChargedQuiet
  <2>10. Unissued' /\ Approvals' /\ CrossingsInOrder'
      BY <1>2, <1>3 DEF IInv, Unissued, Unknown, Approvals, AdmittedWasApproved, CrossingsInOrder
  <2> QED
      BY <2>4, <2>8, <2>9, <2>10 DEF IInv
<1> QED
    BY <1>4, <1>5 DEF Leave

-----------------------------------------------------------------------------
(* The invariant.                                                          *)

LEMMA InvInit == Init => IInv
<1> SUFFICES ASSUME Init PROVE IInv
    OBVIOUS
<1>1. visit \in Visit /\ visit.status = "NONE" /\ visit.pass = "none"
    BY DEF Init, Visit, VisitStatus
<1>2. passes \in [Passes -> Pass] /\ \A p \in Passes : passes[p] = NoPass
    BY NoPassTyped DEF Init
<1>3. h \in [Guards -> Local] /\ \A i \in Guards : h[i] = Idle
    BY IdleTyped DEF Init
<1>4. started \in 0..MaxRequests
    BY VisitsAssumption DEF Init
<1>5. TypeOK
    BY <1>1, <1>2, <1>3, <1>4 DEF Init, TypeOK
<1>6. Held
    BY <1>3, IdleFits DEF Held
<1>7. Unissued
    BY <1>1, <1>2, VisitsAssumption DEF Init, Unissued, Unknown
<1>8. Approvals /\ CrossingsInOrder
    BY <1>1 DEF Init, Approvals, AdmittedWasApproved, CrossingsInOrder, Admissible
<1>9. Charged
  <2>1. ASSUME NEW p \in Passes PROVE scans[p] + Cardinality(Owed(p)) <= passes[p].used
    <3>1. Owed(p) = {}
        BY <1>3, IdleFits DEF Owed
    <3>2. Cardinality(Owed(p)) = 0
        BY <3>1, FS_EmptySet
    <3> QED
        BY <1>2, <3>2, NoPassTyped DEF Init
  <2> QED
      BY <2>1 DEF Charged
<1> QED
    BY <1>5, <1>6, <1>7, <1>8, <1>9 DEF IInv

LEMMA ContinueKeeps ==
    ASSUME IInv, NEW i \in Guards, Continue(i)
    PROVE  IInv'
    BY IssuesKeep, LinksKeep, VisitStepsKeep, StatusStepsKeep, ReadStepsKeep, ConsumeCharges,
       ManualConsumeKeeps, EnterKeeps, LeaveKeeps DEF Continue

LEMMA InvNext == IInv /\ [Next]_vars => IInv'
<1> SUFFICES ASSUME IInv, [Next]_vars PROVE IInv'
    OBVIOUS
<1>1. ASSUME NEW i \in Guards, Abort(i) PROVE IInv'
    BY <1>1, FinishKeeps DEF Abort
<1>2. CASE Next
    BY <1>1, <1>2, RequestKeeps, ContinueKeeps, TimeKeeps DEF Next
<1>3. CASE UNCHANGED vars
  <2>1. UNCHANGED <<visit, passes, given, window, recorded, ins, outs, h, started, approved, scans>>
      BY <1>3 DEF vars
  <2>2. \A p \in Passes : Owed(p)' = Owed(p)
      BY <2>1 DEF Owed
  <2>3. TypeOK' /\ Held' /\ Unissued' /\ Approvals' /\ CrossingsInOrder'
      BY <2>1 DEF IInv, TypeOK, Held, Unissued, Unknown, Approvals, AdmittedWasApproved,
                  CrossingsInOrder
  <2>4. Charged'
      BY <2>1, <2>2 DEF IInv, Charged
  <2> QED
      BY <2>3, <2>4 DEF IInv
<1> QED
    BY <1>2, <1>3

LEMMA InvAlways == Spec => []IInv
    BY InvInit, InvNext, PTL DEF Spec
-----------------------------------------------------------------------------
(* A pass is the turnstile.                                                *)

LEMMA InitMaps == Init => Gate!Init
<1> SUFFICES ASSUME Init PROVE Gate!Init
    OBVIOUS
<1>1. \A p \in Passes : passes[p].status = "NONE" /\ passes[p].used = 0 /\ passes[p].max = 0
    BY NoPassTyped DEF Init
<1> QED
    BY <1>1 DEF Gate!Init

(* A step that charges nothing at most kills passes.                       *)
LEMMA QuietMaps ==
    ASSUME \A p \in Passes : /\ passes'[p].used = passes[p].used
                             /\ passes'[p].max = passes[p].max
                             /\ passes'[p].status = "ACTIVE" => passes[p].status = "ACTIVE"
    PROVE  Gate!Kill
    BY DEF Gate!Kill

LEMMA SetPassMaps ==
    ASSUME TypeOK, NEW p, NEW status \in {"USED", "EXPIRED", "REVOKED"}, SetPass(p, status)
    PROVE  Gate!Kill
<1>1. passes \in [Passes -> Pass]
    BY DEF TypeOK
<1>2. ASSUME NEW q \in Passes
      PROVE  /\ passes'[q].used = passes[q].used /\ passes'[q].max = passes[q].max
             /\ passes'[q].status = "ACTIVE" => passes[q].status = "ACTIVE"
  <2>1. passes[q] \in Pass
      BY <1>1
  <2>2. passes'[q] = IF q = p THEN [passes[q] EXCEPT !.status = status] ELSE passes[q]
      BY <1>1 DEF SetPass
  <2>3. CASE q = p
      BY <2>1, <2>2, <2>3 DEF Pass
  <2>4. CASE q # p
      BY <2>2, <2>4
  <2> QED
      BY <2>3, <2>4
<1> QED
    BY <1>2, QuietMaps

LEMMA IssueMaps ==
    ASSUME IInv, NEW i \in Guards, NEW p \in Passes, NEW n \in Allowances, NEW w, Issue(i, p, n, w)
    PROVE  Gate!Issue(p)
<1>1. PICK pass : pass = [status |-> "ACTIVE", used |-> 0, max |-> n]
    OBVIOUS
<1>2. passes \in [Passes -> Pass] /\ passes' = [passes EXCEPT ![p] = pass]
    BY <1>1 DEF IInv, TypeOK, Issue
<1>3. passes[p].status = "NONE" /\ passes[p].used = 0 /\ passes[p].max = 0
    BY NoPassTyped DEF IInv, Unissued, Unknown, Issue
<1>4. n \in Nat \ {0}
    BY VisitsAssumption
<1>5. /\ passes'[p].status = "ACTIVE" /\ passes'[p].used = 0 /\ passes'[p].max = n
      /\ \A q \in Passes : q # p => passes'[q] = passes[q]
    BY <1>1, <1>2
<1>6. [q \in Passes |-> passes'[q].used] = [q \in Passes |-> passes[q].used]
    BY <1>3, <1>5
<1>7. [q \in Passes |-> passes'[q].max] = [[q \in Passes |-> passes[q].max] EXCEPT ![p] = n]
    BY <1>5
<1>8. {q \in Passes : passes'[q].status = "ACTIVE"}
        = {q \in Passes : passes[q].status = "ACTIVE"} \cup {p}
    BY <1>5
<1> QED
    BY <1>3, <1>4, <1>5, <1>6, <1>7, <1>8 DEF Gate!Issue

LEMMA ChargeMaps ==
    ASSUME IInv, NEW p \in Passes, NEW pass \in Pass, passes' = [passes EXCEPT ![p] = pass],
           passes[p].status = "ACTIVE", passes[p].used < passes[p].max,
           pass.used = passes[p].used + 1, pass.max = passes[p].max,
           pass.status = "ACTIVE" \/ (pass.status = "USED" /\ pass.used = pass.max)
    PROVE  Gate!Admit(p)
<1>1. passes \in [Passes -> Pass]
    BY DEF IInv, TypeOK
<1>2. passes'[p] = pass /\ \A q \in Passes : q # p => passes'[q] = passes[q]
    BY <1>1
<1>3. [q \in Passes |-> passes'[q].used] = [[q \in Passes |-> passes[q].used] EXCEPT ![p] = @ + 1]
  <2>1. ASSUME NEW q \in Passes
        PROVE  passes'[q].used = IF q = p THEN passes[p].used + 1 ELSE passes[q].used
      BY <1>2
  <2>2. PICK count : count = [q \in Passes |-> passes[q].used]
      OBVIOUS
  <2>3. [q \in Passes |-> passes'[q].used] = [count EXCEPT ![p] = passes[p].used + 1]
      BY <2>1, <2>2
  <2>4. count[p] = passes[p].used
      BY <2>2
  <2> QED
      BY <2>2, <2>3, <2>4
<1>4. [q \in Passes |-> passes'[q].max] = [q \in Passes |-> passes[q].max]
    BY <1>2
<1>5. \/ {q \in Passes : passes'[q].status = "ACTIVE"} = {q \in Passes : passes[q].status = "ACTIVE"}
      \/ /\ passes'[p].used = passes[p].max
         /\ {q \in Passes : passes'[q].status = "ACTIVE"}
              = {q \in Passes : passes[q].status = "ACTIVE"} \ {p}
  <2>1. CASE pass.status = "ACTIVE"
      BY <1>2, <2>1
  <2>2. CASE pass.status = "USED" /\ pass.used = pass.max
      BY <1>2, <2>2
  <2> QED
      BY <2>1, <2>2
<1> QED
    BY <1>2, <1>3, <1>4, <1>5 DEF Gate!Admit

LEMMA StepMaps == IInv /\ [Next]_vars => [Gate!Next]_Gate!vars
<1> SUFFICES ASSUME IInv, [Next]_vars PROVE Gate!Next \/ UNCHANGED Gate!vars
    OBVIOUS
<1>1. CASE UNCHANGED passes
  <2>1. Gate!Kill
      BY <1>1, QuietMaps
  <2> QED
      BY <2>1 DEF Gate!Next
<1>2. ASSUME NEW i \in Guards, NEW p \in Passes, NEW n \in Allowances, NEW w, Issue(i, p, n, w)
      PROVE  Gate!Next
    BY <1>2, IssueMaps DEF Gate!Next
<1>3. ASSUME NEW i \in Guards, RevokePass(i) \/ ExpirePass(i) \/ MarkUsed(i) PROVE Gate!Next
    BY <1>3, SetPassMaps DEF RevokePass, ExpirePass, MarkUsed, Gate!Next, IInv
<1>4. ASSUME NEW i \in Guards, Consume(i) PROVE Gate!Next
  <2>1. PICK pass \in Pass :
           /\ passes' = [passes EXCEPT ![h[i].p] = pass]
           /\ pass.used = passes[h[i].p].used + 1 /\ pass.max = passes[h[i].p].max
           /\ pass.status = "ACTIVE"
      BY <1>4, ConsumeCharges
  <2>2. h[i].pc = "consume" /\ Consumable(i)
      BY <1>4 DEF Consume, At
  <2>3. PICK p : p = h[i].p
      OBVIOUS
  <2>4. p \in Passes /\ Gate!Admit(p)
      BY <2>1, <2>2, <2>3, Chargeable, ChargeMaps
  <2> QED
      BY <2>4 DEF Gate!Next
<1>5. ASSUME NEW i \in Guards, ManualConsume(i), Consumable(i) PROVE Gate!Next
  <2>1. PICK pass \in Pass :
           /\ passes' = [passes EXCEPT ![h[i].p] = pass]
           /\ pass.used = passes[h[i].p].used + 1 /\ pass.max = passes[h[i].p].max
           /\ pass.status = "ACTIVE" \/ (pass.status = "USED" /\ pass.used = pass.max)
      BY <1>5, ManualConsumeCharges
  <2>2. h[i].pc = "manualConsume"
      BY <1>5 DEF ManualConsume, At
  <2>3. PICK p : p = h[i].p
      OBVIOUS
  <2>4. p \in Passes /\ Gate!Admit(p)
      BY <1>5, <2>1, <2>2, <2>3, Chargeable, ChargeMaps
  <2> QED
      BY <2>4 DEF Gate!Next
<1>6. CASE ExpireStalePasses
  <2>1. ASSUME NEW p \in Passes
        PROVE  /\ passes'[p].used = passes[p].used /\ passes'[p].max = passes[p].max
               /\ passes'[p].status = "ACTIVE" => passes[p].status = "ACTIVE"
    <3>1. passes[p] \in Pass
        BY PassTyped DEF IInv
    <3>2. passes'[p] = passes[p] \/ passes'[p] = [passes[p] EXCEPT !.status = "EXPIRED"]
        BY <1>6 DEF ExpireStalePasses
    <3>3. CASE passes'[p] = passes[p]
        BY <3>3
    <3>4. CASE passes'[p] = [passes[p] EXCEPT !.status = "EXPIRED"]
        BY <3>1, <3>4 DEF Pass
    <3> QED
        BY <3>2, <3>3, <3>4
  <2> QED
      BY <2>1, QuietMaps DEF Gate!Next
<1>7. ASSUME NEW i \in Guards, Continue(i) PROVE Gate!Next \/ UNCHANGED passes
  <2>1. ASSUME NEW p \in Passes, NEW n \in Allowances,
               HelperIssue(i, p, n) \/ \E w \in {"early", "open"} : IssuePass(i, p, n, w)
        PROVE  Gate!Next
      BY <1>2, <2>1 DEF HelperIssue, IssuePass
  <2>2. CASE \/ LinkPass(i) \/ HelperLink(i) \/ CancelWrite(i) \/ AutoExpire(i) \/ ScanCheck(i)
             \/ ConsumeLost(i) \/ ManualPass(i) \/ Refused(i) \/ Enter(i) \/ SetInside(i)
             \/ Leave(i) \/ SetExited(i) \/ \E status \in VisitStatus : DecideWrite(i, status)
      BY <2>2 DEF LinkPass, HelperLink, DecideWrite, CancelWrite, AutoExpire, ScanCheck,
                  ConsumeLost, ManualPass, Refused, Enter, SetInside, Leave, SetExited
  <2>3. CASE ManualConsume(i) /\ ~Consumable(i)
      BY <2>3 DEF ManualConsume
  <2> QED
      BY <1>3, <1>4, <1>5, <1>7, <2>1, <2>2, <2>3 DEF Continue
<1>8. ASSUME NEW i \in Guards, Request(i) \/ Abort(i) PROVE UNCHANGED passes
    BY <1>8 DEF Request, Abort, PreApprove, CaptureAtGate, DecideRead, CancelRead, RevokeRead,
                HelperRead, PassQrRead, AutoExpireRead, ManualRead, LeaveRead, ScanRead
<1>9. ASSUME NEW p \in Passes, Clock(p) PROVE UNCHANGED passes
    BY <1>9 DEF Clock
<1>10. CASE UNCHANGED vars
    BY <1>1, <1>10 DEF vars
<1>11. CASE Next
    BY <1>1, <1>6, <1>7, <1>8, <1>9, <1>11 DEF Next
<1> QED
    BY <1>10, <1>11

-----------------------------------------------------------------------------
(* Every variable has its type, whatever the guards, passes and requests   *)
(* (visitorsService.ts, qr.ts).                                            *)
THEOREM TypeCorrect == Spec => []TypeOK
<1>1. IInv => TypeOK
    BY DEF IInv
<1> QED
    BY <1>1, InvAlways, PTL

(* A pass admits within its allowance and never once it is dead, by scan   *)
(* or by hand, whatever overtakes the admission (qr.ts 322-349).           *)
THEOREM PassPromiseCorrect == Spec => PassPromise
<1>1. Spec => Gate!Init
    BY InitMaps DEF Spec
<1> QED
    BY <1>1, InvAlways, StepMaps, PTL DEF Spec, PassPromise, Gate!Spec

(* Scans record no more entries than they charged (visitorsService.ts      *)
(* 459): the scans still to record theirs are counted in as well.          *)
THEOREM ScansAreChargedCorrect == Spec => []ScansAreCharged
<1>1. ASSUME IInv PROVE ScansAreCharged
  <2>1. ASSUME NEW p \in Passes PROVE scans[p] <= passes[p].used
    <3>1. scans[p] + Cardinality(Owed(p)) <= passes[p].used
        BY <1>1 DEF IInv, Charged
    <3>2. scans[p] \in Nat /\ Cardinality(Owed(p)) \in Nat /\ passes[p].used \in Nat
        BY <1>1, OwedFinite, PassTyped DEF IInv, TypeOK
    <3> QED
        BY <3>1, <3>2
  <2> QED
      BY <2>1 DEF ScansAreCharged
<1> QED
    BY <1>1, InvAlways, PTL

(* Nobody is in the log of entries whose visit was never approved, by a    *)
(* resident, by the settings or by a pass (visitorsService.ts 15-18, 500). *)
THEOREM AdmittedWasApprovedCorrect == Spec => []AdmittedWasApproved
<1>1. IInv => AdmittedWasApproved
    BY DEF IInv, Approvals
<1> QED
    BY <1>1, InvAlways, PTL

(* Nobody is inside or has left before an entry was logged                 *)
(* (visitorsService.ts 658-661).                                           *)
THEOREM CrossingsInOrderCorrect == Spec => []CrossingsInOrder
<1>1. IInv => CrossingsInOrder
    BY DEF IInv
<1> QED
    BY <1>1, InvAlways, PTL
(* The sweep of visits nobody decided never overtakes a decision made      *)
(* between its query and its update (visitorsService.ts 868-870).          *)
THEOREM ExpiryKeepsDecisionsCorrect == Spec => ExpiryKeepsDecisions
<1>1. ASSUME IInv, [Next]_vars, visit'.status = "EXPIRED"
      PROVE  visit.status \in {"AWAITING_APPROVAL", "EXPIRED"}
  <2>1. visit \in Visit
      BY <1>1 DEF IInv, TypeOK
  <2>2. CASE UNCHANGED visit
      BY <1>1, <2>2
  <2>3. ASSUME NEW status, SetVisit(status) PROVE status = "EXPIRED"
      BY <1>1, <2>1, <2>3 DEF SetVisit, Visit
  <2>4. ASSUME NEW i \in Guards, Request(i) PROVE UNCHANGED visit
    <3>1. CASE PreApprove(i)
        BY <2>3, <3>1 DEF PreApprove
    <3>2. ASSUME NEW status \in VisitStatus, CaptureAtGate(i, status) PROVE FALSE
        BY <2>3, <3>2 DEF CaptureAtGate
    <3> QED
        BY <2>4, <3>1, <3>2 DEF Request, DecideRead, CancelRead, RevokeRead, HelperRead,
           PassQrRead, AutoExpireRead, ManualRead, LeaveRead, ScanRead
  <2>5. ASSUME NEW i \in Guards, Continue(i)
        PROVE  visit.status \in {"AWAITING_APPROVAL", "EXPIRED"}
    <3>1. CASE LinkPass(i)
      <4>1. visit'.status = visit.status
          BY <2>1, <3>1 DEF LinkPass, Visit
      <4> QED
          BY <1>1, <4>1
    <3>2. CASE HelperLink(i)
      <4>1. visit'.status = "PRE_APPROVED"
          BY <3>2 DEF HelperLink
      <4> QED
          BY <1>1, <4>1
    <3>3. CASE \/ CancelWrite(i) \/ SetInside(i) \/ SetExited(i)
               \/ \E status \in VisitStatus : DecideWrite(i, status)
        BY <2>3, <3>3 DEF CancelWrite, SetInside, SetExited, DecideWrite
    <3>4. CASE AutoExpire(i)
        BY <1>1, <3>4 DEF AutoExpire, StillAwaiting
    <3>5. CASE \/ RevokePass(i) \/ ExpirePass(i) \/ ScanCheck(i) \/ Consume(i) \/ ConsumeLost(i)
               \/ MarkUsed(i) \/ ManualPass(i) \/ ManualConsume(i) \/ Refused(i) \/ Enter(i)
               \/ Leave(i)
        BY <2>2, <3>5 DEF RevokePass, ExpirePass, ScanCheck, Consume, ConsumeLost, MarkUsed,
           ManualPass, ManualConsume, Refused, Enter, Leave
    <3>6. ASSUME NEW p \in Passes, NEW n \in Allowances,
                 HelperIssue(i, p, n) \/ \E w \in {"early", "open"} : IssuePass(i, p, n, w)
          PROVE  UNCHANGED visit
        BY <3>6 DEF HelperIssue, IssuePass
    <3> QED
        BY <2>2, <2>5, <3>1, <3>2, <3>3, <3>4, <3>5, <3>6 DEF Continue
  <2>6. ASSUME NEW i \in Guards, Abort(i) PROVE UNCHANGED visit
      BY <2>6 DEF Abort
  <2>7. CASE ExpireStalePasses \/ \E p \in Passes : Clock(p)
      BY <2>2, <2>7 DEF ExpireStalePasses, Clock
  <2>8. CASE UNCHANGED vars
      BY <2>2, <2>8 DEF vars
  <2> QED
      BY <1>1, <2>2, <2>4, <2>5, <2>6, <2>7, <2>8 DEF Next
<1> QED
    BY <1>1, InvAlways, PTL DEF Spec, ExpiryKeepsDecisions
=============================================================================
