--------------------------- MODULE HelpdeskProofs ---------------------------
(***************************************************************************)
(* Proofs about Helpdesk: for any number of complaints, vendors and        *)
(* requests, no complaint is escalated twice, complaint and order agree    *)
(* when requests come one by one, and an undisturbed recount repairs the   *)
(* record of a vendor.                                                     *)
(***************************************************************************)
EXTENDS Helpdesk, FiniteSetTheorems, TLAPS

(* What a request holds fits the step it is at: a status of the kind it is *)
(* about to write, and for complaints still to be escalated the level they *)
(* had before anybody escalated them.                                      *)
Fits(local) ==
    /\ local.pc = "move" => local.to \in OrderStatus
    /\ local.pc = "parent" => local.to \in DOMAIN Follows
    /\ local.pc = "status" => local.to \in ComplaintStatus
    /\ local.pc = "escalate" => \A c \in local.todo : local.level[c] = 0

Fitting == {local \in Local : Fits(local)}

(* A complaint that was not escalated is at level 0, one that was at 1.    *)
Levels ==
    \A c \in Complaints : /\ complaint[c].level <= 1
                          /\ ~complaint[c].escalated => complaint[c].level = 0

IInv ==
    /\ TypeOK
    /\ h \in [Handlers -> Fitting]
    /\ Levels

-----------------------------------------------------------------------------
(* What requests hold.                                                     *)

LEMMA IdleFits == Idle \in Fitting
    BY HelpdeskAssumption DEF Idle, Fitting, Fits, Local, Steps, Assignees, ComplaintStatus

LEMMA AloneFits ==
    ASSUME NEW local \in Fitting, NEW b \in BOOLEAN
    PROVE  [local EXCEPT !.alone = b] \in Fitting
    BY DEF Fitting, Fits, Local

LEMMA BeginFits ==
    ASSUME IInv, NEW i \in Handlers, NEW local \in Fitting, NEW b \in BOOLEAN, Begin(i, local, b)
    PROVE  IInv'
<1>1. Undisturbed(i) \in BOOLEAN
    BY DEF Undisturbed
<1>2. [local EXCEPT !.alone = Undisturbed(i)] \in Fitting
    BY <1>1, AloneFits
<1>3. \A j \in Handlers : h[j] \in Fitting /\ [h[j] EXCEPT !.alone = FALSE] \in Fitting
    BY AloneFits DEF IInv
<1>4. h' \in [Handlers -> Fitting]
    BY <1>2, <1>3 DEF Begin
<1>5. started' \in 0..MaxRequests
    BY HelpdeskAssumption DEF Begin, IInv, TypeOK
<1>6. clean' \in BOOLEAN
    BY <1>1 DEF Begin, IInv, TypeOK
<1>7. TypeOK'
  <2>1. h' \in [Handlers -> Local]
      BY <1>4 DEF Fitting
  <2> QED
      BY <1>5, <1>6, <2>1 DEF Begin, IInv, TypeOK
<1> QED
    BY <1>4, <1>7 DEF Begin, IInv, Levels

(* A request that ends, or goes on with what still fits.                   *)
LEMMA HoldFits ==
    ASSUME IInv, NEW i \in Handlers, NEW local \in Fitting, h' = [h EXCEPT ![i] = local]
    PROVE  h' \in [Handlers -> Fitting]
    BY DEF IInv

LEMMA FinishFits ==
    ASSUME IInv, NEW i \in Handlers, Finish(i)
    PROVE  h' \in [Handlers -> Fitting]
    BY IdleFits, HoldFits DEF Finish

LEMMA GotoFits ==
    ASSUME IInv, NEW i \in Handlers,
           NEW step \in Steps \ {"move", "parent", "status", "escalate"}, Goto(i, step)
    PROVE  h' \in [Handlers -> Fitting]
<1>1. h[i] \in Fitting
    BY DEF IInv
<1>2. [h[i] EXCEPT !.pc = step] \in Fitting
    BY <1>1 DEF Fitting, Fits, Local
<1>3. h' = [h EXCEPT ![i] = [h[i] EXCEPT !.pc = step]]
    BY DEF Goto
<1> QED
    BY <1>2, <1>3, HoldFits

(* What is left to show of a step that changes the collections.            *)
LEMMA StepTyped ==
    ASSUME IInv, NEW i \in Handlers, NEW step \in Steps, At(i, step),
           complaint' \in [Complaints -> Complaint], orders' \in Seq(Order),
           vendor' \in [Vendors -> [total : Nat, done : Nat]],
           h' \in [Handlers -> Fitting], Levels'
    PROVE  IInv'
<1>1. h' \in [Handlers -> Local]
    BY DEF Fitting
<1> QED
    BY <1>1 DEF At, IInv, TypeOK

-----------------------------------------------------------------------------
(* Every request starts with what fits.                                    *)

(* What a request starts with, whatever it is.                             *)
Begins(i) ==
    \E local \in Fitting, b \in BOOLEAN :
        /\ local.pc \notin {"idle", "rated"}
        /\ local.pc = "rate" => local.who \in Vendors
        /\ Begin(i, local, b)

LEMMA RequestBegins == ASSUME IInv, NEW i \in Handlers, Request(i) PROVE Begins(i)
<1> USE HelpdeskAssumption
<1>0. /\ complaint \in [Complaints -> Complaint]
      /\ orders \in Seq(Order)
    BY DEF IInv, TypeOK
<1>1. ASSUME NEW c \in Complaints, Raise(i, c) PROVE Begins(i)
  <2> DEFINE local == [Idle EXCEPT !.pc = "create", !.c = c]
  <2>1. local \in Fitting
      BY DEF Idle, Fitting, Fits, Local, Steps, Assignees, ComplaintStatus
  <2>2. (\A j \in Handlers : h[j].c # c) \in BOOLEAN
      OBVIOUS
  <2>5. local.pc = "create"
      BY DEF Idle
  <2> QED
      BY <1>1, <2>1, <2>2, <2>5 DEF Begins, Raise
<1>2. ASSUME NEW c \in Complaints, Reopen(i, c) PROVE Begins(i)
  <2> DEFINE local == [Idle EXCEPT !.pc = "reopen", !.c = c, !.o = complaint[c].order]
  <2>0. complaint[c].order \in Nat
      BY <1>0 DEF Complaint
  <2>1. local \in Fitting
      BY <2>0 DEF Idle, Fitting, Fits, Local, Steps, Assignees, ComplaintStatus
  <2>5. local.pc = "reopen"
      BY DEF Idle
  <2> QED
      BY <1>2, <2>1, <2>5 DEF Begins, Reopen
<1>3. ASSUME NEW c \in Complaints, NEW who \in Assignees, Assign(i, c, who) PROVE Begins(i)
  <2> DEFINE local == [Idle EXCEPT !.pc = "order", !.c = c, !.who = who]
  <2>1. local \in Fitting
      BY DEF Idle, Fitting, Fits, Local, Steps, ComplaintStatus
  <2>5. local.pc = "order"
      BY DEF Idle
  <2> QED
      BY <1>3, <2>1, <2>5 DEF Begins, Assign
<1>4. ASSUME NEW c \in Complaints, NEW b \in BOOLEAN, Verify(i, c, b) PROVE Begins(i)
  <2> DEFINE local == [Idle EXCEPT !.pc = "verdict", !.c = c, !.flag = b,
                         !.o = complaint[c].order, !.who = complaint[c].who]
  <2>0. complaint[c].order \in Nat /\ complaint[c].who \in Assignees
      BY <1>0 DEF Complaint
  <2>1. local \in Fitting
      BY <2>0 DEF Idle, Fitting, Fits, Local, Steps, ComplaintStatus
  <2>5. local.pc = "verdict"
      BY DEF Idle
  <2> QED
      BY <1>4, <2>1, <2>5 DEF Begins, Verify
<1>5. ASSUME NEW c \in Complaints, NEW b \in BOOLEAN, Close(i, c, b) PROVE Begins(i)
  <2> DEFINE local == [Idle EXCEPT !.pc = "close", !.c = c, !.o = complaint[c].order]
  <2>0. complaint[c].order \in Nat
      BY <1>0 DEF Complaint
  <2>1. local \in Fitting
      BY <2>0 DEF Idle, Fitting, Fits, Local, Steps, Assignees, ComplaintStatus
  <2>5. local.pc = "close"
      BY DEF Idle
  <2> QED
      BY <1>5, <2>1, <2>5 DEF Begins, Close
<1>6. ASSUME NEW c \in Complaints, NEW s \in ComplaintStatus, SetStatus(i, c, s) PROVE Begins(i)
  <2> DEFINE local == [Idle EXCEPT !.pc = "status", !.c = c, !.to = s]
  <2>1. local \in Fitting
      BY DEF Idle, Fitting, Fits, Local, Steps, Assignees
  <2>5. local.pc = "status"
      BY DEF Idle
  <2> QED
      BY <1>6, <2>1, <2>5 DEF Begins, SetStatus
<1>7. ASSUME NEW o \in DOMAIN orders, NEW s \in OrderStatus, Progress(i, o, s) PROVE Begins(i)
  <2> DEFINE c == orders[o].complaint
             local == [Idle EXCEPT !.pc = "move", !.o = o, !.to = s, !.c = c]
  <2>0. orders[o] \in Order /\ o \in Nat
      BY <1>0
  <2>3. c \in Complaints \cup {"none"}
      BY <2>0 DEF Order
  <2>1. local \in Fitting
      BY <2>0, <2>3 DEF Idle, Fitting, Fits, Local, Steps, Assignees
  <2>2. (c # "none" => complaint[c].order = o) \in BOOLEAN
      OBVIOUS
  <2>5. local.pc = "move"
      BY DEF Idle
  <2> QED
      BY <1>7, <2>1, <2>2, <2>5 DEF Begins, Progress
<1>8. ASSUME NEW who \in Assignees, OpenOrder(i, who) PROVE Begins(i)
  <2> DEFINE local == [Idle EXCEPT !.pc = "open", !.who = who]
  <2>1. local \in Fitting
      BY DEF Idle, Fitting, Fits, Local, Steps, ComplaintStatus
  <2>5. local.pc = "open"
      BY DEF Idle
  <2> QED
      BY <1>8, <2>1, <2>5 DEF Begins, OpenOrder
<1>9. ASSUME NEW v \in Vendors, RefreshRating(i, v) PROVE Begins(i)
  <2> DEFINE local == [Idle EXCEPT !.pc = "rate", !.who = v]
  <2>1. local \in Fitting
      BY DEF Idle, Fitting, Fits, Local, Steps, ComplaintStatus, Assignees
  <2>5. local.pc = "rate" /\ local.who = v
      BY DEF Idle
  <2> QED
      BY <1>9, <2>1, <2>5 DEF Begins, RefreshRating
<1>10. CASE Sweep(i)
  <2> DEFINE stale == {c \in Complaints : /\ complaint[c].status \in {"OPEN", "ASSIGNED"}
                                          /\ ~complaint[c].escalated}
             level == [c \in Complaints |-> complaint[c].level]
             local == [Idle EXCEPT !.pc = "escalate", !.todo = stale, !.level = level]
  <2>0. /\ level \in [Complaints -> Nat]
        /\ \A c \in stale : level[c] = 0
      BY <1>0 DEF Complaint, IInv, Levels
  <2>1. stale \subseteq Complaints
      OBVIOUS
  <2>2. Begin(i, local, TRUE)
      BY <1>10 DEF Sweep
  <2> HIDE DEF stale, level
  <2>3. local \in Fitting
      BY <2>0, <2>1 DEF Idle, Fitting, Fits, Local, Steps, Assignees, ComplaintStatus
  <2>5. local.pc = "escalate"
      BY DEF Idle
  <2> QED
      BY <2>2, <2>3, <2>5 DEF Begins
<1> QED
    BY <1>1, <1>2, <1>3, <1>4, <1>5, <1>6, <1>7, <1>8, <1>9, <1>10 DEF Request

LEMMA RequestKeeps == ASSUME IInv, NEW i \in Handlers, Request(i) PROVE IInv'
    BY RequestBegins, BeginFits DEF Begins

-----------------------------------------------------------------------------
(* Orders stay orders, and are appended or given another status.           *)

LEMMA OrderMoved ==
    ASSUME IInv, NEW o, NEW s \in OrderStatus,
           orders' = [orders EXCEPT ![o].status = s]
    PROVE  orders' \in Seq(Order)
<1>1. orders \in Seq(Order)
    BY DEF IInv, TypeOK
<1>2. CASE o \notin DOMAIN orders
  <2>1. orders \in [1..Len(orders) -> Order] /\ DOMAIN orders = 1..Len(orders)
      BY <1>1
  <2>2. orders' = orders
      BY <1>2, <2>1
  <2> QED
      BY <1>1, <2>2
<1>3. CASE o \in DOMAIN orders
  <2>1. orders[o] \in Order
      BY <1>1, <1>3
  <2>2. [orders[o] EXCEPT !.status = s] \in Order
      BY <2>1 DEF Order
  <2>3. orders' = [orders EXCEPT ![o] = [orders[o] EXCEPT !.status = s]]
      OBVIOUS
  <2> QED
      BY <1>1, <1>3, <2>2, <2>3
<1> QED
    BY <1>2, <1>3

(* A complaint is given another record, of the same level or escalated.    *)
LEMMA ComplaintPut ==
    ASSUME IInv, NEW c \in Complaints, NEW new \in Complaint,
           complaint' = [complaint EXCEPT ![c] = new],
           new.level <= 1, ~new.escalated => new.level = 0
    PROVE  complaint' \in [Complaints -> Complaint] /\ Levels'
<1>1. complaint \in [Complaints -> Complaint]
    BY DEF IInv, TypeOK
<1>2. complaint' \in [Complaints -> Complaint]
    BY <1>1
<1>3. \A d \in Complaints : complaint'[d] = IF d = c THEN new ELSE complaint[d]
    BY <1>1
<1>4. Levels'
    BY <1>3 DEF Levels, IInv
<1> QED
    BY <1>2, <1>4

(* A request of no complaint changes none.                                 *)
LEMMA ComplaintMissed ==
    ASSUME IInv, NEW c, c \notin Complaints, NEW new, complaint' = [complaint EXCEPT ![c] = new]
    PROVE  complaint' \in [Complaints -> Complaint] /\ Levels'
<1>1. complaint \in [Complaints -> Complaint]
    BY DEF IInv, TypeOK
<1>2. complaint' = complaint
    BY <1>1
<1> QED
    BY <1>1, <1>2 DEF Levels, IInv

LEMMA StatusPut ==
    ASSUME IInv, NEW c, NEW s \in ComplaintStatus, NEW b \in BOOLEAN,
           \/ complaint' = [complaint EXCEPT ![c].status = s]
           \/ complaint' = [complaint EXCEPT ![c].verified = b, ![c].status = s]
           \/ complaint' = [complaint EXCEPT ![c].status = s, ![c].verified = b]
    PROVE  complaint' \in [Complaints -> Complaint] /\ Levels'
<1>1. complaint \in [Complaints -> Complaint]
    BY DEF IInv, TypeOK
<1>2. CASE c \notin Complaints
    BY <1>1, <1>2 DEF Levels, IInv
<1>3. CASE c \in Complaints
  <2>1. complaint[c] \in Complaint /\ complaint[c].level <= 1
      BY <1>1, <1>3 DEF IInv, Levels
  <2>2. \E v \in BOOLEAN :
          complaint' = [complaint EXCEPT ![c] = [complaint[c] EXCEPT !.status = s, !.verified = v]]
    <3>1. CASE complaint' = [complaint EXCEPT ![c].status = s]
      <4>1. complaint[c] = [complaint[c] EXCEPT !.verified = complaint[c].verified]
          BY <2>1 DEF Complaint
      <4>2. complaint[c].verified \in BOOLEAN
          BY <2>1 DEF Complaint
      <4>3. [complaint[c] EXCEPT !.status = s]
               = [complaint[c] EXCEPT !.status = s, !.verified = complaint[c].verified]
          BY <2>1 DEF Complaint
      <4>4. complaint' = [complaint EXCEPT ![c] = [complaint[c] EXCEPT !.status = s]]
          BY <3>1
      <4> QED
          BY <4>2, <4>3, <4>4
    <3>2. CASE complaint' = [complaint EXCEPT ![c].verified = b, ![c].status = s]
      <4>1. complaint' = [complaint EXCEPT ![c] = [complaint[c] EXCEPT !.verified = b, !.status = s]]
          BY <1>1, <1>3, <2>1, <3>2 DEF Complaint
      <4>2. [complaint[c] EXCEPT !.verified = b, !.status = s]
               = [complaint[c] EXCEPT !.status = s, !.verified = b]
          BY <2>1 DEF Complaint
      <4> QED
          BY <4>1, <4>2
    <3>3. CASE complaint' = [complaint EXCEPT ![c].status = s, ![c].verified = b]
        BY <1>1, <1>3, <2>1, <3>3 DEF Complaint
    <3> QED
        BY <3>1, <3>2, <3>3
  <2>3. PICK v \in BOOLEAN :
          complaint' = [complaint EXCEPT ![c] = [complaint[c] EXCEPT !.status = s, !.verified = v]]
      BY <2>2
  <2>4. PICK new : new = [complaint[c] EXCEPT !.status = s, !.verified = v]
      OBVIOUS
  <2>5. new \in Complaint /\ new.level = complaint[c].level /\ new.escalated = complaint[c].escalated
      BY <2>1, <2>4 DEF Complaint
  <2>6. ~complaint[c].escalated => complaint[c].level = 0
      BY <1>3 DEF IInv, Levels
  <2> QED
      BY <1>3, <2>1, <2>3, <2>4, <2>5, <2>6, ComplaintPut
<1> QED
    BY <1>2, <1>3

-----------------------------------------------------------------------------
(* Every step of a request keeps the invariant.                            *)

LEMMA AdvanceKeeps == ASSUME IInv, NEW i \in Handlers, Advance(i) PROVE IInv'
<1> USE HelpdeskAssumption
<1>0. /\ complaint \in [Complaints -> Complaint] /\ Levels
      /\ orders \in Seq(Order)
      /\ vendor \in [Vendors -> [total : Nat, done : Nat]]
      /\ h[i] \in Local /\ Fits(h[i])
    BY DEF IInv, TypeOK, Fitting
<1>a. complaint' = complaint => complaint' \in [Complaints -> Complaint] /\ Levels'
    BY <1>0 DEF Levels
<1>b. orders' = orders => orders' \in Seq(Order)
    BY <1>0
<1>c. vendor' = vendor => vendor' \in [Vendors -> [total : Nat, done : Nat]]
    BY <1>0
<1>1. CASE Create(i)
  <2>1. complaint' \in [Complaints -> Complaint] /\ Levels'
    <3> DEFINE new == [NoComplaint EXCEPT !.status = "OPEN"]
    <3>1. new \in Complaint /\ new.level = 0
        BY DEF NoComplaint, Complaint, ComplaintStatus, Assignees
    <3>2. complaint' = [complaint EXCEPT ![h[i].c] = new]
        BY <1>1 DEF Create
    <3> HIDE DEF new
    <3>3. new.level <= 1
        BY <3>1
    <3>4. ~new.escalated => new.level = 0
        BY <3>1
    <3>5. CASE h[i].c \in Complaints
        BY <3>1, <3>2, <3>3, <3>4, <3>5, ComplaintPut
    <3>6. CASE h[i].c \notin Complaints
        BY <3>2, <3>6, ComplaintMissed
    <3> QED
        BY <3>5, <3>6
  <2>2. h' \in [Handlers -> Fitting]
      BY <1>1, FinishFits, GotoFits DEF Create, Steps
  <2> QED
      BY <1>1, <1>b, <1>c, <2>1, <2>2, StepTyped DEF Create, Steps
<1>2. CASE AutoAssign(i)
  <2>1. PICK v \in Vendors : h' = [h EXCEPT ![i].pc = "order", ![i].who = v]
      BY <1>2 DEF AutoAssign
  <2>2. [h[i] EXCEPT !.pc = "order", !.who = v] \in Fitting
      BY <1>0, <2>1 DEF Fitting, Fits, Local, Steps, Assignees
  <2>3. h' = [h EXCEPT ![i] = [h[i] EXCEPT !.pc = "order", !.who = v]]
      BY <2>1 DEF IInv
  <2>4. h' \in [Handlers -> Fitting]
      BY <2>2, <2>3, HoldFits
  <2> QED
      BY <1>2, <1>a, <1>b, <1>c, <2>4, StepTyped DEF AutoAssign, Steps
<1>3. CASE CreateOrder(i)
  <2>1. h[i].c \in Complaints \cup {"none"} /\ h[i].who \in Assignees
      BY <1>0 DEF Local
  <2>2. [complaint |-> h[i].c, who |-> h[i].who, status |-> "ASSIGNED"] \in Order
      BY <2>1 DEF Order, OrderStatus
  <2>3. orders' \in Seq(Order)
      BY <1>0, <1>3, <2>2 DEF CreateOrder
  <2>4. PICK o \in Nat : o = Len(orders')
      BY <2>3
  <2>5. [h[i] EXCEPT !.pc = "assign", !.o = o] \in Fitting
      BY <1>0 DEF Fitting, Fits, Local, Steps
  <2>6. h' = [h EXCEPT ![i].pc = "assign", ![i].o = o]
      BY <1>3, <2>4 DEF CreateOrder
  <2>7. h' = [h EXCEPT ![i] = [h[i] EXCEPT !.pc = "assign", !.o = o]]
      BY <2>6 DEF IInv
  <2>8. h' \in [Handlers -> Fitting]
      BY <2>5, <2>7, HoldFits
  <2> QED
      BY <1>3, <1>a, <1>c, <2>3, <2>8, StepTyped DEF CreateOrder, Steps
<1>4. CASE AssignWrite(i)
  <2>1. complaint' \in [Complaints -> Complaint] /\ Levels'
    <3>1. h[i].o \in Nat /\ h[i].who \in Assignees
        BY <1>0 DEF Local
    <3>2. PICK c : c = h[i].c
        OBVIOUS
    <3>3. PICK o \in Nat, who \in Assignees : o = h[i].o /\ who = h[i].who
        BY <3>1
    <3>4. PICK new : new = [complaint[c] EXCEPT !.status = "ASSIGNED", !.order = o, !.who = who]
        OBVIOUS
    <3>5. complaint' = [complaint EXCEPT ![c].status = "ASSIGNED", ![c].order = o, ![c].who = who]
        BY <1>4, <3>2, <3>3 DEF AssignWrite
    <3>6. complaint' = [complaint EXCEPT ![c] = new]
        BY <1>0, <3>4, <3>5
    <3>7. ASSUME c \in Complaints
          PROVE  /\ new \in Complaint /\ new.level = complaint[c].level
                 /\ new.escalated = complaint[c].escalated
        BY <1>0, <3>4, <3>7 DEF Complaint, ComplaintStatus
    <3> QED
        BY <1>0, <3>6, <3>7, ComplaintPut, ComplaintMissed DEF Levels
  <2>2. h' \in [Handlers -> Fitting]
      BY <1>4, FinishFits, GotoFits DEF AssignWrite, Steps
  <2> QED
      BY <1>4, <1>b, <1>c, <2>1, <2>2, StepTyped DEF AssignWrite, Steps
<1>5. CASE CountOrder(i)
  <2>1. vendor' \in [Vendors -> [total : Nat, done : Nat]]
    <3>1. CASE h[i].who \notin Vendors
      <4>1. vendor' = vendor
          BY <1>0, <1>5, <3>1 DEF CountOrder
      <4> QED
          BY <1>0, <4>1
    <3>2. CASE h[i].who \in Vendors
      <4>1. PICK v \in Vendors : v = h[i].who
          BY <3>2
      <4>2. vendor[v] \in [total : Nat, done : Nat]
          BY <1>0
      <4>3. [vendor[v] EXCEPT !.total = @ + 1] \in [total : Nat, done : Nat]
          BY <4>2
      <4>4. vendor' = [vendor EXCEPT ![v] = [vendor[v] EXCEPT !.total = @ + 1]]
          BY <1>5, <4>1 DEF CountOrder
      <4> QED
          BY <1>0, <4>3, <4>4
    <3> QED
        BY <3>1, <3>2
  <2>2. h' \in [Handlers -> Fitting]
      BY <1>5, FinishFits DEF CountOrder
  <2> QED
      BY <1>5, <1>a, <1>b, <2>1, <2>2, StepTyped DEF CountOrder, Steps
<1>6. CASE OpenWrite(i)
  <2>1. h[i].who \in Assignees
      BY <1>0 DEF Local
  <2>2. [complaint |-> "none", who |-> h[i].who, status |-> "CREATED"] \in Order
      BY <2>1 DEF Order, OrderStatus
  <2>3. orders' \in Seq(Order)
      BY <1>0, <1>6, <2>2 DEF OpenWrite
  <2>4. h' \in [Handlers -> Fitting]
      BY <1>6, FinishFits DEF OpenWrite
  <2> QED
      BY <1>6, <1>a, <1>c, <2>3, <2>4, StepTyped DEF OpenWrite, Steps
<1>7. CASE Move(i)
  <2>1. h[i].to \in OrderStatus
      BY <1>0, <1>7 DEF Move, At, Fits
  <2>2. orders' \in Seq(Order)
      BY <1>7, <2>1, OrderMoved DEF Move
  <2>3. h' \in [Handlers -> Fitting]
    <3>1. CASE Finish(i)
        BY <3>1, FinishFits
    <3>2. CASE Parent(h[i].to) /\ Goto(i, "parent")
      <4>1. [h[i] EXCEPT !.pc = "parent"] \in Fitting
          BY <1>0, <3>2 DEF Fitting, Fits, Local, Steps, Parent
      <4>2. h' = [h EXCEPT ![i] = [h[i] EXCEPT !.pc = "parent"]]
          BY <3>2 DEF Goto
      <4> QED
          BY <4>1, <4>2, HoldFits
    <3> QED
        BY <1>7, <3>1, <3>2 DEF Move
  <2> QED
      BY <1>7, <1>a, <1>c, <2>2, <2>3, StepTyped DEF Move, Steps
<1>8. CASE MoveParent(i)
  <2>1. Follows[h[i].to] \in ComplaintStatus
      BY <1>0, <1>8 DEF MoveParent, At, Fits, Follows, ComplaintStatus
  <2>2. complaint' \in [Complaints -> Complaint] /\ Levels'
      BY <1>8, <2>1, StatusPut DEF MoveParent
  <2>3. h' \in [Handlers -> Fitting]
      BY <1>8, FinishFits DEF MoveParent
  <2> QED
      BY <1>8, <1>b, <1>c, <2>2, <2>3, StepTyped DEF MoveParent, Steps
<1>9. CASE Verdict(i)
  <2>1. PICK s \in ComplaintStatus, b \in BOOLEAN :
            s = (IF h[i].flag THEN "CLOSED" ELSE "REOPENED") /\ b = h[i].flag
      BY <1>0 DEF Local, ComplaintStatus
  <2>2. complaint' = [complaint EXCEPT ![h[i].c].verified = b, ![h[i].c].status = s]
      BY <1>9, <2>1 DEF Verdict
  <2>3. complaint' \in [Complaints -> Complaint] /\ Levels'
      BY <2>2, StatusPut
  <2>4. h' \in [Handlers -> Fitting]
      BY <1>9, FinishFits, GotoFits DEF Verdict, AfterVerdict, Steps
  <2> QED
      BY <1>9, <1>b, <1>c, <2>3, <2>4, StepTyped DEF Verdict, Steps
<1>10. CASE VerdictOrder(i)
  <2>1. PICK s \in OrderStatus : s = IF h[i].flag THEN "CLOSED" ELSE "IN_PROGRESS"
      BY DEF OrderStatus
  <2>2. orders' = [orders EXCEPT ![h[i].o].status = s]
      BY <1>10, <2>1 DEF VerdictOrder
  <2>3. orders' \in Seq(Order)
      BY <2>2, OrderMoved
  <2>4. h' \in [Handlers -> Fitting]
      BY <1>10, FinishFits, GotoFits DEF VerdictOrder, AfterVerdict, Steps
  <2> QED
      BY <1>10, <1>a, <1>c, <2>3, <2>4, StepTyped DEF VerdictOrder, Steps
<1>11. CASE ReopenWrite(i)
  <2>1. complaint' \in [Complaints -> Complaint] /\ Levels'
      BY <1>11, StatusPut DEF ReopenWrite, ComplaintStatus
  <2>2. h' \in [Handlers -> Fitting]
      BY <1>11, FinishFits, GotoFits DEF ReopenWrite, Steps
  <2> QED
      BY <1>11, <1>b, <1>c, <2>1, <2>2, StepTyped DEF ReopenWrite, Steps
<1>12. CASE ReopenOrder(i)
  <2>1. orders' \in Seq(Order)
      BY <1>12, OrderMoved DEF ReopenOrder, OrderStatus
  <2>2. h' \in [Handlers -> Fitting]
      BY <1>12, FinishFits DEF ReopenOrder
  <2> QED
      BY <1>12, <1>a, <1>c, <2>1, <2>2, StepTyped DEF ReopenOrder, Steps
<1>13. CASE CloseWrite(i)
  <2>1. complaint' \in [Complaints -> Complaint] /\ Levels'
      BY <1>13, StatusPut DEF CloseWrite, ComplaintStatus
  <2>2. h' \in [Handlers -> Fitting]
      BY <1>13, FinishFits, GotoFits DEF CloseWrite, Steps
  <2> QED
      BY <1>13, <1>b, <1>c, <2>1, <2>2, StepTyped DEF CloseWrite, Steps
<1>14. CASE CloseOrder(i)
  <2>1. orders' \in Seq(Order)
      BY <1>14, OrderMoved DEF CloseOrder, OrderStatus
  <2>2. h' \in [Handlers -> Fitting]
      BY <1>14, FinishFits DEF CloseOrder
  <2> QED
      BY <1>14, <1>a, <1>c, <2>1, <2>2, StepTyped DEF CloseOrder, Steps
<1>15. CASE SetWrite(i)
  <2>1. h[i].to \in ComplaintStatus
      BY <1>0, <1>15 DEF SetWrite, At, Fits
  <2>2. complaint' \in [Complaints -> Complaint] /\ Levels'
      BY <1>15, <2>1, StatusPut DEF SetWrite
  <2>3. h' \in [Handlers -> Fitting]
      BY <1>15, FinishFits DEF SetWrite
  <2> QED
      BY <1>15, <1>b, <1>c, <2>2, <2>3, StepTyped DEF SetWrite, Steps
<1>16. ASSUME NEW c \in Complaints, Escalate(i, c) PROVE IInv'
  <2>1. Raised(i, c) = 1
      BY <1>0, <1>16 DEF Escalate, At, Raised, Fits
  <2>2. PICK new : new = [complaint[c] EXCEPT !.escalated = TRUE, !.level = 1]
      OBVIOUS
  <2>3. new \in Complaint /\ new.level = 1 /\ new.escalated
      BY <1>0, <2>2 DEF Complaint
  <2>4. complaint' = [complaint EXCEPT ![c].escalated = TRUE, ![c].level = 1]
      BY <1>16, <2>1 DEF Escalate
  <2>5. complaint' = [complaint EXCEPT ![c] = new]
      BY <1>0, <2>2, <2>4
  <2>6. complaint' \in [Complaints -> Complaint] /\ Levels'
    <3>1. new.level <= 1
        BY <2>3
    <3>2. ~new.escalated => new.level = 0
        BY <2>3
    <3> QED
        BY <2>3, <2>5, <3>1, <3>2, ComplaintPut
  <2>7. h' \in [Handlers -> Fitting]
    <3>1. CASE Finish(i)
        BY <3>1, FinishFits
    <3>2. CASE h' = [h EXCEPT ![i].todo = @ \ {c}]
      <4>1. PICK todo : todo = h[i].todo \ {c}
          OBVIOUS
      <4>2. todo \subseteq h[i].todo /\ h[i].todo \subseteq Complaints
          BY <1>0, <4>1 DEF Local
      <4>3. [h[i] EXCEPT !.todo = todo] \in Fitting
          BY <1>0, <1>16, <4>2 DEF Fitting, Fits, Local, Escalate, At
      <4>4. h' = [h EXCEPT ![i] = [h[i] EXCEPT !.todo = todo]]
          BY <3>2, <4>1
      <4> QED
          BY <4>3, <4>4, HoldFits
    <3> QED
        BY <1>16, <3>1, <3>2 DEF Escalate
  <2> QED
      BY <1>16, <1>b, <1>c, <2>6, <2>7, StepTyped DEF Escalate, Steps
<1>17. CASE RateRead(i)
  <2> DEFINE all == OrdersOf(h[i].who)
             over == {o \in all : Done(orders[o].status)}
  <2>1. all \subseteq 1..Len(orders) /\ over \subseteq 1..Len(orders) /\ Len(orders) \in Nat
      BY <1>0 DEF OrdersOf
  <2>2. IsFiniteSet(1..Len(orders))
      BY <2>1, FS_Interval
  <2>3. Cardinality(all) \in Nat /\ Cardinality(over) \in Nat
      BY <2>1, <2>2, FS_Subset, FS_CardinalityType
  <2>4. PICK m \in Nat, n \in Nat : m = Cardinality(all) /\ n = Cardinality(over)
      BY <2>3
  <2>5. h' = [h EXCEPT ![i].pc = "rated", ![i].total = m, ![i].done = n]
      BY <1>17, <2>4 DEF RateRead
  <2>6. [h[i] EXCEPT !.pc = "rated", !.total = m, !.done = n] \in Fitting
      BY <1>0 DEF Fitting, Fits, Local, Steps
  <2>7. h' = [h EXCEPT ![i] = [h[i] EXCEPT !.pc = "rated", !.total = m, !.done = n]]
      BY <2>5 DEF IInv
  <2>8. h' \in [Handlers -> Fitting]
      BY <2>6, <2>7, HoldFits
  <2> QED
      BY <1>17, <1>a, <1>b, <1>c, <2>8, StepTyped DEF RateRead, Steps
<1>18. CASE RateWrite(i)
  <2>1. h[i].total \in Nat /\ h[i].done \in Nat
      BY <1>0 DEF Local
  <2>2. vendor' \in [Vendors -> [total : Nat, done : Nat]]
      BY <1>0, <1>18, <2>1 DEF RateWrite
  <2>3. h' \in [Handlers -> Fitting]
      BY <1>18, FinishFits DEF RateWrite
  <2> QED
      BY <1>18, <1>a, <1>b, <2>2, <2>3, StepTyped DEF RateWrite, Steps
<1> QED
    BY <1>1, <1>2, <1>3, <1>4, <1>5, <1>6, <1>7, <1>8, <1>9, <1>10, <1>11, <1>12, <1>13, <1>14,
       <1>15, <1>16, <1>17, <1>18 DEF Advance

LEMMA AbortKeeps == ASSUME IInv, NEW i \in Handlers, Abort(i) PROVE IInv'
<1>1. h' \in [Handlers -> Fitting]
    BY FinishFits DEF Abort
<1>2. h' \in [Handlers -> Local]
    BY <1>1 DEF Fitting
<1>3. died \in Nat /\ died < MaxAborts /\ died' = died + 1
    BY HelpdeskAssumption DEF Abort, IInv, TypeOK
<1>4. died' \in 0..MaxAborts
    BY <1>3, HelpdeskAssumption
<1>5. clean' \in BOOLEAN
    BY DEF Abort
<1> QED
    BY <1>1, <1>2, <1>4, <1>5 DEF Abort, IInv, TypeOK, Levels

-----------------------------------------------------------------------------
(* Hence, in every reachable state:                                        *)

LEMMA InvInit == Init => IInv
<1> SUFFICES ASSUME Init PROVE IInv
    OBVIOUS
<1>1. NoComplaint \in Complaint /\ NoComplaint.level = 0
    BY DEF NoComplaint, Complaint, Assignees
<1>2. h \in [Handlers -> Fitting] /\ h \in [Handlers -> Local]
    BY IdleFits DEF Init, Fitting
<1>3. TypeOK
    BY <1>1, <1>2, HelpdeskAssumption DEF Init, TypeOK
<1>4. Levels
    BY <1>1 DEF Init, Levels
<1> QED
    BY <1>2, <1>3, <1>4 DEF IInv

LEMMA InvNext == IInv /\ [Next]_vars => IInv'
<1> SUFFICES ASSUME IInv, [Next]_vars PROVE IInv'
    OBVIOUS
<1>1. CASE UNCHANGED vars
    BY <1>1 DEF vars, IInv, TypeOK, Levels
<1>2. CASE Next
    BY <1>2, RequestKeeps, AdvanceKeeps, AbortKeeps DEF Next
<1> QED
    BY <1>1, <1>2

LEMMA InvAlways == Spec => []IInv
    BY InvInit, InvNext, PTL DEF Spec

(* The collections, the requests and what they hold have their types       *)
(* (helpdeskService.ts): a status is written only where it belongs.        *)
THEOREM TypeCorrect == Spec => []TypeOK
<1>1. IInv => TypeOK
    BY DEF IInv
<1> QED
    BY <1>1, InvAlways, PTL

(* A complaint is escalated by one level and no further (718-745): every   *)
(* sweep that still holds it read it before any wrote.                     *)
THEOREM EscalatedOnceCorrect == Spec => []EscalatedOnce
<1>1. IInv => EscalatedOnce
    BY DEF IInv, Levels, EscalatedOnce
<1> QED
    BY <1>1, InvAlways, PTL

-----------------------------------------------------------------------------
(* The two stories a complaint and its order tell, and the recount of a    *)
(* vendor's orders: both need to know who is alone.                        *)

(* A request that was begun alone, and to which none has come since, is   *)
(* alone; as long as all is by the book every request is.                  *)
InFlight(i) == h[i].pc # "idle"
Solo == \A i \in Handlers : InFlight(i) /\ h[i].alone => \A j \in Handlers \ {i} : ~InFlight(j)
CleanIsAlone == clean => \A i \in Handlers : InFlight(i) => h[i].alone

(* A request about to write a recount is one of a vendor, and if no other  *)
(* request was beside it the recount is still right.                       *)
Over(v) == {o \in OrdersOf(v) : Done(orders[o].status)}
Recounted(i) ==
    /\ h[i].pc \in {"rate", "rated"} => h[i].who \in Vendors
    /\ h[i].pc = "rated" /\ h[i].alone => /\ h[i].total = Cardinality(OrdersOf(h[i].who))
                                          /\ h[i].done = Cardinality(Over(h[i].who))

(* The order a complaint names is its own, and tells its story, unless a   *)
(* request has written the one and is about to write the other.            *)
Linked(c) == complaint[c].order # 0 => /\ complaint[c].order \in DOMAIN orders
                                       /\ orders[complaint[c].order].complaint = c
Told(c) == complaint[c].order # 0 => Agree(c)
Half == {"parent", "verdictOrder", "reopenOrder", "closeOrder"}

(* What a request that is alone knows at each step.                        *)
Knows(i) ==
    LET c == h[i].c  o == h[i].o IN
    /\ h[i].pc \in {"create", "load", "order", "assign", "verdict", "reopen", "close"} \cup Half
         => c \in Complaints
    /\ h[i].pc = "status" => FALSE
    /\ h[i].pc = "assign" => o \in DOMAIN orders /\ orders[o].complaint = c
                             /\ orders[o].status = "ASSIGNED"
    /\ h[i].pc = "move" => /\ o \in DOMAIN orders /\ orders[o].complaint = c
                           /\ c # "none" => complaint[c].order = o /\ complaint[c].status # "CLOSED"
    /\ h[i].pc \in {"verdict", "reopen", "close"} => complaint[c].order = o
    /\ h[i].pc \in Half => complaint[c].order = o /\ o # 0
    /\ h[i].pc = "parent" => orders[o].status = h[i].to
    /\ h[i].pc = "verdictOrder" => complaint[c].status = IF h[i].flag THEN "CLOSED" ELSE "REOPENED"
    /\ h[i].pc = "reopenOrder" => complaint[c].status = "REOPENED"
    /\ h[i].pc = "closeOrder" => complaint[c].status = "CLOSED"

Story ==
    clean => /\ \A c \in Complaints : Linked(c)
             /\ \A c \in Complaints : Told(c) \/ \E i \in Handlers : h[i].pc \in Half /\ h[i].c = c
             /\ \A i \in Handlers : Knows(i)

SInv ==
    /\ IInv
    /\ Solo
    /\ CleanIsAlone
    /\ \A i \in Handlers : Recounted(i)
    /\ Story

-----------------------------------------------------------------------------
(* How steps move requests.                                                *)

LEMMA GotoDoes ==
    ASSUME IInv, NEW i \in Handlers, NEW step, Goto(i, step)
    PROVE  /\ h'[i].pc = step /\ h'[i].alone = h[i].alone
           /\ h'[i].c = h[i].c /\ h'[i].o = h[i].o /\ h'[i].who = h[i].who
           /\ h'[i].to = h[i].to /\ h'[i].flag = h[i].flag
           /\ \A j \in Handlers \ {i} : h'[j] = h[j]
<1>1. h \in [Handlers -> Local]
    BY DEF IInv, TypeOK
<1> QED
    BY <1>1 DEF Goto, Local

LEMMA FinishDoes ==
    ASSUME IInv, NEW i \in Handlers, Finish(i)
    PROVE  h'[i] = Idle /\ h'[i].pc = "idle" /\ \A j \in Handlers \ {i} : h'[j] = h[j]
    BY DEF IInv, TypeOK, Finish, Idle

(* A step of a request in flight moves no other and leaves it as alone as  *)
(* it was.                                                                 *)
LEMMA AdvanceMoves ==
    ASSUME IInv, NEW i \in Handlers, Advance(i)
    PROVE  /\ InFlight(i) /\ clean' = clean /\ died' = died
           /\ \A j \in Handlers \ {i} : h'[j] = h[j]
           /\ h'[i].pc = "idle" \/ h'[i].alone = h[i].alone
<1>1. h \in [Handlers -> Local]
    BY DEF IInv, TypeOK
<1>2. InFlight(i) /\ clean' = clean /\ died' = died
    BY DEF Advance, Create, AutoAssign, CreateOrder, AssignWrite, CountOrder, OpenWrite, Move,
           MoveParent, Verdict, VerdictOrder, ReopenWrite, ReopenOrder, CloseWrite, CloseOrder,
           SetWrite, Escalate, RateRead, RateWrite, At, InFlight
<1>3. CASE Finish(i)
    BY <1>2, <1>3, FinishDoes
<1>4. ASSUME NEW step, Goto(i, step)
      PROVE  h'[i].alone = h[i].alone /\ \A j \in Handlers \ {i} : h'[j] = h[j]
    BY <1>4, GotoDoes
<1>5. CASE AutoAssign(i) \/ CreateOrder(i) \/ RateRead(i)
    BY <1>1, <1>2, <1>5 DEF AutoAssign, CreateOrder, RateRead, Local
<1>6. ASSUME NEW c, Escalate(i, c), ~Finish(i)
      PROVE  h'[i].alone = h[i].alone /\ \A j \in Handlers \ {i} : h'[j] = h[j]
    BY <1>1, <1>6 DEF Escalate, Local
<1> QED
    BY <1>2, <1>3, <1>4, <1>5, <1>6
       DEF Advance, Create, AssignWrite, CountOrder, OpenWrite, Move, MoveParent, Verdict,
           VerdictOrder, AfterVerdict, ReopenWrite, ReopenOrder, CloseWrite, CloseOrder,
           SetWrite, RateWrite

LEMMA BeginMoves ==
    ASSUME IInv, NEW i \in Handlers, NEW local \in Local, NEW b, Begin(i, local, b)
    PROVE  /\ ~InFlight(i) /\ clean' = (clean /\ b /\ Undisturbed(i))
           /\ h'[i] = [local EXCEPT !.alone = Undisturbed(i)]
           /\ h'[i].alone = Undisturbed(i) /\ h'[i].pc = local.pc
           /\ \A j \in Handlers \ {i} :
                 /\ h'[j].pc = h[j].pc /\ h'[j].who = h[j].who
                 /\ h[j].pc = "idle" => h'[j] = h[j]
                 /\ h[j].pc # "idle" => ~h'[j].alone
           /\ UNCHANGED <<complaint, orders, vendor, died>>
<1>1. h \in [Handlers -> Local]
    BY DEF IInv, TypeOK
<1>2. h'[i] = [local EXCEPT !.alone = Undisturbed(i)]
    BY <1>1 DEF Begin
<1>3. \A j \in Handlers \ {i} : h'[j] = IF h[j].pc = "idle" THEN h[j] ELSE [h[j] EXCEPT !.alone = FALSE]
    BY <1>1 DEF Begin
<1>4. h'[i].alone = Undisturbed(i) /\ h'[i].pc = local.pc
    BY <1>2 DEF Local
<1>5. \A j \in Handlers \ {i} : /\ h'[j].pc = h[j].pc /\ h'[j].who = h[j].who
                                /\ h[j].pc = "idle" => h'[j] = h[j]
                                /\ h[j].pc # "idle" => ~h'[j].alone
    BY <1>1, <1>3 DEF Local
<1> QED
    BY <1>2, <1>4, <1>5 DEF Begin, InFlight

LEMMA SoloKept ==
    ASSUME SInv, NEW i \in Handlers,
           \/ Advance(i) \/ Abort(i)
           \/ \E local \in Local, b \in BOOLEAN : local.pc # "idle" /\ Begin(i, local, b)
    PROVE  Solo' /\ CleanIsAlone'
<1> USE DEF SInv
<1>1. CASE Advance(i)
    BY <1>1, AdvanceMoves DEF Solo, CleanIsAlone, InFlight
<1>2. CASE Abort(i)
    BY <1>2, FinishDoes DEF Abort, Solo, CleanIsAlone, InFlight
<1>3. ASSUME NEW local \in Local, NEW b \in BOOLEAN, local.pc # "idle", Begin(i, local, b)
      PROVE  Solo' /\ CleanIsAlone'
  <2>1. /\ h'[i].alone = Undisturbed(i) /\ clean' = (clean /\ b /\ Undisturbed(i))
        /\ \A j \in Handlers \ {i} : /\ h'[j].pc = h[j].pc
                                     /\ h[j].pc # "idle" => ~h'[j].alone
      BY <1>3, BeginMoves
  <2>2. Solo'
      BY <2>1 DEF Solo, InFlight, Undisturbed
  <2>3. CleanIsAlone'
      BY <2>1 DEF CleanIsAlone, InFlight, Undisturbed
  <2> QED
      BY <2>2, <2>3
<1> QED
    BY <1>1, <1>2, <1>3

(* Nobody moves while a request is alone but itself.                       *)
LEMMA RecountKept ==
    ASSUME SInv, NEW i \in Handlers, h'[i].pc \notin {"rate", "rated"},
           \A j \in Handlers \ {i} : /\ h'[j].pc = h[j].pc /\ h'[j].who = h[j].who
                                     /\ h'[j] = h[j] \/ ~h'[j].alone,
           InFlight(i) \/ orders' = orders
    PROVE  \A j \in Handlers : Recounted(j)'
<1>1. ASSUME NEW j \in Handlers \ {i} PROVE Recounted(j)'
  <2>1. h'[j].pc \in {"rate", "rated"} => h'[j].who \in Vendors
      BY DEF SInv, Recounted
  <2>2. ASSUME h'[j].pc = "rated", h'[j].alone PROVE h'[j] = h[j] /\ orders' = orders
      BY <2>2 DEF SInv, Solo, InFlight
  <2> QED
      BY <2>1, <2>2 DEF SInv, Recounted, OrdersOf, Over
<1> QED
    BY <1>1 DEF Recounted

LEMMA RecountStep == ASSUME SInv, NEW i \in Handlers, Advance(i) PROVE \A j \in Handlers : Recounted(j)'
<1>0. /\ InFlight(i) /\ \A j \in Handlers \ {i} : h'[j] = h[j]
      /\ h[i] \in Local /\ IInv
    BY AdvanceMoves DEF SInv, IInv, TypeOK
<1>1. ASSUME h'[i].pc \notin {"rate", "rated"} PROVE \A j \in Handlers : Recounted(j)'
    BY <1>0, <1>1, RecountKept
<1>2. CASE RateRead(i)
  <2>0. PICK w : w = h[i].who
      OBVIOUS
  <2>1. PICK all, over : all = OrdersOf(w) /\ over = Over(w)
      OBVIOUS
  <2>2. PICK m, n : m = Cardinality(all) /\ n = Cardinality(over)
      OBVIOUS
  <2>3. h' = [h EXCEPT ![i].pc = "rated", ![i].total = m, ![i].done = n]
      BY <1>2, <2>0, <2>1, <2>2 DEF RateRead, Over
  <2>4. h'[i].pc = "rated" /\ h'[i].total = m /\ h'[i].done = n /\ h'[i].who = w
      BY <1>0, <2>0, <2>3 DEF IInv, TypeOK, Local
  <2>5. w \in Vendors /\ orders' = orders
      BY <1>2, <2>0 DEF RateRead, At, SInv, Recounted
  <2>6. OrdersOf(w)' = all /\ Over(w)' = over
      BY <2>1, <2>5 DEF OrdersOf, Over
  <2>7. Recounted(i)'
      BY <2>2, <2>4, <2>5, <2>6 DEF Recounted
  <2>8. \A j \in Handlers \ {i} : Recounted(j)'
      BY <1>0 DEF SInv, Recounted, Solo, InFlight
  <2> QED
      BY <2>7, <2>8
<1>3. CASE Goto(i, "rate") /\ h[i].who \in Vendors
  <2>1. h'[i].pc = "rate" /\ h'[i].who \in Vendors
      BY <1>0, <1>3, GotoDoes
  <2>2. ASSUME NEW j \in Handlers \ {i} PROVE Recounted(j)'
      BY <1>0 DEF SInv, Recounted, Solo, InFlight
  <2> QED
      BY <2>1, <2>2 DEF Recounted
<1>4. CASE Finish(i)
    BY <1>0, <1>1, <1>4, FinishDoes
<1>5. ASSUME NEW step \in Steps \ {"rate", "rated"}, Goto(i, step)
      PROVE  \A j \in Handlers : Recounted(j)'
    BY <1>0, <1>1, <1>5, GotoDoes
<1>6. CASE AutoAssign(i) \/ CreateOrder(i)
  <2>1. h'[i].pc \in {"order", "assign"}
      BY <1>0, <1>6 DEF AutoAssign, CreateOrder, Local, IInv, TypeOK
  <2> QED
      BY <1>1, <2>1
<1>7. ASSUME NEW c, Escalate(i, c), ~Finish(i) PROVE \A j \in Handlers : Recounted(j)'
  <2>1. h'[i].pc = "escalate"
      BY <1>0, <1>7 DEF Escalate, At, Local, IInv, TypeOK
  <2> QED
      BY <1>1, <2>1
<1>8. Advance(i) =>
        \/ RateRead(i) \/ (Goto(i, "rate") /\ h[i].who \in Vendors) \/ Finish(i)
        \/ (\E step \in Steps \ {"rate", "rated"} : Goto(i, step))
        \/ AutoAssign(i) \/ CreateOrder(i) \/ \E c : Escalate(i, c) /\ ~Finish(i)
    BY DEF Advance, Create, AssignWrite, CountOrder, OpenWrite, Move, MoveParent, Verdict,
           VerdictOrder, AfterVerdict, ReopenWrite, ReopenOrder, CloseWrite, CloseOrder,
           SetWrite, RateWrite, Steps
<1> QED
    BY <1>2, <1>3, <1>4, <1>5, <1>6, <1>7, <1>8

-----------------------------------------------------------------------------
(* The story told by complaints and orders, while requests are alone.      *)

LEMMA OrderGiven ==
    ASSUME IInv, NEW o, NEW s, orders' = [orders EXCEPT ![o].status = s]
    PROVE  /\ DOMAIN orders' = DOMAIN orders
           /\ \A x \in DOMAIN orders : /\ orders'[x].complaint = orders[x].complaint
                                       /\ x # o => orders'[x] = orders[x]
                                       /\ x = o => orders'[x].status = s
<1>1. orders \in [1..Len(orders) -> Order] /\ DOMAIN orders = 1..Len(orders)
    BY DEF IInv, TypeOK
<1>2. DOMAIN orders' = DOMAIN orders
    OBVIOUS
<1>3. ASSUME NEW x \in DOMAIN orders
      PROVE  orders'[x] = IF x = o THEN [orders[x] EXCEPT !.status = s] ELSE orders[x]
    BY <1>1
<1>4. \A x \in DOMAIN orders : orders[x] \in Order
    BY <1>1
<1> QED
    BY <1>2, <1>3, <1>4 DEF Order

LEMMA OrderAdded ==
    ASSUME IInv, NEW new \in Order, orders' = Append(orders, new)
    PROVE  /\ \A x \in DOMAIN orders : x \in DOMAIN orders' /\ orders'[x] = orders[x]
           /\ Len(orders') \in DOMAIN orders' /\ Len(orders') # 0
           /\ orders'[Len(orders')] = new
    BY DEF IInv, TypeOK

(* A complaint is given another status, and no other changes.              *)
Given(c, s) ==
    \A d \in Complaints : /\ complaint'[d].order = complaint[d].order
                          /\ d # c => complaint'[d] = complaint[d]
                          /\ d = c => complaint'[d].status = s

LEMMA ComplaintGiven ==
    ASSUME IInv, NEW c, NEW s, NEW b,
           \/ complaint' = [complaint EXCEPT ![c].status = s]
           \/ complaint' = [complaint EXCEPT ![c].verified = b, ![c].status = s]
           \/ complaint' = [complaint EXCEPT ![c].status = s, ![c].verified = b]
    PROVE  Given(c, s)
<1>1. complaint \in [Complaints -> Complaint]
    BY DEF IInv, TypeOK
<1>2. ASSUME NEW d \in Complaints
      PROVE  /\ complaint'[d].order = complaint[d].order
             /\ d # c => complaint'[d] = complaint[d]
             /\ d = c => complaint'[d].status = s
  <2>1. complaint[d] \in Complaint
      BY <1>1
  <2>2. CASE complaint' = [complaint EXCEPT ![c].status = s]
      BY <1>1, <2>1, <2>2 DEF Complaint
  <2>3. CASE complaint' = [complaint EXCEPT ![c].verified = b, ![c].status = s]
      BY <1>1, <2>1, <2>3 DEF Complaint
  <2>4. CASE complaint' = [complaint EXCEPT ![c].status = s, ![c].verified = b]
      BY <1>1, <2>1, <2>4 DEF Complaint
  <2> QED
      BY <2>2, <2>3, <2>4
<1> QED
    BY <1>2 DEF Given

(* Only the one that moves has to be looked at.                            *)
LEMMA StoryStep ==
    ASSUME SInv, NEW i \in Handlers, Advance(i),
           clean => /\ \A c \in Complaints : Linked(c)'
                    /\ \A c \in Complaints : Told(c)' \/ (h'[i].pc \in Half /\ h'[i].c = c)
                    /\ Knows(i)'
    PROVE  Story'
<1>1. clean' = clean /\ InFlight(i) /\ \A j \in Handlers \ {i} : h'[j] = h[j]
    BY AdvanceMoves DEF SInv
<1>2. ASSUME clean, NEW j \in Handlers \ {i} PROVE Knows(j)'
  <2>1. h'[j].pc = "idle"
      BY <1>1, <1>2 DEF SInv, Solo, CleanIsAlone, InFlight
  <2> QED
      BY <2>1 DEF Knows, Half
<1> QED
    BY <1>1, <1>2 DEF Story

LEMMA StoryBefore ==
    ASSUME SInv, NEW i \in Handlers, InFlight(i), clean
    PROVE  /\ \A c \in Complaints : Linked(c)
           /\ \A c \in Complaints : Told(c) \/ (h[i].pc \in Half /\ h[i].c = c)
           /\ Knows(i)
<1>1. \A j \in Handlers \ {i} : h[j].pc = "idle"
    BY DEF SInv, Solo, CleanIsAlone, InFlight
<1> QED
    BY <1>1 DEF SInv, Story, Half

(* Steps that write no complaint's status or order and move no order.      *)
LEMMA StoryQuiet ==
    ASSUME SInv, NEW i \in Handlers, Advance(i), h[i].pc \notin Half,
           \A c \in Complaints : /\ complaint'[c].status = complaint[c].status
                                 /\ complaint'[c].order = complaint[c].order,
           orders' = orders,
           clean => Knows(i)'
    PROVE  Story'
<1>1. ASSUME clean
      PROVE  \A c \in Complaints : Linked(c)' /\ Told(c)'
  <2>1. InFlight(i)
      BY AdvanceMoves DEF SInv
  <2>2. \A c \in Complaints : Linked(c) /\ Told(c)
      BY <1>1, <2>1, StoryBefore
  <2> QED
      BY <2>2 DEF Linked, Told, Agree
<1> QED
    BY <1>1, StoryStep

LEMMA StoryWritesOrders ==
    ASSUME SInv, NEW i \in Handlers, CreateOrder(i) \/ OpenWrite(i) PROVE Story'
<1>1. Advance(i) /\ complaint' = complaint /\ InFlight(i) /\ IInv
    BY DEF Advance, CreateOrder, OpenWrite, At, InFlight, SInv
<1>2. PICK new : /\ new \in Order
                 /\ orders' = Append(orders, new)
                 /\ CreateOrder(i) => new.complaint = h[i].c /\ new.status = "ASSIGNED"
  <2>1. h[i] \in Local
      BY <1>1 DEF IInv, TypeOK
  <2>2. CASE CreateOrder(i)
    <3>1. [complaint |-> h[i].c, who |-> h[i].who, status |-> "ASSIGNED"] \in Order
        BY <2>1 DEF Local, Order, OrderStatus
    <3> QED
        BY <2>2, <3>1 DEF CreateOrder
  <2>3. CASE OpenWrite(i)
    <3>1. [complaint |-> "none", who |-> h[i].who, status |-> "CREATED"] \in Order
        BY <2>1 DEF Local, Order, OrderStatus
    <3> QED
        BY <2>3, <3>1 DEF OpenWrite, CreateOrder, At
  <2> QED
      BY <2>2, <2>3
<1>3. /\ \A x \in DOMAIN orders : x \in DOMAIN orders' /\ orders'[x] = orders[x]
      /\ Len(orders') \in DOMAIN orders' /\ orders'[Len(orders')] = new
    BY <1>1, <1>2, OrderAdded
<1>4. ASSUME clean
      PROVE  /\ \A c \in Complaints : Linked(c)' /\ Told(c)'
             /\ Knows(i)'
  <2>1. (\A c \in Complaints : Linked(c)) /\ (\A c \in Complaints : Told(c)) /\ Knows(i)
      BY <1>1, <1>4, StoryBefore DEF CreateOrder, OpenWrite, At, Half
  <2>2. \A c \in Complaints : Linked(c)' /\ Told(c)'
      BY <1>1, <1>3, <2>1 DEF Linked, Told, Agree
  <2>3. CASE OpenWrite(i)
    <3>1. h'[i].pc = "idle"
        BY <1>1, <2>3, FinishDoes DEF OpenWrite
    <3> QED
        BY <2>2, <3>1 DEF Knows, Half
  <2>4. CASE CreateOrder(i)
    <3>1. h'[i].pc = "assign" /\ h'[i].o = Len(orders') /\ h'[i].c = h[i].c
        BY <1>1, <2>4 DEF CreateOrder, IInv, TypeOK, Local
    <3>2. h[i].c \in Complaints
        BY <2>1, <2>4 DEF CreateOrder, At, Knows
    <3> QED
        BY <1>2, <1>3, <2>2, <2>4, <3>1, <3>2 DEF Knows, Half
  <2> QED
      BY <2>3, <2>4
<1> QED
    BY <1>1, <1>4, StoryStep

(* A new complaint has no order.                                           *)
LEMMA StoryCreate == ASSUME SInv, NEW i \in Handlers, Create(i) PROVE Story'
<1>1. Advance(i) /\ InFlight(i) /\ IInv /\ orders' = orders
    BY DEF Advance, Create, At, InFlight, SInv
<1>2. ASSUME clean
      PROVE  /\ \A c \in Complaints : Linked(c)' /\ Told(c)'
             /\ Knows(i)'
  <2>1. (\A c \in Complaints : Linked(c)) /\ (\A c \in Complaints : Told(c)) /\ Knows(i)
      BY <1>1, <1>2, StoryBefore DEF Create, At, Half
  <2>2. h[i].c \in Complaints
      BY <2>1 DEF Create, At, Knows
  <2>3. PICK new : new = [NoComplaint EXCEPT !.status = "OPEN"] /\ new.order = 0
    <3>1. [NoComplaint EXCEPT !.status = "OPEN"].order = 0
        BY DEF NoComplaint
    <3> QED
        BY <3>1
  <2>4. \A c \in Complaints : complaint'[c] = IF c = h[i].c THEN new ELSE complaint[c]
      BY <2>3 DEF Create, SInv, IInv, TypeOK
  <2>5. \A c \in Complaints : Linked(c)' /\ Told(c)'
      BY <1>1, <2>1, <2>3, <2>4 DEF Linked, Told, Agree
  <2>6. h'[i].pc \in {"load", "idle"} /\ (h'[i].pc = "load" => h'[i].c = h[i].c)
      BY <1>1, GotoDoes, FinishDoes DEF Create
  <2>7. Knows(i)'
      BY <2>2, <2>6 DEF Knows, Half
  <2> QED
      BY <2>5, <2>7
<1> QED
    BY <1>1, <1>2, StoryStep

(* An assignment names an order that was made for the complaint and has    *)
(* not been moved.                                                         *)
LEMMA StoryAssign == ASSUME SInv, NEW i \in Handlers, AssignWrite(i) PROVE Story'
<1>1. Advance(i) /\ InFlight(i) /\ IInv /\ orders' = orders
    BY DEF Advance, AssignWrite, At, InFlight, SInv
<1>2. ASSUME clean
      PROVE  /\ \A c \in Complaints : Linked(c)' /\ Told(c)'
             /\ Knows(i)'
  <2>1. (\A c \in Complaints : Linked(c)) /\ (\A c \in Complaints : Told(c)) /\ Knows(i)
      BY <1>1, <1>2, StoryBefore DEF AssignWrite, At, Half
  <2>2. /\ h[i].c \in Complaints /\ h[i].o \in DOMAIN orders
        /\ orders[h[i].o].complaint = h[i].c /\ orders[h[i].o].status = "ASSIGNED"
      BY <2>1 DEF AssignWrite, At, Knows
  <2>3. \A c \in Complaints : /\ c # h[i].c => complaint'[c] = complaint[c]
                              /\ c = h[i].c => /\ complaint'[c].status = "ASSIGNED"
                                               /\ complaint'[c].order = h[i].o
    <3>1. complaint \in [Complaints -> Complaint]
        BY DEF SInv, IInv, TypeOK
    <3> QED
        BY <3>1 DEF AssignWrite, Complaint
  <2>4. \A c \in Complaints : Linked(c)' /\ Told(c)'
      BY <1>1, <2>1, <2>2, <2>3 DEF Linked, Told, Agree
  <2>5. h'[i].pc \in {"count", "idle"}
      BY <1>1, GotoDoes, FinishDoes DEF AssignWrite
  <2>6. Knows(i)'
      BY <2>5 DEF Knows, Half
  <2> QED
      BY <2>4, <2>6
<1> QED
    BY <1>1, <1>2, StoryStep

(* The steps that write one half of the story: the complaint first, ...    *)
LEMMA StoryHalf ==
    ASSUME SInv, NEW i \in Handlers, Verdict(i) \/ ReopenWrite(i) \/ CloseWrite(i) PROVE Story'
<1>1. Advance(i) /\ InFlight(i) /\ IInv /\ orders' = orders
    BY DEF Advance, Verdict, ReopenWrite, CloseWrite, At, InFlight, SInv
<1>2. PICK s : /\ Given(h[i].c, s)
               /\ Verdict(i) => s = IF h[i].flag THEN "CLOSED" ELSE "REOPENED"
               /\ ReopenWrite(i) => s = "REOPENED"
               /\ CloseWrite(i) => s = "CLOSED"
  <2>1. CASE Verdict(i)
    <3>1. PICK to, b : /\ complaint' = [complaint EXCEPT ![h[i].c].verified = b, ![h[i].c].status = to]
                       /\ to = IF h[i].flag THEN "CLOSED" ELSE "REOPENED"
        BY <2>1 DEF Verdict
    <3>2. ~ReopenWrite(i) /\ ~CloseWrite(i)
        BY <2>1 DEF Verdict, ReopenWrite, CloseWrite, At
    <3>3. Given(h[i].c, to)
        BY <1>1, <3>1, ComplaintGiven
    <3> QED
        BY <3>1, <3>2, <3>3
  <2>2. CASE ReopenWrite(i)
    <3>1. complaint' = [complaint EXCEPT ![h[i].c].status = "REOPENED", ![h[i].c].verified = FALSE]
        BY <2>2 DEF ReopenWrite
    <3>2. ~Verdict(i) /\ ~CloseWrite(i)
        BY <2>2 DEF Verdict, ReopenWrite, CloseWrite, At
    <3>3. Given(h[i].c, "REOPENED")
        BY <1>1, <3>1, ComplaintGiven
    <3> QED
        BY <3>1, <3>2, <3>3
  <2>3. CASE CloseWrite(i)
    <3>1. complaint' = [complaint EXCEPT ![h[i].c].status = "CLOSED"]
        BY <2>3 DEF CloseWrite
    <3>2. ~Verdict(i) /\ ~ReopenWrite(i)
        BY <2>3 DEF Verdict, ReopenWrite, CloseWrite, At
    <3>3. Given(h[i].c, "CLOSED")
        BY <1>1, <3>1, ComplaintGiven
    <3> QED
        BY <3>1, <3>2, <3>3
  <2> QED
      BY <2>1, <2>2, <2>3
<1>3. ASSUME clean
      PROVE  /\ \A c \in Complaints : Linked(c)'
             /\ \A c \in Complaints : Told(c)' \/ (h'[i].pc \in Half /\ h'[i].c = c)
             /\ Knows(i)'
  <2>1. (\A c \in Complaints : Linked(c)) /\ (\A c \in Complaints : Told(c)) /\ Knows(i)
      BY <1>1, <1>3, StoryBefore DEF Verdict, ReopenWrite, CloseWrite, At, Half
  <2>2. PICK d \in Complaints : d = h[i].c /\ complaint[d].order = h[i].o
      BY <2>1 DEF Verdict, ReopenWrite, CloseWrite, At, Knows
  <2>3. \A c \in Complaints : Linked(c)'
      BY <1>1, <1>2, <2>1 DEF Linked, Given
  <2>4. \A c \in Complaints : Told(c)' \/ c = d
      BY <1>1, <1>2, <2>1, <2>2 DEF Told, Agree, Given
  <2>5. CASE h[i].o = 0
    <3>1. h'[i].pc \in {"idle", "rate"}
      <4>1. Finish(i) \/ Goto(i, "rate")
          BY <2>5 DEF Verdict, AfterVerdict, ReopenWrite, CloseWrite
      <4> QED
          BY <1>1, <4>1, GotoDoes, FinishDoes
    <3>2. Told(d)'
        BY <1>2, <2>2, <2>5 DEF Told, Given
    <3>3. Knows(i)'
        BY <3>1 DEF Knows, Half
    <3> QED
        BY <2>3, <2>4, <3>2, <3>3
  <2>6. CASE h[i].o # 0
    <3>1. /\ h'[i].pc = IF Verdict(i) THEN "verdictOrder"
                        ELSE IF ReopenWrite(i) THEN "reopenOrder" ELSE "closeOrder"
          /\ h'[i].c = h[i].c /\ h'[i].o = h[i].o /\ h'[i].flag = h[i].flag
      <4>1. CASE Verdict(i)
          BY <1>1, <2>6, <4>1, GotoDoes DEF Verdict
      <4>2. CASE ReopenWrite(i)
        <5>1. ~Verdict(i)
            BY <4>2 DEF Verdict, ReopenWrite, At
        <5> QED
            BY <1>1, <2>6, <4>2, <5>1, GotoDoes DEF ReopenWrite
      <4>3. CASE CloseWrite(i)
        <5>1. ~Verdict(i) /\ ~ReopenWrite(i)
            BY <4>3 DEF Verdict, ReopenWrite, CloseWrite, At
        <5> QED
            BY <1>1, <2>6, <4>3, <5>1, GotoDoes DEF CloseWrite
      <4> QED
          BY <4>1, <4>2, <4>3
    <3>2. Knows(i)'
        BY <1>2, <2>2, <2>6, <3>1 DEF Knows, Half, Given
    <3> QED
        BY <2>2, <2>3, <2>4, <3>1, <3>2 DEF Half
  <2> QED
      BY <2>5, <2>6
<1> QED
    BY <1>1, <1>3, StoryStep

(* ... and the order after it.                                             *)
LEMMA StoryWhole ==
    ASSUME SInv, NEW i \in Handlers, VerdictOrder(i) \/ ReopenOrder(i) \/ CloseOrder(i) PROVE Story'
<1>1. Advance(i) /\ InFlight(i) /\ IInv /\ complaint' = complaint
    BY DEF Advance, VerdictOrder, ReopenOrder, CloseOrder, At, InFlight, SInv
<1>2. PICK s : /\ DOMAIN orders' = DOMAIN orders
               /\ \A x \in DOMAIN orders : /\ orders'[x].complaint = orders[x].complaint
                                           /\ x # h[i].o => orders'[x] = orders[x]
                                           /\ x = h[i].o => orders'[x].status = s
               /\ VerdictOrder(i) => s = IF h[i].flag THEN "CLOSED" ELSE "IN_PROGRESS"
               /\ ReopenOrder(i) => s = "IN_PROGRESS"
               /\ CloseOrder(i) => s = "CLOSED"
  <2>1. PICK s : /\ orders' = [orders EXCEPT ![h[i].o].status = s]
                 /\ VerdictOrder(i) => s = IF h[i].flag THEN "CLOSED" ELSE "IN_PROGRESS"
                 /\ ReopenOrder(i) => s = "IN_PROGRESS"
                 /\ CloseOrder(i) => s = "CLOSED"
    <3>1. CASE VerdictOrder(i)
        BY <3>1 DEF VerdictOrder, ReopenOrder, CloseOrder, At
    <3>2. CASE ReopenOrder(i)
        BY <3>2 DEF VerdictOrder, ReopenOrder, CloseOrder, At
    <3>3. CASE CloseOrder(i)
        BY <3>3 DEF VerdictOrder, ReopenOrder, CloseOrder, At
    <3> QED
        BY <3>1, <3>2, <3>3
  <2> QED
      BY <1>1, <2>1, OrderGiven
<1>3. ASSUME clean
      PROVE  /\ \A c \in Complaints : Linked(c)' /\ Told(c)'
             /\ Knows(i)'
  <2>1. /\ \A c \in Complaints : Linked(c)
        /\ \A c \in Complaints : Told(c) \/ h[i].c = c
        /\ Knows(i)
      BY <1>1, <1>3, StoryBefore
  <2>2. PICK c \in Complaints :
           /\ c = h[i].c /\ complaint[c].order = h[i].o /\ h[i].o # 0
           /\ VerdictOrder(i) => complaint[c].status = IF h[i].flag THEN "CLOSED" ELSE "REOPENED"
           /\ ReopenOrder(i) => complaint[c].status = "REOPENED"
           /\ CloseOrder(i) => complaint[c].status = "CLOSED"
      BY <2>1 DEF VerdictOrder, ReopenOrder, CloseOrder, At, Knows, Half
  <2>3. \A d \in Complaints : Linked(d)'
      BY <1>1, <1>2, <2>1 DEF Linked
  <2>4. ASSUME NEW d \in Complaints, d # c PROVE Told(d)'
      BY <1>1, <1>2, <2>1, <2>2, <2>4 DEF Linked, Told, Agree
  <2>5. Told(c)'
    <3>1. h[i].o \in DOMAIN orders /\ orders'[h[i].o].status = s
        BY <1>2, <2>1, <2>2 DEF Linked
    <3>2. complaint'[c].order = h[i].o /\ complaint'[c].status = complaint[c].status
        BY <1>1, <2>2
    <3>3. /\ complaint'[c].status \in {"CLOSED", "REOPENED"}
          /\ s = IF complaint'[c].status = "CLOSED" THEN "CLOSED" ELSE "IN_PROGRESS"
        BY <1>2, <2>2, <3>2
    <3> QED
        BY <3>1, <3>2, <3>3 DEF Told, Agree
  <2>6. h'[i].pc \in {"idle", "rate"}
      BY <1>1, GotoDoes, FinishDoes DEF VerdictOrder, AfterVerdict, ReopenOrder, CloseOrder
  <2>7. Knows(i)'
      BY <2>6 DEF Knows, Half
  <2> QED
      BY <2>3, <2>4, <2>5, <2>7
<1> QED
    BY <1>1, <1>3, StoryStep

(* An order is moved by the book: it is the one its complaint names, and   *)
(* the complaint is not closed.  Work that the complaint has to follow     *)
(* leaves the story half told.                                             *)
LEMMA StoryMove == ASSUME SInv, NEW i \in Handlers, Move(i) PROVE Story'
<1>1. Advance(i) /\ InFlight(i) /\ IInv /\ complaint' = complaint
    BY DEF Advance, Move, At, InFlight, SInv
<1>2. /\ DOMAIN orders' = DOMAIN orders
      /\ \A x \in DOMAIN orders : /\ orders'[x].complaint = orders[x].complaint
                                  /\ x # h[i].o => orders'[x] = orders[x]
                                  /\ x = h[i].o => orders'[x].status = h[i].to
    BY <1>1, OrderGiven DEF Move
<1>3. ASSUME clean
      PROVE  /\ \A c \in Complaints : Linked(c)'
             /\ \A c \in Complaints : Told(c)' \/ (h'[i].pc \in Half /\ h'[i].c = c)
             /\ Knows(i)'
  <2>1. (\A c \in Complaints : Linked(c)) /\ (\A c \in Complaints : Told(c)) /\ Knows(i)
      BY <1>1, <1>3, StoryBefore DEF Move, At, Half
  <2>2. /\ h[i].o \in DOMAIN orders /\ orders[h[i].o].complaint = h[i].c
        /\ h[i].c # "none" => /\ complaint[h[i].c].order = h[i].o
                              /\ complaint[h[i].c].status # "CLOSED"
      BY <2>1 DEF Move, At, Knows
  <2>3. \A c \in Complaints : Linked(c)'
      BY <1>1, <1>2, <2>1 DEF Linked
  <2>4. \A c \in Complaints : c # h[i].c => Told(c)'
      BY <1>1, <1>2, <2>1, <2>2 DEF Linked, Told, Agree
  <2>5. h[i].c \in Complaints \cup {"none"} /\ h[i].to \in OrderStatus
      BY <1>1 DEF IInv, TypeOK, Local, Fitting, Fits, Move, At
  <2>6. CASE h[i].c # "none" /\ Parent(h[i].to)
    <3>1. /\ h'[i].pc = "parent" /\ h'[i].c = h[i].c /\ h'[i].o = h[i].o /\ h'[i].to = h[i].to
        BY <1>1, <2>6, GotoDoes DEF Move
    <3>2. h[i].o # 0
        BY <1>1, <2>2 DEF IInv, TypeOK
    <3>3. Knows(i)'
        BY <1>1, <1>2, <2>2, <2>5, <2>6, <3>1, <3>2 DEF Knows, Half
    <3> QED
        BY <2>3, <2>4, <3>1, <3>3 DEF Half
  <2>7. CASE ~(h[i].c # "none" /\ Parent(h[i].to))
    <3>1. h'[i].pc = "idle"
        BY <1>1, <2>7, FinishDoes DEF Move
    <3>2. Knows(i)'
        BY <3>1 DEF Knows, Half
    <3>3. ASSUME NEW c \in Complaints, c = h[i].c PROVE Told(c)'
      <4>1. /\ complaint[c].order = h[i].o /\ complaint[c].status # "CLOSED"
            /\ h[i].to \notin {"IN_PROGRESS", "ON_HOLD", "COMPLETED", "CANCELLED"}
          BY <2>2, <2>5, <2>7, <3>3, HelpdeskAssumption DEF Parent, Follows
      <4>2. orders'[h[i].o].status = h[i].to /\ complaint'[c] = complaint[c]
          BY <1>1, <1>2, <2>2
      <4> QED
          BY <4>1, <4>2 DEF Told, Agree
    <3> QED
        BY <2>3, <2>4, <3>2, <3>3
  <2> QED
      BY <2>6, <2>7
<1> QED
    BY <1>1, <1>3, StoryStep

LEMMA StoryMoveParent == ASSUME SInv, NEW i \in Handlers, MoveParent(i) PROVE Story'
<1>1. Advance(i) /\ InFlight(i) /\ IInv /\ orders' = orders
    BY DEF Advance, MoveParent, At, InFlight, SInv
<1>2. Given(h[i].c, Follows[h[i].to]) /\ h[i].to \in DOMAIN Follows
  <2>1. complaint' = [complaint EXCEPT ![h[i].c].status = Follows[h[i].to]]
      BY DEF MoveParent
  <2>2. h[i].to \in DOMAIN Follows
      BY <1>1 DEF MoveParent, At, IInv, Fitting, Fits
  <2> QED
      BY <1>1, <2>1, <2>2, ComplaintGiven
<1>3. ASSUME clean
      PROVE  /\ \A c \in Complaints : Linked(c)' /\ Told(c)'
             /\ Knows(i)'
  <2>1. /\ \A c \in Complaints : Linked(c)
        /\ \A c \in Complaints : Told(c) \/ h[i].c = c
        /\ Knows(i)
      BY <1>1, <1>3, StoryBefore
  <2>2. PICK d \in Complaints : /\ d = h[i].c /\ complaint[d].order = h[i].o
                                /\ orders[h[i].o].status = h[i].to
      BY <2>1 DEF MoveParent, At, Knows, Half
  <2>3. \A c \in Complaints : Linked(c)'
      BY <1>1, <1>2, <2>1 DEF Linked, Given
  <2>4. \A c \in Complaints : c # d => Told(c)'
      BY <1>1, <1>2, <2>1, <2>2 DEF Told, Agree, Given
  <2>5. Told(d)'
    <3>1. /\ complaint'[d].order = h[i].o /\ orders'[h[i].o].status = h[i].to
          /\ complaint'[d].status = Follows[h[i].to]
        BY <1>1, <1>2, <2>2 DEF Given
    <3> QED
        BY <1>2, <3>1 DEF Told, Agree, Follows
  <2>6. h'[i].pc = "idle"
      BY <1>1, FinishDoes DEF MoveParent
  <2>7. Knows(i)'
      BY <2>6 DEF Knows, Half
  <2> QED
      BY <2>3, <2>4, <2>5, <2>7
<1> QED
    BY <1>1, <1>3, StoryStep

(* The rest leaves the story alone, or is not by the book.                 *)
LEMMA StoryRest ==
    ASSUME SInv, NEW i \in Handlers,
           \/ AutoAssign(i) \/ CountOrder(i) \/ RateRead(i) \/ RateWrite(i) \/ SetWrite(i)
           \/ \E c \in Complaints : Escalate(i, c)
    PROVE  Story'
<1>1. Advance(i) /\ InFlight(i) /\ IInv /\ h \in [Handlers -> Local] /\ orders' = orders
    BY DEF Advance, AutoAssign, CountOrder, RateRead, RateWrite, SetWrite, Escalate, At,
           InFlight, SInv, IInv, TypeOK
<1>2. CASE AutoAssign(i)
  <2>0. PICK v : h' = [h EXCEPT ![i].pc = "order", ![i].who = v]
      BY <1>2 DEF AutoAssign
  <2>a. h[i].pc = "load" /\ complaint' = complaint
      BY <1>2 DEF AutoAssign, At
  <2>b. h'[i].pc = "order" /\ h'[i].c = h[i].c
      BY <1>1, <2>0 DEF Local
  <2>1. h[i].pc = "load" /\ h'[i].pc = "order" /\ h'[i].c = h[i].c /\ complaint' = complaint
      BY <2>a, <2>b
  <2>2. ASSUME clean PROVE Knows(i)'
    <3>1. h[i].c \in Complaints
        BY <1>1, <2>1, <2>2, StoryBefore DEF Knows
    <3> QED
        BY <2>1, <3>1 DEF Knows, Half
  <2> QED
      BY <1>1, <2>1, <2>2, StoryQuiet DEF Half
<1>3. CASE CountOrder(i) \/ RateRead(i) \/ RateWrite(i)
  <2>1. h[i].pc \notin Half /\ complaint' = complaint
      BY <1>3 DEF CountOrder, RateRead, RateWrite, At, Half
  <2>2. h'[i].pc \in {"idle", "rated"}
      BY <1>1, <1>3, FinishDoes DEF CountOrder, RateRead, RateWrite, Local
  <2>3. Knows(i)'
      BY <2>2 DEF Knows, Half
  <2> QED
      BY <1>1, <2>1, <2>3, StoryQuiet
<1>4. CASE SetWrite(i)
  <2>1. ~clean
      BY <1>1, <1>4, StoryBefore DEF SetWrite, At, Knows
  <2> QED
      BY <1>1, <2>1, StoryStep
<1>5. ASSUME NEW c \in Complaints, Escalate(i, c) PROVE Story'
  <2>1. h[i].pc \notin Half
      BY <1>5 DEF Escalate, At, Half
  <2>2. ASSUME NEW d \in Complaints
        PROVE  complaint'[d].status = complaint[d].status /\ complaint'[d].order = complaint[d].order
    <3>1. complaint \in [Complaints -> Complaint]
        BY <1>1 DEF IInv, TypeOK
    <3> QED
        BY <1>5, <3>1 DEF Escalate, Complaint
  <2>3. h'[i].pc \in {"idle", "escalate"}
      BY <1>1, <1>5, FinishDoes DEF Escalate, At, Local
  <2>4. Knows(i)'
      BY <2>3 DEF Knows, Half
  <2> QED
      BY <1>1, <2>1, <2>2, <2>4, StoryQuiet
<1> QED
    BY <1>2, <1>3, <1>4, <1>5

-----------------------------------------------------------------------------
(* A request that begins by the book finds the story told.                 *)

LEMMA StoryBegins ==
    ASSUME SInv, NEW i \in Handlers, NEW local \in Local, NEW b \in BOOLEAN,
           Begin(i, local, b), local.pc \notin Half \cup {"assign", "status"},
           local.pc \in {"create", "load", "order", "verdict", "reopen", "close"}
              => local.c \in Complaints,
           local.pc \in {"verdict", "reopen", "close"} => complaint[local.c].order = local.o,
           local.pc = "move" /\ b /\ (\A c \in Complaints : Told(c)) =>
              /\ local.o \in DOMAIN orders /\ orders[local.o].complaint = local.c
              /\ local.c # "none" => /\ complaint[local.c].order = local.o
                                     /\ complaint[local.c].status # "CLOSED"
    PROVE  Story'
<1>0. IInv
    BY DEF SInv
<1>1. /\ ~InFlight(i) /\ clean' = (clean /\ b /\ Undisturbed(i))
      /\ h'[i] = [local EXCEPT !.alone = Undisturbed(i)]
      /\ \A j \in Handlers \ {i} : h'[j].pc = h[j].pc
      /\ UNCHANGED <<complaint, orders>>
    BY <1>0, BeginMoves
<1>2. h'[i].pc = local.pc /\ h'[i].c = local.c /\ h'[i].o = local.o
    BY <1>1 DEF Local
<1>3. ASSUME clean'
      PROVE  /\ \A c \in Complaints : Linked(c)' /\ Told(c)'
             /\ \A j \in Handlers : Knows(j)'
  <2>1. clean /\ b /\ \A j \in Handlers : h[j].pc = "idle"
      BY <1>1, <1>3 DEF Undisturbed, InFlight
  <2>2. \A c \in Complaints : Linked(c) /\ Told(c)
      BY <2>1 DEF SInv, Story, Half
  <2>3. \A c \in Complaints : Linked(c)' /\ Told(c)'
      BY <1>1, <2>2 DEF Linked, Told, Agree
  <2>4. Knows(i)'
      BY <1>1, <1>2, <2>1, <2>2 DEF Knows, Half
  <2>5. \A j \in Handlers \ {i} : Knows(j)'
      BY <1>1, <2>1 DEF Knows, Half
  <2> QED
      BY <2>3, <2>4, <2>5
<1> QED
    BY <1>3 DEF Story

LEMMA StoryRequest == ASSUME SInv, NEW i \in Handlers, Request(i) PROVE Story'
<1> USE HelpdeskAssumption
<1>0. /\ complaint \in [Complaints -> Complaint]
      /\ orders \in Seq(Order)
      /\ \A local : local \in Fitting => local \in Local
    BY DEF SInv, IInv, TypeOK, Fitting
<1>1. ASSUME NEW c \in Complaints, Raise(i, c) PROVE Story'
  <2> DEFINE local == [Idle EXCEPT !.pc = "create", !.c = c]
  <2>1. local \in Local /\ local.pc = "create" /\ local.c = c
      BY DEF Idle, Local, Steps, Assignees, ComplaintStatus
  <2>2. (\A j \in Handlers : h[j].c # c) \in BOOLEAN
      OBVIOUS
  <2>3. Begin(i, local, \A j \in Handlers : h[j].c # c)
      BY <1>1 DEF Raise
  <2> HIDE DEF local
  <2> QED
      BY <2>1, <2>2, <2>3, StoryBegins DEF Half
<1>2. ASSUME NEW c \in Complaints, NEW step \in {"reopen", "close"},
             Begin(i, [Idle EXCEPT !.pc = step, !.c = c, !.o = complaint[c].order], TRUE)
      PROVE  Story'
  <2>0. PICK o \in Nat : o = complaint[c].order
      BY <1>0 DEF Complaint
  <2> DEFINE local == [Idle EXCEPT !.pc = step, !.c = c, !.o = o]
  <2>1. local \in Local /\ local.pc = step /\ local.c = c /\ local.o = o
      BY DEF Idle, Local, Steps, Assignees, ComplaintStatus
  <2>2. Begin(i, local, TRUE)
      BY <1>2, <2>0
  <2> HIDE DEF local
  <2> QED
      BY <2>0, <2>1, <2>2, StoryBegins DEF Half
<1>3. ASSUME NEW c \in Complaints, NEW who \in Assignees, Assign(i, c, who) PROVE Story'
  <2> DEFINE local == [Idle EXCEPT !.pc = "order", !.c = c, !.who = who]
  <2>1. local \in Local /\ local.pc = "order" /\ local.c = c
      BY DEF Idle, Local, Steps, ComplaintStatus
  <2>2. Begin(i, local, TRUE)
      BY <1>3 DEF Assign
  <2> HIDE DEF local
  <2> QED
      BY <2>1, <2>2, StoryBegins DEF Half
<1>4. ASSUME NEW c \in Complaints, NEW b \in BOOLEAN, Verify(i, c, b) PROVE Story'
  <2>0. PICK o \in Nat, who \in Assignees : o = complaint[c].order /\ who = complaint[c].who
      BY <1>0 DEF Complaint
  <2> DEFINE local == [Idle EXCEPT !.pc = "verdict", !.c = c, !.flag = b, !.o = o, !.who = who]
  <2>1. local \in Local /\ local.pc = "verdict" /\ local.c = c /\ local.o = o
      BY DEF Idle, Local, Steps, ComplaintStatus
  <2>2. Begin(i, local, TRUE)
      BY <1>4, <2>0 DEF Verify
  <2> HIDE DEF local
  <2> QED
      BY <2>0, <2>1, <2>2, StoryBegins DEF Half
<1>5. ASSUME NEW c \in Complaints, NEW s \in ComplaintStatus, SetStatus(i, c, s) PROVE Story'
  <2> DEFINE local == [Idle EXCEPT !.pc = "status", !.c = c, !.to = s]
  <2>1. local \in Local
      BY DEF Idle, Local, Steps, Assignees
  <2>2. ~clean'
      BY <1>5, <2>1, BeginMoves DEF SetStatus, SInv
  <2> QED
      BY <2>2 DEF Story
<1>6. ASSUME NEW o \in DOMAIN orders, NEW s \in OrderStatus, Progress(i, o, s) PROVE Story'
  <2>0. orders[o] \in Order /\ o \in Nat /\ o # 0
      BY <1>0
  <2>1. PICK c \in Complaints \cup {"none"} : c = orders[o].complaint
      BY <2>0 DEF Order
  <2>2. PICK b \in BOOLEAN : b = (c # "none" => complaint[c].order = o)
      OBVIOUS
  <2> DEFINE local == [Idle EXCEPT !.pc = "move", !.o = o, !.to = s, !.c = c]
  <2>3. local \in Local /\ local.pc = "move" /\ local.c = c /\ local.o = o
      BY <2>0 DEF Idle, Local, Steps, Assignees
  <2>4. Begin(i, local, b) /\ orders[o].status # "CLOSED"
      BY <1>6, <2>1, <2>2 DEF Progress
  <2>5. ASSUME b, \A d \in Complaints : Told(d), c # "none"
        PROVE  complaint[c].order = o /\ complaint[c].status # "CLOSED"
      BY <2>0, <2>2, <2>4, <2>5 DEF Told, Agree
  <2> HIDE DEF local
  <2> QED
      BY <2>1, <2>3, <2>4, <2>5, StoryBegins DEF Half
<1>7. ASSUME NEW who \in Assignees, NEW step \in {"open", "rate"},
             Begin(i, [Idle EXCEPT !.pc = step, !.who = who], TRUE)
      PROVE  Story'
  <2> DEFINE local == [Idle EXCEPT !.pc = step, !.who = who]
  <2>1. local \in Local /\ local.pc = step
      BY DEF Idle, Local, Steps, ComplaintStatus
  <2>2. Begin(i, local, TRUE)
      BY <1>7
  <2> HIDE DEF local
  <2> QED
      BY <2>1, <2>2, StoryBegins DEF Half
<1>8. CASE Sweep(i)
  <2> DEFINE stale == {c \in Complaints : /\ complaint[c].status \in {"OPEN", "ASSIGNED"}
                                          /\ ~complaint[c].escalated}
             level == [c \in Complaints |-> complaint[c].level]
             local == [Idle EXCEPT !.pc = "escalate", !.todo = stale, !.level = level]
  <2>1. stale \subseteq Complaints /\ level \in [Complaints -> Nat]
      BY <1>0 DEF Complaint
  <2>2. Begin(i, local, TRUE)
      BY <1>8 DEF Sweep
  <2> HIDE DEF stale, level
  <2>3. local \in Local /\ local.pc = "escalate"
      BY <2>1 DEF Idle, Local, Steps, Assignees, ComplaintStatus
  <2> HIDE DEF local
  <2> QED
      BY <2>2, <2>3, StoryBegins DEF Half
<1>9. Vendors \subseteq Assignees
    BY DEF Assignees
<1> QED
    BY <1>1, <1>2, <1>3, <1>4, <1>5, <1>6, <1>7, <1>8, <1>9
       DEF Request, Reopen, Close, OpenOrder, RefreshRating

-----------------------------------------------------------------------------
(* Hence, in every reachable state:                                        *)

LEMMA StoryInit == Init => SInv
<1> SUFFICES ASSUME Init PROVE SInv
    OBVIOUS
<1>1. IInv
    BY InvInit
<1>2. \A i \in Handlers : h[i].pc = "idle"
    BY DEF Init, Idle
<1>3. \A c \in Complaints : complaint[c].order = 0
    BY DEF Init, NoComplaint
<1> QED
    BY <1>1, <1>2, <1>3
       DEF SInv, Solo, CleanIsAlone, InFlight, Recounted, Story, Linked, Told, Knows, Half

LEMMA StoryRequestKeeps == ASSUME SInv, NEW i \in Handlers, Request(i) PROVE SInv'
<1>1. PICK local \in Fitting, b \in BOOLEAN : /\ local.pc \notin {"idle", "rated"}
                                              /\ local.pc = "rate" => local.who \in Vendors
                                              /\ Begin(i, local, b)
    BY RequestBegins DEF Begins, SInv
<1>2. local \in Local
    BY DEF Fitting
<1>3. Solo' /\ CleanIsAlone'
    BY <1>1, <1>2, SoloKept
<1>4. /\ h'[i] = [local EXCEPT !.alone = Undisturbed(i)] /\ orders' = orders
      /\ \A j \in Handlers \ {i} : /\ h'[j].pc = h[j].pc /\ h'[j].who = h[j].who
                                   /\ h[j].pc = "idle" => h'[j] = h[j]
                                   /\ h[j].pc # "idle" => ~h'[j].alone
    BY <1>1, <1>2, BeginMoves DEF SInv
<1>5. h'[i].pc = local.pc /\ h'[i].who = local.who
    BY <1>2, <1>4 DEF Local
<1>6. Recounted(i)'
    BY <1>1, <1>5 DEF Recounted
<1>7. ASSUME NEW j \in Handlers \ {i} PROVE Recounted(j)'
    BY <1>4 DEF SInv, Recounted
<1> QED
    BY <1>3, <1>6, <1>7, RequestKeeps, StoryRequest DEF SInv

LEMMA StoryAdvanceKeeps == ASSUME SInv, NEW i \in Handlers, Advance(i) PROVE SInv'
<1>1. IInv'
    BY AdvanceKeeps DEF SInv
<1>2. Story'
    BY StoryWritesOrders, StoryCreate, StoryAssign, StoryHalf, StoryWhole, StoryMove,
       StoryMoveParent, StoryRest DEF Advance
<1> QED
    BY <1>1, <1>2, SoloKept, RecountStep DEF SInv

LEMMA StoryAbortKeeps == ASSUME SInv, NEW i \in Handlers, Abort(i) PROVE SInv'
<1>1. h'[i].pc = "idle" /\ InFlight(i) /\ \A j \in Handlers \ {i} : h'[j] = h[j]
    BY FinishDoes DEF Abort, SInv, InFlight
<1>2. \A j \in Handlers : Recounted(j)'
    BY <1>1, RecountKept
<1>3. Story'
    BY DEF Abort, Story
<1> QED
    BY <1>2, <1>3, SoloKept, AbortKeeps DEF SInv

LEMMA StoryNext == SInv /\ [Next]_vars => SInv'
<1> SUFFICES ASSUME SInv, [Next]_vars PROVE SInv'
    OBVIOUS
<1>1. CASE UNCHANGED vars
  <2>1. IInv'
      BY <1>1, InvNext DEF SInv
  <2>2. Solo' /\ CleanIsAlone'
      BY <1>1 DEF vars, SInv, Solo, CleanIsAlone, InFlight
  <2>3. \A i \in Handlers : Recounted(i)'
      BY <1>1 DEF vars, SInv, Recounted, OrdersOf, Over
  <2>4. Story'
      BY <1>1 DEF vars, SInv, Story, Linked, Told, Agree, Knows
  <2> QED
      BY <2>1, <2>2, <2>3, <2>4 DEF SInv
<1>2. CASE Next
    BY <1>2, StoryRequestKeeps, StoryAdvanceKeeps, StoryAbortKeeps DEF Next
<1> QED
    BY <1>1, <1>2

(* As long as requests come one at a time and by the book, a complaint and *)
(* its order tell the same story whenever none is in flight, through any   *)
(* sequence of assignments, progress, verdicts, reopening and closing      *)
(* (helpdeskService.ts 299-314, 430-454, 499-559, 585-601, 624-646).       *)
THEOREM InStepCorrect == Spec => []InStep
<1>1. SInv => InStep
  <2> SUFFICES ASSUME SInv, clean, \A i \in Handlers : h[i].pc = "idle",
                      NEW c \in Complaints, complaint[c].order # 0
               PROVE  Agree(c)
      BY DEF InStep
  <2> QED
      BY DEF SInv, Story, Told, Half
<1> QED
    BY StoryInit, StoryNext, <1>1, PTL DEF Spec

(* A recount that no other request came beside leaves the vendor's record  *)
(* with what the orders say (helpdeskService.ts 752-764): nobody wrote an  *)
(* order between its count and its update.                                 *)
THEOREM RecountRepairsCorrect == Spec => RecountRepairs
<1> DEFINE Repaired(i) ==
      h[i].pc = "rated" /\ h[i].alone /\ died' = died /\ h'[i] = Idle =>
          LET v == h[i].who
              over == {"COMPLETED", "VERIFIED", "CLOSED"}
          IN vendor'[v] = [total |-> Cardinality(OrdersOf(v)),
                           done |-> Cardinality({o \in OrdersOf(v) : orders[o].status \in over})]
<1>1. ASSUME SInv, [Next]_vars, NEW i \in Handlers PROVE Repaired(i)
  <2> SUFFICES ASSUME h[i].pc = "rated", h[i].alone, died' = died, h'[i] = Idle
               PROVE  vendor'[h[i].who] =
                        [total |-> Cardinality(OrdersOf(h[i].who)),
                         done |-> Cardinality({o \in OrdersOf(h[i].who) :
                                     orders[o].status \in {"COMPLETED", "VERIFIED", "CLOSED"}})]
      OBVIOUS
  <2>1. h'[i].pc = "idle" /\ IInv
      BY <1>1 DEF Idle, SInv
  <2>2. RateWrite(i)
    <3>1. ~UNCHANGED vars
        BY <2>1 DEF vars
    <3>2. PICK j \in Handlers : Request(j) \/ Advance(j) \/ Abort(j)
        BY <1>1, <3>1 DEF Next
    <3>3. CASE Request(j)
      <4>1. PICK local \in Local, b \in BOOLEAN : local.pc # "idle" /\ Begin(j, local, b)
          BY <2>1, <3>3, RequestBegins DEF Begins, Fitting
      <4>2. h'[i].pc # "idle"
        <5>1. h[j].pc = "idle" /\ i \in Handlers \ {j}
            BY <4>1 DEF Begin
        <5> QED
            BY <2>1, <4>1, <5>1, BeginMoves
      <4> QED
          BY <2>1, <4>2
    <3>4. CASE Abort(j)
      <4>1. died \in Nat /\ died' = died + 1
          BY <2>1, <3>4, HelpdeskAssumption DEF Abort, IInv, TypeOK
      <4> QED
          BY <4>1
    <3>5. CASE Advance(j)
      <4>1. i = j
          BY <2>1, <3>5, AdvanceMoves
      <4> QED
          BY <3>5, <4>1 DEF Advance, Create, AutoAssign, CreateOrder, AssignWrite, CountOrder,
             OpenWrite, Move, MoveParent, Verdict, VerdictOrder, ReopenWrite, ReopenOrder,
             CloseWrite, CloseOrder, SetWrite, Escalate, RateRead, At
    <3> QED
        BY <3>2, <3>3, <3>4, <3>5
  <2>3. PICK v \in Vendors : v = h[i].who
      BY <1>1 DEF SInv, Recounted
  <2>4. vendor'[v] = [total |-> h[i].total, done |-> h[i].done]
      BY <2>1, <2>2, <2>3 DEF RateWrite, IInv, TypeOK
  <2>5. h[i].total = Cardinality(OrdersOf(v)) /\ h[i].done = Cardinality(Over(v))
      BY <1>1, <2>3 DEF SInv, Recounted
  <2>6. Over(v) = {o \in OrdersOf(v) : orders[o].status \in {"COMPLETED", "VERIFIED", "CLOSED"}}
      BY DEF Over, Done
  <2> QED
      BY <2>3, <2>4, <2>5, <2>6
<1>2. SInv /\ [Next]_vars => [\A i \in Handlers : Repaired(i)]_vars
    BY <1>1
<1> QED
    BY StoryInit, StoryNext, <1>2, PTL DEF Spec, RecountRepairs
=============================================================================
