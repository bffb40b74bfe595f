------------------------------ MODULE Helpdesk ------------------------------
(***************************************************************************)
(* Complaints and their work orders: helpdeskService.ts behind             *)
(* helpdeskRouter.ts, and the SLA sweep of the scheduler.  Every handler   *)
(* reads, decides and then writes complaint, work order and vendor one     *)
(* after the other; handlers are split at those awaits.                    *)
(*                                                                         *)
(* An order is named by its place in the collection.  Left out: comments,  *)
(* service requests, costs, notifications, and the staff rules of the      *)
(* automatic assignment, which look for a field staff do not have and so   *)
(* leave the complaint open.                                               *)
(***************************************************************************)
EXTENDS Integers, Sequences, FiniteSets

CONSTANTS
    Complaints,    \* complaints that may be raised
    Vendors,       \* vendors of the service category
    MaxOrders,     \* bound: work orders in the collection
    Handlers,      \* requests the API can be serving at the same time
    MaxRequests,   \* bound: requests served in a behaviour
    MaxAborts      \* bound: requests that die in a behaviour

ASSUME HelpdeskAssumption ==
    /\ Vendors # {}
    /\ MaxOrders \in Nat /\ MaxRequests \in Nat /\ MaxAborts \in Nat
    /\ "office" \notin Vendors
    /\ "none" \notin Complaints

VARIABLES
    complaint,     \* the complaints collection
    orders,        \* the work_orders collection
    vendor,        \* what a vendor's record counts: orders, and orders done
    h,             \* what each request in flight holds
    started,       \* requests started so far
    died,          \* requests that died so far
    clean          \* history: requests came one at a time and by the book

vars == <<complaint, orders, vendor, h, started, died, clean>>

-----------------------------------------------------------------------------
ComplaintStatus == {"OPEN", "ASSIGNED", "IN_PROGRESS", "ON_HOLD", "RESOLVED", "CLOSED",
                    "REJECTED", "REOPENED"}
OrderStatus == {"CREATED", "ASSIGNED", "IN_PROGRESS", "ON_HOLD", "COMPLETED", "VERIFIED",
                "CLOSED", "CANCELLED"}
Assignees == Vendors \cup {"office"}

Complaint == [status : ComplaintStatus \cup {"NONE"}, order : Nat, who : Assignees,
              verified : BOOLEAN, escalated : BOOLEAN, level : Nat]
NoComplaint == [status |-> "NONE", order |-> 0, who |-> "office", verified |-> FALSE,
                escalated |-> FALSE, level |-> 0]
Order == [complaint : Complaints \cup {"none"}, who : Assignees, status : OrderStatus]

Steps == {"idle", "create", "load", "order", "assign", "count", "open", "move", "parent",
          "verdict", "verdictOrder", "reopen", "reopenOrder", "close", "closeOrder",
          "status", "escalate", "rate", "rated"}
Local == [pc : Steps, c : Complaints \cup {"none"}, o : Nat, who : Assignees,
          to : ComplaintStatus \cup OrderStatus, flag : BOOLEAN,
          todo : SUBSET Complaints, level : [Complaints -> Nat], total : Nat, done : Nat, alone : BOOLEAN]
Idle == [pc |-> "idle", c |-> "none", o |-> 0, who |-> "office", to |-> "OPEN", flag |-> FALSE,
         todo |-> {}, level |-> [c \in Complaints |-> 0], total |-> 0, done |-> 0,
         alone |-> TRUE]

TypeOK ==
    /\ complaint \in [Complaints -> Complaint]
    /\ orders \in Seq(Order)
    /\ vendor \in [Vendors -> [total : Nat, done : Nat]]
    /\ h \in [Handlers -> Local]
    /\ started \in 0..MaxRequests
    /\ died \in 0..MaxAborts
    /\ clean \in BOOLEAN

Init ==
    /\ complaint = [c \in Complaints |-> NoComplaint]
    /\ orders = <<>>
    /\ vendor = [v \in Vendors |-> [total |-> 0, done |-> 0]]
    /\ h = [i \in Handlers |-> Idle]
    /\ started = 0
    /\ died = 0
    /\ clean = TRUE

-----------------------------------------------------------------------------
Undisturbed(i) == \A j \in Handlers \ {i} : h[j].pc = "idle"

(* A request that finds others in flight is not alone, nor are they now.   *)
Begin(i, local, byTheBook) ==
    /\ h[i].pc = "idle"
    /\ started < MaxRequests
    /\ started' = started + 1
    /\ h' = [j \in Handlers |->
               IF j = i THEN [local EXCEPT !.alone = Undisturbed(i)]
               ELSE IF h[j].pc = "idle" THEN h[j] ELSE [h[j] EXCEPT !.alone = FALSE]]
    /\ clean' = (clean /\ byTheBook /\ Undisturbed(i))
    /\ UNCHANGED <<complaint, orders, vendor, died>>

At(i, step) == h[i].pc = step /\ UNCHANGED <<started, died, clean>>
Goto(i, step) == h' = [h EXCEPT ![i].pc = step]
Finish(i) == h' = [h EXCEPT ![i] = Idle]

Abort(i) ==
    /\ h[i].pc # "idle"
    /\ died < MaxAborts
    /\ died' = died + 1
    /\ clean' = FALSE
    /\ Finish(i)
    /\ UNCHANGED <<complaint, orders, vendor, started>>

Exists(c) == complaint[c].status # "NONE"

-----------------------------------------------------------------------------
(* createComplaint; a category may have a rule that names a vendor.        *)
Raise(i, c) ==
    /\ ~Exists(c)
    /\ Begin(i, [Idle EXCEPT !.pc = "create", !.c = c], \A j \in Handlers : h[j].c # c)

Create(i) ==
    /\ At(i, "create")
    /\ ~Exists(h[i].c)
    /\ complaint' = [complaint EXCEPT ![h[i].c] = [NoComplaint EXCEPT !.status = "OPEN"]]
    /\ Goto(i, "load") \/ Finish(i)
    /\ UNCHANGED <<orders, vendor>>

(* autoAssign: the vendor with the fewest orders that are not over.        *)
Load(v) == Cardinality({o \in DOMAIN orders : /\ orders[o].who = v
             /\ orders[o].status \notin {"CLOSED", "CANCELLED", "COMPLETED", "VERIFIED"}})

AutoAssign(i) ==
    /\ At(i, "load")
    /\ \E v \in Vendors :
         /\ \A w \in Vendors : Load(v) <= Load(w)
         /\ h' = [h EXCEPT ![i].pc = "order", ![i].who = v]
    /\ UNCHANGED <<complaint, orders, vendor>>

(* assignComplaint, by the office and as often as it likes.                *)
Assign(i, c, who) ==
    /\ complaint[c].status \notin {"NONE", "CLOSED", "REJECTED"}
    /\ Begin(i, [Idle EXCEPT !.pc = "order", !.c = c, !.who = who], TRUE)

(* applyAssignment: the order, the complaint, the vendor's counter.        *)
CreateOrder(i) ==
    /\ At(i, "order")
    /\ Len(orders) < MaxOrders
    /\ orders' = Append(orders, [complaint |-> h[i].c, who |-> h[i].who, status |-> "ASSIGNED"])
    /\ h' = [h EXCEPT ![i].pc = "assign", ![i].o = Len(orders')]
    /\ UNCHANGED <<complaint, vendor>>

AssignWrite(i) ==
    /\ At(i, "assign")
    /\ complaint' = [complaint EXCEPT ![h[i].c].status = "ASSIGNED", ![h[i].c].order = h[i].o,
                                      ![h[i].c].who = h[i].who]
    /\ IF h[i].who \in Vendors THEN Goto(i, "count") ELSE Finish(i)
    /\ UNCHANGED <<orders, vendor>>

CountOrder(i) ==
    /\ At(i, "count")
    /\ vendor' = [vendor EXCEPT ![h[i].who].total = @ + 1]
    /\ Finish(i)
    /\ UNCHANGED <<complaint, orders>>

(* An order opened by hand, of no complaint and counted nowhere.           *)
OpenOrder(i, who) == Begin(i, [Idle EXCEPT !.pc = "open", !.who = who], TRUE)

OpenWrite(i) ==
    /\ At(i, "open")
    /\ Len(orders) < MaxOrders
    /\ orders' = Append(orders, [complaint |-> "none", who |-> h[i].who, status |-> "CREATED"])
    /\ Finish(i)
    /\ UNCHANGED <<complaint, vendor>>

-----------------------------------------------------------------------------
(* updateWorkOrderStatus; STARTED is IN_PROGRESS here.  Only the order the *)
(* complaint names is by the book, but any that is not closed may be moved.*)
Progress(i, o, status) ==
    /\ orders[o].status \notin {"CLOSED", "CANCELLED"}
    /\ LET c == orders[o].complaint IN
         Begin(i, [Idle EXCEPT !.pc = "move", !.o = o, !.to = status, !.c = c],
               c # "none" => complaint[c].order = o)

(* What a status of the order makes of its complaint.                      *)
Follows == [IN_PROGRESS |-> "IN_PROGRESS", ON_HOLD |-> "ON_HOLD", COMPLETED |-> "RESOLVED",
            CANCELLED |-> "OPEN"]

(* Mutant of Parent: a cancelled order leaves its complaint assigned.      *)
ParentNot(status) == status \in DOMAIN Follows \ {"CANCELLED"}

Parent(status) == status \in DOMAIN Follows

Move(i) ==
    /\ At(i, "move")
    /\ orders' = [orders EXCEPT ![h[i].o].status = h[i].to]
    /\ IF h[i].c # "none" /\ Parent(h[i].to) THEN Goto(i, "parent") ELSE Finish(i)
    /\ UNCHANGED <<complaint, vendor>>

MoveParent(i) ==
    /\ At(i, "parent")
    /\ complaint' = [complaint EXCEPT ![h[i].c].status = Follows[h[i].to]]
    /\ Finish(i)
    /\ UNCHANGED <<orders, vendor>>

-----------------------------------------------------------------------------
(* verifyComplaint: the resident agrees, or sends the work back.           *)
Verify(i, c, agreed) ==
    /\ complaint[c].status \in {"RESOLVED", "IN_PROGRESS", "ASSIGNED"}
    /\ Begin(i, [Idle EXCEPT !.pc = "verdict", !.c = c, !.flag = agreed,
                   !.o = complaint[c].order, !.who = complaint[c].who], TRUE)

AfterVerdict(i) ==
    IF h[i].flag /\ h[i].who \in Vendors THEN Goto(i, "rate") ELSE Finish(i)

Verdict(i) ==
    /\ At(i, "verdict")
    /\ complaint' = [complaint EXCEPT ![h[i].c].verified = h[i].flag,
                       ![h[i].c].status = IF h[i].flag THEN "CLOSED" ELSE "REOPENED"]
    /\ IF h[i].o = 0 THEN AfterVerdict(i) ELSE Goto(i, "verdictOrder")
    /\ UNCHANGED <<orders, vendor>>

VerdictOrder(i) ==
    /\ At(i, "verdictOrder")
    /\ orders' = [orders EXCEPT ![h[i].o].status = IF h[i].flag THEN "CLOSED" ELSE "IN_PROGRESS"]
    /\ AfterVerdict(i)
    /\ UNCHANGED <<complaint, vendor>>

(* reopenComplaint, inside the window.                                     *)
Reopen(i, c) ==
    /\ complaint[c].status = "CLOSED"
    /\ Begin(i, [Idle EXCEPT !.pc = "reopen", !.c = c, !.o = complaint[c].order], TRUE)

ReopenWrite(i) ==
    /\ At(i, "reopen")
    /\ complaint' = [complaint EXCEPT ![h[i].c].status = "REOPENED", ![h[i].c].verified = FALSE]
    /\ IF h[i].o = 0 THEN Finish(i) ELSE Goto(i, "reopenOrder")
    /\ UNCHANGED <<orders, vendor>>

ReopenOrder(i) ==
    /\ At(i, "reopenOrder")
    /\ orders' = [orders EXCEPT ![h[i].o].status = "IN_PROGRESS"]
    /\ Finish(i)
    /\ UNCHANGED <<complaint, vendor>>

(* closeComplaint: of a complaint the resident has verified, or by force.  *)
Close(i, c, force) ==
    /\ complaint[c].status \notin {"NONE", "CLOSED"}
    /\ complaint[c].verified \/ force
    /\ Begin(i, [Idle EXCEPT !.pc = "close", !.c = c, !.o = complaint[c].order], TRUE)

CloseWrite(i) ==
    /\ At(i, "close")
    /\ complaint' = [complaint EXCEPT ![h[i].c].status = "CLOSED"]
    /\ IF h[i].o = 0 THEN Finish(i) ELSE Goto(i, "closeOrder")
    /\ UNCHANGED <<orders, vendor>>

CloseOrder(i) ==
    /\ At(i, "closeOrder")
    /\ orders' = [orders EXCEPT ![h[i].o].status = "CLOSED"]
    /\ Finish(i)
    /\ UNCHANGED <<complaint, vendor>>

(* PATCH /complaints/:id/status: any status, and the order is left alone.  *)
SetStatus(i, c, status) ==
    /\ Exists(c)
    /\ Begin(i, [Idle EXCEPT !.pc = "status", !.c = c, !.to = status], FALSE)

SetWrite(i) ==
    /\ At(i, "status")
    /\ complaint' = [complaint EXCEPT ![h[i].c].status = h[i].to]
    /\ Finish(i)
    /\ UNCHANGED <<orders, vendor>>

-----------------------------------------------------------------------------
(* sweepSla: complaints that nobody has begun to work on are escalated.    *)
Sweep(i) ==
    LET stale == {c \in Complaints : /\ complaint[c].status \in {"OPEN", "ASSIGNED"}
                                     /\ ~complaint[c].escalated}
    IN /\ stale # {}
       /\ Begin(i, [Idle EXCEPT !.pc = "escalate", !.todo = stale,
                      !.level = [c \in Complaints |-> complaint[c].level]], TRUE)

(* Mutant of Raised: an increment instead of the level that was read.      *)
RaisedOnTop(i, c) == complaint[c].level + 1

Raised(i, c) == h[i].level[c] + 1

Escalate(i, c) ==
    /\ At(i, "escalate")
    /\ c \in h[i].todo
    /\ complaint' = [complaint EXCEPT ![c].escalated = TRUE, ![c].level = Raised(i, c)]
    /\ IF h[i].todo = {c} THEN Finish(i) ELSE h' = [h EXCEPT ![i].todo = @ \ {c}]
    /\ UNCHANGED <<orders, vendor>>

-----------------------------------------------------------------------------
(* refreshVendorRating, asked for by the office or after a verdict.        *)
RefreshRating(i, v) == Begin(i, [Idle EXCEPT !.pc = "rate", !.who = v], TRUE)

(* Mutant of Done: closed orders are not counted as done.                  *)
DoneOpen(status) == status \in {"COMPLETED", "VERIFIED"}

Done(status) == status \in {"COMPLETED", "VERIFIED", "CLOSED"}

OrdersOf(v) == {o \in DOMAIN orders : orders[o].who = v}

RateRead(i) ==
    /\ At(i, "rate")
    /\ LET all == OrdersOf(h[i].who) IN
         h' = [h EXCEPT ![i].pc = "rated", ![i].total = Cardinality(all),
                  ![i].done = Cardinality({o \in all : Done(orders[o].status)})]
    /\ UNCHANGED <<complaint, orders, vendor>>

RateWrite(i) ==
    /\ At(i, "rated")
    /\ vendor' = [vendor EXCEPT ![h[i].who] = [total |-> h[i].total, done |-> h[i].done]]
    /\ Finish(i)
    /\ UNCHANGED <<complaint, orders>>

-----------------------------------------------------------------------------
Request(i) ==
    \/ \E c \in Complaints :
          \/ Raise(i, c) \/ Reopen(i, c)
          \/ \E who \in Assignees : Assign(i, c, who)
          \/ \E b \in BOOLEAN : Verify(i, c, b) \/ Close(i, c, b)
          \/ \E s \in ComplaintStatus : SetStatus(i, c, s)
    \/ \E o \in DOMAIN orders, s \in OrderStatus : Progress(i, o, s)
    \/ \E who \in Assignees : OpenOrder(i, who)
    \/ \E v \in Vendors : RefreshRating(i, v)
    \/ Sweep(i)

Advance(i) ==
    \/ Create(i) \/ AutoAssign(i) \/ CreateOrder(i) \/ AssignWrite(i) \/ CountOrder(i)
    \/ OpenWrite(i) \/ Move(i) \/ MoveParent(i)
    \/ Verdict(i) \/ VerdictOrder(i) \/ ReopenWrite(i) \/ ReopenOrder(i)
    \/ CloseWrite(i) \/ CloseOrder(i) \/ SetWrite(i)
    \/ (\E c \in Complaints : Escalate(i, c))
    \/ RateRead(i) \/ RateWrite(i)

Next == \E i \in Handlers : Request(i) \/ Advance(i) \/ Abort(i)

Spec == Init /\ [][Next]_vars

-----------------------------------------------------------------------------
(* PROPERTIES                                                              *)

(* As long as requests come one at a time, none dies, no superseded order  *)
(* is moved and nobody sets a status past the order, complaint and order   *)
(* tell the same story, through assignment, progress, verdicts, reopening  *)
(* and closing in any sequence: the order of a closed complaint is closed, *)
(* and work begun, held, completed or cancelled is on the complaint too    *)
(* (helpdeskService.ts 299-314, 430-454, 499-559, 585-601, 624-646).       *)
Agree(c) ==
    LET s == complaint[c].status
        o == orders[complaint[c].order].status
    IN /\ s = "CLOSED" => o = "CLOSED"
       /\ o = "IN_PROGRESS" => s \in {"IN_PROGRESS", "REOPENED"}
       /\ o = "ON_HOLD" => s = "ON_HOLD"
       /\ o = "COMPLETED" => s = "RESOLVED"
       /\ o = "CANCELLED" => s = "OPEN"

InStep ==
    clean /\ (\A i \in Handlers : h[i].pc = "idle") =>
        \A c \in Complaints : complaint[c].order # 0 => Agree(c)

(* A recount of a vendor's orders that had no other request beside it      *)
(* leaves the record with what the orders say, whatever increments were    *)
(* lost, made twice or never made before (helpdeskService.ts 316-318,      *)
(* 752-764).                                                               *)
RecountRepairs ==
    [][\A i \in Handlers :
          h[i].pc = "rated" /\ h[i].alone /\ died' = died /\ h'[i] = Idle =>
              LET v == h[i].who
                  over == {"COMPLETED", "VERIFIED", "CLOSED"}
              IN vendor'[v] = [total |-> Cardinality(OrdersOf(v)),
                               done |-> Cardinality({o \in OrdersOf(v) : orders[o].status \in over})]]_vars

(* A complaint is escalated by one level and no further, however many      *)
(* sweeps, scheduled or on demand, meet over it (helpdeskService.ts        *)
(* 718-745).                                                               *)
EscalatedOnce == \A c \in Complaints : complaint[c].level <= 1
=============================================================================
