-------------------------- MODULE ResidencyProofs ---------------------------
(***************************************************************************)
(* Proofs about Residency, for any number of people, flats, slots and      *)
(* requests at once, dying anywhere: a move-out that met no other request  *)
(* shuts the person out, a registration that met none lets the person in,  *)
(* and as long as requests came one at a time the counters of every flat   *)
(* and the lists of its slots are true between them.                       *)
(*                                                                         *)
(* A request that met no other may rely on what it has read and written,   *)
(* so the invariant says, step by step, what such a request knows of the   *)
(* collections (Fresh); and what the counters, the links and the lists are *)
(* like around a request that was the only one from the start (Orderly).   *)
(***************************************************************************)
EXTENDS Residency, FiniteSetTheorems, WellFoundedInduction, TLAPS

Joining == {"register", "family"}
Moving == Joining \cup {"moveOut", "transfer"}
Counting == {"refresh", "copy"}
JoinSteps == {"findAccount", "account", "findLink", "link", "units", "list", "linked", "refresh"}
FreeSteps == {"free", "freeCar", "readList", "writeList"}

(* The steps of each kind of request.                                      *)
InStep(r) ==
    /\ r.op = "register" => r.pc \in {"lookup", "person", "copy"} \cup JoinSteps
    /\ r.op = "family" => r.pc \in {"family"} \cup JoinSteps
    /\ r.op = "moveOut" => r.pc \in {"leave", "leaveFamily", "leaveLinks", "slots", "release",
                                    "remaining", "disable", "refresh"} \cup FreeSteps
    /\ r.op = "transfer" => r.pc \in {"shift", "shiftLinks", "shiftFamily", "slots", "release",
                                     "refresh"} \cup FreeSteps
    /\ r.op = "assign" => r.pc \in {"assign", "park", "readList", "writeList"}
    /\ r.op = "release" => r.pc \in FreeSteps
    /\ r.op = "rebuild" => r.pc = "rebuild"
    /\ r.op = "other" => r.pc \in {"idle", "drop", "edit"}

(* What a request holds fits the step it is at: the flats whose links it   *)
(* touches are still to be counted, and what it handles is there.          *)
Fits(r) ==
    /\ InStep(r)
    /\ r.pc = "idle" => r = Idle
    /\ r.copy => r.op = "register"
    /\ r.pc \in {"assign", "park", "free", "freeCar", "readList", "writeList"} => r.s \in Slots
    /\ r.pc \in {"readList", "writeList"} => r.unit \in Units
    /\ r.pc \notin Counting => r.writes = {}
    /\ r.op \in Moving /\ r.pc \notin Counting =>
          r.u \in r.refresh /\ (r.op = "transfer" => r.to \in r.refresh)
    /\ r.op \notin Moving => r.refresh = {}
    /\ r.op \in Moving \cup {"other"} /\ r.pc \notin {"idle", "lookup", "person"} => r.n # 0

Fitting == {r \in Local : Fits(r)}

-----------------------------------------------------------------------------
(* What a request that has met no other knows of the collections.          *)

LinkHolds(n, u, p) ==
    \E m \in DOMAIN links : /\ links[m].who = n /\ links[m].unit = u
                            /\ links[m].phone = p /\ links[m].active

(* A registration: the document, the account, the link and the row of the  *)
(* directory, each from the step that made sure of it.                     *)
FreshPerson(r) ==
    /\ r.pc = "person" /\ r.n # 0 => people[r.n].phone = r.p /\ people[r.n].unit = r.u
    /\ r.op \in Joining /\ r.pc \notin {"lookup", "person", "family"} =>
          people[r.n].phone = r.p /\ people[r.n].unit = r.u /\ people[r.n].living
    /\ r.op \in Joining /\ r.pc \in Counting => people[r.n].linked

FreshLink(r) ==
    /\ r.pc = "account" => r.known = (account[r.p] # "none")
    /\ r.pc = "link" =>
          IF r.m = 0 THEN \A m \in DOMAIN links : ~(links[m].who = r.n /\ links[m].unit = r.u)
          ELSE r.m \in DOMAIN links /\ links[r.m].who = r.n /\ links[r.m].unit = r.u
    /\ r.op \in Joining /\ r.pc \in {"units", "list", "linked"} \cup Counting =>
          LinkHolds(r.n, r.u, r.p)

FreshRow(r) ==
    /\ r.pc = "list" => r.u \in r.units
    /\ r.op \in Joining /\ r.pc \in {"linked"} \cup Counting =>
          listed[r.p].status = "ACTIVE" /\ r.u \in listed[r.p].units

(* A move: where the resident lives, and once the links have ended that    *)
(* none is left, and that the account of a person without any is not active*)
FreshMove(r) ==
    /\ r.pc \in {"leave", "leaveFamily", "leaveLinks", "shift", "shiftLinks"} =>
          /\ people[r.n].parent = 0
          /\ people[r.n].unit = IF r.pc = "shiftLinks" THEN r.to ELSE r.u
    /\ r.op = "moveOut" /\ r.pc \notin {"leave", "leaveFamily", "leaveLinks"} =>
          \A m \in DOMAIN links : links[m].who = r.n => ~links[m].active
    /\ r.pc = "disable" => Active(r.p) = {}
    /\ r.op = "moveOut" /\ r.pc = "refresh" /\ r.linked /\ Active(r.p) = {} =>
          account[r.p] # "ACTIVE"

(* A slot: whose it is, and the list that is about to be written back.     *)
FreshSlot(r) ==
    /\ r.pc = "assign" => r.keep = IF r.unit = "none" THEN slots[r.s].unit ELSE r.unit
    /\ r.pc = "writeList" => r.list = allotted[r.unit]
    /\ r.op # "assign" /\ r.pc \in {"freeCar", "readList", "writeList"} => slots[r.s].unit = "none"

Fresh(r) == FreshPerson(r) /\ FreshLink(r) /\ FreshRow(r) /\ FreshMove(r) /\ FreshSlot(r)

-----------------------------------------------------------------------------
(* What holds around the only request there is, as long as requests came   *)
(* one at a time.                                                          *)

(* The links of a resident are in the flat of the resident, but for those  *)
(* a transfer is about to move.                                            *)
AtHome(r) ==
    /\ r.pc # "edit"
    /\ \A m \in DOMAIN links :
          LET n == links[m].who IN
          people[n].parent = 0 =>
              links[m].unit = IF r.pc = "shiftLinks" /\ r.n = n THEN r.u ELSE people[n].unit

(* The counters of a flat are right or about to be.                        *)
Counted(r) ==
    \A u \in Units :
        /\ u \in r.writes => r.counted[u] = CountOf(u)
        /\ counts[u] = CountOf(u) \/ (r.pc # "copy" /\ u \in r.refresh \cup r.writes)

(* A slot is on the list of its flat or about to be.                       *)
OnList(r) ==
    \A s \in Slots :
        \/ slots[s].unit = "none" \/ s \in allotted[slots[s].unit]
        \/ r.op = "assign" /\ r.pc # "assign" /\ r.s = s /\ r.unit = slots[s].unit

Orderly(r) == AtHome(r) /\ Counted(r) /\ OnList(r)

-----------------------------------------------------------------------------
(* The collections: of their types, the documents that links name are      *)
(* there, and a resident has one link to a flat.                           *)
Filed ==
    /\ people \in Seq(Person)
    /\ links \in Seq(Link)
    /\ account \in [Persons -> AccountStatus]
    /\ listed \in [Persons -> Row]
    /\ counts \in [Units -> Count]
    /\ slots \in [Slots -> [taken : BOOLEAN, unit : Units \cup {"none"}, car : Cars \cup {"none"}]]
    /\ allotted \in [Units -> SUBSET Slots]
    /\ parked \in [Cars -> Slots \cup {"none"}]
    /\ \A m \in DOMAIN links : links[m].who \in DOMAIN people
    /\ \A m, k \in DOMAIN links :
          links[m].who = links[k].who /\ links[m].unit = links[k].unit => m = k

(* A request that met no other is the only one.                            *)
Solitary ==
    /\ \A i \in Handlers : h[i].alone /\ h[i].pc # "idle" => Undisturbed(i)
    /\ clean => \A i \in Handlers : h[i].alone

Tidy ==
    clean => /\ Quiet => Orderly(Idle)
             /\ \A i \in Handlers : h[i].pc # "idle" => Orderly(h[i])

IInv ==
    /\ Filed
    /\ h \in [Handlers -> Fitting]
    /\ \A i \in Handlers : h[i].n <= Len(people)
    /\ started \in 0..MaxRequests /\ died \in 0..MaxAborts /\ clean \in BOOLEAN
    /\ Solitary
    /\ \A i \in Handlers : h[i].alone => Fresh(h[i])
    /\ Tidy

-----------------------------------------------------------------------------
(* What requests hold.                                                     *)

LEMMA IdleFits == Idle \in Fitting /\ Idle.pc = "idle" /\ Idle.n = 0 /\ Idle.alone
<1>1. Idle \in Local
    BY ResidencyAssumption DEF Idle, Local, Steps, Ops, NoCount, AccountStatus, Kinds
<1>2. Fits(Idle)
    BY DEF Idle, Fits, InStep, Joining, Moving, Counting
<1> QED
    BY <1>1, <1>2 DEF Fitting, Idle

LEMMA IdleFresh == Fresh(Idle) /\ Fresh(Idle)'
    BY DEF Idle, Fresh, FreshPerson, FreshLink, FreshRow, FreshMove, FreshSlot, Joining, Counting

(* One request holds what the other holds, apart from where it is.         *)
Alike(r, q) ==
    /\ r.op = q.op /\ r.n = q.n /\ r.p = q.p /\ r.u = q.u /\ r.to = q.to /\ r.kind = q.kind
    /\ r.copy = q.copy /\ r.known = q.known /\ r.m = q.m /\ r.seen = q.seen /\ r.units = q.units
    /\ r.refresh = q.refresh /\ r.counted = q.counted /\ r.writes = q.writes
    /\ r.todo = q.todo /\ r.s = q.s /\ r.car = q.car /\ r.unit = q.unit /\ r.keep = q.keep
    /\ r.linked = q.linked /\ r.rows = q.rows /\ r.list = q.list

LEMMA AloneAlike ==
    ASSUME NEW q \in Local, NEW b \in BOOLEAN, NEW r, r = [q EXCEPT !.alone = b]
    PROVE  r \in Local /\ r.pc = q.pc /\ r.alone = b /\ Alike(r, q)
<1>1. r \in Local
    BY DEF Local
<1> QED
    BY <1>1 DEF Local, Alike

LEMMA GoneAlike ==
    ASSUME NEW q \in Local, NEW step \in Steps, NEW r, r = [q EXCEPT !.pc = step]
    PROVE  r \in Local /\ r.pc = step /\ r.alone = q.alone /\ Alike(r, q)
<1>1. r \in Local
    BY DEF Local
<1> QED
    BY <1>1 DEF Local, Alike

LEMMA FitsAlike ==
    ASSUME NEW q, NEW r, q.pc # "idle", Fits(q), r.pc = q.pc, Alike(r, q)
    PROVE  Fits(r)
    BY DEF Fits, InStep, Alike

(* What a request knows does not depend on what it counts.                 *)
Sees(r, q) ==
    /\ r.op = q.op /\ r.n = q.n /\ r.p = q.p /\ r.u = q.u /\ r.to = q.to /\ r.known = q.known
    /\ r.m = q.m /\ r.units = q.units /\ r.s = q.s /\ r.unit = q.unit /\ r.keep = q.keep
    /\ r.linked = q.linked /\ r.list = q.list

LEMMA FreshSees ==
    ASSUME NEW q, NEW r, Fresh(q), r.pc = q.pc, Sees(r, q)
    PROVE  Fresh(r)
<1>1. FreshPerson(r)
    BY DEF Fresh, FreshPerson, Sees
<1>2. FreshLink(r)
    BY DEF Fresh, FreshLink, Sees
<1>3. FreshRow(r)
    BY DEF Fresh, FreshRow, Sees
<1>4. FreshMove(r)
    BY DEF Fresh, FreshMove, Sees
<1>5. FreshSlot(r)
    BY DEF Fresh, FreshSlot, Sees
<1> QED
    BY <1>1, <1>2, <1>3, <1>4, <1>5 DEF Fresh

(* With the collections as they were, what is known of them stays true.    *)
LEMMA FreshStays ==
    ASSUME NEW r, Fresh(r), UNCHANGED <<people, links, account, listed, slots, allotted>>
    PROVE  Fresh(r)'
<1>1. FreshPerson(r)'
    BY DEF Fresh, FreshPerson
<1>2. FreshLink(r)'
    BY DEF Fresh, FreshLink, LinkHolds
<1>3. FreshRow(r)'
    BY DEF Fresh, FreshRow
<1>4. FreshMove(r)'
    BY DEF Fresh, FreshMove, Active
<1>5. FreshSlot(r)'
    BY DEF Fresh, FreshSlot
<1> QED
    BY <1>1, <1>2, <1>3, <1>4, <1>5 DEF Fresh

LEMMA OrderStays ==
    ASSUME NEW r, Orderly(r), UNCHANGED <<homes, parking>>
    PROVE  Orderly(r)'
<1> USE DEF homes, parking
<1>1. AtHome(r)'
    BY DEF Orderly, AtHome
<1>2. Counted(r)'
    BY DEF Orderly, Counted, CountOf
<1>3. OnList(r)'
    BY DEF Orderly, OnList
<1> QED
    BY <1>1, <1>2, <1>3 DEF Orderly

LEMMA FiledStays ==
    ASSUME Filed, UNCHANGED <<homes, parking>>
    PROVE  Filed' /\ Len(people') = Len(people)
    BY DEF Filed, homes, parking

(* A request starts among flats that are in order.                         *)
LEMMA OrderBegins ==
    ASSUME NEW r, Orderly(Idle), r.pc \notin {"edit", "shiftLinks"}, r.writes = {}
    PROVE  Orderly(r)
<1>1. AtHome(r)
    BY DEF Orderly, AtHome, Idle
<1>2. Counted(r)
    BY DEF Orderly, Counted, Idle
<1>3. OnList(r)
    BY DEF Orderly, OnList, Idle
<1> QED
    BY <1>1, <1>2, <1>3 DEF Orderly

(* The step a request starts with, from what it has looked up.             *)
Opening(i, local) ==
    /\ local \in Fitting
    /\ local.pc \notin {"idle", "shiftLinks"} /\ local.writes = {} /\ local.n <= Len(people)
    /\ Fresh(local)

LEMMA BeginKeeps ==
    ASSUME IInv, NEW i \in Handlers, NEW local, Opening(i, local), Begin(i, local)
    PROVE  IInv'
<1> DEFINE b == Undisturbed(i)
<1>0. b \in BOOLEAN /\ local \in Local /\ Fits(local)
    BY DEF Undisturbed, Opening, Fitting
<1>1. PICK r : r = [local EXCEPT !.alone = b]
    OBVIOUS
<1>2. r \in Local /\ r.pc = local.pc /\ r.alone = b /\ Alike(r, local)
    BY <1>0, <1>1, AloneAlike
<1>3. r \in Fitting /\ r.n <= Len(people) /\ r.pc # "idle" /\ Fresh(r)
    BY <1>0, <1>2, FitsAlike, FreshSees DEF Opening, Fitting, Alike, Sees
<1>4. \A j \in Handlers : h[j].pc # "idle" =>
          /\ [h[j] EXCEPT !.alone = FALSE] \in Fitting
          /\ [h[j] EXCEPT !.alone = FALSE].alone = FALSE
          /\ [h[j] EXCEPT !.alone = FALSE].n = h[j].n
          /\ [h[j] EXCEPT !.alone = FALSE].pc = h[j].pc
  <2> SUFFICES ASSUME NEW j \in Handlers, h[j].pc # "idle"
               PROVE  /\ [h[j] EXCEPT !.alone = FALSE] \in Fitting
                      /\ [h[j] EXCEPT !.alone = FALSE].alone = FALSE
                      /\ [h[j] EXCEPT !.alone = FALSE].n = h[j].n
                      /\ [h[j] EXCEPT !.alone = FALSE].pc = h[j].pc
      OBVIOUS
  <2>1. h[j] \in Local /\ Fits(h[j])
      BY DEF IInv, Fitting
  <2>2. PICK q : q = [h[j] EXCEPT !.alone = FALSE]
      OBVIOUS
  <2>3. q \in Local /\ q.pc = h[j].pc /\ q.alone = FALSE /\ Alike(q, h[j])
      BY <2>1, <2>2, AloneAlike
  <2> QED
      BY <2>1, <2>2, <2>3, FitsAlike DEF Fitting, Alike
<1>5. /\ h' = [j \in Handlers |->
                 IF j = i THEN r
                 ELSE IF h[j].pc = "idle" THEN h[j] ELSE [h[j] EXCEPT !.alone = FALSE]]
      /\ h[i].pc = "idle"
    BY <1>1 DEF Begin
<1>6. UNCHANGED <<homes, parking>> /\ died' = died /\ started' \in 0..MaxRequests
    BY ResidencyAssumption DEF Begin, IInv
<1>7. clean' = (clean /\ b /\ local.pc # "edit")
    BY DEF Begin
<1>8. Filed' /\ Len(people') = Len(people)
    BY <1>6, FiledStays DEF IInv
<1>9. h' \in [Handlers -> Fitting]
    BY <1>3, <1>4, <1>5 DEF IInv
<1>10. \A j \in Handlers : h'[j].n <= Len(people')
    BY <1>3, <1>4, <1>5, <1>8 DEF IInv
<1>11. \A j \in Handlers \ {i} : h'[j].pc = h[j].pc
    BY <1>4, <1>5
<1>12. Solitary'
  <2>1. ASSUME NEW j \in Handlers, h'[j].alone, h'[j].pc # "idle" PROVE Undisturbed(j)'
    <3>1. j = i /\ b
        BY <1>2, <1>4, <1>5, <2>1
    <3> QED
        BY <1>11, <3>1 DEF Undisturbed
  <2>2. ASSUME clean', NEW j \in Handlers PROVE h'[j].alone
      BY <1>2, <1>5, <1>7, <2>2 DEF Undisturbed, IInv, Solitary
  <2> QED
      BY <2>1, <2>2 DEF Solitary
<1>13. ASSUME NEW j \in Handlers, h'[j].alone PROVE Fresh(h[j])' 
  <2>1. CASE j = i
    <3>1. Fresh(r)'
        BY <1>3, <1>6, FreshStays DEF homes, parking
    <3>2. h'[i] = r
        BY <1>5
    <3> QED
        BY <2>1, <3>1, <3>2
  <2>2. CASE j # i
    <3>1. h'[j] = h[j] /\ h[j].pc = "idle"
        BY <1>4, <1>5, <1>13, <2>2
    <3>2. h'[j] = Idle
        BY <3>1 DEF IInv, Fitting, Fits
    <3> QED
        BY <3>2, IdleFresh
  <2> QED
      BY <2>1, <2>2
<1>14. Tidy'
  <2> SUFFICES ASSUME clean' PROVE /\ Quiet' => Orderly(Idle)'
                                   /\ \A j \in Handlers : h'[j].pc # "idle" => Orderly(h[j])'
      BY DEF Tidy
  <2>1. clean /\ b /\ r.pc # "edit" /\ Quiet
      BY <1>2, <1>5, <1>7 DEF Quiet, Undisturbed
  <2>2. Orderly(r)'
    <3>1. Orderly(r)
        BY <1>2, <2>1, OrderBegins DEF IInv, Tidy, Opening, Alike
    <3> QED
        BY <1>6, <3>1, OrderStays
  <2>3. h'[i] = r /\ ~Quiet'
      BY <1>3, <1>5 DEF Quiet
  <2>4. \A j \in Handlers \ {i} : h'[j].pc = "idle"
      BY <1>11, <2>1 DEF Undisturbed
  <2> QED
      BY <2>2, <2>3, <2>4
<1> QED
    BY <1>6, <1>7, <1>8, <1>9, <1>10, <1>12, <1>13, <1>14 DEF IInv

(* What a step of a request that goes on has to leave behind.              *)
LEMMA Turned ==
    ASSUME IInv, NEW i \in Handlers, h[i].pc # "idle",
           NEW r \in Fitting, h' = [h EXCEPT ![i] = r], r = Idle \/ r.alone = h[i].alone,
           Filed', Len(people') \in Nat, Len(people) <= Len(people'), r.n <= Len(people'),
           started' = started, died' \in 0..MaxAborts, clean' = clean \/ clean' = FALSE,
           h[i].alone => Fresh(r)',
           clean' => Orderly(r)'
    PROVE  IInv'
<1>1. h' \in [Handlers -> Fitting] /\ h'[i] = r /\ \A j \in Handlers \ {i} : h'[j] = h[j]
    BY DEF IInv
<1>2. \A j \in Handlers : h[j] \in Local /\ Fits(h[j]) /\ h[j].n \in Nat
    BY DEF IInv, Fitting, Local
<1>3. \A j \in Handlers : h'[j].n <= Len(people')
  <2>1. Len(people) \in Nat
      BY DEF IInv, Filed
  <2>2. ASSUME NEW j \in Handlers \ {i} PROVE h[j].n <= Len(people')
      BY <1>2, <2>1 DEF IInv
  <2> QED
      BY <1>1, <2>2
<1>4. \A j \in Handlers \ {i} : h[j].alone => h[j] = Idle
    BY <1>2 DEF IInv, Solitary, Undisturbed, Fits
<1>5. r.pc # "idle" => r.alone = h[i].alone
    BY IdleFits
<1>6. Solitary'
  <2>1. ASSUME NEW j \in Handlers, h'[j].alone, h'[j].pc # "idle" PROVE Undisturbed(j)'
    <3>1. j = i
        BY <1>1, <1>4, <2>1, IdleFits
    <3>2. Undisturbed(i)
        BY <1>1, <1>5, <2>1, <3>1 DEF IInv, Solitary
    <3> QED
        BY <1>1, <3>1, <3>2 DEF Undisturbed
  <2>2. ASSUME clean', NEW j \in Handlers PROVE h'[j].alone
      BY <1>1, <2>2, IdleFits DEF IInv, Solitary
  <2> QED
      BY <2>1, <2>2 DEF Solitary
<1>7. ASSUME NEW j \in Handlers, h'[j].alone PROVE Fresh(h[j])'
  <2>1. CASE j # i
      BY <1>1, <1>4, <1>7, <2>1, IdleFresh
  <2>2. CASE j = i
    <3>1. CASE r = Idle
        BY <1>1, <2>2, <3>1, IdleFresh
    <3>2. CASE r # Idle
        BY <1>1, <1>7, <2>2, <3>2
    <3> QED
        BY <3>1, <3>2
  <2> QED
      BY <2>1, <2>2
<1>8. Tidy'
  <2> SUFFICES ASSUME clean' PROVE /\ Quiet' => Orderly(Idle)'
                                   /\ \A j \in Handlers : h'[j].pc # "idle" => Orderly(h[j])'
      BY DEF Tidy
  <2>1. \A j \in Handlers \ {i} : h'[j] = Idle
      BY <1>1, <1>4 DEF IInv, Solitary
  <2>2. Orderly(r)'
      OBVIOUS
  <2>3. Quiet' => r = Idle
      BY <1>1 DEF Quiet, Fitting, Fits
  <2>4. Quiet' => Orderly(Idle)'
      BY <2>2, <2>3
  <2>5. ASSUME NEW j \in Handlers, h'[j].pc # "idle" PROVE Orderly(h[j])'
    <3>1. j = i
        BY <2>1, <2>5, IdleFits
    <3> QED
        BY <1>1, <2>2, <3>1
  <2> QED
      BY <2>4, <2>5
<1>9. clean' \in BOOLEAN /\ started' \in 0..MaxRequests
    BY DEF IInv
<1> QED
    BY <1>1, <1>3, <1>6, <1>7, <1>8, <1>9 DEF IInv

-----------------------------------------------------------------------------
(* Every request opens with what fits.                                     *)

LEMMA RegisterOpens ==
    ASSUME IInv, NEW i \in Handlers, NEW p \in Persons, NEW u \in Units, NEW kind \in NewKinds,
           NEW copy \in Copies, Register(i, p, u, kind, copy)
    PROVE  IInv'
<1>1. PICK r : r = [Idle EXCEPT !.pc = "lookup", !.op = "register", !.p = p, !.u = u,
                      !.kind = kind, !.copy = copy, !.refresh = {u}]
    OBVIOUS
<1>2. r \in Local
  <2>1. "lookup" \in Steps /\ "register" \in Ops /\ kind \in Kinds /\ copy \in BOOLEAN
      BY ResidencyAssumption DEF Steps, Ops, Kinds
  <2>2. Idle \in Local
      BY IdleFits DEF Fitting
  <2> QED
      BY <1>1, <2>1, <2>2 DEF Local
<1>3. /\ r.pc = "lookup" /\ r.op = "register" /\ r.u = u /\ r.refresh = {u} /\ r.n = 0
      /\ r.writes = {}
    BY <1>1 DEF Idle
<1>4. Fits(r)
    BY <1>3 DEF Fits, InStep, Joining, Moving, Counting
<1>5. Fresh(r)
    BY <1>3 DEF Fresh, FreshPerson, FreshLink, FreshRow, FreshMove, FreshSlot, Counting
<1>6. Opening(i, r)
    BY <1>2, <1>3, <1>4, <1>5 DEF Opening, Fitting, IInv, Filed
<1> QED
    BY <1>1, <1>6, BeginKeeps DEF Register

LEMMA FamilyOpens ==
    ASSUME IInv, NEW i \in Handlers, NEW n \in DOMAIN people, NEW u \in Units, NEW p \in Persons,
           AddFamily(i, n, u, p)
    PROVE  IInv'
<1>0. n \in Nat /\ n # 0 /\ n <= Len(people)
    BY DEF IInv, Filed
<1>1. PICK r : r = [Idle EXCEPT !.pc = "family", !.op = "family", !.n = n, !.p = p, !.u = u,
                      !.kind = "FAMILY", !.refresh = {u}]
    OBVIOUS
<1>2. r \in Local
  <2>1. "family" \in Steps /\ "family" \in Ops /\ "FAMILY" \in Kinds
      BY DEF Steps, Ops, Kinds
  <2>2. Idle \in Local
      BY IdleFits DEF Fitting
  <2> QED
      BY <1>0, <1>1, <2>1, <2>2 DEF Local
<1>3. /\ r.pc = "family" /\ r.op = "family" /\ r.u = u /\ r.refresh = {u} /\ r.n = n
      /\ r.writes = {} /\ r.copy = FALSE
    BY <1>1 DEF Idle
<1>4. Fits(r)
    BY <1>0, <1>3 DEF Fits, InStep, Joining, Moving, Counting
<1>5. Fresh(r)
    BY <1>3 DEF Fresh, FreshPerson, FreshLink, FreshRow, FreshMove, FreshSlot, Counting
<1>6. Opening(i, r)
    BY <1>0, <1>2, <1>3, <1>4, <1>5 DEF Opening, Fitting
<1> QED
    BY <1>1, <1>6, BeginKeeps DEF AddFamily

LEMMA DropOpens ==
    ASSUME IInv, NEW i \in Handlers, NEW n \in DOMAIN people, DropFamily(i, n)
    PROVE  IInv'
<1>0. n \in Nat /\ n # 0 /\ n <= Len(people)
    BY DEF IInv, Filed
<1>1. PICK r : r = [Idle EXCEPT !.pc = "drop", !.n = n]
    OBVIOUS
<1>2. r \in Local
  <2>1. "drop" \in Steps
      BY DEF Steps
  <2>2. Idle \in Local
      BY IdleFits DEF Fitting
  <2> QED
      BY <1>0, <1>1, <2>1, <2>2 DEF Local
<1>3. /\ r.pc = "drop" /\ r.op = "other" /\ r.refresh = {} /\ r.n = n
      /\ r.writes = {} /\ r.copy = FALSE
    BY <1>1 DEF Idle
<1>4. Fits(r)
    BY <1>0, <1>3 DEF Fits, InStep, Joining, Moving, Counting
<1>5. Fresh(r)
    BY <1>3 DEF Fresh, FreshPerson, FreshLink, FreshRow, FreshMove, FreshSlot, Counting, Joining
<1>6. Opening(i, r)
    BY <1>0, <1>2, <1>3, <1>4, <1>5 DEF Opening, Fitting
<1> QED
    BY <1>1, <1>6, BeginKeeps DEF DropFamily

LEMMA EditOpens ==
    ASSUME IInv, NEW i \in Handlers, NEW n \in DOMAIN people, NEW u \in Units, Edit(i, n, u)
    PROVE  IInv'
<1>0. n \in Nat /\ n # 0 /\ n <= Len(people)
    BY DEF IInv, Filed
<1>1. PICK r : r = [Idle EXCEPT !.pc = "edit", !.n = n, !.u = u]
    OBVIOUS
<1>2. r \in Local
  <2>1. "edit" \in Steps
      BY DEF Steps
  <2>2. Idle \in Local
      BY IdleFits DEF Fitting
  <2> QED
      BY <1>0, <1>1, <2>1, <2>2 DEF Local
<1>3. /\ r.pc = "edit" /\ r.op = "other" /\ r.refresh = {} /\ r.n = n
      /\ r.writes = {} /\ r.copy = FALSE
    BY <1>1 DEF Idle
<1>4. Fits(r)
    BY <1>0, <1>3 DEF Fits, InStep, Joining, Moving, Counting
<1>5. Fresh(r)
    BY <1>3 DEF Fresh, FreshPerson, FreshLink, FreshRow, FreshMove, FreshSlot, Counting, Joining
<1>6. Opening(i, r)
    BY <1>0, <1>2, <1>3, <1>4, <1>5 DEF Opening, Fitting
<1> QED
    BY <1>1, <1>6, BeginKeeps DEF Edit

LEMMA MoveOutOpens ==
    ASSUME IInv, NEW i \in Handlers, NEW n \in DOMAIN people, NEW b \in BOOLEAN, MoveOut(i, n, b)
    PROVE  IInv'
<1>0. n \in Nat /\ n # 0 /\ n <= Len(people) /\ people[n] \in Person
    BY DEF IInv, Filed
<1>1. PICK r : r = [Idle EXCEPT !.pc = "leave", !.op = "moveOut", !.n = n, !.u = people[n].unit,
                      !.p = people[n].phone, !.linked = people[n].linked /\ b,
                      !.refresh = {people[n].unit}]
    OBVIOUS
<1>2. r \in Local
  <2>1. /\ people[n].unit \in Units /\ people[n].phone \in Persons
        /\ (people[n].linked /\ b) \in BOOLEAN
      BY <1>0 DEF Person
  <2>2. "leave" \in Steps /\ "moveOut" \in Ops
      BY DEF Steps, Ops
  <2>3. Idle \in Local
      BY IdleFits DEF Fitting
  <2> QED
      BY <1>0, <1>1, <2>1, <2>2, <2>3 DEF Local
<1>3. /\ r.pc = "leave" /\ r.op = "moveOut" /\ r.u = people[n].unit /\ r.refresh = {people[n].unit}
      /\ r.n = n /\ r.writes = {} /\ r.copy = FALSE
    BY <1>1 DEF Idle
<1>4. Fits(r)
    BY <1>0, <1>3 DEF Fits, InStep, Joining, Moving, Counting
<1>5. Fresh(r)
    BY <1>3 DEF Fresh, FreshPerson, FreshLink, FreshRow, FreshMove, FreshSlot, Counting, Joining,
                MoveOut
<1>6. Opening(i, r)
    BY <1>0, <1>2, <1>3, <1>4, <1>5 DEF Opening, Fitting
<1> QED
    BY <1>1, <1>6, BeginKeeps DEF MoveOut

LEMMA TransferOpens ==
    ASSUME IInv, NEW i \in Handlers, NEW n \in DOMAIN people, NEW to \in Units, Transfer(i, n, to)
    PROVE  IInv'
<1>0. n \in Nat /\ n # 0 /\ n <= Len(people) /\ people[n] \in Person
    BY DEF IInv, Filed
<1>1. PICK r : r = [Idle EXCEPT !.pc = "shift", !.op = "transfer", !.n = n, !.to = to,
                      !.u = people[n].unit, !.refresh = Refreshed(people[n].unit, to)]
    OBVIOUS
<1>2. r \in Local
  <2>1. people[n].unit \in Units /\ Refreshed(people[n].unit, to) \in SUBSET Units
      BY <1>0 DEF Person, Refreshed
  <2>2. "shift" \in Steps /\ "transfer" \in Ops
      BY DEF Steps, Ops
  <2>3. Idle \in Local
      BY IdleFits DEF Fitting
  <2> QED
      BY <1>0, <1>1, <2>1, <2>2, <2>3 DEF Local
<1>3. /\ r.pc = "shift" /\ r.op = "transfer" /\ r.u = people[n].unit /\ r.to = to
      /\ r.refresh = {people[n].unit, to} /\ r.n = n /\ r.writes = {} /\ r.copy = FALSE
    BY <1>1 DEF Idle, Refreshed
<1>4. Fits(r)
    BY <1>0, <1>3 DEF Fits, InStep, Joining, Moving, Counting
<1>5. Fresh(r)
    BY <1>3 DEF Fresh, FreshPerson, FreshLink, FreshRow, FreshMove, FreshSlot, Counting, Joining,
                Transfer
<1>6. Opening(i, r)
    BY <1>0, <1>2, <1>3, <1>4, <1>5 DEF Opening, Fitting
<1> QED
    BY <1>1, <1>6, BeginKeeps DEF Transfer

LEMMA AssignOpens ==
    ASSUME IInv, NEW i \in Handlers, NEW s \in Slots, NEW c \in Cars \cup {"none"},
           NEW u \in Units \cup {"none"}, Assign(i, s, c, u)
    PROVE  IInv'
<1>1. PICK r : r = [Idle EXCEPT !.pc = "assign", !.op = "assign", !.s = s, !.car = c, !.unit = u,
                      !.keep = IF u = "none" THEN slots[s].unit ELSE u]
    OBVIOUS
<1>2. r \in Local
  <2>1. (IF u = "none" THEN slots[s].unit ELSE u) \in Units \cup {"none"}
      BY DEF IInv, Filed
  <2>2. "assign" \in Steps /\ "assign" \in Ops
      BY DEF Steps, Ops
  <2>3. Idle \in Local
      BY IdleFits DEF Fitting
  <2> QED
      BY <1>1, <2>1, <2>2, <2>3 DEF Local
<1>3. /\ r.pc = "assign" /\ r.op = "assign" /\ r.s = s /\ r.unit = u
      /\ r.keep = (IF u = "none" THEN slots[s].unit ELSE u)
      /\ r.refresh = {} /\ r.n = 0 /\ r.writes = {} /\ r.copy = FALSE
    BY <1>1 DEF Idle
<1>4. Fits(r)
    BY <1>3 DEF Fits, InStep, Joining, Moving, Counting
<1>5. Fresh(r)
    BY <1>3 DEF Fresh, FreshPerson, FreshLink, FreshRow, FreshMove, FreshSlot, Counting, Joining
<1>6. Opening(i, r)
    BY <1>2, <1>3, <1>4, <1>5 DEF Opening, Fitting, IInv, Filed
<1> QED
    BY <1>1, <1>6, BeginKeeps DEF Assign

LEMMA ReleaseOpens ==
    ASSUME IInv, NEW i \in Handlers, NEW s \in Slots, Release(i, s)
    PROVE  IInv'
<1>1. PICK r : r = [Idle EXCEPT !.pc = "free", !.op = "release", !.s = s, !.car = slots[s].car,
                      !.unit = slots[s].unit]
    OBVIOUS
<1>2. r \in Local
  <2>1. slots[s].unit \in Units \cup {"none"} /\ slots[s].car \in Cars \cup {"none"}
      BY DEF IInv, Filed
  <2>2. "free" \in Steps /\ "release" \in Ops
      BY DEF Steps, Ops
  <2>3. Idle \in Local
      BY IdleFits DEF Fitting
  <2> QED
      BY <1>1, <2>1, <2>2, <2>3 DEF Local
<1>3. /\ r.pc = "free" /\ r.op = "release" /\ r.s = s
      /\ r.refresh = {} /\ r.n = 0 /\ r.writes = {} /\ r.copy = FALSE
    BY <1>1 DEF Idle
<1>4. Fits(r)
    BY <1>3 DEF Fits, InStep, Joining, Moving, Counting, FreeSteps
<1>5. Fresh(r)
    BY <1>3 DEF Fresh, FreshPerson, FreshLink, FreshRow, FreshMove, FreshSlot, Counting, Joining
<1>6. Opening(i, r)
    BY <1>2, <1>3, <1>4, <1>5 DEF Opening, Fitting, IInv, Filed
<1> QED
    BY <1>1, <1>6, BeginKeeps DEF Release

LEMMA RebuildOpens ==
    ASSUME IInv, NEW i \in Handlers, Rebuild(i)
    PROVE  IInv'
<1>1. PICK r : r = [Idle EXCEPT !.pc = "rebuild", !.op = "rebuild",
                      !.rows = {p \in Persons : account[p] # "none"}, !.seen = account]
    OBVIOUS
<1>2. r \in Local
  <2>1. {p \in Persons : account[p] # "none"} \in SUBSET Persons
        /\ account \in [Persons -> AccountStatus]
      BY DEF IInv, Filed
  <2>2. "rebuild" \in Steps /\ "rebuild" \in Ops
      BY DEF Steps, Ops
  <2>3. Idle \in Local
      BY IdleFits DEF Fitting
  <2> QED
      BY <1>1, <2>1, <2>2, <2>3 DEF Local
<1>3. /\ r.pc = "rebuild" /\ r.op = "rebuild"
      /\ r.refresh = {} /\ r.n = 0 /\ r.writes = {} /\ r.copy = FALSE
    BY <1>1 DEF Idle
<1>4. Fits(r)
    BY <1>3 DEF Fits, InStep, Joining, Moving, Counting
<1>5. Fresh(r)
    BY <1>3 DEF Fresh, FreshPerson, FreshLink, FreshRow, FreshMove, FreshSlot, Counting, Joining
<1>6. Opening(i, r)
    BY <1>2, <1>3, <1>4, <1>5 DEF Opening, Fitting, IInv, Filed
<1> QED
    BY <1>1, <1>6, BeginKeeps DEF Rebuild

LEMMA RequestOpens == ASSUME IInv, NEW i \in Handlers, Request(i) PROVE IInv'
<1>1. CASE \E p \in Persons, u \in Units, k \in NewKinds, b \in Copies : Register(i, p, u, k, b)
    BY <1>1, RegisterOpens
<1>2. ASSUME NEW n \in DOMAIN people,
             \/ DropFamily(i, n) \/ (\E b \in BOOLEAN : MoveOut(i, n, b))
             \/ \E u \in Units : \/ Edit(i, n, u) \/ Transfer(i, n, u)
                                 \/ \E p \in Persons : AddFamily(i, n, u, p)
      PROVE IInv'
    BY <1>2, DropOpens, MoveOutOpens, EditOpens, TransferOpens, FamilyOpens
<1>3. ASSUME NEW s \in Slots,
             \/ Release(i, s)
             \/ \E c \in Cars \cup {"none"}, u \in Units \cup {"none"} : Assign(i, s, c, u)
      PROVE IInv'
    BY <1>3, ReleaseOpens, AssignOpens
<1>4. CASE Rebuild(i)
    BY <1>4, RebuildOpens
<1> QED
    BY <1>1, <1>2, <1>3, <1>4 DEF Request

(* A request that dies leaves the others to theirs, and the society with   *)
(* what it had done.                                                       *)
LEMMA AbortKeeps == ASSUME IInv, NEW i \in Handlers, Abort(i) PROVE IInv'
<1>1. UNCHANGED <<homes, parking>> /\ h' = [h EXCEPT ![i] = Idle] /\ started' = started
    BY DEF Abort, Finish
<1>2. Filed' /\ Len(people') = Len(people) /\ Len(people) \in Nat
    BY <1>1, FiledStays DEF IInv, Filed
<1>3. died' \in 0..MaxAborts /\ clean' = FALSE /\ h[i].pc # "idle"
    BY ResidencyAssumption DEF Abort, IInv
<1>4. Idle \in Fitting /\ Idle.n <= Len(people') /\ Len(people) <= Len(people')
    BY <1>2, IdleFits
<1>5. h[i].alone => Fresh(Idle)'
    BY IdleFresh
<1>6. PICK r : r = Idle
    OBVIOUS
<1> QED
    BY <1>1, <1>2, <1>3, <1>4, <1>5, <1>6, Turned

-----------------------------------------------------------------------------
(* What the steps have in common.                                          *)

LEMMA Busy ==
    ASSUME IInv, NEW i \in Handlers, NEW q, q = h[i], q.pc # "idle"
    PROVE  /\ q \in Local /\ q \in Fitting /\ Fits(q) /\ InStep(q) /\ q.op \in Ops /\ q.pc \in Steps
           /\ q.n \in Nat /\ q.n <= Len(people) /\ Len(people) \in Nat
           /\ q.alone => Fresh(q)
           /\ clean => q.alone /\ Orderly(q)
<1>1. q \in Fitting /\ q.n <= Len(people) /\ Len(people) \in Nat
    BY DEF IInv, Filed
<1>2. q \in Local /\ Fits(q) /\ InStep(q) /\ q.op \in Ops /\ q.pc \in Steps /\ q.n \in Nat
    BY <1>1 DEF Fitting, Fits, Local
<1>3. q.alone => Fresh(q)
    BY DEF IInv
<1>4. clean => q.alone /\ Orderly(q)
    BY DEF IInv, Solitary, Tidy
<1> QED
    BY <1>1, <1>2, <1>3, <1>4

(* A request that goes on, the collections as they were.                   *)
LEMMA Quietly ==
    ASSUME IInv, NEW i \in Handlers, h[i].pc # "idle",
           NEW r \in Fitting, h' = [h EXCEPT ![i] = r], r = Idle \/ r.alone = h[i].alone,
           UNCHANGED <<homes, parking, started, died, clean>>, r.n <= Len(people),
           h[i].alone => Fresh(r),
           clean => Orderly(r)
    PROVE  IInv'
<1>1. Filed' /\ Len(people') = Len(people) /\ Len(people') \in Nat
    BY FiledStays DEF IInv, Filed
<1>2. h[i].alone => Fresh(r)'
    BY FreshStays DEF homes, parking
<1>3. clean' => Orderly(r)'
    BY OrderStays
<1>4. died' \in 0..MaxAborts /\ Len(people) <= Len(people') /\ r.n <= Len(people')
    BY <1>1 DEF IInv
<1> QED
    BY <1>1, <1>2, <1>3, <1>4, Turned

(* A request of one kind knows nothing of what the other kinds look at.    *)
LEMMA NotOurs ==
    ASSUME NEW r, InStep(r), r.op \in Ops
    PROVE  /\ r.op \in Joining =>
                 FreshMove(r) /\ FreshSlot(r) /\ FreshMove(r)' /\ FreshSlot(r)'
           /\ r.op \notin Joining =>
                 /\ FreshPerson(r) /\ FreshLink(r) /\ FreshRow(r)
                 /\ FreshPerson(r)' /\ FreshLink(r)' /\ FreshRow(r)'
           /\ r.op \notin Moving => FreshMove(r) /\ FreshMove(r)'
<1>1. CASE r.op \in Joining
  <2>1. FreshMove(r) /\ FreshMove(r)'
      BY <1>1 DEF Joining, InStep, JoinSteps, FreshMove
  <2>2. FreshSlot(r) /\ FreshSlot(r)'
      BY <1>1 DEF Joining, InStep, JoinSteps, FreshSlot
  <2> QED
      BY <1>1, <2>1, <2>2 DEF Joining, Moving
<1>2. CASE r.op \notin Joining
  <2>1. FreshPerson(r) /\ FreshPerson(r)'
      BY <1>2 DEF Ops, Joining, InStep, FreeSteps, FreshPerson
  <2>2. FreshLink(r) /\ FreshLink(r)'
      BY <1>2 DEF Ops, Joining, InStep, FreeSteps, FreshLink
  <2>3. FreshRow(r) /\ FreshRow(r)'
      BY <1>2 DEF Ops, Joining, InStep, FreeSteps, FreshRow
  <2>4. r.op \notin Moving => FreshMove(r) /\ FreshMove(r)'
      BY <1>2 DEF Ops, Joining, Moving, InStep, FreeSteps, FreshMove
  <2> QED
      BY <1>2, <2>1, <2>2, <2>3, <2>4
<1> QED
    BY <1>1, <1>2

(* Flats stay in order around a request that goes on.                      *)
LEMMA HomesKept ==
    ASSUME Filed, UNCHANGED links, Len(people) <= Len(people'), Len(people') \in Nat,
           people' \in Seq(Person),
           \A n \in DOMAIN people : /\ people'[n].parent = people[n].parent
                                    /\ people[n].parent = 0 => people'[n].unit = people[n].unit,
           NEW q, NEW r, AtHome(q), q.pc # "shiftLinks", r.pc \notin {"edit", "shiftLinks"}
    PROVE  AtHome(r)'
    BY DEF AtHome, Filed

LEMMA CountsKept ==
    ASSUME UNCHANGED <<links, counts>>, NEW q, NEW r, Counted(q),
           r.refresh = q.refresh, r.counted = q.counted, r.writes = q.writes, r.pc # "copy"
    PROVE  Counted(r)'
    BY DEF Counted, CountOf

LEMMA ListsKept ==
    ASSUME UNCHANGED <<slots, allotted>>, NEW q, NEW r, OnList(q),
           q.op = "assign" => r.op = "assign" /\ r.pc # "assign" /\ r.s = q.s /\ r.unit = q.unit
    PROVE  OnList(r)'
    BY DEF OnList

LEMMA OrderGoes ==
    ASSUME NEW q, NEW r, Orderly(q), q.pc # "shiftLinks",
           r.pc \notin {"edit", "shiftLinks", "copy"},
           r.refresh = q.refresh, r.counted = q.counted, r.writes = q.writes,
           q.op = "assign" => r.op = "assign" /\ r.pc # "assign" /\ r.s = q.s /\ r.unit = q.unit
    PROVE  Orderly(r)
<1>1. AtHome(r)
    BY DEF Orderly, AtHome
<1>2. Counted(r)
    BY DEF Orderly, Counted
<1>3. OnList(r)
    BY DEF Orderly, OnList
<1> QED
    BY <1>1, <1>2, <1>3 DEF Orderly

(* A property of finite sets that some set has, a smallest set has.        *)
LEMMA Smallest ==
    ASSUME NEW S, IsFiniteSet(S), NEW Some, Some \subseteq SUBSET S, Some # {}
    PROVE  \E T \in Some : \A V \in Some : ~(V \subseteq T /\ V # T)
<1>1. Some \subseteq FiniteSubsetsOf(S)
  BY FS_Subset DEF FiniteSubsetsOf
<1>2. \E T \in Some : \A V \in Some : ~(<<V, T>> \in StrictSubsetOrdering(S))
  BY <1>1, FS_StrictSubsetOrderingWellFounded, WFMin
<1> QED
  BY <1>2 DEF StrictSubsetOrdering

LEMMA Lowest ==
    ASSUME NEW S, IsFiniteSet(S), S # {}, NEW below, \A k \in S : below[k] \subseteq S
    PROVE  \E k \in S : \A n \in S : ~(below[n] \subseteq below[k] /\ below[n] # below[k])
<1>1. PICK Some : Some = {below[k] : k \in S}
    OBVIOUS
<1>2. Some \subseteq SUBSET S
    BY <1>1
<1>3. Some # {}
    BY <1>1
<1>4. PICK T \in Some : \A V \in Some : ~(V \subseteq T /\ V # T)
    BY <1>2, <1>3, Smallest
<1>5. PICK k \in S : T = below[k]
    BY <1>1
<1>6. \A n \in S : below[n] \in Some
    BY <1>1
<1> QED
    BY <1>4, <1>5, <1>6

Cut(S, k) == {n \in S : n <= k}

LEMMA LowestCut ==
    ASSUME NEW S, IsFiniteSet(S), S # {}
    PROVE  \E k \in S : \A n \in S : ~(Cut(S, n) \subseteq Cut(S, k) /\ Cut(S, n) # Cut(S, k))
<1>1. PICK below : below = [k \in S |-> Cut(S, k)]
    OBVIOUS
<1>2. \A k \in S : Cut(S, k) \subseteq S
    BY DEF Cut
<1>3. \A k \in S : below[k] = Cut(S, k)
    BY <1>1
<1>4. \A k \in S : below[k] \subseteq S
    BY <1>2, <1>3
<1>5. PICK k \in S : \A n \in S : ~(below[n] \subseteq below[k] /\ below[n] # below[k])
    BY <1>4, Lowest
<1> QED
    BY <1>3, <1>5

LEMMA LeastIn ==
    ASSUME NEW S, S # {}, S \subseteq Nat, IsFiniteSet(S)
    PROVE  Least(S) \in S
<1>1. PICK k \in S : \A n \in S : ~(Cut(S, n) \subseteq Cut(S, k) /\ Cut(S, n) # Cut(S, k))
    BY LowestCut
<1>4. ASSUME NEW n \in S PROVE k <= n
  <2> SUFFICES ASSUME ~(k <= n) PROVE FALSE
      OBVIOUS
  <2>1. n \in Nat /\ k \in Nat /\ n <= k /\ k <= k
      OBVIOUS
  <2>2. k \in Cut(S, k) /\ k \notin Cut(S, n)
      BY <2>1 DEF Cut
  <2>3. Cut(S, n) \subseteq Cut(S, k)
    <3>1. ASSUME NEW m \in S, m <= n PROVE m <= k
        BY <2>1, <3>1
    <3> QED
        BY <3>1 DEF Cut
  <2> QED
      BY <1>1, <2>2, <2>3
<1>5. \E n \in S : \A m \in S : n <= m
    BY <1>4
<1> QED
    BY <1>5 DEF Least

LEMMA LeastPlace ==
    ASSUME NEW n \in Nat, NEW S, S \subseteq 1..n
    PROVE  /\ Least(S) \in 0..n
           /\ Least(S) = 0 => S = {}
           /\ Least(S) # 0 => Least(S) \in S
<1>1. S \subseteq Nat
    OBVIOUS
<1>2. IsFiniteSet(S)
  <2>1. IsFiniteSet(1..n)
      BY FS_Interval
  <2> QED
      BY <2>1, FS_Subset
<1>3. CASE S = {}
  <2>1. Least(S) = 0
      BY <1>3 DEF Least
  <2> QED
      BY <1>3, <2>1
<1>4. CASE S # {}
  <2>1. Least(S) \in S
      BY <1>1, <1>2, <1>4, LeastIn
  <2>2. Least(S) \in 1..n
      BY <2>1
  <2> QED
      BY <2>1, <2>2
<1> QED
    BY <1>3, <1>4

-----------------------------------------------------------------------------
(* Moving in: the steps of a registration, or of a family member.          *)

LEMMA JoinGoes ==
    ASSUME NEW q, NEW r, Fits(q), Orderly(q), q.op \in Joining, q.op \in Ops,
           r.pc \notin {"edit", "shiftLinks", "copy"}, r.op = q.op,
           r.refresh = q.refresh, r.counted = q.counted, r.writes = q.writes
    PROVE  Orderly(r)
<1>1. q.pc # "shiftLinks" /\ q.op # "assign"
    BY DEF Fits, InStep, Joining, JoinSteps
<1> QED
    BY <1>1, OrderGoes

LEMMA LookupKeeps == ASSUME IInv, NEW i \in Handlers, Lookup(i) PROVE IInv'
<1>1. PICK q : q = h[i]
    OBVIOUS
<1>2. q.pc = "lookup" /\ UNCHANGED <<homes, parking, started, died, clean>>
    BY <1>1 DEF Lookup, At
<1>3. PICK n : n = Least(Matching(q.p, q.u))
    OBVIOUS
<1>4. /\ n \in Nat /\ n <= Len(people)
      /\ n # 0 => n \in Matching(q.p, q.u)
  <2>1. Len(people) \in Nat /\ Matching(q.p, q.u) \subseteq 1..Len(people)
      BY DEF Matching, IInv, Filed
  <2>2. n \in 0..Len(people) /\ (n # 0 => n \in Matching(q.p, q.u))
      BY <1>3, <2>1, LeastPlace
  <2> QED
      BY <2>1, <2>2
<1>5. PICK r : r = [q EXCEPT !.pc = "person", !.n = n]
    OBVIOUS
<1>6. h' = [h EXCEPT ![i] = r]
    BY <1>1, <1>3, <1>5 DEF Lookup, IInv
<1>7. q \in Local /\ Fits(q) /\ q.op = "register" /\ (clean => Orderly(q))
  <2>1. q.pc # "idle"
      BY <1>2
  <2> QED
      BY <1>1, <1>2, <2>1, Busy DEF InStep, Ops, JoinSteps, FreeSteps
<1>8. r \in Local /\ r.pc = "person" /\ r.n = n /\ r.op = "register" /\ r.alone = q.alone
      /\ r.p = q.p /\ r.u = q.u /\ r.refresh = q.refresh /\ r.writes = q.writes
      /\ r.counted = q.counted
  <2>1. "person" \in Steps
      BY DEF Steps
  <2> QED
      BY <1>4, <1>5, <1>7, <2>1 DEF Local
<1>9. Fits(r)
    BY <1>2, <1>7, <1>8 DEF Fits, InStep, Joining, Moving, Counting
<1>10. Fresh(r)
  <2>1. FreshMove(r) /\ FreshSlot(r)
      BY <1>8, <1>9, NotOurs DEF Fits, Joining, Ops
  <2>2. FreshPerson(r)
      BY <1>4, <1>8 DEF FreshPerson, Matching, Counting
  <2>3. FreshLink(r) /\ FreshRow(r)
      BY <1>8 DEF FreshLink, FreshRow, Counting
  <2> QED
      BY <2>1, <2>2, <2>3 DEF Fresh
<1>11. clean => Orderly(r)
    BY <1>7, <1>8, JoinGoes DEF Joining, Ops
<1> QED
    BY <1>1, <1>2, <1>4, <1>6, <1>8, <1>9, <1>10, <1>11, Quietly DEF Fitting

(* The documents of residents and families change, or are one more, and    *)
(* nothing else does.                                                      *)
LEMMA PeopleFiled ==
    ASSUME Filed, people' \in Seq(Person), Len(people) <= Len(people'),
           UNCHANGED <<links, account, listed, counts, parking>>
    PROVE  Filed' /\ Len(people') \in Nat
<1>1. Len(people') \in Nat /\ DOMAIN people' = 1..Len(people')
    BY DEF Filed
<1>2. \A m \in DOMAIN links : links[m].who \in DOMAIN people'
    BY <1>1 DEF Filed
<1> QED
    BY <1>1, <1>2 DEF Filed, parking

LEMMA Appended ==
    ASSUME Filed, NEW d \in Person, people' = Append(people, d)
    PROVE  /\ people' \in Seq(Person) /\ Len(people') = Len(people) + 1
           /\ people'[Len(people')] = d
           /\ \A n \in DOMAIN people : n \in DOMAIN people' /\ people'[n] = people[n]
    BY DEF Filed

LEMMA Replaced ==
    ASSUME Filed, NEW n \in DOMAIN people, NEW d \in Person, people' = [people EXCEPT ![n] = d]
    PROVE  /\ people' \in Seq(Person) /\ Len(people') = Len(people) /\ people'[n] = d
           /\ \A k \in DOMAIN people : k # n => people'[k] = people[k]
    BY DEF Filed

LEMMA Rewritten ==
    ASSUME Filed, DOMAIN people' = DOMAIN people, people' = [n \in DOMAIN people |-> people'[n]],
           \A n \in DOMAIN people : people'[n] \in Person
    PROVE  people' \in Seq(Person) /\ Len(people') = Len(people)
<1>1. people' \in [1..Len(people) -> Person] /\ Len(people) \in Nat
    BY DEF Filed
<1> QED
    BY <1>1

(* The rest of a step of somebody who moves in that changes people only.   *)
LEMMA JoinPeople ==
    ASSUME IInv, NEW i \in Handlers, NEW q, q = h[i], q.pc # "idle", q.op \in Joining,
           NEW r \in Fitting, h' = [h EXCEPT ![i] = r], r.alone = q.alone, r.op = q.op,
           r.refresh = q.refresh, r.counted = q.counted, r.writes = q.writes,
           r.pc \notin {"edit", "shiftLinks", "copy"},
           people' \in Seq(Person), Len(people) <= Len(people'), r.n <= Len(people'),
           UNCHANGED <<links, account, listed, counts, parking, started, died, clean>>,
           q.alone => \A n \in DOMAIN people : /\ people'[n].parent = people[n].parent
                                               /\ people'[n].unit = people[n].unit,
           q.alone => FreshPerson(r)' /\ FreshLink(r)' /\ FreshRow(r)'
    PROVE  IInv'
<1>1. Filed' /\ Len(people') \in Nat
    BY PeopleFiled DEF IInv
<1>2. Fits(q) /\ q.op \in Ops /\ (clean => q.alone /\ Orderly(q))
    BY Busy
<1>3. q.alone => Fresh(r)'
  <2>1. FreshMove(r)' /\ FreshSlot(r)'
      BY NotOurs DEF Fitting, Local, Fits
  <2> QED
      BY <2>1 DEF Fresh
<1>4. ASSUME clean PROVE Orderly(r)'
  <2>1. q.pc # "shiftLinks" /\ q.op # "assign"
      BY <1>2 DEF Fits, InStep, Joining, JoinSteps
  <2>2. AtHome(r)'
      BY <1>1, <1>2, <1>4, <2>1, HomesKept DEF IInv, Orderly
  <2>3. Counted(r)'
      BY <1>2, <1>4, CountsKept DEF Orderly
  <2>4. OnList(r)'
      BY <1>2, <1>4, <2>1, ListsKept DEF Orderly, parking
  <2> QED
      BY <2>2, <2>3, <2>4 DEF Orderly
<1>5. died' \in 0..MaxAborts
    BY DEF IInv
<1> QED
    BY <1>1, <1>3, <1>4, <1>5, Turned

LEMMA SavePersonKeeps == ASSUME IInv, NEW i \in Handlers, SavePerson(i) PROVE IInv'
<1>1. PICK q : q = h[i]
    OBVIOUS
<1>2. q.pc = "person" /\ q.pc # "idle"
      /\ UNCHANGED <<links, account, listed, counts, parking, started, died, clean>>
    BY <1>1 DEF SavePerson, At
<1>3. /\ q \in Local /\ Fits(q) /\ q.op = "register" /\ q.n \in Nat /\ q.n <= Len(people)
      /\ Len(people) \in Nat /\ (q.alone => Fresh(q))
    BY <1>1, <1>2, Busy DEF InStep, Ops, JoinSteps, FreeSteps
<1>4. q.p \in Persons /\ q.u \in Units /\ q.kind \in Kinds
    BY <1>3 DEF Local
<1>5. PICK n : n = (IF q.n = 0 THEN Len(people') ELSE q.n)
    OBVIOUS
<1>6. PICK r : r = [q EXCEPT !.pc = "findAccount", !.n = n]
    OBVIOUS
<1>7. /\ people' \in Seq(Person) /\ Len(people) <= Len(people') /\ n <= Len(people')
      /\ n \in Nat /\ n # 0 /\ h' = [h EXCEPT ![i] = r]
      /\ q.alone => \A k \in DOMAIN people : /\ people'[k].parent = people[k].parent
                                             /\ people'[k].unit = people[k].unit
      /\ q.alone => people'[n].phone = q.p /\ people'[n].unit = q.u /\ people'[n].living
  <2>1. CASE q.n = 0
    <3>1. PICK d \in Person : d = [phone |-> q.p, unit |-> q.u, kind |-> q.kind,
                                   parent |-> 0, living |-> TRUE, linked |-> FALSE]
        BY <1>4 DEF Person
    <3>2. people' = Append(people, d) /\ h' = [h EXCEPT ![i] = r]
        BY <1>1, <1>5, <1>6, <2>1, <3>1 DEF SavePerson, IInv
    <3>3. /\ people' \in Seq(Person) /\ Len(people') = Len(people) + 1 /\ people'[n] = d
          /\ \A k \in DOMAIN people : people'[k] = people[k]
        BY <1>5, <2>1, <3>2, Appended DEF IInv
    <3> QED
        BY <1>3, <1>5, <2>1, <3>1, <3>2, <3>3
  <2>2. CASE q.n # 0
    <3>1. q.n \in DOMAIN people
        BY <1>3, <2>2 DEF IInv, Filed
    <3>2. /\ people' = [people EXCEPT ![q.n].unit = q.u, ![q.n].kind = q.kind,
                                      ![q.n].living = TRUE]
          /\ h' = [h EXCEPT ![i].pc = "findAccount"]
        BY <1>1, <2>2 DEF SavePerson, Goto
    <3>3. h' = [h EXCEPT ![i] = r]
        BY <1>1, <1>3, <1>5, <1>6, <2>2, <3>2 DEF IInv, Local
    <3>4. PICK d : d = [people[q.n] EXCEPT !.unit = q.u, !.kind = q.kind, !.living = TRUE]
        OBVIOUS
    <3>5. /\ d \in Person /\ d.unit = q.u /\ d.living /\ d.phone = people[q.n].phone
          /\ d.parent = people[q.n].parent
      <4>1. people[q.n] \in Person
          BY <3>1 DEF IInv, Filed
      <4> QED
          BY <1>4, <3>4, <4>1 DEF Person
    <3>6. people' = [people EXCEPT ![q.n] = d]
        BY <3>1, <3>2, <3>4 DEF IInv, Filed
    <3>7. people' \in Seq(Person) /\ Len(people') = Len(people)
        BY <3>1, <3>5, <3>6, Replaced DEF IInv
    <3>8. q.alone => people[q.n].phone = q.p /\ people[q.n].unit = q.u
        BY <1>2, <1>3, <2>2 DEF Fresh, FreshPerson
    <3> QED
        BY <1>3, <1>5, <2>2, <3>1, <3>3, <3>5, <3>6, <3>7, <3>8
  <2> QED
      BY <2>1, <2>2
<1>8. r \in Local /\ r.pc = "findAccount" /\ r.n = n /\ r.op = "register" /\ r.alone = q.alone
       /\ r.p = q.p /\ r.u = q.u /\ r.refresh = q.refresh /\ r.writes = q.writes
       /\ r.counted = q.counted
  <2>1. "findAccount" \in Steps
      BY DEF Steps
  <2> QED
      BY <1>3, <1>6, <1>7, <2>1 DEF Local
<1>9. Fits(r)
    BY <1>2, <1>3, <1>7, <1>8 DEF Fits, InStep, Joining, Moving, Counting, JoinSteps
<1>10. q.alone => FreshPerson(r)' /\ FreshLink(r)' /\ FreshRow(r)'
    BY <1>7, <1>8 DEF FreshPerson, FreshLink, FreshRow, Counting
<1> QED
    BY <1>1, <1>2, <1>3, <1>7, <1>8, <1>9, <1>10, JoinPeople DEF Fitting, Joining

LEMMA SaveFamilyKeeps == ASSUME IInv, NEW i \in Handlers, SaveFamily(i) PROVE IInv'
<1>1. PICK q : q = h[i]
    OBVIOUS
<1>2. q.pc = "family" /\ q.pc # "idle"
      /\ UNCHANGED <<links, account, listed, counts, parking, started, died, clean>>
    BY <1>1 DEF SaveFamily, At
<1>3. /\ q \in Local /\ Fits(q) /\ q.op = "family" /\ q.n \in Nat /\ Len(people) \in Nat
    BY <1>1, <1>2, Busy DEF InStep, Ops, JoinSteps, FreeSteps
<1>4. PICK d \in Person : d = [phone |-> q.p, unit |-> q.u, kind |-> "FAMILY", parent |-> q.n,
                               living |-> TRUE, linked |-> FALSE]
  <2>1. q.p \in Persons /\ q.u \in Units /\ "FAMILY" \in Kinds
      BY <1>3 DEF Local, Kinds
  <2> QED
      BY <1>3, <2>1 DEF Person
<1>5. PICK n : n = Len(people')
    OBVIOUS
<1>6. PICK r : r = [q EXCEPT !.pc = "findAccount", !.n = n]
    OBVIOUS
<1>7. people' = Append(people, d) /\ h' = [h EXCEPT ![i] = r]
    BY <1>1, <1>4, <1>5, <1>6 DEF SaveFamily, IInv
<1>8. /\ people' \in Seq(Person) /\ n = Len(people) + 1 /\ people'[n] = d
      /\ \A k \in DOMAIN people : people'[k] = people[k]
    BY <1>5, <1>7, Appended DEF IInv
<1>9. n \in Nat /\ n # 0 /\ n <= Len(people') /\ Len(people) <= Len(people')
    BY <1>3, <1>5, <1>8
<1>10. r \in Local /\ r.pc = "findAccount" /\ r.n = n /\ r.op = "family" /\ r.alone = q.alone
       /\ r.p = q.p /\ r.u = q.u /\ r.refresh = q.refresh /\ r.writes = q.writes
       /\ r.counted = q.counted /\ r.copy = q.copy
  <2>1. "findAccount" \in Steps
      BY DEF Steps
  <2> QED
      BY <1>3, <1>6, <1>9, <2>1 DEF Local
<1>11. Fits(r)
    BY <1>2, <1>3, <1>9, <1>10 DEF Fits, InStep, Joining, Moving, Counting, JoinSteps
<1>12. FreshPerson(r)' /\ FreshLink(r)' /\ FreshRow(r)'
    BY <1>4, <1>8, <1>10 DEF FreshPerson, FreshLink, FreshRow, Counting
<1>13. \A k \in DOMAIN people : /\ people'[k].parent = people[k].parent
                                /\ people'[k].unit = people[k].unit
    BY <1>8
<1>14. r \in Fitting /\ r.op = q.op /\ q.op \in Joining /\ r.n <= Len(people')
    BY <1>3, <1>9, <1>10, <1>11 DEF Fitting, Joining
<1> QED
    BY <1>1, <1>2, <1>7, <1>8, <1>9, <1>10, <1>12, <1>13, <1>14, JoinPeople

LEMMA LinkedKeeps == ASSUME IInv, NEW i \in Handlers, Linked(i) PROVE IInv'
<1>1. PICK q : q = h[i]
    OBVIOUS
<1>2. q.pc = "linked" /\ q.pc # "idle"
      /\ UNCHANGED <<links, account, listed, counts, parking, started, died, clean>>
    BY <1>1 DEF Linked, At
<1>3. /\ q \in Local /\ Fits(q) /\ q.op \in Joining /\ q.n \in Nat /\ Len(people) \in Nat
      /\ q.n <= Len(people) /\ (q.alone => Fresh(q))
    BY <1>1, <1>2, Busy DEF InStep, Ops, JoinSteps, FreeSteps, Joining
<1>4. q.n \in DOMAIN people
  <2>1. q.n # 0
      BY <1>2, <1>3 DEF Fits, Joining, Moving
  <2> QED
      BY <1>3, <2>1 DEF IInv, Filed
<1>5. PICK d : d = [people[q.n] EXCEPT !.linked = TRUE]
    OBVIOUS
<1>6. /\ d \in Person /\ d.linked /\ d.phone = people[q.n].phone /\ d.unit = people[q.n].unit
      /\ d.parent = people[q.n].parent /\ d.living = people[q.n].living
  <2>1. people[q.n] \in Person
      BY <1>4 DEF IInv, Filed
  <2> QED
      BY <1>5, <2>1 DEF Person
<1>7. people' = [people EXCEPT ![q.n] = d]
    BY <1>1, <1>4, <1>5 DEF Linked, IInv, Filed
<1>8. /\ people' \in Seq(Person) /\ Len(people') = Len(people) /\ people'[q.n] = d
      /\ \A k \in DOMAIN people : k # q.n => people'[k] = people[k]
    BY <1>4, <1>6, <1>7, Replaced DEF IInv
<1>9. \A k \in DOMAIN people : /\ people'[k].parent = people[k].parent
                               /\ people'[k].unit = people[k].unit
    BY <1>6, <1>8
<1>10. PICK r : r = [q EXCEPT !.pc = "refresh"]
    OBVIOUS
<1>11. r \in Local /\ r.pc = "refresh" /\ r.alone = q.alone /\ Alike(r, q)
  <2>1. "refresh" \in Steps
      BY DEF Steps
  <2> QED
      BY <1>3, <1>10, <2>1, GoneAlike
<1>12. h' = [h EXCEPT ![i] = r]
    BY <1>1, <1>10 DEF Linked, Goto, IInv
<1>13. Fits(r)
    BY <1>2, <1>3, <1>11 DEF Fits, InStep, Joining, Moving, Counting, JoinSteps, Alike
<1>14. ASSUME q.alone PROVE FreshPerson(r)' /\ FreshLink(r)' /\ FreshRow(r)'
  <2>1. FreshPerson(q) /\ FreshLink(q) /\ FreshRow(q)
      BY <1>3, <1>14 DEF Fresh
  <2>2. FreshPerson(r)'
      BY <1>2, <1>3, <1>6, <1>8, <1>11, <2>1 DEF FreshPerson, Alike, Counting
  <2>3. FreshLink(r)'
      BY <1>2, <1>3, <1>11, <2>1 DEF FreshLink, LinkHolds, Alike, Counting
  <2>4. FreshRow(r)'
      BY <1>2, <1>3, <1>11, <2>1 DEF FreshRow, Alike, Counting
  <2> QED
      BY <2>2, <2>3, <2>4
<1>15. /\ r.op = q.op /\ r.refresh = q.refresh /\ r.counted = q.counted /\ r.writes = q.writes
       /\ r.n <= Len(people') /\ Len(people) <= Len(people')
    BY <1>3, <1>8, <1>11 DEF Alike
<1> QED
    BY <1>1, <1>2, <1>3, <1>8, <1>9, <1>11, <1>12, <1>13, <1>14, <1>15, JoinPeople DEF Fitting

LEMMA StoreCopyKeeps == ASSUME IInv, NEW i \in Handlers, StoreCopy(i) PROVE IInv'
<1>1. PICK q : q = h[i]
    OBVIOUS
<1>2. q.pc = "copy" /\ q.pc # "idle"
      /\ UNCHANGED <<links, account, listed, counts, parking, started, died, clean>>
    BY <1>1 DEF StoreCopy, At
<1>3. /\ q \in Local /\ Fits(q) /\ q.op = "register" /\ Len(people) \in Nat
      /\ (clean => Orderly(q))
    BY <1>1, <1>2, Busy DEF InStep, Ops, JoinSteps, FreeSteps
<1>4. PICK d \in Person : d = [phone |-> q.p, unit |-> q.u, kind |-> q.kind, parent |-> 0,
                               living |-> TRUE, linked |-> TRUE]
  <2>1. q.p \in Persons /\ q.u \in Units /\ q.kind \in Kinds
      BY <1>3 DEF Local
  <2> QED
      BY <2>1 DEF Person
<1>5. people' = Append(people, d) /\ h' = [h EXCEPT ![i] = Idle]
    BY <1>1, <1>4 DEF StoreCopy, Finish
<1>6. /\ people' \in Seq(Person) /\ Len(people') = Len(people) + 1
      /\ \A k \in DOMAIN people : people'[k] = people[k]
    BY <1>5, Appended DEF IInv
<1>7. Len(people) <= Len(people') /\ 0 <= Len(people')
    BY <1>3, <1>6
<1>8. Filed' /\ Len(people') \in Nat
    BY <1>2, <1>6, <1>7, PeopleFiled DEF IInv
<1>9. PICK r : r = Idle
    OBVIOUS
<1>10. r.pc = "idle" /\ r.refresh = {} /\ r.writes = {} /\ r.n = 0
    BY <1>9 DEF Idle
<1>11. ASSUME clean PROVE Orderly(r)'
  <2>1. AtHome(r)'
      BY <1>2, <1>3, <1>6, <1>7, <1>8, <1>10, <1>11, HomesKept DEF IInv, Orderly
  <2>2. Counted(r)'
      BY <1>2, <1>3, <1>10, <1>11 DEF Orderly, Counted, CountOf
  <2>3. OnList(r)'
      BY <1>2, <1>3, <1>11, ListsKept DEF Orderly, parking
  <2> QED
      BY <2>1, <2>2, <2>3 DEF Orderly
<1>12. h[i].alone => Fresh(r)'
    BY <1>9, IdleFresh
<1>13. died' \in 0..MaxAborts /\ h[i].pc # "idle" /\ r \in Fitting /\ h' = [h EXCEPT ![i] = r]
    BY <1>1, <1>2, <1>5, <1>9, IdleFits DEF IInv
<1> QED
    BY <1>2, <1>7, <1>8, <1>9, <1>10, <1>11, <1>12, <1>13, Turned

(* A step that writes nothing the order of flats is about.                 *)
LEMMA Aside ==
    ASSUME IInv, NEW i \in Handlers, h[i].pc # "idle",
           NEW r \in Fitting, h' = [h EXCEPT ![i] = r], r = Idle \/ r.alone = h[i].alone,
           UNCHANGED <<people, links, counts, slots, allotted, started, died, clean>>,
           account' \in [Persons -> AccountStatus], listed' \in [Persons -> Row],
           parked' \in [Cars -> Slots \cup {"none"}], r.n <= Len(people),
           h[i].alone => Fresh(r)',
           clean => Orderly(r)
    PROVE  IInv'
<1>1. Filed' /\ Len(people') = Len(people) /\ Len(people') \in Nat
    BY DEF IInv, Filed
<1>2. clean' => Orderly(r)'
  <2>1. AtHome(r) => AtHome(r)'
      BY DEF AtHome
  <2>2. Counted(r) => Counted(r)'
      BY DEF Counted, CountOf
  <2>3. OnList(r) => OnList(r)'
      BY DEF OnList
  <2> QED
      BY <2>1, <2>2, <2>3 DEF Orderly
<1>3. died' \in 0..MaxAborts /\ Len(people) <= Len(people') /\ r.n <= Len(people')
    BY <1>1 DEF IInv
<1> QED
    BY <1>1, <1>2, <1>3, Turned

LEMMA FindAccountKeeps == ASSUME IInv, NEW i \in Handlers, FindAccount(i) PROVE IInv'
<1>1. PICK q : q = h[i]
    OBVIOUS
<1>2. q.pc = "findAccount" /\ q.pc # "idle" /\ UNCHANGED <<homes, parking, started, died, clean>>
    BY <1>1 DEF FindAccount, At
<1>3. /\ q \in Local /\ Fits(q) /\ q.op \in Joining /\ q.op \in Ops /\ q.n <= Len(people)
      /\ (q.alone => Fresh(q)) /\ (clean => Orderly(q))
    BY <1>1, <1>2, Busy DEF InStep, Ops, JoinSteps, FreeSteps, Joining
<1>4. PICK b \in BOOLEAN : b = (account[q.p] # "none")
    OBVIOUS
<1>5. PICK r : r = [q EXCEPT !.pc = "account", !.known = b]
    OBVIOUS
<1>6. h' = [h EXCEPT ![i] = r]
    BY <1>1, <1>4, <1>5 DEF FindAccount, IInv
<1>7. r \in Local /\ r.pc = "account" /\ r.known = b /\ r.n = q.n /\ r.op = q.op
      /\ r.alone = q.alone /\ r.p = q.p /\ r.u = q.u /\ r.refresh = q.refresh
      /\ r.writes = q.writes /\ r.counted = q.counted /\ r.copy = q.copy
  <2>1. "account" \in Steps
      BY DEF Steps
  <2> QED
      BY <1>3, <1>5, <2>1 DEF Local
<1>8. Fits(r)
    BY <1>2, <1>3, <1>7 DEF Fits, InStep, Joining, Moving, Counting, JoinSteps
<1>9. ASSUME q.alone PROVE Fresh(r)
  <2>1. FreshMove(r) /\ FreshSlot(r)
      BY <1>3, <1>7, <1>8, NotOurs DEF Fits
  <2>2. FreshPerson(r)
      BY <1>2, <1>3, <1>7, <1>9 DEF Fresh, FreshPerson, Counting
  <2>3. FreshLink(r) /\ FreshRow(r)
      BY <1>4, <1>7 DEF FreshLink, FreshRow, Counting
  <2> QED
      BY <2>1, <2>2, <2>3 DEF Fresh
<1>10. clean => Orderly(r)
    BY <1>3, <1>7, JoinGoes
<1> QED
    BY <1>1, <1>2, <1>3, <1>6, <1>7, <1>8, <1>9, <1>10, Quietly DEF Fitting

LEMMA SaveAccountKeeps == ASSUME IInv, NEW i \in Handlers, SaveAccount(i) PROVE IInv'
<1>1. PICK q : q = h[i]
    OBVIOUS
<1>2. q.pc = "account" /\ q.pc # "idle"
      /\ UNCHANGED <<people, links, listed, counts, parking, started, died, clean>>
    BY <1>1 DEF SaveAccount, At
<1>3. /\ q \in Local /\ Fits(q) /\ q.op \in Joining /\ q.op \in Ops /\ q.n <= Len(people)
      /\ (q.alone => Fresh(q)) /\ (clean => q.alone /\ Orderly(q)) /\ q.p \in Persons
      /\ Len(people) \in Nat
  <2>1. /\ q \in Local /\ Fits(q) /\ q.op \in Joining /\ q.op \in Ops /\ q.n <= Len(people)
        /\ (q.alone => Fresh(q)) /\ (clean => q.alone /\ Orderly(q)) /\ Len(people) \in Nat
      BY <1>1, <1>2, Busy DEF InStep, Ops, JoinSteps, FreeSteps, Joining
  <2> QED
      BY <2>1 DEF Local
<1>4. account' \in [Persons -> AccountStatus] /\ listed' \in [Persons -> Row]
      /\ parked' \in [Cars -> Slots \cup {"none"}]
    BY <1>1, <1>2 DEF SaveAccount, IInv, Filed, AccountStatus, parking
<1>5. PICK r : r = [q EXCEPT !.pc = "findLink", !.known = FALSE]
    OBVIOUS
<1>6. CASE h' = [h EXCEPT ![i] = r]
  <2>1. r \in Local /\ r.pc = "findLink" /\ r.n = q.n /\ r.op = q.op
        /\ r.alone = q.alone /\ r.p = q.p /\ r.u = q.u /\ r.refresh = q.refresh
        /\ r.writes = q.writes /\ r.counted = q.counted /\ r.copy = q.copy
    <3>1. "findLink" \in Steps
        BY DEF Steps
    <3> QED
        BY <1>3, <1>5, <3>1 DEF Local
  <2>2. Fits(r)
      BY <1>2, <1>3, <2>1 DEF Fits, InStep, Joining, Moving, Counting, JoinSteps
  <2>3. ASSUME q.alone PROVE Fresh(r)'
    <3>1. FreshMove(r)' /\ FreshSlot(r)'
        BY <1>3, <2>1, <2>2, NotOurs DEF Fits
    <3>2. FreshPerson(r)'
        BY <1>2, <1>3, <2>1, <2>3 DEF Fresh, FreshPerson, Counting
    <3>3. FreshLink(r)' /\ FreshRow(r)'
        BY <2>1 DEF FreshLink, FreshRow, Counting
    <3> QED
        BY <3>1, <3>2, <3>3 DEF Fresh
  <2>4. clean => Orderly(r)
      BY <1>3, <2>1, JoinGoes
  <2> QED
      BY <1>1, <1>2, <1>3, <1>4, <1>6, <2>1, <2>2, <2>3, <2>4, Aside DEF Fitting, parking
<1>7. CASE h' # [h EXCEPT ![i] = r]
  <2>1. ~q.known /\ account[q.p] # "none" /\ h' = [h EXCEPT ![i] = Idle]
      BY <1>1, <1>5, <1>7 DEF SaveAccount, Finish, IInv
  <2>2. ~q.alone
      BY <1>2, <1>3, <2>1 DEF Fresh, FreshLink
  <2>3. PICK z : z = Idle
      OBVIOUS
  <2>4. z \in Fitting /\ z.n <= Len(people) /\ (h[i].alone => Fresh(z)') /\ (clean => Orderly(z))
      BY <1>3, <2>2, <2>3, IdleFits, IdleFresh
  <2> QED
      BY <1>1, <1>2, <1>4, <2>1, <2>3, <2>4, Aside DEF parking
<1> QED
    BY <1>6, <1>7

LEMMA FindLinkKeeps == ASSUME IInv, NEW i \in Handlers, FindLink(i) PROVE IInv'
<1>1. PICK q : q = h[i]
    OBVIOUS
<1>2. q.pc = "findLink" /\ q.pc # "idle" /\ UNCHANGED <<homes, parking, started, died, clean>>
    BY <1>1 DEF FindLink, At
<1>3. /\ q \in Local /\ Fits(q) /\ q.op \in Joining /\ q.op \in Ops /\ q.n <= Len(people)
      /\ (q.alone => Fresh(q)) /\ (clean => Orderly(q))
    BY <1>1, <1>2, Busy DEF InStep, Ops, JoinSteps, FreeSteps, Joining
<1>4. PICK S : S = {m \in LinksOf(q.n) : links[m].unit = q.u}
    OBVIOUS
<1>5. PICK m : m = Least(S)
    OBVIOUS
<1>6. m \in Nat /\ (m = 0 => S = {}) /\ (m # 0 => m \in S)
  <2>1. PICK k \in Nat : k = Len(links) /\ DOMAIN links = 1..k
      BY DEF IInv, Filed
  <2>2. S \subseteq 1..k
      BY <1>4, <2>1 DEF LinksOf
  <2>3. m \in 0..k /\ (m = 0 => S = {}) /\ (m # 0 => m \in S)
      BY <1>5, <2>2, LeastPlace
  <2> QED
      BY <2>1, <2>3
<1>7. PICK r : r = [q EXCEPT !.pc = "link", !.m = m]
    OBVIOUS
<1>8. h' = [h EXCEPT ![i] = r]
    BY <1>1, <1>4, <1>5, <1>7 DEF FindLink, IInv
<1>9. r \in Local /\ r.pc = "link" /\ r.m = m /\ r.n = q.n /\ r.op = q.op
      /\ r.alone = q.alone /\ r.p = q.p /\ r.u = q.u /\ r.refresh = q.refresh
      /\ r.writes = q.writes /\ r.counted = q.counted /\ r.copy = q.copy
  <2>1. "link" \in Steps
      BY DEF Steps
  <2> QED
      BY <1>3, <1>6, <1>7, <2>1 DEF Local
<1>10. Fits(r)
    BY <1>2, <1>3, <1>9 DEF Fits, InStep, Joining, Moving, Counting, JoinSteps
<1>11. ASSUME q.alone PROVE Fresh(r)
  <2>1. FreshMove(r) /\ FreshSlot(r)
      BY <1>3, <1>9, <1>10, NotOurs DEF Fits
  <2>2. FreshPerson(r)
      BY <1>2, <1>3, <1>9, <1>11 DEF Fresh, FreshPerson, Counting
  <2>3. FreshLink(r)
    <3>1. m = 0 => \A k \in DOMAIN links : ~(links[k].who = q.n /\ links[k].unit = q.u)
        BY <1>4, <1>6 DEF LinksOf
    <3>2. m # 0 => m \in DOMAIN links /\ links[m].who = q.n /\ links[m].unit = q.u
        BY <1>4, <1>6 DEF LinksOf
    <3> QED
        BY <1>9, <3>1, <3>2 DEF FreshLink, Counting
  <2>4. FreshRow(r)
      BY <1>9 DEF FreshRow, Counting
  <2> QED
      BY <2>1, <2>2, <2>3, <2>4 DEF Fresh
<1>12. clean => Orderly(r)
    BY <1>3, <1>9, JoinGoes
<1>13. r \in Fitting /\ r.n <= Len(people)
    BY <1>3, <1>9, <1>10 DEF Fitting
<1> QED
    BY <1>1, <1>2, <1>8, <1>9, <1>11, <1>12, <1>13, Quietly

(* A flat none of whose links changed is counted as before.                *)
LEMMA CountApart ==
    ASSUME NEW v,
           \A m : (m \in DOMAIN links /\ links[m].unit = v)
                    <=> (m \in DOMAIN links' /\ links'[m].unit = v),
           \A m \in DOMAIN links : links[m].unit = v =>
               links'[m].active = links[m].active /\ links'[m].kind = links[m].kind
    PROVE  CountOf(v)' = CountOf(v)
<1>1. ASSUME NEW k \in Kinds
      PROVE  {m \in DOMAIN links' : links'[m].unit = v /\ links'[m].active /\ links'[m].kind = k}
               = {m \in DOMAIN links : links[m].unit = v /\ links[m].active /\ links[m].kind = k}
    OBVIOUS
<1> QED
    BY <1>1 DEF CountOf

LEMMA CountedApart ==
    ASSUME NEW q, NEW r, Counted(q), q.writes = {}, r.writes = {}, r.refresh = q.refresh,
           r.pc # "copy", UNCHANGED counts, \A v \in Units \ q.refresh : CountOf(v)' = CountOf(v)
    PROVE  Counted(r)'
    BY DEF Counted

(* Links change, and nothing else does.                                    *)
LEMMA LinksFiled ==
    ASSUME Filed, links' \in Seq(Link), \A m \in DOMAIN links' : links'[m].who \in DOMAIN people,
           \A m, k \in DOMAIN links' :
               links'[m].who = links'[k].who /\ links'[m].unit = links'[k].unit => m = k,
           UNCHANGED <<people, account, listed, counts, parking>>
    PROVE  Filed' /\ Len(people') = Len(people) /\ Len(people') \in Nat
    BY DEF Filed, parking

LEMMA LinkReplaced ==
    ASSUME Filed, NEW n \in DOMAIN links, NEW d \in Link, links' = [links EXCEPT ![n] = d]
    PROVE  /\ links' \in Seq(Link) /\ DOMAIN links' = DOMAIN links /\ links'[n] = d
           /\ \A k \in DOMAIN links : k # n => links'[k] = links[k]
    BY DEF Filed

LEMMA LinkAppended ==
    ASSUME Filed, NEW d \in Link, NEW e, e = Len(links) + 1, links' = Append(links, d)
    PROVE  /\ links' \in Seq(Link) /\ DOMAIN links' = 1..e /\ links'[e] = d
           /\ \A m \in DOMAIN links : m \in DOMAIN links' /\ links'[m] = links[m]
           /\ \A m \in DOMAIN links' : m = e \/ m \in DOMAIN links
           /\ e \in DOMAIN links' /\ e \notin DOMAIN links
    BY DEF Filed

LEMMA NotThere ==
    ASSUME NEW f, NEW n, n \notin DOMAIN f, NEW g, NEW a, NEW b, NEW c,
           g = [f EXCEPT ![n].kind = a, ![n].phone = b, ![n].active = c]
    PROVE  DOMAIN g = DOMAIN f /\ \A k \in DOMAIN f : g[k] = f[k]
    OBVIOUS

(* The link is renewed or written; either way the person acts for the flat.*)
LEMMA LinkWritten ==
    ASSUME IInv, NEW q \in Local, q.n \in DOMAIN people, q.m \in Nat,
           \/ /\ q.m # 0
              /\ links' = [links EXCEPT ![q.m].kind = q.kind, ![q.m].phone = q.p,
                                        ![q.m].active = TRUE]
           \/ /\ \A m \in DOMAIN links : ~(links[m].who = q.n /\ links[m].unit = q.u)
              /\ q.m = 0
              /\ links' = Append(links, [unit |-> q.u, who |-> q.n, phone |-> q.p,
                                         kind |-> q.kind, active |-> TRUE])
    PROVE  /\ links' \in Seq(Link)
           /\ \A m \in DOMAIN links' : links'[m].who \in DOMAIN people
           /\ \A m, k \in DOMAIN links' :
                 links'[m].who = links'[k].who /\ links'[m].unit = links'[k].unit => m = k
           /\ \A m \in DOMAIN links' : \/ links'[m].who = q.n /\ links'[m].unit = q.u
                                       \/ /\ m \in DOMAIN links /\ links'[m].who = links[m].who
                                          /\ links'[m].unit = links[m].unit
           /\ \A m \in DOMAIN links : /\ m \in DOMAIN links'
                                      /\ m # q.m => links'[m] = links[m]
           /\ q.m = 0 \/ (q.m \in DOMAIN links /\ links[q.m].who = q.n /\ links[q.m].unit = q.u)
                => LinkHolds(q.n, q.u, q.p)'
<1>1. links \in Seq(Link) /\ Len(links) \in Nat /\ DOMAIN links = 1..Len(links)
    BY DEF IInv, Filed
<1>2. q.p \in Persons /\ q.u \in Units /\ q.kind \in Kinds /\ q.n \in Nat
    BY DEF Local
<1>3. CASE q.m # 0
  <2>1. links' = [links EXCEPT ![q.m].kind = q.kind, ![q.m].phone = q.p, ![q.m].active = TRUE]
      BY <1>3
  <2>2. CASE q.m \in DOMAIN links
    <3>1. PICK l : l = [links[q.m] EXCEPT !.kind = q.kind, !.phone = q.p, !.active = TRUE]
        OBVIOUS
    <3>2. l \in Link /\ l.unit = links[q.m].unit /\ l.who = links[q.m].who /\ l.phone = q.p
          /\ l.active
      <4>1. links[q.m] \in Link
          BY <1>1, <2>2
      <4> QED
          BY <1>2, <3>1, <4>1 DEF Link
    <3>3. links' = [links EXCEPT ![q.m] = l]
        BY <1>1, <2>1, <2>2, <3>1
    <3>4. links' \in Seq(Link) /\ DOMAIN links' = DOMAIN links /\ links'[q.m] = l
          /\ \A m \in DOMAIN links : m # q.m => links'[m] = links[m]
        BY <2>2, <3>2, <3>3, LinkReplaced DEF IInv
    <3>5. \A m \in DOMAIN links' : links'[m].who = links[m].who /\ links'[m].unit = links[m].unit
        BY <3>2, <3>4
    <3>6. links[q.m].who = q.n /\ links[q.m].unit = q.u => LinkHolds(q.n, q.u, q.p)'
        BY <2>2, <3>2, <3>4 DEF LinkHolds
    <3> QED
        BY <1>3, <2>2, <3>2, <3>4, <3>5, <3>6 DEF IInv, Filed
  <2>3. CASE q.m \notin DOMAIN links
    <3>1. DOMAIN links' = DOMAIN links /\ \A m \in DOMAIN links : links'[m] = links[m]
        BY <2>1, <2>3, NotThere
    <3>2. links' = [m \in DOMAIN links |-> links'[m]]
        BY <2>1, <3>1
    <3>3. links = [m \in DOMAIN links |-> links[m]]
        BY <1>1
    <3>4. links' = links
        BY <3>1, <3>2, <3>3
    <3>5. /\ \A m \in DOMAIN links' : links'[m].who \in DOMAIN people
          /\ \A m, k \in DOMAIN links' :
                links'[m].who = links'[k].who /\ links'[m].unit = links'[k].unit => m = k
        BY <3>4 DEF IInv, Filed
    <3> QED
        BY <1>1, <1>3, <2>3, <3>4, <3>5
  <2> QED
      BY <2>2, <2>3
<1>4. CASE q.m = 0
  <2>1. PICK l : l = [unit |-> q.u, who |-> q.n, phone |-> q.p, kind |-> q.kind, active |-> TRUE]
      OBVIOUS
  <2>2. l \in Link
      BY <1>2, <2>1 DEF Link
  <2>3. /\ \A m \in DOMAIN links : ~(links[m].who = q.n /\ links[m].unit = q.u)
        /\ links' = Append(links, l)
      BY <1>4, <2>1
  <2>4. PICK e : e = Len(links) + 1
      OBVIOUS
  <2>5. /\ links' \in Seq(Link) /\ DOMAIN links' = 1..e /\ links'[e] = l
        /\ \A m \in DOMAIN links : m \in DOMAIN links' /\ links'[m] = links[m]
        /\ \A m \in DOMAIN links' : m = e \/ m \in DOMAIN links
        /\ e \in DOMAIN links' /\ e \notin DOMAIN links
      BY <2>2, <2>3, <2>4, LinkAppended DEF IInv
  <2>6. \A m, k \in DOMAIN links' :
            links'[m].who = links'[k].who /\ links'[m].unit = links'[k].unit => m = k
      BY <2>1, <2>3, <2>5 DEF IInv, Filed
  <2>7. \A m \in DOMAIN links' : links'[m].who \in DOMAIN people
      BY <2>1, <2>5 DEF IInv, Filed
  <2>8. LinkHolds(q.n, q.u, q.p)'
      BY <2>1, <2>5 DEF LinkHolds
  <2>9. \A m \in DOMAIN links' : \/ links'[m].who = q.n /\ links'[m].unit = q.u
                                 \/ /\ m \in DOMAIN links /\ links'[m].who = links[m].who
                                    /\ links'[m].unit = links[m].unit
      BY <2>1, <2>5
  <2> QED
      BY <1>4, <2>5, <2>6, <2>7, <2>8, <2>9
<1> QED
    BY <1>3, <1>4

LEMMA SaveLinkKeeps == ASSUME IInv, NEW i \in Handlers, SaveLink(i) PROVE IInv'
<1>1. PICK q : q = h[i]
    OBVIOUS
<1>2. q.pc = "link" /\ q.pc # "idle"
      /\ UNCHANGED <<people, account, listed, counts, parking, started, died, clean>>
    BY <1>1 DEF SaveLink, At
<1>3. /\ q \in Local /\ Fits(q) /\ q.op \in Joining /\ q.op \in Ops /\ q.n <= Len(people)
      /\ (q.alone => Fresh(q)) /\ (clean => q.alone /\ Orderly(q))
      /\ Len(people) \in Nat /\ q.n \in Nat
    BY <1>1, <1>2, Busy DEF InStep, Ops, JoinSteps, FreeSteps, Joining
<1>4. q.n \in DOMAIN people /\ q.u \in q.refresh /\ q.writes = {}
  <2>1. q.n # 0 /\ q.u \in q.refresh /\ q.writes = {}
      BY <1>2, <1>3 DEF Fits, Joining, Moving, Counting
  <2> QED
      BY <1>3, <2>1 DEF IInv, Filed
<1>5. died' \in 0..MaxAborts
    BY <1>2 DEF IInv
<1>6. PICK r : r = [q EXCEPT !.pc = "units", !.m = 0]
    OBVIOUS
<1>7. CASE h' = [h EXCEPT ![i] = Idle] /\ UNCHANGED links
           /\ q.m = 0 /\ \E m \in LinksOf(q.n) : links[m].unit = q.u
  <2>1. ~q.alone
      BY <1>2, <1>3, <1>7 DEF Fresh, FreshLink, LinksOf
  <2>2. PICK z : z = Idle
      OBVIOUS
  <2>3. z \in Fitting /\ z.n <= Len(people) /\ (h[i].alone => Fresh(z)) /\ (clean => Orderly(z))
      BY <1>3, <2>1, <2>2, IdleFits, IdleFresh
  <2> QED
      BY <1>1, <1>2, <1>7, <2>2, <2>3, Quietly DEF homes
<1>8. CASE /\ h' = [h EXCEPT ![i] = r]
           /\ \/ /\ q.m # 0
                 /\ links' = [links EXCEPT ![q.m].kind = q.kind, ![q.m].phone = q.p,
                                           ![q.m].active = TRUE]
              \/ /\ \A m \in DOMAIN links : ~(links[m].who = q.n /\ links[m].unit = q.u)
                 /\ q.m = 0
                 /\ links' = Append(links, [unit |-> q.u, who |-> q.n, phone |-> q.p,
                                            kind |-> q.kind, active |-> TRUE])
  <2>1. r \in Local /\ r.pc = "units" /\ r.n = q.n /\ r.op = q.op
        /\ r.alone = q.alone /\ r.p = q.p /\ r.u = q.u /\ r.refresh = q.refresh
        /\ r.writes = q.writes /\ r.counted = q.counted /\ r.copy = q.copy
    <3>1. "units" \in Steps
        BY DEF Steps
    <3> QED
        BY <1>3, <1>6, <3>1 DEF Local
  <2>2. Fits(r)
      BY <1>2, <1>3, <2>1 DEF Fits, InStep, Joining, Moving, Counting, JoinSteps
  <2>3. q.m \in Nat
      BY <1>3 DEF Local
  <2>4. /\ links' \in Seq(Link)
        /\ \A m \in DOMAIN links' : links'[m].who \in DOMAIN people
        /\ \A m, k \in DOMAIN links' :
              links'[m].who = links'[k].who /\ links'[m].unit = links'[k].unit => m = k
        /\ \A m \in DOMAIN links' : \/ links'[m].who = q.n /\ links'[m].unit = q.u
                                    \/ /\ m \in DOMAIN links /\ links'[m].who = links[m].who
                                       /\ links'[m].unit = links[m].unit
        /\ \A m \in DOMAIN links : /\ m \in DOMAIN links'
                                   /\ m # q.m => links'[m] = links[m]
        /\ q.m = 0 \/ (q.m \in DOMAIN links /\ links[q.m].who = q.n /\ links[q.m].unit = q.u)
             => LinkHolds(q.n, q.u, q.p)'
      BY <1>3, <1>4, <1>8, <2>3, LinkWritten
  <2>5. Filed' /\ Len(people') = Len(people)
      BY <1>2, <2>4, LinksFiled DEF IInv
  <2>6. q.alone => q.m = 0 \/ (q.m \in DOMAIN links /\ links[q.m].who = q.n /\ links[q.m].unit = q.u)
      BY <1>2, <1>3 DEF Fresh, FreshLink
  <2>7. ASSUME q.alone PROVE Fresh(r)'
    <3>1. FreshMove(r)' /\ FreshSlot(r)'
        BY <1>3, <2>1, <2>2, NotOurs DEF Fits
    <3>2. FreshPerson(r)'
        BY <1>2, <1>3, <2>1, <2>7 DEF Fresh, FreshPerson, Counting
    <3>3. FreshLink(r)'
        BY <2>1, <2>4, <2>6, <2>7 DEF FreshLink, Counting
    <3>4. FreshRow(r)'
        BY <2>1 DEF FreshRow, Counting
    <3> QED
        BY <3>1, <3>2, <3>3, <3>4 DEF Fresh
  <2>8. ASSUME clean PROVE Orderly(r)'
    <3>1. people[q.n].unit = q.u
        BY <1>2, <1>3, <2>8 DEF Fresh, FreshPerson
    <3>2. AtHome(r)'
        BY <1>2, <1>3, <2>1, <2>4, <2>8, <3>1 DEF Orderly, AtHome
    <3>3. ASSUME NEW v \in Units \ q.refresh PROVE CountOf(v)' = CountOf(v)
      <4>1. v # q.u
          BY <1>4
      <4>2. \A m : (m \in DOMAIN links /\ links[m].unit = v)
                     <=> (m \in DOMAIN links' /\ links'[m].unit = v)
          BY <2>4, <2>6, <2>8, <1>3, <4>1
      <4>3. \A m \in DOMAIN links : links[m].unit = v =>
                links'[m].active = links[m].active /\ links'[m].kind = links[m].kind
          BY <2>4, <2>6, <2>8, <1>3, <4>1
      <4> QED
          BY <4>2, <4>3, CountApart
    <3>4. Counted(r)'
        BY <1>2, <1>3, <1>4, <2>1, <2>8, <3>3, CountedApart DEF Orderly
    <3>5. OnList(r)'
      <4>1. q.op # "assign"
          BY <1>3 DEF Joining
      <4> QED
          BY <1>2, <1>3, <2>8, <4>1, ListsKept DEF Orderly, parking
    <3> QED
        BY <3>2, <3>4, <3>5 DEF Orderly
  <2>9. r \in Fitting /\ r.n <= Len(people') /\ Len(people) <= Len(people') /\ Len(people') \in Nat
      BY <1>3, <2>1, <2>2, <2>5 DEF Fitting
  <2> QED
      BY <1>1, <1>2, <1>5, <1>8, <2>1, <2>5, <2>7, <2>8, <2>9, Turned
<1>9. <1>7!1 \/ <1>8!1
  <2>1. CASE q.m # 0
    <3>1. /\ links' = [links EXCEPT ![q.m].kind = q.kind, ![q.m].phone = q.p, ![q.m].active = TRUE]
          /\ h' = [h EXCEPT ![i].pc = "units", ![i].m = 0]
        BY <1>1, <2>1 DEF SaveLink, Relinked
    <3>2. h' = [h EXCEPT ![i] = r]
        BY <1>1, <1>6, <3>1 DEF IInv
    <3> QED
        BY <2>1, <3>1, <3>2
  <2>2. CASE q.m = 0
    <3>1. CASE \E m \in LinksOf(q.n) : links[m].unit = q.u
        BY <1>1, <2>2, <3>1 DEF SaveLink, Finish
    <3>2. CASE ~ \E m \in LinksOf(q.n) : links[m].unit = q.u
      <4>1. /\ links' = Append(links, [unit |-> q.u, who |-> q.n, phone |-> q.p,
                                       kind |-> q.kind, active |-> TRUE])
            /\ h' = [h EXCEPT ![i].pc = "units"]
          BY <1>1, <2>2, <3>2 DEF SaveLink, Goto
      <4>2. h' = [h EXCEPT ![i] = r]
          BY <1>1, <1>3, <1>6, <2>2, <4>1 DEF IInv, Local
      <4> QED
          BY <2>2, <3>2, <4>1, <4>2 DEF LinksOf
    <3> QED
        BY <3>1, <3>2
  <2> QED
      BY <2>1, <2>2
<1> QED
    BY <1>7, <1>8, <1>9

LEMMA UnitsOfUserKeeps == ASSUME IInv, NEW i \in Handlers, UnitsOfUser(i) PROVE IInv'
<1>1. PICK q : q = h[i]
    OBVIOUS
<1>2. q.pc = "units" /\ q.pc # "idle" /\ UNCHANGED <<homes, parking, started, died, clean>>
    BY <1>1 DEF UnitsOfUser, At
<1>3. /\ q \in Local /\ Fits(q) /\ q.op \in Joining /\ q.op \in Ops /\ q.n <= Len(people)
      /\ (q.alone => Fresh(q)) /\ (clean => Orderly(q))
    BY <1>1, <1>2, Busy DEF InStep, Ops, JoinSteps, FreeSteps, Joining
<1>4. PICK us : us = {links[m].unit : m \in Active(q.p)}
    OBVIOUS
<1>5. us \in SUBSET Units
  <2>1. \A m \in DOMAIN links : links[m].unit \in Units
    <3>1. \A m \in DOMAIN links : links[m] \in Link
        BY DEF IInv, Filed
    <3> QED
        BY <3>1 DEF Link
  <2> QED
      BY <1>4, <2>1 DEF Active
<1>6. PICK r : r = [q EXCEPT !.pc = "list", !.units = us]
    OBVIOUS
<1>7. h' = [h EXCEPT ![i] = r]
    BY <1>1, <1>4, <1>6 DEF UnitsOfUser, IInv
<1>8. r \in Local /\ r.pc = "list" /\ r.units = us /\ r.n = q.n /\ r.op = q.op
      /\ r.alone = q.alone /\ r.p = q.p /\ r.u = q.u /\ r.refresh = q.refresh
      /\ r.writes = q.writes /\ r.counted = q.counted /\ r.copy = q.copy
  <2>1. "list" \in Steps
      BY DEF Steps
  <2> QED
      BY <1>3, <1>5, <1>6, <2>1 DEF Local
<1>9. Fits(r)
    BY <1>2, <1>3, <1>8 DEF Fits, InStep, Joining, Moving, Counting, JoinSteps
<1>10. ASSUME q.alone PROVE Fresh(r)
  <2>1. FreshMove(r) /\ FreshSlot(r)
      BY <1>3, <1>8, <1>9, NotOurs DEF Fits
  <2>2. FreshPerson(r)
      BY <1>2, <1>3, <1>8, <1>10 DEF Fresh, FreshPerson, Counting
  <2>3. LinkHolds(q.n, q.u, q.p)
      BY <1>2, <1>3, <1>10 DEF Fresh, FreshLink
  <2>4. FreshLink(r)
      BY <1>8, <2>3 DEF FreshLink, Counting
  <2>5. q.u \in us
      BY <1>4, <2>3 DEF LinkHolds, Active
  <2>6. FreshRow(r)
      BY <1>8, <2>5 DEF FreshRow, Counting
  <2> QED
      BY <2>1, <2>2, <2>4, <2>6 DEF Fresh
<1>11. clean => Orderly(r)
    BY <1>3, <1>8, JoinGoes
<1>12. r \in Fitting /\ r.n <= Len(people)
    BY <1>3, <1>8, <1>9 DEF Fitting
<1> QED
    BY <1>1, <1>2, <1>7, <1>8, <1>10, <1>11, <1>12, Quietly

LEMMA UpsertMembershipKeeps == ASSUME IInv, NEW i \in Handlers, UpsertMembership(i) PROVE IInv'
<1>1. PICK q : q = h[i]
    OBVIOUS
<1>2. q.pc = "list" /\ q.pc # "idle"
      /\ UNCHANGED <<people, links, account, counts, parking, started, died, clean>>
    BY <1>1 DEF UpsertMembership, At
<1>3. /\ q \in Local /\ Fits(q) /\ q.op \in Joining /\ q.op \in Ops /\ q.n <= Len(people)
      /\ (q.alone => Fresh(q)) /\ (clean => Orderly(q))
    BY <1>1, <1>2, Busy DEF InStep, Ops, JoinSteps, FreeSteps, Joining
<1>4. q.p \in Persons /\ q.units \in SUBSET Units
    BY <1>3 DEF Local
<1>5. listed' = [listed EXCEPT ![q.p] = [status |-> "ACTIVE", units |-> q.units]]
    BY <1>1 DEF UpsertMembership
<1>6. /\ listed' \in [Persons -> Row]
      /\ listed'[q.p].status = "ACTIVE" /\ listed'[q.p].units = q.units
    BY <1>4, <1>5 DEF IInv, Filed, Row
<1>7. PICK r : r = [q EXCEPT !.pc = "linked", !.units = {}]
    OBVIOUS
<1>8. h' = [h EXCEPT ![i] = r]
    BY <1>1, <1>7 DEF UpsertMembership, IInv
<1>9. r \in Local /\ r.pc = "linked" /\ r.n = q.n /\ r.op = q.op
      /\ r.alone = q.alone /\ r.p = q.p /\ r.u = q.u /\ r.refresh = q.refresh
      /\ r.writes = q.writes /\ r.counted = q.counted /\ r.copy = q.copy
  <2>1. "linked" \in Steps
      BY DEF Steps
  <2> QED
      BY <1>3, <1>7, <2>1 DEF Local
<1>10. Fits(r)
    BY <1>2, <1>3, <1>9 DEF Fits, InStep, Joining, Moving, Counting, JoinSteps
<1>11. ASSUME q.alone PROVE Fresh(r)'
  <2>1. FreshMove(r)' /\ FreshSlot(r)'
      BY <1>3, <1>9, <1>10, NotOurs DEF Fits
  <2>2. FreshPerson(r)'
      BY <1>2, <1>3, <1>9, <1>11 DEF Fresh, FreshPerson, Counting
  <2>3. FreshLink(r)'
      BY <1>2, <1>3, <1>9, <1>11 DEF Fresh, FreshLink, LinkHolds, Counting
  <2>4. q.u \in q.units
      BY <1>2, <1>3, <1>11 DEF Fresh, FreshRow
  <2>5. FreshRow(r)'
      BY <1>6, <1>9, <2>4 DEF FreshRow, Counting
  <2> QED
      BY <2>1, <2>2, <2>3, <2>5 DEF Fresh
<1>12. clean => Orderly(r)
    BY <1>3, <1>9, JoinGoes
<1>13. /\ r \in Fitting /\ r.n <= Len(people)
       /\ account' \in [Persons -> AccountStatus] /\ parked' \in [Cars -> Slots \cup {"none"}]
    BY <1>2, <1>3, <1>9, <1>10 DEF Fitting, IInv, Filed, parking
<1> QED
    BY <1>1, <1>2, <1>6, <1>8, <1>9, <1>11, <1>12, <1>13, Aside DEF parking

-----------------------------------------------------------------------------
(* The counters.                                                           *)

LEMMA CountTyped == ASSUME Filed, NEW u PROVE CountOf(u) \in Count
<1>1. ASSUME NEW k \in Kinds
      PROVE  Cardinality({m \in DOMAIN links :
                 links[m].unit = u /\ links[m].active /\ links[m].kind = k}) \in Nat
  <2>1. PICK n \in Nat : DOMAIN links = 1..n
      BY DEF Filed
  <2>2. IsFiniteSet(1..n)
      BY FS_Interval
  <2>3. IsFiniteSet({m \in DOMAIN links :
                 links[m].unit = u /\ links[m].active /\ links[m].kind = k})
      BY <2>1, <2>2, FS_Subset
  <2> QED
      BY <2>3, FS_CardinalityType
<1> QED
    BY <1>1 DEF CountOf, Count

LEMMA CountReadKeeps ==
    ASSUME IInv, NEW i \in Handlers, NEW u \in Units, CountRead(i, u) PROVE IInv'
<1>1. PICK q : q = h[i]
    OBVIOUS
<1>2. q.pc = "refresh" /\ q.pc # "idle" /\ UNCHANGED <<homes, parking, started, died, clean>>
      /\ u \in q.refresh
    BY <1>1 DEF CountRead, At
<1>3. /\ q \in Local /\ Fits(q) /\ q.op \in Moving /\ q.n <= Len(people)
      /\ (q.alone => Fresh(q)) /\ (clean => Orderly(q))
    BY <1>1, <1>2, Busy DEF InStep, Ops, JoinSteps, FreeSteps, Joining, Moving
<1>4. PICK c \in Count : c = CountOf(u)
    BY CountTyped DEF IInv
<1>5. PICK r : r = [q EXCEPT !.refresh = @ \ {u}, !.writes = @ \cup {u}, !.counted[u] = c]
    OBVIOUS
<1>6. h' = [h EXCEPT ![i] = r]
    BY <1>1, <1>4, <1>5 DEF CountRead, IInv
<1>7. /\ q.refresh \in SUBSET Units /\ q.writes \in SUBSET Units
      /\ q.counted \in [Units -> Count \cup {NoCount}]
    BY <1>3 DEF Local
<1>8. /\ r \in Local /\ r.pc = q.pc /\ r.alone = q.alone /\ Sees(r, q) /\ r.copy = q.copy
      /\ r.refresh = q.refresh \ {u} /\ r.writes = q.writes \cup {u}
      /\ r.counted = [q.counted EXCEPT ![u] = c]
  <2>1. PICK f : f = [q.counted EXCEPT ![u] = c]
      OBVIOUS
  <2>2. f \in [Units -> Count \cup {NoCount}]
      BY <1>7, <2>1
  <2>3. PICK a \in SUBSET Units : a = q.refresh \ {u}
      BY <1>7
  <2>4. PICK b \in SUBSET Units : b = q.writes \cup {u}
      BY <1>7
  <2>5. r = [q EXCEPT !.refresh = a, !.writes = b, !.counted = f]
      BY <1>3, <1>5, <2>1, <2>3, <2>4 DEF Local
  <2>6. r \in Local
      BY <1>3, <2>2, <2>5 DEF Local
  <2>7. Sees(r, q) /\ r.pc = q.pc /\ r.alone = q.alone /\ r.copy = q.copy
      BY <1>3, <2>5 DEF Local, Sees
  <2> QED
      BY <1>3, <2>1, <2>3, <2>4, <2>5, <2>6, <2>7 DEF Local
<1>9. Fits(r)
    BY <1>2, <1>3, <1>8 DEF Fits, InStep, Moving, Joining, Counting, Sees
<1>10. q.alone => Fresh(r)
    BY <1>3, <1>8, FreshSees
<1>11. ASSUME clean PROVE Orderly(r)
  <2>1. AtHome(r)
      BY <1>2, <1>3, <1>8, <1>11 DEF Orderly, AtHome
  <2>2. Counted(r)
      BY <1>2, <1>3, <1>4, <1>7, <1>8, <1>11 DEF Orderly, Counted
  <2>3. OnList(r)
      BY <1>3, <1>8, <1>11 DEF Orderly, OnList, Sees, Moving, Joining
  <2> QED
      BY <2>1, <2>2, <2>3 DEF Orderly
<1>12. r \in Fitting /\ r.n <= Len(people)
    BY <1>3, <1>8, <1>9 DEF Fitting, Sees
<1> QED
    BY <1>1, <1>2, <1>6, <1>8, <1>10, <1>11, <1>12, Quietly

LEMMA CountWriteKeeps ==
    ASSUME IInv, NEW i \in Handlers, NEW u \in Units, CountWrite(i, u) PROVE IInv'
<1>1. PICK q : q = h[i]
    OBVIOUS
<1>2. q.pc = "refresh" /\ q.pc # "idle" /\ u \in q.writes
      /\ UNCHANGED <<people, links, account, listed, parking, started, died, clean>>
    BY <1>1 DEF CountWrite, At
<1>3. /\ q \in Local /\ Fits(q) /\ q.op \in Moving /\ q.n <= Len(people) /\ Len(people) \in Nat
      /\ (q.alone => Fresh(q)) /\ (clean => q.alone /\ Orderly(q))
    BY <1>1, <1>2, Busy DEF InStep, Ops, JoinSteps, FreeSteps, Joining, Moving
<1>4. /\ q.refresh \in SUBSET Units /\ q.writes \in SUBSET Units
      /\ q.counted \in [Units -> Count \cup {NoCount}]
    BY <1>3 DEF Local
<1>5. counts' = [counts EXCEPT ![u] = q.counted[u]] /\ q.counted[u] \in Count
    BY <1>1, <1>4 DEF CountWrite, NoCount, Count
<1>6. Filed' /\ Len(people') = Len(people)
    BY <1>2, <1>5 DEF IInv, Filed, parking
<1>7. ASSUME NEW r \in Fitting, h' = [h EXCEPT ![i] = r], r = Idle \/ r.alone = q.alone,
             r.n <= Len(people), q.alone => Fresh(r), r.pc \notin {"edit", "shiftLinks"},
             r.refresh \cup r.writes \cup {u} = q.refresh \cup q.writes,
             r.pc = "copy" => q.refresh \cup q.writes = {u},
             \A v \in r.writes : v \in q.writes /\ r.counted[v] = q.counted[v]
      PROVE  IInv'
  <2>1. q.alone => Fresh(r)'
      BY <1>2, <1>7, FreshStays DEF parking
  <2>2. ASSUME clean PROVE Orderly(r)'
    <3>1. AtHome(r)'
        BY <1>2, <1>3, <1>7, <2>2 DEF Orderly, AtHome
    <3>2. \A v \in Units : CountOf(v)' = CountOf(v)
        BY <1>2 DEF CountOf
    <3>3. ASSUME NEW v \in Units PROVE counts'[v] = IF v = u THEN q.counted[u] ELSE counts[v]
        BY <1>5 DEF IInv, Filed
    <3>4. /\ \A v \in Units : v \in q.writes => q.counted[v] = CountOf(v)
          /\ \A v \in Units : v \notin q.refresh \cup q.writes => counts[v] = CountOf(v)
        BY <1>3, <2>2 DEF Orderly, Counted
    <3>5. ASSUME NEW v \in Units
          PROVE  /\ v \in r.writes => r.counted[v] = CountOf(v)'
                 /\ counts'[v] = CountOf(v)' \/ (r.pc # "copy" /\ v \in r.refresh \cup r.writes)
      <4>1. v \in r.writes => r.counted[v] = CountOf(v)'
          BY <1>7, <3>2, <3>4
      <4>2. CASE v = u
          BY <1>2, <3>2, <3>3, <3>4, <4>1, <4>2
      <4>3. CASE v # u /\ v \notin q.refresh \cup q.writes
          BY <3>2, <3>3, <3>4, <4>1, <4>3
      <4>4. CASE v # u /\ v \in q.refresh \cup q.writes
        <5>1. v \in r.refresh \cup r.writes
            BY <1>7, <4>4
        <5>2. r.pc # "copy"
            BY <1>7, <4>4
        <5> QED
            BY <4>1, <5>1, <5>2
      <4> QED
          BY <4>2, <4>3, <4>4
    <3>6. Counted(r)'
        BY <3>5 DEF Counted
    <3>7. OnList(r)'
      <4>1. q.op # "assign"
          BY <1>3 DEF Moving, Joining
      <4> QED
          BY <1>2, <1>3, <2>2, <4>1, ListsKept DEF Orderly, parking
    <3> QED
        BY <3>1, <3>6, <3>7 DEF Orderly
  <2>3. died' \in 0..MaxAborts /\ Len(people') \in Nat /\ Len(people) <= Len(people')
        /\ r.n <= Len(people')
      BY <1>2, <1>3, <1>6, <1>7 DEF IInv
  <2> QED
      BY <1>1, <1>2, <1>6, <1>7, <2>1, <2>2, <2>3, Turned
<1>8. CASE q.refresh = {} /\ q.writes = {u} /\ q.copy
  <2>1. PICK r : r = [q EXCEPT !.pc = "copy"]
      OBVIOUS
  <2>2. h' = [h EXCEPT ![i] = r]
      BY <1>1, <1>8, <2>1 DEF CountWrite, Goto, IInv
  <2>3. r \in Local /\ r.pc = "copy" /\ r.alone = q.alone /\ Alike(r, q)
    <3>1. "copy" \in Steps
        BY DEF Steps
    <3> QED
        BY <1>3, <2>1, <3>1, GoneAlike
  <2>4. q.op = "register" /\ q.op \in Joining /\ q.op \in Ops
      BY <1>3, <1>8 DEF Fits, Joining, Ops
  <2>5. Fits(r)
      BY <1>2, <1>3, <2>3, <2>4 DEF Fits, InStep, Moving, Joining, Counting, Alike
  <2>6. ASSUME q.alone PROVE Fresh(r)
    <3>1. FreshMove(r) /\ FreshSlot(r)
        BY <2>3, <2>4, <2>5, NotOurs DEF Fits, Alike
    <3>2. FreshPerson(r)
        BY <1>2, <1>3, <2>3, <2>4, <2>6 DEF Fresh, FreshPerson, Counting, Alike
    <3>3. FreshLink(r)
        BY <1>2, <1>3, <2>3, <2>4, <2>6 DEF Fresh, FreshLink, Counting, Alike
    <3>4. FreshRow(r)
        BY <1>2, <1>3, <2>3, <2>4, <2>6 DEF Fresh, FreshRow, Counting, Alike
    <3> QED
        BY <3>1, <3>2, <3>3, <3>4 DEF Fresh
  <2>7. /\ r \in Fitting /\ r.n <= Len(people) /\ r.refresh = {} /\ r.writes = {u}
        /\ r.counted = q.counted
      BY <1>3, <1>8, <2>3, <2>5 DEF Fitting, Alike
  <2> QED
      BY <1>7, <1>8, <2>2, <2>3, <2>6, <2>7
<1>9. CASE q.refresh = {} /\ q.writes = {u} /\ ~q.copy
  <2>1. h' = [h EXCEPT ![i] = Idle]
      BY <1>1, <1>9 DEF CountWrite, Finish
  <2>2. PICK r : r = Idle
      OBVIOUS
  <2>3. r \in Fitting /\ r.n = 0 /\ r.pc = "idle" /\ r.refresh = {} /\ r.writes = {} /\ Fresh(r)
      BY <2>2, IdleFits, IdleFresh DEF Idle
  <2>4. r.refresh \cup r.writes \cup {u} = q.refresh \cup q.writes
      BY <1>9, <2>3
  <2>5. h' = [h EXCEPT ![i] = r] /\ r.n <= Len(people) /\ r.pc \notin {"edit", "shiftLinks", "copy"}
      BY <1>3, <2>1, <2>2, <2>3
  <2>6. \A v \in r.writes : v \in q.writes /\ r.counted[v] = q.counted[v]
      BY <2>3
  <2> QED
      BY <1>7, <2>2, <2>3, <2>4, <2>5, <2>6
<1>10. CASE ~(q.refresh = {} /\ q.writes = {u})
  <2>1. PICK a \in SUBSET Units : a = q.writes \ {u}
      BY <1>4
  <2>2. PICK f \in [Units -> Count \cup {NoCount}] : f = [q.counted EXCEPT ![u] = NoCount]
      BY <1>4
  <2>3. PICK r : r = [q EXCEPT !.writes = a, !.counted = f]
      OBVIOUS
  <2>4. h' = [h EXCEPT ![i] = r]
    <3>1. h' = [h EXCEPT ![i].writes = @ \ {u}, ![i].counted[u] = NoCount]
        BY <1>1, <1>10 DEF CountWrite
    <3> QED
        BY <1>1, <1>3, <2>1, <2>2, <2>3, <3>1 DEF IInv, Local
  <2>5. /\ r \in Local /\ r.pc = q.pc /\ r.alone = q.alone /\ Sees(r, q) /\ r.copy = q.copy
        /\ r.refresh = q.refresh /\ r.writes = a /\ r.counted = f
    <3>1. r \in Local
        BY <1>3, <2>3 DEF Local
    <3> QED
        BY <1>3, <2>3, <3>1 DEF Local, Sees
  <2>6. Fits(r)
      BY <1>2, <1>3, <2>5 DEF Fits, InStep, Moving, Joining, Counting, Sees
  <2>7. q.alone => Fresh(r)
      BY <1>3, <2>5, FreshSees
  <2>8. r \in Fitting /\ r.n <= Len(people) /\ r.pc \notin {"edit", "shiftLinks", "copy"}
      BY <1>2, <1>3, <2>5, <2>6 DEF Fitting, Sees
  <2>9. r.refresh \cup r.writes \cup {u} = q.refresh \cup q.writes
      BY <1>2, <2>1, <2>5
  <2>10. \A v \in r.writes : v \in q.writes /\ r.counted[v] = q.counted[v]
      BY <1>4, <2>1, <2>2, <2>5
  <2> QED
      BY <1>7, <2>4, <2>5, <2>7, <2>8, <2>9, <2>10
<1> QED
    BY <1>8, <1>9, <1>10

-----------------------------------------------------------------------------
(* Documents that end or are edited in place, and the rebuild.             *)

(* Around a request that moves nobody everything is in order.              *)
LEMMA Rested ==
    ASSUME NEW q, NEW r, Fits(q), Orderly(q), q.op \in Ops, q.op \notin Moving \cup {"assign"},
           r.pc \notin {"edit", "shiftLinks"}, r.writes = {}
    PROVE  Orderly(r)
<1>1. q.pc # "shiftLinks" /\ q.writes = {} /\ q.refresh = {}
    BY DEF Fits, InStep, FreeSteps, Moving, Joining, Counting, Ops
<1>2. AtHome(r)
    BY <1>1 DEF Orderly, AtHome
<1>3. Counted(r)
    BY <1>1 DEF Orderly, Counted
<1>4. OnList(r)
    BY DEF Orderly, OnList
<1> QED
    BY <1>2, <1>3, <1>4 DEF Orderly

LEMMA DropKeeps == ASSUME IInv, NEW i \in Handlers, Drop(i) PROVE IInv'
<1>1. PICK q : q = h[i]
    OBVIOUS
<1>2. q.pc = "drop" /\ q.pc # "idle"
      /\ UNCHANGED <<links, account, listed, counts, parking, started, died, clean>>
    BY <1>1 DEF Drop, At
<1>3. /\ q \in Local /\ Fits(q) /\ q.op = "other" /\ q.n <= Len(people) /\ Len(people) \in Nat
      /\ q.n \in Nat /\ q.op \in Ops /\ (clean => q.alone /\ Orderly(q))
    BY <1>1, <1>2, Busy DEF InStep, Ops, JoinSteps, FreeSteps
<1>4. q.n \in DOMAIN people
  <2>1. q.n # 0
      BY <1>2, <1>3 DEF Fits
  <2> QED
      BY <1>3, <2>1 DEF IInv, Filed
<1>5. PICK d : d = [people[q.n] EXCEPT !.living = FALSE]
    OBVIOUS
<1>6. d \in Person /\ d.unit = people[q.n].unit /\ d.parent = people[q.n].parent
  <2>1. people[q.n] \in Person
      BY <1>4 DEF IInv, Filed
  <2> QED
      BY <1>5, <2>1 DEF Person
<1>7. people' = [people EXCEPT ![q.n] = d] /\ h' = [h EXCEPT ![i] = Idle]
    BY <1>1, <1>4, <1>5 DEF Drop, Finish, IInv, Filed
<1>8. /\ people' \in Seq(Person) /\ Len(people') = Len(people) /\ people'[q.n] = d
      /\ \A k \in DOMAIN people : k # q.n => people'[k] = people[k]
    BY <1>4, <1>6, <1>7, Replaced DEF IInv
<1>9. \A k \in DOMAIN people : /\ people'[k].parent = people[k].parent
                               /\ people'[k].unit = people[k].unit
    BY <1>6, <1>8
<1>10. Filed' /\ Len(people') \in Nat /\ Len(people) <= Len(people') /\ 0 <= Len(people')
    BY <1>2, <1>3, <1>8, PeopleFiled DEF IInv
<1>11. PICK r : r = Idle
    OBVIOUS
<1>12. r.pc = "idle" /\ r.writes = {} /\ r.refresh = {} /\ r.n = 0 /\ r \in Fitting
    BY <1>11, IdleFits DEF Idle
<1>13. ASSUME clean PROVE Orderly(r)'
  <2>1. Orderly(r)
      BY <1>3, <1>12, <1>13, Rested DEF Moving, Joining
  <2>2. AtHome(r)'
      BY <1>2, <1>8, <1>9, <1>10, <1>12, <2>1, HomesKept DEF IInv, Orderly
  <2>3. Counted(r)'
      BY <1>2, <1>12, <2>1, CountsKept DEF Orderly
  <2>4. OnList(r)'
      BY <1>2, <2>1 DEF Orderly, OnList, parking
  <2> QED
      BY <2>2, <2>3, <2>4 DEF Orderly
<1>14. (h[i].alone => Fresh(r)') /\ died' \in 0..MaxAborts /\ h[i].pc # "idle"
       /\ h' = [h EXCEPT ![i] = r]
    BY <1>1, <1>2, <1>7, <1>11, IdleFresh DEF IInv
<1> QED
    BY <1>2, <1>10, <1>11, <1>12, <1>13, <1>14, Turned

LEMMA EditWriteKeeps == ASSUME IInv, NEW i \in Handlers, EditWrite(i) PROVE IInv'
<1>1. PICK q : q = h[i]
    OBVIOUS
<1>2. q.pc = "edit" /\ q.pc # "idle"
      /\ UNCHANGED <<links, account, listed, counts, parking, started, died, clean>>
    BY <1>1 DEF EditWrite, At
<1>3. /\ q \in Local /\ Fits(q) /\ q.op = "other" /\ q.n <= Len(people) /\ Len(people) \in Nat
      /\ q.n \in Nat /\ (clean => Orderly(q))
    BY <1>1, <1>2, Busy DEF InStep, Ops, JoinSteps, FreeSteps
<1>4. q.n \in DOMAIN people /\ q.u \in Units
  <2>1. q.n # 0
      BY <1>2, <1>3 DEF Fits
  <2> QED
      BY <1>3, <2>1 DEF IInv, Filed, Local
<1>5. PICK d : d = [people[q.n] EXCEPT !.unit = q.u]
    OBVIOUS
<1>6. d \in Person
  <2>1. people[q.n] \in Person
      BY <1>4 DEF IInv, Filed
  <2> QED
      BY <1>4, <1>5, <2>1 DEF Person
<1>7. people' = [people EXCEPT ![q.n] = d] /\ h' = [h EXCEPT ![i] = Idle]
    BY <1>1, <1>4, <1>5 DEF EditWrite, Finish, IInv, Filed
<1>8. people' \in Seq(Person) /\ Len(people') = Len(people)
    BY <1>4, <1>6, <1>7, Replaced DEF IInv
<1>9. Filed' /\ Len(people') \in Nat /\ Len(people) <= Len(people') /\ 0 <= Len(people')
    BY <1>2, <1>3, <1>8, PeopleFiled DEF IInv
<1>10. ~clean
    BY <1>2, <1>3 DEF Orderly, AtHome
<1>11. PICK r : r = Idle
    OBVIOUS
<1>12. /\ r \in Fitting /\ r.n = 0 /\ (h[i].alone => Fresh(r)') /\ died' \in 0..MaxAborts
       /\ h[i].pc # "idle" /\ h' = [h EXCEPT ![i] = r]
    BY <1>1, <1>2, <1>7, <1>11, IdleFits, IdleFresh DEF IInv
<1> QED
    BY <1>2, <1>9, <1>10, <1>11, <1>12, Turned

LEMMA RebuildRowKeeps ==
    ASSUME IInv, NEW i \in Handlers, NEW p \in Persons, RebuildRow(i, p) PROVE IInv'
<1>1. PICK q : q = h[i]
    OBVIOUS
<1>2. q.pc = "rebuild" /\ q.pc # "idle" /\ p \in q.rows
      /\ UNCHANGED <<people, links, account, counts, parking, started, died, clean>>
    BY <1>1 DEF RebuildRow, At
<1>3. /\ q \in Local /\ Fits(q) /\ q.op = "rebuild" /\ q.n <= Len(people) /\ Len(people) \in Nat
      /\ q.op \in Ops /\ (clean => Orderly(q))
    BY <1>1, <1>2, Busy DEF InStep, Ops, JoinSteps, FreeSteps
<1>4. /\ listed' \in [Persons -> Row] /\ account' \in [Persons -> AccountStatus]
      /\ parked' \in [Cars -> Slots \cup {"none"}]
  <2>1. q.seen[p] \in {"none", "ACTIVE", "INACTIVE"}
      BY <1>3 DEF Local, AccountStatus
  <2>2. [status |-> q.seen[p], units |-> {}] \in Row
      BY <2>1 DEF Row
  <2>3. listed' = [listed EXCEPT ![p] = [status |-> q.seen[p], units |-> {}]]
      BY <1>1 DEF RebuildRow
  <2> QED
      BY <1>2, <2>2, <2>3 DEF IInv, Filed, parking
<1>5. CASE q.rows = {p}
  <2>1. PICK r : r = Idle
      OBVIOUS
  <2>2. r.pc = "idle" /\ r.writes = {} /\ r.n = 0 /\ r \in Fitting
      BY <2>1, IdleFits DEF Idle
  <2>3. h' = [h EXCEPT ![i] = r]
      BY <1>1, <1>5, <2>1 DEF RebuildRow, Finish
  <2>4. clean => Orderly(r)
      BY <1>3, <2>2, Rested DEF Moving, Joining
  <2>5. h[i].alone => Fresh(r)'
      BY <2>1, IdleFresh
  <2>6. r.n <= Len(people)
      BY <1>3, <2>2
  <2> QED
      BY <1>1, <1>2, <1>4, <2>1, <2>2, <2>3, <2>4, <2>5, <2>6, Aside DEF parking
<1>6. CASE q.rows # {p}
  <2>1. PICK ps \in SUBSET Persons : ps = q.rows \ {p}
      BY <1>3 DEF Local
  <2>2. PICK r : r = [q EXCEPT !.rows = ps]
      OBVIOUS
  <2>3. h' = [h EXCEPT ![i] = r]
      BY <1>1, <1>6, <2>1, <2>2 DEF RebuildRow, IInv
  <2>4. /\ r \in Local /\ r.pc = "rebuild" /\ r.op = "rebuild" /\ r.alone = q.alone /\ r.n = q.n
        /\ r.writes = q.writes /\ r.refresh = q.refresh /\ r.copy = q.copy
    <3>1. r \in Local
        BY <1>3, <2>2 DEF Local
    <3> QED
        BY <1>2, <1>3, <2>2, <3>1 DEF Local
  <2>5. Fits(r) /\ r.writes = {}
      BY <1>2, <1>3, <2>4 DEF Fits, InStep, Moving, Joining, Counting
  <2>6. Fresh(r)'
      BY <2>4 DEF Fresh, FreshPerson, FreshLink, FreshRow, FreshMove, FreshSlot, Joining, Counting
  <2>7. clean => Orderly(r)
      BY <1>3, <2>4, <2>5, Rested DEF Moving, Joining
  <2>8. r \in Fitting /\ r.n <= Len(people)
      BY <1>3, <2>4, <2>5 DEF Fitting
  <2> QED
      BY <1>1, <1>2, <1>4, <2>3, <2>4, <2>6, <2>7, <2>8, Aside DEF parking
<1> QED
    BY <1>5, <1>6

-----------------------------------------------------------------------------
(* Moving out, or to another flat.                                         *)

LEMMA MovePeople ==
    ASSUME IInv, NEW i \in Handlers, NEW q, q = h[i], q.pc # "idle", q.op \in {"moveOut", "transfer"},
           NEW r \in Fitting, h' = [h EXCEPT ![i] = r], r.alone = q.alone, r.op = q.op, r.n = q.n,
           r.refresh = q.refresh, r.counted = q.counted, r.writes = q.writes,
           r.pc \in {"leaveFamily", "leaveLinks", "shiftLinks", "slots"},
           people' \in Seq(Person), Len(people) = Len(people'),
           UNCHANGED <<links, account, listed, counts, parking, started, died, clean>>,
           q.alone => FreshMove(r)',
           clean => AtHome(r)'
    PROVE  IInv'
<1>1. Filed' /\ Len(people') \in Nat
    BY PeopleFiled DEF IInv, Filed
<1>2. Fits(q) /\ q.op \in Ops /\ q.n <= Len(people) /\ (clean => q.alone /\ Orderly(q))
    BY Busy
<1>3. q.alone => Fresh(r)'
  <2>1. FreshPerson(r)' /\ FreshLink(r)' /\ FreshRow(r)'
      BY <1>2, NotOurs DEF Fitting, Fits, Joining
  <2>2. FreshSlot(r)'
      BY DEF FreshSlot
  <2> QED
      BY <2>1, <2>2 DEF Fresh
<1>4. ASSUME clean PROVE Orderly(r)'
  <2>1. Counted(r)'
      BY <1>2, <1>4, CountsKept DEF Orderly
  <2>2. OnList(r)'
      BY <1>2, <1>4, ListsKept DEF Orderly, parking
  <2> QED
      BY <1>4, <2>1, <2>2 DEF Orderly
<1>5. died' \in 0..MaxAborts /\ Len(people) <= Len(people') /\ r.n <= Len(people')
    BY <1>1, <1>2 DEF IInv
<1> QED
    BY <1>1, <1>3, <1>4, <1>5, Turned

LEMMA LeaveKeeps == ASSUME IInv, NEW i \in Handlers, Leave(i) PROVE IInv'
<1>1. PICK q : q = h[i]
    OBVIOUS
<1>2. q.pc = "leave" /\ q.pc # "idle"
      /\ UNCHANGED <<links, account, listed, counts, parking, started, died, clean>>
    BY <1>1 DEF Leave, At
<1>3. /\ q \in Local /\ Fits(q) /\ q.op = "moveOut" /\ q.n <= Len(people) /\ Len(people) \in Nat
      /\ q.n \in Nat /\ q.op \in Ops /\ (q.alone => Fresh(q)) /\ (clean => q.alone /\ Orderly(q))
    BY <1>1, <1>2, Busy DEF InStep, Ops, JoinSteps, FreeSteps
<1>4. q.n \in DOMAIN people
  <2>1. q.n # 0
      BY <1>2, <1>3 DEF Fits, Moving
  <2> QED
      BY <1>3, <2>1 DEF IInv, Filed
<1>5. PICK d : d = [people[q.n] EXCEPT !.living = FALSE]
    OBVIOUS
<1>6. d \in Person /\ d.unit = people[q.n].unit /\ d.parent = people[q.n].parent
  <2>1. people[q.n] \in Person
      BY <1>4 DEF IInv, Filed
  <2> QED
      BY <1>5, <2>1 DEF Person
<1>7. people' = [people EXCEPT ![q.n] = d]
    BY <1>1, <1>4, <1>5 DEF Leave, IInv, Filed
<1>8. /\ people' \in Seq(Person) /\ Len(people') = Len(people) /\ people'[q.n] = d
      /\ \A k \in DOMAIN people : k # q.n => people'[k] = people[k]
    BY <1>4, <1>6, <1>7, Replaced DEF IInv
<1>9. \A k \in DOMAIN people : /\ people'[k].parent = people[k].parent
                               /\ people'[k].unit = people[k].unit
    BY <1>6, <1>8
<1>10. PICK r : r = [q EXCEPT !.pc = "leaveFamily"]
    OBVIOUS
<1>11. r \in Local /\ r.pc = "leaveFamily" /\ r.alone = q.alone /\ Alike(r, q)
  <2>1. "leaveFamily" \in Steps
      BY DEF Steps
  <2> QED
      BY <1>3, <1>10, <2>1, GoneAlike
<1>12. h' = [h EXCEPT ![i] = r]
    BY <1>1, <1>10 DEF Leave, Goto, IInv
<1>13. Fits(r)
    BY <1>2, <1>3, <1>11 DEF Fits, InStep, Joining, Moving, Counting, Alike
<1>14. q.alone => FreshMove(r)'
    BY <1>2, <1>3, <1>4, <1>9, <1>11 DEF Fresh, FreshMove, Alike
<1>15. clean => AtHome(r)'
  <2>1. Len(people) <= Len(people') /\ Len(people') \in Nat
      BY <1>3, <1>8
  <2> QED
      BY <1>2, <1>3, <1>8, <1>9, <1>11, <2>1, HomesKept DEF Orderly, IInv
<1>16. /\ r \in Fitting /\ r.op = q.op /\ r.n = q.n /\ r.refresh = q.refresh
       /\ r.counted = q.counted /\ r.writes = q.writes
    BY <1>11, <1>13 DEF Alike, Fitting
<1> QED
    BY <1>1, <1>2, <1>3, <1>8, <1>11, <1>12, <1>14, <1>15, <1>16, MovePeople

LEMMA LeaveFamilyKeeps == ASSUME IInv, NEW i \in Handlers, LeaveFamily(i) PROVE IInv'
<1>1. PICK q : q = h[i]
    OBVIOUS
<1>2. q.pc = "leaveFamily" /\ q.pc # "idle"
      /\ UNCHANGED <<links, account, listed, counts, parking, started, died, clean>>
    BY <1>1 DEF LeaveFamily, At
<1>3. /\ q \in Local /\ Fits(q) /\ q.op = "moveOut" /\ q.n <= Len(people) /\ Len(people) \in Nat
      /\ q.n \in Nat /\ q.op \in Ops /\ (q.alone => Fresh(q)) /\ (clean => q.alone /\ Orderly(q))
    BY <1>1, <1>2, Busy DEF InStep, Ops, JoinSteps, FreeSteps
<1>4. q.n \in DOMAIN people
  <2>1. q.n # 0
      BY <1>2, <1>3 DEF Fits, Moving
  <2> QED
      BY <1>3, <2>1 DEF IInv, Filed
<1>5. people' = [k \in DOMAIN people |-> IF k \in Household(q.n)
                   THEN [people[k] EXCEPT !.living = FALSE] ELSE people[k]]
    BY <1>1 DEF LeaveFamily
<1>6. ASSUME NEW k \in DOMAIN people
      PROVE  /\ people'[k] \in Person /\ people'[k].parent = people[k].parent
             /\ people'[k].unit = people[k].unit
  <2>1. people[k] \in Person
      BY DEF IInv, Filed
  <2>2. PICK d : d = [people[k] EXCEPT !.living = FALSE]
      OBVIOUS
  <2>3. d \in Person /\ d.unit = people[k].unit /\ d.parent = people[k].parent
      BY <2>1, <2>2 DEF Person
  <2>4. people'[k] = d \/ people'[k] = people[k]
      BY <1>5, <2>2
  <2> QED
      BY <2>1, <2>3, <2>4
<1>7. people' \in Seq(Person) /\ Len(people') = Len(people)
  <2>1. DOMAIN people' = DOMAIN people
      BY <1>5
  <2>2. people' = [k \in DOMAIN people |-> people'[k]]
      BY <1>5
  <2> QED
      BY <1>6, <2>1, <2>2, Rewritten DEF IInv
<1>10. PICK r : r = [q EXCEPT !.pc = "leaveLinks"]
    OBVIOUS
<1>11. r \in Local /\ r.pc = "leaveLinks" /\ r.alone = q.alone /\ Alike(r, q)
  <2>1. "leaveLinks" \in Steps
      BY DEF Steps
  <2> QED
      BY <1>3, <1>10, <2>1, GoneAlike
<1>12. h' = [h EXCEPT ![i] = r]
    BY <1>1, <1>10 DEF LeaveFamily, Goto, IInv
<1>13. Fits(r)
    BY <1>2, <1>3, <1>11 DEF Fits, InStep, Joining, Moving, Counting, Alike
<1>14. q.alone => FreshMove(r)'
    BY <1>2, <1>3, <1>4, <1>6, <1>11 DEF Fresh, FreshMove, Alike
<1>15. clean => AtHome(r)'
  <2>1. Len(people) <= Len(people') /\ Len(people') \in Nat
      BY <1>3, <1>7
  <2> QED
      BY <1>2, <1>3, <1>6, <1>7, <1>11, <2>1, HomesKept DEF Orderly, IInv
<1>16. /\ r \in Fitting /\ r.op = q.op /\ r.n = q.n /\ r.refresh = q.refresh
       /\ r.counted = q.counted /\ r.writes = q.writes
    BY <1>11, <1>13 DEF Alike, Fitting
<1> QED
    BY <1>1, <1>2, <1>3, <1>7, <1>11, <1>12, <1>14, <1>15, <1>16, MovePeople

LEMMA ShiftKeeps == ASSUME IInv, NEW i \in Handlers, Shift(i) PROVE IInv'
<1>1. PICK q : q = h[i]
    OBVIOUS
<1>2. q.pc = "shift" /\ q.pc # "idle"
      /\ UNCHANGED <<links, account, listed, counts, parking, started, died, clean>>
    BY <1>1 DEF Shift, At
<1>3. /\ q \in Local /\ Fits(q) /\ q.op = "transfer" /\ q.n <= Len(people) /\ Len(people) \in Nat
      /\ q.n \in Nat /\ q.op \in Ops /\ (q.alone => Fresh(q)) /\ (clean => q.alone /\ Orderly(q))
    BY <1>1, <1>2, Busy DEF InStep, Ops, JoinSteps, FreeSteps
<1>4. q.n \in DOMAIN people /\ q.to \in Units
  <2>1. q.n # 0 /\ q.to \in Units
      BY <1>2, <1>3 DEF Fits, Moving, Local
  <2> QED
      BY <1>3, <2>1 DEF IInv, Filed
<1>5. PICK d : d = [people[q.n] EXCEPT !.unit = q.to]
    OBVIOUS
<1>6. d \in Person /\ d.unit = q.to /\ d.parent = people[q.n].parent
  <2>1. people[q.n] \in Person
      BY <1>4 DEF IInv, Filed
  <2> QED
      BY <1>4, <1>5, <2>1 DEF Person
<1>7. people' = [people EXCEPT ![q.n] = d]
    BY <1>1, <1>4, <1>5 DEF Shift, IInv, Filed
<1>8. /\ people' \in Seq(Person) /\ Len(people') = Len(people) /\ people'[q.n] = d
      /\ \A k \in DOMAIN people : k # q.n => people'[k] = people[k]
    BY <1>4, <1>6, <1>7, Replaced DEF IInv
<1>10. PICK r : r = [q EXCEPT !.pc = "shiftLinks"]
    OBVIOUS
<1>11. r \in Local /\ r.pc = "shiftLinks" /\ r.alone = q.alone /\ Alike(r, q)
  <2>1. "shiftLinks" \in Steps
      BY DEF Steps
  <2> QED
      BY <1>3, <1>10, <2>1, GoneAlike
<1>12. h' = [h EXCEPT ![i] = r]
    BY <1>1, <1>10 DEF Shift, Goto, IInv
<1>13. Fits(r)
    BY <1>2, <1>3, <1>11 DEF Fits, InStep, Joining, Moving, Counting, Alike
<1>14. q.alone => FreshMove(r)'
    BY <1>2, <1>3, <1>4, <1>6, <1>8, <1>11 DEF Fresh, FreshMove, Alike
<1>15. ASSUME clean PROVE AtHome(r)'
  <2>1. people[q.n].parent = 0 /\ people[q.n].unit = q.u
      BY <1>2, <1>3, <1>15 DEF Fresh, FreshMove
  <2>2. ASSUME NEW m \in DOMAIN links, people'[links[m].who].parent = 0
        PROVE links[m].unit = IF links[m].who = q.n THEN q.u ELSE people'[links[m].who].unit
    <3>1. links[m].who \in DOMAIN people
        BY DEF IInv, Filed
    <3>2. people[links[m].who].parent = 0
        BY <1>6, <1>8, <2>2, <3>1
    <3>3. links[m].unit = people[links[m].who].unit
        BY <1>2, <1>3, <1>15, <3>2 DEF Orderly, AtHome
    <3> QED
        BY <1>8, <2>1, <3>1, <3>3
  <2> QED
      BY <1>2, <1>11, <2>2 DEF AtHome, Alike
<1>16. /\ r \in Fitting /\ r.op = q.op /\ r.n = q.n /\ r.refresh = q.refresh
       /\ r.counted = q.counted /\ r.writes = q.writes
    BY <1>11, <1>13 DEF Alike, Fitting
<1> QED
    BY <1>1, <1>2, <1>3, <1>8, <1>11, <1>12, <1>14, <1>15, <1>16, MovePeople

LEMMA ShiftFamilyKeeps == ASSUME IInv, NEW i \in Handlers, ShiftFamily(i) PROVE IInv'
<1>1. PICK q : q = h[i]
    OBVIOUS
<1>2. q.pc = "shiftFamily" /\ q.pc # "idle"
      /\ UNCHANGED <<links, account, listed, counts, parking, started, died, clean>>
    BY <1>1 DEF ShiftFamily, At
<1>3. /\ q \in Local /\ Fits(q) /\ q.op = "transfer" /\ q.n <= Len(people) /\ Len(people) \in Nat
      /\ q.n \in Nat /\ q.op \in Ops /\ (q.alone => Fresh(q)) /\ (clean => q.alone /\ Orderly(q))
    BY <1>1, <1>2, Busy DEF InStep, Ops, JoinSteps, FreeSteps
<1>4. q.n # 0 /\ q.to \in Units
    BY <1>2, <1>3 DEF Fits, Moving, Local
<1>5. people' = [k \in DOMAIN people |-> IF k \in Household(q.n)
                   THEN [people[k] EXCEPT !.unit = q.to] ELSE people[k]]
    BY <1>1 DEF ShiftFamily
<1>6. ASSUME NEW k \in DOMAIN people
      PROVE  /\ people'[k] \in Person /\ people'[k].parent = people[k].parent
             /\ people[k].parent = 0 => people'[k].unit = people[k].unit
  <2>1. people[k] \in Person
      BY DEF IInv, Filed
  <2>2. PICK d : d = [people[k] EXCEPT !.unit = q.to]
      OBVIOUS
  <2>3. d \in Person /\ d.parent = people[k].parent
      BY <1>4, <2>1, <2>2 DEF Person
  <2>4. \/ people'[k] = d /\ people[k].parent = q.n
        \/ people'[k] = people[k]
      BY <1>5, <2>2 DEF Household
  <2> QED
      BY <1>4, <2>1, <2>3, <2>4
<1>7. people' \in Seq(Person) /\ Len(people') = Len(people)
  <2>1. DOMAIN people' = DOMAIN people
      BY <1>5
  <2>2. people' = [k \in DOMAIN people |-> people'[k]]
      BY <1>5
  <2> QED
      BY <1>6, <2>1, <2>2, Rewritten DEF IInv
<1>10. PICK r : r = [q EXCEPT !.pc = "slots"]
    OBVIOUS
<1>11. r \in Local /\ r.pc = "slots" /\ r.alone = q.alone /\ Alike(r, q)
  <2>1. "slots" \in Steps
      BY DEF Steps
  <2> QED
      BY <1>3, <1>10, <2>1, GoneAlike
<1>12. h' = [h EXCEPT ![i] = r]
    BY <1>1, <1>10 DEF ShiftFamily, Goto, IInv
<1>13. Fits(r)
    BY <1>2, <1>3, <1>11 DEF Fits, InStep, Joining, Moving, Counting, Alike
<1>14. FreshMove(r)'
    BY <1>3, <1>11 DEF FreshMove, Alike
<1>15. clean => AtHome(r)'
  <2>1. Len(people) <= Len(people') /\ Len(people') \in Nat
      BY <1>3, <1>7
  <2> QED
      BY <1>2, <1>3, <1>6, <1>7, <1>11, <2>1, HomesKept DEF Orderly, IInv
<1>16. /\ r \in Fitting /\ r.op = q.op /\ r.n = q.n /\ r.refresh = q.refresh
       /\ r.counted = q.counted /\ r.writes = q.writes
    BY <1>11, <1>13 DEF Alike, Fitting
<1> QED
    BY <1>1, <1>2, <1>3, <1>7, <1>11, <1>12, <1>14, <1>15, <1>16, MovePeople

LEMMA LinksRewritten ==
    ASSUME Filed, DOMAIN links' = DOMAIN links, links' = [m \in DOMAIN links |-> links'[m]],
           \A m \in DOMAIN links : links'[m] \in Link
    PROVE  links' \in Seq(Link)
<1>1. links' \in [1..Len(links) -> Link] /\ Len(links) \in Nat
    BY DEF Filed
<1> QED
    BY <1>1

(* A step that changes the links of one resident, none outside the flats   *)
(* that are still to be counted, and leaves them in the resident's flat.   *)
MovesLinks(q) ==
    /\ links' \in Seq(Link) /\ DOMAIN links' = DOMAIN links
    /\ \A m \in DOMAIN links : /\ links'[m].who = links[m].who
                               /\ links[m].who # q.n => links'[m] = links[m]
    /\ \A m, k \in DOMAIN links :
          links'[m].who = links'[k].who /\ links'[m].unit = links'[k].unit => m = k
    /\ clean => \A m \in DOMAIN links : links[m].who = q.n =>
          /\ links[m].unit \in q.refresh /\ links'[m].unit \in q.refresh
          /\ people[q.n].parent = 0 => links'[m].unit = people[q.n].unit

(* The rest of such a step.                                                *)
LEMMA MoveLinks ==
    ASSUME IInv, NEW i \in Handlers, NEW q, q = h[i], q.pc # "idle", q.op \in {"moveOut", "transfer"},
           NEW r \in Fitting, h' = [h EXCEPT ![i] = r], r.alone = q.alone, r.op = q.op, r.n = q.n,
           r.refresh = q.refresh, r.writes = {}, q.writes = {},
           r.pc \in {"slots", "shiftFamily"},
           MovesLinks(q),
           UNCHANGED <<people, account, listed, counts, parking, started, died, clean>>,
           q.alone => FreshMove(r)'
    PROVE  IInv'
<1>1. Filed' /\ Len(people') = Len(people) /\ Len(people') \in Nat
    BY LinksFiled DEF IInv, Filed, MovesLinks
<1>2. Fits(q) /\ q.op \in Ops /\ q.n <= Len(people) /\ (clean => q.alone /\ Orderly(q))
    BY Busy
<1>3. q.alone => Fresh(r)'
  <2>1. FreshPerson(r)' /\ FreshLink(r)' /\ FreshRow(r)'
      BY <1>2, NotOurs DEF Fitting, Fits, Joining
  <2>2. FreshSlot(r)'
      BY DEF FreshSlot
  <2> QED
      BY <2>1, <2>2 DEF Fresh
<1>4. ASSUME clean PROVE Orderly(r)'
  <2>1. AtHome(q) /\ Counted(q) /\ OnList(q)
      BY <1>2, <1>4 DEF Orderly
  <2>2. AtHome(r)'
    <3>1. ASSUME NEW m \in DOMAIN links, people[links[m].who].parent = 0
          PROVE links'[m].unit = people[links[m].who].unit
      <4>1. CASE links[m].who = q.n
          BY <1>4, <3>1, <4>1 DEF MovesLinks
      <4>2. CASE links[m].who # q.n
          BY <2>1, <3>1, <4>2 DEF AtHome, MovesLinks
      <4> QED
          BY <4>1, <4>2
    <3> QED
        BY <3>1 DEF AtHome, MovesLinks
  <2>3. ASSUME NEW v \in Units \ q.refresh PROVE CountOf(v)' = CountOf(v)
    <3>1. \A m : (m \in DOMAIN links /\ links[m].unit = v)
                   <=> (m \in DOMAIN links' /\ links'[m].unit = v)
        BY <1>4, <2>3 DEF MovesLinks
    <3>2. \A m \in DOMAIN links : links[m].unit = v =>
              links'[m].active = links[m].active /\ links'[m].kind = links[m].kind
        BY <1>4, <2>3 DEF MovesLinks
    <3> QED
        BY <3>1, <3>2, CountApart
  <2>4. Counted(r)'
      BY <2>1, <2>3, CountedApart
  <2>5. OnList(r)'
      BY <2>1, ListsKept DEF parking
  <2> QED
      BY <2>2, <2>4, <2>5 DEF Orderly
<1>5. died' \in 0..MaxAborts /\ Len(people) <= Len(people') /\ r.n <= Len(people')
    BY <1>1, <1>2 DEF IInv
<1> QED
    BY <1>1, <1>3, <1>4, <1>5, Turned

LEMMA LeaveLinksKeeps == ASSUME IInv, NEW i \in Handlers, LeaveLinks(i) PROVE IInv'
<1>1. PICK q : q = h[i]
    OBVIOUS
<1>2. q.pc = "leaveLinks" /\ q.pc # "idle"
      /\ UNCHANGED <<people, account, listed, counts, parking, started, died, clean>>
    BY <1>1 DEF LeaveLinks, At
<1>3. /\ q \in Local /\ Fits(q) /\ q.op = "moveOut"
      /\ q.op \in Ops /\ (q.alone => Fresh(q)) /\ (clean => q.alone /\ Orderly(q))
    BY <1>1, <1>2, Busy DEF InStep, Ops, JoinSteps, FreeSteps
<1>4. q.u \in q.refresh /\ q.writes = {}
    BY <1>2, <1>3 DEF Fits, Moving, Counting
<1>5. links' = [m \in DOMAIN links |-> IF links[m].who = q.n
                  THEN [links[m] EXCEPT !.active = FALSE] ELSE links[m]]
    BY <1>1 DEF LeaveLinks
<1>6. ASSUME NEW m \in DOMAIN links
      PROVE  /\ links'[m] \in Link /\ links'[m].who = links[m].who
             /\ links'[m].unit = links[m].unit
             /\ links[m].who = q.n => ~links'[m].active
             /\ links[m].who # q.n => links'[m] = links[m]
  <2>1. links[m] \in Link
      BY DEF IInv, Filed
  <2>2. PICK l : l = [links[m] EXCEPT !.active = FALSE]
      OBVIOUS
  <2>3. l \in Link /\ l.unit = links[m].unit /\ l.who = links[m].who /\ ~l.active
      BY <2>1, <2>2 DEF Link
  <2>4. links'[m] = IF links[m].who = q.n THEN l ELSE links[m]
      BY <1>5, <2>2
  <2> QED
      BY <2>1, <2>3, <2>4
<1>7. links' \in Seq(Link) /\ DOMAIN links' = DOMAIN links
  <2>1. DOMAIN links' = DOMAIN links /\ links' = [m \in DOMAIN links |-> links'[m]]
      BY <1>5
  <2> QED
      BY <1>6, <2>1, LinksRewritten DEF IInv
<1>8. \A m, k \in DOMAIN links :
          links'[m].who = links'[k].who /\ links'[m].unit = links'[k].unit => m = k
    BY <1>6 DEF IInv, Filed
<1>9. PICK r : r = [q EXCEPT !.pc = "slots"]
    OBVIOUS
<1>10. r \in Local /\ r.pc = "slots" /\ r.alone = q.alone /\ Alike(r, q)
  <2>1. "slots" \in Steps
      BY DEF Steps
  <2> QED
      BY <1>3, <1>9, <2>1, GoneAlike
<1>11. h' = [h EXCEPT ![i] = r]
    BY <1>1, <1>9 DEF LeaveLinks, Goto, IInv
<1>12. Fits(r)
    BY <1>2, <1>3, <1>10 DEF Fits, InStep, Joining, Moving, Counting, Alike
<1>13. FreshMove(r)'
    BY <1>6, <1>7, <1>10 DEF FreshMove, Alike
<1>14. ASSUME clean, NEW m \in DOMAIN links, links[m].who = q.n
       PROVE  /\ links[m].unit \in q.refresh /\ links'[m].unit \in q.refresh
              /\ people[q.n].parent = 0 => links'[m].unit = people[q.n].unit
  <2>1. people[q.n].parent = 0 /\ people[q.n].unit = q.u
      BY <1>2, <1>3, <1>14 DEF Fresh, FreshMove
  <2>2. links[m].unit = q.u
      BY <1>2, <1>3, <1>14, <2>1 DEF Orderly, AtHome
  <2> QED
      BY <1>4, <1>6, <2>1, <2>2
<1>15. /\ r \in Fitting /\ r.op = q.op /\ r.n = q.n /\ r.refresh = q.refresh /\ r.writes = {}
    BY <1>4, <1>10, <1>12 DEF Alike, Fitting
<1>16. \A m \in DOMAIN links : /\ links'[m].who = links[m].who
                               /\ links[m].who # q.n => links'[m] = links[m]
    BY <1>6
<1> QED
  <2>1. q.op \in {"moveOut", "transfer"} /\ r.pc \in {"slots", "shiftFamily"} /\ r \in Fitting
      BY <1>3, <1>10, <1>15
  <2>2. MovesLinks(q)
      BY <1>7, <1>8, <1>14, <1>16 DEF MovesLinks
  <2>3. r.alone = q.alone /\ (q.alone => FreshMove(r)')
      BY <1>10, <1>13
  <2> QED
      BY <1>1, <1>2, <1>4, <1>11, <1>15, <2>1, <2>2, <2>3, MoveLinks

(* A set that has not more than one member.                                *)
LEMMA AtMostOne ==
    ASSUME NEW S, IsFiniteSet(S)
    PROVE  Cardinality(S) > 1 <=> \E x, y \in S : x # y
<1>1. ASSUME NEW x \in S, NEW y \in S, x # y PROVE Cardinality(S) > 1
  <2>1. IsFiniteSet({y}) /\ Cardinality({y}) = 1
      BY FS_Singleton
  <2>2. IsFiniteSet({y} \cup {x}) /\ Cardinality({y} \cup {x}) = 2
      BY <1>1, <2>1, FS_AddElement
  <2>3. Cardinality({y} \cup {x}) <= Cardinality(S)
    <3>1. {y} \cup {x} \in SUBSET S
        OBVIOUS
    <3> QED
        BY <3>1, FS_Subset
  <2>4. Cardinality(S) \in Nat
      BY FS_CardinalityType
  <2> QED
      BY <2>2, <2>3, <2>4
<1>2. ASSUME ~ \E x, y \in S : x # y PROVE ~(Cardinality(S) > 1)
  <2>1. CASE S = {}
    <3>1. Cardinality(S) = 0
        BY <2>1, FS_EmptySet
    <3> QED
        BY <3>1
  <2>2. CASE S # {}
    <3>1. PICK x \in S : S = {x}
        BY <1>2, <2>2
    <3>2. Cardinality(S) = 1
        BY <3>1, FS_Singleton
    <3> QED
        BY <3>2
  <2> QED
      BY <2>1, <2>2
<1> QED
    BY <1>1, <1>2

LEMMA ShiftLinksKeeps == ASSUME IInv, NEW i \in Handlers, ShiftLinks(i) PROVE IInv'
<1>1. PICK q : q = h[i]
    OBVIOUS
<1>2. q.pc = "shiftLinks" /\ q.pc # "idle"
      /\ UNCHANGED <<people, account, listed, counts, parking, started, died, clean>>
    BY <1>1 DEF ShiftLinks, At
<1>3. /\ q \in Local /\ Fits(q) /\ q.op = "transfer" /\ q.n <= Len(people) /\ Len(people) \in Nat
      /\ q.op \in Ops /\ (q.alone => Fresh(q)) /\ (clean => q.alone /\ Orderly(q))
    BY <1>1, <1>2, Busy DEF InStep, Ops, JoinSteps, FreeSteps
<1>4. q.u \in q.refresh /\ q.to \in q.refresh /\ q.writes = {} /\ q.to \in Units
    BY <1>2, <1>3 DEF Fits, Moving, Counting, Local
<1>5. Cardinality(LinksOf(q.n)) > 1 <=> \E m, k \in LinksOf(q.n) : m # k
  <2>1. PICK n \in Nat : DOMAIN links = 1..n
      BY DEF IInv, Filed
  <2>2. IsFiniteSet(1..n)
      BY FS_Interval
  <2>3. IsFiniteSet(LinksOf(q.n))
      BY <2>1, <2>2, FS_Subset DEF LinksOf
  <2> QED
      BY <2>3, AtMostOne
<1>6. ASSUME clean
      PROVE  /\ people[q.n].parent = 0 /\ people[q.n].unit = q.to
             /\ \A m \in LinksOf(q.n) : links[m].unit = q.u
  <2>1. people[q.n].parent = 0 /\ people[q.n].unit = q.to
      BY <1>2, <1>3, <1>6 DEF Fresh, FreshMove
  <2> QED
      BY <1>2, <1>3, <1>6, <2>1 DEF Orderly, AtHome, LinksOf
<1>7. CASE Cardinality(LinksOf(q.n)) > 1
  <2>1. h' = [h EXCEPT ![i] = Idle] /\ UNCHANGED links
      BY <1>1, <1>7 DEF ShiftLinks, Finish
  <2>2. ~clean
      BY <1>5, <1>6, <1>7 DEF LinksOf, IInv, Filed
  <2>3. PICK z : z = Idle
      OBVIOUS
  <2>4. z \in Fitting /\ z.n <= Len(people) /\ (h[i].alone => Fresh(z))
      BY <1>3, <2>3, IdleFits, IdleFresh
  <2> QED
      BY <1>1, <1>2, <2>1, <2>2, <2>3, <2>4, Quietly DEF homes
<1>8. CASE ~(Cardinality(LinksOf(q.n)) > 1)
  <2>1. links' = [m \in DOMAIN links |-> IF links[m].who = q.n
                    THEN [links[m] EXCEPT !.unit = q.to] ELSE links[m]]
      BY <1>1, <1>8 DEF ShiftLinks
  <2>2. ASSUME NEW m \in DOMAIN links
        PROVE  /\ links'[m] \in Link /\ links'[m].who = links[m].who
               /\ links[m].who = q.n => links'[m].unit = q.to
               /\ links[m].who # q.n => links'[m] = links[m]
    <3>1. links[m] \in Link
        BY DEF IInv, Filed
    <3>2. PICK l : l = [links[m] EXCEPT !.unit = q.to]
        OBVIOUS
    <3>3. l \in Link /\ l.unit = q.to /\ l.who = links[m].who
        BY <1>4, <3>1, <3>2 DEF Link
    <3>4. links'[m] = IF links[m].who = q.n THEN l ELSE links[m]
        BY <2>1, <3>2
    <3> QED
        BY <3>1, <3>3, <3>4
  <2>3. links' \in Seq(Link) /\ DOMAIN links' = DOMAIN links
    <3>1. DOMAIN links' = DOMAIN links /\ links' = [m \in DOMAIN links |-> links'[m]]
        BY <2>1
    <3> QED
        BY <2>2, <3>1, LinksRewritten DEF IInv
  <2>4. ASSUME NEW m \in DOMAIN links, NEW k \in DOMAIN links,
               links'[m].who = links'[k].who, links'[m].unit = links'[k].unit
        PROVE  m = k
    <3>1. CASE links[m].who = q.n
      <4>1. m \in LinksOf(q.n) /\ k \in LinksOf(q.n)
          BY <2>2, <2>4, <3>1 DEF LinksOf
      <4> QED
          BY <1>5, <1>8, <4>1
    <3>2. CASE links[m].who # q.n
      <4>1. links'[m] = links[m] /\ links'[k] = links[k]
          BY <2>2, <2>4, <3>2
      <4> QED
          BY <2>4, <4>1 DEF IInv, Filed
    <3> QED
        BY <3>1, <3>2
  <2>5. PICK r : r = [q EXCEPT !.pc = "shiftFamily"]
      OBVIOUS
  <2>6. r \in Local /\ r.pc = "shiftFamily" /\ r.alone = q.alone /\ Alike(r, q)
    <3>1. "shiftFamily" \in Steps
        BY DEF Steps
    <3> QED
        BY <1>3, <2>5, <3>1, GoneAlike
  <2>7. h' = [h EXCEPT ![i] = r]
      BY <1>1, <1>8, <2>5 DEF ShiftLinks, Goto, IInv
  <2>8. Fits(r)
      BY <1>2, <1>3, <2>6 DEF Fits, InStep, Joining, Moving, Counting, Alike
  <2>9. FreshMove(r)'
      BY <1>3, <2>6 DEF FreshMove, Alike
  <2>10. ASSUME clean, NEW m \in DOMAIN links, links[m].who = q.n
         PROVE  /\ links[m].unit \in q.refresh /\ links'[m].unit \in q.refresh
                /\ people[q.n].parent = 0 => links'[m].unit = people[q.n].unit
      BY <1>4, <1>6, <2>2, <2>10 DEF LinksOf
  <2>11. /\ r \in Fitting /\ r.op = q.op /\ r.n = q.n /\ r.refresh = q.refresh /\ r.writes = {}
      BY <1>4, <2>6, <2>8 DEF Alike, Fitting
  <2>12. \A m \in DOMAIN links : /\ links'[m].who = links[m].who
                                 /\ links[m].who # q.n => links'[m] = links[m]
      BY <2>2
  <2> QED
    <3>1. q.op \in {"moveOut", "transfer"} /\ r.pc \in {"slots", "shiftFamily"} /\ r \in Fitting
        BY <1>3, <2>6, <2>11
    <3>2. MovesLinks(q)
        BY <2>3, <2>4, <2>10, <2>12 DEF MovesLinks
    <3>3. r.alone = q.alone /\ (q.alone => FreshMove(r)')
        BY <2>6, <2>9
    <3> QED
        BY <1>1, <1>2, <1>4, <2>7, <2>11, <3>1, <3>2, <3>3, MoveLinks
<1> QED
    BY <1>7, <1>8

LEMMA CountRemainingKeeps == ASSUME IInv, NEW i \in Handlers, CountRemaining(i) PROVE IInv'
<1>1. PICK q : q = h[i]
    OBVIOUS
<1>2. q.pc = "remaining" /\ q.pc # "idle" /\ UNCHANGED <<homes, parking, started, died, clean>>
    BY <1>1 DEF CountRemaining, At
<1>3. /\ q \in Local /\ Fits(q) /\ q.op = "moveOut" /\ q.op \in Ops /\ q.n <= Len(people)
      /\ (q.alone => Fresh(q)) /\ (clean => q.alone /\ Orderly(q))
    BY <1>1, <1>2, Busy DEF InStep, Ops, JoinSteps, FreeSteps
<1>4. PICK step : step = IF Active(q.p) = {} THEN "disable" ELSE "refresh"
    OBVIOUS
<1>5. PICK r : r = [q EXCEPT !.pc = step]
    OBVIOUS
<1>6. h' = [h EXCEPT ![i] = r]
    BY <1>1, <1>4, <1>5 DEF CountRemaining, Goto, Remaining, IInv
<1>7. r \in Local /\ r.pc = step /\ r.alone = q.alone /\ Alike(r, q)
  <2>1. step \in Steps
      BY <1>4 DEF Steps
  <2> QED
      BY <1>3, <1>5, <2>1, GoneAlike
<1>8. Fits(r)
    BY <1>2, <1>3, <1>4, <1>7 DEF Fits, InStep, Joining, Moving, Counting, Alike
<1>9. ASSUME q.alone PROVE Fresh(r)
  <2>1. FreshPerson(r) /\ FreshLink(r) /\ FreshRow(r)
      BY <1>3, <1>7, <1>8, NotOurs DEF Fits, Joining, Alike
  <2>2. FreshMove(q)
      BY <1>3, <1>9 DEF Fresh
  <2>3. \A m \in DOMAIN links : links[m].who = q.n => ~links[m].active
      BY <1>2, <1>3, <2>2 DEF FreshMove
  <2>4. FreshMove(r)
      BY <1>4, <1>7, <2>3 DEF FreshMove, Alike
  <2>5. FreshSlot(r)
      BY <1>4, <1>7 DEF FreshSlot
  <2> QED
      BY <2>1, <2>4, <2>5 DEF Fresh
<1>10. ASSUME clean PROVE Orderly(r)
    BY <1>2, <1>3, <1>4, <1>7, <1>10, OrderGoes DEF Alike
<1>11. r \in Fitting /\ r.n <= Len(people)
    BY <1>3, <1>7, <1>8 DEF Fitting, Alike
<1> QED
    BY <1>1, <1>2, <1>6, <1>7, <1>9, <1>10, <1>11, Quietly

LEMMA DisableKeeps == ASSUME IInv, NEW i \in Handlers, Disable(i) PROVE IInv'
<1>1. PICK q : q = h[i]
    OBVIOUS
<1>2. q.pc = "disable" /\ q.pc # "idle"
      /\ UNCHANGED <<people, links, listed, counts, parking, started, died, clean>>
    BY <1>1 DEF Disable, At
<1>3. /\ q \in Local /\ Fits(q) /\ q.op = "moveOut" /\ q.op \in Ops /\ q.n <= Len(people)
      /\ (q.alone => Fresh(q)) /\ (clean => q.alone /\ Orderly(q))
    BY <1>1, <1>2, Busy DEF InStep, Ops, JoinSteps, FreeSteps
<1>4. account' = [account EXCEPT ![q.p] = "INACTIVE"] /\ q.p \in Persons
    BY <1>1, <1>3 DEF Disable, Local
<1>5. PICK r : r = [q EXCEPT !.pc = "refresh"]
    OBVIOUS
<1>6. h' = [h EXCEPT ![i] = r]
    BY <1>1, <1>5 DEF Disable, Goto, IInv
<1>7. r \in Local /\ r.pc = "refresh" /\ r.alone = q.alone /\ Alike(r, q)
  <2>1. "refresh" \in Steps
      BY DEF Steps
  <2> QED
      BY <1>3, <1>5, <2>1, GoneAlike
<1>8. Fits(r)
    BY <1>2, <1>3, <1>7 DEF Fits, InStep, Joining, Moving, Counting, Alike
<1>9. ASSUME q.alone PROVE Fresh(r)'
  <2>1. FreshPerson(r)' /\ FreshLink(r)' /\ FreshRow(r)'
      BY <1>3, <1>7, <1>8, NotOurs DEF Fits, Joining, Alike
  <2>2. \A m \in DOMAIN links : links[m].who = q.n => ~links[m].active
      BY <1>2, <1>3, <1>9 DEF Fresh, FreshMove
  <2>3. account'[q.p] = "INACTIVE"
      BY <1>4 DEF IInv, Filed
  <2>4. FreshMove(r)'
      BY <1>2, <1>7, <2>2, <2>3 DEF FreshMove, Alike
  <2>5. FreshSlot(r)'
      BY <1>7 DEF FreshSlot
  <2> QED
      BY <2>1, <2>4, <2>5 DEF Fresh
<1>10. ASSUME clean PROVE Orderly(r)
    BY <1>2, <1>3, <1>7, <1>10, OrderGoes DEF Alike
<1>11. r \in Fitting /\ r.n <= Len(people)
    BY <1>3, <1>7, <1>8 DEF Fitting, Alike
<1>12. /\ account' \in [Persons -> AccountStatus] /\ listed' \in [Persons -> Row]
       /\ parked' \in [Cars -> Slots \cup {"none"}]
    BY <1>2, <1>4 DEF IInv, Filed, AccountStatus, parking
<1> QED
    BY <1>1, <1>2, <1>6, <1>7, <1>9, <1>10, <1>11, <1>12, Aside DEF parking

-----------------------------------------------------------------------------
(* Slots.                                                                  *)

SlotSteps == {"assign", "park"} \cup FreeSteps

(* A move that has ended the links stays good while it leaves the slots.   *)
LEMMA MoveOn ==
    ASSUME NEW q, NEW r, FreshMove(q), q.op \in {"moveOut", "transfer"},
           q.pc \in {"slots", "release"} \cup FreeSteps,
           r.op = q.op, r.n = q.n, r.linked = q.linked,
           r.pc \in {"release", "remaining", "refresh"} \cup FreeSteps,
           r.pc = "refresh" => ~(q.op = "moveOut" /\ q.linked)
    PROVE  FreshMove(r)
    BY DEF FreshMove, FreeSteps

LEMMA MoveStays ==
    ASSUME NEW r, FreshMove(r), UNCHANGED homes
    PROVE  FreshMove(r)'
    BY DEF FreshMove, Active, homes

(* Every slot is on the list of its flat, but for one that is being put    *)
(* there.                                                                  *)
Listing(busy, s, u) ==
    \A t \in Slots : \/ slots[t].unit = "none" \/ t \in allotted[slots[t].unit]
                     \/ busy /\ t = s /\ u = slots[t].unit

(* What the next step of a request over slots needs.                       *)
Ahead(q, step) ==
    /\ step \in {"park", "freeCar", "readList", "done"}
    /\ step = "park" => q.op = "assign"
    /\ step = "freeCar" => q.op # "assign"
    /\ step = "readList" => q.unit \in Units

Paused(q, r) ==
    /\ r \in Local /\ r.alone = q.alone /\ r.op = q.op /\ r.n = q.n /\ r.u = q.u /\ r.to = q.to
    /\ r.refresh = q.refresh /\ r.counted = q.counted /\ r.writes = q.writes /\ r.copy = q.copy
    /\ r.linked = q.linked /\ r.s = q.s /\ r.unit = q.unit

(* The rest of a step over a slot.                                         *)
LEMMA OnwardKeeps ==
    ASSUME IInv, NEW i \in Handlers, NEW q, q = h[i], q.pc \in SlotSteps,
           NEW step, Ahead(q, step), NEW local, Paused(q, local), Onward(i, step, local),
           UNCHANGED <<homes, started, died, clean>>, Filed',
           q.alone /\ q.op # "assign" => slots'[q.s].unit = "none",
           clean => Listing(step # "done" /\ q.op = "assign", q.s, q.unit)'
    PROVE  IInv'
<1>1. /\ q \in Local /\ Fits(q) /\ InStep(q) /\ q.op \in Ops /\ q.n \in Nat /\ q.n <= Len(people)
      /\ Len(people) \in Nat /\ (q.alone => Fresh(q)) /\ (clean => q.alone /\ Orderly(q))
  <2>1. q.pc # "idle"
      BY DEF SlotSteps, FreeSteps
  <2> QED
      BY <2>1, Busy
<1>2. /\ q.op \in {"moveOut", "transfer", "assign", "release"} /\ q.writes = {} /\ q.s \in Slots
      /\ q.op = "assign" => q.pc \in {"assign", "park", "readList", "writeList"}
      /\ q.op # "assign" => q.pc \in FreeSteps
      /\ q.copy = FALSE /\ q.pc \notin {"idle", "lookup", "person", "shiftLinks"} \cup Counting
      /\ q.op \in {"moveOut", "transfer"} =>
            q.n # 0 /\ q.u \in q.refresh /\ (q.op = "transfer" => q.to \in q.refresh)
      /\ q.op \notin {"moveOut", "transfer"} => q.refresh = {}
  <2>1. q.op \in {"moveOut", "transfer", "assign", "release"}
      BY <1>1 DEF InStep, SlotSteps, FreeSteps, JoinSteps, Ops
  <2>2. /\ q.op = "assign" => q.pc \in {"assign", "park", "readList", "writeList"}
        /\ q.op # "assign" => q.pc \in FreeSteps
      BY <1>1, <2>1 DEF InStep, SlotSteps, FreeSteps
  <2>3. q.pc \notin {"idle", "lookup", "person", "shiftLinks"} \cup Counting
      BY DEF SlotSteps, FreeSteps, Counting
  <2>4. q.writes = {} /\ q.s \in Slots
      BY <1>1, <2>3 DEF Fits, SlotSteps, FreeSteps
  <2>5. q.copy = FALSE
      BY <1>1, <2>1 DEF Fits, Local
  <2>6. q.op \in {"moveOut", "transfer"} =>
            q.n # 0 /\ q.u \in q.refresh /\ (q.op = "transfer" => q.to \in q.refresh)
      BY <1>1, <2>3 DEF Fits, Moving
  <2>7. q.op \notin {"moveOut", "transfer"} => q.refresh = {}
      BY <1>1, <2>1 DEF Fits, Moving, Joining
  <2> QED
      BY <2>1, <2>2, <2>3, <2>4, <2>5, <2>6, <2>7
<1>3. ASSUME NEW r \in Fitting, h' = [h EXCEPT ![i] = r], r = Idle \/ r.alone = q.alone,
             r.n <= Len(people), q.alone => Fresh(r)', clean => OnList(r)',
             r.pc \notin {"edit", "shiftLinks", "copy"},
             \/ r.refresh = q.refresh /\ r.counted = q.counted /\ r.writes = q.writes
             \/ r.writes = {} /\ q.refresh = {}
      PROVE  IInv'
  <2>1. ASSUME clean PROVE Orderly(r)'
    <3>1. AtHome(q) /\ Counted(q)
        BY <1>1, <2>1 DEF Orderly
    <3>2. AtHome(r)'
        BY <1>2, <1>3, <3>1 DEF AtHome, homes
    <3>3. Counted(r)'
        BY <1>2, <1>3, <3>1 DEF Counted, CountOf, homes
    <3> QED
        BY <1>3, <2>1, <3>2, <3>3 DEF Orderly
  <2>2. Len(people') = Len(people) /\ Len(people) <= Len(people') /\ Len(people') \in Nat
        /\ r.n <= Len(people')
      BY <1>1, <1>3 DEF homes
  <2>3. died' \in 0..MaxAborts /\ h[i].pc # "idle"
      BY <1>2 DEF IInv
  <2> QED
      BY <1>3, <2>1, <2>2, <2>3, Turned
<1>4. CASE step = "done" /\ q.op \notin {"moveOut", "transfer"}
  <2>1. PICK r : r = Idle
      OBVIOUS
  <2>2. r \in Fitting /\ r.pc = "idle" /\ r.n = 0 /\ r.writes = {} /\ r.op = "other"
      BY <2>1, IdleFits DEF Idle
  <2>3. h' = [h EXCEPT ![i] = r]
      BY <1>4, <2>1 DEF Onward, Finish
  <2>4. Fresh(r)'
      BY <2>1, IdleFresh
  <2>5. ASSUME clean PROVE OnList(r)'
      BY <1>4, <2>5 DEF OnList, Listing
  <2>6. r.n <= Len(people) /\ q.refresh = {}
      BY <1>1, <1>2, <1>4, <2>2
  <2> QED
      BY <1>3, <2>1, <2>2, <2>3, <2>4, <2>5, <2>6
<1>5. CASE step = "done" /\ q.op \in {"moveOut", "transfer"}
  <2>1. PICK next : next = IF h[i].todo # {} THEN "release" ELSE AfterSlots(i)
      OBVIOUS
  <2>2. PICK r : r = [local EXCEPT !.s = "none", !.car = "none", !.unit = "none", !.pc = next]
      OBVIOUS
  <2>3. h' = [h EXCEPT ![i] = r]
      BY <1>5, <2>1, <2>2 DEF Onward
  <2>4. /\ next \in {"release", "remaining", "refresh"}
        /\ next = "remaining" => q.op = "moveOut"
        /\ next = "refresh" => ~(q.op = "moveOut" /\ q.linked)
      BY <1>5, <2>1 DEF AfterSlots
  <2>5. r \in Local
    <3>1. next \in Steps
        BY <2>4 DEF Steps
    <3>2. local \in Local
        BY DEF Paused
    <3> QED
        BY <2>2, <3>1, <3>2 DEF Local
  <2>6. /\ r.pc = next /\ r.op = q.op /\ r.n = q.n /\ r.linked = q.linked /\ r.u = q.u /\ r.to = q.to
        /\ r.alone = q.alone /\ r.copy = q.copy
        /\ r.refresh = q.refresh /\ r.counted = q.counted /\ r.writes = q.writes
      BY <2>2 DEF Local, Paused
  <2>7. InStep(r) /\ Fits(r)
      BY <1>2, <1>5, <2>4, <2>6 DEF Fits, InStep, Moving, Joining, Counting
  <2>8. ASSUME q.alone PROVE Fresh(r)'
    <3>1. FreshPerson(r)' /\ FreshLink(r)' /\ FreshRow(r)'
        BY <1>1, <1>5, <2>6, <2>7, NotOurs DEF Joining
    <3>2. FreshMove(r)
        BY <1>1, <1>2, <1>5, <2>4, <2>6, <2>8, MoveOn DEF Fresh
    <3>3. FreshMove(r)'
        BY <3>2, MoveStays
    <3>4. FreshSlot(r)'
        BY <2>4, <2>6 DEF FreshSlot
    <3> QED
        BY <3>1, <3>3, <3>4 DEF Fresh
  <2>9. ASSUME clean PROVE OnList(r)'
      BY <1>5, <2>9 DEF OnList, Listing
  <2>10. r \in Fitting /\ r.n <= Len(people) /\ r.pc \notin {"edit", "shiftLinks", "copy"}
      BY <1>1, <2>4, <2>5, <2>6, <2>7 DEF Fitting
  <2> QED
      BY <1>3, <2>3, <2>6, <2>8, <2>9, <2>10
<1>6. CASE step # "done"
  <2>1. PICK r : r = [local EXCEPT !.pc = step]
      OBVIOUS
  <2>2. h' = [h EXCEPT ![i] = r]
      BY <1>6, <2>1 DEF Onward
  <2>3. step \in {"park", "freeCar", "readList"}
      BY <1>6 DEF Ahead
  <2>4. r \in Local
    <3>1. step \in Steps
        BY <2>3 DEF Steps
    <3>2. local \in Local
        BY DEF Paused
    <3> QED
        BY <2>1, <3>1, <3>2 DEF Local
  <2>5. /\ r.pc = step /\ r.op = q.op /\ r.n = q.n /\ r.linked = q.linked /\ r.u = q.u /\ r.to = q.to
        /\ r.alone = q.alone /\ r.copy = q.copy /\ r.s = q.s /\ r.unit = q.unit
        /\ r.refresh = q.refresh /\ r.counted = q.counted /\ r.writes = q.writes
      BY <2>1 DEF Local, Paused
  <2>6. InStep(r)
      BY <1>2, <2>3, <2>5 DEF InStep, FreeSteps, Ahead
  <2>7. Fits(r)
      BY <1>2, <2>3, <2>5, <2>6 DEF Fits, Moving, Joining, Counting, Ahead
  <2>8. ASSUME q.alone PROVE Fresh(r)'
    <3>1. FreshPerson(r)' /\ FreshLink(r)' /\ FreshRow(r)'
        BY <1>1, <1>2, <2>5, <2>6, NotOurs DEF Joining
    <3>2. FreshMove(r)'
      <4>1. CASE q.op \in {"moveOut", "transfer"}
        <5>1. FreshMove(q) /\ q.pc \in FreeSteps
            BY <1>1, <1>2, <2>8, <4>1 DEF Fresh
        <5>2. step # "park"
            BY <4>1 DEF Ahead
        <5>3. FreshMove(r)
            BY <2>3, <2>5, <4>1, <5>1, <5>2, MoveOn DEF FreeSteps
        <5> QED
            BY <5>3, MoveStays
      <4>2. CASE q.op \notin {"moveOut", "transfer"}
          BY <1>1, <1>2, <2>5, <2>6, <4>2, NotOurs DEF Moving, Joining
      <4> QED
          BY <4>1, <4>2
    <3>3. FreshSlot(r)'
        BY <2>3, <2>5, <2>8 DEF FreshSlot
    <3> QED
        BY <3>1, <3>2, <3>3 DEF Fresh
  <2>9. ASSUME clean PROVE OnList(r)'
      BY <1>6, <2>3, <2>5, <2>9 DEF OnList, Listing
  <2>10. r \in Fitting /\ r.n <= Len(people) /\ r.pc \notin {"edit", "shiftLinks", "copy"}
      BY <1>1, <2>3, <2>4, <2>5, <2>7 DEF Fitting
  <2> QED
      BY <1>3, <2>2, <2>5, <2>8, <2>9, <2>10
<1> QED
    BY <1>4, <1>5, <1>6 DEF Ahead

LEMMA SlotsFiled ==
    ASSUME Filed, UNCHANGED homes,
           slots' \in [Slots -> [taken : BOOLEAN, unit : Units \cup {"none"}, car : Cars \cup {"none"}]],
           allotted' \in [Units -> SUBSET Slots], parked' \in [Cars -> Slots \cup {"none"}]
    PROVE  Filed'
    BY DEF Filed, homes

LEMMA PausedSame == ASSUME NEW q \in Local PROVE Paused(q, q)
    BY DEF Paused

LEMMA AssignSlotKeeps == ASSUME IInv, NEW i \in Handlers, AssignSlot(i) PROVE IInv'
<1>1. PICK q : q = h[i]
    OBVIOUS
<1>2. q.pc = "assign" /\ q.pc # "idle" /\ q.pc \in SlotSteps
      /\ UNCHANGED <<homes, allotted, parked, started, died, clean>>
    BY <1>1 DEF AssignSlot, At, SlotSteps
<1>3. /\ q \in Local /\ Fits(q) /\ q.op = "assign"
      /\ (q.alone => Fresh(q)) /\ (clean => q.alone /\ Orderly(q))
    BY <1>1, <1>2, Busy DEF InStep, Ops, JoinSteps, FreeSteps
<1>4. PICK step : step = IF q.car = "none" THEN AfterCar(i) ELSE "park"
    OBVIOUS
<1>5. Onward(i, step, q)
    BY <1>1, <1>4 DEF AssignSlot
<1>6. Ahead(q, step) /\ (q.unit # "none" => step # "done")
    BY <1>1, <1>3, <1>4 DEF Ahead, AfterCar, Local
<1>7. PICK slot : slot = [taken |-> TRUE, car |-> q.car, unit |-> q.keep]
    OBVIOUS
<1>8. slots' = [slots EXCEPT ![q.s] = slot] /\ slot.unit = q.keep
    BY <1>1, <1>7 DEF AssignSlot
<1>9. q.s \in Slots
    BY <1>2, <1>3 DEF Fits
<1>10. slot \in [taken : BOOLEAN, unit : Units \cup {"none"}, car : Cars \cup {"none"}]
    BY <1>3, <1>7 DEF Local
<1>11. Filed'
  <2>1. slots' \in [Slots -> [taken : BOOLEAN, unit : Units \cup {"none"}, car : Cars \cup {"none"}]]
      BY <1>8, <1>10 DEF IInv, Filed
  <2> QED
      BY <1>2, <2>1, SlotsFiled DEF IInv, Filed
<1>12. slots'[q.s].unit = q.keep /\ \A t \in Slots \ {q.s} : slots'[t] = slots[t]
    BY <1>8, <1>9 DEF IInv, Filed
<1>13. ASSUME clean PROVE Listing(step # "done" /\ q.op = "assign", q.s, q.unit)'
  <2>1. OnList(q) /\ q.keep = IF q.unit = "none" THEN slots[q.s].unit ELSE q.unit
      BY <1>2, <1>3, <1>13 DEF Orderly, Fresh, FreshSlot
  <2>2. \A t \in Slots : slots[t].unit = "none" \/ t \in allotted[slots[t].unit]
      BY <1>2, <2>1 DEF OnList
  <2>3. CASE q.unit = "none"
      BY <1>2, <1>12, <2>1, <2>2, <2>3 DEF Listing
  <2>4. CASE q.unit # "none"
      BY <1>2, <1>3, <1>6, <1>12, <2>1, <2>2, <2>4 DEF Listing
  <2> QED
      BY <2>3, <2>4
<1> QED
    BY <1>1, <1>2, <1>3, <1>5, <1>6, <1>11, <1>13, PausedSame, OnwardKeeps

LEMMA ParkKeeps == ASSUME IInv, NEW i \in Handlers, Park(i) PROVE IInv'
<1>1. PICK q : q = h[i]
    OBVIOUS
<1>2. q.pc = "park" /\ q.pc # "idle" /\ q.pc \in SlotSteps
      /\ UNCHANGED <<homes, slots, allotted, started, died, clean>>
    BY <1>1 DEF Park, At, SlotSteps
<1>3. q \in Local /\ Fits(q) /\ q.op = "assign" /\ (clean => q.alone /\ Orderly(q))
    BY <1>1, <1>2, Busy DEF InStep, Ops, JoinSteps, FreeSteps
<1>4. PICK step : step = AfterCar(i)
    OBVIOUS
<1>5. Onward(i, step, q)
    BY <1>1, <1>4 DEF Park
<1>6. Ahead(q, step) /\ (q.unit # "none" => step # "done")
    BY <1>1, <1>3, <1>4 DEF Ahead, AfterCar, Local
<1>7. Filed'
  <2>1. q.s \in Slots
      BY <1>2, <1>3 DEF Fits
  <2>2. parked' \in [Cars -> Slots \cup {"none"}]
      BY <1>1, <2>1 DEF Park, IInv, Filed
  <2> QED
      BY <1>2, <2>2, SlotsFiled DEF IInv, Filed
<1>8. ASSUME clean PROVE Listing(step # "done" /\ q.op = "assign", q.s, q.unit)'
    BY <1>2, <1>3, <1>6, <1>8 DEF Listing, Orderly, OnList
<1> QED
    BY <1>1, <1>2, <1>3, <1>5, <1>6, <1>7, <1>8, PausedSame, OnwardKeeps

LEMMA FreeKeeps == ASSUME IInv, NEW i \in Handlers, Free(i) PROVE IInv'
<1>1. PICK q : q = h[i]
    OBVIOUS
<1>2. q.pc = "free" /\ q.pc # "idle" /\ q.pc \in SlotSteps
      /\ UNCHANGED <<homes, allotted, parked, started, died, clean>>
    BY <1>1 DEF Free, At, SlotSteps, FreeSteps
<1>3. q \in Local /\ Fits(q) /\ q.op # "assign" /\ (clean => q.alone /\ Orderly(q))
    BY <1>1, <1>2, Busy DEF InStep, Ops, JoinSteps, FreeSteps
<1>4. PICK step : step = IF q.car = "none" THEN AfterCar(i) ELSE "freeCar"
    OBVIOUS
<1>5. Onward(i, step, q)
    BY <1>1, <1>4 DEF Free
<1>6. Ahead(q, step)
    BY <1>1, <1>3, <1>4 DEF Ahead, AfterCar, Local
<1>7. PICK slot : slot = Freed(i)
    OBVIOUS
<1>8. slots' = [slots EXCEPT ![q.s] = slot] /\ slot.unit = "none" /\ q.s \in Slots
    BY <1>1, <1>2, <1>3, <1>7 DEF Free, Freed, Fits
<1>9. Filed'
  <2>1. slot \in [taken : BOOLEAN, unit : Units \cup {"none"}, car : Cars \cup {"none"}]
      BY <1>7 DEF Freed
  <2>2. slots' \in [Slots -> [taken : BOOLEAN, unit : Units \cup {"none"}, car : Cars \cup {"none"}]]
      BY <1>8, <2>1 DEF IInv, Filed
  <2> QED
      BY <1>2, <2>2, SlotsFiled DEF IInv, Filed
<1>10. slots'[q.s].unit = "none" /\ \A t \in Slots \ {q.s} : slots'[t] = slots[t]
    BY <1>8 DEF IInv, Filed
<1>11. ASSUME clean PROVE Listing(step # "done" /\ q.op = "assign", q.s, q.unit)'
    BY <1>2, <1>3, <1>10, <1>11 DEF Listing, Orderly, OnList
<1> QED
    BY <1>1, <1>2, <1>3, <1>5, <1>6, <1>9, <1>10, <1>11, PausedSame, OnwardKeeps

LEMMA FreeCarKeeps == ASSUME IInv, NEW i \in Handlers, FreeCar(i) PROVE IInv'
<1>1. PICK q : q = h[i]
    OBVIOUS
<1>2. q.pc = "freeCar" /\ q.pc # "idle" /\ q.pc \in SlotSteps
      /\ UNCHANGED <<homes, slots, allotted, started, died, clean>>
    BY <1>1 DEF FreeCar, At, SlotSteps, FreeSteps
<1>3. /\ q \in Local /\ Fits(q) /\ q.op # "assign"
      /\ (q.alone => Fresh(q)) /\ (clean => q.alone /\ Orderly(q))
    BY <1>1, <1>2, Busy DEF InStep, Ops, JoinSteps, FreeSteps
<1>4. PICK step : step = AfterCar(i)
    OBVIOUS
<1>5. Onward(i, step, q)
    BY <1>1, <1>4 DEF FreeCar
<1>6. Ahead(q, step)
    BY <1>1, <1>3, <1>4 DEF Ahead, AfterCar, Local
<1>7. Filed'
  <2>1. parked' \in [Cars -> Slots \cup {"none"}]
      BY DEF FreeCar, IInv, Filed
  <2> QED
      BY <1>2, <2>1, SlotsFiled DEF IInv, Filed
<1>8. q.alone => slots'[q.s].unit = "none"
    BY <1>2, <1>3 DEF Fresh, FreshSlot
<1>9. ASSUME clean PROVE Listing(step # "done" /\ q.op = "assign", q.s, q.unit)'
    BY <1>2, <1>3, <1>9 DEF Listing, Orderly, OnList
<1> QED
    BY <1>1, <1>2, <1>3, <1>5, <1>6, <1>7, <1>8, <1>9, PausedSame, OnwardKeeps

LEMMA WriteListKeeps == ASSUME IInv, NEW i \in Handlers, WriteList(i) PROVE IInv'
<1>1. PICK q : q = h[i]
    OBVIOUS
<1>2. q.pc = "writeList" /\ q.pc # "idle" /\ q.pc \in SlotSteps
      /\ UNCHANGED <<homes, slots, parked, started, died, clean>>
    BY <1>1 DEF WriteList, At, SlotSteps, FreeSteps
<1>3. /\ q \in Local /\ Fits(q)
      /\ (q.alone => Fresh(q)) /\ (clean => q.alone /\ Orderly(q))
    BY <1>1, <1>2, Busy
<1>4. PICK local : local = [q EXCEPT !.list = {}]
    OBVIOUS
<1>5. Paused(q, local)
  <2>1. local \in Local
      BY <1>3, <1>4 DEF Local
  <2> QED
      BY <1>3, <1>4, <2>1 DEF Local, Paused
<1>6. Onward(i, "done", local) /\ Ahead(q, "done")
    BY <1>1, <1>4 DEF WriteList, Ahead
<1>7. PICK list : list = IF q.op = "assign" THEN q.list \cup {q.s} ELSE q.list \ {q.s}
    OBVIOUS
<1>8. allotted' = [allotted EXCEPT ![q.unit] = list]
    BY <1>1, <1>7 DEF WriteList
<1>9. q.s \in Slots /\ q.unit \in Units /\ list \in SUBSET Slots
    BY <1>2, <1>3, <1>7 DEF Fits, Local
<1>10. Filed'
  <2>1. allotted' \in [Units -> SUBSET Slots]
      BY <1>8, <1>9 DEF IInv, Filed
  <2> QED
      BY <1>2, <2>1, SlotsFiled DEF IInv, Filed
<1>11. q.alone /\ q.op # "assign" => slots'[q.s].unit = "none"
    BY <1>2, <1>3 DEF Fresh, FreshSlot
<1>12. allotted'[q.unit] = list /\ \A u \in Units \ {q.unit} : allotted'[u] = allotted[u]
    BY <1>8, <1>9 DEF IInv, Filed
<1>13. ASSUME clean PROVE Listing("done" # "done" /\ q.op = "assign", q.s, q.unit)'
  <2>1. q.list = allotted[q.unit] /\ OnList(q) /\ q.alone
      BY <1>2, <1>3, <1>13 DEF Orderly, Fresh, FreshSlot
  <2>2. ASSUME NEW t \in Slots, slots[t].unit # "none" PROVE t \in allotted'[slots[t].unit]
    <3>1. slots[t].unit \in Units
        BY <2>2 DEF IInv, Filed
    <3>2. CASE q.op = "assign"
        BY <1>7, <1>12, <2>1, <2>2, <3>1, <3>2 DEF OnList
    <3>3. CASE q.op # "assign"
      <4>1. t # q.s /\ t \in allotted[slots[t].unit]
          BY <1>2, <1>11, <2>1, <2>2, <3>3 DEF OnList
      <4> QED
          BY <1>7, <1>12, <2>1, <3>1, <3>3, <4>1
    <3> QED
        BY <3>2, <3>3
  <2> QED
      BY <1>2, <2>2 DEF Listing
<1> QED
    BY <1>1, <1>2, <1>5, <1>6, <1>10, <1>11, <1>13, OnwardKeeps
LEMMA ReadListKeeps == ASSUME IInv, NEW i \in Handlers, ReadList(i) PROVE IInv'
<1>1. PICK q : q = h[i]
    OBVIOUS
<1>2. q.pc = "readList" /\ q.pc # "idle" /\ UNCHANGED <<homes, parking, started, died, clean>>
    BY <1>1 DEF ReadList, At
<1>3. /\ q \in Local /\ Fits(q) /\ InStep(q) /\ q.op \in Ops /\ q.n <= Len(people)
      /\ (q.alone => Fresh(q)) /\ (clean => q.alone /\ Orderly(q))
    BY <1>1, <1>2, Busy
<1>4. PICK list : list = allotted[q.unit]
    OBVIOUS
<1>5. PICK r : r = [q EXCEPT !.pc = "writeList", !.list = list]
    OBVIOUS
<1>6. h' = [h EXCEPT ![i] = r]
    BY <1>1, <1>4, <1>5 DEF ReadList, IInv
<1>7. r \in Local
  <2>1. q.unit \in Units
      BY <1>2, <1>3 DEF Fits
  <2>2. list \in SUBSET Slots
      BY <1>4, <2>1 DEF IInv, Filed
  <2>3. "writeList" \in Steps
      BY DEF Steps
  <2> QED
      BY <1>3, <1>5, <2>2, <2>3 DEF Local
<1>8. /\ r.pc = "writeList" /\ r.list = list /\ r.alone = q.alone /\ r.op = q.op /\ r.n = q.n
      /\ r.u = q.u /\ r.to = q.to /\ r.copy = q.copy /\ r.s = q.s /\ r.unit = q.unit
      /\ r.linked = q.linked
      /\ r.refresh = q.refresh /\ r.counted = q.counted /\ r.writes = q.writes
    BY <1>3, <1>5, <1>7 DEF Local
<1>9. InStep(r)
    BY <1>2, <1>3, <1>8 DEF InStep, FreeSteps, JoinSteps
<1>10. Fits(r)
    BY <1>2, <1>3, <1>8, <1>9 DEF Fits, Counting
<1>11. q.op \notin Joining
    BY <1>2, <1>3 DEF InStep, Joining, JoinSteps
<1>12. ASSUME q.alone PROVE Fresh(r)
  <2>1. FreshPerson(r) /\ FreshLink(r) /\ FreshRow(r)
      BY <1>3, <1>8, <1>9, <1>11, NotOurs
  <2>2. FreshMove(r)
    <3>1. CASE q.op \in {"moveOut", "transfer"}
        BY <1>2, <1>3, <1>8, <1>12, <3>1, MoveOn DEF Fresh, FreeSteps
    <3>2. CASE q.op \notin {"moveOut", "transfer"}
        BY <1>3, <1>8, <1>9, <1>11, <3>2, NotOurs DEF Moving
    <3> QED
        BY <3>1, <3>2
  <2>3. FreshSlot(r)
      BY <1>2, <1>3, <1>4, <1>8, <1>12 DEF Fresh, FreshSlot
  <2> QED
      BY <2>1, <2>2, <2>3 DEF Fresh
<1>13. ASSUME clean PROVE Orderly(r)
    BY <1>2, <1>3, <1>8, <1>13, OrderGoes
<1>14. r \in Fitting /\ r.n <= Len(people)
    BY <1>3, <1>7, <1>8, <1>10 DEF Fitting
<1> QED
    BY <1>1, <1>2, <1>6, <1>8, <1>12, <1>13, <1>14, Quietly

(* A move between two of its slots.                                        *)
Underway(q, r) ==
    /\ r \in Local /\ r.alone = q.alone /\ r.op = q.op /\ r.n = q.n /\ r.u = q.u /\ r.to = q.to
    /\ r.refresh = q.refresh /\ r.counted = q.counted /\ r.writes = q.writes /\ r.copy = q.copy
    /\ r.linked = q.linked
    /\ r.pc \in {"release", "free", "remaining", "refresh"}
    /\ r.pc = "remaining" => q.op = "moveOut"
    /\ r.pc = "free" => r.s \in Slots
    /\ r.pc = "refresh" => ~(q.op = "moveOut" /\ q.linked)

LEMMA UnderwayKeeps ==
    ASSUME IInv, NEW i \in Handlers, NEW q, q = h[i], q.pc \in {"slots", "release"},
           NEW r, Underway(q, r), h' = [h EXCEPT ![i] = r],
           UNCHANGED <<homes, parking, started, died, clean>>
    PROVE  IInv'
<1>1. /\ q \in Local /\ Fits(q) /\ InStep(q) /\ q.op \in Ops /\ q.n <= Len(people)
      /\ (q.alone => Fresh(q)) /\ (clean => q.alone /\ Orderly(q))
    BY Busy
<1>2. q.op \in {"moveOut", "transfer"}
    BY <1>1 DEF InStep, Ops, JoinSteps, FreeSteps
<1>3. InStep(r)
    BY <1>2 DEF Underway, InStep, FreeSteps
<1>4. Fits(r)
  <2>1. q.writes = {} /\ q.u \in q.refresh /\ (q.op = "transfer" => q.to \in q.refresh) /\ q.n # 0
        /\ q.copy = FALSE
      BY <1>1, <1>2 DEF Fits, Moving, Counting, Local
  <2> QED
      BY <1>2, <1>3, <2>1 DEF Fits, Underway, Moving
<1>5. ASSUME q.alone PROVE Fresh(r)
  <2>1. FreshPerson(r) /\ FreshLink(r) /\ FreshRow(r)
      BY <1>1, <1>2, <1>3, NotOurs DEF Underway, Joining
  <2>2. FreshMove(r)
      BY <1>1, <1>2, <1>5, MoveOn DEF Fresh, Underway, FreeSteps
  <2>3. FreshSlot(r)
      BY DEF Underway, FreshSlot
  <2> QED
      BY <2>1, <2>2, <2>3 DEF Fresh
<1>6. ASSUME clean PROVE Orderly(r)
    BY <1>1, <1>2, <1>6, OrderGoes DEF Underway
<1>7. r \in Fitting /\ r.n <= Len(people) /\ r.alone = q.alone
    BY <1>1, <1>4 DEF Fitting, Underway
<1> QED
    BY <1>5, <1>6, <1>7, Quietly

LEMMA SlotsOfUnitKeeps == ASSUME IInv, NEW i \in Handlers, SlotsOfUnit(i) PROVE IInv'
<1>1. PICK q : q = h[i]
    OBVIOUS
<1>2. q.pc = "slots" /\ UNCHANGED <<homes, parking, started, died, clean>>
    BY <1>1 DEF SlotsOfUnit, At
<1>3. q \in Local /\ InStep(q) /\ q.op \in Ops
    BY <1>1, <1>2, Busy
<1>4. PICK mine \in SUBSET Slots : mine = {s \in Slots : slots[s].unit = q.u}
    OBVIOUS
<1>5. PICK step : step = IF mine = {} THEN AfterSlots(i) ELSE "release"
    OBVIOUS
<1>6. PICK r : r = [q EXCEPT !.todo = mine, !.pc = step]
    OBVIOUS
<1>7. h' = [h EXCEPT ![i] = r]
    BY <1>1, <1>4, <1>5, <1>6 DEF SlotsOfUnit, IInv
<1>8. /\ step \in {"release", "remaining", "refresh"}
      /\ step = "remaining" => q.op = "moveOut"
      /\ step = "refresh" => ~(q.op = "moveOut" /\ q.linked)
    BY <1>1, <1>5 DEF AfterSlots
<1>9. Underway(q, r)
  <2>1. step \in Steps
      BY <1>8 DEF Steps
  <2>2. r \in Local
      BY <1>3, <1>6, <2>1 DEF Local
  <2>3. /\ r.alone = q.alone /\ r.op = q.op /\ r.n = q.n /\ r.u = q.u /\ r.to = q.to
        /\ r.refresh = q.refresh /\ r.counted = q.counted /\ r.writes = q.writes /\ r.copy = q.copy
        /\ r.linked = q.linked /\ r.pc = step
      BY <1>3, <1>6 DEF Local
  <2> QED
      BY <1>8, <2>2, <2>3 DEF Underway
<1> QED
    BY <1>1, <1>2, <1>7, <1>9, UnderwayKeeps

LEMMA ReleaseNextKeeps ==
    ASSUME IInv, NEW i \in Handlers, NEW s \in Slots, ReleaseNext(i, s) PROVE IInv'
<1>1. PICK q : q = h[i]
    OBVIOUS
<1>2. q.pc = "release" /\ UNCHANGED <<homes, parking, started, died, clean>>
    BY <1>1 DEF ReleaseNext, At
<1>3. q \in Local
    BY <1>1, <1>2, Busy
<1>4. PICK rest \in SUBSET Slots : rest = q.todo \ {s}
    BY <1>3 DEF Local
<1>5. PICK car \in Cars \cup {"none"}, unit \in Units \cup {"none"} :
          car = slots[s].car /\ unit = slots[s].unit
    BY DEF IInv, Filed
<1>6. PICK r : r = [q EXCEPT !.pc = "free", !.todo = rest, !.s = s, !.car = car, !.unit = unit]
    OBVIOUS
<1>7. h' = [h EXCEPT ![i] = r]
    BY <1>1, <1>4, <1>5, <1>6 DEF ReleaseNext, IInv
<1>8. Underway(q, r)
  <2>1. "free" \in Steps
      BY DEF Steps
  <2>2. r \in Local
      BY <1>3, <1>6, <2>1 DEF Local
  <2>3. /\ r.alone = q.alone /\ r.op = q.op /\ r.n = q.n /\ r.u = q.u /\ r.to = q.to
        /\ r.refresh = q.refresh /\ r.counted = q.counted /\ r.writes = q.writes /\ r.copy = q.copy
        /\ r.linked = q.linked /\ r.pc = "free" /\ r.s = s
      BY <1>3, <1>6 DEF Local
  <2> QED
      BY <2>2, <2>3 DEF Underway
<1> QED
    BY <1>1, <1>2, <1>7, <1>8, UnderwayKeeps

-----------------------------------------------------------------------------
(* The invariant.                                                          *)

LEMMA AdvanceKeeps == ASSUME IInv, NEW i \in Handlers, Advance(i) PROVE IInv'
<1>1. CASE Lookup(i) \/ SavePerson(i) \/ SaveFamily(i) \/ FindAccount(i) \/ SaveAccount(i)
    BY <1>1, LookupKeeps, SavePersonKeeps, SaveFamilyKeeps, FindAccountKeeps, SaveAccountKeeps
<1>2. CASE FindLink(i) \/ SaveLink(i) \/ UnitsOfUser(i) \/ UpsertMembership(i) \/ Linked(i)
    BY <1>2, FindLinkKeeps, SaveLinkKeeps, UnitsOfUserKeeps, UpsertMembershipKeeps, LinkedKeeps
<1>3. CASE \E u \in Units : CountRead(i, u) \/ CountWrite(i, u)
    BY <1>3, CountReadKeeps, CountWriteKeeps
<1>4. CASE StoreCopy(i) \/ Drop(i) \/ EditWrite(i) \/ (\E p \in Persons : RebuildRow(i, p))
    BY <1>4, StoreCopyKeeps, DropKeeps, EditWriteKeeps, RebuildRowKeeps
<1>5. CASE Leave(i) \/ LeaveFamily(i) \/ LeaveLinks(i) \/ CountRemaining(i) \/ Disable(i)
    BY <1>5, LeaveKeeps, LeaveFamilyKeeps, LeaveLinksKeeps, CountRemainingKeeps, DisableKeeps
<1>6. CASE Shift(i) \/ ShiftLinks(i) \/ ShiftFamily(i)
    BY <1>6, ShiftKeeps, ShiftLinksKeeps, ShiftFamilyKeeps
<1>7. CASE AssignSlot(i) \/ Park(i) \/ SlotsOfUnit(i) \/ (\E s \in Slots : ReleaseNext(i, s))
    BY <1>7, AssignSlotKeeps, ParkKeeps, SlotsOfUnitKeeps, ReleaseNextKeeps
<1>8. CASE Free(i) \/ FreeCar(i) \/ ReadList(i) \/ WriteList(i)
    BY <1>8, FreeKeeps, FreeCarKeeps, ReadListKeeps, WriteListKeeps
<1> QED
    BY <1>1, <1>2, <1>3, <1>4, <1>5, <1>6, <1>7, <1>8 DEF Advance

LEMMA Stutter == ASSUME IInv, UNCHANGED vars PROVE IInv'
<1>1. UNCHANGED <<homes, parking>> /\ UNCHANGED <<h, started, died, clean>>
    BY DEF vars, homes, parking
<1>2. Filed' /\ Len(people') = Len(people)
    BY <1>1, FiledStays DEF IInv
<1>3. Solitary'
    BY <1>1 DEF IInv, Solitary, Undisturbed
<1>4. ASSUME NEW i \in Handlers, h'[i].alone PROVE Fresh(h[i])'
  <2>1. PICK r : r = h[i]
      OBVIOUS
  <2>2. Fresh(r)'
      BY <1>1, <1>4, <2>1, FreshStays DEF IInv, homes, parking
  <2> QED
      BY <1>1, <2>1, <2>2
<1>5. Tidy'
  <2> SUFFICES ASSUME clean' PROVE /\ Quiet' => Orderly(Idle)'
                                   /\ \A j \in Handlers : h'[j].pc # "idle" => Orderly(h[j])'
      BY DEF Tidy
  <2>1. Quiet' => Orderly(Idle)'
      BY <1>1, OrderStays DEF IInv, Tidy, Quiet
  <2>2. ASSUME NEW j \in Handlers, h'[j].pc # "idle" PROVE Orderly(h[j])'
    <3>1. PICK r : r = h[j]
        OBVIOUS
    <3>2. Orderly(r)'
        BY <1>1, <2>2, <3>1, OrderStays DEF IInv, Tidy
    <3> QED
        BY <1>1, <3>1, <3>2
  <2> QED
      BY <2>1, <2>2
<1> QED
    BY <1>1, <1>2, <1>3, <1>4, <1>5 DEF IInv

LEMMA InitHolds == Init => IInv
<1> SUFFICES ASSUME Init PROVE IInv
    OBVIOUS
<1>1. PICK d : d = [phone |-> First, unit |-> Home, kind |-> "OWNER", parent |-> 0,
                    living |-> TRUE, linked |-> TRUE]
    OBVIOUS
<1>2. PICK l : l = [unit |-> Home, who |-> 1, phone |-> First, kind |-> "OWNER", active |-> TRUE]
    OBVIOUS
<1>3. people = <<d>> /\ links = <<l>>
    BY <1>1, <1>2 DEF Init
<1>4. d \in Person /\ l \in Link
    BY <1>1, <1>2, ResidencyAssumption DEF Person, Link, Kinds
<1>5. /\ people \in Seq(Person) /\ Len(people) = 1 /\ people[1] = d /\ DOMAIN people = {1}
      /\ links \in Seq(Link) /\ links[1] = l /\ DOMAIN links = {1}
    BY <1>3, <1>4
<1>6. /\ account \in [Persons -> AccountStatus] /\ listed \in [Persons -> Row]
      /\ slots \in [Slots -> [taken : BOOLEAN, unit : Units \cup {"none"}, car : Cars \cup {"none"}]]
      /\ allotted \in [Units -> SUBSET Slots] /\ parked \in [Cars -> Slots \cup {"none"}]
    BY ResidencyAssumption DEF Init, AccountStatus, Row
<1>7. counts \in [Units -> Count]
    BY DEF Init, NoCount, Count, Kinds
<1>8. Filed
    BY <1>2, <1>5, <1>6, <1>7 DEF Filed
<1>9. h = [i \in Handlers |-> Idle] /\ Idle \in Fitting /\ Idle.pc = "idle" /\ Idle.n = 0
    BY IdleFits DEF Init
<1>10. \A u \in Units : counts[u] = CountOf(u)
  <2> SUFFICES ASSUME NEW u \in Units PROVE counts[u] = CountOf(u)
      OBVIOUS
  <2>1. ASSUME NEW k \in Kinds PROVE counts[u][k] = CountOf(u)[k]
    <3>1. PICK S : S = {m \in DOMAIN links : links[m].unit = u /\ links[m].active /\ links[m].kind = k}
        OBVIOUS
    <3>2. CountOf(u)[k] = Cardinality(S)
        BY <3>1 DEF CountOf
    <3>3. counts[u][k] = IF k = "OWNER" /\ u = Home THEN 1 ELSE 0
        BY DEF Init, NoCount, Kinds
    <3>4. CASE k = "OWNER" /\ u = Home
      <4>1. S = {1}
          BY <1>2, <1>5, <3>1, <3>4
      <4> QED
          BY <3>2, <3>3, <3>4, <4>1, FS_Singleton
    <3>5. CASE ~(k = "OWNER" /\ u = Home)
      <4>1. S = {}
          BY <1>2, <1>5, <3>1, <3>5
      <4> QED
          BY <3>2, <3>3, <3>5, <4>1, FS_EmptySet
    <3> QED
        BY <3>4, <3>5
  <2>2. counts[u] = [k \in Kinds |-> counts[u][k]]
      BY <1>7 DEF Count
  <2>3. CountOf(u) = [k \in Kinds |-> CountOf(u)[k]]
      BY DEF CountOf
  <2> QED
      BY <2>1, <2>2, <2>3
<1>11. Orderly(Idle)
  <2>1. AtHome(Idle)
      BY <1>1, <1>2, <1>5, <1>9 DEF AtHome
  <2>2. Counted(Idle)
      BY <1>10 DEF Counted, Idle
  <2>3. OnList(Idle)
      BY DEF OnList, Init
  <2> QED
      BY <2>1, <2>2, <2>3 DEF Orderly
<1>12. Solitary
    BY <1>9, IdleFits DEF Solitary
<1>13. Tidy
    BY <1>9, <1>11 DEF Tidy
<1>14. \A i \in Handlers : h[i].n <= Len(people) /\ Fresh(h[i])
    BY <1>5, <1>9, IdleFresh
<1>15. started \in 0..MaxRequests /\ died \in 0..MaxAborts /\ clean \in BOOLEAN
    BY ResidencyAssumption DEF Init
<1> QED
    BY <1>8, <1>9, <1>12, <1>13, <1>14, <1>15 DEF IInv

LEMMA NextKeeps == IInv /\ [Next]_vars => IInv'
<1>1. ASSUME IInv, Next PROVE IInv'
    BY <1>1, RequestOpens, AdvanceKeeps, AbortKeeps DEF Next
<1> QED
    BY <1>1, Stutter

(* In every behaviour, however many people, flats and slots there are.     *)
THEOREM Invariant == Spec => []IInv
    BY InitHolds, NextKeeps, PTL DEF Spec

-----------------------------------------------------------------------------
(* How a request ends.                                                     *)

LEMMA RequestBegins ==
    ASSUME NEW j \in Handlers, Request(j)
    PROVE  \E local : Begin(j, local)
<1>1. ASSUME NEW p \in Persons, NEW u \in Units, NEW k \in NewKinds, NEW b \in Copies,
             Register(j, p, u, k, b)
      PROVE  \E local : Begin(j, local)
    BY <1>1 DEF Register
<1>2. ASSUME NEW n \in DOMAIN people,
             \/ DropFamily(j, n) \/ (\E b \in BOOLEAN : MoveOut(j, n, b))
             \/ \E u \in Units : \/ Edit(j, n, u) \/ Transfer(j, n, u)
                                 \/ \E p \in Persons : AddFamily(j, n, u, p)
      PROVE  \E local : Begin(j, local)
    BY <1>2 DEF DropFamily, MoveOut, Edit, Transfer, AddFamily
<1>3. ASSUME NEW s \in Slots,
             \/ Release(j, s)
             \/ \E c \in Cars \cup {"none"}, u \in Units \cup {"none"} : Assign(j, s, c, u)
      PROVE  \E local : Begin(j, local)
    BY <1>3 DEF Release, Assign
<1>4. CASE Rebuild(j)
    BY <1>4 DEF Rebuild
<1> QED
    BY <1>1, <1>2, <1>3, <1>4 DEF Request

(* A step of one request is no step of another.                            *)
LEMMA OthersWait ==
    ASSUME IInv, NEW j \in Handlers, Advance(j), NEW i \in Handlers, i # j
    PROVE  h'[i] = h[i]
<1>0. h \in [Handlers -> Fitting]
    BY DEF IInv
<1>1. CASE Lookup(j) \/ SavePerson(j) \/ SaveFamily(j) \/ FindAccount(j) \/ SaveAccount(j)
    BY <1>0, <1>1 DEF Lookup, SavePerson, SaveFamily, FindAccount, SaveAccount, Goto, Finish
<1>2. CASE FindLink(j) \/ SaveLink(j) \/ UnitsOfUser(j) \/ UpsertMembership(j) \/ Linked(j)
    BY <1>0, <1>2 DEF FindLink, SaveLink, UnitsOfUser, UpsertMembership, Linked, Goto, Finish
<1>3. CASE \E u \in Units : CountRead(j, u) \/ CountWrite(j, u)
    BY <1>0, <1>3 DEF CountRead, CountWrite, Goto, Finish
<1>4. CASE StoreCopy(j) \/ Drop(j) \/ EditWrite(j) \/ (\E p \in Persons : RebuildRow(j, p))
    BY <1>0, <1>4 DEF StoreCopy, Drop, EditWrite, RebuildRow, Finish
<1>5. CASE Leave(j) \/ LeaveFamily(j) \/ LeaveLinks(j) \/ CountRemaining(j) \/ Disable(j)
    BY <1>0, <1>5 DEF Leave, LeaveFamily, LeaveLinks, CountRemaining, Disable, Goto
<1>6. CASE Shift(j) \/ ShiftLinks(j) \/ ShiftFamily(j)
    BY <1>0, <1>6 DEF Shift, ShiftLinks, ShiftFamily, Goto, Finish
<1>7. CASE AssignSlot(j) \/ Park(j) \/ SlotsOfUnit(j) \/ (\E s \in Slots : ReleaseNext(j, s))
    BY <1>0, <1>7 DEF AssignSlot, Park, SlotsOfUnit, ReleaseNext, Onward, Finish
<1>8. CASE Free(j) \/ FreeCar(j) \/ ReadList(j) \/ WriteList(j)
    BY <1>0, <1>8 DEF Free, FreeCar, ReadList, WriteList, Onward, Finish
<1> QED
    BY <1>1, <1>2, <1>3, <1>4, <1>5, <1>6, <1>7, <1>8 DEF Advance

(* The last step of a request that counts is its last count or its copy.   *)
LEMMA LastStep ==
    ASSUME IInv, NEW i \in Handlers, Advance(i), h[i].pc \in Counting
    PROVE  (\E u \in Units : CountRead(i, u) \/ CountWrite(i, u)) \/ StoreCopy(i)
<1>1. ~(Lookup(i) \/ SavePerson(i) \/ SaveFamily(i) \/ FindAccount(i) \/ SaveAccount(i))
    BY DEF Counting, At, Lookup, SavePerson, SaveFamily, FindAccount, SaveAccount
<1>2. ~(FindLink(i) \/ SaveLink(i) \/ UnitsOfUser(i) \/ UpsertMembership(i) \/ Linked(i))
    BY DEF Counting, At, FindLink, SaveLink, UnitsOfUser, UpsertMembership, Linked
<1>3. ~(Drop(i) \/ EditWrite(i) \/ (\E p \in Persons : RebuildRow(i, p)))
    BY DEF Counting, At, Drop, EditWrite, RebuildRow
<1>4. ~(Leave(i) \/ LeaveFamily(i) \/ LeaveLinks(i) \/ CountRemaining(i) \/ Disable(i))
    BY DEF Counting, At, Leave, LeaveFamily, LeaveLinks, CountRemaining, Disable
<1>5. ~(Shift(i) \/ ShiftLinks(i) \/ ShiftFamily(i))
    BY DEF Counting, At, Shift, ShiftLinks, ShiftFamily
<1>6. ~(AssignSlot(i) \/ Park(i) \/ SlotsOfUnit(i) \/ (\E s \in Slots : ReleaseNext(i, s)))
    BY DEF Counting, At, AssignSlot, Park, SlotsOfUnit, ReleaseNext
<1>7. ~(Free(i) \/ FreeCar(i) \/ ReadList(i) \/ WriteList(i))
    BY DEF Counting, At, Free, FreeCar, ReadList, WriteList
<1> QED
    BY <1>1, <1>2, <1>3, <1>4, <1>5, <1>6, <1>7 DEF Advance

LEMMA Completed ==
    ASSUME IInv, Next, NEW i \in Handlers, NEW op, Completes(i, op)
    PROVE  /\ UNCHANGED <<links, account, listed>>
           /\ \/ h[i].pc = "refresh" /\ UNCHANGED people
              \/ \E d : h[i].pc = "copy" /\ people' = Append(people, d)
<1>1. h[i].pc \in Counting /\ h'[i] = Idle /\ died' = died /\ h[i].pc # "idle"
    BY DEF Completes, Counting
<1>2. PICK j \in Handlers : Request(j) \/ Advance(j) \/ Abort(j)
    BY DEF Next
<1>3. ~Request(j)
  <2> SUFFICES ASSUME Request(j) PROVE FALSE
      OBVIOUS
  <2>1. PICK local : Begin(j, local)
      BY RequestBegins
  <2>2. i # j /\ h'[i] = [h[i] EXCEPT !.alone = FALSE]
      BY <1>1, <2>1 DEF Begin
  <2>3. h[i] \in Local
      BY DEF IInv, Fitting
  <2>4. h'[i].pc = h[i].pc
      BY <2>2, <2>3 DEF Local
  <2> QED
      BY <1>1, <2>4, IdleFits
<1>4. ~Abort(j)
    BY <1>1 DEF Abort, IInv
<1>5. Advance(j)
    BY <1>2, <1>3, <1>4
<1>6. i = j
    BY <1>1, <1>5, OthersWait, IdleFits
<1>7. (\E u \in Units : CountRead(i, u) \/ CountWrite(i, u)) \/ StoreCopy(i)
    BY <1>1, <1>5, <1>6, LastStep
<1>8. ASSUME NEW u \in Units PROVE ~CountRead(i, u)
  <2> SUFFICES ASSUME CountRead(i, u) PROVE FALSE
      OBVIOUS
  <2>1. h'[i].pc = h[i].pc
      BY DEF CountRead, IInv, Fitting, Local
  <2> QED
      BY <1>1, <2>1, IdleFits
<1>9. CASE \E u \in Units : CountWrite(i, u)
    BY <1>9 DEF CountWrite, At
<1>10. CASE StoreCopy(i)
    BY <1>10 DEF StoreCopy, At
<1> QED
    BY <1>7, <1>8, <1>9, <1>10

-----------------------------------------------------------------------------
(* What the society can rely on.                                           *)

(* The collections, and what requests hold, are of their types in every    *)
(* behaviour.                                                              *)
THEOREM TypeCorrect == Spec => []TypeOK
<1>1. IInv => TypeOK
    BY DEF IInv, Filed, TypeOK, Fitting
<1> QED
    BY <1>1, Invariant, PTL

(* However residents moved in, within and out, one request at a time, the  *)
(* counters of every flat are those of its links whenever none is in       *)
(* flight: every request that touches a link counts the flats it touched   *)
(* after it has touched them.                                              *)
THEOREM CountersTrueCorrect == Spec => []CountersTrue
<1>1. IInv => CountersTrue
  <2> SUFFICES ASSUME IInv, clean, Quiet, NEW u \in Units PROVE counts[u] = CountOf(u)
      BY DEF CountersTrue
  <2>1. Counted(Idle) /\ Idle.refresh = {} /\ Idle.writes = {}
      BY DEF IInv, Tidy, Orderly, Idle
  <2> QED
      BY <2>1 DEF Counted
<1> QED
    BY <1>1, Invariant, PTL

(* And every slot that is allotted to a flat is on that flat's list,       *)
(* whichever way it was given, given on, released or left.                 *)
THEOREM SlotListedCorrect == Spec => []SlotListed
<1>1. IInv => SlotListed
  <2> SUFFICES ASSUME IInv, clean, Quiet, NEW s \in Slots
               PROVE  slots[s].unit = "none" \/ s \in allotted[slots[s].unit]
      BY DEF SlotListed
  <2>1. OnList(Idle) /\ Idle.op = "other"
      BY DEF IInv, Tidy, Orderly, Idle
  <2> QED
      BY <2>1 DEF OnList
<1> QED
    BY <1>1, Invariant, PTL

(* A move-out that met no other request leaves the resident without a link *)
(* and the person, unless a link of another flat is left, without an       *)
(* account that could sign in.                                             *)
THEOREM MovedOutShutOutCorrect == Spec => MovedOutShutOut
<1> DEFINE Shut(i) ==
       Completes(i, "moveOut") /\ h[i].alone =>
          /\ \A m \in DOMAIN links' : links'[m].who = h[i].n => ~links'[m].active
          /\ h[i].linked /\ (\A m \in DOMAIN links' : links'[m].phone = h[i].p => ~links'[m].active)
               => account'[h[i].p] # "ACTIVE"
<1>1. ASSUME IInv, Next, NEW i \in Handlers, Completes(i, "moveOut"), h[i].alone
      PROVE  /\ \A m \in DOMAIN links' : links'[m].who = h[i].n => ~links'[m].active
             /\ h[i].linked /\ (\A m \in DOMAIN links' : links'[m].phone = h[i].p => ~links'[m].active)
                  => account'[h[i].p] # "ACTIVE"
  <2>1. UNCHANGED <<links, account, listed>>
      BY <1>1, Completed
  <2>2. PICK q : q = h[i]
      OBVIOUS
  <2>3. q.op = "moveOut" /\ q.pc \in Counting /\ q.pc # "idle"
      BY <1>1, <2>2 DEF Completes, Counting
  <2>4. InStep(q) /\ FreshMove(q)
      BY <1>1, <2>2, <2>3, Busy DEF Fresh
  <2>5. q.pc = "refresh"
      BY <2>3, <2>4 DEF InStep, Counting, FreeSteps
  <2>6. \A m \in DOMAIN links : links[m].who = q.n => ~links[m].active
      BY <2>3, <2>4, <2>5 DEF FreshMove
  <2>7. ASSUME q.linked, \A m \in DOMAIN links : links[m].phone = q.p => ~links[m].active
        PROVE  account[q.p] # "ACTIVE"
      BY <2>3, <2>4, <2>5, <2>7 DEF FreshMove, Active
  <2> QED
      BY <2>1, <2>2, <2>6, <2>7
<1>2. IInv /\ [Next]_vars => [\A i \in Handlers : Shut(i)]_vars
    BY <1>1
<1> QED
    BY <1>2, Invariant, PTL DEF Spec, MovedOutShutOut

(* A registration that met no other request leaves the resident living     *)
(* there, with an active link and a row of the directory that names the    *)
(* flat, whatever an earlier request that died had left behind.            *)
THEOREM RegisteredCorrect == Spec => Registered
<1> DEFINE In(i) ==
       Completes(i, "register") /\ h[i].alone =>
          LET n == h[i].n IN
          /\ people'[n].living /\ people'[n].linked /\ people'[n].phone = h[i].p
          /\ \E m \in DOMAIN links' : /\ links'[m].who = n /\ links'[m].unit = h[i].u
                                       /\ links'[m].phone = h[i].p /\ links'[m].active
          /\ listed'[h[i].p].status = "ACTIVE" /\ h[i].u \in listed'[h[i].p].units
<1>1. ASSUME IInv, Next, NEW i \in Handlers, Completes(i, "register"), h[i].alone
      PROVE  In(i)
  <2>1. PICK q : q = h[i]
      OBVIOUS
  <2>2. q.op = "register" /\ q.pc \in Counting /\ q.pc # "idle"
      BY <1>1, <2>1 DEF Completes, Counting
  <2>3. /\ Fits(q) /\ q.n \in Nat /\ q.n <= Len(people)
        /\ FreshPerson(q) /\ FreshLink(q) /\ FreshRow(q)
      BY <1>1, <2>1, <2>2, Busy DEF Fresh
  <2>4. /\ people[q.n].living /\ people[q.n].linked /\ people[q.n].phone = q.p
        /\ LinkHolds(q.n, q.u, q.p)
        /\ listed[q.p].status = "ACTIVE" /\ q.u \in listed[q.p].units
    <3>1. people[q.n].living /\ people[q.n].linked /\ people[q.n].phone = q.p
        BY <2>2, <2>3 DEF FreshPerson, Joining, Counting
    <3>2. LinkHolds(q.n, q.u, q.p)
        BY <2>2, <2>3 DEF FreshLink, Joining
    <3>3. listed[q.p].status = "ACTIVE" /\ q.u \in listed[q.p].units
        BY <2>2, <2>3 DEF FreshRow, Joining
    <3> QED
        BY <3>1, <3>2, <3>3
  <2>5. UNCHANGED <<links, account, listed>>
      BY <1>1, Completed
  <2>6. people'[q.n] = people[q.n]
    <3>1. CASE UNCHANGED people
        BY <3>1
    <3>2. ASSUME NEW d, people' = Append(people, d) PROVE people'[q.n] = people[q.n]
      <4>1. q.n # 0
          BY <2>2, <2>3 DEF Fits, Moving, Joining, Counting
      <4>2. people \in Seq(Person) /\ q.n \in 1..Len(people)
          BY <1>1, <2>3, <4>1 DEF IInv, Filed
      <4> QED
          BY <3>2, <4>2
    <3> QED
        BY <1>1, <3>1, <3>2, Completed
  <2> QED
      BY <2>1, <2>4, <2>5, <2>6 DEF LinkHolds
<1>2. IInv /\ [Next]_vars => [\A i \in Handlers : In(i)]_vars
    BY <1>1
<1> QED
    BY <1>2, Invariant, PTL DEF Spec, Registered
=============================================================================
