----------------------------- MODULE Residency -----------------------------
(***************************************************************************)
(* Who lives where, and who may sign in for it: residentsService.ts behind *)
(* residentsRouter.ts, the unit counters of structureService.ts and the    *)
(* login directory of identityDirectory.ts as far as this society writes   *)
(* it.  Every handler reads, decides and then writes one document after    *)
(* the other; handlers are split at those awaits.                          *)
(*                                                                         *)
(* A resident and a family member are documents of two collections; here   *)
(* they share one, told apart by the parent, and are named by their place  *)
(* in it, as links (unit_members) are in theirs.  A person is a phone      *)
(* number.  Left out: names, leases, capabilities of a link, which link is *)
(* primary, vehicles except the one a slot is given to, and bills.         *)
(***************************************************************************)
EXTENDS Integers, Sequences, FiniteSets

CONSTANTS
    Persons,       \* phone numbers
    Units,         \* flats
    Slots,         \* parking slots
    Cars,          \* vehicles that may be given a slot
    First,         \* the person who owns a flat from the start
    Home,          \* and the flat
    NewKinds,      \* what a resident may be registered as
    Copies,        \* whether by POST /residents (TRUE) or by an import
    MaxPeople,     \* bound: documents of residents and family members
    Handlers,      \* requests the API can be serving at the same time
    MaxRequests,   \* bound: requests served in a behaviour
    MaxOverlaps,   \* bound: the requests after the first so many find none in flight
    MaxAborts      \* bound: requests that die in a behaviour

ASSUME ResidencyAssumption ==
    /\ First \in Persons /\ Home \in Units /\ NewKinds \subseteq {"OWNER", "TENANT"}
    /\ Copies \subseteq BOOLEAN
    /\ MaxPeople \in Nat /\ MaxRequests \in Nat /\ MaxOverlaps \in Nat /\ MaxAborts \in Nat
    /\ "none" \notin Units \cup Slots \cup Cars \cup Persons

VARIABLES
    people,        \* residents and family_members
    links,         \* unit_members: who may act for which unit
    account,       \* users: the status of a person's account
    listed,        \* identity_directory: what it says of this society
    counts,        \* units: ownerCount, tenantCount, familyCount
    slots,         \* parking_slots
    allotted,      \* units: parkingSlotIds
    parked,        \* vehicles: parkingSlotId
    h,             \* what each request in flight holds
    started,       \* requests started so far
    died,          \* requests that died so far
    clean          \* history: requests came one at a time, none died or edited

vars == <<people, links, account, listed, counts, slots, allotted, parked, h, started, died, clean>>
homes == <<people, links, account, listed, counts>>
parking == <<slots, allotted, parked>>

-----------------------------------------------------------------------------
Kinds == {"OWNER", "TENANT", "FAMILY"}
Person == [phone : Persons, unit : Units, kind : Kinds, parent : Nat, living : BOOLEAN,
           linked : BOOLEAN]
Link == [unit : Units, who : Nat, phone : Persons, kind : Kinds, active : BOOLEAN]
Count == [Kinds -> Nat]
NoCount == [k \in Kinds |-> 0]
Row == [status : {"none", "ACTIVE", "INACTIVE"}, units : SUBSET Units]
AccountStatus == {"none", "ACTIVE", "INACTIVE"}

Steps == {"idle", "lookup", "person", "findAccount", "account", "findLink", "link", "units", "list",
          "linked", "refresh", "copy", "family", "drop", "leave", "leaveFamily", "leaveLinks",
          "slots", "release", "free", "freeCar", "readList", "writeList", "remaining", "disable",
          "shift", "shiftLinks", "shiftFamily", "edit", "assign", "park", "rebuild"}
Ops == {"register", "family", "moveOut", "transfer", "assign", "release", "rebuild", "other"}

Local == [pc : Steps, op : Ops, n : Nat, p : Persons, u : Units, to : Units, kind : Kinds,
          copy : BOOLEAN, known : BOOLEAN, m : Nat, seen : [Persons -> AccountStatus], units : SUBSET Units,
          refresh : SUBSET Units, counted : [Units -> Count \cup {NoCount}], writes : SUBSET Units,
          todo : SUBSET Slots, s : Slots \cup {"none"}, car : Cars \cup {"none"},
          unit : Units \cup {"none"}, keep : Units \cup {"none"}, linked : BOOLEAN, rows : SUBSET Persons,
          list : SUBSET Slots, alone : BOOLEAN]
Idle == [pc |-> "idle", op |-> "other", n |-> 0, p |-> First, u |-> Home, to |-> Home,
         kind |-> "OWNER", copy |-> FALSE, known |-> FALSE, m |-> 0, seen |-> [p \in Persons |-> "none"],
         units |-> {}, refresh |-> {}, counted |-> [u \in Units |-> NoCount], writes |-> {},
         todo |-> {}, s |-> "none", car |-> "none", unit |-> "none", keep |-> "none",
         linked |-> FALSE, rows |-> {}, list |-> {}, alone |-> TRUE]

TypeOK ==
    /\ people \in Seq(Person)
    /\ links \in Seq(Link)
    /\ account \in [Persons -> AccountStatus]
    /\ listed \in [Persons -> Row]
    /\ counts \in [Units -> Count]
    /\ slots \in [Slots -> [taken : BOOLEAN, unit : Units \cup {"none"}, car : Cars \cup {"none"}]]
    /\ allotted \in [Units -> SUBSET Slots]
    /\ parked \in [Cars -> Slots \cup {"none"}]
    /\ h \in [Handlers -> Local]
    /\ started \in 0..MaxRequests
    /\ died \in 0..MaxAborts
    /\ clean \in BOOLEAN

(* One owner has been registered by an import, no slot is given out.       *)
Init ==
    /\ people = <<[phone |-> First, unit |-> Home, kind |-> "OWNER", parent |-> 0,
                   living |-> TRUE, linked |-> TRUE]>>
    /\ links = <<[unit |-> Home, who |-> 1, phone |-> First, kind |-> "OWNER", active |-> TRUE]>>
    /\ account = [p \in Persons |-> IF p = First THEN "ACTIVE" ELSE "none"]
    /\ listed = [p \in Persons |-> IF p = First THEN [status |-> "ACTIVE", units |-> {Home}]
                                   ELSE [status |-> "none", units |-> {}]]
    /\ counts = [u \in Units |-> [NoCount EXCEPT !["OWNER"] = IF u = Home THEN 1 ELSE 0]]
    /\ slots = [s \in Slots |-> [taken |-> FALSE, unit |-> "none", car |-> "none"]]
    /\ allotted = [u \in Units |-> {}]
    /\ parked = [c \in Cars |-> "none"]
    /\ h = [i \in Handlers |-> Idle]
    /\ started = 0
    /\ died = 0
    /\ clean = TRUE

-----------------------------------------------------------------------------
Undisturbed(i) == \A j \in Handlers \ {i} : h[j].pc = "idle"

(* A request that finds others in flight is not alone, nor are they now.   *)
Begin(i, local) ==
    /\ h[i].pc = "idle"
    /\ started < MaxRequests
    /\ started < MaxOverlaps \/ Undisturbed(i)
    /\ started' = started + 1
    /\ h' = [j \in Handlers |->
               IF j = i THEN [local EXCEPT !.alone = Undisturbed(i)]
               ELSE IF h[j].pc = "idle" THEN h[j] ELSE [h[j] EXCEPT !.alone = FALSE]]
    /\ clean' = (clean /\ Undisturbed(i) /\ local.pc # "edit")
    /\ UNCHANGED <<homes, parking, died>>

At(i, step) == h[i].pc = step /\ UNCHANGED <<started, died, clean>>
Goto(i, step) == h' = [h EXCEPT ![i].pc = step]
Finish(i) == h' = [h EXCEPT ![i] = Idle]

Abort(i) ==
    /\ h[i].pc # "idle"
    /\ died < MaxAborts
    /\ died' = died + 1
    /\ clean' = FALSE
    /\ Finish(i)
    /\ UNCHANGED <<homes, parking, started>>

-----------------------------------------------------------------------------
(* createResident, for a row of an import or for POST /residents, where    *)
(* the factory stores what it is handed back as a document once more.      *)
Register(i, p, u, kind, copy) ==
    Begin(i, [Idle EXCEPT !.pc = "lookup", !.op = "register", !.p = p, !.u = u, !.kind = kind,
                !.copy = copy, !.refresh = {u}])

Matching(p, u) == {n \in DOMAIN people : /\ people[n].parent = 0
                                         /\ people[n].phone = p /\ people[n].unit = u}
Least(S) == IF S = {} THEN 0 ELSE CHOOSE n \in S : \A k \in S : n <= k

Lookup(i) ==
    /\ At(i, "lookup")
    /\ h' = [h EXCEPT ![i].pc = "person", ![i].n = Least(Matching(h[i].p, h[i].u))]
    /\ UNCHANGED <<homes, parking>>

SavePerson(i) ==
    /\ At(i, "person")
    /\ \/ /\ h[i].n = 0
          /\ Len(people) < MaxPeople
          /\ people' = Append(people, [phone |-> h[i].p, unit |-> h[i].u, kind |-> h[i].kind,
                                       parent |-> 0, living |-> TRUE, linked |-> FALSE])
          /\ h' = [h EXCEPT ![i].pc = "findAccount", ![i].n = Len(people')]
       \/ /\ h[i].n # 0
          /\ people' = [people EXCEPT ![h[i].n].unit = h[i].u, ![h[i].n].kind = h[i].kind,
                                      ![h[i].n].living = TRUE]
          /\ Goto(i, "findAccount")
    /\ UNCHANGED <<links, account, listed, counts, parking>>

(* A resident with an account adds to the family of a flat he may act for. *)
AddFamily(i, n, u, p) ==
    /\ people[n].parent = 0 /\ people[n].linked
    /\ account[people[n].phone] = "ACTIVE"
    /\ \E l \in DOMAIN links : /\ links[l].active /\ links[l].unit = u
                               /\ links[l].phone = people[n].phone
    /\ Begin(i, [Idle EXCEPT !.pc = "family", !.op = "family", !.n = n, !.p = p, !.u = u,
                   !.kind = "FAMILY", !.refresh = {u}])

SaveFamily(i) ==
    /\ At(i, "family")
    /\ Len(people) < MaxPeople
    /\ people' = Append(people, [phone |-> h[i].p, unit |-> h[i].u, kind |-> "FAMILY",
                                 parent |-> h[i].n, living |-> TRUE, linked |-> FALSE])
    /\ h' = [h EXCEPT ![i].pc = "findAccount", ![i].n = Len(people')]
    /\ UNCHANGED <<links, account, listed, counts, parking>>

(* ensureResidentUser: the account, the link and the directory.            *)
FindAccount(i) ==
    /\ At(i, "findAccount")
    /\ h' = [h EXCEPT ![i].pc = "account", ![i].known = account[h[i].p] # "none"]
    /\ UNCHANGED <<homes, parking>>

(* Of an account that is there only the roles change, whatever its status; *)
(* a second one for the number hits the unique index.                      *)
SaveAccount(i) ==
    /\ At(i, "account")
    /\ LET p == h[i].p
           on == h' = [h EXCEPT ![i].pc = "findLink", ![i].known = FALSE]
       IN IF h[i].known THEN on /\ UNCHANGED account
          ELSE IF account[p] = "none" THEN account' = [account EXCEPT ![p] = "ACTIVE"] /\ on
          ELSE Finish(i) /\ UNCHANGED account
    /\ UNCHANGED <<people, links, listed, counts, parking>>

LinksOf(n) == {m \in DOMAIN links : links[m].who = n}

FindLink(i) ==
    /\ At(i, "findLink")
    /\ h' = [h EXCEPT ![i].pc = "link",
               ![i].m = Least({m \in LinksOf(h[i].n) : links[m].unit = h[i].u})]
    /\ UNCHANGED <<homes, parking>>

(* Mutant of Relinked: a link that has ended is found but not renewed.     *)
RelinkedNot(i) == [links EXCEPT ![h[i].m].kind = h[i].kind, ![h[i].m].phone = h[i].p]

Relinked(i) == [links EXCEPT ![h[i].m].kind = h[i].kind, ![h[i].m].phone = h[i].p,
                             ![h[i].m].active = TRUE]

SaveLink(i) ==
    /\ At(i, "link")
    /\ \/ h[i].m # 0 /\ links' = Relinked(i)
          /\ h' = [h EXCEPT ![i].pc = "units", ![i].m = 0]
       \/ /\ h[i].m = 0
          /\ IF \E m \in LinksOf(h[i].n) : links[m].unit = h[i].u
             THEN Finish(i) /\ UNCHANGED links
             ELSE /\ links' = Append(links, [unit |-> h[i].u, who |-> h[i].n, phone |-> h[i].p,
                                             kind |-> h[i].kind, active |-> TRUE])
                  /\ Goto(i, "units")
    /\ UNCHANGED <<people, account, listed, counts, parking>>

Active(p) == {m \in DOMAIN links : links[m].phone = p /\ links[m].active}

UnitsOfUser(i) ==
    /\ At(i, "units")
    /\ h' = [h EXCEPT ![i].pc = "list", ![i].units = {links[m].unit : m \in Active(h[i].p)}]
    /\ UNCHANGED <<homes, parking>>

UpsertMembership(i) ==
    /\ At(i, "list")
    /\ listed' = [listed EXCEPT ![h[i].p] = [status |-> "ACTIVE", units |-> h[i].units]]
    /\ h' = [h EXCEPT ![i].pc = "linked", ![i].units = {}]
    /\ UNCHANGED <<people, links, account, counts, parking>>

Linked(i) ==
    /\ At(i, "linked")
    /\ people' = [people EXCEPT ![h[i].n].linked = TRUE]
    /\ Goto(i, "refresh")
    /\ UNCHANGED <<links, account, listed, counts, parking>>

(* refreshUnitCounters, for two units at the same time after a transfer.   *)
CountOf(u) == [k \in Kinds |-> Cardinality({m \in DOMAIN links :
                 links[m].unit = u /\ links[m].active /\ links[m].kind = k})]

CountRead(i, u) ==
    /\ At(i, "refresh")
    /\ u \in h[i].refresh
    /\ h' = [h EXCEPT ![i].refresh = @ \ {u}, ![i].writes = @ \cup {u},
                      ![i].counted[u] = CountOf(u)]
    /\ UNCHANGED <<homes, parking>>

CountWrite(i, u) ==
    /\ At(i, "refresh")
    /\ u \in h[i].writes
    /\ counts' = [counts EXCEPT ![u] = h[i].counted[u]]
    /\ IF h[i].refresh = {} /\ h[i].writes = {u}
       THEN IF h[i].copy THEN Goto(i, "copy") ELSE Finish(i)
       ELSE h' = [h EXCEPT ![i].writes = @ \ {u}, ![i].counted[u] = NoCount]
    /\ UNCHANGED <<people, links, account, listed, parking>>

StoreCopy(i) ==
    /\ At(i, "copy")
    /\ Len(people) < MaxPeople
    /\ people' = Append(people, [phone |-> h[i].p, unit |-> h[i].u, kind |-> h[i].kind,
                                 parent |-> 0, living |-> TRUE, linked |-> TRUE])
    /\ Finish(i)
    /\ UNCHANGED <<links, account, listed, counts, parking>>

(* DELETE /family-members/:id ends the document and nothing else.          *)
DropFamily(i, n) ==
    /\ people[n].parent # 0 /\ people[n].living
    /\ Begin(i, [Idle EXCEPT !.pc = "drop", !.n = n])

Drop(i) ==
    /\ At(i, "drop")
    /\ people' = [people EXCEPT ![h[i].n].living = FALSE]
    /\ Finish(i)
    /\ UNCHANGED <<links, account, listed, counts, parking>>

(* PUT /residents/:id may name another unit; the links stay.               *)
Edit(i, n, u) ==
    /\ people[n].parent = 0 /\ people[n].unit # u
    /\ Begin(i, [Idle EXCEPT !.pc = "edit", !.n = n, !.u = u])

EditWrite(i) ==
    /\ At(i, "edit")
    /\ people' = [people EXCEPT ![h[i].n].unit = h[i].u]
    /\ Finish(i)
    /\ UNCHANGED <<links, account, listed, counts, parking>>

-----------------------------------------------------------------------------
(* moveOutResident, which may be asked to leave the account as it is.      *)
MoveOut(i, n, deactivateLogin) ==
    /\ people[n].parent = 0
    /\ Begin(i, [Idle EXCEPT !.pc = "leave", !.op = "moveOut", !.n = n, !.u = people[n].unit,
                   !.p = people[n].phone, !.linked = people[n].linked /\ deactivateLogin,
                   !.refresh = {people[n].unit}])

Leave(i) ==
    /\ At(i, "leave")
    /\ people' = [people EXCEPT ![h[i].n].living = FALSE]
    /\ Goto(i, "leaveFamily")
    /\ UNCHANGED <<links, account, listed, counts, parking>>

Household(n) == {k \in DOMAIN people : people[k].parent = n}

LeaveFamily(i) ==
    /\ At(i, "leaveFamily")
    /\ people' = [k \in DOMAIN people |-> IF k \in Household(h[i].n)
                    THEN [people[k] EXCEPT !.living = FALSE] ELSE people[k]]
    /\ Goto(i, "leaveLinks")
    /\ UNCHANGED <<links, account, listed, counts, parking>>

LeaveLinks(i) ==
    /\ At(i, "leaveLinks")
    /\ links' = [m \in DOMAIN links |-> IF links[m].who = h[i].n
                   THEN [links[m] EXCEPT !.active = FALSE] ELSE links[m]]
    /\ Goto(i, "slots")
    /\ UNCHANGED <<people, account, listed, counts, parking>>

AfterSlots(i) == IF h[i].op = "moveOut" /\ h[i].linked THEN "remaining" ELSE "refresh"

(* Mutant of Remaining: the links that have ended count as well.           *)
RemainingAny(p) == {m \in DOMAIN links : links[m].phone = p}

Remaining(p) == Active(p)

CountRemaining(i) ==
    /\ At(i, "remaining")
    /\ Goto(i, IF Remaining(h[i].p) = {} THEN "disable" ELSE "refresh")
    /\ UNCHANGED <<homes, parking>>

(* The directory is told as well, but without a phone number or an email,  *)
(* for which it does nothing.                                              *)
Disable(i) ==
    /\ At(i, "disable")
    /\ account' = [account EXCEPT ![h[i].p] = "INACTIVE"]
    /\ Goto(i, "refresh")
    /\ UNCHANGED <<people, links, listed, counts, parking>>

(* Mutant of Refreshed: the flat that was left keeps its counters.         *)
RefreshedNew(from, to) == {to}

Refreshed(from, to) == {from, to}

(* transferResident.                                                       *)
Transfer(i, n, to) ==
    /\ people[n].parent = 0 /\ people[n].unit # to
    /\ Begin(i, [Idle EXCEPT !.pc = "shift", !.op = "transfer", !.n = n, !.to = to,
                   !.u = people[n].unit, !.refresh = Refreshed(people[n].unit, to)])

Shift(i) ==
    /\ At(i, "shift")
    /\ people' = [people EXCEPT ![h[i].n].unit = h[i].to]
    /\ Goto(i, "shiftLinks")
    /\ UNCHANGED <<links, account, listed, counts, parking>>

(* Two links of one resident cannot come to name the same unit.            *)
ShiftLinks(i) ==
    /\ At(i, "shiftLinks")
    /\ IF Cardinality(LinksOf(h[i].n)) > 1 THEN Finish(i) /\ UNCHANGED links
       ELSE /\ links' = [m \in DOMAIN links |-> IF links[m].who = h[i].n
                           THEN [links[m] EXCEPT !.unit = h[i].to] ELSE links[m]]
            /\ Goto(i, "shiftFamily")
    /\ UNCHANGED <<people, account, listed, counts, parking>>

ShiftFamily(i) ==
    /\ At(i, "shiftFamily")
    /\ people' = [k \in DOMAIN people |-> IF k \in Household(h[i].n)
                    THEN [people[k] EXCEPT !.unit = h[i].to] ELSE people[k]]
    /\ Goto(i, "slots")
    /\ UNCHANGED <<links, account, listed, counts, parking>>

-----------------------------------------------------------------------------
(* assignParkingSlot; "none" is a vehicle or a unit the request leaves out.*)
Assign(i, s, c, u) ==
    /\ ~(slots[s].taken /\ slots[s].car # "none" /\ c # "none" /\ slots[s].car # c)
    /\ Begin(i, [Idle EXCEPT !.pc = "assign", !.op = "assign", !.s = s, !.car = c, !.unit = u,
                   !.keep = IF u = "none" THEN slots[s].unit ELSE u])

AfterCar(i) == IF h[i].unit # "none" THEN "readList" ELSE "done"

(* What a request goes on to when it is done with a slot.                  *)
Onward(i, step, local) ==
    IF step # "done" THEN h' = [h EXCEPT ![i] = [local EXCEPT !.pc = step]]
    ELSE IF h[i].op \notin {"moveOut", "transfer"} THEN Finish(i)
    ELSE h' = [h EXCEPT ![i] = [local EXCEPT !.s = "none", !.car = "none", !.unit = "none",
                 !.pc = IF h[i].todo # {} THEN "release" ELSE AfterSlots(i)]]

AssignSlot(i) ==
    /\ At(i, "assign")
    /\ slots' = [slots EXCEPT ![h[i].s] = [taken |-> TRUE, car |-> h[i].car, unit |-> h[i].keep]]
    /\ Onward(i, IF h[i].car = "none" THEN AfterCar(i) ELSE "park", h[i])
    /\ UNCHANGED <<homes, allotted, parked>>

Park(i) ==
    /\ At(i, "park")
    /\ parked' = [parked EXCEPT ![h[i].car] = h[i].s]
    /\ Onward(i, AfterCar(i), h[i])
    /\ UNCHANGED <<homes, slots, allotted>>

(* releaseParkingSlot, of its own or for every slot of a flat that is left.*)
Release(i, s) ==
    Begin(i, [Idle EXCEPT !.pc = "free", !.op = "release", !.s = s, !.car = slots[s].car,
                !.unit = slots[s].unit])

SlotsOfUnit(i) ==
    /\ At(i, "slots")
    /\ LET mine == {s \in Slots : slots[s].unit = h[i].u} IN
         h' = [h EXCEPT ![i].todo = mine, ![i].pc = IF mine = {} THEN AfterSlots(i) ELSE "release"]
    /\ UNCHANGED <<homes, parking>>

ReleaseNext(i, s) ==
    /\ At(i, "release")
    /\ s \in h[i].todo
    /\ h' = [h EXCEPT ![i].pc = "free", ![i].todo = @ \ {s}, ![i].s = s,
                      ![i].car = slots[s].car, ![i].unit = slots[s].unit]
    /\ UNCHANGED <<homes, parking>>

(* Mutant of Freed: the slot keeps the unit it was allotted to.            *)
FreedKeeps(i) == [taken |-> FALSE, car |-> "none", unit |-> h[i].unit]

Freed(i) == [taken |-> FALSE, car |-> "none", unit |-> "none"]

Free(i) ==
    /\ At(i, "free")
    /\ slots' = [slots EXCEPT ![h[i].s] = Freed(i)]
    /\ Onward(i, IF h[i].car = "none" THEN AfterCar(i) ELSE "freeCar", h[i])
    /\ UNCHANGED <<homes, allotted, parked>>

FreeCar(i) ==
    /\ At(i, "freeCar")
    /\ parked' = [parked EXCEPT ![h[i].car] = "none"]
    /\ Onward(i, AfterCar(i), h[i])
    /\ UNCHANGED <<homes, slots, allotted>>

(* The list of a unit is read, changed and written back.                   *)
ReadList(i) ==
    /\ At(i, "readList")
    /\ h' = [h EXCEPT ![i].pc = "writeList", ![i].list = allotted[h[i].unit]]
    /\ UNCHANGED <<homes, parking>>

WriteList(i) ==
    /\ At(i, "writeList")
    /\ allotted' = [allotted EXCEPT ![h[i].unit] =
                      IF h[i].op = "assign" THEN h[i].list \cup {h[i].s} ELSE h[i].list \ {h[i].s}]
    /\ Onward(i, "done", [h[i] EXCEPT !.list = {}])
    /\ UNCHANGED <<homes, slots, parked>>

-----------------------------------------------------------------------------
(* rebuildForSociety: every row anew from the account; an account does not *)
(* know its units.                                                         *)
Rebuild(i) ==
    LET users == {p \in Persons : account[p] # "none"} IN
    Begin(i, [Idle EXCEPT !.pc = "rebuild", !.op = "rebuild", !.rows = users, !.seen = account])

RebuildRow(i, p) ==
    /\ At(i, "rebuild")
    /\ p \in h[i].rows
    /\ listed' = [listed EXCEPT ![p] = [status |-> h[i].seen[p], units |-> {}]]
    /\ IF h[i].rows = {p} THEN Finish(i) ELSE h' = [h EXCEPT ![i].rows = @ \ {p}]
    /\ UNCHANGED <<people, links, account, counts, parking>>

-----------------------------------------------------------------------------
Request(i) ==
    \/ \E p \in Persons, u \in Units, k \in NewKinds, b \in Copies : Register(i, p, u, k, b)
    \/ \E n \in DOMAIN people :
          \/ DropFamily(i, n) \/ (\E b \in BOOLEAN : MoveOut(i, n, b))
          \/ \E u \in Units : \/ Edit(i, n, u) \/ Transfer(i, n, u)
                              \/ \E p \in Persons : AddFamily(i, n, u, p)
    \/ \E s \in Slots :
          \/ Release(i, s)
          \/ \E c \in Cars \cup {"none"}, u \in Units \cup {"none"} : Assign(i, s, c, u)
    \/ Rebuild(i)

Advance(i) ==
    \/ Lookup(i) \/ SavePerson(i) \/ SaveFamily(i) \/ FindAccount(i) \/ SaveAccount(i)
    \/ FindLink(i) \/ SaveLink(i) \/ UnitsOfUser(i) \/ UpsertMembership(i) \/ Linked(i)
    \/ (\E u \in Units : CountRead(i, u) \/ CountWrite(i, u))
    \/ StoreCopy(i) \/ Drop(i) \/ EditWrite(i)
    \/ Leave(i) \/ LeaveFamily(i) \/ LeaveLinks(i) \/ CountRemaining(i) \/ Disable(i)
    \/ Shift(i) \/ ShiftLinks(i) \/ ShiftFamily(i)
    \/ AssignSlot(i) \/ Park(i) \/ SlotsOfUnit(i) \/ (\E s \in Slots : ReleaseNext(i, s))
    \/ Free(i) \/ FreeCar(i) \/ ReadList(i) \/ WriteList(i)
    \/ (\E p \in Persons : RebuildRow(i, p))

Next == \E i \in Handlers : Request(i) \/ Advance(i) \/ Abort(i)

Spec == Init /\ [][Next]_vars

-----------------------------------------------------------------------------
(* PROPERTIES                                                              *)

Completes(i, op) ==
    h[i].op = op /\ h[i].pc \in {"refresh", "copy"} /\ h'[i] = Idle /\ died' = died

(* A resident who is moved out loses the flat: when the request is through *)
(* and met no other, no link of the resident is left, and a person with no *)
(* link left at all has no active account, whatever requests died before   *)
(* and whichever flat the links had come to name (residentsService.ts      *)
(* 632-653).                                                               *)
MovedOutShutOut ==
    [][\A i \in Handlers : Completes(i, "moveOut") /\ h[i].alone =>
          /\ \A m \in DOMAIN links' : links'[m].who = h[i].n => ~links'[m].active
          /\ h[i].linked /\ (\A m \in DOMAIN links' : links'[m].phone = h[i].p => ~links'[m].active)
               => account'[h[i].p] # "ACTIVE"]_vars

(* A registration that is through and met no other leaves a resident with  *)
(* a link that holds and a directory that knows the person in this flat,   *)
(* new or back after having moved out, and whatever an earlier request     *)
(* that died had left of it (residentsService.ts 109-178, 184-287).        *)
Registered ==
    [][\A i \in Handlers : Completes(i, "register") /\ h[i].alone =>
          LET n == h[i].n IN
          /\ people'[n].living /\ people'[n].linked /\ people'[n].phone = h[i].p
          /\ \E m \in DOMAIN links' : /\ links'[m].who = n /\ links'[m].unit = h[i].u
                                       /\ links'[m].phone = h[i].p /\ links'[m].active
          /\ listed'[h[i].p].status = "ACTIVE" /\ h[i].u \in listed'[h[i].p].units]_vars

Quiet == \A i \in Handlers : h[i].pc = "idle"

(* One request at a time, none dying and nobody's flat edited in place,    *)
(* the counters of every flat are those of its links, through moves in,    *)
(* within and out (residentsService.ts 176, 669, 713, residentsRouter.ts   *)
(* 292, structureService.ts 615-646).                                      *)
CountersTrue == clean /\ Quiet => \A u \in Units : counts[u] = CountOf(u)

(* And a slot that is allotted to a flat is on that flat's list, however   *)
(* often slots were given, given on, released and left                     *)
(* (residentsService.ts 573-617).                                          *)
SlotListed == clean /\ Quiet => \A s \in Slots : slots[s].unit = "none" \/ s \in allotted[slots[s].unit]
=============================================================================
