----------------------------- MODULE Societies -----------------------------
(***************************************************************************)
(* The life of a society on the platform: societiesService.ts behind       *)
(* societiesRouter.ts, the provisioning of its database (manager.ts,       *)
(* seedTenant.ts), the login directory all societies share                 *)
(* (identityDirectory.ts) with those who write it, and the cache through   *)
(* which every request learns whether the society is open (cache.ts,       *)
(* authenticate.ts).  Handlers are split at their awaits; a read that is   *)
(* the first thing a handler does belongs to the action that starts it.    *)
(*                                                                         *)
(* A society has one staff member who may be given a login.  Left out: the *)
(* profile of a society, the onboarding step and the totals kept for       *)
(* display, the platform's own subscription rows, the limit on             *)
(* administrators, the documents of roles but for those of the seed,       *)
(* isActive of a user (authentication reads the status), names and units   *)
(* in the directory, and sessions, which are in SignIn.                    *)
(***************************************************************************)
EXTENDS Integers, Sequences, FiniteSets, Functions

CONSTANTS
    Socs,          \* society ids
    Founded,       \* those created, provisioned and built at the start
    Names,         \* what a slug is made of
    LongNames,     \* names that fill the 48 characters of a slug
    Tiers,         \* plans
    NewStatuses,   \* what a society may be set to by hand
    Phones, Emails,
    FirstAdmins,   \* whom a creation may name, as <<phone, email>>; "none" twice is nobody
    FirstTiers,    \* and the plans it may start on
    Handlers,      \* requests the API can be serving at the same time
    MaxUsers,      \* bound: accounts, of all societies
    MaxRequests,   \* bound: requests served in a behaviour
    MaxOverlaps,   \* bound: the requests after the first so many find none in flight
    MaxAborts      \* bound: requests that die in a behaviour

ASSUME SocietiesAssumption ==
    /\ Founded \subseteq Socs /\ LongNames \subseteq Names
    /\ NewStatuses \subseteq {"ONBOARDING", "ACTIVE", "SUSPENDED"}
    /\ FirstAdmins \subseteq (Phones \cup {"none"}) \X (Emails \cup {"none"})
    /\ FirstTiers \subseteq Tiers
    /\ Names # {} /\ Tiers # {} /\ Socs # {} /\ IsFiniteSet(Socs)
    /\ MaxUsers \in Nat /\ MaxRequests \in Nat /\ MaxOverlaps \in Nat /\ MaxAborts \in Nat
    /\ "none" \notin Phones \cup Emails \cup Handlers \cup Tiers

VARIABLES
    soc,           \* societies, of the platform database
    seeded,        \* whether a society has roles and ledgers of its own
    mirror,        \* subscriptions, of the society's database: the plan requests are judged by
    users,         \* users, of all societies
    staff,         \* the account the society's staff member signs in with
    directory,     \* identity_directory: who has an account where
    cached,        \* societyCache: the status requests are judged by
    loading,       \* TtlCache.inFlight: the request that is loading a society
    provisioning,  \* DatabaseManager.provisioning: the request that is seeding it
    h,             \* what each request in flight holds
    started,       \* requests started so far
    died,          \* requests that died so far
    late,          \* history: what is cached escaped the last invalidation
    muddled        \* history: a change of plan crossed another, or died

vars == <<soc, seeded, mirror, users, staff, directory, cached, loading, provisioning, h,
          started, died, late, muddled>>
tenant == <<seeded, mirror, provisioning, muddled>>
people == <<users, staff>>
cache == <<cached, loading, late>>

-----------------------------------------------------------------------------
Status == {"ONBOARDING", "ACTIVE", "SUSPENDED"}
Society == [there : BOOLEAN, name : Names, k : 1..Cardinality(Socs), status : Status, ready : BOOLEAN,
            tier : Tiers, units : BOOLEAN]
User == [s : Socs, phone : Phones \cup {"none"}, email : Emails \cup {"none"},
         status : {"PENDING", "ACTIVE", "INACTIVE"}, admin : BOOLEAN]
Member == [user : 0..MaxUsers, active : BOOLEAN]
NoMember == [user |-> 0, active |-> FALSE]
Nowhere == [s \in Socs |-> NoMember]
Entry == [phone : Phones \cup {"none"}, email : Emails \cup {"none"}, members : [Socs -> Member]]
Upsert == [phone : Phones \cup {"none"}, email : Emails \cup {"none"}, user : 1..MaxUsers,
           active : BOOLEAN]

Steps == {"idle", "slug", "found", "provision", "join", "entitle", "seed", "flag", "admin",
          "saveAdmin", "find", "put", "count", "goLive", "wake", "rebuild", "status", "drop",
          "structure", "reset", "plan", "mirror", "signIn", "staff", "staffLink", "revoke",
          "unlink", "profile", "load", "fill", "done", "clear"}
Seeding == {"slug", "found", "provision", "join", "entitle", "seed", "flag", "reset"}
Ops == {"activate", "plan", "other"}

Some(S) == CHOOSE x \in S : TRUE
Local == [pc : Steps, op : Ops, s : Socs, back : Steps, name : Names, k : 1..Cardinality(Socs),
          tier : Tiers, phone : Phones \cup {"none"}, email : Emails \cup {"none"}, live : BOOLEAN,
          u : 0..MaxUsers, todo : Seq(Upsert), row : Nat, members : [Socs -> Member],
          status : Status, ready : BOOLEAN, crossed : BOOLEAN, alone : BOOLEAN]
Idle == [pc |-> "idle", op |-> "other", s |-> Some(Socs), back |-> "done", name |-> Some(Names), k |-> 1,
         tier |-> Some(Tiers), phone |-> "none", email |-> "none", live |-> FALSE, u |-> 0,
         todo |-> <<>>, row |-> 0, members |-> Nowhere, status |-> "ONBOARDING", ready |-> TRUE,
         crossed |-> FALSE, alone |-> TRUE]

TypeOK ==
    /\ soc \in [Socs -> Society]
    /\ seeded \in [Socs -> BOOLEAN]
    /\ mirror \in [Socs -> Tiers \cup {"none"}]
    /\ users \in Seq(User)
    /\ staff \in [Socs -> 0..MaxUsers]
    /\ directory \in Seq(Entry)
    /\ cached \in [Socs -> Status \cup {"none"}]
    /\ loading \in [Socs -> Handlers \cup {"none"}]
    /\ provisioning \in [Socs -> Handlers \cup {"none"}]
    /\ h \in [Handlers -> Local]
    /\ started \in 0..MaxRequests
    /\ died \in 0..MaxAborts
    /\ late \in [Socs -> BOOLEAN]
    /\ muddled \in [Socs -> BOOLEAN]

Init ==
    /\ soc = [s \in Socs |-> [there |-> s \in Founded, name |-> Some(Names), k |-> 1,
                              status |-> "ONBOARDING", ready |-> s \in Founded,
                              tier |-> Some(Tiers), units |-> s \in Founded]]
    /\ seeded = [s \in Socs |-> s \in Founded]
    /\ mirror = [s \in Socs |-> IF s \in Founded THEN Some(Tiers) ELSE "none"]
    /\ users = <<>>
    /\ staff = [s \in Socs |-> 0]
    /\ directory = <<>>
    /\ cached = [s \in Socs |-> "none"]
    /\ loading = [s \in Socs |-> "none"]
    /\ provisioning = [s \in Socs |-> "none"]
    /\ h = [i \in Handlers |-> Idle]
    /\ started = 0
    /\ died = 0
    /\ late = [s \in Socs |-> FALSE]
    /\ muddled = [s \in Socs |-> FALSE]

-----------------------------------------------------------------------------
InFlight(i) == h[i].pc # "idle"
Undisturbed(i) == \A j \in Handlers \ {i} : ~InFlight(j)
(* A change of plan meets another, or a seeding, of the same society.      *)
Plans(local) == local.op = "plan" \/ local.pc \in Seeding
Crosses(i, local) == \E j \in Handlers \ {i} : /\ h[j].s = local.s
                                              /\ Plans(local) /\ Plans(h[j])
                                              /\ "plan" \in {local.op, h[j].op}

(* A request that finds others in flight is not alone, nor are they now.   *)
Begin(i, local) ==
    /\ ~InFlight(i)
    /\ started < MaxRequests
    /\ started < MaxOverlaps \/ Undisturbed(i)
    /\ started' = started + 1
    /\ h' = [j \in Handlers |->
               IF j = i THEN [local EXCEPT !.alone = Undisturbed(i)]
               ELSE IF InFlight(j) THEN [h[j] EXCEPT !.alone = FALSE] ELSE h[j]]
    /\ muddled' = [muddled EXCEPT ![local.s] = @ \/ Crosses(i, local)]
    /\ UNCHANGED <<soc, seeded, mirror, users, staff, directory, cached, late, provisioning, died>>

Starts(i, local) == Begin(i, local) /\ UNCHANGED loading

At(i, step) == h[i].pc = step /\ UNCHANGED <<started, died>>
Goto(i, step) == h' = [h EXCEPT ![i].pc = step]
Finish(i) == h' = [h EXCEPT ![i] = Idle]
(* Where a part that several handlers share goes on.                       *)
Return(i) == IF h[i].back = "done" THEN Finish(i) ELSE Goto(i, h[i].back)

(* A load in flight when the cache is emptied, or when the writer who was  *)
(* to empty it dies, fills it all the same.                                *)
Cross(local, S) == [j \in Handlers |-> IF local[j].pc \in {"load", "fill"} /\ local[j].s \in S
                                       THEN [local[j] EXCEPT !.crossed = TRUE] ELSE local[j]]

(* A database that fails takes with it a load and a seeding in progress,   *)
(* and whoever waits for the seeding; a plan or a status may be half set.  *)
Abort(i) ==
    /\ InFlight(i)
    /\ h[i].pc # "join"
    /\ died < MaxAborts
    /\ died' = died + 1
    /\ LET s == h[i].s
           left == [j \in Handlers |->
                     IF j = i \/ (h[j].pc = "join" /\ h[j].s = s /\ provisioning[s] = i)
                     THEN Idle ELSE h[j]]
       IN /\ h' = IF h[i].pc \in {"wake", "drop"} THEN Cross(left, {s}) ELSE left
          /\ loading' = IF h[i].pc \in {"load", "fill"} THEN [loading EXCEPT ![s] = "none"] ELSE loading
          /\ provisioning' = [provisioning EXCEPT ![s] = IF @ = i THEN "none" ELSE @]
          /\ muddled' = [muddled EXCEPT ![s] = @ \/ h[i].pc = "mirror"]
          /\ late' = [late EXCEPT ![s] = @ \/ h[i].pc \in {"wake", "drop"}]
    /\ UNCHANGED <<soc, seeded, mirror, people, directory, cached, started>>

-----------------------------------------------------------------------------
(* createSociety; the route goes on to create the administrator it was     *)
(* given, who may not sign in yet.                                         *)
Unused == {s \in Socs : ~soc[s].there /\ \A j \in Handlers : InFlight(j) => h[j].s # s}

Create(i, n, t, p, e) ==
    /\ Unused # {}
    /\ Starts(i, [Idle EXCEPT !.pc = "slug", !.s = Some(Unused), !.name = n, !.tier = t,
                    !.phone = p, !.email = e,
                    !.back = IF p = "none" /\ e = "none" THEN "done" ELSE "admin"])

(* The slug is the name, or the name and the first number that is free.    *)
Taken(n, k) == \E s \in Socs : soc[s].there /\ soc[s].name = n /\ soc[s].k = k
FirstFree(n) == CHOOSE k \in 1..Cardinality(Socs) :
                   ~Taken(n, k) /\ \A m \in 1..(k - 1) : Taken(n, m)

UniqueSlug(i) ==
    /\ At(i, "slug")
    /\ h' = [h EXCEPT ![i].pc = "found", ![i].k = FirstFree(h[i].name)]
    /\ UNCHANGED <<soc, tenant, people, directory, cache>>

Found(i) ==
    /\ At(i, "found")
    /\ IF Taken(h[i].name, h[i].k)
       THEN Finish(i) /\ UNCHANGED soc
       ELSE /\ soc' = [soc EXCEPT ![h[i].s] = [there |-> TRUE, name |-> h[i].name, k |-> h[i].k,
                                               status |-> "ONBOARDING", ready |-> FALSE,
                                               tier |-> h[i].tier, units |-> FALSE]]
            /\ h' = [h EXCEPT ![i].pc = "provision", ![i].tier = Some(Tiers),
                              ![i].name = Some(Names), ![i].k = 1]
    /\ UNCHANGED <<tenant, people, directory, cache>>

(* The name of the database is cut to the length a name may have, and with *)
(* it goes the number of a long one.                                       *)
DatabaseName(s) == IF soc[s].name \in LongNames THEN <<soc[s].name, 1>> ELSE <<soc[s].name, soc[s].k>>

(* provision: one request seeds, others that come meanwhile wait for it.   *)
Provision(i) ==
    /\ At(i, "provision")
    /\ IF provisioning[h[i].s] # "none"
       THEN Goto(i, "join") /\ UNCHANGED provisioning
       ELSE /\ provisioning' = [provisioning EXCEPT ![h[i].s] = i]
            /\ Goto(i, "entitle")
    /\ UNCHANGED <<soc, seeded, mirror, muddled, people, directory, cache>>

(* Mutant of Entitlement: the plan seeded is the one every society starts  *)
(* with, whatever it has bought since.                                     *)
DefaultEntitlement(s) == Some(Tiers)
Entitlement(s) == soc[s].tier

ResolveEntitlements(i) ==
    /\ At(i, "entitle")
    /\ h' = [h EXCEPT ![i].pc = "seed", ![i].tier = Entitlement(h[i].s)]
    /\ UNCHANGED <<soc, tenant, people, directory, cache>>

(* Roles and ledgers are looked up by name in the whole database.          *)
Seed(i) ==
    /\ At(i, "seed")
    /\ LET s == h[i].s
           shared == \E t \in Socs \ {s} : /\ soc[t].there /\ seeded[t]
                                           /\ DatabaseName(t) = DatabaseName(s)
       IN /\ seeded' = [seeded EXCEPT ![s] = @ \/ ~shared]
          /\ mirror' = [mirror EXCEPT ![s] = h[i].tier]
          /\ provisioning' = [provisioning EXCEPT ![s] = "none"]
          /\ h' = [j \in Handlers |->
                     IF j = i THEN [h[j] EXCEPT !.pc = "flag", !.tier = Some(Tiers)]
                     ELSE IF h[j].pc = "join" /\ h[j].s = s THEN [h[j] EXCEPT !.pc = "flag"]
                     ELSE h[j]]
    /\ UNCHANGED <<soc, muddled, people, directory, cache>>

Provisioned(i) ==
    /\ At(i, "flag")
    /\ soc' = [soc EXCEPT ![h[i].s].ready = TRUE]
    /\ Return(i)
    /\ UNCHANGED <<tenant, people, directory, cache>>

-----------------------------------------------------------------------------
(* The steps of the wizard, refused to a suspended society: units, and an  *)
(* administrator.  POST /:id/admins is the second without the refusal and  *)
(* without the database being seen to.                                     *)
Provisioning(s, step, local) ==
    [local EXCEPT !.s = s, !.pc = IF soc[s].ready THEN step ELSE "provision", !.back = step]

Structure(i, s) ==
    /\ soc[s].there /\ soc[s].status # "SUSPENDED"
    /\ Starts(i, Provisioning(s, "structure", Idle))

Build(i) ==
    /\ At(i, "structure")
    /\ soc' = [soc EXCEPT ![h[i].s].units = TRUE]
    /\ Finish(i)
    /\ UNCHANGED <<tenant, people, directory, cache>>

Admin(i, s, p, e) ==
    /\ soc[s].there /\ soc[s].status # "SUSPENDED"
    /\ p # "none" \/ e # "none"
    /\ Starts(i, Provisioning(s, "admin", [Idle EXCEPT !.phone = p, !.email = e,
                                             !.live = soc[s].status = "ACTIVE"]))

Invite(i, s, p, e) ==
    /\ soc[s].there
    /\ p # "none" \/ e # "none"
    /\ Starts(i, [Idle EXCEPT !.pc = "admin", !.s = s, !.phone = p, !.email = e,
                    !.live = soc[s].status = "ACTIVE"])

(* Documents are looked up by phone where there is one, else by email, and *)
(* the first that is found is taken.                                       *)
IsFor(d, p, e) == IF p # "none" THEN d.phone = p ELSE d.email = e
Least(S) == IF S = {} THEN 0 ELSE CHOOSE n \in S : \A m \in S : n <= m
UserFor(s, p, e) == Least({u \in DOMAIN users : users[u].s = s /\ IsFor(users[u], p, e)})
RowFor(p, e) == Least({r \in DOMAIN directory : IsFor(directory[r], p, e)})
(* users: one account of a society for a phone number and for an email.    *)
Clash(s, p, e) == \E u \in DOMAIN users : /\ users[u].s = s
                                          /\ \/ p # "none" /\ users[u].phone = p
                                             \/ e # "none" /\ users[u].email = e

FindAdmin(i) ==
    /\ At(i, "admin")
    /\ h' = [h EXCEPT ![i].pc = "saveAdmin", ![i].u = UserFor(h[i].s, h[i].phone, h[i].email)]
    /\ UNCHANGED <<soc, tenant, people, directory, cache>>

(* An account that is there is given the role and nothing more; a new one  *)
(* is listed under its phone number and, apart from that, under its email. *)
ListingsOf(p, e, u, live) ==
    (IF p = "none" THEN <<>> ELSE <<[phone |-> p, email |-> "none", user |-> u, active |-> live]>>)
    \o (IF e = "none" THEN <<>> ELSE <<[phone |-> "none", email |-> e, user |-> u, active |-> live]>>)

SaveAdmin(i) ==
    /\ At(i, "saveAdmin")
    /\ LET s == h[i].s  p == h[i].phone  e == h[i].email  live == h[i].live
       IN \/ /\ h[i].u # 0
             /\ users' = [users EXCEPT ![h[i].u].admin = TRUE]
             /\ Finish(i)
          \/ /\ h[i].u = 0 /\ Clash(s, p, e)
             /\ Finish(i) /\ UNCHANGED users
          \/ /\ h[i].u = 0 /\ ~Clash(s, p, e)
             /\ Len(users) < MaxUsers
             /\ users' = Append(users, [s |-> s, phone |-> p, email |-> e, admin |-> TRUE,
                                        status |-> IF live THEN "ACTIVE" ELSE "PENDING"])
             /\ h' = [h EXCEPT ![i] = [Idle EXCEPT !.s = s, !.pc = "find", !.alone = h[i].alone,
                                         !.todo = ListingsOf(p, e, Len(users) + 1, live)]]
    /\ UNCHANGED <<soc, tenant, staff, directory, cache>>

-----------------------------------------------------------------------------
(* upsertMembership: the entry is read, and written back with the          *)
(* memberships as they were read and this society's in its place.          *)
FindEntry(i) ==
    /\ At(i, "find")
    /\ LET up == Head(h[i].todo)
           r == RowFor(up.phone, up.email)
       IN h' = [h EXCEPT ![i].pc = "put", ![i].row = r,
                         ![i].members = IF r = 0 THEN Nowhere ELSE directory[r].members]
    /\ UNCHANGED <<soc, tenant, people, directory, cache>>

(* Mutant of Invalidate: the prefix is not that of the keys.               *)
InvalidateOther(s) == UNCHANGED <<cached, late>>

Invalidate(s) == /\ cached' = [cached EXCEPT ![s] = "none"]
                 /\ late' = [late EXCEPT ![s] = FALSE]

Over(known, new) == IF new = "none" THEN known ELSE new

PutEntry(i) ==
    /\ At(i, "put")
    /\ LET up == Head(h[i].todo)
           member == [user |-> up.user, active |-> up.active]
           members == [h[i].members EXCEPT ![h[i].s] = member]
           rest == Tail(h[i].todo)
       IN /\ directory' =
                IF h[i].row = 0
                THEN Append(directory, [phone |-> up.phone, email |-> up.email, members |-> members])
                ELSE [directory EXCEPT ![h[i].row] = [phone |-> Over(@.phone, up.phone),
                                                      email |-> Over(@.email, up.email),
                                                      members |-> members]]
          /\ IF rest # <<>>
             THEN h' = [h EXCEPT ![i].pc = "find", ![i].todo = rest, ![i].row = 0, ![i].members = Nowhere]
             ELSE IF h[i].back = "done" THEN Finish(i)
             ELSE h' = [h EXCEPT ![i].pc = h[i].back, ![i].todo = <<>>, ![i].row = 0, ![i].members = Nowhere]
    /\ UNCHANGED <<soc, tenant, people, cache>>

(* rebuildForSociety: every account of the society is listed as it is, and *)
(* the cache of all societies is emptied, with the note of loads in flight.*)
Rebuild(i, s) ==
    /\ soc[s].there
    /\ Starts(i, [Idle EXCEPT !.pc = "rebuild", !.s = s, !.back = "clear"])

(* Mutant of Standing: whoever has an account is listed as active.         *)
AlwaysActive(user) == TRUE
Standing(user) == user.status = "ACTIVE"

ListingOf(u) == [phone |-> users[u].phone, email |-> users[u].email, user |-> u,
                 active |-> Standing(users[u])]
UsersOf(s) == {u \in DOMAIN users : users[u].s = s}

Listed(s) == {u \in UsersOf(s) : users[u].phone # "none" \/ users[u].email # "none"}

(* The users come in the order of whatever index finds them, and one that  *)
(* has neither a phone number nor an email is passed over.                 *)
ReadUsers(i) ==
    /\ At(i, "rebuild")
    /\ LET mine == Listed(h[i].s)
       IN \E ids \in Bijection(1..Cardinality(mine), mine) :
            h' = [h EXCEPT ![i].pc = IF mine = {} THEN "clear" ELSE "find",
                           ![i].todo = [n \in 1..Cardinality(mine) |-> ListingOf(ids[n])]]
    /\ UNCHANGED <<soc, tenant, people, directory, cache>>

Clear(i) ==
    /\ At(i, "clear")
    /\ cached' = [s \in Socs |-> "none"]
    /\ late' = [s \in Socs |-> FALSE]
    /\ loading' = [s \in Socs |-> "none"]
    /\ h' = Cross([h EXCEPT ![i] = Idle], Socs)
    /\ UNCHANGED <<soc, tenant, people, directory>>

-----------------------------------------------------------------------------
(* activateSociety, of the route or as the last step of the wizard.        *)
Activate(i, s, wizard) ==
    /\ soc[s].there
    /\ wizard => soc[s].status # "SUSPENDED"
    /\ Starts(i, Provisioning(s, "count", [Idle EXCEPT !.op = "activate"]))

Count(i) ==
    /\ At(i, "count")
    /\ IF /\ soc[h[i].s].units
          /\ \E u \in UsersOf(h[i].s) : users[u].admin /\ users[u].status # "INACTIVE"
       THEN h' = [h EXCEPT ![i].pc = "goLive", ![i].back = "clear"]
       ELSE Finish(i)
    /\ UNCHANGED <<soc, tenant, people, directory, cache>>

GoLive(i) ==
    /\ At(i, "goLive")
    /\ soc' = [soc EXCEPT ![h[i].s].status = "ACTIVE"]
    /\ Goto(i, "wake")
    /\ UNCHANGED <<tenant, people, directory, cache>>

Wake(i) ==
    /\ At(i, "wake")
    /\ users' = [u \in DOMAIN users |->
                   IF users[u].s = h[i].s /\ users[u].admin /\ users[u].status = "PENDING"
                   THEN [users[u] EXCEPT !.status = "ACTIVE"] ELSE users[u]]
    /\ Invalidate(h[i].s)
    /\ h' = Cross([h EXCEPT ![i].pc = "rebuild"], {h[i].s})
    /\ UNCHANGED <<soc, tenant, staff, directory, loading>>

(* setSocietyStatus: any status, from any.                                 *)
SetStatus(i, s, status) ==
    /\ soc[s].there
    /\ Starts(i, [Idle EXCEPT !.pc = "status", !.s = s, !.status = status])

WriteStatus(i) ==
    /\ At(i, "status")
    /\ soc' = [soc EXCEPT ![h[i].s].status = h[i].status]
    /\ h' = [h EXCEPT ![i].pc = "drop", ![i].status = "ONBOARDING"]
    /\ UNCHANGED <<tenant, people, directory, cache>>

Drop(i) ==
    /\ At(i, "drop")
    /\ Invalidate(h[i].s)
    /\ h' = Cross([h EXCEPT ![i] = Idle], {h[i].s})
    /\ UNCHANGED <<soc, tenant, people, directory, loading>>

(* POST /:id/provision.                                                    *)
Reprovision(i, s) ==
    /\ soc[s].there
    /\ Starts(i, [Idle EXCEPT !.pc = "reset", !.s = s])

Reset(i) ==
    /\ At(i, "reset")
    /\ soc' = [soc EXCEPT ![h[i].s].ready = FALSE]
    /\ Goto(i, "provision")
    /\ UNCHANGED <<tenant, people, directory, cache>>

(* PUT /:id/subscription: the plan is mirrored only into a database that   *)
(* was provisioned when the society was read.                              *)
Plan(i, s, t) ==
    /\ soc[s].there
    /\ Starts(i, [Idle EXCEPT !.pc = "plan", !.op = "plan", !.s = s, !.tier = t, !.ready = soc[s].ready])

SavePlan(i) ==
    /\ At(i, "plan")
    /\ soc' = [soc EXCEPT ![h[i].s].tier = h[i].tier]
    /\ IF h[i].ready THEN Goto(i, "mirror") ELSE Finish(i)
    /\ UNCHANGED <<tenant, people, directory, cache>>

SyncMirror(i) ==
    /\ At(i, "mirror")
    /\ mirror' = [mirror EXCEPT ![h[i].s] = h[i].tier]
    /\ muddled' = [muddled EXCEPT ![h[i].s] = @ /\ ~h[i].alone]
    /\ Finish(i)
    /\ UNCHANGED <<soc, seeded, provisioning, people, directory, cache>>

-----------------------------------------------------------------------------
(* A sign-in resolves who it is through the directory and lists the        *)
(* account it then read; its sessions are SignIn's.                        *)
Open(s) == soc[s].there /\ soc[s].status \in {"ACTIVE", "ONBOARDING"}

Login(i, s, p, e) ==
    LET r == RowFor(p, e)
    IN /\ p = "none" <=> e # "none"
       /\ r # 0 /\ directory[r].members[s].active /\ Open(s)
       /\ Starts(i, [Idle EXCEPT !.pc = "signIn", !.s = s, !.u = directory[r].members[s].user])

SignedIn(i) ==
    /\ At(i, "signIn")
    /\ LET user == users[h[i].u]
       IN IF user.status # "ACTIVE" \/ h[i].u \notin Listed(h[i].s) THEN Finish(i)
          ELSE h' = [h EXCEPT ![i].pc = "find", ![i].u = 0,
                              ![i].todo = <<[phone |-> user.phone, email |-> user.email,
                                             user |-> h[i].u, active |-> TRUE]>>]
    /\ UNCHANGED <<soc, tenant, people, directory, cache>>

(* provisionStaffLogin: the account the staff member has is restored, with *)
(* the roles of staff only, or one is made for the phone number.           *)
StaffLogin(i, s, p) ==
    /\ soc[s].there
    /\ staff[s] # 0 => users[staff[s]].phone = p
    /\ Starts(i, [Idle EXCEPT !.pc = "staff", !.s = s, !.phone = p, !.u = staff[s]])

SaveStaff(i) ==
    /\ At(i, "staff")
    /\ LET s == h[i].s  p == h[i].phone
       IN \/ /\ h[i].u # 0
             /\ users' = [users EXCEPT ![h[i].u].status = "ACTIVE", ![h[i].u].admin = FALSE]
             /\ Goto(i, "staffLink")
          \/ /\ h[i].u = 0 /\ Clash(s, p, "none")
             /\ Finish(i) /\ UNCHANGED users
          \/ /\ h[i].u = 0 /\ ~Clash(s, p, "none")
             /\ Len(users) < MaxUsers
             /\ users' = Append(users, [s |-> s, phone |-> p, email |-> "none", admin |-> FALSE,
                                        status |-> "ACTIVE"])
             /\ h' = [h EXCEPT ![i].pc = "staffLink", ![i].u = Len(users) + 1]
    /\ UNCHANGED <<soc, tenant, staff, directory, cache>>

ListStaff(i, active) ==
    h' = [h EXCEPT ![i].pc = "find", ![i].u = 0, ![i].phone = "none",
                   ![i].todo = <<[phone |-> h[i].phone, email |-> "none", user |-> h[i].u,
                                  active |-> active]>>]

LinkStaff(i) ==
    /\ At(i, "staffLink")
    /\ staff' = [staff EXCEPT ![h[i].s] = h[i].u]
    /\ ListStaff(i, TRUE)
    /\ UNCHANGED <<soc, tenant, users, directory, cache>>

RevokeStaff(i, s) ==
    /\ soc[s].there
    /\ staff[s] # 0
    /\ Starts(i, [Idle EXCEPT !.pc = "revoke", !.s = s, !.u = staff[s], !.phone = users[staff[s]].phone])

Revoke(i) ==
    /\ At(i, "revoke")
    /\ users' = [users EXCEPT ![h[i].u].status = "INACTIVE"]
    /\ ListStaff(i, FALSE)
    /\ UNCHANGED <<soc, tenant, staff, directory, cache>>

(* updateOwnProfile: the email one gives up stays in the directory.        *)
Profile(i, s, u, e) ==
    /\ soc[s].there
    /\ users[u].status = "ACTIVE"
    /\ Starts(i, [Idle EXCEPT !.pc = "profile", !.s = s, !.u = u, !.email = e])

SaveProfile(i) ==
    /\ At(i, "profile")
    /\ LET u == h[i].u  e == h[i].email
       IN IF \E v \in UsersOf(h[i].s) \ {u} : e # "none" /\ users[v].email = e
          THEN Finish(i) /\ UNCHANGED users
          ELSE /\ users' = [users EXCEPT ![u].email = e]
               /\ IF e = "none" THEN Finish(i)
                  ELSE h' = [h EXCEPT ![i].pc = "find", ![i].u = 0, ![i].email = "none", ![i].back = "drop",
                                      ![i].todo = <<[phone |-> users[u].phone, email |-> e, user |-> u,
                                                     active |-> TRUE]>>]
    /\ UNCHANGED <<soc, tenant, staff, directory, cache>>

-----------------------------------------------------------------------------
(* authenticate: a request that finds the society neither cached nor being *)
(* loaded loads it.  Every other request only reads.                       *)
Visit(i, s) ==
    /\ soc[s].there
    /\ cached[s] = "none" /\ loading[s] = "none"
    /\ Begin(i, [Idle EXCEPT !.pc = "load", !.s = s])
    /\ loading' = [loading EXCEPT ![s] = i]

Load(i) ==
    /\ At(i, "load")
    /\ h' = [h EXCEPT ![i].pc = "fill", ![i].status = soc[h[i].s].status]
    /\ UNCHANGED <<soc, tenant, people, directory, cache>>

Fill(i) ==
    /\ At(i, "fill")
    /\ cached' = [cached EXCEPT ![h[i].s] = h[i].status]
    /\ late' = [late EXCEPT ![h[i].s] = h[i].crossed]
    /\ loading' = [loading EXCEPT ![h[i].s] = "none"]
    /\ Finish(i)
    /\ UNCHANGED <<soc, tenant, people, directory>>

Expire(s) ==
    /\ cached[s] # "none"
    /\ Invalidate(s)
    /\ UNCHANGED <<soc, tenant, people, directory, loading, h, started, died>>

-----------------------------------------------------------------------------
Request(i) ==
    \/ \E n \in Names, t \in FirstTiers, who \in FirstAdmins : Create(i, n, t, who[1], who[2])
    \/ \E s \in Socs :
         \/ \E p \in Phones \cup {"none"}, e \in Emails \cup {"none"} :
              Admin(i, s, p, e) \/ Invite(i, s, p, e) \/ Login(i, s, p, e)
         \/ Structure(i, s) \/ Rebuild(i, s) \/ Reprovision(i, s) \/ RevokeStaff(i, s) \/ Visit(i, s)
         \/ \E wizard \in BOOLEAN : Activate(i, s, wizard)
         \/ \E status \in NewStatuses : SetStatus(i, s, status)
         \/ \E t \in Tiers : Plan(i, s, t)
         \/ \E p \in Phones : StaffLogin(i, s, p)
         \/ \E u \in UsersOf(s), e \in Emails \cup {"none"} : Profile(i, s, u, e)

Advance(i) ==
    \/ UniqueSlug(i) \/ Found(i) \/ Provision(i) \/ ResolveEntitlements(i) \/ Seed(i) \/ Provisioned(i)
    \/ Build(i) \/ FindAdmin(i) \/ SaveAdmin(i) \/ FindEntry(i) \/ PutEntry(i) \/ ReadUsers(i) \/ Clear(i)
    \/ Count(i) \/ GoLive(i) \/ Wake(i) \/ WriteStatus(i) \/ Drop(i) \/ Reset(i) \/ SavePlan(i)
    \/ SyncMirror(i) \/ SignedIn(i) \/ SaveStaff(i) \/ LinkStaff(i) \/ Revoke(i) \/ SaveProfile(i)
    \/ Load(i) \/ Fill(i)

Next == (\E i \in Handlers : Request(i) \/ Advance(i) \/ Abort(i)) \/ (\E s \in Socs : Expire(s))

Spec == Init /\ [][Next]_vars

-----------------------------------------------------------------------------
(* PROPERTIES                                                              *)

(* Suspending a society bites on the next request (societiesService.ts     *)
(* 540-545, 501-502): what requests are judged by is the status the        *)
(* society has, except between the write and the invalidation after it,    *)
(* when the writer died between the two, or when a load that was in flight *)
(* at the invalidation has filled the cache since.                         *)
CacheIsCurrent ==
    \A s \in Socs :
       \/ cached[s] \in {"none", soc[s].status}
       \/ late[s]
       \/ \E i \in Handlers : h[i].s = s /\ h[i].pc \in {"wake", "drop"}

(* The plan a society's requests are judged by is the one it has           *)
(* (manager.ts 186-194, societiesRouter.ts 494-500), through a creation    *)
(* that died half way, plans bought before there was a database, and       *)
(* seeding it again; the exceptions are a change of plan that died or      *)
(* crossed another or a provisioning, until one goes through alone.        *)
EntitlementsFollow ==
    \A s \in Socs :
       \/ ~soc[s].ready \/ muddled[s]
       \/ \E i \in Handlers : h[i].op = "plan" /\ h[i].s = s
       \/ mirror[s] = soc[s].tier

(* A rebuild, and so an activation, that no other request crossed leaves   *)
(* every account of the society listed as what it is, whatever was left    *)
(* behind by requests that crossed or died before (identityDirectory.ts    *)
(* 140-168, societiesService.ts 504-509), and an activation leaves no      *)
(* administrator waiting.  The exceptions: two accounts of one society     *)
(* that resolve to the same entry, and an account with an email only whose *)
(* entry, found by the phone number of another, was given that one's email *)
(* after it.                                                               *)
RowOf(u) == RowFor(users[u].phone, users[u].email)

ListedAsIs(s, u) ==
    /\ RowOf(u) # 0
    /\ \/ \E v \in Listed(s) \ {u} : RowOf(v) = RowOf(u)
       \/ directory[RowOf(u)].members[s] = [user |-> u, active |-> users[u].status = "ACTIVE"]

Displaced(s, u) ==
    /\ users[u].phone = "none"
    /\ \E v \in Listed(s) \ {u} : users[v].phone # "none" /\ users[v].email # "none"

RebuildAgrees ==
    [][\A i \in Handlers :
         h[i].pc = "clear" /\ h'[i].pc = "idle" /\ died' = died /\ h[i].alone =>
            /\ \A u \in Listed(h[i].s) : ListedAsIs(h[i].s, u) \/ Displaced(h[i].s, u)
            /\ \A u \in UsersOf(h[i].s) :
                  h[i].op = "activate" /\ users[u].admin => users[u].status # "PENDING"]_vars

(* Every society lives in its own database (societiesService.ts 26).       *)
OwnDatabase ==
    \A s, t \in Socs : s # t /\ soc[s].ready /\ soc[t].ready => DatabaseName(s) # DatabaseName(t)
=============================================================================
