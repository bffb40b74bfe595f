--------------------------- MODULE SocietiesProofs --------------------------
(***************************************************************************)
(* Proofs about Societies, for any number of societies, accounts and       *)
(* requests: the status that requests are judged by is the one the society *)
(* has, the plan is the one it has bought, and a rebuild that nothing      *)
(* crosses leaves every account listed as what it is, but for the          *)
(* exceptions CacheIsCurrent, EntitlementsFollow and RebuildAgrees name.   *)
(*                                                                         *)
(* The first invariant speaks of four fields of what a request holds and   *)
(* of two of a society; of the others only that they are there.  The       *)
(* second adds the plans, and the third the accounts, the directory and    *)
(* the types of everything.                                                *)
(***************************************************************************)
EXTENDS Societies, FiniteSetTheorems, WellFoundedInduction, TLAPS

Fields == {"pc", "op", "s", "back", "name", "k", "tier", "phone", "email", "live", "u", "todo",
           "row", "members", "status", "ready", "crossed", "alone"}
Columns == {"there", "name", "k", "status", "ready", "tier", "units"}
Backs == {"done", "admin", "structure", "count", "clear", "drop"}

Shaped ==
    /\ DOMAIN h = Handlers
    /\ \A i \in Handlers : /\ DOMAIN h[i] = Fields
                           /\ h[i].back \in Backs
                           /\ h[i].crossed \in BOOLEAN
                           /\ InFlight(i) => h[i].s \in Socs
    /\ DOMAIN soc = Socs
    /\ \A s \in Socs : DOMAIN soc[s] = Columns
    /\ DOMAIN cached = Socs
    /\ late \in [Socs -> BOOLEAN]

(* A society that is being founded is nobody else's business yet, and has  *)
(* the status it will be founded with; any other request is about one that *)
(* has been founded.                                                       *)
Early(step) == step \in {"slug", "found"}

Founding ==
    /\ \A i \in Handlers : Early(h[i].pc) =>
          \A j \in Handlers \ {i} : InFlight(j) => h[j].s # h[i].s
    /\ \A i \in Handlers : InFlight(i) => (soc[h[i].s].there <=> ~Early(h[i].pc))
    /\ \A s \in Socs : ~soc[s].there => soc[s].status = "ONBOARDING"

(* Somebody has written the status and will empty the cache.               *)
Writer(s) == \E i \in Handlers : h[i].s = s /\ h[i].pc \in {"wake", "drop"}

(* What a load that nothing crossed is about to cache.                     *)
LoadsCurrent ==
    \A i \in Handlers : h[i].pc = "fill" /\ ~h[i].crossed =>
       h[i].status = soc[h[i].s].status \/ Writer(h[i].s)

IInv ==
    /\ Shaped
    /\ Founding
    /\ LoadsCurrent
    /\ CacheIsCurrent

-----------------------------------------------------------------------------
(* A step that writes no status, empties no cache and ends no load: every  *)
(* request goes on with its society, and so do those about to empty it.    *)
Steady ==
    /\ DOMAIN soc' = Socs
    /\ \A s \in Socs : /\ DOMAIN soc'[s] = Columns
                       /\ soc'[s].there = soc[s].there
                       /\ soc'[s].status = soc[s].status

LEMMA QuietKeeps ==
    ASSUME IInv, UNCHANGED <<cached, late>>,
           Steady,
           DOMAIN h' = Handlers,
           \A j \in Handlers :
              /\ DOMAIN h'[j] = Fields
              /\ h'[j].back \in Backs
              /\ h'[j].crossed \in BOOLEAN
              /\ h'[j].pc # "idle" => h[j].pc # "idle" /\ h'[j].s = h[j].s
              /\ h'[j].pc # "idle" => (Early(h'[j].pc) <=> Early(h[j].pc))
              /\ h'[j].pc = "fill" => /\ h[j].pc = "fill" /\ h'[j].status = h[j].status
                                      /\ h[j].crossed => h'[j].crossed
              /\ h[j].pc \in {"wake", "drop"} => h'[j].pc = h[j].pc
    PROVE  IInv'
<1> USE DEF Steady
<1>1. Shaped'
    BY DEF IInv, Shaped, InFlight
<1>2. \A s \in Socs : Writer(s) => Writer(s)'
    BY DEF Writer, IInv, Shaped, InFlight
<1>3. Founding'
  <2>1. ASSUME NEW i \in Handlers, h'[i].pc # "idle"
        PROVE  /\ h[i].pc # "idle" /\ h'[i].s = h[i].s /\ h[i].s \in Socs
               /\ Early(h'[i].pc) <=> Early(h[i].pc)
      BY <2>1 DEF IInv, Shaped, InFlight
  <2>2. ASSUME NEW i \in Handlers, Early(h'[i].pc), NEW j \in Handlers \ {i}, h'[j].pc # "idle"
        PROVE  h'[j].s # h'[i].s
    <3>1. h'[i].pc # "idle"
        BY <2>2 DEF Early
    <3> QED
        BY <2>1, <2>2, <3>1 DEF IInv, Founding, InFlight
  <2>3. ASSUME NEW i \in Handlers, h'[i].pc # "idle"
        PROVE  soc'[h'[i].s].there <=> ~Early(h'[i].pc)
      BY <2>1, <2>3 DEF IInv, Founding, InFlight
  <2>4. \A s \in Socs : ~soc'[s].there => soc'[s].status = "ONBOARDING"
      BY DEF IInv, Founding
  <2> QED
      BY <2>2, <2>3, <2>4 DEF Founding, InFlight, Early
<1>4. LoadsCurrent'
  <2> SUFFICES ASSUME NEW i \in Handlers, h'[i].pc = "fill", h'[i].crossed = FALSE
               PROVE  \/ h'[i].status = soc'[h'[i].s].status
                      \/ \E k \in Handlers : h'[k].s = h'[i].s /\ h'[k].pc \in {"wake", "drop"}
    <3>1. \A i \in Handlers : h'[i].crossed \in BOOLEAN
        OBVIOUS
    <3> QED
        BY <3>1 DEF LoadsCurrent, Writer
  <2>1. h[i].pc = "fill" /\ h'[i].s = h[i].s /\ h[i].s \in Socs
      BY DEF IInv, Shaped, InFlight
  <2>2. h[i].crossed = FALSE /\ h'[i].status = h[i].status
      BY <2>1 DEF IInv, Shaped
  <2>3. h[i].status = soc[h[i].s].status \/ Writer(h[i].s)
      BY <2>1, <2>2 DEF IInv, LoadsCurrent
  <2>4. CASE Writer(h[i].s)
      BY <2>1, <2>4 DEF Writer, IInv, Shaped, InFlight
  <2> QED
      BY <2>1, <2>2, <2>3, <2>4
<1>5. CacheIsCurrent'
  <2> SUFFICES ASSUME NEW s \in Socs
               PROVE  cached'[s] \in {"none", soc'[s].status} \/ late'[s] \/ Writer(s)'
      BY DEF CacheIsCurrent, Writer
  <2>1. cached[s] \in {"none", soc[s].status} \/ late[s] \/ Writer(s)
      BY DEF IInv, CacheIsCurrent, Writer
  <2> QED
      BY <2>1, <1>2
<1> QED
    BY <1>1, <1>3, <1>4, <1>5 DEF IInv

(* Most steps: one request goes on, to nothing the invariant speaks of.    *)
LEMMA LocalKeeps ==
    ASSUME IInv, UNCHANGED <<cached, late>>, NEW i \in Handlers, NEW local,
           Steady,
           h[i].pc \notin {"idle", "wake", "drop"},
           h' = [h EXCEPT ![i] = local],
           DOMAIN local = Fields, local.back \in Backs, local.crossed \in BOOLEAN,
           local.pc = "idle" \/ local.s = h[i].s,
           local.pc # "fill",
           local.pc = "idle" \/ (Early(local.pc) <=> Early(h[i].pc))
    PROVE  IInv'
<1>1. DOMAIN h' = Handlers /\ h'[i] = local /\ \A j \in Handlers \ {i} : h'[j] = h[j]
    BY DEF IInv, Shaped
<1>2. \A j \in Handlers : /\ DOMAIN h[j] = Fields
                          /\ h[j].back \in Backs
                          /\ h[j].crossed \in BOOLEAN
    BY DEF IInv, Shaped
<1> QED
    BY <1>1, <1>2, QuietKeeps

LEMMA IdleShape ==
    /\ DOMAIN Idle = Fields /\ Idle.back = "done" /\ Idle.crossed = FALSE /\ Idle.pc = "idle"
    BY DEF Idle, Fields

(* The other columns of a society are nothing to the invariant.            *)
LEMMA SocSteady ==
    ASSUME IInv, NEW s \in Socs, NEW v,
           \/ UNCHANGED soc
           \/ soc' = [soc EXCEPT ![s].ready = v]
           \/ soc' = [soc EXCEPT ![s].units = v]
           \/ soc' = [soc EXCEPT ![s].tier = v]
    PROVE  Steady
    BY DEF IInv, Shaped, Columns, Steady

LEMMA FinishKeeps ==
    ASSUME IInv, NEW i \in Handlers, Finish(i), UNCHANGED <<cached, late>>, Steady,
           h[i].pc \notin {"idle", "wake", "drop"}
    PROVE  IInv'
    BY IdleShape, LocalKeeps DEF Finish, Backs

LEMMA GotoKeeps ==
    ASSUME IInv, NEW i \in Handlers, NEW step, Goto(i, step), UNCHANGED <<cached, late>>, Steady,
           h[i].pc \notin {"idle", "wake", "drop"},
           step # "fill", step = "idle" \/ (Early(step) <=> Early(h[i].pc))
    PROVE  IInv'
<1>2. PICK local : local = [h[i] EXCEPT !.pc = step]
    OBVIOUS
<1>3. /\ DOMAIN h[i] = Fields /\ h[i].back \in Backs /\ h[i].crossed \in BOOLEAN
      /\ DOMAIN h = Handlers
    BY DEF IInv, Shaped
<1>4. /\ DOMAIN local = Fields /\ local.pc = step /\ local.back = h[i].back
      /\ local.crossed = h[i].crossed /\ local.s = h[i].s
    BY <1>2, <1>3 DEF Fields
<1>5. h' = [h EXCEPT ![i] = local]
    BY <1>2, <1>3 DEF Goto
<1> QED
    BY <1>3, <1>4, <1>5, LocalKeeps

-----------------------------------------------------------------------------
(* A request begins: a creation with a society nobody has founded or       *)
(* speaks of, any other one with a society that is there.                  *)
LEMMA BeginKeeps ==
    ASSUME IInv, NEW i \in Handlers, NEW local, Begin(i, local),
           DOMAIN local = Fields, local.back \in Backs, local.crossed = FALSE, local.s \in Socs,
           local.pc \notin {"idle", "fill", "wake", "drop"},
           \/ /\ Early(local.pc) /\ ~soc[local.s].there
              /\ \A j \in Handlers : InFlight(j) => h[j].s # local.s
           \/ ~Early(local.pc) /\ soc[local.s].there
    PROVE  IInv'
<1>1. h[i].pc = "idle" /\ soc' = soc /\ cached' = cached /\ late' = late
    BY DEF Begin, InFlight
<1>2. PICK mine : mine = [local EXCEPT !.alone = Undisturbed(i)]
    OBVIOUS
<1>3. /\ DOMAIN mine = Fields /\ mine.pc = local.pc /\ mine.s = local.s
      /\ mine.back = local.back /\ mine.crossed = FALSE
    BY <1>2 DEF Fields
<1>4. DOMAIN h' = Handlers /\ h'[i] = mine
    BY <1>2 DEF Begin
<1>5. ASSUME NEW j \in Handlers \ {i}
      PROVE  /\ DOMAIN h'[j] = Fields /\ h'[j].pc = h[j].pc /\ h'[j].s = h[j].s
             /\ h'[j].back = h[j].back /\ h'[j].crossed = h[j].crossed
             /\ h'[j].status = h[j].status
  <2>1. h'[j] = IF InFlight(j) THEN [h[j] EXCEPT !.alone = FALSE] ELSE h[j]
      BY DEF Begin
  <2>2. DOMAIN h[j] = Fields
      BY DEF IInv, Shaped
  <2> QED
      BY <2>1, <2>2 DEF Fields
<1>6. Shaped'
    BY <1>1, <1>3, <1>4, <1>5 DEF IInv, Shaped, InFlight
<1>7. Founding'
  <2>1. ASSUME NEW k \in Handlers, Early(h'[k].pc), NEW j \in Handlers \ {k}, h'[j].pc # "idle"
        PROVE  h'[j].s # h'[k].s
    <3>1. CASE k = i
        BY <1>3, <1>4, <1>5, <2>1, <3>1 DEF InFlight
    <3>2. CASE k # i
      <4>1. Early(h[k].pc) /\ h'[k].s = h[k].s /\ h[k].pc # "idle"
          BY <1>5, <2>1, <3>2 DEF Early
      <4>2. ~soc[h[k].s].there
          BY <4>1 DEF IInv, Founding, InFlight
      <4>3. CASE j = i
          BY <1>3, <1>4, <4>1, <4>2, <4>3 DEF InFlight
      <4>4. CASE j # i
          BY <1>5, <2>1, <4>1, <4>4 DEF IInv, Founding, InFlight
      <4> QED
          BY <4>3, <4>4
    <3> QED
        BY <3>1, <3>2
  <2>2. ASSUME NEW k \in Handlers, h'[k].pc # "idle"
        PROVE  soc[h'[k].s].there <=> ~Early(h'[k].pc)
    <3>1. CASE k = i
        BY <1>3, <1>4, <3>1
    <3>2. CASE k # i
        BY <1>5, <2>2, <3>2 DEF IInv, Founding, InFlight
    <3> QED
        BY <3>1, <3>2
  <2> QED
      BY <1>1, <2>1, <2>2 DEF IInv, Founding, InFlight, Early
<1>8. \A s \in Socs : Writer(s) => \E k \in Handlers : h'[k].s = s /\ h'[k].pc \in {"wake", "drop"}
    BY <1>1, <1>5 DEF Writer
<1>9. LoadsCurrent'
  <2> SUFFICES ASSUME NEW k \in Handlers, h'[k].pc = "fill", h'[k].crossed = FALSE
               PROVE  \/ h'[k].status = soc'[h'[k].s].status
                      \/ \E j \in Handlers : h'[j].s = h'[k].s /\ h'[j].pc \in {"wake", "drop"}
    <3>1. \A k \in Handlers : h'[k].crossed \in BOOLEAN
        BY <1>6 DEF Shaped
    <3> QED
        BY <3>1 DEF LoadsCurrent, Writer
  <2>1. k # i
      BY <1>3, <1>4
  <2>2. h[k].pc = "fill" /\ h[k].crossed = FALSE /\ h'[k].s = h[k].s /\ h'[k].status = h[k].status
      BY <1>5, <2>1
  <2>3. h[k].s \in Socs
      BY <2>2 DEF IInv, Shaped, InFlight
  <2>4. h[k].status = soc[h[k].s].status \/ Writer(h[k].s)
      BY <2>2 DEF IInv, LoadsCurrent
  <2> QED
      BY <1>1, <1>8, <2>2, <2>3, <2>4
<1>10. CacheIsCurrent'
  <2> SUFFICES ASSUME NEW s \in Socs
               PROVE  \/ cached'[s] \in {"none", soc'[s].status} \/ late'[s]
                      \/ \E k \in Handlers : h'[k].s = s /\ h'[k].pc \in {"wake", "drop"}
      BY DEF CacheIsCurrent
  <2>1. cached[s] \in {"none", soc[s].status} \/ late[s] \/ Writer(s)
      BY DEF IInv, CacheIsCurrent, Writer
  <2> QED
      BY <1>1, <1>8, <2>1
<1> QED
    BY <1>6, <1>7, <1>9, <1>10 DEF IInv

(* The same for a request that is put together from Idle.                  *)
LEMMA StartsKeeps ==
    ASSUME IInv, NEW i \in Handlers, NEW local, Starts(i, local),
           DOMAIN local = Fields, local.back \in Backs, local.crossed = FALSE, local.s \in Socs,
           local.pc \notin {"idle", "fill", "wake", "drop", "slug", "found"},
           soc[local.s].there
    PROVE  IInv'
    BY BeginKeeps DEF Starts, Early

LEMMA ProvisioningKeeps ==
    ASSUME IInv, NEW i \in Handlers, NEW s \in Socs, NEW step \in {"structure", "admin", "count"},
           NEW local, DOMAIN local = Fields, local.crossed = FALSE,
           Starts(i, Provisioning(s, step, local)), soc[s].there
    PROVE  IInv'
<1> DEFINE l == Provisioning(s, step, local)
<1>1. /\ DOMAIN l = Fields /\ l.back = step /\ l.crossed = FALSE /\ l.s = s
      /\ l.pc \in {step, "provision"}
    BY DEF Provisioning, Fields
<1> HIDE DEF l
<1>2. Starts(i, l)
    BY DEF l
<1> QED
    BY <1>1, <1>2, StartsKeeps DEF Backs

LEMMA RequestKeeps == ASSUME IInv, NEW i \in Handlers, Request(i) PROVE IInv'
<1>1. ASSUME NEW n, NEW t, NEW p, NEW e, Create(i, n, t, p, e) PROVE IInv'
  <2>1. PICK s \in Unused : s = Some(Unused)
      BY <1>1 DEF Create, Some
  <2>2. s \in Socs /\ ~soc[s].there /\ \A j \in Handlers : InFlight(j) => h[j].s # s
      BY <2>1 DEF Unused
  <2> DEFINE l == [Idle EXCEPT !.pc = "slug", !.s = s, !.name = n, !.tier = t,
                     !.phone = p, !.email = e,
                     !.back = IF p = "none" /\ e = "none" THEN "done" ELSE "admin"]
  <2>3. /\ DOMAIN l = Fields /\ l.back \in Backs /\ l.crossed = FALSE /\ l.s = s
        /\ l.pc = "slug"
      BY IdleShape DEF Fields, Backs
  <2>4. Begin(i, l)
      BY <1>1, <2>1 DEF Create, Starts
  <2> HIDE DEF l
  <2> QED
      BY <2>2, <2>3, <2>4, BeginKeeps DEF Early
<1>2. ASSUME NEW s \in Socs, NEW p, NEW e, Admin(i, s, p, e) PROVE IInv'
  <2> DEFINE l == [Idle EXCEPT !.phone = p, !.email = e, !.live = soc[s].status = "ACTIVE"]
  <2>1. DOMAIN l = Fields /\ l.crossed = FALSE
      BY IdleShape DEF Fields
  <2>2. Starts(i, Provisioning(s, "admin", l)) /\ soc[s].there
      BY <1>2 DEF Admin
  <2> HIDE DEF l
  <2> QED
      BY <2>1, <2>2, ProvisioningKeeps
<1>3. ASSUME NEW s \in Socs, NEW p, NEW e, Invite(i, s, p, e) PROVE IInv'
  <2> DEFINE l == [Idle EXCEPT !.pc = "admin", !.s = s, !.phone = p, !.email = e,
                     !.live = soc[s].status = "ACTIVE"]
  <2>1. DOMAIN l = Fields /\ l.back \in Backs /\ l.crossed = FALSE /\ l.s = s /\ l.pc = "admin"
      BY IdleShape DEF Fields, Backs
  <2>2. Starts(i, l) /\ soc[s].there
      BY <1>3 DEF Invite
  <2> HIDE DEF l
  <2> QED
      BY <2>1, <2>2, StartsKeeps
<1>4. ASSUME NEW s \in Socs, NEW p, NEW e, Login(i, s, p, e) PROVE IInv'
  <2>1. PICK u : /\ Starts(i, [Idle EXCEPT !.pc = "signIn", !.s = s, !.u = u])
                 /\ soc[s].there
      BY <1>4 DEF Login, Open
  <2> DEFINE l == [Idle EXCEPT !.pc = "signIn", !.s = s, !.u = u]
  <2>2. DOMAIN l = Fields /\ l.back \in Backs /\ l.crossed = FALSE /\ l.s = s /\ l.pc = "signIn"
      BY IdleShape DEF Fields, Backs
  <2> HIDE DEF l
  <2>3. Starts(i, l)
      BY <2>1 DEF l
  <2> QED
      BY <2>1, <2>2, <2>3, StartsKeeps
<1>5. ASSUME NEW s \in Socs, Structure(i, s) PROVE IInv'
    BY <1>5, IdleShape, ProvisioningKeeps DEF Structure
<1>6. ASSUME NEW s \in Socs, Rebuild(i, s) PROVE IInv'
  <2> DEFINE l == [Idle EXCEPT !.pc = "rebuild", !.s = s, !.back = "clear"]
  <2>1. DOMAIN l = Fields /\ l.back \in Backs /\ l.crossed = FALSE /\ l.s = s /\ l.pc = "rebuild"
      BY IdleShape DEF Fields, Backs
  <2>2. Starts(i, l) /\ soc[s].there
      BY <1>6 DEF Rebuild
  <2> HIDE DEF l
  <2> QED
      BY <2>1, <2>2, StartsKeeps
<1>7. ASSUME NEW s \in Socs, Reprovision(i, s) PROVE IInv'
  <2> DEFINE l == [Idle EXCEPT !.pc = "reset", !.s = s]
  <2>1. DOMAIN l = Fields /\ l.back \in Backs /\ l.crossed = FALSE /\ l.s = s /\ l.pc = "reset"
      BY IdleShape DEF Fields, Backs
  <2>2. Starts(i, l) /\ soc[s].there
      BY <1>7 DEF Reprovision
  <2> HIDE DEF l
  <2> QED
      BY <2>1, <2>2, StartsKeeps
<1>8. ASSUME NEW s \in Socs, RevokeStaff(i, s) PROVE IInv'
  <2> DEFINE l == [Idle EXCEPT !.pc = "revoke", !.s = s, !.u = staff[s],
                     !.phone = users[staff[s]].phone]
  <2>1. DOMAIN l = Fields /\ l.back \in Backs /\ l.crossed = FALSE /\ l.s = s /\ l.pc = "revoke"
      BY IdleShape DEF Fields, Backs
  <2>2. Starts(i, l) /\ soc[s].there
      BY <1>8 DEF RevokeStaff
  <2> HIDE DEF l
  <2> QED
      BY <2>1, <2>2, StartsKeeps
<1>9. ASSUME NEW s \in Socs, Visit(i, s) PROVE IInv'
  <2> DEFINE l == [Idle EXCEPT !.pc = "load", !.s = s]
  <2>1. DOMAIN l = Fields /\ l.back \in Backs /\ l.crossed = FALSE /\ l.s = s /\ l.pc = "load"
      BY IdleShape DEF Fields, Backs
  <2>2. Begin(i, l) /\ soc[s].there
      BY <1>9 DEF Visit
  <2> HIDE DEF l
  <2> QED
      BY <2>1, <2>2, BeginKeeps DEF Early
<1>10. ASSUME NEW s \in Socs, NEW wizard, Activate(i, s, wizard) PROVE IInv'
  <2> DEFINE l == [Idle EXCEPT !.op = "activate"]
  <2>1. DOMAIN l = Fields /\ l.crossed = FALSE
      BY IdleShape DEF Fields
  <2>2. Starts(i, Provisioning(s, "count", l)) /\ soc[s].there
      BY <1>10 DEF Activate
  <2> HIDE DEF l
  <2> QED
      BY <2>1, <2>2, ProvisioningKeeps
<1>11. ASSUME NEW s \in Socs, NEW status, SetStatus(i, s, status) PROVE IInv'
  <2> DEFINE l == [Idle EXCEPT !.pc = "status", !.s = s, !.status = status]
  <2>1. DOMAIN l = Fields /\ l.back \in Backs /\ l.crossed = FALSE /\ l.s = s /\ l.pc = "status"
      BY IdleShape DEF Fields, Backs
  <2>2. Starts(i, l) /\ soc[s].there
      BY <1>11 DEF SetStatus
  <2> HIDE DEF l
  <2> QED
      BY <2>1, <2>2, StartsKeeps
<1>12. ASSUME NEW s \in Socs, NEW t, Plan(i, s, t) PROVE IInv'
  <2> DEFINE l == [Idle EXCEPT !.pc = "plan", !.op = "plan", !.s = s, !.tier = t,
                     !.ready = soc[s].ready]
  <2>1. DOMAIN l = Fields /\ l.back \in Backs /\ l.crossed = FALSE /\ l.s = s /\ l.pc = "plan"
      BY IdleShape DEF Fields, Backs
  <2>2. Starts(i, l) /\ soc[s].there
      BY <1>12 DEF Plan
  <2> HIDE DEF l
  <2> QED
      BY <2>1, <2>2, StartsKeeps
<1>13. ASSUME NEW s \in Socs, NEW p, StaffLogin(i, s, p) PROVE IInv'
  <2> DEFINE l == [Idle EXCEPT !.pc = "staff", !.s = s, !.phone = p, !.u = staff[s]]
  <2>1. DOMAIN l = Fields /\ l.back \in Backs /\ l.crossed = FALSE /\ l.s = s /\ l.pc = "staff"
      BY IdleShape DEF Fields, Backs
  <2>2. Starts(i, l) /\ soc[s].there
      BY <1>13 DEF StaffLogin
  <2> HIDE DEF l
  <2> QED
      BY <2>1, <2>2, StartsKeeps
<1>14. ASSUME NEW s \in Socs, NEW u, NEW e, Profile(i, s, u, e) PROVE IInv'
  <2> DEFINE l == [Idle EXCEPT !.pc = "profile", !.s = s, !.u = u, !.email = e]
  <2>1. DOMAIN l = Fields /\ l.back \in Backs /\ l.crossed = FALSE /\ l.s = s /\ l.pc = "profile"
      BY IdleShape DEF Fields, Backs
  <2>2. Starts(i, l) /\ soc[s].there
      BY <1>14 DEF Profile
  <2> HIDE DEF l
  <2> QED
      BY <2>1, <2>2, StartsKeeps
<1> QED
    BY <1>1, <1>2, <1>3, <1>4, <1>5, <1>6, <1>7, <1>8, <1>9, <1>10, <1>11, <1>12, <1>13, <1>14
    DEF Request

-----------------------------------------------------------------------------
(* The steps that write no status and leave the cache alone.               *)

Quiet(i) ==
    \/ UniqueSlug(i) \/ Provision(i) \/ ResolveEntitlements(i) \/ Seed(i) \/ Provisioned(i)
    \/ Build(i) \/ FindAdmin(i) \/ SaveAdmin(i) \/ FindEntry(i) \/ PutEntry(i) \/ ReadUsers(i)
    \/ Count(i) \/ Reset(i) \/ SavePlan(i) \/ SyncMirror(i) \/ SignedIn(i) \/ SaveStaff(i)
    \/ LinkStaff(i) \/ Revoke(i) \/ SaveProfile(i)

(* One field after another is set of what a request holds.                 *)
LEMMA SetKeeps ==
    ASSUME IInv, NEW i \in Handlers, NEW local, h' = [h EXCEPT ![i] = local],
           UNCHANGED <<cached, late>>, Steady,
           h[i].pc \notin {"idle", "wake", "drop"}, ~Early(h[i].pc),
           DOMAIN local = DOMAIN h[i], local.s = h[i].s, local.crossed = h[i].crossed,
           local.back \in Backs, local.pc # "fill", ~Early(local.pc)
    PROVE  IInv'
<1>1. DOMAIN h[i] = Fields /\ h[i].crossed \in BOOLEAN
    BY DEF IInv, Shaped
<1> QED
    BY <1>1, LocalKeeps

LEMMA QuietStepsKeep == ASSUME IInv, NEW i \in Handlers, Quiet(i) PROVE IInv'
<1> USE DEF Early
<1>0. /\ DOMAIN h = Handlers
      /\ DOMAIN h[i] = Fields /\ h[i].back \in Backs /\ h[i].crossed \in BOOLEAN
      /\ UNCHANGED soc => Steady
    BY DEF IInv, Shaped, Steady
<1>1. CASE UniqueSlug(i)
  <2>1. PICK k : h' = [h EXCEPT ![i].pc = "found", ![i].k = k]
      BY <1>1 DEF UniqueSlug
  <2>2. PICK l : l = [h[i] EXCEPT !.pc = "found", !.k = k]
      OBVIOUS
  <2>3. /\ DOMAIN l = Fields /\ l.pc = "found" /\ l.s = h[i].s /\ l.back = h[i].back
        /\ l.crossed = h[i].crossed
      BY <1>0, <2>2 DEF Fields
  <2>4. h' = [h EXCEPT ![i] = l]
      BY <1>0, <2>1, <2>2
  <2>5. h[i].pc = "slug" /\ UNCHANGED <<soc, cached, late>>
      BY <1>1 DEF UniqueSlug, At, cache
  <2> QED
      BY <1>0, <2>3, <2>4, <2>5, LocalKeeps
<1>2. CASE Provision(i)
    BY <1>0, <1>2, GotoKeeps DEF Provision, At, cache
<1>3. CASE ResolveEntitlements(i)
  <2>1. PICK t : h' = [h EXCEPT ![i].pc = "seed", ![i].tier = t]
      BY <1>3 DEF ResolveEntitlements
  <2>2. PICK l : l = [h[i] EXCEPT !.pc = "seed", !.tier = t]
      OBVIOUS
  <2>3. /\ DOMAIN l = Fields /\ l.pc = "seed" /\ l.s = h[i].s /\ l.back = h[i].back
        /\ l.crossed = h[i].crossed
      BY <1>0, <2>2 DEF Fields
  <2>4. h' = [h EXCEPT ![i] = l]
      BY <1>0, <2>1, <2>2
  <2>5. h[i].pc = "entitle" /\ UNCHANGED <<soc, cached, late>>
      BY <1>3 DEF ResolveEntitlements, At, cache
  <2> QED
      BY <1>0, <2>3, <2>4, <2>5, SetKeeps
<1>4. CASE Seed(i)
  <2>1. PICK s : s = h[i].s
      OBVIOUS
  <2>2. /\ UNCHANGED <<soc, cached, late>>
        /\ h' = [j \in Handlers |->
                   IF j = i THEN [h[j] EXCEPT !.pc = "flag", !.tier = Some(Tiers)]
                   ELSE IF h[j].pc = "join" /\ h[j].s = s THEN [h[j] EXCEPT !.pc = "flag"]
                   ELSE h[j]]
        /\ h[i].pc = "seed"
      BY <1>4, <2>1 DEF Seed, At, cache
  <2>3. \A j \in Handlers : DOMAIN h[j] = Fields /\ h[j].back \in Backs /\ h[j].crossed \in BOOLEAN
      BY DEF IInv, Shaped
  <2>4. DOMAIN h' = Handlers
      BY <2>2
  <2>5. ASSUME NEW j \in Handlers
        PROVE  /\ DOMAIN h'[j] = Fields /\ h'[j].back = h[j].back /\ h'[j].crossed = h[j].crossed
               /\ h'[j].s = h[j].s /\ h'[j].status = h[j].status
               /\ \/ h'[j].pc = h[j].pc
                  \/ h'[j].pc = "flag" /\ h[j].pc \in {"join", "seed"}
      BY <2>2, <2>3 DEF Fields
  <2>6. ASSUME NEW j \in Handlers
        PROVE  /\ DOMAIN h'[j] = Fields
               /\ h'[j].back \in Backs
               /\ h'[j].crossed \in BOOLEAN
               /\ h'[j].pc # "idle" => h[j].pc # "idle" /\ h'[j].s = h[j].s
               /\ h'[j].pc # "idle" => (Early(h'[j].pc) <=> Early(h[j].pc))
               /\ h'[j].pc = "fill" => /\ h[j].pc = "fill" /\ h'[j].status = h[j].status
                                       /\ h[j].crossed => h'[j].crossed
               /\ h[j].pc \in {"wake", "drop"} => h'[j].pc = h[j].pc
      BY <2>3, <2>5
  <2>7. Steady
      BY <1>0, <2>2
  <2> QED
      BY <2>2, <2>4, <2>6, <2>7, QuietKeeps
<1>5. CASE Provisioned(i)
  <2>1. h[i].pc = "flag" /\ h[i].s \in Socs
      BY <1>5 DEF Provisioned, At, IInv, Shaped, InFlight
  <2>2. Steady
      BY <1>5, <2>1, SocSteady DEF Provisioned
  <2>3. h[i].back \in {"done", "admin", "structure", "count", "clear", "drop"}
      BY <1>0 DEF Backs
  <2> QED
      BY <1>5, <2>1, <2>2, <2>3, FinishKeeps, GotoKeeps DEF Provisioned, Return, cache
<1>6. CASE Build(i)
  <2>1. h[i].pc = "structure" /\ h[i].s \in Socs
      BY <1>6 DEF Build, At, IInv, Shaped, InFlight
  <2>2. Steady
      BY <1>6, <2>1, SocSteady DEF Build
  <2> QED
      BY <1>6, <2>1, <2>2, FinishKeeps DEF Build, cache
<1>7. CASE FindAdmin(i)
  <2>1. PICK u : h' = [h EXCEPT ![i].pc = "saveAdmin", ![i].u = u]
      BY <1>7 DEF FindAdmin
  <2>2. PICK l : l = [h[i] EXCEPT !.pc = "saveAdmin", !.u = u]
      OBVIOUS
  <2>3. /\ DOMAIN l = Fields /\ l.pc = "saveAdmin" /\ l.s = h[i].s /\ l.back = h[i].back
        /\ l.crossed = h[i].crossed
      BY <1>0, <2>2 DEF Fields
  <2>4. h' = [h EXCEPT ![i] = l]
      BY <1>0, <2>1, <2>2
  <2>5. h[i].pc = "admin" /\ UNCHANGED <<soc, cached, late>>
      BY <1>7 DEF FindAdmin, At, cache
  <2> QED
      BY <1>0, <2>3, <2>4, <2>5, SetKeeps
<1>8. CASE SaveAdmin(i)
  <2>1. h[i].pc = "saveAdmin" /\ UNCHANGED <<soc, cached, late>>
      BY <1>8 DEF SaveAdmin, At, cache
  <2>2. CASE Finish(i)
      BY <1>0, <2>1, <2>2, FinishKeeps
  <2>3. CASE ~Finish(i)
    <3>1. PICK a, todo : h' = [h EXCEPT ![i] = [Idle EXCEPT !.s = h[i].s, !.pc = "find",
                                                  !.alone = a, !.todo = todo]]
        BY <1>8, <2>3 DEF SaveAdmin
    <3>2. PICK l : l = [Idle EXCEPT !.s = h[i].s, !.pc = "find", !.alone = a, !.todo = todo]
        OBVIOUS
    <3>3. /\ DOMAIN l = Fields /\ l.pc = "find" /\ l.s = h[i].s /\ l.back = "done"
          /\ l.crossed = FALSE
        BY <3>2, IdleShape DEF Fields
    <3>4. h' = [h EXCEPT ![i] = l]
        BY <3>1, <3>2
    <3> QED
        BY <1>0, <2>1, <3>3, <3>4, LocalKeeps DEF Backs
  <2> QED
      BY <2>2, <2>3
<1>9. CASE FindEntry(i)
  <2>1. PICK r, m : h' = [h EXCEPT ![i].pc = "put", ![i].row = r, ![i].members = m]
      BY <1>9 DEF FindEntry
  <2>2. PICK l : l = [h[i] EXCEPT !.pc = "put", !.row = r, !.members = m]
      OBVIOUS
  <2>3. /\ DOMAIN l = Fields /\ l.pc = "put" /\ l.s = h[i].s /\ l.back = h[i].back
        /\ l.crossed = h[i].crossed
      BY <1>0, <2>2 DEF Fields
  <2>4. h' = [h EXCEPT ![i] = l]
      BY <1>0, <2>1, <2>2
  <2>5. h[i].pc = "find" /\ UNCHANGED <<soc, cached, late>>
      BY <1>9 DEF FindEntry, At, cache
  <2> QED
      BY <1>0, <2>3, <2>4, <2>5, SetKeeps
<1>10. CASE PutEntry(i)
  <2>1. h[i].pc = "put" /\ UNCHANGED <<soc, cached, late>>
      BY <1>10 DEF PutEntry, At, cache
  <2>2. CASE Finish(i)
      BY <1>0, <2>1, <2>2, FinishKeeps
  <2>3. CASE ~Finish(i)
    <3>1. PICK step, todo :
             /\ h' = [h EXCEPT ![i].pc = step, ![i].todo = todo, ![i].row = 0, ![i].members = Nowhere]
             /\ step = "find" \/ step = h[i].back
        BY <1>10, <2>3 DEF PutEntry
    <3>2. PICK l : l = [h[i] EXCEPT !.pc = step, !.todo = todo, !.row = 0, !.members = Nowhere]
        OBVIOUS
    <3>3. /\ DOMAIN l = Fields /\ l.pc = step /\ l.s = h[i].s /\ l.back = h[i].back
          /\ l.crossed = h[i].crossed
        BY <1>0, <3>2 DEF Fields
    <3>4. h' = [h EXCEPT ![i] = l]
        BY <1>0, <3>1, <3>2
    <3>5. step \in {"find", "done", "admin", "structure", "count", "clear", "drop"}
        BY <1>0, <3>1 DEF Backs
    <3> QED
        BY <1>0, <2>1, <3>3, <3>4, <3>5, SetKeeps
  <2> QED
      BY <2>2, <2>3
<1>11. CASE ReadUsers(i)
  <2>1. PICK step, todo : /\ h' = [h EXCEPT ![i].pc = step, ![i].todo = todo]
                          /\ step \in {"clear", "find"}
      BY <1>11 DEF ReadUsers
  <2>2. PICK l : l = [h[i] EXCEPT !.pc = step, !.todo = todo]
      OBVIOUS
  <2>3. /\ DOMAIN l = Fields /\ l.pc = step /\ l.s = h[i].s /\ l.back = h[i].back
        /\ l.crossed = h[i].crossed
      BY <1>0, <2>2 DEF Fields
  <2>4. h' = [h EXCEPT ![i] = l]
      BY <1>0, <2>1, <2>2
  <2>5. h[i].pc = "rebuild" /\ UNCHANGED <<soc, cached, late>>
      BY <1>11 DEF ReadUsers, At, cache
  <2> QED
      BY <1>0, <2>1, <2>3, <2>4, <2>5, SetKeeps
<1>12. CASE Count(i)
  <2>1. h[i].pc = "count" /\ UNCHANGED <<soc, cached, late>>
      BY <1>12 DEF Count, At, cache
  <2>2. CASE Finish(i)
      BY <1>0, <2>1, <2>2, FinishKeeps
  <2>3. CASE h' = [h EXCEPT ![i].pc = "goLive", ![i].back = "clear"]
    <3>1. PICK l : l = [h[i] EXCEPT !.pc = "goLive", !.back = "clear"]
        OBVIOUS
    <3>2. /\ DOMAIN l = Fields /\ l.pc = "goLive" /\ l.s = h[i].s /\ l.back = "clear"
          /\ l.crossed = h[i].crossed
        BY <1>0, <3>1 DEF Fields
    <3>3. h' = [h EXCEPT ![i] = l]
        BY <1>0, <2>3, <3>1
    <3> QED
        BY <1>0, <2>1, <3>2, <3>3, SetKeeps DEF Backs
  <2> QED
      BY <1>12, <2>2, <2>3 DEF Count
<1>13. CASE Reset(i)
  <2>1. h[i].pc = "reset" /\ h[i].s \in Socs
      BY <1>13 DEF Reset, At, IInv, Shaped, InFlight
  <2>2. Steady
      BY <1>13, <2>1, SocSteady DEF Reset
  <2> QED
      BY <1>13, <2>1, <2>2, GotoKeeps DEF Reset, cache
<1>14. CASE SavePlan(i)
  <2>1. h[i].pc = "plan" /\ h[i].s \in Socs
      BY <1>14 DEF SavePlan, At, IInv, Shaped, InFlight
  <2>2. Steady
      BY <1>14, <2>1, SocSteady DEF SavePlan
  <2> QED
      BY <1>14, <2>1, <2>2, FinishKeeps, GotoKeeps DEF SavePlan, cache
<1>15. CASE SyncMirror(i)
    BY <1>0, <1>15, FinishKeeps DEF SyncMirror, At, cache
<1>16. CASE SignedIn(i)
  <2>1. h[i].pc = "signIn" /\ UNCHANGED <<soc, cached, late>>
      BY <1>16 DEF SignedIn, At, cache
  <2>2. CASE Finish(i)
      BY <1>0, <2>1, <2>2, FinishKeeps
  <2>3. CASE ~Finish(i)
    <3>1. PICK todo : h' = [h EXCEPT ![i].pc = "find", ![i].u = 0, ![i].todo = todo]
        BY <1>16, <2>3 DEF SignedIn
    <3>2. PICK l : l = [h[i] EXCEPT !.pc = "find", !.u = 0, !.todo = todo]
        OBVIOUS
    <3>3. /\ DOMAIN l = Fields /\ l.pc = "find" /\ l.s = h[i].s /\ l.back = h[i].back
          /\ l.crossed = h[i].crossed
        BY <1>0, <3>2 DEF Fields
    <3>4. h' = [h EXCEPT ![i] = l]
        BY <1>0, <3>1, <3>2
    <3> QED
        BY <1>0, <2>1, <3>3, <3>4, SetKeeps
  <2> QED
      BY <2>2, <2>3
<1>17. CASE SaveStaff(i)
  <2>1. h[i].pc = "staff" /\ UNCHANGED <<soc, cached, late>>
      BY <1>17 DEF SaveStaff, At, cache
  <2>2. CASE Finish(i)
      BY <1>0, <2>1, <2>2, FinishKeeps
  <2>3. CASE Goto(i, "staffLink")
      BY <1>0, <2>1, <2>3, GotoKeeps
  <2>4. CASE ~Finish(i) /\ ~Goto(i, "staffLink")
    <3>1. PICK u : h' = [h EXCEPT ![i].pc = "staffLink", ![i].u = u]
        BY <1>17, <2>4 DEF SaveStaff
    <3>2. PICK l : l = [h[i] EXCEPT !.pc = "staffLink", !.u = u]
        OBVIOUS
    <3>3. /\ DOMAIN l = Fields /\ l.pc = "staffLink" /\ l.s = h[i].s /\ l.back = h[i].back
          /\ l.crossed = h[i].crossed
        BY <1>0, <3>2 DEF Fields
    <3>4. h' = [h EXCEPT ![i] = l]
        BY <1>0, <3>1, <3>2
    <3> QED
        BY <1>0, <2>1, <3>3, <3>4, SetKeeps
  <2> QED
      BY <2>2, <2>3, <2>4
<1>18. CASE LinkStaff(i) \/ Revoke(i)
  <2>1. h[i].pc \in {"staffLink", "revoke"} /\ UNCHANGED <<soc, cached, late>>
      BY <1>18 DEF LinkStaff, Revoke, At, cache
  <2>2. PICK todo : h' = [h EXCEPT ![i].pc = "find", ![i].u = 0, ![i].phone = "none", ![i].todo = todo]
      BY <1>18 DEF LinkStaff, Revoke, ListStaff
  <2>3. PICK l : l = [h[i] EXCEPT !.pc = "find", !.u = 0, !.phone = "none", !.todo = todo]
      OBVIOUS
  <2>4. /\ DOMAIN l = Fields /\ l.pc = "find" /\ l.s = h[i].s /\ l.back = h[i].back
        /\ l.crossed = h[i].crossed
      BY <1>0, <2>3 DEF Fields
  <2>5. h' = [h EXCEPT ![i] = l]
      BY <1>0, <2>2, <2>3
  <2> QED
      BY <1>0, <2>1, <2>4, <2>5, SetKeeps
<1>19. CASE SaveProfile(i)
  <2>1. h[i].pc = "profile" /\ UNCHANGED <<soc, cached, late>>
      BY <1>19 DEF SaveProfile, At, cache
  <2>2. CASE Finish(i)
      BY <1>0, <2>1, <2>2, FinishKeeps
  <2>3. CASE ~Finish(i)
    <3>1. PICK todo : h' = [h EXCEPT ![i].pc = "find", ![i].u = 0, ![i].email = "none",
                                     ![i].back = "drop", ![i].todo = todo]
        BY <1>19, <2>3 DEF SaveProfile
    <3>2. PICK l : l = [h[i] EXCEPT !.pc = "find", !.u = 0, !.email = "none", !.back = "drop",
                                    !.todo = todo]
        OBVIOUS
    <3>3. /\ DOMAIN l = Fields /\ l.pc = "find" /\ l.s = h[i].s /\ l.back = "drop"
          /\ l.crossed = h[i].crossed
        BY <1>0, <3>2 DEF Fields
    <3>4. h' = [h EXCEPT ![i] = l]
        BY <1>0, <3>1, <3>2
    <3> QED
        BY <1>0, <2>1, <3>3, <3>4, SetKeeps DEF Backs
  <2> QED
      BY <2>2, <2>3
<1> QED
    BY <1>1, <1>2, <1>3, <1>4, <1>5, <1>6, <1>7, <1>8, <1>9, <1>10, <1>11, <1>12, <1>13, <1>14,
       <1>15, <1>16, <1>17, <1>18, <1>19 DEF Quiet

-----------------------------------------------------------------------------
(* The steps that found a society or write its status: who cached or       *)
(* loaded the old one has the cache emptied by this very request.          *)

LEMMA FoundKeeps == ASSUME IInv, NEW i \in Handlers, Found(i) PROVE IInv'
<1>0. /\ DOMAIN h = Handlers /\ DOMAIN h[i] = Fields /\ h[i].back \in Backs
      /\ h[i].crossed \in BOOLEAN
      /\ h[i].pc = "found" /\ UNCHANGED <<cached, late>>
    BY DEF IInv, Shaped, Found, At, cache
<1>1. CASE Taken(h[i].name, h[i].k)
  <2>1. Finish(i) /\ UNCHANGED soc
      BY <1>1 DEF Found
  <2>2. Steady
      BY <2>1 DEF IInv, Shaped, Steady
  <2> QED
      BY <1>0, <2>1, <2>2, FinishKeeps
<1>2. CASE ~Taken(h[i].name, h[i].k)
  <2>1. PICK s \in Socs : s = h[i].s
      BY <1>0 DEF IInv, Shaped, InFlight
  <2>2. PICK row : /\ row = [there |-> TRUE, name |-> h[i].name, k |-> h[i].k, status |-> "ONBOARDING",
                             ready |-> FALSE, tier |-> h[i].tier, units |-> FALSE]
                   /\ soc' = [soc EXCEPT ![s] = row]
      BY <1>2, <2>1 DEF Found
  <2>3. DOMAIN row = Columns /\ row.there = TRUE /\ row.status = "ONBOARDING"
      BY <2>2 DEF Columns
  <2>4. /\ ~soc[s].there /\ soc[s].status = "ONBOARDING"
        /\ \A j \in Handlers \ {i} : h[j].pc # "idle" => h[j].s # s
      BY <1>0, <2>1 DEF IInv, Founding, InFlight, Early
  <2>5. PICK l : /\ l = [h[i] EXCEPT !.pc = "provision", !.tier = Some(Tiers),
                                      !.name = Some(Names), !.k = 1]
                 /\ h' = [h EXCEPT ![i] = l]
      BY <1>0, <1>2 DEF Found
  <2>6. /\ DOMAIN l = Fields /\ l.pc = "provision" /\ l.s = s /\ l.back = h[i].back
        /\ l.crossed = h[i].crossed
      BY <1>0, <2>1, <2>5 DEF Fields
  <2>7. /\ DOMAIN h' = Handlers /\ h'[i] = l
        /\ \A j \in Handlers \ {i} : h'[j] = h[j]
      BY <1>0, <2>5
  <2>8. /\ DOMAIN soc' = Socs /\ soc'[s] = row
        /\ \A t \in Socs \ {s} : soc'[t] = soc[t]
      BY <2>2 DEF IInv, Shaped
  <2>9. Shaped'
      BY <1>0, <2>1, <2>3, <2>6, <2>7, <2>8 DEF IInv, Shaped, InFlight
  <2>10. \A t \in Socs : soc'[t].status = soc[t].status
      BY <2>3, <2>4, <2>8
  <2>11. Founding'
    <3>1. ASSUME NEW k \in Handlers, Early(h'[k].pc), NEW j \in Handlers \ {k}, h'[j].pc # "idle"
          PROVE  h'[j].s # h'[k].s
      <4>1. k # i
          BY <2>6, <2>7, <3>1 DEF Early
      <4>2. Early(h[k].pc) /\ h'[k].s = h[k].s /\ h[k].pc # "idle"
          BY <2>7, <3>1, <4>1 DEF Early
      <4>3. h'[j].s = h[j].s /\ h[j].pc # "idle"
          BY <1>0, <2>1, <2>6, <2>7, <3>1
      <4> QED
          BY <3>1, <4>2, <4>3 DEF IInv, Founding, InFlight
    <3>2. ASSUME NEW k \in Handlers, h'[k].pc # "idle"
          PROVE  soc'[h'[k].s].there <=> ~Early(h'[k].pc)
      <4>1. CASE k = i
          BY <2>3, <2>6, <2>7, <2>8, <4>1 DEF Early
      <4>2. CASE k # i
        <5>1. h'[k] = h[k] /\ h[k].s # s /\ h[k].s \in Socs
            BY <2>4, <2>7, <3>2, <4>2 DEF IInv, Shaped, InFlight
        <5> QED
            BY <2>8, <3>2, <5>1 DEF IInv, Founding, InFlight
      <4> QED
          BY <4>1, <4>2
    <3>3. \A t \in Socs : ~soc'[t].there => soc'[t].status = "ONBOARDING"
        BY <2>3, <2>8 DEF IInv, Founding
    <3> QED
        BY <3>1, <3>2, <3>3 DEF Founding, InFlight
  <2>12. \A t \in Socs : Writer(t) =>
            \E k \in Handlers : h'[k].s = t /\ h'[k].pc \in {"wake", "drop"}
      BY <1>0, <2>7 DEF Writer
  <2>13. LoadsCurrent'
    <3> SUFFICES ASSUME NEW k \in Handlers, h'[k].pc = "fill", h'[k].crossed = FALSE
                 PROVE  \/ h'[k].status = soc'[h'[k].s].status
                        \/ \E j \in Handlers : h'[j].s = h'[k].s /\ h'[j].pc \in {"wake", "drop"}
      <4>1. \A k \in Handlers : h'[k].crossed \in BOOLEAN
          BY <2>9 DEF Shaped
      <4> QED
          BY <4>1 DEF LoadsCurrent, Writer
    <3>1. h'[k] = h[k]
        BY <2>6, <2>7
    <3>2. h[k].s \in Socs
        BY <3>1 DEF IInv, Shaped, InFlight
    <3>3. h[k].status = soc[h[k].s].status \/ Writer(h[k].s)
        BY <3>1 DEF IInv, LoadsCurrent
    <3> QED
        BY <2>10, <2>12, <3>1, <3>2, <3>3
  <2>14. CacheIsCurrent'
    <3> SUFFICES ASSUME NEW t \in Socs
                 PROVE  \/ cached'[t] \in {"none", soc'[t].status} \/ late'[t]
                        \/ \E k \in Handlers : h'[k].s = t /\ h'[k].pc \in {"wake", "drop"}
        BY DEF CacheIsCurrent
    <3>1. cached[t] \in {"none", soc[t].status} \/ late[t] \/ Writer(t)
        BY DEF IInv, CacheIsCurrent, Writer
    <3> QED
        BY <1>0, <2>10, <2>12, <3>1
  <2> QED
      BY <2>9, <2>11, <2>13, <2>14 DEF IInv
<1> QED
    BY <1>1, <1>2

LEMMA WriteKeeps ==
    ASSUME IInv, NEW i \in Handlers, NEW v, NEW local,
           soc' = [soc EXCEPT ![h[i].s].status = v],
           h' = [h EXCEPT ![i] = local], UNCHANGED <<cached, late>>,
           h[i].pc \in {"goLive", "status"}, local.pc \in {"wake", "drop"},
           DOMAIN local = Fields, local.s = h[i].s, local.back \in Backs, local.crossed \in BOOLEAN
    PROVE  IInv'
<1>0. DOMAIN h = Handlers /\ DOMAIN soc = Socs /\ \A t \in Socs : DOMAIN soc[t] = Columns
    BY DEF IInv, Shaped
<1>1. PICK s \in Socs : s = h[i].s
    BY DEF IInv, Shaped, InFlight
<1>2. h'[i] = local /\ DOMAIN h' = Handlers /\ \A j \in Handlers \ {i} : h'[j] = h[j]
    BY <1>0
<1>3. /\ DOMAIN soc' = Socs
      /\ \A t \in Socs : DOMAIN soc'[t] = Columns /\ soc'[t].there = soc[t].there
      /\ \A t \in Socs \ {s} : soc'[t].status = soc[t].status
    BY <1>0, <1>1 DEF Columns
<1>4. Shaped'
    BY <1>1, <1>2, <1>3 DEF IInv, Shaped, InFlight
<1>5. Founding'
  <2>1. ASSUME NEW k \in Handlers
        PROVE  /\ h'[k].s = h[k].s
               /\ h'[k].pc = "idle" <=> h[k].pc = "idle"
               /\ Early(h'[k].pc) <=> Early(h[k].pc)
      BY <1>2 DEF Early
  <2>2. ASSUME NEW k \in Handlers, Early(h'[k].pc), NEW j \in Handlers \ {k}, h'[j].pc # "idle"
        PROVE  h'[j].s # h'[k].s
      BY <2>1, <2>2 DEF IInv, Founding, InFlight
  <2>3. ASSUME NEW k \in Handlers, h'[k].pc # "idle"
        PROVE  soc'[h'[k].s].there <=> ~Early(h'[k].pc)
      BY <1>3, <2>1, <2>3 DEF IInv, Founding, InFlight, Shaped
  <2>4. soc[s].there
      BY <1>1 DEF IInv, Founding, InFlight, Early
  <2>5. \A t \in Socs : ~soc'[t].there => soc'[t].status = "ONBOARDING"
      BY <1>3, <2>4 DEF IInv, Founding
  <2> QED
      BY <2>2, <2>3, <2>5 DEF Founding, InFlight
<1>6. ASSUME NEW t \in Socs, Writer(t) \/ t = s
      PROVE  \E k \in Handlers : h'[k].s = t /\ h'[k].pc \in {"wake", "drop"}
    BY <1>1, <1>2, <1>6 DEF Writer
<1>7. LoadsCurrent'
  <2> SUFFICES ASSUME NEW k \in Handlers, h'[k].pc = "fill", h'[k].crossed = FALSE
               PROVE  \/ h'[k].status = soc'[h'[k].s].status
                      \/ \E j \in Handlers : h'[j].s = h'[k].s /\ h'[j].pc \in {"wake", "drop"}
    <3>1. \A k \in Handlers : h'[k].crossed \in BOOLEAN
        BY <1>4 DEF Shaped
    <3> QED
        BY <3>1 DEF LoadsCurrent, Writer
  <2>1. h'[k] = h[k]
      BY <1>2
  <2>2. h[k].s \in Socs
      BY <2>1 DEF IInv, Shaped, InFlight
  <2>3. h[k].status = soc[h[k].s].status \/ Writer(h[k].s)
      BY <2>1 DEF IInv, LoadsCurrent
  <2> QED
      BY <1>3, <1>6, <2>1, <2>2, <2>3
<1>8. CacheIsCurrent'
  <2> SUFFICES ASSUME NEW t \in Socs
               PROVE  \/ cached'[t] \in {"none", soc'[t].status} \/ late'[t]
                      \/ \E k \in Handlers : h'[k].s = t /\ h'[k].pc \in {"wake", "drop"}
      BY DEF CacheIsCurrent
  <2>1. cached[t] \in {"none", soc[t].status} \/ late[t] \/ Writer(t)
      BY DEF IInv, CacheIsCurrent, Writer
  <2> QED
      BY <1>3, <1>6, <2>1
<1> QED
    BY <1>4, <1>5, <1>7, <1>8 DEF IInv

-----------------------------------------------------------------------------
(* The steps that empty the cache of some societies, or die before they    *)
(* could: the loads in flight of those are marked, the cache or its mark   *)
(* says so, and nobody who is to empty the cache of another one is lost.   *)
Carried(base, S) ==
    \A j \in Handlers :
       /\ DOMAIN base[j] = Fields
       /\ base[j].back \in Backs
       /\ base[j].crossed \in BOOLEAN
       /\ base[j].pc # "idle" => h[j].pc # "idle" /\ base[j].s = h[j].s
       /\ base[j].pc # "idle" => (Early(base[j].pc) <=> Early(h[j].pc))
       /\ base[j].pc = "fill" => base[j] = h[j]
       /\ h[j].pc \in {"wake", "drop"} => base[j].pc = h[j].pc \/ h[j].s \in S

Emptied(S) ==
    /\ DOMAIN cached' = Socs /\ late' \in [Socs -> BOOLEAN]
    /\ \A s \in S : cached'[s] = "none" \/ late'[s] = TRUE
    /\ \A s \in Socs \ S : cached'[s] = cached[s] /\ late'[s] = late[s]

LEMMA EmptyKeeps ==
    ASSUME IInv, NEW S \in SUBSET Socs, NEW base, h' = Cross(base, S), soc' = soc,
           Emptied(S), Carried(base, S)
    PROVE  IInv'
<1> USE DEF Carried, Emptied
<1>1. DOMAIN h' = Handlers
    BY DEF Cross
<1>2. ASSUME NEW j \in Handlers
      PROVE  /\ DOMAIN h'[j] = Fields /\ h'[j].pc = base[j].pc /\ h'[j].s = base[j].s
             /\ h'[j].back = base[j].back /\ h'[j].status = base[j].status
             /\ h'[j].crossed \in BOOLEAN
             /\ base[j].pc = "fill" =>
                   h'[j].crossed = (base[j].crossed \/ base[j].s \in S)
  <2>1. h'[j] = IF base[j].pc \in {"load", "fill"} /\ base[j].s \in S
                THEN [base[j] EXCEPT !.crossed = TRUE] ELSE base[j]
      BY DEF Cross
  <2>2. DOMAIN base[j] = Fields /\ base[j].crossed \in BOOLEAN
      OBVIOUS
  <2>3. CASE base[j].pc \in {"load", "fill"} /\ base[j].s \in S
    <3>1. PICK r : r = [base[j] EXCEPT !.crossed = TRUE]
        OBVIOUS
    <3>2. /\ DOMAIN r = Fields /\ r.pc = base[j].pc /\ r.s = base[j].s /\ r.back = base[j].back
          /\ r.status = base[j].status /\ r.crossed = TRUE
        BY <2>2, <3>1 DEF Fields
    <3>3. h'[j] = r
        BY <2>1, <2>3, <3>1
    <3> QED
        BY <2>3, <3>2, <3>3
  <2>4. CASE ~(base[j].pc \in {"load", "fill"} /\ base[j].s \in S)
      BY <2>1, <2>2, <2>4
  <2> QED
      BY <2>3, <2>4
<1>3. Shaped'
    BY <1>1, <1>2 DEF IInv, Shaped, InFlight
<1>4. Founding'
  <2>1. ASSUME NEW k \in Handlers, h'[k].pc # "idle"
        PROVE  /\ h[k].pc # "idle" /\ h'[k].s = h[k].s
               /\ Early(h'[k].pc) <=> Early(h[k].pc)
      BY <1>2, <2>1
  <2>2. ASSUME NEW k \in Handlers, Early(h'[k].pc), NEW j \in Handlers \ {k}, h'[j].pc # "idle"
        PROVE  h'[j].s # h'[k].s
    <3>1. h'[k].pc # "idle"
        BY <2>2 DEF Early
    <3> QED
        BY <2>1, <2>2, <3>1 DEF IInv, Founding, InFlight
  <2>3. ASSUME NEW k \in Handlers, h'[k].pc # "idle"
        PROVE  soc[h'[k].s].there <=> ~Early(h'[k].pc)
      BY <2>1, <2>3 DEF IInv, Founding, InFlight
  <2> QED
      BY <2>2, <2>3 DEF IInv, Founding, InFlight
<1>5. ASSUME NEW t \in Socs \ S, Writer(t)
      PROVE  \E k \in Handlers : h'[k].s = t /\ h'[k].pc \in {"wake", "drop"}
  <2>1. PICK k \in Handlers : h[k].s = t /\ h[k].pc \in {"wake", "drop"}
      BY <1>5 DEF Writer
  <2>2. base[k].pc = h[k].pc /\ base[k].s = h[k].s
      BY <2>1
  <2> QED
      BY <1>2, <2>1, <2>2
<1>6. LoadsCurrent'
  <2> SUFFICES ASSUME NEW k \in Handlers, h'[k].pc = "fill", h'[k].crossed = FALSE
               PROVE  \/ h'[k].status = soc'[h'[k].s].status
                      \/ \E j \in Handlers : h'[j].s = h'[k].s /\ h'[j].pc \in {"wake", "drop"}
    <3>1. \A k \in Handlers : h'[k].crossed \in BOOLEAN
        BY <1>2
    <3> QED
        BY <3>1 DEF LoadsCurrent, Writer
  <2>1. base[k].pc = "fill" /\ base[k] = h[k]
      BY <1>2
  <2>2. h[k].crossed = FALSE /\ h[k].s \notin S
      BY <1>2, <2>1
  <2>3. h[k].s \in Socs
      BY <2>1 DEF IInv, Shaped, InFlight
  <2>4. h[k].status = soc[h[k].s].status \/ Writer(h[k].s)
      BY <2>1, <2>2 DEF IInv, LoadsCurrent
  <2>5. h'[k].s = h[k].s /\ h'[k].status = h[k].status
      BY <1>2, <2>1
  <2> QED
      BY <1>5, <2>2, <2>3, <2>4, <2>5
<1>7. CacheIsCurrent'
  <2> SUFFICES ASSUME NEW t \in Socs
               PROVE  \/ cached'[t] \in {"none", soc'[t].status} \/ late'[t]
                      \/ \E k \in Handlers : h'[k].s = t /\ h'[k].pc \in {"wake", "drop"}
      BY DEF CacheIsCurrent
  <2>1. cached[t] \in {"none", soc[t].status} \/ late[t] \/ Writer(t)
      BY DEF IInv, CacheIsCurrent, Writer
  <2> QED
      BY <1>5, <2>1
<1> QED
    BY <1>3, <1>4, <1>6, <1>7 DEF IInv

(* One request empties the cache of S and ends or goes on.                 *)
LEMMA ClearsKeep ==
    ASSUME IInv, NEW i \in Handlers, NEW S \in SUBSET Socs, NEW local,
           h' = Cross([h EXCEPT ![i] = local], S), soc' = soc, Emptied(S),
           DOMAIN local = Fields, local.back \in Backs, local.crossed \in BOOLEAN,
           local.pc \in {"idle", "rebuild"}, h[i].pc # "idle", ~Early(h[i].pc),
           local.pc = "idle" \/ local.s = h[i].s,
           h[i].pc \in {"wake", "drop"} => h[i].s \in S
    PROVE  IInv'
<1>1. PICK base : base = [h EXCEPT ![i] = local]
    OBVIOUS
<1>2. base[i] = local /\ \A j \in Handlers \ {i} : base[j] = h[j]
    BY <1>1 DEF IInv, Shaped
<1>3. \A j \in Handlers : DOMAIN h[j] = Fields /\ h[j].back \in Backs /\ h[j].crossed \in BOOLEAN
    BY DEF IInv, Shaped
<1>4. ASSUME NEW j \in Handlers
      PROVE  /\ DOMAIN base[j] = Fields
             /\ base[j].back \in Backs
             /\ base[j].crossed \in BOOLEAN
             /\ base[j].pc # "idle" => h[j].pc # "idle" /\ base[j].s = h[j].s
             /\ base[j].pc # "idle" => (Early(base[j].pc) <=> Early(h[j].pc))
             /\ base[j].pc = "fill" => base[j] = h[j]
             /\ h[j].pc \in {"wake", "drop"} => base[j].pc = h[j].pc \/ h[j].s \in S
    BY <1>2, <1>3 DEF Early
<1>5. h' = Cross(base, S)
    BY <1>1
<1>6. Carried(base, S)
    BY <1>4 DEF Carried
<1> QED
    BY <1>5, <1>6, EmptyKeeps

LEMMA EmptyStepsKeep == ASSUME IInv, NEW i \in Handlers, Wake(i) \/ Drop(i) \/ Clear(i) PROVE IInv'
<1>0. /\ DOMAIN h = Handlers /\ DOMAIN h[i] = Fields /\ h[i].back \in Backs
      /\ h[i].crossed \in BOOLEAN /\ DOMAIN cached = Socs /\ late \in [Socs -> BOOLEAN]
    BY DEF IInv, Shaped
<1>1. CASE Clear(i)
  <2>1. /\ h' = Cross([h EXCEPT ![i] = Idle], Socs) /\ soc' = soc /\ h[i].pc = "clear"
        /\ Emptied(Socs)
      BY <1>1 DEF Clear, At, Emptied
  <2>2. Socs \in SUBSET Socs /\ h[i].pc # "idle" /\ ~Early(h[i].pc)
      BY <2>1 DEF Early
  <2>3. h[i].pc \notin {"wake", "drop"} /\ Socs \ Socs = {} /\ Idle.back \in Backs
      BY <2>1, IdleShape DEF Backs
  <2> QED
      BY <2>1, <2>2, <2>3, IdleShape, ClearsKeep
<1>2. CASE Drop(i)
  <2>1. PICK s \in Socs : s = h[i].s
      BY <1>2 DEF Drop, At, IInv, Shaped, InFlight
  <2>2. /\ h' = Cross([h EXCEPT ![i] = Idle], {s}) /\ soc' = soc /\ h[i].pc = "drop"
        /\ cached' = [cached EXCEPT ![s] = "none"] /\ late' = [late EXCEPT ![s] = FALSE]
      BY <1>2, <2>1 DEF Drop, At, Invalidate
  <2>3. Emptied({s})
      BY <1>0, <2>2 DEF Emptied
  <2>4. {s} \in SUBSET Socs /\ h[i].pc # "idle" /\ ~Early(h[i].pc) /\ Idle.back \in Backs
      BY <2>2, IdleShape DEF Early, Backs
  <2> QED
      BY <2>1, <2>2, <2>3, <2>4, IdleShape, ClearsKeep
<1>3. CASE Wake(i)
  <2>1. PICK s \in Socs : s = h[i].s
      BY <1>3 DEF Wake, At, IInv, Shaped, InFlight
  <2>2. /\ h' = Cross([h EXCEPT ![i].pc = "rebuild"], {s}) /\ soc' = soc /\ h[i].pc = "wake"
        /\ cached' = [cached EXCEPT ![s] = "none"] /\ late' = [late EXCEPT ![s] = FALSE]
      BY <1>3, <2>1 DEF Wake, At, Invalidate
  <2>3. Emptied({s})
      BY <1>0, <2>2 DEF Emptied
  <2>4. PICK l : l = [h[i] EXCEPT !.pc = "rebuild"]
      OBVIOUS
  <2>5. /\ DOMAIN l = Fields /\ l.pc = "rebuild" /\ l.s = h[i].s /\ l.back = h[i].back
        /\ l.crossed = h[i].crossed
      BY <1>0, <2>4 DEF Fields
  <2>6. h' = Cross([h EXCEPT ![i] = l], {s})
      BY <1>0, <2>2, <2>4
  <2>7. {s} \in SUBSET Socs /\ h[i].pc # "idle" /\ ~Early(h[i].pc)
      BY <2>2 DEF Early
  <2> QED
      BY <1>0, <2>1, <2>2, <2>3, <2>5, <2>6, <2>7, ClearsKeep
<1> QED
    BY <1>1, <1>2, <1>3

-----------------------------------------------------------------------------
(* A load reads the status, and one that nothing crossed caches what is    *)
(* still the status, or will be emptied by whoever wrote another.          *)

LEMMA LoadingKeeps ==
    ASSUME IInv, NEW i \in Handlers, NEW local, h' = [h EXCEPT ![i] = local], soc' = soc,
           h[i].pc \in {"load", "fill"}, DOMAIN local = Fields, local.back \in Backs,
           local.crossed \in BOOLEAN, DOMAIN cached' = Socs, late' \in [Socs -> BOOLEAN],
           \/ local.pc = "fill" /\ local.s = h[i].s /\ local.status = soc[h[i].s].status
           \/ local.pc = "idle",
           \A s \in Socs : \/ cached'[s] = cached[s] /\ late'[s] = late[s]
                           \/ cached'[s] \in {"none", soc[s].status}
                           \/ late'[s] = TRUE
                           \/ Writer(s)
    PROVE  IInv'
<1>1. h'[i] = local /\ DOMAIN h' = Handlers /\ \A j \in Handlers \ {i} : h'[j] = h[j]
    BY DEF IInv, Shaped
<1>2. Shaped'
    BY <1>1 DEF IInv, Shaped, InFlight
<1>3. Founding'
  <2>1. ASSUME NEW k \in Handlers, h'[k].pc # "idle"
        PROVE  /\ h[k].pc # "idle" /\ h'[k].s = h[k].s
               /\ Early(h'[k].pc) <=> Early(h[k].pc)
      BY <1>1, <2>1 DEF Early
  <2>2. ASSUME NEW k \in Handlers, Early(h'[k].pc), NEW j \in Handlers \ {k}, h'[j].pc # "idle"
        PROVE  h'[j].s # h'[k].s
    <3>1. h'[k].pc # "idle"
        BY <2>2 DEF Early
    <3> QED
        BY <2>1, <2>2, <3>1 DEF IInv, Founding, InFlight
  <2>3. ASSUME NEW k \in Handlers, h'[k].pc # "idle"
        PROVE  soc[h'[k].s].there <=> ~Early(h'[k].pc)
      BY <2>1, <2>3 DEF IInv, Founding, InFlight
  <2> QED
      BY <2>2, <2>3 DEF IInv, Founding, InFlight
<1>4. ASSUME NEW t \in Socs, Writer(t)
      PROVE  \E k \in Handlers : h'[k].s = t /\ h'[k].pc \in {"wake", "drop"}
    BY <1>1, <1>4 DEF Writer
<1>5. LoadsCurrent'
  <2> SUFFICES ASSUME NEW k \in Handlers, h'[k].pc = "fill", h'[k].crossed = FALSE
               PROVE  \/ h'[k].status = soc'[h'[k].s].status
                      \/ \E j \in Handlers : h'[j].s = h'[k].s /\ h'[j].pc \in {"wake", "drop"}
    <3>1. \A k \in Handlers : h'[k].crossed \in BOOLEAN
        BY <1>2 DEF Shaped
    <3> QED
        BY <3>1 DEF LoadsCurrent, Writer
  <2>1. CASE k = i
      BY <1>1, <2>1
  <2>2. CASE k # i
    <3>1. h'[k] = h[k]
        BY <1>1, <2>2
    <3>2. h[k].s \in Socs
        BY <3>1 DEF IInv, Shaped, InFlight
    <3>3. h[k].status = soc[h[k].s].status \/ Writer(h[k].s)
        BY <3>1 DEF IInv, LoadsCurrent
    <3> QED
        BY <1>4, <3>1, <3>2, <3>3
  <2> QED
      BY <2>1, <2>2
<1>6. CacheIsCurrent'
  <2> SUFFICES ASSUME NEW t \in Socs
               PROVE  \/ cached'[t] \in {"none", soc'[t].status} \/ late'[t]
                      \/ \E k \in Handlers : h'[k].s = t /\ h'[k].pc \in {"wake", "drop"}
      BY DEF CacheIsCurrent
  <2>1. cached[t] \in {"none", soc[t].status} \/ late[t] \/ Writer(t)
      BY DEF IInv, CacheIsCurrent, Writer
  <2> QED
      BY <1>4, <2>1
<1> QED
    BY <1>2, <1>3, <1>5, <1>6 DEF IInv

LEMMA LoadStepsKeep == ASSUME IInv, NEW i \in Handlers, Load(i) \/ Fill(i) PROVE IInv'
<1>0. /\ DOMAIN h = Handlers /\ DOMAIN h[i] = Fields /\ h[i].back \in Backs
      /\ h[i].crossed \in BOOLEAN /\ DOMAIN cached = Socs /\ late \in [Socs -> BOOLEAN]
    BY DEF IInv, Shaped
<1>1. CASE Load(i)
  <2>1. h[i].pc = "load" /\ UNCHANGED <<soc, cached, late>>
      BY <1>1 DEF Load, At, cache
  <2>2. PICK l : l = [h[i] EXCEPT !.pc = "fill", !.status = soc[h[i].s].status]
      OBVIOUS
  <2>3. /\ DOMAIN l = Fields /\ l.pc = "fill" /\ l.s = h[i].s /\ l.back = h[i].back
        /\ l.crossed = h[i].crossed /\ l.status = soc[h[i].s].status
      BY <1>0, <2>2 DEF Fields
  <2>4. h' = [h EXCEPT ![i] = l]
      BY <1>0, <1>1, <2>2 DEF Load
  <2>5. DOMAIN cached' = Socs /\ late' \in [Socs -> BOOLEAN]
        /\ \A s \in Socs : cached'[s] = cached[s] /\ late'[s] = late[s]
      BY <1>0, <2>1
  <2> QED
      BY <1>0, <2>1, <2>3, <2>4, <2>5, LoadingKeeps
<1>2. CASE Fill(i)
  <2>1. h[i].pc = "fill"
      BY <1>2 DEF Fill, At
  <2>2. PICK s \in Socs : s = h[i].s
      BY <2>1 DEF IInv, Shaped, InFlight
  <2>3. /\ h' = [h EXCEPT ![i] = Idle] /\ soc' = soc
        /\ cached' = [cached EXCEPT ![s] = h[i].status]
        /\ late' = [late EXCEPT ![s] = h[i].crossed]
      BY <1>2, <2>2 DEF Fill, Finish
  <2>4. DOMAIN cached' = Socs /\ late' \in [Socs -> BOOLEAN]
      BY <1>0, <2>3
  <2>5. ASSUME NEW t \in Socs \ {s}
        PROVE  cached'[t] = cached[t] /\ late'[t] = late[t]
      BY <1>0, <2>3, <2>5
  <2>6. cached'[s] = h[i].status /\ late'[s] = h[i].crossed
      BY <1>0, <2>3
  <2>7. h[i].crossed = TRUE \/ h[i].status = soc[s].status \/ Writer(s)
      BY <1>0, <2>1, <2>2 DEF IInv, LoadsCurrent
  <2>8. ASSUME NEW t \in Socs
        PROVE  \/ cached'[t] = cached[t] /\ late'[t] = late[t]
               \/ cached'[t] \in {"none", soc[t].status}
               \/ late'[t] = TRUE
               \/ Writer(t)
    <3>1. CASE t = s
        BY <2>6, <2>7, <3>1
    <3>2. CASE t # s
        BY <2>5, <3>2
    <3> QED
        BY <3>1, <3>2
  <2>9. h[i].pc \in {"load", "fill"} /\ Idle.back \in Backs /\ Idle.crossed \in BOOLEAN
      BY <2>1, IdleShape DEF Backs
  <2> QED
      BY <2>3, <2>4, <2>8, <2>9, IdleShape, LoadingKeeps
<1> QED
    BY <1>1, <1>2

LEMMA ExpireKeeps == ASSUME IInv, NEW s \in Socs, Expire(s) PROVE IInv'
<1>1. /\ cached' = [cached EXCEPT ![s] = "none"] /\ late' = [late EXCEPT ![s] = FALSE]
      /\ soc' = soc /\ h' = h
    BY DEF Expire, Invalidate
<1>2. Shaped'
    BY <1>1 DEF IInv, Shaped, InFlight
<1>3. Founding' /\ LoadsCurrent'
    BY <1>1 DEF IInv, Founding, LoadsCurrent, Writer, InFlight
<1>4. CacheIsCurrent'
    BY <1>1 DEF IInv, Shaped, CacheIsCurrent
<1> QED
    BY <1>2, <1>3, <1>4 DEF IInv

LEMMA AbortKeeps == ASSUME IInv, NEW i \in Handlers, Abort(i) PROVE IInv'
<1>1. PICK s \in Socs : s = h[i].s
    BY DEF Abort, IInv, Shaped
<1>2. PICK left :
         /\ left = [j \in Handlers |->
                      IF j = i \/ (h[j].pc = "join" /\ h[j].s = s /\ provisioning[s] = i)
                      THEN Idle ELSE h[j]]
         /\ h' = IF h[i].pc \in {"wake", "drop"} THEN Cross(left, {s}) ELSE left
    BY <1>1 DEF Abort
<1>3. /\ soc' = soc /\ cached' = cached
      /\ late' = [late EXCEPT ![s] = @ \/ h[i].pc \in {"wake", "drop"}]
    BY <1>1 DEF Abort
<1>4. \A j \in Handlers : \/ left[j] = Idle /\ (h[j].pc = "join" \/ j = i)
                          \/ left[j] = h[j]
    BY <1>2
<1>5. \A j \in Handlers : /\ DOMAIN h[j] = Fields /\ h[j].back \in Backs
                          /\ h[j].crossed \in BOOLEAN
    BY DEF IInv, Shaped
<1>6. DOMAIN cached = Socs /\ late \in [Socs -> BOOLEAN]
    BY DEF IInv, Shaped
<1>7. Idle.back \in Backs /\ Idle.crossed \in BOOLEAN
    BY IdleShape DEF Backs
<1>8. CASE h[i].pc \in {"wake", "drop"}
  <2>1. h' = Cross(left, {s})
      BY <1>2, <1>8
  <2>2. late' = [late EXCEPT ![s] = TRUE]
      BY <1>3, <1>8
  <2>3. Emptied({s})
      BY <1>3, <1>6, <2>2 DEF Emptied
  <2>4. ASSUME NEW j \in Handlers
        PROVE  /\ DOMAIN left[j] = Fields
               /\ left[j].back \in Backs
               /\ left[j].crossed \in BOOLEAN
               /\ left[j].pc # "idle" => left[j] = h[j]
               /\ h[j].pc \in {"wake", "drop"} => left[j].pc = h[j].pc \/ h[j].s \in {s}
      BY <1>1, <1>4, <1>5, <1>7, IdleShape
  <2>5. Carried(left, {s})
      BY <2>4 DEF Carried
  <2> QED
      BY <1>3, <2>1, <2>3, <2>5, EmptyKeeps
<1>9. CASE h[i].pc \notin {"wake", "drop"}
  <2>1. h' = left /\ DOMAIN h' = Handlers
      BY <1>2, <1>9
  <2>2. late' = late
      BY <1>3, <1>6, <1>9
  <2>3. Steady
      BY <1>3 DEF IInv, Shaped, Steady
  <2>4. ASSUME NEW j \in Handlers
        PROVE  /\ DOMAIN h'[j] = Fields
               /\ h'[j].back \in Backs
               /\ h'[j].crossed \in BOOLEAN
               /\ h'[j].pc # "idle" => h[j].pc # "idle" /\ h'[j].s = h[j].s
               /\ h'[j].pc # "idle" => (Early(h'[j].pc) <=> Early(h[j].pc))
               /\ h'[j].pc = "fill" => /\ h[j].pc = "fill" /\ h'[j].status = h[j].status
                                       /\ h[j].crossed => h'[j].crossed
               /\ h[j].pc \in {"wake", "drop"} => h'[j].pc = h[j].pc
    <3>1. CASE h'[j] = h[j]
        BY <1>5, <3>1
    <3>2. CASE h'[j] = Idle /\ (h[j].pc = "join" \/ j = i)
        BY <1>7, <1>9, <3>2, IdleShape
    <3> QED
        BY <1>4, <2>1, <3>1, <3>2
  <2> QED
      BY <1>3, <2>1, <2>2, <2>3, <2>4, QuietKeeps
<1> QED
    BY <1>8, <1>9

-----------------------------------------------------------------------------
(* Hence, in every reachable state:                                        *)

LEMMA AdvanceKeeps == ASSUME IInv, NEW i \in Handlers, Advance(i) PROVE IInv'
<1>0. /\ DOMAIN h = Handlers /\ DOMAIN h[i] = Fields /\ h[i].back \in Backs
      /\ h[i].crossed \in BOOLEAN
    BY DEF IInv, Shaped
<1>1. CASE GoLive(i)
  <2>1. PICK l : l = [h[i] EXCEPT !.pc = "wake"]
      OBVIOUS
  <2>2. /\ DOMAIN l = Fields /\ l.pc = "wake" /\ l.s = h[i].s /\ l.back = h[i].back
        /\ l.crossed = h[i].crossed
      BY <1>0, <2>1 DEF Fields
  <2>3. /\ h' = [h EXCEPT ![i] = l] /\ soc' = [soc EXCEPT ![h[i].s].status = "ACTIVE"]
        /\ h[i].pc = "goLive" /\ UNCHANGED <<cached, late>>
      BY <1>0, <1>1, <2>1 DEF GoLive, At, Goto, cache
  <2> QED
      BY <1>0, <2>2, <2>3, WriteKeeps
<1>2. CASE WriteStatus(i)
  <2>1. PICK l : l = [h[i] EXCEPT !.pc = "drop", !.status = "ONBOARDING"]
      OBVIOUS
  <2>2. /\ DOMAIN l = Fields /\ l.pc = "drop" /\ l.s = h[i].s /\ l.back = h[i].back
        /\ l.crossed = h[i].crossed
      BY <1>0, <2>1 DEF Fields
  <2>3. /\ h' = [h EXCEPT ![i] = l] /\ soc' = [soc EXCEPT ![h[i].s].status = h[i].status]
        /\ h[i].pc = "status" /\ UNCHANGED <<cached, late>>
      BY <1>0, <1>2, <2>1 DEF WriteStatus, At, cache
  <2> QED
      BY <1>0, <2>2, <2>3, WriteKeeps
<1>3. CASE Quiet(i)
    BY <1>3, QuietStepsKeep
<1>4. CASE Found(i) \/ Wake(i) \/ Drop(i) \/ Clear(i) \/ Load(i) \/ Fill(i)
    BY <1>4, FoundKeeps, EmptyStepsKeep, LoadStepsKeep
<1> QED
    BY <1>1, <1>2, <1>3, <1>4 DEF Advance, Quiet

LEMMA InvInit == Init => IInv
<1> SUFFICES ASSUME Init PROVE IInv
    OBVIOUS
<1>1. /\ DOMAIN h = Handlers /\ \A i \in Handlers : h[i] = Idle
      /\ DOMAIN cached = Socs /\ \A s \in Socs : cached[s] = "none"
      /\ late \in [Socs -> BOOLEAN]
    BY DEF Init
<1>2. DOMAIN soc = Socs /\ \A s \in Socs : DOMAIN soc[s] = Columns /\ soc[s].status = "ONBOARDING"
    BY DEF Init, Columns
<1>3. Idle.back \in Backs /\ Idle.crossed \in BOOLEAN
    BY IdleShape DEF Backs
<1>4. Shaped
    BY <1>1, <1>2, <1>3, IdleShape DEF Shaped, InFlight
<1>5. Founding /\ LoadsCurrent
    BY <1>1, <1>2, IdleShape DEF Founding, LoadsCurrent, Early, InFlight
<1>6. CacheIsCurrent
    BY <1>1 DEF CacheIsCurrent
<1> QED
    BY <1>4, <1>5, <1>6 DEF IInv

LEMMA InvNext == IInv /\ [Next]_vars => IInv'
<1> SUFFICES ASSUME IInv, [Next]_vars PROVE IInv'
    OBVIOUS
<1>1. CASE UNCHANGED vars
    BY <1>1 DEF vars, IInv, Shaped, Founding, LoadsCurrent, CacheIsCurrent, Writer, InFlight
<1>2. CASE Next
    BY <1>2, RequestKeeps, AdvanceKeeps, AbortKeeps, ExpireKeeps DEF Next
<1> QED
    BY <1>1, <1>2

LEMMA InvAlways == Spec => []IInv
    BY InvInit, InvNext, PTL DEF Spec

(* What requests are judged by is the status the society has, except       *)
(* between its write and the invalidation after it, when the writer died   *)
(* between the two, or when a load in flight at the invalidation has       *)
(* filled the cache since (societiesService.ts 501-502, 540-545,           *)
(* cache.ts 49-63).                                                        *)
THEOREM CacheIsCurrentCorrect == Spec => []CacheIsCurrent
<1>1. IInv => CacheIsCurrent
    BY DEF IInv
<1> QED
    BY <1>1, InvAlways, PTL

-----------------------------------------------------------------------------
(* The plan a society's requests are judged by.  A change of plan writes   *)
(* the society and then the mirror; a seeding reads the society and then   *)
(* writes the mirror.  Two of them that meet leave the society muddled,    *)
(* until a change goes through while nothing else is in flight.  As long   *)
(* as it is not, what each of them holds is still what the society has,    *)
(* and the mirror lags behind only a change that is about to write it.     *)

Kinds ==
    /\ DOMAIN mirror = Socs
    /\ muddled \in [Socs -> BOOLEAN]
    /\ \A i \in Handlers : /\ h[i].alone \in BOOLEAN
                           /\ h[i].op = "plan" <=> h[i].pc \in {"plan", "mirror"}

Lone == \A i \in Handlers : InFlight(i) /\ h[i].alone => Undisturbed(i)

Met == \A i \in Handlers : \A j \in Handlers \ {i} :
          h[i].op = "plan" /\ Plans(h[j]) /\ h[j].s = h[i].s => muddled[h[i].s]

SeedHolds(i) == h[i].pc = "seed" => h[i].tier = soc[h[i].s].tier \/ muddled[h[i].s]
FlagHolds(i) == h[i].pc = "flag" => mirror[h[i].s] = soc[h[i].s].tier \/ muddled[h[i].s]
PlanHolds(i) == h[i].pc = "plan" /\ ~h[i].ready => ~soc[h[i].s].ready \/ muddled[h[i].s]
MirrorHolds(i) == h[i].pc = "mirror" => \/ h[i].tier = soc[h[i].s].tier
                                        \/ muddled[h[i].s] /\ ~h[i].alone

Bought ==
    \A s \in Socs :
       \/ ~soc[s].ready \/ muddled[s]
       \/ \E i \in Handlers : h[i].pc = "mirror" /\ h[i].s = s
       \/ mirror[s] = soc[s].tier

PlansInv ==
    /\ Kinds
    /\ Lone
    /\ Met
    /\ \A i \in Handlers : SeedHolds(i) /\ FlagHolds(i) /\ PlanHolds(i) /\ MirrorHolds(i)
    /\ Bought

(* A step that touches neither the plan nor the mirror, of a request that  *)
(* goes on to nothing the invariant speaks of, or stays where it was.      *)
Bearing == {"seed", "flag", "plan", "mirror"}

Calm ==
    /\ mirror' = mirror
    /\ muddled' \in [Socs -> BOOLEAN] /\ \A s \in Socs : muddled[s] => muddled'[s]
    /\ \A s \in Socs :
          /\ soc'[s].ready => soc[s].ready
          /\ \/ soc'[s].tier = soc[s].tier
             \/ ~soc'[s].ready /\ \A j \in Handlers : InFlight(j) /\ h[j].s = s => h[j].pc = "found"

Stays(j) == /\ h'[j].pc = h[j].pc /\ h'[j].op = h[j].op /\ h'[j].s = h[j].s
            /\ h'[j].alone = h[j].alone /\ h'[j].tier = h[j].tier /\ h'[j].ready = h[j].ready

Ends(j) == /\ h'[j].pc = "idle" /\ h'[j].op # "plan" /\ h'[j].alone \in BOOLEAN
           /\ h[j].pc = "mirror" => muddled'[h[j].s]

Passes(j) == /\ h[j].pc \notin {"idle", "plan", "mirror"}
             /\ h'[j].pc \notin Bearing \cup {"idle"} /\ h'[j].op # "plan"
             /\ h'[j].pc \in Seeding => h[j].pc \in Seeding
             /\ h'[j].s = h[j].s /\ h'[j].alone = h[j].alone

LEMMA CalmKeeps ==
    ASSUME IInv, PlansInv, Calm, \A j \in Handlers : Stays(j) \/ Ends(j) \/ Passes(j)
    PROVE  PlansInv'
<1>0. \A j \in Handlers : h[j].pc # "idle" => h[j].s \in Socs
    BY DEF IInv, Shaped, InFlight
<1>1. Kinds'
  <2>1. ASSUME NEW j \in Handlers
        PROVE  h'[j].alone \in BOOLEAN /\ (h'[j].op = "plan" <=> h'[j].pc \in {"plan", "mirror"})
    <3>1. h[j].alone \in BOOLEAN /\ (h[j].op = "plan" <=> h[j].pc \in {"plan", "mirror"})
        BY DEF PlansInv, Kinds
    <3> QED
        BY <3>1 DEF Stays, Ends, Passes, Bearing
  <2> QED
      BY <2>1 DEF Calm, PlansInv, Kinds
<1>2. ASSUME NEW j \in Handlers, h'[j].pc # "idle"
      PROVE  h[j].pc # "idle" /\ h'[j].s = h[j].s /\ h'[j].alone = h[j].alone /\ h[j].s \in Socs
    BY <1>0, <1>2 DEF Stays, Ends, Passes
<1>3. ASSUME NEW j \in Handlers, h'[j].pc \in Bearing PROVE Stays(j)
    BY <1>3 DEF Ends, Passes, Bearing
<1>4. Lone'
  <2> SUFFICES ASSUME NEW i \in Handlers, h'[i].pc # "idle", h'[i].alone,
                      NEW j \in Handlers \ {i}, h'[j].pc # "idle"
               PROVE  FALSE
      BY DEF Lone, InFlight, Undisturbed
  <2>1. h[i].pc # "idle" /\ h[i].alone /\ h[j].pc # "idle"
      BY <1>2
  <2> QED
      BY <2>1 DEF PlansInv, Lone, InFlight, Undisturbed
<1>5. ASSUME NEW j \in Handlers, Plans(h'[j])
      PROVE  Plans(h[j]) /\ h'[j].s = h[j].s /\ h[j].s \in Socs
  <2>1. h'[j].op = "plan" => h'[j].pc \in Bearing
      BY <1>1 DEF Kinds, Bearing
  <2>2. h'[j].pc # "idle"
      BY <1>5, <2>1 DEF Plans, Seeding, Bearing
  <2>3. CASE Stays(j)
      BY <1>2, <1>5, <2>2, <2>3 DEF Stays, Plans
  <2>4. CASE ~Stays(j)
    <3>1. h'[j].op # "plan"
        BY <1>3, <2>1, <2>4
    <3>2. Passes(j)
        BY <2>2, <2>4 DEF Ends
    <3> QED
        BY <1>2, <1>5, <2>2, <3>1, <3>2 DEF Passes, Plans
  <2> QED
      BY <2>3, <2>4
<1>6. Met'
  <2> SUFFICES ASSUME NEW i \in Handlers, NEW j \in Handlers \ {i},
                      h'[i].op = "plan", Plans(h'[j]), h'[j].s = h'[i].s
               PROVE  muddled'[h'[i].s]
      BY DEF Met, Plans
  <2>1. h'[i].pc \in Bearing
      BY <1>1 DEF Kinds, Bearing
  <2>2. Stays(i)
      BY <1>3, <2>1
  <2>3. Plans(h[j]) /\ h'[j].s = h[j].s /\ h[j].s \in Socs
      BY <1>5
  <2>4. muddled[h[i].s]
      BY <2>2, <2>3 DEF PlansInv, Met, Stays
  <2> QED
      BY <2>2, <2>3, <2>4 DEF Stays, Calm
<1>7. ASSUME NEW i \in Handlers
      PROVE  SeedHolds(i)' /\ FlagHolds(i)' /\ PlanHolds(i)' /\ MirrorHolds(i)'
  <2>1. CASE h'[i].pc \notin Bearing
      BY <2>1 DEF SeedHolds, FlagHolds, PlanHolds, MirrorHolds, Bearing
  <2>2. CASE h'[i].pc \in Bearing
    <3>1. Stays(i) /\ h[i].pc \in Bearing
        BY <1>3, <2>2 DEF Stays
    <3>2. InFlight(i) /\ h[i].s \in Socs /\ h[i].pc # "found"
        BY <1>0, <3>1 DEF Bearing, InFlight
    <3>3. /\ soc'[h[i].s].tier = soc[h[i].s].tier
          /\ soc'[h[i].s].ready => soc[h[i].s].ready
          /\ muddled[h[i].s] => muddled'[h[i].s]
          /\ mirror' = mirror
        BY <3>2 DEF Calm
    <3>4. SeedHolds(i) /\ FlagHolds(i) /\ PlanHolds(i) /\ MirrorHolds(i)
        BY DEF PlansInv
    <3> QED
        BY <3>1, <3>3, <3>4 DEF Stays, SeedHolds, FlagHolds, PlanHolds, MirrorHolds
  <2> QED
      BY <2>1, <2>2
<1>8. Bought'
  <2> SUFFICES ASSUME NEW s \in Socs
               PROVE  \/ ~soc'[s].ready \/ muddled'[s]
                      \/ \E i \in Handlers : h'[i].pc = "mirror" /\ h'[i].s = s
                      \/ mirror'[s] = soc'[s].tier
      BY DEF Bought
  <2>1. \/ ~soc[s].ready \/ muddled[s]
        \/ \E i \in Handlers : h[i].pc = "mirror" /\ h[i].s = s
        \/ mirror[s] = soc[s].tier
      BY DEF PlansInv, Bought
  <2>2. CASE \E i \in Handlers : h[i].pc = "mirror" /\ h[i].s = s
    <3>1. PICK i \in Handlers : h[i].pc = "mirror" /\ h[i].s = s
        BY <2>2
    <3> QED
        BY <3>1 DEF Stays, Ends, Passes
  <2> QED
      BY <2>1, <2>2 DEF Calm
<1> QED
    BY <1>1, <1>4, <1>6, <1>7, <1>8 DEF PlansInv

-----------------------------------------------------------------------------
(* One request goes on with nothing the invariant speaks of.               *)
LEMMA SamePlans == ASSUME PlansInv, UNCHANGED <<soc, mirror, muddled>> PROVE Calm
    BY DEF PlansInv, Kinds, Calm

LEMMA SetPasses ==
    ASSUME IInv, PlansInv, Calm, NEW i \in Handlers, NEW local, h' = [h EXCEPT ![i] = local],
           h[i].pc \notin {"idle", "plan", "mirror"},
           \/ local = Idle
           \/ /\ local.pc \notin Bearing \cup {"idle"}
              /\ local.pc \in Seeding => h[i].pc \in Seeding
              /\ local.s = h[i].s /\ local.alone = h[i].alone /\ local.op \in {h[i].op, "other"}
    PROVE  PlansInv'
<1>1. h'[i] = local /\ \A j \in Handlers \ {i} : h'[j] = h[j]
    BY DEF IInv, Shaped
<1>2. h[i].op # "plan"
    BY DEF PlansInv, Kinds
<1>3. \A j \in Handlers \ {i} : Stays(j)
    BY <1>1 DEF Stays
<1>4. CASE local = Idle
  <2>1. Idle.pc = "idle" /\ Idle.op = "other" /\ Idle.alone = TRUE
      BY DEF Idle
  <2>2. Ends(i)
      BY <1>1, <1>4, <2>1 DEF Ends
  <2> QED
      BY <1>3, <2>2, CalmKeeps
<1>5. CASE local # Idle
  <2>1. Passes(i)
      BY <1>1, <1>2, <1>5 DEF Passes
  <2> QED
      BY <1>3, <2>1, CalmKeeps
<1> QED
    BY <1>4, <1>5

LEMMA FinishPasses ==
    ASSUME IInv, PlansInv, Calm, NEW i \in Handlers, Finish(i),
           h[i].pc \notin {"idle", "plan", "mirror"}
    PROVE  PlansInv'
    BY SetPasses DEF Finish

LEMMA GotoPasses ==
    ASSUME IInv, PlansInv, Calm, NEW i \in Handlers, NEW step, Goto(i, step),
           h[i].pc \notin {"idle", "plan", "mirror"}, step \notin Bearing \cup {"idle"},
           step \in Seeding => h[i].pc \in Seeding
    PROVE  PlansInv'
<1>1. PICK l : l = [h[i] EXCEPT !.pc = step]
    OBVIOUS
<1>2. DOMAIN h = Handlers /\ DOMAIN h[i] = Fields
    BY DEF IInv, Shaped
<1>3. l.pc = step /\ l.s = h[i].s /\ l.alone = h[i].alone /\ l.op = h[i].op
    BY <1>1, <1>2 DEF Fields
<1>4. h' = [h EXCEPT ![i] = l]
    BY <1>1, <1>2 DEF Goto
<1> QED
    BY <1>3, <1>4, SetPasses

LEMMA BackSteps == \A step \in Backs : step \notin Bearing \cup Seeding \cup {"idle"}
    BY DEF Backs, Bearing, Seeding

PassingSteps(i) ==
    \/ UniqueSlug(i) \/ Provision(i) \/ Build(i) \/ FindAdmin(i) \/ SaveAdmin(i) \/ FindEntry(i)
    \/ PutEntry(i) \/ ReadUsers(i) \/ Count(i) \/ GoLive(i) \/ WriteStatus(i) \/ Reset(i) \/ SignedIn(i)
    \/ SaveStaff(i) \/ LinkStaff(i) \/ Revoke(i) \/ SaveProfile(i) \/ Load(i) \/ Fill(i)

LEMMA StepsPass == ASSUME IInv, PlansInv, NEW i \in Handlers, PassingSteps(i) PROVE PlansInv'
<1> USE DEF Bearing, Seeding
<1>0. DOMAIN h = Handlers /\ DOMAIN h[i] = Fields /\ h[i].back \in Backs
    BY DEF IInv, Shaped
<1>1. CASE UniqueSlug(i)
  <2>1. h[i].pc = "slug" /\ UNCHANGED <<soc, mirror, muddled>>
      BY <1>1 DEF UniqueSlug, At, tenant
  <2>2. Calm
      BY <2>1, SamePlans
  <2>3. PlansInv'
    <3>1. PICK k : h' = [h EXCEPT ![i].pc = "found", ![i].k = k]
        BY <1>1 DEF UniqueSlug
    <3>2. PICK l : l = [h[i] EXCEPT !.pc = "found", !.k = k]
        OBVIOUS
    <3>3. l.pc = "found" /\ l.s = h[i].s /\ l.alone = h[i].alone /\ l.op = h[i].op
        BY <1>0, <3>2 DEF Fields
    <3>4. h' = [h EXCEPT ![i] = l]
        BY <1>0, <3>1, <3>2
    <3> QED
        BY <2>1, <2>2, <3>3, <3>4, SetPasses
  <2> QED
      BY <2>3
<1>2. CASE Provision(i)
  <2>1. h[i].pc = "provision" /\ UNCHANGED <<soc, mirror, muddled>>
      BY <1>2 DEF Provision, At, tenant
  <2>2. Calm
      BY <2>1, SamePlans
  <2>3. Goto(i, "join") \/ Goto(i, "entitle")
      BY <1>2 DEF Provision
  <2> QED
      BY <2>1, <2>2, <2>3, GotoPasses
<1>3. CASE Build(i)
  <2>1. h[i].pc = "structure" /\ UNCHANGED <<mirror, muddled>> /\ h[i].s \in Socs
      BY <1>3 DEF Build, At, tenant, IInv, Shaped, InFlight
  <2>2. Calm
    <3>1. \A s \in Socs : soc'[s].tier = soc[s].tier /\ (soc'[s].ready => soc[s].ready)
        BY <1>3, <2>1 DEF Build, IInv, Shaped, Columns
    <3> QED
        BY <2>1, <3>1 DEF Calm, PlansInv, Kinds
  <2> QED
      BY <1>3, <2>1, <2>2, FinishPasses DEF Build
<1>4. CASE FindAdmin(i)
  <2>1. h[i].pc = "admin" /\ UNCHANGED <<soc, mirror, muddled>>
      BY <1>4 DEF FindAdmin, At, tenant
  <2>2. Calm
      BY <2>1, SamePlans
  <2>3. PlansInv'
    <3>1. PICK u : h' = [h EXCEPT ![i].pc = "saveAdmin", ![i].u = u]
        BY <1>4 DEF FindAdmin
    <3>2. PICK l : l = [h[i] EXCEPT !.pc = "saveAdmin", !.u = u]
        OBVIOUS
    <3>3. l.pc = "saveAdmin" /\ l.s = h[i].s /\ l.alone = h[i].alone /\ l.op = h[i].op
        BY <1>0, <3>2 DEF Fields
    <3>4. h' = [h EXCEPT ![i] = l]
        BY <1>0, <3>1, <3>2
    <3> QED
        BY <2>1, <2>2, <3>3, <3>4, SetPasses
  <2> QED
      BY <2>3
<1>5. CASE SaveAdmin(i)
  <2>1. h[i].pc = "saveAdmin" /\ UNCHANGED <<soc, mirror, muddled>>
      BY <1>5 DEF SaveAdmin, At, tenant
  <2>2. Calm
      BY <2>1, SamePlans
  <2>3. CASE Finish(i)
      BY <2>1, <2>2, <2>3, FinishPasses
  <2>4. CASE ~Finish(i)
    <3>1. PICK todo : h' = [h EXCEPT ![i] = [Idle EXCEPT !.s = h[i].s, !.pc = "find",
                                               !.alone = h[i].alone, !.todo = todo]]
        BY <1>5, <2>4 DEF SaveAdmin
    <3>2. PICK l : l = [Idle EXCEPT !.s = h[i].s, !.pc = "find", !.alone = h[i].alone, !.todo = todo]
        OBVIOUS
    <3>3. l.pc = "find" /\ l.s = h[i].s /\ l.alone = h[i].alone /\ l.op = "other"
        BY <3>2 DEF Idle
    <3>4. h' = [h EXCEPT ![i] = l]
        BY <3>1, <3>2
    <3> QED
        BY <2>1, <2>2, <3>3, <3>4, SetPasses
  <2> QED
      BY <2>3, <2>4
<1>6. CASE FindEntry(i)
  <2>1. h[i].pc = "find" /\ UNCHANGED <<soc, mirror, muddled>>
      BY <1>6 DEF FindEntry, At, tenant
  <2>2. Calm
      BY <2>1, SamePlans
  <2>3. PlansInv'
    <3>1. PICK r, m : h' = [h EXCEPT ![i].pc = "put", ![i].row = r, ![i].members = m]
        BY <1>6 DEF FindEntry
    <3>2. PICK l : l = [h[i] EXCEPT !.pc = "put", !.row = r, !.members = m]
        OBVIOUS
    <3>3. l.pc = "put" /\ l.s = h[i].s /\ l.alone = h[i].alone /\ l.op = h[i].op
        BY <1>0, <3>2 DEF Fields
    <3>4. h' = [h EXCEPT ![i] = l]
        BY <1>0, <3>1, <3>2
    <3> QED
        BY <2>1, <2>2, <3>3, <3>4, SetPasses
  <2> QED
      BY <2>3
<1>7. CASE PutEntry(i)
  <2>1. h[i].pc = "put" /\ UNCHANGED <<soc, mirror, muddled>>
      BY <1>7 DEF PutEntry, At, tenant
  <2>2. Calm
      BY <2>1, SamePlans
  <2>3. CASE Finish(i)
      BY <2>1, <2>2, <2>3, FinishPasses
  <2>4. CASE ~Finish(i)
    <3>1. PICK step, todo : /\ h' = [h EXCEPT ![i].pc = step, ![i].todo = todo, ![i].row = 0, ![i].members = Nowhere]
                           /\ step \in {"find"} \cup Backs
        BY <1>0, <1>7, <2>4 DEF PutEntry
    <3>2. PICK l : l = [h[i] EXCEPT !.pc = step, !.todo = todo, !.row = 0, !.members = Nowhere]
        OBVIOUS
    <3>3. l.pc = step /\ l.s = h[i].s /\ l.alone = h[i].alone /\ l.op = h[i].op
        BY <1>0, <3>2 DEF Fields
    <3>4. h' = [h EXCEPT ![i] = l]
        BY <1>0, <3>1, <3>2
    <3> QED
        BY <2>1, <2>2, <3>1, <3>3, <3>4, BackSteps, SetPasses
  <2> QED
      BY <2>3, <2>4
<1>8. CASE ReadUsers(i)
  <2>1. h[i].pc = "rebuild" /\ UNCHANGED <<soc, mirror, muddled>>
      BY <1>8 DEF ReadUsers, At, tenant
  <2>2. Calm
      BY <2>1, SamePlans
  <2>3. PlansInv'
    <3>1. PICK step, todo : /\ h' = [h EXCEPT ![i].pc = step, ![i].todo = todo]
                           /\ step \in {"clear", "find"}
        BY <1>8 DEF ReadUsers
    <3>2. PICK l : l = [h[i] EXCEPT !.pc = step, !.todo = todo]
        OBVIOUS
    <3>3. l.pc = step /\ l.s = h[i].s /\ l.alone = h[i].alone /\ l.op = h[i].op
        BY <1>0, <3>2 DEF Fields
    <3>4. h' = [h EXCEPT ![i] = l]
        BY <1>0, <3>1, <3>2
    <3> QED
        BY <2>1, <2>2, <3>1, <3>3, <3>4, SetPasses
  <2> QED
      BY <2>3
<1>9. CASE Count(i)
  <2>1. h[i].pc = "count" /\ UNCHANGED <<soc, mirror, muddled>>
      BY <1>9 DEF Count, At, tenant
  <2>2. Calm
      BY <2>1, SamePlans
  <2>3. CASE Finish(i)
      BY <2>1, <2>2, <2>3, FinishPasses
  <2>4. CASE ~Finish(i)
    <3>1. h' = [h EXCEPT ![i].pc = "goLive", ![i].back = "clear"]
        BY <1>9, <2>4 DEF Count
    <3>2. PICK l : l = [h[i] EXCEPT !.pc = "goLive", !.back = "clear"]
        OBVIOUS
    <3>3. l.pc = "goLive" /\ l.s = h[i].s /\ l.alone = h[i].alone /\ l.op = h[i].op
        BY <1>0, <3>2 DEF Fields
    <3>4. h' = [h EXCEPT ![i] = l]
        BY <1>0, <3>1, <3>2
    <3> QED
        BY <2>1, <2>2, <3>3, <3>4, SetPasses
  <2> QED
      BY <2>3, <2>4
<1>10. CASE GoLive(i)
  <2>1. h[i].pc = "goLive" /\ UNCHANGED <<mirror, muddled>> /\ h[i].s \in Socs
      BY <1>10 DEF GoLive, At, tenant, IInv, Shaped, InFlight
  <2>2. Calm
    <3>1. \A s \in Socs : soc'[s].tier = soc[s].tier /\ (soc'[s].ready => soc[s].ready)
        BY <1>10, <2>1 DEF GoLive, IInv, Shaped, Columns
    <3> QED
        BY <2>1, <3>1 DEF Calm, PlansInv, Kinds
  <2> QED
      BY <1>10, <2>1, <2>2, GotoPasses DEF GoLive
<1>11. CASE WriteStatus(i)
  <2>1. h[i].pc = "status" /\ UNCHANGED <<mirror, muddled>> /\ h[i].s \in Socs
      BY <1>11 DEF WriteStatus, At, tenant, IInv, Shaped, InFlight
  <2>2. Calm
    <3>1. \A s \in Socs : soc'[s].tier = soc[s].tier /\ (soc'[s].ready => soc[s].ready)
        BY <1>11, <2>1 DEF WriteStatus, IInv, Shaped, Columns
    <3> QED
        BY <2>1, <3>1 DEF Calm, PlansInv, Kinds
  <2>3. PlansInv'
    <3>1. h' = [h EXCEPT ![i].pc = "drop", ![i].status = "ONBOARDING"]
        BY <1>11 DEF WriteStatus
    <3>2. PICK l : l = [h[i] EXCEPT !.pc = "drop", !.status = "ONBOARDING"]
        OBVIOUS
    <3>3. l.pc = "drop" /\ l.s = h[i].s /\ l.alone = h[i].alone /\ l.op = h[i].op
        BY <1>0, <3>2 DEF Fields
    <3>4. h' = [h EXCEPT ![i] = l]
        BY <1>0, <3>1, <3>2
    <3> QED
        BY <2>1, <2>2, <3>3, <3>4, SetPasses
  <2> QED
      BY <2>3
<1>12. CASE Reset(i)
  <2>1. h[i].pc = "reset" /\ UNCHANGED <<mirror, muddled>> /\ h[i].s \in Socs
      BY <1>12 DEF Reset, At, tenant, IInv, Shaped, InFlight
  <2>2. Calm
    <3>1. \A s \in Socs : soc'[s].tier = soc[s].tier /\ (soc'[s].ready => soc[s].ready)
        BY <1>12, <2>1 DEF Reset, IInv, Shaped, Columns
    <3> QED
        BY <2>1, <3>1 DEF Calm, PlansInv, Kinds
  <2> QED
      BY <1>12, <2>1, <2>2, GotoPasses DEF Reset
<1>13. CASE SignedIn(i)
  <2>1. h[i].pc = "signIn" /\ UNCHANGED <<soc, mirror, muddled>>
      BY <1>13 DEF SignedIn, At, tenant
  <2>2. Calm
      BY <2>1, SamePlans
  <2>3. CASE Finish(i)
      BY <2>1, <2>2, <2>3, FinishPasses
  <2>4. CASE ~Finish(i)
    <3>1. PICK todo : h' = [h EXCEPT ![i].pc = "find", ![i].u = 0, ![i].todo = todo]
        BY <1>13, <2>4 DEF SignedIn
    <3>2. PICK l : l = [h[i] EXCEPT !.pc = "find", !.u = 0, !.todo = todo]
        OBVIOUS
    <3>3. l.pc = "find" /\ l.s = h[i].s /\ l.alone = h[i].alone /\ l.op = h[i].op
        BY <1>0, <3>2 DEF Fields
    <3>4. h' = [h EXCEPT ![i] = l]
        BY <1>0, <3>1, <3>2
    <3> QED
        BY <2>1, <2>2, <3>3, <3>4, SetPasses
  <2> QED
      BY <2>3, <2>4
<1>14. CASE SaveStaff(i)
  <2>1. h[i].pc = "staff" /\ UNCHANGED <<soc, mirror, muddled>>
      BY <1>14 DEF SaveStaff, At, tenant
  <2>2. Calm
      BY <2>1, SamePlans
  <2>3. CASE Finish(i)
      BY <2>1, <2>2, <2>3, FinishPasses
  <2>4. CASE Goto(i, "staffLink")
      BY <2>1, <2>2, <2>4, GotoPasses
  <2>5. CASE ~Finish(i) /\ ~Goto(i, "staffLink")
    <3>1. PICK u : h' = [h EXCEPT ![i].pc = "staffLink", ![i].u = u]
        BY <1>14, <2>5 DEF SaveStaff
    <3>2. PICK l : l = [h[i] EXCEPT !.pc = "staffLink", !.u = u]
        OBVIOUS
    <3>3. l.pc = "staffLink" /\ l.s = h[i].s /\ l.alone = h[i].alone /\ l.op = h[i].op
        BY <1>0, <3>2 DEF Fields
    <3>4. h' = [h EXCEPT ![i] = l]
        BY <1>0, <3>1, <3>2
    <3> QED
        BY <2>1, <2>2, <3>3, <3>4, SetPasses
  <2> QED
      BY <2>3, <2>4, <2>5
<1>15. CASE LinkStaff(i)
  <2>1. h[i].pc = "staffLink" /\ UNCHANGED <<soc, mirror, muddled>>
      BY <1>15 DEF LinkStaff, At, tenant
  <2>2. Calm
      BY <2>1, SamePlans
  <2>3. PlansInv'
    <3>1. PICK todo : h' = [h EXCEPT ![i].pc = "find", ![i].u = 0, ![i].phone = "none", ![i].todo = todo]
        BY <1>15 DEF LinkStaff, ListStaff
    <3>2. PICK l : l = [h[i] EXCEPT !.pc = "find", !.u = 0, !.phone = "none", !.todo = todo]
        OBVIOUS
    <3>3. l.pc = "find" /\ l.s = h[i].s /\ l.alone = h[i].alone /\ l.op = h[i].op
        BY <1>0, <3>2 DEF Fields
    <3>4. h' = [h EXCEPT ![i] = l]
        BY <1>0, <3>1, <3>2
    <3> QED
        BY <2>1, <2>2, <3>3, <3>4, SetPasses
  <2> QED
      BY <2>3
<1>16. CASE Revoke(i)
  <2>1. h[i].pc = "revoke" /\ UNCHANGED <<soc, mirror, muddled>>
      BY <1>16 DEF Revoke, At, tenant
  <2>2. Calm
      BY <2>1, SamePlans
  <2>3. PlansInv'
    <3>1. PICK todo : h' = [h EXCEPT ![i].pc = "find", ![i].u = 0, ![i].phone = "none", ![i].todo = todo]
        BY <1>16 DEF Revoke, ListStaff
    <3>2. PICK l : l = [h[i] EXCEPT !.pc = "find", !.u = 0, !.phone = "none", !.todo = todo]
        OBVIOUS
    <3>3. l.pc = "find" /\ l.s = h[i].s /\ l.alone = h[i].alone /\ l.op = h[i].op
        BY <1>0, <3>2 DEF Fields
    <3>4. h' = [h EXCEPT ![i] = l]
        BY <1>0, <3>1, <3>2
    <3> QED
        BY <2>1, <2>2, <3>3, <3>4, SetPasses
  <2> QED
      BY <2>3
<1>17. CASE SaveProfile(i)
  <2>1. h[i].pc = "profile" /\ UNCHANGED <<soc, mirror, muddled>>
      BY <1>17 DEF SaveProfile, At, tenant
  <2>2. Calm
      BY <2>1, SamePlans
  <2>3. CASE Finish(i)
      BY <2>1, <2>2, <2>3, FinishPasses
  <2>4. CASE ~Finish(i)
    <3>1. PICK todo : h' = [h EXCEPT ![i].pc = "find", ![i].u = 0, ![i].email = "none", ![i].back = "drop", ![i].todo = todo]
        BY <1>17, <2>4 DEF SaveProfile
    <3>2. PICK l : l = [h[i] EXCEPT !.pc = "find", !.u = 0, !.email = "none", !.back = "drop", !.todo = todo]
        OBVIOUS
    <3>3. l.pc = "find" /\ l.s = h[i].s /\ l.alone = h[i].alone /\ l.op = h[i].op
        BY <1>0, <3>2 DEF Fields
    <3>4. h' = [h EXCEPT ![i] = l]
        BY <1>0, <3>1, <3>2
    <3> QED
        BY <2>1, <2>2, <3>3, <3>4, SetPasses
  <2> QED
      BY <2>3, <2>4
<1>18. CASE Load(i)
  <2>1. h[i].pc = "load" /\ UNCHANGED <<soc, mirror, muddled>>
      BY <1>18 DEF Load, At, tenant
  <2>2. Calm
      BY <2>1, SamePlans
  <2>3. PlansInv'
    <3>1. PICK x : h' = [h EXCEPT ![i].pc = "fill", ![i].status = x]
        BY <1>18 DEF Load
    <3>2. PICK l : l = [h[i] EXCEPT !.pc = "fill", !.status = x]
        OBVIOUS
    <3>3. l.pc = "fill" /\ l.s = h[i].s /\ l.alone = h[i].alone /\ l.op = h[i].op
        BY <1>0, <3>2 DEF Fields
    <3>4. h' = [h EXCEPT ![i] = l]
        BY <1>0, <3>1, <3>2
    <3> QED
        BY <2>1, <2>2, <3>3, <3>4, SetPasses
  <2> QED
      BY <2>3
<1>19. CASE Fill(i)
  <2>1. h[i].pc = "fill" /\ UNCHANGED <<soc, mirror, muddled>>
      BY <1>19 DEF Fill, At, tenant
  <2>2. Calm
      BY <2>1, SamePlans
  <2> QED
      BY <1>19, <2>1, <2>2, FinishPasses DEF Fill
<1> QED
    BY <1>1, <1>2, <1>3, <1>4, <1>5, <1>6, <1>7, <1>8, <1>9, <1>10, <1>11, <1>12, <1>13, <1>14, <1>15, <1>16, <1>17, <1>18, <1>19 DEF PassingSteps

LEMMA IdleEnds == Idle.pc = "idle" /\ Idle.op = "other" /\ Idle.alone = TRUE
    BY DEF Idle

(* The society that is being founded is nobody else's business.            *)
LEMMA FoundPasses == ASSUME IInv, PlansInv, NEW i \in Handlers, Found(i) PROVE PlansInv'
<1>0. DOMAIN h = Handlers /\ DOMAIN h[i] = Fields /\ DOMAIN soc = Socs
    BY DEF IInv, Shaped
<1>1. h[i].pc = "found" /\ UNCHANGED <<mirror, muddled>> /\ h[i].s \in Socs
    BY DEF Found, At, tenant, IInv, Shaped, InFlight
<1>2. CASE Taken(h[i].name, h[i].k)
  <2>1. Finish(i) /\ soc' = soc
      BY <1>2 DEF Found
  <2> QED
      BY <1>1, <2>1, SamePlans, FinishPasses
<1>3. CASE ~Taken(h[i].name, h[i].k)
  <2>1. PICK s \in Socs : s = h[i].s
      BY <1>1
  <2>2. PICK new : new.ready = FALSE /\ soc' = [soc EXCEPT ![s] = new]
      BY <1>3, <2>1 DEF Found
  <2>3. soc'[s].ready = FALSE /\ \A t \in Socs \ {s} : soc'[t] = soc[t]
      BY <1>0, <2>2
  <2>4. \A j \in Handlers : InFlight(j) /\ h[j].s = s => h[j].pc = "found"
      BY <1>1, <2>1 DEF IInv, Founding, Early
  <2>5. Calm
      BY <1>1, <2>3, <2>4 DEF Calm, PlansInv, Kinds
  <2>6. h' = [h EXCEPT ![i].pc = "provision", ![i].tier = Some(Tiers),
                       ![i].name = Some(Names), ![i].k = 1]
      BY <1>3 DEF Found
  <2>7. PICK l : l = [h[i] EXCEPT !.pc = "provision", !.tier = Some(Tiers),
                                  !.name = Some(Names), !.k = 1]
      OBVIOUS
  <2>8. l.pc = "provision" /\ l.s = h[i].s /\ l.alone = h[i].alone /\ l.op = h[i].op
      BY <1>0, <2>7 DEF Fields
  <2>9. h' = [h EXCEPT ![i] = l]
      BY <1>0, <2>6, <2>7
  <2> QED
      BY <1>1, <2>5, <2>8, <2>9, SetPasses DEF Bearing, Seeding
<1> QED
    BY <1>2, <1>3

(* Marking loads in flight changes nothing of this.                        *)
LEMMA CrossStays ==
    ASSUME NEW base, NEW S, NEW j \in Handlers, DOMAIN base[j] = Fields, h' = Cross(base, S)
    PROVE  /\ h'[j].pc = base[j].pc /\ h'[j].op = base[j].op /\ h'[j].s = base[j].s
           /\ h'[j].alone = base[j].alone /\ h'[j].tier = base[j].tier
           /\ h'[j].ready = base[j].ready
<1>1. h'[j] = IF base[j].pc \in {"load", "fill"} /\ base[j].s \in S
              THEN [base[j] EXCEPT !.crossed = TRUE] ELSE base[j]
    BY DEF Cross
<1>2. CASE base[j].pc \in {"load", "fill"} /\ base[j].s \in S
  <2>1. PICK r : r = [base[j] EXCEPT !.crossed = TRUE]
      OBVIOUS
  <2>2. /\ r.pc = base[j].pc /\ r.op = base[j].op /\ r.s = base[j].s
        /\ r.alone = base[j].alone /\ r.tier = base[j].tier /\ r.ready = base[j].ready
      BY <2>1 DEF Fields
  <2>3. h'[j] = r
      BY <1>1, <1>2, <2>1
  <2> QED
      BY <2>2, <2>3
<1> QED
    BY <1>1, <1>2

LEMMA EmptyPasses ==
    ASSUME IInv, PlansInv, NEW i \in Handlers, Wake(i) \/ Drop(i) \/ Clear(i)
    PROVE  PlansInv'
<1>0. DOMAIN h = Handlers /\ \A j \in Handlers : DOMAIN h[j] = Fields
    BY DEF IInv, Shaped
<1>1. PICK l, S : h' = Cross([h EXCEPT ![i] = l], S) /\ l \in {Idle, [h[i] EXCEPT !.pc = "rebuild"]}
  <2>1. CASE Clear(i) \/ Drop(i)
      BY <2>1 DEF Clear, Drop
  <2>2. CASE Wake(i)
    <3>1. h' = Cross([h EXCEPT ![i].pc = "rebuild"], {h[i].s})
        BY <2>2 DEF Wake
    <3> QED
        BY <1>0, <3>1
  <2> QED
      BY <2>1, <2>2
<1>2. PICK base : base = [h EXCEPT ![i] = l]
    OBVIOUS
<1>3. base[i] = l /\ \A j \in Handlers \ {i} : base[j] = h[j]
    BY <1>0, <1>2
<1>4. h[i].pc \in {"wake", "drop", "clear"} /\ UNCHANGED <<soc, mirror, muddled>>
    BY DEF Wake, Drop, Clear, At, tenant
<1>5. DOMAIN l = Fields
    BY <1>0, <1>1, IdleShape DEF Fields
<1>6. h' = Cross(base, S)
    BY <1>1, <1>2
<1>7. \A j \in Handlers \ {i} : Stays(j)
    BY <1>0, <1>3, <1>6, CrossStays DEF Stays
<1>8. h'[i].pc = l.pc /\ h'[i].op = l.op /\ h'[i].s = l.s /\ h'[i].alone = l.alone
    BY <1>3, <1>5, <1>6, CrossStays
<1>9. CASE l = Idle
    BY <1>4, <1>7, <1>8, <1>9, IdleEnds, SamePlans, CalmKeeps DEF Ends
<1>10. CASE l = [h[i] EXCEPT !.pc = "rebuild"]
  <2>1. l.pc = "rebuild" /\ l.op = h[i].op /\ l.s = h[i].s /\ l.alone = h[i].alone
      BY <1>0, <1>10 DEF Fields
  <2>2. h[i].op # "plan"
      BY <1>4 DEF PlansInv, Kinds
  <2>3. Passes(i)
      BY <1>4, <1>8, <2>1, <2>2 DEF Passes, Bearing, Seeding
  <2> QED
      BY <1>4, <1>7, <2>3, SamePlans, CalmKeeps
<1> QED
    BY <1>1, <1>9, <1>10

LEMMA ExpirePasses == ASSUME IInv, PlansInv, NEW s \in Socs, Expire(s) PROVE PlansInv'
<1>1. UNCHANGED <<soc, mirror, muddled>> /\ h' = h
    BY DEF Expire, tenant
<1>2. \A j \in Handlers : Stays(j)
    BY <1>1 DEF Stays
<1> QED
    BY <1>1, <1>2, SamePlans, CalmKeeps

(* A change of plan that dies before it has written the mirror leaves the  *)
(* society muddled.                                                        *)
LEMMA AbortPasses == ASSUME IInv, PlansInv, NEW i \in Handlers, Abort(i) PROVE PlansInv'
<1>0. /\ \A j \in Handlers : DOMAIN h[j] = Fields
      /\ muddled \in [Socs -> BOOLEAN]
    BY DEF IInv, Shaped, PlansInv, Kinds
<1>1. PICK s \in Socs : s = h[i].s
    BY DEF Abort, IInv, Shaped
<1>2. PICK left :
         /\ left = [j \in Handlers |->
                      IF j = i \/ (h[j].pc = "join" /\ h[j].s = s /\ provisioning[s] = i)
                      THEN Idle ELSE h[j]]
         /\ h' = IF h[i].pc \in {"wake", "drop"} THEN Cross(left, {s}) ELSE left
    BY <1>1 DEF Abort
<1>3. /\ soc' = soc /\ mirror' = mirror
      /\ muddled' = [muddled EXCEPT ![s] = @ \/ h[i].pc = "mirror"]
    BY <1>1 DEF Abort
<1>4. muddled' \in [Socs -> BOOLEAN] /\ \A t \in Socs : muddled[t] => muddled'[t]
    BY <1>0, <1>3
<1>5. h[i].pc = "mirror" => muddled'[s]
    BY <1>0, <1>3
<1>6. Calm
    BY <1>3, <1>4 DEF Calm
<1>7. ASSUME NEW j \in Handlers
      PROVE  /\ h'[j].pc = left[j].pc /\ h'[j].op = left[j].op /\ h'[j].s = left[j].s
             /\ h'[j].alone = left[j].alone /\ h'[j].tier = left[j].tier
             /\ h'[j].ready = left[j].ready
  <2>1. DOMAIN left[j] = Fields
      BY <1>0, <1>2, IdleShape
  <2>2. CASE h' = Cross(left, {s})
      BY <2>1, <2>2, CrossStays
  <2> QED
      BY <1>2, <2>2
<1>8. ASSUME NEW j \in Handlers PROVE Stays(j) \/ Ends(j)
  <2>1. CASE left[j] = h[j]
      BY <1>7, <2>1 DEF Stays
  <2>2. CASE left[j] = Idle /\ (j = i \/ h[j].pc = "join")
      BY <1>1, <1>5, <1>7, <2>2, IdleEnds DEF Ends
  <2> QED
      BY <1>2, <2>1, <2>2
<1> QED
    BY <1>6, <1>8, CalmKeeps

-----------------------------------------------------------------------------
(* The steps of a change of plan and of a seeding.  Who is in flight, and  *)
(* who has met whom, they change no more than the others do.               *)
Moves(j) == /\ h[j].pc # "idle" /\ h'[j].pc # "idle"
            /\ h'[j].pc \in {"plan", "mirror"} <=> h[j].pc \in {"plan", "mirror"}
            /\ h'[j].pc \in Seeding => h[j].pc \in Seeding
            /\ h'[j].op = h[j].op /\ h'[j].s = h[j].s /\ h'[j].alone = h[j].alone

Leaves(j) == h'[j].pc = "idle" /\ h'[j].op # "plan" /\ h'[j].alone \in BOOLEAN

LEMMA MeetKeeps ==
    ASSUME IInv, PlansInv, DOMAIN mirror' = Socs, muddled' \in [Socs -> BOOLEAN],
           \A s \in Socs : muddled[s] => muddled'[s],
           \A j \in Handlers : Stays(j) \/ Leaves(j) \/ Moves(j)
    PROVE  Kinds' /\ Lone' /\ Met'
<1>0. \A j \in Handlers : /\ h[j].pc # "idle" => h[j].s \in Socs
                          /\ h[j].alone \in BOOLEAN
                          /\ h[j].op = "plan" <=> h[j].pc \in {"plan", "mirror"}
    BY DEF IInv, Shaped, InFlight, PlansInv, Kinds
<1>1. Kinds'
  <2>1. ASSUME NEW j \in Handlers
        PROVE  h'[j].alone \in BOOLEAN /\ (h'[j].op = "plan" <=> h'[j].pc \in {"plan", "mirror"})
      BY <1>0 DEF Stays, Leaves, Moves
  <2> QED
      BY <2>1 DEF Kinds
<1>2. ASSUME NEW j \in Handlers, h'[j].pc # "idle"
      PROVE  /\ h[j].pc # "idle" /\ h'[j].s = h[j].s /\ h'[j].alone = h[j].alone
             /\ h'[j].op = h[j].op /\ h[j].s \in Socs
             /\ h'[j].pc \in Seeding => h[j].pc \in Seeding
    BY <1>0, <1>2 DEF Stays, Leaves, Moves
<1>3. Lone'
  <2> SUFFICES ASSUME NEW i \in Handlers, h'[i].pc # "idle", h'[i].alone,
                      NEW j \in Handlers \ {i}, h'[j].pc # "idle"
               PROVE  FALSE
      BY DEF Lone, InFlight, Undisturbed
  <2>1. h[i].pc # "idle" /\ h[i].alone /\ h[j].pc # "idle"
      BY <1>2
  <2> QED
      BY <2>1 DEF PlansInv, Lone, InFlight, Undisturbed
<1>4. Met'
  <2> SUFFICES ASSUME NEW i \in Handlers, NEW j \in Handlers \ {i},
                      h'[i].op = "plan", Plans(h'[j]), h'[j].s = h'[i].s
               PROVE  muddled'[h'[i].s]
      BY DEF Met, Plans
  <2>1. h'[i].pc # "idle"
      BY <1>1 DEF Kinds
  <2>2. h'[j].pc # "idle"
    <3>1. h'[j].op = "plan" => h'[j].pc \in {"plan", "mirror"}
        BY <1>1 DEF Kinds
    <3> QED
        BY <3>1 DEF Plans, Seeding
  <2>3. /\ h[i].op = "plan" /\ h'[i].s = h[i].s /\ h[i].s \in Socs
        /\ h[j].s = h[i].s /\ Plans(h[j])
      BY <1>2, <2>1, <2>2 DEF Plans
  <2>4. muddled[h[i].s]
      BY <2>3 DEF PlansInv, Met
  <2> QED
      BY <2>3, <2>4
<1> QED
    BY <1>1, <1>3, <1>4

Holding(i) == SeedHolds(i) /\ FlagHolds(i) /\ PlanHolds(i) /\ MirrorHolds(i)
Kept(s) == /\ soc'[s].tier = soc[s].tier
           /\ soc'[s].ready => soc[s].ready
           /\ mirror'[s] = mirror[s]
           /\ muddled[s] => muddled'[s]
BoughtOf(s) == \/ ~soc[s].ready \/ muddled[s]
               \/ \E i \in Handlers : h[i].pc = "mirror" /\ h[i].s = s
               \/ mirror[s] = soc[s].tier

LEMMA HoldingKept ==
    ASSUME PlansInv, NEW j \in Handlers, Stays(j), Kept(h[j].s) PROVE Holding(j)'
<1>1. SeedHolds(j) /\ FlagHolds(j) /\ PlanHolds(j) /\ MirrorHolds(j)
    BY DEF PlansInv
<1>2. /\ h'[j].pc = h[j].pc /\ h'[j].s = h[j].s /\ h'[j].alone = h[j].alone
      /\ h'[j].tier = h[j].tier /\ h'[j].ready = h[j].ready
    BY DEF Stays
<1> QED
    BY <1>1, <1>2 DEF Kept, Holding, SeedHolds, FlagHolds, PlanHolds, MirrorHolds

LEMMA BoughtKept ==
    ASSUME PlansInv, NEW s \in Socs, Kept(s),
           \A j \in Handlers : h[j].pc = "mirror" /\ h[j].s = s => Stays(j)
    PROVE  BoughtOf(s)'
<1>1. BoughtOf(s)
    BY DEF PlansInv, Bought, BoughtOf
<1> QED
    BY <1>1 DEF BoughtOf, Kept, Stays

LEMMA PlansTogether ==
    ASSUME Kinds', Lone', Met', \A j \in Handlers : Holding(j)', \A s \in Socs : BoughtOf(s)'
    PROVE  PlansInv'
    BY DEF Holding, BoughtOf, PlansInv, Bought

LEMMA VacantHolds ==
    ASSUME NEW j \in Handlers, h'[j].pc \notin Bearing PROVE Holding(j)'
    BY DEF Holding, SeedHolds, FlagHolds, PlanHolds, MirrorHolds, Bearing

(* A seeding reads the plan the society has.                               *)
LEMMA EntitlePasses ==
    ASSUME IInv, PlansInv, NEW i \in Handlers, ResolveEntitlements(i) PROVE PlansInv'
<1>0. DOMAIN h = Handlers /\ DOMAIN h[i] = Fields
    BY DEF IInv, Shaped
<1>1. h[i].pc = "entitle" /\ UNCHANGED <<soc, mirror, muddled>>
    BY DEF ResolveEntitlements, At, tenant
<1>2. h' = [h EXCEPT ![i].pc = "seed", ![i].tier = soc[h[i].s].tier]
    BY DEF ResolveEntitlements, Entitlement
<1>3. PICK l : l = [h[i] EXCEPT !.pc = "seed", !.tier = soc[h[i].s].tier]
    OBVIOUS
<1>4. /\ l.pc = "seed" /\ l.s = h[i].s /\ l.alone = h[i].alone /\ l.op = h[i].op
      /\ l.tier = soc[h[i].s].tier
    BY <1>0, <1>3 DEF Fields
<1>5. h'[i] = l /\ \A j \in Handlers \ {i} : h'[j] = h[j]
    BY <1>0, <1>2, <1>3
<1>6. \A j \in Handlers \ {i} : Stays(j)
    BY <1>5 DEF Stays
<1>7. Moves(i)
    BY <1>1, <1>4, <1>5 DEF Moves, Seeding
<1>8. Kinds' /\ Lone' /\ Met'
    BY <1>1, <1>6, <1>7, MeetKeeps DEF PlansInv, Kinds
<1>9. \A s : Kept(s)
    BY <1>1 DEF Kept
<1>10. Holding(i)'
    BY <1>1, <1>4, <1>5 DEF Holding, SeedHolds, FlagHolds, PlanHolds, MirrorHolds
<1>11. \A j \in Handlers : Holding(j)'
    BY <1>6, <1>9, <1>10, HoldingKept
<1>12. \A s \in Socs : BoughtOf(s)'
    BY <1>1, <1>6, <1>9, BoughtKept
<1> QED
    BY <1>8, <1>11, <1>12, PlansTogether

(* It writes what it read: still the plan of the society, unless a change  *)
(* of plan met it.                                                         *)
LEMMA SeedPasses == ASSUME IInv, PlansInv, NEW i \in Handlers, Seed(i) PROVE PlansInv'
<1>0. DOMAIN h = Handlers /\ \A j \in Handlers : DOMAIN h[j] = Fields
    BY DEF IInv, Shaped
<1>1. h[i].pc = "seed" /\ UNCHANGED <<soc, muddled>>
    BY DEF Seed, At
<1>2. PICK s \in Socs : s = h[i].s
    BY <1>1 DEF IInv, Shaped, InFlight
<1>3. /\ mirror' = [mirror EXCEPT ![s] = h[i].tier]
      /\ h' = [j \in Handlers |->
                 IF j = i THEN [h[j] EXCEPT !.pc = "flag", !.tier = Some(Tiers)]
                 ELSE IF h[j].pc = "join" /\ h[j].s = s THEN [h[j] EXCEPT !.pc = "flag"]
                 ELSE h[j]]
    BY <1>2 DEF Seed
<1>4. DOMAIN mirror = Socs /\ muddled \in [Socs -> BOOLEAN]
    BY DEF PlansInv, Kinds
<1>5. DOMAIN mirror' = Socs /\ mirror'[s] = h[i].tier /\ \A t \in Socs \ {s} : mirror'[t] = mirror[t]
    BY <1>3, <1>4
<1>6. mirror'[s] = soc[s].tier \/ muddled[s]
  <2>1. SeedHolds(i)
      BY DEF PlansInv
  <2> QED
      BY <1>1, <1>2, <1>5, <2>1 DEF SeedHolds
<1>7. ASSUME NEW j \in Handlers
      PROVE  Stays(j) \/ (Moves(j) /\ h'[j].pc = "flag" /\ h[j].pc # "mirror" /\ h[j].s = s)
  <2>1. CASE j = i
    <3>1. PICK l : l = [h[i] EXCEPT !.pc = "flag", !.tier = Some(Tiers)]
        OBVIOUS
    <3>2. l.pc = "flag" /\ l.s = h[i].s /\ l.alone = h[i].alone /\ l.op = h[i].op
        BY <1>0, <3>1 DEF Fields
    <3>3. h'[i] = l
        BY <1>3, <3>1
    <3> QED
        BY <1>1, <1>2, <2>1, <3>2, <3>3 DEF Moves, Seeding
  <2>2. CASE j # i /\ h[j].pc = "join" /\ h[j].s = s
    <3>1. PICK l : l = [h[j] EXCEPT !.pc = "flag"]
        OBVIOUS
    <3>2. l.pc = "flag" /\ l.s = h[j].s /\ l.alone = h[j].alone /\ l.op = h[j].op
        BY <1>0, <3>1 DEF Fields
    <3>3. h'[j] = l
        BY <1>3, <2>2, <3>1
    <3> QED
        BY <2>2, <3>2, <3>3 DEF Moves, Seeding
  <2>3. CASE j # i /\ ~(h[j].pc = "join" /\ h[j].s = s)
    <3>1. h'[j] = h[j]
        BY <1>3, <2>3
    <3> QED
        BY <3>1 DEF Stays
  <2> QED
      BY <2>1, <2>2, <2>3
<1>8. Kinds' /\ Lone' /\ Met'
    BY <1>1, <1>4, <1>5, <1>7, MeetKeeps
<1>9. \A t \in Socs \ {s} : Kept(t)
    BY <1>1, <1>5 DEF Kept
<1>10. ASSUME NEW j \in Handlers PROVE Holding(j)'
  <2>1. CASE h'[j].pc \notin Bearing
      BY <2>1, VacantHolds
  <2>2. CASE h'[j].pc \in Bearing /\ h[j].s # s
    <3>1. Stays(j) /\ h[j].s \in Socs
        BY <1>7, <2>2 DEF Stays, Bearing, IInv, Shaped, InFlight
    <3> QED
        BY <1>9, <2>2, <3>1, HoldingKept
  <2>3. CASE h[j].s = s /\ h'[j].pc = "flag"
    <3>1. h'[j].s = s
        BY <1>7, <2>3 DEF Stays, Moves
    <3> QED
        BY <1>1, <1>6, <2>3, <3>1 DEF Holding, SeedHolds, FlagHolds, PlanHolds, MirrorHolds
  <2>4. CASE h[j].s = s /\ h'[j].pc \in Bearing /\ h'[j].pc # "flag"
    <3>1. Stays(j)
        BY <1>7, <2>4
    <3>2. SeedHolds(j) /\ PlanHolds(j) /\ MirrorHolds(j)
        BY DEF PlansInv
    <3> QED
        BY <1>1, <2>4, <3>1, <3>2
        DEF Stays, Holding, SeedHolds, FlagHolds, PlanHolds, MirrorHolds
  <2> QED
      BY <2>1, <2>2, <2>3, <2>4
<1>11. ASSUME NEW t \in Socs PROVE BoughtOf(t)'
  <2>1. CASE t = s
      BY <1>1, <1>6, <2>1 DEF BoughtOf
  <2>2. CASE t # s
      BY <1>7, <1>9, <2>2, BoughtKept
  <2> QED
      BY <2>1, <2>2
<1> QED
    BY <1>8, <1>10, <1>11, PlansTogether

(* The database is said to be there once its mirror is written.            *)
LEMMA ProvisionedPasses == ASSUME IInv, PlansInv, NEW i \in Handlers, Provisioned(i) PROVE PlansInv'
<1>0. /\ DOMAIN h = Handlers /\ DOMAIN h[i] = Fields /\ h[i].back \in Backs
      /\ DOMAIN soc = Socs /\ \A t \in Socs : DOMAIN soc[t] = Columns
    BY DEF IInv, Shaped
<1>1. h[i].pc = "flag" /\ UNCHANGED <<mirror, muddled>>
    BY DEF Provisioned, At, tenant
<1>2. PICK s \in Socs : s = h[i].s
    BY <1>1 DEF IInv, Shaped, InFlight
<1>3. soc' = [soc EXCEPT ![s].ready = TRUE]
    BY <1>2 DEF Provisioned
<1>4. /\ \A t \in Socs : soc'[t].tier = soc[t].tier
      /\ \A t \in Socs \ {s} : soc'[t].ready = soc[t].ready
    BY <1>0, <1>3 DEF Columns
<1>5. DOMAIN mirror = Socs /\ muddled \in [Socs -> BOOLEAN]
    BY DEF PlansInv, Kinds
<1>6. mirror'[s] = soc'[s].tier \/ muddled'[s]
  <2>1. FlagHolds(i)
      BY DEF PlansInv
  <2> QED
      BY <1>1, <1>2, <1>4, <2>1 DEF FlagHolds
<1>7. /\ \A j \in Handlers \ {i} : Stays(j)
      /\ h'[i].pc \notin Bearing
      /\ Leaves(i) \/ Moves(i)
  <2>1. CASE Finish(i)
    <3>1. h'[i] = Idle /\ \A j \in Handlers \ {i} : h'[j] = h[j]
        BY <1>0, <2>1 DEF Finish
    <3> QED
        BY <3>1, IdleEnds DEF Stays, Leaves, Bearing
  <2>2. CASE Goto(i, h[i].back)
    <3>1. PICK l : l = [h[i] EXCEPT !.pc = h[i].back]
        OBVIOUS
    <3>2. l.pc = h[i].back /\ l.s = h[i].s /\ l.alone = h[i].alone /\ l.op = h[i].op
        BY <1>0, <3>1 DEF Fields
    <3>3. h'[i] = l /\ \A j \in Handlers \ {i} : h'[j] = h[j]
        BY <1>0, <2>2, <3>1 DEF Goto
    <3>4. h[i].back \notin Bearing \cup Seeding \cup {"idle"}
        BY <1>0, BackSteps
    <3> QED
        BY <1>1, <3>2, <3>3, <3>4 DEF Stays, Moves, Bearing
  <2> QED
      BY <2>1, <2>2 DEF Provisioned, Return
<1>8. Kinds' /\ Lone' /\ Met'
    BY <1>1, <1>5, <1>7, MeetKeeps
<1>9. \A t \in Socs \ {s} : Kept(t)
    BY <1>1, <1>4 DEF Kept
<1>10. ASSUME NEW j \in Handlers PROVE Holding(j)'
  <2>1. CASE h'[j].pc \notin Bearing
      BY <2>1, VacantHolds
  <2>2. CASE h'[j].pc \in Bearing /\ h[j].s # s
    <3>1. Stays(j) /\ h[j].s \in Socs
        BY <1>7, <2>2 DEF Stays, Bearing, IInv, Shaped, InFlight
    <3> QED
        BY <1>9, <2>2, <3>1, HoldingKept
  <2>3. CASE h'[j].pc \in Bearing /\ h[j].s = s
    <3>1. Stays(j) /\ j # i
        BY <1>7, <2>3
    <3>2. SeedHolds(j) /\ FlagHolds(j) /\ MirrorHolds(j)
        BY DEF PlansInv
    <3>3. h[j].pc = "plan" => muddled[s]
      <4>1. h[j].pc = "plan" => h[j].op = "plan"
          BY DEF PlansInv, Kinds
      <4>2. Plans(h[i])
          BY <1>1 DEF Plans, Seeding
      <4> QED
          BY <1>2, <2>3, <3>1, <4>1, <4>2 DEF PlansInv, Met
    <3> QED
        BY <1>1, <1>4, <2>3, <3>1, <3>2, <3>3
        DEF Stays, Holding, SeedHolds, FlagHolds, PlanHolds, MirrorHolds
  <2> QED
      BY <2>1, <2>2, <2>3
<1>11. ASSUME NEW t \in Socs PROVE BoughtOf(t)'
  <2>1. CASE t = s
      BY <1>6, <2>1 DEF BoughtOf
  <2>2. CASE t # s
      BY <1>1, <1>7, <1>9, <2>2, BoughtKept
  <2> QED
      BY <2>1, <2>2
<1> QED
    BY <1>8, <1>10, <1>11, PlansTogether

(* A change of plan writes the society: whoever holds the plan it had has  *)
(* met this request.                                                       *)
LEMMA SavePlanPasses == ASSUME IInv, PlansInv, NEW i \in Handlers, SavePlan(i) PROVE PlansInv'
<1>0. /\ DOMAIN h = Handlers /\ DOMAIN h[i] = Fields
      /\ DOMAIN soc = Socs /\ \A t \in Socs : DOMAIN soc[t] = Columns
    BY DEF IInv, Shaped
<1>1. h[i].pc = "plan" /\ h[i].op = "plan" /\ UNCHANGED <<mirror, muddled>>
    BY DEF SavePlan, At, tenant, PlansInv, Kinds
<1>2. PICK s \in Socs : s = h[i].s
    BY <1>1 DEF IInv, Shaped, InFlight
<1>3. soc' = [soc EXCEPT ![s].tier = h[i].tier]
    BY <1>2 DEF SavePlan
<1>4. /\ \A t \in Socs : soc'[t].ready = soc[t].ready
      /\ \A t \in Socs \ {s} : soc'[t].tier = soc[t].tier
      /\ soc'[s].tier = h[i].tier
    BY <1>0, <1>3 DEF Columns
<1>5. DOMAIN mirror = Socs /\ muddled \in [Socs -> BOOLEAN]
    BY DEF PlansInv, Kinds
<1>6. \A j \in Handlers \ {i} : Stays(j)
    BY <1>0 DEF SavePlan, Goto, Finish, Stays
<1>7. \/ h[i].ready /\ Moves(i) /\ h'[i].pc = "mirror" /\ h'[i].s = s /\ h'[i].tier = h[i].tier
      \/ ~h[i].ready /\ Leaves(i)
  <2>1. CASE h[i].ready
    <3>1. PICK l : l = [h[i] EXCEPT !.pc = "mirror"]
        OBVIOUS
    <3>2. /\ l.pc = "mirror" /\ l.s = h[i].s /\ l.alone = h[i].alone /\ l.op = h[i].op
          /\ l.tier = h[i].tier
        BY <1>0, <3>1 DEF Fields
    <3>3. h'[i] = l
        BY <1>0, <2>1, <3>1 DEF SavePlan, Goto
    <3> QED
        BY <1>1, <1>2, <2>1, <3>2, <3>3 DEF Moves, Seeding
  <2>2. CASE ~h[i].ready
    <3>1. h'[i] = Idle
        BY <1>0, <2>2 DEF SavePlan, Finish
    <3> QED
        BY <2>2, <3>1, IdleEnds DEF Leaves
  <2> QED
      BY <2>1, <2>2
<1>8. Kinds' /\ Lone' /\ Met'
    BY <1>1, <1>5, <1>6, <1>7, MeetKeeps
<1>9. \A t \in Socs \ {s} : Kept(t)
    BY <1>1, <1>4 DEF Kept
<1>10. ASSUME NEW j \in Handlers PROVE Holding(j)'
  <2>1. CASE h'[j].pc \notin Bearing
      BY <2>1, VacantHolds
  <2>2. CASE j = i /\ h'[i].pc = "mirror"
      BY <1>4, <1>7, <2>2 DEF Leaves, Holding, SeedHolds, FlagHolds, PlanHolds, MirrorHolds
  <2>3. CASE h'[j].pc \in Bearing /\ j # i /\ h[j].s # s
    <3>1. Stays(j) /\ h[j].s \in Socs
        BY <1>6, <2>3 DEF Stays, Bearing, IInv, Shaped, InFlight
    <3> QED
        BY <1>9, <2>3, <3>1, HoldingKept
  <2>4. CASE h'[j].pc \in Bearing /\ j # i /\ h[j].s = s
    <3>1. Stays(j) /\ h[j].pc \in Bearing
        BY <1>6, <2>4 DEF Stays
    <3>2. Plans(h[j])
      <4>1. h[j].pc \in {"plan", "mirror"} => h[j].op = "plan"
          BY DEF PlansInv, Kinds
      <4> QED
          BY <3>1, <4>1 DEF Plans, Seeding, Bearing
    <3>3. muddled[s]
        BY <1>1, <1>2, <2>4, <3>2 DEF PlansInv, Met
    <3>4. ~h[j].alone
        BY <1>1, <2>4, <3>1 DEF PlansInv, Lone, InFlight, Undisturbed, Bearing
    <3> QED
        BY <1>1, <2>4, <3>1, <3>3, <3>4
        DEF Stays, Holding, SeedHolds, FlagHolds, PlanHolds, MirrorHolds
  <2> QED
      BY <1>7, <2>1, <2>2, <2>3, <2>4 DEF Leaves, Bearing
<1>11. ASSUME NEW t \in Socs PROVE BoughtOf(t)'
  <2>1. CASE t = s /\ h[i].ready
      BY <1>7, <2>1 DEF BoughtOf
  <2>2. CASE t = s /\ ~h[i].ready
    <3>1. PlanHolds(i)
        BY DEF PlansInv
    <3>2. ~soc[s].ready \/ muddled[s]
        BY <1>1, <1>2, <2>2, <3>1 DEF PlanHolds
    <3> QED
        BY <1>1, <1>4, <2>2, <3>2 DEF BoughtOf
  <2>3. CASE t # s
      BY <1>1, <1>6, <1>9, <2>3, BoughtKept
  <2> QED
      BY <2>1, <2>2, <2>3
<1> QED
    BY <1>8, <1>10, <1>11, PlansTogether

(* And then the mirror.  If it did so with nothing else in flight, what it *)
(* writes is the plan of the society, whatever had been muddled before.    *)
LEMMA SyncPasses == ASSUME IInv, PlansInv, NEW i \in Handlers, SyncMirror(i) PROVE PlansInv'
<1>0. DOMAIN h = Handlers /\ DOMAIN h[i] = Fields
    BY DEF IInv, Shaped
<1>1. h[i].pc = "mirror" /\ h[i].op = "plan" /\ soc' = soc
    BY DEF SyncMirror, At, PlansInv, Kinds
<1>2. PICK s \in Socs : s = h[i].s
    BY <1>1 DEF IInv, Shaped, InFlight
<1>3. /\ mirror' = [mirror EXCEPT ![s] = h[i].tier]
      /\ muddled' = [muddled EXCEPT ![s] = @ /\ ~h[i].alone]
    BY <1>2 DEF SyncMirror
<1>4. DOMAIN mirror = Socs /\ muddled \in [Socs -> BOOLEAN] /\ h[i].alone \in BOOLEAN
    BY DEF PlansInv, Kinds
<1>5. /\ DOMAIN mirror' = Socs /\ mirror'[s] = h[i].tier
      /\ \A t \in Socs \ {s} : mirror'[t] = mirror[t]
    BY <1>3, <1>4
<1>6. /\ muddled' \in [Socs -> BOOLEAN] /\ muddled'[s] = (muddled[s] /\ ~h[i].alone)
      /\ \A t \in Socs \ {s} : muddled'[t] = muddled[t]
    BY <1>3, <1>4
<1>7. h'[i] = Idle /\ \A j \in Handlers \ {i} : h'[j] = h[j]
    BY <1>0 DEF SyncMirror, Finish
<1>8. Leaves(i) /\ \A j \in Handlers \ {i} : Stays(j)
    BY <1>7, IdleEnds DEF Leaves, Stays
<1>9. mirror'[s] = soc[s].tier \/ muddled'[s]
  <2>1. MirrorHolds(i)
      BY DEF PlansInv
  <2> QED
      BY <1>1, <1>2, <1>5, <1>6, <2>1 DEF MirrorHolds
<1>10. \A t \in Socs \ {s} : Kept(t)
    BY <1>1, <1>5, <1>6 DEF Kept
<1>11. ASSUME NEW t \in Socs PROVE BoughtOf(t)'
  <2>1. CASE t = s
      BY <1>1, <1>9, <2>1 DEF BoughtOf
  <2>2. CASE t # s
      BY <1>2, <1>8, <1>10, <2>2, BoughtKept
  <2> QED
      BY <2>1, <2>2
<1>12. CASE h[i].alone
  <2>1. \A j \in Handlers : h'[j].pc = "idle" /\ h'[j].op # "plan" /\ h'[j].alone \in BOOLEAN
    <3>1. \A j \in Handlers \ {i} : h[j].pc = "idle"
        BY <1>1, <1>12 DEF PlansInv, Lone, InFlight, Undisturbed
    <3>2. \A j \in Handlers \ {i} : h[j].op # "plan" /\ h[j].alone \in BOOLEAN
        BY <3>1 DEF PlansInv, Kinds
    <3> QED
        BY <1>7, <3>1, <3>2, IdleEnds
  <2>2. Kinds'
      BY <1>5, <1>6, <2>1 DEF Kinds
  <2>3. Lone' /\ Met'
      BY <2>1 DEF Lone, Met, InFlight
  <2>4. \A j \in Handlers : Holding(j)'
      BY <2>1, VacantHolds DEF Bearing
  <2> QED
      BY <1>11, <2>2, <2>3, <2>4, PlansTogether
<1>13. CASE ~h[i].alone
  <2>1. \A t \in Socs : muddled[t] => muddled'[t]
      BY <1>6, <1>13
  <2>2. Kinds' /\ Lone' /\ Met'
      BY <1>5, <1>6, <1>8, <2>1, MeetKeeps
  <2>3. ASSUME NEW j \in Handlers PROVE Holding(j)'
    <3>1. CASE h'[j].pc \notin Bearing
        BY <3>1, VacantHolds
    <3>2. CASE h'[j].pc \in Bearing /\ h[j].s # s
      <4>1. Stays(j) /\ h[j].s \in Socs
          BY <1>7, <1>8, <3>2, IdleEnds DEF Stays, Bearing, IInv, Shaped, InFlight
      <4> QED
          BY <1>10, <3>2, <4>1, HoldingKept
    <3>3. CASE h'[j].pc \in Bearing /\ h[j].s = s
      <4>1. Stays(j) /\ j # i
          BY <1>7, <1>8, <3>3, IdleEnds DEF Bearing
      <4>2. SeedHolds(j) /\ PlanHolds(j) /\ MirrorHolds(j)
          BY DEF PlansInv
      <4>3. h[j].pc = "flag" => muddled[s]
        <5>1. h[j].pc = "flag" => Plans(h[j])
            BY DEF Plans, Seeding
        <5> QED
            BY <1>1, <1>2, <3>3, <4>1, <5>1 DEF PlansInv, Met
      <4> QED
          BY <1>1, <2>1, <3>3, <4>1, <4>2, <4>3
          DEF Stays, Holding, SeedHolds, FlagHolds, PlanHolds, MirrorHolds
    <3> QED
        BY <3>1, <3>2, <3>3
  <2> QED
      BY <1>11, <2>2, <2>3, PlansTogether
<1> QED
    BY <1>12, <1>13

-----------------------------------------------------------------------------
(* A request begins: with others in flight none of them is alone any more, *)
(* and a change of plan that finds a seeding, or the other way round,      *)
(* leaves the society muddled.                                             *)
LEMMA BeginPasses ==
    ASSUME IInv, PlansInv, NEW i \in Handlers, NEW local, Begin(i, local),
           DOMAIN local = Fields, local.s \in Socs,
           local.pc \notin {"idle", "seed", "flag", "mirror"},
           local.op = "plan" <=> local.pc = "plan",
           local.pc = "plan" /\ ~local.ready => ~soc[local.s].ready
    PROVE  PlansInv'
<1>1. h[i].pc = "idle" /\ soc' = soc /\ mirror' = mirror
    BY DEF Begin, InFlight
<1>2. DOMAIN mirror = Socs /\ muddled \in [Socs -> BOOLEAN]
    BY DEF PlansInv, Kinds
<1>3. muddled' = [muddled EXCEPT ![local.s] = @ \/ Crosses(i, local)]
    BY DEF Begin
<1>4. /\ muddled' \in [Socs -> BOOLEAN] /\ \A s \in Socs : muddled[s] => muddled'[s]
      /\ Crosses(i, local) => muddled'[local.s]
    BY <1>2, <1>3
<1>5. PICK mine : mine = [local EXCEPT !.alone = Undisturbed(i)]
    OBVIOUS
<1>6. /\ mine.pc = local.pc /\ mine.s = local.s /\ mine.op = local.op /\ mine.ready = local.ready
      /\ mine.alone = Undisturbed(i) /\ mine.alone \in BOOLEAN
  <2>1. DOMAIN mine = Fields
      BY <1>5
  <2>2. mine.alone = Undisturbed(i)
      BY <1>5 DEF Fields
  <2>3. Undisturbed(i) \in BOOLEAN
      BY DEF Undisturbed, InFlight
  <2> QED
      BY <1>5, <2>2, <2>3 DEF Fields
<1>7. h'[i] = mine
    BY <1>5 DEF Begin
<1>8. ASSUME NEW j \in Handlers \ {i}
      PROVE  /\ h'[j].pc = h[j].pc /\ h'[j].s = h[j].s /\ h'[j].op = h[j].op
             /\ h'[j].tier = h[j].tier /\ h'[j].ready = h[j].ready
             /\ h'[j].alone = IF h[j].pc = "idle" THEN h[j].alone ELSE FALSE
  <2>1. h'[j] = IF h[j].pc # "idle" THEN [h[j] EXCEPT !.alone = FALSE] ELSE h[j]
      BY DEF Begin, InFlight
  <2>2. DOMAIN h[j] = Fields
      BY DEF IInv, Shaped
  <2> QED
      BY <2>1, <2>2 DEF Fields
<1>9. \A j \in Handlers : /\ h[j].pc # "idle" => h[j].s \in Socs
                          /\ h[j].alone \in BOOLEAN
                          /\ h[j].op = "plan" <=> h[j].pc \in {"plan", "mirror"}
    BY DEF IInv, Shaped, InFlight, PlansInv, Kinds
<1>10. Kinds'
  <2>1. ASSUME NEW j \in Handlers
        PROVE  h'[j].alone \in BOOLEAN /\ (h'[j].op = "plan" <=> h'[j].pc \in {"plan", "mirror"})
    <3>1. CASE j = i
        BY <1>6, <1>7, <3>1
    <3>2. CASE j # i
        BY <1>8, <1>9, <3>2
    <3> QED
        BY <3>1, <3>2
  <2> QED
      BY <1>1, <1>2, <1>4, <2>1 DEF Kinds
<1>11. Lone'
  <2> SUFFICES ASSUME NEW k \in Handlers, h'[k].pc # "idle", h'[k].alone,
                      NEW j \in Handlers \ {k}, h'[j].pc # "idle"
               PROVE  FALSE
      BY DEF Lone, InFlight, Undisturbed
  <2>1. CASE k = i
      BY <1>6, <1>7, <1>8, <2>1 DEF Undisturbed, InFlight
  <2>2. CASE k # i
      BY <1>8, <2>2
  <2> QED
      BY <2>1, <2>2
<1>12. Met'
  <2> SUFFICES ASSUME NEW a \in Handlers, NEW b \in Handlers \ {a},
                      h'[a].op = "plan", Plans(h'[b]), h'[b].s = h'[a].s
               PROVE  muddled'[h'[a].s]
      BY DEF Met, Plans
  <2>1. CASE a = i
    <3>1. h[b].s = local.s /\ Plans(h[b]) /\ local.op = "plan"
        BY <1>6, <1>7, <1>8, <2>1 DEF Plans
    <3>2. Crosses(i, local)
        BY <2>1, <3>1 DEF Crosses, Plans
    <3> QED
        BY <1>4, <1>6, <1>7, <2>1, <3>2
  <2>2. CASE b = i
    <3>1. h[a].s = local.s /\ h[a].op = "plan" /\ Plans(local) /\ h'[a].s = local.s
        BY <1>6, <1>7, <1>8, <2>2 DEF Plans
    <3>2. Crosses(i, local)
        BY <2>2, <3>1 DEF Crosses, Plans
    <3> QED
        BY <1>4, <3>1, <3>2
  <2>3. CASE a # i /\ b # i
    <3>1. /\ h[a].op = "plan" /\ Plans(h[b]) /\ h[b].s = h[a].s /\ h'[a].s = h[a].s
          /\ h[a].pc # "idle"
        BY <1>8, <1>9, <2>3 DEF Plans
    <3>2. muddled[h[a].s]
        BY <3>1 DEF PlansInv, Met
    <3> QED
        BY <1>4, <1>9, <3>1, <3>2
  <2> QED
      BY <2>1, <2>2, <2>3
<1>13. ASSUME NEW j \in Handlers PROVE Holding(j)'
  <2>1. CASE j = i
    <3>1. h'[i].pc \notin {"seed", "flag", "mirror"}
        BY <1>6, <1>7
    <3>2. h'[i].pc = "plan" /\ ~h'[i].ready => ~soc'[h'[i].s].ready
        BY <1>1, <1>6, <1>7
    <3> QED
        BY <2>1, <3>1, <3>2 DEF Holding, SeedHolds, FlagHolds, PlanHolds, MirrorHolds
  <2>2. CASE j # i /\ h[j].pc \notin Bearing
      BY <1>8, <2>2, VacantHolds
  <2>3. CASE j # i /\ h[j].pc \in Bearing
    <3>1. h[j].s \in Socs /\ h'[j].alone = FALSE
        BY <1>8, <1>9, <2>3 DEF Bearing
    <3>2. SeedHolds(j) /\ FlagHolds(j) /\ PlanHolds(j) /\ MirrorHolds(j)
        BY DEF PlansInv
    <3> QED
        BY <1>1, <1>4, <1>8, <2>3, <3>1, <3>2
        DEF Holding, SeedHolds, FlagHolds, PlanHolds, MirrorHolds
  <2> QED
      BY <2>1, <2>2, <2>3
<1>14. ASSUME NEW s \in Socs PROVE BoughtOf(s)'
  <2>1. BoughtOf(s)
      BY DEF PlansInv, Bought, BoughtOf
  <2>2. \A j \in Handlers : h[j].pc = "mirror" => h'[j].pc = "mirror" /\ h'[j].s = h[j].s
      BY <1>1, <1>8
  <2> QED
      BY <1>1, <1>4, <2>1, <2>2 DEF BoughtOf
<1> QED
    BY <1>10, <1>11, <1>12, <1>13, <1>14, PlansTogether

(* Any request but a change of plan.                                       *)
LEMMA StartsPasses ==
    ASSUME IInv, PlansInv, NEW i \in Handlers, NEW local, Starts(i, local),
           DOMAIN local = Fields, local.s \in Socs, local.op # "plan",
           local.pc \notin {"idle", "seed", "flag", "plan", "mirror"}
    PROVE  PlansInv'
    BY BeginPasses DEF Starts

LEMMA ProvisioningPasses ==
    ASSUME IInv, PlansInv, NEW i \in Handlers, NEW s \in Socs, NEW step \in {"structure", "admin", "count"},
           NEW local, DOMAIN local = Fields, local.op # "plan",
           Starts(i, Provisioning(s, step, local))
    PROVE  PlansInv'
<1>1. PICK l : l = Provisioning(s, step, local)
    OBVIOUS
<1>2. DOMAIN l = Fields /\ l.op = local.op /\ l.s = s /\ l.pc \in {step, "provision"}
    BY <1>1 DEF Provisioning, Fields
<1> QED
    BY <1>1, <1>2, StartsPasses

LEMMA RequestPasses == ASSUME IInv, PlansInv, NEW i \in Handlers, Request(i) PROVE PlansInv'
<1>0. DOMAIN Idle = Fields /\ Idle.op = "other"
    BY IdleShape, IdleEnds

<1>1. ASSUME NEW n, NEW t, NEW p, NEW e, Create(i, n, t, p, e) PROVE PlansInv'
  <2>1. PICK s \in Unused : s = Some(Unused)
      BY <1>1 DEF Create, Some
  <2>2. s \in Socs
      BY <2>1 DEF Unused
  <2>3. PICK l : l = [Idle EXCEPT !.pc = "slug", !.s = s, !.name = n, !.tier = t,
                        !.phone = p, !.email = e,
                        !.back = IF p = "none" /\ e = "none" THEN "done" ELSE "admin"]
      OBVIOUS
  <2>4. DOMAIN l = Fields /\ l.op = "other" /\ l.s = s /\ l.pc = "slug"
      BY <1>0, <2>3 DEF Fields
  <2>5. Starts(i, l)
      BY <1>1, <2>1, <2>3 DEF Create
  <2> QED
      BY <2>2, <2>4, <2>5, StartsPasses
<1>2. ASSUME NEW s \in Socs, NEW p, NEW e, Admin(i, s, p, e) PROVE PlansInv'
  <2>1. PICK l : l = [Idle EXCEPT !.phone = p, !.email = e, !.live = soc[s].status = "ACTIVE"]
      OBVIOUS
  <2>2. DOMAIN l = Fields /\ l.op = "other"
      BY <1>0, <2>1 DEF Fields
  <2>3. Starts(i, Provisioning(s, "admin", l))
      BY <1>2, <2>1 DEF Admin
  <2> QED
      BY <2>2, <2>3, ProvisioningPasses
<1>3. ASSUME NEW s \in Socs, NEW p, NEW e, Invite(i, s, p, e) PROVE PlansInv'
  <2>1. PICK l : l = [Idle EXCEPT !.pc = "admin", !.s = s, !.phone = p, !.email = e,
                        !.live = soc[s].status = "ACTIVE"]
      OBVIOUS
  <2>2. DOMAIN l = Fields /\ l.op = "other" /\ l.s = s /\ l.pc = "admin"
      BY <1>0, <2>1 DEF Fields
  <2>3. Starts(i, l)
      BY <1>3, <2>1 DEF Invite
  <2> QED
      BY <2>2, <2>3, StartsPasses
<1>4. ASSUME NEW s \in Socs, NEW p, NEW e, Login(i, s, p, e) PROVE PlansInv'
  <2>1. PICK u : Starts(i, [Idle EXCEPT !.pc = "signIn", !.s = s, !.u = u])
      BY <1>4 DEF Login
  <2>2. PICK l : l = [Idle EXCEPT !.pc = "signIn", !.s = s, !.u = u]
      OBVIOUS
  <2>3. DOMAIN l = Fields /\ l.op = "other" /\ l.s = s /\ l.pc = "signIn"
      BY <1>0, <2>2 DEF Fields
  <2> QED
      BY <2>1, <2>2, <2>3, StartsPasses
<1>5. ASSUME NEW s \in Socs, Structure(i, s) PROVE PlansInv'
    BY <1>0, <1>5, ProvisioningPasses DEF Structure
<1>6. ASSUME NEW s \in Socs, Rebuild(i, s) PROVE PlansInv'
  <2>1. PICK l : l = [Idle EXCEPT !.pc = "rebuild", !.s = s, !.back = "clear"]
      OBVIOUS
  <2>2. DOMAIN l = Fields /\ l.op = "other" /\ l.s = s /\ l.pc = "rebuild"
      BY <1>0, <2>1 DEF Fields
  <2>3. Starts(i, l)
      BY <1>6, <2>1 DEF Rebuild
  <2> QED
      BY <2>2, <2>3, StartsPasses
<1>7. ASSUME NEW s \in Socs, Reprovision(i, s) PROVE PlansInv'
  <2>1. PICK l : l = [Idle EXCEPT !.pc = "reset", !.s = s]
      OBVIOUS
  <2>2. DOMAIN l = Fields /\ l.op = "other" /\ l.s = s /\ l.pc = "reset"
      BY <1>0, <2>1 DEF Fields
  <2>3. Starts(i, l)
      BY <1>7, <2>1 DEF Reprovision
  <2> QED
      BY <2>2, <2>3, StartsPasses
<1>8. ASSUME NEW s \in Socs, RevokeStaff(i, s) PROVE PlansInv'
  <2>1. PICK l : l = [Idle EXCEPT !.pc = "revoke", !.s = s, !.u = staff[s],
                        !.phone = users[staff[s]].phone]
      OBVIOUS
  <2>2. DOMAIN l = Fields /\ l.op = "other" /\ l.s = s /\ l.pc = "revoke"
      BY <1>0, <2>1 DEF Fields
  <2>3. Starts(i, l)
      BY <1>8, <2>1 DEF RevokeStaff
  <2> QED
      BY <2>2, <2>3, StartsPasses
<1>9. ASSUME NEW s \in Socs, Visit(i, s) PROVE PlansInv'
  <2>1. PICK l : l = [Idle EXCEPT !.pc = "load", !.s = s]
      OBVIOUS
  <2>2. DOMAIN l = Fields /\ l.op = "other" /\ l.s = s /\ l.pc = "load"
      BY <1>0, <2>1 DEF Fields
  <2>3. Begin(i, l)
      BY <1>9, <2>1 DEF Visit
  <2> QED
      BY <2>2, <2>3, BeginPasses
<1>10. ASSUME NEW s \in Socs, NEW wizard, Activate(i, s, wizard) PROVE PlansInv'
  <2>1. PICK l : l = [Idle EXCEPT !.op = "activate"]
      OBVIOUS
  <2>2. DOMAIN l = Fields /\ l.op = "activate"
      BY <1>0, <2>1 DEF Fields
  <2>3. Starts(i, Provisioning(s, "count", l))
      BY <1>10, <2>1 DEF Activate
  <2> QED
      BY <2>2, <2>3, ProvisioningPasses
<1>11. ASSUME NEW s \in Socs, NEW status, SetStatus(i, s, status) PROVE PlansInv'
  <2>1. PICK l : l = [Idle EXCEPT !.pc = "status", !.s = s, !.status = status]
      OBVIOUS
  <2>2. DOMAIN l = Fields /\ l.op = "other" /\ l.s = s /\ l.pc = "status"
      BY <1>0, <2>1 DEF Fields
  <2>3. Starts(i, l)
      BY <1>11, <2>1 DEF SetStatus
  <2> QED
      BY <2>2, <2>3, StartsPasses
<1>12. ASSUME NEW s \in Socs, NEW t, Plan(i, s, t) PROVE PlansInv'
  <2>1. PICK l : l = [Idle EXCEPT !.pc = "plan", !.op = "plan", !.s = s, !.tier = t,
                        !.ready = soc[s].ready]
      OBVIOUS
  <2>2. DOMAIN l = Fields /\ l.op = "plan" /\ l.s = s /\ l.pc = "plan" /\ l.ready = soc[s].ready
      BY <1>0, <2>1 DEF Fields
  <2>3. Begin(i, l)
      BY <1>12, <2>1 DEF Plan, Starts
  <2> QED
      BY <2>2, <2>3, BeginPasses
<1>13. ASSUME NEW s \in Socs, NEW p, StaffLogin(i, s, p) PROVE PlansInv'
  <2>1. PICK l : l = [Idle EXCEPT !.pc = "staff", !.s = s, !.phone = p, !.u = staff[s]]
      OBVIOUS
  <2>2. DOMAIN l = Fields /\ l.op = "other" /\ l.s = s /\ l.pc = "staff"
      BY <1>0, <2>1 DEF Fields
  <2>3. Starts(i, l)
      BY <1>13, <2>1 DEF StaffLogin
  <2> QED
      BY <2>2, <2>3, StartsPasses
<1>14. ASSUME NEW s \in Socs, NEW u, NEW e, Profile(i, s, u, e) PROVE PlansInv'
  <2>1. PICK l : l = [Idle EXCEPT !.pc = "profile", !.s = s, !.u = u, !.email = e]
      OBVIOUS
  <2>2. DOMAIN l = Fields /\ l.op = "other" /\ l.s = s /\ l.pc = "profile"
      BY <1>0, <2>1 DEF Fields
  <2>3. Starts(i, l)
      BY <1>14, <2>1 DEF Profile
  <2> QED
      BY <2>2, <2>3, StartsPasses
<1> QED
    BY <1>1, <1>2, <1>3, <1>4, <1>5, <1>6, <1>7, <1>8, <1>9, <1>10, <1>11, <1>12, <1>13, <1>14
    DEF Request
-----------------------------------------------------------------------------
LEMMA PlansInit == Init => PlansInv
<1> SUFFICES ASSUME Init PROVE PlansInv
    OBVIOUS
<1>1. \A i \in Handlers : h[i].pc = "idle" /\ h[i].op = "other" /\ h[i].alone = TRUE
    BY IdleEnds DEF Init
<1>2. DOMAIN mirror = Socs /\ muddled \in [Socs -> BOOLEAN]
    BY DEF Init
<1>3. \A s \in Socs : ~soc[s].ready \/ mirror[s] = soc[s].tier
    BY DEF Init
<1> QED
    BY <1>1, <1>2, <1>3 DEF PlansInv, Kinds, Lone, Met, InFlight, SeedHolds, FlagHolds, PlanHolds,
                            MirrorHolds, Bought

LEMMA PlansNext == IInv /\ PlansInv /\ [Next]_vars => PlansInv'
<1> SUFFICES ASSUME IInv, PlansInv, [Next]_vars PROVE PlansInv'
    OBVIOUS
<1>1. CASE UNCHANGED vars
  <2>1. UNCHANGED <<soc, mirror, muddled>> /\ h' = h
      BY <1>1 DEF vars
  <2>2. \A j \in Handlers : Stays(j)
      BY <2>1 DEF Stays
  <2> QED
      BY <2>1, <2>2, SamePlans, CalmKeeps
<1>2. ASSUME NEW i \in Handlers, Advance(i) PROVE PlansInv'
    BY <1>2, FoundPasses, EntitlePasses, SeedPasses, ProvisionedPasses, SavePlanPasses, SyncPasses,
       EmptyPasses, StepsPass DEF Advance, PassingSteps
<1>3. CASE Next
    BY <1>2, <1>3, RequestPasses, AbortPasses, ExpirePasses DEF Next
<1> QED
    BY <1>1, <1>3

LEMMA PlansAlways == Spec => []PlansInv
    BY InvAlways, PlansInit, PlansNext, PTL DEF Spec

(* The plan a society's requests are judged by is the one it has, through  *)
(* a creation that died half way, plans bought before there was a          *)
(* database, and seeding it again, unless a change of plan died or met     *)
(* another or a seeding and none has gone through alone since              *)
(* (manager.ts 186-194, societiesRouter.ts 494-500).                       *)
THEOREM EntitlementsFollowCorrect == Spec => []EntitlementsFollow
<1>1. PlansInv => EntitlementsFollow
    BY DEF PlansInv, Kinds, Bought, EntitlementsFollow
<1> QED
    BY <1>1, PlansAlways, PTL

-----------------------------------------------------------------------------
(***************************************************************************)
(* What a rebuild does to the directory.                                   *)
(***************************************************************************)
LEMMA LeastIs ==
    ASSUME NEW S \in SUBSET Nat, S # {}
    PROVE  Least(S) \in S /\ \A m \in S : Least(S) <= m
<1>1. PICK n \in S : \A m \in S : ~(<<m, n>> \in OpToRel(<, Nat))
    BY NatLessThanWellFounded, WFMin
<1>2. \A m \in S : ~(m < n)
    BY <1>1 DEF OpToRel
<1>3. \A m \in S : n <= m
    BY <1>2
<1> QED
    BY <1>3 DEF Least

(* The first document of a sequence that is for a phone number or an email.*)
IsRow(d, r, p, e) ==
    /\ r \in 0..Len(d)
    /\ r # 0 => IsFor(d[r], p, e)
    /\ \A q \in 1..Len(d) : r = 0 \/ q < r => ~IsFor(d[q], p, e)

LEMMA IsRowLeast ==
    ASSUME NEW d, Len(d) \in Nat, DOMAIN d = 1..Len(d), NEW p, NEW e
    PROVE  /\ IsRow(d, Least({q \in DOMAIN d : IsFor(d[q], p, e)}), p, e)
           /\ \A r : IsRow(d, r, p, e) => r = Least({q \in DOMAIN d : IsFor(d[q], p, e)})
<1> DEFINE S == {q \in DOMAIN d : IsFor(d[q], p, e)}
           m == Least(S)
<1>1. S \in SUBSET Nat
    OBVIOUS
<1>2. IsRow(d, m, p, e)
  <2>1. CASE S = {}
      BY <2>1 DEF Least, IsRow
  <2>2. CASE S # {}
    <3> HIDE DEF m, S
    <3>1. m \in S /\ \A n \in S : m <= n
        BY <1>1, <2>2, LeastIs DEF m
    <3>2. m \in 1..Len(d) /\ IsFor(d[m], p, e)
        BY <3>1 DEF S
    <3>3. ASSUME NEW q \in 1..Len(d), q < m PROVE ~IsFor(d[q], p, e)
      <4>1. q \notin S
          BY <1>1, <3>1, <3>2, <3>3
      <4> QED
          BY <4>1 DEF S
    <3> QED
        BY <3>2, <3>3 DEF IsRow
  <2> QED
      BY <2>1, <2>2
<1>3. ASSUME NEW r, IsRow(d, r, p, e) PROVE r = m
  <2> HIDE DEF m
  <2> QED
      BY <1>2, <1>3 DEF IsRow
<1> QED
    BY <1>2, <1>3

LEMMA EntryIs ==
    ASSUME NEW d \in Seq(Entry), NEW r \in 1..Len(d)
    PROVE  /\ d[r] \in Entry /\ d[r].members \in [Socs -> Member]
           /\ d[r].phone \in Phones \cup {"none"} /\ d[r].email \in Emails \cup {"none"}
<1>1. d[r] \in Entry
    OBVIOUS
<1> QED
    BY <1>1 DEF Entry

(* PutEntry, with what it has read of the entry still true.                *)
Written(d, r, up, ms) ==
    IF r = 0 THEN Append(d, [phone |-> up.phone, email |-> up.email, members |-> ms])
    ELSE [d EXCEPT ![r] = [phone |-> Over(@.phone, up.phone), email |-> Over(@.email, up.email),
                           members |-> ms]]

Wrote(d, r, up, ms, w) ==
    /\ w \in Seq(Entry)
    /\ r = 0 => /\ Len(w) = Len(d) + 1
                /\ w[Len(d) + 1].phone = up.phone /\ w[Len(d) + 1].email = up.email
                /\ w[Len(d) + 1].members = ms
                /\ \A q \in 1..Len(d) : w[q] = d[q]
    /\ r # 0 => Len(w) = Len(d) /\ \A q \in 1..Len(d) : q # r => w[q] = d[q]
    /\ r \in 1..Len(d) => /\ w[r].phone = Over(d[r].phone, up.phone)
                          /\ w[r].email = Over(d[r].email, up.email)
                          /\ w[r].members = ms

LEMMA WrittenIs ==
    ASSUME NEW d \in Seq(Entry), NEW up \in Upsert, NEW r \in Nat, NEW ms \in [Socs -> Member]
    PROVE  Wrote(d, r, up, ms, Written(d, r, up, ms))
<1> DEFINE w == Written(d, r, up, ms)
<1> USE DEF Wrote
<1>0. up.phone \in Phones \cup {"none"} /\ up.email \in Emails \cup {"none"}
    BY DEF Upsert
<1>1. CASE r = 0
  <2>1. PICK x : x = [phone |-> up.phone, email |-> up.email, members |-> ms]
      OBVIOUS
  <2>2. x \in Entry
      BY <1>0, <2>1 DEF Entry
  <2>3. w = Append(d, x)
      BY <1>1, <2>1 DEF Written
  <2> QED
      BY <1>1, <2>1, <2>2, <2>3
<1>2. CASE r # 0 /\ r \notin 1..Len(d)
  <2>1. PICK x : x = [phone |-> Over(d[r].phone, up.phone), email |-> Over(d[r].email, up.email),
                      members |-> ms]
      OBVIOUS
  <2>2. w = [d EXCEPT ![r] = x]
      BY <1>2, <2>1 DEF Written
  <2>3. DOMAIN d = 1..Len(d)
      OBVIOUS
  <2>4. w = d
      BY <1>2, <2>2, <2>3
  <2> QED
      BY <1>2, <2>4
<1>3. CASE r \in 1..Len(d)
  <2>1. PICK x : x = [phone |-> Over(d[r].phone, up.phone), email |-> Over(d[r].email, up.email),
                      members |-> ms]
      OBVIOUS
  <2>2. x \in Entry
      BY <1>0, <1>3, <2>1, EntryIs DEF Entry, Over
  <2>3. w = [d EXCEPT ![r] = x]
      BY <1>3, <2>1 DEF Written
  <2>4. w \in Seq(Entry) /\ Len(w) = Len(d) /\ w[r] = x /\ \A q \in 1..Len(d) : q # r => w[q] = d[q]
      BY <1>3, <2>2, <2>3
  <2> QED
      BY <1>3, <2>1, <2>4
<1> QED
    BY <1>1, <1>2, <1>3

(* The account that is listed resolves to the entry that was written.      *)
LEMMA WrittenIsItsRow ==
    ASSUME NEW d \in Seq(Entry), NEW up \in Upsert, NEW r, NEW ms \in [Socs -> Member], NEW w,
           w = Written(d, r, up, ms), IsRow(d, r, up.phone, up.email),
           up.phone # "none" \/ up.email # "none"
    PROVE  \E q \in 1..Len(w) : /\ IsRow(w, q, up.phone, up.email) /\ w[q].members = ms
                                /\ r # 0 => q = r
<1>0. r \in 0..Len(d) /\ Len(d) \in Nat /\ r \in Nat
    BY DEF IsRow
<1>w. Wrote(d, r, up, ms, w)
    BY <1>0, WrittenIs
<1>1. CASE r = 0
  <2>1. /\ Len(w) = Len(d) + 1 /\ w[Len(d) + 1].phone = up.phone
        /\ w[Len(d) + 1].email = up.email /\ w[Len(d) + 1].members = ms
        /\ \A q \in 1..Len(d) : w[q] = d[q]
      BY <1>0, <1>1, <1>w DEF Wrote
  <2>2. IsRow(w, Len(d) + 1, up.phone, up.email)
      BY <1>0, <1>1, <2>1 DEF IsRow, IsFor
  <2> QED
      BY <1>0, <1>1, <2>1, <2>2
<1>2. CASE r # 0
  <2>0. r \in 1..Len(d)
      BY <1>0, <1>2
  <2>1. /\ Len(w) = Len(d) /\ w[r].phone = Over(d[r].phone, up.phone)
        /\ w[r].email = Over(d[r].email, up.email) /\ w[r].members = ms
        /\ \A q \in 1..Len(d) : q # r => w[q] = d[q]
      BY <1>0, <1>2, <2>0, <1>w DEF Wrote
  <2>2. IsFor(w[r], up.phone, up.email)
      BY <2>1, <1>2 DEF IsRow, IsFor, Over
  <2>3. IsRow(w, r, up.phone, up.email)
      BY <1>0, <1>2, <2>1, <2>2 DEF IsRow
  <2> QED
      BY <1>0, <1>2, <2>1, <2>3
<1> QED
    BY <1>1, <1>2

(* Another account resolves to the entry it resolved to; where that is the *)
(* one written, only if its email is not lost to the one listed.           *)
LEMMA WrittenKeepsRow ==
    ASSUME NEW d \in Seq(Entry), NEW up \in Upsert, NEW r, NEW ms \in [Socs -> Member], NEW w,
           w = Written(d, r, up, ms), IsRow(d, r, up.phone, up.email),
           NEW p, NEW e, p # "none" \/ e # "none",
           p # "none" => p # up.phone, e # "none" => e # up.email,
           NEW k, IsRow(d, k, p, e), k # 0,
           k # r \/ p # "none" \/ up.phone = "none" \/ up.email = "none"
    PROVE  /\ IsRow(w, k, p, e)
           /\ k # r => w[k].members = d[k].members
<1>0. r \in 0..Len(d) /\ Len(d) \in Nat /\ r \in Nat /\ k \in 1..Len(d)
    BY DEF IsRow
<1>w. Wrote(d, r, up, ms, w)
    BY <1>0, WrittenIs
<1>1. CASE r = 0
  <2>1. Len(w) = Len(d) + 1 /\ \A q \in 1..Len(d) : w[q] = d[q]
      BY <1>0, <1>1, <1>w DEF Wrote
  <2> QED
      BY <1>0, <1>1, <2>1 DEF IsRow
<1>2. CASE r # 0
  <2>0. r \in 1..Len(d)
      BY <1>0, <1>2
  <2>1. /\ Len(w) = Len(d) /\ w[r].phone = Over(d[r].phone, up.phone)
        /\ w[r].email = Over(d[r].email, up.email)
        /\ \A q \in 1..Len(d) : q # r => w[q] = d[q]
      BY <1>0, <1>2, <2>0, <1>w DEF Wrote
  <2>2. CASE k = r
    <3>1. IsFor(d[r], p, e) /\ IsFor(d[r], up.phone, up.email)
        BY <1>2, <2>2 DEF IsRow
    <3>2. IsFor(w[r], p, e)
        BY <2>1, <2>2, <3>1 DEF IsFor, Over
    <3> QED
        BY <1>0, <2>1, <2>2, <3>2 DEF IsRow
  <2>3. CASE k # r
    <3>1. ~IsFor(d[r], p, e) => ~IsFor(w[r], p, e)
        BY <2>1 DEF IsFor, Over
    <3> QED
        BY <1>0, <2>1, <2>3, <3>1 DEF IsRow
  <2> QED
      BY <2>2, <2>3
<1> QED
    BY <1>1, <1>2

(* Accounts of one society have different phone numbers and emails.        *)
Distinct ==
    \A u, v \in DOMAIN users : u # v /\ users[u].s = users[v].s =>
       /\ users[u].phone # "none" => users[u].phone # users[v].phone
       /\ users[u].email # "none" => users[u].email # users[v].email

(* What a rebuild that nothing crosses has achieved so far: every account  *)
(* is as it should be, or is still to be listed.                           *)
Seen(s, rest) == \A u \in Listed(s) : ListedAsIs(s, u) \/ Displaced(s, u) \/ u \in rest

LEMMA RowForIs ==
    ASSUME directory \in Seq(Entry), NEW p, NEW e
    PROVE  IsRow(directory, RowFor(p, e), p, e)
<1>1. Len(directory) \in Nat /\ DOMAIN directory = 1..Len(directory)
    OBVIOUS
<1> QED
    BY <1>1, IsRowLeast DEF RowFor

LEMMA RowOfIs ==
    ASSUME directory \in Seq(Entry), NEW u
    PROVE  /\ IsRow(directory, RowOf(u), users[u].phone, users[u].email)
           /\ \A r : IsRow(directory, r, users[u].phone, users[u].email) => r = RowOf(u)
<1>1. Len(directory) \in Nat /\ DOMAIN directory = 1..Len(directory)
    OBVIOUS
<1> QED
    BY <1>1, IsRowLeast DEF RowOf, RowFor

LEMMA RowOfIsNext ==
    ASSUME directory' \in Seq(Entry), users' = users, NEW u
    PROVE  /\ IsRow(directory', RowOf(u)', users[u].phone, users[u].email)
           /\ \A r : IsRow(directory', r, users[u].phone, users[u].email) => r = RowOf(u)'
<1>1. PICK d : d = directory'
    OBVIOUS
<1>2. Len(d) \in Nat /\ DOMAIN d = 1..Len(d)
    BY <1>1
<1>3. RowOf(u)' = Least({q \in DOMAIN d : IsFor(d[q], users[u].phone, users[u].email)})
    BY <1>1 DEF RowOf, RowFor
<1> QED
    BY <1>1, <1>2, <1>3, IsRowLeast

LEMMA PutSees ==
    ASSUME users \in Seq(User), Len(users) <= MaxUsers, directory \in Seq(Entry), Distinct,
           NEW s \in Socs, NEW v \in Listed(s), NEW ms \in [Socs -> Member],
           ms[s] = [user |-> v, active |-> Standing(users[v])],
           directory' = Written(directory, RowOf(v), ListingOf(v), ms), users' = users,
           NEW rest, Seen(s, rest), NEW rest2, rest \subseteq rest2 \cup {v}
    PROVE  Seen(s, rest2)' /\ directory' \in Seq(Entry)
<1> DEFINE up == ListingOf(v)
           r == RowOf(v)
<1>0. \A u \in Listed(s) : /\ u \in DOMAIN users /\ users[u].s = s
                           /\ users[u].phone # "none" \/ users[u].email # "none"
    BY DEF Listed, UsersOf
<1>1. /\ up \in Upsert /\ up.phone = users[v].phone /\ up.email = users[v].email
  <2>1. users[v] \in User /\ v \in 1..MaxUsers
      BY <1>0, SocietiesAssumption DEF SocietiesAssumption
  <2>2. Standing(users[v]) \in BOOLEAN
      BY DEF Standing
  <2> QED
      BY <2>1, <2>2 DEF ListingOf, Upsert, User
<1>2. IsRow(directory, r, up.phone, up.email) /\ r \in Nat
    BY <1>1, RowOfIs DEF IsRow
<1>3. directory' \in Seq(Entry)
    BY <1>1, <1>2, WrittenIs DEF Wrote
<1>4. Listed(s)' = Listed(s) /\ \A u : Displaced(s, u)' = Displaced(s, u)
    BY DEF Listed, UsersOf, Displaced
<1> HIDE DEF up, r
<1>5. PICK d, w : d = directory /\ w = directory'
    OBVIOUS
<1>6. w = Written(d, r, up, ms) /\ d \in Seq(Entry) /\ IsRow(d, r, up.phone, up.email)
    BY <1>2, <1>5 DEF r, up
<1>7. /\ RowOf(v)' \in 1..Len(w) /\ w[RowOf(v)'].members = ms
      /\ r # 0 => RowOf(v)' = r
  <2>1. PICK q \in 1..Len(w) : /\ IsRow(w, q, up.phone, up.email) /\ w[q].members = ms
                               /\ r # 0 => q = r
      BY <1>0, <1>1, <1>6, WrittenIsItsRow
  <2>2. q = RowOf(v)'
      BY <1>1, <1>3, <1>5, <2>1, RowOfIsNext
  <2> QED
      BY <2>1, <2>2
<1>8. ASSUME NEW u \in Listed(s) \ {v}, RowOf(u) # 0,
             RowOf(u) # r \/ users[u].phone # "none" \/ ~Displaced(s, u)
      PROVE  RowOf(u)' = RowOf(u) /\ (RowOf(u) # r => w[RowOf(u)].members = d[RowOf(u)].members)
  <2>1. PICK p, e, k : p = users[u].phone /\ e = users[u].email /\ k = RowOf(u)
      OBVIOUS
  <2>2. IsRow(d, k, p, e)
      BY <1>5, <2>1, RowOfIs
  <2>3. (p # "none" => p # up.phone) /\ (e # "none" => e # up.email)
      BY <1>0, <1>1, <2>1 DEF Distinct
  <2>4. k # r \/ p # "none" \/ up.phone = "none" \/ up.email = "none"
      BY <1>1, <1>8, <2>1 DEF Displaced
  <2>5. IsRow(w, k, p, e) /\ (k # r => w[k].members = d[k].members)
      BY <1>0, <1>1, <1>6, <1>8, <2>1, <2>2, <2>3, <2>4, WrittenKeepsRow
  <2> QED
      BY <1>3, <1>5, <2>1, <2>5, RowOfIsNext
<1>9. ListedAsIs(s, v)'
  <2>1. RowOf(v)' # 0 /\ directory'[RowOf(v)'].members[s] = [user |-> v, active |-> users'[v].status = "ACTIVE"]
      BY <1>5, <1>7 DEF Standing
  <2> QED
      BY <2>1 DEF ListedAsIs
<1>10. ASSUME NEW u \in Listed(s) \ {v}, ListedAsIs(s, u), ~Displaced(s, u)
       PROVE  ListedAsIs(s, u)'
  <2>1. RowOf(u) # 0 /\ RowOf(u)' = RowOf(u)
      BY <1>8, <1>10 DEF ListedAsIs
  <2>2. CASE RowOf(u) = r
    <3>1. RowOf(v)' = RowOf(u)' /\ v \in Listed(s)' \ {u}
        BY <1>4, <1>7, <2>1, <2>2
    <3> QED
        BY <2>1, <3>1 DEF ListedAsIs
  <2>3. CASE RowOf(u) # r
    <3>1. CASE \E x \in Listed(s) \ {u} : RowOf(x) = RowOf(u)
      <4>1. PICK x \in Listed(s) \ {u} : RowOf(x) = RowOf(u)
          BY <3>1
      <4>2. x # v
          BY <2>3, <4>1 DEF r
      <4>3. RowOf(x)' = RowOf(x)
          BY <1>8, <2>1, <2>3, <4>1, <4>2
      <4>4. RowOf(x)' = RowOf(u)' /\ x \in Listed(s)' \ {u}
          BY <1>4, <2>1, <4>1, <4>3
      <4> QED
          BY <2>1, <4>4 DEF ListedAsIs
    <3>2. CASE directory[RowOf(u)].members[s] = [user |-> u, active |-> users[u].status = "ACTIVE"]
      <4>1. directory'[RowOf(u)].members = directory[RowOf(u)].members
          BY <1>5, <1>8, <1>10, <2>1, <2>3
      <4>2. directory'[RowOf(u)'].members[s] = [user |-> u, active |-> users'[u].status = "ACTIVE"]
          BY <2>1, <3>2, <4>1
      <4> QED
          BY <2>1, <4>2 DEF ListedAsIs
    <3> QED
        BY <1>10, <3>1, <3>2 DEF ListedAsIs
  <2> QED
      BY <2>2, <2>3
<1>11. \A u \in Listed(s) : ListedAsIs(s, u)' \/ Displaced(s, u)' \/ u \in rest2
  <2> SUFFICES ASSUME NEW u \in Listed(s), u # v PROVE ListedAsIs(s, u)' \/ Displaced(s, u)' \/ u \in rest2
      BY <1>9
  <2>1. ListedAsIs(s, u) \/ Displaced(s, u) \/ u \in rest
      BY DEF Seen
  <2> QED
      BY <1>4, <1>10, <2>1
<1> QED
    BY <1>3, <1>4, <1>11 DEF Seen

-----------------------------------------------------------------------------
(* What a rebuild relies on: the types of everything, the accounts that    *)
(* requests hold, the way they go, and, of one that is alone, what it has  *)
(* read and done.                                                          *)
Platform ==
    /\ soc \in [Socs -> Society]
    /\ seeded \in [Socs -> BOOLEAN]
    /\ mirror \in [Socs -> Tiers \cup {"none"}]
    /\ provisioning \in [Socs -> Handlers \cup {"none"}]
    /\ muddled \in [Socs -> BOOLEAN]

Accounts ==
    /\ users \in Seq(User)
    /\ Len(users) <= MaxUsers
    /\ staff \in [Socs -> 0..MaxUsers]
    /\ \A s \in Socs : staff[s] <= Len(users)
    /\ Distinct

Caching ==
    /\ cached \in [Socs -> Status \cup {"none"}]
    /\ loading \in [Socs -> Handlers \cup {"none"}]
    /\ late \in [Socs -> BOOLEAN]

Counts == started \in 0..MaxRequests /\ died \in 0..MaxAborts

Tables == Platform /\ Accounts /\ directory \in Seq(Entry) /\ Caching /\ Counts

Fitting(l) ==
    /\ l.pc \in {"staff", "staffLink", "profile"} => l.u <= Len(users)
    /\ l.pc \in {"staffLink", "revoke", "profile"} => l.u >= 1
    /\ l.pc = "profile" => users[l.u].s = l.s
    /\ l.pc \in {"find", "put"} => l.todo # <<>>

Ending == {"goLive", "wake", "rebuild", "find", "put", "clear"}

Route(l) ==
    /\ l.back = "clear" => l.pc \in Ending
    /\ l.pc \in Ending \ {"find", "put"} => l.back = "clear"
    /\ l.op = "activate" =>
          /\ l.back \in {"count", "clear"}
          /\ l.pc \in {"provision", "join", "entitle", "seed", "flag", "count"} \cup Ending
          /\ l.pc \in {"find", "put"} => l.back = "clear"
    /\ l.pc \in {"admin", "saveAdmin"} \/ l.back = "admin" => l.phone # "none" \/ l.email # "none"
    /\ l.pc \in {"staff", "staffLink", "revoke", "profile", "signIn"} => l.back = "done"

Ahead(todo) == {todo[n].user : n \in DOMAIN todo}
Entered(l) == \A n \in DOMAIN l.todo : \E v \in Listed(l.s) : l.todo[n] = ListingOf(v)
Fetched(l) == LET up == Head(l.todo)  r == RowFor(up.phone, up.email)
              IN l.row = r /\ l.members = IF r = 0 THEN Nowhere ELSE directory[r].members
Awake(s) == \A u \in UsersOf(s) : users[u].admin => users[u].status # "PENDING"

Doing(l) ==
    /\ l.pc \in {"find", "put"} => Entered(l) /\ Seen(l.s, Ahead(l.todo))
    /\ l.pc = "put" => Fetched(l)
    /\ l.pc = "clear" => Seen(l.s, {})
    /\ l.op = "activate" /\ l.pc \in {"rebuild", "find", "put", "clear"} => Awake(l.s)

Sound(l) ==
    /\ l \in Local
    /\ Fitting(l)
    /\ Route(l)
    /\ l.alone /\ l.back = "clear" => Doing(l)

RInv ==
    /\ Tables
    /\ h \in [Handlers -> Local]
    /\ \A i \in Handlers : Sound(h[i])

(* Accounts stay in their society.                                         *)
Grows == /\ users' \in Seq(User) /\ Len(users) <= Len(users)'
         /\ \A u \in DOMAIN users : users'[u].s = users[u].s

LEMMA SomeIn == ASSUME NEW S, S # {} PROVE Some(S) \in S
    BY DEF Some

LEMMA IdleLocal == Idle \in Local
<1>1. Some(Socs) \in Socs /\ Some(Names) \in Names /\ Some(Tiers) \in Tiers
    BY SomeIn, SocietiesAssumption DEF SocietiesAssumption
<1>2. 1 \in 1..Cardinality(Socs)
  <2>1. IsFiniteSet(Socs) /\ Socs # {}
      BY SocietiesAssumption DEF SocietiesAssumption
  <2>2. Cardinality(Socs) \in Nat /\ Cardinality(Socs) # 0
      BY <2>1, FS_CardinalityType, FS_EmptySet
  <2> QED
      BY <2>2
<1>3. Nowhere \in [Socs -> Member]
    BY SocietiesAssumption DEF SocietiesAssumption, Nowhere, NoMember, Member
<1>4. <<>> \in Seq(Upsert) /\ 0 \in 0..MaxUsers /\ 0 \in Nat
    BY SocietiesAssumption DEF SocietiesAssumption
<1> QED
    BY <1>1, <1>2, <1>3, <1>4 DEF Idle, Local, Steps, Ops, Status

(* Where neither an account nor a rebuild is at stake.                     *)
Plain == Steps \ {"staff", "staffLink", "profile", "revoke", "find", "put", "rebuild", "clear"}

LEMMA PlainSound ==
    ASSUME NEW l \in Local, l.pc \in Plain, Route(l)
    PROVE  Sound(l) /\ Sound(l)'
    BY DEF Sound, Fitting, Doing, Plain

LEMMA IdleSound == Sound(Idle) /\ Sound(Idle)'
<1>1. Idle.pc = "idle" /\ Idle.back = "done" /\ Idle.op = "other"
    BY DEF Idle
<1>2. Route(Idle) /\ Idle.pc \in Plain
    BY <1>1 DEF Route, Ending, Plain, Steps
<1> QED
    BY <1>2, IdleLocal, PlainSound

(* A request that stands by while another takes a step is not alone.       *)
LEMMA OthersSound ==
    ASSUME IInv, PlansInv, RInv, NEW i \in Handlers, NEW j \in Handlers \ {i}, Grows,
           NEW m \in Local, m.s = h[j].s, m.u = h[j].u, m.todo = h[j].todo, m.op = h[j].op,
           m.back = h[j].back, m.phone = h[j].phone, m.email = h[j].email,
           m.pc = h[j].pc \/ (h[j].pc = "join" /\ m.pc = "flag"),
           m.alone => h[j].alone,
           h[i].pc # "idle" \/ (h[j].pc # "idle" => ~m.alone)
    PROVE  Sound(m)'
<1>1. Sound(h[j]) /\ h[j] \in Local /\ users \in Seq(User)
    BY DEF RInv, Sound, Tables, Accounts
<1>2. Route(m)
    BY <1>1 DEF Sound, Route, Ending
<1>3. ~(m.alone /\ m.back = "clear")
  <2> SUFFICES ASSUME m.alone, m.back = "clear" PROVE FALSE
      OBVIOUS
  <2>1. h[j].pc # "idle"
      BY <1>1 DEF Sound, Route, Ending
  <2>2. h[i].pc # "idle" /\ h[j].alone
      BY <2>1
  <2> QED
      BY <2>1, <2>2 DEF PlansInv, Lone, InFlight, Undisturbed
<1>4. Fitting(m)'
  <2>1. Fitting(h[j]) /\ h[j].u \in 0..MaxUsers /\ MaxUsers \in Nat
      BY <1>1, SocietiesAssumption DEF Sound, Local, SocietiesAssumption
  <2>2. Len(users)' \in Nat /\ Len(users) \in Nat /\ DOMAIN users = 1..Len(users)
      BY <1>1 DEF Grows
  <2> QED
      BY <2>1, <2>2 DEF Fitting, Grows
<1> QED
    BY <1>2, <1>3, <1>4 DEF Sound

LEMMA SameGrows == ASSUME RInv, users' = users PROVE Grows
    BY DEF RInv, Tables, Accounts, Grows

LEMMA SameTables ==
    ASSUME RInv, UNCHANGED <<soc, tenant, people, directory, cache, started, died>>
    PROVE  Tables' /\ Grows
<1>1. Platform' /\ Accounts' /\ Caching' /\ Counts' /\ directory' \in Seq(Entry)
    BY DEF RInv, Tables, Platform, Accounts, Distinct, Caching, Counts, tenant, people, cache
<1> QED
    BY <1>1, SameGrows DEF Tables, people

(* One request takes a step, and the others stand by.                      *)
LEMMA SetSound ==
    ASSUME IInv, PlansInv, RInv, Tables', Grows, NEW i \in Handlers, h[i].pc # "idle",
           NEW l, h' = [h EXCEPT ![i] = l], Sound(l)'
    PROVE  RInv'
<1>1. l \in Local /\ h \in [Handlers -> Local] /\ \A j \in Handlers : Sound(h[j])
    BY DEF Sound, RInv
<1>2. h'[i] = l /\ h' \in [Handlers -> Local] /\ \A j \in Handlers \ {i} : h'[j] = h[j]
    BY <1>1
<1>3. ASSUME NEW j \in Handlers \ {i} PROVE Sound(h[j])'
  <2>1. PICK m : m = h[j]
      OBVIOUS
  <2>2. m \in Local
      BY <1>1, <2>1
  <2>3. Sound(m)'
      BY <2>1, <2>2, OthersSound
  <2>4. h'[j] = m
      BY <1>2, <2>1
  <2> QED
      BY <2>3, <2>4 DEF Sound, Fitting, Doing, Fetched, Entered
<1>4. Sound(h[i])'
    BY <1>2 DEF Sound, Fitting, Doing, Fetched, Entered
<1> QED
    BY <1>2, <1>3, <1>4 DEF RInv

LEMMA FinishSound ==
    ASSUME IInv, PlansInv, RInv, Tables', Grows, NEW i \in Handlers, h[i].pc # "idle", Finish(i)
    PROVE  RInv'
    BY IdleSound, SetSound DEF Finish

LEMMA LocalIs ==
    ASSUME RInv, NEW i \in Handlers
    PROVE  /\ h[i] \in Local /\ DOMAIN h[i] = Fields /\ Route(h[i]) /\ DOMAIN h = Handlers
           /\ h[i].s \in Socs /\ h[i].u \in 0..MaxUsers /\ h[i].back \in Steps /\ h[i].tier \in Tiers
           /\ h[i].phone \in Phones \cup {"none"} /\ h[i].email \in Emails \cup {"none"}
           /\ h[i].name \in Names /\ h[i].k \in 1..Cardinality(Socs) /\ h[i].status \in Status
           /\ h[i].todo \in Seq(Upsert) /\ h[i].row \in Nat /\ h[i].members \in [Socs -> Member]
           /\ h[i].ready \in BOOLEAN /\ h[i].crossed \in BOOLEAN /\ h[i].alone \in BOOLEAN
           /\ h[i].live \in BOOLEAN
<1>1. h \in [Handlers -> Local] /\ h[i] \in Local /\ Route(h[i])
    BY DEF RInv, Sound
<1> QED
    BY <1>1 DEF Local, Fields

LEMMA GotoSound ==
    ASSUME IInv, PlansInv, RInv, Tables', Grows, NEW i \in Handlers, h[i].pc # "idle",
           NEW step \in Plain \ {"admin", "saveAdmin", "signIn"}, Goto(i, step),
           step \in Ending => h[i].back = "clear",
           h[i].back = "clear" => step \in Ending,
           h[i].op = "activate" => step \in {"provision", "join", "entitle", "seed", "flag", "count"} \cup Ending
    PROVE  RInv'
<1>1. PICK l : l = [h[i] EXCEPT !.pc = step]
    OBVIOUS
<1>2. /\ step \in Steps
      /\ step \notin {"find", "put", "staff", "staffLink", "revoke", "profile"}
    BY DEF Plain
<1>3. /\ l \in Local /\ l.pc = step /\ l.op = h[i].op /\ l.back = h[i].back
      /\ l.phone = h[i].phone /\ l.email = h[i].email
    BY <1>1, <1>2, LocalIs DEF Local
<1>4. Route(l)
    BY <1>2, <1>3, LocalIs DEF Route
<1>5. h' = [h EXCEPT ![i] = l]
    BY <1>1, LocalIs DEF Goto
<1> QED
    BY <1>3, <1>4, <1>5, PlainSound, SetSound

-----------------------------------------------------------------------------
LEMMA BeginSound ==
    ASSUME IInv, PlansInv, RInv, NEW i \in Handlers, NEW local \in Local, Begin(i, local),
           loading' \in [Socs -> Handlers \cup {"none"}], Fitting(local), Route(local),
           local.pc \in Plain \cup {"staff", "staffLink", "profile", "revoke"}
           \/ (local.pc = "rebuild" /\ local.op # "activate")
    PROVE  RInv'
<1>0. h[i].pc = "idle" /\ UNCHANGED <<soc, seeded, mirror, users, staff, directory, cached, late,
                                      provisioning, died>>
    BY DEF Begin, InFlight
<1>1. started' \in 0..MaxRequests
    BY SocietiesAssumption DEF Begin, RInv, Tables, Counts, SocietiesAssumption
<1>2. muddled' \in [Socs -> BOOLEAN]
    BY DEF Begin, RInv, Tables, Platform, Crosses, Plans
<1>3. Tables' /\ Grows
  <2>1. Accounts' /\ directory' \in Seq(Entry)
      BY <1>0 DEF RInv, Tables, Accounts, Distinct
  <2>2. Platform'
      BY <1>0, <1>2 DEF RInv, Tables, Platform
  <2>3. Caching' /\ Counts'
      BY <1>0, <1>1 DEF RInv, Tables, Caching, Counts
  <2> QED
      BY <1>0, <2>1, <2>2, <2>3, SameGrows DEF Tables
<1>4. PICK mine : mine = [local EXCEPT !.alone = Undisturbed(i)]
    OBVIOUS
<1>5. Undisturbed(i) \in BOOLEAN
    BY DEF Undisturbed, InFlight
<1>6. /\ mine \in Local /\ mine.pc = local.pc /\ mine.s = local.s /\ mine.u = local.u
      /\ mine.back = local.back /\ mine.op = local.op /\ mine.todo = local.todo
      /\ mine.phone = local.phone /\ mine.email = local.email
    BY <1>4, <1>5 DEF Local
<1>7. Sound(mine)'
  <2>1. Route(mine)
      BY <1>6 DEF Route
  <2>2. Fitting(mine)'
      BY <1>0, <1>6 DEF Fitting
  <2>3. Doing(mine)'
      BY <1>6 DEF Doing, Plain
  <2> QED
      BY <1>6, <2>1, <2>2, <2>3 DEF Sound
<1>8. h'[i] = mine /\ h' \in [Handlers -> Local] /\ \A j \in Handlers : Sound(h[j])'
  <2>1. h'[i] = mine /\ DOMAIN h' = Handlers
      BY <1>4 DEF Begin
  <2>2. ASSUME NEW j \in Handlers \ {i} PROVE \E m \in Local : h'[j] = m /\ Sound(m)'
    <3>1. PICK m : m = IF h[j].pc # "idle" THEN [h[j] EXCEPT !.alone = FALSE] ELSE h[j]
        OBVIOUS
    <3>2. /\ m \in Local /\ m.s = h[j].s /\ m.u = h[j].u /\ m.todo = h[j].todo /\ m.op = h[j].op
          /\ m.back = h[j].back /\ m.pc = h[j].pc /\ m.phone = h[j].phone /\ m.email = h[j].email
          /\ m.alone = (IF h[j].pc # "idle" THEN FALSE ELSE h[j].alone)
        BY <3>1, LocalIs DEF Local
    <3>3. Sound(m)'
        BY <1>3, <3>2, OthersSound
    <3>4. h'[j] = m
        BY <3>1 DEF Begin, InFlight
    <3> QED
        BY <3>2, <3>3, <3>4
  <2>3. \A j \in Handlers : \E m \in Local : h'[j] = m /\ Sound(m)'
      BY <1>6, <1>7, <2>1, <2>2
  <2>4. h' \in [Handlers -> Local]
    <3>1. h' = [j \in Handlers |-> h'[j]]
        BY DEF Begin
    <3> QED
        BY <2>3, <3>1
  <2>5. ASSUME NEW j \in Handlers PROVE Sound(h[j])'
    <3>1. PICK m \in Local : h'[j] = m /\ Sound(m)'
        BY <2>3
    <3> QED
        BY <3>1 DEF Sound, Fitting, Doing, Fetched, Entered
  <2> QED
      BY <2>1, <2>4, <2>5
<1> QED
    BY <1>3, <1>8 DEF RInv

LEMMA StartsSound ==
    ASSUME IInv, PlansInv, RInv, NEW i \in Handlers, NEW local \in Local, Starts(i, local),
           Fitting(local), Route(local),
           local.pc \in Plain \cup {"staff", "staffLink", "profile", "revoke"}
           \/ (local.pc = "rebuild" /\ local.op # "activate")
    PROVE  RInv'
    BY BeginSound DEF Starts, RInv, Tables, Caching

(* A request to a step where no account is at stake.                       *)
LEMMA StartsPlain ==
    ASSUME IInv, PlansInv, RInv, NEW i \in Handlers, NEW local \in Local, Starts(i, local),
           local.pc \in Plain, local.pc \notin Ending, local.back # "clear", local.op # "activate",
           local.pc = "signIn" => local.back = "done",
           local.pc \in {"admin", "saveAdmin"} \/ local.back = "admin" =>
              local.phone # "none" \/ local.email # "none"
    PROVE  RInv'
<1>1. Route(local)
    BY DEF Route, Plain
<1>2. Fitting(local)
    BY DEF Fitting, Plain
<1> QED
    BY <1>1, <1>2, StartsSound

LEMMA ProvisioningSound ==
    ASSUME IInv, PlansInv, RInv, NEW i \in Handlers, NEW s \in Socs,
           NEW step \in {"structure", "admin", "count"}, NEW local \in Local,
           local.op # "activate" \/ (local.op = "activate" /\ step = "count"),
           step = "admin" => local.phone # "none" \/ local.email # "none",
           Starts(i, Provisioning(s, step, local))
    PROVE  RInv'
<1>1. PICK l : l = Provisioning(s, step, local)
    OBVIOUS
<1>2. /\ l \in Local /\ l.op = local.op /\ l.pc \in {step, "provision"} /\ l.back = step
      /\ l.phone = local.phone /\ l.email = local.email
    BY <1>1 DEF Provisioning, Local, Steps
<1>3. Route(l) /\ Fitting(l) /\ l.pc \in Plain
    BY <1>2 DEF Route, Ending, Fitting, Plain, Steps
<1> QED
    BY <1>1, <1>2, <1>3, StartsSound

LEMMA RequestSound == ASSUME IInv, PlansInv, RInv, NEW i \in Handlers, Request(i) PROVE RInv'
<1> USE DEF Ending
<1>0. Idle \in Local /\ Idle.op = "other" /\ Idle.back = "done"
    BY IdleLocal DEF Idle
<1>00. soc \in [Socs -> Society] /\ Accounts
    BY DEF RInv, Tables, Platform
<1>s. /\ "slug" \in Steps /\ "admin" \in Steps /\ "signIn" \in Steps /\ "rebuild" \in Steps
      /\ "reset" \in Steps /\ "revoke" \in Steps /\ "load" \in Steps /\ "status" \in Steps
      /\ "plan" \in Steps /\ "staff" \in Steps /\ "profile" \in Steps /\ "done" \in Steps
      /\ "clear" \in Steps /\ "activate" \in Ops /\ "plan" \in Ops
    BY DEF Steps, Ops
<1>1. ASSUME NEW n \in Names, NEW t \in FirstTiers, NEW who \in FirstAdmins, Create(i, n, t, who[1], who[2])
      PROVE  RInv'
  <2>1. PICK p, e : p = who[1] /\ e = who[2]
      OBVIOUS
  <2>2. p \in Phones \cup {"none"} /\ e \in Emails \cup {"none"} /\ t \in Tiers
      BY <2>1, SocietiesAssumption DEF SocietiesAssumption
  <2>3. PICK s : s = Some(Unused)
      OBVIOUS
  <2>4. s \in Socs
      BY <1>1, <2>3, SomeIn DEF Create, Unused
  <2>5. PICK b \in {"done", "admin"} : b = IF p = "none" /\ e = "none" THEN "done" ELSE "admin"
      OBVIOUS
  <2>6. PICK l : l = [Idle EXCEPT !.pc = "slug", !.s = s, !.name = n, !.tier = t,
                        !.phone = p, !.email = e, !.back = b]
      OBVIOUS
  <2>7. /\ l \in Local /\ l.op = "other" /\ l.pc = "slug" /\ l.back = b
        /\ l.phone = p /\ l.email = e
      BY <1>s, <1>0, <2>2, <2>4, <2>6 DEF Local
  <2>8. Starts(i, l)
      BY <1>1, <2>1, <2>3, <2>5, <2>6 DEF Create
  <2> QED
      BY <2>5, <2>7, <2>8, StartsPlain DEF Plain, Steps
<1>2. ASSUME NEW s \in Socs, NEW p \in Phones \cup {"none"}, NEW e \in Emails \cup {"none"}, Admin(i, s, p, e)
      PROVE  RInv'
  <2>1. PICK l : l = [Idle EXCEPT !.phone = p, !.email = e, !.live = soc[s].status = "ACTIVE"]
      OBVIOUS
  <2>2. l \in Local /\ l.op = "other" /\ l.phone = p /\ l.email = e
      BY <1>0, <2>1 DEF Local
  <2>3. Starts(i, Provisioning(s, "admin", l)) /\ (p # "none" \/ e # "none")
      BY <1>2, <2>1 DEF Admin
  <2> QED
      BY <2>2, <2>3, ProvisioningSound
<1>5. ASSUME NEW s \in Socs, Structure(i, s) PROVE RInv'
    BY <1>0, <1>5, ProvisioningSound DEF Structure
<1>10. ASSUME NEW s \in Socs, NEW wizard \in BOOLEAN, Activate(i, s, wizard) PROVE RInv'
  <2>1. PICK l : l = [Idle EXCEPT !.op = "activate"]
      OBVIOUS
  <2>2. l \in Local /\ l.op = "activate"
      BY <1>s, <1>0, <2>1 DEF Local
  <2>3. Starts(i, Provisioning(s, "count", l))
      BY <1>10, <2>1 DEF Activate
  <2> QED
      BY <2>2, <2>3, ProvisioningSound
<1>3. ASSUME NEW s \in Socs, NEW p \in Phones \cup {"none"}, NEW e \in Emails \cup {"none"}, Invite(i, s, p, e)
      PROVE  RInv'
  <2>1. PICK l : l = [Idle EXCEPT !.pc = "admin", !.s = s, !.phone = p, !.email = e,
                        !.live = soc[s].status = "ACTIVE"]
      OBVIOUS
  <2>2. l \in Local /\ l.op = "other" /\ l.pc = "admin" /\ l.back = "done" /\ l.phone = p /\ l.email = e
      BY <1>s, <1>0, <1>00, <2>1 DEF Local
  <2>3. Starts(i, l) /\ (p # "none" \/ e # "none")
      BY <1>3, <2>1 DEF Invite
  <2> QED
      BY <2>2, <2>3, StartsPlain DEF Plain, Steps
<1>4. ASSUME NEW s \in Socs, NEW p \in Phones \cup {"none"}, NEW e \in Emails \cup {"none"}, Login(i, s, p, e)
      PROVE  RInv'
  <2>a. PICK r, u : r = RowFor(p, e) /\ u = directory[r].members[s].user
      OBVIOUS
  <2>c. /\ r \in 1..Len(directory)
        /\ Starts(i, [Idle EXCEPT !.pc = "signIn", !.s = s, !.u = u])
    <3>1. directory \in Seq(Entry)
        BY DEF RInv, Tables
    <3>2. IsRow(directory, r, p, e) /\ r # 0
        BY <1>4, <2>a, <3>1, RowForIs DEF Login
    <3> QED
        BY <1>4, <2>a, <3>2 DEF Login, IsRow
  <2>b. u \in 0..MaxUsers
    <3>1. directory[r].members \in [Socs -> Member]
        BY <2>c, EntryIs DEF RInv, Tables
    <3>2. directory[r].members[s] \in Member
        BY <3>1
    <3> QED
        BY <2>a, <3>2 DEF Member
  <2>1. PICK l : l = [Idle EXCEPT !.pc = "signIn", !.s = s, !.u = u]
      OBVIOUS
  <2>2. l \in Local /\ l.op = "other" /\ l.pc = "signIn" /\ l.back = "done"
      BY <1>s, <1>0, <2>1, <2>b DEF Local
  <2>3. Starts(i, l)
      BY <2>1, <2>c
  <2> QED
      BY <2>2, <2>3, StartsPlain DEF Plain, Steps
<1>6. ASSUME NEW s \in Socs, Rebuild(i, s) PROVE RInv'
  <2>1. PICK l : l = [Idle EXCEPT !.pc = "rebuild", !.s = s, !.back = "clear"]
      OBVIOUS
  <2>2. l \in Local /\ l.op = "other" /\ l.pc = "rebuild" /\ l.back = "clear"
      BY <1>s, <1>0, <2>1 DEF Local
  <2>3. Starts(i, l)
      BY <1>6, <2>1 DEF Rebuild
  <2>4. Route(l) /\ Fitting(l)
      BY <2>2 DEF Route, Fitting
  <2> QED
      BY <2>2, <2>3, <2>4, StartsSound
<1>7. ASSUME NEW s \in Socs, Reprovision(i, s) PROVE RInv'
  <2>1. PICK l : l = [Idle EXCEPT !.pc = "reset", !.s = s]
      OBVIOUS
  <2>2. l \in Local /\ l.op = "other" /\ l.pc = "reset" /\ l.back = "done"
      BY <1>s, <1>0, <1>00, <2>1 DEF Local
  <2>3. Starts(i, l)
      BY <1>7, <2>1 DEF Reprovision
  <2> QED
      BY <2>2, <2>3, StartsPlain DEF Plain, Steps
<1>8. ASSUME NEW s \in Socs, RevokeStaff(i, s) PROVE RInv'
  <2>a. staff[s] \in 1..Len(users) /\ staff[s] \in 0..MaxUsers
    <3>1. staff[s] # 0
        BY <1>8 DEF RevokeStaff
    <3> QED
        BY <1>00, <3>1 DEF Accounts
  <2>b. users[staff[s]].phone \in Phones \cup {"none"}
    <3>1. users[staff[s]] \in User
        BY <1>00, <2>a DEF Accounts
    <3> QED
        BY <3>1 DEF User
  <2>1. PICK l : l = [Idle EXCEPT !.pc = "revoke", !.s = s, !.u = staff[s],
                        !.phone = users[staff[s]].phone]
      OBVIOUS
  <2>2. l \in Local /\ l.op = "other" /\ l.pc = "revoke" /\ l.back = "done" /\ l.u = staff[s]
      BY <1>s, <1>0, <2>1, <2>a, <2>b DEF Local
  <2>3. Starts(i, l)
      BY <1>8, <2>1 DEF RevokeStaff
  <2>4. Route(l) /\ Fitting(l)
      BY <1>00, <2>2, <2>a DEF Route, Fitting, Accounts
  <2> QED
      BY <2>2, <2>3, <2>4, StartsSound
<1>9. ASSUME NEW s \in Socs, Visit(i, s) PROVE RInv'
  <2>1. PICK l : l = [Idle EXCEPT !.pc = "load", !.s = s]
      OBVIOUS
  <2>2. l \in Local /\ l.op = "other" /\ l.pc = "load" /\ l.back = "done"
      BY <1>s, <1>0, <2>1 DEF Local
  <2>3. Begin(i, l)
      BY <1>9, <2>1 DEF Visit
  <2>4. Route(l) /\ Fitting(l)
      BY <2>2 DEF Route, Fitting
  <2>5. loading' \in [Socs -> Handlers \cup {"none"}]
      BY <1>9 DEF Visit, RInv, Tables, Caching
  <2> QED
      BY <2>2, <2>3, <2>4, <2>5, BeginSound DEF Plain, Steps
<1>11. ASSUME NEW s \in Socs, NEW status \in NewStatuses, SetStatus(i, s, status) PROVE RInv'
  <2>1. PICK l : l = [Idle EXCEPT !.pc = "status", !.s = s, !.status = status]
      OBVIOUS
  <2>2. l \in Local /\ l.op = "other" /\ l.pc = "status" /\ l.back = "done"
    <3>1. status \in Status
        BY SocietiesAssumption DEF SocietiesAssumption, Status
    <3> QED
        BY ONLY <1>s, <1>0, <2>1, <3>1 DEF Local
  <2>3. Starts(i, l)
      BY <1>11, <2>1 DEF SetStatus
  <2> QED
      BY <2>2, <2>3, StartsPlain DEF Plain, Steps
<1>12. ASSUME NEW s \in Socs, NEW t \in Tiers, Plan(i, s, t) PROVE RInv'
  <2>1. PICK l : l = [Idle EXCEPT !.pc = "plan", !.op = "plan", !.s = s, !.tier = t,
                        !.ready = soc[s].ready]
      OBVIOUS
  <2>2. l \in Local /\ l.op = "plan" /\ l.pc = "plan" /\ l.back = "done"
      BY <1>s, <1>0, <1>00, <2>1 DEF Local, Society
  <2>3. Starts(i, l)
      BY <1>12, <2>1 DEF Plan
  <2> QED
      BY <2>2, <2>3, StartsPlain DEF Plain, Steps
<1>13. ASSUME NEW s \in Socs, NEW p \in Phones, StaffLogin(i, s, p) PROVE RInv'
  <2>1. PICK l : l = [Idle EXCEPT !.pc = "staff", !.s = s, !.phone = p, !.u = staff[s]]
      OBVIOUS
  <2>2. l \in Local /\ l.op = "other" /\ l.pc = "staff" /\ l.back = "done" /\ l.u = staff[s]
      BY <1>s, <1>0, <1>00, <2>1 DEF Local, Accounts
  <2>3. Starts(i, l)
      BY <1>13, <2>1 DEF StaffLogin
  <2>4. Route(l) /\ Fitting(l)
      BY <1>00, <2>2 DEF Route, Fitting, Accounts
  <2> QED
      BY <2>2, <2>3, <2>4, StartsSound
<1>14. ASSUME NEW s \in Socs, NEW u \in UsersOf(s), NEW e \in Emails \cup {"none"}, Profile(i, s, u, e)
       PROVE  RInv'
  <2>0. u \in 1..Len(users) /\ users[u].s = s /\ u \in 0..MaxUsers
    <3>1. u \in DOMAIN users /\ users[u].s = s
        BY DEF UsersOf
    <3> QED
        BY <1>00, <3>1, SocietiesAssumption DEF Accounts, SocietiesAssumption
  <2>1. PICK l : l = [Idle EXCEPT !.pc = "profile", !.s = s, !.u = u, !.email = e]
      OBVIOUS
  <2>2. l \in Local /\ l.op = "other" /\ l.pc = "profile" /\ l.back = "done" /\ l.u = u /\ l.s = s
      BY <1>s, <1>0, <2>0, <2>1 DEF Local
  <2>3. Starts(i, l)
      BY <1>14, <2>1 DEF Profile
  <2>4. Route(l) /\ Fitting(l)
      BY <1>00, <2>0, <2>2 DEF Route, Fitting, Accounts
  <2> QED
      BY <2>2, <2>3, <2>4, StartsSound
<1> QED
    BY <1>1, <1>2, <1>3, <1>4, <1>5, <1>6, <1>7, <1>8, <1>9, <1>10, <1>11, <1>12, <1>13, <1>14
    DEF Request

-----------------------------------------------------------------------------
(* As long as one society is not founded there is a number left.           *)
LEMMA FirstFreeIn ==
    ASSUME NEW n, NEW s \in Socs, soc[s].there = FALSE
    PROVE  FirstFree(n) \in 1..Cardinality(Socs)
<1> DEFINE N == Cardinality(Socs)
           S == {k \in 1..N : ~Taken(n, k)}
           T == {t \in Socs : soc[t].there /\ soc[t].name = n /\ soc[t].k \in 1..N}
<1>1. IsFiniteSet(Socs) /\ N \in Nat
    BY SocietiesAssumption, FS_CardinalityType DEF SocietiesAssumption
<1>2. S # {}
  <2> SUFFICES ASSUME S = {} PROVE FALSE
      OBVIOUS
  <2>1. \A k \in 1..N : \E t \in T : soc[t].k = k
      BY DEF Taken
  <2>2. [t \in T |-> soc[t].k] \in Surjection(T, 1..N)
      BY <2>1 DEF Surjection
  <2>3. T \subseteq Socs \ {s}
      OBVIOUS
  <2>4. IsFiniteSet(Socs \ {s}) /\ Cardinality(Socs \ {s}) = N - 1
      BY <1>1, FS_RemoveElement
  <2>5. IsFiniteSet(T) /\ Cardinality(T) <= N - 1
      BY <2>3, <2>4, FS_Subset
  <2>6. IsFiniteSet(1..N) /\ Cardinality(1..N) = N
      BY <1>1, FS_Interval
  <2> HIDE DEF T, S, N
  <2>7. Cardinality(1..N) <= Cardinality(T)
      BY <2>2, <2>5, FS_Surjection
  <2>8. Cardinality(T) \in Nat
      BY <2>5, FS_CardinalityType
  <2> QED
      BY <1>1, <2>5, <2>6, <2>7, <2>8
<1>3. Least(S) \in S /\ \A m \in S : Least(S) <= m
    BY <1>1, <1>2, LeastIs
<1>4. \A m \in 1..(Least(S) - 1) : Taken(n, m)
    BY <1>1, <1>3
<1> QED
    BY <1>3, <1>4 DEF FirstFree

LEMMA TablesTogether ==
    ASSUME RInv,
           UNCHANGED <<soc, seeded, mirror, provisioning, muddled>> \/ Platform',
           UNCHANGED people \/ Accounts',
           UNCHANGED directory \/ directory' \in Seq(Entry),
           UNCHANGED cache \/ Caching',
           UNCHANGED <<started, died>>
    PROVE  Tables'
<1>1. Platform'
    BY DEF RInv, Tables, Platform
<1>2. Accounts'
    BY DEF RInv, Tables, Accounts, Distinct, people
<1>3. Caching' /\ Counts' /\ directory' \in Seq(Entry)
    BY DEF RInv, Tables, Caching, Counts, cache
<1> QED
    BY <1>1, <1>2, <1>3 DEF Tables

LEMMA SocTables ==
    ASSUME RInv, soc' \in [Socs -> Society],
           UNCHANGED <<tenant, people, directory, cache, started, died>>
    PROVE  Tables' /\ Grows
<1>1. Platform'
    BY DEF RInv, Tables, Platform, tenant
<1> QED
    BY <1>1, TablesTogether, SameGrows DEF people

LEMMA SocTyped ==
    ASSUME RInv, NEW s \in Socs, NEW v,
           \/ soc' = [soc EXCEPT ![s].ready = v] /\ v \in BOOLEAN
           \/ soc' = [soc EXCEPT ![s].units = v] /\ v \in BOOLEAN
           \/ soc' = [soc EXCEPT ![s].tier = v] /\ v \in Tiers
           \/ soc' = [soc EXCEPT ![s].status = v] /\ v \in Status
    PROVE  soc' \in [Socs -> Society]
<1>1. soc \in [Socs -> Society] /\ soc[s] \in Society
    BY DEF RInv, Tables, Platform
<1>2. PICK a : a = [soc[s] EXCEPT !.ready = v]
    OBVIOUS
<1>3. PICK b : b = [soc[s] EXCEPT !.units = v]
    OBVIOUS
<1>4. PICK c : c = [soc[s] EXCEPT !.tier = v]
    OBVIOUS
<1>5. PICK d : d = [soc[s] EXCEPT !.status = v]
    OBVIOUS
<1>6. /\ v \in BOOLEAN => a \in Society /\ b \in Society
      /\ v \in Tiers => c \in Society
      /\ v \in Status => d \in Society
    BY <1>1, <1>2, <1>3, <1>4, <1>5 DEF Society
<1>7. \/ soc' = [soc EXCEPT ![s] = a] /\ v \in BOOLEAN
      \/ soc' = [soc EXCEPT ![s] = b] /\ v \in BOOLEAN
      \/ soc' = [soc EXCEPT ![s] = c] /\ v \in Tiers
      \/ soc' = [soc EXCEPT ![s] = d] /\ v \in Status
    BY <1>1, <1>2, <1>3, <1>4, <1>5
<1> QED
    BY <1>1, <1>6, <1>7

Before == {"provision", "join", "entitle", "seed", "flag", "count"}

LEMMA PlainStep ==
    ASSUME IInv, PlansInv, RInv, Tables', Grows, NEW i \in Handlers, h[i].pc \notin {"idle"} \cup Ending,
           NEW l \in Local, l.pc \in Plain \ Ending, h' = [h EXCEPT ![i] = l],
           l.op = h[i].op, l.back = h[i].back, l.op = "activate" => l.pc \in Before,
           l.phone = h[i].phone, l.email = h[i].email, l.pc # "signIn",
           l.pc \in {"admin", "saveAdmin"} => h[i].pc = "admin" \/ h[i].back = "admin"
    PROVE  RInv'
<1>1. l.back # "clear"
    BY LocalIs DEF Route
<1>2. Route(l)
    BY <1>1, LocalIs DEF Route, Before, Plain
<1> QED
    BY <1>2, PlainSound, SetSound

LEMMA PlainGoto ==
    ASSUME IInv, PlansInv, RInv, Tables', Grows, NEW i \in Handlers, h[i].pc \notin {"idle"} \cup Ending,
           NEW step \in Plain \ Ending, Goto(i, step), h[i].op = "activate" => step \in Before,
           step # "signIn",
           step \in {"admin", "saveAdmin"} => h[i].pc = "admin" \/ h[i].back = "admin"
    PROVE  RInv'
<1>1. PICK l : l = [h[i] EXCEPT !.pc = step]
    OBVIOUS
<1>2. /\ l \in Local /\ l.pc = step /\ l.op = h[i].op /\ l.back = h[i].back
      /\ l.phone = h[i].phone /\ l.email = h[i].email
    BY <1>1, LocalIs DEF Local, Plain
<1>3. h' = [h EXCEPT ![i] = l]
    BY <1>1, LocalIs DEF Goto
<1> QED
    BY <1>2, <1>3, PlainStep

(* The steps of requests that list nobody.                                 *)
PlainSteps(i) ==
    \/ UniqueSlug(i) \/ Found(i) \/ Provision(i) \/ ResolveEntitlements(i) \/ Provisioned(i) \/ Build(i)
    \/ FindAdmin(i) \/ Count(i) \/ GoLive(i) \/ WriteStatus(i) \/ Reset(i) \/ SavePlan(i) \/ SyncMirror(i)
    \/ Load(i) \/ Fill(i)

LEMMA PlainStepsSound == ASSUME IInv, PlansInv, RInv, NEW i \in Handlers, PlainSteps(i) PROVE RInv'
<1> USE DEF Ending, Plain, Steps, Before
<1>0. /\ h[i] \in Local /\ Route(h[i]) /\ DOMAIN h = Handlers /\ h[i].s \in Socs /\ h[i].back \in Backs
      /\ soc \in [Socs -> Society] /\ soc[h[i].s] \in Society
      /\ Some(Tiers) \in Tiers /\ Some(Names) \in Names /\ 1 \in 1..Cardinality(Socs)
  <2>1. h[i].back \in Backs
      BY DEF IInv, Shaped
  <2>2. soc \in [Socs -> Society]
      BY DEF RInv, Tables, Platform
  <2>3. 1 \in 1..Cardinality(Socs) /\ Some(Tiers) \in Tiers /\ Some(Names) \in Names
    <3>1. Idle.k \in 1..Cardinality(Socs) /\ Idle.tier \in Tiers /\ Idle.name \in Names
        BY IdleLocal DEF Local
    <3> QED
        BY <3>1 DEF Idle
  <2> QED
      BY <2>1, <2>2, <2>3, LocalIs
<1>1. CASE UniqueSlug(i)
  <2>1. h[i].pc = "slug" /\ UNCHANGED <<soc, tenant, people, directory, cache, started, died>>
      BY <1>1 DEF UniqueSlug, At
  <2>2. Tables' /\ Grows
      BY <2>1, SameTables
  <2>3. PICK k : k = FirstFree(h[i].name)
      OBVIOUS
  <2>4. k \in 1..Cardinality(Socs)
    <3>1. soc[h[i].s].there = FALSE
      <4>1. ~soc[h[i].s].there
          BY <2>1 DEF IInv, Founding, InFlight, Early
      <4> QED
          BY <1>0, <4>1 DEF Society
    <3> QED
        BY <1>0, <2>3, <3>1, FirstFreeIn
  <2>5. PICK l : l = [h[i] EXCEPT !.pc = "found", !.k = k]
      OBVIOUS
  <2>6. /\ l \in Local /\ l.pc = "found" /\ l.op = h[i].op /\ l.back = h[i].back
       /\ l.phone = h[i].phone /\ l.email = h[i].email
      BY <1>0, <2>4, <2>5 DEF Local
  <2>7. h' = [h EXCEPT ![i] = l]
      BY <1>0, <1>1, <2>3, <2>5 DEF UniqueSlug
  <2>8. l.op # "activate"
      BY <1>0, <2>1, <2>6 DEF Route
  <2> QED
      BY <2>1, <2>2, <2>6, <2>7, <2>8, PlainStep
<1>2. CASE Found(i)
  <2>1. h[i].pc = "found" /\ UNCHANGED <<tenant, people, directory, cache, started, died>>
      BY <1>2 DEF Found, At
  <2>2. CASE Finish(i) /\ UNCHANGED soc
      BY <2>1, <2>2, SameTables, FinishSound
  <2>3. CASE ~(Finish(i) /\ UNCHANGED soc)
    <3>1. PICK c : c = [there |-> TRUE, name |-> h[i].name, k |-> h[i].k, status |-> "ONBOARDING",
                        ready |-> FALSE, tier |-> h[i].tier, units |-> FALSE]
        OBVIOUS
    <3>2. c \in Society
        BY <3>1, LocalIs DEF Society, Status
    <3>3. soc' = [soc EXCEPT ![h[i].s] = c]
        BY <1>2, <2>3, <3>1 DEF Found
    <3>4. soc' \in [Socs -> Society]
        BY <1>0, <3>2, <3>3
    <3>5. Tables' /\ Grows
        BY <2>1, <3>4, SocTables
    <3>6. PICK l : l = [h[i] EXCEPT !.pc = "provision", !.tier = Some(Tiers), !.name = Some(Names),
                                    !.k = 1]
        OBVIOUS
    <3>7. /\ l \in Local /\ l.pc = "provision" /\ l.op = h[i].op /\ l.back = h[i].back
         /\ l.phone = h[i].phone /\ l.email = h[i].email
        BY <1>0, <3>6 DEF Local
    <3>8. h' = [h EXCEPT ![i] = l]
        BY <1>0, <1>2, <2>3, <3>6 DEF Found
    <3> QED
        BY <2>1, <3>5, <3>7, <3>8, PlainStep
  <2> QED
      BY <2>2, <2>3
<1>3. CASE Provision(i)
  <2>1. /\ h[i].pc = "provision"
        /\ UNCHANGED <<soc, seeded, mirror, muddled, people, directory, cache, started, died>>
      BY <1>3 DEF Provision, At
  <2>2. provisioning' \in [Socs -> Handlers \cup {"none"}]
      BY <1>3 DEF Provision, RInv, Tables, Platform
  <2>3. Tables' /\ Grows
    <3>1. Platform'
        BY <2>1, <2>2 DEF RInv, Tables, Platform
    <3> QED
        BY <2>1, <3>1, TablesTogether, SameGrows DEF people
  <2>4. Goto(i, "join") \/ Goto(i, "entitle")
      BY <1>3 DEF Provision
  <2> QED
      BY <2>1, <2>3, <2>4, PlainGoto
<1>4. CASE ResolveEntitlements(i)
  <2>1. h[i].pc = "entitle" /\ UNCHANGED <<soc, tenant, people, directory, cache, started, died>>
      BY <1>4 DEF ResolveEntitlements, At
  <2>2. Tables' /\ Grows
      BY <2>1, SameTables
  <2>3. Entitlement(h[i].s) \in Tiers
      BY <1>0 DEF Entitlement, Society
  <2>4. PICK l : l = [h[i] EXCEPT !.pc = "seed", !.tier = Entitlement(h[i].s)]
      OBVIOUS
  <2>5. /\ l \in Local /\ l.pc = "seed" /\ l.op = h[i].op /\ l.back = h[i].back
       /\ l.phone = h[i].phone /\ l.email = h[i].email
      BY <1>0, <2>3, <2>4 DEF Local
  <2>6. h' = [h EXCEPT ![i] = l]
      BY <1>0, <1>4, <2>4 DEF ResolveEntitlements
  <2> QED
      BY <2>1, <2>2, <2>5, <2>6, PlainStep
<1>5. CASE Provisioned(i)
  <2>1. h[i].pc = "flag" /\ UNCHANGED <<tenant, people, directory, cache, started, died>>
      BY <1>5 DEF Provisioned, At
  <2>2. Tables' /\ Grows
      BY <1>0, <1>5, <2>1, SocTyped, SocTables DEF Provisioned
  <2>3. Finish(i) \/ (h[i].back # "done" /\ Goto(i, h[i].back))
      BY <1>5 DEF Provisioned, Return
  <2>4. h[i].back # "clear" /\ (h[i].op = "activate" => h[i].back = "count")
      BY <1>0, <2>1 DEF Route
  <2>5. h[i].back # "done" => h[i].back \in {"admin", "structure", "count", "drop"}
      BY <1>0, <2>4 DEF Backs
  <2> QED
      BY <2>1, <2>2, <2>3, <2>4, <2>5, PlainGoto, FinishSound
<1>6. CASE Build(i)
  <2>1. h[i].pc = "structure" /\ UNCHANGED <<tenant, people, directory, cache, started, died>>
      BY <1>6 DEF Build, At
  <2>2. Tables' /\ Grows
      BY <1>0, <1>6, <2>1, SocTyped, SocTables DEF Build
  <2> QED
      BY <1>6, <2>1, <2>2, FinishSound DEF Build
<1>7. CASE FindAdmin(i)
  <2>1. h[i].pc = "admin" /\ UNCHANGED <<soc, tenant, people, directory, cache, started, died>>
      BY <1>7 DEF FindAdmin, At
  <2>2. Tables' /\ Grows
      BY <2>1, SameTables
  <2>3. PICK u : u = UserFor(h[i].s, h[i].phone, h[i].email)
      OBVIOUS
  <2>4. u \in 0..MaxUsers
    <3> DEFINE S == {v \in DOMAIN users : users[v].s = h[i].s /\ IsFor(users[v], h[i].phone, h[i].email)}
    <3>1. S \subseteq 1..Len(users) /\ Len(users) <= MaxUsers /\ MaxUsers \in Nat /\ Len(users) \in Nat
        BY SocietiesAssumption DEF SocietiesAssumption, RInv, Tables, Accounts
    <3>2. u = Least(S)
        BY <2>3 DEF UserFor
    <3> HIDE DEF S
    <3>3. CASE S = {}
        BY <3>1, <3>2, <3>3 DEF Least
    <3>4. CASE S # {}
      <4>1. S \in SUBSET Nat
          BY <3>1
      <4>2. u \in S
          BY <3>2, <3>4, <4>1, LeastIs
      <4> QED
          BY <3>1, <4>2
    <3> QED
        BY <3>3, <3>4
  <2>5. PICK l : l = [h[i] EXCEPT !.pc = "saveAdmin", !.u = u]
      OBVIOUS
  <2>6. /\ l \in Local /\ l.pc = "saveAdmin" /\ l.op = h[i].op /\ l.back = h[i].back
       /\ l.phone = h[i].phone /\ l.email = h[i].email
      BY <1>0, <2>4, <2>5 DEF Local
  <2>7. h' = [h EXCEPT ![i] = l]
      BY <1>0, <1>7, <2>3, <2>5 DEF FindAdmin
  <2>8. l.op # "activate"
      BY <1>0, <2>1, <2>6 DEF Route
  <2> QED
      BY <2>1, <2>2, <2>6, <2>7, <2>8, PlainStep
<1>8. CASE Count(i)
  <2>1. h[i].pc = "count" /\ UNCHANGED <<soc, tenant, people, directory, cache, started, died>>
      BY <1>8 DEF Count, At
  <2>2. Tables' /\ Grows
      BY <2>1, SameTables
  <2>3. CASE Finish(i)
      BY <2>1, <2>2, <2>3, FinishSound
  <2>4. CASE ~Finish(i)
    <3>1. PICK l : l = [h[i] EXCEPT !.pc = "goLive", !.back = "clear"]
        OBVIOUS
    <3>2. /\ l \in Local /\ l.pc = "goLive" /\ l.op = h[i].op /\ l.back = "clear"
         /\ l.phone = h[i].phone /\ l.email = h[i].email
        BY <1>0, <3>1 DEF Local
    <3>3. h' = [h EXCEPT ![i] = l]
        BY <1>0, <1>8, <2>4, <3>1 DEF Count
    <3>4. Route(l)
        BY <3>2 DEF Route
    <3> QED
        BY <2>1, <2>2, <3>2, <3>3, <3>4, PlainSound, SetSound
  <2> QED
      BY <2>3, <2>4
<1>9. CASE GoLive(i)
  <2>1. h[i].pc = "goLive" /\ UNCHANGED <<tenant, people, directory, cache, started, died>>
      BY <1>9 DEF GoLive, At
  <2>2. Tables' /\ Grows
      BY <1>0, <1>9, <2>1, SocTyped, SocTables DEF GoLive, Status
  <2>3. Goto(i, "wake") /\ h[i].back = "clear"
      BY <1>0, <1>9, <2>1 DEF GoLive, Route
  <2> QED
      BY <2>1, <2>2, <2>3, GotoSound
<1>10. CASE WriteStatus(i)
  <2>1. h[i].pc = "status" /\ UNCHANGED <<tenant, people, directory, cache, started, died>>
      BY <1>10 DEF WriteStatus, At
  <2>2. Tables' /\ Grows
      BY <1>0, <1>10, <2>1, LocalIs, SocTyped, SocTables DEF WriteStatus
  <2>3. PICK l : l = [h[i] EXCEPT !.pc = "drop", !.status = "ONBOARDING"]
      OBVIOUS
  <2>4. /\ l \in Local /\ l.pc = "drop" /\ l.op = h[i].op /\ l.back = h[i].back
       /\ l.phone = h[i].phone /\ l.email = h[i].email
    <3>1. "ONBOARDING" \in Status
        BY DEF Status
    <3> QED
        BY <1>0, <2>3, <3>1 DEF Local
  <2>5. h' = [h EXCEPT ![i] = l]
      BY <1>0, <1>10, <2>3 DEF WriteStatus
  <2>6. l.op # "activate"
      BY <1>0, <2>1, <2>4 DEF Route
  <2> QED
      BY <2>1, <2>2, <2>4, <2>5, <2>6, PlainStep
<1>11. CASE Reset(i)
  <2>1. h[i].pc = "reset" /\ UNCHANGED <<tenant, people, directory, cache, started, died>>
      BY <1>11 DEF Reset, At
  <2>2. Tables' /\ Grows
      BY <1>0, <1>11, <2>1, SocTyped, SocTables DEF Reset
  <2> QED
      BY <1>11, <2>1, <2>2, PlainGoto DEF Reset
<1>12. CASE SavePlan(i)
  <2>1. h[i].pc = "plan" /\ UNCHANGED <<tenant, people, directory, cache, started, died>>
      BY <1>12 DEF SavePlan, At
  <2>2. Tables' /\ Grows
      BY <1>0, <1>12, <2>1, LocalIs, SocTyped, SocTables DEF SavePlan
  <2>3. Finish(i) \/ Goto(i, "mirror")
      BY <1>12 DEF SavePlan
  <2>4. h[i].op # "activate"
      BY <1>0, <2>1 DEF Route
  <2> QED
      BY <2>1, <2>2, <2>3, <2>4, PlainGoto, FinishSound
<1>13. CASE SyncMirror(i)
  <2>1. h[i].pc = "mirror" /\ UNCHANGED <<soc, seeded, provisioning, people, directory, cache, started, died>>
      BY <1>13 DEF SyncMirror, At
  <2>2. mirror' \in [Socs -> Tiers \cup {"none"}] /\ muddled' \in [Socs -> BOOLEAN]
      BY <1>13, LocalIs DEF SyncMirror, RInv, Tables, Platform
  <2>3. Tables' /\ Grows
    <3>1. Platform'
        BY <2>1, <2>2 DEF RInv, Tables, Platform
    <3> QED
        BY <2>1, <3>1, TablesTogether, SameGrows DEF people
  <2> QED
      BY <1>13, <2>1, <2>3, FinishSound DEF SyncMirror
<1>14. CASE Load(i)
  <2>1. h[i].pc = "load" /\ UNCHANGED <<soc, tenant, people, directory, cache, started, died>>
      BY <1>14 DEF Load, At
  <2>2. Tables' /\ Grows
      BY <2>1, SameTables
  <2>3. soc[h[i].s].status \in Status
      BY <1>0 DEF Society
  <2>4. PICK l : l = [h[i] EXCEPT !.pc = "fill", !.status = soc[h[i].s].status]
      OBVIOUS
  <2>5. /\ l \in Local /\ l.pc = "fill" /\ l.op = h[i].op /\ l.back = h[i].back
       /\ l.phone = h[i].phone /\ l.email = h[i].email
      BY <1>0, <2>3, <2>4 DEF Local
  <2>6. h' = [h EXCEPT ![i] = l]
      BY <1>0, <1>14, <2>4 DEF Load
  <2>7. l.op # "activate"
      BY <1>0, <2>1, <2>5 DEF Route
  <2> QED
      BY <2>1, <2>2, <2>5, <2>6, <2>7, PlainStep
<1>15. CASE Fill(i)
  <2>1. h[i].pc = "fill" /\ UNCHANGED <<soc, tenant, people, directory, started, died>>
      BY <1>15 DEF Fill, At
  <2>2. Caching'
    <3>1. cached' = [cached EXCEPT ![h[i].s] = h[i].status] /\ h[i].status \in Status
        BY <1>15, LocalIs DEF Fill
    <3>2. late' = [late EXCEPT ![h[i].s] = h[i].crossed] /\ h[i].crossed \in BOOLEAN
        BY <1>15, LocalIs DEF Fill
    <3>3. loading' = [loading EXCEPT ![h[i].s] = "none"]
        BY <1>15 DEF Fill
    <3> QED
        BY <3>1, <3>2, <3>3 DEF RInv, Tables, Caching
  <2>3. Tables' /\ Grows
      BY <2>1, <2>2, TablesTogether, SameGrows DEF people, tenant
  <2> QED
      BY <1>15, <2>1, <2>3, FinishSound DEF Fill
<1> QED
    BY <1>1, <1>2, <1>3, <1>4, <1>5, <1>6, <1>7, <1>8, <1>9, <1>10, <1>11, <1>12, <1>13, <1>14, <1>15
    DEF PlainSteps

-----------------------------------------------------------------------------
(* Accounts are opened where no other of the society has the phone number  *)
(* or the email, and keep theirs.                                          *)
LEMMA AppendAccount ==
    ASSUME RInv, Len(users) < MaxUsers, NEW a \in User, ~Clash(a.s, a.phone, a.email),
           users' = Append(users, a), staff' = staff
    PROVE  Accounts' /\ Grows
<1>1. /\ users \in Seq(User) /\ Len(users) \in Nat /\ MaxUsers \in Nat /\ Distinct
      /\ staff \in [Socs -> 0..MaxUsers] /\ \A s \in Socs : staff[s] <= Len(users)
    BY SocietiesAssumption DEF RInv, Tables, Accounts, SocietiesAssumption
<1>2. /\ users' \in Seq(User) /\ Len(users') = Len(users) + 1 /\ users'[Len(users) + 1] = a
      /\ \A u \in 1..Len(users) : users'[u] = users[u]
      /\ DOMAIN users = 1..Len(users) /\ DOMAIN users' = 1..(Len(users) + 1)
    BY <1>1
<1>3. Distinct'
  <2> SUFFICES ASSUME NEW u \in DOMAIN users', NEW v \in DOMAIN users', u # v,
                      users'[u].s = users'[v].s
               PROVE  /\ users'[u].phone # "none" => users'[u].phone # users'[v].phone
                      /\ users'[u].email # "none" => users'[u].email # users'[v].email
      BY DEF Distinct
  <2>1. CASE u \in 1..Len(users) /\ v \in 1..Len(users)
      BY <1>1, <1>2, <2>1 DEF Distinct
  <2>2. CASE u = Len(users) + 1
    <3>1. v \in DOMAIN users /\ users[v] = users'[v] /\ users[v].s = a.s
        BY <1>1, <1>2, <2>2
    <3> QED
        BY <1>2, <2>2, <3>1 DEF Clash
  <2>3. CASE v = Len(users) + 1
    <3>1. u \in DOMAIN users /\ users[u] = users'[u] /\ users[u].s = a.s
        BY <1>1, <1>2, <2>3
    <3> QED
        BY <1>2, <2>3, <3>1 DEF Clash
  <2> QED
      BY <1>1, <1>2, <2>1, <2>2, <2>3
<1>4. \A s \in Socs : staff[s] <= Len(users) + 1
    BY <1>1
<1> QED
    BY <1>1, <1>2, <1>3, <1>4 DEF Accounts, Grows

LEMMA SetAccount ==
    ASSUME RInv, NEW u, NEW a, users' = [users EXCEPT ![u] = a], staff' = staff,
           u \in DOMAIN users => /\ a \in User /\ a.s = users[u].s
                                 /\ a.phone = users[u].phone
                                 /\ \/ a.email = users[u].email
                                    \/ a.email = "none"
                                    \/ \A v \in UsersOf(users[u].s) \ {u} : users[v].email # a.email
    PROVE  Accounts' /\ Grows
<1>1. /\ users \in Seq(User) /\ Len(users) \in Nat /\ DOMAIN users = 1..Len(users) /\ Distinct
      /\ staff \in [Socs -> 0..MaxUsers] /\ \A s \in Socs : staff[s] <= Len(users)
      /\ Len(users) <= MaxUsers
    BY DEF RInv, Tables, Accounts
<1>2. CASE u \notin DOMAIN users
  <2>1. users' = users
      BY <1>1, <1>2
  <2>2. Distinct'
      BY <1>1, <2>1 DEF Distinct
  <2>3. Accounts'
      BY <1>1, <2>1, <2>2 DEF Accounts
  <2>4. Len(users) <= Len(users)
      BY <1>1
  <2>5. Grows
      BY <1>1, <2>1, <2>4 DEF Grows
  <2> QED
      BY <2>3, <2>5
<1>3. CASE u \in DOMAIN users
  <2>1. /\ users' \in Seq(User) /\ Len(users') = Len(users) /\ users'[u] = a
        /\ \A v \in DOMAIN users : v # u => users'[v] = users[v]
        /\ DOMAIN users' = DOMAIN users
      BY <1>1, <1>3
  <2>2. Distinct'
    <3> SUFFICES ASSUME NEW x \in DOMAIN users, NEW y \in DOMAIN users, x # y,
                        users'[x].s = users'[y].s
                 PROVE  /\ users'[x].phone # "none" => users'[x].phone # users'[y].phone
                        /\ users'[x].email # "none" => users'[x].email # users'[y].email
        BY <2>1 DEF Distinct
    <3>1. CASE x # u /\ y # u
        BY <1>1, <2>1, <3>1 DEF Distinct
    <3>2. CASE x = u
      <4>1. y # u /\ users'[y] = users[y] /\ users[y].s = users[u].s /\ users[y].s = a.s
          BY <1>3, <2>1, <3>2
      <4>2. y \in UsersOf(users[u].s) \ {u}
          BY <4>1 DEF UsersOf
      <4>3. /\ users[u].phone # "none" => users[u].phone # users[y].phone
            /\ users[u].email # "none" => users[u].email # users[y].email
          BY <1>1, <1>3, <2>1, <4>1 DEF Distinct
      <4>4. users'[x] = a
          BY <2>1, <3>2
      <4> QED
          BY <1>3, <4>1, <4>2, <4>3, <4>4
    <3>3. CASE y = u
      <4>1. x # u /\ users'[x] = users[x] /\ users[x].s = users[u].s /\ users[x].s = a.s
          BY <1>3, <2>1, <3>3
      <4>2. x \in UsersOf(users[u].s) \ {u}
          BY <4>1 DEF UsersOf
      <4>3. /\ users[x].phone # "none" => users[x].phone # users[u].phone
            /\ users[x].email # "none" => users[x].email # users[u].email
          BY <1>1, <1>3, <2>1, <4>1 DEF Distinct
      <4>4. users'[y] = a
          BY <2>1, <3>3
      <4> QED
          BY <1>3, <4>1, <4>2, <4>3, <4>4
    <3> QED
        BY <3>1, <3>2, <3>3
  <2> QED
      BY <1>1, <1>3, <2>1, <2>2 DEF Accounts, Grows
<1> QED
    BY <1>2, <1>3

(* Somebody is listed, and not by a rebuild.                               *)
LEMMA ListSound ==
    ASSUME NEW l \in Local, l.pc = "find", l.todo # <<>>, l.back \in {"done", "drop"}, l.op # "activate"
    PROVE  Sound(l)'
<1>1. Route(l) /\ Fitting(l)'
    BY DEF Route, Fitting, Ending
<1> QED
    BY <1>1 DEF Sound

LEMMA AccountTables ==
    ASSUME RInv, Accounts', UNCHANGED <<soc, tenant, directory, cache, started, died>>
    PROVE  Tables'
    BY TablesTogether DEF tenant

LEMMA OneListing ==
    ASSUME NEW p \in Phones \cup {"none"}, NEW e \in Emails \cup {"none"}, NEW u \in 1..MaxUsers,
           NEW b \in BOOLEAN
    PROVE  /\ <<[phone |-> p, email |-> e, user |-> u, active |-> b]>> \in Seq(Upsert)
           /\ <<[phone |-> p, email |-> e, user |-> u, active |-> b]>> # <<>>
<1>1. [phone |-> p, email |-> e, user |-> u, active |-> b] \in Upsert
    BY DEF Upsert
<1> QED
    BY <1>1

LEMMA AdminListings ==
    ASSUME NEW p \in Phones \cup {"none"}, NEW e \in Emails \cup {"none"}, NEW u \in 1..MaxUsers,
           NEW b \in BOOLEAN, p # "none" \/ e # "none"
    PROVE  ListingsOf(p, e, u, b) \in Seq(Upsert) /\ ListingsOf(p, e, u, b) # <<>>
<1>1. PICK x : x = (IF p = "none" THEN <<>> ELSE <<[phone |-> p, email |-> "none", user |-> u, active |-> b]>>)
    OBVIOUS
<1>2. PICK y : y = (IF e = "none" THEN <<>> ELSE <<[phone |-> "none", email |-> e, user |-> u, active |-> b]>>)
    OBVIOUS
<1>3. x \in Seq(Upsert) /\ (p # "none" => Len(x) = 1)
  <2>1. CASE p = "none"
      BY <1>1, <2>1
  <2>2. CASE p # "none"
    <3>1. [phone |-> p, email |-> "none", user |-> u, active |-> b] \in Upsert
        BY DEF Upsert
    <3> QED
        BY <1>1, <2>2, <3>1
  <2> QED
      BY <2>1, <2>2
<1>4. y \in Seq(Upsert) /\ (e # "none" => Len(y) = 1)
  <2>1. CASE e = "none"
      BY <1>2, <2>1
  <2>2. CASE e # "none"
    <3>1. [phone |-> "none", email |-> e, user |-> u, active |-> b] \in Upsert
        BY DEF Upsert
    <3> QED
        BY <1>2, <2>2, <3>1
  <2> QED
      BY <2>1, <2>2
<1>5. x \o y \in Seq(Upsert) /\ Len(x \o y) = Len(x) + Len(y)
    BY <1>3, <1>4
<1>6. Len(x) \in Nat /\ Len(y) \in Nat
    BY <1>3, <1>4
<1>7. x \o y # <<>>
  <2>1. Len(x \o y) > 0
      BY <1>3, <1>4, <1>5, <1>6
  <2> QED
      BY <2>1
<1>8. ListingsOf(p, e, u, b) = x \o y
    BY <1>1, <1>2 DEF ListingsOf
<1> QED
    BY <1>5, <1>7, <1>8

AccountSteps(i) == SaveAdmin(i) \/ SignedIn(i) \/ SaveStaff(i) \/ LinkStaff(i) \/ Revoke(i) \/ SaveProfile(i)

LEMMA AccountStepsSound == ASSUME IInv, PlansInv, RInv, NEW i \in Handlers, AccountSteps(i) PROVE RInv'
<1>0. /\ h[i] \in Local /\ Route(h[i]) /\ DOMAIN h = Handlers /\ h[i].s \in Socs
      /\ h[i].phone \in Phones \cup {"none"} /\ h[i].email \in Emails \cup {"none"}
      /\ h[i].u \in 0..MaxUsers /\ h[i].live \in BOOLEAN /\ MaxUsers \in Nat
      /\ users \in Seq(User) /\ Len(users) \in Nat /\ DOMAIN users = 1..Len(users)
      /\ Len(users) <= MaxUsers
      /\ Fitting(h[i]) /\ "find" \in Steps /\ "staffLink" \in Steps /\ "drop" \in Steps
      /\ 0 \in 0..MaxUsers
    BY LocalIs, SocietiesAssumption
    DEF RInv, Tables, Accounts, SocietiesAssumption, Sound, Steps
<1>1. CASE SaveAdmin(i)
  <2>1. h[i].pc = "saveAdmin" /\ UNCHANGED <<soc, tenant, staff, directory, cache, started, died>>
      BY <1>1 DEF SaveAdmin, At
  <2>2. CASE /\ users' = [users EXCEPT ![h[i].u].admin = TRUE]
             /\ Finish(i)
    <3>1. PICK a : a = [users[h[i].u] EXCEPT !.admin = TRUE]
        OBVIOUS
    <3>2. h[i].u \in DOMAIN users => /\ a \in User /\ a.s = users[h[i].u].s
                                     /\ a.phone = users[h[i].u].phone
                                     /\ a.email = users[h[i].u].email
      <4>1. h[i].u \in DOMAIN users => users[h[i].u] \in User
          BY <1>0
      <4> QED
          BY <3>1, <4>1 DEF User
    <3>3. users' = [users EXCEPT ![h[i].u] = a]
        BY <2>2, <3>1
    <3>4. Accounts' /\ Grows
        BY <2>1, <3>2, <3>3, SetAccount
    <3> QED
        BY <2>1, <2>2, <3>4, AccountTables, FinishSound
  <2>3. CASE Finish(i) /\ UNCHANGED users
      BY <2>1, <2>3, SameTables, FinishSound DEF people
  <2>4. CASE /\ ~Clash(h[i].s, h[i].phone, h[i].email)
             /\ Len(users) < MaxUsers
             /\ users' = Append(users, [s |-> h[i].s, phone |-> h[i].phone, email |-> h[i].email,
                                        admin |-> TRUE,
                                        status |-> IF h[i].live THEN "ACTIVE" ELSE "PENDING"])
             /\ h' = [h EXCEPT ![i] = [Idle EXCEPT !.s = h[i].s, !.pc = "find", !.alone = h[i].alone,
                        !.todo = ListingsOf(h[i].phone, h[i].email, Len(users) + 1, h[i].live)]]
    <3>1. PICK a : a = [s |-> h[i].s, phone |-> h[i].phone, email |-> h[i].email, admin |-> TRUE,
                        status |-> IF h[i].live THEN "ACTIVE" ELSE "PENDING"]
        OBVIOUS
    <3>2. a \in User /\ a.s = h[i].s /\ a.phone = h[i].phone /\ a.email = h[i].email
        BY <1>0, <3>1 DEF User
    <3>3. Accounts' /\ Grows
        BY <2>1, <2>4, <3>1, <3>2, AppendAccount
    <3>4. PICK t : t = ListingsOf(h[i].phone, h[i].email, Len(users) + 1, h[i].live)
        OBVIOUS
    <3>5. t \in Seq(Upsert) /\ t # <<>>
      <4>1. Len(users) + 1 \in 1..MaxUsers
          BY <1>0, <2>4
      <4>2. h[i].phone # "none" \/ h[i].email # "none"
          BY <1>0, <2>1 DEF Route
      <4> QED
          BY <1>0, <3>4, <4>1, <4>2, AdminListings
    <3>6. PICK l : l = [Idle EXCEPT !.s = h[i].s, !.pc = "find", !.alone = h[i].alone, !.todo = t]
        OBVIOUS
    <3>7. h[i].alone \in BOOLEAN /\ Idle \in Local /\ Idle.back = "done" /\ Idle.op = "other"
        BY LocalIs, IdleLocal DEF Idle
    <3>8. /\ l \in Local /\ l.pc = "find" /\ l.todo = t /\ l.back = "done" /\ l.op = "other"
        BY <1>0, <3>5, <3>6, <3>7 DEF Local
    <3>9. h' = [h EXCEPT ![i] = l]
        BY <2>4, <3>4, <3>6
    <3> QED
        BY <2>1, <3>3, <3>5, <3>8, <3>9, AccountTables, ListSound, SetSound
  <2> QED
      BY <1>1, <2>2, <2>3, <2>4 DEF SaveAdmin
<1>2. CASE SignedIn(i)
  <2>1. h[i].pc = "signIn" /\ UNCHANGED <<soc, tenant, people, directory, cache, started, died>>
      BY <1>2 DEF SignedIn, At
  <2>2. Tables' /\ Grows
      BY <2>1, SameTables
  <2>3. CASE Finish(i)
      BY <2>1, <2>2, <2>3, FinishSound
  <2>4. CASE ~Finish(i)
    <3>1. PICK t : t = <<[phone |-> users[h[i].u].phone, email |-> users[h[i].u].email,
                          user |-> h[i].u, active |-> TRUE]>>
        OBVIOUS
    <3>2. t \in Seq(Upsert) /\ t # <<>>
      <4>1. h[i].u \in Listed(h[i].s)
          BY <1>2, <2>4 DEF SignedIn
      <4>2. h[i].u \in 1..Len(users)
          BY <1>0, <4>1 DEF Listed, UsersOf
      <4>3. users[h[i].u] \in User /\ h[i].u \in 1..MaxUsers
          BY <1>0, <4>2
      <4>4. users[h[i].u].phone \in Phones \cup {"none"} /\ users[h[i].u].email \in Emails \cup {"none"}
          BY <4>3 DEF User
      <4> QED
          BY <3>1, <4>3, <4>4, OneListing
    <3>3. PICK l : l = [h[i] EXCEPT !.pc = "find", !.u = 0, !.todo = t]
        OBVIOUS
    <3>4. /\ l \in Local /\ l.pc = "find" /\ l.todo = t /\ l.back = h[i].back /\ l.op = h[i].op
        BY <1>0, <3>2, <3>3 DEF Local
    <3>5. l.back = "done" /\ l.op # "activate"
        BY <1>0, <2>1, <3>4 DEF Route, Ending
    <3>6. h' = [h EXCEPT ![i] = l]
        BY <1>0, <1>2, <2>4, <3>1, <3>3 DEF SignedIn
    <3> QED
        BY <2>1, <2>2, <3>2, <3>4, <3>5, <3>6, ListSound, SetSound
  <2> QED
      BY <2>3, <2>4
<1>3. CASE SaveStaff(i)
  <2>1. h[i].pc = "staff" /\ UNCHANGED <<soc, tenant, staff, directory, cache, started, died>>
      BY <1>3 DEF SaveStaff, At
  <2>2. CASE /\ h[i].u # 0
             /\ users' = [users EXCEPT ![h[i].u].status = "ACTIVE", ![h[i].u].admin = FALSE]
             /\ Goto(i, "staffLink")
    <3>0. h[i].u \in DOMAIN users
        BY <1>0, <2>1, <2>2 DEF Fitting
    <3>1. PICK a : a = [users[h[i].u] EXCEPT !.status = "ACTIVE", !.admin = FALSE]
        OBVIOUS
    <3>2. /\ a \in User /\ a.s = users[h[i].u].s /\ a.phone = users[h[i].u].phone
          /\ a.email = users[h[i].u].email
      <4>1. users[h[i].u] \in User
          BY <1>0, <3>0
      <4> QED
          BY <3>1, <4>1 DEF User
    <3>3. users' = [users EXCEPT ![h[i].u] = a]
        BY <1>0, <2>2, <3>0, <3>1
    <3>4. Accounts' /\ Grows
        BY <2>1, <3>2, <3>3, SetAccount
    <3>5. PICK l : l = [h[i] EXCEPT !.pc = "staffLink"]
        OBVIOUS
    <3>6. /\ l \in Local /\ l.pc = "staffLink" /\ l.op = h[i].op /\ l.back = h[i].back /\ l.u = h[i].u
          /\ l.phone = h[i].phone /\ l.email = h[i].email
        BY <1>0, <3>5 DEF Local
    <3>7. h' = [h EXCEPT ![i] = l]
        BY <1>0, <2>2, <3>5 DEF Goto
    <3>8. Fitting(l)'
        BY <1>0, <3>0, <3>4, <3>6 DEF Fitting, Grows
    <3>9. Route(l)
        BY <1>0, <2>1, <3>6 DEF Route, Ending
    <3>10. Sound(l)'
        BY <1>0, <2>1, <3>6, <3>8, <3>9 DEF Sound, Route
    <3> QED
        BY <2>1, <3>4, <3>7, <3>10, AccountTables, SetSound
  <2>3. CASE Finish(i) /\ UNCHANGED users
      BY <2>1, <2>3, SameTables, FinishSound DEF people
  <2>4. CASE /\ ~Clash(h[i].s, h[i].phone, "none")
             /\ Len(users) < MaxUsers
             /\ users' = Append(users, [s |-> h[i].s, phone |-> h[i].phone, email |-> "none",
                                        admin |-> FALSE, status |-> "ACTIVE"])
             /\ h' = [h EXCEPT ![i].pc = "staffLink", ![i].u = Len(users) + 1]
    <3>1. PICK a : a = [s |-> h[i].s, phone |-> h[i].phone, email |-> "none", admin |-> FALSE,
                        status |-> "ACTIVE"]
        OBVIOUS
    <3>2. a \in User /\ a.s = h[i].s /\ a.phone = h[i].phone /\ a.email = "none"
        BY <1>0, <3>1 DEF User
    <3>3. Accounts' /\ Grows
        BY <2>1, <2>4, <3>1, <3>2, AppendAccount
    <3>4. Len(users') = Len(users) + 1 /\ Len(users) + 1 \in 1..MaxUsers
      <4>1. users' = Append(users, a)
          BY <2>4, <3>1
      <4> QED
          BY <1>0, <2>4, <3>2, <4>1
    <3>5. PICK l : l = [h[i] EXCEPT !.pc = "staffLink", !.u = Len(users) + 1]
        OBVIOUS
    <3>6. /\ l \in Local /\ l.pc = "staffLink" /\ l.op = h[i].op /\ l.back = h[i].back
          /\ l.u = Len(users) + 1 /\ l.phone = h[i].phone /\ l.email = h[i].email
      <4>1. Len(users) + 1 \in 0..MaxUsers
          BY <1>0, <3>4
      <4> QED
          BY <1>0, <3>5, <4>1 DEF Local
    <3>7. h' = [h EXCEPT ![i] = l]
        BY <1>0, <2>4, <3>5
    <3>8. Fitting(l)'
        BY <1>0, <3>4, <3>6 DEF Fitting
    <3>9. Route(l)
        BY <1>0, <2>1, <3>6 DEF Route, Ending
    <3>10. Sound(l)'
        BY <1>0, <2>1, <3>6, <3>8, <3>9 DEF Sound, Route
    <3> QED
        BY <2>1, <3>3, <3>7, <3>10, AccountTables, SetSound
  <2> QED
      BY <1>3, <2>2, <2>3, <2>4 DEF SaveStaff
<1>4. ASSUME NEW b \in BOOLEAN, ListStaff(i, b), Tables', Grows, h[i].pc \in {"staffLink", "revoke"}
      PROVE  RInv'
  <2>1. PICK t : t = <<[phone |-> h[i].phone, email |-> "none", user |-> h[i].u, active |-> b]>>
      OBVIOUS
  <2>2. t \in Seq(Upsert) /\ t # <<>>
    <3>1. h[i].u \in 1..MaxUsers
        BY <1>0, <1>4 DEF Fitting
    <3> QED
        BY <1>0, <2>1, <3>1, OneListing
  <2>3. PICK l : l = [h[i] EXCEPT !.pc = "find", !.u = 0, !.phone = "none", !.todo = t]
      OBVIOUS
  <2>4. /\ l \in Local /\ l.pc = "find" /\ l.todo = t /\ l.back = h[i].back /\ l.op = h[i].op
      BY <1>0, <2>2, <2>3 DEF Local
  <2>5. l.back = "done" /\ l.op # "activate"
      BY <1>0, <1>4, <2>4 DEF Route, Ending
  <2>6. h' = [h EXCEPT ![i] = l]
      BY <1>0, <1>4, <2>1, <2>3 DEF ListStaff
  <2> QED
      BY <1>4, <2>2, <2>4, <2>5, <2>6, ListSound, SetSound
<1>5. CASE LinkStaff(i)
  <2>1. h[i].pc = "staffLink" /\ UNCHANGED <<soc, tenant, users, directory, cache, started, died>>
      BY <1>5 DEF LinkStaff, At
  <2>2. staff' = [staff EXCEPT ![h[i].s] = h[i].u] /\ h[i].u <= Len(users)
      BY <1>0, <1>5, <2>1 DEF LinkStaff, Fitting
  <2>3. Accounts'
    <3>1. staff \in [Socs -> 0..MaxUsers] /\ Distinct /\ \A s \in Socs : staff[s] <= Len(users)
        BY DEF RInv, Tables, Accounts
    <3>2. Distinct'
        BY <2>1, <3>1 DEF Distinct
    <3>3. staff' \in [Socs -> 0..MaxUsers] /\ \A s \in Socs : staff'[s] <= Len(users)
        BY <1>0, <2>2, <3>1
    <3> QED
        BY <1>0, <2>1, <3>2, <3>3 DEF Accounts
  <2>4. Tables' /\ Grows
      BY <2>1, <2>3, AccountTables, SameGrows
  <2> QED
      BY <1>4, <1>5, <2>1, <2>4 DEF LinkStaff
<1>6. CASE Revoke(i)
  <2>1. h[i].pc = "revoke" /\ UNCHANGED <<soc, tenant, staff, directory, cache, started, died>>
      BY <1>6 DEF Revoke, At
  <2>2. PICK a : a = [users[h[i].u] EXCEPT !.status = "INACTIVE"]
      OBVIOUS
  <2>3. h[i].u \in DOMAIN users => /\ a \in User /\ a.s = users[h[i].u].s
                                   /\ a.phone = users[h[i].u].phone
                                   /\ a.email = users[h[i].u].email
    <3>1. h[i].u \in DOMAIN users => users[h[i].u] \in User
        BY <1>0
    <3> QED
        BY <2>2, <3>1 DEF User
  <2>4. users' = [users EXCEPT ![h[i].u] = a]
      BY <1>6, <2>2 DEF Revoke
  <2>5. Accounts' /\ Grows
      BY <2>1, <2>3, <2>4, SetAccount
  <2>6. Tables' /\ Grows
      BY <2>1, <2>5, AccountTables
  <2> QED
      BY <1>4, <1>6, <2>1, <2>6 DEF Revoke
<1>7. CASE SaveProfile(i)
  <2>1. h[i].pc = "profile" /\ UNCHANGED <<soc, tenant, staff, directory, cache, started, died>>
      BY <1>7 DEF SaveProfile, At
  <2>2. h[i].u \in 1..Len(users) /\ users[h[i].u].s = h[i].s
      BY <1>0, <2>1 DEF Fitting
  <2>3. CASE Finish(i) /\ UNCHANGED users
      BY <2>1, <2>3, SameTables, FinishSound DEF people
  <2>4. CASE ~(Finish(i) /\ UNCHANGED users)
    <3>1. PICK a : a = [users[h[i].u] EXCEPT !.email = h[i].email]
        OBVIOUS
    <3>2. /\ a \in User /\ a.s = users[h[i].u].s /\ a.phone = users[h[i].u].phone
          /\ a.email = h[i].email
      <4>1. users[h[i].u] \in User
          BY <1>0, <2>2
      <4> QED
          BY <1>0, <3>1, <4>1 DEF User
    <3>3. /\ users' = [users EXCEPT ![h[i].u] = a]
          /\ h[i].email = "none" \/ \A v \in UsersOf(h[i].s) \ {h[i].u} : users[v].email # h[i].email
          /\ Finish(i) \/ h[i].email # "none"
        BY <1>7, <2>4, <3>1 DEF SaveProfile
    <3>4. Accounts' /\ Grows
        BY <2>1, <2>2, <3>2, <3>3, SetAccount
    <3>5. Tables'
        BY <2>1, <3>4, AccountTables
    <3>6. CASE Finish(i)
        BY <2>1, <3>4, <3>5, <3>6, FinishSound
    <3>7. CASE ~Finish(i)
      <4>1. PICK t : t = <<[phone |-> users[h[i].u].phone, email |-> h[i].email, user |-> h[i].u,
                            active |-> TRUE]>>
          OBVIOUS
      <4>2. t \in Seq(Upsert) /\ t # <<>>
        <5>1. users[h[i].u] \in User /\ h[i].u \in 1..MaxUsers
            BY <1>0, <2>2
        <5>2. users[h[i].u].phone \in Phones \cup {"none"}
            BY <5>1 DEF User
        <5> QED
            BY <1>0, <4>1, <5>1, <5>2, OneListing
      <4>3. PICK l : l = [h[i] EXCEPT !.pc = "find", !.u = 0, !.email = "none", !.back = "drop",
                                      !.todo = t]
          OBVIOUS
      <4>4. /\ l \in Local /\ l.pc = "find" /\ l.todo = t /\ l.back = "drop" /\ l.op = h[i].op
          BY <1>0, <4>2, <4>3 DEF Local
      <4>5. l.op # "activate"
          BY <1>0, <2>1, <4>4 DEF Route, Ending
      <4>6. h' = [h EXCEPT ![i] = l]
          BY <1>0, <1>7, <2>4, <3>7, <4>1, <4>3 DEF SaveProfile
      <4> QED
          BY <2>1, <3>4, <3>5, <4>2, <4>4, <4>5, <4>6, ListSound, SetSound
    <3> QED
        BY <3>6, <3>7
  <2> QED
      BY <2>3, <2>4
<1> QED
    BY <1>1, <1>2, <1>3, <1>5, <1>6, <1>7 DEF AccountSteps

-----------------------------------------------------------------------------
LEMMA SameDoing ==
    ASSUME UNCHANGED <<users, directory>>, NEW l
    PROVE  (Doing(l) => Doing(l)') /\ (Fitting(l) => Fitting(l)')
           /\ (Awake(l.s) => Awake(l.s)') /\ (Entered(l) => Entered(l)') /\ Listed(l.s)' = Listed(l.s)
    BY DEF Doing, Entered, Seen, Fetched, Awake, Fitting, Listed, ListedAsIs, Displaced, UsersOf, RowOf,
           RowFor, ListingOf

LEMMA FindEntrySound == ASSUME IInv, PlansInv, RInv, NEW i \in Handlers, FindEntry(i) PROVE RInv'
<1>1. h[i].pc = "find" /\ UNCHANGED <<soc, tenant, people, directory, cache, started, died>>
    BY DEF FindEntry, At
<1>2. Tables' /\ Grows
    BY <1>1, SameTables
<1>3. PICK up, r, m : /\ up = Head(h[i].todo) /\ r = RowFor(up.phone, up.email)
                      /\ m = IF r = 0 THEN Nowhere ELSE directory[r].members
    OBVIOUS
<1>4. r \in Nat /\ m \in [Socs -> Member]
  <2>1. directory \in Seq(Entry)
      BY DEF RInv, Tables
  <2>2. r \in 0..Len(directory) /\ Len(directory) \in Nat
      BY <1>3, <2>1, RowForIs DEF IsRow
  <2>3. Nowhere \in [Socs -> Member]
    <3>1. Idle.members \in [Socs -> Member]
        BY IdleLocal DEF Local
    <3> QED
        BY <3>1 DEF Idle
  <2>4. CASE r = 0
      BY <1>3, <2>3, <2>4
  <2>5. CASE r # 0
      BY <1>3, <2>1, <2>2, <2>5, EntryIs
  <2> QED
      BY <2>2, <2>4, <2>5
<1>5. PICK l : l = [h[i] EXCEPT !.pc = "put", !.row = r, !.members = m]
    OBVIOUS
<1>6. /\ l \in Local /\ l.pc = "put" /\ l.op = h[i].op /\ l.back = h[i].back /\ l.s = h[i].s
      /\ l.phone = h[i].phone /\ l.email = h[i].email /\ l.todo = h[i].todo /\ l.alone = h[i].alone
      /\ l.row = r /\ l.members = m
  <2>1. h[i] \in Local
      BY LocalIs
  <2>2. "put" \in Steps
      BY DEF Steps
  <2> QED
      BY ONLY <1>4, <1>5, <2>1, <2>2 DEF Local
<1>7. h' = [h EXCEPT ![i] = l]
    BY <1>3, <1>5, LocalIs DEF FindEntry
<1>8. Sound(h[i])
    BY DEF RInv
<1>9. Route(l)
    BY <1>1, <1>6, <1>8 DEF Sound, Route, Ending
<1>10. Fitting(l)'
  <2>1. Fitting(l)
      BY <1>1, <1>6, <1>8 DEF Sound, Fitting
  <2> QED
      BY <1>1, <2>1, SameDoing DEF people
<1>11. ASSUME l.alone /\ l.back = "clear" PROVE Doing(l)'
  <2>1. Doing(h[i])
      BY <1>6, <1>8, <1>11 DEF Sound
  <2>2. Entered(l) /\ Seen(l.s, Ahead(l.todo))
      BY <1>1, <1>6, <2>1 DEF Doing, Entered
  <2>3. Fetched(l)
      BY <1>3, <1>6 DEF Fetched
  <2>4. l.op = "activate" => Awake(l.s)
      BY <1>1, <1>6, <2>1 DEF Doing
  <2>5. Doing(l)
      BY <1>6, <2>2, <2>3, <2>4 DEF Doing
  <2> QED
      BY <1>1, <2>5, SameDoing DEF people
<1>12. Sound(l)'
    BY <1>6, <1>9, <1>10, <1>11 DEF Sound
<1> QED
    BY <1>1, <1>2, <1>7, <1>12, SetSound

LEMMA TailIs ==
    ASSUME NEW t \in Seq(Upsert), t # <<>>
    PROVE  /\ Head(t) \in Upsert /\ Head(t) = t[1] /\ 1 \in DOMAIN t /\ Tail(t) \in Seq(Upsert)
           /\ \A n \in DOMAIN Tail(t) : n + 1 \in DOMAIN t /\ Tail(t)[n] = t[n + 1]
           /\ \A n \in DOMAIN t : n = 1 \/ (n - 1 \in DOMAIN Tail(t) /\ Tail(t)[n - 1] = t[n])
<1>1. Len(t) \in Nat /\ DOMAIN t = 1..Len(t) /\ Len(t) # 0
    OBVIOUS
<1>2. /\ Tail(t) \in Seq(Upsert) /\ Len(Tail(t)) = Len(t) - 1 /\ DOMAIN Tail(t) = 1..(Len(t) - 1)
      /\ \A n \in 1..(Len(t) - 1) : Tail(t)[n] = t[n + 1]
    BY <1>1
<1>3. Head(t) = t[1] /\ 1 \in 1..Len(t) /\ t[1] \in Upsert
    BY <1>1
<1>4. ASSUME NEW n \in DOMAIN t, n # 1
      PROVE  n - 1 \in DOMAIN Tail(t) /\ Tail(t)[n - 1] = t[n]
  <2>1. n - 1 \in 1..(Len(t) - 1) /\ (n - 1) + 1 = n
      BY <1>1, <1>4
  <2> QED
      BY <1>2, <2>1
<1>5. ASSUME NEW n \in DOMAIN Tail(t)
      PROVE  n + 1 \in DOMAIN t /\ Tail(t)[n] = t[n + 1]
    BY <1>1, <1>2, <1>5
<1> QED
    BY <1>1, <1>2, <1>3, <1>4, <1>5

LEMMA PutEntrySound == ASSUME IInv, PlansInv, RInv, NEW i \in Handlers, PutEntry(i) PROVE RInv'
<1>1. h[i].pc = "put" /\ UNCHANGED <<soc, tenant, people, cache, started, died>>
    BY DEF PutEntry, At
<1>2. PICK t, up, rest, s : t = h[i].todo /\ up = Head(t) /\ rest = Tail(t) /\ s = h[i].s
    OBVIOUS
<1>3. PICK m : m = [user |-> up.user, active |-> up.active]
    OBVIOUS
<1>4. PICK ms : ms = [h[i].members EXCEPT ![s] = m]
    OBVIOUS
<1>5. /\ t \in Seq(Upsert) /\ t # <<>> /\ s \in Socs /\ Sound(h[i]) /\ h[i].row \in Nat
      /\ h[i].back \in Backs /\ directory \in Seq(Entry)
  <2>1. Sound(h[i]) /\ directory \in Seq(Entry) /\ h[i].back \in Backs
      BY DEF RInv, Tables, IInv, Shaped
  <2> QED
      BY <1>1, <1>2, <2>1, LocalIs DEF Sound, Fitting
<1>6. /\ up \in Upsert /\ up = t[1] /\ 1 \in DOMAIN t /\ rest \in Seq(Upsert)
      /\ \A n \in DOMAIN rest : n + 1 \in DOMAIN t /\ rest[n] = t[n + 1]
      /\ \A n \in DOMAIN t : n = 1 \/ (n - 1 \in DOMAIN rest /\ rest[n - 1] = t[n])
    BY <1>2, <1>5, TailIs
<1>7. ms \in [Socs -> Member] /\ ms[s] = m
  <2>1. m \in Member
      BY <1>3, <1>6 DEF Upsert, Member
  <2> QED
      BY <1>2, <1>4, <1>5, <2>1, LocalIs
<1>8. directory' = Written(directory, h[i].row, up, ms)
    BY <1>2, <1>3, <1>4 DEF PutEntry, Written
<1>9. directory' \in Seq(Entry)
    BY <1>5, <1>6, <1>7, <1>8, WrittenIs DEF Wrote
<1>10. Tables' /\ Grows
    BY <1>1, <1>9, TablesTogether, SameGrows DEF people, tenant
<1>11. ASSUME h[i].alone, h[i].back = "clear"
       PROVE  /\ \A n \in DOMAIN rest : \E v \in Listed(s) : rest[n] = ListingOf(v)
              /\ Seen(s, Ahead(rest))'
              /\ h[i].op = "activate" => Awake(s)
  <2>1. Doing(h[i])
      BY <1>5, <1>11 DEF Sound
  <2>2. Entered(h[i]) /\ Seen(s, Ahead(t)) /\ Fetched(h[i]) /\ (h[i].op = "activate" => Awake(s))
      BY <1>1, <1>2, <2>1 DEF Doing
  <2>3. \A n \in DOMAIN t : \E v \in Listed(s) : t[n] = ListingOf(v)
      BY <1>2, <2>2 DEF Entered
  <2>4. PICK v \in Listed(s) : up = ListingOf(v)
      BY <1>6, <2>3
  <2>5. /\ up.phone = users[v].phone /\ up.email = users[v].email /\ up.user = v
        /\ up.active = Standing(users[v])
      BY <2>4 DEF ListingOf
  <2>6. h[i].row = RowOf(v)
      BY <1>2, <2>2, <2>5 DEF Fetched, RowOf
  <2>7. ms[s] = [user |-> v, active |-> Standing(users[v])]
      BY <1>3, <1>7, <2>5
  <2>8. Ahead(t) \subseteq Ahead(rest) \cup {v}
    <3> SUFFICES ASSUME NEW n \in DOMAIN t PROVE t[n].user \in Ahead(rest) \cup {v}
        BY DEF Ahead
    <3>1. CASE n = 1
        BY <1>6, <2>5, <3>1
    <3>2. CASE n # 1
        BY <1>6, <3>2 DEF Ahead
    <3> QED
        BY <3>1, <3>2
  <2>9. /\ users \in Seq(User) /\ Len(users) <= MaxUsers /\ Distinct
      BY DEF RInv, Tables, Accounts
  <2>10. directory' = Written(directory, RowOf(v), ListingOf(v), ms)
      BY <1>8, <2>4, <2>6
  <2>11. users' = users
      BY <1>1 DEF people
  <2>12. Seen(s, Ahead(rest))'
    <3>1. PICK a, b : a = Ahead(t) /\ b = Ahead(rest)
        OBVIOUS
    <3>2. Seen(s, b)'
        BY <1>5, <1>7, <2>2, <2>7, <2>8, <2>9, <2>10, <2>11, <3>1, PutSees
    <3> QED
        BY <3>1, <3>2
  <2>13. \A n \in DOMAIN rest : \E w \in Listed(s) : rest[n] = ListingOf(w)
      BY <1>6, <2>3
  <2> QED
      BY <2>2, <2>12, <2>13
<1>12. Nowhere \in [Socs -> Member] /\ <<>> \in Seq(Upsert) /\ 0 \in Nat
  <2>1. Idle.members \in [Socs -> Member]
      BY IdleLocal DEF Local
  <2> QED
      BY <2>1 DEF Idle
<1>13. CASE rest # <<>>
  <2>1. PICK l : l = [h[i] EXCEPT !.pc = "find", !.todo = rest, !.row = 0, !.members = Nowhere]
      OBVIOUS
  <2>2. /\ l \in Local /\ l.pc = "find" /\ l.op = h[i].op /\ l.back = h[i].back /\ l.s = s
        /\ l.phone = h[i].phone /\ l.email = h[i].email /\ l.todo = rest /\ l.alone = h[i].alone
    <3>1. h[i] \in Local
        BY LocalIs
    <3>2. "find" \in Steps
        BY DEF Steps
    <3> QED
        BY ONLY <1>2, <1>6, <1>12, <2>1, <3>1, <3>2 DEF Local
  <2>3. h' = [h EXCEPT ![i] = l]
      BY <1>2, <1>13, <2>1 DEF PutEntry
  <2>4. Route(l)
      BY <1>1, <1>5, <2>2 DEF Sound, Route, Ending
  <2>5. Fitting(l)'
      BY <1>13, <2>2 DEF Fitting
  <2>6. ASSUME l.alone /\ l.back = "clear" PROVE Doing(l)'
    <3>1. UNCHANGED users
        BY <1>1 DEF people
    <3>2. /\ \A n \in DOMAIN rest : \E v \in Listed(s) : rest[n] = ListingOf(v)
          /\ Seen(s, Ahead(rest))' /\ (h[i].op = "activate" => Awake(s))
        BY <1>11, <2>2, <2>6
    <3>3. Entered(l)'
      <4>1. Listed(s)' = Listed(s) /\ \A v : ListingOf(v)' = ListingOf(v)
          BY <3>1 DEF Listed, UsersOf, ListingOf
      <4> QED
          BY <2>2, <3>2, <4>1 DEF Entered
    <3>4. Seen(l.s, Ahead(l.todo))'
        BY <2>2, <3>2
    <3>5. l.op = "activate" => Awake(l.s)'
      <4>1. Awake(s) => Awake(s)'
          BY <3>1 DEF Awake, UsersOf
      <4> QED
          BY <2>2, <3>2, <4>1
    <3> QED
        BY <2>2, <3>3, <3>4, <3>5 DEF Doing
  <2>7. Sound(l)'
      BY <2>2, <2>4, <2>5, <2>6 DEF Sound
  <2> QED
      BY <1>1, <1>10, <2>3, <2>7, SetSound
<1>14. CASE rest = <<>> /\ h[i].back = "done"
  <2>1. Finish(i)
      BY <1>2, <1>14 DEF PutEntry
  <2> QED
      BY <1>1, <1>10, <2>1, FinishSound
<1>15. CASE rest = <<>> /\ h[i].back # "done"
  <2>1. PICK l : l = [h[i] EXCEPT !.pc = h[i].back, !.todo = <<>>, !.row = 0, !.members = Nowhere]
      OBVIOUS
  <2>2. /\ l \in Local /\ l.pc = h[i].back /\ l.op = h[i].op /\ l.back = h[i].back /\ l.s = s
        /\ l.phone = h[i].phone /\ l.email = h[i].email /\ l.alone = h[i].alone
      BY <1>2, <1>12, <2>1, LocalIs DEF Local
  <2>3. h' = [h EXCEPT ![i] = l]
      BY <1>2, <1>15, <2>1 DEF PutEntry
  <2>4. l.pc \in {"admin", "structure", "count", "clear", "drop"}
      BY <1>5, <1>15, <2>2 DEF Backs
  <2>5. Route(l)
      BY <1>1, <1>5, <2>2, <2>4 DEF Sound, Route, Ending
  <2>6. Fitting(l)'
      BY <2>4 DEF Fitting
  <2>7. ASSUME l.alone /\ l.back = "clear" PROVE Doing(l)'
    <3>1. UNCHANGED users
        BY <1>1 DEF people
    <3>2. Seen(s, Ahead(rest))' /\ (h[i].op = "activate" => Awake(s))
        BY <1>11, <2>2, <2>7
    <3>3. Ahead(rest) = {}
        BY <1>15 DEF Ahead
    <3>4. Seen(l.s, {})'
        BY <2>2, <3>2, <3>3
    <3>5. l.op = "activate" => Awake(l.s)'
      <4>1. Awake(s) => Awake(s)'
          BY <3>1 DEF Awake, UsersOf
      <4> QED
          BY <2>2, <3>2, <4>1
    <3> QED
        BY <2>2, <2>7, <3>4, <3>5 DEF Doing
  <2>8. Sound(l)'
      BY <2>2, <2>5, <2>6, <2>7 DEF Sound
  <2> QED
      BY <1>1, <1>10, <2>3, <2>8, SetSound
<1> QED
    BY <1>13, <1>14, <1>15

LEMMA ListingTyped ==
    ASSUME Accounts, NEW s, NEW v \in Listed(s)
    PROVE  ListingOf(v) \in Upsert /\ ListingOf(v).user = v
<1>1. users[v] \in User /\ v \in 1..MaxUsers
    BY SocietiesAssumption DEF SocietiesAssumption, Accounts, Listed, UsersOf
<1>2. Standing(users[v]) \in BOOLEAN
    BY DEF Standing
<1> QED
    BY <1>1, <1>2 DEF ListingOf, Upsert, User

(* A rebuild that nothing crosses has every account before it.             *)
LEMMA ReadUsersSound == ASSUME IInv, PlansInv, RInv, NEW i \in Handlers, ReadUsers(i) PROVE RInv'
<1>1. h[i].pc = "rebuild" /\ UNCHANGED <<soc, tenant, people, directory, cache, started, died>>
    BY DEF ReadUsers, At
<1>2. Tables' /\ Grows /\ Accounts /\ Sound(h[i])
    BY <1>1, SameTables DEF RInv, Tables
<1>3. PICK s, mine, N : s = h[i].s /\ mine = Listed(s) /\ N = Cardinality(mine)
    OBVIOUS
<1>4. N \in Nat /\ (mine # {} => N # 0)
  <2>1. mine \subseteq 1..Len(users) /\ Len(users) \in Nat
      BY <1>2, <1>3 DEF Accounts, Listed, UsersOf
  <2>2. IsFiniteSet(1..Len(users))
      BY <2>1, FS_Interval
  <2>3. IsFiniteSet(mine)
      BY <2>1, <2>2, FS_Subset
  <2> QED
      BY <1>3, <2>3, FS_CardinalityType, FS_EmptySet
<1>5. PICK step : step = IF mine = {} THEN "clear" ELSE "find"
    OBVIOUS
<1>6. PICK ids \in Bijection(1..N, mine) :
         h' = [h EXCEPT ![i].pc = step, ![i].todo = [n \in 1..N |-> ListingOf(ids[n])]]
    BY <1>3, <1>5 DEF ReadUsers
<1>7. /\ \A n \in 1..N : ids[n] \in mine
      /\ \A v \in mine : \E n \in 1..N : ids[n] = v
    BY <1>6 DEF Bijection, Injection, Surjection
<1>8. PICK t : t = [n \in 1..N |-> ListingOf(ids[n])]
    OBVIOUS
<1>9. t \in Seq(Upsert) /\ DOMAIN t = 1..N /\ (mine # {} => t # <<>>)
  <2>1. \A n \in 1..N : ListingOf(ids[n]) \in Upsert
      BY <1>2, <1>3, <1>7, ListingTyped
  <2>2. t \in Seq(Upsert) /\ DOMAIN t = 1..N
      BY <1>4, <1>8, <2>1
  <2>3. 1 \in 1..N => t # <<>>
    <3>1. DOMAIN << >> = {}
        OBVIOUS
    <3> QED
        BY <2>2, <3>1
  <2> QED
      BY <1>4, <2>2, <2>3
<1>10. PICK l : l = [h[i] EXCEPT !.pc = step, !.todo = t]
    OBVIOUS
<1>11. /\ l \in Local /\ l.pc = step /\ l.op = h[i].op /\ l.back = h[i].back /\ l.s = s
       /\ l.phone = h[i].phone /\ l.email = h[i].email /\ l.todo = t /\ l.alone = h[i].alone
  <2>1. h[i] \in Local
      BY LocalIs
  <2>2. step \in Steps
      BY <1>5 DEF Steps
  <2> QED
      BY ONLY <1>3, <1>9, <1>10, <2>1, <2>2 DEF Local
<1>12. h' = [h EXCEPT ![i] = l]
    BY <1>6, <1>8, <1>10, LocalIs
<1>13. Route(l)
    BY <1>1, <1>2, <1>5, <1>11 DEF Sound, Route, Ending
<1>14. Fitting(l)'
    BY <1>5, <1>9, <1>11 DEF Fitting
<1>15. ASSUME l.alone /\ l.back = "clear" PROVE Doing(l)'
  <2>1. Entered(l)
      BY <1>3, <1>7, <1>8, <1>9, <1>11 DEF Entered
  <2>2. Seen(s, Ahead(t))
    <3> SUFFICES ASSUME NEW u \in Listed(s) PROVE u \in Ahead(t)
        BY DEF Seen
    <3>1. PICK n \in 1..N : ids[n] = u
        BY <1>3, <1>7
    <3>2. t[n].user = u
        BY <1>2, <1>8, <3>1, ListingTyped
    <3> QED
        BY <1>9, <3>2 DEF Ahead
  <2>3. mine = {} => Seen(s, {})
      BY <1>3 DEF Seen
  <2>4. h[i].op = "activate" => Awake(s)
      BY <1>1, <1>2, <1>3, <1>11, <1>15 DEF Sound, Doing
  <2>5. Doing(l)
      BY <1>5, <1>11, <2>1, <2>2, <2>3, <2>4 DEF Doing
  <2> QED
      BY <1>1, <2>5, SameDoing DEF people
<1>16. Sound(l)'
    BY <1>11, <1>13, <1>14, <1>15 DEF Sound
<1> QED
    BY <1>1, <1>2, <1>12, <1>16, SetSound

-----------------------------------------------------------------------------
(* Steps that change what several requests hold.                           *)
LEMMA TogetherSound ==
    ASSUME Tables', h' = [j \in Handlers |-> h'[j]],
           \A j \in Handlers : \E m \in Local : h'[j] = m /\ Sound(m)'
    PROVE  RInv'
<1>1. h' \in [Handlers -> Local]
    OBVIOUS
<1>2. ASSUME NEW j \in Handlers PROVE Sound(h[j])'
  <2>1. PICK m \in Local : h'[j] = m /\ Sound(m)'
      OBVIOUS
  <2> QED
      BY <2>1 DEF Sound, Fitting, Doing, Fetched, Entered
<1> QED
    BY <1>1, <1>2 DEF RInv

LEMMA CrossedSound ==
    ASSUME IInv, PlansInv, RInv, Grows, NEW i \in Handlers, NEW j \in Handlers \ {i}, h[i].pc # "idle",
           NEW m, m = [h[j] EXCEPT !.crossed = TRUE] \/ m = h[j]
    PROVE  m \in Local /\ Sound(m)'
<1>1. /\ m \in Local /\ m.s = h[j].s /\ m.u = h[j].u /\ m.todo = h[j].todo /\ m.op = h[j].op
      /\ m.back = h[j].back /\ m.pc = h[j].pc /\ m.phone = h[j].phone /\ m.email = h[j].email
      /\ m.alone = h[j].alone
    BY LocalIs DEF Local
<1> QED
    BY <1>1, OthersSound

LEMMA CrossSound ==
    ASSUME IInv, PlansInv, RInv, Tables', Grows, NEW i \in Handlers, h[i].pc # "idle",
           NEW l \in Local, l.pc \notin {"load", "fill"}, Sound(l)', NEW S,
           h' = Cross([h EXCEPT ![i] = l], S)
    PROVE  RInv'
<1>1. DOMAIN h = Handlers
    BY LocalIs
<1>2. PICK g : g = [h EXCEPT ![i] = l]
    OBVIOUS
<1>3. g[i] = l /\ \A j \in Handlers \ {i} : g[j] = h[j]
    BY <1>1, <1>2
<1>4. h' = [j \in Handlers |-> IF g[j].pc \in {"load", "fill"} /\ g[j].s \in S
                               THEN [g[j] EXCEPT !.crossed = TRUE] ELSE g[j]]
    BY <1>2 DEF Cross
<1>5. ASSUME NEW j \in Handlers PROVE \E m \in Local : h'[j] = m /\ Sound(m)'
  <2>1. CASE j = i
      BY <1>3, <1>4, <2>1
  <2>2. CASE j # i
    <3>1. PICK m : m = h'[j]
        OBVIOUS
    <3>2. m = [h[j] EXCEPT !.crossed = TRUE] \/ m = h[j]
        BY <1>3, <1>4, <2>2, <3>1
    <3> QED
        BY <2>2, <3>1, <3>2, CrossedSound
  <2> QED
      BY <2>1, <2>2
<1> QED
    BY <1>4, <1>5, TogetherSound

LEMMA ClearSound == ASSUME IInv, PlansInv, RInv, NEW i \in Handlers, Clear(i) PROVE RInv'
<1>1. h[i].pc = "clear" /\ UNCHANGED <<soc, tenant, people, directory, started, died>>
    BY DEF Clear, At
<1>2. Caching'
    BY DEF Clear, Caching
<1>3. Tables' /\ Grows
    BY <1>1, <1>2, TablesTogether, SameGrows DEF people, tenant
<1> QED
    BY <1>1, <1>3, IdleLocal, IdleSound, CrossSound DEF Clear, Idle

LEMMA InvalidateTyped == ASSUME RInv, NEW s \in Socs, Invalidate(s), UNCHANGED loading PROVE Caching'
    BY DEF RInv, Tables, Caching, Invalidate

LEMMA DropSound == ASSUME IInv, PlansInv, RInv, NEW i \in Handlers, Drop(i) PROVE RInv'
<1>1. h[i].pc = "drop" /\ UNCHANGED <<soc, tenant, people, directory, loading, started, died>>
    BY DEF Drop, At
<1>2. Caching'
    BY <1>1, LocalIs, InvalidateTyped DEF Drop
<1>3. Tables' /\ Grows
    BY <1>1, <1>2, TablesTogether, SameGrows DEF people, tenant
<1> QED
    BY <1>1, <1>3, IdleLocal, IdleSound, CrossSound DEF Drop, Idle

LEMMA WakeSound == ASSUME IInv, PlansInv, RInv, NEW i \in Handlers, Wake(i) PROVE RInv'
<1>1. /\ h[i].pc = "wake" /\ h[i].s \in Socs
      /\ UNCHANGED <<soc, tenant, staff, directory, loading, started, died>>
    BY LocalIs DEF Wake, At
<1>2. Caching'
    BY <1>1, InvalidateTyped DEF Wake
<1>3. PICK s : s = h[i].s
    OBVIOUS
<1>4. users' = [u \in DOMAIN users |->
                  IF users[u].s = s /\ users[u].admin /\ users[u].status = "PENDING"
                  THEN [users[u] EXCEPT !.status = "ACTIVE"] ELSE users[u]]
    BY <1>3 DEF Wake
<1>5. Accounts /\ users \in Seq(User)
    BY DEF RInv, Tables, Accounts
<1>6. DOMAIN users = 1..Len(users) /\ Len(users) \in Nat
    BY <1>5
<1>7. ASSUME NEW u \in DOMAIN users
      PROVE  /\ users'[u] \in User /\ users'[u].s = users[u].s
             /\ users'[u].phone = users[u].phone /\ users'[u].email = users[u].email
             /\ users[u].s = s /\ users'[u].admin => users'[u].status # "PENDING"
  <2>1. users[u] \in User
      BY <1>5
  <2>2. PICK a : a = [users[u] EXCEPT !.status = "ACTIVE"]
      OBVIOUS
  <2>3. /\ a \in User /\ a.s = users[u].s /\ a.phone = users[u].phone /\ a.email = users[u].email
        /\ a.status = "ACTIVE" /\ a.admin = users[u].admin
      BY <2>1, <2>2 DEF User
  <2>4. \/ users'[u] = a
        \/ users'[u] = users[u] /\ (users[u].s = s /\ users[u].admin => users[u].status # "PENDING")
      BY <1>4, <2>2
  <2> QED
      BY <2>1, <2>3, <2>4
<1>8. DOMAIN users' = 1..Len(users)
    BY <1>4, <1>6
<1>9. users' \in Seq(User) /\ Len(users') = Len(users) /\ Grows
  <2>1. users' = [u \in 1..Len(users) |-> users'[u]]
      BY <1>4, <1>6
  <2>2. users' \in Seq(User) /\ Len(users') = Len(users)
      BY <1>6, <1>7, <2>1
  <2> QED
      BY <1>6, <1>7, <2>2 DEF Grows
<1>10. Accounts'
  <2>1. Distinct'
      BY <1>5, <1>6, <1>7, <1>8 DEF Accounts, Distinct
  <2> QED
      BY <1>1, <1>5, <1>9, <2>1 DEF Accounts
<1>11. Tables'
    BY <1>1, <1>2, <1>10 DEF RInv, Tables, Platform, Counts, tenant
<1>12. PICK l : l = [h[i] EXCEPT !.pc = "rebuild"]
    OBVIOUS
<1>13. /\ l \in Local /\ l.pc = "rebuild" /\ l.op = h[i].op /\ l.back = h[i].back /\ l.s = s
       /\ l.phone = h[i].phone /\ l.email = h[i].email
  <2>1. "rebuild" \in Steps /\ h[i] \in Local
      BY LocalIs DEF Steps
  <2> QED
      BY ONLY <1>3, <1>12, <2>1 DEF Local
<1>14. Route(l)
    BY <1>1, <1>13, LocalIs DEF Route, Ending
<1>15. Fitting(l)'
    BY <1>13 DEF Fitting
<1>16. Doing(l)'
  <2>1. Awake(s)'
      BY <1>7, <1>8, <1>6 DEF Awake, UsersOf
  <2> QED
      BY <1>13, <2>1 DEF Doing
<1>17. Sound(l)'
    BY <1>13, <1>14, <1>15, <1>16 DEF Sound
<1>18. h' = Cross([h EXCEPT ![i] = l], {s})
    BY <1>3, <1>12, LocalIs DEF Wake
<1> QED
    BY <1>1, <1>9, <1>11, <1>13, <1>17, <1>18, CrossSound

LEMMA SeedSound == ASSUME IInv, PlansInv, RInv, NEW i \in Handlers, Seed(i) PROVE RInv'
<1>1. /\ h[i].pc = "seed" /\ h[i].s \in Socs /\ h[i].tier \in Tiers
      /\ UNCHANGED <<soc, muddled, people, directory, cache, started, died>>
    BY LocalIs DEF Seed, At
<1>2. Platform'
  <2>1. Platform
      BY DEF RInv, Tables
  <2>2. seeded' \in [Socs -> BOOLEAN]
      BY <2>1 DEF Platform, Seed
  <2>3. mirror' = [mirror EXCEPT ![h[i].s] = h[i].tier]
      BY DEF Seed
  <2>4. provisioning' = [provisioning EXCEPT ![h[i].s] = "none"]
      BY DEF Seed
  <2>5. mirror' \in [Socs -> Tiers \cup {"none"}]
      BY <1>1, <2>1, <2>3 DEF Platform
  <2>6. provisioning' \in [Socs -> Handlers \cup {"none"}]
      BY <1>1, <2>1, <2>4 DEF Platform
  <2> QED
      BY <1>1, <2>1, <2>2, <2>5, <2>6 DEF Platform
<1>3. Tables' /\ Grows
    BY <1>1, <1>2, SameGrows DEF RInv, Tables, Accounts, Distinct, Caching, Counts, people, cache
<1>4. PICK l : l = [h[i] EXCEPT !.pc = "flag", !.tier = Some(Tiers)]
    OBVIOUS
<1>5. "flag" \in Steps
    BY DEF Steps
<1>6. /\ l \in Local /\ l.pc = "flag" /\ l.op = h[i].op /\ l.back = h[i].back
      /\ l.phone = h[i].phone /\ l.email = h[i].email
  <2>1. Some(Tiers) \in Tiers /\ h[i] \in Local
      BY SomeIn, LocalIs, SocietiesAssumption DEF SocietiesAssumption
  <2> QED
      BY ONLY <1>4, <1>5, <2>1 DEF Local
<1>7. Route(l)
    BY <1>1, <1>6, LocalIs DEF Route, Ending
<1>8. Sound(l)'
    BY <1>6, <1>7, PlainSound DEF Plain, Steps
<1>9. ASSUME NEW j \in Handlers PROVE \E m \in Local : h'[j] = m /\ Sound(m)'
  <2>1. CASE j = i
      BY <1>4, <1>6, <1>8, <2>1 DEF Seed
  <2>2. CASE j # i
    <3>1. PICK m : m = IF h[j].pc = "join" /\ h[j].s = h[i].s THEN [h[j] EXCEPT !.pc = "flag"] ELSE h[j]
        OBVIOUS
    <3>2. /\ m \in Local /\ m.s = h[j].s /\ m.u = h[j].u /\ m.todo = h[j].todo /\ m.op = h[j].op
          /\ m.back = h[j].back /\ m.phone = h[j].phone /\ m.email = h[j].email /\ m.alone = h[j].alone
          /\ m.pc = h[j].pc \/ (h[j].pc = "join" /\ m.pc = "flag")
      <4>1. h[j] \in Local
          BY LocalIs
      <4> QED
          BY ONLY <1>5, <3>1, <4>1 DEF Local
    <3>3. Sound(m)'
        BY <1>1, <1>3, <2>2, <3>2, OthersSound
    <3>4. h'[j] = m
        BY <2>2, <3>1 DEF Seed
    <3> QED
        BY <3>2, <3>3, <3>4
  <2> QED
      BY <2>1, <2>2
<1>10. h' = [j \in Handlers |-> h'[j]]
    BY DEF Seed
<1> QED
    BY <1>3, <1>9, <1>10, TogetherSound

LEMMA AbortSound == ASSUME IInv, PlansInv, RInv, NEW i \in Handlers, Abort(i) PROVE RInv'
<1>1. /\ h[i].pc # "idle" /\ h[i].s \in Socs
      /\ UNCHANGED <<soc, seeded, mirror, people, directory, cached, started>>
    BY LocalIs DEF Abort, InFlight
<1>2. Platform'
  <2>1. Platform
      BY DEF RInv, Tables
  <2>2. muddled' \in [Socs -> BOOLEAN]
      BY <1>1, <2>1 DEF Platform, Abort
  <2>3. PICK p : p = IF provisioning[h[i].s] = i THEN "none" ELSE provisioning[h[i].s]
      OBVIOUS
  <2>4. provisioning' = [provisioning EXCEPT ![h[i].s] = p]
      BY <2>3 DEF Abort
  <2>5. provisioning' \in [Socs -> Handlers \cup {"none"}]
      BY <1>1, <2>1, <2>3, <2>4 DEF Platform
  <2> QED
      BY <1>1, <2>1, <2>2, <2>5 DEF Platform
<1>3. Caching'
  <2>1. Caching
      BY DEF RInv, Tables
  <2>2. late' \in [Socs -> BOOLEAN]
      BY <1>1, <2>1 DEF Caching, Abort
  <2>3. loading' = [loading EXCEPT ![h[i].s] = "none"] \/ loading' = loading
      BY DEF Abort
  <2>4. loading' \in [Socs -> Handlers \cup {"none"}]
      BY <1>1, <2>1, <2>3 DEF Caching
  <2> QED
      BY <1>1, <2>1, <2>2, <2>4 DEF Caching
<1>4. Counts'
    BY <1>1, SocietiesAssumption DEF RInv, Tables, Counts, Abort, SocietiesAssumption
<1>5. Tables' /\ Grows
    BY <1>1, <1>2, <1>3, <1>4, SameGrows DEF RInv, Tables, Accounts, Distinct, people
<1>6. PICK left : left = [j \in Handlers |->
                            IF j = i \/ (h[j].pc = "join" /\ h[j].s = h[i].s /\ provisioning[h[i].s] = i)
                            THEN Idle ELSE h[j]]
    OBVIOUS
<1>7. h' = IF h[i].pc \in {"wake", "drop"} THEN Cross(left, {h[i].s}) ELSE left
    BY <1>6 DEF Abort
<1>8. ASSUME NEW j \in Handlers PROVE \E m \in Local : h'[j] = m /\ Sound(m)'
  <2>1. CASE left[j] = Idle
    <3>1. h'[j] = Idle
        BY <1>7, <2>1 DEF Cross, Idle
    <3> QED
        BY <3>1, IdleLocal, IdleSound
  <2>2. CASE left[j] # Idle
    <3>1. j # i /\ left[j] = h[j]
        BY <1>6, <2>2
    <3>2. PICK m : m = h'[j]
        OBVIOUS
    <3>3. m = [h[j] EXCEPT !.crossed = TRUE] \/ m = h[j]
        BY <1>7, <3>1, <3>2 DEF Cross
    <3> QED
        BY <1>1, <1>5, <3>1, <3>2, <3>3, CrossedSound
  <2> QED
      BY <2>1, <2>2
<1>9. h' = [j \in Handlers |-> h'[j]]
    BY <1>6, <1>7 DEF Cross
<1> QED
    BY <1>5, <1>8, <1>9, TogetherSound

LEMMA SameSound ==
    ASSUME RInv, Tables', UNCHANGED <<users, directory, h>>
    PROVE  RInv'
<1>1. ASSUME NEW j \in Handlers PROVE Sound(h[j])'
  <2>1. PICK m : m = h[j]
      OBVIOUS
  <2>2. Sound(m)
      BY <2>1 DEF RInv
  <2>3. Sound(m)'
      BY <2>2, SameDoing DEF Sound
  <2>4. h'[j] = m
      BY <2>1
  <2> QED
      BY <2>3, <2>4 DEF Sound, Fitting, Doing, Fetched, Entered
<1> QED
    BY <1>1 DEF RInv

LEMMA ExpireSound == ASSUME RInv, NEW s \in Socs, Expire(s) PROVE RInv'
<1>1. UNCHANGED <<soc, tenant, people, directory, loading, h, started, died>>
    BY DEF Expire
<1>2. Caching'
    BY <1>1, InvalidateTyped DEF Expire
<1>3. Tables'
    BY <1>1, <1>2, TablesTogether DEF people, tenant
<1> QED
    BY <1>1, <1>3, SameSound DEF people

-----------------------------------------------------------------------------
LEMMA RebuildInit == Init => RInv
<1> SUFFICES ASSUME Init PROVE RInv
    OBVIOUS
<1>1. Some(Names) \in Names /\ Some(Tiers) \in Tiers /\ 1 \in 1..Cardinality(Socs)
    BY SomeIn, IdleLocal, SocietiesAssumption DEF SocietiesAssumption, Idle, Local
<1>2. Platform
  <2>1. soc \in [Socs -> Society]
    <3>1. ASSUME NEW s \in Socs
          PROVE  [there |-> s \in Founded, name |-> Some(Names), k |-> 1, status |-> "ONBOARDING",
                  ready |-> s \in Founded, tier |-> Some(Tiers), units |-> s \in Founded] \in Society
        BY <1>1 DEF Society, Status
    <3> QED
        BY <3>1 DEF Init
  <2> QED
      BY <1>1, <2>1 DEF Init, Platform
<1>3. Accounts
    BY SocietiesAssumption DEF Init, Accounts, Distinct, SocietiesAssumption
<1>4. Caching /\ Counts /\ directory \in Seq(Entry)
    BY SocietiesAssumption DEF Init, Caching, Counts, SocietiesAssumption
<1>5. h \in [Handlers -> Local] /\ \A i \in Handlers : Sound(h[i])
  <2>1. h = [i \in Handlers |-> Idle]
      BY DEF Init
  <2> QED
      BY <2>1, IdleLocal, IdleSound
<1> QED
    BY <1>2, <1>3, <1>4, <1>5 DEF RInv, Tables

LEMMA RebuildNext == IInv /\ PlansInv /\ RInv /\ [Next]_vars => RInv'
<1> SUFFICES ASSUME IInv, PlansInv, RInv, [Next]_vars PROVE RInv'
    OBVIOUS
<1>1. CASE UNCHANGED vars
  <2>1. Tables' /\ Grows
      BY <1>1, SameTables DEF vars, tenant, people, cache
  <2> QED
      BY <1>1, <2>1, SameSound DEF vars
<1>2. ASSUME NEW i \in Handlers, Advance(i) PROVE RInv'
    BY <1>2, PlainStepsSound, AccountStepsSound, FindEntrySound, PutEntrySound, ReadUsersSound,
       ClearSound, WakeSound, DropSound, SeedSound DEF Advance, PlainSteps, AccountSteps
<1>3. ASSUME NEW s \in Socs, Expire(s) PROVE RInv'
    BY <1>3, ExpireSound
<1> QED
    BY <1>1, <1>2, <1>3, RequestSound, AbortSound DEF Next

LEMMA RebuildAlways == Spec => []RInv
<1>1. Spec => [](IInv /\ PlansInv)
    BY InvAlways, PlansAlways, PTL
<1> QED
    BY <1>1, RebuildInit, RebuildNext, PTL DEF Spec

(* Every variable keeps its type.                                          *)
THEOREM TypeCorrect == Spec => []TypeOK
<1>1. RInv => TypeOK
    BY DEF RInv, Tables, Platform, Accounts, Caching, Counts, TypeOK
<1> QED
    BY <1>1, RebuildAlways, PTL

(* A rebuild, or an activation, that nothing crosses leaves every account  *)
(* listed as what it is and no administrator waiting.                      *)
THEOREM RebuildAgreesCorrect == Spec => RebuildAgrees
<1>1. ASSUME RInv, NEW i \in Handlers, h[i].pc = "clear", h[i].alone
      PROVE  /\ \A u \in Listed(h[i].s) : ListedAsIs(h[i].s, u) \/ Displaced(h[i].s, u)
             /\ \A u \in UsersOf(h[i].s) :
                   h[i].op = "activate" /\ users[u].admin => users[u].status # "PENDING"
  <2>1. Sound(h[i])
      BY <1>1 DEF RInv
  <2>2. Doing(h[i])
      BY <1>1, <2>1 DEF Sound, Route, Ending
  <2> QED
      BY <1>1, <2>2 DEF Doing, Seen, Awake
<1>2. RInv /\ [Next]_vars =>
        [\A i \in Handlers :
           h[i].pc = "clear" /\ h'[i].pc = "idle" /\ died' = died /\ h[i].alone =>
              /\ \A u \in Listed(h[i].s) : ListedAsIs(h[i].s, u) \/ Displaced(h[i].s, u)
              /\ \A u \in UsersOf(h[i].s) :
                    h[i].op = "activate" /\ users[u].admin => users[u].status # "PENDING"]_vars
    BY <1>1
<1> QED
    BY <1>2, RebuildAlways, PTL DEF Spec, RebuildAgrees
=============================================================================
