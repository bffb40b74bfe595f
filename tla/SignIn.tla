------------------------------- MODULE SignIn -------------------------------
(***************************************************************************)
(* Signing in: otpService.ts (codes), authService.ts (logins, sessions,    *)
(* refresh, passwords, reset links) behind authRouter.ts and               *)
(* authenticate.ts, for the one account of a person.  Handlers are split   *)
(* at their awaits; nothing here runs in a transaction.                    *)
(*                                                                         *)
(* Secrets are numbers: a code, a password, a refresh token or a link is   *)
(* the how-manieth of its kind, and presenting another is to be wrong.     *)
(* lastUsedAt is written with every new refresh token, so the order of     *)
(* tokens is the order of use.  Left out: app PIN, push tokens, profile.   *)
(***************************************************************************)
EXTENDS Integers, Sequences, FiniteSets

CONSTANTS
    Devices,       \* values of x-device-id; clients that send none share one
    MaxDevices,    \* SESSION_MAX_ACTIVE_DEVICES
    MaxTries,      \* OTP_MAX_ATTEMPTS
    HourlyCap,     \* HOURLY_CAP of codes, within the hour that is modelled
    LockAfter,     \* failed logins that lock the account
    Handlers,      \* requests the API can be serving at the same time
    MaxRequests,   \* bound: requests served in a behaviour
    MaxAborts      \* bound: requests that die in a behaviour

ASSUME SignInAssumption ==
    /\ MaxDevices \in Nat \ {0} /\ MaxTries \in Nat \ {0}
    /\ HourlyCap \in Nat /\ LockAfter \in Nat \ {0}
    /\ MaxRequests \in Nat /\ MaxAborts \in Nat
    /\ "none" \notin Devices
    /\ IsFiniteSet(Handlers) /\ Handlers # {}

VARIABLES
    codes,         \* otp_requests, oldest first
    account,       \* the users document
    sessions,      \* the sessions collection, in order of creation
    tokens,        \* refresh tokens issued: their session, and who has them
    offered,       \* a selection token is out
    links,         \* reset links issued so far
    era,           \* history: how often the sessions were ended together
    h,             \* what each request in flight holds
    started,       \* requests started so far
    died           \* requests that died so far

vars == <<codes, account, sessions, tokens, offered, links, era, h, started, died>>

-----------------------------------------------------------------------------
Code == [status : {"OPEN", "ACCEPTED", "EXPIRED", "LOCKED"}, tries : Nat, sent : BOOLEAN]
Statuses == {"ACTIVE", "LOCKED", "INACTIVE"}
Account == [status : Statuses, fails : Nat, password : Nat, link : Nat]
Session == [device : Devices, token : Nat, active : BOOLEAN, era : Nat]
Token == [sid : Nat, state : {"PENDING", "HELD", "SPENT"}]

Steps == {"idle", "create", "deliver", "verify", "consume", "password", "fail", "failed",
          "account", "refresh", "family", "count", "oldest", "retire", "existing", "write",
          "stamp", "rotate", "change", "others", "link", "reset", "resetting", "everyone"}
Local == [pc : Steps, via : {"CODE", "PASSWORD", "SELECT", "REFRESH", "OTHER"},
          d : Devices \cup {"none"},
          given : Nat,               \* the secret the client presented
          found : Nat,               \* the record that was read for it
          verdict : Statuses \cup {"ACCEPTED", "EXPIRED", "WRONG"},
          n : Nat, list : SUBSET Nat, sid : Nat, token : Nat]
Idle == [pc |-> "idle", via |-> "OTHER", d |-> "none", given |-> 0, found |-> 0,
         verdict |-> "WRONG", n |-> 0, list |-> {}, sid |-> 0, token |-> 0]

TypeOK ==
    /\ codes \in Seq(Code)
    /\ account \in Account
    /\ sessions \in Seq(Session)
    /\ tokens \in Seq(Token)
    /\ offered \in BOOLEAN
    /\ links \in Nat /\ era \in Nat
    /\ h \in [Handlers -> Local]
    /\ started \in 0..MaxRequests
    /\ died \in 0..MaxAborts

(* One device is signed in.                                                *)
Init ==
    /\ codes = <<>>
    /\ account = [status |-> "ACTIVE", fails |-> 0, password |-> 1, link |-> 0]
    /\ \E d \in Devices :
          sessions = <<[device |-> d, token |-> 1, active |-> TRUE, era |-> 0]>>
    /\ tokens = <<[sid |-> 1, state |-> "HELD"]>>
    /\ offered = FALSE
    /\ links = 0
    /\ era = 0
    /\ h = [i \in Handlers |-> Idle]
    /\ started = 0
    /\ died = 0

-----------------------------------------------------------------------------
store == <<codes, account, sessions, tokens, offered, links, era>>

Begin(i, local) ==
    /\ h[i].pc = "idle"
    /\ started < MaxRequests
    /\ started' = started + 1
    /\ h' = [h EXCEPT ![i] = local]
    /\ UNCHANGED <<store, died>>

At(i, step) == h[i].pc = step /\ UNCHANGED <<started, died>>
Goto(i, step) == h' = [h EXCEPT ![i].pc = step]
Finish(i) == h' = [h EXCEPT ![i] = Idle]

Abort(i) ==
    /\ h[i].pc # "idle"
    /\ died < MaxAborts
    /\ died' = died + 1
    /\ Finish(i)
    /\ UNCHANGED <<store, started>>

-----------------------------------------------------------------------------
(* sendOtp: below the hourly cap a record is created, then the code goes   *)
(* out by push, or by SMS when that fails, or not at all.                  *)
SendOtp(i) ==
    /\ Len(codes) < HourlyCap
    /\ Begin(i, [Idle EXCEPT !.pc = "create"])

CreateCode(i) ==
    /\ At(i, "create")
    /\ codes' = Append(codes, [status |-> "OPEN", tries |-> 0, sent |-> FALSE])
    /\ h' = [h EXCEPT ![i].pc = "deliver", ![i].found = Len(codes')]
    /\ UNCHANGED <<account, sessions, tokens, offered, links, era>>

Deliver(i) ==
    /\ At(i, "deliver")
    /\ \E sent \in BOOLEAN : codes' = [codes EXCEPT ![h[i].found].sent = sent]
    /\ Finish(i)
    /\ UNCHANGED <<account, sessions, tokens, offered, links, era>>

(* verifyOtp: the newest open code is held against what was typed; a code  *)
(* that was delivered may be typed, and 0 is a wrong one.                  *)
OtpLogin(i, d, code) ==
    /\ code = 0 \/ (code \in DOMAIN codes /\ codes[code].sent)
    /\ Begin(i, [Idle EXCEPT !.pc = "verify", !.via = "CODE", !.d = d, !.given = code])

OpenCodes == {c \in DOMAIN codes : codes[c].status = "OPEN"}

Verify(i) ==
    /\ At(i, "verify")
    /\ \/ OpenCodes = {} /\ Finish(i)
       \/ \E c \in OpenCodes :
            LET tries == codes[c].tries + 1
            IN /\ \A d \in OpenCodes : d <= c
               /\ \E verdict \in {"EXPIRED", IF tries > MaxTries THEN "LOCKED"
                                            ELSE IF h[i].given = c THEN "ACCEPTED" ELSE "WRONG"} :
                    h' = [h EXCEPT ![i].pc = "consume", ![i].found = c, ![i].n = tries,
                                   ![i].verdict = verdict]
    /\ UNCHANGED store

Consume(i) ==
    /\ At(i, "consume")
    /\ LET v == h[i].verdict IN
         /\ codes' = [codes EXCEPT
                        ![h[i].found].status = IF v = "WRONG" THEN @ ELSE v,
                        ![h[i].found].tries = IF v = "EXPIRED" THEN @ ELSE h[i].n]
         /\ IF v = "ACCEPTED" THEN Goto(i, "account") ELSE Finish(i)
    /\ UNCHANGED <<account, sessions, tokens, offered, links, era>>

-----------------------------------------------------------------------------
(* loginWithPassword; a failure is counted by recordFailedLogin.           *)
PasswordLogin(i, d, password) ==
    Begin(i, [Idle EXCEPT !.pc = "password", !.via = "PASSWORD", !.d = d, !.given = password])

CheckPassword(i) ==
    /\ At(i, "password")
    /\ Goto(i, IF account.status = "ACTIVE" /\ h[i].given = account.password
                 THEN "account" ELSE "fail")
    /\ UNCHANGED store

FailRead(i) ==
    /\ At(i, "fail")
    /\ h' = [h EXCEPT ![i].pc = "failed", ![i].n = account.fails + 1]
    /\ UNCHANGED store

(* The lock is written over whatever status the account has.               *)
FailWrite(i) ==
    /\ At(i, "failed")
    /\ account' = [account EXCEPT !.fails = h[i].n,
                     !.status = IF h[i].n >= LockAfter THEN "LOCKED" ELSE @]
    /\ Finish(i)
    /\ UNCHANGED <<codes, sessions, tokens, offered, links, era>>

(* A person of several societies is asked which, and comes back with the   *)
(* selection token, as often as it is valid.                               *)
Offer(i) ==
    /\ At(i, "account")
    /\ h[i].via \in {"CODE", "PASSWORD"}
    /\ offered' = TRUE
    /\ Finish(i)
    /\ UNCHANGED <<codes, account, sessions, tokens, links, era>>

SelectSociety(i, d) ==
    /\ offered
    /\ Begin(i, [Idle EXCEPT !.pc = "account", !.via = "SELECT", !.d = d])

(* successOutcome, and refreshTokens after it found the session.           *)
ReadAccount(i) ==
    /\ At(i, "account")
    /\ IF account.status = "ACTIVE" THEN Goto(i, "count") ELSE Finish(i)
    /\ UNCHANGED store

-----------------------------------------------------------------------------
(* issueSession                                                            *)
Active == {s \in DOMAIN sessions : sessions[s].active}
(* Ends the sessions of a set.                                             *)
Ended(set) == [s \in DOMAIN sessions |->
                 IF s \in set THEN [sessions[s] EXCEPT !.active = FALSE] ELSE sessions[s]]

Count(i) ==
    /\ At(i, "count")
    /\ h' = [h EXCEPT ![i].n = Cardinality(Active),
               ![i].pc = IF Cardinality(Active) >= MaxDevices THEN "oldest" ELSE "existing"]
    /\ UNCHANGED store

(* Mutant of Surplus: the session that is about to be opened is forgotten. *)
SurplusNow(n) == n - MaxDevices

Surplus(n) == n - MaxDevices + 1

(* The least recently used of the active sessions.                         *)
Oldest(i) ==
    /\ At(i, "oldest")
    /\ LET older(s) == {r \in Active : sessions[r].token < sessions[s].token}
       IN h' = [h EXCEPT ![i].pc = "retire",
                  ![i].list = {s \in Active : Cardinality(older(s)) < Surplus(h[i].n)}]
    /\ UNCHANGED store

Retire(i) ==
    /\ At(i, "retire")
    /\ sessions' = Ended(h[i].list)
    /\ h' = [h EXCEPT ![i].pc = "existing", ![i].list = {}, ![i].n = 0]
    /\ UNCHANGED <<codes, account, tokens, offered, links, era>>

(* The session of the device is used again if there is one.                *)
Existing(i) ==
    /\ At(i, "existing")
    /\ LET own == {s \in Active : sessions[s].device = h[i].d}
       IN \E sid \in own \cup {0} :
            /\ sid = 0 <=> own = {}
            /\ \A r \in own : sessions[r].token <= sessions[sid].token
            /\ h' = [h EXCEPT ![i].pc = "write", ![i].sid = sid]
    /\ UNCHANGED store

(* The session gets a new refresh token, whatever became of it meanwhile.  *)
Write(i) ==
    /\ At(i, "write")
    /\ LET sid == IF h[i].sid = 0 THEN Len(sessions) + 1 ELSE h[i].sid
           token == Len(tokens) + 1
           session == [device |-> h[i].d, token |-> token, active |-> TRUE, era |-> era]
       IN /\ sessions' = IF h[i].sid = 0 THEN Append(sessions, session)
                                         ELSE [sessions EXCEPT ![sid] = session]
          /\ tokens' = Append(tokens, [sid |-> sid, state |-> "PENDING"])
          /\ h' = [h EXCEPT ![i].token = token,
                     ![i].pc = IF h[i].via = "REFRESH" THEN "rotate" ELSE "stamp"]
    /\ UNCHANGED <<codes, account, offered, links, era>>

(* The login is stamped, the failures forgotten, the tokens handed out.    *)
Stamp(i) ==
    /\ At(i, "stamp")
    /\ account' = [account EXCEPT !.fails = 0]
    /\ tokens' = [tokens EXCEPT ![h[i].token].state = "HELD"]
    /\ Finish(i)
    /\ UNCHANGED <<codes, sessions, offered, links, era>>

-----------------------------------------------------------------------------
(* refreshTokens: the session is found by the hash of the token.  A token  *)
(* that no session carries is taken for a replay and ends its family,      *)
(* which is the session it was issued for.                                 *)
Refresh(i, d, t) ==
    /\ t \in DOMAIN tokens
    /\ tokens[t].state # "PENDING"
    /\ Begin(i, [Idle EXCEPT !.pc = "refresh", !.via = "REFRESH", !.d = d, !.given = t])

FindSession(i) ==
    /\ At(i, "refresh")
    /\ LET s == tokens[h[i].given].sid IN
         IF sessions[s].token # h[i].given THEN Goto(i, "family")
         ELSE IF sessions[s].active THEN h' = [h EXCEPT ![i].pc = "account", ![i].found = s]
         ELSE Finish(i)
    /\ UNCHANGED store

RevokeFamily(i) ==
    /\ At(i, "family")
    /\ sessions' = Ended({tokens[h[i].given].sid})
    /\ Finish(i)
    /\ UNCHANGED <<codes, account, tokens, offered, links, era>>

(* Mutant of Rotated: the session that was traded in stays active.         *)
RotatedNot(s) == sessions

Rotated(s) == Ended({s})

(* What was found is ended, be it the session that was just written.       *)
Rotate(i) ==
    /\ At(i, "rotate")
    /\ sessions' = Rotated(h[i].found)
    /\ tokens' = [tokens EXCEPT ![h[i].token].state = "HELD", ![h[i].given].state = "SPENT"]
    /\ Finish(i)
    /\ UNCHANGED <<codes, account, offered, links, era>>

-----------------------------------------------------------------------------
(* A signed-in client: authenticate reads the account, not the session.    *)
SignedIn(s) ==
    /\ account.status = "ACTIVE"
    /\ \E t \in DOMAIN tokens : tokens[t].sid = s /\ tokens[t].state # "PENDING"

(* logout of one device, and revokeSession of any.                         *)
EndSession(s) ==
    /\ s \in Active
    /\ \E r \in DOMAIN sessions : SignedIn(r)
    /\ sessions' = Ended({s})
    /\ UNCHANGED <<codes, account, tokens, offered, links, era, h, started, died>>

LogoutAll ==
    /\ \E s \in DOMAIN sessions : SignedIn(s)
    /\ started < MaxRequests
    /\ started' = started + 1
    /\ sessions' = Ended(Active)
    /\ era' = era + 1
    /\ UNCHANGED <<codes, account, tokens, offered, links, h, died>>

(* changePassword from session s: the password, then the other sessions.   *)
ChangePassword(i, s) ==
    /\ s \in DOMAIN sessions
    /\ SignedIn(s)
    /\ Begin(i, [Idle EXCEPT !.pc = "change", !.sid = s])

WritePassword(i) ==
    /\ At(i, "change")
    /\ account' = [account EXCEPT !.password = @ + 1]
    /\ Goto(i, "others")
    /\ UNCHANGED <<codes, sessions, tokens, offered, links, era>>

(* setPassword: no password is asked for and no session is ended.          *)
SetPassword ==
    /\ \E s \in DOMAIN sessions : SignedIn(s)
    /\ started < MaxRequests
    /\ started' = started + 1
    /\ account' = [account EXCEPT !.password = @ + 1]
    /\ UNCHANGED <<codes, sessions, tokens, offered, links, era, h, died>>

(* The session spared counts as one of the new era.                        *)
EndOthers(i) ==
    /\ At(i, "others")
    /\ sessions' = [s \in DOMAIN sessions |->
                      IF s = h[i].sid THEN [sessions[s] EXCEPT !.era = era + 1]
                                      ELSE [sessions[s] EXCEPT !.active = FALSE]]
    /\ era' = era + 1
    /\ Finish(i)
    /\ UNCHANGED <<codes, account, tokens, offered, links>>

-----------------------------------------------------------------------------
(* requestPasswordReset and resetPasswordWithToken                         *)
RequestReset(i) == Begin(i, [Idle EXCEPT !.pc = "link"])

WriteLink(i) ==
    /\ At(i, "link")
    /\ links' = links + 1
    /\ account' = [account EXCEPT !.link = links']
    /\ Finish(i)
    /\ UNCHANGED <<codes, sessions, tokens, offered, era>>

ResetPassword(i, link) ==
    /\ link \in 1..links
    /\ Begin(i, [Idle EXCEPT !.pc = "reset", !.given = link])

CheckLink(i) ==
    /\ At(i, "reset")
    /\ IF account.link = h[i].given
         THEN h' = [h EXCEPT ![i].pc = "resetting", ![i].verdict = account.status]
         ELSE Finish(i)
    /\ UNCHANGED store

(* The status is written as it was read; a lock is lifted.                 *)
WriteReset(i) ==
    /\ At(i, "resetting")
    /\ account' = [status |-> IF h[i].verdict = "LOCKED" THEN "ACTIVE" ELSE h[i].verdict,
                   fails |-> 0, password |-> account.password + 1, link |-> 0]
    /\ Goto(i, "everyone")
    /\ UNCHANGED <<codes, sessions, tokens, offered, links, era>>

(* Mutant of Everyone: the newest session is taken for the caller's own.   *)
EveryoneElse == Active \ {Len(sessions)}

Everyone == Active

EndEveryone(i) ==
    /\ At(i, "everyone")
    /\ sessions' = Ended(Everyone)
    /\ era' = era + 1
    /\ Finish(i)
    /\ UNCHANGED <<codes, account, tokens, offered, links>>

(* The office deactivates the login of a resident or of staff, or adds the *)
(* person again.                                                           *)
SetStatus(status) ==
    /\ account.status # status
    /\ account' = [account EXCEPT !.status = status]
    /\ UNCHANGED <<codes, sessions, tokens, offered, links, era, h, started, died>>

-----------------------------------------------------------------------------
Request(i) ==
    \/ SendOtp(i) \/ RequestReset(i)
    \/ \E d \in Devices : SelectSociety(i, d)
    \/ \E d \in Devices, c \in 0..Len(codes) : OtpLogin(i, d, c)
    \/ \E d \in Devices, p \in 0..account.password : PasswordLogin(i, d, p)
    \/ \E d \in Devices, t \in DOMAIN tokens : Refresh(i, d, t)
    \/ \E s \in DOMAIN sessions : ChangePassword(i, s)
    \/ \E link \in 1..links : ResetPassword(i, link)

Advance(i) ==
    \/ CreateCode(i) \/ Deliver(i) \/ Verify(i) \/ Consume(i)
    \/ CheckPassword(i) \/ FailRead(i) \/ FailWrite(i)
    \/ Offer(i) \/ ReadAccount(i)
    \/ Count(i) \/ Oldest(i) \/ Retire(i) \/ Existing(i) \/ Write(i) \/ Stamp(i)
    \/ FindSession(i) \/ RevokeFamily(i) \/ Rotate(i)
    \/ WritePassword(i) \/ EndOthers(i)
    \/ WriteLink(i) \/ CheckLink(i) \/ WriteReset(i) \/ EndEveryone(i)

Next ==
    \/ \E i \in Handlers : Request(i) \/ Advance(i) \/ Abort(i)
    \/ \E s \in DOMAIN sessions : EndSession(s)
    \/ LogoutAll \/ SetPassword
    \/ \E status \in {"ACTIVE", "INACTIVE"} : SetStatus(status)

Spec == Init /\ [][Next]_vars

-----------------------------------------------------------------------------
(* PROPERTIES                                                              *)

(* Logins that count, retire and write side by side exceed the bound on    *)
(* devices by one each at the most, and the next login brings it down      *)
(* again (authService.ts 112-177).                                         *)
DevicesBounded == Cardinality(Active) <= MaxDevices - 1 + Cardinality(Handlers)

(* A refresh token that was traded in opens nothing any more, nor does it  *)
(* come back with a session that a login took up again: no active session  *)
(* carries it (authService.ts 131-177, 593-634).                           *)
SpentStaysSpent ==
    \A s \in Active : tokens[sessions[s].token].state # "SPENT"

(* After a password reset, a password change or a log-out everywhere has   *)
(* run to its end, every active session was written after it, except the   *)
(* one the password was changed from (authService.ts 661-664, 753-758,     *)
(* 859-862).                                                               *)
EndedTogether == \A s \in Active : sessions[s].era = era
=============================================================================
