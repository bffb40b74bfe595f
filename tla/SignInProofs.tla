---------------------------- MODULE SignInProofs ----------------------------
(***************************************************************************)
(* Proofs about SignIn: for any number of devices and requests, a refresh  *)
(* token that was traded in opens nothing, ending all sessions ends every  *)
(* one of them, and logins side by side stay near the bound on devices.    *)
(***************************************************************************)
EXTENDS SignIn, FiniteSetTheorems, WellFoundedInduction, TLAPS

(* What a request holds fits the step it is at: the device it signs in,    *)
(* and a verdict of the kind it is about to write.                         *)
Opening == {"verify", "consume", "password", "account", "count", "oldest", "retire", "existing",
            "write", "rotate"}
Verdicts == {"ACCEPTED", "EXPIRED", "LOCKED", "WRONG"}

Fits(local) ==
    /\ local.pc \in Opening => local.d \in Devices
    /\ local.pc = "refresh" => local.d \in Devices
    /\ local.pc = "consume" => local.verdict \in Verdicts
    /\ local.pc = "resetting" => local.verdict \in Statuses
    /\ local.pc \in {"verify", "consume", "password"} => local.via # "REFRESH"
    /\ local.pc = "refresh" => local.via = "REFRESH"
    /\ local.pc = "rotate" => local.via = "REFRESH"

Fitting == {local \in Local : Fits(local)}

(* It presented a token that was issued, and once it found the session of  *)
(* that token, that is the one it is about to end.                         *)
Trading == {"account", "count", "oldest", "retire", "existing", "write", "rotate"}

Tied(local, issued, opened) ==
    /\ local.via = "REFRESH" => local.given \in DOMAIN issued
    /\ local.via = "REFRESH" /\ local.pc \in Trading => local.found = issued[local.given].sid
    /\ local.pc = "write" => local.sid \in 0..Len(opened)

(* A session carries a token that was issued for it.                       *)
Carried ==
    \A s \in DOMAIN sessions : /\ sessions[s].token \in DOMAIN tokens
                               /\ tokens[sessions[s].token].sid = s

StoreOK ==
    /\ codes \in Seq(Code) /\ account \in Account
    /\ sessions \in Seq(Session) /\ tokens \in Seq(Token)
    /\ offered \in BOOLEAN
    /\ links \in Nat /\ era \in Nat
    /\ Carried
    /\ SpentStaysSpent
    /\ EndedTogether

HeldOK ==
    /\ h \in [Handlers -> Fitting]
    /\ \A i \in Handlers : Tied(h[i], tokens, sessions)

IInv ==
    /\ StoreOK
    /\ HeldOK
    /\ started \in 0..MaxRequests
    /\ died \in 0..MaxAborts

(* Sessions and tokens are added and never taken away.                     *)
Grown ==
    /\ Len(sessions) <= Len(sessions')
    /\ \A t \in DOMAIN tokens : t \in DOMAIN tokens' /\ tokens'[t].sid = tokens[t].sid

-----------------------------------------------------------------------------
(* What requests hold.                                                     *)

LEMMA IdleFits == Idle \in Fitting /\ Idle.via = "OTHER" /\ Idle.pc = "idle"
    BY DEF Idle, Fitting, Fits, Local, Steps, Opening

LEMMA HeldKept ==
    ASSUME IInv, Grown, sessions' \in Seq(Session),
           NEW i \in Handlers, NEW local \in Fitting, h' = [h EXCEPT ![i] = local],
           Tied(local, tokens', sessions')
    PROVE  HeldOK'
<1>1. h' \in [Handlers -> Fitting]
    BY DEF IInv, HeldOK
<1>2. ASSUME NEW j \in Handlers PROVE Tied(h'[j], tokens', sessions')
  <2>1. CASE j = i
      BY <2>1 DEF IInv, HeldOK
  <2>2. CASE j # i
    <3>1. h'[j] = h[j] /\ Tied(h[j], tokens, sessions)
        BY <2>2 DEF IInv, HeldOK
    <3>2. Len(sessions) \in Nat /\ Len(sessions') \in Nat
        BY DEF IInv, StoreOK
    <3>3. 0..Len(sessions) \subseteq 0..Len(sessions')
        BY <3>2 DEF Grown
    <3>4. Tied(h[j], tokens', sessions')
        BY <3>1, <3>3 DEF Tied, Grown
    <3> QED
        BY <3>1, <3>4
  <2> QED
      BY <2>1, <2>2
<1> QED
    BY <1>1, <1>2 DEF HeldOK

LEMMA HeldFinished ==
    ASSUME IInv, Grown, sessions' \in Seq(Session), NEW i \in Handlers, Finish(i)
    PROVE  HeldOK'
<1>1. Tied(Idle, tokens', sessions')
    BY IdleFits DEF Tied, Trading
<1> QED
    BY <1>1, IdleFits, HeldKept DEF Finish

(* A request that goes on to a step that asks nothing more of it.          *)
LEMMA HeldGoesOn ==
    ASSUME IInv, Grown, sessions' \in Seq(Session), NEW i \in Handlers,
           NEW step \in {"account", "fail", "count", "family", "others", "everyone"}, Goto(i, step),
           step \in Opening => h[i].pc \in Opening,
           step \in Trading => h[i].pc \in Trading \/ h[i].via # "REFRESH"
    PROVE  HeldOK'
<1>1. h[i] \in Local /\ Fits(h[i]) /\ Tied(h[i], tokens, sessions)
    BY DEF IInv, HeldOK, Fitting
<1>2. PICK local : local = [h[i] EXCEPT !.pc = step]
    OBVIOUS
<1>3. local \in Local
    BY <1>1, <1>2 DEF Local, Steps
<1>4. /\ local.pc = step /\ local.d = h[i].d /\ local.via = h[i].via
      /\ local.given = h[i].given /\ local.found = h[i].found
    BY <1>1, <1>2 DEF Local
<1>5. Fits(local)
    BY <1>1, <1>4 DEF Fits, Opening
<1>6. Tied(local, tokens', sessions')
    BY <1>1, <1>4 DEF Tied, Grown, Trading
<1>7. h' = [h EXCEPT ![i] = local]
    BY <1>2 DEF Goto
<1> QED
    BY <1>3, <1>5, <1>6, <1>7, HeldKept DEF Fitting

-----------------------------------------------------------------------------
(* What the database holds.                                                *)

LEMMA SessionsKept ==
    ASSUME IInv, UNCHANGED <<sessions, tokens>>
    PROVE  /\ Grown /\ sessions' \in Seq(Session) /\ tokens' \in Seq(Token)
           /\ Carried' /\ SpentStaysSpent'
<1>1. sessions \in Seq(Session) /\ tokens \in Seq(Token) /\ Len(sessions) \in Nat
    BY DEF IInv, StoreOK
<1> QED
    BY <1>1 DEF Grown, IInv, StoreOK, Carried, SpentStaysSpent, Active

LEMMA StoreKept ==
    ASSUME IInv, UNCHANGED store
    PROVE  StoreOK' /\ Grown /\ sessions' \in Seq(Session)
<1>1. EndedTogether'
    BY DEF IInv, StoreOK, EndedTogether, Active, store
<1>2. UNCHANGED <<sessions, tokens>>
    BY DEF store
<1> QED
    BY <1>1, <1>2, SessionsKept DEF IInv, StoreOK, store

(* Codes, the account and links are nothing to sessions and tokens.        *)
LEMMA AccountKept ==
    ASSUME IInv, UNCHANGED <<sessions, tokens, era>>,
           codes' \in Seq(Code), account' \in Account, offered' \in BOOLEAN, links' \in Nat
    PROVE  StoreOK' /\ Grown /\ sessions' \in Seq(Session)
<1>1. EndedTogether'
    BY DEF IInv, StoreOK, EndedTogether, Active
<1>2. era' \in Nat
    BY DEF IInv, StoreOK
<1> QED
    BY <1>1, <1>2, SessionsKept DEF StoreOK

LEMMA EndedSessions ==
    ASSUME IInv, NEW set
    PROVE  /\ Ended(set) \in Seq(Session)
           /\ Len(Ended(set)) = Len(sessions) /\ DOMAIN Ended(set) = DOMAIN sessions
           /\ \A s \in DOMAIN sessions :
                 /\ Ended(set)[s].token = sessions[s].token
                 /\ Ended(set)[s].era = sessions[s].era
                 /\ Ended(set)[s].active => sessions[s].active /\ s \notin set
<1>1. sessions \in Seq(Session) /\ DOMAIN sessions = 1..Len(sessions) /\ Len(sessions) \in Nat
    BY DEF IInv, StoreOK
<1>2. \A s \in DOMAIN sessions : sessions[s] \in Session
    BY <1>1
<1>3. \A s \in DOMAIN sessions : [sessions[s] EXCEPT !.active = FALSE] \in Session
    BY <1>2 DEF Session
<1>4. Ended(set) \in [1..Len(sessions) -> Session]
    BY <1>1, <1>2, <1>3 DEF Ended
<1>5. \A s \in DOMAIN sessions :
          Ended(set)[s] = IF s \in set THEN [sessions[s] EXCEPT !.active = FALSE] ELSE sessions[s]
    BY DEF Ended
<1>6. Ended(set) \in Seq(Session) /\ DOMAIN Ended(set) = DOMAIN sessions
    BY <1>1, <1>4
<1>7. Len(Ended(set)) = Len(sessions)
    BY <1>1, <1>6
<1> QED
    BY <1>2, <1>5, <1>6, <1>7 DEF Session

(* Ending sessions: one era ends when every active one does.               *)
LEMMA StoreEnded ==
    ASSUME IInv, NEW set, sessions' = Ended(set),
           UNCHANGED <<codes, account, tokens, offered, links>>,
           era' = era \/ (era' = era + 1 /\ Active \subseteq set)
    PROVE  StoreOK' /\ Grown /\ sessions' \in Seq(Session)
<1>1. /\ sessions' \in Seq(Session)
      /\ Len(sessions') = Len(sessions) /\ DOMAIN sessions' = DOMAIN sessions
    BY EndedSessions
<1>2. \A s \in DOMAIN sessions :
          /\ sessions'[s].token = sessions[s].token
          /\ sessions'[s].era = sessions[s].era
          /\ sessions'[s].active => sessions[s].active /\ s \notin set
    BY EndedSessions
<1>3. Len(sessions) \in Nat
    BY DEF IInv, StoreOK
<1>4. Grown
    BY <1>1, <1>3 DEF Grown
<1>5. Carried'
    BY <1>1, <1>2 DEF Carried, IInv, StoreOK
<1>6. Active' \subseteq Active \ set
    BY <1>1, <1>2 DEF Active
<1>7. SpentStaysSpent'
    BY <1>2, <1>6 DEF SpentStaysSpent, Active, IInv, StoreOK
<1>8. EndedTogether'
  <2>1. CASE era' = era
      BY <1>2, <1>6, <2>1 DEF EndedTogether, Active, IInv, StoreOK
  <2>2. CASE Active \subseteq set
      BY <1>6, <2>2 DEF EndedTogether
  <2> QED
      BY <2>1, <2>2
<1>9. era' \in Nat
    BY DEF IInv, StoreOK
<1> QED
    BY <1>1, <1>4, <1>5, <1>7, <1>8, <1>9 DEF StoreOK, IInv

(* A token given another state is the same token.                          *)
LEMMA Marked ==
    ASSUME NEW issued \in Seq(Token), NEW t, NEW state \in {"PENDING", "HELD", "SPENT"}
    PROVE  LET new == [issued EXCEPT ![t].state = state] IN
             /\ new \in Seq(Token) /\ DOMAIN new = DOMAIN issued
             /\ \A r \in DOMAIN issued : /\ new[r].sid = issued[r].sid
                                          /\ new[r].state = IF r = t THEN state ELSE issued[r].state
<1>1. \A r \in DOMAIN issued : issued[r] \in Token
    OBVIOUS
<1>2. CASE t \notin DOMAIN issued
  <2>1. [issued EXCEPT ![t].state = state] = issued
    <3>1. issued \in [1..Len(issued) -> Token] /\ DOMAIN issued = 1..Len(issued)
        OBVIOUS
    <3> QED
        BY <1>2, <3>1
  <2> QED
      BY <1>2, <2>1
<1>3. CASE t \in DOMAIN issued
  <2>1. PICK token : token = [issued[t] EXCEPT !.state = state]
      OBVIOUS
  <2>2. token \in Token /\ token.sid = issued[t].sid /\ token.state = state
      BY <1>1, <1>3, <2>1 DEF Token
  <2>3. [issued EXCEPT ![t].state = state] = [issued EXCEPT ![t] = token]
      BY <2>1
  <2>4. /\ [issued EXCEPT ![t] = token] \in Seq(Token)
        /\ DOMAIN [issued EXCEPT ![t] = token] = DOMAIN issued
        /\ \A r \in DOMAIN issued :
              [issued EXCEPT ![t] = token][r] = IF r = t THEN token ELSE issued[r]
      BY <1>3, <2>2
  <2> QED
      BY <2>2, <2>3, <2>4
<1> QED
    BY <1>2, <1>3

-----------------------------------------------------------------------------
(* Requests.                                                               *)

LEMMA Begun ==
    ASSUME IInv, NEW i \in Handlers, NEW local \in Fitting, Begin(i, local),
           Tied(local, tokens, sessions)
    PROVE  IInv'
<1>1. StoreOK' /\ Grown /\ sessions' \in Seq(Session)
    BY StoreKept DEF Begin
<1>2. Tied(local, tokens', sessions')
    BY DEF Begin, store
<1>3. HeldOK'
    BY <1>1, <1>2, HeldKept DEF Begin
<1>4. started' \in 0..MaxRequests /\ died' \in 0..MaxAborts
    BY SignInAssumption DEF IInv, Begin
<1> QED
    BY <1>1, <1>3, <1>4 DEF IInv

LEMMA RequestKeeps ==
    ASSUME IInv, NEW i \in Handlers, Request(i)
    PROVE  IInv'
<1>1. tokens \in Seq(Token) /\ codes \in Seq(Code) /\ account \in Account /\ links \in Nat
      /\ sessions \in Seq(Session)
    BY DEF IInv, StoreOK
<1>2. CASE SendOtp(i)
  <2>1. PICK local : local = [Idle EXCEPT !.pc = "create"]
      OBVIOUS
  <2>2. local \in Fitting /\ local.via = "OTHER" /\ local.pc = "create"
      BY <2>1 DEF Idle, Fitting, Fits, Local, Opening, Steps, Statuses
  <2> QED
      BY <1>2, <2>1, <2>2, Begun DEF SendOtp, Tied
<1>3. CASE RequestReset(i)
  <2>1. PICK local : local = [Idle EXCEPT !.pc = "link"]
      OBVIOUS
  <2>2. local \in Fitting /\ local.via = "OTHER" /\ local.pc = "link"
      BY <2>1 DEF Idle, Fitting, Fits, Local, Opening, Steps, Statuses
  <2> QED
      BY <1>3, <2>1, <2>2, Begun DEF RequestReset, Tied
<1>4. ASSUME NEW d \in Devices, SelectSociety(i, d) PROVE IInv'
  <2>1. PICK local : local = [Idle EXCEPT !.pc = "account", !.via = "SELECT", !.d = d]
      OBVIOUS
  <2>2. local \in Fitting /\ local.via = "SELECT" /\ local.pc = "account"
      BY <2>1 DEF Idle, Fitting, Fits, Local, Opening, Steps, Statuses
  <2> QED
      BY <1>4, <2>1, <2>2, Begun DEF SelectSociety, Tied
<1>5. ASSUME NEW d \in Devices, NEW c \in 0..Len(codes), OtpLogin(i, d, c) PROVE IInv'
  <2>1. PICK local : local = [Idle EXCEPT !.pc = "verify", !.via = "CODE", !.d = d, !.given = c]
      OBVIOUS
  <2>2. c \in Nat
      BY <1>1
  <2>3. local \in Fitting /\ local.via = "CODE" /\ local.pc = "verify"
      BY <2>1, <2>2 DEF Idle, Fitting, Fits, Local, Opening, Steps, Statuses
  <2> QED
      BY <1>5, <2>1, <2>3, Begun DEF OtpLogin, Tied
<1>6. ASSUME NEW d \in Devices, NEW p \in 0..account.password, PasswordLogin(i, d, p) PROVE IInv'
  <2>1. PICK local : local = [Idle EXCEPT !.pc = "password", !.via = "PASSWORD", !.d = d,
                                          !.given = p]
      OBVIOUS
  <2>2. p \in Nat
      BY <1>1 DEF Account
  <2>3. local \in Fitting /\ local.via = "PASSWORD" /\ local.pc = "password"
      BY <2>1, <2>2 DEF Idle, Fitting, Fits, Local, Opening, Steps, Statuses
  <2> QED
      BY <1>6, <2>1, <2>3, Begun DEF PasswordLogin, Tied
<1>7. ASSUME NEW d \in Devices, NEW t \in DOMAIN tokens, Refresh(i, d, t) PROVE IInv'
  <2>1. PICK local : local = [Idle EXCEPT !.pc = "refresh", !.via = "REFRESH", !.d = d, !.given = t]
      OBVIOUS
  <2>2. t \in Nat
      BY <1>1
  <2>3. local \in Fitting /\ local.via = "REFRESH" /\ local.pc = "refresh" /\ local.given = t
      BY <2>1, <2>2 DEF Idle, Fitting, Fits, Local, Opening, Steps, Statuses
  <2>4. Tied(local, tokens, sessions)
      BY <2>3 DEF Tied, Trading
  <2> QED
      BY <1>7, <2>1, <2>3, <2>4, Begun DEF Refresh
<1>8. ASSUME NEW s \in DOMAIN sessions, ChangePassword(i, s) PROVE IInv'
  <2>1. PICK local : local = [Idle EXCEPT !.pc = "change", !.sid = s]
      OBVIOUS
  <2>2. s \in Nat
      BY <1>1
  <2>3. local \in Fitting /\ local.via = "OTHER" /\ local.pc = "change"
      BY <2>1, <2>2 DEF Idle, Fitting, Fits, Local, Opening, Steps, Statuses
  <2> QED
      BY <1>8, <2>1, <2>3, Begun DEF ChangePassword, Tied
<1>9. ASSUME NEW link \in 1..links, ResetPassword(i, link) PROVE IInv'
  <2>1. PICK local : local = [Idle EXCEPT !.pc = "reset", !.given = link]
      OBVIOUS
  <2>2. link \in Nat
      BY <1>1
  <2>3. local \in Fitting /\ local.via = "OTHER" /\ local.pc = "reset"
      BY <2>1, <2>2 DEF Idle, Fitting, Fits, Local, Opening, Steps, Statuses
  <2> QED
      BY <1>9, <2>1, <2>3, Begun DEF ResetPassword, Tied
<1> QED
    BY <1>2, <1>3, <1>4, <1>5, <1>6, <1>7, <1>8, <1>9 DEF Request

-----------------------------------------------------------------------------
(* Codes and passwords.                                                    *)

(* A step leaves the two counters alone.                                   *)
LEMMA Advanced ==
    ASSUME IInv, UNCHANGED <<started, died>>, StoreOK', HeldOK'
    PROVE  IInv'
    BY DEF IInv

LEMMA CodeStepsKeep ==
    ASSUME IInv, NEW i \in Handlers,
           CreateCode(i) \/ Deliver(i) \/ Verify(i) \/ Consume(i)
    PROVE  IInv'
<1>1. /\ h[i] \in Local /\ Fits(h[i]) /\ Tied(h[i], tokens, sessions)
      /\ codes \in Seq(Code) /\ account \in Account /\ offered \in BOOLEAN /\ links \in Nat
    BY DEF IInv, HeldOK, StoreOK, Fitting
<1>2. CASE CreateCode(i)
  <2>1. codes' \in Seq(Code) /\ Len(codes') \in Nat
      BY <1>1, <1>2 DEF CreateCode, Code
  <2>2. StoreOK' /\ Grown /\ sessions' \in Seq(Session)
      BY <1>1, <1>2, <2>1, AccountKept DEF CreateCode
  <2>3. PICK local : local = [h[i] EXCEPT !.pc = "deliver", !.found = Len(codes')]
      OBVIOUS
  <2>4. local \in Local /\ local.pc = "deliver" /\ local.via = h[i].via /\ local.given = h[i].given
      BY <1>1, <2>1, <2>3 DEF Local, Steps
  <2>5. Fits(local) /\ Tied(local, tokens', sessions')
      BY <1>1, <1>2, <2>4 DEF Fits, Tied, Opening, Trading, CreateCode
  <2>6. h' = [h EXCEPT ![i] = local]
      BY <1>2, <2>3 DEF CreateCode
  <2>7. HeldOK'
      BY <2>2, <2>4, <2>5, <2>6, HeldKept DEF Fitting
  <2> QED
      BY <1>2, <2>2, <2>7, Advanced DEF CreateCode, At
<1>3. CASE Deliver(i)
  <2>1. PICK sent \in BOOLEAN : codes' = [codes EXCEPT ![h[i].found].sent = sent]
      BY <1>3 DEF Deliver
  <2>2. codes' \in Seq(Code)
    <3>1. CASE h[i].found \in DOMAIN codes
      <4>1. PICK code : code = [codes[h[i].found] EXCEPT !.sent = sent]
          OBVIOUS
      <4>2. codes[h[i].found] \in Code
          BY <1>1, <3>1
      <4>3. code \in Code
          BY <4>1, <4>2 DEF Code
      <4>4. codes' = [codes EXCEPT ![h[i].found] = code]
          BY <2>1, <4>1
      <4> QED
          BY <1>1, <3>1, <4>3, <4>4
    <3>2. CASE h[i].found \notin DOMAIN codes
      <4>1. codes \in [1..Len(codes) -> Code] /\ DOMAIN codes = 1..Len(codes)
          BY <1>1
      <4>2. codes' = codes
          BY <2>1, <3>2, <4>1
      <4> QED
          BY <1>1, <4>2
    <3> QED
        BY <3>1, <3>2
  <2>3. StoreOK' /\ Grown /\ sessions' \in Seq(Session)
      BY <1>1, <1>3, <2>2, AccountKept DEF Deliver
  <2>4. HeldOK'
      BY <1>3, <2>3, HeldFinished DEF Deliver
  <2> QED
      BY <1>3, <2>3, <2>4, Advanced DEF Deliver, At
<1>4. CASE Verify(i)
  <2>1. StoreOK' /\ Grown /\ sessions' \in Seq(Session)
      BY <1>4, StoreKept DEF Verify
  <2>2. CASE Finish(i)
    <3>1. HeldOK'
        BY <2>1, <2>2, HeldFinished
    <3> QED
        BY <1>4, <2>1, <3>1, Advanced DEF Verify, At
  <2>3. CASE ~Finish(i)
    <3>1. PICK c \in OpenCodes, verdict \in Verdicts :
             h' = [h EXCEPT ![i].pc = "consume", ![i].found = c, ![i].n = codes[c].tries + 1,
                            ![i].verdict = verdict]
        BY <1>4, <2>3 DEF Verify, Verdicts
    <3>2. c \in Nat /\ codes[c].tries + 1 \in Nat
      <4>1. c \in DOMAIN codes
          BY <3>1 DEF OpenCodes
      <4>2. codes[c] \in Code
          BY <1>1, <4>1
      <4>3. codes[c].tries \in Nat
          BY <4>2 DEF Code
      <4> QED
          BY <1>1, <4>1, <4>3
    <3>3. PICK local : local = [h[i] EXCEPT !.pc = "consume", !.found = c, !.n = codes[c].tries + 1,
                                            !.verdict = verdict]
        OBVIOUS
    <3>4. /\ local \in Local /\ local.pc = "consume" /\ local.via = h[i].via
          /\ local.given = h[i].given /\ local.d = h[i].d /\ local.verdict = verdict
        BY <1>1, <3>1, <3>2, <3>3 DEF Local, Steps, Verdicts, Statuses
    <3>5. h[i].pc = "verify"
        BY <1>4 DEF Verify, At
    <3>6. Fits(local)
        BY <1>1, <3>1, <3>4, <3>5 DEF Fits, Opening
    <3>7. Tied(local, tokens', sessions')
        BY <1>1, <1>4, <3>4, <3>5 DEF Tied, Trading, Verify, store
    <3>8. h' = [h EXCEPT ![i] = local]
        BY <3>1, <3>3
    <3>9. HeldOK'
        BY <2>1, <3>4, <3>6, <3>7, <3>8, HeldKept DEF Fitting
    <3> QED
        BY <1>4, <2>1, <3>9, Advanced DEF Verify, At
  <2> QED
      BY <2>2, <2>3
<1>5. CASE Consume(i)
  <2>1. h[i].pc = "consume" /\ h[i].verdict \in Verdicts /\ h[i].n \in Nat /\ h[i].via # "REFRESH"
      BY <1>1, <1>5 DEF Consume, At, Fits, Local
  <2>2. codes' \in Seq(Code)
    <3>1. CASE h[i].found \in DOMAIN codes
      <4>1. codes[h[i].found] \in Code
          BY <1>1, <3>1
      <4>2. PICK code :
               code = [codes[h[i].found] EXCEPT
                         !.status = IF h[i].verdict = "WRONG" THEN @ ELSE h[i].verdict,
                         !.tries = IF h[i].verdict = "EXPIRED" THEN @ ELSE h[i].n]
          OBVIOUS
      <4>3. code \in Code
          BY <2>1, <4>1, <4>2 DEF Code, Verdicts
      <4>4. codes' = [codes EXCEPT ![h[i].found] = code]
          BY <1>5, <4>2, <1>1, <3>1 DEF Consume
      <4> QED
          BY <1>1, <3>1, <4>3, <4>4
    <3>2. CASE h[i].found \notin DOMAIN codes
      <4>1. codes \in [1..Len(codes) -> Code] /\ DOMAIN codes = 1..Len(codes)
          BY <1>1
      <4>2. codes' = codes
          BY <1>5, <3>2, <4>1 DEF Consume
      <4> QED
          BY <1>1, <4>2
    <3> QED
        BY <3>1, <3>2
  <2>3. StoreOK' /\ Grown /\ sessions' \in Seq(Session)
      BY <1>1, <1>5, <2>2, AccountKept DEF Consume
  <2>4. Goto(i, "account") \/ Finish(i)
      BY <1>5 DEF Consume
  <2>5. HeldOK'
      BY <2>1, <2>3, <2>4, HeldFinished, HeldGoesOn DEF Opening
  <2> QED
      BY <1>5, <2>3, <2>5, Advanced DEF Consume, At
<1> QED
    BY <1>2, <1>3, <1>4, <1>5

LEMMA PasswordStepsKeep ==
    ASSUME IInv, NEW i \in Handlers,
           \/ CheckPassword(i) \/ FailRead(i) \/ FailWrite(i)
           \/ WritePassword(i) \/ WriteLink(i) \/ CheckLink(i) \/ WriteReset(i)
    PROVE  IInv'
<1>1. /\ h[i] \in Local /\ Fits(h[i]) /\ Tied(h[i], tokens, sessions)
      /\ codes \in Seq(Code) /\ account \in Account /\ offered \in BOOLEAN /\ links \in Nat
    BY DEF IInv, HeldOK, StoreOK, Fitting
<1>2. /\ account.status \in Statuses /\ account.fails \in Nat
      /\ account.password \in Nat /\ account.link \in Nat
    BY <1>1 DEF Account
<1>3. h[i].n \in Nat
    BY <1>1 DEF Local
<1>4. CASE CheckPassword(i)
  <2>1. StoreOK' /\ Grown /\ sessions' \in Seq(Session)
      BY <1>4, StoreKept DEF CheckPassword
  <2>2. h[i].pc = "password" /\ h[i].via # "REFRESH"
      BY <1>1, <1>4 DEF CheckPassword, At, Fits
  <2>3. Goto(i, "account") \/ Goto(i, "fail")
      BY <1>4 DEF CheckPassword
  <2>4. HeldOK'
      BY <2>1, <2>2, <2>3, HeldGoesOn DEF Opening
  <2> QED
      BY <1>4, <2>1, <2>4, Advanced DEF CheckPassword, At
<1>5. CASE FailRead(i)
  <2>1. StoreOK' /\ Grown /\ sessions' \in Seq(Session)
      BY <1>5, StoreKept DEF FailRead
  <2>2. PICK local : local = [h[i] EXCEPT !.pc = "failed", !.n = account.fails + 1]
      OBVIOUS
  <2>3. account.fails + 1 \in Nat
      BY <1>2
  <2>4. local \in Local /\ local.pc = "failed" /\ local.via = h[i].via /\ local.given = h[i].given
      BY <1>1, <2>2, <2>3 DEF Local, Steps
  <2>5. Fits(local)
      BY <2>4 DEF Fits, Opening
  <2>6. Tied(local, tokens', sessions')
      BY <1>1, <1>5, <2>4 DEF Tied, Trading, FailRead, store
  <2>7. h' = [h EXCEPT ![i] = local]
      BY <1>5, <2>2 DEF FailRead
  <2>8. HeldOK'
      BY <2>1, <2>4, <2>5, <2>6, <2>7, HeldKept DEF Fitting
  <2> QED
      BY <1>5, <2>1, <2>8, Advanced DEF FailRead, At
<1>6. CASE FailWrite(i)
  <2>1. account' \in Account
      BY <1>1, <1>2, <1>3, <1>6 DEF FailWrite, Account, Statuses
  <2>2. StoreOK' /\ Grown /\ sessions' \in Seq(Session)
      BY <1>1, <1>6, <2>1, AccountKept DEF FailWrite
  <2>3. HeldOK'
      BY <1>6, <2>2, HeldFinished DEF FailWrite
  <2> QED
      BY <1>6, <2>2, <2>3, Advanced DEF FailWrite, At
<1>7. CASE WritePassword(i)
  <2>1. account' \in Account
      BY <1>1, <1>2, <1>7 DEF WritePassword, Account
  <2>2. StoreOK' /\ Grown /\ sessions' \in Seq(Session)
      BY <1>1, <1>7, <2>1, AccountKept DEF WritePassword
  <2>3. HeldOK'
      BY <1>7, <2>2, HeldGoesOn DEF WritePassword, Opening, Trading
  <2> QED
      BY <1>7, <2>2, <2>3, Advanced DEF WritePassword, At
<1>8. CASE WriteLink(i)
  <2>1. links' \in Nat
      BY <1>1, <1>8 DEF WriteLink
  <2>2. account' \in Account
      BY <1>1, <1>2, <1>8, <2>1 DEF WriteLink, Account
  <2>3. StoreOK' /\ Grown /\ sessions' \in Seq(Session)
      BY <1>1, <1>8, <2>1, <2>2, AccountKept DEF WriteLink
  <2>4. HeldOK'
      BY <1>8, <2>3, HeldFinished DEF WriteLink
  <2> QED
      BY <1>8, <2>3, <2>4, Advanced DEF WriteLink, At
<1>9. CASE CheckLink(i)
  <2>1. StoreOK' /\ Grown /\ sessions' \in Seq(Session)
      BY <1>9, StoreKept DEF CheckLink
  <2>2. CASE account.link = h[i].given
    <3>1. PICK local : local = [h[i] EXCEPT !.pc = "resetting", !.verdict = account.status]
        OBVIOUS
    <3>2. /\ local \in Local /\ local.pc = "resetting" /\ local.via = h[i].via
          /\ local.given = h[i].given /\ local.verdict = account.status
        BY <1>1, <1>2, <3>1 DEF Local, Steps
    <3>3. Fits(local)
        BY <1>2, <3>2 DEF Fits, Opening
    <3>4. Tied(local, tokens', sessions')
        BY <1>1, <1>9, <3>2 DEF Tied, Trading, CheckLink, store
    <3>5. h' = [h EXCEPT ![i] = local]
        BY <1>9, <2>2, <3>1 DEF CheckLink
    <3>6. HeldOK'
        BY <2>1, <3>2, <3>3, <3>4, <3>5, HeldKept DEF Fitting
    <3> QED
        BY <1>9, <2>1, <3>6, Advanced DEF CheckLink, At
  <2>3. CASE account.link # h[i].given
    <3>1. HeldOK'
        BY <1>9, <2>1, <2>3, HeldFinished DEF CheckLink
    <3> QED
        BY <1>9, <2>1, <3>1, Advanced DEF CheckLink, At
  <2> QED
      BY <2>2, <2>3
<1>10. CASE WriteReset(i)
  <2>1. h[i].verdict \in Statuses
      BY <1>1, <1>10 DEF WriteReset, At, Fits
  <2>2. account' \in Account
      BY <1>1, <1>2, <1>10, <2>1 DEF WriteReset, Account, Statuses
  <2>3. StoreOK' /\ Grown /\ sessions' \in Seq(Session)
      BY <1>1, <1>10, <2>2, AccountKept DEF WriteReset
  <2>4. HeldOK'
      BY <1>10, <2>3, HeldGoesOn DEF WriteReset, Opening, Trading
  <2> QED
      BY <1>10, <2>3, <2>4, Advanced DEF WriteReset, At
<1> QED
    BY <1>4, <1>5, <1>6, <1>7, <1>8, <1>9, <1>10

-----------------------------------------------------------------------------
(* Sessions.                                                               *)

LEMMA ActiveCounted ==
    ASSUME IInv
    PROVE  Cardinality(Active) \in Nat /\ Active \subseteq Nat
<1>1. DOMAIN sessions = 1..Len(sessions) /\ Len(sessions) \in Nat
    BY DEF IInv, StoreOK
<1>2. IsFiniteSet(1..Len(sessions))
    BY <1>1, FS_Interval
<1>3. Active \subseteq 1..Len(sessions)
    BY <1>1 DEF Active
<1>4. IsFiniteSet(Active)
    BY <1>2, <1>3, FS_Subset
<1>5. Cardinality(Active) \in Nat
    BY <1>4, FS_CardinalityType
<1>6. Active \subseteq Nat
    BY <1>1, <1>3
<1> QED
    BY <1>5, <1>6

(* A login that counts, chooses and looks up reads only.                   *)
LEMMA LoginReadsKeep ==
    ASSUME IInv, NEW i \in Handlers,
           ReadAccount(i) \/ Count(i) \/ Oldest(i) \/ Existing(i) \/ FindSession(i)
    PROVE  IInv'
<1>1. /\ h[i] \in Local /\ Fits(h[i]) /\ Tied(h[i], tokens, sessions)
      /\ sessions \in Seq(Session) /\ tokens \in Seq(Token)
    BY DEF IInv, HeldOK, StoreOK, Fitting
<1>2. StoreOK' /\ Grown /\ sessions' \in Seq(Session) /\ UNCHANGED <<sessions, tokens>>
    BY StoreKept DEF ReadAccount, Count, Oldest, Existing, FindSession, store
<1>3. UNCHANGED <<started, died>>
    BY DEF ReadAccount, Count, Oldest, Existing, FindSession, At
<1>4. CASE ReadAccount(i)
  <2>1. h[i].pc = "account" /\ (Goto(i, "count") \/ Finish(i))
      BY <1>4 DEF ReadAccount, At
  <2>2. HeldOK'
      BY <1>2, <2>1, HeldFinished, HeldGoesOn DEF Opening, Trading
  <2> QED
      BY <1>2, <1>3, <2>2, Advanced
<1>5. CASE Count(i)
  <2>1. PICK step \in {"oldest", "existing"} :
           h' = [h EXCEPT ![i].n = Cardinality(Active), ![i].pc = step]
      BY <1>5 DEF Count
  <2>2. PICK local : local = [h[i] EXCEPT !.n = Cardinality(Active), !.pc = step]
      OBVIOUS
  <2>3. /\ local \in Local /\ local.pc = step /\ local.via = h[i].via
        /\ local.given = h[i].given /\ local.found = h[i].found /\ local.d = h[i].d
      BY <1>1, <2>1, <2>2, ActiveCounted DEF Local, Steps
  <2>4. h[i].pc = "count"
      BY <1>5 DEF Count, At
  <2>5. Fits(local) /\ Tied(local, tokens', sessions')
      BY <1>1, <1>2, <2>1, <2>3, <2>4 DEF Fits, Tied, Opening, Trading
  <2>6. h' = [h EXCEPT ![i] = local]
      BY <2>1, <2>2
  <2>7. HeldOK'
      BY <1>2, <2>3, <2>5, <2>6, HeldKept DEF Fitting
  <2> QED
      BY <1>2, <1>3, <2>7, Advanced
<1>6. CASE Oldest(i)
  <2>1. PICK list \in SUBSET Active : h' = [h EXCEPT ![i].pc = "retire", ![i].list = list]
      BY <1>6 DEF Oldest
  <2>2. PICK local : local = [h[i] EXCEPT !.pc = "retire", !.list = list]
      OBVIOUS
  <2>3. list \in SUBSET Nat
      BY <2>1, ActiveCounted
  <2>4. /\ local \in Local /\ local.pc = "retire" /\ local.via = h[i].via
        /\ local.given = h[i].given /\ local.found = h[i].found /\ local.d = h[i].d
      BY <1>1, <2>2, <2>3 DEF Local, Steps
  <2>5. h[i].pc = "oldest"
      BY <1>6 DEF Oldest, At
  <2>6. Fits(local) /\ Tied(local, tokens', sessions')
      BY <1>1, <1>2, <2>4, <2>5 DEF Fits, Tied, Opening, Trading
  <2>7. h' = [h EXCEPT ![i] = local]
      BY <2>1, <2>2
  <2>8. HeldOK'
      BY <1>2, <2>4, <2>6, <2>7, HeldKept DEF Fitting
  <2> QED
      BY <1>2, <1>3, <2>8, Advanced
<1>7. CASE Existing(i)
  <2>1. PICK sid \in Active \cup {0} : h' = [h EXCEPT ![i].pc = "write", ![i].sid = sid]
      BY <1>7 DEF Existing
  <2>2. sid \in 0..Len(sessions) /\ sid \in Nat
    <3>1. DOMAIN sessions = 1..Len(sessions) /\ Len(sessions) \in Nat
        BY <1>1
    <3> QED
        BY <2>1, <3>1 DEF Active
  <2>3. PICK local : local = [h[i] EXCEPT !.pc = "write", !.sid = sid]
      OBVIOUS
  <2>4. /\ local \in Local /\ local.pc = "write" /\ local.via = h[i].via
        /\ local.given = h[i].given /\ local.found = h[i].found /\ local.d = h[i].d
        /\ local.sid = sid
      BY <1>1, <2>2, <2>3 DEF Local, Steps
  <2>5. h[i].pc = "existing"
      BY <1>7 DEF Existing, At
  <2>6. Fits(local)
      BY <1>1, <2>4, <2>5 DEF Fits, Opening
  <2>7. Tied(local, tokens', sessions')
      BY <1>1, <1>2, <2>2, <2>4, <2>5 DEF Tied, Trading
  <2>8. h' = [h EXCEPT ![i] = local]
      BY <2>1, <2>3
  <2>9. HeldOK'
      BY <1>2, <2>4, <2>6, <2>7, <2>8, HeldKept DEF Fitting
  <2> QED
      BY <1>2, <1>3, <2>9, Advanced
<1>8. CASE FindSession(i)
  <2>1. /\ h[i].pc = "refresh" /\ h[i].via = "REFRESH" /\ h[i].d \in Devices
        /\ h[i].given \in DOMAIN tokens
      BY <1>1, <1>8 DEF FindSession, At, Fits, Tied
  <2>2. CASE Goto(i, "family") \/ Finish(i)
    <3>1. HeldOK'
        BY <1>2, <2>2, HeldFinished, HeldGoesOn DEF Opening, Trading
    <3> QED
        BY <1>2, <1>3, <3>1, Advanced
  <2>3. CASE ~(Goto(i, "family") \/ Finish(i))
    <3>1. PICK found : found = tokens[h[i].given].sid
        OBVIOUS
    <3>2. h' = [h EXCEPT ![i].pc = "account", ![i].found = found]
        BY <1>8, <2>3, <3>1 DEF FindSession
    <3>3. found \in Nat
      <4>1. tokens[h[i].given] \in Token
          BY <1>1, <2>1
      <4> QED
          BY <3>1, <4>1 DEF Token
    <3>4. PICK local : local = [h[i] EXCEPT !.pc = "account", !.found = found]
        OBVIOUS
    <3>5. /\ local \in Local /\ local.pc = "account" /\ local.via = h[i].via
          /\ local.given = h[i].given /\ local.found = found /\ local.d = h[i].d
        BY <1>1, <3>3, <3>4 DEF Local, Steps
    <3>6. Fits(local)
        BY <1>1, <2>1, <3>5 DEF Fits, Opening
    <3>7. Tied(local, tokens', sessions')
        BY <1>2, <2>1, <3>1, <3>5 DEF Tied
    <3>8. h' = [h EXCEPT ![i] = local]
        BY <3>2, <3>4
    <3>9. HeldOK'
        BY <1>2, <3>5, <3>6, <3>7, <3>8, HeldKept DEF Fitting
    <3> QED
        BY <1>2, <1>3, <3>9, Advanced
  <2> QED
      BY <2>2, <2>3
<1> QED
    BY <1>4, <1>5, <1>6, <1>7, <1>8

(* The token of a new session, or of one that is taken up again, is new.   *)
LEMMA WriteKeeps ==
    ASSUME IInv, NEW i \in Handlers, Write(i)
    PROVE  IInv'
<1>1. /\ h[i] \in Local /\ Fits(h[i]) /\ Tied(h[i], tokens, sessions)
      /\ sessions \in Seq(Session) /\ tokens \in Seq(Token) /\ era \in Nat
      /\ Carried /\ SpentStaysSpent /\ EndedTogether
    BY DEF IInv, HeldOK, StoreOK, Fitting
<1>2. /\ h[i].pc = "write" /\ h[i].d \in Devices /\ h[i].sid \in 0..Len(sessions)
      /\ UNCHANGED <<started, died>>
    BY <1>1 DEF Write, At, Fits, Opening, Tied
<1>3. /\ DOMAIN sessions = 1..Len(sessions) /\ Len(sessions) \in Nat
      /\ DOMAIN tokens = 1..Len(tokens) /\ Len(tokens) \in Nat
    BY <1>1
<1>4. PICK sid, token, session :
         /\ sid = IF h[i].sid = 0 THEN Len(sessions) + 1 ELSE h[i].sid
         /\ token = Len(tokens) + 1
         /\ session = [device |-> h[i].d, token |-> token, active |-> TRUE, era |-> era]
    OBVIOUS
<1>5. sid \in 1..(Len(sessions) + 1) /\ token \in Nat /\ session \in Session
    BY <1>1, <1>2, <1>3, <1>4 DEF Session
<1>6. /\ sessions' = IF h[i].sid = 0 THEN Append(sessions, session)
                                     ELSE [sessions EXCEPT ![sid] = session]
      /\ tokens' = Append(tokens, [sid |-> sid, state |-> "PENDING"])
    BY <1>4 DEF Write
<1>7. /\ tokens' \in Seq(Token) /\ DOMAIN tokens' = 1..token /\ token \notin DOMAIN tokens
      /\ tokens'[token].sid = sid /\ tokens'[token].state = "PENDING"
      /\ \A t \in DOMAIN tokens : t \in DOMAIN tokens' /\ tokens'[t] = tokens[t]
  <2>1. [sid |-> sid, state |-> "PENDING"] \in Token
      BY <1>3, <1>5 DEF Token
  <2> QED
      BY <1>1, <1>3, <1>4, <1>6, <2>1
<1>8. /\ sessions' \in Seq(Session) /\ Len(sessions) <= Len(sessions')
      /\ sid \in DOMAIN sessions' /\ sessions'[sid] = session
      /\ \A s \in DOMAIN sessions' : s # sid => s \in DOMAIN sessions /\ sessions'[s] = sessions[s]
  <2>1. CASE h[i].sid = 0
      BY <1>1, <1>3, <1>4, <1>5, <1>6, <2>1
  <2>2. CASE h[i].sid # 0
      BY <1>1, <1>2, <1>3, <1>4, <1>5, <1>6, <2>2
  <2> QED
      BY <2>1, <2>2
<1>9. Grown
    BY <1>7, <1>8 DEF Grown
<1>10. session.token = token /\ session.era = era /\ session.active
    BY <1>4
<1>11. Carried'
  <2>1. ASSUME NEW s \in DOMAIN sessions'
        PROVE  sessions'[s].token \in DOMAIN tokens' /\ tokens'[sessions'[s].token].sid = s
    <3>1. CASE s = sid
      <4>1. token \in 1..token
          BY <1>3, <1>4
      <4> QED
          BY <1>7, <1>8, <1>10, <3>1, <4>1
    <3>2. CASE s # sid
        BY <1>1, <1>7, <1>8, <3>2 DEF Carried
    <3> QED
        BY <3>1, <3>2
  <2> QED
      BY <2>1 DEF Carried
<1>12. SpentStaysSpent'
  <2>1. ASSUME NEW s \in DOMAIN sessions', sessions'[s].active
        PROVE  tokens'[sessions'[s].token].state # "SPENT"
    <3>1. CASE s = sid
        BY <1>7, <1>8, <1>10, <3>1
    <3>2. CASE s # sid
      <4>1. s \in Active /\ sessions[s].token \in DOMAIN tokens /\ sessions'[s] = sessions[s]
          BY <1>1, <1>8, <2>1, <3>2 DEF Carried, Active
      <4> QED
          BY <1>1, <1>7, <4>1 DEF SpentStaysSpent
    <3> QED
        BY <3>1, <3>2
  <2> QED
      BY <2>1 DEF SpentStaysSpent, Active
<1>13. era' = era
    BY DEF Write
<1>14. EndedTogether'
  <2>1. ASSUME NEW s \in DOMAIN sessions', sessions'[s].active PROVE sessions'[s].era = era
    <3>1. CASE s = sid
        BY <1>8, <1>10, <3>1
    <3>2. CASE s # sid
        BY <1>1, <1>8, <2>1, <3>2 DEF EndedTogether, Active
    <3> QED
        BY <3>1, <3>2
  <2> QED
      BY <1>13, <2>1 DEF EndedTogether, Active
<1>15. StoreOK'
    BY <1>7, <1>8, <1>11, <1>12, <1>14 DEF StoreOK, IInv, Write
<1>16. PICK step \in {"rotate", "stamp"} :
          /\ h' = [h EXCEPT ![i].token = token, ![i].pc = step]
          /\ step = "rotate" => h[i].via = "REFRESH"
    BY <1>4 DEF Write
<1>17. PICK local : local = [h[i] EXCEPT !.token = token, !.pc = step]
    OBVIOUS
<1>18. /\ local \in Local /\ local.pc = step /\ local.via = h[i].via
       /\ local.given = h[i].given /\ local.found = h[i].found /\ local.d = h[i].d
    BY <1>1, <1>5, <1>16, <1>17 DEF Local, Steps
<1>19. Fits(local)
    BY <1>2, <1>16, <1>18 DEF Fits, Opening
<1>20. Tied(local, tokens', sessions')
    BY <1>1, <1>2, <1>7, <1>16, <1>18 DEF Tied, Trading
<1>21. h' = [h EXCEPT ![i] = local]
    BY <1>16, <1>17
<1>22. HeldOK'
    BY <1>8, <1>9, <1>18, <1>19, <1>20, <1>21, HeldKept DEF Fitting
<1> QED
    BY <1>2, <1>15, <1>22, Advanced

(* The session that carries the token that is spent is the one ended.      *)
LEMMA RotateKeeps ==
    ASSUME IInv, NEW i \in Handlers, Rotate(i)
    PROVE  IInv'
<1>1. /\ Fits(h[i]) /\ Tied(h[i], tokens, sessions) /\ tokens \in Seq(Token)
      /\ Carried /\ SpentStaysSpent /\ EndedTogether
    BY DEF IInv, HeldOK, StoreOK, Fitting
<1>2. /\ h[i].pc = "rotate" /\ h[i].given \in DOMAIN tokens
      /\ h[i].found = tokens[h[i].given].sid
    BY <1>1 DEF Rotate, At, Fits, Tied, Trading
<1>3. /\ sessions' = Ended({h[i].found}) /\ UNCHANGED <<codes, account, offered, links, era>>
      /\ tokens' = [tokens EXCEPT ![h[i].token].state = "HELD", ![h[i].given].state = "SPENT"]
    BY DEF Rotate, Rotated
<1>4. PICK half : half = [tokens EXCEPT ![h[i].token].state = "HELD"]
    OBVIOUS
<1>5. /\ half \in Seq(Token) /\ DOMAIN half = DOMAIN tokens
      /\ \A t \in DOMAIN tokens :
            /\ half[t].sid = tokens[t].sid
            /\ half[t].state = IF t = h[i].token THEN "HELD" ELSE tokens[t].state
    BY <1>1, <1>4, Marked
<1>6. tokens' = [half EXCEPT ![h[i].given].state = "SPENT"]
    BY <1>3, <1>4
<1>7. /\ tokens' \in Seq(Token) /\ DOMAIN tokens' = DOMAIN tokens
      /\ \A t \in DOMAIN tokens :
            /\ tokens'[t].sid = tokens[t].sid
            /\ tokens'[t].state = "SPENT" => t = h[i].given \/ tokens[t].state = "SPENT"
  <2>1. PICK given : given = h[i].given
      OBVIOUS
  <2>2. PICK new : new = [half EXCEPT ![given].state = "SPENT"]
      OBVIOUS
  <2>3. /\ new \in Seq(Token) /\ DOMAIN new = DOMAIN half
        /\ \A t \in DOMAIN half :
              /\ new[t].sid = half[t].sid
              /\ new[t].state = IF t = given THEN "SPENT" ELSE half[t].state
      BY <1>5, <2>2, Marked
  <2>4. tokens' = new
      BY <1>6, <2>1, <2>2
  <2> QED
      BY <1>5, <2>1, <2>3, <2>4
<1>8. /\ sessions' \in Seq(Session)
      /\ Len(sessions') = Len(sessions) /\ DOMAIN sessions' = DOMAIN sessions
    BY <1>3, EndedSessions
<1>9. \A s \in DOMAIN sessions :
          /\ sessions'[s].token = sessions[s].token
          /\ sessions'[s].era = sessions[s].era
          /\ sessions'[s].active => sessions[s].active /\ s # h[i].found
    BY <1>3, EndedSessions
<1>10. Grown
    BY <1>7, <1>8 DEF Grown, IInv, StoreOK
<1>11. Carried'
    BY <1>1, <1>7, <1>8, <1>9 DEF Carried
<1>12. SpentStaysSpent'
  <2>1. ASSUME NEW s \in DOMAIN sessions, sessions'[s].active
        PROVE  tokens'[sessions'[s].token].state # "SPENT"
    <3>1. /\ s \in Active /\ s # h[i].found /\ sessions[s].token \in DOMAIN tokens
          /\ tokens[sessions[s].token].sid = s
        BY <1>1, <1>9, <2>1 DEF Carried, Active
    <3>2. sessions[s].token # h[i].given
        BY <1>2, <3>1
    <3> QED
        BY <1>1, <1>7, <1>9, <3>1, <3>2 DEF SpentStaysSpent
  <2> QED
      BY <1>8, <2>1 DEF SpentStaysSpent, Active
<1>13. EndedTogether'
    BY <1>1, <1>3, <1>8, <1>9 DEF EndedTogether, Active
<1>14. StoreOK'
    BY <1>3, <1>7, <1>8, <1>11, <1>12, <1>13 DEF StoreOK, IInv
<1>15. HeldOK'
    BY <1>8, <1>10, HeldFinished DEF Rotate
<1> QED
    BY <1>14, <1>15, Advanced DEF Rotate, At

(* A society is offered; a login is stamped.                               *)
LEMMA LoginEndsKeep ==
    ASSUME IInv, NEW i \in Handlers, Offer(i) \/ Stamp(i)
    PROVE  IInv'
<1>1. /\ codes \in Seq(Code) /\ account \in Account /\ links \in Nat /\ offered \in BOOLEAN
      /\ sessions \in Seq(Session) /\ tokens \in Seq(Token) /\ era \in Nat /\ Len(sessions) \in Nat
      /\ Carried /\ SpentStaysSpent /\ EndedTogether
    BY DEF IInv, StoreOK
<1>2. CASE Offer(i)
  <2>1. StoreOK' /\ Grown /\ sessions' \in Seq(Session)
      BY <1>1, <1>2, AccountKept DEF Offer
  <2>2. HeldOK'
      BY <1>2, <2>1, HeldFinished DEF Offer
  <2> QED
      BY <1>2, <2>1, <2>2, Advanced DEF Offer, At
<1>3. CASE Stamp(i)
  <2>1. account' \in Account /\ UNCHANGED <<codes, sessions, offered, links, era>>
      BY <1>1, <1>3 DEF Stamp, Account
  <2>2. /\ tokens' \in Seq(Token) /\ DOMAIN tokens' = DOMAIN tokens
        /\ \A t \in DOMAIN tokens :
              /\ tokens'[t].sid = tokens[t].sid
              /\ tokens'[t].state = "SPENT" => tokens[t].state = "SPENT"
    <3>1. PICK token : token = h[i].token
        OBVIOUS
    <3>2. PICK new : new = [tokens EXCEPT ![token].state = "HELD"]
        OBVIOUS
    <3>3. /\ new \in Seq(Token) /\ DOMAIN new = DOMAIN tokens
          /\ \A t \in DOMAIN tokens :
                /\ new[t].sid = tokens[t].sid
                /\ new[t].state = IF t = token THEN "HELD" ELSE tokens[t].state
        BY <1>1, <3>2, Marked
    <3>4. tokens' = new
        BY <1>3, <3>1, <3>2 DEF Stamp
    <3> QED
        BY <3>3, <3>4
  <2>3. Grown
      BY <1>1, <2>1, <2>2 DEF Grown
  <2>4. Carried' /\ SpentStaysSpent' /\ EndedTogether'
      BY <1>1, <2>1, <2>2 DEF Carried, SpentStaysSpent, EndedTogether, Active
  <2>5. StoreOK'
      BY <1>1, <2>1, <2>2, <2>4 DEF StoreOK
  <2>6. HeldOK'
      BY <1>1, <1>3, <2>1, <2>3, HeldFinished DEF Stamp
  <2> QED
      BY <1>3, <2>5, <2>6, Advanced DEF Stamp, At
<1> QED
    BY <1>2, <1>3

-----------------------------------------------------------------------------
(* Ending sessions.                                                        *)

LEMMA EndingsKeep ==
    ASSUME IInv, NEW i \in Handlers, Retire(i) \/ RevokeFamily(i) \/ EndEveryone(i)
    PROVE  IInv'
<1>1. h[i] \in Local /\ Fits(h[i]) /\ Tied(h[i], tokens, sessions)
    BY DEF IInv, HeldOK, Fitting
<1>2. CASE Retire(i)
  <2>1. StoreOK' /\ Grown /\ sessions' \in Seq(Session)
      BY <1>2, StoreEnded DEF Retire
  <2>2. PICK local : local = [h[i] EXCEPT !.pc = "existing", !.list = {}, !.n = 0]
      OBVIOUS
  <2>3. /\ local \in Local /\ local.pc = "existing" /\ local.via = h[i].via
        /\ local.given = h[i].given /\ local.found = h[i].found /\ local.d = h[i].d
      BY <1>1, <2>2 DEF Local, Steps
  <2>4. h[i].pc = "retire" /\ UNCHANGED <<tokens, started, died>>
      BY <1>2 DEF Retire, At
  <2>5. Fits(local) /\ Tied(local, tokens', sessions')
      BY <1>1, <2>3, <2>4 DEF Fits, Tied, Opening, Trading
  <2>6. h' = [h EXCEPT ![i] = local]
      BY <1>2, <2>2 DEF Retire
  <2>7. HeldOK'
      BY <2>1, <2>3, <2>5, <2>6, HeldKept DEF Fitting
  <2> QED
      BY <2>1, <2>4, <2>7, Advanced
<1>3. CASE RevokeFamily(i)
  <2>1. StoreOK' /\ Grown /\ sessions' \in Seq(Session)
      BY <1>3, StoreEnded DEF RevokeFamily
  <2>2. HeldOK'
      BY <1>3, <2>1, HeldFinished DEF RevokeFamily
  <2> QED
      BY <1>3, <2>1, <2>2, Advanced DEF RevokeFamily, At
<1>4. CASE EndEveryone(i)
  <2>1. StoreOK' /\ Grown /\ sessions' \in Seq(Session)
      BY <1>4, StoreEnded DEF EndEveryone, Everyone
  <2>2. HeldOK'
      BY <1>4, <2>1, HeldFinished DEF EndEveryone
  <2> QED
      BY <1>4, <2>1, <2>2, Advanced DEF EndEveryone, At
<1> QED
    BY <1>2, <1>3, <1>4

(* The session spared belongs to the era that begins.                      *)
LEMMA EndOthersKeeps ==
    ASSUME IInv, NEW i \in Handlers, EndOthers(i)
    PROVE  IInv'
<1>1. /\ sessions \in Seq(Session) /\ tokens \in Seq(Token) /\ era \in Nat
      /\ DOMAIN sessions = 1..Len(sessions) /\ Len(sessions) \in Nat
      /\ Carried /\ SpentStaysSpent
    BY DEF IInv, StoreOK
<1>2. /\ era' = era + 1 /\ UNCHANGED <<codes, account, tokens, offered, links>>
      /\ sessions' = [s \in DOMAIN sessions |->
                        IF s = h[i].sid THEN [sessions[s] EXCEPT !.era = era + 1]
                                        ELSE [sessions[s] EXCEPT !.active = FALSE]]
    BY DEF EndOthers
<1>3. ASSUME NEW s \in DOMAIN sessions
      PROVE  /\ sessions'[s] \in Session /\ sessions'[s].token = sessions[s].token
             /\ sessions'[s].active => sessions[s].active /\ sessions'[s].era = era + 1
  <2>1. sessions[s] \in Session /\ era + 1 \in Nat
      BY <1>1
  <2>2. CASE s = h[i].sid
    <3>1. sessions'[s] = [sessions[s] EXCEPT !.era = era + 1]
        BY <1>2, <2>2
    <3> QED
        BY <2>1, <3>1 DEF Session
  <2>3. CASE s # h[i].sid
    <3>1. sessions'[s] = [sessions[s] EXCEPT !.active = FALSE]
        BY <1>2, <2>3
    <3> QED
        BY <2>1, <3>1 DEF Session
  <2> QED
      BY <2>2, <2>3
<1>4. DOMAIN sessions' = DOMAIN sessions
    BY <1>2
<1>5. sessions' \in Seq(Session) /\ Len(sessions') = Len(sessions)
  <2>1. sessions' \in [1..Len(sessions) -> Session]
      BY <1>1, <1>2, <1>3
  <2>2. sessions' \in Seq(Session)
      BY <1>1, <2>1
  <2> QED
      BY <1>1, <1>4, <2>2
<1>6. Carried' /\ SpentStaysSpent' /\ EndedTogether'
    BY <1>1, <1>2, <1>3, <1>4 DEF Carried, SpentStaysSpent, EndedTogether, Active
<1>7. StoreOK'
    BY <1>1, <1>2, <1>5, <1>6 DEF StoreOK, IInv
<1>8. Grown
    BY <1>1, <1>2, <1>5 DEF Grown
<1>9. HeldOK'
    BY <1>5, <1>8, HeldFinished DEF EndOthers
<1> QED
    BY <1>7, <1>9, Advanced DEF EndOthers, At

LEMMA AbortKeeps ==
    ASSUME IInv, NEW i \in Handlers, Abort(i)
    PROVE  IInv'
<1>1. StoreOK' /\ Grown /\ sessions' \in Seq(Session)
    BY StoreKept DEF Abort
<1>2. HeldOK'
    BY <1>1, HeldFinished DEF Abort
<1>3. died' \in 0..MaxAborts /\ started' \in 0..MaxRequests
    BY SignInAssumption DEF Abort, IInv
<1> QED
    BY <1>1, <1>2, <1>3 DEF IInv

(* Nothing a request holds is touched by what is done in one step.         *)
LEMMA HeldUntouched ==
    ASSUME IInv, Grown, sessions' \in Seq(Session), UNCHANGED h
    PROVE  HeldOK'
<1>1. CASE Handlers = {}
    BY <1>1 DEF IInv, HeldOK
<1>2. ASSUME NEW i \in Handlers PROVE HeldOK'
  <2>1. h' = [h EXCEPT ![i] = h[i]] /\ h[i] \in Fitting /\ Tied(h[i], tokens, sessions)
      BY DEF IInv, HeldOK
  <2>2. Len(sessions) \in Nat /\ Len(sessions') \in Nat
      BY DEF IInv, StoreOK
  <2>3. 0..Len(sessions) \subseteq 0..Len(sessions')
      BY <2>2 DEF Grown
  <2>4. Tied(h[i], tokens', sessions')
      BY <2>1, <2>3 DEF Tied, Grown
  <2> QED
      BY <2>1, <2>4, HeldKept
<1> QED
    BY <1>1, <1>2

LEMMA OneStepKeeps ==
    ASSUME IInv,
           \/ \E s \in DOMAIN sessions : EndSession(s)
           \/ LogoutAll \/ SetPassword
           \/ \E status \in {"ACTIVE", "INACTIVE"} : SetStatus(status)
    PROVE  IInv'
<1>1. /\ codes \in Seq(Code) /\ account \in Account /\ links \in Nat /\ offered \in BOOLEAN
      /\ started \in 0..MaxRequests /\ died \in 0..MaxAborts
    BY DEF IInv, StoreOK
<1>2. account.status \in Statuses /\ account.password \in Nat
    BY <1>1 DEF Account
<1>3. CASE \E s \in DOMAIN sessions : EndSession(s)
  <2>1. StoreOK' /\ Grown /\ sessions' \in Seq(Session)
      BY <1>3, StoreEnded DEF EndSession
  <2>2. UNCHANGED <<h, started, died>>
      BY <1>3 DEF EndSession
  <2> QED
      BY <1>1, <2>1, <2>2, HeldUntouched DEF IInv
<1>4. CASE LogoutAll
  <2>1. StoreOK' /\ Grown /\ sessions' \in Seq(Session)
      BY <1>4, StoreEnded DEF LogoutAll
  <2>2. UNCHANGED <<h, died>> /\ started' \in 0..MaxRequests
      BY <1>1, <1>4, SignInAssumption DEF LogoutAll
  <2> QED
      BY <1>1, <2>1, <2>2, HeldUntouched DEF IInv
<1>5. CASE SetPassword
  <2>1. account' \in Account
      BY <1>1, <1>2, <1>5 DEF SetPassword, Account
  <2>2. StoreOK' /\ Grown /\ sessions' \in Seq(Session)
      BY <1>1, <1>5, <2>1, AccountKept DEF SetPassword
  <2>3. UNCHANGED <<h, died>> /\ started' \in 0..MaxRequests
      BY <1>1, <1>5, SignInAssumption DEF SetPassword
  <2> QED
      BY <1>1, <2>2, <2>3, HeldUntouched DEF IInv
<1>6. ASSUME NEW status \in {"ACTIVE", "INACTIVE"}, SetStatus(status) PROVE IInv'
  <2>1. account' \in Account
      BY <1>1, <1>2, <1>6 DEF SetStatus, Account, Statuses
  <2>2. StoreOK' /\ Grown /\ sessions' \in Seq(Session)
      BY <1>1, <1>6, <2>1, AccountKept DEF SetStatus
  <2>3. UNCHANGED <<h, started, died>>
      BY <1>6 DEF SetStatus
  <2> QED
      BY <1>1, <2>2, <2>3, HeldUntouched DEF IInv
<1> QED
    BY <1>3, <1>4, <1>5, <1>6

-----------------------------------------------------------------------------
(* The invariant.                                                          *)

LEMMA InvInit == Init => IInv
<1> SUFFICES ASSUME Init PROVE IInv
    OBVIOUS
<1>1. PICK d \in Devices : sessions = <<[device |-> d, token |-> 1, active |-> TRUE, era |-> 0]>>
    BY DEF Init
<1>2. codes \in Seq(Code) /\ account \in Account /\ offered \in BOOLEAN /\ links \in Nat /\ era \in Nat
  <2>1. codes \in Seq(Code)
      BY DEF Init
  <2>2. account \in Account
      BY DEF Init, Account, Statuses
  <2>3. offered \in BOOLEAN /\ links \in Nat /\ era \in Nat
      BY DEF Init
  <2> QED
      BY <2>1, <2>2, <2>3
<1>3. sessions \in Seq(Session) /\ DOMAIN sessions = {1} /\ sessions[1].token = 1 /\ sessions[1].era = 0
    BY <1>1 DEF Session
<1>4. tokens \in Seq(Token) /\ DOMAIN tokens = {1} /\ tokens[1].sid = 1 /\ tokens[1].state = "HELD"
    BY DEF Init, Token
<1>5. Carried /\ SpentStaysSpent /\ EndedTogether
    BY <1>3, <1>4 DEF Carried, SpentStaysSpent, EndedTogether, Active, Init
<1>6. h \in [Handlers -> Fitting]
    BY IdleFits DEF Init
<1>7. \A i \in Handlers : Tied(h[i], tokens, sessions)
    BY IdleFits DEF Init, Tied
<1>8. started \in 0..MaxRequests /\ died \in 0..MaxAborts
    BY SignInAssumption DEF Init
<1> QED
    BY <1>2, <1>3, <1>4, <1>5, <1>6, <1>7, <1>8 DEF IInv, StoreOK, HeldOK

LEMMA AdvanceKeeps ==
    ASSUME IInv, NEW i \in Handlers, Advance(i)
    PROVE  IInv'
    BY CodeStepsKeep, PasswordStepsKeep, LoginReadsKeep, WriteKeeps, RotateKeeps, LoginEndsKeep,
       EndingsKeep, EndOthersKeeps DEF Advance

LEMMA InvNext == IInv /\ [Next]_vars => IInv'
<1> SUFFICES ASSUME IInv, [Next]_vars PROVE IInv'
    OBVIOUS
<1>1. CASE Next
    BY <1>1, RequestKeeps, AdvanceKeeps, AbortKeeps, OneStepKeeps DEF Next
<1>2. CASE UNCHANGED vars
  <2>1. UNCHANGED store /\ UNCHANGED <<h, started, died>>
      BY <1>2 DEF vars, store
  <2>2. StoreOK' /\ Grown /\ sessions' \in Seq(Session)
      BY <2>1, StoreKept
  <2> QED
      BY <2>1, <2>2, HeldUntouched DEF IInv
<1> QED
    BY <1>1, <1>2

LEMMA InvAlways == Spec => []IInv
    BY InvInit, InvNext, PTL DEF Spec

(* Every variable has its type, whatever the devices, requests and deaths  *)
(* (otpService.ts, authService.ts).                                        *)
THEOREM TypeCorrect == Spec => []TypeOK
<1>1. IInv => TypeOK
    BY DEF IInv, StoreOK, HeldOK, TypeOK, Fitting
<1> QED
    BY <1>1, InvAlways, PTL

(* No active session carries a refresh token that was traded in: the       *)
(* session a refresh ends is the one its token was issued for, even when   *)
(* a login took it up again meanwhile (authService.ts 593-634).            *)
THEOREM SpentStaysSpentCorrect == Spec => []SpentStaysSpent
<1>1. IInv => SpentStaysSpent
    BY DEF IInv, StoreOK
<1> QED
    BY <1>1, InvAlways, PTL

(* Whatever else is in flight, no session that was active outlives a       *)
(* reset, a password change or a log-out everywhere, but the one that the  *)
(* password was changed from (authService.ts 661-664, 753-758, 859-862).   *)
THEOREM EndedTogetherCorrect == Spec => []EndedTogether
<1>1. IInv => EndedTogether
    BY DEF IInv, StoreOK
<1> QED
    BY <1>1, InvAlways, PTL

-----------------------------------------------------------------------------
(* The bound on devices.  A login that is to retire sessions has picked    *)
(* some, or will; one that is past that is about to open a session.        *)
Waiting == {i \in Handlers : h[i].pc \in {"oldest", "retire"}}
Entering == {i \in Handlers : h[i].pc \in {"existing", "write"}}
OlderThan(s) == {r \in Active : sessions[r].token < sessions[s].token}
Picked(i) == IF h[i].pc = "retire" THEN h[i].list
             ELSE {s \in Active : Cardinality(OlderThan(s)) < Surplus(h[i].n)}

(* What is left when some of those that wait have retired what they        *)
(* picked.  However many do, and even when they all picked the same        *)
(* sessions, there is room for them and for those that are entering.       *)
Left(S) == {s \in Active : \A i \in S : s \notin Picked(i)}
Fills(S) ==
    Cardinality(Left(S)) + Cardinality(Entering) + Cardinality(S)
        <= MaxDevices - 1 + Cardinality(Handlers)
Room == \A S \in SUBSET Waiting : Fills(S)

LEMMA LeastOfSet ==
    ASSUME NEW T, T \subseteq Nat, T # {}
    PROVE  \E x \in T : \A y \in T : x <= y
<1>1. PICK x \in T : \A y \in T : ~ (<<y, x>> \in OpToRel(<, Nat))
    BY NatLessThanWellFounded, WFMin
<1>2. \A y \in T : ~ (y < x)
    BY <1>1 DEF OpToRel
<1> QED
    BY <1>2

LEMMA ActiveFinite ==
    ASSUME IInv
    PROVE  /\ IsFiniteSet(Active) /\ Active \subseteq DOMAIN sessions
           /\ \A s \in Active : /\ sessions[s].token \in Nat
                                /\ sessions[s].token \in DOMAIN tokens
                                /\ tokens[sessions[s].token].sid = s
<1>1. /\ DOMAIN sessions = 1..Len(sessions) /\ Len(sessions) \in Nat
      /\ sessions \in Seq(Session) /\ Carried
    BY DEF IInv, StoreOK
<1>2. IsFiniteSet(1..Len(sessions))
    BY <1>1, FS_Interval
<1>3. Active \subseteq 1..Len(sessions)
    BY <1>1 DEF Active
<1>4. IsFiniteSet(Active)
    BY <1>2, <1>3, FS_Subset
<1>5. \A s \in DOMAIN sessions : sessions[s] \in Session
    BY <1>1
<1> QED
    BY <1>1, <1>3, <1>4, <1>5 DEF Carried, Session

LEMMA Sizes ==
    ASSUME IInv
    PROVE  /\ Cardinality(Handlers) \in Nat
           /\ \A S \in SUBSET Handlers : IsFiniteSet(S) /\ Cardinality(S) \in Nat
           /\ \A A \in SUBSET Active : /\ IsFiniteSet(A) /\ Cardinality(A) \in Nat
                                       /\ Cardinality(A) <= Cardinality(Active)
           /\ Waiting \subseteq Handlers /\ Entering \subseteq Handlers
<1>1. IsFiniteSet(Handlers)
    BY SignInAssumption
<1>2. \A S \in SUBSET Handlers : IsFiniteSet(S) /\ Cardinality(S) \in Nat
    BY <1>1, FS_Subset, FS_CardinalityType
<1>3. \A A \in SUBSET Active : /\ IsFiniteSet(A) /\ Cardinality(A) \in Nat
                               /\ Cardinality(A) <= Cardinality(Active)
    BY ActiveFinite, FS_Subset, FS_CardinalityType
<1> QED
    BY <1>1, <1>2, <1>3, FS_CardinalityType DEF Waiting, Entering

(* As many sessions as exceed the bound less one are picked.               *)
LEMMA PickedEnough ==
    ASSUME IInv, NEW m \in Nat, m <= Cardinality(Active)
    PROVE  Cardinality({s \in Active : ~(Cardinality(OlderThan(s)) < m)})
               <= Cardinality(Active) - m
<1> DEFINE B == {s \in Active : ~(Cardinality(OlderThan(s)) < m)}
<1>1. Cardinality(Active) \in Nat /\ IsFiniteSet(Active) /\ IsFiniteSet(B)
    BY Sizes, FS_Subset
<1>2. CASE B = {}
    BY <1>1, <1>2, FS_EmptySet
<1>3. CASE B # {}
  <2> DEFINE T == {sessions[s].token : s \in B}
  <2>1. T \subseteq Nat /\ T # {}
      BY <1>3, ActiveFinite
  <2>2. PICK x \in T : \A y \in T : x <= y
    <3> HIDE DEF T
    <3> QED
        BY <2>1, LeastOfSet
  <2>3. PICK b \in B : \A s \in B : sessions[b].token <= sessions[s].token
      BY <2>2
  <2>4. OlderThan(b) \subseteq Active /\ OlderThan(b) \cap B = {}
      BY <2>3, ActiveFinite DEF OlderThan
  <2>5. IsFiniteSet(OlderThan(b)) /\ Cardinality(OlderThan(b)) \in Nat
      BY <2>4, Sizes
  <2>6. Cardinality(OlderThan(b)) >= m
      BY <2>5
  <2>7. B \subseteq Active
      OBVIOUS
  <2> HIDE DEF B
  <2>8. Cardinality(OlderThan(b) \cup B) = Cardinality(OlderThan(b)) + Cardinality(B)
    <3>1. Cardinality(OlderThan(b) \cup B)
             = Cardinality(OlderThan(b)) + Cardinality(B) - Cardinality(OlderThan(b) \cap B)
        BY <1>1, <2>5, FS_Union
    <3>2. Cardinality(OlderThan(b) \cap B) = 0 /\ Cardinality(B) \in Nat
        BY <1>1, <2>4, FS_EmptySet, FS_CardinalityType
    <3> QED
        BY <2>5, <3>1, <3>2
  <2>9. Cardinality(OlderThan(b) \cup B) <= Cardinality(Active)
      BY <2>4, <2>7, Sizes
  <2>10. Cardinality(B) \in Nat
      BY <1>1, FS_CardinalityType
  <2> QED
      BY <1>1, <2>5, <2>6, <2>8, <2>9, <2>10 DEF B
<1> QED
    BY <1>2, <1>3

(* Nothing picked is forgotten while no older session appears.             *)
LEMMA StillPicked ==
    ASSUME IInv, IInv', NEW j \in Handlers, h'[j] = h[j], h[j].pc \in {"oldest", "retire"},
           NEW s \in Active, s \in Active', OlderThan(s)' \subseteq OlderThan(s), s \in Picked(j)
    PROVE  s \in Picked(j)'
<1>1. CASE h[j].pc = "retire"
    BY <1>1 DEF Picked
<1>2. CASE h[j].pc # "retire"
  <2>1. Cardinality(OlderThan(s)) < Surplus(h[j].n)
      BY <1>2 DEF Picked
  <2>2. IsFiniteSet(OlderThan(s)) /\ Cardinality(OlderThan(s)) \in Nat
    <3>1. OlderThan(s) \subseteq Active
        BY DEF OlderThan
    <3> QED
        BY <3>1, Sizes
  <2>3. /\ Cardinality(OlderThan(s)') <= Cardinality(OlderThan(s))
        /\ Cardinality(OlderThan(s)') \in Nat
      BY <2>2, FS_Subset, FS_CardinalityType
  <2>4. h[j].n \in Nat
      BY DEF IInv, HeldOK, Fitting, Local
  <2>5. Cardinality(OlderThan(s)') < Surplus(h'[j].n)
      BY <2>1, <2>2, <2>3, <2>4, SignInAssumption DEF Surplus
  <2> QED
      BY <1>2, <2>5 DEF Picked
<1> QED
    BY <1>1, <1>2

LEMMA FillsLess ==
    ASSUME IInv, IInv', NEW S \in SUBSET Handlers, Fills(S),
           Cardinality(Left(S)') + Cardinality(Entering') <= Cardinality(Left(S)) + Cardinality(Entering)
    PROVE  Fills(S)'
<1>1. Left(S) \in SUBSET Active /\ Left(S)' \in SUBSET Active'
    BY DEF Left
<1>2. Cardinality(Left(S)) \in Nat /\ Cardinality(Left(S)') \in Nat
  <2>1. Cardinality(Left(S)) \in Nat
      BY <1>1, Sizes
  <2>2. Cardinality(Left(S)') \in Nat
    <3>1. IsFiniteSet(Active)'
        BY ActiveFinite, PTL
    <3>2. IsFiniteSet(Active')
        BY <3>1
    <3> QED
        BY <1>1, <3>2, FS_Subset, FS_CardinalityType
  <2> QED
      BY <2>1, <2>2
<1>3. Entering \subseteq Handlers /\ Entering' \subseteq Handlers
    BY DEF Entering
<1>4. Cardinality(Entering) \in Nat /\ Cardinality(Entering') \in Nat /\ Cardinality(S) \in Nat
      /\ Cardinality(Handlers) \in Nat
    BY <1>3, Sizes
<1> QED
    BY <1>2, <1>4, SignInAssumption DEF Fills

(* Requests that do not come to the bound, and sessions that end.          *)
Deciding == {"oldest", "retire", "existing", "write"}
Elsewhere ==
    \A j \in Handlers :
        h'[j].pc \in Deciding => h'[j] = h[j] \/ (h'[j].pc = "write" /\ h[j].pc = "existing")
Fewer == Active' \subseteq Active /\ \A s \in Active : sessions'[s].token = sessions[s].token

LEMMA RoomAsBefore ==
    ASSUME IInv, IInv', Room, Elsewhere, Fewer
    PROVE  Room'
<1>1. Waiting' \subseteq Waiting /\ Entering' \subseteq Entering
    BY DEF Waiting, Entering, Elsewhere, Deciding
<1>2. ASSUME NEW s \in Active' PROVE OlderThan(s)' \subseteq OlderThan(s)
    BY DEF OlderThan, Fewer
<1>3. ASSUME NEW S \in SUBSET Waiting' PROVE Fills(S)'
  <2>1. S \in SUBSET Waiting /\ S \in SUBSET Handlers
      BY <1>1 DEF Waiting
  <2>2. ASSUME NEW s \in Left(S)' PROVE s \in Left(S)
    <3>1. s \in Active' /\ s \in Active
        BY DEF Left, Fewer
    <3>2. ASSUME NEW j \in S, s \in Picked(j) PROVE FALSE
      <4>1. j \in Handlers /\ h'[j] = h[j] /\ h[j].pc \in {"oldest", "retire"}
          BY <2>1 DEF Waiting, Elsewhere, Deciding
      <4>2. s \in Picked(j)'
          BY <1>2, <3>1, <3>2, <4>1, StillPicked
      <4> QED
          BY <2>2, <4>2 DEF Left
    <3> QED
        BY <3>1, <3>2 DEF Left
  <2>3. Left(S)' \subseteq Left(S)
      BY <2>2
  <2>4. IsFiniteSet(Left(S)) /\ IsFiniteSet(Entering)
    <3>1. Left(S) \in SUBSET Active
        BY DEF Left
    <3> QED
        BY <3>1, Sizes
  <2>5. Cardinality(Left(S)') <= Cardinality(Left(S)) /\ Cardinality(Entering') <= Cardinality(Entering)
      BY <1>1, <2>3, <2>4, FS_Subset
  <2>6. /\ Cardinality(Left(S)') \in Nat /\ Cardinality(Left(S)) \in Nat
        /\ Cardinality(Entering') \in Nat /\ Cardinality(Entering) \in Nat
      BY <1>1, <2>3, <2>4, FS_Subset, FS_CardinalityType
  <2>7. Fills(S)
      BY <2>1 DEF Room
  <2> QED
      BY <2>1, <2>5, <2>6, <2>7, FillsLess
<1> QED
    BY <1>3 DEF Room

LEMMA RequestElsewhere ==
    ASSUME IInv, NEW i \in Handlers, Request(i) \/ Abort(i)
    PROVE  Elsewhere /\ UNCHANGED sessions
<1>1. h \in [Handlers -> Local]
    BY DEF IInv, HeldOK, Fitting
<1>2. CASE Abort(i)
    BY <1>1, <1>2 DEF Abort, Finish, Elsewhere, Deciding, Idle, store
<1>3. CASE Request(i)
  <2>1. ASSUME NEW local, Begin(i, local), local.pc \notin Deciding
        PROVE  Elsewhere /\ UNCHANGED sessions
      BY <1>1, <2>1 DEF Begin, Elsewhere, store
  <2>2. CASE SendOtp(i) \/ RequestReset(i)
      BY <2>1, <2>2 DEF SendOtp, RequestReset, Idle, Deciding
  <2>3. CASE \E d \in Devices : SelectSociety(i, d)
      BY <2>1, <2>3 DEF SelectSociety, Idle, Deciding
  <2>4. CASE \E d \in Devices, c \in 0..Len(codes) : OtpLogin(i, d, c)
      BY <2>1, <2>4 DEF OtpLogin, Idle, Deciding
  <2>5. CASE \E d \in Devices, p \in 0..account.password : PasswordLogin(i, d, p)
      BY <2>1, <2>5 DEF PasswordLogin, Idle, Deciding
  <2>6. CASE \E d \in Devices, t \in DOMAIN tokens : Refresh(i, d, t)
      BY <2>1, <2>6 DEF Refresh, Idle, Deciding
  <2>7. CASE \E s \in DOMAIN sessions : ChangePassword(i, s)
      BY <2>1, <2>7 DEF ChangePassword, Idle, Deciding
  <2>8. CASE \E link \in 1..links : ResetPassword(i, link)
      BY <2>1, <2>8 DEF ResetPassword, Idle, Deciding
  <2> QED
      BY <1>3, <2>2, <2>3, <2>4, <2>5, <2>6, <2>7, <2>8 DEF Request
<1> QED
    BY <1>2, <1>3

LEMMA StepElsewhere ==
    ASSUME IInv, NEW i \in Handlers, Advance(i),
           ~Count(i), ~Oldest(i), ~Retire(i), ~Existing(i), ~Write(i)
    PROVE  Elsewhere
<1>1. h \in [Handlers -> Local]
    BY DEF IInv, HeldOK, Fitting
<1>2. ASSUME Finish(i) PROVE Elsewhere
    BY <1>1, <1>2 DEF Finish, Elsewhere, Deciding, Idle
<1>3. ASSUME NEW step, Goto(i, step), step \notin Deciding PROVE Elsewhere
    BY <1>1, <1>3 DEF Goto, Elsewhere, Local
<1>4. ASSUME NEW local, h' = [h EXCEPT ![i] = local], local.pc \notin Deciding PROVE Elsewhere
    BY <1>1, <1>4 DEF Elsewhere
<1>5. CASE CreateCode(i) \/ FailRead(i)
    BY <1>1, <1>5 DEF CreateCode, FailRead, Elsewhere, Deciding, Local
<1>6. CASE Deliver(i) \/ FailWrite(i) \/ Offer(i) \/ Stamp(i) \/ RevokeFamily(i) \/ Rotate(i)
    BY <1>2, <1>6 DEF Deliver, FailWrite, Offer, Stamp, RevokeFamily, Rotate
<1>7. CASE Verify(i)
  <2>1. CASE Finish(i)
      BY <1>2, <2>1
  <2>2. CASE ~Finish(i)
    <3>1. PICK c, tries, verdict :
             h' = [h EXCEPT ![i].pc = "consume", ![i].found = c, ![i].n = tries, ![i].verdict = verdict]
        BY <1>7, <2>2 DEF Verify
    <3> QED
        BY <1>1, <3>1 DEF Elsewhere, Deciding, Local
  <2> QED
      BY <2>1, <2>2
<1>8. CASE Consume(i) \/ ReadAccount(i)
  <2>1. Finish(i) \/ Goto(i, "account") \/ Goto(i, "count")
      BY <1>8 DEF Consume, ReadAccount
  <2> QED
      BY <1>2, <1>3, <2>1 DEF Deciding
<1>9. CASE CheckPassword(i) \/ WritePassword(i)
  <2>1. Goto(i, "account") \/ Goto(i, "fail") \/ Goto(i, "others")
      BY <1>9 DEF CheckPassword, WritePassword
  <2> QED
      BY <1>3, <2>1 DEF Deciding
<1>10. CASE FindSession(i)
  <2>1. \/ Goto(i, "family") \/ Finish(i)
        \/ \E s : h' = [h EXCEPT ![i].pc = "account", ![i].found = s]
      BY <1>10 DEF FindSession
  <2>2. ASSUME NEW s, h' = [h EXCEPT ![i].pc = "account", ![i].found = s] PROVE Elsewhere
      BY <1>1, <2>2 DEF Elsewhere, Deciding, Local
  <2> QED
      BY <1>2, <1>3, <2>1, <2>2 DEF Deciding
<1>11. CASE EndOthers(i) \/ WriteLink(i) \/ EndEveryone(i)
    BY <1>2, <1>11 DEF EndOthers, WriteLink, EndEveryone
<1>12. CASE CheckLink(i)
  <2>1. \/ Finish(i)
        \/ h' = [h EXCEPT ![i].pc = "resetting", ![i].verdict = account.status]
      BY <1>12 DEF CheckLink
  <2>2. ASSUME h' = [h EXCEPT ![i].pc = "resetting", ![i].verdict = account.status] PROVE Elsewhere
      BY <1>1, <2>2 DEF Elsewhere, Deciding, Local
  <2> QED
      BY <1>2, <2>1, <2>2
<1>13. CASE WriteReset(i)
    BY <1>3, <1>13 DEF WriteReset, Deciding
<1> QED
    BY <1>5, <1>6, <1>7, <1>8, <1>9, <1>10, <1>11, <1>12, <1>13 DEF Advance

LEMMA EndedFewer ==
    ASSUME IInv, NEW set, sessions' = Ended(set)
    PROVE  Fewer
<1>1. /\ DOMAIN sessions' = DOMAIN sessions
      /\ \A s \in DOMAIN sessions : /\ sessions'[s].token = sessions[s].token
                                    /\ sessions'[s].active => sessions[s].active
    BY EndedSessions
<1> QED
    BY <1>1 DEF Fewer, Active

LEMMA StepFewer ==
    ASSUME IInv, NEW i \in Handlers, Advance(i), ~Write(i)
    PROVE  Fewer
<1>1. CASE UNCHANGED sessions
    BY <1>1 DEF Fewer, Active
<1>2. CASE Retire(i)
    BY <1>2, EndedFewer DEF Retire
<1>3. CASE RevokeFamily(i)
    BY <1>3, EndedFewer DEF RevokeFamily
<1>4. CASE Rotate(i)
    BY <1>4, EndedFewer DEF Rotate, Rotated
<1>5. CASE EndEveryone(i)
    BY <1>5, EndedFewer DEF EndEveryone, Everyone
<1>6. CASE EndOthers(i)
  <2>1. sessions' = [s \in DOMAIN sessions |->
                       IF s = h[i].sid THEN [sessions[s] EXCEPT !.era = era + 1]
                                       ELSE [sessions[s] EXCEPT !.active = FALSE]]
      BY <1>6 DEF EndOthers
  <2>2. \A s \in DOMAIN sessions : sessions[s] \in Session
      BY DEF IInv, StoreOK
  <2>3. \A s \in DOMAIN sessions : /\ sessions'[s].token = sessions[s].token
                                   /\ sessions'[s].active => sessions[s].active
      BY <2>1, <2>2 DEF Session
  <2> QED
      BY <2>1, <2>3 DEF Fewer, Active
<1>7. CASE CreateCode(i) \/ Deliver(i) \/ Verify(i) \/ Consume(i) \/ CheckPassword(i)
           \/ FailRead(i) \/ FailWrite(i) \/ Offer(i) \/ ReadAccount(i)
    BY <1>1, <1>7 DEF CreateCode, Deliver, Verify, Consume, CheckPassword, FailRead, FailWrite, Offer,
                      ReadAccount, store
<1>8. CASE Count(i) \/ Oldest(i) \/ Existing(i) \/ Stamp(i) \/ FindSession(i) \/ WritePassword(i)
           \/ WriteLink(i) \/ CheckLink(i) \/ WriteReset(i)
    BY <1>1, <1>8 DEF Count, Oldest, Existing, Stamp, FindSession, WritePassword, WriteLink,
                      CheckLink, WriteReset, store
<1> QED
    BY <1>2, <1>3, <1>4, <1>5, <1>6, <1>7, <1>8 DEF Advance

(* A login that sees fewer sessions than the bound, or picks what is above *)
(* it, leaves room for every request there is.                             *)
LEMMA FillsAnyway ==
    ASSUME IInv', NEW S \in SUBSET Waiting', Cardinality(Left(S)') <= MaxDevices - 1
    PROVE  Fills(S)'
<1>1. IsFiniteSet(Handlers) /\ MaxDevices \in Nat
    BY SignInAssumption
<1>2. S \subseteq Handlers /\ Entering' \subseteq Handlers /\ S \cap Entering' = {}
    BY DEF Waiting, Entering
<1>3. /\ IsFiniteSet(S) /\ IsFiniteSet(Entering') /\ IsFiniteSet(S \cup Entering')
      /\ Cardinality(S \cup Entering') <= Cardinality(Handlers)
      /\ Cardinality(Handlers) \in Nat
    BY <1>1, <1>2, FS_Subset, FS_CardinalityType
<1>4. Cardinality(S \cup Entering') = Cardinality(S) + Cardinality(Entering') - Cardinality(S \cap Entering')
    BY <1>3, FS_Union
<1>5. Cardinality(S) \in Nat /\ Cardinality(Entering') \in Nat /\ Cardinality(S \cap Entering') = 0
    BY <1>2, <1>3, FS_CardinalityType, FS_EmptySet
<1>6. Cardinality(Left(S)') \in Nat
  <2>1. IsFiniteSet(Active)'
      BY ActiveFinite, PTL
  <2>2. Left(S)' \subseteq Active'
      BY DEF Left
  <2> QED
      BY <2>1, <2>2, FS_Subset, FS_CardinalityType
<1> QED
    BY <1>1, <1>3, <1>4, <1>5, <1>6 DEF Fills

LEMMA CountRoom ==
    ASSUME IInv, IInv', Room, NEW i \in Handlers, Count(i)
    PROVE  Room'
<1>1. /\ h \in [Handlers -> Local] /\ h[i].pc = "count" /\ UNCHANGED <<sessions, Active>>
    BY DEF Count, At, store, Active, IInv, HeldOK, Fitting
<1>2. Cardinality(Active) \in Nat /\ MaxDevices \in Nat \ {0}
    BY Sizes, SignInAssumption
<1>3. \A s \in Active : OlderThan(s)' = OlderThan(s)
    BY <1>1 DEF OlderThan
<1>4. \A j \in Handlers : j # i => h'[j] = h[j]
    BY <1>1 DEF Count
<1>5. h'[i].n = Cardinality(Active)
      /\ h'[i].pc = IF Cardinality(Active) >= MaxDevices THEN "oldest" ELSE "existing"
    BY <1>1 DEF Count, Local
<1>6. ASSUME NEW S \in SUBSET Waiting' PROVE Fills(S)'
  <2>1. CASE Cardinality(Active) < MaxDevices
    <3>1. Left(S)' \subseteq Active
        BY <1>1 DEF Left
    <3>2. Cardinality(Left(S)') <= Cardinality(Active) /\ Cardinality(Left(S)') \in Nat
        BY <3>1, Sizes
    <3> QED
        BY <1>2, <2>1, <3>2, FillsAnyway
  <2>2. CASE ~(Cardinality(Active) < MaxDevices) /\ i \in S
    <3>1. PICK m \in Nat : m = Cardinality(Active) - MaxDevices + 1
        BY <1>2, <2>2
    <3>2. m <= Cardinality(Active) /\ Surplus(h'[i].n) = m
        BY <1>2, <1>5, <3>1 DEF Surplus
    <3>3. PICK B : B = {s \in Active : ~(Cardinality(OlderThan(s)) < m)}
        OBVIOUS
    <3>4. Left(S)' \subseteq B
        BY <1>1, <1>2, <1>3, <1>5, <2>2, <3>2, <3>3 DEF Left, Picked
    <3>5. Cardinality(B) <= Cardinality(Active) - m
        BY <3>2, <3>3, PickedEnough
    <3>6. IsFiniteSet(B)
      <4>1. B \in SUBSET Active
          BY <3>3
      <4> QED
          BY <4>1, Sizes
    <3>7. Cardinality(Left(S)') <= Cardinality(B) /\ Cardinality(Left(S)') \in Nat
          /\ Cardinality(B) \in Nat
        BY <3>4, <3>6, FS_Subset, FS_CardinalityType
    <3> QED
        BY <1>2, <3>1, <3>5, <3>7, FillsAnyway
  <2>3. CASE ~(Cardinality(Active) < MaxDevices) /\ i \notin S
    <3>1. S \in SUBSET Waiting /\ S \in SUBSET Handlers
        BY <1>4, <2>3 DEF Waiting
    <3>2. Entering' = Entering
        BY <1>1, <1>2, <1>4, <1>5, <2>3 DEF Entering
    <3>3. \A j \in S : Picked(j)' = Picked(j)
        BY <1>1, <1>3, <1>4, <2>3, <3>1 DEF Picked
    <3>4. Left(S)' = Left(S)
        BY <1>1, <3>3 DEF Left
    <3>5. Fills(S)
        BY <3>1 DEF Room
    <3> QED
        BY <3>2, <3>4, <3>5 DEF Fills
  <2> QED
      BY <2>1, <2>2, <2>3
<1> QED
    BY <1>6 DEF Room

LEMMA OldestRoom ==
    ASSUME IInv, Room, NEW i \in Handlers, Oldest(i)
    PROVE  Room'
<1>1. /\ h \in [Handlers -> Local] /\ h[i].pc = "oldest" /\ UNCHANGED <<sessions, Active>>
    BY DEF Oldest, At, store, Active, IInv, HeldOK, Fitting
<1>2. h' = [h EXCEPT ![i].pc = "retire", ![i].list = Picked(i)]
    BY <1>1 DEF Oldest, Picked, OlderThan
<1>3. h'[i].pc = "retire" /\ h'[i].list = Picked(i) /\ \A j \in Handlers : j # i => h'[j] = h[j]
    BY <1>1, <1>2 DEF Local
<1>4. Waiting' = Waiting /\ Entering' = Entering
    BY <1>1, <1>3 DEF Waiting, Entering
<1>5. \A s \in Active : OlderThan(s)' = OlderThan(s)
    BY <1>1 DEF OlderThan
<1>6. \A j \in Waiting : Picked(j)' = Picked(j)
  <2>1. Picked(i)' = Picked(i)
      BY <1>3 DEF Picked
  <2>2. \A j \in Waiting : j # i => Picked(j)' = Picked(j)
      BY <1>1, <1>3, <1>5 DEF Picked, Waiting
  <2> QED
      BY <2>1, <2>2
<1>7. \A S \in SUBSET Waiting : Left(S)' = Left(S)
    BY <1>1, <1>6 DEF Left
<1> QED
    BY <1>4, <1>7 DEF Room, Fills

LEMMA RetireRoom ==
    ASSUME IInv, IInv', Room, NEW i \in Handlers, Retire(i)
    PROVE  Room'
<1>1. h \in [Handlers -> Local] /\ h[i].pc = "retire" /\ sessions' = Ended(h[i].list)
    BY DEF Retire, At, IInv, HeldOK, Fitting
<1>2. h'[i].pc = "existing" /\ \A j \in Handlers : j # i => h'[j] = h[j]
    BY <1>1 DEF Retire, Local
<1>3. Fewer /\ Active' \subseteq Active \ h[i].list
  <2>1. /\ DOMAIN sessions' = DOMAIN sessions
        /\ \A s \in DOMAIN sessions : sessions'[s].active => sessions[s].active /\ s \notin h[i].list
      BY <1>1, EndedSessions
  <2> QED
      BY <1>1, <2>1, EndedFewer DEF Active
<1>4. ASSUME NEW s \in Active' PROVE OlderThan(s)' \subseteq OlderThan(s)
    BY <1>3 DEF OlderThan, Fewer
<1>5. Entering' = Entering \cup {i} /\ i \notin Entering /\ i \in Waiting /\ Waiting' = Waiting \ {i}
    BY <1>1, <1>2 DEF Entering, Waiting
<1>6. IsFiniteSet(Entering) /\ Cardinality(Entering) \in Nat /\ Cardinality(Handlers) \in Nat
    BY Sizes
<1>7. Cardinality(Entering') = Cardinality(Entering) + 1
    BY <1>5, <1>6, FS_AddElement
<1>8. ASSUME NEW S \in SUBSET Waiting' PROVE Fills(S)'
  <2>1. S \in SUBSET Waiting /\ i \notin S /\ S \in SUBSET Handlers
      BY <1>5 DEF Waiting
  <2>2. PICK T : T = S \cup {i}
      OBVIOUS
  <2>3. T \in SUBSET Waiting /\ IsFiniteSet(S) /\ Cardinality(S) \in Nat
      BY <1>5, <2>1, <2>2, Sizes
  <2>4. Cardinality(T) = Cardinality(S) + 1
      BY <2>1, <2>2, <2>3, FS_AddElement
  <2>5. ASSUME NEW s \in Left(S)' PROVE s \in Left(T)
    <3>1. s \in Active' /\ s \in Active /\ s \notin Picked(i)
        BY <1>1, <1>3 DEF Left, Picked
    <3>2. ASSUME NEW j \in S, s \in Picked(j) PROVE FALSE
      <4>1. j \in Handlers /\ h'[j] = h[j] /\ h[j].pc \in {"oldest", "retire"}
          BY <1>2, <2>1 DEF Waiting
      <4>2. s \in Picked(j)'
          BY <1>4, <3>1, <3>2, <4>1, StillPicked
      <4> QED
          BY <2>5, <4>2 DEF Left
    <3> QED
        BY <2>2, <3>1, <3>2 DEF Left
  <2>6. Left(S)' \subseteq Left(T)
      BY <2>5
  <2>7. Left(T) \in SUBSET Active
      BY DEF Left
  <2>8. IsFiniteSet(Left(T)) /\ Cardinality(Left(T)) \in Nat
      BY <2>7, Sizes
  <2>9. Cardinality(Left(S)') <= Cardinality(Left(T)) /\ Cardinality(Left(S)') \in Nat
      BY <2>6, <2>8, FS_Subset, FS_CardinalityType
  <2>10. Fills(T)
      BY <2>3 DEF Room
  <2>11. MaxDevices \in Nat
      BY SignInAssumption
  <2> QED
      BY <1>6, <1>7, <2>3, <2>4, <2>8, <2>9, <2>10, <2>11 DEF Fills
<1> QED
    BY <1>8 DEF Room

LEMMA ExistingRoom ==
    ASSUME IInv, IInv', Room, NEW i \in Handlers, Existing(i)
    PROVE  Room'
<1>1. h \in [Handlers -> Local] /\ h[i].pc = "existing"
    BY DEF Existing, At, IInv, HeldOK, Fitting
<1>2. PICK sid : h' = [h EXCEPT ![i].pc = "write", ![i].sid = sid]
    BY DEF Existing
<1>3. Elsewhere
    BY <1>1, <1>2 DEF Elsewhere, Local
<1>4. Fewer
    BY DEF Existing, store, Fewer, Active
<1> QED
    BY <1>3, <1>4, RoomAsBefore

(* The session that is written carries the newest token, so nothing that   *)
(* was picked is spared for it.                                            *)
LEMMA WriteRoom ==
    ASSUME IInv, IInv', Room, NEW i \in Handlers, Write(i)
    PROVE  Room'
<1>1. /\ h \in [Handlers -> Local] /\ h[i].pc = "write" /\ h[i].sid \in 0..Len(sessions)
      /\ sessions \in Seq(Session) /\ tokens \in Seq(Token)
    BY DEF Write, At, IInv, StoreOK, HeldOK, Fitting, Tied
<1>2. /\ DOMAIN sessions = 1..Len(sessions) /\ Len(sessions) \in Nat
      /\ DOMAIN tokens = 1..Len(tokens) /\ Len(tokens) \in Nat
    BY <1>1
<1>3. PICK sid, token, session :
         /\ sid = IF h[i].sid = 0 THEN Len(sessions) + 1 ELSE h[i].sid
         /\ token = Len(tokens) + 1
         /\ session = [device |-> h[i].d, token |-> token, active |-> TRUE, era |-> era]
    OBVIOUS
<1>4. sessions' = IF h[i].sid = 0 THEN Append(sessions, session)
                                  ELSE [sessions EXCEPT ![sid] = session]
    BY <1>3 DEF Write
<1>5. /\ sid \in DOMAIN sessions' /\ sessions'[sid].token = token
      /\ \A s \in DOMAIN sessions' : s # sid => s \in DOMAIN sessions /\ sessions'[s] = sessions[s]
  <2>1. CASE h[i].sid = 0
      BY <1>1, <1>2, <1>3, <1>4, <2>1
  <2>2. CASE h[i].sid # 0
      BY <1>1, <1>2, <1>3, <1>4, <2>2
  <2> QED
      BY <2>1, <2>2
<1>6. \A s \in Active' : s # sid => s \in Active /\ sessions'[s] = sessions[s]
    BY <1>5 DEF Active
<1>7. \A s \in Active : sessions[s].token \in Nat /\ sessions[s].token < token
    BY <1>2, <1>3, ActiveFinite
<1>8. ASSUME NEW s \in Active', s # sid PROVE OlderThan(s)' \subseteq OlderThan(s)
  <2>1. ASSUME NEW r \in Active', sessions'[r].token < sessions'[s].token
        PROVE  r \in OlderThan(s)
    <3>1. s \in Active /\ sessions'[s] = sessions[s] /\ sessions[s].token < token
          /\ sessions[s].token \in Nat /\ token \in Nat
        BY <1>2, <1>3, <1>6, <1>7, <1>8
    <3>2. r # sid
        BY <1>5, <2>1, <3>1
    <3> QED
        BY <1>6, <2>1, <3>1, <3>2 DEF OlderThan
  <2> QED
      BY <2>1 DEF OlderThan
<1>9. h'[i].pc \notin Deciding /\ \A j \in Handlers : j # i => h'[j] = h[j]
    BY <1>1 DEF Write, Local, Deciding
<1>10. Entering' = Entering \ {i} /\ i \in Entering /\ Waiting' = Waiting
    BY <1>1, <1>9 DEF Entering, Waiting, Deciding
<1>11. IsFiniteSet(Entering) /\ Cardinality(Entering) \in Nat
    BY Sizes
<1>12. Cardinality(Entering') = Cardinality(Entering) - 1
    BY <1>10, <1>11, FS_RemoveElement
<1>13. ASSUME NEW S \in SUBSET Waiting' PROVE Fills(S)'
  <2>1. S \in SUBSET Waiting /\ S \in SUBSET Handlers /\ i \notin S
      BY <1>1, <1>10 DEF Waiting
  <2>2. ASSUME NEW s \in Left(S)', s # sid PROVE s \in Left(S)
    <3>1. s \in Active' /\ s \in Active
        BY <1>6, <2>2 DEF Left
    <3>2. ASSUME NEW j \in S, s \in Picked(j) PROVE FALSE
      <4>1. j \in Handlers /\ h'[j] = h[j] /\ h[j].pc \in {"oldest", "retire"}
          BY <1>9, <2>1 DEF Waiting
      <4>2. s \in Picked(j)'
          BY <1>8, <2>2, <3>1, <3>2, <4>1, StillPicked
      <4> QED
          BY <2>2, <4>2 DEF Left
    <3> QED
        BY <3>1, <3>2 DEF Left
  <2>3. Left(S)' \subseteq Left(S) \cup {sid}
      BY <2>2
  <2>4. Left(S) \in SUBSET Active
      BY DEF Left
  <2>5. IsFiniteSet(Left(S)) /\ Cardinality(Left(S)) \in Nat
      BY <2>4, Sizes
  <2>6. /\ IsFiniteSet(Left(S) \cup {sid}) /\ Cardinality(Left(S) \cup {sid}) \in Nat
        /\ Cardinality(Left(S) \cup {sid}) <= Cardinality(Left(S)) + 1
    <3>1. /\ IsFiniteSet(Left(S) \cup {sid})
          /\ Cardinality(Left(S) \cup {sid})
                = IF sid \in Left(S) THEN Cardinality(Left(S)) ELSE Cardinality(Left(S)) + 1
        BY <2>5, FS_AddElement
    <3> QED
        BY <2>5, <3>1
  <2>7. Cardinality(Left(S)') <= Cardinality(Left(S) \cup {sid}) /\ Cardinality(Left(S)') \in Nat
      BY <2>3, <2>6, FS_Subset, FS_CardinalityType
  <2>8. Fills(S)
      BY <2>1 DEF Room
  <2> QED
      BY <1>11, <1>12, <2>1, <2>5, <2>6, <2>7, <2>8, FillsLess
<1> QED
    BY <1>10, <1>13 DEF Room

LEMMA RoomInit == Init => Room
<1> SUFFICES ASSUME Init PROVE Room
    OBVIOUS
<1>1. PICK d \in Devices : sessions = <<[device |-> d, token |-> 1, active |-> TRUE, era |-> 0]>>
    BY DEF Init
<1>2. IInv
    BY InvInit
<1>3. Waiting = {} /\ Entering = {}
    BY DEF Init, Waiting, Entering, Idle
<1>4. Cardinality(Active) = 1
  <2>1. Active = {1}
      BY <1>1 DEF Active
  <2> QED
      BY <2>1, FS_Singleton
<1>5. Cardinality(Handlers) \in Nat \ {0} /\ MaxDevices \in Nat \ {0}
    BY SignInAssumption, FS_CardinalityType, FS_EmptySet
<1>6. ASSUME NEW S \in SUBSET Waiting PROVE Fills(S)
  <2>1. Cardinality(S) = 0 /\ Cardinality(Entering) = 0
      BY <1>3, FS_EmptySet
  <2>2. Left(S) \in SUBSET Active
      BY DEF Left
  <2>3. Cardinality(Left(S)) \in Nat /\ Cardinality(Left(S)) <= 1
      BY <1>2, <1>4, <2>2, Sizes
  <2> QED
      BY <1>5, <2>1, <2>3 DEF Fills
<1> QED
    BY <1>6 DEF Room

LEMMA RoomNext == IInv /\ IInv' /\ Room /\ [Next]_vars => Room'
<1> SUFFICES ASSUME IInv, IInv', Room, [Next]_vars PROVE Room'
    OBVIOUS
<1>1. ASSUME UNCHANGED h PROVE Elsewhere
    BY <1>1 DEF Elsewhere
<1>2. ASSUME UNCHANGED sessions PROVE Fewer
    BY <1>2 DEF Fewer, Active
<1>3. ASSUME NEW i \in Handlers, Request(i) \/ Abort(i) PROVE Room'
    BY <1>2, <1>3, RequestElsewhere, RoomAsBefore
<1>4. ASSUME NEW i \in Handlers, Advance(i) PROVE Room'
    BY <1>4, StepElsewhere, StepFewer, RoomAsBefore, CountRoom, OldestRoom, RetireRoom,
       ExistingRoom, WriteRoom
<1>5. CASE \E s \in DOMAIN sessions : EndSession(s)
    BY <1>1, <1>5, EndedFewer, RoomAsBefore DEF EndSession
<1>6. CASE LogoutAll
    BY <1>1, <1>6, EndedFewer, RoomAsBefore DEF LogoutAll
<1>7. CASE SetPassword \/ \E status \in {"ACTIVE", "INACTIVE"} : SetStatus(status)
    BY <1>1, <1>2, <1>7, RoomAsBefore DEF SetPassword, SetStatus
<1>8. CASE UNCHANGED vars
    BY <1>1, <1>2, <1>8, RoomAsBefore DEF vars
<1> QED
    BY <1>3, <1>4, <1>5, <1>6, <1>7, <1>8 DEF Next

(* However many logins count, retire and write side by side, and even when *)
(* they retire the same sessions, the active ones exceed the bound on      *)
(* devices by no more than one for each request but one that is served at  *)
(* the same time (authService.ts 112-177).                                 *)
THEOREM DevicesBoundedCorrect == Spec => []DevicesBounded
<1>1. IInv /\ Room => DevicesBounded
  <2> SUFFICES ASSUME IInv, Room PROVE DevicesBounded
      OBVIOUS
  <2>1. Fills({})
      BY DEF Room
  <2>2. Left({}) = Active
      BY DEF Left
  <2>3. Cardinality({}) = 0 /\ Cardinality(Active) \in Nat /\ Cardinality(Entering) \in Nat
        /\ Cardinality(Handlers) \in Nat /\ MaxDevices \in Nat
      BY FS_EmptySet, Sizes, SignInAssumption
  <2> QED
      BY <2>1, <2>2, <2>3 DEF Fills, DevicesBounded
<1>2. Spec => []Room
    BY InvAlways, RoomInit, RoomNext, PTL DEF Spec
<1> QED
    BY <1>1, <1>2, InvAlways, PTL
=============================================================================
