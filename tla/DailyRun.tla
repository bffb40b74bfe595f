------------------------------ MODULE DailyRun ------------------------------
(***************************************************************************)
(* The daily maintenance of one society (scheduler.ts): replicas tick, and *)
(* administrators run the task by hand, all at the same moment; the day is *)
(* claimed with an upsert that writes a token, and whoever finds its own   *)
(* token in the document does the work.                                    *)
(*                                                                         *)
(* Whether the token is stored is up to the driver.  The embedded one      *)
(* stores any field; the mongoose schema of scheduler_runs has no claimId  *)
(* and is strict, so on MongoDB the field is dropped from the update.      *)
(***************************************************************************)
EXTENDS Naturals

CONSTANTS
    Replicas,       \* callers of runDaily that may be under way at once
    LastDay,        \* bound: days in a behaviour
    MaxCalls,       \* bound: calls of runDaily in a behaviour
    StoresToken     \* whether the driver stores claimId

ASSUME DailyRunAssumption ==
    /\ LastDay \in Nat /\ MaxCalls \in Nat
    /\ StoresToken \in BOOLEAN

VARIABLES
    today,       \* the society's local day, 0 before the first
    afterHour,   \* the local hour is past DAILY_RUN_AFTER_HOUR
    run,         \* the scheduler_runs documents
    call,        \* what each call of runDaily under way holds
    calls,       \* calls started; its value is the next call's claim token
    fees,        \* history: late-fee sweeps started for each day
    done,        \* history: the jobs of each day that went through
    failures     \* history: calls that threw, died or could not record

dailyVars == <<today, afterHour, run, call, calls, fees, done, failures>>

Days == 1..LastDay

-----------------------------------------------------------------------------
RunStatus == {"NONE", "RUNNING", "COMPLETED", "FAILED"}
CallSteps == {"idle", "claim", "fees", "reminders", "completed", "failed"}

(* Tokens start at 1; 0 is a document without one.                         *)
Call == [pc : CallSteps, day : 0..LastDay, token : Nat]
NoCall == [pc |-> "idle", day |-> 0, token |-> 0]
NoRun == [status |-> "NONE", claimId |-> 0]

DailyTypeOK ==
    /\ today \in 0..LastDay
    /\ afterHour \in BOOLEAN
    /\ afterHour => today \in Days
    /\ run \in [Days -> [status : RunStatus, claimId : Nat]]
    /\ call \in [Replicas -> Call]
    /\ \A i \in Replicas : call[i].pc # "idle" => call[i].day \in Days
    /\ calls \in 0..MaxCalls
    /\ fees \in [Days -> Nat]
    /\ done \in [Days -> SUBSET {"fees", "reminders"}]
    /\ failures \in Nat

DailyInit ==
    /\ today = 0
    /\ afterHour = FALSE
    /\ run = [d \in Days |-> NoRun]
    /\ call = [i \in Replicas |-> NoCall]
    /\ calls = 0
    /\ fees = [d \in Days |-> 0]
    /\ done = [d \in Days |-> {}]
    /\ failures = 0

-----------------------------------------------------------------------------
(* The clock of the society: midnight, then the hour the run waits for.    *)
Midnight ==
    /\ today < LastDay
    /\ today' = today + 1
    /\ afterHour' = FALSE
    /\ UNCHANGED <<run, call, calls, fees, done, failures>>

Hour ==
    /\ today > 0 /\ ~afterHour
    /\ afterHour' = TRUE
    /\ UNCHANGED <<today, run, call, calls, fees, done, failures>>

(* The day is fixed when the call starts, however long the societies that  *)
(* come first take.                                                        *)
Tick(i) ==
    /\ call[i].pc = "idle"
    /\ afterHour
    /\ calls < MaxCalls
    /\ calls' = calls + 1
    /\ call' = [call EXCEPT ![i] = [pc |-> "claim", day |-> today, token |-> calls + 1]]
    /\ UNCHANGED <<today, afterHour, run, fees, done, failures>>

(* The document the upsert leaves: the unique index admits one a day, and  *)
(* $setOnInsert writes nothing into one that exists.                       *)
Upserted(i) ==
    LET d == call[i].day IN
    IF run[d].status = "NONE"
      THEN [status |-> "RUNNING", claimId |-> IF StoresToken THEN call[i].token ELSE 0]
      ELSE run[d]

(* Mutant of Won: the caller that finds a running day takes it for its own. *)
WonIfRunning(i) == Upserted(i).status = "RUNNING"

Won(i) == Upserted(i).claimId = call[i].token

Claim(i) ==
    /\ call[i].pc = "claim"
    /\ run' = [run EXCEPT ![call[i].day] = Upserted(i)]
    /\ call' = [call EXCEPT ![i] = IF Won(i) THEN [@ EXCEPT !.pc = "fees"] ELSE NoCall]
    /\ UNCHANGED <<today, afterHour, calls, fees, done, failures>>

(* applyLateFees and sendBillReminders, either of which may throw part way. *)
Goes(i, job, next) ==
    \/ /\ call' = [call EXCEPT ![i].pc = next]
       /\ done' = [done EXCEPT ![call[i].day] = @ \cup {job}]
    \/ /\ call' = [call EXCEPT ![i].pc = "failed"]
       /\ UNCHANGED done

LateFees(i) ==
    /\ call[i].pc = "fees"
    /\ fees' = [fees EXCEPT ![call[i].day] = @ + 1]
    /\ Goes(i, "fees", "reminders")
    /\ UNCHANGED <<today, afterHour, run, calls, failures>>

Reminders(i) ==
    /\ call[i].pc = "reminders"
    /\ Goes(i, "reminders", "completed")
    /\ UNCHANGED <<today, afterHour, run, calls, fees, failures>>

(* Mutant of Outcome: the outcome is recorded by the caller's word for it. *)
OutcomeAsIs(i) == call[i].pc

(* Mutant of Outcome: the outcome of a call that threw is not kept.        *)
OutcomeDropped(i) == "COMPLETED"

Outcome(i) == IF call[i].pc = "failed" THEN "FAILED" ELSE "COMPLETED"

(* Mutant of Ending: only the branch that throws records the outcome.      *)
EndingFailed == {"failed"}

Ending == {"completed", "failed"}

(* finishDailyRun: by the key of the day, without the token.               *)
Record(i) ==
    /\ call[i].pc \in Ending
    /\ run' = [run EXCEPT ![call[i].day].status = Outcome(i)]
    /\ failures' = IF Outcome(i) = "FAILED" THEN failures + 1 ELSE failures
    /\ call' = [call EXCEPT ![i] = NoCall]
    /\ UNCHANGED <<today, afterHour, calls, fees, done>>

(* The process dies, or finishDailyRun fails and its error is only logged. *)
Die(i) ==
    /\ call[i].pc # "idle"
    /\ call' = [call EXCEPT ![i] = NoCall]
    /\ failures' = failures + 1
    /\ UNCHANGED <<today, afterHour, run, calls, fees, done>>

Work(i) == Claim(i) \/ LateFees(i) \/ Reminders(i) \/ Record(i)

DailyNext ==
    \/ Midnight \/ Hour
    \/ \E i \in Replicas : Tick(i) \/ Work(i) \/ Die(i)

DailySpec == DailyInit /\ [][DailyNext]_dailyVars

(* A call under way goes on: its awaits settle.                            *)
DailyFairSpec == DailySpec /\ \A i \in Replicas : WF_dailyVars(Work(i))

-----------------------------------------------------------------------------
(* Late fees are swept at most once for a society and a day, whichever     *)
(* replicas tick together, die or are run by hand (scheduler.ts 15-18).    *)
AtMostOncePerDay == \A d \in Days : fees[d] <= 1

(* The row tells what was done: a day recorded as COMPLETED had its fees   *)
(* swept and its reminders sent, although the outcome is written by the    *)
(* key of the day and by no token (scheduler.ts 286-295).                  *)
OutcomeIsTrue ==
    \A d \in Days : run[d].status = "COMPLETED" => done[d] = {"fees", "reminders"}

(* A claimed day comes to its end unless the claimant dies: nobody claims  *)
(* a day and leaves it alone (scheduler.ts 136).                           *)
ClaimEnds ==
    \A d \in Days :
        run[d].status = "RUNNING" ~> run[d].status # "RUNNING" \/ failures > 0

(* The claim of the file's header: the token of the process that inserted  *)
(* the row survives, so that process does the work (scheduler.ts 15-18).   *)
ClaimHasWinner ==
    \A d \in Days :
        run[d].status = "RUNNING" /\ failures = 0 =>
            \E i \in Replicas : call[i].day = d /\ call[i].pc \in Ending \cup {"fees", "reminders"}
=============================================================================
