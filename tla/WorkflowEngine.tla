--------------------------- MODULE WorkflowEngine ---------------------------
(***************************************************************************)
(* WorkflowEngine.executeWorkflow as a consumer of the outbox: one event,  *)
(* the workflow it triggers, and the deliveries of the event, which come   *)
(* one after another or, when a slow worker is overtaken, side by side.    *)
(*                                                                         *)
(* Two (workflow, event) pairs share no row, so one pair stands for all.   *)
(* A delivery writes at most one WorkflowExecution row and one log row for *)
(* each step; both are kept under the number of the delivery.              *)
(*                                                                         *)
(* What may go wrong is counted: a step that throws, a statement that      *)
(* fails, a delivery although the last one has not failed, a dead process. *)
(***************************************************************************)
EXTENDS Naturals, FiniteSets

CONSTANTS
    MaxDeliveries,    \* how often the outbox hands the event over
    NumSteps,         \* steps of the workflow, in order
    ContinueOnError,  \* steps whose failure does not end the run
    Keyed,            \* steps whose effect has an idempotency key of its own
    MaxFaults,        \* faults there may be
    CanCrash          \* whether a process may die

Deliveries == 1 .. MaxDeliveries
Steps == 1 .. NumSteps

ASSUME EngineAssumption ==
    /\ MaxDeliveries \in Nat /\ NumSteps \in Nat /\ MaxFaults \in Nat
    /\ ContinueOnError \subseteq Steps /\ Keyed \subseteq Steps
    /\ CanCrash \in BOOLEAN

VARIABLES
    exec,     \* WorkflowExecution.status of the delivery's row
    log,      \* WorkflowStepExecution.status of its steps
    effects,  \* how often a step took effect
    pc,       \* where the delivery stands
    at,       \* the step it is at
    errors,   \* the steps that failed in it
    answer,   \* what it returned to the outbox
    faults    \* faults so far

rows == <<exec, log, effects>>
vars == <<rows, pc, at, errors, answer, faults>>

RowStatus == {"NONE", "RUNNING", "SUCCESS", "FAILED"}

TypeOK ==
    /\ exec \in [Deliveries -> RowStatus]
    /\ log \in [Deliveries -> [Steps -> RowStatus]]
    /\ effects \in [Steps -> Nat]
    /\ pc \in [Deliveries -> {"none", "claim", "step", "effect", "succeeded",
                              "failed", "finish", "abort", "done", "dead"}]
    /\ at \in [Deliveries -> 1 .. NumSteps + 1]
    /\ errors \in [Deliveries -> SUBSET Steps]
    /\ answer \in [Deliveries -> {"none", "ok", "error"}]
    /\ faults \in 0 .. MaxFaults

Init ==
    /\ exec = [r \in Deliveries |-> "NONE"]
    /\ log = [r \in Deliveries |-> [s \in Steps |-> "NONE"]]
    /\ effects = [s \in Steps |-> 0]
    /\ pc = [r \in Deliveries |-> "none"]
    /\ at = [r \in Deliveries |-> 1]
    /\ errors = [r \in Deliveries |-> {}]
    /\ answer = [r \in Deliveries |-> "none"]
    /\ faults = 0

Live(r) == pc[r] \notin {"none", "done", "dead"}
Succeeded(s) == \E r \in Deliveries : log[r][s] = "SUCCESS"

Fault == faults < MaxFaults /\ faults' = faults + 1
Goto(r, place) == pc' = [pc EXCEPT ![r] = place]

Answer(r, result) ==
    /\ answer' = [answer EXCEPT ![r] = result]
    /\ Goto(r, "done")

-----------------------------------------------------------------------------
(* The outbox hands the event over again when the last delivery failed or  *)
(* its process is dead; if neither is so, a worker was overtaken or could  *)
(* not mark the row.                                                       *)
Deliver(r) ==
    /\ pc[r] = "none"
    /\ r > 1 => pc[r - 1] # "none"
    /\ IF r > 1 => pc[r - 1] = "dead" \/ answer[r - 1] = "error"
       THEN UNCHANGED faults ELSE Fault
    /\ Goto(r, "claim")
    /\ UNCHANGED <<rows, at, errors, answer>>

\* Mutant: a running execution does not stand in the way.
BlockingSuccess == {q \in Deliveries : exec[q] = "SUCCESS"}

Blocking == {q \in Deliveries : exec[q] \in {"RUNNING", "SUCCESS"}}

(* The claim under the advisory lock.  A delivery that finds an execution  *)
(* running is refused, one that finds it finished has nothing to do.       *)
Claim(r) ==
    /\ pc[r] = "claim"
    /\ \/ /\ Blocking = {}
          /\ exec' = [exec EXCEPT ![r] = "RUNNING"]
          /\ Goto(r, "step")
          /\ UNCHANGED answer
       \/ \E q \in Blocking :
            /\ Answer(r, IF exec[q] = "SUCCESS" THEN "ok" ELSE "error")
            /\ UNCHANGED exec
    /\ UNCHANGED <<log, effects, at, errors, faults>>

\* Mutant: only the delivery's own log is looked at.
SkippedOwn(r, s) == log[r][s] = "SUCCESS"

Skipped(r, s) == Succeeded(s)

(* The next step: logged as a success without being run when an earlier    *)
(* delivery has completed it.                                              *)
NextStep(r) ==
    LET s == at[r]
    IN  /\ pc[r] = "step"
        /\ IF s \notin Steps
           THEN Goto(r, "finish") /\ UNCHANGED <<log, at>>
           ELSE IF Skipped(r, s)
           THEN /\ log' = [log EXCEPT ![r][s] = "SUCCESS"]
                /\ at' = [at EXCEPT ![r] = s + 1]
                /\ UNCHANGED pc
           ELSE /\ log' = [log EXCEPT ![r][s] = "RUNNING"]
                /\ Goto(r, "effect")
                /\ UNCHANGED at
        /\ UNCHANGED <<exec, effects, errors, answer, faults>>

Took(s) ==
    effects' = [effects EXCEPT ![s] = IF s \in Keyed /\ @ > 0 THEN @ ELSE @ + 1]

(* executeStep succeeds, throws, or throws after it took effect. *)
RunStep(r) ==
    /\ pc[r] = "effect"
    /\ \/ Took(at[r]) /\ Goto(r, "succeeded") /\ UNCHANGED faults
       \/ /\ Took(at[r]) \/ UNCHANGED effects
          /\ Goto(r, "failed") /\ Fault
    /\ UNCHANGED <<exec, log, at, errors, answer>>

LogSuccess(r) ==
    /\ pc[r] = "succeeded"
    /\ log' = [log EXCEPT ![r][at[r]] = "SUCCESS"]
    /\ at' = [at EXCEPT ![r] = @ + 1]
    /\ Goto(r, "step")
    /\ UNCHANGED <<exec, effects, errors, answer, faults>>

LogFailure(r) ==
    LET s == at[r]
    IN  /\ pc[r] = "failed"
        /\ log' = [log EXCEPT ![r][s] = "FAILED"]
        /\ errors' = [errors EXCEPT ![r] = @ \cup {s}]
        /\ IF s \in ContinueOnError
           THEN at' = [at EXCEPT ![r] = s + 1] /\ Goto(r, "step")
           ELSE Goto(r, "abort") /\ UNCHANGED at
        /\ UNCHANGED <<exec, effects, answer, faults>>

\* Mutant: a step that need not succeed is forgotten.
VerdictLenient(failed) == IF failed \subseteq ContinueOnError THEN "SUCCESS" ELSE "FAILED"

\* Mutant: a status the table does not know.
VerdictPartial(failed) ==
    IF failed = {} THEN "SUCCESS"
    ELSE IF failed \subseteq ContinueOnError THEN "COMPLETED_WITH_ERRORS" ELSE "FAILED"

Verdict(failed) == IF failed = {} THEN "SUCCESS" ELSE "FAILED"

(* The end of the loop: the outbox hears of every failed step. *)
Finish(r) ==
    /\ pc[r] = "finish"
    /\ exec' = [exec EXCEPT ![r] = Verdict(errors[r])]
    /\ Answer(r, IF Verdict(errors[r]) = "SUCCESS" THEN "ok" ELSE "error")
    /\ UNCHANGED <<log, effects, at, errors, faults>>

\* Mutant: the execution is left as it is.
AbortedRunning == "RUNNING"

Aborted == "FAILED"

Abort(r) ==
    /\ pc[r] = "abort"
    /\ exec' = [exec EXCEPT ![r] = Aborted]
    /\ Answer(r, "error")
    /\ UNCHANGED <<log, effects, at, errors, faults>>

(* A statement fails.  Inside the loop the error ends in the catch block   *)
(* of the step or of the run; before and after it in the outbox.           *)
StatementFails(r) ==
    /\ Fault
    /\ \/ pc[r] \in {"claim", "abort"} /\ Answer(r, "error")
       \/ pc[r] = "succeeded" /\ Goto(r, "failed") /\ UNCHANGED answer
       \/ pc[r] \in {"step", "failed", "finish"} /\ Goto(r, "abort") /\ UNCHANGED answer
    /\ UNCHANGED <<rows, at, errors>>

(* The process dies and leaves its rows as they are. *)
Crash(r) ==
    /\ CanCrash
    /\ Live(r)
    /\ Fault
    /\ Goto(r, "dead")
    /\ UNCHANGED <<rows, at, errors, answer>>

-----------------------------------------------------------------------------
Work(r) ==
    \/ Claim(r) \/ NextStep(r) \/ RunStep(r)
    \/ LogSuccess(r) \/ LogFailure(r) \/ Finish(r) \/ Abort(r)

Next ==
    \E r \in Deliveries : Deliver(r) \/ Work(r) \/ StatementFails(r) \/ Crash(r)

(* The outbox redelivers what failed, and a live process goes on. *)
Fairness == \A r \in Deliveries : WF_vars(Deliver(r)) /\ WF_vars(Work(r))

Safety == Init /\ [][Next]_vars
Spec == Safety /\ Fairness

-----------------------------------------------------------------------------
(* Properties. *)

(* Deliveries of one event never run its workflow side by side, and none   *)
(* runs it after it has succeeded, whatever overtakes what.                *)
OneRunAtATime == Cardinality({r \in Deliveries : exec[r] \in {"RUNNING", "SUCCESS"}}) <= 1

(* A step that is logged as done is not run again by a later delivery.     *)
DoneStepsStayDone == [][\A s \in Steps : Succeeded(s) => effects'[s] = effects[s]]_vars

(* The outbox marks an event PUBLISHED only if every step of its workflow  *)
(* has succeeded in some delivery: a step that need not succeed delays the *)
(* end of the event but is not forgotten.                                  *)
OkMeansAllSteps ==
    \A r \in Deliveries : answer[r] = "ok" => \A s \in Steps : Succeeded(s)

Handled == \E r \in Deliveries : answer[r] = "ok"

(* One fault that is not a crash is survived: a listener that fails is     *)
(* tried again, and the workflow of the event comes to its end.            *)
SurvivesFaults ==
    [](faults <= 1 /\ \A r \in Deliveries : pc[r] # "dead") => <>Handled

(* So is a process that dies once: its event is redelivered and handled.   *)
SurvivesCrash == [](faults <= 1) => <>Handled
=============================================================================
