------------------------ MODULE WorkflowEngineProofs ------------------------
(***************************************************************************)
(* The workflow engine for any number of deliveries, steps and faults.     *)
(*                                                                         *)
(* The advisory lock is held for the claim only.  What protects the run    *)
(* after it is the RUNNING row: a delivery inside the loop owns that row,  *)
(* nobody else can be inside, and so what it read of the log stays true    *)
(* until it writes.                                                        *)
(***************************************************************************)
EXTENDS WorkflowEngine, FiniteSetTheorems, TLAPS

InLoop == {"step", "effect", "succeeded", "failed", "finish", "abort"}

(* At most one execution runs or has succeeded. *)
Sole == \A q, r \in Deliveries : q \in Blocking /\ r \in Blocking => q = r

(* A delivery inside the loop owns the running execution. *)
RunnersOwn == \A r \in Deliveries : pc[r] \in InLoop => exec[r] = "RUNNING"

(* Between its look at the log and its end, the step at hand is nobody's   *)
(* success.                                                                *)
StepAtHand ==
    \A r \in Deliveries : pc[r] \in {"effect", "succeeded", "failed"} =>
        at[r] \in Steps /\ ~ Succeeded(at[r])

(* A delivery that has not claimed stands before the first step. *)
FirstStep == \A r \in Deliveries : pc[r] \in {"none", "claim"} => at[r] = 1

(* What a delivery has passed has succeeded or is among its errors. *)
PassedSteps ==
    \A r \in Deliveries : pc[r] \in InLoop =>
        \A s \in Steps : s < at[r] => Succeeded(s) \/ s \in errors[r]

AtTheEnd == \A r \in Deliveries : pc[r] = "finish" => at[r] \notin Steps

SuccessIsWhole ==
    \A r \in Deliveries : exec[r] = "SUCCESS" => \A s \in Steps : Succeeded(s)

IndInv ==
    /\ TypeOK /\ Sole /\ RunnersOwn /\ StepAtHand
    /\ FirstStep /\ PassedSteps /\ AtTheEnd /\ SuccessIsWhole /\ OkMeansAllSteps

-----------------------------------------------------------------------------
(* At most one blocking execution is at most one running. *)
LEMMA SoleIsOne == Sole => OneRunAtATime
  <1> SUFFICES ASSUME Sole PROVE Cardinality(Blocking) <= 1
    BY DEF OneRunAtATime, Blocking
  <1>1. CASE Blocking = {}
    BY <1>1, FS_EmptySet
  <1>2. CASE Blocking # {}
    <2>1. PICK q : q \in Blocking
      BY <1>2
    <2>2. Blocking = {q}
      BY <2>1 DEF Sole, Blocking
    <2> QED
      BY <2>2, FS_Singleton
  <1> QED
    BY <1>1, <1>2

(* The invariant holds at first. *)
LEMMA InitInv == Init => IndInv
  BY EngineAssumption DEF Init, IndInv, TypeOK, Sole, Blocking, RunnersOwn, InLoop,
     StepAtHand, FirstStep, PassedSteps, AtTheEnd, SuccessIsWhole, OkMeansAllSteps, RowStatus,
     Deliveries, Steps

(* Logged successes stay logged. *)
LEMMA SuccessStays ==
  ASSUME IndInv, [Next]_vars, NEW s \in Steps, Succeeded(s)
  PROVE  Succeeded(s)'
  <1>1. PICK q \in Deliveries : log[q][s] = "SUCCESS"
    BY DEF Succeeded
  <1>2. CASE UNCHANGED vars
    BY <1>1, <1>2 DEF vars, rows, Succeeded
  <1>3. ASSUME NEW r \in Deliveries,
               Deliver(r) \/ Work(r) \/ StatementFails(r) \/ Crash(r)
        PROVE  log'[q][s] = "SUCCESS"
    <2>1. CASE NextStep(r)
      BY <2>1, <1>1 DEF NextStep, IndInv, TypeOK, Skipped, Succeeded, Goto
    <2>2. CASE LogSuccess(r)
      BY <2>2, <1>1 DEF LogSuccess, IndInv, TypeOK
    <2>3. CASE LogFailure(r)
      BY <2>3, <1>1 DEF LogFailure, IndInv, TypeOK, StepAtHand, Succeeded
    <2>4. CASE UNCHANGED log
      BY <2>4, <1>1
    <2> QED
      BY <1>3, <2>1, <2>2, <2>3, <2>4
      DEF Deliver, Work, Claim, RunStep, Finish, Abort, StatementFails, Crash, rows
  <1> QED
    BY <1>1, <1>2, <1>3 DEF Next, Succeeded

(* Every step keeps the types. *)
LEMMA TypeStep ==
  ASSUME IndInv, NEW r \in Deliveries,
         Deliver(r) \/ Work(r) \/ StatementFails(r) \/ Crash(r)
  PROVE  TypeOK'
  <1> USE EngineAssumption DEF IndInv, TypeOK, RowStatus
  <1>0. faults' \in 0 .. MaxFaults \/ ~ Fault
    BY DEF Fault
  <1>1. CASE Deliver(r)
    BY <1>0, <1>1 DEF Deliver, Goto, rows
  <1>2. CASE Claim(r)
    BY <1>2 DEF Claim, Goto, Answer
  <1>3. CASE NextStep(r)
    <2>1. log' \in [Deliveries -> [Steps -> RowStatus]]
      BY <1>3 DEF NextStep
    <2>2. at' \in [Deliveries -> 1 .. NumSteps + 1]
      BY <1>3 DEF NextStep, Steps
    <2> QED
      BY <1>3, <2>1, <2>2 DEF NextStep, Goto
  <1>4. CASE RunStep(r)
    <2>1. effects' \in [Steps -> Nat]
      BY <1>4 DEF RunStep, Took
    <2>2. pc' = [pc EXCEPT ![r] = "succeeded"] \/ pc' = [pc EXCEPT ![r] = "failed"]
      BY <1>4 DEF RunStep, Goto
    <2>3. faults' \in 0 .. MaxFaults
      BY <1>0, <1>4 DEF RunStep
    <2> QED
      BY <1>4, <2>1, <2>2, <2>3 DEF RunStep
  <1>5. CASE LogSuccess(r)
    BY <1>5 DEF LogSuccess, Goto, StepAtHand, Steps
  <1>6. CASE LogFailure(r)
    <2>1. /\ log' \in [Deliveries -> [Steps -> RowStatus]]
          /\ errors' \in [Deliveries -> SUBSET Steps]
      BY <1>6 DEF LogFailure, StepAtHand
    <2>2. at' \in [Deliveries -> 1 .. NumSteps + 1]
      BY <1>6 DEF LogFailure, StepAtHand, Steps
    <2> QED
      BY <1>6, <2>1, <2>2 DEF LogFailure, Goto
  <1>7. CASE Finish(r)
    BY <1>7 DEF Finish, Goto, Answer, Verdict
  <1>8. CASE Abort(r)
    BY <1>8 DEF Abort, Goto, Answer, Aborted
  <1>9. CASE StatementFails(r)
    BY <1>0, <1>9 DEF StatementFails, Goto, Answer, rows
  <1>10. CASE Crash(r)
    BY <1>0, <1>10 DEF Crash, Goto, rows
  <1> QED
    BY <1>1, <1>2, <1>3, <1>4, <1>5, <1>6, <1>7, <1>8, <1>9, <1>10 DEF Work

(* The claim is the only way into the loop. *)
LEMMA OwnershipStep ==
  ASSUME IndInv, NEW r \in Deliveries,
         Deliver(r) \/ Work(r) \/ StatementFails(r) \/ Crash(r)
  PROVE  Sole' /\ RunnersOwn'
  <1> USE DEF IndInv, TypeOK, Sole, RunnersOwn, Blocking, InLoop
  <1>1. CASE Claim(r)
    BY <1>1 DEF Claim, Goto, Answer
  <1>2. CASE Finish(r)
    BY <1>2 DEF Finish, Goto, Answer, Verdict
  <1>3. CASE Abort(r)
    BY <1>3 DEF Abort, Goto, Answer, Aborted
  <1>4. CASE Deliver(r) \/ StatementFails(r) \/ Crash(r)
    BY <1>4 DEF Deliver, StatementFails, Crash, Goto, Answer, rows
  <1>5. CASE NextStep(r) \/ RunStep(r) \/ LogSuccess(r) \/ LogFailure(r)
    BY <1>5 DEF NextStep, RunStep, LogSuccess, LogFailure, Goto
  <1> QED
    BY <1>1, <1>2, <1>3, <1>4, <1>5 DEF Work

(* Two deliveries are never in the loop together. *)
LEMMA AloneInLoop ==
  ASSUME IndInv, NEW q \in Deliveries, NEW r \in Deliveries,
         pc[q] \in InLoop, pc[r] \in InLoop
  PROVE  q = r
  BY DEF IndInv, Sole, RunnersOwn, Blocking

(* What a delivery knows of its step at hand, no other delivery changes. *)
LEMMA AtHandStep ==
  ASSUME IndInv, NEW r \in Deliveries,
         Deliver(r) \/ Work(r) \/ StatementFails(r) \/ Crash(r)
  PROVE  StepAtHand'
  <1> USE DEF IndInv, TypeOK
  <1> SUFFICES ASSUME NEW q \in Deliveries, pc'[q] \in {"effect", "succeeded", "failed"}
               PROVE  /\ at'[q] \in Steps
                      /\ \A d \in Deliveries : log'[d][at'[q]] # "SUCCESS"
    BY DEF StepAtHand, Succeeded
  <1>1. CASE NextStep(r)
    <2>1. q = r
      BY <1>1, AloneInLoop DEF NextStep, Goto, InLoop
    <2>2. at'[q] = at[q] /\ at[q] \in Steps /\ ~ Succeeded(at[q])
      BY <1>1, <2>1 DEF NextStep, Goto, Skipped
    <2>3. log' = [log EXCEPT ![r][at[r]] = "RUNNING"]
      BY <1>1, <2>1 DEF NextStep, Goto
    <2> QED
      BY <2>1, <2>2, <2>3 DEF Succeeded
  <1>2. CASE LogSuccess(r) \/ LogFailure(r)
    BY <1>2, AloneInLoop DEF LogSuccess, LogFailure, Goto, InLoop
  <1>3. CASE RunStep(r)
    BY <1>3 DEF RunStep, Goto, StepAtHand, Succeeded
  <1>4. CASE log' = log /\ at' = at /\ pc[q] \in {"effect", "succeeded", "failed"}
    BY <1>4 DEF StepAtHand, Succeeded
  <1>5. CASE Deliver(r) \/ Claim(r) \/ Finish(r) \/ Abort(r)
    <2>1. log' = log /\ at' = at
      BY <1>5 DEF Deliver, Claim, Finish, Abort, rows
    <2>2. pc[q] \in {"effect", "succeeded", "failed"}
      BY <1>5 DEF Deliver, Claim, Finish, Abort, Goto, Answer
    <2> QED
      BY <2>1, <2>2, <1>4
  <1>6. CASE StatementFails(r) \/ Crash(r)
    <2>1. log' = log /\ at' = at
      BY <1>6 DEF StatementFails, Crash, rows
    <2>2. pc[q] \in {"effect", "succeeded", "failed"}
      BY <1>6 DEF StatementFails, Crash, Goto, Answer
    <2> QED
      BY <2>1, <2>2, <1>4
  <1> QED
    BY <1>1, <1>2, <1>3, <1>5, <1>6 DEF Work

(* The steps a delivery has passed stay done, whoever moves. *)
LEMMA PassedStep ==
  ASSUME IndInv, NEW r \in Deliveries,
         Deliver(r) \/ Work(r) \/ StatementFails(r) \/ Crash(r),
         \A s \in Steps : Succeeded(s) => Succeeded(s)'
  PROVE  PassedSteps'
  <1> USE EngineAssumption DEF IndInv, TypeOK
  <1> SUFFICES ASSUME NEW q \in Deliveries, pc'[q] \in InLoop,
                      NEW s \in Steps, s < at'[q]
               PROVE  Succeeded(s)' \/ s \in errors'[q]
    BY DEF PassedSteps
  <1> SUFFICES Succeeded(s) \/ Succeeded(s)' \/ s \in errors'[q]
    OBVIOUS
  <1>1. CASE NextStep(r)
    <2>1. q = r
      BY <1>1, AloneInLoop DEF NextStep, Goto, InLoop
    <2>2. errors'[q] = errors[q] /\ pc[q] \in InLoop
      BY <1>1, <2>1 DEF NextStep, InLoop
    <2>3. s < at[q] \/ (s = at[q] /\ Skipped(r, s))
      BY <1>1, <2>1 DEF NextStep, Steps
    <2> QED
      BY <2>2, <2>3 DEF PassedSteps, Skipped
  <1>2. CASE LogSuccess(r)
    <2>1. q = r
      BY <1>2, AloneInLoop DEF LogSuccess, Goto, InLoop
    <2>2. errors'[q] = errors[q] /\ pc[q] \in InLoop
      BY <1>2, <2>1 DEF LogSuccess, InLoop
    <2>3. s < at[q] \/ s = at[q]
      BY <1>2, <2>1 DEF LogSuccess, Steps
    <2>4. s = at[q] => log'[q][s] = "SUCCESS"
      BY <1>2, <2>1 DEF LogSuccess
    <2> QED
      BY <2>2, <2>3, <2>4 DEF PassedSteps, Succeeded
  <1>3. CASE LogFailure(r)
    <2>1. q = r
      BY <1>3, AloneInLoop DEF LogFailure, Goto, InLoop
    <2>2. errors'[q] = errors[q] \cup {at[q]} /\ pc[q] \in InLoop
      BY <1>3, <2>1 DEF LogFailure, InLoop
    <2>3. s < at[q] \/ s = at[q]
      BY <1>3, <2>1 DEF LogFailure, Steps
    <2> QED
      BY <2>2, <2>3 DEF PassedSteps
  <1>4. CASE Claim(r)
    <2>1. q = r \/ (q # r /\ pc[q] = pc'[q])
      BY <1>4 DEF Claim, Goto, Answer
    <2>2. at'[q] = at[q] /\ errors'[q] = errors[q]
      BY <1>4 DEF Claim
    <2>3. q # r
      BY <1>4, <2>2 DEF Claim, FirstStep, Steps
    <2> QED
      BY <2>1, <2>2, <2>3 DEF PassedSteps
  <1>5. CASE Deliver(r) \/ RunStep(r) \/ Finish(r) \/ Abort(r)
    BY <1>5 DEF Deliver, RunStep, Finish, Abort, Goto, Answer, rows, PassedSteps, InLoop
  <1>6. CASE StatementFails(r) \/ Crash(r)
    BY <1>6 DEF StatementFails, Crash, Goto, Answer, rows, PassedSteps, InLoop
  <1> QED
    BY <1>1, <1>2, <1>3, <1>4, <1>5, <1>6 DEF Work

(* A run that ends well has passed every step without an error. *)
LEMMA WholeStep ==
  ASSUME IndInv, NEW r \in Deliveries,
         Deliver(r) \/ Work(r) \/ StatementFails(r) \/ Crash(r),
         \A s \in Steps : Succeeded(s) => Succeeded(s)'
  PROVE  SuccessIsWhole' /\ OkMeansAllSteps'
  <1> USE EngineAssumption DEF IndInv, TypeOK
  <1>1. CASE Finish(r)
    <2>1. \A s \in Steps : s < at[r]
      BY <1>1 DEF Finish, AtTheEnd, Steps
    <2>2. errors[r] = {} => \A s \in Steps : Succeeded(s)
      BY <1>1, <2>1 DEF Finish, PassedSteps, InLoop
    <2>3. exec'[r] = "SUCCESS" \/ answer'[r] = "ok" => errors[r] = {}
      BY <1>1 DEF Finish, Verdict, Answer
    <2>4. \A q \in Deliveries : q # r => exec'[q] = exec[q] /\ answer'[q] = answer[q]
      BY <1>1 DEF Finish, Answer
    <2> QED
      BY <2>2, <2>3, <2>4 DEF SuccessIsWhole, OkMeansAllSteps
  <1>2. CASE Claim(r)
    <2>1. \A q \in Deliveries : exec'[q] = "SUCCESS" => exec[q] = "SUCCESS"
      BY <1>2 DEF Claim
    <2>2. ASSUME NEW q \in Deliveries, answer'[q] = "ok"
          PROVE  answer[q] = "ok" \/ \E d \in Deliveries : exec[d] = "SUCCESS"
      BY <1>2, <2>2 DEF Claim, Answer, Blocking
    <2> QED
      BY <2>1, <2>2 DEF SuccessIsWhole, OkMeansAllSteps
  <1>3. CASE Deliver(r) \/ NextStep(r) \/ RunStep(r) \/ LogSuccess(r) \/ LogFailure(r)
    BY <1>3 DEF Deliver, NextStep, RunStep, LogSuccess, LogFailure, rows,
       SuccessIsWhole, OkMeansAllSteps
  <1>4. CASE Abort(r) \/ StatementFails(r) \/ Crash(r)
    BY <1>4 DEF Abort, Aborted, StatementFails, Crash, Answer, rows,
       SuccessIsWhole, OkMeansAllSteps
  <1> QED
    BY <1>1, <1>2, <1>3, <1>4 DEF Work

(* Every step keeps the invariant. *)
LEMMA StepInv == IndInv /\ [Next]_vars => IndInv'
  <1> SUFFICES ASSUME IndInv, [Next]_vars PROVE IndInv'
    OBVIOUS
  <1>1. CASE UNCHANGED vars
    BY <1>1 DEF vars, rows, IndInv, TypeOK, Sole, RunnersOwn, Blocking, StepAtHand,
       Succeeded, FirstStep, PassedSteps, AtTheEnd, SuccessIsWhole, OkMeansAllSteps
  <1>2. ASSUME NEW r \in Deliveries,
               Deliver(r) \/ Work(r) \/ StatementFails(r) \/ Crash(r)
        PROVE  IndInv'
    <2>1. TypeOK'
      BY <1>2, TypeStep
    <2>2. Sole' /\ RunnersOwn'
      BY <1>2, OwnershipStep
    <2>3. \A s \in Steps : Succeeded(s) => Succeeded(s)'
      BY SuccessStays
    <2>5. StepAtHand'
      BY <1>2, <2>1, AtHandStep
    <2>6. PassedSteps'
      BY <1>2, <2>3, PassedStep
    <2>7. AtTheEnd' /\ FirstStep'
      BY <1>2 DEF IndInv, TypeOK, AtTheEnd, FirstStep, rows, Deliver, Work, Claim, NextStep, RunStep,
         LogSuccess, LogFailure, Finish, Abort, StatementFails, Crash, Goto, Answer
    <2>8. SuccessIsWhole'
      BY <1>2, <2>3, WholeStep
    <2>9. OkMeansAllSteps'
      BY <1>2, <2>3, WholeStep
    <2> QED
      BY <2>1, <2>2, <2>5, <2>6, <2>7, <2>8, <2>9 DEF IndInv
  <1> QED
    BY <1>1, <1>2 DEF Next
-----------------------------------------------------------------------------
(* The inductive invariant behind the theorems below. *)
THEOREM EngineInvariant == Safety => []IndInv
  <1> QED
    BY InitInv, StepInv, PTL DEF Safety

(* Every row and every delivery keeps its type. *)
THEOREM EngineTypes == Safety => []TypeOK
  <1>1. IndInv => TypeOK
    BY DEF IndInv
  <1> QED
    BY <1>1, EngineInvariant, PTL

(* However many deliveries of an event overlap, at most one execution of   *)
(* its workflow runs or has succeeded.                                     *)
THEOREM NeverSideBySide == Safety => []OneRunAtATime
  <1>1. IndInv => OneRunAtATime
    BY SoleIsOne DEF IndInv
  <1> QED
    BY <1>1, EngineInvariant, PTL

(* The engine reports an event as handled only when every step of its      *)
(* workflow is logged as done.                                             *)
THEOREM HandledMeansDone == Safety => []OkMeansAllSteps
  <1>1. IndInv => OkMeansAllSteps
    BY DEF IndInv
  <1> QED
    BY <1>1, EngineInvariant, PTL

(* A step that is logged as done never takes effect again. *)
THEOREM NoStepRepeated == Safety => DoneStepsStayDone
  <1>1. ASSUME IndInv, [Next]_vars, NEW s \in Steps, Succeeded(s)
        PROVE  effects'[s] = effects[s]
    <2>1. CASE UNCHANGED vars
      BY <2>1 DEF vars, rows
    <2>2. ASSUME NEW r \in Deliveries,
                 Deliver(r) \/ Work(r) \/ StatementFails(r) \/ Crash(r)
          PROVE  effects'[s] = effects[s]
      <3>1. CASE RunStep(r)
        <4>1. at[r] # s
          BY <3>1, <1>1 DEF RunStep, IndInv, StepAtHand
        <4> QED
          BY <4>1, <3>1, <1>1 DEF RunStep, Took, IndInv, TypeOK
      <3>2. CASE UNCHANGED effects
        BY <3>2
      <3> QED
        BY <2>2, <3>1, <3>2
        DEF Deliver, Work, Claim, NextStep, LogSuccess, LogFailure, Finish, Abort,
            StatementFails, Crash, rows
    <2> QED
      BY <1>1, <2>1, <2>2 DEF Next
  <1>2. IndInv /\ [Next]_vars =>
          [\A s \in Steps : Succeeded(s) => effects'[s] = effects[s]]_vars
    BY <1>1
  <1> QED
    BY <1>2, EngineInvariant, PTL DEF Safety, DoneStepsStayDone
=============================================================================
