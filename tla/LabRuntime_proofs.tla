-------------------------- MODULE LabRuntime_proofs --------------------------
(***************************************************************************)
(* Theorems about the laboratory runtime, for any set of approved plans,   *)
(* any callers and any number of runs: a run has evidence of every step it *)
(* is past, and a run whose start was answered survives every crash.       *)
(*                                                                         *)
(* A call writes back the view it read before its awaits, so that the runs *)
(* are sound says nothing unless the views in the hands of calls are: the  *)
(* inductive invariant carries both, and the store a crash returns to.     *)
(***************************************************************************)
EXTENDS LabRuntime, SequenceTheorems, TLAPS

Statuses == {"none", "RUNNING", "WAITING_CONFIRMATION", "COMPLETED", "STOPPED", "FAILED",
             "BLOCKED"}
Observations == [step : Nat, status : {"WAITING", "COMPLETED", "FAILED", "STOPPED"},
                 valid : BOOLEAN]
Views == [status : Statuses, currentStep : Nat, observations : SUBSET Observations]

\* The awaits of executeNextStep().
Executing == {"wait", "health", "reserve", "execute", "release"}

Call == [pc : Executing \cup {"idle", "stop", "persist"}, run : Nat, view : Views,
         receipt : {"none", "start", "completed", "stopped", "failed"}]

\* Every variable has its type; only an approved plan is run.
TypeInv ==
  /\ plan \in Plans \cup {NoPlan}
  /\ runs \in Seq(Views)
  /\ runs # <<>> => plan \in Plans
  /\ store \in [plan : Plans \cup {NoPlan}, runs : Seq(Views)]
  /\ calls \in [Callers -> Call]
  /\ lease \in Nat
  /\ acked \subseteq Nat

\* A view has evidence of what is behind it, its step is one of the plan, and one
\* that waits for no step is a view of an empty plan.
Sound(view) ==
  /\ Evidenced(view)
  /\ view.currentStep # NoStep => view.currentStep \in DOMAIN plan
  /\ view.currentStep = NoStep /\ view.status = "WAITING_CONFIRMATION" => plan = <<>>

\* The runs are those of the approved plan.
RunsInv == \A r \in DOMAIN runs : Sound(runs[r])

\* The store is behind the experiment, and of the same plan once it has a run.
StoreInv ==
  /\ Len(store.runs) <= Len(runs)
  /\ store.runs # <<>> => store.plan = plan
  /\ \A r \in DOMAIN store.runs : Sound(store.runs[r])

\* A view that a call still holds is as sound as the one it was read from, and
\* a call that executes a step read it when the run was not terminal.
CallInv ==
  \A c \in Callers :
    /\ calls[c].run # 0 => calls[c].run \in DOMAIN runs
    /\ calls[c].pc \in Executing \cup {"stop"} => calls[c].run # 0 /\ Sound(calls[c].view)
    /\ calls[c].pc \in Executing =>
         ~Terminal(calls[c].view) /\ calls[c].view.currentStep # NoStep
    /\ calls[c].receipt = "start" => calls[c].run # 0
    /\ calls[c].pc = "release" => calls[c].receipt \in {"completed", "stopped", "failed"}

\* What was answered is saved.
AckedInv == acked \subseteq DOMAIN store.runs

IInv == TypeInv /\ RunsInv /\ StoreInv /\ CallInv /\ AckedInv

-----------------------------------------------------------------------------
(* What the operators on views keep.                                       *)

\* A view that keeps the completed steps behind it, and counts no more of them
\* as done, stays sound.
LEMMA SameStepSound ==
  ASSUME NEW view \in Views, Sound(view), NEW status \in Statuses \ {"COMPLETED"},
         NEW observations \in SUBSET Observations,
         status = "WAITING_CONFIRMATION" =>
           view.status = "WAITING_CONFIRMATION" \/ view.currentStep # NoStep,
         \A o \in view.observations :
           o.step < view.currentStep /\ o.status = "COMPLETED" => o \in observations
  PROVE  /\ View(status, view.currentStep, observations) \in Views
         /\ Sound(View(status, view.currentStep, observations))
<1>. DEFINE w == View(status, view.currentStep, observations)
<1>1. /\ w \in Views /\ w.status = status /\ w.currentStep = view.currentStep
      /\ w.observations = observations
  BY DEF View, Views
<1>. HIDE DEF w
<1>2. Evidenced(w)
  <2> SUFFICES ASSUME NEW at \in DOMAIN plan, at < view.currentStep
               PROVE  Observation(at, "COMPLETED", TRUE) \in observations
    BY <1>1 DEF Evidenced
  <2>1. Observation(at, "COMPLETED", TRUE) \in view.observations
    BY DEF Sound, Evidenced
  <2> QED
    BY <2>1 DEF Observation
<1>3. /\ w.currentStep # NoStep => w.currentStep \in DOMAIN plan
      /\ w.currentStep = NoStep /\ w.status = "WAITING_CONFIRMATION" => plan = <<>>
  BY <1>1 DEF Sound
<1> QED
  BY <1>1, <1>2, <1>3 DEF Sound, w

\* The observations of a view, with its current step's replaced.
LEMMA ObservedKeeps ==
  ASSUME NEW view \in Views, NEW o \in Observations
  PROVE  /\ Observed(view, o) \in SUBSET Observations /\ o \in Observed(view, o)
         /\ \A p \in view.observations : p.step # view.currentStep => p \in Observed(view, o)
  BY DEF Observed, Views

\* An observation of a step.
LEMMA ObservationType ==
  ASSUME NEW at \in Nat, NEW valid \in BOOLEAN,
         NEW status \in {"WAITING", "COMPLETED", "FAILED", "STOPPED"}
  PROVE  Observation(at, status, valid) \in Observations
  BY DEF Observation, Observations

\* A failed step is not counted as done.
LEMMA FailSound ==
  ASSUME NEW view \in Views, Sound(view)
  PROVE  finishFailedStep(view) \in Views /\ Sound(finishFailedStep(view))
<1>. DEFINE o == Observation(view.currentStep, "FAILED", FALSE)
            status == IF plan[view.currentStep].failurePolicy = "STOP" THEN "STOPPED"
                      ELSE "BLOCKED"
<1>1. view.currentStep \in Nat /\ view.observations \in SUBSET Observations
  BY DEF Views
<1>2. o \in Observations
  BY <1>1, ObservationType
<1>3. finishFailedStep(view) = View(status, view.currentStep, Observed(view, o))
  BY DEF finishFailedStep
<1>4. status \in Statuses \ {"COMPLETED", "WAITING_CONFIRMATION"}
  BY DEF Statuses
<1>. HIDE DEF o, status
<1>5. /\ Observed(view, o) \in SUBSET Observations
      /\ \A p \in view.observations : p.step # view.currentStep => p \in Observed(view, o)
  BY <1>2, ObservedKeeps
<1>6. \A p \in view.observations : p.step < view.currentStep => p \in Observed(view, o)
  BY <1>1, <1>5 DEF Observations
<1> QED
  BY <1>3, <1>4, <1>5, <1>6, SameStepSound

\* A step that is advanced over has its evidence.
LEMMA AdvanceSound ==
  ASSUME plan \in Seq(Step), NEW view \in Views, Sound(view)
  PROVE  advance(view) \in Views /\ Sound(advance(view))
<1>. DEFINE next == view.currentStep + 1
            o == Completed(view)
            w == advance(view)
<1>1. view.currentStep \in Nat /\ view.observations \in SUBSET Observations
  BY DEF Views
<1>2. o \in Observations /\ o = Observation(view.currentStep, "COMPLETED", TRUE)
  BY <1>1, ObservationType DEF Completed
<1>3. /\ Observed(view, o) \in SUBSET Observations /\ o \in Observed(view, o)
      /\ \A p \in view.observations : p.step # view.currentStep => p \in Observed(view, o)
  BY <1>2, ObservedKeeps
<1>4. w = IF next > Len(plan) THEN View("COMPLETED", NoStep, Observed(view, o))
          ELSE View(initialStatus(plan[next]), next, Observed(view, o))
  BY DEF advance
<1>5. /\ w \in Views /\ w.observations = Observed(view, o)
      /\ \/ w.status = "COMPLETED" /\ w.currentStep = NoStep /\ next > Len(plan)
         \/ w.status # "COMPLETED" /\ w.currentStep = next /\ next <= Len(plan)
  BY <1>1, <1>3, <1>4 DEF View, Views, Statuses, initialStatus, NoStep
<1>. HIDE DEF w, o
<1>6. DOMAIN plan = 1 .. Len(plan) /\ Len(plan) \in Nat
  OBVIOUS
<1>7. Evidenced(w)
  <2> SUFFICES ASSUME NEW at \in DOMAIN plan, w.status = "COMPLETED" \/ at < w.currentStep
               PROVE  Observation(at, "COMPLETED", TRUE) \in Observed(view, o)
    BY <1>5 DEF Evidenced
  <2>1. at = view.currentStep \/ at < view.currentStep
    BY <1>1, <1>5, <1>6
  <2>2. CASE at = view.currentStep
    BY <1>2, <1>3, <2>2
  <2>3. CASE at < view.currentStep
    <3>1. Observation(at, "COMPLETED", TRUE) \in view.observations
      BY <2>3 DEF Sound, Evidenced
    <3>2. Observation(at, "COMPLETED", TRUE).step # view.currentStep
      BY <1>1, <1>6, <2>3 DEF Observation
    <3> QED
      BY <1>3, <3>1, <3>2
  <2> QED
    BY <2>1, <2>2, <2>3
<1>8. /\ w.currentStep # NoStep => w.currentStep \in DOMAIN plan
      /\ w.currentStep = NoStep => w.status # "WAITING_CONFIRMATION"
  BY <1>1, <1>5, <1>6 DEF NoStep
<1> QED
  BY <1>5, <1>7, <1>8 DEF Sound, w

\* A confirmation completes a step only when its evidence is valid.
LEMMA ConfirmedSound ==
  ASSUME plan \in Seq(Step), NEW view \in Views, Sound(view),
         view.status = "WAITING_CONFIRMATION", NEW given \in BOOLEAN
  PROVE  Confirmed(view, given) \in Views /\ Sound(Confirmed(view, given))
<1>. DEFINE approval == /\ plan[view.currentStep].kind = "device"
                        /\ plan[view.currentStep].requiresApproval
                        /\ approvalAsked(view) \in view.observations
            granted == (view.observations \ {approvalAsked(view)}) \cup {Completed(view)}
<1>0. view.currentStep \in Nat /\ view.observations \in SUBSET Observations
  BY DEF Views
<1>1. CASE view.currentStep = NoStep
  <2>1. Confirmed(view, given) = View("COMPLETED", NoStep, view.observations)
    BY <1>1 DEF Confirmed
  <2>2. plan = <<>>
    BY <1>1 DEF Sound
  <2>3. DOMAIN plan = {}
    BY <2>2
  <2> QED
    BY <1>0, <2>1, <2>2, <2>3 DEF View, Views, Statuses, Sound, Evidenced, NoStep
<1>2. CASE view.currentStep # NoStep /\ approval
  <2>1. Confirmed(view, given) = View("RUNNING", view.currentStep, granted)
    BY <1>2 DEF Confirmed
  <2>2. granted \in SUBSET Observations
    BY <1>0, ObservationType DEF Completed
  <2>3. \A o \in view.observations : o.status = "COMPLETED" => o \in granted
    BY DEF approvalAsked, Observation
  <2>. HIDE DEF granted
  <2> QED
    BY <2>1, <2>2, <2>3, SameStepSound DEF Statuses
<1>3. CASE view.currentStep # NoStep /\ ~approval /\ given
  BY <1>3, AdvanceSound DEF Confirmed
<1>4. CASE view.currentStep # NoStep /\ ~approval /\ ~given
  BY <1>4, FailSound DEF Confirmed
<1> QED
  BY <1>1, <1>2, <1>3, <1>4

\* The view a run starts with.
LEMMA StartSound ==
  ASSUME plan \in Seq(Step)
  PROVE  StartView \in Views /\ Sound(StartView)
<1>1. CASE plan = <<>>
  BY <1>1 DEF StartView, View, Views, Statuses, Sound, Evidenced, NoStep
<1>2. CASE plan # <<>>
  <2>1. /\ StartView.currentStep = 1 /\ StartView.status \in {"WAITING_CONFIRMATION", "RUNNING"}
        /\ StartView \in Views
    BY <1>2 DEF StartView, initialStatus, View, Views, Statuses
  <2>2. \A at \in DOMAIN plan : ~(at < 1)
    OBVIOUS
  <2>3. Evidenced(StartView)
    BY <2>1, <2>2 DEF Evidenced
  <2>4. StartView.currentStep # NoStep /\ StartView.currentStep \in DOMAIN plan
    BY <1>2, <2>1 DEF NoStep
  <2> QED
    BY <2>1, <2>3, <2>4 DEF Sound
<1> QED
  BY <1>1, <1>2

-----------------------------------------------------------------------------
(* The steps.                                                              *)

\* A call of the experiment's run.
LEMMA HeldRun ==
  ASSUME IInv, NEW c \in Callers, calls[c].pc \in Executing \cup {"stop"}
  PROVE  /\ calls[c].run \in DOMAIN runs /\ calls[c].run \in Nat \ {0}
         /\ calls[c].view \in Views /\ Sound(calls[c].view)
         /\ plan \in Seq(Step)
<1>1. calls[c] \in Call
  BY DEF IInv, TypeInv
<1>2. calls[c].run # 0 /\ Sound(calls[c].view) /\ calls[c].run \in DOMAIN runs
  BY DEF IInv, CallInv
<1>3. plan \in Plans
  BY <1>2 DEF IInv, TypeInv
<1> QED
  BY <1>1, <1>2, <1>3, PlansAssumption DEF Call

\* What is sound stays so while the plan does.
LEMMA SoundUnderPlan ==
  ASSUME plan' = plan, NEW view
  PROVE  Sound(view) => Sound(view)'
  BY DEF Sound, Evidenced

\* A call that goes on: it holds a sound view of a run, or none.
LEMMA AwaitKeeps ==
  ASSUME IInv, NEW c \in Callers, NEW pc \in Executing \cup {"idle", "stop", "persist"},
         NEW r \in Nat, NEW view \in Views,
         NEW receipt \in {"none", "start", "completed", "stopped", "failed"},
         Await(c, pc, r, view, receipt), UNCHANGED plan, DOMAIN runs \subseteq DOMAIN runs',
         r # 0 => r \in DOMAIN runs',
         pc \in Executing \cup {"stop"} => r # 0 /\ Sound(view),
         pc \in Executing => ~Terminal(view) /\ view.currentStep # NoStep,
         receipt = "start" => r # 0,
         pc = "release" => receipt \in {"completed", "stopped", "failed"}
  PROVE  calls' \in [Callers -> Call] /\ CallInv'
<1>. DEFINE call == [pc |-> pc, run |-> r, view |-> view, receipt |-> receipt]
<1>1. /\ call \in Call /\ call.pc = pc /\ call.run = r /\ call.view = view
      /\ call.receipt = receipt
  BY DEF Call
<1>2. calls \in [Callers -> Call] /\ calls' = [calls EXCEPT ![c] = call]
  BY DEF IInv, TypeInv, Await
<1>. HIDE DEF call
<1>3. /\ calls' \in [Callers -> Call] /\ calls'[c] = call
      /\ \A d \in Callers : d # c => calls'[d] = calls[d]
  BY <1>1, <1>2
<1>4. ASSUME NEW d \in Callers
      PROVE  /\ calls'[d].run # 0 => calls'[d].run \in DOMAIN runs'
             /\ calls'[d].pc \in Executing \cup {"stop"} => calls'[d].run # 0
             /\ calls'[d].pc \in Executing =>
                  ~Terminal(calls'[d].view) /\ calls'[d].view.currentStep # NoStep
             /\ calls'[d].receipt = "start" => calls'[d].run # 0
             /\ calls'[d].pc = "release" =>
                  calls'[d].receipt \in {"completed", "stopped", "failed"}
  <2>1. CASE d = c
    BY <1>1, <1>3, <2>1
  <2>2. CASE d # c
    BY <1>3, <2>2 DEF IInv, CallInv
  <2> QED
    BY <2>1, <2>2
<1>5. ASSUME NEW d \in Callers, calls'[d].pc \in Executing \cup {"stop"}
      PROVE  Sound(calls[d].view)'
  <2>1. Sound(calls'[d].view)
    BY <1>1, <1>3, <1>5 DEF IInv, CallInv
  <2> QED
    BY <2>1 DEF Sound, Evidenced
<1> QED
  BY <1>3, <1>4, <1>5 DEF CallInv, Terminal

\* A call that goes on and writes nothing.
LEMMA ReadStep ==
  ASSUME IInv, calls' \in [Callers -> Call], CallInv', UNCHANGED <<plan, runs, store, acked>>,
         lease' \in Nat
  PROVE  IInv'
<1>1. TypeInv' /\ AckedInv'
  BY DEF IInv, TypeInv, AckedInv
<1>2. RunsInv' /\ StoreInv'
  BY SoundUnderPlan DEF IInv, RunsInv, StoreInv
<1> QED
  BY <1>1, <1>2 DEF IInv

\* A call that writes a sound view of a run and goes on to save it.
LEMMA ReplaceStep ==
  ASSUME IInv, NEW c \in Callers, NEW r \in DOMAIN runs, NEW view \in Views, Sound(view),
         Replace(c, r, view), UNCHANGED <<plan, store, acked>>, lease' \in Nat
  PROVE  IInv'
<1>1. runs \in Seq(Views) /\ runs' = [runs EXCEPT ![r] = view]
  BY DEF IInv, TypeInv, Replace
<1>2. /\ runs' \in Seq(Views) /\ Len(runs') = Len(runs) /\ DOMAIN runs' = DOMAIN runs
      /\ runs'[r] = view /\ \A k \in DOMAIN runs : k # r => runs'[k] = runs[k]
  BY <1>1, ExceptSeq
<1>3. r \in Nat \ {0} /\ runs # <<>>
  BY <1>1
<1>4. NoView \in Views
  BY DEF NoView, Views, Statuses, NoStep
<1>5. calls' \in [Callers -> Call] /\ CallInv'
  BY <1>2, <1>3, <1>4, AwaitKeeps DEF Replace, Executing
<1>6. TypeInv' /\ AckedInv'
  BY <1>2, <1>3, <1>5 DEF IInv, TypeInv, AckedInv
<1>7. RunsInv'
  BY <1>2, SoundUnderPlan DEF IInv, RunsInv
<1>8. StoreInv'
  BY <1>2, SoundUnderPlan DEF IInv, StoreInv
<1> QED
  BY <1>5, <1>6, <1>7, <1>8 DEF IInv

\* approvePlan() replaces the plan only before the first run, when nobody holds a
\* view.
LEMMA ApproveStep ==
  ASSUME IInv, NEW c \in Callers, NEW graph \in Plans, ApprovePlan(c, graph)
  PROVE  IInv'
<1>1. /\ runs = <<>> /\ runs' = <<>> /\ store' = store /\ plan' = graph
      /\ lease' = lease /\ acked' = acked
      /\ Await(c, "persist", 0, NoView, "none")
  BY DEF ApprovePlan
<1>2. store.runs \in Seq(Views) /\ Len(store.runs) <= 0
  BY <1>1 DEF IInv, TypeInv, StoreInv
<1>3. store.runs = <<>> /\ DOMAIN runs = {}
  BY <1>1, <1>2
<1>4. NoView \in Views
  BY DEF NoView, Views, Statuses, NoStep
<1>5. calls \in [Callers -> Call]
  BY DEF IInv, TypeInv
<1>6. \A d \in Callers : calls[d].run = 0
  BY <1>3 DEF IInv, CallInv
<1>7. \A d \in Callers :
        calls[d].pc \notin Executing \cup {"stop"} /\ calls[d].receipt # "start"
  BY <1>6 DEF IInv, CallInv
<1>8. [pc |-> "persist", run |-> 0, view |-> NoView, receipt |-> "none"] \in Call
  BY <1>4 DEF Call
<1>9. \A d \in Callers :
        /\ calls'[d] \in Call
        /\ calls'[d].run = 0 /\ calls'[d].receipt # "start"
        /\ calls'[d].pc \notin Executing \cup {"stop"}
  BY <1>1, <1>5, <1>6, <1>7, <1>8 DEF Await, Executing
<1>10. calls' \in [Callers -> Call]
  BY <1>1, <1>5, <1>8 DEF Await
<1>11. CallInv'
  BY <1>9 DEF CallInv, Executing
<1>12. TypeInv' /\ AckedInv'
  BY <1>1, <1>10 DEF IInv, TypeInv, AckedInv
<1>13. RunsInv' /\ StoreInv'
  BY <1>1, <1>3 DEF IInv, RunsInv, StoreInv
<1> QED
  BY <1>11, <1>12, <1>13 DEF IInv

\* startRun() adds a run that has done nothing.
LEMMA StartStep ==
  ASSUME IInv, NEW c \in Callers, StartRun(c)
  PROVE  IInv'
<1>1. /\ plan # NoPlan /\ runs' = Append(runs, StartView)
      /\ Await(c, "persist", Len(runs'), NoView, "start")
      /\ UNCHANGED <<plan, store, lease, acked>>
  BY DEF StartRun
<1>2. plan \in Plans /\ plan \in Seq(Step)
  BY <1>1, PlansAssumption DEF IInv, TypeInv
<1>3. StartView \in Views /\ Sound(StartView)
  BY <1>2, StartSound
<1>4. runs \in Seq(Views)
  BY DEF IInv, TypeInv
<1>5. /\ runs' \in Seq(Views) /\ Len(runs') = Len(runs) + 1 /\ Len(runs) \in Nat
      /\ DOMAIN runs = 1 .. Len(runs) /\ DOMAIN runs' = 1 .. Len(runs')
      /\ runs'[Len(runs')] = StartView /\ \A k \in DOMAIN runs : runs'[k] = runs[k]
  BY <1>1, <1>3, <1>4, AppendProperties
<1>6. NoView \in Views
  BY DEF NoView, Views, Statuses, NoStep
<1>7. Len(runs') \in Nat /\ Len(runs') # 0 /\ Len(runs') \in DOMAIN runs'
  BY <1>5
<1>8. calls' \in [Callers -> Call] /\ CallInv'
  BY <1>1, <1>5, <1>6, <1>7, AwaitKeeps DEF Executing
<1>9. TypeInv' /\ AckedInv'
  BY <1>1, <1>2, <1>5, <1>8 DEF IInv, TypeInv, AckedInv
<1>10. RunsInv'
  <2>1. \A k \in DOMAIN runs' : k \in DOMAIN runs \/ k = Len(runs')
    BY <1>5
  <2> QED
    BY <1>1, <1>3, <1>5, <2>1, SoundUnderPlan DEF IInv, RunsInv
<1>11. StoreInv'
  <2>1. store.runs \in Seq(Views)
    BY DEF IInv, TypeInv
  <2>2. Len(store'.runs) <= Len(runs')
    BY <1>1, <1>5, <2>1 DEF IInv, StoreInv
  <2> QED
    BY <1>1, <2>2, SoundUnderPlan DEF IInv, StoreInv
<1> QED
  BY <1>8, <1>9, <1>10, <1>11 DEF IInv

\* executeNextStep() asks for an approval, fails a script, or takes the run's
\* view to the executor of the step.
LEMMA ExecuteStep ==
  ASSUME IInv, NEW c \in Callers, NEW r \in DOMAIN runs, Execute(c, r)
  PROVE  IInv'
<1>. DEFINE view == runs[r]
            asked == view.observations \cup {approvalAsked(view)}
<1>1. runs \in Seq(Views) /\ r \in Nat \ {0} /\ runs # <<>> /\ lease \in Nat
  BY DEF IInv, TypeInv
<1>2. plan \in Seq(Step)
  BY <1>1, PlansAssumption DEF IInv, TypeInv
<1>3. /\ view \in Views /\ Sound(view) /\ ~Terminal(view) /\ view.currentStep # NoStep
      /\ view.currentStep \in Nat /\ view.observations \in SUBSET Observations
  <2>1. view \in Views
    BY <1>1
  <2>2. Sound(view) /\ ~Terminal(view) /\ view.currentStep # NoStep
    BY DEF IInv, RunsInv, Execute
  <2> QED
    BY <2>1, <2>2 DEF Views
<1>4. plan[view.currentStep].kind \in Kinds
  <2>1. view.currentStep \in DOMAIN plan
    BY <1>3 DEF Sound
  <2>2. plan[view.currentStep] \in Step
    BY <1>2, <2>1
  <2> QED
    BY <2>2 DEF Step
<1>5. UNCHANGED <<plan, store, lease, acked>> /\ NextStep(c, r)
  BY DEF Execute
<1>. HIDE DEF view
<1>6. \/ Replace(c, r, View("WAITING_CONFIRMATION", view.currentStep, asked))
      \/ Replace(c, r, finishFailedStep(view))
      \/ \E pc \in {"wait", "health"} : Await(c, pc, r, view, "none") /\ UNCHANGED runs
  BY <1>4, <1>5 DEF NextStep, Kinds, view
<1>7. CASE Replace(c, r, View("WAITING_CONFIRMATION", view.currentStep, asked))
  <2>1. asked \in SUBSET Observations
    BY <1>3, ObservationType DEF approvalAsked
  <2>2. /\ View("WAITING_CONFIRMATION", view.currentStep, asked) \in Views
        /\ Sound(View("WAITING_CONFIRMATION", view.currentStep, asked))
    BY <1>3, <2>1, SameStepSound DEF Statuses
  <2>. HIDE DEF asked
  <2> QED
    BY <1>1, <1>5, <1>7, <2>2, ReplaceStep
<1>8. CASE Replace(c, r, finishFailedStep(view))
  BY <1>1, <1>3, <1>5, <1>8, FailSound, ReplaceStep
<1>9. ASSUME NEW pc \in {"wait", "health"}, Await(c, pc, r, view, "none"), UNCHANGED runs
      PROVE  IInv'
  <2>1. calls' \in [Callers -> Call] /\ CallInv'
    BY <1>1, <1>3, <1>5, <1>9, AwaitKeeps DEF Executing
  <2> QED
    BY <1>1, <1>5, <1>9, <2>1, ReadStep
<1> QED
  BY <1>6, <1>7, <1>8, <1>9

\* confirmStep() changes the run it read in the same step.
LEMMA ConfirmStep ==
  ASSUME IInv, NEW c \in Callers, NEW r \in DOMAIN runs, NEW given \in BOOLEAN,
         Confirm(c, r, given)
  PROVE  IInv'
<1>1. runs \in Seq(Views) /\ runs # <<>> /\ lease \in Nat
  BY DEF IInv, TypeInv
<1>2. plan \in Seq(Step)
  BY <1>1, PlansAssumption DEF IInv, TypeInv
<1>3. runs[r] \in Views /\ Sound(runs[r]) /\ runs[r].status = "WAITING_CONFIRMATION"
  BY <1>1 DEF IInv, RunsInv, Confirm
<1>4. Confirmed(runs[r], given) \in Views /\ Sound(Confirmed(runs[r], given))
  BY <1>2, <1>3, ConfirmedSound
<1>5. Replace(c, r, Confirmed(runs[r], given)) /\ UNCHANGED <<plan, store, lease, acked>>
  BY DEF Confirm
<1> QED
  BY <1>1, <1>4, <1>5, ReplaceStep

\* stopRun() stops the run at once, or takes its view to the device.
LEMMA StopStep ==
  ASSUME IInv, NEW c \in Callers, NEW r \in DOMAIN runs, Stop(c, r)
  PROVE  IInv'
<1>. DEFINE view == runs[r]
<1>1. runs \in Seq(Views) /\ r \in Nat \ {0} /\ lease \in Nat
  BY DEF IInv, TypeInv
<1>2. view \in Views /\ Sound(view) /\ view.observations \in SUBSET Observations
  <2>1. view \in Views
    BY <1>1
  <2>2. Sound(view)
    BY DEF IInv, RunsInv
  <2> QED
    BY <2>1, <2>2 DEF Views
<1>. HIDE DEF view
<1>3. /\ UNCHANGED <<plan, store, lease, acked>>
      /\ \/ Await(c, "stop", r, view, "none") /\ UNCHANGED runs
         \/ Replace(c, r, View("STOPPED", view.currentStep, view.observations))
  BY DEF Stop, view
<1>4. CASE Await(c, "stop", r, view, "none") /\ UNCHANGED runs
  <2>1. calls' \in [Callers -> Call] /\ CallInv'
    BY <1>1, <1>2, <1>3, <1>4, AwaitKeeps DEF Executing
  <2> QED
    BY <1>1, <1>3, <1>4, <2>1, ReadStep
<1>5. CASE Replace(c, r, View("STOPPED", view.currentStep, view.observations))
  <2>1. /\ View("STOPPED", view.currentStep, view.observations) \in Views
        /\ Sound(View("STOPPED", view.currentStep, view.observations))
    BY <1>2, SameStepSound DEF Statuses
  <2> QED
    BY <1>1, <1>3, <1>5, <2>1, ReplaceStep
<1> QED
  BY <1>3, <1>4, <1>5

\* A call ends.
LEMMA EndKeeps ==
  ASSUME IInv, NEW c \in Callers, Ends(c), UNCHANGED <<plan, runs>>
  PROVE  calls' \in [Callers -> Call] /\ CallInv'
<1>1. NoView \in Views
  BY DEF NoView, Views, Statuses, NoStep
<1>2. Await(c, "idle", 0, NoView, "none")
  BY DEF Ends, Await, Idle
<1> QED
  BY <1>1, <1>2, AwaitKeeps DEF Executing

\* stopRun() resumes with the view it read.
LEMMA StopSettlesStep ==
  ASSUME IInv, NEW c \in Callers, StopSettles(c)
  PROVE  IInv'
<1>. DEFINE r == calls[c].run
            view == calls[c].view
            o == Observation(view.currentStep, "STOPPED", FALSE)
            left == (view.observations \ {waitingExecution(view)}) \cup {o}
<1>1. r \in DOMAIN runs /\ view \in Views /\ Sound(view)
  BY HeldRun DEF StopSettles
<1>2. view.currentStep \in Nat /\ view.observations \in SUBSET Observations
  BY <1>1 DEF Views
<1>3. CASE Ends(c) /\ UNCHANGED <<runs, lease>>
  <2>1. calls' \in [Callers -> Call] /\ CallInv'
    BY <1>3, EndKeeps DEF StopSettles
  <2> QED
    BY <1>3, <2>1, ReadStep DEF StopSettles, IInv, TypeInv
<1>4. CASE lease' = 0 /\ Replace(c, r, View("STOPPED", view.currentStep, left))
  <2>1. left \in SUBSET Observations
    BY <1>2, ObservationType
  <2>2. \A p \in view.observations : p.status = "COMPLETED" => p \in left
    BY DEF waitingExecution, Observation
  <2>. HIDE DEF left
  <2>3. /\ View("STOPPED", view.currentStep, left) \in Views
        /\ Sound(View("STOPPED", view.currentStep, left))
    BY <1>1, <2>1, <2>2, SameStepSound DEF Statuses
  <2> QED
    BY <1>1, <1>4, <2>3, ReplaceStep DEF StopSettles
<1> QED
  BY <1>3, <1>4 DEF StopSettles

\* An executor fails the step of the view it holds.
LEMMA FailsStep ==
  ASSUME IInv, NEW c \in Callers, calls[c].pc \in Executing, Fails(c),
         UNCHANGED <<plan, store, acked>>, lease' \in Nat
  PROVE  IInv'
<1>1. /\ calls[c].run \in DOMAIN runs /\ calls[c].view \in Views
      /\ Sound(calls[c].view)
  BY HeldRun
<1> QED
  BY <1>1, FailSound, ReplaceStep DEF Fails

\* An executor goes on to its next await with the view it holds.
LEMMA HoldsOn ==
  ASSUME IInv, NEW c \in Callers, calls[c].pc \in Executing,
         NEW pc \in Executing, NEW receipt \in {"none", "completed", "stopped", "failed"},
         pc = "release" => receipt # "none",
         Await(c, pc, calls[c].run, calls[c].view, receipt),
         UNCHANGED <<plan, runs, store, acked>>, lease' \in Nat
  PROVE  IInv'
<1>1. /\ calls[c].run \in DOMAIN runs /\ calls[c].run \in Nat \ {0}
      /\ calls[c].view \in Views /\ Sound(calls[c].view)
  BY HeldRun
<1>2. ~Terminal(calls[c].view) /\ calls[c].view.currentStep # NoStep
  BY DEF IInv, CallInv
<1>3. calls' \in [Callers -> Call] /\ CallInv'
  BY <1>1, <1>2, AwaitKeeps
<1> QED
  BY <1>3, ReadStep

\* The executors resume with the view they were given.
LEMMA DeviceStep ==
  ASSUME IInv, NEW c \in Callers,
         Wait(c) \/ Health(c) \/ Reserve(c) \/ DeviceExecutes(c) \/ Release(c)
  PROVE  IInv'
<1>. DEFINE r == calls[c].run
            view == calls[c].view
<1>1. calls[c].pc \in Executing /\ UNCHANGED <<plan, store, acked>>
  BY DEF Wait, Health, Reserve, DeviceExecutes, Release, Executing
<1>2. /\ r \in DOMAIN runs /\ r \in Nat \ {0} /\ view \in Views /\ Sound(view)
      /\ plan \in Seq(Step)
  BY <1>1, HeldRun
<1>3. view.currentStep # NoStep
  BY <1>1 DEF IInv, CallInv
<1>4. view.currentStep \in Nat /\ view.observations \in SUBSET Observations
  BY <1>2 DEF Views
<1>5. lease \in Nat
  BY DEF IInv, TypeInv
<1>. HIDE DEF r, view
<1>6. \A status \in {"WAITING", "STOPPED"} :
        LET o == Observation(view.currentStep, status, FALSE) IN
        /\ Observed(view, o) \in SUBSET Observations
        /\ \A p \in view.observations : p.step # view.currentStep => p \in Observed(view, o)
  BY <1>2, <1>4, ObservationType, ObservedKeeps
<1>7. \A p \in view.observations : p.step < view.currentStep => p.step # view.currentStep
  BY <1>4 DEF Observations
<1>8. CASE Wait(c)
  <2>1. Replace(c, r, View("WAITING_CONFIRMATION", view.currentStep, view.observations))
    BY <1>8 DEF Wait, r, view
  <2>2. /\ View("WAITING_CONFIRMATION", view.currentStep, view.observations) \in Views
        /\ Sound(View("WAITING_CONFIRMATION", view.currentStep, view.observations))
    BY <1>2, <1>3, <1>4, SameStepSound DEF Statuses
  <2> QED
    BY <1>1, <1>2, <1>5, <1>8, <2>1, <2>2, ReplaceStep DEF Wait
<1>9. CASE Health(c)
  BY <1>1, <1>5, <1>9, FailsStep, HoldsOn DEF Health, Executing
<1>10. CASE Reserve(c)
  <2>1. lease' \in Nat
    BY <1>2, <1>5, <1>10 DEF Reserve, r
  <2> QED
    BY <1>1, <2>1, <1>10, FailsStep, HoldsOn DEF Reserve, Executing
<1>11. CASE DeviceExecutes(c)
  <2>1. \/ Replace(c, r, View("RUNNING", view.currentStep,
                              Observed(view, waitingExecution(view))))
        \/ \E receipt \in {"completed", "stopped", "failed"} :
             Await(c, "release", calls[c].run, calls[c].view, receipt) /\ UNCHANGED runs
    BY <1>11 DEF DeviceExecutes, r, view
  <2>2. lease' = lease
    BY <1>11 DEF DeviceExecutes
  <2>3. CASE Replace(c, r, View("RUNNING", view.currentStep,
                                Observed(view, waitingExecution(view))))
    <3>. DEFINE obs == Observed(view, waitingExecution(view))
    <3>1. /\ obs \in SUBSET Observations
          /\ \A p \in view.observations : p.step < view.currentStep => p \in obs
      BY <1>6, <1>7 DEF waitingExecution
    <3>. HIDE DEF obs
    <3>2. /\ View("RUNNING", view.currentStep, obs) \in Views
          /\ Sound(View("RUNNING", view.currentStep, obs))
      BY <1>2, <3>1, SameStepSound DEF Statuses
    <3> QED
      BY <1>1, <1>2, <1>5, <2>2, <2>3, <3>2, ReplaceStep DEF obs
  <2>4. ASSUME NEW receipt \in {"completed", "stopped", "failed"},
               Await(c, "release", calls[c].run, calls[c].view, receipt), UNCHANGED runs
        PROVE  IInv'
    BY <1>1, <1>5, <2>2, <2>4, HoldsOn DEF Executing
  <2> QED
    BY <2>1, <2>3, <2>4
<1>12. CASE Release(c)
  <2>. DEFINE obs == Observed(view, Observation(view.currentStep, "STOPPED", FALSE))
              outcome == CASE calls[c].receipt = "completed" -> advance(view)
                           [] calls[c].receipt = "failed" -> finishFailedStep(view)
                           [] calls[c].receipt = "stopped" ->
                                View("STOPPED", view.currentStep, obs)
  <2>1. \/ lease' = 0 /\ Replace(c, r, outcome)
        \/ lease' = lease /\ Fails(c)
    BY <1>12 DEF Release, r, view
  <2>2. CASE lease' = 0 /\ Replace(c, r, outcome)
    <3>1. calls[c].receipt \in {"completed", "failed", "stopped"}
      BY <1>12 DEF IInv, CallInv, Release
    <3>2. /\ obs \in SUBSET Observations
          /\ \A p \in view.observations : p.step < view.currentStep => p \in obs
      BY <1>6, <1>7
    <3>. HIDE DEF obs
    <3>3. /\ View("STOPPED", view.currentStep, obs) \in Views
          /\ Sound(View("STOPPED", view.currentStep, obs))
      BY <1>2, <3>2, SameStepSound DEF Statuses
    <3>4. /\ advance(view) \in Views /\ Sound(advance(view))
          /\ finishFailedStep(view) \in Views /\ Sound(finishFailedStep(view))
      BY <1>2, AdvanceSound, FailSound
    <3>5. outcome \in Views /\ Sound(outcome)
      BY <3>1, <3>3, <3>4
    <3>. HIDE DEF outcome
    <3> QED
      BY <1>1, <1>2, <2>2, <3>5, ReplaceStep
  <2>3. CASE lease' = lease /\ Fails(c)
    BY <1>1, <1>5, <2>3, FailsStep
  <2> QED
    BY <2>1, <2>2, <2>3
<1> QED
  BY <1>8, <1>9, <1>10, <1>11, <1>12

LEMMA PersistStep ==
  ASSUME IInv, NEW c \in Callers, Persist(c)
  PROVE  IInv'
<1>1. UNCHANGED <<plan, runs, lease>> /\ Ends(c)
  BY DEF Persist, experiment
<1>2. calls' \in [Callers -> Call] /\ CallInv'
  BY <1>1, EndKeeps
<1>3. CASE UNCHANGED <<store, acked>>
  BY <1>1, <1>2, <1>3, ReadStep DEF IInv, TypeInv
<1>4. CASE /\ store' = [plan |-> plan, runs |-> runs]
           /\ acked' = IF calls[c].receipt = "start" THEN acked \cup {calls[c].run} ELSE acked
  <2>1. runs \in Seq(Views) /\ store.runs \in Seq(Views) /\ calls[c] \in Call
    BY DEF IInv, TypeInv
  <2>2. store'.runs = runs /\ store'.plan = plan
    BY <1>4
  <2>3. acked' \subseteq DOMAIN runs
    <3>1. DOMAIN store.runs \subseteq DOMAIN runs
      BY <2>1 DEF IInv, StoreInv
    <3>2. calls[c].receipt = "start" => calls[c].run \in DOMAIN runs
      BY DEF IInv, CallInv
    <3> QED
      BY <1>4, <3>1, <3>2 DEF IInv, AckedInv
  <2>4. TypeInv' /\ AckedInv'
    <3>1. acked' \subseteq Nat
      BY <2>1, <2>3
    <3> QED
      BY <1>1, <1>2, <1>4, <2>2, <2>3, <3>1 DEF IInv, TypeInv, AckedInv
  <2>5. RunsInv'
    BY <1>1, SoundUnderPlan DEF IInv, RunsInv
  <2>6. StoreInv'
    <3>1. Len(store'.runs) <= Len(runs')
      BY <1>1, <2>1, <2>2
    <3> QED
      BY <1>1, <2>2, <3>1, SoundUnderPlan DEF IInv, RunsInv, StoreInv
  <2> QED
    BY <1>2, <2>4, <2>5, <2>6 DEF IInv
<1> QED
  BY <1>3, <1>4 DEF Persist

\* A crash leaves what was saved, under the plan it was saved with.
LEMMA CrashStep ==
  ASSUME IInv, Crash
  PROVE  IInv'
<1>1. /\ plan' = store.plan /\ runs' = store.runs /\ UNCHANGED <<store, acked>>
      /\ calls' = [c \in Callers |-> Idle] /\ lease' \in {0, lease}
  BY DEF Crash
<1>2. runs \in Seq(Views) /\ store.runs \in Seq(Views) /\ store.plan \in Plans \cup {NoPlan}
  BY DEF IInv, TypeInv
<1>3. store.runs # <<>> => plan' = plan /\ plan \in Plans
  BY <1>1, <1>2 DEF IInv, TypeInv, StoreInv
<1>4. NoView \in Views /\ Idle.pc = "idle" /\ Idle.run = 0 /\ Idle.receipt = "none"
  BY DEF NoView, Idle, Views, Statuses, NoStep
<1>5. Idle \in Call
  BY <1>4 DEF Idle, Call
<1>6. TypeInv' /\ AckedInv'
  BY <1>1, <1>2, <1>3, <1>5 DEF IInv, TypeInv, AckedInv
<1>7. CallInv'
  BY <1>1, <1>4 DEF CallInv, Executing
<1>8. RunsInv' /\ StoreInv'
  <2>1. CASE store.runs = <<>>
    BY <1>1, <2>1 DEF RunsInv, StoreInv
  <2>2. CASE store.runs # <<>>
    <3>1. \A r \in DOMAIN store.runs : Sound(store.runs[r])
      BY DEF IInv, StoreInv
    <3>2. plan' = plan
      BY <1>3, <2>2
    <3>3. \A r \in DOMAIN store'.runs : Sound(store.runs[r])'
      BY <1>1, <3>1, <3>2 DEF Sound, Evidenced
    <3>4. RunsInv'
      BY <1>1, <3>1, <3>2 DEF RunsInv, Sound, Evidenced
    <3>5. Len(store'.runs) <= Len(runs')
      BY <1>1, <1>2
    <3> QED
      BY <1>1, <3>3, <3>4, <3>5 DEF StoreInv
  <2> QED
    BY <2>1, <2>2
<1> QED
  BY <1>6, <1>7, <1>8 DEF IInv

\* A new experiment has no plan, no run and no call.
LEMMA InitInv == Init => IInv
<1> SUFFICES ASSUME Init PROVE IInv
  OBVIOUS
<1>1. NoView \in Views /\ Idle.pc = "idle" /\ Idle.run = 0 /\ Idle.receipt = "none"
  BY DEF NoView, Idle, Views, Statuses, NoStep
<1>2. Idle \in Call
  BY <1>1 DEF Idle, Call
<1>3. <<>> \in Seq(Views) /\ Len(<<>>) = 0
  OBVIOUS
<1>4. TypeInv /\ AckedInv
  BY <1>2, <1>3 DEF Init, TypeInv, AckedInv
<1>5. RunsInv /\ StoreInv
  BY <1>3 DEF Init, RunsInv, StoreInv
<1>6. CallInv
  BY <1>1 DEF Init, CallInv, Executing
<1> QED
  BY <1>4, <1>5, <1>6 DEF IInv

\* Every step keeps the inductive invariant.
LEMMA InvStep == IInv /\ [Next]_vars => IInv'
<1> SUFFICES ASSUME IInv, [Next]_vars PROVE IInv'
  OBVIOUS
<1>1. CASE UNCHANGED vars
  <2>1. CallInv' /\ TypeInv'
    BY <1>1 DEF vars, experiment, IInv, CallInv, TypeInv, Sound, Evidenced, Terminal
  <2> QED
    BY <1>1, <2>1, ReadStep DEF vars, experiment, IInv, TypeInv
<1> QED
  BY <1>1, ApproveStep, StartStep, ExecuteStep, ConfirmStep, StopStep, StopSettlesStep,
     DeviceStep, PersistStep, CrashStep
  DEF Next

\* The inductive invariant holds in every reachable state.
LEMMA Invariant == Spec => []IInv
  BY InitInv, InvStep, PTL DEF Spec

-----------------------------------------------------------------------------
(* The theorems.                                                           *)

\* The plan, the runs, the store, the calls and the lease have their types.
THEOREM TypeCorrect == Spec => []TypeInv
<1>1. IInv => TypeInv
  BY DEF IInv
<1> QED
  BY <1>1, Invariant, PTL

\* Whichever of several overlapping calls writes last, and whatever a crash
\* takes back, every run has valid evidence of each step it is past.
THEOREM RunsHaveEvidence == Spec => []EvidenceBehind
<1>1. IInv => EvidenceBehind
  BY DEF IInv, RunsInv, StoreInv, Sound, EvidenceBehind
<1> QED
  BY <1>1, Invariant, PTL

\* A run whose start was answered is saved, so every crash leaves it.
THEOREM AnsweredRunsSurvive == Spec => []StartedRunsSurvive
<1>1. IInv => StartedRunsSurvive
  <2> SUFFICES ASSUME IInv PROVE StartedRunsSurvive
    OBVIOUS
  <2>1. runs \in Seq(Views) /\ store.runs \in Seq(Views)
    BY DEF IInv, TypeInv
  <2>2. DOMAIN store.runs \subseteq DOMAIN runs
    BY <2>1 DEF IInv, StoreInv
  <2> QED
    BY <2>2 DEF IInv, AckedInv, StartedRunsSurvive
<1> QED
  BY <1>1, Invariant, PTL
=============================================================================
