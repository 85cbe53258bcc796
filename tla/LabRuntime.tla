----------------------------- MODULE LabRuntime -----------------------------
(***************************************************************************)
(* The controlled laboratory runtime: LocalLabRuntimeProvider of           *)
(* packages/experimental/lab-runtime-local, for one experiment, with the   *)
(* state store it persists to and the device it leases.                    *)
(*                                                                         *)
(* Calls overlap at their awaits. A call reads its run once and goes on    *)
(* with that view, however the run changed meanwhile; what it writes back  *)
(* replaces the whole run. After its change to the experiment a call saves *)
(* it (Persist) and then answers its caller; a crash may come in between,  *)
(* and a save that fails leaves the change in memory and the call rejects. *)
(* The store clones and writes the experiment within one turn of the event *)
(* loop: that is one step here.                                            *)
(***************************************************************************)
EXTENDS Naturals, Sequences

CONSTANTS
  Callers,  \* the tools and web commands that may be calling at one time
  Plans,    \* execution graphs a reviewer may approve: sequences of steps
  MaxRuns   \* bound: runs of the experiment

Kinds == {"device", "human", "script"}

Step == [kind : Kinds, requiresApproval : BOOLEAN, failurePolicy : {"BLOCK", "STOP"}]

ASSUME PlansAssumption == \A graph \in Plans : graph \in Seq(Step)
ASSUME MaxRunsAssumption == MaxRuns \in Nat

VARIABLES
  plan,      \* approvedPlan.executionGraph.steps, or NoPlan
  runs,      \* the views of run-1, run-2, ...
  store,     \* the experiment as saved
  calls,     \* what each caller's call is awaiting, and the view it read
  lease,     \* the run that holds the device, 0 when it is free
  acked      \* (history) runs whose start was answered

experiment == <<plan, runs>>
vars == <<experiment, store, calls, lease, acked>>

NoPlan == <<"none">>
NoStep == 0
NoView == [status |-> "none", currentStep |-> NoStep, observations |-> {}]
Idle == [pc |-> "idle", run |-> 0, view |-> NoView, receipt |-> "none"]

Init ==
  /\ plan = NoPlan
  /\ runs = <<>>
  /\ store = [plan |-> NoPlan, runs |-> <<>>]
  /\ calls = [c \in Callers |-> Idle]
  /\ lease = 0
  /\ acked = {}

-----------------------------------------------------------------------------
(* Views.                                                                  *)

View(status, at, observations) ==
  [status |-> status, currentStep |-> at, observations |-> observations]

Observation(at, status, valid) == [step |-> at, status |-> status, valid |-> valid]

Terminal(view) == view.status \in {"COMPLETED", "STOPPED", "FAILED", "BLOCKED"}

\* A step that asks for a human before anything else starts by waiting.
initialStatus(step) ==
  IF step.kind = "human" \/ step.requiresApproval
  THEN "WAITING_CONFIRMATION" ELSE "RUNNING"

StartView ==
  IF plan = <<>> THEN View("WAITING_CONFIRMATION", NoStep, {})
  ELSE View(initialStatus(plan[1]), 1, {})

\* The observations of a view with those of its current step replaced by o.
Observed(view, o) ==
  {other \in view.observations : other.step # view.currentStep} \cup {o}

Completed(view) == Observation(view.currentStep, "COMPLETED", TRUE)

\* The current step is done: on to the next one, or the run is completed.
advance(view) ==
  LET next == view.currentStep + 1 IN
  IF next > Len(plan)
  THEN View("COMPLETED", NoStep, Observed(view, Completed(view)))
  ELSE View(initialStatus(plan[next]), next, Observed(view, Completed(view)))

\* The current step failed: its policy stops or blocks the run.
finishFailedStep(view) ==
  View(IF plan[view.currentStep].failurePolicy = "STOP" THEN "STOPPED" ELSE "BLOCKED",
       view.currentStep,
       Observed(view, Observation(view.currentStep, "FAILED", FALSE)))

\* The approval of the current step, asked for or given.
approvalAsked(view) == Observation(view.currentStep, "WAITING", TRUE)
approvalObservations(view) == {approvalAsked(view), Completed(view)} \cap view.observations

\* The device accepted the current step's operation and has not finished it.
waitingExecution(view) == Observation(view.currentStep, "WAITING", FALSE)

-----------------------------------------------------------------------------
(* Parts of a call.                                                        *)

Await(c, pc, r, view, receipt) ==
  calls' = [calls EXCEPT ![c] =
              [pc |-> pc, run |-> r, view |-> view, receipt |-> receipt]]

\* replaceRun() and on to the save.
Replace(c, r, view) ==
  /\ runs' = [runs EXCEPT ![r] = view]
  /\ Await(c, "persist", r, NoView, "none")

\* The call rejects, or its answer is out: it holds no view any more.
Ends(c) == calls' = [calls EXCEPT ![c] = Idle]

-----------------------------------------------------------------------------
(* The operations.                                                         *)

\* approvePlan(): a plan can be replaced until a run has started.
ApprovePlan(c, graph) ==
  /\ calls[c].pc = "idle"
  /\ runs = <<>>
  /\ plan' = graph
  /\ Await(c, "persist", 0, NoView, "none")
  /\ UNCHANGED <<runs, store, lease, acked>>

\* Faulty: the caller is answered before the run is saved.
StartRunUnsaved(c) ==
  /\ calls[c].pc = "idle"
  /\ plan # NoPlan /\ Len(runs) < MaxRuns
  /\ \A r \in DOMAIN runs : Terminal(runs[r])
  /\ runs' = Append(runs, StartView)
  /\ acked' = acked \cup {Len(runs')}
  /\ UNCHANGED <<plan, store, calls, lease>>

\* startRun(), and retryRun() of a terminal run: no other run may be active.
StartRun(c) ==
  /\ calls[c].pc = "idle"
  /\ plan # NoPlan /\ Len(runs) < MaxRuns
  /\ \A r \in DOMAIN runs : Terminal(runs[r])
  /\ runs' = Append(runs, StartView)
  /\ Await(c, "persist", Len(runs'), NoView, "start")
  /\ UNCHANGED <<plan, store, lease, acked>>

\* The body of executeNextStep() for a run with a current step: ask for the
\* approval, or hand the view to the executor of the step's kind.
NextStep(c, r) ==
  LET view == runs[r]
      step == plan[view.currentStep]
  IN
  IF step.requiresApproval /\ approvalObservations(view) = {}
  THEN Replace(c, r, View("WAITING_CONFIRMATION", view.currentStep,
                          view.observations \cup {approvalAsked(view)}))
  ELSE CASE step.kind = "script" -> Replace(c, r, finishFailedStep(view))
         [] step.kind = "human"  -> Await(c, "wait", r, view, "none") /\ UNCHANGED runs
         [] step.kind = "device" -> Await(c, "health", r, view, "none") /\ UNCHANGED runs

\* executeNextStep()
Execute(c, r) ==
  /\ calls[c].pc = "idle"
  /\ ~Terminal(runs[r])
  /\ runs[r].currentStep # NoStep
  /\ NextStep(c, r)
  /\ UNCHANGED <<plan, store, lease, acked>>

\* waitForConfirmation() resumes with the view it was given.
Wait(c) ==
  LET view == calls[c].view IN
  /\ calls[c].pc = "wait"
  /\ Replace(c, calls[c].run,
             View("WAITING_CONFIRMATION", view.currentStep, view.observations))
  /\ UNCHANGED <<plan, store, lease, acked>>

\* Faulty: evidence is not validated.
ConfirmedUnvalidated(view, given) ==
  IF view.currentStep = NoStep THEN View("COMPLETED", NoStep, view.observations)
  ELSE IF /\ plan[view.currentStep].kind = "device"
          /\ plan[view.currentStep].requiresApproval
          /\ approvalAsked(view) \in view.observations
  THEN View("RUNNING", view.currentStep,
            (view.observations \ {approvalAsked(view)}) \cup {Completed(view)})
  ELSE [advance(view) EXCEPT
          !.observations = Observed(view, Observation(view.currentStep, "COMPLETED", given))]

\* What a confirmation makes of a waiting view: a run without steps completes,
\* an approval that was asked for is given, any other step is done by hand
\* when the evidence given is valid.
Confirmed(view, given) ==
  IF view.currentStep = NoStep THEN View("COMPLETED", NoStep, view.observations)
  ELSE IF /\ plan[view.currentStep].kind = "device"
          /\ plan[view.currentStep].requiresApproval
          /\ approvalAsked(view) \in view.observations
  THEN View("RUNNING", view.currentStep,
            (view.observations \ {approvalAsked(view)}) \cup {Completed(view)})
  ELSE IF given THEN advance(view) ELSE finishFailedStep(view)

\* confirmStep()
Confirm(c, r, given) ==
  LET view == runs[r] IN
  /\ calls[c].pc = "idle"
  /\ view.status = "WAITING_CONFIRMATION"
  /\ Replace(c, r, Confirmed(view, given))
  /\ UNCHANGED <<plan, store, lease, acked>>

\* stopRun(), whatever the run's status. An operation the device has accepted
\* is stopped and its lease released first.
Stop(c, r) ==
  LET view == runs[r] IN
  /\ calls[c].pc = "idle"
  /\ IF waitingExecution(view) \in view.observations
     THEN Await(c, "stop", r, view, "none") /\ UNCHANGED runs
     ELSE Replace(c, r, View("STOPPED", view.currentStep, view.observations))
  /\ UNCHANGED <<plan, store, lease, acked>>

\* devices.stop() and devices.release() settle; if either throws so does stopRun().
StopSettles(c) ==
  LET view == calls[c].view IN
  /\ calls[c].pc = "stop"
  /\ \/ Ends(c) /\ UNCHANGED <<runs, lease>>
     \/ /\ lease = calls[c].run
        /\ lease' = 0
        /\ Replace(c, calls[c].run,
             View("STOPPED", view.currentStep,
                  (view.observations \ {waitingExecution(view)})
                    \cup {Observation(view.currentStep, "STOPPED", FALSE)}))
  /\ UNCHANGED <<plan, store, acked>>

-----------------------------------------------------------------------------
(* executeDeviceStep(), await by await.                                    *)

Fails(c) == Replace(c, calls[c].run, finishFailedStep(calls[c].view))

Health(c) ==
  /\ calls[c].pc = "health"
  /\ \/ Await(c, "reserve", calls[c].run, calls[c].view, "none") /\ UNCHANGED runs
     \/ Fails(c)
  /\ UNCHANGED <<plan, store, lease, acked>>

\* The device refuses a lease that another run holds.
Reserve(c) ==
  /\ calls[c].pc = "reserve"
  /\ \/ /\ lease \in {0, calls[c].run}
        /\ lease' = calls[c].run
        /\ Await(c, "execute", calls[c].run, calls[c].view, "none")
        /\ UNCHANGED runs
     \/ Fails(c) /\ UNCHANGED lease
  /\ UNCHANGED <<plan, store, acked>>

\* The operation settles. Unless it was merely accepted, the lease is released.
\* "failed" stands for a failed receipt, invalid evidence and a rejection.
DeviceExecutes(c) ==
  LET view == calls[c].view IN
  /\ calls[c].pc = "execute"
  /\ \/ /\ lease = calls[c].run
        /\ Replace(c, calls[c].run,
             View("RUNNING", view.currentStep, Observed(view, waitingExecution(view))))
     \/ /\ \E receipt \in {"completed", "stopped", "failed"} :
             /\ receipt # "failed" => lease = calls[c].run
             /\ Await(c, "release", calls[c].run, view, receipt)
        /\ UNCHANGED runs
  /\ UNCHANGED <<plan, store, lease, acked>>

\* The device refuses to release a lease that another run holds.
Release(c) ==
  LET view == calls[c].view
      outcome ==
        CASE calls[c].receipt = "completed" -> advance(view)
          [] calls[c].receipt = "failed"    -> finishFailedStep(view)
          [] calls[c].receipt = "stopped"   ->
               View("STOPPED", view.currentStep,
                    Observed(view, Observation(view.currentStep, "STOPPED", FALSE)))
  IN
  /\ calls[c].pc = "release"
  /\ \/ /\ lease \in {0, calls[c].run}
        /\ lease' = 0
        /\ Replace(c, calls[c].run, outcome)
     \/ Fails(c) /\ UNCHANGED lease
  /\ UNCHANGED <<plan, store, acked>>

-----------------------------------------------------------------------------
\* persist() and the answer, or a save() that rejects and so does the call. The
\* change it made stays in memory, where the next save of any call finds it.
Persist(c) ==
  /\ calls[c].pc = "persist"
  /\ \/ /\ store' = [plan |-> plan, runs |-> runs]
        /\ acked' = IF calls[c].receipt = "start" THEN acked \cup {calls[c].run}
                                                  ELSE acked
     \/ UNCHANGED <<store, acked>>
  /\ Ends(c)
  /\ UNCHANGED <<experiment, lease>>

\* The process dies and restore() reads the store back. Hardware keeps its
\* lease, a device simulated in the process forgets it. Runs that were never
\* saved are gone, and their numbers are given again.
Crash ==
  /\ plan' = store.plan
  /\ runs' = store.runs
  /\ calls' = [c \in Callers |-> Idle]
  /\ lease' \in {0, lease}
  /\ UNCHANGED <<store, acked>>

Next ==
  \/ \E c \in Callers :
       \/ \E graph \in Plans : ApprovePlan(c, graph)
       \/ StartRun(c)
       \/ \E r \in DOMAIN runs : Execute(c, r) \/ Stop(c, r)
       \/ \E r \in DOMAIN runs, given \in BOOLEAN : Confirm(c, r, given)
       \/ Wait(c) \/ StopSettles(c)
       \/ Health(c) \/ Reserve(c) \/ DeviceExecutes(c) \/ Release(c)
       \/ Persist(c)
  \/ Crash

Spec == Init /\ [][Next]_vars

-----------------------------------------------------------------------------
(* Properties.                                                             *)

\* A view counts no step as done without valid evidence of it.
Evidenced(view) ==
  \A at \in DOMAIN plan :
    (view.status = "COMPLETED" \/ at < view.currentStep) =>
      Observation(at, "COMPLETED", TRUE) \in view.observations

\* Whichever of several overlapping calls writes last, the run it leaves, and
\* the run a crash leaves, has valid evidence of every step it is past.
EvidenceBehind ==
  /\ \A r \in DOMAIN runs : Evidenced(runs[r])
  /\ \A r \in DOMAIN store.runs : Evidenced(store.runs[r])

\* A run whose start was answered is still there after any crash, although
\* saves may fail and the calls of others save what this one changed.
StartedRunsSurvive == acked \subseteq DOMAIN store.runs /\ acked \subseteq DOMAIN runs
=============================================================================
