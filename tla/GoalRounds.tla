------------------------------ MODULE GoalRounds ------------------------------
(***************************************************************************)
(* The goal service (packages/goal/goal) and the goal round driver         *)
(* (packages/goal/goal-round-driver) over one live agent.                  *)
(*                                                                         *)
(* The driver reserves a round when the agent is idle, queues its message  *)
(* and fences it with a pre-step listener that looks at the goal before    *)
(* and after the listeners behind it. Which listeners a step meets is      *)
(* settled when its waterfall is dispatched, after the prompt's assembly   *)
(* (pc = "outer"); listeners in front of the fence run before its first    *)
(* look (pc = "front") and after its last (pc = "tail").                   *)
(*                                                                         *)
(* The listeners are disposables of the plugin's fiber, as the composite   *)
(* effect is that closes the driver: an unload removes them first and does *)
(* not wait for the close (Fiber._unload), whatever the comments at the    *)
(* effect say. A round that comes to its step while the driver closes, or  *)
(* when it is gone, meets no fence.                                        *)
(*                                                                         *)
(* JavaScript runs one thing at a time: an action is the code between two  *)
(* awaits. A drive that a trigger starts runs within the trigger, so while *)
(* one begins or a retired kick() still has a wake to replay (replay),     *)
(* nothing else may happen. The driver remembers one running loop (slot);  *)
(* a trigger inside a drive that is not remembered yet starts a second.    *)
(***************************************************************************)
EXTENDS Naturals, Sequences

CONSTANTS
  MaxVersion,  \* bound: callers change the goal until it has this version
  MaxRounds,   \* maxGoalRounds of every goal
  MaxCalls,    \* bound: how many prompts and maintenances there are
  MaxLoops     \* bound: loops of the driver at one time

ASSUME MaxVersionAssumption == MaxVersion \in Nat
ASSUME MaxRoundsAssumption == MaxRounds \in Nat \ {0}
ASSUME MaxCallsAssumption == MaxCalls \in Nat
ASSUME MaxLoopsAssumption == MaxLoops \in Nat \ {0}

Loops == 1..MaxLoops

VARIABLES
  (* the goal, folded from the log *)
  goal,       \* version: the pair of id and revision; "stopped": paused or blocked
  armed,      \* the cache's activation
  broken,     \* the log holds a round the fold refuses: every read throws
  unsaved,    \* a goal change may not be stored yet
  uncovered,  \* loops whose flush began before the last goal change
  (* the driver's state for the agent *)
  attempt,
  competing,        \* competingQueued
  needsCheckpoint,
  requested,
  loops,      \* "off" | "start" | "begin" | "flush" | "loop" | "retire"
  slot,       \* run: the loop the driver remembers, 0 if none
  unload,     \* "no" | "closing" | "gone": is the plugin there, is its close under way
  waits,      \* what the unload waits for: the loop, 0 for the agent's idle
  (* the agent *)
  phase,      \* "idle" | "maintenance" | "running"
  pc,         \* where the running agent is
  aborted, wakeRequested,
  nextTurn,   \* inbox list of prompts
  claimed,    \* the prompt of the current turn
  decision,   \* "fenced" | "orphan": a fence whose driver is gone; then what the
              \* listeners decide; then how the turn ends
  replay,     \* a retired kick() still has to replay its latched wake
  (* history variables *)
  calls,      \* prompts and maintenances so far
  held,       \* a running agent was cancelled and no caller changed the goal since
  exposed     \* what happened past the fence of the current turn's prompt:
              \* "no" | "late": the goal changed | "unfenced": no fence was there

goalVars   == <<goal, armed, broken, unsaved, uncovered>>
driverVars == <<attempt, competing, needsCheckpoint, requested, loops, slot>>
agentVars  == <<phase, pc, aborted, wakeRequested, nextTurn, claimed, decision>>
history    == <<calls, held, exposed>>
vars == <<goalVars, driverVars, unload, waits, agentVars, replay, history>>

Nothing  == [kind |-> "none", version |-> 0, round |-> 0, id |-> 0]
Prompt   == [kind |-> "prompt", version |-> 0, round |-> 0, id |-> 0]
Round(v, r, i) == [kind |-> "round", version |-> v, round |-> r, id |-> i]
IsRound(m) == m.kind = "round"

\* sameRound() and sameQueued(): a round's prompt is determined by its source,
\* the message's identity is not compared.
Same(m, n) == m.version = n.version /\ m.round = n.round /\ IsRound(n)

\* A message identity that no round still around has.
FreshId ==
  LET used == {nextTurn[i].id : i \in DOMAIN nextTurn}
  IN CHOOSE i \in 1..Len(nextTurn) + 1 : i \notin used

NoAttempt == [message |-> Nothing, phase |-> "none",
              cancelled |-> FALSE, stale |-> FALSE]

\* The driver's listeners are gone as soon as its unload starts.
Listening == unload = "no"

\* Nothing synchronous is under way.
Settled == ~replay /\ \A i \in Loops : loops[i] \notin {"start", "begin"}

GoalActive == goal.phase = "active"
Driven == GoalActive /\ armed /\ ~broken

Init ==
  /\ goal = [version |-> 0, phase |-> "none", rounds |-> 0]
  /\ armed = FALSE /\ broken = FALSE /\ unsaved = FALSE /\ uncovered = {}
  /\ attempt = NoAttempt
  /\ competing = FALSE /\ needsCheckpoint = FALSE /\ requested = FALSE
  /\ loops = [i \in Loops |-> "off"] /\ slot = 0
  /\ unload = "no" /\ waits = {}
  /\ phase = "idle" /\ pc = "off"
  /\ aborted = FALSE /\ wakeRequested = FALSE
  /\ nextTurn = <<>> /\ claimed = Nothing /\ decision = "none"
  /\ replay = FALSE
  /\ calls = 0 /\ held = FALSE /\ exposed = "no"

-----------------------------------------------------------------------------
(* Parts of the goal service and of the driver.                            *)

Flushing == {i \in Loops : loops[i] = "flush"}

\* commit(): log one change, which a running flush need not cover.
Commit(toPhase, rounds, arm) ==
  /\ goal' = [version |-> goal.version + 1, phase |-> toPhase, rounds |-> rounds]
  /\ armed' = arm
  /\ unsaved' = TRUE
  /\ uncovered' = Flushing
  /\ UNCHANGED broken

\* disarm(): a goal that cannot be read stays as it is.
Disarmed == armed /\ broken

Disarm == armed' = Disarmed /\ UNCHANGED <<goal, broken, unsaved, uncovered>>

\* The bound MaxLoops: what would start one loop more does not happen.
MayStartLoop == \E i \in Loops : loops[i] = "off"
FreeLoop == CHOOSE i \in Loops : loops[i] = "off"

\* requestDrive(): a loop starts at once, or the one the driver remembers is told.
Request ==
  IF unload # "no" THEN UNCHANGED <<requested, loops, slot>>
  ELSE IF slot = 0
  THEN /\ MayStartLoop
       /\ loops' = [loops EXCEPT ![FreeLoop] = "start"]
       /\ requested' = FALSE
       /\ UNCHANGED slot
  ELSE requested' = TRUE /\ UNCHANGED <<loops, slot>>

\* The goal/changed listener.
GoalChanged ==
  /\ needsCheckpoint' = IF Listening THEN TRUE ELSE needsCheckpoint
  /\ Request

\* The inbox notifications claimed and discarded.
Claims(att, m) ==
  IF Listening /\ Same(m, att.message)
  THEN [att EXCEPT !.phase = "claimed"] ELSE att

Discards(att, box) ==
  IF Listening /\ \E i \in DOMAIN box : Same(box[i], att.message)
  THEN [att EXCEPT !.cancelled = TRUE] ELSE att

\* wakeDriver() of an idle agent: the turn opens and claims its prompt.
StartTurn(box, att) ==
  /\ phase' = "running"
  /\ pc' = "outer"
  /\ aborted' = FALSE
  /\ wakeRequested' = FALSE
  /\ claimed' = Head(box)
  /\ nextTurn' = Tail(box)
  /\ decision' = "none"
  /\ attempt' = Claims(att, Head(box))

\* readyToDrive()
Ready == unload = "no" /\ phase \in {"idle", "maintenance"} /\ ~competing

-----------------------------------------------------------------------------
(* Callers: people, tools, other plugins.                                  *)

\* A caller changes the goal: create, edit, pause, resume, complete, block
\* and clear with the current reference.
ChangeGoal ==
  /\ Settled
  /\ ~broken
  /\ goal.version < MaxVersion
  /\ \/ goal.phase \in {"none", "complete"} /\ Commit("active", 0, TRUE)
     \/ goal.phase # "none" /\ Commit(goal.phase, goal.rounds, armed)
     \/ GoalActive /\ Commit("stopped", goal.rounds, FALSE)
     \/ /\ goal.phase \in {"active", "stopped"}
        /\ ~(GoalActive /\ armed)
        /\ goal.rounds < MaxRounds
        /\ Commit("active", goal.rounds, TRUE)
     \/ /\ goal.phase \in {"active", "stopped"}
        /\ Commit("complete", goal.rounds, FALSE)
     \/ goal.phase # "none" /\ Commit("none", 0, FALSE)
  /\ GoalChanged
  /\ held' = FALSE
  /\ exposed' = IF pc = "tail" /\ exposed = "no" THEN "late" ELSE exposed
  /\ UNCHANGED <<attempt, competing, unload, waits, agentVars, replay, calls>>

\* followup() of a prompt, with its inserted notification.
SendPrompt ==
  /\ Settled
  /\ calls < MaxCalls
  /\ calls' = calls + 1
  /\ competing' = IF Listening THEN TRUE ELSE competing
  /\ LET box == Append(nextTurn, Prompt)
         att == IF Listening /\ attempt.phase = "queued"
                THEN [attempt EXCEPT !.stale = TRUE] ELSE attempt
     IN IF phase = "idle"
        THEN StartTurn(box, att)
        ELSE /\ nextTurn' = box
             /\ attempt' = att
             /\ wakeRequested' = (wakeRequested \/ phase = "maintenance" \/ aborted)
             /\ UNCHANGED <<phase, pc, aborted, claimed, decision>>
  /\ UNCHANGED <<goalVars, needsCheckpoint, requested, loops, slot, unload, waits,
                 replay, held, exposed>>

\* cancel() without keepInbox.
ClearAndAbort(att) ==
  /\ nextTurn' = <<>>
  /\ attempt' = att
  /\ aborted' = (phase # "idle")
  /\ wakeRequested' = FALSE
  /\ UNCHANGED <<phase, pc, claimed, decision>>

Cancel ==
  /\ Settled
  /\ phase # "idle" \/ nextTurn # <<>>
  /\ \/ ClearAndAbort(Discards(attempt, nextTurn))
     \/ /\ aborted' = (phase # "idle")
        /\ UNCHANGED <<attempt, phase, pc, wakeRequested, nextTurn, claimed, decision>>
  /\ held' = (held \/ (phase = "running" /\ pc # "closed"))
  /\ UNCHANGED <<goalVars, competing, needsCheckpoint, requested, loops, slot, unload,
                 waits, replay, calls, exposed>>

\* runMaintenance(): the agent's status stays idle.
StartMaintenance ==
  /\ Settled
  /\ phase = "idle"
  /\ calls < MaxCalls
  /\ calls' = calls + 1
  /\ phase' = "maintenance"
  /\ UNCHANGED <<goalVars, driverVars, unload, waits, pc, aborted, wakeRequested,
                 nextTurn, claimed, decision, replay, held, exposed>>

\* The maintenance settles without a status event and replays a latched wake.
MaintenanceDone ==
  /\ Settled
  /\ phase = "maintenance"
  /\ IF wakeRequested /\ nextTurn # <<>>
     THEN StartTurn(nextTurn, attempt)
     ELSE /\ phase' = "idle"
          /\ aborted' = FALSE
          /\ wakeRequested' = FALSE
          /\ UNCHANGED <<pc, nextTurn, claimed, decision, attempt>>
  /\ UNCHANGED <<goalVars, competing, needsCheckpoint, requested, loops, slot, unload,
                 waits, replay, history>>

-----------------------------------------------------------------------------
(* The driver: requestDrive() and drive(), for one of its loops.           *)

\* What is remembered when the synchronous part of the drive returns.
Remembered(i) == IF loops[i] = "start" THEN i ELSE slot

\* drive() ends here; the loop looks at `requested' after a microtask.
EndDrive(i) == loops' = [loops EXCEPT ![i] = "loop"] /\ slot' = Remembered(i)

\* The rest of drive() once its checkpoint is not needed or has passed:
\* retire the last attempt, stop, block at the limit, or reserve a round.
Retire(i) ==
  /\ attempt # NoAttempt
  /\ attempt' = NoAttempt
  /\ needsCheckpoint' = TRUE
  /\ requested' = TRUE
  /\ EndDrive(i)
  /\ UNCHANGED <<goal, armed, broken, agentVars>>

NothingToDrive(i) ==
  /\ attempt = NoAttempt
  /\ ~Driven
  /\ EndDrive(i)
  /\ UNCHANGED <<attempt, needsCheckpoint, requested, goal, armed, broken,
                 agentVars>>

\* The block is a goal change like any other. If no loop is remembered, because
\* this drive has not returned to requestDrive() yet, the change starts another
\* one within it, up to its checkpoint.
BlockAtLimit(i) ==
  /\ attempt = NoAttempt
  /\ Driven /\ goal.rounds >= MaxRounds
  /\ goal' = [goal EXCEPT !.version = @ + 1, !.phase = "stopped"]
  /\ armed' = FALSE
  /\ IF slot # 0
     THEN needsCheckpoint' = TRUE /\ requested' = TRUE /\ EndDrive(i)
     ELSE /\ MayStartLoop
          /\ needsCheckpoint' = FALSE /\ requested' = FALSE
          /\ loops' = [loops EXCEPT ![i] = "loop", ![FreeLoop] = "flush"]
          /\ slot' = IF loops[i] = "start" THEN i ELSE FreeLoop
  /\ UNCHANGED <<attempt, broken, agentVars>>

\* followup() of the reserved round: an idle agent starts its turn at once,
\* maintenance latches the wake.
Reserve(i) ==
  /\ attempt = NoAttempt
  /\ Driven /\ goal.rounds < MaxRounds
  /\ LET message == Round(goal.version, goal.rounds + 1, FreshId)
         reservation == [NoAttempt EXCEPT !.message = message, !.phase = "queued"]
     IN IF phase = "idle"
        THEN StartTurn(Append(nextTurn, message), reservation)
        ELSE /\ nextTurn' = Append(nextTurn, message)
             /\ attempt' = reservation
             /\ wakeRequested' = TRUE
             /\ UNCHANGED <<phase, pc, aborted, claimed, decision>>
  /\ EndDrive(i)
  /\ UNCHANGED <<needsCheckpoint, requested, goal, armed, broken>>

Proceed(i) == Retire(i) \/ NothingToDrive(i) \/ BlockAtLimit(i) \/ Reserve(i)

LogsChange == goal' # goal

\* A drive begins: it ends, begins a checkpoint or goes on without one.
BeginDrive(i) ==
  /\ loops[i] \in {"start", "begin"}
  /\ \/ /\ ~Ready
        /\ EndDrive(i)
        /\ UNCHANGED <<goalVars, attempt, needsCheckpoint, requested, agentVars>>
     \/ /\ Ready /\ needsCheckpoint
        /\ needsCheckpoint' = FALSE
        /\ loops' = [loops EXCEPT ![i] = "flush"]
        /\ slot' = Remembered(i)
        /\ UNCHANGED <<goalVars, attempt, requested, agentVars>>
     \/ /\ Ready /\ ~needsCheckpoint
        /\ Proceed(i)
        /\ unsaved' = (unsaved \/ LogsChange)
        /\ uncovered' = IF LogsChange THEN Flushing ELSE uncovered
  /\ UNCHANGED <<competing, unload, waits, replay, history>>

\* The flush of a loop has stored what was logged before it began.
Stores(i) ==
  /\ unsaved' = ((unsaved /\ i \in uncovered) \/ LogsChange)
  /\ uncovered' = (IF LogsChange THEN Flushing ELSE uncovered) \ {i}

\* Faulty: a change during the checkpoint does not ask for another one.
FlushDoneOnce(i) ==
  /\ loops[i] = "flush" /\ Settled
  /\ IF Ready
     THEN Proceed(i)
     ELSE EndDrive(i) /\ UNCHANGED <<goal, armed, broken, attempt, needsCheckpoint,
                                     requested, agentVars>>
  /\ Stores(i)
  /\ UNCHANGED <<competing, unload, waits, replay, history>>

\* The checkpoint is stored: go on unless something came meanwhile.
FlushDone(i) ==
  /\ loops[i] = "flush" /\ Settled
  /\ IF Ready /\ ~needsCheckpoint
     THEN Proceed(i)
     ELSE EndDrive(i) /\ UNCHANGED <<goal, armed, broken, attempt, needsCheckpoint,
                                     requested, agentVars>>
  /\ Stores(i)
  /\ UNCHANGED <<competing, unload, waits, replay, history>>

\* The checkpoint fails: give up the authority to go on.
FlushFails(i) ==
  /\ loops[i] = "flush" /\ Settled
  /\ armed' = Disarmed
  /\ uncovered' = uncovered \ {i}
  /\ EndDrive(i)
  /\ UNCHANGED <<goal, broken, unsaved, attempt, competing, needsCheckpoint, requested,
                 unload, waits, agentVars, replay, history>>

\* The loop of requestDrive() looks whether it was asked to drive again.
LoopAgain(i) ==
  /\ loops[i] = "loop" /\ Settled
  /\ IF requested /\ unload = "no"
     THEN loops' = [loops EXCEPT ![i] = "begin"] /\ requested' = FALSE
     ELSE loops' = [loops EXCEPT ![i] = "retire"] /\ UNCHANGED requested
  /\ UNCHANGED <<goalVars, attempt, competing, needsCheckpoint, slot, unload, waits,
                 agentVars, replay, history>>

\* Faulty: a request that came after the loop's last look is forgotten.
RetireLoopForgets(i) ==
  /\ loops[i] = "retire" /\ Settled
  /\ loops' = [loops EXCEPT ![i] = "off"] /\ requested' = FALSE
  /\ slot' = 0
  /\ waits' = waits \ {i}
  /\ UNCHANGED <<goalVars, attempt, competing, needsCheckpoint, unload,
                 agentVars, replay, history>>

\* The callback that retires a loop's promise forgets whichever loop is
\* remembered, and starts another when one was asked for meanwhile.
RetireLoop(i) ==
  /\ loops[i] = "retire" /\ Settled
  /\ IF requested /\ unload = "no"
     THEN loops' = [loops EXCEPT ![i] = "start"] /\ requested' = FALSE
     ELSE loops' = [loops EXCEPT ![i] = "off"] /\ UNCHANGED requested
  /\ slot' = 0
  /\ waits' = waits \ {i}
  /\ UNCHANGED <<goalVars, attempt, competing, needsCheckpoint, unload,
                 agentVars, replay, history>>

-----------------------------------------------------------------------------
(* A turn of the agent and the driver's fence in it.                       *)

\* validReservation(): the claimed round owns the current revision.
Valid ==
  /\ unload = "no"
  /\ Same(claimed, attempt.message) /\ attempt.phase = "claimed" /\ ~attempt.stale
  /\ Driven
  /\ claimed.version = goal.version
  /\ claimed.round = goal.rounds + 1

Fenced == IsRound(claimed) /\ Listening

\* What a step of the turn leaves alone.
SameTurn == UNCHANGED <<competing, unload, waits, phase, claimed, replay, calls, held>>

\* The turn ends: what its turn/end and agent/error events do to the driver.
\* It drains on when it was not cut short and prompts are pending.
CloseTurn(reason) ==
  LET drains == reason \in {"completed", "max-tokens"} /\ nextTurn # <<>>
      reserved == attempt.phase \in {"claimed", "admitted"}
  IN
  /\ pc' = "closed"
  /\ decision' = IF drains THEN "drain" ELSE "exit"
  /\ aborted' = (aborted /\ ~drains)
  /\ wakeRequested' = (wakeRequested /\ ~drains)
  /\ exposed' = "no"
  /\ IF Listening /\ reason = "aborted" /\ reserved
     THEN attempt' = [attempt EXCEPT !.cancelled = TRUE]
     ELSE UNCHANGED attempt
  /\ IF Listening /\ (reason = "aborted" => ~reserved)
        /\ reason \in {"error", "max-tokens", "aborted"}
     THEN Disarm ELSE UNCHANGED goalVars
  /\ UNCHANGED <<needsCheckpoint, requested, loops, slot, nextTurn>>

Decide(d) ==
  /\ decision' = d
  /\ pc' = "tail"
  /\ UNCHANGED <<aborted, wakeRequested, nextTurn>>

\* The prompt's assembly or a listener in front of the fence settles the turn.
OuterEndsTurn ==
  /\ pc \in {"outer", "front", "tail"} /\ Settled
  /\ IF aborted THEN CloseTurn("aborted")
     ELSE \/ CloseTurn("error")
          \/ pc # "outer" /\ decision # "throw" /\ CloseTurn("blocked")
  /\ SameTurn

\* The prompt is assembled and the pre-step waterfall begins, over the listeners
\* that are there now. Without a fence, all run as if in front of its last look.
Dispatch ==
  /\ pc = "outer" /\ Settled
  /\ ~aborted
  /\ IF Fenced THEN pc' = "front" /\ decision' = "fenced"
               ELSE pc' = "tail" /\ decision' = "enter"
  /\ exposed' = IF IsRound(claimed) /\ ~Fenced THEN "unfenced" ELSE "no"
  /\ SameTurn
  /\ UNCHANGED <<goalVars, attempt, needsCheckpoint, requested, loops, slot, aborted,
                 wakeRequested, nextTurn>>

\* The fence looks at the round before the listeners behind it. An orphan finds
\* no attempt of its driver's.
FirstCheck ==
  /\ pc = "front" /\ Settled
  /\ \/ /\ decision = "fenced" /\ Valid
        /\ pc' = "inner"
        /\ UNCHANGED <<attempt, requested, loops, slot, aborted, wakeRequested, nextTurn,
                       decision>>
     \/ /\ decision = "fenced" /\ ~Valid
        /\ attempt' = IF Same(claimed, attempt.message) THEN NoAttempt ELSE attempt
        /\ Request
        /\ Decide("reject")
     \/ /\ decision = "orphan"
        /\ Decide("reject")
        /\ UNCHANGED <<attempt, requested, loops, slot>>
  /\ SameTurn /\ UNCHANGED <<goalVars, needsCheckpoint, exposed>>

\* The fence drops its round.
DropRound(d) ==
  /\ attempt' = NoAttempt
  /\ Request
  /\ Decide(d)
  /\ UNCHANGED <<goalVars, needsCheckpoint, exposed>>

\* Faulty: the goal is not looked at again after the listeners behind.
SecondCheckTrusts ==
  /\ pc = "inner" /\ Settled
  /\ \E d \in {"enter", "reject", "throw"} : Decide(d)
  /\ SameTurn
  /\ UNCHANGED <<goalVars, attempt, needsCheckpoint, requested, loops, slot, exposed>>

\* The listeners behind the fence settle and it looks at the round again.
SecondCheck ==
  /\ pc = "inner" /\ Settled
  /\ \E d \in {"enter", "reject", "throw"} :
       IF aborted \/ (d = "enter" /\ Valid)
       THEN /\ Decide(d)
            /\ UNCHANGED <<goalVars, attempt, needsCheckpoint, requested, loops, slot, exposed>>
       ELSE IF d = "reject" /\ Driven /\ claimed.version = goal.version
       THEN /\ Commit("stopped", goal.rounds, FALSE)
            /\ attempt' = NoAttempt
            /\ GoalChanged
            /\ Decide(d)
            /\ UNCHANGED exposed
       ELSE IF d = "reject"
       THEN /\ attempt' = NoAttempt
            /\ Decide(d)
            /\ UNCHANGED <<goalVars, needsCheckpoint, requested, loops, slot, exposed>>
       ELSE DropRound(IF d = "enter" THEN "reject" ELSE d)
  /\ SameTurn

\* What the strict fold says to a round in the log.
FoldAccepts(m) ==
  /\ ~broken
  /\ GoalActive
  /\ m.version = goal.version
  /\ m.round = goal.rounds + 1
  /\ m.round <= MaxRounds

\* The batch enters the step: user/message is logged, and the driver sees it.
EnterStep ==
  /\ pc = "tail" /\ Settled
  /\ ~aborted /\ decision = "enter"
  /\ pc' = "step"
  /\ exposed' = "no"
  /\ IF IsRound(claimed)
     THEN /\ goal' = IF FoldAccepts(claimed) THEN [goal EXCEPT !.rounds = @ + 1] ELSE goal
          /\ broken' = ~FoldAccepts(claimed)
          /\ attempt' = IF Listening /\ attempt.message = claimed
                        THEN [attempt EXCEPT !.phase = "admitted"] ELSE attempt
     ELSE UNCHANGED <<goal, broken, attempt>>
  /\ SameTurn
  /\ UNCHANGED <<unsaved, uncovered, armed, needsCheckpoint, requested, loops,
                 slot, aborted, wakeRequested, nextTurn, decision>>

\* The steps of the turn settle.
StepDone ==
  /\ pc = "step" /\ Settled
  /\ \E reason \in IF aborted THEN {"aborted"} ELSE {"completed", "max-tokens", "error"} :
       CloseTurn(reason)
  /\ SameTurn

\* The drain goes on with the next prompt, unless it was cancelled meanwhile.
DrainOn ==
  /\ pc = "closed" /\ Settled
  /\ decision = "drain" /\ ~aborted
  /\ StartTurn(nextTurn, attempt)
  /\ UNCHANGED <<goalVars, competing, needsCheckpoint, requested, loops, slot, unload,
                 waits, replay, history>>

\* The pause starts a loop, as any goal change; that loop is then asked again.
PausedAndRequested ==
  /\ needsCheckpoint' = TRUE
  /\ requested' = IF unload = "no" THEN TRUE ELSE requested
  /\ IF unload = "no" /\ slot = 0
     THEN /\ MayStartLoop
          /\ loops' = [loops EXCEPT ![FreeLoop] = "start"]
          /\ UNCHANGED slot
     ELSE UNCHANGED <<loops, slot>>

\* kick() retires: the driver's idle checkpoint pauses a goal whose round was
\* cancelled or never entered, and asks for the next drive.
GoIdle ==
  /\ pc = "closed" /\ Settled
  /\ decision = "exit" \/ aborted
  /\ phase' = "idle" /\ pc' = "off"
  /\ aborted' = FALSE /\ wakeRequested' = FALSE
  /\ claimed' = Nothing /\ decision' = "none"
  /\ replay' = (wakeRequested /\ nextTurn # <<>>)
  /\ waits' = IF replay' THEN waits ELSE waits \ {0}
  /\ competing' = (competing /\ ~Listening)
  /\ IF Listening /\ Driven
        /\ (attempt.phase \in {"queued", "claimed"} \/ attempt.cancelled)
     THEN /\ attempt' = NoAttempt
          /\ Commit("stopped", goal.rounds, FALSE)
          /\ PausedAndRequested
     ELSE /\ UNCHANGED <<goalVars, attempt, needsCheckpoint>>
          /\ IF broken THEN UNCHANGED <<requested, loops, slot>> ELSE Request
  /\ UNCHANGED <<unload, nextTurn, history>>

\* kick()'s last statement, after the observers of the idle status.
ReplayWake ==
  /\ replay /\ \A i \in Loops : loops[i] \notin {"start", "begin"}
  /\ replay' = FALSE
  /\ IF phase = "idle" /\ nextTurn # <<>>
     THEN StartTurn(nextTurn, attempt)
     ELSE UNCHANGED <<attempt, agentVars>>
  /\ UNCHANGED <<goalVars, competing, needsCheckpoint, requested, loops, slot, unload,
                 waits, history>>

-----------------------------------------------------------------------------
(* The plugin goes and comes back.                                         *)

\* The listeners go and the effect's disposer runs: disarm, and cancel a running
\* agent that has a round reserved, whose discarded prompts nobody observes. (The
\* fiber counts as unloading one microtask earlier: one step here.)
Unload ==
  /\ Settled
  /\ unload = "no"
  /\ unload' = "closing"
  /\ Disarm
  /\ IF attempt # NoAttempt /\ phase = "running"
     THEN ClearAndAbort([attempt EXCEPT !.stale = TRUE]) /\ waits' = {0, slot}
     ELSE /\ attempt' = IF attempt = NoAttempt THEN attempt
                        ELSE [attempt EXCEPT !.stale = TRUE]
          /\ waits' = {slot} \ {0}
          /\ UNCHANGED agentVars
  /\ UNCHANGED <<competing, needsCheckpoint, requested, loops, slot, replay, history>>

\* Its waits have settled and the state goes. A loop it did not remember may
\* still be flushing, and does nothing more.
Unloaded ==
  /\ Settled
  /\ unload = "closing" /\ waits = {}
  /\ unload' = "gone"
  /\ attempt' = NoAttempt
  /\ competing' = FALSE /\ needsCheckpoint' = FALSE /\ requested' = FALSE
  /\ loops' = [i \in Loops |-> "off"] /\ slot' = 0
  /\ uncovered' = {}
  /\ decision' = IF decision = "fenced" THEN "orphan" ELSE decision
  /\ UNCHANGED <<goal, armed, broken, unsaved, waits, phase, pc, aborted, wakeRequested,
                 nextTurn, claimed, replay, history>>

\* A new instance over the living agent inherits no authority.
Load ==
  /\ Settled
  /\ unload = "gone"
  /\ unload' = "no"
  /\ Disarm
  /\ UNCHANGED <<driverVars, waits, agentVars, replay, history>>

-----------------------------------------------------------------------------

Callers == ChangeGoal \/ SendPrompt \/ Cancel \/ StartMaintenance \/ Unload \/ Load

Driver(i) ==
  BeginDrive(i) \/ FlushDone(i) \/ FlushFails(i) \/ LoopAgain(i) \/ RetireLoop(i)

Agent == \/ Dispatch \/ FirstCheck \/ SecondCheck \/ EnterStep \/ StepDone \/ DrainOn
         \/ GoIdle \/ ReplayWake \/ MaintenanceDone

Next == Callers \/ (\E i \in Loops : Driver(i)) \/ Agent \/ OuterEndsTurn \/ Unloaded

Spec == Init /\ [][Next]_vars

\* Flushes, listeners, steps and maintenance settle, and JavaScript runs what
\* has settled.
FairSpec ==
  /\ Spec
  /\ \A i \in Loops : WF_vars(Driver(i))
  /\ WF_vars(Agent \/ OuterEndsTurn)
  /\ WF_vars(Unloaded)

-----------------------------------------------------------------------------
(* Properties.                                                             *)

Reserves == attempt = NoAttempt /\ attempt' # NoAttempt
Enters   == pc = "tail" /\ pc' = "step" /\ IsRound(claimed)

\* What the two looks of the fence give, for a round whose waterfall they are
\* in. If it enters its step no cancel of the running agent stopped it and the
\* driver is not unloading, whatever happened since it was reserved; and unless
\* the goal changed after the fence's last look, it is the next round of the
\* active goal. The waterfall of a round that was queued behind maintenance may
\* begin when an unload has taken the fence away: then the round enters.
FenceHolds ==
  [][Enters /\ exposed # "unfenced" =>
       /\ ~held /\ unload = "no"
       /\ exposed = "no" => ~broken']_vars

\* A round is reserved over a goal change that is not stored only while a
\* checkpoint that covers the change is under way, although changes, prompts
\* and other drives come during a checkpoint and one that began earlier does
\* not cover them. (A loop that runs beside another finds no checkpoint due once
\* the other has begun one, and does not wait for it.)
RoundsAreCovered ==
  [][Reserves => \/ ~unsaved'
                 \/ \E i \in Loops : loops'[i] = "flush" /\ i \notin uncovered']_vars

\* A cancelled maintenance takes the pending input and no status event tells
\* the driver: it waits for the end of the next turn.
Parked == phase # "running" /\ nextTurn = <<>> /\ (competing \/ attempt.cancelled)

\* No trigger of the driver is lost: an active, armed goal goes on until its
\* rounds run out or something disarms or ends it. And an unload finishes.
Converges ==
  /\ (Driven /\ unload = "no") ~> (~Driven \/ unload # "no" \/ Parked)
  /\ (unload = "closing") ~> (unload = "gone")

\* What the invariants of both packages assert: every round in the log can be
\* reconstructed from the goal before it.
LogFolds == ~broken

=============================================================================
