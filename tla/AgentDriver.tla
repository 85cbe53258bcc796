----------------------------- MODULE AgentDriver -----------------------------
(***************************************************************************)
(* The agent driver: ReactLoopAgent of packages/core/agent-loop together   *)
(* with the inbox of packages/core/agent, over the session's event trace.  *)
(*                                                                         *)
(* JavaScript runs one thing at a time, so an action is the code between   *)
(* two points where other code can run. There are two kinds of point:      *)
(*   - an await: any public operation of the agent may come first;         *)
(*   - a synchronous observer. Observers of agent/status and of the inbox  *)
(*     notifications may call any operation; observers of an append run    *)
(*     while the session refuses to append again (InAppend), so there only *)
(*     a cancel that appends nothing gets through.                         *)
(* pc names the point the driver is at. An operation called from inside    *)
(* another one returns before that one goes on: what the operations under  *)
(* way still have to do is a stack, the innermost one first. The observers *)
(* of the inbox's own appends are left out: all that gets through there is *)
(* an abort, which may come before and after the splice as well.           *)
(***************************************************************************)
EXTENDS Naturals, Sequences, SequencesExt

CONSTANTS
  Messages,   \* identities of the messages callers submit, each at most once
  LastTurn,   \* turns already in the session log the agent starts from
  MaxSteps    \* bound: after this many steps of a turn the model asks for no tool

ASSUME LastTurnAssumption == LastTurn \in Nat
ASSUME MaxStepsAssumption == MaxSteps \in Nat \ {0}

VARIABLES
  phase,          \* "idle" | "maintenance" | "running"
  turn,           \* phase.turn, or phase.lastTurn between turns
  step,           \* phase.step
  cause,          \* phase.abort.signal.reason, "none" while not aborted
  wakeRequested,  \* phase.wakeRequested
  nextTurn,       \* inbox list of prompts awaiting individual turns
  nextStep,       \* inbox list of input awaiting the next step boundary
  pc,             \* where the driver is, "off" when there is none
  claimed,        \* messages the driver has taken off the inbox for one step
  turnEnds,       \* turnEnds of the current turn, then the last turn's reason
  result,         \* what the awaited call hands back to turn()
  stack,          \* what the synchronous operations under way still have to do
  trace,          \* the session's turn and step events, folded
  (* history variables *)
  unsent,         \* messages not yet submitted
  ordinary,       \* messages that went to the next-turn list
  delivered,      \* turn in which a message was logged for the model, or 0
  awaited,        \* waking messages no live driver has taken charge of yet
  owed            \* waking messages a live driver has taken charge of

inboxVars  == <<nextTurn, nextStep>>
phaseVars  == <<phase, turn, step, cause, wakeRequested>>
driverVars == <<pc, claimed, turnEnds, result>>
history    == <<unsent, ordinary, delivered, awaited, owed>>
vars == <<phaseVars, inboxVars, driverVars, stack, trace, history>>

Session == INSTANCE SessionTrace WITH CallIds <- {}

Pending    == ToSet(nextTurn) \cup ToSet(nextStep)
HasPending == nextTurn # <<>> \/ nextStep # <<>>
Aborted    == cause # "none"

\* The driver is inside session.append(): observers must not append.
InAppend == pc \in {"turnStarted", "stepStarted", "stepEnded", "closed"}

\* What an operation has still to do: a send() its wakeDriver(), with the
\* classification it captured; a cancel() to clear the next-turn list, or to
\* reset the latch and abort; a retired kick() to replay its latched wake; and
\* a driver that was started to run up to its first await.
Frame(op, arg) == [op |-> op, arg |-> arg]
Frames == [op : {"wake"}, arg : {"live", "afterAbort"}]
            \cup [op : {"clear", "abort"}, arg : {"user", "disposed"}]
            \cup [op : {"replay", "drive"}, arg : {"none"}]

InCall(op) == stack # <<>> /\ Head(stack).op = op
Push(f) == stack' = <<f>> \o stack
Return  == stack' = Tail(stack)

\* Nothing synchronous is under way: an awaited call may resume.
Settled == stack = <<>>

\* Nor is there anything before the driver's own synchronous code goes on.
DriverNext == Settled \/ InCall("drive")

\* The synchronous beginning of a driver is over: its caller goes on.
Suspend == stack' = IF Settled THEN stack ELSE Tail(stack)

Init ==
  /\ phase = "idle"
  /\ turn = LastTurn
  /\ step = 0
  /\ cause = "none"
  /\ wakeRequested = FALSE
  /\ nextTurn = <<>>
  /\ nextStep = <<>>
  /\ pc = "off"
  /\ claimed = <<>>
  /\ turnEnds = "null"
  /\ result = "null"
  /\ stack = <<>>
  /\ trace = [Session!FreshTrace EXCEPT !.nextTurn = LastTurn + 1]
  /\ unsent = Messages
  /\ ordinary = {}
  /\ delivered = [m \in Messages |-> 0]
  /\ awaited = {}
  /\ owed = {}

-----------------------------------------------------------------------------
(* Waking the driver.                                                      *)

\* A live driver takes charge of every waking message it finds.
TakeCharge ==
  /\ owed' = owed \cup awaited
  /\ awaited' = {}

\* setPhase(running): the observers of agent/status run before the turn does,
\* and the turn runs up to its first await before `callers' go on.
StartDriver(callers) ==
  /\ phase' = "running"
  /\ step' = 0
  /\ cause' = "none"
  /\ wakeRequested' = FALSE
  /\ pc' = "turn"
  /\ stack' = <<Frame("drive", "none")>> \o callers
  /\ TakeCharge
  /\ UNCHANGED turn

\* Faulty: a driver that is being aborted is taken for a live one.
LatchesInMaintenanceOnly(afterAbort) == cause # "disposed" /\ phase = "maintenance"

\* Only maintenance and aborted drivers latch; disposal never does.
Latches(afterAbort) ==
  cause # "disposed" /\ (phase = "maintenance" \/ afterAbort)

\* wakeDriver(): start a driver when idle, else latch the wake or do nothing;
\* then the operation that called it returns.
WakeDriver(afterAbort) ==
  IF phase = "idle" THEN StartDriver(Tail(stack))
  ELSE /\ wakeRequested' = IF Latches(afterAbort) THEN TRUE ELSE wakeRequested
       /\ Return
       /\ UNCHANGED <<phase, turn, step, cause, pc, awaited, owed>>

-----------------------------------------------------------------------------
(* What callers do: send, cancel, remove, run maintenance.                 *)

\* send() up to its splice, whose observers run before the wake. A waking
\* message cannot join an aborted activity and goes to the next turn.
Send(m, target, wakeup) ==
  LET afterAbort == wakeup /\ phase # "idle" /\ Aborted
      list == IF afterAbort THEN "next-turn" ELSE target
      taken == phase = "running" /\ ~Aborted
  IN
  /\ m \in unsent /\ ~InAppend
  /\ unsent' = unsent \ {m}
  /\ nextTurn' = IF list = "next-turn" THEN Append(nextTurn, m) ELSE nextTurn
  /\ nextStep' = IF list = "next-step" THEN Append(nextStep, m) ELSE nextStep
  /\ ordinary' = IF list = "next-turn" THEN ordinary \cup {m} ELSE ordinary
  /\ IF wakeup THEN Push(Frame("wake", IF afterAbort THEN "afterAbort" ELSE "live"))
               ELSE UNCHANGED stack
  /\ awaited' = IF wakeup /\ ~taken /\ cause # "disposed"
                THEN awaited \cup {m} ELSE awaited
  /\ owed' = IF wakeup /\ taken THEN owed \cup {m} ELSE owed
  /\ UNCHANGED <<phaseVars, driverVars, trace, delivered>>

\* send() after its splice.
Wake ==
  /\ InCall("wake")
  /\ WakeDriver(Head(stack).arg = "afterAbort")
  /\ UNCHANGED <<inboxVars, claimed, turnEnds, result, trace,
                 unsent, ordinary, delivered>>

\* The abort at the end of a cancel(): the first cause wins.
Abort(c) ==
  /\ cause' = IF phase # "idle" /\ ~Aborted THEN c ELSE cause
  /\ owed' = IF phase = "idle" THEN owed ELSE {}

\* What cancel() does once the inbox is cleared: it takes a latched wake back,
\* whoever latched it, and aborts.
AbortCleared(c) ==
  /\ wakeRequested' = FALSE
  /\ awaited' = IF phase = "idle" THEN awaited ELSE {}
  /\ Abort(c)

\* What no part of a cancel() changes.
SameDriver == UNCHANGED <<phase, turn, step, driverVars, trace,
                          unsent, ordinary, delivered>>

\* cancel({keepInbox}): nothing but the abort.
CancelKeeping(c) ==
  /\ c # "disposed"
  /\ Abort(c)
  /\ SameDriver /\ UNCHANGED <<wakeRequested, inboxVars, stack, awaited>>

\* cancel() up to the first list it empties, whose observers run next. With
\* nothing pending it goes through; in an append window with messages
\* pending, clearing throws before anything is changed.
Cancel(c) ==
  /\ SameDriver
  /\ \/ /\ ~HasPending
        /\ AbortCleared(c)
        /\ UNCHANGED <<inboxVars, stack>>
     \/ /\ nextStep # <<>> /\ ~InAppend
        /\ nextStep' = <<>>
        /\ Push(Frame("clear", c))
        /\ UNCHANGED <<nextTurn, wakeRequested, cause, awaited, owed>>
     \/ /\ nextStep = <<>> /\ nextTurn # <<>> /\ ~InAppend
        /\ nextTurn' = <<>>
        /\ Push(Frame("abort", c))
        /\ UNCHANGED <<nextStep, wakeRequested, cause, awaited, owed>>

\* cancel() after the observers of the cleared next-step list.
ClearPrompts ==
  /\ InCall("clear")
  /\ SameDriver
  /\ IF nextTurn # <<>>
     THEN /\ nextTurn' = <<>>
          /\ stack' = <<Frame("abort", Head(stack).arg)>> \o Tail(stack)
          /\ UNCHANGED <<nextStep, wakeRequested, cause, awaited, owed>>
     ELSE AbortCleared(Head(stack).arg) /\ Return /\ UNCHANGED inboxVars

\* cancel() after the observers of the cleared next-turn list.
FinishCancel ==
  /\ InCall("abort")
  /\ SameDriver
  /\ AbortCleared(Head(stack).arg) /\ Return /\ UNCHANGED inboxVars

\* inbox.remove() of the i-th message of either list.
RemovePending(i) ==
  /\ ~InAppend
  /\ \/ /\ i \in DOMAIN nextTurn
        /\ nextTurn' = RemoveAt(nextTurn, i)
        /\ UNCHANGED nextStep
     \/ /\ i \in DOMAIN nextStep
        /\ nextStep' = RemoveAt(nextStep, i)
        /\ UNCHANGED nextTurn
  /\ UNCHANGED <<phaseVars, driverVars, stack, trace, history>>

RunMaintenance ==
  /\ phase = "idle"
  /\ phase' = "maintenance"
  /\ UNCHANGED <<turn, step, cause, wakeRequested, inboxVars, driverVars, stack,
                 trace, history>>

\* Faulty: the latched wake is not replayed.
MaintenanceDoneNoReplay ==
  /\ phase = "maintenance" /\ Settled
  /\ phase' = "idle"
  /\ cause' = "none"
  /\ wakeRequested' = FALSE
  /\ UNCHANGED <<turn, step, pc, awaited, owed, inboxVars, claimed, turnEnds,
                 result, stack, trace, unsent, ordinary, delivered>>

\* The maintenance job settles: back to idle, and replay a latched wake.
MaintenanceDone ==
  /\ phase = "maintenance" /\ Settled
  /\ IF wakeRequested /\ HasPending THEN StartDriver(stack)
     ELSE /\ phase' = "idle"
          /\ cause' = "none"
          /\ wakeRequested' = FALSE
          /\ UNCHANGED <<turn, step, pc, stack, awaited, owed>>
  /\ UNCHANGED <<inboxVars, claimed, turnEnds, result, trace,
                 unsent, ordinary, delivered>>

-----------------------------------------------------------------------------
(* Parts of turn().                                                        *)

\* Faulty: a claim takes every prompt.
ClaimAllPrompts(target) ==
  /\ claimed' = nextStep \o (IF target = "next-turn" THEN nextTurn ELSE <<>>)
  /\ nextStep' = <<>>
  /\ nextTurn' = IF target = "next-turn" THEN <<>> ELSE nextTurn
  /\ pc' = "preStep"
  /\ UNCHANGED <<trace, turnEnds, result, owed>>

\* Inbox.claim(): all next-step input, then one prompt at a turn's first step.
Claim(target) ==
  LET prompts == IF target = "next-turn" /\ nextTurn # <<>> THEN 1 ELSE 0
  IN
  /\ claimed' = nextStep \o SubSeq(nextTurn, 1, prompts)
  /\ nextStep' = <<>>
  /\ nextTurn' = SubSeq(nextTurn, prompts + 1, Len(nextTurn))
  /\ pc' = "preStep"
  /\ UNCHANGED <<trace, turnEnds, result, owed>>

\* The finally block of turn(): append turn/end. `next' is "drain" when the
\* turn left its loop by a break, "exit" when it returns false or throws.
CloseTurn(reason, next) ==
  /\ trace' = Session!Apply(trace, Session!TurnEnd(turn))
  /\ turnEnds' = reason
  /\ result' = next
  /\ claimed' = <<>>
  /\ pc' = "closed"
  /\ owed' = IF reason \in {"blocked", "aborted", "error"} THEN {} ELSE owed
  /\ UNCHANGED inboxVars

\* The catch block of turn().
FailTurn == CloseTurn(IF Aborted THEN "aborted" ELSE "error", "exit")

\* What no driver step between a turn's start and its end changes.
SameTurn == UNCHANGED <<phase, turn, cause, wakeRequested,
                        unsent, ordinary, awaited>>

\* Nor, once a turn has come to its first await, its caller.
AwaitedTurn == SameTurn /\ UNCHANGED stack

-----------------------------------------------------------------------------
(* The driver's steps, in the order of turn().                             *)

\* signal.throwIfAborted() before turn/start: no turn is opened.
RefuseTurn ==
  /\ pc = "turn" /\ DriverNext
  /\ Aborted
  /\ pc' = "exit"
  /\ Suspend
  /\ UNCHANGED <<phaseVars, inboxVars, claimed, turnEnds, result, trace, history>>

OpenTurn ==
  /\ pc = "turn" /\ DriverNext
  /\ ~Aborted
  /\ trace' = Session!Apply(trace, Session!TurnStart(turn + 1))
  /\ turn' = turn + 1
  /\ turnEnds' = "null"
  /\ pc' = "turnStarted"
  /\ UNCHANGED <<phase, step, cause, wakeRequested, inboxVars, claimed, result,
                 stack, history>>

FirstClaim ==
  /\ pc = "turnStarted" /\ DriverNext
  /\ IF Aborted THEN FailTurn /\ UNCHANGED stack ELSE Claim("next-turn") /\ Suspend
  /\ SameTurn /\ UNCHANGED <<step, delivered>>

\* preStep() after its claim: prompt assembly and the pre-step listeners may
\* reject, keep the batch, add runtime context, rewrite it to empty or throw;
\* an abort that came while they ran makes it throw.
PreStep ==
  /\ pc = "preStep" /\ Settled
  /\ result' \in IF Aborted THEN {"throw"}
                 ELSE {"reject", "propose", "context", "empty", "throw"}
  /\ claimed' = IF result' = "empty" THEN <<>> ELSE claimed
  /\ pc' = "decided"
  /\ AwaitedTurn /\ UNCHANGED <<step, inboxVars, turnEnds, trace, delivered, owed>>

NoInput == claimed = <<>> /\ result # "context"

\* turn() resumes with preStep's decision and enters no step.
EndAtDecision ==
  /\ pc = "decided" /\ Settled
  /\ \/ result = "throw" /\ FailTurn
     \/ result = "reject" /\ CloseTurn("blocked", "exit")
     \/ /\ result \notin {"throw", "reject"} /\ NoInput
        /\ \/ turnEnds # "null" /\ CloseTurn(turnEnds, "drain")
           \/ turnEnds = "null" /\ step = 0 /\ CloseTurn("completed", "exit")
  /\ AwaitedTurn /\ UNCHANGED <<step, delivered>>

\* Faulty: the signal is not looked at again after the decision.
EnterStepUnchecked ==
  /\ pc = "decided" /\ Settled
  /\ result \notin {"throw", "reject"}
  /\ NoInput => turnEnds = "null" /\ step > 0
  /\ trace' = Session!Apply(trace, Session!StepStart(turn, step + 1))
  /\ step' = step + 1
  /\ pc' = "stepStarted"
  /\ AwaitedTurn
  /\ UNCHANGED <<inboxVars, claimed, turnEnds, result, owed, delivered>>

\* turn() resumes with a batch, or owes the model a request: open a step.
EnterStep ==
  /\ pc = "decided" /\ Settled
  /\ result \notin {"throw", "reject"}
  /\ NoInput => turnEnds = "null" /\ step > 0
  /\ IF Aborted
     THEN FailTurn /\ UNCHANGED step
     ELSE /\ trace' = Session!Apply(trace, Session!StepStart(turn, step + 1))
          /\ step' = step + 1
          /\ pc' = "stepStarted"
          /\ UNCHANGED <<inboxVars, claimed, turnEnds, result, owed>>
  /\ AwaitedTurn /\ UNCHANGED delivered

\* One user/message of the batch becomes visible to the model.
LogMessage ==
  /\ pc = "stepStarted" /\ claimed # <<>>
  /\ delivered' = [delivered EXCEPT ![Head(claimed)] = turn]
  /\ claimed' = Tail(claimed)
  /\ AwaitedTurn /\ UNCHANGED <<step, pc, inboxVars, turnEnds, result, trace, owed>>

\* Faulty: an aborted step reports no outcome.
BeginStepForgetsThrow ==
  /\ pc = "stepStarted" /\ claimed = <<>>
  /\ pc' = IF Aborted THEN "stepped" ELSE "request"
  /\ AwaitedTurn
  /\ UNCHANGED <<step, inboxVars, claimed, turnEnds, result, trace, delivered, owed>>

\* step() starts unless the signal is aborted.
BeginStep ==
  /\ pc = "stepStarted" /\ claimed = <<>>
  /\ IF Aborted THEN pc' = "stepped" /\ result' = "throw"
                ELSE pc' = "request" /\ UNCHANGED result
  /\ AwaitedTurn
  /\ UNCHANGED <<step, inboxVars, claimed, turnEnds, trace, delivered, owed>>

StepReturns(r) == pc' = "stepped" /\ result' = r

\* The model stream settles: an abort throws; otherwise the answer completes
\* the turn, hits the token ceiling, asks for tools, fails or breaks off.
Request ==
  /\ pc = "request" /\ Settled
  /\ IF Aborted THEN StepReturns("throw")
     ELSE \/ \E r \in {"completed", "max-tokens", "throw"} : StepReturns(r)
          \/ pc' \in {"tools", "recover"} /\ UNCHANGED result
  /\ AwaitedTurn
  /\ UNCHANGED <<step, inboxVars, claimed, turnEnds, trace, delivered, owed>>

\* The request-error listeners settle: retry the request or fail the step.
Recover ==
  /\ pc = "recover" /\ Settled
  /\ \/ ~Aborted /\ pc' = "request" /\ UNCHANGED result
     \/ StepReturns("throw")
  /\ AwaitedTurn
  /\ UNCHANGED <<step, inboxVars, claimed, turnEnds, trace, delivered, owed>>

\* executeToolCalls() settles: a tool concluded the turn, the model is owed a
\* request, or the scheduler failed. An abort makes it return, not throw.
Tools ==
  /\ pc = "tools" /\ Settled
  /\ \E r \in {"completed", "null", "throw"} :
       /\ r = "null" => step < MaxSteps
       /\ StepReturns(r)
  /\ AwaitedTurn
  /\ UNCHANGED <<step, inboxVars, claimed, turnEnds, trace, delivered, owed>>

\* Faulty: a step that throws is left open.
EndStepOnSuccess ==
  /\ pc = "stepped" /\ Settled
  /\ turnEnds' = IF result = "throw" \/ turnEnds = "max-tokens"
                 THEN turnEnds ELSE result
  /\ trace' = IF result = "throw" THEN trace
              ELSE Session!Apply(trace, Session!StepEnd(turn, step))
  /\ pc' = "stepEnded"
  /\ AwaitedTurn /\ UNCHANGED <<step, inboxVars, claimed, result, delivered, owed>>

\* turn() resumes with the step's outcome; step/end is appended on every path.
EndStep ==
  /\ pc = "stepped" /\ Settled
  /\ turnEnds' = IF result = "throw" \/ turnEnds = "max-tokens"
                 THEN turnEnds ELSE result
  /\ trace' = Session!Apply(trace, Session!StepEnd(turn, step))
  /\ pc' = "stepEnded"
  /\ AwaitedTurn /\ UNCHANGED <<step, inboxVars, claimed, result, delivered, owed>>

\* After step/end: fail, offer the end to agent/turn-stopping, or go on.
AfterStep ==
  /\ pc = "stepEnded"
  /\ IF result = "throw" \/ Aborted THEN FailTurn
     ELSE IF turnEnds # "null" /\ nextStep = <<>>
          THEN /\ pc' = "stopping"
               /\ UNCHANGED <<inboxVars, claimed, turnEnds, result, trace, owed>>
          ELSE Claim("next-step")
  /\ AwaitedTurn /\ UNCHANGED <<step, delivered>>

\* The turn-stopping listeners settle; input they steered keeps the turn open.
Stopping ==
  /\ pc = "stopping" /\ Settled
  /\ \/ FailTurn
     \/ /\ ~Aborted
        /\ IF nextStep = <<>> THEN CloseTurn(turnEnds, "drain")
                              ELSE Claim("next-step")
  /\ AwaitedTurn /\ UNCHANGED <<step, delivered>>

\* After turn/end: a turn that left its loop by a break drains the inbox with
\* a fresh AbortController; every other ending retires the driver.
FinishTurn ==
  /\ pc = "closed" /\ DriverNext
  /\ IF result = "drain" /\ HasPending
     THEN /\ pc' = "turn"
          /\ step' = 0
          /\ cause' = "none"
          /\ wakeRequested' = FALSE
          /\ TakeCharge
     ELSE /\ pc' = "exit"
          /\ UNCHANGED <<step, cause, wakeRequested, awaited, owed>>
  /\ Suspend
  /\ UNCHANGED <<phase, turn, inboxVars, claimed, turnEnds, result,
                 trace, unsent, ordinary, delivered>>

\* kick() resumes: phase idle, whose observers run before a latched replay.
Retire ==
  /\ pc = "exit" /\ Settled
  /\ phase' = "idle"
  /\ pc' = "off"
  /\ step' = 0
  /\ cause' = "none"
  /\ wakeRequested' = FALSE
  /\ IF wakeRequested THEN Push(Frame("replay", "none")) ELSE UNCHANGED stack
  /\ UNCHANGED <<turn, inboxVars, claimed, turnEnds, result, trace,
                 unsent, ordinary, delivered, awaited, owed>>

\* The end of kick(): an observer may have started a driver or maintenance.
Replay ==
  /\ InCall("replay")
  /\ IF HasPending THEN WakeDriver(FALSE)
     ELSE Return /\ UNCHANGED <<phaseVars, pc, awaited, owed>>
  /\ UNCHANGED <<inboxVars, claimed, turnEnds, result, trace,
                 unsent, ordinary, delivered>>

-----------------------------------------------------------------------------
Driver ==
  \/ RefuseTurn \/ OpenTurn \/ FirstClaim \/ PreStep \/ EndAtDecision
  \/ EnterStep \/ LogMessage \/ BeginStep \/ Request \/ Recover \/ Tools
  \/ EndStep \/ AfterStep \/ Stopping \/ FinishTurn \/ Retire

Caller ==
  \/ \E m \in Messages, target \in {"next-turn", "next-step"}, wakeup \in BOOLEAN :
       Send(m, target, wakeup)
  \/ \E c \in {"user", "disposed"} : Cancel(c) \/ CancelKeeping(c)
  \/ \E i \in DOMAIN nextTurn \cup DOMAIN nextStep : RemovePending(i)
  \/ RunMaintenance

\* The innermost operation under way goes on.
Resume == Wake \/ ClearPrompts \/ FinishCancel \/ Replay

Next == Driver \/ Caller \/ Resume \/ MaintenanceDone

Spec == Init /\ [][Next]_vars

\* A promise that runs settles: the driver's own code goes on, and models,
\* tools, listeners and maintenance jobs are assumed to settle. Callers owe
\* nothing.
Fairness == /\ WF_vars(Driver)
            /\ WF_vars(Resume)
            /\ WF_vars(MaintenanceDone)

FairSpec == Spec /\ Fairness

-----------------------------------------------------------------------------
(* Properties.                                                             *)

PhaseType ==
  /\ phase \in {"idle", "maintenance", "running"}
  /\ turn \in Nat
  /\ step \in Nat
  /\ cause \in {"none", "user", "disposed"}
  /\ wakeRequested \in BOOLEAN

InboxType ==
  /\ nextTurn \in Seq(Messages)
  /\ nextStep \in Seq(Messages)
  /\ claimed \in Seq(Messages)

DriverType ==
  /\ pc \in {"off", "turn", "turnStarted", "preStep", "decided", "stepStarted",
             "request", "recover", "tools", "stepped", "stepEnded", "stopping",
             "closed", "exit"}
  /\ turnEnds \in {"null", "completed", "max-tokens", "blocked", "aborted", "error"}
  /\ result \in {"null", "throw", "reject", "propose", "context", "empty",
                 "completed", "max-tokens", "drain", "exit"}
  /\ pc = "stepped" => result \in {"null", "throw", "completed", "max-tokens"}
  /\ trace \in Session!TraceType

HistoryType ==
  /\ unsent \subseteq Messages
  /\ ordinary \subseteq Messages
  /\ delivered \in [Messages -> Nat]
  /\ awaited \subseteq Messages
  /\ owed \subseteq Messages

\* Every variable has its type.
TypeOK ==
  PhaseType /\ InboxType /\ DriverType /\ HistoryType /\ stack \in Seq(Frames)

\* Whatever interleaves, the driver appends only what the session's invariant
\* companion accepts: turns and steps are numbered without gap, nest and close.
ImplementsTrace == Session!Spec

\* Every message is in one place: with its caller, pending in one list,
\* claimed, logged for the model, or gone.  None is processed twice, and a
\* follow-up is the sole ordinary message of its own turn.
HandledOnce ==
  LET held == nextTurn \o nextStep \o claimed IN
  /\ IsInjective(held)
  /\ \A m \in ToSet(held) : m \notin unsent /\ delivered[m] = 0
  /\ \A m \in unsent : delivered[m] = 0
  /\ \A m, n \in ordinary :
       m # n /\ delivered[m] # 0 => delivered[m] # delivered[n]

\* The operation under way will start a driver or latch a wake.
WillWake(f) ==
  /\ f.op \in {"wake", "replay"}
  /\ cause # "disposed"
  /\ phase = "running" => f.arg = "afterAbort"

\* A waking message that came while no live driver could take it (behind
\* maintenance, an abort or a retiring driver) has a wake under way for it,
\* whatever operations run inside one another; until a cancel takes back the
\* wakes latched so far, those of messages its own observers sent included.
NoLostWake ==
  awaited \cap Pending # {} =>
    \/ phase # "idle" /\ wakeRequested
    \/ \E i \in DOMAIN stack : WillWake(stack[i])

\* Disposal never latches: it leaves no wake behind for its convergence.
DisposalLatchesNothing == cause = "disposed" => ~wakeRequested

\* Once a turn has been cancelled it opens no further step: the model is not
\* asked again, though the cancel came at any await or from any observer.
CancelStopsSteps ==
  [][trace.openStep = 0 /\ trace'.openStep # 0 => ~Aborted]_vars

\* A cancel() that clears the inbox is under way.
Clearing == \E i \in DOMAIN stack : stack[i].op \in {"clear", "abort"}

\* A cancelled activity converges, whatever it was waiting for, and a latched
\* wake is served: a driver starts unless the inbox is emptied or a cancel
\* that clears it comes.
Converges ==
  /\ Aborted ~> ~Aborted
  /\ (wakeRequested /\ HasPending)
       ~> (~HasPending \/ Clearing \/ (phase = "running" /\ ~Aborted))

-----------------------------------------------------------------------------
(* What the documentation says and the code does not do.                   *)

\* "Live drivers claim queued work themselves": a driver that was not
\* cancelled and left its last turn by a break, the exit that drains the
\* inbox, leaves no waking message it took charge of behind when it is idle.
LiveDriverClaims ==
  phase = "idle" /\ result = "drain" /\ Settled => owed \cap Pending = {}
=============================================================================
