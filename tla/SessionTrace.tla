---------------------------- MODULE SessionTrace ----------------------------
(***************************************************************************)
(* The grammar of a session's event log, as the invariant companion of     *)
(* packages/core/session states it: a trace is folded over the log and     *)
(* every appended event must be accepted by the trace before it commits.   *)
(*                                                                         *)
(* This is the abstract specification of every writer of turn, step and    *)
(* tool events: the agent driver and the tool-call scheduler each keep a   *)
(* `trace' that they advance without looking at it, and implement Spec.    *)
(* The number 0 stands for the source's null (turns and steps count from   *)
(* 1). Of validateEvent's checks three are left out: that of the seq,      *)
(* Session.append numbers events itself; those of request/header,          *)
(* request/context and todo/write, that a turn is open, events which       *)
(* change no trace; and that of a tool result which replaces a message in  *)
(* place, a rewrite of the surface that answers no call.                   *)
(***************************************************************************)
EXTENDS Naturals

CONSTANT CallIds    \* identities of tool calls

VARIABLE trace

NoTurn == 0
NoStep == 0

FreshTrace == [openTurn |-> NoTurn, openStep |-> NoStep,
               nextTurn |-> 1, nextStep |-> 1, pendingCalls |-> {}]

TraceType ==
  [openTurn : Nat, openStep : Nat, nextTurn : Nat \ {0}, nextStep : Nat \ {0},
   pendingCalls : SUBSET CallIds]

-----------------------------------------------------------------------------
(* The events the trace looks at. `notStarted' is the synthetic result the  *)
(* crash repair writes for a call that was never recorded as started.       *)

TurnStart(t)        == [type |-> "turn/start", turn |-> t]
TurnEnd(t)          == [type |-> "turn/end", turn |-> t]
StepStart(t, s)     == [type |-> "step/start", turn |-> t, step |-> s]
StepEnd(t, s)       == [type |-> "step/end", turn |-> t, step |-> s]
AssistantMessage(t, s) == [type |-> "assistant/message", turn |-> t, step |-> s]
ToolCall(t, s, c)   == [type |-> "tool/call", turn |-> t, step |-> s, call |-> c]
ToolResult(t, s, c, notStarted) ==
  [type |-> "tool/result", turn |-> t, step |-> s, call |-> c,
   notStarted |-> notStarted]

\* Event e names the turn, or the turn and step, that are open.
InOpenTurn(tr, e) == e.turn # NoTurn /\ tr.openTurn = e.turn
InOpenStep(tr, e) == InOpenTurn(tr, e) /\ e.step # NoStep /\ tr.openStep = e.step

\* validateEvent raises no failure for e after trace tr.
Accepts(tr, e) ==
  \/ /\ e.type = "turn/start"
     /\ tr.openTurn = NoTurn
     /\ e.turn = tr.nextTurn
  \/ /\ e.type = "turn/end"
     /\ InOpenTurn(tr, e)
     /\ tr.openStep = NoStep
  \/ /\ e.type = "step/start"
     /\ InOpenTurn(tr, e)
     /\ tr.openStep = NoStep
     /\ e.step = tr.nextStep
  \/ /\ e.type \in {"step/end", "assistant/message", "tool/call"}
     /\ InOpenStep(tr, e)
  \/ /\ e.type = "tool/result"
     /\ InOpenStep(tr, e)
     /\ e.call \in tr.pendingCalls \/ e.notStarted

\* The transition of the committed event e, whether or not it was accepted.
Apply(tr, e) ==
  [openTurn |-> CASE e.type = "turn/start" -> e.turn
                  [] e.type = "turn/end"   -> NoTurn
                  [] OTHER                 -> tr.openTurn,
   openStep |-> CASE e.type = "step/start" -> e.step
                  [] e.type = "step/end"   -> NoStep
                  [] OTHER                 -> tr.openStep,
   nextTurn |-> IF e.type = "turn/end" THEN tr.nextTurn + 1 ELSE tr.nextTurn,
   nextStep |-> CASE e.type = "turn/start" -> 1
                  [] e.type = "step/end"   -> tr.nextStep + 1
                  [] OTHER                 -> tr.nextStep,
   pendingCalls |->
     CASE e.type = "step/end"    -> {}
       [] e.type = "tool/call"   -> tr.pendingCalls \cup {e.call}
       [] e.type = "tool/result" -> tr.pendingCalls \ {e.call}
       [] OTHER                  -> tr.pendingCalls]

-----------------------------------------------------------------------------
\* A trace between turns: where a session starts, resumes or is forked from.
Balanced(tr) ==
  /\ tr.openTurn = NoTurn
  /\ tr.openStep = NoStep
  /\ tr.pendingCalls = {}

Init == trace \in TraceType /\ Balanced(trace)

\* Every event that trace tr could accept: its turn and step are determined.
Candidates(tr) ==
  {TurnStart(tr.nextTurn), TurnEnd(tr.openTurn),
   StepStart(tr.openTurn, tr.nextStep), StepEnd(tr.openTurn, tr.openStep),
   AssistantMessage(tr.openTurn, tr.openStep)}
  \cup {ToolCall(tr.openTurn, tr.openStep, c) : c \in CallIds}
  \cup {ToolResult(tr.openTurn, tr.openStep, c, b) :
          c \in CallIds, b \in BOOLEAN}

Append1 ==
  \E e \in Candidates(trace) : Accepts(trace, e) /\ trace' = Apply(trace, e)

Spec == Init /\ [][Append1]_trace
=============================================================================
