---------------------------- MODULE SessionRepair ----------------------------
(***************************************************************************)
(* Crash recovery of a session log: interruptedTurnClosers() of            *)
(* packages/core/session, over the logs that the agent driver and the tool *)
(* scheduler can leave behind. A crash keeps a prefix of the log; the next *)
(* load scans it and appends synthetic results and boundaries, and may be  *)
(* cut short itself. The scan is one step per iteration of its loops, so   *)
(* that what it keeps can be compared with the prefix it has read.         *)
(*                                                                         *)
(* Events are those of SessionTrace; an assistant message carries the tool *)
(* calls it asks for and a synthetic result the event it cites (0: none).  *)
(* The position of an event in the log is its seq.                         *)
(***************************************************************************)
EXTENDS Naturals, Sequences, FiniteSets, Functions

CONSTANTS
  CallIds,    \* identities of tool calls; a later step may use one again
  MaxCalls,   \* bound: the calls one assistant message asks for
  MaxLog      \* bound: the session is not written to beyond this length

ASSUME MaxCallsAssumption == MaxCalls \in Nat
ASSUME MaxLogAssumption == MaxLog \in Nat

VARIABLES
  log,      \* the durable log
  trace,    \* the session's turn and step events, folded
  past,     \* history: the trace that each event of the log was appended to
  pc,       \* the session is "live", or a load is at its "scan" or "append"
  open,     \* what the scan keeps
  closers   \* the closing events still to append

repairVars == <<log, trace, past, pc, open, closers>>

Session == INSTANCE SessionTrace

Message(t, s, calls) ==
  [type |-> "assistant/message", turn |-> t, step |-> s, calls |-> calls]

Closer(t, s, c, cited) ==
  [type |-> "tool/result", turn |-> t, step |-> s, call |-> c,
   notStarted |-> cited = 0, cites |-> cited]

-----------------------------------------------------------------------------
(* The scan.                                                               *)

\* What the scan keeps: the open turn and step, and the calls without result
\* in transcript order, each with its step and the seq of its tool/call; then
\* the events it has passed, and the blocks of the next one.
NothingOpen ==
  [openTurn |-> 0, openStep |-> 0, pending |-> <<>>, seq |-> 0, block |-> 0]

Passed(turn, step, pending) ==
  [openTurn |-> turn, openStep |-> step, pending |-> pending,
   seq |-> open.seq + 1, block |-> 0]

\* pendingCalls.set(): a call that is set again keeps its place.
Pend(pending, step, c) ==
  LET entry == [call |-> c, step |-> step, seq |-> 0] IN
  IF \E i \in DOMAIN pending : pending[i].call = c
  THEN [i \in DOMAIN pending |-> IF pending[i].call = c THEN entry ELSE pending[i]]
  ELSE Append(pending, entry)

\* Faulty: the record of a call's start is overlooked.
CiteNothing(pending, c, seq) == pending

\* The seq of the tool/call of a pending call.
Cite(pending, c, seq) ==
  [i \in DOMAIN pending |-> IF pending[i].call = c THEN [pending[i] EXCEPT !.seq = seq]
                            ELSE pending[i]]

\* Faulty: the oldest pending call is taken for the one that has a result.
UnpendOldest(pending, c) == IF pending = <<>> THEN pending ELSE Tail(pending)

\* pendingCalls.delete(): at most one entry has the call.
Unpend(pending, c) ==
  LET place == {i \in DOMAIN pending : pending[i].call = c} IN
  IF place = {} THEN pending
  ELSE LET i == CHOOSE i \in place : TRUE
       IN [j \in 1 .. Len(pending) - 1 |-> IF j < i THEN pending[j] ELSE pending[j + 1]]

\* One iteration of the scan: the next event, or the next block of a message.
ScanEvent(e) ==
  LET turn == open.openTurn
      step == open.openStep
      pending == open.pending
  IN
  CASE e.type = "turn/start" -> Passed(e.turn, 0, <<>>)
    [] e.type = "turn/end"   -> Passed(0, 0, <<>>)
    [] e.type = "step/start" -> Passed(turn, e.step, pending)
    [] e.type = "step/end"   -> Passed(turn, 0, <<>>)
    [] e.type = "assistant/message" /\ open.block < Len(e.calls) ->
         [open EXCEPT !.pending = Pend(pending, e.step, e.calls[open.block + 1]),
                      !.block = @ + 1]
    [] e.type = "tool/call"   -> Passed(turn, step, Cite(pending, e.call, open.seq + 1))
    [] e.type = "tool/result" -> Passed(turn, step, Unpend(pending, e.call))
    [] OTHER                  -> Passed(turn, step, pending)

CallClosers ==
  [i \in DOMAIN open.pending |->
     Closer(open.openTurn, open.pending[i].step, open.pending[i].call, open.pending[i].seq)]

StepCloser ==
  IF open.openStep = 0 THEN <<>> ELSE <<Session!StepEnd(open.openTurn, open.openStep)>>

\* Faulty: the step is closed before its calls.
closersStepFirst ==
  IF open.openTurn = 0 THEN <<>>
  ELSE StepCloser \o CallClosers \o <<Session!TurnEnd(open.openTurn)>>

\* Faulty: a turn that is open between two steps is overlooked.
closersOfOpenStep ==
  IF open.openStep = 0 THEN <<>>
  ELSE CallClosers \o StepCloser \o <<Session!TurnEnd(open.openTurn)>>

\* The closers: results for the calls without one, then the open step's end,
\* then the turn's. A balanced log has none.
interruptedTurnClosers ==
  IF open.openTurn = 0 THEN <<>>
  ELSE CallClosers \o StepCloser \o <<Session!TurnEnd(open.openTurn)>>

-----------------------------------------------------------------------------
(* The log's writers, the crash and the recovery.                          *)

RepairInit ==
  /\ log = <<>> /\ past = <<>>
  /\ trace = Session!FreshTrace
  /\ pc = "live"
  /\ open = NothingOpen
  /\ closers = <<>>

Record(e) ==
  /\ log' = Append(log, e)
  /\ past' = Append(past, trace)
  /\ trace' = Session!Apply(trace, e)

Write(e) ==
  /\ pc = "live" /\ Len(log) < MaxLog
  /\ Session!Accepts(trace, e)
  /\ Record(e)
  /\ UNCHANGED <<pc, open, closers>>

\* The events of the open step, the calls its message asks for, and the calls
\* that have an event of a type in it.
Boundaries == {"turn/start", "turn/end", "step/start", "step/end"}

OpenStep == {i \in DOMAIN log : \A j \in i .. Len(log) : log[j].type \notin Boundaries}

Asked ==
  UNION {Range(log[i].calls) : i \in {j \in OpenStep : log[j].type = "assistant/message"}}

Seen(type) == {c \in CallIds : \E i \in OpenStep : log[i].type = type /\ log[i].call = c}

\* The agent driver opens and closes turns and steps, on every outcome.
WriteBoundary ==
  \/ Write(Session!TurnStart(trace.nextTurn))
  \/ Write(Session!TurnEnd(trace.openTurn))
  \/ Write(Session!StepStart(trace.openTurn, trace.nextStep))
  \/ Write(Session!StepEnd(trace.openTurn, trace.openStep))

\* One assistant message per step.
WriteMessage ==
  /\ OpenStep = {}
  /\ \E n \in 0 .. MaxCalls : \E calls \in [1 .. n -> CallIds] :
       /\ IsInjective(calls)
       /\ Write(Message(trace.openTurn, trace.openStep, calls))

\* The tool scheduler records a call, and later its result.
WriteTool ==
  \E c \in Asked :
    \/ /\ c \notin Seen("tool/call")
       /\ Write(Session!ToolCall(trace.openTurn, trace.openStep, c))
    \/ /\ c \notin Seen("tool/result")
       /\ Write(Session!ToolResult(trace.openTurn, trace.openStep, c, FALSE))

\* The log is all that is left; the next load begins to scan it.
Crash ==
  /\ pc' = "scan" /\ open' = NothingOpen /\ closers' = <<>>
  /\ UNCHANGED <<log, trace, past>>

Scan ==
  /\ pc = "scan" /\ open.seq < Len(log)
  /\ open' = ScanEvent(log[open.seq + 1])
  /\ UNCHANGED <<log, trace, past, pc, closers>>

Close ==
  /\ pc = "scan" /\ open.seq = Len(log)
  /\ pc' = "append" /\ closers' = interruptedTurnClosers /\ open' = NothingOpen
  /\ UNCHANGED <<log, trace, past>>

\* A crash may come between any two of the closers.
AppendCloser ==
  /\ pc = "append" /\ closers # <<>>
  /\ Record(Head(closers))
  /\ closers' = Tail(closers)
  /\ UNCHANGED <<pc, open>>

Resume ==
  /\ pc = "append" /\ closers = <<>>
  /\ pc' = "live"
  /\ UNCHANGED <<log, trace, past, open, closers>>

Recover == Scan \/ Close \/ AppendCloser \/ Resume

RepairNext == WriteBoundary \/ WriteMessage \/ WriteTool \/ Crash \/ Recover

RepairSpec == RepairInit /\ [][RepairNext]_repairVars

-----------------------------------------------------------------------------
\* Wherever a crash cuts the log, also inside an earlier recovery, the session's
\* invariant companion accepts every closer that is appended, so the log loads
\* again; the repaired log is between turns, and a log that is has no closers.
ClosersAccepted ==
  pc = "append" =>
    IF closers = <<>> THEN Session!Balanced(trace)
    ELSE Session!Accepts(trace, Head(closers)) /\ ~ Session!Balanced(trace)

\* Event e is a result of call c.
Answers(e, c) == e.type = "tool/result" /\ e.call = c

\* A provider gets exactly one result for every call that the interrupted step
\* asked for, in whatever part of it the crash came, and the advice in it is
\* right: a call that was recorded as started is never reported as not started,
\* and its record is cited.
InterruptedCallsAnswered ==
  pc = "append" =>
    /\ trace.openStep # 0 =>
         \A c \in Asked :
           Cardinality({i \in OpenStep : Answers(log[i], c)})
             + Cardinality({i \in DOMAIN closers : Answers(closers[i], c)}) = 1
    /\ \A i \in DOMAIN closers :
         LET e == closers[i] IN
         e.type = "tool/result" =>
           /\ e.notStarted <=> e.call \notin Seen("tool/call")
           /\ ~e.notStarted => log[e.cites] = Session!ToolCall(e.turn, e.step, e.call)
=============================================================================
