------------------------ MODULE ToolScheduler_proofs ------------------------
(***************************************************************************)
(* Theorems about the scheduler of a step's tool calls, for any number of  *)
(* calls and any size of the pool: its appends are accepted, every call is *)
(* answered in model order, exclusive calls run alone, an abort starts no  *)
(* further call, and no dispatch outlives the step.                        *)
(***************************************************************************)
EXTENDS ToolScheduler, SequenceTheorems, TLAPS

\* The tool events the scheduler appends.
ToolEvents == {Session!ToolCall(Turn, Step, i) : i \in Calls}
                \cup {Session!ToolResult(Turn, Step, i, FALSE) : i \in Calls}

\* Every variable has its type.
TypeInv ==
  /\ pc \in {"group", "fill", "preparing", "prepared", "commit", "finalizing",
             "committed", "race", "draining", "failed", "groupEnd", "skip",
             "skipping", "done"}
  /\ first \in Nat /\ last \in Nat /\ started \in Nat /\ committed \in Nat
  /\ mode \in Modes
  /\ slot \in [Calls -> {"none", "post", "final"}]
  /\ inFlight \subseteq Calls /\ running \subseteq Calls /\ exclusive \subseteq Calls
  /\ aborted \in BOOLEAN /\ signal \in BOOLEAN
  /\ failure \in BOOLEAN /\ concluded \in BOOLEAN
  /\ log \in Seq(ToolEvents)

\* Where a group is in the step, and where its commits are.
CountInv ==
  /\ first <= committed /\ committed <= started /\ started <= N
  /\ pc \notin {"group", "skip", "skipping", "done", "failed"} =>
       started <= last /\ last <= N
  /\ pc \in {"preparing", "prepared"} => first < started
  /\ pc = "preparing" => committed < started
  /\ pc \in {"group", "groupEnd", "skip", "done"} => committed = started
  /\ pc = "skipping" => committed = started - 1
  /\ pc = "finalizing" => committed < last /\ slot[committed + 1] # "none"
  /\ pc = "done" => started = N

\* Unless one failed, every call that started and is not committed is being
\* prepared, runs, or has its result; one that settled since the last look at
\* the results is still in the map, so the race will find it.
PoolInv ==
  /\ running \subseteq inFlight
  /\ \A i \in Calls : slot[i] # "none" => i <= started /\ i \notin running
  /\ \A i \in inFlight : i <= started
  /\ pc = "preparing" => started \notin inFlight /\ slot[started] = "none"
  /\ ~failure /\ pc # "skipping" =>
       \A i \in Calls : committed < i /\ i <= started =>
         \/ slot[i] # "none" \/ i \in running
         \/ pc = "preparing" /\ i = started
  /\ pc \in {"committed", "fill", "race"} /\ NextReady => committed + 1 \in inFlight
  /\ pc \in {"group", "groupEnd", "skip", "skipping", "done"} => inFlight = {}
  /\ pc = "failed" => running = {}

\* A failure is looked at after every await, before the pool goes on.
FailureInv ==
  /\ pc \in {"draining", "failed"} => failure
  /\ pc \in {"fill", "groupEnd", "group", "skip", "skipping", "done"} => ~failure

\* The session's trace has the step open and awaits the results not committed.
TraceInv ==
  /\ trace.openTurn = Turn /\ trace.openStep = Step
  /\ \A c : c \in trace.pendingCalls <=> c \in Calls /\ committed < c /\ c <= started

\* The log has each started call and each committed result once, in order.
LogInv ==
  /\ \A k \in DOMAIN log :
       log[k].call <= IF log[k].type = "tool/call" THEN started ELSE committed
  /\ \A j, k \in DOMAIN log :
       j < k /\ log[j].type = log[k].type => log[j].call < log[k].call
  /\ \A i \in Calls : i <= started =>
       \E k \in DOMAIN log : log[k].type = "tool/call" /\ log[k].call = i
  /\ \A i \in Calls : i <= committed =>
       \E k \in DOMAIN log : log[k].type = "tool/result" /\ log[k].call = i

\* An exclusive call is a group of its own.
ExclusiveInv ==
  /\ \A i \in exclusive : i <= started /\ (i > first => mode = "exclusive")
  /\ pc \notin {"group", "skip", "skipping", "done", "failed"} /\ mode = "exclusive" =>
       last = first + 1

\* The pool is filled under an abort that was looked at.
AbortInv == pc = "fill" /\ signal => aborted

IInv ==
  /\ TypeInv /\ CountInv /\ PoolInv /\ FailureInv
  /\ TraceInv /\ LogInv /\ ExclusiveInv /\ ExclusiveBarrier /\ AbortInv

-----------------------------------------------------------------------------
(* What the parts of an action do.                                         *)

\* The events of a call are tool events.
LEMMA EventsAreTool ==
  ASSUME NEW i \in Calls
  PROVE  /\ Session!ToolCall(Turn, Step, i) \in ToolEvents
         /\ Session!ToolResult(Turn, Step, i, FALSE) \in ToolEvents
  BY DEF ToolEvents

\* Recording a call appends one event and makes the call pending.
LEMMA CallRecorded ==
  ASSUME log \in Seq(ToolEvents), NEW i \in Calls, RecordCall(i)
  PROVE  /\ log' \in Seq(ToolEvents)
         /\ Len(log') = Len(log) + 1
         /\ \A k \in 1 .. Len(log) : log'[k] = log[k]
         /\ log'[Len(log')] = Session!ToolCall(Turn, Step, i)
         /\ trace'.openTurn = trace.openTurn /\ trace'.openStep = trace.openStep
         /\ trace'.pendingCalls = trace.pendingCalls \cup {i}
         /\ started' = i
<1> DEFINE e == Session!ToolCall(Turn, Step, i)
<1>1. e \in ToolEvents /\ e.type = "tool/call" /\ e.call = i
  BY EventsAreTool DEF Session!ToolCall
<1>2. log' = Append(log, e) /\ trace' = Session!Apply(trace, e) /\ started' = i
  BY DEF RecordCall, Log
<1>3. /\ trace'.openTurn = trace.openTurn /\ trace'.openStep = trace.openStep
      /\ trace'.pendingCalls = trace.pendingCalls \cup {i}
  BY <1>1, <1>2 DEF Session!Apply
<1> HIDE DEF e
<1>4. /\ log' \in Seq(ToolEvents) /\ Len(log') = Len(log) + 1
      /\ \A k \in 1 .. Len(log) : log'[k] = log[k]
      /\ log'[Len(log')] = e
  BY <1>1, <1>2, AppendProperties
<1> QED
  BY <1>2, <1>3, <1>4 DEF e

\* Recording a result appends one event and the call is not pending any more.
LEMMA ResultRecorded ==
  ASSUME log \in Seq(ToolEvents), NEW i \in Calls, RecordResult(i)
  PROVE  /\ log' \in Seq(ToolEvents)
         /\ Len(log') = Len(log) + 1
         /\ \A k \in 1 .. Len(log) : log'[k] = log[k]
         /\ log'[Len(log')] = Session!ToolResult(Turn, Step, i, FALSE)
         /\ trace'.openTurn = trace.openTurn /\ trace'.openStep = trace.openStep
         /\ trace'.pendingCalls = trace.pendingCalls \ {i}
         /\ committed' = i
<1> DEFINE e == Session!ToolResult(Turn, Step, i, FALSE)
<1>1. e \in ToolEvents /\ e.type = "tool/result" /\ e.call = i
  BY EventsAreTool DEF Session!ToolResult
<1>2. log' = Append(log, e) /\ trace' = Session!Apply(trace, e) /\ committed' = i
  BY DEF RecordResult, Log
<1>3. /\ trace'.openTurn = trace.openTurn /\ trace'.openStep = trace.openStep
      /\ trace'.pendingCalls = trace.pendingCalls \ {i}
  BY <1>1, <1>2 DEF Session!Apply
<1> HIDE DEF e
<1>4. /\ log' \in Seq(ToolEvents) /\ Len(log') = Len(log) + 1
      /\ \A k \in 1 .. Len(log) : log'[k] = log[k]
      /\ log'[Len(log')] = e
  BY <1>1, <1>2, AppendProperties
<1> QED
  BY <1>2, <1>3, <1>4 DEF e

-----------------------------------------------------------------------------
(* The steps.                                                              *)

\* Which call a recording action is about.
LEMMA StartRecords ==
  ASSUME IInv, StartCall
  PROVE  /\ started + 1 \in Calls /\ RecordCall(started + 1)
         /\ started < last /\ last <= N /\ pc = "fill" /\ ~aborted
  BY NAssumption DEF IInv, TypeInv, CountInv, Calls, StartCall, MayStart

\* A call skipped after an abort is the next one.
LEMMA SkipRecords ==
  ASSUME IInv, RecordSkipped
  PROVE  started + 1 \in Calls /\ RecordCall(started + 1)
  BY NAssumption DEF IInv, TypeInv, CountInv, Calls, RecordSkipped

\* The result of a skipped call is that of the call just recorded.
LEMMA SkipAnswers ==
  ASSUME IInv, ResultSkipped
  PROVE  /\ started \in Calls /\ RecordResult(started)
         /\ committed = started - 1 /\ pc = "skipping"
  BY NAssumption DEF IInv, TypeInv, CountInv, Calls, ResultSkipped

\* A commit is of the next call, which has its result: it is answered, or its
\* finalization is awaited or fails.
LEMMA CommitCases ==
  ASSUME IInv, CommitNext \/ Finalized
  PROVE  /\ committed + 1 \in Calls /\ committed < last
         /\ slot[committed + 1] # "none" /\ committed + 1 <= started
         /\ pc \in {"commit", "finalizing"}
         /\ UNCHANGED <<group, started, pool, signal, exclusive>>
         /\ \/ /\ RecordResult(committed + 1) /\ committed' = committed + 1
               /\ pc' = "commit" /\ concluded' \in {concluded, TRUE} /\ UNCHANGED failure
            \/ /\ pc' = "draining" /\ failure' = TRUE
               /\ UNCHANGED <<committed, concluded, trace, log>>
            \/ /\ pc' = "finalizing"
               /\ UNCHANGED <<committed, failure, concluded, trace, log>>
<1> USE NAssumption DEF IInv, TypeInv, CountInv, PoolInv, Calls
<1>1. CASE CommitNext
  <2>1. committed < last /\ slot[committed + 1] # "none" /\ pc = "commit"
    BY <1>1 DEF CommitNext, NextReady
  <2>2. started <= last /\ last <= N
    BY <2>1
  <2>3. committed + 1 \in Calls /\ committed + 1 <= started
    BY <2>1, <2>2
  <2> QED
    BY <1>1, <2>1, <2>3 DEF CommitNext, RecordResult, Fail
<1>2. CASE Finalized
  <2>1. committed < last /\ slot[committed + 1] # "none" /\ pc = "finalizing"
    BY <1>2 DEF Finalized
  <2>2. started <= last /\ last <= N
    BY <2>1
  <2>3. committed + 1 \in Calls /\ committed + 1 <= started
    BY <2>1, <2>2
  <2> QED
    BY <1>2, <2>1, <2>3 DEF Finalized, RecordResult, Fail
<1> QED
  BY <1>1, <1>2

\* Every step keeps the types.
LEMMA TypeStep == IInv /\ [Next]_vars => TypeInv'
<1> SUFFICES ASSUME IInv, [Next]_vars PROVE TypeInv'
  OBVIOUS
<1> USE NAssumption, MaxParallelAssumption
    DEF IInv, TypeInv, CountInv, Calls, Modes, vars, group, pool, history
<1>1. CASE OpenGroup
  BY <1>1 DEF OpenGroup
<1>2. CASE Return
  BY <1>2 DEF Return
<1>3. CASE StartCall
  BY <1>3, StartRecords, CallRecorded DEF StartCall
<1>4. CASE StopFilling
  BY <1>4 DEF StopFilling, MayStart
<1>5. CASE Prepared
  <2>1. CASE Fail /\ UNCHANGED pool
    BY <1>5, <2>1 DEF Prepared, Fail
  <2>2. CASE /\ ~failure /\ pc' = "prepared" /\ UNCHANGED <<failure, slot>>
             /\ inFlight' = inFlight \cup {started} /\ running' = running \cup {started}
    BY <1>5, <2>2 DEF Prepared
  <2>3. ASSUME ~failure, pc' = "prepared", UNCHANGED <<failure, inFlight, running>>,
               NEW r \in {"post", "final"}, slot' = [slot EXCEPT ![started] = r]
        PROVE  TypeInv'
    BY <1>5, <2>3 DEF Prepared
  <2> QED
    BY <1>5, <2>1, <2>2, <2>3 DEF Prepared
<1>6. CASE CallStarted
  BY <1>6 DEF CallStarted, Fail
<1>7. CASE CommitNext \/ Finalized
  <2>1. /\ committed + 1 \in Calls /\ committed + 1 <= started
        /\ committed < last /\ slot[committed + 1] # "none"
        /\ pc \in {"commit", "finalizing"}
        /\ UNCHANGED <<group, started, pool, signal, exclusive>>
    BY <1>7, CommitCases
  <2>2. CASE /\ RecordResult(committed + 1) /\ committed' = committed + 1
             /\ pc' = "commit" /\ concluded' \in {concluded, TRUE} /\ UNCHANGED failure
    <3>1. log' \in Seq(ToolEvents)
      BY <2>1, <2>2, ResultRecorded
    <3>2. committed' \in Nat
      BY <2>2
    <3>3. concluded' \in BOOLEAN
      BY <2>2, Zenon
    <3> QED
      BY <2>1, <3>1, <3>2, <3>3, <2>2
  <2>3. CASE /\ pc' = "draining" /\ failure' = TRUE
             /\ UNCHANGED <<committed, concluded, trace, log>>
    BY <2>1, <2>3
  <2>4. CASE pc' = "finalizing" /\ UNCHANGED <<committed, failure, concluded, trace, log>>
    BY <2>1, <2>4
  <2> QED
    BY <1>7, <2>2, <2>3, <2>4, CommitCases
<1>8. CASE CommitsDone
  BY <1>8 DEF CommitsDone, NextReady
<1>9. CASE AfterCommits
  BY <1>9 DEF AfterCommits, Fail
<1>10. CASE Raced
  BY <1>10 DEF Raced
<1>11. CASE Drained
  BY <1>11 DEF Drained
<1>12. CASE CloseGroup
  BY <1>12 DEF CloseGroup
<1>13. CASE RecordSkipped
  BY <1>13, SkipRecords, CallRecorded DEF RecordSkipped
<1>14. CASE ResultSkipped
  BY <1>14, SkipAnswers, ResultRecorded DEF ResultSkipped
<1>15. CASE ReturnAborted
  BY <1>15 DEF ReturnAborted
<1>16. ASSUME NEW i \in Calls, Settle(i) PROVE TypeInv'
  BY <1>16 DEF Settle, Awaits
<1>17. CASE Abort
  BY <1>17 DEF Abort, Awaits
<1>18. CASE UNCHANGED vars
  BY <1>18
<1> QED
  BY <1>1, <1>2, <1>3, <1>4, <1>5, <1>6, <1>7, <1>8, <1>9, <1>10, <1>11,
     <1>12, <1>13, <1>14, <1>15, <1>16, <1>17, <1>18 DEF Next, Scheduler

\* A group's calls are started and committed in model order, and it closes only
\* when all that started are committed.
LEMMA CountStep == IInv /\ [Next]_vars => CountInv'
<1> SUFFICES ASSUME IInv, [Next]_vars PROVE CountInv'
  OBVIOUS
<1> USE NAssumption, MaxParallelAssumption
    DEF IInv, TypeInv, CountInv, PoolInv, FailureInv, Calls, NextReady, Modes,
        vars, group, pool, history
<1>1. CASE OpenGroup
  BY <1>1 DEF OpenGroup
<1>2. CASE Return
  BY <1>2 DEF Return
<1>3. CASE StartCall
  BY <1>3 DEF StartCall, RecordCall, Log, MayStart
<1>4. CASE StopFilling
  BY <1>4 DEF StopFilling, MayStart
<1>5. CASE Prepared
  BY <1>5 DEF Prepared, Fail
<1>6. CASE CallStarted
  BY <1>6 DEF CallStarted, Fail
<1>7. CASE CommitNext \/ Finalized
  <2>1. /\ committed + 1 \in Calls /\ committed + 1 <= started
        /\ committed < last /\ slot[committed + 1] # "none"
        /\ pc \in {"commit", "finalizing"}
        /\ UNCHANGED <<group, started, pool, signal, exclusive>>
    BY <1>7, CommitCases
  <2>2. CASE /\ committed' = committed + 1
             /\ pc' = "commit" /\ concluded' \in {concluded, TRUE} /\ UNCHANGED failure
    BY <2>1, <2>2
  <2>3. CASE /\ pc' = "draining" /\ failure' = TRUE
             /\ UNCHANGED <<committed, concluded, trace, log>>
    BY <2>1, <2>3
  <2>4. CASE pc' = "finalizing" /\ UNCHANGED <<committed, failure, concluded, trace, log>>
    BY <2>1, <2>4
  <2> QED
    BY <1>7, <2>2, <2>3, <2>4, CommitCases
<1>8. CASE CommitsDone
  BY <1>8 DEF CommitsDone, NextReady
<1>9. CASE AfterCommits
  BY <1>9 DEF AfterCommits, Fail
<1>10. CASE Raced
  BY <1>10 DEF Raced
<1>11. CASE Drained
  BY <1>11 DEF Drained
<1>12. CASE CloseGroup
  BY <1>12 DEF CloseGroup
<1>13. CASE RecordSkipped
  BY <1>13 DEF RecordSkipped, RecordCall, Log
<1>14. CASE ResultSkipped
  BY <1>14 DEF ResultSkipped, RecordResult, Log
<1>15. CASE ReturnAborted
  BY <1>15 DEF ReturnAborted
<1>16. ASSUME NEW i \in Calls, Settle(i) PROVE CountInv'
  BY <1>16 DEF Settle, Awaits
<1>17. CASE Abort
  BY <1>17 DEF Abort, Awaits
<1>18. CASE UNCHANGED vars
  BY <1>18
<1> QED
  BY <1>1, <1>2, <1>3, <1>4, <1>5, <1>6, <1>7, <1>8, <1>9, <1>10, <1>11,
     <1>12, <1>13, <1>14, <1>15, <1>16, <1>17, <1>18 DEF Next, Scheduler

\* No started call is lost between its dispatch, its result and its commit.
LEMMA PoolStep == IInv /\ [Next]_vars => PoolInv'
<1> SUFFICES ASSUME IInv, [Next]_vars PROVE PoolInv'
  OBVIOUS
<1> USE NAssumption, MaxParallelAssumption
    DEF IInv, TypeInv, CountInv, PoolInv, FailureInv, NextReady, Calls, Modes,
        vars, group, pool, history
<1>1. CASE OpenGroup
  BY <1>1 DEF OpenGroup
<1>2. CASE Return
  BY <1>2 DEF Return
<1>3. CASE StartCall
  BY <1>3 DEF StartCall, RecordCall, Log, MayStart
<1>4. CASE StopFilling
  BY <1>4 DEF StopFilling, MayStart
<1>5. CASE Prepared
  <2>1. CASE Fail /\ UNCHANGED pool
    BY <1>5, <2>1 DEF Prepared, Fail
  <2>2. CASE /\ ~failure /\ pc' = "prepared" /\ UNCHANGED <<failure, slot>>
             /\ inFlight' = inFlight \cup {started} /\ running' = running \cup {started}
    BY <1>5, <2>2 DEF Prepared
  <2>3. ASSUME ~failure, pc' = "prepared", UNCHANGED <<failure, inFlight, running>>,
               NEW r \in {"post", "final"}, slot' = [slot EXCEPT ![started] = r]
        PROVE  PoolInv'
    BY <1>5, <2>3 DEF Prepared
  <2> QED
    BY <1>5, <2>1, <2>2, <2>3 DEF Prepared
<1>6. CASE CallStarted
  BY <1>6 DEF CallStarted, Fail
<1>7. CASE CommitNext \/ Finalized
  <2>1. /\ committed + 1 \in Calls /\ committed + 1 <= started
        /\ committed < last /\ slot[committed + 1] # "none"
        /\ pc \in {"commit", "finalizing"}
        /\ UNCHANGED <<group, started, pool, signal, exclusive>>
    BY <1>7, CommitCases
  <2>2. CASE /\ committed' = committed + 1
             /\ pc' = "commit" /\ concluded' \in {concluded, TRUE} /\ UNCHANGED failure
    BY <2>1, <2>2
  <2>3. CASE /\ pc' = "draining" /\ failure' = TRUE
             /\ UNCHANGED <<committed, concluded, trace, log>>
    BY <2>1, <2>3
  <2>4. CASE pc' = "finalizing" /\ UNCHANGED <<committed, failure, concluded, trace, log>>
    BY <2>1, <2>4
  <2> QED
    BY <1>7, <2>2, <2>3, <2>4, CommitCases
<1>8. CASE CommitsDone
  BY <1>8 DEF CommitsDone, NextReady
<1>9. CASE AfterCommits
  BY <1>9 DEF AfterCommits, Fail
<1>10. CASE Raced
  BY <1>10 DEF Raced
<1>11. CASE Drained
  BY <1>11 DEF Drained
<1>12. CASE CloseGroup
  BY <1>12 DEF CloseGroup
<1>13. CASE RecordSkipped
  BY <1>13 DEF RecordSkipped, RecordCall, Log
<1>14. CASE ResultSkipped
  BY <1>14 DEF ResultSkipped, RecordResult, Log
<1>15. CASE ReturnAborted
  BY <1>15 DEF ReturnAborted
<1>16. ASSUME NEW i \in Calls, Settle(i) PROVE PoolInv'
  <2>1. ASSUME NEW r \in {"post", "final"}, slot' = [slot EXCEPT ![i] = r], UNCHANGED failure
        PROVE  PoolInv'
    BY <1>16, <2>1 DEF Settle, Awaits
  <2>2. CASE failure' = TRUE /\ UNCHANGED slot
    BY <1>16, <2>2 DEF Settle, Awaits
  <2> QED
    BY <1>16, <2>1, <2>2 DEF Settle
<1>17. CASE Abort
  BY <1>17 DEF Abort, Awaits
<1>18. CASE UNCHANGED vars
  BY <1>18
<1> QED
  BY <1>1, <1>2, <1>3, <1>4, <1>5, <1>6, <1>7, <1>8, <1>9, <1>10, <1>11,
     <1>12, <1>13, <1>14, <1>15, <1>16, <1>17, <1>18 DEF Next, Scheduler

\* The scheduler goes on only after a look at the failure.
LEMMA FailureStep == IInv /\ [Next]_vars => FailureInv'
<1> SUFFICES ASSUME IInv, [Next]_vars PROVE FailureInv'
  OBVIOUS
<1> USE NAssumption, MaxParallelAssumption
    DEF IInv, TypeInv, CountInv, PoolInv, FailureInv, Calls, vars, group, pool,
        history
<1>1. CASE OpenGroup
  BY <1>1 DEF OpenGroup
<1>2. CASE Return
  BY <1>2 DEF Return
<1>3. CASE StartCall
  BY <1>3 DEF StartCall, RecordCall, Log, MayStart
<1>4. CASE StopFilling
  BY <1>4 DEF StopFilling, MayStart
<1>5. CASE Prepared
  BY <1>5 DEF Prepared, Fail
<1>6. CASE CallStarted
  BY <1>6 DEF CallStarted, Fail
<1>7. CASE CommitNext \/ Finalized
  <2>1. /\ committed + 1 \in Calls /\ committed + 1 <= started
        /\ committed < last /\ slot[committed + 1] # "none"
        /\ pc \in {"commit", "finalizing"}
        /\ UNCHANGED <<group, started, pool, signal, exclusive>>
    BY <1>7, CommitCases
  <2>2. CASE /\ committed' = committed + 1
             /\ pc' = "commit" /\ concluded' \in {concluded, TRUE} /\ UNCHANGED failure
    BY <2>1, <2>2
  <2>3. CASE /\ pc' = "draining" /\ failure' = TRUE
             /\ UNCHANGED <<committed, concluded, trace, log>>
    BY <2>1, <2>3
  <2>4. CASE pc' = "finalizing" /\ UNCHANGED <<committed, failure, concluded, trace, log>>
    BY <2>1, <2>4
  <2> QED
    BY <1>7, <2>2, <2>3, <2>4, CommitCases
<1>8. CASE CommitsDone
  BY <1>8 DEF CommitsDone, NextReady
<1>9. CASE AfterCommits
  BY <1>9 DEF AfterCommits, Fail
<1>10. CASE Raced
  BY <1>10 DEF Raced
<1>11. CASE Drained
  BY <1>11 DEF Drained
<1>12. CASE CloseGroup
  BY <1>12 DEF CloseGroup
<1>13. CASE RecordSkipped
  BY <1>13 DEF RecordSkipped, RecordCall, Log
<1>14. CASE ResultSkipped
  BY <1>14 DEF ResultSkipped, RecordResult, Log
<1>15. CASE ReturnAborted
  BY <1>15 DEF ReturnAborted
<1>16. ASSUME NEW i \in Calls, Settle(i) PROVE FailureInv'
  BY <1>16 DEF Settle, Awaits
<1>17. CASE Abort
  BY <1>17 DEF Abort, Awaits
<1>18. CASE UNCHANGED vars
  BY <1>18
<1> QED
  BY <1>1, <1>2, <1>3, <1>4, <1>5, <1>6, <1>7, <1>8, <1>9, <1>10, <1>11,
     <1>12, <1>13, <1>14, <1>15, <1>16, <1>17, <1>18 DEF Next, Scheduler

\* What a step records: a call, the next call's result, or nothing.
LEMMA Recording ==
  IInv /\ [Next]_vars =>
    \/ /\ started + 1 \in Calls /\ RecordCall(started + 1) /\ UNCHANGED committed
    \/ /\ committed + 1 \in Calls /\ committed + 1 <= started
       /\ RecordResult(committed + 1) /\ UNCHANGED started
    \/ UNCHANGED <<trace, log, started, committed>>
<1> SUFFICES ASSUME IInv, [Next]_vars
             PROVE  \/ /\ started + 1 \in Calls /\ RecordCall(started + 1)
                       /\ UNCHANGED committed
                    \/ /\ committed + 1 \in Calls /\ committed + 1 <= started
                       /\ RecordResult(committed + 1) /\ UNCHANGED started
                    \/ UNCHANGED <<trace, log, started, committed>>
  OBVIOUS
<1>1. CASE StartCall
  BY <1>1, StartRecords DEF StartCall
<1>2. CASE RecordSkipped
  BY <1>2, SkipRecords DEF RecordSkipped
<1>3. CASE ResultSkipped
  <2>1. committed + 1 = started
    BY <1>3, SkipAnswers DEF IInv, TypeInv
  <2> QED
    BY <1>3, <2>1, SkipAnswers DEF ResultSkipped, IInv, TypeInv
<1>4. CASE CommitNext \/ Finalized
  BY <1>4, CommitCases
<1>5. CASE UNCHANGED <<trace, log, started, committed>>
  BY <1>5
<1>6. OpenGroup \/ Return \/ StopFilling \/ Prepared \/ CallStarted \/ CommitsDone
        \/ AfterCommits \/ Raced \/ Drained \/ CloseGroup \/ ReturnAborted
        \/ (\E i \in Calls : Settle(i)) \/ Abort \/ UNCHANGED vars =>
      UNCHANGED <<trace, log, started, committed>>
  BY DEF OpenGroup, Return, StopFilling, Prepared, CallStarted, CommitsDone, AfterCommits,
         Raced, Drained, CloseGroup, ReturnAborted, Settle, Abort, vars, history
<1> QED
  BY <1>1, <1>2, <1>3, <1>4, <1>5, <1>6 DEF Next, Scheduler

\* The pending calls of the trace are those not answered yet.
LEMMA TraceStep == IInv /\ [Next]_vars => TraceInv'
<1> SUFFICES ASSUME IInv, [Next]_vars PROVE TraceInv'
  OBVIOUS
<1> USE DEF Calls
<1>1. /\ TraceInv /\ log \in Seq(ToolEvents) /\ started \in Nat /\ committed \in Nat
      /\ committed <= started
  BY DEF IInv, TypeInv, CountInv
<1>2. CASE started + 1 \in Calls /\ RecordCall(started + 1) /\ UNCHANGED committed
  BY <1>1, <1>2, CallRecorded DEF TraceInv
<1>3. CASE /\ committed + 1 \in Calls /\ committed + 1 <= started
           /\ RecordResult(committed + 1) /\ UNCHANGED started
  <2>1. /\ trace'.openTurn = trace.openTurn /\ trace'.openStep = trace.openStep
        /\ trace'.pendingCalls = trace.pendingCalls \ {committed + 1}
        /\ committed' = committed + 1
    BY <1>1, <1>3, ResultRecorded
  <2>2. started' = started
    BY <1>3
  <2> QED
    BY <1>1, <2>1, <2>2 DEF TraceInv
<1>4. CASE UNCHANGED <<trace, log, started, committed>>
  BY <1>1, <1>4 DEF TraceInv
<1> QED
  BY <1>2, <1>3, <1>4, Recording

\* The log of a call that is recorded.
LEMMA LogOfCall ==
  ASSUME LogInv, log \in Seq(ToolEvents), started \in Nat, committed \in Nat,
         started + 1 \in Calls, RecordCall(started + 1), UNCHANGED committed
  PROVE  LogInv'
<1> DEFINE n == Len(log')
<1>1. /\ n = Len(log) + 1 /\ Len(log) \in Nat
      /\ DOMAIN log = 1 .. Len(log) /\ DOMAIN log' = 1 .. n
      /\ \A k \in 1 .. Len(log) : log'[k] = log[k]
      /\ log'[n].type = "tool/call" /\ log'[n].call = started + 1 /\ started' = started + 1
  <2>1. /\ log' \in Seq(ToolEvents) /\ Len(log') = Len(log) + 1
        /\ \A k \in 1 .. Len(log) : log'[k] = log[k]
        /\ log'[Len(log')] = Session!ToolCall(Turn, Step, started + 1)
        /\ started' = started + 1
    BY CallRecorded
  <2>2. /\ Len(log) \in Nat /\ DOMAIN log = 1 .. Len(log)
        /\ DOMAIN log' = 1 .. Len(log')
    BY <2>1
  <2> QED
    BY <2>1, <2>2 DEF Session!ToolCall
<1> HIDE DEF n
<1>2. \A k \in DOMAIN log : log[k].call \in Nat
  BY DEF ToolEvents, Session!ToolCall, Session!ToolResult, Calls
<1>3. \A k \in DOMAIN log' :
        log'[k].call <= IF log'[k].type = "tool/call" THEN started' ELSE committed'
  BY <1>1, <1>2 DEF LogInv
<1>4. \A j, k \in DOMAIN log' :
        j < k /\ log'[j].type = log'[k].type => log'[j].call < log'[k].call
  BY <1>1, <1>2 DEF LogInv
<1>5. \A i \in Calls : i <= started' =>
        \E k \in DOMAIN log' : log'[k].type = "tool/call" /\ log'[k].call = i
  <2> SUFFICES ASSUME NEW i \in Calls, i <= started'
               PROVE  \E k \in DOMAIN log' : log'[k].type = "tool/call" /\ log'[k].call = i
    OBVIOUS
  <2>1. CASE i = started + 1
    BY <1>1, <2>1
  <2>2. CASE i <= started
    <3>1. PICK k \in DOMAIN log : log[k].type = "tool/call" /\ log[k].call = i
      BY <2>2 DEF LogInv
    <3> QED
      BY <1>1, <3>1
  <2> QED
    BY <1>1, <2>1, <2>2 DEF Calls
<1>6. \A i \in Calls : i <= committed' =>
        \E k \in DOMAIN log' : log'[k].type = "tool/result" /\ log'[k].call = i
  BY <1>1 DEF LogInv
<1> QED
  BY <1>3, <1>4, <1>5, <1>6 DEF LogInv

\* The log of a result that is recorded.
LEMMA LogOfResult ==
  ASSUME LogInv, log \in Seq(ToolEvents), started \in Nat, committed \in Nat,
         committed + 1 \in Calls, RecordResult(committed + 1), UNCHANGED started
  PROVE  LogInv'
<1> DEFINE n == Len(log')
<1>1. /\ n = Len(log) + 1 /\ Len(log) \in Nat
      /\ DOMAIN log = 1 .. Len(log) /\ DOMAIN log' = 1 .. n
      /\ \A k \in 1 .. Len(log) : log'[k] = log[k]
      /\ log'[n].type = "tool/result" /\ log'[n].call = committed + 1
      /\ committed' = committed + 1
  <2>1. /\ log' \in Seq(ToolEvents) /\ Len(log') = Len(log) + 1
        /\ \A k \in 1 .. Len(log) : log'[k] = log[k]
        /\ log'[Len(log')] = Session!ToolResult(Turn, Step, committed + 1, FALSE)
        /\ committed' = committed + 1
    BY ResultRecorded
  <2>2. /\ Len(log) \in Nat /\ DOMAIN log = 1 .. Len(log)
        /\ DOMAIN log' = 1 .. Len(log')
    BY <2>1
  <2> QED
    BY <2>1, <2>2 DEF Session!ToolResult
<1> HIDE DEF n
<1>2. \A k \in DOMAIN log :
        log[k].call \in Nat /\ log[k].type \in {"tool/call", "tool/result"}
  BY DEF ToolEvents, Session!ToolCall, Session!ToolResult, Calls
<1>3. \A k \in DOMAIN log' :
        log'[k].call <= IF log'[k].type = "tool/call" THEN started' ELSE committed'
  BY <1>1, <1>2 DEF LogInv
<1>4. \A j, k \in DOMAIN log' :
        j < k /\ log'[j].type = log'[k].type => log'[j].call < log'[k].call
  BY <1>1, <1>2 DEF LogInv
<1>5. \A i \in Calls : i <= committed' =>
        \E k \in DOMAIN log' : log'[k].type = "tool/result" /\ log'[k].call = i
  <2> SUFFICES ASSUME NEW i \in Calls, i <= committed'
               PROVE  \E k \in DOMAIN log' : log'[k].type = "tool/result" /\ log'[k].call = i
    OBVIOUS
  <2>1. CASE i = committed + 1
    BY <1>1, <2>1
  <2>2. CASE i <= committed
    <3>1. PICK k \in DOMAIN log : log[k].type = "tool/result" /\ log[k].call = i
      BY <2>2 DEF LogInv
    <3> QED
      BY <1>1, <3>1
  <2> QED
    BY <1>1, <2>1, <2>2 DEF Calls
<1>6. \A i \in Calls : i <= started' =>
        \E k \in DOMAIN log' : log'[k].type = "tool/call" /\ log'[k].call = i
  BY <1>1 DEF LogInv
<1> QED
  BY <1>3, <1>4, <1>5, <1>6 DEF LogInv

\* The log stays in model order.
LEMMA LogStep == IInv /\ [Next]_vars => LogInv'
<1> SUFFICES ASSUME IInv, [Next]_vars PROVE LogInv'
  OBVIOUS
<1>1. LogInv /\ log \in Seq(ToolEvents) /\ started \in Nat /\ committed \in Nat
  BY DEF IInv, TypeInv
<1>2. CASE UNCHANGED <<trace, log, started, committed>>
  BY <1>1, <1>2 DEF LogInv
<1> QED
  BY <1>1, <1>2, LogOfCall, LogOfResult, Recording

\* A call that starts is alone when its group is exclusive.
LEMMA ExclusiveStep == IInv /\ [Next]_vars => (ExclusiveInv /\ ExclusiveBarrier)'
<1> SUFFICES ASSUME IInv, [Next]_vars PROVE (ExclusiveInv /\ ExclusiveBarrier)'
  OBVIOUS
<1> USE NAssumption, MaxParallelAssumption
    DEF IInv, TypeInv, CountInv, ExclusiveInv, ExclusiveBarrier, Calls, Modes,
        vars, group, pool, history
<1>1. CASE OpenGroup
  BY <1>1 DEF OpenGroup
<1>2. CASE Return
  BY <1>2 DEF Return
<1>3. CASE StartCall
  BY <1>3 DEF StartCall, RecordCall, Log, MayStart
<1>4. CASE StopFilling
  BY <1>4 DEF StopFilling, MayStart
<1>5. CASE Prepared
  BY <1>5 DEF Prepared, Fail
<1>6. CASE CallStarted
  BY <1>6 DEF CallStarted, Fail
<1>7. CASE CommitNext \/ Finalized
  <2>1. /\ committed + 1 \in Calls /\ committed + 1 <= started
        /\ committed < last /\ slot[committed + 1] # "none"
        /\ pc \in {"commit", "finalizing"}
        /\ UNCHANGED <<group, started, pool, signal, exclusive>>
    BY <1>7, CommitCases
  <2>2. CASE /\ committed' = committed + 1
             /\ pc' = "commit" /\ concluded' \in {concluded, TRUE} /\ UNCHANGED failure
    BY <2>1, <2>2
  <2>3. CASE /\ pc' = "draining" /\ failure' = TRUE
             /\ UNCHANGED <<committed, concluded, trace, log>>
    BY <2>1, <2>3
  <2>4. CASE pc' = "finalizing" /\ UNCHANGED <<committed, failure, concluded, trace, log>>
    BY <2>1, <2>4
  <2> QED
    BY <1>7, <2>2, <2>3, <2>4, CommitCases
<1>8. CASE CommitsDone
  BY <1>8 DEF CommitsDone, NextReady
<1>9. CASE AfterCommits
  BY <1>9 DEF AfterCommits, Fail
<1>10. CASE Raced
  BY <1>10 DEF Raced
<1>11. CASE Drained
  BY <1>11 DEF Drained
<1>12. CASE CloseGroup
  BY <1>12 DEF CloseGroup
<1>13. CASE RecordSkipped
  BY <1>13 DEF RecordSkipped, RecordCall, Log
<1>14. CASE ResultSkipped
  BY <1>14 DEF ResultSkipped, RecordResult, Log
<1>15. CASE ReturnAborted
  BY <1>15 DEF ReturnAborted
<1>16. ASSUME NEW i \in Calls, Settle(i) PROVE (ExclusiveInv /\ ExclusiveBarrier)'
  BY <1>16 DEF Settle, Awaits
<1>17. CASE Abort
  BY <1>17 DEF Abort, Awaits
<1>18. CASE UNCHANGED vars
  BY <1>18
<1> QED
  BY <1>1, <1>2, <1>3, <1>4, <1>5, <1>6, <1>7, <1>8, <1>9, <1>10, <1>11,
     <1>12, <1>13, <1>14, <1>15, <1>16, <1>17, <1>18 DEF Next, Scheduler

\* Between a look at the signal and the fill nothing else runs.
LEMMA AbortStep == IInv /\ [Next]_vars => AbortInv'
<1> SUFFICES ASSUME IInv, [Next]_vars PROVE AbortInv'
  OBVIOUS
<1> USE NAssumption, MaxParallelAssumption
    DEF IInv, TypeInv, AbortInv, vars, group, pool, history
<1>1. CASE OpenGroup
  BY <1>1 DEF OpenGroup
<1>2. CASE Return
  BY <1>2 DEF Return
<1>3. CASE StartCall
  BY <1>3 DEF StartCall, RecordCall, Log, MayStart
<1>4. CASE StopFilling
  BY <1>4 DEF StopFilling, MayStart
<1>5. CASE Prepared
  BY <1>5 DEF Prepared, Fail
<1>6. CASE CallStarted
  BY <1>6 DEF CallStarted, Fail
<1>7. CASE CommitNext \/ Finalized
  <2>1. /\ committed + 1 \in Calls /\ committed + 1 <= started
        /\ committed < last /\ slot[committed + 1] # "none"
        /\ pc \in {"commit", "finalizing"}
        /\ UNCHANGED <<group, started, pool, signal, exclusive>>
    BY <1>7, CommitCases
  <2>2. CASE /\ committed' = committed + 1
             /\ pc' = "commit" /\ concluded' \in {concluded, TRUE} /\ UNCHANGED failure
    BY <2>1, <2>2
  <2>3. CASE /\ pc' = "draining" /\ failure' = TRUE
             /\ UNCHANGED <<committed, concluded, trace, log>>
    BY <2>1, <2>3
  <2>4. CASE pc' = "finalizing" /\ UNCHANGED <<committed, failure, concluded, trace, log>>
    BY <2>1, <2>4
  <2> QED
    BY <1>7, <2>2, <2>3, <2>4, CommitCases
<1>8. CASE CommitsDone
  BY <1>8 DEF CommitsDone, NextReady
<1>9. CASE AfterCommits
  BY <1>9 DEF AfterCommits, Fail
<1>10. CASE Raced
  BY <1>10 DEF Raced
<1>11. CASE Drained
  BY <1>11 DEF Drained
<1>12. CASE CloseGroup
  BY <1>12 DEF CloseGroup
<1>13. CASE RecordSkipped
  BY <1>13 DEF RecordSkipped, RecordCall, Log
<1>14. CASE ResultSkipped
  BY <1>14 DEF ResultSkipped, RecordResult, Log
<1>15. CASE ReturnAborted
  BY <1>15 DEF ReturnAborted
<1>16. ASSUME NEW i \in Calls, Settle(i) PROVE AbortInv'
  BY <1>16 DEF Settle, Awaits
<1>17. CASE Abort
  BY <1>17 DEF Abort, Awaits
<1>18. CASE UNCHANGED vars
  BY <1>18
<1> QED
  BY <1>1, <1>2, <1>3, <1>4, <1>5, <1>6, <1>7, <1>8, <1>9, <1>10, <1>11,
     <1>12, <1>13, <1>14, <1>15, <1>16, <1>17, <1>18 DEF Next, Scheduler

\* The scheduler starts in it.
LEMMA InitInv == Init => IInv
<1> SUFFICES ASSUME Init PROVE IInv
  OBVIOUS
<1> USE NAssumption DEF Init
<1>1. TypeInv
  <2>1. <<>> \in Seq(ToolEvents)
    OBVIOUS
  <2> QED
    BY <2>1 DEF TypeInv, Modes, Calls
<1>4. CountInv /\ FailureInv /\ ExclusiveInv /\ AbortInv
  BY DEF CountInv, FailureInv, ExclusiveInv, AbortInv
<1>5. PoolInv
  BY DEF PoolInv, NextReady, Calls
<1>2. TraceInv
  BY DEF TraceInv, Session!FreshTrace, Turn, Step, Calls
<1>3. LogInv /\ ExclusiveBarrier
  BY DEF LogInv, ExclusiveBarrier, Calls
<1> QED
  BY <1>1, <1>2, <1>3, <1>4, <1>5 DEF IInv

\* The inductive invariant holds in every reachable state.
LEMMA Invariant == Spec => []IInv
<1>1. IInv /\ [Next]_vars => IInv'
  BY TypeStep, CountStep, PoolStep, FailureStep, TraceStep, LogStep, ExclusiveStep, AbortStep
     DEF IInv
<1> QED
  BY <1>1, InitInv, PTL DEF Spec

-----------------------------------------------------------------------------
(* The theorems.                                                           *)

\* Types of all variables, for any number of calls and any size of the pool.
THEOREM TypeCorrect == Spec => []TypeInv
<1>1. IInv => TypeInv
  BY DEF IInv
<1> QED
  BY <1>1, Invariant, PTL

\* A step that returns has answered every call once and in model order, and a
\* step that ends leaves no dispatch running and has failed only by a failure:
\* the internal error of CloseGroup is unreachable (tool-calls.ts:236-246).
THEOREM AllCallsAnswered == Spec => []AllAnswered
<1>1. IInv => AllAnswered
  <2> SUFFICES ASSUME IInv PROVE AllAnswered
    OBVIOUS
  <2>1. Finished => running = {} /\ (failure <=> pc = "failed")
    BY DEF IInv, Finished, PoolInv, FailureInv, TypeInv
  <2>2. ASSUME pc = "done"
        PROVE  /\ \A type \in {"tool/call", "tool/result"}, i \in Calls :
                    \E k \in DOMAIN log : log[k].type = type /\ log[k].call = i
               /\ trace.pendingCalls = {}
    <3>1. started = N /\ committed = N
      BY <2>2 DEF IInv, CountInv
    <3>2. \A i \in Calls : i <= started /\ i <= committed
      BY <3>1, NAssumption DEF Calls
    <3>3. \A c : c \notin trace.pendingCalls
      BY <3>1, NAssumption DEF IInv, TraceInv, Calls
    <3> QED
      BY <3>2, <3>3 DEF IInv, LogInv
  <2> QED
    BY <2>1, <2>2 DEF AllAnswered, IInv, LogInv
<1> QED
  BY <1>1, Invariant, PTL

\* An exclusive call runs alone: whatever settles, fails or is aborted.
THEOREM ExclusiveIsBarrier == Spec => []ExclusiveBarrier
<1>1. IInv => ExclusiveBarrier
  BY DEF IInv
<1> QED
  BY <1>1, Invariant, PTL

\* Every tool event is one the session's grammar accepts where it is appended.
THEOREM EveryAppendAccepted == Spec => AppendsAccepted
<1>1. IInv /\ [Next]_vars => (log' # log => Session!Accepts(trace, Last(log')))
  <2> SUFFICES ASSUME IInv, [Next]_vars, log' # log
               PROVE  Session!Accepts(trace, Last(log'))
    OBVIOUS
  <2>1. TraceInv /\ log \in Seq(ToolEvents)
    BY DEF IInv, TypeInv
  <2>2. CASE started + 1 \in Calls /\ RecordCall(started + 1) /\ UNCHANGED committed
    <3>1. Last(log') = Session!ToolCall(Turn, Step, started + 1)
      BY <2>1, <2>2, CallRecorded DEF Last
    <3> QED
      BY <2>1, <3>1 DEF TraceInv, Turn, Step, Session!ToolCall, Session!Accepts,
                        Session!InOpenStep, Session!InOpenTurn, Session!NoTurn, Session!NoStep
  <2>3. CASE /\ committed + 1 \in Calls /\ committed + 1 <= started
             /\ RecordResult(committed + 1) /\ UNCHANGED started
    <3>1. Last(log') = Session!ToolResult(Turn, Step, committed + 1, FALSE)
      BY <2>1, <2>3, ResultRecorded DEF Last
    <3>2. committed + 1 \in trace.pendingCalls
      BY <2>1, <2>3 DEF TraceInv, IInv, TypeInv
    <3> QED
      BY <2>1, <3>1, <3>2
      DEF TraceInv, Turn, Step, Session!ToolResult, Session!Accepts,
          Session!InOpenStep, Session!InOpenTurn, Session!NoTurn, Session!NoStep
  <2> QED
    BY <2>2, <2>3, Recording
<1> QED
  BY <1>1, Invariant, PTL DEF Spec, AppendsAccepted

\* After an abort no further call's policy is consulted.
THEOREM AbortStops == Spec => AbortStopsStarts
<1>1. IInv /\ [Next]_vars => (pc # "preparing" /\ pc' = "preparing" => ~signal)
  <2> SUFFICES ASSUME IInv, [Next]_vars, pc # "preparing", pc' = "preparing"
               PROVE  ~signal
    OBVIOUS
  <2>1. CASE StartCall
    BY <2>1 DEF StartCall, MayStart, IInv, AbortInv
  <2>2. CASE CommitNext \/ Finalized
    BY <2>2, CommitCases
  <2>3. ~(OpenGroup \/ Return \/ StopFilling \/ Prepared \/ CallStarted \/ CommitsDone
            \/ AfterCommits \/ Raced \/ Drained \/ CloseGroup \/ RecordSkipped
            \/ ResultSkipped \/ ReturnAborted \/ (\E i \in Calls : Settle(i)) \/ Abort
            \/ UNCHANGED vars)
    BY DEF OpenGroup, Return, StopFilling, Prepared, CallStarted, CommitsDone, AfterCommits,
           Raced, Drained, CloseGroup, RecordSkipped, ResultSkipped, ReturnAborted, Settle,
           Abort, Fail, vars
  <2> QED
    BY <2>1, <2>2, <2>3 DEF Next, Scheduler
<1> QED
  BY <1>1, Invariant, PTL DEF Spec, AbortStopsStarts
=============================================================================
