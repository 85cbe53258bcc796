---------------------------- MODULE ToolScheduler ----------------------------
(***************************************************************************)
(* One step's tool calls: executeToolCalls() and runGroup() of             *)
(* packages/core/agent-loop. Calls are taken in model order in groups: an  *)
(* exclusive call is a group of its own, parallel calls share a bounded    *)
(* rolling pool. Policy (prepare, finalize) runs one call at a time, only  *)
(* dispatches overlap, and results are appended in model order.            *)
(*                                                                         *)
(* An action is the code between two points where other code can run: an   *)
(* await, or the observers of an append. Dispatches settle at awaits only. *)
(* Indices are of the whole step: the source's `started' and `committed'   *)
(* of a group are offset by `first' here.                                  *)
(***************************************************************************)
EXTENDS Naturals, FiniteSets, Sequences, SequencesExt

CONSTANTS
  N,           \* number of tool calls in the assistant message
  MaxParallel  \* config.maxParallelToolCalls

ASSUME NAssumption == N \in Nat \ {0}
ASSUME MaxParallelAssumption == MaxParallel \in Nat \ {0}

Calls == 1 .. N
Modes == {"parallel", "exclusive"}

VARIABLES
  pc,         \* where the scheduler is
  first,      \* calls consumed by earlier groups
  last,       \* last call of the current group
  mode,       \* mode the current group was opened in
  started,    \* calls whose tool/call is appended
  committed,  \* calls whose tool/result is appended
  slot,       \* a settled call's result, "post" if it still needs finalize
  inFlight,   \* keys of the inFlight map
  running,    \* dispatches that have not settled
  aborted,    \* the group's local flag
  signal,     \* signal.aborted
  failure,    \* schedulerFailure # undefined
  concluded,  \* a committed result concludes the turn
  trace,      \* the session's turn and step events, folded
  (* history variables *)
  log,        \* tool events in the order they were appended
  exclusive   \* calls that were classified exclusive when they started

group   == <<first, last, mode, aborted>>
pool    == <<slot, inFlight, running>>
history == <<log, exclusive>>
vars == <<pc, group, started, committed, pool, signal, failure, concluded,
          trace, history>>

Session == INSTANCE SessionTrace WITH CallIds <- Calls

\* The scheduler runs inside the open step of a turn.
Turn == 1
Step == 1

Init ==
  /\ pc = "group"
  /\ first = 0 /\ last = 0
  /\ mode = "parallel"
  /\ started = 0 /\ committed = 0
  /\ slot = [i \in Calls |-> "none"]
  /\ inFlight = {} /\ running = {}
  /\ aborted = FALSE
  /\ signal \in BOOLEAN
  /\ failure = FALSE
  /\ concluded = FALSE
  /\ trace = [Session!FreshTrace EXCEPT !.openTurn = Turn, !.openStep = Step]
  /\ log = <<>>
  /\ exclusive = {}

-----------------------------------------------------------------------------
Log(event) ==
  /\ log' = Append(log, event)
  /\ trace' = Session!Apply(trace, event)

\* A call is recorded before its policy runs.
RecordCall(i) ==
  /\ Log(Session!ToolCall(Turn, Step, i))
  /\ started' = i

RecordResult(i) ==
  /\ Log(Session!ToolResult(Turn, Step, i, FALSE))
  /\ committed' = i

\* The catch block: started dispatches are drained, then the step fails.
Fail == pc' = "draining" /\ failure' = TRUE

\* Open the next group under the registry's current view of its first call.
OpenGroup ==
  /\ pc = "group" /\ started < N
  /\ mode' \in Modes
  /\ first' = started
  /\ last' = IF mode' = "parallel" THEN N ELSE started + 1
  /\ aborted' = signal
  /\ pc' = "fill"
  /\ UNCHANGED <<started, committed, pool, signal, failure, concluded, trace,
                 history>>

Return ==
  /\ pc = "group" /\ started = N
  /\ pc' = "done"
  /\ UNCHANGED <<group, started, committed, pool, signal, failure, concluded,
                 trace, history>>

MayStart == ~aborted /\ started < last /\ Cardinality(inFlight) < MaxParallel

\* Faulty: a later call joins the pool whatever its mode is now.
StartCallUnclassified ==
  /\ pc = "fill" /\ MayStart
  /\ RecordCall(started + 1)
  /\ \E m \in Modes :
       /\ started = first => m = mode
       /\ exclusive' = IF m = "exclusive" THEN exclusive \cup {started + 1}
                       ELSE exclusive
  /\ pc' = "preparing"
  /\ UNCHANGED <<group, committed, pool, signal, failure, concluded>>

\* startCall() up to prepare(). A later call of a pool is classified again.
StartCall ==
  /\ pc = "fill" /\ MayStart
  /\ RecordCall(started + 1)
  /\ \E m \in Modes :
       /\ m = mode
       /\ exclusive' = IF m = "exclusive" THEN exclusive \cup {started + 1}
                       ELSE exclusive
  /\ pc' = "preparing"
  /\ UNCHANGED <<group, committed, pool, signal, failure, concluded>>

\* fillPool() ends: the pool is full, the group is out of calls or aborted, or
\* the next call of a pool is now exclusive.
StopFilling ==
  /\ pc = "fill"
  /\ MayStart => mode = "parallel" /\ started > first
  /\ pc' = IF inFlight # {} THEN "race" ELSE "groupEnd"
  /\ UNCHANGED <<group, started, committed, pool, signal, failure, concluded,
                 trace, history>>

\* prepare() settles: dispatch the call, hand back a result, or throw. A
\* dispatch that failed meanwhile stops the call here.
Prepared ==
  /\ pc = "preparing"
  /\ \/ Fail /\ UNCHANGED pool
     \/ /\ ~failure
        /\ \/ /\ inFlight' = inFlight \cup {started}
              /\ running' = running \cup {started}
              /\ UNCHANGED slot
           \/ \E r \in {"post", "final"} : slot' = [slot EXCEPT ![started] = r]
              /\ UNCHANGED <<inFlight, running>>
        /\ pc' = "prepared"
        /\ UNCHANGED failure
  /\ UNCHANGED <<group, started, committed, signal, concluded, trace, history>>

\* fillPool() resumes after startCall().
CallStarted ==
  /\ pc = "prepared"
  /\ IF failure THEN Fail ELSE pc' = "commit" /\ UNCHANGED failure
  /\ UNCHANGED <<group, started, committed, pool, signal, concluded, trace,
                 history>>

NextReady == committed < last /\ slot[committed + 1] # "none"

\* commitReady(): the next result in model order is there. One that needs
\* post-execute policy waits for finalize(); finish() is synchronous.
CommitNext ==
  /\ pc = "commit" /\ NextReady
  /\ \/ /\ slot[committed + 1] = "post"
        /\ pc' = "finalizing"
        /\ UNCHANGED <<committed, failure, concluded, trace, log>>
     \/ /\ slot[committed + 1] = "final"
        /\ \/ /\ RecordResult(committed + 1)
              /\ concluded' \in {concluded, TRUE}
              /\ UNCHANGED <<pc, failure>>
           \/ Fail /\ UNCHANGED <<committed, concluded, trace, log>>
  /\ UNCHANGED <<group, started, pool, signal, exclusive>>

Finalized ==
  /\ pc = "finalizing"
  /\ \/ /\ RecordResult(committed + 1)
        /\ concluded' \in {concluded, TRUE}
        /\ pc' = "commit"
        /\ UNCHANGED failure
     \/ Fail /\ UNCHANGED <<committed, concluded, trace, log>>
  /\ UNCHANGED <<group, started, pool, signal, exclusive>>

\* commitReady() returns.
CommitsDone ==
  /\ pc = "commit" /\ ~NextReady
  /\ pc' = "committed"
  /\ UNCHANGED <<group, started, committed, pool, signal, failure, concluded,
                 trace, history>>

\* Faulty: the signal is not looked at after the commits.
AfterCommitsUnchecked ==
  /\ pc = "committed"
  /\ IF failure THEN Fail ELSE pc' = "fill" /\ UNCHANGED failure
  /\ UNCHANGED <<group, started, committed, pool, signal, concluded, trace,
                 history>>

\* The loop resumes: a failed dispatch throws, an abort stops the pool.
AfterCommits ==
  /\ pc = "committed"
  /\ IF failure THEN Fail /\ UNCHANGED aborted
     ELSE /\ aborted' = (aborted \/ signal)
          /\ pc' = "fill"
          /\ UNCHANGED failure
  /\ UNCHANGED <<first, last, mode, started, committed, pool, signal, concluded,
                 trace, history>>

\* Faulty: the settled dispatch stays in the map.
RacedKeepsKey ==
  /\ pc = "race" /\ inFlight \ running # {}
  /\ pc' = IF failure THEN "draining" ELSE "commit"
  /\ UNCHANGED <<group, started, committed, pool, signal, failure, concluded,
                 trace, history>>

\* Promise.race() hands back one settled dispatch.
Raced ==
  /\ pc = "race"
  /\ \E i \in inFlight \ running : inFlight' = inFlight \ {i}
  /\ pc' = IF failure THEN "draining" ELSE "commit"
  /\ UNCHANGED <<group, started, committed, slot, running, signal, failure,
                 concluded, trace, history>>

\* Promise.allSettled() of what is in flight, then the failure is rethrown.
Drained ==
  /\ pc = "draining" /\ running = {}
  /\ pc' = "failed"
  /\ UNCHANGED <<group, started, committed, pool, signal, failure, concluded,
                 trace, history>>

\* The group returns; uncommitted results would be an internal error.
CloseGroup ==
  /\ pc = "groupEnd"
  /\ pc' = IF aborted THEN "skip"
           ELSE IF committed # started THEN "failed" ELSE "group"
  /\ UNCHANGED <<group, started, committed, pool, signal, failure, concluded,
                 trace, history>>

\* Faulty: a skipped call gets its result only.
RecordSkippedSilently ==
  /\ pc = "skip" /\ started < N
  /\ started' = started + 1
  /\ pc' = "skipping"
  /\ UNCHANGED <<group, committed, pool, signal, failure, concluded, trace,
                 history>>

\* After an abort every call that was not started gets its pair of events.
RecordSkipped ==
  /\ pc = "skip" /\ started < N
  /\ RecordCall(started + 1)
  /\ pc' = "skipping"
  /\ UNCHANGED <<group, committed, pool, signal, failure, concluded, exclusive>>

ResultSkipped ==
  /\ pc = "skipping"
  /\ RecordResult(started)
  /\ pc' = "skip"
  /\ UNCHANGED <<group, started, pool, signal, failure, concluded, exclusive>>

\* Faulty: the calls of later groups are not skipped.
ReturnAbortedEarly ==
  /\ pc = "skip" /\ started >= last
  /\ pc' = "done"
  /\ UNCHANGED <<group, started, committed, pool, signal, failure, concluded,
                 trace, history>>

ReturnAborted ==
  /\ pc = "skip" /\ started = N
  /\ pc' = "done"
  /\ UNCHANGED <<group, started, committed, pool, signal, failure, concluded,
                 trace, history>>

-----------------------------------------------------------------------------
\* The points at which the scheduler awaits something.
Awaits == {"preparing", "prepared", "finalizing", "committed", "race", "draining"}

\* A dispatch settles while the scheduler awaits something: with a result, or
\* with an internal error, of which the first is kept.
Settle(i) ==
  /\ pc \in Awaits
  /\ i \in running
  /\ running' = running \ {i}
  /\ \/ \E r \in {"post", "final"} : slot' = [slot EXCEPT ![i] = r]
        /\ UNCHANGED failure
     \/ failure' = TRUE /\ UNCHANGED slot
  /\ UNCHANGED <<pc, group, started, committed, inFlight, signal, concluded,
                 trace, history>>

\* The step's signal is aborted, at an await or by the observer of an append.
Abort ==
  /\ \/ pc \in Awaits \cup {"commit", "skip", "skipping"}
     \/ pc = "group" /\ started > 0
  /\ ~signal
  /\ signal' = TRUE
  /\ UNCHANGED <<pc, group, started, committed, pool, failure, concluded,
                 trace, history>>

Scheduler ==
  \/ OpenGroup \/ Return \/ StartCall \/ StopFilling \/ Prepared \/ CallStarted
  \/ CommitNext \/ Finalized \/ CommitsDone \/ AfterCommits \/ Raced \/ Drained
  \/ CloseGroup \/ RecordSkipped \/ ResultSkipped \/ ReturnAborted

Next == Scheduler \/ (\E i \in Calls : Settle(i)) \/ Abort

Spec == Init /\ [][Next]_vars

\* prepare, finalize and every dispatch are assumed to settle.
Fairness == WF_vars(Scheduler) /\ \A i \in Calls : WF_vars(Settle(i))

FairSpec == Spec /\ Fairness

-----------------------------------------------------------------------------
Finished == pc \in {"done", "failed"}

\* Whatever the dispatches, the policy and the abort do, each tool/call and
\* tool/result is accepted by the session's invariant companion.
AppendsAccepted ==
  [][log' # log => Session!Accepts(trace, Last(log'))]_vars

\* A dispatch never outlives its step, whatever fails or is aborted; the step
\* fails exactly when the scheduler failed ("unreachable: a non-aborted group
\* commits every started call"), and one that returns has answered every call
\* once, in model order, so the next request pairs every call with a result.
AllAnswered ==
  /\ Finished => running = {} /\ (failure <=> pc = "failed")
  /\ pc = "done" =>
       /\ \A type \in {"tool/call", "tool/result"}, i \in Calls :
            \E k \in DOMAIN log : log[k].type = type /\ log[k].call = i
       /\ \A j, k \in DOMAIN log :
            j < k /\ log[j].type = log[k].type => log[j].call < log[k].call
       /\ trace.pendingCalls = {}

\* An exclusive call is a barrier: it starts when every earlier call is
\* committed and no later call starts before it is committed.
ExclusiveBarrier ==
  \A i \in exclusive :
    /\ started >= i => committed >= i - 1
    /\ started > i => committed >= i

\* After an abort the scheduler consults no further call's policy and starts
\* none; at most the call it is preparing is still dispatched.
AbortStopsStarts ==
  [][pc # "preparing" /\ pc' = "preparing" => ~signal]_vars

\* The step's calls come to an end, whatever fails or is aborted.
Converges == <>Finished
=============================================================================
