-------------------------- MODULE GoalRounds_proofs --------------------------
(***************************************************************************)
(* Theorems about the goal round driver, for any number of goal changes,   *)
(* rounds, prompts and loops: a round that met the fence enters its step   *)
(* only as the one the fence let through, and a round is reserved over a   *)
(* goal change only when it is stored or a checkpoint of it is under way.  *)
(*                                                                         *)
(* Both are about one step, and what the step relies on was established    *)
(* long before: a round that may still enter (FenceInv), a cancel that the *)
(* driver has not answered yet (HeldInv), a change that no checkpoint has  *)
(* covered (CheckpointInv).                                                *)
(***************************************************************************)
EXTENDS GoalRounds, FiniteSetTheorems, SequenceTheorems, TLAPS

LoopStates == {"off", "start", "begin", "flush", "loop", "retire"}
Message == [kind : {"none", "prompt", "round"}, version : Nat, round : 0 .. MaxRounds,
            id : Nat]
Attempt == [message : Message, phase : {"none", "queued", "claimed", "admitted"},
            cancelled : BOOLEAN, stale : BOOLEAN]
Decisions == {"none", "fenced", "orphan", "enter", "reject", "throw", "drain", "exit"}

GoalType ==
  /\ goal \in [version : Nat, phase : {"none", "active", "stopped", "complete"},
               rounds : Nat]
  /\ armed \in BOOLEAN /\ broken \in BOOLEAN /\ unsaved \in BOOLEAN
  /\ uncovered \subseteq Loops

\* No round is reserved beyond the limit.
DriverType ==
  /\ attempt \in Attempt
  /\ competing \in BOOLEAN /\ needsCheckpoint \in BOOLEAN /\ requested \in BOOLEAN
  /\ loops \in [Loops -> LoopStates] /\ slot \in Loops \cup {0}
  /\ unload \in {"no", "closing", "gone"} /\ waits \subseteq Loops \cup {0}

AgentType ==
  /\ phase \in {"idle", "maintenance", "running"}
  /\ pc \in {"off", "outer", "front", "inner", "tail", "step", "closed"}
  /\ aborted \in BOOLEAN /\ wakeRequested \in BOOLEAN /\ replay \in BOOLEAN
  /\ nextTurn \in Seq(Message) /\ claimed \in Message
  /\ decision \in Decisions

HistoryType ==
  calls \in Nat /\ held \in BOOLEAN /\ exposed \in {"no", "late", "unfenced"}

TypeInv == GoalType /\ DriverType /\ AgentType /\ HistoryType

\* A turn runs in the running phase, and one that drains on has a prompt to take.
TurnInv ==
  /\ phase = "running" <=> pc # "off"
  /\ pc = "closed" /\ decision = "drain" /\ ~aborted => nextTurn # <<>>

\* A round that may still enter its step and met a fence went by it when it was
\* owned, and nothing took it back since.
FenceInv ==
  pc = "tail" /\ decision = "enter" /\ IsRound(claimed) /\ ~aborted
    /\ exposed # "unfenced" =>
    /\ attempt.phase = "claimed" /\ ~held /\ unload = "no"
    /\ exposed = "no" => FoldAccepts(claimed)

\* A cancel of the running agent leaves a goal that is not driven, or it is
\* still being acted upon.
HeldInv ==
  held => \/ ~Driven
          \/ unload # "no"
          \/ phase = "running" /\ pc # "closed" /\ aborted
          \/ pc = "closed" /\ decision = "exit" /\ attempt.cancelled

\* A change that is not stored is waited for, or will be, before the next round.
CheckpointInv ==
  /\ \A i \in uncovered : loops[i] = "flush"
  /\ unsaved /\ Driven =>
       \/ unload # "no"
       \/ needsCheckpoint
       \/ \E i \in Loops : loops[i] = "flush" /\ i \notin uncovered

IInv == TypeInv /\ TurnInv /\ FenceInv /\ HeldInv /\ CheckpointInv

-----------------------------------------------------------------------------
(* What the parts of the handlers do to the state.                         *)

\* There is a free identity: the rounds around have at most as many as there
\* are prompts in the inbox.
LEMMA FreshIdType == ASSUME nextTurn \in Seq(Message) PROVE FreshId \in Nat
<1> DEFINE n == Len(nextTurn)
           used == {nextTurn[i].id : i \in DOMAIN nextTurn}
           ids == [i \in 1 .. n |-> nextTurn[i].id]
<1>1. n \in Nat /\ DOMAIN nextTurn = 1 .. n
  OBVIOUS
<1>2. ids \in Surjection(1 .. n, used)
  BY <1>1 DEF Surjection
<1>3. IsFiniteSet(1 .. n) /\ Cardinality(1 .. n) = n
  <2>1. 0 \in Int /\ 1 \in Int /\ n \in Int /\ (1 > n => n = 0) /\ n - 1 + 1 = n
    BY <1>1
  <2> HIDE DEF n
  <2> QED
    BY <2>1, FS_Interval
<1>4. IsFiniteSet(1 .. n + 1) /\ Cardinality(1 .. n + 1) = n + 1
  <2>1. 1 \in Int /\ n + 1 \in Int /\ ~(1 > n + 1) /\ n + 1 - 1 + 1 = n + 1
    BY <1>1
  <2> HIDE DEF n
  <2> QED
    BY <2>1, FS_Interval
<1>5. IsFiniteSet(used) /\ Cardinality(used) <= n
  <2> HIDE DEF n, used, ids
  <2> QED
    BY <1>2, <1>3, FS_Surjection
<1>6. ~(1 .. n + 1 \subseteq used)
  <2> HIDE DEF used
  <2>1. SUFFICES ASSUME 1 .. n + 1 \subseteq used PROVE FALSE
    OBVIOUS
  <2>2. Cardinality(1 .. n + 1) <= Cardinality(used)
    BY <1>5, <2>1, FS_Subset
  <2>3. Cardinality(used) \in Nat
    BY <1>5, FS_CardinalityType
  <2> HIDE DEF n
  <2> QED
    BY <1>1, <1>4, <1>5, <2>2, <2>3
<1>7. PICK i \in 1 .. n + 1 : i \notin used
  BY <1>6
<1>8. (CHOOSE j \in 1 .. n + 1 : j \notin used) \in 1 .. n + 1
  BY <1>7
<1> QED
  BY <1>1, <1>8 DEF FreshId

LEMMA NoAttemptFacts ==
  /\ Nothing \in Message /\ Prompt \in Message
  /\ ~IsRound(Nothing)
  /\ NoAttempt \in Attempt /\ NoAttempt.message = Nothing /\ NoAttempt.phase = "none"
  /\ NoAttempt.cancelled = FALSE
BY MaxRoundsAssumption DEF Nothing, Prompt, NoAttempt, Message, Attempt, IsRound

\* Telling the driver, or not, keeps every loop that waits for its checkpoint.
LEMMA RequestKeeps ==
  ASSUME DriverType, Request
  PROVE  /\ loops' \in [Loops -> LoopStates] /\ slot' = slot /\ requested' \in BOOLEAN
         /\ \A i \in Loops : loops'[i] = "flush" <=> loops[i] = "flush"
<1>1. CASE UNCHANGED <<requested, loops, slot>>
  BY <1>1 DEF DriverType
<1>2. CASE requested' = TRUE /\ UNCHANGED <<loops, slot>>
  BY <1>2 DEF DriverType
<1>3. CASE /\ MayStartLoop /\ requested' = FALSE /\ UNCHANGED slot
           /\ loops' = [loops EXCEPT ![FreeLoop] = "start"]
  <2>1. FreeLoop \in Loops /\ loops[FreeLoop] = "off"
    BY <1>3 DEF MayStartLoop, FreeLoop
  <2> QED
    BY <1>3, <2>1 DEF DriverType, LoopStates
<1> QED
  BY <1>1, <1>2, <1>3 DEF Request

\* No notification makes an attempt or undoes its cancellation.
LEMMA ClaimsKeeps ==
  ASSUME NEW att \in Attempt, NEW m \in Message
  PROVE  /\ Claims(att, m) \in Attempt
         /\ Claims(att, m).cancelled = att.cancelled
         /\ att = NoAttempt => Claims(att, m) = NoAttempt
BY NoAttemptFacts DEF Claims, Same, Attempt

LEMMA DiscardsKeeps ==
  ASSUME NEW att \in Attempt, NEW box
  PROVE  /\ Discards(att, box) \in Attempt
         /\ Discards(att, box).phase = att.phase
         /\ att.cancelled => Discards(att, box).cancelled
         /\ att = NoAttempt => Discards(att, box) = NoAttempt
BY NoAttemptFacts DEF Discards, Same, Attempt

\* A turn opens with a prompt and outside the fence.
LEMMA StartTurnKeeps ==
  ASSUME NEW att \in Attempt, NEW box \in Seq(Message), box # <<>>, StartTurn(box, att)
  PROVE  /\ phase' = "running" /\ pc' = "outer" /\ decision' = "none"
         /\ aborted' = FALSE /\ wakeRequested' = FALSE
         /\ claimed' \in Message /\ nextTurn' \in Seq(Message)
         /\ attempt' \in Attempt /\ attempt'.cancelled = att.cancelled
         /\ att = NoAttempt => attempt' = NoAttempt
<1>1. Head(box) \in Message /\ Tail(box) \in Seq(Message)
  BY HeadTailProperties
<1>2. attempt' = Claims(att, Head(box))
  BY DEF StartTurn
<1> QED
  BY <1>1, <1>2, ClaimsKeeps DEF StartTurn

\* The fold of the goal's log: a caller's change, and a disarming.
LEMMA CommitKeeps ==
  ASSUME GoalType, NEW toPhase \in {"none", "active", "stopped", "complete"},
         NEW rounds \in Nat, NEW arm \in BOOLEAN, Commit(toPhase, rounds, arm)
  PROVE  GoalType' /\ (arm = FALSE => ~Driven')
<1>1. goal' \in [version : Nat, phase : {"none", "active", "stopped", "complete"},
                 rounds : Nat]
  BY DEF GoalType, Commit
<1>2. uncovered' \subseteq Loops
  BY DEF Commit, Flushing
<1>3. armed' \in BOOLEAN /\ broken' \in BOOLEAN /\ unsaved' \in BOOLEAN
  BY Zenon DEF GoalType, Commit
<1> QED
  BY <1>1, <1>2, <1>3 DEF GoalType, Commit, Driven

LEMMA DisarmKeeps ==
  ASSUME GoalType, Disarm
  PROVE  GoalType' /\ ~Driven' /\ UNCHANGED <<goal, broken, unsaved, uncovered>>
<1>1. armed' \in BOOLEAN
  BY DEF GoalType, Disarm, Disarmed
<1>2. UNCHANGED <<goal, broken, unsaved, uncovered>>
  BY DEF Disarm
<1>3. ~Driven'
  BY DEF Disarm, Disarmed, Driven
<1> QED
  BY <1>1, <1>2, <1>3 DEF GoalType

LEMMA EndDriveKeeps ==
  ASSUME DriverType, NEW i \in Loops, EndDrive(i)
  PROVE  /\ loops' \in [Loops -> LoopStates] /\ slot' \in Loops \cup {0}
         /\ \A k \in Loops \ {i} : loops'[k] = loops[k]
         /\ loops'[i] = "loop"
BY DEF DriverType, EndDrive, Remembered, LoopStates

\* The end of a turn leaves the driver's loops, and disarms the goal if at all.
LEMMA CloseTurnKeeps ==
  ASSUME TypeInv, NEW reason, CloseTurn(reason)
  PROVE  /\ GoalType' /\ UNCHANGED <<goal, broken, unsaved, uncovered>>
         /\ ~armed => ~armed'
         /\ attempt' \in Attempt /\ attempt'.phase = attempt.phase
         /\ attempt = NoAttempt => attempt' = NoAttempt
         /\ pc' = "closed" /\ decision' \in {"drain", "exit"}
         /\ aborted' \in BOOLEAN /\ wakeRequested' \in BOOLEAN
         /\ decision' = "drain" => nextTurn' # <<>>
         /\ exposed' = "no" /\ UNCHANGED <<needsCheckpoint, requested, loops, slot, nextTurn>>
<1>1. GoalType' /\ UNCHANGED <<goal, broken, unsaved, uncovered>> /\ (~armed => ~armed')
  <2>1. CASE Disarm
    BY <2>1, DisarmKeeps DEF TypeInv, Disarm, Disarmed
  <2>2. CASE UNCHANGED goalVars
    BY <2>2 DEF TypeInv, GoalType, goalVars
  <2> QED
    BY <2>1, <2>2 DEF CloseTurn
<1>2. /\ attempt' \in Attempt /\ attempt'.phase = attempt.phase
      /\ attempt = NoAttempt => attempt' = NoAttempt
  <2>1. CASE /\ attempt.phase \in {"claimed", "admitted"}
             /\ attempt' = [attempt EXCEPT !.cancelled = TRUE]
    BY <2>1, NoAttemptFacts DEF TypeInv, DriverType, Attempt
  <2>2. CASE UNCHANGED attempt
    BY <2>2 DEF TypeInv, DriverType
  <2> QED
    BY <2>1, <2>2 DEF CloseTurn
<1>3. aborted' \in BOOLEAN /\ wakeRequested' \in BOOLEAN
  BY Zenon DEF TypeInv, AgentType, CloseTurn
<1>4. /\ pc' = "closed" /\ decision' \in {"drain", "exit"}
      /\ decision' = "drain" => nextTurn' # <<>>
      /\ exposed' = "no" /\ UNCHANGED <<needsCheckpoint, requested, loops, slot, nextTurn>>
  BY DEF CloseTurn
<1> QED
  BY <1>1, <1>2, <1>3, <1>4

\* The end of a turn that was aborted marks the attempt or disarms the goal.
LEMMA AbortedTurnAnswers ==
  ASSUME TypeInv, CloseTurn("aborted")
  PROVE  decision' = "exit" /\ (attempt'.cancelled \/ ~Driven' \/ ~Listening)
<1>1. decision' = "exit"
  BY DEF CloseTurn
<1>2. CASE Listening /\ attempt.phase \in {"claimed", "admitted"}
  <2>1. attempt' = [attempt EXCEPT !.cancelled = TRUE]
    BY <1>2 DEF CloseTurn
  <2> QED
    BY <1>1, <2>1 DEF TypeInv, DriverType, Attempt
<1>3. CASE Listening /\ attempt.phase \notin {"claimed", "admitted"}
  <2>1. Disarm
    BY <1>3 DEF CloseTurn
  <2> QED
    BY <1>1, <2>1, DisarmKeeps DEF TypeInv
<1> QED
  BY <1>1, <1>2, <1>3


\* What drive() does after its checkpoint: no other loop loses its own, a goal that
\* is not driven stays so, and the agent either opens a turn or is as it was.
GoesOn(i) ==
  /\ goal' \in [version : Nat, phase : {"none", "active", "stopped", "complete"},
                rounds : Nat]
  /\ armed' \in BOOLEAN /\ broken' = broken
  /\ attempt' \in Attempt /\ needsCheckpoint' \in BOOLEAN /\ requested' \in BOOLEAN
  /\ loops' \in [Loops -> LoopStates] /\ slot' \in Loops \cup {0}
  /\ phase' \in {"idle", "maintenance", "running"}
  /\ aborted' \in BOOLEAN /\ wakeRequested' \in BOOLEAN
  /\ nextTurn' \in Seq(Message) /\ claimed' \in Message /\ decision' \in Decisions
  /\ pc' \in {"off", "outer"} /\ (phase' = "running" <=> pc' # "off")
  /\ \A k \in Loops \ {i} : loops[k] = "flush" => loops'[k] = "flush"
  /\ ~Driven => ~Driven'
  /\ needsCheckpoint' \/ ~Driven' \/ goal' = goal
  /\ LogsChange => ~Driven'

LEMMA ProceedKeeps ==
  ASSUME TypeInv, TurnInv, NEW i \in Loops, loops[i] # "off", Ready, Proceed(i)
  PROVE  GoesOn(i)
<1> DEFINE Kept == UNCHANGED <<phase, pc, aborted, wakeRequested, nextTurn, claimed,
                               decision>>
<1>1. pc = "off" /\ phase # "running"
  BY DEF Ready, TurnInv
<1>2. ASSUME Kept
      PROVE  /\ phase' \in {"idle", "maintenance", "running"}
             /\ aborted' \in BOOLEAN /\ wakeRequested' \in BOOLEAN
             /\ nextTurn' \in Seq(Message) /\ claimed' \in Message
             /\ decision' \in Decisions
             /\ pc' \in {"off", "outer"} /\ (phase' = "running" <=> pc' # "off")
  BY <1>1, <1>2 DEF TypeInv, AgentType
<1>3. ASSUME UNCHANGED <<goal, armed, broken>>
      PROVE  /\ goal' \in [version : Nat, phase : {"none", "active", "stopped", "complete"},
                           rounds : Nat]
             /\ armed' \in BOOLEAN /\ broken' = broken /\ goal' = goal /\ ~LogsChange
             /\ ~Driven => ~Driven'
  BY <1>3 DEF TypeInv, GoalType, LogsChange, Driven, GoalActive
<1>4. ASSUME EndDrive(i)
      PROVE  /\ loops' \in [Loops -> LoopStates] /\ slot' \in Loops \cup {0}
             /\ \A k \in Loops \ {i} : loops[k] = "flush" => loops'[k] = "flush"
  BY <1>4, EndDriveKeeps DEF TypeInv
<1>5. CASE Retire(i)
  <2>1. attempt' \in Attempt /\ needsCheckpoint' = TRUE /\ requested' = TRUE
    BY <1>5, NoAttemptFacts DEF Retire
  <2>2. Kept /\ UNCHANGED <<goal, armed, broken>> /\ EndDrive(i)
    BY <1>5 DEF Retire, agentVars
  <2> QED
    BY <2>1, <2>2, <1>2, <1>3, <1>4 DEF GoesOn
<1>6. CASE NothingToDrive(i)
  <2>1. UNCHANGED <<attempt, needsCheckpoint, requested>> /\ ~Driven
    BY <1>6 DEF NothingToDrive
  <2>2. Kept /\ UNCHANGED <<goal, armed, broken>> /\ EndDrive(i)
    BY <1>6 DEF NothingToDrive, agentVars
  <2>3. attempt' \in Attempt /\ needsCheckpoint' \in BOOLEAN /\ requested' \in BOOLEAN
    BY <2>1 DEF TypeInv, DriverType
  <2> QED
    BY <2>1, <2>2, <2>3, <1>2, <1>3, <1>4 DEF GoesOn
<1>7. CASE BlockAtLimit(i)
  <2>1. Kept /\ attempt' = attempt /\ broken' = broken /\ armed' = FALSE
    BY <1>7 DEF BlockAtLimit, agentVars
  <2>2. goal' \in [version : Nat, phase : {"none", "active", "stopped", "complete"},
                   rounds : Nat]
    <3>1. goal' = [goal EXCEPT !.version = @ + 1, !.phase = "stopped"]
      BY <1>7 DEF BlockAtLimit
    <3>2. goal' = [version |-> goal.version + 1, phase |-> "stopped",
                   rounds |-> goal.rounds]
      BY <3>1 DEF TypeInv, GoalType
    <3>3. goal.version \in Nat /\ goal.rounds \in Nat
      BY DEF TypeInv, GoalType
    <3>4. goal.version + 1 \in Nat
      BY <3>3
    <3> QED
      BY <3>2, <3>3, <3>4
  <2>3. ~Driven'
    BY <2>1 DEF Driven
  <2>4. /\ loops' \in [Loops -> LoopStates] /\ slot' \in Loops \cup {0}
        /\ needsCheckpoint' \in BOOLEAN /\ requested' \in BOOLEAN
        /\ \A k \in Loops \ {i} : loops[k] = "flush" => loops'[k] = "flush"
    <3>1. CASE slot # 0
      BY <3>1, <1>7, <1>4 DEF BlockAtLimit
    <3>2. CASE slot = 0
      <4>1. /\ MayStartLoop /\ needsCheckpoint' = FALSE /\ requested' = FALSE
            /\ loops' = [loops EXCEPT ![i] = "loop", ![FreeLoop] = "flush"]
            /\ slot' = IF loops[i] = "start" THEN i ELSE FreeLoop
        BY <3>2, <1>7 DEF BlockAtLimit
      <4>2. FreeLoop \in Loops
        BY <4>1 DEF MayStartLoop, FreeLoop
      <4> QED
        BY <4>1, <4>2 DEF TypeInv, DriverType, LoopStates
    <3> QED
      BY <3>1, <3>2
  <2>5. attempt' \in Attempt
    BY <2>1 DEF TypeInv, DriverType
  <2> QED
    BY <2>1, <2>2, <2>3, <2>4, <2>5, <1>2 DEF GoesOn
<1>8. CASE Reserve(i)
  <2> DEFINE message == Round(goal.version, goal.rounds + 1, FreshId)
             reservation == [NoAttempt EXCEPT !.message = message, !.phase = "queued"]
             box == Append(nextTurn, message)
  <2>1. message \in Message
    <3>1. FreshId \in Nat
      BY FreshIdType DEF TypeInv, AgentType
    <3>2. goal.version \in Nat /\ goal.rounds + 1 \in 0 .. MaxRounds
      BY <1>8, MaxRoundsAssumption DEF Reserve, TypeInv, GoalType
    <3> QED
      BY <3>1, <3>2 DEF Round, Message
  <2>2. reservation \in Attempt
    BY <2>1 DEF NoAttempt, Attempt
  <2>3. box \in Seq(Message) /\ box # <<>>
    BY <2>1, AppendProperties DEF TypeInv, AgentType
  <2>4. /\ UNCHANGED <<goal, armed, broken, needsCheckpoint, requested>> /\ EndDrive(i)
        /\ \/ phase = "idle" /\ StartTurn(box, reservation)
           \/ /\ phase # "idle" /\ nextTurn' = box /\ attempt' = reservation
              /\ wakeRequested' = TRUE
              /\ UNCHANGED <<phase, pc, aborted, claimed, decision>>
    BY <1>8 DEF Reserve
  <2>5. needsCheckpoint' \in BOOLEAN /\ requested' \in BOOLEAN
    BY <2>4 DEF TypeInv, DriverType
  <2> HIDE DEF message, reservation, box
  <2>6. CASE phase = "idle" /\ StartTurn(box, reservation)
    <3>1. /\ phase' = "running" /\ pc' = "outer" /\ decision' = "none"
          /\ aborted' = FALSE /\ wakeRequested' = FALSE
          /\ claimed' \in Message /\ nextTurn' \in Seq(Message) /\ attempt' \in Attempt
      BY <2>2, <2>3, <2>6, StartTurnKeeps
    <3> QED
      BY <3>1, <2>4, <2>5, <2>6, <1>3, <1>4 DEF GoesOn, Decisions
  <2>7. CASE /\ phase # "idle" /\ nextTurn' = box /\ attempt' = reservation
             /\ wakeRequested' = TRUE
             /\ UNCHANGED <<phase, pc, aborted, claimed, decision>>
    <3>1. /\ phase' \in {"idle", "maintenance", "running"} /\ aborted' \in BOOLEAN
          /\ claimed' \in Message /\ decision' \in Decisions
          /\ pc' = "off" /\ phase' # "running"
      BY <2>7, <1>1 DEF TypeInv, AgentType
    <3> QED
      BY <3>1, <2>2, <2>3, <2>4, <2>5, <2>7, <1>3, <1>4 DEF GoesOn
  <2> QED
    BY <2>4, <2>6, <2>7
<1> QED
  BY <1>5, <1>6, <1>7, <1>8 DEF Proceed

-----------------------------------------------------------------------------
(* Every step preserves the invariant.                                     *)

\* A step that leaves the agent and its history alone, drives no goal that was not
\* driven and only takes authority from the attempt.
LEMMA SameAgentKeeps ==
  ASSUME IInv, UNCHANGED <<agentVars, unload, held, exposed, attempt, goal, broken>>,
         ~Driven => ~Driven'
  PROVE  TurnInv' /\ FenceInv' /\ HeldInv'
<1>1. TurnInv'
  BY DEF IInv, TurnInv, agentVars
<1>2. FoldAccepts(claimed)' <=> FoldAccepts(claimed)
  BY DEF FoldAccepts, GoalActive, agentVars
<1>3. FenceInv'
  BY <1>2 DEF IInv, FenceInv, agentVars, IsRound
<1>4. HeldInv'
  BY DEF IInv, HeldInv, agentVars
<1> QED
  BY <1>1, <1>3, <1>4

\* Outside a turn the fence has nothing to keep, and a cancel was answered.
LEMMA NoTurnKeeps ==
  ASSUME IInv, pc \in {"off", "closed"}, pc' \in {"off", "outer"},
         phase' = "running" <=> pc' # "off",
         UNCHANGED <<unload, held>>, ~Driven => ~Driven',
         held => ~Driven \/ unload # "no"
  PROVE  TurnInv' /\ FenceInv' /\ HeldInv'
BY DEF IInv, TurnInv, FenceInv, HeldInv

LEMMA BeginDriveStep ==
  ASSUME IInv, NEW i \in Loops, BeginDrive(i)
  PROVE  IInv'
<1>1. TypeInv /\ TurnInv /\ CheckpointInv
  BY DEF IInv
<1>2. /\ loops[i] \in {"start", "begin"}
      /\ UNCHANGED <<competing, unload, waits, replay, calls, held, exposed>>
  BY DEF BeginDrive, history
<1>3. HistoryType'
  BY <1>1, <1>2 DEF TypeInv, HistoryType
<1>4. CASE ~Ready /\ EndDrive(i)
           /\ UNCHANGED <<goalVars, attempt, needsCheckpoint, requested, agentVars>>
  <2>1. TypeInv'
    BY <1>1, <1>2, <1>4, EndDriveKeeps DEF TypeInv, GoalType, DriverType, AgentType,
       HistoryType, goalVars, agentVars
  <2>2. TurnInv' /\ FenceInv' /\ HeldInv'
    BY <1>2, <1>4, SameAgentKeeps DEF goalVars, Driven, GoalActive
  <2>3. \A k \in Loops : loops[k] = "flush" => loops'[k] = "flush"
    BY <1>1, <1>2, <1>4, EndDriveKeeps DEF TypeInv
  <2>4. CheckpointInv'
    BY <1>1, <1>2, <1>4, <2>3 DEF CheckpointInv, TypeInv, GoalType, goalVars, Driven, GoalActive
  <2> QED
    BY <2>1, <2>2, <2>4 DEF IInv
<1>5. CASE /\ Ready /\ needsCheckpoint /\ needsCheckpoint' = FALSE
           /\ loops' = [loops EXCEPT ![i] = "flush"] /\ slot' = Remembered(i)
           /\ UNCHANGED <<goalVars, attempt, requested, agentVars>>
  <2>1. /\ loops' \in [Loops -> LoopStates] /\ slot' \in Loops \cup {0}
        /\ \A k \in Loops : loops[k] = "flush" => loops'[k] = "flush"
        /\ loops[i] # "flush" /\ loops'[i] = "flush"
    BY <1>1, <1>2, <1>5 DEF TypeInv, DriverType, LoopStates, Remembered
  <2>2. TypeInv'
    <3>1. GoalType' /\ AgentType' /\ HistoryType'
      BY <1>1, <1>2, <1>5 DEF TypeInv, GoalType, AgentType, HistoryType, goalVars, agentVars
    <3>2. DriverType'
      BY <1>1, <1>2, <1>5, <2>1, Zenon DEF TypeInv, DriverType
    <3> QED
      BY <3>1, <3>2 DEF TypeInv
  <2>3. TurnInv' /\ FenceInv' /\ HeldInv'
    BY <1>2, <1>5, SameAgentKeeps DEF goalVars, Driven, GoalActive
  <2>4. i \notin uncovered
    BY <1>1, <2>1 DEF CheckpointInv
  <2>5. CheckpointInv'
    BY <1>1, <1>5, <2>1, <2>4 DEF CheckpointInv, TypeInv, GoalType, goalVars
  <2> QED
    BY <2>2, <2>3, <2>5 DEF IInv
<1>6. CASE /\ Ready /\ ~needsCheckpoint /\ Proceed(i)
           /\ unsaved' = (unsaved \/ LogsChange)
           /\ uncovered' = IF LogsChange THEN Flushing ELSE uncovered
  <2>1. GoesOn(i)
    BY <1>1, <1>2, <1>6, ProceedKeeps
  <2>2. unsaved' \in BOOLEAN /\ uncovered' \subseteq Loops
    BY <1>1, <1>6 DEF TypeInv, GoalType, Flushing
  <2>3. TypeInv'
    BY <1>1, <1>2, <1>3, <2>1, <2>2 DEF GoesOn, TypeInv, GoalType, DriverType, AgentType
  <2>4. TurnInv' /\ FenceInv' /\ HeldInv'
    <3>1. pc = "off" /\ unload = "no" /\ (held => ~Driven)
      BY <1>1, <1>6 DEF Ready, TurnInv, IInv, HeldInv
    <3> QED
      BY <3>1, <1>2, <2>1, NoTurnKeeps DEF GoesOn
  <2>5. \A k \in Loops : loops[k] = "flush" => loops'[k] = "flush"
    BY <1>2, <2>1 DEF GoesOn
  <2>6. CheckpointInv'
    <3>1. \A k \in uncovered' : loops'[k] = "flush"
      BY <1>1, <1>6, <2>5 DEF CheckpointInv, Flushing, TypeInv, GoalType
    <3>2. ASSUME unsaved', Driven'
          PROVE  needsCheckpoint' \/ unload' # "no"
                 \/ \E k \in Loops : loops'[k] = "flush" /\ k \notin uncovered'
      <4>1. ~LogsChange /\ Driven /\ unsaved /\ uncovered' = uncovered
        BY <1>6, <2>1, <3>2 DEF GoesOn
      <4>2. \E k \in Loops : loops[k] = "flush" /\ k \notin uncovered
        BY <1>1, <1>6, <4>1 DEF CheckpointInv, Ready
      <4> QED
        BY <2>5, <4>1, <4>2
    <3> QED
      BY <3>1, <3>2 DEF CheckpointInv
  <2> QED
    BY <2>3, <2>4, <2>6 DEF IInv
<1> QED
  BY <1>4, <1>5, <1>6 DEF BeginDrive

LEMMA FlushDoneStep ==
  ASSUME IInv, NEW i \in Loops, FlushDone(i)
  PROVE  IInv'
<1>1. TypeInv /\ TurnInv /\ CheckpointInv
  BY DEF IInv
<1>2. /\ loops[i] = "flush"
      /\ UNCHANGED <<competing, unload, waits, replay, calls, held, exposed>>
      /\ unsaved' = ((unsaved /\ i \in uncovered) \/ LogsChange)
      /\ uncovered' = (IF LogsChange THEN Flushing ELSE uncovered) \ {i}
  BY DEF FlushDone, Stores, history
<1>3. unsaved' \in BOOLEAN /\ uncovered' \subseteq Loops
  BY <1>1, <1>2 DEF TypeInv, GoalType, Flushing
<1>4. ASSUME \A k \in Loops \ {i} : loops[k] = "flush" => loops'[k] = "flush"
      PROVE  \A k \in uncovered' : loops'[k] = "flush"
  BY <1>1, <1>2, <1>3, <1>4 DEF CheckpointInv, Flushing, TypeInv, GoalType
\* What this loop does not store, another one had been asked for.
<1>5. ASSUME \A k \in Loops \ {i} : loops[k] = "flush" => loops'[k] = "flush",
             unsaved', Driven, ~LogsChange
      PROVE  \/ unload # "no" \/ needsCheckpoint
             \/ \E k \in Loops : loops'[k] = "flush" /\ k \notin uncovered'
  <2>1. unsaved /\ i \in uncovered /\ uncovered' = uncovered \ {i}
    BY <1>2, <1>5
  <2> QED
    BY <1>1, <1>5, <2>1 DEF CheckpointInv
<1>6. CASE EndDrive(i) /\ UNCHANGED <<goal, armed, broken, attempt, needsCheckpoint,
                                      requested, agentVars>>
  <2>1. /\ loops' \in [Loops -> LoopStates] /\ slot' \in Loops \cup {0}
        /\ \A k \in Loops \ {i} : loops[k] = "flush" => loops'[k] = "flush"
    BY <1>1, <1>6, EndDriveKeeps DEF TypeInv
  <2>2. TypeInv'
    <3>1. GoalType' /\ DriverType'
      BY <1>1, <1>2, <1>3, <1>6, <2>1 DEF TypeInv, GoalType, DriverType
    <3>2. AgentType' /\ HistoryType'
      BY <1>1, <1>2, <1>6 DEF TypeInv, AgentType, HistoryType, agentVars
    <3> QED
      BY <3>1, <3>2 DEF TypeInv
  <2>3. TurnInv' /\ FenceInv' /\ HeldInv'
    BY <1>2, <1>6, SameAgentKeeps DEF Driven, GoalActive
  <2>4. ~LogsChange /\ (Driven' <=> Driven)
    BY <1>6 DEF LogsChange, Driven, GoalActive
  <2>5. CheckpointInv'
    BY <1>2, <1>4, <1>5, <1>6, <2>1, <2>4 DEF CheckpointInv
  <2> QED
    BY <2>2, <2>3, <2>5 DEF IInv
<1>7. CASE Ready /\ ~needsCheckpoint /\ Proceed(i)
  <2>1. GoesOn(i)
    BY <1>1, <1>2, <1>7, ProceedKeeps
  <2>2. TypeInv'
    BY <1>1, <1>2, <1>3, <2>1 DEF GoesOn, TypeInv, GoalType, DriverType, AgentType,
       HistoryType
  <2>3. TurnInv' /\ FenceInv' /\ HeldInv'
    <3>1. pc = "off" /\ unload = "no" /\ (held => ~Driven)
      BY <1>1, <1>7 DEF Ready, TurnInv, IInv, HeldInv
    <3> QED
      BY <3>1, <1>2, <2>1, NoTurnKeeps DEF GoesOn
  <2>4. \A k \in Loops \ {i} : loops[k] = "flush" => loops'[k] = "flush"
    BY <2>1 DEF GoesOn
  <2>5. ASSUME unsaved', Driven'
        PROVE  \E k \in Loops : loops'[k] = "flush" /\ k \notin uncovered'
    <3>1. Driven /\ ~LogsChange /\ unload = "no"
      BY <2>1, <2>5, <1>7 DEF GoesOn, Ready
    <3> QED
      BY <3>1, <1>5, <1>7, <2>4, <2>5
  <2>6. CheckpointInv'
    BY <1>4, <2>4, <2>5 DEF CheckpointInv
  <2> QED
    BY <2>2, <2>3, <2>6 DEF IInv
<1> QED
  BY <1>6, <1>7 DEF FlushDone

LEMMA FlushFailsStep ==
  ASSUME IInv, NEW i \in Loops, FlushFails(i)
  PROVE  IInv'
<1>1. TypeInv /\ CheckpointInv
  BY DEF IInv
<1>2. /\ armed' = Disarmed /\ uncovered' = uncovered \ {i} /\ EndDrive(i)
      /\ UNCHANGED <<goal, broken, unsaved, attempt, competing, needsCheckpoint, requested,
                     unload, waits, agentVars, replay, history>>
  BY DEF FlushFails
<1>3. ~Driven'
  BY <1>2 DEF Disarmed, Driven
<1>4. /\ loops' \in [Loops -> LoopStates] /\ slot' \in Loops \cup {0}
      /\ \A k \in Loops \ {i} : loops[k] = "flush" => loops'[k] = "flush"
  BY <1>1, <1>2, EndDriveKeeps DEF TypeInv
<1>5. TypeInv'
  <2>1. GoalType' /\ DriverType'
    BY <1>1, <1>2, <1>4 DEF TypeInv, GoalType, DriverType, Disarmed
  <2>2. AgentType' /\ HistoryType'
    BY <1>1, <1>2 DEF TypeInv, AgentType, HistoryType, agentVars, history
  <2> QED
    BY <2>1, <2>2 DEF TypeInv
<1>6. TurnInv' /\ FenceInv' /\ HeldInv'
  BY <1>2, <1>3, SameAgentKeeps DEF history
<1>7. CheckpointInv'
  BY <1>1, <1>2, <1>3, <1>4 DEF CheckpointInv, TypeInv, GoalType
<1> QED
  BY <1>5, <1>6, <1>7 DEF IInv

\* A loop that is not waiting for a checkpoint goes on to another place outside one.
LEMMA LoopMoves ==
  ASSUME IInv, NEW i \in Loops, loops[i] # "flush", NEW state \in LoopStates,
         loops' = [loops EXCEPT ![i] = state], slot' \in {slot, 0},
         waits' \subseteq waits, requested' \in {FALSE, requested},
         UNCHANGED <<goalVars, attempt, competing, needsCheckpoint, unload, agentVars,
                     replay, history>>
  PROVE  IInv'
<1>1. TypeInv /\ CheckpointInv
  BY DEF IInv
<1>2. /\ loops' \in [Loops -> LoopStates]
      /\ \A k \in Loops : loops[k] = "flush" => loops'[k] = "flush"
  BY <1>1 DEF TypeInv, DriverType
<1>3. TypeInv'
  <2>1. slot' \in Loops \cup {0} /\ waits' \subseteq Loops \cup {0} /\ requested' \in BOOLEAN
    BY <1>1 DEF TypeInv, DriverType
  <2>2. GoalType' /\ AgentType' /\ HistoryType'
    BY <1>1 DEF TypeInv, GoalType, AgentType, HistoryType, agentVars, history, goalVars
  <2>3. DriverType'
    BY <1>1, <1>2, <2>1 DEF TypeInv, DriverType
  <2> QED
    BY <2>2, <2>3 DEF TypeInv
<1>4. UNCHANGED <<goal, armed, broken, unsaved, uncovered>> /\ (Driven' <=> Driven)
  BY DEF goalVars, Driven, GoalActive
<1>5. TurnInv' /\ FenceInv' /\ HeldInv'
  BY <1>4, SameAgentKeeps DEF history
<1>6. CheckpointInv'
  BY <1>1, <1>2, <1>4 DEF CheckpointInv, TypeInv, GoalType
<1> QED
  BY <1>3, <1>5, <1>6 DEF IInv

LEMMA LoopAgainStep ==
  ASSUME IInv, NEW i \in Loops, LoopAgain(i)
  PROVE  IInv'
<1>1. /\ loops[i] = "loop"
      /\ UNCHANGED <<goalVars, attempt, competing, needsCheckpoint, slot, unload, waits,
                     agentVars, replay, history>>
  BY DEF LoopAgain
<1>2. PICK state \in {"begin", "retire"} :
        loops' = [loops EXCEPT ![i] = state] /\ requested' \in {FALSE, requested}
  BY DEF LoopAgain
<1>3. state \in LoopStates /\ slot' \in {slot, 0} /\ waits' \subseteq waits
  BY <1>1 DEF LoopStates
<1> QED
  BY <1>1, <1>2, <1>3, LoopMoves

LEMMA RetireLoopStep ==
  ASSUME IInv, NEW i \in Loops, RetireLoop(i)
  PROVE  IInv'
<1>1. /\ loops[i] = "retire" /\ slot' \in {slot, 0} /\ waits' \subseteq waits
      /\ UNCHANGED <<goalVars, attempt, competing, needsCheckpoint, unload, agentVars,
                     replay, history>>
  BY DEF RetireLoop
<1>2. PICK state \in {"start", "off"} :
        loops' = [loops EXCEPT ![i] = state] /\ requested' \in {FALSE, requested}
  BY DEF RetireLoop
<1>3. state \in LoopStates
  BY DEF LoopStates
<1> QED
  BY <1>1, <1>2, <1>3, LoopMoves

\* A step that logs no change and takes no checkpoint from a loop.
LEMMA CheckpointKept ==
  ASSUME IInv, \A i \in Loops : loops[i] = "flush" => loops'[i] = "flush",
         UNCHANGED <<unsaved, uncovered>>, unload # "no" => unload' # "no",
         needsCheckpoint => needsCheckpoint', ~Driven => ~Driven'
  PROVE  CheckpointInv'
BY DEF IInv, CheckpointInv, TypeInv, GoalType

LEMMA ChangeGoalStep == ASSUME IInv, ChangeGoal PROVE IInv'
<1>1. TypeInv
  BY DEF IInv
<1>2. PICK toPhase \in {"none", "active", "stopped", "complete"}, rounds \in Nat,
           arm \in BOOLEAN : Commit(toPhase, rounds, arm)
  <2>1. goal.phase \in {"none", "active", "stopped", "complete"} /\ goal.rounds \in Nat
        /\ armed \in BOOLEAN /\ 0 \in Nat
    BY <1>1 DEF TypeInv, GoalType
  <2>2. \/ Commit("active", 0, TRUE)
        \/ Commit(goal.phase, goal.rounds, armed)
        \/ Commit("stopped", goal.rounds, FALSE)
        \/ Commit("active", goal.rounds, TRUE)
        \/ Commit("complete", goal.rounds, FALSE)
        \/ Commit("none", 0, FALSE)
    BY DEF ChangeGoal
  <2> QED
    BY <2>1, <2>2
<1>3. /\ held' = FALSE
      /\ exposed' = IF pc = "tail" /\ exposed = "no" THEN "late" ELSE exposed
      /\ UNCHANGED <<attempt, competing, unload, waits, agentVars, replay, calls>>
      /\ needsCheckpoint' = (IF Listening THEN TRUE ELSE needsCheckpoint)
      /\ Request
  BY DEF ChangeGoal, GoalChanged
<1>4. GoalType'
  BY <1>1, <1>2, CommitKeeps DEF TypeInv
<1>5. /\ loops' \in [Loops -> LoopStates] /\ slot' = slot /\ requested' \in BOOLEAN
      /\ \A i \in Loops : loops'[i] = "flush" <=> loops[i] = "flush"
  BY <1>1, <1>3, RequestKeeps DEF TypeInv
<1>6. TypeInv'
  <2>1. needsCheckpoint' \in BOOLEAN
    BY <1>1, <1>3 DEF TypeInv, DriverType
  <2>2. DriverType'
    BY <1>1, <1>3, <1>5, <2>1 DEF TypeInv, DriverType
  <2>3. AgentType' /\ HistoryType'
    BY <1>1, <1>3 DEF TypeInv, AgentType, HistoryType, agentVars
  <2> QED
    BY <1>4, <2>2, <2>3 DEF TypeInv
<1>7. TurnInv' /\ HeldInv'
  BY <1>3 DEF IInv, TurnInv, HeldInv, agentVars
\* A change after the fence's last look is late.
<1>8. FenceInv'
  BY <1>3 DEF IInv, FenceInv, agentVars, IsRound
<1>9. CheckpointInv'
  <2>1. needsCheckpoint' \/ unload' # "no"
    BY <1>3 DEF Listening
  <2>2. uncovered' = Flushing
    BY <1>2 DEF Commit
  <2> QED
    BY <1>5, <2>1, <2>2 DEF CheckpointInv, Flushing
<1> QED
  BY <1>6, <1>7, <1>8, <1>9 DEF IInv

LEMMA SendPromptStep == ASSUME IInv, SendPrompt PROVE IInv'
<1> DEFINE box == Append(nextTurn, Prompt)
           att == IF Listening /\ attempt.phase = "queued"
                  THEN [attempt EXCEPT !.stale = TRUE] ELSE attempt
<1>1. TypeInv
  BY DEF IInv
<1>2. /\ calls' = calls + 1 /\ competing' = (IF Listening THEN TRUE ELSE competing)
      /\ UNCHANGED <<goalVars, needsCheckpoint, requested, loops, slot, unload, waits,
                     replay, held, exposed>>
  BY DEF SendPrompt
<1>3. \/ phase = "idle" /\ StartTurn(box, att)
      \/ /\ phase # "idle" /\ nextTurn' = box /\ attempt' = att
         /\ wakeRequested' = (wakeRequested \/ phase = "maintenance" \/ aborted)
         /\ UNCHANGED <<phase, pc, aborted, claimed, decision>>
  BY DEF SendPrompt
<1>4. box \in Seq(Message) /\ box # <<>>
  BY <1>1, NoAttemptFacts, AppendProperties DEF TypeInv, AgentType
<1>5. att \in Attempt /\ att.phase = attempt.phase /\ att.cancelled = attempt.cancelled
  BY <1>1 DEF TypeInv, DriverType, Attempt
<1>6. GoalType' /\ competing' \in BOOLEAN /\ calls' \in Nat /\ (Driven' <=> Driven)
  <2>1. GoalType' /\ (Driven' <=> Driven)
    BY <1>1, <1>2 DEF TypeInv, GoalType, goalVars, Driven, GoalActive
  <2>2. competing' \in BOOLEAN
    BY <1>1, <1>2 DEF TypeInv, DriverType
  <2>3. calls' \in Nat
    BY <1>1, <1>2 DEF TypeInv, HistoryType
  <2> QED
    BY <2>1, <2>2, <2>3
<1>7. CheckpointInv'
  BY <1>2, <1>6, CheckpointKept DEF goalVars
<1> HIDE DEF box, att
<1>8. CASE phase = "idle" /\ StartTurn(box, att)
  <2>1. /\ phase' = "running" /\ pc' = "outer" /\ decision' = "none"
        /\ aborted' = FALSE /\ wakeRequested' = FALSE
        /\ claimed' \in Message /\ nextTurn' \in Seq(Message) /\ attempt' \in Attempt
    BY <1>4, <1>5, <1>8, StartTurnKeeps
  <2>2. TypeInv'
    <3>1. DriverType'
      BY <1>1, <1>2, <1>6, <2>1 DEF TypeInv, DriverType
    <3>2. AgentType'
      BY <1>1, <1>2, <2>1 DEF TypeInv, AgentType, Decisions
    <3>3. HistoryType'
      BY <1>1, <1>2, <1>6, <1>8 DEF TypeInv, HistoryType
    <3> QED
      BY <1>6, <3>1, <3>2, <3>3 DEF TypeInv
  <2>3. TurnInv' /\ FenceInv' /\ HeldInv'
    <3>1. pc = "off" /\ (held => ~Driven \/ unload # "no")
      BY <1>1, <1>8 DEF IInv, TurnInv, HeldInv
    <3> QED
      BY <3>1, <1>2, <1>6, <2>1, NoTurnKeeps
  <2> QED
    BY <1>7, <2>2, <2>3 DEF IInv
<1>9. CASE /\ phase # "idle" /\ nextTurn' = box /\ attempt' = att
           /\ wakeRequested' = (wakeRequested \/ phase = "maintenance" \/ aborted)
           /\ UNCHANGED <<phase, pc, aborted, claimed, decision>>
  <2>1. TypeInv'
    <3>1. DriverType'
      BY <1>1, <1>2, <1>5, <1>6, <1>9 DEF TypeInv, DriverType
    <3>2. wakeRequested' \in BOOLEAN
      BY <1>1, <1>9, Zenon DEF TypeInv, AgentType
    <3>3. AgentType' /\ HistoryType'
      BY <1>1, <1>2, <1>4, <1>6, <1>9, <3>2 DEF TypeInv, AgentType, HistoryType
    <3> QED
      BY <1>6, <3>1, <3>3 DEF TypeInv
  <2>2. UNCHANGED <<phase, pc, aborted, claimed, decision, exposed, unload, held, goal, broken>>
        /\ attempt'.phase = attempt.phase /\ attempt'.cancelled = attempt.cancelled
    BY <1>2, <1>5, <1>9 DEF goalVars
  <2>3. TurnInv' /\ HeldInv'
    BY <1>4, <1>6, <1>9, <2>2 DEF IInv, TurnInv, HeldInv
  <2>4. FoldAccepts(claimed)' <=> FoldAccepts(claimed)
    BY <2>2 DEF FoldAccepts, GoalActive
  <2>5. FenceInv'
    BY <2>2, <2>4 DEF IInv, FenceInv, IsRound
  <2> QED
    BY <1>7, <2>1, <2>3, <2>5 DEF IInv
<1> QED
  BY <1>3, <1>8, <1>9

\* A cancel aborts a running agent, so no round enters after it.
LEMMA CancelStep == ASSUME IInv, Cancel PROVE IInv'
<1>1. TypeInv /\ TurnInv
  BY DEF IInv
<1>2. /\ aborted' = (phase # "idle") /\ held' = (held \/ (phase = "running" /\ pc # "closed"))
      /\ UNCHANGED <<goalVars, competing, needsCheckpoint, requested, loops, slot, unload,
                     waits, replay, calls, exposed>>
      /\ UNCHANGED <<phase, pc, claimed, decision>>
  BY DEF Cancel, ClearAndAbort
<1>3. /\ nextTurn' \in {<<>>, nextTurn} /\ attempt' \in {attempt, Discards(attempt, nextTurn)}
      /\ wakeRequested' \in {FALSE, wakeRequested}
  BY DEF Cancel, ClearAndAbort
<1>4. attempt' \in Attempt /\ (attempt.cancelled => attempt'.cancelled)
  BY <1>1, <1>3, DiscardsKeeps DEF TypeInv, DriverType
<1>5. TypeInv'
  <2>1. GoalType' /\ DriverType'
    BY <1>1, <1>2, <1>4 DEF TypeInv, GoalType, DriverType, goalVars
  <2>2. aborted' \in BOOLEAN /\ wakeRequested' \in BOOLEAN /\ held' \in BOOLEAN
    BY <1>1, <1>2, <1>3, Zenon DEF TypeInv, AgentType, HistoryType
  <2>3. nextTurn' \in Seq(Message)
    BY <1>1, <1>3, EmptySeq DEF TypeInv, AgentType
  <2>4. AgentType' /\ HistoryType'
    BY <1>1, <1>2, <2>2, <2>3 DEF TypeInv, AgentType, HistoryType
  <2> QED
    BY <2>1, <2>4 DEF TypeInv
<1>6. Driven' <=> Driven
  BY <1>2 DEF goalVars, Driven, GoalActive
<1>7. pc # "off" => aborted'
  BY <1>1, <1>2 DEF TurnInv
<1>8. TurnInv' /\ FenceInv'
  BY <1>1, <1>2, <1>7 DEF IInv, TurnInv, FenceInv, IsRound
<1>9. HeldInv'
  BY <1>1, <1>2, <1>4, <1>6, <1>7 DEF IInv, TurnInv, HeldInv
<1>10. CheckpointInv'
  BY <1>2, <1>6, CheckpointKept DEF goalVars
<1> QED
  BY <1>5, <1>8, <1>9, <1>10 DEF IInv

LEMMA StartMaintenanceStep == ASSUME IInv, StartMaintenance PROVE IInv'
<1>1. TypeInv /\ TurnInv
  BY DEF IInv
<1>2. /\ phase = "idle" /\ phase' = "maintenance" /\ calls' = calls + 1
      /\ UNCHANGED <<goalVars, driverVars, unload, waits, pc, aborted, wakeRequested,
                     nextTurn, claimed, decision, replay, held, exposed>>
  BY DEF StartMaintenance
<1>3. TypeInv'
  <2>1. GoalType' /\ DriverType'
    BY <1>1, <1>2 DEF TypeInv, GoalType, DriverType, goalVars, driverVars
  <2>2. AgentType' /\ HistoryType'
    BY <1>1, <1>2 DEF TypeInv, AgentType, HistoryType
  <2> QED
    BY <2>1, <2>2 DEF TypeInv
<1>4. Driven' <=> Driven
  BY <1>2 DEF goalVars, Driven, GoalActive
<1>5. pc = "off" /\ (held => ~Driven \/ unload # "no")
  BY <1>1, <1>2 DEF IInv, TurnInv, HeldInv
<1>6. TurnInv' /\ FenceInv' /\ HeldInv'
  BY <1>2, <1>4, <1>5, NoTurnKeeps
<1>7. CheckpointInv'
  BY <1>2, <1>4, CheckpointKept DEF goalVars, driverVars
<1> QED
  BY <1>3, <1>6, <1>7 DEF IInv

\* A waiting prompt opens the next turn.
LEMMA TurnOpens ==
  ASSUME IInv, nextTurn # <<>>, pc \in {"off", "closed"},
         held => ~Driven \/ unload # "no",
         StartTurn(nextTurn, attempt), replay' \in {FALSE, replay},
         UNCHANGED <<goalVars, competing, needsCheckpoint, requested, loops, slot, unload,
                     waits, calls, held, exposed>>
  PROVE  IInv'
<1>1. TypeInv
  BY DEF IInv
<1>2. /\ phase' = "running" /\ pc' = "outer" /\ decision' = "none"
      /\ aborted' = FALSE /\ wakeRequested' = FALSE
      /\ claimed' \in Message /\ nextTurn' \in Seq(Message) /\ attempt' \in Attempt
  BY <1>1, StartTurnKeeps DEF TypeInv, DriverType, AgentType
<1>3. Driven' <=> Driven
  BY DEF goalVars, Driven, GoalActive
<1>4. TypeInv'
  <2>1. GoalType' /\ DriverType'
    BY <1>1, <1>2 DEF TypeInv, GoalType, DriverType, goalVars
  <2>2. replay' \in BOOLEAN
    BY <1>1 DEF TypeInv, AgentType
  <2>3. AgentType' /\ HistoryType'
    BY <1>1, <1>2, <2>2 DEF TypeInv, AgentType, HistoryType, Decisions
  <2> QED
    BY <2>1, <2>3 DEF TypeInv
<1>5. TurnInv' /\ FenceInv' /\ HeldInv'
  BY <1>2, <1>3, NoTurnKeeps
<1>6. CheckpointInv'
  BY <1>3, CheckpointKept DEF goalVars
<1> QED
  BY <1>4, <1>5, <1>6 DEF IInv

LEMMA MaintenanceDoneStep == ASSUME IInv, MaintenanceDone PROVE IInv'
<1>1. TypeInv /\ TurnInv
  BY DEF IInv
<1>2. /\ phase = "maintenance"
      /\ UNCHANGED <<goalVars, competing, needsCheckpoint, requested, loops, slot, unload,
                     waits, replay, calls, held, exposed>>
  BY DEF MaintenanceDone, history
<1>3. pc = "off" /\ (held => ~Driven \/ unload # "no")
  BY <1>1, <1>2 DEF IInv, TurnInv, HeldInv
<1>4. CASE nextTurn # <<>> /\ StartTurn(nextTurn, attempt)
  BY <1>2, <1>3, <1>4, TurnOpens
<1>5. CASE /\ phase' = "idle" /\ aborted' = FALSE /\ wakeRequested' = FALSE
           /\ UNCHANGED <<pc, nextTurn, claimed, decision, attempt>>
  <2>1. TypeInv'
    <3>1. GoalType' /\ DriverType'
      BY <1>1, <1>2, <1>5 DEF TypeInv, GoalType, DriverType, goalVars
    <3>2. AgentType' /\ HistoryType'
      BY <1>1, <1>2, <1>5 DEF TypeInv, AgentType, HistoryType
    <3> QED
      BY <3>1, <3>2 DEF TypeInv
  <2>2. Driven' <=> Driven
    BY <1>2 DEF goalVars, Driven, GoalActive
  <2>3. TurnInv' /\ FenceInv' /\ HeldInv'
    BY <1>2, <1>3, <1>5, <2>2, NoTurnKeeps
  <2>4. CheckpointInv'
    BY <1>2, <2>2, CheckpointKept DEF goalVars
  <2> QED
    BY <2>1, <2>3, <2>4 DEF IInv
<1> QED
  BY <1>4, <1>5 DEF MaintenanceDone

LEMMA DrainOnStep == ASSUME IInv, DrainOn PROVE IInv'
<1>1. /\ pc = "closed" /\ decision = "drain" /\ ~aborted
      /\ StartTurn(nextTurn, attempt)
      /\ UNCHANGED <<goalVars, competing, needsCheckpoint, requested, loops, slot, unload,
                     waits, replay, calls, held, exposed>>
  BY DEF DrainOn, history
<1>2. nextTurn # <<>> /\ (held => ~Driven \/ unload # "no")
  BY <1>1 DEF IInv, TurnInv, HeldInv
<1> QED
  BY <1>1, <1>2, TurnOpens

LEMMA ReplayWakeStep == ASSUME IInv, ReplayWake PROVE IInv'
<1>1. TypeInv /\ TurnInv
  BY DEF IInv
<1>2. /\ replay' = FALSE
      /\ UNCHANGED <<goalVars, competing, needsCheckpoint, requested, loops, slot, unload,
                     waits, calls, held, exposed>>
  BY DEF ReplayWake, history
<1>3. CASE /\ phase = "idle" /\ nextTurn # <<>>
           /\ StartTurn(nextTurn, attempt)
  <2>1. pc = "off" /\ (held => ~Driven \/ unload # "no")
    BY <1>1, <1>3 DEF IInv, TurnInv, HeldInv
  <2> QED
    BY <1>2, <1>3, <2>1, TurnOpens
<1>4. CASE UNCHANGED <<attempt, agentVars>>
  <2>1. TypeInv'
    <3>1. GoalType' /\ DriverType'
      BY <1>1, <1>2, <1>4 DEF TypeInv, GoalType, DriverType, goalVars
    <3>2. AgentType' /\ HistoryType'
      BY <1>1, <1>2, <1>4 DEF TypeInv, AgentType, HistoryType, agentVars
    <3> QED
      BY <3>1, <3>2 DEF TypeInv
  <2>2. (Driven' <=> Driven) /\ UNCHANGED <<goal, broken>>
    BY <1>2 DEF goalVars, Driven, GoalActive
  <2>3. TurnInv' /\ FenceInv' /\ HeldInv'
    BY <1>2, <1>4, <2>2, SameAgentKeeps
  <2>4. CheckpointInv'
    BY <1>2, <2>2, CheckpointKept DEF goalVars
  <2> QED
    BY <2>1, <2>3, <2>4 DEF IInv
<1> QED
  BY <1>3, <1>4 DEF ReplayWake

\* The disposer aborts a running turn that has a round, so the fence has nothing
\* more to keep; and the goal is not driven any more.
LEMMA UnloadStep == ASSUME IInv, Unload PROVE IInv'
<1>1. TypeInv /\ TurnInv
  BY DEF IInv
<1>2. /\ unload = "no" /\ unload' = "closing" /\ Disarm
      /\ UNCHANGED <<competing, needsCheckpoint, requested, loops, slot, replay, history>>
  BY DEF Unload
<1>3. GoalType' /\ ~Driven' /\ UNCHANGED <<goal, broken, unsaved, uncovered>>
  BY <1>1, <1>2, DisarmKeeps DEF TypeInv
<1> DEFINE stale == [attempt EXCEPT !.stale = TRUE]
<1>4. stale \in Attempt
  BY <1>1 DEF TypeInv, DriverType, Attempt
<1>5. CheckpointInv'
  BY <1>2, <1>3, CheckpointKept
<1>6. slot \in Loops \cup {0}
  BY <1>1 DEF TypeInv, DriverType
<1> HIDE DEF stale
<1>7. CASE /\ attempt # NoAttempt /\ phase = "running"
           /\ ClearAndAbort(stale) /\ waits' = {0, slot}
  <2>1. /\ nextTurn' = <<>> /\ attempt' = stale
        /\ aborted' = TRUE /\ wakeRequested' = FALSE
        /\ UNCHANGED <<phase, pc, claimed, decision>>
    BY <1>7 DEF ClearAndAbort
  <2>2. attempt' \in Attempt
    BY <1>4, <2>1
  <2>3. TypeInv'
    <3>1. DriverType'
      BY <1>1, <1>2, <1>6, <1>7, <2>2 DEF TypeInv, DriverType
    <3>2. AgentType' /\ HistoryType'
      BY <1>1, <1>2, <2>1, EmptySeq DEF TypeInv, AgentType, HistoryType, history
    <3> QED
      BY <1>3, <3>1, <3>2 DEF TypeInv
  <2>4. TurnInv' /\ FenceInv' /\ HeldInv'
    BY <1>1, <1>2, <1>3, <2>1 DEF IInv, TurnInv, FenceInv, HeldInv, IsRound, history
  <2> QED
    BY <1>5, <2>3, <2>4 DEF IInv
<1>8. CASE /\ ~(attempt # NoAttempt /\ phase = "running")
           /\ attempt' = IF attempt = NoAttempt THEN attempt ELSE stale
           /\ waits' = {slot} \ {0}
           /\ UNCHANGED agentVars
  <2>1. TypeInv'
    <3>1. DriverType'
      BY <1>1, <1>2, <1>4, <1>6, <1>8 DEF TypeInv, DriverType
    <3>2. AgentType' /\ HistoryType'
      BY <1>1, <1>2, <1>8 DEF TypeInv, AgentType, HistoryType, history, agentVars
    <3> QED
      BY <1>3, <3>1, <3>2 DEF TypeInv
  <2>2. TurnInv' /\ HeldInv'
    BY <1>1, <1>3, <1>8 DEF TurnInv, HeldInv, agentVars
  <2>3. attempt = NoAttempt \/ pc = "off"
    BY <1>1, <1>8 DEF TurnInv
  <2>4. ~(pc = "tail" /\ decision = "enter" /\ IsRound(claimed) /\ ~aborted
            /\ exposed # "unfenced")
    BY <2>3, NoAttemptFacts DEF IInv, FenceInv
  <2>5. FenceInv'
    BY <1>2, <1>8, <2>4 DEF IInv, FenceInv, agentVars, history, IsRound
  <2> QED
    BY <1>5, <2>1, <2>2, <2>5 DEF IInv
<1> QED
  BY <1>7, <1>8 DEF Unload, stale

LEMMA UnloadedStep == ASSUME IInv, Unloaded PROVE IInv'
<1>1. TypeInv
  BY DEF IInv
<1>2. /\ unload = "closing" /\ unload' = "gone" /\ attempt' = NoAttempt
      /\ competing' = FALSE /\ needsCheckpoint' = FALSE /\ requested' = FALSE
      /\ loops' = [i \in Loops |-> "off"] /\ slot' = 0 /\ uncovered' = {}
      /\ decision' = IF decision = "fenced" THEN "orphan" ELSE decision
      /\ UNCHANGED <<goal, armed, broken, unsaved, waits, phase, pc, aborted, wakeRequested,
                     nextTurn, claimed, replay, history>>
  BY DEF Unloaded
<1>3. TypeInv'
  <2>1. GoalType' /\ DriverType'
    BY <1>1, <1>2, NoAttemptFacts DEF TypeInv, GoalType, DriverType, LoopStates
  <2>2. AgentType' /\ HistoryType'
    BY <1>1, <1>2 DEF TypeInv, AgentType, HistoryType, Decisions, history
  <2> QED
    BY <2>1, <2>2 DEF TypeInv
<1>4. TurnInv' /\ HeldInv' /\ CheckpointInv'
  BY <1>2 DEF IInv, TurnInv, HeldInv, CheckpointInv
<1>5. FenceInv'
  BY <1>2 DEF IInv, FenceInv, history
<1> QED
  BY <1>3, <1>4, <1>5 DEF IInv

LEMMA LoadStep == ASSUME IInv, Load PROVE IInv'
<1>1. TypeInv
  BY DEF IInv
<1>2. /\ unload = "gone" /\ unload' = "no" /\ Disarm
      /\ UNCHANGED <<driverVars, waits, agentVars, replay, history>>
  BY DEF Load
<1>3. GoalType' /\ ~Driven' /\ UNCHANGED <<goal, broken, unsaved, uncovered>>
  BY <1>1, <1>2, DisarmKeeps DEF TypeInv
<1>4. TypeInv'
  <2>1. DriverType'
    BY <1>1, <1>2 DEF TypeInv, DriverType, driverVars
  <2>2. AgentType' /\ HistoryType'
    BY <1>1, <1>2 DEF TypeInv, AgentType, HistoryType, agentVars, history
  <2> QED
    BY <1>3, <2>1, <2>2 DEF TypeInv
<1>5. TurnInv' /\ HeldInv'
  BY <1>2, <1>3 DEF IInv, TurnInv, HeldInv, agentVars
<1>6. FenceInv'
  BY <1>2 DEF IInv, FenceInv, agentVars, history, IsRound
<1>7. CheckpointInv'
  BY <1>2, <1>3 DEF IInv, CheckpointInv, driverVars
<1> QED
  BY <1>4, <1>5, <1>6, <1>7 DEF IInv

\* A turn that ends when it was cancelled answers the cancel, and one that was not
\* cancelled had none to answer.
LEMMA TurnCloses ==
  ASSUME IInv, pc \in {"outer", "front", "tail", "step"}, NEW reason, CloseTurn(reason),
         aborted => reason = "aborted", SameTurn
  PROVE  IInv'
<1>1. TypeInv /\ TurnInv
  BY DEF IInv
<1>2. UNCHANGED <<competing, unload, waits, phase, claimed, replay, calls, held>>
  BY DEF SameTurn
<1>3. /\ GoalType' /\ UNCHANGED <<goal, broken, unsaved, uncovered>>
      /\ ~armed => ~armed'
      /\ attempt' \in Attempt /\ attempt'.phase = attempt.phase
      /\ pc' = "closed" /\ decision' \in {"drain", "exit"}
      /\ aborted' \in BOOLEAN /\ wakeRequested' \in BOOLEAN
      /\ decision' = "drain" => nextTurn' # <<>>
      /\ exposed' = "no" /\ UNCHANGED <<needsCheckpoint, requested, loops, slot, nextTurn>>
  BY <1>1, CloseTurnKeeps
<1>4. TypeInv'
  <2>1. DriverType'
    BY <1>1, <1>2, <1>3 DEF TypeInv, DriverType
  <2>2. AgentType' /\ HistoryType'
    BY <1>1, <1>2, <1>3 DEF TypeInv, AgentType, HistoryType, Decisions
  <2> QED
    BY <1>3, <2>1, <2>2 DEF TypeInv
<1>5. ~Driven => ~Driven'
  BY <1>3 DEF Driven, GoalActive
<1>6. TurnInv' /\ FenceInv'
  BY <1>1, <1>2, <1>3 DEF IInv, TurnInv, FenceInv
<1>7. HeldInv'
  <2>1. CASE aborted
    <3>1. decision' = "exit" /\ (attempt'.cancelled \/ ~Driven' \/ ~Listening)
      BY <1>1, <2>1, AbortedTurnAnswers
    <3> QED
      BY <1>1, <1>2, <1>3, <3>1 DEF HeldInv, Listening
  <2>2. CASE ~aborted
    BY <1>2, <1>5, <2>2 DEF IInv, HeldInv
  <2> QED
    BY <2>1, <2>2
<1>8. CheckpointInv'
  BY <1>2, <1>3, <1>5, CheckpointKept
<1> QED
  BY <1>4, <1>6, <1>7, <1>8 DEF IInv

LEMMA OuterEndsTurnStep == ASSUME IInv, OuterEndsTurn PROVE IInv'
<1>1. PICK reason \in {"aborted", "error", "blocked"} :
        CloseTurn(reason) /\ (aborted => reason = "aborted")
  BY DEF OuterEndsTurn
<1>2. pc \in {"outer", "front", "tail"} /\ SameTurn
  BY DEF OuterEndsTurn
<1> QED
  BY <1>1, <1>2, TurnCloses

LEMMA StepDoneStep == ASSUME IInv, StepDone PROVE IInv'
<1>1. PICK reason \in {"aborted", "completed", "max-tokens", "error"} :
        CloseTurn(reason) /\ (aborted => reason = "aborted")
  BY DEF StepDone
<1>2. pc = "step" /\ SameTurn
  BY DEF StepDone
<1> QED
  BY <1>1, <1>2, TurnCloses

\* A step within the turn, before or at the fence.
LEMMA WithinTurn ==
  ASSUME IInv, SameTurn, phase = "running", pc \in {"outer", "front", "inner"},
         pc' \in {"front", "inner", "tail"},
         attempt' \in {attempt, NoAttempt}, decision' \in Decisions,
         UNCHANGED <<aborted, wakeRequested, nextTurn>>,
         GoalType', needsCheckpoint' \in BOOLEAN, requested' \in BOOLEAN,
         loops' \in [Loops -> LoopStates], slot' \in Loops \cup {0},
         exposed' \in {"no", "late", "unfenced"}, ~Driven => ~Driven'
  PROVE  TypeInv' /\ TurnInv' /\ HeldInv'
<1>1. TypeInv
  BY DEF IInv
<1>2. UNCHANGED <<competing, unload, waits, phase, claimed, replay, calls, held>>
  BY DEF SameTurn
<1>3. TypeInv'
  <2>1. attempt' \in Attempt
    BY <1>1, NoAttemptFacts DEF TypeInv, DriverType
  <2>2. DriverType'
    BY <1>1, <1>2, <2>1 DEF TypeInv, DriverType
  <2>3. AgentType' /\ HistoryType'
    BY <1>1, <1>2 DEF TypeInv, AgentType, HistoryType
  <2> QED
    BY <2>2, <2>3 DEF TypeInv
<1>4. TurnInv'
  BY <1>2 DEF TurnInv
<1>5. HeldInv'
  BY <1>2 DEF IInv, HeldInv
<1> QED
  BY <1>3, <1>4, <1>5

\* The waterfall of a round begins at the fence, or the round counts as unfenced.
LEMMA DispatchStep == ASSUME IInv, Dispatch PROVE IInv'
<1>1. TypeInv /\ TurnInv
  BY DEF IInv
<1>2. /\ pc = "outer" /\ SameTurn
      /\ UNCHANGED <<goalVars, attempt, needsCheckpoint, requested, loops, slot, aborted,
                     wakeRequested, nextTurn>>
      /\ exposed' = IF IsRound(claimed) /\ ~Fenced THEN "unfenced" ELSE "no"
      /\ \/ Fenced /\ pc' = "front" /\ decision' = "fenced"
         \/ ~Fenced /\ pc' = "tail" /\ decision' = "enter"
  BY DEF Dispatch
<1>3. /\ UNCHANGED <<goal, armed, broken, unsaved, uncovered, unload, claimed>>
      /\ (Driven' <=> Driven) /\ phase = "running"
  BY <1>1, <1>2 DEF goalVars, Driven, GoalActive, SameTurn, TurnInv
<1>4. TypeInv' /\ TurnInv' /\ HeldInv'
  <2>1. GoalType' /\ exposed' \in {"no", "late", "unfenced"} /\ decision' \in Decisions
    BY <1>1, <1>2, <1>3 DEF TypeInv, GoalType, Decisions
  <2>2. /\ needsCheckpoint' \in BOOLEAN /\ requested' \in BOOLEAN
        /\ loops' \in [Loops -> LoopStates] /\ slot' \in Loops \cup {0}
    BY <1>1, <1>2 DEF TypeInv, DriverType
  <2>3. attempt' = attempt /\ UNCHANGED <<aborted, wakeRequested, nextTurn>>
        /\ pc' \in {"front", "inner", "tail"}
    BY <1>2
  <2> QED
    BY <1>2, <1>3, <2>1, <2>2, <2>3, WithinTurn
<1>5. FenceInv'
  BY <1>2, <1>3 DEF FenceInv, IsRound
<1>6. CheckpointInv'
  BY <1>2, <1>3, CheckpointKept
<1> QED
  BY <1>4, <1>5, <1>6 DEF IInv

LEMMA FirstCheckStep == ASSUME IInv, FirstCheck PROVE IInv'
<1>1. TypeInv /\ TurnInv
  BY DEF IInv
<1>2. pc = "front" /\ SameTurn /\ UNCHANGED <<goalVars, needsCheckpoint, exposed>>
  BY DEF FirstCheck
<1>3. /\ UNCHANGED <<goal, armed, broken, unsaved, uncovered>> /\ GoalType'
      /\ (Driven' <=> Driven) /\ needsCheckpoint' \in BOOLEAN
      /\ phase = "running" /\ exposed' \in {"no", "late", "unfenced"}
  <2>1. UNCHANGED <<goal, armed, broken, unsaved, uncovered>> /\ (Driven' <=> Driven)
    BY <1>2 DEF goalVars, Driven, GoalActive
  <2>2. GoalType'
    BY <1>1, <2>1 DEF TypeInv, GoalType
  <2>3. needsCheckpoint' \in BOOLEAN /\ exposed' \in {"no", "late", "unfenced"}
    BY <1>1, <1>2 DEF TypeInv, DriverType, HistoryType
  <2> QED
    BY <1>1, <1>2, <2>1, <2>2, <2>3 DEF TurnInv
<1>4. /\ pc' \in {"inner", "tail"} /\ decision' \in {"fenced", "reject"}
      /\ attempt' \in {attempt, NoAttempt}
      /\ UNCHANGED <<aborted, wakeRequested, nextTurn>>
      /\ UNCHANGED <<requested, loops, slot>> \/ Request
      /\ pc' = "tail" => decision' = "reject"
  BY DEF FirstCheck, Decide
<1>5. /\ loops' \in [Loops -> LoopStates] /\ slot' = slot /\ requested' \in BOOLEAN
      /\ \A i \in Loops : loops'[i] = "flush" <=> loops[i] = "flush"
  BY <1>1, <1>4, RequestKeeps DEF TypeInv, DriverType
<1>6. TypeInv' /\ TurnInv' /\ HeldInv'
  <2>1. slot' \in Loops \cup {0} /\ decision' \in Decisions
    BY <1>1, <1>4, <1>5 DEF TypeInv, DriverType, Decisions
  <2> QED
    BY <1>2, <1>3, <1>4, <1>5, <2>1, WithinTurn
<1>7. FenceInv'
  BY <1>4 DEF FenceInv
<1>8. CheckpointInv'
  BY <1>2, <1>3, <1>5, CheckpointKept DEF SameTurn
<1> QED
  BY <1>6, <1>7, <1>8 DEF IInv

\* The second look lets a round go on only as the next round of the goal, when no
\* cancel waits for its answer.
LEMMA SecondCheckStep == ASSUME IInv, SecondCheck PROVE IInv'
<1>1. TypeInv /\ TurnInv
  BY DEF IInv
<1>2. pc = "inner" /\ SameTurn /\ phase = "running"
  BY <1>1 DEF SecondCheck, TurnInv
<1>3. UNCHANGED <<competing, unload, waits, phase, claimed, replay, calls, held>>
  BY <1>2 DEF SameTurn
<1>4. exposed' = exposed /\ exposed \in {"no", "late", "unfenced"}
  BY <1>1 DEF SecondCheck, DropRound, TypeInv, HistoryType
<1>5. PICK d \in {"enter", "reject", "throw"} :
        \/ /\ aborted \/ (d = "enter" /\ Valid)
           /\ Decide(d)
           /\ UNCHANGED <<goalVars, attempt, needsCheckpoint, requested, loops, slot>>
        \/ /\ d = "reject"
           /\ Commit("stopped", goal.rounds, FALSE)
           /\ attempt' = NoAttempt /\ GoalChanged /\ Decide(d)
        \/ /\ d = "reject" /\ attempt' = NoAttempt /\ Decide(d)
           /\ UNCHANGED <<goalVars, needsCheckpoint, requested, loops, slot>>
        \/ DropRound(IF d = "enter" THEN "reject" ELSE d)
  BY DEF SecondCheck
<1>6. /\ pc' = "tail" /\ decision' \in {"enter", "reject", "throw"}
      /\ UNCHANGED <<aborted, wakeRequested, nextTurn>>
      /\ attempt' \in {attempt, NoAttempt}
  BY <1>5 DEF DropRound, Decide
<1>7. ASSUME UNCHANGED goalVars
      PROVE  /\ GoalType' /\ (Driven' <=> Driven)
             /\ UNCHANGED <<goal, broken, unsaved, uncovered>>
  BY <1>1, <1>7 DEF TypeInv, GoalType, goalVars, Driven, GoalActive
<1>8. ASSUME GoalType', ~Driven => ~Driven', needsCheckpoint' \in BOOLEAN,
             requested' \in BOOLEAN, loops' \in [Loops -> LoopStates], slot' = slot
      PROVE  TypeInv' /\ TurnInv' /\ HeldInv'
  <2>1. slot' \in Loops \cup {0} /\ decision' \in Decisions
    BY <1>1, <1>6, <1>8 DEF TypeInv, DriverType, Decisions
  <2>2. pc \in {"outer", "front", "inner"} /\ pc' \in {"front", "inner", "tail"}
    BY <1>2, <1>6
  <2> QED
    BY <1>2, <1>4, <1>6, <1>8, <2>1, <2>2, WithinTurn
<1>9. requested \in BOOLEAN /\ needsCheckpoint \in BOOLEAN /\ loops \in [Loops -> LoopStates]
  BY <1>1 DEF TypeInv, DriverType
<1>10. CASE /\ aborted \/ (d = "enter" /\ Valid)
            /\ Decide(d)
            /\ UNCHANGED <<goalVars, attempt, needsCheckpoint, requested, loops, slot>>
  <2>1. TypeInv' /\ TurnInv' /\ HeldInv'
    BY <1>7, <1>8, <1>9, <1>10
  <2>2. CheckpointInv'
    BY <1>3, <1>7, <1>10, CheckpointKept
  <2>3. FenceInv'
    <3>1. CASE aborted
      BY <1>6, <3>1 DEF FenceInv
    <3>2. CASE Valid /\ ~aborted
      <4>1. attempt.phase = "claimed" /\ unload = "no" /\ Driven
        BY <3>2 DEF Valid
      <4>2. ~held
        BY <1>2, <3>2, <4>1 DEF IInv, HeldInv
      <4>3. FoldAccepts(claimed)
        <5>1. claimed.round <= MaxRounds
          BY <1>1, MaxRoundsAssumption DEF TypeInv, AgentType, Message
        <5> QED
          BY <3>2, <5>1 DEF Valid, Driven, FoldAccepts
      <4>4. FoldAccepts(claimed)'
        BY <1>3, <1>7, <1>10, <4>3 DEF FoldAccepts, GoalActive
      <4> QED
        BY <1>3, <1>6, <1>10, <4>1, <4>2, <4>4 DEF FenceInv
    <3> QED
      BY <1>10, <3>1, <3>2
  <2> QED
    BY <2>1, <2>2, <2>3 DEF IInv
<1>11. CASE /\ d = "reject" /\ Commit("stopped", goal.rounds, FALSE)
            /\ attempt' = NoAttempt /\ GoalChanged /\ Decide(d)
  <2>1. GoalType' /\ ~Driven'
    <3>1. goal.rounds \in Nat /\ FALSE \in BOOLEAN
          /\ "stopped" \in {"none", "active", "stopped", "complete"}
      BY <1>1 DEF TypeInv, GoalType
    <3> QED
      BY <1>1, <1>11, <3>1, CommitKeeps DEF TypeInv
  <2>2. /\ loops' \in [Loops -> LoopStates] /\ slot' = slot /\ requested' \in BOOLEAN
        /\ \A i \in Loops : loops'[i] = "flush" <=> loops[i] = "flush"
    BY <1>1, <1>11, RequestKeeps DEF TypeInv, GoalChanged
  <2>3. needsCheckpoint' \in BOOLEAN
    BY <1>9, <1>11 DEF GoalChanged
  <2>4. TypeInv' /\ TurnInv' /\ HeldInv'
    BY <1>8, <2>1, <2>2, <2>3
  <2>5. FenceInv'
    BY <1>6, <1>11 DEF FenceInv, Decide
  <2>6. CheckpointInv'
    BY <1>11, <2>1, <2>2 DEF CheckpointInv, Commit, Flushing
  <2> QED
    BY <2>4, <2>5, <2>6 DEF IInv
<1>12. CASE /\ d = "reject" /\ attempt' = NoAttempt /\ Decide(d)
            /\ UNCHANGED <<goalVars, needsCheckpoint, requested, loops, slot>>
  <2>1. TypeInv' /\ TurnInv' /\ HeldInv'
    BY <1>7, <1>8, <1>9, <1>12
  <2>2. CheckpointInv'
    BY <1>3, <1>7, <1>12, CheckpointKept
  <2>3. FenceInv'
    BY <1>6, <1>12 DEF FenceInv, Decide
  <2> QED
    BY <2>1, <2>2, <2>3 DEF IInv
<1>13. CASE DropRound(IF d = "enter" THEN "reject" ELSE d)
  <2>1. /\ Request /\ decision' \in {"reject", "throw"}
        /\ UNCHANGED <<goalVars, needsCheckpoint>>
    BY <1>13 DEF DropRound, Decide
  <2>2. /\ loops' \in [Loops -> LoopStates] /\ slot' = slot /\ requested' \in BOOLEAN
        /\ \A i \in Loops : loops'[i] = "flush" <=> loops[i] = "flush"
    BY <1>1, <2>1, RequestKeeps DEF TypeInv
  <2>3. TypeInv' /\ TurnInv' /\ HeldInv'
    BY <1>7, <1>8, <1>9, <2>1, <2>2
  <2>4. CheckpointInv'
    BY <1>3, <1>7, <2>1, <2>2, CheckpointKept
  <2>5. FenceInv'
    BY <1>6, <2>1 DEF FenceInv
  <2> QED
    BY <2>3, <2>4, <2>5 DEF IInv
<1> QED
  BY <1>5, <1>10, <1>11, <1>12, <1>13

\* The round is logged; the fold counts it or refuses the log.
LEMMA EnterStepStep == ASSUME IInv, EnterStep PROVE IInv'
<1>1. TypeInv /\ TurnInv
  BY DEF IInv
<1>2. /\ pc = "tail" /\ ~aborted /\ pc' = "step" /\ SameTurn
      /\ exposed' = "no"
      /\ UNCHANGED <<unsaved, uncovered, armed, needsCheckpoint, requested, loops,
                     slot, aborted, wakeRequested, nextTurn, decision>>
  BY DEF EnterStep
<1>3. UNCHANGED <<competing, unload, waits, phase, claimed, replay, calls, held>>
  BY <1>2 DEF SameTurn
<1>4. goal' \in {goal, [goal EXCEPT !.rounds = @ + 1]} /\ broken' \in BOOLEAN
      /\ attempt' \in {attempt, [attempt EXCEPT !.phase = "admitted"]}
      /\ (broken => broken')
  BY <1>1 DEF EnterStep, FoldAccepts, TypeInv, GoalType
<1>5. goal' \in [version : Nat, phase : {"none", "active", "stopped", "complete"},
                 rounds : Nat]
      /\ goal'.phase = goal.phase
  BY <1>1, <1>4 DEF TypeInv, GoalType
<1>6. TypeInv'
  <2>1. GoalType'
    BY <1>1, <1>2, <1>4, <1>5 DEF TypeInv, GoalType
  <2>2. attempt' \in Attempt
    BY <1>1, <1>4 DEF TypeInv, DriverType, Attempt
  <2>3. DriverType'
    BY <1>1, <1>2, <1>3, <2>2 DEF TypeInv, DriverType
  <2>4. AgentType' /\ HistoryType'
    BY <1>1, <1>2, <1>3 DEF TypeInv, AgentType, HistoryType
  <2> QED
    BY <2>1, <2>3, <2>4 DEF TypeInv
<1>7. ~Driven => ~Driven'
  BY <1>2, <1>4, <1>5 DEF Driven, GoalActive
<1>8. TurnInv' /\ FenceInv'
  BY <1>1, <1>2, <1>3 DEF TurnInv, FenceInv
<1>9. HeldInv'
  BY <1>2, <1>3, <1>7 DEF IInv, HeldInv
<1>10. CheckpointInv'
  BY <1>2, <1>3, <1>7, CheckpointKept
<1> QED
  BY <1>6, <1>8, <1>9, <1>10 DEF IInv

\* The idle agent pauses a goal whose round was cancelled, the last that a cancel
\* could still wait for.
LEMMA GoIdleStep == ASSUME IInv, GoIdle PROVE IInv'
<1>1. TypeInv /\ TurnInv
  BY DEF IInv
<1>2. /\ pc = "closed" /\ phase' = "idle" /\ pc' = "off"
      /\ aborted' = FALSE /\ wakeRequested' = FALSE
      /\ claimed' = Nothing /\ decision' = "none"
      /\ replay' = (wakeRequested /\ nextTurn # <<>>)
      /\ waits' \in {waits, waits \ {0}}
      /\ competing' = (competing /\ ~Listening)
      /\ UNCHANGED <<unload, nextTurn, calls, held, exposed>>
  BY DEF GoIdle, history
<1>3. AgentType' /\ HistoryType'
  <2>1. replay' \in BOOLEAN
    BY <1>2
  <2> QED
    BY <1>1, <1>2, <2>1, NoAttemptFacts DEF TypeInv, AgentType, HistoryType, Decisions
<1>4. competing' \in BOOLEAN /\ waits' \subseteq Loops \cup {0}
  BY <1>1, <1>2 DEF TypeInv, DriverType
<1>5. CASE /\ Listening /\ attempt' = NoAttempt
           /\ Commit("stopped", goal.rounds, FALSE) /\ PausedAndRequested
  <2>1. GoalType' /\ ~Driven'
    <3>1. goal.rounds \in Nat /\ FALSE \in BOOLEAN
          /\ "stopped" \in {"none", "active", "stopped", "complete"}
      BY <1>1 DEF TypeInv, GoalType
    <3> QED
      BY <1>1, <1>5, <3>1, CommitKeeps DEF TypeInv
  <2>2. /\ loops' \in [Loops -> LoopStates] /\ slot' = slot /\ requested' \in BOOLEAN
        /\ \A i \in Loops : loops'[i] = "flush" <=> loops[i] = "flush"
    <3>1. slot' = slot /\ requested' \in BOOLEAN
      BY <1>1, <1>5 DEF PausedAndRequested, TypeInv, DriverType
    <3>2. CASE MayStartLoop /\ loops' = [loops EXCEPT ![FreeLoop] = "start"]
      <4>1. FreeLoop \in Loops /\ loops[FreeLoop] = "off"
        BY <3>2 DEF MayStartLoop, FreeLoop
      <4> QED
        BY <1>1, <3>1, <3>2, <4>1 DEF TypeInv, DriverType, LoopStates
    <3>3. CASE UNCHANGED loops
      BY <1>1, <3>1, <3>3 DEF TypeInv, DriverType
    <3> QED
      BY <1>5, <3>2, <3>3 DEF PausedAndRequested
  <2>3. needsCheckpoint' = TRUE
    BY <1>5 DEF PausedAndRequested
  <2>4. DriverType'
    BY <1>1, <1>2, <1>4, <1>5, <2>2, <2>3, NoAttemptFacts DEF TypeInv, DriverType
  <2>5. TurnInv' /\ FenceInv' /\ HeldInv'
    BY <1>2, <2>1 DEF TurnInv, FenceInv, HeldInv
  <2>6. CheckpointInv'
    BY <1>5, <2>1, <2>2 DEF CheckpointInv, Commit, Flushing
  <2> QED
    BY <1>3, <2>1, <2>4, <2>5, <2>6 DEF IInv, TypeInv
<1>6. CASE /\ ~(Listening /\ Driven /\ attempt.cancelled)
           /\ UNCHANGED <<goalVars, attempt, needsCheckpoint>>
           /\ UNCHANGED <<requested, loops, slot>> \/ Request
  <2>1. /\ loops' \in [Loops -> LoopStates] /\ slot' = slot /\ requested' \in BOOLEAN
        /\ \A i \in Loops : loops'[i] = "flush" <=> loops[i] = "flush"
    BY <1>1, <1>6, RequestKeeps DEF TypeInv, DriverType
  <2>2. GoalType' /\ (Driven' <=> Driven) /\ UNCHANGED <<goal, broken, unsaved, uncovered>>
    BY <1>1, <1>6 DEF TypeInv, GoalType, goalVars, Driven, GoalActive
  <2>3. DriverType'
    BY <1>1, <1>2, <1>4, <1>6, <2>1 DEF TypeInv, DriverType
  <2>4. held => ~Driven \/ unload # "no"
    BY <1>2, <1>6 DEF IInv, HeldInv, Listening
  <2>5. TurnInv' /\ FenceInv' /\ HeldInv'
    BY <1>2, <2>2, <2>4, NoTurnKeeps
  <2>6. CheckpointInv'
    BY <1>2, <1>6, <2>1, <2>2, CheckpointKept
  <2> QED
    BY <1>3, <2>2, <2>3, <2>5, <2>6 DEF IInv, TypeInv
<1> QED
  BY <1>5, <1>6 DEF GoIdle

LEMMA InitInv == Init => IInv
<1> SUFFICES ASSUME Init PROVE IInv
  OBVIOUS
<1>1. TypeInv
  <2>1. GoalType /\ HistoryType
    BY DEF Init, GoalType, HistoryType
  <2>2. DriverType
    BY NoAttemptFacts DEF Init, DriverType, LoopStates
  <2>3. AgentType
    BY NoAttemptFacts, EmptySeq DEF Init, AgentType, Decisions
  <2> QED
    BY <2>1, <2>2, <2>3 DEF TypeInv
<1>2. TurnInv /\ FenceInv /\ HeldInv /\ CheckpointInv
  BY DEF Init, TurnInv, FenceInv, HeldInv, CheckpointInv
<1> QED
  BY <1>1, <1>2 DEF IInv

LEMMA StutterStep == ASSUME IInv, UNCHANGED vars PROVE IInv'
<1>1. TypeInv
  BY DEF IInv
<1>2. UNCHANGED <<goalVars, driverVars, unload, waits, agentVars, replay, history>>
  BY DEF vars
<1>3. TypeInv'
  <2>1. GoalType' /\ DriverType'
    BY <1>1, <1>2 DEF TypeInv, GoalType, DriverType, goalVars, driverVars
  <2>2. AgentType' /\ HistoryType'
    BY <1>1, <1>2 DEF TypeInv, AgentType, HistoryType, agentVars, history
  <2> QED
    BY <2>1, <2>2 DEF TypeInv
<1>4. UNCHANGED <<goal, armed, broken, unsaved, uncovered, attempt, loops, needsCheckpoint,
                  held, exposed>> /\ (Driven' <=> Driven)
  BY <1>2 DEF goalVars, driverVars, history, Driven, GoalActive
<1>5. TurnInv' /\ FenceInv' /\ HeldInv'
  BY <1>2, <1>4, SameAgentKeeps
<1>6. CheckpointInv'
  BY <1>2, <1>4, CheckpointKept
<1> QED
  BY <1>3, <1>5, <1>6 DEF IInv

LEMMA NextInv == IInv /\ [Next]_vars => IInv'
<1> SUFFICES ASSUME IInv, [Next]_vars PROVE IInv'
  OBVIOUS
<1>1. CASE Callers
  BY <1>1, ChangeGoalStep, SendPromptStep, CancelStep, StartMaintenanceStep, UnloadStep,
     LoadStep DEF Callers
<1>2. CASE \E i \in Loops : Driver(i)
  BY <1>2, BeginDriveStep, FlushDoneStep, FlushFailsStep, LoopAgainStep, RetireLoopStep
     DEF Driver
<1>3. CASE Agent
  BY <1>3, DispatchStep, FirstCheckStep, SecondCheckStep, EnterStepStep, StepDoneStep, DrainOnStep,
     GoIdleStep, ReplayWakeStep, MaintenanceDoneStep DEF Agent
<1>4. CASE OuterEndsTurn
  BY <1>4, OuterEndsTurnStep
<1>5. CASE Unloaded
  BY <1>5, UnloadedStep
<1>6. CASE UNCHANGED vars
  BY <1>6, StutterStep
<1> QED
  BY <1>1, <1>2, <1>3, <1>4, <1>5, <1>6 DEF Next

LEMMA Invariant == Spec => []IInv
  BY InitInv, NextInv, PTL DEF Spec

-----------------------------------------------------------------------------
(* The theorems.                                                           *)

\* Every variable keeps its type.
THEOREM TypeCorrect == Spec => []TypeInv
<1>1. IInv => TypeInv
  BY DEF IInv
<1> QED
  BY <1>1, Invariant, PTL

\* The pre-step fence: a round whose waterfall it is in enters its step only when no
\* cancel of the running agent and no unload came before; and only as the next round
\* of the active goal, unless the goal changed after the fence's last look.
THEOREM FenceIsKept == Spec => FenceHolds
<1>1. ASSUME IInv, [Next]_vars, Enters, exposed # "unfenced"
      PROVE  /\ ~held /\ unload = "no"
             /\ exposed = "no" => ~broken'
  <2>1. pc = "tail" /\ pc' = "step" /\ IsRound(claimed)
    BY <1>1 DEF Enters
  <2>2. TypeInv /\ phase = "running"
    BY <1>1, <2>1 DEF IInv, TurnInv
  <2>3. EnterStep
    <3>1. ~Callers
      BY <2>1, <2>2 DEF Callers, ChangeGoal, SendPrompt, Cancel, ClearAndAbort,
         StartMaintenance, Unload, Load, agentVars
    <3>2. ASSUME NEW i \in Loops PROVE ~Driver(i)
      <4>1. ~Ready
        BY <2>2 DEF Ready
      <4> QED
        BY <2>1, <4>1 DEF Driver, BeginDrive, FlushDone, FlushFails, LoopAgain, RetireLoop,
           agentVars
    <3>3. ~Dispatch /\ ~FirstCheck /\ ~SecondCheck /\ ~StepDone /\ ~DrainOn /\ ~GoIdle /\ ~MaintenanceDone
      BY <2>1, <2>2 DEF Dispatch, FirstCheck, SecondCheck, StepDone, DrainOn, GoIdle, MaintenanceDone
    <3>4. ~ReplayWake
      BY <2>1, <2>2 DEF ReplayWake, agentVars
    <3>5. ~OuterEndsTurn
      BY <2>1 DEF OuterEndsTurn, CloseTurn
    <3>6. ~Unloaded /\ ~UNCHANGED vars
      BY <2>1 DEF Unloaded, vars, agentVars
    <3> QED
      BY <1>1, <3>1, <3>2, <3>3, <3>4, <3>5, <3>6 DEF Next, Agent
  <2>4. ~aborted /\ decision = "enter" /\ broken' = ~FoldAccepts(claimed)
    BY <2>1, <2>3 DEF EnterStep
  <2>5. ~held /\ unload = "no" /\ (exposed = "no" => FoldAccepts(claimed))
    BY <1>1, <2>1, <2>4 DEF IInv, FenceInv
  <2> QED
    BY <2>4, <2>5
<1>2. ASSUME IInv, [Next]_vars
      PROVE  [Enters /\ exposed # "unfenced" =>
                /\ ~held /\ unload = "no"
                /\ exposed = "no" => ~broken']_vars
  BY <1>1, <1>2
<1> QED
  BY <1>2, Invariant, PTL DEF Spec, FenceHolds

\* Only a drive that has reached its reservation makes an attempt.
LEMMA OnlyDrivesReserve ==
  ASSUME IInv, [Next]_vars, Reserves
  PROVE  \E i \in Loops :
           /\ loops[i] # "off" /\ unload = "no" /\ ~needsCheckpoint /\ Driven /\ ~LogsChange
           /\ \A k \in Loops \ {i} : loops[k] = "flush" => loops'[k] = "flush"
           /\ uncovered' \subseteq uncovered
           /\ \/ loops[i] \in {"start", "begin"} /\ unsaved' = unsaved
              \/ loops[i] = "flush" /\ unsaved' = (unsaved /\ i \in uncovered)
<1>1. attempt = NoAttempt /\ attempt' # NoAttempt
  BY DEF Reserves
<1>2. TypeInv /\ NoAttempt \in Attempt /\ NoAttempt.phase = "none"
      /\ ~IsRound(Nothing) /\ NoAttempt.message = Nothing
  BY NoAttemptFacts DEF IInv
<1>3. ASSUME NEW box, box \in Seq(Message), box # <<>>, StartTurn(box, NoAttempt) PROVE FALSE
  BY <1>1, <1>2, <1>3, StartTurnKeeps
<1>4. ~ChangeGoal /\ ~StartMaintenance /\ ~Load /\ ~Unloaded /\ ~UNCHANGED vars
  BY <1>1 DEF ChangeGoal, StartMaintenance, Load, Unloaded, driverVars, vars
<1>5. ~SendPrompt
  <2>1. Append(nextTurn, Prompt) \in Seq(Message) /\ Append(nextTurn, Prompt) # <<>>
    BY <1>2, NoAttemptFacts, AppendProperties DEF TypeInv, AgentType
  <2>2. ~(Listening /\ attempt.phase = "queued")
    BY <1>1, <1>2
  <2>3. SendPrompt => StartTurn(Append(nextTurn, Prompt), attempt) \/ attempt' = attempt
    BY <2>2 DEF SendPrompt
  <2> QED
    BY <1>1, <1>3, <2>1, <2>3
<1>6. ~Cancel /\ ~Unload
  <2>1. Discards(NoAttempt, nextTurn) = NoAttempt
    BY <1>2, DiscardsKeeps
  <2> QED
    BY <1>1, <2>1 DEF Cancel, ClearAndAbort, Unload, agentVars
<1>7. nextTurn # <<>> => ~StartTurn(nextTurn, attempt)
  BY <1>1, <1>2, <1>3 DEF TypeInv, AgentType
<1>8. ~MaintenanceDone /\ ~ReplayWake /\ ~DrainOn
  <2>1. ~MaintenanceDone /\ ~ReplayWake
    BY <1>1, <1>7 DEF MaintenanceDone, ReplayWake
  <2>2. DrainOn => nextTurn # <<>>
    BY DEF DrainOn, IInv, TurnInv
  <2> QED
    BY <1>7, <2>1, <2>2 DEF DrainOn
<1>9. ~OuterEndsTurn /\ ~StepDone
  <2>1. ASSUME NEW reason PROVE ~CloseTurn(reason)
    BY <1>1, <1>2, CloseTurnKeeps
  <2> QED
    BY <2>1 DEF OuterEndsTurn, StepDone
<1>10. ~Dispatch /\ ~FirstCheck /\ ~SecondCheck /\ ~GoIdle
  BY <1>1 DEF Dispatch, FirstCheck, SecondCheck, DropRound, GoIdle
<1>11. ~EnterStep
  BY <1>1, <1>2 DEF EnterStep
<1>12. PICK i \in Loops : BeginDrive(i) \/ FlushDone(i)
  BY <1>1, <1>4, <1>5, <1>6, <1>8, <1>9, <1>10, <1>11
     DEF Next, Callers, Agent, Driver, FlushFails, LoopAgain, RetireLoop
<1>13. Ready /\ ~needsCheckpoint /\ Proceed(i)
  BY <1>1, <1>12 DEF BeginDrive, FlushDone
<1>14. Reserve(i)
  BY <1>1, <1>13 DEF Proceed, Retire, NothingToDrive, BlockAtLimit
<1>15. Driven /\ ~LogsChange /\ unload = "no"
  BY <1>13, <1>14 DEF Reserve, LogsChange, Ready
<1>16. \A k \in Loops \ {i} : loops[k] = "flush" => loops'[k] = "flush"
  <2>1. EndDrive(i)
    BY <1>14 DEF Reserve
  <2> QED
    BY <1>2, <2>1, EndDriveKeeps DEF TypeInv
<1>17. CASE BeginDrive(i)
  <2>1. unsaved' = (unsaved \/ LogsChange)
    BY <1>1, <1>13, <1>17 DEF BeginDrive
  <2>2. loops[i] \in {"start", "begin"} /\ unsaved \in BOOLEAN /\ uncovered' \subseteq uncovered
    BY <1>1, <1>2, <1>13, <1>15, <1>17 DEF BeginDrive, TypeInv, GoalType
  <2>3. unsaved' = unsaved
    BY <1>15, <2>1, <2>2, Zenon
  <2> QED
    BY <1>13, <1>15, <1>16, <2>2, <2>3
<1>18. CASE FlushDone(i)
  <2>1. loops[i] = "flush" /\ unsaved' = ((unsaved /\ i \in uncovered) \/ LogsChange)
    BY <1>18 DEF FlushDone, Stores
  <2>2. unsaved' = (unsaved /\ i \in uncovered)
    BY <1>15, <2>1, Zenon
  <2>3. uncovered' \subseteq uncovered
    BY <1>15, <1>18 DEF FlushDone, Stores
  <2> QED
    BY <1>13, <1>15, <1>16, <2>1, <2>2, <2>3
<1> QED
  BY <1>12, <1>17, <1>18

\* Every goal change is stored when a round is reserved over it, or a checkpoint that
\* covers it is under way, however many loops run.
THEOREM EveryRoundIsCovered == Spec => RoundsAreCovered
<1>1. ASSUME IInv, [Next]_vars, Reserves
      PROVE  \/ ~unsaved'
             \/ \E i \in Loops : loops'[i] = "flush" /\ i \notin uncovered'
  <2>1. PICK j \in Loops :
           /\ loops[j] # "off" /\ unload = "no" /\ ~needsCheckpoint /\ Driven /\ ~LogsChange
           /\ \A k \in Loops \ {j} : loops[k] = "flush" => loops'[k] = "flush"
           /\ uncovered' \subseteq uncovered
           /\ \/ loops[j] \in {"start", "begin"} /\ unsaved' = unsaved
              \/ loops[j] = "flush" /\ unsaved' = (unsaved /\ j \in uncovered)
    BY <1>1, OnlyDrivesReserve
  <2>2. SUFFICES ASSUME unsaved'
                 PROVE  \E i \in Loops : loops'[i] = "flush" /\ i \notin uncovered'
    OBVIOUS
  <2>3. PICK k \in Loops : loops[k] = "flush" /\ k \notin uncovered
    BY <1>1, <2>1, <2>2 DEF IInv, CheckpointInv
  <2>4. k # j
    BY <2>1, <2>2, <2>3
  <2> QED
    BY <2>1, <2>3, <2>4
<1>2. ASSUME IInv, [Next]_vars
      PROVE  [Reserves => \/ ~unsaved'
                          \/ \E i \in Loops : loops'[i] = "flush" /\ i \notin uncovered']_vars
  BY <1>1, <1>2
<1> QED
  BY <1>2, Invariant, PTL DEF Spec, RoundsAreCovered

=============================================================================
