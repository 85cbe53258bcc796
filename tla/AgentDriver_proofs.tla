------------------------- MODULE AgentDriver_proofs -------------------------
(***************************************************************************)
(* Proofs about AgentDriver for every set of messages, every starting      *)
(* turn and every bound on steps.                                          *)
(*                                                                         *)
(* The driver never reads the session's trace, so that its appends are     *)
(* accepted is not visible in any guard: TraceInv says what the trace is   *)
(* at every point of the driver, and is what each append is judged by.     *)
(* Likewise nothing in the inbox forbids a duplicate: OnceInv and TurnsInv *)
(* say where every message can be while lists and batch are reshaped.      *)
(***************************************************************************)
EXTENDS AgentDriver, SequenceTheorems, TLAPS

\* The points of the driver inside an open step, and inside an open turn.
StepPoints == {"stepStarted", "request", "recover", "tools", "stepped"}
TurnPoints == StepPoints \cup
              {"turnStarted", "preStep", "decided", "stepEnded", "stopping"}

\* What the trace is at each point of the driver.
TraceInv ==
  /\ trace.openTurn = IF pc \in TurnPoints THEN turn ELSE 0
  /\ trace.nextTurn = IF pc \in TurnPoints THEN turn ELSE turn + 1
  /\ trace.openStep = IF pc \in StepPoints THEN step ELSE 0
  /\ pc \in TurnPoints =>
       trace.nextStep = IF pc \in StepPoints THEN step ELSE step + 1
  /\ trace.pendingCalls = {}
  /\ pc \in TurnPoints => turn > 0
  /\ pc \in StepPoints => step > 0
  /\ pc \in {"off", "turn", "turnStarted"} => step = 0

\* There is a driver exactly in the running phase, and an idle agent holds
\* neither an abort reason nor a latched wake.
PhaseInv ==
  /\ phase = "running" <=> pc # "off"
  /\ phase = "idle" => cause = "none" /\ ~wakeRequested

\* NoLostWake, strong enough to survive every step: a message that is awaited
\* has been sent. Whether an operation under way will wake depends on the phase
\* and on the cause of an abort.
Waking == \E i \in DOMAIN stack : WillWake(stack[i])

WakeInv ==
  /\ awaited \cap unsent = {}
  /\ awaited \cap Pending # {} => (phase # "idle" /\ wakeRequested) \/ Waking

\* A message is with its caller, in one list or in the claimed batch, once, and
\* those have not been logged.
Held == ToSet(nextTurn) \cup ToSet(nextStep) \cup ToSet(claimed)

OnceInv ==
  /\ IsInjective(nextTurn) /\ IsInjective(nextStep) /\ IsInjective(claimed)
  /\ ToSet(nextTurn) \cap ToSet(nextStep) = {}
  /\ ToSet(nextTurn) \cap ToSet(claimed) = {}
  /\ ToSet(nextStep) \cap ToSet(claimed) = {}
  /\ \A m \in Held : m \notin unsent /\ delivered[m] = 0
  /\ \A m \in unsent : delivered[m] = 0

\* A batch has at most one ordinary message, and one only if the turn has logged
\* none; a turn that has just started has logged nothing.
TurnsInv ==
  /\ ordinary \cap unsent = {}
  /\ ToSet(nextStep) \cap ordinary = {}
  /\ \A m, n \in ToSet(claimed) \cap ordinary : m = n
  /\ \A m \in Messages : delivered[m] <= turn
  /\ pc = "turnStarted" => \A m \in Messages : delivered[m] < turn
  /\ ToSet(claimed) \cap ordinary # {} => \A n \in ordinary : delivered[n] # turn
  /\ \A m, n \in ordinary :
       m # n /\ delivered[m] # 0 => delivered[m] # delivered[n]

-----------------------------------------------------------------------------
(* Sequences without repetition.                                           *)

\* Removing an element shifts those behind it.
LEMMA RemoveAtValue ==
  ASSUME NEW S, NEW q \in Seq(S), NEW i \in DOMAIN q
  PROVE  /\ RemoveAt(q, i) \in Seq(S)
         /\ Len(RemoveAt(q, i)) = Len(q) - 1
         /\ \A k \in 1 .. Len(q) - 1 :
              RemoveAt(q, i)[k] = q[IF k < i THEN k ELSE k + 1]
<1>1. i \in Nat /\ 1 <= i /\ i <= Len(q) /\ Len(q) \in Nat
  OBVIOUS
<1>. DEFINE a == SubSeq(q, 1, i - 1)
            b == SubSeq(q, i + 1, Len(q))
<1>2. /\ a \in Seq(S) /\ Len(a) = i - 1
      /\ \A k \in 1 .. Len(a) : a[k] = q[k]
  BY <1>1
<1>3. /\ b \in Seq(S) /\ Len(b) = Len(q) - i
      /\ \A k \in 1 .. Len(b) : b[k] = q[i + k]
  BY <1>1
<1>4. RemoveAt(q, i) = a \o b
  BY DEF RemoveAt
<1>. HIDE DEF a, b
<1>5. a \o b \in Seq(S) /\ Len(a \o b) = Len(q) - 1
  BY <1>1, <1>2, <1>3, ConcatProperties
<1>6. ASSUME NEW k \in 1 .. Len(q) - 1
      PROVE  (a \o b)[k] = q[IF k < i THEN k ELSE k + 1]
  <2>1. k \in 1 .. (Len(a) + Len(b))
    BY <1>1, <1>2, <1>3
  <2>2. (a \o b)[k] = IF k <= Len(a) THEN a[k] ELSE b[k - Len(a)]
    BY <1>2, <1>3, <2>1, ConcatProperties
  <2>3. CASE k < i
    <3>1. k \in 1 .. Len(a)
      BY <1>1, <1>2, <2>3
    <3> QED
      BY <1>2, <2>2, <2>3, <3>1
  <2>4. CASE ~(k < i)
    <3>1. k - Len(a) \in 1 .. Len(b) /\ ~(k <= Len(a)) /\ ~(k < i)
      BY <1>1, <1>2, <1>3, <2>4
    <3>2. (a \o b)[k] = q[i + (k - Len(a))]
      BY <1>3, <2>2, <3>1
    <3>3. i + (k - Len(a)) = k + 1
      BY <1>1, <1>2
    <3> QED
      BY <3>1, <3>2, <3>3
  <2> QED
    BY <2>3, <2>4
<1> QED
  BY <1>4, <1>5, <1>6

\* Removing an element repeats none.
LEMMA RemoveAtOnce ==
  ASSUME NEW S, NEW q \in Seq(S), NEW i \in DOMAIN q
  PROVE  /\ ToSet(RemoveAt(q, i)) \subseteq ToSet(q)
         /\ IsInjective(q) => IsInjective(RemoveAt(q, i))
<1>. DEFINE r == RemoveAt(q, i)
            at(k) == IF k < i THEN k ELSE k + 1
<1>1. /\ r \in Seq(S) /\ Len(r) = Len(q) - 1
      /\ \A k \in 1 .. Len(q) - 1 : r[k] = q[at(k)]
  BY RemoveAtValue
<1>. HIDE DEF r
<1>2. i \in 1 .. Len(q) /\ Len(q) \in Nat /\ DOMAIN r = 1 .. Len(q) - 1 /\ DOMAIN q = 1 .. Len(q)
  BY <1>1
<1>3. /\ \A k \in DOMAIN r : at(k) \in DOMAIN q /\ r[k] = q[at(k)]
      /\ \A j, k \in DOMAIN r : at(j) = at(k) => j = k
  BY <1>1, <1>2
<1>. HIDE DEF at
<1>4. ToSet(r) \subseteq ToSet(q)
  BY <1>3 DEF ToSet
<1>5. IsInjective(q) => IsInjective(r)
  BY <1>3 DEF IsInjective
<1> QED
  BY <1>4, <1>5 DEF r

\* Appending a new element repeats none.
LEMMA AppendOnce ==
  ASSUME NEW S, NEW q \in Seq(S), NEW m \in S
  PROVE  /\ ToSet(Append(q, m)) = ToSet(q) \cup {m}
         /\ IsInjective(q) /\ m \notin ToSet(q) => IsInjective(Append(q, m))
<1>. DEFINE r == Append(q, m)
<1>1. /\ DOMAIN r = 1 .. Len(q) + 1 /\ DOMAIN q = 1 .. Len(q) /\ Len(q) \in Nat
      /\ \A k \in 1 .. Len(q) : r[k] = q[k]
      /\ r[Len(q) + 1] = m
  BY AppendProperties
<1>. HIDE DEF r
<1>2. ToSet(r) = ToSet(q) \cup {m}
  BY <1>1 DEF ToSet
<1>3. IsInjective(q) /\ m \notin ToSet(q) => IsInjective(r)
  BY <1>1 DEF IsInjective, ToSet
<1> QED
  BY <1>2, <1>3 DEF r

\* The head is not in the tail of a sequence that repeats nothing.
LEMMA TailOnce ==
  ASSUME NEW S, NEW q \in Seq(S), q # <<>>
  PROVE  /\ Head(q) \in ToSet(q)
         /\ ToSet(Tail(q)) \subseteq ToSet(q)
         /\ IsInjective(q) => IsInjective(Tail(q)) /\ Head(q) \notin ToSet(Tail(q))
<1>. DEFINE r == Tail(q)
<1>1. /\ Len(q) \in Nat \ {0} /\ DOMAIN q = 1 .. Len(q) /\ DOMAIN r = 1 .. Len(q) - 1
      /\ \A k \in 1 .. Len(q) - 1 : r[k] = q[k + 1]
      /\ Head(q) = q[1]
  BY HeadTailProperties
<1>. HIDE DEF r
<1>2. Head(q) \in ToSet(q)
  BY <1>1 DEF ToSet
<1>3. \A k \in DOMAIN r : k + 1 \in DOMAIN q /\ r[k] = q[k + 1] /\ k + 1 # 1 /\ 1 \in DOMAIN q
  BY <1>1
<1>4. ToSet(r) \subseteq ToSet(q)
  BY <1>3 DEF ToSet
<1>5. ASSUME IsInjective(q) PROVE IsInjective(r) /\ Head(q) \notin ToSet(r)
  <2>1. IsInjective(r)
    <3>1. \A j, k \in DOMAIN r : j + 1 = k + 1 => j = k
      BY <1>1
    <3> QED
      BY <1>3, <1>5, <3>1 DEF IsInjective
  <2>2. Head(q) \notin ToSet(r)
    BY <1>1, <1>3, <1>5 DEF IsInjective, ToSet
  <2> QED
    BY <2>1, <2>2
<1> QED
  BY <1>2, <1>4, <1>5 DEF r

\* Two disjoint sequences that repeat nothing make one that repeats nothing.
LEMMA ConcatOnce ==
  ASSUME NEW S, NEW p \in Seq(S), NEW q \in Seq(S)
  PROVE  /\ p \o q \in Seq(S)
         /\ ToSet(p \o q) = ToSet(p) \cup ToSet(q)
         /\ IsInjective(p) /\ IsInjective(q) /\ ToSet(p) \cap ToSet(q) = {} =>
              IsInjective(p \o q)
<1>. DEFINE r == p \o q
<1>1. /\ r \in Seq(S) /\ Len(r) = Len(p) + Len(q)
      /\ Len(p) \in Nat /\ Len(q) \in Nat
      /\ DOMAIN p = 1 .. Len(p) /\ DOMAIN q = 1 .. Len(q) /\ DOMAIN r = 1 .. Len(r)
      /\ \A k \in 1 .. Len(r) : r[k] = IF k <= Len(p) THEN p[k] ELSE q[k - Len(p)]
  BY ConcatProperties
<1>. HIDE DEF r
<1>2. /\ \A k \in DOMAIN p : k \in DOMAIN r /\ r[k] = p[k] /\ k <= Len(p)
      /\ \A k \in DOMAIN q : k + Len(p) \in DOMAIN r /\ r[k + Len(p)] = q[k]
      /\ \A k \in DOMAIN r : \/ k \in DOMAIN p /\ r[k] = p[k]
                             \/ k - Len(p) \in DOMAIN q /\ r[k] = q[k - Len(p)]
  BY <1>1
<1>3. ToSet(r) = ToSet(p) \cup ToSet(q)
  BY <1>2 DEF ToSet
<1>4. ASSUME IsInjective(p), IsInjective(q), ToSet(p) \cap ToSet(q) = {}
      PROVE  IsInjective(r)
  <2> SUFFICES ASSUME NEW j \in DOMAIN r, NEW k \in DOMAIN r, r[j] = r[k]
               PROVE  j = k
    BY DEF IsInjective
  <2>1. CASE j \in DOMAIN p /\ r[j] = p[j] /\ k \in DOMAIN p /\ r[k] = p[k]
    BY <1>4, <2>1 DEF IsInjective
  <2>2. CASE /\ j - Len(p) \in DOMAIN q /\ r[j] = q[j - Len(p)]
             /\ k - Len(p) \in DOMAIN q /\ r[k] = q[k - Len(p)]
    <3>1. j - Len(p) = k - Len(p)
      BY <1>4, <2>2 DEF IsInjective
    <3> QED
      BY <1>1, <3>1
  <2>3. \A x \in DOMAIN p, y \in DOMAIN q : p[x] # q[y]
    BY <1>4 DEF ToSet
  <2> QED
    BY <1>2, <2>1, <2>2, <2>3
<1> QED
  BY <1>1, <1>3, <1>4 DEF r

\* Two parts of a sequence that repeats nothing are disjoint.
LEMMA SplitOnce ==
  ASSUME NEW S, NEW q \in Seq(S), NEW n \in 0 .. Len(q)
  PROVE  /\ SubSeq(q, 1, n) \in Seq(S) /\ SubSeq(q, n + 1, Len(q)) \in Seq(S)
         /\ ToSet(SubSeq(q, 1, n)) \subseteq ToSet(q)
         /\ ToSet(SubSeq(q, n + 1, Len(q))) \subseteq ToSet(q)
         /\ n <= 1 => \A x, y \in ToSet(SubSeq(q, 1, n)) : x = y
         /\ IsInjective(q) =>
              /\ IsInjective(SubSeq(q, 1, n)) /\ IsInjective(SubSeq(q, n + 1, Len(q)))
              /\ ToSet(SubSeq(q, 1, n)) \cap ToSet(SubSeq(q, n + 1, Len(q))) = {}
<1>. DEFINE a == SubSeq(q, 1, n)
            b == SubSeq(q, n + 1, Len(q))
<1>1. /\ a \in Seq(S) /\ Len(a) = n /\ DOMAIN a = 1 .. n
      /\ \A k \in 1 .. n : a[k] = q[k]
  OBVIOUS
<1>2. /\ b \in Seq(S) /\ Len(b) = Len(q) - n /\ DOMAIN b = 1 .. Len(q) - n
      /\ \A k \in 1 .. Len(q) - n : b[k] = q[n + k]
  OBVIOUS
<1>. HIDE DEF a, b
<1>3. /\ \A k \in DOMAIN a : k \in DOMAIN q /\ a[k] = q[k]
      /\ \A k \in DOMAIN b : n + k \in DOMAIN q /\ b[k] = q[n + k]
      /\ \A j \in DOMAIN a, k \in DOMAIN b : j # n + k
      /\ \A j, k \in DOMAIN b : n + j = n + k => j = k
  BY <1>1, <1>2
<1>4. ToSet(a) \subseteq ToSet(q) /\ ToSet(b) \subseteq ToSet(q)
  BY <1>3 DEF ToSet
<1>5. n <= 1 => \A x, y \in ToSet(a) : x = y
  BY <1>1 DEF ToSet
<1>6. IsInjective(q) => IsInjective(a) /\ IsInjective(b) /\ ToSet(a) \cap ToSet(b) = {}
  BY <1>3 DEF ToSet, IsInjective
<1> QED
  BY <1>1, <1>2, <1>4, <1>5, <1>6 DEF a, b

-----------------------------------------------------------------------------
(* Types.                                                                  *)

LEMMA ApplyValue ==
  ASSUME NEW tr, NEW t, NEW s
  PROVE  /\ Session!Apply(tr, Session!TurnStart(t))
              = [openTurn |-> t, openStep |-> tr.openStep,
                 nextTurn |-> tr.nextTurn, nextStep |-> 1,
                 pendingCalls |-> tr.pendingCalls]
         /\ Session!Apply(tr, Session!TurnEnd(t))
              = [openTurn |-> 0, openStep |-> tr.openStep,
                 nextTurn |-> tr.nextTurn + 1, nextStep |-> tr.nextStep,
                 pendingCalls |-> tr.pendingCalls]
         /\ Session!Apply(tr, Session!StepStart(t, s))
              = [openTurn |-> tr.openTurn, openStep |-> s,
                 nextTurn |-> tr.nextTurn, nextStep |-> tr.nextStep,
                 pendingCalls |-> tr.pendingCalls]
         /\ Session!Apply(tr, Session!StepEnd(t, s))
              = [openTurn |-> tr.openTurn, openStep |-> 0,
                 nextTurn |-> tr.nextTurn, nextStep |-> tr.nextStep + 1,
                 pendingCalls |-> {}]
<1>1. /\ Session!TurnStart(t).type = "turn/start"
      /\ Session!TurnStart(t).turn = t
  BY DEF Session!TurnStart
<1>2. Session!TurnEnd(t).type = "turn/end"
  BY DEF Session!TurnEnd
<1>3. /\ Session!StepStart(t, s).type = "step/start"
      /\ Session!StepStart(t, s).step = s
  BY DEF Session!StepStart
<1>4. Session!StepEnd(t, s).type = "step/end"
  BY DEF Session!StepEnd
<1>5. QED
  BY <1>1, <1>2, <1>3, <1>4 DEF Session!Apply, Session!NoTurn, Session!NoStep

LEMMA ApplyType ==
  ASSUME NEW tr \in Session!TraceType, NEW t \in Nat, NEW s \in Nat
  PROVE  /\ Session!Apply(tr, Session!TurnStart(t)) \in Session!TraceType
         /\ Session!Apply(tr, Session!TurnEnd(t)) \in Session!TraceType
         /\ Session!Apply(tr, Session!StepStart(t, s)) \in Session!TraceType
         /\ Session!Apply(tr, Session!StepEnd(t, s)) \in Session!TraceType
  BY ApplyValue DEF Session!TraceType

LEMMA InitType == Init => TypeOK
<1>. SUFFICES ASSUME Init PROVE TypeOK
  OBVIOUS
<1>1. trace = [openTurn |-> 0, openStep |-> 0, nextTurn |-> LastTurn + 1,
               nextStep |-> 1, pendingCalls |-> {}]
  BY DEF Init, Session!FreshTrace, Session!NoTurn, Session!NoStep
<1>2. trace \in Session!TraceType
  BY <1>1, LastTurnAssumption DEF Session!TraceType
<1>3. /\ <<>> \in Seq(Messages) /\ <<>> \in Seq(Frames)
      /\ [m \in Messages |-> 0] \in [Messages -> Nat]
  OBVIOUS
<1>4. QED
  BY <1>2, <1>3, LastTurnAssumption DEF Init, TypeOK, PhaseType, InboxType, DriverType, HistoryType

\* A frame on top of the stack, and the stack below its top.
LEMMA PushValue ==
  ASSUME NEW S, NEW q \in Seq(S), NEW f \in S
  PROVE  /\ <<f>> \o q \in Seq(S)
         /\ 1 \in DOMAIN (<<f>> \o q) /\ (<<f>> \o q)[1] = f
         /\ \A k \in DOMAIN q : k + 1 \in DOMAIN (<<f>> \o q) /\ (<<f>> \o q)[k + 1] = q[k]
<1>1. <<f>> \in Seq(S) /\ Len(<<f>>) = 1 /\ <<f>>[1] = f
  OBVIOUS
<1>. DEFINE one == <<f>>
            r == one \o q
<1>2. one \in Seq(S) /\ Len(one) = 1 /\ one[1] = f
  BY <1>1
<1>. HIDE DEF one
<1>3. /\ r \in Seq(S) /\ Len(r) = 1 + Len(q) /\ Len(q) \in Nat
      /\ DOMAIN r = 1 .. 1 + Len(q) /\ DOMAIN q = 1 .. Len(q)
      /\ \A k \in 1 .. 1 + Len(q) : r[k] = IF k <= 1 THEN one[k] ELSE q[k - 1]
  BY <1>2, ConcatProperties
<1>. HIDE DEF r
<1>4. 1 \in DOMAIN r /\ r[1] = f
  BY <1>2, <1>3
<1>5. ASSUME NEW k \in DOMAIN q PROVE k + 1 \in DOMAIN r /\ r[k + 1] = q[k]
  BY <1>3
<1> QED
  BY <1>3, <1>4, <1>5 DEF r, one

LEMMA PopValue ==
  ASSUME NEW S, NEW q \in Seq(S), q # <<>>
  PROVE  /\ Tail(q) \in Seq(S) /\ Head(q) \in S
         /\ \A k \in DOMAIN q :
              q[k] = Head(q) \/ (k - 1 \in DOMAIN Tail(q) /\ Tail(q)[k - 1] = q[k])
<1>. DEFINE r == Tail(q)
<1>1. /\ r \in Seq(S) /\ Len(q) \in Nat \ {0}
      /\ DOMAIN q = 1 .. Len(q) /\ DOMAIN r = 1 .. Len(q) - 1
      /\ \A k \in 1 .. Len(q) - 1 : r[k] = q[k + 1]
      /\ Head(q) = q[1] /\ Head(q) \in S
  BY HeadTailProperties
<1>. HIDE DEF r
<1>2. ASSUME NEW k \in DOMAIN q PROVE q[k] = Head(q) \/ (k - 1 \in DOMAIN r /\ r[k - 1] = q[k])
  BY <1>1
<1> QED
  BY <1>1, <1>2 DEF r

LEMMA FrameTypes ==
  /\ \A arg \in {"live", "afterAbort"} : Frame("wake", arg) \in Frames
  /\ \A c \in {"user", "disposed"} : Frame("clear", c) \in Frames /\ Frame("abort", c) \in Frames
  /\ Frame("replay", "none") \in Frames /\ Frame("drive", "none") \in Frames
  /\ \A f \in Frames : f.op \in {"clear", "abort"} => f.arg \in {"user", "disposed"}
  BY DEF Frame, Frames

\* What is under way stays a stack of frames.
LEMMA StackStep == stack \in Seq(Frames) /\ [Next]_vars => stack' \in Seq(Frames)
<1>. SUFFICES ASSUME stack \in Seq(Frames), [Next]_vars PROVE stack' \in Seq(Frames)
  OBVIOUS
<1>1. \A f \in Frames : Push(f) => stack' \in Seq(Frames)
  BY PushValue DEF Push
<1>2. stack # <<>> /\ Return => stack' \in Seq(Frames)
  BY PopValue DEF Return
<1>3. Suspend => stack' \in Seq(Frames)
  BY PopValue DEF Suspend, Settled
<1>4. \A q \in Seq(Frames) : StartDriver(q) => stack' \in Seq(Frames)
  BY PushValue, FrameTypes DEF StartDriver
<1>5. ASSUME NEW afterAbort, stack # <<>>, WakeDriver(afterAbort) PROVE stack' \in Seq(Frames)
  BY <1>2, <1>4, <1>5, PopValue DEF WakeDriver
<1>6. ASSUME NEW m \in Messages, NEW target \in {"next-turn", "next-step"},
             NEW wakeup \in BOOLEAN, Send(m, target, wakeup)
      PROVE  stack' \in Seq(Frames)
  BY <1>1, <1>6, FrameTypes DEF Send
<1>7. ASSUME NEW c \in {"user", "disposed"}, Cancel(c) \/ CancelKeeping(c)
      PROVE  stack' \in Seq(Frames)
  BY <1>1, <1>7, FrameTypes DEF Cancel, CancelKeeping
<1>8. CASE Wake
  BY <1>5, <1>8 DEF Wake, InCall
<1>9. CASE Replay
  BY <1>2, <1>5, <1>9 DEF Replay, InCall
<1>10. CASE ClearPrompts
  <2>1. stack # <<>> /\ Head(stack).op = "clear"
    BY <1>10 DEF ClearPrompts, InCall
  <2>2. Frame("abort", Head(stack).arg) \in Frames /\ Tail(stack) \in Seq(Frames)
    BY <2>1, PopValue, FrameTypes
  <2>3. stack' = <<Frame("abort", Head(stack).arg)>> \o Tail(stack) \/ Return
    BY <1>10 DEF ClearPrompts
  <2> QED
    BY <1>2, <2>1, <2>2, <2>3, PushValue
<1>11. CASE FinishCancel
  BY <1>2, <1>11 DEF FinishCancel, InCall
<1>12. CASE MaintenanceDone
  BY <1>4, <1>12 DEF MaintenanceDone
<1>13. CASE Retire
  BY <1>1, <1>13, FrameTypes DEF Retire
<1>14. CASE RefuseTurn \/ FirstClaim \/ FinishTurn
  BY <1>3, <1>14 DEF RefuseTurn, FirstClaim, FinishTurn
<1>15. ASSUME NEW i, RemovePending(i) PROVE stack' \in Seq(Frames)
  BY <1>15 DEF RemovePending
<1>16. CASE RunMaintenance
  BY <1>16 DEF RunMaintenance
<1>17. CASE \/ OpenTurn \/ PreStep \/ EndAtDecision \/ EnterStep \/ LogMessage \/ BeginStep
            \/ Request \/ Recover \/ Tools \/ EndStep \/ AfterStep \/ Stopping \/ UNCHANGED vars
  BY <1>17 DEF OpenTurn, PreStep, EndAtDecision, EnterStep, LogMessage, BeginStep, Request,
     Recover, Tools, EndStep, AfterStep, Stopping, AwaitedTurn, vars
<1> QED
  BY <1>6, <1>7, <1>8, <1>9, <1>10, <1>11, <1>12, <1>13, <1>14, <1>15, <1>16, <1>17
  DEF Next, Driver, Caller, Resume

\* Every part of TypeOK but the stack.
BaseType == PhaseType /\ InboxType /\ DriverType /\ HistoryType

LEMMA BaseStep == TypeOK /\ [Next]_vars => BaseType'
<1>. SUFFICES ASSUME TypeOK, [Next]_vars PROVE BaseType'
  OBVIOUS
<1>. USE DEF TypeOK, BaseType, PhaseType, InboxType, DriverType, HistoryType, AwaitedTurn
<1>1. ASSUME NEW m \in Messages, NEW target \in {"next-turn", "next-step"},
             NEW wakeup \in BOOLEAN, Send(m, target, wakeup)
      PROVE  BaseType'
  BY <1>1 DEF Send, phaseVars, driverVars
<1>2. ASSUME NEW c, AbortCleared(c), c \in {"user", "disposed"}, SameDriver,
             nextStep' \in Seq(Messages), nextTurn' \in Seq(Messages)
      PROVE  BaseType'
  <2>1. cause' \in {"none", "user", "disposed"} /\ wakeRequested' \in BOOLEAN
    BY <1>2 DEF AbortCleared, Abort
  <2>2. awaited' \subseteq Messages /\ owed' \subseteq Messages
    BY <1>2 DEF AbortCleared, Abort
  <2>3. UNCHANGED <<phase, turn, step, pc, claimed, turnEnds, result, trace,
                    unsent, ordinary, delivered>>
    BY <1>2 DEF SameDriver, driverVars
  <2> QED
    BY <1>2, <2>1, <2>2, <2>3
<1>e. <<>> \in Seq(Messages)
  OBVIOUS
<1>c. ASSUME SameDriver, UNCHANGED <<wakeRequested, cause, awaited, owed>>,
             nextStep' \in Seq(Messages), nextTurn' \in Seq(Messages)
      PROVE  BaseType'
  BY <1>c DEF SameDriver, driverVars
<1>2a. ASSUME NEW c \in {"user", "disposed"}, Cancel(c) PROVE BaseType'
  <2>1. CASE AbortCleared(c) /\ UNCHANGED inboxVars
    BY <1>2, <1>2a, <2>1 DEF Cancel, inboxVars
  <2>2. CASE nextStep' = <<>> /\ UNCHANGED <<nextTurn, wakeRequested, cause, awaited, owed>>
    BY <1>c, <1>e, <1>2a, <2>2 DEF Cancel
  <2>3. CASE nextTurn' = <<>> /\ UNCHANGED <<nextStep, wakeRequested, cause, awaited, owed>>
    BY <1>c, <1>e, <1>2a, <2>3 DEF Cancel
  <2> QED
    BY <1>2a, <2>1, <2>2, <2>3 DEF Cancel
<1>2b. ASSUME NEW c \in {"user", "disposed"}, CancelKeeping(c) PROVE BaseType'
  BY <1>2b DEF CancelKeeping, Abort, SameDriver, driverVars, inboxVars
<1>2c. CASE ClearPrompts \/ FinishCancel
  <2>1. Head(stack).arg \in {"user", "disposed"}
    BY <1>2c, PopValue, FrameTypes DEF ClearPrompts, FinishCancel, InCall
  <2>2. SameDriver
    BY <1>2c DEF ClearPrompts, FinishCancel
  <2>3. CASE AbortCleared(Head(stack).arg) /\ UNCHANGED inboxVars
    BY <1>2, <2>1, <2>2, <2>3 DEF inboxVars
  <2>4. CASE nextTurn' = <<>> /\ UNCHANGED <<nextStep, wakeRequested, cause, awaited, owed>>
    BY <1>c, <1>e, <2>2, <2>4
  <2> QED
    BY <1>2c, <2>3, <2>4 DEF ClearPrompts, FinishCancel
<1>3. ASSUME NEW i \in DOMAIN nextTurn \cup DOMAIN nextStep, RemovePending(i)
      PROVE  BaseType'
  BY <1>3, RemoveAtValue DEF RemovePending, phaseVars, driverVars, history
<1>4. CASE RunMaintenance
  BY <1>4 DEF RunMaintenance, inboxVars, driverVars, history
<1>. DEFINE WokenType ==
                         /\ phase' \in {"idle", "maintenance", "running"}
                         /\ turn' \in Nat
                         /\ step' \in Nat
                         /\ cause' \in {"none", "user", "disposed"}
                         /\ wakeRequested' \in BOOLEAN
                         /\ pc' = pc \/ pc' = "turn"
                         /\ awaited' \subseteq Messages
                         /\ owed' \subseteq Messages
<1>a. ASSUME NEW callers, StartDriver(callers) PROVE WokenType
  BY <1>a DEF StartDriver, TakeCharge
<1>b. ASSUME NEW afterAbort, WakeDriver(afterAbort) PROVE WokenType
  BY <1>a, <1>b DEF WakeDriver
<1>5. CASE Wake
  <2>1. WokenType
    BY <1>5, <1>b DEF Wake
  <2>2. QED
    BY <1>5, <2>1 DEF Wake, inboxVars
<1>6. CASE Replay
  <2>1. WokenType
    BY <1>6, <1>b DEF Replay, phaseVars
  <2>2. QED
    BY <1>6, <2>1 DEF Replay, inboxVars
<1>7. CASE MaintenanceDone
  <2>1. WokenType
    BY <1>7, <1>a DEF MaintenanceDone
  <2>2. QED
    BY <1>7, <2>1 DEF MaintenanceDone, inboxVars
<1>8. CASE UNCHANGED vars
  BY <1>8 DEF vars, phaseVars, inboxVars, driverVars, history
<1>9. ASSUME NEW target \in {"next-turn", "next-step"}, Claim(target), SameTurn,
             UNCHANGED <<step, delivered>>
      PROVE  BaseType'
  BY <1>9 DEF Claim, SameTurn
<1>10. ASSUME NEW reason \in {"null", "completed", "max-tokens", "blocked",
                                "aborted", "error"},
              NEW next \in {"drain", "exit"}, CloseTurn(reason, next), SameTurn,
              UNCHANGED <<step, delivered>>
       PROVE  BaseType'
  <2>1. trace' \in Session!TraceType
    BY <1>10, ApplyType DEF CloseTurn, SameTurn
  <2>2. QED
    BY <1>10, <2>1 DEF CloseTurn, SameTurn, inboxVars
<1>11. ASSUME FailTurn, SameTurn, UNCHANGED <<step, delivered>> PROVE BaseType'
  BY <1>10, <1>11 DEF FailTurn
<1>12. CASE Driver
  <2>1. CASE RefuseTurn
    BY <2>1 DEF RefuseTurn, phaseVars, inboxVars, history
  <2>2. CASE OpenTurn
    <3>1. turn + 1 \in Nat /\ trace' \in Session!TraceType
      BY <2>2, ApplyType DEF OpenTurn
    <3>2. QED
      BY <2>2, <3>1 DEF OpenTurn, inboxVars, history
  <2>3. CASE FirstClaim
    BY <2>3, <1>9, <1>11 DEF FirstClaim
  <2>4. CASE PreStep
    BY <2>4 DEF PreStep, SameTurn, inboxVars
  <2>5. CASE EndAtDecision
    BY <2>5, <1>10, <1>11 DEF EndAtDecision
  <2>6. CASE EnterStep
    <3>1. CASE Aborted
      BY <2>6, <3>1, <1>11 DEF EnterStep
    <3>2. CASE ~Aborted
      <4>1. step + 1 \in Nat /\ trace' \in Session!TraceType
        BY <2>6, <3>2, ApplyType DEF EnterStep, SameTurn
      <4>2. QED
        BY <2>6, <3>2, <4>1 DEF EnterStep, SameTurn, inboxVars
    <3>3. QED
      BY <3>1, <3>2
  <2>7. CASE LogMessage
    BY <2>7 DEF LogMessage, SameTurn, inboxVars
  <2>8. CASE BeginStep
    BY <2>8 DEF BeginStep, SameTurn, inboxVars
  <2>9. CASE Request
    BY <2>9 DEF Request, StepReturns, SameTurn, inboxVars
  <2>10. CASE Recover
    BY <2>10 DEF Recover, StepReturns, SameTurn, inboxVars
  <2>11. CASE Tools
    BY <2>11 DEF Tools, StepReturns, SameTurn, inboxVars
  <2>12. CASE EndStep
    <3>1. trace' \in Session!TraceType
      BY <2>12, ApplyType DEF EndStep, SameTurn
    <3>2. QED
      BY <2>12, <3>1 DEF EndStep, SameTurn, inboxVars
  <2>13. CASE AfterStep
    BY <2>13, <1>9, <1>11 DEF AfterStep, SameTurn, inboxVars
  <2>14. CASE Stopping
    <3>1. CASE FailTurn
      BY <2>14, <3>1, <1>11 DEF Stopping
    <3>2. CASE CloseTurn(turnEnds, "drain")
      BY <2>14, <3>2, <1>10 DEF Stopping
    <3>3. CASE Claim("next-step")
      BY <2>14, <3>3, <1>9 DEF Stopping
    <3>4. QED
      BY <2>14, <3>1, <3>2, <3>3 DEF Stopping
  <2>15. CASE FinishTurn
    <3>1. /\ awaited' \subseteq Messages
          /\ owed' \subseteq Messages
      BY <2>15 DEF FinishTurn, TakeCharge
    <3>2. InboxType' /\ DriverType' /\ HistoryType'
      BY <2>15, <3>1 DEF FinishTurn, inboxVars
    <3>3. CASE result = "drain" /\ HasPending
      <4>1. wakeRequested' \in BOOLEAN
        BY <2>15, <3>3 DEF FinishTurn
      <4>2. step' = 0 /\ cause' = "none" /\ UNCHANGED <<phase, turn>>
        BY <2>15, <3>3 DEF FinishTurn
      <4>3. QED
        BY <3>2, <4>1, <4>2
    <3>4. CASE ~(result = "drain" /\ HasPending)
      <4>1. PhaseType'
        BY <2>15, <3>4 DEF FinishTurn
      <4>2. QED
        BY <3>2, <4>1
    <3>5. QED
      BY <3>3, <3>4
  <2>16. CASE Retire
    BY <2>16 DEF Retire, inboxVars, history
  <2>17. QED
    BY <1>12, <2>1, <2>2, <2>3, <2>4, <2>5, <2>6, <2>7, <2>8, <2>9, <2>10,
       <2>11, <2>12, <2>13, <2>14, <2>15, <2>16 DEF Driver
<1>13. QED
  BY <1>1, <1>2a, <1>2b, <1>2c, <1>3, <1>4, <1>5, <1>6, <1>7, <1>8, <1>12
  DEF Next, Caller, Resume

LEMMA TypeStep == TypeOK /\ [Next]_vars => TypeOK'
  BY BaseStep, StackStep DEF TypeOK, BaseType

\* The values of every variable have their type, for every set of messages.
THEOREM TypeCorrect == Spec => []TypeOK
<1>1. QED
  BY InitType, TypeStep, PTL DEF Spec

-----------------------------------------------------------------------------
(* The phase and the points of the driver.                                 *)

LEMMA PhaseStep == TypeOK /\ PhaseInv /\ [Next]_vars => PhaseInv'
<1>. SUFFICES ASSUME TypeOK, PhaseInv, [Next]_vars PROVE PhaseInv'
  OBVIOUS
<1>. USE DEF PhaseInv
<1>1. ASSUME NEW m \in Messages, NEW target \in {"next-turn", "next-step"},
             NEW wakeup \in BOOLEAN, Send(m, target, wakeup)
      PROVE  PhaseInv'
  BY <1>1 DEF Send, phaseVars, driverVars
<1>2. ASSUME NEW c \in {"user", "disposed"}, Cancel(c) \/ CancelKeeping(c)
      PROVE  PhaseInv'
  <2>1. phase' = phase /\ pc' = pc
    BY <1>2 DEF Cancel, CancelKeeping, SameDriver, driverVars
  <2>2. phase = "idle" => cause' = cause
    BY <1>2 DEF Cancel, CancelKeeping, AbortCleared, Abort
  <2>3. ~wakeRequested => ~wakeRequested'
    BY <1>2 DEF Cancel, CancelKeeping, AbortCleared
  <2>4. QED
    BY <2>1, <2>2, <2>3
<1>2a. CASE ClearPrompts \/ FinishCancel
  <2>1. phase' = phase /\ pc' = pc
    BY <1>2a DEF ClearPrompts, FinishCancel, SameDriver, driverVars
  <2>2. phase = "idle" => cause' = cause
    BY <1>2a DEF ClearPrompts, FinishCancel, AbortCleared, Abort
  <2>3. ~wakeRequested => ~wakeRequested'
    BY <1>2a DEF ClearPrompts, FinishCancel, AbortCleared
  <2>4. QED
    BY <2>1, <2>2, <2>3
<1>3. ASSUME NEW i \in DOMAIN nextTurn \cup DOMAIN nextStep, RemovePending(i)
      PROVE  PhaseInv'
  BY <1>3 DEF RemovePending, phaseVars, driverVars
<1>4. CASE RunMaintenance
  BY <1>4 DEF RunMaintenance, driverVars
<1>5. ASSUME NEW afterAbort, WakeDriver(afterAbort) PROVE PhaseInv'
  BY <1>5 DEF WakeDriver, StartDriver
<1>6. CASE Wake
  BY <1>5, <1>6 DEF Wake
<1>7. CASE Replay
  BY <1>5, <1>7 DEF Replay, phaseVars
<1>8. CASE MaintenanceDone
  BY <1>8 DEF MaintenanceDone, StartDriver
<1>9. CASE UNCHANGED vars
  BY <1>9 DEF vars, phaseVars, driverVars
<1>10. CASE Retire
  BY <1>10 DEF Retire
<1>11. CASE Driver /\ ~Retire
  <2>1. pc # "off" /\ pc' # "off" /\ phase' = phase
    BY <1>11 DEF Driver, RefuseTurn, OpenTurn, FirstClaim, PreStep,
       EndAtDecision, EnterStep, LogMessage, BeginStep, Request, Recover, Tools,
       EndStep, AfterStep, Stopping, FinishTurn, SameTurn, AwaitedTurn, phaseVars, FailTurn,
       CloseTurn, Claim, StepReturns
  <2>2. QED
    BY <2>1
<1>12. QED
  BY <1>1, <1>2, <1>2a, <1>3, <1>4, <1>6, <1>7, <1>8, <1>9, <1>10, <1>11
  DEF Next, Caller, Resume

-----------------------------------------------------------------------------
(* The trace at each point of the driver.                                  *)

\* A step to another point of the same kind that appends nothing.
LEMMA TraceKept ==
  ASSUME TraceInv, UNCHANGED <<trace, turn, step>>,
         pc' \in TurnPoints <=> pc \in TurnPoints,
         pc' \in StepPoints <=> pc \in StepPoints,
         pc' \in {"off", "turn", "turnStarted"} => step = 0
  PROVE  TraceInv'
  BY DEF TraceInv

LEMMA TraceStep == TypeOK /\ PhaseInv /\ TraceInv /\ [Next]_vars => TraceInv'
<1>. SUFFICES ASSUME TypeOK, PhaseInv, TraceInv, [Next]_vars PROVE TraceInv'
  OBVIOUS
<1>. turn \in Nat /\ step \in Nat /\ trace \in Session!TraceType
  BY DEF TypeOK, PhaseType, DriverType
<1>. USE DEF TurnPoints, StepPoints, AwaitedTurn
<1>1. ASSUME UNCHANGED <<trace, turn, step, pc>> PROVE TraceInv'
  BY <1>1, TraceKept DEF TraceInv
<1>2. ASSUME NEW callers, StartDriver(callers), UNCHANGED trace, phase # "running" PROVE TraceInv'
  <2>1. pc = "off" /\ pc' = "turn" /\ step = 0 /\ step' = 0 /\ turn' = turn
    BY <1>2 DEF StartDriver, PhaseInv, TraceInv
  <2>2. QED
    BY <1>2, <2>1, TraceKept
<1>3. ASSUME NEW afterAbort, WakeDriver(afterAbort), UNCHANGED trace
      PROVE  TraceInv'
  BY <1>1, <1>2, <1>3 DEF WakeDriver
<1>4. CASE Caller
  BY <1>1, <1>4 DEF Caller, Send, Cancel, CancelKeeping, SameDriver, RemovePending,
     RunMaintenance, phaseVars, driverVars
<1>4a. CASE ClearPrompts \/ FinishCancel
  BY <1>1, <1>4a DEF ClearPrompts, FinishCancel, SameDriver, driverVars
<1>5. CASE Wake
  BY <1>3, <1>5 DEF Wake
<1>6. CASE Replay
  BY <1>1, <1>3, <1>6 DEF Replay, phaseVars
<1>7. CASE MaintenanceDone
  BY <1>1, <1>2, <1>7 DEF MaintenanceDone
<1>8. CASE UNCHANGED vars
  BY <1>1, <1>8 DEF vars, phaseVars, driverVars
<1>9. ASSUME NEW target, Claim(target), UNCHANGED <<turn, step>>,
             pc \in TurnPoints \ StepPoints
      PROVE  TraceInv'
  BY <1>9, TraceKept DEF Claim
<1>10. ASSUME NEW reason, NEW next, CloseTurn(reason, next),
              UNCHANGED <<turn, step>>, pc \in TurnPoints \ StepPoints
       PROVE  TraceInv'
  <2>1. trace' = [openTurn |-> 0, openStep |-> trace.openStep,
                  nextTurn |-> trace.nextTurn + 1, nextStep |-> trace.nextStep,
                  pendingCalls |-> trace.pendingCalls]
    BY <1>10, ApplyValue DEF CloseTurn
  <2>2. pc' = "closed"
    BY <1>10 DEF CloseTurn
  <2>3. QED
    BY <1>10, <2>1, <2>2 DEF TraceInv
<1>11. CASE Driver
  <2>1. CASE OpenTurn
    <3>1. trace' = [openTurn |-> turn + 1, openStep |-> trace.openStep,
                    nextTurn |-> trace.nextTurn, nextStep |-> 1,
                    pendingCalls |-> trace.pendingCalls]
      BY <2>1, ApplyValue DEF OpenTurn
    <3>2. QED
      BY <2>1, <3>1 DEF OpenTurn, TraceInv
  <2>2. CASE EnterStep /\ ~Aborted
    <3>1. trace' = [openTurn |-> trace.openTurn, openStep |-> step + 1,
                    nextTurn |-> trace.nextTurn, nextStep |-> trace.nextStep,
                    pendingCalls |-> trace.pendingCalls]
      BY <2>2, ApplyValue DEF EnterStep
    <3>2. QED
      BY <2>2, <3>1 DEF EnterStep, SameTurn, TraceInv
  <2>3. CASE EndStep
    <3>1. trace' = [openTurn |-> trace.openTurn, openStep |-> 0,
                    nextTurn |-> trace.nextTurn,
                    nextStep |-> trace.nextStep + 1, pendingCalls |-> {}]
      BY <2>3, ApplyValue DEF EndStep
    <3>2. QED
      BY <2>3, <3>1 DEF EndStep, SameTurn, TraceInv
  <2>4. CASE FirstClaim
    BY <1>9, <1>10, <2>4 DEF FirstClaim, FailTurn, SameTurn
  <2>5. CASE EndAtDecision
    BY <1>10, <2>5 DEF EndAtDecision, FailTurn, SameTurn
  <2>6. CASE EnterStep /\ Aborted
    BY <1>10, <2>6 DEF EnterStep, FailTurn, SameTurn
  <2>7. CASE AfterStep
    <3>1. CASE pc' = "stopping" /\ UNCHANGED trace
      BY <2>7, <3>1, TraceKept DEF AfterStep, SameTurn
    <3>2. QED
      BY <1>9, <1>10, <2>7, <3>1 DEF AfterStep, FailTurn, SameTurn
  <2>8. CASE Stopping
    BY <1>9, <1>10, <2>8 DEF Stopping, FailTurn, SameTurn
  <2>9. CASE RefuseTurn \/ Retire \/ FinishTurn
    <3>1. /\ UNCHANGED <<turn, trace>>
          /\ pc \notin TurnPoints /\ pc' \notin TurnPoints
          /\ step' = step \/ step' = 0
      BY <2>9 DEF RefuseTurn, Retire, FinishTurn, phaseVars
    <3>2. pc' \in {"off", "turn"} => step' = 0
      BY <2>9 DEF RefuseTurn, Retire, FinishTurn, phaseVars, TraceInv
    <3>3. QED
      BY <3>1, <3>2 DEF TraceInv
  <2>10. CASE PreStep \/ LogMessage \/ BeginStep \/ Request \/ Recover \/ Tools
    <3>1. UNCHANGED <<trace, turn, step>>
      BY <2>10 DEF PreStep, LogMessage, BeginStep, Request, Recover, Tools,
         SameTurn
    <3>2. /\ pc \in {"preStep"} \cup StepPoints
          /\ pc = "preStep" => pc' = "decided"
          /\ pc \in StepPoints => pc' \in StepPoints
      BY <2>10 DEF PreStep, LogMessage, BeginStep, Request, Recover, Tools,
         StepReturns
    <3>3. QED
      BY <3>1, <3>2, TraceKept
  <2>11. QED
    BY <1>11, <2>1, <2>2, <2>3, <2>4, <2>5, <2>6, <2>7, <2>8, <2>9, <2>10
    DEF Driver
<1>12. QED
  BY <1>4, <1>4a, <1>5, <1>6, <1>7, <1>8, <1>11 DEF Next, Resume

-----------------------------------------------------------------------------
(* Every append of the driver is accepted by the session's trace.          *)

LEMMA AcceptedAppend ==
  ASSUME NEW e \in Session!Candidates(trace), Session!Accepts(trace, e),
         trace' = Session!Apply(trace, e)
  PROVE  Session!Append1
  BY DEF Session!Append1

LEMMA InitTrace == Init => Session!Init /\ PhaseInv /\ TraceInv
<1>. SUFFICES ASSUME Init PROVE Session!Init /\ PhaseInv /\ TraceInv
  OBVIOUS
<1>1. trace = [openTurn |-> 0, openStep |-> 0, nextTurn |-> LastTurn + 1,
               nextStep |-> 1, pendingCalls |-> {}]
  BY DEF Init, Session!FreshTrace, Session!NoTurn, Session!NoStep
<1>2. Session!Init
  BY <1>1, InitType DEF TypeOK, DriverType, Session!Init, Session!Balanced,
     Session!NoTurn, Session!NoStep
<1>3. PhaseInv /\ TraceInv
  BY <1>1, LastTurnAssumption
  DEF Init, PhaseInv, TraceInv, TurnPoints, StepPoints
<1>4. QED
  BY <1>2, <1>3

LEMMA AppendStep ==
  TypeOK /\ PhaseInv /\ TraceInv /\ [Next]_vars => [Session!Append1]_trace
<1>. SUFFICES ASSUME TypeOK, PhaseInv, TraceInv, Next, trace' # trace
              PROVE  Session!Append1
  BY DEF vars
<1>. turn \in Nat /\ step \in Nat /\ trace \in Session!TraceType
  BY DEF TypeOK, PhaseType, DriverType
<1>. USE DEF TurnPoints, StepPoints
<1>1. ASSUME NEW reason, NEW next, CloseTurn(reason, next),
             pc \in TurnPoints \ StepPoints
      PROVE  Session!Append1
  <2>1. trace.openTurn = turn /\ turn # 0 /\ trace.openStep = 0
    BY <1>1 DEF TraceInv
  <2>2. Session!Accepts(trace, Session!TurnEnd(turn))
    BY <2>1 DEF Session!Accepts, Session!TurnEnd, Session!InOpenTurn,
       Session!NoTurn, Session!NoStep
  <2>3. Session!TurnEnd(turn) \in Session!Candidates(trace)
    BY <2>1 DEF Session!Candidates
  <2>4. QED
    BY <1>1, <2>2, <2>3, AcceptedAppend DEF CloseTurn
<1>2. CASE OpenTurn
  <2>1. trace.openTurn = 0 /\ trace.nextTurn = turn + 1
    BY <1>2 DEF OpenTurn, TraceInv
  <2>2. Session!Accepts(trace, Session!TurnStart(turn + 1))
    BY <2>1 DEF Session!Accepts, Session!TurnStart, Session!NoTurn
  <2>3. Session!TurnStart(turn + 1) \in Session!Candidates(trace)
    BY <2>1 DEF Session!Candidates
  <2>4. QED
    BY <1>2, <2>2, <2>3, AcceptedAppend DEF OpenTurn
<1>3. CASE EnterStep /\ ~Aborted
  <2>1. /\ trace.openTurn = turn /\ turn # 0
        /\ trace.openStep = 0 /\ trace.nextStep = step + 1
    BY <1>3 DEF EnterStep, TraceInv
  <2>2. Session!Accepts(trace, Session!StepStart(turn, step + 1))
    BY <2>1 DEF Session!Accepts, Session!StepStart, Session!InOpenTurn,
       Session!NoTurn, Session!NoStep
  <2>3. Session!StepStart(turn, step + 1) \in Session!Candidates(trace)
    BY <2>1 DEF Session!Candidates
  <2>4. QED
    BY <1>3, <2>2, <2>3, AcceptedAppend DEF EnterStep
<1>4. CASE EndStep
  <2>1. /\ trace.openTurn = turn /\ turn # 0
        /\ trace.openStep = step /\ step # 0
    BY <1>4 DEF EndStep, TraceInv
  <2>2. Session!Accepts(trace, Session!StepEnd(turn, step))
    BY <2>1 DEF Session!Accepts, Session!StepEnd, Session!InOpenTurn,
       Session!InOpenStep, Session!NoTurn, Session!NoStep
  <2>3. Session!StepEnd(turn, step) \in Session!Candidates(trace)
    BY <2>1 DEF Session!Candidates
  <2>4. QED
    BY <1>4, <2>2, <2>3, AcceptedAppend DEF EndStep
<1>5. CASE FirstClaim \/ EndAtDecision \/ (EnterStep /\ Aborted)
           \/ AfterStep \/ Stopping
  BY <1>1, <1>5 DEF FirstClaim, EndAtDecision, EnterStep, AfterStep, Stopping,
     FailTurn, Claim
<1>6. CASE Caller \/ Resume \/ MaintenanceDone
  BY <1>6 DEF Caller, Send, Cancel, CancelKeeping, SameDriver, RemovePending, RunMaintenance,
     Resume, Wake, ClearPrompts, FinishCancel, Replay, MaintenanceDone
<1>7. CASE RefuseTurn \/ PreStep \/ LogMessage \/ BeginStep \/ Request
           \/ Recover \/ Tools \/ FinishTurn \/ Retire
  BY <1>7 DEF RefuseTurn, PreStep, LogMessage, BeginStep, Request, Recover,
     Tools, FinishTurn, Retire
<1>8. QED
  BY <1>2, <1>3, <1>4, <1>5, <1>6, <1>7 DEF Next, Driver

\* The driver implements the session's grammar: whatever the callers, the
\* model, the tools and the listeners do, and whenever they do it, each event
\* it appends is accepted by the session's invariant companion.
THEOREM DriverImplementsTrace == Spec => ImplementsTrace
<1>1. Init => TypeOK /\ PhaseInv /\ TraceInv /\ Session!Init
  BY InitType, InitTrace
<1>2. TypeOK /\ PhaseInv /\ TraceInv /\ [Next]_vars
        => TypeOK' /\ PhaseInv' /\ TraceInv' /\ [Session!Append1]_trace
  BY TypeStep, PhaseStep, TraceStep, AppendStep
<1>3. QED
  BY <1>1, <1>2, PTL DEF Spec, ImplementsTrace, Session!Spec

-----------------------------------------------------------------------------
(* Wakes.                                                                  *)

\* A claim leaves behind only what was pending.
LEMMA ClaimSet ==
  ASSUME TypeOK, NEW target, Claim(target)
  PROVE  Pending' \subseteq Pending
<1>. DEFINE n == IF target = "next-turn" /\ nextTurn # <<>> THEN 1 ELSE 0
<1>1. nextTurn \in Seq(Messages)
  BY DEF TypeOK, InboxType
<1>2. nextStep' = <<>> /\ nextTurn' = SubSeq(nextTurn, n + 1, Len(nextTurn))
  BY DEF Claim
<1>3. n \in {0, 1} /\ (n = 1 => Len(nextTurn) > 0)
  BY <1>1
<1>. HIDE DEF n
<1>4. /\ Len(nextTurn') = Len(nextTurn) - n
      /\ \A k \in 1 .. Len(nextTurn') : nextTurn'[k] = nextTurn[k + n]
  BY <1>1, <1>2, <1>3
<1>5. ToSet(nextTurn') \subseteq ToSet(nextTurn)
  BY <1>1, <1>2, <1>3, <1>4 DEF ToSet
<1>6. ToSet(nextStep') = {}
  BY <1>2 DEF ToSet
<1>7. QED
  BY <1>5, <1>6 DEF Pending

\* A wake under way stays so while operations are entered and left, except one
\* that wakes itself.
LEMMA WakingKept ==
  ASSUME stack \in Seq(Frames), Waking,
         cause' = cause \/ cause' # "disposed", phase' = phase \/ phase' # "running"
  PROVE  /\ stack' = stack => Waking'
         /\ \A f \in Frames : Push(f) => Waking'
         /\ stack # <<>> /\ ~WillWake(Head(stack)) =>
              /\ Return => Waking'
              /\ \A f \in Frames : stack' = <<f>> \o Tail(stack) => Waking'
<1>1. PICK i \in DOMAIN stack : WillWake(stack[i])
  BY DEF Waking
<1>2. \A j \in DOMAIN stack' : stack'[j] = stack[i] => Waking'
  BY <1>1 DEF Waking, WillWake
<1>3. stack' = stack => Waking'
  BY <1>1, <1>2
<1>4. ASSUME NEW f \in Frames, Push(f) PROVE Waking'
  <2>1. i + 1 \in DOMAIN stack' /\ stack'[i + 1] = stack[i]
    BY <1>1, <1>4, PushValue DEF Push
  <2> QED
    BY <1>2, <2>1
<1>5. ASSUME stack # <<>>, ~WillWake(Head(stack))
      PROVE  /\ Return => Waking'
             /\ \A f \in Frames : stack' = <<f>> \o Tail(stack) => Waking'
  <2>1. Tail(stack) \in Seq(Frames) /\ i - 1 \in DOMAIN Tail(stack) /\ Tail(stack)[i - 1] = stack[i]
    BY <1>1, <1>5, PopValue
  <2>2. Return => Waking'
    BY <1>2, <2>1 DEF Return
  <2>3. ASSUME NEW f \in Frames, stack' = <<f>> \o Tail(stack) PROVE Waking'
    <3>1. (i - 1) + 1 \in DOMAIN stack' /\ stack'[(i - 1) + 1] = stack[i]
      BY <2>1, <2>3, PushValue
    <3> QED
      BY <1>2, <3>1
  <2> QED
    BY <2>2, <2>3
<1> QED
  BY <1>3, <1>4, <1>5

\* An operation that wakes is pushed.
LEMMA WakingPushed ==
  ASSUME stack \in Seq(Frames), NEW f \in Frames, Push(f), WillWake(f)'
  PROVE  Waking'
<1>1. 1 \in DOMAIN stack' /\ stack'[1] = f
  BY PushValue DEF Push
<1> QED
  BY <1>1 DEF Waking, WillWake

LEMMA WakeStep ==
  TypeOK /\ PhaseInv /\ WakeInv /\ DisposalLatchesNothing /\ [Next]_vars
    => WakeInv' /\ DisposalLatchesNothing'
<1>. SUFFICES ASSUME TypeOK, PhaseInv, WakeInv, DisposalLatchesNothing,
                     [Next]_vars
              PROVE  WakeInv' /\ DisposalLatchesNothing'
  OBVIOUS
<1>. stack \in Seq(Frames)
  BY DEF TypeOK
<1>. USE DEF DisposalLatchesNothing, AwaitedTurn
<1>0. /\ ~HasPending => Pending = {}
      /\ UNCHANGED <<nextTurn, nextStep>> => Pending' = Pending
      /\ nextTurn' = nextTurn /\ nextStep' = <<>> => Pending' \subseteq Pending
      /\ nextStep' = nextStep /\ nextTurn' = <<>> => Pending' \subseteq Pending
  BY DEF HasPending, Pending, ToSet
<1>1. ASSUME awaited' = {}, cause' = "disposed" => ~wakeRequested'
      PROVE  WakeInv' /\ DisposalLatchesNothing'
  BY <1>1 DEF WakeInv
<1>2. ASSUME UNCHANGED <<phase, cause, wakeRequested, awaited, unsent>>,
             Pending' \subseteq Pending,
             Waking => Waking'
      PROVE  WakeInv' /\ DisposalLatchesNothing'
  BY <1>2 DEF WakeInv
<1>3. ASSUME NEW m \in Messages, NEW target \in {"next-turn", "next-step"},
             NEW wakeup \in BOOLEAN, Send(m, target, wakeup)
      PROVE  WakeInv' /\ DisposalLatchesNothing'
  <2>. DEFINE f == Frame("wake", IF phase # "idle" /\ Aborted THEN "afterAbort" ELSE "live")
  <2>1. nextTurn \in Seq(Messages) /\ nextStep \in Seq(Messages)
    BY DEF TypeOK, InboxType
  <2>2. Pending' \subseteq Pending \cup {m}
    <3>1. \A q \in Seq(Messages) : ToSet(Append(q, m)) \subseteq ToSet(q) \cup {m}
      BY DEF ToSet
    <3>2. QED
      BY <1>3, <2>1, <3>1 DEF Send, Pending
  <2>3. UNCHANGED <<phase, cause, wakeRequested>>
    BY <1>3 DEF Send, phaseVars
  <2>4. m \in unsent /\ unsent' = unsent \ {m}
    BY <1>3 DEF Send
  <2>5. /\ wakeup => Push(f)
        /\ ~wakeup => stack' = stack
        /\ f \in Frames
    BY <1>3, FrameTypes DEF Send
  <2>6. Waking => Waking'
    BY <2>3, <2>5, WakingKept
  <2>7. CASE awaited' = awaited
    BY <2>2, <2>3, <2>4, <2>6, <2>7 DEF WakeInv
  <2>8. CASE awaited' # awaited
    <3>1. /\ awaited' = awaited \cup {m}
          /\ wakeup /\ cause # "disposed" /\ ~(phase = "running" /\ ~Aborted)
      BY <1>3, <2>8 DEF Send
    <3>2. PICK g \in Frames : g = f
      BY <2>5
    <3>3. /\ g.op = "wake"
          /\ phase = "running" => g.arg = "afterAbort"
      BY <3>1, <3>2 DEF Frame
    <3>4. WillWake(g)'
      BY <2>3, <3>1, <3>3 DEF WillWake
    <3>. HIDE DEF f
    <3>a. Push(g)
      BY <2>5, <3>1, <3>2
    <3>b. Waking'
      BY <3>4, <3>a, WakingPushed
    <3>5. QED
      BY <2>3, <2>4, <3>1, <3>b DEF WakeInv
  <2>9. QED
    BY <2>7, <2>8
<1>4. ASSUME NEW c, AbortCleared(c), UNCHANGED <<phase, unsent>>,
             Pending' \subseteq Pending, awaited \cap Pending = {} \/ (Waking => Waking')
      PROVE  WakeInv' /\ DisposalLatchesNothing'
  <2>1. CASE phase = "idle"
    <3>1. ~wakeRequested /\ ~wakeRequested' /\ awaited' = awaited
      BY <1>4, <2>1 DEF AbortCleared, PhaseInv
    <3>2. QED
      BY <1>4, <2>1, <3>1 DEF WakeInv
  <2>2. CASE phase # "idle"
    BY <1>1, <1>4, <2>2 DEF AbortCleared
  <2>3. QED
    BY <2>1, <2>2
<1>5. ASSUME NEW c \in {"user", "disposed"}, Cancel(c)
      PROVE  WakeInv' /\ DisposalLatchesNothing'
  <2>1. UNCHANGED <<phase, unsent>>
    BY <1>5 DEF Cancel, SameDriver
  <2>2. CASE ~HasPending /\ AbortCleared(c) /\ UNCHANGED <<inboxVars, stack>>
    BY <1>0, <1>4, <2>1, <2>2 DEF inboxVars
  <2>3. ASSUME NEW f \in Frames, Push(f), Pending' \subseteq Pending,
               UNCHANGED <<wakeRequested, cause, awaited>>
        PROVE  WakeInv' /\ DisposalLatchesNothing'
    <3>1. Waking => Waking'
      BY <2>1, <2>3, WakingKept
    <3> QED
      BY <1>2, <2>1, <2>3, <3>1
  <2>4. QED
    BY <1>0, <1>5, <2>2, <2>3, FrameTypes DEF Cancel
<1>6. ASSUME NEW c \in {"user", "disposed"}, CancelKeeping(c)
      PROVE  WakeInv' /\ DisposalLatchesNothing'
  <2>1. /\ UNCHANGED <<phase, unsent, wakeRequested, awaited, nextTurn, nextStep, stack>>
        /\ cause' = cause \/ cause' # "disposed"
    BY <1>6 DEF CancelKeeping, SameDriver, Abort, inboxVars
  <2>2. Waking => Waking'
    BY <2>1, WakingKept
  <2>3. QED
    BY <1>0, <2>1, <2>2 DEF WakeInv
<1>7. CASE ClearPrompts \/ FinishCancel
  <2>1. UNCHANGED <<phase, unsent>> /\ stack # <<>> /\ Head(stack).op \in {"clear", "abort"}
    BY <1>7 DEF ClearPrompts, FinishCancel, SameDriver, InCall
  <2>2. Head(stack) \in Frames /\ ~WillWake(Head(stack))
    BY <2>1, PopValue DEF WillWake
  <2>3. ASSUME NEW c, AbortCleared(c), Return, UNCHANGED inboxVars
        PROVE  WakeInv' /\ DisposalLatchesNothing'
    <3>1. CASE phase = "idle"
      <4>1. cause' = cause
        BY <2>3, <3>1 DEF AbortCleared, Abort
      <4>2. Waking => Waking'
        BY <2>1, <2>2, <2>3, <4>1, WakingKept
      <4> QED
        BY <1>0, <1>4, <2>1, <2>3, <4>2 DEF inboxVars
    <3>2. CASE phase # "idle"
      BY <1>1, <2>3, <3>2 DEF AbortCleared
    <3> QED
      BY <3>1, <3>2
  <2>4. ASSUME nextTurn' = <<>>, stack' = <<Frame("abort", Head(stack).arg)>> \o Tail(stack),
               UNCHANGED <<nextStep, wakeRequested, cause, awaited>>
        PROVE  WakeInv' /\ DisposalLatchesNothing'
    <3>1. Frame("abort", Head(stack).arg) \in Frames
      BY <2>1, <2>2, FrameTypes
    <3>2. Waking => Waking'
      BY <2>1, <2>2, <2>4, <3>1, WakingKept
    <3> QED
      BY <1>0, <1>2, <2>1, <2>4, <3>2
  <2> QED
    BY <1>7, <2>3, <2>4 DEF ClearPrompts, FinishCancel
<1>8. ASSUME NEW i \in DOMAIN nextTurn \cup DOMAIN nextStep, RemovePending(i)
      PROVE  WakeInv' /\ DisposalLatchesNothing'
  <2>1. Pending' \subseteq Pending
    BY <1>8, RemoveAtOnce DEF RemovePending, Pending, TypeOK, InboxType
  <2>2. UNCHANGED <<phase, cause, wakeRequested, stack, awaited, unsent>>
    BY <1>8 DEF RemovePending, phaseVars, history
  <2>3. Waking => Waking'
    BY <2>2, WakingKept
  <2>4. QED
    BY <1>2, <2>1, <2>2, <2>3
<1>9. CASE RunMaintenance
  <2>1. /\ UNCHANGED <<cause, wakeRequested, stack, awaited, unsent, nextTurn, nextStep>>
        /\ phase = "idle" /\ phase' = "maintenance"
    BY <1>9 DEF RunMaintenance, inboxVars, history
  <2>2. Waking => Waking'
    BY <2>1, WakingKept
  <2>3. QED
    BY <1>0, <2>1, <2>2 DEF WakeInv
<1>10. ASSUME NEW callers, StartDriver(callers) PROVE WakeInv' /\ DisposalLatchesNothing'
  BY <1>1, <1>10 DEF StartDriver, TakeCharge
<1>11. ASSUME NEW afterAbort, WakeDriver(afterAbort), UNCHANGED <<unsent, nextTurn, nextStep>>,
              stack # <<>>,
              WillWake(Head(stack)) => (phase = "running" => afterAbort)
       PROVE  WakeInv' /\ DisposalLatchesNothing'
  <2>1. CASE phase = "idle"
    BY <1>10, <1>11, <2>1 DEF WakeDriver
  <2>2. CASE phase # "idle"
    <3>1. UNCHANGED <<phase, cause, awaited>> /\ Return
      BY <1>11, <2>2 DEF WakeDriver
    <3>2. wakeRequested' = IF Latches(afterAbort) THEN TRUE ELSE wakeRequested
      BY <1>11, <2>2 DEF WakeDriver
    <3>3. phase \in {"maintenance", "running"}
      BY <2>2 DEF TypeOK, PhaseType
    <3>4. cause' = "disposed" => ~wakeRequested'
      BY <3>1, <3>2 DEF Latches
    <3>5. CASE WillWake(Head(stack))
      <4>1. wakeRequested'
        BY <1>11, <3>2, <3>3, <3>5 DEF WillWake, Latches
      <4> QED
        BY <1>0, <1>11, <2>2, <3>1, <3>4, <4>1 DEF WakeInv
    <3>6. CASE ~WillWake(Head(stack))
      <4>1. Waking => Waking'
        BY <1>11, <3>1, <3>6, WakingKept
      <4>2. wakeRequested => wakeRequested'
        BY <3>2
      <4> QED
        BY <1>0, <1>11, <3>1, <3>4, <4>1, <4>2 DEF WakeInv
    <3> QED
      BY <3>5, <3>6
  <2>3. QED
    BY <2>1, <2>2
<1>12. CASE Wake
  <2>1. UNCHANGED <<unsent, nextTurn, nextStep>> /\ stack # <<>> /\ Head(stack).op = "wake"
    BY <1>12 DEF Wake, inboxVars, InCall
  <2>2. WakeDriver(Head(stack).arg = "afterAbort")
    BY <1>12 DEF Wake
  <2>3. WillWake(Head(stack)) => (phase = "running" => Head(stack).arg = "afterAbort")
    BY DEF WillWake
  <2>4. QED
    BY <1>11, <2>1, <2>2, <2>3
<1>13. CASE Replay
  <2>1. UNCHANGED <<unsent, nextTurn, nextStep>> /\ stack # <<>> /\ Head(stack).op = "replay"
    BY <1>13 DEF Replay, inboxVars, InCall
  <2>2. CASE ~HasPending
    <3>1. UNCHANGED <<phase, cause, wakeRequested, awaited>>
      BY <1>13, <2>2 DEF Replay, phaseVars
    <3> QED
      BY <1>0, <2>1, <2>2, <3>1 DEF WakeInv
  <2>3. CASE HasPending
    <3>1. WakeDriver(FALSE)
      BY <1>13, <2>3 DEF Replay
    <3>2. Head(stack).arg # "afterAbort"
      BY <2>1, PopValue DEF Frames
    <3> QED
      BY <1>11, <2>1, <3>1, <3>2 DEF WillWake
  <2>4. QED
    BY <2>2, <2>3
<1>14. CASE MaintenanceDone
  <2>1. CASE wakeRequested /\ HasPending
    BY <1>10, <1>14, <2>1 DEF MaintenanceDone
  <2>2. CASE ~(wakeRequested /\ HasPending)
    <3>1. /\ UNCHANGED <<awaited, unsent, nextTurn, nextStep>>
          /\ cause' = "none" /\ stack = <<>>
      BY <1>14, <2>2 DEF MaintenanceDone, inboxVars, Settled
    <3>2. ~Waking
      BY <3>1 DEF Waking
    <3>3. awaited \cap Pending = {}
      BY <1>0, <2>2, <3>2 DEF WakeInv
    <3>4. QED
      BY <1>0, <3>1, <3>3 DEF WakeInv
  <2>3. QED
    BY <2>1, <2>2
<1>15. CASE UNCHANGED vars
  <2>1. UNCHANGED <<phase, cause, wakeRequested, stack, awaited, unsent, nextTurn, nextStep>>
    BY <1>15 DEF vars, phaseVars, inboxVars, history
  <2>2. Waking => Waking'
    BY <2>1, WakingKept
  <2> QED
    BY <1>0, <1>2, <2>1, <2>2
<1>16. ASSUME Suspend, DriverNext, UNCHANGED <<phase, cause>> PROVE Waking => Waking'
  <2>1. Settled => stack' = stack
    BY <1>16 DEF Suspend
  <2>2. ~Settled => Return /\ stack # <<>> /\ ~WillWake(Head(stack))
    BY <1>16 DEF Suspend, DriverNext, InCall, Return, WillWake, Settled
  <2> QED
    BY <1>16, <2>1, <2>2, WakingKept
<1>17. CASE FinishTurn
  <2>1. UNCHANGED <<phase, unsent, nextTurn, nextStep>>
    BY <1>17 DEF FinishTurn, inboxVars
  <2>2. CASE result = "drain" /\ HasPending
    BY <1>1, <1>17, <2>2 DEF FinishTurn, TakeCharge
  <2>3. CASE ~(result = "drain" /\ HasPending)
    <3>1. UNCHANGED <<cause, wakeRequested, awaited>> /\ Suspend /\ DriverNext
      BY <1>17, <2>3 DEF FinishTurn
    <3> QED
      BY <1>0, <1>2, <1>16, <2>1, <3>1
  <2>4. QED
    BY <2>2, <2>3
<1>18. CASE Retire
  <2>1. /\ UNCHANGED <<unsent, awaited, nextTurn, nextStep>> /\ stack = <<>>
        /\ phase' = "idle" /\ cause' = "none"
        /\ wakeRequested => Push(Frame("replay", "none"))
    BY <1>18 DEF Retire, inboxVars, Settled
  <2>2. CASE wakeRequested
    <3>1. WillWake(Frame("replay", "none"))'
      BY <2>1 DEF WillWake, Frame
    <3>2. Waking'
      BY <2>1, <2>2, <3>1, WakingPushed, FrameTypes
    <3> QED
      BY <1>0, <2>1, <3>2 DEF WakeInv
  <2>3. CASE ~wakeRequested
    <3>1. ~Waking
      BY <2>1 DEF Waking
    <3> QED
      BY <1>0, <2>1, <2>3, <3>1 DEF WakeInv
  <2> QED
    BY <2>2, <2>3
<1>19. CASE Driver /\ ~FinishTurn /\ ~Retire
  <2>1. UNCHANGED <<phase, cause, wakeRequested, awaited, unsent>>
    BY <1>19 DEF Driver, RefuseTurn, OpenTurn, FirstClaim, PreStep,
       EndAtDecision, EnterStep, LogMessage, BeginStep, Request, Recover, Tools,
       EndStep, AfterStep, Stopping, SameTurn, phaseVars, history
  <2>2. (\E target : Claim(target)) \/ UNCHANGED inboxVars
    BY <1>19 DEF Driver, RefuseTurn, OpenTurn, FirstClaim, PreStep,
       EndAtDecision, EnterStep, LogMessage, BeginStep, Request, Recover, Tools,
       EndStep, AfterStep, Stopping, FailTurn, CloseTurn, inboxVars
  <2>3. Pending' \subseteq Pending
    BY <1>0, <2>2, ClaimSet DEF inboxVars
  <2>4. stack' = stack \/ (Suspend /\ DriverNext)
    BY <1>19 DEF Driver, RefuseTurn, OpenTurn, FirstClaim, PreStep,
       EndAtDecision, EnterStep, LogMessage, BeginStep, Request, Recover, Tools,
       EndStep, AfterStep, Stopping
  <2>5. Waking => Waking'
    BY <1>16, <2>1, <2>4, WakingKept
  <2>6. QED
    BY <1>2, <2>1, <2>3, <2>5
<1>20. QED
  BY <1>3, <1>5, <1>6, <1>7, <1>8, <1>9, <1>12, <1>13, <1>14, <1>15, <1>17, <1>18, <1>19
  DEF Next, Caller, Resume

LEMMA InitWake == Init => WakeInv /\ DisposalLatchesNothing
  BY DEF Init, WakeInv, DisposalLatchesNothing

\* A waking message that no live driver could take is never stranded: as long
\* as it is pending a wake is under way for it, however sends, cancels and
\* maintenance interleave with a driver that retires.
THEOREM WakeNeverLost == Spec => []NoLostWake
<1>1. Init => TypeOK /\ PhaseInv /\ WakeInv /\ DisposalLatchesNothing
  BY InitType, InitTrace, InitWake
<1>2. TypeOK /\ PhaseInv /\ WakeInv /\ DisposalLatchesNothing /\ [Next]_vars
        => TypeOK' /\ PhaseInv' /\ WakeInv' /\ DisposalLatchesNothing'
  BY TypeStep, PhaseStep, WakeStep
<1>3. WakeInv => NoLostWake
  BY DEF WakeInv, Waking, NoLostWake
<1>4. QED
  BY <1>1, <1>2, <1>3, PTL DEF Spec

\* While the current activity is being disposed of no wake is latched, so its
\* convergence starts no driver of its own.
THEOREM DisposalNeverHoldsWake == Spec => []DisposalLatchesNothing
<1>1. Init => TypeOK /\ PhaseInv /\ WakeInv /\ DisposalLatchesNothing
  BY InitType, InitTrace, InitWake
<1>2. TypeOK /\ PhaseInv /\ WakeInv /\ DisposalLatchesNothing /\ [Next]_vars
        => TypeOK' /\ PhaseInv' /\ WakeInv' /\ DisposalLatchesNothing'
  BY TypeStep, PhaseStep, WakeStep
<1>3. QED
  BY <1>1, <1>2, PTL DEF Spec

-----------------------------------------------------------------------------
(* Every message is in one place.                                          *)

\* A place that is emptied or shortened holds every message at most once still.
LEMMA OnceShrinks ==
  ASSUME TypeOK, OnceInv, TurnsInv,
         UNCHANGED <<unsent, ordinary, delivered, turn>>,
         pc' = "turnStarted" => pc = "turnStarted",
         ToSet(nextTurn') \subseteq ToSet(nextTurn), IsInjective(nextTurn'),
         ToSet(nextStep') \subseteq ToSet(nextStep), IsInjective(nextStep'),
         ToSet(claimed') \subseteq ToSet(claimed), IsInjective(claimed')
  PROVE  OnceInv' /\ TurnsInv'
<1>1. OnceInv'
  BY DEF OnceInv, Held
<1>2. TurnsInv'
  BY DEF TurnsInv
<1> QED
  BY <1>1, <1>2

\* A message that is sent leaves its caller for one of the lists.
LEMMA OnceSent ==
  ASSUME TypeOK, OnceInv, TurnsInv, NEW m \in Messages,
         NEW target \in {"next-turn", "next-step"}, NEW wakeup \in BOOLEAN,
         Send(m, target, wakeup)
  PROVE  OnceInv' /\ TurnsInv'
<1>1. /\ m \in unsent /\ unsent' = unsent \ {m}
      /\ UNCHANGED <<claimed, delivered, turn, pc>>
  BY DEF Send, phaseVars, driverVars
<1>2. \/ /\ nextTurn' = Append(nextTurn, m) /\ nextStep' = nextStep
         /\ ordinary' = ordinary \cup {m}
      \/ /\ nextStep' = Append(nextStep, m) /\ nextTurn' = nextTurn
         /\ ordinary' = ordinary
  BY DEF Send
<1>3. m \notin Held /\ delivered[m] = 0
  BY <1>1 DEF OnceInv
<1>4. nextTurn \in Seq(Messages) /\ nextStep \in Seq(Messages)
  BY DEF TypeOK, InboxType
<1>5. CASE /\ nextTurn' = Append(nextTurn, m) /\ nextStep' = nextStep
           /\ ordinary' = ordinary \cup {m}
  <2>1. ToSet(nextTurn') = ToSet(nextTurn) \cup {m} /\ IsInjective(nextTurn')
    BY <1>3, <1>4, <1>5, AppendOnce DEF OnceInv, Held
  <2>2. OnceInv'
    BY <1>1, <1>3, <1>5, <2>1 DEF OnceInv, Held
  <2>3. ToSet(claimed) \cap ordinary # {} => turn # 0
    BY DEF OnceInv, TurnsInv, Held
  <2>4. m \notin ToSet(claimed) /\ m \notin ToSet(nextStep)
    BY <1>3 DEF Held
  <2>5. TurnsInv'
    BY <1>1, <1>3, <1>5, <2>3, <2>4 DEF TurnsInv
  <2> QED
    BY <2>2, <2>5
<1>6. CASE /\ nextStep' = Append(nextStep, m) /\ nextTurn' = nextTurn
           /\ ordinary' = ordinary
  <2>1. ToSet(nextStep') = ToSet(nextStep) \cup {m} /\ IsInjective(nextStep')
    BY <1>3, <1>4, <1>6, AppendOnce DEF OnceInv, Held
  <2>2. OnceInv'
    BY <1>1, <1>3, <1>6, <2>1 DEF OnceInv, Held
  <2>3. TurnsInv'
    BY <1>1, <1>6, <2>1 DEF TurnsInv
  <2> QED
    BY <2>2, <2>3
<1> QED
  BY <1>2, <1>5, <1>6

\* A claim moves messages from the lists to the step; the one prompt it may take
\* is the first ordinary message of a turn that has just started.
LEMMA OnceClaimed ==
  ASSUME TypeOK, OnceInv, TurnsInv, NEW target, Claim(target), SameTurn,
         UNCHANGED delivered, target = "next-turn" => pc = "turnStarted"
  PROVE  OnceInv' /\ TurnsInv'
<1>. DEFINE n == IF target = "next-turn" /\ nextTurn # <<>> THEN 1 ELSE 0
            a == SubSeq(nextTurn, 1, n)
            b == SubSeq(nextTurn, n + 1, Len(nextTurn))
<1>1. nextTurn \in Seq(Messages) /\ nextStep \in Seq(Messages)
  BY DEF TypeOK, InboxType
<1>2. /\ claimed' = nextStep \o a /\ nextTurn' = b /\ nextStep' = <<>>
      /\ pc' = "preStep" /\ UNCHANGED <<unsent, ordinary, turn>>
  BY DEF Claim, SameTurn
<1>3. n \in 0 .. Len(nextTurn) /\ n <= 1 /\ (n = 1 => pc = "turnStarted")
  BY <1>1
<1>4. n = 0 => a = <<>>
  BY <1>1
<1>. HIDE DEF n
<1>5. /\ a \in Seq(Messages) /\ b \in Seq(Messages)
      /\ ToSet(a) \subseteq ToSet(nextTurn) /\ ToSet(b) \subseteq ToSet(nextTurn)
      /\ \A x, y \in ToSet(a) : x = y
      /\ IsInjective(a) /\ IsInjective(b) /\ ToSet(a) \cap ToSet(b) = {}
  BY <1>1, <1>3, SplitOnce DEF OnceInv
<1>. HIDE DEF a, b
<1>6. /\ ToSet(claimed') = ToSet(nextStep) \cup ToSet(a)
      /\ IsInjective(claimed')
  BY <1>1, <1>2, <1>5, ConcatOnce DEF OnceInv
<1>7. ToSet(nextStep') = {} /\ IsInjective(nextStep')
  BY <1>2 DEF ToSet, IsInjective
<1>8. OnceInv'
  BY <1>2, <1>5, <1>6, <1>7 DEF OnceInv, Held
<1>9. TurnsInv'
  <2>1. ToSet(a) # {} => pc = "turnStarted"
    BY <1>3, <1>4 DEF ToSet
  <2>2. ToSet(claimed') \cap ordinary = ToSet(a) \cap ordinary
    BY <1>6 DEF TurnsInv
  <2>3. \A x \in Messages : delivered[x] \in Nat /\ turn \in Nat
    BY DEF TypeOK, HistoryType, PhaseType
  <2>4. pc = "turnStarted" => \A x \in Messages : delivered[x] # turn
    BY <2>3 DEF TurnsInv
  <2>5. ordinary \subseteq Messages
    BY DEF TypeOK, HistoryType
  <2> QED
    BY <1>2, <1>5, <1>7, <2>1, <2>2, <2>4, <2>5 DEF TurnsInv
<1> QED
  BY <1>8, <1>9

\* A message that is logged leaves the batch, and is of the current turn.
LEMMA OnceLogged ==
  ASSUME TypeOK, OnceInv, TurnsInv, LogMessage
  PROVE  OnceInv' /\ TurnsInv'
<1>. DEFINE m == Head(claimed)
<1>1. claimed \in Seq(Messages) /\ claimed # <<>>
  BY DEF TypeOK, InboxType, LogMessage
<1>2. /\ m \in ToSet(claimed) /\ ToSet(claimed') \subseteq ToSet(claimed)
      /\ IsInjective(claimed') /\ m \notin ToSet(claimed')
  BY <1>1, TailOnce DEF OnceInv, LogMessage
<1>3. /\ UNCHANGED <<nextTurn, nextStep, unsent, ordinary, turn>>
      /\ pc' = pc /\ pc # "turnStarted"
      /\ delivered' = [delivered EXCEPT ![m] = turn]
  BY DEF LogMessage, SameTurn, AwaitedTurn, inboxVars
<1>4. m \in Messages
  BY <1>1
<1>5. delivered \in [Messages -> Nat] /\ turn \in Nat /\ ordinary \subseteq Messages
  BY DEF TypeOK, HistoryType, PhaseType
<1>. HIDE DEF m
<1>6. /\ delivered'[m] = turn
      /\ \A x \in Messages : x # m => delivered'[x] = delivered[x]
  BY <1>3, <1>4, <1>5
<1>7. \A x \in ToSet(nextTurn) \cup ToSet(nextStep) \cup ToSet(claimed) : x \in Messages
  BY DEF TypeOK, InboxType, ToSet
<1>8. unsent \subseteq Messages
  BY DEF TypeOK, HistoryType
<1>9. OnceInv'
  BY <1>2, <1>3, <1>6, <1>7, <1>8 DEF OnceInv, Held
<1>10. TurnsInv'
  <2>1. \A x \in Messages : delivered'[x] <= turn
    BY <1>5, <1>6 DEF TurnsInv
  <2>2. ToSet(claimed') \cap ordinary # {} => m \notin ordinary
    BY <1>2 DEF TurnsInv
  <2>3. ToSet(claimed') \cap ordinary # {} => \A x \in ordinary : delivered'[x] # turn
    BY <1>2, <1>5, <1>6, <2>2 DEF TurnsInv
  <2>4. ASSUME NEW x \in ordinary, NEW y \in ordinary, x # y, delivered'[x] # 0
        PROVE  delivered'[x] # delivered'[y]
    <3>1. CASE x = m
      <4>1. delivered[y] # turn
        BY <1>2, <2>4, <3>1 DEF TurnsInv
      <4> QED
        BY <1>5, <1>6, <2>4, <3>1, <4>1
    <3>2. CASE y = m
      <4>1. delivered[x] # turn
        BY <1>2, <2>4, <3>2 DEF TurnsInv
      <4> QED
        BY <1>5, <1>6, <2>4, <3>2, <4>1
    <3>3. CASE x # m /\ y # m
      BY <1>5, <1>6, <2>4, <3>3 DEF TurnsInv
    <3> QED
      BY <3>1, <3>2, <3>3
  <2> QED
    BY <1>2, <1>3, <2>1, <2>3, <2>4 DEF TurnsInv
<1> QED
  BY <1>9, <1>10

\* No step of the driver or of a caller puts a message in two places.
LEMMA OnceStep == TypeOK /\ OnceInv /\ TurnsInv /\ [Next]_vars => OnceInv' /\ TurnsInv'
<1>. SUFFICES ASSUME TypeOK, OnceInv, TurnsInv, [Next]_vars
              PROVE  OnceInv' /\ TurnsInv'
  OBVIOUS
<1>. USE DEF AwaitedTurn
<1>1. ToSet(<<>>) = {} /\ IsInjective(<<>>)
  BY DEF ToSet, IsInjective
<1>2. ASSUME UNCHANGED <<unsent, ordinary, delivered, turn>>,
             pc' = "turnStarted" => pc = "turnStarted",
             nextTurn' = nextTurn \/ nextTurn' = <<>>,
             nextStep' = nextStep \/ nextStep' = <<>>,
             claimed' = claimed \/ claimed' = <<>>
      PROVE  OnceInv' /\ TurnsInv'
  <2>1. /\ ToSet(nextTurn') \subseteq ToSet(nextTurn) /\ IsInjective(nextTurn')
        /\ ToSet(nextStep') \subseteq ToSet(nextStep) /\ IsInjective(nextStep')
    BY <1>1, <1>2 DEF OnceInv
  <2>2. ToSet(claimed') \subseteq ToSet(claimed) /\ IsInjective(claimed')
    BY <1>1, <1>2 DEF OnceInv
  <2> QED
    BY <1>2, <2>1, <2>2, OnceShrinks
<1>3. ASSUME NEW m \in Messages, NEW target \in {"next-turn", "next-step"},
             NEW wakeup \in BOOLEAN, Send(m, target, wakeup)
      PROVE  OnceInv' /\ TurnsInv'
  BY <1>3, OnceSent
<1>4. ASSUME NEW c \in {"user", "disposed"}, Cancel(c) \/ CancelKeeping(c)
      PROVE  OnceInv' /\ TurnsInv'
  BY <1>2, <1>4 DEF Cancel, CancelKeeping, SameDriver, inboxVars, driverVars
<1>4a. CASE ClearPrompts \/ FinishCancel
  BY <1>2, <1>4a DEF ClearPrompts, FinishCancel, SameDriver, inboxVars, driverVars
<1>5. ASSUME NEW i \in DOMAIN nextTurn \cup DOMAIN nextStep, RemovePending(i)
      PROVE  OnceInv' /\ TurnsInv'
  <2>1. nextTurn \in Seq(Messages) /\ nextStep \in Seq(Messages)
    BY DEF TypeOK, InboxType
  <2>2. /\ ToSet(nextTurn') \subseteq ToSet(nextTurn) /\ IsInjective(nextTurn')
        /\ ToSet(nextStep') \subseteq ToSet(nextStep) /\ IsInjective(nextStep')
    BY <1>5, <2>1, RemoveAtOnce DEF RemovePending, OnceInv
  <2>3. UNCHANGED <<unsent, ordinary, delivered, turn, pc, claimed>>
    BY <1>5 DEF RemovePending, phaseVars, driverVars, history
  <2>4. IsInjective(claimed)
    BY DEF OnceInv
  <2> QED
    BY <2>2, <2>3, <2>4, OnceShrinks
<1>6. CASE RunMaintenance \/ Wake \/ Replay \/ MaintenanceDone \/ UNCHANGED vars
  BY <1>2, <1>6 DEF RunMaintenance, Wake, Replay, MaintenanceDone, WakeDriver, StartDriver,
     vars, phaseVars, inboxVars, driverVars, history
<1>7. CASE OpenTurn
  <2>1. /\ UNCHANGED <<nextTurn, nextStep, claimed, unsent, ordinary, delivered>>
        /\ turn' = turn + 1
    BY <1>7 DEF OpenTurn, inboxVars, history
  <2>2. delivered \in [Messages -> Nat] /\ turn \in Nat /\ ordinary \subseteq Messages
    BY DEF TypeOK, HistoryType, PhaseType
  <2>3. OnceInv'
    BY <2>1 DEF OnceInv, Held
  <2>4. \A x \in Messages : delivered[x] < turn' /\ delivered[x] # turn'
    BY <2>1, <2>2 DEF TurnsInv
  <2>5. TurnsInv'
    <3>1. \A x \in Messages : delivered[x] <= turn'
      BY <2>1, <2>2 DEF TurnsInv
    <3> QED
      BY <2>1, <2>2, <2>4, <3>1 DEF TurnsInv
  <2> QED
    BY <2>3, <2>5
<1>8. CASE LogMessage
  BY <1>8, OnceLogged
<1>9. ASSUME NEW target, Claim(target), SameTurn, UNCHANGED delivered,
             target = "next-turn" => pc = "turnStarted"
      PROVE  OnceInv' /\ TurnsInv'
  BY <1>9, OnceClaimed
<1>10. ASSUME NEW reason, NEW next, CloseTurn(reason, next), SameTurn, UNCHANGED delivered
       PROVE  OnceInv' /\ TurnsInv'
  BY <1>2, <1>10 DEF CloseTurn, SameTurn, inboxVars
<1>11. CASE FirstClaim
  BY <1>9, <1>10, <1>11 DEF FirstClaim, FailTurn
<1>12. CASE EndAtDecision
  BY <1>10, <1>12 DEF EndAtDecision, FailTurn
<1>13. CASE EnterStep
  BY <1>2, <1>10, <1>13 DEF EnterStep, FailTurn, SameTurn, inboxVars
<1>14. CASE AfterStep \/ Stopping
  BY <1>2, <1>9, <1>10, <1>14 DEF AfterStep, Stopping, FailTurn, SameTurn, inboxVars
<1>15. CASE \/ RefuseTurn \/ PreStep \/ BeginStep \/ Request \/ Recover \/ Tools
            \/ EndStep \/ FinishTurn \/ Retire
  BY <1>2, <1>15 DEF RefuseTurn, PreStep, BeginStep, Request, Recover, Tools, EndStep,
     FinishTurn, Retire, StepReturns, SameTurn, phaseVars, inboxVars, history
<1> QED
  BY <1>3, <1>4, <1>4a, <1>5, <1>6, <1>7, <1>8, <1>11, <1>12, <1>13, <1>14, <1>15
  DEF Next, Driver, Caller, Resume

\* At first every message is with its caller.
LEMMA InitOnce == Init => OnceInv /\ TurnsInv
  BY LastTurnAssumption DEF Init, OnceInv, TurnsInv, Held, ToSet, IsInjective

\* No message is in two places or processed twice, and each turn has at most one
\* ordinary message, whatever callers send, cancel or remove meanwhile.
THEOREM EveryMessageOnce == Spec => []HandledOnce
<1>1. Init => TypeOK /\ OnceInv /\ TurnsInv
  BY InitType, InitOnce
<1>2. TypeOK /\ OnceInv /\ TurnsInv /\ [Next]_vars => TypeOK' /\ OnceInv' /\ TurnsInv'
  BY TypeStep, OnceStep
<1>3. TypeOK /\ OnceInv /\ TurnsInv => HandledOnce
  <2> SUFFICES ASSUME TypeOK, OnceInv, TurnsInv PROVE HandledOnce
    OBVIOUS
  <2>. DEFINE pending == nextTurn \o nextStep
              held == pending \o claimed
  <2>1. /\ nextTurn \in Seq(Messages) /\ nextStep \in Seq(Messages)
        /\ claimed \in Seq(Messages)
    BY DEF TypeOK, InboxType
  <2>2. /\ pending \in Seq(Messages) /\ IsInjective(pending)
        /\ ToSet(pending) = ToSet(nextTurn) \cup ToSet(nextStep)
    BY <2>1, ConcatOnce DEF OnceInv
  <2>. HIDE DEF pending
  <2>3. ToSet(pending) \cap ToSet(claimed) = {} /\ IsInjective(claimed)
    BY <2>2 DEF OnceInv
  <2>4. IsInjective(held) /\ ToSet(held) = ToSet(pending) \cup ToSet(claimed)
    BY <2>1, <2>2, <2>3, ConcatOnce
  <2>. HIDE DEF held
  <2>5. \A m \in ToSet(held) : m \notin unsent /\ delivered[m] = 0
    BY <2>2, <2>4 DEF OnceInv, Held
  <2>6. /\ \A m \in unsent : delivered[m] = 0
        /\ \A m, n \in ordinary :
             m # n /\ delivered[m] # 0 => delivered[m] # delivered[n]
    BY DEF OnceInv, TurnsInv
  <2> QED
    BY <2>4, <2>5, <2>6 DEF HandledOnce, held, pending
<1> QED
  BY <1>1, <1>2, <1>3, PTL DEF Spec

-----------------------------------------------------------------------------
(* Cancellation.                                                           *)

\* Only EnterStep opens a step, and it looks at the signal first.
LEMMA OpeningStep ==
  TypeOK /\ PhaseInv /\ TraceInv /\ [Next]_vars
    => (trace.openStep = 0 /\ trace'.openStep # 0 => ~Aborted)
<1>. SUFFICES ASSUME TypeOK, PhaseInv, TraceInv, [Next]_vars,
                     trace.openStep = 0, trace'.openStep # 0
              PROVE  ~Aborted
  OBVIOUS
<1>1. TraceInv'
  BY TraceStep
<1>2. pc' \in StepPoints
  BY <1>1 DEF TraceInv
<1>3. pc \notin StepPoints
  BY DEF TraceInv
<1>4. EnterStep /\ pc' = "stepStarted"
  BY <1>2, <1>3 DEF StepPoints, Next, Driver, Caller, vars, phaseVars,
     driverVars, Send, Cancel, CancelKeeping, SameDriver, RemovePending, RunMaintenance,
     Resume, Wake, ClearPrompts, FinishCancel, Replay, MaintenanceDone, WakeDriver, StartDriver, RefuseTurn, OpenTurn, FirstClaim,
     PreStep, EndAtDecision, EnterStep, LogMessage, BeginStep, Request, Recover,
     Tools, EndStep, AfterStep, Stopping, FinishTurn, Retire, FailTurn,
     CloseTurn, Claim, StepReturns
<1>5. QED
  BY <1>4 DEF EnterStep, FailTurn, CloseTurn

\* Once a turn has been cancelled, at whichever await or observer, it opens
\* no further step.
THEOREM CancelledTurnOpensNoStep == Spec => CancelStopsSteps
<1>1. Init => TypeOK /\ PhaseInv /\ TraceInv
  BY InitType, InitTrace
<1>2. TypeOK /\ PhaseInv /\ TraceInv /\ [Next]_vars
        => /\ TypeOK' /\ PhaseInv' /\ TraceInv'
           /\ [trace.openStep = 0 /\ trace'.openStep # 0 => ~Aborted]_vars
  BY TypeStep, PhaseStep, TraceStep, OpeningStep
<1>3. QED
  BY <1>1, <1>2, PTL DEF Spec, CancelStopsSteps
=============================================================================
