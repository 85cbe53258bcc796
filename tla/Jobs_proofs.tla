---------------------------- MODULE Jobs_proofs ----------------------------
(***************************************************************************)
(* Theorems about the job registry, for any jobs, agents and finite set of *)
(* waits: its state is well typed, an outcome is neither lost nor told     *)
(* twice, and a disposal that has ended left nothing running unreported.   *)
(***************************************************************************)
EXTENDS Jobs, FiniteSetTheorems, TLAPS

\* The waits job.waiters stands for.
Counted(j) == {w \in Wait : wait[w].phase \in {"pending", "resolved"} /\ wait[w].job = j}

CountInv == \A j \in Job : waiters[j] = Cardinality(Counted(j))

-----------------------------------------------------------------------------
\* What the count does when one wait begins to count, ceases to, or neither.
LEMMA CountedFinite ==
  ASSUME NEW j \in Job
  PROVE  IsFiniteSet(Counted(j))
  BY JobsAssumption, FS_Subset DEF JobsAssumption, Counted

LEMMA CountAdd ==
  ASSUME wait \in [Wait -> WaitState], waiters \in [Job -> Nat], CountInv,
         NEW w \in Wait, NEW j \in Job, wait[w].phase = "none",
         wait' = [wait EXCEPT ![w] = [phase |-> "pending", job |-> j]],
         waiters' = [waiters EXCEPT ![j] = @ + 1]
  PROVE  CountInv' /\ waiters' \in [Job -> Nat]
<1>1. Counted(j)' = Counted(j) \union {w}
  BY DEF Counted
<1>2. \A k \in Job \ {j} : Counted(k)' = Counted(k)
  BY DEF Counted
<1>3. w \notin Counted(j)
  BY DEF Counted
<1>4. Cardinality(Counted(j)') = Cardinality(Counted(j)) + 1
  BY <1>1, <1>3, CountedFinite, FS_AddElement
<1>5. waiters'[j] = waiters[j] + 1 /\ \A k \in Job \ {j} : waiters'[k] = waiters[k]
  OBVIOUS
<1> QED
  BY <1>2, <1>4, <1>5 DEF CountInv

LEMMA CountRemove ==
  ASSUME wait \in [Wait -> WaitState], waiters \in [Job -> Nat], CountInv,
         NEW w \in Wait, NEW j \in Job,
         wait[w].phase \in {"pending", "resolved"}, wait[w].job = j,
         wait' = [wait EXCEPT ![w] = Over],
         waiters' = [waiters EXCEPT ![j] = @ - 1]
  PROVE  CountInv' /\ waiters' \in [Job -> Nat]
<1>1. Counted(j)' = Counted(j) \ {w}
  BY DEF Counted, Over
<1>2. \A k \in Job \ {j} : Counted(k)' = Counted(k)
  BY DEF Counted, Over
<1>3. w \in Counted(j)
  BY DEF Counted
<1>4. /\ Cardinality(Counted(j)') = Cardinality(Counted(j)) - 1
      /\ Cardinality(Counted(j)') \in Nat
  BY <1>1, <1>3, CountedFinite, FS_RemoveElement, FS_CardinalityType
<1>5. waiters'[j] = waiters[j] - 1 /\ \A k \in Job \ {j} : waiters'[k] = waiters[k]
  OBVIOUS
<1>6. CountInv'
  BY <1>2, <1>4, <1>5 DEF CountInv
<1> QED
  BY <1>4, <1>5, <1>6 DEF CountInv

LEMMA CountSame ==
  ASSUME CountInv, UNCHANGED waiters, \A j \in Job : Counted(j)' = Counted(j)
  PROVE  CountInv'
  BY DEF CountInv

LEMMA ReleaseKeepsCount ==
  ASSUME wait \in [Wait -> WaitState], NEW S, wait' = Released(S)
  PROVE  /\ \A j \in Job : Counted(j)' = Counted(j)
         /\ wait' \in [Wait -> WaitState]
<1>1. \A w \in Wait : wait[w].phase = "pending" =>
        wait[w] \in [phase : {"pending", "resolved"}, job : Job]
  BY DEF WaitState, NotBegun, Over
<1>2. \A w \in Wait :
        \/ wait'[w] = wait[w]
        \/ wait[w].phase = "pending" /\ wait'[w] = [phase |-> "resolved", job |-> wait[w].job]
  BY <1>1 DEF Released
<1>3. wait' \in [Wait -> WaitState]
  <2>1. ASSUME NEW w \in Wait
        PROVE  wait'[w] \in WaitState
    <3>1. CASE wait'[w] = wait[w]
      BY <3>1
    <3>2. CASE /\ wait[w].phase = "pending"
               /\ wait'[w] = [phase |-> "resolved", job |-> wait[w].job]
      <4>1. wait[w].job \in Job
        BY <1>1, <3>2
      <4> QED
        BY <3>2, <4>1 DEF WaitState
    <3> QED
      BY <1>2, <3>1, <3>2
  <2>2. wait' = [w \in Wait |-> wait'[w]]
    BY DEF Released
  <2> QED
    BY <2>1, <2>2
<1>4. \A j \in Job : Counted(j)' = Counted(j)
  <2>1. ASSUME NEW w \in Wait
        PROVE  /\ wait'[w].phase \in {"pending", "resolved"}
                    <=> wait[w].phase \in {"pending", "resolved"}
               /\ wait'[w].phase \in {"pending", "resolved"} => wait'[w].job = wait[w].job
    <3>1. CASE wait'[w] = wait[w]
      BY <3>1
    <3>2. CASE /\ wait[w].phase = "pending"
               /\ wait'[w] = [phase |-> "resolved", job |-> wait[w].job]
      BY <3>2
    <3> QED
      BY <1>2, <3>1, <3>2
  <2> QED
    BY <2>1 DEF Counted
<1> QED
  BY <1>3, <1>4

-----------------------------------------------------------------------------
\* Type correctness holds together with the count of the waits: without it a
\* wait that ends could take the count below zero.
LEMMA InitTypes == Init => TypeOK /\ CountInv
<1> SUFFICES ASSUME Init PROVE TypeOK /\ CountInv
  OBVIOUS
<1>1. TypeOK
  BY JobsAssumption DEF Init, TypeOK, JobsAssumption, WaitState
<1>2. \A j \in Job : Counted(j) = {}
  BY DEF Init, Counted, NotBegun
<1>3. CountInv
  BY <1>2, FS_EmptySet DEF Init, CountInv
<1> QED
  BY <1>1, <1>3

LEMMA CountUnchanged ==
  ASSUME CountInv, UNCHANGED <<wait, waiters>>
  PROVE  CountInv'
  BY DEF CountInv, Counted

LEMMA CancelTypes ==
  ASSUME TypeOK, CountInv, NEW S \in SUBSET Job, NEW T \in SUBSET S,
         CancelForTeardown(S, T), UNCHANGED waiters
  PROVE  /\ CountInv'
         /\ status' \in [Job -> {"none", "running", "stopping", "settled"}]
         /\ reported' \in [Job -> BOOLEAN]
         /\ known' \in [Job -> {"no", "unheard", "read", "claimed"}]
         /\ orphan' \subseteq Job
         /\ wait' \in [Wait -> WaitState]
<1>1. wait' = Released(T) /\ wait \in [Wait -> WaitState]
  BY DEF CancelForTeardown, TypeOK
<1>2. CountInv' /\ wait' \in [Wait -> WaitState]
  BY <1>1, ReleaseKeepsCount, CountSame
<1>3. status' \in [Job -> {"none", "running", "stopping", "settled"}]
  BY DEF CancelForTeardown, TypeOK
<1>4. reported' \in [Job -> BOOLEAN]
  BY DEF CancelForTeardown, TypeOK
<1>5. known' \in [Job -> {"no", "unheard", "read", "claimed"}] /\ orphan' \subseteq Job
  BY DEF CancelForTeardown, Claimed, TypeOK
<1> QED
  BY <1>2, <1>3, <1>4, <1>5

LEMMA SettleTypes ==
  ASSUME TypeOK, CountInv, NEW j \in Job, Settle(j)
  PROVE  TypeOK' /\ CountInv'
<1> USE DEF historyVars, lifeVars
<1>1. CASE Terminal(j)
  <2>1. UNCHANGED <<wait, waiters, status, reported, notices, known>>
    BY <1>1 DEF Settle
  <2> QED
    BY <2>1, CountUnchanged DEF Settle, TypeOK
<1>2. CASE ~Terminal(j)
  <2>1. wait' = Released({j}) /\ wait \in [Wait -> WaitState] /\ UNCHANGED waiters
    BY <1>2 DEF Settle, TypeOK
  <2>2. CountInv' /\ wait' \in [Wait -> WaitState]
    BY <2>1, ReleaseKeepsCount, CountSame
  <2>3. reported' \in [Job -> BOOLEAN]
    BY <1>2 DEF Settle, TypeOK
  <2>4. notices' \in [Job -> Nat] /\ known' \in [Job -> {"no", "unheard", "read", "claimed"}]
    BY <1>2 DEF Settle, TypeOK
  <2>5. status' \in [Job -> {"none", "running", "stopping", "settled"}]
    BY <1>2 DEF Settle, TypeOK
  <2> QED
    BY <2>2, <2>3, <2>4, <2>5 DEF Settle, TypeOK
<1> QED
  BY <1>1, <1>2

LEMMA WaitTypes ==
  ASSUME TypeOK, CountInv, NEW w \in Wait,
         WaitTimesOut(w) \/ WaitAborted(w) \/ WaitReturns(w)
  PROVE  TypeOK' /\ CountInv'
<1> USE DEF historyVars, lifeVars
<1> DEFINE j == wait[w].job
<1>1. /\ wait[w].phase \in {"pending", "resolved"} /\ wait[w].job \in Job
      /\ wait \in [Wait -> WaitState] /\ waiters \in [Job -> Nat]
  BY DEF WaitTimesOut, WaitAborted, WaitReturns, TypeOK, WaitState, NotBegun, Over
<1>2. Over \in WaitState /\ [phase |-> "resolved", job |-> j] \in WaitState
  BY <1>1 DEF WaitState
<1>3. CASE WaitTimesOut(w)
  <2>1. wait' = [wait EXCEPT ![w] = [phase |-> "resolved", job |-> j]]
    BY <1>3 DEF WaitTimesOut
  <2>2. \A k \in Job : Counted(k)' = Counted(k)
    BY <1>1, <2>1 DEF Counted
  <2>3. CountInv'
    BY <1>3, <2>2, CountSame DEF WaitTimesOut
  <2> QED
    BY <1>1, <1>2, <1>3, <2>1, <2>3 DEF WaitTimesOut, TypeOK
<1>4. CASE WaitAborted(w)
  <2>1. CountInv' /\ waiters' \in [Job -> Nat]
    BY <1>1, <1>4, CountRemove DEF WaitAborted
  <2> QED
    BY <1>1, <1>2, <1>4, <2>1 DEF WaitAborted, TypeOK
<1>5. CASE WaitReturns(w)
  <2>1. CountInv' /\ waiters' \in [Job -> Nat]
    BY <1>1, <1>5, CountRemove DEF WaitReturns
  <2>2. wait' \in [Wait -> WaitState]
    BY <1>1, <1>2, <1>5 DEF WaitReturns
  <2>3. reported' \in [Job -> BOOLEAN]
    BY <1>1, <1>5 DEF WaitReturns, TypeOK
  <2>4. known' \in [Job -> {"no", "unheard", "read", "claimed"}]
    BY <1>1, <1>5 DEF WaitReturns, Claimed, TypeOK
  <2> QED
    BY <1>5, <2>1, <2>2, <2>3, <2>4 DEF WaitReturns, TypeOK
<1> QED
  BY <1>3, <1>4, <1>5

LEMMA DisposalTypes ==
  ASSUME TypeOK, CountInv,
         DisposeService \/ ServiceDown \/ \E o \in Owner : DisposeOwner(o) \/ OwnerGone(o)
  PROVE  TypeOK' /\ CountInv'
<1> USE DEF historyVars, lifeVars
<1>1. CASE DisposeService
  <2>1. PICK T \in SUBSET store : CancelForTeardown(store, T)
    BY <1>1 DEF DisposeService
  <2>2. store \in SUBSET Job /\ UNCHANGED waiters
    BY <1>1 DEF DisposeService, TypeOK
  <2> QED
    BY <1>1, <2>1, <2>2, CancelTypes DEF DisposeService, TypeOK
<1>2. CASE ServiceDown
  BY <1>2, CountUnchanged DEF ServiceDown, TypeOK
<1>3. ASSUME NEW o \in Owner, DisposeOwner(o) PROVE TypeOK' /\ CountInv'
  <2> DEFINE mine == IF o \in cleanups THEN Owned(o) ELSE {}
  <2>1. PICK T \in SUBSET mine : CancelForTeardown(mine, T)
    BY <1>3 DEF DisposeOwner
  <2>2. mine \in SUBSET Job
    BY DEF Owned, TypeOK
  <2>3. UNCHANGED waiters /\ captured' = [captured EXCEPT ![o] = mine]
    BY <1>3 DEF DisposeOwner
  <2> HIDE DEF mine
  <2> QED
    BY <1>3, <2>1, <2>2, <2>3, CancelTypes DEF DisposeOwner, TypeOK
<1>4. ASSUME NEW o \in Owner, OwnerGone(o) PROVE TypeOK' /\ CountInv'
  BY <1>4, CountUnchanged DEF OwnerGone, TypeOK
<1> QED
  BY <1>1, <1>2, <1>3, <1>4

LEMMA NextTypes ==
  ASSUME TypeOK, CountInv, [Next]_vars
  PROVE  TypeOK' /\ CountInv'
<1> USE DEF historyVars, lifeVars
<1>1. ASSUME NEW j \in Job, NEW o \in Owner \union {NoOwner}, Start(j, o)
      PROVE  TypeOK' /\ CountInv'
  BY <1>1, CountUnchanged DEF Start, TypeOK
<1>2. ASSUME NEW j \in Job, ProducerEnds(j) PROVE TypeOK' /\ CountInv'
  BY <1>2, CountUnchanged DEF ProducerEnds, TypeOK
<1>3. ASSUME NEW j \in Job, Kill(j) PROVE TypeOK' /\ CountInv'
  <2>1. status' \in [Job -> {"none", "running", "stopping", "settled"}]
    BY <1>3 DEF Kill, TypeOK
  <2>2. known' \in [Job -> {"no", "unheard", "read", "claimed"}]
    BY <1>3 DEF Kill, TypeOK, KnownByReading, Claimed
  <2> QED
    BY <1>3, <2>1, <2>2, CountUnchanged DEF Kill, TypeOK
<1>4. ASSUME NEW j \in Job, Read(j) PROVE TypeOK' /\ CountInv'
  BY <1>4, CountUnchanged DEF Read, KnownByReading, TypeOK
<1>5. ASSUME NEW w \in Wait, NEW j \in Job, BeginWait(w, j) PROVE TypeOK' /\ CountInv'
  <2>1. CountInv' /\ waiters' \in [Job -> Nat]
    BY <1>5, CountAdd DEF BeginWait, TypeOK
  <2>2. wait' \in [Wait -> WaitState]
    BY <1>5 DEF BeginWait, TypeOK, WaitState
  <2> QED
    BY <1>5, <2>1, <2>2 DEF BeginWait, TypeOK
<1>6. ASSUME Detach \/ Attach PROVE TypeOK' /\ CountInv'
  BY <1>6, CountUnchanged DEF Detach, Attach, jobVars, TypeOK
<1>7. CASE UNCHANGED vars
  BY <1>7, CountUnchanged DEF vars, jobVars, TypeOK
<1> QED
  BY <1>1, <1>2, <1>3, <1>4, <1>5, <1>6, <1>7, SettleTypes, WaitTypes, DisposalTypes DEF Next

\* The state of the registry is well typed: in particular a job's count of waits
\* never falls below zero, whatever ends a wait (jobs-local/src/index.ts:239-275).
THEOREM TypeCorrect == Spec => []TypeOK
<1>1. Spec => [](TypeOK /\ CountInv)
  BY InitTypes, NextTypes, PTL DEF Spec
<1> QED
  BY <1>1, PTL

-----------------------------------------------------------------------------
\* What holds of a job that runs: no notice was sent, and it is reported exactly
\* when a kill or a teardown has claimed its end.
RunningInv ==
  \A j \in Job : ~Terminal(j) =>
    /\ notices[j] = 0
    /\ known[j] \in {"no", "claimed"}
    /\ reported[j] <=> known[j] = "claimed"

\* A notice is sent once, when no wait counts, and nobody claims the end after.
NoticeInv ==
  \A j \in Job : notices[j] # 0 =>
    /\ notices[j] = 1
    /\ known[j] # "claimed"
    /\ Counted(j) = {}

\* A settlement releases every wait for the job.
PendingInv ==
  \A w \in Wait : wait[w].phase = "pending" => ~Terminal(wait[w].job)

OutcomeInv == RunningInv /\ NoticeInv /\ PendingInv /\ OutcomeReachesSomeone

LEMMA InitOutcome == Init => OutcomeInv
  BY DEF Init, OutcomeInv, RunningInv, NoticeInv, PendingInv, OutcomeReachesSomeone, Terminal,
         NotBegun

\* Steps that leave what the invariant speaks of alone.
LEMMA OutcomeUnchanged ==
  ASSUME OutcomeInv, UNCHANGED <<status, notices, known, reported, wait>>
  PROVE  OutcomeInv'
  BY DEF OutcomeInv, RunningInv, NoticeInv, PendingInv, OutcomeReachesSomeone, Terminal, Counted

LEMMA StartOutcome ==
  ASSUME TypeOK, OutcomeInv, NEW j \in Job, NEW o, Start(j, o)
  PROVE  OutcomeInv'
<1>1. \A k \in Job : Terminal(k)' <=> Terminal(k)
  BY DEF Start, Terminal, TypeOK
<1>2. UNCHANGED <<notices, known, reported, wait>>
  BY DEF Start, historyVars
<1>3. \A w \in Wait : wait[w].phase = "pending" => wait[w].job \in Job
  BY DEF TypeOK, WaitState, NotBegun, Over
<1> QED
  BY <1>1, <1>2, <1>3
  DEF OutcomeInv, RunningInv, NoticeInv, PendingInv, OutcomeReachesSomeone, Counted

LEMMA SettleOutcome ==
  ASSUME TypeOK, CountInv, OutcomeInv, NEW j \in Job, Settle(j), ~Terminal(j)
  PROVE  OutcomeInv'
<1>1. /\ notices[j] = 0
      /\ known[j] \in {"no", "claimed"}
      /\ reported[j] <=> known[j] = "claimed"
  BY DEF OutcomeInv, RunningInv
<1>2. /\ \A k \in Job : Terminal(k)' <=> (Terminal(k) \/ k = j)
      /\ \A k \in Job \ {j} : /\ notices'[k] = notices[k]
                              /\ known'[k] = known[k]
                              /\ reported'[k] = reported[k]
  BY DEF Settle, Terminal, TypeOK
<1>3. reported'[j] <=> (reported[j] \/ waiters[j] > 0)
  BY DEF Settle, TypeOK
<1>4. notices'[j] = IF Heard(j) /\ ~reported'[j] THEN 1 ELSE 0
  BY <1>1 DEF Settle, TypeOK
<1>5. known'[j] = IF known[j] = "no" /\ ~Heard(j) THEN "unheard" ELSE known[j]
  BY DEF Settle, TypeOK
<1>6. wait' = Released({j}) /\ wait \in [Wait -> WaitState]
  BY DEF Settle, TypeOK
<1>7. \A k \in Job : Counted(k)' = Counted(k)
  BY <1>6, ReleaseKeepsCount
<1>8. \A w \in Wait :
        IF wait[w].phase = "pending" /\ wait[w].job = j
          THEN wait'[w].phase = "resolved" /\ wait'[w].job = j
          ELSE wait'[w] = wait[w]
  BY <1>6 DEF Released
<1>9. waiters[j] > 0 <=> Counted(j) # {}
  <2>1. waiters[j] = Cardinality(Counted(j)) /\ IsFiniteSet(Counted(j))
    BY CountedFinite DEF CountInv
  <2>2. waiters[j] = 0 <=> Counted(j) = {}
    BY <2>1, FS_EmptySet
  <2> QED
    BY <2>2 DEF TypeOK
<1>10. RunningInv'
  BY <1>2 DEF OutcomeInv, RunningInv
<1>11. NoticeInv'
  <2>1. ASSUME notices'[j] # 0
        PROVE  notices'[j] = 1 /\ known'[j] # "claimed" /\ Counted(j)' = {}
    BY <2>1, <1>1, <1>3, <1>4, <1>5, <1>7, <1>9
  <2> QED
    BY <2>1, <1>2, <1>7 DEF OutcomeInv, NoticeInv
<1>12. PendingInv'
  <2>1. \A w \in Wait : wait[w].phase = "pending" => wait[w].job \in Job
    BY <1>6 DEF WaitState, NotBegun, Over
  <2> QED
    BY <2>1, <1>2, <1>8 DEF OutcomeInv, PendingInv
<1>13. OutcomeReachesSomeone'
  <2>1. ASSUME NEW w \in Wait, wait[w].phase = "resolved"
        PROVE  wait'[w] = wait[w]
    BY <2>1, <1>8
  <2>2. ASSUME waiters[j] > 0
        PROVE  \E w \in Wait : wait'[w].phase = "resolved" /\ wait'[w].job = j
    <3>1. PICK w \in Wait : wait[w].phase \in {"pending", "resolved"} /\ wait[w].job = j
      BY <2>2, <1>9 DEF Counted
    <3> QED
      BY <3>1, <1>8
  <2>3. \/ notices'[j] > 0
        \/ known'[j] # "no"
        \/ \E w \in Wait : wait'[w].phase = "resolved" /\ wait'[w].job = j
    BY <2>2, <1>1, <1>3, <1>4, <1>5
  <2> QED
    BY <2>1, <2>3, <1>2 DEF OutcomeInv, OutcomeReachesSomeone
<1> QED
  BY <1>10, <1>11, <1>12, <1>13 DEF OutcomeInv

LEMMA ReadOutcome ==
  ASSUME TypeOK, OutcomeInv, NEW j \in Job, Kill(j) \/ Read(j)
  PROVE  OutcomeInv'
<1>1. \A k \in Job : Terminal(k)' <=> Terminal(k)
  BY DEF Kill, Read, Terminal, TypeOK
<1>2. UNCHANGED <<notices, wait>>
  BY DEF Kill, Read
<1>3. /\ \A k \in Job \ {j} : known'[k] = known[k] /\ reported'[k] = reported[k]
      /\ reported'[j]
      /\ ~Terminal(j) => known'[j] = "claimed"
      /\ Terminal(j) => known'[j] # "no" /\ (known'[j] = "claimed" => known[j] = "claimed")
  BY DEF Kill, Read, KnownByReading, Claimed, TypeOK
<1>4. \A w \in Wait : wait[w].phase = "pending" => wait[w].job \in Job
  BY DEF TypeOK, WaitState, NotBegun, Over
<1>5. RunningInv'
  BY <1>1, <1>2, <1>3 DEF OutcomeInv, RunningInv
<1>6. NoticeInv'
  BY <1>1, <1>2, <1>3 DEF OutcomeInv, RunningInv, NoticeInv, Counted
<1>7. PendingInv'
  BY <1>1, <1>2, <1>4 DEF OutcomeInv, PendingInv
<1>8. OutcomeReachesSomeone'
  BY <1>1, <1>2, <1>3 DEF OutcomeInv, OutcomeReachesSomeone
<1> QED
  BY <1>5, <1>6, <1>7, <1>8 DEF OutcomeInv

LEMMA WaitOutcome ==
  ASSUME TypeOK, OutcomeInv, NEW w \in Wait,
         WaitTimesOut(w) \/ WaitAborted(w) \/ WaitReturns(w)
  PROVE  OutcomeInv'
<1> DEFINE j == wait[w].job
<1>1. /\ wait[w].phase \in {"pending", "resolved"} /\ wait[w].job \in Job
      /\ wait \in [Wait -> WaitState]
  BY DEF WaitTimesOut, WaitAborted, WaitReturns, TypeOK, WaitState, NotBegun, Over
<1>2. UNCHANGED <<status, notices>> /\ \A k \in Job : Terminal(k)' <=> Terminal(k)
  BY DEF WaitTimesOut, WaitAborted, WaitReturns, historyVars, Terminal
<1>3. \A v \in Wait \ {w} : wait'[v] = wait[v]
  BY <1>1 DEF WaitTimesOut, WaitAborted, WaitReturns
<1>4. \/ wait'[w] = [phase |-> "resolved", job |-> j]
      \/ wait'[w] = Over
  BY <1>1 DEF WaitTimesOut, WaitAborted, WaitReturns
<1>5. /\ wait'[w].phase # "pending"
      /\ wait'[w].phase = "resolved" => wait'[w].job = j
  BY <1>4 DEF Over
<1>6. \A k \in Job : Counted(k)' \subseteq Counted(k)
  BY <1>1, <1>3, <1>4 DEF Counted, Over
<1>7. PendingInv'
  BY <1>2, <1>3, <1>5 DEF OutcomeInv, PendingInv, Terminal
<1>8. CASE WaitTimesOut(w) \/ WaitAborted(w)
  <2>1. UNCHANGED <<known, reported>>
    BY <1>8 DEF WaitTimesOut, WaitAborted, historyVars
  <2>2. wait[w].phase = "pending" /\ ~Terminal(j)
    BY <1>1, <1>8 DEF WaitTimesOut, WaitAborted, OutcomeInv, PendingInv
  <2>3. RunningInv'
    BY <1>2, <2>1 DEF OutcomeInv, RunningInv
  <2>4. NoticeInv'
    BY <1>2, <1>6, <2>1 DEF OutcomeInv, NoticeInv
  <2>5. OutcomeReachesSomeone'
    BY <1>2, <1>3, <2>1, <2>2 DEF OutcomeInv, OutcomeReachesSomeone
  <2> QED
    BY <1>7, <2>3, <2>4, <2>5 DEF OutcomeInv
<1>9. CASE WaitReturns(w) /\ ~Terminal(j)
  <2>1. UNCHANGED <<known, reported>>
    BY <1>9 DEF WaitReturns
  <2>2. RunningInv'
    BY <1>2, <2>1 DEF OutcomeInv, RunningInv
  <2>3. NoticeInv'
    BY <1>2, <1>6, <2>1 DEF OutcomeInv, NoticeInv
  <2>4. OutcomeReachesSomeone'
    BY <1>2, <1>3, <1>9, <2>1 DEF OutcomeInv, OutcomeReachesSomeone
  <2> QED
    BY <1>7, <2>2, <2>3, <2>4 DEF OutcomeInv
<1>10. CASE WaitReturns(w) /\ Terminal(j)
  <2>1. /\ known'[j] = "claimed" /\ wait[w].phase = "resolved"
        /\ \A k \in Job \ {j} : known'[k] = known[k] /\ reported'[k] = reported[k]
    BY <1>1, <1>10 DEF WaitReturns, Claimed, TypeOK
  <2>2. w \in Counted(j)
    BY <2>1 DEF Counted
  <2>3. notices[j] = 0
    BY <1>1, <2>2 DEF OutcomeInv, NoticeInv
  <2>4. RunningInv'
    BY <1>2, <1>10, <2>1 DEF OutcomeInv, RunningInv
  <2>5. NoticeInv'
    BY <1>2, <1>6, <2>1, <2>3 DEF OutcomeInv, NoticeInv
  <2>6. OutcomeReachesSomeone'
    BY <1>2, <1>3, <2>1 DEF OutcomeInv, OutcomeReachesSomeone
  <2> QED
    BY <1>7, <2>4, <2>5, <2>6 DEF OutcomeInv
<1> QED
  BY <1>8, <1>9, <1>10

LEMMA BeginWaitOutcome ==
  ASSUME TypeOK, OutcomeInv, NEW w \in Wait, NEW j \in Job, BeginWait(w, j)
  PROVE  OutcomeInv'
<1>1. UNCHANGED <<status, known, reported, notices>> /\ ~Terminal(j) /\ wait[w].phase = "none"
  BY DEF BeginWait, historyVars
<1>2. /\ \A v \in Wait \ {w} : wait'[v] = wait[v]
      /\ wait'[w] = [phase |-> "pending", job |-> j]
  BY DEF BeginWait, TypeOK
<1>3. \A k \in Job \ {j} : Counted(k)' = Counted(k)
  BY <1>1, <1>2 DEF Counted
<1>4. notices[j] = 0
  BY <1>1 DEF OutcomeInv, RunningInv
<1>5. RunningInv' /\ NoticeInv'
  BY <1>1, <1>3, <1>4 DEF OutcomeInv, RunningInv, NoticeInv, Terminal
<1>6. PendingInv'
  BY <1>1, <1>2 DEF OutcomeInv, PendingInv, Terminal
<1>7. OutcomeReachesSomeone'
  BY <1>1, <1>2 DEF OutcomeInv, OutcomeReachesSomeone, Terminal
<1> QED
  BY <1>5, <1>6, <1>7 DEF OutcomeInv

LEMMA CancelOutcome ==
  ASSUME TypeOK, OutcomeInv, NEW S \in SUBSET Job, NEW T \in SUBSET S,
         CancelForTeardown(S, T), UNCHANGED notices
  PROVE  OutcomeInv'
<1> DEFINE running == {j \in S : ~Terminal(j)}
<1>1. T \subseteq running /\ wait' = Released(T) /\ wait \in [Wait -> WaitState]
  BY DEF CancelForTeardown, TypeOK
<1>2. /\ \A j \in T : Terminal(j)' /\ known'[j] = "claimed"
      /\ \A j \in running \ T : ~Terminal(j)' /\ known'[j] = "claimed" /\ reported'[j]
      /\ \A j \in Job \ running : /\ Terminal(j)' <=> Terminal(j)
                                  /\ known'[j] = known[j]
                                  /\ reported'[j] = reported[j]
  BY DEF CancelForTeardown, Claimed, Terminal, TypeOK
<1>3. \A j \in Job : Counted(j)' = Counted(j)
  BY <1>1, ReleaseKeepsCount
<1>4. \A w \in Wait :
        IF wait[w].phase = "pending" /\ wait[w].job \in T
          THEN wait'[w].phase = "resolved" /\ wait'[w].job = wait[w].job
          ELSE wait'[w] = wait[w]
  BY <1>1 DEF Released
<1>5. \A j \in running : notices[j] = 0
  BY DEF OutcomeInv, RunningInv
<1>6. RunningInv'
  BY <1>1, <1>2, <1>5 DEF OutcomeInv, RunningInv
<1>7. NoticeInv'
  BY <1>2, <1>3, <1>5 DEF OutcomeInv, NoticeInv
<1>8. PendingInv'
  <2>1. \A w \in Wait : wait[w].phase = "pending" => wait[w].job \in Job
    BY <1>1 DEF WaitState, NotBegun, Over
  <2> QED
    BY <2>1, <1>2, <1>4 DEF OutcomeInv, PendingInv
<1>9. OutcomeReachesSomeone'
  <2>1. \A w \in Wait : wait[w].phase = "resolved" => wait'[w] = wait[w]
    BY <1>4
  <2>2. \A j \in running : known'[j] # "no"
    BY <1>2
  <2> QED
    BY <1>2, <2>1, <2>2 DEF OutcomeInv, OutcomeReachesSomeone
<1> QED
  BY <1>6, <1>7, <1>8, <1>9 DEF OutcomeInv

LEMMA NextOutcome ==
  ASSUME TypeOK, CountInv, OutcomeInv, [Next]_vars
  PROVE  OutcomeInv'
<1>1. ASSUME NEW j \in Job, ProducerEnds(j) \/ (Settle(j) /\ Terminal(j)) PROVE OutcomeInv'
  BY <1>1, OutcomeUnchanged DEF ProducerEnds, Settle, historyVars
<1>2. ASSUME Detach \/ Attach PROVE OutcomeInv'
  BY <1>2, OutcomeUnchanged DEF Detach, Attach, jobVars, historyVars
<1>3. ASSUME NEW o \in Owner, DisposeOwner(o) PROVE OutcomeInv'
  <2> DEFINE mine == IF o \in cleanups THEN Owned(o) ELSE {}
  <2>1. PICK T \in SUBSET mine : CancelForTeardown(mine, T)
    BY <1>3 DEF DisposeOwner
  <2>2. mine \in SUBSET Job /\ UNCHANGED notices
    BY <1>3 DEF DisposeOwner, Owned, TypeOK
  <2> HIDE DEF mine
  <2> QED
    BY <2>1, <2>2, CancelOutcome
<1>4. CASE DisposeService
  <2>1. PICK T \in SUBSET store : CancelForTeardown(store, T)
    BY <1>4 DEF DisposeService
  <2> QED
    BY <1>4, <2>1, CancelOutcome DEF DisposeService, TypeOK
<1>5. ASSUME ServiceDown \/ \E o \in Owner : OwnerGone(o) PROVE OutcomeInv'
  BY <1>5, OutcomeUnchanged DEF ServiceDown, OwnerGone, historyVars
<1>6. CASE UNCHANGED vars
  BY <1>6, OutcomeUnchanged DEF vars, jobVars, historyVars
<1> QED
  BY <1>1, <1>2, <1>3, <1>4, <1>5, <1>6, StartOutcome, SettleOutcome, ReadOutcome, WaitOutcome,
     BeginWaitOutcome DEF Next

LEMMA OutcomeAlways == Spec => [](TypeOK /\ CountInv /\ OutcomeInv)
  BY InitTypes, NextTypes, InitOutcome, NextOutcome, PTL DEF Spec

\* A job that ends is noticed, or its end is claimed, read, about to be returned
\* by a wait, or nobody was there to hear of it (index.ts:416-440, 239-277).
THEOREM OutcomeNotLost == Spec => []OutcomeReachesSomeone
<1>1. OutcomeInv => OutcomeReachesSomeone
  BY DEF OutcomeInv
<1> QED
  BY <1>1, OutcomeAlways, PTL

\* No job is noticed twice, nor noticed when its end was claimed
\* (index.ts:417, 422, tool-jobs/src/index.ts:280).
THEOREM OutcomeNotRepeated == Spec => []NotToldTwice
<1>1. OutcomeInv /\ TypeOK => NotToldTwice
  BY DEF OutcomeInv, NoticeInv, NotToldTwice, TypeOK
<1> QED
  BY <1>1, OutcomeAlways, PTL

-----------------------------------------------------------------------------
\* What is on record, by the stage its owner has reached. A job that is not on
\* record any more has ended; one that is will be found by the cleanup of its
\* owner, is awaited by it, and is off the record when its owner is gone.
RecordInv ==
  \A j \in Job :
    /\ status[j] = "none" => owner[j] = NoOwner /\ j \notin store /\ j \notin all
    /\ ~Late(j) => \A o \in Owner : owner[j] = o =>
         /\ j \notin store => Terminal(j)
         /\ j \in store /\ life[o] = "live" => o \in cleanups
         /\ j \in store /\ life[o] = "disposing" => j \in captured[o]
         /\ life[o] = "gone" => j \notin store
    /\ service = "down" /\ j \in all => Terminal(j) /\ j \notin store

\* Only a producer that was told to stop and threw is still working when its
\* job's record is terminal.
ProducerInv == \A j \in Job : Terminal(j) => producer[j] # "working" \/ j \in orphan

DisposalInv == RecordInv /\ ProducerInv

LEMMA InitDisposal == Init => DisposalInv
  BY JobsAssumption DEF Init, DisposalInv, RecordInv, ProducerInv, Terminal, JobsAssumption

\* Steps that start no job and touch no record, owner or service.
LEMMA RecordKept ==
  ASSUME RecordInv, UNCHANGED <<owner, store, lifeVars>>,
         \A j \in Job : Terminal(j) => Terminal(j)',
         \A j \in Job : status'[j] = "none" => status[j] = "none"
  PROVE  RecordInv'
  BY DEF RecordInv, Late, lifeVars

LEMMA StartDisposal ==
  ASSUME TypeOK, DisposalInv, NEW j \in Job, NEW o \in Owner \union {NoOwner}, Start(j, o)
  PROVE  DisposalInv'
<1>1. /\ status[j] = "none" /\ status'[j] = "running"
      /\ owner'[j] = o /\ producer'[j] = "working" /\ store' = store \union {j}
      /\ o # NoOwner => life[o] = "live" /\ o \in cleanups'
      /\ cleanups \subseteq cleanups'
      /\ UNCHANGED <<life, captured, service, all, orphan>>
  BY DEF Start, TypeOK, historyVars
<1>2. \A k \in Job \ {j} : /\ status'[k] = status[k] /\ owner'[k] = owner[k]
                           /\ producer'[k] = producer[k]
  BY DEF Start, TypeOK
<1>3. j \notin all /\ j \notin store
  BY <1>1 DEF DisposalInv, RecordInv
<1>4. \A k \in Job : Late(k)' <=> Late(k)
  BY <1>1 DEF Late
<1>5. ProducerInv'
  BY <1>1, <1>2 DEF DisposalInv, ProducerInv, Terminal
<1>6. RecordInv'
  <2>1. ASSUME NEW k \in Job \ {j}
        PROVE  (k \in store' <=> k \in store) /\ (Terminal(k)' <=> Terminal(k))
    BY <1>1, <1>2 DEF Terminal
  <2> QED
    BY <2>1, <1>1, <1>2, <1>3, <1>4, JobsAssumption
    DEF DisposalInv, RecordInv, Terminal, JobsAssumption
<1> QED
  BY <1>5, <1>6 DEF DisposalInv

LEMMA JobStepDisposal ==
  ASSUME TypeOK, DisposalInv, NEW j \in Job,
         ProducerEnds(j) \/ Settle(j) \/ Kill(j) \/ Read(j)
  PROVE  DisposalInv'
<1>1. UNCHANGED <<owner, store, lifeVars, orphan>>
  BY DEF ProducerEnds, Settle, Kill, Read, historyVars
<1>2. CASE Kill(j)
  <2>1. j \in store
    BY <1>2 DEF Kill
  <2>2. status[j] # "none"
    BY <2>1 DEF DisposalInv, RecordInv
  <2>3. /\ UNCHANGED producer
        /\ \A k \in Job : /\ Terminal(k)' <=> Terminal(k)
                          /\ status'[k] = "none" => status[k] = "none"
    BY <1>2 DEF Kill, Terminal, TypeOK
  <2> QED
    BY <1>1, <2>3, RecordKept DEF DisposalInv, ProducerInv
<1>3. CASE ProducerEnds(j) \/ Read(j)
  <2>1. /\ UNCHANGED status
        /\ \A k \in Job : producer'[k] = "working" => producer[k] = "working"
    BY <1>3 DEF ProducerEnds, Read, TypeOK
  <2>2. \A k \in Job : Terminal(k)' <=> Terminal(k)
    BY <2>1 DEF Terminal
  <2> QED
    BY <1>1, <2>1, <2>2, RecordKept DEF DisposalInv, ProducerInv
<1>4. CASE Settle(j)
  <2>1. /\ producer'[j] = "delivered"
        /\ \A k \in Job \ {j} : producer'[k] = producer[k] /\ status'[k] = status[k]
        /\ status'[j] = "settled"
    BY <1>4 DEF Settle, Terminal, TypeOK
  <2>2. \A k \in Job : /\ Terminal(k) => Terminal(k)'
                       /\ k # j /\ Terminal(k)' => Terminal(k)
                       /\ status'[k] = "none" => status[k] = "none"
    BY <2>1 DEF Terminal
  <2> QED
    BY <1>1, <2>1, <2>2, RecordKept DEF DisposalInv, ProducerInv
<1> QED
  BY <1>2, <1>3, <1>4

LEMMA CancelDisposal ==
  ASSUME TypeOK, DisposalInv, NEW S \in SUBSET Job, NEW T \in SUBSET S,
         CancelForTeardown(S, T), S \subseteq store, UNCHANGED producer
  PROVE  /\ ProducerInv'
         /\ \A j \in Job : Terminal(j) => Terminal(j)'
         /\ \A j \in Job : status'[j] = "none" => status[j] = "none"
<1>1. \A j \in Job : Terminal(j)' <=> (Terminal(j) \/ j \in T)
  BY DEF CancelForTeardown, Terminal, TypeOK
<1>2. orphan' = orphan \union T
  BY DEF CancelForTeardown
<1>3. \A j \in Job : status'[j] = "none" => status[j] = "none"
  BY DEF CancelForTeardown, TypeOK
<1> QED
  BY <1>1, <1>2, <1>3 DEF DisposalInv, ProducerInv

LEMMA OwnerDisposal ==
  ASSUME TypeOK, DisposalInv, NEW o \in Owner, DisposeOwner(o)
  PROVE  DisposalInv'
<1> DEFINE mine == IF o \in cleanups THEN Owned(o) ELSE {}
<1>1. PICK T \in SUBSET mine : CancelForTeardown(mine, T)
  BY DEF DisposeOwner
<1>2. /\ UNCHANGED <<owner, store, producer, service, all>>
      /\ life[o] = "live" /\ life'[o] = "disposing" /\ captured'[o] = mine
      /\ cleanups' = cleanups \ {o}
      /\ \A p \in Owner \ {o} : life'[p] = life[p] /\ captured'[p] = captured[p]
  BY DEF DisposeOwner, TypeOK
<1>3. mine \subseteq store /\ mine \in SUBSET Job
  BY DEF Owned, TypeOK
<1>4. /\ ProducerInv'
      /\ \A j \in Job : Terminal(j) => Terminal(j)'
      /\ \A j \in Job : status'[j] = "none" => status[j] = "none"
  <2> HIDE DEF mine
  <2> QED
    BY <1>1, <1>2, <1>3, CancelDisposal
<1>5. \A j \in Job : Late(j)' <=> Late(j)
  BY <1>2 DEF Late
<1>6. \A j \in Job : ~Late(j) /\ j \in store /\ owner[j] = o => j \in mine
  BY <1>2 DEF DisposalInv, RecordInv, Owned
<1>7. RecordInv'
  <2> HIDE DEF mine
  <2> QED
    BY <1>2, <1>4, <1>5, <1>6 DEF DisposalInv, RecordInv
<1> QED
  BY <1>4, <1>7 DEF DisposalInv

LEMMA OwnerGoneDisposal ==
  ASSUME TypeOK, DisposalInv, NEW o \in Owner, OwnerGone(o)
  PROVE  DisposalInv'
<1>1. /\ UNCHANGED <<status, owner, producer, service, all, cleanups, orphan>>
      /\ life[o] = "disposing" /\ life'[o] = "gone"
      /\ store' = store \ captured[o] /\ \A j \in captured[o] : Terminal(j)
      /\ \A p \in Owner \ {o} : life'[p] = life[p] /\ captured'[p] = captured[p]
  BY DEF OwnerGone, TypeOK, historyVars
<1>2. \A j \in Job : (Late(j)' <=> Late(j)) /\ (Terminal(j)' <=> Terminal(j))
  BY <1>1 DEF Late, Terminal
<1>3. RecordInv'
  BY <1>1, <1>2 DEF DisposalInv, RecordInv
<1> QED
  BY <1>1, <1>2, <1>3 DEF DisposalInv, ProducerInv

LEMMA ServiceDisposal ==
  ASSUME TypeOK, DisposalInv, DisposeService \/ ServiceDown
  PROVE  DisposalInv'
<1>1. CASE DisposeService
  <2>1. PICK T \in SUBSET store : CancelForTeardown(store, T)
    BY <1>1 DEF DisposeService
  <2>2. /\ UNCHANGED <<owner, store, producer, life, captured, cleanups>>
        /\ service = "up" /\ service' = "disposing" /\ all' = store /\ store \in SUBSET Job
    BY <1>1 DEF DisposeService, TypeOK
  <2>3. /\ ProducerInv'
        /\ \A j \in Job : Terminal(j) => Terminal(j)'
        /\ \A j \in Job : status'[j] = "none" => status[j] = "none"
    BY <2>1, <2>2, CancelDisposal
  <2>4. \A j \in Job : ~Late(j) /\ (~Late(j)' => j \in store)
    BY <2>2 DEF Late
  <2>5. RecordInv'
    BY <2>2, <2>3, <2>4 DEF DisposalInv, RecordInv
  <2> QED
    BY <2>3, <2>5 DEF DisposalInv
<1>2. CASE ServiceDown
  <2>1. /\ UNCHANGED <<status, owner, producer, life, captured, all, orphan>>
        /\ service = "disposing" /\ service' = "down" /\ store' = {}
        /\ \A j \in all : Terminal(j)
    BY <1>2 DEF ServiceDown, historyVars
  <2>2. \A j \in Job : /\ Terminal(j)' <=> Terminal(j)
                       /\ ~Late(j)' => j \in all
    BY <2>1 DEF Late, Terminal
  <2>3. RecordInv'
    BY <2>1, <2>2 DEF DisposalInv, RecordInv
  <2> QED
    BY <2>1, <2>2, <2>3 DEF DisposalInv, ProducerInv
<1> QED
  BY <1>1, <1>2

LEMMA OtherDisposal ==
  ASSUME DisposalInv, UNCHANGED <<status, owner, producer, store, orphan>>,
         UNCHANGED <<cleanups, life, captured, service, all>>
  PROVE  DisposalInv'
  BY DEF DisposalInv, RecordInv, ProducerInv, Late, Terminal

LEMMA NextDisposal ==
  ASSUME TypeOK, DisposalInv, [Next]_vars
  PROVE  DisposalInv'
<1>1. ASSUME NEW w \in Wait,
             WaitTimesOut(w) \/ WaitAborted(w) \/ WaitReturns(w) \/ \E j \in Job : BeginWait(w, j)
      PROVE  DisposalInv'
  BY <1>1, OtherDisposal
  DEF WaitTimesOut, WaitAborted, WaitReturns, BeginWait, lifeVars, historyVars
<1>2. ASSUME Detach \/ Attach PROVE DisposalInv'
  BY <1>2, OtherDisposal DEF Detach, Attach, jobVars, historyVars
<1>3. CASE UNCHANGED vars
  BY <1>3, OtherDisposal DEF vars, jobVars, lifeVars, historyVars
<1> QED
  BY <1>1, <1>2, <1>3, StartDisposal, JobStepDisposal, OwnerDisposal, OwnerGoneDisposal,
     ServiceDisposal DEF Next

\* Where a disposal has ended, producers have stopped or are reported orphans and
\* the records are gone, whatever a producer, a kill or another disposal did
\* meanwhile (index.ts:467-500, 507-531).
THEOREM DisposalLeavesNothing == Spec => []QuietAfterDisposal
<1>1. TypeOK /\ DisposalInv => QuietAfterDisposal
  BY DEF DisposalInv, RecordInv, ProducerInv, QuietAfterDisposal, TypeOK
<1>2. Spec => [](TypeOK /\ CountInv /\ DisposalInv)
  BY InitTypes, NextTypes, InitDisposal, NextDisposal, PTL DEF Spec
<1> QED
  BY <1>1, <1>2, PTL
=============================================================================
