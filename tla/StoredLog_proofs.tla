------------------------- MODULE StoredLog_proofs ---------------------------
(***************************************************************************)
(* Theorems about what is stored of a session.                             *)
(*                                                                         *)
(* Part I: the write-behind controller, for every number of events: the    *)
(* queue, the write under way and the store hold the session's events in   *)
(* order and once, no event is stranded in the queue, no deadline is       *)
(* doubled, and the controller implements the durable log: what is stored  *)
(* is never taken back and a resolved flush vouches for what is in storage.*)
(*                                                                         *)
(* Part II: the crash repair of the stored log, for every log, set of      *)
(* calls and number of crashes: the closers are accepted one after the     *)
(* other, each interrupted call has exactly one result, whose advice is    *)
(* right, and the log with its repairs is one history that the session's   *)
(* grammar allows.                                                         *)
(***************************************************************************)
EXTENDS WriteBehind, SessionRepair, SequenceTheorems, FiniteSetTheorems, TLAPS

-----------------------------------------------------------------------------
(* Part I. The write-behind controller.                                    *)

\* Where the barrier's coroutine is, against the one write there can be: it
\* awaits a write, or it is about to resume after one, and the continuation of
\* an automatic write never finds a write that is not the barrier's.
SlotInv ==
  /\ barrier \in {"overlap", "drain"} => active # "none"
  /\ barrier \in {"overlapped", "drained", "rejected"} => active = "none"
  /\ continuing => active = "none" \/ barrier # "none"

-----------------------------------------------------------------------------
\* Types.
LEMMA InitTypes == Init => TypeOK
<1>1. <<>> \in Seq(Events)
  OBVIOUS
<1>2. 0 \in 0 .. MaxEvents
  BY MaxEventsAssumption DEF MaxEventsAssumption
<1> SUFFICES ASSUME Init PROVE TypeOK
  OBVIOUS
<1>3. /\ pending \in Seq(Events) /\ batch \in Seq(Events) /\ stored \in Seq(Events)
      /\ timers \in Nat /\ sent \in 0 .. MaxEvents /\ promised \in 0 .. MaxEvents
  BY <1>1, <1>2 DEF Init
<1> QED
  BY <1>3 DEF Init, TypeOK

LEMMA StartWriteTypes ==
  ASSUME TypeOK, NEW d \in BOOLEAN, StartWrite(d)
  PROVE  /\ pending' \in Seq(Events) /\ batch' \in Seq(Events) /\ timers' \in Nat
         /\ deadlineExpired' \in BOOLEAN /\ active' = "writing" /\ background' \in BOOLEAN
<1>1. pending' \in Seq(Events) /\ batch' \in Seq(Events)
  BY DEF TypeOK, StartWrite
<1>2. timers' \in Nat
  BY DEF TypeOK, StartWrite, CancelTimer
<1>3. deadlineExpired' \in BOOLEAN /\ active' = "writing" /\ background' \in BOOLEAN
  BY DEF StartWrite
<1> QED
  BY <1>1, <1>2, <1>3

LEMMA NoWriteTypes ==
  ASSUME TypeOK, NoWrite
  PROVE  /\ pending' \in Seq(Events) /\ batch' \in Seq(Events)
         /\ active' \in {"none", "writing", "stored", "failed"} /\ background' \in BOOLEAN
  BY DEF TypeOK, NoWrite

\* What Drain does, by whether something is queued.
LEMMA DrainCases ==
  ASSUME Drain
  PROVE  \/ pending # <<>> /\ StartWrite(FALSE) /\ barrier' = "drain" /\ UNCHANGED promised
         \/ pending = <<>> /\ NoWrite /\ barrier' = "none" /\ promised' = sent
  BY DEF Drain

\* What FlushReady does.
LEMMA FlushReadyCases ==
  ASSUME FlushReady
  PROVE  /\ UNCHANGED <<init, continuing, stored, sent>> /\ waiting' = FALSE
         /\ \/ /\ NoWrite /\ barrier # "none"
               /\ UNCHANGED <<timers, deadlineExpired, automaticPaused, barrier, promised>>
            \/ /\ barrier = "none" /\ active = "none" /\ Drain
               /\ CancelTimer /\ deadlineExpired' = FALSE /\ automaticPaused' = FALSE
            \/ /\ barrier = "none" /\ active # "none" /\ barrier' = "overlap" /\ NoWrite
               /\ CancelTimer /\ deadlineExpired' = FALSE /\ automaticPaused' = FALSE
               /\ UNCHANGED promised
<1>1. CASE barrier # "none"
  BY <1>1 DEF FlushReady
<1>2. CASE barrier = "none" /\ active = "none"
  BY <1>2 DEF FlushReady
<1>3. CASE barrier = "none" /\ active # "none"
  BY <1>3 DEF FlushReady
<1> QED
  BY <1>1, <1>2, <1>3

LEMMA FlushReadyTypes == ASSUME TypeOK, FlushReady PROVE TypeOK'
<1>1. /\ UNCHANGED <<init, continuing, stored, sent>> /\ waiting' = FALSE
      /\ stored \in Seq(Events) /\ continuing \in BOOLEAN
  BY FlushReadyCases DEF TypeOK
<1>2. CASE /\ NoWrite
           /\ UNCHANGED <<timers, deadlineExpired, automaticPaused, barrier, promised>>
  BY <1>1, <1>2, NoWriteTypes DEF TypeOK
<1>3. CASE /\ barrier = "none" /\ active = "none" /\ Drain
           /\ CancelTimer /\ deadlineExpired' = FALSE /\ automaticPaused' = FALSE
  <2>1. CASE pending # <<>> /\ StartWrite(FALSE) /\ barrier' = "drain" /\ UNCHANGED promised
    BY <1>1, <1>3, <2>1, StartWriteTypes DEF TypeOK
  <2>2. CASE pending = <<>> /\ NoWrite /\ barrier' = "none" /\ promised' = sent
    <3>1. timers' \in Nat
      BY <1>3 DEF CancelTimer, TypeOK
    <3> QED
      BY <1>1, <1>3, <2>2, <3>1, NoWriteTypes DEF TypeOK
  <2> QED
    BY <1>3, <2>1, <2>2, DrainCases
<1>4. CASE /\ barrier = "none" /\ active # "none" /\ barrier' = "overlap" /\ NoWrite
           /\ CancelTimer /\ deadlineExpired' = FALSE /\ automaticPaused' = FALSE
           /\ UNCHANGED promised
  <2>1. timers' \in Nat
    BY <1>4 DEF CancelTimer, TypeOK
  <2> QED
    BY <1>1, <1>4, <2>1, NoWriteTypes DEF TypeOK
<1> QED
  BY <1>2, <1>3, <1>4, FlushReadyCases

LEMMA EnqueueTypes == ASSUME TypeOK, Enqueue PROVE TypeOK'
<1>1. sent + 1 \in Events /\ sent' \in 0 .. MaxEvents /\ sent' = sent + 1
  BY MaxEventsAssumption DEF Enqueue, TypeOK, Events, MaxEventsAssumption
<1>2. pending' \in Seq(Events)
  BY <1>1, AppendProperties DEF Enqueue, TypeOK
<1>3. timers' \in Nat /\ automaticPaused' \in BOOLEAN /\ deadlineExpired' \in BOOLEAN
  <2>1. CASE barrier = "none" /\ (automaticPaused \/ pending = <<>>)
    <3>1. /\ timers' = timers + 1 /\ automaticPaused' = FALSE
          /\ deadlineExpired' = IF automaticPaused THEN FALSE ELSE deadlineExpired
      BY <2>1 DEF Enqueue, ArmTimer
    <3>2. timers' \in Nat
      BY <3>1 DEF TypeOK
    <3>3. deadlineExpired \in BOOLEAN
      BY DEF TypeOK
    <3> QED
      BY <3>1, <3>2, <3>3
  <2>2. CASE ~(barrier = "none" /\ (automaticPaused \/ pending = <<>>))
    BY <2>2 DEF Enqueue, TypeOK
  <2> QED
    BY <2>1, <2>2
<1> QED
  BY <1>1, <1>2, <1>3 DEF Enqueue, TypeOK

LEMMA WriteTypes ==
  ASSUME TypeOK, WriteStored \/ WriteRejected \/ WriteEnds
  PROVE  TypeOK'
<1>1. CASE WriteStored
  <2>1. stored' \in Seq(Events)
    BY <1>1, ConcatProperties DEF WriteStored, TypeOK
  <2> QED
    BY <1>1, <2>1 DEF WriteStored, TypeOK
<1>2. CASE WriteRejected
  <2>1. pending' \in Seq(Events)
    BY <1>2, ConcatProperties DEF WriteRejected, TypeOK
  <2>2. timers' \in Nat
    BY <1>2 DEF WriteRejected, CancelTimer, TypeOK
  <2> QED
    BY <1>2, <2>1, <2>2 DEF WriteRejected, TypeOK
<1>3. CASE WriteEnds
  <2>1. barrier' \in {"none", "overlap", "drain", "overlapped", "drained", "rejected"}
    BY <1>3 DEF WriteEnds, TypeOK
  <2>2. continuing' \in BOOLEAN /\ active' = "none"
    BY <1>3 DEF WriteEnds
  <2> QED
    BY <1>3, <2>1, <2>2 DEF WriteEnds, TypeOK
<1> QED
  BY <1>1, <1>2, <1>3

LEMMA DeadlineTypes == ASSUME TypeOK, Deadline PROVE TypeOK'
<1>1. UNCHANGED <<init, automaticPaused, continuing, barrier, waiting, stored, sent, promised>>
  BY DEF Deadline
<1>2. CASE active # "none"
  <2>1. timers' \in Nat /\ deadlineExpired' = TRUE /\ NoWrite
    BY <1>2 DEF Deadline, TypeOK
  <2> QED
    BY <1>1, <2>1, NoWriteTypes DEF TypeOK
<1>3. CASE active = "none"
  <2>1. StartWrite(TRUE)
    BY <1>3 DEF Deadline
  <2> QED
    BY <1>1, <2>1, StartWriteTypes DEF TypeOK
<1> QED
  BY <1>2, <1>3

LEMMA ContinueTypes == ASSUME TypeOK, ContinueAutomatic PROVE TypeOK'
<1>1. /\ UNCHANGED <<init, automaticPaused, barrier, waiting, stored, sent, promised>>
      /\ continuing' = FALSE
  BY DEF ContinueAutomatic
<1>2. CASE barrier = "none" /\ pending # <<>> /\ deadlineExpired
  <2>1. StartWrite(TRUE)
    BY <1>2 DEF ContinueAutomatic
  <2> QED
    BY <1>1, <2>1, StartWriteTypes DEF TypeOK
<1>3. CASE ~(barrier = "none" /\ pending # <<>> /\ deadlineExpired)
  <2>1. NoWrite /\ UNCHANGED <<timers, deadlineExpired>>
    BY <1>3 DEF ContinueAutomatic
  <2> QED
    BY <1>1, <2>1, NoWriteTypes DEF TypeOK
<1> QED
  BY <1>2, <1>3

\* What BarrierResumes does.
LEMMA BarrierResumesCases ==
  ASSUME BarrierResumes
  PROVE  /\ UNCHANGED <<init, continuing, waiting, stored, sent>> /\ ~continuing
         /\ \/ /\ barrier = "rejected" /\ barrier' = "none" /\ NoWrite
               /\ UNCHANGED <<timers, deadlineExpired, automaticPaused, promised>>
            \/ /\ barrier \in {"overlapped", "drained"}
               /\ automaticPaused' = IF barrier = "overlapped" THEN FALSE ELSE automaticPaused
               /\ Drain
               /\ pending = <<>> => UNCHANGED <<timers, deadlineExpired>>
  BY DEF BarrierResumes

LEMMA BarrierTypes == ASSUME TypeOK, BarrierResumes PROVE TypeOK'
<1>1. UNCHANGED <<init, continuing, waiting, stored, sent>>
  BY BarrierResumesCases
<1>2. CASE /\ barrier = "rejected" /\ barrier' = "none" /\ NoWrite
           /\ UNCHANGED <<timers, deadlineExpired, automaticPaused, promised>>
  BY <1>1, <1>2, NoWriteTypes DEF TypeOK
<1>3. CASE /\ barrier \in {"overlapped", "drained"}
           /\ automaticPaused' = IF barrier = "overlapped" THEN FALSE ELSE automaticPaused
           /\ Drain
           /\ pending = <<>> => UNCHANGED <<timers, deadlineExpired>>
  <2>1. automaticPaused' \in BOOLEAN
    <3>1. automaticPaused \in BOOLEAN
      BY DEF TypeOK
    <3> QED
      BY <1>3, <3>1
  <2>2. CASE pending # <<>> /\ StartWrite(FALSE) /\ barrier' = "drain" /\ UNCHANGED promised
    BY <1>1, <2>1, <2>2, StartWriteTypes DEF TypeOK
  <2>3. CASE pending = <<>> /\ NoWrite /\ barrier' = "none" /\ promised' = sent
    <3>1. UNCHANGED <<timers, deadlineExpired>>
      BY <1>3, <2>3
    <3> QED
      BY <1>1, <2>1, <2>3, <3>1, NoWriteTypes DEF TypeOK
  <2> QED
    BY <1>3, <2>2, <2>3, DrainCases
<1> QED
  BY <1>2, <1>3, BarrierResumesCases

LEMMA NextTypes == ASSUME TypeOK, [Next]_vars PROVE TypeOK'
<1>1. CASE FlushRefused \/ FlushCalled
  <2>1. timers' \in Nat
    BY <1>1 DEF FlushRefused, FlushCalled, CancelTimer, TypeOK
  <2>2. deadlineExpired' = FALSE /\ waiting' \in BOOLEAN
    BY <1>1 DEF FlushRefused, FlushCalled
  <2>3. UNCHANGED <<init, pending, automaticPaused, active, batch, background, continuing,
                    barrier, stored, sent, promised>>
    BY <1>1 DEF FlushRefused, FlushCalled
  <2> QED
    BY <2>1, <2>2, <2>3 DEF TypeOK
<1>2. CASE InitSettles
  BY <1>2 DEF InitSettles, TypeOK
<1>3. CASE UNCHANGED vars
  BY <1>3 DEF vars, TypeOK
<1> QED
  BY <1>1, <1>2, <1>3, FlushReadyTypes, EnqueueTypes, WriteTypes, DeadlineTypes, ContinueTypes,
     BarrierTypes DEF Next, Controller, Backend

\* The state of the controller is well typed (write-behind.ts:45-159).
THEOREM TypeCorrect == Spec => []TypeOK
  BY InitTypes, NextTypes, PTL DEF Spec

-----------------------------------------------------------------------------
\* One write at a time, and the barrier where its write is.
LEMMA NextSlot == ASSUME TypeOK, SlotInv, [Next]_vars PROVE SlotInv'
<1>1. CASE FlushReady
  <2>1. CASE barrier = "none" /\ active = "none" /\ Drain
    BY <2>1, <1>1, DrainCases, FlushReadyCases DEF SlotInv, StartWrite, NoWrite
  <2>2. CASE NoWrite /\ UNCHANGED barrier
    BY <2>2, <1>1, FlushReadyCases DEF SlotInv, NoWrite
  <2>3. CASE barrier = "none" /\ active # "none" /\ barrier' = "overlap" /\ NoWrite
    BY <2>3, <1>1, FlushReadyCases DEF SlotInv, NoWrite
  <2> QED
    BY <1>1, <2>1, <2>2, <2>3, FlushReadyCases
<1>2. CASE Deadline
  <2>1. UNCHANGED <<barrier, continuing>> /\ ~continuing
    BY <1>2 DEF Deadline, Reacting
  <2>2. barrier \notin {"overlapped", "drained", "rejected"}
    BY <1>2 DEF Deadline, Reacting
  <2>3. active' = active \/ active' = "writing"
    BY <1>2 DEF Deadline, StartWrite, NoWrite
  <2> QED
    BY <2>1, <2>2, <2>3 DEF SlotInv
<1>3. CASE WriteEnds
  <2>1. active' = "none" /\ barrier' \notin {"overlap", "drain"}
    BY <1>3 DEF WriteEnds
  <2> QED
    BY <2>1 DEF SlotInv
<1>4. CASE ContinueAutomatic
  <2>1. UNCHANGED barrier /\ continuing' = FALSE
    BY <1>4 DEF ContinueAutomatic
  <2>2. UNCHANGED active \/ (barrier = "none" /\ active' = "writing")
    BY <1>4 DEF ContinueAutomatic, StartWrite, NoWrite
  <2> QED
    BY <2>1, <2>2 DEF SlotInv
<1>5. CASE BarrierResumes
  <2>1. CASE barrier = "rejected" /\ barrier' = "none" /\ NoWrite
    BY <2>1, <1>5, BarrierResumesCases DEF SlotInv, NoWrite
  <2>2. CASE barrier \in {"overlapped", "drained"} /\ Drain
    BY <2>2, <1>5, BarrierResumesCases, DrainCases DEF SlotInv, StartWrite, NoWrite
  <2> QED
    BY <1>5, <2>1, <2>2, BarrierResumesCases
<1>6. CASE WriteStored \/ WriteRejected
  BY <1>6 DEF WriteStored, WriteRejected, SlotInv
<1>7. CASE FlushRefused \/ FlushCalled \/ InitSettles \/ Enqueue \/ UNCHANGED vars
  <2>1. UNCHANGED <<barrier, active>>
    BY <1>7 DEF FlushRefused, FlushCalled, InitSettles, Enqueue, vars
  <2>2. continuing' = continuing
    BY <1>7 DEF FlushRefused, FlushCalled, InitSettles, Enqueue, vars
  <2> QED
    BY <2>1, <2>2 DEF SlotInv
<1> QED
  BY <1>1, <1>2, <1>3, <1>4, <1>5, <1>6, <1>7 DEF Next, Controller, Backend

-----------------------------------------------------------------------------
\* The events in their order.
Flying == IF active = "writing" THEN batch ELSE <<>>

LEMMA FlyingType == ASSUME TypeOK PROVE Flying \in Seq(Events)
<1>1. <<>> \in Seq(Events)
  OBVIOUS
<1> QED
  BY <1>1 DEF TypeOK, Flying

LEMMA OrderIs == InOrderOnce <=> (stored \o Flying) \o pending = [i \in 1 .. sent |-> i]
  BY DEF InOrderOnce, Flying

LEMMA NextOrderIs ==
  InOrderOnce' <=> (stored' \o Flying') \o pending' = [i \in 1 .. sent' |-> i]
  BY DEF InOrderOnce, Flying

\* Starting a write moves the whole queue to the write under way.
LEMMA StartWriteOrder ==
  ASSUME TypeOK, InOrderOnce, active # "writing", NEW d \in BOOLEAN, StartWrite(d),
         stored' = stored, sent' = sent
  PROVE  InOrderOnce'
<1>1. Flying = <<>> /\ Flying' = pending /\ pending' = <<>>
  BY DEF Flying, StartWrite
<1>2. stored \in Seq(Events) /\ pending \in Seq(Events)
  BY DEF TypeOK
<1>3. stored \o pending \in Seq(Events)
  BY <1>2, ConcatProperties
<1>4. stored \o <<>> = stored /\ (stored \o pending) \o <<>> = stored \o pending
  BY <1>2, <1>3, ConcatEmptySeq
<1>5. (stored' \o Flying') \o pending' = (stored \o Flying) \o pending
  BY <1>1, <1>4
<1> QED
  BY <1>5, OrderIs, NextOrderIs

LEMMA NoWriteOrder ==
  ASSUME InOrderOnce, NoWrite, stored' = stored, sent' = sent
  PROVE  InOrderOnce'
  BY DEF InOrderOnce, NoWrite

LEMMA EnqueueOrder == ASSUME TypeOK, InOrderOnce, Enqueue PROVE InOrderOnce'
<1> DEFINE A == stored \o Flying
<1>1. sent \in Nat /\ sent + 1 \in Events /\ sent' = sent + 1
  BY MaxEventsAssumption DEF Enqueue, TypeOK, Events, MaxEventsAssumption
<1>2. pending' = Append(pending, sent + 1) /\ stored' = stored /\ Flying' = Flying
  BY DEF Enqueue, Flying
<1>3. pending \in Seq(Events) /\ A \in Seq(Events)
  BY FlyingType, ConcatProperties DEF TypeOK
<1>4. A \o pending = [i \in 1 .. sent |-> i]
  BY OrderIs
<1>5. (stored' \o Flying') \o pending' = A \o Append(pending, sent + 1)
  BY <1>2
<1> HIDE DEF A
<1>6. <<sent + 1>> \in Seq(Events)
  BY <1>1
<1>7. Append(pending, sent + 1) = pending \o <<sent + 1>>
  BY <1>1, <1>3, AppendIsConcat
<1>8. A \o (pending \o <<sent + 1>>) = (A \o pending) \o <<sent + 1>>
  BY <1>3, <1>6, ConcatAssociative
<1>9. [i \in 1 .. sent |-> i] \o <<sent + 1>> = [i \in 1 .. sent + 1 |-> i]
  BY <1>1
<1> QED
  BY <1>1, <1>4, <1>5, <1>7, <1>8, <1>9, NextOrderIs

\* A stored batch joins the store; a rejected one goes back to the head.
LEMMA WriteOrder ==
  ASSUME TypeOK, InOrderOnce, WriteStored \/ WriteRejected
  PROVE  InOrderOnce'
<1>1. Flying = batch /\ Flying' = <<>> /\ sent' = sent
  BY DEF Flying, WriteStored, WriteRejected
<1>2. stored \in Seq(Events) /\ batch \in Seq(Events) /\ pending \in Seq(Events)
  BY DEF TypeOK
<1>3. CASE WriteStored
  <2>1. stored \o batch \in Seq(Events)
    BY <1>2, ConcatProperties
  <2>2. stored' = stored \o batch /\ pending' = pending
    BY <1>3 DEF WriteStored
  <2>3. stored' \o Flying' = stored \o batch
    BY <1>1, <2>1, <2>2, ConcatEmptySeq
  <2> QED
    BY <1>1, <2>2, <2>3, OrderIs, NextOrderIs
<1>4. CASE WriteRejected
  <2>1. stored' = stored /\ pending' = batch \o pending
    BY <1>4 DEF WriteRejected
  <2>2. stored' \o Flying' = stored
    BY <1>1, <1>2, <2>1, ConcatEmptySeq
  <2>3. stored \o (batch \o pending) = (stored \o batch) \o pending
    BY <1>2, ConcatAssociative
  <2> QED
    BY <1>1, <2>1, <2>2, <2>3, OrderIs, NextOrderIs
<1> QED
  BY <1>3, <1>4

LEMMA InitOrder == Init => SlotInv /\ InOrderOnce
<1> SUFFICES ASSUME Init PROVE SlotInv /\ InOrderOnce
  OBVIOUS
<1>1. SlotInv
  BY DEF Init, SlotInv
<1>2. stored = <<>> /\ Flying = <<>> /\ pending = <<>> /\ sent = 0
  BY DEF Init, Flying
<1>3. (<<>> \o <<>>) \o <<>> = [i \in 1 .. 0 |-> i]
  OBVIOUS
<1> QED
  BY <1>1, <1>2, <1>3, OrderIs

\* A step keeps every event once, in order: no write starts while one is under
\* way, so no batch is overwritten.
LEMMA NextOrder ==
  ASSUME TypeOK, SlotInv, InOrderOnce, [Next]_vars
  PROVE  InOrderOnce'
<1>1. CASE FlushReady
  <2>1. stored' = stored /\ sent' = sent
    BY <1>1, FlushReadyCases
  <2>2. CASE active = "none" /\ Drain
    BY <2>1, <2>2, DrainCases, StartWriteOrder, NoWriteOrder
  <2>3. CASE NoWrite
    BY <2>1, <2>3, NoWriteOrder
  <2> QED
    BY <1>1, <2>2, <2>3, FlushReadyCases
<1>2. CASE Deadline
  <2>1. stored' = stored /\ sent' = sent
    BY <1>2 DEF Deadline
  <2>2. CASE active # "none"
    BY <1>2, <2>1, <2>2, NoWriteOrder DEF Deadline
  <2>3. CASE active = "none"
    BY <1>2, <2>1, <2>3, StartWriteOrder DEF Deadline
  <2> QED
    BY <2>2, <2>3
<1>3. CASE WriteEnds
  BY <1>3 DEF WriteEnds, InOrderOnce
<1>4. CASE ContinueAutomatic
  <2>1. stored' = stored /\ sent' = sent
    BY <1>4 DEF ContinueAutomatic
  <2>2. CASE NoWrite
    BY <2>1, <2>2, NoWriteOrder
  <2>3. CASE barrier = "none" /\ StartWrite(TRUE)
    <3>1. active = "none"
      BY <1>4, <2>3 DEF ContinueAutomatic, SlotInv
    <3> QED
      BY <2>1, <2>3, <3>1, StartWriteOrder
  <2> QED
    BY <1>4, <2>2, <2>3 DEF ContinueAutomatic
<1>5. CASE BarrierResumes
  <2>1. stored' = stored /\ sent' = sent
    BY <1>5, BarrierResumesCases
  <2>2. CASE NoWrite
    BY <2>1, <2>2, NoWriteOrder
  <2>3. CASE barrier \in {"overlapped", "drained"} /\ Drain
    <3>1. active = "none"
      BY <2>3 DEF SlotInv
    <3> QED
      BY <2>1, <2>3, <3>1, DrainCases, StartWriteOrder, NoWriteOrder
  <2> QED
    BY <1>5, <2>2, <2>3, BarrierResumesCases
<1>6. CASE FlushRefused \/ FlushCalled \/ InitSettles \/ UNCHANGED vars
  BY <1>6 DEF FlushRefused, FlushCalled, InitSettles, vars, InOrderOnce
<1> QED
  BY <1>1, <1>2, <1>3, <1>4, <1>5, <1>6, EnqueueOrder, WriteOrder
  DEF Next, Controller, Backend

WriteBehindInv == TypeOK /\ SlotInv /\ InOrderOnce

LEMMA Inductive == Spec => []WriteBehindInv
<1>1. Init => WriteBehindInv
  BY InitTypes, InitOrder DEF WriteBehindInv
<1>2. WriteBehindInv /\ [Next]_vars => WriteBehindInv'
  BY NextTypes, NextSlot, NextOrder DEF WriteBehindInv
<1> QED
  BY <1>1, <1>2, PTL DEF Spec

\* No event is lost, duplicated or reordered between the live session and
\* storage, whatever fails and whatever arrives during a write
\* (write-behind.ts:45-159).
THEOREM OrderKept == Spec => []InOrderOnce
<1>1. WriteBehindInv => InOrderOnce
  BY DEF WriteBehindInv
<1> QED
  BY <1>1, Inductive, PTL

-----------------------------------------------------------------------------
\* How many events are where.
LEMMA Counting ==
  ASSUME TypeOK, InOrderOnce
  PROVE  /\ Len(stored) \in Nat /\ sent \in Nat
         /\ Len(stored) + Len(Flying) + Len(pending) = sent
         /\ Len(Flying) \in Nat /\ Len(pending) \in Nat
<1>1. stored \in Seq(Events) /\ Flying \in Seq(Events) /\ pending \in Seq(Events)
  BY FlyingType DEF TypeOK
<1>2. stored \o Flying \in Seq(Events) /\ Len(stored \o Flying) = Len(stored) + Len(Flying)
  BY <1>1, ConcatProperties
<1>3. Len((stored \o Flying) \o pending) = Len(stored) + Len(Flying) + Len(pending)
  BY <1>1, <1>2, ConcatProperties
<1>4. sent \in Nat
  BY MaxEventsAssumption DEF TypeOK, MaxEventsAssumption
<1>5. Len([i \in 1 .. sent |-> i]) = sent
  BY <1>4
<1>6. Len(stored) \in Nat /\ Len(Flying) \in Nat /\ Len(pending) \in Nat
  BY <1>1, LenProperties
<1> QED
  BY <1>3, <1>4, <1>5, <1>6, OrderIs

\* A flush that finds nothing queued and nothing under way vouches for what is
\* in storage.
LEMMA DrainImplements ==
  ASSUME TypeOK, InOrderOnce, active = "none", Drain, stored' = stored, sent' = sent
  PROVE  [Promise!Next]_<<sent, Len(stored), promised>>
<1>1. CASE pending # <<>> /\ UNCHANGED promised
  BY <1>1
<1>2. CASE pending = <<>> /\ promised' = sent
  <2>1. Flying = <<>> /\ Len(<<>>) = 0
    BY DEF Flying
  <2>2. Len(stored) = sent
    BY <1>2, <2>1, Counting
  <2> QED
    BY <1>2, <2>2 DEF Promise!Next, Promise!ResolveFlush
<1> QED
  BY <1>1, <1>2, DrainCases

LEMMA NextImplements ==
  ASSUME TypeOK, SlotInv, InOrderOnce, [Next]_vars
  PROVE  [Promise!Next]_<<sent, Len(stored), promised>>
<1>1. CASE FlushReady
  <2>1. stored' = stored /\ sent' = sent
    BY <1>1, FlushReadyCases
  <2>2. CASE active = "none" /\ Drain
    BY <2>1, <2>2, DrainImplements
  <2>3. CASE UNCHANGED promised
    BY <2>1, <2>3
  <2> QED
    BY <1>1, <2>2, <2>3, FlushReadyCases
<1>2. CASE BarrierResumes
  <2>1. stored' = stored /\ sent' = sent
    BY <1>2, BarrierResumesCases
  <2>2. CASE barrier \in {"overlapped", "drained"} /\ Drain
    BY <2>1, <2>2, DrainImplements DEF SlotInv
  <2>3. CASE UNCHANGED promised
    BY <2>1, <2>3
  <2> QED
    BY <1>2, <2>2, <2>3, BarrierResumesCases
<1>3. CASE WriteStored
  <2>1. stored \in Seq(Events) /\ batch \in Seq(Events) /\ Flying = batch
    BY <1>3 DEF TypeOK, WriteStored, Flying
  <2>2. Len(stored') = Len(stored) + Len(batch)
    BY <1>3, <2>1, ConcatProperties DEF WriteStored
  <2>3. Len(batch) \in Nat /\ Len(stored) + Len(batch) <= sent /\ Len(stored) \in Nat /\ sent \in Nat
    BY <2>1, Counting
  <2>4. UNCHANGED <<sent, promised>>
    BY <1>3 DEF WriteStored
  <2>5. CASE Len(batch) = 0
    BY <2>2, <2>3, <2>4, <2>5
  <2>6. CASE Len(batch) > 0
    BY <2>2, <2>3, <2>4, <2>6 DEF Promise!Next, Promise!Store
  <2> QED
    BY <2>3, <2>5, <2>6
<1>4. CASE Enqueue
  BY <1>4 DEF Enqueue, Promise!Next, Promise!Submit
<1>5. CASE \/ FlushRefused \/ FlushCalled \/ InitSettles \/ WriteRejected \/ WriteEnds
           \/ Deadline \/ ContinueAutomatic \/ UNCHANGED vars
  <2>1. stored' = stored /\ sent' = sent /\ promised' = promised
    BY <1>5 DEF FlushRefused, FlushCalled, InitSettles, WriteRejected, WriteEnds, Deadline,
                ContinueAutomatic, vars
  <2> QED
    BY <2>1
<1> QED
  BY <1>1, <1>2, <1>3, <1>4, <1>5 DEF Next, Controller, Backend

\* The controller implements the durable log: storage only grows, never past
\* what was appended, and a resolved flush vouches for nothing that is still in
\* memory (write-behind.ts:45-159, coordinator.ts flush()).
THEOREM Implements == Spec => ImplementsDurableLog
<1>1. Init => Promise!Init
  BY DEF Init, Promise!Init
<1>2. WriteBehindInv /\ [Next]_vars => [Promise!Next]_<<sent, Len(stored), promised>>
  BY NextImplements DEF WriteBehindInv
<1> QED
  BY <1>1, <1>2, Inductive, PTL DEF Spec, ImplementsDurableLog, Promise!Spec

-----------------------------------------------------------------------------
\* Why no deadline is doubled and no event stranded. A deadline is armed only
\* for the first queued event or the first after a failure, and taking the queue
\* or failing disarms it. A write the deadline did not start is the barrier's, so
\* what arrives during it is the barrier's to take. A failure clears the spent
\* budget, so that the pause it leaves is all that speaks for the queue.
TimerInv == timers <= 1 /\ (timers > 0 => pending # <<>> /\ ~automaticPaused)

ForegroundIsBarrier == active # "none" /\ ~background => barrier = "drain"

FailureResets == active = "failed" => ~deadlineExpired

RejectedIsReported ==
  barrier = "rejected" \/ (barrier = "drain" /\ active = "failed") => automaticPaused

StrandInv ==
  TimerInv /\ ForegroundIsBarrier /\ FailureResets /\ RejectedIsReported /\ NeverStranded

LEMMA CancelDisarms == ASSUME TypeOK, TimerInv, CancelTimer PROVE timers' = 0
  BY DEF TypeOK, TimerInv, CancelTimer

\* Once a write takes the queue nothing is left to strand.
LEMMA StartWriteStrand ==
  ASSUME TypeOK, TimerInv, NEW d \in BOOLEAN, StartWrite(d), d \/ barrier' = "drain",
         barrier' # "rejected"
  PROVE  StrandInv'
<1>1. timers' = 0
  BY CancelDisarms DEF StartWrite
<1>2. pending' = <<>> /\ active' = "writing" /\ background' = d
  BY DEF StartWrite
<1>3. TimerInv'
  BY <1>1 DEF TimerInv
<1>4. ForegroundIsBarrier'
  BY <1>2 DEF ForegroundIsBarrier
<1>5. FailureResets' /\ RejectedIsReported' /\ NeverStranded'
  BY <1>2 DEF FailureResets, RejectedIsReported, NeverStranded
<1> QED
  BY <1>3, <1>4, <1>5 DEF StrandInv

\* Nor when nothing is queued, armed or under way.
LEMMA IdleStrand ==
  ASSUME pending' = <<>>, timers' = 0, active' = "none", barrier' # "rejected"
  PROVE  StrandInv'
  BY DEF StrandInv, TimerInv, ForegroundIsBarrier, FailureResets, RejectedIsReported,
         NeverStranded

LEMMA FlushReadyStrand ==
  ASSUME TypeOK, SlotInv, StrandInv, FlushReady
  PROVE  StrandInv'
<1>1. CASE NoWrite /\ barrier # "none"
           /\ UNCHANGED <<timers, deadlineExpired, automaticPaused, barrier, promised>>
  <2>1. /\ timers' = timers /\ deadlineExpired' = deadlineExpired /\ pending' = pending
        /\ automaticPaused' = automaticPaused /\ barrier' = barrier /\ barrier # "none"
        /\ active' = active /\ background' = background
    BY <1>1 DEF NoWrite
  <2> QED
    BY <2>1 DEF StrandInv, TimerInv, ForegroundIsBarrier, FailureResets, RejectedIsReported,
                NeverStranded
<1>2. CASE barrier = "none" /\ active = "none" /\ Drain /\ CancelTimer
  <2>1. timers' = 0
    BY <1>2, CancelDisarms DEF StrandInv
  <2>2. CASE StartWrite(FALSE) /\ barrier' = "drain"
    BY <2>2, StartWriteStrand DEF StrandInv
  <2>3. CASE pending = <<>> /\ NoWrite /\ barrier' = "none"
    BY <1>2, <2>1, <2>3, IdleStrand DEF NoWrite
  <2> QED
    BY <1>2, <2>2, <2>3, DrainCases
<1>3. CASE /\ barrier = "none" /\ active # "none" /\ barrier' = "overlap" /\ NoWrite
           /\ CancelTimer /\ deadlineExpired' = FALSE
  <2>1. timers' = 0
    BY <1>3, CancelDisarms DEF StrandInv
  <2>2. ForegroundIsBarrier'
    BY <1>3 DEF NoWrite, StrandInv, ForegroundIsBarrier
  <2> QED
    BY <1>3, <2>1, <2>2 DEF StrandInv, TimerInv, FailureResets, RejectedIsReported, NeverStranded
<1> QED
  BY <1>1, <1>2, <1>3, FlushReadyCases

LEMMA DeadlineStrand == ASSUME TypeOK, StrandInv, Deadline PROVE StrandInv'
<1>1. barrier' = barrier /\ automaticPaused' = automaticPaused
  BY DEF Deadline
<1>2. barrier # "rejected" /\ active # "failed" /\ timers > 0
  BY DEF Deadline, Reacting
<1>3. CASE active # "none"
  <2>1. /\ deadlineExpired' = TRUE /\ timers' = timers - 1 /\ pending' = pending
        /\ active' = active /\ background' = background
    BY <1>3 DEF Deadline, NoWrite
  <2>2. timers' = 0
    BY <1>2, <2>1 DEF TypeOK, StrandInv, TimerInv
  <2>3. ForegroundIsBarrier'
    BY <1>1, <2>1 DEF StrandInv, ForegroundIsBarrier
  <2> QED
    BY <1>1, <1>2, <1>3, <2>1, <2>2, <2>3
    DEF StrandInv, TimerInv, FailureResets, RejectedIsReported, NeverStranded
<1>4. CASE active = "none"
  <2>1. StartWrite(TRUE)
    BY <1>4 DEF Deadline
  <2> QED
    BY <1>1, <1>2, <2>1, StartWriteStrand DEF StrandInv
<1> QED
  BY <1>3, <1>4

LEMMA WriteEndsStrand == ASSUME TypeOK, StrandInv, WriteEnds PROVE StrandInv'
<1>1. /\ pending' = pending /\ timers' = timers /\ deadlineExpired' = deadlineExpired
      /\ automaticPaused' = automaticPaused /\ init' = init /\ waiting' = waiting
  BY DEF WriteEnds
<1>2. active' = "none" /\ active \in {"stored", "failed"}
  BY DEF WriteEnds
<1>3. TimerInv' /\ ForegroundIsBarrier' /\ FailureResets'
  BY <1>1, <1>2 DEF StrandInv, TimerInv, ForegroundIsBarrier, FailureResets
<1>4. barrier # "none" => barrier' # "none"
  BY DEF WriteEnds
<1>5. RejectedIsReported'
  <2> SUFFICES ASSUME barrier' = "rejected" PROVE automaticPaused
    BY <1>1, <1>2 DEF RejectedIsReported
  <2>1. barrier = "rejected" \/ (barrier = "drain" /\ active = "failed")
    BY <1>2 DEF WriteEnds
  <2> QED
    BY <2>1 DEF StrandInv, RejectedIsReported
<1>6. NeverStranded'
  <2>1. CASE active = "failed"
    BY <1>1, <1>4, <2>1 DEF StrandInv, FailureResets, NeverStranded, TypeOK, WriteEnds
  <2>2. CASE active = "stored" /\ background
    <3>1. continuing' = TRUE
      BY <2>2 DEF WriteEnds
    <3> QED
      BY <1>1, <1>4, <3>1 DEF StrandInv, NeverStranded
  <2>3. CASE active = "stored" /\ ~background
    <3>1. barrier # "none"
      BY <2>3 DEF StrandInv, ForegroundIsBarrier
    <3> QED
      BY <1>4, <3>1 DEF NeverStranded
  <2> QED
    BY <1>2, <2>1, <2>2, <2>3
<1> QED
  BY <1>3, <1>5, <1>6 DEF StrandInv

LEMMA ContinueStrand == ASSUME TypeOK, SlotInv, StrandInv, ContinueAutomatic PROVE StrandInv'
<1>1. /\ automaticPaused' = automaticPaused /\ init' = init /\ waiting' = waiting
      /\ barrier' = barrier
  BY DEF ContinueAutomatic
<1>2. CASE barrier = "none" /\ pending # <<>> /\ deadlineExpired
  <2>1. StartWrite(TRUE)
    BY <1>2 DEF ContinueAutomatic
  <2> QED
    BY <1>1, <1>2, <2>1, StartWriteStrand DEF StrandInv
<1>3. CASE ~(barrier = "none" /\ pending # <<>> /\ deadlineExpired)
  <2>1. /\ pending' = pending /\ timers' = timers /\ deadlineExpired' = deadlineExpired
        /\ active' = active /\ background' = background
    BY <1>3 DEF ContinueAutomatic, NoWrite
  <2>2. TimerInv' /\ ForegroundIsBarrier' /\ FailureResets' /\ RejectedIsReported'
    BY <1>1, <2>1 DEF StrandInv, TimerInv, ForegroundIsBarrier, FailureResets,
                      RejectedIsReported
  <2>3. NeverStranded'
    BY <1>1, <1>3, <2>1 DEF StrandInv, NeverStranded
  <2> QED
    BY <2>2, <2>3 DEF StrandInv
<1> QED
  BY <1>2, <1>3

LEMMA BarrierStrand == ASSUME TypeOK, SlotInv, StrandInv, BarrierResumes PROVE StrandInv'
<1>1. active = "none"
  BY BarrierResumesCases DEF SlotInv
<1>2. CASE /\ barrier = "rejected" /\ barrier' = "none" /\ NoWrite
           /\ UNCHANGED <<timers, deadlineExpired, automaticPaused, promised>>
  <2>1. /\ pending' = pending /\ timers' = timers /\ active' = "none"
        /\ automaticPaused' = automaticPaused /\ automaticPaused
    BY <1>1, <1>2 DEF NoWrite, StrandInv, RejectedIsReported
  <2> QED
    BY <1>2, <2>1 DEF StrandInv, TimerInv, ForegroundIsBarrier, FailureResets,
                      RejectedIsReported, NeverStranded
<1>3. CASE Drain /\ (pending = <<>> => UNCHANGED <<timers, deadlineExpired>>)
  <2>1. CASE StartWrite(FALSE) /\ barrier' = "drain"
    BY <2>1, StartWriteStrand DEF StrandInv
  <2>2. CASE pending = <<>> /\ NoWrite /\ barrier' = "none"
    <3>1. timers' = 0
      BY <1>3, <2>2 DEF StrandInv, TimerInv, TypeOK
    <3> QED
      BY <1>1, <2>2, <3>1, IdleStrand DEF NoWrite
  <2> QED
    BY <1>3, <2>1, <2>2, DrainCases
<1> QED
  BY <1>2, <1>3, BarrierResumesCases

LEMMA EnqueueStrand == ASSUME TypeOK, StrandInv, Enqueue PROVE StrandInv'
<1>1. /\ active' = active /\ background' = background /\ barrier' = barrier
      /\ continuing' = continuing /\ waiting' = waiting /\ init' = init
  BY DEF Enqueue
<1>2. sent + 1 \in Events /\ pending' = Append(pending, sent + 1)
  BY MaxEventsAssumption DEF Enqueue, TypeOK, Events, MaxEventsAssumption
<1>3. pending' # <<>>
  BY <1>2, AppendProperties DEF TypeOK
<1>4. ForegroundIsBarrier'
  BY <1>1 DEF StrandInv, ForegroundIsBarrier
<1>5. CASE barrier = "none" /\ (automaticPaused \/ pending = <<>>)
  <2>1. /\ timers' = timers + 1 /\ automaticPaused' = FALSE
        /\ deadlineExpired' = IF automaticPaused THEN FALSE ELSE deadlineExpired
    BY <1>5 DEF Enqueue, ArmTimer
  <2>2. timers' = 1
    BY <1>5, <2>1 DEF StrandInv, TimerInv, TypeOK
  <2>3. FailureResets'
    <3>1. CASE automaticPaused
      BY <2>1, <3>1 DEF FailureResets
    <3>2. CASE ~automaticPaused
      <4>1. deadlineExpired' = deadlineExpired
        BY <2>1, <3>2
      <4> QED
        BY <1>1, <4>1 DEF StrandInv, FailureResets
    <3> QED
      BY <3>1, <3>2
  <2> QED
    BY <1>1, <1>3, <1>4, <1>5, <2>1, <2>2, <2>3
    DEF StrandInv, TimerInv, RejectedIsReported, NeverStranded
<1>6. CASE ~(barrier = "none" /\ (automaticPaused \/ pending = <<>>))
  <2>1. /\ timers' = timers /\ automaticPaused' = automaticPaused
        /\ deadlineExpired' = deadlineExpired
    BY <1>6 DEF Enqueue
  <2>2. TimerInv' /\ FailureResets' /\ RejectedIsReported'
    BY <1>1, <1>3, <2>1 DEF StrandInv, TimerInv, FailureResets, RejectedIsReported
  <2>3. NeverStranded'
    BY <1>1, <1>6, <2>1 DEF StrandInv, NeverStranded
  <2> QED
    BY <1>4, <2>2, <2>3 DEF StrandInv
<1> QED
  BY <1>5, <1>6

\* A failed write disarms the deadline and clears the spent budget: the pause,
\* reported by the rejected write, is what is left.
LEMMA WriteStrand ==
  ASSUME TypeOK, StrandInv, WriteStored \/ WriteRejected
  PROVE  StrandInv'
<1>1. /\ active = "writing" /\ background' = background /\ barrier' = barrier
      /\ continuing' = continuing /\ waiting' = waiting /\ init' = init
  BY DEF WriteStored, WriteRejected
<1>2. ForegroundIsBarrier'
  BY <1>1 DEF StrandInv, ForegroundIsBarrier
<1>3. CASE WriteStored
  <2>1. /\ pending' = pending /\ timers' = timers /\ active' = "stored"
        /\ deadlineExpired' = deadlineExpired /\ automaticPaused' = automaticPaused
    BY <1>3 DEF WriteStored
  <2> QED
    BY <1>1, <1>2, <2>1 DEF StrandInv, TimerInv, FailureResets, RejectedIsReported,
                            NeverStranded
<1>4. CASE WriteRejected
  <2>1. CancelTimer /\ deadlineExpired' = FALSE /\ automaticPaused' = TRUE
    BY <1>4 DEF WriteRejected
  <2>2. timers' = 0
    BY <2>1, CancelDisarms DEF StrandInv
  <2> QED
    BY <1>1, <1>2, <2>1, <2>2 DEF StrandInv, TimerInv, FailureResets, RejectedIsReported,
                                  NeverStranded
<1> QED
  BY <1>3, <1>4

LEMMA FlushStrand ==
  ASSUME TypeOK, StrandInv, FlushCalled \/ FlushRefused
  PROVE  StrandInv'
<1>1. CancelTimer /\ deadlineExpired' = FALSE
  BY DEF FlushCalled, FlushRefused
<1>2. /\ automaticPaused' = automaticPaused /\ active' = active /\ background' = background
      /\ barrier' = barrier
  BY DEF FlushCalled, FlushRefused
<1>3. timers' = 0
  BY <1>1, CancelDisarms DEF StrandInv
<1>4. waiting' = TRUE \/ init' = "failed"
  BY DEF FlushCalled, FlushRefused
<1>5. TimerInv' /\ FailureResets' /\ NeverStranded'
  BY <1>1, <1>3, <1>4 DEF TimerInv, FailureResets, NeverStranded
<1>6. ForegroundIsBarrier' /\ RejectedIsReported'
  BY <1>2 DEF StrandInv, ForegroundIsBarrier, RejectedIsReported
<1> QED
  BY <1>5, <1>6 DEF StrandInv

LEMMA NextStrand ==
  ASSUME TypeOK, SlotInv, StrandInv, [Next]_vars
  PROVE  StrandInv'
<1>1. CASE InitSettles \/ UNCHANGED vars
  <2>1. /\ pending' = pending /\ timers' = timers /\ deadlineExpired' = deadlineExpired
        /\ automaticPaused' = automaticPaused /\ active' = active /\ background' = background
        /\ continuing' = continuing /\ barrier' = barrier /\ waiting' = waiting
        /\ (init = "failed" => init' = "failed")
    BY <1>1 DEF InitSettles, vars
  <2>2. TimerInv' /\ ForegroundIsBarrier' /\ FailureResets' /\ RejectedIsReported'
    BY <2>1 DEF StrandInv, TimerInv, ForegroundIsBarrier, FailureResets, RejectedIsReported
  <2>3. NeverStranded'
    BY <2>1 DEF StrandInv, NeverStranded
  <2> QED
    BY <2>2, <2>3 DEF StrandInv
<1> QED
  BY <1>1, FlushReadyStrand, DeadlineStrand, WriteEndsStrand, ContinueStrand, BarrierStrand,
     EnqueueStrand, WriteStrand, FlushStrand DEF Next, Controller, Backend

LEMMA StrandInductive == Spec => [](WriteBehindInv /\ StrandInv)
<1>1. Init => StrandInv
  BY DEF Init, StrandInv, TimerInv, ForegroundIsBarrier, FailureResets, RejectedIsReported,
         NeverStranded
<1>2. Init => WriteBehindInv
  BY InitTypes, InitOrder DEF WriteBehindInv
<1>3. WriteBehindInv /\ StrandInv /\ [Next]_vars => WriteBehindInv' /\ StrandInv'
  BY NextTypes, NextSlot, NextOrder, NextStrand DEF WriteBehindInv
<1> QED
  BY <1>1, <1>2, <1>3, PTL DEF Spec

\* Queued events always have something that will take them, or a failure was
\* reported (write-behind.ts:45-159).
THEOREM NoneStranded == Spec => []NeverStranded
<1>1. StrandInv => NeverStranded
  BY DEF StrandInv
<1> QED
  BY <1>1, StrandInductive, PTL

\* The controller can cancel every deadline that is armed
\* (write-behind.ts:81-145).
THEOREM OneDeadline == Spec => []OneTimer
<1>1. StrandInv => OneTimer
  BY DEF StrandInv, TimerInv, OneTimer
<1> QED
  BY <1>1, StrandInductive, PTL

-----------------------------------------------------------------------------
(* Part II. The crash repair.                                              *)

\* The events of the log, the traces, and what the scan keeps.
LogEvents ==
  [type : {"turn/start", "turn/end"}, turn : Nat]
  \cup [type : {"step/start", "step/end"}, turn : Nat, step : Nat]
  \cup [type : {"assistant/message"}, turn : Nat, step : Nat, calls : Seq(CallIds)]
  \cup [type : {"tool/call"}, turn : Nat, step : Nat, call : CallIds]
  \cup [type : {"tool/result"}, turn : Nat, step : Nat, call : CallIds,
        notStarted : BOOLEAN]
  \cup [type : {"tool/result"}, turn : Nat, step : Nat, call : CallIds,
        notStarted : BOOLEAN, cites : Nat]

Entries == [call : CallIds, step : Nat, seq : Nat]
Scans   == [openTurn : Nat, openStep : Nat, pending : Seq(Entries), seq : Nat, block : Nat]
Traces  == [openTurn : Nat, openStep : Nat, nextTurn : Nat \ {0}, nextStep : Nat \ {0},
            pendingCalls : SUBSET CallIds]

RepairType ==
  /\ log \in Seq(LogEvents)
  /\ past \in Seq(Traces) /\ Len(past) = Len(log)
  /\ trace \in Traces
  /\ pc \in {"live", "scan", "append"}
  /\ open \in Scans /\ open.seq <= Len(log)
  /\ closers \in Seq(LogEvents)

\* The trace after the first k events, and those of them in the step that is
\* open then.
After(k)  == IF k = Len(log) THEN trace ELSE past[k + 1]
StepOf(s, k) == {i \in 1 .. k : \A j \in i .. k : s[j].type \notin Boundaries}
StepAt(k) == StepOf(log, k)

\* Nothing is open in what is not open.
Nested(tr) ==
  /\ tr.openTurn = 0 => tr.openStep = 0
  /\ tr.openStep = 0 => tr.pendingCalls = {}

\* Every event was accepted, and the traces are those of the prefixes.
PastInv ==
  /\ After(0) = Session!FreshTrace
  /\ \A i \in 1 .. Len(log) : Session!Accepts(past[i], log[i])
  /\ \A i \in 1 .. Len(log) : After(i) = Session!Apply(past[i], log[i])
  /\ \A k \in 0 .. Len(log) : Nested(After(k))

\* A message is the first event of its step; a call has one result in it, and
\* one that was recorded and has none is pending in the trace.
LogInv ==
  /\ \A i \in 1 .. Len(log) : log[i].type = "assistant/message" => StepAt(i - 1) = {}
  /\ \A i, j \in StepAt(Len(log)) :
       log[i].type = "tool/result" /\ log[j].type = "tool/result"
         /\ log[i].call = log[j].call => i = j
  /\ \A i \in StepAt(Len(log)) :
       log[i].type = "tool/call" =>
         \/ log[i].call \in trace.pendingCalls
         \/ \E j \in StepAt(Len(log)) :
              log[j].type = "tool/result" /\ log[j].call = log[i].call

\* Among the first k events the open step has one of that type for call c.
Has(k, type, c) == \E i \in StepAt(k) : log[i].type = type /\ log[i].call = c

\* Call c waits for its result in p, and none waits twice.
Waits(p, c) == \E i \in DOMAIN p : p[i].call = c
Single(p)   == \A i, j \in DOMAIN p : p[i].call = p[j].call => i = j

\* An entry is that of a call without result, and cites the record of its start.
EntryRight(k, turn, step, p) ==
  /\ p.step = step
  /\ ~ Has(k, "tool/result", p.call)
  /\ p.seq = 0 => ~ Has(k, "tool/call", p.call)
  /\ p.seq # 0 =>
       /\ p.seq \in StepAt(k)
       /\ log[p.seq] = Session!ToolCall(turn, step, p.call)

\* These are the open turn and step after k events, and the calls without result.
Knows(k, turn, step, unanswered) ==
  /\ turn = After(k).openTurn /\ step = After(k).openStep
  /\ step = 0 => unanswered = <<>>
  /\ Single(unanswered)
  /\ \A i \in DOMAIN unanswered : EntryRight(k, turn, step, unanswered[i])
  /\ \A m \in StepAt(k) : log[m].type = "assistant/message" =>
       \A x \in DOMAIN log[m].calls :
         Waits(unanswered, log[m].calls[x]) \/ Has(k, "tool/result", log[m].calls[x])

\* The scan knows the prefix it has passed, and of the next message the blocks.
ScanInv ==
  pc = "scan" =>
    /\ Knows(open.seq, open.openTurn, open.openStep, open.pending)
    /\ open.block # 0 =>
         /\ open.seq < Len(log)
         /\ log[open.seq + 1].type = "assistant/message"
         /\ open.block <= Len(log[open.seq + 1].calls)
         /\ \A x \in 1 .. open.block : Waits(open.pending, log[open.seq + 1].calls[x])

\* The closers left are results of the open step, its end, and the turn's.
ClosersShape(cs) ==
  LET n == Len(cs) IN
  /\ n = 0 <=> trace.openTurn = 0
  /\ n # 0 => cs[n] = Session!TurnEnd(trace.openTurn)
  /\ trace.openStep = 0 => n <= 1
  /\ trace.openStep # 0 =>
       n >= 2 /\ cs[n - 1] = Session!StepEnd(trace.openTurn, trace.openStep)
  /\ \A i \in 1 .. n : i < n - 1 => cs[i].type = "tool/result"

\* A closing result is the first of its call, and its advice is right.
ResultRight(e) ==
  /\ e.turn = trace.openTurn /\ e.step = trace.openStep
  /\ ~ Has(Len(log), "tool/result", e.call)
  /\ e.notStarted <=> ~ Has(Len(log), "tool/call", e.call)
  /\ ~ e.notStarted =>
       /\ e.cites \in 1 .. Len(log)
       /\ log[e.cites] = Session!ToolCall(e.turn, e.step, e.call)

\* Among closers cs there is a result of call c.
Answered(cs, c) == \E i \in 1 .. Len(cs) : Answers(cs[i], c)

\* The closers cs answer each call of the open step that has no result, once.
ClosersRight(cs) ==
  /\ ClosersShape(cs)
  /\ \A i \in 1 .. Len(cs) : cs[i].type = "tool/result" => ResultRight(cs[i])
  /\ \A i, j \in 1 .. Len(cs), c \in CallIds :
       Answers(cs[i], c) /\ Answers(cs[j], c) => i = j
  /\ \A m \in StepAt(Len(log)) : log[m].type = "assistant/message" =>
       \A x \in DOMAIN log[m].calls :
         Has(Len(log), "tool/result", log[m].calls[x]) \/ Answered(cs, log[m].calls[x])

ClosersInv == pc = "append" => ClosersRight(closers)

RepairInv == RepairType /\ PastInv /\ LogInv /\ ScanInv /\ ClosersInv

-----------------------------------------------------------------------------
(* Lemmas about events and traces.                                         *)

\* What the type of an event says of its fields.
LEMMA EventFields ==
  ASSUME NEW e \in LogEvents
  PROVE  /\ e.type \in {"turn/start", "turn/end", "step/start", "step/end",
                        "assistant/message", "tool/call", "tool/result"}
         /\ e.turn \in Nat
         /\ e.type \notin {"turn/start", "turn/end"} => e.step \in Nat
         /\ e.type = "assistant/message" => e.calls \in Seq(CallIds)
         /\ e.type \in {"tool/call", "tool/result"} => e.call \in CallIds
         /\ e.type = "tool/call" => e = Session!ToolCall(e.turn, e.step, e.call)
  BY DEF LogEvents, Session!ToolCall

\* The events that are written are events.
LEMMA EventsMade ==
  ASSUME NEW t \in Nat, NEW s \in Nat
  PROVE  /\ Session!TurnStart(t) \in LogEvents
         /\ Session!TurnEnd(t) \in LogEvents
         /\ Session!StepStart(t, s) \in LogEvents
         /\ Session!StepEnd(t, s) \in LogEvents
         /\ \A calls \in Seq(CallIds) : Message(t, s, calls) \in LogEvents
         /\ \A c \in CallIds :
              /\ Session!ToolCall(t, s, c) \in LogEvents
              /\ Session!ToolResult(t, s, c, FALSE) \in LogEvents
              /\ \A q \in Nat : Closer(t, s, c, q) \in LogEvents
  BY DEF LogEvents, Session!TurnStart, Session!TurnEnd, Session!StepStart,
     Session!StepEnd, Message, Session!ToolCall,
     Session!ToolResult, Closer

\* The trace is moved from tr to next by the type of event e.
MovedBy(tr, e, next) ==
  /\ next \in Traces /\ Nested(next)
  /\ e.type = "turn/start" => next.openTurn = e.turn /\ next.openStep = 0
  /\ e.type = "turn/end" => next.openTurn = 0 /\ next.openStep = 0
  /\ e.type = "step/start" =>
       next.openTurn = tr.openTurn /\ next.openStep = e.step /\ tr.openStep = 0
  /\ e.type = "step/end" => next.openTurn = tr.openTurn /\ next.openStep = 0
  /\ e.type \in {"assistant/message", "tool/call", "tool/result"} =>
       /\ next.openTurn = tr.openTurn /\ next.openStep = tr.openStep
       /\ e.turn = tr.openTurn /\ e.step = tr.openStep
       /\ tr.openTurn # 0 /\ tr.openStep # 0
  /\ next.pendingCalls =
       IF e.type = "step/end" THEN {}
       ELSE IF e.type = "tool/call" THEN tr.pendingCalls \cup {e.call}
       ELSE IF e.type = "tool/result" THEN tr.pendingCalls \ {e.call}
       ELSE tr.pendingCalls

\* An accepted event moves the trace by its type.
LEMMA Moved ==
  ASSUME NEW tr \in Traces, NEW e \in LogEvents, Session!Accepts(tr, e), Nested(tr),
         NEW next, next = Session!Apply(tr, e)
  PROVE  MovedBy(tr, e, next)
<1>1. /\ e.type \in {"turn/start", "turn/end", "step/start", "step/end",
                     "assistant/message", "tool/call", "tool/result"}
      /\ e.turn \in Nat
      /\ e.type \notin {"turn/start", "turn/end"} => e.step \in Nat
      /\ e.type \in {"tool/call", "tool/result"} => e.call \in CallIds
  BY EventFields
<1>. USE <1>1 DEF MovedBy, Traces, Nested, Session!Apply, Session!Accepts,
         Session!InOpenStep, Session!InOpenTurn, Session!NoTurn,
         Session!NoStep
<1>2. CASE e.type = "turn/start"
  BY <1>2
<1>3. CASE e.type = "turn/end"
  BY <1>3
<1>4. CASE e.type = "step/start"
  BY <1>4
<1>5. CASE e.type = "step/end"
  BY <1>5
<1>6. CASE e.type \in {"assistant/message", "tool/call", "tool/result"}
  BY <1>6
<1>. QED
  BY <1>1, <1>2, <1>3, <1>4, <1>5, <1>6

-----------------------------------------------------------------------------
(* Lemmas about the open step of a prefix.                                 *)

\* One more event ends the step or is in it.
LEMMA StepGrows ==
  ASSUME NEW s, NEW k \in Nat
  PROVE  StepOf(s, k + 1) = IF s[k + 1].type \in Boundaries THEN {}
                            ELSE StepOf(s, k) \cup {k + 1}
<1>1. CASE s[k + 1].type \in Boundaries
  <2>1. ASSUME NEW i \in 1 .. k + 1 PROVE k + 1 \in i .. k + 1
    OBVIOUS
  <2>. QED
    BY <1>1, <2>1 DEF StepOf
<1>2. CASE s[k + 1].type \notin Boundaries
  <2>1. ASSUME NEW i \in 1 .. k PROVE i .. k + 1 = (i .. k) \cup {k + 1}
    OBVIOUS
  <2>2. 1 .. k + 1 = (1 .. k) \cup {k + 1} /\ k + 1 .. k + 1 = {k + 1}
    OBVIOUS
  <2>. QED
    BY <1>2, <2>1, <2>2 DEF StepOf
<1>. QED
  BY <1>1, <1>2

\* The open step of a prefix does not depend on what follows it.
LEMMA StepStays ==
  ASSUME NEW s, NEW t, NEW k \in Nat, \A i \in 1 .. k : s[i] = t[i]
  PROVE  StepOf(s, k) = StepOf(t, k)
<1>1. ASSUME NEW i \in 1 .. k, NEW j \in i .. k PROVE s[j] = t[j]
  BY <1>1
<1>. QED
  BY <1>1 DEF StepOf

\* Nothing is open before the first event.
LEMMA StepEmpty == \A s : StepOf(s, 0) = {}
  BY DEF StepOf

\* The model's operators on the open step, by StepAt.
LEMMA OpenStepIs ==
  ASSUME RepairType
  PROVE  /\ OpenStep = StepAt(Len(log))
         /\ \A c : c \in Asked <=>
              \E m \in StepAt(Len(log)) : /\ log[m].type = "assistant/message"
                                          /\ \E x \in DOMAIN log[m].calls : c = log[m].calls[x]
         /\ \A c \in CallIds, type \in {"tool/call", "tool/result"} :
              c \in Seen(type) <=> Has(Len(log), type, c)
<1>1. DOMAIN log = 1 .. Len(log)
  BY DEF RepairType
<1>2. OpenStep = StepAt(Len(log))
  BY <1>1 DEF OpenStep, StepAt, StepOf
<1>3. ASSUME NEW c
      PROVE  c \in Asked <=>
              \E m \in StepAt(Len(log)) : /\ log[m].type = "assistant/message"
                                          /\ \E x \in DOMAIN log[m].calls : c = log[m].calls[x]
  <2>1. Asked = UNION {Range(log[i].calls) :
          i \in {j \in StepAt(Len(log)) : log[j].type = "assistant/message"}}
    BY <1>2 DEF Asked
  <2>. QED
    BY <2>1 DEF Range
<1>. QED
  BY <1>2, <1>3 DEF Seen, Has

-----------------------------------------------------------------------------
(* The log is written.                                                     *)

\* What Record leaves of the log and of the history.
LEMMA RecordFacts ==
  ASSUME RepairType, NEW e \in LogEvents, Record(e)
  PROVE  /\ log' \in Seq(LogEvents) /\ past' \in Seq(Traces)
         /\ Len(log) \in Nat /\ Len(log') = Len(log) + 1 /\ Len(past') = Len(log')
         /\ \A i \in 1 .. Len(log) : log'[i] = log[i] /\ past'[i] = past[i]
         /\ log'[Len(log) + 1] = e /\ past'[Len(log) + 1] = trace
         /\ trace' = Session!Apply(trace, e)
         /\ \A k \in 0 .. Len(log) : After(k)' = After(k)
         /\ \A k \in 0 .. Len(log) : StepOf(log', k) = StepOf(log, k)
         /\ StepOf(log', Len(log')) = IF e.type \in Boundaries THEN {}
                                      ELSE StepOf(log, Len(log)) \cup {Len(log) + 1}
<1>1. /\ log \in Seq(LogEvents) /\ past \in Seq(Traces) /\ Len(past) = Len(log)
      /\ trace \in Traces /\ Len(log) \in Nat
  BY DEF RepairType
<1>2. log' = Append(log, e) /\ past' = Append(past, trace)
      /\ trace' = Session!Apply(trace, e)
  BY DEF Record
<1>3. /\ Append(log, e) \in Seq(LogEvents) /\ Len(Append(log, e)) = Len(log) + 1
      /\ \A i \in 1 .. Len(log) : Append(log, e)[i] = log[i]
      /\ Append(log, e)[Len(log) + 1] = e
  BY <1>1, AppendProperties
<1>4. /\ Append(past, trace) \in Seq(Traces) /\ Len(Append(past, trace)) = Len(log) + 1
      /\ \A i \in 1 .. Len(log) : Append(past, trace)[i] = past[i]
      /\ Append(past, trace)[Len(log) + 1] = trace
  BY <1>1, AppendProperties
<1>5. /\ log' \in Seq(LogEvents) /\ past' \in Seq(Traces)
      /\ Len(log) \in Nat /\ Len(log') = Len(log) + 1 /\ Len(past') = Len(log')
      /\ \A i \in 1 .. Len(log) : log'[i] = log[i] /\ past'[i] = past[i]
      /\ log'[Len(log) + 1] = e /\ past'[Len(log) + 1] = trace
  BY <1>1, <1>2, <1>3, <1>4
<1>6. ASSUME NEW k \in 0 .. Len(log) PROVE After(k)' = After(k)
  BY <1>5 DEF After
<1>7. ASSUME NEW k \in 0 .. Len(log) PROVE StepOf(log', k) = StepOf(log, k)
  <2>1. k \in Nat /\ \A i \in 1 .. k : log'[i] = log[i]
    BY <1>5
  <2>. QED
    BY <2>1, StepStays
<1>8. StepOf(log', Len(log')) = IF e.type \in Boundaries THEN {}
                                ELSE StepOf(log, Len(log)) \cup {Len(log) + 1}
  <2>1. StepOf(log', Len(log) + 1) =
          IF log'[Len(log) + 1].type \in Boundaries THEN {}
          ELSE StepOf(log', Len(log)) \cup {Len(log) + 1}
    BY <1>5, StepGrows
  <2>2. StepOf(log', Len(log)) = StepOf(log, Len(log))
    BY <1>5, <1>7
  <2>. QED
    BY <1>5, <2>1, <2>2
<1>. QED
  BY <1>2, <1>5, <1>6, <1>7, <1>8

\* The trace is one of the history's.
LEMMA TraceNow == ASSUME RepairType, PastInv PROVE trace \in Traces /\ Nested(trace)
<1>1. Len(log) \in Nat /\ After(Len(log)) = trace
  BY DEF RepairType, After
<1>. QED
  BY <1>1 DEF RepairType, PastInv

\* An accepted event leaves a history of accepted events.
LEMMA RecordPast ==
  ASSUME RepairType, PastInv, NEW e \in LogEvents, Session!Accepts(trace, e),
         Record(e)
  PROVE  PastInv' /\ trace' \in Traces
<1>1. /\ Len(log) \in Nat /\ Len(log') = Len(log) + 1 /\ Len(past') = Len(log')
      /\ \A i \in 1 .. Len(log) : log'[i] = log[i] /\ past'[i] = past[i]
      /\ log'[Len(log) + 1] = e /\ past'[Len(log) + 1] = trace
      /\ trace' = Session!Apply(trace, e)
      /\ \A k \in 0 .. Len(log) : After(k)' = After(k)
  BY RecordFacts
<1>2. trace \in Traces /\ Nested(trace)
  BY TraceNow
<1>n. PICK n \in Nat : n = Len(log)
  BY <1>1
<1>3. trace' \in Traces /\ Nested(trace')
  <2>. DEFINE next == Session!Apply(trace, e)
  <2>1. next \in Traces /\ Nested(next)
    BY <1>2, Moved DEF MovedBy
  <2>2. trace' = next
    BY <1>1
  <2>. HIDE DEF next
  <2>. QED
    BY <2>1, <2>2
<1>4. After(n + 1)' = trace'
  BY <1>1, <1>n DEF After
<1>5. \A i \in 1 .. Len(log') : i \in 1 .. Len(log) \/ i = Len(log) + 1
  BY <1>1
<1>6. (After(0) = Session!FreshTrace)'
  BY <1>1 DEF PastInv, Session!FreshTrace, Session!NoTurn, Session!NoStep
<1>7. \A i \in 1 .. Len(log') : Session!Accepts(past'[i], log'[i])
  BY <1>1, <1>5 DEF PastInv
<1>8. \A i \in 1 .. Len(log') : After(i)' = Session!Apply(past'[i], log'[i])
  <2>1. ASSUME NEW i \in 1 .. Len(log) PROVE After(i)' = Session!Apply(past'[i], log'[i])
    BY <1>1, <2>1 DEF PastInv
  <2>2. After(n + 1)' = Session!Apply(past'[n + 1], log'[n + 1])
    BY <1>1, <1>4, <1>n
  <2>. QED
    BY <1>5, <1>n, <2>1, <2>2
<1>9. \A k \in 0 .. Len(log') : Nested(After(k)')
  <2>1. \A k \in 0 .. Len(log) : Nested(After(k)')
    BY <1>1 DEF PastInv
  <2>2. Nested(After(n + 1)')
    BY <1>3, <1>4
  <2>. QED
    BY <1>1, <1>n, <2>1, <2>2
<1>. QED
  BY <1>2, <1>3, <1>6, <1>7, <1>8, <1>9 DEF PastInv, Nested

\* A message that is the first of its step and a result that is the first of its
\* call keep the log in order.
LEMMA RecordLog ==
  ASSUME RepairType, PastInv, LogInv, NEW e \in LogEvents, Session!Accepts(trace, e),
         Record(e),
         e.type = "assistant/message" => StepAt(Len(log)) = {},
         e.type = "tool/result" => ~ Has(Len(log), "tool/result", e.call)
  PROVE  LogInv'
<1>. DEFINE n == Len(log)
            S == StepOf(log, n)
            T == StepOf(log', Len(log'))
<1>1. /\ n \in Nat /\ Len(log') = n + 1
      /\ \A i \in 1 .. n : log'[i] = log[i]
      /\ log'[n + 1] = e
      /\ trace' = Session!Apply(trace, e)
      /\ \A k \in 0 .. n : StepOf(log', k) = StepOf(log, k)
      /\ T = IF e.type \in Boundaries THEN {} ELSE S \cup {n + 1}
  BY RecordFacts
<1>2. trace \in Traces /\ Nested(trace)
  BY TraceNow
<1>3. S \subseteq 1 .. n
  BY DEF StepOf
<1>4. /\ e.type \in {"turn/start", "turn/end", "step/start", "step/end",
                     "assistant/message", "tool/call", "tool/result"}
      /\ e.type \in {"tool/call", "tool/result"} => e.call \in CallIds
  BY EventFields
<1>5. e.type \notin Boundaries =>
        e.type \in {"assistant/message", "tool/call", "tool/result"}
  BY <1>4 DEF Boundaries
<1>6. e.type \notin Boundaries =>
        trace'.pendingCalls = IF e.type = "tool/call" THEN trace.pendingCalls \cup {e.call}
                              ELSE IF e.type = "tool/result" THEN trace.pendingCalls \ {e.call}
                              ELSE trace.pendingCalls
  <2>. DEFINE next == Session!Apply(trace, e)
  <2>1. MovedBy(trace, e, next)
    BY <1>2, Moved
  <2>2. trace' = next
    BY <1>1
  <2>. HIDE DEF next
  <2>. QED
    BY <1>5, <2>1, <2>2 DEF MovedBy
<1>. HIDE DEF n, S, T
<1>7. \A i \in 1 .. n + 1 :
        log'[i].type = "assistant/message" => StepOf(log', i - 1) = {}
  <2>1. ASSUME NEW i \in 1 .. n, log'[i].type = "assistant/message" PROVE StepOf(log', i - 1) = {}
    <3>1. log[i].type = "assistant/message" /\ i - 1 \in 0 .. n
      BY <1>1, <2>1
    <3>2. StepOf(log, i - 1) = {}
      BY <2>1, <3>1 DEF LogInv, StepAt, n
    <3>. QED
      BY <1>1, <3>1, <3>2
  <2>2. ASSUME log'[n + 1].type = "assistant/message" PROVE StepOf(log', n + 1 - 1) = {}
    <3>1. S = {} /\ n + 1 - 1 = n /\ n \in 0 .. n
      BY <1>1, <2>2 DEF StepAt, n, S
    <3>. QED
      BY <1>1, <3>1 DEF S
  <2>. QED
    BY <1>1, <2>1, <2>2
<1>8. CASE e.type \in Boundaries
  <2>1. T = {}
    BY <1>1, <1>8
  <2>. QED
    BY <1>1, <1>7, <2>1 DEF LogInv, StepAt, T
<1>9. CASE e.type \notin Boundaries
  <2>1. T = S \cup {n + 1} /\ n + 1 \notin S
    BY <1>1, <1>3, <1>9
  <2>2. \A i \in S : log'[i] = log[i]
    BY <1>1, <1>3
  <2>3. \A i, j \in T :
          log'[i].type = "tool/result" /\ log'[j].type = "tool/result"
            /\ log'[i].call = log'[j].call => i = j
    <3>1. \A i, j \in S :
            log[i].type = "tool/result" /\ log[j].type = "tool/result"
              /\ log[i].call = log[j].call => i = j
      BY DEF LogInv, StepAt, S, n
    <3>2. \A i \in S : log[i].type = "tool/result" /\ e.type = "tool/result" =>
            log[i].call # e.call
      BY DEF Has, StepAt, S, n
    <3>. QED
      BY <1>1, <2>1, <2>2, <3>1, <3>2
  <2>4. ASSUME NEW i \in T, log'[i].type = "tool/call"
        PROVE  \/ log'[i].call \in trace'.pendingCalls
               \/ \E j \in T : log'[j].type = "tool/result" /\ log'[j].call = log'[i].call
    <3>1. CASE i = n + 1
      BY <1>1, <1>6, <1>9, <2>4, <3>1
    <3>2. CASE i \in S
      <4>1. log'[i] = log[i] /\ log[i].type = "tool/call"
        BY <2>2, <2>4, <3>2
      <4>2. CASE log[i].call \in trace.pendingCalls
        <5>1. CASE e.type = "tool/result" /\ e.call = log[i].call
          BY <1>1, <2>1, <4>1, <5>1
        <5>2. CASE ~ (e.type = "tool/result" /\ e.call = log[i].call)
          BY <1>6, <1>9, <4>1, <4>2, <5>2
        <5>. QED
          BY <5>1, <5>2
      <4>3. CASE \E j \in S : log[j].type = "tool/result" /\ log[j].call = log[i].call
        BY <2>1, <2>2, <4>1, <4>3
      <4>. QED
        BY <3>2, <4>1, <4>2, <4>3 DEF LogInv, StepAt, S, n
    <3>. QED
      BY <2>1, <3>1, <3>2
  <2>. QED
    BY <1>1, <1>7, <2>3, <2>4 DEF LogInv, StepAt, T
<1>. QED
  BY <1>8, <1>9

-----------------------------------------------------------------------------
(* The scan.                                                               *)

\* In q call c of step s waits, unrecorded, and of p no call is forgotten.
Pended(p, s, c, q) ==
  /\ q \in Seq(Entries) /\ Single(q)
  /\ Waits(q, c)
  /\ \A i \in DOMAIN q : \/ q[i] = [call |-> c, step |-> s, seq |-> 0]
                         \/ \E j \in DOMAIN p : q[i] = p[j]
  /\ \A d : Waits(p, d) => Waits(q, d)

\* A call of a message is added once, and no other is disturbed.
LEMMA PendFacts ==
  ASSUME NEW p \in Seq(Entries), Single(p), NEW s \in Nat, NEW c \in CallIds
  PROVE  Pended(p, s, c, Pend(p, s, c))
<1>q. PICK q : q = Pend(p, s, c)
  OBVIOUS
<1>. SUFFICES Pended(p, s, c, q)
  BY <1>q
<1>. DEFINE entry == [call |-> c, step |-> s, seq |-> 0]
<1>1. entry \in Entries /\ entry.call = c
  BY DEF Entries
<1>2. Len(p) \in Nat /\ DOMAIN p = 1 .. Len(p) /\ \A i \in 1 .. Len(p) : p[i] \in Entries
  OBVIOUS
<1>. HIDE DEF entry
<1>3. CASE \E i \in DOMAIN p : p[i].call = c
  <2>1. q = [i \in DOMAIN p |-> IF p[i].call = c THEN entry ELSE p[i]]
    BY <1>3, <1>q DEF Pend, entry
  <2>2. q \in Seq(Entries) /\ DOMAIN q = DOMAIN p
    BY <1>1, <1>2, <2>1, IsASeq
  <2>3. \A i \in DOMAIN p : q[i].call = p[i].call
    BY <1>1, <2>1
  <2>. QED
    BY <1>3, <2>1, <2>2, <2>3 DEF Single, Pended, Waits, entry
<1>4. CASE ~ \E i \in DOMAIN p : p[i].call = c
  <2>1. q = Append(p, entry)
    BY <1>4, <1>q DEF Pend, entry
  <2>2. /\ q \in Seq(Entries) /\ Len(q) = Len(p) + 1
        /\ \A i \in 1 .. Len(p) : q[i] = p[i]
        /\ q[Len(p) + 1] = entry
    BY <1>1, <2>1, AppendProperties
  <2>3. DOMAIN q = 1 .. Len(p) + 1
    BY <2>2
  <2>4. \A i \in DOMAIN q : i \in DOMAIN p \/ i = Len(p) + 1
    BY <1>2, <2>3
  <2>5. DOMAIN p \subseteq DOMAIN q /\ Len(p) + 1 \in DOMAIN q
    BY <1>2, <2>3
  <2>6. Single(q)
    BY <1>1, <1>2, <1>4, <2>2, <2>4 DEF Single
  <2>. QED
    BY <1>1, <1>2, <2>2, <2>4, <2>5, <2>6 DEF Pended, Waits, entry
<1>. QED
  BY <1>3, <1>4

\* The record of a call's start reaches its entry and no other.
LEMMA CiteFacts ==
  ASSUME NEW p \in Seq(Entries), Single(p), NEW c, NEW n \in Nat,
         NEW q, q = Cite(p, c, n)
  PROVE  /\ q \in Seq(Entries) /\ Single(q) /\ DOMAIN q = DOMAIN p
         /\ \A i \in DOMAIN p : /\ q[i].call = p[i].call /\ q[i].step = p[i].step
                                /\ q[i].seq = IF p[i].call = c THEN n ELSE p[i].seq
<1>1. Len(p) \in Nat /\ DOMAIN p = 1 .. Len(p) /\ \A i \in 1 .. Len(p) : p[i] \in Entries
  OBVIOUS
<1>2. q = [i \in DOMAIN p |-> IF p[i].call = c THEN [p[i] EXCEPT !.seq = n] ELSE p[i]]
  BY DEF Cite
<1>3. \A i \in DOMAIN p : /\ q[i] \in Entries
                          /\ q[i].call = p[i].call /\ q[i].step = p[i].step
                          /\ q[i].seq = IF p[i].call = c THEN n ELSE p[i].seq
  BY <1>1, <1>2 DEF Entries
<1>4. q \in Seq(Entries) /\ DOMAIN q = DOMAIN p
  <2>1. q = [i \in 1 .. Len(p) |-> q[i]]
    BY <1>1, <1>2
  <2>. QED
    BY <1>1, <1>3, <2>1, IsASeq
<1>. QED
  BY <1>3, <1>4 DEF Single

\* The entries of q are those of p whose call is not c.
Unpended(p, c, q) ==
  /\ q \in Seq(Entries) /\ Single(q)
  /\ \A i \in DOMAIN q : \E j \in DOMAIN p : q[i] = p[j] /\ p[j].call # c
  /\ \A j \in DOMAIN p : p[j].call # c => \E i \in DOMAIN q : q[i] = p[j]

\* A call with a result waits no more, and the others do.
LEMMA UnpendFacts ==
  ASSUME NEW p \in Seq(Entries), Single(p), NEW c,
         NEW q, q = Unpend(p, c)
  PROVE  Unpended(p, c, q)
<1>. DEFINE place == {i \in DOMAIN p : p[i].call = c}
<1>1. Len(p) \in Nat /\ DOMAIN p = 1 .. Len(p) /\ \A i \in 1 .. Len(p) : p[i] \in Entries
  OBVIOUS
<1>2. CASE place = {}
  <2>1. q = p
    BY <1>2 DEF Unpend
  <2>. QED
    BY <1>2, <2>1 DEF Unpended
<1>3. CASE place # {}
  <2>. DEFINE x == CHOOSE i \in place : TRUE
  <2>1. x \in place
    BY <1>3
  <2>2. q = [j \in 1 .. Len(p) - 1 |-> IF j < x THEN p[j] ELSE p[j + 1]]
    BY <1>3 DEF Unpend
  <2>3. x \in 1 .. Len(p) /\ p[x].call = c
    BY <1>1, <2>1
  <2>. HIDE DEF x, place
  <2>4. Len(p) - 1 \in Nat
    BY <1>1, <2>3
  <2>5. q \in Seq(Entries) /\ DOMAIN q = 1 .. Len(p) - 1
    <3>1. \A j \in 1 .. Len(p) - 1 : q[j] \in Entries
      BY <1>1, <2>2, <2>3
    <3>2. q = [j \in 1 .. Len(p) - 1 |-> q[j]]
      BY <2>2
    <3>. QED
      BY <2>4, <3>1, <3>2, IsASeq
  <2>6. \A j \in 1 .. Len(p) : j # x => p[j].call # c
    BY <1>1, <2>3 DEF Single
  <2>7. ASSUME NEW i \in DOMAIN q PROVE \E j \in DOMAIN p : q[i] = p[j] /\ p[j].call # c
    <3>1. CASE i < x
      BY <1>1, <2>2, <2>3, <2>5, <2>6, <3>1
    <3>2. CASE ~ i < x
      <4>1. q[i] = p[i + 1] /\ i + 1 \in 1 .. Len(p) /\ i + 1 # x
        BY <1>1, <2>2, <2>3, <2>5, <3>2
      <4>. QED
        BY <1>1, <2>6, <4>1
    <3>. QED
      BY <3>1, <3>2
  <2>8. ASSUME NEW j \in DOMAIN p, p[j].call # c PROVE \E i \in DOMAIN q : q[i] = p[j]
    <3>1. CASE j < x
      BY <1>1, <2>2, <2>3, <2>5, <3>1
    <3>2. CASE ~ j < x
      <4>1. j > x
        BY <1>1, <2>3, <2>8, <3>2
      <4>2. j - 1 \in DOMAIN q /\ ~ j - 1 < x /\ j - 1 + 1 = j
        BY <1>1, <2>3, <2>5, <4>1
      <4>. QED
        BY <2>2, <2>5, <4>2
    <3>. QED
      BY <3>1, <3>2
  <2>9. Single(q)
    <3>1. ASSUME NEW i \in DOMAIN q, NEW j \in DOMAIN q, q[i].call = q[j].call PROVE i = j
      <4>. DEFINE f(m) == IF m < x THEN m ELSE m + 1
      <4>1. f(i) \in DOMAIN p /\ f(j) \in DOMAIN p /\ q[i] = p[f(i)] /\ q[j] = p[f(j)]
        BY <1>1, <2>2, <2>3, <2>5
      <4>2. f(i) = f(j)
        BY <3>1, <4>1 DEF Single
      <4>. QED
        BY <2>3, <2>5, <4>2
    <3>. QED
      BY <3>1 DEF Single
  <2>. QED
    BY <2>5, <2>7, <2>8, <2>9 DEF Unpended
<1>. QED
  BY <1>2, <1>3

\* The event the scan is at, and the traces before and after it.
LEMMA ScanAt ==
  ASSUME RepairType, PastInv, LogInv, Scan, NEW k, k = open.seq, NEW e, e = log[k + 1]
  PROVE  /\ k \in Nat /\ Len(log) \in Nat /\ k + 1 <= Len(log) /\ e \in LogEvents
         /\ After(k) \in Traces /\ Nested(After(k))
         /\ Session!Accepts(After(k), e)
         /\ After(k + 1) = Session!Apply(After(k), e)
         /\ StepAt(k + 1) = IF e.type \in Boundaries THEN {} ELSE StepAt(k) \cup {k + 1}
         /\ StepAt(k) \subseteq 1 .. k
         /\ e.type = "assistant/message" => StepAt(k) = {}
<1>1. k \in Nat /\ Len(log) \in Nat /\ k < Len(log)
  BY DEF Scan, RepairType, Scans
<1>2. k + 1 \in 1 .. Len(log) /\ k \in 0 .. Len(log) /\ k # Len(log)
  BY <1>1
<1>3. After(k) = past[k + 1]
  BY <1>2 DEF After
<1>4. past[k + 1] \in Traces /\ e \in LogEvents
  BY <1>2 DEF RepairType
<1>5. StepAt(k + 1) = IF e.type \in Boundaries THEN {} ELSE StepAt(k) \cup {k + 1}
  BY <1>1, StepGrows DEF StepAt
<1>6. StepAt(k) \subseteq 1 .. k
  BY DEF StepAt, StepOf
<1>7. e.type = "assistant/message" => StepAt(k) = {}
  <2>1. k + 1 - 1 = k
    BY <1>1
  <2>2. e.type = "assistant/message" => StepAt(k + 1 - 1) = {}
    BY <1>2 DEF LogInv
  <2>. QED
    BY <2>1, <2>2
<1>. QED
  BY <1>1, <1>2, <1>3, <1>4, <1>5, <1>6, <1>7 DEF PastInv

\* A scan that knows the prefix up to the next event has passed it.
LEMMA PassKeeps ==
  ASSUME RepairType, PastInv, LogInv, Scan,
         NEW t \in Nat, NEW s \in Nat, NEW p \in Seq(Entries),
         open' = Passed(t, s, p),
         Knows(open.seq + 1, t, s, p)
  PROVE  open' \in Scans /\ open'.seq <= Len(log) /\ ScanInv'
<1>1. open.seq \in Nat /\ Len(log) \in Nat /\ open.seq + 1 <= Len(log)
  BY ScanAt
<1>2. UNCHANGED <<log, trace, past, pc, closers>>
  BY DEF Scan
<1>3. /\ open'.openTurn = t /\ open'.openStep = s /\ open'.pending = p
      /\ open'.seq = open.seq + 1 /\ open'.block = 0 /\ open' \in Scans
  BY <1>1 DEF Passed, Scans
<1>4. PICK k \in Nat : k = open.seq + 1
  BY <1>1
<1>5. Knows(k, t, s, p)'
  BY <1>2, <1>4 DEF Knows, After, StepAt, Has, EntryRight
<1>. QED
  BY <1>1, <1>3, <1>4, <1>5 DEF ScanInv

\* A boundary is passed with nothing pending.
LEMMA BoundaryPassed ==
  ASSUME NEW k \in Nat, StepAt(k) = {}, NEW t, NEW s,
         t = After(k).openTurn, s = After(k).openStep
  PROVE  Knows(k, t, s, <<>>)
  BY DEF Knows, Single

\* The scan takes the next block of a message.
LEMMA BlockKeeps ==
  ASSUME RepairType, PastInv, LogInv, ScanInv, Scan,
         NEW e, e = log[open.seq + 1], e.type = "assistant/message", open.block < Len(e.calls)
  PROVE  open' \in Scans /\ open'.seq <= Len(log) /\ ScanInv'
<1>1. PICK k \in Nat : k = open.seq
  BY ScanAt
<1>2. /\ k + 1 <= Len(log) /\ e \in LogEvents /\ Len(log) \in Nat
      /\ After(k) \in Traces /\ Nested(After(k))
      /\ Session!Accepts(After(k), e)
      /\ StepAt(k) = {}
  BY <1>1, ScanAt
<1>3. UNCHANGED <<log, trace, past, pc, closers>> /\ pc = "scan"
  BY DEF Scan
<1>p. PICK p, c, q, t, s, b :
        /\ p = open.pending /\ t = open.openTurn /\ s = open.openStep /\ b = open.block
        /\ c = e.calls[b + 1] /\ q = Pend(p, e.step, c)
  OBVIOUS
<1>4. open \in Scans /\ e.calls \in Seq(CallIds) /\ e.step \in Nat
  BY <1>2, EventFields DEF RepairType
<1>5. /\ p \in Seq(Entries) /\ t \in Nat /\ s \in Nat
      /\ b \in Nat /\ b + 1 \in DOMAIN e.calls /\ b + 1 <= Len(e.calls)
      /\ c \in CallIds
  BY <1>4, <1>p DEF Scans
<1>6. e.step = After(k).openStep /\ After(k).openStep # 0
  <2>1. PICK next : next = Session!Apply(After(k), e)
    OBVIOUS
  <2>2. MovedBy(After(k), e, next)
    BY <1>2, <2>1, Moved
  <2>. QED
    BY <2>2 DEF MovedBy
<1>7. Knows(k, t, s, p)
  BY <1>1, <1>3, <1>p DEF ScanInv
<1>8. Pended(p, e.step, c, q)
  <2>1. Single(p)
    BY <1>7 DEF Knows
  <2>2. PICK d \in Nat : d = e.step
    BY <1>4
  <2>3. Pended(p, d, c, Pend(p, d, c))
    BY <1>5, <2>1, PendFacts
  <2>. QED
    BY <1>p, <2>2, <2>3
<1>9. open' = [open EXCEPT !.pending = q, !.block = b + 1]
  BY <1>p DEF Scan, ScanEvent
<1>10. /\ open' \in Scans /\ open'.seq = k /\ open'.pending = q
       /\ open'.openTurn = t /\ open'.openStep = s /\ open'.block = b + 1
  <2>1. PICK o \in Scans : o = open
    BY <1>4
  <2>2. q \in Seq(Entries) /\ b + 1 \in Nat
    BY <1>5, <1>8 DEF Pended
  <2>3. \A n \in Nat : LET next == [o EXCEPT !.pending = q, !.block = n] IN
          /\ next \in Scans /\ next.seq = o.seq /\ next.pending = q
          /\ next.openTurn = o.openTurn /\ next.openStep = o.openStep /\ next.block = n
    BY <2>2 DEF Scans
  <2>4. open' = [o EXCEPT !.pending = q, !.block = b + 1]
    BY <1>9, <2>1
  <2>. QED
    BY <1>1, <1>p, <2>1, <2>2, <2>3, <2>4
<1>11. Knows(k, t, s, q)
  <2>1. \A d, type : ~ Has(k, type, d)
    BY <1>2 DEF Has
  <2>2. s # 0 /\ s = e.step
    BY <1>6, <1>7 DEF Knows
  <2>3. ASSUME NEW i \in DOMAIN q PROVE EntryRight(k, t, s, q[i])
    <3>1. CASE q[i] = [call |-> c, step |-> e.step, seq |-> 0]
      BY <2>1, <2>2, <3>1 DEF EntryRight
    <3>2. CASE \E j \in DOMAIN p : q[i] = p[j]
      BY <1>7, <3>2 DEF Knows
    <3>. QED
      BY <1>8, <3>1, <3>2 DEF Pended
  <2>4. t = After(k).openTurn /\ s = After(k).openStep
    BY <1>7 DEF Knows
  <2>5. Single(q)
    BY <1>8 DEF Pended
  <2>. QED
    BY <1>2, <2>2, <2>3, <2>4, <2>5 DEF Knows
<1>12. ASSUME NEW x \in 1 .. b + 1 PROVE Waits(q, e.calls[x])
  <2>1. CASE x = b + 1
    BY <1>8, <1>p, <2>1 DEF Pended
  <2>2. CASE x \in 1 .. b
    <3>1. Waits(p, e.calls[x])
      BY <1>1, <1>3, <1>5, <1>p, <2>2 DEF ScanInv
    <3>. QED
      BY <1>8, <3>1 DEF Pended
  <2>. QED
    BY <1>5, <2>1, <2>2
<1>13. Knows(k, t, s, q)'
  BY <1>3, <1>11 DEF Knows, After, StepAt, Has, EntryRight
<1>14. open'.block <= Len(e.calls) /\ open'.block # 0 /\ e = log'[k + 1]
  BY <1>1, <1>3, <1>5, <1>10
<1>. QED
  BY <1>2, <1>3, <1>10, <1>12, <1>13, <1>14 DEF ScanInv

\* The scan passes the record of a call's start.
LEMMA CitePasses ==
  ASSUME NEW k \in Nat, NEW e \in LogEvents, e = log[k + 1], e.type = "tool/call",
         StepAt(k) \subseteq 1 .. k, StepAt(k + 1) = StepAt(k) \cup {k + 1},
         NEW t, NEW s, NEW p \in Seq(Entries), Knows(k, t, s, p), s # 0,
         e.turn = t, e.step = s,
         After(k + 1).openTurn = t, After(k + 1).openStep = s,
         NEW q, q = Cite(p, e.call, k + 1)
  PROVE  q \in Seq(Entries) /\ Knows(k + 1, t, s, q)
<1>1. Single(p)
  BY DEF Knows
<1>2. /\ q \in Seq(Entries) /\ Single(q) /\ DOMAIN q = DOMAIN p
      /\ \A i \in DOMAIN p : /\ q[i].call = p[i].call /\ q[i].step = p[i].step
                             /\ q[i].seq = IF p[i].call = e.call THEN k + 1 ELSE p[i].seq
  BY <1>1, CiteFacts
<1>3. e = Session!ToolCall(t, s, e.call)
  BY EventFields
<1>4. \A d : Has(k + 1, "tool/result", d) <=> Has(k, "tool/result", d)
  BY DEF Has
<1>5. \A d : d # e.call => (Has(k + 1, "tool/call", d) <=> Has(k, "tool/call", d))
  BY DEF Has
<1>6. ASSUME NEW i \in DOMAIN q PROVE EntryRight(k + 1, t, s, q[i])
  <2>1. EntryRight(k, t, s, p[i])
    BY <1>2, <1>6 DEF Knows
  <2>2. /\ q[i].call = p[i].call /\ q[i].step = s /\ ~ Has(k + 1, "tool/result", q[i].call)
    BY <1>2, <1>4, <1>6, <2>1 DEF EntryRight
  <2>3. CASE p[i].call = e.call
    <3>1. q[i].seq = k + 1
      BY <1>2, <1>6, <2>3
    <3>. QED
      BY <1>3, <2>2, <2>3, <3>1 DEF EntryRight
  <2>4. CASE p[i].call # e.call
    <3>1. q[i].seq = p[i].seq
      BY <1>2, <1>6, <2>4
    <3>. QED
      BY <1>5, <2>1, <2>2, <2>4, <3>1 DEF EntryRight
  <2>. QED
    BY <2>3, <2>4
<1>7. ASSUME NEW m \in StepAt(k + 1), log[m].type = "assistant/message",
             NEW x \in DOMAIN log[m].calls
      PROVE  Waits(q, log[m].calls[x]) \/ Has(k + 1, "tool/result", log[m].calls[x])
  <2>1. m \in StepAt(k)
    BY <1>7
  <2>2. Waits(p, log[m].calls[x]) \/ Has(k, "tool/result", log[m].calls[x])
    BY <1>7, <2>1 DEF Knows
  <2>3. \A d : Waits(p, d) => Waits(q, d)
    BY <1>2 DEF Waits
  <2>. QED
    BY <1>4, <2>2, <2>3
<1>. QED
  BY <1>2, <1>6, <1>7 DEF Knows

\* The scan passes a result.
LEMMA UnpendPasses ==
  ASSUME NEW k \in Nat, NEW e \in LogEvents, e = log[k + 1], e.type = "tool/result",
         StepAt(k) \subseteq 1 .. k, StepAt(k + 1) = StepAt(k) \cup {k + 1},
         NEW t, NEW s, NEW p \in Seq(Entries), Knows(k, t, s, p), s # 0,
         After(k + 1).openTurn = t, After(k + 1).openStep = s,
         NEW q, q = Unpend(p, e.call)
  PROVE  q \in Seq(Entries) /\ Knows(k + 1, t, s, q)
<1>1. Single(p)
  BY DEF Knows
<1>2. Unpended(p, e.call, q)
  BY <1>1, UnpendFacts
<1>3. \A d : Has(k + 1, "tool/result", d) <=> Has(k, "tool/result", d) \/ d = e.call
  BY DEF Has
<1>4. \A d : Has(k + 1, "tool/call", d) <=> Has(k, "tool/call", d)
  BY DEF Has
<1>5. ASSUME NEW i \in DOMAIN q PROVE EntryRight(k + 1, t, s, q[i])
  <2>1. PICK j \in DOMAIN p : q[i] = p[j] /\ p[j].call # e.call
    BY <1>2, <1>5 DEF Unpended
  <2>2. EntryRight(k, t, s, q[i])
    BY <2>1 DEF Knows
  <2>. QED
    BY <1>3, <1>4, <2>1, <2>2 DEF EntryRight
<1>6. ASSUME NEW m \in StepAt(k + 1), log[m].type = "assistant/message",
             NEW x \in DOMAIN log[m].calls
      PROVE  Waits(q, log[m].calls[x]) \/ Has(k + 1, "tool/result", log[m].calls[x])
  <2>1. m \in StepAt(k)
    BY <1>6
  <2>2. Waits(p, log[m].calls[x]) \/ Has(k, "tool/result", log[m].calls[x])
    BY <1>6, <2>1 DEF Knows
  <2>3. \A d : Waits(p, d) => Waits(q, d) \/ d = e.call
    BY <1>2 DEF Waits, Unpended
  <2>. QED
    BY <1>3, <2>2, <2>3
<1>7. q \in Seq(Entries) /\ Single(q)
  BY <1>2 DEF Unpended
<1>. QED
  BY <1>5, <1>6, <1>7 DEF Knows

\* The scan passes a message whose blocks it has taken.
LEMMA MessagePasses ==
  ASSUME NEW k \in Nat, NEW e \in LogEvents, e = log[k + 1], e.type = "assistant/message",
         StepAt(k) = {}, StepAt(k + 1) = {k + 1},
         NEW t, NEW s, NEW p \in Seq(Entries), Knows(k, t, s, p), s # 0,
         After(k + 1).openTurn = t, After(k + 1).openStep = s,
         \A x \in DOMAIN e.calls : Waits(p, e.calls[x])
  PROVE  Knows(k + 1, t, s, p)
<1>1. \A d : ~ Has(k + 1, "tool/result", d) /\ ~ Has(k + 1, "tool/call", d)
  BY DEF Has
<1>2. ASSUME NEW i \in DOMAIN p PROVE EntryRight(k + 1, t, s, p[i])
  <2>1. EntryRight(k, t, s, p[i])
    BY <1>2 DEF Knows
  <2>. QED
    BY <1>1, <2>1 DEF EntryRight
<1>. QED
  BY <1>2 DEF Knows

\* The scan keeps knowing what it has passed.
LEMMA ScanKeeps ==
  ASSUME RepairType, PastInv, LogInv, ScanInv, Scan
  PROVE  open' \in Scans /\ open'.seq <= Len(log) /\ ScanInv'
<1>1. PICK k, e, p, t, s, b :
        /\ k = open.seq /\ e = log[k + 1]
        /\ p = open.pending /\ t = open.openTurn /\ s = open.openStep /\ b = open.block
  OBVIOUS
<1>2. /\ k \in Nat /\ Len(log) \in Nat /\ k + 1 <= Len(log) /\ e \in LogEvents
      /\ After(k) \in Traces /\ Nested(After(k))
      /\ Session!Accepts(After(k), e)
      /\ After(k + 1) = Session!Apply(After(k), e)
      /\ StepAt(k + 1) = IF e.type \in Boundaries THEN {} ELSE StepAt(k) \cup {k + 1}
      /\ StepAt(k) \subseteq 1 .. k
      /\ e.type = "assistant/message" => StepAt(k) = {}
  BY <1>1, ScanAt
<1>3. /\ p \in Seq(Entries) /\ t \in Nat /\ s \in Nat /\ b \in Nat
  BY <1>1 DEF Scans, RepairType
<1>4. /\ Knows(k, t, s, p) /\ pc = "scan"
      /\ b # 0 => e.type = "assistant/message" /\ b <= Len(e.calls)
      /\ \A x \in 1 .. b : e.type = "assistant/message" => Waits(p, e.calls[x])
  BY <1>1, <1>2, <1>3 DEF ScanInv, Scan
<1>5. t = After(k).openTurn /\ s = After(k).openStep
  BY <1>4 DEF Knows
<1>6. PICK after : after = After(k + 1)
  OBVIOUS
<1>7. /\ e.type = "turn/start" => after.openTurn = e.turn /\ after.openStep = 0
      /\ e.type = "turn/end" => after.openTurn = 0 /\ after.openStep = 0
      /\ e.type = "step/start" => after.openTurn = t /\ after.openStep = e.step /\ s = 0
      /\ e.type = "step/end" => after.openTurn = t /\ after.openStep = 0
      /\ e.type \in {"assistant/message", "tool/call", "tool/result"} =>
           after.openTurn = t /\ after.openStep = s /\ e.turn = t /\ e.step = s /\ s # 0
  <2>1. PICK before : before = After(k)
    OBVIOUS
  <2>2. before \in Traces /\ Nested(before) /\ Session!Accepts(before, e)
    BY <1>2, <2>1
  <2>3. after = Session!Apply(before, e)
    BY <1>2, <1>6, <2>1
  <2>4. MovedBy(before, e, after)
    BY <1>2, <2>2, <2>3, Moved
  <2>. QED
    BY <1>5, <2>1, <2>4 DEF MovedBy
<1>8. /\ e.type \in {"turn/start", "turn/end", "step/start", "step/end",
                     "assistant/message", "tool/call", "tool/result"}
      /\ e.turn \in Nat
      /\ e.type \notin {"turn/start", "turn/end"} => e.step \in Nat
      /\ e.type = "assistant/message" => e.calls \in Seq(CallIds)
  BY <1>2, EventFields
<1>9. open' = ScanEvent(e)
  BY <1>1 DEF Scan
<1>10. <<>> \in Seq(Entries) /\ 0 \in Nat
  OBVIOUS
<1>11. CASE e.type = "turn/start"
  <2>1. open' = Passed(e.turn, 0, <<>>)
    BY <1>9, <1>11 DEF ScanEvent
  <2>2. StepAt(k + 1) = {}
    BY <1>2, <1>11 DEF Boundaries
  <2>3. Knows(k + 1, e.turn, 0, <<>>)
    BY <1>2, <1>6, <1>7, <1>11, <2>2, BoundaryPassed
  <2>. QED
    BY <1>1, <1>8, <1>10, <2>1, <2>3, PassKeeps
<1>12. CASE e.type = "turn/end"
  <2>1. open' = Passed(0, 0, <<>>)
    BY <1>9, <1>12 DEF ScanEvent
  <2>2. StepAt(k + 1) = {}
    BY <1>2, <1>12 DEF Boundaries
  <2>3. Knows(k + 1, 0, 0, <<>>)
    BY <1>2, <1>6, <1>7, <1>12, <2>2, BoundaryPassed
  <2>. QED
    BY <1>1, <1>10, <2>1, <2>3, PassKeeps
<1>13. CASE e.type = "step/start"
  <2>1. p = <<>>
    BY <1>4, <1>7, <1>13 DEF Knows
  <2>2. open' = Passed(t, e.step, <<>>)
    BY <1>1, <1>9, <1>13, <2>1 DEF ScanEvent
  <2>3. StepAt(k + 1) = {}
    BY <1>2, <1>13 DEF Boundaries
  <2>4. Knows(k + 1, t, e.step, <<>>)
    BY <1>2, <1>6, <1>7, <1>13, <2>3, BoundaryPassed
  <2>. QED
    BY <1>1, <1>3, <1>8, <1>10, <1>13, <2>2, <2>4, PassKeeps
<1>14. CASE e.type = "step/end"
  <2>1. open' = Passed(t, 0, <<>>)
    BY <1>1, <1>9, <1>14 DEF ScanEvent
  <2>2. StepAt(k + 1) = {}
    BY <1>2, <1>14 DEF Boundaries
  <2>3. Knows(k + 1, t, 0, <<>>)
    BY <1>2, <1>6, <1>7, <1>14, <2>2, BoundaryPassed
  <2>. QED
    BY <1>1, <1>3, <1>10, <2>1, <2>3, PassKeeps
<1>15. CASE e.type = "assistant/message" /\ b < Len(e.calls)
  BY <1>1, <1>15, BlockKeeps
<1>16. CASE e.type = "assistant/message" /\ ~ b < Len(e.calls)
  <2>1. open' = Passed(t, s, p)
    BY <1>1, <1>9, <1>16 DEF ScanEvent
  <2>2. StepAt(k) = {} /\ StepAt(k + 1) = {k + 1}
    BY <1>2, <1>16 DEF Boundaries
  <2>3. DOMAIN e.calls = 1 .. Len(e.calls) /\ Len(e.calls) \in Nat
    BY <1>8, <1>16
  <2>4. DOMAIN e.calls \subseteq 1 .. b
    BY <1>3, <1>16, <2>3
  <2>5. \A x \in DOMAIN e.calls : Waits(p, e.calls[x])
    BY <1>4, <1>16, <2>4
  <2>6. Knows(k + 1, t, s, p)
    BY <1>1, <1>2, <1>3, <1>4, <1>6, <1>7, <1>16, <2>2, <2>5, MessagePasses
  <2>. QED
    BY <1>1, <1>3, <2>1, <2>6, PassKeeps
<1>17. CASE e.type = "tool/call"
  <2>q. PICK q : q = Cite(p, e.call, k + 1)
    OBVIOUS
  <2>1. open' = Passed(t, s, q)
    BY <1>1, <1>9, <1>17, <2>q DEF ScanEvent
  <2>2. StepAt(k + 1) = StepAt(k) \cup {k + 1}
    BY <1>2, <1>17 DEF Boundaries
  <2>3. q \in Seq(Entries) /\ Knows(k + 1, t, s, q)
    BY <1>1, <1>2, <1>3, <1>4, <1>6, <1>7, <1>17, <2>q, <2>2, CitePasses
  <2>. QED
    BY <1>1, <1>3, <2>1, <2>3, PassKeeps
<1>18. CASE e.type = "tool/result"
  <2>q. PICK q : q = Unpend(p, e.call)
    OBVIOUS
  <2>1. open' = Passed(t, s, q)
    BY <1>1, <1>9, <1>18, <2>q DEF ScanEvent
  <2>2. StepAt(k + 1) = StepAt(k) \cup {k + 1}
    BY <1>2, <1>18 DEF Boundaries
  <2>3. q \in Seq(Entries) /\ Knows(k + 1, t, s, q)
    BY <1>1, <1>2, <1>3, <1>4, <1>6, <1>7, <1>18, <2>q, <2>2, UnpendPasses
  <2>. QED
    BY <1>1, <1>3, <2>1, <2>3, PassKeeps
<1>. QED
  BY <1>8, <1>11, <1>12, <1>13, <1>14, <1>15, <1>16, <1>17, <1>18

-----------------------------------------------------------------------------
(* The closers.                                                            *)

\* The results of the calls p, then the end of step s, then that of turn t.
Closing(cs, t, s, p) ==
  /\ cs \in Seq(LogEvents) /\ Len(p) \in Nat
  /\ Len(cs) = IF s = 0 THEN 1 ELSE Len(p) + 2
  /\ \A i \in 1 .. Len(p) :
       cs[i] = Closer(t, p[i].step, p[i].call, p[i].seq)
  /\ s # 0 => cs[Len(p) + 1] = Session!StepEnd(t, s)
  /\ cs[Len(cs)] = Session!TurnEnd(t)

\* What the closers are made of.
LEMMA ClosersMade ==
  ASSUME NEW t \in Nat, NEW s \in Nat, NEW p \in Seq(Entries),
         t = open.openTurn, s = open.openStep, p = open.pending,
         t # 0, s = 0 => p = <<>>,
         NEW cs, cs = interruptedTurnClosers
  PROVE  Closing(cs, t, s, p)
<1>. PICK A, B, x, y :
        /\ A = CallClosers /\ B = StepCloser
        /\ x = Session!StepEnd(t, s) /\ y = Session!TurnEnd(t)
  OBVIOUS
<1>1. cs = A \o B \o <<y>>
  BY DEF interruptedTurnClosers
<1>2. x \in LogEvents /\ y \in LogEvents
  BY EventsMade
<1>3. Len(p) \in Nat /\ DOMAIN p = 1 .. Len(p) /\ \A i \in 1 .. Len(p) : p[i] \in Entries
  OBVIOUS
<1>4. /\ A \in Seq(LogEvents) /\ Len(A) = Len(p)
      /\ \A i \in 1 .. Len(p) : A[i] = Closer(t, p[i].step, p[i].call, p[i].seq)
  <2>1. A = [i \in 1 .. Len(p) |-> Closer(t, p[i].step, p[i].call, p[i].seq)]
    BY <1>3 DEF CallClosers
  <2>2. \A i \in 1 .. Len(p) : Closer(t, p[i].step, p[i].call, p[i].seq) \in LogEvents
    <3>1. \A i \in 1 .. Len(p) : p[i].step \in Nat /\ p[i].call \in CallIds /\ p[i].seq \in Nat
      BY <1>3 DEF Entries
    <3>. QED
      BY <3>1, EventsMade
  <2>. QED
    BY <1>3, <2>1, <2>2, IsASeq
<1>5. B = IF s = 0 THEN <<>> ELSE <<x>>
  BY DEF StepCloser
<1>6. /\ B \in Seq(LogEvents)
      /\ Len(B) = IF s = 0 THEN 0 ELSE 1
      /\ s # 0 => B[1] = x
  BY <1>2, <1>5
<1>7. <<y>> \in Seq(LogEvents) /\ Len(<<y>>) = 1 /\ <<y>>[1] = y
  BY <1>2
<1>8. PICK D : D = A \o B
  OBVIOUS
<1>9. /\ D \in Seq(LogEvents) /\ Len(D) = Len(A) + Len(B)
      /\ \A i \in 1 .. Len(A) + Len(B) : D[i] = IF i <= Len(A) THEN A[i] ELSE B[i - Len(A)]
  <2>1. A \in Seq(LogEvents) /\ B \in Seq(LogEvents)
    BY <1>4, <1>6
  <2>. QED
    BY <1>8, <2>1, ConcatProperties
<1>10. /\ cs \in Seq(LogEvents) /\ Len(cs) = Len(D) + 1
       /\ \A i \in 1 .. Len(D) + 1 : cs[i] = IF i <= Len(D) THEN D[i] ELSE <<y>>[i - Len(D)]
  BY <1>1, <1>7, <1>8, <1>9, ConcatProperties
<1>11. cs[Len(cs)] = y
  <2>1. Len(D) \in Nat /\ Len(cs) = Len(D) + 1 /\ Len(cs) - Len(D) = 1 /\ ~ Len(cs) <= Len(D)
    BY <1>9, <1>10
  <2>2. cs[Len(cs)] = <<y>>[Len(cs) - Len(D)]
    BY <1>10, <2>1
  <2>. QED
    BY <2>1, <2>2
<1>12. CASE s = 0
  <2>1. Len(p) = 0
    BY <1>12
  <2>. QED
    BY <1>4, <1>6, <1>9, <1>10, <1>11, <1>12, <2>1 DEF Closing
<1>13. CASE s # 0
  <2>1. Len(D) = Len(p) + 1 /\ Len(cs) = Len(p) + 2
    BY <1>3, <1>4, <1>6, <1>9, <1>10, <1>13
  <2>2. \A i \in 1 .. Len(p) : cs[i] = A[i]
    <3>1. ASSUME NEW i \in 1 .. Len(p) PROVE cs[i] = A[i]
      <4>1. cs[i] = D[i]
        BY <1>3, <1>10, <2>1
      <4>2. D[i] = A[i]
        BY <1>3, <1>4, <1>6, <1>9, <1>13
      <4>. QED
        BY <4>1, <4>2
    <3>. QED
      BY <3>1
  <2>3. cs[Len(p) + 1] = x
    <3>1. cs[Len(p) + 1] = D[Len(p) + 1]
      <4>1. Len(p) + 1 \in 1 .. Len(D) + 1 /\ Len(p) + 1 <= Len(D)
        BY <1>3, <2>1
      <4>. QED
        BY <1>10, <4>1
    <3>2. D[Len(p) + 1] = B[1]
      <4>1. /\ Len(p) + 1 \in 1 .. Len(A) + Len(B) /\ ~ Len(p) + 1 <= Len(A)
            /\ Len(p) + 1 - Len(A) = 1
        BY <1>3, <1>4, <1>6, <1>13
      <4>2. D[Len(p) + 1] = B[Len(p) + 1 - Len(A)]
        BY <1>9, <4>1
      <4>. QED
        BY <4>1, <4>2
    <3>. QED
      BY <1>6, <1>13, <3>1, <3>2
  <2>. QED
    BY <1>3, <1>4, <1>10, <1>11, <1>13, <2>1, <2>2, <2>3 DEF Closing
<1>. QED
  BY <1>12, <1>13

\* The closers of a log that was scanned to its end are right.
LEMMA CloseKeeps ==
  ASSUME RepairType, PastInv, ScanInv, Close
  PROVE  closers' \in Seq(LogEvents) /\ ClosersInv'
<1>1. PICK n, t, s, p, cs :
        /\ n = Len(log) /\ t = open.openTurn /\ s = open.openStep /\ p = open.pending
        /\ cs = interruptedTurnClosers
  OBVIOUS
<1>2. /\ pc = "scan" /\ open.seq = n /\ closers' = cs
      /\ UNCHANGED <<log, trace, past>>
  BY <1>1 DEF Close
<1>3. n \in Nat /\ t \in Nat /\ s \in Nat /\ p \in Seq(Entries)
  BY <1>1 DEF RepairType, Scans
<1>4. Knows(n, t, s, p)
  BY <1>1, <1>2 DEF ScanInv
<1>5. t = trace.openTurn /\ s = trace.openStep /\ (s = 0 => p = <<>>)
  BY <1>1, <1>4 DEF Knows, After
<1>6. t = 0 => s = 0
  BY <1>5, TraceNow DEF Nested
<1>7. \A m \in StepAt(n) : log[m].type = "assistant/message" =>
        \A x \in DOMAIN log[m].calls :
          Has(n, "tool/result", log[m].calls[x]) \/ Waits(p, log[m].calls[x])
  BY <1>4 DEF Knows
<1>8. cs \in Seq(LogEvents) /\ ClosersRight(cs)
  <2>1. CASE t = 0
    <3>1. cs = <<>> /\ p = <<>> /\ Len(cs) = 0
      BY <1>1, <1>5, <1>6, <2>1 DEF interruptedTurnClosers
    <3>2. ClosersShape(cs)
      BY <1>5, <1>6, <2>1, <3>1 DEF ClosersShape
    <3>3. \A c : ~ Waits(p, c)
      BY <3>1 DEF Waits
    <3>. QED
      BY <1>1, <1>7, <3>1, <3>2, <3>3 DEF ClosersRight
  <2>2. CASE t # 0
    <3>1. /\ cs \in Seq(LogEvents) /\ Len(p) \in Nat
          /\ Len(cs) = IF s = 0 THEN 1 ELSE Len(p) + 2
          /\ \A i \in 1 .. Len(p) :
               cs[i] = Closer(t, p[i].step, p[i].call, p[i].seq)
          /\ s # 0 => cs[Len(p) + 1] = Session!StepEnd(t, s)
          /\ cs[Len(cs)] = Session!TurnEnd(t)
      <4>1. t \in Nat /\ s \in Nat /\ p \in Seq(Entries) /\ t # 0 /\ (s = 0 => p = <<>>)
        BY <1>3, <1>5, <2>2
      <4>2. Closing(cs, t, s, p)
        BY <1>1, <4>1, ClosersMade
      <4>. QED
        BY <4>2 DEF Closing
    <3>2. DOMAIN p = 1 .. Len(p) /\ (s = 0 => Len(p) = 0)
      BY <1>3, <1>5
    <3>3. \A i \in 1 .. Len(p) : cs[i].type = "tool/result" /\ cs[i].call = p[i].call
      <4>1. \A u, c, q : LET e == Closer(t, u, c, q) IN
              e.type = "tool/result" /\ e.call = c
        BY DEF Closer
      <4>2. ASSUME NEW i \in 1 .. Len(p)
            PROVE  cs[i].type = "tool/result" /\ cs[i].call = p[i].call
        <5>1. PICK u, c, q : u = p[i].step /\ c = p[i].call /\ q = p[i].seq
          OBVIOUS
        <5>. QED
          BY <3>1, <4>1, <5>1
      <4>. QED
        BY <4>2
    <3>4. \A i \in 1 .. Len(cs) : cs[i].type = "tool/result" => i \in 1 .. Len(p)
      <4>1. CASE s = 0
        BY <3>1, <4>1 DEF Session!TurnEnd
      <4>2. CASE s # 0
        <5>1. cs[Len(p) + 1].type = "step/end" /\ cs[Len(p) + 2].type = "turn/end"
          BY <3>1, <4>2 DEF Session!TurnEnd, Session!StepEnd
        <5>2. \A i \in 1 .. Len(cs) : i \in 1 .. Len(p) \/ i = Len(p) + 1 \/ i = Len(p) + 2
          BY <3>1, <4>2
        <5>. QED
          BY <5>1, <5>2
      <4>. QED
        BY <4>1, <4>2
    <3>5. ClosersShape(cs)
      <4>1. CASE s = 0
        BY <1>5, <2>2, <3>1, <4>1 DEF ClosersShape
      <4>2. CASE s # 0
        <5>1. Len(cs) = Len(p) + 2 /\ Len(cs) - 1 = Len(p) + 1
          BY <3>1, <4>2
        <5>2. \A i \in 1 .. Len(cs) : i < Len(cs) - 1 => i \in 1 .. Len(p)
          BY <3>1, <5>1
        <5>. QED
          BY <1>5, <2>2, <3>1, <3>3, <4>2, <5>1, <5>2 DEF ClosersShape
      <4>. QED
        BY <4>1, <4>2
    <3>6. ASSUME NEW i \in 1 .. Len(p) PROVE ResultRight(cs[i])
      <4>1. EntryRight(n, t, s, p[i])
        BY <1>4, <3>2, <3>6 DEF Knows
      <4>2. PICK q : q = p[i]
        OBVIOUS
      <4>3. /\ cs[i].turn = t /\ cs[i].step = s /\ cs[i].call = q.call
            /\ cs[i].notStarted = (q.seq = 0) /\ cs[i].cites = q.seq
        <5>1. PICK u, c, z : u = q.step /\ c = q.call /\ z = q.seq
          OBVIOUS
        <5>2. cs[i] = Closer(t, u, c, z)
          BY <3>1, <3>6, <4>2, <5>1
        <5>3. u = s
          BY <4>1, <4>2, <5>1 DEF EntryRight
        <5>. QED
          BY <5>1, <5>2, <5>3 DEF Closer
      <4>4. q.seq # 0 => Has(n, "tool/call", q.call)
        BY <4>1, <4>2 DEF Has, EntryRight, Session!ToolCall
      <4>5. StepAt(n) \subseteq 1 .. n
        BY DEF StepAt, StepOf
      <4>. QED
        BY <1>1, <1>5, <4>1, <4>2, <4>3, <4>4, <4>5 DEF ResultRight, EntryRight
    <3>7. \A c : Waits(p, c) => Answered(cs, c)
      <4>1. \A i \in 1 .. Len(p) : i \in 1 .. Len(cs)
        BY <3>1, <3>2
      <4>. QED
        BY <3>2, <3>3, <4>1 DEF Waits, Answered, Answers
    <3>8. \A i, j \in 1 .. Len(cs), c \in CallIds :
            Answers(cs[i], c) /\ Answers(cs[j], c) => i = j
      <4>1. Single(p)
        BY <1>4 DEF Knows
      <4>. QED
        BY <3>2, <3>3, <3>4, <4>1 DEF Single, Answers
    <3>. QED
      BY <1>1, <1>7, <3>1, <3>4, <3>5, <3>6, <3>7, <3>8 DEF ClosersRight
  <2>. QED
    BY <2>1, <2>2
<1>9. ClosersRight(cs)'
  BY <1>2, <1>8 DEF ClosersRight, ClosersShape, ResultRight, Has, StepAt, Answered
<1>. QED
  BY <1>2, <1>8, <1>9 DEF ClosersInv

\* The next closer, when there is one.
LEMMA NextCloser ==
  ASSUME RepairType, PastInv, LogInv, ClosersRight(closers), closers # <<>>,
         NEW e, e = Head(closers)
  PROVE  /\ e \in LogEvents /\ Session!Accepts(trace, e)
         /\ trace.openTurn # 0
         /\ e.type \in {"turn/end", "step/end", "tool/result"}
         /\ e.type = "turn/end" => Tail(closers) = <<>>
         /\ e.type = "step/end" => Len(closers) = 2 /\ trace.openStep # 0
         /\ e.type = "tool/result" =>
              Len(closers) >= 3 /\ trace.openStep # 0 /\ ResultRight(e)
<1>1. PICK n, t, s, cs : n = Len(cs) /\ t = trace.openTurn /\ s = trace.openStep /\ cs = closers
  OBVIOUS
<1>2. cs \in Seq(LogEvents) /\ n \in Nat /\ n # 0 /\ e = cs[1] /\ e \in LogEvents
  BY <1>1 DEF RepairType
<1>3. t \in Nat /\ s \in Nat /\ t # 0 /\ trace \in Traces /\ Nested(trace)
  <2>1. ClosersShape(cs)
    BY <1>1 DEF ClosersRight
  <2>2. n = 0 <=> t = 0
    BY <1>1, <2>1 DEF ClosersShape
  <2>3. trace \in Traces /\ Nested(trace)
    BY TraceNow
  <2>. QED
    BY <1>1, <1>2, <2>2, <2>3 DEF Traces
<1>4. /\ cs[n] = Session!TurnEnd(t)
      /\ s = 0 => n <= 1
      /\ s # 0 => n >= 2 /\ cs[n - 1] = Session!StepEnd(t, s)
      /\ \A i \in 1 .. n : i < n - 1 => cs[i].type = "tool/result"
  <2>1. ClosersShape(cs)
    BY <1>1 DEF ClosersRight
  <2>. QED
    BY <1>1, <1>2, <2>1 DEF ClosersShape
<1>5. CASE n = 1
  <2>1. e = Session!TurnEnd(t) /\ s = 0
    BY <1>2, <1>3, <1>4, <1>5
  <2>2. Tail(cs) = <<>>
    <3>1. Tail(cs) \in Seq(LogEvents) /\ Len(Tail(cs)) = 0
      BY <1>1, <1>2, <1>5, HeadTailProperties
    <3>. QED
      BY <3>1, EmptySeq
  <2>. QED
    BY <1>1, <1>2, <1>3, <2>1, <2>2
       DEF Session!TurnEnd, Session!Accepts, Session!InOpenTurn,
           Session!NoTurn, Session!NoStep
<1>6. CASE n = 2
  <2>1. e = Session!StepEnd(t, s) /\ s # 0
    BY <1>2, <1>3, <1>4, <1>6
  <2>. QED
    BY <1>1, <1>2, <1>3, <1>6, <2>1
       DEF Session!StepEnd, Session!Accepts, Session!InOpenTurn,
           Session!InOpenStep, Session!NoTurn, Session!NoStep
<1>7. CASE n >= 3
  <2>1. e.type = "tool/result" /\ s # 0
    BY <1>2, <1>3, <1>4, <1>7
  <2>2. ResultRight(e)
    BY <1>1, <1>2, <1>7, <2>1 DEF ClosersRight
  <2>3. e.turn = t /\ e.step = s
    BY <1>1, <2>2 DEF ResultRight
  <2>4. e.call \in trace.pendingCalls \/ e.notStarted
    <3>1. SUFFICES ASSUME ~ e.notStarted PROVE e.call \in trace.pendingCalls
      OBVIOUS
    <3>2. Has(Len(log), "tool/call", e.call) /\ ~ Has(Len(log), "tool/result", e.call)
      BY <2>2, <3>1 DEF ResultRight
    <3>. QED
      BY <3>2 DEF Has, LogInv
  <2>. QED
    BY <1>1, <1>2, <1>3, <1>7, <2>1, <2>2, <2>3, <2>4
       DEF Session!Accepts, Session!InOpenTurn,
           Session!InOpenStep, Session!NoTurn, Session!NoStep
<1>. QED
  BY <1>2, <1>5, <1>6, <1>7

\* An accepted event leaves a log in order, and what is not yet closed stays.
LEMMA RecordKeeps ==
  ASSUME RepairType, PastInv, LogInv, NEW e \in LogEvents, Session!Accepts(trace, e),
         Record(e),
         e.type = "assistant/message" => StepAt(Len(log)) = {},
         e.type = "tool/result" => ~ Has(Len(log), "tool/result", e.call)
  PROVE  /\ log' \in Seq(LogEvents) /\ past' \in Seq(Traces) /\ Len(past') = Len(log')
         /\ trace' \in Traces /\ Len(log) \in Nat /\ Len(log') = Len(log) + 1
         /\ PastInv' /\ LogInv'
<1>1. /\ log' \in Seq(LogEvents) /\ past' \in Seq(Traces) /\ Len(past') = Len(log')
      /\ Len(log) \in Nat /\ Len(log') = Len(log) + 1
  BY RecordFacts
<1>2. PastInv' /\ trace' \in Traces
  BY RecordPast
<1>3. LogInv'
  BY RecordLog
<1>. QED
  BY <1>1, <1>2, <1>3

\* Without its first, the closers are right for the log that has it.
LEMMA AppendKeeps ==
  ASSUME RepairType, PastInv, LogInv, ClosersInv, AppendCloser
  PROVE  RepairType' /\ PastInv' /\ LogInv' /\ ClosersInv' /\ ScanInv'
<1>1. PICK n, t, s, cs, e, rest :
        /\ n = Len(log) /\ t = trace.openTurn /\ s = trace.openStep /\ cs = closers
        /\ e = Head(closers) /\ rest = Tail(closers)
  OBVIOUS
<1>2. /\ pc = "append" /\ cs # <<>> /\ Record(e) /\ closers' = rest
      /\ UNCHANGED <<pc, open>>
  BY <1>1 DEF AppendCloser
<1>3. ClosersRight(cs) /\ ClosersRight(closers)
  BY <1>1, <1>2 DEF ClosersInv
<1>4. /\ e \in LogEvents /\ Session!Accepts(trace, e)
      /\ t # 0
      /\ e.type \in {"turn/end", "step/end", "tool/result"}
      /\ e.type = "turn/end" => rest = <<>>
      /\ e.type = "step/end" => Len(cs) = 2 /\ s # 0
      /\ e.type = "tool/result" => Len(cs) >= 3 /\ s # 0 /\ ResultRight(e)
  BY <1>1, <1>2, <1>3, NextCloser
<1>5. /\ log' \in Seq(LogEvents) /\ past' \in Seq(Traces) /\ Len(past') = Len(log')
      /\ trace' \in Traces /\ n \in Nat /\ Len(log') = n + 1
      /\ PastInv' /\ LogInv'
  <2>1. e.type = "tool/result" => ~ Has(Len(log), "tool/result", e.call)
    BY <1>4 DEF ResultRight
  <2>. QED
    BY <1>1, <1>2, <1>4, <2>1, RecordKeeps
<1>6. /\ cs \in Seq(LogEvents) /\ Len(cs) \in Nat
      /\ e = cs[1] /\ rest \in Seq(LogEvents) /\ Len(rest) = Len(cs) - 1
      /\ \A i \in 1 .. Len(rest) : rest[i] = cs[i + 1]
  <2>1. cs \in Seq(LogEvents)
    BY <1>1 DEF RepairType
  <2>. QED
    BY <1>1, <1>2, <2>1, HeadTailProperties
<1>7. RepairType'
  <2>1. open \in Scans /\ open.seq <= n
    BY <1>1 DEF RepairType
  <2>2. open.seq <= n + 1
    BY <1>5, <2>1 DEF Scans
  <2>. QED
    BY <1>2, <1>5, <1>6, <2>1, <2>2 DEF RepairType
<1>8. ScanInv'
  BY <1>2 DEF ScanInv
<1>9. /\ \A i \in 1 .. n : log'[i] = log[i]
      /\ log'[n + 1] = e
      /\ StepOf(log', Len(log')) = IF e.type \in Boundaries THEN {}
                                   ELSE StepOf(log, n) \cup {n + 1}
  BY <1>1, <1>2, <1>4, RecordFacts
<1>10. PICK u, v : u = trace'.openTurn /\ v = trace'.openStep
  OBVIOUS
<1>11. /\ e.type = "turn/end" => u = 0 /\ v = 0
       /\ e.type = "step/end" => u = t /\ v = 0
       /\ e.type = "tool/result" => u = t /\ v = s /\ e.turn = t /\ e.step = s
  <2>1. trace \in Traces /\ Nested(trace)
    BY TraceNow
  <2>2. PICK next : next = Session!Apply(trace, e)
    OBVIOUS
  <2>3. trace' = next
    BY <1>2, <2>2 DEF Record
  <2>4. PICK w \in Traces : w = trace
    BY <2>1
  <2>5. MovedBy(w, e, next)
    BY <1>4, <2>1, <2>2, <2>4, Moved
  <2>. QED
    BY <1>1, <1>10, <2>3, <2>4, <2>5 DEF MovedBy
<1>12. ClosersShape(cs)
  BY <1>3 DEF ClosersRight
<1>13. ClosersRight(rest)'
  <2>1. CASE e.type = "turn/end"
    <3>1. Len(rest) = 0 /\ StepOf(log', Len(log')) = {}
      BY <1>4, <1>9, <2>1 DEF Boundaries
    <3>. QED
      BY <1>10, <1>11, <2>1, <3>1 DEF ClosersRight, ClosersShape, StepAt
  <2>2. CASE e.type = "step/end"
    <3>1. /\ Len(rest) = 1 /\ StepOf(log', Len(log')) = {}
          /\ rest[1] = cs[2]
      BY <1>4, <1>6, <1>9, <2>2 DEF Boundaries
    <3>2. cs[2] = Session!TurnEnd(t)
      BY <1>1, <1>4, <1>12, <2>2 DEF ClosersShape
    <3>3. rest[1].type # "tool/result"
      BY <3>1, <3>2 DEF Session!TurnEnd
    <3>. QED
      BY <1>4, <1>10, <1>11, <2>2, <3>1, <3>2, <3>3
         DEF ClosersRight, ClosersShape, StepAt, Answers
  <2>3. CASE e.type = "tool/result"
    <3>1. PICK m : m = Len(rest)
      OBVIOUS
    <3>2. m \in Nat /\ Len(cs) = m + 1 /\ m >= 2 /\ \A i \in 1 .. m : rest[i] = cs[i + 1]
      BY <1>4, <1>6, <2>3, <3>1
    <3>3. /\ cs[m + 1] = Session!TurnEnd(t)
          /\ cs[m] = Session!StepEnd(t, s)
          /\ \A i \in 1 .. m + 1 : i < m => cs[i].type = "tool/result"
      BY <1>1, <1>4, <1>12, <2>3, <3>2 DEF ClosersShape
    <3>4. ClosersShape(rest)'
      <4>1. rest[m] = Session!TurnEnd(t) /\ rest[m - 1] = Session!StepEnd(t, s)
        BY <3>2, <3>3
      <4>2. \A i \in 1 .. m : i < m - 1 => rest[i].type = "tool/result"
        BY <3>2, <3>3
      <4>3. u = t /\ v = s /\ s # 0 /\ t # 0
        BY <1>4, <1>11, <2>3
      <4>4. m # 0 /\ m >= 2 /\ ~ m <= 1
        BY <3>2
      <4>. QED
        BY <1>10, <3>1, <4>1, <4>2, <4>3, <4>4 DEF ClosersShape
    <3>5. StepOf(log', Len(log')) = StepOf(log, n) \cup {n + 1}
      BY <1>9, <2>3 DEF Boundaries
    <3>6. StepOf(log, n) \subseteq 1 .. n /\ StepOf(log, n) = StepAt(Len(log))
      BY <1>1 DEF StepOf, StepAt
    <3>7. PICK H, K : /\ H = {c \in CallIds : Has(Len(log), "tool/result", c)}
                      /\ K = {c \in CallIds : Has(Len(log), "tool/call", c)}
      OBVIOUS
    <3>8. \A c \in CallIds : Has(Len(log), "tool/result", c)' <=> c \in H \/ c = e.call
      <4>1. \A c \in CallIds :
              (\E i \in StepOf(log', Len(log')) : log'[i].type = "tool/result" /\ log'[i].call = c)
                <=> Has(Len(log), "tool/result", c) \/ c = e.call
        BY <1>9, <2>3, <3>5, <3>6 DEF Has
      <4>. QED
        BY <3>7, <4>1 DEF Has, StepAt
    <3>9. \A c \in CallIds : Has(Len(log), "tool/call", c)' <=> c \in K
      <4>1. \A c \in CallIds :
              (\E i \in StepOf(log', Len(log')) : log'[i].type = "tool/call" /\ log'[i].call = c)
                <=> Has(Len(log), "tool/call", c)
        BY <1>9, <2>3, <3>5, <3>6 DEF Has
      <4>. QED
        BY <3>7, <4>1 DEF Has, StepAt
    <3>10. e.call \in CallIds /\ \A i \in 1 .. m + 1 : cs[i].type = "tool/result" => cs[i].call \in CallIds
      <4>1. \A i \in 1 .. m + 1 : cs[i] \in LogEvents
        BY <1>6, <3>2
      <4>. QED
        BY <1>4, <2>3, <4>1, EventFields
    <3>11. \A i, j \in 1 .. m + 1, c \in CallIds :
             Answers(cs[i], c) /\ Answers(cs[j], c) => i = j
      BY <1>3, <3>2 DEF ClosersRight
    <3>12. ASSUME NEW i \in 1 .. m, rest[i].type = "tool/result" PROVE ResultRight(rest[i])'
      <4>1. PICK f : f = rest[i]
        OBVIOUS
      <4>2. i + 1 \in 1 .. m + 1 /\ f = cs[i + 1] /\ f.type = "tool/result" /\ i + 1 # 1
        BY <3>2, <3>12, <4>1
      <4>3. f.call # e.call
        BY <1>6, <2>3, <3>2, <3>10, <3>11, <4>2 DEF Answers
      <4>4. ResultRight(f)
        BY <1>3, <3>2, <4>2 DEF ClosersRight
      <4>5. f.call \in CallIds
        BY <3>10, <4>2
      <4>6. /\ f.turn = u /\ f.step = v /\ f.call \notin H /\ (f.notStarted <=> f.call \notin K)
            /\ ~ f.notStarted =>
                 /\ f.cites \in 1 .. n
                 /\ log[f.cites] = Session!ToolCall(f.turn, f.step, f.call)
        BY <1>1, <1>11, <2>3, <3>7, <4>4, <4>5 DEF ResultRight
      <4>7. ~ f.notStarted =>
                 /\ f.cites \in 1 .. n + 1
                 /\ log'[f.cites] = Session!ToolCall(f.turn, f.step, f.call)
        BY <1>5, <1>9, <4>6
      <4>8. ~ Has(Len(log), "tool/result", f.call)' /\ (f.notStarted <=> ~ Has(Len(log), "tool/call", f.call)')
        BY <3>8, <3>9, <4>3, <4>5, <4>6
      <4>9. ResultRight(f)'
        BY <1>5, <1>10, <4>6, <4>7, <4>8 DEF ResultRight
      <4>. QED
        BY <4>1, <4>9
    <3>13. \A i, j \in 1 .. m, c \in CallIds :
             Answers(rest[i], c) /\ Answers(rest[j], c) => i = j
      <4>1. \A i \in 1 .. m : i + 1 \in 1 .. m + 1
        BY <3>2
      <4>. QED
        BY <3>2, <3>11, <4>1
    <3>14. \A a \in StepOf(log', Len(log')) : log'[a].type = "assistant/message" =>
             \A x \in DOMAIN log'[a].calls : \E c \in CallIds :
               /\ c = log'[a].calls[x]
               /\ c \in H \/ c = e.call \/ Answered(rest, c)
      <4>1. ASSUME NEW a \in StepOf(log', Len(log')), log'[a].type = "assistant/message",
                   NEW x \in DOMAIN log'[a].calls
            PROVE  \E c \in CallIds : /\ c = log'[a].calls[x]
                                      /\ c \in H \/ c = e.call \/ Answered(rest, c)
        <5>1. a \in StepAt(Len(log)) /\ log'[a] = log[a] /\ a \in 1 .. Len(log)
          BY <1>1, <1>9, <2>3, <3>5, <3>6, <4>1
        <5>2. PICK c : c = log'[a].calls[x]
          OBVIOUS
        <5>3. Has(Len(log), "tool/result", c) \/ Answered(cs, c)
          BY <1>3, <4>1, <5>1, <5>2 DEF ClosersRight
        <5>4. c \in CallIds
          <6>1. PICK g \in LogEvents : g = log[a]
            BY <5>1 DEF RepairType
          <6>. QED
            BY <4>1, <5>1, <5>2, <6>1, EventFields
        <5>5. ASSUME Answered(cs, c), c # e.call PROVE Answered(rest, c)
          <6>1. PICK i \in 1 .. m + 1 : Answers(cs[i], c)
            BY <3>2, <5>5 DEF Answered
          <6>2. i # 1
            BY <1>6, <5>5, <6>1 DEF Answers
          <6>3. i - 1 \in 1 .. m /\ i - 1 + 1 = i
            BY <3>2, <6>1, <6>2
          <6>4. Answers(rest[i - 1], c)
            BY <3>2, <6>1, <6>3
          <6>. QED
            BY <3>1, <6>3, <6>4 DEF Answered
        <5>. QED
          BY <3>7, <5>2, <5>3, <5>4, <5>5
      <4>. QED
        BY <4>1
    <3>15. \A c \in CallIds : c \in H \/ c = e.call =>
             \E i \in StepOf(log', Len(log')) : log'[i].type = "tool/result" /\ log'[i].call = c
      BY <3>8 DEF Has, StepAt
    <3>16. (\A a \in StepAt(Len(log)) : log[a].type = "assistant/message" =>
             \A x \in DOMAIN log[a].calls :
               Has(Len(log), "tool/result", log[a].calls[x]) \/ Answered(rest, log[a].calls[x]))'
      BY <3>14, <3>15 DEF Has, StepAt, Answered
    <3>. QED
      BY <3>1, <3>4, <3>12, <3>13, <3>16 DEF ClosersRight, StepAt, Answered
  <2>. QED
    BY <1>4, <2>1, <2>2, <2>3
<1>. QED
  BY <1>2, <1>5, <1>7, <1>8, <1>13 DEF ClosersInv

-----------------------------------------------------------------------------
(* The invariant, action by action.                                        *)

\* The writers append what the log has room for in its order.
LEMMA WriteKeeps ==
  ASSUME RepairInv, NEW e \in LogEvents, Write(e),
         e.type = "assistant/message" => StepAt(Len(log)) = {},
         e.type = "tool/result" => ~ Has(Len(log), "tool/result", e.call)
  PROVE  RepairInv'
<1>1. /\ pc = "live" /\ Session!Accepts(trace, e) /\ Record(e)
      /\ UNCHANGED <<pc, open, closers>>
  BY DEF Write
<1>2. RepairType /\ PastInv /\ LogInv
  BY DEF RepairInv
<1>3. /\ log' \in Seq(LogEvents) /\ past' \in Seq(Traces) /\ Len(past') = Len(log')
      /\ trace' \in Traces /\ Len(log) \in Nat /\ Len(log') = Len(log) + 1
      /\ PastInv' /\ LogInv'
  BY <1>1, <1>2, RecordKeeps
<1>4. RepairType'
  <2>1. /\ open \in Scans /\ open.seq <= Len(log) /\ closers \in Seq(LogEvents)
    BY <1>2 DEF RepairType
  <2>2. open.seq <= Len(log) + 1
    BY <1>3, <2>1 DEF Scans
  <2>. QED
    BY <1>1, <1>3, <2>1, <2>2 DEF RepairType
<1>5. ScanInv' /\ ClosersInv'
  BY <1>1 DEF ScanInv, ClosersInv
<1>. QED
  BY <1>3, <1>4, <1>5 DEF RepairInv

\* A turn or a step is opened or closed.
LEMMA BoundaryKeeps == RepairInv /\ WriteBoundary => RepairInv'
<1>. SUFFICES ASSUME RepairInv, WriteBoundary PROVE RepairInv'
  OBVIOUS
<1>1. /\ trace.openTurn \in Nat /\ trace.openStep \in Nat
      /\ trace.nextTurn \in Nat /\ trace.nextStep \in Nat
  BY DEF RepairInv, RepairType, Traces
<1>2. ASSUME NEW e \in LogEvents, Write(e),
             e.type \in {"turn/start", "turn/end", "step/start", "step/end"}
      PROVE  RepairInv'
  BY <1>2, WriteKeeps
<1>3. CASE Write(Session!TurnStart(trace.nextTurn))
  BY <1>1, <1>2, <1>3, EventsMade DEF Session!TurnStart
<1>4. CASE Write(Session!TurnEnd(trace.openTurn))
  BY <1>1, <1>2, <1>4, EventsMade DEF Session!TurnEnd
<1>5. CASE Write(Session!StepStart(trace.openTurn, trace.nextStep))
  BY <1>1, <1>2, <1>5, EventsMade DEF Session!StepStart
<1>6. CASE Write(Session!StepEnd(trace.openTurn, trace.openStep))
  BY <1>1, <1>2, <1>6, EventsMade DEF Session!StepEnd
<1>. QED
  BY <1>3, <1>4, <1>5, <1>6 DEF WriteBoundary

\* A message is written.
LEMMA MessageKeeps == RepairInv /\ WriteMessage => RepairInv'
<1>. SUFFICES ASSUME RepairInv, WriteMessage PROVE RepairInv'
  OBVIOUS
<1>1. PICK n \in 0 .. MaxCalls : \E calls \in [1 .. n -> CallIds] :
         Write(Message(trace.openTurn, trace.openStep, calls))
  BY DEF WriteMessage
<1>2. PICK calls \in [1 .. n -> CallIds] :
         Write(Message(trace.openTurn, trace.openStep, calls))
  BY <1>1
<1>3. calls \in Seq(CallIds)
  <2>1. n \in Nat
    OBVIOUS
  <2>. QED
    BY <1>2, <2>1, SeqDef
<1>4. trace.openTurn \in Nat /\ trace.openStep \in Nat /\ RepairType
  BY DEF RepairInv, RepairType, Traces
<1>5. PICK e : e = Message(trace.openTurn, trace.openStep, calls)
  OBVIOUS
<1>6. e \in LogEvents /\ e.type = "assistant/message"
  <2>1. e \in LogEvents
    BY <1>3, <1>4, <1>5, EventsMade
  <2>. QED
    BY <1>5, <2>1 DEF Message
<1>7. StepAt(Len(log)) = {}
  BY <1>4, OpenStepIs DEF WriteMessage
<1>. QED
  BY <1>2, <1>5, <1>6, <1>7, WriteKeeps

\* A call that a message asks for is a call.
LEMMA AskedCalls == RepairType => Asked \subseteq CallIds
<1>. SUFFICES ASSUME RepairType, NEW c \in Asked PROVE c \in CallIds
  OBVIOUS
<1>1. PICK m \in StepAt(Len(log)) : /\ log[m].type = "assistant/message"
                                    /\ \E x \in DOMAIN log[m].calls : c = log[m].calls[x]
  BY OpenStepIs
<1>2. m \in 1 .. Len(log)
  BY <1>1 DEF StepAt, StepOf
<1>3. log[m] \in LogEvents
  BY <1>2 DEF RepairType
<1>4. log[m].calls \in Seq(CallIds)
  BY <1>1, <1>3, EventFields
<1>. QED
  BY <1>1, <1>4

\* A call is recorded, or its result.
LEMMA ToolKeeps == RepairInv /\ WriteTool => RepairInv'
<1>. SUFFICES ASSUME RepairInv, WriteTool PROVE RepairInv'
  OBVIOUS
<1>1. trace.openTurn \in Nat /\ trace.openStep \in Nat /\ RepairType
  BY DEF RepairInv, RepairType, Traces
<1>2. PICK c \in Asked :
        \/ Write(Session!ToolCall(trace.openTurn, trace.openStep, c))
        \/ /\ c \notin Seen("tool/result")
           /\ Write(Session!ToolResult(trace.openTurn, trace.openStep, c, FALSE))
  BY DEF WriteTool
<1>3. c \in CallIds
  BY <1>1, AskedCalls
<1>4. CASE Write(Session!ToolCall(trace.openTurn, trace.openStep, c))
  <2>1. PICK e : e = Session!ToolCall(trace.openTurn, trace.openStep, c)
    OBVIOUS
  <2>2. e \in LogEvents
    BY <1>1, <1>3, <2>1, EventsMade
  <2>3. e.type = "tool/call"
    BY <2>1 DEF Session!ToolCall
  <2>. QED
    BY <1>4, <2>1, <2>2, <2>3, WriteKeeps
<1>5. CASE /\ c \notin Seen("tool/result")
           /\ Write(Session!ToolResult(trace.openTurn, trace.openStep, c, FALSE))
  <2>1. PICK e : e = Session!ToolResult(trace.openTurn, trace.openStep, c, FALSE)
    OBVIOUS
  <2>2. e \in LogEvents
    BY <1>1, <1>3, <2>1, EventsMade
  <2>3. e.type = "tool/result" /\ e.call = c
    BY <2>1 DEF Session!ToolResult
  <2>4. ~ Has(Len(log), "tool/result", c)
    BY <1>1, <1>3, <1>5, OpenStepIs
  <2>. QED
    BY <1>5, <2>1, <2>2, <2>3, <2>4, WriteKeeps
<1>. QED
  BY <1>2, <1>4, <1>5

\* A crash, or the scan or the closers begun again.
LEMMA CrashKeeps == RepairInv /\ Crash => RepairInv'
<1>. SUFFICES ASSUME RepairInv, Crash PROVE RepairInv'
  OBVIOUS
<1>1. /\ pc' = "scan" /\ open' = NothingOpen /\ closers' = <<>>
      /\ UNCHANGED <<log, trace, past>>
  BY DEF Crash
<1>2. RepairType /\ PastInv /\ LogInv /\ Len(log) \in Nat
  BY DEF RepairInv, RepairType
<1>3. /\ open' \in Scans /\ open'.seq = 0 /\ open'.block = 0 /\ open'.openTurn = 0
      /\ open'.openStep = 0 /\ open'.pending = <<>>
  BY <1>1 DEF NothingOpen, Scans
<1>4. RepairType'
  BY <1>1, <1>2, <1>3 DEF RepairType
<1>5. PastInv' /\ LogInv'
  BY <1>1, <1>2 DEF PastInv, LogInv, After, StepAt
<1>6. Knows(0, 0, 0, <<>>)
  <2>1. After(0).openTurn = 0 /\ After(0).openStep = 0
    BY <1>2 DEF PastInv, Session!FreshTrace, Session!NoTurn, Session!NoStep
  <2>2. StepAt(0) = {}
    BY StepEmpty DEF StepAt
  <2>. QED
    BY <2>1, <2>2, BoundaryPassed
<1>7. Knows(0, 0, 0, <<>>)'
  BY <1>1, <1>6 DEF Knows, After, StepAt, Has, EntryRight
<1>8. ScanInv'
  BY <1>3, <1>7 DEF ScanInv
<1>. QED
  BY <1>1, <1>4, <1>5, <1>8 DEF RepairInv, ClosersInv

\* The steps of a recovery.
LEMMA RecoverKeeps == RepairInv /\ Recover => RepairInv'
<1>. SUFFICES ASSUME RepairInv, Recover PROVE RepairInv'
  OBVIOUS
<1>1. RepairType /\ PastInv /\ LogInv /\ ScanInv /\ ClosersInv
  BY DEF RepairInv
<1>2. ASSUME UNCHANGED <<log, trace, past>> PROVE PastInv' /\ LogInv'
  BY <1>1, <1>2 DEF PastInv, LogInv, After, StepAt
<1>3. CASE Scan
  <2>1. open' \in Scans /\ open'.seq <= Len(log) /\ ScanInv'
    BY <1>1, <1>3, ScanKeeps
  <2>2. pc = "scan" /\ UNCHANGED <<log, trace, past, pc, closers>>
    BY <1>3 DEF Scan
  <2>3. RepairType'
    BY <1>1, <2>1, <2>2 DEF RepairType
  <2>. QED
    BY <1>2, <2>1, <2>2, <2>3 DEF RepairInv, ClosersInv
<1>4. CASE Close
  <2>1. closers' \in Seq(LogEvents) /\ ClosersInv'
    BY <1>1, <1>4, CloseKeeps
  <2>2. pc' = "append" /\ open' = NothingOpen /\ UNCHANGED <<log, trace, past>>
    BY <1>4 DEF Close
  <2>3. RepairType'
    <3>1. open' \in Scans /\ open'.seq = 0
      BY <2>2 DEF NothingOpen, Scans
    <3>. QED
      BY <1>1, <2>1, <2>2, <3>1 DEF RepairType
  <2>. QED
    BY <1>2, <2>1, <2>2, <2>3 DEF RepairInv, ScanInv
<1>5. CASE AppendCloser
  BY <1>1, <1>5, AppendKeeps DEF RepairInv
<1>6. CASE Resume
  <2>1. pc' = "live" /\ UNCHANGED <<log, trace, past, open, closers>>
    BY <1>6 DEF Resume
  <2>2. RepairType'
    BY <1>1, <2>1 DEF RepairType
  <2>. QED
    BY <1>2, <2>1, <2>2 DEF RepairInv, ScanInv, ClosersInv
<1>. QED
  BY <1>3, <1>4, <1>5, <1>6 DEF Recover

\* In every state of every behaviour the scan knows the prefix it has passed, and
\* the closers are right for the log and each other.
THEOREM RepairInvariance == RepairSpec => []RepairInv
<1>1. RepairInit => RepairInv
  <2>. SUFFICES ASSUME RepairInit PROVE RepairInv
    OBVIOUS
  <2>1. /\ log = <<>> /\ past = <<>> /\ trace = Session!FreshTrace /\ pc = "live"
        /\ open = NothingOpen /\ closers = <<>>
    BY DEF RepairInit
  <2>2. log \in Seq(LogEvents) /\ past \in Seq(Traces) /\ closers \in Seq(LogEvents) /\ Len(log) = 0
        /\ Len(past) = 0
    BY <2>1
  <2>3. trace \in Traces /\ Nested(trace)
    BY <2>1 DEF Traces, Nested, Session!FreshTrace, Session!NoTurn,
       Session!NoStep
  <2>4. open \in Scans /\ open.seq = 0
    BY <2>1 DEF NothingOpen, Scans
  <2>5. RepairType
    BY <2>1, <2>2, <2>3, <2>4 DEF RepairType
  <2>6. After(0) = trace /\ StepAt(0) = {}
    BY <2>2, StepEmpty DEF After, StepAt
  <2>7. PastInv
    BY <2>1, <2>2, <2>3, <2>6 DEF PastInv
  <2>8. LogInv
    BY <2>2, <2>6 DEF LogInv
  <2>. QED
    BY <2>1, <2>5, <2>7, <2>8 DEF RepairInv, ScanInv, ClosersInv
<1>2. RepairInv /\ [RepairNext]_repairVars => RepairInv'
  <2>. SUFFICES ASSUME RepairInv, [RepairNext]_repairVars PROVE RepairInv'
    OBVIOUS
  <2>1. CASE UNCHANGED repairVars
    <3>1. UNCHANGED <<log, trace, past, pc, open, closers>>
      BY <2>1 DEF repairVars
    <3>2. RepairType' /\ PastInv' /\ LogInv'
      BY <3>1 DEF RepairInv, RepairType, PastInv, LogInv, After, StepAt
    <3>3. ScanInv'
      BY <3>1 DEF RepairInv, ScanInv, Knows, After, StepAt, Has, EntryRight
    <3>4. ClosersInv'
      BY <3>1 DEF RepairInv, ClosersInv, ClosersRight, ClosersShape, ResultRight, Has, StepAt,
         Answered
    <3>. QED
      BY <3>2, <3>3, <3>4 DEF RepairInv
  <2>2. CASE RepairNext
    BY <2>2, BoundaryKeeps, MessageKeeps, ToolKeeps, CrashKeeps, RecoverKeeps DEF RepairNext
  <2>. QED
    BY <2>1, <2>2
<1>. QED
  BY <1>1, <1>2, PTL DEF RepairSpec

-----------------------------------------------------------------------------
(* What the invariant says of the closers.                                 *)

\* Wherever a crash cuts the log, also inside an earlier recovery, each closer in
\* its turn is accepted by the session, and the repaired log is between turns.
THEOREM ClosersAreAccepted == RepairSpec => []ClosersAccepted
<1>1. RepairInv => ClosersAccepted
  <2>. SUFFICES ASSUME RepairInv, pc = "append"
                PROVE  IF closers = <<>> THEN Session!Balanced(trace)
                       ELSE /\ Session!Accepts(trace, Head(closers))
                            /\ ~ Session!Balanced(trace)
    BY DEF ClosersAccepted
  <2>1. RepairType /\ PastInv /\ LogInv /\ ClosersRight(closers)
    BY DEF RepairInv, ClosersInv
  <2>2. CASE closers = <<>>
    <3>1. Len(closers) = 0 /\ ClosersShape(closers)
      BY <2>1, <2>2 DEF ClosersRight
    <3>2. trace.openTurn = 0 /\ Nested(trace)
      BY <2>1, <3>1, TraceNow DEF ClosersShape
    <3>. QED
      BY <2>2, <3>2 DEF Nested, Session!Balanced, Session!NoTurn,
         Session!NoStep
  <2>3. CASE closers # <<>>
    <3>1. Session!Accepts(trace, Head(closers)) /\ trace.openTurn # 0
      BY <2>1, <2>3, NextCloser
    <3>. QED
      BY <2>3, <3>1 DEF Session!Balanced, Session!NoTurn
  <2>. QED
    BY <2>2, <2>3
<1>. QED
  BY <1>1, RepairInvariance, PTL

\* A set that has a member and not two has cardinality one.
LEMMA OneMember ==
  ASSUME NEW S, \A x, y \in S : x = y
  PROVE  Cardinality(S) = IF S = {} THEN 0 ELSE 1
<1>1. Cardinality(S) = Cardinality(S)
  BY DEF Cardinality, Cardinality
<1>2. CASE S = {}
  BY <1>1, <1>2, FS_EmptySet
<1>3. CASE S # {}
  <2>1. PICK x \in S : TRUE
    BY <1>3
  <2>2. S = {x}
    BY <2>1
  <2>. QED
    BY <1>1, <1>3, <2>2, FS_Singleton
<1>. QED
  BY <1>2, <1>3

\* Of the results in the log and among the closers, exactly one is for each call
\* that the interrupted step asked for, and none reports a recorded call as one
\* that was not started.
THEOREM CallsAnsweredOnce == RepairSpec => []InterruptedCallsAnswered
<1>1. RepairInv => InterruptedCallsAnswered
  <2>. SUFFICES ASSUME RepairInv, pc = "append" PROVE InterruptedCallsAnswered
    BY DEF InterruptedCallsAnswered
  <2>1. RepairType /\ LogInv /\ ClosersRight(closers)
    BY DEF RepairInv, ClosersInv
  <2>2. DOMAIN closers = 1 .. Len(closers)
    BY <2>1 DEF RepairType
  <2>3. ASSUME NEW c \in Asked
        PROVE  Cardinality({i \in OpenStep : Answers(log[i], c)})
                 + Cardinality({i \in DOMAIN closers : Answers(closers[i], c)}) = 1
    <3>. DEFINE L == {i \in OpenStep : Answers(log[i], c)}
                K == {i \in DOMAIN closers : Answers(closers[i], c)}
    <3>1. c \in CallIds
      BY <2>1, AskedCalls
    <3>2. L # {} <=> Has(Len(log), "tool/result", c)
      BY <2>1, OpenStepIs DEF Has, Answers
    <3>3. K # {} <=> Answered(closers, c)
      BY <2>2 DEF Answered
    <3>4. Has(Len(log), "tool/result", c) \/ Answered(closers, c)
      <4>1. PICK m \in StepAt(Len(log)) : /\ log[m].type = "assistant/message"
                                          /\ \E x \in DOMAIN log[m].calls : c = log[m].calls[x]
        BY <2>1, OpenStepIs
      <4>. QED
        BY <2>1, <4>1 DEF ClosersRight
    <3>5. ~ (Has(Len(log), "tool/result", c) /\ Answered(closers, c))
      BY <2>1 DEF Answered, ClosersRight, ResultRight, Answers
    <3>6. \A x, y \in L : x = y
      BY <2>1, OpenStepIs DEF LogInv, Answers
    <3>7. \A x, y \in K : x = y
      BY <2>1, <2>2, <3>1 DEF ClosersRight
    <3>. HIDE DEF L, K
    <3>8. Cardinality(L) = (IF L = {} THEN 0 ELSE 1)
      BY <3>6, OneMember
    <3>9. Cardinality(K) = (IF K = {} THEN 0 ELSE 1)
      BY <3>7, OneMember
    <3>10. Cardinality(L) + Cardinality(K) = 1
      BY <3>2, <3>3, <3>4, <3>5, <3>8, <3>9
    <3>. QED
      BY <3>10 DEF L, K
  <2>4. ASSUME NEW i \in DOMAIN closers, closers[i].type = "tool/result"
        PROVE  /\ closers[i].notStarted <=> closers[i].call \notin Seen("tool/call")
               /\ ~ closers[i].notStarted =>
                    log[closers[i].cites] =
                      Session!ToolCall(closers[i].turn, closers[i].step, closers[i].call)
    <3>1. PICK e : e = closers[i]
      OBVIOUS
    <3>2. ResultRight(e)
      BY <2>1, <2>2, <2>4, <3>1 DEF ClosersRight
    <3>3. e \in LogEvents
      BY <2>1, <2>2, <3>1 DEF RepairType
    <3>4. e.call \in CallIds
      BY <2>4, <3>1, <3>3, EventFields
    <3>5. e.call \in Seen("tool/call") <=> Has(Len(log), "tool/call", e.call)
      BY <2>1, <3>4, OpenStepIs
    <3>. QED
      BY <3>1, <3>2, <3>5 DEF ResultRight
  <2>. QED
    BY <2>3, <2>4 DEF InterruptedCallsAnswered
<1>. QED
  BY <1>1, RepairInvariance, PTL

\* What is accepted is a candidate, or moves the trace as one does.
LEMMA AcceptedAppends ==
  ASSUME trace \in Traces, NEW e \in LogEvents, Session!Accepts(trace, e),
         trace' = Session!Apply(trace, e)
  PROVE  Session!Append1
<1>. DEFINE t == trace.openTurn
            s == trace.openStep
            C == Session!Candidates(trace)
<1>1. SUFFICES \E x \in C : /\ Session!Accepts(trace, x)
                            /\ Session!Apply(trace, x) = Session!Apply(trace, e)
  BY DEF Session!Append1
<1>2. /\ e.type \in {"turn/start", "turn/end", "step/start", "step/end",
                     "assistant/message", "tool/call", "tool/result"}
      /\ e.type \in {"tool/call", "tool/result"} => e.call \in CallIds
      /\ e.type = "tool/result" => e.notStarted \in BOOLEAN
  BY EventFields DEF LogEvents
<1>3. CASE e.type = "turn/start"
  <2>. DEFINE x == Session!TurnStart(trace.nextTurn)
  <2>1. x \in C /\ x.type = "turn/start" /\ x.turn = trace.nextTurn
    BY DEF Session!Candidates, Session!TurnStart
  <2>2. trace.openTurn = Session!NoTurn /\ e.turn = trace.nextTurn
    BY <1>3 DEF Session!Accepts
  <2>. HIDE DEF x
  <2>. QED
    BY <1>3, <2>1, <2>2 DEF Session!Accepts, Session!Apply
<1>4. CASE e.type = "turn/end"
  <2>. DEFINE x == Session!TurnEnd(t)
  <2>1. x \in C /\ x.type = "turn/end" /\ x.turn = t
    BY DEF Session!Candidates, Session!TurnEnd
  <2>2. e.turn = t
    BY <1>4 DEF Session!Accepts, Session!InOpenTurn
  <2>. HIDE DEF x
  <2>. QED
    BY <1>4, <2>1, <2>2 DEF Session!Accepts, Session!Apply,
       Session!InOpenTurn
<1>5. CASE e.type = "step/start"
  <2>. DEFINE x == Session!StepStart(t, trace.nextStep)
  <2>1. x \in C /\ x.type = "step/start" /\ x.turn = t /\ x.step = trace.nextStep
    BY DEF Session!Candidates, Session!StepStart
  <2>2. e.turn = t /\ e.step = trace.nextStep
    BY <1>5 DEF Session!Accepts, Session!InOpenTurn
  <2>. HIDE DEF x
  <2>. QED
    BY <1>5, <2>1, <2>2 DEF Session!Accepts, Session!Apply,
       Session!InOpenTurn
<1>6. CASE e.type = "step/end"
  <2>. DEFINE x == Session!StepEnd(t, s)
  <2>1. x \in C /\ x.type = "step/end" /\ x.turn = t /\ x.step = s
    BY DEF Session!Candidates, Session!StepEnd
  <2>2. e.turn = t /\ e.step = s
    BY <1>6 DEF Session!Accepts, Session!InOpenTurn, Session!InOpenStep
  <2>. HIDE DEF x
  <2>. QED
    BY <1>6, <2>1, <2>2 DEF Session!Accepts, Session!Apply,
       Session!InOpenTurn, Session!InOpenStep
<1>7. CASE e.type = "assistant/message"
  <2>. DEFINE x == Session!AssistantMessage(t, s)
  <2>1. x \in C /\ x.type = "assistant/message" /\ x.turn = t /\ x.step = s
    BY DEF Session!Candidates, Session!AssistantMessage
  <2>2. e.turn = t /\ e.step = s
    BY <1>7 DEF Session!Accepts, Session!InOpenTurn, Session!InOpenStep
  <2>. HIDE DEF x
  <2>. QED
    BY <1>7, <2>1, <2>2 DEF Session!Accepts, Session!Apply,
       Session!InOpenTurn, Session!InOpenStep
<1>8. CASE e.type = "tool/call"
  <2>. DEFINE x == Session!ToolCall(t, s, e.call)
  <2>1. x \in C /\ x.type = "tool/call" /\ x.turn = t /\ x.step = s /\ x.call = e.call
    BY <1>2, <1>8 DEF Session!Candidates, Session!ToolCall
  <2>2. e.turn = t /\ e.step = s
    BY <1>8 DEF Session!Accepts, Session!InOpenTurn, Session!InOpenStep
  <2>. HIDE DEF x
  <2>. QED
    BY <1>8, <2>1, <2>2 DEF Session!Accepts, Session!Apply,
       Session!InOpenTurn, Session!InOpenStep
<1>9. CASE e.type = "tool/result"
  <2>. DEFINE x == Session!ToolResult(t, s, e.call, e.notStarted)
  <2>1. /\ x \in C /\ x.type = "tool/result" /\ x.turn = t /\ x.step = s
        /\ x.call = e.call /\ x.notStarted = e.notStarted
    BY <1>2, <1>9 DEF Session!Candidates, Session!ToolResult
  <2>2. e.turn = t /\ e.step = s
    BY <1>9 DEF Session!Accepts, Session!InOpenTurn, Session!InOpenStep
  <2>. HIDE DEF x
  <2>. QED
    BY <1>9, <2>1, <2>2 DEF Session!Accepts, Session!Apply,
       Session!InOpenTurn, Session!InOpenStep
<1>. QED
  BY <1>2, <1>3, <1>4, <1>5, <1>6, <1>7, <1>8, <1>9

\* The log, with the crashes and what each repair adds, is one history that the
\* session's grammar allows: every event is accepted where it stands.
THEOREM RepairImplementsTrace == RepairSpec => Session!Spec
<1>1. RepairInit => Session!Init
  BY DEF RepairInit, Session!Init, Session!FreshTrace, Session!Balanced,
     Session!TraceType, Session!NoTurn, Session!NoStep
<1>2. RepairInv /\ RepairInv' /\ [RepairNext]_repairVars => [Session!Append1]_trace
  <2>. SUFFICES ASSUME RepairInv, RepairInv', [RepairNext]_repairVars
                PROVE  [Session!Append1]_trace
    OBVIOUS
  <2>1. RepairType /\ PastInv /\ LogInv /\ trace \in Traces /\ RepairType'
    BY DEF RepairInv, RepairType
  <2>2. ASSUME NEW e, Record(e), Session!Accepts(trace, e)
        PROVE  Session!Append1
    <3>1. log' = Append(log, e) /\ log' \in Seq(LogEvents) /\ log \in Seq(LogEvents)
      BY <2>1, <2>2 DEF Record, RepairType
    <3>2. e \in LogEvents
      <4>1. Len(log) \in Nat /\ Len(log') = Len(log) + 1 /\ log'[Len(log) + 1] = e
        BY <3>1
      <4>. QED
        BY <3>1, <4>1
    <3>. QED
      BY <2>1, <2>2, <3>2, AcceptedAppends DEF Record
  <2>3. ASSUME NEW e, Write(e) PROVE Session!Append1
    BY <2>2, <2>3 DEF Write
  <2>4. CASE WriteBoundary
    BY <2>3, <2>4 DEF WriteBoundary
  <2>5. CASE WriteMessage
    BY <2>3, <2>5 DEF WriteMessage
  <2>6. CASE WriteTool
    BY <2>3, <2>6 DEF WriteTool
  <2>7. CASE AppendCloser
    <3>1. pc = "append" /\ closers # <<>> /\ Record(Head(closers))
      BY <2>7 DEF AppendCloser
    <3>2. ClosersRight(closers)
      BY <3>1 DEF RepairInv, ClosersInv
    <3>3. Session!Accepts(trace, Head(closers))
      BY <2>1, <3>1, <3>2, NextCloser
    <3>. QED
      BY <2>2, <3>1, <3>3
  <2>8. CASE Crash \/ Scan \/ Close \/ Resume \/ UNCHANGED repairVars
    BY <2>8 DEF Crash, Scan, Close, Resume, repairVars
  <2>. QED
    BY <2>4, <2>5, <2>6, <2>7, <2>8 DEF RepairNext, Recover
<1>. QED
  BY <1>1, <1>2, RepairInvariance, PTL DEF RepairSpec, Session!Spec
=============================================================================
