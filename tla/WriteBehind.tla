----------------------------- MODULE WriteBehind -----------------------------
(***************************************************************************)
(* The write-behind controller of one live session: SessionWriteBehind of  *)
(* packages/session/session-persistence, with the coordinator's flush()    *)
(* and write sink around it. Events are queued, written in batches after a *)
(* fixed delay, kept in order when a write fails, and drained by a barrier *)
(* that concurrent flushes share.                                          *)
(*                                                                         *)
(* Promise reactions run one after another: between the settling of a      *)
(* write, its finally handler and the code that awaits it, other reactions *)
(* may enqueue or flush, but no timer fires. Timers are counted, because   *)
(* the controller can cancel only the one it holds.                        *)
(***************************************************************************)
EXTENDS Naturals, Sequences

CONSTANT MaxEvents    \* bound: events the live session appends

ASSUME MaxEventsAssumption == MaxEvents \in Nat

VARIABLES
  init,             \* live.init: "pending", "ok" or "failed"
  pending,          \* events queued
  timers,           \* armed deadlines
  deadlineExpired,
  automaticPaused,
  active,           \* the active write: "none", "writing", "stored", "failed"
  batch,            \* what it writes
  background,       \* it was started by the deadline
  continuing,       \* continueAutomatic() is about to run
  barrier,          \* the shared barrier: "none", what drainBarrier() awaits,
                    \* or what it is about to resume with
  waiting,          \* a coordinator flush awaits live.init
  stored,           \* events in storage
  sent,             \* events appended so far, numbered from 1
  promised          \* events appended when a flush last resolved

vars == <<init, pending, timers, deadlineExpired, automaticPaused, active, batch,
          background, continuing, barrier, waiting, stored, sent, promised>>

Init ==
  /\ init = "pending"
  /\ pending = <<>>
  /\ timers = 0
  /\ deadlineExpired = FALSE
  /\ automaticPaused = FALSE
  /\ active = "none"
  /\ batch = <<>>
  /\ background = FALSE
  /\ continuing = FALSE
  /\ barrier = "none"
  /\ waiting = FALSE
  /\ stored = <<>>
  /\ sent = 0
  /\ promised = 0

-----------------------------------------------------------------------------
ArmTimer    == timers' = timers + 1

\* Faulty: a deadline is taken to be armed.
CancelTimerUnchecked == timers' = timers - 1

CancelTimer == timers' = IF timers = 0 THEN 0 ELSE timers - 1

\* startWrite(): take the whole queue. The caller checked nothing is active.
StartWrite(detached) ==
  /\ batch' = pending
  /\ pending' = <<>>
  /\ CancelTimer
  /\ deadlineExpired' = FALSE
  /\ active' = "writing"
  /\ background' = detached

NoWrite == UNCHANGED <<batch, pending, active, background>>

\* The loop of drainBarrier(): write what is queued, or close the barrier and
\* resolve its callers.
Drain ==
  IF pending # <<>>
  THEN StartWrite(FALSE) /\ barrier' = "drain" /\ UNCHANGED promised
  ELSE /\ barrier' = "none"
       /\ promised' = sent
       /\ NoWrite

\* enqueue(): a barrier will take the event; otherwise a first event, or one
\* after a failure, arms the deadline.
Enqueue ==
  /\ sent < MaxEvents
  /\ sent' = sent + 1
  /\ pending' = Append(pending, sent + 1)
  /\ IF barrier = "none" /\ (automaticPaused \/ pending = <<>>)
     THEN /\ ArmTimer
          /\ automaticPaused' = FALSE
          /\ deadlineExpired' = IF automaticPaused THEN FALSE ELSE deadlineExpired
     ELSE UNCHANGED <<timers, automaticPaused, deadlineExpired>>
  /\ UNCHANGED <<init, active, batch, background, continuing, barrier, waiting,
                 stored, promised>>

\* The coordinator's flush() up to its await of live.init.
FlushCalled ==
  /\ waiting' = TRUE
  /\ CancelTimer
  /\ deadlineExpired' = FALSE
  /\ UNCHANGED <<init, pending, automaticPaused, active, batch, background,
                 continuing, barrier, stored, sent, promised>>

\* Faulty: the overlapping write is not waited for.
FlushReadyNoOverlap ==
  /\ waiting /\ init = "ok"
  /\ waiting' = FALSE
  /\ IF barrier # "none"
     THEN UNCHANGED <<timers, deadlineExpired, automaticPaused, barrier, promised>>
          /\ NoWrite
     ELSE /\ automaticPaused' = FALSE
          /\ CancelTimer
          /\ deadlineExpired' = FALSE
          /\ Drain
  /\ UNCHANGED <<init, continuing, stored, sent>>

\* flush() of the controller: join the barrier, or cancel the wait and open one
\* that first lets an overlapping write settle.
FlushReady ==
  /\ waiting /\ init = "ok"
  /\ waiting' = FALSE
  /\ IF barrier # "none"
     THEN UNCHANGED <<timers, deadlineExpired, automaticPaused, barrier, promised>>
          /\ NoWrite
     ELSE /\ automaticPaused' = FALSE
          /\ CancelTimer
          /\ deadlineExpired' = FALSE
          /\ IF active = "none" THEN Drain
             ELSE barrier' = "overlap" /\ NoWrite /\ UNCHANGED promised
  /\ UNCHANGED <<init, continuing, stored, sent>>

FlushRefused ==
  /\ waiting /\ init = "failed"
  /\ waiting' = FALSE
  /\ CancelTimer
  /\ deadlineExpired' = FALSE
  /\ UNCHANGED <<init, pending, automaticPaused, active, batch, background,
                 continuing, barrier, stored, sent, promised>>

\* A promise reaction is queued: it runs before any timer.
Reacting == active \in {"stored", "failed"} \/ continuing
            \/ barrier \in {"overlapped", "drained", "rejected"}

\* Faulty: a deadline that passes during a write is forgotten.
DeadlineForgotten ==
  /\ timers > 0 /\ ~Reacting
  /\ IF active # "none"
     THEN timers' = timers - 1 /\ NoWrite /\ UNCHANGED deadlineExpired
     ELSE StartWrite(TRUE)
  /\ UNCHANGED <<init, automaticPaused, continuing, barrier, waiting, stored,
                 sent, promised>>

\* onDeadline(): start a background write, or note that the budget is spent.
Deadline ==
  /\ timers > 0 /\ ~Reacting
  /\ IF active # "none"
     THEN deadlineExpired' = TRUE /\ timers' = timers - 1 /\ NoWrite
     ELSE StartWrite(TRUE)
  /\ UNCHANGED <<init, automaticPaused, continuing, barrier, waiting, stored,
                 sent, promised>>

\* The sink resolves after the batch is durable.
WriteStored ==
  /\ active = "writing" /\ init = "ok"
  /\ stored' = stored \o batch
  /\ active' = "stored"
  /\ UNCHANGED <<init, pending, timers, deadlineExpired, automaticPaused, batch,
                 background, continuing, barrier, waiting, sent, promised>>

\* Faulty: a rejected batch is queued again behind newer events.
WriteRejectedToTail ==
  /\ active = "writing" /\ init # "pending"
  /\ pending' = pending \o batch
  /\ CancelTimer
  /\ deadlineExpired' = FALSE
  /\ automaticPaused' = TRUE
  /\ active' = "failed"
  /\ UNCHANGED <<init, batch, background, continuing, barrier, waiting, stored,
                 sent, promised>>

\* The sink rejects: the batch goes back to the head of the queue.
WriteRejected ==
  /\ active = "writing" /\ init # "pending"
  /\ pending' = batch \o pending
  /\ CancelTimer
  /\ deadlineExpired' = FALSE
  /\ automaticPaused' = TRUE
  /\ active' = "failed"
  /\ UNCHANGED <<init, batch, background, continuing, barrier, waiting, stored,
                 sent, promised>>

\* The finally handler, after which those who await the write will resume.
WriteEnds ==
  /\ active \in {"stored", "failed"}
  /\ active' = "none"
  /\ continuing' = (background /\ active = "stored")
  /\ barrier' = CASE barrier = "overlap" -> "overlapped"
                  [] barrier = "drain" -> IF active = "stored" THEN "drained"
                                          ELSE "rejected"
                  [] OTHER -> barrier
  /\ UNCHANGED <<init, pending, timers, deadlineExpired, automaticPaused, batch,
                 background, waiting, stored, sent, promised>>

\* Faulty: the expired deadline is cleared without a write.
ContinueForgets ==
  /\ continuing
  /\ continuing' = FALSE
  /\ deadlineExpired' = FALSE
  /\ NoWrite
  /\ UNCHANGED <<init, timers, automaticPaused, barrier, waiting, stored, sent,
                 promised>>

\* continueAutomatic(): go on at once when the deadline passed meanwhile.
ContinueAutomatic ==
  /\ continuing
  /\ continuing' = FALSE
  /\ IF barrier = "none" /\ pending # <<>> /\ deadlineExpired
     THEN StartWrite(TRUE)
     ELSE NoWrite /\ UNCHANGED <<timers, deadlineExpired>>
  /\ UNCHANGED <<init, automaticPaused, barrier, waiting, stored, sent, promised>>

\* Faulty: a rejected barrier is never closed.
BarrierStaysRejected ==
  /\ ~continuing
  /\ barrier \in {"overlapped", "drained"}
  /\ automaticPaused' = IF barrier = "overlapped" THEN FALSE ELSE automaticPaused
  /\ Drain
  /\ pending = <<>> => UNCHANGED <<timers, deadlineExpired>>
  /\ UNCHANGED <<init, continuing, waiting, stored, sent>>

\* drainBarrier() resumes.
BarrierResumes ==
  /\ ~continuing
  /\ \/ /\ barrier = "rejected"
        /\ barrier' = "none"
        /\ NoWrite
        /\ UNCHANGED <<timers, deadlineExpired, automaticPaused, promised>>
     \/ /\ barrier \in {"overlapped", "drained"}
        /\ automaticPaused' = IF barrier = "overlapped" THEN FALSE ELSE automaticPaused
        /\ Drain
        /\ pending = <<>> => UNCHANGED <<timers, deadlineExpired>>
  /\ UNCHANGED <<init, continuing, waiting, stored, sent>>

InitSettles ==
  /\ init = "pending"
  /\ init' \in {"ok", "failed"}
  /\ UNCHANGED <<pending, timers, deadlineExpired, automaticPaused, active, batch,
                 background, continuing, barrier, waiting, stored, sent, promised>>

Controller ==
  \/ FlushReady \/ FlushRefused \/ Deadline \/ WriteEnds \/ ContinueAutomatic
  \/ BarrierResumes

Backend == WriteStored \/ WriteRejected \/ InitSettles

Next == Controller \/ Backend \/ Enqueue \/ FlushCalled

Spec == Init /\ [][Next]_vars

\* Timers fire, promise reactions run, and the backend settles every call.
Fairness ==
  /\ WF_vars(FlushReady) /\ WF_vars(FlushRefused) /\ WF_vars(Deadline)
  /\ WF_vars(WriteEnds) /\ WF_vars(ContinueAutomatic) /\ WF_vars(BarrierResumes)
  /\ WF_vars(WriteStored \/ WriteRejected) /\ WF_vars(InitSettles)

FairSpec == Spec /\ Fairness

-----------------------------------------------------------------------------
Events == 1 .. MaxEvents

\* Every variable has its type.
TypeOK ==
  /\ init \in {"pending", "ok", "failed"}
  /\ pending \in Seq(Events) /\ batch \in Seq(Events) /\ stored \in Seq(Events)
  /\ timers \in Nat
  /\ deadlineExpired \in BOOLEAN /\ automaticPaused \in BOOLEAN
  /\ active \in {"none", "writing", "stored", "failed"}
  /\ background \in BOOLEAN /\ continuing \in BOOLEAN /\ waiting \in BOOLEAN
  /\ barrier \in {"none", "overlap", "drain", "overlapped", "drained", "rejected"}
  /\ sent \in 0 .. MaxEvents /\ promised \in 0 .. MaxEvents

\* No event is lost, duplicated or reordered between the live session and
\* storage, whatever fails and whatever arrives while a write is under way.
InOrderOnce ==
  stored \o (IF active = "writing" THEN batch ELSE <<>>) \o pending
    = [i \in 1 .. sent |-> i]

\* Queued events never wait for nothing: a deadline, a write whose budget is
\* spent, a barrier or a flush will take them, or a failure was reported.
NeverStranded ==
  pending # <<>> =>
    \/ timers > 0
    \/ deadlineExpired /\ (active # "none" \/ continuing)
    \/ barrier # "none"
    \/ waiting
    \/ automaticPaused
    \/ init = "failed"

\* The controller holds every deadline it armed: none can fire after it was
\* meant to be cancelled.
OneTimer == timers <= 1

\* What the seam promises: order, no gap, and durability at every flush.
Promise == INSTANCE DurableLog WITH submitted <- sent, durable <- Len(stored)
ImplementsDurableLog == Promise!Spec

\* Every event becomes durable unless a write of it failed, and every flush
\* barrier is settled.
EventuallyStored ==
  /\ \A i \in Events :
       sent >= i ~> (Len(stored) >= i \/ automaticPaused \/ init = "failed")
  /\ barrier # "none" ~> barrier = "none"
=============================================================================
