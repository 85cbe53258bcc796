-------------------------------- MODULE Jobs --------------------------------
(***************************************************************************)
(* The registry of background jobs: LocalJobRegistry of packages/jobs/     *)
(* jobs-local, with the completion listener of packages/jobs/tool-jobs. A  *)
(* job has an owner, an agent, or none. Its outcome is to reach the model  *)
(* on one way: a wait that was pending, a kill, a read, or a notice.       *)
(*                                                                         *)
(* Promise reactions are steps of their own: a producer's done and the     *)
(* settlement it causes, the end of a wait and the resumption of wait().   *)
(* A producer that was told to stop does stop, or its cancel throws. The   *)
(* budget of wakes a notice may spend is not modelled: a notice is put in  *)
(* the owner's inbox, whether it wakes the owner or not.                   *)
(***************************************************************************)
EXTENDS Naturals, FiniteSets

CONSTANTS
  Job,          \* the jobs that may be started
  Owner,        \* agents
  NoOwner,      \* owner === undefined
  Wait,         \* calls of wait() on a job that runs
  MaxActive     \* maxConcurrentJobsPerOwner

ASSUME JobsAssumption ==
  /\ IsFiniteSet(Wait)
  /\ NoOwner \notin Owner
  /\ MaxActive \in Nat \ {0}

VARIABLES
  status,       \* per job: "none", "running", "stopping" or "settled"
  owner,        \* per job
  producer,     \* per job: "none", "working", "done", "delivered"
  reported,     \* per job
  waiters,      \* per job: waits that are counted
  store,        \* jobs on record
  wait,         \* per wait: its job and how far it is
  cleanups,     \* owners with a cleanup attached to their scope
  life,         \* per owner: "live", "disposing" or "gone"
  captured,     \* per owner: the jobs its disposal awaits
  service,      \* "up", "disposing" or "down"
  all,          \* the jobs the service's disposal awaits
  attached,     \* tool-jobs is loaded: its controller and its listener
  notices,      \* history: notices sent of a job
  known,        \* history, per job: "no", "unheard" when it settled with no
                \* listener, "read" when its end was read, or "claimed" by a
                \* wait, a kill or a teardown
  orphan        \* history: jobs whose cancel threw in a teardown

jobVars     == <<status, owner, producer, reported, waiters, store, wait>>
lifeVars    == <<cleanups, life, captured, service, all, attached>>
historyVars == <<notices, known, orphan>>
vars        == <<jobVars, lifeVars, historyVars>>

NotBegun  == [phase |-> "none"]
Over      == [phase |-> "over"]
WaitState == [phase : {"pending", "resolved"}, job : Job] \union {NotBegun, Over}
Terminal(j) == status[j] = "settled"

Init ==
  /\ status = [j \in Job |-> "none"]
  /\ owner = [j \in Job |-> NoOwner]
  /\ producer = [j \in Job |-> "none"]
  /\ reported = [j \in Job |-> FALSE]
  /\ waiters = [j \in Job |-> 0]
  /\ store = {}
  /\ wait = [w \in Wait |-> NotBegun]
  /\ cleanups = {}
  /\ life = [o \in Owner |-> "live"]
  /\ captured = [o \in Owner |-> {}]
  /\ service = "up"
  /\ all = {}
  /\ attached = TRUE
  /\ notices = [j \in Job |-> 0]
  /\ known = [j \in Job |-> "no"]
  /\ orphan = {}

-----------------------------------------------------------------------------
Owned(o) == {j \in store : owner[j] = o}

Active(o) == {j \in Owned(o) : status[j] \in {"running", "stopping"}}

\* start(): a controller serves the owner, the owner can still be cleaned up
\* after, and there is room. The service's own disposal is not asked for.
Start(j, o) ==
  /\ attached
  /\ status[j] = "none"
  /\ o # NoOwner => life[o] = "live"
  /\ Cardinality(Active(o)) < MaxActive
  /\ cleanups' = IF o = NoOwner THEN cleanups ELSE cleanups \union {o}
  /\ status' = [status EXCEPT ![j] = "running"]
  /\ owner' = [owner EXCEPT ![j] = o]
  /\ producer' = [producer EXCEPT ![j] = "working"]
  /\ store' = store \union {j}
  /\ UNCHANGED <<reported, waiters, wait, life, captured, service, all, attached,
                 historyVars>>

\* The work ends by itself, or because it was cancelled: done resolves or rejects.
ProducerEnds(j) ==
  /\ producer[j] = "working"
  /\ producer' = [producer EXCEPT ![j] = "done"]
  /\ UNCHANGED <<status, owner, reported, waiters, store, wait, lifeVars, historyVars>>

\* The waits that a settlement of the jobs S releases.
Released(S) ==
  [w \in Wait |-> IF wait[w].phase = "pending" /\ wait[w].job \in S
                    THEN [phase |-> "resolved", job |-> wait[w].job] ELSE wait[w]]

\* The listeners of the job's owner hear of the end: tool-jobs sends a notice
\* unless the end is already known.
Heard(j) == attached /\ service = "up" /\ owner[j] # NoOwner

\* settle(): the first outcome is the one that counts.
Settle(j) ==
  /\ producer[j] = "done"
  /\ producer' = [producer EXCEPT ![j] = "delivered"]
  /\ \/ /\ Terminal(j)
        /\ UNCHANGED <<status, reported, wait, notices, known>>
     \/ /\ ~Terminal(j)
        /\ status' = [status EXCEPT ![j] = "settled"]
        /\ reported' = [reported EXCEPT ![j] = @ \/ waiters[j] > 0]
        /\ wait' = Released({j})
        /\ notices' = [notices EXCEPT ![j] = IF Heard(j) /\ ~reported'[j] THEN @ + 1 ELSE @]
        /\ known' = [known EXCEPT ![j] = IF @ = "no" /\ ~Heard(j) THEN "unheard" ELSE @]
  /\ UNCHANGED <<owner, waiters, store, lifeVars, orphan>>

KnownByReading(j) ==
  known' = [known EXCEPT ![j] = IF @ \in {"no", "unheard"} THEN "read" ELSE @]

Claimed(S) == known' = [j \in Job |-> IF j \in S THEN "claimed" ELSE known[j]]

\* kill(): the cancel comes first, and changes nothing when it throws.
Kill(j) ==
  /\ j \in store
  /\ reported' = [reported EXCEPT ![j] = TRUE]
  /\ \/ Terminal(j) /\ KnownByReading(j) /\ UNCHANGED status
     \/ ~Terminal(j) /\ Claimed({j}) /\ status' = [status EXCEPT ![j] = "stopping"]
  /\ UNCHANGED <<owner, producer, waiters, store, wait, lifeVars, notices, orphan>>

\* read() of a job that has ended, and wait() for one, which returns at once.
Read(j) ==
  /\ j \in store
  /\ Terminal(j)
  /\ reported' = [reported EXCEPT ![j] = TRUE]
  /\ KnownByReading(j)
  /\ UNCHANGED <<status, owner, producer, waiters, store, wait, lifeVars, notices,
                 orphan>>

\* wait() for a job that runs.
BeginWait(w, j) ==
  /\ wait[w].phase = "none"
  /\ j \in store
  /\ ~Terminal(j)
  /\ waiters' = [waiters EXCEPT ![j] = @ + 1]
  /\ wait' = [wait EXCEPT ![w] = [phase |-> "pending", job |-> j]]
  /\ UNCHANGED <<status, owner, producer, reported, store, lifeVars, historyVars>>

\* The deadline: the wait is resolved, and still counted until it resumes.
WaitTimesOut(w) ==
  /\ wait[w].phase = "pending"
  /\ wait' = [wait EXCEPT ![w] = [phase |-> "resolved", job |-> @.job]]
  /\ UNCHANGED <<status, owner, producer, reported, waiters, store, lifeVars, historyVars>>

\* Faulty: an aborted wait stays counted until its rejection is handled.
WaitAbortedCounted(w) ==
  /\ wait[w].phase = "pending"
  /\ wait' = [wait EXCEPT ![w] = Over]
  /\ UNCHANGED <<status, owner, producer, reported, waiters, store, lifeVars, historyVars>>

\* Faulty: the handler and the finally block both take the wait off the count.
WaitAbortedTwice(w) ==
  /\ wait[w].phase = "pending"
  /\ wait' = [wait EXCEPT ![w] = Over]
  /\ waiters' = [waiters EXCEPT ![wait[w].job] = @ - 2]
  /\ UNCHANGED <<status, owner, producer, reported, store, lifeVars, historyVars>>

\* The caller aborts: the wait is no longer counted from here on.
WaitAborted(w) ==
  /\ wait[w].phase = "pending"
  /\ wait' = [wait EXCEPT ![w] = Over]
  /\ waiters' = [waiters EXCEPT ![wait[w].job] = @ - 1]
  /\ UNCHANGED <<status, owner, producer, reported, store, lifeVars, historyVars>>

\* wait() goes on and returns a snapshot, of the end if there is one by now.
WaitReturns(w) ==
  LET j == wait[w].job IN
  /\ wait[w].phase = "resolved"
  /\ wait' = [wait EXCEPT ![w] = Over]
  /\ waiters' = [waiters EXCEPT ![j] = @ - 1]
  /\ \/ Terminal(j) /\ reported' = [reported EXCEPT ![j] = TRUE] /\ Claimed({j})
     \/ ~Terminal(j) /\ UNCHANGED <<reported, known>>
  /\ UNCHANGED <<status, owner, producer, store, lifeVars, notices, orphan>>

-----------------------------------------------------------------------------
\* tool-jobs is unloaded (a reload, or because the registry goes), and loaded.
Detach ==
  /\ attached
  /\ attached' = FALSE
  /\ UNCHANGED <<jobVars, cleanups, life, captured, service, all, historyVars>>

Attach ==
  /\ ~attached /\ service = "up"
  /\ attached' = TRUE
  /\ UNCHANGED <<jobVars, cleanups, life, captured, service, all, historyVars>>

\* Faulty: a cancel that throws leaves the record as it is.
CancelContained(S, T) ==
  LET running == {j \in S : ~Terminal(j)} IN
  /\ T \subseteq running
  /\ status' = [j \in Job |-> IF j \in running \ T THEN "stopping" ELSE status[j]]
  /\ reported' = [j \in Job |-> reported[j] \/ j \in running]
  /\ Claimed(running)
  /\ orphan' = orphan \union T
  /\ UNCHANGED wait

\* Faulty: the report is not claimed.
CancelUnreported(S, T) ==
  LET running == {j \in S : ~Terminal(j)} IN
  /\ T \subseteq running
  /\ status' = [j \in Job |-> IF j \in T THEN "settled"
                              ELSE IF j \in running THEN "stopping" ELSE status[j]]
  /\ Claimed(running)
  /\ orphan' = orphan \union T
  /\ wait' = Released(T)
  /\ UNCHANGED reported

\* cancelForTeardown(): every job of S that runs is cancelled and claimed as
\* reported; those whose cancel throws, T, are forced to fail.
CancelForTeardown(S, T) ==
  LET running == {j \in S : ~Terminal(j)} IN
  /\ T \subseteq running
  /\ status' = [j \in Job |-> IF j \in T THEN "settled"
                              ELSE IF j \in running THEN "stopping" ELSE status[j]]
  /\ reported' = [j \in Job |-> reported[j] \/ j \in running]
  /\ Claimed(running)
  /\ orphan' = orphan \union T
  /\ wait' = Released(T)

\* disposeOwned() up to its await; an owner that never had a job just goes.
DisposeOwner(o) ==
  /\ life[o] = "live"
  /\ life' = [life EXCEPT ![o] = "disposing"]
  /\ cleanups' = cleanups \ {o}
  /\ LET mine == IF o \in cleanups THEN Owned(o) ELSE {} IN
       /\ captured' = [captured EXCEPT ![o] = mine]
       /\ \E T \in SUBSET mine : CancelForTeardown(mine, T)
  /\ UNCHANGED <<owner, producer, waiters, store, service, all, attached, notices>>

\* Faulty: the records are dropped without waiting for the producers.
OwnerGoneAtOnce(o) ==
  /\ life[o] = "disposing"
  /\ store' = store \ captured[o]
  /\ life' = [life EXCEPT ![o] = "gone"]
  /\ captured' = [captured EXCEPT ![o] = {}]
  /\ UNCHANGED <<status, owner, producer, reported, waiters, wait, cleanups, service, all,
                 attached, historyVars>>

\* disposeOwned() from its await on.
OwnerGone(o) ==
  /\ life[o] = "disposing"
  /\ \A j \in captured[o] : Terminal(j)
  /\ store' = store \ captured[o]
  /\ life' = [life EXCEPT ![o] = "gone"]
  /\ captured' = [captured EXCEPT ![o] = {}]
  /\ UNCHANGED <<status, owner, producer, reported, waiters, wait, cleanups, service, all,
                 attached, historyVars>>

\* disposeAll() up to its await. Listeners are closed from here on.
DisposeService ==
  /\ service = "up"
  /\ service' = "disposing"
  /\ all' = store
  /\ \E T \in SUBSET store : CancelForTeardown(store, T)
  /\ UNCHANGED <<owner, producer, waiters, store, cleanups, life, captured, attached,
                 notices>>

\* disposeAll() from its await on: whatever is on record by now is dropped.
ServiceDown ==
  /\ service = "disposing"
  /\ \A j \in all : Terminal(j)
  /\ service' = "down"
  /\ store' = {}
  /\ cleanups' = {}
  /\ UNCHANGED <<status, owner, producer, reported, waiters, wait, life, captured, all,
                 attached, historyVars>>

-----------------------------------------------------------------------------
Next ==
  \/ \E j \in Job, o \in Owner \union {NoOwner} : Start(j, o)
  \/ \E j \in Job : ProducerEnds(j) \/ Settle(j) \/ Kill(j) \/ Read(j)
  \/ \E w \in Wait, j \in Job : BeginWait(w, j)
  \/ \E w \in Wait : WaitTimesOut(w) \/ WaitAborted(w) \/ WaitReturns(w)
  \/ Detach \/ Attach
  \/ \E o \in Owner : DisposeOwner(o) \/ OwnerGone(o)
  \/ DisposeService \/ ServiceDown

Spec == Init /\ [][Next]_vars

\* Reactions run, and a producer that was told to stop stops (the contract of
\* JobHooks). A job nobody stops may run for ever, a wait may have no deadline
\* in reach.
Fairness ==
  /\ \A j \in Job : WF_vars(status[j] = "stopping" /\ ProducerEnds(j)) /\ WF_vars(Settle(j))
  /\ \A o \in Owner : WF_vars(OwnerGone(o))
  /\ WF_vars(ServiceDown)

FairSpec == Spec /\ Fairness

-----------------------------------------------------------------------------
\* TypeOK: the variables are of their types.
TypeOK ==
  /\ status \in [Job -> {"none", "running", "stopping", "settled"}]
  /\ owner \in [Job -> Owner \union {NoOwner}]
  /\ producer \in [Job -> {"none", "working", "done", "delivered"}]
  /\ reported \in [Job -> BOOLEAN]
  /\ waiters \in [Job -> Nat]
  /\ store \subseteq Job
  /\ wait \in [Wait -> WaitState]
  /\ cleanups \subseteq Owner
  /\ life \in [Owner -> {"live", "disposing", "gone"}]
  /\ captured \in [Owner -> SUBSET Job]
  /\ service \in {"up", "disposing", "down"}
  /\ all \subseteq Job
  /\ attached \in BOOLEAN
  /\ notices \in [Job -> Nat]
  /\ known \in [Job -> {"no", "unheard", "read", "claimed"}]
  /\ orphan \subseteq Job

\* A job that has ended, and had a listener when it did, was noticed, or its
\* end is known from a kill, a read, a wait or a teardown, or
\* a wait for it is about to return: settle() suppresses the notice only for a
\* wait that still counts, and a wait that is aborted stops counting at once.
OutcomeReachesSomeone ==
  \A j \in Job :
    Terminal(j) =>
      \/ notices[j] > 0
      \/ known[j] # "no"
      \/ \E w \in Wait : wait[w].phase = "resolved" /\ wait[w].job = j

\* A job is noticed at most once, and never when its end was claimed before it
\* came: by a wait that was counted, also one whose deadline had just passed,
\* by a kill, or by a teardown.
NotToldTwice ==
  \A j \in Job :
    /\ notices[j] <= 1
    /\ notices[j] = 1 => known[j] # "claimed"

\* Jobs of a service that was already going when they were started; its
\* disposal neither cancels nor awaits them.
Late(j) == service # "up" /\ j \notin all

\* When an owner's disposal, or the registry's, has come to its end, the
\* producers of its jobs have stopped or are reported as possible orphans, and
\* none of its jobs is on record. Jobs started in a going registry are excepted.
QuietAfterDisposal ==
  /\ \A o \in Owner, j \in Job :
       life[o] = "gone" /\ owner[j] = o /\ ~Late(j) =>
         j \notin store /\ (producer[j] # "working" \/ j \in orphan)
  /\ \A j \in all :
       service = "down" => j \notin store /\ (producer[j] # "working" \/ j \in orphan)

\* A disposal ends: a cancel that throws never makes it wait for a producer that
\* was not told to stop.
DisposalEnds ==
  /\ \A o \in Owner : life[o] = "disposing" ~> life[o] = "gone"
  /\ service = "disposing" ~> service = "down"
=============================================================================
