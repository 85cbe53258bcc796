----------------------- MODULE PersistenceCoordinator -----------------------
(***************************************************************************)
(* One session identity in PersistenceCoordinator and SessionPreparations  *)
(* (packages/session/session-persistence): cold reads shared by callers,   *)
(* the exclusive reservation of a prepared Session, its publication, live  *)
(* sessions adopted at creation, their writes, and their retirement.       *)
(*                                                                         *)
(* Storage operations of the identity run one at a time, in the order of   *)
(* "chain". A step is what runs between two awaits. The write-behind       *)
(* controller is reduced to "a batch is in flight or not" (WriteBehind has *)
(* its detail); an event is who wrote it and whether it leaves its turn    *)
(* open, and the revision of the log is the log with its torn tail.        *)
(***************************************************************************)
EXTENDS Naturals, Sequences, FiniteSets, SequencesExt

CONSTANTS
  Callers,       \* calls of prepare, load, inspect and append
  Sessions,      \* live Session objects of this identity
  Kinds,         \* the calls made
  None,
  MaxEmits,      \* bound: events a session appends after it was published
  MaxFaults      \* bound: failed backend operations, appends by another process,
                 \* evictions in favour of other identities, and cancelled calls

ASSUME NoneAssumption == None \notin Callers \cup Sessions
ASSUME WritersAssumption == Sessions \cap {"base", "closer", "api", "other"} = {}
ASSUME ApartAssumption == Callers \cap Sessions = {}
ASSUME KindsAssumption == Kinds \subseteq {"prepare", "load", "inspect", "append"}

VARIABLES
  store,        \* the stored log
  torn,         \* with an unreadable tail behind it
  registered,   \* the Session in ctx.sessions, or None
  events,       \* the log of each Session object
  init,         \* its live state: "unused", "pending", "ok", "failed", "gone"
  saved,        \* its events that the write-behind no longer holds
  writing,      \* its events up to which a batch is in flight, or 0
  retiring,     \* retireCore: "no", "flush", "release", "done", "failed"
  retirement,   \* the Session in retirements, or None
  state,        \* states: whether tracked, cursor, materialized, owner
  entry,        \* preparations: its phase and source, "none" when absent
  chain,        \* the queued storage operations
  running,      \* the head of the chain awaits the backend
  call,         \* the calls
  external,     \* another process has appended to the log
  faults,
  intruded      \* history: something wrote to a log it had no claim on

vars == <<store, torn, registered, events, init, saved, writing, retiring, retirement,
          state, entry, chain, running, call, external, faults, intruded>>

\* Groups of variables that steps leave alone together.
disk     == <<store, torn>>
live     == <<registered, events, init, saved, writing, retiring, retirement>>
history  == <<external, faults, intruded>>

-----------------------------------------------------------------------------
Event(by, open) == [by |-> by, open |-> open]

Base == <<Event("base", FALSE), Event("base", TRUE)>>

Cold(log, isTorn) == [log |-> log, torn |-> isTorn]

\* interruptedTurnClosers(): one closer balances a log whose turn is open.
Closers(log) == IF log # <<>> /\ Last(log).open THEN <<Event("closer", FALSE)>> ELSE <<>>

Untracked == [tracked |-> FALSE, cursor |-> 0, materialized |-> FALSE, owner |-> None]

Tracked(cursor, materialized, owner) ==
  [tracked |-> TRUE, cursor |-> cursor, materialized |-> materialized, owner |-> owner]

NoSource == Cold(<<>>, FALSE)
NoEntry  == [phase |-> "none", source |-> NoSource]

Idle == [at |-> "idle", kind |-> "none", mine |-> FALSE, source |-> NoSource,
         session |-> None, upTo |-> 0, grown |-> 0]
Over == [Idle EXCEPT !.at = "over"]

\* An operation of the chain, for the callers or the session in "for".
Op(kind, for, n, current) == [kind |-> kind, for |-> for, n |-> n, current |-> current]

InitialLogs == {<<>>} \cup {SubSeq(Base, 1, n) : n \in 1..2}

\* The coordinator starts cold, or (a hot reload) beside a live Session whose
\* events reach at least as far as the stored log: installWritePath() queues its
\* initialization before anything else.
Init ==
  /\ store \in InitialLogs
  /\ torn \in IF store = <<>> THEN {FALSE} ELSE BOOLEAN
  /\ registered \in Sessions \cup {None}
  /\ events = [s \in Sessions |-> IF s = registered THEN Base ELSE <<>>]
  /\ init = [s \in Sessions |-> IF s = registered THEN "pending" ELSE "unused"]
  /\ saved = [s \in Sessions |-> Len(events[s])]
  /\ writing = [s \in Sessions |-> 0]
  /\ retiring = [s \in Sessions |-> "no"]
  /\ retirement = None
  /\ state = Untracked
  /\ entry = NoEntry
  /\ chain = IF registered = None THEN <<>>
             ELSE <<Op("init", {registered}, Len(events[registered]), FALSE)>>
  /\ running = FALSE
  /\ call = [c \in Callers |-> Idle]
  /\ external = FALSE
  /\ faults = 0
  /\ intruded = FALSE

-----------------------------------------------------------------------------
(***************************************************************************)
(* The preparation entry. Its callers hold it by reference: "mine" says    *)
(* that the entry a call joined is still the one in the map.               *)
(***************************************************************************)
Wake(c) == IF c.at = "blocked" THEN [c EXCEPT !.at = "loaded"] ELSE c

\* remove(): calls that joined the entry no longer find it, and the ones that
\* wait for its reservation look again.
Orphan(calls) == [c \in Callers |-> [Wake(calls[c]) EXCEPT !.mine = FALSE]]

RemoveEntry(calls) == entry' = NoEntry /\ call' = Orphan(calls)

\* remove() by call c of the entry it joined: another entry is left alone.
Drop(c, calls) == IF call[c].mine THEN RemoveEntry(calls)
                  ELSE call' = calls /\ UNCHANGED entry

MakeReady(source, calls) ==
  /\ entry' = [phase |-> "ready", source |-> source]
  /\ call' = [c \in Callers |-> Wake(calls[c])]

\* invalidate() after an append: also a read of the entry still queued loses it.
Invalidate(calls) ==
  /\ RemoveEntry(calls)
  /\ chain' = [i \in 1..(Len(chain) - 1) |-> [chain[i + 1] EXCEPT !.current = FALSE]]

With(c, next) == [call EXCEPT ![c] = next]
Retry(c) == With(c, [Idle EXCEPT !.at = "begin", !.kind = call[c].kind])
Exit(c)  == With(c, Over)

Queue(op)  == chain' = Append(chain, op)

\* Faulty: the next operation counts as begun.
DequeueRunning == chain' = Tail(chain) /\ UNCHANGED running

Dequeue    == chain' = Tail(chain) /\ running' = FALSE
Runs(kind) == chain # <<>> /\ Head(chain).kind = kind
Caller     == CHOOSE c \in Head(chain).for : TRUE
Subject    == CHOOSE s \in Head(chain).for : TRUE

\* A fault within its bound.
Fault == faults < MaxFaults /\ faults' = faults + 1

Writable == entry.phase \notin {"committing", "reserved"}

-----------------------------------------------------------------------------
(***************************************************************************)
(* prepare(), load() and inspect() up to the shared read.                  *)
(***************************************************************************)
Reading(kind) == [Idle EXCEPT !.at = "loading", !.kind = kind, !.mine = TRUE]

\* The shared read has answered; inspect() keeps the source it was given.
Loaded(kind, source) ==
  [Idle EXCEPT !.at = "loaded", !.kind = kind, !.mine = TRUE,
               !.source = IF kind = "inspect" THEN source ELSE NoSource]

\* After retirement: a live Session is answered from memory, or its flush is
\* awaited, or it refuses prepare(); otherwise the call joins the entry's read.
Join(c, kind) ==
  IF registered # None
  THEN /\ call' = IF kind = "load"
                  THEN With(c, [Idle EXCEPT !.at = "flush", !.kind = kind,
                                            !.session = registered,
                                            !.upTo = Len(events[registered])])
                  ELSE Exit(c)
       /\ UNCHANGED <<entry, chain>>
  ELSE CASE entry.phase = "none" ->
              /\ entry' = [phase |-> "loading", source |-> NoSource]
              /\ Queue(Op("load", {c}, 0, TRUE))
              /\ call' = With(c, Reading(kind))
         [] entry.phase = "loading" ->
              /\ chain' = [i \in 1..Len(chain) |->
                             IF chain[i].kind = "load" /\ chain[i].current
                             THEN [chain[i] EXCEPT !.for = @ \cup {c}] ELSE chain[i]]
              /\ call' = With(c, Reading(kind))
              /\ UNCHANGED entry
         [] OTHER ->
              /\ call' = With(c, Loaded(kind, entry.source))
              /\ UNCHANGED <<entry, chain>>

\* waitForRetirement() of the retirement found in the map.
Enter(c, kind) ==
  /\ IF retirement # None
     THEN /\ call' = With(c, [Idle EXCEPT !.at = "retirement", !.kind = kind,
                                          !.session = retirement])
          /\ UNCHANGED <<entry, chain>>
     ELSE Join(c, kind)
  /\ UNCHANGED <<disk, live, state, running, history>>

Call(c) == call[c].at = "idle" /\ \E kind \in Kinds \ {"append"} : Enter(c, kind)

\* Another turn of the loop of a call.
Again(c) == call[c].at = "begin" /\ Enter(c, call[c].kind)

RetirementSettled(c) ==
  /\ call[c].at = "retirement"
  /\ \/ retiring[call[c].session] = "done" /\ Join(c, call[c].kind)
     \/ retiring[call[c].session] = "failed" /\ call' = Exit(c) /\ UNCHANGED <<entry, chain>>
  /\ UNCHANGED <<disk, live, state, running, history>>

\* reserve() after the read: retry when the entry is gone, wait while another
\* call has it, or take it and queue the commit. inspect() queues its check.
ReadDone(c) ==
  /\ call[c].at = "loaded"
  /\ IF call[c].kind = "inspect"
     THEN IF registered # None
          THEN call' = Exit(c) /\ UNCHANGED <<entry, chain>>
          ELSE /\ Queue(Op("check", {c}, 0, FALSE))
               /\ call' = With(c, [call[c] EXCEPT !.at = "check"])
               /\ UNCHANGED entry
     ELSE CASE ~ call[c].mine -> call' = Retry(c) /\ UNCHANGED <<entry, chain>>
            [] call[c].mine /\ entry.phase = "ready" ->
                 /\ entry' = [entry EXCEPT !.phase = "committing"]
                 /\ Queue(Op("commit", {c}, 0, FALSE))
                 /\ call' = With(c, [call[c] EXCEPT !.at = "commit"])
            [] call[c].mine /\ entry.phase # "ready" ->
                 /\ call' = With(c, [call[c] EXCEPT !.at = "blocked"])
                 /\ UNCHANGED <<entry, chain>>
  /\ UNCHANGED <<disk, live, state, running, history>>

FlushReturns(c) ==
  /\ call[c].at = "flush"
  /\ LET s == call[c].session IN 
       init[s] = "failed" \/ (init[s] # "pending" /\ saved[s] >= call[c].upTo)
  /\ call' = Exit(c)
  /\ UNCHANGED <<disk, live, state, entry, chain, running, history>>

-----------------------------------------------------------------------------
(***************************************************************************)
(* Storage operations, at the head of the chain.                           *)
(***************************************************************************)
\* prepareCore(): read and validate. An absent log, or one whose Session is
\* live by now, is refused.
Readable == store # <<>> /\ registered = None

LoadRuns ==
  /\ Runs("load")
  /\ LET op == Head(chain)
         read == Cold(store, torn)
         told(calls) == [c \in Callers |->
                           IF c \notin op.for THEN calls[c]
                           ELSE IF Readable
                           THEN [Loaded(calls[c].kind, read) EXCEPT !.mine = calls[c].mine]
                           ELSE Over]
     IN CASE op.current /\ Readable   -> MakeReady(read, told(call))
          [] op.current /\ ~ Readable -> RemoveEntry(told(call))
          [] ~ op.current             -> call' = told(call) /\ UNCHANGED entry
  /\ Dequeue
  /\ UNCHANGED <<disk, live, state, history>>

\* The state commitPrepared() leaves when the source is current and balanced.
ColdState == Tracked(Len(store), TRUE, None)

\* What reserve() and its caller do with a committed source: a cancelled call
\* returns it, load() takes the view and drops the entry, prepare() holds it.
Reserved(c) ==
  \/ /\ call[c].kind = "load"
     /\ RemoveEntry(Exit(c))
     /\ UNCHANGED faults
  \/ /\ call[c].kind = "prepare"
     /\ entry' = [entry EXCEPT !.phase = "reserved"]
     /\ call' = With(c, [call[c] EXCEPT !.at = "held", !.source = entry.source])
     /\ UNCHANGED faults
  \/ /\ call[c].kind = "prepare"
     /\ MakeReady(entry.source, Exit(c))
     /\ Fault

\* Faulty: the revision is not read again before the commit.
CommitRunsStale ==
  /\ Runs("commit") /\ ~ running
  /\ LET c == Caller
         current == call[c].mine
         balanced == ~ entry.source.torn /\ Closers(entry.source.log) = <<>>
     IN CASE state.owner # None \/ ~ current ->
               /\ Drop(c, IF state.owner # None THEN Exit(c) ELSE Retry(c))
               /\ Dequeue
               /\ UNCHANGED <<state, faults>>
          [] state.owner = None /\ current /\ ~ balanced ->
               running' = TRUE /\ UNCHANGED <<call, entry, chain, state, faults>>
          [] state.owner = None /\ current /\ balanced ->
               state' = ColdState /\ Reserved(c) /\ Dequeue
  /\ UNCHANGED <<disk, live, external, intruded>>

\* Faulty: a live owner does not refuse the commit.
CommitRunsOwned ==
  /\ Runs("commit") /\ ~ running
  /\ LET c == Caller
         current == call[c].mine /\ entry.source = Cold(store, torn)
         balanced == ~ entry.source.torn /\ Closers(entry.source.log) = <<>>
     IN CASE ~ current ->
               /\ Drop(c, Retry(c))
               /\ Dequeue
               /\ UNCHANGED <<state, faults>>
          [] current /\ ~ balanced ->
               running' = TRUE /\ UNCHANGED <<call, entry, chain, state, faults>>
          [] current /\ balanced ->
               state' = ColdState /\ Reserved(c) /\ Dequeue
  /\ UNCHANGED <<disk, live, external, intruded>>

\* commitPrepared() up to its repair: refused under a live owner, given up when
\* the log is no longer the one that was read.
CommitRuns ==
  /\ Runs("commit") /\ ~ running
  /\ LET c == Caller
         current == call[c].mine /\ entry.source = Cold(store, torn)
         balanced == ~ entry.source.torn /\ Closers(entry.source.log) = <<>>
     IN CASE state.owner # None \/ ~ current ->
               /\ Drop(c, IF state.owner # None THEN Exit(c) ELSE Retry(c))
               /\ Dequeue
               /\ UNCHANGED <<state, faults>>
          [] state.owner = None /\ current /\ ~ balanced ->
               running' = TRUE /\ UNCHANGED <<call, entry, chain, state, faults>>
          [] state.owner = None /\ current /\ balanced ->
               state' = ColdState /\ Reserved(c) /\ Dequeue
  /\ UNCHANGED <<disk, live, external, intruded>>

\* backend.commitRepair(): truncate, then append the closer; it may fail before,
\* between or after none of it. The repaired log is read again.
RepairSettles ==
  /\ Runs("commit") /\ running
  /\ \/ /\ store' = store \o Closers(entry.source.log)
        /\ torn' = FALSE
        /\ RemoveEntry(Retry(Caller))
        /\ UNCHANGED faults
     \/ /\ torn' \in {torn, FALSE}
        /\ RemoveEntry(Exit(Caller))
        /\ Fault
        /\ UNCHANGED store
  /\ Dequeue
  /\ UNCHANGED <<live, state, external, intruded>>

\* Faulty: a stale source stays cached.
CheckRunsKeeps ==
  /\ Runs("check")
  /\ LET c == Caller IN
       IF call[c].source = Cold(store, torn) \/ registered # None
          \/ (call[c].mine /\ ~ Writable)
       THEN call' = Exit(c) /\ UNCHANGED entry
       ELSE call' = Retry(c) /\ UNCHANGED entry
  /\ Dequeue
  /\ UNCHANGED <<disk, live, state, history>>

\* isPreparedSourceCurrent() for inspect(): a current source is returned, and so
\* is a stale one that another call has reserved; any other is dropped and read
\* again.
CheckRuns ==
  /\ Runs("check")
  /\ LET c == Caller IN
       IF call[c].source = Cold(store, torn) \/ registered # None
          \/ (call[c].mine /\ ~ Writable)
       THEN call' = Exit(c) /\ UNCHANGED entry
       ELSE Drop(c, Retry(c))
  /\ Dequeue
  /\ UNCHANGED <<disk, live, state, history>>

-----------------------------------------------------------------------------
(***************************************************************************)
(* The holder of a preparation.                                            *)
(***************************************************************************)
\* Setup appends to the unpublished Session.
Extend(c) ==
  /\ call[c].at = "held" /\ call[c].grown < MaxEmits
  /\ call' = With(c, [call[c] EXCEPT !.grown = @ + 1])
  /\ UNCHANGED <<disk, live, state, entry, chain, running, history>>

\* Disposal of the SessionPreparation without publication.
Release(c) ==
  /\ call[c].at = "held"
  /\ IF call[c].mine /\ state.owner = None /\ call[c].grown = 0
     THEN MakeReady(entry.source, Exit(c))
     ELSE Drop(c, Exit(c))
  /\ UNCHANGED <<disk, live, state, chain, running, history>>

\* A Session enters ctx.sessions with "log"; the events it was given count as
\* saved by the operation that initializes it.
Register(s, log) ==
  /\ registered = None /\ init[s] = "unused"
  /\ registered' = s
  /\ events' = [events EXCEPT ![s] = log]
  /\ saved' = [saved EXCEPT ![s] = Len(log)]
  /\ init' = [init EXCEPT ![s] = "pending"]
  /\ UNCHANGED <<writing, retiring, retirement>>

\* initFor() of the held Session: attachPrepared() consumes the reservation, the
\* Session owns the cursor, and what it holds beyond it (its own marker at least)
\* is appended; without its reservation it is a Session like any other.
Publish(c, s) ==
  /\ call[c].at = "held"
  /\ LET log == call[c].source.log \o [i \in 1..call[c].grown + 1 |-> Event(s, FALSE)] IN
       /\ Register(s, log)
       /\ IF call[c].mine
          THEN /\ Queue(Op("suffix", {s}, state.cursor, FALSE))
               /\ state' = [state EXCEPT !.owner = s]
               /\ RemoveEntry(Exit(c))
          ELSE /\ entry.phase = "none"
               /\ Queue(Op("init", {s}, Len(log), FALSE))
               /\ call' = Exit(c)
               /\ UNCHANGED <<state, entry>>
  /\ UNCHANGED <<disk, running, history>>

-----------------------------------------------------------------------------
(***************************************************************************)
(* Live sessions.                                                          *)
(***************************************************************************)
\* initFor() of a Session created here, empty or from a seed that was read
\* earlier; with a preparation in the map it is refused.
Create(s) ==
  /\ entry.phase = "none"
  /\ \E seed \in {<<>>, store} :
       LET log == IF seed = <<>> THEN <<>> ELSE Append(seed, Event(s, FALSE)) IN
         /\ Register(s, log)
         /\ Queue(Op("init", {s}, Len(log), FALSE))
  /\ UNCHANGED <<disk, state, entry, running, call, history>>

HasWork(s) == init[s] \in {"pending", "ok", "failed"} /\ (saved[s] < Len(events[s]))

\* appendCore() of one batch at the head of the chain: the backend appends it
\* and the cursor moves to "cursor", or nothing happens.
Stored(batch, cursor, owner) ==
  /\ store' = store \o batch
  /\ state' = Tracked(cursor, TRUE, owner)
  /\ Invalidate(call)
  /\ running' = FALSE
  /\ UNCHANGED faults

Bound(found) ==
  /\ state' = found
  /\ UNCHANGED <<store, entry, call>>
  /\ Dequeue

Prefix(s, n) == SubSeq(events[s], 1, n)

\* Faulty: the seed is not compared with the stored log.
ClaimUnchecked(s, n) ==
  LET covers(m) == TRUE
      abandoned == state.owner # None /\ ~ state.materialized /\ ~ HasWork(state.owner)
      before == IF abandoned THEN Untracked ELSE state
  IN CASE before.tracked /\ before.owner = None ->
            [ok |-> covers(before.cursor), repair |-> FALSE, before |-> before,
             state |-> [before EXCEPT !.owner = s]]
       [] before.owner # None ->
            [ok |-> FALSE, repair |-> FALSE, before |-> before, state |-> before]
       [] ~ before.tracked /\ store # <<>> ->
            [ok |-> covers(Len(store)), repair |-> torn, before |-> before,
             state |-> Tracked(Len(store), TRUE, s)]
       [] ~ before.tracked /\ store = <<>> ->
            [ok |-> entry.phase = "none", repair |-> FALSE, before |-> before,
             state |-> Tracked(0, FALSE, s)]

\* What onCreated() finds for Session s with its seed of n events: the state it
\* would bind, and whether it may.
Claim(s, n) ==
  LET covers(m) == IsPrefix(SubSeq(store, 1, m), Prefix(s, n))
      abandoned == state.owner # None /\ ~ state.materialized /\ ~ HasWork(state.owner)
      before == IF abandoned THEN Untracked ELSE state
  IN CASE before.tracked /\ before.owner = None ->
            [ok |-> covers(before.cursor), repair |-> FALSE, before |-> before,
             state |-> [before EXCEPT !.owner = s]]
       [] before.owner # None ->
            [ok |-> FALSE, repair |-> FALSE, before |-> before, state |-> before]
       [] ~ before.tracked /\ store # <<>> ->
            [ok |-> covers(Len(store)), repair |-> torn, before |-> before,
             state |-> Tracked(Len(store), TRUE, s)]
       [] ~ before.tracked /\ store = <<>> ->
            [ok |-> entry.phase = "none", repair |-> FALSE, before |-> before,
             state |-> Tracked(0, FALSE, s)]

InitDone(s, result) == init' = [init EXCEPT ![s] = result]

\* onCreated(): claim an ownerless state or a stored log whose prefix the seed
\* repeats (its torn tail is truncated, its turn left open), or start a log;
\* then append the rest of the seed.
InitRuns ==
  /\ Runs("init")
  /\ LET s == Subject
         n == Head(chain).n
         claim == Claim(s, n)
         suffix == SubSeq(events[s], claim.state.cursor + 1, n)
         truncated == torn /\ ~ claim.repair
     IN /\ \/ /\ ~ claim.ok
              /\ InitDone(s, "failed")
              /\ Bound(claim.before)
              /\ UNCHANGED <<torn, faults>>
           \/ /\ claim.ok /\ claim.repair
              /\ InitDone(s, "failed")
              /\ Bound(claim.before)
              /\ Fault
              /\ UNCHANGED torn
           \/ /\ claim.ok /\ suffix # <<>>
              /\ InitDone(s, "failed")
              /\ Bound(claim.state)
              /\ Fault
              /\ torn' = truncated
           \/ /\ claim.ok
              /\ InitDone(s, "ok")
              /\ torn' = truncated
              /\ IF suffix = <<>> THEN Bound(claim.state) /\ UNCHANGED faults
                 ELSE Stored(suffix, n, s)
        \* Another process moved the log past an ownerless cursor.
        /\ intruded' = (intruded \/ (external /\ claim.state.cursor # Len(store)))
  /\ UNCHANGED <<registered, events, saved, writing, retiring, retirement, external>>

\* The append of attachPrepared(), which must continue the log.
SuffixRuns ==
  /\ Runs("suffix")
  /\ LET s == Subject
         continues == Head(chain).n = state.cursor
     IN \/ /\ continues
           /\ InitDone(s, "ok")
           /\ Stored(SubSeq(events[s], state.cursor + 1, saved[s]), saved[s], s)
        \/ /\ InitDone(s, "failed")
           /\ Bound(state)
           /\ IF continues THEN Fault ELSE UNCHANGED faults
  /\ UNCHANGED <<torn, registered, events, saved, writing, retiring, retirement, external,
                 intruded>>

Emit(s) ==
  /\ registered = s
  /\ Cardinality({i \in DOMAIN events[s] : events[s][i] = Event(s, TRUE)}) < MaxEmits
  /\ events' = [events EXCEPT ![s] = Append(@, Event(s, TRUE))]
  /\ UNCHANGED <<disk, registered, init, saved, writing, retiring, retirement, state, entry,
                 chain, running, call, history>>

\* The write-behind starts a batch: its deadline, or a flush.
StartWrite(s) ==
  /\ init[s] = "ok" /\ writing[s] = 0 /\ saved[s] < Len(events[s])
  /\ retiring[s] \in {"no", "flush"}
  /\ writing' = [writing EXCEPT ![s] = Len(events[s])]
  /\ Queue(Op("write", {s}, Len(events[s]), FALSE))
  /\ UNCHANGED <<disk, registered, events, init, saved, retiring, retirement, state, entry,
                 running, call, history>>

\* A failed retirement leaves the map, and the owner and its events in place.
RetirementFails(s) ==
  /\ retiring' = [retiring EXCEPT ![s] = "failed"]
  /\ retirement' = IF retirement = s THEN None ELSE retirement

\* appendLiveBatch(): what the cursor has not passed. A failure keeps the events
\* and, in a retirement, ends it.
WriteRuns ==
  /\ Runs("write")
  /\ LET s == Subject
         n == Head(chain).n
         fresh == SubSeq(events[s], state.cursor + 1, n)
     IN /\ writing' = [writing EXCEPT ![s] = 0]
        /\ \/ /\ fresh # <<>> => Writable
              /\ saved' = [saved EXCEPT ![s] = n]
              /\ IF fresh = <<>> THEN Bound(state) /\ UNCHANGED faults
                 ELSE Stored(fresh, n, state.owner)
              /\ UNCHANGED <<retiring, retirement>>
           \/ /\ fresh # <<>>
              /\ IF Writable THEN Fault ELSE UNCHANGED faults
              /\ IF retiring[s] = "flush" THEN RetirementFails(s)
                 ELSE UNCHANGED <<retiring, retirement>>
              /\ call' = [c \in Callers |-> IF call[c].at = "flush" /\ call[c].session = s
                                            THEN Over ELSE call[c]]
              /\ UNCHANGED <<saved, store, entry, state>>
              /\ Dequeue
  /\ UNCHANGED <<torn, registered, events, init, external, intruded>>

\* session/disposed: retire() enters the map and flushes.
Dispose(s) ==
  /\ registered = s
  /\ registered' = None
  /\ retiring' = [retiring EXCEPT ![s] = "flush"]
  /\ retirement' = s
  /\ UNCHANGED <<disk, events, init, saved, writing, state, entry, chain, running, call, history>>

\* Faulty: retirement goes on while its last batch is unsaved.
RetireFlushedEarly(s) ==
  /\ retiring[s] = "flush"
  /\ \/ /\ init[s] = "ok" /\ writing[s] = 0
        /\ retiring' = [retiring EXCEPT ![s] = "release"]
        /\ Queue(Op("release", {s}, 0, FALSE))
        /\ UNCHANGED retirement
     \/ /\ init[s] = "failed"
        /\ RetirementFails(s)
        /\ UNCHANGED chain
  /\ UNCHANGED <<disk, registered, events, init, saved, writing, state, entry, running, call, history>>

\* retireCore() resumes from its flush.
RetireFlushed(s) ==
  /\ retiring[s] = "flush"
  /\ \/ /\ init[s] = "ok" /\ writing[s] = 0 /\ saved[s] = Len(events[s])
        /\ retiring' = [retiring EXCEPT ![s] = "release"]
        /\ Queue(Op("release", {s}, 0, FALSE))
        /\ UNCHANGED retirement
     \/ /\ init[s] = "failed"
        /\ RetirementFails(s)
        /\ UNCHANGED chain
  /\ UNCHANGED <<disk, registered, events, init, saved, writing, state, entry, running, call, history>>

ReleaseRuns ==
  /\ Runs("release")
  /\ LET s == Subject IN
       /\ InitDone(s, "gone")
       /\ state' = IF state.owner = s THEN Untracked ELSE state
       /\ retiring' = [retiring EXCEPT ![s] = "done"]
       /\ retirement' = IF retirement = s THEN None ELSE retirement
  /\ Dequeue
  /\ UNCHANGED <<disk, registered, events, saved, writing, entry, call, history>>

-----------------------------------------------------------------------------
(***************************************************************************)
(* The public append, other processes, eviction and cancellation.          *)
(***************************************************************************)
\* Somebody has a claim on the log that an append from elsewhere ignores.
Claimed == \/ registered # None \/ state.owner # None \/ entry.phase = "reserved"
           \/ \E s \in Sessions : init[s] = "pending"

AppendCalled(c) ==
  /\ call[c].at = "idle" /\ "append" \in Kinds
  /\ call' = With(c, [Idle EXCEPT !.at = "append", !.kind = "append"])
  /\ Queue(Op("append", {c}, Len(store), FALSE))
  /\ UNCHANGED <<disk, live, state, entry, running, history>>

\* appendCore() up to its write: refused while a preparation is reserved; an
\* untracked log is adopted from a ready source or read, and repaired; the batch
\* must continue the log.
AppendStarts ==
  /\ Runs("append") /\ ~ running
  /\ LET c == Caller
         adopts == Writable /\ ~ state.tracked
         taken == adopts /\ entry.phase = "ready"
         exists == Readable \/ (taken /\ entry.source = Cold(store, torn))
         found == IF adopts THEN Tracked(Len(store \o Closers(store)), TRUE, None) ELSE state
     IN /\ \/ /\ adopts /\ exists
              /\ store' = store \o Closers(store)
              /\ torn' = FALSE
              /\ state' = found
              /\ UNCHANGED faults
           \/ /\ adopts /\ exists /\ (torn \/ Closers(store) # <<>>)
              /\ torn' \in {torn, FALSE}
              /\ Fault
              /\ UNCHANGED <<store, state>>
           \/ /\ ~ (adopts /\ exists)
              /\ UNCHANGED <<disk, state, faults>>
        /\ LET goes == Writable /\ state'.tracked /\ Head(chain).n = state'.cursor
               calls == IF goes THEN call ELSE Exit(c)
           IN /\ IF taken THEN RemoveEntry(calls) ELSE call' = calls /\ UNCHANGED entry
              /\ IF goes THEN running' = TRUE /\ UNCHANGED chain ELSE Dequeue
        /\ intruded' = (intruded \/ (store' # store /\ Claimed))
  /\ UNCHANGED <<live, external>>

AppendSettles ==
  /\ Runs("append") /\ running
  /\ \/ /\ store' = Append(store, Event("api", FALSE))
        /\ state' = Tracked(state.cursor + 1, TRUE, state.owner)
        /\ intruded' = (intruded \/ Claimed)
        /\ Invalidate(Exit(Caller))
        /\ running' = FALSE
        /\ UNCHANGED faults
     \/ /\ call' = Exit(Caller)
        /\ UNCHANGED <<store, state, entry, intruded>>
        /\ Dequeue
        /\ Fault
  /\ UNCHANGED <<torn, live, external>>

\* Another process appends to the stored log.
External ==
  /\ store # <<>> /\ ~ torn
  /\ Fault
  /\ external' = TRUE
  /\ store' = Append(store, Event("other", FALSE))
  /\ intruded' = (intruded \/ Claimed \/ running)
  /\ UNCHANGED <<torn, live, state, entry, chain, running, call>>

\* The LRU drops a ready source in favour of other identities.
Evict ==
  /\ entry.phase = "ready"
  /\ Fault
  /\ RemoveEntry(call)
  /\ UNCHANGED <<disk, live, state, chain, running, external, intruded>>

\* An AbortSignal of prepare() or inspect(): the call leaves what it waits for,
\* an operation of its own that has not started never runs, and an entry it was
\* about to commit is dropped.
Abort(c) ==
  /\ call[c].kind \in {"prepare", "inspect"}
  /\ Fault
  /\ \/ /\ call[c].at \in {"begin", "retirement", "blocked"}
        /\ call' = Exit(c)
        /\ UNCHANGED <<entry, chain>>
     \/ /\ call[c].at = "loading"
        /\ call' = Exit(c)
        /\ chain' = [i \in DOMAIN chain |-> [chain[i] EXCEPT !.for = @ \ {c}]]
        /\ UNCHANGED entry
     \/ /\ call[c].at \in {"commit", "check"}
        /\ ~ (running /\ Head(chain).for = {c})
        /\ IF call[c].at = "commit" THEN Drop(c, Exit(c))
           ELSE call' = Exit(c) /\ UNCHANGED entry
        /\ \E i \in DOMAIN chain :
             /\ chain[i].kind \in {"commit", "check"} /\ chain[i].for = {c}
             /\ chain' = RemoveAt(chain, i)
  /\ UNCHANGED <<disk, live, state, running, external, intruded>>

-----------------------------------------------------------------------------
Operation == \/ LoadRuns \/ CommitRuns \/ RepairSettles \/ CheckRuns \/ InitRuns
             \/ SuffixRuns \/ WriteRuns \/ ReleaseRuns \/ AppendStarts \/ AppendSettles

Continue(c) == Again(c) \/ RetirementSettled(c) \/ ReadDone(c) \/ FlushReturns(c)

Settle(c) == Release(c) \/ \E s \in Sessions : Publish(c, s)

Session(s) == StartWrite(s) \/ RetireFlushed(s)

Finished == /\ \A c \in Callers : call[c].at \in {"idle", "over"}
            /\ chain = <<>>
            /\ UNCHANGED vars

Next ==
  \/ Operation
  \/ \E c \in Callers : \/ Call(c) \/ AppendCalled(c) \/ Continue(c) \/ Extend(c)
                        \/ Settle(c) \/ Abort(c)
  \/ \E s \in Sessions : Create(s) \/ Emit(s) \/ Session(s) \/ Dispose(s)
  \/ External
  \/ Evict
  \/ Finished

\* Promise reactions run and the backend answers; who holds a preparation
\* publishes or releases it; the write-behind's deadline or a flush starts a write.
Fairness ==
  /\ WF_vars(Operation)
  /\ \A c \in Callers : WF_vars(Continue(c)) /\ WF_vars(Settle(c))
  /\ \A s \in Sessions : WF_vars(Session(s))

Spec == Init /\ [][Next]_vars
FairSpec == Spec /\ Fairness

-----------------------------------------------------------------------------
\* Every variable has its type, and only a queued operation awaits the backend.
TypeOK ==
  /\ store \in Seq([by : Sessions \cup {"base", "closer", "api", "other"}, open : BOOLEAN])
  /\ torn \in BOOLEAN
  /\ registered \in Sessions \cup {None}
  /\ init \in [Sessions -> {"unused", "pending", "ok", "failed", "gone"}]
  /\ \A s \in Sessions : saved[s] \in 0..Len(events[s]) /\ writing[s] \in 0..Len(events[s])
  /\ retiring \in [Sessions -> {"no", "flush", "release", "done", "failed"}]
  /\ retirement \in Sessions \cup {None}
  /\ state.owner \in Sessions \cup {None}
  /\ state.owner # None => state.tracked
  /\ entry.phase \in {"none", "loading", "ready", "committing", "reserved"}
  /\ running => chain # <<>>

\* While a live Session owns the cursor, the cursor is the length of the log and
\* the log is a prefix of that Session's own events: no claim, adoption or batch
\* mixes two histories. (Another writer may have moved the log: "intruded".)
OwnerCoversStore ==
  state.owner # None /\ ~ intruded =>
    /\ state.cursor = Len(store)
    /\ IsPrefix(store, events[state.owner])

\* A reserved preparation has exactly one holder; until it settles no Session of
\* the identity goes live or owns the log, and the log stays the one that was
\* prepared, however many reads, checks, appends and evictions ran meanwhile.
ReservationHolds ==
  entry.phase = "reserved" =>
    /\ Cardinality({c \in Callers : call[c].at = "held" /\ call[c].mine}) = 1
    /\ registered = None /\ state.owner = None
    /\ \A c \in Callers : call[c].at = "held" /\ ~ intruded =>
         call[c].source = Cold(store, torn) /\ state.cursor = Len(store)

Closings == Cardinality({i \in DOMAIN store : store[i].by = "closer"})

\* A closer is appended only to an open turn, with no Session live, and never
\* while events of the identity wait in a write-behind (a failed retirement keeps
\* them): recovery does not end a turn whose own ending is still to be written.
RepairIsCold ==
  [][Closings' > Closings /\ ~ intruded' =>
       /\ Last(store).open
       /\ registered = None
       /\ \A s \in Sessions : init[s] # "failed" => saved[s] = Len(events[s])]_vars

\* A Session whose retirement is over left its whole history in storage, and what
\* follows it there was appended behind it.
RetiredDurable ==
  \A s \in Sessions : retiring[s] = "done" /\ ~ intruded => IsPrefix(events[s], store)

\* Every call returns, whatever is reserved, published, evicted or repaired in
\* the meantime.
CallsReturn ==
  \A c \in Callers : call[c].at # "idle" ~> call[c].at = "over"

=============================================================================
