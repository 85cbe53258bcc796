--------------------------- MODULE AgentLifecycle ---------------------------
(***************************************************************************)
(* Who starts and who ends an agent: the factory of core/agent-loop        *)
(* (src/index.ts) with the two registries it publishes to and the plugin   *)
(* fibers that own what it makes.                                          *)
(*                                                                         *)
(* A start makes a private session and agent, awaits setup, enters both    *)
(* registries and hands out a handle; a resumed one first awaits the       *)
(* persistence backend, and a configured one first waits until nobody      *)
(* occupies its identity and falls back to a fresh agent when nothing is   *)
(* stored.  An agent may be ended by its handle, by the unload of the      *)
(* fiber it was started from (a plugin, the factory, or the scope of       *)
(* another agent), and by the unload of its factory.  All three run one    *)
(* memoized disposal: stop the machine, unwind the agent's scope, leave    *)
(* the registries.                                                         *)
(*                                                                         *)
(* The unload of a fiber runs the disposers of its effects side by side    *)
(* and waits for those that return a promise (vendor/cordis).  Code        *)
(* between two awaits is one action.  Whether the store holds a session is *)
(* not tracked: a load resolves or fails, a listing finds it or not.       *)
(***************************************************************************)
EXTENDS FiniteSets

CONSTANTS
  Starts,      \* calls of createAgent, resume, and configured starts
  Configured,  \* the starts made by the configuration of their factory
  Resuming,    \* the calls of resume(); those of createAgent() are the rest
  Plugins,     \* plugin fibers that start agents
  Loops,       \* fibers of AgentLoop: two during an overlapping reload
  IdOf,        \* the identity a start is for
  LoopOf,      \* the factory that serves it
  OwnerOf,     \* the fiber it is called from
  None

Ids    == {IdOf[s] : s \in Starts}
Fibers == Plugins \cup Loops \cup Starts   \* a start names its agent's scope

ASSUME StartsAssumption ==
  /\ Configured \subseteq Starts
  /\ Resuming \subseteq Starts \ Configured
  /\ LoopOf \in [Starts -> Loops]
  /\ OwnerOf \in [Starts -> Fibers]
  /\ \A c \in Configured : OwnerOf[c] = LoopOf[c]
  /\ Loops \cap Starts = {} /\ Plugins \cap Starts = {}
  /\ None \notin Starts

VARIABLES
  fiber,     \* state of each fiber
  closed,    \* factories whose FactoryOwnership.dispose() has run
  pc,        \* where the start is
  follow,    \* its effect on the owner: of the load, or of the agent's life
  aborted,   \* the signal that fuses caller, owner and factory
  load,      \* its persistence.prepare() and the preparation it acquired
  stage,     \* its memoized disposal
  byOwner,   \* the disposal was started by the owner's unload, which awaits it
  sessions,  \* the session registry: who occupies an identity
  agents     \* the agent registry

starting == <<pc, load>>
ending   == <<aborted, follow, stage, byOwner>>
registry == <<sessions, agents>>
vars     == <<fiber, closed, starting, ending, registry>>

Init ==
  /\ fiber = [f \in Fibers |-> IF f \in Plugins THEN "active" ELSE "absent"]
  /\ closed = {}
  /\ pc = [s \in Starts |-> "new"]
  /\ follow = [s \in Starts |-> "none"]
  /\ aborted = [s \in Starts |-> FALSE]
  /\ load = [s \in Starts |-> "none"]
  /\ stage = [s \in Starts |-> "none"]
  /\ byOwner = [s \in Starts |-> FALSE]
  /\ sessions = [i \in Ids |-> None]
  /\ agents = [i \in Ids |-> None]

\* FactoryOwnership.isActive()
LoopActive(l) == l \notin closed /\ fiber[l] = "active"

Occupied(i) == sessions[i] # None \/ agents[i] # None

\* The promise of the start is resolved or rejected.
Settled(s) == pc[s] \in {"published", "failed"}

\* prepare() ran: the agent and its scope exist.
Prepared(s) == fiber[s] # "absent"

----------------------------------------------------------------------------
\* Starting

\* The constructor of AgentLoop begins its configured starts.
Load(l) ==
  /\ fiber[l] = "absent"
  /\ fiber' = [fiber EXCEPT ![l] = "active"]
  /\ pc' = [s \in Starts |->
              IF s \notin Configured \/ LoopOf[s] # l THEN pc[s]
              ELSE IF Occupied(IdOf[s]) THEN "draining" ELSE "released"]
  /\ UNCHANGED <<closed, load, ending, registry>>

\* resumeWith() up to its first await: follow the owner, ask for the session.
BeginLoad(s) ==
  /\ pc' = [pc EXCEPT ![s] = "loading"]
  /\ load' = [load EXCEPT ![s] = "pending"]
  /\ follow' = [follow EXCEPT ![s] = "load"]
  /\ UNCHANGED <<fiber, closed, aborted, stage, byOwner, registry>>

\* prepare() refuses when owner, factory or caller have given up.
MayPrepare(s) ==
  fiber[OwnerOf[s]] = "active" /\ LoopActive(LoopOf[s]) /\ ~aborted[s]

\* restoreOrCreateConfigured() once its identity is free, or its factory gone.
Configure(s) ==
  /\ pc[s] = "released"
  /\ \/ LoopActive(LoopOf[s]) /\ BeginLoad(s)
     \/ /\ ~LoopActive(LoopOf[s])
        /\ pc' = [pc EXCEPT ![s] = "failed"]
        /\ UNCHANGED <<fiber, closed, load, ending, registry>>

\* resume() by a plugin or by code in an agent's scope.
Resume(s) ==
  /\ pc[s] = "new" /\ s \in Resuming /\ MayPrepare(s)
  /\ BeginLoad(s)

\* prepare(): the machine and its scope, the effect on the owner.
Prepare(s) ==
  /\ fiber' = [fiber EXCEPT ![s] = "active"]
  /\ follow' = [follow EXCEPT ![s] = "life"]

\* createAgent(): refused when the session is live, else up to await setup().
Create(s) ==
  /\ pc[s] = "new" /\ s \notin Configured \cup Resuming /\ MayPrepare(s)
  /\ IF sessions[IdOf[s]] # None
     THEN /\ pc' = [pc EXCEPT ![s] = "failed"]
          /\ UNCHANGED <<fiber, follow>>
     ELSE Prepare(s) /\ pc' = [pc EXCEPT ![s] = "setup"]
  /\ UNCHANGED <<closed, load, aborted, stage, byOwner, registry>>

\* What a failed resumeWith() does to its caller: a configured start looks
\* whether there was anything to resume, if its factory is still there.
Failed(s) ==
  IF s \in Configured /\ LoopActive(LoopOf[s]) THEN "listing" ELSE "failed"

\* finally preparation?.[Symbol.dispose](), and the `using` of setupAndPublish.
Release(s) == load' = [load EXCEPT ![s] = IF @ = "held" THEN "none" ELSE @]

\* Faulty: a preparation that arrives too late is kept.
LoadSettlesKept(s) ==
  /\ load[s] = "pending"
  /\ LET awaited == pc[s] = "loading" /\ ~aborted[s] IN
     \/ /\ awaited
        /\ load' = [load EXCEPT ![s] = "held"]
        /\ pc' = [pc EXCEPT ![s] = "loaded"]
        /\ UNCHANGED follow
     \/ /\ awaited
        /\ load' = [load EXCEPT ![s] = "none"]
        /\ pc' = [pc EXCEPT ![s] = Failed(s)]
        /\ follow' = [follow EXCEPT ![s] = "none"]
     \/ /\ ~awaited
        /\ load' = [load EXCEPT ![s] = "held"]
        /\ UNCHANGED <<pc, follow>>
  /\ UNCHANGED <<fiber, closed, aborted, stage, byOwner, registry>>

\* persistence.prepare() settles.  The race was won by the abort if that came
\* first; a preparation that arrives for nobody is released at once.
LoadSettles(s) ==
  /\ load[s] = "pending"
  /\ LET awaited == pc[s] = "loading" /\ ~aborted[s] IN
     \/ /\ awaited
        /\ load' = [load EXCEPT ![s] = "held"]
        /\ pc' = [pc EXCEPT ![s] = "loaded"]
        /\ UNCHANGED follow
     \/ /\ awaited
        /\ load' = [load EXCEPT ![s] = "none"]
        /\ pc' = [pc EXCEPT ![s] = Failed(s)]
        /\ follow' = [follow EXCEPT ![s] = "none"]
     \/ /\ ~awaited
        /\ load' = [load EXCEPT ![s] = "none"]
        /\ UNCHANGED <<pc, follow>>
  /\ UNCHANGED <<fiber, closed, aborted, stage, byOwner, registry>>

\* The abort wins the race: the load goes on without anybody waiting for it.
AbandonLoad(s) ==
  /\ pc[s] = "loading" /\ aborted[s]
  /\ pc' = [pc EXCEPT ![s] = Failed(s)]
  /\ follow' = [follow EXCEPT ![s] = "none"]
  /\ UNCHANGED <<fiber, closed, load, aborted, stage, byOwner, registry>>

\* resumeWith() goes on with the loaded session, an await later.
Resumed(s) ==
  /\ pc[s] = "loaded"
  /\ IF MayPrepare(s)
     THEN /\ Prepare(s)
          /\ pc' = [pc EXCEPT ![s] = "setup"]
          /\ UNCHANGED load
     ELSE /\ pc' = [pc EXCEPT ![s] = Failed(s)]
          /\ Release(s)
          /\ follow' = [follow EXCEPT ![s] = "none"]
          /\ UNCHANGED fiber
  /\ UNCHANGED <<closed, aborted, stage, byOwner, registry>>

----------------------------------------------------------------------------
\* Publication and rollback

\* dispose(): memoized, so only the first call sets anything in motion.
Dispose(D) ==
  /\ stage' = [s \in Starts |-> IF s \in D /\ stage[s] = "none"
                                THEN "machine" ELSE stage[s]]
  /\ aborted' = [s \in Starts |-> aborted[s] \/ s \in D]

\* Both registries have taken the session and the agent.
Enter(s) ==
  /\ sessions' = [sessions EXCEPT ![IdOf[s]] = s]
  /\ agents' = [agents EXCEPT ![IdOf[s]] = s]

\* The catch of setupAndPublish(): dispose and wait for it.
Rollback(s) ==
  /\ pc' = [pc EXCEPT ![s] = "rollback"]
  /\ Dispose({s})
  /\ UNCHANGED load

\* setup() has returned: publish(), in one synchronous run.  The enter() calls
\* arbitrate; a listener may veto, or abort the caller's signal.
Publish(s) ==
  /\ pc[s] = "setup" /\ ~aborted[s]
  /\ \/ /\ ~Occupied(IdOf[s])
        /\ Enter(s)
        /\ pc' = [pc EXCEPT ![s] = "published"]
        /\ Release(s)
        /\ UNCHANGED <<stage, aborted>>
     \/ ~Occupied(IdOf[s]) /\ Enter(s) /\ Rollback(s)
     \/ Occupied(IdOf[s]) /\ Rollback(s) /\ UNCHANGED registry
  /\ UNCHANGED <<fiber, closed, follow, byOwner>>

\* setup() rejects, or the signal ends the wait for it.
SetupFails(s) ==
  /\ pc[s] = "setup"
  /\ Rollback(s)
  /\ UNCHANGED <<fiber, closed, follow, byOwner, registry>>

RolledBack(s) ==
  /\ pc[s] = "rollback" /\ stage[s] = "done"
  /\ pc' = [pc EXCEPT ![s] = Failed(s)]
  /\ Release(s)
  /\ UNCHANGED <<fiber, closed, ending, registry>>

\* persistence.list() settles for a configured start whose resume failed.
\* With nothing stored (a resume that got past its load was of something
\* stored), create() prepares and publishes in one run.
Listed(s) ==
  /\ pc[s] = "listing"
  /\ \/ /\ pc' = [pc EXCEPT ![s] = "failed"]
        /\ UNCHANGED <<fiber, ending, registry>>
     \/ /\ MayPrepare(s) /\ ~Prepared(s) /\ ~Occupied(IdOf[s])
        /\ Prepare(s)
        /\ Enter(s)
        /\ \/ /\ pc' = [pc EXCEPT ![s] = "published"]
              /\ UNCHANGED <<stage, aborted>>
           \/ pc' = [pc EXCEPT ![s] = "failed"] /\ Dispose({s})
        /\ UNCHANGED byOwner
  /\ UNCHANGED <<closed, load>>

\* The caller's AbortSignal, which covers load, setup and publication.
CallerAborts(s) ==
  /\ s \notin Configured /\ pc[s] \in {"loading", "loaded", "setup"}
  /\ ~aborted[s]
  /\ aborted' = [aborted EXCEPT ![s] = TRUE]
  /\ UNCHANGED <<fiber, closed, starting, follow, stage, byOwner, registry>>

----------------------------------------------------------------------------
\* Ending

\* handle.dispose(); nobody keeps the handle of a configured agent.
HandleDispose(s) ==
  /\ pc[s] = "published" /\ s \notin Configured /\ stage[s] = "none"
  /\ Dispose({s})
  /\ UNCHANGED <<fiber, closed, starting, follow, byOwner, registry>>

\* machine.cancel() and whenIdle(); then machine.scope.dispose(), which joins
\* an unload of the scope that the factory's fiber has begun.
MachineIdle(s) ==
  /\ stage[s] = "machine"
  /\ stage' = [stage EXCEPT ![s] = "scope"]
  /\ fiber' = [fiber EXCEPT ![s] = IF @ = "active" THEN "unloading" ELSE @]
  /\ UNCHANGED <<closed, starting, aborted, follow, byOwner, registry>>

\* Faulty: whatever occupies the identity leaves the registries.
DetachById(s) ==
  /\ stage[s] = "scope" /\ fiber[s] = "gone"
  /\ LET Leave(reg) == [i \in Ids |-> IF i = IdOf[s] THEN None ELSE reg[i]] IN
     /\ agents' = Leave(agents)
     /\ sessions' = Leave(sessions)
     /\ pc' = [d \in Starts |->
                 IF /\ pc[d] = "draining" /\ sessions[IdOf[d]] = s
                    /\ agents'[IdOf[d]] = None /\ sessions'[IdOf[d]] = None
                 THEN "released" ELSE pc[d]]
  /\ stage' = [stage EXCEPT ![s] = "done"]
  /\ follow' = [follow EXCEPT ![s] = "none"]
  /\ UNCHANGED <<fiber, closed, load, aborted, byOwner>>

\* The end of dispose(): leave the registries, stop following the owner.  The
\* two disposal events let every configured start look at its identity again.
Detach(s) ==
  /\ stage[s] = "scope" /\ fiber[s] = "gone"
  /\ LET Leave(reg) == [i \in Ids |-> IF reg[i] = s THEN None ELSE reg[i]] IN
     /\ agents' = Leave(agents)
     /\ sessions' = Leave(sessions)
     /\ pc' = [d \in Starts |->
                 IF /\ pc[d] = "draining" /\ sessions[IdOf[d]] = s
                    /\ agents'[IdOf[d]] = None /\ sessions'[IdOf[d]] = None
                 THEN "released" ELSE pc[d]]
  /\ stage' = [stage EXCEPT ![s] = "done"]
  /\ follow' = [follow EXCEPT ![s] = "none"]
  /\ UNCHANGED <<fiber, closed, load, aborted, byOwner>>

\* A plugin or a factory is unloaded.
Unload(f) ==
  /\ f \in Plugins \cup Loops /\ fiber[f] = "active"
  /\ fiber' = [fiber EXCEPT ![f] = "unloading"]
  /\ UNCHANGED <<closed, starting, ending, registry>>

\* An unloading owner runs the effect of a start.  One that finds the agent
\* undisposed disposes of it and waits; a disposal that somebody else has begun
\* is left alone, and the unload does not wait for it (index.ts:527), though the
\* comment there and the README have every owner await the one quiescence.
OwnerEffect(s) ==
  /\ follow[s] # "none" /\ fiber[OwnerOf[s]] = "unloading"
  /\ follow' = [follow EXCEPT ![s] = "none"]
  /\ \/ /\ follow[s] = "load"
        /\ aborted' = [aborted EXCEPT ![s] = TRUE]
        /\ UNCHANGED <<stage, byOwner>>
     \/ /\ follow[s] = "life" /\ stage[s] = "none"
        /\ Dispose({s})
        /\ byOwner' = [byOwner EXCEPT ![s] = TRUE]
     \/ /\ follow[s] = "life" /\ stage[s] # "none"
        /\ UNCHANGED <<aborted, stage, byOwner>>
  /\ UNCHANGED <<fiber, closed, starting, registry>>

\* Scopes are child fibers of the factory and unload with it.
ScopeUnload(s) ==
  /\ fiber[s] = "active" /\ fiber[LoopOf[s]] = "unloading"
  /\ fiber' = [fiber EXCEPT ![s] = "unloading"]
  /\ UNCHANGED <<closed, starting, ending, registry>>

\* Faulty: a wait for an identity goes on.
CloseForgetsWaits(l) ==
  LET served == {s \in Starts : LoopOf[s] = l} IN
  /\ fiber[l] = "unloading" /\ l \notin closed
  /\ \A s \in Starts : OwnerOf[s] = l => follow[s] = "none"
  /\ \A s \in served : fiber[s] # "active"
  /\ closed' = closed \cup {l}
  /\ stage' = [s \in Starts |-> IF s \in served /\ Prepared(s) /\ stage[s] = "none"
                                THEN "machine" ELSE stage[s]]
  /\ aborted' = [s \in Starts |-> aborted[s] \/
                   (s \in served /\ (Prepared(s) \/ pc[s] \in {"loading", "loaded"}))]
  /\ UNCHANGED <<fiber, pc, load, follow, byOwner, registry>>

\* Faulty: starts without an agent are disposed of.
CloseDisposesAll(l) ==
  LET served == {s \in Starts : LoopOf[s] = l} IN
  /\ fiber[l] = "unloading" /\ l \notin closed
  /\ \A s \in Starts : OwnerOf[s] = l => follow[s] = "none"
  /\ \A s \in served : fiber[s] # "active"
  /\ closed' = closed \cup {l}
  /\ pc' = [s \in Starts |-> IF s \in served /\ pc[s] = "draining"
                             THEN "released" ELSE pc[s]]
  /\ stage' = [s \in Starts |-> IF s \in served /\ stage[s] = "none"
                                THEN "machine" ELSE stage[s]]
  /\ aborted' = [s \in Starts |-> aborted[s] \/
                   (s \in served /\ (Prepared(s) \/ pc[s] \in {"loading", "loaded"}))]
  /\ UNCHANGED <<fiber, load, follow, byOwner, registry>>

\* FactoryOwnership.dispose(), the factory's oldest effect and so its last:
\* abort every start, end every wait for an identity, dispose every agent.
Close(l) ==
  LET served == {s \in Starts : LoopOf[s] = l} IN
  /\ fiber[l] = "unloading" /\ l \notin closed
  /\ \A s \in Starts : OwnerOf[s] = l => follow[s] = "none"
  /\ \A s \in served : fiber[s] # "active"
  /\ closed' = closed \cup {l}
  /\ pc' = [s \in Starts |-> IF s \in served /\ pc[s] = "draining"
                             THEN "released" ELSE pc[s]]
  /\ stage' = [s \in Starts |-> IF s \in served /\ Prepared(s) /\ stage[s] = "none"
                                THEN "machine" ELSE stage[s]]
  /\ aborted' = [s \in Starts |-> aborted[s] \/
                   (s \in served /\ (Prepared(s) \/ pc[s] \in {"loading", "loaded"}))]
  /\ UNCHANGED <<fiber, load, follow, byOwner, registry>>

\* Faulty: only agents are waited for, not their starts.
LoopQuietAgents(l) ==
  \A s \in Starts : LoopOf[s] = l =>
    /\ Prepared(s) => stage[s] = "done" /\ fiber[s] = "gone"

\* What the factory's disposal awaits: its agents and its starts.
LoopQuiet(l) ==
  \A s \in Starts : LoopOf[s] = l =>
    /\ Prepared(s) => stage[s] = "done" /\ fiber[s] = "gone"
    /\ pc[s] = "new" \/ Settled(s)

\* The unload ends when all that its disposers returned has settled.
Unloaded(f) ==
  /\ fiber[f] = "unloading"
  /\ \A s \in Starts : OwnerOf[s] = f =>
       follow[s] = "none" /\ (byOwner[s] => stage[s] = "done")
  /\ f \in Loops => f \in closed /\ LoopQuiet(f)
  /\ fiber' = [fiber EXCEPT ![f] = "gone"]
  /\ UNCHANGED <<closed, starting, ending, registry>>

----------------------------------------------------------------------------
\* What awaits nothing but this code itself, a cancelled machine (which comes
\* to rest, see AgentDriver) and a listing of the store.
Progress ==
  \/ \E s \in Starts :
       \/ Configure(s) \/ AbandonLoad(s) \/ Resumed(s) \/ RolledBack(s) \/ Listed(s)
       \/ aborted[s] /\ SetupFails(s)
       \/ MachineIdle(s) \/ Detach(s) \/ OwnerEffect(s) \/ ScopeUnload(s)
  \/ \E f \in Fibers : Unloaded(f)
  \/ \E l \in Loops : Close(l)

\* What this code cannot hurry: callers, unloads, a stored session, a setup.
Environment ==
  \/ \E s \in Starts :
       \/ Resume(s) \/ Create(s) \/ LoadSettles(s) \/ Publish(s)
       \/ ~aborted[s] /\ SetupFails(s)
       \/ CallerAborts(s) \/ HandleDispose(s)
  \/ \E f \in Fibers : Unload(f)
  \/ \E l \in Loops : Load(l)

Next == Progress \/ Environment

Spec == Init /\ [][Next]_vars

\* Each step of Progress brings one start, disposal or unload further and is
\* never taken back, so that fairness of the whole is enough for each.
FairSpec == Spec /\ WF_vars(Progress)

----------------------------------------------------------------------------
\* Properties

\* Every variable has its type, and only what was prepared is disposed of.
TypeOK ==
  /\ fiber \in [Fibers -> {"absent", "active", "unloading", "gone"}]
  /\ closed \subseteq Loops
  /\ pc \in [Starts -> {"new", "draining", "released", "loading", "loaded", "listing",
                        "setup", "rollback", "published", "failed"}]
  /\ follow \in [Starts -> {"none", "load", "life"}]
  /\ aborted \in [Starts -> BOOLEAN]
  /\ load \in [Starts -> {"none", "pending", "held"}]
  /\ stage \in [Starts -> {"none", "machine", "scope", "done"}]
  /\ byOwner \in [Starts -> BOOLEAN]
  /\ sessions \in [Ids -> Starts \cup {None}]
  /\ agents \in [Ids -> Starts \cup {None}]
  /\ \A s \in Starts : stage[s] # "none" => Prepared(s)

\* An agent whose machine may still run holds its identity in both registries,
\* so one identity never has two drivers: not while a start that lost the race
\* for it rolls back, nor while a disposed one drains.
OneDriver ==
  \A s \in Starts :
    pc[s] = "published" /\ stage[s] \in {"none", "machine"} =>
      agents[IdOf[s]] = s /\ sessions[IdOf[s]] = s

\* An unload leaves no start that could still publish an agent: those of an
\* unloaded owner have been told to give up, those of an unloaded factory are
\* over, and neither registry nor scope has anything of it left.  (Of an owner's
\* agent that somebody else disposes of only the factory awaits the end, see
\* OwnerEffect.)
UnloadEndsStarts ==
  \A s \in Starts :
    /\ fiber[OwnerOf[s]] = "gone" /\ pc[s] \in {"loading", "setup"} => aborted[s]
    /\ fiber[LoopOf[s]] = "gone" =>
         /\ pc[s] = "new" \/ Settled(s)
         /\ fiber[s] \in {"absent", "gone"}
         /\ s \notin {sessions[IdOf[s]], agents[IdOf[s]]}

\* A preparation is held only by a start that is still going to use it: a
\* start that is over, or that gave up on its load, keeps none.
NoPreparationKept ==
  \A s \in Starts : load[s] = "held" => pc[s] \in {"loaded", "setup", "rollback"}

\* Every unload and every disposal comes to its end, whoever else disposes of
\* the same agents and although a load or a setup may never settle; a start
\* that is told to give up settles; and a configured start does not wait for
\* an identity that its occupant has left.
TeardownConverges ==
  /\ []<>( /\ \A f \in Fibers : fiber[f] # "unloading"
           /\ \A s \in Starts : stage[s] \in {"none", "done"} )
  /\ []<>(\A s \in Starts :
            /\ aborted[s] => Settled(s)
            /\ pc[s] = "draining" =>
                 \E o \in Starts : sessions[IdOf[s]] = o /\ stage[o] = "none")
=============================================================================
