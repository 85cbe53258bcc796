------------------------ MODULE AgentLifecycle_proofs ------------------------
(***************************************************************************)
(* Theorems about the lifecycle of agents, for any starts, factories,      *)
(* owners and identities: its state is well typed, an identity has one     *)
(* driver, a preparation is released, and an unload leaves nothing behind. *)
(***************************************************************************)
EXTENDS AgentLifecycle, TLAPS

\* Where a start has no agent yet.
Unstarted == {"new", "draining", "released", "loading", "loaded"}

\* Which starts have an agent, and which wait for an identity.
PlaceInv ==
  \A s \in Starts :
    /\ pc[s] \in {"setup", "rollback", "published"} \/ follow[s] = "life" =>
         Prepared(s)
    /\ pc[s] \in Unstarted => ~Prepared(s)
    /\ pc[s] \in {"draining", "released"} => s \in Configured
    /\ s \in Configured /\ fiber[LoopOf[s]] = "absent" => pc[s] = "new"

\* A start whose disposal has begun was told so, and one that does not follow
\* its owner any more was told or is being disposed of.
FollowInv ==
  \A s \in Starts :
    /\ stage[s] # "none" => aborted[s]
    /\ Prepared(s) /\ follow[s] # "life" => stage[s] # "none"
    /\ pc[s] = "loading" /\ follow[s] # "load" => aborted[s]

\* Who is in a registry has an agent that has not left it.
RegistryInv ==
  \A s \in Starts :
    s \in {sessions[IdOf[s]], agents[IdOf[s]]} => Prepared(s) /\ stage[s] # "done"

\* What dispose() does to one agent.
LEMMA DisposeEffect ==
  ASSUME stage \in [Starts -> {"none", "machine", "scope", "done"}],
         aborted \in [Starts -> BOOLEAN],
         NEW s \in Starts, Dispose({s})
  PROVE  /\ stage' = [stage EXCEPT ![s] = IF @ = "none" THEN "machine" ELSE @]
         /\ aborted' = [aborted EXCEPT ![s] = TRUE]
<1>1. stage' = [stage EXCEPT ![s] = IF @ = "none" THEN "machine" ELSE @]
  BY DEF Dispose
<1>2. ASSUME NEW t \in Starts
      PROVE  aborted'[t] = [aborted EXCEPT ![s] = TRUE][t]
  BY DEF Dispose
<1>3. aborted' = [t \in Starts |-> aborted'[t]]
  BY DEF Dispose
<1>. QED
  BY <1>1, <1>2, <1>3

\* Type correctness needs to know which starts have an agent: only those
\* are disposed of.
LEMMA TypeStep ==
  TypeOK /\ PlaceInv /\ [Next]_vars => TypeOK'
<1>. SUFFICES ASSUME TypeOK, PlaceInv,
                     [Next]_vars
              PROVE  TypeOK'
  OBVIOUS
<1>. USE DEF vars, starting, ending, registry, TypeOK, PlaceInv
<1>1. ASSUME NEW s \in Starts, Configure(s) PROVE TypeOK'
  BY <1>1 DEF Configure, BeginLoad, Prepared
<1>2. ASSUME NEW s \in Starts, AbandonLoad(s) PROVE TypeOK'
  BY <1>2 DEF AbandonLoad, Failed, Prepared
<1>3. ASSUME NEW s \in Starts, Resumed(s) PROVE TypeOK'
  BY <1>3 DEF Resumed, Prepare, Release, Failed, Fibers, Prepared
<1>4. ASSUME NEW s \in Starts, RolledBack(s) PROVE TypeOK'
  BY <1>4 DEF RolledBack, Release, Failed, Prepared
<1>5. ASSUME NEW s \in Starts, Listed(s) PROVE TypeOK'
  <2>1. pc[s] = "listing" /\ UNCHANGED <<closed, load>>
    BY <1>5 DEF Listed
  <2>2. CASE pc' = [pc EXCEPT ![s] = "failed"] /\ UNCHANGED <<fiber, ending, registry>>
    BY <2>1, <2>2 DEF Prepared, Ids, Fibers
  <2>3. ASSUME MayPrepare(s), ~Prepared(s), Prepare(s), Enter(s), UNCHANGED byOwner
        PROVE  /\ pc' = [pc EXCEPT ![s] = "published"] /\ UNCHANGED <<stage, aborted>>
                 => TypeOK'
               /\ pc' = [pc EXCEPT ![s] = "failed"] /\ Dispose({s}) => TypeOK'
    <3>1. ASSUME pc' = [pc EXCEPT ![s] = "published"], UNCHANGED <<stage, aborted>>
          PROVE  TypeOK'
      BY <2>1, <2>3, <3>1 DEF MayPrepare, Prepare, Enter, Prepared, Ids, Fibers
    <3>2. ASSUME pc' = [pc EXCEPT ![s] = "failed"], Dispose({s})
          PROVE  TypeOK'
      <4>1. /\ stage' = [stage EXCEPT ![s] = IF @ = "none" THEN "machine" ELSE @]
            /\ aborted' = [aborted EXCEPT ![s] = TRUE]
        BY <3>2, DisposeEffect
      <4>. QED
        BY <2>1, <2>3, <3>2, <4>1 DEF MayPrepare, Prepare, Enter, Prepared, Ids, Fibers
    <3>. QED
      BY <3>1, <3>2
  <2>. QED
    BY <1>5, <2>2, <2>3 DEF Listed
<1>6. ASSUME NEW s \in Starts, SetupFails(s) PROVE TypeOK'
  BY <1>6 DEF SetupFails, Rollback, Dispose, Prepared
<1>7. ASSUME NEW s \in Starts, MachineIdle(s) PROVE TypeOK'
  BY <1>7 DEF MachineIdle, Fibers, Prepared
<1>8. ASSUME NEW s \in Starts, Detach(s) PROVE TypeOK'
  BY <1>8 DEF Detach, Prepared
<1>9. ASSUME NEW s \in Starts, OwnerEffect(s) PROVE TypeOK'
  <2>1. CASE follow[s] = "load"
    BY <1>9, <2>1 DEF OwnerEffect, Prepared
  <2>2. CASE follow[s] = "life" /\ stage[s] = "none"
    <3>1. Dispose({s}) /\ byOwner' = [byOwner EXCEPT ![s] = TRUE]
      BY <1>9, <2>2 DEF OwnerEffect
    <3>2. /\ stage' = [stage EXCEPT ![s] = IF @ = "none" THEN "machine" ELSE @]
          /\ aborted' = [aborted EXCEPT ![s] = TRUE]
      BY <3>1, DisposeEffect
    <3>3. follow' = [follow EXCEPT ![s] = "none"] /\ UNCHANGED <<fiber, closed, pc, load>>
      BY <1>9 DEF OwnerEffect
    <3>4. UNCHANGED <<sessions, agents>>
      BY <1>9 DEF OwnerEffect
    <3>. QED
      BY <2>2, <3>1, <3>2, <3>3, <3>4 DEF Prepared
  <2>3. CASE follow[s] = "life" /\ stage[s] # "none"
    BY <1>9, <2>3 DEF OwnerEffect, Prepared
  <2>. QED
    BY <1>9, <2>1, <2>2, <2>3 DEF OwnerEffect
<1>10. ASSUME NEW s \in Starts, ScopeUnload(s) PROVE TypeOK'
  BY <1>10 DEF ScopeUnload, Fibers, Prepared
<1>11. ASSUME NEW s \in Starts, Resume(s) PROVE TypeOK'
  BY <1>11 DEF Resume, BeginLoad, Prepared
<1>12. ASSUME NEW s \in Starts, Create(s) PROVE TypeOK'
  BY <1>12 DEF Create, Prepare, Fibers, Prepared
<1>13. ASSUME NEW s \in Starts, LoadSettles(s) PROVE TypeOK'
  BY <1>13 DEF LoadSettles, Failed, Prepared
<1>14. ASSUME NEW s \in Starts, Publish(s) PROVE TypeOK'
  <2>1. /\ pc[s] = "setup" /\ ~aborted[s] /\ UNCHANGED <<fiber, closed, follow, byOwner>>
        /\ \/ /\ Enter(s) /\ Release(s) /\ UNCHANGED <<stage, aborted>>
              /\ pc' = [pc EXCEPT ![s] = "published"]
           \/ Enter(s) /\ Rollback(s)
           \/ Rollback(s) /\ UNCHANGED registry
    BY <1>14 DEF Publish
  <2>2. CASE /\ Enter(s) /\ Release(s) /\ UNCHANGED <<stage, aborted>>
             /\ pc' = [pc EXCEPT ![s] = "published"]
    BY <2>1, <2>2 DEF Enter, Release, Prepared, Ids
  <2>3. CASE Enter(s) /\ Rollback(s)
    <3>1. /\ stage' = [stage EXCEPT ![s] = IF @ = "none" THEN "machine" ELSE @]
          /\ aborted' = [aborted EXCEPT ![s] = TRUE]
      BY <2>3, DisposeEffect DEF Rollback
    <3>. QED
      BY <2>1, <2>3, <3>1 DEF Enter, Rollback, Prepared, Ids
  <2>4. CASE Rollback(s) /\ UNCHANGED registry
    <3>1. /\ stage' = [stage EXCEPT ![s] = IF @ = "none" THEN "machine" ELSE @]
          /\ aborted' = [aborted EXCEPT ![s] = TRUE]
      BY <2>4, DisposeEffect DEF Rollback
    <3>. QED
      BY <2>1, <2>4, <3>1 DEF Rollback, Prepared, Ids
  <2>. QED
    BY <2>1, <2>2, <2>3, <2>4
<1>15. ASSUME NEW s \in Starts, CallerAborts(s) PROVE TypeOK'
  BY <1>15 DEF CallerAborts, Prepared
<1>16. ASSUME NEW s \in Starts, HandleDispose(s) PROVE TypeOK'
  BY <1>16 DEF HandleDispose, Dispose, Prepared
<1>17. ASSUME NEW f \in Fibers, Unload(f) PROVE TypeOK'
  BY <1>17 DEF Unload, Prepared
<1>18. ASSUME NEW f \in Fibers, Unloaded(f) PROVE TypeOK'
  BY <1>18 DEF Unloaded, Prepared
<1>19. ASSUME NEW l \in Loops, Close(l) PROVE TypeOK'
  BY <1>19 DEF Close, Prepared
<1>20. ASSUME NEW l \in Loops, Load(l) PROVE TypeOK'
  BY <1>20 DEF Load, Fibers, Prepared
<1>21. CASE UNCHANGED vars
  BY <1>21 DEF Prepared
<1>. QED
  BY <1>1, <1>2, <1>3, <1>4, <1>5, <1>6, <1>7, <1>8, <1>9, <1>10, <1>11, <1>12,
       <1>13, <1>14, <1>15, <1>16, <1>17, <1>18, <1>19, <1>20, <1>21
     DEF Next, Progress, Environment

\* Where a start is says whether it has an agent.
LEMMA PlaceStep ==
  TypeOK /\ PlaceInv /\ [Next]_vars => PlaceInv'
<1>. SUFFICES ASSUME TypeOK, PlaceInv,
                     [Next]_vars
              PROVE  PlaceInv'
  OBVIOUS
<1>. USE DEF vars, starting, ending, registry, TypeOK, PlaceInv
<1>1. ASSUME NEW s \in Starts, Configure(s) PROVE PlaceInv'
  BY <1>1 DEF Configure, BeginLoad, Unstarted, Prepared
<1>2. ASSUME NEW s \in Starts, AbandonLoad(s) PROVE PlaceInv'
  BY <1>2 DEF AbandonLoad, Failed, Unstarted, Prepared
<1>3. ASSUME NEW s \in Starts, Resumed(s) PROVE PlaceInv'
  BY <1>3, StartsAssumption DEF Resumed, Prepare, Failed, Fibers, Unstarted, Prepared,
       StartsAssumption
<1>4. ASSUME NEW s \in Starts, RolledBack(s) PROVE PlaceInv'
  BY <1>4 DEF RolledBack, Failed, Unstarted, Prepared
<1>5. ASSUME NEW s \in Starts, Listed(s) PROVE PlaceInv'
  BY <1>5, StartsAssumption DEF Listed, Prepare, Fibers, Unstarted, Prepared,
       StartsAssumption
<1>6. ASSUME NEW s \in Starts, SetupFails(s) PROVE PlaceInv'
  BY <1>6 DEF SetupFails, Rollback, Unstarted, Prepared
<1>7. ASSUME NEW s \in Starts, MachineIdle(s) PROVE PlaceInv'
  BY <1>7 DEF MachineIdle, Prepared
<1>8. ASSUME NEW s \in Starts, Detach(s) PROVE PlaceInv'
  BY <1>8 DEF Detach, Unstarted, Prepared
<1>9. ASSUME NEW s \in Starts, OwnerEffect(s) PROVE PlaceInv'
  BY <1>9 DEF OwnerEffect, Prepared
<1>10. ASSUME NEW s \in Starts, ScopeUnload(s) PROVE PlaceInv'
  BY <1>10 DEF ScopeUnload, Prepared
<1>11. ASSUME NEW s \in Starts, Resume(s) PROVE PlaceInv'
  BY <1>11, StartsAssumption DEF Resume, BeginLoad, Unstarted, Prepared,
       StartsAssumption
<1>12. ASSUME NEW s \in Starts, Create(s) PROVE PlaceInv'
  BY <1>12, StartsAssumption DEF Create, Prepare, Fibers, Unstarted, Prepared,
       StartsAssumption
<1>13. ASSUME NEW s \in Starts, LoadSettles(s) PROVE PlaceInv'
  BY <1>13 DEF LoadSettles, Failed, Unstarted, Prepared
<1>14. ASSUME NEW s \in Starts, Publish(s) PROVE PlaceInv'
  BY <1>14 DEF Publish, Rollback, Unstarted, Prepared
<1>15. ASSUME NEW s \in Starts, CallerAborts(s) PROVE PlaceInv'
  BY <1>15 DEF CallerAborts, Prepared
<1>16. ASSUME NEW s \in Starts, HandleDispose(s) PROVE PlaceInv'
  BY <1>16 DEF HandleDispose, Prepared
<1>17. ASSUME NEW f \in Fibers, Unload(f) PROVE PlaceInv'
  BY <1>17 DEF Unload, Prepared
<1>18. ASSUME NEW f \in Fibers, Unloaded(f) PROVE PlaceInv'
  BY <1>18 DEF Unloaded, Prepared
<1>19. ASSUME NEW l \in Loops, Close(l) PROVE PlaceInv'
  BY <1>19 DEF Close, Unstarted, Prepared
<1>20. ASSUME NEW l \in Loops, Load(l) PROVE PlaceInv'
  BY <1>20, StartsAssumption DEF Load, Unstarted, Prepared, StartsAssumption
<1>21. CASE UNCHANGED vars
  BY <1>21 DEF Prepared
<1>. QED
  BY <1>1, <1>2, <1>3, <1>4, <1>5, <1>6, <1>7, <1>8, <1>9, <1>10, <1>11, <1>12,
       <1>13, <1>14, <1>15, <1>16, <1>17, <1>18, <1>19, <1>20, <1>21
     DEF Next, Progress, Environment

\* A disposal that has begun has told its start, and a start that no longer
\* follows its owner has been told or is being disposed of.
LEMMA FollowStep ==
  TypeOK /\ PlaceInv /\ FollowInv /\ [Next]_vars => FollowInv'
<1>. SUFFICES ASSUME TypeOK, PlaceInv, FollowInv,
                     [Next]_vars
              PROVE  FollowInv'
  OBVIOUS
<1>. USE DEF vars, starting, ending, registry, TypeOK, PlaceInv, FollowInv
<1>1. ASSUME NEW s \in Starts, Configure(s) PROVE FollowInv'
  BY <1>1 DEF Configure, BeginLoad, Unstarted, Prepared
<1>2. ASSUME NEW s \in Starts, AbandonLoad(s) PROVE FollowInv'
  BY <1>2 DEF AbandonLoad, Unstarted, Prepared
<1>3. ASSUME NEW s \in Starts, Resumed(s) PROVE FollowInv'
  BY <1>3 DEF Resumed, Prepare, Failed, Fibers, Unstarted, Prepared
<1>4. ASSUME NEW s \in Starts, RolledBack(s) PROVE FollowInv'
  BY <1>4 DEF RolledBack, Prepared
<1>5. ASSUME NEW s \in Starts, Listed(s) PROVE FollowInv'
  <2>1. pc[s] = "listing" /\ UNCHANGED <<closed, load>>
    BY <1>5 DEF Listed
  <2>2. CASE pc' = [pc EXCEPT ![s] = "failed"] /\ UNCHANGED <<fiber, ending, registry>>
    BY <2>1, <2>2 DEF Prepared, Unstarted
  <2>3. ASSUME MayPrepare(s), ~Prepared(s), Prepare(s), Enter(s), UNCHANGED byOwner
        PROVE  /\ pc' = [pc EXCEPT ![s] = "published"] /\ UNCHANGED <<stage, aborted>>
                 => FollowInv'
               /\ pc' = [pc EXCEPT ![s] = "failed"] /\ Dispose({s}) => FollowInv'
    <3>1. ASSUME pc' = [pc EXCEPT ![s] = "published"], UNCHANGED <<stage, aborted>>
          PROVE  FollowInv'
      BY <2>1, <2>3, <3>1 DEF MayPrepare, Prepare, Enter, Prepared, Unstarted
    <3>2. ASSUME pc' = [pc EXCEPT ![s] = "failed"], Dispose({s})
          PROVE  FollowInv'
      <4>1. /\ stage' = [stage EXCEPT ![s] = IF @ = "none" THEN "machine" ELSE @]
            /\ aborted' = [aborted EXCEPT ![s] = TRUE]
        BY <3>2, DisposeEffect
      <4>. QED
        BY <2>1, <2>3, <3>2, <4>1 DEF MayPrepare, Prepare, Enter, Prepared, Unstarted
    <3>. QED
      BY <3>1, <3>2
  <2>. QED
    BY <1>5, <2>2, <2>3 DEF Listed
<1>6. ASSUME NEW s \in Starts, SetupFails(s) PROVE FollowInv'
  BY <1>6 DEF SetupFails, Rollback, Dispose, Prepared
<1>7. ASSUME NEW s \in Starts, MachineIdle(s) PROVE FollowInv'
  BY <1>7 DEF MachineIdle, Prepared
<1>8. ASSUME NEW s \in Starts, Detach(s) PROVE FollowInv'
  BY <1>8 DEF Detach, Prepared
<1>9. ASSUME NEW s \in Starts, OwnerEffect(s) PROVE FollowInv'
  <2>1. CASE follow[s] = "load"
    BY <1>9, <2>1 DEF OwnerEffect, Prepared
  <2>2. CASE follow[s] = "life" /\ stage[s] = "none"
    <3>1. Dispose({s}) /\ byOwner' = [byOwner EXCEPT ![s] = TRUE]
      BY <1>9, <2>2 DEF OwnerEffect
    <3>2. /\ stage' = [stage EXCEPT ![s] = IF @ = "none" THEN "machine" ELSE @]
          /\ aborted' = [aborted EXCEPT ![s] = TRUE]
      BY <3>1, DisposeEffect
    <3>3. follow' = [follow EXCEPT ![s] = "none"] /\ UNCHANGED <<fiber, closed, pc, load>>
      BY <1>9 DEF OwnerEffect
    <3>4. UNCHANGED <<sessions, agents>>
      BY <1>9 DEF OwnerEffect
    <3>. QED
      BY <2>2, <3>1, <3>2, <3>3, <3>4 DEF Prepared
  <2>3. CASE follow[s] = "life" /\ stage[s] # "none"
    BY <1>9, <2>3 DEF OwnerEffect, Prepared
  <2>. QED
    BY <1>9, <2>1, <2>2, <2>3 DEF OwnerEffect
<1>10. ASSUME NEW s \in Starts, ScopeUnload(s) PROVE FollowInv'
  BY <1>10 DEF ScopeUnload, Prepared
<1>11. ASSUME NEW s \in Starts, Resume(s) PROVE FollowInv'
  BY <1>11 DEF Resume, BeginLoad, Unstarted, Prepared
<1>12. ASSUME NEW s \in Starts, Create(s) PROVE FollowInv'
  BY <1>12 DEF Create, Prepare, Fibers, Prepared
<1>13. ASSUME NEW s \in Starts, LoadSettles(s) PROVE FollowInv'
  BY <1>13 DEF LoadSettles, Failed, Prepared
<1>14. ASSUME NEW s \in Starts, Publish(s) PROVE FollowInv'
  <2>1. /\ pc[s] = "setup" /\ ~aborted[s] /\ UNCHANGED <<fiber, closed, follow, byOwner>>
        /\ \/ /\ Enter(s) /\ Release(s) /\ UNCHANGED <<stage, aborted>>
              /\ pc' = [pc EXCEPT ![s] = "published"]
           \/ Enter(s) /\ Rollback(s)
           \/ Rollback(s) /\ UNCHANGED registry
    BY <1>14 DEF Publish
  <2>2. CASE /\ Enter(s) /\ Release(s) /\ UNCHANGED <<stage, aborted>>
             /\ pc' = [pc EXCEPT ![s] = "published"]
    BY <2>1, <2>2 DEF Enter, Release, Prepared, Unstarted
  <2>3. CASE Enter(s) /\ Rollback(s)
    <3>1. /\ stage' = [stage EXCEPT ![s] = IF @ = "none" THEN "machine" ELSE @]
          /\ aborted' = [aborted EXCEPT ![s] = TRUE]
      BY <2>3, DisposeEffect DEF Rollback
    <3>. QED
      BY <2>1, <2>3, <3>1 DEF Enter, Rollback, Prepared, Unstarted
  <2>4. CASE Rollback(s) /\ UNCHANGED registry
    <3>1. /\ stage' = [stage EXCEPT ![s] = IF @ = "none" THEN "machine" ELSE @]
          /\ aborted' = [aborted EXCEPT ![s] = TRUE]
      BY <2>4, DisposeEffect DEF Rollback
    <3>. QED
      BY <2>1, <2>4, <3>1 DEF Rollback, Prepared, Unstarted
  <2>. QED
    BY <2>1, <2>2, <2>3, <2>4
<1>15. ASSUME NEW s \in Starts, CallerAborts(s) PROVE FollowInv'
  BY <1>15 DEF CallerAborts, Prepared
<1>16. ASSUME NEW s \in Starts, HandleDispose(s) PROVE FollowInv'
  BY <1>16 DEF HandleDispose, Dispose, Prepared
<1>17. ASSUME NEW f \in Fibers, Unload(f) PROVE FollowInv'
  BY <1>17 DEF Unload, Prepared
<1>18. ASSUME NEW f \in Fibers, Unloaded(f) PROVE FollowInv'
  BY <1>18 DEF Unloaded, Prepared
<1>19. ASSUME NEW l \in Loops, Close(l) PROVE FollowInv'
  BY <1>19 DEF Close, Prepared
<1>20. ASSUME NEW l \in Loops, Load(l) PROVE FollowInv'
  BY <1>20, StartsAssumption DEF Load, Prepared, StartsAssumption
<1>21. CASE UNCHANGED vars
  BY <1>21 DEF Prepared
<1>. QED
  BY <1>1, <1>2, <1>3, <1>4, <1>5, <1>6, <1>7, <1>8, <1>9, <1>10, <1>11, <1>12,
       <1>13, <1>14, <1>15, <1>16, <1>17, <1>18, <1>19, <1>20, <1>21
     DEF Next, Progress, Environment

\* Only an agent whose disposal has not ended is in a registry.
LEMMA RegistryStep ==
  TypeOK /\ PlaceInv /\ FollowInv /\ RegistryInv /\ [Next]_vars => RegistryInv'
<1>. SUFFICES ASSUME TypeOK, PlaceInv, FollowInv, RegistryInv,
                     [Next]_vars
              PROVE  RegistryInv'
  OBVIOUS
<1>. USE DEF vars, starting, ending, registry, TypeOK, PlaceInv, FollowInv, RegistryInv
<1>1. ASSUME NEW s \in Starts, Configure(s) PROVE RegistryInv'
  BY <1>1 DEF Configure, BeginLoad, Prepared
<1>2. ASSUME NEW s \in Starts, AbandonLoad(s) PROVE RegistryInv'
  BY <1>2 DEF AbandonLoad, Prepared
<1>3. ASSUME NEW s \in Starts, Resumed(s) PROVE RegistryInv'
  BY <1>3 DEF Resumed, Prepare, Fibers, Prepared
<1>4. ASSUME NEW s \in Starts, RolledBack(s) PROVE RegistryInv'
  BY <1>4 DEF RolledBack, Prepared
<1>5. ASSUME NEW s \in Starts, Listed(s) PROVE RegistryInv'
  BY <1>5 DEF Listed, Prepare, Enter, Dispose, Fibers, Ids, Prepared
<1>6. ASSUME NEW s \in Starts, SetupFails(s) PROVE RegistryInv'
  BY <1>6 DEF SetupFails, Rollback, Dispose, Prepared
<1>7. ASSUME NEW s \in Starts, MachineIdle(s) PROVE RegistryInv'
  BY <1>7 DEF MachineIdle, Prepared
<1>8. ASSUME NEW s \in Starts, Detach(s) PROVE RegistryInv'
  BY <1>8, StartsAssumption DEF Detach, Ids, Prepared, StartsAssumption
<1>9. ASSUME NEW s \in Starts, OwnerEffect(s) PROVE RegistryInv'
  BY <1>9 DEF OwnerEffect, Dispose, Prepared
<1>10. ASSUME NEW s \in Starts, ScopeUnload(s) PROVE RegistryInv'
  BY <1>10 DEF ScopeUnload, Prepared
<1>11. ASSUME NEW s \in Starts, Resume(s) PROVE RegistryInv'
  BY <1>11 DEF Resume, BeginLoad, Prepared
<1>12. ASSUME NEW s \in Starts, Create(s) PROVE RegistryInv'
  BY <1>12 DEF Create, Prepare, Fibers, Prepared
<1>13. ASSUME NEW s \in Starts, LoadSettles(s) PROVE RegistryInv'
  BY <1>13 DEF LoadSettles, Prepared
<1>14. ASSUME NEW s \in Starts, Publish(s) PROVE RegistryInv'
  <2>1. /\ pc[s] = "setup" /\ ~aborted[s] /\ UNCHANGED <<fiber, closed, follow, byOwner>>
        /\ \/ /\ Enter(s) /\ Release(s) /\ UNCHANGED <<stage, aborted>>
              /\ pc' = [pc EXCEPT ![s] = "published"]
           \/ Enter(s) /\ Rollback(s)
           \/ Rollback(s) /\ UNCHANGED registry
    BY <1>14 DEF Publish
  <2>2. CASE /\ Enter(s) /\ Release(s) /\ UNCHANGED <<stage, aborted>>
             /\ pc' = [pc EXCEPT ![s] = "published"]
    BY <2>1, <2>2 DEF Enter, Release, Prepared
  <2>3. CASE Enter(s) /\ Rollback(s)
    <3>1. /\ stage' = [stage EXCEPT ![s] = IF @ = "none" THEN "machine" ELSE @]
          /\ aborted' = [aborted EXCEPT ![s] = TRUE]
      BY <2>3, DisposeEffect DEF Rollback
    <3>. QED
      BY <2>1, <2>3, <3>1 DEF Enter, Rollback, Prepared
  <2>4. CASE Rollback(s) /\ UNCHANGED registry
    <3>1. /\ stage' = [stage EXCEPT ![s] = IF @ = "none" THEN "machine" ELSE @]
          /\ aborted' = [aborted EXCEPT ![s] = TRUE]
      BY <2>4, DisposeEffect DEF Rollback
    <3>. QED
      BY <2>1, <2>4, <3>1 DEF Rollback, Prepared
  <2>. QED
    BY <2>1, <2>2, <2>3, <2>4
<1>15. ASSUME NEW s \in Starts, CallerAborts(s) PROVE RegistryInv'
  BY <1>15 DEF CallerAborts, Prepared
<1>16. ASSUME NEW s \in Starts, HandleDispose(s) PROVE RegistryInv'
  BY <1>16 DEF HandleDispose, Dispose, Prepared
<1>17. ASSUME NEW f \in Fibers, Unload(f) PROVE RegistryInv'
  BY <1>17 DEF Unload, Prepared
<1>18. ASSUME NEW f \in Fibers, Unloaded(f) PROVE RegistryInv'
  BY <1>18 DEF Unloaded, Prepared
<1>19. ASSUME NEW l \in Loops, Close(l) PROVE RegistryInv'
  BY <1>19 DEF Close, Prepared
<1>20. ASSUME NEW l \in Loops, Load(l) PROVE RegistryInv'
  BY <1>20 DEF Load, Prepared
<1>21. CASE UNCHANGED vars
  BY <1>21 DEF Prepared
<1>. QED
  BY <1>1, <1>2, <1>3, <1>4, <1>5, <1>6, <1>7, <1>8, <1>9, <1>10, <1>11, <1>12,
       <1>13, <1>14, <1>15, <1>16, <1>17, <1>18, <1>19, <1>20, <1>21
     DEF Next, Progress, Environment

\* The registries change hands only through nobody's.
LEMMA OneDriverStep ==
  TypeOK /\ OneDriver /\ [Next]_vars => OneDriver'
<1>. SUFFICES ASSUME TypeOK, OneDriver,
                     [Next]_vars
              PROVE  OneDriver'
  OBVIOUS
<1>. USE DEF vars, starting, ending, registry, TypeOK, OneDriver
<1>1. ASSUME NEW s \in Starts, Configure(s) PROVE OneDriver'
  BY <1>1 DEF Configure, BeginLoad
<1>2. ASSUME NEW s \in Starts, AbandonLoad(s) PROVE OneDriver'
  BY <1>2 DEF AbandonLoad, Failed
<1>3. ASSUME NEW s \in Starts, Resumed(s) PROVE OneDriver'
  BY <1>3 DEF Resumed, Failed
<1>4. ASSUME NEW s \in Starts, RolledBack(s) PROVE OneDriver'
  BY <1>4 DEF RolledBack
<1>5. ASSUME NEW s \in Starts, Listed(s) PROVE OneDriver'
  BY <1>5, StartsAssumption DEF Listed, Enter, Dispose, Ids, Occupied, StartsAssumption
<1>6. ASSUME NEW s \in Starts, SetupFails(s) PROVE OneDriver'
  BY <1>6 DEF SetupFails, Rollback, Dispose
<1>7. ASSUME NEW s \in Starts, MachineIdle(s) PROVE OneDriver'
  BY <1>7 DEF MachineIdle
<1>8. ASSUME NEW s \in Starts, Detach(s) PROVE OneDriver'
  BY <1>8 DEF Detach, Ids
<1>9. ASSUME NEW s \in Starts, OwnerEffect(s) PROVE OneDriver'
  BY <1>9 DEF OwnerEffect, Dispose
<1>10. ASSUME NEW s \in Starts, ScopeUnload(s) PROVE OneDriver'
  BY <1>10 DEF ScopeUnload
<1>11. ASSUME NEW s \in Starts, Resume(s) PROVE OneDriver'
  BY <1>11 DEF Resume, BeginLoad
<1>12. ASSUME NEW s \in Starts, Create(s) PROVE OneDriver'
  BY <1>12 DEF Create
<1>13. ASSUME NEW s \in Starts, LoadSettles(s) PROVE OneDriver'
  BY <1>13 DEF LoadSettles, Failed
<1>14. ASSUME NEW s \in Starts, Publish(s) PROVE OneDriver'
  BY <1>14, StartsAssumption DEF Publish, Rollback, Dispose, Enter, Ids, Occupied,
       StartsAssumption
<1>15. ASSUME NEW s \in Starts, CallerAborts(s) PROVE OneDriver'
  BY <1>15 DEF CallerAborts
<1>16. ASSUME NEW s \in Starts, HandleDispose(s) PROVE OneDriver'
  BY <1>16 DEF HandleDispose, Dispose
<1>17. ASSUME NEW f \in Fibers, Unload(f) PROVE OneDriver'
  BY <1>17 DEF Unload
<1>18. ASSUME NEW f \in Fibers, Unloaded(f) PROVE OneDriver'
  BY <1>18 DEF Unloaded
<1>19. ASSUME NEW l \in Loops, Close(l) PROVE OneDriver'
  BY <1>19 DEF Close
<1>20. ASSUME NEW l \in Loops, Load(l) PROVE OneDriver'
  BY <1>20 DEF Load
<1>21. CASE UNCHANGED vars
  BY <1>21 DEF Prepared
<1>. QED
  BY <1>1, <1>2, <1>3, <1>4, <1>5, <1>6, <1>7, <1>8, <1>9, <1>10, <1>11, <1>12,
       <1>13, <1>14, <1>15, <1>16, <1>17, <1>18, <1>19, <1>20, <1>21
     DEF Next, Progress, Environment

\* A preparation is held between the load and the end of the rollback.
LEMMA KeptStep ==
  TypeOK /\ PlaceInv /\ NoPreparationKept /\ [Next]_vars => NoPreparationKept'
<1>. SUFFICES ASSUME TypeOK, PlaceInv, NoPreparationKept,
                     [Next]_vars
              PROVE  NoPreparationKept'
  OBVIOUS
<1>. USE DEF vars, starting, ending, registry, TypeOK, PlaceInv, NoPreparationKept
<1>1. ASSUME NEW s \in Starts, Configure(s) PROVE NoPreparationKept'
  BY <1>1 DEF Configure, BeginLoad
<1>2. ASSUME NEW s \in Starts, AbandonLoad(s) PROVE NoPreparationKept'
  BY <1>2 DEF AbandonLoad
<1>3. ASSUME NEW s \in Starts, Resumed(s) PROVE NoPreparationKept'
  BY <1>3 DEF Resumed, Release
<1>4. ASSUME NEW s \in Starts, RolledBack(s) PROVE NoPreparationKept'
  BY <1>4 DEF RolledBack, Release
<1>5. ASSUME NEW s \in Starts, Listed(s) PROVE NoPreparationKept'
  BY <1>5 DEF Listed
<1>6. ASSUME NEW s \in Starts, SetupFails(s) PROVE NoPreparationKept'
  BY <1>6 DEF SetupFails, Rollback
<1>7. ASSUME NEW s \in Starts, MachineIdle(s) PROVE NoPreparationKept'
  BY <1>7 DEF MachineIdle
<1>8. ASSUME NEW s \in Starts, Detach(s) PROVE NoPreparationKept'
  BY <1>8 DEF Detach
<1>9. ASSUME NEW s \in Starts, OwnerEffect(s) PROVE NoPreparationKept'
  BY <1>9 DEF OwnerEffect
<1>10. ASSUME NEW s \in Starts, ScopeUnload(s) PROVE NoPreparationKept'
  BY <1>10 DEF ScopeUnload
<1>11. ASSUME NEW s \in Starts, Resume(s) PROVE NoPreparationKept'
  BY <1>11 DEF Resume, BeginLoad
<1>12. ASSUME NEW s \in Starts, Create(s) PROVE NoPreparationKept'
  BY <1>12 DEF Create
<1>13. ASSUME NEW s \in Starts, LoadSettles(s) PROVE NoPreparationKept'
  BY <1>13 DEF LoadSettles
<1>14. ASSUME NEW s \in Starts, Publish(s) PROVE NoPreparationKept'
  BY <1>14 DEF Publish, Rollback, Release
<1>15. ASSUME NEW s \in Starts, CallerAborts(s) PROVE NoPreparationKept'
  BY <1>15 DEF CallerAborts
<1>16. ASSUME NEW s \in Starts, HandleDispose(s) PROVE NoPreparationKept'
  BY <1>16 DEF HandleDispose
<1>17. ASSUME NEW f \in Fibers, Unload(f) PROVE NoPreparationKept'
  BY <1>17 DEF Unload
<1>18. ASSUME NEW f \in Fibers, Unloaded(f) PROVE NoPreparationKept'
  BY <1>18 DEF Unloaded
<1>19. ASSUME NEW l \in Loops, Close(l) PROVE NoPreparationKept'
  BY <1>19 DEF Close
<1>20. ASSUME NEW l \in Loops, Load(l) PROVE NoPreparationKept'
  BY <1>20 DEF Load
<1>21. CASE UNCHANGED vars
  BY <1>21
<1>. QED
  BY <1>1, <1>2, <1>3, <1>4, <1>5, <1>6, <1>7, <1>8, <1>9, <1>10, <1>11, <1>12,
       <1>13, <1>14, <1>15, <1>16, <1>17, <1>18, <1>19, <1>20, <1>21
     DEF Next, Progress, Environment

\* What an unload waits for and what it tells is all there is.
LEMMA UnloadStep ==
  TypeOK /\ PlaceInv /\ FollowInv /\ RegistryInv /\ UnloadEndsStarts /\ [Next]_vars
    => UnloadEndsStarts'
<1>. SUFFICES ASSUME TypeOK, PlaceInv, FollowInv, RegistryInv, UnloadEndsStarts,
                     [Next]_vars
              PROVE  UnloadEndsStarts'
  OBVIOUS
<1>. USE DEF vars, starting, ending, registry, TypeOK, PlaceInv, FollowInv, RegistryInv,
       UnloadEndsStarts
<1>1. ASSUME NEW s \in Starts, Configure(s) PROVE UnloadEndsStarts'
  BY <1>1, StartsAssumption DEF Configure, BeginLoad, Settled, Prepared,
       StartsAssumption
<1>2. ASSUME NEW s \in Starts, AbandonLoad(s) PROVE UnloadEndsStarts'
  BY <1>2 DEF AbandonLoad, Settled, Prepared
<1>3. ASSUME NEW s \in Starts, Resumed(s) PROVE UnloadEndsStarts'
  BY <1>3, StartsAssumption DEF Resumed, Prepare, Failed, MayPrepare, Fibers, Settled,
       Prepared, StartsAssumption
<1>4. ASSUME NEW s \in Starts, RolledBack(s) PROVE UnloadEndsStarts'
  BY <1>4 DEF RolledBack, Settled, Prepared
<1>5. ASSUME NEW s \in Starts, Listed(s) PROVE UnloadEndsStarts'
  <2>1. pc[s] = "listing" /\ UNCHANGED <<closed, load>>
    BY <1>5 DEF Listed
  <2>2. CASE pc' = [pc EXCEPT ![s] = "failed"] /\ UNCHANGED <<fiber, ending, registry>>
    BY <2>1, <2>2 DEF Prepared, Settled, LoopActive
  <2>3. ASSUME MayPrepare(s), ~Prepared(s), Prepare(s), Enter(s), UNCHANGED byOwner
        PROVE  /\ pc' = [pc EXCEPT ![s] = "published"] /\ UNCHANGED <<stage, aborted>>
                 => UnloadEndsStarts'
               /\ pc' = [pc EXCEPT ![s] = "failed"] /\ Dispose({s}) => UnloadEndsStarts'
    <3>1. ASSUME pc' = [pc EXCEPT ![s] = "published"], UNCHANGED <<stage, aborted>>
          PROVE  UnloadEndsStarts'
      BY <2>1, <2>3, <3>1 DEF MayPrepare, Prepare, Enter, Prepared, Settled, LoopActive
    <3>2. ASSUME pc' = [pc EXCEPT ![s] = "failed"], Dispose({s})
          PROVE  UnloadEndsStarts'
      <4>1. /\ stage' = [stage EXCEPT ![s] = IF @ = "none" THEN "machine" ELSE @]
            /\ aborted' = [aborted EXCEPT ![s] = TRUE]
        BY <3>2, DisposeEffect
      <4>. QED
        BY <2>1, <2>3, <3>2, <4>1 DEF MayPrepare, Prepare, Enter, Prepared, Settled, LoopActive
    <3>. QED
      BY <3>1, <3>2
  <2>. QED
    BY <1>5, <2>2, <2>3 DEF Listed
<1>6. ASSUME NEW s \in Starts, SetupFails(s) PROVE UnloadEndsStarts'
  BY <1>6 DEF SetupFails, Rollback, Dispose, Settled, Prepared
<1>7. ASSUME NEW s \in Starts, MachineIdle(s) PROVE UnloadEndsStarts'
  BY <1>7 DEF MachineIdle, Settled, Prepared
<1>8. ASSUME NEW s \in Starts, Detach(s) PROVE UnloadEndsStarts'
  BY <1>8, StartsAssumption DEF Detach, Ids, Settled, Prepared, StartsAssumption
<1>9. ASSUME NEW s \in Starts, OwnerEffect(s) PROVE UnloadEndsStarts'
  BY <1>9 DEF OwnerEffect, Dispose, Settled, Prepared
<1>10. ASSUME NEW s \in Starts, ScopeUnload(s) PROVE UnloadEndsStarts'
  BY <1>10 DEF ScopeUnload, Settled, Prepared
<1>11. ASSUME NEW s \in Starts, Resume(s) PROVE UnloadEndsStarts'
  BY <1>11 DEF Resume, BeginLoad, MayPrepare, Settled, LoopActive, Prepared
<1>12. ASSUME NEW s \in Starts, Create(s) PROVE UnloadEndsStarts'
  BY <1>12, StartsAssumption DEF Create, Prepare, MayPrepare, Fibers, Settled,
       LoopActive, Prepared, StartsAssumption
<1>13. ASSUME NEW s \in Starts, LoadSettles(s) PROVE UnloadEndsStarts'
  BY <1>13 DEF LoadSettles, Settled, Prepared
<1>14. ASSUME NEW s \in Starts, Publish(s) PROVE UnloadEndsStarts'
  <2>1. /\ pc[s] = "setup" /\ ~aborted[s] /\ UNCHANGED <<fiber, closed, follow, byOwner>>
        /\ \/ /\ Enter(s) /\ Release(s) /\ UNCHANGED <<stage, aborted>>
              /\ pc' = [pc EXCEPT ![s] = "published"]
           \/ Enter(s) /\ Rollback(s)
           \/ Rollback(s) /\ UNCHANGED registry
    BY <1>14 DEF Publish
  <2>2. CASE /\ Enter(s) /\ Release(s) /\ UNCHANGED <<stage, aborted>>
             /\ pc' = [pc EXCEPT ![s] = "published"]
    BY <2>1, <2>2 DEF Enter, Release, Prepared, Settled, Ids
  <2>3. CASE Enter(s) /\ Rollback(s)
    <3>1. /\ stage' = [stage EXCEPT ![s] = IF @ = "none" THEN "machine" ELSE @]
          /\ aborted' = [aborted EXCEPT ![s] = TRUE]
      BY <2>3, DisposeEffect DEF Rollback
    <3>. QED
      BY <2>1, <2>3, <3>1 DEF Enter, Rollback, Prepared, Settled, Ids
  <2>4. CASE Rollback(s) /\ UNCHANGED registry
    <3>1. /\ stage' = [stage EXCEPT ![s] = IF @ = "none" THEN "machine" ELSE @]
          /\ aborted' = [aborted EXCEPT ![s] = TRUE]
      BY <2>4, DisposeEffect DEF Rollback
    <3>. QED
      BY <2>1, <2>4, <3>1 DEF Rollback, Prepared, Settled, Ids
  <2>. QED
    BY <2>1, <2>2, <2>3, <2>4
<1>15. ASSUME NEW s \in Starts, CallerAborts(s) PROVE UnloadEndsStarts'
  BY <1>15 DEF CallerAborts, Settled, Prepared
<1>16. ASSUME NEW s \in Starts, HandleDispose(s) PROVE UnloadEndsStarts'
  BY <1>16 DEF HandleDispose, Dispose, Settled, Prepared
<1>17. ASSUME NEW f \in Fibers, Unload(f) PROVE UnloadEndsStarts'
  BY <1>17 DEF Unload, Settled, Prepared
<1>18. ASSUME NEW f \in Fibers, Unloaded(f) PROVE UnloadEndsStarts'
  BY <1>18, StartsAssumption DEF Unloaded, Settled, LoopQuiet, Prepared,
       StartsAssumption
<1>19. ASSUME NEW l \in Loops, Close(l) PROVE UnloadEndsStarts'
  BY <1>19 DEF Close, Settled, Prepared
<1>20. ASSUME NEW l \in Loops, Load(l) PROVE UnloadEndsStarts'
  BY <1>20, StartsAssumption DEF Load, Settled, Prepared, StartsAssumption
<1>21. CASE UNCHANGED vars
  BY <1>21 DEF Prepared, Settled
<1>. QED
  BY <1>1, <1>2, <1>3, <1>4, <1>5, <1>6, <1>7, <1>8, <1>9, <1>10, <1>11, <1>12,
       <1>13, <1>14, <1>15, <1>16, <1>17, <1>18, <1>19, <1>20, <1>21
     DEF Next, Progress, Environment

-----------------------------------------------------------------------------
\* Before any factory is there, nothing is.
LEMMA InitInv ==
  Init => /\ TypeOK /\ PlaceInv /\ FollowInv /\ RegistryInv
          /\ OneDriver /\ NoPreparationKept /\ UnloadEndsStarts
<1>. SUFFICES ASSUME Init
              PROVE  /\ TypeOK /\ PlaceInv /\ FollowInv /\ RegistryInv
                     /\ OneDriver /\ NoPreparationKept /\ UnloadEndsStarts
  OBVIOUS
<1>1. TypeOK
  BY DEF Init, TypeOK, Prepared
<1>2. PlaceInv /\ FollowInv
  BY StartsAssumption
     DEF Init, PlaceInv, FollowInv, Prepared, Unstarted, Fibers, StartsAssumption
<1>3. RegistryInv
  BY StartsAssumption DEF Init, RegistryInv, Ids, StartsAssumption
<1>4. OneDriver /\ NoPreparationKept
  BY DEF Init, OneDriver, NoPreparationKept
<1>5. UnloadEndsStarts
  BY StartsAssumption DEF Init, UnloadEndsStarts, Fibers, StartsAssumption
<1>. QED
  BY <1>1, <1>2, <1>3, <1>4, <1>5

\* Every variable keeps its type, and only what was prepared is disposed of.
THEOREM TypeCorrect == Spec => []TypeOK
<1>1. TypeOK /\ PlaceInv /\ [Next]_vars => TypeOK' /\ PlaceInv'
  BY TypeStep, PlaceStep
<1>2. QED
  BY InitInv, <1>1, PTL DEF Spec

\* However many factories, owners and starts there are, an identity has one
\* agent whose machine may run, and it is the one in the registries.
THEOREM OneDriverAlways == Spec => []OneDriver
<1>1. TypeOK /\ PlaceInv /\ OneDriver /\ [Next]_vars => TypeOK' /\ PlaceInv' /\ OneDriver'
  BY TypeStep, PlaceStep, OneDriverStep
<1>2. QED
  BY InitInv, <1>1, PTL DEF Spec

\* A preparation taken over from the persistence backend is always released.
THEOREM PreparationsReleased == Spec => []NoPreparationKept
<1>1. TypeOK /\ PlaceInv /\ NoPreparationKept /\ [Next]_vars
        => TypeOK' /\ PlaceInv' /\ NoPreparationKept'
  BY TypeStep, PlaceStep, KeptStep
<1>2. QED
  BY InitInv, <1>1, PTL DEF Spec

\* After an unload has ended nothing of its owner is published, and of its
\* factory nothing is left, whoever raced it in tearing the agents down.
THEOREM UnloadsEndStarts == Spec => []UnloadEndsStarts
<1>1. /\ TypeOK /\ PlaceInv /\ FollowInv /\ RegistryInv /\ UnloadEndsStarts
      /\ [Next]_vars
      => /\ TypeOK' /\ PlaceInv' /\ FollowInv' /\ RegistryInv'
         /\ UnloadEndsStarts'
  BY TypeStep, PlaceStep, FollowStep, RegistryStep, UnloadStep
<1>2. QED
  BY InitInv, <1>1, PTL DEF Spec
=============================================================================
