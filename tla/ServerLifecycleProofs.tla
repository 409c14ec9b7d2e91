------------------------ MODULE ServerLifecycleProofs ------------------------
(***************************************************************************)
(* Proofs about the server's threads, for any number of workers, clients   *)
(* and spawn chunks.                                                       *)
(***************************************************************************)
EXTENDS ServerLifecycle, FiniteSetTheorems, TLAPS

-----------------------------------------------------------------------------
(* Types.                                                                  *)

LEMMA InitTypes == Init => TypeOK
<1> SUFFICES ASSUME Init PROVE TypeOK
  OBVIOUS
<1> USE LifecycleAssumption DEF Init, LifecycleAssumption
<1>1. ServerType /\ PoolType
  BY DEF ServerType, PoolType, MainLabels, Labels
<1>2. ClientType /\ SeedType
  <2>1. generatorSeed \in [Workers -> Seeds \cup {"none"}]
    OBVIOUS
  <2> QED BY <2>1 DEF ClientType, SeedType
<1>3. BoundType /\ QueueBounded /\ StartedByRun
  BY DEF BoundType, QueueBounded, StartedByRun
<1> QED BY <1>1, <1>2, <1>3 DEF TypeOK

(* Adding an entry keeps the types of the queue and of the wait set.        *)
LEMMA AddEntryTypes ==
  ASSUME PoolType, AddEntry
  PROVE  queue' = queue + 1 /\ asleep' \subseteq asleep
  BY DEF AddEntry, NotifyOne

LEMMA MainTypes ==
  ASSUME TypeOK, MainStep \/ AutoSave \/ PrepareForShutdown
  PROVE  TypeOK'
<1> USE DEF TypeOK, serverVars, poolVars, clientVars, seedVars, boundVars
<1>1. CASE AddWorldManager
  BY <1>1 DEF AddWorldManager, ServerType, PoolType, ClientType, SeedType, BoundType,
     QueueBounded, StartedByRun, MainLabels
<1>5. CASE SetSeed
  <2>1. seed' \in Seeds
    BY <1>5 DEF SetSeed, Seeds
  <2> QED
    BY <1>5, <2>1 DEF SetSeed, ServerType, PoolType, ClientType, SeedType, BoundType,
       QueueBounded, StartedByRun, MainLabels
<1>2. CASE Drained
  BY <1>2 DEF Drained, ServerType, PoolType, ClientType, SeedType, BoundType,
     QueueBounded, StartedByRun, MainLabels
<1>8. CASE SocketBootstrap
  BY <1>8 DEF SocketBootstrap, ServerType, PoolType, ClientType, SeedType, BoundType,
     QueueBounded, StartedByRun, MainLabels
<1>7. CASE LeaveLoop \/ KickClients \/ SaveAll
  BY <1>7 DEF LeaveLoop, KickClients, SaveAll, ServerType, PoolType, ClientType, SeedType,
     BoundType, QueueBounded, StartedByRun, MainLabels
<1>3. CASE QueueSpawnArea
  <2>1. CASE spawnLeft > 0 /\ spawnLeft' = spawnLeft - 1 /\ AddEntry /\ main' = main
    BY <1>3, <2>1, AddEntryTypes DEF QueueSpawnArea, ServerType, PoolType, ClientType, SeedType,
       BoundType, QueueBounded, StartedByRun
  <2>2. CASE main' = "drain" /\ UNCHANGED <<spawnLeft, asleep, queue>>
    BY <1>3, <2>2 DEF QueueSpawnArea, ServerType, PoolType, ClientType, SeedType, BoundType,
       QueueBounded, StartedByRun, MainLabels
  <2> QED BY <1>3, <2>1, <2>2 DEF QueueSpawnArea
<1>4. CASE CloseSocket \/ JoinAccepter \/ Exit
  BY <1>4 DEF CloseSocket, JoinAccepter, Exit, ServerType, PoolType, ClientType, SeedType,
     BoundType, QueueBounded, StartedByRun, MainLabels
<1>6. CASE AutoSave \/ PrepareForShutdown
  BY <1>6 DEF AutoSave, PrepareForShutdown, ServerType, PoolType, ClientType, SeedType,
     BoundType, QueueBounded, StartedByRun
<1> QED BY <1>1, <1>2, <1>3, <1>4, <1>5, <1>6, <1>7, <1>8 DEF MainStep

LEMMA ManagerTypes ==
  ASSUME TypeOK, ManagerStep
  PROVE  TypeOK'
<1> USE DEF TypeOK, serverVars, clientVars, seedVars, boundVars
<1>1. CASE StartWorkers
  <2>1. asleep = {}
    BY <1>1 DEF StartWorkers, StartedByRun, PoolType
  <2> QED
    BY <1>1, <2>1 DEF StartWorkers, ServerType, PoolType, ClientType, SeedType, BoundType,
       QueueBounded, StartedByRun, Labels
<1>2. CASE StopWorkers \/ JoinWorkers
  BY <1>2 DEF StopWorkers, JoinWorkers, ServerType, PoolType, ClientType, SeedType, BoundType,
     QueueBounded, StartedByRun
<1> QED BY <1>1, <1>2 DEF ManagerStep

LEMMA WorkerTypes ==
  ASSUME TypeOK, NEW w \in Workers, WorkerStep(w) \/ WakeSpuriously(w)
  PROVE  TypeOK'
<1> USE DEF TypeOK, serverVars, clientVars, seedVars, boundVars, Goto, Labels
<1>1. CASE CreateGenerator(w)
  BY <1>1 DEF CreateGenerator, ServerType, PoolType, ClientType, SeedType, BoundType,
     QueueBounded, StartedByRun
<1>2. CASE CheckAlive(w) \/ Return(w) \/ PrepareToSleep(w) \/ Finish(w)
  BY <1>2 DEF CheckAlive, Return, PrepareToSleep, Finish, Awake, ServerType, PoolType,
     ClientType, SeedType, BoundType, QueueBounded, StartedByRun
<1>3. CASE Take(w)
  <2>1. queue' = queue - 1 /\ queue - 1 \in Nat
    BY <1>3 DEF Take, PoolType
  <2>2. PoolType'
    BY <1>3, <2>1 DEF Take, Awake, PoolType
  <2>3. QueueBounded'
    <3>1. queue \in Int /\ spawnLeft \in Int /\ SpawnChunks \in Int /\ requests \in Int
      BY LifecycleAssumption DEF ServerType, PoolType, BoundType, LifecycleAssumption
    <3>2. spawnLeft' = spawnLeft /\ requests' = requests
      BY <1>3 DEF Take
    <3>3. queue + spawnLeft <= SpawnChunks + requests
      BY DEF QueueBounded
    <3> HIDE DEF TypeOK
    <3>4. (queue - 1) + spawnLeft <= SpawnChunks + requests
      BY <3>1, <3>3
    <3> QED BY <2>1, <3>2, <3>4 DEF QueueBounded
  <2>4. StartedByRun'
    BY <1>3 DEF Take, Awake, StartedByRun, PoolType
  <2> QED
    BY <1>3, <2>2, <2>3, <2>4 DEF Take, ServerType, ClientType, SeedType, BoundType
<1>4. CASE Sleep(w) \/ WakeSpuriously(w)
  BY <1>4, LifecycleAssumption DEF Sleep, WakeSpuriously, ServerType, PoolType, ClientType,
     SeedType, BoundType, QueueBounded, StartedByRun, LifecycleAssumption
<1>5. CASE Retry(w)
  <2>1. queue' = queue + 1 /\ asleep' \subseteq asleep
    BY <1>5, AddEntryTypes DEF Retry
  <2> QED
    BY <1>5, <2>1, LifecycleAssumption DEF Retry, ServerType, PoolType, ClientType, SeedType,
       BoundType, QueueBounded, StartedByRun, LifecycleAssumption
<1> QED BY <1>1, <1>2, <1>3, <1>4, <1>5 DEF WorkerStep

LEMMA ConnectionTypes ==
  ASSUME TypeOK,
         AcceptStep \/ \E c \in Clients : ClientLoop(c) \/ Receive(c) \/ Edit(c) \/ Request(c)
  PROVE  TypeOK'
<1> USE DEF TypeOK, serverVars, poolVars, seedVars, boundVars
<1>1. CASE AcceptFails
  BY <1>1 DEF AcceptFails, ServerType, PoolType, ClientType, SeedType, BoundType, QueueBounded,
     StartedByRun
<1>2. ASSUME NEW c \in Clients, Accept(c) \/ ClientLoop(c) \/ Receive(c) \/ Edit(c)
      PROVE  TypeOK'
  BY <1>2 DEF Accept, ClientLoop, Receive, Edit, ServerType, PoolType, ClientType, SeedType,
     BoundType, QueueBounded, StartedByRun
<1>3. ASSUME NEW c \in Clients, Request(c)
      PROVE  TypeOK'
  <2>1. queue' = queue + 1 /\ asleep' \subseteq asleep
    BY <1>3, AddEntryTypes DEF Request
  <2> QED
    BY <1>3, <2>1, LifecycleAssumption DEF Request, ServerType, PoolType, ClientType, SeedType,
       BoundType, QueueBounded, StartedByRun, LifecycleAssumption
<1> QED BY <1>1, <1>2, <1>3 DEF AcceptStep

(* Every variable keeps its type and the queue never holds more than was    *)
(* put in it (TypeOK).                                                      *)
THEOREM TypeCorrect == Spec => []TypeOK
<1>1. TypeOK /\ [Next]_vars => TypeOK'
  <2> SUFFICES ASSUME TypeOK, [Next]_vars PROVE TypeOK'
    OBVIOUS
  <2>1. CASE UNCHANGED vars
    BY <2>1 DEF vars, serverVars, poolVars, clientVars, seedVars, boundVars, TypeOK, ServerType,
       PoolType, ClientType, SeedType, BoundType, QueueBounded, StartedByRun
  <2> QED
    BY <2>1, MainTypes, ManagerTypes, WorkerTypes, ConnectionTypes DEF Next, Environment
<1> QED BY <1>1, InitTypes, PTL DEF Spec

-----------------------------------------------------------------------------
(* Waking and sleeping.                                                    *)

(* A worker about to sleep still holds the mutex under which it found the   *)
(* queue empty.                                                             *)
NoWorkForSleepy == \A w \in Workers : pc[w] = "blocking" => queue = 0

WakeInv == TypeOK /\ NoWorkForSleepy /\ NoSleepOnWork

LEMMA AsleepFinite ==
  ASSUME PoolType
  PROVE  /\ IsFiniteSet(asleep)
         /\ Cardinality(asleep) \in Nat
         /\ Cardinality(Workers) \in Nat
         /\ Cardinality(asleep) <= Cardinality(Workers)
<1>1. IsFiniteSet(Workers) /\ asleep \subseteq Workers
  BY LifecycleAssumption DEF PoolType, LifecycleAssumption
<1> QED BY <1>1, FS_Subset, FS_CardinalityType

(* An entry more is a sleeper less, or nobody sleeps.                       *)
LEMMA AddEntryWakes ==
  ASSUME WakeInv, AddEntry
  PROVE  NoSleepOnWork' /\ queue' = queue + 1
<1>1. PoolType
  BY DEF WakeInv, TypeOK
<1>2. queue' = queue + 1 /\ queue \in Nat
  BY <1>1 DEF AddEntry, PoolType
<1>3. CASE asleep' = {}
  BY <1>2, <1>3 DEF NoSleepOnWork
<1>4. ASSUME NEW w \in asleep, asleep' = asleep \ {w}
      PROVE  NoSleepOnWork'
  <2>1. Cardinality(asleep') = Cardinality(asleep) - 1
    BY <1>1, <1>4, AsleepFinite, FS_RemoveElement
  <2>2. queue + Cardinality(asleep) <= Cardinality(Workers)
    BY <1>4 DEF WakeInv, NoSleepOnWork
  <2>3. Cardinality(asleep) \in Int /\ Cardinality(Workers) \in Int
    BY <1>1, AsleepFinite
  <2>4. (queue + 1) + (Cardinality(asleep) - 1) <= Cardinality(Workers)
    BY <1>2, <2>2, <2>3
  <2> QED BY <1>2, <2>1, <2>4 DEF NoSleepOnWork
<1> QED BY <1>2, <1>3, <1>4 DEF AddEntry, NotifyOne

(* Nobody is about to sleep while an entry is added.                        *)
LEMMA AddEntryAwake ==
  ASSUME AddEntry
  PROVE  \A w \in Workers : pc[w] # "blocking"
  BY DEF AddEntry, MutexFree

LEMMA WakeStep == WakeInv /\ [Next]_vars => NoWorkForSleepy' /\ NoSleepOnWork'
<1> SUFFICES ASSUME WakeInv, [Next]_vars PROVE NoWorkForSleepy' /\ NoSleepOnWork'
  OBVIOUS
<1>0. PoolType
  BY DEF WakeInv, TypeOK
<1>1. CASE UNCHANGED <<asleep, queue>> /\ \A w \in Workers : pc'[w] = "blocking" => pc[w] = "blocking"
  BY <1>1 DEF WakeInv, NoWorkForSleepy, NoSleepOnWork
<1>2. CASE AddEntry /\ \A w \in Workers : pc'[w] = "blocking" => pc[w] = "blocking"
  BY <1>2, AddEntryWakes, AddEntryAwake DEF NoWorkForSleepy
<1>3. ASSUME NEW w \in Workers, Take(w)
      PROVE  NoWorkForSleepy' /\ NoSleepOnWork'
  <2>1. queue' = queue - 1 /\ queue \in Int /\ asleep' = asleep
    BY <1>0, <1>3 DEF Take, PoolType
  <2>2. \A u \in Workers : pc'[u] # "blocking"
    BY <1>0, <1>3 DEF Take, Awake, MutexFree, Goto, PoolType
  <2>3. Cardinality(asleep) \in Int /\ Cardinality(Workers) \in Int
    BY <1>0, AsleepFinite
  <2>4. asleep # {} => (queue - 1) + Cardinality(asleep) <= Cardinality(Workers)
    BY <2>1, <2>3 DEF WakeInv, NoSleepOnWork
  <2> QED BY <2>1, <2>2, <2>4 DEF NoWorkForSleepy, NoSleepOnWork
<1>4. ASSUME NEW w \in Workers, PrepareToSleep(w)
      PROVE  NoWorkForSleepy' /\ NoSleepOnWork'
  BY <1>4 DEF PrepareToSleep, WakeInv, NoWorkForSleepy, NoSleepOnWork
<1>5. ASSUME NEW w \in Workers, Sleep(w)
      PROVE  NoWorkForSleepy' /\ NoSleepOnWork'
  <2>1. queue' = 0 /\ asleep' \subseteq Workers
    BY <1>0, <1>5 DEF Sleep, WakeInv, NoWorkForSleepy, PoolType
  <2>2. Cardinality(asleep') <= Cardinality(Workers) /\ Cardinality(asleep') \in Int
    BY <2>1, LifecycleAssumption, FS_Subset, FS_CardinalityType DEF LifecycleAssumption
  <2> QED BY <2>1, <2>2 DEF NoWorkForSleepy, NoSleepOnWork
<1>6. ASSUME NEW w \in Workers, WakeSpuriously(w)
      PROVE  NoWorkForSleepy' /\ NoSleepOnWork'
  <2>1. asleep' = asleep \ {w} /\ w \in asleep /\ queue' = queue /\ pc' = pc
    BY <1>6 DEF WakeSpuriously
  <2>2. Cardinality(asleep') = Cardinality(asleep) - 1
    BY <1>0, <2>1, AsleepFinite, FS_RemoveElement
  <2>3. Cardinality(asleep) \in Int /\ Cardinality(Workers) \in Int /\ queue \in Int
    BY <1>0, AsleepFinite DEF PoolType
  <2>4. queue + Cardinality(asleep) <= Cardinality(Workers)
    BY <2>1 DEF WakeInv, NoSleepOnWork
  <2>5. queue + (Cardinality(asleep) - 1) <= Cardinality(Workers)
    BY <2>3, <2>4
  <2> QED BY <2>1, <2>2, <2>5 DEF WakeInv, NoWorkForSleepy, NoSleepOnWork
<1>7. CASE MainStep \/ PrepareForShutdown \/ AutoSave
  <2>1. pc' = pc /\ (AddEntry \/ UNCHANGED <<asleep, queue>>)
    BY <1>7 DEF MainStep, PrepareForShutdown, AutoSave, AddWorldManager, SetSeed, SocketBootstrap,
       QueueSpawnArea, Drained, LeaveLoop, KickClients, SaveAll, CloseSocket, JoinAccepter,
       Exit, poolVars
  <2> QED BY <1>1, <1>2, <2>1
<1>8. CASE ManagerStep
  <2>1. CASE StartWorkers \/ JoinWorkers
    <3>1. UNCHANGED <<asleep, queue>> /\ \A w \in Workers : pc'[w] = "blocking" => pc[w] = "blocking"
      BY <2>1 DEF StartWorkers, JoinWorkers
    <3> QED BY <1>1, <3>1
  <2>2. CASE StopWorkers
    BY <2>2 DEF StopWorkers, WakeInv, NoWorkForSleepy, NoSleepOnWork
  <2> QED BY <1>8, <2>1, <2>2 DEF ManagerStep
<1>9. ASSUME NEW w \in Workers, CreateGenerator(w) \/ CheckAlive(w) \/ Return(w) \/ Finish(w)
      PROVE  NoWorkForSleepy' /\ NoSleepOnWork'
  <2>1. UNCHANGED <<asleep, queue>> /\ \A u \in Workers : pc'[u] = "blocking" => pc[u] = "blocking"
    BY <1>0, <1>9 DEF CreateGenerator, CheckAlive, Return, Finish, Goto, PoolType
  <2> QED BY <1>1, <2>1
<1>10. ASSUME NEW w \in Workers, Retry(w)
       PROVE  NoWorkForSleepy' /\ NoSleepOnWork'
  <2>1. AddEntry /\ \A u \in Workers : pc'[u] = "blocking" => pc[u] = "blocking"
    BY <1>0, <1>10 DEF Retry, Goto, PoolType
  <2> QED BY <1>2, <2>1
<1>11. CASE AcceptStep \/ \E c \in Clients : ClientLoop(c) \/ Receive(c) \/ Edit(c) \/ Request(c)
  <2>1. pc' = pc /\ (AddEntry \/ UNCHANGED <<asleep, queue>>)
    BY <1>11 DEF AcceptStep, AcceptFails, Accept, ClientLoop, Receive, Edit, Request, poolVars
  <2> QED BY <1>1, <1>2, <2>1
<1>12. CASE UNCHANGED vars
  <2>1. UNCHANGED <<asleep, queue, pc>>
    BY <1>12 DEF vars, poolVars
  <2> QED BY <1>1, <2>1
<1> QED
  BY <1>3, <1>4, <1>5, <1>6, <1>7, <1>8, <1>9, <1>10, <1>11, <1>12
  DEF Next, WorkerStep, Environment

(* While a worker sleeps, the queue holds no more entries than there are    *)
(* workers awake (NoSleepOnWork): no wake-up for an entry is ever lost.      *)
THEOREM WakeUpsSuffice == Spec => []NoSleepOnWork
<1>1. Init => NoWorkForSleepy /\ NoSleepOnWork
  BY DEF Init, NoWorkForSleepy, NoSleepOnWork
<1>2. TypeOK /\ TypeOK' /\ NoWorkForSleepy /\ NoSleepOnWork /\ [Next]_vars
        => NoWorkForSleepy' /\ NoSleepOnWork'
  BY WakeStep DEF WakeInv
<1> QED BY <1>1, <1>2, TypeCorrect, PTL DEF Spec

-----------------------------------------------------------------------------
(* Exit.                                                                   *)

(* Whoever is past a join has waited for the threads it joins.              *)
Joined ==
  /\ manager = "done" => \A w \in Workers : pc[w] = "done"
  /\ main \in {"destroy", "exited"} => accepter = "done"
  /\ main = "exited" => manager = "done"

LEMMA JoinedStep == TypeOK /\ Joined /\ [Next]_vars => Joined'
<1> SUFFICES ASSUME TypeOK, Joined, [Next]_vars PROVE Joined'
  OBVIOUS
<1> USE DEF Joined
<1>1. CASE UNCHANGED <<manager, pc, main, accepter>>
  BY <1>1
<1>2. CASE AddWorldManager \/ SetSeed \/ SocketBootstrap \/ QueueSpawnArea \/ Drained
  BY <1>2 DEF AddWorldManager, SetSeed, SocketBootstrap, QueueSpawnArea, Drained, poolVars,
     clientVars
<1>3. CASE LeaveLoop \/ KickClients \/ SaveAll \/ CloseSocket \/ JoinAccepter \/ Exit
  BY <1>3 DEF LeaveLoop, KickClients, SaveAll, CloseSocket, JoinAccepter, Exit, poolVars,
     clientVars
<1>4. CASE ManagerStep
  BY <1>4 DEF ManagerStep, StartWorkers, StopWorkers, JoinWorkers, Running, serverVars,
     clientVars
<1>5. ASSUME NEW w \in Workers, WorkerStep(w)
      PROVE  Joined'
  <2>1. UNCHANGED <<manager, main, accepter>> /\ pc[w] # "done"
    BY <1>5 DEF WorkerStep, CreateGenerator, CheckAlive, Return, Take, PrepareToSleep, Sleep,
       Finish, Retry, Awake, serverVars, clientVars
  <2> QED BY <2>1
<1>6. ASSUME NEW w \in Workers, WakeSpuriously(w)
      PROVE  Joined'
  BY <1>6 DEF WakeSpuriously, serverVars, clientVars
<1>7. CASE AcceptStep
  BY <1>7 DEF AcceptStep, AcceptFails, Accept, Running, serverVars, poolVars
<1>8. CASE PrepareForShutdown \/ AutoSave \/ UNCHANGED vars
        \/ \E c \in Clients : ClientLoop(c) \/ Receive(c) \/ Edit(c) \/ Request(c)
  <2>1. UNCHANGED <<manager, pc, main, accepter>>
    BY <1>8 DEF PrepareForShutdown, AutoSave, vars, ClientLoop, Receive, Edit, Request,
       serverVars, poolVars, clientVars
  <2> QED BY <1>1, <2>1
<1> QED
  BY <1>2, <1>3, <1>4, <1>5, <1>6, <1>7, <1>8 DEF Next, MainStep, Environment

(* No worker and no accept loop is left when the process exits              *)
(* (NothingOutlivesServer).                                                 *)
THEOREM ThreadsJoined == Spec => []NothingOutlivesServer
<1>1. Init => Joined
  BY DEF Init, Joined
<1>2. Joined => NothingOutlivesServer
  BY DEF Joined, NothingOutlivesServer
<1> QED BY <1>1, <1>2, JoinedStep, TypeCorrect, PTL DEF Spec
=============================================================================
