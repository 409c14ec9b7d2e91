------------------------- MODULE WorldManagerProofs -------------------------
(***************************************************************************)
(* Proofs about the chunk pipeline, for any number of workers, clients,    *)
(* positions and attempts, and what holds with one worker only.            *)
(***************************************************************************)
EXTENDS WorldManager, FiniteSetTheorems, TLAPS

-----------------------------------------------------------------------------
(* Types.                                                                  *)

LEMMA AddChunkToQueueType ==
  ASSUME QueueType, NEW p \in Grid, NEW r \in SUBSET Clients, AddChunkToQueue(p, r)
  PROVE  QueueType'
  BY WorldManagerAssumption DEF QueueType, AddChunkToQueue, WorldManagerAssumption

(* Updating one entry of a table of objects keeps its type. *)
LEMMA UpdateType ==
  ASSUME NEW G, NEW N, NEW V, NEW f \in [G -> [N -> V]], NEW t, NEW n, NEW v \in V
  PROVE  [f EXCEPT ![t][n] = v] \in [G -> [N -> V]]
<1>1. ASSUME t \in G
      PROVE  [f[t] EXCEPT ![n] = v] \in [N -> V]
  <2>1. f[t] \in [N -> V]
    BY <1>1
  <2> QED BY <2>1
<1> QED BY <1>1

LEMMA SaveChunkType ==
  ASSUME WorldType, NEW p \in Grid, SaveChunk(p), UNCHANGED <<mem, made, state, runs>>
  PROVE  WorldType'
<1>1. CASE mem[p] # 0 /\ modified[p][mem[p]]
  <2>1. modified' \in [Grid -> [1..MaxObjects -> BOOLEAN]]
    <3>1. modified \in [Grid -> [1..MaxObjects -> BOOLEAN]]
      BY DEF WorldType
    <3>2. [modified EXCEPT ![p][mem[p]] = FALSE] \in [Grid -> [1..MaxObjects -> BOOLEAN]]
      BY <3>1, UpdateType, Zenon
    <3> QED BY <1>1, <3>2 DEF SaveChunk
  <2>2. file' \in [Grid -> -1..2]
    <3>1. mem[p] \in 1..MaxObjects
      BY <1>1, WorldManagerAssumption DEF WorldType, WorldManagerAssumption
    <3>2. runs[p] \in [1..MaxObjects -> 0..2]
      BY DEF WorldType
    <3>3. runs[p][mem[p]] \in 0..2
      BY <3>1, <3>2, Zenon
    <3>4. runs[p][mem[p]] \in -1..2
      BY <3>3
    <3> QED BY <1>1, <3>4 DEF WorldType, SaveChunk
  <2> QED BY <2>1, <2>2 DEF WorldType
<1>2. CASE ~(mem[p] # 0 /\ modified[p][mem[p]])
  BY <1>2 DEF WorldType, SaveChunk
<1> QED BY <1>1, <1>2

LEMMA AddChunkType ==
  ASSUME WorldType, NEW p \in Grid, NEW s \in States, NEW dirty \in BOOLEAN, NEW n \in 0..2,
         AddChunk(p, s, dirty, n), file' = file
  PROVE  WorldType' /\ made[p] + 1 \in 1..MaxObjects
<1> USE WorldManagerAssumption DEF WorldManagerAssumption
<1>1. made[p] + 1 \in 1..MaxObjects
  BY DEF WorldType, AddChunk
<1>2. mem' \in [Grid -> 0..MaxObjects] /\ made' \in [Grid -> 0..MaxObjects]
  BY <1>1 DEF WorldType, AddChunk
<1>3. state' \in [Grid -> [1..MaxObjects -> States]]
  BY UpdateType DEF WorldType, AddChunk
<1>4. modified' \in [Grid -> [1..MaxObjects -> BOOLEAN]]
  BY UpdateType DEF WorldType, AddChunk
<1>5. runs' \in [Grid -> [1..MaxObjects -> 0..2]]
  BY UpdateType DEF WorldType, AddChunk
<1> QED BY <1>1, <1>2, <1>3, <1>4, <1>5 DEF WorldType

LEMMA InitTypes == Init => TypeOK
<1> SUFFICES ASSUME Init
             PROVE  TypeOK
  OBVIOUS
<1> USE WorldManagerAssumption DEF Init, WorldManagerAssumption
<1>1. MainType /\ QueueType
  <2>1. spawnLeft \subseteq Grid /\ serving \in BOOLEAN
    BY Zenon
  <2>2. QueueType
    BY DEF QueueType
  <2> QED BY <2>1, <2>2 DEF MainType
<1>2. WorkerType
  BY DEF WorkerType, Labels
<1>3. WorldType
  BY DEF WorldType, States, NoFile
<1>4. ClientType
  BY DEF ClientType
<1>5. SaveType /\ BoundType /\ HistoryType
  BY DEF SaveType, BoundType, HistoryType
<1>6. JobsPlaced
  BY DEF JobsPlaced
<1> QED BY <1>1, <1>2, <1>3, <1>4, <1>5, <1>6 DEF TypeOK

LEMMA MainTypes ==
  ASSUME TypeOK, MainStep
  PROVE  TypeOK'
<1> USE DEF TypeOK
<1>1. ASSUME NEW p \in Grid, ForceGenerateChunk(p)
      PROVE  TypeOK'
  <2>1. QueueType'
    BY <1>1, AddChunkToQueueType DEF ForceGenerateChunk
  <2> QED
    BY <1>1, <2>1 DEF ForceGenerateChunk, workerVars, worldVars, objectVars, clientVars,
       saveVars, boundVars, historyVars, MainType, WorkerType, WorldType, ClientType,
       SaveType, BoundType, HistoryType, JobsPlaced
<1>2. CASE Serve
  BY <1>2 DEF Serve, queueVars, workerVars, worldVars, objectVars, clientVars, saveVars,
     boundVars, historyVars, MainType, QueueType, WorkerType, WorldType, ClientType,
     SaveType, BoundType, HistoryType, JobsPlaced
<1> QED BY <1>1, <1>2 DEF MainStep

LEMMA ClientTypes ==
  ASSUME TypeOK, NEW c \in Clients, NEW p,
         \/ p \in Grid /\ (Move(c, p) \/ Teleport(c, p) \/ ProcessChunk(c, p) \/ SelectChunk(c, p))
         \/ SendChunk(c) \/ Leave(c)
  PROVE  TypeOK'
<1> USE WorldManagerAssumption DEF TypeOK, WorldManagerAssumption
<1>1. CASE p \in Grid /\ Move(c, p)
  <2>1. ClientType' /\ BoundType'
    BY <1>1 DEF ClientType, BoundType, Move, DetermineVisibleChunks, Asks
  <2> QED
    BY <1>1, <2>1 DEF Move, mainVars, queueVars, workerVars, worldVars, objectVars, saveVars,
       historyVars, MainType, QueueType, WorkerType, WorldType, SaveType, HistoryType, JobsPlaced
<1>2. CASE p \in Grid /\ Teleport(c, p)
  <2>1. ClientType' /\ BoundType'
    BY <1>2 DEF ClientType, BoundType, Teleport, DetermineVisibleChunks, Asks
  <2> QED
    BY <1>2, <2>1 DEF Teleport, mainVars, queueVars, workerVars, worldVars, objectVars, saveVars,
       historyVars, MainType, QueueType, WorkerType, WorldType, SaveType, HistoryType, JobsPlaced
<1>3. CASE p \in Grid /\ ProcessChunk(c, p)
  <2>1. ClientType'
    BY <1>3 DEF ClientType, ProcessChunk
  <2>2. QueueType'
    BY <1>3, AddChunkToQueueType DEF QueueType, ProcessChunk, queueVars
  <2>3. HistoryType'
    BY <1>3 DEF HistoryType, ProcessChunk, historyVars
  <2> QED
    BY <1>3, <2>1, <2>2, <2>3 DEF ProcessChunk, mainVars, workerVars, worldVars, objectVars,
       saveVars, boundVars, MainType, WorkerType, WorldType, SaveType, BoundType, JobsPlaced
<1>4. CASE p \in Grid /\ SelectChunk(c, p)
  <2>1. ClientType'
    BY <1>4 DEF ClientType, SelectChunk
  <2> QED
    BY <1>4, <2>1 DEF SelectChunk, mainVars, queueVars, workerVars, worldVars, objectVars,
       saveVars, boundVars, historyVars, MainType, QueueType, WorkerType, WorldType, SaveType,
       BoundType, HistoryType, JobsPlaced
<1>5. CASE SendChunk(c)
  <2>1. ClientType'
    BY <1>5 DEF ClientType, SendChunk
  <2> QED
    BY <1>5, <2>1 DEF SendChunk, mainVars, queueVars, workerVars, worldVars, objectVars,
       saveVars, boundVars, historyVars, MainType, QueueType, WorkerType, WorldType, SaveType,
       BoundType, HistoryType, JobsPlaced
<1>6. CASE Leave(c)
  <2>1. ClientType' /\ BoundType'
    BY <1>6 DEF ClientType, BoundType, Leave
  <2> QED
    BY <1>6, <2>1 DEF Leave, mainVars, queueVars, workerVars, worldVars, objectVars, saveVars,
       historyVars, MainType, QueueType, WorkerType, WorldType, SaveType, HistoryType, JobsPlaced
<1> QED BY <1>1, <1>2, <1>3, <1>4, <1>5, <1>6

LEMMA SaveTypes ==
  ASSUME TypeOK, NEW p,
         \/ p \in Grid /\ (ScanChunk(p) \/ RemoveChunk(p) \/ SaveRemaining(p))
         \/ BeginSave \/ EndScan \/ EndRemove \/ EndSave
  PROVE  TypeOK'
<1> USE WorldManagerAssumption DEF TypeOK, WorldManagerAssumption
<1>1. CASE BeginSave \/ EndScan \/ EndRemove \/ EndSave
  <2>1. SaveType' /\ BoundType'
    BY <1>1 DEF SaveType, BoundType, BeginSave, EndScan, EndRemove, EndSave, Loaded, boundVars
  <2> QED
    BY <1>1, <2>1 DEF BeginSave, EndScan, EndRemove, EndSave, mainVars, queueVars, workerVars,
       worldVars, objectVars, clientVars, historyVars, MainType, QueueType, WorkerType,
       WorldType, ClientType, HistoryType, JobsPlaced
<1>2. CASE p \in Grid /\ (ScanChunk(p) \/ SaveRemaining(p))
  <2>1. SaveType'
    BY <1>2 DEF SaveType, ScanChunk, SaveRemaining
  <2>2. WorldType'
    BY <1>2, SaveChunkType DEF ScanChunk, SaveRemaining, WorldType
  <2>3. \A q \in Grid : file[q] # NoFile => file'[q] # NoFile
    <3>1. ASSUME p \in Grid, mem[p] # 0
          PROVE  runs[p][mem[p]] \in 0..2
      <4>1. mem[p] \in 1..MaxObjects
        BY <3>1 DEF WorldType
      <4>2. runs[p] \in [1..MaxObjects -> 0..2]
        BY <3>1 DEF WorldType
      <4> QED BY <4>1, <4>2, Zenon
    <3> QED BY <1>2, <3>1 DEF ScanChunk, SaveRemaining, SaveChunk, WorldType, NoFile
  <2>4. JobsPlaced'
    BY <1>2, <2>3 DEF ScanChunk, SaveRemaining, workerVars, JobsPlaced
  <2> QED
    BY <1>2, <2>1, <2>2, <2>4 DEF ScanChunk, SaveRemaining, mainVars, queueVars, workerVars,
       clientVars, boundVars, historyVars, MainType, QueueType, WorkerType, ClientType,
       BoundType, HistoryType
<1>3. CASE p \in Grid /\ RemoveChunk(p)
  <2>1. SaveType' /\ WorldType'
    BY <1>3 DEF SaveType, WorldType, RemoveChunk, objectVars
  <2> QED
    BY <1>3, <2>1 DEF RemoveChunk, mainVars, queueVars, workerVars, clientVars, boundVars,
       historyVars, MainType, QueueType, WorkerType, ClientType, BoundType, HistoryType,
       JobsPlaced
<1> QED BY <1>1, <1>2, <1>3

(* Leaving a job leaves the worker's variables well typed. *)
LEMMA ReleaseTypes ==
  ASSUME WorkerType, JobsPlaced, NEW w \in Workers, Release(w), try' = try, file' = file
  PROVE  WorkerType' /\ JobsPlaced'
<1> USE WorldManagerAssumption DEF Release, WorldManagerAssumption
<1>1. pc' \in [Workers -> Labels]
  BY DEF WorkerType, Goto, Labels
<1>2. job' \in [Workers -> Grid \cup {<<>>}]
  BY Zenon DEF WorkerType
<1>3. jobClients' \in [Workers -> SUBSET Clients] /\ jobAttempt' \in [Workers -> 0..MaxAttempts]
  BY DEF WorkerType
<1>4. held' \in [Workers -> 0..MaxObjects] /\ target' \in [Workers -> 0..MaxObjects]
  BY DEF WorkerType
<1>5. busyWorkers' \in Int /\ try' \in [Workers -> 1..4]
  BY DEF WorkerType
<1>6. WorkerType'
  BY <1>1, <1>2, <1>3, <1>4, <1>5 DEF WorkerType
<1>7. JobsPlaced'
  BY DEF JobsPlaced, Goto, WorkerType
<1> QED BY <1>6, <1>7

(* So does going on to the next tryPopulate call. *)
LEMMA NextTryTypes ==
  ASSUME WorkerType, JobsPlaced, NEW w \in Workers, pc[w] \in {"try", "populate"}, NextTry(w),
         UNCHANGED <<job, jobClients, jobAttempt, held, target, busyWorkers, file>>
  PROVE  WorkerType' /\ JobsPlaced'
<1>1. WorkerType'
  <2>1. pc' \in [Workers -> Labels]
    BY DEF WorkerType, NextTry, Goto, Labels
  <2>2. try' \in [Workers -> 1..4]
    <3>1. try \in [Workers -> 1..4]
      BY DEF WorkerType
    <3>2. (IF try[w] = 4 THEN 1 ELSE try[w] + 1) \in 1..4
      BY <3>1
    <3> QED BY <3>1, <3>2 DEF NextTry
  <2> QED BY <2>1, <2>2 DEF WorkerType
<1>2. JobsPlaced'
  BY DEF JobsPlaced, NextTry, Goto, WorkerType
<1> QED BY <1>1, <1>2

LEMMA WorkerTypes ==
  ASSUME TypeOK, NEW w \in Workers, WorkerStep(w)
  PROVE  TypeOK'
<1> USE WorldManagerAssumption DEF TypeOK, WorldManagerAssumption
<1>1. CASE Pop(w)
  <2>1. QueueType'
    BY <1>1 DEF Pop, QueueType
  <2>2. WorkerType'
    BY <1>1 DEF Pop, Goto, Labels, QueueType, WorkerType
  <2>3. JobsPlaced'
    BY <1>1 DEF Pop, Goto, JobsPlaced, QueueType, WorkerType, worldVars
  <2> QED
    BY <1>1, <2>1, <2>2, <2>3 DEF Pop, mainVars, worldVars, objectVars, clientVars, saveVars,
       boundVars, historyVars, MainType, WorldType, ClientType, SaveType, BoundType, HistoryType
<1>2. CASE LookUp(w)
  <2>1. job[w] \in Grid
    BY <1>2 DEF LookUp, Source, JobsPlaced
  <2>2. WorkerType' /\ JobsPlaced'
    <3>1. pc' = [pc EXCEPT ![w] = Source(job[w])] /\ UNCHANGED <<job, file>>
      BY <1>2 DEF LookUp, Goto, worldVars
    <3>2. Source(job[w]) \in Labels
      BY DEF Source, Labels
    <3>3. Source(job[w]) = "load" => file[job[w]] # NoFile
      BY DEF Source
    <3>4. held' \in [Workers -> 0..MaxObjects]
      BY <1>2, <2>1 DEF LookUp, WorkerType, WorldType
    <3>5. WorkerType'
      BY <1>2, <3>1, <3>2, <3>4 DEF LookUp, WorkerType
    <3>6. JobsPlaced'
      BY <2>1, <3>1, <3>3 DEF JobsPlaced, WorkerType
    <3> QED BY <3>5, <3>6
  <2> QED
    BY <1>2, <2>2 DEF LookUp, Source, mainVars, queueVars, worldVars, objectVars, clientVars, saveVars,
       boundVars, historyVars, MainType, QueueType, WorldType, ClientType, SaveType,
       BoundType, HistoryType
<1>3. CASE Load(w)
  <2>1. job[w] \in Grid
    BY <1>3 DEF Load, JobsPlaced
  <2>2. file[job[w]] \in 0..2
    BY <1>3, <2>1 DEF Load, JobsPlaced, WorldType, NoFile
  <2>3. WorldType' /\ made[job[w]] + 1 \in 1..MaxObjects
    <3>1. "Populated" \in States /\ FALSE \in BOOLEAN
      BY DEF States
    <3>2. AddChunk(job[w], "Populated", FALSE, file[job[w]]) /\ file' = file
      BY <1>3 DEF Load
    <3>3. WorldType
      OBVIOUS
    <3> HIDE DEF TypeOK, WorldManagerAssumption
    <3> QED BY <2>1, <2>2, <3>1, <3>2, <3>3, AddChunkType
  <2>4. WorkerType' /\ JobsPlaced'
    BY <1>3, <2>1, <2>3 DEF Load, Goto, Labels, WorkerType, JobsPlaced
  <2> QED
    BY <1>3, <2>3, <2>4 DEF Load, mainVars, queueVars, clientVars, saveVars, boundVars,
       historyVars, MainType, QueueType, ClientType, SaveType, BoundType, HistoryType
<1>4. CASE Generate(w)
  <2>1. job[w] \in Grid
    BY <1>4 DEF Generate, JobsPlaced
  <2>2. WorldType' /\ made[job[w]] + 1 \in 1..MaxObjects
    <3>1. "Generated" \in States /\ TRUE \in BOOLEAN /\ 0 \in 0..2
      BY DEF States
    <3>2. AddChunk(job[w], "Generated", TRUE, 0) /\ file' = file
      BY <1>4 DEF Generate
    <3>3. WorldType
      OBVIOUS
    <3> HIDE DEF TypeOK, WorldManagerAssumption
    <3> QED BY <2>1, <3>1, <3>2, <3>3, AddChunkType
  <2>3. WorkerType' /\ JobsPlaced'
    BY <1>4, <2>1, <2>2 DEF Generate, Goto, Labels, WorkerType, JobsPlaced
  <2> QED
    BY <1>4, <2>2, <2>3 DEF Generate, mainVars, queueVars, clientVars, saveVars, boundVars,
       historyVars, MainType, QueueType, ClientType, SaveType, BoundType, HistoryType
<1>5. CASE TryPopulate(w)
  <2> DEFINE t == TryTarget(job[w], try[w])
  <2>1. WorkerType' /\ JobsPlaced'
    <3>1. CASE target' = [target EXCEPT ![w] = mem[t]] /\ Goto(w, "begin") /\ try' = try
               /\ InMemory(t)
      BY <1>5, <3>1 DEF TryPopulate, Goto, Labels, WorkerType, WorldType, JobsPlaced,
         InMemory, worldVars
    <3>2. CASE NextTry(w) /\ target' = target
      BY <1>5, <3>2, NextTryTypes DEF TryPopulate, worldVars
    <3> QED BY <1>5, <3>1, <3>2 DEF TryPopulate, Wanted
  <2> QED
    BY <1>5, <2>1 DEF TryPopulate, mainVars, queueVars, worldVars, objectVars, clientVars,
       saveVars, boundVars, historyVars, MainType, QueueType, WorldType, ClientType, SaveType,
       BoundType, HistoryType
<1>6. CASE BeginPopulate(w)
  <2>1. WorldType'
    BY <1>6, UpdateType DEF BeginPopulate, WorldType, States
  <2>2. WorkerType' /\ JobsPlaced'
    BY <1>6 DEF BeginPopulate, Goto, Labels, WorkerType, JobsPlaced
  <2> QED
    BY <1>6, <2>1, <2>2 DEF BeginPopulate, mainVars, queueVars, clientVars, saveVars, boundVars,
       historyVars, MainType, QueueType, ClientType, SaveType, BoundType, HistoryType
<1>7. CASE EndPopulate(w)
  <2> DEFINE t == TryTarget(job[w], try[w])
  <2>1. WorldType'
    <3>1. runs' \in [Grid -> [1..MaxObjects -> 0..2]]
      <4>1. CASE InMemory(t)
        <5>1. mem[t] \in 1..MaxObjects /\ t \in Grid
          BY <4>1 DEF InMemory, WorldType
        <5>2. OneMore(runs[t][mem[t]]) \in 0..2
          <6>1. runs[t][mem[t]] \in 0..2
            BY <5>1 DEF WorldType
          <6>2. \A n \in 0..2 : OneMore(n) \in 0..2
            BY DEF OneMore
          <6> QED BY <6>1, <6>2, Zenon
        <5>3. [runs EXCEPT ![t][mem[t]] = OneMore(runs[t][mem[t]])]
                \in [Grid -> [1..MaxObjects -> 0..2]]
          BY <5>2, UpdateType DEF WorldType
        <5> QED BY <1>7, <4>1, <5>3 DEF EndPopulate
      <4>2. CASE ~InMemory(t)
        BY <1>7, <4>2 DEF EndPopulate, WorldType
      <4> QED BY <4>1, <4>2
    <3>2. modified' \in [Grid -> [1..MaxObjects -> BOOLEAN]]
      BY <1>7 DEF EndPopulate, WorldType
    <3>3. state' \in [Grid -> [1..MaxObjects -> States]]
      BY <1>7, UpdateType DEF EndPopulate, WorldType, States
    <3> QED BY <1>7, <3>1, <3>2, <3>3 DEF EndPopulate, WorldType
  <2>2. WorkerType' /\ JobsPlaced'
    BY <1>7, NextTryTypes DEF EndPopulate
  <2> QED
    BY <1>7, <2>1, <2>2 DEF EndPopulate, mainVars, queueVars, clientVars, saveVars, boundVars,
       historyVars, MainType, QueueType, ClientType, SaveType, BoundType, HistoryType
<1>8. CASE Retry(w)
  <2>1. job[w] \in Grid
    BY <1>8 DEF Retry, NextAttempt, JobsPlaced
  <2>2. WorkerType' /\ JobsPlaced'
    BY <1>8, ReleaseTypes DEF Retry, NextAttempt, worldVars
  <2>3. QueueType'
    <3>1. CASE queued' = queued \cup {job[w]} /\ jobAttempt[w] + 1 < MaxAttempts
      <4>1. jobAttempt[w] + 1 \in 0..MaxAttempts /\ jobClients[w] \in SUBSET Clients
        BY <3>1 DEF WorkerType
      <4>2. CASE UNCHANGED queueVars
        BY <4>2 DEF QueueType, queueVars
      <4>3. CASE /\ waiting' = [waiting EXCEPT ![job[w]] = jobClients[w]]
                 /\ attempt' = [attempt EXCEPT ![job[w]] = jobAttempt[w] + 1]
        BY <2>1, <3>1, <4>1, <4>3 DEF QueueType
      <4> QED BY <1>8, <4>2, <4>3 DEF Retry, NextAttempt
    <3>2. CASE UNCHANGED queueVars
      BY <3>2 DEF QueueType, queueVars
    <3> QED BY <1>8, <3>1, <3>2 DEF Retry, NextAttempt
  <2>4. HistoryType'
    BY <1>8, <2>1 DEF Retry, NextAttempt, HistoryType, WorkerType
  <2> QED
    BY <1>8, <2>2, <2>3, <2>4 DEF Retry, NextAttempt, mainVars, worldVars, objectVars, clientVars, saveVars,
       boundVars, MainType, WorldType, ClientType, SaveType, BoundType
<1>9. CASE Deliver(w)
  <2>1. job[w] \in Grid
    BY <1>9 DEF Deliver, JobsPlaced
  <2>2. WorkerType' /\ JobsPlaced'
    BY <1>9, ReleaseTypes DEF Deliver, worldVars
  <2>3. ClientType'
    BY <1>9, <2>1 DEF Deliver, ClientType
  <2>4. HistoryType'
    BY <1>9, <2>1 DEF Deliver, HistoryType
  <2> QED
    BY <1>9, <2>2, <2>3, <2>4 DEF Deliver, mainVars, queueVars, worldVars, objectVars, saveVars,
       boundVars, MainType, QueueType, WorldType, SaveType, BoundType
<1> QED BY <1>1, <1>2, <1>3, <1>4, <1>5, <1>6, <1>7, <1>8, <1>9 DEF WorkerStep

LEMMA StutterTypes ==
  ASSUME TypeOK, UNCHANGED vars
  PROVE  TypeOK'
  BY DEF TypeOK, vars, mainVars, queueVars, workerVars, worldVars, objectVars, clientVars,
     saveVars, boundVars, historyVars, MainType, QueueType, WorkerType, WorldType, ClientType,
     SaveType, BoundType, HistoryType, JobsPlaced

(* Every variable of the pipeline keeps its type, a busy worker has a job,  *)
(* and a worker that goes to load a chunk finds its file.                   *)
THEOREM TypeCorrect == Spec => []TypeOK
<1>1. TypeOK /\ [Next]_vars => TypeOK'
  <2> SUFFICES ASSUME TypeOK, [Next]_vars
               PROVE  TypeOK'
    OBVIOUS
  <2>1. CASE MainStep
    BY <2>1, MainTypes
  <2>2. CASE SaveStep \/ BeginSave
    <3>1. CASE \E p \in Grid : ScanChunk(p) \/ RemoveChunk(p) \/ SaveRemaining(p)
      BY <3>1, SaveTypes
    <3>2. CASE EndScan \/ EndRemove \/ EndSave \/ BeginSave
      BY <3>2, SaveTypes
    <3> QED BY <2>2, <3>1, <3>2 DEF SaveStep
  <2>3. CASE \E w \in Workers : WorkerStep(w)
    BY <2>3, WorkerTypes
  <2>4. CASE \E c \in Clients : ClientStep(c) \/ Leave(c)
    BY <2>4, ClientTypes DEF ClientStep
  <2>5. CASE \E c \in Clients, p \in Grid : Move(c, p) \/ Teleport(c, p)
    BY <2>5, ClientTypes
  <2>6. CASE UNCHANGED vars
    BY <2>6, StutterTypes
  <2> QED BY <2>1, <2>2, <2>3, <2>4, <2>5, <2>6 DEF Next, Environment
<1>2. QED
  BY <1>1, InitTypes, PTL DEF Spec

-----------------------------------------------------------------------------
(* busyWorkers.                                                            *)

LEMMA BusyFinite == IsFiniteSet(Busy) /\ Cardinality(Busy) \in Nat
  BY WorldManagerAssumption, FS_Subset, FS_CardinalityType DEF Busy, WorldManagerAssumption

(* A worker that takes a job is one more, one that leaves it one less.      *)
LEMMA BusyCount ==
  ASSUME WorkerType, NEW w \in Workers, NEW label, Goto(w, label)
  PROVE  /\ pc[w] = "wait" /\ label # "wait" => Cardinality(Busy') = Cardinality(Busy) + 1
         /\ pc[w] # "wait" /\ label = "wait" => Cardinality(Busy') = Cardinality(Busy) - 1
         /\ pc[w] # "wait" /\ label # "wait" => Busy' = Busy
<1>1. /\ pc[w] = "wait" /\ label # "wait" => Busy' = Busy \cup {w} /\ w \notin Busy
      /\ pc[w] # "wait" /\ label = "wait" => Busy' = Busy \ {w} /\ w \in Busy
      /\ pc[w] # "wait" /\ label # "wait" => Busy' = Busy
  BY DEF Busy, Goto, WorkerType
<1>2. ASSUME pc[w] = "wait", label # "wait"
      PROVE  Cardinality(Busy') = Cardinality(Busy) + 1
  BY <1>1, <1>2, BusyFinite, FS_AddElement
<1>3. ASSUME pc[w] # "wait", label = "wait"
      PROVE  Cardinality(Busy') = Cardinality(Busy) - 1
  BY <1>1, <1>3, BusyFinite, FS_RemoveElement
<1> QED BY <1>1, <1>2, <1>3

(* The steps inside a job do not end it.                                    *)
LEMMA JobStep ==
  ASSUME NEW w,
         LookUp(w) \/ Load(w) \/ Generate(w) \/ TryPopulate(w) \/ BeginPopulate(w) \/ EndPopulate(w)
  PROVE  \E label : Goto(w, label) /\ label # "wait"
<1>1. CASE LookUp(w)
  <2> DEFINE label == IF mem[job[w]] # 0 THEN "check"
                      ELSE IF file[job[w]] # NoFile THEN "load" ELSE "generate"
  <2>1. label # "wait"
    OBVIOUS
  <2>2. Goto(w, label)
    BY <1>1 DEF LookUp, Source
  <2> QED BY <2>1, <2>2
<1>2. CASE Load(w) \/ Generate(w) \/ BeginPopulate(w)
  <2>1. Goto(w, "check") \/ Goto(w, "try") \/ Goto(w, "populate")
    BY <1>2 DEF Load, Generate, BeginPopulate
  <2>2. "check" # "wait" /\ "try" # "wait" /\ "populate" # "wait"
    OBVIOUS
  <2> QED BY <2>1, <2>2
<1>3. CASE NextTry(w)
  <2> DEFINE label == IF try[w] = 4 THEN "check" ELSE "try"
  <2>1. label # "wait"
    OBVIOUS
  <2>2. Goto(w, label)
    BY <1>3 DEF NextTry
  <2> QED BY <2>1, <2>2
<1>4. CASE TryPopulate(w) \/ EndPopulate(w)
  <2>1. Goto(w, "begin") \/ NextTry(w)
    BY <1>4 DEF TryPopulate, EndPopulate
  <2>2. "begin" # "wait"
    OBVIOUS
  <2> QED BY <1>3, <2>1, <2>2
<1> QED BY <1>1, <1>2, <1>4

LEMMA BusyWorkerStep ==
  ASSUME TypeOK, BusyWorkersExact, NEW w \in Workers, WorkerStep(w)
  PROVE  BusyWorkersExact'
<1> USE DEF BusyWorkersExact
<1>0. WorkerType
  BY DEF TypeOK
<1>1. CASE Pop(w)
  BY <1>0, <1>1, BusyCount DEF Pop
<1>2. CASE Retry(w) \/ Deliver(w)
  <2>1. pc[w] # "wait" /\ Release(w)
    BY <1>2 DEF Retry, NextAttempt, Deliver
  <2> QED BY <1>0, <2>1, BusyCount, BusyFinite DEF Release
<1>3. ASSUME NEW label, Goto(w, label), pc[w] # "wait", label # "wait", busyWorkers' = busyWorkers
      PROVE  BusyWorkersExact'
  BY <1>0, <1>3, BusyCount
<1>4. CASE LookUp(w) \/ Load(w) \/ Generate(w) \/ TryPopulate(w) \/ BeginPopulate(w) \/ EndPopulate(w)
  <2>1. pc[w] # "wait" /\ busyWorkers' = busyWorkers
    BY <1>4 DEF LookUp, Source, Load, Generate, TryPopulate, BeginPopulate, EndPopulate
  <2>2. PICK label : Goto(w, label) /\ label # "wait"
    BY <1>4, JobStep
  <2> QED BY <1>3, <2>1, <2>2
<1> QED BY <1>1, <1>2, <1>4 DEF WorkerStep

(* Only the workers' steps touch pc and busyWorkers.                        *)
LEMMA OtherSteps ==
  ASSUME [Next]_vars, ~\E w \in Workers : WorkerStep(w)
  PROVE  UNCHANGED <<pc, job, jobClients, busyWorkers>>
<1>1. CASE MainStep
  BY <1>1 DEF MainStep, ForceGenerateChunk, Serve, workerVars
<1>2. CASE SaveStep
  BY <1>2 DEF SaveStep, ScanChunk, RemoveChunk, SaveRemaining, EndScan, EndRemove, EndSave, workerVars
<1>3. CASE \E c \in Clients : ClientStep(c)
  BY <1>3 DEF ClientStep, ProcessChunk, SelectChunk, SendChunk, workerVars
<1>4. CASE Environment
  BY <1>4 DEF Environment, Move, Teleport, Leave, BeginSave, workerVars
<1>5. CASE UNCHANGED vars
  BY <1>5 DEF vars, workerVars
<1> QED BY <1>1, <1>2, <1>3, <1>4, <1>5 DEF Next

(* The number of busy workers that the usage report reads is exact.         *)
THEOREM BusyWorkersCorrect == Spec => []BusyWorkersExact
<1>1. Init => BusyWorkersExact
  <2> SUFFICES ASSUME Init
               PROVE  BusyWorkersExact
    OBVIOUS
  <2>1. Busy = {}
    BY DEF Init, Busy
  <2> QED BY <2>1, FS_EmptySet DEF Init, BusyWorkersExact
<1>2. TypeOK /\ BusyWorkersExact /\ [Next]_vars => BusyWorkersExact'
  <2> SUFFICES ASSUME TypeOK, BusyWorkersExact, [Next]_vars
               PROVE  BusyWorkersExact'
    OBVIOUS
  <2>1. CASE \E w \in Workers : WorkerStep(w)
    BY <2>1, BusyWorkerStep
  <2>2. CASE ~\E w \in Workers : WorkerStep(w)
    BY <2>2, OtherSteps DEF BusyWorkersExact, Busy
  <2> QED BY <2>1, <2>2
<1>3. QED
  BY <1>1, <1>2, TypeCorrect, PTL DEF Spec

-----------------------------------------------------------------------------
(* Requests.                                                               *)

Held(p, c)    == \E w \in Workers : pc[w] # "wait" /\ job[w] = p /\ c \in jobClients[w]
Pending(p, c) == c \in waiting[p] /\ p \in queued
GivenUp(p, c) == c \in exhausted[p] \cup overtaken[p]

LEMMA AccountedBy ==
  RequestAccounted <=> \A p \in Grid : \A c \in asked[p] : Pending(p, c) \/ Held(p, c) \/ GivenUp(p, c)
  BY DEF RequestAccounted, Pending, Held, GivenUp

(* A queue operation loses nobody that waits.                               *)
LEMMA QueueKeeps ==
  ASSUME QueueType, NEW p \in Grid, NEW r, AddChunkToQueue(p, r)
  PROVE  /\ \A q \in Grid : \A c : Pending(q, c) => Pending(q, c)'
         /\ \A c \in r : Pending(p, c)'
  BY DEF QueueType, AddChunkToQueue, Pending

LEMMA AccountedWorkerStep ==
  ASSUME TypeOK, RequestAccounted, NEW w \in Workers, WorkerStep(w)
  PROVE  RequestAccounted'
<1> SUFFICES ASSUME NEW p \in Grid, NEW c \in asked'[p]
             PROVE  Pending(p, c)' \/ Held(p, c)' \/ GivenUp(p, c)'
  BY AccountedBy DEF RequestAccounted, Pending, Held, GivenUp
<1>0. QueueType /\ WorkerType /\ HistoryType
  BY DEF TypeOK
<1>1. CASE Pop(w)
  <2>1. c \in asked[p]
    BY <1>1 DEF Pop, historyVars
  <2>2. PICK q \in queued : /\ queued' = queued \ {q}
                            /\ job' = [job EXCEPT ![w] = q]
                            /\ jobClients' = [jobClients EXCEPT ![w] = waiting[q]]
                            /\ waiting' = [waiting EXCEPT ![q] = {}]
    BY <1>1 DEF Pop
  <2>3. pc[w] = "wait" /\ pc' = [pc EXCEPT ![w] = "lookup"]
    BY <1>1 DEF Pop, Goto
  <2>4. CASE Pending(p, c)
    BY <1>0, <2>2, <2>3, <2>4 DEF Pending, Held, WorkerType, QueueType
  <2>5. CASE Held(p, c)
    <3>1. Held(p, c)'
      BY <1>0, <2>2, <2>3, <2>5 DEF Held, WorkerType
    <3> QED BY <3>1
  <2>6. CASE GivenUp(p, c)
    BY <1>1, <2>6 DEF GivenUp, Pop, historyVars
  <2> QED BY <2>1, <2>4, <2>5, <2>6, AccountedBy
<1>2. CASE Retry(w)
  <2>1. c \in asked[p]
    BY <1>2 DEF Retry, NextAttempt
  <2>2. job[w] \in Grid
    BY <1>2 DEF Retry, NextAttempt, TypeOK, JobsPlaced
  <2>3. CASE Pending(p, c)
    BY <1>0, <1>2, <2>2, <2>3 DEF Retry, NextAttempt, Pending, QueueType, queueVars
  <2>4. CASE GivenUp(p, c)
    BY <1>0, <1>2, <2>2, <2>4 DEF Retry, NextAttempt, GivenUp, HistoryType
  <2>5. ASSUME NEW v \in Workers, pc[v] # "wait", job[v] = p, c \in jobClients[v], v # w
        PROVE  Held(p, c)'
    BY <1>0, <1>2, <2>5 DEF Retry, NextAttempt, Release, Goto, Held, WorkerType
  <2>6. ASSUME job[w] = p, c \in jobClients[w]
        PROVE  Pending(p, c)' \/ GivenUp(p, c)'
    BY <1>0, <1>2, <2>6 DEF Retry, NextAttempt, Pending, GivenUp, QueueType, HistoryType
  <2> QED BY <2>1, <2>3, <2>4, <2>5, <2>6, AccountedBy DEF Held
<1>3. CASE Deliver(w)
  <2>2. job[w] \in Grid
    BY <1>3 DEF Deliver, TypeOK, JobsPlaced
  <2>1. c \in asked[p] /\ (p = job[w] => c \notin jobClients[w])
    BY <1>0, <1>3, <2>2 DEF Deliver, HistoryType
  <2>3. Pending(p, c) => Pending(p, c)'
    BY <1>3 DEF Deliver, Pending, queueVars
  <2>4. GivenUp(p, c) => GivenUp(p, c)'
    BY <1>3 DEF Deliver, GivenUp
  <2>5. ASSUME NEW v \in Workers, pc[v] # "wait", job[v] = p, c \in jobClients[v]
        PROVE  Held(p, c)'
    <3>1. v # w
      BY <2>1, <2>5
    <3> QED BY <1>0, <1>3, <2>5, <3>1 DEF Deliver, Release, Goto, Held, WorkerType
  <2> QED BY <2>1, <2>3, <2>4, <2>5, AccountedBy DEF Held
<1>4. CASE LookUp(w) \/ Load(w) \/ Generate(w) \/ TryPopulate(w) \/ BeginPopulate(w) \/ EndPopulate(w)
  <2>1. UNCHANGED <<queueVars, historyVars, job, jobClients>> /\ pc[w] # "wait"
    BY <1>4 DEF LookUp, Source, Load, Generate, TryPopulate, BeginPopulate, EndPopulate
  <2>2. PICK label : Goto(w, label) /\ label # "wait"
    BY <1>4, JobStep
  <2>3. Held(p, c) => Held(p, c)'
    BY <1>0, <2>1, <2>2 DEF Held, Goto, WorkerType
  <2> QED BY <2>1, <2>3, AccountedBy DEF Pending, GivenUp, queueVars, historyVars
<1> QED BY <1>1, <1>2, <1>3, <1>4 DEF WorkerStep

LEMMA AccountedOtherStep ==
  ASSUME TypeOK, RequestAccounted, [Next]_vars, ~\E w \in Workers : WorkerStep(w)
  PROVE  RequestAccounted'
<1> SUFFICES ASSUME NEW p \in Grid, NEW c \in asked'[p]
             PROVE  Pending(p, c)' \/ Held(p, c)' \/ GivenUp(p, c)'
  BY AccountedBy DEF RequestAccounted, Pending, Held, GivenUp
<1>0. QueueType /\ HistoryType
  BY DEF TypeOK
<1>1. Held(p, c) => Held(p, c)'
  BY OtherSteps DEF Held
<1>2. ASSUME NEW q \in Grid, ForceGenerateChunk(q)
      PROVE  Pending(p, c)' \/ Held(p, c)' \/ GivenUp(p, c)'
  BY <1>0, <1>1, <1>2, QueueKeeps, AccountedBy DEF ForceGenerateChunk, GivenUp, historyVars
<1>3. ASSUME NEW d \in Clients, NEW q \in Grid, ProcessChunk(d, q)
      PROVE  Pending(p, c)' \/ Held(p, c)' \/ GivenUp(p, c)'
  <2>1. CASE UNCHANGED <<queueVars, historyVars>>
    BY <1>1, <2>1, AccountedBy DEF Pending, GivenUp, queueVars, historyVars
  <2>2. CASE /\ AddChunkToQueue(q, {d})
             /\ asked' = [asked EXCEPT ![q] = @ \cup {d}]
             /\ exhausted' = [exhausted EXCEPT ![q] = @ \ {d}]
             /\ overtaken' = [overtaken EXCEPT ![q] = @ \ {d}]
    <3>1. CASE p = q /\ c = d
      BY <1>0, <2>2, <3>1, QueueKeeps
    <3>2. CASE ~(p = q /\ c = d)
      <4>1. c \in asked[p]
        BY <1>0, <2>2, <3>2 DEF HistoryType
      <4>2. GivenUp(p, c) => GivenUp(p, c)'
        BY <1>0, <2>2, <3>2 DEF HistoryType, GivenUp
      <4> QED BY <1>0, <1>1, <2>2, <4>1, <4>2, QueueKeeps, AccountedBy
    <3> QED BY <3>1, <3>2
  <2>3. CASE /\ asked' = [asked EXCEPT ![q] = @ \ {d}]
             /\ UNCHANGED <<queueVars, exhausted, overtaken>>
    <3>1. c \in asked[p]
      BY <1>0, <2>3 DEF HistoryType
    <3> QED BY <1>1, <2>3, <3>1, AccountedBy DEF Pending, GivenUp, queueVars
  <2> QED BY <1>3, <2>1, <2>2, <2>3 DEF ProcessChunk, historyVars
<1>4. CASE UNCHANGED <<queueVars, historyVars>>
  BY <1>1, <1>4, AccountedBy DEF Pending, GivenUp, queueVars, historyVars
<1>5. CASE Serve \/ SaveStep \/ Environment \/ UNCHANGED vars
  <2>1. UNCHANGED <<queueVars, historyVars>>
    BY <1>5 DEF Serve, SaveStep, ScanChunk, RemoveChunk, SaveRemaining, EndScan, EndRemove,
       EndSave, Environment, Move, Teleport, Leave, BeginSave, vars
  <2> QED BY <1>4, <2>1
<1>6. ASSUME NEW d \in Clients, NEW q, SelectChunk(d, q) \/ SendChunk(d)
      PROVE  UNCHANGED <<queueVars, historyVars>>
  BY <1>6 DEF SelectChunk, SendChunk
<1> QED BY <1>2, <1>3, <1>4, <1>5, <1>6 DEF Next, MainStep, ClientStep

(* No request is silently forgotten.                                        *)
THEOREM RequestsAccounted == Spec => []RequestAccounted
<1>1. Init => RequestAccounted
  BY DEF Init, RequestAccounted
<1>2. TypeOK /\ RequestAccounted /\ [Next]_vars => RequestAccounted'
  BY AccountedWorkerStep, AccountedOtherStep
<1>3. QED
  BY <1>1, <1>2, TypeCorrect, PTL DEF Spec

-----------------------------------------------------------------------------
(* The disk.                                                               *)

(* While FreeUnseenChunks scans, nothing leaves the map.                    *)
ScanLoaded == savePc = "scan" => \A p \in toScan : mem[p] # 0
DiskInv == CleanHasFile /\ ScanLoaded

LEMMA RunsType ==
  ASSUME WorldType, NEW p \in Grid, mem[p] # 0
  PROVE  mem[p] \in 1..MaxObjects /\ runs[p][mem[p]] \in 0..2
<1>1. mem[p] \in 1..MaxObjects
  BY WorldManagerAssumption DEF WorldType, WorldManagerAssumption
<1>2. runs[p] \in [1..MaxObjects -> 0..2]
  BY DEF WorldType
<1> QED BY <1>1, <1>2, Zenon

(* A chunk just saved is on disk and clean, the others are as they were.    *)
LEMMA SavedHasFile ==
  ASSUME WorldType, CleanHasFile, NEW p \in Grid, mem[p] # 0, SaveChunk(p),
         mem' = mem, NEW q \in Grid
  PROVE  /\ file[q] # NoFile => file'[q] # NoFile
         /\ mem'[q] # 0 /\ ~modified'[q][mem'[q]] => file'[q] # NoFile
         /\ file'[p] # NoFile
<1>1. CASE modified[p][mem[p]]
  <2>1. file' = [file EXCEPT ![p] = runs[p][mem[p]]] /\ runs[p][mem[p]] # NoFile
    BY <1>1, RunsType DEF SaveChunk, NoFile
  <2>2. q # p => modified'[q] = modified[q]
    BY <1>1 DEF SaveChunk, WorldType
  <2> QED BY <2>1, <2>2 DEF CleanHasFile, InMemory, WorldType
<1>2. CASE ~modified[p][mem[p]]
  BY <1>2 DEF SaveChunk, CleanHasFile, InMemory
<1> QED BY <1>1, <1>2

LEMMA AddChunkClean ==
  ASSUME WorldType, DiskInv, NEW p \in Grid, NEW s, NEW dirty \in BOOLEAN, NEW n,
         AddChunk(p, s, dirty, n), UNCHANGED <<file, saveVars>>,
         dirty \/ file[p] # NoFile
  PROVE  DiskInv'
<1>1. made[p] + 1 \in 1..MaxObjects
  BY WorldManagerAssumption DEF WorldType, AddChunk, WorldManagerAssumption
<1>2. mem' = [mem EXCEPT ![p] = made[p] + 1]
      /\ modified' = [modified EXCEPT ![p][made[p] + 1] = dirty]
  BY DEF AddChunk
<1>3. modified'[p][mem'[p]] = dirty
  <2>1. modified[p] \in [1..MaxObjects -> BOOLEAN]
    BY DEF WorldType
  <2>2. modified'[p] = [modified[p] EXCEPT ![made[p] + 1] = dirty]
    BY <1>2 DEF WorldType
  <2>3. mem'[p] = made[p] + 1
    BY <1>2 DEF WorldType
  <2> QED BY <1>1, <2>1, <2>2, <2>3, Zenon
<1>4. \A q \in Grid : q # p => mem'[q] = mem[q] /\ modified'[q] = modified[q]
  BY <1>2 DEF WorldType
<1>5. CleanHasFile'
  <2> SUFFICES ASSUME NEW q \in Grid
               PROVE  /\ mem'[q] # 0 /\ ~modified'[q][mem'[q]] => file[q] # NoFile
                      /\ q \in unseen => file[q] # NoFile
    BY DEF CleanHasFile, InMemory, saveVars
  <2>1. CASE q = p
    BY <1>3, <2>1 DEF DiskInv, CleanHasFile
  <2>2. CASE q # p
    BY <1>4, <2>2 DEF DiskInv, CleanHasFile, InMemory
  <2> QED BY <2>1, <2>2
<1>6. ScanLoaded'
  BY <1>1, <1>2 DEF DiskInv, ScanLoaded, WorldType, saveVars
<1> QED BY <1>5, <1>6 DEF DiskInv

LEMMA DiskSaveStep ==
  ASSUME TypeOK, DiskInv, SaveStep \/ BeginSave
  PROVE  DiskInv'
<1>0. WorldType /\ SaveType
  BY DEF TypeOK
<1>1. CASE BeginSave \/ EndScan \/ EndRemove \/ EndSave
  BY <1>1 DEF DiskInv, CleanHasFile, InMemory, ScanLoaded, BeginSave, EndScan, EndRemove, EndSave,
     worldVars, objectVars, Loaded
<1>2. ASSUME NEW p \in Grid, ScanChunk(p)
      PROVE  DiskInv'
  <2>1. mem[p] # 0 /\ mem' = mem /\ savePc' = savePc /\ toScan' = toScan \ {p}
    BY <1>2 DEF ScanChunk, DiskInv, ScanLoaded
  <2>2. CASE UNCHANGED <<file, modified, unseen>>
    BY <2>1, <2>2 DEF DiskInv, CleanHasFile, InMemory, ScanLoaded
  <2>3. CASE SaveChunk(p) /\ unseen' = unseen \cup {p}
    BY <1>0, <2>1, <2>3, SavedHasFile DEF DiskInv, CleanHasFile, InMemory, ScanLoaded
  <2> QED BY <1>2, <2>2, <2>3 DEF ScanChunk
<1>3. ASSUME NEW p \in Grid, RemoveChunk(p)
      PROVE  DiskInv'
  BY <1>0, <1>3 DEF RemoveChunk, DiskInv, CleanHasFile, InMemory, ScanLoaded, WorldType, objectVars
<1>4. ASSUME NEW p \in Grid, SaveRemaining(p)
      PROVE  DiskInv'
  <2>1. mem' = mem /\ savePc # "scan" /\ savePc' = savePc /\ unseen' = unseen /\ SaveChunk(p)
    BY <1>4 DEF SaveRemaining
  <2>2. CASE mem[p] # 0
    BY <1>0, <2>1, <2>2, SavedHasFile DEF DiskInv, CleanHasFile, InMemory, ScanLoaded
  <2>3. CASE mem[p] = 0
    BY <2>1, <2>3 DEF SaveChunk, DiskInv, CleanHasFile, InMemory, ScanLoaded
  <2> QED BY <2>2, <2>3
<1> QED BY <1>1, <1>2, <1>3, <1>4 DEF SaveStep

LEMMA DiskWorkerStep ==
  ASSUME TypeOK, DiskInv, NEW w \in Workers, WorkerStep(w)
  PROVE  DiskInv'
<1>0. WorldType
  BY DEF TypeOK
<1>1. CASE Load(w)
  <2>1. job[w] \in Grid /\ file[job[w]] # NoFile
    BY <1>1 DEF Load, TypeOK, JobsPlaced
  <2>2. AddChunk(job[w], "Populated", FALSE, file[job[w]]) /\ UNCHANGED <<file, saveVars>>
    BY <1>1 DEF Load
  <2>3. FALSE \in BOOLEAN
    OBVIOUS
  <2> QED BY <1>0, <2>1, <2>2, <2>3, AddChunkClean
<1>2. CASE Generate(w)
  <2>1. job[w] \in Grid
    BY <1>2 DEF Generate, TypeOK, JobsPlaced
  <2>2. AddChunk(job[w], "Generated", TRUE, 0) /\ UNCHANGED <<file, saveVars>>
    BY <1>2 DEF Generate
  <2>3. TRUE \in BOOLEAN
    OBVIOUS
  <2> QED BY <1>0, <2>1, <2>2, <2>3, AddChunkClean
<1>3. CASE EndPopulate(w)
  <2>1. \A p \in Grid : mem[p] # 0 /\ ~modified'[p][mem[p]] => ~modified[p][mem[p]]
    <3> SUFFICES ASSUME NEW p \in Grid, mem[p] # 0, ~modified'[p][mem[p]]
                 PROVE  ~modified[p][mem[p]]
      OBVIOUS
    <3>1. mem[p] \in 1..MaxObjects /\ modified[p] \in [1..MaxObjects -> BOOLEAN]
      BY <1>0, RunsType DEF WorldType
    <3>2. modified'[p] = [modified[p] EXCEPT ![mem[p]] = TRUE] \/ modified'[p] = modified[p]
      BY <1>3 DEF EndPopulate
    <3> QED BY <3>1, <3>2, Zenon
  <2> QED BY <1>3, <2>1 DEF EndPopulate, DiskInv, CleanHasFile, InMemory, ScanLoaded, saveVars
<1>4. CASE Pop(w) \/ LookUp(w) \/ TryPopulate(w) \/ BeginPopulate(w) \/ Retry(w) \/ Deliver(w)
  <2>1. UNCHANGED <<mem, modified, file, saveVars>>
    BY <1>4 DEF Pop, LookUp, Source, TryPopulate, BeginPopulate, Retry, NextAttempt, Deliver, worldVars, objectVars
  <2> QED BY <2>1 DEF DiskInv, CleanHasFile, InMemory, ScanLoaded, saveVars
<1> QED BY <1>1, <1>2, <1>3, <1>4 DEF WorkerStep

(* No chunk is dropped from memory, or taken for saved, without a file.     *)
THEOREM NothingDroppedUnwritten == Spec => []CleanHasFile
<1>1. Init => DiskInv
  BY DEF Init, DiskInv, CleanHasFile, InMemory, ScanLoaded
<1>2. TypeOK /\ DiskInv /\ [Next]_vars => DiskInv'
  <2> SUFFICES ASSUME TypeOK, DiskInv, [Next]_vars
               PROVE  DiskInv'
    OBVIOUS
  <2>1. CASE \E w \in Workers : WorkerStep(w)
    BY <2>1, DiskWorkerStep
  <2>2. CASE SaveStep \/ BeginSave
    BY <2>2, DiskSaveStep
  <2>3. CASE UNCHANGED <<worldVars, saveVars>>
    BY <2>3 DEF DiskInv, CleanHasFile, InMemory, ScanLoaded, worldVars, objectVars, saveVars
  <2>4. CASE MainStep
    BY <2>3, <2>4 DEF MainStep, ForceGenerateChunk, Serve
  <2>5. CASE \E c \in Clients : ClientStep(c) \/ Leave(c)
    BY <2>3, <2>5 DEF ClientStep, ProcessChunk, SelectChunk, SendChunk, Leave
  <2>6. CASE \E c \in Clients, p \in Grid : Move(c, p) \/ Teleport(c, p)
    BY <2>3, <2>6 DEF Move, Teleport
  <2>7. CASE UNCHANGED vars
    BY <2>3, <2>7 DEF vars
  <2> QED BY <2>1, <2>2, <2>4, <2>5, <2>6, <2>7 DEF Next, Environment
<1>3. DiskInv => CleanHasFile
  BY DEF DiskInv
<1>4. QED
  BY <1>1, <1>2, <1>3, TypeCorrect, PTL DEF Spec

-----------------------------------------------------------------------------
(* With max-generator-threads = 1: what one worker keeps true because      *)
(* nobody adds a chunk between its look at the map and its own AddChunk.   *)

OneWorker == \A v, w \in Workers : v = w

(* The chunk a worker tries to populate.                                    *)
Tried(w) == TryTarget(job[w], try[w])

-----------------------------------------------------------------------------
(* The parts of the invariant.                                              *)

(* A worker that is about to add a chunk is right that there is none, and   *)
(* one that is about to generate it that there is no file either.           *)
SourceStillRight ==
  \A w \in Workers :
    /\ pc[w] \in {"load", "generate"} => mem[job[w]] = 0
    /\ pc[w] = "generate" => file[job[w]] = NoFile

(* The chunk being populated may be freed meanwhile, not replaced, and      *)
(* nobody else populates it.                                                *)
TargetNotReplaced ==
  \A w \in Workers :
    /\ pc[w] \in {"begin", "populate"} =>
         /\ Tried(w) \in Grid
         /\ target[w] \in 1..MaxObjects
         /\ mem[Tried(w)] \in {0, target[w]}
    /\ pc[w] = "begin" => state[Tried(w)][target[w]] # "Populated"

(* A chunk found populated by SendNewChunks stays populated as long as it   *)
(* is in memory, and comes back populated.                                  *)
SendingPopulated ==
  \A c \in Clients : \A p \in sending[c] :
    /\ mem[p] # 0 => state[p][mem[p]] = "Populated"
    /\ mem[p] = 0 => file[p] # NoFile

OneInv ==
  SourceStillRight /\ TargetNotReplaced /\ SendingPopulated /\ PopulatedUnlessSavedBefore

-----------------------------------------------------------------------------
(* What the steps do to one object.                                         *)

(* Setting one entry of a table of objects sets that entry alone. *)
LEMMA EntrySet ==
  ASSUME NEW G, NEW N, NEW V, NEW f \in [G -> [N -> V]], NEW t \in G, NEW n \in N, NEW v,
         NEW g, g = [f EXCEPT ![t][n] = v]
  PROVE  /\ g[t][n] = v
         /\ \A q \in G, m \in N : q # t \/ m # n => g[q][m] = f[q][m]
<1>1. f[t] \in [N -> V]
  OBVIOUS
<1>2. g[t] = [f[t] EXCEPT ![n] = v]
  OBVIOUS
<1>3. g[t][n] = v /\ \A m \in N : m # n => g[t][m] = f[t][m]
  BY <1>1, <1>2
<1>4. \A q \in G : q # t => g[q] = f[q]
  OBVIOUS
<1> QED BY <1>3, <1>4

(* What AddChunk makes of the latest object of a position. *)
AddedTo(p, s, dirty, n) ==
  /\ made'[p] \in 1..MaxObjects /\ mem'[p] = made'[p]
  /\ state'[p][made'[p]] = s
  /\ modified'[p][made'[p]] = dirty
  /\ runs'[p][made'[p]] = n
  /\ \A q \in Grid \ {p} : made'[q] = made[q] /\ mem'[q] = mem[q]
  /\ \A q \in Grid \ {p} : \A k \in 1..MaxObjects :
       state'[q][k] = state[q][k] /\ runs'[q][k] = runs[q][k]

(* AddChunk touches no other object. *)
LEMMA Added ==
  ASSUME WorldType, NEW p \in Grid, NEW s, NEW dirty \in BOOLEAN, NEW n, AddChunk(p, s, dirty, n)
  PROVE  AddedTo(p, s, dirty, n)
<1> DEFINE k == made[p] + 1
<1>1. k \in 1..MaxObjects
  BY WorldManagerAssumption DEF WorldType, AddChunk, WorldManagerAssumption
<1>2. made'[p] = k /\ mem'[p] = k
  BY DEF WorldType, AddChunk
<1>3. \A q \in Grid \ {p} : made'[q] = made[q] /\ mem'[q] = mem[q]
  BY DEF WorldType, AddChunk
<1>4. /\ state'[p][k] = s
      /\ \A q \in Grid \ {p}, m \in 1..MaxObjects : state'[q][m] = state[q][m]
  <2>1. state \in [Grid -> [1..MaxObjects -> States]] /\ state' = [state EXCEPT ![p][k] = s]
    BY DEF WorldType, AddChunk
  <2> HIDE DEF k
  <2> QED BY <1>1, <2>1, EntrySet
<1>5. modified'[p][k] = dirty
  <2>1. /\ modified \in [Grid -> [1..MaxObjects -> BOOLEAN]]
        /\ modified' = [modified EXCEPT ![p][k] = dirty]
    BY DEF WorldType, AddChunk
  <2> HIDE DEF k
  <2> QED BY <1>1, <2>1, EntrySet
<1>6. /\ runs'[p][k] = n
      /\ \A q \in Grid \ {p}, m \in 1..MaxObjects : runs'[q][m] = runs[q][m]
  <2>1. runs \in [Grid -> [1..MaxObjects -> 0..2]] /\ runs' = [runs EXCEPT ![p][k] = n]
    BY DEF WorldType, AddChunk
  <2> HIDE DEF k
  <2> QED BY <1>1, <2>1, EntrySet
<1> QED
  <2> HIDE DEF k
  <2> QED BY <1>1, <1>2, <1>3, <1>4, <1>5, <1>6 DEF AddedTo

(* A save writes the chunk that is in memory, or nothing. *)
LEMMA Saved ==
  ASSUME WorldType, NEW p \in Grid, SaveChunk(p), NEW q \in Grid
  PROVE  \/ file'[q] = file[q]
         \/ mem[q] # 0 /\ file'[q] = runs[q][mem[q]] /\ file'[q] # NoFile
<1>1. CASE mem[p] # 0 /\ modified[p][mem[p]]
  <2>1. runs[p][mem[p]] \in 0..2
    BY <1>1, RunsType
  <2>2. file' = [file EXCEPT ![p] = runs[p][mem[p]]] /\ file \in [Grid -> -1..2]
    BY <1>1 DEF SaveChunk, WorldType
  <2>3. q # p => file'[q] = file[q]
    BY <2>2
  <2>4. file'[p] = runs[p][mem[p]] /\ file'[p] # NoFile
    BY <2>1, <2>2 DEF NoFile
  <2> QED BY <1>1, <2>3, <2>4
<1>2. CASE ~(mem[p] # 0 /\ modified[p][mem[p]])
  BY <1>2 DEF SaveChunk
<1> QED BY <1>1, <1>2

-----------------------------------------------------------------------------
(* Nobody but the worker adds chunks or changes their state.                *)

(* A step that is not the worker's may only remove chunks, which are then   *)
(* on file, and write others to their files. *)
LEMMA OtherStep ==
  ASSUME TypeOK, CleanHasFile, [Next]_vars, ~\E w \in Workers : WorkerStep(w)
  PROVE  /\ UNCHANGED <<pc, job, try, target, made, state, runs>>
         /\ \A p \in Grid :
              /\ mem'[p] = mem[p] \/ (mem'[p] = 0 /\ file'[p] # NoFile)
              /\ \/ file'[p] = file[p]
                 \/ mem[p] # 0 /\ file'[p] = runs[p][mem[p]] /\ file'[p] # NoFile
<1> DEFINE Goal ==
      /\ UNCHANGED <<pc, job, try, target, made, state, runs>>
      /\ \A p \in Grid :
           /\ mem'[p] = mem[p] \/ (mem'[p] = 0 /\ file'[p] # NoFile)
           /\ \/ file'[p] = file[p]
              \/ mem[p] # 0 /\ file'[p] = runs[p][mem[p]] /\ file'[p] # NoFile
<1>0. WorldType /\ unseen \subseteq Grid
  BY DEF TypeOK, SaveType
<1>1. CASE UNCHANGED <<workerVars, worldVars>>
  BY <1>1 DEF workerVars, worldVars, objectVars
<1>2. ASSUME NEW p \in Grid, ScanChunk(p) PROVE Goal
  <2>1. UNCHANGED <<workerVars, mem, made, state, runs>>
    BY <1>2 DEF ScanChunk
  <2>2. SaveChunk(p) \/ file' = file
    BY <1>2 DEF ScanChunk
  <2> QED BY <1>0, <2>1, <2>2, Saved DEF workerVars
<1>3. ASSUME NEW p \in Grid, SaveRemaining(p) PROVE Goal
  <2>1. UNCHANGED <<workerVars, mem, made, state, runs>> /\ SaveChunk(p)
    BY <1>3 DEF SaveRemaining
  <2> QED BY <1>0, <2>1, Saved DEF workerVars
<1>4. ASSUME NEW p \in Grid, RemoveChunk(p) PROVE Goal
  <2>1. UNCHANGED <<workerVars, made, objectVars, file>> /\ p \in unseen
    BY <1>4 DEF RemoveChunk
  <2>2. file[p] # NoFile
    BY <2>1 DEF CleanHasFile
  <2>3. mem' = [mem EXCEPT ![p] = 0]
    BY <1>4 DEF RemoveChunk
  <2>4. \A q \in Grid : mem'[q] = mem[q] \/ (q = p /\ mem'[q] = 0)
    BY <1>0, <2>3 DEF WorldType
  <2> QED BY <2>1, <2>2, <2>4 DEF workerVars, objectVars
<1>5. CASE BeginSave \/ EndScan \/ EndRemove \/ EndSave
  BY <1>1, <1>5 DEF BeginSave, EndScan, EndRemove, EndSave
<1>6. CASE MainStep
  BY <1>1, <1>6 DEF MainStep, ForceGenerateChunk, Serve
<1>7. CASE \E c \in Clients : ClientStep(c) \/ Leave(c)
  BY <1>1, <1>7 DEF ClientStep, ProcessChunk, SelectChunk, SendChunk, Leave
<1>8. CASE \E c \in Clients, p \in Grid : Move(c, p) \/ Teleport(c, p)
  BY <1>1, <1>8 DEF Move, Teleport
<1>9. CASE UNCHANGED vars
  BY <1>1, <1>9 DEF vars
<1> QED BY <1>2, <1>3, <1>4, <1>5, <1>6, <1>7, <1>8, <1>9 DEF Next, SaveStep, Environment

(* SendNewChunks takes only chunks it finds populated. *)
LEMMA SendingStep ==
  ASSUME TypeOK, [Next]_vars, NEW c \in Clients, NEW p \in sending'[c]
  PROVE  p \in sending[c] \/ (IsChunkPopulated(p) /\ UNCHANGED worldVars)
<1>0. sending \in [Clients -> SUBSET Grid]
  BY DEF TypeOK, ClientType
<1>1. CASE UNCHANGED sending
  BY <1>1
<1>2. ASSUME NEW d \in Clients, NEW q \in Grid, SelectChunk(d, q)
      PROVE  p \in sending[c] \/ (IsChunkPopulated(p) /\ UNCHANGED worldVars)
  BY <1>0, <1>2 DEF SelectChunk
<1>3. ASSUME NEW d \in Clients, SendChunk(d)
      PROVE  p \in sending[c] \/ (IsChunkPopulated(p) /\ UNCHANGED worldVars)
  BY <1>0, <1>3 DEF SendChunk
<1>4. CASE MainStep \/ SaveStep
  BY <1>1, <1>4 DEF MainStep, ForceGenerateChunk, Serve, SaveStep, ScanChunk, RemoveChunk,
     SaveRemaining, EndScan, EndRemove, EndSave, clientVars
<1>5. CASE \E w \in Workers : WorkerStep(w)
  BY <1>1, <1>5 DEF WorkerStep, Pop, LookUp, Load, Generate, TryPopulate, BeginPopulate,
     EndPopulate, Retry, Deliver, clientVars
<1>6. CASE \E d \in Clients, q \in Grid : ProcessChunk(d, q) \/ Move(d, q) \/ Teleport(d, q)
  BY <1>1, <1>6 DEF ProcessChunk, Move, Teleport, DetermineVisibleChunks
<1>7. CASE BeginSave \/ \E d \in Clients : Leave(d)
  BY <1>1, <1>7 DEF BeginSave, Leave, clientVars
<1>8. CASE UNCHANGED vars
  BY <1>1, <1>8 DEF vars, clientVars
<1> QED BY <1>2, <1>3, <1>4, <1>5, <1>6, <1>7, <1>8 DEF Next, ClientStep, Environment

-----------------------------------------------------------------------------
(* The worker's own steps.                                                  *)

(* Steps that do not touch any chunk keep what is said of the chunks. *)
LEMMA WorldUntouched ==
  ASSUME TypeOK, SendingPopulated, PopulatedUnlessSavedBefore, UNCHANGED <<worldVars, sending>>
  PROVE  SendingPopulated' /\ PopulatedUnlessSavedBefore'
BY DEF SendingPopulated, PopulatedUnlessSavedBefore, IsChunkPopulated, InMemory, worldVars, objectVars

(* The worker takes a job, looks it up, or is done with it. *)
LEMMA PlainStep ==
  ASSUME TypeOK, OneWorker, OneInv, NEW w \in Workers,
         Pop(w) \/ LookUp(w) \/ Retry(w) \/ Deliver(w)
  PROVE  OneInv'
<1>0. pc \in [Workers -> Labels] /\ UNCHANGED <<worldVars, sending>>
  BY DEF TypeOK, WorkerType, Pop, LookUp, Retry, Deliver, clientVars
<1>1. \A v \in Workers : v = w
  BY DEF OneWorker
<1>2. SendingPopulated' /\ PopulatedUnlessSavedBefore'
  BY <1>0, WorldUntouched DEF OneInv
<1>3. pc'[w] \notin {"begin", "populate"}
  BY <1>0 DEF Pop, LookUp, Source, Retry, Deliver, Release, Goto
<1>4. /\ pc'[w] \in {"load", "generate"} => mem[job'[w]] = 0
      /\ pc'[w] = "generate" => file[job'[w]] = NoFile
  <2>1. CASE LookUp(w)
    BY <1>0, <2>1 DEF LookUp, Source, Goto
  <2>2. CASE Pop(w)
    BY <1>0, <2>2 DEF Pop, Goto
  <2>3. CASE Retry(w) \/ Deliver(w)
    BY <1>0, <2>3 DEF Retry, Deliver, Release, Goto
  <2> QED BY <2>1, <2>2, <2>3
<1>5. SourceStillRight'
  BY <1>0, <1>1, <1>4 DEF SourceStillRight, worldVars
<1>6. TargetNotReplaced'
  BY <1>1, <1>3 DEF TargetNotReplaced
<1> QED BY <1>2, <1>5, <1>6 DEF OneInv

(* The worker adds the chunk it found missing: what SendNewChunks is about  *)
(* to send comes from its file, populated. *)
LEMMA AddStep ==
  ASSUME TypeOK, OneWorker, OneInv, NEW w \in Workers, Load(w) \/ Generate(w)
  PROVE  OneInv'
<1> DEFINE p == job[w]
<1>0. WorldType /\ pc \in [Workers -> Labels] /\ sending \in [Clients -> SUBSET Grid]
  BY DEF TypeOK, WorkerType, ClientType
<1>1. \A v \in Workers : v = w
  BY DEF OneWorker
<1>2. p \in Grid /\ mem[p] = 0 /\ file' = file /\ sending' = sending
  BY DEF Load, Generate, TypeOK, JobsPlaced, OneInv, SourceStillRight, clientVars
<1>3. \/ AddChunk(p, "Populated", FALSE, file[p])
      \/ AddChunk(p, "Generated", TRUE, 0) /\ file[p] = NoFile
  BY DEF Load, Generate, OneInv, SourceStillRight
<1>4. pc'[w] \in {"check", "try"}
  BY <1>0 DEF Load, Generate, Goto
<1>5. /\ mem'[p] # 0
      /\ \/ state'[p][mem'[p]] = "Populated" /\ runs'[p][mem'[p]] = file[p]
         \/ state'[p][mem'[p]] = "Generated" /\ file[p] = NoFile
      /\ \A q \in Grid \ {p} : mem'[q] = mem[q]
      /\ \A q \in Grid \ {p} : \A k \in 1..MaxObjects :
           state'[q][k] = state[q][k] /\ runs'[q][k] = runs[q][k]
  <2> HIDE DEF p
  <2>1. CASE AddChunk(p, "Populated", FALSE, file[p])
    <3>1. FALSE \in BOOLEAN
      OBVIOUS
    <3>2. AddedTo(p, "Populated", FALSE, file[p])
      BY <1>0, <1>2, <2>1, <3>1, Added
    <3> QED BY <2>1, <3>2 DEF AddedTo
  <2>2. CASE AddChunk(p, "Generated", TRUE, 0) /\ file[p] = NoFile
    <3>1. TRUE \in BOOLEAN
      OBVIOUS
    <3>2. AddedTo(p, "Generated", TRUE, 0)
      BY <1>0, <1>2, <2>2, <3>1, Added
    <3> QED BY <2>2, <3>2 DEF AddedTo
  <2> QED BY <1>3, <2>1, <2>2
<1>6. \A q \in Grid : mem[q] # 0 => mem[q] \in 1..MaxObjects
  BY <1>0, RunsType
<1>7. SendingPopulated'
  <2> SUFFICES ASSUME NEW c \in Clients, NEW q \in sending[c]
               PROVE  /\ mem'[q] # 0 => state'[q][mem'[q]] = "Populated"
                      /\ mem'[q] = 0 => file[q] # NoFile
    BY <1>2 DEF SendingPopulated
  <2>0. q \in Grid
    BY <1>0
  <2>1. /\ mem[q] # 0 => state[q][mem[q]] = "Populated"
        /\ mem[q] = 0 => file[q] # NoFile
    BY DEF OneInv, SendingPopulated
  <2> HIDE DEF p
  <2>2. CASE q = p
    BY <1>2, <1>5, <2>1, <2>2
  <2>3. CASE q # p
    BY <1>5, <1>6, <2>0, <2>1, <2>3
  <2> QED BY <2>2, <2>3
<1>8. PopulatedUnlessSavedBefore'
  <2> SUFFICES ASSUME NEW q \in Grid, mem'[q] # 0, state'[q][mem'[q]] = "Populated",
                      runs'[q][mem'[q]] = 0
               PROVE  file[q] = 0
    BY <1>2 DEF PopulatedUnlessSavedBefore, IsChunkPopulated, InMemory
  <2> HIDE DEF p
  <2>1. CASE q = p
    BY <1>5, <2>1
  <2>2. CASE q # p
    BY <1>5, <1>6, <2>2 DEF OneInv, PopulatedUnlessSavedBefore, IsChunkPopulated, InMemory
  <2> QED BY <2>1, <2>2
<1>9. SourceStillRight' /\ TargetNotReplaced'
  BY <1>1, <1>4 DEF SourceStillRight, TargetNotReplaced
<1> QED BY <1>7, <1>8, <1>9 DEF OneInv

(* tryPopulate finds the target in memory and not populated. *)
LEMMA TryStep ==
  ASSUME TypeOK, OneWorker, OneInv, NEW w \in Workers, TryPopulate(w)
  PROVE  OneInv'
<1> DEFINE t == Tried(w)
<1>0. /\ WorldType /\ pc \in [Workers -> Labels] /\ target \in [Workers -> 0..MaxObjects]
      /\ UNCHANGED <<worldVars, sending, job>>
  BY DEF TypeOK, WorkerType, TryPopulate, clientVars
<1>1. \A v \in Workers : v = w
  BY DEF OneWorker
<1>2. SendingPopulated' /\ PopulatedUnlessSavedBefore'
  BY <1>0, WorldUntouched DEF OneInv
<1>3. CASE pc'[w] \in {"check", "try"}
  BY <1>1, <1>2, <1>3 DEF OneInv, SourceStillRight, TargetNotReplaced
<1>4. CASE Wanted(job[w], t) /\ target' = [target EXCEPT ![w] = mem[t]] /\ Goto(w, "begin")
           /\ UNCHANGED try
  <2>1. pc'[w] = "begin" /\ target'[w] = mem[t] /\ Tried(w)' = t
    BY <1>0, <1>4 DEF Goto, Tried
  <2>2. t \in Grid /\ mem[t] # 0 /\ state[t][mem[t]] # "Populated"
    BY <1>4 DEF Wanted, InMemory, IsChunkPopulated
  <2>3. mem[t] \in 1..MaxObjects
    BY <1>0, <2>2, RunsType
  <2> HIDE DEF t
  <2>4. TargetNotReplaced'
    BY <1>0, <1>1, <2>1, <2>2, <2>3 DEF TargetNotReplaced, worldVars, objectVars
  <2>5. SourceStillRight'
    BY <1>1, <2>1 DEF SourceStillRight
  <2> QED BY <1>2, <2>4, <2>5 DEF OneInv
<1> QED BY <1>0, <1>3, <1>4 DEF TryPopulate, NextTry, Goto, Tried

(* The state of the target changes, and of nothing else. *)
LEMMA TargetState ==
  ASSUME TypeOK, OneInv, NEW w \in Workers, pc[w] \in {"begin", "populate"}, NEW s,
         state' = [state EXCEPT ![Tried(w)][target[w]] = s]
  PROVE  /\ state'[Tried(w)][target[w]] = s
         /\ \A q \in Grid, k \in 1..MaxObjects :
              q # Tried(w) \/ k # target[w] => state'[q][k] = state[q][k]
<1>1. state \in [Grid -> [1..MaxObjects -> States]]
  BY DEF TypeOK, WorldType
<1>2. Tried(w) \in Grid /\ target[w] \in 1..MaxObjects
  BY DEF OneInv, TargetNotReplaced
<1> QED BY <1>1, <1>2, EntrySet

(* The chunk about to be populated is not one that is being sent. *)
LEMMA BeginStep ==
  ASSUME TypeOK, OneWorker, OneInv, NEW w \in Workers, BeginPopulate(w)
  PROVE  OneInv'
<1> DEFINE t == Tried(w)
           k == target[w]
<1>0. /\ WorldType /\ pc \in [Workers -> Labels] /\ sending \in [Clients -> SUBSET Grid]
      /\ UNCHANGED <<job, try, target, mem, runs, file, sending>>
      /\ pc[w] = "begin" /\ state' = [state EXCEPT ![t][k] = "Populating"]
  BY DEF TypeOK, WorkerType, ClientType, BeginPopulate, clientVars, Tried
<1>1. \A v \in Workers : v = w
  BY DEF OneWorker
<1>2. t \in Grid /\ k \in 1..MaxObjects /\ mem[t] \in {0, k} /\ state[t][k] # "Populated"
  BY <1>0 DEF OneInv, TargetNotReplaced
<1>3. /\ state'[t][k] = "Populating"
      /\ \A q \in Grid, n \in 1..MaxObjects : q # t \/ n # k => state'[q][n] = state[q][n]
  BY <1>0, TargetState
<1>4. pc'[w] = "populate" /\ Tried(w)' = t
  BY <1>0 DEF BeginPopulate, Goto, Tried
<1>5. \A q \in Grid : mem[q] # 0 => mem[q] \in 1..MaxObjects
  BY <1>0, RunsType
<1> HIDE DEF t, k
<1>6. SendingPopulated'
  BY <1>0, <1>2, <1>3, <1>5 DEF OneInv, SendingPopulated
<1>7. PopulatedUnlessSavedBefore'
  BY <1>0, <1>3, <1>5 DEF OneInv, PopulatedUnlessSavedBefore, IsChunkPopulated, InMemory
<1>8. SourceStillRight'
  BY <1>1, <1>4 DEF SourceStillRight
<1>9. TargetNotReplaced'
  BY <1>0, <1>1, <1>2, <1>4 DEF TargetNotReplaced, k
<1> QED BY <1>6, <1>7, <1>8, <1>9 DEF OneInv

(* The chunk that counts as populated is the one PopulateChunk ran on, or   *)
(* is not in memory any more. *)
LEMMA EndStep ==
  ASSUME TypeOK, OneWorker, OneInv, NEW w \in Workers, EndPopulate(w)
  PROVE  OneInv'
<1> DEFINE t == Tried(w)
           k == target[w]
<1>0. /\ WorldType /\ pc \in [Workers -> Labels] /\ sending \in [Clients -> SUBSET Grid]
      /\ UNCHANGED <<mem, file, sending>>
      /\ pc[w] = "populate" /\ state' = [state EXCEPT ![t][k] = "Populated"]
      /\ runs' = IF InMemory(t) THEN [runs EXCEPT ![t][mem[t]] = OneMore(@)] ELSE runs
  BY DEF TypeOK, WorkerType, ClientType, EndPopulate, clientVars, Tried
<1>1. \A v \in Workers : v = w
  BY DEF OneWorker
<1>2. t \in Grid /\ k \in 1..MaxObjects /\ mem[t] \in {0, k}
  BY <1>0 DEF OneInv, TargetNotReplaced
<1>3. /\ state'[t][k] = "Populated"
      /\ \A q \in Grid, n \in 1..MaxObjects : q # t \/ n # k => state'[q][n] = state[q][n]
  BY <1>0, TargetState
<1>4. pc'[w] \in {"check", "try"}
  BY <1>0 DEF EndPopulate, NextTry, Goto
<1>5. \A q \in Grid : mem[q] # 0 => mem[q] \in 1..MaxObjects
  BY <1>0, RunsType
<1>6. /\ mem[t] # 0 => runs'[t][mem[t]] # 0
      /\ \A q \in Grid \ {t}, n \in 1..MaxObjects : runs'[q][n] = runs[q][n]
  <2>1. CASE mem[t] = 0
    BY <1>0, <2>1 DEF InMemory
  <2>2. CASE mem[t] # 0
    <3> DEFINE n == mem[t]
               v == OneMore(runs[t][n])
    <3>1. n \in 1..MaxObjects /\ runs[t][n] \in 0..2
      BY <1>0, <1>2, <2>2, RunsType
    <3>2. v # 0
      BY <3>1 DEF OneMore
    <3>3. runs' = [runs EXCEPT ![t][n] = v] /\ runs \in [Grid -> [1..MaxObjects -> 0..2]]
      BY <1>0, <1>2, <2>2 DEF InMemory, WorldType
    <3> HIDE DEF n, v, t
    <3>4. runs'[t][n] = v /\ \A q \in Grid \ {t}, m \in 1..MaxObjects : runs'[q][m] = runs[q][m]
      BY <1>2, <3>1, <3>3, EntrySet
    <3> QED BY <3>2, <3>4 DEF n
  <2> QED BY <2>1, <2>2
<1> HIDE DEF t, k
<1>7. SendingPopulated'
  BY <1>0, <1>2, <1>3, <1>5 DEF OneInv, SendingPopulated
<1>8. PopulatedUnlessSavedBefore'
  BY <1>0, <1>2, <1>3, <1>5, <1>6 DEF OneInv, PopulatedUnlessSavedBefore, IsChunkPopulated, InMemory
<1>9. SourceStillRight' /\ TargetNotReplaced'
  BY <1>1, <1>4 DEF SourceStillRight, TargetNotReplaced
<1> QED BY <1>7, <1>8, <1>9 DEF OneInv

-----------------------------------------------------------------------------
(* The other threads' steps.                                                *)

(* Types, from the theorem about them. *)
LEMMA TypesStep ==
  ASSUME TypeOK, [Next]_vars
  PROVE  TypeOK'
<1>1. CASE MainStep
  BY <1>1, MainTypes
<1>2. CASE SaveStep \/ BeginSave
  BY <1>2, SaveTypes DEF SaveStep
<1>3. CASE \E w \in Workers : WorkerStep(w)
  BY <1>3, WorkerTypes
<1>4. CASE \E c \in Clients : ClientStep(c) \/ Leave(c)
  BY <1>4, ClientTypes DEF ClientStep
<1>5. CASE \E c \in Clients, p \in Grid : Move(c, p) \/ Teleport(c, p)
  BY <1>5, ClientTypes
<1>6. CASE UNCHANGED vars
  BY <1>6, StutterTypes
<1> QED BY <1>1, <1>2, <1>3, <1>4, <1>5, <1>6 DEF Next, Environment

(* Saving and freeing leave the worker right about what is missing, and     *)
(* what is being sent on file. *)
LEMMA OthersKeep ==
  ASSUME TypeOK, CleanHasFile, OneInv, [Next]_vars, ~\E w \in Workers : WorkerStep(w)
  PROVE  OneInv'
<1>0. WorldType /\ sending' \in [Clients -> SUBSET Grid]
  BY TypesStep DEF TypeOK, ClientType
<1>1. UNCHANGED <<pc, job, try, target, made, state, runs>>
  BY OtherStep
<1>2. \A p \in Grid :
        /\ mem'[p] = mem[p] \/ (mem'[p] = 0 /\ file'[p] # NoFile)
        /\ \/ file'[p] = file[p]
           \/ mem[p] # 0 /\ file'[p] = runs[p][mem[p]] /\ file'[p] # NoFile
  BY OtherStep
<1>3. SourceStillRight'
  BY <1>1, <1>2 DEF OneInv, SourceStillRight, TypeOK, JobsPlaced
<1>4. TargetNotReplaced'
  <2>1. \A w \in Workers : Tried(w)' = Tried(w)
    BY <1>1 DEF Tried
  <2> QED BY <1>1, <1>2, <2>1 DEF OneInv, TargetNotReplaced
<1>5. SendingPopulated'
  <2> SUFFICES ASSUME NEW c \in Clients, NEW p \in sending'[c]
               PROVE  /\ mem'[p] # 0 => state'[p][mem'[p]] = "Populated"
                      /\ mem'[p] = 0 => file'[p] # NoFile
    BY DEF SendingPopulated
  <2>0. p \in Grid
    BY <1>0
  <2>1. /\ mem[p] # 0 => state[p][mem[p]] = "Populated"
        /\ mem[p] = 0 => file[p] # NoFile
    <3>1. CASE p \in sending[c]
      BY <3>1 DEF OneInv, SendingPopulated
    <3>2. CASE IsChunkPopulated(p)
      BY <3>2 DEF IsChunkPopulated, InMemory
    <3> QED BY <3>1, <3>2, SendingStep
  <2> QED BY <1>1, <1>2, <2>0, <2>1
<1>6. PopulatedUnlessSavedBefore'
  BY <1>1, <1>2 DEF OneInv, PopulatedUnlessSavedBefore, IsChunkPopulated, InMemory
<1> QED BY <1>3, <1>4, <1>5, <1>6 DEF OneInv

(* No worker has a job and nothing is being sent at the beginning. *)
LEMMA InitOne == Init => OneInv
BY DEF Init, OneInv, SourceStillRight, TargetNotReplaced, SendingPopulated,
   PopulatedUnlessSavedBefore, IsChunkPopulated, InMemory

-----------------------------------------------------------------------------
(* The theorems.                                                            *)

(* All parts of the invariant, over all steps. *)
LEMMA OneStep ==
  ASSUME TypeOK, CleanHasFile, OneWorker, OneInv, [Next]_vars
  PROVE  OneInv'
<1>1. ASSUME NEW w \in Workers, WorkerStep(w) PROVE OneInv'
  BY <1>1, PlainStep, AddStep, TryStep, BeginStep, EndStep DEF WorkerStep
<1>2. CASE ~\E w \in Workers : WorkerStep(w)
  BY <1>2, OthersKeep
<1> QED BY <1>1, <1>2

(* With one worker, what the threads know of chunks from an earlier step    *)
(* stays right until they use it (worldManager.cpp:195-240,                 *)
(* clientChunks.cpp:120).                                                   *)
THEOREM OneWorkerInvariant ==
  ASSUME OneWorker
  PROVE  Spec => []OneInv
<1>1. TypeOK /\ CleanHasFile /\ OneInv /\ [Next]_vars => OneInv'
  BY OneWorker, OneStep
<1> QED BY <1>1, InitOne, TypeCorrect, NothingDroppedUnwritten, PTL DEF Spec

(* A chunk that counts as populated without PopulateChunk having run on it  *)
(* was saved before it could (worldManager.cpp:211).                        *)
THEOREM PopulatedOrSavedBefore ==
  ASSUME OneWorker
  PROVE  Spec => []PopulatedUnlessSavedBefore
<1>1. OneInv => PopulatedUnlessSavedBefore
  BY DEF OneInv
<1> QED BY <1>1, OneWorkerInvariant, PTL

(* Only the worker makes objects, the one for its job. *)
LEMMA MadeStep ==
  ASSUME TypeOK, CleanHasFile, OneWorker, OneInv, [Next]_vars, NEW p \in Grid, made'[p] # made[p]
  PROVE  /\ mem[p] = 0
         /\ file[p] # NoFile => AddChunk(p, "Populated", FALSE, file[p])
<1>0. PICK w \in Workers : WorkerStep(w)
  BY OtherStep
<1>1. CASE Load(w) \/ Generate(w)
  <2>1. job[w] = p
    BY <1>1 DEF Load, Generate, AddChunk, TypeOK, WorldType
  <2>2. mem[p] = 0
    BY <1>1, <2>1 DEF Load, Generate, OneInv, SourceStillRight
  <2>3. CASE Load(w)
    BY <2>1, <2>2, <2>3 DEF Load
  <2>4. CASE Generate(w)
    BY <2>1, <2>2, <2>4 DEF Generate, OneInv, SourceStillRight
  <2> QED BY <1>1, <2>3, <2>4
<1>2. CASE ~(Load(w) \/ Generate(w))
  <2>1. made' = made
    BY <1>0, <1>2 DEF WorkerStep, Pop, LookUp, TryPopulate, BeginPopulate, EndPopulate, Retry,
       Deliver, worldVars
  <2> QED BY <2>1
<1> QED BY <1>1, <1>2

(* GetChunk puts a new chunk only where there is none                       *)
(* (worldManager.cpp:195,200).                                              *)
THEOREM ChunksAreNotReplaced ==
  ASSUME OneWorker
  PROVE  Spec => NeverReplaced
<1>1. TypeOK /\ CleanHasFile /\ OneInv /\ [Next]_vars
        => [\A p \in Grid : made'[p] # made[p] => mem[p] = 0]_vars
  BY OneWorker, MadeStep
<1> QED BY <1>1, OneWorkerInvariant, TypeCorrect, NothingDroppedUnwritten, PTL
         DEF Spec, NeverReplaced

(* A chunk that was saved is loaded, as it was saved, and never generated   *)
(* again (worldManager.cpp:205).                                            *)
THEOREM ChunksAreNotRegenerated ==
  ASSUME OneWorker
  PROVE  Spec => NeverRegenerated
<1> DEFINE FromFile(p) == made'[p] # made[p] /\ file[p] # NoFile
                          => runs'[p][made'[p]] = file[p] /\ ~modified'[p][made'[p]]
<1>1. TypeOK /\ CleanHasFile /\ OneInv /\ [Next]_vars => [\A p \in Grid : FromFile(p)]_vars
  <2> SUFFICES ASSUME TypeOK, CleanHasFile, OneInv, [Next]_vars, NEW p \in Grid,
                      made'[p] # made[p], file[p] # NoFile
               PROVE  runs'[p][made'[p]] = file[p] /\ ~modified'[p][made'[p]]
    OBVIOUS
  <2>1. WorldType /\ AddChunk(p, "Populated", FALSE, file[p])
    BY OneWorker, MadeStep DEF TypeOK
  <2>2. FALSE \in BOOLEAN
    OBVIOUS
  <2>3. runs'[p][made'[p]] = file[p] /\ modified'[p][made'[p]] = FALSE
    BY <2>1, <2>2, Added DEF AddedTo
  <2> QED BY <2>3
<1> QED BY <1>1, OneWorkerInvariant, TypeCorrect, NothingDroppedUnwritten, PTL
         DEF Spec, NeverRegenerated

(* Only SendChunk makes chunks visible. *)
LEMMA VisibleStep ==
  ASSUME TypeOK, [Next]_vars, NEW c \in Clients, NEW p \in visible'[c] \ visible[c]
  PROVE  p \in sending[c]
<1>0. visible \in [Clients -> SUBSET Grid]
  BY DEF TypeOK, ClientType
<1>1. CASE UNCHANGED visible
  BY <1>1
<1>2. ASSUME NEW d \in Clients, SendChunk(d) PROVE p \in sending[c]
  BY <1>0, <1>2 DEF SendChunk
<1>3. CASE \E d \in Clients, q \in Grid : Move(d, q) \/ Teleport(d, q)
  BY <1>0, <1>3 DEF Move, Teleport, DetermineVisibleChunks
<1>4. CASE MainStep \/ SaveStep
  BY <1>1, <1>4 DEF MainStep, ForceGenerateChunk, Serve, SaveStep, ScanChunk, RemoveChunk,
     SaveRemaining, EndScan, EndRemove, EndSave, clientVars
<1>5. CASE \E w \in Workers : WorkerStep(w)
  BY <1>1, <1>5 DEF WorkerStep, Pop, LookUp, Load, Generate, TryPopulate, BeginPopulate,
     EndPopulate, Retry, Deliver, clientVars
<1>6. CASE \E d \in Clients, q \in Grid : ProcessChunk(d, q) \/ SelectChunk(d, q)
  BY <1>1, <1>6 DEF ProcessChunk, SelectChunk
<1>7. CASE BeginSave \/ \E d \in Clients : Leave(d)
  BY <1>1, <1>7 DEF BeginSave, Leave, clientVars
<1>8. CASE UNCHANGED vars
  BY <1>1, <1>8 DEF vars, clientVars
<1> QED BY <1>2, <1>3, <1>4, <1>5, <1>6, <1>7, <1>8 DEF Next, ClientStep, Environment

(* A chunk that is sent is populated, if it is in memory at all             *)
(* (clientChunks.cpp:120).                                                  *)
THEOREM SentChunksArePopulated ==
  ASSUME OneWorker
  PROVE  Spec => SentUnlessFreed
<1> DEFINE Sent == \A c \in Clients : \A p \in visible'[c] \ visible[c] :
                     InMemory(p) => state[p][mem[p]] = "Populated"
<1>1. TypeOK /\ OneInv /\ [Next]_vars => [Sent]_vars
  <2> SUFFICES ASSUME TypeOK, OneInv, [Next]_vars, NEW c \in Clients, NEW p \in visible'[c] \ visible[c]
               PROVE  p \in sending[c]
    BY DEF OneInv, SendingPopulated, InMemory
  <2> QED BY VisibleStep
<1> QED BY <1>1, OneWorkerInvariant, TypeCorrect, PTL DEF Spec, SentUnlessFreed
=============================================================================
