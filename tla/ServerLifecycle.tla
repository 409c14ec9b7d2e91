--------------------------- MODULE ServerLifecycle ---------------------------
(***************************************************************************)
(* The server's threads from start to exit: main() loads the configuration *)
(* and starts the WorldManager thread, which starts the worker threads;    *)
(* main() prepares the spawn area, serves, and on a signal stops, saves and *)
(* joins what it can join.  The workers sleep on the condition variable of  *)
(* the chunk queue.                                                        *)
(*                                                                         *)
(* Code: main.cpp, server.cpp and server.h (LoadConfig, AddWorldManager,   *)
(* ServerJoin, Stop), world/worldManager.cpp (Run, WorkerThread,           *)
(* AddChunkToQueue), client/client.cpp (HandleClient).                     *)
(*                                                                         *)
(* Of the queue only its length matters here: module WorldManager says     *)
(* which chunks it holds and what becomes of them.                         *)
(***************************************************************************)
EXTENDS Integers, FiniteSets

CONSTANTS
  Workers,       \* worker threads
  Clients,       \* clients that may connect
  SpawnChunks,   \* number of chunks main() queues before it serves
  MaxRequests,   \* bound: entries added by clients and by retries
  MaxSpurious    \* bound: spurious wake-ups of the condition variable

ASSUME LifecycleAssumption ==
  /\ IsFiniteSet(Workers)
  /\ SpawnChunks \in Nat
  /\ MaxRequests \in Nat
  /\ MaxSpurious \in Nat

VARIABLES
  alive,        \* Server::alive
  main,         \* where main() is
  spawnLeft,    \* spawn chunks main() has still to queue
  manager,      \* where WorldManager::Run is
  pc,           \* where each worker is
  asleep,       \* workers in the wait set of queueCV
  queue,        \* number of entries in chunkQueue
  accepter,     \* where ServerJoin is
  listening,    \* serverFd is open
  client,       \* where each client's thread is
  kicked,       \* Stop has called DisconnectClient on every client
  unsaved,      \* some client changed the world or its player since SaveAll
  fileExists,   \* server.properties was there at start-up
  seed,         \* WorldManager::seed
  generatorSeed, \* the seed each worker's generator was built with
  requests, spurious   \* counters behind the bounds

serverVars  == <<alive, main, spawnLeft>>
poolVars    == <<manager, pc, asleep, queue>>
clientVars  == <<accepter, listening, client, kicked, unsaved>>
seedVars    == <<fileExists, seed, generatorSeed>>
boundVars   == <<requests, spurious>>
vars == <<serverVars, poolVars, clientVars, seedVars, boundVars>>

(* What a seed can be: the one in server.properties, the 0 LoadConfig starts *)
(* from, or whatever the memory of a new WorldManager happens to hold.       *)
Seeds == {"configured", "zero", "other"}

Init ==
  /\ alive = TRUE
  /\ main = "config"
  /\ spawnLeft = SpawnChunks
  /\ manager = "none"
  /\ pc = [w \in Workers |-> "none"]
  /\ asleep = {}
  /\ queue = 0
  /\ accepter = "none"
  /\ listening = FALSE
  /\ client = [c \in Clients |-> "none"]
  /\ kicked = FALSE
  /\ unsaved = FALSE
  /\ fileExists \in BOOLEAN
  /\ seed \in Seeds
  /\ generatorSeed = [w \in Workers |-> "none"]
  /\ requests = 0
  /\ spurious = 0

-----------------------------------------------------------------------------
(* The queue and its condition variable.                                    *)

(* A worker that evaluated the predicate holds queueMutex until it is in the *)
(* wait set.                                                                 *)
MutexFree == \A w \in Workers : pc[w] # "blocking"

(* notify_one: somebody in the wait set, if there is anybody.                *)
NotifyOne ==
  \/ asleep = {} /\ UNCHANGED asleep
  \/ \E w \in asleep : asleep' = asleep \ {w}

(* Variant: an entry is added and nobody is told.                            *)
AddEntrySilently ==
  /\ MutexFree
  /\ queue' = queue + 1
  /\ UNCHANGED asleep

AddEntry ==
  /\ MutexFree
  /\ queue' = queue + 1
  /\ NotifyOne

-----------------------------------------------------------------------------
(* main().                                                                  *)

(* LoadConfig: AddWorldManager builds the manager and its thread ...        *)
AddWorldManager ==
  /\ main = "config"
  /\ main' = "seed"
  /\ manager' = "start"
  /\ UNCHANGED <<alive, spawnLeft, pc, asleep, queue, clientVars, seedVars, boundVars>>

(* ... and then SetSeed.  The seed is read from the file only if there was  *)
(* one; a file that is written now gets a seed that nobody reads back.      *)
SetSeed ==
  /\ main = "seed"
  /\ main' = "bind"
  /\ seed' = IF fileExists THEN "configured" ELSE "zero"
  /\ UNCHANGED <<alive, spawnLeft, poolVars, clientVars, fileExists, generatorSeed, boundVars>>

(* SocketBootstrap.  When it fails main() returns with a usage thread it    *)
(* never joined, and the program aborts.                                    *)
SocketBootstrap ==
  /\ main = "bind"
  /\ \/ main' = "queue" /\ listening' = TRUE
     \/ main' = "aborted" /\ UNCHANGED listening
  /\ UNCHANGED <<alive, spawnLeft, poolVars, accepter, client, kicked, unsaved, seedVars,
                 boundVars>>

QueueSpawnArea ==
  /\ main = "queue"
  /\ \/ /\ alive
        /\ spawnLeft > 0
        /\ spawnLeft' = spawnLeft - 1
        /\ AddEntry
        /\ UNCHANGED main
     \/ /\ ~alive \/ spawnLeft = 0
        /\ main' = "drain"
        /\ UNCHANGED <<spawnLeft, asleep, queue>>
  /\ UNCHANGED <<alive, manager, pc, clientVars, seedVars, boundVars>>

(* Wait for IsQueueEmpty, then start ServerJoin.                            *)
Drained ==
  /\ main = "drain"
  /\ queue = 0
  /\ main' = "serve"
  /\ accepter' = "accept"
  /\ UNCHANGED <<alive, spawnLeft, poolVars, listening, client, kicked, unsaved, seedVars,
                 boundVars>>

(* A tick of the main loop; some ticks save.                                *)
AutoSave ==
  /\ main = "serve"
  /\ alive
  /\ unsaved' = FALSE
  /\ UNCHANGED <<serverVars, poolVars, accepter, listening, client, kicked, seedVars, boundVars>>

LeaveLoop ==
  /\ main = "serve"
  /\ ~alive
  /\ main' = "kick"
  /\ UNCHANGED <<alive, spawnLeft, poolVars, clientVars, seedVars, boundVars>>

(* Stop: disconnect every client, save, close the socket.                   *)
KickClients ==
  /\ main = "kick"
  /\ main' = "save"
  /\ kicked' = TRUE
  /\ UNCHANGED <<alive, spawnLeft, poolVars, accepter, listening, client, unsaved, seedVars,
                 boundVars>>

SaveAll ==
  /\ main = "save"
  /\ main' = "close"
  /\ unsaved' = FALSE
  /\ UNCHANGED <<alive, spawnLeft, poolVars, accepter, listening, client, kicked, seedVars,
                 boundVars>>

(* Variant: the listening socket stays open.                                *)
CloseSocketForgotten ==
  /\ main = "close"
  /\ main' = "join"
  /\ UNCHANGED <<alive, spawnLeft, poolVars, clientVars, seedVars, boundVars>>

CloseSocket ==
  /\ main = "close"
  /\ main' = "join"
  /\ listening' = FALSE
  /\ UNCHANGED <<alive, spawnLeft, poolVars, accepter, client, kicked, unsaved, seedVars,
                 boundVars>>

(* Variant: main() returns without waiting for ServerJoin.                  *)
JoinNobody ==
  /\ main = "join"
  /\ main' = "destroy"
  /\ UNCHANGED <<alive, spawnLeft, poolVars, clientVars, seedVars, boundVars>>

(* join_thread.join(); the usage thread returned long ago.                  *)
JoinAccepter ==
  /\ main = "join"
  /\ accepter = "done"
  /\ main' = "destroy"
  /\ UNCHANGED <<alive, spawnLeft, poolVars, clientVars, seedVars, boundVars>>

(* The Server object is destroyed at exit: the destructor of                *)
(* worldManagerThreads joins the manager's thread.                          *)
Exit ==
  /\ main = "destroy"
  /\ manager = "done"
  /\ main' = "exited"
  /\ UNCHANGED <<alive, spawnLeft, poolVars, clientVars, seedVars, boundVars>>

Running == main \notin {"exited", "aborted"}

(* A signal, or the stop command.                                           *)
PrepareForShutdown ==
  /\ Running
  /\ alive
  /\ alive' = FALSE
  /\ UNCHANGED <<main, spawnLeft, poolVars, clientVars, seedVars, boundVars>>

-----------------------------------------------------------------------------
(* WorldManager::Run.                                                       *)

StartWorkers ==
  /\ manager = "start"
  /\ manager' = "light"
  /\ pc' = [w \in Workers |-> "create"]
  /\ UNCHANGED <<serverVars, asleep, queue, clientVars, seedVars, boundVars>>

(* The lighting loop ends; notify_all does not take queueMutex.             *)
StopWorkers ==
  /\ manager = "light"
  /\ ~alive
  /\ manager' = "join"
  /\ asleep' = {}
  /\ UNCHANGED <<serverVars, pc, queue, clientVars, seedVars, boundVars>>

(* Variant: Run returns without joining the workers.                        *)
DropWorkers ==
  /\ manager = "join"
  /\ manager' = "done"
  /\ UNCHANGED <<serverVars, pc, asleep, queue, clientVars, seedVars, boundVars>>

JoinWorkers ==
  /\ manager = "join"
  /\ \A w \in Workers : pc[w] = "done"
  /\ manager' = "done"
  /\ UNCHANGED <<serverVars, pc, asleep, queue, clientVars, seedVars, boundVars>>

-----------------------------------------------------------------------------
(* WorkerThread.                                                            *)

Goto(w, label) == pc' = [pc EXCEPT ![w] = label]

CreateGenerator(w) ==
  /\ pc[w] = "create"
  /\ generatorSeed' = [generatorSeed EXCEPT ![w] = seed]
  /\ Goto(w, "loop")
  /\ UNCHANGED <<serverVars, manager, asleep, queue, clientVars, fileExists, seed, boundVars>>

CheckAlive(w) ==
  /\ pc[w] = "loop"
  /\ Goto(w, IF alive THEN "wait" ELSE "done")
  /\ UNCHANGED <<serverVars, manager, asleep, queue, clientVars, seedVars, boundVars>>

(* The predicate of queueCV.wait, under queueMutex: leave for good, take an *)
(* entry, or prepare to sleep.  A worker that was asleep comes back here.    *)
Awake(w) == pc[w] = "wait" /\ w \notin asleep /\ MutexFree

Return(w) ==
  /\ Awake(w)
  /\ ~alive
  /\ Goto(w, "done")
  /\ UNCHANGED <<serverVars, manager, asleep, queue, clientVars, seedVars, boundVars>>

(* Variant: a wait without a predicate takes an entry once it is over.      *)
TakeUnchecked(w) ==
  /\ Awake(w)
  /\ alive
  /\ queue' = queue - 1
  /\ Goto(w, "busy")
  /\ UNCHANGED <<serverVars, manager, asleep, clientVars, seedVars, boundVars>>

Take(w) ==
  /\ Awake(w)
  /\ alive
  /\ queue > 0
  /\ queue' = queue - 1
  /\ Goto(w, "busy")
  /\ UNCHANGED <<serverVars, manager, asleep, clientVars, seedVars, boundVars>>

(* Variant: the predicate is not looked at before going to sleep.           *)
PrepareToSleepBlindly(w) ==
  /\ Awake(w)
  /\ alive
  /\ Goto(w, "blocking")
  /\ UNCHANGED <<serverVars, manager, asleep, queue, clientVars, seedVars, boundVars>>

PrepareToSleep(w) ==
  /\ Awake(w)
  /\ alive
  /\ queue = 0
  /\ Goto(w, "blocking")
  /\ UNCHANGED <<serverVars, manager, asleep, queue, clientVars, seedVars, boundVars>>

Sleep(w) ==
  /\ pc[w] = "blocking"
  /\ asleep' = asleep \cup {w}
  /\ Goto(w, "wait")
  /\ UNCHANGED <<serverVars, manager, queue, clientVars, seedVars, boundVars>>

WakeSpuriously(w) ==
  /\ w \in asleep
  /\ spurious < MaxSpurious
  /\ spurious' = spurious + 1
  /\ asleep' = asleep \ {w}
  /\ UNCHANGED <<serverVars, manager, pc, queue, clientVars, seedVars, requests>>

(* The job is done, or its chunk goes back to the queue.                    *)
Finish(w) ==
  /\ pc[w] = "busy"
  /\ Goto(w, "loop")
  /\ UNCHANGED <<serverVars, manager, asleep, queue, clientVars, seedVars, boundVars>>

Retry(w) ==
  /\ pc[w] = "busy"
  /\ requests < MaxRequests
  /\ requests' = requests + 1
  /\ AddEntry
  /\ Goto(w, "loop")
  /\ UNCHANGED <<serverVars, manager, clientVars, seedVars, spurious>>

-----------------------------------------------------------------------------
(* ServerJoin and the client threads, which nobody joins.                   *)

(* accept() returns a connection, unless the socket was closed.             *)
Accept(c) ==
  /\ accepter = "accept"
  /\ listening
  /\ client[c] = "none"
  /\ client' = [client EXCEPT ![c] = "loop"]
  /\ accepter' = IF alive THEN "accept" ELSE "done"
  /\ UNCHANGED <<serverVars, poolVars, listening, kicked, unsaved, seedVars, boundVars>>

AcceptFails ==
  /\ accepter = "accept"
  /\ ~listening
  /\ accepter' = "done"
  /\ UNCHANGED <<serverVars, poolVars, listening, client, kicked, unsaved, seedVars, boundVars>>

(* HandleClient: look at alive and the status, then read, then handle what  *)
(* came; the read returns whenever the client sends something.              *)
ClientLoop(c) ==
  /\ client[c] = "loop"
  /\ client' = [client EXCEPT ![c] = IF alive /\ ~kicked THEN "read" ELSE "done"]
  /\ UNCHANGED <<serverVars, poolVars, accepter, listening, kicked, unsaved, seedVars, boundVars>>

Receive(c) ==
  /\ Running
  /\ client[c] = "read"
  /\ client' = [client EXCEPT ![c] = IF kicked THEN "loop" ELSE "handle"]
  /\ UNCHANGED <<serverVars, poolVars, accepter, listening, kicked, unsaved, seedVars, boundVars>>

(* A handler changes the world or the player, or asks for a chunk.          *)
Edit(c) ==
  /\ Running
  /\ client[c] = "handle"
  /\ unsaved' = TRUE
  /\ client' = [client EXCEPT ![c] = "loop"]
  /\ UNCHANGED <<serverVars, poolVars, accepter, listening, kicked, seedVars, boundVars>>

Request(c) ==
  /\ Running
  /\ client[c] = "handle"
  /\ requests < MaxRequests
  /\ requests' = requests + 1
  /\ AddEntry
  /\ client' = [client EXCEPT ![c] = "loop"]
  /\ UNCHANGED <<serverVars, manager, pc, accepter, listening, kicked, unsaved, seedVars,
                 spurious>>

-----------------------------------------------------------------------------
MainStep ==
  \/ AddWorldManager \/ SetSeed \/ SocketBootstrap \/ QueueSpawnArea \/ Drained
  \/ LeaveLoop \/ KickClients \/ SaveAll \/ CloseSocket \/ JoinAccepter \/ Exit

ManagerStep == Running /\ (StartWorkers \/ StopWorkers \/ JoinWorkers)

WorkerStep(w) ==
  /\ Running
  /\ \/ CreateGenerator(w) \/ CheckAlive(w) \/ Return(w) \/ Take(w)
     \/ PrepareToSleep(w) \/ Sleep(w) \/ Finish(w) \/ Retry(w)

AcceptStep == Running /\ (AcceptFails \/ \E c \in Clients : Accept(c))

Environment ==
  \/ PrepareForShutdown
  \/ AutoSave
  \/ \E w \in Workers : Running /\ WakeSpuriously(w)
  \/ \E c \in Clients : Running /\ (ClientLoop(c) \/ Receive(c) \/ Edit(c) \/ Request(c))

Next ==
  \/ MainStep
  \/ ManagerStep
  \/ \E w \in Workers : WorkerStep(w)
  \/ AcceptStep
  \/ Environment

Spec == Init /\ [][Next]_vars

(* Threads that can run do run.  Signals, saves, clients and spurious       *)
(* wake-ups owe nothing.                                                    *)
FairSpec ==
  /\ Spec
  /\ WF_vars(MainStep)
  /\ WF_vars(ManagerStep)
  /\ \A w \in Workers : WF_vars(WorkerStep(w))
  /\ WF_vars(AcceptStep)

-----------------------------------------------------------------------------
(* Types of the variables; a worker in the wait set is at its wait.         *)
Labels == {"none", "create", "loop", "wait", "blocking", "busy", "done"}
MainLabels == {"config", "seed", "bind", "queue", "drain", "serve", "kick", "save",
               "close", "join", "destroy", "exited", "aborted"}

ServerType ==
  /\ alive \in BOOLEAN
  /\ main \in MainLabels
  /\ spawnLeft \in Nat
PoolType ==
  /\ manager \in {"none", "start", "light", "join", "done"}
  /\ pc \in [Workers -> Labels]
  /\ asleep \subseteq {w \in Workers : pc[w] = "wait"}
  /\ queue \in Nat
ClientType ==
  /\ accepter \in {"none", "accept", "done"}
  /\ listening \in BOOLEAN
  /\ client \in [Clients -> {"none", "loop", "read", "handle", "done"}]
  /\ kicked \in BOOLEAN
  /\ unsaved \in BOOLEAN
SeedType ==
  /\ fileExists \in BOOLEAN
  /\ seed \in Seeds
  /\ generatorSeed \in [Workers -> Seeds \cup {"none"}]
BoundType ==
  /\ requests \in 0..MaxRequests
  /\ spurious \in 0..MaxSpurious

(* Every entry was added by main(), by a client or by a retry.              *)
QueueBounded == queue + spawnLeft <= SpawnChunks + requests

(* Run starts the workers.                                                  *)
StartedByRun ==
  /\ main = "config" => manager = "none"
  /\ manager \in {"none", "start"} => \A w \in Workers : pc[w] = "none"

TypeOK ==
  /\ ServerType /\ PoolType /\ ClientType /\ SeedType /\ BoundType
  /\ QueueBounded /\ StartedByRun

-----------------------------------------------------------------------------
(* Safety.                                                                  *)

(* Waking is never short of work: while a worker sleeps, the entries in the *)
(* queue are no more than the workers that do not sleep, so one notify_one  *)
(* per entry is enough (worldManager.cpp:39,154).                           *)
NoSleepOnWork ==
  asleep # {} => queue + Cardinality(asleep) <= Cardinality(Workers)

(* When the process exits, no worker and no accept loop is left that would  *)
(* use the Server, its worlds or its client list while they are destroyed.  *)
NothingOutlivesServer ==
  main = "exited" => /\ \A w \in Workers : pc[w] = "done"
                     /\ accepter = "done"

(* What clients did is on disk when the process exits (server.cpp:126).      *)
SavedAtExit == main = "exited" => ~unsaved

(* Every generator of a world works with the world's seed                    *)
(* (worldManager.cpp:45).                                                    *)
GeneratorsShareSeed ==
  main \notin {"config", "seed"} =>
    \A w \in Workers : generatorSeed[w] \in {"none", seed}

-----------------------------------------------------------------------------
(* Liveness, under FairSpec.                                                *)

(* Entries do not stay in the queue: every insertion finds or wakes a        *)
(* worker that takes it.                                                     *)
QueueServed == queue > 0 ~> (queue = 0 \/ ~alive \/ ~Running)

(* Stop never gets stuck: once main() has left its loop it saves, closes the *)
(* socket, and the accept thread notices, even if it was blocked in accept.  *)
StopReachesExit == main = "kick" ~> main \in {"destroy", "exited"}

(* Run stops the workers (worldManager.cpp:75).                              *)
WorkersStop == (~alive /\ manager = "light") ~> (manager = "done" \/ ~Running)
=============================================================================
