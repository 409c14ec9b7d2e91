---------------------------- MODULE WorldManager ----------------------------
(***************************************************************************)
(* The chunk pipeline of one WorldManager: clients ask for the chunks they *)
(* can see, the requests wait in a queue ordered by the chunk hash, worker *)
(* threads load or generate the chunks, populate those whose neighbours    *)
(* exist, and hand them back to the clients that asked, while the main     *)
(* thread frees the chunks nobody sees and saves the rest.                 *)
(*                                                                         *)
(* Code: world/worldManager.cpp, the chunk map of world/world.cpp,         *)
(* client/clientChunks.cpp and the start-up loop of main.cpp.              *)
(*                                                                         *)
(* Every step of a thread that takes a lock, or that reads or writes state *)
(* another thread writes, is an action.  A chunk object outlives its entry *)
(* in the map (workers hold a shared_ptr to it), so the objects made for a *)
(* position are numbered and the map holds a number.                       *)
(***************************************************************************)
EXTENDS Integers, FiniteSets

CONSTANTS
  Grid,            \* chunk positions <<x, z>> of the instance
  Clients,         \* client sessions
  Workers,         \* worker threads of this WorldManager (max-generator-threads)
  ChunkDistance,   \* view distance in chunks (Server::chunkDistance)
  CoordRange,      \* number of values of uint32_t, the type a coordinate is cast to
  MaxAttempts,     \* MAX_GENERATION_ATTEMPTS
  Spawn,           \* positions main() force-generates before it serves
  MaxObjects,      \* bound: chunk objects ever made for one position
  MaxMoves,        \* bound: DetermineVisibleChunks calls, all clients together
  MaxSaves,        \* bound: FreeAndSave calls
  MaxLeaves        \* bound: clients that disconnect

ASSUME WorldManagerAssumption ==
  /\ Grid \subseteq Int \X Int
  /\ IsFiniteSet(Workers)
  /\ Spawn \subseteq Grid
  /\ ChunkDistance \in Nat
  /\ CoordRange \in Nat \ {0}
  /\ MaxAttempts \in Nat \ {0}
  /\ MaxObjects \in Nat \ {0}
  /\ MaxMoves \in Nat
  /\ MaxSaves \in Nat
  /\ MaxLeaves \in Nat

VARIABLES
  spawnLeft,   \* main(): positions of the spawn area not queued yet
  serving,     \* main(): the accept and tick loops run
  queued,      \* keys of chunkQueue
  waiting,     \* QueueChunk::requestedClients of each key
  attempt,     \* QueueChunk::generationAttempt of each key
  pc,          \* where each worker is in WorkerThread
  job,         \* cq.position of each worker
  jobClients,  \* cq.requestedClients of each worker
  jobAttempt,  \* cq.generationAttempt of each worker
  held,        \* the object GetChunk returned to each worker (0: none)
  try,         \* which of the four tryPopulate calls each worker is at
  target,      \* the object that call populates
  busyWorkers, \* WorldManager::busyWorkers
  mem,         \* World::chunks: the object in the map, 0 if the key is absent
  made,        \* objects made so far for each position
  state, modified, \* Chunk::state and Chunk::modified of every object
  runs,        \* PopulateChunk calls the blocks of every object went through
  file,        \* PopulateChunk runs the saved chunk file has seen, NoFile if none
  online,      \* connectedClients
  todo,        \* positions DetermineVisibleChunks has not processed yet
  newChunks,   \* Client::newChunks
  visible,     \* Client::visibleChunks
  sending,     \* the chunk SendNewChunks is at, under newChunksMutex
  savePc,      \* where FreeAndSave is
  toScan,      \* chunks the current loop of FreeAndSave has still to visit
  unseen,      \* chunksToRemove
  moves, saves, leaves,  \* counters behind the bounds
  asked,       \* history: clients whose request no AddNewChunk has answered
  exhausted,   \* history: clients whose request ran out of attempts
  overtaken    \* history: clients whose retry found its key taken again

mainVars    == <<spawnLeft, serving>>
queueVars   == <<queued, waiting, attempt>>
workerVars  == <<pc, job, jobClients, jobAttempt, held, try, target, busyWorkers>>
objectVars  == <<state, modified, runs>>
worldVars   == <<mem, made, objectVars, file>>
clientVars  == <<online, todo, newChunks, visible, sending>>
saveVars    == <<savePc, toScan, unseen>>
boundVars   == <<moves, saves, leaves>>
historyVars == <<asked, exhausted, overtaken>>
vars == <<mainVars, queueVars, workerVars, worldVars, clientVars, saveVars,
          boundVars, historyVars>>

-----------------------------------------------------------------------------
(* Positions.                                                              *)

NoFile == -1
Plus(p, dx, dz) == <<p[1] + dx, p[2] + dz>>

(* GetChunkHash puts the coordinates, cast to uint32_t, in the two halves of *)
(* a 64-bit key, so a negative coordinate sorts above every positive one.    *)
Unsigned(c) == c % CoordRange
HashAbove(p, q) ==
  \/ Unsigned(p[1]) > Unsigned(q[1])
  \/ Unsigned(p[1]) = Unsigned(q[1]) /\ Unsigned(p[2]) > Unsigned(q[2])

(* DetermineVisibleChunks drops what is further than ChunkDistance but asks  *)
(* only for rings 0 .. ChunkDistance - 1.                                    *)
Within(p, q, d) ==
  /\ p[1] - q[1] <= d /\ q[1] - p[1] <= d
  /\ p[2] - q[2] <= d /\ q[2] - p[2] <= d
Keeps(centre) == {p \in Grid : Within(p, centre, ChunkDistance)}
Asks(centre)  == {p \in Grid : Within(p, centre, ChunkDistance - 1)}

(* The chunk that tryPopulate call k of GetChunk is about, and the square of *)
(* chunks that PopulateChunk writes to.                                      *)
TryTarget(p, k) ==
  CASE k = 1 -> p
    [] k = 2 -> Plus(p, -1, 0)
    [] k = 3 -> Plus(p, 0, -1)
    [] OTHER -> Plus(p, -1, -1)
Square(t) == {t, Plus(t, 1, 0), Plus(t, 0, 1), Plus(t, 1, 1)}

-----------------------------------------------------------------------------
(* Chunks.                                                                 *)

States == {"Invalid", "Generated", "Populating", "Populated"}
InMemory(p) == p \in Grid /\ mem[p] # 0
(* Variant: a chunk in memory is as good as a populated one.                 *)
IsChunkPopulatedInAnyState(p) == InMemory(p)
IsChunkPopulated(p) == InMemory(p) /\ state[p][mem[p]] = "Populated"

(* runs counts the PopulateChunk calls the blocks went through: 0, 1 or more *)
OneMore(n) == IF n = 2 THEN 2 ELSE n + 1

(* World::AddChunk: the new object replaces whatever the map held.           *)
AddChunk(p, s, dirty, n) ==
  /\ made[p] < MaxObjects
  /\ made' = [made EXCEPT ![p] = @ + 1]
  /\ mem' = [mem EXCEPT ![p] = made[p] + 1]
  /\ state' = [state EXCEPT ![p][made[p] + 1] = s]
  /\ modified' = [modified EXCEPT ![p][made[p] + 1] = dirty]
  /\ runs' = [runs EXCEPT ![p][made[p] + 1] = n]

(* Variant: the flag is reset and the write is forgotten.                    *)
SaveChunkUnwritten(p) ==
  /\ modified' = [modified EXCEPT ![p] = [n \in 1..MaxObjects |-> @[n] /\ n # mem[p]]]
  /\ UNCHANGED file

(* World::SaveChunk, with the write and the reset of the flag in one step.   *)
SaveChunk(p) ==
  IF mem[p] # 0 /\ modified[p][mem[p]]
  THEN /\ file' = [file EXCEPT ![p] = runs[p][mem[p]]]
       /\ modified' = [modified EXCEPT ![p][mem[p]] = FALSE]
  ELSE UNCHANGED <<file, modified>>

-----------------------------------------------------------------------------
(* The queue.                                                              *)

(* Variant: emplace alone, which does nothing for a key that is there.       *)
AddChunkToQueueOnce(p, requesters) ==
  IF p \in queued
  THEN UNCHANGED queueVars
  ELSE /\ queued' = queued \cup {p}
       /\ waiting' = [waiting EXCEPT ![p] = requesters]
       /\ attempt' = [attempt EXCEPT ![p] = 0]

(* WorldManager::AddChunkToQueue: a request for a queued position joins the  *)
(* entry, any other makes an entry with no attempts behind it.               *)
AddChunkToQueue(p, requesters) ==
  IF p \in queued
  THEN /\ waiting' = [waiting EXCEPT ![p] = @ \cup requesters]
       /\ UNCHANGED <<queued, attempt>>
  ELSE /\ queued' = queued \cup {p}
       /\ waiting' = [waiting EXCEPT ![p] = requesters]
       /\ attempt' = [attempt EXCEPT ![p] = 0]

-----------------------------------------------------------------------------
Init ==
  /\ spawnLeft = Spawn
  /\ serving = FALSE
  /\ queued = {}
  /\ waiting = [p \in Grid |-> {}]
  /\ attempt = [p \in Grid |-> 0]
  /\ pc = [w \in Workers |-> "wait"]
  /\ job = [w \in Workers |-> <<>>]
  /\ jobClients = [w \in Workers |-> {}]
  /\ jobAttempt = [w \in Workers |-> 0]
  /\ held = [w \in Workers |-> 0]
  /\ try = [w \in Workers |-> 1]
  /\ target = [w \in Workers |-> 0]
  /\ busyWorkers = 0
  /\ mem = [p \in Grid |-> 0]
  /\ made = [p \in Grid |-> 0]
  /\ state = [p \in Grid |-> [n \in 1..MaxObjects |-> "Invalid"]]
  /\ modified = [p \in Grid |-> [n \in 1..MaxObjects |-> FALSE]]
  /\ runs = [p \in Grid |-> [n \in 1..MaxObjects |-> 0]]
  /\ file = [p \in Grid |-> NoFile]
  /\ online = Clients
  /\ todo = [c \in Clients |-> {}]
  /\ newChunks = [c \in Clients |-> {}]
  /\ visible = [c \in Clients |-> {}]
  /\ sending = [c \in Clients |-> {}]
  /\ savePc = "idle"
  /\ toScan = {}
  /\ unseen = {}
  /\ moves = 0
  /\ saves = 0
  /\ leaves = 0
  /\ asked = [p \in Grid |-> {}]
  /\ exhausted = [p \in Grid |-> {}]
  /\ overtaken = [p \in Grid |-> {}]

-----------------------------------------------------------------------------
(* main(): queue the spawn area, wait for IsQueueEmpty, then serve.         *)

ForceGenerateChunk(p) ==
  /\ p \in spawnLeft
  /\ spawnLeft' = spawnLeft \ {p}
  /\ AddChunkToQueue(p, {})
  /\ UNCHANGED <<serving, workerVars, worldVars, clientVars, saveVars, boundVars, historyVars>>

Serve ==
  /\ ~serving
  /\ spawnLeft = {}
  /\ queued = {}
  /\ serving' = TRUE
  /\ UNCHANGED <<spawnLeft, queueVars, workerVars, worldVars, clientVars, saveVars,
                 boundVars, historyVars>>

-----------------------------------------------------------------------------
(* A client thread.  Its packet handlers run one after the other.           *)

Idle(c) == c \in online /\ serving /\ todo[c] = {} /\ sending[c] = {}

(* DetermineVisibleChunks, first loop: the player is now near centre.       *)
DetermineVisibleChunks(c, centre) ==
  /\ Idle(c)
  /\ moves < MaxMoves
  /\ moves' = moves + 1
  /\ visible' = [visible EXCEPT ![c] = @ \cap Keeps(centre)]
  /\ todo' = [todo EXCEPT ![c] = Asks(centre)]

Move(c, centre) ==
  /\ DetermineVisibleChunks(c, centre)
  /\ UNCHANGED <<mainVars, queueVars, workerVars, worldVars, online, newChunks, sending,
                 saveVars, saves, leaves, historyVars>>

(* Teleport and TeleportKeepView forget the chunks that were ready to send. *)
Teleport(c, centre) ==
  /\ DetermineVisibleChunks(c, centre)
  /\ newChunks' = [newChunks EXCEPT ![c] = {}]
  /\ UNCHANGED <<mainVars, queueVars, workerVars, worldVars, online, sending,
                 saveVars, saves, leaves, historyVars>>

(* DetermineVisibleChunks, second loop.                                     *)
ProcessChunk(c, p) ==
  /\ c \in online
  /\ p \in todo[c]
  /\ todo' = [todo EXCEPT ![c] = @ \ {p}]
  /\ \/ /\ p \in visible[c]
        /\ UNCHANGED <<queueVars, newChunks, historyVars>>
     \/ /\ p \notin visible[c]
        /\ ~IsChunkPopulated(p)
        /\ AddChunkToQueue(p, {c})
        /\ asked' = [asked EXCEPT ![p] = @ \cup {c}]
        /\ exhausted' = [exhausted EXCEPT ![p] = @ \ {c}]
        /\ overtaken' = [overtaken EXCEPT ![p] = @ \ {c}]
        /\ UNCHANGED newChunks
     \/ /\ p \notin visible[c]
        /\ IsChunkPopulated(p)
        /\ newChunks' = [newChunks EXCEPT ![c] = @ \cup {p}]
        /\ asked' = [asked EXCEPT ![p] = @ \ {c}]
        /\ UNCHANGED <<queueVars, exhausted, overtaken>>
  /\ UNCHANGED <<mainVars, workerVars, worldVars, online, visible, sending, saveVars,
                 boundVars>>

(* Variant: what was sent stays in newChunks.                               *)
SendChunkAgain(c) ==
  /\ sending[c] # {}
  /\ visible' = [visible EXCEPT ![c] = @ \cup sending[c]]
  /\ sending' = [sending EXCEPT ![c] = {}]
  /\ UNCHANGED <<mainVars, queueVars, workerVars, worldVars, online, todo, newChunks, saveVars,
                 boundVars, historyVars>>

(* SendNewChunks: take a chunk that is populated ...                        *)
SelectChunk(c, p) ==
  /\ Idle(c)
  /\ p \in newChunks[c]
  /\ IsChunkPopulated(p)
  /\ sending' = [sending EXCEPT ![c] = {p}]
  /\ UNCHANGED <<mainVars, queueVars, workerVars, worldVars, online, todo, newChunks,
                 visible, saveVars, boundVars, historyVars>>

(* ... then read its blocks, and send them.                                 *)
SendChunk(c) ==
  /\ sending[c] # {}
  /\ visible' = [visible EXCEPT ![c] = @ \cup sending[c]]
  /\ newChunks' = [newChunks EXCEPT ![c] = @ \ sending[c]]
  /\ sending' = [sending EXCEPT ![c] = {}]
  /\ UNCHANGED <<mainVars, queueVars, workerVars, worldVars, online, todo, saveVars,
                 boundVars, historyVars>>

(* The client's thread ends: it leaves connectedClients and its object goes. *)
Leave(c) ==
  /\ Idle(c)
  /\ leaves < MaxLeaves
  /\ leaves' = leaves + 1
  /\ online' = online \ {c}
  /\ UNCHANGED <<mainVars, queueVars, workerVars, worldVars, todo, newChunks, visible,
                 sending, saveVars, moves, saves, historyVars>>

-----------------------------------------------------------------------------
(* A worker thread.                                                         *)

Goto(w, label) == pc' = [pc EXCEPT ![w] = label]

(* Variant: a worker that is done forgets to count itself out.              *)
ReleaseUncounted(w) ==
  /\ UNCHANGED busyWorkers
  /\ job' = [job EXCEPT ![w] = <<>>]
  /\ jobClients' = [jobClients EXCEPT ![w] = {}]
  /\ jobAttempt' = [jobAttempt EXCEPT ![w] = 0]
  /\ held' = [held EXCEPT ![w] = 0]
  /\ target' = [target EXCEPT ![w] = 0]
  /\ Goto(w, "wait")

(* Every way out of a job: the loop body's locals go out of scope.          *)
Release(w) ==
  /\ busyWorkers' = busyWorkers - 1
  /\ job' = [job EXCEPT ![w] = <<>>]
  /\ jobClients' = [jobClients EXCEPT ![w] = {}]
  /\ jobAttempt' = [jobAttempt EXCEPT ![w] = 0]
  /\ held' = [held EXCEPT ![w] = 0]
  /\ target' = [target EXCEPT ![w] = 0]
  /\ Goto(w, "wait")

(* Take the entry with the highest hash.                                    *)
Pop(w) ==
  /\ pc[w] = "wait"
  /\ \E p \in queued :
       /\ \A q \in queued \ {p} : HashAbove(p, q)
       /\ queued' = queued \ {p}
       /\ job' = [job EXCEPT ![w] = p]
       /\ jobClients' = [jobClients EXCEPT ![w] = waiting[p]]
       /\ jobAttempt' = [jobAttempt EXCEPT ![w] = attempt[p]]
       /\ waiting' = [waiting EXCEPT ![p] = {}]
       /\ attempt' = [attempt EXCEPT ![p] = 0]
  /\ busyWorkers' = busyWorkers + 1
  /\ Goto(w, "lookup")
  /\ UNCHANGED <<mainVars, held, try, target, worldVars, clientVars, saveVars, boundVars,
                 historyVars>>

(* Where GetChunk goes for a chunk that is, or is not, in memory and on disk; *)
(* the first three are variants that leave a test out.                        *)
SourceNotMemory(p) == IF file[p] # NoFile THEN "load" ELSE "generate"
SourceNotFile(p)   == IF mem[p] # 0 THEN "check" ELSE "generate"
SourceAlwaysFile(p) == IF mem[p] # 0 THEN "check" ELSE "load"
Source(p) ==
  IF mem[p] # 0 THEN "check" ELSE IF file[p] # NoFile THEN "load" ELSE "generate"

(* GetChunk: a chunk in memory is returned as it is, else a file is loaded, *)
(* else a chunk is generated.                                               *)
LookUp(w) ==
  /\ pc[w] = "lookup"
  /\ held' = [held EXCEPT ![w] = mem[job[w]]]
  /\ Goto(w, Source(job[w]))
  /\ UNCHANGED <<mainVars, queueVars, job, jobClients, jobAttempt, try, target, busyWorkers,
                 worldVars, clientVars, saveVars, boundVars, historyVars>>

(* LoadOldV2Chunk: whatever the file says, the chunk counts as populated.   *)
Load(w) ==
  /\ pc[w] = "load"
  /\ AddChunk(job[w], "Populated", FALSE, file[job[w]])
  /\ held' = [held EXCEPT ![w] = made[job[w]] + 1]
  /\ Goto(w, "check")
  /\ UNCHANGED <<mainVars, queueVars, job, jobClients, jobAttempt, try, target, busyWorkers,
                 file, clientVars, saveVars, boundVars, historyVars>>

Generate(w) ==
  /\ pc[w] = "generate"
  /\ AddChunk(job[w], "Generated", TRUE, 0)
  /\ held' = [held EXCEPT ![w] = made[job[w]] + 1]
  /\ try' = [try EXCEPT ![w] = 1]
  /\ Goto(w, "try")
  /\ UNCHANGED <<mainVars, queueVars, job, jobClients, jobAttempt, target, busyWorkers,
                 file, clientVars, saveVars, boundVars, historyVars>>

NextTry(w) ==
  /\ try' = [try EXCEPT ![w] = IF @ = 4 THEN 1 ELSE @ + 1]
  /\ Goto(w, IF try[w] = 4 THEN "check" ELSE "try")

(* tryPopulate: the three other chunks of the square must be in memory and  *)
(* the chunk must not be populated.                                         *)
Wanted(p, t) ==
  /\ \A q \in Square(t) \ {p} : InMemory(q)
  /\ InMemory(t)
  /\ ~IsChunkPopulated(t)

TryPopulate(w) ==
  LET t == TryTarget(job[w], try[w])
      wanted == Wanted(job[w], t)
  IN /\ pc[w] = "try"
     /\ \/ /\ wanted
           /\ target' = [target EXCEPT ![w] = mem[t]]
           /\ Goto(w, "begin")
           /\ UNCHANGED try
        \/ /\ ~wanted
           /\ NextTry(w)
           /\ UNCHANGED target
     /\ UNCHANGED <<mainVars, queueVars, job, jobClients, jobAttempt, held, busyWorkers,
                    worldVars, clientVars, saveVars, boundVars, historyVars>>

(* Variant: marked as populated before PopulateChunk runs.                  *)
BeginPopulateDone(w) ==
  LET t == TryTarget(job[w], try[w])
  IN /\ pc[w] = "begin"
     /\ state' = [state EXCEPT ![t][target[w]] = "Populated"]
     /\ Goto(w, "populate")
     /\ UNCHANGED <<mainVars, queueVars, job, jobClients, jobAttempt, held, try, target,
                    busyWorkers, mem, made, modified, runs, file, clientVars, saveVars,
                    boundVars, historyVars>>

BeginPopulate(w) ==
  LET t == TryTarget(job[w], try[w])
  IN /\ pc[w] = "begin"
     /\ state' = [state EXCEPT ![t][target[w]] = "Populating"]
     /\ Goto(w, "populate")
     /\ UNCHANGED <<mainVars, queueVars, job, jobClients, jobAttempt, held, try, target,
                    busyWorkers, mem, made, modified, runs, file, clientVars, saveVars,
                    boundVars, historyVars>>

(* PopulateChunk writes through the world, to the chunks of the square that *)
(* are in memory, and then the object looked up before counts as populated. *)
EndPopulate(w) ==
  LET t == TryTarget(job[w], try[w])
  IN /\ pc[w] = "populate"
     /\ runs' = IF InMemory(t) THEN [runs EXCEPT ![t][mem[t]] = OneMore(@)] ELSE runs
     /\ modified' = [p \in Grid |->
          IF p \in Square(t) /\ mem[p] # 0 THEN [modified[p] EXCEPT ![mem[p]] = TRUE]
                                           ELSE modified[p]]
     /\ state' = [state EXCEPT ![t][target[w]] = "Populated"]
     /\ NextTry(w)
     /\ UNCHANGED <<mainVars, queueVars, job, jobClients, jobAttempt, held, target,
                    busyWorkers, mem, made, file, clientVars, saveVars, boundVars, historyVars>>

HeldState(w) == state[job[w]][held[w]]

(* The count a job that failed goes back with; the variant does not count.  *)
SameAttempt(w) == jobAttempt[w]
NextAttempt(w) == jobAttempt[w] + 1

(* Variant: the entry goes back without its requesters.                      *)
RetryForNobody(w) ==
  /\ pc[w] = "check"
  /\ HeldState(w) # "Populated"
  /\ IF NextAttempt(w) < MaxAttempts /\ job[w] \notin queued
     THEN /\ queued' = queued \cup {job[w]}
          /\ attempt' = [attempt EXCEPT ![job[w]] = NextAttempt(w)]
          /\ UNCHANGED <<waiting, historyVars>>
     ELSE /\ exhausted' = [exhausted EXCEPT ![job[w]] = @ \cup jobClients[w]]
          /\ UNCHANGED <<queueVars, asked, overtaken>>
  /\ Release(w)
  /\ UNCHANGED <<mainVars, try, worldVars, clientVars, saveVars, boundVars>>

(* The chunk is not populated: try again later, up to MaxAttempts times.  An *)
(* emplace on a key that is queued again does nothing.                       *)
Retry(w) ==
  /\ pc[w] = "check"
  /\ HeldState(w) # "Populated"
  /\ \/ /\ NextAttempt(w) < MaxAttempts
        /\ job[w] \notin queued
        /\ queued' = queued \cup {job[w]}
        /\ waiting' = [waiting EXCEPT ![job[w]] = jobClients[w]]
        /\ attempt' = [attempt EXCEPT ![job[w]] = NextAttempt(w)]
        /\ UNCHANGED <<exhausted, overtaken>>
     \/ /\ NextAttempt(w) < MaxAttempts
        /\ job[w] \in queued
        /\ overtaken' = [overtaken EXCEPT ![job[w]] = @ \cup jobClients[w]]
        /\ UNCHANGED <<queueVars, exhausted>>
     \/ /\ NextAttempt(w) >= MaxAttempts
        /\ exhausted' = [exhausted EXCEPT ![job[w]] = @ \cup jobClients[w]]
        /\ UNCHANGED <<queueVars, overtaken>>
  /\ Release(w)
  /\ UNCHANGED <<mainVars, try, worldVars, clientVars, saveVars, boundVars, asked>>

(* AddNewChunk on every requester that is still there, each under its        *)
(* newChunksMutex.                                                           *)
Deliver(w) ==
  /\ pc[w] = "check"
  /\ HeldState(w) = "Populated"
  /\ \A c \in jobClients[w] \cap online : sending[c] = {}
  /\ newChunks' = [c \in Clients |->
       IF c \in jobClients[w] \cap online THEN newChunks[c] \cup {job[w]} ELSE newChunks[c]]
  /\ asked' = [asked EXCEPT ![job[w]] = @ \ jobClients[w]]
  /\ Release(w)
  /\ UNCHANGED <<mainVars, queueVars, try, worldVars, online, todo, visible, sending,
                 saveVars, boundVars, exhausted, overtaken>>

-----------------------------------------------------------------------------
(* FreeAndSave, on the main thread.                                         *)

Loaded == {p \in Grid : mem[p] # 0}

BeginSave ==
  /\ serving
  /\ savePc = "idle"
  /\ saves < MaxSaves
  /\ saves' = saves + 1
  /\ savePc' = "scan"
  /\ toScan' = Loaded
  /\ UNCHANGED <<mainVars, queueVars, workerVars, worldVars, clientVars, unseen, moves,
                 leaves, historyVars>>

(* FreeUnseenChunks, first loop: save what no client sees.                  *)
ScanChunk(p) ==
  /\ savePc = "scan"
  /\ p \in toScan
  /\ toScan' = toScan \ {p}
  /\ IF \E c \in online : p \in visible[c]
     THEN UNCHANGED <<file, modified, unseen>>
     ELSE SaveChunk(p) /\ unseen' = unseen \cup {p}
  /\ UNCHANGED <<mainVars, queueVars, workerVars, mem, made, state, runs, clientVars, savePc, boundVars,
                 historyVars>>

EndScan ==
  /\ savePc = "scan"
  /\ toScan = {}
  /\ savePc' = "remove"
  /\ UNCHANGED <<mainVars, queueVars, workerVars, worldVars, clientVars, toScan, unseen,
                 boundVars, historyVars>>

(* FreeUnseenChunks, second loop: World::RemoveChunk.                       *)
RemoveChunk(p) ==
  /\ savePc = "remove"
  /\ p \in unseen
  /\ unseen' = unseen \ {p}
  /\ mem' = [mem EXCEPT ![p] = 0]
  /\ UNCHANGED <<mainVars, queueVars, workerVars, made, objectVars, file, clientVars, savePc,
                 toScan, boundVars, historyVars>>

EndRemove ==
  /\ savePc = "remove"
  /\ unseen = {}
  /\ savePc' = "save"
  /\ toScan' = Loaded
  /\ UNCHANGED <<mainVars, queueVars, workerVars, worldVars, clientVars, unseen, boundVars,
                 historyVars>>

(* World::Save.                                                             *)
SaveRemaining(p) ==
  /\ savePc = "save"
  /\ p \in toScan
  /\ toScan' = toScan \ {p}
  /\ SaveChunk(p)
  /\ UNCHANGED <<mainVars, queueVars, workerVars, mem, made, state, runs, clientVars,
                 savePc, unseen, boundVars, historyVars>>

EndSave ==
  /\ savePc = "save"
  /\ toScan = {}
  /\ savePc' = "idle"
  /\ UNCHANGED <<mainVars, queueVars, workerVars, worldVars, clientVars, toScan, unseen,
                 boundVars, historyVars>>

-----------------------------------------------------------------------------
MainStep == (\E p \in Grid : ForceGenerateChunk(p)) \/ Serve

SaveStep ==
  \/ \E p \in Grid : ScanChunk(p) \/ RemoveChunk(p) \/ SaveRemaining(p)
  \/ EndScan \/ EndRemove \/ EndSave

WorkerStep(w) ==
  \/ Pop(w) \/ LookUp(w) \/ Load(w) \/ Generate(w)
  \/ TryPopulate(w) \/ BeginPopulate(w) \/ EndPopulate(w)
  \/ Retry(w) \/ Deliver(w)

ClientStep(c) ==
  \/ \E p \in Grid : ProcessChunk(c, p) \/ SelectChunk(c, p)
  \/ SendChunk(c)

Environment ==
  \/ \E c \in Clients, p \in Grid : Move(c, p) \/ Teleport(c, p)
  \/ \E c \in Clients : Leave(c)
  \/ BeginSave

Next ==
  \/ MainStep
  \/ SaveStep
  \/ \E w \in Workers : WorkerStep(w)
  \/ \E c \in Clients : ClientStep(c)
  \/ Environment

Spec == Init /\ [][Next]_vars

(* Every thread that can run does run; nobody is obliged to move, to leave  *)
(* or to start a save.                                                      *)
Fairness ==
  /\ WF_vars(MainStep)
  /\ WF_vars(SaveStep)
  /\ \A w \in Workers : WF_vars(WorkerStep(w))
  /\ \A c \in Clients : WF_vars(ClientStep(c))
FairSpec == Spec /\ Fairness

-----------------------------------------------------------------------------
(* Types of the variables.                                                  *)
Labels == {"wait", "lookup", "load", "generate", "try", "begin", "populate", "check"}

MainType ==
  /\ spawnLeft \subseteq Grid
  /\ serving \in BOOLEAN
QueueType ==
  /\ queued \subseteq Grid
  /\ waiting \in [Grid -> SUBSET Clients]
  /\ attempt \in [Grid -> 0..MaxAttempts]
WorkerType ==
  /\ pc \in [Workers -> Labels]
  /\ job \in [Workers -> Grid \cup {<<>>}]
  /\ jobClients \in [Workers -> SUBSET Clients]
  /\ jobAttempt \in [Workers -> 0..MaxAttempts]
  /\ held \in [Workers -> 0..MaxObjects]
  /\ try \in [Workers -> 1..4]
  /\ target \in [Workers -> 0..MaxObjects]
  /\ busyWorkers \in Int
WorldType ==
  /\ mem \in [Grid -> 0..MaxObjects]
  /\ made \in [Grid -> 0..MaxObjects]
  /\ state \in [Grid -> [1..MaxObjects -> States]]
  /\ modified \in [Grid -> [1..MaxObjects -> BOOLEAN]]
  /\ runs \in [Grid -> [1..MaxObjects -> 0..2]]
  /\ file \in [Grid -> -1..2]
ClientType ==
  /\ online \subseteq Clients
  /\ todo \in [Clients -> SUBSET Grid]
  /\ newChunks \in [Clients -> SUBSET Grid]
  /\ visible \in [Clients -> SUBSET Grid]
  /\ sending \in [Clients -> SUBSET Grid]
SaveType ==
  /\ savePc \in {"idle", "scan", "remove", "save"}
  /\ toScan \subseteq Grid
  /\ unseen \subseteq Grid
BoundType ==
  /\ moves \in 0..MaxMoves
  /\ saves \in 0..MaxSaves
  /\ leaves \in 0..MaxLeaves
HistoryType ==
  /\ asked \in [Grid -> SUBSET Clients]
  /\ exhausted \in [Grid -> SUBSET Clients]
  /\ overtaken \in [Grid -> SUBSET Clients]

(* A worker with a job has a position, and one about to load has a file to  *)
(* load: a file never goes away.                                            *)
JobsPlaced ==
  \A w \in Workers :
    /\ pc[w] # "wait" => job[w] \in Grid
    /\ pc[w] = "load" => file[job[w]] # NoFile

TypeOK ==
  /\ MainType /\ QueueType /\ WorkerType /\ WorldType
  /\ ClientType /\ SaveType /\ BoundType /\ HistoryType /\ JobsPlaced

-----------------------------------------------------------------------------
(* Safety.                                                                  *)

Busy == {w \in Workers : pc[w] # "wait"}

(* busyWorkers, read by the usage report, is the number of workers that have *)
(* a job: every way out of a job gives the count back exactly once.          *)
BusyWorkersExact == busyWorkers = Cardinality(Busy)

(* A request is never silently forgotten: until AddNewChunk answers it, the  *)
(* client is in the queue entry or with a worker, unless the attempts ran    *)
(* out or the retry found its key taken by a newer request.                  *)
RequestAccounted ==
  \A p \in Grid : \A c \in asked[p] :
    \/ c \in waiting[p] /\ p \in queued
    \/ \E w \in Workers : pc[w] # "wait" /\ job[w] = p /\ c \in jobClients[w]
    \/ c \in exhausted[p] \cup overtaken[p]

(* What is in memory and not marked modified is on disk, and so is all that  *)
(* FreeUnseenChunks is about to drop: no chunk is dropped without ever       *)
(* having been written.                                                      *)
CleanHasFile ==
  \A p \in Grid :
    /\ InMemory(p) /\ ~modified[p][mem[p]] => file[p] # NoFile
    /\ p \in unseen => file[p] # NoFile

(* GetChunk returns the chunk that is in memory: it puts a new object in the *)
(* map only where there is none (worldManager.cpp:195,200).                  *)
NeverReplaced ==
  [][\A p \in Grid : made'[p] # made[p] => mem[p] = 0]_vars

(* A chunk that was saved is loaded, never generated a second time, which    *)
(* would lose what the players built on it.                                  *)
NeverRegenerated ==
  [][\A p \in Grid :
       made'[p] # made[p] /\ file[p] # NoFile => runs'[p][made'[p]] = file[p]
                                              /\ ~modified'[p][made'[p]]]_vars

(* A chunk counts as populated only after PopulateChunk ran on it            *)
(* (worldManager.cpp:235).                                                   *)
PopulatedIsPopulated ==
  \A p \in Grid : IsChunkPopulated(p) => runs[p][mem[p]] > 0

(* What the code keeps of it: PopulateChunk ran on the chunk, or the chunk   *)
(* was saved, freed and loaded before PopulateChunk could run                *)
(* (worldManager.cpp:211,235).                                               *)
PopulatedUnlessSavedBefore ==
  \A p \in Grid : IsChunkPopulated(p) /\ runs[p][mem[p]] = 0 => file[p] = 0

(* A client is never sent a chunk that is still to be populated, from the    *)
(* answer of a worker neither (clientChunks.cpp:120).                        *)
SentUnlessFreed ==
  [][\A c \in Clients : \A p \in visible'[c] \ visible[c] :
       InMemory(p) => state[p][mem[p]] = "Populated"]_vars

-----------------------------------------------------------------------------
(* Liveness, under FairSpec.                                                *)

(* The retries end: without new requests the queue runs empty and every     *)
(* worker comes to rest, so main() stops waiting for the spawn area.        *)
QueueDrains == <>serving /\ <>[](queued = {} /\ Busy = {})

(* Every request is settled: it is answered, or its attempts run out, or a   *)
(* newer request for the chunk took its place, or the client left.           *)
RequestSettled ==
  \A c \in Clients, p \in Grid :
    c \in asked[p] ~>
      (c \notin asked[p] \/ c \notin online \/ c \in exhausted[p] \cup overtaken[p])

(* A chunk in newChunks is sent, unless a teleport clears it or the chunk is *)
(* freed (clientChunks.cpp:97).                                              *)
ReadyIsSent ==
  \A c \in Clients, p \in Grid :
    p \in newChunks[c] ~>
      (p \notin newChunks[c] \/ c \notin online \/ ~IsChunkPopulated(p))
=============================================================================
