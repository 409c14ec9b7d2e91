------------------------------ MODULE Population ------------------------------
(***************************************************************************)
(* One worker's generator, and what PopulateChunk does with it: feature    *)
(* after feature, each at a coordinate drawn in the chunk or eight blocks  *)
(* further, so that all of it lies in the chunk and its next neighbours.   *)
(* The chunks are a row along one horizontal axis; the other axis is       *)
(* treated alike.  A step looks at one block of one attempt.               *)
(***************************************************************************)
EXTENDS Features, Sequences, TLC

CONSTANTS Row,         \* chunk coordinates along the axis
          Biomes,      \* the biomes that occur
          TreeSamples  \* values of the tree density noise

ASSUME PopulationAssumption == Row \subseteq Int /\ TreeSamples \subseteq Int

VARIABLES
  made,      \* the chunks in memory
  populated, \* those that are populated
  biomeMap,  \* what the generator last generated: the chunk, and the biome at its corner
  targets,   \* the chunks that are still to be tried after a generation
  job        \* the run of PopulateChunk

populationVars == <<made, populated, biomeMap, targets, job>>

CHUNK_WIDTH == 16

(* ----------------------------- the biomes ------------------------------- *)

(* One tree more in one of ten chunks. *)
NumberOfTrees(biome) ==
  {few + CASE biome \in {"Forest", "Rainforest", "Taiga"} -> sample + 5
           [] biome = "SeasonalForest" -> sample + 2
           [] biome \in {"Desert", "Tundra", "Plains"} -> -20
           [] OTHER -> 0 : few \in {0, 1}, sample \in TreeSamples}

TreeKinds(biome) ==
  CASE biome = "Forest" -> {"birch", "big", "small"}
    [] biome = "Taiga" -> {"taiga", "taigaAlt"}
    [] OTHER -> {"big", "small"}

NumberOfFlowers(biome) ==
  CASE biome \in {"Taiga", "Forest"} -> 2
    [] biome = "SeasonalForest" -> 4
    [] biome = "Plains" -> 3
    [] OTHER -> 0

AmountOfTallgrass(biome) ==
  CASE biome \in {"SeasonalForest", "Forest"} -> 2
    [] biome \in {"Plains", "Rainforest"} -> 10
    [] biome = "Taiga" -> 1
    [] OTHER -> 0

OnlyIn(biome, desert, n) == IF biome = desert THEN n ELSE 0

(* ----------------------------- the program ------------------------------ *)

(* A stage: where its coordinates begin in the chunk, how often it is       *)
(* tried, and how far it reaches. *)
Stage(name, from, times, reach) == [name |-> name, from |-> from, times |-> times, reach |-> reach]

Ground ==
  << Stage("lake", 8, {0, 1}, Lake), Stage("lava lake", 8, {0, 1}, Lake),
     Stage("dungeon", 8, {8}, Dungeon),
     Stage("clay", 0, {10}, Blob(32)), Stage("dirt", 0, {20}, Blob(32)), Stage("gravel", 0, {10}, Blob(32)),
     Stage("coal", 0, {20}, Blob(16)), Stage("iron", 0, {20}, Blob(8)), Stage("gold", 0, {2}, Blob(8)),
     Stage("redstone", 0, {8}, Blob(7)), Stage("diamond", 0, {1}, Blob(7)), Stage("lapis", 0, {1}, Blob(6)) >>

Trees(biome) ==
  << Stage("trees", 8, NumberOfTrees(biome), UNION {Tree(kind) : kind \in TreeKinds(biome)}) >>

Plants(biome) ==
  << Stage("dandelions", 8, {NumberOfFlowers(biome)}, Flowers),
     Stage("tallgrass", 8, {AmountOfTallgrass(biome)}, Tallgrass),
     Stage("deadbush", 8, {OnlyIn(biome, "Desert", 2)}, Deadbush),
     Stage("rose", 8, {0, 1}, Flowers), Stage("brown mushroom", 8, {0, 1}, Flowers),
     Stage("red mushroom", 8, {0, 1}, Flowers),
     Stage("sugarcane", 8, {10}, Sugarcane), Stage("pumpkins", 8, {0, 1}, Pumpkins),
     Stage("cacti", 8, {OnlyIn(biome, "Desert", 10)}, Cacti) >>

(* The sources of water and lava, and the snow, which goes column by column. *)
Surface ==
  << Stage("water", 8, {50}, Liquid), Stage("lava", 8, {20}, Liquid), Stage("snow", 8, {1}, {0}) >>

Program(biome) == Ground \o Trees(biome) \o Plants(biome) \o Surface

(* ------------------------------- the worker ----------------------------- *)

(* Chunks, coordinates and blocks of a job are sets of at most one.         *)
NoBlock == {}

NoJob == [chunk |-> {}, from |-> {}, biome |-> "none", stage |-> 0, left |-> 0,
          at |-> NoBlock, block |-> NoBlock]

Idle == job = NoJob /\ targets = <<>>

(* GetChunk generates a chunk that is nowhere; its biomes replace those of  *)
(* the generator's last chunk.  The squares that the chunk may complete are *)
(* tried, its own first. *)
GenerateChunk(pos) ==
  /\ Idle
  /\ pos \notin made
  /\ made' = made \cup {pos}
  /\ \E biome \in Biomes : biomeMap' = [chunk |-> pos, biome |-> biome]
  /\ targets' = <<pos, pos - 1>>
  /\ UNCHANGED <<populated, job>>

Complete(pos) == {pos, pos + 1} \subseteq made

SkipTarget ==
  /\ job = NoJob
  /\ targets # <<>>
  /\ ~Complete(Head(targets)) \/ Head(targets) \in populated
  /\ targets' = Tail(targets)
  /\ UNCHANGED <<made, populated, biomeMap, job>>

(* GetBiomeAt is asked for the corner of the next chunk and looks at the    *)
(* corner of the map it has. *)
BeginPopulate ==
  /\ job = NoJob
  /\ targets # <<>>
  /\ Complete(Head(targets)) /\ Head(targets) \notin populated
  /\ \E times \in Program(biomeMap.biome)[1].times :
       job' = [NoJob EXCEPT !.chunk = {Head(targets)}, !.from = {biomeMap.chunk}, !.biome = biomeMap.biome,
                            !.stage = 1, !.left = times]
  /\ targets' = Tail(targets)
  /\ UNCHANGED <<made, populated, biomeMap>>

Running == job # NoJob

Current == Program(job.biome)[job.stage]

(* An attempt draws its coordinate. *)
Attempt ==
  /\ Running
  /\ job.left > 0
  /\ \E chunk \in job.chunk, r \in 0 .. CHUNK_WIDTH - 1 :
       job' = [job EXCEPT !.left = @ - 1, !.at = {CHUNK_WIDTH * chunk + r + Current.from}, !.block = NoBlock]
  /\ UNCHANGED <<made, populated, biomeMap, targets>>

(* It reads or writes a block. *)
Touch ==
  /\ Running
  /\ \E at \in job.at, offset \in Current.reach :
       job' = [job EXCEPT !.block = {at + offset}, !.at = NoBlock]
  /\ UNCHANGED <<made, populated, biomeMap, targets>>

NextStage ==
  /\ Running
  /\ job.left <= 0
  /\ job.stage < Len(Program(job.biome))
  /\ \E times \in Program(job.biome)[job.stage + 1].times :
       job' = [job EXCEPT !.stage = @ + 1, !.left = times, !.at = NoBlock, !.block = NoBlock]
  /\ UNCHANGED <<made, populated, biomeMap, targets>>

EndPopulate ==
  /\ Running
  /\ job.left <= 0
  /\ job.stage = Len(Program(job.biome))
  /\ populated' = populated \cup job.chunk
  /\ job' = NoJob
  /\ UNCHANGED <<made, biomeMap, targets>>

PopulationInit ==
  /\ made = {}
  /\ populated = {}
  /\ biomeMap = [chunk |-> 0, biome |-> "none"]
  /\ targets = <<>>
  /\ job = NoJob

PopulationNext ==
  \/ \E pos \in Row : GenerateChunk(pos)
  \/ SkipTarget \/ BeginPopulate \/ Attempt \/ Touch \/ NextStage \/ EndPopulate

PopulationSpec == PopulationInit /\ [][PopulationNext]_populationVars

(* ------------------------------ properties ------------------------------ *)

ChunkOf(block) == block \div CHUNK_WIDTH

(* Whatever is drawn, a feature reads and writes blocks only of chunks that *)
(* GetChunk has seen to be there: the world would drop a write to any other *)
(* and take what it reads there for air, so that the terrain would depend   *)
(* on what else is loaded.  Every offset of 8 in PopulateChunk and in the   *)
(* features is there for this. *)
FootprintInSquare ==
  \A block \in job.block : \A chunk \in job.chunk : ChunkOf(block) \in {chunk, chunk + 1} \cap made

(* The biome of a population is that of the column it asks for, as the      *)
(* comment of GetBiomeAt says.  It does not hold: a chunk that completes    *)
(* its own square is populated with its own biome. *)
BiomeOfTheColumn == \A chunk \in job.chunk : job.from = {chunk + 1}
=============================================================================
