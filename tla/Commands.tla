-------------------------------- MODULE Commands -------------------------------
(***************************************************************************)
(* Players in the game: their packets, the commands they type, the lists   *)
(* of operators and of the whitelist with their files, the periodic save,  *)
(* and the end of the process at any point.                                *)
(*                                                                         *)
(* Each client has a thread of its own, main() is another.  A command runs *)
(* in the thread of the player who typed it, also when it acts on another. *)
(***************************************************************************)
EXTENDS Player, SequencesExt

CONSTANTS Others,    \* names that are listed, and nobody plays under
          OldLists,  \* the list files, by kind, when the server is first started
          MaxOps,    \* bound: packets and commands that change something
          MaxSaves,  \* bound: saves by main() or by /save
          MaxCrashes \* bound: ends of the process

VARIABLES
  lists,     \* kind -> the names in memory, in their order
  listFiles, \* kind -> the names on file
  tasks,     \* thread -> what it is doing with a list
  booting,   \* kinds main() has still to read
  rules,     \* the game rules that matter here
  granted,   \* kind -> history: the names that should be listed
  spoiled,   \* kind -> history: two threads at one file, or the process ended at it
  ops, savesBegun, crashes \* counters for the bounds

listVars == <<lists, listFiles, tasks, booting, granted, spoiled>>
vars == <<playerVars, listVars, rules, ops, savesBegun, crashes>>

Kinds == {"operators", "whitelist"}
Idle == [at |-> "idle"]

ASSUME ListAssumption ==
  /\ OldLists \subseteq [Kinds -> Seq(Names \cup Others)]
  /\ "main" \notin Names
  /\ MaxOps \in Nat

ListThreads == Names \cup {"main"}

Busy(thread) == tasks[thread].at # "idle"

(* ------------------------------ permissions ----------------------------- *)

(* What a command asks of its player: anybody, creative mode, or operator. *)
Requires ==
  [ help |-> "any", version |-> "any", list |-> "any", pose |-> "any", spawn |-> "any",
    interface |-> "any", tp |-> "creative", give |-> "creative", health |-> "creative",
    uptime |-> "op", time |-> "op", op |-> "op", deop |-> "op", whitelist |-> "op", kick |-> "op",
    creative |-> "op", sound |-> "op", kill |-> "op", gamerule |-> "op", save |-> "op",
    stop |-> "op", free |-> "op", loaded |-> "op", usage |-> "op", summon |-> "op",
    populated |-> "op", region |-> "op", seed |-> "op", entity |-> "op", modified |-> "op",
    packet |-> "op" ]

Listed(kind, name) == \E i \in DOMAIN lists[kind] : lists[kind][i] = name

(* An operator may do anything, also what asks for creative mode. *)
CheckPermissions(name, label) ==
  \/ Listed("operators", name)
  \/ Requires[label] = "any"
  \/ Requires[label] = "creative" /\ creative[name]

(* A command in the thread of a player who is not in the middle of one. *)
Types(name, label) ==
  /\ In(name) /\ ~Busy(name) /\ ops < MaxOps
  /\ CheckPermissions(name, label)
  /\ ops' = ops + 1
  /\ UNCHANGED <<savesBegun, crashes>>

(* ------------------------------- the lists ------------------------------ *)

Overlap(thread, kind) == \E t \in ListThreads \ {thread} : Busy(t) /\ tasks[t].kind = kind

Task(thread, kind, at, names) ==
  /\ tasks' = [tasks EXCEPT ![thread] = [at |-> at, kind |-> kind, names |-> names]]
  /\ spoiled' = [spoiled EXCEPT ![kind] = @ \/ Overlap(thread, kind)]

(* AddGeneric: a name is appended and the file written, unless it is there. *)
AddGeneric(thread, kind, name) ==
  /\ granted' = [granted EXCEPT ![kind] = @ \cup {name}]
  /\ IF Listed(kind, name) THEN UNCHANGED <<lists, tasks, spoiled>>
     ELSE /\ lists' = [lists EXCEPT ![kind] = Append(@, name)]
          /\ Task(thread, kind, "open", <<>>)
  /\ UNCHANGED <<listFiles, booting>>

(* Variant: a name is removed from memory and not from the file. *)
RemoveInMemory(thread, kind, name) ==
  /\ granted' = [granted EXCEPT ![kind] = @ \ {name}]
  /\ lists' = [lists EXCEPT ![kind] = RemoveFirst(@, name)]
  /\ UNCHANGED <<tasks, spoiled, listFiles, booting>>

(* RemoveGeneric. *)
RemoveGeneric(thread, kind, name) ==
  /\ granted' = [granted EXCEPT ![kind] = @ \ {name}]
  /\ IF ~Listed(kind, name) THEN UNCHANGED <<lists, tasks, spoiled>>
     ELSE /\ lists' = [lists EXCEPT ![kind] = RemoveFirst(@, name)]
          /\ Task(thread, kind, "open", <<>>)
  /\ UNCHANGED <<listFiles, booting>>

(* ReadGeneric begins: the file is small enough to be buffered whole. *)
ReadGeneric(thread, kind) ==
  /\ Task(thread, kind, "read", listFiles[kind])
  /\ UNCHANGED <<lists, listFiles, granted>>

(* One turn of its loop.  A name that is not in memory is added, and for    *)
(* that the file that is being read is written.                             *)
ReadName(thread) ==
  /\ tasks[thread].at = "read" /\ tasks[thread].names # <<>>
  /\ LET kind == tasks[thread].kind
         name == Head(tasks[thread].names)
     IN IF Listed(kind, name)
        THEN /\ tasks' = [tasks EXCEPT ![thread].names = Tail(@)]
             /\ UNCHANGED <<lists, spoiled>>
        ELSE /\ lists' = [lists EXCEPT ![kind] = Append(@, name)]
             /\ Task(thread, kind, "open", Tail(tasks[thread].names))
  /\ UNCHANGED <<listFiles, booting, granted>>

ReadEnd(thread) ==
  /\ tasks[thread].at = "read" /\ tasks[thread].names = <<>>
  /\ tasks' = [tasks EXCEPT ![thread] = Idle]
  /\ UNCHANGED <<lists, listFiles, booting, granted, spoiled>>

(* WriteGeneric: the file is emptied when it is opened. *)
OpenList(thread) ==
  /\ tasks[thread].at = "open"
  /\ listFiles' = [listFiles EXCEPT ![tasks[thread].kind] = <<>>]
  /\ tasks' = [tasks EXCEPT ![thread].at = "write"]
  /\ UNCHANGED <<lists, booting, granted, spoiled>>

(* The names are written, and ReadGeneric goes on where it was. *)
WriteList(thread) ==
  /\ tasks[thread].at = "write"
  /\ listFiles' = [listFiles EXCEPT ![tasks[thread].kind] = lists[tasks[thread].kind]]
  /\ tasks' = [tasks EXCEPT ![thread].at = "read"]
  /\ UNCHANGED <<lists, booting, granted, spoiled>>

ListStep(thread) ==
  /\ ~crashed
  /\ ReadName(thread) \/ ReadEnd(thread) \/ OpenList(thread) \/ WriteList(thread)
  /\ UNCHANGED <<playerVars, rules, ops, savesBegun, crashes>>

(* main() reads both files before it lets anybody in. *)
Boot(kind) ==
  /\ ~crashed /\ ~Busy("main") /\ kind \in booting
  /\ kind = "whitelist" => "operators" \notin booting
  /\ booting' = booting \ {kind}
  /\ ReadGeneric("main", kind)
  /\ UNCHANGED <<playerVars, rules, ops, savesBegun, crashes>>

Serving == booting = {} /\ ~Busy("main")

(* ------------------------------- commands ------------------------------- *)

CommandOp(name, target) ==
  /\ Types(name, "op") /\ AddGeneric(name, "operators", target) /\ UNCHANGED <<playerVars, rules>>

CommandDeop(name, target) ==
  /\ Types(name, "deop") /\ RemoveGeneric(name, "operators", target) /\ UNCHANGED <<playerVars, rules>>

CommandWhitelist(name, target) ==
  /\ Types(name, "whitelist")
  /\ \/ AddGeneric(name, "whitelist", target)
     \/ RemoveGeneric(name, "whitelist", target)
     \/ ReadGeneric(name, "whitelist") /\ UNCHANGED booting
  /\ UNCHANGED <<playerVars, rules>>

(* A give that does not fit keeps what did, and the client is not told. *)
CommandGive(name, id, amount) ==
  /\ Types(name, "give")
  /\ LET item == [id |-> id, amount |-> IF amount < 0 THEN GetMaxStack(id) ELSE amount, damage |-> 0]
         given == Give(slots[name], item)
     IN /\ slots' = [slots EXCEPT ![name] = given.slots]
        /\ balance' = [balance EXCEPT ![name] = @ + item.amount - given.left]
  /\ UNCHANGED <<online, held, creative, health, windowIndex, activeWindow, screen, file, saves,
                 left, mixed, crashed, listVars, rules>>

CommandKick(name, target) ==
  /\ Types(name, "kick") /\ Leave(target) /\ UNCHANGED <<listVars, rules>>

CommandHealth(name, n) ==
  /\ Types(name, "health") /\ SetHealth(name, n) /\ UNCHANGED <<listVars, rules>>

(* The player of a name that no client has is looked for behind a null      *)
(* pointer. *)
CommandKill(name, target) ==
  /\ Types(name, "kill")
  /\ IF target \in Others \/ online[target] = "out" THEN crashed' = TRUE /\ UNCHANGED health
     ELSE health' = [health EXCEPT ![target] = Clamped(0)] /\ UNCHANGED crashed
  /\ UNCHANGED <<online, slots, held, creative, windowIndex, activeWindow, screen, balance, file, saves,
                 left, mixed, listVars, rules>>

CommandCreative(name) ==
  /\ Types(name, "creative")
  /\ creative' = [creative EXCEPT ![name] = ~@]
  /\ UNCHANGED <<online, slots, held, health, windowIndex, activeWindow, screen, balance, file, saves,
                 left, mixed, crashed, listVars, rules>>

CommandGamerule(name, rule) ==
  /\ Types(name, "gamerule")
  /\ rules' = [rules EXCEPT ![rule] = ~@]
  /\ UNCHANGED <<playerVars, listVars>>

(* Any player may open a window, also on top of another one. *)
CommandInterface(name, type) ==
  /\ Types(name, "interface")
  /\ OpenWindow(name, type)
  /\ UNCHANGED <<online, slots, held, creative, health, balance, file, saves, left, mixed, crashed,
                 listVars, rules>>

Command(name) ==
  \/ \E target \in Names \cup Others : \/ CommandOp(name, target)
                                       \/ CommandDeop(name, target)
                                       \/ CommandWhitelist(name, target)
                                       \/ CommandKill(name, target)
  \/ \E target \in Names : CommandKick(name, target)
  \/ \E id \in Placeable, amount \in {-1, 1} : CommandGive(name, id, amount)
  \/ \E n \in HealthArgs : CommandHealth(name, n)
  \/ CommandCreative(name)
  \/ \E rule \in {"keepInventory", "doTileDrops"} : CommandGamerule(name, rule)
  \/ \E type \in Clicked \cap {CHEST, CRAFTING_TABLE} : CommandInterface(name, type)

(* -------------------------------- packets ------------------------------- *)

Handler(name) ==
  \/ rules.doTileDrops /\ \E b \in Dug : Dig(name, b[1], b[2])
  \/ Place(name)
  \/ \E c \in 0 .. COLS - 1 : c # held[name] /\ ChangeHeldItem(name, c)
  \/ Respawn(name, rules.keepInventory)
  \/ \E type \in Clicked : ClickBlock(name, type)
  \/ CloseWindow(name)

Packet(name) ==
  /\ ~Busy(name) /\ ops < MaxOps
  /\ Handler(name)
  /\ ops' = ops + 1
  /\ UNCHANGED <<listVars, rules, savesBegun, crashes>>

(* What happens around the handlers. *)
Session(name) ==
  /\ Serving
  /\ Login(name) \/ (~Busy(name) /\ Leave(name)) \/ Gone(name) \/ ShowWindow(name)
  /\ UNCHANGED <<listVars, rules, ops, savesBegun, crashes>>

(* SaveAll, by main() or by an operator: one player after another. *)
SaveAll(name) ==
  /\ ~crashed /\ online[name] # "out" /\ savesBegun < MaxSaves
  /\ \A other \in Names : ~Saving(other, "main")
  /\ BeginSave(name, "main")
  /\ savesBegun' = savesBegun + 1
  /\ UNCHANGED <<online, slots, held, creative, health, windowIndex, activeWindow, screen, balance,
                 file, left, crashed, listVars, rules, ops, crashes>>

SaveStep(name, t) ==
  /\ ~crashed
  /\ \/ OpenFile(name, t)
     \/ WriteFile(name, t)
  /\ UNCHANGED <<online, slots, held, creative, health, windowIndex, activeWindow, screen, balance,
                 left, mixed, crashed, listVars, rules, ops, savesBegun, crashes>>

(* The process ends, by itself or by a null pointer, and is started again. *)
Restart ==
  /\ crashes < MaxCrashes
  /\ crashes' = crashes + 1
  /\ online' = [n \in Names |-> "out"]
  /\ mixed' = [n \in Names |-> mixed[n] \/ online[n] # "out" \/ \E t \in Threads : Saving(n, t)]
  /\ saves' = [n \in Names |-> [t \in Threads |-> NotSaving]]
  /\ crashed' = FALSE
  /\ lists' = [k \in Kinds |-> <<>>]
  /\ tasks' = [t \in ListThreads |-> Idle]
  /\ booting' = Kinds
  /\ spoiled' = [k \in Kinds |-> spoiled[k] \/ \E t \in ListThreads : Busy(t) /\ tasks[t].kind = k]
  /\ rules' = [keepInventory |-> TRUE, doTileDrops |-> TRUE]
  /\ Destroyed(Names)
  /\ UNCHANGED <<file, left, listFiles, granted, ops, savesBegun>>

Init ==
  /\ online = [n \in Names |-> "out"]
  /\ slots = [n \in Names |-> EmptySlots]
  /\ held = [n \in Names |-> 0]
  /\ creative = [n \in Names |-> FALSE]
  /\ health = [n \in Names |-> HEALTH_MAX]
  /\ windowIndex = [n \in Names |-> 0]
  /\ activeWindow = [n \in Names |-> NONE]
  /\ screen = [n \in Names |-> NoScreen]
  /\ balance = [n \in Names |-> 0]
  /\ file \in [Names -> OldFiles]
  /\ saves = [n \in Names |-> [t \in Threads |-> NotSaving]]
  /\ left = [n \in Names |-> EmptySlots]
  /\ mixed = [n \in Names |-> TRUE]
  /\ crashed = FALSE
  /\ listFiles \in OldLists
  /\ lists = [k \in Kinds |-> <<>>]
  /\ granted = [k \in Kinds |-> ToSet(listFiles[k])]
  /\ spoiled = [k \in Kinds |-> FALSE]
  /\ tasks = [t \in ListThreads |-> Idle]
  /\ booting = Kinds
  /\ rules = [keepInventory |-> TRUE, doTileDrops |-> TRUE]
  /\ ops = 0 /\ savesBegun = 0 /\ crashes = 0

Next ==
  \/ \E name \in Names : Command(name) \/ Packet(name) \/ Session(name) \/ SaveAll(name)
  \/ \E name \in Names, t \in Threads : SaveStep(name, t)
  \/ \E thread \in ListThreads : ListStep(thread)
  \/ \E kind \in Kinds : Boot(kind)
  \/ Restart

Spec == Init /\ [][Next]_vars

-----------------------------------------------------------------------------
(* The types, and that no slot ever holds an overfull stack or the remains *)
(* of an item that was used up. *)
TypeOK ==
  /\ online \in [Names -> {"out", "in", "leaving"}]
  /\ slots \in [Names -> Slots]
  /\ held \in [Names -> 0 .. COLS - 1]
  /\ creative \in [Names -> BOOLEAN]
  /\ health \in [Names -> 0 .. HEALTH_MAX]
  /\ windowIndex \in [Names -> 0 .. MaxOps]
  /\ activeWindow \in [Names -> WindowTypes]
  /\ \A n \in Names : windowIndex[n] = 0 <=> activeWindow[n] = NONE
  /\ mixed \in [Names -> BOOLEAN]
  /\ \A k \in Kinds : IsInjective(lists[k]) /\ ToSet(lists[k]) \subseteq Names \cup Others
  /\ booting \subseteq Kinds

(* Items are neither made nor lost by the slots: whatever was broken, given *)
(* and placed, in whatever order, and however the item was split between a *)
(* begun stack, the hotbar and the rows, and however often the player came *)
(* back, it has what it was given and has not placed, less what did not    *)
(* fit.                                                                    *)
Conserved == \A n \in Names : online[n] = "in" => Owned(slots[n]) = balance[n]

(* A player who comes back has what it had when it left, slot for slot,    *)
(* unless another thread was saving it at the same time or the process     *)
(* ended before its file was written.                                      *)
ComesBackWithAll ==
  [][\A n \in Names : online[n] = "out" /\ online'[n] = "in" /\ ~mixed[n] => slots'[n] = left[n]]_vars

(* Rights are kept over restarts: when nobody works on a list, it has the  *)
(* names that were added and not removed, and so has its file; unless two  *)
(* threads worked on it at once, or the process ended while one did, be it *)
(* only reading.                                                           *)
RightsKept ==
  \A k \in Kinds :
    Serving /\ ~spoiled[k] /\ (\A t \in ListThreads : Busy(t) => tasks[t].kind # k)
      => ToSet(lists[k]) = granted[k] /\ listFiles[k] = lists[k]
===============================================================================
