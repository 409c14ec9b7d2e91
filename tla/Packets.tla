-------------------------------- MODULE Packets --------------------------------
(***************************************************************************)
(* What the handler of each packet puts where.  A handler has five ways to *)
(* say something: it writes to the client's own response without a lock    *)
(* (own, in parts between which it is sent), has a command's answer        *)
(* appended to it under the lock (answer), collects for the broadcasts at  *)
(* the end of the bundle, to everybody (all) or to everybody else (others),*)
(* or broadcasts at once (now).  What depends on data a connection does    *)
(* not see is a choice among effects.                                      *)
(***************************************************************************)
EXTENDS Sequences, TLC

Silent == [own |-> <<>>, answer |-> <<>>, all |-> <<>>, others |-> <<>>, now |-> <<>>]

Own(kinds) == [Silent EXCEPT !.own = <<kinds>>]
Answer(kinds) == [Silent EXCEPT !.answer = kinds]
ToAll(kinds) == [Silent EXCEPT !.all = kinds]
ToOthers(kinds) == [Silent EXCEPT !.others = kinds]
AtOnce(kinds) == [Silent EXCEPT !.now = kinds]

(* ----------------------- the player and its entity ---------------------- *)

HandleKeepAlive == {Own(<<"KeepAlive">>)}

HandleUseEntity == {Silent}

HandleRespawn ==
  {Own(<<"PlayerPositionLook", "Respawn">> \o items) : items \in {<<>>, <<"WindowItems">>}}

HandlePlayerGrounded == {Silent}

(* CheckPosition accepts every position, so nobody is teleported back. *)
UpdatePositionForOthers == {ToOthers(<<"EntityTeleport">>)}

HandlePlayerPosition == UpdatePositionForOthers

HandlePlayerLook == {ToOthers(<<"EntityLook">>)}

HandlePlayerPositionLook == UpdatePositionForOthers

HandleHoldingChange == {ToOthers(<<"EntityEquipment">>)}

HandleAnimation == {ToOthers(<<"Animation">>)}

HandleEntityAction == {ToOthers(<<"EntityMetadata">>)}

(* ------------------------------- blocks --------------------------------- *)

(* A block, and the other half of a door, is broadcast as it is changed.    *)
Changes == {<<"BlockChange">>, <<"BlockChange", "BlockChange">>}

HandlePlayerDigging ==
  {Silent}
  \cup {AtOnce(change) : change \in Changes}
  \cup {[own |-> items, answer |-> <<>>, all |-> <<>>, others |-> <<"Soundeffect">>, now |-> change] :
          items \in {<<>>, <<<<"WindowItems">>>>}, change \in Changes}

(* A chest's window is sent before what is in it.                           *)
OpenChest == [Silent EXCEPT !.own = <<<<"OpenWindow">>, <<"WindowItems">>>>]

(* The two halves of a placed door are broadcast one after the other.       *)
HandlePlayerBlockPlacement ==
  {Silent, Own(<<"OpenWindow">>), OpenChest}
  \cup {[Own(<<"SetSlot">>) EXCEPT !.now = change] : change \in Changes}

HandleCloseWindow == {Silent, Own(<<"CloseWindow">>)}

HandleWindowClick == {Silent}

HandleUpdateSign == {ToAll(<<"UpdateSign">>)}

(* -------------------------------- chat ---------------------------------- *)

Chat == <<"ChatMessage">>

HandleChatMessage == {ToAll(Chat)}

(* CommandManager::Parse: a command that fails, or is not known, is         *)
(* answered with the reason. *)
Failed == Answer(Chat)

CommandHelp == {Answer(Chat \o more) : more \in {<<>>, Chat, Chat \o Chat}}
CommandUptime == {Answer(Chat)}
CommandTime == {Answer(Chat), Answer(<<"TimeUpdate">> \o Chat)}
CommandVersion == {Answer(Chat)}
CommandList == {Answer(Chat \o Chat)}
CommandSave == {Answer(Chat \o Chat)}
CommandStop == {Answer(Chat)}
CommandFree == {Answer(Chat \o Chat)}
CommandLoaded == {Failed}
CommandUsage == {Failed}
CommandPopulated == {Failed}
CommandSeed == {Failed}
CommandEntity == {Failed}
CommandModified == {Failed}
CommandRegion == {Failed}
CommandSpawn == {Answer(<<"PlayerPositionLook">>)}
CommandPose == {[Answer(Chat) EXCEPT !.now = <<"EntityMetadata">>]}
CommandSound == {[Answer(Chat) EXCEPT !.now = <<"Soundeffect">>]}
CommandSummon == {[Answer(Chat) EXCEPT !.now = <<"MobSpawn">>]}
CommandPacket == {Answer(<<"custom">>), AtOnce(<<"custom">>)}

Commands ==
  [ help |-> CommandHelp, uptime |-> CommandUptime, time |-> CommandTime,
    version |-> CommandVersion, list |-> CommandList, save |-> CommandSave, stop |-> CommandStop,
    free |-> CommandFree, loaded |-> CommandLoaded, usage |-> CommandUsage,
    populated |-> CommandPopulated, seed |-> CommandSeed, entity |-> CommandEntity,
    modified |-> CommandModified, region |-> CommandRegion, spawn |-> CommandSpawn,
    pose |-> CommandPose, sound |-> CommandSound, summon |-> CommandSummon,
    packet |-> CommandPacket ]

(* The switch of HandlePacket, but for the packets that change the status.  *)
Handlers ==
  [ KeepAlive |-> HandleKeepAlive, ChatMessage |-> HandleChatMessage,
    UseEntity |-> HandleUseEntity, Respawn |-> HandleRespawn, Player |-> HandlePlayerGrounded,
    PlayerPosition |-> HandlePlayerPosition, PlayerLook |-> HandlePlayerLook,
    PlayerPositionLook |-> HandlePlayerPositionLook, HoldingChange |-> HandleHoldingChange,
    Animation |-> HandleAnimation, EntityAction |-> HandleEntityAction,
    PlayerDigging |-> HandlePlayerDigging, PlayerBlockPlacement |-> HandlePlayerBlockPlacement,
    CloseWindow |-> HandleCloseWindow, WindowClick |-> HandleWindowClick,
    UpdateSign |-> HandleUpdateSign ]

(* A chat message that begins with a slash is a command.                    *)
Effects ==
  [kind \in DOMAIN Handlers \cup DOMAIN Commands |->
     IF kind \in DOMAIN Handlers THEN Handlers[kind] ELSE {Failed} \cup Commands[kind]]
===============================================================================
