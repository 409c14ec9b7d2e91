---------------------------- MODULE ClientSession ----------------------------
(***************************************************************************)
(* The sessions of clients: the accept thread adds a client to             *)
(* connectedClients, the client's own thread takes it through handshake    *)
(* and login, anybody may disconnect it, and its thread removes it at the   *)
(* end.  Meanwhile the main thread saves the players of all clients.       *)
(*                                                                         *)
(* Code: server.h (ServerJoin), server.cpp (FindClientByUsername, SaveAll), *)
(* client/client.cpp (HandlePacket, HandleClient, DisconnectClient,        *)
(* CreatePlayer), client/clientPackets.cpp (HandleHandshake,               *)
(* HandleLoginRequest, HandleDisconnect), misc/commands/command.cpp         *)
(* (CommandKick).                                                          *)
(*                                                                         *)
(* A handler is split where another thread's step in between makes a       *)
(* difference.  What the packets of a connected player do is elsewhere.    *)
(***************************************************************************)
EXTENDS Integers, Sequences, FiniteSets

CONSTANTS
  Clients,      \* sockets that may be accepted
  Names,        \* usernames the clients send
  Whitelist,    \* names on the whitelist (all of Names when it is disabled)
  MaxPlayers,   \* maximumPlayers
  MaxLogins     \* bound: players ever created

ASSUME SessionAssumption ==
  /\ Whitelist \subseteq Names
  /\ MaxPlayers \in Nat
  /\ MaxLogins \in Nat

VARIABLES
  connected,    \* connectedClients, in the order of the vector
  status,       \* connectionStatus of each client
  username,     \* Client::username, NoName at first
  player,       \* entity id of Client::player, NoPlayer while it is null
  playerName,   \* Client::player->username
  pc,           \* where each client's thread is
  asked,        \* the name in the login request being handled
  latestEntityId, \* Server::latestEntityId
  failure       \* which code used a null player, "none" so far

vars == <<connected, status, username, player, playerName, pc, asked, latestEntityId, failure>>

NoName == "no name"
NoPlayer == -1
Members == {connected[i] : i \in DOMAIN connected}

Init ==
  /\ connected = <<>>
  /\ status = [c \in Clients |-> "Disconnected"]
  /\ username = [c \in Clients |-> NoName]
  /\ player = [c \in Clients |-> NoPlayer]
  /\ playerName = [c \in Clients |-> NoName]
  /\ pc = [c \in Clients |-> "none"]
  /\ asked = [c \in Clients |-> NoName]
  /\ latestEntityId = 0
  /\ failure = "none"

-----------------------------------------------------------------------------
Goto(c, label)   == pc' = [pc EXCEPT ![c] = label]
SetStatus(c, s)  == status' = [status EXCEPT ![c] = s]

(* FindClientByUsername: the first client of the vector that has the name.  *)
FindClientByUsername(name) ==
  {connected[i] : i \in {i \in DOMAIN connected :
     /\ username[connected[i]] = name
     /\ \A j \in 1..(i - 1) : username[connected[j]] # name}}

(* vector::erase.                                                           *)
Erase(s, i) == [j \in 1..(Len(s) - 1) |-> IF j < i THEN s[j] ELSE s[j + 1]]

(* Variant of the test below that lets one client too many in.              *)
SlotFreeOffByOne == Len(connected) <= MaxPlayers
SlotFree == Len(connected) < MaxPlayers

(* ServerJoin; a connection that finds no slot is closed at once.           *)
Accept(c) ==
  /\ pc[c] = "none"
  /\ SlotFree
  /\ connected' = Append(connected, c)
  /\ SetStatus(c, "Handshake")
  /\ Goto(c, "loop")
  /\ UNCHANGED <<username, player, playerName, asked, latestEntityId, failure>>

-----------------------------------------------------------------------------
(* The client's thread.                                                     *)

Reads(c) == pc[c] = "loop" /\ status[c] # "Disconnected"

(* No data, a Disconnect packet, a legacy ping, an unexpected packet.       *)
Drop(c) ==
  /\ Reads(c)
  /\ SetStatus(c, "Disconnected")
  /\ UNCHANGED <<connected, username, player, playerName, pc, asked, latestEntityId, failure>>

(* Variant: HandleHandshake without the whitelist.                          *)
AllowedAnyone(name) == TRUE
Allowed(name) == name \in Whitelist

(* HandleHandshake; HandlePacket lets it through from a connected client too. *)
(* The name is stored before anything is checked.                           *)
Handshake(c, name) ==
  /\ Reads(c)
  /\ status[c] \in {"Handshake", "Connected"}
  /\ username' = [username EXCEPT ![c] = name]
  /\ \/ Allowed(name) /\ Goto(c, "find") /\ UNCHANGED status
     \/ ~Allowed(name) /\ SetStatus(c, "Disconnected") /\ UNCHANGED pc
  /\ UNCHANGED <<connected, player, playerName, asked, latestEntityId, failure>>

FindSelf(c) ==
  /\ pc[c] = "find"
  /\ \/ /\ FindClientByUsername(username[c]) = {c}
        /\ Goto(c, "admit")
        /\ UNCHANGED status
     \/ /\ FindClientByUsername(username[c]) # {c}
        /\ SetStatus(c, "Disconnected")
        /\ Goto(c, "loop")
  /\ UNCHANGED <<connected, username, player, playerName, asked, latestEntityId, failure>>

Admit(c) ==
  /\ pc[c] = "admit"
  /\ SetStatus(c, "LoggingIn")
  /\ Goto(c, "loop")
  /\ UNCHANGED <<connected, username, player, playerName, asked, latestEntityId, failure>>

(* Bound: players that exist or are about to.                               *)
LoginsLeft ==
  latestEntityId + Cardinality({c \in Clients : pc[c] \in {"create", "count"}}) < MaxLogins

(* HandleLoginRequest: only after a handshake, with the right version.      *)
LoginRequest(c, name) ==
  /\ LoginsLeft
  /\ Reads(c)
  /\ status[c] = "LoggingIn"
  /\ asked' = [asked EXCEPT ![c] = name]
  /\ Goto(c, "create")
  /\ UNCHANGED <<connected, status, username, player, playerName, latestEntityId, failure>>

(* CreatePlayer: Entity reads the latest id ...                             *)
CreatePlayer(c) ==
  /\ pc[c] = "create"
  /\ player' = [player EXCEPT ![c] = latestEntityId]
  /\ playerName' = [playerName EXCEPT ![c] = NoName]
  /\ Goto(c, "count")
  /\ UNCHANGED <<connected, status, username, asked, latestEntityId, failure>>

(* ... and increments it, without entityIdMutex.                            *)
CountEntity(c) ==
  /\ pc[c] = "count"
  /\ latestEntityId' = latestEntityId + 1
  /\ Goto(c, "name")
  /\ UNCHANGED <<connected, status, username, player, playerName, asked, failure>>

(* Variant: the two names are not compared.                                 *)
MatchNameUnchecked(c) ==
  /\ pc[c] = "name"
  /\ playerName' = [playerName EXCEPT ![c] = asked[c]]
  /\ Goto(c, "others")
  /\ UNCHANGED <<connected, status, username, player, asked, latestEntityId, failure>>

(* The player gets the name of the request, which must be the handshake's.  *)
MatchName(c) ==
  /\ pc[c] = "name"
  /\ playerName' = [playerName EXCEPT ![c] = asked[c]]
  /\ \/ asked[c] = username[c] /\ Goto(c, "others") /\ UNCHANGED status
     \/ asked[c] # username[c] /\ SetStatus(c, "Disconnected") /\ Goto(c, "loop")
  /\ UNCHANGED <<connected, username, player, asked, latestEntityId, failure>>

(* The other players are shown to the new one.                              *)
SpawnOthers(c) ==
  /\ pc[c] = "others"
  /\ failure' = IF \E d \in Members \ {c} : player[d] = NoPlayer THEN "login" ELSE failure
  /\ Goto(c, "welcome")
  /\ UNCHANGED <<connected, status, username, player, playerName, asked, latestEntityId>>

Welcome(c) ==
  /\ pc[c] = "welcome"
  /\ SetStatus(c, "Connected")
  /\ Goto(c, "loop")
  /\ UNCHANGED <<connected, username, player, playerName, asked, latestEntityId, failure>>

(* Variant: the thread ends and its client stays in connectedClients.       *)
LeaveGhost(c) ==
  /\ pc[c] = "loop"
  /\ status[c] = "Disconnected"
  /\ Goto(c, "gone")
  /\ UNCHANGED <<connected, status, username, player, playerName, asked, latestEntityId, failure>>

(* The end of HandleClient.                                                 *)
Leave(c) ==
  /\ pc[c] = "loop"
  /\ status[c] = "Disconnected"
  /\ \E i \in DOMAIN connected : connected[i] = c /\ connected' = Erase(connected, i)
  /\ Goto(c, "gone")
  /\ UNCHANGED <<status, username, player, playerName, asked, latestEntityId, failure>>

-----------------------------------------------------------------------------
(* Others.                                                                  *)

(* CommandKick by a connected operator: the message names the target's      *)
(* player before DisconnectClient is called.                                *)
Kick(k, name) ==
  /\ Reads(k)
  /\ status[k] = "Connected"
  /\ \E c \in FindClientByUsername(name) :
       \/ /\ player[c] = NoPlayer
          /\ failure' = "kick"
          /\ UNCHANGED status
       \/ /\ player[c] # NoPlayer
          /\ SetStatus(c, "Disconnected")
          /\ UNCHANGED failure
  /\ UNCHANGED <<connected, username, player, playerName, pc, asked, latestEntityId>>

(* SaveAll on the main thread; for a client without a player it fails.      *)
SaveAll ==
  /\ \E c \in Members : player[c] = NoPlayer
  /\ failure' = "save"
  /\ UNCHANGED <<connected, status, username, player, playerName, pc, asked, latestEntityId>>

-----------------------------------------------------------------------------
HandlerStep(c) ==
  \/ FindSelf(c) \/ Admit(c) \/ CreatePlayer(c) \/ CountEntity(c) \/ MatchName(c)
  \/ SpawnOthers(c) \/ Welcome(c) \/ Leave(c)

PacketStep(c) ==
  \/ Drop(c)
  \/ \E name \in Names : Handshake(c, name) \/ LoginRequest(c, name) \/ Kick(c, name)

Next ==
  /\ failure = "none"
  /\ \/ \E c \in Clients : Accept(c) \/ HandlerStep(c) \/ PacketStep(c)
     \/ SaveAll

Spec == Init /\ [][Next]_vars

(* The threads run; what a client sends, and when, is its own affair.       *)
FairSpec == Spec /\ \A c \in Clients : WF_vars(failure = "none" /\ HandlerStep(c))

-----------------------------------------------------------------------------
Statuses == {"Disconnected", "Handshake", "LoggingIn", "Connected"}
Labels == {"none", "loop", "find", "admit", "create", "count", "name", "others", "welcome",
           "gone"}

(* Types of the variables; a client is in connectedClients exactly while it  *)
(* has a thread.                                                             *)
TypeOK ==
  /\ connected \in Seq(Clients)
  /\ status \in [Clients -> Statuses]
  /\ username \in [Clients -> Names \cup {NoName}]
  /\ player \in [Clients -> Nat \cup {NoPlayer}]
  /\ playerName \in [Clients -> Names \cup {NoName}]
  /\ pc \in [Clients -> Labels]
  /\ asked \in [Clients -> Names \cup {NoName}]
  /\ latestEntityId \in Nat
  /\ failure \in {"none", "login", "kick", "save"}
  /\ \A c \in Clients : c \in Members <=> pc[c] \notin {"none", "gone"}

-----------------------------------------------------------------------------
(* A client with status Connected has a player, of the name it shook hands  *)
(* with: every handler of a connected client uses it without a test.         *)
ConnectedHasPlayer ==
  \A c \in Clients :
    pc[c] = "loop" /\ status[c] = "Connected" =>
      player[c] # NoPlayer /\ playerName[c] = username[c]

(* Nobody logs in past the whitelist, by a second handshake neither.        *)
OnlyWhitelisted ==
  \A c \in Clients :
    pc[c] = "loop" /\ status[c] \in {"LoggingIn", "Connected"} => username[c] \in Whitelist

(* There are never more clients than maximumPlayers allows, and none twice, *)
(* in whatever order they come and go.                                      *)
SlotsRespected ==
  /\ Len(connected) <= MaxPlayers
  /\ \A i, j \in DOMAIN connected : connected[i] = connected[j] => i = j

(* No two players in the game have the same name (clientPackets.cpp:21-22).  *)
UniqueUsernames ==
  \A c, d \in Members :
    status[c] = "Connected" /\ status[d] = "Connected" /\ username[c] = username[d] => c = d

-----------------------------------------------------------------------------
(* Liveness, under FairSpec.                                                *)

(* A client that was disconnected while its thread was between two packets  *)
(* or in a handler gives its slot back.                                     *)
SlotGivenBack ==
  \A c \in Clients :
    status[c] = "Disconnected" /\ c \in Members ~>
      (c \notin Members \/ status[c] # "Disconnected" \/ failure # "none")
=============================================================================
