------------------------ MODULE ClientSessionProofs ------------------------
(***************************************************************************)
(* Proofs about ClientSession: type correctness, the slot bound, that a    *)
(* connected client has a player of its own name, and that nobody gets past *)
(* the whitelist, for any number of clients, names and slots.              *)
(*                                                                         *)
(* ConnectedHasPlayer and OnlyWhitelisted speak of a client between two     *)
(* packets; LoginProgress says what holds inside the handlers, so that the  *)
(* conjunction is inductive.                                               *)
(***************************************************************************)
EXTENDS ClientSession, TLAPS

InLogin == {"create", "count", "name", "others", "welcome"}

LoginProgress ==
  \A c \in Clients :
    /\ pc[c] \in {"count", "name", "others", "welcome"} => player[c] # NoPlayer
    /\ pc[c] \in {"others", "welcome"} => playerName[c] = username[c]
    /\ pc[c] \in {"find", "admit"} \cup InLogin => username[c] \in Whitelist

SessionInv == TypeOK /\ SlotsRespected /\ LoginProgress /\ ConnectedHasPlayer /\ OnlyWhitelisted

-----------------------------------------------------------------------------
(* Adding at the end and erasing from the middle of a vector.               *)

(* push_back on connectedClients of a client that is not in it.             *)
LEMMA AppendFacts ==
  ASSUME NEW S, NEW s \in Seq(S), NEW e \in S
  PROVE  /\ Append(s, e) \in Seq(S)
         /\ Len(Append(s, e)) = Len(s) + 1
         /\ DOMAIN Append(s, e) = 1..(Len(s) + 1)
         /\ \A i \in 1..Len(s) : Append(s, e)[i] = s[i]
         /\ Append(s, e)[Len(s) + 1] = e
OBVIOUS

(* erase(it) shifts what follows by one place.                              *)
LEMMA EraseFacts ==
  ASSUME NEW S, NEW s \in Seq(S), NEW i \in DOMAIN s
  PROVE  /\ Erase(s, i) \in Seq(S)
         /\ Len(Erase(s, i)) = Len(s) - 1
         /\ DOMAIN Erase(s, i) = 1..(Len(s) - 1)
         /\ \A j \in 1..(Len(s) - 1) : Erase(s, i)[j] = IF j < i THEN s[j] ELSE s[j + 1]
<1>1. Len(s) \in Nat /\ DOMAIN s = 1..Len(s) /\ i \in 1..Len(s)
  OBVIOUS
<1>2. Len(s) - 1 \in Nat
  BY <1>1
<1>3. \A j \in 1..(Len(s) - 1) : s[j] \in S /\ s[j + 1] \in S
  BY <1>1
<1>4. Erase(s, i) \in [1..(Len(s) - 1) -> S]
  BY <1>3 DEF Erase
<1>5. Erase(s, i) \in Seq(S)
  BY <1>2, <1>4
<1>6. Len(Erase(s, i)) = Len(s) - 1
  BY <1>2, <1>4, <1>5
<1> QED
  BY <1>5, <1>6 DEF Erase

(* The members are the old ones and the new one, or all but the erased one. *)
LEMMA MembersAppend ==
  ASSUME NEW c \in Clients, connected \in Seq(Clients), connected' = Append(connected, c)
  PROVE  Members' = Members \cup {c}
<1>1. \A d : d \in Members' <=> \E i \in 1..(Len(connected) + 1) : connected'[i] = d
  BY AppendFacts DEF Members
<1>2. DOMAIN connected = 1..Len(connected) /\ Len(connected) \in Nat
  OBVIOUS
<1>3. ASSUME NEW d \in Members' PROVE d \in Members \cup {c}
  <2>1. PICK i \in 1..(Len(connected) + 1) : connected'[i] = d
    BY <1>1, <1>3
  <2>2. CASE i \in 1..Len(connected)
    BY <2>1, <2>2, <1>2, AppendFacts DEF Members
  <2>3. CASE i = Len(connected) + 1
    BY <2>1, <2>3, AppendFacts
  <2> QED BY <1>2, <2>2, <2>3
<1>4. ASSUME NEW d \in Members PROVE d \in Members'
  <2>1. PICK i \in 1..Len(connected) : connected[i] = d
    BY <1>2, <1>4 DEF Members
  <2>2. connected'[i] = d /\ i \in 1..(Len(connected) + 1)
    BY <2>1, <1>2, AppendFacts
  <2> QED BY <1>1, <2>2
<1>5. c \in Members'
  <2>1. Len(connected) + 1 \in 1..(Len(connected) + 1)
    BY <1>2
  <2> QED BY <1>1, <2>1, AppendFacts
<1> QED BY <1>3, <1>4, <1>5

LEMMA MembersErase ==
  ASSUME NEW c \in Clients, connected \in Seq(Clients),
         NEW i \in DOMAIN connected, connected[i] = c,
         \A j, k \in DOMAIN connected : connected[j] = connected[k] => j = k,
         connected' = Erase(connected, i)
  PROVE  Members' = Members \ {c}
<1>1. DOMAIN connected = 1..Len(connected) /\ Len(connected) \in Nat
  OBVIOUS
<1>2. DOMAIN connected' = 1..(Len(connected) - 1)
  BY EraseFacts
<1>3. ASSUME NEW d \in Members' PROVE d \in Members \ {c}
  <2>1. PICK j \in 1..(Len(connected) - 1) : connected'[j] = d
    BY <1>2, <1>3 DEF Members
  <2>2. CASE j < i
    <3>1. j \in 1..Len(connected) /\ connected[j] = d /\ j # i
      BY <1>1, <2>1, <2>2, EraseFacts
    <3> QED BY <1>1, <3>1 DEF Members
  <2>3. CASE ~(j < i)
    <3>1. j + 1 \in 1..Len(connected) /\ connected[j + 1] = d /\ j + 1 # i
      BY <1>1, <2>1, <2>3, EraseFacts
    <3> QED BY <1>1, <3>1 DEF Members
  <2> QED BY <2>2, <2>3
<1>4. ASSUME NEW d \in Members \ {c} PROVE d \in Members'
  <2>1. PICK j \in 1..Len(connected) : connected[j] = d /\ j # i
    BY <1>1, <1>4 DEF Members
  <2>2. CASE j < i
    <3>1. j \in 1..(Len(connected) - 1) /\ connected'[j] = d
      BY <1>1, <2>1, <2>2, EraseFacts
    <3> QED BY <1>2, <3>1 DEF Members
  <2>3. CASE j > i
    <3>1. j - 1 \in 1..(Len(connected) - 1) /\ ~(j - 1 < i) /\ (j - 1) + 1 = j
      BY <1>1, <2>1, <2>3
    <3>2. connected'[j - 1] = d
      BY <2>1, <3>1, EraseFacts
    <3> QED BY <1>2, <3>1, <3>2 DEF Members
  <2> QED BY <1>1, <2>1, <2>2, <2>3
<1> QED BY <1>3, <1>4

(* No client is twice in the vector after a push_back or an erase.          *)
LEMMA SlotsAfterAppend ==
  ASSUME NEW c \in Clients, connected \in Seq(Clients), SlotsRespected, SlotFree,
         c \notin Members, connected' = Append(connected, c)
  PROVE  SlotsRespected'
<1>1. DOMAIN connected = 1..Len(connected) /\ Len(connected) \in Nat
  OBVIOUS
<1>2. Len(connected') <= MaxPlayers
  BY <1>1, AppendFacts, SessionAssumption DEF SlotFree
<1>3. DOMAIN connected' = 1..(Len(connected) + 1)
  BY AppendFacts
<1>4. \A i \in 1..Len(connected) : connected'[i] = connected[i] /\ connected[i] # c
  BY <1>1, AppendFacts DEF Members
<1>5. connected'[Len(connected) + 1] = c
  BY AppendFacts
<1>6. \A i \in 1..(Len(connected) + 1) : i \in 1..Len(connected) \/ i = Len(connected) + 1
  BY <1>1
<1>7. \A i, j \in 1..Len(connected) : connected[i] = connected[j] => i = j
  BY <1>1 DEF SlotsRespected
<1>8. \A i, j \in 1..(Len(connected) + 1) : connected'[i] = connected'[j] => i = j
  BY <1>4, <1>5, <1>6, <1>7, Zenon
<1> QED BY <1>2, <1>3, <1>8 DEF SlotsRespected

LEMMA SlotsAfterErase ==
  ASSUME connected \in Seq(Clients), NEW i \in DOMAIN connected, SlotsRespected,
         connected' = Erase(connected, i)
  PROVE  SlotsRespected'
<1>1. DOMAIN connected = 1..Len(connected) /\ Len(connected) \in Nat
  OBVIOUS
<1>2. Len(connected') = Len(connected) - 1 /\ DOMAIN connected' = 1..(Len(connected) - 1)
  BY EraseFacts
<1>3. Len(connected') <= MaxPlayers
  BY <1>1, <1>2, SessionAssumption DEF SlotsRespected
<1>4. ASSUME NEW j \in DOMAIN connected', NEW k \in DOMAIN connected',
             connected'[j] = connected'[k]
      PROVE  j = k
  <2> DEFINE at(n) == IF n < i THEN n ELSE n + 1
  <2>1. j \in 1..(Len(connected) - 1) /\ k \in 1..(Len(connected) - 1) /\ i \in 1..Len(connected)
    BY <1>1, <1>2
  <2>2. at(j) \in 1..Len(connected) /\ at(k) \in 1..Len(connected)
    BY <1>1, <2>1
  <2>3. connected'[j] = connected[at(j)] /\ connected'[k] = connected[at(k)]
    BY <2>1, EraseFacts
  <2>4. at(j) = at(k)
    BY <1>1, <1>4, <2>2, <2>3 DEF SlotsRespected
  <2> QED BY <2>1, <2>4
<1> QED BY <1>3, <1>4 DEF SlotsRespected

-----------------------------------------------------------------------------
(* Every way a step can change the vector.                                  *)

LEMMA SlotsKept ==
  ASSUME TypeOK, SlotsRespected, [Next]_vars
  PROVE  /\ connected' \in Seq(Clients)
         /\ SlotsRespected'
         /\ \A c \in Clients : c \in Members' <=> pc'[c] \notin {"none", "gone"}
<1>1. CASE UNCHANGED <<connected, pc>>
  BY <1>1 DEF TypeOK, SlotsRespected, Members
<1>2. ASSUME NEW c \in Clients, Accept(c)
      PROVE  /\ connected' \in Seq(Clients)
             /\ SlotsRespected'
             /\ \A d \in Clients : d \in Members' <=> pc'[d] \notin {"none", "gone"}
  <2>1. connected \in Seq(Clients) /\ connected' = Append(connected, c) /\ SlotFree
    BY <1>2 DEF Accept, TypeOK
  <2>2. c \notin Members
    BY <1>2 DEF Accept, TypeOK
  <2>3. connected' \in Seq(Clients)
    BY <2>1, AppendFacts
  <2>4. SlotsRespected'
    BY <2>1, <2>2, SlotsAfterAppend
  <2>5. Members' = Members \cup {c}
    BY <2>1, MembersAppend
  <2>6. \A d \in Clients : d # c => pc'[d] = pc[d]
    BY <1>2 DEF Accept, Goto, TypeOK
  <2>7. pc'[c] = "loop"
    BY <1>2 DEF Accept, Goto, TypeOK
  <2>8. \A d \in Clients : d \in Members <=> pc[d] \notin {"none", "gone"}
    BY DEF TypeOK
  <2> QED BY <2>3, <2>4, <2>5, <2>6, <2>7, <2>8
<1>3. ASSUME NEW c \in Clients, Leave(c)
      PROVE  /\ connected' \in Seq(Clients)
             /\ SlotsRespected'
             /\ \A d \in Clients : d \in Members' <=> pc'[d] \notin {"none", "gone"}
  <2>1. PICK i \in DOMAIN connected : connected[i] = c /\ connected' = Erase(connected, i)
    BY <1>3 DEF Leave
  <2>2. connected \in Seq(Clients)
    BY DEF TypeOK
  <2>3. connected' \in Seq(Clients)
    BY <2>1, <2>2, EraseFacts
  <2>4. SlotsRespected'
    BY <2>1, <2>2, SlotsAfterErase
  <2>5. \A j, k \in DOMAIN connected : connected[j] = connected[k] => j = k
    BY DEF SlotsRespected
  <2>6. Members' = Members \ {c}
    BY <2>1, <2>2, <2>5, MembersErase
  <2>7. \A d \in Clients : d # c => pc'[d] = pc[d]
    BY <1>3 DEF Leave, Goto, TypeOK
  <2>8. pc'[c] = "gone"
    BY <1>3 DEF Leave, Goto, TypeOK
  <2>9. \A d \in Clients : d \in Members <=> pc[d] \notin {"none", "gone"}
    BY DEF TypeOK
  <2> QED BY <2>3, <2>4, <2>6, <2>7, <2>8, <2>9
<1>4. ASSUME UNCHANGED connected,
             \A d \in Clients : pc'[d] \in {"none", "gone"} <=> pc[d] \in {"none", "gone"}
      PROVE  /\ connected' \in Seq(Clients)
             /\ SlotsRespected'
             /\ \A d \in Clients : d \in Members' <=> pc'[d] \notin {"none", "gone"}
  BY <1>4 DEF TypeOK, SlotsRespected, Members
<1>5. ASSUME NEW c \in Clients,
             FindSelf(c) \/ Admit(c) \/ CreatePlayer(c) \/ CountEntity(c) \/ MatchName(c)
               \/ SpawnOthers(c) \/ Welcome(c)
      PROVE  /\ UNCHANGED connected
             /\ \A d \in Clients : pc'[d] \in {"none", "gone"} <=> pc[d] \in {"none", "gone"}
  <2>1. pc \in [Clients -> Labels]
    BY DEF TypeOK
  <2>2. CASE FindSelf(c) \/ Admit(c)
    BY <2>1, <2>2 DEF FindSelf, Admit, Goto
  <2>3. CASE CreatePlayer(c) \/ CountEntity(c)
    BY <2>1, <2>3 DEF CreatePlayer, CountEntity, Goto
  <2>4. CASE MatchName(c)
    BY <2>1, <2>4 DEF MatchName, Goto
  <2>5. CASE SpawnOthers(c) \/ Welcome(c)
    BY <2>1, <2>5 DEF SpawnOthers, Welcome, Goto
  <2> QED BY <1>5, <2>2, <2>3, <2>4, <2>5
<1>6. ASSUME NEW c \in Clients, PacketStep(c)
      PROVE  /\ UNCHANGED connected
             /\ \A d \in Clients : pc'[d] \in {"none", "gone"} <=> pc[d] \in {"none", "gone"}
  <2>1. pc \in [Clients -> Labels]
    BY DEF TypeOK
  <2>2. CASE Drop(c)
    BY <2>2 DEF Drop
  <2>3. ASSUME NEW name \in Names, Handshake(c, name)
        PROVE  /\ UNCHANGED connected
               /\ \A d \in Clients : pc'[d] \in {"none", "gone"} <=> pc[d] \in {"none", "gone"}
    BY <2>1, <2>3 DEF Handshake, Reads, Goto
  <2>4. ASSUME NEW name \in Names, LoginRequest(c, name)
        PROVE  /\ UNCHANGED connected
               /\ \A d \in Clients : pc'[d] \in {"none", "gone"} <=> pc[d] \in {"none", "gone"}
    BY <2>1, <2>4 DEF LoginRequest, Reads, Goto
  <2>5. ASSUME NEW name \in Names, Kick(c, name)
        PROVE  UNCHANGED <<connected, pc>>
    BY <2>5 DEF Kick
  <2> QED BY <1>6, <2>2, <2>3, <2>4, <2>5 DEF PacketStep
<1>7. CASE SaveAll
  BY <1>1, <1>7 DEF SaveAll
<1>8. CASE UNCHANGED vars
  BY <1>1, <1>8 DEF vars
<1>9. CASE Next
  BY <1>2, <1>3, <1>4, <1>5, <1>6, <1>7, <1>9 DEF Next, HandlerStep
<1> QED BY <1>8, <1>9

-----------------------------------------------------------------------------
(* The other variables.                                                     *)

VarTypes ==
  /\ status \in [Clients -> Statuses]
  /\ username \in [Clients -> Names \cup {NoName}]
  /\ player \in [Clients -> Nat \cup {NoPlayer}]
  /\ playerName \in [Clients -> Names \cup {NoName}]
  /\ pc \in [Clients -> Labels]
  /\ asked \in [Clients -> Names \cup {NoName}]
  /\ latestEntityId \in Nat
  /\ failure \in {"none", "login", "kick", "save"}

LoginInv == VarTypes /\ LoginProgress /\ ConnectedHasPlayer /\ OnlyWhitelisted

(* NoPlayer is no entity id.                                                *)
LEMMA EntityIds ==
  ASSUME NEW n \in Nat
  PROVE  n \in Nat \cup {NoPlayer} /\ n # NoPlayer /\ n + 1 \in Nat
BY DEF NoPlayer

LEMMA LoginKept ==
  ASSUME LoginInv, [Next]_vars
  PROVE  LoginInv'
<1> USE DEF LoginInv, VarTypes, LoginProgress, ConnectedHasPlayer, OnlyWhitelisted,
            Statuses, Labels, InLogin, NoPlayer, NoName
<1>1. ASSUME NEW c \in Clients, Accept(c) PROVE LoginInv'
  BY <1>1 DEF Accept, SetStatus, Goto
<1>2. ASSUME NEW c \in Clients, FindSelf(c) PROVE LoginInv'
  BY <1>2 DEF FindSelf, SetStatus, Goto
<1>3. ASSUME NEW c \in Clients, Admit(c) PROVE LoginInv'
  BY <1>3 DEF Admit, SetStatus, Goto
<1>4. ASSUME NEW c \in Clients, CreatePlayer(c) PROVE LoginInv'
  <2> HIDE DEF NoPlayer
  <2>1. latestEntityId \in Nat \cup {NoPlayer} /\ latestEntityId # NoPlayer
    BY EntityIds
  <2>2. player' \in [Clients -> Nat \cup {NoPlayer}]
    BY <1>4, <2>1 DEF CreatePlayer
  <2>3. player'[c] # NoPlayer /\ \A d \in Clients : d # c => player'[d] = player[d]
    BY <1>4, <2>1 DEF CreatePlayer
  <2>4. VarTypes'
    BY <1>4, <2>2 DEF CreatePlayer, Goto
  <2>5. pc' = [pc EXCEPT ![c] = "count"] /\ playerName' = [playerName EXCEPT ![c] = NoName]
    BY <1>4 DEF CreatePlayer, Goto
  <2>6. UNCHANGED <<status, username>> /\ pc[c] = "create"
    BY <1>4 DEF CreatePlayer
  <2> HIDE DEF VarTypes
  <2>7. LoginProgress' /\ ConnectedHasPlayer' /\ OnlyWhitelisted'
    BY <2>3, <2>5, <2>6 DEF VarTypes
  <2> QED BY <2>4, <2>7
<1>5. ASSUME NEW c \in Clients, CountEntity(c) PROVE LoginInv'
  <2>1. VarTypes'
    <3> HIDE DEF NoPlayer
    <3>1. latestEntityId' \in Nat
      BY <1>5, EntityIds DEF CountEntity
    <3> QED BY <1>5, <3>1 DEF CountEntity, Goto
  <2>2. /\ pc' = [pc EXCEPT ![c] = "name"] /\ pc[c] = "count"
        /\ UNCHANGED <<status, username, player, playerName>>
    BY <1>5 DEF CountEntity, Goto
  <2> HIDE DEF VarTypes, NoPlayer
  <2>3. LoginProgress' /\ ConnectedHasPlayer' /\ OnlyWhitelisted'
    BY <2>2 DEF VarTypes
  <2> QED BY <2>1, <2>3
<1>6. ASSUME NEW c \in Clients, MatchName(c) PROVE LoginInv'
  BY <1>6 DEF MatchName, SetStatus, Goto
<1>7. ASSUME NEW c \in Clients, SpawnOthers(c) PROVE LoginInv'
  BY <1>7 DEF SpawnOthers, Goto
<1>8. ASSUME NEW c \in Clients, Welcome(c) PROVE LoginInv'
  BY <1>8 DEF Welcome, SetStatus, Goto
<1>9. ASSUME NEW c \in Clients, Leave(c) PROVE LoginInv'
  BY <1>9 DEF Leave, Goto
<1>10. ASSUME NEW c \in Clients, Drop(c) PROVE LoginInv'
  BY <1>10 DEF Drop, Reads, SetStatus
<1>11. ASSUME NEW c \in Clients, NEW name \in Names, Handshake(c, name) PROVE LoginInv'
  BY <1>11 DEF Handshake, Reads, Allowed, SetStatus, Goto
<1>12. ASSUME NEW c \in Clients, NEW name \in Names, LoginRequest(c, name) PROVE LoginInv'
  BY <1>12 DEF LoginRequest, Reads, Goto
<1>13. ASSUME NEW c \in Clients, NEW name \in Names, Kick(c, name) PROVE LoginInv'
  <2>1. PICK d \in FindClientByUsername(name) :
          \/ failure' = "kick" /\ UNCHANGED status
          \/ SetStatus(d, "Disconnected") /\ UNCHANGED failure
    BY <1>13 DEF Kick
  <2>2. UNCHANGED <<username, player, playerName, pc, asked, latestEntityId>>
    BY <1>13 DEF Kick
  <2> QED BY <2>1, <2>2 DEF SetStatus
<1>14. CASE SaveAll
  BY <1>14 DEF SaveAll
<1>15. CASE UNCHANGED vars
  BY <1>15 DEF vars
<1> QED
  BY <1>1, <1>2, <1>3, <1>4, <1>5, <1>6, <1>7, <1>8, <1>9, <1>10, <1>11, <1>12, <1>13,
     <1>14, <1>15 DEF Next, HandlerStep, PacketStep

-----------------------------------------------------------------------------
(* SessionInv holds in every reachable state.                               *)
THEOREM SessionInvariant == Spec => []SessionInv
<1>1. ASSUME Init PROVE SessionInv
  <2>1. connected = <<>> /\ connected \in Seq(Clients) /\ DOMAIN connected = {}
    BY <1>1 DEF Init
  <2>2. Members = {}
    BY <2>1 DEF Members
  <2>3. SlotsRespected
    BY <2>1, SessionAssumption DEF SlotsRespected
  <2>4. \A c \in Clients : pc[c] = "none"
    BY <1>1 DEF Init
  <2>5. VarTypes
    BY <1>1 DEF Init, VarTypes, Statuses, Labels, NoName, NoPlayer
  <2>6. TypeOK
    BY <2>1, <2>2, <2>4, <2>5 DEF TypeOK, VarTypes
  <2>7. LoginProgress /\ ConnectedHasPlayer /\ OnlyWhitelisted
    BY <2>4 DEF LoginProgress, ConnectedHasPlayer, OnlyWhitelisted, InLogin
  <2> QED BY <2>3, <2>6, <2>7 DEF SessionInv
<1>2. ASSUME SessionInv, [Next]_vars PROVE SessionInv'
  <2>1. LoginInv
    BY <1>2 DEF SessionInv, LoginInv, TypeOK, VarTypes
  <2>2. LoginInv'
    BY <1>2, <2>1, LoginKept
  <2>3. /\ connected' \in Seq(Clients)
        /\ SlotsRespected'
        /\ \A c \in Clients : c \in Members' <=> pc'[c] \notin {"none", "gone"}
    BY <1>2, SlotsKept DEF SessionInv
  <2> QED BY <2>2, <2>3 DEF SessionInv, LoginInv, TypeOK, VarTypes
<1> QED BY <1>1, <1>2, PTL DEF Spec

(* Every variable keeps its type, and a client is in connectedClients        *)
(* exactly while it has a thread (server.h:135-177, client.cpp:210-234).     *)
THEOREM TypeCorrect == Spec => []TypeOK
  BY SessionInvariant, PTL DEF SessionInv

(* connectedClients never outgrows maximumPlayers and never holds a client   *)
(* twice, however clients come and go.                                       *)
THEOREM SlotsCorrect == Spec => []SlotsRespected
  BY SessionInvariant, PTL DEF SessionInv

(* The handlers of a connected client find a player of the name it shook     *)
(* hands with.                                                               *)
THEOREM ConnectedCorrect == Spec => []ConnectedHasPlayer
  BY SessionInvariant, PTL DEF SessionInv

(* Whoever is logging in or connected is on the whitelist.                   *)
THEOREM WhitelistCorrect == Spec => []OnlyWhitelisted
  BY SessionInvariant, PTL DEF SessionInv
=============================================================================
