------------------------------- MODULE Connection -------------------------------
(***************************************************************************)
(* From a packet that is read to the bytes that are sent.  Every client    *)
(* has a thread that reads a bundle of packets, handles them, broadcasts   *)
(* what they left in the two buffers, and sends the client's response.     *)
(* Broadcasts of all threads append to the responses of the others, each   *)
(* under that client's responseMutex and all under connectedClientsMutex;  *)
(* the thread itself writes to its response without a lock.                *)
(*                                                                         *)
(* What a thread has still to do is a list of tasks, one step each.  The   *)
(* sleep between two bundles, the chunks of the response and the stop of   *)
(* the server are not modelled here (see WorldManager, ServerLifecycle).   *)
(***************************************************************************)
EXTENDS Packets, Naturals, FiniteSets, SequencesExt

CONSTANTS Clients,    \* connections
          Present,    \* those that are in the game at the beginning
          Leavers,    \* those that may hang up
          First,      \* the packets they begin with
          Kinds,      \* the packets they send in the game
          MaxEvents   \* bound on the packets in the game and the main loop's broadcasts

ASSUME ConnectionAssumption ==
  /\ Present \subseteq Clients
  /\ First \subseteq {"Handshake", "LegacyPing", "LoginRequest"}
  /\ Kinds \subseteq DOMAIN Effects \cup {"Kick", "Disconnect", "Unknown"}
  /\ IsFiniteSet(Present)
  /\ {"main", "nobody"} \cap Clients = {}

VARIABLES
  status,        \* client -> its ConnectionStatus
  connected,     \* the server's vector of clients
  person,        \* client -> "none", "named" by its handshake, or with a "player"
  stage,         \* client -> how far the game at the other end is
  inbox,         \* client -> packets that have arrived
  peer,          \* client -> the socket: "open", "closed" at the other end, or "reset"
  todo,          \* thread -> tasks
  buffer,        \* the buffers of broadcasts
  response,      \* client -> batches of messages to be sent
  writing,       \* the clients whose thread is writing to the response
  listMutex,     \* the holder of connectedClientsMutex
  responseMutex, \* client -> the holder
  received,      \* client -> the numbers of the batches it has received, in order
  screen,        \* client -> the players it shows
  ids,           \* history: the number of broadcasts
  blurred,       \* history: client -> players whose coming or going it cannot know of
  events,        \* how many of these there still can be
  dead           \* how the server has been killed

vars == <<status, connected, person, stage, inbox, peer, todo, buffer, response, writing,
          listMutex, responseMutex, received, screen, ids, blurred, events, dead>>

Main == "main"
Nobody == "nobody"
Threads == Clients \cup {Main}

Disconnected == 0
Handshake == 1
LoggingIn == 2
Connected == 3

(* broadcastResponse, broadcastOthersResponse, and the local vector of an   *)
(* UpdateBlock, a command or the main loop. *)
Buffers == (Clients \X {"all", "others"}) \cup (Threads \X {"now"})

Message(kind, of) == [kind |-> kind, of |-> of]

Messages(kinds, of) == [i \in DOMAIN kinds |-> Message(kinds[i], of)]

(* The players whose coming or going the messages tell. *)
Entities(msgs) == {m.of : m \in {n \in ToSet(msgs) : n.kind \in {"NamedEntitySpawn", "DestroyEntity"}}}

(* What a client shows after these messages. *)
Shows(seen, msgs) ==
  FoldLeft(LAMBDA s, m : CASE m.kind = "NamedEntitySpawn" -> s \cup {m.of}
                           [] m.kind = "DestroyEntity" -> s \ {m.of}
                           [] OTHER -> s, seen, msgs)

(* --------------------------------- tasks -------------------------------- *)

Task(do) == [do |-> do, buf |-> <<Main, "now">>, who |-> Nobody, list |-> <<>>,
              msgs |-> <<>>, id |-> 0]

Put(buf, msgs) == IF msgs = <<>> THEN <<>> ELSE <<[Task("put") EXCEPT !.buf = buf, !.msgs = msgs]>>

Broadcast(buf, skip) == <<[Task("broadcast") EXCEPT !.buf = buf, !.who = skip]>>

Write(msgs) == <<[Task("write") EXCEPT !.msgs = msgs]>>

AppendResponse(c, msgs) ==
  IF msgs = <<>> THEN <<>> ELSE <<[Task("append") EXCEPT !.who = c, !.msgs = msgs]>>

SendResponse(c) == <<[Task("send") EXCEPT !.who = c]>>

SetStatus(c, new) == <<[Task("status") EXCEPT !.who = c, !.list = <<new>>]>>

Now(t, msgs) == IF msgs = <<>> THEN <<>> ELSE Put(<<t, "now">>, msgs) \o Broadcast(<<t, "now">>, Nobody)

(* Variant: the others are told only of clients that are told themselves.    *)
DisconnectClientSilently(c, tellPlayer, known) ==
  SetStatus(c, Disconnected)
  \o (IF tellPlayer /\ known
      THEN Put(<<c, "others">>, Messages(<<"ChatMessage", "DestroyEntity">>, c))
           \o Broadcast(<<c, "others">>, c)
      ELSE <<>>)

(* The status comes first, so SendResponse has nothing to send; the reason  *)
(* is in a vector nobody sees.  known: whether the client has a player. *)
DisconnectClient(c, tellPlayer, known) ==
  SetStatus(c, Disconnected)
  \o (IF tellPlayer THEN SendResponse(c) ELSE <<>>)
  \o (IF known
      THEN Put(<<c, "others">>, Messages(<<"ChatMessage", "DestroyEntity">>, c))
           \o Broadcast(<<c, "others">>, c)
      ELSE <<>>)

(* What one packet's handler does, in the order that most of them have.     *)
Handle(c, e) ==
  Put(<<c, "all">>, Messages(e.all, c)) \o Put(<<c, "others">>, Messages(e.others, c))
  \o (IF Len(e.own) >= 1 THEN Write(Messages(e.own[1], c)) ELSE <<>>)
  \o (IF Len(e.own) = 2 THEN SendResponse(c) \o Write(Messages(e.own[2], c)) ELSE <<>>)
  \o Now(c, Messages(e.now, c))
  \o AppendResponse(c, Messages(e.answer, c))

(* Variant: what is broadcast is left to the handlers to be sent. *)
EndOfBundleUnsent(c) == Broadcast(<<c, "all">>, Nobody) \o Broadcast(<<c, "others">>, c)

(* The rest of HandlePacket. *)
EndOfBundle(c) ==
  Broadcast(<<c, "all">>, Nobody) \o Broadcast(<<c, "others">>, c) \o SendResponse(c)

(* The player is created; it is shown to the others at the end of the       *)
(* bundle, the others to it at once, and the status changes last. *)
LogIn(c) ==
  Write(<<Message("LoginRequest", c)>>)
  \o Put(<<c, "all">>, <<Message("ChatMessage", c)>>)
  \o Put(<<c, "others">>, <<Message("NamedEntitySpawn", c)>>)
  \o <<Task("list")>>
  \o SendResponse(c) \o Write(<<Message("PlayerPositionLook", c)>>)
  \o SetStatus(c, Connected)

(* ------------------------ the game at the other end --------------------- *)

gameUnchanged == <<connected, person, todo, buffer, response, writing, listMutex,
                   responseMutex, received, screen, ids, blurred, dead>>

(* ServerJoin: the client is put into the vector and its thread is started. *)
Join(c) ==
  /\ stage[c] = "away"
  /\ listMutex = Nobody
  /\ stage' = [stage EXCEPT ![c] = "handshake"]
  /\ status' = [status EXCEPT ![c] = Handshake]
  /\ connected' = Append(connected, c)
  /\ todo' = [todo EXCEPT ![c] = <<Task("loop")>>]
  /\ UNCHANGED <<person, inbox, peer, buffer, response, writing, listMutex, responseMutex,
                 received, screen, ids, blurred, events, dead>>

(* The game's packets: the handshake or a ping from the server list, the    *)
(* login, and once it is in, anything. *)
Enter(c) ==
  /\ \/ /\ stage[c] = "handshake"
        /\ \E kind \in First : inbox' = [inbox EXCEPT ![c] = Append(@, kind)]
        /\ stage' = [stage EXCEPT ![c] = "login"]
     \/ /\ stage[c] = "login"
        /\ inbox' = [inbox EXCEPT ![c] = Append(@, "LoginRequest")]
        /\ stage' = [stage EXCEPT ![c] = "play"]
  /\ UNCHANGED <<status, peer, events>>
  /\ UNCHANGED gameUnchanged

Play(c) ==
  /\ stage[c] = "play"
  /\ status[c] = Connected
  /\ events > 0
  /\ \E kind \in Kinds : inbox' = [inbox EXCEPT ![c] = Append(@, kind)]
  /\ events' = events - 1
  /\ UNCHANGED <<status, stage, peer>>
  /\ UNCHANGED gameUnchanged

Leave(c) ==
  /\ c \in Leavers
  /\ stage[c] \notin {"away", "left"}
  /\ stage' = [stage EXCEPT ![c] = "left"]
  /\ peer' = [peer EXCEPT ![c] = "closed"]
  /\ UNCHANGED <<status, inbox, events>>
  /\ UNCHANGED gameUnchanged

(* ------------------------------- one step ------------------------------- *)

Next1(t) == Head(todo[t])

At(t, do) == todo[t] # <<>> /\ Next1(t).do = do

Follow(t, more) == todo' = [todo EXCEPT ![t] = more \o Tail(@)]

Socket == <<stage, inbox, peer, events>>

(* HandleClient's loop: the status is tested before a read that may block.  *)
Loop(c) ==
  /\ At(c, "loop")
  /\ Follow(c, <<Task(IF status[c] > Disconnected THEN "read" ELSE "close")>>)
  /\ UNCHANGED <<status, connected, person, buffer, response, writing, listMutex,
                 responseMutex, received, screen, ids, blurred, dead>>
  /\ UNCHANGED Socket

Packets(c) == [i \in DOMAIN inbox[c] |-> [Task("packet") EXCEPT !.msgs = <<Message(inbox[c][i], c)>>]]

Read(c) ==
  /\ At(c, "read")
  /\ \/ /\ inbox[c] # <<>>
        /\ peer[c] # "reset"
        /\ Follow(c, Packets(c) \o <<Task("chunks")>> \o EndOfBundle(c) \o <<Task("loop")>>)
     \/ /\ peer[c] = "reset" \/ (peer[c] = "closed" /\ inbox[c] = <<>>)
        /\ Follow(c, DisconnectClient(c, FALSE, person[c] = "player") \o <<Task("loop")>>)
  /\ inbox' = [inbox EXCEPT ![c] = <<>>]
  /\ UNCHANGED <<status, connected, person, stage, peer, buffer, response, writing, listMutex,
                 responseMutex, received, screen, ids, blurred, events, dead>>

Kind(c) == Next1(c).msgs[1].kind

Handling(c, kind) == At(c, "packet") /\ Kind(c) = kind

(* Nothing of a bundle is handled any more once the client is disconnected. *)
Skip(c) ==
  /\ At(c, "packet")
  /\ status[c] = Disconnected
  /\ Follow(c, <<>>)
  /\ UNCHANGED <<status, person, dead>>

HandleHandshake(c) ==
  /\ Handling(c, "Handshake")
  /\ status[c] = Handshake
  /\ person' = [person EXCEPT ![c] = "named"]
  /\ \/ Follow(c, Write(<<Message("Handshake", c)>>) \o SetStatus(c, LoggingIn))
     \/ Follow(c, DisconnectClient(c, TRUE, FALSE))
  /\ UNCHANGED <<status, dead>>

(* A wrong version is refused before the player is created, a wrong name    *)
(* after. *)
HandleLoginRequest(c) ==
  /\ Handling(c, "LoginRequest")
  /\ status[c] = LoggingIn
  /\ \/ Follow(c, DisconnectClient(c, TRUE, FALSE)) /\ UNCHANGED person
     \/ Follow(c, DisconnectClient(c, TRUE, TRUE)) /\ person' = [person EXCEPT ![c] = "player"]
     \/ Follow(c, LogIn(c)) /\ person' = [person EXCEPT ![c] = "player"]
  /\ UNCHANGED <<status, dead>>

HandleLegacyPing(c) ==
  /\ Handling(c, "LegacyPing")
  /\ status[c] # Disconnected
  /\ Follow(c, Write(<<Message("Disconnect", c)>>) \o SendResponse(c) \o SetStatus(c, Disconnected))
  /\ UNCHANGED <<status, person, dead>>

(* A packet that the status does not allow. *)
OutOfOrder(c) ==
  /\ Handling(c, "LoginRequest")
  /\ status[c] = Handshake
  /\ Follow(c, SetStatus(c, Disconnected))
  /\ UNCHANGED <<status, person, dead>>

HandleDisconnect(c) ==
  /\ Handling(c, "Disconnect")
  /\ status[c] = Connected
  /\ Follow(c, DisconnectClient(c, TRUE, TRUE))
  /\ UNCHANGED <<status, person, dead>>

(* Another client's thread does what DisconnectClient does; the reason      *)
(* needs the name of its player. *)
CommandKick(c) ==
  /\ Handling(c, "Kick")
  /\ status[c] = Connected
  /\ \E d \in ToSet(connected) :
       /\ person[d] # "none"
       /\ dead' = IF person[d] = "player" THEN dead ELSE "null"
       /\ Follow(c, DisconnectClient(d, TRUE, TRUE))
  /\ UNCHANGED <<status, person>>

(* An unknown packet ends the bundle. *)
Unhandled(c) ==
  /\ Handling(c, "Unknown")
  /\ status[c] = Connected
  /\ \E n \in DOMAIN todo[c] :
       /\ \A i \in DOMAIN todo[c] : todo[c][i].do = "packet" <=> i < n
       /\ todo' = [todo EXCEPT ![c] = SubSeq(@, n, Len(@))]
  /\ UNCHANGED <<status, person, dead>>

HandlePacket(c) ==
  /\ At(c, "packet")
  /\ Kind(c) \in DOMAIN Effects
  /\ status[c] = Connected
  /\ \E e \in Effects[Kind(c)] : Follow(c, Handle(c, e))
  /\ UNCHANGED <<status, person, dead>>

(* SendNewChunks, when there are any. *)
SendNewChunks(c) ==
  /\ At(c, "chunks")
  /\ \/ Follow(c, <<>>)
     \/ person[c] = "player" /\ Follow(c, Write(<<Message("Chunk", c)>>))
  /\ UNCHANGED <<status, person, dead>>

(* The login of a client that has been kicked meanwhile makes it Connected  *)
(* again, after everybody has been told that it is gone. *)
ChangeStatus(t) ==
  LET c == Next1(t).who
      new == Next1(t).list[1]
      again == status[c] = Disconnected /\ new = Connected
  IN /\ At(t, "status")
     /\ status' = [status EXCEPT ![c] = new]
     /\ blurred' = [d \in Clients |-> blurred[d] \cup (IF again THEN {c} ELSE {})]
     /\ Follow(t, <<>>)
     /\ UNCHANGED <<person, dead>>

(* What a thread does without touching a buffer. *)
Decide(t) ==
  /\ \/ ChangeStatus(t)
     \/ /\ t \in Clients
        /\ UNCHANGED blurred
        /\ \/ Skip(t) \/ HandleHandshake(t) \/ HandleLoginRequest(t) \/ HandleLegacyPing(t)
           \/ OutOfOrder(t) \/ HandleDisconnect(t) \/ CommandKick(t) \/ Unhandled(t)
           \/ HandlePacket(t) \/ SendNewChunks(t)
  /\ UNCHANGED <<connected, buffer, response, writing, listMutex, responseMutex, received,
                 screen, ids>>
  /\ UNCHANGED Socket

(* -------------------------- buffers and sockets ------------------------- *)

statusUnchanged == <<status, connected, person>>

Push(t) ==
  /\ At(t, "put")
  /\ buffer' = [buffer EXCEPT ![Next1(t).buf] = @ \o Next1(t).msgs]
  /\ Follow(t, <<>>)
  /\ UNCHANGED <<response, writing, listMutex, responseMutex, received, screen, ids, blurred, dead>>
  /\ UNCHANGED statusUnchanged
  /\ UNCHANGED Socket

(* A write to the response without its mutex, and its end.  Batches that no *)
(* property tells apart are not kept. *)
BeginWrite(c) ==
  /\ At(c, "write")
  /\ writing' = writing \cup {c}
  /\ Follow(c, <<[Next1(c) EXCEPT !.do = "wrote"]>>)
  /\ UNCHANGED <<buffer, response, listMutex, responseMutex, received, screen, ids, blurred, dead>>
  /\ UNCHANGED statusUnchanged
  /\ UNCHANGED Socket

EndWrite(c) ==
  /\ At(c, "wrote")
  /\ writing' = writing \ {c}
  /\ response' = IF Entities(Next1(c).msgs) = {} THEN response
                 ELSE [response EXCEPT ![c] = Append(@, [id |-> 0, msgs |-> Next1(c).msgs])]
  /\ Follow(c, <<>>)
  /\ UNCHANGED <<buffer, listMutex, responseMutex, received, screen, ids, blurred, dead>>
  /\ UNCHANGED statusUnchanged
  /\ UNCHANGED Socket

(* Login shows every other client in the vector, logged in or not.          *)
ListOthers(c) ==
  LET others == ToSet(connected) \ {c}
      spawns == [i \in DOMAIN connected |->
                   IF connected[i] = c THEN <<>> ELSE <<Message("NamedEntitySpawn", connected[i])>>]
  IN /\ At(c, "list")
     /\ dead' = IF \A d \in others : person[d] = "player" THEN dead ELSE "null"
     /\ Follow(c, Write(FlattenSeq(spawns)))
     /\ blurred' = [blurred EXCEPT ![c] = @ \cup {d \in others : status[d] = Disconnected}]
     /\ UNCHANGED <<buffer, response, writing, listMutex, responseMutex, received, screen, ids>>
     /\ UNCHANGED statusUnchanged
     /\ UNCHANGED Socket

(* BroadcastToClients does nothing with an empty vector, takes the mutex,   *)
(* goes through the clients and clears the vector. *)
NothingToBroadcast(t) ==
  /\ At(t, "broadcast")
  /\ buffer[Next1(t).buf] = <<>>
  /\ Follow(t, <<>>)
  /\ UNCHANGED <<buffer, response, writing, listMutex, responseMutex, received, screen, ids, blurred, dead>>
  /\ UNCHANGED statusUnchanged
  /\ UNCHANGED Socket

(* Variant: the mutex is not waited for. *)
LockAnyway(t) ==
  /\ At(t, "broadcast")
  /\ buffer[Next1(t).buf] # <<>>
  /\ listMutex' = t
  /\ ids' = ids + 1
  /\ Follow(t, <<[Next1(t) EXCEPT !.do = "deliver", !.id = ids + 1, !.msgs = buffer[Next1(t).buf],
                                  !.list = connected]>>)
  /\ UNCHANGED <<buffer, response, writing, responseMutex, received, screen, blurred, dead>>
  /\ UNCHANGED statusUnchanged
  /\ UNCHANGED Socket

Lock(t) ==
  /\ At(t, "broadcast")
  /\ buffer[Next1(t).buf] # <<>>
  /\ listMutex = Nobody
  /\ listMutex' = t
  /\ ids' = ids + 1
  /\ Follow(t, <<[Next1(t) EXCEPT !.do = "deliver", !.id = ids + 1, !.msgs = buffer[Next1(t).buf],
                                  !.list = connected]>>)
  /\ UNCHANGED <<buffer, response, writing, responseMutex, received, screen, blurred, dead>>
  /\ UNCHANGED statusUnchanged
  /\ UNCHANGED Socket

(* The login of a client that has listed the others and is not Connected.   *)
HasListed(c) ==
  /\ \E i \in DOMAIN todo[c] : todo[c][i].do = "status" /\ todo[c][i].list = <<Connected>>
  /\ ~\E i \in DOMAIN todo[c] : todo[c][i].do = "list"

(* BroadcastToClients' loop: the sender is passed over, and the status is   *)
(* tested before AppendResponse waits. *)
Deliver(t) ==
  LET c == Head(Next1(t).list)
      rest == [Next1(t) EXCEPT !.list = Tail(@)]
  IN /\ At(t, "deliver")
     /\ Next1(t).list # <<>>
     /\ IF c # Next1(t).who /\ status[c] = Connected
        THEN /\ todo' = [todo EXCEPT ![t] = <<[rest EXCEPT !.do = "append", !.who = c], rest>> \o Tail(@)]
             /\ UNCHANGED blurred
        ELSE /\ todo' = [todo EXCEPT ![t] = <<rest>> \o Tail(@)]
             /\ blurred' = IF c # Next1(t).who /\ HasListed(c)
                           THEN [blurred EXCEPT ![c] = @ \cup Entities(buffer[Next1(t).buf])]
                           ELSE blurred
     /\ UNCHANGED <<buffer, response, writing, listMutex, responseMutex, received, screen, ids, dead>>
     /\ UNCHANGED statusUnchanged
     /\ UNCHANGED Socket

(* AppendResponse, for a broadcast or a command's answer.  Beside a write   *)
(* of the client's own thread, the addition can be lost or the memory be    *)
(* corrupted. *)
AppendTo(t) ==
  LET c == Next1(t).who
      id == Next1(t).id
      msgs == IF id = 0 THEN Next1(t).msgs ELSE buffer[Next1(t).buf]
  IN /\ At(t, "append")
     /\ responseMutex[c] = Nobody
     /\ \/ /\ response' = IF msgs = <<>> \/ (id = 0 /\ Entities(msgs) = {}) THEN response
                          ELSE [response EXCEPT ![c] = Append(@, [id |-> id, msgs |-> msgs])]
           /\ UNCHANGED <<blurred, dead>>
        \/ /\ c \in writing \ {t}
           /\ blurred' = [blurred EXCEPT ![c] = @ \cup Entities(msgs)]
           /\ dead' \in {dead, "memory"}
           /\ UNCHANGED response
     /\ Follow(t, <<>>)
     /\ UNCHANGED <<buffer, writing, listMutex, responseMutex, received, screen, ids>>
     /\ UNCHANGED statusUnchanged
     /\ UNCHANGED Socket

(* What another thread has put there meanwhile is cleared too.              *)
Unlock(t) ==
  LET buf == Next1(t).buf
      late == SubSeq(buffer[buf], Len(Next1(t).msgs) + 1, Len(buffer[buf]))
  IN /\ At(t, "deliver")
     /\ Next1(t).list = <<>>
     /\ listMutex' = Nobody
     /\ buffer' = [buffer EXCEPT ![buf] = <<>>]
     /\ blurred' = [c \in Clients |-> blurred[c] \cup Entities(late)]
     /\ Follow(t, <<>>)
     /\ UNCHANGED <<response, writing, responseMutex, received, screen, ids, dead>>
     /\ UNCHANGED statusUnchanged
     /\ UNCHANGED Socket

(* SendResponse holds the mutex for as long as send takes.  An empty        *)
(* response becomes a KeepAlive. *)
BeginSend(t) ==
  LET c == Next1(t).who
  IN /\ At(t, "send")
     /\ responseMutex[c] = Nobody
     /\ IF status[c] = Disconnected
        THEN Follow(t, <<>>) /\ UNCHANGED responseMutex
        ELSE /\ Follow(t, <<[Next1(t) EXCEPT !.do = "sending"]>>)
             /\ responseMutex' = [responseMutex EXCEPT ![c] = t]
     /\ UNCHANGED <<buffer, response, writing, listMutex, received, screen, ids, blurred, dead>>
     /\ UNCHANGED statusUnchanged
     /\ UNCHANGED Socket

(* A batch that is not a broadcast has the number 0. *)
Numbers(batches) == [i \in DOMAIN batches |-> batches[i].id]

(* send returns when the other end has room: as long as it is open, when    *)
(* the game has read.  What is sent to a closed end is answered with a      *)
(* reset; the next send raises SIGPIPE, which nobody handles. *)
Sent(t) ==
  LET c == Next1(t).who
  IN /\ At(t, "sending")
     /\ \/ /\ peer[c] = "open"
           /\ received' = [received EXCEPT ![c] = @ \o Numbers(response[c])]
           /\ screen' = [screen EXCEPT ![c] =
                Shows(@, FlattenSeq([i \in DOMAIN response[c] |-> response[c][i].msgs]))]
           /\ UNCHANGED <<peer, dead>>
        \/ /\ peer[c] = "closed"
           /\ peer' = [peer EXCEPT ![c] = "reset"]
           /\ UNCHANGED <<received, screen, dead>>
        \/ /\ peer[c] = "reset"
           /\ dead' = "SIGPIPE"
           /\ UNCHANGED <<received, screen, peer>>
     /\ response' = [response EXCEPT ![c] = <<>>]
     /\ responseMutex' = [responseMutex EXCEPT ![c] = Nobody]
     /\ Follow(t, <<>>)
     /\ UNCHANGED <<buffer, writing, listMutex, ids, blurred, stage, inbox, events>>
     /\ UNCHANGED statusUnchanged

(* The end of HandleClient: the client is erased from the vector.           *)
Close(c) ==
  /\ At(c, "close")
  /\ listMutex = Nobody
  /\ \E i \in DOMAIN connected : connected[i] = c /\ connected' = RemoveAt(connected, i)
  /\ peer' = [peer EXCEPT ![c] = "closed"]
  /\ stage' = [stage EXCEPT ![c] = "left"]
  /\ Follow(c, <<>>)
  /\ UNCHANGED <<status, person, inbox, buffer, response, writing, listMutex, responseMutex,
                 received, screen, ids, blurred, events, dead>>

(* The main loop tells the time. *)
BroadcastTime ==
  /\ todo[Main] = <<>>
  /\ events > 0
  /\ todo' = [todo EXCEPT ![Main] = Now(Main, <<Message("TimeUpdate", Main)>>)]
  /\ events' = events - 1
  /\ UNCHANGED <<buffer, response, writing, listMutex, responseMutex, received, screen, ids, blurred, dead>>
  /\ UNCHANGED statusUnchanged
  /\ UNCHANGED <<stage, inbox, peer>>

(* ------------------------------ specification --------------------------- *)

Init ==
  /\ status = [c \in Clients |-> IF c \in Present THEN Connected ELSE Disconnected]
  /\ connected = SetToSeq(Present)
  /\ person = [c \in Clients |-> IF c \in Present THEN "player" ELSE "none"]
  /\ stage = [c \in Clients |-> IF c \in Present THEN "play" ELSE "away"]
  /\ inbox = [c \in Clients |-> <<>>]
  /\ peer = [c \in Clients |-> "open"]
  /\ todo = [t \in Threads |-> IF t \in Present THEN <<Task("loop")>> ELSE <<>>]
  /\ buffer = [b \in Buffers |-> <<>>]
  /\ response = [c \in Clients |-> <<>>]
  /\ writing = {}
  /\ listMutex = Nobody
  /\ responseMutex = [c \in Clients |-> Nobody]
  /\ received = [c \in Clients |-> <<>>]
  /\ screen = [c \in Clients |-> IF c \in Present THEN Present \ {c} ELSE {}]
  /\ ids = 0
  /\ blurred = [c \in Clients |-> {}]
  /\ events = MaxEvents
  /\ dead = "no"

(* What a thread does without waiting for another one. *)
Step(t) ==
  \/ Decide(t) \/ Push(t) \/ NothingToBroadcast(t) \/ Deliver(t) \/ Unlock(t)
  \/ t \in Clients /\ (Loop(t) \/ Read(t) \/ BeginWrite(t) \/ EndWrite(t) \/ ListOthers(t))

(* What it does when a mutex is free. *)
Wait(t) ==
  \/ Lock(t) \/ AppendTo(t) \/ BeginSend(t)
  \/ t \in Clients /\ Close(t)

Next ==
  /\ dead = "no"
  /\ \/ BroadcastTime
     \/ \E t \in Threads : Step(t) \/ Wait(t) \/ Sent(t)
     \/ \E c \in Clients : Join(c) \/ Enter(c) \/ Play(c) \/ Leave(c)

(* A thread that can go on does; a mutex that is free again and again is    *)
(* got some time, since its holders sleep between two bundles; a game reads *)
(* what it is sent. *)
Fairness ==
  /\ \A t \in Threads : WF_vars(dead = "no" /\ Step(t)) /\ SF_vars(dead = "no" /\ Wait(t))
                        /\ WF_vars(dead = "no" /\ Sent(t))

Spec == Init /\ [][Next]_vars /\ Fairness

(* ------------------------------- properties ----------------------------- *)

(* The batches a client has received or is about to, by their numbers. *)
Heard(c) == received[c] \o Numbers(response[c])

(* The client hears broadcast m, and later broadcast n. *)
HearsBefore(c, m, n) ==
  \E i, j \in DOMAIN Heard(c) : i < j /\ Heard(c)[i] = m /\ Heard(c)[j] = n

(* No two clients hear two broadcasts in different orders, and none hears a *)
(* broadcast twice (c = d and m = n): BroadcastToClients holds              *)
(* connectedClientsMutex from the first client to the last. *)
SameOrder ==
  \A c, d \in Clients, m, n \in 1 .. ids : HearsBefore(c, m, n) => ~HearsBefore(d, n, m)

Quiet == \A t \in Threads : todo[t] = <<>> \/ Next1(t).do = "read"

(* When nothing is under way, a client that is in the game shows the others *)
(* that are, and nobody else, but for those whose coming or going fell into *)
(* its login or was lost with a buffer (Login, DisconnectClient and the two *)
(* broadcasts of HandlePacket). *)
ScreensAgree ==
  Quiet /\ dead = "no" =>
    \A c, d \in Clients :
      status[c] = Connected /\ peer[c] = "open" /\ response[c] = <<>> /\ c # d /\ d \notin blurred[c] =>
        (d \in screen[c] <=> status[d] = Connected)

(* What is in a client's response is sent when its next packet is handled,  *)
(* whatever the packet is, unless the client leaves or the server dies: no  *)
(* handler, and no other client's, can keep HandlePacket from SendResponse  *)
(* for ever, as long as every game reads what it is sent. *)
Delivered ==
  \A c \in Clients :
    (response[c] # <<>> /\ inbox[c] # <<>>)
      ~> (response[c] = <<>> \/ status[c] = Disconnected \/ peer[c] # "open" \/ dead # "no")
=============================================================================
