---------------------------- MODULE ConnectionProofs ----------------------------
(***************************************************************************)
(* That all clients hear the broadcasts in one order, and that their       *)
(* screens agree in the end, for any number of clients and any sequence of *)
(* packets.                                                                *)
(*                                                                         *)
(* One order: the numbers of the broadcasts are given under                *)
(* connectedClientsMutex, so the last one given is the one under way, if   *)
(* any is.  What a client hears is in ascending order, and the clients the *)
(* broadcast under way is still to be put to have not heard it yet.  The   *)
(* rest of the work is to see that nothing else a thread has to do puts a  *)
(* broadcast anywhere.                                                     *)
(*                                                                         *)
(* Screens: whoever comes is on the screen of everybody who listens, or    *)
(* the message that says so is somewhere on its way: still to be put into  *)
(* a buffer, in a buffer that somebody is going to broadcast, in the       *)
(* broadcast under way with the client still on its list, or about to be   *)
(* written to the client's response (Shown); the same for whoever goes     *)
(* (Hidden).  What a thread may have to do, and in which order, is said    *)
(* task by task (Right).  One lemma for every action says that it keeps    *)
(* this (the ones named ...Alive); when all threads are idle, nothing is   *)
(* on its way.                                                             *)
(***************************************************************************)
EXTENDS Connection, FiniteSetTheorems, SequenceTheorems, WellFoundedInduction, TLAPS

(* Tasks in which no broadcast is under way. *)
Plain(s) == \E S : s \in Seq(S) /\ \A task \in S : task.do # "deliver" /\ task.id = 0

Hears(c, n) == \E i \in DOMAIN Heard(c) : Heard(c)[i] = n

Ascending(s) == \A i, j \in DOMAIN s : i < j /\ s[i] # 0 /\ s[j] # 0 => s[i] < s[j]

(* The loop of BroadcastToClients over the clients in task.list. *)
Looping(s) ==
  /\ (\E S : s \in Seq(S)) /\ s # <<>>
  /\ Plain(Tail(s))
  /\ Head(s).do = "deliver"
  /\ Head(s).id = ids
  /\ Head(s).list \in Seq(Clients) /\ IsInjective(Head(s).list)
  /\ \A i \in DOMAIN Head(s).list : ~Hears(Head(s).list[i], ids)

(* The loop's body, with the client it is about to append to. *)
Appending(s) ==
  /\ s # <<>>
  /\ Looping(Tail(s))
  /\ Head(s).do = "append"
  /\ Head(s).id = ids
  /\ Head(s).who \in Clients
  /\ ~Hears(Head(s).who, ids)
  /\ \A i \in DOMAIN Head(Tail(s)).list : Head(Tail(s)).list[i] # Head(s).who

Words == First \cup Kinds \cup {"LoginRequest"}

Shape ==
  /\ stage \in [Clients -> {"away", "handshake", "login", "play", "left"}]
  /\ inbox \in [Clients -> Seq(Words)]
  /\ connected \in Seq(Clients) /\ IsInjective(connected)
  /\ \A i \in DOMAIN connected : stage[connected[i]] # "away"
  /\ todo = [t \in Threads |-> todo[t]]
  /\ response = [c \in Clients |-> response[c]]
  /\ \A c \in Clients : (\E S : response[c] \in Seq(S)) /\ Numbers(response[c]) \in Seq(0 .. ids)
  /\ ids \in Nat
  /\ received \in [Clients -> Seq(0 .. ids)]
  /\ listMutex \in Threads \cup {Nobody}

(* What the clients hear, and who has a broadcast under way. *)
InOrder ==
  /\ \A c \in Clients : Ascending(Heard(c))
  /\ listMutex # Nobody => ids > 0
  /\ \A t \in Threads : IF t = listMutex THEN Looping(todo[t]) \/ Appending(todo[t]) ELSE Plain(todo[t])

IInv == Shape /\ InOrder

-----------------------------------------------------------------------------
(* Lists of tasks. *)

LEMMA PlainIntro ==
  ASSUME NEW S, NEW s \in Seq(S), \A task \in S : task.do # "deliver" /\ task.id = 0
  PROVE  Plain(s)
BY Zenon DEF Plain

LEMMA PlainEmpty == Plain(<<>>)
<1> DEFINE S == {}
<1>1. <<>> \in Seq(S) /\ \A task \in S : task.do # "deliver" /\ task.id = 0
  OBVIOUS
<1> HIDE DEF S
<1> QED BY <1>1, PlainIntro

LEMMA PlainOne ==
  ASSUME NEW task, task.do # "deliver", task.id = 0
  PROVE  Plain(<<task>>)
<1> DEFINE S == {task}
<1>1. <<task>> \in Seq(S) /\ \A x \in S : x.do # "deliver" /\ x.id = 0
  OBVIOUS
<1> HIDE DEF S
<1> QED BY <1>1, PlainIntro

LEMMA PlainConcat ==
  ASSUME NEW s, Plain(s), NEW t, Plain(t)
  PROVE  Plain(s \o t)
<1>1. PICK S : s \in Seq(S) /\ \A task \in S : task.do # "deliver" /\ task.id = 0
  BY DEF Plain
<1>2. PICK T : t \in Seq(T) /\ \A task \in T : task.do # "deliver" /\ task.id = 0
  BY DEF Plain
<1>3. s \in Seq(S \cup T) /\ t \in Seq(S \cup T)
  BY <1>1, <1>2, SeqMonotonic
<1>4. s \o t \in Seq(S \cup T)
  BY <1>3, ConcatProperties
<1>5. \A task \in S \cup T : task.do # "deliver" /\ task.id = 0
  BY <1>1, <1>2
<1> QED BY <1>4, <1>5, PlainIntro, Zenon

LEMMA PlainHeadTail ==
  ASSUME NEW s, Plain(s), s # <<>>
  PROVE  Head(s).do # "deliver" /\ Head(s).id = 0 /\ Plain(Tail(s))
<1>1. PICK S : s \in Seq(S) /\ \A task \in S : task.do # "deliver" /\ task.id = 0
  BY DEF Plain
<1>2. Head(s) \in S /\ Tail(s) \in Seq(S)
  BY <1>1, HeadTailProperties
<1> QED BY <1>1, <1>2, PlainIntro, Zenon

LEMMA PlainSubSeq ==
  ASSUME NEW s, Plain(s), NEW n \in DOMAIN s
  PROVE  Plain(SubSeq(s, n, Len(s)))
<1>1. PICK S : s \in Seq(S) /\ \A task \in S : task.do # "deliver" /\ task.id = 0
  BY DEF Plain
<1>2. SubSeq(s, n, Len(s)) \in Seq(S)
  BY <1>1
<1> QED BY <1>1, <1>2, PlainIntro, Zenon

(* What the handlers leave to be done is plain, whatever is said in it. *)
LEMMA PlainTasks ==
  /\ \A do : do # "deliver" => Plain(<<Task(do)>>)
  /\ \A buf, msgs : Plain(Put(buf, msgs))
  /\ \A buf, skip : Plain(Broadcast(buf, skip))
  /\ \A msgs : Plain(Write(msgs))
  /\ \A c, msgs : Plain(AppendResponse(c, msgs))
  /\ \A c : Plain(SendResponse(c))
  /\ \A c, new : Plain(SetStatus(c, new))
<1>1. \A do : Task(do).do = do /\ Task(do).id = 0
  BY DEF Task
<1>2. ASSUME NEW do, do # "deliver" PROVE Plain(<<Task(do)>>)
  BY <1>1, <1>2, PlainOne
<1>3. ASSUME NEW buf, NEW msgs PROVE Plain(Put(buf, msgs))
  <2>1. Plain(<<[Task("put") EXCEPT !.buf = buf, !.msgs = msgs]>>)
    BY PlainOne DEF Task
  <2> QED BY <2>1, PlainEmpty DEF Put
<1>4. ASSUME NEW buf, NEW skip PROVE Plain(Broadcast(buf, skip))
  BY PlainOne DEF Task, Broadcast
<1>5. ASSUME NEW msgs PROVE Plain(Write(msgs))
  BY PlainOne DEF Task, Write
<1>6. ASSUME NEW c, NEW msgs PROVE Plain(AppendResponse(c, msgs))
  <2>1. Plain(<<[Task("append") EXCEPT !.who = c, !.msgs = msgs]>>)
    BY PlainOne DEF Task
  <2> QED BY <2>1, PlainEmpty DEF AppendResponse
<1>7. ASSUME NEW c PROVE Plain(SendResponse(c))
  BY PlainOne DEF Task, SendResponse
<1>8. ASSUME NEW c, NEW new PROVE Plain(SetStatus(c, new))
  BY PlainOne DEF Task, SetStatus
<1> QED BY <1>2, <1>3, <1>4, <1>5, <1>6, <1>7, <1>8

LEMMA PlainHandlers ==
  /\ \A t, msgs : Plain(Now(t, msgs))
  /\ \A c, tellPlayer, known : Plain(DisconnectClient(c, tellPlayer, known))
  /\ \A c, e : Plain(Handle(c, e))
  /\ \A c : Plain(EndOfBundle(c)) /\ Plain(LogIn(c))
<1>1. ASSUME NEW t, NEW msgs PROVE Plain(Now(t, msgs))
  BY PlainTasks, PlainEmpty, PlainConcat DEF Now
<1>2. ASSUME NEW c, NEW tellPlayer, NEW known PROVE Plain(DisconnectClient(c, tellPlayer, known))
  <2>1. Plain(IF tellPlayer THEN SendResponse(c) ELSE <<>>)
    BY PlainTasks, PlainEmpty
  <2>2. Plain(IF known
              THEN Put(<<c, "others">>, Messages(<<"ChatMessage", "DestroyEntity">>, c))
                   \o Broadcast(<<c, "others">>, c)
              ELSE <<>>)
    BY PlainTasks, PlainEmpty, PlainConcat
  <2> QED BY <2>1, <2>2, PlainTasks, PlainConcat DEF DisconnectClient
<1>3. ASSUME NEW c, NEW e PROVE Plain(Handle(c, e))
  <2>1. Plain(IF Len(e.own) >= 1 THEN Write(Messages(e.own[1], c)) ELSE <<>>)
    BY PlainTasks, PlainEmpty
  <2>2. Plain(IF Len(e.own) = 2 THEN SendResponse(c) \o Write(Messages(e.own[2], c)) ELSE <<>>)
    BY PlainTasks, PlainEmpty, PlainConcat
  <2>3. Plain(Put(<<c, "all">>, Messages(e.all, c)) \o Put(<<c, "others">>, Messages(e.others, c)))
    BY PlainTasks, PlainConcat
  <2>4. Plain(Now(c, Messages(e.now, c))) /\ Plain(AppendResponse(c, Messages(e.answer, c)))
    BY <1>1, PlainTasks
  <2> QED BY <2>1, <2>2, <2>3, <2>4, PlainConcat DEF Handle
<1>4. ASSUME NEW c PROVE Plain(EndOfBundle(c))
  BY PlainTasks, PlainConcat DEF EndOfBundle
<1>5. ASSUME NEW c PROVE Plain(LogIn(c))
  <2>1. Plain(<<Task("list")>>)
    BY PlainTasks
  <2>2. Plain(Write(<<Message("LoginRequest", c)>>) \o Put(<<c, "all">>, <<Message("ChatMessage", c)>>))
    BY PlainTasks, PlainConcat
  <2>3. Plain(Write(<<Message("LoginRequest", c)>>) \o Put(<<c, "all">>, <<Message("ChatMessage", c)>>)
              \o Put(<<c, "others">>, <<Message("NamedEntitySpawn", c)>>) \o <<Task("list")>>)
    BY <2>1, <2>2, PlainTasks, PlainConcat
  <2> QED BY <2>3, PlainTasks, PlainConcat DEF LogIn
<1> QED BY <1>1, <1>2, <1>3, <1>4, <1>5

LEMMA PlainPackets ==
  ASSUME NEW c, NEW S, inbox[c] \in Seq(S)
  PROVE  Plain(Packets(c))
<1> DEFINE packet(i) == [Task("packet") EXCEPT !.msgs = <<Message(inbox[c][i], c)>>]
           P == {packet(i) : i \in DOMAIN inbox[c]}
<1>1. \A x \in P : x.do # "deliver" /\ x.id = 0
  BY DEF Task
<1>2. Len(inbox[c]) \in Nat /\ DOMAIN inbox[c] = 1 .. Len(inbox[c])
  BY LenProperties
<1>3. Packets(c) \in [1 .. Len(inbox[c]) -> P]
  <2>1. Packets(c) = [i \in DOMAIN inbox[c] |-> packet(i)]
    BY DEF Packets
  <2>2. \A i \in DOMAIN inbox[c] : packet(i) \in P
    OBVIOUS
  <2> HIDE DEF packet, P
  <2> QED BY <2>1, <2>2, <1>2
<1> HIDE DEF P
<1>4. Packets(c) \in Seq(P)
  BY <1>2, <1>3
<1> QED BY <1>1, <1>4, PlainIntro

-----------------------------------------------------------------------------
(* What the clients hear. *)

LEMMA NobodyIsNoThread == Nobody \notin Threads
BY ConnectionAssumption DEF Threads, Main, Nobody

(* A thread that is doing something else has no broadcast under way. *)
LEMMA NotBroadcasting ==
  ASSUME IInv, NEW t \in Threads, NEW do, At(t, do), do \notin {"deliver", "append"}
  PROVE  t # listMutex /\ Plain(todo[t]) /\ Plain(Tail(todo[t]))
<1>1. todo[t] # <<>> /\ Head(todo[t]).do \notin {"deliver", "append"}
  BY DEF At, Next1
<1>2. t # listMutex /\ Plain(todo[t])
  BY <1>1 DEF IInv, InOrder, Looping, Appending
<1> QED BY <1>1, <1>2, PlainHeadTail

(* A step of a thread without a broadcast under way that leaves it without  *)
(* one, and gives nobody the last broadcast to hear. *)
LEMMA QuietStep ==
  ASSUME IInv, NEW t \in Threads, t # listMutex, NEW new, Plain(new), todo' = [todo EXCEPT ![t] = new],
         UNCHANGED <<listMutex, ids>>,
         \A c \in Clients : /\ Ascending(Heard(c)')
                            /\ ids # 0 /\ Hears(c, ids)' => Hears(c, ids)
  PROVE  InOrder'
<1>1. ASSUME NEW u \in Threads
      PROVE  (IF u = listMutex THEN Looping(todo[u]) \/ Appending(todo[u]) ELSE Plain(todo[u]))'
  <2>1. CASE u = t
    <3>1. todo'[u] = new
      BY <2>1 DEF IInv, Shape
    <3> QED BY <3>1, <2>1
  <2>2. CASE u # t /\ u # listMutex
    <3>1. todo'[u] = todo[u]
      BY <2>2 DEF IInv, Shape
    <3> QED BY <3>1, <2>2 DEF IInv, InOrder
  <2>3. CASE u # t /\ u = listMutex
    <3>1. todo'[u] = todo[u] /\ (Looping(todo[u]) \/ Appending(todo[u])) /\ ids # 0
      <4>1. listMutex # Nobody
        BY <2>3, NobodyIsNoThread
      <4>2. todo'[u] = todo[u]
        BY <2>3 DEF IInv, Shape
      <4> QED BY <2>3, <4>1, <4>2 DEF IInv, InOrder
    <3>2. \A c \in Clients : Hears(c, ids)' => Hears(c, ids)
      BY <3>1
    <3>3. ASSUME NEW s, Looping(s) PROVE Looping(s)'
      <4>1. \A i \in DOMAIN Head(s).list : Head(s).list[i] \in Clients
        BY <3>3 DEF Looping
      <4> QED BY <3>2, <3>3, <4>1 DEF Looping
    <3>4. ASSUME NEW s, Appending(s) PROVE Appending(s)'
      BY <3>2, <3>3, <3>4 DEF Appending
    <3> QED BY <3>1, <3>3, <3>4, <2>3
  <2> QED BY <2>1, <2>2, <2>3
<1> QED BY <1>1 DEF IInv, InOrder

(* Such a step that does not touch the responses. *)
LEMMA SilentStep ==
  ASSUME IInv, NEW t \in Threads, t # listMutex, NEW new, Plain(new), todo' = [todo EXCEPT ![t] = new],
         UNCHANGED <<listMutex, ids, received, response>>
  PROVE  InOrder'
<1>1. \A c : Heard(c)' = Heard(c)
  BY DEF Heard, Numbers
<1>2. \A c : (Hears(c, ids)' <=> Hears(c, ids)) /\ (Ascending(Heard(c)') <=> Ascending(Heard(c)))
  BY <1>1 DEF Hears
<1> QED BY <1>1, <1>2, QuietStep DEF IInv, InOrder

LEMMA NumbersAppend ==
  ASSUME NEW S, NEW batches \in Seq(S), NEW n \in Nat, Numbers(batches) \in Seq(0 .. n),
         NEW b, b.id \in 0 .. n
  PROVE  Numbers(Append(batches, b)) = Append(Numbers(batches), b.id)
<1> DEFINE T == S \cup {b}
           k == Len(batches)
<1>1. batches \in Seq(T) /\ b \in T
  BY SeqMonotonic
<1> HIDE DEF T
<1>2. k \in Nat /\ DOMAIN batches = 1 .. k
  OBVIOUS
<1>3. /\ DOMAIN Append(batches, b) = 1 .. k + 1
      /\ \A i \in 1 .. k : Append(batches, b)[i] = batches[i]
      /\ Append(batches, b)[k + 1] = b
  BY <1>1, AppendProperties
<1>4. Len(Numbers(batches)) = k
  <2>1. DOMAIN Numbers(batches) = 1 .. k
    BY <1>2 DEF Numbers
  <2> QED BY <2>1, <1>2
<1>5. /\ Append(Numbers(batches), b.id) \in Seq(0 .. n)
      /\ DOMAIN Append(Numbers(batches), b.id) = 1 .. k + 1
      /\ \A i \in 1 .. k : Append(Numbers(batches), b.id)[i] = Numbers(batches)[i]
      /\ Append(Numbers(batches), b.id)[k + 1] = b.id
  BY <1>4, AppendProperties
<1>6. \A i \in 1 .. k : Numbers(batches)[i] = batches[i].id
  BY <1>2 DEF Numbers
<1>7. Numbers(Append(batches, b)) = [i \in 1 .. k + 1 |-> Append(batches, b)[i].id]
  BY <1>3 DEF Numbers
<1>8. \A i \in 1 .. k + 1 : Append(Numbers(batches), b.id)[i] = Append(batches, b)[i].id
  <2> SUFFICES ASSUME NEW i \in 1 .. k + 1
               PROVE  Append(Numbers(batches), b.id)[i] = Append(batches, b)[i].id
    OBVIOUS
  <2>1. i \in 1 .. k \/ i = k + 1
    BY <1>2
  <2> QED BY <2>1, <1>3, <1>5, <1>6
<1> HIDE DEF k
<1> QED BY <1>2, <1>5, <1>7, <1>8

(* A batch that is appended to a response is heard last. *)
LEMMA HeardAppend ==
  ASSUME IInv, NEW c \in Clients, NEW b, b.id \in 0 .. ids,
         response' = [response EXCEPT ![c] = Append(@, b)], UNCHANGED received
  PROVE  /\ Heard(c) \in Seq(0 .. ids)
         /\ Heard(c)' = Append(Heard(c), b.id)
         /\ \A d \in Clients \ {c} : Heard(d)' = Heard(d)
<1>1. PICK S : response[c] \in Seq(S)
  BY DEF IInv, Shape
<1>2. response'[c] = Append(response[c], b) /\ \A d \in Clients \ {c} : response'[d] = response[d]
  BY DEF IInv, Shape
<1>3. ids \in Nat /\ received[c] \in Seq(0 .. ids) /\ Numbers(response[c]) \in Seq(0 .. ids)
  BY DEF IInv, Shape
<1>4. Numbers(response'[c]) = Append(Numbers(response[c]), b.id)
  BY <1>1, <1>2, <1>3, NumbersAppend
<1>5. received[c] \o Append(Numbers(response[c]), b.id) = Append(received[c] \o Numbers(response[c]), b.id)
  <2> DEFINE r == received[c]
             m == Numbers(response[c])
  <2>1. r \in Seq(0 .. ids) /\ m \in Seq(0 .. ids) /\ <<b.id>> \in Seq(0 .. ids)
    BY <1>3
  <2> HIDE DEF r, m
  <2>2. r \o (m \o <<b.id>>) = (r \o m) \o <<b.id>>
    BY <2>1, ConcatAssociative
  <2>3. r \o m \in Seq(0 .. ids)
    BY <2>1, ConcatProperties
  <2>4. Append(m, b.id) = m \o <<b.id>> /\ Append(r \o m, b.id) = (r \o m) \o <<b.id>>
    BY <2>1, <2>3, AppendIsConcat
  <2>5. r \o Append(m, b.id) = Append(r \o m, b.id)
    BY <2>2, <2>4
  <2> QED BY <2>5 DEF r, m
<1>6. \A d : Heard(d)' = received[d] \o Numbers(response'[d])
  BY DEF Heard, Numbers
<1>7. \A d \in Clients \ {c} : Heard(d)' = Heard(d)
  BY <1>2, <1>6 DEF Heard
<1> QED BY <1>3, <1>4, <1>5, <1>6, <1>7, ConcatProperties DEF Heard

LEMMA AscendingAppend ==
  ASSUME NEW n \in Nat, NEW s \in Seq(0 .. n), NEW x \in 0 .. n
  PROVE  /\ Ascending(s) /\ (x = 0 \/ \A i \in DOMAIN s : s[i] < x) => Ascending(Append(s, x))
         /\ \A v : (\E i \in DOMAIN Append(s, x) : Append(s, x)[i] = v)
                     <=> (v = x \/ \E i \in DOMAIN s : s[i] = v)
<1>1. Len(s) \in Nat /\ DOMAIN s = 1 .. Len(s) /\ \A i \in 1 .. Len(s) : s[i] \in 0 .. n
  OBVIOUS
<1>2. /\ DOMAIN Append(s, x) = 1 .. Len(s) + 1
      /\ \A i \in 1 .. Len(s) : Append(s, x)[i] = s[i]
      /\ Append(s, x)[Len(s) + 1] = x
  BY AppendProperties
<1>3. \A i \in 1 .. Len(s) + 1 : i \in 1 .. Len(s) \/ i = Len(s) + 1
  BY <1>1
<1>4. ASSUME Ascending(s), x = 0 \/ \A i \in DOMAIN s : s[i] < x
      PROVE  Ascending(Append(s, x))
  BY <1>1, <1>2, <1>3, <1>4 DEF Ascending
<1>5. ASSUME NEW v
      PROVE  (\E i \in DOMAIN Append(s, x) : Append(s, x)[i] = v) <=> (v = x \/ \E i \in DOMAIN s : s[i] = v)
  BY <1>1, <1>2, <1>3
<1> QED BY <1>4, <1>5

(* Such a step that puts something else than a broadcast into a response. *)
LEMMA OtherBatch ==
  ASSUME IInv, NEW t \in Threads, t # listMutex, NEW new, Plain(new), todo' = [todo EXCEPT ![t] = new],
         NEW c \in Clients, NEW b, b.id = 0, response' = [response EXCEPT ![c] = Append(@, b)],
         UNCHANGED <<listMutex, ids, received>>
  PROVE  InOrder'
<1>1. ids \in Nat /\ b.id \in 0 .. ids
  BY DEF IInv, Shape
<1>2. /\ Heard(c) \in Seq(0 .. ids)
      /\ Heard(c)' = Append(Heard(c), b.id)
      /\ \A d \in Clients \ {c} : Heard(d)' = Heard(d)
  BY <1>1, HeardAppend
<1>3. /\ Ascending(Heard(c)')
      /\ ids # 0 /\ Hears(c, ids)' => Hears(c, ids)
  BY <1>1, <1>2, AscendingAppend DEF IInv, InOrder, Hears
<1>4. ASSUME NEW d \in Clients \ {c}
      PROVE  Ascending(Heard(d)') /\ (Hears(d, ids)' => Hears(d, ids))
  BY <1>2 DEF IInv, InOrder, Hears
<1>5. \A d \in Clients : Ascending(Heard(d)') /\ (ids # 0 /\ Hears(d, ids)' => Hears(d, ids))
  BY <1>3, <1>4
<1> QED BY <1>5, QuietStep

LEMMA ConcatPrefix ==
  ASSUME NEW S, NEW s \in Seq(S), NEW t \in Seq(S)
  PROVE  /\ DOMAIN s \subseteq DOMAIN (s \o t)
         /\ \A i \in DOMAIN s : s[i] = (s \o t)[i]
<1>1. /\ Len(s) \in Nat /\ Len(t) \in Nat
      /\ DOMAIN s = 1 .. Len(s)
      /\ DOMAIN (s \o t) = 1 .. Len(s) + Len(t)
  BY ConcatProperties, LenProperties
<1> QED BY <1>1, ConcatProperties

(* Sending moves what is in a response to what was received, or loses it. *)
LEMMA SentStep ==
  ASSUME IInv, NEW t \in Threads, Sent(t)
  PROVE  InOrder'
<1> DEFINE c == Next1(t).who
<1>1. t # listMutex /\ Plain(Tail(todo[t]))
  BY NotBroadcasting DEF Sent
<1>2. Plain(<<>> \o Tail(todo[t]))
  BY <1>1, PlainEmpty, PlainConcat
<1>3. todo' = [todo EXCEPT ![t] = <<>> \o Tail(todo[t])]
  BY DEF Sent, Follow
<1>4. UNCHANGED <<listMutex, ids>>
  BY DEF Sent
<1>5. /\ response' = [response EXCEPT ![c] = <<>>]
      /\ received' \in {received, [received EXCEPT ![c] = @ \o Numbers(response[c])]}
  BY DEF Sent
<1>6. ASSUME NEW d \in Clients
      PROVE  Ascending(Heard(d)') /\ (Hears(d, ids)' => Hears(d, ids))
  <2>1. /\ received[d] \in Seq(0 .. ids) /\ Numbers(response[d]) \in Seq(0 .. ids)
        /\ Numbers(<<>>) = <<>>
    BY DEF IInv, Shape, Numbers
  <2>2. Heard(d)' = received'[d] \o Numbers(response'[d])
    BY DEF Heard, Numbers
  <2>3. received[d] \o <<>> = received[d] /\ (received[d] \o Numbers(response[d])) \o <<>> = Heard(d)
    BY <2>1, ConcatEmptySeq, ConcatProperties DEF Heard
  <2>4. CASE d # c
    <3>1. Heard(d)' = Heard(d)
      BY <1>5, <2>2, <2>4 DEF IInv, Shape, Heard
    <3> QED BY <1>4, <3>1 DEF IInv, InOrder, Hears
  <2>5. CASE d = c /\ received' # received
    <3>1. response'[d] = <<>> /\ received'[d] = received[d] \o Numbers(response[d])
      BY <1>5, <2>5 DEF IInv, Shape
    <3>2. Heard(d)' = Heard(d)
      BY <2>1, <2>2, <2>3, <3>1
    <3> QED BY <1>4, <3>2 DEF IInv, InOrder, Hears
  <2>6. CASE d = c /\ received' = received
    <3>1. Heard(d)' = received[d]
      BY <1>5, <2>1, <2>2, <2>3, <2>6 DEF IInv, Shape
    <3>2. /\ DOMAIN received[d] \subseteq DOMAIN Heard(d)
          /\ \A i \in DOMAIN received[d] : received[d][i] = Heard(d)[i]
      <4>1. PICK S, a, b : a = received[d] /\ b = Numbers(response[d]) /\ a \in Seq(S) /\ b \in Seq(S)
        BY <2>1
      <4>2. DOMAIN a \subseteq DOMAIN (a \o b) /\ \A i \in DOMAIN a : a[i] = (a \o b)[i]
        BY <4>1, ConcatPrefix
      <4> QED BY <4>1, <4>2 DEF Heard
    <3>3. Ascending(Heard(d))
      BY DEF IInv, InOrder
    <3>4. Ascending(received[d])
      BY <3>2, <3>3 DEF Ascending
    <3>5. Hears(d, ids)' => Hears(d, ids)
      BY <1>4, <3>1, <3>2 DEF Hears
    <3> QED BY <3>1, <3>4, <3>5
  <2> QED BY <2>4, <2>5, <2>6
<1> HIDE DEF c
<1> QED BY <1>1, <1>2, <1>3, <1>4, <1>6, QuietStep

-----------------------------------------------------------------------------
(* BroadcastToClients. *)

LEMMA ConsHeadTail ==
  ASSUME NEW task, NEW s, Plain(s)
  PROVE  /\ Head(<<task>> \o s) = task /\ Tail(<<task>> \o s) = s /\ <<task>> \o s # <<>>
         /\ \E S : <<task>> \o s \in Seq(S)
<1>1. PICK S : s \in Seq(S)
  BY DEF Plain
<1> DEFINE T == S \cup {task}
<1>2. s \in Seq(T) /\ <<task>> \in Seq(T)
  BY <1>1, SeqMonotonic
<1> HIDE DEF T
<1>3. <<task>> \o s \in Seq(T)
  BY <1>2
<1>4. Head(<<task>> \o s) = task /\ Tail(<<task>> \o s) = s /\ <<task>> \o s # <<>>
  BY <1>2
<1> QED BY <1>3, <1>4

(* A step of the broadcasting thread that goes on with its broadcast. *)
LEMMA LoopStep ==
  ASSUME IInv, NEW t \in Threads, t = listMutex, NEW new, (Looping(new) \/ Appending(new))',
         todo' = [todo EXCEPT ![t] = new], UNCHANGED <<listMutex, ids>>,
         \A c \in Clients : Ascending(Heard(c)')
  PROVE  InOrder'
<1>1. ASSUME NEW u \in Threads
      PROVE  (IF u = listMutex THEN Looping(todo[u]) \/ Appending(todo[u]) ELSE Plain(todo[u]))'
  <2>1. CASE u = t
    <3>1. todo'[u] = new
      BY <2>1 DEF IInv, Shape
    <3> QED BY <3>1, <2>1
  <2>2. CASE u # t
    <3>1. todo'[u] = todo[u]
      BY <2>2 DEF IInv, Shape
    <3> QED BY <3>1, <2>2 DEF IInv, InOrder
  <2> QED BY <2>1, <2>2
<1> QED BY <1>1 DEF IInv, InOrder

(* The next number is given, and nobody has heard it. *)
LEMMA LockStep ==
  ASSUME IInv, NEW t \in Threads, Lock(t)
  PROVE  InOrder'
<1>1. listMutex = Nobody /\ t # Nobody
  BY NobodyIsNoThread DEF Lock
<1>2. \A u \in Threads : Plain(todo[u])
  BY <1>1, NobodyIsNoThread DEF IInv, InOrder
<1>3. Plain(Tail(todo[t]))
  BY <1>2, PlainHeadTail DEF Lock, At
<1>4. PICK task : /\ task.do = "deliver" /\ task.id = ids + 1 /\ task.list = connected
                  /\ todo' = [todo EXCEPT ![t] = <<task>> \o Tail(todo[t])]
  <2> DEFINE x == [Next1(t) EXCEPT !.do = "deliver", !.id = ids + 1, !.msgs = buffer[Next1(t).buf],
                                   !.list = connected]
  <2>1. todo' = [todo EXCEPT ![t] = <<x>> \o Tail(todo[t])]
    BY DEF Lock, Follow
  <2>2. x.do = "deliver" /\ x.id = ids + 1 /\ x.list = connected
    OBVIOUS
  <2> HIDE DEF x
  <2> QED BY <2>1, <2>2
<1>5. PICK new : /\ new = <<task>> \o Tail(todo[t]) /\ \E S : new \in Seq(S)
                 /\ Head(new) = task /\ Tail(new) = Tail(todo[t]) /\ new # <<>>
  BY <1>3, ConsHeadTail
<1>6. listMutex' = t /\ ids' = ids + 1 /\ UNCHANGED <<received, response, connected>>
  BY DEF Lock, statusUnchanged
<1>7. ids \in Nat /\ \A c \in Clients : Heard(c) \in Seq(0 .. ids)
  BY ConcatProperties DEF IInv, Shape, Heard
<1>8. \A c : Heard(c)' = Heard(c)
  BY <1>6 DEF Heard, Numbers
<1>9. \A c \in Clients : ~Hears(c, ids)'
  BY <1>6, <1>7, <1>8 DEF Hears
<1>10. Looping(new)'
  <2>1. connected \in Seq(Clients) /\ IsInjective(connected) /\ \A i \in DOMAIN connected : connected[i] \in Clients
    BY DEF IInv, Shape
  <2>2. Head(new).do = "deliver" /\ Head(new).id = ids' /\ Head(new).list = connected /\ Plain(Tail(new))
    BY <1>3, <1>4, <1>5, <1>6
  <2>3. PICK l : l = connected
    OBVIOUS
  <2>4. \A i \in DOMAIN l : ~Hears(l[i], ids)'
    BY <1>9, <2>1, <2>3
  <2> QED BY <1>5, <2>1, <2>2, <2>3, <2>4 DEF Looping
<1>11. todo' = [todo EXCEPT ![t] = new]
  BY <1>4, <1>5
<1>12. ASSUME NEW u \in Threads
       PROVE  (IF u = listMutex THEN Looping(todo[u]) \/ Appending(todo[u]) ELSE Plain(todo[u]))'
  <2>1. CASE u = t
    <3>1. todo'[u] = new
      BY <1>11, <2>1 DEF IInv, Shape
    <3> QED BY <1>6, <1>10, <3>1, <2>1
  <2>2. CASE u # t
    <3>1. todo'[u] = todo[u]
      BY <1>11, <2>2 DEF IInv, Shape
    <3> QED BY <1>2, <1>6, <3>1, <2>2
  <2> QED BY <2>1, <2>2
<1>13. \A c \in Clients : Ascending(Heard(c)')
  BY <1>8 DEF IInv, InOrder
<1> QED BY <1>6, <1>7, <1>12, <1>13 DEF InOrder

LEMMA TailInjective ==
  ASSUME NEW S, NEW s \in Seq(S), s # <<>>, IsInjective(s)
  PROVE  /\ Head(s) \in S
         /\ Tail(s) \in Seq(S)
         /\ IsInjective(Tail(s))
         /\ \A i \in DOMAIN Tail(s) : Tail(s)[i] # Head(s) /\ \E j \in DOMAIN s : Tail(s)[i] = s[j]
<1>1. Len(s) \in Nat \ {0} /\ DOMAIN s = 1 .. Len(s) /\ Head(s) = s[1] /\ Head(s) \in S /\ Tail(s) \in Seq(S)
  BY EmptySeq, HeadTailProperties, LenProperties
<1>2. DOMAIN Tail(s) = 1 .. Len(s) - 1 /\ \A i \in 1 .. Len(s) - 1 : Tail(s)[i] = s[i + 1]
  BY <1>1, HeadTailProperties, LenProperties
<1>3. \A i \in 1 .. Len(s) - 1 : i + 1 \in 1 .. Len(s) /\ i + 1 # 1
  BY <1>1
<1> QED BY <1>1, <1>2, <1>3 DEF IsInjective

(* One client is passed over, or is about to be put to. *)
LEMMA DeliverStep ==
  ASSUME IInv, NEW t \in Threads, Deliver(t)
  PROVE  InOrder'
<1>1. t = listMutex /\ Looping(todo[t])
  <2>1. todo[t] # <<>> /\ Head(todo[t]).do = "deliver"
    BY DEF Deliver, At, Next1
  <2> QED BY <2>1, PlainHeadTail DEF IInv, InOrder, Appending
<1>2. PICK list, tail : list = Head(todo[t]).list /\ tail = Tail(todo[t])
  OBVIOUS
<1>3. /\ list \in Seq(Clients) /\ list # <<>> /\ IsInjective(list)
      /\ Plain(tail) /\ \A i \in DOMAIN list : ~Hears(list[i], ids)
  BY <1>1, <1>2 DEF Looping, Deliver, Next1
<1>4. UNCHANGED <<listMutex, ids, received, response>>
  BY DEF Deliver
<1>5. \A c : Heard(c)' = Heard(c)
  BY <1>4 DEF Heard, Numbers
<1>6. \A c : (Hears(c, ids)' <=> Hears(c, ids)) /\ (c \in Clients => Ascending(Heard(c)'))
  BY <1>4, <1>5 DEF Hears, IInv, InOrder
<1>7. ASSUME NEW rest, rest.do = "deliver", rest.id = ids, rest.list = Tail(list)
      PROVE  Looping(<<rest>> \o tail)'
  <2>1. /\ Tail(list) \in Seq(Clients) /\ IsInjective(Tail(list))
        /\ \A i \in DOMAIN Tail(list) : ~Hears(Tail(list)[i], ids)
    BY <1>3, TailInjective
  <2>2. PICK new : new = <<rest>> \o tail /\ (\E S : new \in Seq(S)) /\ Head(new) = rest /\ Tail(new) = tail /\ new # <<>>
    BY <1>3, ConsHeadTail
  <2>3. PICK l : l = Tail(list)
    OBVIOUS
  <2>4. \A i \in DOMAIN l : ~Hears(l[i], ids)'
    BY <1>6, <2>1, <2>3
  <2>5. Looping(new)'
    BY <1>3, <1>4, <1>7, <2>1, <2>2, <2>3, <2>4 DEF Looping
  <2> QED BY <2>2, <2>5
<1>8. PICK rest : /\ rest.do = "deliver" /\ rest.id = ids /\ rest.list = Tail(list)
                  /\ rest = [Next1(t) EXCEPT !.list = Tail(@)]
  <2> DEFINE x == [Next1(t) EXCEPT !.list = Tail(@)]
  <2>1. Next1(t).do = "deliver" /\ Next1(t).id = ids /\ Next1(t).list = list
    BY <1>1, <1>2 DEF Looping, Next1
  <2>2. x.do = Next1(t).do /\ x.id = Next1(t).id /\ x.list = Tail(Next1(t).list)
    OBVIOUS
  <2> HIDE DEF x
  <2> QED BY <2>1, <2>2 DEF x
<1>9. CASE todo' = [todo EXCEPT ![t] = <<rest>> \o Tail(@)]
  BY <1>1, <1>2, <1>4, <1>6, <1>7, <1>8, <1>9, LoopStep
<1>10. CASE todo' = [todo EXCEPT ![t] = <<[rest EXCEPT !.do = "append", !.who = Head(list)], rest>> \o Tail(@)]
  <2>1. PICK a : /\ a.do = "append" /\ a.who = Head(list) /\ a.id = ids
                 /\ a = [rest EXCEPT !.do = "append", !.who = Head(list)]
    <3> DEFINE x == [rest EXCEPT !.do = "append", !.who = Head(list)]
    <3>1. x.do = "append" /\ x.who = Head(list) /\ x.id = rest.id
      OBVIOUS
    <3> HIDE DEF x
    <3> QED BY <1>8, <3>1 DEF x
  <2>2. PICK new : new = <<a, rest>> \o tail
    OBVIOUS
  <2>3. Head(new) = a /\ Tail(new) = <<rest>> \o tail /\ new # <<>>
    <3>1. PICK S : tail \in Seq(S)
      BY <1>3 DEF Plain
    <3> DEFINE T == S \cup {a, rest}
    <3>2. tail \in Seq(T) /\ <<rest>> \in Seq(T) /\ <<a, rest>> \in Seq(T)
      BY <3>1, SeqMonotonic
    <3> HIDE DEF T
    <3> QED BY <2>2, <3>2
  <2>4. PICK next : next = <<rest>> \o tail /\ Looping(next)'
    BY <1>7, <1>8
  <2>5. Head(next) = rest
    BY <1>3, <2>4, ConsHeadTail
  <2>6. /\ Head(list) \in Clients /\ ~Hears(Head(list), ids)
        /\ \A i \in DOMAIN Tail(list) : Tail(list)[i] # Head(list)
    <3>1. 1 \in DOMAIN list /\ list[1] = Head(list)
      BY <1>3
    <3> QED BY <1>3, <3>1, TailInjective
  <2>7. PICK c : c = Head(list) /\ ~Hears(c, ids)' /\ c \in Clients
    BY <1>6, <2>6
  <2>8. Appending(new)'
    <3>1. Looping(Tail(new))'
      BY <2>3, <2>4
    <3>2. \A i \in DOMAIN Head(Tail(new)).list : Head(Tail(new)).list[i] # Head(new).who
      <4>1. PICK l, h : l = Tail(list) /\ h = Head(list) /\ \A i \in DOMAIN l : l[i] # h
        BY <2>6
      <4>2. Head(Tail(new)).list = l /\ Head(new).who = h
        <5>1. Head(Tail(new)) = rest /\ Head(new) = a
          BY <2>3, <2>4, <2>5
        <5> QED BY <1>8, <2>1, <4>1, <5>1
      <4> QED BY <4>1, <4>2
    <3>3. new # <<>> /\ Head(new).do = "append" /\ Head(new).id = ids' /\ Head(new).who = c
      BY <1>4, <2>1, <2>3, <2>7
    <3> QED BY <2>7, <3>1, <3>2, <3>3 DEF Appending
  <2>9. todo' = [todo EXCEPT ![t] = new]
    BY <1>2, <1>10, <2>1, <2>2
  <2> QED BY <1>1, <1>4, <1>6, <2>8, <2>9, LoopStep
<1> QED
  <2>1. Next1(t).list = list
    BY <1>2 DEF Next1
  <2> QED BY <1>8, <1>9, <1>10, <2>1 DEF Deliver

(* The broadcast is put into one response, and heard there last; or it is   *)
(* the answer to a command. *)
LEMMA AppendStep ==
  ASSUME IInv, NEW t \in Threads, AppendTo(t)
  PROVE  InOrder'
<1>1. PICK c, tail, b :
        /\ c = Head(todo[t]).who /\ tail = Tail(todo[t]) /\ b.id = Head(todo[t]).id
        /\ response' \in {response, [response EXCEPT ![c] = Append(@, b)]}
  <2> DEFINE msgs == IF Next1(t).id = 0 THEN Next1(t).msgs ELSE buffer[Next1(t).buf]
             x == [id |-> Next1(t).id, msgs |-> msgs]
  <2>1. x.id = Next1(t).id
    OBVIOUS
  <2>2. response' \in {response, [response EXCEPT ![Next1(t).who] = Append(@, x)]}
    BY DEF AppendTo
  <2> HIDE DEF x
  <2> QED BY <2>1, <2>2 DEF Next1
<1>2. UNCHANGED <<listMutex, ids, received>> /\ todo[t] # <<>> /\ Head(todo[t]).do = "append"
  BY DEF AppendTo, At, Next1
<1>3. todo' = [todo EXCEPT ![t] = tail]
  <2>1. \E S : tail \in Seq(S)
    <3>1. CASE Plain(todo[t])
      BY <1>1, <1>2, <3>1, PlainHeadTail DEF Plain
    <3>2. CASE Looping(todo[t]) \/ Appending(todo[t])
      BY <1>1, <1>2, <3>2 DEF Looping, Appending
    <3> QED BY <3>1, <3>2 DEF IInv, InOrder
  <2>2. <<>> \o tail = tail
    BY <2>1, ConcatEmptySeq
  <2> QED BY <1>1, <2>2 DEF AppendTo, Follow
<1>4. ids \in Nat /\ \A d \in Clients : Heard(d) \in Seq(0 .. ids) /\ Ascending(Heard(d))
  BY ConcatProperties DEF IInv, Shape, Heard, InOrder
<1>5. CASE t # listMutex
  <2>1. Plain(todo[t])
    BY <1>5 DEF IInv, InOrder
  <2>2. Plain(tail) /\ b.id = 0
    BY <1>1, <1>2, <2>1, PlainHeadTail
  <2>3. CASE response' = response
    BY <1>2, <1>3, <1>5, <2>2, <2>3, SilentStep
  <2>4. CASE c \in Clients /\ response' = [response EXCEPT ![c] = Append(@, b)]
    BY <1>2, <1>3, <1>5, <2>2, <2>4, OtherBatch
  <2>5. CASE c \notin Clients /\ response' = [response EXCEPT ![c] = Append(@, b)]
    <3>1. response' = response
      BY <2>5 DEF IInv, Shape
    <3> QED BY <2>3, <3>1
  <2> QED BY <1>1, <2>3, <2>4, <2>5
<1>6. CASE t = listMutex
  <2>1. Appending(todo[t])
    BY <1>2, <1>6 DEF IInv, InOrder, Looping
  <2>2. /\ Looping(tail) /\ b.id = ids /\ c \in Clients /\ ~Hears(c, ids)
        /\ \A i \in DOMAIN Head(tail).list : Head(tail).list[i] # c
    BY <1>1, <2>1 DEF Appending
  <2>3. CASE response' = response
    <3>1. \A d : Heard(d)' = Heard(d)
      BY <1>2, <2>3 DEF Heard, Numbers
    <3>2. \A d : Hears(d, ids)' <=> Hears(d, ids)
      BY <1>2, <3>1 DEF Hears
    <3>3. Looping(tail)'
      BY <1>2, <2>2, <3>2 DEF Looping
    <3> QED BY <1>2, <1>3, <1>4, <1>6, <3>1, <3>3, LoopStep
  <2>4. CASE response' = [response EXCEPT ![c] = Append(@, b)]
    <3>1. /\ Heard(c)' = Append(Heard(c), b.id)
          /\ \A d \in Clients \ {c} : Heard(d)' = Heard(d)
      <4>1. b.id \in 0 .. ids /\ UNCHANGED received
        BY <1>2, <1>4, <2>2
      <4> QED BY <2>2, <2>4, <4>1, HeardAppend
    <3>2. \A d \in Clients \ {c} : Hears(d, ids)' <=> Hears(d, ids)
      BY <1>2, <3>1 DEF Hears
    <3>3. \A i \in DOMAIN Heard(c) : Heard(c)[i] < ids
      <4>1. \A i \in DOMAIN Heard(c) : Heard(c)[i] \in 0 .. ids /\ Heard(c)[i] # ids
        BY <1>4, <2>2 DEF Hears
      <4> QED BY <1>4, <4>1
    <3>4. Ascending(Heard(c)')
      BY <1>4, <2>2, <3>1, <3>3, AscendingAppend
    <3>5. \A d \in Clients : Ascending(Heard(d)')
      BY <1>4, <3>1, <3>4
    <3>6. Looping(tail)'
      <4>1. \A i \in DOMAIN Head(tail).list : Head(tail).list[i] \in Clients \ {c}
        BY <2>2 DEF Looping
      <4> QED BY <1>2, <2>2, <3>2, <4>1 DEF Looping
    <3> QED BY <1>2, <1>3, <1>6, <3>5, <3>6, LoopStep
  <2> QED BY <1>1, <2>3, <2>4
<1> QED BY <1>5, <1>6

(* At the end of the loop no broadcast is under way. *)
LEMMA UnlockStep ==
  ASSUME IInv, NEW t \in Threads, Unlock(t)
  PROVE  InOrder'
<1>1. t = listMutex /\ Looping(todo[t])
  <2>1. todo[t] # <<>> /\ Head(todo[t]).do = "deliver"
    BY DEF Unlock, At, Next1
  <2> QED BY <2>1, PlainHeadTail DEF IInv, InOrder, Appending
<1>2. Plain(<<>> \o Tail(todo[t]))
  BY <1>1, PlainEmpty, PlainConcat DEF Looping
<1>3. PICK new : Plain(new) /\ todo' = [todo EXCEPT ![t] = new]
  BY <1>2 DEF Unlock, Follow
<1>4. listMutex' = Nobody /\ UNCHANGED <<ids, received, response>>
  BY DEF Unlock
<1>5. \A c : Heard(c)' = Heard(c)
  BY <1>4 DEF Heard, Numbers
<1>6. \A u \in Threads : u # listMutex' /\ Plain(todo'[u])
  BY <1>1, <1>3, <1>4, NobodyIsNoThread DEF IInv, InOrder, Shape
<1> QED BY <1>4, <1>5, <1>6 DEF IInv, InOrder

-----------------------------------------------------------------------------
(* The other steps. *)

LEMMA FollowStep ==
  ASSUME IInv, NEW t \in Threads, NEW do, At(t, do), do \notin {"deliver", "append"},
         NEW more, Plain(more), Follow(t, more), UNCHANGED <<listMutex, ids, received, response>>
  PROVE  InOrder'
<1>1. t # listMutex /\ Plain(Tail(todo[t]))
  BY NotBroadcasting
<1>2. PICK new : new = more \o Tail(todo[t]) /\ Plain(new)
  BY <1>1, PlainConcat
<1>3. todo' = [todo EXCEPT ![t] = new]
  BY <1>2 DEF Follow
<1> QED BY <1>1, <1>2, <1>3, SilentStep

LEMMA DecideStep ==
  ASSUME IInv, NEW t \in Threads, Decide(t)
  PROVE  InOrder'
<1>1. UNCHANGED <<listMutex, ids, received, response>>
  BY DEF Decide
<1>2. CASE ChangeStatus(t)
  BY <1>1, <1>2, FollowStep, PlainEmpty DEF ChangeStatus
<1>3. CASE Skip(t)
  BY <1>1, <1>3, FollowStep, PlainEmpty DEF Skip
<1>4. CASE HandleHandshake(t)
  <2>1. At(t, "packet")
    BY <1>4 DEF HandleHandshake, Handling
  <2>2. Plain(Write(<<Message("Handshake", t)>>) \o SetStatus(t, LoggingIn))
    BY PlainTasks, PlainConcat
  <2>3. Plain(DisconnectClient(t, TRUE, FALSE))
    BY PlainHandlers
  <2> QED BY <1>1, <1>4, <2>1, <2>2, <2>3, FollowStep DEF HandleHandshake
<1>5. CASE HandleLoginRequest(t)
  <2>1. At(t, "packet")
    BY <1>5 DEF HandleLoginRequest, Handling
  <2>2. Plain(DisconnectClient(t, TRUE, FALSE)) /\ Plain(DisconnectClient(t, TRUE, TRUE)) /\ Plain(LogIn(t))
    BY PlainHandlers
  <2> QED BY <1>1, <1>5, <2>1, <2>2, FollowStep DEF HandleLoginRequest
<1>6. CASE HandleLegacyPing(t)
  <2>1. At(t, "packet")
    BY <1>6 DEF HandleLegacyPing, Handling
  <2>2. Plain(Write(<<Message("Disconnect", t)>>) \o SendResponse(t) \o SetStatus(t, Disconnected))
    BY PlainTasks, PlainConcat
  <2> QED BY <1>1, <1>6, <2>1, <2>2, FollowStep DEF HandleLegacyPing
<1>7. CASE OutOfOrder(t)
  <2>1. At(t, "packet") /\ Plain(SetStatus(t, Disconnected))
    BY <1>7, PlainTasks DEF OutOfOrder, Handling
  <2> QED BY <1>1, <1>7, <2>1, FollowStep DEF OutOfOrder
<1>8. CASE HandleDisconnect(t)
  <2>1. At(t, "packet") /\ Plain(DisconnectClient(t, TRUE, TRUE))
    BY <1>8, PlainHandlers DEF HandleDisconnect, Handling
  <2> QED BY <1>1, <1>8, <2>1, FollowStep DEF HandleDisconnect
<1>9. CASE CommandKick(t)
  <2>1. At(t, "packet") /\ \A d : Plain(DisconnectClient(d, TRUE, TRUE))
    BY <1>9, PlainHandlers DEF CommandKick, Handling
  <2>2. PICK d : Follow(t, DisconnectClient(d, TRUE, TRUE))
    BY <1>9 DEF CommandKick
  <2> QED BY <1>1, <2>1, <2>2, FollowStep
<1>10. CASE Unhandled(t)
  <2>1. At(t, "packet")
    BY <1>10 DEF Unhandled, Handling
  <2>2. t # listMutex /\ Plain(todo[t])
    BY <2>1, NotBroadcasting
  <2>3. PICK n \in DOMAIN todo[t] : todo' = [todo EXCEPT ![t] = SubSeq(todo[t], n, Len(todo[t]))]
    BY <1>10 DEF Unhandled
  <2>4. PICK new : new = SubSeq(todo[t], n, Len(todo[t])) /\ Plain(new)
    BY <2>2, PlainSubSeq
  <2> QED BY <1>1, <2>2, <2>3, <2>4, SilentStep
<1>11. CASE HandlePacket(t)
  <2>1. At(t, "packet")
    BY <1>11 DEF HandlePacket
  <2>2. PICK e : Follow(t, Handle(t, e))
    BY <1>11 DEF HandlePacket
  <2>3. Plain(Handle(t, e))
    BY PlainHandlers
  <2> QED BY <1>1, <2>1, <2>2, <2>3, FollowStep
<1>12. CASE SendNewChunks(t)
  <2>1. Plain(<<>>) /\ Plain(Write(<<Message("Chunk", t)>>))
    BY PlainTasks, PlainEmpty
  <2> QED BY <1>1, <1>12, <2>1, FollowStep DEF SendNewChunks
<1> QED
  BY <1>2, <1>3, <1>4, <1>5, <1>6, <1>7, <1>8, <1>9, <1>10, <1>11, <1>12 DEF Decide

LEMMA StepInOrder ==
  ASSUME IInv, NEW t \in Threads, Step(t)
  PROVE  InOrder'
<1>1. CASE Decide(t)
  BY <1>1, DecideStep
<1>2. CASE Push(t)
  BY <1>2, FollowStep, PlainEmpty DEF Push
<1>3. CASE NothingToBroadcast(t)
  BY <1>3, FollowStep, PlainEmpty DEF NothingToBroadcast
<1>4. CASE Deliver(t)
  BY <1>4, DeliverStep
<1>5. CASE Unlock(t)
  BY <1>5, UnlockStep
<1>6. CASE Loop(t)
  <2>1. Plain(<<Task(IF status[t] > Disconnected THEN "read" ELSE "close")>>)
    BY PlainTasks
  <2> QED BY <1>6, <2>1, FollowStep DEF Loop
<1>7. CASE t \in Clients /\ Read(t)
  <2>1. inbox[t] \in Seq(Words)
    BY <1>7 DEF IInv, Shape
  <2>2. Plain(Packets(t))
    BY <2>1, PlainPackets
  <2>3. Plain(<<Task("chunks")>>) /\ Plain(<<Task("loop")>>)
    BY PlainTasks
  <2>4. /\ Plain(Packets(t) \o <<Task("chunks")>> \o EndOfBundle(t) \o <<Task("loop")>>)
        /\ Plain(DisconnectClient(t, FALSE, person[t] = "player") \o <<Task("loop")>>)
    BY <2>2, <2>3, PlainConcat, PlainHandlers
  <2> QED BY <1>7, <2>4, FollowStep DEF Read
<1>8. CASE BeginWrite(t)
  <2>1. PICK x : x = [Next1(t) EXCEPT !.do = "wrote"]
    OBVIOUS
  <2>2. At(t, "write") /\ Plain(todo[t])
    BY <1>8, NotBroadcasting DEF BeginWrite
  <2>3. Next1(t).id = 0
    BY <2>2, PlainHeadTail DEF At, Next1
  <2>4. x.do = "wrote" /\ x.id = 0
    BY <2>1, <2>3
  <2>5. Plain(<<x>>)
    BY <2>4, PlainOne
  <2>6. Follow(t, <<x>>) /\ UNCHANGED <<listMutex, ids, received, response>>
    BY <1>8, <2>1 DEF BeginWrite
  <2> QED BY <2>2, <2>5, <2>6, FollowStep
<1>9. CASE t \in Clients /\ EndWrite(t)
  <2>1. At(t, "wrote") /\ Follow(t, <<>>) /\ UNCHANGED <<listMutex, ids, received>>
    BY <1>9 DEF EndWrite
  <2>2. CASE response' = response
    BY <2>1, <2>2, FollowStep, PlainEmpty
  <2>3. CASE response' # response
    <3>1. PICK b : b.id = 0 /\ response' = [response EXCEPT ![t] = Append(@, b)]
      BY <1>9, <2>3 DEF EndWrite
    <3>2. t # listMutex /\ Plain(Tail(todo[t]))
      BY <2>1, NotBroadcasting
    <3>3. PICK new : new = <<>> \o Tail(todo[t]) /\ Plain(new)
      BY <3>2, PlainEmpty, PlainConcat
    <3>4. todo' = [todo EXCEPT ![t] = new]
      BY <2>1, <3>3 DEF Follow
    <3> QED BY <1>9, <2>1, <3>1, <3>2, <3>3, <3>4, OtherBatch
  <2> QED BY <2>2, <2>3
<1>10. CASE ListOthers(t)
  <2>1. PICK others : Follow(t, Write(others))
    BY <1>10 DEF ListOthers
  <2>2. Plain(Write(others)) /\ At(t, "list") /\ UNCHANGED <<listMutex, ids, received, response>>
    BY <1>10, PlainTasks DEF ListOthers
  <2> QED BY <2>1, <2>2, FollowStep
<1> QED BY <1>1, <1>2, <1>3, <1>4, <1>5, <1>6, <1>7, <1>8, <1>9, <1>10 DEF Step

LEMMA InOrderStep ==
  ASSUME IInv, Next
  PROVE  InOrder'
<1>1. ASSUME NEW t \in Threads, Wait(t)
      PROVE  InOrder'
  <2>1. CASE Lock(t)
    BY <2>1, LockStep
  <2>2. CASE AppendTo(t)
    BY <2>2, AppendStep
  <2>3. CASE BeginSend(t)
    <3>1. At(t, "send") /\ UNCHANGED <<listMutex, ids, received, response>>
      BY <2>3 DEF BeginSend
    <3>2. CASE Follow(t, <<>>)
      BY <3>1, <3>2, FollowStep, PlainEmpty
    <3>3. CASE Follow(t, <<[Next1(t) EXCEPT !.do = "sending"]>>)
      <4>1. PICK x : x = [Next1(t) EXCEPT !.do = "sending"]
        OBVIOUS
      <4>2. Next1(t).id = 0
        BY <3>1, NotBroadcasting, PlainHeadTail DEF At, Next1
      <4>3. x.do = "sending" /\ x.id = 0
        BY <4>1, <4>2
      <4>4. Plain(<<x>>)
        BY <4>3, PlainOne
      <4>5. Follow(t, <<x>>)
        BY <3>3, <4>1
      <4> QED BY <3>1, <4>4, <4>5, FollowStep
    <3> QED BY <2>3, <3>2, <3>3 DEF BeginSend
  <2>4. CASE t \in Clients /\ Close(t)
    BY <2>4, FollowStep, PlainEmpty DEF Close
  <2> QED BY <1>1, <2>1, <2>2, <2>3, <2>4 DEF Wait
<1>2. ASSUME NEW c \in Clients, Join(c)
      PROVE  InOrder'
  <2>1. c \in Threads /\ c # listMutex
    BY <1>2, NobodyIsNoThread DEF Join, Threads
  <2>2. Plain(<<Task("loop")>>)
    BY PlainTasks
  <2> QED BY <1>2, <2>1, <2>2, SilentStep DEF Join
<1>3. CASE BroadcastTime
  <2>1. Main \in Threads /\ Main # listMutex
    BY <1>3 DEF BroadcastTime, Threads, IInv, InOrder, Looping, Appending
  <2>2. PICK new : new = Now(Main, <<Message("TimeUpdate", Main)>>) /\ Plain(new)
    BY PlainHandlers
  <2> QED BY <1>3, <2>1, <2>2, SilentStep DEF BroadcastTime
<1>4. ASSUME NEW c \in Clients, Enter(c) \/ Play(c) \/ Leave(c)
      PROVE  InOrder'
  <2>1. UNCHANGED <<todo, listMutex, ids, received, response>>
    BY <1>4 DEF Enter, Play, Leave, gameUnchanged
  <2>2. \A d : Heard(d)' = Heard(d)
    BY <2>1 DEF Heard, Numbers
  <2>3. \A d : Hears(d, ids)' <=> Hears(d, ids)
    BY <2>1, <2>2 DEF Hears
  <2>4. ASSUME NEW s PROVE (Looping(s)' <=> Looping(s)) /\ (Appending(s)' <=> Appending(s))
    BY <2>1, <2>3 DEF Looping, Appending
  <2> QED BY <2>1, <2>2, <2>4 DEF IInv, InOrder
<1> QED BY <1>1, <1>2, <1>3, <1>4, SentStep, StepInOrder DEF Next

LEMMA RemoveInjective ==
  ASSUME NEW S, NEW s \in Seq(S), IsInjective(s), NEW i \in DOMAIN s
  PROVE  /\ RemoveAt(s, i) \in Seq(S)
         /\ IsInjective(RemoveAt(s, i))
         /\ \A j \in DOMAIN RemoveAt(s, i) : \E k \in DOMAIN s : RemoveAt(s, i)[j] = s[k]
<1>1. Len(s) \in Nat /\ DOMAIN s = 1 .. Len(s) /\ i \in 1 .. Len(s)
  OBVIOUS
<1> DEFINE skip(j) == IF j < i THEN j ELSE j + 1
<1>2. PICK a, b :
        /\ RemoveAt(s, i) = a \o b
        /\ a \in Seq(S) /\ Len(a) = i - 1 /\ \A j \in 1 .. i - 1 : a[j] = s[j]
        /\ b \in Seq(S) /\ Len(b) = Len(s) - i /\ \A j \in 1 .. Len(s) - i : b[j] = s[i + j]
  <2> DEFINE x == SubSeq(s, 1, i - 1)
             y == SubSeq(s, i + 1, Len(s))
  <2>1. /\ x \in Seq(S) /\ Len(x) = i - 1 /\ \A j \in 1 .. i - 1 : x[j] = s[j]
        /\ y \in Seq(S) /\ Len(y) = Len(s) - i /\ \A j \in 1 .. Len(s) - i : y[j] = s[i + j]
    BY <1>1
  <2>2. RemoveAt(s, i) = x \o y
    BY DEF RemoveAt
  <2> HIDE DEF x, y
  <2> QED BY <2>1, <2>2
<1>3. PICK r : /\ r = RemoveAt(s, i) /\ r \in Seq(S) /\ Len(r) = Len(s) - 1
               /\ \A j \in 1 .. Len(s) - 1 : r[j] = s[skip(j)]
  <2>1. PICK r : r = a \o b
    OBVIOUS
  <2>2. r \in Seq(S) /\ Len(r) = Len(a) + Len(b)
    BY <1>2, <2>1, ConcatProperties
  <2>3. Len(r) = Len(s) - 1
    BY <1>1, <1>2, <2>2
  <2>4. ASSUME NEW j \in 1 .. Len(s) - 1
        PROVE  r[j] = s[skip(j)]
    <3>1. CASE j < i
      BY <1>1, <1>2, <2>1, <3>1, ConcatProperties
    <3>2. CASE j >= i
      <4>1. j - Len(a) \in 1 .. Len(s) - i /\ i + (j - Len(a)) = j + 1
        <5>1. Len(a) = i - 1
          BY <1>2
        <5>2. PICK k, l : k = Len(a) /\ l = Len(s) /\ l \in Nat /\ k = i - 1 /\ i \in 1 .. l /\ j \in 1 .. l - 1
          BY <1>1, <5>1
        <5>3. j - k \in 1 .. l - i /\ i + (j - k) = j + 1
          BY <3>2, <5>2
        <5> QED BY <5>2, <5>3
      <4>2. r[j] = b[j - Len(a)]
        <5>1. j \in 1 .. Len(a) + Len(b) /\ ~(j <= Len(a))
          BY <1>1, <1>2, <3>2
        <5> QED BY <1>2, <2>1, <5>1, ConcatProperties
      <4>3. skip(j) = j + 1
        BY <1>1, <3>2
      <4>4. b[j - Len(a)] = s[j + 1]
        BY <1>2, <4>1
      <4> HIDE DEF skip
      <4> QED BY <4>2, <4>3, <4>4
    <3> QED BY <1>1, <3>1, <3>2
  <2> QED BY <1>2, <2>1, <2>2, <2>3, <2>4
<1>5. \A j \in 1 .. Len(s) - 1 : skip(j) \in 1 .. Len(s)
  BY <1>1
<1>6. \A j, k \in 1 .. Len(s) - 1 : skip(j) = skip(k) => j = k
  BY <1>1
<1>7. DOMAIN r = 1 .. Len(s) - 1
  BY <1>1, <1>3
<1> HIDE DEF skip
<1>8. IsInjective(r)
  BY <1>1, <1>3, <1>5, <1>6, <1>7 DEF IsInjective
<1>9. \A j \in DOMAIN r : \E k \in DOMAIN s : r[j] = s[k]
  BY <1>1, <1>3, <1>5, <1>7
<1> QED BY <1>3, <1>8, <1>9

-----------------------------------------------------------------------------
(* The shape of the state. *)

LEMMA ConnectedStep ==
  ASSUME IInv, Next
  PROVE  (/\ stage \in [Clients -> {"away", "handshake", "login", "play", "left"}]
          /\ inbox \in [Clients -> Seq(Words)]
          /\ connected \in Seq(Clients) /\ IsInjective(connected)
          /\ \A i \in DOMAIN connected : stage[connected[i]] # "away")'
<1> DEFINE Places == {"away", "handshake", "login", "play", "left"}
           OutThere == \A i \in DOMAIN connected : stage[connected[i]] # "away"
<1>0. /\ stage \in [Clients -> Places] /\ inbox \in [Clients -> Seq(Words)]
      /\ connected \in Seq(Clients) /\ IsInjective(connected) /\ OutThere
      /\ Len(connected) \in Nat /\ DOMAIN connected = 1 .. Len(connected)
      /\ \A i \in DOMAIN connected : connected[i] \in Clients
  BY LenProperties DEF IInv, Shape
<1>1. ASSUME UNCHANGED <<stage, inbox, connected>>
      PROVE  (/\ stage \in [Clients -> Places] /\ inbox \in [Clients -> Seq(Words)]
              /\ connected \in Seq(Clients) /\ IsInjective(connected) /\ OutThere)'
  <2>1. IsInjective(connected') /\ OutThere'
    BY <1>0, <1>1 DEF IsInjective
  <2> QED BY <1>0, <1>1, <2>1
<1>2. ASSUME NEW c \in Clients, Join(c)
      PROVE  (/\ stage \in [Clients -> Places] /\ inbox \in [Clients -> Seq(Words)]
              /\ connected \in Seq(Clients) /\ IsInjective(connected) /\ OutThere)'
  <2>1. /\ stage' = [stage EXCEPT ![c] = "handshake"] /\ stage[c] = "away"
        /\ inbox' = inbox /\ connected' = Append(connected, c)
    BY <1>2 DEF Join
  <2>2. stage' \in [Clients -> Places] /\ stage'[c] = "handshake" /\ \A d \in Clients \ {c} : stage'[d] = stage[d]
    BY <1>0, <2>1
  <2>3. /\ connected' \in Seq(Clients) /\ DOMAIN connected' = 1 .. Len(connected) + 1
        /\ \A i \in 1 .. Len(connected) : connected'[i] = connected[i] /\ connected[i] # c
        /\ connected'[Len(connected) + 1] = c
    <3>1. /\ connected' \in Seq(Clients) /\ DOMAIN connected' = 1 .. Len(connected) + 1
          /\ \A i \in 1 .. Len(connected) : connected'[i] = connected[i]
          /\ connected'[Len(connected) + 1] = c
      BY <1>0, <2>1
    <3>2. \A i \in 1 .. Len(connected) : connected[i] # c
      BY <1>0, <2>1
    <3> QED BY <3>1, <3>2
  <2>4. \A i \in 1 .. Len(connected) + 1 : i \in 1 .. Len(connected) \/ i = Len(connected) + 1
    BY <1>0
  <2>5. IsInjective(connected') /\ OutThere'
    BY <1>0, <2>2, <2>3, <2>4 DEF IsInjective
  <2> QED BY <1>0, <2>1, <2>2, <2>3, <2>5
<1>3. ASSUME NEW c \in Clients, Enter(c) \/ Play(c)
      PROVE  (/\ stage \in [Clients -> Places] /\ inbox \in [Clients -> Seq(Words)]
              /\ connected \in Seq(Clients) /\ IsInjective(connected) /\ OutThere)'
  <2>1. /\ stage' \in {stage, [stage EXCEPT ![c] = "login"], [stage EXCEPT ![c] = "play"]}
        /\ \E kind \in Words : inbox' = [inbox EXCEPT ![c] = Append(@, kind)]
        /\ connected' = connected
    BY <1>3 DEF Enter, Play, gameUnchanged, Words
  <2>2. stage' \in [Clients -> Places] /\ \A d \in Clients : stage[d] # "away" => stage'[d] # "away"
    BY <1>0, <2>1
  <2>3. inbox' \in [Clients -> Seq(Words)]
    <3>1. PICK kind \in Words : inbox' = [inbox EXCEPT ![c] = Append(@, kind)]
      BY <2>1
    <3>2. PICK box : box = Append(inbox[c], kind) /\ box \in Seq(Words)
      BY <1>0, AppendProperties
    <3> QED BY <1>0, <3>1, <3>2
  <2>4. IsInjective(connected') /\ OutThere'
    BY <1>0, <2>1, <2>2 DEF IsInjective
  <2> QED BY <1>0, <2>1, <2>2, <2>3, <2>4
<1>4. ASSUME NEW c \in Clients, Leave(c)
      PROVE  (/\ stage \in [Clients -> Places] /\ inbox \in [Clients -> Seq(Words)]
              /\ connected \in Seq(Clients) /\ IsInjective(connected) /\ OutThere)'
  <2>1. stage' = [stage EXCEPT ![c] = "left"] /\ UNCHANGED <<inbox, connected>>
    BY <1>4 DEF Leave, gameUnchanged
  <2>2. stage' \in [Clients -> Places] /\ \A d \in Clients : stage[d] # "away" => stage'[d] # "away"
    BY <1>0, <2>1
  <2>3. IsInjective(connected') /\ OutThere'
    BY <1>0, <2>1, <2>2 DEF IsInjective
  <2> QED BY <1>0, <2>1, <2>2, <2>3
<1>5. ASSUME NEW c \in Clients, Close(c)
      PROVE  (/\ stage \in [Clients -> Places] /\ inbox \in [Clients -> Seq(Words)]
              /\ connected \in Seq(Clients) /\ IsInjective(connected) /\ OutThere)'
  <2>1. PICK i \in DOMAIN connected : connected' = RemoveAt(connected, i)
    BY <1>5 DEF Close
  <2>2. stage' = [stage EXCEPT ![c] = "left"] /\ inbox' = inbox
    BY <1>5 DEF Close
  <2>3. stage' \in [Clients -> Places] /\ \A d \in Clients : stage[d] # "away" => stage'[d] # "away"
    BY <1>0, <2>2
  <2>4. PICK list : /\ list = connected' /\ list \in Seq(Clients) /\ IsInjective(list)
                    /\ \A j \in DOMAIN list : \E k \in DOMAIN connected : list[j] = connected[k]
    <3>1. PICK list : list = RemoveAt(connected, i)
      OBVIOUS
    <3>2. /\ list \in Seq(Clients) /\ IsInjective(list)
          /\ \A j \in DOMAIN list : \E k \in DOMAIN connected : list[j] = connected[k]
      <4>1. PICK s : s = connected
        OBVIOUS
      <4>2. s \in Seq(Clients) /\ IsInjective(s) /\ i \in DOMAIN s /\ list = RemoveAt(s, i)
        BY <1>0, <3>1, <4>1
      <4>3. /\ list \in Seq(Clients) /\ IsInjective(list)
            /\ \A j \in DOMAIN list : \E k \in DOMAIN s : list[j] = s[k]
        <5>1. RemoveAt(s, i) \in Seq(Clients)
          BY <4>2, RemoveInjective
        <5>2. IsInjective(RemoveAt(s, i))
          BY <4>2, RemoveInjective
        <5>3. \A j \in DOMAIN RemoveAt(s, i) : \E k \in DOMAIN s : RemoveAt(s, i)[j] = s[k]
          BY <4>2, RemoveInjective
        <5> QED BY <4>2, <5>1, <5>2, <5>3
      <4> QED BY <4>1, <4>3
    <3> QED BY <2>1, <3>1, <3>2
  <2>5. IsInjective(connected') /\ OutThere'
    BY <1>0, <2>3, <2>4 DEF IsInjective
  <2> QED BY <1>0, <2>2, <2>3, <2>4, <2>5
<1>6. ASSUME NEW c \in Clients, Read(c)
      PROVE  (/\ stage \in [Clients -> Places] /\ inbox \in [Clients -> Seq(Words)]
              /\ connected \in Seq(Clients) /\ IsInjective(connected) /\ OutThere)'
  <2>1. inbox' = [inbox EXCEPT ![c] = <<>>] /\ UNCHANGED <<stage, connected>>
    BY <1>6 DEF Read
  <2>2. inbox' \in [Clients -> Seq(Words)]
    BY <1>0, <2>1
  <2>3. IsInjective(connected') /\ OutThere'
    BY <1>0, <2>1 DEF IsInjective
  <2> QED BY <1>0, <2>1, <2>2, <2>3
<1>7. ASSUME NEW t \in Threads, Step(t) \/ Wait(t) \/ Sent(t)
      PROVE  UNCHANGED <<stage, inbox, connected>> \/ (t \in Clients /\ (Read(t) \/ Close(t)))
  BY <1>7 DEF Step, Wait, Sent, Decide, Push, NothingToBroadcast, Deliver, Unlock, Loop, BeginWrite,
              EndWrite, ListOthers, Lock, AppendTo, BeginSend, statusUnchanged, Socket
<1>8. BroadcastTime => UNCHANGED <<stage, inbox, connected>>
  BY DEF BroadcastTime, statusUnchanged
<1> HIDE DEF Places, OutThere
<1>9. (/\ stage \in [Clients -> Places] /\ inbox \in [Clients -> Seq(Words)]
       /\ connected \in Seq(Clients) /\ IsInjective(connected) /\ OutThere)'
  BY <1>1, <1>2, <1>3, <1>4, <1>5, <1>6, <1>7, <1>8 DEF Next
<1> QED BY <1>9 DEF Places, OutThere

LEMMA TodoStep ==
  ASSUME IInv, Next
  PROVE  todo' = [t \in Threads |-> todo'[t]] /\ listMutex' \in Threads \cup {Nobody}
<1>1. ASSUME NEW t, NEW x, todo' = [todo EXCEPT ![t] = x]
      PROVE  todo' = [u \in Threads |-> todo'[u]]
  BY <1>1 DEF IInv, Shape
<1>2. ASSUME NEW t, NEW more, Follow(t, more)
      PROVE  todo' = [u \in Threads |-> todo'[u]]
  BY <1>1, <1>2 DEF Follow
<1>3. ASSUME NEW t \in Threads, Decide(t)
      PROVE  todo' = [u \in Threads |-> todo'[u]]
  <2>1. CASE Unhandled(t)
    BY <1>1, <2>1 DEF Unhandled
  <2>2. CASE ~Unhandled(t)
    BY <1>2, <1>3, <2>2 DEF Decide, ChangeStatus, Skip, HandleHandshake, HandleLoginRequest, HandleLegacyPing,
         OutOfOrder, HandleDisconnect, CommandKick, HandlePacket, SendNewChunks
  <2> QED BY <2>1, <2>2
<1>4. ASSUME NEW t \in Threads, Step(t)
      PROVE  todo' = [u \in Threads |-> todo'[u]]
  <2>1. CASE Decide(t)
    BY <1>3, <2>1
  <2>2. CASE Deliver(t)
    BY <1>1, <2>2 DEF Deliver
  <2>3. CASE ~Decide(t) /\ ~Deliver(t)
    BY <1>2, <1>4, <2>3 DEF Step, Push, NothingToBroadcast, Unlock, Loop, Read, BeginWrite, EndWrite, ListOthers
  <2> QED BY <2>1, <2>2, <2>3
<1>5. ASSUME NEW t \in Threads, Wait(t) \/ Sent(t)
      PROVE  todo' = [u \in Threads |-> todo'[u]]
  BY <1>2, <1>5 DEF Wait, Lock, AppendTo, BeginSend, Close, Sent
<1>6. ASSUME NEW c \in Clients, Join(c) \/ Enter(c) \/ Play(c) \/ Leave(c)
      PROVE  todo' = [u \in Threads |-> todo'[u]]
  <2>1. CASE Join(c)
    BY <1>1, <2>1 DEF Join
  <2>2. CASE ~Join(c)
    BY <1>6, <2>2 DEF Enter, Play, Leave, gameUnchanged, IInv, Shape
  <2> QED BY <2>1, <2>2
<1>7. BroadcastTime => todo' = [u \in Threads |-> todo'[u]]
  BY <1>1 DEF BroadcastTime
<1>8. todo' = [u \in Threads |-> todo'[u]]
  BY <1>4, <1>5, <1>6, <1>7 DEF Next
<1>9. listMutex \in Threads \cup {Nobody}
  BY DEF IInv, Shape
<1>10. ASSUME NEW t \in Threads, Step(t) \/ Wait(t) \/ Sent(t)
       PROVE  listMutex' \in {listMutex, t, Nobody}
  BY <1>10 DEF Step, Wait, Sent, Decide, Push, NothingToBroadcast, Deliver, Unlock, Loop, Read, BeginWrite,
               EndWrite, ListOthers, Lock, AppendTo, BeginSend, Close
<1>11. ASSUME NEW c \in Clients, Join(c) \/ Enter(c) \/ Play(c) \/ Leave(c)
       PROVE  listMutex' = listMutex
  BY <1>11 DEF Join, Enter, Play, Leave, gameUnchanged
<1>12. BroadcastTime => listMutex' = listMutex
  BY DEF BroadcastTime
<1> QED BY <1>8, <1>9, <1>10, <1>11, <1>12 DEF Next

(* The number of a batch that is added to a response. *)
LEMMA NumberOfTask ==
  ASSUME IInv, NEW t \in Threads, At(t, "append")
  PROVE  Next1(t).id \in {0, ids}
<1>1. CASE t = listMutex
  BY <1>1 DEF IInv, InOrder, Looping, Appending, At, Next1
<1>2. CASE t # listMutex
  BY <1>2, PlainHeadTail DEF IInv, InOrder, At, Next1
<1> QED BY <1>1, <1>2

LEMMA HeardStep ==
  ASSUME IInv, Next
  PROVE  (/\ response = [c \in Clients |-> response[c]]
          /\ \A c \in Clients : (\E S : response[c] \in Seq(S)) /\ Numbers(response[c]) \in Seq(0 .. ids)
          /\ ids \in Nat
          /\ received \in [Clients -> Seq(0 .. ids)])'
<1> DEFINE Good == /\ response' = [c \in Clients |-> response'[c]]
                   /\ \A c \in Clients : /\ \E S : response'[c] \in Seq(S)
                                         /\ Numbers(response'[c]) \in Seq(0 .. ids')
                   /\ ids' \in Nat
                   /\ received' \in [Clients -> Seq(0 .. ids')]
<1>0. /\ response = [c \in Clients |-> response[c]]
      /\ \A c \in Clients : (\E S : response[c] \in Seq(S)) /\ Numbers(response[c]) \in Seq(0 .. ids)
      /\ ids \in Nat
      /\ received \in [Clients -> Seq(0 .. ids)]
  BY DEF IInv, Shape
<1>1. ASSUME UNCHANGED <<response, received, ids>>
      PROVE  Good
  BY <1>0, <1>1
<1>2. ASSUME NEW c, NEW b, b.id \in 0 .. ids, response' = [response EXCEPT ![c] = Append(@, b)],
             UNCHANGED <<received, ids>>
      PROVE  Good
  <2>1. response' = [d \in Clients |-> response'[d]]
    BY <1>0, <1>2
  <2>2. ASSUME NEW d \in Clients
        PROVE  (\E S : response'[d] \in Seq(S)) /\ Numbers(response'[d]) \in Seq(0 .. ids)
    <3>1. CASE d # c
      <4>1. response'[d] = response[d]
        BY <1>0, <1>2, <3>1
      <4> QED BY <1>0, <4>1
    <3>2. CASE d = c
      <4>1. PICK S, s : s = response[d] /\ s \in Seq(S) /\ Numbers(s) \in Seq(0 .. ids)
        BY <1>0
      <4>2. response'[d] = Append(s, b)
        BY <1>0, <1>2, <3>2, <4>1
      <4>3. Numbers(Append(s, b)) = Append(Numbers(s), b.id)
        BY <1>0, <1>2, <4>1, NumbersAppend
      <4>4. Append(Numbers(s), b.id) \in Seq(0 .. ids)
        BY <1>2, <4>1, AppendProperties
      <4>5. \E T : Append(s, b) \in Seq(T)
        <5> DEFINE T == S \cup {b}
        <5>1. s \in Seq(T) /\ b \in T
          BY <4>1, SeqMonotonic
        <5> HIDE DEF T
        <5>2. Append(s, b) \in Seq(T)
          BY <5>1, AppendProperties
        <5> QED BY <5>2
      <4> QED BY <4>2, <4>3, <4>4, <4>5
    <3> QED BY <3>1, <3>2
  <2> QED BY <1>0, <1>2, <2>1, <2>2
<1>3. ASSUME NEW t \in Threads, AppendTo(t)
      PROVE  Good
  <2>1. At(t, "append") /\ UNCHANGED <<received, ids>>
    BY <1>3 DEF AppendTo
  <2>2. Next1(t).id \in 0 .. ids
    BY <1>0, <2>1, NumberOfTask
  <2>3. CASE response' = response
    BY <1>1, <2>1, <2>3
  <2>4. CASE response' # response
    <3> DEFINE msgs == IF Next1(t).id = 0 THEN Next1(t).msgs ELSE buffer[Next1(t).buf]
               x == [id |-> Next1(t).id, msgs |-> msgs]
    <3>1. response' = [response EXCEPT ![Next1(t).who] = Append(@, x)]
      BY <1>3, <2>4 DEF AppendTo
    <3>2. x.id \in 0 .. ids
      BY <2>2
    <3> HIDE DEF x, Good
    <3> QED BY <1>2, <2>1, <3>1, <3>2
  <2> QED BY <2>3, <2>4
<1>4. ASSUME NEW t \in Clients, EndWrite(t)
      PROVE  Good
  <2>1. UNCHANGED <<received, ids>>
    BY <1>4 DEF EndWrite
  <2>2. CASE response' = response
    BY <1>1, <2>1, <2>2
  <2>3. CASE response' # response
    <3> DEFINE x == [id |-> 0, msgs |-> Next1(t).msgs]
    <3>1. response' = [response EXCEPT ![t] = Append(@, x)]
      BY <1>4, <2>3 DEF EndWrite
    <3>2. x.id \in 0 .. ids
      BY <1>0
    <3> HIDE DEF x, Good
    <3> QED BY <1>2, <2>1, <3>1, <3>2
  <2> QED BY <2>2, <2>3
<1>5. ASSUME NEW t \in Threads, Sent(t)
      PROVE  Good
  <2>1. PICK c : /\ response' = [response EXCEPT ![c] = <<>>] /\ ids' = ids
                 /\ received' \in {received, [received EXCEPT ![c] = @ \o Numbers(response[c])]}
    BY <1>5 DEF Sent
  <2>2. response' = [d \in Clients |-> response'[d]]
    BY <1>0, <2>1
  <2>3. ASSUME NEW d \in Clients
        PROVE  (\E S : response'[d] \in Seq(S)) /\ Numbers(response'[d]) \in Seq(0 .. ids)
    <3>1. CASE d # c
      <4>1. response'[d] = response[d]
        BY <1>0, <2>1, <3>1
      <4> QED BY <1>0, <4>1
    <3>2. CASE d = c
      <4>1. response'[d] = <<>>
        BY <1>0, <2>1, <3>2
      <4>2. PICK s : s = <<>> /\ s \in Seq(0 .. ids)
        <5>1. <<>> \in Seq(0 .. ids)
          OBVIOUS
        <5> QED BY <5>1
      <4>3. Numbers(s) = s
        BY <4>2 DEF Numbers
      <4> QED BY <4>1, <4>2, <4>3
    <3> QED BY <3>1, <3>2
  <2>4. received' \in [Clients -> Seq(0 .. ids)]
    <3>1. CASE received' = received
      BY <1>0, <3>1
    <3>2. CASE c \in Clients /\ received' = [received EXCEPT ![c] = @ \o Numbers(response[c])]
      <4>1. PICK s : s = received[c] \o Numbers(response[c]) /\ s \in Seq(0 .. ids)
        BY <1>0, <3>2, ConcatProperties
      <4> QED BY <1>0, <3>2, <4>1
    <3>3. CASE c \notin Clients
      BY <1>0, <2>1, <3>3
    <3> QED BY <2>1, <3>1, <3>2, <3>3
  <2> QED BY <1>0, <2>1, <2>2, <2>3, <2>4
<1>6. ASSUME NEW t \in Threads, Lock(t)
      PROVE  Good
  <2>1. ids' = ids + 1 /\ UNCHANGED <<received, response>>
    BY <1>6 DEF Lock
  <2>2. 0 .. ids \subseteq 0 .. ids'
    BY <1>0, <2>1
  <2>3. Seq(0 .. ids) \subseteq Seq(0 .. ids')
    BY <2>2, SeqMonotonic
  <2>4. received \in [Clients -> Seq(0 .. ids')]
    BY <1>0, <2>3
  <2>5. ids' \in Nat
    BY <1>0, <2>1
  <2> QED BY <1>0, <2>1, <2>3, <2>4, <2>5
<1>7. ASSUME NEW t \in Threads, Step(t) \/ Wait(t) \/ Sent(t)
      PROVE  \/ UNCHANGED <<response, received, ids>>
             \/ AppendTo(t) \/ (t \in Clients /\ EndWrite(t)) \/ Sent(t) \/ Lock(t)
  BY <1>7 DEF Step, Wait, Decide, Push, NothingToBroadcast, Deliver, Unlock, Loop, Read, BeginWrite,
              ListOthers, BeginSend, Close
<1>8. ASSUME NEW c \in Clients, Join(c) \/ Enter(c) \/ Play(c) \/ Leave(c)
      PROVE  UNCHANGED <<response, received, ids>>
  BY <1>8 DEF Join, Enter, Play, Leave, gameUnchanged
<1>9. BroadcastTime => UNCHANGED <<response, received, ids>>
  BY DEF BroadcastTime
<1> HIDE DEF Good
<1>10. Good
  BY <1>1, <1>3, <1>4, <1>5, <1>6, <1>7, <1>8, <1>9 DEF Next
<1> QED BY <1>10 DEF Good, Numbers

(* SetToSeq(Present) is chosen among the lists that name everybody once. *)
LEMMA PresentInOrder ==
  /\ SetToSeq(Present) \in Seq(Present)
  /\ IsInjective(SetToSeq(Present))
<1> DEFINE n == Cardinality(Present)
<1>1. n \in Nat /\ ExistsBijection(1 .. n, Present)
  BY ConnectionAssumption, FS_CardinalityType
<1>2. \E f \in [1 .. n -> Present] : IsInjective(f)
  BY <1>1 DEF ExistsBijection, Bijection, Injection
<1>3. SetToSeq(Present) \in [1 .. n -> Present] /\ IsInjective(SetToSeq(Present))
  BY <1>2 DEF SetToSeq
<1> HIDE DEF n
<1> QED BY <1>1, <1>3

LEMMA InitIInv == Init => IInv
<1> SUFFICES ASSUME Init PROVE IInv
  OBVIOUS
<1>1. \A c \in Clients : received[c] = <<>> /\ response[c] = <<>>
  BY DEF Init
<1>2. PICK e : e = <<>> /\ \A S : e \in Seq(S)
  <2>1. \A S : <<>> \in Seq(S)
    OBVIOUS
  <2> QED BY <2>1
<1>3. Numbers(e) = e /\ e \o e = e
  BY <1>2 DEF Numbers
<1>4. \A c \in Clients : Heard(c) = e
  BY <1>1, <1>2, <1>3 DEF Heard
<1>5. Shape
  <2>1. connected \in Seq(Clients) /\ IsInjective(connected) /\ \A i \in DOMAIN connected : connected[i] \in Present
    <3>1. connected \in Seq(Present) /\ IsInjective(connected)
      BY PresentInOrder DEF Init
    <3> QED BY <3>1, ConnectionAssumption, SeqMonotonic
  <2>2. \A i \in DOMAIN connected : stage[connected[i]] # "away"
    BY <2>1, ConnectionAssumption DEF Init
  <2>3. stage \in [Clients -> {"away", "handshake", "login", "play", "left"}]
    BY DEF Init
  <2>4. inbox \in [Clients -> Seq(Words)]
    BY <1>2 DEF Init
  <2>5. todo = [t \in Threads |-> todo[t]] /\ response = [c \in Clients |-> response[c]]
    BY DEF Init
  <2>6. \A c \in Clients : (\E S : response[c] \in Seq(S)) /\ Numbers(response[c]) \in Seq(0 .. ids)
    BY <1>1, <1>2, <1>3
  <2>7. ids \in Nat /\ listMutex \in Threads \cup {Nobody} /\ received \in [Clients -> Seq(0 .. ids)]
    BY <1>2 DEF Init
  <2> QED BY <2>1, <2>2, <2>3, <2>4, <2>5, <2>6, <2>7 DEF Shape
<1>6. InOrder
  <2>1. \A t \in Threads : Plain(todo[t]) /\ t # listMutex
    <3>1. Plain(<<Task("loop")>>) /\ Plain(<<>>)
      BY PlainTasks, PlainEmpty
    <3> QED BY <3>1, NobodyIsNoThread DEF Init
  <2>2. \A c \in Clients : Ascending(Heard(c))
    BY <1>2, <1>4 DEF Ascending
  <2> QED BY <2>1, <2>2 DEF InOrder, Init
<1> QED BY <1>5, <1>6 DEF IInv

LEMMA NextIInv == IInv /\ [Next]_vars => IInv'
<1>1. ASSUME IInv, Next
      PROVE  IInv'
  BY <1>1, ConnectedStep, TodoStep, HeardStep, InOrderStep DEF IInv, Shape
<1>2. ASSUME IInv, UNCHANGED vars
      PROVE  IInv'
  <2>1. UNCHANGED <<stage, inbox, connected, todo, response, ids, received, listMutex>>
    BY <1>2 DEF vars
  <2>2. \A d : Heard(d)' = Heard(d)
    BY <2>1 DEF Heard, Numbers
  <2>3. \A d : Hears(d, ids)' <=> Hears(d, ids)
    BY <2>1, <2>2 DEF Hears
  <2>4. ASSUME NEW s PROVE (Looping(s)' <=> Looping(s)) /\ (Appending(s)' <=> Appending(s))
    BY <2>1, <2>3 DEF Looping, Appending
  <2>5. InOrder'
    BY <1>2, <2>1, <2>2, <2>4 DEF IInv, InOrder
  <2>6. Shape'
    BY <1>2, <2>1 DEF IInv, Shape, Numbers
  <2> QED BY <2>5, <2>6 DEF IInv
<1> QED BY <1>1, <1>2

(* The inductive invariant: whoever holds connectedClientsMutex is in       *)
(* BroadcastToClients with the broadcast numbered last, nobody it has still *)
(* to put it to has heard that one, nobody else has any broadcast to put    *)
(* anywhere, and what each client hears ascends. *)
THEOREM Invariance == Spec => []IInv
<1> QED BY InitIInv, NextIInv, PTL DEF Spec

(* No two clients hear two broadcasts in different orders and none hears    *)
(* one twice, for any number of clients and whatever they send: the loop of *)
(* BroadcastToClients is under connectedClientsMutex from the first client  *)
(* to the last. *)
THEOREM BroadcastsInOneOrder == Spec => []SameOrder
<1>1. ASSUME IInv
      PROVE  SameOrder
  <2> SUFFICES ASSUME NEW c \in Clients, NEW d \in Clients, NEW m \in 1 .. ids, NEW n \in 1 .. ids,
                      HearsBefore(c, m, n), HearsBefore(d, n, m)
               PROVE  FALSE
    BY DEF SameOrder
  <2>1. Ascending(Heard(c)) /\ Ascending(Heard(d)) /\ ids \in Nat
    BY <1>1 DEF IInv, InOrder, Shape
  <2>2. m < n
    BY <2>1 DEF HearsBefore, Ascending
  <2>3. n < m
    BY <2>1 DEF HearsBefore, Ascending
  <2> QED BY <2>1, <2>2, <2>3
<1> QED BY <1>1, Invariance, PTL

-----------------------------------------------------------------------------
(* Lists. *)

IsSeq(s) == \E S : s \in Seq(S)

LEMMA SeqFacts ==
  ASSUME NEW s, IsSeq(s)
  PROVE  Len(s) \in Nat /\ DOMAIN s = 1 .. Len(s)
<1>1. PICK S : s \in Seq(S)
  BY DEF IsSeq
<1> QED BY <1>1, LenProperties

LEMMA NilFacts == IsSeq(<<>>) /\ ToSet(<<>>) = {} /\ DOMAIN <<>> = {}
<1>1. <<>> \in Seq({})
  OBVIOUS
<1> QED BY <1>1 DEF IsSeq, ToSet

LEMMA OneFacts ==
  ASSUME NEW x
  PROVE  IsSeq(<<x>>) /\ ToSet(<<x>>) = {x} /\ DOMAIN <<x>> = {1} /\ <<x>>[1] = x
<1>1. <<x>> \in Seq({x}) /\ DOMAIN <<x>> = {1} /\ <<x>>[1] = x
  OBVIOUS
<1> QED BY <1>1 DEF IsSeq, ToSet

(* A concatenation, and its parts by their numbers. *)
Joins(s, k, l, a, b) ==
  /\ s = a \o b /\ k \in Nat /\ l \in Nat
  /\ DOMAIN a = 1 .. k /\ DOMAIN b = 1 .. l /\ DOMAIN s = 1 .. k + l
  /\ \A i \in 1 .. k : s[i] = a[i]
  /\ \A i \in 1 .. l : s[k + i] = b[i]
  /\ \A i \in 1 .. k + l : i \in 1 .. k \/ \E j \in 1 .. l : i = k + j

LEMMA JoinsFacts ==
  ASSUME NEW a, IsSeq(a), NEW b, IsSeq(b)
  PROVE  \E s, k, l : Joins(s, k, l, a, b) /\ k = Len(a) /\ l = Len(b) /\ IsSeq(s) /\ Len(s) = k + l
<1>1. PICK S, T : a \in Seq(S) /\ b \in Seq(T)
  BY DEF IsSeq
<1>2. PICK M : a \in Seq(M) /\ b \in Seq(M)
  <2>1. a \in Seq(S \cup T) /\ b \in Seq(S \cup T)
    BY <1>1, SeqMonotonic
  <2> QED BY <2>1
<1>3. PICK s : s = a \o b /\ s \in Seq(M) /\ Len(s) = Len(a) + Len(b)
  BY <1>2, ConcatProperties
<1>4. /\ Len(a) \in Nat /\ Len(b) \in Nat
      /\ DOMAIN a = 1 .. Len(a) /\ DOMAIN b = 1 .. Len(b) /\ DOMAIN s = 1 .. Len(a) + Len(b)
  BY <1>2, <1>3, LenProperties
<1>5. \A i \in 1 .. Len(a) : s[i] = a[i]
  BY <1>2, <1>3, <1>4, ConcatProperties
<1>6. ASSUME NEW i \in 1 .. Len(b)
      PROVE  s[Len(a) + i] = b[i]
  <2>1. PICK k, l, j : k = Len(a) /\ l = Len(b) /\ j = k + i /\ k \in Nat /\ l \in Nat /\ i \in 1 .. l
    BY <1>4
  <2>2. j \in 1 .. k + l /\ ~(j <= k) /\ j - k = i
    BY <2>1
  <2>3. s[j] = IF j <= k THEN a[j] ELSE b[j - k]
    BY <1>2, <1>3, <2>1, <2>2, ConcatProperties
  <2> QED BY <2>1, <2>2, <2>3
<1>7. ASSUME NEW i \in 1 .. Len(a) + Len(b)
      PROVE  i \in 1 .. Len(a) \/ \E j \in 1 .. Len(b) : i = Len(a) + j
  <2>1. PICK k, l : k = Len(a) /\ l = Len(b) /\ k \in Nat /\ l \in Nat
    BY <1>4
  <2>2. i \in 1 .. k \/ (i - k \in 1 .. l /\ i = k + (i - k))
    BY <2>1
  <2> QED BY <2>1, <2>2
<1>8. PICK k, l : k = Len(a) /\ l = Len(b)
  OBVIOUS
<1>9. Joins(s, k, l, a, b)
  BY <1>3, <1>4, <1>5, <1>6, <1>7, <1>8, Zenon DEF Joins
<1> QED BY <1>3, <1>8, <1>9 DEF IsSeq

LEMMA CatSet ==
  ASSUME NEW a, IsSeq(a), NEW b, IsSeq(b)
  PROVE  IsSeq(a \o b) /\ ToSet(a \o b) = ToSet(a) \cup ToSet(b)
<1>0. PICK s, k, l : Joins(s, k, l, a, b) /\ IsSeq(s)
  BY JoinsFacts
<1>1. /\ s = a \o b /\ k \in Nat /\ l \in Nat
      /\ DOMAIN a = 1 .. k /\ DOMAIN b = 1 .. l /\ DOMAIN s = 1 .. k + l
      /\ \A i \in 1 .. k : s[i] = a[i]
      /\ \A i \in 1 .. l : s[k + i] = b[i]
      /\ \A i \in 1 .. k + l : i \in 1 .. k \/ \E j \in 1 .. l : i = k + j
  BY <1>0, Zenon DEF Joins
<1>2. ASSUME NEW x \in ToSet(s)
      PROVE  x \in ToSet(a) \cup ToSet(b)
  <2>1. PICK i \in 1 .. k + l : x = s[i]
    BY <1>1 DEF ToSet
  <2>2. CASE i \in 1 .. k
    BY <1>1, <2>1, <2>2 DEF ToSet
  <2>3. CASE \E j \in 1 .. l : i = k + j
    BY <1>1, <2>1, <2>3 DEF ToSet
  <2> QED BY <1>1, <2>2, <2>3
<1>3. ASSUME NEW x \in ToSet(a)
      PROVE  x \in ToSet(s)
  <2>1. PICK i \in 1 .. k : x = a[i]
    BY <1>1 DEF ToSet
  <2>2. i \in 1 .. k + l
    BY <1>1
  <2> QED BY <1>1, <2>1, <2>2 DEF ToSet
<1>4. ASSUME NEW x \in ToSet(b)
      PROVE  x \in ToSet(s)
  <2>1. PICK i \in 1 .. l : x = b[i]
    BY <1>1 DEF ToSet
  <2>2. k + i \in 1 .. k + l
    BY <1>1
  <2> QED BY <1>1, <2>1, <2>2 DEF ToSet
<1> QED BY <1>0, <1>1, <1>2, <1>3, <1>4

LEMMA TailFacts ==
  ASSUME NEW s, IsSeq(s), s # <<>>
  PROVE  /\ IsSeq(Tail(s)) /\ Len(s) \in Nat \ {0} /\ Head(s) = s[1] /\ DOMAIN s = 1 .. Len(s)
         /\ DOMAIN Tail(s) = 1 .. Len(s) - 1
         /\ \A i \in 1 .. Len(s) - 1 : Tail(s)[i] = s[i + 1]
         /\ ToSet(s) = {Head(s)} \cup ToSet(Tail(s))
<1>1. PICK S : s \in Seq(S)
  BY DEF IsSeq
<1>2. Len(s) \in Nat \ {0} /\ DOMAIN s = 1 .. Len(s) /\ Head(s) = s[1] /\ Tail(s) \in Seq(S)
  BY <1>1, EmptySeq, HeadTailProperties, LenProperties
<1>3. DOMAIN Tail(s) = 1 .. Len(s) - 1 /\ \A i \in 1 .. Len(s) - 1 : Tail(s)[i] = s[i + 1]
  BY <1>1, <1>2, HeadTailProperties, LenProperties
<1>4. PICK r, n : r = Tail(s) /\ n = Len(s) /\ n \in Nat \ {0}
  BY <1>2
<1>5. ToSet(s) = {s[1]} \cup ToSet(r)
  <2>1. ASSUME NEW x \in ToSet(s)
        PROVE  x = s[1] \/ x \in ToSet(r)
    <3>1. PICK i \in 1 .. n : x = s[i]
      BY <1>2, <1>4 DEF ToSet
    <3>2. CASE i = 1
      BY <3>1, <3>2
    <3>3. CASE i # 1
      <4>1. i - 1 \in 1 .. n - 1 /\ (i - 1) + 1 = i
        BY <1>4, <3>3
      <4>2. r[i - 1] = s[i] /\ i - 1 \in DOMAIN r
        BY <1>3, <1>4, <4>1
      <4> QED BY <3>1, <4>2 DEF ToSet
    <3> QED BY <3>2, <3>3
  <2>2. ASSUME NEW x \in ToSet(r)
        PROVE  x \in ToSet(s)
    <3>1. PICK i \in 1 .. n - 1 : x = r[i]
      BY <1>3, <1>4 DEF ToSet
    <3>2. i + 1 \in 1 .. n /\ r[i] = s[i + 1]
      BY <1>3, <1>4
    <3> QED BY <1>2, <1>4, <3>1, <3>2 DEF ToSet
  <2>3. s[1] \in ToSet(s)
    BY <1>2, <1>4 DEF ToSet
  <2> QED BY <2>1, <2>2, <2>3
<1> QED BY <1>1, <1>2, <1>3, <1>4, <1>5 DEF IsSeq

LEMMA ConsFacts ==
  ASSUME NEW x, NEW s, IsSeq(s)
  PROVE  /\ IsSeq(<<x>> \o s) /\ <<x>> \o s # <<>>
         /\ Head(<<x>> \o s) = x /\ Tail(<<x>> \o s) = s
         /\ ToSet(<<x>> \o s) = {x} \cup ToSet(s)
<1>1. PICK S : s \in Seq(S)
  BY DEF IsSeq
<1>2. PICK M : s \in Seq(M) /\ <<x>> \in Seq(M)
  <2>1. s \in Seq(S \cup {x}) /\ <<x>> \in Seq({x})
    BY <1>1, SeqMonotonic
  <2>2. <<x>> \in Seq(S \cup {x})
    BY <2>1, SeqMonotonic
  <2> QED BY <2>1, <2>2
<1>3. Head(<<x>> \o s) = x /\ Tail(<<x>> \o s) = s /\ <<x>> \o s # <<>>
  BY <1>2
<1> QED BY <1>3, CatSet, OneFacts

LEMMA CatNil ==
  ASSUME NEW s, IsSeq(s)
  PROVE  <<>> \o s = s
<1>1. PICK S : s \in Seq(S)
  BY DEF IsSeq
<1> QED BY <1>1, ConcatEmptySeq

-----------------------------------------------------------------------------
(* Counting up. *)

(* Every nonempty set of naturals has a least element. *)
LEMMA LeastNumber ==
  ASSUME NEW S \in SUBSET Nat, S # {}
  PROVE  \E m \in S : \A k \in S : m <= k
<1> DEFINE R == OpToRel(<, Nat)
<1>1. IsWellFoundedOn(R, Nat)
  BY NatLessThanWellFounded
<1>2. \E m \in S : \A k \in S : ~(<<k, m>> \in R)
  <2> HIDE DEF R
  <2> QED BY <1>1, WFMin
<1>3. \A k, m \in Nat : k < m => <<k, m>> \in R
  BY DEF OpToRel
<1> HIDE DEF R
<1>4. PICK m \in S : \A k \in S : ~(<<k, m>> \in R)
  BY <1>2
<1>5. \A k \in S : ~(k < m)
  BY <1>3, <1>4
<1> QED BY <1>5

(* What holds of 0, and of a number if it does of the one before, holds of  *)
(* all up to N. *)
LEMMA UpTo ==
  ASSUME NEW N \in Nat, NEW S, 0 \in S, \A n \in 1 .. N : n - 1 \in S => n \in S
  PROVE  0 .. N \subseteq S
<1> DEFINE Bad == {n \in 0 .. N : n \notin S}
<1>1. ASSUME Bad # {} PROVE FALSE
  <2>1. Bad \in SUBSET Nat
    OBVIOUS
  <2>2. PICK m \in Bad : \A k \in Bad : m <= k
    <3> HIDE DEF Bad
    <3> QED BY <1>1, <2>1, LeastNumber
  <2>3. m \in 1 .. N /\ m - 1 \in 0 .. N /\ ~(m <= m - 1)
    BY <2>2
  <2>4. m - 1 \in S
    BY <2>2, <2>3
  <2> QED BY <2>2, <2>3, <2>4
<1> QED BY <1>1

(* A value can be computed step by step. *)
Steps(step, N, X) == step \in [1 .. N -> [X -> X]]

Iterates(g, N, X, x, step) ==
  g \in [0 .. N -> X] /\ g[0] = x /\ \A n \in 1 .. N : g[n] = step[n][g[n - 1]]

LEMMA Iteration ==
  ASSUME NEW N \in Nat, NEW X, NEW x \in X, NEW step, Steps(step, N, X)
  PROVE  \E g : Iterates(g, N, X, x, step)
<1> USE DEF Steps
<1> DEFINE Computes(g, m) == g[0] = x /\ \A n \in 1 .. m : g[n] = step[n][g[n - 1]]
           S == {m \in 0 .. N : \E g \in [0 .. m -> X] : Computes(g, m)}
<1>1. 0 \in S
  <2> DEFINE g == [n \in 0 .. 0 |-> x]
  <2>1. g \in [0 .. 0 -> X] /\ Computes(g, 0)
    OBVIOUS
  <2> HIDE DEF g
  <2> QED BY <2>1
<1>2. ASSUME NEW n \in 1 .. N, n - 1 \in S PROVE n \in S
  <2>1. PICK g \in [0 .. n - 1 -> X] : Computes(g, n - 1)
    BY <1>2
  <2>2. n \in Nat /\ n - 1 \in 0 .. n - 1 /\ g[n - 1] \in X
    OBVIOUS
  <2>3. PICK y \in X : y = step[n][g[n - 1]]
    BY <2>2
  <2> DEFINE h == [k \in 0 .. n |-> IF k = n THEN y ELSE g[k]]
  <2>4. h \in [0 .. n -> X]
    BY <2>3
  <2>5. h[0] = x
    BY <2>1
  <2>6. ASSUME NEW k \in 1 .. n PROVE h[k] = step[k][h[k - 1]]
    <3>1. k - 1 \in 0 .. n /\ k - 1 # n /\ h[k - 1] = g[k - 1]
      OBVIOUS
    <3>2. CASE k = n
      BY <2>3, <3>1, <3>2
    <3>3. CASE k # n
      BY <2>1, <3>1, <3>3
    <3> QED BY <3>2, <3>3
  <2> HIDE DEF h
  <2> QED BY <2>4, <2>5, <2>6
<1>3. N \in S
  <2> HIDE DEF S
  <2>1. 0 .. N \subseteq S
    BY <1>1, <1>2, UpTo
  <2> QED BY <2>1
<1> QED BY <1>3 DEF Iterates

-----------------------------------------------------------------------------
(* What a screen shows. *)

Comes(m, d) == m.kind = "NamedEntitySpawn" /\ m.of = d
Goes(m, d) == m.kind = "DestroyEntity" /\ m.of = d

(* One message. *)
Afterwards(seen, m) == CASE m.kind = "NamedEntitySpawn" -> seen \cup {m.of}
                         [] m.kind = "DestroyEntity" -> seen \ {m.of}
                         [] OTHER -> seen

LEMMA AfterwardsRule ==
  ASSUME NEW seen, NEW m, NEW d
  PROVE  d \in Afterwards(seen, m) <=> Comes(m, d) \/ (d \in seen /\ ~Goes(m, d))
BY DEF Afterwards, Comes, Goes

LEMMA Greatest ==
  ASSUME NEW n \in Nat, NEW T \in SUBSET (1 .. n), T # {}
  PROVE  Max(T) \in T /\ \A k \in T : k <= Max(T)
<1> DEFINE S == {n - k : k \in T}
<1>0. \A k \in T : n - k \in Nat /\ k \in Nat
  OBVIOUS
<1>1. S \in SUBSET Nat /\ S # {}
  BY <1>0
<1>2. PICK m \in S : \A k \in S : m <= k
  <2> HIDE DEF S
  <2> QED BY <1>1, LeastNumber
<1>3. PICK x \in T : m = n - x
  BY <1>2
<1>4. \A k \in T : x >= k
  <2> SUFFICES ASSUME NEW k \in T PROVE x >= k
    OBVIOUS
  <2>1. m <= n - k
    BY <1>2
  <2> QED BY <1>0, <1>3, <2>1
<1>5. \E y \in T : \A k \in T : y >= k
  BY <1>4
<1>6. Max(T) \in T /\ \A k \in T : Max(T) >= k
  BY <1>5, Zenon DEF Max
<1> QED BY <1>6

(* Who is shown after the messages with the numbers in T. *)
Shown1(seen, msgs, T) ==
  {d \in seen \cup {msgs[i].of : i \in T} :
     \/ d \in seen /\ \A j \in T : ~Goes(msgs[j], d)
     \/ \E i \in T : Comes(msgs[i], d) /\ \A j \in T : j > i => ~Goes(msgs[j], d)}

Top(T, m) == T \subseteq Nat /\ m \in T /\ \A k \in T : k <= m

LEMMA OneMore ==
  ASSUME NEW seen, NEW msgs, NEW T, NEW m, Top(T, m)
  PROVE  Shown1(seen, msgs, T) = Afterwards(Shown1(seen, msgs, T \ {m}), msgs[m])
<1> DEFINE U == T \ {m}
<1>1. /\ \A k \in T : k \in U \/ k = m
      /\ \A k \in U : k \in T /\ m > k /\ ~(k > m)
      /\ m \in T /\ ~(m > m)
  <2>1. ASSUME NEW k \in U PROVE k \in T /\ m > k /\ ~(k > m)
    BY DEF Top
  <2> QED BY <2>1 DEF Top
<1>2. \A d, A : d \in Shown1(seen, msgs, A) <=>
         \/ d \in seen /\ \A j \in A : ~Goes(msgs[j], d)
         \/ \E i \in A : Comes(msgs[i], d) /\ \A j \in A : j > i => ~Goes(msgs[j], d)
  BY DEF Shown1, Comes
<1>3. \A d : ~(Comes(msgs[m], d) /\ Goes(msgs[m], d))
  BY DEF Comes, Goes
<1> HIDE DEF U
<1>4. ASSUME NEW d, d \in Shown1(seen, msgs, T)
      PROVE  Comes(msgs[m], d) \/ (d \in Shown1(seen, msgs, U) /\ ~Goes(msgs[m], d))
  BY <1>1, <1>2, <1>4
<1>5. ASSUME NEW d, Comes(msgs[m], d) \/ (d \in Shown1(seen, msgs, U) /\ ~Goes(msgs[m], d))
      PROVE  d \in Shown1(seen, msgs, T)
  BY <1>1, <1>2, <1>3, <1>5
<1>6. \A d : d \in Shown1(seen, msgs, T) <=> d \in Afterwards(Shown1(seen, msgs, U), msgs[m])
  BY <1>4, <1>5, AfterwardsRule
<1>7. Shown1(seen, msgs, T) = Afterwards(Shown1(seen, msgs, U), msgs[m])
  BY <1>6
<1> QED BY <1>7 DEF U

(* How the library counts. *)
Folded(f, seen, msgs, T) ==
  IF T = {} THEN seen ELSE Afterwards(f[T \ {Max(T)}], msgs[Max(T)])

FoldsTo(f, seen, msgs, n) ==
  /\ Shows(seen, msgs) = f[1 .. n]
  /\ \A T \in SUBSET (1 .. n) : f[T] = Folded(f, seen, msgs, T)

Indexed(msgs, n) == n \in Nat /\ DOMAIN msgs = 1 .. n

LEMMA ShowsFolds ==
  ASSUME NEW seen, NEW msgs, NEW n, Indexed(msgs, n)
  PROVE  \E f : FoldsTo(f, seen, msgs, n)
<1> DEFINE D == DOMAIN msgs
           body(f) == [T \in SUBSET D |-> IF T = {} THEN seen
             ELSE LET x == Max(T) IN
                  CASE msgs[x].kind = "NamedEntitySpawn" -> f[T \ {x}] \cup {msgs[x].of}
                    [] msgs[x].kind = "DestroyEntity" -> f[T \ {x}] \ {msgs[x].of}
                    [] OTHER -> f[T \ {x}]]
<1>0. n \in Nat /\ D = 1 .. n
  BY DEF Indexed
<1>1. PICK f : f = CHOOSE h : h = body(h)
  OBVIOUS
<1>2. Shows(seen, msgs) = f[D]
  BY <1>1, Zenon DEF Shows, FoldLeft, MapThenFoldSet
<1>3. PICK h : h = [T \in SUBSET D |-> Shown1(seen, msgs, T)]
  OBVIOUS
<1>4. \A g : body(g) = [T \in SUBSET D |-> Folded(g, seen, msgs, T)]
  BY DEF Folded, Afterwards
<1>5. h = body(h)
  <2>1. ASSUME NEW T \in SUBSET D PROVE h[T] = Folded(h, seen, msgs, T)
    <3>1. CASE T = {}
      BY <1>3, <3>1 DEF Folded, Shown1
    <3>2. CASE T # {}
      <4>1. PICK m : m = Max(T)
        OBVIOUS
      <4>2. Top(T, m)
        <5>1. T \in SUBSET (1 .. n) /\ T \subseteq Nat
          BY <1>0
        <5> QED BY <1>0, <3>2, <4>1, <5>1, Greatest DEF Top
      <4>3. T \ {m} \in SUBSET D
        OBVIOUS
      <4>4. Shown1(seen, msgs, T) = Afterwards(Shown1(seen, msgs, T \ {m}), msgs[m])
        BY <4>2, OneMore
      <4>5. h[T] = Shown1(seen, msgs, T) /\ h[T \ {m}] = Shown1(seen, msgs, T \ {m})
        BY <1>3, <4>3
      <4> QED BY <3>2, <4>1, <4>4, <4>5, Zenon DEF Folded
    <3> QED BY <3>1, <3>2
  <2>2. h = [T \in SUBSET D |-> Folded(h, seen, msgs, T)]
    BY <1>3, <2>1
  <2> HIDE DEF body
  <2> QED BY <2>2, <1>4
<1>6. f = body(f)
  <2> HIDE DEF body
  <2> QED BY <1>1, <1>5
<1> HIDE DEF body
<1>7. f = [T \in SUBSET D |-> Folded(f, seen, msgs, T)]
  BY <1>4, <1>6
<1> QED BY <1>0, <1>2, <1>7 DEF FoldsTo

(* What is shown is counted off message by message. *)
CountsOff(g, seen, msgs, n) ==
  g[0] = seen /\ \A k \in 1 .. n : g[k] = Afterwards(g[k - 1], msgs[k])

LEMMA ShowsSteps ==
  ASSUME NEW seen, NEW msgs, NEW n, Indexed(msgs, n)
  PROVE  \E g : CountsOff(g, seen, msgs, n) /\ Shows(seen, msgs) = g[n]
<1>1. PICK f : /\ Shows(seen, msgs) = f[1 .. n]
               /\ \A T \in SUBSET (1 .. n) : f[T] = Folded(f, seen, msgs, T)
  <2>1. PICK f : FoldsTo(f, seen, msgs, n)
    BY ShowsFolds
  <2> QED BY <2>1, Zenon DEF FoldsTo
<1>0. n \in Nat
  BY DEF Indexed
<1>2. PICK g : g = [k \in 0 .. n |-> f[1 .. k]]
  OBVIOUS
<1>3. g[0] = seen
  <2>1. 1 .. 0 = {} /\ g[0] = f[1 .. 0]
    BY <1>0, <1>2
  <2> QED BY <1>1, <2>1 DEF Folded
<1>4. ASSUME NEW k \in 1 .. n PROVE g[k] = Afterwards(g[k - 1], msgs[k])
  <2>1. PICK T : T = 1 .. k
    OBVIOUS
  <2>2. T \in SUBSET (1 .. n) /\ k \in T /\ \A i \in T : i <= k
    BY <1>0, <2>1
  <2>5. T \ {k} = 1 .. k - 1
    BY <1>0, <2>1
  <2>3. Max(T) = k
    <3>1. PICK m : m = Max(T)
      OBVIOUS
    <3>2. m \in T /\ \A i \in T : i <= m
      <4>1. T # {}
        BY <2>2
      <4> QED BY <1>0, <2>2, <3>1, <4>1, Greatest
    <3>3. m \in 1 .. n /\ k <= m /\ m <= k
      BY <1>0, <2>2, <3>2
    <3> QED BY <3>1, <3>3
  <2>4. f[T] = Afterwards(f[T \ {k}], msgs[k])
    BY <1>1, <2>2, <2>3 DEF Folded
  <2>7. k \in 0 .. n /\ k - 1 \in 0 .. n
    BY <1>0
  <2>6. g[k] = f[T] /\ g[k - 1] = f[T \ {k}]
    BY <1>2, <2>1, <2>5, <2>7
  <2> QED BY <2>4, <2>6
<1>5. CountsOff(g, seen, msgs, n)
  BY <1>3, <1>4 DEF CountsOff
<1>6. g[n] = f[1 .. n]
  BY <1>0, <1>2
<1> QED BY <1>1, <1>5, <1>6

LEMMA CountedOnce ==
  ASSUME NEW n \in Nat, NEW seen, NEW msgs, NEW g, CountsOff(g, seen, msgs, n),
         NEW h, CountsOff(h, seen, msgs, n)
  PROVE  g[n] = h[n]
<1> USE DEF CountsOff
<1> DEFINE S == {k \in 0 .. n : g[k] = h[k]}
<1>1. 0 \in S
  OBVIOUS
<1>2. ASSUME NEW k \in 1 .. n, k - 1 \in S PROVE k \in S
  BY <1>2
<1>3. 0 .. n \subseteq S
  <2> HIDE DEF S
  <2> QED BY <1>1, <1>2, UpTo
<1> QED BY <1>3

LEMMA ShowsNil ==
  ASSUME NEW seen
  PROVE  Shows(seen, <<>>) = seen
<1>1. PICK e : e = <<>> /\ Indexed(e, 0)
  <2>1. DOMAIN <<>> = 1 .. 0 /\ 0 \in Nat
    BY NilFacts
  <2> QED BY <2>1 DEF Indexed
<1>2. PICK g : CountsOff(g, seen, e, 0) /\ Shows(seen, e) = g[0]
  BY <1>1, ShowsSteps
<1> QED BY <1>1, <1>2 DEF CountsOff

LEMMA ShowsJoin ==
  ASSUME NEW seen, NEW a, IsSeq(a), NEW b, IsSeq(b)
  PROVE  Shows(seen, a \o b) = Shows(Shows(seen, a), b)
<1>1. PICK s, k, l : Joins(s, k, l, a, b)
  BY JoinsFacts
<1>2. /\ k \in Nat /\ l \in Nat /\ s = a \o b
      /\ DOMAIN a = 1 .. k /\ DOMAIN b = 1 .. l /\ DOMAIN s = 1 .. k + l
      /\ \A i \in 1 .. k : s[i] = a[i]
      /\ \A i \in 1 .. l : s[k + i] = b[i]
  BY <1>1, Zenon DEF Joins
<1>3. PICK f : CountsOff(f, seen, s, k + l) /\ Shows(seen, s) = f[k + l]
  <2>1. k + l \in Nat
    BY <1>2
  <2>2. Indexed(s, k + l)
    BY <1>2, <2>1 DEF Indexed
  <2> QED BY <2>2, ShowsSteps, Zenon
<1>4. PICK g : CountsOff(g, seen, a, k) /\ Shows(seen, a) = g[k]
  <2>1. Indexed(a, k)
    BY <1>2 DEF Indexed
  <2> QED BY <2>1, ShowsSteps, Zenon
<1>5. PICK h : CountsOff(h, g[k], b, l) /\ Shows(g[k], b) = h[l]
  <2>1. Indexed(b, l)
    BY <1>2 DEF Indexed
  <2> QED BY <2>1, ShowsSteps, Zenon
<1>6. CountsOff(f, seen, a, k)
  BY <1>2, <1>3 DEF CountsOff
<1>7. f[k] = g[k]
  BY <1>2, <1>4, <1>6, CountedOnce
<1>8. PICK r : r = [i \in 0 .. l |-> f[k + i]]
  OBVIOUS
<1>9. CountsOff(r, g[k], b, l)
  <2>1. r[0] = g[k]
    <3>1. k + 0 = k /\ 0 \in 0 .. l
      BY <1>2
    <3> QED BY <1>7, <1>8, <3>1
  <2>2. ASSUME NEW i \in 1 .. l PROVE r[i] = Afterwards(r[i - 1], b[i])
    <3>1. k + i \in 1 .. k + l /\ (k + i) - 1 = k + (i - 1) /\ i \in 0 .. l /\ i - 1 \in 0 .. l
      BY <1>2
    <3>2. f[k + i] = Afterwards(f[(k + i) - 1], s[k + i])
      BY <1>3, <3>1 DEF CountsOff
    <3> QED BY <1>2, <1>8, <3>1, <3>2
  <2> QED BY <2>1, <2>2 DEF CountsOff
<1>10. r[l] = h[l]
  BY <1>2, <1>5, <1>9, CountedOnce
<1>11. r[l] = f[k + l]
  BY <1>2, <1>8
<1> QED BY <1>2, <1>3, <1>4, <1>5, <1>10, <1>11

-----------------------------------------------------------------------------
(* Who is shown, by the messages that come and go. *)

Says(m, d) == Comes(m, d) \/ Goes(m, d)
TellsGone(msgs, d) == \E i \in DOMAIN msgs : Goes(msgs[i], d)
LastSpawn(msgs, d) ==
  \E i \in DOMAIN msgs : Comes(msgs[i], d) /\ \A j \in DOMAIN msgs : j > i => ~Goes(msgs[j], d)
SaysAfter(msgs, k, d) == \E i \in DOMAIN msgs : i > k /\ Says(msgs[i], d)

LEMMA EntitiesRule ==
  ASSUME NEW msgs, NEW d
  PROVE  d \in Entities(msgs) <=> \E i \in DOMAIN msgs : Says(msgs[i], d)
BY DEF Entities, ToSet, Says, Comes, Goes

LEMMA MemberRule ==
  ASSUME NEW seen, NEW msgs, IsSeq(msgs), NEW d
  PROVE  d \in Shows(seen, msgs) <=> (d \in seen /\ ~TellsGone(msgs, d)) \/ LastSpawn(msgs, d)
<1>1. PICK n : n = Len(msgs) /\ Indexed(msgs, n)
  BY SeqFacts DEF Indexed
<1>2. PICK g : CountsOff(g, seen, msgs, n) /\ Shows(seen, msgs) = g[n]
  BY <1>1, ShowsSteps
<1>3. n \in Nat /\ DOMAIN msgs = 1 .. n
  BY <1>1 DEF Indexed
<1> DEFINE S == {k \in 0 .. n : g[k] = Shown1(seen, msgs, 1 .. k)}
<1>4. 0 \in S
  <2>1. 1 .. 0 = {}
    OBVIOUS
  <2>2. g[0] = seen
    BY <1>2 DEF CountsOff
  <2>3. Shown1(seen, msgs, {}) = seen
    BY DEF Shown1
  <2> QED BY <1>3, <2>1, <2>2, <2>3
<1>5. ASSUME NEW k \in 1 .. n, k - 1 \in S PROVE k \in S
  <2>1. g[k] = Afterwards(g[k - 1], msgs[k])
    BY <1>2 DEF CountsOff
  <2>2. PICK T : T = 1 .. k
    OBVIOUS
  <2>3. Top(T, k)
    BY <1>3, <2>2 DEF Top
  <2>4. T \ {k} = 1 .. k - 1
    BY <1>3, <2>2
  <2>5. Shown1(seen, msgs, T) = Afterwards(Shown1(seen, msgs, T \ {k}), msgs[k])
    BY <2>3, OneMore
  <2>6. g[k - 1] = Shown1(seen, msgs, T \ {k})
    BY <1>5, <2>4
  <2>7. k \in 0 .. n
    BY <1>3
  <2> QED BY <2>1, <2>2, <2>5, <2>6, <2>7
<1>6. n \in S
  <2> HIDE DEF S
  <2>1. 0 .. n \subseteq S
    BY <1>3, <1>4, <1>5, UpTo
  <2> QED BY <1>3, <2>1
<1>7. Shows(seen, msgs) = Shown1(seen, msgs, DOMAIN msgs)
  BY <1>2, <1>3, <1>6
<1> QED BY <1>7 DEF Shown1, TellsGone, LastSpawn, Comes

LEMMA ShowsRules ==
  ASSUME NEW seen, NEW msgs, IsSeq(msgs), NEW d
  PROVE  /\ d \notin Entities(msgs) => (d \in Shows(seen, msgs) <=> d \in seen)
         /\ ~TellsGone(msgs, d) => (d \in Shows(seen, msgs) <=> d \in seen \/ d \in Entities(msgs))
         /\ d \in Entities(msgs) /\ ~LastSpawn(msgs, d) => d \notin Shows(seen, msgs)
<1>1. d \in Shows(seen, msgs) <=> (d \in seen /\ ~TellsGone(msgs, d)) \/ LastSpawn(msgs, d)
  BY MemberRule
<1>2. d \in Entities(msgs) <=> \E i \in DOMAIN msgs : Says(msgs[i], d)
  BY EntitiesRule
<1>3. d \notin Entities(msgs) => ~TellsGone(msgs, d) /\ ~LastSpawn(msgs, d)
  BY <1>2 DEF TellsGone, LastSpawn, Says
<1>4. ~TellsGone(msgs, d) => (LastSpawn(msgs, d) <=> d \in Entities(msgs))
  BY <1>2 DEF TellsGone, LastSpawn, Says
<1>5. ASSUME d \in Entities(msgs), ~TellsGone(msgs, d) PROVE LastSpawn(msgs, d)
  BY <1>4, <1>5
<1> QED BY <1>1, <1>3, <1>4, <1>5

(* What is said by two lists. *)
LEMMA JoinRules ==
  ASSUME NEW a, IsSeq(a), NEW b, IsSeq(b), NEW d
  PROVE  /\ d \in Entities(a \o b) <=> d \in Entities(a) \/ d \in Entities(b)
         /\ TellsGone(a \o b, d) <=> TellsGone(a, d) \/ TellsGone(b, d)
         /\ d \notin Entities(b) => (LastSpawn(a \o b, d) <=> LastSpawn(a, d))
         /\ \A k \in Nat : SaysAfter(a, k, d) => SaysAfter(a \o b, k, d)
         /\ \A k \in Nat : k <= Len(a) /\ d \in Entities(b) => SaysAfter(a \o b, k, d)
         /\ \A k \in Nat : d \notin Entities(b) => (SaysAfter(a \o b, k, d) <=> SaysAfter(a, k, d))
<1>1. PICK s, k, l : Joins(s, k, l, a, b) /\ k = Len(a)
  BY JoinsFacts
<1>2. /\ k \in Nat /\ l \in Nat /\ s = a \o b
      /\ DOMAIN a = 1 .. k /\ DOMAIN b = 1 .. l /\ DOMAIN s = 1 .. k + l
      /\ \A i \in 1 .. k : s[i] = a[i]
      /\ \A i \in 1 .. l : s[k + i] = b[i]
      /\ \A i \in 1 .. k + l : i \in 1 .. k \/ \E j \in 1 .. l : i = k + j
  BY <1>1, Zenon DEF Joins
<1>3. /\ \A i \in 1 .. k : i \in 1 .. k + l /\ i \in Nat
      /\ \A i \in 1 .. l : k + i \in 1 .. k + l /\ k + i \in Nat /\ k + i > k
  BY <1>2
<1>4. \A m : m \in DOMAIN s => (m \in DOMAIN a /\ s[m] = a[m]) \/ \E j \in DOMAIN b : m = k + j /\ s[m] = b[j]
  BY <1>2
<1>5. \A m \in DOMAIN a : m \in DOMAIN s /\ s[m] = a[m]
  BY <1>2, <1>3
<1>6. \A j \in DOMAIN b : k + j \in DOMAIN s /\ s[k + j] = b[j]
  BY <1>2, <1>3
<1>7. /\ d \in Entities(s) <=> \E i \in DOMAIN s : Says(s[i], d)
      /\ d \in Entities(a) <=> \E i \in DOMAIN a : Says(a[i], d)
      /\ d \in Entities(b) <=> \E i \in DOMAIN b : Says(b[i], d)
  BY EntitiesRule
<1>8. d \in Entities(s) <=> d \in Entities(a) \/ d \in Entities(b)
  BY <1>4, <1>5, <1>6, <1>7, Zenon
<1>9. TellsGone(s, d) <=> TellsGone(a, d) \/ TellsGone(b, d)
  BY <1>4, <1>5, <1>6, Zenon DEF TellsGone
<1>10. d \notin Entities(b) => \A j \in DOMAIN b : ~Comes(b[j], d) /\ ~Goes(b[j], d)
  BY <1>7, Zenon DEF Says
<1>11. d \notin Entities(b) => (LastSpawn(s, d) <=> LastSpawn(a, d))
  BY <1>4, <1>5, <1>10, Zenon DEF LastSpawn
<1>12. ASSUME NEW n \in Nat
       PROVE  /\ SaysAfter(a, n, d) => SaysAfter(s, n, d)
              /\ n <= k /\ d \in Entities(b) => SaysAfter(s, n, d)
              /\ d \notin Entities(b) => (SaysAfter(s, n, d) <=> SaysAfter(a, n, d))
  <2>1. SaysAfter(a, n, d) => SaysAfter(s, n, d)
    BY <1>5, Zenon DEF SaysAfter
  <2>2. ASSUME n <= k, d \in Entities(b) PROVE SaysAfter(s, n, d)
    <3>1. PICK j \in DOMAIN b : Says(b[j], d)
      BY <1>7, <2>2
    <3>2. k + j > n
      BY <1>2, <1>3, <2>2
    <3> QED BY <1>6, <3>1, <3>2 DEF SaysAfter
  <2>3. d \notin Entities(b) /\ SaysAfter(s, n, d) => SaysAfter(a, n, d)
    BY <1>4, <1>10, Zenon DEF SaysAfter, Says
  <2> QED BY <2>1, <2>2, <2>3
<1> QED BY <1>1, <1>2, <1>8, <1>9, <1>11, <1>12

(* Whoever is told of last as gone is not shown again. *)
LEMMA GoneLast ==
  ASSUME NEW a, IsSeq(a), NEW d
  PROVE  ~LastSpawn(a \o Messages(<<"ChatMessage", "DestroyEntity">>, d), d)
<1>1. PICK b : b = Messages(<<"ChatMessage", "DestroyEntity">>, d)
  OBVIOUS
<1>2. /\ IsSeq(b) /\ DOMAIN b = 1 .. 2
      /\ b[1] = Message("ChatMessage", d) /\ b[2] = Message("DestroyEntity", d)
  <2>1. PICK kinds : kinds = <<"ChatMessage", "DestroyEntity">>
    OBVIOUS
  <2>2. DOMAIN kinds = 1 .. 2 /\ kinds[1] = "ChatMessage" /\ kinds[2] = "DestroyEntity"
    BY <2>1
  <2>3. b = [i \in 1 .. 2 |-> Message(kinds[i], d)]
    BY <1>1, <2>1, <2>2 DEF Messages
  <2>4. b \in Seq({b[1], b[2]})
    BY <2>3
  <2>5. DOMAIN b = 1 .. 2 /\ b[1] = Message("ChatMessage", d) /\ b[2] = Message("DestroyEntity", d)
    BY <2>2, <2>3
  <2>6. IsSeq(b)
    BY <2>4 DEF IsSeq
  <2> QED BY <2>5, <2>6
<1>3. ~Comes(b[1], d) /\ ~Comes(b[2], d) /\ Goes(b[2], d)
  BY <1>2 DEF Comes, Goes, Message
<1>4. PICK s, k, l : Joins(s, k, l, a, b)
  BY <1>2, JoinsFacts
<1>5. /\ k \in Nat /\ l \in Nat /\ s = a \o b
      /\ DOMAIN a = 1 .. k /\ DOMAIN b = 1 .. l /\ DOMAIN s = 1 .. k + l
      /\ \A i \in 1 .. l : s[k + i] = b[i]
      /\ \A i \in 1 .. k + l : i \in 1 .. k \/ \E j \in 1 .. l : i = k + j
  BY <1>4, Zenon DEF Joins
<1>6. l = 2
  BY <1>2, <1>5
<1>7. k + 2 \in DOMAIN s /\ Goes(s[k + 2], d)
  BY <1>3, <1>5, <1>6
<1>8. ASSUME NEW i \in DOMAIN s, Comes(s[i], d)
      PROVE  k + 2 > i
  <2>1. i \in 1 .. k \/ i = k + 1 \/ i = k + 2
    BY <1>5, <1>6
  <2>2. i # k + 2
    BY <1>3, <1>5, <1>6, <1>8
  <2> QED BY <1>5, <2>1, <2>2
<1> QED BY <1>1, <1>5, <1>7, <1>8 DEF LastSpawn

-----------------------------------------------------------------------------
(* What a client shows when it has got what is in its response. *)

Said(batches) == [i \in DOMAIN batches |-> batches[i].msgs]
SeesIn(seen, batches) == Shows(seen, FlattenSeq(Said(batches)))
Worded(batches) == IsSeq(batches) /\ \E A : Said(batches) \in Seq(Seq(A))

(* Lists put one after the other, as the library does. *)
Flattens(g, M, n, A) ==
  g[0] = <<>> /\ \A i \in 1 .. n : g[i] = g[i - 1] \o M[i] /\ g[i - 1] \in Seq(A)

LEMMA FlatSteps ==
  ASSUME NEW A, NEW M \in Seq(Seq(A)), NEW n, n = Len(M)
  PROVE  \E g : Flattens(g, M, n, A) /\ FlattenSeq(M) = g[n] /\ g[n] \in Seq(A)
<1>0. n \in Nat /\ DOMAIN M = 1 .. n /\ \A i \in 1 .. n : M[i] \in Seq(A)
  OBVIOUS
<1>1. PICK X, e : X = Seq(A) /\ e = <<>> /\ e \in X
  <2>1. <<>> \in Seq(A)
    OBVIOUS
  <2> QED BY <2>1
<1>2. PICK step : step = [i \in 1 .. n |-> [s \in X |-> s \o M[i]]]
  OBVIOUS
<1>3. Steps(step, n, X)
  <2>1. ASSUME NEW i \in 1 .. n, NEW s \in X PROVE s \o M[i] \in X
    BY <1>0, <1>1, ConcatProperties
  <2> QED BY <1>2, <2>1 DEF Steps
<1>4. PICK g : Iterates(g, n, X, e, step)
  BY <1>0, <1>1, <1>3, Iteration
<1>5. g \in [0 .. n -> X] /\ g[0] = e /\ \A i \in 1 .. n : g[i] = step[i][g[i - 1]]
  BY <1>4 DEF Iterates
<1>6. ASSUME NEW i \in 1 .. n PROVE g[i] = g[i - 1] \o M[i] /\ g[i - 1] \in X
  <2>1. i - 1 \in 0 .. n
    BY <1>0
  <2> QED BY <1>2, <1>5, <2>1
<1>7. Flattens(g, M, n, A)
  BY <1>1, <1>5, <1>6 DEF Flattens
<1>8. g[n] \in X
  BY <1>0, <1>5
<1>9. FlattenSeq(M) = g[n]
  <2>1. CASE n = 0
    <3>1. M = <<>>
      BY <2>1, EmptySeq
    <3>2. FlattenSeq(M) = M
      BY <2>1 DEF FlattenSeq
    <3> QED BY <1>1, <1>5, <2>1, <3>1, <3>2
  <2>2. CASE n # 0
    <3> DEFINE body(f) == [i \in 1 .. Len(M) |-> IF i = 1 THEN M[i] ELSE f[i - 1] \o M[i]]
    <3>1. PICK f : f = CHOOSE h : h = body(h)
      OBVIOUS
    <3>2. FlattenSeq(M) = f[Len(M)]
      BY <2>2, <3>1, Zenon DEF FlattenSeq
    <3>3. PICK h : h = [i \in 1 .. n |-> g[i]]
      OBVIOUS
    <3>4. ASSUME NEW i \in 1 .. n PROVE h[i] = IF i = 1 THEN M[i] ELSE h[i - 1] \o M[i]
      <4>1. CASE i = 1
        <5>0. i - 1 = 0
          BY <4>1
        <5>1. g[1] = e \o M[1] /\ M[1] \in Seq(A)
          BY <1>0, <1>5, <1>6, <4>1, <5>0
        <5>2. e \o M[1] = M[1]
          BY <1>1, <5>1, ConcatEmptySeq
        <5> QED BY <3>3, <4>1, <5>1, <5>2
      <4>2. CASE i # 1
        <5>1. i - 1 \in 1 .. n
          BY <1>0, <4>2
        <5> QED BY <1>6, <3>3, <4>2, <5>1
      <4> QED BY <4>1, <4>2
    <3>5. h = body(h)
      BY <3>3, <3>4
    <3>6. f = body(f)
      <4> HIDE DEF body
      <4> QED BY <3>1, <3>5
    <3>7. \A i \in 1 .. n : f[i] = IF i = 1 THEN M[i] ELSE f[i - 1] \o M[i]
      BY <3>6
    <3> HIDE DEF body
    <3> DEFINE S == {k \in 0 .. n : k # 0 => f[k] = h[k]}
    <3>8. 0 \in S
      BY <1>0
    <3>9. ASSUME NEW k \in 1 .. n, k - 1 \in S PROVE k \in S
      <4>1. k \in 0 .. n /\ (k # 1 => k - 1 # 0)
        BY <1>0
      <4>2. f[k] = h[k]
        BY <3>4, <3>7, <3>9, <4>1
      <4> QED BY <4>1, <4>2
    <3>10. 0 .. n \subseteq S
      <4> HIDE DEF S
      <4> QED BY <1>0, <3>8, <3>9, UpTo
    <3>11. n \in 0 .. n /\ n \in 1 .. n
      BY <1>0, <2>2
    <3>12. f[n] = h[n]
      BY <2>2, <3>10, <3>11
    <3> QED BY <3>2, <3>3, <3>11, <3>12
  <2> QED BY <2>1, <2>2
<1> QED BY <1>1, <1>7, <1>8, <1>9

LEMMA FlatOnce ==
  ASSUME NEW n \in Nat, NEW M, NEW A, NEW g, Flattens(g, M, n, A), NEW h, Flattens(h, M, n, A)
  PROVE  g[n] = h[n]
<1> USE DEF Flattens
<1> DEFINE S == {k \in 0 .. n : g[k] = h[k]}
<1>1. 0 \in S
  OBVIOUS
<1>2. ASSUME NEW k \in 1 .. n, k - 1 \in S PROVE k \in S
  <2>1. k \in 0 .. n /\ g[k - 1] = h[k - 1]
    BY <1>2
  <2>2. g[k] = g[k - 1] \o M[k] /\ h[k] = h[k - 1] \o M[k]
    OBVIOUS
  <2> QED BY <2>1, <2>2
<1>3. 0 .. n \subseteq S
  <2> HIDE DEF S
  <2> QED BY <1>1, <1>2, UpTo
<1> QED BY <1>3

LEMMA FlatAppend ==
  ASSUME NEW A, NEW M \in Seq(Seq(A)), NEW m \in Seq(A)
  PROVE  FlattenSeq(Append(M, m)) = FlattenSeq(M) \o m /\ FlattenSeq(M) \in Seq(A)
<1>1. PICK B, n, L : B = Seq(A) /\ n = Len(M) /\ L = Append(M, m)
  OBVIOUS
<1>2. n \in Nat /\ M \in Seq(B) /\ m \in B
  BY <1>1
<1>3. /\ L \in Seq(B) /\ Len(L) = n + 1 /\ L[n + 1] = m
      /\ \A i \in 1 .. n : L[i] = M[i]
  BY <1>1, <1>2, AppendProperties
<1>4. PICK g : Flattens(g, M, n, A) /\ FlattenSeq(M) = g[n] /\ g[n] \in Seq(A)
  BY <1>1, FlatSteps
<1>5. PICK h : Flattens(h, L, n + 1, A) /\ FlattenSeq(L) = h[n + 1]
  <2>1. PICK N : N = n + 1 /\ N = Len(L)
    BY <1>3
  <2>2. L \in Seq(Seq(A))
    BY <1>1, <1>3
  <2>3. \E h : Flattens(h, L, N, A) /\ FlattenSeq(L) = h[N]
    BY <2>1, <2>2, FlatSteps
  <2> QED BY <2>1, <2>3
<1>6. Flattens(h, M, n, A)
  <2>1. \A i \in 1 .. n : i \in 1 .. n + 1 /\ L[i] = M[i]
    BY <1>2, <1>3
  <2> QED BY <1>5, <2>1 DEF Flattens
<1>7. h[n] = g[n]
  BY <1>2, <1>4, <1>6, FlatOnce
<1>8. h[n + 1] = h[n] \o m
  <2>1. n + 1 \in 1 .. n + 1 /\ (n + 1) - 1 = n
    BY <1>2
  <2>2. h[n + 1] = h[(n + 1) - 1] \o L[n + 1]
    BY <1>5, <2>1 DEF Flattens
  <2> QED BY <1>3, <2>1, <2>2
<1> QED BY <1>1, <1>4, <1>5, <1>7, <1>8

LEMMA SeesNil ==
  ASSUME NEW seen
  PROVE  Worded(<<>>) /\ SeesIn(seen, <<>>) = seen
<1>1. PICK e : e = <<>> /\ e \in Seq(Seq({})) /\ IsSeq(e) /\ DOMAIN e = {}
  <2>1. <<>> \in Seq(Seq({}))
    OBVIOUS
  <2> QED BY <2>1, NilFacts
<1>2. Said(e) = e
  BY <1>1 DEF Said
<1>3. FlattenSeq(e) = e
  <2>1. Len(e) = 0
    BY <1>1
  <2> QED BY <2>1 DEF FlattenSeq
<1>4. Shows(seen, e) = seen
  BY <1>1, ShowsNil
<1> QED BY <1>1, <1>2, <1>3, <1>4 DEF Worded, SeesIn

LEMMA SeesAppend ==
  ASSUME NEW seen, NEW batches, Worded(batches), NEW b, IsSeq(b.msgs)
  PROVE  /\ Worded(Append(batches, b))
         /\ SeesIn(seen, Append(batches, b)) = Shows(SeesIn(seen, batches), b.msgs)
<1>1. PICK S, A : batches \in Seq(S) /\ Said(batches) \in Seq(Seq(A))
  BY DEF Worded, IsSeq
<1>2. PICK B : b.msgs \in Seq(B)
  BY DEF IsSeq
<1>3. PICK C, T : C = A \cup B /\ T = S \cup {b}
  OBVIOUS
<1>4. b.msgs \in Seq(C) /\ Seq(A) \subseteq Seq(C)
  BY <1>2, <1>3, SeqMonotonic
<1>5. Said(batches) \in Seq(Seq(C))
  BY <1>1, <1>4, SeqMonotonic
<1>6. batches \in Seq(T) /\ b \in T
  BY <1>1, <1>3, SeqMonotonic
<1>7. PICK n, L : n = Len(batches) /\ L = Append(batches, b)
  OBVIOUS
<1>8. /\ n \in Nat /\ DOMAIN batches = 1 .. n
      /\ L \in Seq(T) /\ DOMAIN L = 1 .. n + 1 /\ L[n + 1] = b
      /\ \A i \in 1 .. n : L[i] = batches[i]
  <2>1. n \in Nat /\ DOMAIN batches = 1 .. n
    BY <1>1, <1>7, LenProperties
  <2> QED BY <1>6, <1>7, <2>1, AppendProperties
<1>9. PICK M, D, m : M = Said(batches) /\ D = Seq(C) /\ m = b.msgs
  OBVIOUS
<1>10. M \in Seq(D) /\ m \in D /\ DOMAIN M = 1 .. n /\ Len(M) = n
  <2>1. DOMAIN M = 1 .. n
    BY <1>8, <1>9 DEF Said
  <2> QED BY <1>4, <1>5, <1>8, <1>9, <2>1
<1>11. /\ Append(M, m) \in Seq(D) /\ DOMAIN Append(M, m) = 1 .. n + 1
       /\ Append(M, m)[n + 1] = m /\ \A i \in 1 .. n : Append(M, m)[i] = M[i]
  BY <1>10, AppendProperties
<1>12. Said(L) = Append(M, m)
  <2>1. DOMAIN Said(L) = 1 .. n + 1
    BY <1>8 DEF Said
  <2>2. ASSUME NEW i \in 1 .. n + 1 PROVE Said(L)[i] = Append(M, m)[i]
    <3>1. i \in 1 .. n \/ i = n + 1
      BY <1>8
    <3>2. Said(L)[i] = L[i].msgs
      BY <1>8 DEF Said
    <3>3. CASE i \in 1 .. n
      <4>1. M[i] = batches[i].msgs
        BY <1>8, <1>9, <3>3 DEF Said
      <4> QED BY <1>8, <1>11, <3>2, <3>3, <4>1
    <3>4. CASE i = n + 1
      BY <1>8, <1>9, <1>11, <3>2, <3>4
    <3> QED BY <3>1, <3>3, <3>4
  <2>3. PICK P : P = Append(M, m)
    OBVIOUS
  <2>4. P = [i \in 1 .. n + 1 |-> P[i]]
    <3>1. P \in [1 .. Len(P) -> D]
      BY <1>11, <2>3, LenProperties
    <3>2. 1 .. Len(P) = 1 .. n + 1
      BY <1>11, <2>3, <3>1
    <3> QED BY <3>1, <3>2
  <2>5. Said(L) = [i \in 1 .. n + 1 |-> Said(L)[i]]
    BY <2>1 DEF Said
  <2>6. \A i \in 1 .. n + 1 : Said(L)[i] = P[i]
    BY <2>2, <2>3
  <2>7. Said(L) = P
    BY <2>4, <2>5, <2>6
  <2> QED BY <2>3, <2>7
<1>13. FlattenSeq(Append(M, m)) = FlattenSeq(M) \o m /\ FlattenSeq(M) \in Seq(C)
  BY <1>4, <1>5, <1>9, FlatAppend
<1>14. PICK F : F = FlattenSeq(M) /\ IsSeq(F)
  BY <1>13 DEF IsSeq
<1>15. Shows(seen, F \o m) = Shows(Shows(seen, F), m)
  BY <1>9, <1>14, ShowsJoin
<1>16. SeesIn(seen, L) = Shows(SeesIn(seen, batches), m)
  BY <1>9, <1>12, <1>13, <1>14, <1>15 DEF SeesIn
<1>17. Worded(L)
  <2>1. IsSeq(L)
    BY <1>8 DEF IsSeq
  <2>2. Said(L) \in Seq(Seq(C))
    BY <1>9, <1>11, <1>12
  <2> QED BY <2>1, <2>2 DEF Worded
<1> QED BY <1>7, <1>9, <1>16, <1>17

-----------------------------------------------------------------------------
(* Tasks that a screen can tell. *)

OthersBuffer(d) == <<d, "others">>
SpawnWords(d) == <<Message("NamedEntitySpawn", d)>>
GoneWords(d) == Messages(<<"ChatMessage", "DestroyEntity">>, d)

Wordy(x) == Entities(x.msgs) # {}
PutsSpawn(x, d) == x.do = "put" /\ x.buf = OthersBuffer(d) /\ x.msgs = SpawnWords(d)
PutsGone(x, d) == x.do = "put" /\ x.buf = OthersBuffer(d) /\ x.msgs = GoneWords(d)
Orders(x, d) == x.do = "status" /\ x.who = d /\ x.list = <<Disconnected>>
LogsIn(x) == x.do = "status" /\ x.list = <<Connected>>
Writes(x) == x.do \in {"write", "wrote"}
Carries(x, b) == x.do \in {"broadcast", "deliver"} /\ x.buf = b
Pings(x) == x.do = "packet" /\ x.msgs[1].kind = "LegacyPing"
Light(x) == ~LogsIn(x) /\ x.do # "list" /\ (x.do \in {"put", "write", "wrote"} => ~Wordy(x))
Grave(x) == x.do \in {"status", "close"} \/ ~Light(x)

(* Whether any of the tasks in T does this. *)
HasLogin(T) == \E x \in T : LogsIn(x)
HasPing(T) == \E x \in T : Pings(x)
Has(T, do) == \E x \in T : x.do = do
Moving(T, c) == \E x \in T : x.do = "status" /\ x.who = c
Spawning(T, d) == \E x \in T : PutsSpawn(x, d)
Going(T, d) == \E x \in T : PutsGone(x, d)
Writing(T, d) == \E x \in T : Writes(x) /\ d \in Entities(x.msgs)
Carrying(T, b) == \E x \in T : Carries(x, b)
Ordering(T, d) == \E x \in T : Orders(x, d)

(* What thread t may have to do, by what comes later; known: whether it is  *)
(* the thread of a client with a player. *)
RightPacket(t, later) ==
  /\ t \in Clients
  /\ \A y \in later : ~Grave(y) /\ ~Pings(y)
  /\ Carrying(later, OthersBuffer(t))

RightStatus(t, known, x, later) ==
  \/ x.list = <<Disconnected>> /\ x.who \in Clients /\ ((x.who = t /\ ~known) \/ Going(later, x.who))
  \/ x.list = <<LoggingIn>> /\ x.who = t /\ t \in Clients /\ ~known /\ ~Has(later, "close")
  \/ x.list = <<Connected>> /\ x.who = t /\ t \in Clients /\ known
     /\ ~HasLogin(later) /\ ~Has(later, "close")

RightList(t, known, later) ==
  /\ t \in Clients /\ known
  /\ HasLogin(later)
  /\ ~Has(later, "list") /\ \A d : ~Writing(later, d)

RightPut(t, known, x, later) ==
  /\ IsSeq(x.msgs)
  /\ \/ ~Wordy(x)
     \/ \E d \in Clients : PutsGone(x, d) /\ Carrying(later, OthersBuffer(d))
     \/ t \in Clients /\ known /\ PutsSpawn(x, t) /\ Carrying(later, OthersBuffer(t)) /\ HasLogin(later)

RightWrite(t, known, x, later) ==
  /\ IsSeq(x.msgs)
  /\ \/ ~Wordy(x)
     \/ /\ t \in Clients /\ known
        /\ \A d : ~TellsGone(x.msgs, d)
        /\ HasLogin(later) /\ ~Has(later, "list")

Right(t, known, x, later) ==
  /\ x.do \in {"loop", "read", "close"} => later = {}
  /\ x.do = "packet" => RightPacket(t, later)
  /\ x.do = "status" => RightStatus(t, known, x, later)
  /\ x.do = "list" => RightList(t, known, later)
  /\ x.do = "put" => RightPut(t, known, x, later)
  /\ Writes(x) => RightWrite(t, known, x, later)
  /\ x.do \in {"broadcast", "deliver"} => x.buf \in Buffers /\ \A d : x.buf = OthersBuffer(d) => x.who = d
  /\ x.do = "append" => x.buf \in Buffers /\ (x.id = 0 => ~Wordy(x))

After(s, i) == {s[j] : j \in {k \in DOMAIN s : k > i}}

Fine(t, known, s, later) ==
  /\ IsSeq(s)
  /\ \A i \in DOMAIN s : Right(t, known, s[i], After(s, i) \cup later)

(* The broadcast under way, by the tasks of the holder of the mutex. *)
RoundOf(s) == IF Head(s).do = "append" THEN Head(Tail(s)) ELSE Head(s)
DueIn(s, c) == c \in ToSet(RoundOf(s).list) \/ (Head(s).do = "append" /\ Head(s).who = c)

-----------------------------------------------------------------------------
(* What is shown, and what is on its way. *)

HasPlayer(c) == person[c] = "player"
Known(t) == t \in Clients /\ HasPlayer(t)
Tasks(t) == ToSet(todo[t])
Sees(c) == SeesIn(screen[c], response[c])

Listens(c) == peer[c] = "open" /\ (status[c] = Connected \/ (HasLogin(Tasks(c)) /\ ~Has(Tasks(c), "list")))
Here(d) == status[d] = Connected \/ (status[d] # Disconnected /\ HasLogin(Tasks(d)))
Leaving(d) == \E t \in Threads : Going(Tasks(t), d)
Away(d) == status[d] = Disconnected /\ ~HasLogin(Tasks(d)) /\ ~Leaving(d)
News(d) == d \in Entities(buffer[OthersBuffer(d)])
Circles(d) == listMutex # Nobody /\ RoundOf(todo[listMutex]).buf = OthersBuffer(d)
Due(c, d) == Circles(d) => DueIn(todo[listMutex], c)
Late(d) == Circles(d) /\ SaysAfter(buffer[OthersBuffer(d)], Len(RoundOf(todo[listMutex]).msgs), d)
Target(c) == listMutex # Nobody /\ Head(todo[listMutex]).do = "append" /\ Head(todo[listMutex]).who = c

Types ==
  /\ status \in [Clients -> 0 .. 3]
  /\ person \in [Clients -> {"none", "named", "player"}]
  /\ peer \in [Clients -> {"open", "closed", "reset"}]
  /\ screen = [c \in Clients |-> screen[c]] /\ blurred = [c \in Clients |-> blurred[c]]
  /\ buffer = [b \in Buffers |-> buffer[b]]
  /\ \A b \in Buffers : IsSeq(buffer[b]) /\ \A e \in Entities(buffer[b]) : b = OthersBuffer(e)
  /\ \A c \in Clients : Worded(response[c])

Rounds ==
  listMutex # Nobody =>
    /\ Head(todo[listMutex]).do = "append" => Head(todo[listMutex]).buf = RoundOf(todo[listMutex]).buf
    /\ Len(RoundOf(todo[listMutex]).msgs) \in Nat
    /\ Len(RoundOf(todo[listMutex]).msgs) <= Len(buffer[RoundOf(todo[listMutex]).buf])

AllFine == \A t \in Threads : Fine(t, Known(t), todo[t], {})

(* How far a client is. *)
Settled(c) ==
  /\ HasPlayer(c) /\ status[c] \in {Connected, Disconnected}
  /\ \A x \in Tasks(c) : x.do = "status" => x.list = <<Disconnected>>

Progress(c) ==
  /\ status[c] = Connected \/ Target(c) => Settled(c)
  /\ HasPlayer(c) /\ status[c] \notin {Connected, Disconnected} => Moving(Tasks(c), c)
  /\ status[c] # Disconnected \/ todo[c] # <<>> => c \in ToSet(connected)
  /\ Has(Tasks(c), "close") => status[c] = Disconnected
  /\ peer[c] = "open" /\ (~HasPlayer(c) \/ Has(Tasks(c), "list")) => Sees(c) = {}

(* A ping from the server list comes before the login or not at all. *)
Arrival(c) ==
  /\ stage[c] = "away" => todo[c] = <<>>
  /\ stage[c] \in {"away", "handshake"} => inbox[c] = <<>> /\ ~HasPlayer(c) /\ ~Has(Tasks(c), "packet")
  /\ \A i \in DOMAIN inbox[c] : inbox[c][i] = "LegacyPing" =>
       i = 1 /\ ~HasPlayer(c) /\ ~Has(Tasks(c), "packet")
  /\ HasPing(Tasks(c)) => ~HasPlayer(c)

(* Nobody has heard of a client without a player. *)
Unknown(d) ==
  ~HasPlayer(d) =>
    /\ \A c \in Clients : (peer[c] = "open" => d \notin Sees(c)) /\ ~Writing(Tasks(c), d)
    /\ ~News(d)
    /\ \A t \in Threads : ~Going(Tasks(t), d) /\ (t # d => ~Ordering(Tasks(t), d))

(* What is in a buffer is going to be broadcast. *)
Carried(d) == News(d) => \E t \in Threads : Carrying(Tasks(t), OthersBuffer(d))

(* Nobody is told that a client is gone before its status says so. *)
Untold(c, d) ==
  status[d] # Disconnected /\ d \notin blurred[c] =>
    /\ ~TellsGone(buffer[OthersBuffer(d)], d)
    /\ \A t \in Threads : Going(Tasks(t), d) => Orders(Head(todo[t]), d)

Shown(c, d) ==
  Listens(c) /\ c # d /\ d \notin blurred[c] /\ Here(d) =>
    \/ Spawning(Tasks(d), d) \/ Late(d) \/ Writing(Tasks(c), d)
    \/ Due(c, d) /\ News(d)
    \/ d \in Sees(c)

Hidden(c, d) ==
  d \notin blurred[c] /\ Away(d) =>
    /\ ~LastSpawn(buffer[OthersBuffer(d)], d)
    /\ Listens(c) /\ c # d =>
         \/ Late(d)
         \/ Due(c, d) /\ News(d)
         \/ d \notin Sees(c) /\ ~Writing(Tasks(c), d)

Told ==
  /\ \A d \in Clients : Unknown(d) /\ Carried(d)
  /\ \A c, d \in Clients : Untold(c, d) /\ Shown(c, d) /\ Hidden(c, d)

(* The invariant behind ScreensAgree, as long as the server lives. *)
Alive == Types /\ Rounds /\ AllFine /\ (\A c \in Clients : Progress(c) /\ Arrival(c)) /\ Told
SInv == dead = "no" => Alive

-----------------------------------------------------------------------------
(* Lists of tasks that are right. *)

LEMMA OthersBufferFacts ==
  /\ \A d \in Clients : OthersBuffer(d) \in Buffers
  /\ \A d, e : OthersBuffer(d) = OthersBuffer(e) => d = e
  /\ \A c, d : <<c, "all">> # OthersBuffer(d) /\ <<c, "now">> # OthersBuffer(d)
  /\ \A c \in Clients : <<c, "all">> \in Buffers
  /\ \A t \in Threads : <<t, "now">> \in Buffers
BY DEF OthersBuffer, Buffers

LEMMA AfterJoin ==
  ASSUME NEW a, IsSeq(a), NEW b, IsSeq(b)
  PROVE  \E s, k, l :
           /\ Joins(s, k, l, a, b)
           /\ \A i \in 1 .. k : After(s, i) = After(a, i) \cup ToSet(b)
           /\ \A i \in 1 .. l : After(s, k + i) = After(b, i)
<1>1. PICK s, k, l : Joins(s, k, l, a, b)
  BY JoinsFacts
<1>2. /\ k \in Nat /\ l \in Nat /\ s = a \o b
      /\ DOMAIN a = 1 .. k /\ DOMAIN b = 1 .. l /\ DOMAIN s = 1 .. k + l
      /\ \A i \in 1 .. k : s[i] = a[i]
      /\ \A i \in 1 .. l : s[k + i] = b[i]
      /\ \A i \in 1 .. k + l : i \in 1 .. k \/ \E j \in 1 .. l : i = k + j
  BY <1>1, Zenon DEF Joins
<1>3. /\ \A i \in 1 .. k : i \in 1 .. k + l
      /\ \A i \in 1 .. l : k + i \in 1 .. k + l
      /\ \A i \in 1 .. k, j \in 1 .. l : k + j > i /\ ~(i > k + j)
      /\ \A i, j \in 1 .. l : k + j > k + i <=> j > i
  BY <1>2
<1>4. \A x, i : x \in After(s, i) <=> \E j \in 1 .. k + l : j > i /\ x = s[j]
  BY <1>2 DEF After
<1>5. \A x, i : x \in After(a, i) <=> \E j \in 1 .. k : j > i /\ x = a[j]
  BY <1>2 DEF After
<1>6. \A x, i : x \in After(b, i) <=> \E j \in 1 .. l : j > i /\ x = b[j]
  BY <1>2 DEF After
<1>7. \A x : x \in ToSet(b) <=> \E j \in 1 .. l : x = b[j]
  BY <1>2 DEF ToSet
<1>8. ASSUME NEW i \in 1 .. k PROVE After(s, i) = After(a, i) \cup ToSet(b)
  <2>1. ASSUME NEW x, x \in After(s, i) PROVE x \in After(a, i) \/ x \in ToSet(b)
    <3>1. PICK j \in 1 .. k + l : j > i /\ x = s[j]
      BY <1>4, <2>1
    <3>2. CASE j \in 1 .. k
      BY <1>2, <1>5, <3>1, <3>2
    <3>3. CASE \E m \in 1 .. l : j = k + m
      BY <1>2, <1>7, <3>1, <3>3
    <3> QED BY <1>2, <3>2, <3>3
  <2>2. ASSUME NEW x, x \in After(a, i) PROVE x \in After(s, i)
    <3>1. PICK j \in 1 .. k : j > i /\ x = a[j]
      BY <1>5, <2>2
    <3> QED BY <1>2, <1>3, <1>4, <3>1
  <2>3. ASSUME NEW x \in ToSet(b) PROVE x \in After(s, i)
    <3>1. PICK j \in 1 .. l : x = b[j]
      BY <1>7
    <3>2. k + j \in 1 .. k + l /\ k + j > i /\ x = s[k + j]
      BY <1>2, <1>3, <3>1
    <3> QED BY <1>4, <3>2
  <2> QED BY <2>1, <2>2, <2>3
<1>9. ASSUME NEW i \in 1 .. l PROVE After(s, k + i) = After(b, i)
  <2>0. k + i > k
    BY <1>2
  <2>1. \A x : x \in After(s, k + i) => x \in After(b, i)
    <3> SUFFICES ASSUME NEW x, x \in After(s, k + i) PROVE x \in After(b, i)
      OBVIOUS
    <3>1. PICK j \in 1 .. k + l : j > k + i /\ x = s[j]
      BY <1>4
    <3>2. j \notin 1 .. k
      BY <1>2, <3>1
    <3>3. PICK m \in 1 .. l : j = k + m
      BY <1>2, <3>2
    <3> QED BY <1>2, <1>3, <1>6, <3>1, <3>3
  <2>2. ASSUME NEW x, x \in After(b, i) PROVE x \in After(s, k + i)
    <3>1. PICK j \in 1 .. l : j > i /\ x = b[j]
      BY <1>6, <2>2
    <3>2. k + j \in 1 .. k + l /\ k + j > k + i /\ x = s[k + j]
      BY <1>2, <1>3, <3>1
    <3> QED BY <1>4, <3>2
  <2> QED BY <2>1, <2>2
<1> QED BY <1>1, <1>8, <1>9

LEMMA FineNil ==
  ASSUME NEW t, NEW known, NEW later
  PROVE  Fine(t, known, <<>>, later)
BY NilFacts DEF Fine

LEMMA FineOne ==
  ASSUME NEW t, NEW known, NEW x, NEW later, Right(t, known, x, later)
  PROVE  Fine(t, known, <<x>>, later)
<1>1. PICK s : s = <<x>> /\ IsSeq(s) /\ DOMAIN s = {1} /\ s[1] = x
  BY OneFacts
<1>2. After(s, 1) = {}
  BY <1>1 DEF After
<1>3. After(s, 1) \cup later = later
  BY <1>2
<1> QED BY <1>1, <1>3 DEF Fine

LEMMA FineCat ==
  ASSUME NEW t, NEW known, NEW later, NEW a, NEW b,
         Fine(t, known, b, later), Fine(t, known, a, ToSet(b) \cup later)
  PROVE  Fine(t, known, a \o b, later)
<1>1. IsSeq(a) /\ IsSeq(b)
  BY DEF Fine
<1>2. PICK s, k, l :
        /\ Joins(s, k, l, a, b)
        /\ \A i \in 1 .. k : After(s, i) = After(a, i) \cup ToSet(b)
        /\ \A i \in 1 .. l : After(s, k + i) = After(b, i)
  BY <1>1, AfterJoin
<1>3. /\ k \in Nat /\ l \in Nat /\ s = a \o b
      /\ DOMAIN a = 1 .. k /\ DOMAIN b = 1 .. l /\ DOMAIN s = 1 .. k + l
      /\ \A i \in 1 .. k : s[i] = a[i]
      /\ \A i \in 1 .. l : s[k + i] = b[i]
      /\ \A i \in 1 .. k + l : i \in 1 .. k \/ \E j \in 1 .. l : i = k + j
  BY <1>2, Zenon DEF Joins
<1>4. ASSUME NEW i \in 1 .. k PROVE Right(t, known, s[i], After(s, i) \cup later)
  <2>1. After(s, i) \cup later = After(a, i) \cup (ToSet(b) \cup later)
    BY <1>2
  <2>2. Right(t, known, a[i], After(a, i) \cup (ToSet(b) \cup later))
    BY <1>3 DEF Fine
  <2> QED BY <1>3, <2>1, <2>2
<1>5. ASSUME NEW i \in 1 .. l PROVE Right(t, known, s[k + i], After(s, k + i) \cup later)
  BY <1>2, <1>3 DEF Fine
<1>6. \A i \in DOMAIN s : Right(t, known, s[i], After(s, i) \cup later)
  BY <1>3, <1>4, <1>5
<1>7. IsSeq(s)
  BY <1>1, <1>3, CatSet
<1> QED BY <1>3, <1>6, <1>7 DEF Fine

LEMMA FineTail ==
  ASSUME NEW t, NEW known, NEW s, Fine(t, known, s, {}), s # <<>>
  PROVE  /\ IsSeq(Tail(s)) /\ Fine(t, known, Tail(s), {})
         /\ Right(t, known, Head(s), ToSet(Tail(s)))
         /\ ToSet(s) = {Head(s)} \cup ToSet(Tail(s))
<1>1. IsSeq(s) /\ \A i \in DOMAIN s : Right(t, known, s[i], After(s, i) \cup {})
  BY DEF Fine
<1>2. PICK n, r : n = Len(s) /\ r = Tail(s)
  OBVIOUS
<1>3. /\ IsSeq(r) /\ n \in Nat \ {0} /\ Head(s) = s[1] /\ DOMAIN s = 1 .. n
      /\ DOMAIN r = 1 .. n - 1
      /\ \A i \in 1 .. n - 1 : r[i] = s[i + 1]
      /\ ToSet(s) = {Head(s)} \cup ToSet(r)
  BY <1>1, <1>2, TailFacts
<1>4. \A x, i : x \in After(s, i) <=> \E j \in 1 .. n : j > i /\ x = s[j]
  BY <1>3 DEF After
<1>5. \A x, i : x \in After(r, i) <=> \E j \in 1 .. n - 1 : j > i /\ x = r[j]
  BY <1>3 DEF After
<1>6. /\ \A j \in 1 .. n - 1 : j + 1 \in 1 .. n
      /\ \A i, j \in 1 .. n - 1 : j > i <=> j + 1 > i + 1
      /\ \A i \in 1 .. n - 1, j \in 1 .. n : j > i + 1 => j - 1 \in 1 .. n - 1 /\ (j - 1) + 1 = j
      /\ \A j \in 1 .. n : j > 1 => j - 1 \in 1 .. n - 1 /\ (j - 1) + 1 = j
      /\ \A j \in 1 .. n - 1 : j + 1 > 1
      /\ 1 \in 1 .. n
  BY <1>3
<1>7. ASSUME NEW i \in 1 .. n - 1 PROVE After(r, i) = After(s, i + 1)
  <2>1. ASSUME NEW x, x \in After(r, i) PROVE x \in After(s, i + 1)
    <3>1. PICK j \in 1 .. n - 1 : j > i /\ x = r[j]
      BY <1>5, <2>1
    <3>2. j + 1 \in 1 .. n /\ j + 1 > i + 1 /\ x = s[j + 1]
      BY <1>3, <1>6, <3>1
    <3> QED BY <1>4, <3>2
  <2>2. ASSUME NEW x, x \in After(s, i + 1) PROVE x \in After(r, i)
    <3>1. PICK j \in 1 .. n : j > i + 1 /\ x = s[j]
      BY <1>4, <2>2
    <3>2. j - 1 \in 1 .. n - 1 /\ (j - 1) + 1 = j
      BY <1>6, <3>1
    <3>3. r[j - 1] = s[j] /\ j - 1 > i
      BY <1>3, <1>6, <3>1, <3>2
    <3> QED BY <1>5, <3>1, <3>2, <3>3
  <2> QED BY <2>1, <2>2
<1>8. ToSet(r) = After(s, 1)
  <2>1. \A x : x \in ToSet(r) => x \in After(s, 1)
    <3> SUFFICES ASSUME NEW x \in ToSet(r) PROVE x \in After(s, 1)
      OBVIOUS
    <3>1. PICK j \in 1 .. n - 1 : x = r[j]
      BY <1>3 DEF ToSet
    <3> QED BY <1>3, <1>4, <1>6, <3>1
  <2>2. \A x : x \in After(s, 1) => x \in ToSet(r)
    <3> SUFFICES ASSUME NEW x, x \in After(s, 1) PROVE x \in ToSet(r)
      OBVIOUS
    <3>1. PICK j \in 1 .. n : j > 1 /\ x = s[j]
      BY <1>4
    <3>2. j - 1 \in DOMAIN r /\ r[j - 1] = x
      BY <1>3, <1>6, <3>1
    <3> QED BY <3>2 DEF ToSet
  <2> QED BY <2>1, <2>2
<1>9. Right(t, known, Head(s), ToSet(r))
  <2>1. After(s, 1) \cup {} = After(s, 1) /\ 1 \in DOMAIN s
    BY <1>3, <1>6
  <2> QED BY <1>1, <1>3, <1>8, <2>1
<1>10. ASSUME NEW i \in DOMAIN r PROVE Right(t, known, r[i], After(r, i) \cup {})
  BY <1>1, <1>3, <1>6, <1>7
<1> QED BY <1>2, <1>3, <1>9, <1>10 DEF Fine

(* Whether a client has a player matters to grave tasks only. *)
LEMMA RightRekey ==
  ASSUME NEW t, NEW known, NEW other, NEW x, NEW later, Right(t, known, x, later), ~Grave(x)
  PROVE  Right(t, other, x, later)
<1>1. ~Wordy(x) \/ x.do \notin {"put", "write", "wrote"}
  BY DEF Grave, Light
<1>2. x.do # "status" /\ x.do # "list"
  BY DEF Grave, Light
<1> QED BY <1>1, <1>2 DEF Right, RightPut, RightWrite, Writes

LEMMA FineRekey ==
  ASSUME NEW t, NEW known, NEW other, NEW s, NEW later, Fine(t, known, s, later),
         \A x \in ToSet(s) : ~Grave(x)
  PROVE  Fine(t, other, s, later)
<1>1. \A i \in DOMAIN s : ~Grave(s[i])
  BY DEF ToSet
<1>2. \A i \in DOMAIN s : Right(t, other, s[i], After(s, i) \cup later)
  BY <1>1, RightRekey DEF Fine
<1> QED BY <1>2 DEF Fine

(* Packets that are dropped leave no gap. *)
LEMMA FineDrop ==
  ASSUME NEW t, NEW known, NEW s, Fine(t, known, s, {}), NEW n \in DOMAIN s
  PROVE  /\ Fine(t, known, SubSeq(s, n, Len(s)), {})
         /\ \A x : x \in ToSet(SubSeq(s, n, Len(s))) <=> \E i \in DOMAIN s : n <= i /\ x = s[i]
<1>1. PICK S : s \in Seq(S)
  BY DEF Fine, IsSeq
<1>2. PICK N, r : N = Len(s) /\ r = SubSeq(s, n, N)
  OBVIOUS
<1>3. N \in Nat /\ DOMAIN s = 1 .. N /\ n \in 1 .. N
  BY <1>1, <1>2, LenProperties
<1>4. /\ r \in Seq(S) /\ DOMAIN r = 1 .. N - n + 1
      /\ \A i \in 1 .. N - n + 1 : r[i] = s[n + i - 1]
  <2>1. \A i \in n .. N : s[i] \in S
    BY <1>1, <1>2, <1>3
  <2> QED BY <1>1, <1>2, <1>3, <2>1, SubSeqProperties
<1>5. /\ \A i \in 1 .. N - n + 1 : n + i - 1 \in 1 .. N /\ n <= n + i - 1
      /\ \A i \in 1 .. N : n <= i => i - n + 1 \in 1 .. N - n + 1 /\ n + (i - n + 1) - 1 = i
      /\ \A i, j \in 1 .. N - n + 1 : j > i <=> n + j - 1 > n + i - 1
  BY <1>3
<1>6. ASSUME NEW i \in 1 .. N - n + 1 PROVE After(r, i) = After(s, n + i - 1)
  <2>1. ASSUME NEW x, x \in After(r, i) PROVE x \in After(s, n + i - 1)
    <3>1. PICK j \in 1 .. N - n + 1 : j > i /\ x = r[j]
      BY <1>4, <2>1 DEF After
    <3> QED BY <1>3, <1>4, <1>5, <3>1 DEF After
  <2>2. ASSUME NEW x, x \in After(s, n + i - 1) PROVE x \in After(r, i)
    <3>1. PICK j \in 1 .. N : j > n + i - 1 /\ x = s[j]
      BY <1>3, <2>2 DEF After
    <3>2. n <= j /\ j - n + 1 > i
      BY <1>3, <3>1
    <3>3. j - n + 1 \in 1 .. N - n + 1 /\ r[j - n + 1] = s[j]
      BY <1>4, <1>5, <3>2
    <3> QED BY <1>4, <3>1, <3>2, <3>3 DEF After
  <2> QED BY <2>1, <2>2
<1>7. ASSUME NEW i \in DOMAIN r PROVE Right(t, known, r[i], After(r, i) \cup {})
  <2>1. Right(t, known, s[n + i - 1], After(s, n + i - 1) \cup {})
    BY <1>3, <1>4, <1>5 DEF Fine
  <2> QED BY <1>4, <1>6, <2>1
<1>8. ASSUME NEW x PROVE x \in ToSet(r) <=> \E i \in DOMAIN s : n <= i /\ x = s[i]
  <2>1. x \in ToSet(r) <=> \E i \in 1 .. N - n + 1 : x = r[i]
    BY <1>4 DEF ToSet
  <2>2. ASSUME NEW i \in 1 .. N - n + 1, x = r[i] PROVE \E j \in 1 .. N : n <= j /\ x = s[j]
    BY <1>4, <1>5, <2>2
  <2>3. ASSUME NEW i \in 1 .. N, n <= i, x = s[i] PROVE \E j \in 1 .. N - n + 1 : x = r[j]
    <3>1. i - n + 1 \in 1 .. N - n + 1 /\ r[i - n + 1] = s[i]
      BY <1>4, <1>5, <2>3
    <3> QED BY <2>3, <3>1
  <2> QED BY <1>3, <2>1, <2>2, <2>3
<1> QED BY <1>2, <1>4, <1>7, <1>8 DEF Fine, IsSeq

-----------------------------------------------------------------------------
(* What the tasks of the handlers are. *)

LEMMA Statuses ==
  /\ <<Disconnected>> # <<Connected>> /\ <<Disconnected>> # <<LoggingIn>> /\ <<LoggingIn>> # <<Connected>>
  /\ <<Disconnected>>[1] = Disconnected /\ <<LoggingIn>>[1] = LoggingIn /\ <<Connected>>[1] = Connected
  /\ Disconnected # Connected /\ LoggingIn # Connected /\ LoggingIn # Disconnected
  /\ Handshake # Connected /\ Handshake # Disconnected /\ Handshake # LoggingIn
  /\ {Disconnected, Handshake, LoggingIn, Connected} = 0 .. 3
<1>1. Disconnected = 0 /\ Handshake = 1 /\ LoggingIn = 2 /\ Connected = 3
  BY DEF Disconnected, Handshake, LoggingIn, Connected
<1>2. \A i, j : <<i>>[1] = i /\ (i # j => <<i>> # <<j>>)
  OBVIOUS
<1> QED BY <1>1, <1>2

LEMMA Constructors ==
  /\ \A c, new : \E x : SetStatus(c, new) = <<x>> /\ x.do = "status" /\ x.who = c /\ x.list = <<new>>
  /\ \A c : \E x : SendResponse(c) = <<x>> /\ x.do = "send"
  /\ \A b, s : \E x : Broadcast(b, s) = <<x>> /\ x.do = "broadcast" /\ x.buf = b /\ x.who = s
  /\ \A m : \E x : Write(m) = <<x>> /\ x.do = "write" /\ x.msgs = m
  /\ \A b, m : m # <<>> => \E x : Put(b, m) = <<x>> /\ x.do = "put" /\ x.buf = b /\ x.msgs = m
  /\ \A b : Put(b, <<>>) = <<>>
  /\ \A c, m : m # <<>> => \E x : /\ AppendResponse(c, m) = <<x>>
                                  /\ x.do = "append" /\ x.buf = <<Main, "now">> /\ x.msgs = m /\ x.id = 0
  /\ \A c : AppendResponse(c, <<>>) = <<>>
  /\ \A do : Task(do).do = do /\ Task(do).msgs = <<>> /\ Task(do).id = 0
<1>1. ASSUME NEW c, NEW new
      PROVE  \E x : SetStatus(c, new) = <<x>> /\ x.do = "status" /\ x.who = c /\ x.list = <<new>>
  <2>1. PICK x : x = [Task("status") EXCEPT !.who = c, !.list = <<new>>]
    OBVIOUS
  <2>2. x.do = "status" /\ x.who = c /\ x.list = <<new>>
    BY <2>1 DEF Task
  <2> QED BY <2>1, <2>2 DEF SetStatus
<1>2. ASSUME NEW c PROVE \E x : SendResponse(c) = <<x>> /\ x.do = "send"
  <2>1. PICK x : x = [Task("send") EXCEPT !.who = c]
    OBVIOUS
  <2>2. x.do = "send"
    BY <2>1 DEF Task
  <2> QED BY <2>1, <2>2 DEF SendResponse
<1>3. ASSUME NEW b, NEW s
      PROVE  \E x : Broadcast(b, s) = <<x>> /\ x.do = "broadcast" /\ x.buf = b /\ x.who = s
  <2>1. PICK x : x = [Task("broadcast") EXCEPT !.buf = b, !.who = s]
    OBVIOUS
  <2>2. x.do = "broadcast" /\ x.buf = b /\ x.who = s
    BY <2>1 DEF Task
  <2> QED BY <2>1, <2>2 DEF Broadcast
<1>4. ASSUME NEW m PROVE \E x : Write(m) = <<x>> /\ x.do = "write" /\ x.msgs = m
  <2>1. PICK x : x = [Task("write") EXCEPT !.msgs = m]
    OBVIOUS
  <2>2. x.do = "write" /\ x.msgs = m
    BY <2>1 DEF Task
  <2> QED BY <2>1, <2>2 DEF Write
<1>5. ASSUME NEW b, NEW m, m # <<>>
      PROVE  \E x : Put(b, m) = <<x>> /\ x.do = "put" /\ x.buf = b /\ x.msgs = m
  <2>1. PICK x : x = [Task("put") EXCEPT !.buf = b, !.msgs = m]
    OBVIOUS
  <2>2. x.do = "put" /\ x.buf = b /\ x.msgs = m
    BY <2>1 DEF Task
  <2> QED BY <1>5, <2>1, <2>2 DEF Put
<1>6. ASSUME NEW c, NEW m, m # <<>>
      PROVE  \E x : /\ AppendResponse(c, m) = <<x>>
                    /\ x.do = "append" /\ x.buf = <<Main, "now">> /\ x.msgs = m /\ x.id = 0
  <2>1. PICK x : x = [Task("append") EXCEPT !.who = c, !.msgs = m]
    OBVIOUS
  <2>2. x.do = "append" /\ x.buf = <<Main, "now">> /\ x.msgs = m /\ x.id = 0
    BY <2>1 DEF Task
  <2> QED BY <1>6, <2>1, <2>2 DEF AppendResponse
<1>7. (\A b : Put(b, <<>>) = <<>>) /\ (\A c : AppendResponse(c, <<>>) = <<>>)
  BY DEF Put, AppendResponse
<1>8. \A do : Task(do).do = do /\ Task(do).msgs = <<>> /\ Task(do).id = 0
  BY DEF Task
<1> QED BY <1>1, <1>2, <1>3, <1>4, <1>5, <1>6, <1>7, <1>8

(* The words that show a player or take it away. *)
LEMMA WordsFacts ==
  ASSUME NEW d
  PROVE  /\ IsSeq(GoneWords(d)) /\ Entities(GoneWords(d)) = {d} /\ GoneWords(d) # <<>>
         /\ IsSeq(SpawnWords(d)) /\ Entities(SpawnWords(d)) = {d} /\ SpawnWords(d) # <<>>
         /\ \A e : ~TellsGone(SpawnWords(d), e)
<1>1. PICK kinds : kinds = <<"ChatMessage", "DestroyEntity">>
  OBVIOUS
<1>2. DOMAIN kinds = 1 .. 2 /\ kinds[1] = "ChatMessage" /\ kinds[2] = "DestroyEntity"
  BY <1>1
<1>3. PICK b : b = GoneWords(d)
  OBVIOUS
<1>4. b = [i \in 1 .. 2 |-> Message(kinds[i], d)]
  BY <1>1, <1>2, <1>3 DEF Messages, GoneWords
<1>5. IsSeq(b)
  <2>1. b \in Seq({b[1], b[2]})
    BY <1>4
  <2> QED BY <2>1 DEF IsSeq
<1>6. DOMAIN b = 1 .. 2 /\ b[1] = Message("ChatMessage", d) /\ b[2] = Message("DestroyEntity", d)
  BY <1>2, <1>4
<1>7. \A e : e \in Entities(b) <=> e = d
  <2>1. (\A e : ~Says(b[1], e)) /\ \A e : Says(b[2], e) <=> e = d
    BY <1>6 DEF Says, Comes, Goes, Message
  <2>2. \A e : e \in Entities(b) <=> \E i \in 1 .. 2 : Says(b[i], e)
    BY <1>6, EntitiesRule
  <2> QED BY <2>1, <2>2
<1>8. PICK s : s = SpawnWords(d) /\ IsSeq(s) /\ DOMAIN s = {1} /\ s[1] = Message("NamedEntitySpawn", d)
  BY OneFacts DEF SpawnWords
<1>9. \A e : e \in Entities(s) <=> e = d
  <2>1. \A e : Says(s[1], e) <=> e = d
    BY <1>8 DEF Says, Comes, Goes, Message
  <2>2. \A e : e \in Entities(s) <=> \E i \in {1} : Says(s[i], e)
    BY <1>8, EntitiesRule
  <2> QED BY <2>1, <2>2
<1>10. \A e : ~TellsGone(s, e)
  BY <1>8 DEF TellsGone, Goes, Message
<1>11. b # <<>> /\ s # <<>>
  <2>1. DOMAIN <<>> = {}
    BY NilFacts
  <2>2. 1 \in DOMAIN b /\ 1 \in DOMAIN s
    BY <1>6, <1>8
  <2> QED BY <2>1, <2>2
<1> QED BY <1>3, <1>5, <1>7, <1>8, <1>9, <1>10, <1>11

LEMMA PutsFacts ==
  ASSUME NEW x, NEW d
  PROVE  /\ PutsGone(x, d) => x.do = "put" /\ x.buf = OthersBuffer(d) /\ Entities(x.msgs) = {d}
         /\ PutsSpawn(x, d) => x.do = "put" /\ x.buf = OthersBuffer(d) /\ Entities(x.msgs) = {d}
BY WordsFacts DEF PutsGone, PutsSpawn

LEMMA LightFacts ==
  ASSUME NEW x, Light(x)
  PROVE  /\ ~LogsIn(x) /\ x.do # "list"
         /\ \A d : ~PutsGone(x, d) /\ ~PutsSpawn(x, d) /\ ~(Writes(x) /\ d \in Entities(x.msgs))
<1>1. ASSUME NEW d PROVE ~PutsGone(x, d) /\ ~PutsSpawn(x, d) /\ ~(Writes(x) /\ d \in Entities(x.msgs))
  <2>1. Entities(x.msgs) = {} \/ x.do \notin {"put", "write", "wrote"}
    BY DEF Light, Wordy
  <2>2. ~(Writes(x) /\ d \in Entities(x.msgs))
    BY <2>1 DEF Writes
  <2>3. x.do = "put" => Entities(x.msgs) # {d}
    BY <2>1
  <2> QED BY <2>2, <2>3, PutsFacts
<1> QED BY <1>1 DEF Light

(* Tasks that tell nothing of anybody. *)
Mild(x) ==
  /\ x.do \in {"put", "write", "wrote", "append", "broadcast", "send", "sending", "chunks"}
  /\ x.do \in {"put", "write", "wrote"} => IsSeq(x.msgs) /\ ~Wordy(x)
  /\ x.do = "broadcast" => x.buf \in Buffers /\ \A d : x.buf = OthersBuffer(d) => x.who = d
  /\ x.do = "append" => x.buf \in Buffers /\ ~Wordy(x)

MildList(s) == IsSeq(s) /\ \A x \in ToSet(s) : Mild(x)

LEMMA MildFacts ==
  ASSUME NEW x, Mild(x)
  PROVE  /\ Light(x) /\ ~Grave(x) /\ ~Pings(x)
         /\ x.do \notin {"status", "list", "loop", "read", "close", "packet", "deliver"}
         /\ \A t, known, later : Right(t, known, x, later)
<1>1. Light(x) /\ ~Grave(x) /\ ~Pings(x) /\ x.do \notin {"status", "list", "loop", "read", "close", "packet", "deliver"}
  BY DEF Mild, Light, Grave, Pings, LogsIn
<1>2. ASSUME NEW t, NEW known, NEW later PROVE Right(t, known, x, later)
  BY <1>1 DEF Mild, Right, RightPut, RightWrite, Writes
<1> QED BY <1>1, <1>2

LEMMA MildListFacts ==
  /\ MildList(<<>>)
  /\ \A x : Mild(x) => MildList(<<x>>)
  /\ \A a, b : MildList(a) /\ MildList(b) => MildList(a \o b)
<1>1. MildList(<<>>)
  BY NilFacts DEF MildList
<1>2. ASSUME NEW x, Mild(x) PROVE MildList(<<x>>)
  BY <1>2, OneFacts DEF MildList
<1>3. ASSUME NEW a, NEW b, MildList(a), MildList(b) PROVE MildList(a \o b)
  BY <1>3, CatSet DEF MildList
<1> QED BY <1>1, <1>2, <1>3

LEMMA MildFine ==
  ASSUME NEW s, MildList(s), NEW t, NEW known, NEW later
  PROVE  Fine(t, known, s, later)
<1>1. \A i \in DOMAIN s : Mild(s[i])
  BY DEF MildList, ToSet
<1>2. \A i \in DOMAIN s : Right(t, known, s[i], After(s, i) \cup later)
  BY <1>1, MildFacts
<1> QED BY <1>2 DEF Fine, MildList

(* Kinds of messages that tell nothing of anybody. *)
Mute(kinds) == IsSeq(kinds) /\ \A k \in ToSet(kinds) : k # "NamedEntitySpawn" /\ k # "DestroyEntity"

LEMMA MuteFacts ==
  ASSUME NEW kinds, Mute(kinds), NEW c
  PROVE  IsSeq(Messages(kinds, c)) /\ Entities(Messages(kinds, c)) = {}
<1>1. PICK m, n : m = Messages(kinds, c) /\ n = Len(kinds)
  OBVIOUS
<1>2. n \in Nat /\ DOMAIN kinds = 1 .. n
  BY <1>1, SeqFacts DEF Mute
<1>3. m = [i \in 1 .. n |-> Message(kinds[i], c)]
  BY <1>1, <1>2 DEF Messages
<1>4. IsSeq(m)
  <2>1. PICK S : S = {Message(kinds[i], c) : i \in 1 .. n}
    OBVIOUS
  <2>2. m \in [1 .. n -> S]
    BY <1>3, <2>1
  <2>3. m \in Seq(S)
    BY <1>2, <2>2
  <2> QED BY <2>3 DEF IsSeq
<1>5. \A i \in DOMAIN m : m[i].kind # "NamedEntitySpawn" /\ m[i].kind # "DestroyEntity"
  BY <1>2, <1>3 DEF Mute, ToSet, Message
<1>6. \A e : e \notin Entities(m)
  BY <1>5, EntitiesRule DEF Says, Comes, Goes
<1> QED BY <1>1, <1>4, <1>6

LEMMA WordlessFacts ==
  ASSUME NEW kind, kind \notin {"NamedEntitySpawn", "DestroyEntity"}, NEW c
  PROVE  /\ IsSeq(<<Message(kind, c)>>) /\ Entities(<<Message(kind, c)>>) = {}
         /\ <<Message(kind, c)>> # <<>>
<1>1. PICK s : s = <<Message(kind, c)>> /\ IsSeq(s) /\ DOMAIN s = {1} /\ s[1] = Message(kind, c)
  BY OneFacts
<1>2. \A e : e \notin Entities(s)
  BY <1>1, EntitiesRule DEF Says, Comes, Goes, Message
<1>3. s # <<>>
  BY <1>1, NilFacts
<1> QED BY <1>1, <1>2, <1>3

(* What is put, written, appended and broadcast without a word about        *)
(* anybody. *)
Speechless(msgs) == IsSeq(msgs) /\ Entities(msgs) = {}

LEMMA MildTasks ==
  /\ \A b, msgs : Speechless(msgs) => MildList(Put(b, msgs))
  /\ \A msgs : Speechless(msgs) => MildList(Write(msgs))
  /\ \A c, msgs : Speechless(msgs) => MildList(AppendResponse(c, msgs))
  /\ \A c : MildList(SendResponse(c))
  /\ \A t \in Threads : \A msgs : Speechless(msgs) => MildList(Now(t, msgs))
  /\ \A c \in Clients : MildList(EndOfBundle(c)) /\ MildList(Broadcast(OthersBuffer(c), c))
  /\ MildList(<<Task("chunks")>>)
<1> USE DEF Speechless
<1>1. ASSUME NEW b, NEW msgs, Speechless(msgs) PROVE MildList(Put(b, msgs))
  <2>1. CASE msgs = <<>>
    BY <2>1, Constructors, MildListFacts
  <2>2. CASE msgs # <<>>
    <3>1. PICK x : Put(b, msgs) = <<x>> /\ x.do = "put" /\ x.buf = b /\ x.msgs = msgs
      BY <2>2, Constructors
    <3>2. Mild(x)
      BY <1>1, <3>1 DEF Mild, Wordy
    <3> QED BY <3>1, <3>2, MildListFacts
  <2> QED BY <2>1, <2>2
<1>2. ASSUME NEW msgs, Speechless(msgs) PROVE MildList(Write(msgs))
  <2>1. PICK x : Write(msgs) = <<x>> /\ x.do = "write" /\ x.msgs = msgs
    BY Constructors
  <2>2. Mild(x)
    BY <1>2, <2>1 DEF Mild, Wordy
  <2> QED BY <2>1, <2>2, MildListFacts
<1>3. <<Main, "now">> \in Buffers
  BY OthersBufferFacts DEF Threads
<1>4. ASSUME NEW c, NEW msgs, Speechless(msgs) PROVE MildList(AppendResponse(c, msgs))
  <2>1. CASE msgs = <<>>
    BY <2>1, Constructors, MildListFacts
  <2>2. CASE msgs # <<>>
    <3>1. PICK x : /\ AppendResponse(c, msgs) = <<x>>
                   /\ x.do = "append" /\ x.buf = <<Main, "now">> /\ x.msgs = msgs /\ x.id = 0
      BY <2>2, Constructors
    <3>2. Mild(x)
      BY <1>3, <1>4, <3>1 DEF Mild, Wordy
    <3> QED BY <3>1, <3>2, MildListFacts
  <2> QED BY <2>1, <2>2
<1>5. ASSUME NEW c PROVE MildList(SendResponse(c))
  <2>1. PICK x : SendResponse(c) = <<x>> /\ x.do = "send"
    BY Constructors
  <2>2. Mild(x)
    BY <2>1 DEF Mild
  <2> QED BY <2>1, <2>2, MildListFacts
<1>6. ASSUME NEW b \in Buffers, NEW s, \A d : b = OthersBuffer(d) => s = d
      PROVE  MildList(Broadcast(b, s))
  <2>1. PICK x : Broadcast(b, s) = <<x>> /\ x.do = "broadcast" /\ x.buf = b /\ x.who = s
    BY Constructors
  <2>2. Mild(x)
    BY <1>6, <2>1 DEF Mild
  <2> QED BY <2>1, <2>2, MildListFacts
<1>7. ASSUME NEW t \in Threads, NEW msgs, Speechless(msgs) PROVE MildList(Now(t, msgs))
  <2>1. MildList(Put(<<t, "now">>, msgs))
    BY <1>1, <1>7
  <2>2. MildList(Broadcast(<<t, "now">>, Nobody))
    BY <1>6, OthersBufferFacts
  <2> QED BY <2>1, <2>2, MildListFacts DEF Now
<1>8. ASSUME NEW c \in Clients PROVE MildList(EndOfBundle(c)) /\ MildList(Broadcast(OthersBuffer(c), c))
  <2>1. MildList(Broadcast(OthersBuffer(c), c))
    BY <1>6, OthersBufferFacts
  <2>2. MildList(Broadcast(<<c, "all">>, Nobody))
    BY <1>6, OthersBufferFacts
  <2>3. MildList(Broadcast(<<c, "all">>, Nobody) \o Broadcast(<<c, "others">>, c))
    BY <2>1, <2>2, MildListFacts DEF OthersBuffer
  <2> QED BY <1>5, <2>1, <2>3, MildListFacts DEF EndOfBundle
<1>9. MildList(<<Task("chunks")>>)
  <2>1. Mild(Task("chunks"))
    BY Constructors DEF Mild
  <2> QED BY <2>1, MildListFacts
<1> QED BY <1>1, <1>2, <1>4, <1>5, <1>7, <1>8, <1>9

-----------------------------------------------------------------------------
(* No handler of a packet that leaves the status alone says that a player   *)
(* comes or goes. *)

MuteEffect(e) ==
  /\ Mute(e.all) /\ Mute(e.others) /\ Mute(e.now) /\ Mute(e.answer)
  /\ Len(e.own) >= 1 => Mute(e.own[1])
  /\ Len(e.own) = 2 => Mute(e.own[2])

MuteSet(E) == \A e \in E : MuteEffect(e)

LEMMA MuteKinds ==
  /\ Mute(<<>>)
  /\ \A k : k \notin {"NamedEntitySpawn", "DestroyEntity"} => Mute(<<k>>)
  /\ \A a, b : Mute(a) /\ Mute(b) => Mute(a \o b)
<1>1. Mute(<<>>)
  BY NilFacts DEF Mute
<1>2. ASSUME NEW k, k \notin {"NamedEntitySpawn", "DestroyEntity"} PROVE Mute(<<k>>)
  BY <1>2, OneFacts DEF Mute
<1>3. ASSUME NEW a, NEW b, Mute(a), Mute(b) PROVE Mute(a \o b)
  BY <1>3, CatSet DEF Mute
<1> QED BY <1>1, <1>2, <1>3

LEMMA MutePair ==
  ASSUME NEW a, NEW b, a \notin {"NamedEntitySpawn", "DestroyEntity"}, b \notin {"NamedEntitySpawn", "DestroyEntity"}
  PROVE  Mute(<<a, b>>)
<1>1. PICK s : s = <<a, b>>
  OBVIOUS
<1>2. s \in Seq({a, b}) /\ DOMAIN s = 1 .. 2 /\ s[1] = a /\ s[2] = b
  BY <1>1
<1>3. ToSet(s) \subseteq {a, b}
  BY <1>2 DEF ToSet
<1> QED BY <1>1, <1>2, <1>3 DEF Mute, IsSeq

LEMMA MuteEffects ==
  /\ MuteEffect(Silent)
  /\ \A kinds : Mute(kinds) => /\ MuteEffect(Own(kinds)) /\ MuteEffect(Answer(kinds)) /\ MuteEffect(ToAll(kinds))
                               /\ MuteEffect(ToOthers(kinds)) /\ MuteEffect(AtOnce(kinds))
  /\ \A e, kinds : MuteEffect(e) /\ Mute(kinds) /\ DOMAIN e = {"own", "answer", "all", "others", "now"} =>
       MuteEffect([e EXCEPT !.now = kinds])
  /\ \A kinds : DOMAIN Own(kinds) = {"own", "answer", "all", "others", "now"}
                /\ DOMAIN Answer(kinds) = {"own", "answer", "all", "others", "now"}
<1>0. Mute(<<>>)
  BY MuteKinds
<1>1. PICK nil : nil = <<>> /\ Len(nil) = 0
  OBVIOUS
<1>2. MuteEffect(Silent)
  <2>1. Silent = [own |-> nil, answer |-> nil, all |-> nil, others |-> nil, now |-> nil]
    BY <1>1 DEF Silent
  <2> QED BY <1>0, <1>1, <2>1 DEF MuteEffect
<1>3. ASSUME NEW kinds, Mute(kinds)
      PROVE  /\ MuteEffect(Own(kinds)) /\ MuteEffect(Answer(kinds)) /\ MuteEffect(ToAll(kinds))
             /\ MuteEffect(ToOthers(kinds)) /\ MuteEffect(AtOnce(kinds))
  <2>0. PICK one : one = <<kinds>>
    OBVIOUS
  <2>1. one = <<kinds>> /\ Len(one) = 1 /\ one[1] = kinds
    BY <2>0
  <2>2. Silent = [own |-> nil, answer |-> nil, all |-> nil, others |-> nil, now |-> nil]
    BY <1>1 DEF Silent
  <2>3. MuteEffect(Own(kinds))
    BY <1>0, <1>1, <1>3, <2>1, <2>2 DEF MuteEffect, Own
  <2>4. MuteEffect(Answer(kinds)) /\ MuteEffect(ToAll(kinds)) /\ MuteEffect(ToOthers(kinds)) /\ MuteEffect(AtOnce(kinds))
    BY <1>0, <1>1, <1>3, <2>2 DEF MuteEffect, Answer, ToAll, ToOthers, AtOnce
  <2> QED BY <2>3, <2>4
<1>4. ASSUME NEW e, NEW kinds, MuteEffect(e), Mute(kinds), DOMAIN e = {"own", "answer", "all", "others", "now"}
      PROVE  MuteEffect([e EXCEPT !.now = kinds])
  BY <1>4 DEF MuteEffect
<1>5. \A kinds : DOMAIN Own(kinds) = {"own", "answer", "all", "others", "now"}
                /\ DOMAIN Answer(kinds) = {"own", "answer", "all", "others", "now"}
  BY DEF Own, Answer, Silent
<1> QED BY <1>2, <1>3, <1>4, <1>5

LEMMA MuteHandlers ==
  /\ MuteSet(HandleKeepAlive) /\ MuteSet(HandleUseEntity) /\ MuteSet(HandleRespawn)
  /\ MuteSet(HandlePlayerGrounded) /\ MuteSet(HandlePlayerPosition) /\ MuteSet(HandlePlayerLook)
  /\ MuteSet(HandlePlayerPositionLook) /\ MuteSet(HandleHoldingChange) /\ MuteSet(HandleAnimation)
  /\ MuteSet(HandleEntityAction) /\ MuteSet(HandlePlayerDigging) /\ MuteSet(HandlePlayerBlockPlacement)
  /\ MuteSet(HandleCloseWindow) /\ MuteSet(HandleWindowClick) /\ MuteSet(HandleUpdateSign)
  /\ MuteSet(HandleChatMessage)
<1>1. /\ Mute(<<"KeepAlive">>) /\ Mute(<<"WindowItems">>) /\ Mute(<<"EntityTeleport">>) /\ Mute(<<"EntityLook">>)
      /\ Mute(<<"EntityEquipment">>) /\ Mute(<<"Animation">>) /\ Mute(<<"EntityMetadata">>) /\ Mute(<<"OpenWindow">>)
      /\ Mute(<<"SetSlot">>) /\ Mute(<<"CloseWindow">>) /\ Mute(<<"UpdateSign">>) /\ Mute(<<"ChatMessage">>)
      /\ Mute(<<"Soundeffect">>) /\ Mute(<<>>)
  BY MuteKinds
<1>2. Mute(<<"PlayerPositionLook", "Respawn">>)
  BY MutePair
<1>3. MuteSet(HandleRespawn)
  <2>1. ASSUME NEW items \in {<<>>, <<"WindowItems">>}
        PROVE  MuteEffect(Own(<<"PlayerPositionLook", "Respawn">> \o items))
    BY <1>1, <1>2, MuteKinds, MuteEffects
  <2> QED BY <2>1 DEF MuteSet, HandleRespawn
<1>4. \A change \in Changes : Mute(change)
  <2>1. Mute(<<"BlockChange">>) /\ Mute(<<"BlockChange", "BlockChange">>)
    BY MuteKinds, MutePair
  <2> QED BY <2>1 DEF Changes
<1>5. MuteSet(HandlePlayerDigging)
  <2>1. ASSUME NEW items \in {<<>>, <<<<"WindowItems">>>>}, NEW change \in Changes
        PROVE  MuteEffect([own |-> items, answer |-> <<>>, all |-> <<>>, others |-> <<"Soundeffect">>, now |-> change])
    <3>1. PICK nil, sound : nil = <<>> /\ sound = <<"Soundeffect">> /\ Mute(nil) /\ Mute(sound) /\ Mute(change)
      BY <1>1, <1>4
    <3>2. (Len(items) >= 1 => Mute(items[1])) /\ Len(items) # 2
      <4>1. CASE items = <<>>
        BY <4>1
      <4>2. CASE items = <<<<"WindowItems">>>>
        <5>1. Len(items) = 1 /\ items[1] = <<"WindowItems">>
          BY <4>2
        <5> QED BY <1>1, <5>1
      <4> QED BY <4>1, <4>2
    <3>3. MuteEffect([own |-> items, answer |-> nil, all |-> nil, others |-> sound, now |-> change])
      BY <3>1, <3>2 DEF MuteEffect
    <3> QED BY <3>1, <3>3
  <2>2. \A change \in Changes : MuteEffect(AtOnce(change))
    BY <1>4, MuteEffects
  <2> QED BY <2>1, <2>2, MuteEffects DEF MuteSet, HandlePlayerDigging
<1>6. MuteEffect(OpenChest)
  <2>0. PICK two, nil, open, items : two = <<open, items>> /\ nil = <<>> /\ open = <<"OpenWindow">> /\ items = <<"WindowItems">>
    OBVIOUS
  <2>3. two[1] = open /\ two[2] = items
    BY <2>0
  <2>1. /\ two = <<<<"OpenWindow">>, <<"WindowItems">>>> /\ nil = <<>>
        /\ two[1] = <<"OpenWindow">> /\ two[2] = <<"WindowItems">>
    BY <2>0, <2>3
  <2>2. OpenChest = [own |-> two, answer |-> nil, all |-> nil, others |-> nil, now |-> nil]
    BY <2>1 DEF OpenChest, Silent
  <2> QED BY <1>1, <2>1, <2>2 DEF MuteEffect
<1>7. MuteSet(HandlePlayerBlockPlacement)
  <2>1. \A change \in Changes : MuteEffect([Own(<<"SetSlot">>) EXCEPT !.now = change])
    BY <1>1, <1>4, MuteEffects
  <2> QED BY <1>1, <1>6, <2>1, MuteEffects DEF MuteSet, HandlePlayerBlockPlacement
<1>8. /\ MuteSet(HandleKeepAlive) /\ MuteSet(HandleUseEntity)
      /\ MuteSet(HandlePlayerGrounded) /\ MuteSet(HandlePlayerPosition) /\ MuteSet(HandlePlayerLook)
      /\ MuteSet(HandlePlayerPositionLook) /\ MuteSet(HandleHoldingChange) /\ MuteSet(HandleAnimation)
      /\ MuteSet(HandleEntityAction)
  BY <1>1, MuteEffects DEF MuteSet, HandleKeepAlive, HandleUseEntity, HandlePlayerGrounded, HandlePlayerPosition,
     UpdatePositionForOthers, HandlePlayerLook, HandlePlayerPositionLook, HandleHoldingChange, HandleAnimation,
     HandleEntityAction
<1>9. /\ MuteSet(HandleCloseWindow) /\ MuteSet(HandleWindowClick) /\ MuteSet(HandleUpdateSign)
      /\ MuteSet(HandleChatMessage)
  BY <1>1, MuteEffects DEF MuteSet, HandleCloseWindow, HandleWindowClick, HandleUpdateSign, HandleChatMessage, Chat
<1> QED BY <1>3, <1>5, <1>7, <1>8, <1>9

LEMMA MuteCommands ==
  /\ MuteSet({Failed})
  /\ MuteSet(CommandHelp) /\ MuteSet(CommandUptime) /\ MuteSet(CommandTime) /\ MuteSet(CommandVersion)
  /\ MuteSet(CommandList) /\ MuteSet(CommandSave) /\ MuteSet(CommandStop) /\ MuteSet(CommandFree)
  /\ MuteSet(CommandLoaded) /\ MuteSet(CommandUsage) /\ MuteSet(CommandPopulated) /\ MuteSet(CommandSeed)
  /\ MuteSet(CommandEntity) /\ MuteSet(CommandModified) /\ MuteSet(CommandRegion) /\ MuteSet(CommandSpawn)
  /\ MuteSet(CommandPose) /\ MuteSet(CommandSound) /\ MuteSet(CommandSummon) /\ MuteSet(CommandPacket)
<1>1. /\ Mute(<<"TimeUpdate">>) /\ Mute(<<"PlayerPositionLook">>) /\ Mute(<<"EntityMetadata">>)
      /\ Mute(<<"Soundeffect">>) /\ Mute(<<"MobSpawn">>) /\ Mute(<<"custom">>) /\ Mute(<<>>) /\ Mute(Chat)
  BY MuteKinds DEF Chat
<1>2. Mute(Chat \o Chat) /\ Mute(<<"TimeUpdate">> \o Chat) /\ Mute(Chat \o (Chat \o Chat)) /\ Mute(Chat \o <<>>)
  BY <1>1, MuteKinds
<1>3. \A kinds : Mute(kinds) => MuteEffect(Answer(kinds)) /\ MuteEffect(AtOnce(kinds))
  BY MuteEffects
<1>4. MuteEffect(Failed) /\ MuteSet({Failed})
  BY <1>1, <1>3 DEF Failed, MuteSet
<1>5. MuteSet(CommandHelp)
  <2>1. ASSUME NEW more \in {<<>>, Chat, Chat \o Chat} PROVE MuteEffect(Answer(Chat \o more))
    BY <1>2, <1>3
  <2> QED BY <2>1 DEF MuteSet, CommandHelp
<1>6. MuteEffect(Answer(Chat)) /\ MuteEffect(Answer(Chat \o Chat)) /\ MuteEffect(Answer(<<"TimeUpdate">> \o Chat))
  BY <1>1, <1>2, <1>3
<1>7. /\ MuteSet(CommandUptime) /\ MuteSet(CommandTime) /\ MuteSet(CommandVersion)
      /\ MuteSet(CommandList) /\ MuteSet(CommandSave) /\ MuteSet(CommandStop) /\ MuteSet(CommandFree)
  BY <1>6, Zenon DEF MuteSet, CommandUptime, CommandTime, CommandVersion, CommandList, CommandSave, CommandStop, CommandFree
<1>8. /\ MuteSet(CommandLoaded) /\ MuteSet(CommandUsage) /\ MuteSet(CommandPopulated) /\ MuteSet(CommandSeed)
      /\ MuteSet(CommandEntity) /\ MuteSet(CommandModified) /\ MuteSet(CommandRegion)
  BY <1>4 DEF MuteSet, CommandLoaded, CommandUsage, CommandPopulated, CommandSeed, CommandEntity, CommandModified,
              CommandRegion
<1>9. MuteSet(CommandSpawn) /\ MuteSet(CommandPacket)
  BY <1>1, <1>3 DEF MuteSet, CommandSpawn, CommandPacket
<1>10. MuteSet(CommandPose) /\ MuteSet(CommandSound) /\ MuteSet(CommandSummon)
  BY <1>1, <1>6, MuteEffects DEF MuteSet, CommandPose, CommandSound, CommandSummon
<1> QED BY <1>4, <1>5, <1>7, <1>8, <1>9, <1>10

LEMMA EffectsMute ==
  /\ \A kind \in DOMAIN Effects : MuteSet(Effects[kind])
  /\ "LegacyPing" \notin DOMAIN Effects
<1>1. \A c \in DOMAIN Commands : MuteSet(Commands[c])
  BY MuteCommands DEF Commands
<1>2. \A c \in DOMAIN Commands : MuteSet({Failed} \cup Commands[c])
  BY <1>1, MuteCommands DEF MuteSet
<1>3. \A kind \in DOMAIN Handlers : MuteSet(Handlers[kind])
  BY MuteHandlers DEF Handlers
<1>4. "LegacyPing" \notin DOMAIN Commands /\ "LegacyPing" \notin DOMAIN Handlers
  BY DEF Commands, Handlers
<1>5. \A kind \in DOMAIN Effects : MuteSet(Effects[kind])
  BY <1>2, <1>3, Zenon DEF Effects
<1>6. DOMAIN Effects = DOMAIN Handlers \cup DOMAIN Commands
  BY Zenon DEF Effects
<1> QED BY <1>4, <1>5, <1>6

LEMMA HandleMild ==
  ASSUME NEW c \in Clients, NEW e, MuteEffect(e)
  PROVE  MildList(Handle(c, e))
<1>1. \A kinds : Mute(kinds) => Speechless(Messages(kinds, c))
  BY MuteFacts DEF Speechless
<1>2. MildList(Put(<<c, "all">>, Messages(e.all, c)) \o Put(<<c, "others">>, Messages(e.others, c)))
  BY <1>1, MildTasks, MildListFacts DEF MuteEffect
<1>3. MildList(IF Len(e.own) >= 1 THEN Write(Messages(e.own[1], c)) ELSE <<>>)
  BY <1>1, MildTasks, MildListFacts DEF MuteEffect
<1>4. MildList(IF Len(e.own) = 2 THEN SendResponse(c) \o Write(Messages(e.own[2], c)) ELSE <<>>)
  BY <1>1, MildTasks, MildListFacts DEF MuteEffect
<1>5. MildList(Now(c, Messages(e.now, c))) /\ MildList(AppendResponse(c, Messages(e.answer, c)))
  BY <1>1, MildTasks DEF MuteEffect, Threads
<1> QED BY <1>2, <1>3, <1>4, <1>5, MildListFacts DEF Handle

-----------------------------------------------------------------------------
(* Steps that nobody can see on a screen. *)

LEMMA FollowFacts ==
  ASSUME Shape, AllFine, NEW t \in Threads, todo[t] # <<>>, NEW more, IsSeq(more), Follow(t, more)
  PROVE  /\ todo'[t] = more \o Tail(todo[t])
         /\ IsSeq(Tail(todo[t])) /\ IsSeq(todo[t])
         /\ Tasks(t) = {Head(todo[t])} \cup ToSet(Tail(todo[t]))
         /\ Tasks(t)' = ToSet(more) \cup ToSet(Tail(todo[t]))
         /\ \A u \in Threads \ {t} : todo'[u] = todo[u] /\ Tasks(u)' = Tasks(u)
<1>1. todo = [u \in Threads |-> todo[u]]
  BY DEF Shape
<1>2. todo'[t] = more \o Tail(todo[t]) /\ \A u \in Threads \ {t} : todo'[u] = todo[u]
  BY <1>1 DEF Follow
<1>3. IsSeq(todo[t])
  BY DEF AllFine, Fine
<1>4. IsSeq(Tail(todo[t])) /\ ToSet(todo[t]) = {Head(todo[t])} \cup ToSet(Tail(todo[t]))
  BY <1>3, TailFacts
<1>5. ToSet(more \o Tail(todo[t])) = ToSet(more) \cup ToSet(Tail(todo[t]))
  BY <1>4, CatSet
<1>6. Tasks(t)' = ToSet(todo'[t])
  BY DEF Tasks
<1> QED BY <1>2, <1>3, <1>4, <1>5, <1>6 DEF Tasks

LEMMA FineStep ==
  ASSUME Shape, AllFine, NEW t \in Threads, todo[t] # <<>>, NEW more, Follow(t, more),
         Fine(t, Known(t)', more, ToSet(Tail(todo[t]))),
         \A u \in Threads \ {t} : Known(u)' = Known(u),
         Known(t)' = Known(t) \/ \A x \in ToSet(Tail(todo[t])) : ~Grave(x)
  PROVE  AllFine'
<1>1. IsSeq(more)
  BY DEF Fine
<1>2. todo'[t] = more \o Tail(todo[t]) /\ \A u \in Threads \ {t} : todo'[u] = todo[u]
  BY <1>1, FollowFacts
<1>3. ASSUME NEW u \in Threads \ {t} PROVE Fine(u, Known(u)', todo'[u], {})
  BY <1>2, <1>3 DEF AllFine
<1>4. Fine(t, Known(t), Tail(todo[t]), {})
  BY FineTail DEF AllFine
<1>5. Fine(t, Known(t)', Tail(todo[t]), {})
  BY <1>4, FineRekey
<1>6. ToSet(Tail(todo[t])) \cup {} = ToSet(Tail(todo[t]))
  OBVIOUS
<1>7. Fine(t, Known(t)', more \o Tail(todo[t]), {})
  BY <1>5, <1>6, FineCat
<1> QED BY <1>2, <1>3, <1>7 DEF AllFine

(* What of a thread's tasks a screen depends on. *)
Alike(A, B) ==
  /\ HasLogin(A) <=> HasLogin(B)
  /\ Has(A, "list") <=> Has(B, "list")
  /\ \A d : /\ Writing(A, d) <=> Writing(B, d)
            /\ Spawning(A, d) <=> Spawning(B, d)
            /\ Going(A, d) <=> Going(B, d)

(* t is the only thread whose tasks change, and it tells nothing. *)
Same(t) ==
  /\ t \in Threads /\ t # listMutex
  /\ UNCHANGED <<status, buffer, blurred, listMutex>>
  /\ \A c \in Clients : /\ HasPlayer(c)' <=> HasPlayer(c)
                        /\ peer'[c] = "open" => peer[c] = "open" /\ Sees(c)' = Sees(c)
  /\ \A u \in Threads \ {t} : todo'[u] = todo[u]
  /\ Alike(Tasks(t), Tasks(t)')
  /\ \A d \in Clients : /\ Carrying(Tasks(t), OthersBuffer(d)) => Carrying(Tasks(t)', OthersBuffer(d)) \/ ~News(d)
                        /\ Ordering(Tasks(t)', d) => t = d \/ Ordering(Tasks(t), d)
                        /\ Going(Tasks(t), d) => ~Orders(Head(todo[t]), d) \/ todo'[t] = todo[t]

LEMMA SameTold ==
  ASSUME Told, listMutex \in Threads \cup {Nobody}, NEW t, Same(t)
  PROVE  Told'
<1>1. /\ t \in Threads /\ t # listMutex
      /\ status' = status /\ buffer' = buffer /\ blurred' = blurred /\ listMutex' = listMutex
  BY DEF Same
<1>2. \A u \in Threads \ {t} : todo'[u] = todo[u] /\ Tasks(u)' = Tasks(u)
  BY DEF Same, Tasks
<1>3. listMutex # Nobody => todo'[listMutex] = todo[listMutex]
  BY <1>1, <1>2
<1>4. \A u \in Threads : Alike(Tasks(u), Tasks(u)')
  BY <1>2 DEF Same, Alike
<1>5. \A c \in Clients : c \in Threads
  BY DEF Threads
<1>6. ASSUME NEW d \in Clients
      PROVE  /\ News(d)' <=> News(d)
             /\ Circles(d)' <=> Circles(d)
             /\ Late(d)' <=> Late(d)
             /\ \A c \in Clients : Due(c, d)' <=> Due(c, d)
  <2>1. listMutex # Nobody => RoundOf(todo'[listMutex]) = RoundOf(todo[listMutex])
    BY <1>3
  <2>2. News(d)' <=> News(d)
    BY <1>1 DEF News
  <2>3. Circles(d)' <=> Circles(d)
    BY <1>1, <2>1 DEF Circles
  <2>4. Late(d)' <=> Late(d)
    <3>1. CASE Circles(d)
      <4>1. listMutex # Nobody
        BY <3>1 DEF Circles
      <4>2. RoundOf(todo'[listMutex']) = RoundOf(todo[listMutex]) /\ buffer' = buffer
        BY <1>1, <2>1, <4>1
      <4> QED BY <2>3, <4>2 DEF Late
    <3>2. CASE ~Circles(d)
      BY <2>3, <3>2 DEF Late
    <3> QED BY <3>1, <3>2
  <2>5. ASSUME NEW c \in Clients PROVE Due(c, d)' <=> Due(c, d)
    <3>1. Circles(d) => listMutex # Nobody
      BY DEF Circles
    <3>2. Circles(d) => (DueIn(todo'[listMutex'], c) <=> DueIn(todo[listMutex], c))
      BY <1>1, <1>3, <3>1
    <3> QED BY <2>3, <3>2 DEF Due
  <2> QED BY <2>2, <2>3, <2>4, <2>5
<1>7. ASSUME NEW d \in Clients
      PROVE  /\ Leaving(d)' <=> Leaving(d)
             /\ Here(d)' <=> Here(d)
             /\ Away(d)' <=> Away(d)
             /\ Listens(d)' => Listens(d)
  <2>1. Leaving(d)' <=> Leaving(d)
    BY <1>4 DEF Leaving, Alike
  <2>2. HasLogin(Tasks(d))' <=> HasLogin(Tasks(d))
    BY <1>4, <1>5 DEF Alike
  <2>3. Has(Tasks(d), "list")' <=> Has(Tasks(d), "list")
    BY <1>4, <1>5 DEF Alike
  <2>4. peer'[d] = "open" => peer[d] = "open"
    BY DEF Same
  <2> QED BY <1>1, <2>1, <2>2, <2>3, <2>4 DEF Here, Away, Listens
<1>8. ASSUME NEW d \in Clients PROVE Unknown(d)'
  <2>1. HasPlayer(d)' <=> HasPlayer(d)
    BY DEF Same
  <2>2. SUFFICES ASSUME ~HasPlayer(d)
                 PROVE  /\ \A c \in Clients : (peer'[c] = "open" => d \notin Sees(c)') /\ ~Writing(Tasks(c)', d)
                        /\ ~News(d)'
                        /\ \A u \in Threads : ~Going(Tasks(u)', d) /\ (u # d => ~Ordering(Tasks(u)', d))
    BY <2>1 DEF Unknown
  <2>3. /\ \A c \in Clients : (peer[c] = "open" => d \notin Sees(c)) /\ ~Writing(Tasks(c), d)
        /\ ~News(d)
        /\ \A u \in Threads : ~Going(Tasks(u), d) /\ (u # d => ~Ordering(Tasks(u), d))
    BY <2>2 DEF Told, Unknown
  <2>4. ASSUME NEW c \in Clients PROVE (peer'[c] = "open" => d \notin Sees(c)') /\ ~Writing(Tasks(c)', d)
    <3>1. ~Writing(Tasks(c)', d)
      BY <1>4, <1>5, <2>3 DEF Alike
    <3> QED BY <2>3, <3>1 DEF Same
  <2>5. ASSUME NEW u \in Threads PROVE ~Going(Tasks(u)', d) /\ (u # d => ~Ordering(Tasks(u)', d))
    <3>1. ~Going(Tasks(u)', d)
      BY <1>4, <2>3 DEF Alike
    <3>2. u # d => ~Ordering(Tasks(u)', d)
      BY <1>2, <2>3 DEF Same
    <3> QED BY <3>1, <3>2
  <2> QED BY <1>6, <2>3, <2>4, <2>5
<1>9. ASSUME NEW d \in Clients PROVE Carried(d)'
  <2>1. SUFFICES ASSUME News(d) PROVE \E u \in Threads : Carrying(Tasks(u)', OthersBuffer(d))
    BY <1>6 DEF Carried
  <2>2. PICK u \in Threads : Carrying(Tasks(u), OthersBuffer(d))
    BY <2>1 DEF Told, Carried
  <2>3. Carrying(Tasks(u)', OthersBuffer(d))
    BY <1>2, <2>1, <2>2 DEF Same
  <2> QED BY <2>3
<1>10. ASSUME NEW c \in Clients, NEW d \in Clients PROVE Untold(c, d)'
  <2>1. SUFFICES ASSUME status[d] # Disconnected, d \notin blurred[c]
                 PROVE  /\ ~TellsGone(buffer[OthersBuffer(d)], d)
                        /\ \A u \in Threads : Going(Tasks(u)', d) => Orders(Head(todo'[u]), d)
    BY <1>1 DEF Untold
  <2>2. /\ ~TellsGone(buffer[OthersBuffer(d)], d)
        /\ \A u \in Threads : Going(Tasks(u), d) => Orders(Head(todo[u]), d)
    BY <2>1 DEF Told, Untold
  <2>3. ASSUME NEW u \in Threads, Going(Tasks(u)', d) PROVE Orders(Head(todo'[u]), d)
    <3>1. Going(Tasks(u), d)
      BY <1>4, <2>3 DEF Alike
    <3>2. Orders(Head(todo[u]), d)
      BY <2>2, <3>1
    <3>3. u = t => todo'[u] = todo[u]
      BY <3>1, <3>2 DEF Same
    <3> QED BY <1>2, <3>2, <3>3
  <2> QED BY <2>2, <2>3
<1>11. ASSUME NEW c \in Clients, NEW d \in Clients PROVE Shown(c, d)' /\ Hidden(c, d)'
  <2>1. Shown(c, d) /\ Hidden(c, d)
    BY DEF Told
  <2>2. Listens(c)' => peer'[c] = "open"
    BY DEF Listens
  <2>3. Listens(c)' => Sees(c)' = Sees(c) /\ Listens(c)
    BY <1>7, <2>2 DEF Same
  <2>4. Spawning(Tasks(d), d)' <=> Spawning(Tasks(d), d)
    BY <1>4, <1>5 DEF Alike
  <2>5. Writing(Tasks(c), d)' <=> Writing(Tasks(c), d)
    BY <1>4, <1>5 DEF Alike
  <2>6. LastSpawn(buffer'[OthersBuffer(d)], d) <=> LastSpawn(buffer[OthersBuffer(d)], d)
    BY <1>1
  <2>7. d \notin blurred'[c] <=> d \notin blurred[c]
    BY <1>1
  <2>8. /\ Late(d)' <=> Late(d)
        /\ Due(c, d)' <=> Due(c, d)
        /\ News(d)' <=> News(d)
        /\ Here(d)' <=> Here(d)
        /\ Away(d)' <=> Away(d)
    BY <1>6, <1>7
  <2>9. Shown(c, d)'
    BY <2>1, <2>3, <2>4, <2>5, <2>7, <2>8 DEF Shown
  <2>10. Hidden(c, d)'
    BY <2>1, <2>3, <2>5, <2>6, <2>7, <2>8 DEF Hidden
  <2> QED BY <2>9, <2>10
<1> QED BY <1>8, <1>9, <1>10, <1>11 DEF Told

LEMMA FineMember ==
  ASSUME NEW t, NEW known, NEW s, NEW later, Fine(t, known, s, later), NEW x \in ToSet(s)
  PROVE  \E after : Right(t, known, x, after \cup later) /\ after \subseteq ToSet(s)
<1>1. PICK i \in DOMAIN s : x = s[i]
  BY DEF ToSet
<1>2. Right(t, known, s[i], After(s, i) \cup later)
  BY DEF Fine
<1>3. After(s, i) \subseteq ToSet(s)
  BY DEF After, ToSet
<1> QED BY <1>1, <1>2, <1>3

LEMMA LightAlike ==
  ASSUME NEW x, Light(x), NEW M, \A y \in M : Light(y), NEW R, NEW A, NEW B, A = {x} \cup R, B = M \cup R
  PROVE  Alike(A, B)
<1>1. \A y \in {x} \cup M : /\ ~LogsIn(y) /\ y.do # "list"
                            /\ \A d : ~PutsGone(y, d) /\ ~PutsSpawn(y, d) /\ ~(Writes(y) /\ d \in Entities(y.msgs))
  BY LightFacts
<1>2. (HasLogin(A) <=> HasLogin(B)) /\ (Has(A, "list") <=> Has(B, "list"))
  BY <1>1 DEF HasLogin, Has
<1>3. ASSUME NEW d
      PROVE  /\ Writing(A, d) <=> Writing(B, d)
             /\ Spawning(A, d) <=> Spawning(B, d)
             /\ Going(A, d) <=> Going(B, d)
  BY <1>1 DEF Writing, Spawning, Going
<1> QED BY <1>2, <1>3 DEF Alike

(* A step of t that changes no more than what it has to do, and that by     *)
(* tasks from M that tell nothing. *)
Keeps(t, M) ==
  /\ t \in Threads /\ t # listMutex /\ (t \in Clients => todo[t] # <<>>)
  /\ \A u \in Threads \ {t} : todo'[u] = todo[u]
  /\ UNCHANGED <<status, connected, stage, buffer, blurred, listMutex>>
  /\ \A c \in Clients : /\ HasPlayer(c)' <=> HasPlayer(c)
                        /\ peer'[c] = "open" => peer[c] = "open" /\ Sees(c)' = Sees(c)
                        /\ inbox'[c] = inbox[c] \/ inbox'[c] = <<>>
  /\ \A y \in Tasks(t)' : y \in M \/ y \in Tasks(t)
  /\ \A y \in Tasks(t) : y.do = "status" => y \in Tasks(t)'
  /\ Alike(Tasks(t), Tasks(t)')
  /\ \A d \in Clients :
       /\ Going(Tasks(t), d) => ~Orders(Head(todo[t]), d) \/ todo'[t] = todo[t]
       /\ Carrying(Tasks(t), OthersBuffer(d)) => Carrying(Tasks(t)', OthersBuffer(d)) \/ ~News(d)
  /\ \A y \in M :
       /\ ~LogsIn(y) /\ \A d : Orders(y, d) => d = t
       /\ y.do = "close" => status[t] = Disconnected
       /\ y.do = "packet" => stage[t] \notin {"away", "handshake"} /\ inbox'[t] = <<>> /\ (Pings(y) => ~HasPlayer(t))

LEMMA RoundsKept ==
  ASSUME Rounds, listMutex' = listMutex, listMutex # Nobody => todo'[listMutex] = todo[listMutex],
         UNCHANGED buffer
  PROVE  Rounds'
<1>1. CASE listMutex # Nobody
  <2>1. todo'[listMutex'] = todo[listMutex] /\ buffer' = buffer
    BY <1>1
  <2> QED BY <1>1, <2>1 DEF Rounds
<1>2. CASE listMutex = Nobody
  BY <1>2 DEF Rounds
<1> QED BY <1>1, <1>2

(* A step of one thread that leaves alone what the invariant is about keeps *)
(* it. *)
LEMMA KeptAlive ==
  ASSUME Shape, Alive, Types', AllFine', NEW t, NEW M, Keeps(t, M)
  PROVE  Alive'
<1>0. /\ t \in Threads /\ t # listMutex
      /\ status' = status /\ connected' = connected /\ stage' = stage /\ buffer' = buffer
      /\ blurred' = blurred /\ listMutex' = listMutex
      /\ Alike(Tasks(t), Tasks(t)')
  BY DEF Keeps
<1>1. \A u \in Threads \ {t} : todo'[u] = todo[u] /\ Tasks(u)' = Tasks(u)
  BY DEF Keeps, Tasks
<1>4. listMutex \in Threads \cup {Nobody} /\ (listMutex # Nobody => todo'[listMutex] = todo[listMutex])
  BY <1>0, <1>1 DEF Shape
<1>5. Rounds'
  BY <1>0, <1>4, RoundsKept DEF Alive
<1>7. Same(t)
  <2>1. ASSUME NEW d \in Clients
        PROVE  /\ Carrying(Tasks(t), OthersBuffer(d)) => Carrying(Tasks(t)', OthersBuffer(d)) \/ ~News(d)
               /\ Ordering(Tasks(t)', d) => t = d \/ Ordering(Tasks(t), d)
               /\ Going(Tasks(t), d) => ~Orders(Head(todo[t]), d) \/ todo'[t] = todo[t]
    <3>1. Ordering(Tasks(t)', d) => t = d \/ Ordering(Tasks(t), d)
      <4>1. \A y \in M : Orders(y, d) => d = t
        BY DEF Keeps
      <4>2. \A y \in Tasks(t)' : y \in M \/ y \in Tasks(t)
        BY DEF Keeps
      <4> QED BY <4>1, <4>2 DEF Ordering
    <3> QED BY <3>1 DEF Keeps
  <2> QED BY <1>0, <1>1, <2>1 DEF Same, Keeps
<1>8. Told'
  BY <1>4, <1>7, SameTold DEF Alive
<1>9. \A c \in Clients : c \in Threads /\ (c = t \/ Tasks(c)' = Tasks(c))
  BY <1>1 DEF Threads
<1>10. \A c \in Clients : /\ HasLogin(Tasks(c))' <=> HasLogin(Tasks(c))
                          /\ Has(Tasks(c), "list")' <=> Has(Tasks(c), "list")
  BY <1>0, <1>9 DEF Alike
<1>11. ASSUME NEW c \in Clients PROVE Progress(c)'
  <2>0. Progress(c)
    BY DEF Alive
  <2>1. Settled(c) => Settled(c)'
    <3>1. SUFFICES ASSUME Settled(c), NEW y \in Tasks(c)', y.do = "status" PROVE y.list = <<Disconnected>>
      BY <1>0 DEF Settled, Keeps
    <3>2. CASE y \in Tasks(c)
      BY <3>1, <3>2 DEF Settled
    <3>3. CASE c = t /\ y \in M
      <4>1. Fine(t, Known(t)', todo'[t], {}) /\ y \in ToSet(todo'[t])
        BY <1>0, <3>1, <3>3 DEF AllFine, Tasks
      <4>2. PICK after : Right(t, Known(t)', y, after)
        BY <4>1, FineMember
      <4>3. RightStatus(t, Known(t)', y, after) /\ ~LogsIn(y)
        BY <3>1, <3>3, <4>2 DEF Right, Keeps
      <4>4. Known(t)'
        BY <3>1, <3>3 DEF Settled, Known, Keeps
      <4> QED BY <3>1, <4>3, <4>4 DEF RightStatus, LogsIn
    <3>4. y \in M \/ y \in Tasks(c)
      BY <1>9, <3>1 DEF Keeps
    <3>5. c = t \/ y \in Tasks(c)
      BY <1>9, <3>1
    <3> QED BY <3>2, <3>3, <3>4, <3>5
  <2>2. Target(c)' <=> Target(c)
    <3>1. listMutex # Nobody => Head(todo'[listMutex]) = Head(todo[listMutex])
      BY <1>4
    <3> QED BY <1>0, <3>1 DEF Target
  <2>3. status'[c] = Connected \/ Target(c)' => Settled(c)'
    BY <1>0, <2>0, <2>1, <2>2 DEF Progress
  <2>4. HasPlayer(c)' /\ status'[c] \notin {Connected, Disconnected} => Moving(Tasks(c)', c)
    <3>1. Moving(Tasks(c), c) => Moving(Tasks(c)', c)
      BY <1>9 DEF Moving, Keeps
    <3> QED BY <1>0, <2>0, <3>1 DEF Progress, Keeps
  <2>5. status'[c] # Disconnected \/ todo'[c] # <<>> => c \in ToSet(connected)'
    <3>1. todo'[c] # <<>> => todo[c] # <<>>
      BY <1>1, <1>9 DEF Keeps
    <3> QED BY <1>0, <2>0, <3>1 DEF Progress
  <2>6. Has(Tasks(c)', "close") => status'[c] = Disconnected
    <3>1. ASSUME NEW y \in Tasks(c)', y.do = "close" PROVE status[c] = Disconnected
      <4>1. CASE y \in Tasks(c)
        BY <2>0, <3>1, <4>1 DEF Progress, Has
      <4>2. CASE c = t /\ y \in M
        BY <3>1, <4>2 DEF Keeps
      <4> QED BY <1>9, <3>1, <4>1, <4>2 DEF Keeps
    <3> QED BY <1>0, <3>1 DEF Has
  <2>7. peer'[c] = "open" /\ (~HasPlayer(c)' \/ Has(Tasks(c)', "list")) => Sees(c)' = {}
    BY <1>10, <2>0 DEF Progress, Keeps
  <2> QED BY <2>3, <2>4, <2>5, <2>6, <2>7 DEF Progress
<1>12. ASSUME NEW c \in Clients PROVE Arrival(c)'
  <2>0. Arrival(c)
    BY DEF Alive
  <2>1. \A y \in Tasks(c)' : y \in Tasks(c) \/ (c = t /\ y \in M)
    BY <1>9 DEF Keeps
  <2>2. \A y \in Tasks(c)' : y.do = "packet" =>
          \/ y \in Tasks(c)
          \/ stage[c] \notin {"away", "handshake"} /\ inbox'[c] = <<>> /\ (Pings(y) => ~HasPlayer(c))
    BY <2>1 DEF Keeps
  <2>3. stage'[c] = "away" => todo'[c] = <<>>
    BY <1>0, <1>1, <1>9, <2>0 DEF Arrival, Keeps
  <2>4. stage'[c] \in {"away", "handshake"} => inbox'[c] = <<>> /\ ~HasPlayer(c)' /\ ~Has(Tasks(c)', "packet")
    BY <1>0, <2>0, <2>2 DEF Arrival, Keeps, Has
  <2>5. ASSUME NEW i \in DOMAIN inbox'[c], inbox'[c][i] = "LegacyPing"
        PROVE  i = 1 /\ ~HasPlayer(c)' /\ ~Has(Tasks(c)', "packet")
    <3>1. inbox'[c] # <<>>
      BY NilFacts
    <3>2. inbox'[c] = inbox[c]
      BY <3>1 DEF Keeps
    <3>3. i = 1 /\ ~HasPlayer(c) /\ ~Has(Tasks(c), "packet")
      BY <2>0, <2>5, <3>2 DEF Arrival
    <3>4. ~Has(Tasks(c)', "packet")
      BY <2>2, <3>1, <3>3 DEF Has
    <3> QED BY <3>3, <3>4 DEF Keeps
  <2>6. HasPing(Tasks(c)') => ~HasPlayer(c)'
    <3>1. ASSUME NEW y \in Tasks(c)', Pings(y) PROVE ~HasPlayer(c)
      BY <2>0, <2>2, <3>1 DEF Arrival, HasPing, Pings
    <3> QED BY <3>1 DEF HasPing, Keeps
  <2> QED BY <2>3, <2>4, <2>5, <2>6 DEF Arrival
<1> QED BY <1>5, <1>8, <1>11, <1>12 DEF Alive

-----------------------------------------------------------------------------
(* The steps that leave the screens as they are. *)

(* What a handler does to a client that is not in the game. *)
Meek(t, y) ==
  \/ Mild(y)
  \/ y.do = "status" /\ y.who = t /\ (y.list = <<Disconnected>> \/ y.list = <<LoggingIn>>)

MeekList(t, s) == IsSeq(s) /\ \A y \in ToSet(s) : Meek(t, y)

LEMMA MeekFacts ==
  ASSUME NEW t, NEW y, Meek(t, y)
  PROVE  /\ Light(y) /\ y.do \notin {"packet", "close", "loop", "read"} /\ \A d : Orders(y, d) => d = t
         /\ \A known, later : t \in Clients /\ ~known /\ ~Has(later, "close") => Right(t, known, y, later)
<1>1. CASE Mild(y)
  BY <1>1, MildFacts DEF Orders
<1>2. CASE y.do = "status" /\ y.who = t /\ (y.list = <<Disconnected>> \/ y.list = <<LoggingIn>>)
  <2>1. Light(y)
    BY <1>2, Statuses DEF Light, LogsIn
  <2>2. ASSUME NEW known, NEW later, t \in Clients, ~known, ~Has(later, "close") PROVE Right(t, known, y, later)
    BY <1>2, <2>2 DEF Right, RightStatus, Writes
  <2> QED BY <1>2, <2>1, <2>2 DEF Orders
<1> QED BY <1>1, <1>2 DEF Meek

LEMMA MeekListFacts ==
  ASSUME NEW t
  PROVE  /\ MeekList(t, <<>>)
         /\ \A s : MildList(s) => MeekList(t, s)
         /\ \A a, b : MeekList(t, a) /\ MeekList(t, b) => MeekList(t, a \o b)
         /\ MeekList(t, SetStatus(t, Disconnected)) /\ MeekList(t, SetStatus(t, LoggingIn))
<1>1. MeekList(t, <<>>)
  BY NilFacts DEF MeekList
<1>2. ASSUME NEW s, MildList(s) PROVE MeekList(t, s)
  BY <1>2 DEF MildList, MeekList, Meek
<1>3. ASSUME NEW a, NEW b, MeekList(t, a), MeekList(t, b) PROVE MeekList(t, a \o b)
  BY <1>3, CatSet DEF MeekList
<1>4. ASSUME NEW new \in {Disconnected, LoggingIn} PROVE MeekList(t, SetStatus(t, new))
  <2>1. PICK x : SetStatus(t, new) = <<x>> /\ x.do = "status" /\ x.who = t /\ x.list = <<new>>
    BY Constructors
  <2>2. Meek(t, x)
    BY <1>4, <2>1 DEF Meek
  <2> QED BY <2>1, <2>2, OneFacts DEF MeekList
<1> QED BY <1>1, <1>2, <1>3, <1>4

LEMMA MeekFine ==
  ASSUME NEW t \in Clients, NEW s, MeekList(t, s), NEW known, ~known, NEW later, ~Has(later, "close")
  PROVE  Fine(t, known, s, later)
<1>1. \A i \in DOMAIN s : Meek(t, s[i])
  BY DEF MeekList, ToSet
<1>2. ASSUME NEW i \in DOMAIN s PROVE Right(t, known, s[i], After(s, i) \cup later)
  <2>1. \A y \in After(s, i) : y.do # "close"
    BY <1>1, MeekFacts DEF After
  <2>2. ~Has(After(s, i) \cup later, "close")
    BY <2>1 DEF Has
  <2> QED BY <1>1, <2>2, MeekFacts
<1> QED BY <1>2 DEF Fine, MeekList

LEMMA MeekHandlers ==
  ASSUME NEW c \in Clients
  PROVE  /\ \A tell : MeekList(c, DisconnectClient(c, tell, FALSE))
         /\ MeekList(c, Write(<<Message("Handshake", c)>>) \o SetStatus(c, LoggingIn))
         /\ MeekList(c, Write(<<Message("Disconnect", c)>>) \o SendResponse(c) \o SetStatus(c, Disconnected))
         /\ MeekList(c, SetStatus(c, Disconnected))
<1>1. ASSUME NEW tell PROVE MeekList(c, DisconnectClient(c, tell, FALSE))
  <2>1. MeekList(c, IF tell THEN SendResponse(c) ELSE <<>>)
    BY MildTasks, MeekListFacts
  <2>2. MeekList(c, SetStatus(c, Disconnected) \o (IF tell THEN SendResponse(c) ELSE <<>>))
    BY <2>1, MeekListFacts
  <2>3. MeekList(c, <<>>)
    BY MeekListFacts
  <2>4. DisconnectClient(c, tell, FALSE) = (SetStatus(c, Disconnected) \o (IF tell THEN SendResponse(c) ELSE <<>>)) \o <<>>
    BY Zenon DEF DisconnectClient
  <2> QED BY <2>2, <2>3, <2>4, MeekListFacts
<1>2. /\ MeekList(c, Write(<<Message("Handshake", c)>>)) /\ MeekList(c, Write(<<Message("Disconnect", c)>>))
  BY WordlessFacts, MildTasks, MeekListFacts DEF Speechless
<1>3. MeekList(c, SendResponse(c)) /\ MeekList(c, SetStatus(c, Disconnected)) /\ MeekList(c, SetStatus(c, LoggingIn))
  BY MildTasks, MeekListFacts
<1>4. MeekList(c, Write(<<Message("Disconnect", c)>>) \o SendResponse(c))
  BY <1>2, <1>3, MeekListFacts
<1> QED BY <1>1, <1>2, <1>3, <1>4, MeekListFacts

LEMMA LoopTask ==
  /\ \A do : do \in {"loop", "read", "close"} =>
       /\ IsSeq(<<Task(do)>>) /\ ToSet(<<Task(do)>>) = {Task(do)} /\ Task(do).do = do
       /\ Light(Task(do)) /\ (do # "close" => ~Grave(Task(do))) /\ ~Pings(Task(do))
       /\ \A t, known : Fine(t, known, <<Task(do)>>, {})
<1>1. ASSUME NEW do, do \in {"loop", "read", "close"}, NEW t, NEW known
      PROVE  /\ Light(Task(do)) /\ (do # "close" => ~Grave(Task(do))) /\ ~Pings(Task(do)) /\ Right(t, known, Task(do), {})
  <2>1. PICK x : x = Task(do) /\ x.do = do
    BY Constructors
  <2>2. Light(x) /\ (do # "close" => ~Grave(x)) /\ ~Pings(x)
    BY <1>1, <2>1 DEF Light, Grave, Pings, LogsIn
  <2>3. Right(t, known, x, {})
    BY <1>1, <2>1 DEF Right, Writes
  <2> QED BY <2>1, <2>2, <2>3
<1> QED BY <1>1, OneFacts, FineOne, Constructors

(* The packets of a bundle. *)
LEMMA PacketsFacts ==
  ASSUME NEW c, NEW S, inbox[c] \in Seq(S)
  PROVE  /\ IsSeq(Packets(c)) /\ DOMAIN Packets(c) = DOMAIN inbox[c]
         /\ \A i \in DOMAIN inbox[c] : /\ Packets(c)[i].do = "packet"
                                       /\ Packets(c)[i].msgs[1].kind = inbox[c][i]
<1> DEFINE packet(i) == [Task("packet") EXCEPT !.msgs = <<Message(inbox[c][i], c)>>]
           P == {packet(i) : i \in DOMAIN inbox[c]}
<1>1. \A i \in DOMAIN inbox[c] : packet(i).do = "packet" /\ packet(i).msgs[1].kind = inbox[c][i]
  <2>1. ASSUME NEW i \in DOMAIN inbox[c] PROVE packet(i).do = "packet" /\ packet(i).msgs[1].kind = inbox[c][i]
    <3>1. PICK m : m = <<Message(inbox[c][i], c)>> /\ m[1] = Message(inbox[c][i], c)
      BY OneFacts
    <3>2. PICK x : x = [Task("packet") EXCEPT !.msgs = m]
      OBVIOUS
    <3>3. x.do = "packet" /\ x.msgs = m
      BY <3>2 DEF Task
    <3> QED BY <3>1, <3>2, <3>3 DEF Message
  <2> QED BY <2>1
<1>2. Len(inbox[c]) \in Nat /\ DOMAIN inbox[c] = 1 .. Len(inbox[c])
  BY LenProperties
<1>3. Packets(c) = [i \in DOMAIN inbox[c] |-> packet(i)]
  BY DEF Packets
<1>4. \A i \in DOMAIN inbox[c] : packet(i) \in P
  OBVIOUS
<1> HIDE DEF packet, P
<1>5. Packets(c) \in [1 .. Len(inbox[c]) -> P]
  BY <1>2, <1>3, <1>4
<1>6. Packets(c) \in Seq(P)
  BY <1>2, <1>5
<1>7. IsSeq(Packets(c))
  BY <1>6 DEF IsSeq
<1> QED BY <1>1, <1>3, <1>7

LEMMA PacketsFine ==
  ASSUME NEW c \in Clients, NEW S, inbox[c] \in Seq(S), NEW known, NEW later,
         \A i \in DOMAIN inbox[c] : inbox[c][i] = "LegacyPing" => i = 1,
         Carrying(later, OthersBuffer(c)), \A y \in later : ~Grave(y) /\ ~Pings(y)
  PROVE  /\ Fine(c, known, Packets(c), later)
         /\ \A y \in ToSet(Packets(c)) : /\ y.do = "packet" /\ Light(y)
                                         /\ Pings(y) => inbox[c] # <<>> /\ inbox[c][1] = "LegacyPing"
<1>1. PICK s, box : s = Packets(c) /\ box = inbox[c]
  OBVIOUS
<1>2. /\ IsSeq(s) /\ DOMAIN s = DOMAIN box
      /\ \A i \in DOMAIN s : s[i].do = "packet" /\ (Pings(s[i]) => box[i] = "LegacyPing")
  BY <1>1, PacketsFacts DEF Pings
<1>3. Len(s) \in Nat /\ DOMAIN s = 1 .. Len(s)
  BY <1>2, SeqFacts
<1>4. \A i \in DOMAIN s : Light(s[i]) /\ ~Grave(s[i])
  BY <1>2 DEF Light, Grave, LogsIn
<1>5. ASSUME NEW i \in DOMAIN s PROVE Right(c, known, s[i], After(s, i) \cup later)
  <2>1. ASSUME NEW y \in After(s, i) PROVE ~Grave(y) /\ ~Pings(y)
    <3>1. PICK j \in DOMAIN s : j > i /\ y = s[j]
      BY DEF After
    <3>2. j # 1
      BY <1>3, <3>1
    <3> QED BY <1>1, <1>2, <1>4, <3>1, <3>2
  <2>2. Carrying(After(s, i) \cup later, OthersBuffer(c))
    BY DEF Carrying
  <2>3. RightPacket(c, After(s, i) \cup later)
    BY <2>1, <2>2 DEF RightPacket
  <2> QED BY <1>2, <2>3 DEF Right, Writes
<1>6. Fine(c, known, s, later)
  BY <1>2, <1>5 DEF Fine
<1>7. ASSUME NEW y \in ToSet(s)
      PROVE  y.do = "packet" /\ Light(y) /\ (Pings(y) => box # <<>> /\ box[1] = "LegacyPing")
  <2>1. PICK i \in DOMAIN s : y = s[i]
    BY DEF ToSet
  <2>2. box # <<>>
    BY <1>2, <2>1, NilFacts
  <2> QED BY <1>1, <1>2, <1>4, <2>1, <2>2
<1> QED BY <1>1, <1>6, <1>7

LEMMA CarriesEnd ==
  ASSUME NEW c \in Clients
  PROVE  Carrying(ToSet(Broadcast(OthersBuffer(c), c)), OthersBuffer(c)) /\ Carrying(ToSet(EndOfBundle(c)), OthersBuffer(c))
<1>1. PICK x : Broadcast(OthersBuffer(c), c) = <<x>> /\ x.do = "broadcast" /\ x.buf = OthersBuffer(c) /\ x.who = c
  BY Constructors
<1>2. x \in ToSet(Broadcast(OthersBuffer(c), c)) /\ IsSeq(Broadcast(OthersBuffer(c), c)) /\ Carries(x, OthersBuffer(c))
  BY <1>1, OneFacts DEF Carries
<1>3. IsSeq(Broadcast(<<c, "all">>, Nobody)) /\ IsSeq(SendResponse(c))
  BY Constructors, OneFacts
<1>4. x \in ToSet(EndOfBundle(c))
  BY <1>2, <1>3, CatSet DEF EndOfBundle, OthersBuffer
<1> QED BY <1>2, <1>4 DEF Carrying

LEMMA BundleFine ==
  ASSUME NEW c \in Clients, NEW S, inbox[c] \in Seq(S), NEW known,
         \A i \in DOMAIN inbox[c] : inbox[c][i] = "LegacyPing" => i = 1,
         NEW s, s = Packets(c) \o <<Task("chunks")>> \o EndOfBundle(c) \o <<Task("loop")>>
  PROVE  /\ Fine(c, known, s, {})
         /\ \A y \in ToSet(s) : /\ Light(y) /\ y.do \notin {"status", "close"}
                                /\ Pings(y) => inbox[c] # <<>> /\ inbox[c][1] = "LegacyPing"
<1> DEFINE P == Packets(c)
           C == <<Task("chunks")>>
           E == EndOfBundle(c)
           L == <<Task("loop")>>
<1>1. /\ Fine(c, known, L, {}) /\ IsSeq(L)
      /\ \A y \in ToSet(L) : Light(y) /\ ~Grave(y) /\ ~Pings(y) /\ y.do \notin {"status", "close"}
  BY LoopTask
<1>2. MildList(C) /\ MildList(E)
  BY MildTasks
<1>3. \A y \in ToSet(C) \cup ToSet(E) : Light(y) /\ ~Grave(y) /\ ~Pings(y) /\ y.do \notin {"status", "close"}
  BY <1>2, MildFacts DEF MildList
<1>4. /\ IsSeq(C) /\ IsSeq(E)
      /\ Fine(c, known, E, ToSet(L) \cup {}) /\ Fine(c, known, C, ToSet(E) \cup (ToSet(L) \cup {}))
  BY <1>2, MildFine DEF MildList
<1>5. Carrying(ToSet(C) \cup (ToSet(E) \cup (ToSet(L) \cup {})), OthersBuffer(c))
  BY CarriesEnd DEF Carrying
<1>6. \A y \in ToSet(C) \cup (ToSet(E) \cup (ToSet(L) \cup {})) : ~Grave(y) /\ ~Pings(y)
  BY <1>1, <1>3
<1>7. /\ Fine(c, known, P, ToSet(C) \cup (ToSet(E) \cup (ToSet(L) \cup {})))
      /\ \A y \in ToSet(P) : y.do = "packet" /\ Light(y) /\ (Pings(y) => inbox[c] # <<>> /\ inbox[c][1] = "LegacyPing")
  BY <1>5, <1>6, PacketsFine
<1>8. IsSeq(P)
  BY <1>7 DEF Fine
<1> HIDE DEF P, C, E, L
<1>9. Fine(c, known, P \o C, ToSet(E) \cup (ToSet(L) \cup {}))
  BY <1>4, <1>7, FineCat
<1>10. Fine(c, known, (P \o C) \o E, ToSet(L) \cup {})
  BY <1>4, <1>9, FineCat
<1>11. Fine(c, known, ((P \o C) \o E) \o L, {})
  BY <1>1, <1>10, FineCat
<1>12. ToSet(((P \o C) \o E) \o L) = ((ToSet(P) \cup ToSet(C)) \cup ToSet(E)) \cup ToSet(L)
  <2>1. IsSeq(P \o C) /\ ToSet(P \o C) = ToSet(P) \cup ToSet(C)
    BY <1>4, <1>8, CatSet
  <2>2. IsSeq((P \o C) \o E) /\ ToSet((P \o C) \o E) = (ToSet(P) \cup ToSet(C)) \cup ToSet(E)
    BY <1>4, <2>1, CatSet
  <2> QED BY <1>1, <2>2, CatSet
<1>13. s = ((P \o C) \o E) \o L
  BY DEF P, C, E, L
<1>14. ASSUME NEW y \in ToSet(s)
       PROVE  /\ Light(y) /\ y.do \notin {"status", "close"}
              /\ Pings(y) => inbox[c] # <<>> /\ inbox[c][1] = "LegacyPing"
  BY <1>1, <1>3, <1>7, <1>12, <1>13
<1> QED BY <1>11, <1>13, <1>14

LEMMA HeadTask ==
  ASSUME AllFine, NEW t \in Threads, todo[t] # <<>>
  PROVE  /\ Tasks(t) = {Head(todo[t])} \cup ToSet(Tail(todo[t]))
         /\ Head(todo[t]) \in Tasks(t)
         /\ Right(t, Known(t), Head(todo[t]), ToSet(Tail(todo[t])))
         /\ IsSeq(Tail(todo[t])) /\ Fine(t, Known(t), Tail(todo[t]), {})
<1>1. Fine(t, Known(t), todo[t], {})
  BY DEF AllFine
<1>2. PICK s, known : s = todo[t] /\ known = Known(t)
  OBVIOUS
<1>3. Fine(t, known, s, {}) /\ s # <<>>
  BY <1>1, <1>2
<1>4. /\ ToSet(s) = {Head(s)} \cup ToSet(Tail(s)) /\ Right(t, known, Head(s), ToSet(Tail(s)))
      /\ IsSeq(Tail(s)) /\ Fine(t, known, Tail(s), {})
  BY <1>3, FineTail
<1>5. Head(s) \in ToSet(s)
  BY <1>4
<1> QED BY <1>2, <1>4, <1>5 DEF Tasks

LEMMA Undecided ==
  ASSUME Alive, NEW c \in Clients, todo[c] # <<>>, Head(todo[c]).do = "packet", status[c] \notin {Connected, Disconnected}
  PROVE  ~HasPlayer(c)
<1>1. SUFFICES ASSUME HasPlayer(c) PROVE FALSE
  OBVIOUS
<1>2. Progress(c) /\ Fine(c, Known(c), todo[c], {})
  BY DEF Alive, AllFine, Threads
<1>3. PICK y \in Tasks(c) : y.do = "status"
  BY <1>1, <1>2 DEF Progress, Moving
<1>4. RightPacket(c, ToSet(Tail(todo[c]))) /\ Tasks(c) = {Head(todo[c])} \cup ToSet(Tail(todo[c]))
  BY <1>2, FineTail DEF Right, Tasks
<1>5. Grave(y)
  BY <1>3 DEF Grave
<1> QED BY <1>3, <1>4, <1>5 DEF RightPacket

(* The first task tells nothing, and neither do those that replace it. *)
LEMMA LightStep ==
  ASSUME Shape, Alive, Types', NEW t \in Threads, t # listMutex, todo[t] # <<>>, NEW more, Follow(t, more),
         Light(Head(todo[t])), Head(todo[t]).do # "status",
         Fine(t, Known(t), more, ToSet(Tail(todo[t]))),
         UNCHANGED <<status, connected, stage, buffer, blurred, listMutex>>,
         \A c \in Clients : /\ HasPlayer(c)' <=> HasPlayer(c)
                            /\ peer'[c] = "open" => peer[c] = "open" /\ Sees(c)' = Sees(c)
                            /\ inbox'[c] = inbox[c] \/ inbox'[c] = <<>>,
         \A d \in Clients :
           Carries(Head(todo[t]), OthersBuffer(d)) => Carrying(ToSet(more), OthersBuffer(d)) \/ ~News(d),
         \A y \in ToSet(more) :
           /\ Light(y) /\ \A d : Orders(y, d) => d = t
           /\ y.do = "close" => status[t] = Disconnected
           /\ y.do = "packet" => stage[t] \notin {"away", "handshake"} /\ inbox'[t] = <<>> /\ (Pings(y) => ~HasPlayer(t))
  PROVE  Alive'
<1>1. IsSeq(more) /\ AllFine
  BY DEF Fine, Alive
<1>2. Tasks(t) = {Head(todo[t])} \cup ToSet(Tail(todo[t])) /\ Tasks(t)' = ToSet(more) \cup ToSet(Tail(todo[t]))
  BY <1>1, FollowFacts
<1>3. Alike(Tasks(t), Tasks(t)')
  BY <1>2, LightAlike
<1>4. \A y \in ToSet(more) : ~LogsIn(y)
  BY DEF Light
<1>5. \A u \in Threads \ {t} : todo'[u] = todo[u]
  BY <1>1, FollowFacts
<1>6. \A d \in Clients : Carrying(Tasks(t), OthersBuffer(d)) => Carrying(Tasks(t)', OthersBuffer(d)) \/ ~News(d)
  BY <1>2 DEF Carrying
<1>7. \A d : ~Orders(Head(todo[t]), d)
  BY DEF Orders
<1>8. (\A y \in Tasks(t)' : y \in ToSet(more) \/ y \in Tasks(t)) /\ (\A y \in Tasks(t) : y.do = "status" => y \in Tasks(t)')
  BY <1>2
<1>9. Keeps(t, ToSet(more))
  BY <1>3, <1>4, <1>5, <1>6, <1>7, <1>8 DEF Keeps
<1>10. (\A u \in Threads : Known(u)' = Known(u)) /\ Fine(t, Known(t)', more, ToSet(Tail(todo[t])))
  <2>1. \A u : Known(u) \in BOOLEAN /\ Known(u)' \in BOOLEAN
    BY DEF Known
  <2>2. \A u : Known(u)' <=> Known(u)
    BY DEF Known
  <2>3. \A u : Known(u)' = Known(u)
    BY <2>1, <2>2
  <2> QED BY <2>3
<1>11. AllFine'
  BY <1>1, <1>10, FineStep
<1> QED BY <1>9, <1>11, KeptAlive

(* A client that is not in the game gets something to do that keeps it out. *)
LEMMA MeekStep ==
  ASSUME Shape, Alive, Types', NEW c \in Clients, c # listMutex, todo[c] # <<>>, NEW more, Follow(c, more),
         MeekList(c, more), ~HasPlayer(c),
         Head(todo[c]).do \in {"packet", "read"},
         UNCHANGED <<status, connected, stage, peer, buffer, response, screen, blurred, listMutex>>,
         \A d \in Clients : HasPlayer(d)' <=> HasPlayer(d),
         \A d \in Clients : inbox'[d] = inbox[d] \/ inbox'[d] = <<>>
  PROVE  Alive'
<1>1. Light(Head(todo[c])) /\ Head(todo[c]).do # "status" /\ \A b : ~Carries(Head(todo[c]), b)
  BY DEF Light, LogsIn, Carries
<1>2. Fine(c, Known(c), more, ToSet(Tail(todo[c])))
  <2>1. ~Has(ToSet(Tail(todo[c])), "close")
    <3>1. Right(c, Known(c), Head(todo[c]), ToSet(Tail(todo[c])))
      <4>1. AllFine /\ c \in Threads
        BY DEF Alive, Threads
      <4> QED BY <4>1, HeadTask
    <3> QED BY <3>1 DEF Right, RightPacket, Grave, Has
  <2> QED BY <2>1, MeekFine DEF Known
<1>3. \A d \in Clients : Sees(d)' = Sees(d)
  BY DEF Sees
<1>4. \A y \in ToSet(more) : Light(y) /\ y.do \notin {"packet", "close"} /\ \A d : Orders(y, d) => d = c
  BY MeekFacts DEF MeekList
<1>5. c \in Threads
  BY DEF Threads
<1> QED BY <1>1, <1>2, <1>3, <1>4, <1>5, LightStep

(* Tasks that tell nothing of anybody take the place of one that does not. *)
LEMMA MildStep ==
  ASSUME Shape, Alive, Types', NEW t \in Threads, t # listMutex, todo[t] # <<>>, NEW more, Follow(t, more),
         MildList(more), Light(Head(todo[t])), Head(todo[t]).do # "status",
         UNCHANGED <<status, connected, person, stage, inbox, buffer, blurred, listMutex>>,
         \A c \in Clients : peer'[c] = "open" => peer[c] = "open" /\ Sees(c)' = Sees(c),
         \A d \in Clients : Carries(Head(todo[t]), OthersBuffer(d)) => ~News(d)
  PROVE  Alive'
<1>1. Fine(t, Known(t), more, ToSet(Tail(todo[t])))
  BY MildFine
<1>2. \A y \in ToSet(more) : Light(y) /\ y.do \notin {"status", "packet", "close"}
  BY MildFacts DEF MildList
<1>3. \A y \in ToSet(more) : \A d : ~Orders(y, d)
  BY <1>2 DEF Orders
<1>4. \A c \in Clients : (HasPlayer(c)' <=> HasPlayer(c)) /\ inbox'[c] = inbox[c]
  BY DEF HasPlayer
<1> QED BY <1>1, <1>2, <1>3, <1>4, LightStep

(* The test of the status in HandleClient: a thread whose client is         *)
(* disconnected goes on to its end, and nobody is connected there. *)
LEMMA LoopAlive ==
  ASSUME IInv, Alive, Types', NEW c \in Clients, Loop(c)
  PROVE  Alive'
<1> DEFINE do == IF status[c] > Disconnected THEN "read" ELSE "close"
<1>1. At(c, "loop") /\ Follow(c, <<Task(do)>>) /\ todo[c] # <<>> /\ Head(todo[c]).do = "loop"
  BY DEF Loop, At, Next1
<1>2. do \in {"read", "close"} /\ (do = "close" => status[c] = Disconnected)
  <2>1. status[c] \in 0 .. 3
    BY DEF Alive, Types
  <2> QED BY <2>1 DEF Disconnected
<1> HIDE DEF do
<1>3. PICK more : more = <<Task(do)>>
  OBVIOUS
<1>4. Follow(c, more)
  BY <1>1, <1>3
<1>5. /\ ToSet(more) = {Task(do)} /\ Task(do).do = do /\ Light(Task(do))
      /\ \A t, known : Fine(t, known, more, {})
  BY <1>2, <1>3, LoopTask
<1>6. c \in Threads /\ c # listMutex
  BY <1>1, NotBroadcasting DEF Threads
<1>7. ToSet(Tail(todo[c])) = {}
  <2>1. Fine(c, Known(c), todo[c], {})
    BY <1>6 DEF Alive, AllFine
  <2> QED BY <1>1, <2>1, FineTail DEF Right
<1>8. Fine(c, Known(c), more, ToSet(Tail(todo[c])))
  BY <1>5, <1>7
<1>9. Light(Head(todo[c])) /\ \A b : ~Carries(Head(todo[c]), b)
  BY <1>1 DEF Light, LogsIn, Carries
<1>10. /\ UNCHANGED <<status, connected, stage, buffer, blurred, listMutex, person, peer, inbox, screen, response>>
  BY DEF Loop, Socket
<1>11. \A d \in Clients : (HasPlayer(d)' <=> HasPlayer(d)) /\ Sees(d)' = Sees(d)
  BY <1>10 DEF HasPlayer, Sees
<1>12. \A y \in ToSet(more) : Light(y) /\ (\A d : ~Orders(y, d)) /\ y.do # "packet"
                              /\ (y.do = "close" => status[c] = Disconnected)
  BY <1>2, <1>5 DEF Orders
<1> QED BY <1>1, <1>4, <1>6, <1>8, <1>9, <1>10, <1>11, <1>12, LightStep DEF IInv

LEMMA ReadBundle ==
  ASSUME IInv, Alive, Types', NEW c \in Clients, At(c, "read"), inbox[c] # <<>>,
         Follow(c, Packets(c) \o <<Task("chunks")>> \o EndOfBundle(c) \o <<Task("loop")>>),
         inbox' = [inbox EXCEPT ![c] = <<>>],
         UNCHANGED <<status, connected, person, stage, peer, buffer, response, screen, blurred, listMutex>>
  PROVE  Alive'
<1>1. PICK more : more = Packets(c) \o <<Task("chunks")>> \o EndOfBundle(c) \o <<Task("loop")>>
  OBVIOUS
<1>2. Follow(c, more) /\ todo[c] # <<>> /\ Head(todo[c]).do = "read"
  BY <1>1 DEF At, Next1
<1>3. c \in Threads /\ c # listMutex
  BY NotBroadcasting DEF Threads
<1>4. ToSet(Tail(todo[c])) = {}
  <2>1. Fine(c, Known(c), todo[c], {})
    BY <1>3 DEF Alive, AllFine
  <2> QED BY <1>2, <2>1, FineTail DEF Right
<1>5. Arrival(c)
  BY DEF Alive
<1>6. /\ inbox[c] \in Seq(Words) /\ inbox'[c] = <<>> /\ \A d \in Clients : inbox'[d] = inbox[d] \/ inbox'[d] = <<>>
  BY DEF IInv, Shape
<1>7. \A i \in DOMAIN inbox[c] : inbox[c][i] = "LegacyPing" => i = 1
  BY <1>5 DEF Arrival
<1>8. /\ Fine(c, Known(c), more, {})
      /\ \A y \in ToSet(more) : /\ Light(y) /\ y.do \notin {"status", "close"}
                                /\ Pings(y) => inbox[c] # <<>> /\ inbox[c][1] = "LegacyPing"
  BY <1>1, <1>6, <1>7, BundleFine
<1>9. inbox[c][1] = "LegacyPing" => ~HasPlayer(c)
  <2>1. 1 \in DOMAIN inbox[c]
    BY <1>6
  <2> QED BY <1>5, <2>1 DEF Arrival
<1>10. stage[c] \notin {"away", "handshake"}
  BY <1>5 DEF Arrival
<1>11. Light(Head(todo[c])) /\ \A b : ~Carries(Head(todo[c]), b)
  BY <1>2 DEF Light, LogsIn, Carries
<1>12. \A d \in Clients : (HasPlayer(d)' <=> HasPlayer(d)) /\ Sees(d)' = Sees(d)
  BY DEF HasPlayer, Sees
<1>13. \A y \in ToSet(more) : /\ Light(y) /\ (\A d : ~Orders(y, d)) /\ y.do # "close"
                              /\ Pings(y) => ~HasPlayer(c)
  BY <1>8, <1>9 DEF Orders
<1> QED BY <1>2, <1>3, <1>4, <1>6, <1>8, <1>10, <1>11, <1>12, <1>13, LightStep DEF IInv

(* The packets that leave a client out of the game. *)
LEMMA OutsideAlive ==
  ASSUME IInv, Alive, Types', NEW c \in Clients,
         UNCHANGED <<connected, buffer, response, screen, blurred, listMutex>>, UNCHANGED Socket,
         \/ HandleHandshake(c) \/ HandleLegacyPing(c) \/ OutOfOrder(c)
         \/ /\ Handling(c, "LoginRequest") /\ status[c] = LoggingIn
            /\ Follow(c, DisconnectClient(c, TRUE, FALSE)) /\ UNCHANGED <<status, person>>
  PROVE  Alive'
<1>1. /\ At(c, "packet") /\ todo[c] # <<>> /\ Head(todo[c]).do = "packet"
      /\ status' = status
  BY DEF HandleHandshake, HandleLegacyPing, OutOfOrder, Handling, At, Next1
<1>2. c # listMutex
  BY <1>1, NotBroadcasting DEF Threads
<1>3. PICK more : Follow(c, more) /\ MeekList(c, more)
  BY MeekHandlers DEF HandleHandshake, HandleLegacyPing, OutOfOrder
<1>4. ~HasPlayer(c)
  <2>1. CASE HandleLegacyPing(c)
    <3>1. Pings(Head(todo[c]))
      BY <2>1 DEF HandleLegacyPing, Handling, At, Next1, Kind, Pings
    <3>2. Head(todo[c]) \in Tasks(c)
      <4>1. AllFine /\ c \in Threads /\ todo[c] # <<>>
        BY <1>1 DEF Alive, Threads
      <4> QED BY <4>1, HeadTask
    <3> QED BY <3>1, <3>2 DEF Alive, Arrival, HasPing
  <2>2. CASE ~HandleLegacyPing(c)
    <3>1. status[c] \in {Handshake, LoggingIn}
      BY <2>2 DEF HandleHandshake, OutOfOrder
    <3> QED BY <1>1, <3>1, Undecided, Statuses
  <2> QED BY <2>1, <2>2
<1>5. \A d \in Clients : HasPlayer(d)' <=> HasPlayer(d)
  <2>1. CASE person' = person
    BY <2>1 DEF HasPlayer
  <2>2. CASE person' = [person EXCEPT ![c] = "named"]
    <3>1. \A d \in Clients : person'[d] = IF d = c THEN "named" ELSE person[d]
      BY <2>2 DEF Alive, Types
    <3> QED BY <1>4, <3>1 DEF HasPlayer
  <2> QED BY <2>1, <2>2 DEF HandleHandshake, HandleLegacyPing, OutOfOrder
<1>6. UNCHANGED <<stage, inbox, peer>>
  BY DEF Socket
<1> QED BY <1>1, <1>2, <1>3, <1>4, <1>5, <1>6, MeekStep DEF IInv

LEMMA ReadClosed ==
  ASSUME IInv, Alive, Types', NEW c \in Clients, At(c, "read"), ~HasPlayer(c),
         Follow(c, DisconnectClient(c, FALSE, FALSE) \o <<Task("loop")>>),
         inbox' = [inbox EXCEPT ![c] = <<>>],
         UNCHANGED <<status, connected, person, stage, peer, buffer, response, screen, blurred, listMutex>>
  PROVE  Alive'
<1>1. PICK more : more = DisconnectClient(c, FALSE, FALSE) \o <<Task("loop")>>
  OBVIOUS
<1>2. Follow(c, more) /\ todo[c] # <<>> /\ Head(todo[c]).do = "read"
  BY <1>1 DEF At, Next1
<1>3. c \in Threads /\ c # listMutex
  BY NotBroadcasting DEF Threads
<1>4. ToSet(Tail(todo[c])) = {}
  <2>1. Fine(c, Known(c), todo[c], {})
    BY <1>3 DEF Alive, AllFine
  <2> QED BY <1>2, <2>1, FineTail DEF Right
<1>5. MeekList(c, DisconnectClient(c, FALSE, FALSE)) /\ IsSeq(DisconnectClient(c, FALSE, FALSE))
  BY MeekHandlers DEF MeekList
<1>6. Fine(c, Known(c), more, {})
  <2>1. Fine(c, Known(c), DisconnectClient(c, FALSE, FALSE), ToSet(<<Task("loop")>>) \cup {})
    <3>1. ~Has(ToSet(<<Task("loop")>>) \cup {}, "close")
      BY LoopTask DEF Has
    <3> QED BY <1>5, <3>1, MeekFine DEF Known
  <2>2. Fine(c, Known(c), <<Task("loop")>>, {})
    BY LoopTask
  <2> QED BY <1>1, <2>1, <2>2, FineCat
<1>7. ToSet(more) = ToSet(DisconnectClient(c, FALSE, FALSE)) \cup {Task("loop")}
  BY <1>1, <1>5, LoopTask, CatSet
<1>8. \A y \in ToSet(more) : Light(y) /\ (\A d : Orders(y, d) => d = c) /\ y.do # "close" /\ y.do # "packet"
  <2>1. \A y \in ToSet(DisconnectClient(c, FALSE, FALSE)) :
          Light(y) /\ (\A d : Orders(y, d) => d = c) /\ y.do # "close" /\ y.do # "packet"
    BY <1>5, MeekFacts DEF MeekList
  <2>2. Light(Task("loop")) /\ Task("loop").do = "loop" /\ \A d : ~Orders(Task("loop"), d)
    BY LoopTask DEF Orders
  <2> QED BY <1>7, <2>1, <2>2
<1>9. Light(Head(todo[c])) /\ \A b : ~Carries(Head(todo[c]), b)
  BY <1>2 DEF Light, LogsIn, Carries
<1>10. \A d \in Clients : (HasPlayer(d)' <=> HasPlayer(d)) /\ Sees(d)' = Sees(d)
  BY DEF HasPlayer, Sees
<1>11. \A d \in Clients : inbox'[d] = inbox[d] \/ inbox'[d] = <<>>
  BY DEF IInv, Shape
<1> QED BY <1>2, <1>3, <1>4, <1>6, <1>8, <1>9, <1>10, <1>11, LightStep DEF IInv

(* Packets that are passed over, and chunks: nothing a screen could tell. *)
LEMMA SkipAlive ==
  ASSUME IInv, Alive, Types', NEW c \in Clients, Skip(c) \/ SendNewChunks(c),
         UNCHANGED <<connected, buffer, response, screen, blurred, listMutex>>, UNCHANGED Socket
  PROVE  Alive'
<1>1. PICK do : /\ do \in {"packet", "chunks"} /\ At(c, do) /\ todo[c] # <<>> /\ Head(todo[c]).do = do
                /\ UNCHANGED <<status, person>>
  BY DEF Skip, SendNewChunks, At, Next1
<1>2. c \in Threads /\ c # listMutex
  BY <1>1, NotBroadcasting DEF Threads
<1>3. PICK more : Follow(c, more) /\ MildList(more)
  <2>1. MildList(Write(<<Message("Chunk", c)>>))
    BY WordlessFacts, MildTasks DEF Speechless
  <2> QED BY <2>1, MildListFacts DEF Skip, SendNewChunks
<1>4. Light(Head(todo[c])) /\ \A b : ~Carries(Head(todo[c]), b)
  BY <1>1 DEF Light, LogsIn, Carries
<1>5. UNCHANGED <<stage, inbox, peer>>
  BY DEF Socket
<1>6. \A d \in Clients : Sees(d)' = Sees(d)
  BY <1>5 DEF Sees
<1> QED BY <1>1, <1>2, <1>3, <1>4, <1>5, <1>6, MildStep DEF IInv

(* The handlers of the packets and commands that leave the status alone say *)
(* nothing of who comes or goes. *)
LEMMA HandleAlive ==
  ASSUME IInv, Alive, Types', NEW c \in Clients, HandlePacket(c),
         UNCHANGED <<connected, buffer, response, screen, blurred, listMutex>>, UNCHANGED Socket
  PROVE  Alive'
<1>1. /\ At(c, "packet") /\ todo[c] # <<>> /\ Head(todo[c]).do = "packet"
      /\ UNCHANGED <<status, person>>
  BY DEF HandlePacket, At, Next1
<1>2. c \in Threads /\ c # listMutex
  BY <1>1, NotBroadcasting DEF Threads
<1>3. PICK e \in Effects[Kind(c)] : Kind(c) \in DOMAIN Effects /\ Follow(c, Handle(c, e))
  BY DEF HandlePacket
<1>4. MildList(Handle(c, e))
  BY <1>3, EffectsMute, HandleMild DEF MuteSet
<1>5. Light(Head(todo[c])) /\ \A b : ~Carries(Head(todo[c]), b)
  BY <1>1 DEF Light, LogsIn, Carries
<1>6. UNCHANGED <<stage, inbox, peer>>
  BY DEF Socket
<1>7. \A d \in Clients : Sees(d)' = Sees(d)
  BY <1>6 DEF Sees
<1> QED BY <1>1, <1>2, <1>3, <1>4, <1>5, <1>6, <1>7, MildStep DEF IInv

(* A broadcast of an empty buffer, and a send that waits for its mutex.     *)
LEMMA NothingAlive ==
  ASSUME IInv, Alive, Types', NEW t \in Threads, NothingToBroadcast(t) \/ BeginSend(t)
  PROVE  Alive'
<1>1. PICK do : do \in {"broadcast", "send"} /\ At(t, do) /\ todo[t] # <<>> /\ Head(todo[t]).do = do
  BY DEF NothingToBroadcast, BeginSend, At, Next1
<1>2. UNCHANGED <<status, connected, person, stage, inbox, peer, buffer, response, screen, blurred, listMutex>>
  BY DEF NothingToBroadcast, BeginSend, statusUnchanged, Socket
<1>3. t # listMutex
  BY <1>1, NotBroadcasting
<1>4. PICK more : Follow(t, more) /\ MildList(more)
  <2>1. CASE Follow(t, <<>>)
    BY <2>1, MildListFacts
  <2>2. CASE Follow(t, <<[Next1(t) EXCEPT !.do = "sending"]>>)
    <3>1. PICK x : x = [Next1(t) EXCEPT !.do = "sending"]
      OBVIOUS
    <3>2. x.do = "sending"
      BY <3>1
    <3>3. MildList(<<x>>)
      BY <3>2, MildListFacts DEF Mild
    <3> QED BY <2>2, <3>1, <3>3
  <2> QED BY <2>1, <2>2 DEF NothingToBroadcast, BeginSend
<1>5. Light(Head(todo[t])) /\ Head(todo[t]).do # "status"
  BY <1>1 DEF Light, LogsIn
<1>6. ASSUME NEW d \in Clients, Carries(Head(todo[t]), OthersBuffer(d)) PROVE ~News(d)
  <2>1. buffer[OthersBuffer(d)] = <<>>
    BY <1>1, <1>6 DEF Carries, NothingToBroadcast, BeginSend, At, Next1
  <2> QED BY <2>1, NilFacts, EntitiesRule DEF News
<1>7. \A d \in Clients : Sees(d)' = Sees(d)
  BY <1>2 DEF Sees
<1> QED BY <1>1, <1>2, <1>3, <1>4, <1>5, <1>6, <1>7, MildStep DEF IInv

(* A write that has begun is still on its way. *)
LEMMA BeginWriteAlive ==
  ASSUME IInv, Alive, Types', NEW c \in Clients, BeginWrite(c)
  PROVE  Alive'
<1>1. At(c, "write") /\ todo[c] # <<>> /\ Head(todo[c]).do = "write"
  BY DEF BeginWrite, At, Next1
<1>2. UNCHANGED <<status, connected, person, stage, inbox, peer, buffer, response, screen, blurred, listMutex>>
  BY DEF BeginWrite, statusUnchanged, Socket
<1>3. c \in Threads /\ c # listMutex /\ AllFine /\ Shape
  BY <1>1, NotBroadcasting DEF Threads, Alive, IInv
<1>4. PICK x, more : x = [Next1(c) EXCEPT !.do = "wrote"] /\ more = <<x>>
  OBVIOUS
<1>5. Follow(c, more) /\ IsSeq(more) /\ ToSet(more) = {x}
  BY <1>4, OneFacts DEF BeginWrite
<1>6. PICK h, R : h = Head(todo[c]) /\ R = ToSet(Tail(todo[c]))
  OBVIOUS
<1>7. x.do = "wrote" /\ x.msgs = h.msgs /\ h.do = "write"
  BY <1>1, <1>4, <1>6 DEF Next1
<1>8. Right(c, Known(c), h, R) /\ Tasks(c) = {h} \cup R
  BY <1>1, <1>3, <1>6, HeadTask
<1>9. Tasks(c)' = {x} \cup R /\ \A u \in Threads \ {c} : todo'[u] = todo[u]
  BY <1>1, <1>3, <1>5, <1>6, FollowFacts
<1>10. Right(c, Known(c), x, R)
  BY <1>7, <1>8 DEF Right, RightWrite, Writes, Wordy
<1>11. Alike(Tasks(c), Tasks(c)')
  <2>1. ~LogsIn(h) /\ ~LogsIn(x) /\ \A d : ~PutsGone(h, d) /\ ~PutsGone(x, d) /\ ~PutsSpawn(h, d) /\ ~PutsSpawn(x, d)
    BY <1>7 DEF LogsIn, PutsGone, PutsSpawn
  <2>2. \A d : Writes(h) /\ d \in Entities(h.msgs) <=> Writes(x) /\ d \in Entities(x.msgs)
    BY <1>7 DEF Writes
  <2>3. (HasLogin(Tasks(c)) <=> HasLogin(Tasks(c)')) /\ (Has(Tasks(c), "list") <=> Has(Tasks(c)', "list"))
    BY <1>7, <1>8, <1>9, <2>1 DEF HasLogin, Has
  <2>4. ASSUME NEW d
        PROVE  /\ Writing(Tasks(c), d) <=> Writing(Tasks(c)', d)
               /\ Spawning(Tasks(c), d) <=> Spawning(Tasks(c)', d)
               /\ Going(Tasks(c), d) <=> Going(Tasks(c)', d)
    BY <1>8, <1>9, <2>1, <2>2 DEF Writing, Spawning, Going
  <2> QED BY <2>3, <2>4 DEF Alike
<1>12. AllFine'
  <2>1. \A u : Known(u)' = Known(u)
    BY <1>2 DEF Known, HasPlayer
  <2>2. Fine(c, Known(c), more, R)
    BY <1>4, <1>10, FineOne
  <2> QED BY <1>1, <1>3, <1>5, <1>6, <2>1, <2>2, FineStep
<1>13. Keeps(c, {x})
  <2>1. \A d : ~Orders(h, d) /\ ~Orders(x, d) /\ ~Carries(h, OthersBuffer(d)) /\ ~LogsIn(x)
    BY <1>7 DEF Orders, Carries, LogsIn
  <2>2. \A d : Carrying(Tasks(c), OthersBuffer(d)) => Carrying(Tasks(c)', OthersBuffer(d))
    BY <1>8, <1>9, <2>1 DEF Carrying
  <2>3. \A d \in Clients : (HasPlayer(d)' <=> HasPlayer(d)) /\ Sees(d)' = Sees(d) /\ peer'[d] = peer[d] /\ inbox'[d] = inbox[d]
    BY <1>2 DEF HasPlayer, Sees
  <2>4. (\A y \in Tasks(c)' : y \in {x} \/ y \in Tasks(c)) /\ (\A y \in Tasks(c) : y.do = "status" => y \in Tasks(c)')
    BY <1>7, <1>8, <1>9
  <2>5. UNCHANGED <<status, connected, stage, buffer, blurred, listMutex>> /\ c \in Threads /\ c # listMutex /\ todo[c] # <<>>
    BY <1>1, <1>2, <1>3
  <2> QED BY <1>6, <1>7, <1>9, <1>11, <2>1, <2>2, <2>3, <2>4, <2>5 DEF Keeps
<1> QED BY <1>3, <1>12, <1>13, KeptAlive

(* A batch that no screen can tell. *)
LEMMA QuietWriteAlive ==
  ASSUME IInv, Alive, Types', NEW t \in Threads, t # listMutex, todo[t] # <<>>, Follow(t, <<>>),
         \/ Head(todo[t]).do = "wrote" /\ Entities(Head(todo[t]).msgs) = {}
         \/ Head(todo[t]).do = "append",
         UNCHANGED <<status, connected, person, stage, inbox, peer, buffer, response, screen, blurred, listMutex>>
  PROVE  Alive'
<1>1. Light(Head(todo[t])) /\ Head(todo[t]).do # "status" /\ \A b : ~Carries(Head(todo[t]), b)
  BY DEF Light, LogsIn, Carries, Wordy
<1>2. \A d \in Clients : Sees(d)' = Sees(d)
  BY DEF Sees
<1>3. PICK more : Follow(t, more) /\ MildList(more)
  BY MildListFacts
<1> QED BY <1>1, <1>2, <1>3, MildStep DEF IInv

(* What is sent moves from the response to the screen, or the client no     *)
(* longer listens. *)
LEMMA SentAlive ==
  ASSUME IInv, Alive, Types', NEW t \in Threads, Sent(t)
  PROVE  Alive'
<1>1. At(t, "sending") /\ todo[t] # <<>> /\ Head(todo[t]).do = "sending" /\ Follow(t, <<>>)
  BY DEF Sent, At, Next1
<1>2. UNCHANGED <<status, connected, person, stage, inbox, buffer, blurred, listMutex>>
  BY DEF Sent, statusUnchanged
<1>3. t # listMutex
  BY <1>1, NotBroadcasting
<1>4. Light(Head(todo[t])) /\ \A b : ~Carries(Head(todo[t]), b)
  BY <1>1 DEF Light, LogsIn, Carries
<1>5. PICK more : Follow(t, more) /\ MildList(more)
  BY <1>1, MildListFacts
<1>6. PICK a : a = Head(todo[t]).who
  OBVIOUS
<1>7. \A d \in Clients : response'[d] = IF d = a THEN <<>> ELSE response[d]
  BY <1>6 DEF Sent, Next1, IInv, Shape
<1>8. ASSUME NEW d \in Clients PROVE peer'[d] = "open" => peer[d] = "open" /\ Sees(d)' = Sees(d)
  <2>1. CASE peer[a] = "open" /\ peer' = peer
             /\ screen' = [screen EXCEPT ![a] = Shows(@, FlattenSeq([i \in DOMAIN response[a] |-> response[a][i].msgs]))]
    <3>1. CASE d = a
      <4>1. screen'[d] = SeesIn(screen[d], response[d])
        BY <2>1, <3>1 DEF Alive, Types, SeesIn, Said
      <4>2. response'[d] = <<>>
        BY <1>7, <3>1
      <4>3. Sees(d)' = screen'[d]
        BY <4>2, SeesNil DEF Sees
      <4> QED BY <2>1, <4>1, <4>3 DEF Sees
    <3>2. CASE d # a
      <4>1. screen'[d] = screen[d]
        BY <2>1, <3>2 DEF Alive, Types
      <4>2. response'[d] = response[d]
        BY <1>7, <3>2
      <4> QED BY <2>1, <4>1, <4>2 DEF Sees
    <3> QED BY <3>1, <3>2
  <2>2. CASE screen' = screen /\ peer[a] # "open" /\ (peer' = peer \/ peer' = [peer EXCEPT ![a] = "reset"])
    <3>1. CASE d = a
      <4>1. peer'[d] # "open"
        BY <2>2, <3>1 DEF Alive, Types
      <4> QED BY <4>1
    <3>2. CASE d # a
      <4>1. response'[d] = response[d] /\ screen'[d] = screen[d] /\ peer'[d] = peer[d]
        BY <1>7, <2>2, <3>2 DEF Alive, Types
      <4> QED BY <4>1 DEF Sees
    <3> QED BY <3>1, <3>2
  <2>3. \/ /\ peer[a] = "open" /\ peer' = peer
           /\ screen' = [screen EXCEPT ![a] = Shows(@, FlattenSeq([i \in DOMAIN response[a] |-> response[a][i].msgs]))]
        \/ screen' = screen /\ peer[a] # "open" /\ (peer' = peer \/ peer' = [peer EXCEPT ![a] = "reset"])
    BY <1>6 DEF Sent, Next1
  <2> QED BY <2>1, <2>2, <2>3
<1> QED BY <1>1, <1>2, <1>3, <1>4, <1>5, <1>8, MildStep DEF IInv

(* The main loop's broadcast is of the time. *)
LEMMA TimeAlive ==
  ASSUME IInv, Alive, Types', BroadcastTime
  PROVE  Alive'
<1>1. Main \in Threads /\ Main # listMutex /\ Main \notin Clients
  BY ConnectionAssumption DEF BroadcastTime, Threads, IInv, InOrder, Looping, Appending, Main
<1>2. UNCHANGED <<status, connected, person, stage, inbox, peer, buffer, response, screen, blurred, listMutex>>
  BY DEF BroadcastTime, statusUnchanged
<1>3. PICK new : new = Now(Main, <<Message("TimeUpdate", Main)>>) /\ MildList(new)
  BY <1>1, WordlessFacts, MildTasks DEF Speechless
<1>4. todo[Main] = <<>> /\ todo' = [todo EXCEPT ![Main] = new]
  BY <1>3 DEF BroadcastTime
<1>5. todo'[Main] = new /\ \A u \in Threads \ {Main} : todo'[u] = todo[u]
  BY <1>1, <1>4 DEF IInv, Shape
<1>6. Tasks(Main) = {} /\ Tasks(Main)' = ToSet(new)
  BY <1>4, <1>5, NilFacts DEF Tasks
<1>7. \A y \in ToSet(new) :
        /\ ~LogsIn(y) /\ y.do \notin {"list", "status", "close", "packet"}
        /\ \A d : ~PutsGone(y, d) /\ ~PutsSpawn(y, d) /\ ~(Writes(y) /\ d \in Entities(y.msgs)) /\ ~Orders(y, d)
  BY <1>3, MildFacts, LightFacts DEF MildList, Orders
<1>8. AllFine'
  <2>1. \A u : Known(u)' = Known(u)
    BY <1>2 DEF Known, HasPlayer
  <2>2. Fine(Main, Known(Main), new, {})
    BY <1>3, MildFine
  <2>3. ASSUME NEW u \in Threads PROVE Fine(u, Known(u)', todo'[u], {})
    BY <1>5, <2>1, <2>2 DEF Alive, AllFine
  <2> QED BY <2>3 DEF AllFine
<1>9. Alike(Tasks(Main), Tasks(Main)')
  <2>1. (HasLogin(Tasks(Main)) <=> HasLogin(Tasks(Main)')) /\ (Has(Tasks(Main), "list") <=> Has(Tasks(Main)', "list"))
    BY <1>6, <1>7 DEF HasLogin, Has
  <2>2. ASSUME NEW d
        PROVE  /\ Writing(Tasks(Main), d) <=> Writing(Tasks(Main)', d)
               /\ Spawning(Tasks(Main), d) <=> Spawning(Tasks(Main)', d)
               /\ Going(Tasks(Main), d) <=> Going(Tasks(Main)', d)
    BY <1>6, <1>7 DEF Writing, Spawning, Going
  <2> QED BY <2>1, <2>2 DEF Alike
<1>10. Keeps(Main, ToSet(new))
  <2>1. \A d \in Clients : ~Going(Tasks(Main), d) /\ ~Carrying(Tasks(Main), OthersBuffer(d))
    BY <1>6 DEF Going, Carrying
  <2>2. \A d \in Clients : (HasPlayer(d)' <=> HasPlayer(d)) /\ Sees(d)' = Sees(d) /\ peer'[d] = peer[d] /\ inbox'[d] = inbox[d]
    BY <1>2 DEF HasPlayer, Sees
  <2>3. (\A y \in Tasks(Main)' : y \in ToSet(new)) /\ \A y \in Tasks(Main) : FALSE
    BY <1>6
  <2>4. UNCHANGED <<status, connected, stage, buffer, blurred, listMutex>>
    BY <1>2
  <2> QED BY <1>1, <1>5, <1>7, <1>9, <2>1, <2>2, <2>3, <2>4 DEF Keeps
<1> QED BY <1>8, <1>10, KeptAlive DEF IInv

(* What an unknown packet cuts off is packets only: the broadcasts of the   *)
(* bundle remain. *)
LEMMA UnhandledAlive ==
  ASSUME IInv, Alive, Types', NEW c \in Clients, Unhandled(c),
         UNCHANGED <<connected, buffer, response, screen, blurred, listMutex>>, UNCHANGED Socket
  PROVE  Alive'
<1>1. /\ At(c, "packet") /\ todo[c] # <<>> /\ Head(todo[c]).do = "packet"
      /\ UNCHANGED <<status, person>>
  BY DEF Unhandled, Handling, At, Next1
<1>2. c \in Threads /\ c # listMutex
  BY <1>1, NotBroadcasting DEF Threads
<1>3. PICK n \in DOMAIN todo[c] :
        /\ \A i \in DOMAIN todo[c] : todo[c][i].do = "packet" <=> i < n
        /\ todo' = [todo EXCEPT ![c] = SubSeq(@, n, Len(@))]
  BY DEF Unhandled
<1>4. PICK s, r : s = todo[c] /\ r = SubSeq(s, n, Len(s)) /\ n \in DOMAIN s
  BY <1>3
<1>5. todo'[c] = r /\ \A u \in Threads \ {c} : todo'[u] = todo[u]
  BY <1>2, <1>3, <1>4 DEF IInv, Shape
<1>6. Fine(c, Known(c), s, {})
  BY <1>2, <1>4 DEF Alive, AllFine
<1>7. Fine(c, Known(c), r, {}) /\ \A y : y \in ToSet(r) <=> \E i \in DOMAIN s : n <= i /\ y = s[i]
  BY <1>4, <1>6, FineDrop
<1>8. (\A y \in ToSet(r) : y \in ToSet(s)) /\ \A y \in ToSet(s) : y \in ToSet(r) \/ y.do = "packet"
  <2>1. \A y : y \in ToSet(s) <=> \E i \in DOMAIN s : y = s[i]
    BY DEF ToSet
  <2>2. DOMAIN s = 1 .. Len(s)
    BY <1>6, SeqFacts DEF Fine
  <2>3. \A i \in DOMAIN s : n <= i \/ i < n
    BY <1>4, <2>2
  <2>4. \A i \in DOMAIN s : i < n => s[i].do = "packet"
    BY <1>3, <1>4
  <2> QED BY <1>7, <2>1, <2>3, <2>4
<1>9. Tasks(c) = ToSet(s) /\ Tasks(c)' = ToSet(r)
  BY <1>4, <1>5 DEF Tasks
<1>10. UNCHANGED <<stage, inbox, peer>>
  BY DEF Socket
<1>11. AllFine'
  <2>1. \A u : Known(u)' = Known(u)
    BY <1>1 DEF Known, HasPlayer
  <2>2. ASSUME NEW u \in Threads PROVE Fine(u, Known(u)', todo'[u], {})
    BY <1>5, <1>7, <2>1, <2>2 DEF Alive, AllFine
  <2> QED BY <2>2 DEF AllFine
<1>12. \A y : y.do = "packet" => /\ ~LogsIn(y) /\ ~Writes(y) /\ \A b : ~Carries(y, b)
                                 /\ \A d : ~PutsGone(y, d) /\ ~PutsSpawn(y, d) /\ ~Orders(y, d)
  BY DEF LogsIn, Writes, Carries, PutsGone, PutsSpawn, Orders
<1>13. Alike(Tasks(c), Tasks(c)')
  <2>1. (HasLogin(Tasks(c)) <=> HasLogin(Tasks(c)')) /\ (Has(Tasks(c), "list") <=> Has(Tasks(c)', "list"))
    BY <1>8, <1>9, <1>12 DEF HasLogin, Has
  <2>2. ASSUME NEW d
        PROVE  /\ Writing(Tasks(c), d) <=> Writing(Tasks(c)', d)
               /\ Spawning(Tasks(c), d) <=> Spawning(Tasks(c)', d)
               /\ Going(Tasks(c), d) <=> Going(Tasks(c)', d)
    BY <1>8, <1>9, <1>12 DEF Writing, Spawning, Going
  <2> QED BY <2>1, <2>2 DEF Alike
<1>14. Keeps(c, {})
  <2>1. \A d : ~Orders(Head(todo[c]), d)
    BY <1>1, <1>12
  <2>2. \A d : Carrying(Tasks(c), OthersBuffer(d)) => Carrying(Tasks(c)', OthersBuffer(d))
    BY <1>8, <1>9, <1>12 DEF Carrying
  <2>3. \A d \in Clients : (HasPlayer(d)' <=> HasPlayer(d)) /\ Sees(d)' = Sees(d) /\ peer'[d] = peer[d] /\ inbox'[d] = inbox[d]
    BY <1>1, <1>10 DEF HasPlayer, Sees
  <2>4. (\A y \in Tasks(c)' : y \in {} \/ y \in Tasks(c)) /\ (\A y \in Tasks(c) : y.do = "status" => y \in Tasks(c)')
    BY <1>8, <1>9
  <2>5. UNCHANGED <<status, connected, stage, buffer, blurred, listMutex>>
    BY <1>1, <1>10
  <2> QED BY <1>1, <1>2, <1>5, <1>13, <2>1, <2>2, <2>3, <2>4, <2>5 DEF Keeps
<1> QED BY <1>11, <1>14, KeptAlive DEF IInv

(* The game at the other end does something. *)
LEMMA GameAlive ==
  ASSUME IInv, Alive, Types', NEW c \in Clients, Enter(c) \/ Play(c) \/ Leave(c)
  PROVE  Alive'
<1>1. UNCHANGED <<status, connected, person, todo, buffer, response, listMutex, screen, blurred>>
  BY DEF Enter, Play, Leave, gameUnchanged
<1>2. Shape /\ c \in Threads /\ Main \in Threads /\ Main # c
  BY ConnectionAssumption DEF IInv, Threads, Main
<1>3. AllFine'
  <2>1. \A u : Known(u)' = Known(u)
    BY <1>1 DEF Known, HasPlayer
  <2> QED BY <1>1, <2>1 DEF Alive, AllFine
<1>4. Rounds'
  BY <1>1, RoundsKept DEF Alive
<1>5. \A d \in Clients : peer'[d] = "open" => peer[d] = "open"
  <2>1. CASE peer' = peer
    BY <2>1
  <2>2. CASE peer' = [peer EXCEPT ![c] = "closed"]
    BY <2>2 DEF Alive, Types
  <2> QED BY <2>1, <2>2 DEF Enter, Play, Leave
<1>6. \A d \in Clients : (HasPlayer(d)' <=> HasPlayer(d)) /\ Sees(d)' = Sees(d)
  BY <1>1 DEF HasPlayer, Sees
<1>7. \A u \in Threads : todo'[u] = todo[u] /\ Tasks(u)' = Tasks(u)
  BY <1>1 DEF Tasks
<1>8. Told'
  <2>1. PICK t \in Threads : t # listMutex
    BY <1>2
  <2>2. Alike(Tasks(t), Tasks(t)')
    BY <1>7 DEF Alike
  <2>3. Same(t)
    BY <1>1, <1>5, <1>6, <1>7, <2>1, <2>2 DEF Same
  <2> QED BY <1>2, <2>3, SameTold DEF Alive, Shape
<1>9. ASSUME NEW d \in Clients PROVE Progress(d)'
  <2>1. d \in Threads /\ Progress(d)
    BY DEF Threads, Alive
  <2>2. (Settled(d)' <=> Settled(d)) /\ (Target(d)' <=> Target(d))
    BY <1>1, <1>6, <1>7, <2>1 DEF Settled, Target
  <2> QED BY <1>1, <1>5, <1>6, <1>7, <2>1, <2>2 DEF Progress
<1>10. ASSUME NEW d \in Clients PROVE Arrival(d)'
  <2>1. d \in Threads /\ Arrival(d)
    BY DEF Threads, Alive
  <2>2. Tasks(d)' = Tasks(d) /\ (HasPlayer(d)' <=> HasPlayer(d)) /\ todo'[d] = todo[d]
    BY <1>6, <1>7, <2>1
  <2>3. CASE stage'[d] = stage[d] /\ inbox'[d] = inbox[d]
    BY <2>1, <2>2, <2>3 DEF Arrival
  <2>4. CASE stage'[d] = "left" /\ inbox'[d] = inbox[d]
    BY <2>1, <2>2, <2>4 DEF Arrival
  <2>5. ASSUME NEW kind, inbox'[d] = Append(inbox[d], kind), stage'[d] \in {"login", "play"},
               kind = "LegacyPing" => stage[d] = "handshake"
        PROVE  Arrival(d)'
    <3>1. PICK n, old, new : n = Len(old) /\ old = inbox[d] /\ new = inbox'[d] /\ old \in Seq(Words)
      BY DEF IInv, Shape
    <3>2. /\ n \in Nat /\ DOMAIN old = 1 .. n /\ DOMAIN new = 1 .. n + 1
          /\ \A i \in 1 .. n : new[i] = old[i]
          /\ new[n + 1] = kind
      <4>1. new = Append(old, kind)
        BY <2>5, <3>1
      <4>2. PICK S : S = Words \cup {kind}
        OBVIOUS
      <4>3. old \in Seq(S) /\ kind \in S
        BY <3>1, <4>2, SeqMonotonic
      <4> QED BY <3>1, <4>1, <4>3
    <3>3. ASSUME NEW i \in DOMAIN new, new[i] = "LegacyPing"
          PROVE  i = 1 /\ ~HasPlayer(d) /\ ~Has(Tasks(d), "packet")
      <4>1. CASE i \in 1 .. n
        BY <2>1, <3>1, <3>2, <3>3, <4>1 DEF Arrival
      <4>2. CASE i = n + 1
        <5>1. stage[d] = "handshake"
          BY <2>5, <3>2, <3>3, <4>2
        <5>2. old = <<>> /\ ~HasPlayer(d) /\ ~Has(Tasks(d), "packet")
          BY <2>1, <3>1, <5>1 DEF Arrival
        <5>3. n = 0
          BY <3>1, <5>2
        <5> QED BY <4>2, <5>2, <5>3
      <4> QED BY <3>2, <3>3, <4>1, <4>2
    <3> QED BY <2>1, <2>2, <2>5, <3>1, <3>3 DEF Arrival
  <2>6. \A e \in Clients : e # c => stage'[e] = stage[e] /\ inbox'[e] = inbox[e]
    BY DEF Enter, Play, Leave, IInv, Shape
  <2>7. CASE d = c /\ Enter(c)
    <3>1. CASE stage[c] = "handshake"
      <4>1. PICK kind \in First : inbox' = [inbox EXCEPT ![c] = Append(@, kind)] /\ stage' = [stage EXCEPT ![c] = "login"]
        BY <2>7, <3>1 DEF Enter
      <4>2. inbox'[c] = Append(inbox[c], kind) /\ stage'[c] = "login"
        BY <4>1 DEF IInv, Shape
      <4> QED BY <2>5, <2>7, <3>1, <4>2
    <3>2. CASE stage[c] = "login"
      <4>1. inbox' = [inbox EXCEPT ![c] = Append(@, "LoginRequest")] /\ stage' = [stage EXCEPT ![c] = "play"]
        BY <2>7, <3>2 DEF Enter
      <4>2. inbox'[c] = Append(inbox[c], "LoginRequest") /\ stage'[c] = "play"
        BY <4>1 DEF IInv, Shape
      <4> QED BY <2>5, <2>7, <4>2
    <3> QED BY <2>7, <3>1, <3>2 DEF Enter
  <2>8. CASE d = c /\ Play(c)
    <3>1. PICK kind \in Kinds : inbox' = [inbox EXCEPT ![c] = Append(@, kind)] /\ stage' = stage /\ stage[c] = "play"
      BY <2>8 DEF Play
    <3>2. inbox'[c] = Append(inbox[c], kind) /\ stage'[c] = "play"
      BY <3>1 DEF IInv, Shape
    <3>3. kind # "LegacyPing"
      BY ConnectionAssumption, EffectsMute
    <3> QED BY <2>5, <2>8, <3>2, <3>3
  <2>9. CASE d = c /\ Leave(c)
    <3>1. stage'[c] = "left" /\ inbox' = inbox
      BY <2>9 DEF Leave, IInv, Shape
    <3> QED BY <2>4, <2>9, <3>1
  <2> QED BY <2>3, <2>6, <2>7, <2>8, <2>9
<1> QED BY <1>3, <1>4, <1>8, <1>9, <1>10 DEF Alive

LEMMA NoTask ==
  ASSUME NEW s, IsSeq(s), ToSet(s) = {}
  PROVE  s = <<>>
<1>1. PICK S : s \in Seq(S)
  BY DEF IsSeq
<1>2. Len(s) \in Nat /\ DOMAIN s = 1 .. Len(s)
  BY SeqFacts
<1>3. ASSUME Len(s) # 0 PROVE FALSE
  <2>1. 1 \in DOMAIN s
    BY <1>2, <1>3
  <2>2. s[1] \in ToSet(s)
    BY <2>1 DEF ToSet
  <2> QED BY <2>2
<1> QED BY <1>1, <1>3, EmptySeq

LEMMA RemoveKeeps ==
  ASSUME NEW S, NEW s \in Seq(S), NEW i \in DOMAIN s, NEW j \in DOMAIN s, j # i
  PROVE  \E k \in DOMAIN RemoveAt(s, i) : RemoveAt(s, i)[k] = s[j]
<1>1. PICK n : n = Len(s) /\ n \in Nat /\ DOMAIN s = 1 .. n /\ i \in 1 .. n /\ j \in 1 .. n
  BY LenProperties
<1>2. PICK a, b :
        /\ RemoveAt(s, i) = a \o b
        /\ a \in Seq(S) /\ Len(a) = i - 1 /\ \A k \in 1 .. i - 1 : a[k] = s[k]
        /\ b \in Seq(S) /\ Len(b) = n - i /\ \A k \in 1 .. n - i : b[k] = s[i + k]
  <2> DEFINE x == SubSeq(s, 1, i - 1)
             y == SubSeq(s, i + 1, Len(s))
  <2>1. /\ x \in Seq(S) /\ Len(x) = i - 1 /\ \A k \in 1 .. i - 1 : x[k] = s[k]
        /\ y \in Seq(S) /\ Len(y) = Len(s) - i /\ \A k \in 1 .. Len(s) - i : y[k] = s[i + k]
    <3>1. Len(s) \in Nat /\ DOMAIN s = 1 .. Len(s) /\ i \in 1 .. Len(s)
      OBVIOUS
    <3>2. x \in Seq(S) /\ Len(x) = i - 1 /\ \A k \in 1 .. i - 1 : x[k] = s[k]
      BY <3>1
    <3>3. y \in Seq(S) /\ Len(y) = Len(s) - i /\ \A k \in 1 .. Len(s) - i : y[k] = s[i + k]
      BY <3>1
    <3> QED BY <3>2, <3>3
  <2>2. RemoveAt(s, i) = x \o y
    BY DEF RemoveAt
  <2> HIDE DEF x, y
  <2>3. Len(y) = n - i /\ \A k \in 1 .. n - i : y[k] = s[i + k]
    BY <1>1, <2>1
  <2> QED BY <2>1, <2>2, <2>3, Zenon
<1>3. PICK r : r = a \o b /\ r = RemoveAt(s, i)
  BY <1>2
<1>4. /\ DOMAIN r = 1 .. Len(a) + Len(b)
      /\ \A k \in 1 .. Len(a) : r[k] = a[k]
      /\ \A k \in Len(a) + 1 .. Len(a) + Len(b) : r[k] = b[k - Len(a)]
  <2>1. a \in Seq(S) /\ b \in Seq(S) /\ r = a \o b
    BY <1>2, <1>3
  <2> QED BY <2>1, ConcatProperties
<1>5. CASE j < i
  <2>1. j \in 1 .. i - 1 /\ j \in 1 .. (i - 1) + (n - i)
    BY <1>1, <1>5
  <2> QED BY <1>2, <1>3, <1>4, <2>1
<1>6. CASE j > i
  <2>1. PICK k : /\ k = j - 1 /\ k \in (i - 1) + 1 .. (i - 1) + (n - i) /\ k \in 1 .. (i - 1) + (n - i)
                 /\ k - (i - 1) \in 1 .. n - i /\ i + (k - (i - 1)) = j
    BY <1>1, <1>6
  <2>2. k \in DOMAIN r /\ r[k] = b[k - Len(a)]
    BY <1>2, <1>4, <2>1
  <2>3. b[k - Len(a)] = s[j]
    BY <1>2, <2>1
  <2> QED BY <1>3, <2>2, <2>3
<1> QED BY <1>1, <1>5, <1>6

(* The client that is erased from the vector had been disconnected, so      *)
(* nobody is owed anything by it. *)
LEMMA CloseAlive ==
  ASSUME IInv, Alive, Types', NEW c \in Clients, Close(c)
  PROVE  Alive'
<1>1. At(c, "close") /\ todo[c] # <<>> /\ Head(todo[c]).do = "close" /\ Follow(c, <<>>) /\ listMutex = Nobody
  BY DEF Close, At, Next1
<1>2. UNCHANGED <<status, person, inbox, buffer, response, listMutex, screen, blurred>>
  BY DEF Close
<1>3. Shape /\ AllFine /\ c \in Threads /\ c # listMutex
  BY <1>1, NotBroadcasting DEF IInv, Alive, Threads
<1>4. Tail(todo[c]) = <<>> /\ Tasks(c) = {Head(todo[c])} \cup {}
  <2>1. Right(c, Known(c), Head(todo[c]), ToSet(Tail(todo[c]))) /\ IsSeq(Tail(todo[c]))
        /\ Tasks(c) = {Head(todo[c])} \cup ToSet(Tail(todo[c]))
    BY <1>1, <1>3, HeadTask
  <2>2. ToSet(Tail(todo[c])) = {}
    BY <1>1, <2>1 DEF Right
  <2>3. Tail(todo[c]) = <<>>
    BY <2>1, <2>2, NoTask
  <2> QED BY <2>1, <2>2, <2>3
<1>5. todo'[c] = <<>> /\ Tasks(c)' = {} /\ \A u \in Threads \ {c} : todo'[u] = todo[u] /\ Tasks(u)' = Tasks(u)
  <2>1. PICK nil : nil = <<>>
    OBVIOUS
  <2>2. /\ todo'[c] = nil \o Tail(todo[c])
        /\ \A u \in Threads \ {c} : todo'[u] = todo[u] /\ Tasks(u)' = Tasks(u)
    BY <1>1, <1>3, <2>1, NilFacts, FollowFacts
  <2>3. todo'[c] = <<>>
    BY <1>4, <2>1, <2>2
  <2> QED BY <2>2, <2>3, NilFacts DEF Tasks
<1>6. AllFine'
  <2>1. \A u : Known(u)' = Known(u)
    BY <1>2 DEF Known, HasPlayer
  <2>2. ASSUME NEW u \in Threads PROVE Fine(u, Known(u)', todo'[u], {})
    BY <1>3, <1>5, <2>1, <2>2, FineNil DEF AllFine
  <2> QED BY <2>2 DEF AllFine
<1>7. Rounds'
  BY <1>1, <1>2, RoundsKept DEF Alive
<1>8. \A d \in Clients : peer'[d] = IF d = c THEN "closed" ELSE peer[d]
  BY DEF Close, Alive, Types
<1>9. \A d \in Clients : (HasPlayer(d)' <=> HasPlayer(d)) /\ Sees(d)' = Sees(d)
  BY <1>2 DEF HasPlayer, Sees
<1>10. \A y \in Tasks(c) : y.do = "close"
  BY <1>1, <1>4
<1>11. ~HasLogin(Tasks(c)) /\ ~Has(Tasks(c), "list") /\ Has(Tasks(c), "close")
  BY <1>1, <1>4, <1>10 DEF HasLogin, LogsIn, Has
<1>12. \A d : /\ ~Writing(Tasks(c), d) /\ ~Spawning(Tasks(c), d) /\ ~Going(Tasks(c), d)
              /\ \A b : ~Carrying(Tasks(c), b)
  BY <1>10 DEF Writing, Writes, Spawning, PutsSpawn, Going, PutsGone, Carrying, Carries
<1>13. Told'
  <2>1. /\ ~HasLogin(Tasks(c)') /\ ~Has(Tasks(c)', "list")
        /\ \A d : ~Writing(Tasks(c)', d) /\ ~Spawning(Tasks(c)', d) /\ ~Going(Tasks(c)', d) /\ ~Ordering(Tasks(c)', d)
    BY <1>5 DEF HasLogin, Has, Writing, Spawning, Going, Ordering
  <2>2. Alike(Tasks(c), Tasks(c)')
    BY <1>11, <1>12, <2>1 DEF Alike
  <2>3. Same(c)
    BY <1>2, <1>3, <1>5, <1>8, <1>9, <1>12, <2>1, <2>2 DEF Same
  <2> QED BY <1>3, <2>3, SameTold DEF Alive, Shape
<1>14. ASSUME NEW d \in Clients PROVE Progress(d)'
  <2>1. Progress(d) /\ d \in Threads
    BY DEF Alive, Threads
  <2>2. ~Target(d)'
    BY <1>1, <1>2 DEF Target
  <2>3. CASE d = c
    <3>1. status[c] = Disconnected
      BY <1>11, <2>1, <2>3 DEF Progress
    <3>2. status'[d] = Disconnected /\ todo'[d] = <<>> /\ ~Has(Tasks(d)', "close") /\ peer'[d] # "open"
      BY <1>2, <1>5, <1>8, <2>3, <3>1 DEF Has
    <3> QED BY <2>2, <3>2, Statuses DEF Progress
  <2>4. CASE d # c
    <3>1. Tasks(d)' = Tasks(d) /\ todo'[d] = todo[d] /\ peer'[d] = peer[d] /\ status'[d] = status[d]
      BY <1>2, <1>5, <1>8, <2>1, <2>4
    <3>2. Settled(d)' <=> Settled(d)
      BY <1>9, <3>1 DEF Settled
    <3>3. d \in ToSet(connected) => d \in ToSet(connected)'
      <4>1. PICK i \in DOMAIN connected : connected[i] = c /\ connected' = RemoveAt(connected, i)
        BY DEF Close
      <4>2. PICK s, r : s = connected /\ r = RemoveAt(s, i) /\ s \in Seq(Clients) /\ s[i] = c /\ i \in DOMAIN s
        BY <1>3, <4>1 DEF Shape
      <4>3. \A e : e # s[i] /\ e \in ToSet(s) => e \in ToSet(r)
        <5>1. \A e \in ToSet(s) : \E j \in DOMAIN s : e = s[j]
          BY DEF ToSet
        <5>2. ASSUME NEW j \in DOMAIN s, j # i PROVE \E k \in DOMAIN r : r[k] = s[j]
          BY <4>2, <5>2, RemoveKeeps
        <5> QED BY <5>1, <5>2 DEF ToSet
      <4> QED BY <2>4, <4>1, <4>2, <4>3
    <3> QED BY <1>9, <2>1, <2>2, <3>1, <3>2, <3>3 DEF Progress
  <2> QED BY <2>3, <2>4
<1>15. ASSUME NEW d \in Clients PROVE Arrival(d)'
  <2>1. Arrival(d) /\ d \in Threads
    BY DEF Alive, Threads
  <2>2. \A e \in Clients : stage'[e] = IF e = c THEN "left" ELSE stage[e]
    BY DEF Close, IInv, Shape
  <2>3. CASE d = c
    <3>1. stage'[d] = "left" /\ Tasks(d)' = {} /\ inbox'[d] = inbox[d]
      BY <1>2, <1>5, <2>2, <2>3
    <3>2. ~Has(Tasks(d)', "packet") /\ ~HasPing(Tasks(d)')
      BY <3>1 DEF Has, HasPing
    <3> QED BY <1>9, <2>1, <3>1, <3>2 DEF Arrival
  <2>4. CASE d # c
    <3>1. stage'[d] = stage[d] /\ Tasks(d)' = Tasks(d) /\ todo'[d] = todo[d] /\ inbox'[d] = inbox[d]
      BY <1>2, <1>5, <2>1, <2>2, <2>4
    <3> QED BY <1>9, <2>1, <3>1 DEF Arrival
  <2> QED BY <2>3, <2>4
<1> QED BY <1>6, <1>7, <1>13, <1>14, <1>15 DEF Alive

-----------------------------------------------------------------------------
(* The steps that say that a player goes. *)

LEMMA HeadFirst ==
  ASSUME NEW a, IsSeq(a), a # <<>>, NEW b, IsSeq(b)
  PROVE  Head(a \o b) = Head(a) /\ a \o b # <<>>
<1>1. PICK s, k, l : Joins(s, k, l, a, b) /\ k = Len(a)
  BY JoinsFacts
<1>2. k \in Nat \ {0} /\ Head(a) = a[1]
  BY <1>1, TailFacts
<1>3. /\ s = a \o b /\ l \in Nat /\ DOMAIN s = 1 .. k + l /\ s[1] = a[1]
  BY <1>1, <1>2 DEF Joins
<1>4. 1 \in DOMAIN s
  BY <1>2, <1>3
<1>5. s # <<>>
  BY <1>4, NilFacts
<1>6. IsSeq(s)
  BY <1>3, CatSet
<1>7. Head(s) = s[1]
  BY <1>5, <1>6, TailFacts
<1> QED BY <1>2, <1>3, <1>5, <1>7

(* The broadcast under way is not that of a thread that does something else.*)
LEMMA RoundFrame ==
  ASSUME listMutex \in Threads \cup {Nobody}, NEW t, t # listMutex, listMutex' = listMutex,
         \A u \in Threads \ {t} : todo'[u] = todo[u]
  PROVE  /\ listMutex # Nobody => todo'[listMutex'] = todo[listMutex]
         /\ \A d : /\ Circles(d)' <=> Circles(d)
                   /\ Circles(d) => listMutex # Nobody /\ RoundOf(todo'[listMutex']) = RoundOf(todo[listMutex])
                   /\ \A c : Due(c, d)' <=> Due(c, d)
                   /\ UNCHANGED buffer => (Late(d)' <=> Late(d))
         /\ \A c : Target(c)' <=> Target(c)
<1>1. listMutex # Nobody => todo'[listMutex'] = todo[listMutex]
  OBVIOUS
<1>2. ASSUME NEW d
      PROVE  /\ Circles(d)' <=> Circles(d)
             /\ Circles(d) => listMutex # Nobody /\ RoundOf(todo'[listMutex']) = RoundOf(todo[listMutex])
  BY <1>1 DEF Circles
<1>3. ASSUME NEW d, NEW c PROVE Due(c, d)' <=> Due(c, d)
  <2>1. Circles(d) => (DueIn(todo'[listMutex'], c) <=> DueIn(todo[listMutex], c))
    BY <1>1, <1>2
  <2> QED BY <1>2, <2>1 DEF Due
<1>4. ASSUME NEW d, buffer' = buffer PROVE Late(d)' <=> Late(d)
  <2>1. CASE Circles(d)
    BY <1>2, <1>4, <2>1 DEF Late
  <2>2. CASE ~Circles(d)
    BY <1>2, <2>2 DEF Late
  <2> QED BY <2>1, <2>2
<1>5. ASSUME NEW c PROVE Target(c)' <=> Target(c)
  BY <1>1 DEF Target
<1> QED BY <1>1, <1>2, <1>3, <1>4, <1>5

(* What is left to do to a player that is disconnected. *)
Farewell(d, s) ==
  /\ IsSeq(s) /\ s # <<>> /\ Orders(Head(s), d)
  /\ \A y \in ToSet(s) : /\ y.do \notin {"list", "packet", "close", "write", "wrote", "deliver"}
                         /\ y.do = "status" => Orders(y, d)
                         /\ \A e : (PutsGone(y, e) => e = d) /\ ~PutsSpawn(y, e)
  /\ Going(ToSet(s), d)

LEMMA DisconnectFacts ==
  ASSUME NEW d \in Clients, NEW tell
  PROVE  /\ Farewell(d, DisconnectClient(d, tell, TRUE))
         /\ \A t, known, later : Fine(t, known, DisconnectClient(d, tell, TRUE), later)
<1>1. PICK A, B, C, D : /\ A = SetStatus(d, Disconnected) /\ B = (IF tell THEN SendResponse(d) ELSE <<>>)
                        /\ C = Put(OthersBuffer(d), GoneWords(d)) /\ D = Broadcast(OthersBuffer(d), d)
  OBVIOUS
<1>2. DisconnectClient(d, tell, TRUE) = A \o B \o (C \o D)
  BY <1>1, Zenon DEF DisconnectClient, OthersBuffer, GoneWords
<1>3. PICK x : A = <<x>> /\ x.do = "status" /\ x.who = d /\ x.list = <<Disconnected>>
  BY <1>1, Constructors
<1>4. MildList(B)
  BY <1>1, MildTasks, MildListFacts
<1>5. PICK p : C = <<p>> /\ p.do = "put" /\ p.buf = OthersBuffer(d) /\ p.msgs = GoneWords(d)
  BY <1>1, Constructors, WordsFacts
<1>6. MildList(D) /\ Carrying(ToSet(D), OthersBuffer(d))
  BY <1>1, MildTasks, CarriesEnd
<1>7. PutsGone(p, d) /\ IsSeq(p.msgs)
  BY <1>5, WordsFacts DEF PutsGone
<1>8. IsSeq(A) /\ ToSet(A) = {x} /\ IsSeq(B) /\ IsSeq(C) /\ ToSet(C) = {p} /\ IsSeq(D) /\ A # <<>> /\ Head(A) = x
  BY <1>3, <1>4, <1>5, <1>6, OneFacts DEF MildList
<1>9. IsSeq(A \o B) /\ IsSeq(C \o D) /\ ToSet(A \o B) = {x} \cup ToSet(B) /\ ToSet(C \o D) = {p} \cup ToSet(D)
  BY <1>8, CatSet
<1>10. PICK s : s = (A \o B) \o (C \o D) /\ s = DisconnectClient(d, tell, TRUE)
  BY <1>2
<1>11. IsSeq(s) /\ ToSet(s) = ({x} \cup ToSet(B)) \cup ({p} \cup ToSet(D))
  <2>1. IsSeq((A \o B) \o (C \o D)) /\ ToSet((A \o B) \o (C \o D)) = ToSet(A \o B) \cup ToSet(C \o D)
    BY <1>9, CatSet
  <2> QED BY <1>9, <1>10, <2>1
<1>12. s # <<>> /\ Head(s) = x
  <2>1. A \o B # <<>> /\ Head(A \o B) = x
    BY <1>8, HeadFirst
  <2> QED BY <1>9, <1>10, <2>1, HeadFirst
<1>13. Orders(x, d)
  BY <1>3 DEF Orders
<1>14. ASSUME NEW y \in ToSet(s)
       PROVE  /\ y.do \notin {"list", "packet", "close", "write", "wrote", "deliver"}
              /\ y.do = "status" => Orders(y, d)
              /\ \A e : (PutsGone(y, e) => e = d) /\ ~PutsSpawn(y, e)
  <2>1. CASE y = x
    BY <1>3, <1>13, <2>1 DEF PutsGone, PutsSpawn
  <2>2. CASE y = p
    <3>1. ASSUME NEW e, PutsGone(p, e) PROVE e = d
      BY <1>5, <3>1, OthersBufferFacts DEF PutsGone
    <3>2. ASSUME NEW e, PutsSpawn(p, e) PROVE FALSE
      <4>1. e = d
        BY <1>5, <3>2, OthersBufferFacts DEF PutsSpawn
      <4>2. GoneWords(d) = SpawnWords(d)
        BY <1>5, <3>2, <4>1 DEF PutsSpawn
      <4>3. ~TellsGone(GoneWords(d), d)
        BY <4>2, WordsFacts
      <4>4. TellsGone(GoneWords(d), d)
        <5>1. PICK kinds : kinds = <<"ChatMessage", "DestroyEntity">>
          OBVIOUS
        <5>2. DOMAIN kinds = 1 .. 2 /\ kinds[2] = "DestroyEntity"
          BY <5>1
        <5>3. PICK b : b = GoneWords(d)
          OBVIOUS
        <5>4. b = [i \in 1 .. 2 |-> Message(kinds[i], d)]
          BY <5>1, <5>2, <5>3 DEF Messages, GoneWords
        <5>5. 2 \in DOMAIN b /\ Goes(b[2], d)
          BY <5>2, <5>4 DEF Goes, Message
        <5> QED BY <5>3, <5>5 DEF TellsGone
      <4> QED BY <4>3, <4>4
    <3> QED BY <1>5, <2>2, <3>1, <3>2
  <2>3. CASE y \in ToSet(B) \cup ToSet(D)
    <3>1. Mild(y) /\ y.do \notin {"write", "wrote"}
      <4>1. ASSUME y \in ToSet(B) PROVE y.do = "send"
        <5>1. PICK z : SendResponse(d) = <<z>> /\ z.do = "send"
          BY Constructors
        <5>2. B = <<z>> \/ B = <<>>
          BY <1>1, <5>1
        <5> QED BY <4>1, <5>1, <5>2, OneFacts, NilFacts
      <4>2. ASSUME y \in ToSet(D) PROVE y.do = "broadcast"
        <5>1. PICK z : D = <<z>> /\ z.do = "broadcast"
          BY <1>1, Constructors
        <5> QED BY <4>2, <5>1, OneFacts
      <4> QED BY <1>4, <1>6, <2>3, <4>1, <4>2 DEF MildList
    <3>2. Light(y) /\ y.do \notin {"list", "packet", "close", "write", "wrote", "deliver", "status"}
      BY <3>1, MildFacts
    <3> QED BY <3>2, LightFacts
  <2> QED BY <1>11, <2>1, <2>2, <2>3
<1>15. Going(ToSet(s), d)
  BY <1>7, <1>11 DEF Going
<1>16. Farewell(d, s)
  BY <1>11, <1>12, <1>13, <1>14, <1>15 DEF Farewell
<1>17. ASSUME NEW t, NEW known, NEW later PROVE Fine(t, known, s, later)
  <2>1. Fine(t, known, D, later)
    BY <1>6, MildFine
  <2>2. Right(t, known, p, ToSet(D) \cup later)
    <3>1. Carrying(ToSet(D) \cup later, OthersBuffer(d))
      BY <1>6 DEF Carrying
    <3>2. RightPut(t, known, p, ToSet(D) \cup later)
      BY <1>7, <3>1 DEF RightPut
    <3> QED BY <1>5, <3>2 DEF Right, Writes
  <2>3. Fine(t, known, C, ToSet(D) \cup later)
    BY <1>5, <2>2, FineOne
  <2>4. Fine(t, known, C \o D, later)
    BY <2>1, <2>3, FineCat
  <2>5. Fine(t, known, B, ToSet(C \o D) \cup later)
    BY <1>4, MildFine
  <2>6. Right(t, known, x, ToSet(B) \cup (ToSet(C \o D) \cup later))
    <3>1. Going(ToSet(B) \cup (ToSet(C \o D) \cup later), d)
      BY <1>7, <1>9 DEF Going
    <3>2. RightStatus(t, known, x, ToSet(B) \cup (ToSet(C \o D) \cup later))
      BY <1>3, <3>1 DEF RightStatus
    <3> QED BY <1>3, <3>2 DEF Right, Writes
  <2>7. Fine(t, known, A, ToSet(B) \cup (ToSet(C \o D) \cup later))
    BY <1>3, <2>6, FineOne
  <2>8. Fine(t, known, A \o B, ToSet(C \o D) \cup later)
    BY <2>5, <2>7, FineCat
  <2> QED BY <1>10, <2>4, <2>8, FineCat
<1> QED BY <1>10, <1>16, <1>17

(* C is A and B together. *)
Both(C, A, B) == C = A \cup B

LEMMA UnionFacts ==
  ASSUME NEW A, NEW B, NEW C, Both(C, A, B)
  PROVE  /\ HasLogin(C) <=> HasLogin(A) \/ HasLogin(B)
         /\ HasPing(C) <=> HasPing(A) \/ HasPing(B)
         /\ \A do : Has(C, do) <=> Has(A, do) \/ Has(B, do)
         /\ \A d : /\ Writing(C, d) <=> Writing(A, d) \/ Writing(B, d)
                   /\ Spawning(C, d) <=> Spawning(A, d) \/ Spawning(B, d)
                   /\ Going(C, d) <=> Going(A, d) \/ Going(B, d)
                   /\ Ordering(C, d) <=> Ordering(A, d) \/ Ordering(B, d)
                   /\ Moving(C, d) <=> Moving(A, d) \/ Moving(B, d)
                   /\ Carrying(C, d) <=> Carrying(A, d) \/ Carrying(B, d)
BY DEF Both, HasLogin, HasPing, Has, Writing, Spawning, Going, Ordering, Moving, Carrying

LEMMA SingleFacts ==
  ASSUME NEW x
  PROVE  /\ HasLogin({x}) <=> LogsIn(x)
         /\ HasPing({x}) <=> Pings(x)
         /\ \A do : Has({x}, do) <=> x.do = do
         /\ \A d : /\ Writing({x}, d) <=> Writes(x) /\ d \in Entities(x.msgs)
                   /\ Spawning({x}, d) <=> PutsSpawn(x, d)
                   /\ Going({x}, d) <=> PutsGone(x, d)
                   /\ Ordering({x}, d) <=> Orders(x, d)
                   /\ Carrying({x}, d) <=> Carries(x, d)
BY DEF HasLogin, HasPing, Has, Writing, Spawning, Going, Ordering, Carrying

(* A task of a kind that none of the questions above is about. *)
LEMMA OtherTask ==
  ASSUME NEW x, x.do \notin {"status", "list", "put", "write", "wrote", "broadcast", "deliver"}
  PROVE  /\ ~LogsIn(x) /\ ~Writes(x) /\ Light(x)
         /\ \A d : ~PutsSpawn(x, d) /\ ~PutsGone(x, d) /\ ~Orders(x, d) /\ ~Carries(x, d)
BY DEF LogsIn, Writes, Light, PutsSpawn, PutsGone, Orders, Carries

LEMMA FarewellFacts ==
  ASSUME NEW d, NEW s, Farewell(d, s), NEW M, M = ToSet(s)
  PROVE  /\ ~HasLogin(M) /\ ~HasPing(M) /\ ~Has(M, "list") /\ ~Has(M, "packet") /\ ~Has(M, "close")
         /\ \A e : ~Writing(M, e) /\ ~Spawning(M, e) /\ (Going(M, e) => e = d) /\ (Ordering(M, e) => e = d)
         /\ Moving(M, d) /\ Going(M, d)
         /\ \A y \in M : y.do = "status" => y.list = <<Disconnected>>
<1>1. \A y \in M : /\ y.do \notin {"list", "packet", "close", "write", "wrote", "deliver"}
                   /\ y.do = "status" => y.who = d /\ y.list = <<Disconnected>>
                   /\ \A e : (PutsGone(y, e) => e = d) /\ ~PutsSpawn(y, e)
  BY DEF Farewell, Orders
<1>2. ~HasLogin(M) /\ ~HasPing(M) /\ ~Has(M, "list") /\ ~Has(M, "packet") /\ ~Has(M, "close")
  BY <1>1, Statuses DEF HasLogin, LogsIn, HasPing, Pings, Has
<1>3. \A e : ~Writing(M, e) /\ ~Spawning(M, e) /\ (Going(M, e) => e = d) /\ (Ordering(M, e) => e = d)
  BY <1>1 DEF Writing, Writes, Spawning, Going, Ordering, Orders
<1>4. Head(s) \in M /\ Head(s).do = "status" /\ Head(s).who = d
  BY TailFacts DEF Farewell, Orders
<1> QED BY <1>1, <1>2, <1>3, <1>4 DEF Moving, Farewell

(* What one does not know of a client that has just got a player. *)
Becomes(c, d) ==
  /\ \A e \in Clients : (HasPlayer(e) => HasPlayer(e)') /\ (HasPlayer(e)' => HasPlayer(e) \/ e = c)
  /\ HasPlayer(c)' /\ ~HasPlayer(c) => Head(todo[c]).do = "packet" /\ status[c] = LoggingIn /\ c = d

(* Where a client that is handling a packet is. *)
LEMMA Handles ==
  ASSUME Alive, NEW c \in Clients, todo[c] # <<>>, Head(todo[c]).do = "packet"
  PROVE  /\ stage[c] \notin {"away", "handshake"}
         /\ \A i \in DOMAIN inbox[c] : inbox[c][i] # "LegacyPing"
         /\ ~HasPing(ToSet(Tail(todo[c])))
         /\ \A x \in ToSet(Tail(todo[c])) : ~Grave(x)
         /\ Carrying(ToSet(Tail(todo[c])), OthersBuffer(c))
<1>1. AllFine /\ c \in Threads /\ Arrival(c)
  BY DEF Alive, Threads
<1>2. Head(todo[c]) \in Tasks(c) /\ Right(c, Known(c), Head(todo[c]), ToSet(Tail(todo[c])))
  BY <1>1, HeadTask
<1>3. Has(Tasks(c), "packet")
  BY <1>2 DEF Has
<1>4. RightPacket(c, ToSet(Tail(todo[c])))
  BY <1>2 DEF Right
<1>5. stage[c] \notin {"away", "handshake"} /\ \A i \in DOMAIN inbox[c] : inbox[c][i] # "LegacyPing"
  BY <1>1, <1>3 DEF Arrival
<1> QED BY <1>4, <1>5 DEF RightPacket, HasPing

LEMMA DisconnectStep ==
  ASSUME IInv, Alive, Types', NEW c \in Clients, c # listMutex, todo[c] # <<>>, Head(todo[c]).do \in {"packet", "read"},
         NEW d \in Clients, NEW more, Follow(c, more), Farewell(d, more),
         Fine(c, Known(c)', more, ToSet(Tail(todo[c]))), HasPlayer(d)', Becomes(c, d),
         UNCHANGED <<status, connected, stage, peer, buffer, response, screen, blurred, listMutex>>,
         \A e \in Clients : inbox'[e] = inbox[e] \/ inbox'[e] = <<>>
  PROVE  Alive'
<1> DEFINE h == Head(todo[c])
           R == ToSet(Tail(todo[c]))
           M == ToSet(more)
<1>0. /\ Shape /\ AllFine /\ c \in Threads /\ listMutex \in Threads \cup {Nobody} /\ IsSeq(more)
      /\ \A e \in Clients : e \in Threads
  BY DEF IInv, Alive, Threads, Shape, Fine
<1>1. /\ todo'[c] = more \o Tail(todo[c]) /\ IsSeq(Tail(todo[c]))
      /\ Tasks(c) = {h} \cup R /\ Tasks(c)' = M \cup R
      /\ \A u \in Threads \ {c} : todo'[u] = todo[u] /\ Tasks(u)' = Tasks(u)
  BY <1>0, FollowFacts
<1>2. Head(todo'[c]) = Head(more)
  BY <1>1, HeadFirst DEF Farewell
<1>3. /\ ~LogsIn(h) /\ ~Writes(h) /\ h.do # "list" /\ h.do # "status"
      /\ \A e : ~PutsSpawn(h, e) /\ ~PutsGone(h, e) /\ ~Orders(h, e) /\ ~Carries(h, e)
  BY OtherTask
<1>4. /\ HasLogin(Tasks(c)') <=> HasLogin(Tasks(c))
      /\ Has(Tasks(c)', "list") <=> Has(Tasks(c), "list")
      /\ \A e : /\ Writing(Tasks(c)', e) <=> Writing(Tasks(c), e)
                /\ Spawning(Tasks(c)', e) <=> Spawning(Tasks(c), e)
                /\ Going(Tasks(c)', e) => Going(Tasks(c), e) \/ e = d
                /\ Going(Tasks(c), e) => Going(Tasks(c)', e)
                /\ Ordering(Tasks(c)', e) => Ordering(Tasks(c), e) \/ e = d
                /\ Carrying(Tasks(c), e) => Carrying(Tasks(c)', e)
      /\ Going(Tasks(c)', d)
  <2>1. /\ ~HasLogin({h}) /\ ~Has({h}, "list")
        /\ \A e : ~Writing({h}, e) /\ ~Spawning({h}, e) /\ ~Going({h}, e) /\ ~Ordering({h}, e) /\ ~Carrying({h}, e)
    BY <1>3, SingleFacts
  <2>2. /\ ~HasLogin(M) /\ ~Has(M, "list") /\ Going(M, d)
        /\ \A e : ~Writing(M, e) /\ ~Spawning(M, e) /\ (Going(M, e) => e = d) /\ (Ordering(M, e) => e = d)
    BY FarewellFacts
  <2>3. PICK A, B, H, L, N : /\ A = Tasks(c) /\ B = Tasks(c)' /\ H = {h} /\ L = R /\ N = M
                             /\ Both(A, H, L) /\ Both(B, N, L)
    BY <1>1 DEF Both
  <2>4. (HasLogin(B) <=> HasLogin(A)) /\ (Has(B, "list") <=> Has(A, "list")) /\ Going(B, d)
    BY <2>1, <2>2, <2>3, UnionFacts
  <2>5. ASSUME NEW e
        PROVE  /\ Writing(B, e) <=> Writing(A, e)
               /\ Spawning(B, e) <=> Spawning(A, e)
               /\ Going(B, e) => Going(A, e) \/ e = d
               /\ Going(A, e) => Going(B, e)
               /\ Ordering(B, e) => Ordering(A, e) \/ e = d
               /\ Carrying(A, e) => Carrying(B, e)
    BY <2>1, <2>2, <2>3, UnionFacts
  <2> QED BY <2>3, <2>4, <2>5
<1>5. /\ ~Has(M, "packet") /\ ~Has(M, "close") /\ Moving(M, d) /\ ~HasPing(M)
      /\ \A y \in M : y.do = "status" => y.list = <<Disconnected>>
  BY FarewellFacts
<1>6. \A e \in Clients : (HasPlayer(e) => HasPlayer(e)') /\ (e # c => (HasPlayer(e)' <=> HasPlayer(e)))
  BY DEF Becomes
<1>7. AllFine'
  <2>1. \A u : Known(u) \in BOOLEAN /\ Known(u)' \in BOOLEAN
    BY DEF Known
  <2>2. \A u \in Threads \ {c} : Known(u)' <=> Known(u)
    BY <1>6 DEF Known
  <2>3. (Known(c)' <=> Known(c)) \/ \A x \in R : ~Grave(x)
    <3>1. CASE HasPlayer(c)' <=> HasPlayer(c)
      BY <3>1 DEF Known
    <3>2. CASE ~(HasPlayer(c)' <=> HasPlayer(c))
      <4>1. h.do = "packet"
        BY <1>6, <3>2 DEF Becomes
      <4> QED BY <4>1, Handles
    <3> QED BY <3>1, <3>2
  <2>4. (\A u \in Threads \ {c} : Known(u)' = Known(u)) /\ (Known(c)' = Known(c) \/ \A x \in R : ~Grave(x))
    BY <2>1, <2>2, <2>3
  <2> QED BY <1>0, <2>4, FineStep
<1>8. Rounds'
  BY <1>0, <1>1, RoundsKept DEF Alive
<1>9. \A e : /\ Circles(e)' <=> Circles(e)
             /\ \A a : Due(a, e)' <=> Due(a, e)
             /\ Late(e)' <=> Late(e)
             /\ Target(e)' <=> Target(e)
  <2>1. \A u \in Threads \ {c} : todo'[u] = todo[u]
    BY <1>1
  <2> HIDE DEF h, R, M
  <2> QED BY <1>0, <2>1, RoundFrame
<1>10. \A e \in Clients : Sees(e)' = Sees(e)
  BY DEF Sees
<1>11. \A e \in Clients : /\ HasLogin(Tasks(e)') <=> HasLogin(Tasks(e))
                          /\ Has(Tasks(e)', "list") <=> Has(Tasks(e), "list")
                          /\ \A f : /\ Writing(Tasks(e)', f) <=> Writing(Tasks(e), f)
                                    /\ Spawning(Tasks(e)', f) <=> Spawning(Tasks(e), f)
  BY <1>0, <1>1, <1>4
<1>12. \A e : News(e)' <=> News(e)
  BY DEF News
<1>13. ASSUME NEW e \in Clients PROVE Unknown(e)'
  <2>1. SUFFICES ASSUME ~HasPlayer(e)'
                 PROVE  /\ \A a \in Clients : (peer'[a] = "open" => e \notin Sees(a)') /\ ~Writing(Tasks(a)', e)
                        /\ ~News(e)'
                        /\ \A u \in Threads : ~Going(Tasks(u)', e) /\ (u # e => ~Ordering(Tasks(u)', e))
    BY DEF Unknown
  <2>2. ~HasPlayer(e) /\ e # d
    BY <1>6, <2>1
  <2>3. /\ \A a \in Clients : (peer[a] = "open" => e \notin Sees(a)) /\ ~Writing(Tasks(a), e)
        /\ ~News(e)
        /\ \A u \in Threads : ~Going(Tasks(u), e) /\ (u # e => ~Ordering(Tasks(u), e))
    BY <2>2 DEF Alive, Told, Unknown
  <2>4. ASSUME NEW u \in Threads PROVE ~Going(Tasks(u)', e) /\ (u # e => ~Ordering(Tasks(u)', e))
    BY <1>1, <1>4, <2>2, <2>3
  <2> QED BY <1>10, <1>11, <1>12, <2>3, <2>4
<1>14. ASSUME NEW e \in Clients PROVE Carried(e)'
  <2>1. SUFFICES ASSUME News(e) PROVE \E u \in Threads : Carrying(Tasks(u)', OthersBuffer(e))
    BY <1>12 DEF Carried
  <2>2. PICK u \in Threads : Carrying(Tasks(u), OthersBuffer(e))
    BY <2>1 DEF Alive, Told, Carried
  <2>3. Carrying(Tasks(u)', OthersBuffer(e))
    BY <1>1, <1>4, <2>2
  <2> QED BY <2>3
<1>15. ASSUME NEW a \in Clients, NEW e \in Clients PROVE Untold(a, e)'
  <2>1. SUFFICES ASSUME status[e] # Disconnected, e \notin blurred[a]
                 PROVE  /\ ~TellsGone(buffer[OthersBuffer(e)], e)
                        /\ \A u \in Threads : Going(Tasks(u)', e) => Orders(Head(todo'[u]), e)
    BY DEF Untold
  <2>2. /\ ~TellsGone(buffer[OthersBuffer(e)], e)
        /\ \A u \in Threads : Going(Tasks(u), e) => Orders(Head(todo[u]), e)
    BY <2>1 DEF Alive, Told, Untold
  <2>3. ASSUME NEW u \in Threads, Going(Tasks(u)', e) PROVE Orders(Head(todo'[u]), e)
    <3>1. CASE u # c
      BY <1>1, <2>2, <2>3, <3>1
    <3>2. CASE u = c
      <4>1. Going(Tasks(c), e) \/ e = d
        BY <1>4, <2>3, <3>2
      <4>2. ~Going(Tasks(c), e)
        BY <1>0, <1>3, <2>2
      <4>3. Orders(Head(more), d)
        BY DEF Farewell
      <4> QED BY <1>2, <3>2, <4>1, <4>2, <4>3
    <3> QED BY <3>1, <3>2
  <2> QED BY <2>2, <2>3
<1>16. ASSUME NEW a \in Clients, NEW e \in Clients PROVE Shown(a, e)' /\ Hidden(a, e)'
  <2>1. Shown(a, e) /\ Hidden(a, e)
    BY DEF Alive, Told
  <2>2. Listens(a)' <=> Listens(a)
    BY <1>11 DEF Listens
  <2>3. Here(e)' <=> Here(e)
    BY <1>11 DEF Here
  <2>4. Away(e)' => Away(e)
    <3>1. Leaving(e) => Leaving(e)'
      BY <1>1, <1>4 DEF Leaving
    <3> QED BY <1>11, <3>1 DEF Away
  <2>5. Shown(a, e)'
    BY <1>9, <1>10, <1>11, <1>12, <2>1, <2>2, <2>3 DEF Shown
  <2>6. Hidden(a, e)'
    BY <1>9, <1>10, <1>11, <1>12, <2>1, <2>2, <2>4 DEF Hidden
  <2> QED BY <2>5, <2>6
<1>17. ASSUME NEW e \in Clients PROVE Progress(e)'
  <2>1. Progress(e)
    BY DEF Alive
  <2>2. \A y \in Tasks(e)' : y \in Tasks(e) \/ (e = c /\ y \in M)
    BY <1>0, <1>1
  <2>3. Settled(e) => Settled(e)'
    BY <1>5, <1>6, <2>2 DEF Settled
  <2>4. status'[e] = Connected \/ Target(e)' => Settled(e)'
    BY <1>9, <2>1, <2>3 DEF Progress
  <2>5. HasPlayer(e)' /\ status'[e] \notin {Connected, Disconnected} => Moving(Tasks(e)', e)
    <3>1. CASE e = c
      <4>1. CASE HasPlayer(c)
        <5>1. \A y \in Tasks(c) : y.do = "status" => y \in Tasks(c)'
          BY <1>1, <1>3
        <5> QED BY <2>1, <3>1, <4>1, <5>1 DEF Progress, Moving
      <4>2. CASE HasPlayer(c)' /\ ~HasPlayer(c)
        <5>1. c = d
          BY <4>2 DEF Becomes
        <5> QED BY <1>1, <1>5, <3>1, <5>1 DEF Moving
      <4> QED BY <3>1, <4>1, <4>2
    <3>2. CASE e # c
      BY <1>0, <1>1, <1>6, <2>1, <3>2 DEF Progress
    <3> QED BY <3>1, <3>2
  <2>6. status'[e] # Disconnected \/ todo'[e] # <<>> => e \in ToSet(connected)'
    <3>1. todo'[e] # <<>> => todo[e] # <<>>
      BY <1>0, <1>1
    <3> QED BY <2>1, <3>1 DEF Progress
  <2>7. Has(Tasks(e)', "close") => status'[e] = Disconnected
    BY <1>5, <2>1, <2>2 DEF Progress, Has
  <2>8. peer'[e] = "open" /\ (~HasPlayer(e)' \/ Has(Tasks(e)', "list")) => Sees(e)' = {}
    BY <1>6, <1>10, <1>11, <2>1 DEF Progress
  <2> QED BY <2>4, <2>5, <2>6, <2>7, <2>8 DEF Progress
<1>18. ASSUME NEW e \in Clients PROVE Arrival(e)'
  <2>1. Arrival(e)
    BY DEF Alive
  <2>2. \A y \in Tasks(e)' : y.do = "packet" => y \in Tasks(e)
    BY <1>0, <1>1, <1>5 DEF Has
  <2>3. (Has(Tasks(e)', "packet") => Has(Tasks(e), "packet")) /\ (HasPing(Tasks(e)') => HasPing(Tasks(e)))
    BY <2>2 DEF Has, HasPing, Pings
  <2>4. stage'[e] = "away" => todo'[e] = <<>>
    BY <1>0, <1>1, <2>1 DEF Arrival
  <2>5. \A i \in DOMAIN inbox'[e] : inbox'[e] = inbox[e]
    BY NilFacts
  <2>6. CASE HasPlayer(e)' <=> HasPlayer(e)
    BY <2>1, <2>3, <2>4, <2>5, <2>6 DEF Arrival
  <2>7. CASE ~(HasPlayer(e)' <=> HasPlayer(e))
    <3>1. e = c /\ h.do = "packet"
      BY <1>6, <2>7 DEF Becomes
    <3>2. /\ stage[c] \notin {"away", "handshake"} /\ (\A i \in DOMAIN inbox[c] : inbox[c][i] # "LegacyPing")
          /\ ~HasPing(R)
      BY <3>1, Handles
    <3>3. ~HasPing(Tasks(c)')
      <4>1. Both(Tasks(c)', M, R)
        BY <1>1 DEF Both
      <4> QED BY <1>5, <3>2, <4>1, UnionFacts
    <3> QED BY <2>4, <2>5, <3>1, <3>2, <3>3 DEF Arrival
  <2> QED BY <2>6, <2>7
<1> QED BY <1>7, <1>8, <1>13, <1>14, <1>15, <1>16, <1>17, <1>18 DEF Alive, Told

LEMMA FarewellLoop ==
  ASSUME NEW d, NEW s, Farewell(d, s)
  PROVE  Farewell(d, s \o <<Task("loop")>>)
<1>0. PICK x, r : x = Task("loop") /\ r = s \o <<x>>
  OBVIOUS
<1>1. x = Task("loop") /\ x.do = "loop" /\ r = s \o <<x>>
  BY <1>0, Constructors
<1>2. IsSeq(r) /\ ToSet(r) = ToSet(s) \cup {x} /\ r # <<>> /\ Head(r) = Head(s)
  <2>1. IsSeq(<<x>>) /\ ToSet(<<x>>) = {x}
    BY OneFacts
  <2> QED BY <1>1, <2>1, CatSet, HeadFirst DEF Farewell
<1>3. /\ x.do \notin {"list", "packet", "close", "write", "wrote", "deliver", "status"}
      /\ \A e : ~PutsGone(x, e) /\ ~PutsSpawn(x, e)
  BY <1>1, OtherTask
<1>4. Going(ToSet(r), d)
  BY <1>2 DEF Farewell, Going
<1>5. ASSUME NEW y \in ToSet(r)
      PROVE  /\ y.do \notin {"list", "packet", "close", "write", "wrote", "deliver"}
             /\ y.do = "status" => Orders(y, d)
             /\ \A e : (PutsGone(y, e) => e = d) /\ ~PutsSpawn(y, e)
  BY <1>2, <1>3 DEF Farewell
<1> QED BY <1>1, <1>2, <1>4, <1>5 DEF Farewell

(* A bundle of packets ends in the two broadcasts; a lost connection in the *)
(* goodbye. *)
LEMMA ReadAlive ==
  ASSUME IInv, Alive, Types', NEW c \in Clients, Read(c)
  PROVE  Alive'
<1>1. At(c, "read") /\ todo[c] # <<>> /\ Head(todo[c]).do = "read" /\ inbox' = [inbox EXCEPT ![c] = <<>>]
  BY DEF Read, At, Next1
<1>2. UNCHANGED <<status, connected, person, stage, peer, buffer, response, screen, blurred, listMutex>>
  BY DEF Read
<1>3. CASE inbox[c] # <<>> /\ Follow(c, Packets(c) \o <<Task("chunks")>> \o EndOfBundle(c) \o <<Task("loop")>>)
  BY <1>1, <1>2, <1>3, ReadBundle
<1>4. CASE Follow(c, DisconnectClient(c, FALSE, person[c] = "player") \o <<Task("loop")>>)
  <2>1. CASE ~HasPlayer(c)
    <3>1. (person[c] = "player") = FALSE
      BY <2>1 DEF HasPlayer
    <3>2. Follow(c, DisconnectClient(c, FALSE, FALSE) \o <<Task("loop")>>)
      BY <1>4, <3>1
    <3> QED BY <1>1, <1>2, <2>1, <3>2, ReadClosed
  <2>2. CASE HasPlayer(c)
    <3>1. (person[c] = "player") = TRUE
      BY <2>2 DEF HasPlayer
    <3>2. PICK more : more = DisconnectClient(c, FALSE, TRUE) \o <<Task("loop")>> /\ Follow(c, more)
      BY <1>4, <3>1
    <3>3. Farewell(c, more)
      BY <3>2, DisconnectFacts, FarewellLoop
    <3>4. c # listMutex /\ c \in Threads
      BY <1>1, NotBroadcasting DEF Threads
    <3>5. ToSet(Tail(todo[c])) = {}
      <4>1. AllFine
        BY DEF Alive
      <4> QED BY <1>1, <3>4, <4>1, HeadTask DEF Right
    <3>6. Fine(c, Known(c)', more, ToSet(Tail(todo[c])))
      <4>1. PICK known : known = Known(c)'
        OBVIOUS
      <4>2. Fine(c, known, <<Task("loop")>>, {})
        BY LoopTask
      <4>3. Fine(c, known, DisconnectClient(c, FALSE, TRUE), ToSet(<<Task("loop")>>) \cup {})
        BY DisconnectFacts
      <4>4. Fine(c, known, more, {})
        BY <3>2, <4>2, <4>3, FineCat
      <4> QED BY <3>5, <4>1, <4>4
    <3>7. HasPlayer(c)' /\ Becomes(c, c)
      BY <1>2, <2>2 DEF HasPlayer, Becomes
    <3>8. \A e \in Clients : inbox'[e] = inbox[e] \/ inbox'[e] = <<>>
      BY <1>1 DEF IInv, Shape
    <3> QED BY <1>1, <1>2, <3>2, <3>3, <3>4, <3>6, <3>7, <3>8, DisconnectStep
  <2> QED BY <2>1, <2>2
<1> QED BY <1>3, <1>4 DEF Read

LEMMA SentAway ==
  ASSUME IInv, Alive, Types', NEW c \in Clients, At(c, "packet"),
         NEW d \in Clients, Follow(c, DisconnectClient(d, TRUE, TRUE)), HasPlayer(d)', Becomes(c, d), UNCHANGED status,
         UNCHANGED <<connected, buffer, response, screen, blurred, listMutex>>, UNCHANGED Socket
  PROVE  Alive'
<1>1. todo[c] # <<>> /\ Head(todo[c]).do = "packet"
  BY DEF At, Next1
<1>2. c # listMutex
  BY NotBroadcasting DEF Threads
<1>3. PICK more : more = DisconnectClient(d, TRUE, TRUE) /\ Follow(c, more)
  OBVIOUS
<1>4. Farewell(d, more) /\ \A t, known, later : Fine(t, known, more, later)
  BY <1>3, DisconnectFacts
<1>5. UNCHANGED <<stage, inbox, peer>>
  BY DEF Socket
<1> QED BY <1>1, <1>2, <1>3, <1>4, <1>5, DisconnectStep

(* A goodbye, the client's own or the kicked one's: the status comes first, *)
(* then the buffer, then the broadcast. *)
LEMMA KickAlive ==
  ASSUME IInv, Alive, Types', NEW c \in Clients, HandleDisconnect(c) \/ CommandKick(c), dead = "no", dead' = "no",
         UNCHANGED <<connected, buffer, response, screen, blurred, listMutex>>, UNCHANGED Socket
  PROVE  Alive'
<1>1. At(c, "packet") /\ UNCHANGED <<status, person>>
  BY DEF HandleDisconnect, CommandKick, Handling
<1>2. \A d : HasPlayer(d)' <=> HasPlayer(d)
  BY <1>1 DEF HasPlayer
<1>3. \A d : Becomes(c, d)
  BY <1>2 DEF Becomes
<1>4. PICK d \in Clients : HasPlayer(d) /\ Follow(c, DisconnectClient(d, TRUE, TRUE))
  <2>1. CASE HandleDisconnect(c)
    <3>1. status[c] = Connected /\ Progress(c)
      BY <2>1 DEF HandleDisconnect, Alive
    <3>2. HasPlayer(c)
      BY <3>1 DEF Progress, Settled
    <3> QED BY <2>1, <3>2 DEF HandleDisconnect
  <2>2. CASE CommandKick(c)
    <3>1. PICK d \in ToSet(connected) : /\ dead' = (IF person[d] = "player" THEN dead ELSE "null")
                                        /\ Follow(c, DisconnectClient(d, TRUE, TRUE))
      BY <2>2 DEF CommandKick
    <3>2. d \in Clients
      <4>1. connected \in Seq(Clients)
        BY DEF IInv, Shape
      <4> QED BY <3>1, <4>1 DEF ToSet
    <3> QED BY <3>1, <3>2 DEF HasPlayer
  <2> QED BY <2>1, <2>2
<1> QED BY <1>1, <1>2, <1>3, <1>4, SentAway

(* A login refused after the player was created: the others are told of the *)
(* end of one they have not seen. *)
LEMMA RefusedAlive ==
  ASSUME IInv, Alive, Types', NEW c \in Clients, Handling(c, "LoginRequest"), status[c] = LoggingIn,
         Follow(c, DisconnectClient(c, TRUE, TRUE)), person' = [person EXCEPT ![c] = "player"], UNCHANGED status,
         UNCHANGED <<connected, buffer, response, screen, blurred, listMutex>>, UNCHANGED Socket
  PROVE  Alive'
<1>1. At(c, "packet") /\ Head(todo[c]).do = "packet"
  BY DEF Handling, At, Next1
<1>2. \A e \in Clients : person'[e] = IF e = c THEN "player" ELSE person[e]
  BY DEF Alive, Types
<1>3. HasPlayer(c)' /\ Becomes(c, c)
  BY <1>1, <1>2 DEF HasPlayer, Becomes
<1> QED BY <1>1, <1>3, SentAway

-----------------------------------------------------------------------------
(* The login. *)

LEMMA LogInFacts ==
  ASSUME NEW c \in Clients, NEW later, \A y \in later : ~Grave(y), Carrying(later, OthersBuffer(c))
  PROVE  /\ \A known : known => Fine(c, known, LogIn(c), later)
         /\ \A M : M = ToSet(LogIn(c)) =>
              /\ HasLogin(M) /\ Has(M, "list") /\ Moving(M, c) /\ Spawning(M, c)
              /\ ~HasPing(M) /\ ~Has(M, "packet") /\ ~Has(M, "close")
              /\ \A e : ~Writing(M, e) /\ ~Going(M, e) /\ ~Ordering(M, e) /\ (Spawning(M, e) => e = c)
<1>1. PICK W, P, S, L, D, V, T :
        /\ W = Write(<<Message("LoginRequest", c)>>)
        /\ P = Put(<<c, "all">>, <<Message("ChatMessage", c)>>)
        /\ S = Put(OthersBuffer(c), SpawnWords(c))
        /\ L = <<Task("list")>>
        /\ D = SendResponse(c)
        /\ V = Write(<<Message("PlayerPositionLook", c)>>)
        /\ T = SetStatus(c, Connected)
  OBVIOUS
<1>2. LogIn(c) = W \o P \o S \o L \o D \o V \o T
  BY <1>1, Zenon DEF LogIn, OthersBuffer, SpawnWords
<1>3. MildList(W) /\ MildList(P) /\ MildList(D) /\ MildList(V)
  <2>1. /\ Speechless(<<Message("LoginRequest", c)>>) /\ Speechless(<<Message("ChatMessage", c)>>)
        /\ Speechless(<<Message("PlayerPositionLook", c)>>)
    BY WordlessFacts DEF Speechless
  <2> QED BY <1>1, <2>1, MildTasks
<1>4. PICK s : S = <<s>> /\ s.do = "put" /\ s.buf = OthersBuffer(c) /\ s.msgs = SpawnWords(c)
  BY <1>1, Constructors, WordsFacts
<1>5. PICK l : L = <<l>> /\ l.do = "list"
  BY <1>1, Constructors
<1>6. PICK x : T = <<x>> /\ x.do = "status" /\ x.who = c /\ x.list = <<Connected>>
  BY <1>1, Constructors
<1>7. /\ IsSeq(W) /\ IsSeq(P) /\ IsSeq(S) /\ IsSeq(L) /\ IsSeq(D) /\ IsSeq(V) /\ IsSeq(T)
      /\ ToSet(S) = {s} /\ ToSet(L) = {l} /\ ToSet(T) = {x}
  BY <1>3, <1>4, <1>5, <1>6, OneFacts DEF MildList
<1>8. PICK X1, X2, X3, X4, X5, X6 :
        X1 = W \o P /\ X2 = X1 \o S /\ X3 = X2 \o L /\ X4 = X3 \o D /\ X5 = X4 \o V /\ X6 = X5 \o T
  OBVIOUS
<1>9. X6 = LogIn(c)
  BY <1>2, <1>8
<1>10. /\ IsSeq(X6)
       /\ ToSet(X6) = (ToSet(W) \cup ToSet(P) \cup ToSet(D) \cup ToSet(V)) \cup {s, l, x}
  <2>1. IsSeq(X1) /\ ToSet(X1) = ToSet(W) \cup ToSet(P)
    BY <1>7, <1>8, CatSet
  <2>2. IsSeq(X2) /\ ToSet(X2) = ToSet(X1) \cup {s}
    BY <2>1, <1>7, <1>8, CatSet
  <2>3. IsSeq(X3) /\ ToSet(X3) = ToSet(X2) \cup {l}
    BY <2>2, <1>7, <1>8, CatSet
  <2>4. IsSeq(X4) /\ ToSet(X4) = ToSet(X3) \cup ToSet(D)
    BY <2>3, <1>7, <1>8, CatSet
  <2>5. IsSeq(X5) /\ ToSet(X5) = ToSet(X4) \cup ToSet(V)
    BY <2>4, <1>7, <1>8, CatSet
  <2>6. IsSeq(X6) /\ ToSet(X6) = ToSet(X5) \cup {x}
    BY <2>5, <1>7, <1>8, CatSet
  <2> QED BY <2>1, <2>2, <2>3, <2>4, <2>5, <2>6
<1>11. \A y \in ToSet(W) \cup ToSet(P) \cup ToSet(D) \cup ToSet(V) : Mild(y)
  BY <1>3 DEF MildList
<1>12. PutsSpawn(s, c) /\ LogsIn(x) /\ IsSeq(s.msgs)
  BY <1>4, <1>6, WordsFacts DEF PutsSpawn, LogsIn
<1>13. ASSUME NEW known, known PROVE Fine(c, known, X6, later)
  <2>1. PICK l1, l2, l3, l4, l5, l6 :
          /\ l1 = ToSet(T) \cup later /\ l2 = ToSet(V) \cup l1 /\ l3 = ToSet(D) \cup l2
          /\ l4 = ToSet(L) \cup l3 /\ l5 = ToSet(S) \cup l4 /\ l6 = ToSet(P) \cup l5
    OBVIOUS
  <2>2. /\ x \in l1 /\ x \in l3 /\ x \in l4
        /\ \A y \in later : y \in l4
        /\ \A y \in l3 : y = x \/ Mild(y) \/ ~Grave(y)
    BY <1>7, <1>11, <2>1
  <2>3. \A y \in l3 : y.do # "list" /\ \A d : ~(Writes(y) /\ d \in Entities(y.msgs))
    <3>1. \A y \in l3 : y = x \/ Light(y)
      BY <2>2, MildFacts DEF Grave
    <3>2. x.do # "list" /\ ~Writes(x)
      BY <1>6 DEF Writes
    <3> QED BY <3>1, <3>2, LightFacts
  <2>4. Fine(c, known, T, later)
    <3>1. ~HasLogin(later)
      BY DEF HasLogin, LogsIn, Grave
    <3>2. ~Has(later, "close")
      BY DEF Has, Grave
    <3>4. RightStatus(c, known, x, later)
      BY <1>6, <1>13, <3>1, <3>2 DEF RightStatus
    <3>3. Right(c, known, x, later)
      BY <1>6, <3>4 DEF Right, Writes
    <3> QED BY <1>6, <3>3, FineOne
  <2>5. Fine(c, known, V, l1) /\ Fine(c, known, D, l2) /\ Fine(c, known, P, l5) /\ Fine(c, known, W, l6)
    BY <1>3, MildFine
  <2>6. Fine(c, known, L, l3)
    <3>1. HasLogin(l3) /\ ~Has(l3, "list") /\ \A d : ~Writing(l3, d)
      BY <1>12, <2>2, <2>3 DEF HasLogin, Has, Writing
    <3>2. RightList(c, known, l3)
      BY <1>13, <3>1 DEF RightList
    <3>3. Right(c, known, l, l3)
      BY <1>5, <3>2 DEF Right, Writes
    <3> QED BY <1>5, <3>3, FineOne
  <2>7. Fine(c, known, S, l4)
    <3>1. HasLogin(l4) /\ Carrying(l4, OthersBuffer(c))
      BY <1>12, <2>2 DEF HasLogin, Carrying
    <3>2. RightPut(c, known, s, l4)
      BY <1>12, <1>13, <3>1 DEF RightPut
    <3>3. Right(c, known, s, l4)
      BY <1>4, <3>2 DEF Right, Writes
    <3> QED BY <1>4, <3>3, FineOne
  <2>8. Fine(c, known, X1, l5)
    BY <1>8, <2>1, <2>5, FineCat
  <2>9. Fine(c, known, X2, l4)
    BY <1>8, <2>1, <2>7, <2>8, FineCat
  <2>10. Fine(c, known, X3, l3)
    BY <1>8, <2>1, <2>6, <2>9, FineCat
  <2>11. Fine(c, known, X4, l2)
    BY <1>8, <2>1, <2>5, <2>10, FineCat
  <2>12. Fine(c, known, X5, l1)
    BY <1>8, <2>1, <2>5, <2>11, FineCat
  <2> QED BY <1>8, <2>1, <2>4, <2>12, FineCat
<1>14. PICK M : M = ToSet(X6)
  OBVIOUS
<1>15. /\ s \in M /\ l \in M /\ x \in M
       /\ \A y \in M : y = s \/ y = l \/ y = x \/ Mild(y)
  BY <1>10, <1>11, <1>14
<1>16. HasLogin(M) /\ Has(M, "list") /\ Moving(M, c) /\ Spawning(M, c)
  BY <1>5, <1>6, <1>12, <1>15 DEF HasLogin, Has, Moving, Spawning
<1>17. \A y \in M : y.do \notin {"packet", "close"}
  BY <1>4, <1>5, <1>6, <1>15, MildFacts
<1>18. ASSUME NEW y \in M, NEW e
       PROVE  /\ ~(Writes(y) /\ e \in Entities(y.msgs)) /\ ~PutsGone(y, e) /\ ~Orders(y, e)
              /\ PutsSpawn(y, e) => e = c
  <2>1. CASE y = s
    <3>1. ASSUME PutsGone(s, e) PROVE FALSE
      <4>1. e = c
        BY <1>4, <3>1, OthersBufferFacts DEF PutsGone
      <4>2. GoneWords(c) = SpawnWords(c)
        BY <1>4, <3>1, <4>1 DEF PutsGone
      <4>3. LastSpawn(SpawnWords(c), c)
        <5>1. PICK w : w = SpawnWords(c) /\ IsSeq(w) /\ DOMAIN w = {1} /\ w[1] = Message("NamedEntitySpawn", c)
          BY OneFacts DEF SpawnWords
        <5> QED BY <5>1 DEF LastSpawn, Comes, Goes, Message
      <4>4. PICK e0, w : e0 = <<>> /\ w = GoneWords(c) /\ IsSeq(w)
        BY WordsFacts
      <4>5. ~LastSpawn(e0 \o w, c)
        BY <4>4, NilFacts, GoneLast DEF GoneWords
      <4>6. e0 \o w = w
        BY <4>4, CatNil
      <4> QED BY <4>2, <4>3, <4>4, <4>5, <4>6
    <3>2. PutsSpawn(s, e) => e = c
      BY <1>4, OthersBufferFacts DEF PutsSpawn
    <3> QED BY <1>4, <2>1, <3>1, <3>2 DEF Writes, Orders
  <2>2. CASE y = l
    BY <1>5, <2>2 DEF Writes, PutsGone, PutsSpawn, Orders
  <2>3. CASE y = x
    BY <1>6, <2>3, Statuses DEF Writes, PutsGone, PutsSpawn, Orders
  <2>4. CASE Mild(y)
    BY <2>4, MildFacts, LightFacts DEF Orders
  <2> QED BY <1>15, <2>1, <2>2, <2>3, <2>4
<1>19. \A e : ~Writing(M, e) /\ ~Going(M, e) /\ ~Ordering(M, e) /\ (Spawning(M, e) => e = c)
  BY <1>18 DEF Writing, Going, Ordering, Spawning
<1>20. ~HasPing(M) /\ ~Has(M, "packet") /\ ~Has(M, "close")
  BY <1>17 DEF HasPing, Pings, Has
<1> QED BY <1>9, <1>13, <1>14, <1>16, <1>19, <1>20

(* A login: the buffer, the list of the others, and only then the status. *)
LEMMA LogInAlive ==
  ASSUME IInv, Alive, Types', NEW c \in Clients, Handling(c, "LoginRequest"), status[c] = LoggingIn,
         Follow(c, LogIn(c)), person' = [person EXCEPT ![c] = "player"], UNCHANGED status,
         UNCHANGED <<connected, buffer, response, screen, blurred, listMutex>>, UNCHANGED Socket
  PROVE  Alive'
<1> DEFINE h == Head(todo[c])
           R == ToSet(Tail(todo[c]))
<1>0. /\ Shape /\ AllFine /\ c \in Threads /\ listMutex \in Threads \cup {Nobody}
      /\ \A e \in Clients : e \in Threads
      /\ At(c, "packet") /\ todo[c] # <<>> /\ h.do = "packet"
      /\ UNCHANGED <<stage, inbox, peer>>
  BY DEF IInv, Alive, Threads, Shape, Handling, At, Next1, Socket
<1>1. c # listMutex
  BY <1>0, NotBroadcasting
<1>2. /\ stage[c] \notin {"away", "handshake"} /\ (\A i \in DOMAIN inbox[c] : inbox[c][i] # "LegacyPing")
      /\ ~HasPing(R) /\ (\A x \in R : ~Grave(x)) /\ Carrying(R, OthersBuffer(c))
  BY <1>0, Handles
<1>3. ~HasPlayer(c)
  BY <1>0, Statuses, Undecided
<1>4. \A e \in Clients : HasPlayer(e)' <=> HasPlayer(e) \/ e = c
  <2>1. \A e \in Clients : person'[e] = IF e = c THEN "player" ELSE person[e]
    BY DEF Alive, Types
  <2> QED BY <2>1 DEF HasPlayer
<1>5. PICK more, M : more = LogIn(c) /\ Follow(c, more) /\ M = ToSet(more)
  OBVIOUS
<1>6. /\ \A known : known => Fine(c, known, more, R)
      /\ HasLogin(M) /\ Has(M, "list") /\ Moving(M, c) /\ Spawning(M, c)
      /\ ~HasPing(M) /\ ~Has(M, "packet") /\ ~Has(M, "close")
      /\ \A e : ~Writing(M, e) /\ ~Going(M, e) /\ ~Ordering(M, e) /\ (Spawning(M, e) => e = c)
  <2> HIDE DEF R
  <2> QED BY <1>2, <1>5, LogInFacts
<1>7. IsSeq(more)
  BY <1>6 DEF Fine
<1>8. /\ Tasks(c) = {h} \cup R /\ Tasks(c)' = M \cup R
      /\ \A u \in Threads \ {c} : todo'[u] = todo[u] /\ Tasks(u)' = Tasks(u)
  BY <1>0, <1>5, <1>7, FollowFacts
<1>9. /\ ~LogsIn(h) /\ ~Writes(h) /\ h.do # "list" /\ h.do # "status"
      /\ \A e : ~PutsSpawn(h, e) /\ ~PutsGone(h, e) /\ ~Orders(h, e) /\ ~Carries(h, e)
  BY <1>0, OtherTask
<1>10. /\ ~HasLogin(R) /\ ~Has(R, "list")
       /\ \A e : ~Writing(R, e) /\ ~Spawning(R, e) /\ ~Going(R, e) /\ ~Ordering(R, e)
  <2>1. \A x \in R : Light(x) /\ x.do # "status"
    BY <1>2 DEF Grave
  <2>2. \A x \in R : /\ ~LogsIn(x) /\ x.do # "list"
                     /\ \A e : /\ ~PutsGone(x, e) /\ ~PutsSpawn(x, e) /\ ~(Writes(x) /\ e \in Entities(x.msgs))
                               /\ ~Orders(x, e)
    BY <2>1, LightFacts DEF Orders
  <2> QED BY <2>2 DEF HasLogin, Has, Writing, Spawning, Going, Ordering
<1>11. PICK A, B, H, L : A = Tasks(c) /\ B = Tasks(c)' /\ H = {h} /\ L = R /\ Both(A, H, L) /\ Both(B, M, L)
  BY <1>8 DEF Both
<1>12. /\ ~HasLogin(H) /\ ~Has(H, "list")
       /\ \A e : ~Writing(H, e) /\ ~Spawning(H, e) /\ ~Going(H, e) /\ ~Ordering(H, e) /\ ~Carrying(H, e)
  BY <1>9, <1>11, SingleFacts
<1>13. /\ ~HasLogin(L) /\ ~Has(L, "list") /\ ~HasPing(L)
       /\ \A e : ~Writing(L, e) /\ ~Spawning(L, e) /\ ~Going(L, e) /\ ~Ordering(L, e)
  BY <1>2, <1>10, <1>11
<1>14. ~HasLogin(A) /\ ~Has(A, "list") /\ HasLogin(B) /\ Has(B, "list") /\ Moving(B, c) /\ Spawning(B, c) /\ ~HasPing(B)
  BY <1>6, <1>11, <1>12, <1>13, UnionFacts
<1>15. ASSUME NEW e
       PROVE  /\ ~Writing(A, e) /\ ~Writing(B, e) /\ ~Going(A, e) /\ ~Going(B, e)
              /\ ~Ordering(B, e) /\ ~Spawning(A, e)
              /\ Carrying(A, e) => Carrying(B, e)
  BY <1>6, <1>11, <1>12, <1>13, UnionFacts
<1>16. AllFine'
  <2>1. \A u : Known(u) \in BOOLEAN /\ Known(u)' \in BOOLEAN
    BY DEF Known
  <2>2. \A u \in Threads \ {c} : Known(u)' <=> Known(u)
    BY <1>4 DEF Known
  <2>3. Known(c)'
    BY <1>4 DEF Known
  <2>4. \A u \in Threads \ {c} : Known(u)' = Known(u)
    BY <2>1, <2>2
  <2>5. Fine(c, Known(c)', more, R)
    <3>1. PICK known : known = Known(c)' /\ known
      BY <2>3
    <3> QED BY <1>6, <3>1
  <2> QED BY <1>0, <1>2, <1>5, <2>4, <2>5, FineStep
<1>17. Rounds'
  BY <1>0, <1>1, <1>8, RoundsKept DEF Alive
<1>18. \A e : /\ Circles(e)' <=> Circles(e)
              /\ \A a : Due(a, e)' <=> Due(a, e)
              /\ Late(e)' <=> Late(e)
              /\ Target(e)' <=> Target(e)
  <2>1. \A u \in Threads \ {c} : todo'[u] = todo[u]
    BY <1>8
  <2> HIDE DEF h, R
  <2> QED BY <1>0, <1>1, <2>1, RoundFrame
<1>19. \A e \in Clients : Sees(e)' = Sees(e)
  BY <1>0 DEF Sees
<1>20. \A e : News(e)' <=> News(e)
  BY DEF News
<1>21. \A u \in Threads : \A e : /\ Writing(Tasks(u)', e) <=> Writing(Tasks(u), e)
                                 /\ Going(Tasks(u)', e) <=> Going(Tasks(u), e)
                                 /\ Ordering(Tasks(u)', e) => Ordering(Tasks(u), e)
                                 /\ Carrying(Tasks(u), e) => Carrying(Tasks(u)', e)
                                 /\ Spawning(Tasks(u), e) => Spawning(Tasks(u)', e)
  BY <1>8, <1>11, <1>15
<1>22. ASSUME NEW e \in Clients PROVE Unknown(e)'
  <2>1. SUFFICES ASSUME ~HasPlayer(e)'
                 PROVE  /\ \A a \in Clients : (peer'[a] = "open" => e \notin Sees(a)') /\ ~Writing(Tasks(a)', e)
                        /\ ~News(e)'
                        /\ \A u \in Threads : ~Going(Tasks(u)', e) /\ (u # e => ~Ordering(Tasks(u)', e))
    BY DEF Unknown
  <2>2. ~HasPlayer(e)
    BY <1>4, <2>1
  <2>3. /\ \A a \in Clients : (peer[a] = "open" => e \notin Sees(a)) /\ ~Writing(Tasks(a), e)
        /\ ~News(e)
        /\ \A u \in Threads : ~Going(Tasks(u), e) /\ (u # e => ~Ordering(Tasks(u), e))
    BY <2>2 DEF Alive, Told, Unknown
  <2> QED BY <1>0, <1>19, <1>20, <1>21, <2>3
<1>23. ASSUME NEW e \in Clients PROVE Carried(e)'
  <2>1. SUFFICES ASSUME News(e) PROVE \E u \in Threads : Carrying(Tasks(u)', OthersBuffer(e))
    BY <1>20 DEF Carried
  <2>2. PICK u \in Threads : Carrying(Tasks(u), OthersBuffer(e))
    BY <2>1 DEF Alive, Told, Carried
  <2> QED BY <1>21, <2>2
<1>24. ASSUME NEW a \in Clients, NEW e \in Clients PROVE Untold(a, e)'
  <2>1. SUFFICES ASSUME status[e] # Disconnected, e \notin blurred[a]
                 PROVE  /\ ~TellsGone(buffer[OthersBuffer(e)], e)
                        /\ \A u \in Threads : Going(Tasks(u)', e) => Orders(Head(todo'[u]), e)
    BY DEF Untold
  <2>2. /\ ~TellsGone(buffer[OthersBuffer(e)], e)
        /\ \A u \in Threads : Going(Tasks(u), e) => Orders(Head(todo[u]), e)
    BY <2>1 DEF Alive, Told, Untold
  <2>3. ~Going(Tasks(c)', e)
    BY <1>11, <1>15
  <2> QED BY <1>8, <2>2, <2>3
<1>25. ASSUME NEW a \in Clients, NEW e \in Clients PROVE Shown(a, e)' /\ Hidden(a, e)'
  <2>1. Shown(a, e) /\ Hidden(a, e)
    BY DEF Alive, Told
  <2>2. Listens(a)' => Listens(a)
    <3>1. CASE a = c
      BY <1>11, <1>14, <3>1, Statuses DEF Listens
    <3>2. CASE a # c
      <4>1. Tasks(a)' = Tasks(a)
        BY <1>0, <1>8, <3>2
      <4> QED BY <1>0, <4>1 DEF Listens
    <3> QED BY <3>1, <3>2
  <2>3. Here(e)' => Here(e) \/ Spawning(Tasks(e)', e)
    <3>1. CASE e = c
      BY <1>11, <1>14, <3>1
    <3>2. CASE e # c
      <4>1. Tasks(e)' = Tasks(e)
        BY <1>0, <1>8, <3>2
      <4> QED BY <4>1 DEF Here
    <3> QED BY <3>1, <3>2
  <2>4. Away(e)' => Away(e)
    <3>1. Leaving(e) => Leaving(e)'
      BY <1>21 DEF Leaving
    <3>2. HasLogin(Tasks(e)) => HasLogin(Tasks(e)')
      BY <1>0, <1>8, <1>11, <1>14
    <3> QED BY <3>1, <3>2 DEF Away
  <2>5. /\ Writing(Tasks(a)', e) <=> Writing(Tasks(a), e)
        /\ Spawning(Tasks(e), e) => Spawning(Tasks(e)', e)
    BY <1>0, <1>21
  <2>6. /\ Late(e)' <=> Late(e)
        /\ Due(a, e)' <=> Due(a, e)
        /\ News(e)' <=> News(e)
        /\ Sees(a)' = Sees(a)
    BY <1>18, <1>19, <1>20
  <2>7. Shown(a, e)'
    BY <2>1, <2>2, <2>3, <2>5, <2>6 DEF Shown
  <2>8. Hidden(a, e)'
    BY <2>1, <2>2, <2>4, <2>5, <2>6 DEF Hidden
  <2> QED BY <2>7, <2>8
<1>26. ASSUME NEW e \in Clients PROVE Progress(e)'
  <2>1. Progress(e)
    BY DEF Alive
  <2>2. CASE e = c
    <3>1. ~Target(c)'
      BY <1>3, <1>18, <2>1, <2>2 DEF Progress, Settled
    <3>2. Moving(Tasks(c)', c)
      BY <1>11, <1>14
    <3>3. c \in ToSet(connected)
      BY <1>0, <2>1, <2>2 DEF Progress
    <3>4. ~Has(Tasks(c)', "close")
      <4>1. ~Has(Tasks(c), "close")
        BY <2>1, <2>2, Statuses DEF Progress
      <4>2. ~Has(L, "close")
        BY <1>11, <4>1, UnionFacts
      <4> QED BY <1>6, <1>11, <4>2, UnionFacts
    <3>5. peer'[c] = "open" => Sees(c)' = {}
      BY <1>0, <1>3, <1>19, <2>1, <2>2 DEF Progress
    <3> QED BY <2>2, <3>1, <3>2, <3>3, <3>4, <3>5, Statuses DEF Progress
  <2>3. CASE e # c
    <3>1. Tasks(e)' = Tasks(e) /\ todo'[e] = todo[e] /\ (HasPlayer(e)' <=> HasPlayer(e))
      BY <1>0, <1>4, <1>8, <2>3
    <3>2. Settled(e)' <=> Settled(e)
      BY <3>1 DEF Settled
    <3> QED BY <1>0, <1>18, <1>19, <2>1, <3>1, <3>2 DEF Progress
  <2> QED BY <2>2, <2>3
<1>27. ASSUME NEW e \in Clients PROVE Arrival(e)'
  <2>1. Arrival(e)
    BY DEF Alive
  <2>2. CASE e = c
    BY <1>0, <1>2, <1>11, <1>14, <2>1, <2>2 DEF Arrival
  <2>3. CASE e # c
    <3>1. Tasks(e)' = Tasks(e) /\ todo'[e] = todo[e] /\ (HasPlayer(e)' <=> HasPlayer(e))
      BY <1>0, <1>4, <1>8, <2>3
    <3> QED BY <1>0, <2>1, <3>1 DEF Arrival
  <2> QED BY <2>2, <2>3
<1> QED BY <1>16, <1>17, <1>22, <1>23, <1>24, <1>25, <1>26, <1>27 DEF Alive, Told

-----------------------------------------------------------------------------
(* Steps that take one task, h, from the list of thread t, put M in its     *)
(* place, and leave R and the other threads alone. *)

Moves(t, h, M, R) ==
  /\ t \in Threads /\ todo[t] # <<>>
  /\ Both(Tasks(t), {h}, R) /\ Both(Tasks(t)', M, R)
  /\ \A u \in Threads \ {t} : todo'[u] = todo[u] /\ Tasks(u)' = Tasks(u)

LEMMA MovesFacts ==
  ASSUME Shape, AllFine, NEW t \in Threads, todo[t] # <<>>, NEW more, IsSeq(more), Follow(t, more),
         NEW h, h = Head(todo[t]), NEW M, M = ToSet(more), NEW R, R = ToSet(Tail(todo[t]))
  PROVE  Moves(t, h, M, R)
<1>1. /\ Tasks(t) = {Head(todo[t])} \cup ToSet(Tail(todo[t]))
      /\ Tasks(t)' = ToSet(more) \cup ToSet(Tail(todo[t]))
      /\ \A u \in Threads \ {t} : todo'[u] = todo[u] /\ Tasks(u)' = Tasks(u)
  BY FollowFacts
<1> QED BY <1>1 DEF Moves, Both

LEMMA MoveArrival ==
  ASSUME Alive, NEW t, NEW h, NEW M, NEW R, Moves(t, h, M, R), UNCHANGED <<person, stage, inbox>>,
         ~Has(M, "packet"), ~HasPing(M)
  PROVE  \A e \in Clients : Arrival(e)'
<1> SUFFICES ASSUME NEW e \in Clients PROVE Arrival(e)'
  OBVIOUS
<1>1. Arrival(e) /\ e \in Threads
  BY DEF Alive, Threads
<1>2. HasPlayer(e)' <=> HasPlayer(e)
  BY DEF HasPlayer
<1>3. CASE e = t
  <2>1. PICK A, B, H : A = Tasks(t) /\ B = Tasks(t)' /\ Both(A, H, R) /\ Both(B, M, R) /\ todo[t] # <<>>
    BY DEF Moves
  <2>2. (Has(B, "packet") => Has(A, "packet")) /\ (HasPing(B) => HasPing(A))
    BY <2>1, UnionFacts
  <2> QED BY <1>1, <1>2, <1>3, <2>1, <2>2 DEF Arrival
<1>4. CASE e # t
  <2>1. todo'[e] = todo[e] /\ Tasks(e)' = Tasks(e)
    BY <1>1, <1>4 DEF Moves
  <2> QED BY <1>1, <1>2, <2>1 DEF Arrival
<1> QED BY <1>3, <1>4

LEMMA SteadyProgress ==
  ASSUME Alive, NEW t, NEW h, NEW M, NEW R, Moves(t, h, M, R), UNCHANGED <<status, person, connected, peer>>,
         h.do # "status", ~Has(M, "status"), ~Has(M, "close"),
         \A e \in Clients :
           /\ Target(e)' => Target(e) \/ Settled(e)
           /\ peer[e] = "open" /\ (~HasPlayer(e) \/ Has(Tasks(e)', "list")) => Sees(e)' = {}
  PROVE  \A e \in Clients : Progress(e)'
<1> SUFFICES ASSUME NEW e \in Clients PROVE Progress(e)'
  OBVIOUS
<1>1. Progress(e) /\ e \in Threads
  BY DEF Alive, Threads
<1>2. HasPlayer(e)' <=> HasPlayer(e)
  BY DEF HasPlayer
<1>3. /\ \A x : x.do = "status" => (x \in Tasks(e)' => x \in Tasks(e)) /\ (x \in Tasks(e) => x \in Tasks(e)')
      /\ Has(Tasks(e)', "close") => Has(Tasks(e), "close")
      /\ todo'[e] # <<>> => todo[e] # <<>>
  <2>1. CASE e = t
    <3>1. PICK A, B, H : A = Tasks(t) /\ B = Tasks(t)' /\ H = {h} /\ Both(A, H, R) /\ Both(B, M, R) /\ todo[t] # <<>>
      BY DEF Moves
    <3>2. Has(B, "close") => Has(A, "close")
      BY <3>1, UnionFacts
    <3>3. \A x : x.do = "status" => x \notin H /\ x \notin M
      BY <3>1 DEF Has
    <3>4. \A x : x.do = "status" => (x \in B <=> x \in A)
      BY <3>1, <3>3 DEF Both
    <3> QED BY <2>1, <3>1, <3>2, <3>4
  <2>2. CASE e # t
    BY <1>1, <2>2 DEF Moves
  <2> QED BY <2>1, <2>2
<1>4. Settled(e) => Settled(e)'
  BY <1>2, <1>3 DEF Settled
<1>5. Moving(Tasks(e), e) => Moving(Tasks(e)', e)
  BY <1>3 DEF Moving
<1>6. status'[e] = Connected \/ Target(e)' => Settled(e)'
  BY <1>1, <1>4 DEF Progress
<1>7. peer'[e] = "open" /\ (~HasPlayer(e)' \/ Has(Tasks(e)', "list")) => Sees(e)' = {}
  BY <1>2
<1>8. HasPlayer(e)' /\ status'[e] \notin {Connected, Disconnected} => Moving(Tasks(e)', e)
  BY <1>1, <1>2, <1>5 DEF Progress
<1>9. /\ status'[e] # Disconnected \/ todo'[e] # <<>> => e \in ToSet(connected)'
      /\ Has(Tasks(e)', "close") => status'[e] = Disconnected
  BY <1>1, <1>3 DEF Progress
<1> QED BY <1>6, <1>7, <1>8, <1>9 DEF Progress

(* A thread goes on as it would have. *)
LEMMA DropFine ==
  ASSUME IInv, Alive, NEW t \in Threads, todo[t] # <<>>, Follow(t, <<>>), UNCHANGED person,
         NEW h, h = Head(todo[t]), NEW R, R = ToSet(Tail(todo[t]))
  PROVE  /\ AllFine' /\ Moves(t, h, {}, R) /\ Right(t, Known(t), h, R)
         /\ todo'[t] = Tail(todo[t]) /\ Fine(t, Known(t), Tail(todo[t]), {})
<1>1. Shape /\ AllFine
  BY DEF IInv, Alive
<1>2. \A u : Known(u)' = Known(u)
  BY DEF Known, HasPlayer
<1>3. Fine(t, Known(t)', <<>>, R)
  BY FineNil
<1>4. AllFine'
  BY <1>1, <1>2, <1>3, FineStep
<1>5. IsSeq(<<>>) /\ ToSet(<<>>) = {}
  BY NilFacts
<1>6. Moves(t, h, {}, R)
  BY <1>1, <1>5, MovesFacts
<1>7. todo'[t] = <<>> \o Tail(todo[t]) /\ IsSeq(Tail(todo[t]))
  BY <1>1, <1>5, FollowFacts
<1>8. todo'[t] = Tail(todo[t])
  BY <1>7, CatNil
<1> QED BY <1>1, <1>4, <1>6, <1>8, HeadTask

LEMMA NoneFacts ==
  /\ ~HasLogin({}) /\ ~HasPing({}) /\ \A do : ~Has({}, do)
  /\ \A d : ~Writing({}, d) /\ ~Spawning({}, d) /\ ~Going({}, d) /\ ~Ordering({}, d) /\ ~Moving({}, d) /\ ~Carrying({}, d)
BY DEF HasLogin, HasPing, Has, Writing, Spawning, Going, Ordering, Moving, Carrying

-----------------------------------------------------------------------------
(* Words are put into a buffer. *)

(* What is said of e by a, and by a with m behind it. *)
Longer(a, m, b, e) ==
  /\ IsSeq(b) /\ Len(a) \in Nat /\ Len(b) \in Nat /\ Len(a) <= Len(b)
  /\ e \in Entities(b) <=> e \in Entities(a) \/ e \in Entities(m)
  /\ TellsGone(b, e) <=> TellsGone(a, e) \/ TellsGone(m, e)
  /\ e \notin Entities(m) => (LastSpawn(b, e) <=> LastSpawn(a, e)) /\ ~TellsGone(m, e)
  /\ \A k \in Nat : SaysAfter(a, k, e) => SaysAfter(b, k, e)
  /\ \A k \in Nat : k <= Len(a) /\ e \in Entities(m) => SaysAfter(b, k, e)

LEMMA LongerFacts ==
  ASSUME NEW a, IsSeq(a), NEW m, IsSeq(m), NEW e
  PROVE  Longer(a, m, a \o m, e)
<1>1. PICK s, k, l : Joins(s, k, l, a, m) /\ k = Len(a) /\ l = Len(m) /\ IsSeq(s) /\ Len(s) = k + l
  BY JoinsFacts
<1>2. s = a \o m /\ k \in Nat /\ l \in Nat
  BY <1>1, Zenon DEF Joins
<1>3. Len(a) \in Nat /\ Len(s) \in Nat /\ Len(a) <= Len(s)
  <2>1. k <= k + l /\ k + l \in Nat
    BY <1>2
  <2> QED BY <1>1, <1>2, <2>1
<1>4. e \notin Entities(m) => ~TellsGone(m, e)
  BY EntitiesRule DEF TellsGone, Says
<1>5. /\ e \in Entities(s) <=> e \in Entities(a) \/ e \in Entities(m)
      /\ TellsGone(s, e) <=> TellsGone(a, e) \/ TellsGone(m, e)
      /\ e \notin Entities(m) => (LastSpawn(s, e) <=> LastSpawn(a, e))
      /\ \A i \in Nat : SaysAfter(a, i, e) => SaysAfter(s, i, e)
      /\ \A i \in Nat : i <= Len(a) /\ e \in Entities(m) => SaysAfter(s, i, e)
  BY <1>2, JoinRules
<1>6. Longer(a, m, s, e)
  BY <1>1, <1>3, <1>4, <1>5 DEF Longer
<1> QED BY <1>2, <1>6

(* What is put into a buffer is broadcast by the same thread later on;      *)
(* beside a broadcast of the same buffer it is late. *)
LEMMA PushAlive ==
  ASSUME IInv, Alive, Types', NEW t \in Threads, Push(t)
  PROVE  Alive'
<1> DEFINE h == Head(todo[t])
           R == ToSet(Tail(todo[t]))
           b == h.buf
           m == h.msgs
<1>0. /\ Shape /\ AllFine /\ listMutex \in Threads \cup {Nobody}
      /\ \A e \in Clients : e \in Threads /\ OthersBuffer(e) \in Buffers
      /\ At(t, "put") /\ todo[t] # <<>> /\ h.do = "put"
      /\ Follow(t, <<>>) /\ buffer' = [buffer EXCEPT ![b] = @ \o m]
      /\ UNCHANGED <<stage, inbox, peer, status, connected, person, response, listMutex, screen, blurred>>
  BY OthersBufferFacts DEF IInv, Alive, Threads, Shape, Push, At, Next1, Socket, statusUnchanged
<1>1. t # listMutex
  BY <1>0, NotBroadcasting
<1>2. /\ AllFine' /\ Moves(t, h, {}, R) /\ Right(t, Known(t), h, R)
      /\ Fine(t, Known(t), Tail(todo[t]), {})
  <2>1. todo[t] # <<>> /\ Follow(t, <<>>) /\ UNCHANGED person
    BY <1>0
  <2>2. h = Head(todo[t]) /\ R = ToSet(Tail(todo[t]))
    OBVIOUS
  <2> HIDE DEF h, R, b, m
  <2> QED BY <2>1, <2>2, DropFine
<1>3. RightPut(t, Known(t), h, R)
  <2>1. h.do = "put" /\ Right(t, Known(t), h, R)
    BY <1>0, <1>2, Zenon
  <2> HIDE DEF h, R
  <2> QED BY <2>1, Zenon DEF Right
<1>4. IsSeq(m) /\ \A x \in Buffers : /\ buffer'[x] = IF x = b THEN buffer[x] \o m ELSE buffer[x]
                                     /\ IsSeq(buffer[x])
  BY <1>0, <1>3 DEF Alive, Types, RightPut
<1> HIDE DEF h, R, b, m
<1>5. ASSUME NEW e \in Clients
      PROVE  IF OthersBuffer(e) = b THEN Longer(buffer[OthersBuffer(e)], m, buffer'[OthersBuffer(e)], e)
             ELSE buffer'[OthersBuffer(e)] = buffer[OthersBuffer(e)]
  BY <1>0, <1>4, LongerFacts
<1>6. ASSUME NEW e \in Clients, OthersBuffer(e) = b, e \in Entities(m)
      PROVE  (PutsGone(h, e) \/ (e = t /\ HasPlayer(e) /\ PutsSpawn(h, e) /\ HasLogin(R))) /\ Carrying(R, OthersBuffer(e))
  <2>1. Wordy(h)
    BY <1>6 DEF Wordy, m
  <2>2. CASE \E d \in Clients : PutsGone(h, d) /\ Carrying(R, OthersBuffer(d))
    <3>1. PICK d \in Clients : PutsGone(h, d) /\ Carrying(R, OthersBuffer(d))
      BY <2>2
    <3>2. d = e
      BY <1>6, <3>1, OthersBufferFacts DEF PutsGone, b
    <3> QED BY <3>1, <3>2
  <2>3. CASE t \in Clients /\ Known(t) /\ PutsSpawn(h, t) /\ Carrying(R, OthersBuffer(t)) /\ HasLogin(R)
    <3>1. t = e
      BY <1>6, <2>3, OthersBufferFacts DEF PutsSpawn, b
    <3> QED BY <2>3, <3>1 DEF Known
  <2> QED BY <1>3, <2>1, <2>2, <2>3 DEF RightPut
<1>7. PICK A, B, H : A = Tasks(t) /\ B = Tasks(t)' /\ H = {h} /\ Both(A, H, R) /\ Both(B, {}, R)
  BY <1>2 DEF Moves
<1>8. /\ ~HasLogin(H) /\ (\A do : Has(H, do) => do = "put")
      /\ \A e : ~Writing(H, e) /\ ~Ordering(H, e) /\ ~Carrying(H, e)
  <2>1. ~LogsIn(h) /\ ~Writes(h) /\ \A e : ~Orders(h, e) /\ ~Carries(h, e)
    BY <1>0 DEF LogsIn, Writes, Orders, Carries, h
  <2> QED BY <1>0, <1>7, <2>1, SingleFacts DEF h
<1>9. /\ HasLogin(B) <=> HasLogin(A)
      /\ Has(B, "list") <=> Has(A, "list")
      /\ HasLogin(R) => HasLogin(B)
      /\ \A e : /\ Writing(B, e) <=> Writing(A, e)
                /\ Ordering(B, e) <=> Ordering(A, e)
                /\ Carrying(B, e) <=> Carrying(A, e)
                /\ Carrying(R, e) => Carrying(B, e)
                /\ Going(B, e) => Going(A, e)
                /\ Going(A, e) => Going(B, e) \/ PutsGone(h, e)
                /\ Spawning(A, e) => Spawning(B, e) \/ PutsSpawn(h, e)
                /\ PutsGone(h, e) => Going(A, e)
  <2>1. HasLogin(B) <=> HasLogin(A)
    BY <1>7, <1>8, UnionFacts, NoneFacts
  <2>2. Has(B, "list") <=> Has(A, "list")
    BY <1>7, <1>8, UnionFacts, NoneFacts
  <2>3. HasLogin(R) => HasLogin(B)
    BY <1>7, UnionFacts
  <2>4. ASSUME NEW e
        PROVE  /\ Writing(B, e) <=> Writing(A, e)
               /\ Ordering(B, e) <=> Ordering(A, e)
               /\ Carrying(B, e) <=> Carrying(A, e)
               /\ Carrying(R, e) => Carrying(B, e)
               /\ Going(B, e) => Going(A, e)
    BY <1>7, <1>8, UnionFacts, NoneFacts
  <2>5. ASSUME NEW e
        PROVE  /\ Going(A, e) => Going(B, e) \/ PutsGone(h, e)
               /\ Spawning(A, e) => Spawning(B, e) \/ PutsSpawn(h, e)
               /\ PutsGone(h, e) => Going(A, e)
    <3>1. (Going(H, e) <=> PutsGone(h, e)) /\ (Spawning(H, e) <=> PutsSpawn(h, e))
      BY <1>7, SingleFacts
    <3> QED BY <1>7, <3>1, UnionFacts
  <2> QED BY <2>1, <2>2, <2>3, <2>4, <2>5
<1>10. \A u \in Threads \ {t} : todo'[u] = todo[u] /\ Tasks(u)' = Tasks(u)
  BY <1>2 DEF Moves
<1>11. /\ listMutex # Nobody => todo'[listMutex'] = todo[listMutex]
       /\ \A e : /\ Circles(e)' <=> Circles(e)
                 /\ Circles(e) => listMutex # Nobody /\ RoundOf(todo'[listMutex']) = RoundOf(todo[listMutex])
                 /\ \A a : Due(a, e)' <=> Due(a, e)
                 /\ Target(e)' <=> Target(e)
  <2>1. \A u \in Threads \ {t} : todo'[u] = todo[u]
    BY <1>10
  <2> QED BY <1>0, <1>1, <2>1, RoundFrame
<1>12. \A e \in Clients : Sees(e)' = Sees(e) /\ (HasPlayer(e)' <=> HasPlayer(e))
  BY <1>0 DEF Sees, HasPlayer
<1>13. Rounds'
  <2>1. SUFFICES ASSUME listMutex # Nobody
                 PROVE  /\ Head(todo[listMutex]).do = "append" => Head(todo[listMutex]).buf = RoundOf(todo[listMutex]).buf
                        /\ Len(RoundOf(todo[listMutex]).msgs) \in Nat
                        /\ Len(RoundOf(todo[listMutex]).msgs) <= Len(buffer'[RoundOf(todo[listMutex]).buf])
    <3>1. listMutex # Nobody => todo'[listMutex'] = todo[listMutex]
      BY <1>11
    <3>2. listMutex' # Nobody <=> listMutex # Nobody
      BY <1>0
    <3> QED BY <2>1, <3>1, <3>2 DEF Rounds
  <2>2. PICK n, x : n = Len(RoundOf(todo[listMutex]).msgs) /\ x = RoundOf(todo[listMutex]).buf
    OBVIOUS
  <2>3. /\ Head(todo[listMutex]).do = "append" => Head(todo[listMutex]).buf = x
        /\ n \in Nat /\ n <= Len(buffer[x])
    BY <2>1, <2>2 DEF Alive, Rounds
  <2>4. n <= Len(buffer'[x])
    <3>1. CASE x = b /\ x \in Buffers
      <4>1. Longer(buffer[x], m, buffer'[x], {})
        BY <1>4, <3>1, LongerFacts
      <4>2. PICK k, l : k = Len(buffer[x]) /\ l = Len(buffer'[x]) /\ k \in Nat /\ l \in Nat /\ k <= l
        BY <4>1 DEF Longer
      <4> QED BY <2>3, <4>2
    <3>2. CASE x # b
      BY <1>0, <2>3, <3>2
    <3>3. CASE x \notin Buffers
      <4>1. buffer'[x] = buffer[x]
        <5>1. buffer = [y \in Buffers |-> buffer[y]]
          BY DEF Alive, Types
        <5>2. b \notin Buffers \/ b # x
          BY <3>3
        <5>3. CASE b # x
          BY <1>0, <5>3
        <5>4. CASE b \notin Buffers
          BY <1>0, <5>1, <5>4
        <5> QED BY <5>2, <5>3, <5>4
      <4> QED BY <2>3, <4>1
    <3> QED BY <3>1, <3>2, <3>3
  <2> QED BY <2>2, <2>3, <2>4
<1>14. ASSUME NEW e \in Clients
       PROVE  IF OthersBuffer(e) = b /\ e \in Entities(m)
              THEN News(e)' /\ (Circles(e) => Late(e)')
              ELSE /\ News(e)' <=> News(e)
                   /\ Late(e) => Late(e)'
                   /\ TellsGone(buffer'[OthersBuffer(e)], e) <=> TellsGone(buffer[OthersBuffer(e)], e)
                   /\ LastSpawn(buffer'[OthersBuffer(e)], e) <=> LastSpawn(buffer[OthersBuffer(e)], e)
  <2>1. PICK x, old, new : x = OthersBuffer(e) /\ old = buffer[x] /\ new = buffer'[x]
    OBVIOUS
  <2>2. IF x = b THEN Longer(old, m, new, e) ELSE new = old
    BY <1>5, <2>1
  <2>3. (News(e) <=> e \in Entities(old)) /\ (News(e)' <=> e \in Entities(new))
    BY <2>1 DEF News
  <2>4. ASSUME Circles(e)
        PROVE  \E n \in Nat : /\ n <= Len(old)
                              /\ Late(e) => SaysAfter(old, n, e)
                              /\ SaysAfter(new, n, e) => Late(e)'
    <3>1. PICK n : n = Len(RoundOf(todo[listMutex]).msgs)
      OBVIOUS
    <3>2. listMutex # Nobody /\ RoundOf(todo[listMutex]).buf = x /\ RoundOf(todo'[listMutex']) = RoundOf(todo[listMutex])
      BY <1>11, <2>1, <2>4 DEF Circles
    <3>3. n \in Nat /\ n <= Len(old)
      BY <2>1, <3>1, <3>2 DEF Alive, Rounds
    <3>4. Late(e) => SaysAfter(old, n, e)
      BY <2>1, <3>1 DEF Late
    <3>5. Circles(e)' /\ n = Len(RoundOf(todo'[listMutex']).msgs)
      BY <1>11, <2>4, <3>1, <3>2
    <3>6. SaysAfter(new, n, e) => Late(e)'
      BY <2>1, <3>5 DEF Late
    <3> QED BY <3>3, <3>4, <3>6
  <2>5. Late(e) => Circles(e)
    BY DEF Late
  <2>6. CASE x = b /\ e \in Entities(m)
    <3>1. News(e)'
      BY <2>2, <2>3, <2>6 DEF Longer
    <3>2. Circles(e) => Late(e)'
      BY <2>2, <2>4, <2>6 DEF Longer
    <3> QED BY <2>1, <2>6, <3>1, <3>2
  <2>7. CASE x = b /\ e \notin Entities(m)
    <3>1. News(e)' <=> News(e)
      BY <2>2, <2>3, <2>7 DEF Longer
    <3>2. Late(e) => Late(e)'
      BY <2>2, <2>4, <2>5, <2>7 DEF Longer
    <3>3. (TellsGone(new, e) <=> TellsGone(old, e)) /\ (LastSpawn(new, e) <=> LastSpawn(old, e))
      BY <2>2, <2>7 DEF Longer
    <3> QED BY <2>1, <2>7, <3>1, <3>2, <3>3
  <2>8. CASE x # b
    <3>1. new = old
      BY <2>2, <2>8
    <3>2. News(e)' <=> News(e)
      BY <2>3, <3>1
    <3>3. Late(e) => Late(e)'
      BY <2>4, <2>5, <3>1
    <3> QED BY <2>1, <2>8, <3>1, <3>2, <3>3
  <2> QED BY <2>6, <2>7, <2>8
<1>15. ASSUME NEW e \in Clients, PutsGone(h, e) \/ PutsSpawn(h, e)
       PROVE  OthersBuffer(e) = b /\ e \in Entities(m)
  <2>1. h.buf = OthersBuffer(e) /\ Entities(h.msgs) = {e}
    BY <1>15, PutsFacts
  <2> QED BY <2>1 DEF b, m
<1>16. ASSUME NEW e \in Clients PROVE Unknown(e)'
  <2>1. SUFFICES ASSUME ~HasPlayer(e)
                 PROVE  /\ \A a \in Clients : (peer[a] = "open" => e \notin Sees(a)) /\ ~Writing(Tasks(a)', e)
                        /\ ~News(e)'
                        /\ \A u \in Threads : ~Going(Tasks(u)', e) /\ (u # e => ~Ordering(Tasks(u)', e))
    BY <1>0, <1>12 DEF Unknown
  <2>2. /\ \A a \in Clients : (peer[a] = "open" => e \notin Sees(a)) /\ ~Writing(Tasks(a), e)
        /\ ~News(e)
        /\ \A u \in Threads : ~Going(Tasks(u), e) /\ (u # e => ~Ordering(Tasks(u), e))
    BY <2>1 DEF Alive, Told, Unknown
  <2>3. ~PutsGone(h, e)
    BY <1>0, <1>2, <1>7, <1>9, <2>2 DEF Moves
  <2>4. ~News(e)'
    BY <1>6, <1>14, <2>1, <2>2, <2>3
  <2>5. \A u \in Threads : Going(Tasks(u)', e) => Going(Tasks(u), e)
    BY <1>7, <1>9, <1>10
  <2>6. \A u \in Threads : (Ordering(Tasks(u)', e) => Ordering(Tasks(u), e)) /\ (Writing(Tasks(u)', e) => Writing(Tasks(u), e))
    BY <1>7, <1>9, <1>10
  <2> QED BY <1>0, <2>2, <2>4, <2>5, <2>6
<1>17. ASSUME NEW e \in Clients PROVE Carried(e)'
  <2>1. SUFFICES ASSUME News(e)' PROVE \E u \in Threads : Carrying(Tasks(u)', OthersBuffer(e))
    BY DEF Carried
  <2>2. CASE OthersBuffer(e) = b /\ e \in Entities(m)
    BY <1>6, <1>7, <1>9, <2>2
  <2>3. CASE ~(OthersBuffer(e) = b /\ e \in Entities(m))
    <3>1. PICK u \in Threads : Carrying(Tasks(u), OthersBuffer(e))
      BY <1>14, <2>1, <2>3 DEF Alive, Told, Carried
    <3> QED BY <1>7, <1>9, <1>10, <3>1
  <2> QED BY <2>2, <2>3
<1>18. ASSUME NEW a \in Clients, NEW e \in Clients PROVE Untold(a, e)'
  <2>1. SUFFICES ASSUME status[e] # Disconnected, e \notin blurred[a]
                 PROVE  /\ ~TellsGone(buffer'[OthersBuffer(e)], e)
                        /\ \A u \in Threads : Going(Tasks(u)', e) => Orders(Head(todo'[u]), e)
    BY <1>0 DEF Untold
  <2>2. /\ ~TellsGone(buffer[OthersBuffer(e)], e)
        /\ \A u \in Threads : Going(Tasks(u), e) => Orders(Head(todo[u]), e)
    BY <2>1 DEF Alive, Told, Untold
  <2>3. ~Going(A, e)
    BY <1>0, <1>2, <1>7, <2>2 DEF Moves, Orders, h
  <2>4. ~PutsGone(h, e) /\ ~Going(B, e)
    BY <1>9, <2>3
  <2>5. ~TellsGone(buffer'[OthersBuffer(e)], e)
    <3>1. CASE OthersBuffer(e) = b /\ e \in Entities(m)
      <4>1. PutsSpawn(h, e)
        BY <1>6, <2>4, <3>1
      <4>2. ~TellsGone(m, e)
        BY <4>1, WordsFacts DEF PutsSpawn, m
      <4> QED BY <1>5, <2>2, <3>1, <4>2 DEF Longer
    <3>2. CASE ~(OthersBuffer(e) = b /\ e \in Entities(m))
      BY <1>14, <2>2, <3>2
    <3> QED BY <3>1, <3>2
  <2> QED BY <1>7, <1>10, <2>2, <2>4, <2>5
<1>19. ASSUME NEW a \in Clients, NEW e \in Clients PROVE Shown(a, e)' /\ Hidden(a, e)'
  <2>1. Shown(a, e) /\ Hidden(a, e)
    BY DEF Alive, Told
  <2>2. /\ HasLogin(Tasks(e)') <=> HasLogin(Tasks(e))
        /\ HasLogin(Tasks(a)') <=> HasLogin(Tasks(a))
        /\ Has(Tasks(a)', "list") <=> Has(Tasks(a), "list")
        /\ Writing(Tasks(a)', e) <=> Writing(Tasks(a), e)
    BY <1>0, <1>7, <1>9, <1>10
  <2>3. (Listens(a)' <=> Listens(a)) /\ (Here(e)' <=> Here(e))
    BY <1>0, <2>2 DEF Listens, Here
  <2>4. /\ Due(a, e)' <=> Due(a, e)
        /\ Sees(a)' = Sees(a)
    BY <1>11, <1>12
  <2>5. CASE OthersBuffer(e) = b /\ e \in Entities(m)
    <3>1. Late(e)' \/ (Due(a, e)' /\ News(e)')
      <4>1. CASE Circles(e)
        BY <1>14, <2>5, <4>1
      <4>2. CASE ~Circles(e)
        BY <1>11, <1>14, <2>5, <4>2 DEF Due
      <4> QED BY <4>1, <4>2
    <3>2. Away(e)' => ~LastSpawn(buffer'[OthersBuffer(e)], e)
      <4>1. CASE PutsGone(h, e)
        <5>1. m = Messages(<<"ChatMessage", "DestroyEntity">>, e)
          BY <4>1 DEF PutsGone, m, GoneWords
        <5>2. buffer'[OthersBuffer(e)] = buffer[OthersBuffer(e)] \o m /\ IsSeq(buffer[OthersBuffer(e)])
          BY <1>0, <1>4, <2>5
        <5> QED BY <5>1, <5>2, GoneLast
      <4>2. CASE e = t /\ HasLogin(R)
        <5>1. HasLogin(Tasks(e)')
          BY <1>7, <1>9, <4>2
        <5> QED BY <5>1 DEF Away
      <4> QED BY <1>6, <2>5, <4>1, <4>2
    <3> QED BY <3>1, <3>2 DEF Shown, Hidden
  <2>6. CASE ~(OthersBuffer(e) = b /\ e \in Entities(m))
    <3>1. ~PutsGone(h, e) /\ ~PutsSpawn(h, e)
      BY <1>15, <2>6
    <3>2. \A u \in Threads : /\ Going(Tasks(u)', e) <=> Going(Tasks(u), e)
                             /\ Spawning(Tasks(u), e) => Spawning(Tasks(u)', e)
      BY <1>7, <1>9, <1>10, <3>1
    <3>3. Away(e)' => Away(e)
      BY <1>0, <2>2, <3>2 DEF Away, Leaving
    <3>4. /\ News(e)' <=> News(e)
          /\ Late(e) => Late(e)'
          /\ LastSpawn(buffer'[OthersBuffer(e)], e) <=> LastSpawn(buffer[OthersBuffer(e)], e)
      BY <1>14, <2>6
    <3>5. Shown(a, e)'
      BY <1>0, <2>1, <2>2, <2>3, <2>4, <3>2, <3>4 DEF Shown
    <3>6. Hidden(a, e)'
      BY <1>0, <2>1, <2>2, <2>3, <2>4, <3>3, <3>4 DEF Hidden
    <3> QED BY <3>5, <3>6
  <2> QED BY <2>5, <2>6
<1>20. \A e \in Clients : Progress(e)'
  <2>1. ASSUME NEW e \in Clients, peer[e] = "open", ~HasPlayer(e) \/ Has(Tasks(e)', "list")
        PROVE  Sees(e)' = {}
    <3>1. Has(Tasks(e)', "list") => Has(Tasks(e), "list")
      BY <1>0, <1>7, <1>9, <1>10
    <3> QED BY <1>12, <2>1, <3>1 DEF Alive, Progress
  <2>2. h.do # "status"
    BY <1>0 DEF h
  <2> QED BY <1>0, <1>2, <1>11, <2>1, <2>2, SteadyProgress, NoneFacts
<1>21. \A e \in Clients : Arrival(e)'
  BY <1>0, <1>2, MoveArrival, NoneFacts
<1> QED BY <1>2, <1>13, <1>16, <1>17, <1>18, <1>19, <1>20, <1>21 DEF Alive, Told

-----------------------------------------------------------------------------
(* A client's own words. *)

(* The list of the others is now in the client's response. *)
LEMMA EndWriteAlive ==
  ASSUME IInv, Alive, Types', NEW c \in Clients, EndWrite(c)
  PROVE  Alive'
<1> DEFINE h == Head(todo[c])
           R == ToSet(Tail(todo[c]))
           m == h.msgs
<1>0. /\ Shape /\ AllFine /\ c \in Threads /\ listMutex \in Threads \cup {Nobody}
      /\ \A e \in Clients : e \in Threads
      /\ At(c, "wrote") /\ todo[c] # <<>> /\ h.do = "wrote"
      /\ Follow(c, <<>>)
      /\ response' = IF Entities(m) = {} THEN response
                     ELSE [response EXCEPT ![c] = Append(@, [id |-> 0, msgs |-> m])]
      /\ UNCHANGED <<stage, inbox, peer, status, connected, person, buffer, listMutex, screen, blurred>>
  BY DEF IInv, Alive, Threads, Shape, EndWrite, At, Next1, Socket, statusUnchanged
<1>1. c # listMutex
  BY <1>0, NotBroadcasting
<1>2. CASE Entities(m) = {}
  BY <1>0, <1>1, <1>2, QuietWriteAlive
<1>3. ASSUME Entities(m) # {} PROVE Alive'
  <2>2. /\ AllFine' /\ Moves(c, h, {}, R) /\ Right(c, Known(c), h, R)
    <3> HIDE DEF h, R
    <3> QED BY <1>0, DropFine DEF h, R
  <2>3. /\ IsSeq(m) /\ HasPlayer(c) /\ HasLogin(R) /\ ~Has(R, "list") /\ \A e : ~TellsGone(m, e)
    <3>1. RightWrite(c, Known(c), h, R)
      BY <1>0, <2>2 DEF Right, Writes
    <3> QED BY <1>3, <3>1 DEF RightWrite, Wordy, Known
  <2> HIDE DEF h, R, m
  <2>4. \A a \in Clients : \A e : e \in Sees(a)' <=> e \in Sees(a) \/ (a = c /\ e \in Entities(m))
    <3>1. PICK b : b = [id |-> 0, msgs |-> m] /\ b.msgs = m
      <4>1. PICK b : b = [id |-> 0, msgs |-> m]
        OBVIOUS
      <4>2. b.msgs = m
        BY <4>1
      <4> QED BY <4>1, <4>2
    <3>2. \A a \in Clients : response'[a] = IF a = c THEN Append(response[c], b) ELSE response[a]
      BY <1>0, <1>3, <3>1 DEF Shape
    <3>3. Sees(c)' = Shows(Sees(c), m)
      <4>1. PICK old, seen : old = response[c] /\ seen = screen[c] /\ Worded(old)
        BY DEF Alive, Types
      <4>2. SeesIn(seen, Append(old, b)) = Shows(SeesIn(seen, old), m)
        BY <2>3, <3>1, <4>1, SeesAppend
      <4>3. Sees(c) = SeesIn(seen, old) /\ Sees(c)' = SeesIn(seen, Append(old, b))
        BY <1>0, <3>2, <4>1 DEF Sees
      <4> QED BY <4>2, <4>3
    <3>4. \A e : e \in Shows(Sees(c), m) <=> e \in Sees(c) \/ e \in Entities(m)
      BY <2>3, ShowsRules
    <3>5. \A a \in Clients : a # c => Sees(a)' = Sees(a)
      BY <1>0, <3>2 DEF Sees
    <3> QED BY <3>3, <3>4, <3>5
  <2>5. PICK A, B, H : A = Tasks(c) /\ B = Tasks(c)' /\ H = {h} /\ Both(A, H, R) /\ Both(B, {}, R)
    BY <2>2 DEF Moves
  <2>6. /\ ~HasLogin(H) /\ ~Has(H, "list")
        /\ \A e : /\ ~Ordering(H, e) /\ ~Carrying(H, e) /\ ~Spawning(H, e) /\ ~Going(H, e)
                  /\ Writing(H, e) <=> e \in Entities(m)
    <3>1. /\ ~LogsIn(h) /\ Writes(h) /\ h.do # "list"
          /\ \A e : ~Orders(h, e) /\ ~Carries(h, e) /\ ~PutsSpawn(h, e) /\ ~PutsGone(h, e)
      BY <1>0 DEF LogsIn, Writes, Orders, Carries, PutsSpawn, PutsGone, h
    <3> QED BY <2>5, <3>1, SingleFacts DEF m
  <2>7. /\ HasLogin(B) <=> HasLogin(A)
        /\ ~Has(B, "list") /\ ~Has(A, "list")
        /\ \A e : /\ Ordering(B, e) <=> Ordering(A, e)
                  /\ Carrying(B, e) <=> Carrying(A, e)
                  /\ Going(B, e) <=> Going(A, e)
                  /\ Spawning(B, e) <=> Spawning(A, e)
                  /\ Writing(A, e) <=> Writing(B, e) \/ e \in Entities(m)
    BY <2>3, <2>5, <2>6, UnionFacts, NoneFacts
  <2>8. \A u \in Threads \ {c} : todo'[u] = todo[u] /\ Tasks(u)' = Tasks(u)
    BY <2>2 DEF Moves
  <2>9. \A e : /\ Circles(e)' <=> Circles(e)
               /\ \A a : Due(a, e)' <=> Due(a, e)
               /\ Late(e)' <=> Late(e)
               /\ Target(e)' <=> Target(e)
    <3>1. \A u \in Threads \ {c} : todo'[u] = todo[u]
      BY <2>8
    <3> QED BY <1>0, <1>1, <3>1, RoundFrame
  <2>10. \A e \in Clients : (HasPlayer(e)' <=> HasPlayer(e)) /\ (News(e)' <=> News(e))
    BY <1>0 DEF News, HasPlayer
  <2>11. \A u \in Threads : \A e : /\ Going(Tasks(u)', e) <=> Going(Tasks(u), e)
                                   /\ Spawning(Tasks(u)', e) <=> Spawning(Tasks(u), e)
                                   /\ Ordering(Tasks(u)', e) <=> Ordering(Tasks(u), e)
                                   /\ Carrying(Tasks(u)', e) <=> Carrying(Tasks(u), e)
                                   /\ Writing(Tasks(u), e) <=> Writing(Tasks(u)', e) \/ (u = c /\ e \in Entities(m))
                                   /\ HasLogin(Tasks(u)') <=> HasLogin(Tasks(u))
                                   /\ Has(Tasks(u)', "list") <=> Has(Tasks(u), "list")
    BY <2>5, <2>7, <2>8
  <2>12. Rounds'
    BY <1>0, <1>1, <2>8, RoundsKept DEF Alive
  <2>13. ASSUME NEW e \in Clients PROVE Unknown(e)' /\ Carried(e)'
    <3>1. Unknown(e) /\ Carried(e)
      BY DEF Alive, Told
    <3>2. Unknown(e)'
      <4>1. SUFFICES ASSUME ~HasPlayer(e)
                     PROVE  /\ \A a \in Clients : (peer[a] = "open" => e \notin Sees(a)') /\ ~Writing(Tasks(a)', e)
                            /\ ~News(e)
                            /\ \A u \in Threads : ~Going(Tasks(u)', e) /\ (u # e => ~Ordering(Tasks(u)', e))
        BY <1>0, <2>10 DEF Unknown
      <4>2. /\ \A a \in Clients : (peer[a] = "open" => e \notin Sees(a)) /\ ~Writing(Tasks(a), e)
            /\ ~News(e)
            /\ \A u \in Threads : ~Going(Tasks(u), e) /\ (u # e => ~Ordering(Tasks(u), e))
        BY <3>1, <4>1 DEF Unknown
      <4>3. e \notin Entities(m)
        BY <1>0, <2>11, <4>2
      <4> QED BY <1>0, <2>4, <2>11, <4>2, <4>3
    <3>3. Carried(e)'
      BY <2>10, <2>11, <3>1 DEF Carried
    <3> QED BY <3>2, <3>3
  <2>14. ASSUME NEW a \in Clients, NEW e \in Clients PROVE Untold(a, e)'
    <3>1. SUFFICES ASSUME status[e] # Disconnected, e \notin blurred[a]
                   PROVE  /\ ~TellsGone(buffer[OthersBuffer(e)], e)
                          /\ \A u \in Threads : Going(Tasks(u)', e) => Orders(Head(todo'[u]), e)
      BY <1>0 DEF Untold
    <3>2. /\ ~TellsGone(buffer[OthersBuffer(e)], e)
          /\ \A u \in Threads : Going(Tasks(u), e) => Orders(Head(todo[u]), e)
      BY <3>1 DEF Alive, Told, Untold
    <3>3. ~Going(Tasks(c), e)
      BY <1>0, <3>2 DEF Orders, h
    <3> QED BY <2>8, <2>11, <3>2, <3>3
  <2>15. ASSUME NEW a \in Clients, NEW e \in Clients PROVE Shown(a, e)' /\ Hidden(a, e)'
    <3>1. Shown(a, e) /\ Hidden(a, e) /\ a \in Threads /\ e \in Threads
      BY <1>0 DEF Alive, Told
    <3>2. (Listens(a)' <=> Listens(a)) /\ (Here(e)' <=> Here(e)) /\ (Away(e)' <=> Away(e))
      BY <1>0, <2>11, <3>1 DEF Listens, Here, Away, Leaving
    <3>3. /\ Due(a, e)' <=> Due(a, e)
          /\ Late(e)' <=> Late(e)
          /\ News(e)' <=> News(e)
          /\ Spawning(Tasks(e)', e) <=> Spawning(Tasks(e), e)
          /\ Writing(Tasks(a), e) <=> Writing(Tasks(a)', e) \/ (a = c /\ e \in Entities(m))
          /\ e \in Sees(a)' <=> e \in Sees(a) \/ (a = c /\ e \in Entities(m))
      BY <2>4, <2>9, <2>10, <2>11, <3>1
    <3>4. Shown(a, e)'
      BY <1>0, <3>1, <3>2, <3>3 DEF Shown
    <3>5. Hidden(a, e)'
      BY <1>0, <3>1, <3>2, <3>3 DEF Hidden
    <3> QED BY <3>4, <3>5
  <2>16. \A e \in Clients : Progress(e)'
    <3>1. ASSUME NEW e \in Clients, peer[e] = "open", ~HasPlayer(e) \/ Has(Tasks(e)', "list")
          PROVE  Sees(e)' = {}
      <4>1. e # c
        BY <2>3, <2>5, <2>7, <3>1
      <4>2. ~HasPlayer(e) \/ Has(Tasks(e), "list")
        BY <1>0, <2>11, <3>1
      <4>3. Sees(e) = {}
        BY <3>1, <4>2 DEF Alive, Progress
      <4> QED BY <2>4, <4>1, <4>3
    <3>2. h.do # "status"
      BY <1>0 DEF h
    <3> QED BY <1>0, <2>2, <2>9, <3>1, <3>2, SteadyProgress, NoneFacts
  <2>17. \A e \in Clients : Arrival(e)'
    BY <1>0, <2>2, MoveArrival, NoneFacts
  <2> QED BY <2>2, <2>12, <2>13, <2>14, <2>15, <2>16, <2>17 DEF Alive, Told
<1> QED BY <1>2, <1>3

-----------------------------------------------------------------------------
(* A client that logs in is shown the others. *)

Spawns(list, c) == [i \in DOMAIN list |-> IF list[i] = c THEN <<>> ELSE <<Message("NamedEntitySpawn", list[i])>>]

LEMMA SpawnList ==
  ASSUME NEW S, NEW list \in Seq(S), NEW c
  PROVE  /\ IsSeq(FlattenSeq(Spawns(list, c)))
         /\ \A d : /\ d \in Entities(FlattenSeq(Spawns(list, c))) <=> d \in ToSet(list) /\ d # c
                   /\ ~TellsGone(FlattenSeq(Spawns(list, c)), d)
<1>0. PICK spawns : /\ spawns = Spawns(list, c)
                    /\ spawns = [i \in DOMAIN list |->
                                   IF list[i] = c THEN <<>> ELSE <<Message("NamedEntitySpawn", list[i])>>]
  BY DEF Spawns
<1>1. PICK A : A = {Message("NamedEntitySpawn", d) : d \in S}
  OBVIOUS
<1>2. PICK n : n = Len(list) /\ n \in Nat /\ DOMAIN list = 1 .. n /\ \A i \in 1 .. n : list[i] \in S
  OBVIOUS
<1>3. \A i \in 1 .. n : spawns[i] \in Seq(A)
  <2>1. ASSUME NEW i \in 1 .. n PROVE <<>> \in Seq(A) /\ <<Message("NamedEntitySpawn", list[i])>> \in Seq(A)
    <3>1. Message("NamedEntitySpawn", list[i]) \in A
      BY <1>1, <1>2
    <3>2. PICK m \in A : m = Message("NamedEntitySpawn", list[i])
      BY <3>1
    <3>3. <<m>> \in Seq(A)
      OBVIOUS
    <3> QED BY <3>2, <3>3
  <2> QED BY <1>0, <1>2, <2>1
<1>4. spawns \in Seq(Seq(A)) /\ Len(spawns) = n
  <2>1. spawns = [i \in 1 .. n |-> spawns[i]]
    <3>1. PICK D : D = DOMAIN list /\ D = 1 .. n
      BY <1>2
    <3>2. spawns = [i \in D |-> IF list[i] = c THEN <<>> ELSE <<Message("NamedEntitySpawn", list[i])>>]
      BY <1>0, <3>1
    <3>3. spawns = [i \in D |-> spawns[i]]
      BY <3>2
    <3> QED BY <3>1, <3>3
  <2>2. PICK B : B = Seq(A) /\ spawns \in [1 .. n -> B]
    BY <1>3, <2>1
  <2>3. spawns \in Seq(B) /\ Len(spawns) = n
    BY <1>2, <2>2
  <2> QED BY <2>2, <2>3
<1>5. PICK w, g : Flattens(g, spawns, n, A) /\ w = FlattenSeq(spawns) /\ w = g[n] /\ w \in Seq(A)
  BY <1>4, FlatSteps
<1>6. ASSUME NEW d PROVE ~TellsGone(w, d)
  <2>1. \A i \in DOMAIN w : w[i] \in A
    BY <1>5
  <2>2. \A m \in A : ~Goes(m, d)
    BY <1>1 DEF Message, Goes
  <2> QED BY <2>1, <2>2 DEF TellsGone
<1>7. ASSUME NEW d PROVE d \in Entities(w) <=> d \in ToSet(list) /\ d # c
  <2> DEFINE T == {k \in 0 .. n : d \in Entities(g[k]) <=> \E i \in 1 .. k : list[i] = d /\ d # c}
  <2>1. 0 \in T
    <3>1. 1 .. 0 = {} /\ g[0] = <<>>
      BY <1>5 DEF Flattens
    <3>2. d \notin Entities(<<>>)
      BY NilFacts, EntitiesRule
    <3> QED BY <1>2, <3>1, <3>2
  <2>2. ASSUME NEW k \in 1 .. n, k - 1 \in T PROVE k \in T
    <3>1. PICK old : old = g[k - 1] /\ g[k] = old \o spawns[k] /\ old \in Seq(A)
      BY <1>5 DEF Flattens
    <3>2. d \in Entities(g[k]) <=> d \in Entities(old) \/ d \in Entities(spawns[k])
      BY <1>3, <3>1, JoinRules DEF IsSeq
    <3>3. d \in Entities(spawns[k]) <=> list[k] = d /\ d # c
      <4>1. CASE list[k] = c
        <5>1. spawns[k] = <<>>
          BY <1>0, <1>2, <4>1
        <5> QED BY <4>1, <5>1, NilFacts, EntitiesRule
      <4>2. CASE list[k] # c
        <5>1. spawns[k] = SpawnWords(list[k])
          BY <1>0, <1>2, <4>2 DEF SpawnWords
        <5>2. Entities(spawns[k]) = {list[k]}
          BY <5>1, WordsFacts
        <5> QED BY <4>2, <5>2
      <4> QED BY <4>1, <4>2
    <3>4. d \in Entities(old) <=> \E i \in 1 .. k - 1 : list[i] = d /\ d # c
      BY <2>2, <3>1
    <3>5. \A i \in 1 .. k : i = k \/ i \in 1 .. k - 1
      OBVIOUS
    <3>6. \A i \in 1 .. k - 1 : i \in 1 .. k
      OBVIOUS
    <3>7. k \in 1 .. k /\ k \in 0 .. n
      OBVIOUS
    <3> QED BY <3>2, <3>3, <3>4, <3>5, <3>6, <3>7
  <2>3. 0 .. n \subseteq T
    <3> HIDE DEF T
    <3> QED BY <1>2, <2>1, <2>2, UpTo
  <2>4. n \in 0 .. n
    BY <1>2
  <2>5. d \in Entities(w) <=> \E i \in 1 .. n : list[i] = d /\ d # c
    BY <1>5, <2>3, <2>4
  <2>6. d \in ToSet(list) <=> \E i \in 1 .. n : list[i] = d
    BY <1>2 DEF ToSet
  <2> QED BY <2>5, <2>6
<1>8. IsSeq(w)
  BY <1>5 DEF IsSeq
<1> QED BY <1>0, <1>5, <1>6, <1>7, <1>8

(* The others are listed in the order of the vector; those that are         *)
(* disconnected already are blurred. *)
LEMMA ListAlive ==
  ASSUME IInv, Alive, Types', NEW c \in Clients, ListOthers(c), dead = "no", dead' = "no"
  PROVE  Alive'
<1> DEFINE h == Head(todo[c])
           R == ToSet(Tail(todo[c]))
<1>1. PICK others, spawns, w, x :
        /\ others = ToSet(connected) \ {c}
        /\ spawns = Spawns(connected, c)
        /\ w = FlattenSeq(spawns) /\ Write(w) = <<x>> /\ x.do = "write" /\ x.msgs = w
  <2>1. PICK others, spawns, w :
          /\ others = ToSet(connected) \ {c}
          /\ spawns = Spawns(connected, c)
          /\ w = FlattenSeq(spawns)
    OBVIOUS
  <2>2. PICK x : Write(w) = <<x>> /\ x.do = "write" /\ x.msgs = w
    BY Constructors
  <2> QED BY <2>1, <2>2
<1>2. /\ Shape /\ AllFine /\ c \in Threads /\ listMutex \in Threads \cup {Nobody}
      /\ connected \in Seq(Clients)
      /\ \A e \in Clients : e \in Threads
      /\ At(c, "list") /\ todo[c] # <<>> /\ h.do = "list"
      /\ UNCHANGED <<stage, inbox, peer, status, connected, person, buffer, response, listMutex, screen>>
  BY DEF IInv, Alive, Threads, Shape, ListOthers, At, Next1, Socket, statusUnchanged
<1>3. /\ Follow(c, <<x>>)
      /\ \A d \in others : HasPlayer(d)
      /\ blurred' = [blurred EXCEPT ![c] = @ \cup {d \in others : status[d] = Disconnected}]
  <2>1. Follow(c, <<x>>)
    BY <1>1 DEF ListOthers, Spawns
  <2>2. dead' = IF \A d \in others : person[d] = "player" THEN dead ELSE "null"
    BY <1>1 DEF ListOthers
  <2>3. blurred' = [blurred EXCEPT ![c] = @ \cup {d \in others : status[d] = Disconnected}]
    BY <1>1 DEF ListOthers
  <2> QED BY <2>1, <2>2, <2>3 DEF HasPlayer
<1>4. c # listMutex
  BY <1>2, NotBroadcasting
<1>5. \A a \in Clients : blurred'[a] = IF a = c THEN blurred[c] \cup {d \in others : status[d] = Disconnected}
                                       ELSE blurred[a]
  BY <1>3 DEF Alive, Types
<1>6. IsSeq(w) /\ \A d : (d \in Entities(w) <=> d \in others) /\ ~TellsGone(w, d)
  <2>1. /\ IsSeq(FlattenSeq(spawns))
        /\ \A d : /\ d \in Entities(FlattenSeq(spawns)) <=> d \in ToSet(connected) /\ d # c
                  /\ ~TellsGone(FlattenSeq(spawns), d)
    BY <1>1, <1>2, SpawnList
  <2> QED BY <1>1, <2>1
<1>7. /\ c \in Clients /\ HasPlayer(c) /\ HasLogin(R) /\ ~Has(R, "list") /\ \A d : ~Writing(R, d)
  <2>1. RightList(c, Known(c), R)
    BY <1>2, HeadTask DEF Right
  <2> QED BY <2>1 DEF RightList, Known
<1>8. AllFine'
  <2>1. \A u : Known(u)' = Known(u)
    BY <1>2 DEF Known, HasPlayer
  <2>2. PICK known : known = Known(c) /\ known
    BY <1>7 DEF Known
  <2>3. Right(c, known, x, R)
    <3>1. RightWrite(c, known, x, R)
      BY <1>1, <1>6, <1>7, <2>2 DEF RightWrite
    <3> QED BY <1>1, <3>1 DEF Right
  <2> HIDE DEF R
  <2>4. Fine(c, Known(c)', <<x>>, R)
    BY <2>1, <2>2, <2>3, FineOne
  <2> QED BY <1>2, <1>3, <2>1, <2>4, FineStep DEF R
<1>9. PICK M : M = {x} /\ Moves(c, h, M, R)
  <2>1. IsSeq(<<x>>) /\ ToSet(<<x>>) = {x}
    BY OneFacts
  <2> QED BY <1>2, <1>3, <2>1, MovesFacts
<1> HIDE DEF h, R
<1>10. PICK A, B, H : A = Tasks(c) /\ B = Tasks(c)' /\ H = {h} /\ Both(A, H, R) /\ Both(B, M, R)
  BY <1>9 DEF Moves
<1>11. /\ ~HasLogin(H) /\ Has(H, "list")
       /\ \A e : ~Ordering(H, e) /\ ~Carrying(H, e) /\ ~Spawning(H, e) /\ ~Going(H, e) /\ ~Writing(H, e)
  <2>1. /\ ~LogsIn(h) /\ ~Writes(h) /\ h.do = "list"
        /\ \A e : ~Orders(h, e) /\ ~Carries(h, e) /\ ~PutsSpawn(h, e) /\ ~PutsGone(h, e)
    BY <1>2 DEF LogsIn, Writes, Orders, Carries, PutsSpawn, PutsGone, h
  <2> QED BY <1>10, <2>1, SingleFacts
<1>12. /\ ~HasLogin(M) /\ ~HasPing(M) /\ \A do : Has(M, do) => do = "write"
       /\ \A e : /\ ~Ordering(M, e) /\ ~Carrying(M, e) /\ ~Spawning(M, e) /\ ~Going(M, e)
                 /\ Writing(M, e) <=> e \in others
  <2>1. /\ ~LogsIn(x) /\ ~Pings(x) /\ Writes(x)
        /\ \A e : ~Orders(x, e) /\ ~Carries(x, e) /\ ~PutsSpawn(x, e) /\ ~PutsGone(x, e)
    BY <1>1 DEF LogsIn, Writes, Orders, Carries, PutsSpawn, PutsGone, Pings
  <2> QED BY <1>1, <1>6, <1>9, <2>1, SingleFacts
<1>13. /\ HasLogin(A) /\ HasLogin(B)
       /\ Has(A, "list") /\ ~Has(B, "list")
       /\ \A e : /\ Ordering(B, e) <=> Ordering(A, e)
                 /\ Carrying(B, e) <=> Carrying(A, e)
                 /\ Going(B, e) <=> Going(A, e)
                 /\ Spawning(B, e) <=> Spawning(A, e)
                 /\ ~Writing(A, e)
                 /\ Writing(B, e) <=> e \in others
  BY <1>7, <1>10, <1>11, <1>12, UnionFacts
<1>14. \A u \in Threads \ {c} : todo'[u] = todo[u] /\ Tasks(u)' = Tasks(u)
  BY <1>9 DEF Moves
<1>15. \A e : /\ Circles(e)' <=> Circles(e)
              /\ \A a : Due(a, e)' <=> Due(a, e)
              /\ Late(e)' <=> Late(e)
              /\ Target(e)' <=> Target(e)
  <2>1. \A u \in Threads \ {c} : todo'[u] = todo[u]
    BY <1>14
  <2> QED BY <1>2, <1>4, <2>1, RoundFrame
<1>16. \A e \in Clients : (HasPlayer(e)' <=> HasPlayer(e)) /\ (News(e)' <=> News(e)) /\ Sees(e)' = Sees(e)
  BY <1>2 DEF News, HasPlayer, Sees
<1>17. \A u \in Threads : \A e : /\ Going(Tasks(u)', e) <=> Going(Tasks(u), e)
                                 /\ Spawning(Tasks(u)', e) <=> Spawning(Tasks(u), e)
                                 /\ Ordering(Tasks(u)', e) <=> Ordering(Tasks(u), e)
                                 /\ Carrying(Tasks(u)', e) <=> Carrying(Tasks(u), e)
                                 /\ Writing(Tasks(u)', e) <=> Writing(Tasks(u), e) \/ (u = c /\ e \in others)
                                 /\ HasLogin(Tasks(u)') <=> HasLogin(Tasks(u))
                                 /\ Has(Tasks(u)', "list") => Has(Tasks(u), "list") /\ u # c
                                 /\ u # c => (Has(Tasks(u)', "list") <=> Has(Tasks(u), "list"))
  BY <1>10, <1>13, <1>14
<1>18. Rounds'
  BY <1>2, <1>4, <1>14, RoundsKept DEF Alive
<1>19. ASSUME NEW e \in Clients PROVE Unknown(e)' /\ Carried(e)'
  <2>1. Unknown(e) /\ Carried(e)
    BY DEF Alive, Told
  <2>2. Unknown(e)'
    <3>1. SUFFICES ASSUME ~HasPlayer(e)
                   PROVE  /\ \A a \in Clients : (peer[a] = "open" => e \notin Sees(a)) /\ ~Writing(Tasks(a)', e)
                          /\ ~News(e)
                          /\ \A u \in Threads : ~Going(Tasks(u)', e) /\ (u # e => ~Ordering(Tasks(u)', e))
      BY <1>2, <1>16 DEF Unknown
    <3>2. /\ \A a \in Clients : (peer[a] = "open" => e \notin Sees(a)) /\ ~Writing(Tasks(a), e)
          /\ ~News(e)
          /\ \A u \in Threads : ~Going(Tasks(u), e) /\ (u # e => ~Ordering(Tasks(u), e))
      BY <2>1, <3>1 DEF Unknown
    <3>3. e \notin others
      BY <1>3, <3>1
    <3> QED BY <1>2, <1>17, <3>2, <3>3
  <2>3. Carried(e)'
    BY <1>16, <1>17, <2>1 DEF Carried
  <2> QED BY <2>2, <2>3
<1>20. ASSUME NEW a \in Clients, NEW e \in Clients PROVE Untold(a, e)'
  <2>1. SUFFICES ASSUME status[e] # Disconnected, e \notin blurred'[a]
                 PROVE  /\ ~TellsGone(buffer[OthersBuffer(e)], e)
                        /\ \A u \in Threads : Going(Tasks(u)', e) => Orders(Head(todo'[u]), e)
    BY <1>2 DEF Untold
  <2>2. /\ ~TellsGone(buffer[OthersBuffer(e)], e)
        /\ \A u \in Threads : Going(Tasks(u), e) => Orders(Head(todo[u]), e)
    BY <1>5, <2>1 DEF Alive, Told, Untold
  <2>3. ~Going(Tasks(c), e)
    BY <1>2, <2>2 DEF Orders, h
  <2> QED BY <1>14, <1>17, <2>2, <2>3
<1>21. ASSUME NEW a \in Clients, NEW e \in Clients PROVE Shown(a, e)' /\ Hidden(a, e)'
  <2>1. Shown(a, e) /\ Hidden(a, e) /\ a \in Threads /\ e \in Threads
    BY <1>2 DEF Alive, Told
  <2>2. (Here(e)' <=> Here(e)) /\ (Away(e)' <=> Away(e))
    BY <1>2, <1>17, <2>1 DEF Here, Away, Leaving
  <2>3. /\ Due(a, e)' <=> Due(a, e)
        /\ Late(e)' <=> Late(e)
        /\ News(e)' <=> News(e)
        /\ Spawning(Tasks(e)', e) <=> Spawning(Tasks(e), e)
        /\ Writing(Tasks(a)', e) <=> Writing(Tasks(a), e) \/ (a = c /\ e \in others)
        /\ Sees(a)' = Sees(a)
        /\ e \notin blurred'[a] => e \notin blurred[a]
    BY <1>5, <1>15, <1>16, <1>17, <2>1
  <2>4. CASE a = c
    <3>1. Shown(a, e)'
      <4>1. SUFFICES ASSUME Here(e), e # c PROVE e \in others
        BY <2>2, <2>3, <2>4 DEF Shown
      <4>2. status[e] # Disconnected
        BY <4>1, Statuses DEF Here
      <4>3. e \in ToSet(connected)
        BY <4>2 DEF Alive, Progress
      <4> QED BY <1>1, <4>1, <4>3
    <3>2. Hidden(a, e)'
      <4>1. SUFFICES ASSUME e \notin blurred'[c], Away(e)
                     PROVE  /\ ~LastSpawn(buffer[OthersBuffer(e)], e)
                            /\ peer[c] = "open" => e \notin Sees(c) /\ ~Writing(Tasks(c)', e)
        BY <1>2, <1>16, <2>2, <2>4 DEF Hidden, Listens
      <4>2. ~LastSpawn(buffer[OthersBuffer(e)], e)
        BY <2>1, <2>3, <2>4, <4>1 DEF Hidden
      <4>3. peer[c] = "open" => Sees(c) = {}
        BY <1>10, <1>13 DEF Alive, Progress
      <4>4. e \notin others
        BY <1>5, <4>1 DEF Away
      <4>5. ~Writing(Tasks(c)', e)
        BY <1>10, <1>13, <4>4
      <4> QED BY <4>2, <4>3, <4>5
    <3> QED BY <3>1, <3>2
  <2>5. CASE a # c
    <3>1. Listens(a)' <=> Listens(a)
      BY <1>2, <1>17, <2>1, <2>5 DEF Listens
    <3>2. Shown(a, e)'
      BY <1>2, <2>1, <2>2, <2>3, <2>5, <3>1 DEF Shown
    <3>3. Hidden(a, e)'
      BY <1>2, <2>1, <2>2, <2>3, <2>5, <3>1 DEF Hidden
    <3> QED BY <3>2, <3>3
  <2> QED BY <2>4, <2>5
<1>22. \A e \in Clients : Progress(e)'
  <2>1. ASSUME NEW e \in Clients, peer[e] = "open", ~HasPlayer(e) \/ Has(Tasks(e)', "list")
        PROVE  Sees(e)' = {}
    <3>1. ~HasPlayer(e) \/ Has(Tasks(e), "list")
      BY <1>2, <1>17, <2>1
    <3> QED BY <1>16, <2>1, <3>1 DEF Alive, Progress
  <2>2. h.do # "status" /\ ~Has(M, "status") /\ ~Has(M, "close")
    BY <1>2, <1>12 DEF h
  <2> QED BY <1>2, <1>9, <1>15, <2>1, <2>2, SteadyProgress
<1>23. \A e \in Clients : Arrival(e)'
  <2>1. ~Has(M, "packet") /\ ~HasPing(M)
    BY <1>12
  <2> QED BY <1>2, <1>9, <2>1, MoveArrival
<1> QED BY <1>8, <1>18, <1>19, <1>20, <1>21, <1>22, <1>23 DEF Alive, Told

-----------------------------------------------------------------------------
(* A client's status changes. *)

(* Whoever has said Connected has put its spawn into a buffer before;       *)
(* whoever says Disconnected is going to put the goodbye there, or never    *)
(* came. *)
LEMMA StatusAlive ==
  ASSUME IInv, Alive, Types', NEW t \in Threads, ChangeStatus(t),
         UNCHANGED <<connected, buffer, response, screen, listMutex>>, UNCHANGED Socket
  PROVE  Alive'
<1> DEFINE h == Head(todo[t])
           R == ToSet(Tail(todo[t]))
<1> DEFINE c == h.who
           new == h.list[1]
           again == status[c] = Disconnected /\ new = Connected
<1>1. /\ c = h.who /\ new = h.list[1]
      /\ again <=> status[c] = Disconnected /\ new = Connected
      /\ status' = [status EXCEPT ![c] = new]
      /\ blurred' = [d \in Clients |-> blurred[d] \cup (IF again THEN {c} ELSE {})]
  BY DEF ChangeStatus, Next1
<1> HIDE DEF c, new, again
<1>2. /\ Shape /\ AllFine /\ listMutex \in Threads \cup {Nobody}
      /\ \A e \in Clients : e \in Threads
      /\ At(t, "status") /\ todo[t] # <<>> /\ h.do = "status"
      /\ Follow(t, <<>>)
      /\ UNCHANGED <<stage, inbox, peer, connected, person, buffer, response, listMutex, screen>>
  BY DEF IInv, Alive, Threads, Shape, ChangeStatus, At, Next1, Socket
<1>3. t # listMutex
  BY <1>2, NotBroadcasting
<1>4. /\ AllFine' /\ Moves(t, h, {}, R) /\ Right(t, Known(t), h, R)
      /\ Fine(t, Known(t), Tail(todo[t]), {})
  <2> HIDE DEF h, R
  <2> QED BY <1>2, DropFine DEF h, R
<1>5. \/ h.list = <<Disconnected>> /\ c \in Clients /\ ((c = t /\ ~HasPlayer(t)) \/ Going(R, c))
      \/ h.list = <<LoggingIn>> /\ c = t /\ t \in Clients /\ ~HasPlayer(t) /\ ~Has(R, "close")
      \/ h.list = <<Connected>> /\ c = t /\ t \in Clients /\ HasPlayer(t) /\ ~HasLogin(R) /\ ~Has(R, "close")
  <2>1. RightStatus(t, Known(t), h, R)
    BY <1>2, <1>4 DEF Right
  <2> QED BY <1>1, <2>1 DEF RightStatus, Known
<1>6. ASSUME NEW y \in R
      PROVE  \E after : Right(t, Known(t), y, after) /\ after \subseteq R
  <2>1. PICK after : Right(t, Known(t), y, after \cup {}) /\ after \subseteq R
    BY <1>4, FineMember
  <2>2. after \cup {} = after
    OBVIOUS
  <2> QED BY <2>1, <2>2
<1> HIDE DEF h, R
(* What may come after the status that is set. *)
<1>7. \/ /\ new = Disconnected /\ ~LogsIn(h) /\ c \in Clients /\ ((c = t /\ ~HasPlayer(t)) \/ Going(R, c))
      \/ /\ new = LoggingIn /\ ~LogsIn(h) /\ c = t /\ c \in Clients /\ ~HasPlayer(c) /\ ~Has(R, "close")
         /\ ~HasLogin(R)
      \/ /\ new = Connected /\ LogsIn(h) /\ c = t /\ c \in Clients /\ HasPlayer(c) /\ ~Has(R, "close")
         /\ ~HasLogin(R) /\ ~Has(R, "list") /\ (\A x \in R : x.do = "status" => x.list = <<Disconnected>>)
  <2>1. CASE h.list = <<Disconnected>> /\ c \in Clients /\ ((c = t /\ ~HasPlayer(t)) \/ Going(R, c))
    BY <1>1, <2>1, Statuses DEF LogsIn
  <2>2. CASE h.list = <<LoggingIn>> /\ c = t /\ t \in Clients /\ ~HasPlayer(t) /\ ~Has(R, "close")
    <3>1. ASSUME NEW y \in R, LogsIn(y) PROVE FALSE
      <4>1. PICK after : Right(t, Known(t), y, after)
        BY <1>6
      <4>2. RightStatus(t, Known(t), y, after) /\ y.list = <<Connected>>
        BY <3>1, <4>1 DEF Right, LogsIn
      <4> QED BY <2>2, <4>2, Statuses DEF RightStatus, Known
    <3> QED BY <1>1, <2>2, <3>1, Statuses DEF LogsIn, HasLogin
  <2>3. CASE h.list = <<Connected>> /\ c = t /\ t \in Clients /\ HasPlayer(t) /\ ~HasLogin(R) /\ ~Has(R, "close")
    <3>1. ASSUME NEW y \in R PROVE y.do # "list" /\ (y.do = "status" => y.list = <<Disconnected>>)
      <4>1. PICK after : Right(t, Known(t), y, after) /\ after \subseteq R
        BY <1>6
      <4>2. ~HasLogin(after)
        BY <2>3, <4>1 DEF HasLogin
      <4>3. y.do # "list"
        BY <4>1, <4>2 DEF Right, RightList
      <4>4. ASSUME y.do = "status" PROVE y.list = <<Disconnected>>
        <5>1. RightStatus(t, Known(t), y, after)
          BY <4>1, <4>4 DEF Right
        <5>2. y.list # <<Connected>>
          BY <2>3, <4>4 DEF HasLogin, LogsIn
        <5>3. Known(t)
          BY <2>3 DEF Known
        <5> QED BY <5>1, <5>2, <5>3 DEF RightStatus
      <4> QED BY <4>3, <4>4
    <3>2. LogsIn(h) /\ new = Connected
      BY <1>1, <1>2, <2>3, Statuses DEF LogsIn, h
    <3> QED BY <2>3, <3>1, <3>2 DEF Has
  <2> QED BY <1>5, <2>1, <2>2, <2>3
<1>8. /\ \A e \in Clients : status'[e] = IF e = c THEN new ELSE status[e]
      /\ \A a \in Clients : \A e : e \notin blurred'[a] => e \notin blurred[a] /\ (e = c => ~again)
  BY <1>1 DEF Alive, Types
<1>9. PICK A, B, H : A = Tasks(t) /\ B = Tasks(t)' /\ H = {h} /\ Both(A, H, R) /\ Both(B, {}, R) /\ B = R
  BY <1>4 DEF Moves, Both
<1>10. /\ HasLogin(H) <=> LogsIn(h)
       /\ \A do : Has(H, do) => do = "status"
       /\ \A e : /\ ~Writing(H, e) /\ ~Carrying(H, e) /\ ~Spawning(H, e) /\ ~Going(H, e)
                 /\ Moving(H, e) => e = c
                 /\ Ordering(H, e) => e = c
  <2>1. /\ h.do = "status" /\ ~Writes(h)
        /\ \A e : ~Carries(h, e) /\ ~PutsSpawn(h, e) /\ ~PutsGone(h, e) /\ (Orders(h, e) => e = c)
    BY <1>1, <1>2 DEF Writes, Carries, PutsSpawn, PutsGone, Orders, h
  <2>2. \A e : Moving(H, e) => e = c
    BY <1>1, <1>9 DEF Moving
  <2> QED BY <1>9, <2>1, <2>2, SingleFacts
<1>11. /\ HasLogin(A) <=> LogsIn(h) \/ HasLogin(B)
       /\ Has(B, "list") <=> Has(A, "list")
       /\ Has(B, "close") <=> Has(A, "close")
       /\ \A e : /\ Writing(B, e) <=> Writing(A, e)
                 /\ Carrying(B, e) <=> Carrying(A, e)
                 /\ Spawning(B, e) <=> Spawning(A, e)
                 /\ Going(B, e) <=> Going(A, e)
                 /\ Ordering(B, e) => Ordering(A, e)
                 /\ Moving(A, e) => Moving(B, e) \/ e = c
  BY <1>9, <1>10, UnionFacts, NoneFacts
<1>12. \A u \in Threads \ {t} : todo'[u] = todo[u] /\ Tasks(u)' = Tasks(u)
  BY <1>4 DEF Moves
<1>13. \A e : /\ Circles(e)' <=> Circles(e)
              /\ \A a : Due(a, e)' <=> Due(a, e)
              /\ Late(e)' <=> Late(e)
              /\ Target(e)' <=> Target(e)
  <2>1. \A u \in Threads \ {t} : todo'[u] = todo[u]
    BY <1>12
  <2> QED BY <1>2, <1>3, <2>1, RoundFrame
<1>14. \A e \in Clients : (HasPlayer(e)' <=> HasPlayer(e)) /\ (News(e)' <=> News(e)) /\ Sees(e)' = Sees(e)
  BY <1>2 DEF News, HasPlayer, Sees
<1>15. \A u \in Threads : /\ HasLogin(Tasks(u)') => HasLogin(Tasks(u))
                          /\ HasLogin(Tasks(u)) => HasLogin(Tasks(u)') \/ u = c
                          /\ Has(Tasks(u)', "list") <=> Has(Tasks(u), "list")
                          /\ Has(Tasks(u)', "close") <=> Has(Tasks(u), "close")
                          /\ todo'[u] # <<>> => todo[u] # <<>>
                          /\ \A x \in Tasks(u)' : x \in Tasks(u)
                          /\ Moving(Tasks(u), u) => Moving(Tasks(u)', u) \/ u = c
                          /\ \A e : /\ Going(Tasks(u)', e) <=> Going(Tasks(u), e)
                                    /\ Spawning(Tasks(u)', e) <=> Spawning(Tasks(u), e)
                                    /\ Ordering(Tasks(u)', e) => Ordering(Tasks(u), e)
                                    /\ Carrying(Tasks(u)', e) <=> Carrying(Tasks(u), e)
                                    /\ Writing(Tasks(u)', e) <=> Writing(Tasks(u), e)
  <2> SUFFICES ASSUME NEW u \in Threads
               PROVE  /\ HasLogin(Tasks(u)') => HasLogin(Tasks(u))
                      /\ HasLogin(Tasks(u)) => HasLogin(Tasks(u)') \/ u = c
                      /\ Has(Tasks(u)', "list") <=> Has(Tasks(u), "list")
                      /\ Has(Tasks(u)', "close") <=> Has(Tasks(u), "close")
                      /\ todo'[u] # <<>> => todo[u] # <<>>
                      /\ \A x \in Tasks(u)' : x \in Tasks(u)
                      /\ Moving(Tasks(u), u) => Moving(Tasks(u)', u) \/ u = c
                      /\ \A e : /\ Going(Tasks(u)', e) <=> Going(Tasks(u), e)
                                /\ Spawning(Tasks(u)', e) <=> Spawning(Tasks(u), e)
                                /\ Ordering(Tasks(u)', e) => Ordering(Tasks(u), e)
                                /\ Carrying(Tasks(u)', e) <=> Carrying(Tasks(u), e)
                                /\ Writing(Tasks(u)', e) <=> Writing(Tasks(u), e)
    OBVIOUS
  <2>1. CASE u = t
    <3>1. LogsIn(h) => t = c
      BY <1>7
    <3>2. \A x \in B : x \in A
      BY <1>9 DEF Both
    <3> QED BY <1>2, <1>9, <1>11, <2>1, <3>1, <3>2
  <2>2. CASE u # t
    <3>1. todo'[u] = todo[u] /\ Tasks(u)' = Tasks(u)
      BY <1>12, <2>2
    <3> QED BY <3>1
  <2> QED BY <2>1, <2>2
<1>16. Rounds'
  BY <1>2, <1>3, <1>12, RoundsKept DEF Alive
<1>17. ASSUME NEW e \in Clients PROVE Unknown(e)' /\ Carried(e)'
  <2>1. Unknown(e) /\ Carried(e)
    BY DEF Alive, Told
  <2>2. Unknown(e)'
    BY <1>2, <1>14, <1>15, <2>1 DEF Unknown
  <2>3. Carried(e)'
    BY <1>14, <1>15, <2>1 DEF Carried
  <2> QED BY <2>2, <2>3
<1>18. ASSUME NEW a \in Clients, NEW e \in Clients PROVE Untold(a, e)'
  <2>1. SUFFICES ASSUME status'[e] # Disconnected, e \notin blurred'[a]
                 PROVE  /\ ~TellsGone(buffer[OthersBuffer(e)], e)
                        /\ \A u \in Threads : Going(Tasks(u)', e) => Orders(Head(todo'[u]), e)
    BY <1>2 DEF Untold
  <2>2. CASE status[e] # Disconnected /\ ~Orders(h, e)
    <3>1. /\ ~TellsGone(buffer[OthersBuffer(e)], e)
          /\ \A u \in Threads : Going(Tasks(u), e) => Orders(Head(todo[u]), e)
      BY <1>8, <2>1, <2>2 DEF Alive, Told, Untold
    <3>2. ~Going(Tasks(t), e)
      BY <2>2, <3>1 DEF h
    <3> QED BY <1>12, <1>15, <3>1, <3>2
  <2>3. CASE e = c /\ new = LoggingIn
    <3>1. ~HasPlayer(e)
      BY <1>7, <2>3, Statuses
    <3>2. ~News(e) /\ \A u \in Threads : ~Going(Tasks(u), e)
      BY <3>1 DEF Alive, Told, Unknown
    <3>3. ~TellsGone(buffer[OthersBuffer(e)], e)
      BY <3>2, EntitiesRule DEF News, TellsGone, Says
    <3> QED BY <1>15, <3>2, <3>3
  <2>4. Orders(h, e) => e = c /\ new = Disconnected
    BY <1>1, Statuses DEF Orders
  <2>5. e = c => new # Disconnected
    BY <1>8, <2>1
  <2>6. e # c => status[e] # Disconnected
    BY <1>8, <2>1
  <2>7. e = c /\ new = Connected => status[e] # Disconnected
    BY <1>1, <1>8, <2>1
  <2>8. new \in {Disconnected, LoggingIn, Connected}
    BY <1>7
  <2> QED BY <2>2, <2>3, <2>4, <2>5, <2>6, <2>7, <2>8
<1>19. ASSUME NEW a \in Clients, Listens(a)' PROVE Listens(a)
  <2>1. peer[a] = "open" /\ (status'[a] = Connected \/ (HasLogin(Tasks(a)') /\ ~Has(Tasks(a)', "list")))
    BY <1>2, <1>19 DEF Listens
  <2>2. CASE HasLogin(Tasks(a)') /\ ~Has(Tasks(a)', "list")
    BY <1>2, <1>15, <2>1, <2>2 DEF Listens
  <2>3. CASE a # c /\ status'[a] = Connected
    BY <1>8, <2>1, <2>3 DEF Listens
  <2>4. CASE a = c /\ new = Connected
    <3>1. LogsIn(h) /\ c = t /\ ~Has(R, "list")
      BY <1>7, <2>4, Statuses
    <3>2. HasLogin(A) /\ ~Has(A, "list")
      BY <1>9, <1>11, <3>1
    <3> QED BY <1>9, <2>1, <2>4, <3>1, <3>2 DEF Listens
  <2> QED BY <1>8, <2>1, <2>2, <2>3, <2>4
<1>20. ASSUME NEW a \in Clients, NEW e \in Clients, e \notin blurred'[a], Here(e)' PROVE Here(e)
  <2>1. status'[e] = Connected \/ (status'[e] # Disconnected /\ HasLogin(Tasks(e)'))
    BY <1>20 DEF Here
  <2>2. CASE e # c
    BY <1>2, <1>8, <1>15, <2>1, <2>2 DEF Here
  <2>3. CASE e = c /\ new = Connected
    <3>1. status[e] # Disconnected
      BY <1>1, <1>8, <1>20, <2>3
    <3>2. LogsIn(h) /\ e = t
      BY <1>7, <2>3, Statuses
    <3> QED BY <1>9, <1>11, <3>1, <3>2 DEF Here
  <2>4. CASE e = c /\ new # Connected
    <3>1. status'[e] = new
      BY <1>8, <2>4
    <3>2. new = LoggingIn /\ e = t /\ ~HasLogin(R)
      BY <1>7, <2>1, <2>4, <3>1
    <3> QED BY <1>9, <2>1, <2>4, <3>1, <3>2
  <2> QED BY <2>2, <2>3, <2>4
<1>21. ASSUME NEW a \in Clients, NEW e \in Clients PROVE Shown(a, e)' /\ Hidden(a, e)'
  <2>1. Shown(a, e) /\ Hidden(a, e) /\ a \in Threads /\ e \in Threads
    BY <1>2 DEF Alive, Told
  <2>2. /\ Due(a, e)' <=> Due(a, e)
        /\ Late(e)' <=> Late(e)
        /\ News(e)' <=> News(e)
        /\ Spawning(Tasks(e)', e) <=> Spawning(Tasks(e), e)
        /\ Writing(Tasks(a)', e) <=> Writing(Tasks(a), e)
        /\ Sees(a)' = Sees(a)
        /\ e \notin blurred'[a] => e \notin blurred[a]
    BY <1>8, <1>13, <1>14, <1>15, <2>1
  <2>3. Shown(a, e)'
    BY <1>19, <1>20, <2>1, <2>2 DEF Shown
  <2>4. Hidden(a, e)'
    <3>1. CASE Away(e)
      BY <1>2, <1>19, <2>1, <2>2, <3>1 DEF Hidden
    <3>2. CASE ~HasPlayer(e)
      <4>1. ~News(e) /\ ~Writing(Tasks(a), e) /\ (peer[a] = "open" => e \notin Sees(a))
        BY <3>2 DEF Alive, Told, Unknown
      <4>2. ~LastSpawn(buffer[OthersBuffer(e)], e)
        BY <4>1, EntitiesRule DEF News, LastSpawn, Says
      <4> QED BY <1>2, <2>2, <4>1, <4>2 DEF Hidden, Listens
    <3>3. CASE Away(e)' /\ ~Away(e) /\ HasPlayer(e)
      <4>1. status'[e] = Disconnected /\ ~HasLogin(Tasks(e)') /\ ~Leaving(e)'
        BY <3>3 DEF Away
      <4>2. ~Leaving(e)
        BY <1>15, <4>1 DEF Leaving
      <4>3. e = c
        BY <1>8, <1>15, <2>1, <3>3, <4>1, <4>2 DEF Away
      <4>4. new = Disconnected
        BY <1>8, <4>1, <4>3
      <4>5. Going(R, e)
        BY <1>7, <3>3, <4>3, <4>4, Statuses
      <4>6. Leaving(e)'
        BY <1>9, <4>5 DEF Leaving
      <4> QED BY <4>1, <4>6
    <3> QED BY <3>1, <3>2, <3>3 DEF Hidden
  <2> QED BY <2>3, <2>4
<1>22. ASSUME NEW e \in Clients PROVE Progress(e)'
  <2>1. Progress(e) /\ e \in Threads
    BY <1>2 DEF Alive
  <2>2. Settled(e) /\ (status'[e] = status[e] \/ status'[e] = Disconnected) => Settled(e)'
    BY <1>14, <1>15, <2>1, Statuses DEF Settled
  <2>3. status'[e] = Connected \/ Target(e)' => Settled(e)'
    <3>1. CASE e # c
      BY <1>8, <1>13, <2>1, <2>2, <3>1 DEF Progress
    <3>2. CASE e = c /\ new = Disconnected
      BY <1>8, <1>13, <2>1, <2>2, <3>2, Statuses DEF Progress
    <3>3. CASE e = c /\ new = LoggingIn
      <4>1. ~HasPlayer(e)
        BY <1>7, <3>3, Statuses
      <4>2. ~Target(e)
        BY <2>1, <4>1 DEF Progress, Settled
      <4> QED BY <1>8, <1>13, <3>3, <4>2, Statuses
    <3>4. CASE e = c /\ new = Connected
      <4>1. HasPlayer(e) /\ c = t /\ \A x \in R : x.do = "status" => x.list = <<Disconnected>>
        BY <1>7, <3>4, Statuses
      <4> QED BY <1>8, <1>9, <1>14, <3>4, <4>1 DEF Settled
    <3> QED BY <1>7, <3>1, <3>2, <3>3, <3>4
  <2>4. HasPlayer(e)' /\ status'[e] \notin {Connected, Disconnected} => Moving(Tasks(e)', e)
    <3>1. CASE e # c
      BY <1>8, <1>14, <1>15, <2>1, <3>1 DEF Progress
    <3>2. CASE e = c
      BY <1>7, <1>8, <1>14, <3>2
    <3> QED BY <3>1, <3>2
  <2>5. status'[e] # Disconnected \/ todo'[e] # <<>> => e \in ToSet(connected)'
    <3>1. e = t => e \in ToSet(connected)
      BY <1>2, <2>1 DEF Progress
    <3>2. CASE e # c
      BY <1>2, <1>8, <1>15, <2>1, <3>2 DEF Progress
    <3>3. CASE e = c
      BY <1>2, <1>7, <1>8, <1>15, <2>1, <3>1, <3>3 DEF Progress
    <3> QED BY <3>2, <3>3
  <2>6. Has(Tasks(e)', "close") => status'[e] = Disconnected
    <3>1. CASE e # c
      BY <1>8, <1>15, <2>1, <3>1 DEF Progress
    <3>2. CASE e = c
      BY <1>7, <1>8, <1>9, <3>2
    <3> QED BY <3>1, <3>2
  <2>7. peer'[e] = "open" /\ (~HasPlayer(e)' \/ Has(Tasks(e)', "list")) => Sees(e)' = {}
    BY <1>2, <1>14, <1>15, <2>1 DEF Progress
  <2> QED BY <2>3, <2>4, <2>5, <2>6, <2>7 DEF Progress
<1>23. \A e \in Clients : Arrival(e)'
  BY <1>2, <1>4, MoveArrival, NoneFacts
<1> QED BY <1>4, <1>16, <1>17, <1>18, <1>21, <1>22, <1>23 DEF Alive, Told

-----------------------------------------------------------------------------
(* The steps of a broadcast. *)

LEMMA RoundTasks ==
  ASSUME Alive, NEW t, NEW h, NEW M, NEW R, Moves(t, h, M, R), h = Head(todo[t]),
         h.do \in {"broadcast", "deliver", "append"}, \A x \in M : x.do \in {"deliver", "append"}
  PROVE  /\ \A u \in Threads : /\ HasLogin(Tasks(u)') <=> HasLogin(Tasks(u))
                               /\ Has(Tasks(u)', "list") <=> Has(Tasks(u), "list")
                               /\ \A e : /\ Going(Tasks(u)', e) <=> Going(Tasks(u), e)
                                         /\ Spawning(Tasks(u)', e) <=> Spawning(Tasks(u), e)
                                         /\ Ordering(Tasks(u)', e) <=> Ordering(Tasks(u), e)
                                         /\ Writing(Tasks(u)', e) <=> Writing(Tasks(u), e)
                                         /\ u # t => (Carrying(Tasks(u)', e) <=> Carrying(Tasks(u), e))
         /\ ~Has(M, "status") /\ ~Has(M, "close") /\ ~Has(M, "packet") /\ ~HasPing(M)
         /\ \A e : ~Orders(h, e)
<1>1. PICK A, B, H : A = Tasks(t) /\ B = Tasks(t)' /\ H = {h} /\ Both(A, H, R) /\ Both(B, M, R)
  BY DEF Moves
<1>2. /\ ~HasLogin(H) /\ ~Has(H, "list")
      /\ \A e : ~Writing(H, e) /\ ~Spawning(H, e) /\ ~Going(H, e) /\ ~Ordering(H, e)
  <2>1. /\ ~LogsIn(h) /\ ~Writes(h) /\ h.do # "list"
        /\ \A e : ~PutsSpawn(h, e) /\ ~PutsGone(h, e) /\ ~Orders(h, e)
    BY DEF LogsIn, Writes, PutsSpawn, PutsGone, Orders
  <2> QED BY <1>1, <2>1, SingleFacts
<1>3. /\ ~HasLogin(M) /\ ~Has(M, "list")
      /\ \A e : ~Writing(M, e) /\ ~Spawning(M, e) /\ ~Going(M, e) /\ ~Ordering(M, e)
  <2>1. \A x \in M : /\ ~LogsIn(x) /\ ~Writes(x) /\ x.do # "list"
                     /\ \A e : ~PutsSpawn(x, e) /\ ~PutsGone(x, e) /\ ~Orders(x, e)
    BY DEF LogsIn, Writes, PutsSpawn, PutsGone, Orders
  <2> QED BY <2>1 DEF HasLogin, Has, Writing, Spawning, Going, Ordering
<1>4. /\ HasLogin(B) <=> HasLogin(A)
      /\ Has(B, "list") <=> Has(A, "list")
      /\ \A e : /\ Writing(B, e) <=> Writing(A, e)
                /\ Spawning(B, e) <=> Spawning(A, e)
                /\ Going(B, e) <=> Going(A, e)
                /\ Ordering(B, e) <=> Ordering(A, e)
  BY <1>1, <1>2, <1>3, UnionFacts
<1>5. \A u \in Threads \ {t} : Tasks(u)' = Tasks(u)
  BY DEF Moves
<1>6. \A u \in Threads : /\ HasLogin(Tasks(u)') <=> HasLogin(Tasks(u))
                         /\ Has(Tasks(u)', "list") <=> Has(Tasks(u), "list")
                         /\ \A e : /\ Going(Tasks(u)', e) <=> Going(Tasks(u), e)
                                   /\ Spawning(Tasks(u)', e) <=> Spawning(Tasks(u), e)
                                   /\ Ordering(Tasks(u)', e) <=> Ordering(Tasks(u), e)
                                   /\ Writing(Tasks(u)', e) <=> Writing(Tasks(u), e)
                                   /\ u # t => (Carrying(Tasks(u)', e) <=> Carrying(Tasks(u), e))
  BY <1>1, <1>4, <1>5
<1>7. ~Has(M, "status") /\ ~Has(M, "close") /\ ~Has(M, "packet") /\ ~HasPing(M)
  BY DEF Has, HasPing, Pings
<1>8. \A e : ~Orders(h, e)
  BY DEF Orders
<1> QED BY <1>6, <1>7, <1>8

(* What the step of a broadcast must do for those who are still to be told. *)
Tells(a, e) ==
  Listens(a) /\ a # e /\ e \notin blurred'[a] =>
    /\ Here(e) /\ ((Due(a, e) /\ News(e)) \/ e \in Sees(a)) => (Due(a, e)' /\ News(e)) \/ e \in Sees(a)'
    /\ Away(e) /\ Due(a, e) /\ News(e) => Due(a, e)' \/ (e \notin Sees(a)' /\ ~Writing(Tasks(a), e))
    /\ Away(e) /\ e \notin Sees(a) => e \notin Sees(a)'

LEMMA RoundAlive ==
  ASSUME IInv, Alive, Types', AllFine', Rounds', NEW t, NEW h, NEW M, NEW R, Moves(t, h, M, R), h = Head(todo[t]),
         h.do \in {"broadcast", "deliver", "append"}, \A x \in M : x.do \in {"deliver", "append"},
         UNCHANGED <<status, connected, person, stage, inbox, peer, buffer>>,
         \A e \in Clients :
           /\ Late(e) => Late(e)'
           /\ Carrying(Tasks(t), OthersBuffer(e)) => Carrying(Tasks(t)', OthersBuffer(e))
           /\ Target(e)' => Target(e) \/ Settled(e)
           /\ Sees(e)' = Sees(e) \/ (HasPlayer(e) /\ ~Has(Tasks(e), "list")),
         \A a, e \in Clients :
           /\ e \notin blurred'[a] => e \notin blurred[a]
           /\ ~HasPlayer(e) /\ e \notin Sees(a) => e \notin Sees(a)'
           /\ Tells(a, e)
  PROVE  Alive'
<1>1. /\ \A u \in Threads : /\ HasLogin(Tasks(u)') <=> HasLogin(Tasks(u))
                            /\ Has(Tasks(u)', "list") <=> Has(Tasks(u), "list")
                            /\ \A e : /\ Going(Tasks(u)', e) <=> Going(Tasks(u), e)
                                      /\ Spawning(Tasks(u)', e) <=> Spawning(Tasks(u), e)
                                      /\ Ordering(Tasks(u)', e) <=> Ordering(Tasks(u), e)
                                      /\ Writing(Tasks(u)', e) <=> Writing(Tasks(u), e)
                                      /\ u # t => (Carrying(Tasks(u)', e) <=> Carrying(Tasks(u), e))
      /\ ~Has(M, "status") /\ ~Has(M, "close") /\ ~Has(M, "packet") /\ ~HasPing(M)
      /\ \A e : ~Orders(h, e)
  BY RoundTasks
<1>2. \A e \in Clients : e \in Threads /\ (HasPlayer(e)' <=> HasPlayer(e)) /\ (News(e)' <=> News(e))
  BY DEF Threads, HasPlayer, News
<1>3. \A u \in Threads \ {t} : todo'[u] = todo[u]
  BY DEF Moves
<1>4. ASSUME NEW e \in Clients PROVE Unknown(e)' /\ Carried(e)'
  <2>1. Unknown(e) /\ Carried(e)
    BY DEF Alive, Told
  <2>2. Unknown(e)'
    BY <1>1, <1>2, <2>1 DEF Unknown
  <2>3. Carried(e)'
    BY <1>1, <1>2, <2>1 DEF Carried
  <2> QED BY <2>2, <2>3
<1>5. ASSUME NEW a \in Clients, NEW e \in Clients PROVE Untold(a, e)'
  <2>1. SUFFICES ASSUME status[e] # Disconnected, e \notin blurred'[a]
                 PROVE  /\ ~TellsGone(buffer[OthersBuffer(e)], e)
                        /\ \A u \in Threads : Going(Tasks(u)', e) => Orders(Head(todo'[u]), e)
    BY DEF Untold
  <2>2. /\ ~TellsGone(buffer[OthersBuffer(e)], e)
        /\ \A u \in Threads : Going(Tasks(u), e) => Orders(Head(todo[u]), e)
    BY <2>1 DEF Alive, Told, Untold
  <2> QED BY <1>1, <1>3, <2>2
<1>6. ASSUME NEW a \in Clients, NEW e \in Clients PROVE Shown(a, e)' /\ Hidden(a, e)'
  <2>1. Shown(a, e) /\ Hidden(a, e) /\ a \in Threads /\ e \in Threads
    BY <1>2 DEF Alive, Told
  <2>2. (Listens(a)' <=> Listens(a)) /\ (Here(e)' <=> Here(e)) /\ (Away(e)' <=> Away(e))
    BY <1>1, <2>1 DEF Listens, Here, Away, Leaving
  <2>3. /\ Late(e) => Late(e)'
        /\ News(e)' <=> News(e)
        /\ Spawning(Tasks(e)', e) <=> Spawning(Tasks(e), e)
        /\ Writing(Tasks(a)', e) <=> Writing(Tasks(a), e)
        /\ e \notin blurred'[a] => e \notin blurred[a]
        /\ Tells(a, e)
    BY <1>1, <1>2, <2>1
  <2>4. Shown(a, e)'
    BY <2>1, <2>2, <2>3 DEF Shown, Tells
  <2>5. Hidden(a, e)'
    BY <2>1, <2>2, <2>3 DEF Hidden, Tells
  <2> QED BY <2>4, <2>5
<1>7. \A e \in Clients : Progress(e)'
  <2>1. ASSUME NEW e \in Clients, peer[e] = "open", ~HasPlayer(e) \/ Has(Tasks(e)', "list")
        PROVE  Sees(e)' = {}
    <3>1. ~HasPlayer(e) \/ Has(Tasks(e), "list")
      BY <1>1, <1>2, <2>1
    <3>2. Sees(e)' = Sees(e)
      BY <3>1
    <3> QED BY <2>1, <3>1, <3>2 DEF Alive, Progress
  <2>2. h.do # "status"
    OBVIOUS
  <2> QED BY <1>1, <2>1, <2>2, SteadyProgress
<1>8. \A e \in Clients : Arrival(e)'
  BY <1>1, MoveArrival
<1> QED BY <1>4, <1>5, <1>6, <1>7, <1>8 DEF Alive, Told

-----------------------------------------------------------------------------
(* A broadcast begins: whoever listens is in the vector it goes through. *)

LEMMA ListensConnected ==
  ASSUME Alive, NEW a \in Clients, Listens(a)
  PROVE  a \in ToSet(connected)
<1>1. Progress(a)
  BY DEF Alive
<1>2. CASE status[a] = Connected
  BY <1>1, <1>2, Statuses DEF Progress
<1>3. CASE HasLogin(Tasks(a))
  <2>1. todo[a] # <<>>
    BY <1>3, NilFacts, NoneFacts DEF Tasks
  <2> QED BY <1>1, <2>1 DEF Progress
<1> QED BY <1>2, <1>3 DEF Listens

(* The round begins with all the clients in the vector: everybody who       *)
(* listens is due. *)
LEMMA LockAlive ==
  ASSUME IInv, Alive, Types', NEW t \in Threads, Lock(t)
  PROVE  Alive'
<1> DEFINE h == Head(todo[t])
           R == ToSet(Tail(todo[t]))
<1>1. /\ Shape /\ AllFine /\ listMutex = Nobody /\ listMutex' = t /\ t # Nobody
      /\ \A e \in Clients : e \in Threads
      /\ todo[t] # <<>> /\ h.do = "broadcast"
      /\ UNCHANGED <<status, connected, person, stage, inbox, peer, buffer, response, screen, blurred>>
  BY NobodyIsNoThread DEF IInv, Alive, Threads, Lock, At, Next1, Socket, statusUnchanged
<1>2. PICK x : /\ x.do = "deliver" /\ x.buf = h.buf /\ x.who = h.who
               /\ x.msgs = buffer[h.buf] /\ x.list = connected
               /\ Follow(t, <<x>>)
  <2> DEFINE x == [Next1(t) EXCEPT !.do = "deliver", !.id = ids + 1, !.msgs = buffer[Next1(t).buf],
                                   !.list = connected]
  <2>1. Follow(t, <<x>>)
    BY DEF Lock
  <2>2. /\ x.do = "deliver" /\ x.buf = Next1(t).buf /\ x.who = Next1(t).who
        /\ x.msgs = buffer[Next1(t).buf] /\ x.list = connected
    OBVIOUS
  <2> HIDE DEF x
  <2> QED BY <2>1, <2>2 DEF Next1
<1>3. PICK more : more = <<x>> /\ Follow(t, more) /\ IsSeq(more) /\ ToSet(more) = {x}
  BY <1>2, OneFacts
<1> HIDE DEF h, R
<1>4. Right(t, Known(t), h, R) /\ Moves(t, h, {x}, R)
  BY <1>1, <1>3, HeadTask, MovesFacts DEF h, R
<1>5. todo'[t] # <<>> /\ Head(todo'[t]) = x
  <2>1. todo'[t] = more \o Tail(todo[t]) /\ IsSeq(Tail(todo[t]))
    BY <1>1, <1>3, FollowFacts
  <2> QED BY <1>3, <2>1, ConsFacts
<1>6. h.buf \in Buffers /\ IsSeq(buffer[h.buf]) /\ \A d : h.buf = OthersBuffer(d) => h.who = d
  BY <1>1, <1>4 DEF Right, Alive, Types
<1>7. AllFine'
  <2>1. Right(t, Known(t), x, R)
    BY <1>2, <1>6 DEF Right, Writes
  <2>2. \A u : Known(u)' = Known(u)
    BY <1>1 DEF Known, HasPlayer
  <2>3. Fine(t, Known(t)', more, R)
    BY <1>3, <2>1, <2>2, FineOne
  <2> QED BY <1>1, <1>3, <2>2, <2>3, FineStep DEF R
<1>8. RoundOf(todo'[t]) = x
  BY <1>2, <1>5 DEF RoundOf
<1>9. Rounds'
  <2>1. Len(buffer[h.buf]) \in Nat
    BY <1>6, SeqFacts
  <2>2. /\ Len(x.msgs) \in Nat /\ Len(x.msgs) <= Len(buffer[x.buf])
        /\ Head(todo'[t]).do # "append"
    BY <1>2, <1>5, <2>1
  <2> QED BY <1>1, <1>8, <2>2 DEF Rounds
<1>10. ASSUME NEW e \in Clients
       PROVE  /\ Late(e) => Late(e)'
              /\ Carrying(Tasks(t), OthersBuffer(e)) => Carrying(Tasks(t)', OthersBuffer(e))
              /\ Target(e)' => Target(e) \/ Settled(e)
              /\ Sees(e)' = Sees(e)
  <2>1. ~Late(e)
    BY <1>1 DEF Late, Circles
  <2>2. Carrying(Tasks(t), OthersBuffer(e)) => Carrying(Tasks(t)', OthersBuffer(e))
    <3>1. PICK A, B, H, M : A = Tasks(t) /\ B = Tasks(t)' /\ H = {h} /\ M = {x} /\ Both(A, H, R) /\ Both(B, M, R)
      BY <1>4 DEF Moves
    <3>2. Carrying(H, OthersBuffer(e)) => Carrying(M, OthersBuffer(e))
      BY <1>1, <1>2, <3>1 DEF Carrying, Carries
    <3> QED BY <3>1, <3>2, UnionFacts
  <2>3. ~Target(e)'
    BY <1>1, <1>2, <1>5 DEF Target
  <2>4. Sees(e)' = Sees(e)
    BY <1>1 DEF Sees
  <2> QED BY <2>1, <2>2, <2>3, <2>4
<1>11. ASSUME NEW a \in Clients, NEW e \in Clients PROVE Tells(a, e)
  <2>1. Listens(a) => Due(a, e)'
    <3>1. SUFFICES ASSUME Listens(a) PROVE DueIn(todo'[t], a)
      BY <1>1 DEF Due
    <3> QED BY <1>2, <1>8, <3>1, ListensConnected DEF DueIn
  <2>2. News(e)' <=> News(e)
    BY <1>1 DEF News
  <2>3. Sees(a)' = Sees(a)
    BY <1>10
  <2> QED BY <2>1, <2>2, <2>3 DEF Tells
<1>12. h.do \in {"broadcast", "deliver", "append"} /\ \A y \in {x} : y.do \in {"deliver", "append"}
  BY <1>1, <1>2
<1>13. h = Head(todo[t])
  BY DEF h
<1>14. UNCHANGED <<status, connected, person, stage, inbox, peer, buffer>>
  BY <1>1
<1>15. \A a, e \in Clients :
         /\ e \notin blurred'[a] => e \notin blurred[a]
         /\ ~HasPlayer(e) /\ e \notin Sees(a) => e \notin Sees(a)'
         /\ Tells(a, e)
  BY <1>1, <1>10, <1>11
<1> QED BY <1>4, <1>7, <1>9, <1>10, <1>12, <1>13, <1>14, <1>15, RoundAlive

-----------------------------------------------------------------------------
(* A broadcast goes on: one client is passed over, or is about to be told. *)

LEMMA HolderFacts ==
  ASSUME IInv, NEW t \in Threads, todo[t] # <<>>, Head(todo[t]).do = "deliver"
  PROVE  /\ t = listMutex /\ t # Nobody /\ ids # 0
         /\ Head(todo[t]).id = ids
         /\ IsSeq(Head(todo[t]).list) /\ Head(todo[t]).list \in Seq(Clients)
         /\ RoundOf(todo[t]) = Head(todo[t])
         /\ \A e : DueIn(todo[t], e) <=> e \in ToSet(Head(todo[t]).list)
<1>1. t = listMutex /\ Looping(todo[t])
  BY PlainHeadTail DEF IInv, InOrder, Appending
<1>2. t # Nobody
  BY NobodyIsNoThread
<1>3. ids # 0
  BY <1>1, <1>2 DEF IInv, InOrder
<1> QED BY <1>1, <1>2, <1>3 DEF Looping, RoundOf, DueIn, IsSeq

(* A list of two, before another one. *)
Twin(m, x, y, s) ==
  /\ m = <<x, y>> /\ IsSeq(m) /\ ToSet(m) = {x, y} /\ m = <<x>> \o <<y>>
  /\ Head(m \o s) = x /\ Tail(m \o s) = <<y>> \o s

LEMMA TwoFacts ==
  ASSUME NEW x, NEW y, NEW s, IsSeq(s)
  PROVE  \E m : Twin(m, x, y, s)
<1>0. PICK m : m = <<x, y>>
  OBVIOUS
<1>1. PICK S : s \in Seq(S)
  BY DEF IsSeq
<1>2. PICK T : s \in Seq(T) /\ <<x, y>> \in Seq(T) /\ <<x>> \in Seq(T) /\ <<y>> \in Seq(T)
  <2> DEFINE T == S \cup {x, y}
  <2>1. s \in Seq(T) /\ <<x, y>> \in Seq(T) /\ <<x>> \in Seq(T) /\ <<y>> \in Seq(T)
    BY <1>1, SeqMonotonic
  <2> HIDE DEF T
  <2> QED BY <2>1
<1>3. <<x, y>> = <<x>> \o <<y>>
  <2>1. PICK p, q, r, j : p = <<x>> /\ q = <<y>> /\ r = <<x, y>> /\ j = p \o q
    OBVIOUS
  <2>2. p \in Seq(T) /\ q \in Seq(T) /\ r \in Seq(T) /\ Len(p) = 1 /\ Len(q) = 1 /\ Len(r) = 2
        /\ p[1] = x /\ q[1] = y /\ r[1] = x /\ r[2] = y
    BY <1>2, <2>1
  <2>3. j \in Seq(T) /\ Len(j) = 2 /\ j[1] = x /\ j[2] = y
    BY <2>1, <2>2, ConcatProperties
  <2>4. \A i \in 1 .. Len(r) : r[i] = j[i]
    BY <2>2, <2>3
  <2> QED BY <2>1, <2>2, <2>3, <2>4, SeqEqual
<1>4. Head(m \o s) = x /\ Tail(m \o s) = <<y>> \o s
  BY <1>0, <1>2
<1>5. IsSeq(<<x>>) /\ IsSeq(<<y>>) /\ ToSet(<<x>>) = {x} /\ ToSet(<<y>>) = {y}
  BY OneFacts
<1>6. ToSet(<<x>> \o <<y>>) = {x} \cup {y}
  BY <1>5, CatSet
<1>7. IsSeq(m)
  BY <1>0, <1>2 DEF IsSeq
<1> QED BY <1>0, <1>3, <1>4, <1>6, <1>7 DEF Twin

(* A client that is passed over is the one the news is about, does not      *)
(* listen, or is blurred. *)
LEMMA DeliverAlive ==
  ASSUME IInv, Alive, Types', NEW t \in Threads, Deliver(t)
  PROVE  Alive'
<1> DEFINE h == Head(todo[t])
           R == ToSet(Tail(todo[t]))
           c == Head(h.list)
           passed == ~(c # h.who /\ status[c] = Connected)
<1>1. /\ Shape /\ AllFine
      /\ \A e \in Clients : e \in Threads
      /\ todo[t] # <<>> /\ h.do = "deliver" /\ h.list # <<>>
      /\ UNCHANGED <<status, connected, person, stage, inbox, peer, buffer, response, screen, listMutex>>
  BY DEF IInv, Alive, Threads, Deliver, At, Next1, Socket, statusUnchanged
<1>2. PICK rest : /\ rest.do = "deliver" /\ rest.id = h.id /\ rest.buf = h.buf /\ rest.who = h.who
                  /\ rest.msgs = h.msgs /\ rest.list = Tail(h.list)
                  /\ IF passed
                     THEN /\ Follow(t, <<rest>>)
                          /\ blurred' = IF c # h.who /\ HasListed(c)
                                        THEN [blurred EXCEPT ![c] = @ \cup Entities(buffer[h.buf])]
                                        ELSE blurred
                     ELSE /\ \E a : /\ a.do = "append" /\ a.who = c /\ a.buf = h.buf /\ a.id = h.id
                                    /\ Follow(t, <<a, rest>>)
                          /\ blurred' = blurred
  <2> DEFINE rest == [Next1(t) EXCEPT !.list = Tail(@)]
             a == [rest EXCEPT !.do = "append", !.who = Head(Next1(t).list)]
  <2>1. /\ rest.do = Next1(t).do /\ rest.id = Next1(t).id /\ rest.buf = Next1(t).buf /\ rest.who = Next1(t).who
        /\ rest.msgs = Next1(t).msgs /\ rest.list = Tail(Next1(t).list)
    OBVIOUS
  <2>2. a.do = "append" /\ a.who = Head(Next1(t).list) /\ a.buf = rest.buf /\ a.id = rest.id
    OBVIOUS
  <2>3. IF passed
        THEN /\ Follow(t, <<rest>>)
             /\ blurred' = IF c # h.who /\ HasListed(c)
                           THEN [blurred EXCEPT ![c] = @ \cup Entities(buffer[h.buf])]
                           ELSE blurred
        ELSE Follow(t, <<a, rest>>) /\ blurred' = blurred
    BY DEF Deliver, Next1, Follow
  <2> HIDE DEF rest, a
  <2> QED BY <1>1, <2>1, <2>2, <2>3 DEF Next1
<1>3. /\ t = listMutex /\ t # Nobody /\ ids # 0 /\ h.id = ids
      /\ IsSeq(h.list) /\ h.list \in Seq(Clients)
      /\ RoundOf(todo[t]) = h /\ \A e : DueIn(todo[t], e) <=> e \in ToSet(h.list)
  BY <1>1, HolderFacts
<1>4. c \in Clients /\ ToSet(h.list) = {c} \cup ToSet(Tail(h.list))
  BY <1>1, <1>3, TailFacts
<1>5. h = Head(todo[t]) /\ R = ToSet(Tail(todo[t]))
      /\ (passed <=> ~(c # h.who /\ status[c] = Connected))
  OBVIOUS
<1> HIDE DEF h, R, c, passed
<1>6. Right(t, Known(t), h, R) /\ IsSeq(Tail(todo[t]))
  BY <1>1, <1>5, HeadTask
<1>7. h.buf \in Buffers /\ \A d : h.buf = OthersBuffer(d) => h.who = d
  BY <1>1, <1>6 DEF Right
<1>8. Right(t, Known(t), rest, R)
  BY <1>2, <1>7 DEF Right, Writes
<1>9. \A u : Known(u)' = Known(u)
  BY <1>1 DEF Known, HasPlayer
<1>10. PICK M : /\ Moves(t, h, M, R) /\ rest \in M /\ \A y \in M : y.do \in {"deliver", "append"}
                /\ AllFine' /\ RoundOf(todo'[t]) = rest
                /\ Head(todo'[t]).do = "append" => Head(todo'[t]).buf = h.buf /\ Head(todo'[t]).who = c /\ ~passed
                /\ \A e : DueIn(todo[t], e) => DueIn(todo'[t], e) \/ (e = c /\ passed)
  <2>1. CASE passed
    <3>1. PICK more : more = <<rest>> /\ Follow(t, more) /\ IsSeq(more) /\ ToSet(more) = {rest}
      BY <1>2, <2>1, OneFacts
    <3>2. Moves(t, h, {rest}, R)
      BY <1>1, <1>5, <3>1, MovesFacts
    <3>3. Fine(t, Known(t)', more, R)
      BY <1>8, <1>9, <3>1, FineOne
    <3>4. AllFine'
      BY <1>1, <1>5, <1>9, <3>1, <3>3, FineStep
    <3>5. todo'[t] = more \o Tail(todo[t])
      BY <1>1, <3>1, FollowFacts
    <3>6. Head(todo'[t]) = rest
      BY <1>6, <3>1, <3>5, ConsFacts
    <3>7. RoundOf(todo'[t]) = rest /\ \A e : DueIn(todo'[t], e) <=> e \in ToSet(Tail(h.list))
      BY <1>2, <3>6 DEF RoundOf, DueIn
    <3> QED BY <1>2, <1>3, <1>4, <2>1, <3>2, <3>4, <3>6, <3>7
  <2>2. CASE ~passed
    <3>1. PICK a : a.do = "append" /\ a.who = c /\ a.buf = h.buf /\ a.id = h.id /\ Follow(t, <<a, rest>>)
      BY <1>2, <2>2
    <3>0. PICK s : s = Tail(todo[t]) /\ IsSeq(s)
      BY <1>6
    <3>2. PICK more : /\ more = <<a, rest>> /\ Follow(t, more) /\ IsSeq(more)
                      /\ ToSet(more) = {a, rest} /\ more = <<a>> \o <<rest>>
                      /\ Head(more \o s) = a /\ Tail(more \o s) = <<rest>> \o s
      <4>1. PICK more : Twin(more, a, rest, s)
        BY <3>0, TwoFacts
      <4> QED BY <3>1, <4>1 DEF Twin
    <3>3. Moves(t, h, {a, rest}, R)
      BY <1>1, <1>5, <3>2, MovesFacts
    <3>4. Fine(t, Known(t)', more, R)
      <4>1. PICK p, q : p = <<a>> /\ q = <<rest>> /\ more = p \o q /\ ToSet(q) = {rest}
        BY <3>2, OneFacts
      <4>2. Fine(t, Known(t)', q, R)
        BY <1>8, <1>9, <4>1, FineOne
      <4>3. Right(t, Known(t)', a, ToSet(q) \cup R)
        BY <1>3, <1>7, <3>1 DEF Right, Writes
      <4>4. Fine(t, Known(t)', p, ToSet(q) \cup R)
        BY <4>1, <4>3, FineOne
      <4> QED BY <4>1, <4>2, <4>4, FineCat
    <3>5. AllFine'
      BY <1>1, <1>5, <1>9, <3>2, <3>4, FineStep
    <3>6. todo'[t] = more \o Tail(todo[t])
      BY <1>1, <3>2, FollowFacts
    <3>7. Head(todo'[t]) = a /\ Head(Tail(todo'[t])) = rest
      <4>1. Head(<<rest>> \o s) = rest
        BY <3>0, ConsFacts
      <4> QED BY <3>0, <3>2, <3>6, <4>1
    <3>8. RoundOf(todo'[t]) = rest /\ \A e : DueIn(todo'[t], e) <=> e \in ToSet(Tail(h.list)) \/ e = c
      BY <1>2, <3>1, <3>7 DEF RoundOf, DueIn
    <3> QED BY <1>2, <1>3, <1>4, <2>2, <3>1, <3>3, <3>5, <3>7, <3>8
  <2> QED BY <2>1, <2>2
<1>11. Rounds'
  <2>1. Len(h.msgs) \in Nat /\ Len(h.msgs) <= Len(buffer[h.buf])
    BY <1>3 DEF Alive, Rounds
  <2> QED BY <1>1, <1>2, <1>3, <1>10, <2>1 DEF Rounds
<1>12. \A e : /\ Circles(e)' <=> Circles(e)
              /\ Circles(e) <=> h.buf = OthersBuffer(e)
              /\ Late(e)' <=> Late(e)
  BY <1>1, <1>2, <1>3, <1>10 DEF Circles, Late
<1>13. ASSUME NEW e \in Clients
       PROVE  /\ Late(e) => Late(e)'
              /\ Carrying(Tasks(t), OthersBuffer(e)) => Carrying(Tasks(t)', OthersBuffer(e))
              /\ Target(e)' => Target(e) \/ Settled(e)
              /\ Sees(e)' = Sees(e)
  <2>1. Carrying(Tasks(t), OthersBuffer(e)) => Carrying(Tasks(t)', OthersBuffer(e))
    <3>1. PICK A, B, H : A = Tasks(t) /\ B = Tasks(t)' /\ H = {h} /\ Both(A, H, R) /\ Both(B, M, R)
      BY <1>10 DEF Moves
    <3>2. Carrying(H, OthersBuffer(e)) => Carrying(M, OthersBuffer(e))
      BY <1>2, <1>10, <3>1 DEF Carrying, Carries
    <3> QED BY <3>1, <3>2, UnionFacts
  <2>2. Target(e)' => Settled(e)
    <3>1. SUFFICES ASSUME Target(e)' PROVE Settled(e)
      OBVIOUS
    <3>2. e = c /\ status[c] = Connected
      BY <1>1, <1>3, <1>5, <1>10, <3>1 DEF Target
    <3> QED BY <3>2 DEF Alive, Progress
  <2>3. Sees(e)' = Sees(e)
    BY <1>1 DEF Sees
  <2> QED BY <1>12, <2>1, <2>2, <2>3
<1>14. \A a, e \in Clients : e \notin blurred'[a] => e \notin blurred[a]
  BY <1>2, <1>4 DEF Alive, Types
<1>15. ASSUME NEW a \in Clients, NEW e \in Clients PROVE Tells(a, e)
  <2>1. SUFFICES ASSUME Listens(a), a # e, e \notin blurred'[a]
                 PROVE  /\ Due(a, e) /\ News(e) => Due(a, e)'
                        /\ News(e)' <=> News(e)
                        /\ Sees(a)' = Sees(a)
    BY DEF Tells
  <2>2. (News(e)' <=> News(e)) /\ Sees(a)' = Sees(a)
    BY <1>1, <1>13 DEF News
  <2>3. ASSUME Due(a, e), News(e), Circles(e), ~DueIn(todo'[t], a) PROVE FALSE
    <3>1. a = c /\ passed
      BY <1>3, <1>10, <2>3 DEF Due
    <3>2. h.buf = OthersBuffer(e) /\ h.who = e
      BY <1>7, <1>12, <2>3
    <3>3. status[c] # Connected /\ c # h.who
      BY <1>5, <2>1, <3>1, <3>2
    <3>4. HasListed(c)
      BY <2>1, <3>1, <3>3 DEF Listens, HasListed, HasLogin, LogsIn, Has, Tasks, ToSet
    <3>5. blurred' = [blurred EXCEPT ![c] = @ \cup Entities(buffer[h.buf])]
      BY <1>2, <3>1, <3>3, <3>4
    <3>6. e \in Entities(buffer[h.buf])
      BY <2>3, <3>2 DEF News
    <3> QED BY <1>4, <2>1, <3>1, <3>5, <3>6 DEF Alive, Types
  <2> QED BY <1>1, <1>3, <1>12, <2>2, <2>3 DEF Due
<1>16. h.do \in {"broadcast", "deliver", "append"} /\ \A y \in M : y.do \in {"deliver", "append"}
  BY <1>1, <1>10
<1>17. UNCHANGED <<status, connected, person, stage, inbox, peer, buffer>>
  BY <1>1
<1>18. \A a, e \in Clients :
         /\ e \notin blurred'[a] => e \notin blurred[a]
         /\ ~HasPlayer(e) /\ e \notin Sees(a) => e \notin Sees(a)'
         /\ Tells(a, e)
  BY <1>13, <1>14, <1>15
<1> QED BY <1>5, <1>10, <1>11, <1>13, <1>16, <1>17, <1>18, RoundAlive

-----------------------------------------------------------------------------
(* A broadcast is put into one response, or lost there. *)

LEMMA SettledFacts ==
  ASSUME Alive, NEW c \in Clients, Settled(c)
  PROVE  HasPlayer(c) /\ ~HasLogin(Tasks(c)) /\ ~Has(Tasks(c), "list") /\ \A e : ~Writing(Tasks(c), e)
<1>1. ~HasLogin(Tasks(c))
  BY Statuses DEF Settled, HasLogin, LogsIn
<1>2. Fine(c, Known(c), todo[c], {}) /\ Tasks(c) = ToSet(todo[c])
  BY DEF Alive, AllFine, Threads, Tasks
<1>3. ASSUME NEW x \in Tasks(c) PROVE x.do # "list" /\ (Writes(x) => ~Wordy(x))
  <2>1. PICK after : Right(c, Known(c), x, after \cup {}) /\ after \subseteq Tasks(c)
    BY <1>2, FineMember
  <2>2. ~HasLogin(after \cup {})
    BY <1>1, <2>1 DEF HasLogin
  <2> QED BY <2>1, <2>2 DEF Right, RightList, RightWrite
<1>4. ~Has(Tasks(c), "list")
  BY <1>3 DEF Has
<1>5. \A e : ~Writing(Tasks(c), e)
  BY <1>3 DEF Writing, Wordy
<1> QED BY <1>1, <1>4, <1>5 DEF Settled

LEMMA AppendingFacts ==
  ASSUME IInv, NEW t \in Threads, t = listMutex, todo[t] # <<>>, Head(todo[t]).do = "append"
  PROVE  /\ t # Nobody /\ Head(todo[t]).id # 0 /\ Head(todo[t]).who \in Clients
         /\ Tail(todo[t]) # <<>> /\ Head(Tail(todo[t])).do = "deliver"
         /\ RoundOf(todo[t]) = Head(Tail(todo[t]))
         /\ RoundOf(Tail(todo[t])) = Head(Tail(todo[t]))
<1>1. t # Nobody /\ Appending(todo[t])
  BY NobodyIsNoThread DEF IInv, InOrder, Looping
<1>2. ids # 0
  BY <1>1 DEF IInv, InOrder
<1> QED BY <1>1, <1>2 DEF Appending, Looping, RoundOf

(* The news is in the response of the client it was due to, or is lost      *)
(* beside a write of the client itself, which blurs it. *)
LEMMA AppendAlive ==
  ASSUME IInv, Alive, Types', NEW t \in Threads, AppendTo(t)
  PROVE  Alive'
<1> DEFINE h == Head(todo[t])
           R == ToSet(Tail(todo[t]))
           m == IF h.id = 0 THEN h.msgs ELSE buffer[h.buf]
<1>0. PICK c : c = h.who
  OBVIOUS
<1>1. /\ Shape /\ AllFine
      /\ \A e \in Clients : e \in Threads
      /\ todo[t] # <<>> /\ h.do = "append" /\ Follow(t, <<>>)
      /\ UNCHANGED <<status, connected, person, stage, inbox, peer, buffer, screen, listMutex>>
  BY DEF IInv, Alive, Threads, AppendTo, At, Next1, Socket, statusUnchanged
<1>2. \/ /\ response' = IF m = <<>> \/ (h.id = 0 /\ Entities(m) = {}) THEN response
                        ELSE [response EXCEPT ![c] = Append(@, [id |-> h.id, msgs |-> m])]
         /\ blurred' = blurred
      \/ /\ blurred' = [blurred EXCEPT ![c] = @ \cup Entities(m)]
         /\ response' = response
  BY <1>0 DEF AppendTo, Next1
<1>3. h = Head(todo[t]) /\ R = ToSet(Tail(todo[t])) /\ c = h.who
      /\ m = IF h.id = 0 THEN h.msgs ELSE buffer[h.buf]
  BY <1>0
<1> HIDE DEF h, R, m
<1>4. /\ AllFine' /\ Moves(t, h, {}, R) /\ Right(t, Known(t), h, R)
      /\ todo'[t] = Tail(todo[t])
  BY <1>1, <1>3, DropFine
<1>5. CASE t # listMutex
  <2>1. h.id = 0
    BY <1>1, <1>3, <1>5, PlainHeadTail DEF IInv, InOrder
  <2>2. m = h.msgs /\ Entities(m) = {}
    BY <1>1, <1>3, <1>4, <2>1 DEF Right, Wordy
  <2>3. response' = response
    BY <1>2, <2>1, <2>2
  <2>4. blurred' = blurred
    BY <1>2, <2>2 DEF Alive, Types
  <2> QED BY <1>1, <1>3, <1>5, <2>3, <2>4, QuietWriteAlive
<1>6. ASSUME t = listMutex PROVE Alive'
  <2>1. PICK r : /\ t # Nobody /\ h.id # 0 /\ c \in Clients
                 /\ Head(todo'[t]) = r /\ r.do = "deliver" /\ RoundOf(todo[t]) = r /\ RoundOf(todo'[t]) = r
    BY <1>1, <1>3, <1>4, <1>6, AppendingFacts
  <2>2. m = buffer[h.buf] /\ h.buf = r.buf /\ h.buf \in Buffers /\ IsSeq(m)
    <3>1. m = buffer[h.buf] /\ h.buf \in Buffers
      BY <1>1, <1>3, <1>4, <2>1 DEF Right
    <3> QED BY <1>1, <1>3, <1>6, <2>1, <3>1 DEF Alive, Types, Rounds
  <2>3. \A e \in Clients : /\ e \in Entities(m) => h.buf = OthersBuffer(e) /\ m = buffer[OthersBuffer(e)] /\ News(e)
                           /\ h.buf = OthersBuffer(e) /\ News(e) => e \in Entities(m)
    BY <2>2 DEF Alive, Types, News
  <2>4. Settled(c) /\ HasPlayer(c) /\ ~Has(Tasks(c), "list") /\ \A e : ~Writing(Tasks(c), e)
    <3>1. Target(c)
      BY <1>1, <1>3, <1>6, <2>1 DEF Target
    <3>2. Settled(c)
      BY <2>1, <3>1 DEF Alive, Progress
    <3> QED BY <2>1, <3>2, SettledFacts
  <2>5. \A a \in Clients : a # c => Sees(a)' = Sees(a) /\ blurred'[a] = blurred[a]
    BY <1>1, <1>2, <2>1 DEF Shape, Sees, Alive, Types
  <2>6. \/ Sees(c)' = Shows(Sees(c), m) /\ blurred'[c] = blurred[c]
        \/ Sees(c)' = Sees(c) /\ blurred'[c] = blurred[c] \cup Entities(m)
    <3>1. CASE response' = response /\ blurred' = [blurred EXCEPT ![c] = @ \cup Entities(m)]
      BY <1>1, <2>1, <3>1 DEF Sees, Alive, Types
    <3>2. CASE response' = response /\ m = <<>> /\ blurred' = blurred
      BY <1>1, <3>2, ShowsNil DEF Sees
    <3>3. CASE response' = [response EXCEPT ![c] = Append(@, [id |-> h.id, msgs |-> m])] /\ blurred' = blurred
      <4>1. PICK b : b = [id |-> h.id, msgs |-> m]
        OBVIOUS
      <4>2. b.msgs = m
        BY <4>1
      <4>3. response'[c] = Append(response[c], b)
        BY <1>1, <2>1, <3>3, <4>1 DEF Shape
      <4>4. PICK old, seen : old = response[c] /\ seen = screen[c] /\ Worded(old)
        BY <2>1 DEF Alive, Types
      <4>5. SeesIn(seen, Append(old, b)) = Shows(SeesIn(seen, old), m)
        BY <2>2, <4>2, <4>4, SeesAppend
      <4>6. Sees(c) = SeesIn(seen, old) /\ Sees(c)' = SeesIn(seen, Append(old, b))
        BY <1>1, <4>3, <4>4 DEF Sees
      <4> QED BY <3>3, <4>5, <4>6
    <3> QED BY <1>2, <2>1, <3>1, <3>2, <3>3
  <2>7. \A e : e \notin Entities(m) => (e \in Sees(c)' <=> e \in Sees(c))
    BY <2>2, <2>6, ShowsRules
  <2>8. Rounds'
    <3>1. Len(r.msgs) \in Nat /\ Len(r.msgs) <= Len(buffer[r.buf])
      BY <1>6, <2>1 DEF Alive, Rounds
    <3> QED BY <1>1, <1>6, <2>1, <3>1 DEF Rounds
  <2>9. \A e : /\ Circles(e)' <=> Circles(e)
               /\ Circles(e) <=> h.buf = OthersBuffer(e)
               /\ Late(e)' <=> Late(e)
    BY <1>1, <1>6, <2>1, <2>2 DEF Circles, Late
  <2>10. \A a : a # c => (DueIn(todo'[t], a) <=> DueIn(todo[t], a))
    BY <1>1, <1>3, <2>1 DEF DueIn
  <2>11. ASSUME NEW e \in Clients
         PROVE  /\ Late(e) => Late(e)'
                /\ Carrying(Tasks(t), OthersBuffer(e)) => Carrying(Tasks(t)', OthersBuffer(e))
                /\ Target(e)' => Target(e) \/ Settled(e)
                /\ Sees(e)' = Sees(e) \/ (HasPlayer(e) /\ ~Has(Tasks(e), "list"))
    <3>1. Carrying(Tasks(t), OthersBuffer(e)) => Carrying(Tasks(t)', OthersBuffer(e))
      <4>1. PICK A, B, H : A = Tasks(t) /\ B = Tasks(t)' /\ H = {h} /\ Both(A, H, R) /\ Both(B, {}, R)
        BY <1>4 DEF Moves
      <4>2. ~Carrying(H, OthersBuffer(e))
        BY <1>1, <4>1 DEF Carrying, Carries
      <4> QED BY <4>1, <4>2, UnionFacts
    <3>2. ~Target(e)'
      BY <1>1, <1>6, <2>1 DEF Target
    <3> QED BY <2>4, <2>5, <2>9, <3>1, <3>2
  <2>12. \A a, e \in Clients : e \notin blurred'[a] => e \notin blurred[a]
    BY <2>5, <2>6
  <2>13. ASSUME NEW a \in Clients, NEW e \in Clients, ~HasPlayer(e), e \notin Sees(a)
         PROVE  e \notin Sees(a)'
    <3>1. e \notin Entities(m)
      <4>1. ~News(e)
        BY <2>13 DEF Alive, Told, Unknown
      <4> QED BY <2>3, <4>1
    <3> QED BY <2>5, <2>7, <2>13, <3>1
  <2>14. ASSUME NEW a \in Clients, NEW e \in Clients PROVE Tells(a, e)
    <3>1. News(e)' <=> News(e)
      BY <1>1 DEF News
    <3>2. CASE a # c
      <4>1. Due(a, e)' <=> Due(a, e)
        BY <1>1, <1>6, <2>9, <2>10, <3>2 DEF Due
      <4> QED BY <2>5, <3>1, <3>2, <4>1 DEF Tells
    <3>3. CASE a = c /\ e \notin Entities(m)
      <4>1. Due(a, e) /\ News(e) => Due(a, e)'
        BY <2>3, <2>9, <3>3 DEF Due
      <4>2. e \in Sees(a)' <=> e \in Sees(a)
        BY <2>7, <3>3
      <4> QED BY <3>1, <4>1, <4>2 DEF Tells
    <3>4. CASE a = c /\ e \in Entities(m)
      <4>1. SUFFICES ASSUME e \notin blurred'[a]
                     PROVE  /\ Here(e) => e \in Sees(a)'
                            /\ Away(e) => e \notin Sees(a)' /\ ~Writing(Tasks(a), e)
        BY DEF Tells
      <4>2. Sees(c)' = Shows(Sees(c), m) /\ e \notin blurred[c]
        BY <2>6, <3>4, <4>1
      <4>3. m = buffer[OthersBuffer(e)]
        BY <2>3, <3>4
      <4>4. Untold(c, e) /\ Hidden(c, e)
        BY <2>1 DEF Alive, Told
      <4>5. ASSUME Here(e) PROVE e \in Sees(a)'
        <5>1. ~TellsGone(m, e)
          BY <4>2, <4>3, <4>4, <4>5, Statuses DEF Untold, Here
        <5> QED BY <2>2, <3>4, <4>2, <5>1, ShowsRules
      <4>6. ASSUME Away(e) PROVE e \notin Sees(a)'
        <5>1. ~LastSpawn(m, e)
          BY <4>2, <4>3, <4>4, <4>6 DEF Hidden
        <5> QED BY <2>2, <3>4, <4>2, <5>1, ShowsRules
      <4> QED BY <2>4, <3>4, <4>5, <4>6
    <3> QED BY <3>2, <3>3, <3>4
  <2>15. PICK M : /\ Moves(t, h, M, R) /\ h.do \in {"broadcast", "deliver", "append"}
                   /\ \A y \in M : y.do \in {"deliver", "append"}
    BY <1>1, <1>4
  <2>16. UNCHANGED <<status, connected, person, stage, inbox, peer, buffer>>
    BY <1>1
  <2>17. \A a, e \in Clients :
           /\ e \notin blurred'[a] => e \notin blurred[a]
           /\ ~HasPlayer(e) /\ e \notin Sees(a) => e \notin Sees(a)'
           /\ Tells(a, e)
    BY <2>12, <2>13, <2>14
  <2>18. AllFine' /\ h = Head(todo[t])
    BY <1>3, <1>4
  <2> QED BY <2>18, <2>8, <2>11, <2>15, <2>16, <2>17, RoundAlive
<1> QED BY <1>5, <1>6

-----------------------------------------------------------------------------
(* A broadcast ends. *)

(* What was put into the buffer meanwhile is lost. *)
LEMMA LostWords ==
  ASSUME NEW s, IsSeq(s), NEW k \in Nat, NEW d, SaysAfter(s, k, d)
  PROVE  d \in Entities(SubSeq(s, k + 1, Len(s)))
<1>1. PICK S : s \in Seq(S)
  BY DEF IsSeq
<1>2. PICK n, r : n = Len(s) /\ r = SubSeq(s, k + 1, n)
  OBVIOUS
<1>3. n \in Nat /\ DOMAIN s = 1 .. n
  BY <1>1, <1>2, LenProperties
<1>4. PICK i \in 1 .. n : i > k /\ Says(s[i], d)
  BY <1>3 DEF SaysAfter
<1>5. /\ k + 1 \in 1 .. n + 1 /\ i - k \in 1 .. n - (k + 1) + 1 /\ (k + 1) + (i - k) - 1 = i /\ k + 1 <= n
  BY <1>3, <1>4
<1>6. DOMAIN r = 1 .. n - (k + 1) + 1 /\ \A j \in 1 .. n - (k + 1) + 1 : r[j] = s[(k + 1) + j - 1]
  <2>1. PICK f : f = k + 1 /\ f \in 1 .. n + 1
    BY <1>5
  <2>2. \A j \in f .. n : s[j] \in S
    BY <1>1, <1>2, <1>3, <2>1
  <2>3. DOMAIN r = 1 .. n - f + 1 /\ \A j \in 1 .. n - f + 1 : r[j] = s[f + j - 1]
    BY <1>1, <1>2, <1>3, <1>5, <2>1, <2>2, SubSeqProperties
  <2> QED BY <2>1, <2>3
<1>7. i - k \in DOMAIN r /\ Says(r[i - k], d)
  BY <1>4, <1>5, <1>6
<1> QED BY <1>2, <1>7, EntitiesRule

(* The buffer is cleared when nobody is due any more; what came late is     *)
(* blurred. *)
LEMMA UnlockAlive ==
  ASSUME IInv, Alive, Types', NEW t \in Threads, Unlock(t)
  PROVE  Alive'
<1> DEFINE h == Head(todo[t])
           R == ToSet(Tail(todo[t]))
<1>0. PICK b : b = h.buf
  OBVIOUS
<1>1. /\ Shape /\ AllFine
      /\ \A e \in Clients : e \in Threads
      /\ todo[t] # <<>> /\ h.do = "deliver" /\ h.list = <<>> /\ Follow(t, <<>>)
      /\ listMutex' = Nobody
      /\ buffer' = [buffer EXCEPT ![b] = <<>>]
      /\ blurred' = [c \in Clients |-> blurred[c] \cup Entities(SubSeq(buffer[b], Len(h.msgs) + 1, Len(buffer[b])))]
      /\ UNCHANGED <<status, connected, person, stage, inbox, peer, response, screen>>
  BY <1>0 DEF IInv, Alive, Threads, Unlock, At, Next1, Socket, statusUnchanged
<1>2. /\ t = listMutex /\ t # Nobody /\ RoundOf(todo[t]) = h /\ \A e : ~DueIn(todo[t], e)
  BY <1>1, HolderFacts, NilFacts
<1>3. /\ AllFine' /\ Moves(t, h, {}, R) /\ Right(t, Known(t), h, R)
  <2> HIDE DEF h, R
  <2> QED BY <1>1, DropFine DEF h, R
<1>4. h = Head(todo[t]) /\ R = ToSet(Tail(todo[t]))
  OBVIOUS
<1> HIDE DEF h, R
<1>5. b \in Buffers /\ IsSeq(buffer[b]) /\ Len(h.msgs) \in Nat
  BY <1>0, <1>1, <1>2, <1>3 DEF Right, Alive, Types, Rounds
<1>6. PICK M : M = {} /\ Moves(t, h, M, R)
  BY <1>3
<1>7. /\ \A u \in Threads : /\ HasLogin(Tasks(u)') <=> HasLogin(Tasks(u))
                            /\ Has(Tasks(u)', "list") <=> Has(Tasks(u), "list")
                            /\ \A e : /\ Going(Tasks(u)', e) <=> Going(Tasks(u), e)
                                      /\ Spawning(Tasks(u)', e) <=> Spawning(Tasks(u), e)
                                      /\ Ordering(Tasks(u)', e) <=> Ordering(Tasks(u), e)
                                      /\ Writing(Tasks(u)', e) <=> Writing(Tasks(u), e)
                                      /\ u # t => (Carrying(Tasks(u)', e) <=> Carrying(Tasks(u), e))
      /\ ~Has(M, "status") /\ ~Has(M, "close") /\ ~Has(M, "packet") /\ ~HasPing(M)
      /\ \A e : ~Orders(h, e)
  <2>1. h.do \in {"broadcast", "deliver", "append"} /\ \A x \in M : x.do \in {"deliver", "append"}
    BY <1>1, <1>6
  <2> QED BY <1>4, <1>6, <2>1, RoundTasks
<1>8. \A e : /\ ~Circles(e)' /\ ~Late(e)' /\ ~Target(e)' /\ (\A a : Due(a, e)')
             /\ Circles(e) <=> b = OthersBuffer(e)
             /\ \A a : Due(a, e) => ~Circles(e)
  BY <1>0, <1>1, <1>2 DEF Circles, Late, Target, Due
<1>9. \A a, e \in Clients : /\ e \notin blurred'[a] => e \notin blurred[a] /\ ~Late(e)
  <2> SUFFICES ASSUME NEW a \in Clients, NEW e \in Clients, Late(e)
               PROVE  e \in blurred'[a]
    BY <1>1
  <2>1. b = OthersBuffer(e) /\ SaysAfter(buffer[b], Len(h.msgs), e)
    BY <1>2, <1>8 DEF Late
  <2>2. e \in Entities(SubSeq(buffer[b], Len(h.msgs) + 1, Len(buffer[b])))
    BY <1>5, <2>1, LostWords
  <2> QED BY <1>1, <2>2
<1>10. \A e \in Clients : buffer'[OthersBuffer(e)] = IF b = OthersBuffer(e) THEN <<>> ELSE buffer[OthersBuffer(e)]
  BY <1>1, OthersBufferFacts DEF Alive, Types
<1>11. \A e \in Clients : /\ HasPlayer(e)' <=> HasPlayer(e)
                          /\ Sees(e)' = Sees(e)
                          /\ News(e)' <=> News(e) /\ ~Circles(e)
                          /\ TellsGone(buffer'[OthersBuffer(e)], e) => TellsGone(buffer[OthersBuffer(e)], e)
                          /\ LastSpawn(buffer'[OthersBuffer(e)], e) => LastSpawn(buffer[OthersBuffer(e)], e)
  <2>1. \A e : e \notin Entities(<<>>) /\ ~TellsGone(<<>>, e) /\ ~LastSpawn(<<>>, e)
    BY NilFacts, EntitiesRule DEF TellsGone, LastSpawn
  <2>2. \A e : (HasPlayer(e)' <=> HasPlayer(e)) /\ Sees(e)' = Sees(e)
    BY <1>1 DEF HasPlayer, Sees
  <2> QED BY <1>8, <1>10, <2>1, <2>2 DEF News
<1>12. \A u \in Threads \ {t} : todo'[u] = todo[u]
  BY <1>3 DEF Moves
<1>13. Rounds'
  BY <1>1 DEF Rounds
<1>14. ASSUME NEW e \in Clients PROVE Unknown(e)' /\ Carried(e)'
  <2>1. Unknown(e) /\ Carried(e)
    BY DEF Alive, Told
  <2>2. Unknown(e)'
    BY <1>1, <1>7, <1>11, <2>1 DEF Unknown
  <2>3. Carried(e)'
    <3>1. SUFFICES ASSUME News(e), ~Circles(e) PROVE \E u \in Threads : Carrying(Tasks(u)', OthersBuffer(e))
      BY <1>11 DEF Carried
    <3>2. PICK u \in Threads : Carrying(Tasks(u), OthersBuffer(e))
      BY <2>1, <3>1 DEF Carried
    <3>3. CASE u = t
      <4>1. PICK A, B, H : A = Tasks(t) /\ B = Tasks(t)' /\ H = {h} /\ Both(A, H, R) /\ Both(B, M, R)
        BY <1>6 DEF Moves
      <4>2. ~Carrying(H, OthersBuffer(e))
        BY <1>0, <1>8, <3>1, <4>1 DEF Carrying, Carries
      <4>3. Carrying(B, OthersBuffer(e))
        BY <3>2, <3>3, <4>1, <4>2, UnionFacts
      <4> QED BY <4>1, <4>3
    <3> QED BY <1>7, <3>2, <3>3
  <2> QED BY <2>2, <2>3
<1>15. ASSUME NEW a \in Clients, NEW e \in Clients PROVE Untold(a, e)'
  <2>1. SUFFICES ASSUME status[e] # Disconnected, e \notin blurred'[a]
                 PROVE  /\ ~TellsGone(buffer'[OthersBuffer(e)], e)
                        /\ \A u \in Threads : Going(Tasks(u)', e) => Orders(Head(todo'[u]), e)
    BY <1>1 DEF Untold
  <2>2. /\ ~TellsGone(buffer[OthersBuffer(e)], e)
        /\ \A u \in Threads : Going(Tasks(u), e) => Orders(Head(todo[u]), e)
    BY <1>9, <2>1 DEF Alive, Told, Untold
  <2>3. ~Going(Tasks(t), e)
    BY <1>4, <1>7, <2>2
  <2> QED BY <1>7, <1>11, <1>12, <2>2, <2>3
<1>16. ASSUME NEW a \in Clients, NEW e \in Clients PROVE Shown(a, e)' /\ Hidden(a, e)'
  <2>1. Shown(a, e) /\ Hidden(a, e) /\ a \in Threads /\ e \in Threads
    BY <1>1 DEF Alive, Told
  <2>2. (Listens(a)' <=> Listens(a)) /\ (Here(e)' <=> Here(e)) /\ (Away(e)' <=> Away(e))
    BY <1>1, <1>7, <2>1 DEF Listens, Here, Away, Leaving
  <2>3. /\ e \notin blurred'[a] => e \notin blurred[a] /\ ~Late(e)
        /\ News(e)' <=> News(e) /\ ~Circles(e)
        /\ Due(a, e)' /\ (Due(a, e) => ~Circles(e))
        /\ Spawning(Tasks(e)', e) <=> Spawning(Tasks(e), e)
        /\ Writing(Tasks(a)', e) <=> Writing(Tasks(a), e)
        /\ Sees(a)' = Sees(a)
        /\ LastSpawn(buffer'[OthersBuffer(e)], e) => LastSpawn(buffer[OthersBuffer(e)], e)
    BY <1>7, <1>8, <1>9, <1>11, <2>1
  <2>4. Shown(a, e)'
    BY <2>1, <2>2, <2>3 DEF Shown
  <2>5. Hidden(a, e)'
    BY <2>1, <2>2, <2>3 DEF Hidden
  <2> QED BY <2>4, <2>5
<1>17. \A e \in Clients : Progress(e)'
  <2>1. ASSUME NEW e \in Clients, peer[e] = "open", ~HasPlayer(e) \/ Has(Tasks(e)', "list")
        PROVE  Sees(e)' = {}
    <3>1. ~HasPlayer(e) \/ Has(Tasks(e), "list")
      BY <1>1, <1>7, <2>1
    <3> QED BY <1>11, <2>1, <3>1 DEF Alive, Progress
  <2> QED BY <1>1, <1>6, <1>7, <1>8, <2>1, SteadyProgress
<1>18. \A e \in Clients : Arrival(e)'
  BY <1>1, <1>6, <1>7, MoveArrival
<1> QED BY <1>3, <1>13, <1>14, <1>15, <1>16, <1>17, <1>18 DEF Alive, Told

-----------------------------------------------------------------------------
(* A client nobody has heard of is put into the vector. *)

LEMMA JoinAlive ==
  ASSUME IInv, Alive, Types', NEW c \in Clients, Join(c)
  PROVE  Alive'
<1>1. /\ Shape /\ AllFine /\ listMutex = Nobody /\ stage[c] = "away"
      /\ \A e \in Clients : e \in Threads
      /\ UNCHANGED <<person, inbox, peer, buffer, response, listMutex, screen, blurred>>
      /\ stage' = [stage EXCEPT ![c] = "handshake"]
      /\ status' = [status EXCEPT ![c] = Handshake]
      /\ connected' = Append(connected, c)
      /\ todo' = [todo EXCEPT ![c] = <<Task("loop")>>]
  BY DEF IInv, Alive, Threads, Join
<1>2. /\ todo[c] = <<>> /\ inbox[c] = <<>> /\ ~HasPlayer(c)
  BY <1>1 DEF Alive, Arrival
<1>3. /\ \A e \in Clients : status'[e] = IF e = c THEN Handshake ELSE status[e]
      /\ \A e \in Clients : stage'[e] = IF e = c THEN "handshake" ELSE stage[e]
  BY <1>1 DEF Alive, Types, Shape
<1>4. PICK x : x.do = "loop" /\ todo'[c] = <<x>> /\ \A known : Fine(c, known, <<x>>, {})
  <2>1. c \in Threads /\ todo'[c] = <<Task("loop")>>
    BY <1>1 DEF Shape
  <2> QED BY <2>1, LoopTask
<1>5. PICK A, B : A = Tasks(c) /\ A = {} /\ B = Tasks(c)' /\ B = {x}
  <2>1. Tasks(c) = {}
    BY <1>2, NilFacts DEF Tasks
  <2>2. Tasks(c)' = ToSet(todo'[c])
    BY DEF Tasks
  <2>3. Tasks(c)' = {x}
    BY <1>4, <2>2, OneFacts
  <2> QED BY <2>1, <2>3
<1>6. \A u \in Threads \ {c} : todo'[u] = todo[u] /\ Tasks(u)' = Tasks(u)
  BY <1>1 DEF Shape, Tasks
<1>7. /\ ~HasLogin(B) /\ ~HasPing(B) /\ \A do : do # "loop" => ~Has(B, do)
      /\ \A e : /\ ~Writing(B, e) /\ ~Spawning(B, e) /\ ~Going(B, e) /\ ~Ordering(B, e) /\ ~Carrying(B, OthersBuffer(e))
  <2>1. ~LogsIn(x) /\ ~Writes(x) /\ \A e : ~PutsSpawn(x, e) /\ ~PutsGone(x, e) /\ ~Orders(x, e) /\ ~Carries(x, OthersBuffer(e))
    BY <1>4, OtherTask
  <2>2. ~Pings(x) /\ \A do : do # "loop" => x.do # do
    BY <1>4 DEF Pings
  <2> QED BY <1>5, <2>1, <2>2, SingleFacts
<1>8. /\ ~HasLogin(A) /\ ~HasPing(A) /\ \A do : ~Has(A, do)
      /\ \A e : /\ ~Writing(A, e) /\ ~Spawning(A, e) /\ ~Going(A, e) /\ ~Ordering(A, e) /\ ~Carrying(A, OthersBuffer(e))
  BY <1>5, NoneFacts
<1>9. \A u \in Threads : /\ HasLogin(Tasks(u)') <=> HasLogin(Tasks(u))
                         /\ Has(Tasks(u)', "list") <=> Has(Tasks(u), "list")
                         /\ \A e : /\ Going(Tasks(u)', e) <=> Going(Tasks(u), e)
                                   /\ Spawning(Tasks(u)', e) <=> Spawning(Tasks(u), e)
                                   /\ Ordering(Tasks(u)', e) <=> Ordering(Tasks(u), e)
                                   /\ Writing(Tasks(u)', e) <=> Writing(Tasks(u), e)
                                   /\ Carrying(Tasks(u)', OthersBuffer(e)) <=> Carrying(Tasks(u), OthersBuffer(e))
  BY <1>5, <1>6, <1>7, <1>8
<1>10. AllFine'
  <2>1. \A u : Known(u)' = Known(u)
    BY <1>1 DEF Known, HasPlayer
  <2>2. ASSUME NEW u \in Threads PROVE Fine(u, Known(u)', todo'[u], {})
    BY <1>1, <1>4, <1>6, <2>1, <2>2 DEF AllFine
  <2> QED BY <2>2 DEF AllFine
<1>11. Rounds'
  BY <1>1 DEF Rounds
<1>12. \A e \in Clients : /\ HasPlayer(e)' <=> HasPlayer(e)
                          /\ Sees(e)' = Sees(e)
                          /\ News(e)' <=> News(e)
                          /\ Late(e)' <=> Late(e)
                          /\ ~Target(e)'
                          /\ \A a : Due(a, e)' <=> Due(a, e)
  BY <1>1 DEF HasPlayer, Sees, News, Late, Circles, Target, Due
<1>13. ASSUME NEW e \in Clients PROVE Unknown(e)' /\ Carried(e)'
  <2>1. Unknown(e) /\ Carried(e)
    BY DEF Alive, Told
  <2>2. Unknown(e)'
    BY <1>1, <1>9, <1>12, <2>1 DEF Unknown
  <2>3. Carried(e)'
    BY <1>9, <1>12, <2>1 DEF Carried
  <2> QED BY <2>2, <2>3
<1>14. ASSUME NEW a \in Clients, NEW e \in Clients PROVE Untold(a, e)'
  <2>1. SUFFICES ASSUME status'[e] # Disconnected, e \notin blurred[a]
                 PROVE  /\ ~TellsGone(buffer[OthersBuffer(e)], e)
                        /\ \A u \in Threads : Going(Tasks(u)', e) => Orders(Head(todo'[u]), e)
    BY <1>1 DEF Untold
  <2>2. CASE e = c
    <3>1. ~News(e) /\ \A u \in Threads : ~Going(Tasks(u), e)
      BY <1>2, <2>2 DEF Alive, Told, Unknown
    <3>2. ~TellsGone(buffer[OthersBuffer(e)], e)
      BY <3>1, EntitiesRule DEF News, TellsGone, Says
    <3> QED BY <1>9, <3>1, <3>2
  <2>3. CASE e # c
    <3>1. /\ ~TellsGone(buffer[OthersBuffer(e)], e)
          /\ \A u \in Threads : Going(Tasks(u), e) => Orders(Head(todo[u]), e)
      BY <1>3, <2>1, <2>3 DEF Alive, Told, Untold
    <3> QED BY <1>5, <1>6, <1>8, <1>9, <3>1
  <2> QED BY <2>2, <2>3
<1>15. ASSUME NEW a \in Clients, NEW e \in Clients PROVE Shown(a, e)' /\ Hidden(a, e)'
  <2>1. Shown(a, e) /\ Hidden(a, e) /\ a \in Threads /\ e \in Threads
    BY <1>1 DEF Alive, Told
  <2>2. ~Listens(c)' /\ ~Here(c)' /\ ~Away(c)'
    BY <1>1, <1>3, <1>5, <1>7, Statuses DEF Listens, Here, Away
  <2>3. /\ a # c => (Listens(a)' <=> Listens(a))
        /\ e # c => (Here(e)' <=> Here(e)) /\ (Away(e)' <=> Away(e))
    BY <1>1, <1>3, <1>9, <2>1 DEF Listens, Here, Away, Leaving
  <2>4. /\ Due(a, e)' <=> Due(a, e)
        /\ Late(e)' <=> Late(e)
        /\ News(e)' <=> News(e)
        /\ Sees(a)' = Sees(a)
        /\ Spawning(Tasks(e)', e) <=> Spawning(Tasks(e), e)
        /\ Writing(Tasks(a)', e) <=> Writing(Tasks(a), e)
    BY <1>9, <1>12, <2>1
  <2>5. (Listens(a)' => Listens(a)) /\ (Here(e)' => Here(e)) /\ (Away(e)' => Away(e))
    BY <2>2, <2>3
  <2>6. Shown(a, e)'
    BY <1>1, <2>1, <2>4, <2>5 DEF Shown
  <2>7. Hidden(a, e)'
    BY <1>1, <2>1, <2>4, <2>5 DEF Hidden
  <2> QED BY <2>6, <2>7
<1>16. ASSUME NEW e \in Clients PROVE Progress(e)'
  <2>1. Progress(e) /\ e \in Threads
    BY <1>1 DEF Alive
  <2>2. ToSet(connected)' = ToSet(connected) \cup {c}
    <3>1. PICK s, r : s = connected /\ r = Append(s, c) /\ s \in Seq(Clients) /\ connected' = r
      BY <1>1 DEF Shape
    <3>2. Len(s) \in Nat /\ DOMAIN s = 1 .. Len(s)
      BY <3>1, LenProperties
    <3>3. DOMAIN r = 1 .. Len(s) + 1 /\ r[Len(s) + 1] = c /\ \A i \in 1 .. Len(s) : r[i] = s[i]
      BY <3>1, <3>2, AppendProperties
    <3>4. \A i \in 1 .. Len(s) + 1 : i \in 1 .. Len(s) \/ i = Len(s) + 1
      BY <3>2
    <3>5. Len(s) + 1 \in 1 .. Len(s) + 1 /\ \A i \in 1 .. Len(s) : i \in 1 .. Len(s) + 1
      BY <3>2
    <3>6. ToSet(r) = ToSet(s) \cup {c}
      BY <3>2, <3>3, <3>4, <3>5 DEF ToSet
    <3> QED BY <3>1, <3>6
  <2>3. CASE e = c
    <3>1. /\ status'[e] = Handshake /\ ~HasPlayer(e)' /\ ~Has(Tasks(e)', "close") /\ ~Target(e)'
          /\ e \in ToSet(connected)'
      BY <1>2, <1>3, <1>5, <1>7, <1>12, <2>2, <2>3
    <3>2. peer'[e] = "open" => Sees(e)' = {}
      BY <1>1, <1>2, <1>12, <2>1, <2>3 DEF Progress
    <3> QED BY <3>1, <3>2, Statuses DEF Progress
  <2>4. CASE e # c
    <3>1. Tasks(e)' = Tasks(e) /\ todo'[e] = todo[e] /\ status'[e] = status[e] /\ peer'[e] = peer[e]
      BY <1>1, <1>3, <1>6, <2>1, <2>4
    <3>2. Settled(e)' <=> Settled(e)
      BY <1>12, <3>1 DEF Settled
    <3> QED BY <1>12, <2>1, <2>2, <3>1, <3>2 DEF Progress
  <2> QED BY <2>3, <2>4
<1>17. ASSUME NEW e \in Clients PROVE Arrival(e)'
  <2>1. Arrival(e) /\ e \in Threads
    BY <1>1 DEF Alive
  <2>2. CASE e = c
    <3>1. /\ stage'[e] = "handshake" /\ inbox'[e] = <<>> /\ ~HasPlayer(e)' /\ ~Has(Tasks(e)', "packet") /\ ~HasPing(Tasks(e)')
      BY <1>1, <1>2, <1>3, <1>5, <1>7, <1>12, <2>2
    <3>2. DOMAIN inbox'[e] = {}
      BY <3>1, NilFacts
    <3> QED BY <3>1, <3>2 DEF Arrival
  <2>3. CASE e # c
    <3>1. Tasks(e)' = Tasks(e) /\ todo'[e] = todo[e] /\ stage'[e] = stage[e] /\ inbox'[e] = inbox[e]
      BY <1>1, <1>3, <1>6, <2>1, <2>3
    <3> QED BY <1>12, <2>1, <3>1 DEF Arrival
  <2> QED BY <2>2, <2>3
<1> QED BY <1>10, <1>11, <1>13, <1>14, <1>15, <1>16, <1>17 DEF Alive, Told

-----------------------------------------------------------------------------
(* What the parts of the state are. *)

LEMMA HeadRight ==
  ASSUME AllFine, NEW t \in Threads, todo[t] # <<>>
  PROVE  Right(t, Known(t), Head(todo[t]), ToSet(Tail(todo[t])))
BY FineTail DEF AllFine

People ==
  /\ status \in [Clients -> 0 .. 3]
  /\ person \in [Clients -> {"none", "named", "player"}]
  /\ peer \in [Clients -> {"open", "closed", "reset"}]

LEMMA PeopleStep ==
  ASSUME People, AllFine, Next
  PROVE  People'
<1>1. ASSUME NEW t \in Threads, ChangeStatus(t), UNCHANGED peer
      PROVE  People'
  <2>1. Right(t, Known(t), Head(todo[t]), ToSet(Tail(todo[t])))
    BY <1>1, HeadRight DEF ChangeStatus, At
  <2>2. Head(todo[t]).do = "status" /\ Head(todo[t]).list[1] \in 0 .. 3
    BY <1>1, <2>1, Statuses DEF ChangeStatus, At, Next1, Right, RightStatus
  <2>3. UNCHANGED person /\ status' = [status EXCEPT ![Head(todo[t]).who] = Head(todo[t]).list[1]]
    BY <1>1 DEF ChangeStatus, Next1
  <2> QED BY <1>1, <2>2, <2>3 DEF People
<1>2. ASSUME UNCHANGED status,
             \E c : /\ person' \in {person, [person EXCEPT ![c] = "named"], [person EXCEPT ![c] = "player"]}
                    /\ peer' \in {peer, [peer EXCEPT ![c] = "closed"], [peer EXCEPT ![c] = "reset"]}
      PROVE  People'
  <2>1. PICK c : /\ person' \in {person, [person EXCEPT ![c] = "named"], [person EXCEPT ![c] = "player"]}
                 /\ peer' \in {peer, [peer EXCEPT ![c] = "closed"], [peer EXCEPT ![c] = "reset"]}
    BY <1>2
  <2>2. person' \in [Clients -> {"none", "named", "player"}]
    BY <2>1 DEF People
  <2>3. peer' \in [Clients -> {"open", "closed", "reset"}]
    BY <2>1 DEF People
  <2> QED BY <1>2, <2>2, <2>3 DEF People
<1>3. ASSUME NEW c \in Clients, Join(c)
      PROVE  People'
  <2>1. UNCHANGED <<person, peer>> /\ status' = [status EXCEPT ![c] = Handshake] /\ Handshake \in 0 .. 3
    BY <1>3, Statuses DEF Join
  <2> QED BY <2>1 DEF People
<1>4. ASSUME NEW c \in Clients, Enter(c) \/ Play(c) \/ Leave(c)
      PROVE  People'
  BY <1>4, <1>2 DEF Enter, Play, Leave, gameUnchanged
<1>5. BroadcastTime => People'
  BY <1>2 DEF BroadcastTime, statusUnchanged
<1>6. ASSUME NEW t \in Threads, Decide(t)
      PROVE  People'
  <2>1. UNCHANGED peer
    BY <1>6 DEF Decide, Socket
  <2>2. CASE ChangeStatus(t)
    BY <1>1, <2>1, <2>2
  <2>3. CASE ~ChangeStatus(t)
    <3>1. UNCHANGED status /\ person' \in {person, [person EXCEPT ![t] = "named"], [person EXCEPT ![t] = "player"]}
      BY <1>6, <2>3 DEF Decide, Skip, HandleHandshake, HandleLoginRequest, HandleLegacyPing, OutOfOrder,
                        HandleDisconnect, CommandKick, Unhandled, HandlePacket, SendNewChunks
    <3> QED BY <1>2, <2>1, <3>1
  <2> QED BY <2>2, <2>3
<1>7. ASSUME NEW t \in Threads, Step(t) \/ Wait(t) \/ Sent(t), ~Decide(t)
      PROVE  /\ UNCHANGED <<status, person>>
             /\ \E c : peer' \in {peer, [peer EXCEPT ![c] = "closed"], [peer EXCEPT ![c] = "reset"]}
  BY <1>7 DEF Step, Wait, Sent, Close, Push, NothingToBroadcast, Deliver, Unlock, Loop, Read, BeginWrite,
              EndWrite, ListOthers, Lock, AppendTo, BeginSend, statusUnchanged, Socket
<1>8. ASSUME NEW t \in Threads, Step(t) \/ Wait(t) \/ Sent(t)
      PROVE  People'
  BY <1>2, <1>6, <1>7, <1>8
<1> QED BY <1>3, <1>4, <1>5, <1>8 DEF Next

Memory ==
  /\ screen = [c \in Clients |-> screen[c]] /\ blurred = [c \in Clients |-> blurred[c]]
  /\ buffer = [b \in Buffers |-> buffer[b]]

LEMMA MemoryStep ==
  ASSUME Memory, Next
  PROVE  Memory'
<1>1. ASSUME NEW t \in Threads, Step(t) \/ Wait(t) \/ Sent(t)
      PROVE  /\ screen' = screen \/ \E c, s : screen' = [screen EXCEPT ![c] = s]
             /\ \/ blurred' = blurred
                \/ \E c, s : blurred' = [blurred EXCEPT ![c] = s]
                \/ \E f : blurred' = [c \in Clients |-> f[c]]
             /\ buffer' = buffer \/ \E b, s : buffer' = [buffer EXCEPT ![b] = s]
  <2>1. CASE Sent(t)
    <3>1. UNCHANGED <<blurred, buffer>>
      BY <2>1 DEF Sent
    <3>2. screen' = screen \/ \E c, s : screen' = [screen EXCEPT ![c] = s]
      BY <2>1, Zenon DEF Sent
    <3> QED BY <3>1, <3>2
  <2>2. CASE ChangeStatus(t) /\ Decide(t)
    <3>1. PICK f : f = blurred'
      OBVIOUS
    <3>2. blurred' = [c \in Clients |-> f[c]]
      BY <2>2, <3>1 DEF ChangeStatus
    <3> QED BY <2>2, <3>2 DEF Decide
  <2>3. CASE Unlock(t)
    <3>1. PICK f : f = blurred'
      OBVIOUS
    <3>2. blurred' = [c \in Clients |-> f[c]]
      BY <2>3, <3>1 DEF Unlock
    <3> QED BY <2>3, <3>2 DEF Unlock
  <2>4. CASE Push(t)
    BY <2>4 DEF Push
  <2>5. CASE ListOthers(t) \/ Deliver(t) \/ AppendTo(t)
    <3>1. UNCHANGED <<screen, buffer>>
      BY <2>5 DEF ListOthers, Deliver, AppendTo
    <3>2. blurred' = blurred \/ \E c, s : blurred' = [blurred EXCEPT ![c] = s]
      BY <2>5, Zenon DEF ListOthers, Deliver, AppendTo
    <3> QED BY <3>1, <3>2
  <2>6. CASE UNCHANGED <<screen, blurred, buffer>>
    BY <2>6
  <2> QED BY <1>1, <2>1, <2>2, <2>3, <2>4, <2>5, <2>6 DEF Step, Wait, Decide, NothingToBroadcast, Loop, Read,
             BeginWrite, EndWrite, Lock, BeginSend, Close
<1>2. ASSUME NEW c \in Clients, Join(c) \/ Enter(c) \/ Play(c) \/ Leave(c)
      PROVE  UNCHANGED <<screen, blurred, buffer>>
  BY <1>2 DEF Join, Enter, Play, Leave, gameUnchanged
<1>3. BroadcastTime => UNCHANGED <<screen, blurred, buffer>>
  BY DEF BroadcastTime
<1>4. /\ screen' = screen \/ \E c, s : screen' = [screen EXCEPT ![c] = s]
      /\ \/ blurred' = blurred
         \/ \E c, s : blurred' = [blurred EXCEPT ![c] = s]
         \/ \E f : blurred' = [c \in Clients |-> f[c]]
      /\ buffer' = buffer \/ \E b, s : buffer' = [buffer EXCEPT ![b] = s]
  BY <1>1, <1>2, <1>3 DEF Next
<1>5. (screen = [c \in Clients |-> screen[c]])'
  BY <1>4 DEF Memory
<1>6. (blurred = [c \in Clients |-> blurred[c]])'
  BY <1>4 DEF Memory
<1>7. (buffer = [b \in Buffers |-> buffer[b]])'
  BY <1>4 DEF Memory
<1> QED BY <1>5, <1>6, <1>7 DEF Memory

WellSaid == \A b \in Buffers : IsSeq(buffer[b]) /\ \A e \in Entities(buffer[b]) : b = OthersBuffer(e)

LEMMA WellSaidStep ==
  ASSUME Memory, WellSaid, AllFine, Next
  PROVE  WellSaid'
<1>1. ASSUME UNCHANGED buffer PROVE WellSaid'
  BY <1>1 DEF WellSaid
<1>2. ASSUME NEW t \in Threads, Push(t)
      PROVE  WellSaid'
  <2>1. PICK h : h = Head(todo[t])
    OBVIOUS
  <2>2. /\ todo[t] # <<>> /\ h.do = "put"
        /\ buffer' = [buffer EXCEPT ![h.buf] = @ \o h.msgs]
    BY <1>2, <2>1 DEF Push, At, Next1
  <2>3. RightPut(t, Known(t), h, ToSet(Tail(todo[t])))
    BY <2>1, <2>2, HeadRight DEF Right
  <2>4. IsSeq(h.msgs) /\ \A e \in Entities(h.msgs) : h.buf = OthersBuffer(e)
    BY <2>3, PutsFacts DEF RightPut, Wordy
  <2> SUFFICES ASSUME NEW b \in Buffers
               PROVE  IsSeq(buffer'[b]) /\ \A e \in Entities(buffer'[b]) : b = OthersBuffer(e)
    BY DEF WellSaid
  <2>5. PICK old : old = buffer[b] /\ IsSeq(old) /\ \A e \in Entities(old) : b = OthersBuffer(e)
    BY DEF WellSaid
  <2>6. CASE b = h.buf
    <3>1. buffer'[b] = old \o h.msgs
      BY <2>2, <2>5, <2>6 DEF Memory
    <3>2. PICK new : new = h.msgs
      OBVIOUS
    <3>3. IsSeq(old \o new)
      BY <2>4, <2>5, <3>2, CatSet
    <3>4. \A e \in Entities(old \o new) : e \in Entities(old) \/ e \in Entities(new)
      BY <2>4, <2>5, <3>2, JoinRules
    <3> QED BY <2>4, <2>5, <2>6, <3>1, <3>2, <3>3, <3>4
  <2>7. CASE b # h.buf
    BY <2>2, <2>5, <2>7 DEF Memory
  <2> QED BY <2>6, <2>7
<1>3. ASSUME NEW t \in Threads, Unlock(t)
      PROVE  WellSaid'
  <2>1. PICK c : buffer' = [buffer EXCEPT ![c] = <<>>]
    BY <1>3 DEF Unlock
  <2>2. IsSeq(<<>>) /\ \A e : e \notin Entities(<<>>)
    BY NilFacts, EntitiesRule
  <2> QED BY <2>1, <2>2 DEF WellSaid, Memory
<1>4. ASSUME NEW t \in Threads, Step(t) \/ Wait(t) \/ Sent(t), ~Push(t), ~Unlock(t)
      PROVE  UNCHANGED buffer
  BY <1>4 DEF Step, Wait, Sent, Decide, Close, NothingToBroadcast, Deliver, Loop, Read, BeginWrite,
              EndWrite, ListOthers, Lock, AppendTo, BeginSend
<1>5. ASSUME NEW c \in Clients, Join(c) \/ Enter(c) \/ Play(c) \/ Leave(c)
      PROVE  UNCHANGED buffer
  BY <1>5 DEF Join, Enter, Play, Leave, gameUnchanged
<1>6. BroadcastTime => UNCHANGED buffer
  BY DEF BroadcastTime
<1> QED BY <1>1, <1>2, <1>3, <1>4, <1>5, <1>6 DEF Next

AllWorded == \A c \in Clients : Worded(response[c])

LEMMA WordedOne ==
  ASSUME Shape, AllWorded, NEW c, NEW id, NEW msgs, IsSeq(msgs),
         response' = [response EXCEPT ![c] = Append(@, [id |-> id, msgs |-> msgs])]
  PROVE  AllWorded'
<1> SUFFICES ASSUME NEW d \in Clients PROVE Worded(response'[d])
  BY DEF AllWorded
<1>1. PICK old, b : old = response[d] /\ Worded(old) /\ b = [id |-> id, msgs |-> msgs]
  BY DEF AllWorded
<1>2. b.msgs = msgs
  BY <1>1
<1>3. Worded(Append(old, b))
  BY <1>1, <1>2, SeesAppend
<1>4. response'[d] = old \/ response'[d] = Append(old, b)
  BY <1>1 DEF Shape
<1> QED BY <1>1, <1>3, <1>4

LEMMA WordedStep ==
  ASSUME IInv, WellSaid, AllWorded, AllFine, Next
  PROVE  AllWorded'
<1>0. Shape
  BY DEF IInv
<1>1. ASSUME UNCHANGED response PROVE AllWorded'
  BY <1>1 DEF AllWorded
<1>2. ASSUME NEW t \in Threads, EndWrite(t)
      PROVE  AllWorded'
  <2>1. PICK h : h = Head(todo[t])
    OBVIOUS
  <2>2. /\ todo[t] # <<>> /\ h.do = "wrote"
        /\ UNCHANGED response \/ response' = [response EXCEPT ![t] = Append(@, [id |-> 0, msgs |-> h.msgs])]
    BY <1>2, <2>1 DEF EndWrite, At, Next1
  <2>3. IsSeq(h.msgs)
    BY <2>1, <2>2, HeadRight DEF Right, RightWrite, Writes
  <2> QED BY <1>0, <1>1, <2>2, <2>3, WordedOne
<1>3. ASSUME NEW t \in Threads, AppendTo(t)
      PROVE  AllWorded'
  <2>1. PICK h, m : h = Head(todo[t]) /\ m = IF h.id = 0 THEN h.msgs ELSE buffer[h.buf]
    OBVIOUS
  <2>2. /\ todo[t] # <<>> /\ h.do = "append"
        /\ \/ UNCHANGED response
           \/ /\ ~(h.id = 0 /\ Entities(m) = {})
              /\ response' = [response EXCEPT ![h.who] = Append(@, [id |-> h.id, msgs |-> m])]
    BY <1>3, <2>1 DEF AppendTo, At, Next1
  <2>3. h.buf \in Buffers /\ (h.id = 0 => Entities(h.msgs) = {})
    BY <2>1, <2>2, HeadRight DEF Right, Wordy
  <2>4. h.id = 0 => UNCHANGED response
    BY <2>1, <2>2, <2>3
  <2>5. h.id # 0 => IsSeq(m)
    BY <2>1, <2>3 DEF WellSaid
  <2> QED BY <1>0, <1>1, <2>2, <2>4, <2>5, WordedOne
<1>4. ASSUME NEW t \in Threads, Sent(t)
      PROVE  AllWorded'
  <2>1. PICK c : response' = [response EXCEPT ![c] = <<>>]
    BY <1>4 DEF Sent
  <2>2. \A s : Worded(<<>>)
    BY SeesNil
  <2> QED BY <1>0, <2>1, <2>2 DEF AllWorded, Shape
<1>5. ASSUME NEW t \in Threads, Step(t) \/ Wait(t) \/ Sent(t), ~EndWrite(t), ~AppendTo(t), ~Sent(t)
      PROVE  UNCHANGED response
  BY <1>5 DEF Step, Wait, Decide, Push, Unlock, Close, NothingToBroadcast, Deliver, Loop, Read, BeginWrite,
              ListOthers, Lock, BeginSend
<1>6. ASSUME NEW c \in Clients, Join(c) \/ Enter(c) \/ Play(c) \/ Leave(c)
      PROVE  UNCHANGED response
  BY <1>6 DEF Join, Enter, Play, Leave, gameUnchanged
<1>7. BroadcastTime => UNCHANGED response
  BY DEF BroadcastTime
<1> QED BY <1>1, <1>2, <1>3, <1>4, <1>5, <1>6, <1>7 DEF Next

LEMMA TypesStep ==
  ASSUME IInv, Alive, Next
  PROVE  Types'
<1>1. People /\ Memory /\ WellSaid /\ AllWorded /\ AllFine
  BY DEF Alive, Types, People, Memory, WellSaid, AllWorded
<1>2. People' /\ Memory' /\ WellSaid' /\ AllWorded'
  BY <1>1, PeopleStep, MemoryStep, WellSaidStep, WordedStep
<1> QED BY <1>2 DEF Types, People, Memory, WellSaid, AllWorded

-----------------------------------------------------------------------------
(* Everything that is told, from the beginning. *)

LEMMA EverybodyPresent == ToSet(SetToSeq(Present)) = Present
<1>1. PICK n : n = Cardinality(Present) /\ n \in Nat
  BY ConnectionAssumption, FS_CardinalityType
<1>2. PICK s : s = SetToSeq(Present)
  OBVIOUS
<1>3. s \in Seq(Present) /\ IsInjective(s)
  BY <1>2, PresentInOrder
<1>4. \E f \in [1 .. n -> Present] : IsInjective(f)
  <2>1. ExistsBijection(1 .. n, Present)
    BY <1>1, ConnectionAssumption, FS_CardinalityType
  <2> QED BY <2>1 DEF ExistsBijection, Bijection, Injection
<1>5. s \in [1 .. n -> Present]
  BY <1>1, <1>2, <1>4 DEF SetToSeq
<1>6. s \in Injection(1 .. n, Present)
  BY <1>3, <1>5 DEF Injection, IsInjective
<1>7. IsFiniteSet(1 .. n) /\ Cardinality(1 .. n) = n
  BY <1>1, FS_Interval
<1>8. s \in Surjection(1 .. n, Present)
  BY <1>1, <1>6, <1>7, ConnectionAssumption, FS_Injection
<1>9. ToSet(s) = Present
  BY <1>5, <1>8 DEF ToSet, Surjection
<1> QED BY <1>2, <1>9

(* In the beginning those in the game show each other. *)
LEMMA InitSInv == Init => SInv
<1> SUFFICES ASSUME Init PROVE Alive
  BY DEF SInv
<1>1. PICK x, nil : x = Task("loop") /\ nil = <<>> /\ x.do = "loop"
  BY Constructors
<1>2. /\ \A t \in Threads : todo[t] = nil \/ (t \in Present /\ todo[t] = <<x>>)
      /\ \A t \in Threads : Tasks(t) \subseteq {x}
      /\ \A c \in Present : c \in Clients
  <2>1. \A t \in Threads : todo[t] = nil \/ (t \in Present /\ todo[t] = <<x>>)
    BY <1>1 DEF Init
  <2> QED BY <1>1, <2>1, ConnectionAssumption, NilFacts, OneFacts DEF Tasks
<1>3. /\ \A c \in Clients : (status[c] = Connected <=> c \in Present) /\ (status[c] = Disconnected <=> c \notin Present)
      /\ \A c \in Clients : (HasPlayer(c) <=> c \in Present)
      /\ \A c \in Clients : (stage[c] = "away" <=> c \notin Present) /\ stage[c] # "handshake"
  BY Statuses DEF Init, HasPlayer
<1>4. \A t \in Threads : \A d : /\ ~HasLogin(Tasks(t)) /\ ~HasPing(Tasks(t)) /\ (\A do : do # "loop" => ~Has(Tasks(t), do))
                                /\ ~Moving(Tasks(t), d) /\ ~Spawning(Tasks(t), d) /\ ~Going(Tasks(t), d)
                                /\ ~Writing(Tasks(t), d) /\ ~Ordering(Tasks(t), d)
  BY <1>1, <1>2 DEF HasLogin, HasPing, Has, Moving, Spawning, Going, Writing, Ordering,
                    LogsIn, Pings, PutsSpawn, PutsGone, Writes, Orders
<1>5. \A d \in Clients : ~News(d) /\ ~TellsGone(buffer[OthersBuffer(d)], d) /\ ~LastSpawn(buffer[OthersBuffer(d)], d)
  <2>1. \A d \in Clients : buffer[OthersBuffer(d)] = nil
    BY <1>1, OthersBufferFacts DEF Init
  <2>2. DOMAIN nil = {}
    BY <1>1, NilFacts
  <2>3. \A d : d \notin Entities(nil) /\ ~TellsGone(nil, d) /\ ~LastSpawn(nil, d)
    BY <2>2, EntitiesRule DEF TellsGone, LastSpawn
  <2> QED BY <2>1, <2>3 DEF News
<1>6. \A c \in Clients : Sees(c) = IF c \in Present THEN Present \ {c} ELSE {}
  BY SeesNil DEF Init, Sees
<1>7. listMutex = Nobody /\ \A c : ~Target(c)
  BY DEF Init, Target
<1>8. Types
  <2>1. /\ status \in [Clients -> 0 .. 3] /\ person \in [Clients -> {"none", "named", "player"}]
        /\ peer \in [Clients -> {"open", "closed", "reset"}]
    BY Statuses DEF Init
  <2>2. /\ screen = [c \in Clients |-> screen[c]] /\ blurred = [c \in Clients |-> blurred[c]]
        /\ buffer = [b \in Buffers |-> buffer[b]]
    BY DEF Init
  <2>3. /\ \A b \in Buffers : buffer[b] = nil
        /\ \A c \in Clients : response[c] = nil
    BY <1>1 DEF Init
  <2>4. IsSeq(nil) /\ Worded(nil) /\ \A e : e \notin Entities(nil)
    <3>1. Worded(<<>>)
      <4>1. PICK seen : seen = {}
        OBVIOUS
      <4> QED BY SeesNil
    <3> QED BY <1>1, <3>1, NilFacts, EntitiesRule
  <2> QED BY <2>1, <2>2, <2>3, <2>4 DEF Types
<1>9. AllFine
  <2> SUFFICES ASSUME NEW t \in Threads PROVE Fine(t, Known(t), todo[t], {})
    BY DEF AllFine
  <2>1. PICK known : known = Known(t)
    OBVIOUS
  <2>2. Right(t, known, x, {})
    BY <1>1 DEF Right, Writes
  <2>3. Fine(t, known, <<x>>, {}) /\ Fine(t, known, <<>>, {})
    BY <2>2, FineOne, FineNil
  <2> QED BY <1>1, <1>2, <2>1, <2>3
<1>10. ASSUME NEW c \in Clients PROVE Progress(c) /\ Arrival(c)
  <2>1. c \in Threads
    BY DEF Threads
  <2>2. c \in Present => Settled(c)
    BY <1>1, <1>2, <1>3, <2>1 DEF Settled
  <2>3. status[c] # Disconnected \/ todo[c] # <<>> => c \in ToSet(connected)
    BY <1>1, <1>2, <1>3, <2>1, EverybodyPresent DEF Init
  <2>4. Progress(c)
    BY <1>3, <1>4, <1>6, <1>7, <2>1, <2>2, <2>3 DEF Progress
  <2>5. inbox[c] = <<>> /\ (c \notin Present => todo[c] = <<>>)
    BY <1>1, <1>2, <2>1 DEF Init
  <2>6. \A i \in DOMAIN inbox[c] : FALSE
    BY <2>5, NilFacts
  <2>7. Arrival(c)
    BY <1>3, <1>4, <2>1, <2>5, <2>6 DEF Arrival
  <2> QED BY <2>4, <2>7
<1>11. Told
  <2>1. ASSUME NEW d \in Clients PROVE Unknown(d) /\ Carried(d)
    BY <1>3, <1>4, <1>5, <1>6 DEF Unknown, Carried, Threads
  <2>2. ASSUME NEW c \in Clients, NEW d \in Clients PROVE Untold(c, d) /\ Shown(c, d) /\ Hidden(c, d)
    <3>1. Untold(c, d)
      BY <1>4, <1>5 DEF Untold
    <3>2. Shown(c, d)
      BY <1>3, <1>4, <1>6 DEF Shown, Listens, Here, Threads
    <3>3. Hidden(c, d)
      BY <1>3, <1>4, <1>5, <1>6 DEF Hidden, Away, Listens, Threads
    <3> QED BY <3>1, <3>2, <3>3
  <2> QED BY <2>1, <2>2 DEF Told
<1> QED BY <1>7, <1>8, <1>9, <1>10, <1>11 DEF Alive, Rounds

(* The steps that touch no buffer. *)
LEMMA DecideAlive ==
  ASSUME IInv, Alive, Types', NEW t \in Threads, Decide(t), dead = "no", dead' = "no"
  PROVE  Alive'
<1>1. UNCHANGED <<connected, buffer, response, screen, listMutex>> /\ UNCHANGED Socket
  BY DEF Decide
<1>2. CASE ChangeStatus(t)
  BY <1>1, <1>2, StatusAlive
<1>3. CASE ~ChangeStatus(t)
  <2>1. /\ t \in Clients
        /\ UNCHANGED <<connected, buffer, response, screen, blurred, listMutex>>
        /\ \/ Skip(t) \/ HandleHandshake(t) \/ HandleLoginRequest(t) \/ HandleLegacyPing(t)
           \/ OutOfOrder(t) \/ HandleDisconnect(t) \/ CommandKick(t) \/ Unhandled(t)
           \/ HandlePacket(t) \/ SendNewChunks(t)
    BY <1>1, <1>3 DEF Decide
  <2>2. CASE Skip(t) \/ SendNewChunks(t)
    BY <1>1, <2>1, <2>2, SkipAlive
  <2>3. CASE HandleHandshake(t) \/ HandleLegacyPing(t) \/ OutOfOrder(t)
    BY <1>1, <2>1, <2>3, OutsideAlive
  <2>4. CASE HandleLoginRequest(t)
    <3>1. /\ Handling(t, "LoginRequest") /\ status[t] = LoggingIn /\ UNCHANGED status
          /\ \/ Follow(t, DisconnectClient(t, TRUE, FALSE)) /\ UNCHANGED person
             \/ Follow(t, DisconnectClient(t, TRUE, TRUE)) /\ person' = [person EXCEPT ![t] = "player"]
             \/ Follow(t, LogIn(t)) /\ person' = [person EXCEPT ![t] = "player"]
      BY <2>4 DEF HandleLoginRequest
    <3>2. CASE Follow(t, DisconnectClient(t, TRUE, FALSE)) /\ UNCHANGED person
      BY <1>1, <2>1, <3>1, <3>2, OutsideAlive
    <3>3. CASE Follow(t, DisconnectClient(t, TRUE, TRUE)) /\ person' = [person EXCEPT ![t] = "player"]
      BY <1>1, <2>1, <3>1, <3>3, RefusedAlive
    <3>4. CASE Follow(t, LogIn(t)) /\ person' = [person EXCEPT ![t] = "player"]
      BY <1>1, <2>1, <3>1, <3>4, LogInAlive
    <3> QED BY <3>1, <3>2, <3>3, <3>4
  <2>5. CASE HandleDisconnect(t) \/ CommandKick(t)
    BY <1>1, <2>1, <2>5, KickAlive
  <2>6. CASE Unhandled(t)
    BY <1>1, <2>1, <2>6, UnhandledAlive
  <2>7. CASE HandlePacket(t)
    BY <1>1, <2>1, <2>7, HandleAlive
  <2> QED BY <2>1, <2>2, <2>3, <2>4, <2>5, <2>6, <2>7
<1> QED BY <1>2, <1>3

(* Every step of the server and of the games keeps the invariant, unless it *)
(* kills the server. *)
LEMMA NextSInv == IInv /\ SInv /\ [Next]_vars => SInv'
<1>1. ASSUME IInv, Alive, Next, dead = "no", dead' = "no"
      PROVE  Alive'
  <2>1. Types'
    BY <1>1, TypesStep
  <2>2. BroadcastTime => Alive'
    BY <1>1, <2>1, TimeAlive
  <2>3. ASSUME NEW c \in Clients, Join(c) \/ Enter(c) \/ Play(c) \/ Leave(c)
        PROVE  Alive'
    BY <1>1, <2>1, <2>3, JoinAlive, GameAlive
  <2>4. ASSUME NEW t \in Threads, Step(t)
        PROVE  Alive'
    <3>1. CASE Decide(t)
      BY <1>1, <2>1, <3>1, DecideAlive
    <3>2. CASE Push(t)
      BY <1>1, <2>1, <3>2, PushAlive
    <3>3. CASE NothingToBroadcast(t)
      BY <1>1, <2>1, <3>3, NothingAlive
    <3>4. CASE Deliver(t)
      BY <1>1, <2>1, <3>4, DeliverAlive
    <3>5. CASE Unlock(t)
      BY <1>1, <2>1, <3>5, UnlockAlive
    <3>6. CASE t \in Clients /\ Loop(t)
      BY <1>1, <2>1, <3>6, LoopAlive
    <3>7. CASE t \in Clients /\ Read(t)
      BY <1>1, <2>1, <3>7, ReadAlive
    <3>8. CASE t \in Clients /\ BeginWrite(t)
      BY <1>1, <2>1, <3>8, BeginWriteAlive
    <3>9. CASE t \in Clients /\ EndWrite(t)
      BY <1>1, <2>1, <3>9, EndWriteAlive
    <3>10. CASE t \in Clients /\ ListOthers(t)
      BY <1>1, <2>1, <3>10, ListAlive
    <3> QED BY <2>4, <3>1, <3>2, <3>3, <3>4, <3>5, <3>6, <3>7, <3>8, <3>9, <3>10 DEF Step
  <2>5. ASSUME NEW t \in Threads, Wait(t) \/ Sent(t)
        PROVE  Alive'
    <3>1. CASE Lock(t)
      BY <1>1, <2>1, <3>1, LockAlive
    <3>2. CASE AppendTo(t)
      BY <1>1, <2>1, <3>2, AppendAlive
    <3>3. CASE BeginSend(t)
      BY <1>1, <2>1, <3>3, NothingAlive
    <3>4. CASE t \in Clients /\ Close(t)
      BY <1>1, <2>1, <3>4, CloseAlive
    <3>5. CASE Sent(t)
      BY <1>1, <2>1, <3>5, SentAlive
    <3> QED BY <2>5, <3>1, <3>2, <3>3, <3>4, <3>5 DEF Wait
  <2> QED BY <1>1, <2>2, <2>3, <2>4, <2>5 DEF Next
<1>2. ASSUME UNCHANGED vars
      PROVE  SInv' <=> SInv
  <2>1. /\ UNCHANGED <<status, connected, person, stage, inbox, peer, todo, buffer, response,
                       listMutex, screen, blurred, dead>>
    BY <1>2 DEF vars
  <2>2. \A e : /\ HasPlayer(e)' = HasPlayer(e) /\ Known(e)' = Known(e) /\ Tasks(e)' = Tasks(e)
               /\ Sees(e)' = Sees(e) /\ News(e)' = News(e) /\ Circles(e)' = Circles(e)
               /\ Late(e)' = Late(e) /\ Target(e)' = Target(e) /\ Leaving(e)' = Leaving(e)
               /\ Here(e)' = Here(e) /\ Listens(e)' = Listens(e)
    BY <2>1 DEF HasPlayer, Known, Tasks, Sees, News, Circles, Late, Target, Leaving, Here, Listens
  <2>3. \A e, f : Due(e, f)' = Due(e, f) /\ Away(f)' = Away(f) /\ Settled(f)' = Settled(f)
    BY <2>1, <2>2 DEF Due, Away, Settled
  <2>4. (Types' <=> Types) /\ (Rounds' <=> Rounds) /\ (AllFine' <=> AllFine)
    BY <2>1, <2>2 DEF Types, Rounds, AllFine
  <2>5. \A e \in Clients : /\ (Progress(e)' <=> Progress(e)) /\ (Arrival(e)' <=> Arrival(e))
                           /\ (Unknown(e)' <=> Unknown(e)) /\ (Carried(e)' <=> Carried(e))
    BY <2>1, <2>2, <2>3 DEF Progress, Arrival, Unknown, Carried
  <2>6. \A e, f \in Clients : /\ (Untold(e, f)' <=> Untold(e, f))
                              /\ (Shown(e, f)' <=> Shown(e, f)) /\ (Hidden(e, f)' <=> Hidden(e, f))
    BY <2>1, <2>2, <2>3 DEF Untold, Shown, Hidden
  <2> QED BY <2>1, <2>4, <2>5, <2>6 DEF SInv, Alive, Told
<1>3. Next => dead = "no"
  BY DEF Next
<1> QED BY <1>1, <1>2, <1>3 DEF SInv

(* When all threads are idle no task and no buffer holds any news, so what  *)
(* is shown is what is. *)
LEMMA QuietAgrees == IInv /\ SInv => ScreensAgree
<1> SUFFICES ASSUME IInv, Alive, Quiet, dead = "no", NEW c \in Clients, NEW d \in Clients,
                    status[c] = Connected, peer[c] = "open", response[c] = <<>>, c # d, d \notin blurred[c]
             PROVE  d \in screen[c] <=> status[d] = Connected
  BY DEF SInv, ScreensAgree
<1>1. \A t \in Threads : \A x \in Tasks(t) : x.do = "read"
  <2> SUFFICES ASSUME NEW t \in Threads PROVE \A x \in Tasks(t) : x.do = "read"
    OBVIOUS
  <2>1. CASE todo[t] = <<>>
    BY <2>1, NilFacts DEF Tasks
  <2>2. CASE todo[t] # <<>>
    <3>1. Head(todo[t]).do = "read"
      BY <2>2 DEF Quiet, Next1
    <3>2. Fine(t, Known(t), todo[t], {})
      BY DEF Alive, AllFine
    <3>3. ToSet(Tail(todo[t])) = {} /\ ToSet(todo[t]) = {Head(todo[t])} \cup ToSet(Tail(todo[t]))
      BY <2>2, <3>1, <3>2, FineTail DEF Right
    <3> QED BY <3>1, <3>3 DEF Tasks
  <2> QED BY <2>1, <2>2
<1>2. \A t \in Threads : \A e : /\ ~HasLogin(Tasks(t)) /\ ~Spawning(Tasks(t), e) /\ ~Going(Tasks(t), e)
                                /\ ~Writing(Tasks(t), e) /\ ~Moving(Tasks(t), e)
                                /\ \A b : ~Carrying(Tasks(t), b)
  BY <1>1 DEF HasLogin, Spawning, Going, Writing, Moving, Carrying, LogsIn, PutsSpawn, PutsGone, Writes, Carries
<1>3. listMutex = Nobody
  <2> SUFFICES ASSUME listMutex # Nobody PROVE FALSE
    OBVIOUS
  <2>1. PICK t \in Threads : t = listMutex
    BY DEF IInv, Shape
  <2>2. Looping(todo[t]) \/ Appending(todo[t])
    BY <2>1 DEF IInv, InOrder
  <2>3. todo[t] # <<>> /\ Head(todo[t]).do \in {"deliver", "append"}
    BY <2>2 DEF Looping, Appending
  <2> QED BY <2>3 DEF Quiet, Next1
<1>4. ~Late(d) /\ ~News(d) /\ d \in Threads /\ c \in Threads
  <2>1. ~News(d)
    BY <1>2 DEF Alive, Told, Carried
  <2> QED BY <1>3, <2>1 DEF Late, Circles, Threads
<1>5. Sees(c) = screen[c]
  BY SeesNil DEF Sees
<1>6. Shown(c, d) /\ Hidden(c, d) /\ Unknown(d) /\ Progress(d) /\ Listens(c)
  BY DEF Alive, Told, Listens
<1>7. ASSUME status[d] = Connected PROVE d \in screen[c]
  BY <1>2, <1>4, <1>5, <1>6, <1>7 DEF Shown, Here
<1>8. ASSUME status[d] # Connected PROVE d \notin screen[c]
  <2>1. CASE ~HasPlayer(d)
    BY <1>5, <1>6, <2>1 DEF Unknown
  <2>2. CASE HasPlayer(d) /\ status[d] # Disconnected
    BY <1>2, <1>4, <1>6, <1>8, <2>2 DEF Progress
  <2>3. CASE status[d] = Disconnected
    <3>1. Away(d)
      BY <1>2, <1>4, <2>3 DEF Away, Leaving
    <3> QED BY <1>2, <1>4, <1>5, <1>6, <3>1 DEF Hidden
  <2> QED BY <2>1, <2>2, <2>3
<1> QED BY <1>7, <1>8

(* When no packet is being handled and no broadcast is under way, every     *)
(* client in the game shows exactly the others that are in the game, but    *)
(* for those whose coming or going fell into its login or was lost with a   *)
(* buffer: for any number of clients, whatever they send, whenever they     *)
(* hang up or are kicked. *)
THEOREM ScreensInTheEnd == Spec => []ScreensAgree
<1>1. Spec => []SInv
  BY Invariance, InitSInv, NextSInv, PTL DEF Spec
<1> QED BY <1>1, Invariance, QuietAgrees, PTL
=============================================================================
