--------------------------- MODULE BlockEditsProofs ---------------------------
(***************************************************************************)
(* Theorems about BlockEdits, for any number of players, any packets and   *)
(* any loaded chunks.                                                      *)
(***************************************************************************)
EXTENDS BlockEdits, SequenceTheorems, WellFoundedInduction, TLAPS

(* ------------------------------- invariants ----------------------------- *)

Lookers == {"tell", "dig", "interact", "swing", "place"}

TypeLookers == {"half", "hoe", "placed", "soak"}

Frame ==
  [ call : Lookers \cup TypeLookers \cup {"write", "put"},
    do : {"set", "load", "store", "look", "type", "meta", "act"},
    pos : Positions, type : Int, meta : Int ]

TypeOK ==
  /\ DOMAIN world \subseteq Positions
  /\ world \in [DOMAIN world -> Block]
  /\ shown \in [DOMAIN world -> Block]
  /\ taken \in [DOMAIN world -> Nat]
  /\ todo \in [Players -> Seq(Frame)]
  /\ reg \in [Players -> [type : Int, meta : 0 .. 15, byte : (0 .. 15) \X (0 .. 15)]]
  /\ request \in [Players -> Requests \cup {NoRequest}]

(* The operators of BlockEdits that read the blocks, with the blocks as a   *)
(* parameter: what holds of them holds before and after a step. *)
BlockIn(w, pos) == IF pos \in DOMAIN w THEN w[pos] ELSE Air

PlacesIn(loaded, r) ==
  IF r.op # "place" THEN {r.pos}
  ELSE {r.pos, Target(r)}
       \cup (IF IsDouble(r.item) THEN {SecondHalf(r)} ELSE {})
       \cup (IF r.item = BLOCK.SPONGE
             THEN {q \in loaded : \A i \in 1 .. 3 : q[i] - Target(r)[i] \in -2 .. 2} ELSE {})

TouchedIn(loaded, r) == UNION {Near(pos) : pos \in PlacesIn(loaded, r)}

ReachIn(loaded, r) == {q \in loaded : {q, Even(q), Odd(q)} \cap TouchedIn(loaded, r) # {}}

(* A call is made by a handler that makes it, at a position of its packet,  *)
(* and has come to an access that it makes. *)
CallOK(loaded, f, r) ==
  /\ f.pos \in TouchedIn(loaded, r)
  /\ f.call = "write" => f.do \in {"set", "load", "store"}
  /\ f.call \in Lookers => f.do \in {"look", "meta", "act"}
  /\ f.call \in {"half", "hoe", "soak"} => f.do \in {"type", "act"}
  /\ f.call = "placed" => /\ f.do \in {"type", "act"}
                          /\ f.pos = IF IsDouble(r.item) THEN SecondHalf(r) ELSE Target(r)
  /\ f.call = "put" => /\ f.do = "act"
                       /\ f.pos = Target(r)
                       /\ f.type = BLOCK.SPONGE => r.item = BLOCK.SPONGE
  /\ f.call \in {"dig", "half"} => r.op = "dig"
  /\ f.call \in {"place", "hoe", "placed", "put", "soak"} => r.op = "place"
  /\ f.call \in {"dig", "interact", "place", "hoe"} => f.pos = r.pos
  /\ f.call \in {"half", "swing"} => /\ f.pos \in Near(r.pos) \ {r.pos}
                                     /\ f.type \in Doors
  /\ f.call = "soak" => /\ r.item = BLOCK.SPONGE
                        /\ f.meta \in 0 .. LastCell

(* A call that has not begun. *)
Begins(f) ==
  /\ f.call = "write" => f.do = "set"
  /\ f.call \in Lookers => f.do = "look"
  /\ f.call \in TypeLookers => f.do = "type"

Tells(s, i) == s[i].call = "tell"

Writes(s, i) == s[i].call = "write" /\ s[i+1].call = "tell" /\ s[i+1].pos = s[i].pos

(* The block of the packet is written last, after the other half of a door. *)
WritesLast(s, r, i) ==
  Writes(s, i) /\ s[i].pos = r.pos /\ s[1].pos \in Near(r.pos) \ {r.pos}

Tail1 == {"interact", "put", "soak"}

Single == {"tell", "dig", "interact", "place", "hoe", "placed", "soak", "put"}

(* The stacks of calls there are. *)
StackOK(s, r) ==
  \/ Len(s) = 0
  \/ Len(s) = 1 /\ s[1].call \in Single
  \/ Len(s) = 2 /\ Writes(s, 1)
  \/ Len(s) = 2 /\ Tells(s, 1) /\ s[2].call \in Tail1
  \/ Len(s) = 3 /\ Writes(s, 1) /\ s[3].call \in Tail1
  \/ Len(s) = 3 /\ s[1].call \in {"half", "swing", "tell"} /\ WritesLast(s, r, 2)
  \/ Len(s) = 4 /\ Writes(s, 1) /\ WritesLast(s, r, 3)
  \/ Len(s) = 4 /\ s[1].call \in {"half", "tell"} /\ WritesLast(s, r, 2) /\ s[4].call = "interact"
  \/ Len(s) = 5 /\ Writes(s, 1) /\ WritesLast(s, r, 3) /\ s[5].call = "interact"

CallsOK(loaded, s, r) ==
  /\ s # <<>> => r \in Requests /\ r.op \in {"dig", "place"}
  /\ \A i \in 1 .. Len(s) : CallOK(loaded, s[i], r) /\ (i > 1 => Begins(s[i]))
  /\ StackOK(s, r)

Handlers == \A p \in Players : CallsOK(DOMAIN world, todo[p], request[p])

Reads(f, r) ==
  \/ f.call \in Lookers \cup {"half", "hoe", "soak"}
  \/ f.call = "placed" /\ IsDouble(r.item)

(* What has been read of a block that no second handler was at is so. *)
Right(f, r, w, v, at) ==
  /\ f.pos \notin at =>
       /\ f.do \in {"meta", "act"} /\ Reads(f, r) => v.type = BlockIn(w, f.pos).type
       /\ f.do = "act" /\ f.call \in Lookers => v.meta = BlockIn(w, f.pos).meta
  /\ f.do = "store" =>
       /\ Even(f.pos) \in DOMAIN w \ at => v.byte[1] = w[Even(f.pos)].meta
       /\ Odd(f.pos) \in DOMAIN w \ at => v.byte[2] = w[Odd(f.pos)].meta

ReadRight ==
  \A p \in Players : todo[p] # <<>> => Right(todo[p][1], request[p], world, reg[p], raced)

(* Where two handlers under way both are, two were. *)
MeetingsRaced ==
  \A p, q \in Players :
    p # q /\ todo[p] # <<>> /\ todo[q] # <<>> =>
      ReachIn(DOMAIN world, request[p]) \cap ReachIn(DOMAIN world, request[q]) \subseteq raced

Announces(s, x) == s # <<>> /\ s[1].pos = x /\ s[1].call \in {"write", "tell"}

(* A block of which the clients have not heard is about to be told. *)
ToldSoon ==
  \A x \in DOMAIN world \ raced : shown[x] = world[x] \/ \E p \in Players : Announces(todo[p], x)

ShownInv == TypeOK /\ Handlers /\ ReadRight /\ MeetingsRaced /\ ToldSoon

(* ------------------------------- positions ------------------------------ *)

LEMMA Moves ==
  ASSUME NEW pos \in Positions, NEW a \in Int, NEW b \in Int, NEW c \in Int
  PROVE  /\ Move(pos, a, b, c) \in Positions
         /\ Move(pos, a, b, c)[1] = pos[1] + a
         /\ Move(pos, a, b, c)[2] = pos[2] + b
         /\ Move(pos, a, b, c)[3] = pos[3] + c
  BY DEF Move, Positions

LEMMA Coordinates ==
  ASSUME NEW pos \in Positions
  PROVE  pos = <<pos[1], pos[2], pos[3]>> /\ pos[1] \in Int /\ pos[2] \in Int /\ pos[3] \in Int
  BY DEF Positions

LEMMA NearPositions ==
  ASSUME NEW pos \in Positions, NEW q \in Near(pos)
  PROVE  q \in Positions /\ pos \in Near(q)
  BY Coordinates DEF Near, Move, Positions

LEMMA Nearer ==
  ASSUME NEW pos \in Positions, NEW m \in Int
  PROVE  OtherDoorHalf(pos, m) \in Near(pos) \ {pos}
  BY Coordinates DEF OtherDoorHalf, Near, Move, Positions

(* A byte has two positions. *)
LEMMA Siblings ==
  ASSUME NEW pos \in Positions
  PROVE  /\ Even(pos) \in Positions /\ Odd(pos) \in Positions
         /\ pos \in {Even(pos), Odd(pos)}
         /\ Even(Even(pos)) = Even(pos) /\ Even(Odd(pos)) = Even(pos)
         /\ Odd(Even(pos)) = Odd(pos) /\ Odd(Odd(pos)) = Odd(pos)
<1> PICK x \in Int, y \in Int, z \in Int : pos = <<x, y, z>>
  BY DEF Positions
<1>1. Even(pos) = <<x, y - (y % 2), z>> /\ Odd(pos) = <<x, y - (y % 2) + 1, z>>
  BY DEF Even, Odd, Move
<1> PICK e \in Int : e = y - (y % 2) /\ e % 2 = 0 /\ (e + 1) % 2 = 1 /\ (y = e \/ y = e + 1)
  OBVIOUS
<1>2. Even(<<x, e, z>>) = <<x, e, z>> /\ Odd(<<x, e, z>>) = <<x, e + 1, z>>
  BY DEF Even, Odd, Move
<1>3. Even(<<x, e + 1, z>>) = <<x, e, z>> /\ Odd(<<x, e + 1, z>>) = <<x, e + 1, z>>
  BY DEF Even, Odd, Move
<1> QED  BY <1>1, <1>2, <1>3 DEF Positions

LEMMA Faces ==
  ASSUME NEW pos \in Positions, NEW face \in Int
  PROVE  BlockToFace(pos, face) \in Positions
<1>1. /\ Move(pos, 0, -1, 0) \in Positions /\ Move(pos, 0, 1, 0) \in Positions
      /\ Move(pos, 0, 0, -1) \in Positions /\ Move(pos, 0, 0, 1) \in Positions
      /\ Move(pos, -1, 0, 0) \in Positions /\ Move(pos, 1, 0, 0) \in Positions
  BY Coordinates DEF Move, Positions
<1> QED  BY <1>1 DEF BlockToFace, Face

LEMMA Orientations ==
  ASSUME NEW yaw \in Int
  PROVE  GetPlayerOrientation(yaw) \in 2 .. 5
<1> PICK n \in Int : n = (((yaw + 2) \div 4) % 4) + 1 /\ n \in 1 .. 4
  OBVIOUS
<1> QED  BY DEF GetPlayerOrientation, Face

LEMMA RequestPositions ==
  ASSUME NEW r \in Requests
  PROVE  /\ r.pos \in Positions
         /\ r.op = "place" => Target(r) \in Positions
         /\ r.op = "place" /\ IsDouble(r.item) =>
              SecondHalf(r) \in Positions /\ SecondHalf(r) # Target(r)
<1>1. r.pos \in Positions /\ (r.op = "place" => Target(r) \in Positions)
  BY EditsAssumption, Faces DEF Target
<1>2. ASSUME r.op = "place", IsDouble(r.item)
      PROVE  SecondHalf(r) \in Positions /\ SecondHalf(r) # Target(r)
  <2> DEFINE t == Target(r)
             dir == GetPlayerOrientation(r.yaw)
  <2>1. t \in Positions /\ dir \in 2 .. 5
    BY <1>1, <1>2, Orientations, EditsAssumption
  <2> HIDE DEF t, dir
  <2>2. \A a, b, c \in Int : a # 0 \/ b # 0 \/ c # 0 =>
          Move(t, a, b, c) \in Positions /\ Move(t, a, b, c) # t
    BY <2>1, Coordinates DEF Move, Positions
  <2>3. CASE IsDoorItem(r.item)
    <3>1. OtherHalf(r.item, t, dir) = Move(t, 0, 1, 0)
      <4>1. r.item # ITEM.BED
        BY <2>3 DEF IsDoorItem, ITEM
      <4> QED  BY <2>3, <4>1 DEF OtherHalf
    <3> QED  BY <3>1, <2>2 DEF SecondHalf, t, dir
  <2>4. CASE ~IsDoorItem(r.item)
    <3>1. r.item = ITEM.BED
      BY <1>2, <2>4 DEF IsDouble
    <3>2. OtherHalf(r.item, t, dir) \in {Move(t, 0, 0, 1), Move(t, -1, 0, 0), Move(t, 0, 0, -1), Move(t, 1, 0, 0)}
      BY <3>1, <2>4, <2>1 DEF OtherHalf, Face
    <3> QED  BY <3>2, <2>2 DEF SecondHalf, t, dir
  <2> QED  BY <2>3, <2>4
<1> QED  BY <1>1, <1>2

(* --------------------------------- reach -------------------------------- *)

LEMMA ReachIsReach == \A r : Reach(r) = ReachIn(DOMAIN world, r)
  BY DEF Reach, ReachIn, TouchedIn, Places, PlacesIn, Surroundings

LEMMA Places_ ==
  ASSUME NEW loaded, loaded \subseteq Positions, NEW r \in Requests
  PROVE  /\ PlacesIn(loaded, r) \subseteq Positions
         /\ TouchedIn(loaded, r) \subseteq Positions
         /\ r.pos \in PlacesIn(loaded, r)
         /\ r.op = "place" => Target(r) \in PlacesIn(loaded, r)
         /\ r.op = "place" /\ IsDouble(r.item) => SecondHalf(r) \in PlacesIn(loaded, r)
         /\ \A pos \in PlacesIn(loaded, r) : Near(pos) \subseteq TouchedIn(loaded, r)
         /\ \A pos \in PlacesIn(loaded, r) : pos \in TouchedIn(loaded, r)
<1>1. PlacesIn(loaded, r) \subseteq Positions
  BY RequestPositions DEF PlacesIn
<1>2. TouchedIn(loaded, r) \subseteq Positions
  BY <1>1, NearPositions DEF TouchedIn
<1> QED  BY <1>1, <1>2 DEF PlacesIn, TouchedIn, Near

LEMMA Reaches ==
  ASSUME NEW loaded, loaded \subseteq Positions, NEW r \in Requests,
         NEW pos \in TouchedIn(loaded, r), NEW q \in {pos, Even(pos), Odd(pos)}, q \in loaded
  PROVE  q \in ReachIn(loaded, r)
<1>1. pos \in Positions
  BY Places_
<1>2. pos \in {q, Even(q), Odd(q)}
  BY <1>1, Siblings
<1> QED  BY <1>2 DEF ReachIn

(* --------------------------------- stacks ------------------------------- *)

WriteCall(x, t, m) == [call |-> "write", do |-> "set", pos |-> x, type |-> t, meta |-> m]

TellCall(x) == [call |-> "tell", do |-> "look", pos |-> x, type |-> BLOCK.AIR, meta |-> 0]

UseCall(x) == [call |-> "interact", do |-> "look", pos |-> x, type |-> BLOCK.AIR, meta |-> 0]

LEMMA Air0 == BLOCK.AIR = 0 /\ BLOCK.INVALID = -1 /\ BLOCK.SPONGE = 19
  BY DEF BLOCK

(* Joining stacks written out. *)
LEMMA Joins ==
  ASSUME NEW S, NEW s \in Seq(S), NEW t \in Seq(S), NEW u \in Seq(S),
         Len(u) = Len(s) + Len(t),
         \A i \in 1 .. Len(s) : u[i] = s[i],
         \A i \in 1 .. Len(t) : u[Len(s) + i] = t[i]
  PROVE  s \o t = u
<1>1. Len(s) \in Nat /\ Len(t) \in Nat
  BY LenProperties
<1>2. s \o t \in Seq(S) /\ Len(s \o t) = Len(s) + Len(t)
  BY ConcatProperties
<1>3. ASSUME NEW i \in 1 .. Len(s) + Len(t)
      PROVE  (s \o t)[i] = u[i]
  <2>1. CASE i <= Len(s)
    BY <2>1, <1>1, ConcatProperties
  <2>2. CASE i > Len(s)
    <3>1. (s \o t)[i] = t[i - Len(s)]
      BY <2>2, <1>1, ConcatProperties
    <3>2. i - Len(s) \in 1 .. Len(t) /\ Len(s) + (i - Len(s)) = i
      BY <2>2, <1>1
    <3> QED  BY <3>1, <3>2
  <2> QED  BY <2>1, <2>2, <1>1
<1> QED  BY <1>1, <1>2, <1>3, SeqEqual

LEMMA Joined11 ==
  ASSUME NEW a, NEW b
  PROVE  <<a>> \o <<b>> = <<a, b>>
<1> DEFINE S == {a, b}
           s == <<a>>
           t == <<b>>
           u == <<a, b>>
<1>1. s \in Seq(S) /\ t \in Seq(S) /\ u \in Seq(S)
  OBVIOUS
<1>2. /\ Len(s) = 1 /\ Len(t) = 1 /\ Len(u) = 2
      /\ \A i \in 1 .. 1 : u[i] = s[i]
      /\ \A i \in 1 .. 1 : u[1 + i] = t[i]
  OBVIOUS
<1> HIDE DEF S, s, t, u
<1>3. Len(u) = Len(s) + Len(t)
  BY <1>2
<1>4. \A i \in 1 .. Len(s) : u[i] = s[i]
  BY <1>2
<1>5. \A i \in 1 .. Len(t) : u[Len(s) + i] = t[i]
  BY <1>2
<1>6. s \o t = u
  BY <1>1, <1>3, <1>4, <1>5, Joins
<1> QED  BY <1>6 DEF s, t, u

LEMMA Joined12 ==
  ASSUME NEW a, NEW b, NEW c
  PROVE  <<a>> \o <<b, c>> = <<a, b, c>>
<1> DEFINE S == {a, b, c}
           s == <<a>>
           t == <<b, c>>
           u == <<a, b, c>>
<1>1. s \in Seq(S) /\ t \in Seq(S) /\ u \in Seq(S)
  OBVIOUS
<1>2. /\ Len(s) = 1 /\ Len(t) = 2 /\ Len(u) = 3
      /\ \A i \in 1 .. 1 : u[i] = s[i]
      /\ \A i \in 1 .. 2 : u[1 + i] = t[i]
  OBVIOUS
<1> HIDE DEF S, s, t, u
<1>3. Len(u) = Len(s) + Len(t)
  BY <1>2
<1>4. \A i \in 1 .. Len(s) : u[i] = s[i]
  BY <1>2
<1>5. \A i \in 1 .. Len(t) : u[Len(s) + i] = t[i]
  BY <1>2
<1>6. s \o t = u
  BY <1>1, <1>3, <1>4, <1>5, Joins
<1> QED  BY <1>6 DEF s, t, u

LEMMA Joined21 ==
  ASSUME NEW a, NEW b, NEW c
  PROVE  <<a, b>> \o <<c>> = <<a, b, c>>
<1> DEFINE S == {a, b, c}
           s == <<a, b>>
           t == <<c>>
           u == <<a, b, c>>
<1>1. s \in Seq(S) /\ t \in Seq(S) /\ u \in Seq(S)
  OBVIOUS
<1>2. /\ Len(s) = 2 /\ Len(t) = 1 /\ Len(u) = 3
      /\ \A i \in 1 .. 2 : u[i] = s[i]
      /\ \A i \in 1 .. 1 : u[2 + i] = t[i]
  OBVIOUS
<1> HIDE DEF S, s, t, u
<1>3. Len(u) = Len(s) + Len(t)
  BY <1>2
<1>4. \A i \in 1 .. Len(s) : u[i] = s[i]
  BY <1>2
<1>5. \A i \in 1 .. Len(t) : u[Len(s) + i] = t[i]
  BY <1>2
<1>6. s \o t = u
  BY <1>1, <1>3, <1>4, <1>5, Joins
<1> QED  BY <1>6 DEF s, t, u

LEMMA Joined31 ==
  ASSUME NEW a, NEW b, NEW c, NEW d
  PROVE  <<a, b, c>> \o <<d>> = <<a, b, c, d>>
<1> DEFINE S == {a, b, c, d}
           s == <<a, b, c>>
           t == <<d>>
           u == <<a, b, c, d>>
<1>1. s \in Seq(S) /\ t \in Seq(S) /\ u \in Seq(S)
  OBVIOUS
<1>2. /\ Len(s) = 3 /\ Len(t) = 1 /\ Len(u) = 4
      /\ \A i \in 1 .. 3 : u[i] = s[i]
      /\ \A i \in 1 .. 1 : u[3 + i] = t[i]
  OBVIOUS
<1> HIDE DEF S, s, t, u
<1>3. Len(u) = Len(s) + Len(t)
  BY <1>2
<1>4. \A i \in 1 .. Len(s) : u[i] = s[i]
  BY <1>2
<1>5. \A i \in 1 .. Len(t) : u[Len(s) + i] = t[i]
  BY <1>2
<1>6. s \o t = u
  BY <1>1, <1>3, <1>4, <1>5, Joins
<1> QED  BY <1>6 DEF s, t, u

LEMMA JoinedEmpty ==
  ASSUME NEW a, NEW b, NEW c, NEW d
  PROVE  /\ <<>> \o <<>> = <<>> /\ <<>> \o <<a>> = <<a>> /\ <<a>> \o <<>> = <<a>>
         /\ <<>> \o <<a, b>> = <<a, b>> /\ <<a, b>> \o <<>> = <<a, b>>
         /\ <<a, b, c>> \o <<>> = <<a, b, c>>
<1>1. <<>> \o <<>> = <<>>
  OBVIOUS
<1>2. <<>> \o <<a>> = <<a>> /\ <<a>> \o <<>> = <<a>>
  OBVIOUS
<1>3. <<>> \o <<a, b>> = <<a, b>>
  OBVIOUS
<1>4. <<a, b>> \o <<>> = <<a, b>>
  OBVIOUS
<1>5. <<a, b, c>> \o <<>> = <<a, b, c>>
  OBVIOUS
<1> QED  BY <1>1, <1>2, <1>3, <1>4, <1>5

LEMMA Updates ==
  ASSUME NEW x, NEW t, NEW m
  PROVE  PlaceBlockUpdate(x, t, m) = <<WriteCall(x, t, m), TellCall(x)>>
<1>2. PlaceBlockUpdate(x, t, m) = <<WriteCall(x, t, m)>> \o <<TellCall(x)>>
  BY DEF PlaceBlockUpdate, SetBlockTypeAndMeta, UpdateBlock, AfterLook, Call, WriteCall, TellCall
<1> QED  BY <1>2, Joined11

LEMMA Uses ==
  ASSUME NEW x
  PROVE  InteractWithBlock(x) = <<UseCall(x)>>
  BY DEF InteractWithBlock, AfterLook, Call, UseCall

LEMMA Frames ==
  ASSUME NEW x \in Positions, NEW t \in Int, NEW m \in Int
  PROVE  WriteCall(x, t, m) \in Frame /\ TellCall(x) \in Frame /\ UseCall(x) \in Frame
  BY Air0 DEF Frame, WriteCall, TellCall, UseCall, Lookers, TypeLookers

(* What is on top, and what is below it. *)
LEMMA Stacks ==
  ASSUME NEW S, NEW s \in Seq(S), s # <<>>
  PROVE  /\ Len(s) \in Nat /\ Len(s) > 0
         /\ Head(s) = s[1] /\ s[1] \in S
         /\ Tail(s) \in Seq(S) /\ Len(Tail(s)) = Len(s) - 1
         /\ \A i \in 1 .. Len(s) - 1 : Tail(s)[i] = s[i + 1]
         /\ \A i \in 1 .. Len(s) : s[i] \in S
  BY HeadTailProperties, LenProperties, ElementOfSeq

(* A call that advances leaves the stack as it is otherwise. *)
LEMMA AdvancedOK ==
  ASSUME NEW s \in Seq(Frame), s # <<>>, NEW t \in Seq(Frame), NEW r, NEW loaded, NEW access,
         Len(t) = Len(s), t[1] = [s[1] EXCEPT !.do = access],
         \A i \in 2 .. Len(s) : t[i] = s[i],
         CallsOK(loaded, s, r),
         \/ s[1].call = "write" /\ access \in {"load", "store"}
         \/ s[1].call \in Lookers /\ access \in {"meta", "act"}
         \/ s[1].call \in TypeLookers /\ access = "act"
  PROVE  CallsOK(loaded, t, r)
<1>1. s[1] \in Frame /\ Len(s) \in Nat /\ Len(s) > 0 /\ t # <<>>
  BY Stacks
<1>2. /\ t[1].call = s[1].call /\ t[1].pos = s[1].pos /\ t[1].type = s[1].type /\ t[1].meta = s[1].meta
      /\ t[1].do = access
  BY <1>1 DEF Frame
<1>3. CallOK(loaded, t[1], r)
  <2>1. CallOK(loaded, s[1], r)
    BY <1>1 DEF CallsOK
  <2> QED  BY <1>2, <2>1 DEF CallOK, Lookers, TypeLookers
<1>4. StackOK(t, r)
  <2>1. StackOK(s, r)
    BY DEF CallsOK
  <2> QED  BY <1>1, <1>2, <2>1 DEF StackOK, Writes, WritesLast, Tells
<1>5. \A i \in 1 .. Len(t) : CallOK(loaded, t[i], r) /\ (i > 1 => Begins(t[i]))
  BY <1>1, <1>3 DEF CallsOK
<1> QED  BY <1>1, <1>4, <1>5 DEF CallsOK

(* A stack whose call on top has come to its next access. *)
Stepped(s, access) == <<[Head(s) EXCEPT !.do = access]>> \o Tail(s)

LEMMA AdvancedGood ==
  ASSUME NEW s \in Seq(Frame), s # <<>>,
         NEW access \in {"set", "load", "store", "look", "type", "meta", "act"},
         NEW r, NEW loaded, CallsOK(loaded, s, r),
         \/ s[1].call = "write" /\ access \in {"load", "store"}
         \/ s[1].call \in Lookers /\ access \in {"meta", "act"}
         \/ s[1].call \in TypeLookers /\ access = "act"
  PROVE  LET t == Stepped(s, access)
         IN /\ t \in Seq(Frame) /\ t # <<>>
            /\ t[1] = [s[1] EXCEPT !.do = access]
            /\ CallsOK(loaded, t, r)
<1> DEFINE t == Stepped(s, access)
           a == [Head(s) EXCEPT !.do = access]
<1>1. Head(s) = s[1] /\ s[1] \in Frame /\ Tail(s) \in Seq(Frame) /\ Len(Tail(s)) = Len(s) - 1 /\ Len(s) \in Nat
      /\ Len(s) > 0 /\ \A i \in 1 .. Len(s) - 1 : Tail(s)[i] = s[i + 1]
  BY Stacks
<1>2. a \in Frame /\ a = [s[1] EXCEPT !.do = access]
  BY <1>1 DEF Frame
<1> HIDE DEF a
<1>3. <<a>> \in Seq(Frame) /\ Len(<<a>>) = 1 /\ <<a>>[1] = a
  BY <1>2
<1>4. /\ t \in Seq(Frame) /\ Len(t) = 1 + Len(Tail(s))
      /\ \A i \in 1 .. 1 + Len(Tail(s)) : t[i] = IF i <= 1 THEN <<a>>[i] ELSE Tail(s)[i - 1]
  BY <1>1, <1>3, ConcatProperties DEF a, Stepped
<1> HIDE DEF t
<1>5. t[1] = a
  BY <1>1, <1>3, <1>4
<1>6. ASSUME NEW i \in 2 .. Len(s)
      PROVE  t[i] = s[i]
  <2>1. t[i] = Tail(s)[i - 1] /\ i - 1 \in 1 .. Len(s) - 1 /\ (i - 1) + 1 = i
    BY <1>1, <1>4
  <2> QED  BY <2>1, <1>1
<1>7. t # <<>>
  BY <1>1, <1>4
<1>8. t[1] = [s[1] EXCEPT !.do = access]
  BY <1>2, <1>5
<1>9. Len(t) = Len(s)
  BY <1>1, <1>4
<1>10. CallsOK(loaded, t, r)
  BY <1>4, <1>6, <1>8, <1>9, AdvancedOK
<1> QED  BY <1>4, <1>7, <1>8, <1>10 DEF t

LEMMA Returned ==
  ASSUME NEW s \in Seq(Frame), s # <<>>, NEW more \in Seq(Frame), NEW t, t = more \o Tail(s)
  PROVE  /\ t \in Seq(Frame) /\ Len(t) = Len(more) + Len(s) - 1
         /\ \A i \in 1 .. Len(more) : t[i] = more[i]
         /\ \A i \in 1 .. Len(s) - 1 : t[Len(more) + i] = s[i + 1]
<1>1. Tail(s) \in Seq(Frame) /\ Len(Tail(s)) = Len(s) - 1 /\ Len(s) \in Nat /\ Len(s) > 0
      /\ \A i \in 1 .. Len(s) - 1 : Tail(s)[i] = s[i + 1]
  BY Stacks
<1>2. Len(more) \in Nat
  BY LenProperties
<1>3. /\ t \in Seq(Frame) /\ Len(t) = Len(more) + Len(Tail(s))
      /\ \A i \in 1 .. Len(more) + Len(Tail(s)) :
           t[i] = IF i <= Len(more) THEN more[i] ELSE Tail(s)[i - Len(more)]
  BY <1>1, ConcatProperties
<1>4. ASSUME NEW i \in 1 .. Len(s) - 1
      PROVE  t[Len(more) + i] = s[i + 1]
  <2>1. t[Len(more) + i] = Tail(s)[(Len(more) + i) - Len(more)]
    BY <1>1, <1>2, <1>3
  <2>2. (Len(more) + i) - Len(more) = i
    BY <1>2
  <2> QED  BY <1>1, <2>1, <2>2
<1> QED  BY <1>1, <1>2, <1>3, <1>4

(* The stack below a call. *)
LEMMA StackTail1 ==
  ASSUME NEW s, NEW t, NEW r, StackOK(s, r), Len(s) = 1, Len(t) = 0,
         \A i \in 1 .. 0 : t[i] = s[i + 1]
  PROVE  StackOK(t, r)
  BY DEF StackOK, Writes, WritesLast, Tells, Tail1, Single

LEMMA StackTail2 ==
  ASSUME NEW s, NEW t, NEW r, StackOK(s, r), Len(s) = 2, Len(t) = 1,
         \A i \in 1 .. 1 : t[i] = s[i + 1]
  PROVE  StackOK(t, r)
<1>1. t[1] = s[2]
  OBVIOUS
<1> QED  BY <1>1 DEF StackOK, Writes, WritesLast, Tells, Tail1, Single

LEMMA StackTail3 ==
  ASSUME NEW s, NEW t, NEW r, StackOK(s, r), Len(s) = 3, Len(t) = 2,
         \A i \in 1 .. 2 : t[i] = s[i + 1]
  PROVE  StackOK(t, r)
<1>1. t[1] = s[2] /\ t[2] = s[3]
  OBVIOUS
<1> QED  BY <1>1 DEF StackOK, Writes, WritesLast, Tells, Tail1, Single

LEMMA StackTail4 ==
  ASSUME NEW s, NEW t, NEW r, StackOK(s, r), Len(s) = 4, Len(t) = 3,
         \A i \in 1 .. 3 : t[i] = s[i + 1]
  PROVE  StackOK(t, r)
<1>1. t[1] = s[2] /\ t[2] = s[3] /\ t[3] = s[4]
  OBVIOUS
<1> QED  BY <1>1 DEF StackOK, Writes, WritesLast, Tells, Tail1, Single

LEMMA StackTail5 ==
  ASSUME NEW s, NEW t, NEW r, StackOK(s, r), Len(s) = 5, Len(t) = 4,
         \A i \in 1 .. 4 : t[i] = s[i + 1]
  PROVE  StackOK(t, r)
<1>1. t[1] = s[2] /\ t[2] = s[3] /\ t[3] = s[4] /\ t[4] = s[5]
  OBVIOUS
<1> QED  BY <1>1 DEF StackOK, Writes, WritesLast, Tells, Tail1, Single

LEMMA StackTail ==
  ASSUME NEW s, NEW t, NEW r, StackOK(s, r), Len(s) \in Nat, Len(s) > 0,
         Len(t) = Len(s) - 1, \A i \in 1 .. Len(t) : t[i] = s[i + 1]
  PROVE  StackOK(t, r)
<1>1. Len(s) \in 1 .. 5
  BY DEF StackOK
<1>2. CASE Len(s) = 1
  <2>1. Len(t) = 0
    BY <1>2
  <2>2. \A i \in 1 .. 0 : t[i] = s[i + 1]
    BY <2>1
  <2> QED  BY <1>2, <2>1, <2>2, StackTail1
<1>3. CASE Len(s) = 2
  <2>1. Len(t) = 1
    BY <1>3
  <2>2. \A i \in 1 .. 1 : t[i] = s[i + 1]
    BY <2>1
  <2> QED  BY <1>3, <2>1, <2>2, StackTail2
<1>4. CASE Len(s) = 3
  <2>1. Len(t) = 2
    BY <1>4
  <2>2. \A i \in 1 .. 2 : t[i] = s[i + 1]
    BY <2>1
  <2> QED  BY <1>4, <2>1, <2>2, StackTail3
<1>5. CASE Len(s) = 4
  <2>1. Len(t) = 3
    BY <1>5
  <2>2. \A i \in 1 .. 3 : t[i] = s[i + 1]
    BY <2>1
  <2> QED  BY <1>5, <2>1, <2>2, StackTail4
<1>6. CASE Len(s) = 5
  <2>1. Len(t) = 4
    BY <1>6
  <2>2. \A i \in 1 .. 4 : t[i] = s[i + 1]
    BY <2>1
  <2> QED  BY <1>6, <2>1, <2>2, StackTail5
<1> QED  BY <1>1, <1>2, <1>3, <1>4, <1>5, <1>6

(* A call that returns leaves a stack to the one below it, and the last one *)
(* leaves nothing. *)
LEMMA Popped ==
  ASSUME NEW s \in Seq(Frame), s # <<>>, NEW r, NEW loaded, CallsOK(loaded, s, r),
         NEW t, t = <<>> \o Tail(s)
  PROVE  /\ CallsOK(loaded, t, r) /\ t \in Seq(Frame) /\ Len(t) = Len(s) - 1
         /\ \A i \in 1 .. Len(t) : t[i] = s[i + 1]
         /\ t # <<>> => Begins(t[1]) \/ t[1].call = "put"
<1>1. s[1] \in Frame /\ Len(s) \in Nat /\ Len(s) > 0
  BY Stacks
<1>2. t \in Seq(Frame) /\ Len(t) = Len(s) - 1 /\ \A i \in 1 .. Len(t) : t[i] = s[i + 1]
  <2>1. <<>> \in Seq(Frame) /\ Len(<<>>) = 0
    OBVIOUS
  <2> QED  BY <2>1, <1>1, Returned
<1>3. \A i \in 1 .. Len(t) : CallOK(loaded, t[i], r) /\ Begins(t[i])
  BY <1>1, <1>2 DEF CallsOK
<1>4. StackOK(t, r)
  BY <1>1, <1>2, StackTail DEF CallsOK
<1>5. t # <<>> => Begins(t[1])
  BY <1>2, <1>3, Stacks
<1> QED  BY <1>1, <1>2, <1>3, <1>4, <1>5 DEF CallsOK

(* ------------------------- what decisions leave ------------------------- *)

HalfCall(x, t) == [call |-> "half", do |-> "type", pos |-> x, type |-> t, meta |-> 0]

SwingCall(x, t) == [call |-> "swing", do |-> "look", pos |-> x, type |-> t, meta |-> 0]

SoakCall(x, n) == [call |-> "soak", do |-> "type", pos |-> x, type |-> BLOCK.AIR, meta |-> n]

HoeCall(x) == [call |-> "hoe", do |-> "type", pos |-> x, type |-> BLOCK.AIR, meta |-> 0]

PlacedCall(x, access) == [call |-> "placed", do |-> access, pos |-> x, type |-> BLOCK.AIR, meta |-> 0]

PutCall(x, t, m) == [call |-> "put", do |-> "act", pos |-> x, type |-> t, meta |-> m]

(* The call on top has read nothing yet. *)
Fresh(s, r) ==
  s # <<>> => \/ s[1].do \in {"look", "type", "set"}
              \/ s[1].do = "act" /\ s[1].call \notin Lookers /\ ~Reads(s[1], r)

Good(loaded, s, r) == s \in Seq(Frame) /\ CallsOK(loaded, s, r) /\ Fresh(s, r)

LEMMA FramesToo ==
  ASSUME NEW x \in Positions, NEW t \in Int, NEW m \in Int
  PROVE  /\ HalfCall(x, t) \in Frame /\ SwingCall(x, t) \in Frame /\ SoakCall(x, m) \in Frame
         /\ HoeCall(x) \in Frame /\ PlacedCall(x, "type") \in Frame /\ PlacedCall(x, "act") \in Frame
         /\ PutCall(x, t, m) \in Frame
  BY Air0 DEF Frame, HalfCall, SwingCall, SoakCall, HoeCall, PlacedCall, PutCall, Lookers, TypeLookers

LEMMA WriteOK ==
  ASSUME NEW loaded, NEW r, NEW x \in TouchedIn(loaded, r), NEW t, NEW m
  PROVE  /\ CallOK(loaded, WriteCall(x, t, m), r) /\ Begins(WriteCall(x, t, m))
         /\ CallOK(loaded, TellCall(x), r) /\ Begins(TellCall(x))
  BY DEF CallOK, Begins, WriteCall, TellCall, Lookers, TypeLookers

LEMMA UseOK ==
  ASSUME NEW loaded, NEW r, r.pos \in TouchedIn(loaded, r)
  PROVE  CallOK(loaded, UseCall(r.pos), r) /\ Begins(UseCall(r.pos))
  BY DEF CallOK, Begins, UseCall, Lookers, TypeLookers

LEMMA HalfOK ==
  ASSUME NEW loaded, NEW r, NEW x \in Near(r.pos) \ {r.pos}, x \in TouchedIn(loaded, r), NEW t \in Doors
  PROVE  /\ r.op = "dig" => CallOK(loaded, HalfCall(x, t), r)
         /\ CallOK(loaded, SwingCall(x, t), r)
  BY DEF CallOK, HalfCall, SwingCall, Lookers, TypeLookers

(* Stacks written out. *)
LEMMA Good0 ==
  ASSUME NEW loaded, NEW r
  PROVE  Good(loaded, <<>>, r)
  BY DEF Good, CallsOK, StackOK, Fresh

LEMMA Good1 ==
  ASSUME NEW loaded, NEW r \in Requests, r.op \in {"dig", "place"}, NEW a \in Frame,
         CallOK(loaded, a, r), a.call \in Single, Fresh(<<a>>, r)
  PROVE  Good(loaded, <<a>>, r)
  BY DEF Good, CallsOK, StackOK

LEMMA Good2 ==
  ASSUME NEW loaded, loaded \subseteq Positions, NEW r \in Requests, r.op \in {"dig", "place"},
         NEW x \in TouchedIn(loaded, r), NEW t \in Int, NEW m \in Int
  PROVE  Good(loaded, <<WriteCall(x, t, m), TellCall(x)>>, r)
<1> DEFINE a == WriteCall(x, t, m)
           b == TellCall(x)
           s == <<a, b>>
<1>1. a \in Frame /\ b \in Frame /\ CallOK(loaded, a, r) /\ CallOK(loaded, b, r) /\ Begins(b)
  BY Frames, Places_, WriteOK
<1>2. s \in Seq(Frame) /\ Len(s) = 2 /\ s[1] = a /\ s[2] = b
  BY <1>1
<1>3. a.call = "write" /\ a.do = "set" /\ b.call = "tell" /\ b.pos = a.pos
  BY DEF WriteCall, TellCall
<1> HIDE DEF a, b, s
<1>4. StackOK(s, r)
  BY <1>2, <1>3 DEF StackOK, Writes
<1>5. CallsOK(loaded, s, r)
  BY <1>1, <1>2, <1>4 DEF CallsOK
<1>6. Good(loaded, s, r)
  BY <1>2, <1>3, <1>5 DEF Good, Fresh
<1> QED  BY <1>6 DEF s, a, b

LEMMA Good3 ==
  ASSUME NEW loaded, loaded \subseteq Positions, NEW r \in Requests, r.op \in {"dig", "place"},
         NEW x \in TouchedIn(loaded, r), NEW t \in Int, NEW m \in Int,
         NEW c \in Frame, CallOK(loaded, c, r), Begins(c), c.call \in Tail1
  PROVE  Good(loaded, <<WriteCall(x, t, m), TellCall(x), c>>, r)
<1> DEFINE a == WriteCall(x, t, m)
           b == TellCall(x)
           s == <<a, b, c>>
<1>1. a \in Frame /\ b \in Frame /\ CallOK(loaded, a, r) /\ CallOK(loaded, b, r) /\ Begins(b)
  BY Frames, Places_, WriteOK
<1>2. s \in Seq(Frame) /\ Len(s) = 3 /\ s[1] = a /\ s[2] = b /\ s[3] = c
  BY <1>1
<1>3. a.call = "write" /\ a.do = "set" /\ b.call = "tell" /\ b.pos = a.pos
  BY DEF WriteCall, TellCall
<1> HIDE DEF a, b, s
<1>4. StackOK(s, r)
  BY <1>2, <1>3 DEF StackOK, Writes
<1>5. CallsOK(loaded, s, r)
  BY <1>1, <1>2, <1>4 DEF CallsOK
<1>6. Good(loaded, s, r)
  BY <1>2, <1>3, <1>5 DEF Good, Fresh
<1> QED  BY <1>6 DEF s, a, b

LEMMA GoodHalf ==
  ASSUME NEW loaded, loaded \subseteq Positions, NEW r \in Requests, r.op \in {"dig", "place"},
         NEW h \in Frame, CallOK(loaded, h, r), h.call \in {"half", "swing"}, h.do \in {"look", "type"},
         NEW t \in Int, NEW m \in Int
  PROVE  Good(loaded, <<h, WriteCall(r.pos, t, m), TellCall(r.pos)>>, r)
<1> DEFINE a == WriteCall(r.pos, t, m)
           b == TellCall(r.pos)
           s == <<h, a, b>>
<1>0. r.pos \in Positions /\ r.pos \in TouchedIn(loaded, r)
  BY Places_
<1>1. a \in Frame /\ b \in Frame /\ CallOK(loaded, a, r) /\ CallOK(loaded, b, r) /\ Begins(b) /\ Begins(a)
  BY <1>0, Frames, WriteOK
<1>2. s \in Seq(Frame) /\ Len(s) = 3 /\ s[1] = h /\ s[2] = a /\ s[3] = b
  BY <1>1
<1>3. a.call = "write" /\ a.pos = r.pos /\ b.call = "tell" /\ b.pos = a.pos
  BY DEF WriteCall, TellCall
<1> HIDE DEF a, b, s
<1>4. StackOK(s, r)
  <2>1. h.pos \in Near(r.pos) \ {r.pos}
    BY DEF CallOK
  <2> QED  BY <1>2, <1>3, <2>1 DEF StackOK, Writes, WritesLast
<1>5. CallsOK(loaded, s, r)
  BY <1>1, <1>2, <1>4 DEF CallsOK
<1>6. Good(loaded, s, r)
  BY <1>2, <1>3, <1>5 DEF Good, Fresh
<1> QED  BY <1>6 DEF s, a, b

LEMMA GoodHalfUse ==
  ASSUME NEW loaded, loaded \subseteq Positions, NEW r \in Requests, r.op \in {"dig", "place"},
         NEW h \in Frame, CallOK(loaded, h, r), h.call = "half", h.do = "type",
         NEW t \in Int, NEW m \in Int
  PROVE  Good(loaded, <<h, WriteCall(r.pos, t, m), TellCall(r.pos), UseCall(r.pos)>>, r)
<1> DEFINE a == WriteCall(r.pos, t, m)
           b == TellCall(r.pos)
           c == UseCall(r.pos)
           s == <<h, a, b, c>>
<1>0. r.pos \in Positions /\ r.pos \in TouchedIn(loaded, r)
  BY Places_
<1>1. /\ a \in Frame /\ b \in Frame /\ c \in Frame
      /\ CallOK(loaded, a, r) /\ CallOK(loaded, b, r) /\ CallOK(loaded, c, r)
      /\ Begins(b) /\ Begins(a) /\ Begins(c)
  BY <1>0, Frames, WriteOK, UseOK
<1>2. s \in Seq(Frame) /\ Len(s) = 4 /\ s[1] = h /\ s[2] = a /\ s[3] = b /\ s[4] = c
  BY <1>1
<1>3. a.call = "write" /\ a.pos = r.pos /\ b.call = "tell" /\ b.pos = a.pos /\ c.call = "interact"
  BY DEF WriteCall, TellCall, UseCall
<1> HIDE DEF a, b, c, s
<1>4. StackOK(s, r)
  <2>1. h.pos \in Near(r.pos) \ {r.pos}
    BY DEF CallOK
  <2> QED  BY <1>2, <1>3, <2>1 DEF StackOK, Writes, WritesLast
<1>5. CallsOK(loaded, s, r)
  BY <1>1, <1>2, <1>4 DEF CallsOK
<1>6. Good(loaded, s, r)
  BY <1>2, <1>3, <1>5 DEF Good, Fresh
<1> QED  BY <1>6 DEF s, a, b, c

LEMMA DoorsUsed ==
  /\ \A t \in Doors : IsInteractable(t) /\ t \in Int /\ t # BLOCK.AIR /\ t # BLOCK.SPONGE /\ t # BLOCK.TRAPDOOR
                      /\ t # BLOCK.INVALID
  /\ BLOCK.DOOR_WOOD \in Doors
  BY DEF Doors, IsInteractable, BLOCK

(* What HandlePlayerDigging does after its look. *)
LEMMA DigLeaves ==
  ASSUME NEW loaded, loaded \subseteq Positions, NEW r \in Requests, r.op = "dig",
         NEW type \in Int, NEW meta \in 0 .. 15
  PROVE  /\ Good(loaded, DigAfterLook(r, type, meta), r)
         /\ LET a == WriteCall(r.pos, BLOCK.AIR, 0)
                b == TellCall(r.pos)
                c == UseCall(r.pos)
                h == HalfCall(OtherDoorHalf(r.pos, meta), type)
                s == DigAfterLook(r, type, meta)
            IN IF ~Breaks(r, type) THEN s \in {<<>>, <<c>>}
               ELSE IF type \in Doors THEN s = <<h, a, b, c>>
               ELSE s \in {<<a, b>>, <<a, b, c>>}
<1> DEFINE a == WriteCall(r.pos, BLOCK.AIR, 0)
           b == TellCall(r.pos)
           c == UseCall(r.pos)
           h == HalfCall(OtherDoorHalf(r.pos, meta), type)
           s == DigAfterLook(r, type, meta)
<1>0. /\ r.pos \in Positions /\ r.pos \in TouchedIn(loaded, r)
      /\ OtherDoorHalf(r.pos, meta) \in Near(r.pos) \ {r.pos}
      /\ OtherDoorHalf(r.pos, meta) \in TouchedIn(loaded, r)
      /\ OtherDoorHalf(r.pos, meta) \in Positions
  BY Places_, Nearer, NearPositions
<1>1. /\ a \in Frame /\ b \in Frame /\ c \in Frame /\ h \in Frame
      /\ CallOK(loaded, c, r) /\ Begins(c) /\ (type \in Doors => CallOK(loaded, h, r))
  BY <1>0, Air0, Frames, FramesToo, UseOK, HalfOK
<1>2. c.call = "interact" /\ c.do = "look" /\ h.call = "half" /\ h.do = "type"
  BY DEF UseCall, HalfCall
<1>3. /\ PlaceBlockUpdate(r.pos, BLOCK.AIR, 0) = <<a, b>>
      /\ InteractWithBlock(r.pos) = <<c>>
      /\ AfterType("half", OtherDoorHalf(r.pos, meta), type, 0) = <<h>>
  BY Updates, Uses DEF AfterType, Call, HalfCall
<1>4. Good(loaded, <<a, b>>, r) /\ Good(loaded, <<a, b, c>>, r)
  BY <1>0, <1>1, <1>2, Air0, Good2, Good3 DEF Tail1
<1>5. type \in Doors => Good(loaded, <<h, a, b, c>>, r)
  BY <1>0, <1>1, <1>2, Air0, GoodHalfUse
<1>6. Good(loaded, <<c>>, r) /\ Good(loaded, <<>>, r)
  BY <1>1, <1>2, Good0, Good1 DEF Single, Fresh
<1>7. BreakBlock(r.pos, type, meta) = IF type \in Doors THEN <<h, a, b>> ELSE <<a, b>>
  <2>1. BreakBlock(r.pos, type, meta) = (IF type \in Doors THEN <<h>> ELSE <<>>) \o <<a, b>>
    BY <1>3 DEF BreakBlock
  <2> HIDE DEF a, b, h
  <2> QED  BY <2>1, Joined12, JoinedEmpty
<1>8. s = (IF Breaks(r, type) THEN BreakBlock(r.pos, type, meta) ELSE <<>>)
          \o (IF IsInteractable(type) THEN <<c>> ELSE <<>>)
  BY <1>3 DEF DigAfterLook
<1> HIDE DEF a, b, c, h, s
<1>9. CASE ~Breaks(r, type)
  <2>1. s \in {<<>>, <<c>>}
    BY <1>8, <1>9, JoinedEmpty
  <2> QED  BY <2>1, <1>6, <1>9 DEF a, b, c, h, s
<1>10. CASE Breaks(r, type) /\ type \in Doors
  <2>1. s = <<h, a, b, c>>
    <3>1. s = <<h, a, b>> \o <<c>>
      BY <1>7, <1>8, <1>10, DoorsUsed
    <3> QED  BY <3>1, Joined31
  <2> QED  BY <2>1, <1>5, <1>10 DEF a, b, c, h, s
<1>11. CASE Breaks(r, type) /\ type \notin Doors
  <2>1. s \in {<<a, b>>, <<a, b, c>>}
    <3>1. s = <<a, b>> \o (IF IsInteractable(type) THEN <<c>> ELSE <<>>)
      BY <1>7, <1>8, <1>11
    <3> QED  BY <3>1, Joined21, JoinedEmpty
  <2> QED  BY <2>1, <1>4, <1>11 DEF a, b, c, h, s
<1> QED  BY <1>9, <1>10, <1>11

LEMMA UpdateLeaves ==
  ASSUME NEW loaded, loaded \subseteq Positions, NEW r \in Requests, r.op \in {"dig", "place"},
         NEW x \in TouchedIn(loaded, r), NEW t \in Int, NEW m \in Int
  PROVE  Good(loaded, PlaceBlockUpdate(x, t, m), r)
  BY Updates, Good2

(* What InteractWithBlock does after its look. *)
LEMMA UseLeaves ==
  ASSUME NEW loaded, loaded \subseteq Positions, NEW r \in Requests, r.op \in {"dig", "place"},
         NEW type \in Int, NEW meta \in 0 .. 15
  PROVE  Good(loaded, UseAfterLook(r.pos, type, meta), r)
<1> DEFINE new == IF type \in {BLOCK.TRAPDOOR, BLOCK.DOOR_WOOD} THEN Toggled(meta) ELSE meta
           x == OtherDoorHalf(r.pos, new)
           h == SwingCall(x, type)
<1>0. new \in Int
  BY DEF Toggled
<1> HIDE DEF new
<1>1. /\ r.pos \in Positions /\ r.pos \in TouchedIn(loaded, r)
      /\ x \in Near(r.pos) \ {r.pos} /\ x \in TouchedIn(loaded, r) /\ x \in Positions
  BY <1>0, Places_, Nearer, NearPositions
<1>2. UseAfterLook(r.pos, type, meta) =
        (IF type = BLOCK.DOOR_WOOD THEN <<h>> ELSE <<>>) \o <<WriteCall(r.pos, type, new), TellCall(r.pos)>>
  BY Updates DEF UseAfterLook, AfterLook, Call, SwingCall, new
<1>3. CASE type = BLOCK.DOOR_WOOD
  <2>1. h \in Frame /\ CallOK(loaded, h, r)
    BY <1>1, <1>3, FramesToo, HalfOK, DoorsUsed
  <2>2. h.call = "swing" /\ h.do = "look"
    BY DEF SwingCall
  <2> HIDE DEF h
  <2>3. Good(loaded, <<h, WriteCall(r.pos, type, new), TellCall(r.pos)>>, r)
    BY <2>1, <2>2, <1>0, GoodHalf
  <2> QED  BY <1>2, <1>3, <2>3, Joined12
<1>4. CASE type # BLOCK.DOOR_WOOD
  <2>1. UseAfterLook(r.pos, type, meta) = <<WriteCall(r.pos, type, new), TellCall(r.pos)>>
    BY <1>2, <1>4, JoinedEmpty
  <2> QED  BY <2>1, <1>0, <1>1, Good2
<1> QED  BY <1>3, <1>4

(* What HandlePlayerBlockPlacement does after its look. *)
LEMMA PlaceLeaves ==
  ASSUME NEW loaded, loaded \subseteq Positions, NEW r \in Requests, r.op = "place",
         NEW type \in Int, NEW meta \in 0 .. 15
  PROVE  Good(loaded, PlaceAfterLook(r, type, meta), r)
<1>1. /\ r.pos \in Positions /\ r.pos \in TouchedIn(loaded, r)
      /\ Target(r) \in Positions /\ Target(r) \in TouchedIn(loaded, r)
      /\ IsDouble(r.item) => SecondHalf(r) \in Positions /\ SecondHalf(r) \in TouchedIn(loaded, r)
  BY Places_, RequestPositions
<1>2. Good(loaded, <<>>, r)
  BY Good0
<1>3. Good(loaded, InteractWithBlock(r.pos), r)
  <2> DEFINE c == UseCall(r.pos)
  <2>1. c \in Frame /\ CallOK(loaded, c, r)
    BY <1>1, Frames, UseOK, Air0
  <2>2. c.call = "interact" /\ c.do = "look"
    BY DEF UseCall
  <2> HIDE DEF c
  <2>3. Fresh(<<c>>, r) /\ c.call \in Single
    BY <2>2 DEF Fresh, Single
  <2>4. Good(loaded, <<c>>, r)
    BY <2>1, <2>3, Good1
  <2> QED  BY <2>4, Uses DEF c
<1>4. Good(loaded, PlaceBlockUpdate(r.pos, BLOCK.DOUBLE_SLAB, 0), r)
  <2>1. BLOCK.DOUBLE_SLAB \in Int
    BY DEF BLOCK
  <2> QED  BY <1>1, <2>1, UpdateLeaves
<1>5. Good(loaded, AfterType("hoe", r.pos, BLOCK.AIR, 0), r)
  <2> DEFINE c == HoeCall(r.pos)
  <2>1. c \in Frame
    BY <1>1, FramesToo, Air0
  <2>2. c.call = "hoe" /\ c.do = "type" /\ c.pos = r.pos
    BY DEF HoeCall
  <2> HIDE DEF c
  <2>3. CallOK(loaded, c, r)
    BY <1>1, <2>2 DEF CallOK, Lookers
  <2>4. Fresh(<<c>>, r) /\ c.call \in Single
    BY <2>2 DEF Fresh, Single
  <2>5. Good(loaded, <<c>>, r)
    BY <2>1, <2>3, <2>4, Good1
  <2> QED  BY <2>5 DEF c, HoeCall, AfterType, Call
<1>6. IsDouble(r.item) => Good(loaded, AfterType("placed", SecondHalf(r), BLOCK.AIR, 0), r)
  <2> SUFFICES ASSUME IsDouble(r.item) PROVE Good(loaded, AfterType("placed", SecondHalf(r), BLOCK.AIR, 0), r)
    OBVIOUS
  <2> DEFINE c == PlacedCall(SecondHalf(r), "type")
  <2>1. c \in Frame
    BY <1>1, FramesToo, Air0
  <2>2. c.call = "placed" /\ c.do = "type" /\ c.pos = SecondHalf(r)
    BY DEF PlacedCall
  <2> HIDE DEF c
  <2>3. CallOK(loaded, c, r)
    BY <1>1, <2>2 DEF CallOK, Lookers
  <2>4. Fresh(<<c>>, r) /\ c.call \in Single
    BY <2>2 DEF Fresh, Single
  <2>5. Good(loaded, <<c>>, r)
    BY <2>1, <2>3, <2>4, Good1
  <2> QED  BY <2>5 DEF c, PlacedCall, AfterType, Call
<1>7. ~IsDouble(r.item) => Good(loaded, Call("placed", "act", Target(r), BLOCK.AIR, 0), r)
  <2> SUFFICES ASSUME ~IsDouble(r.item) PROVE Good(loaded, Call("placed", "act", Target(r), BLOCK.AIR, 0), r)
    OBVIOUS
  <2> DEFINE c == PlacedCall(Target(r), "act")
  <2>1. c \in Frame
    BY <1>1, FramesToo, Air0
  <2>2. c.call = "placed" /\ c.do = "act" /\ c.pos = Target(r)
    BY DEF PlacedCall
  <2> HIDE DEF c
  <2>3. CallOK(loaded, c, r)
    BY <1>1, <2>2 DEF CallOK, Lookers
  <2>4. Fresh(<<c>>, r) /\ c.call \in Single
    BY <2>2 DEF Fresh, Single, Reads, Lookers
  <2>5. Good(loaded, <<c>>, r)
    BY <2>1, <2>3, <2>4, Good1
  <2> QED  BY <2>5 DEF c, PlacedCall, Call
<1> QED  BY <1>2, <1>3, <1>4, <1>5, <1>6, <1>7 DEF PlaceAfterLook

LEMMA HoeLeaves ==
  ASSUME NEW loaded, loaded \subseteq Positions, NEW r \in Requests, r.op = "place"
  PROVE  Good(loaded, PlaceBlockUpdate(r.pos, BLOCK.FARMLAND, 0), r) /\ Good(loaded, <<>>, r)
<1>1. r.pos \in TouchedIn(loaded, r) /\ BLOCK.FARMLAND \in Int
  BY Places_ DEF BLOCK
<1> QED  BY <1>1, UpdateLeaves, Good0

(* ---------------------------- what is placed ---------------------------- *)

LEMMA PlacedTypes ==
  ASSUME NEW id \in Int, NEW face \in Int, NEW beside \in Int
  PROVE  /\ PlacedType(id, face, beside) \in Int
         /\ PlacedType(id, face, beside) = BLOCK.SPONGE => id = BLOCK.SPONGE
         /\ IsDouble(id) => PlacedType(id, face, beside) \in {BLOCK.INVALID, BLOCK.DOOR_WOOD, BLOCK.DOOR_IRON, BLOCK.BED}
<1> DEFINE result == PlacedType(id, face, beside)
<1>1. CASE IsHoe(id)
  <2>1. /\ ~IsDouble(id) /\ ~IsDoorItem(id) /\ id # ITEM.BED /\ id > BLOCK.MAX
        /\ id \notin {ITEM.SEEDS_WHEAT, ITEM.REDSTONE, ITEM.SIGN, ITEM.SUGARCANE}
        /\ ~IsRepeater(id) /\ ~IsTorch(id)
    BY <1>1 DEF IsHoe, IsDouble, IsDoorItem, ITEM, IsRepeater, IsTorch, BLOCK
  <2>2. result = BLOCK.INVALID
    BY <1>1, <2>1 DEF PlacedType
  <2> QED  BY <2>1, <2>2 DEF BLOCK
<1>2. CASE ~IsHoe(id) /\ IsDouble(id)
  <2>1. /\ id \notin {ITEM.SEEDS_WHEAT, ITEM.REDSTONE, ITEM.SIGN, ITEM.SUGARCANE}
        /\ ~IsRepeater(id) /\ ~IsTorch(id)
        /\ id # BLOCK.SPONGE
        /\ IsDoorItem(id) \/ id = ITEM.BED
    BY <1>2 DEF IsDouble, IsDoorItem, ITEM, IsRepeater, IsTorch, BLOCK
  <2>2. result \in {BLOCK.INVALID, BLOCK.DOOR_WOOD, BLOCK.DOOR_IRON, BLOCK.BED}
    <3>1. id > BLOCK.MAX
      BY <2>1 DEF IsDoorItem, ITEM, BLOCK
    <3>2. result \in {BLOCK.INVALID,
             IF beside # BLOCK.AIR \/ face # Face.yPlus THEN BLOCK.INVALID
             ELSE IF id = ITEM.DOOR_WOOD THEN BLOCK.DOOR_WOOD
             ELSE IF id = ITEM.DOOR_IRON THEN BLOCK.DOOR_IRON
             ELSE BLOCK.BED}
      BY <1>2, <2>1, <3>1 DEF PlacedType
    <3> QED  BY <3>2
  <2> QED  BY <2>1, <2>2 DEF BLOCK
<1>3. CASE ~IsHoe(id) /\ ~IsDouble(id)
  <2>1. ~IsDoorItem(id) /\ id # ITEM.BED
    BY <1>3 DEF IsDouble
  <2>2. result \in {BLOCK.CROP_WHEAT, BLOCK.REDSTONE, BLOCK.SIGN, BLOCK.SIGN_WALL, BLOCK.SUGARCANE,
                    BLOCK.REDSTONE_REPEATER_OFF, BLOCK.INVALID, id}
    BY <1>3, <2>1 DEF PlacedType
  <2> QED  BY <1>3, <2>2 DEF BLOCK
<1> QED  BY <1>1, <1>2, <1>3

LEMMA SideMetas ==
  ASSUME NEW side \in Int, NEW m, NEW a \in 0 .. 15, NEW b \in 0 .. 15, NEW c \in 0 .. 15, NEW d \in 0 .. 15,
         m = <<a, b, c, d>>
  PROVE  BySide(side, m, 0) \in 0 .. 15
<1>1. CASE side \in 2 .. 5
  <2>1. BySide(side, m, 0) = m[side - 1]
    BY <1>1 DEF BySide, Face
  <2>2. side - 1 \in 1 .. 4
    BY <1>1
  <2> QED  BY <2>1, <2>2
<1>2. CASE side \notin 2 .. 5
  BY <1>2 DEF BySide, Face
<1> QED  BY <1>1, <1>2

LEMMA PlacedMetas ==
  ASSUME NEW id, NEW face \in Int, NEW yaw \in Int
  PROVE  PlacedMeta(id, 0, face, yaw) \in 0 .. 15
<1> DEFINE dir == GetPlayerOrientation(yaw)
           Metas == {BySide(face, <<2, 3, 4, 5>>, 0), GetSignOrientation(yaw), BySide(dir, <<3, 1, 2, 0>>, 0),
                     BySide(dir, <<2, 0, 1, 3>>, 0), BySide(dir, <<0, 2, 3, 1>>, 0), BySide(face, <<0, 1, 2, 3>>, 0),
                     BySide(dir, <<3, 2, 1, 0>>, 0), BySide(dir, <<3, 2, 5, 4>>, 0), BySide(face, <<4, 3, 2, 1>>, 0), 0}
<1>1. dir \in Int
  BY Orientations
<1>2. GetSignOrientation(yaw) \in 0 .. 15
  BY DEF GetSignOrientation
<1> HIDE DEF dir
<1>3. /\ 0 \in 0 .. 15 /\ 1 \in 0 .. 15 /\ 2 \in 0 .. 15 /\ 3 \in 0 .. 15 /\ 4 \in 0 .. 15 /\ 5 \in 0 .. 15
  OBVIOUS
<1>5. BySide(face, <<2, 3, 4, 5>>, 0) \in 0 .. 15
  BY <1>1, <1>3, SideMetas
<1>6. BySide(face, <<0, 1, 2, 3>>, 0) \in 0 .. 15
  BY <1>1, <1>3, SideMetas
<1>7. BySide(face, <<4, 3, 2, 1>>, 0) \in 0 .. 15
  BY <1>1, <1>3, SideMetas
<1>8. BySide(dir, <<3, 1, 2, 0>>, 0) \in 0 .. 15
  BY <1>1, <1>3, SideMetas
<1>9. BySide(dir, <<2, 0, 1, 3>>, 0) \in 0 .. 15
  BY <1>1, <1>3, SideMetas
<1>10. BySide(dir, <<0, 2, 3, 1>>, 0) \in 0 .. 15
  BY <1>1, <1>3, SideMetas
<1>11. BySide(dir, <<3, 2, 1, 0>>, 0) \in 0 .. 15
  BY <1>1, <1>3, SideMetas
<1>12. BySide(dir, <<3, 2, 5, 4>>, 0) \in 0 .. 15
  BY <1>1, <1>3, SideMetas
<1>4. PlacedMeta(id, 0, face, yaw) \in Metas
  BY DEF PlacedMeta, dir
<1> QED  BY <1>2, <1>3, <1>4, <1>5, <1>6, <1>7, <1>8, <1>9, <1>10, <1>11, <1>12

(* What GetPlacedBlock does after its look at the block beside. *)
LEMMA PlacedLeaves ==
  ASSUME NEW loaded, loaded \subseteq Positions, NEW r \in Requests, r.op = "place",
         NEW type \in Int, NEW meta \in 0 .. 15, type = BLOCK.SPONGE => r.item = BLOCK.SPONGE
  PROVE  /\ Good(loaded, Placed(r, type, meta), r)
         /\ Placed(r, type, meta) =
              IF IsDouble(r.item) /\ type # BLOCK.INVALID
              THEN <<WriteCall(SecondHalf(r), type, AsTop(meta)), TellCall(SecondHalf(r)), PutCall(Target(r), type, meta)>>
              ELSE <<PutCall(Target(r), type, meta)>>
<1> DEFINE c == PutCall(Target(r), type, meta)
           a == WriteCall(SecondHalf(r), type, AsTop(meta))
           b == TellCall(SecondHalf(r))
<1>1. /\ Target(r) \in Positions /\ Target(r) \in TouchedIn(loaded, r)
      /\ IsDouble(r.item) => SecondHalf(r) \in Positions /\ SecondHalf(r) \in TouchedIn(loaded, r)
      /\ AsTop(meta) \in Int
  BY Places_, RequestPositions DEF AsTop
<1>2. c \in Frame
  BY <1>1, FramesToo
<1>3. c.call = "put" /\ c.do = "act" /\ c.pos = Target(r) /\ c.type = type
  BY DEF PutCall
<1>4. Placed(r, type, meta) =
        (IF IsDouble(r.item) /\ type # BLOCK.INVALID THEN <<a, b>> ELSE <<>>) \o <<c>>
  BY Updates DEF Placed, PutCall, Call
<1> HIDE DEF c
<1>5. CallOK(loaded, c, r) /\ Begins(c) /\ c.call \in Single /\ c.call \in Tail1 /\ Fresh(<<c>>, r)
  BY <1>1, <1>3 DEF CallOK, Begins, Single, Tail1, Fresh, Lookers, TypeLookers, Reads
<1>6. CASE IsDouble(r.item) /\ type # BLOCK.INVALID
  <2>1. Good(loaded, <<a, b, c>>, r)
    BY <1>1, <1>2, <1>5, <1>6, Good3
  <2> HIDE DEF a, b
  <2>2. Placed(r, type, meta) = <<a, b, c>>
    BY <1>4, <1>6, Joined21
  <2> QED  BY <2>1, <2>2, <1>6 DEF a, b, c
<1>7. CASE ~(IsDouble(r.item) /\ type # BLOCK.INVALID)
  <2>1. Good(loaded, <<c>>, r)
    BY <1>2, <1>5, Good1
  <2>2. Placed(r, type, meta) = <<c>>
    BY <1>4, <1>7, JoinedEmpty
  <2> QED  BY <2>1, <2>2, <1>7 DEF c
<1> QED  BY <1>6, <1>7

(* Every nonempty set of naturals has a least element. *)
LEMMA LeastNumber ==
  ASSUME NEW S \in SUBSET Nat, S # {}
  PROVE  Min(S) \in S /\ \A k \in S : Min(S) <= k
<1> DEFINE R == OpToRel(<, Nat)
<1>1. \E m \in S : \A k \in S : <<k, m>> \notin R
  <2>1. IsWellFoundedOn(R, Nat)
    BY NatLessThanWellFounded
  <2> HIDE DEF R
  <2> QED  BY <2>1, WFMin
<1>2. \A k, m \in Nat : k < m => <<k, m>> \in R
  BY DEF OpToRel
<1> HIDE DEF R
<1>3. PICK m \in S : \A k \in S : <<k, m>> \notin R
  BY <1>1
<1>4. \A k \in S : ~(k < m)
  BY <1>2, <1>3
<1>5. \A k \in S : m <= k
  BY <1>4
<1> QED  BY <1>5 DEF Min

(* The next cell of the loops is a cell around the sponge. *)
LEMMA NextCell ==
  ASSUME NEW x, NEW n \in Nat
  PROVE  \/ SoakFrom(x, n) = <<>>
         \/ \E i \in n .. LastCell : Cell(x, i) \in DOMAIN world /\ SoakFrom(x, n) = <<SoakCall(Cell(x, i), i)>>
<1> DEFINE cells == {i \in n .. LastCell : Cell(x, i) \in DOMAIN world}
<1>1. CASE cells = {}
  BY <1>1 DEF SoakFrom
<1>2. CASE cells # {}
  <2>1. SoakFrom(x, n) = AfterType("soak", Cell(x, Min(cells)), BLOCK.AIR, Min(cells))
    BY <1>2 DEF SoakFrom
  <2>2. Min(cells) \in cells
    <3>1. cells \in SUBSET Nat
      OBVIOUS
    <3> HIDE DEF cells
    <3> QED  BY <3>1, <1>2, LeastNumber
  <2> QED  BY <2>1, <2>2 DEF AfterType, Call, SoakCall
<1> QED  BY <1>1, <1>2

LEMMA CellAround ==
  ASSUME NEW x \in Positions, NEW i \in 0 .. LastCell
  PROVE  Cell(x, i) \in Positions /\ \A k \in 1 .. 3 : Cell(x, i)[k] - x[k] \in -2 .. 2
<1>1. PICK a \in -2 .. 2, b \in -2 .. 2, c \in -2 .. 2 :
        a = (i \div 25) - 2 /\ b = (i % 5) - 2 /\ c = ((i \div 5) % 5) - 2
  BY DEF LastCell
<1>2. Cell(x, i) = Move(x, a, b, c)
  BY <1>1 DEF Cell
<1> HIDE <1>1
<1>3. PICK y : y = Cell(x, i)
  OBVIOUS
<1>4. y \in Positions /\ y[1] = x[1] + a /\ y[2] = x[2] + b /\ y[3] = x[3] + c
  BY <1>2, <1>3, Moves
<1>5. \A k \in 1 .. 3 : k = 1 \/ k = 2 \/ k = 3
  OBVIOUS
<1>6. y[1] - x[1] \in -2 .. 2 /\ y[2] - x[2] \in -2 .. 2 /\ y[3] - x[3] \in -2 .. 2
  BY <1>4, Coordinates
<1>7. \A k \in 1 .. 3 : y[k] - x[k] \in -2 .. 2
  BY <1>5, <1>6
<1> QED  BY <1>3, <1>4, <1>7

LEMMA SoakLeaves ==
  ASSUME TypeOK, NEW r \in Requests, r.op = "place", r.item = BLOCK.SPONGE, NEW n \in Nat
  PROVE  \/ SoakFrom(Target(r), n) = <<>>
         \/ \E c \in Frame : /\ SoakFrom(Target(r), n) = <<c>>
                             /\ c.call = "soak" /\ c.do = "type"
                             /\ CallOK(DOMAIN world, c, r)
<1>1. CASE \E i \in n .. LastCell : Cell(Target(r), i) \in DOMAIN world
                                    /\ SoakFrom(Target(r), n) = <<SoakCall(Cell(Target(r), i), i)>>
  <2>1. PICK i \in n .. LastCell : Cell(Target(r), i) \in DOMAIN world
                                    /\ SoakFrom(Target(r), n) = <<SoakCall(Cell(Target(r), i), i)>>
    BY <1>1
  <2> DEFINE y == Cell(Target(r), i)
             c == SoakCall(y, i)
  <2>2. i \in 0 .. LastCell /\ i \in Int
    BY DEF LastCell
  <2>3. Target(r) \in Positions
    BY RequestPositions
  <2>4. y \in Positions /\ \A k \in 1 .. 3 : y[k] - Target(r)[k] \in -2 .. 2
    BY <2>2, <2>3, CellAround
  <2>5. y \in PlacesIn(DOMAIN world, r)
    BY <2>1, <2>4 DEF PlacesIn
  <2>6. y \in TouchedIn(DOMAIN world, r)
    BY <2>5, Places_ DEF TypeOK
  <2>7. c \in Frame
    BY <2>2, <2>4, FramesToo
  <2>8. c.call = "soak" /\ c.do = "type" /\ c.pos = y /\ c.meta = i
    BY DEF SoakCall
  <2>9. SoakFrom(Target(r), n) = <<c>>
    BY <2>1
  <2> HIDE DEF c, y
  <2>10. CallOK(DOMAIN world, c, r)
    BY <2>2, <2>6, <2>8 DEF CallOK, Lookers
  <2> QED  BY <2>7, <2>8, <2>9, <2>10
<1> QED  BY <1>1, NextCell

(* An update, if any, and then the rest of the loops. *)
LEMMA SoakedLeaves ==
  ASSUME TypeOK, NEW r \in Requests, r.op = "place", r.item = BLOCK.SPONGE, NEW n \in Nat,
         NEW x \in TouchedIn(DOMAIN world, r), NEW t \in Int
  PROVE  /\ Good(DOMAIN world, <<>> \o SoakFrom(Target(r), n), r)
         /\ Good(DOMAIN world, PlaceBlockUpdate(x, t, 0) \o SoakFrom(Target(r), n), r)
<1> DEFINE a == WriteCall(x, t, 0)
           b == TellCall(x)
<1>0. DOMAIN world \subseteq Positions
  BY DEF TypeOK
<1>1. PlaceBlockUpdate(x, t, 0) = <<a, b>>
  BY Updates
<1>2. Good(DOMAIN world, <<a, b>>, r) /\ Good(DOMAIN world, <<>>, r)
  BY <1>0, Good0, Good2
<1>3. CASE SoakFrom(Target(r), n) = <<>>
  <2> HIDE DEF a, b
  <2> QED  BY <1>1, <1>2, <1>3, JoinedEmpty
<1>4. ASSUME NEW c \in Frame, SoakFrom(Target(r), n) = <<c>>, c.call = "soak", c.do = "type",
             CallOK(DOMAIN world, c, r)
      PROVE  /\ Good(DOMAIN world, <<>> \o SoakFrom(Target(r), n), r)
             /\ Good(DOMAIN world, PlaceBlockUpdate(x, t, 0) \o SoakFrom(Target(r), n), r)
  <2>1. Begins(c) /\ c.call \in Tail1 /\ c.call \in Single /\ Fresh(<<c>>, r)
    BY <1>4 DEF Begins, Tail1, Single, Fresh, Lookers
  <2>2. Good(DOMAIN world, <<c>>, r)
    BY <1>4, <2>1, Good1
  <2>3. Good(DOMAIN world, <<a, b, c>>, r)
    BY <1>0, <1>4, <2>1, Good3
  <2> HIDE DEF a, b
  <2>4. <<>> \o <<c>> = <<c>> /\ <<a, b>> \o <<c>> = <<a, b, c>>
    BY JoinedEmpty, Joined21
  <2> QED  BY <1>1, <1>4, <2>2, <2>3, <2>4
<1> QED  BY <1>3, <1>4, SoakLeaves

LEMMA PutLeaves ==
  ASSUME TypeOK, NEW r \in Requests, r.op = "place", NEW type \in Int, NEW meta \in Int,
         type = BLOCK.SPONGE => r.item = BLOCK.SPONGE
  PROVE  Good(DOMAIN world, Put(Target(r), type, meta), r)
<1>1. Target(r) \in TouchedIn(DOMAIN world, r) /\ DOMAIN world \subseteq Positions
  BY Places_ DEF TypeOK
<1>2. CASE type = BLOCK.SPONGE
  BY <1>1, <1>2, SoakedLeaves, Air0 DEF Put, PlaceSponge
<1>3. CASE type # BLOCK.SPONGE
  BY <1>1, <1>3, UpdateLeaves DEF Put
<1> QED  BY <1>2, <1>3

(* The calls that come to a decision about the whole packet are the last ones. *)
LEMMA Last ==
  ASSUME NEW s \in Seq(Frame), s # <<>>, NEW r, NEW loaded, CallsOK(loaded, s, r),
         s[1].call \in {"dig", "interact", "place", "hoe", "placed", "put", "soak"},
         NEW more \in Seq(Frame), NEW t, t = more \o Tail(s)
  PROVE  t = more
<1>1. Len(s) = 1
  BY DEF CallsOK, StackOK, Writes, Tells
<1>2. Tail(s) \in Seq(Frame) /\ Len(Tail(s)) = 0
  BY <1>1, Stacks
<1>3. Tail(s) = <<>>
  BY <1>2, EmptySeq
<1>4. more \o <<>> = more
  BY ConcatEmptySeq
<1> QED  BY <1>3, <1>4

LEMMA Shifted3 ==
  ASSUME NEW s, NEW t, NEW r, Len(s) = 3, Len(t) = 4, \A i \in 2 .. Len(s) : t[i + 1] = s[i],
         t[1].call = "write", t[2].call = "tell", t[1].pos = s[1].pos, t[2].pos = s[1].pos,
         WritesLast(s, r, 2)
  PROVE  StackOK(t, r)
<1>1. t[3] = s[2] /\ t[4] = s[3]
  OBVIOUS
<1> QED  BY <1>1 DEF StackOK, Writes, WritesLast

LEMMA Shifted4 ==
  ASSUME NEW s, NEW t, NEW r, Len(s) = 4, Len(t) = 5, \A i \in 2 .. Len(s) : t[i + 1] = s[i],
         t[1].call = "write", t[2].call = "tell", t[1].pos = s[1].pos, t[2].pos = s[1].pos,
         WritesLast(s, r, 2), s[4].call = "interact"
  PROVE  StackOK(t, r)
<1>1. t[3] = s[2] /\ t[4] = s[3] /\ t[5] = s[4]
  OBVIOUS
<1> QED  BY <1>1 DEF StackOK, Writes, WritesLast

(* In t the call on top of s has been replaced by two. *)
Doubled(s, t, a, b) ==
  Len(t) = Len(s) + 1 /\ t[1] = a /\ t[2] = b /\ \A i \in 2 .. Len(s) : t[i + 1] = s[i]

(* The other half of a door is written before the block of the packet. *)
LEMMA HalfWritten ==
  ASSUME NEW loaded, loaded \subseteq Positions,
         NEW s \in Seq(Frame), s # <<>>, NEW r, CallsOK(loaded, s, r),
         s[1].call \in {"half", "swing"}, NEW type \in Int, NEW meta \in Int,
         NEW t, t = PlaceBlockUpdate(s[1].pos, type, meta) \o Tail(s)
  PROVE  Good(loaded, t, r) /\ Doubled(s, t, WriteCall(s[1].pos, type, meta), TellCall(s[1].pos))
<1> DEFINE x == s[1].pos
           a == WriteCall(x, type, meta)
           b == TellCall(x)
           more == <<a, b>>
<1>1. /\ s[1] \in Frame /\ Len(s) \in Nat /\ Len(s) > 0 /\ r \in Requests
      /\ CallOK(loaded, s[1], r) /\ StackOK(s, r)
      /\ \A i \in 2 .. Len(s) : CallOK(loaded, s[i], r) /\ Begins(s[i])
  BY Stacks DEF CallsOK
<1>2. x \in TouchedIn(loaded, r) /\ x \in Positions
  BY <1>1 DEF CallOK, Frame
<1>3. a \in Frame /\ b \in Frame /\ CallOK(loaded, a, r) /\ CallOK(loaded, b, r) /\ Begins(b)
  BY <1>2, Frames, WriteOK
<1>4. t = more \o Tail(s)
  BY Updates
<1>5. a.call = "write" /\ a.do = "set" /\ b.call = "tell" /\ a.pos = x /\ b.pos = x
  BY DEF WriteCall, TellCall
<1> HIDE DEF a, b
<1>6. more \in Seq(Frame) /\ Len(more) = 2 /\ more[1] = a /\ more[2] = b
  BY <1>3
<1> HIDE DEF more
<1>7. /\ t \in Seq(Frame) /\ Len(t) = Len(more) + Len(s) - 1
      /\ \A i \in 1 .. Len(more) : t[i] = more[i]
      /\ \A i \in 1 .. Len(s) - 1 : t[Len(more) + i] = s[i + 1]
  BY <1>4, <1>6, Returned
<1>8. Len(t) = Len(s) + 1 /\ t[1] = a /\ t[2] = b
  BY <1>1, <1>6, <1>7
<1>9. ASSUME NEW i \in 2 .. Len(s)
      PROVE  t[i + 1] = s[i]
  <2>1. i - 1 \in 1 .. Len(s) - 1 /\ (i - 1) + 1 = i /\ 2 + (i - 1) = i + 1
    BY <1>1
  <2>2. t[Len(more) + (i - 1)] = s[(i - 1) + 1]
    BY <1>7, <2>1
  <2> QED  BY <1>6, <2>1, <2>2
<1>10. \/ Len(s) = 3 /\ WritesLast(s, r, 2)
       \/ Len(s) = 4 /\ WritesLast(s, r, 2) /\ s[4].call = "interact"
  BY <1>1 DEF StackOK, Writes, Tells, Tail1, Single
<1>11. StackOK(t, r)
  <2>1. /\ t[1].call = "write" /\ t[2].call = "tell" /\ t[1].pos = s[1].pos /\ t[2].pos = s[1].pos
        /\ \A i \in 2 .. Len(s) : t[i + 1] = s[i]
    BY <1>5, <1>8, <1>9
  <2>2. CASE Len(s) = 3 /\ WritesLast(s, r, 2)
    <3>1. Len(t) = 4
      BY <1>8, <2>2
    <3> QED  BY <2>1, <2>2, <3>1, Shifted3
  <2>3. CASE Len(s) = 4 /\ WritesLast(s, r, 2) /\ s[4].call = "interact"
    <3>1. Len(t) = 5
      BY <1>8, <2>3
    <3> QED  BY <2>1, <2>3, <3>1, Shifted4
  <2> QED  BY <2>2, <2>3, <1>10
<1>12. \A i \in 1 .. Len(t) : CallOK(loaded, t[i], r) /\ (i > 1 => Begins(t[i]))
  <2> SUFFICES ASSUME NEW i \in 1 .. Len(t) PROVE CallOK(loaded, t[i], r) /\ (i > 1 => Begins(t[i]))
    OBVIOUS
  <2>1. CASE i <= 2
    BY <2>1, <1>3, <1>8
  <2>2. CASE i > 2
    <3>1. i - 1 \in 2 .. Len(s) /\ (i - 1) + 1 = i
      BY <2>2, <1>1, <1>8
    <3>2. t[i] = s[i - 1]
      BY <3>1, <1>9
    <3> QED  BY <3>1, <3>2, <1>1
  <2> QED  BY <2>1, <2>2
<1>13. CallsOK(loaded, t, r)
  <2>1. r.op \in {"dig", "place"}
    BY DEF CallsOK
  <2> QED  BY <2>1, <1>1, <1>11, <1>12 DEF CallsOK
<1>14. Fresh(t, r)
  BY <1>5, <1>8 DEF Fresh
<1>15. Good(loaded, t, r) /\ Doubled(s, t, a, b)
  BY <1>7, <1>8, <1>9, <1>13, <1>14 DEF Good, Doubled
<1> QED  BY <1>15 DEF a, b

(* What is left below a call has read nothing. *)
LEMMA PoppedGood ==
  ASSUME NEW s \in Seq(Frame), s # <<>>, NEW r, NEW loaded, CallsOK(loaded, s, r),
         NEW t, t = <<>> \o Tail(s)
  PROVE  Good(loaded, t, r)
<1>1. /\ CallsOK(loaded, t, r) /\ t \in Seq(Frame) /\ Len(t) = Len(s) - 1
      /\ \A i \in 1 .. Len(t) : t[i] = s[i + 1]
  BY Popped
<1>2. Len(s) \in Nat /\ Len(s) > 0
  BY Stacks
<1>3. t # <<>> => t[1] \in Frame /\ t[1] = s[2] /\ Begins(s[2]) /\ CallOK(loaded, s[2], r)
  BY <1>1, <1>2, Stacks DEF CallsOK
<1>4. Fresh(t, r)
  BY <1>3 DEF Fresh, Begins, Frame, CallOK, Reads, Lookers, TypeLookers
<1> QED  BY <1>1, <1>4 DEF Good

(* --------------------------- steps of one handler ----------------------- *)

(* Where the call on top is, its handler reaches; also the byte it shares.  *)
LEMMA TopReach ==
  ASSUME TypeOK, Handlers, NEW p \in Players, todo[p] # <<>>
  PROVE  /\ request[p] \in Requests /\ request[p].op \in {"dig", "place"}
         /\ DOMAIN world \subseteq Positions
         /\ todo[p] \in Seq(Frame) /\ Len(todo[p]) \in Nat /\ Len(todo[p]) > 0
         /\ Head(todo[p]) = todo[p][1] /\ todo[p][1] \in Frame
         /\ CallOK(DOMAIN world, todo[p][1], request[p])
         /\ todo[p][1].pos \in Positions
         /\ \A q \in {todo[p][1].pos, Even(todo[p][1].pos), Odd(todo[p][1].pos)} :
              q \in DOMAIN world => q \in ReachIn(DOMAIN world, request[p])
<1>1. todo[p] \in Seq(Frame) /\ DOMAIN world \subseteq Positions
  BY DEF TypeOK
<1>2. CallsOK(DOMAIN world, todo[p], request[p])
  BY DEF Handlers
<1>3. /\ Len(todo[p]) \in Nat /\ Len(todo[p]) > 0
      /\ Head(todo[p]) = todo[p][1] /\ todo[p][1] \in Frame
  BY <1>1, Stacks
<1>4. /\ request[p] \in Requests /\ request[p].op \in {"dig", "place"}
      /\ CallOK(DOMAIN world, todo[p][1], request[p])
  BY <1>2, <1>3 DEF CallsOK
<1>5. todo[p][1].pos \in TouchedIn(DOMAIN world, request[p])
  BY <1>4 DEF CallOK
<1>6. todo[p][1].pos \in Positions
  BY <1>3 DEF Frame
<1>7. \A q \in {todo[p][1].pos, Even(todo[p][1].pos), Odd(todo[p][1].pos)} :
              q \in DOMAIN world => q \in ReachIn(DOMAIN world, request[p])
  BY <1>1, <1>4, <1>5, Reaches
<1> QED  BY <1>1, <1>3, <1>4, <1>6, <1>7

(* What the others have read is still so when p writes where it is. *)
LEMMA OthersRight ==
  ASSUME TypeOK, Handlers, ReadRight, MeetingsRaced, NEW p \in Players, todo[p] # <<>>,
         NEW w, DOMAIN w = DOMAIN world,
         \A x \in DOMAIN world \ raced : x # todo[p][1].pos => w[x] = world[x],
         NEW q \in Players, q # p, todo[q] # <<>>
  PROVE  Right(todo[q][1], request[q], w, reg[q], raced)
<1> DEFINE f == todo[q][1]
<1>1. Right(f, request[q], world, reg[q], raced)
  BY DEF ReadRight
<1>2. ASSUME NEW x \in {f.pos, Even(f.pos), Odd(f.pos)}, x \in DOMAIN world \ raced
      PROVE  w[x] = world[x]
  <2>1. x \in ReachIn(DOMAIN world, request[q])
    BY <1>2, TopReach
  <2>2. x = todo[p][1].pos => x \in ReachIn(DOMAIN world, request[p])
    BY <1>2, TopReach
  <2>3. x # todo[p][1].pos
    BY <1>2, <2>1, <2>2 DEF MeetingsRaced
  <2> QED  BY <1>2, <2>3
<1> HIDE DEF f
<1>3. f.pos \notin raced => BlockIn(w, f.pos) = BlockIn(world, f.pos)
  BY <1>2 DEF BlockIn
<1>4. Right(f, request[q], w, reg[q], raced)
  BY <1>1, <1>2, <1>3 DEF Right
<1> QED  BY <1>4 DEF f

LEMMA StepKeeps ==
  ASSUME ShownInv, NEW p \in Players, todo[p] # <<>>,
         TypeOK', raced' = raced, DOMAIN world' = DOMAIN world,
         \A x \in DOMAIN world \ raced : x # todo[p][1].pos => world'[x] = world[x],
         \A q \in Players : q # p => todo'[q] = todo[q] /\ reg'[q] = reg[q] /\ request'[q] = request[q],
         CallsOK(DOMAIN world, todo'[p], request'[p]),
         todo'[p] # <<>> => request'[p] = request[p] /\ Right(todo'[p][1], request[p], world', reg'[p], raced),
         \A x \in DOMAIN world \ raced :
           \/ shown'[x] = world'[x]
           \/ Announces(todo'[p], x)
           \/ shown'[x] = shown[x] /\ world'[x] = world[x] /\ ~Announces(todo[p], x)
  PROVE  ShownInv'
<1>1. TypeOK /\ Handlers /\ ReadRight /\ MeetingsRaced /\ ToldSoon
  BY DEF ShownInv
<1>2. Handlers'
  BY <1>1 DEF Handlers
<1>3. ReadRight'
  <2> SUFFICES ASSUME NEW q \in Players, todo'[q] # <<>>
               PROVE  Right(todo'[q][1], request'[q], world', reg'[q], raced')
    BY DEF ReadRight
  <2>1. CASE q = p
    BY <2>1
  <2>2. CASE q # p
    <3>1. Right(todo[q][1], request[q], world', reg[q], raced)
      BY <1>1, <2>2, OthersRight
    <3> QED  BY <3>1, <2>2
  <2> QED  BY <2>1, <2>2
<1>4. MeetingsRaced'
  BY <1>1 DEF MeetingsRaced
<1>5. ToldSoon'
  <2> SUFFICES ASSUME NEW x \in DOMAIN world \ raced
               PROVE  shown'[x] = world'[x] \/ \E q \in Players : Announces(todo'[q], x)
    BY DEF ToldSoon
  <2>1. CASE shown'[x] = shown[x] /\ world'[x] = world[x] /\ ~Announces(todo[p], x)
    <3>1. shown[x] = world[x] \/ \E q \in Players : Announces(todo[q], x)
      BY <1>1 DEF ToldSoon
    <3> QED  BY <3>1, <2>1
  <2> QED  BY <2>1
<1> QED  BY <1>2, <1>3, <1>4, <1>5 DEF ShownInv

(* Types, for a step that changes what one handler has. *)
LEMMA TypesKept ==
  ASSUME TypeOK, NEW p \in Players, NEW s \in Seq(Frame),
         todo' = [todo EXCEPT ![p] = s],
         \A q \in Players : q # p => reg'[q] = reg[q] /\ request'[q] = request[q],
         DOMAIN reg' = Players, DOMAIN request' = Players,
         reg' = [q \in Players |-> reg'[q]], request' = [q \in Players |-> request'[q]],
         reg'[p] \in [type : Int, meta : 0 .. 15, byte : (0 .. 15) \X (0 .. 15)],
         request'[p] \in Requests \cup {NoRequest},
         DOMAIN world' = DOMAIN world, world' \in [DOMAIN world -> Block],
         shown' \in [DOMAIN world -> Block], taken' \in [DOMAIN world -> Nat]
  PROVE  TypeOK' /\ todo'[p] = s /\ \A q \in Players : q # p => todo'[q] = todo[q]
<1>1. todo' \in [Players -> Seq(Frame)] /\ todo'[p] = s /\ \A q \in Players : q # p => todo'[q] = todo[q]
  BY DEF TypeOK
<1>2. reg' \in [Players -> [type : Int, meta : 0 .. 15, byte : (0 .. 15) \X (0 .. 15)]]
  BY DEF TypeOK
<1>3. request' \in [Players -> Requests \cup {NoRequest}]
  BY DEF TypeOK
<1> QED  BY <1>1, <1>2, <1>3 DEF TypeOK

(* A handler that comes to a decision: the blocks stay as they are. *)
LEMMA DecisionKeeps ==
  ASSUME ShownInv, NEW p \in Players, todo[p] # <<>>, todo[p][1].call \notin {"write", "tell"},
         NEW more, ReturnOrEnd(p, more),
         Good(DOMAIN world, more \o Tail(todo[p]), request[p]),
         taken' \in [DOMAIN world -> Nat], UNCHANGED <<world, shown, raced>>
  PROVE  ShownInv'
<1> DEFINE s == more \o Tail(todo[p])
<1>1. TypeOK /\ Handlers
  BY DEF ShownInv
<1>2. s \in Seq(Frame) /\ CallsOK(DOMAIN world, s, request[p]) /\ Fresh(s, request[p])
  BY DEF Good
<1>3. todo' = [todo EXCEPT ![p] = s] /\ todo'[p] = s
  <2>1. todo' = [todo EXCEPT ![p] = s]
    BY DEF ReturnOrEnd, Return
  <2> HIDE DEF s
  <2> QED  BY <1>1, <2>1 DEF TypeOK
<1> HIDE DEF s
<1>4. /\ s # <<>> => reg' = reg /\ request' = request
      /\ s = <<>> => reg' = [reg EXCEPT ![p] = Nothing] /\ request' = [request EXCEPT ![p] = NoRequest]
  BY <1>3 DEF ReturnOrEnd
<1>5. Nothing \in [type : Int, meta : 0 .. 15, byte : (0 .. 15) \X (0 .. 15)]
  BY Air0 DEF Nothing
<1>6. /\ \A q \in Players : q # p => reg'[q] = reg[q] /\ request'[q] = request[q]
      /\ DOMAIN reg' = Players /\ DOMAIN request' = Players
      /\ reg' = [q \in Players |-> reg'[q]] /\ request' = [q \in Players |-> request'[q]]
      /\ reg'[p] \in [type : Int, meta : 0 .. 15, byte : (0 .. 15) \X (0 .. 15)]
      /\ request'[p] \in Requests \cup {NoRequest}
  <2>1. CASE s # <<>>
    BY <1>1, <1>4, <2>1 DEF TypeOK
  <2>2. CASE s = <<>>
    <3>1. reg' = [reg EXCEPT ![p] = Nothing] /\ request' = [request EXCEPT ![p] = NoRequest]
      BY <1>4, <2>2
    <3>2. reg'[p] = Nothing /\ request'[p] = NoRequest
      BY <3>1, <1>1 DEF TypeOK
    <3> QED  BY <3>1, <3>2, <1>1, <1>5 DEF TypeOK
  <2> QED  BY <2>1, <2>2
<1>7. TypeOK' /\ \A q \in Players : q # p => todo'[q] = todo[q]
  <2>1. world' \in [DOMAIN world -> Block] /\ shown' \in [DOMAIN world -> Block] /\ DOMAIN world' = DOMAIN world
    BY <1>1 DEF TypeOK
  <2> QED  BY <1>1, <1>2, <1>3, <1>6, <2>1, TypesKept
<1>8. CallsOK(DOMAIN world, todo'[p], request'[p])
  <2>1. CASE s # <<>>
    BY <1>2, <1>3, <1>4, <2>1
  <2>2. CASE s = <<>>
    <3>1. Good(DOMAIN world, <<>>, request'[p])
      BY Good0
    <3> QED  BY <3>1, <1>3, <2>2 DEF Good
  <2> QED  BY <2>1, <2>2
<1>9. todo'[p] # <<>> => request'[p] = request[p] /\ Right(todo'[p][1], request[p], world', reg'[p], raced)
  BY <1>2, <1>3, <1>4 DEF Fresh, Right
<1>10. \A x : ~Announces(todo[p], x)
  BY DEF Announces
<1>11. /\ raced' = raced /\ DOMAIN world' = DOMAIN world
       /\ \A x \in DOMAIN world \ raced : x # todo[p][1].pos => world'[x] = world[x]
       /\ \A q \in Players : q # p => todo'[q] = todo[q] /\ reg'[q] = reg[q] /\ request'[q] = request[q]
       /\ \A x \in DOMAIN world \ raced :
            \/ shown'[x] = world'[x]
            \/ Announces(todo'[p], x)
            \/ shown'[x] = shown[x] /\ world'[x] = world[x] /\ ~Announces(todo[p], x)
  BY <1>6, <1>7, <1>10
<1> QED  BY <1>7, <1>8, <1>9, <1>11, StepKeeps

(* A call that goes on to its next access. *)
LEMMA AdvanceKeeps ==
  ASSUME ShownInv, NEW p \in Players, todo[p] # <<>>,
         NEW access \in {"set", "load", "store", "look", "type", "meta", "act"}, Advance(p, access),
         \/ todo[p][1].call = "write" /\ access \in {"load", "store"}
         \/ todo[p][1].call \in Lookers /\ access \in {"meta", "act"}
         \/ todo[p][1].call \in TypeLookers /\ access = "act",
         NEW v \in [type : Int, meta : 0 .. 15, byte : (0 .. 15) \X (0 .. 15)],
         reg' = [reg EXCEPT ![p] = v],
         Right([todo[p][1] EXCEPT !.do = access], request[p], world', v, raced),
         DOMAIN world' = DOMAIN world, world' \in [DOMAIN world -> Block],
         \A x \in DOMAIN world \ raced : x # todo[p][1].pos => world'[x] = world[x],
         world' = world \/ todo[p][1].call = "write",
         UNCHANGED <<request, shown, taken, raced>>
  PROVE  ShownInv'
<1> DEFINE s == todo[p]
           t == Stepped(s, access)
<1>1. TypeOK /\ Handlers
  BY DEF ShownInv
<1>2. s \in Seq(Frame) /\ s # <<>> /\ CallsOK(DOMAIN world, s, request[p]) /\ s[1] \in Frame
  BY <1>1, TopReach DEF Handlers
<1>3. todo' = [todo EXCEPT ![p] = t]
  BY DEF Advance, Stepped
<1>4. t \in Seq(Frame) /\ t # <<>> /\ t[1] = [s[1] EXCEPT !.do = access]
  BY <1>2, AdvancedGood
<1>5. CallsOK(DOMAIN world, t, request[p])
  BY <1>2, AdvancedGood
<1> HIDE DEF t
<1>6. /\ \A q \in Players : q # p => reg'[q] = reg[q] /\ request'[q] = request[q]
      /\ DOMAIN reg' = Players /\ DOMAIN request' = Players
      /\ reg' = [q \in Players |-> reg'[q]] /\ request' = [q \in Players |-> request'[q]]
      /\ reg'[p] = v /\ request'[p] \in Requests \cup {NoRequest}
  BY <1>1 DEF TypeOK
<1>7. TypeOK' /\ todo'[p] = t /\ \A q \in Players : q # p => todo'[q] = todo[q]
  <2>1. shown' \in [DOMAIN world -> Block] /\ taken' \in [DOMAIN world -> Nat]
    BY <1>1 DEF TypeOK
  <2> QED  BY <1>1, <1>3, <1>4, <1>6, <2>1, TypesKept
<1>8. Right(todo'[p][1], request[p], world', reg'[p], raced)
  BY <1>4, <1>6, <1>7
<1>9. ASSUME NEW x \in DOMAIN world \ raced
      PROVE  \/ shown'[x] = world'[x]
             \/ Announces(todo'[p], x)
             \/ shown'[x] = shown[x] /\ world'[x] = world[x] /\ ~Announces(todo[p], x)
  <2>1. t[1].pos = s[1].pos /\ t[1].call = s[1].call
    BY <1>2, <1>4 DEF Frame
  <2>2. Announces(todo[p], x) => Announces(todo'[p], x)
    BY <1>4, <1>7, <2>1 DEF Announces
  <2>3. ~Announces(todo'[p], x) => world'[x] = world[x]
    BY <1>4, <1>7, <2>1 DEF Announces
  <2> QED  BY <2>2, <2>3
<1> QED  BY <1>5, <1>6, <1>7, <1>8, <1>9, StepKeeps

LEMMA BlocksRead ==
  ASSUME TypeOK, NEW x
  PROVE  BlockAt(x) = BlockIn(world, x) /\ BlockAt(x).type \in Int /\ BlockAt(x).meta \in 0 .. 15
  BY Air0 DEF TypeOK, BlockAt, BlockIn, Block, Air

LEMMA ReadTypeKeeps ==
  ASSUME ShownInv, NEW p \in Players, ReadType(p)
  PROVE  ShownInv'
<1> DEFINE f == todo[p][1]
           v == [reg[p] EXCEPT !.type = BlockAt(f.pos).type]
<1>1. TypeOK /\ Handlers /\ todo[p] # <<>>
  BY DEF ShownInv, ReadType, Next1
<1>2. f \in Frame /\ Current(p) = f /\ CallOK(DOMAIN world, f, request[p])
  BY <1>1, TopReach DEF Current
<1>3. BlockAt(f.pos) = BlockIn(world, f.pos) /\ BlockAt(f.pos).type \in Int
  BY <1>1, BlocksRead
<1>4. reg[p] \in [type : Int, meta : 0 .. 15, byte : (0 .. 15) \X (0 .. 15)]
  BY <1>1 DEF TypeOK
<1>5. v \in [type : Int, meta : 0 .. 15, byte : (0 .. 15) \X (0 .. 15)] /\ v.type = BlockAt(f.pos).type
  BY <1>3, <1>4
<1>6. reg' = [reg EXCEPT ![p] = v] /\ world' = world /\ UNCHANGED <<request, shown, taken, raced>>
  BY <1>2 DEF ReadType
<1>7. world \in [DOMAIN world -> Block]
  BY <1>1 DEF TypeOK
<1> HIDE DEF v
<1>8. CASE f.do = "type" /\ Advance(p, "act")
  <2>1. f.call \in TypeLookers
    BY <1>2, <1>8 DEF CallOK, Frame, Lookers, TypeLookers
  <2>2. Right([f EXCEPT !.do = "act"], request[p], world', v, raced)
    <3>1. f.call \notin Lookers
      BY <2>1 DEF Lookers, TypeLookers
    <3> DEFINE g == [f EXCEPT !.do = "act"]
    <3>2. g.call = f.call /\ g.pos = f.pos /\ g.do = "act"
      BY <1>2 DEF Frame
    <3> HIDE DEF g
    <3>3. Right(g, request[p], world', v, raced)
      BY <1>3, <1>5, <1>6, <3>1, <3>2 DEF Right
    <3> QED  BY <3>3 DEF g
  <2> QED  BY <1>1, <1>5, <1>6, <1>7, <1>8, <2>1, <2>2, AdvanceKeeps
<1>9. CASE f.do = "look" /\ Advance(p, "meta")
  <2>1. f.call \in Lookers
    BY <1>2, <1>9 DEF CallOK, Frame, Lookers, TypeLookers
  <2>2. Right([f EXCEPT !.do = "meta"], request[p], world', v, raced)
    <3> DEFINE g == [f EXCEPT !.do = "meta"]
    <3>2. g.call = f.call /\ g.pos = f.pos /\ g.do = "meta"
      BY <1>2 DEF Frame
    <3> HIDE DEF g
    <3>3. Right(g, request[p], world', v, raced)
      BY <1>3, <1>5, <1>6, <3>2 DEF Right
    <3> QED  BY <3>3 DEF g
  <2> QED  BY <1>1, <1>5, <1>6, <1>7, <1>9, <2>1, <2>2, AdvanceKeeps
<1> QED  BY <1>2, <1>8, <1>9 DEF ReadType, Next1

LEMMA ReadMetaKeeps ==
  ASSUME ShownInv, NEW p \in Players, ReadMeta(p)
  PROVE  ShownInv'
<1> DEFINE f == todo[p][1]
           v == [reg[p] EXCEPT !.meta = BlockAt(f.pos).meta]
           g == [f EXCEPT !.do = "act"]
<1>1. TypeOK /\ Handlers /\ todo[p] # <<>> /\ ReadRight
  BY DEF ShownInv, ReadMeta, Next1
<1>2. f \in Frame /\ Current(p) = f /\ CallOK(DOMAIN world, f, request[p]) /\ f.do = "meta" /\ Advance(p, "act")
  BY <1>1, TopReach DEF Current, ReadMeta, Next1
<1>3. BlockAt(f.pos) = BlockIn(world, f.pos) /\ BlockAt(f.pos).meta \in 0 .. 15
  BY <1>1, BlocksRead
<1>4. reg[p] \in [type : Int, meta : 0 .. 15, byte : (0 .. 15) \X (0 .. 15)]
  BY <1>1 DEF TypeOK
<1>5. /\ v \in [type : Int, meta : 0 .. 15, byte : (0 .. 15) \X (0 .. 15)]
      /\ v.meta = BlockAt(f.pos).meta /\ v.type = reg[p].type
  BY <1>3, <1>4
<1>6. reg' = [reg EXCEPT ![p] = v] /\ world' = world /\ UNCHANGED <<request, shown, taken, raced>>
  BY <1>2 DEF ReadMeta
<1>7. world \in [DOMAIN world -> Block]
  BY <1>1 DEF TypeOK
<1>8. f.call \in Lookers
  BY <1>2 DEF CallOK, Frame, Lookers, TypeLookers
<1>9. Right(f, request[p], world, reg[p], raced)
  BY <1>1 DEF ReadRight
<1>10. g.call = f.call /\ g.pos = f.pos /\ g.do = "act"
  BY <1>2 DEF Frame
<1> HIDE DEF v, g
<1>11. Right(g, request[p], world', v, raced)
  BY <1>2, <1>3, <1>5, <1>6, <1>8, <1>9, <1>10 DEF Right, Reads
<1>12. Right([f EXCEPT !.do = "act"], request[p], world', v, raced)
  BY <1>11 DEF g
<1> QED  BY <1>1, <1>2, <1>5, <1>6, <1>7, <1>8, <1>12, AdvanceKeeps

LEMMA WriteTypeKeeps ==
  ASSUME ShownInv, NEW p \in Players, WriteType(p)
  PROVE  ShownInv'
<1> DEFINE f == todo[p][1]
           g == [f EXCEPT !.do = "load"]
<1>1. TypeOK /\ Handlers /\ todo[p] # <<>>
  BY DEF ShownInv, WriteType, Next1
<1>2. f \in Frame /\ Current(p) = f /\ CallOK(DOMAIN world, f, request[p]) /\ f.do = "set" /\ Advance(p, "load")
  BY <1>1, TopReach DEF Current, WriteType, Next1
<1>3. f.call = "write"
  BY <1>2 DEF CallOK, Frame, Lookers, TypeLookers
<1>4. reg[p] \in [type : Int, meta : 0 .. 15, byte : (0 .. 15) \X (0 .. 15)]
      /\ reg' = [reg EXCEPT ![p] = reg[p]]
      /\ UNCHANGED <<request, shown, taken, raced>>
  BY <1>1 DEF TypeOK, WriteType
<1>5. world' = IF f.pos \in DOMAIN world THEN [world EXCEPT ![f.pos].type = f.type] ELSE world
  BY <1>2 DEF WriteType
<1>6. f.type \in Int
  BY <1>2 DEF Frame
<1>7. /\ DOMAIN world' = DOMAIN world /\ world' \in [DOMAIN world -> Block]
      /\ \A x \in DOMAIN world : x # f.pos => world'[x] = world[x]
  <2>1. CASE f.pos \in DOMAIN world
    <3>1. world' = [world EXCEPT ![f.pos].type = f.type] /\ world \in [DOMAIN world -> Block]
      BY <1>1, <1>5, <2>1 DEF TypeOK
    <3>2. [world[f.pos] EXCEPT !.type = f.type] \in Block
      BY <2>1, <3>1, <1>6 DEF Block
    <3> QED  BY <3>1, <3>2
  <2>2. CASE f.pos \notin DOMAIN world
    BY <1>1, <1>5, <2>2 DEF TypeOK
  <2> QED  BY <2>1, <2>2
<1>8. g.call = f.call /\ g.do = "load"
  BY <1>2 DEF Frame
<1> HIDE DEF g
<1>9. Right(g, request[p], world', reg[p], raced)
  BY <1>8 DEF Right
<1>10. Right([f EXCEPT !.do = "load"], request[p], world', reg[p], raced)
  BY <1>9 DEF g
<1> QED  BY <1>1, <1>2, <1>3, <1>4, <1>7, <1>10, AdvanceKeeps

LEMMA LoadMetaKeeps ==
  ASSUME ShownInv, NEW p \in Players, LoadMeta(p)
  PROVE  ShownInv'
<1> DEFINE f == todo[p][1]
           b == <<BlockAt(Even(f.pos)).meta, BlockAt(Odd(f.pos)).meta>>
           v == [reg[p] EXCEPT !.byte = b]
           g == [f EXCEPT !.do = "store"]
<1>1. TypeOK /\ Handlers /\ todo[p] # <<>>
  BY DEF ShownInv, LoadMeta, Next1
<1>2. f \in Frame /\ Current(p) = f /\ CallOK(DOMAIN world, f, request[p]) /\ f.do = "load" /\ Advance(p, "store")
  BY <1>1, TopReach DEF Current, LoadMeta, Next1
<1>3. f.call = "write"
  BY <1>2 DEF CallOK, Frame, Lookers, TypeLookers
<1>4. /\ reg[p] \in [type : Int, meta : 0 .. 15, byte : (0 .. 15) \X (0 .. 15)]
      /\ world \in [DOMAIN world -> Block]
  BY <1>1 DEF TypeOK
<1>5. /\ b \in (0 .. 15) \X (0 .. 15)
      /\ b[1] = BlockIn(world, Even(f.pos)).meta /\ b[2] = BlockIn(world, Odd(f.pos)).meta
  BY <1>1, BlocksRead
<1>6. reg' = [reg EXCEPT ![p].byte = b] /\ world' = world /\ UNCHANGED <<request, shown, taken, raced>>
  BY <1>2 DEF LoadMeta
<1> HIDE DEF b
<1>7. v \in [type : Int, meta : 0 .. 15, byte : (0 .. 15) \X (0 .. 15)] /\ v.byte = b
      /\ reg' = [reg EXCEPT ![p] = v]
  BY <1>4, <1>5, <1>6
<1>8. g.call = f.call /\ g.do = "store" /\ g.pos = f.pos
  BY <1>2 DEF Frame
<1> HIDE DEF g, v
<1>9. Right(g, request[p], world', v, raced)
  BY <1>3, <1>5, <1>6, <1>7, <1>8 DEF Right, BlockIn
<1>10. Right([f EXCEPT !.do = "store"], request[p], world', v, raced)
  BY <1>9 DEF g
<1> QED  BY <1>1, <1>2, <1>3, <1>4, <1>6, <1>7, <1>10, AdvanceKeeps

(* After the byte is written back the block is told. *)
LEMMA AfterWrite ==
  ASSUME NEW s \in Seq(Frame), s # <<>>, NEW r, NEW loaded, CallsOK(loaded, s, r), s[1].call = "write"
  PROVE  LET t == <<>> \o Tail(s)
         IN /\ Good(loaded, t, r) /\ t # <<>> /\ t[1].call = "tell" /\ t[1].pos = s[1].pos
            /\ t[1].do = "look" /\ t[1] \in Frame
<1> DEFINE t == <<>> \o Tail(s)
<1>1. /\ t \in Seq(Frame) /\ Len(t) = Len(s) - 1
      /\ \A i \in 1 .. Len(t) : t[i] = s[i + 1]
  BY Popped
<1>2. Good(loaded, t, r)
  BY PoppedGood
<1> HIDE DEF t
<1>3. Len(s) \in Nat /\ Len(s) >= 2 /\ s[2].call = "tell" /\ s[2].pos = s[1].pos
  <2>1. StackOK(s, r) /\ Len(s) \in Nat /\ Len(s) > 0
    BY Stacks DEF CallsOK
  <2> QED  BY <2>1 DEF StackOK, Writes, Tells, Single
<1>4. t[1] = s[2] /\ s[2] \in Frame /\ Begins(s[2])
  BY <1>1, <1>3, Stacks DEF CallsOK
<1>5. t # <<>>
  BY <1>1, <1>3
<1>6. s[2].do = "look"
  BY <1>3, <1>4 DEF Begins, Lookers
<1> QED  BY <1>2, <1>3, <1>4, <1>5, <1>6 DEF t

LEMMA StoreMetaKeeps ==
  ASSUME ShownInv, NEW p \in Players, StoreMeta(p)
  PROVE  ShownInv'
<1> DEFINE f == todo[p][1]
           s == <<>> \o Tail(todo[p])
           new(q) == IF q = f.pos THEN f.meta % 16
                     ELSE IF q = Even(f.pos) THEN reg[p].byte[1]
                     ELSE IF q = Odd(f.pos) THEN reg[p].byte[2]
                     ELSE world[q].meta
           v == [reg[p] EXCEPT !.byte = Nothing.byte]
<1>1. TypeOK /\ Handlers /\ ReadRight /\ todo[p] # <<>>
  BY DEF ShownInv, StoreMeta, Next1
<1>2. /\ f \in Frame /\ Current(p) = f /\ CallOK(DOMAIN world, f, request[p]) /\ f.do = "store"
      /\ todo[p] \in Seq(Frame) /\ CallsOK(DOMAIN world, todo[p], request[p])
  BY <1>1, TopReach DEF Current, StoreMeta, Next1, Handlers
<1>3. f.call = "write"
  BY <1>2 DEF CallOK, Frame, Lookers, TypeLookers
<1>4. /\ Good(DOMAIN world, s, request[p]) /\ s # <<>> /\ s[1].call = "tell" /\ s[1].pos = f.pos
      /\ s[1].do = "look"
  BY <1>1, <1>2, <1>3, AfterWrite
<1>5. todo' = [todo EXCEPT ![p] = s] /\ s \in Seq(Frame)
  BY <1>4 DEF StoreMeta, Return, Good
<1> HIDE DEF s
<1>6. reg[p] \in [type : Int, meta : 0 .. 15, byte : (0 .. 15) \X (0 .. 15)]
  BY <1>1 DEF TypeOK
<1>7. v \in [type : Int, meta : 0 .. 15, byte : (0 .. 15) \X (0 .. 15)]
  BY <1>6 DEF Nothing
<1>8. reg' = [reg EXCEPT ![p] = v] /\ UNCHANGED <<request, shown, taken, raced>>
  BY DEF StoreMeta
<1> HIDE DEF v
<1>9. world' = IF f.pos \in DOMAIN world
               THEN [q \in DOMAIN world |-> [world[q] EXCEPT !.meta = new(q)]]
               ELSE world
  BY <1>2 DEF StoreMeta
<1>10. world \in [DOMAIN world -> Block]
  BY <1>1 DEF TypeOK
<1>11. \A q \in DOMAIN world : new(q) \in 0 .. 15
  <2>1. f.meta % 16 \in 0 .. 15
    <3>1. \A m \in Int : m % 16 \in 0 .. 15
      OBVIOUS
    <3>2. f.meta \in Int
      BY <1>2 DEF Frame
    <3> QED  BY <3>1, <3>2
  <2>2. reg[p].byte[1] \in 0 .. 15 /\ reg[p].byte[2] \in 0 .. 15
    BY <1>6
  <2>3. \A q \in DOMAIN world : world[q].meta \in 0 .. 15
    BY <1>10 DEF Block
  <2> QED  BY <2>1, <2>2, <2>3
<1>12. \A q \in DOMAIN world \ raced : q # f.pos => new(q) = world[q].meta
  <2>1. Right(f, request[p], world, reg[p], raced)
    BY <1>1 DEF ReadRight
  <2> QED  BY <1>2, <2>1 DEF Right
<1> HIDE DEF new
<1>13. /\ DOMAIN world' = DOMAIN world /\ world' \in [DOMAIN world -> Block]
       /\ \A x \in DOMAIN world \ raced : x # f.pos => world'[x] = world[x]
  <2>1. CASE f.pos \in DOMAIN world
    <3>1. world' = [q \in DOMAIN world |-> [world[q] EXCEPT !.meta = new(q)]]
      BY <1>9, <2>1
    <3>2. \A q \in DOMAIN world : [world[q] EXCEPT !.meta = new(q)] \in Block
      BY <1>10, <1>11 DEF Block
    <3>3. \A x \in DOMAIN world \ raced : x # f.pos => [world[x] EXCEPT !.meta = new(x)] = world[x]
      BY <1>10, <1>12 DEF Block
    <3> QED  BY <3>1, <3>2, <3>3
  <2>2. CASE f.pos \notin DOMAIN world
    BY <1>9, <1>10, <2>2
  <2> QED  BY <2>1, <2>2
<1>14. /\ \A q \in Players : q # p => reg'[q] = reg[q] /\ request'[q] = request[q]
       /\ DOMAIN reg' = Players /\ DOMAIN request' = Players
       /\ reg' = [q \in Players |-> reg'[q]] /\ request' = [q \in Players |-> request'[q]]
       /\ reg'[p] = v /\ request'[p] \in Requests \cup {NoRequest}
       /\ shown' \in [DOMAIN world -> Block] /\ taken' \in [DOMAIN world -> Nat]
  BY <1>1, <1>8 DEF TypeOK
<1>15. TypeOK' /\ todo'[p] = s /\ \A q \in Players : q # p => todo'[q] = todo[q]
  BY <1>1, <1>5, <1>7, <1>13, <1>14, TypesKept
<1>16. CallsOK(DOMAIN world, todo'[p], request'[p])
  BY <1>4, <1>8, <1>15 DEF Good
<1>17. Right(todo'[p][1], request[p], world', reg'[p], raced)
  BY <1>4, <1>15 DEF Right
<1>18. ASSUME NEW x \in DOMAIN world \ raced
       PROVE  \/ shown'[x] = world'[x]
              \/ Announces(todo'[p], x)
              \/ shown'[x] = shown[x] /\ world'[x] = world[x] /\ ~Announces(todo[p], x)
  <2>1. CASE x = f.pos
    BY <2>1, <1>4, <1>15 DEF Announces
  <2>2. CASE x # f.pos
    BY <2>2, <1>8, <1>13 DEF Announces
  <2> QED  BY <2>1, <2>2
<1> QED  BY <1>1, <1>8, <1>13, <1>14, <1>15, <1>16, <1>17, <1>18, StepKeeps

LEMMA TellKeeps ==
  ASSUME ShownInv, NEW p \in Players, Tell(p)
  PROVE  ShownInv'
<1> DEFINE f == todo[p][1]
           s == <<>> \o Tail(todo[p])
           b == [type |-> reg[p].type, meta |-> reg[p].meta]
<1>1. TypeOK /\ Handlers /\ ReadRight /\ todo[p] # <<>>
  BY DEF ShownInv, Tell, At, Next1
<1>2. /\ f \in Frame /\ Current(p) = f /\ f.do = "act" /\ f.call = "tell"
      /\ todo[p] \in Seq(Frame) /\ CallsOK(DOMAIN world, todo[p], request[p])
  BY <1>1, TopReach DEF Current, Tell, At, Next1, Handlers
<1>3. s \in Seq(Frame) /\ CallsOK(DOMAIN world, s, request[p]) /\ Fresh(s, request[p])
  BY <1>1, <1>2, PoppedGood DEF Good
<1>4. todo' = [todo EXCEPT ![p] = s] /\ todo'[p] = s
  <2>1. todo' = [todo EXCEPT ![p] = s]
    BY DEF Tell, ReturnOrEnd, Return
  <2> HIDE DEF s
  <2> QED  BY <1>1, <2>1 DEF TypeOK
<1> HIDE DEF s
<1>5. /\ s # <<>> => reg' = reg /\ request' = request
      /\ s = <<>> => reg' = [reg EXCEPT ![p] = Nothing] /\ request' = [request EXCEPT ![p] = NoRequest]
      /\ UNCHANGED <<world, taken, raced>>
  BY <1>4 DEF Tell, ReturnOrEnd
<1>6. Nothing \in [type : Int, meta : 0 .. 15, byte : (0 .. 15) \X (0 .. 15)]
  BY Air0 DEF Nothing
<1>7. /\ \A q \in Players : q # p => reg'[q] = reg[q] /\ request'[q] = request[q]
      /\ DOMAIN reg' = Players /\ DOMAIN request' = Players
      /\ reg' = [q \in Players |-> reg'[q]] /\ request' = [q \in Players |-> request'[q]]
      /\ reg'[p] \in [type : Int, meta : 0 .. 15, byte : (0 .. 15) \X (0 .. 15)]
      /\ request'[p] \in Requests \cup {NoRequest}
  <2>1. CASE s # <<>>
    BY <1>1, <1>5, <2>1 DEF TypeOK
  <2>2. CASE s = <<>>
    <3>1. reg' = [reg EXCEPT ![p] = Nothing] /\ request' = [request EXCEPT ![p] = NoRequest]
      BY <1>5, <2>2
    <3>2. reg'[p] = Nothing /\ request'[p] = NoRequest
      BY <3>1, <1>1 DEF TypeOK
    <3> QED  BY <3>1, <3>2, <1>1, <1>6 DEF TypeOK
  <2> QED  BY <2>1, <2>2
<1>8. shown' = IF f.pos \in DOMAIN world THEN [shown EXCEPT ![f.pos] = b] ELSE shown
  BY <1>1, <1>2 DEF Tell, TypeOK
<1>9. b \in Block
  BY <1>1 DEF TypeOK, Block
<1>10. f.pos \in DOMAIN world \ raced => b = world[f.pos]
  <2>1. Right(f, request[p], world, reg[p], raced)
    BY <1>1 DEF ReadRight
  <2>2. Reads(f, request[p]) /\ f.call \in Lookers
    BY <1>2 DEF Reads, Lookers
  <2>3. f.pos \in DOMAIN world => world[f.pos] \in Block
    BY <1>1 DEF TypeOK
  <2> QED  BY <1>2, <2>1, <2>2, <2>3 DEF Right, BlockIn, Block
<1> HIDE DEF b
<1>11. shown' \in [DOMAIN world -> Block] /\ taken' \in [DOMAIN world -> Nat]
       /\ world' \in [DOMAIN world -> Block] /\ DOMAIN world' = DOMAIN world
  BY <1>1, <1>5, <1>8, <1>9 DEF TypeOK
<1>12. TypeOK' /\ \A q \in Players : q # p => todo'[q] = todo[q]
  BY <1>1, <1>3, <1>4, <1>7, <1>11, TypesKept
<1>13. CallsOK(DOMAIN world, todo'[p], request'[p])
  <2>1. CASE s # <<>>
    BY <1>3, <1>4, <1>5, <2>1
  <2>2. CASE s = <<>>
    <3>1. Good(DOMAIN world, <<>>, request'[p])
      BY Good0
    <3> QED  BY <3>1, <1>4, <2>2 DEF Good
  <2> QED  BY <2>1, <2>2
<1>14. todo'[p] # <<>> => request'[p] = request[p] /\ Right(todo'[p][1], request[p], world', reg'[p], raced)
  BY <1>3, <1>4, <1>5 DEF Fresh, Right
<1>15. ASSUME NEW x \in DOMAIN world \ raced
       PROVE  \/ shown'[x] = world'[x]
              \/ Announces(todo'[p], x)
              \/ shown'[x] = shown[x] /\ world'[x] = world[x] /\ ~Announces(todo[p], x)
  <2>0. shown \in [DOMAIN world -> Block]
    BY <1>1 DEF TypeOK
  <2>1. CASE x = f.pos
    BY <2>0, <2>1, <1>5, <1>8, <1>10
  <2>2. CASE x # f.pos
    BY <2>0, <2>2, <1>5, <1>8 DEF Announces
  <2> QED  BY <2>1, <2>2
<1>16. /\ raced' = raced
       /\ \A x \in DOMAIN world \ raced : x # todo[p][1].pos => world'[x] = world[x]
       /\ \A q \in Players : q # p => todo'[q] = todo[q] /\ reg'[q] = reg[q] /\ request'[q] = request[q]
  BY <1>5, <1>7, <1>12
<1> QED  BY <1>1, <1>11, <1>12, <1>13, <1>14, <1>15, <1>16, StepKeeps

(* What a call at its decision is about. *)
LEMMA Deciding ==
  ASSUME ShownInv, NEW p \in Players, NEW name, At(p, name), name # "write"
  PROVE  /\ TypeOK /\ Handlers /\ todo[p] # <<>> /\ todo[p] \in Seq(Frame)
         /\ CallsOK(DOMAIN world, todo[p], request[p])
         /\ request[p] \in Requests /\ DOMAIN world \subseteq Positions
         /\ Current(p) = todo[p][1] /\ todo[p][1] \in Frame /\ todo[p][1].call = name
         /\ CallOK(DOMAIN world, todo[p][1], request[p])
         /\ todo[p][1].pos \in TouchedIn(DOMAIN world, request[p])
         /\ request[p].op \in {"dig", "place"}
         /\ reg[p].type \in Int /\ reg[p].meta \in 0 .. 15
<1>1. TypeOK /\ Handlers /\ todo[p] # <<>>
  BY DEF ShownInv, At, Next1
<1>2. /\ todo[p] \in Seq(Frame) /\ CallsOK(DOMAIN world, todo[p], request[p])
      /\ request[p] \in Requests /\ DOMAIN world \subseteq Positions
      /\ Current(p) = todo[p][1] /\ todo[p][1] \in Frame
      /\ CallOK(DOMAIN world, todo[p][1], request[p])
      /\ request[p].op \in {"dig", "place"}
  BY <1>1, TopReach DEF Handlers, Current
<1>3. todo[p][1].call = name
  BY <1>2 DEF At
<1>4. todo[p][1].pos \in TouchedIn(DOMAIN world, request[p])
  BY <1>2 DEF CallOK
<1>5. reg[p].type \in Int /\ reg[p].meta \in 0 .. 15
  BY <1>1 DEF TypeOK
<1> QED  BY <1>1, <1>2, <1>3, <1>4, <1>5

(* A decision about the whole packet leaves exactly the calls it makes. *)
LEMMA LastDecisionKeeps ==
  ASSUME ShownInv, NEW p \in Players,
         NEW name \in {"dig", "interact", "place", "hoe", "placed", "put", "soak"}, At(p, name),
         NEW more, Good(DOMAIN world, more, request[p]), ReturnOrEnd(p, more),
         taken' \in [DOMAIN world -> Nat], UNCHANGED <<world, shown, raced>>
  PROVE  ShownInv'
<1>1. /\ todo[p] # <<>> /\ todo[p] \in Seq(Frame) /\ CallsOK(DOMAIN world, todo[p], request[p])
      /\ todo[p][1].call = name
  BY Deciding
<1>2. more \in Seq(Frame)
  BY DEF Good
<1>3. more \o Tail(todo[p]) = more
  BY <1>1, <1>2, Last
<1>4. Good(DOMAIN world, more \o Tail(todo[p]), request[p])
  BY <1>3
<1> QED  BY <1>1, <1>4, DecisionKeeps

LEMMA DigKeeps ==
  ASSUME ShownInv, NEW p \in Players, Dig(p)
  PROVE  ShownInv'
<1>1. At(p, "dig") /\ ReturnOrEnd(p, DigAfterLook(request[p], reg[p].type, reg[p].meta))
      /\ UNCHANGED <<world, shown, raced>>
  BY DEF Dig
<1>2. /\ TypeOK /\ request[p] \in Requests /\ DOMAIN world \subseteq Positions
      /\ CallOK(DOMAIN world, todo[p][1], request[p]) /\ todo[p][1].call = "dig"
      /\ reg[p].type \in Int /\ reg[p].meta \in 0 .. 15
  BY <1>1, Deciding
<1>3. request[p].op = "dig"
  BY <1>2 DEF CallOK
<1>4. Good(DOMAIN world, DigAfterLook(request[p], reg[p].type, reg[p].meta), request[p])
  BY <1>2, <1>3, DigLeaves
<1>5. taken' \in [DOMAIN world -> Nat]
  <2>1. \/ taken' = taken
        \/ \E x \in DOMAIN taken : taken' = [taken EXCEPT ![x] = @ + 1]
    BY DEF Dig
  <2>2. taken \in [DOMAIN world -> Nat]
    BY <1>2 DEF TypeOK
  <2>3. ASSUME NEW x \in DOMAIN taken PROVE [taken EXCEPT ![x] = @ + 1] \in [DOMAIN world -> Nat]
    BY <2>2
  <2> QED  BY <2>1, <2>2, <2>3
<1> QED  BY <1>1, <1>4, <1>5, LastDecisionKeeps

LEMMA HalfKeeps ==
  ASSUME ShownInv, NEW p \in Players, DigOtherHalf(p) \/ SwingOtherHalf(p)
  PROVE  ShownInv'
<1>1. ASSUME NEW name \in {"half", "swing"}, NEW type \in Int, NEW meta \in Int, NEW more,
             At(p, name), ReturnOrEnd(p, more),
             more \in {<<>>, PlaceBlockUpdate(Current(p).pos, type, meta)},
             UNCHANGED <<world, shown, taken, raced>>
      PROVE  ShownInv'
  <2>1. /\ TypeOK /\ todo[p] # <<>> /\ todo[p] \in Seq(Frame) /\ CallsOK(DOMAIN world, todo[p], request[p])
        /\ todo[p][1].call = name /\ Current(p) = todo[p][1] /\ DOMAIN world \subseteq Positions
    BY <1>1, Deciding
  <2>2. Good(DOMAIN world, more \o Tail(todo[p]), request[p])
    <3>1. CASE more = <<>>
      BY <3>1, <2>1, PoppedGood
    <3>2. CASE more = PlaceBlockUpdate(todo[p][1].pos, type, meta)
      BY <3>2, <2>1, HalfWritten
    <3> QED  BY <3>1, <3>2, <1>1, <2>1
  <2>3. taken' \in [DOMAIN world -> Nat]
    BY <1>1, <2>1 DEF TypeOK
  <2> QED  BY <1>1, <2>1, <2>2, <2>3, DecisionKeeps
<1>2. CASE DigOtherHalf(p)
  <2> DEFINE more == IF reg[p].type = Current(p).type THEN PlaceBlockUpdate(Current(p).pos, BLOCK.AIR, 0) ELSE <<>>
  <2>1. At(p, "half") /\ ReturnOrEnd(p, more) /\ UNCHANGED <<world, shown, taken, raced>>
    BY <1>2 DEF DigOtherHalf
  <2>2. more \in {<<>>, PlaceBlockUpdate(Current(p).pos, BLOCK.AIR, 0)}
    OBVIOUS
  <2>3. BLOCK.AIR \in Int /\ 0 \in Int /\ "half" \in {"half", "swing"}
    BY Air0
  <2> HIDE DEF more
  <2> QED  BY <1>1, <2>1, <2>2, <2>3
<1>3. CASE SwingOtherHalf(p)
  <2>1. At(p, "swing")
    BY <1>3 DEF SwingOtherHalf
  <2>2. reg[p].type \in Int /\ reg[p].meta \in 0 .. 15
    BY <2>1, Deciding
  <2>3. Toggled(reg[p].meta) \in Int
    BY <2>2 DEF Toggled
  <2> QED  BY <1>1, <1>3, <2>1, <2>2, <2>3 DEF SwingOtherHalf
<1> QED  BY <1>2, <1>3

LEMMA InteractKeeps ==
  ASSUME ShownInv, NEW p \in Players, Interact(p)
  PROVE  ShownInv'
<1>1. At(p, "interact") /\ ReturnOrEnd(p, UseAfterLook(Current(p).pos, reg[p].type, reg[p].meta))
      /\ UNCHANGED <<world, shown, taken, raced>>
  BY DEF Interact
<1>2. /\ TypeOK /\ request[p] \in Requests /\ DOMAIN world \subseteq Positions
      /\ CallOK(DOMAIN world, todo[p][1], request[p]) /\ todo[p][1].call = "interact"
      /\ Current(p) = todo[p][1] /\ request[p].op \in {"dig", "place"}
      /\ reg[p].type \in Int /\ reg[p].meta \in 0 .. 15
  BY <1>1, Deciding
<1>3. Current(p).pos = request[p].pos
  BY <1>2 DEF CallOK
<1>4. Good(DOMAIN world, UseAfterLook(Current(p).pos, reg[p].type, reg[p].meta), request[p])
  BY <1>2, <1>3, UseLeaves
<1>5. taken' \in [DOMAIN world -> Nat]
  BY <1>1, <1>2 DEF TypeOK
<1> QED  BY <1>1, <1>4, <1>5, LastDecisionKeeps

LEMMA PlaceKeeps ==
  ASSUME ShownInv, NEW p \in Players, Place(p)
  PROVE  ShownInv'
<1>0. UNCHANGED <<world, shown, taken, raced>>
  BY DEF Place
<1>1. CASE At(p, "place") /\ ReturnOrEnd(p, PlaceAfterLook(request[p], reg[p].type, reg[p].meta))
  <2>1. /\ TypeOK /\ request[p] \in Requests /\ DOMAIN world \subseteq Positions
        /\ CallOK(DOMAIN world, todo[p][1], request[p]) /\ todo[p][1].call = "place"
        /\ reg[p].type \in Int /\ reg[p].meta \in 0 .. 15
    BY <1>1, Deciding
  <2>2. request[p].op = "place"
    BY <2>1 DEF CallOK
  <2>3. Good(DOMAIN world, PlaceAfterLook(request[p], reg[p].type, reg[p].meta), request[p])
    BY <2>1, <2>2, PlaceLeaves
  <2>4. taken' \in [DOMAIN world -> Nat]
    BY <1>0, <2>1 DEF TypeOK
  <2> QED  BY <1>0, <1>1, <2>3, <2>4, LastDecisionKeeps
<1>2. ASSUME NEW more, more \in {PlaceBlockUpdate(Current(p).pos, BLOCK.FARMLAND, 0), <<>>},
             At(p, "hoe"), ReturnOrEnd(p, more)
      PROVE  ShownInv'
  <2>1. /\ TypeOK /\ request[p] \in Requests /\ DOMAIN world \subseteq Positions
        /\ CallOK(DOMAIN world, todo[p][1], request[p]) /\ todo[p][1].call = "hoe"
        /\ Current(p) = todo[p][1]
    BY <1>2, Deciding
  <2>2. request[p].op = "place" /\ Current(p).pos = request[p].pos
    BY <2>1 DEF CallOK
  <2>3. Good(DOMAIN world, more, request[p])
    BY <1>2, <2>1, <2>2, HoeLeaves
  <2>4. taken' \in [DOMAIN world -> Nat]
    BY <1>0, <2>1 DEF TypeOK
  <2> QED  BY <1>0, <1>2, <2>3, <2>4, LastDecisionKeeps
<1> QED  BY <1>1, <1>2 DEF Place

LEMMA PutAnewTypes ==
  ASSUME taken \in [DOMAIN world -> Nat], NEW x, PutAnew(x) \/ UNCHANGED taken
  PROVE  taken' \in [DOMAIN world -> Nat]
  BY DEF PutAnew

LEMMA PlaceSecondHalfKeeps ==
  ASSUME ShownInv, NEW p \in Players, PlaceSecondHalf(p)
  PROVE  ShownInv'
<1> DEFINE r == request[p]
           type == PlacedType(r.item, r.face, reg[p].type)
           meta == PlacedMeta(r.item, 0, r.face, r.yaw)
<1>1. At(p, "placed") /\ ReturnOrEnd(p, Placed(r, type, meta)) /\ UNCHANGED <<world, shown, raced>>
  BY DEF PlaceSecondHalf
<1>2. /\ TypeOK /\ request[p] \in Requests /\ DOMAIN world \subseteq Positions
      /\ CallOK(DOMAIN world, todo[p][1], request[p]) /\ todo[p][1].call = "placed"
      /\ reg[p].type \in Int /\ reg[p].meta \in 0 .. 15
  BY <1>1, Deciding
<1>3. r.op = "place"
  BY <1>2 DEF CallOK
<1>4. r.item \in Int /\ r.face \in Int /\ r.yaw \in Int
  BY <1>2, <1>3, EditsAssumption
<1>5. type \in Int /\ (type = BLOCK.SPONGE => r.item = BLOCK.SPONGE) /\ meta \in 0 .. 15
  BY <1>2, <1>4, PlacedTypes, PlacedMetas
<1> HIDE DEF type, meta
<1>6. Good(DOMAIN world, Placed(r, type, meta), r)
  BY <1>2, <1>3, <1>5, PlacedLeaves
<1>7. taken' \in [DOMAIN world -> Nat]
  <2>1. PutAnew(SecondHalf(r)) \/ UNCHANGED taken
    BY DEF PlaceSecondHalf
  <2>2. taken \in [DOMAIN world -> Nat]
    BY <1>2 DEF TypeOK
  <2> QED  BY <2>1, <2>2, PutAnewTypes
<1> QED  BY <1>1, <1>6, <1>7, LastDecisionKeeps

LEMMA RefuseKeeps ==
  ASSUME ShownInv, NEW p \in Players, Refuse(p)
  PROVE  ShownInv'
<1>1. At(p, "put") /\ ReturnOrEnd(p, <<>>) /\ UNCHANGED <<world, shown, taken, raced>>
  BY DEF Refuse
<1>2. TypeOK
  BY DEF ShownInv
<1>3. Good(DOMAIN world, <<>>, request[p])
  BY Good0
<1>4. taken' \in [DOMAIN world -> Nat]
  BY <1>1, <1>2 DEF TypeOK
<1> QED  BY <1>1, <1>3, <1>4, LastDecisionKeeps

LEMMA PutBlockKeeps ==
  ASSUME ShownInv, NEW p \in Players, PutBlock(p)
  PROVE  ShownInv'
<1> DEFINE f == todo[p][1]
<1>1. /\ At(p, "put") /\ ReturnOrEnd(p, Put(Current(p).pos, Current(p).type, Current(p).meta))
      /\ PutAnew(Current(p).pos) /\ UNCHANGED <<world, shown, raced>>
  BY DEF PutBlock
<1>2. /\ TypeOK /\ request[p] \in Requests /\ DOMAIN world \subseteq Positions
      /\ CallOK(DOMAIN world, f, request[p]) /\ f.call = "put" /\ f \in Frame /\ Current(p) = f
  BY <1>1, Deciding
<1>3. /\ request[p].op = "place" /\ f.pos = Target(request[p])
      /\ f.type = BLOCK.SPONGE => request[p].item = BLOCK.SPONGE
      /\ f.type \in Int /\ f.meta \in Int
  BY <1>2 DEF CallOK, Frame
<1>4. Good(DOMAIN world, Put(Current(p).pos, Current(p).type, Current(p).meta), request[p])
  BY <1>2, <1>3, PutLeaves
<1>5. taken' \in [DOMAIN world -> Nat]
  <2>1. taken \in [DOMAIN world -> Nat]
    BY <1>2 DEF TypeOK
  <2> QED  BY <1>1, <2>1, PutAnewTypes
<1> QED  BY <1>1, <1>4, <1>5, LastDecisionKeeps

LEMMA SoakKeeps ==
  ASSUME ShownInv, NEW p \in Players, Soak(p)
  PROVE  ShownInv'
<1> DEFINE f == todo[p][1]
           rest == SoakFrom(Target(request[p]), f.meta + 1)
<1>1. /\ TypeOK /\ request[p] \in Requests /\ DOMAIN world \subseteq Positions
      /\ CallOK(DOMAIN world, f, request[p]) /\ f.call = "soak" /\ f \in Frame /\ Current(p) = f
      /\ f.pos \in TouchedIn(DOMAIN world, request[p])
  <2>1. At(p, "soak")
    BY DEF Soak
  <2> QED  BY <2>1, Deciding
<1>2. /\ request[p].op = "place" /\ request[p].item = BLOCK.SPONGE /\ f.meta \in 0 .. LastCell
  BY <1>1 DEF CallOK
<1>3. f.meta + 1 \in Nat
  BY <1>2 DEF LastCell
<1>4. /\ Good(DOMAIN world, <<>> \o rest, request[p])
      /\ Good(DOMAIN world, PlaceBlockUpdate(f.pos, BLOCK.AIR, 0) \o rest, request[p])
  BY <1>1, <1>2, <1>3, Air0, SoakedLeaves
<1>5. PICK more : /\ At(p, "soak") /\ ReturnOrEnd(p, more) /\ UNCHANGED <<world, shown, taken, raced>>
                  /\ more \in {<<>> \o rest, PlaceBlockUpdate(f.pos, BLOCK.AIR, 0) \o rest}
  <2> HIDE DEF rest
  <2>1. ReturnOrEnd(p, (IF reg[p].type \in Water THEN PlaceBlockUpdate(f.pos, BLOCK.AIR, 0) ELSE <<>>) \o rest)
    BY <1>1 DEF Soak, rest
  <2> QED  BY <2>1 DEF Soak
<1>6. taken' \in [DOMAIN world -> Nat]
  BY <1>1, <1>5 DEF TypeOK
<1> QED  BY <1>4, <1>5, <1>6, LastDecisionKeeps

(* ---------------------------- the whole program ------------------------- *)

LEMMA ReceiveKeeps ==
  ASSUME ShownInv, NEW p \in Players, Receive(p)
  PROVE  ShownInv'
<1> DEFINE Meetings(r) == UNION {ReachIn(DOMAIN world, r) \cap ReachIn(DOMAIN world, request[q]) : q \in Busy}
<1>0. TypeOK /\ Handlers /\ ReadRight /\ MeetingsRaced /\ ToldSoon /\ todo[p] = <<>>
  BY DEF ShownInv, Receive
<1>1. PICK r \in Requests :
        /\ r.op \in {"dig", "place"}
        /\ request' = [request EXCEPT ![p] = r]
        /\ todo' = [todo EXCEPT ![p] = AfterLook(r.op, r.pos, BLOCK.AIR)]
        /\ raced' = raced \cup Meetings(r)
  <2>1. PICK r \in Requests :
          /\ r.op \in {"dig", "place"}
          /\ request' = [request EXCEPT ![p] = r]
          /\ todo' = [todo EXCEPT ![p] = AfterLook(r.op, r.pos, BLOCK.AIR)]
          /\ raced' = raced \cup UNION {Reach(r) \cap Reach(request[q]) : q \in Busy}
    BY DEF Receive
  <2>2. UNION {Reach(r) \cap Reach(request[q]) : q \in Busy} = Meetings(r)
    BY ReachIsReach
  <2> QED  BY <2>1, <2>2
<1>2. UNCHANGED <<world, reg, shown, taken>>
  BY DEF Receive
<1> DEFINE c == [call |-> r.op, do |-> "look", pos |-> r.pos, type |-> BLOCK.AIR, meta |-> 0]
<1>3. AfterLook(r.op, r.pos, BLOCK.AIR) = <<c>>
  BY DEF AfterLook, Call
<1>4. DOMAIN world \subseteq Positions /\ r.pos \in Positions /\ r.pos \in TouchedIn(DOMAIN world, r)
  BY <1>0, Places_, RequestPositions DEF TypeOK
<1>5. c \in Frame
  BY <1>1, <1>4, Air0 DEF Frame, Lookers, TypeLookers
<1>6. c.call = r.op /\ c.do = "look" /\ c.pos = r.pos
  OBVIOUS
<1> HIDE DEF c
<1>7. CallOK(DOMAIN world, c, r) /\ c.call \in Single /\ Fresh(<<c>>, r)
  BY <1>1, <1>4, <1>6 DEF CallOK, Lookers, Single, Fresh
<1>8. Good(DOMAIN world, <<c>>, r)
  BY <1>1, <1>5, <1>7, Good1
<1> DEFINE s == <<c>>
<1>9. s \in Seq(Frame) /\ CallsOK(DOMAIN world, s, r) /\ s # <<>> /\ s[1] = c
  BY <1>5, <1>8 DEF Good
<1>10. todo' = [todo EXCEPT ![p] = s]
  BY <1>1, <1>3
<1> HIDE DEF s
<1>11. /\ todo'[p] = s /\ request'[p] = r
       /\ \A q \in Players : q # p => todo'[q] = todo[q] /\ request'[q] = request[q]
  BY <1>0, <1>1, <1>10 DEF TypeOK
<1>12. TypeOK'
  BY <1>0, <1>1, <1>2, <1>9, <1>10 DEF TypeOK
<1>13. Handlers'
  BY <1>0, <1>2, <1>9, <1>11 DEF Handlers
<1>14. ReadRight'
  <2> SUFFICES ASSUME NEW q \in Players, todo'[q] # <<>>
               PROVE  Right(todo'[q][1], request'[q], world, reg[q], raced')
    BY <1>2 DEF ReadRight
  <2>1. CASE q = p
    <3>1. Right(c, r, world, reg[p], raced')
      BY <1>6 DEF Right
    <3> QED  BY <2>1, <3>1, <1>9, <1>11
  <2>2. CASE q # p
    <3>1. Right(todo[q][1], request[q], world, reg[q], raced)
      BY <1>0, <1>11, <2>2 DEF ReadRight
    <3>2. Right(todo[q][1], request[q], world, reg[q], raced')
      <4>1. raced \subseteq raced'
        BY <1>1
      <4> HIDE DEF Meetings
      <4> QED  BY <3>1, <4>1 DEF Right
    <3> QED  BY <2>2, <3>2, <1>11
  <2> QED  BY <2>1, <2>2
<1>15. MeetingsRaced'
  <2>1. \A q \in Players : q # p /\ todo[q] # <<>> =>
          ReachIn(DOMAIN world, r) \cap ReachIn(DOMAIN world, request[q]) \subseteq raced'
    BY <1>1 DEF Busy
  <2>2. raced \subseteq raced'
    BY <1>1
  <2> HIDE DEF Meetings
  <2>3. ASSUME NEW a \in Players, NEW b \in Players, a # b, todo'[a] # <<>>, todo'[b] # <<>>
        PROVE  ReachIn(DOMAIN world, request'[a]) \cap ReachIn(DOMAIN world, request'[b]) \subseteq raced'
    <3>1. CASE a = p
      BY <3>1, <2>1, <2>3, <1>11
    <3>2. CASE b = p
      BY <3>2, <2>1, <2>3, <1>11
    <3>3. CASE a # p /\ b # p
      BY <3>3, <2>2, <2>3, <1>0, <1>11 DEF MeetingsRaced
    <3> QED  BY <3>1, <3>2, <3>3
  <2> QED  BY <2>3, <1>2 DEF MeetingsRaced
<1>16. ToldSoon'
  <2> SUFFICES ASSUME NEW x \in DOMAIN world, x \notin raced'
               PROVE  shown[x] = world[x] \/ \E q \in Players : Announces(todo'[q], x)
    BY <1>2 DEF ToldSoon
  <2>1. x \notin raced
    BY <1>1
  <2>2. shown[x] = world[x] \/ \E q \in Players : Announces(todo[q], x)
    BY <2>1, <1>0 DEF ToldSoon
  <2>3. \A q \in Players : Announces(todo[q], x) => q # p
    BY <1>0 DEF Announces
  <2> QED  BY <2>2, <2>3, <1>11
<1> QED  BY <1>12, <1>13, <1>14, <1>15, <1>16 DEF ShownInv

LEMMA ShownInitially ==
  ASSUME Init
  PROVE  ShownInv
<1>1. TypeOK
  <2>1. world \in Worlds
    BY DEF Init
  <2>2. DOMAIN world \subseteq Positions /\ world \in [DOMAIN world -> Block]
    BY <2>1, EditsAssumption
  <2>3. Nothing \in [type : Int, meta : 0 .. 15, byte : (0 .. 15) \X (0 .. 15)]
    BY Air0 DEF Nothing
  <2>4. <<>> \in Seq(Frame)
    OBVIOUS
  <2> QED  BY <2>2, <2>3, <2>4 DEF Init, TypeOK
<1>2. \A p \in Players : todo[p] = <<>>
  BY DEF Init
<1>3. Handlers
  <2>1. \A r : CallsOK(DOMAIN world, <<>>, r)
    BY Good0 DEF Good
  <2> QED  BY <1>2, <2>1 DEF Handlers
<1>4. ReadRight /\ MeetingsRaced
  BY <1>2 DEF ReadRight, MeetingsRaced
<1>5. ToldSoon
  BY DEF Init, ToldSoon
<1> QED  BY <1>1, <1>3, <1>4, <1>5 DEF ShownInv

LEMMA ShownStep ==
  ASSUME ShownInv, [Next]_vars
  PROVE  ShownInv'
<1>1. CASE UNCHANGED vars
  BY <1>1 DEF vars, ShownInv, TypeOK, Handlers, ReadRight, MeetingsRaced, ToldSoon
<1>2. ASSUME NEW p \in Players, UpdateSign(p)
      PROVE  ShownInv'
  BY <1>2 DEF UpdateSign, ShownInv, TypeOK, Handlers, ReadRight, MeetingsRaced, ToldSoon
<1>3. ASSUME NEW p \in Players,
             \/ Receive(p) \/ UpdateSign(p)
             \/ ReadType(p) \/ ReadMeta(p) \/ WriteType(p) \/ LoadMeta(p) \/ StoreMeta(p) \/ Tell(p)
             \/ Dig(p) \/ DigOtherHalf(p) \/ Interact(p) \/ SwingOtherHalf(p)
             \/ Place(p) \/ PlaceSecondHalf(p) \/ Refuse(p) \/ PutBlock(p) \/ Soak(p)
      PROVE  ShownInv'
  BY <1>2, <1>3, ReceiveKeeps, ReadTypeKeeps, ReadMetaKeeps, WriteTypeKeeps, LoadMetaKeeps, StoreMetaKeeps,
     TellKeeps, DigKeeps, HalfKeeps, InteractKeeps, PlaceKeeps, PlaceSecondHalfKeeps, RefuseKeeps,
     PutBlockKeeps, SoakKeeps
<1> QED  BY <1>1, <1>3 DEF Next

(* Whatever the handlers of a packet do, in whatever order their accesses   *)
(* come: what they have read of a block that no second handler reached is   *)
(* so, and a block of which the clients have not heard is about to be told. *)
THEOREM Invariance == Spec => []ShownInv
<1>1. Init => ShownInv
  BY ShownInitially
<1>2. ShownInv /\ [Next]_vars => ShownInv'
  BY ShownStep
<1> QED  BY <1>1, <1>2, PTL DEF Spec

(* Once nobody is at a block any more, what the clients were told last of   *)
(* it is the block, unless two handlers were at it at once. *)
THEOREM ToldIsTheBlock == Spec => []ShownIsTheBlock
<1>1. ShownInv => ShownIsTheBlock
  <2> SUFFICES ASSUME ShownInv, NEW x \in Settled PROVE shown[x] = world[x]
    BY DEF ShownIsTheBlock
  <2>1. TypeOK /\ Handlers /\ ToldSoon
    BY DEF ShownInv
  <2>2. x \in DOMAIN world \ raced /\ \A q \in Busy : x \notin ReachIn(DOMAIN world, request[q])
    BY ReachIsReach DEF Settled
  <2>3. ASSUME NEW q \in Players, Announces(todo[q], x) PROVE FALSE
    <3>1. q \in Busy /\ todo[q] # <<>> /\ todo[q][1].pos = x
      BY <2>3 DEF Announces, Busy
    <3>2. x \in ReachIn(DOMAIN world, request[q])
      BY <2>1, <2>2, <3>1, TopReach
    <3> QED  BY <2>2, <3>1, <3>2
  <2> QED  BY <2>1, <2>2, <2>3 DEF ToldSoon
<1> QED  BY <1>1, Invariance, PTL

(* ------------------- the blocks as they will have become ---------------- *)

Clean == DOMAIN world \ disturbed

Reached(p) == ReachIn(DOMAIN world, request[p])

(* A handler either works on blocks that are disturbed anyway, or has those *)
(* it reaches for itself. *)
Disturbance ==
  /\ raced \subseteq disturbed /\ disturbed \subseteq DOMAIN world
  /\ \A p \in Players : todo[p] # <<>> =>
       \/ Reached(p) \subseteq disturbed
       \/ /\ Reached(p) \cap disturbed = {}
          /\ \A q \in Players : q # p /\ todo[q] # <<>> => Reached(p) \cap Reached(q) = {}

Written(f) == [type |-> f.type, meta |-> f.meta % 16]

WritesAt(s, i, x) == Len(s) >= i /\ s[i].call = "write" /\ s[i].pos = x

TopAt(s, name, x) == Len(s) >= 1 /\ s[1].call = name /\ s[1].pos = x

(* The lower half of a door is about to be put. *)
DoorPut(s, r, x) ==
  /\ Len(s) >= 1
  /\ s[Len(s)].call = "put" /\ s[Len(s)].pos = x /\ s[Len(s)].type \in Doors
  /\ IsDoorItem(r.item)

Swung(b) == [type |-> b.type, meta |-> Toggled(b.meta)]

(* What the calls on the stack leave where b is now. *)
Left(s, r, b, x) ==
  IF DoorPut(s, r, x) THEN Written(s[Len(s)])
  ELSE IF WritesAt(s, 1, x) THEN Written(s[1])
  ELSE IF WritesAt(s, 2, x) THEN Written(s[2])
  ELSE IF WritesAt(s, 3, x) THEN Written(s[3])
  ELSE IF TopAt(s, "half", x) /\ b.type = s[1].type THEN Air
  ELSE IF TopAt(s, "swing", x) /\ b.type = s[1].type THEN Swung(b)
  ELSE b

(* n drops were given of what is to become b. *)
Gone(n, b, pending) == n <= 1 /\ (n = 1 => b.type = BLOCK.AIR \/ pending)

(* When the handlers under way have ended, the blocks are w. *)
Ends(w) ==
  \A x \in Clean :
    /\ \A p \in Players : todo[p] # <<>> /\ x \in Reached(p) =>
         /\ w[x] = Left(todo[p], request[p], world[x], x)
         /\ Gone(taken[x], w[x], DoorPut(todo[p], request[p], x))
    /\ (\A p \in Players : todo[p] # <<>> => x \notin Reached(p)) =>
         w[x] = world[x] /\ Gone(taken[x], w[x], FALSE)

Whole(w, clean) ==
  \A x \in clean :
    w[x].type \in Doors /\ OtherDoorHalf(x, w[x].meta) \in clean =>
      BelongTogether(w[x], w[OtherDoorHalf(x, w[x].meta)])

(* What has been written is there, and what is to be put takes the place of *)
(* no door, its own second half included. *)
Prepared(s, r, w, at) ==
  /\ s[1].call = "write" /\ s[1].do \in {"load", "store"} /\ s[1].pos \in DOMAIN w \ at =>
       w[s[1].pos].type = s[1].type
  /\ s[Len(s)].call \in {"place", "placed", "put"} /\ Target(r) \in DOMAIN w \ at =>
       /\ \/ w[Target(r)].type \notin Doors
          \/ s[Len(s)].call = "place" /\ IsInteractable(BlockIn(w, r.pos).type)
       /\ s[Len(s)].call = "put" /\ Len(s) > 1 => IsDouble(r.item) /\ s[1].pos = SecondHalf(r)

AllPrepared == \A p \in Players : todo[p] # <<>> => Prepared(todo[p], request[p], world, disturbed)

Foreseen(w) ==
  /\ Disturbance
  /\ AllPrepared
  /\ w \in [DOMAIN world -> Block]
  /\ Ends(w)
  /\ Whole(w, Clean)

WholeInv == \E w : Foreseen(w)

(* ------------------------------ the two halves -------------------------- *)

LEMMA Bits ==
  \A m \in 0 .. 15 : /\ Toggled(m) \in 0 .. 15 /\ Toggled(m) % 16 = Toggled(m) /\ m % 16 = m
                     /\ IsTop(Toggled(m)) <=> IsTop(m)
<1> SUFFICES ASSUME NEW m \in 0 .. 15
             PROVE  /\ Toggled(m) \in 0 .. 15 /\ Toggled(m) % 16 = Toggled(m) /\ m % 16 = m
                    /\ IsTop(Toggled(m)) <=> IsTop(m)
  OBVIOUS
<1>1. CASE (m \div 4) % 2 = 1
  <2>1. Toggled(m) = m - 4 /\ m - 4 \in 0 .. 15
    BY <1>1 DEF Toggled
  <2>2. (m - 4) \div 8 = m \div 8
    BY <1>1
  <2> QED  BY <2>1, <2>2 DEF IsTop
<1>2. CASE (m \div 4) % 2 # 1
  <2>1. Toggled(m) = m + 4 /\ m + 4 \in 0 .. 15
    BY <1>2 DEF Toggled
  <2>2. (m + 4) \div 8 = m \div 8
    BY <1>2
  <2> QED  BY <2>1, <2>2 DEF IsTop
<1> QED  BY <1>1, <1>2

LEMMA BothToggled ==
  ASSUME NEW m \in 0 .. 15, NEW n \in 0 .. 15, m % 8 = n % 8
  PROVE  Toggled(m) % 8 = Toggled(n) % 8
<1>1. ASSUME NEW k \in 0 .. 15
      PROVE  Toggled(k) % 8 = IF k % 8 >= 4 THEN (k % 8) - 4 ELSE (k % 8) + 4
  <2>1. CASE (k \div 4) % 2 = 1
    <3>1. Toggled(k) = k - 4
      BY <2>1 DEF Toggled
    <3>2. k % 8 >= 4 /\ (k - 4) % 8 = (k % 8) - 4
      BY <2>1
    <3> QED  BY <3>1, <3>2
  <2>2. CASE (k \div 4) % 2 # 1
    <3>1. Toggled(k) = k + 4
      BY <2>2 DEF Toggled
    <3>2. k % 8 < 4 /\ (k + 4) % 8 = (k % 8) + 4
      BY <2>2
    <3> QED  BY <3>1, <3>2
  <2> QED  BY <2>1, <2>2
<1> QED  BY <1>1

(* The other half of the other half is the half. *)
LEMMA BackAgain ==
  ASSUME NEW x \in Positions, NEW m, NEW n, ~(IsTop(n) <=> IsTop(m))
  PROVE  OtherDoorHalf(OtherDoorHalf(x, m), n) = x
<1>1. PICK a \in Int, b \in Int, c \in Int : x = <<a, b, c>>
  BY DEF Positions
<1>2. /\ Move(<<a, b, c>>, 0, 1, 0) = <<a, b + 1, c>> /\ Move(<<a, b, c>>, 0, -1, 0) = <<a, b - 1, c>>
      /\ Move(<<a, b + 1, c>>, 0, -1, 0) = <<a, b, c>> /\ Move(<<a, b - 1, c>>, 0, 1, 0) = <<a, b, c>>
  BY DEF Move
<1> QED  BY <1>1, <1>2 DEF OtherDoorHalf

(* What a door tells of its other half. *)
LEMMA Paired ==
  ASSUME NEW C \in SUBSET Positions, NEW w, Whole(w, C), NEW x \in C, w[x].type \in Doors,
         NEW y \in C, y = OtherDoorHalf(x, w[x].meta)
  PROVE  /\ w[y].type = w[x].type /\ BelongTogether(w[x], w[y])
         /\ OtherDoorHalf(y, w[y].meta) = x
<1>1. BelongTogether(w[x], w[y])
  BY DEF Whole
<1> QED  BY <1>1, BackAgain DEF BelongTogether

LEMMA WholeLess ==
  ASSUME NEW w, NEW C, Whole(w, C), NEW D \in SUBSET C
  PROVE  Whole(w, D)
  BY DEF Whole

(* Changes of blocks that are no doors, to such. *)
LEMMA NoDoorChanged ==
  ASSUME NEW w, NEW C, Whole(w, C), NEW v,
         \A x \in C : v[x] = w[x] \/ (w[x].type \notin Doors /\ v[x].type \notin Doors)
  PROVE  Whole(v, C)
<1> SUFFICES ASSUME NEW x \in C, NEW y, y = OtherDoorHalf(x, v[x].meta), y \in C, v[x].type \in Doors
             PROVE  BelongTogether(v[x], v[y])
  BY DEF Whole
<1>1. v[x] = w[x]
  OBVIOUS
<1>2. BelongTogether(w[x], w[y])
  BY <1>1 DEF Whole
<1>3. w[y].type \in Doors
  BY <1>1, <1>2 DEF BelongTogether
<1> QED  BY <1>1, <1>2, <1>3

(* Both halves go. *)
LEMMA BothGone ==
  ASSUME NEW C \in SUBSET Positions, NEW w, Whole(w, C), NEW v,
         NEW x \in C, w[x].type \in Doors, v[x].type \notin Doors,
         NEW y, y = OtherDoorHalf(x, w[x].meta), y \in C => v[y].type \notin Doors,
         \A z \in C : z \notin {x, y} => v[z] = w[z]
  PROVE  Whole(v, C)
<1> SUFFICES ASSUME NEW z \in C, NEW u, u = OtherDoorHalf(z, v[z].meta), u \in C, v[z].type \in Doors
             PROVE  BelongTogether(v[z], v[u])
  BY DEF Whole
<1>1. z \notin {x, y} /\ v[z] = w[z]
  OBVIOUS
<1>2. BelongTogether(w[z], w[u]) /\ OtherDoorHalf(u, w[u].meta) = z
  BY <1>1, Paired
<1>3. u # x
  BY <1>1, <1>2
<1>4. u # y
  <2> SUFFICES ASSUME u = y PROVE FALSE
    OBVIOUS
  <2>1. OtherDoorHalf(u, w[u].meta) = x
    BY Paired
  <2> QED  BY <2>1, <1>1, <1>2
<1> QED  BY <1>1, <1>2, <1>3, <1>4

(* Both halves swing. *)
LEMMA BothSwung ==
  ASSUME NEW C \in SUBSET Positions, NEW w, Whole(w, C), NEW v,
         \A z \in C : w[z] \in Block,
         NEW x \in C, w[x].type \in Doors, v[x] = Swung(w[x]),
         NEW y, y = OtherDoorHalf(x, w[x].meta), y \in C => v[y] = Swung(w[y]),
         \A z \in C : z \notin {x, y} => v[z] = w[z]
  PROVE  Whole(v, C)
<1> SUFFICES ASSUME NEW z \in C, NEW u, u = OtherDoorHalf(z, v[z].meta), u \in C, v[z].type \in Doors
             PROVE  BelongTogether(v[z], v[u])
  BY DEF Whole
<1>0. \A k \in C : w[k].meta \in 0 .. 15
  BY DEF Block
<1>1. \A k \in C : /\ Swung(w[k]).type = w[k].type /\ Swung(w[k]).meta = Toggled(w[k].meta)
                   /\ OtherDoorHalf(k, Swung(w[k]).meta) = OtherDoorHalf(k, w[k].meta)
  BY <1>0, Bits DEF Swung, OtherDoorHalf
<1>2. \A k \in C, l \in C : BelongTogether(w[k], w[l]) => BelongTogether(Swung(w[k]), Swung(w[l]))
  <2> SUFFICES ASSUME NEW k \in C, NEW l \in C, BelongTogether(w[k], w[l])
               PROVE  BelongTogether(Swung(w[k]), Swung(w[l]))
    OBVIOUS
  <2>1. w[l].type = w[k].type /\ ~(IsTop(w[l].meta) <=> IsTop(w[k].meta)) /\ w[l].meta % 8 = w[k].meta % 8
    BY DEF BelongTogether
  <2>2. Toggled(w[l].meta) % 8 = Toggled(w[k].meta) % 8
    BY <1>0, <2>1, BothToggled
  <2>3. ~(IsTop(Toggled(w[l].meta)) <=> IsTop(Toggled(w[k].meta)))
    BY <1>0, <2>1, Bits
  <2> QED  BY <1>1, <2>1, <2>2, <2>3 DEF BelongTogether
<1>3. CASE z = x
  <2>1. u = y
    BY <1>1, <1>3
  <2> QED  BY <1>1, <1>2, <1>3, <2>1, Paired
<1>4. CASE z = y /\ z # x
  <2>1. u = x
    BY <1>1, <1>4, Paired
  <2>2. BelongTogether(w[y], w[x])
    BY <1>1, <1>4, <2>1, Paired
  <2> QED  BY <1>2, <1>4, <2>1, <2>2
<1>5. CASE z \notin {x, y}
  <2>1. v[z] = w[z]
    BY <1>5
  <2>2. BelongTogether(w[z], w[u]) /\ OtherDoorHalf(u, w[u].meta) = z
    BY <2>1, Paired
  <2>3. u # x
    BY <1>5, <2>2
  <2>4. u = y => OtherDoorHalf(u, w[u].meta) = x
    BY Paired
  <2> QED  BY <1>5, <2>1, <2>2, <2>3, <2>4
<1> QED  BY <1>3, <1>4, <1>5

(* A door comes where there was none. *)
LEMMA DoorPlaced ==
  ASSUME NEW C \in SUBSET Positions, NEW w, Whole(w, C), NEW v,
         NEW x \in Positions, NEW y, y = Move(x, 0, 1, 0),
         NEW a, NEW b, a.type \in Doors, ~IsTop(a.meta), BelongTogether(a, b),
         x \in C => w[x].type \notin Doors /\ v[x] = a,
         y \in C => w[y].type \notin Doors /\ v[y] = b,
         \A z \in C : z \notin {x, y} => v[z] = w[z]
  PROVE  Whole(v, C)
<1> SUFFICES ASSUME NEW z \in C, NEW u, u = OtherDoorHalf(z, v[z].meta), u \in C, v[z].type \in Doors
             PROVE  BelongTogether(v[z], v[u])
  BY DEF Whole
<1>1. IsTop(b.meta) /\ BelongTogether(b, a)
  BY DEF BelongTogether
<1>2. OtherDoorHalf(x, a.meta) = y /\ OtherDoorHalf(y, b.meta) = x
  <2>1. OtherDoorHalf(x, a.meta) = y
    BY DEF OtherDoorHalf
  <2> QED  BY <1>1, <2>1, BackAgain
<1>3. CASE z = x
  <2>1. u = y
    BY <1>2, <1>3
  <2> QED  BY <1>3, <2>1
<1>4. CASE z = y /\ z # x
  <2>1. u = x
    BY <1>2, <1>4
  <2> QED  BY <1>1, <1>4, <2>1
<1>5. CASE z \notin {x, y}
  <2>1. v[z] = w[z] /\ BelongTogether(w[z], w[u])
    BY <1>5 DEF Whole
  <2>2. w[u].type \in Doors
    BY <2>1 DEF BelongTogether
  <2> QED  BY <2>1, <2>2
<1> QED  BY <1>3, <1>4, <1>5

(* --------------------------- what stacks leave -------------------------- *)

Changing == {"write", "half", "swing"}

LEMMA LeftNothing ==
  ASSUME NEW s, Len(s) = 0, NEW r, NEW b, NEW x
  PROVE  Left(s, r, b, x) = b /\ ~DoorPut(s, r, x)
  BY DEF Left, DoorPut, WritesAt, TopAt

LEMMA LeftTop ==
  ASSUME NEW s, Len(s) = 1, s[1].call \notin Changing, NEW r, NEW b, NEW x
  PROVE  /\ DoorPut(s, r, x) <=> s[1].call = "put" /\ s[1].pos = x /\ s[1].type \in Doors /\ IsDoorItem(r.item)
         /\ Left(s, r, b, x) = IF DoorPut(s, r, x) THEN Written(s[1]) ELSE b
  BY DEF Left, DoorPut, WritesAt, TopAt, Changing

(* A block that is written, and no door after it. *)
LEMMA LeftUpdate ==
  ASSUME NEW s, Len(s) = 2 \/ Len(s) = 3, s[1].call = "write", s[2].call = "tell", NEW r, NEW b, NEW x,
         Len(s) = 3 => /\ s[3].call \notin Changing
                       /\ ~(s[3].call = "put" /\ s[3].type \in Doors /\ IsDoorItem(r.item))
  PROVE  /\ ~DoorPut(s, r, x)
         /\ Left(s, r, b, x) = IF x = s[1].pos THEN Written(s[1]) ELSE b
<1>1. ~DoorPut(s, r, x)
  BY DEF DoorPut
<1>2. WritesAt(s, 1, x) <=> s[1].pos = x
  BY DEF WritesAt
<1>3. ~WritesAt(s, 2, x) /\ ~WritesAt(s, 3, x) /\ ~TopAt(s, "half", x) /\ ~TopAt(s, "swing", x)
  BY DEF WritesAt, TopAt, Changing
<1> QED  BY <1>1, <1>2, <1>3 DEF Left

(* The other half of a door, then the block of the packet. *)
LEMMA LeftHalf ==
  ASSUME NEW s, Len(s) = 3 \/ Len(s) = 4, s[1].call \in {"half", "swing"}, s[2].call = "write", s[3].call = "tell",
         Len(s) = 4 => s[4].call = "interact", s[2].pos # s[1].pos, NEW r, NEW b, NEW x
  PROVE  /\ ~DoorPut(s, r, x)
         /\ Left(s, r, b, x) = IF x = s[2].pos THEN Written(s[2])
                               ELSE IF x = s[1].pos /\ b.type = s[1].type
                               THEN IF s[1].call = "half" THEN Air ELSE Swung(b)
                               ELSE b
<1>1. ~DoorPut(s, r, x)
  BY DEF DoorPut
<1>2. WritesAt(s, 2, x) <=> s[2].pos = x
  BY DEF WritesAt
<1>3. ~WritesAt(s, 1, x) /\ ~WritesAt(s, 3, x)
  BY DEF WritesAt
<1>4. /\ TopAt(s, "half", x) <=> s[1].call = "half" /\ s[1].pos = x
      /\ TopAt(s, "swing", x) <=> s[1].call = "swing" /\ s[1].pos = x
  BY DEF TopAt
<1> QED  BY <1>1, <1>2, <1>3, <1>4 DEF Left

(* Both halves of a door to be. *)
LEMMA LeftPlaced ==
  ASSUME NEW s, Len(s) = 3, s[1].call = "write", s[2].call = "tell", s[3].call = "put", NEW r, NEW b, NEW x,
         s[3].type \in Doors, IsDoorItem(r.item)
  PROVE  /\ DoorPut(s, r, x) <=> x = s[3].pos
         /\ Left(s, r, b, x) = IF x = s[3].pos THEN Written(s[3])
                               ELSE IF x = s[1].pos THEN Written(s[1]) ELSE b
<1>1. DoorPut(s, r, x) <=> x = s[3].pos
  BY DEF DoorPut
<1>2. WritesAt(s, 1, x) <=> s[1].pos = x
  BY DEF WritesAt
<1>3. ~WritesAt(s, 2, x) /\ ~WritesAt(s, 3, x) /\ ~TopAt(s, "half", x) /\ ~TopAt(s, "swing", x)
  BY DEF WritesAt, TopAt
<1> QED  BY <1>1, <1>2, <1>3 DEF Left

(* The call on top of s has come to its next access in t. *)
Advances(s, t) ==
  /\ Len(s) \in Nat /\ Len(s) > 0 /\ Len(t) = Len(s) /\ \A i \in 2 .. Len(s) : t[i] = s[i]
  /\ t[1].call = s[1].call /\ t[1].pos = s[1].pos /\ t[1].type = s[1].type /\ t[1].meta = s[1].meta

(* It has ended in t. *)
Pops(s, t) ==
  Len(s) \in Nat /\ Len(s) > 0 /\ Len(t) = Len(s) - 1 /\ \A i \in 1 .. Len(t) : t[i] = s[i + 1]

LEMMA SteppedAdvances ==
  ASSUME NEW s \in Seq(Frame), s # <<>>, NEW access \in {"set", "load", "store", "look", "type", "meta", "act"}
  PROVE  Advances(s, Stepped(s, access))
<1> DEFINE t == Stepped(s, access)
           a == [Head(s) EXCEPT !.do = access]
<1>1. Head(s) = s[1] /\ s[1] \in Frame /\ Tail(s) \in Seq(Frame) /\ Len(Tail(s)) = Len(s) - 1 /\ Len(s) \in Nat
      /\ Len(s) > 0 /\ \A i \in 1 .. Len(s) - 1 : Tail(s)[i] = s[i + 1]
  BY Stacks
<1>2. /\ a \in Frame /\ a.call = s[1].call /\ a.pos = s[1].pos /\ a.type = s[1].type /\ a.meta = s[1].meta
  BY <1>1 DEF Frame
<1> HIDE DEF a
<1>3. <<a>> \in Seq(Frame) /\ Len(<<a>>) = 1 /\ <<a>>[1] = a
  BY <1>2
<1>4. /\ Len(t) = 1 + Len(Tail(s))
      /\ \A i \in 1 .. 1 + Len(Tail(s)) : t[i] = IF i <= 1 THEN <<a>>[i] ELSE Tail(s)[i - 1]
  BY <1>1, <1>3, ConcatProperties DEF a, Stepped
<1> HIDE DEF t
<1>5. t[1] = a /\ Len(t) = Len(s)
  BY <1>1, <1>3, <1>4
<1>6. ASSUME NEW i \in 2 .. Len(s)
      PROVE  t[i] = s[i]
  <2>1. t[i] = Tail(s)[i - 1] /\ i - 1 \in 1 .. Len(s) - 1 /\ (i - 1) + 1 = i
    BY <1>1, <1>4
  <2> QED  BY <2>1, <1>1
<1>7. Advances(s, t)
  BY <1>1, <1>2, <1>5, <1>6 DEF Advances
<1> QED  BY <1>7 DEF t

(* What a call does next makes no difference. *)
LEMMA LeftAdvanced ==
  ASSUME NEW s, NEW t, Advances(s, t), NEW r, NEW b, NEW x
  PROVE  Left(t, r, b, x) = Left(s, r, b, x) /\ (DoorPut(t, r, x) <=> DoorPut(s, r, x))
<1>1. \A i \in 1 .. Len(s) : t[i].call = s[i].call /\ t[i].pos = s[i].pos /\ t[i].type = s[i].type /\ Written(t[i]) = Written(s[i])
  BY DEF Written, Advances
<1>2. /\ DoorPut(t, r, x) <=> DoorPut(s, r, x)
      /\ WritesAt(t, 1, x) <=> WritesAt(s, 1, x)
      /\ WritesAt(t, 2, x) <=> WritesAt(s, 2, x)
      /\ WritesAt(t, 3, x) <=> WritesAt(s, 3, x)
      /\ TopAt(t, "half", x) <=> TopAt(s, "half", x)
      /\ TopAt(t, "swing", x) <=> TopAt(s, "swing", x)
  BY <1>1 DEF DoorPut, WritesAt, TopAt, Advances
<1>3. /\ Written(t[1]) = Written(s[1]) /\ Written(t[Len(t)]) = Written(s[Len(s)]) /\ t[1].type = s[1].type
      /\ WritesAt(s, 2, x) => Written(t[2]) = Written(s[2])
      /\ WritesAt(s, 3, x) => Written(t[3]) = Written(s[3])
  BY <1>1 DEF WritesAt, Advances
<1> HIDE DEF Written
<1> QED  BY <1>2, <1>3 DEF Left

(* A call that ends, with what was to come below it. *)
LEMMA LeftBelow ==
  ASSUME NEW s, NEW t, Pops(s, t), s[1].call # "put",
         Len(s) <= 3 \/ s[4].call # "write", Len(s) > 1 => s[2].call \notin {"half", "swing"},
         NEW r, NEW b, NEW x
  PROVE  /\ DoorPut(t, r, x) <=> DoorPut(s, r, x)
         /\ DoorPut(s, r, x) => Written(t[Len(t)]) = Written(s[Len(s)])
         /\ WritesAt(t, 1, x) <=> WritesAt(s, 2, x)
         /\ WritesAt(t, 2, x) <=> WritesAt(s, 3, x)
         /\ ~WritesAt(t, 3, x)
         /\ WritesAt(s, 2, x) => Written(t[1]) = Written(s[2])
         /\ WritesAt(s, 3, x) => Written(t[2]) = Written(s[3])
         /\ ~TopAt(t, "half", x) /\ ~TopAt(t, "swing", x)
<1>0. Len(s) \in Nat /\ Len(s) > 0 /\ Len(t) = Len(s) - 1 /\ \A i \in 1 .. Len(t) : t[i] = s[i + 1]
  BY DEF Pops
<1>1. CASE Len(s) = 1
  BY <1>0, <1>1 DEF DoorPut, WritesAt, TopAt
<1>2. CASE Len(s) > 1
  <2>1. /\ t[1] = s[2] /\ t[Len(t)] = s[Len(s)]
        /\ Len(s) >= 3 => t[2] = s[3]
        /\ Len(s) >= 4 => t[3] = s[4]
    BY <1>0, <1>2
  <2> QED  BY <1>0, <1>2, <2>1 DEF DoorPut, WritesAt, TopAt
<1> QED  BY <1>0, <1>1, <1>2

(* Of the stacks there are, only those of five calls write in the fourth    *)
(* or fifth, and none has a half of a door below its top. *)
LEMMA Below ==
  ASSUME NEW s, NEW r, Len(s) \in Nat, Len(s) > 0, StackOK(s, r)
  PROVE  /\ Len(s) <= 3 \/ s[4].call # "write"
         /\ Len(s) > 1 => s[2].call \notin {"half", "swing"}
         /\ s[1].call = "write" => /\ Len(s) >= 2 /\ s[2].call = "tell"
                                   /\ Len(s) >= 3 /\ s[3].call = "write" => s[3].pos # s[1].pos
         /\ s[1].call \in {"half", "swing"} =>
              /\ Len(s) = 3 \/ (Len(s) = 4 /\ s[4].call = "interact")
              /\ s[2].call = "write" /\ s[3].call = "tell" /\ s[2].pos # s[1].pos
  BY DEF StackOK, Writes, WritesLast, Tells, Tail1, Single

LEMMA LeftTold ==
  ASSUME NEW s, NEW t, Pops(s, t), s[1].call = "tell",
         NEW r, StackOK(s, r), NEW b, NEW x
  PROVE  Left(t, r, b, x) = Left(s, r, b, x) /\ (DoorPut(t, r, x) <=> DoorPut(s, r, x))
<1>1. ~WritesAt(s, 1, x) /\ ~TopAt(s, "half", x) /\ ~TopAt(s, "swing", x)
  BY DEF WritesAt, TopAt
<1>2. /\ DoorPut(t, r, x) <=> DoorPut(s, r, x)
      /\ DoorPut(s, r, x) => Written(t[Len(t)]) = Written(s[Len(s)])
      /\ WritesAt(t, 1, x) <=> WritesAt(s, 2, x)
      /\ WritesAt(t, 2, x) <=> WritesAt(s, 3, x)
      /\ ~WritesAt(t, 3, x)
      /\ WritesAt(s, 2, x) => Written(t[1]) = Written(s[2])
      /\ WritesAt(s, 3, x) => Written(t[2]) = Written(s[3])
      /\ ~TopAt(t, "half", x) /\ ~TopAt(t, "swing", x)
  <2>1. Len(s) \in Nat /\ Len(s) > 0 /\ s[1].call # "put"
    BY DEF Pops
  <2> QED  BY <2>1, Below, LeftBelow
<1> QED  BY <1>1, <1>2 DEF Left

(* The block is as it was to be left, once it is written. *)
LEMMA LeftWritten ==
  ASSUME NEW s, NEW t, Pops(s, t), s[1].call = "write",
         NEW r, StackOK(s, r), NEW b, NEW c, NEW x, c = IF x = s[1].pos THEN Written(s[1]) ELSE b
  PROVE  Left(t, r, c, x) = Left(s, r, b, x) /\ (DoorPut(t, r, x) <=> DoorPut(s, r, x))
<1>1. ~TopAt(s, "half", x) /\ ~TopAt(s, "swing", x) /\ (WritesAt(s, 1, x) <=> x = s[1].pos)
  BY DEF WritesAt, TopAt, Pops
<1>2. /\ DoorPut(t, r, x) <=> DoorPut(s, r, x)
      /\ DoorPut(s, r, x) => Written(t[Len(t)]) = Written(s[Len(s)])
      /\ WritesAt(t, 1, x) <=> WritesAt(s, 2, x)
      /\ WritesAt(t, 2, x) <=> WritesAt(s, 3, x)
      /\ ~WritesAt(t, 3, x)
      /\ WritesAt(s, 2, x) => Written(t[1]) = Written(s[2])
      /\ WritesAt(s, 3, x) => Written(t[2]) = Written(s[3])
      /\ ~TopAt(t, "half", x) /\ ~TopAt(t, "swing", x)
  <2>1. Len(s) \in Nat /\ Len(s) > 0 /\ s[1].call # "put"
    BY DEF Pops
  <2> QED  BY <2>1, Below, LeftBelow
<1>3. ~WritesAt(s, 2, x) /\ (x = s[1].pos => ~WritesAt(s, 3, x))
  BY Below DEF WritesAt, Pops
<1> QED  BY <1>1, <1>2, <1>3 DEF Left

(* The other half is not there. *)
LEMMA LeftNoHalf ==
  ASSUME NEW s, NEW t, Pops(s, t), s[1].call \in {"half", "swing"},
         NEW r, StackOK(s, r), NEW b, NEW x, x = s[1].pos => b.type # s[1].type
  PROVE  Left(t, r, b, x) = Left(s, r, b, x) /\ (DoorPut(t, r, x) <=> DoorPut(s, r, x))
<1>1. /\ TopAt(s, "half", x) => b.type # s[1].type
      /\ TopAt(s, "swing", x) => b.type # s[1].type
      /\ ~WritesAt(s, 1, x)
  BY DEF WritesAt, TopAt
<1>2. /\ DoorPut(t, r, x) <=> DoorPut(s, r, x)
      /\ DoorPut(s, r, x) => Written(t[Len(t)]) = Written(s[Len(s)])
      /\ WritesAt(t, 1, x) <=> WritesAt(s, 2, x)
      /\ WritesAt(t, 2, x) <=> WritesAt(s, 3, x)
      /\ ~WritesAt(t, 3, x)
      /\ WritesAt(s, 2, x) => Written(t[1]) = Written(s[2])
      /\ WritesAt(s, 3, x) => Written(t[2]) = Written(s[3])
      /\ ~TopAt(t, "half", x) /\ ~TopAt(t, "swing", x)
  <2>1. Len(s) \in Nat /\ Len(s) > 0 /\ s[1].call # "put"
    BY DEF Pops
  <2> QED  BY <2>1, Below, LeftBelow
<1> QED  BY <1>1, <1>2 DEF Left

(* The other half is there, and is written next. *)
LEMMA LeftOtherHalf ==
  ASSUME NEW s, NEW t, Len(s) \in Nat, Len(s) > 0, Len(t) = Len(s) + 1,
         \A i \in 2 .. Len(s) : t[i + 1] = s[i], s[1].call \in {"half", "swing"},
         t[1].call = "write", t[1].pos = s[1].pos, t[2].call = "tell",
         NEW r, StackOK(s, r), NEW b, NEW x,
         x = s[1].pos => /\ b.type = s[1].type
                         /\ Written(t[1]) = IF s[1].call = "half" THEN Air ELSE Swung(b)
  PROVE  Left(t, r, b, x) = Left(s, r, b, x) /\ ~DoorPut(t, r, x) /\ ~DoorPut(s, r, x)
<1>1. /\ Len(s) = 3 \/ (Len(s) = 4 /\ s[4].call = "interact")
      /\ s[2].call = "write" /\ s[3].call = "tell" /\ s[2].pos # s[1].pos
  BY Below
<1>2. t[3] = s[2] /\ t[4] = s[3] /\ (Len(s) = 4 => t[5] = s[4])
  BY <1>1
<1>3. ~DoorPut(t, r, x)
  BY <1>1, <1>2 DEF DoorPut
<1>4. /\ WritesAt(t, 1, x) <=> x = s[1].pos
      /\ ~WritesAt(t, 2, x)
      /\ WritesAt(t, 3, x) <=> x = s[2].pos
      /\ ~TopAt(t, "half", x) /\ ~TopAt(t, "swing", x)
  BY <1>1, <1>2 DEF WritesAt, TopAt
<1>5. Left(t, r, b, x) = IF x = s[1].pos THEN Written(t[1]) ELSE IF x = s[2].pos THEN Written(s[2]) ELSE b
  BY <1>2, <1>3, <1>4 DEF Left
<1>6. /\ ~DoorPut(s, r, x)
      /\ Left(s, r, b, x) = IF x = s[2].pos THEN Written(s[2])
                            ELSE IF x = s[1].pos /\ b.type = s[1].type
                            THEN IF s[1].call = "half" THEN Air ELSE Swung(b)
                            ELSE b
  BY <1>1, LeftHalf
<1> QED  BY <1>1, <1>3, <1>5, <1>6

(* ------------------------------ one's own step -------------------------- *)

(* A step of p's handler that leaves alone what it does not reach. *)
Alone(p) ==
  /\ todo[p] # <<>>
  /\ \A q \in Players : q # p => todo'[q] = todo[q] /\ request'[q] = request[q]
  /\ todo'[p] # <<>> => request'[p] = request[p]
  /\ raced' = raced /\ DOMAIN world' = DOMAIN world
  /\ \A x \in DOMAIN world : x \notin Reached(p) => world'[x] = world[x] /\ taken'[x] = taken[x]

Calm(p) == Reached(p) \cap disturbed = {}

LEMMA CalmOrNot ==
  ASSUME Disturbance, NEW p \in Players, todo[p] # <<>>
  PROVE  Reached(p) \subseteq disturbed \/ Calm(p)
  BY DEF Disturbance, Calm

(* Who reaches a clean block has all it reaches for itself. *)
LEMMA Apart ==
  ASSUME Disturbance, NEW p \in Players, NEW q \in Players, q # p, todo[p] # <<>>, todo[q] # <<>>,
         NEW x \in Reached(q), x \notin disturbed
  PROVE  Reached(q) \cap Reached(p) = {} /\ Reached(q) \cap disturbed = {}
  BY DEF Disturbance

(* Where the calls of a stack are. *)
LEMMA Reaching ==
  ASSUME NEW loaded, loaded \subseteq Positions, NEW s \in Seq(Frame), s # <<>>, NEW r, CallsOK(loaded, s, r)
  PROVE  /\ s[1].pos \in loaded => s[1].pos \in ReachIn(loaded, r)
         /\ r.pos \in loaded => r.pos \in ReachIn(loaded, r)
         /\ s[Len(s)].call \in {"place", "placed", "put"} =>
              /\ r.op = "place"
              /\ Target(r) \in loaded => Target(r) \in ReachIn(loaded, r)
<1>1. Len(s) \in Nat /\ Len(s) > 0 /\ r \in Requests
  BY Stacks DEF CallsOK
<1>2. CallOK(loaded, s[1], r) /\ CallOK(loaded, s[Len(s)], r)
  BY <1>1 DEF CallsOK
<1>3. s[1].pos \in TouchedIn(loaded, r) /\ (s[Len(s)].call \in {"place", "placed", "put"} => r.op = "place")
  BY <1>2 DEF CallOK
<1>4. /\ r.pos \in TouchedIn(loaded, r)
      /\ r.op = "place" => Target(r) \in TouchedIn(loaded, r)
  BY <1>1, Places_
<1> QED  BY <1>1, <1>3, <1>4, Reaches

(* The others are as prepared as they were. *)
LEMMA OthersPrepared ==
  ASSUME TypeOK, Handlers, Disturbance, AllPrepared, NEW p \in Players, Alone(p), disturbed \subseteq disturbed',
         NEW q \in Players, q # p, todo[q] # <<>>
  PROVE  Prepared(todo[q], request[q], world', disturbed')
<1> DEFINE s == todo[q]
           r == request[q]
<1>1. Prepared(s, r, world, disturbed) /\ todo[p] # <<>> /\ DOMAIN world' = DOMAIN world
  BY DEF AllPrepared, Alone
<1>2. /\ s[1].pos \in DOMAIN world => s[1].pos \in Reached(q)
      /\ r.pos \in DOMAIN world => r.pos \in Reached(q)
      /\ s[Len(s)].call \in {"place", "placed", "put"} /\ Target(r) \in DOMAIN world => Target(r) \in Reached(q)
  <2>1. DOMAIN world \subseteq Positions /\ s \in Seq(Frame) /\ CallsOK(DOMAIN world, s, r)
    BY DEF TypeOK, Handlers
  <2> HIDE DEF s, r
  <2>2. /\ s[1].pos \in DOMAIN world => s[1].pos \in ReachIn(DOMAIN world, r)
        /\ r.pos \in DOMAIN world => r.pos \in ReachIn(DOMAIN world, r)
        /\ s[Len(s)].call \in {"place", "placed", "put"} /\ Target(r) \in DOMAIN world =>
             Target(r) \in ReachIn(DOMAIN world, r)
    <3>1. s # <<>>
      BY DEF s
    <3> QED  BY <2>1, <3>1, Reaching
  <2>3. Reached(q) = ReachIn(DOMAIN world, r)
    BY DEF Reached, r
  <2> QED  BY <2>2, <2>3
<1>3. ASSUME NEW x \in Reached(q), x \notin disturbed'
      PROVE  x \notin disturbed /\ \A y \in Reached(q) : y \in DOMAIN world /\ world'[y] = world[y]
  <2>1. Reached(q) \cap Reached(p) = {}
    BY <1>1, <1>3, Apart
  <2>2. \A y \in Reached(q) : y \in DOMAIN world
    BY DEF Reached, ReachIn
  <2> QED  BY <1>3, <2>1, <2>2 DEF Alone
<1>4. s[1].pos \in DOMAIN world' \ disturbed' => s[1].pos \in DOMAIN world \ disturbed /\ world'[s[1].pos] = world[s[1].pos]
  BY <1>1, <1>2, <1>3
<1>5. s[Len(s)].call \in {"place", "placed", "put"} /\ Target(r) \in DOMAIN world' \ disturbed' =>
        /\ Target(r) \in DOMAIN world \ disturbed /\ world'[Target(r)] = world[Target(r)]
        /\ BlockIn(world', r.pos) = BlockIn(world, r.pos)
  BY <1>1, <1>2, <1>3 DEF BlockIn
<1>6. Prepared(s, r, world', disturbed')
  <2> HIDE DEF s, r
  <2> QED  BY <1>1, <1>4, <1>5 DEF Prepared
<1> QED  BY <1>6

(* What is disturbed stays so, and the rest is as it was foreseen. *)
LEMMA DisturbedStep ==
  ASSUME ShownInv, ShownInv', NEW w, Foreseen(w), NEW p \in Players, Alone(p),
         disturbed' \in {disturbed, disturbed \cup Reached(p)}, Reached(p) \subseteq disturbed'
  PROVE  Foreseen(w)'
<1>0. /\ TypeOK /\ Handlers /\ TypeOK' /\ Handlers'
      /\ Disturbance /\ AllPrepared /\ w \in [DOMAIN world -> Block] /\ Ends(w) /\ Whole(w, Clean)
      /\ disturbed \subseteq disturbed'
  BY DEF ShownInv, Foreseen
<1>1. /\ todo[p] # <<>> /\ raced' = raced /\ DOMAIN world' = DOMAIN world
      /\ \A q \in Players : q # p => todo'[q] = todo[q] /\ request'[q] = request[q] /\ Reached(q)' = Reached(q)
      /\ todo'[p] # <<>> => request'[p] = request[p] /\ Reached(p)' = Reached(p)
  BY DEF Alone, Reached
<1>2. Clean' \subseteq Clean
  BY <1>0, <1>1 DEF Clean
<1>3. Disturbance'
  <2>1. raced' \subseteq disturbed' /\ disturbed' \subseteq DOMAIN world'
    BY <1>0, <1>1 DEF Disturbance, Reached, ReachIn
  <2>2. ASSUME NEW q \in Players, todo'[q] # <<>>
        PROVE  \/ Reached(q)' \subseteq disturbed'
               \/ /\ Reached(q)' \cap disturbed' = {}
                  /\ \A k \in Players : k # q /\ todo'[k] # <<>> => Reached(q)' \cap Reached(k)' = {}
    <3>1. CASE q = p
      BY <1>1, <2>2, <3>1
    <3>2. CASE q # p /\ Reached(q) \subseteq disturbed
      BY <1>0, <1>1, <3>2
    <3>3. CASE q # p /\ ~(Reached(q) \subseteq disturbed)
      <4>1. /\ Reached(q) \cap disturbed = {}
            /\ \A k \in Players : k # q /\ todo[k] # <<>> => Reached(q) \cap Reached(k) = {}
        BY <1>0, <1>1, <2>2, <3>3 DEF Disturbance
      <4>2. Reached(q) \cap Reached(p) = {}
        BY <1>1, <3>3, <4>1
      <4>3. Reached(q) \cap disturbed' = {}
        BY <4>1, <4>2
      <4>4. \A k \in Players : k # q /\ todo'[k] # <<>> => Reached(q) \cap Reached(k)' = {}
        BY <1>1, <4>1, <4>2
      <4> QED  BY <1>1, <3>3, <4>3, <4>4
    <3> QED  BY <3>1, <3>2, <3>3
  <2> QED  BY <2>1, <2>2 DEF Disturbance
<1>4. AllPrepared'
  <2> SUFFICES ASSUME NEW q \in Players, todo'[q] # <<>>
               PROVE  Prepared(todo'[q], request'[q], world', disturbed')
    BY DEF AllPrepared
  <2>1. CASE q = p
    <3>1. /\ todo'[p][1].pos \in DOMAIN world' => todo'[p][1].pos \in Reached(p)'
          /\ todo'[p][Len(todo'[p])].call \in {"place", "placed", "put"} /\ Target(request'[p]) \in DOMAIN world' =>
               Target(request'[p]) \in Reached(p)'
      <4>1. /\ DOMAIN world' \subseteq Positions /\ todo'[p] \in Seq(Frame)
            /\ CallsOK(DOMAIN world', todo'[p], request'[p]) /\ Reached(p)' = ReachIn(DOMAIN world', request'[p])
        BY <1>0 DEF TypeOK, Handlers, Reached
      <4> QED  BY <2>1, <4>1, Reaching
    <3>2. Reached(p)' \subseteq disturbed'
      BY <1>1, <2>1
    <3> QED  BY <2>1, <3>1, <3>2 DEF Prepared
  <2>2. CASE q # p
    BY <1>0, <1>1, <2>2, OthersPrepared
  <2> QED  BY <2>1, <2>2
<1>5. Ends(w)'
  <2> SUFFICES ASSUME NEW x \in Clean'
               PROVE  /\ \A q \in Players : todo'[q] # <<>> /\ x \in Reached(q)' =>
                           /\ w[x] = Left(todo'[q], request'[q], world'[x], x)
                           /\ Gone(taken'[x], w[x], DoorPut(todo'[q], request'[q], x))
                      /\ (\A q \in Players : todo'[q] # <<>> => x \notin Reached(q)') =>
                           w[x] = world'[x] /\ Gone(taken'[x], w[x], FALSE)
    BY DEF Ends
  <2>1. x \in Clean /\ x \in DOMAIN world /\ x \notin Reached(p) /\ world'[x] = world[x] /\ taken'[x] = taken[x]
    <3>1. x \in DOMAIN world /\ x \notin disturbed'
      BY <1>1 DEF Clean
    <3> QED  BY <1>2, <3>1 DEF Alone
  <2>2. ASSUME NEW q \in Players, todo'[q] # <<>>, x \in Reached(q)'
        PROVE  /\ w[x] = Left(todo'[q], request'[q], world'[x], x)
               /\ Gone(taken'[x], w[x], DoorPut(todo'[q], request'[q], x))
    <3>1. q # p /\ todo[q] # <<>> /\ x \in Reached(q)
      BY <1>1, <2>1, <2>2
    <3>2. w[x] = Left(todo[q], request[q], world[x], x) /\ Gone(taken[x], w[x], DoorPut(todo[q], request[q], x))
      BY <1>0, <2>1, <3>1 DEF Ends
    <3> QED  BY <1>1, <2>1, <3>1, <3>2
  <2>3. ASSUME \A q \in Players : todo'[q] # <<>> => x \notin Reached(q)'
        PROVE  w[x] = world'[x] /\ Gone(taken'[x], w[x], FALSE)
    <3>1. \A q \in Players : todo[q] # <<>> => x \notin Reached(q)
      BY <1>1, <2>1, <2>3
    <3> QED  BY <1>0, <2>1, <3>1 DEF Ends
  <2> QED  BY <2>2, <2>3
<1>6. Whole(w, Clean')
  BY <1>0, <1>2, WholeLess
<1> QED  BY <1>0, <1>1, <1>3, <1>4, <1>5, <1>6 DEF Foreseen

(* Who has the blocks for itself decides what becomes of them. *)
LEMMA CalmStep ==
  ASSUME ShownInv, ShownInv', NEW w, Foreseen(w), NEW p \in Players, Alone(p), Calm(p), disturbed' = disturbed,
         NEW v \in [DOMAIN world -> Block],
         \A x \in DOMAIN world : x \notin Reached(p) => v[x] = w[x],
         \A x \in Reached(p) : /\ v[x] = Left(todo'[p], request[p], world'[x], x)
                               /\ Gone(taken'[x], v[x], DoorPut(todo'[p], request[p], x)),
         Whole(v, Clean),
         todo'[p] # <<>> => Prepared(todo'[p], request[p], world', disturbed)
  PROVE  Foreseen(v)'
<1>0. /\ TypeOK /\ Handlers /\ TypeOK' /\ Handlers'
      /\ Disturbance /\ AllPrepared /\ w \in [DOMAIN world -> Block] /\ Ends(w)
  BY DEF ShownInv, Foreseen
<1>1. /\ todo[p] # <<>> /\ raced' = raced /\ DOMAIN world' = DOMAIN world
      /\ \A q \in Players : q # p => todo'[q] = todo[q] /\ request'[q] = request[q] /\ Reached(q)' = Reached(q)
      /\ todo'[p] # <<>> => request'[p] = request[p] /\ Reached(p)' = Reached(p)
  BY DEF Alone, Reached
<1>2. Clean' = Clean
  BY <1>1 DEF Clean
<1>3. Disturbance'
  <2>1. raced' \subseteq disturbed' /\ disturbed' \subseteq DOMAIN world'
    BY <1>0, <1>1 DEF Disturbance
  <2>2. ASSUME NEW q \in Players, todo'[q] # <<>>
        PROVE  \/ Reached(q)' \subseteq disturbed'
               \/ /\ Reached(q)' \cap disturbed' = {}
                  /\ \A k \in Players : k # q /\ todo'[k] # <<>> => Reached(q)' \cap Reached(k)' = {}
    <3>1. todo[q] # <<>> /\ Reached(q)' = Reached(q)
      BY <1>1, <2>2
    <3>2. \A k \in Players : todo'[k] # <<>> => todo[k] # <<>> /\ Reached(k)' = Reached(k)
      BY <1>1
    <3> QED  BY <1>0, <3>1, <3>2 DEF Disturbance
  <2> QED  BY <2>1, <2>2 DEF Disturbance
<1>4. AllPrepared'
  <2> SUFFICES ASSUME NEW q \in Players, todo'[q] # <<>>
               PROVE  Prepared(todo'[q], request'[q], world', disturbed')
    BY DEF AllPrepared
  <2>1. CASE q = p
    BY <1>1, <2>1
  <2>2. CASE q # p
    BY <1>0, <1>1, <2>2, OthersPrepared
  <2> QED  BY <2>1, <2>2
<1>5. Ends(v)'
  <2> SUFFICES ASSUME NEW x \in Clean
               PROVE  /\ \A q \in Players : todo'[q] # <<>> /\ x \in Reached(q)' =>
                           /\ v[x] = Left(todo'[q], request'[q], world'[x], x)
                           /\ Gone(taken'[x], v[x], DoorPut(todo'[q], request'[q], x))
                      /\ (\A q \in Players : todo'[q] # <<>> => x \notin Reached(q)') =>
                           v[x] = world'[x] /\ Gone(taken'[x], v[x], FALSE)
    BY <1>2 DEF Ends
  <2>0. x \in DOMAIN world /\ x \notin disturbed
    BY DEF Clean
  <2>1. CASE x \in Reached(p)
    <3>1. /\ v[x] = Left(todo'[p], request[p], world'[x], x)
          /\ Gone(taken'[x], v[x], DoorPut(todo'[p], request[p], x))
      BY <2>1
    <3>2. ASSUME NEW q \in Players, todo'[q] # <<>>, x \in Reached(q)'
          PROVE  q = p
      <4>1. SUFFICES ASSUME q # p PROVE FALSE
        OBVIOUS
      <4>2. todo[q] # <<>> /\ x \in Reached(q)
        BY <1>1, <3>2, <4>1
      <4> QED  BY <1>0, <1>1, <2>0, <2>1, <4>1, <4>2, Apart
    <3>3. ASSUME \A q \in Players : todo'[q] # <<>> => x \notin Reached(q)'
          PROVE  v[x] = world'[x] /\ Gone(taken'[x], v[x], FALSE)
      <4>1. todo'[p] = <<>>
        BY <1>1, <2>1, <3>3
      <4>2. Len(todo'[p]) = 0
        BY <4>1
      <4>3. Left(todo'[p], request[p], world'[x], x) = world'[x] /\ ~DoorPut(todo'[p], request[p], x)
        BY <4>2, LeftNothing
      <4> QED  BY <3>1, <4>3 DEF Gone
    <3> QED  BY <1>1, <3>1, <3>2, <3>3
  <2>2. CASE x \notin Reached(p)
    <3>0. v[x] = w[x] /\ world'[x] = world[x] /\ taken'[x] = taken[x]
      BY <2>0, <2>2 DEF Alone
    <3>1. ASSUME NEW q \in Players, todo'[q] # <<>>, x \in Reached(q)'
          PROVE  /\ v[x] = Left(todo'[q], request'[q], world'[x], x)
                 /\ Gone(taken'[x], v[x], DoorPut(todo'[q], request'[q], x))
      <4>1. q # p /\ todo[q] # <<>> /\ x \in Reached(q)
        BY <1>1, <2>2, <3>1
      <4>2. w[x] = Left(todo[q], request[q], world[x], x) /\ Gone(taken[x], w[x], DoorPut(todo[q], request[q], x))
        BY <1>0, <4>1 DEF Ends
      <4> QED  BY <1>1, <3>0, <4>1, <4>2
    <3>2. ASSUME \A q \in Players : todo'[q] # <<>> => x \notin Reached(q)'
          PROVE  v[x] = world'[x] /\ Gone(taken'[x], v[x], FALSE)
      <4>1. \A q \in Players : todo[q] # <<>> => x \notin Reached(q)
        BY <1>1, <2>2, <3>2
      <4> QED  BY <1>0, <3>0, <4>1 DEF Ends
    <3> QED  BY <3>1, <3>2
  <2> QED  BY <2>1, <2>2
<1> QED  BY <1>1, <1>2, <1>3, <1>4, <1>5 DEF Foreseen

(* --------------------------- the single accesses ------------------------ *)

LEMMA LastCalls ==
  ASSUME NEW s, NEW r, Len(s) \in Nat, Len(s) > 1, StackOK(s, r), s[Len(s)].call \in {"place", "placed", "put"}
  PROVE  /\ s[Len(s)].call = "put"
         /\ Len(s) > 2 => Len(s) = 3 /\ Writes(s, 1)
<1>1. CASE Len(s) = 2
  BY <1>1 DEF StackOK, Writes, Tells, Tail1
<1>2. CASE Len(s) = 3
  BY <1>2 DEF StackOK, Writes, WritesLast, Tail1
<1>3. CASE Len(s) > 3
  BY <1>3 DEF StackOK, Writes, WritesLast
<1>4. \A n \in Nat : n > 1 => n = 2 \/ n = 3 \/ n > 3
  OBVIOUS
<1> QED  BY <1>1, <1>2, <1>3, <1>4

LEMMA PreparedAdvanced ==
  ASSUME NEW s, NEW t, NEW r \in Requests, NEW w, NEW u, NEW at, Advances(s, t), StackOK(s, r),
         Prepared(s, r, w, at), s[Len(s)].call \in {"place", "placed", "put"} => r.op = "place",
         DOMAIN u = DOMAIN w, \A x \in DOMAIN w : x # s[1].pos => u[x] = w[x],
         u = w \/ s[1].call = "write",
         s[1].call = "write" /\ s[1].pos \in DOMAIN w \ at => u[s[1].pos].type = s[1].type
  PROVE  Prepared(t, r, u, at)
<1>0. /\ Len(s) \in Nat /\ Len(s) > 0 /\ Len(t) = Len(s) /\ \A i \in 2 .. Len(s) : t[i] = s[i]
      /\ t[1].call = s[1].call /\ t[1].pos = s[1].pos /\ t[1].type = s[1].type
  BY DEF Advances
<1>1. t[1].call = "write" /\ t[1].pos \in DOMAIN u \ at => u[t[1].pos].type = t[1].type
  BY <1>0
<1>2. CASE Len(s) = 1
  <2>1. t[Len(t)].call = s[Len(s)].call
    BY <1>0, <1>2
  <2>2. s[Len(s)].call \in {"place", "placed", "put"} => u = w
    BY <1>2
  <2> QED  BY <1>0, <1>1, <1>2, <2>1, <2>2 DEF Prepared
<1>3. CASE Len(s) > 1
  <2>1. t[Len(t)] = s[Len(s)]
    BY <1>0, <1>3
  <2> SUFFICES ASSUME s[Len(s)].call \in {"place", "placed", "put"}, Target(r) \in DOMAIN w \ at
               PROVE  u[Target(r)].type \notin Doors /\ IsDouble(r.item) /\ s[1].pos = SecondHalf(r)
    BY <1>0, <1>1, <2>1 DEF Prepared
  <2>2. s[Len(s)].call = "put"
    BY <1>0, <1>3, LastCalls
  <2>3. w[Target(r)].type \notin Doors /\ IsDouble(r.item) /\ s[1].pos = SecondHalf(r)
    BY <1>0, <1>3, <2>2 DEF Prepared
  <2>4. SecondHalf(r) # Target(r)
    BY <2>3, RequestPositions
  <2> QED  BY <2>3, <2>4
<1> QED  BY <1>0, <1>2, <1>3

(* What p has read of the blocks it has for itself is so. *)
LEMMA CalmRead ==
  ASSUME ShownInv, Disturbance, NEW p \in Players, todo[p] # <<>>, Calm(p)
  PROVE  /\ todo[p][1].pos \notin raced
         /\ \A x \in Reached(p) : x \in DOMAIN world \ raced
         /\ Right(todo[p][1], request[p], world, reg[p], raced)
<1>1. TypeOK /\ Handlers /\ ReadRight
  BY DEF ShownInv
<1>2. raced \subseteq disturbed /\ disturbed \subseteq DOMAIN world
  BY DEF Disturbance
<1>3. \A x \in Reached(p) : x \in DOMAIN world
  BY DEF Reached, ReachIn
<1>4. todo[p][1].pos \in DOMAIN world => todo[p][1].pos \in Reached(p)
  BY <1>1, TopReach DEF Reached
<1> QED  BY <1>1, <1>2, <1>3, <1>4 DEF Calm, ReadRight

(* What p's calls leave of a block that it has for itself. *)
LEMMA CalmEnds ==
  ASSUME NEW w, Foreseen(w), NEW p \in Players, todo[p] # <<>>, Calm(p), NEW x \in Reached(p)
  PROVE  /\ x \in Clean
         /\ w[x] = Left(todo[p], request[p], world[x], x)
         /\ Gone(taken[x], w[x], DoorPut(todo[p], request[p], x))
<1>1. x \in Clean
  BY DEF Calm, Clean, Reached, ReachIn
<1> QED  BY <1>1 DEF Foreseen, Ends

(* A step after which p's calls leave what they left before. *)
LEMMA SameEnd ==
  ASSUME ShownInv, ShownInv', NEW w, Foreseen(w), NEW p \in Players, Alone(p), disturbed' = disturbed,
         \A x \in DOMAIN world : taken'[x] = taken[x],
         Calm(p) => \A x \in Reached(p) :
           /\ Left(todo'[p], request[p], world'[x], x) = Left(todo[p], request[p], world[x], x)
           /\ DoorPut(todo'[p], request[p], x) <=> DoorPut(todo[p], request[p], x),
         Calm(p) /\ todo'[p] # <<>> => Prepared(todo'[p], request[p], world', disturbed)
  PROVE  Foreseen(w)'
<1>1. Disturbance /\ todo[p] # <<>> /\ w \in [DOMAIN world -> Block] /\ Whole(w, Clean)
  BY DEF Foreseen, Alone
<1>2. CASE Reached(p) \subseteq disturbed
  BY <1>2, DisturbedStep
<1>3. CASE Calm(p)
  <2>1. ASSUME NEW x \in Reached(p)
        PROVE  /\ w[x] = Left(todo'[p], request[p], world'[x], x)
               /\ Gone(taken'[x], w[x], DoorPut(todo'[p], request[p], x))
    <3>1. /\ x \in Clean /\ w[x] = Left(todo[p], request[p], world[x], x)
          /\ Gone(taken[x], w[x], DoorPut(todo[p], request[p], x))
      BY <1>1, <1>3, CalmEnds
    <3>2. taken'[x] = taken[x]
      BY <3>1 DEF Clean
    <3>3. DoorPut(todo'[p], request[p], x) <=> DoorPut(todo[p], request[p], x)
      BY <1>3
    <3>4. Gone(taken[x], w[x], DoorPut(todo'[p], request[p], x))
      BY <3>1, <3>3 DEF Gone
    <3> QED  BY <1>3, <3>1, <3>2, <3>4
  <2> QED  BY <1>1, <1>3, <2>1, CalmStep
<1> QED  BY <1>1, <1>2, <1>3, CalmOrNot

LEMMA AccessStep ==
  ASSUME ShownInv, ShownInv', NEW w, Foreseen(w), NEW p \in Players, todo[p] # <<>>,
         NEW access \in {"set", "load", "store", "look", "type", "meta", "act"}, Advance(p, access),
         \/ todo[p][1].call = "write" /\ access \in {"load", "store"}
         \/ todo[p][1].call \in Lookers /\ access \in {"meta", "act"}
         \/ todo[p][1].call \in TypeLookers /\ access = "act",
         DOMAIN world' = DOMAIN world,
         \A x \in DOMAIN world : x # todo[p][1].pos => world'[x] = world[x],
         world' = world \/ todo[p][1].call = "write",
         todo[p][1].call = "write" /\ todo[p][1].pos \in DOMAIN world \ disturbed =>
           world'[todo[p][1].pos].type = todo[p][1].type,
         UNCHANGED <<request, taken, raced, disturbed>>
  PROVE  Foreseen(w)'
<1> DEFINE s == todo[p]
           t == Stepped(s, access)
           r == request[p]
<1>1. TypeOK /\ Handlers /\ AllPrepared
  BY DEF ShownInv, Foreseen
<1>2. /\ s \in Seq(Frame) /\ s # <<>> /\ CallsOK(DOMAIN world, s, r) /\ s[1] \in Frame /\ StackOK(s, r)
      /\ r \in Requests /\ Len(s) \in Nat /\ Len(s) > 0 /\ DOMAIN world \subseteq Positions
  BY <1>1, TopReach DEF Handlers, CallsOK
<1>3. todo' = [todo EXCEPT ![p] = t]
  BY DEF Advance, Stepped
<1>4. t \in Seq(Frame) /\ t # <<>> /\ t[1] = [s[1] EXCEPT !.do = access]
  BY <1>2, AdvancedGood
<1>5. Advances(s, t)
  BY <1>2, SteppedAdvances
<1> HIDE DEF t
<1>6. todo'[p] = t /\ \A q \in Players : q # p => todo'[q] = todo[q]
  BY <1>1, <1>3 DEF TypeOK
<1>7. Alone(p)
  <2>1. s[1].pos \in DOMAIN world => s[1].pos \in Reached(p)
    BY <1>2, Reaching DEF Reached
  <2> QED  BY <1>6, <2>1 DEF Alone
<1> HIDE DEF s, r
<1>8. \A x \in DOMAIN world : /\ Left(t, r, world'[x], x) = Left(s, r, world[x], x)
                              /\ DoorPut(t, r, x) <=> DoorPut(s, r, x)
  <2> SUFFICES ASSUME NEW x \in DOMAIN world, NEW b, b = world[x], NEW c, c = world'[x]
               PROVE  Left(t, r, c, x) = Left(s, r, b, x) /\ (DoorPut(t, r, x) <=> DoorPut(s, r, x))
    OBVIOUS
  <2>1. Left(t, r, c, x) = Left(s, r, c, x) /\ (DoorPut(t, r, x) <=> DoorPut(s, r, x))
    BY <1>5, LeftAdvanced
  <2>2. Left(s, r, c, x) = Left(s, r, b, x)
    <3>1. CASE b = c
      BY <3>1
    <3>2. CASE b # c
      <4>1. WritesAt(s, 1, x)
        BY <1>2, <3>2 DEF WritesAt, s
      <4> QED  BY <4>1 DEF Left
    <3> QED  BY <3>1, <3>2
  <2> QED  BY <2>1, <2>2
<1>9. Prepared(t, r, world', disturbed)
  <2>1. Prepared(s, r, world, disturbed)
    BY <1>1, <1>2 DEF AllPrepared, s, r
  <2>2. s[Len(s)].call \in {"place", "placed", "put"} => r.op = "place"
    BY <1>2, Reaching
  <2>3. /\ DOMAIN world' = DOMAIN world /\ \A x \in DOMAIN world : x # s[1].pos => world'[x] = world[x]
        /\ world' = world \/ s[1].call = "write"
        /\ s[1].call = "write" /\ s[1].pos \in DOMAIN world \ disturbed => world'[s[1].pos].type = s[1].type
    BY DEF s
  <2> QED  BY <1>2, <1>5, <2>1, <2>2, <2>3, PreparedAdvanced
<1>10. \A x \in Reached(p) : x \in DOMAIN world
  BY DEF Reached, ReachIn
<1>11. todo[p] = s /\ request[p] = r
  BY DEF s, r
<1> QED  BY <1>6, <1>7, <1>8, <1>9, <1>10, <1>11, SameEnd

LEMMA AccessesForeseen ==
  ASSUME ShownInv, ShownInv', NEW w, Foreseen(w), NEW p \in Players,
         ReadType(p) \/ ReadMeta(p) \/ WriteType(p) \/ LoadMeta(p)
  PROVE  Foreseen(w)'
<1> DEFINE f == todo[p][1]
<1>1. todo[p] # <<>>
  BY DEF ReadType, ReadMeta, WriteType, LoadMeta, Next1
<1>2. TypeOK /\ Handlers /\ AllPrepared
  BY DEF ShownInv, Foreseen
<1>3. f \in Frame /\ CallOK(DOMAIN world, f, request[p]) /\ Current(p) = f
  BY <1>1, <1>2, TopReach DEF Current
<1>4. f.call = "write" /\ f.do \in {"load", "store"} /\ f.pos \in DOMAIN world \ disturbed => world[f.pos].type = f.type
  BY <1>1, <1>2 DEF AllPrepared, Prepared
<1>5. CASE ReadType(p) /\ Next1(p, "type") /\ Advance(p, "act")
  <2>1. f.call \in TypeLookers
    BY <1>3, <1>5 DEF Next1, CallOK, Frame, Lookers, TypeLookers
  <2>2. f.call # "write" /\ UNCHANGED <<world, request, taken, raced, disturbed>>
    BY <1>5, <2>1 DEF TypeLookers, ReadType
  <2> QED  BY <1>1, <1>5, <2>1, <2>2, AccessStep
<1>6. CASE ReadType(p) /\ Next1(p, "look") /\ Advance(p, "meta")
  <2>1. f.call \in Lookers
    BY <1>3, <1>6 DEF Next1, CallOK, Frame, Lookers, TypeLookers
  <2>2. f.call # "write" /\ UNCHANGED <<world, request, taken, raced, disturbed>>
    BY <1>6, <2>1 DEF Lookers, ReadType
  <2> QED  BY <1>1, <1>6, <2>1, <2>2, AccessStep
<1>7. CASE ReadMeta(p)
  <2>1. f.call \in Lookers /\ Advance(p, "act")
    BY <1>3, <1>7 DEF ReadMeta, Next1, CallOK, Frame, Lookers, TypeLookers
  <2>2. f.call # "write" /\ UNCHANGED <<world, request, taken, raced, disturbed>>
    BY <1>7, <2>1 DEF Lookers, ReadMeta
  <2> QED  BY <1>1, <2>1, <2>2, AccessStep
<1>8. CASE WriteType(p)
  <2>1. f.call = "write" /\ Advance(p, "load")
    BY <1>3, <1>8 DEF WriteType, Next1, CallOK, Frame, Lookers, TypeLookers
  <2>2. world' = IF f.pos \in DOMAIN world THEN [world EXCEPT ![f.pos].type = f.type] ELSE world
    BY <1>3, <1>8 DEF WriteType
  <2>3. world \in [DOMAIN world -> Block]
    BY <1>2 DEF TypeOK
  <2> HIDE DEF f
  <2>4. /\ DOMAIN world' = DOMAIN world
        /\ \A x \in DOMAIN world : x # f.pos => world'[x] = world[x]
        /\ f.pos \in DOMAIN world => world'[f.pos].type = f.type
    BY <2>2, <2>3 DEF Block
  <2>5. UNCHANGED <<request, taken, raced, disturbed>>
    BY <1>8 DEF WriteType
  <2>6. f = todo[p][1]
    BY DEF f
  <2> QED  BY <1>1, <2>1, <2>4, <2>5, <2>6, AccessStep
<1>9. CASE LoadMeta(p)
  <2>1. f.call = "write" /\ f.do = "load" /\ Advance(p, "store")
    BY <1>3, <1>9 DEF LoadMeta, Next1, CallOK, Frame, Lookers, TypeLookers
  <2>2. UNCHANGED <<world, request, taken, raced, disturbed>>
    BY <1>9 DEF LoadMeta
  <2> QED  BY <1>1, <1>4, <2>1, <2>2, AccessStep
<1> QED  BY <1>5, <1>6, <1>7, <1>8, <1>9 DEF ReadType

(* ---------------------------- calls that end ---------------------------- *)

LEMMA Popping ==
  ASSUME NEW s \in Seq(Frame), s # <<>>, NEW r, NEW loaded, CallsOK(loaded, s, r), NEW t, t = <<>> \o Tail(s)
  PROVE  Pops(s, t) /\ (t # <<>> => Len(t) > 0 /\ (Begins(t[1]) \/ t[1].call = "put"))
<1>1. Len(s) \in Nat /\ Len(s) > 0
  BY Stacks
<1>2. /\ t \in Seq(Frame) /\ Len(t) = Len(s) - 1
      /\ \A i \in 1 .. Len(t) : t[i] = s[i + 1]
      /\ t # <<>> => Begins(t[1]) \/ t[1].call = "put"
  BY Popped
<1>3. t # <<>> => Len(t) > 0
  BY <1>2, Stacks
<1> QED  BY <1>1, <1>2, <1>3 DEF Pops

LEMMA PreparedPopped ==
  ASSUME NEW s, NEW t, NEW r \in Requests, NEW w, NEW u, NEW at, Pops(s, t), Len(t) > 0, StackOK(s, r),
         Prepared(s, r, w, at), s[1].call \in {"write", "tell", "half", "swing"},
         Begins(t[1]) \/ t[1].call = "put", s[Len(s)].call \in {"place", "placed", "put"} => r.op = "place",
         DOMAIN u = DOMAIN w, \A x \in DOMAIN w \ at : x # s[1].pos => u[x] = w[x], u = w \/ s[1].call = "write"
  PROVE  Prepared(t, r, u, at)
<1>0. Len(s) \in Nat /\ Len(s) > 1 /\ Len(t) = Len(s) - 1 /\ \A i \in 1 .. Len(t) : t[i] = s[i + 1]
  BY DEF Pops
<1>1. t[1].call = "write" => t[1].do \notin {"load", "store"}
  BY DEF Begins
<1>2. t[Len(t)] = s[Len(s)] /\ t[1] = s[2]
  BY <1>0
<1> SUFFICES ASSUME s[Len(s)].call \in {"place", "placed", "put"}, Target(r) \in DOMAIN w \ at
             PROVE  /\ s[Len(s)].call = "put" /\ u[Target(r)].type \notin Doors
                    /\ Len(t) > 1 => IsDouble(r.item) /\ t[1].pos = SecondHalf(r)
  BY <1>1, <1>2 DEF Prepared
<1>3. s[Len(s)].call = "put" /\ (Len(s) > 2 => Writes(s, 1))
  BY <1>0, LastCalls
<1>4. w[Target(r)].type \notin Doors /\ IsDouble(r.item) /\ s[1].pos = SecondHalf(r)
  BY <1>0, <1>3 DEF Prepared
<1>5. SecondHalf(r) # Target(r)
  BY <1>4, RequestPositions
<1>6. u[Target(r)].type \notin Doors
  BY <1>4, <1>5
<1>7. Len(t) > 1 => t[1].pos = SecondHalf(r)
  BY <1>0, <1>2, <1>3, <1>4 DEF Writes
<1> QED  BY <1>3, <1>4, <1>6, <1>7

LEMMA PopStep ==
  ASSUME ShownInv, ShownInv', NEW w, Foreseen(w), NEW p \in Players, Alone(p), UNCHANGED <<taken, disturbed>>,
         todo'[p] = <<>> \o Tail(todo[p]),
         todo[p][1].call \in {"write", "tell", "half", "swing"},
         todo[p][1].call # "write" => world' = world,
         Calm(p) =>
           /\ todo[p][1].call = "write" =>
                \A x \in Reached(p) : world'[x] = IF x = todo[p][1].pos THEN Written(todo[p][1]) ELSE world[x]
           /\ todo[p][1].call \in {"half", "swing"} /\ todo[p][1].pos \in DOMAIN world =>
                world[todo[p][1].pos].type # todo[p][1].type
  PROVE  Foreseen(w)'
<1> DEFINE s == todo[p]
           t == <<>> \o Tail(todo[p])
           r == request[p]
<1>1. TypeOK /\ Handlers /\ AllPrepared /\ s # <<>> /\ DOMAIN world' = DOMAIN world /\ Disturbance
  BY DEF ShownInv, Foreseen, Alone
<1>2. /\ s \in Seq(Frame) /\ CallsOK(DOMAIN world, s, r) /\ StackOK(s, r)
      /\ r \in Requests /\ DOMAIN world \subseteq Positions
      /\ s[Len(s)].call \in {"place", "placed", "put"} => r.op = "place"
  <2>1. /\ s \in Seq(Frame) /\ CallsOK(DOMAIN world, s, r) /\ StackOK(s, r)
        /\ r \in Requests /\ DOMAIN world \subseteq Positions
    BY <1>1, TopReach DEF Handlers, CallsOK
  <2> HIDE DEF s, r
  <2> QED  BY <1>1, <2>1, Reaching
<1>3. Pops(s, t) /\ (t # <<>> => Len(t) > 0 /\ (Begins(t[1]) \/ t[1].call = "put"))
  BY <1>1, <1>2, Popping
<1>4. todo'[p] = t /\ todo[p] = s /\ request[p] = r
  OBVIOUS
<1>5. /\ s[1].call \in {"write", "tell", "half", "swing"} /\ (s[1].call # "write" => world' = world)
      /\ Calm(p) =>
           /\ s[1].call = "write" =>
                \A x \in Reached(p) : world'[x] = IF x = s[1].pos THEN Written(s[1]) ELSE world[x]
           /\ s[1].call \in {"half", "swing"} /\ s[1].pos \in DOMAIN world => world[s[1].pos].type # s[1].type
  OBVIOUS
<1> HIDE DEF s, t, r
<1>6. ASSUME Calm(p), NEW x \in Reached(p)
      PROVE  /\ Left(t, r, world'[x], x) = Left(s, r, world[x], x)
             /\ DoorPut(t, r, x) <=> DoorPut(s, r, x)
  <2>0. x \in DOMAIN world
    BY DEF Reached, ReachIn
  <2>1. CASE s[1].call = "tell"
    <3>1. world'[x] = world[x]
      BY <1>5, <2>1
    <3>2. Left(t, r, world[x], x) = Left(s, r, world[x], x) /\ (DoorPut(t, r, x) <=> DoorPut(s, r, x))
      BY <1>2, <1>3, <2>1, LeftTold
    <3> QED  BY <3>1, <3>2
  <2>2. CASE s[1].call = "write"
    <3> SUFFICES ASSUME NEW b, b = world[x], NEW c, c = world'[x]
                 PROVE  Left(t, r, c, x) = Left(s, r, b, x) /\ (DoorPut(t, r, x) <=> DoorPut(s, r, x))
      OBVIOUS
    <3>1. c = IF x = s[1].pos THEN Written(s[1]) ELSE b
      BY <1>5, <1>6, <2>2
    <3> QED  BY <1>2, <1>3, <2>2, <3>1, LeftWritten
  <2>3. CASE s[1].call \in {"half", "swing"}
    <3>1. world'[x] = world[x]
      BY <1>5, <2>3
    <3>2. x = s[1].pos => world[x].type # s[1].type
      BY <1>5, <1>6, <2>0, <2>3
    <3>3. Left(t, r, world[x], x) = Left(s, r, world[x], x) /\ (DoorPut(t, r, x) <=> DoorPut(s, r, x))
      BY <1>2, <1>3, <2>3, <3>2, LeftNoHalf
    <3> QED  BY <3>1, <3>3
  <2> QED  BY <1>5, <2>1, <2>2, <2>3
<1>7. ASSUME Calm(p), t # <<>>
      PROVE  Prepared(t, r, world', disturbed)
  <2>1. Prepared(s, r, world, disturbed)
    BY <1>1, <1>4 DEF AllPrepared
  <2>2. \A x \in DOMAIN world \ disturbed : x # s[1].pos => world'[x] = world[x]
    <3> SUFFICES ASSUME NEW x \in DOMAIN world \ disturbed, x # s[1].pos
                 PROVE  world'[x] = world[x]
      OBVIOUS
    <3>1. CASE x \in Reached(p)
      BY <1>5, <1>7, <3>1
    <3>2. CASE x \notin Reached(p)
      BY <3>2 DEF Alone
    <3> QED  BY <3>1, <3>2
  <2>3. world' = world \/ s[1].call = "write"
    BY <1>5
  <2> QED  BY <1>1, <1>2, <1>3, <1>5, <1>7, <2>1, <2>2, <2>3, PreparedPopped
<1> QED  BY <1>4, <1>6, <1>7, SameEnd

(* A decision of p's handler leaves the rest alone. *)
LEMMA DecidesAlone ==
  ASSUME TypeOK, NEW p \in Players, todo[p] # <<>>, NEW more, 
         ReturnOrEnd(p, more) \/ (Return(p, more) /\ UNCHANGED request),
         DOMAIN world' = DOMAIN world, raced' = raced,
         \A x \in DOMAIN world : x \notin Reached(p) => world'[x] = world[x] /\ taken'[x] = taken[x]
  PROVE  Alone(p) /\ todo'[p] = more \o Tail(todo[p])
<1> DEFINE s == more \o Tail(todo[p])
<1>1. todo' = [todo EXCEPT ![p] = s]
  BY DEF ReturnOrEnd, Return
<1> HIDE DEF s
<1>2. todo'[p] = s /\ \A q \in Players : q # p => todo'[q] = todo[q]
  BY <1>1 DEF TypeOK
<1>3. /\ s # <<>> => request' = request
      /\ s = <<>> => request' = request \/ request' = [request EXCEPT ![p] = NoRequest]
  BY <1>2 DEF ReturnOrEnd
<1>4. \A q \in Players : q # p => request'[q] = request[q]
  BY <1>3 DEF TypeOK
<1>5. Alone(p)
  BY <1>2, <1>3, <1>4 DEF Alone
<1> QED  BY <1>2, <1>5 DEF s

LEMMA StoreMetaForeseen ==
  ASSUME ShownInv, ShownInv', NEW w, Foreseen(w), NEW p \in Players, StoreMeta(p)
  PROVE  Foreseen(w)'
<1> DEFINE f == todo[p][1]
           new(q) == IF q = f.pos THEN f.meta % 16
                     ELSE IF q = Even(f.pos) THEN reg[p].byte[1]
                     ELSE IF q = Odd(f.pos) THEN reg[p].byte[2]
                     ELSE world[q].meta
<1>1. TypeOK /\ Handlers /\ AllPrepared /\ todo[p] # <<>> /\ Disturbance
  BY DEF ShownInv, Foreseen, StoreMeta, Next1
<1>2. /\ f \in Frame /\ Current(p) = f /\ CallOK(DOMAIN world, f, request[p]) /\ f.do = "store"
      /\ f.pos \in DOMAIN world => f.pos \in Reached(p)
      /\ \A q \in {Even(f.pos), Odd(f.pos)} : q \in DOMAIN world => q \in Reached(p)
  BY <1>1, TopReach DEF Current, StoreMeta, Next1, Reached
<1>3. f.call = "write"
  BY <1>2 DEF CallOK, Frame, Lookers, TypeLookers
<1>4. world' = IF f.pos \in DOMAIN world
               THEN [q \in DOMAIN world |-> [world[q] EXCEPT !.meta = new(q)]]
               ELSE world
  BY <1>2 DEF StoreMeta
<1>5. world \in [DOMAIN world -> Block]
  BY <1>1 DEF TypeOK
<1>6. \A q \in DOMAIN world : q \notin Reached(p) => new(q) = world[q].meta
  BY <1>2
<1>7. ASSUME Calm(p)
      PROVE  \A q \in DOMAIN world : q # f.pos => new(q) = world[q].meta
  <2>1. /\ Right(f, request[p], world, reg[p], raced)
        /\ \A q \in Reached(p) : q \in DOMAIN world \ raced
    BY <1>1, <1>7, CalmRead
  <2>2. /\ Even(f.pos) \in DOMAIN world => reg[p].byte[1] = world[Even(f.pos)].meta
        /\ Odd(f.pos) \in DOMAIN world => reg[p].byte[2] = world[Odd(f.pos)].meta
    BY <1>2, <2>1 DEF Right
  <2> QED  BY <2>2
<1>8. new(f.pos) = f.meta % 16
  OBVIOUS
<1> HIDE DEF new
<1>9. DOMAIN world' = DOMAIN world
  BY <1>4
<1>10. \A q \in DOMAIN world : new(q) = world[q].meta => [world[q] EXCEPT !.meta = new(q)] = world[q]
  BY <1>5 DEF Block
<1>11. \A q \in DOMAIN world : q \notin Reached(p) => world'[q] = world[q]
  BY <1>4, <1>6, <1>10
<1>12. ASSUME Calm(p), NEW x \in Reached(p)
       PROVE  world'[x] = IF x = f.pos THEN Written(f) ELSE world[x]
  <2>1. x \in DOMAIN world
    BY DEF Reached, ReachIn
  <2>2. CASE x # f.pos
    BY <1>4, <1>7, <1>10, <1>12, <2>1, <2>2
  <2>3. CASE x = f.pos
    <3>1. world[x].type = f.type
      <4>1. f.pos \in DOMAIN world \ disturbed
        BY <1>12, <2>1, <2>3 DEF Calm
      <4> QED  BY <1>1, <1>2, <1>3, <2>3, <4>1 DEF AllPrepared, Prepared
    <3>2. world'[x] = [world[x] EXCEPT !.meta = f.meta % 16]
      BY <1>4, <1>8, <2>1, <2>3
    <3>3. [world[x] EXCEPT !.meta = f.meta % 16] = [type |-> world[x].type, meta |-> f.meta % 16]
      BY <1>5, <2>1 DEF Block
    <3> QED  BY <2>3, <3>1, <3>2, <3>3 DEF Written
  <2> QED  BY <2>2, <2>3
<1>13. Return(p, <<>>) /\ UNCHANGED <<request, taken, raced, disturbed>>
  BY DEF StoreMeta
<1>14. Alone(p) /\ todo'[p] = <<>> \o Tail(todo[p])
  BY <1>1, <1>9, <1>11, <1>13, DecidesAlone
<1> QED  BY <1>3, <1>12, <1>13, <1>14, PopStep

LEMMA TellForeseen ==
  ASSUME ShownInv, ShownInv', NEW w, Foreseen(w), NEW p \in Players, Tell(p)
  PROVE  Foreseen(w)'
<1>1. TypeOK /\ todo[p] # <<>> /\ todo[p][1].call = "tell"
  <2>1. TypeOK /\ Handlers /\ todo[p] # <<>> /\ Current(p).call = "tell"
    BY DEF ShownInv, Tell, At, Next1
  <2>2. Current(p) = todo[p][1]
    BY <2>1, TopReach DEF Current
  <2> QED  BY <2>1, <2>2
<1>2. ReturnOrEnd(p, <<>>) /\ UNCHANGED <<world, taken, raced, disturbed>>
  BY DEF Tell
<1>3. Alone(p) /\ todo'[p] = <<>> \o Tail(todo[p])
  <2>1. \A x \in DOMAIN world : x \notin Reached(p) => world'[x] = world[x] /\ taken'[x] = taken[x]
    BY <1>2
  <2>2. DOMAIN world' = DOMAIN world /\ raced' = raced
    BY <1>2
  <2> QED  BY <1>1, <1>2, <2>1, <2>2, DecidesAlone
<1> QED  BY <1>1, <1>2, <1>3, PopStep

(* ------------------------------ other halves ---------------------------- *)

LEMMA OtherHalfForeseen ==
  ASSUME ShownInv, ShownInv', NEW w, Foreseen(w), NEW p \in Players, DigOtherHalf(p) \/ SwingOtherHalf(p)
  PROVE  Foreseen(w)'
<1> DEFINE f == todo[p][1]
           s == todo[p]
           r == request[p]
           x == todo[p][1].pos
           swings == todo[p][1].call = "swing"
           more == IF reg[p].type # f.type THEN <<>>
                   ELSE IF swings THEN PlaceBlockUpdate(x, reg[p].type, Toggled(reg[p].meta))
                   ELSE PlaceBlockUpdate(x, BLOCK.AIR, 0)
<1>1. /\ TypeOK /\ Handlers /\ todo[p] # <<>> /\ Current(p) = f /\ f \in Frame
      /\ CallsOK(DOMAIN world, s, r) /\ CallOK(DOMAIN world, f, r) /\ s \in Seq(Frame)
      /\ f.call \in {"half", "swing"} /\ f.do = "act" /\ DOMAIN world \subseteq Positions
      /\ reg[p].type \in Int /\ reg[p].meta \in 0 .. 15
      /\ f.call = "half" <=> DigOtherHalf(p)
  <2>1. (At(p, "half") /\ DigOtherHalf(p)) \/ (At(p, "swing") /\ SwingOtherHalf(p))
    BY DEF DigOtherHalf, SwingOtherHalf
  <2>2. CASE At(p, "half") /\ DigOtherHalf(p)
    BY <2>2, Deciding DEF At, Next1
  <2>3. CASE At(p, "swing") /\ SwingOtherHalf(p)
    <3>1. f.call = "swing" /\ Current(p) = f
      BY <2>3, Deciding
    <3>2. ~DigOtherHalf(p)
      BY <3>1 DEF DigOtherHalf, At
    <3> QED  BY <2>3, <3>1, <3>2, Deciding DEF At, Next1
  <2> QED  BY <2>1, <2>2, <2>3
<1>2. ReturnOrEnd(p, more) /\ UNCHANGED <<world, taken, raced, disturbed>>
  <2>1. UNCHANGED <<world, taken, raced, disturbed>>
    BY DEF DigOtherHalf, SwingOtherHalf
  <2>2. CASE DigOtherHalf(p)
    <3>1. ~swings
      BY <1>1, <2>2
    <3> QED  BY <1>1, <2>1, <2>2, <3>1 DEF DigOtherHalf
  <2>3. CASE ~DigOtherHalf(p)
    <3>1. swings /\ SwingOtherHalf(p)
      BY <1>1, <2>3
    <3> QED  BY <1>1, <2>1, <3>1 DEF SwingOtherHalf
  <2> QED  BY <2>2, <2>3
<1> HIDE DEF more
<1>3. Alone(p) /\ todo'[p] = more \o Tail(s)
  <2>1. \A z \in DOMAIN world : z \notin Reached(p) => world'[z] = world[z] /\ taken'[z] = taken[z]
    BY <1>2
  <2>2. DOMAIN world' = DOMAIN world /\ raced' = raced
    BY <1>2
  <2> QED  BY <1>1, <1>2, <2>1, <2>2, DecidesAlone
<1>4. Disturbance
  BY DEF Foreseen
<1>5. ASSUME Calm(p)
      PROVE  /\ reg[p].type = BlockIn(world, x).type
             /\ swings => reg[p].meta = BlockIn(world, x).meta
  <2>1. x \notin raced /\ Right(f, r, world, reg[p], raced)
    BY <1>1, <1>4, <1>5, CalmRead
  <2> QED  BY <1>1, <2>1 DEF Right, Reads, Lookers
<1>6. f.type \in Doors
  BY <1>1 DEF CallOK
<1>7. CASE reg[p].type # f.type
  <2>1. more = <<>>
    BY <1>7 DEF more
  <2>2. Calm(p) /\ x \in DOMAIN world => world[x].type # f.type
    BY <1>5, <1>7 DEF BlockIn
  <2> QED  BY <1>1, <1>2, <1>3, <2>1, <2>2, PopStep
<1>8. CASE reg[p].type = f.type
  <2> DEFINE type == IF swings THEN reg[p].type ELSE BLOCK.AIR
             meta == IF swings THEN Toggled(reg[p].meta) ELSE 0
             t == more \o Tail(s)
  <2>1. more = PlaceBlockUpdate(x, type, meta)
    BY <1>8 DEF more
  <2>2. type \in Int /\ meta \in 0 .. 15 /\ meta % 16 = meta
    <3>1. /\ reg[p].type \in Int /\ Toggled(reg[p].meta) \in 0 .. 15
          /\ Toggled(reg[p].meta) % 16 = Toggled(reg[p].meta)
      BY <1>1, Bits
    <3>2. BLOCK.AIR \in Int /\ 0 \in 0 .. 15 /\ 0 % 16 = 0
      BY Air0
    <3>3. CASE swings
      BY <3>1, <3>3
    <3>4. CASE ~swings
      BY <3>2, <3>4
    <3> QED  BY <3>3, <3>4
  <2>3. Written(WriteCall(x, type, meta)) = [type |-> type, meta |-> meta]
    BY <2>2 DEF Written, WriteCall
  <2>4. ASSUME Calm(p), x \in DOMAIN world
        PROVE  /\ world[x].type = f.type
               /\ [type |-> type, meta |-> meta] = IF f.call = "half" THEN Air ELSE Swung(world[x])
    <3>1. world[x].type = f.type /\ (swings => reg[p].type = world[x].type /\ reg[p].meta = world[x].meta)
      BY <1>5, <1>8, <2>4 DEF BlockIn
    <3>2. CASE swings
      BY <3>1, <3>2 DEF Swung
    <3>3. CASE ~swings
      BY <1>1, <3>1, <3>3 DEF Air
    <3> QED  BY <3>2, <3>3
  <2> HIDE DEF type, meta
  <2>5. /\ Len(t) = Len(s) + 1 /\ t[1] = WriteCall(x, type, meta) /\ t[2] = TellCall(x)
        /\ \A i \in 2 .. Len(s) : t[i + 1] = s[i]
        /\ t \in Seq(Frame)
    <3>1. t = PlaceBlockUpdate(s[1].pos, type, meta) \o Tail(s) /\ meta \in Int
      BY <2>1, <2>2
    <3>2. s[1].call \in {"half", "swing"} /\ s # <<>> /\ s[1].pos = x
      BY <1>1
    <3>4. DOMAIN world \subseteq Positions /\ s \in Seq(Frame) /\ CallsOK(DOMAIN world, s, r) /\ type \in Int
      BY <1>1, <2>2
    <3> HIDE DEF t, s, r, x
    <3>3. Good(DOMAIN world, t, r) /\ Doubled(s, t, WriteCall(s[1].pos, type, meta), TellCall(s[1].pos))
      BY <3>1, <3>2, <3>4, HalfWritten
    <3> QED  BY <3>2, <3>3 DEF Good, Doubled
  <2>6. /\ Len(s) \in Nat /\ Len(s) > 0 /\ StackOK(s, r) /\ Len(t) > 0
        /\ t[1].call = "write" /\ t[1].pos = x /\ t[2].call = "tell" /\ t[1].do = "set"
    BY <1>1, <2>5, Stacks DEF CallsOK, WriteCall, TellCall
  <2> HIDE DEF t
  <2>7. ASSUME Calm(p), NEW z \in Reached(p)
        PROVE  Left(t, r, world[z], z) = Left(s, r, world[z], z) /\ (DoorPut(t, r, z) <=> DoorPut(s, r, z))
    <3>1. z \in DOMAIN world
      BY DEF Reached, ReachIn
    <3>2. z = s[1].pos => /\ world[z].type = s[1].type
                          /\ Written(t[1]) = IF s[1].call = "half" THEN Air ELSE Swung(world[z])
      BY <2>3, <2>4, <2>5, <2>7, <3>1
    <3>3. s[1].call \in {"half", "swing"} /\ t[1].pos = s[1].pos
      BY <1>1, <2>6
    <3> HIDE DEF s, x, f, r
    <3> QED  BY <2>5, <2>6, <3>2, <3>3, LeftOtherHalf
  <2>8. Prepared(t, r, world, disturbed)
    <3>1. Len(s) = 3 \/ (Len(s) = 4 /\ s[4].call = "interact")
      BY <1>1, <2>6, Below
    <3>2. s[3].call = "tell"
      BY <1>1, <2>6, Below
    <3>3. t[Len(t)].call \in {"tell", "interact"}
      <4>1. CASE Len(s) = 3
        <5>1. Len(t) = 4 /\ t[3 + 1] = s[3] /\ 3 + 1 = 4
          BY <2>5, <4>1
        <5> QED  BY <3>2, <5>1
      <4>2. CASE Len(s) = 4 /\ s[4].call = "interact"
        <5>1. Len(t) = 5 /\ t[4 + 1] = s[4] /\ 4 + 1 = 5
          BY <2>5, <4>2
        <5> QED  BY <4>2, <5>1
      <4> QED  BY <3>1, <4>1, <4>2
    <3> QED  BY <2>6, <3>3 DEF Prepared
  <2>9. todo'[p] = t
    BY <1>3 DEF t
  <2> QED  BY <1>2, <1>3, <2>7, <2>8, <2>9, SameEnd
<1> QED  BY <1>7, <1>8

(* ----------------------- decisions about the packet --------------------- *)

Deciders == {"dig", "interact", "place", "hoe", "placed", "put", "soak"}

(* The call named decides that more is to be done, and nothing else. *)
Decides(p, name, more) ==
  /\ name \in Deciders /\ At(p, name)
  /\ Good(DOMAIN world, more, request[p])
  /\ ReturnOrEnd(p, more)
  /\ UNCHANGED <<world, raced>>
  /\ \A x \in DOMAIN world : x \notin Reached(p) => taken'[x] = taken[x]

PreparedNext(p, more) == Calm(p) /\ more # <<>> => Prepared(more, request[p], world, disturbed)

LEMMA DecidesNext ==
  ASSUME ShownInv, NEW p \in Players, NEW name, NEW more, Decides(p, name, more)
  PROVE  /\ Alone(p) /\ todo'[p] = more /\ todo[p] # <<>> /\ Len(todo[p]) = 1 /\ todo[p][1].call = name
         /\ todo[p][1].call \notin Changing
         /\ more \in Seq(Frame) /\ Len(more) \in Nat /\ (more = <<>> <=> Len(more) = 0)
         /\ DOMAIN world \subseteq Positions /\ Reached(p) \subseteq DOMAIN world
         /\ TypeOK /\ request[p] \in Requests
<1>1. name # "write" /\ name \notin Changing /\ At(p, name)
  BY DEF Decides, Deciders, Changing
<1>2. /\ TypeOK /\ todo[p] # <<>> /\ todo[p] \in Seq(Frame) /\ todo[p][1].call = name
      /\ CallsOK(DOMAIN world, todo[p], request[p]) /\ request[p] \in Requests /\ DOMAIN world \subseteq Positions
  BY <1>1, Deciding
<1>3. more \in Seq(Frame) /\ Len(more) \in Nat
  BY LenProperties DEF Decides, Good
<1>4. more = <<>> <=> Len(more) = 0
  BY <1>3, EmptySeq
<1>5. more \o Tail(todo[p]) = more /\ Len(todo[p]) = 1
  <2>1. name \in {"dig", "interact", "place", "hoe", "placed", "put", "soak"}
    BY DEF Decides, Deciders
  <2>2. Len(todo[p]) = 1
    <3>1. StackOK(todo[p], request[p])
      BY <1>2 DEF CallsOK
    <3> DEFINE s == todo[p]
               r == request[p]
    <3>2. StackOK(s, r) /\ s # <<>> /\ s \in Seq(Frame)
          /\ s[1].call \in {"dig", "interact", "place", "hoe", "placed", "put", "soak"}
      BY <1>2, <2>1, <3>1
    <3> HIDE DEF s, r
    <3>3. Len(s) # 0
      BY <3>2, EmptySeq
    <3>4. Len(s) = 1
      BY <3>2, <3>3 DEF StackOK, Writes, Tells
    <3> QED  BY <3>4 DEF s
  <2> QED  BY <1>2, <1>3, <2>1, <2>2, Last
<1>6. Alone(p) /\ todo'[p] = more
  <2>1. ReturnOrEnd(p, more) /\ DOMAIN world' = DOMAIN world /\ raced' = raced
        /\ \A x \in DOMAIN world : x \notin Reached(p) => world'[x] = world[x] /\ taken'[x] = taken[x]
    BY DEF Decides
  <2>2. Alone(p) /\ todo'[p] = more \o Tail(todo[p])
    BY <1>2, <2>1, DecidesAlone
  <2> QED  BY <1>5, <2>2
<1>7. Reached(p) \subseteq DOMAIN world
  BY DEF Reached, ReachIn
<1> QED  BY <1>1, <1>2, <1>3, <1>4, <1>5, <1>6, <1>7

(* What has been looked at before a decision is so. *)
LEMMA DecidesRight ==
  ASSUME ShownInv, NEW w, Foreseen(w), NEW p \in Players, NEW name, name # "write", At(p, name), Calm(p)
  PROVE  LET f == todo[p][1]
             b == BlockIn(world, f.pos)
         IN /\ Reads(f, request[p]) => reg[p].type = b.type
            /\ name \in Lookers => reg[p].meta = b.meta
            /\ f.pos \in DOMAIN world => f.pos \in Reached(p) /\ b = world[f.pos]
            /\ f.pos \notin DOMAIN world => b = Air
<1>1. todo[p] # <<>> /\ TypeOK /\ Handlers /\ todo[p][1].call = name /\ Current(p) = todo[p][1]
  BY Deciding
<1>2. todo[p][1].do = "act" /\ Disturbance
  BY <1>1 DEF At, Next1, Foreseen
<1>3. todo[p][1].pos \notin raced /\ Right(todo[p][1], request[p], world, reg[p], raced)
  BY <1>1, <1>2, CalmRead
<1>4. todo[p][1].pos \in DOMAIN world => todo[p][1].pos \in Reached(p)
  BY <1>1, TopReach DEF Reached
<1> QED  BY <1>1, <1>2, <1>3, <1>4 DEF Right, BlockIn

(* Before it, the blocks are what they would be. *)
LEMMA DecidesBefore ==
  ASSUME ShownInv, NEW w, Foreseen(w), NEW p \in Players, NEW name, NEW more, Decides(p, name, more), Calm(p),
         NEW x \in Reached(p)
  PROVE  /\ x \in Clean
         /\ DoorPut(todo[p], request[p], x) <=>
              /\ todo[p][1].call = "put" /\ todo[p][1].pos = x /\ todo[p][1].type \in Doors
              /\ IsDoorItem(request[p].item)
         /\ w[x] = IF DoorPut(todo[p], request[p], x) THEN Written(todo[p][1]) ELSE world[x]
         /\ Gone(taken[x], w[x], DoorPut(todo[p], request[p], x))
<1>1. Len(todo[p]) = 1 /\ todo[p][1].call \notin Changing /\ todo[p] # <<>>
  BY DecidesNext
<1>2. /\ x \in Clean /\ w[x] = Left(todo[p], request[p], world[x], x)
      /\ Gone(taken[x], w[x], DoorPut(todo[p], request[p], x))
  BY <1>1, CalmEnds
<1> PICK s, r, b : s = todo[p] /\ r = request[p] /\ b = world[x]
  OBVIOUS
<1>3. Len(s) = 1 /\ s[1].call \notin Changing
  BY <1>1
<1>4. /\ DoorPut(s, r, x) <=> s[1].call = "put" /\ s[1].pos = x /\ s[1].type \in Doors /\ IsDoorItem(r.item)
      /\ Left(s, r, b, x) = IF DoorPut(s, r, x) THEN Written(s[1]) ELSE b
  BY <1>3, LeftTop
<1> QED  BY <1>2, <1>4

(* A decision, with the blocks as they become by it. *)
LEMMA DecideStep ==
  ASSUME ShownInv, ShownInv', NEW w, Foreseen(w), NEW p \in Players, NEW name, NEW more, Decides(p, name, more),
         disturbed' = disturbed, PreparedNext(p, more), NEW v,
         Calm(p) =>
           /\ v \in [DOMAIN world -> Block]
           /\ \A x \in DOMAIN world : x \notin Reached(p) => v[x] = w[x]
           /\ \A x \in Reached(p) : /\ v[x] = Left(more, request[p], world[x], x)
                                    /\ Gone(taken'[x], v[x], DoorPut(more, request[p], x))
           /\ Whole(v, Clean)
  PROVE  \E u : Foreseen(u)'
<1>1. /\ Alone(p) /\ todo'[p] = more /\ todo[p] # <<>> /\ Disturbance
      /\ \A x \in Reached(p) : world'[x] = world[x]
  BY DecidesNext DEF Foreseen, Decides
<1>2. CASE Reached(p) \subseteq disturbed
  BY <1>1, <1>2, DisturbedStep
<1>3. CASE Calm(p)
  <2>1. more # <<>> => Prepared(more, request[p], world, disturbed)
    BY <1>3 DEF PreparedNext
  <2>2. more # <<>> => Prepared(more, request[p], world', disturbed)
    <3>1. world' = world
      BY DEF Decides
    <3> QED  BY <2>1, <3>1
  <2>3. Foreseen(v)'
    BY <1>1, <1>3, <2>2, CalmStep
  <2> QED  BY <2>3
<1> QED  BY <1>1, <1>2, <1>3, CalmOrNot

LEMMA DecideNothing ==
  ASSUME ShownInv, ShownInv', NEW w, Foreseen(w), NEW p \in Players, NEW name, NEW more, Decides(p, name, more),
         disturbed' = disturbed, taken' = taken, PreparedNext(p, more),
         Calm(p) => \A x \in Reached(p) :
           /\ Left(more, request[p], world[x], x) = world[x]
           /\ ~DoorPut(more, request[p], x) /\ ~DoorPut(todo[p], request[p], x)
  PROVE  \E u : Foreseen(u)'
<1>1. Calm(p) => /\ w \in [DOMAIN world -> Block]
                 /\ \A x \in DOMAIN world : x \notin Reached(p) => w[x] = w[x]
                 /\ \A x \in Reached(p) : /\ w[x] = Left(more, request[p], world[x], x)
                                          /\ Gone(taken'[x], w[x], DoorPut(more, request[p], x))
                 /\ Whole(w, Clean)
  <2> SUFFICES ASSUME Calm(p), NEW x \in Reached(p)
               PROVE  /\ w[x] = Left(more, request[p], world[x], x)
                      /\ Gone(taken'[x], w[x], DoorPut(more, request[p], x))
    BY DEF Foreseen
  <2>1. /\ w[x] = IF DoorPut(todo[p], request[p], x) THEN Written(todo[p][1]) ELSE world[x]
        /\ Gone(taken[x], w[x], DoorPut(todo[p], request[p], x))
    BY DecidesBefore
  <2> QED  BY <2>1 DEF Gone
<1> QED  BY <1>1, DecideStep

(* One block changes, and no door. *)
OneChanges(p, more, y, c) ==
  /\ \A x \in Reached(p) :
       /\ Left(more, request[p], world[x], x) = IF x = y THEN c ELSE world[x]
       /\ ~DoorPut(more, request[p], x) /\ ~DoorPut(todo[p], request[p], x)
  /\ y \in Reached(p) =>
       /\ c = world[y] \/ (world[y].type \notin Doors /\ c.type \notin Doors)
       /\ Gone(taken[y], world[y], FALSE) => Gone(taken'[y], c, FALSE)

LEMMA DecideOne ==
  ASSUME ShownInv, ShownInv', NEW w, Foreseen(w), NEW p \in Players, NEW name, NEW more, Decides(p, name, more),
         disturbed' = disturbed, PreparedNext(p, more), NEW y, NEW c \in Block,
         \A x \in DOMAIN world : x # y => taken'[x] = taken[x],
         Calm(p) => OneChanges(p, more, y, c)
  PROVE  \E u : Foreseen(u)'
<1>0. Calm(p) =>
        /\ \A x \in Reached(p) :
             /\ Left(more, request[p], world[x], x) = IF x = y THEN c ELSE world[x]
             /\ ~DoorPut(more, request[p], x) /\ ~DoorPut(todo[p], request[p], x)
        /\ y \in Reached(p) =>
             /\ c = world[y] \/ (world[y].type \notin Doors /\ c.type \notin Doors)
             /\ Gone(taken[y], world[y], FALSE) => Gone(taken'[y], c, FALSE)
  BY DEF OneChanges
<1> PICK v : v = [x \in DOMAIN world |-> IF x \in Reached(p) THEN Left(more, request[p], world[x], x) ELSE w[x]]
  OBVIOUS
<1>1. Reached(p) \subseteq DOMAIN world /\ TypeOK
  BY DecidesNext
<1>2. w \in [DOMAIN world -> Block] /\ world \in [DOMAIN world -> Block] /\ Whole(w, Clean)
  BY <1>1 DEF Foreseen, TypeOK
<1>3. Calm(p) => /\ v \in [DOMAIN world -> Block]
                 /\ \A x \in DOMAIN world : x \notin Reached(p) => v[x] = w[x]
                 /\ \A x \in Reached(p) : /\ v[x] = Left(more, request[p], world[x], x)
                                          /\ Gone(taken'[x], v[x], DoorPut(more, request[p], x))
                 /\ Whole(v, Clean)
  <2> SUFFICES ASSUME Calm(p)
               PROVE  /\ v \in [DOMAIN world -> Block]
                      /\ \A x \in DOMAIN world : x \notin Reached(p) => v[x] = w[x]
                      /\ \A x \in Reached(p) : /\ v[x] = Left(more, request[p], world[x], x)
                                               /\ Gone(taken'[x], v[x], DoorPut(more, request[p], x))
                      /\ Whole(v, Clean)
    OBVIOUS
  <2>1. \A x \in Reached(p) : /\ v[x] = Left(more, request[p], world[x], x)
                              /\ v[x] = IF x = y THEN c ELSE world[x]
    BY <1>0, <1>1
  <2>2. v \in [DOMAIN world -> Block]
    <3>1. \A x \in Reached(p) : Left(more, request[p], world[x], x) \in Block
      BY <1>0, <1>1, <1>2
    <3> QED  BY <1>2, <3>1
  <2>3. \A x \in DOMAIN world : x \notin Reached(p) => v[x] = w[x]
    OBVIOUS
  <2>4. \A x \in Reached(p) : x \in Clean /\ w[x] = world[x] /\ Gone(taken[x], world[x], FALSE)
    <3> SUFFICES ASSUME NEW x \in Reached(p) PROVE x \in Clean /\ w[x] = world[x] /\ Gone(taken[x], world[x], FALSE)
      OBVIOUS
    <3>1. /\ x \in Clean
          /\ w[x] = IF DoorPut(todo[p], request[p], x) THEN Written(todo[p][1]) ELSE world[x]
          /\ Gone(taken[x], w[x], DoorPut(todo[p], request[p], x))
      BY DecidesBefore
    <3> QED  BY <1>0, <3>1 DEF Gone
  <2>5. \A x \in Reached(p) : Gone(taken'[x], v[x], DoorPut(more, request[p], x))
    <3> SUFFICES ASSUME NEW x \in Reached(p) PROVE Gone(taken'[x], v[x], FALSE)
      BY <1>0 DEF Gone
    <3>1. CASE x = y
      BY <1>0, <2>1, <2>4, <3>1
    <3>2. CASE x # y
      BY <1>1, <2>1, <2>4, <3>2
    <3> QED  BY <3>1, <3>2
  <2>6. \A x \in Clean : v[x] = w[x] \/ (w[x].type \notin Doors /\ v[x].type \notin Doors)
    <3> SUFFICES ASSUME NEW x \in Clean PROVE v[x] = w[x] \/ (w[x].type \notin Doors /\ v[x].type \notin Doors)
      OBVIOUS
    <3>1. x \in DOMAIN world
      BY DEF Clean
    <3>2. CASE x \in Reached(p)
      BY <1>0, <2>1, <2>4, <3>2
    <3>3. CASE x \notin Reached(p)
      BY <2>3, <3>1, <3>3
    <3> QED  BY <3>2, <3>3
  <2>7. Whole(v, Clean)
    BY <1>2, <2>6, NoDoorChanged
  <2> QED  BY <2>1, <2>2, <2>3, <2>5, <2>7
<1> QED  BY <1>3, DecideStep

(* ------------------------- decisions of one block ----------------------- *)

LEMMA NoDoorPut ==
  ASSUME ShownInv, NEW p \in Players, NEW name, NEW more, Decides(p, name, more),
         name = "put" => todo[p][1].type \notin Doors \/ ~IsDoorItem(request[p].item), NEW x
  PROVE  ~DoorPut(todo[p], request[p], x)
<1>1. Len(todo[p]) = 1 /\ todo[p][1].call \notin Changing /\ todo[p][1].call = name
  BY DecidesNext
<1> PICK s, r : s = todo[p] /\ r = request[p]
  OBVIOUS
<1>2. /\ Len(s) = 1 /\ s[1].call \notin Changing
      /\ s[1].call = "put" => s[1].type \notin Doors \/ ~IsDoorItem(r.item)
  BY <1>1
<1>3. ~DoorPut(s, r, x)
  BY <1>2, LeftTop
<1> QED  BY <1>3

(* A call follows that has not begun, or none. *)
LEMMA CallStep ==
  ASSUME ShownInv, ShownInv', NEW w, Foreseen(w), NEW p \in Players, NEW name, NEW more, Decides(p, name, more),
         disturbed' = disturbed, taken' = taken,
         name = "put" => todo[p][1].type \notin Doors \/ ~IsDoorItem(request[p].item),
         NEW c, more \in {<<>>, <<c>>},
         c.call \in {"interact", "hoe", "soak", "placed", "put"},
         c.call = "put" => c.type \notin Doors \/ ~IsDoorItem(request[p].item),
         more # <<>> /\ Calm(p) /\ c.call \in {"placed", "put"} /\ Target(request[p]) \in DOMAIN world =>
           world[Target(request[p])].type \notin Doors
  PROVE  \E u : Foreseen(u)'
<1> PICK r : r = request[p]
  OBVIOUS
<1>1. \A b, x : Left(more, r, b, x) = b /\ ~DoorPut(more, r, x)
  <2>1. CASE more = <<>>
    <3>1. Len(more) = 0
      BY <2>1
    <3> QED  BY <3>1, LeftNothing
  <2>2. CASE more = <<c>>
    <3>1. Len(more) = 1 /\ more[1] = c
      BY <2>2
    <3>2. more[1].call \notin Changing
      BY <3>1 DEF Changing
    <3> SUFFICES ASSUME NEW b, NEW x PROVE Left(more, r, b, x) = b /\ ~DoorPut(more, r, x)
      OBVIOUS
    <3>3. /\ DoorPut(more, r, x) <=> more[1].call = "put" /\ more[1].pos = x /\ more[1].type \in Doors /\ IsDoorItem(r.item)
          /\ Left(more, r, b, x) = IF DoorPut(more, r, x) THEN Written(more[1]) ELSE b
      BY <3>1, <3>2, LeftTop
    <3> QED  BY <3>1, <3>3
  <2> QED  BY <2>1, <2>2
<1>2. PreparedNext(p, more)
  <2> SUFFICES ASSUME Calm(p), more # <<>> PROVE Prepared(more, r, world, disturbed)
    BY DEF PreparedNext
  <2>1. Len(more) = 1 /\ more[1] = c
    OBVIOUS
  <2> QED  BY <2>1 DEF Prepared
<1>3. \A x : ~DoorPut(todo[p], request[p], x)
  BY NoDoorPut
<1> QED  BY <1>1, <1>2, <1>3, DecideNothing

(* A block is written next, and nothing but its use or the next cell of the *)
(* sponge follows. *)
UpdateCalls(s, y, t, m) ==
  \/ s = <<WriteCall(y, t, m), TellCall(y)>>
  \/ \E c : c.call \in {"interact", "soak"} /\ s = <<WriteCall(y, t, m), TellCall(y), c>>

Overwrites(p, y, b) ==
  y \in Reached(p) =>
    /\ b = world[y] \/ (world[y].type \notin Doors /\ b.type \notin Doors)
    /\ Gone(taken[y], world[y], FALSE) => Gone(taken'[y], b, FALSE)

LEMMA UpdateStep ==
  ASSUME ShownInv, ShownInv', NEW w, Foreseen(w), NEW p \in Players, NEW name, NEW more, Decides(p, name, more),
         disturbed' = disturbed,
         name = "put" => todo[p][1].type \notin Doors \/ ~IsDoorItem(request[p].item),
         NEW y, NEW t \in Int, NEW m \in Int, NEW b \in Block, b = Written(WriteCall(y, t, m)),
         UpdateCalls(more, y, t, m),
         \A x \in DOMAIN world : x # y => taken'[x] = taken[x],
         Calm(p) => Overwrites(p, y, b)
  PROVE  \E u : Foreseen(u)'
<1> PICK r : r = request[p]
  OBVIOUS
<1>1. /\ Len(more) = 2 \/ (Len(more) = 3 /\ more[3].call \in {"interact", "soak"})
      /\ more[1].call = "write" /\ more[2].call = "tell" /\ more[1].pos = y /\ more[1].do = "set"
      /\ Written(more[1]) = b
  <2>1. WriteCall(y, t, m).call = "write" /\ WriteCall(y, t, m).pos = y /\ WriteCall(y, t, m).do = "set"
        /\ Written(WriteCall(y, t, m)) = b /\ TellCall(y).call = "tell"
    BY DEF WriteCall, TellCall
  <2> DEFINE f == WriteCall(y, t, m)
             g == TellCall(y)
  <2>2. f.call = "write" /\ f.pos = y /\ f.do = "set" /\ Written(f) = b /\ g.call = "tell"
    BY <2>1
  <2>3. more = <<f, g>> \/ \E c : c.call \in {"interact", "soak"} /\ more = <<f, g, c>>
    BY DEF UpdateCalls
  <2> HIDE DEF f, g
  <2>4. CASE more = <<f, g>>
    BY <2>2, <2>4
  <2>5. ASSUME NEW c, c.call \in {"interact", "soak"}, more = <<f, g, c>>
        PROVE  Len(more) = 3 /\ more[3] = c /\ more[1] = f /\ more[2] = g
    BY <2>5
  <2> QED  BY <2>2, <2>3, <2>4, <2>5
<1>2. \A z, x : Left(more, r, z, x) = (IF x = y THEN b ELSE z) /\ ~DoorPut(more, r, x)
  <2> SUFFICES ASSUME NEW z, NEW x PROVE Left(more, r, z, x) = (IF x = y THEN b ELSE z) /\ ~DoorPut(more, r, x)
    OBVIOUS
  <2>1. Len(more) = 2 \/ Len(more) = 3
    BY <1>1
  <2>2. Len(more) = 3 => /\ more[3].call \notin Changing
                         /\ ~(more[3].call = "put" /\ more[3].type \in Doors /\ IsDoorItem(r.item))
    BY <1>1 DEF Changing
  <2>3. /\ ~DoorPut(more, r, x)
        /\ Left(more, r, z, x) = IF x = more[1].pos THEN Written(more[1]) ELSE z
    BY <1>1, <2>1, <2>2, LeftUpdate
  <2> QED  BY <1>1, <2>3
<1>3. PreparedNext(p, more)
  <2>1. more[Len(more)].call \in {"tell", "interact", "soak"}
    BY <1>1
  <2> QED  BY <1>1, <2>1 DEF PreparedNext, Prepared
<1>4. \A x : ~DoorPut(todo[p], request[p], x)
  BY NoDoorPut
<1>6. Calm(p) => \A x \in Reached(p) :
        /\ Left(more, request[p], world[x], x) = IF x = y THEN b ELSE world[x]
        /\ ~DoorPut(more, request[p], x) /\ ~DoorPut(todo[p], request[p], x)
  BY <1>2, <1>4
<1>7. Calm(p) => OneChanges(p, more, y, b)
  BY <1>6 DEF OneChanges, Overwrites
<1> HIDE <1>2
<1> QED  BY <1>3, <1>7, DecideOne

LEMMA WrittenBlock ==
  ASSUME NEW y, NEW t \in Int, NEW m \in Int
  PROVE  /\ Written(WriteCall(y, t, m)) \in Block /\ Written(WriteCall(y, t, m)).type = t
         /\ m \in 0 .. 15 => Written(WriteCall(y, t, m)).meta = m
<1>1. m % 16 \in 0 .. 15 /\ (m \in 0 .. 15 => m % 16 = m)
  OBVIOUS
<1> QED  BY <1>1 DEF Written, WriteCall, Block

(* --------------------------- what is used ------------------------------- *)

LEMMA UseCalls ==
  ASSUME NEW x, NEW type, NEW meta
  PROVE  /\ type = BLOCK.DOOR_WOOD =>
              UseAfterLook(x, type, meta) = <<SwingCall(OtherDoorHalf(x, Toggled(meta)), type),
                                              WriteCall(x, type, Toggled(meta)), TellCall(x)>>
         /\ type # BLOCK.DOOR_WOOD =>
              UseAfterLook(x, type, meta) =
                <<WriteCall(x, type, IF type = BLOCK.TRAPDOOR THEN Toggled(meta) ELSE meta), TellCall(x)>>
<1> DEFINE new == IF type \in {BLOCK.TRAPDOOR, BLOCK.DOOR_WOOD} THEN Toggled(meta) ELSE meta
           h == SwingCall(OtherDoorHalf(x, new), type)
           a == WriteCall(x, type, new)
           b == TellCall(x)
<1>1. UseAfterLook(x, type, meta) = (IF type = BLOCK.DOOR_WOOD THEN <<h>> ELSE <<>>) \o <<a, b>>
  BY Updates DEF UseAfterLook, AfterLook, Call, SwingCall
<1>2. /\ type = BLOCK.DOOR_WOOD => new = Toggled(meta)
      /\ type # BLOCK.DOOR_WOOD => new = IF type = BLOCK.TRAPDOOR THEN Toggled(meta) ELSE meta
  OBVIOUS
<1> HIDE DEF h, a, b, new
<1>3. UseAfterLook(x, type, meta) = IF type = BLOCK.DOOR_WOOD THEN <<h, a, b>> ELSE <<a, b>>
  BY <1>1, Joined12, JoinedEmpty
<1> QED  BY <1>2, <1>3 DEF h, a, b

(* What a handler that has looked at a door knows of it. *)
LEMMA DoorSeen ==
  ASSUME ShownInv, NEW w, Foreseen(w), NEW p \in Players, NEW name \in {"dig", "interact"}, NEW more,
         Decides(p, name, more), Calm(p), reg[p].type \in Doors,
         NEW x, x = request[p].pos, NEW y, y = OtherDoorHalf(x, reg[p].meta)
  PROVE  /\ x \in Reached(p) /\ x # y
         /\ world[x].type = reg[p].type /\ world[x].meta = reg[p].meta
         /\ y \in DOMAIN world => y \in Reached(p) /\ BelongTogether(world[x], world[y])
         /\ \A z \in Reached(p) : z \in Clean /\ w[z] = world[z] /\ Gone(taken[z], world[z], FALSE)
<1>1. At(p, name) /\ name # "write" /\ name \in Lookers
  BY DEF Decides, Lookers
<1>2. /\ todo[p][1].call = name /\ CallOK(DOMAIN world, todo[p][1], request[p]) /\ request[p] \in Requests
      /\ DOMAIN world \subseteq Positions /\ reg[p].meta \in 0 .. 15
  BY <1>1, Deciding
<1>3. todo[p][1].pos = x /\ Reads(todo[p][1], request[p])
  BY <1>1, <1>2 DEF CallOK, Reads
<1>4. reg[p].type # BLOCK.AIR
  BY DoorsUsed
<1>5. x \in Reached(p) /\ world[x].type = reg[p].type /\ world[x].meta = reg[p].meta
  <2>1. /\ reg[p].type = BlockIn(world, x).type /\ reg[p].meta = BlockIn(world, x).meta
        /\ x \in DOMAIN world => x \in Reached(p) /\ BlockIn(world, x) = world[x]
        /\ x \notin DOMAIN world => BlockIn(world, x) = Air
    BY <1>1, <1>3, DecidesRight
  <2>2. Air.type = BLOCK.AIR
    BY DEF Air
  <2> QED  BY <1>4, <2>1, <2>2
<1>6. \A z \in Reached(p) : z \in Clean /\ w[z] = world[z] /\ Gone(taken[z], world[z], FALSE)
  <2> SUFFICES ASSUME NEW z \in Reached(p) PROVE z \in Clean /\ w[z] = world[z] /\ Gone(taken[z], world[z], FALSE)
    OBVIOUS
  <2>1. /\ z \in Clean
        /\ w[z] = IF DoorPut(todo[p], request[p], z) THEN Written(todo[p][1]) ELSE world[z]
        /\ Gone(taken[z], w[z], DoorPut(todo[p], request[p], z))
    BY DecidesBefore
  <2>2. ~DoorPut(todo[p], request[p], z)
    <3>1. name # "put"
      OBVIOUS
    <3> QED  BY <3>1, NoDoorPut
  <2> QED  BY <2>1, <2>2 DEF Gone
<1>7. y \in Near(x) \ {x}
  BY <1>2, RequestPositions, Nearer
<1>8. y \in DOMAIN world => y \in Reached(p)
  <2>1. y \in TouchedIn(DOMAIN world, request[p])
    BY <1>2, <1>7, Places_
  <2> QED  BY <1>2, <2>1, Reaches DEF Reached
<1>9. y \in DOMAIN world => BelongTogether(world[x], world[y])
  <2> SUFFICES ASSUME y \in DOMAIN world PROVE BelongTogether(world[x], world[y])
    OBVIOUS
  <2>1. x \in Clean /\ y \in Clean /\ w[x] = world[x] /\ w[y] = world[y]
    BY <1>5, <1>6, <1>8
  <2>2. w[x].type \in Doors /\ y = OtherDoorHalf(x, w[x].meta)
    BY <1>5, <2>1
  <2> QED  BY <2>1, <2>2 DEF Foreseen, Whole
<1> QED  BY <1>5, <1>6, <1>7, <1>8, <1>9

(* The swing of a wooden door. *)
LEMMA SwingForeseen ==
  ASSUME ShownInv, ShownInv', NEW w, Foreseen(w), NEW p \in Players, Interact(p), reg[p].type = BLOCK.DOOR_WOOD,
         NEW more, Decides(p, "interact", more), NEW x, x = request[p].pos,
         more = <<SwingCall(OtherDoorHalf(x, Toggled(reg[p].meta)), reg[p].type),
                  WriteCall(x, reg[p].type, Toggled(reg[p].meta)), TellCall(x)>>
  PROVE  \E u : Foreseen(u)'
<1> DEFINE r == request[p]
<1> PICK m, y : m = reg[p].meta /\ y = OtherDoorHalf(x, m)
  OBVIOUS
<1>1. /\ TypeOK /\ m \in 0 .. 15 /\ DOMAIN world \subseteq Positions
      /\ Toggled(m) \in 0 .. 15 /\ Toggled(m) % 16 = Toggled(m) /\ OtherDoorHalf(x, Toggled(m)) = y
  <2>1. TypeOK /\ m \in 0 .. 15 /\ DOMAIN world \subseteq Positions
    BY DecidesNext DEF TypeOK
  <2> QED  BY <2>1, Bits DEF OtherDoorHalf
<1>2. /\ Len(more) = 3 /\ more[1].call = "swing" /\ more[1].pos = y /\ more[1].type = BLOCK.DOOR_WOOD
      /\ more[2].call = "write" /\ more[2].pos = x /\ more[3].call = "tell"
      /\ Written(more[2]) = [type |-> BLOCK.DOOR_WOOD, meta |-> Toggled(m)]
  <2> DEFINE h == SwingCall(y, BLOCK.DOOR_WOOD)
             a == WriteCall(x, BLOCK.DOOR_WOOD, Toggled(m))
             b == TellCall(x)
  <2>1. /\ h.call = "swing" /\ h.pos = y /\ h.type = BLOCK.DOOR_WOOD /\ a.call = "write" /\ a.pos = x /\ b.call = "tell"
        /\ Written(a) = [type |-> BLOCK.DOOR_WOOD, meta |-> Toggled(m)]
    BY <1>1 DEF SwingCall, WriteCall, TellCall, Written
  <2>2. more = <<h, a, b>>
    BY <1>1
  <2> HIDE DEF h, a, b
  <2> QED  BY <2>1, <2>2
<1>3. BLOCK.DOOR_WOOD \in Doors /\ BLOCK.DOOR_WOOD # BLOCK.AIR
  BY DoorsUsed
<1> PICK v : v = [z \in DOMAIN world |-> IF z \in Reached(p) THEN Left(more, r, world[z], z) ELSE w[z]]
  OBVIOUS
<1>4. PreparedNext(p, more)
  <2>1. more[1].call # "write" /\ more[Len(more)].call = "tell"
    BY <1>2
  <2> QED  BY <2>1 DEF PreparedNext, Prepared
<1>5. Calm(p) =>
        /\ v \in [DOMAIN world -> Block]
        /\ \A z \in DOMAIN world : z \notin Reached(p) => v[z] = w[z]
        /\ \A z \in Reached(p) : /\ v[z] = Left(more, r, world[z], z)
                                 /\ Gone(taken'[z], v[z], DoorPut(more, r, z))
        /\ Whole(v, Clean)
  <2> SUFFICES ASSUME Calm(p)
               PROVE  /\ v \in [DOMAIN world -> Block]
                      /\ \A z \in DOMAIN world : z \notin Reached(p) => v[z] = w[z]
                      /\ \A z \in Reached(p) : /\ v[z] = Left(more, r, world[z], z)
                                               /\ Gone(taken'[z], v[z], DoorPut(more, r, z))
                      /\ Whole(v, Clean)
    OBVIOUS
  <2>1. /\ x \in Reached(p) /\ x # y
        /\ world[x].type = BLOCK.DOOR_WOOD /\ world[x].meta = m
        /\ y \in DOMAIN world => y \in Reached(p) /\ BelongTogether(world[x], world[y])
        /\ \A z \in Reached(p) : z \in Clean /\ w[z] = world[z] /\ Gone(taken[z], world[z], FALSE)
    BY <1>3, DoorSeen
  <2>2. Reached(p) \subseteq DOMAIN world /\ world \in [DOMAIN world -> Block] /\ w \in [DOMAIN world -> Block]
        /\ Whole(w, Clean)
    BY <1>1 DEF Reached, ReachIn, Foreseen, TypeOK
  <2>3. \A z \in Reached(p) : v[z] = Left(more, r, world[z], z)
    BY <2>2
  <2>4. \A z \in DOMAIN world : z \notin Reached(p) => v[z] = w[z]
    OBVIOUS
  <2>5. ASSUME NEW z \in Reached(p)
        PROVE  /\ v[z] = IF z \in {x, y} THEN Swung(world[z]) ELSE world[z]
               /\ ~DoorPut(more, r, z)
    <3> PICK b : b = world[z]
      OBVIOUS
    <3>1. /\ ~DoorPut(more, r, z)
          /\ Left(more, r, b, z) = IF z = more[2].pos THEN Written(more[2])
                                   ELSE IF z = more[1].pos /\ b.type = more[1].type
                                   THEN IF more[1].call = "half" THEN Air ELSE Swung(b)
                                   ELSE b
      BY <1>2, <2>1, LeftHalf
    <3>2. z = x => Written(more[2]) = Swung(b)
      BY <1>2, <2>1 DEF Swung
    <3>3. z = y => b.type = BLOCK.DOOR_WOOD
      BY <2>1, <2>2 DEF BelongTogether
    <3> QED  BY <1>2, <2>1, <2>3, <3>1, <3>2, <3>3
  <2>6. \A b \in Block : Swung(b) \in Block /\ Swung(b).type = b.type
    BY Bits DEF Swung, Block
  <2>7. v \in [DOMAIN world -> Block]
    <3>1. ASSUME NEW z \in Reached(p) PROVE v[z] \in Block
      <4> PICK b : b = world[z]
        OBVIOUS
      <4>1. b \in Block /\ v[z] \in {b, Swung(b)}
        BY <2>2, <2>5
      <4> QED  BY <2>6, <4>1
    <3>2. \A z \in DOMAIN world : v[z] \in Block
      BY <2>2, <2>4, <3>1
    <3> QED  BY <3>2
  <2>8. \A z \in Reached(p) : Gone(taken'[z], v[z], DoorPut(more, r, z))
    <3> SUFFICES ASSUME NEW z \in Reached(p) PROVE Gone(taken[z], v[z], FALSE)
      BY DEF Gone, Interact
    <3>1. v[z].type = world[z].type
      BY <2>2, <2>5, <2>6
    <3> QED  BY <2>1, <3>1 DEF Gone
  <2>9. Whole(v, Clean)
    <3>1. Clean \in SUBSET Positions /\ x \in Clean /\ \A z \in Clean : z \in DOMAIN world /\ w[z] \in Block
      BY <1>1, <2>1, <2>2 DEF Clean
    <3>2. w[x].type \in Doors /\ v[x] = Swung(w[x]) /\ y = OtherDoorHalf(x, w[x].meta)
      BY <1>3, <2>1, <2>5
    <3>3. y \in Clean => v[y] = Swung(w[y])
      BY <2>1, <2>5, <3>1
    <3>4. \A z \in Clean : z \notin {x, y} => v[z] = w[z]
      BY <2>1, <2>4, <2>5, <3>1
    <3> QED  BY <2>2, <3>1, <3>2, <3>3, <3>4, BothSwung
  <2> QED  BY <2>3, <2>4, <2>7, <2>8, <2>9
<1>6. disturbed' = disturbed
  BY DEF Interact
<1> HIDE DEF r
<1>7. Calm(p) =>
        /\ v \in [DOMAIN world -> Block]
        /\ \A z \in DOMAIN world : z \notin Reached(p) => v[z] = w[z]
        /\ \A z \in Reached(p) : /\ v[z] = Left(more, request[p], world[z], z)
                                 /\ Gone(taken'[z], v[z], DoorPut(more, request[p], z))
        /\ Whole(v, Clean)
  BY <1>5 DEF r
<1> QED  BY <1>4, <1>6, <1>7, DecideStep

(* What is used is a wooden door, of which both halves swing, or one block *)
(* that stays what it is. *)
LEMMA InteractForeseen ==
  ASSUME ShownInv, ShownInv', NEW w, Foreseen(w), NEW p \in Players, Interact(p)
  PROVE  \E u : Foreseen(u)'
<1> PICK x, t, m : /\ x = request[p].pos /\ t = reg[p].type
                   /\ m = IF reg[p].type = BLOCK.TRAPDOOR THEN Toggled(reg[p].meta) ELSE reg[p].meta
  OBVIOUS
<1>1. /\ At(p, "interact") /\ ReturnOrEnd(p, UseAfterLook(Current(p).pos, reg[p].type, reg[p].meta))
      /\ UNCHANGED <<world, shown, taken, raced, disturbed>>
  BY DEF Interact
<1>2. /\ TypeOK /\ request[p] \in Requests /\ DOMAIN world \subseteq Positions
      /\ CallOK(DOMAIN world, todo[p][1], request[p]) /\ todo[p][1].call = "interact"
      /\ Current(p) = todo[p][1] /\ request[p].op \in {"dig", "place"}
      /\ reg[p].type \in Int /\ reg[p].meta \in 0 .. 15
  BY <1>1, Deciding
<1>3. Current(p).pos = x
  BY <1>2 DEF CallOK
<1> DEFINE more == UseAfterLook(x, reg[p].type, reg[p].meta)
<1>4. Good(DOMAIN world, more, request[p])
  BY <1>2, UseLeaves
<1>5. Decides(p, "interact", more)
  BY <1>1, <1>3, <1>4 DEF Decides, Deciders
<1>6. CASE t = BLOCK.DOOR_WOOD
  BY <1>5, <1>6, UseCalls, SwingForeseen
<1>7. CASE t # BLOCK.DOOR_WOOD
  <2> PICK b : b = Written(WriteCall(x, t, m))
    OBVIOUS
  <2>1. m \in 0 .. 15 /\ m % 16 = m
    <3>1. m \in 0 .. 15
      BY <1>2, Bits
    <3> QED  BY <3>1
  <2>2. b \in Block /\ b.type = t /\ b.meta = m
    BY <1>2, <2>1, WrittenBlock
  <2>3. UpdateCalls(more, x, t, m)
    BY <1>7, UseCalls DEF UpdateCalls
  <2>4. Calm(p) => Overwrites(p, x, b)
    <3> SUFFICES ASSUME Calm(p), x \in Reached(p)
                 PROVE  /\ b = world[x] \/ (world[x].type \notin Doors /\ b.type \notin Doors)
                        /\ Gone(taken[x], world[x], FALSE) => Gone(taken[x], b, FALSE)
      BY <1>1 DEF Overwrites
    <3>1. x \in DOMAIN world
      BY DEF Reached, ReachIn
    <3>2. world[x].type = t /\ world[x].meta = reg[p].meta /\ world[x] \in Block
      <4>1. todo[p][1].pos = x /\ Reads(todo[p][1], request[p]) /\ "interact" \in Lookers
        BY <1>2, <1>3 DEF Reads, Lookers
      <4>2. world[x].type = t /\ world[x].meta = reg[p].meta
        BY <1>1, <3>1, <4>1, DecidesRight
      <4> QED  BY <1>2, <3>1, <4>2 DEF TypeOK
    <3>3. Gone(taken[x], world[x], FALSE) => Gone(taken[x], b, FALSE)
      BY <2>2, <3>2 DEF Gone
    <3>4. CASE t = BLOCK.TRAPDOOR
      <4>1. t \notin Doors
        BY <3>4, DoorsUsed
      <4> QED  BY <2>2, <3>2, <3>3, <4>1
    <3>5. CASE t # BLOCK.TRAPDOOR
      <4>1. b = world[x]
        BY <2>2, <3>2, <3>5 DEF Block
      <4> QED  BY <3>3, <4>1
    <3> QED  BY <3>4, <3>5
  <2>5. /\ \A z \in DOMAIN world : z # x => taken'[z] = taken[z]
        /\ disturbed' = disturbed /\ t \in Int /\ m \in Int
    BY <1>1, <1>2, <2>1
  <2> HIDE DEF more
  <2> QED  BY <1>5, <2>2, <2>3, <2>4, <2>5, UpdateStep
<1> QED  BY <1>6, <1>7

(* The next cell around a sponge is emptied of water, or left. *)
LEMMA SoakForeseen ==
  ASSUME ShownInv, ShownInv', NEW w, Foreseen(w), NEW p \in Players, Soak(p)
  PROVE  \E u : Foreseen(u)'
<1> PICK y : y = todo[p][1].pos
  OBVIOUS
<1> DEFINE f == todo[p][1]
           r == request[p]
           rest == SoakFrom(Target(request[p]), f.meta + 1)
           more == (IF reg[p].type \in Water THEN PlaceBlockUpdate(y, BLOCK.AIR, 0) ELSE <<>>) \o rest
<1>1. /\ TypeOK /\ r \in Requests /\ DOMAIN world \subseteq Positions /\ At(p, "soak")
      /\ CallOK(DOMAIN world, f, r) /\ f.call = "soak" /\ f \in Frame /\ Current(p) = f
      /\ y \in TouchedIn(DOMAIN world, r)
  <2>1. At(p, "soak")
    BY DEF Soak
  <2> QED  BY <2>1, Deciding
<1>2. r.op = "place" /\ r.item = BLOCK.SPONGE /\ f.meta \in 0 .. LastCell
  BY <1>1 DEF CallOK
<1>3. f.meta + 1 \in Nat
  BY <1>2 DEF LastCell
<1>4. UNCHANGED <<world, taken, raced, disturbed>>
  BY DEF Soak
<1>5. Good(DOMAIN world, more, r)
  <2>1. /\ Good(DOMAIN world, <<>> \o rest, r)
        /\ Good(DOMAIN world, PlaceBlockUpdate(y, BLOCK.AIR, 0) \o rest, r)
    BY <1>1, <1>2, <1>3, Air0, SoakedLeaves
  <2> HIDE DEF rest
  <2>2. CASE reg[p].type \in Water
    BY <2>1, <2>2
  <2>3. CASE reg[p].type \notin Water
    BY <2>1, <2>3
  <2> QED  BY <2>2, <2>3
<1>6. Decides(p, "soak", more)
  <2>1. ReturnOrEnd(p, more)
    BY <1>1 DEF Soak
  <2> QED  BY <1>1, <1>4, <1>5, <2>1 DEF Decides, Deciders
<1>7. rest = <<>> \/ \E c : rest = <<c>> /\ c.call = "soak"
  BY <1>1, <1>2, <1>3, SoakLeaves
<1>8. CASE reg[p].type \notin Water
  <2>1. more = <<>> \o rest
    BY <1>8
  <2>2. PICK c : c.call = "soak" /\ more \in {<<>>, <<c>>}
    <3>1. CASE rest = <<>>
      <4> DEFINE c == SoakCall(y, 0)
      <4>1. c.call = "soak"
        BY DEF SoakCall
      <4> HIDE DEF c
      <4>2. more = <<>>
        BY <2>1, <3>1, JoinedEmpty
      <4> QED  BY <4>1, <4>2
    <3>2. ASSUME NEW c, rest = <<c>>, c.call = "soak"
          PROVE  more = <<c>>
      BY <2>1, <3>2, JoinedEmpty
    <3> QED  BY <1>7, <3>1, <3>2
  <2> HIDE DEF more
  <2> QED  BY <1>4, <1>6, <2>2, CallStep
<1>9. CASE reg[p].type \in Water
  <2>1. UpdateCalls(more, y, BLOCK.AIR, 0)
    <3> DEFINE a == WriteCall(y, BLOCK.AIR, 0)
               b == TellCall(y)
    <3>1. more = <<a, b>> \o rest
      BY <1>9, Updates
    <3> HIDE DEF a, b, more, rest
    <3>2. CASE rest = <<>>
      <4>1. more = <<a, b>>
        BY <3>1, <3>2, JoinedEmpty
      <4> QED  BY <4>1 DEF UpdateCalls, a, b
    <3>3. ASSUME NEW c, rest = <<c>>, c.call = "soak"
          PROVE  UpdateCalls(more, y, BLOCK.AIR, 0)
      <4>1. more = <<a, b, c>>
        BY <3>1, <3>3, Joined21
      <4> QED  BY <3>3, <4>1 DEF UpdateCalls, a, b
    <3> QED  BY <1>7, <3>2, <3>3
  <2>2. Air \in Block /\ Air.type = BLOCK.AIR /\ Air = Written(WriteCall(y, BLOCK.AIR, 0))
        /\ BLOCK.AIR \in Int /\ BLOCK.AIR \notin Doors
    BY Air0, DoorsUsed DEF Air, Block, Written, WriteCall
  <2>3. Calm(p) => Overwrites(p, y, Air)
    <3> SUFFICES ASSUME Calm(p), y \in Reached(p)
                 PROVE  world[y].type \notin Doors
                        /\ (Gone(taken[y], world[y], FALSE) => Gone(taken[y], Air, FALSE))
      BY <1>4, <2>2 DEF Overwrites
    <3>1. y \in DOMAIN world
      BY DEF Reached, ReachIn
    <3>2. world[y].type = reg[p].type
      <4>1. Reads(f, r)
        BY <1>1 DEF Reads
      <4> QED  BY <1>1, <3>1, <4>1, DecidesRight
    <3>3. reg[p].type \notin Doors
      BY <1>9 DEF Water, Doors, BLOCK
    <3> QED  BY <2>2, <3>2, <3>3 DEF Gone
  <2>4. /\ \A z \in DOMAIN world : z # y => taken'[z] = taken[z]
        /\ disturbed' = disturbed /\ 0 \in Int
    BY <1>4
  <2> HIDE DEF more
  <2> QED  BY <1>6, <2>1, <2>2, <2>3, <2>4, UpdateStep
<1> QED  BY <1>8, <1>9

(* --------------------------- what is placed ----------------------------- *)

(* No door is where a block is to be put. *)
LEMMA TargetClear ==
  ASSUME ShownInv, NEW w, Foreseen(w), NEW p \in Players, NEW name \in {"place", "placed", "put"}, NEW more,
         Decides(p, name, more), Calm(p), NEW x, x = Target(request[p]), x \in DOMAIN world
  PROVE  /\ x \in Reached(p)
         /\ \/ world[x].type \notin Doors
            \/ name = "place" /\ IsInteractable(BlockIn(world, request[p].pos).type)
<1> PICK s, r : s = todo[p] /\ r = request[p]
  OBVIOUS
<1>1. /\ Len(s) = 1 /\ s # <<>> /\ s[1].call = name /\ DOMAIN world \subseteq Positions
      /\ s \in Seq(Frame) /\ CallsOK(DOMAIN world, s, r)
  <2>1. At(p, name) /\ name # "write"
    BY DEF Decides
  <2> QED  BY <2>1, DecidesNext, Deciding
<1>2. x \in Reached(p)
  <2>1. s[Len(s)].call \in {"place", "placed", "put"}
    BY <1>1
  <2>2. Target(r) \in DOMAIN world => Target(r) \in ReachIn(DOMAIN world, r)
    BY <1>1, <2>1, Reaching
  <2> QED  BY <2>2 DEF Reached
<1>3. x \in DOMAIN world \ disturbed
  BY <1>2 DEF Calm
<1>4. Prepared(s, r, world, disturbed)
  BY <1>1 DEF Foreseen, AllPrepared
<1> QED  BY <1>1, <1>2, <1>3, <1>4 DEF Prepared

LEMMA PlaceForeseen ==
  ASSUME ShownInv, ShownInv', NEW w, Foreseen(w), NEW p \in Players, Place(p)
  PROVE  \E u : Foreseen(u)'
<1> PICK r, x, type, meta : r = request[p] /\ x = request[p].pos /\ type = reg[p].type /\ meta = reg[p].meta
  OBVIOUS
<1>0. UNCHANGED <<world, taken, raced, disturbed>>
  BY DEF Place
<1>1. PICK name \in {"place", "hoe"} : At(p, name)
  BY DEF Place
<1>2. /\ TypeOK /\ r \in Requests /\ DOMAIN world \subseteq Positions /\ Current(p) = todo[p][1]
      /\ CallOK(DOMAIN world, todo[p][1], r) /\ todo[p][1].call = name /\ type \in Int /\ meta \in 0 .. 15
  BY <1>1, Deciding
<1>3. r.op = "place" /\ todo[p][1].pos = x /\ name \notin {"write", "put"} /\ Reads(todo[p][1], r)
  BY <1>2 DEF CallOK, Reads, Lookers
<1>4. PICK more : /\ Decides(p, name, more)
                  /\ name = "place" => more = PlaceAfterLook(r, type, meta)
                  /\ name = "hoe" => more = IF type \in {BLOCK.GRASS, BLOCK.DIRT}
                                            THEN PlaceBlockUpdate(x, BLOCK.FARMLAND, 0) ELSE <<>>
  <2>1. CASE name = "place"
    <3>1. ReturnOrEnd(p, PlaceAfterLook(r, type, meta))
      BY <1>2, <2>1 DEF Place, At
    <3>2. Good(DOMAIN world, PlaceAfterLook(r, type, meta), r)
      BY <1>2, <1>3, PlaceLeaves
    <3>3. Decides(p, name, PlaceAfterLook(r, type, meta))
      BY <1>0, <1>1, <3>1, <3>2 DEF Decides, Deciders
    <3> QED  BY <2>1, <3>3
  <2>2. CASE name = "hoe"
    <3> DEFINE s == IF type \in {BLOCK.GRASS, BLOCK.DIRT} THEN PlaceBlockUpdate(x, BLOCK.FARMLAND, 0) ELSE <<>>
    <3>1. ReturnOrEnd(p, s)
      BY <1>2, <1>3, <2>2 DEF Place, At
    <3>2. Good(DOMAIN world, s, r)
      BY <1>2, <1>3, HoeLeaves
    <3>3. Decides(p, name, s)
      BY <1>0, <1>1, <3>1, <3>2 DEF Decides, Deciders
    <3> QED  BY <2>2, <3>3
  <2> QED  BY <2>1, <2>2
<1>5. Calm(p) => type = BlockIn(world, x).type
  BY <1>1, <1>3, DecidesRight
<1>6. ASSUME NEW c, more \in {<<>>, <<c>>}, c.call \in {"interact", "hoe"}
      PROVE  \E u : Foreseen(u)'
  BY <1>0, <1>3, <1>4, <1>6, CallStep
<1>7. ASSUME NEW t \in {BLOCK.DOUBLE_SLAB, BLOCK.FARMLAND}, more = PlaceBlockUpdate(x, t, 0),
             type \in {BLOCK.SLAB, BLOCK.GRASS, BLOCK.DIRT}
      PROVE  \E u : Foreseen(u)'
  <2>1. t \in Int /\ t \notin Doors /\ type \notin Doors /\ type # BLOCK.AIR /\ 0 \in Int
    BY <1>7 DEF BLOCK, Doors
  <2> PICK b : b = Written(WriteCall(x, t, 0))
    OBVIOUS
  <2>2. b \in Block /\ b.type = t
    BY <2>1, WrittenBlock
  <2>3. UpdateCalls(more, x, t, 0)
    BY <1>7, Updates DEF UpdateCalls
  <2>4. Calm(p) => Overwrites(p, x, b)
    <3> SUFFICES ASSUME Calm(p), x \in Reached(p)
                 PROVE  /\ world[x].type \notin Doors /\ b.type \notin Doors
                        /\ Gone(taken[x], world[x], FALSE) => Gone(taken[x], b, FALSE)
      BY <1>0 DEF Overwrites
    <3>1. world[x].type = type
      BY <1>5 DEF BlockIn, Reached, ReachIn
    <3> QED  BY <2>1, <2>2, <3>1 DEF Gone
  <2>5. \A z \in DOMAIN world : z # x => taken'[z] = taken[z]
    BY <1>0
  <2> QED  BY <1>0, <1>3, <1>4, <2>1, <2>2, <2>3, <2>4, <2>5, UpdateStep
<1>8. ASSUME NEW c, more = <<c>>, c.call = "placed", name = "place", ~IsInteractable(type)
      PROVE  \E u : Foreseen(u)'
  <2>1. Calm(p) /\ Target(request[p]) \in DOMAIN world => world[Target(request[p])].type \notin Doors
    <3> SUFFICES ASSUME Calm(p), NEW y, y = Target(request[p]), y \in DOMAIN world PROVE world[y].type \notin Doors
      OBVIOUS
    <3>1. ~IsInteractable(BlockIn(world, request[p].pos).type)
      BY <1>5, <1>8
    <3> QED  BY <1>4, <1>8, <3>1, TargetClear
  <2> QED  BY <1>0, <1>3, <1>4, <1>8, <2>1, CallStep
<1>9. UseCall(x).call = "interact" /\ HoeCall(x).call = "hoe" /\ \A y, d : PlacedCall(y, d).call = "placed"
  BY DEF UseCall, HoeCall, PlacedCall
<1>10. CASE name = "hoe"
  BY <1>4, <1>6, <1>7, <1>9, <1>10
<1>11. CASE name = "place"
  <2>1. more = PlaceAfterLook(r, type, meta)
    BY <1>4, <1>11
  <2>2. AfterType("hoe", x, BLOCK.AIR, 0) = <<HoeCall(x)>> /\ InteractWithBlock(x) = <<UseCall(x)>>
    BY Uses DEF AfterType, Call, HoeCall
  <2>3. \A y : /\ AfterType("placed", y, BLOCK.AIR, 0) = <<PlacedCall(y, "type")>>
               /\ Call("placed", "act", y, BLOCK.AIR, 0) = <<PlacedCall(y, "act")>>
    BY DEF AfterType, Call, PlacedCall
  <2>4. \/ more \in {<<>>, <<UseCall(x)>>, <<HoeCall(x)>>}
        \/ more = PlaceBlockUpdate(x, BLOCK.DOUBLE_SLAB, 0) /\ type = BLOCK.SLAB
        \/ \E c : more = <<c>> /\ c.call = "placed" /\ ~IsInteractable(type)
    <3> HIDE DEF PlacedCall, HoeCall, UseCall
    <3> QED  BY <1>9, <2>1, <2>2, <2>3 DEF PlaceAfterLook
  <2> QED  BY <1>6, <1>7, <1>8, <1>9, <1>11, <2>4
<1> QED  BY <1>10, <1>11

(* What is left of a door whose placement is refused is disturbed. *)
LEMMA RefuseForeseen ==
  ASSUME ShownInv, ShownInv', NEW w, Foreseen(w), NEW p \in Players, Refuse(p)
  PROVE  \E u : Foreseen(u)'
<1>1. /\ At(p, "put") /\ ReturnOrEnd(p, <<>>) /\ UNCHANGED <<world, taken, raced>>
      /\ disturbed' = IF Current(p).type \in Doors THEN disturbed \cup Reach(request[p]) ELSE disturbed
  BY DEF Refuse
<1>2. Decides(p, "put", <<>>) /\ Current(p) = todo[p][1]
  <2>1. Good(DOMAIN world, <<>>, request[p])
    BY Good0
  <2> QED  BY <1>1, <2>1, Deciding DEF Decides, Deciders
<1>3. CASE todo[p][1].type \in Doors
  <2>1. Alone(p)
    BY <1>2, DecidesNext
  <2>2. disturbed' = disturbed \cup Reached(p)
    BY <1>1, <1>2, <1>3, ReachIsReach DEF Reached
  <2>3. Foreseen(w)'
    BY <2>1, <2>2, DisturbedStep
  <2> QED  BY <2>3
<1>4. CASE todo[p][1].type \notin Doors
  <2> PICK c : c = UseCall(<<0, 0, 0>>)
    OBVIOUS
  <2>1. c.call = "interact"
    BY DEF UseCall
  <2>2. disturbed' = disturbed /\ taken' = taken /\ <<>> \in {<<>>, <<c>>}
    BY <1>1, <1>2, <1>4
  <2> QED  BY <1>2, <1>4, <2>1, <2>2, CallStep
<1> QED  BY <1>3, <1>4

(* The block that is put, and the sponge's first cell. *)
LEMMA PutCalls ==
  ASSUME TypeOK, NEW r \in Requests, r.op = "place", NEW type \in Int, NEW meta \in Int,
         type = BLOCK.SPONGE => r.item = BLOCK.SPONGE
  PROVE  \E m \in Int : /\ UpdateCalls(Put(Target(r), type, meta), Target(r), type, m)
                        /\ type # BLOCK.SPONGE =>
                             m = meta /\ Put(Target(r), type, meta) = <<WriteCall(Target(r), type, meta), TellCall(Target(r))>>
<1>1. CASE type # BLOCK.SPONGE
  <2>1. Put(Target(r), type, meta) = <<WriteCall(Target(r), type, meta), TellCall(Target(r))>>
    BY <1>1, Updates DEF Put
  <2> QED  BY <1>1, <2>1 DEF UpdateCalls
<1>2. CASE type = BLOCK.SPONGE
  <2> DEFINE a == WriteCall(Target(r), type, 0)
             b == TellCall(Target(r))
             rest == SoakFrom(Target(r), 0)
             s == Put(Target(r), type, meta)
  <2>1. s = <<a, b>> \o rest
    BY <1>2, Updates DEF Put, PlaceSponge
  <2>2. rest = <<>> \/ \E c : rest = <<c>> /\ c.call = "soak"
    BY <1>2, SoakLeaves
  <2> HIDE DEF a, b, rest, s
  <2>3. s = <<a, b>> \/ \E c : c.call = "soak" /\ s = <<a, b, c>>
    <3>1. CASE rest = <<>>
      BY <2>1, <3>1, JoinedEmpty
    <3>2. ASSUME NEW c, rest = <<c>>, c.call = "soak"
          PROVE  s = <<a, b, c>>
      BY <2>1, <3>2, Joined21
    <3> QED  BY <2>2, <3>1, <3>2
  <2>4. UpdateCalls(s, Target(r), type, 0)
    BY <2>3 DEF UpdateCalls, a, b
  <2> QED  BY <1>2, <2>4 DEF s
<1> QED  BY <1>1, <1>2

(* What is put takes the place of no door; the lower half of one completes  *)
(* what its placement has begun. *)
LEMMA PutForeseen ==
  ASSUME ShownInv, ShownInv', NEW w, Foreseen(w), NEW p \in Players, PutBlock(p)
  PROVE  \E u : Foreseen(u)'
<1> PICK f, r, y, type, meta : /\ f = todo[p][1] /\ r = request[p] /\ y = todo[p][1].pos
                               /\ type = todo[p][1].type /\ meta = todo[p][1].meta
  OBVIOUS
<1>1. /\ At(p, "put") /\ ReturnOrEnd(p, Put(Current(p).pos, Current(p).type, Current(p).meta))
      /\ PutAnew(Current(p).pos) /\ UNCHANGED <<world, raced>>
      /\ disturbed' = IF Current(p).type \in Doors /\ ~IsDoorItem(request[p].item)
                      THEN disturbed \cup Reach(request[p]) ELSE disturbed
  BY DEF PutBlock
<1>2. /\ TypeOK /\ r \in Requests /\ DOMAIN world \subseteq Positions /\ Current(p) = f
      /\ CallOK(DOMAIN world, f, r) /\ f.call = "put" /\ f \in Frame
  BY <1>1, Deciding
<1>3. /\ r.op = "place" /\ y = Target(r) /\ type \in Int /\ meta \in Int
      /\ type = BLOCK.SPONGE => r.item = BLOCK.SPONGE
  BY <1>2 DEF CallOK, Frame
<1>4. /\ taken' = IF y \in DOMAIN world THEN [taken EXCEPT ![y] = 0] ELSE taken
      /\ taken \in [DOMAIN world -> Nat]
  BY <1>1, <1>2 DEF PutAnew, TypeOK
<1>5. /\ \A z \in DOMAIN world : z # y => taken'[z] = taken[z]
      /\ y \in DOMAIN world => taken'[y] = 0
  BY <1>4
<1> PICK more : more = Put(y, type, meta)
  OBVIOUS
<1>6. Decides(p, "put", more)
  <2>1. Good(DOMAIN world, more, r)
    BY <1>2, <1>3, PutLeaves
  <2>2. y \in DOMAIN world => y \in Reached(p)
    BY <1>2, TopReach, Deciding, <1>1 DEF Reached
  <2>3. \A z \in DOMAIN world : z \notin Reached(p) => taken'[z] = taken[z]
    BY <1>5, <2>2
  <2>4. ReturnOrEnd(p, more)
    BY <1>1, <1>2
  <2> QED  BY <1>1, <2>1, <2>3, <2>4 DEF Decides, Deciders
<1>7. CASE type \in Doors /\ ~IsDoorItem(r.item)
  <2>1. Alone(p)
    BY <1>6, DecidesNext
  <2>2. disturbed' = disturbed \cup Reached(p)
    BY <1>1, <1>2, <1>7, ReachIsReach DEF Reached
  <2>3. Foreseen(w)'
    BY <2>1, <2>2, DisturbedStep
  <2> QED  BY <2>3
<1>8. CASE type \in Doors /\ IsDoorItem(r.item)
  <2>1. type # BLOCK.SPONGE /\ disturbed' = disturbed
    BY <1>1, <1>2, <1>8, DoorsUsed
  <2>2. more = <<WriteCall(y, type, meta), TellCall(y)>>
    BY <1>2, <1>3, <2>1, PutCalls
  <2>3. /\ Len(more) = 2 /\ more[1].call = "write" /\ more[1].do = "set" /\ more[1].pos = y /\ more[2].call = "tell"
        /\ Written(more[1]) = Written(f)
    <3> DEFINE a == WriteCall(y, type, meta)
               b == TellCall(y)
    <3>1. a.call = "write" /\ a.do = "set" /\ a.pos = y /\ b.call = "tell" /\ Written(a) = Written(f)
      BY DEF WriteCall, TellCall, Written
    <3>2. more = <<a, b>>
      BY <2>2
    <3> HIDE DEF a, b
    <3> QED  BY <3>1, <3>2
  <2>4. PreparedNext(p, more)
    BY <2>3 DEF PreparedNext, Prepared
  <2>5. Calm(p) => \A z \in Reached(p) : /\ w[z] = Left(more, request[p], world[z], z)
                                         /\ Gone(taken'[z], w[z], DoorPut(more, request[p], z))
    <3> SUFFICES ASSUME Calm(p), NEW z \in Reached(p)
                 PROVE  w[z] = Left(more, r, world[z], z) /\ Gone(taken'[z], w[z], DoorPut(more, r, z))
      OBVIOUS
    <3>1. /\ DoorPut(todo[p], request[p], z) <=> z = y
          /\ w[z] = IF DoorPut(todo[p], request[p], z) THEN Written(f) ELSE world[z]
          /\ Gone(taken[z], w[z], DoorPut(todo[p], request[p], z))
      <4>1. /\ DoorPut(todo[p], request[p], z) <=>
                 /\ todo[p][1].call = "put" /\ todo[p][1].pos = z /\ todo[p][1].type \in Doors
                 /\ IsDoorItem(request[p].item)
            /\ w[z] = IF DoorPut(todo[p], request[p], z) THEN Written(todo[p][1]) ELSE world[z]
            /\ Gone(taken[z], w[z], DoorPut(todo[p], request[p], z))
        BY <1>6, DecidesBefore
      <4> QED  BY <1>2, <1>8, <4>1
    <3> PICK b : b = world[z]
      OBVIOUS
    <3>2. ~DoorPut(more, r, z) /\ Left(more, r, b, z) = IF z = y THEN Written(f) ELSE b
      <4>1. Len(more) = 2 \/ Len(more) = 3
        BY <2>3
      <4>2. Len(more) = 3 => /\ more[3].call \notin Changing
                             /\ ~(more[3].call = "put" /\ more[3].type \in Doors /\ IsDoorItem(r.item))
        BY <2>3
      <4>3. more[1].call = "write" /\ more[2].call = "tell"
        BY <2>3
      <4>4. ~DoorPut(more, r, z) /\ Left(more, r, b, z) = IF z = more[1].pos THEN Written(more[1]) ELSE b
        BY <4>1, <4>2, <4>3, LeftUpdate
      <4> QED  BY <2>3, <4>4
    <3>3. z \in DOMAIN world
      BY DEF Reached, ReachIn
    <3>4. Gone(taken'[z], w[z], FALSE)
      <4>1. CASE z = y
        <5>1. taken'[z] = 0
          BY <1>5, <3>3, <4>1
        <5> QED  BY <5>1 DEF Gone
      <4>2. CASE z # y
        BY <1>5, <3>1, <3>3, <4>2 DEF Gone
      <4> QED  BY <4>1, <4>2
    <3>5. w[z] = Left(more, r, b, z)
      BY <3>1, <3>2
    <3>6. Gone(taken'[z], w[z], DoorPut(more, r, z))
      BY <3>2, <3>4 DEF Gone
    <3> QED  BY <3>5, <3>6
  <2>6. Calm(p) => /\ w \in [DOMAIN world -> Block]
                   /\ \A z \in DOMAIN world : z \notin Reached(p) => w[z] = w[z]
                   /\ \A z \in Reached(p) : /\ w[z] = Left(more, request[p], world[z], z)
                                            /\ Gone(taken'[z], w[z], DoorPut(more, request[p], z))
                   /\ Whole(w, Clean)
    BY <2>5 DEF Foreseen
  <2> QED  BY <1>6, <2>1, <2>4, <2>6, DecideStep
<1>9. CASE type \notin Doors
  <2>1. disturbed' = disturbed
    BY <1>1, <1>2, <1>9
  <2> PICK m \in Int : UpdateCalls(more, y, type, m)
    <3>1. \E m \in Int : UpdateCalls(Put(Target(r), type, meta), Target(r), type, m)
      BY <1>2, <1>3, PutCalls
    <3>2. more = Put(Target(r), type, meta) /\ y = Target(r)
      BY <1>3
    <3> QED  BY <3>1, <3>2
  <2> PICK b : b = Written(WriteCall(y, type, m))
    OBVIOUS
  <2>2. b \in Block /\ b.type = type
    BY <1>3, WrittenBlock
  <2>3. Calm(p) => Overwrites(p, y, b)
    <3> SUFFICES ASSUME Calm(p), y \in Reached(p)
                 PROVE  world[y].type \notin Doors /\ Gone(taken'[y], b, FALSE)
      BY <1>9, <2>2 DEF Overwrites
    <3>1. y \in DOMAIN world
      BY DEF Reached, ReachIn
    <3>2. world[y].type \notin Doors
      BY <1>3, <1>6, <3>1, TargetClear
    <3> QED  BY <1>5, <3>1, <3>2 DEF Gone
  <2> QED  BY <1>3, <1>5, <1>6, <1>9, <2>1, <2>2, <2>3, UpdateStep
<1> QED  BY <1>7, <1>8, <1>9

(* ----------------------------- what is dug ------------------------------ *)

(* What is given of a block is given of what is there, to be removed. *)
DugOnce(p, type, base) ==
  \/ taken' = taken
  \/ /\ type # BLOCK.AIR /\ base \in DOMAIN world
     /\ taken' = [taken EXCEPT ![base] = @ + 1]

LEMMA DropsOfSome ==
  ASSUME NEW type, NEW meta, GetDrop(type, meta) # NoItem
  PROVE  type # BLOCK.AIR
  BY DEF GetDrop, NoDrop, BLOCK

LEMMA OneMore ==
  ASSUME TypeOK, NEW p, NEW type, NEW base, DugOnce(p, type, base), NEW z \in DOMAIN world
  PROVE  /\ z # base => taken'[z] = taken[z]
         /\ taken'[z] = taken[z] \/ (type # BLOCK.AIR /\ taken'[z] = taken[z] + 1)
         /\ taken[z] \in Nat
  BY DEF TypeOK, DugOnce

LEMMA GoneNow ==
  ASSUME NEW n \in Nat, NEW k, NEW b, NEW type, Gone(n, b, FALSE), b.type = type,
         k = n \/ (type # BLOCK.AIR /\ k = n + 1)
  PROVE  Gone(k, Air, FALSE)
  BY DEF Gone, Air

(* A door that is dug. *)
LEMMA DoorDug ==
  ASSUME ShownInv, ShownInv', NEW w, Foreseen(w), NEW p \in Players, NEW more, Decides(p, "dig", more),
         disturbed' = disturbed, reg[p].type \in Doors, NEW x, x = request[p].pos,
         NEW type, type = reg[p].type, NEW meta \in 0 .. 15, meta = reg[p].meta,
         NEW y, y = OtherDoorHalf(x, meta), NEW base \in {x, y}, DugOnce(p, type, base),
         more = <<HalfCall(y, type), WriteCall(x, BLOCK.AIR, 0), TellCall(x), UseCall(x)>>
  PROVE  \E u : Foreseen(u)'
<1> PICK r : r = request[p]
  OBVIOUS
<1>1. TypeOK /\ DOMAIN world \subseteq Positions
  BY DecidesNext
<1>2. /\ Len(more) = 4 /\ more[1].call = "half" /\ more[1].pos = y /\ more[1].type = type
      /\ more[2].call = "write" /\ more[2].pos = x /\ more[3].call = "tell" /\ more[4].call = "interact"
      /\ Written(more[2]) = Air
  <2> DEFINE h == HalfCall(y, type)
             a == WriteCall(x, BLOCK.AIR, 0)
             b == TellCall(x)
             c == UseCall(x)
  <2>1. /\ h.call = "half" /\ h.pos = y /\ h.type = type /\ a.call = "write" /\ a.pos = x /\ b.call = "tell"
        /\ c.call = "interact" /\ Written(a) = Air
    BY DEF HalfCall, WriteCall, TellCall, UseCall, Written, Air
  <2>2. more = <<h, a, b, c>>
    OBVIOUS
  <2> HIDE DEF h, a, b, c
  <2> QED  BY <2>1, <2>2
<1>3. Air \in Block /\ Air.type = BLOCK.AIR /\ BLOCK.AIR \notin Doors /\ type # BLOCK.AIR
  BY Air0, DoorsUsed DEF Air, Block
<1> PICK v : v = [z \in DOMAIN world |-> IF z \in Reached(p) THEN Left(more, request[p], world[z], z) ELSE w[z]]
  OBVIOUS
<1> HIDE DEF Air
<1>4. PreparedNext(p, more)
  <2>1. more[1].call # "write" /\ more[Len(more)].call = "interact"
    BY <1>2
  <2> QED  BY <2>1 DEF PreparedNext, Prepared
<1>5. Calm(p) =>
        /\ v \in [DOMAIN world -> Block]
        /\ \A z \in DOMAIN world : z \notin Reached(p) => v[z] = w[z]
        /\ \A z \in Reached(p) : /\ v[z] = Left(more, request[p], world[z], z)
                                 /\ Gone(taken'[z], v[z], DoorPut(more, request[p], z))
        /\ Whole(v, Clean)
  <2> SUFFICES ASSUME Calm(p)
               PROVE  /\ v \in [DOMAIN world -> Block]
                      /\ \A z \in DOMAIN world : z \notin Reached(p) => v[z] = w[z]
                      /\ \A z \in Reached(p) : /\ v[z] = Left(more, request[p], world[z], z)
                                               /\ Gone(taken'[z], v[z], DoorPut(more, request[p], z))
                      /\ Whole(v, Clean)
    OBVIOUS
  <2>1. /\ x \in Reached(p) /\ x # y
        /\ world[x].type = type /\ world[x].meta = meta
        /\ y \in DOMAIN world => y \in Reached(p) /\ BelongTogether(world[x], world[y])
        /\ \A z \in Reached(p) : z \in Clean /\ w[z] = world[z] /\ Gone(taken[z], world[z], FALSE)
    BY DoorSeen
  <2>2. Reached(p) \subseteq DOMAIN world /\ world \in [DOMAIN world -> Block] /\ w \in [DOMAIN world -> Block]
        /\ Whole(w, Clean)
    BY <1>1 DEF Reached, ReachIn, Foreseen, TypeOK
  <2>3. \A z \in Reached(p) : v[z] = Left(more, r, world[z], z)
    BY <2>2
  <2>4. \A z \in DOMAIN world : z \notin Reached(p) => v[z] = w[z]
    OBVIOUS
  <2>5. ASSUME NEW z \in Reached(p)
        PROVE  /\ v[z] = IF z \in {x, y} THEN Air ELSE world[z]
               /\ ~DoorPut(more, r, z)
               /\ z \in {x, y} => world[z].type = type
    <3> PICK b : b = world[z]
      OBVIOUS
    <3>1. /\ ~DoorPut(more, r, z)
          /\ Left(more, r, b, z) = IF z = more[2].pos THEN Written(more[2])
                                   ELSE IF z = more[1].pos /\ b.type = more[1].type
                                   THEN IF more[1].call = "half" THEN Air ELSE Swung(b)
                                   ELSE b
      BY <1>2, <2>1, LeftHalf
    <3>2. z = y => b.type = type
      BY <2>1, <2>2 DEF BelongTogether
    <3> QED  BY <1>2, <2>1, <2>3, <3>1, <3>2
  <2>6. v \in [DOMAIN world -> Block]
    <3>1. ASSUME NEW z \in Reached(p) PROVE v[z] \in Block
      BY <1>3, <2>2, <2>5
    <3>2. \A z \in DOMAIN world : v[z] \in Block
      BY <2>2, <2>4, <3>1
    <3> QED  BY <3>2
  <2>7. \A z \in Reached(p) : Gone(taken'[z], v[z], DoorPut(more, r, z))
    <3> SUFFICES ASSUME NEW z \in Reached(p) PROVE Gone(taken'[z], v[z], FALSE)
      BY <2>5 DEF Gone
    <3>1. z \in DOMAIN world /\ Gone(taken[z], world[z], FALSE)
      BY <2>1, <2>2
    <3>2. /\ z # base => taken'[z] = taken[z]
          /\ taken'[z] = taken[z] \/ (type # BLOCK.AIR /\ taken'[z] = taken[z] + 1)
          /\ taken[z] \in Nat
      BY <1>1, <3>1, OneMore
    <3>3. CASE z \in {x, y}
      <4>1. Gone(taken'[z], Air, FALSE)
        BY <2>5, <3>1, <3>2, <3>3, GoneNow
      <4> QED  BY <2>5, <3>3, <4>1
    <3>4. CASE z \notin {x, y}
      BY <2>5, <3>1, <3>2, <3>4
    <3> QED  BY <3>3, <3>4
  <2>8. Whole(v, Clean)
    <3>1. Clean \in SUBSET Positions /\ x \in Clean /\ \A z \in Clean : z \in DOMAIN world
      BY <1>1, <2>1, <2>2 DEF Clean
    <3>2. w[x].type \in Doors /\ v[x].type \notin Doors /\ y = OtherDoorHalf(x, w[x].meta)
      BY <1>3, <2>1, <2>5
    <3>3. y \in Clean => v[y].type \notin Doors
      BY <1>3, <2>1, <2>5, <3>1
    <3>4. \A z \in Clean : z \notin {x, y} => v[z] = w[z]
      BY <2>1, <2>4, <2>5, <3>1
    <3> QED  BY <2>2, <3>1, <3>2, <3>3, <3>4, BothGone
  <2> QED  BY <2>3, <2>4, <2>6, <2>7, <2>8
<1> QED  BY <1>4, <1>5, DecideStep

LEMMA DigForeseen ==
  ASSUME ShownInv, ShownInv', NEW w, Foreseen(w), NEW p \in Players, Dig(p)
  PROVE  \E u : Foreseen(u)'
<1> PICK r, x, type, meta, y, base :
      /\ r = request[p] /\ x = request[p].pos /\ type = reg[p].type /\ meta = reg[p].meta
      /\ y = OtherDoorHalf(x, meta)
      /\ base = IF type \in Doors /\ IsTop(meta) THEN Move(x, 0, -1, 0) ELSE x
  OBVIOUS
<1> PICK more : more = DigAfterLook(r, type, meta)
  OBVIOUS
<1>1. At(p, "dig") /\ ReturnOrEnd(p, more) /\ UNCHANGED <<world, raced, disturbed>>
  BY DEF Dig
<1>2. /\ TypeOK /\ r \in Requests /\ DOMAIN world \subseteq Positions
      /\ CallOK(DOMAIN world, todo[p][1], r) /\ todo[p][1].call = "dig"
      /\ type \in Int /\ meta \in 0 .. 15
  BY <1>1, Deciding
<1>3. r.op = "dig" /\ todo[p][1].pos = x /\ Reads(todo[p][1], r)
  BY <1>2 DEF CallOK, Reads, Lookers
<1>4. DugOnce(p, type, base) /\ (taken' = taken \/ Breaks(r, type))
  <2>1. \/ taken' = taken
        \/ /\ Breaks(r, type) /\ GetDrop(type, meta) # NoItem /\ base \in DOMAIN taken
           /\ taken' = [taken EXCEPT ![base] = @ + 1]
    BY DEF Dig
  <2>2. DOMAIN taken = DOMAIN world
    BY <1>2 DEF TypeOK
  <2> QED  BY <2>1, <2>2, DropsOfSome DEF DugOnce
<1>5. base \in {x, y} /\ (type \notin Doors => base = x)
  BY DEF OtherDoorHalf
<1>6. \A z \in DOMAIN world : z # base => taken'[z] = taken[z]
  BY <1>2, <1>4, OneMore
<1>7. base \in DOMAIN world => base \in Reached(p)
  <2>1. x \in Positions /\ y \in Near(x) /\ x \in Near(x)
    BY <1>2, Nearer, RequestPositions DEF Near
  <2>2. base \in TouchedIn(DOMAIN world, r)
    BY <1>2, <1>5, <2>1, Places_
  <2> QED  BY <1>2, <2>2, Reaches DEF Reached
<1> DEFINE a == WriteCall(x, BLOCK.AIR, 0)
           b == TellCall(x)
           c == UseCall(x)
           h == HalfCall(y, type)
<1>8. /\ Good(DOMAIN world, more, r)
      /\ ~Breaks(r, type) => more \in {<<>>, <<c>>}
      /\ Breaks(r, type) /\ type \in Doors => more = <<h, a, b, c>>
      /\ Breaks(r, type) /\ type \notin Doors => more \in {<<a, b>>, <<a, b, c>>}
  BY <1>2, <1>3, DigLeaves
<1>9. Decides(p, "dig", more)
  <2>1. \A z \in DOMAIN world : z \notin Reached(p) => taken'[z] = taken[z]
    BY <1>6, <1>7
  <2> QED  BY <1>1, <1>8, <2>1 DEF Decides, Deciders
<1>10. c.call = "interact"
  BY DEF UseCall
<1>11. CASE ~Breaks(r, type)
  <2> HIDE DEF c
  <2>1. taken' = taken /\ disturbed' = disturbed
    BY <1>1, <1>4, <1>11
  <2>2. more \in {<<>>, <<c>>}
    BY <1>8, <1>11
  <2> QED  BY <1>9, <1>10, <2>1, <2>2, CallStep
<1>12. CASE Breaks(r, type) /\ type \in Doors
  BY <1>1, <1>2, <1>4, <1>5, <1>8, <1>9, <1>12, DoorDug
<1>13. CASE Breaks(r, type) /\ type \notin Doors
  <2>1. UpdateCalls(more, x, BLOCK.AIR, 0)
    <3> HIDE DEF c
    <3> QED  BY <1>8, <1>10, <1>13 DEF UpdateCalls
  <2>2. Air \in Block /\ Air.type = BLOCK.AIR /\ Air = Written(WriteCall(x, BLOCK.AIR, 0))
        /\ BLOCK.AIR \in Int /\ BLOCK.AIR \notin Doors /\ 0 \in Int
    BY Air0, DoorsUsed DEF Air, Block, Written, WriteCall
  <2>3. Calm(p) => Overwrites(p, x, Air)
    <3> SUFFICES ASSUME Calm(p), x \in Reached(p)
                 PROVE  world[x].type \notin Doors
                        /\ (Gone(taken[x], world[x], FALSE) => Gone(taken'[x], Air, FALSE))
      BY <2>2 DEF Overwrites
    <3>1. x \in DOMAIN world
      BY DEF Reached, ReachIn
    <3>2. world[x].type = type
      BY <1>1, <1>3, <3>1, DecidesRight
    <3>3. taken'[x] = taken[x] \/ (type # BLOCK.AIR /\ taken'[x] = taken[x] + 1)
      BY <1>2, <1>4, <3>1, OneMore
    <3>4. taken[x] \in Nat
      BY <1>2, <3>1 DEF TypeOK
    <3> QED  BY <1>13, <3>2, <3>3, <3>4, GoneNow
  <2>4. \A z \in DOMAIN world : z # x => taken'[z] = taken[z]
    BY <1>5, <1>6, <1>13
  <2>5. disturbed' = disturbed
    BY <1>1
  <2> QED  BY <1>9, <2>1, <2>2, <2>3, <2>4, <2>5, UpdateStep
<1> QED  BY <1>11, <1>12, <1>13

(* ------------------------ the two halves of what is placed -------------- *)

LEMMA PlacedDouble ==
  ASSUME NEW id \in Int, NEW face \in Int, NEW beside \in Int
  PROVE  /\ PlacedType(id, face, beside) \in Doors /\ IsDoorItem(id) => IsDouble(id)
         /\ IsDouble(id) /\ PlacedType(id, face, beside) # BLOCK.INVALID =>
              /\ beside = BLOCK.AIR
              /\ PlacedType(id, face, beside) \in IF IsDoorItem(id) THEN Doors ELSE {BLOCK.BED}
<1>1. PlacedType(id, face, beside) \in Doors /\ IsDoorItem(id) => IsDouble(id)
  BY DEF IsDouble
<1>2. ASSUME IsDouble(id), PlacedType(id, face, beside) # BLOCK.INVALID
      PROVE  /\ beside = BLOCK.AIR
             /\ PlacedType(id, face, beside) \in IF IsDoorItem(id) THEN Doors ELSE {BLOCK.BED}
  <2>1. /\ id \notin {ITEM.SEEDS_WHEAT, ITEM.REDSTONE, ITEM.SIGN, ITEM.SUGARCANE}
        /\ ~IsRepeater(id) /\ ~IsTorch(id) /\ ~IsHoe(id)
        /\ IsDoorItem(id) \/ id = ITEM.BED
        /\ id > BLOCK.MAX
    BY <1>2 DEF IsDouble, IsDoorItem, ITEM, IsRepeater, IsTorch, IsHoe, BLOCK
  <2>2. PlacedType(id, face, beside) \in {BLOCK.INVALID,
           IF beside # BLOCK.AIR \/ face # Face.yPlus THEN BLOCK.INVALID
           ELSE IF id = ITEM.DOOR_WOOD THEN BLOCK.DOOR_WOOD
           ELSE IF id = ITEM.DOOR_IRON THEN BLOCK.DOOR_IRON
           ELSE BLOCK.BED}
    BY <2>1 DEF PlacedType
  <2>3. /\ beside = BLOCK.AIR
        /\ PlacedType(id, face, beside) = IF id = ITEM.DOOR_WOOD THEN BLOCK.DOOR_WOOD
                                          ELSE IF id = ITEM.DOOR_IRON THEN BLOCK.DOOR_IRON
                                          ELSE BLOCK.BED
    BY <1>2, <2>2
  <2> QED  BY <2>3 DEF IsDoorItem, Doors
<1> QED  BY <1>1, <1>2

LEMMA DoorMetas ==
  ASSUME NEW id, IsDoorItem(id), NEW face \in Int, NEW yaw \in Int
  PROVE  LET meta == PlacedMeta(id, 0, face, yaw)
         IN meta \in 0 .. 3 /\ meta % 16 = meta /\ AsTop(meta) = meta + 8 /\ (meta + 8) % 16 = meta + 8
<1> PICK dir : dir = GetPlayerOrientation(yaw)
  OBVIOUS
<1>1. dir \in 2 .. 5
  BY Orientations
<1>2. /\ id \notin {ITEM.SIGN, ITEM.BED, BLOCK.TRAPDOOR, BLOCK.STAIRS_WOOD, BLOCK.STAIRS_COBBLESTONE, BLOCK.DISPENSER,
                   BLOCK.FURNACE, BLOCK.FURNACE_LIT, BLOCK.PUMPKIN, BLOCK.PUMPKIN_LIT, BLOCK.LADDER}
      /\ ~IsRepeater(id) /\ ~IsTorch(id)
  BY DEF IsDoorItem, ITEM, BLOCK, IsRepeater, IsTorch
<1>3. PlacedMeta(id, 0, face, yaw) \in {BySide(dir, <<3, 1, 2, 0>>, 0)}
  BY <1>2 DEF PlacedMeta
<1> PICK m : m = <<3, 1, 2, 0>>
  OBVIOUS
<1>4. \A i \in 1 .. 4 : m[i] \in 0 .. 3
  OBVIOUS
<1>5. BySide(dir, m, 0) = m[dir - 1] /\ dir - 1 \in 1 .. 4
  BY <1>1 DEF BySide, Face
<1> PICK meta : meta = PlacedMeta(id, 0, face, yaw)
  OBVIOUS
<1>6. meta \in 0 .. 3
  BY <1>3, <1>4, <1>5
<1>7. meta % 16 = meta /\ AsTop(meta) = meta + 8 /\ (meta + 8) % 16 = meta + 8
  BY <1>6 DEF AsTop, IsTop
<1> QED  BY <1>6, <1>7

LEMMA DoorAbove ==
  ASSUME NEW r \in Requests, r.op = "place", IsDoorItem(r.item)
  PROVE  SecondHalf(r) = Move(Target(r), 0, 1, 0) /\ IsDouble(r.item)
<1>1. r.item # ITEM.BED
  BY DEF IsDoorItem, ITEM
<1> QED  BY <1>1 DEF OtherHalf, SecondHalf, IsDouble

(* A bed's other half, or the top of a door, is written where there was air; *)
(* what is to be put beside it follows. *)
LEMMA PlaceSecondHalfForeseen ==
  ASSUME ShownInv, ShownInv', NEW w, Foreseen(w), NEW p \in Players, PlaceSecondHalf(p)
  PROVE  \E u : Foreseen(u)'
<1> PICK r, x, y, type, meta :
      /\ r = request[p] /\ x = Target(request[p]) /\ y = SecondHalf(request[p])
      /\ type = PlacedType(request[p].item, request[p].face, reg[p].type)
      /\ meta = PlacedMeta(request[p].item, 0, request[p].face, request[p].yaw)
  OBVIOUS
<1> PICK more : more = Placed(r, type, meta)
  OBVIOUS
<1>1. /\ At(p, "placed") /\ ReturnOrEnd(p, more) /\ UNCHANGED <<world, raced, disturbed>>
      /\ IF IsDouble(r.item) /\ type # BLOCK.INVALID THEN PutAnew(y) ELSE UNCHANGED taken
  BY DEF PlaceSecondHalf
<1>2. /\ TypeOK /\ r \in Requests /\ DOMAIN world \subseteq Positions
      /\ CallOK(DOMAIN world, todo[p][1], r) /\ todo[p][1].call = "placed"
      /\ reg[p].type \in Int
  BY <1>1, Deciding
<1>3. /\ r.op = "place" /\ r.item \in Int /\ r.face \in Int /\ r.yaw \in Int
      /\ IsDouble(r.item) => todo[p][1].pos = y /\ Reads(todo[p][1], r)
  BY <1>2, EditsAssumption DEF CallOK, Reads, Lookers
<1>4. type \in Int /\ (type = BLOCK.SPONGE => r.item = BLOCK.SPONGE) /\ meta \in 0 .. 15
  BY <1>2, <1>3, PlacedTypes, PlacedMetas
<1> DEFINE a == WriteCall(y, type, AsTop(meta))
           b == TellCall(y)
           c == PutCall(x, type, meta)
<1>5. /\ Good(DOMAIN world, more, r)
      /\ IsDouble(r.item) /\ type # BLOCK.INVALID => more = <<a, b, c>>
      /\ ~(IsDouble(r.item) /\ type # BLOCK.INVALID) => more = <<c>>
  BY <1>2, <1>3, <1>4, PlacedLeaves
<1>6. c.call = "put" /\ c.type = type /\ c.pos = x /\ b.call = "tell" /\ a.call = "write" /\ a.pos = y /\ a.do = "set"
  BY DEF PutCall, TellCall, WriteCall
<1>7. /\ \A z \in DOMAIN world : z # y => taken'[z] = taken[z]
      /\ IsDouble(r.item) /\ type # BLOCK.INVALID /\ y \in DOMAIN world => taken'[y] = 0
  <2>1. taken \in [DOMAIN world -> Nat]
    BY <1>2 DEF TypeOK
  <2> QED  BY <1>1, <2>1 DEF PutAnew
<1>8. Decides(p, "placed", more)
  <2>1. IsDouble(r.item) /\ y \in DOMAIN world => y \in Reached(p)
    BY <1>1, <1>2, <1>3, TopReach, Deciding DEF Reached
  <2>2. \A z \in DOMAIN world : z \notin Reached(p) => taken'[z] = taken[z]
    BY <1>1, <1>7, <2>1
  <2> QED  BY <1>1, <1>5, <2>2 DEF Decides, Deciders
<1>9. Calm(p) /\ x \in DOMAIN world => x \in Reached(p) /\ world[x].type \notin Doors
  BY <1>8, TargetClear
<1>10. disturbed' = disturbed
  BY <1>1
<1>11. CASE ~(IsDouble(r.item) /\ type # BLOCK.INVALID)
  <2> HIDE DEF c
  <2>1. type \notin Doors \/ ~IsDoorItem(r.item)
    BY <1>11, DoorsUsed DEF IsDouble
  <2>2. taken' = taken /\ more \in {<<>>, <<c>>}
    BY <1>1, <1>5, <1>11
  <2> QED  BY <1>6, <1>8, <1>9, <1>10, <2>1, <2>2, CallStep
<1>12. CASE IsDouble(r.item) /\ type # BLOCK.INVALID
  <2>1. /\ reg[p].type = BLOCK.AIR
        /\ type \in IF IsDoorItem(r.item) THEN Doors ELSE {BLOCK.BED}
    BY <1>2, <1>3, <1>12, PlacedDouble
  <2>2. /\ Len(more) = 3 /\ more[1] = a /\ more[2] = b /\ more[3] = c
    <3> HIDE DEF a, b, c
    <3> QED  BY <1>5, <1>12
  <2> PICK d, e : d = Written(a) /\ e = Written(c)
    OBVIOUS
  <2>3. d \in Block /\ d.type = type
    <3>1. AsTop(meta) \in Int
      BY <1>4 DEF AsTop
    <3> QED  BY <1>4, <3>1, WrittenBlock
  <2>4. e \in Block /\ e.type = type /\ e.meta = meta % 16
    <3>1. e = [type |-> type, meta |-> meta % 16]
      BY DEF Written, PutCall
    <3>2. meta % 16 \in 0 .. 15
      BY <1>4
    <3> QED  BY <1>4, <3>1, <3>2 DEF Block
  <2>5. d.meta = AsTop(meta) % 16
    BY DEF Written, WriteCall
  <2> HIDE DEF a, b, c
  <2>6. PreparedNext(p, more)
    <3> SUFFICES ASSUME Calm(p) PROVE Prepared(more, r, world, disturbed)
      BY DEF PreparedNext
    <3> QED  BY <1>6, <1>9, <1>12, <2>2 DEF Prepared
  <2>7. ASSUME Calm(p), y \in Reached(p)
        PROVE  y \in DOMAIN world /\ world[y].type = BLOCK.AIR /\ taken'[y] = 0
    <3>1. y \in DOMAIN world
      BY <2>7 DEF Reached, ReachIn
    <3>2. world[y].type = reg[p].type
      BY <1>1, <1>3, <1>12, <2>7, <3>1, DecidesRight
    <3> QED  BY <1>7, <1>12, <2>1, <3>1, <3>2
  <2>8. CASE ~IsDoorItem(r.item)
    <3>1. type \notin Doors /\ BLOCK.AIR \notin Doors
      BY <2>1, <2>8, DoorsUsed DEF BLOCK, Doors
    <3>2. ASSUME NEW z, NEW k
          PROVE  ~DoorPut(more, r, z) /\ Left(more, r, k, z) = IF z = y THEN d ELSE k
      <4>1. Len(more) = 2 \/ Len(more) = 3
        BY <2>2
      <4>2. more[1].call = "write" /\ more[2].call = "tell" /\ more[1].pos = y /\ Written(more[1]) = d
        BY <1>6, <2>2
      <4>3. Len(more) = 3 => /\ more[3].call \notin Changing
                             /\ ~(more[3].call = "put" /\ more[3].type \in Doors /\ IsDoorItem(r.item))
        BY <1>6, <2>2, <2>8 DEF Changing
      <4>4. ~DoorPut(more, r, z) /\ Left(more, r, k, z) = IF z = more[1].pos THEN Written(more[1]) ELSE k
        BY <4>1, <4>2, <4>3, LeftUpdate
      <4> QED  BY <4>2, <4>4
    <3>3. \A z : ~DoorPut(todo[p], request[p], z)
      BY <1>8, NoDoorPut
    <3>4. Calm(p) => OneChanges(p, more, y, d)
      <4> SUFFICES ASSUME Calm(p) PROVE OneChanges(p, more, y, d)
        OBVIOUS
      <4>1. \A z \in Reached(p) : /\ Left(more, request[p], world[z], z) = IF z = y THEN d ELSE world[z]
                                  /\ ~DoorPut(more, request[p], z) /\ ~DoorPut(todo[p], request[p], z)
        BY <3>2, <3>3
      <4>2. y \in Reached(p) =>
              /\ world[y].type \notin Doors /\ d.type \notin Doors
              /\ Gone(taken[y], world[y], FALSE) => Gone(taken'[y], d, FALSE)
        BY <2>3, <2>7, <3>1 DEF Gone
      <4> QED  BY <4>1, <4>2 DEF OneChanges
    <3> QED  BY <1>7, <1>8, <1>10, <2>3, <2>6, <3>4, DecideOne
  <2>9. CASE IsDoorItem(r.item)
    <3>1. /\ type \in Doors /\ y = Move(x, 0, 1, 0) /\ x \in Positions /\ meta \in 0 .. 7 /\ x # y
          /\ d = [type |-> type, meta |-> meta + 8] /\ e = [type |-> type, meta |-> meta]
      <4>1. type \in Doors /\ y = Move(x, 0, 1, 0) /\ x \in Positions /\ x # y
        BY <1>2, <1>3, <1>12, <2>1, <2>9, DoorAbove, RequestPositions
      <4>2. meta \in 0 .. 3 /\ meta % 16 = meta /\ AsTop(meta) = meta + 8 /\ (meta + 8) % 16 = meta + 8
        BY <1>3, <2>9, DoorMetas
      <4>3. d.meta = meta + 8 /\ e.meta = meta
        BY <2>4, <2>5, <4>2
      <4> QED  BY <2>3, <2>4, <4>1, <4>2, <4>3 DEF Block
    <3> PICK v : v = [z \in DOMAIN world |-> IF z \in Reached(p) THEN Left(more, request[p], world[z], z) ELSE w[z]]
      OBVIOUS
    <3>2. Calm(p) =>
            /\ v \in [DOMAIN world -> Block]
            /\ \A z \in DOMAIN world : z \notin Reached(p) => v[z] = w[z]
            /\ \A z \in Reached(p) : /\ v[z] = Left(more, request[p], world[z], z)
                                     /\ Gone(taken'[z], v[z], DoorPut(more, request[p], z))
            /\ Whole(v, Clean)
      <4> SUFFICES ASSUME Calm(p)
                   PROVE  /\ v \in [DOMAIN world -> Block]
                          /\ \A z \in DOMAIN world : z \notin Reached(p) => v[z] = w[z]
                          /\ \A z \in Reached(p) : /\ v[z] = Left(more, request[p], world[z], z)
                                                   /\ Gone(taken'[z], v[z], DoorPut(more, request[p], z))
                          /\ Whole(v, Clean)
        OBVIOUS
      <4>1. \A z \in Reached(p) : z \in Clean /\ w[z] = world[z] /\ Gone(taken[z], world[z], FALSE)
        <5> SUFFICES ASSUME NEW z \in Reached(p) PROVE z \in Clean /\ w[z] = world[z] /\ Gone(taken[z], world[z], FALSE)
          OBVIOUS
        <5>1. /\ z \in Clean
              /\ w[z] = IF DoorPut(todo[p], request[p], z) THEN Written(todo[p][1]) ELSE world[z]
              /\ Gone(taken[z], w[z], DoorPut(todo[p], request[p], z))
          BY <1>8, DecidesBefore
        <5>2. ~DoorPut(todo[p], request[p], z)
          BY <1>8, NoDoorPut
        <5> QED  BY <5>1, <5>2 DEF Gone
      <4>2. Reached(p) \subseteq DOMAIN world /\ world \in [DOMAIN world -> Block] /\ w \in [DOMAIN world -> Block]
            /\ Whole(w, Clean)
        BY <1>2 DEF Reached, ReachIn, Foreseen, TypeOK
      <4>3. \A z \in Reached(p) : v[z] = Left(more, r, world[z], z)
        BY <4>2
      <4>4. \A z \in DOMAIN world : z \notin Reached(p) => v[z] = w[z]
        OBVIOUS
      <4>5. ASSUME NEW z \in Reached(p)
            PROVE  /\ v[z] = IF z = x THEN e ELSE IF z = y THEN d ELSE world[z]
                   /\ DoorPut(more, r, z) <=> z = x
        <5> PICK k : k = world[z]
          OBVIOUS
        <5>1. /\ more[1].call = "write" /\ more[2].call = "tell" /\ more[3].call = "put"
              /\ more[3].type \in Doors /\ more[3].pos = x /\ more[1].pos = y
              /\ Written(more[3]) = e /\ Written(more[1]) = d
          BY <1>6, <2>2, <3>1
        <5>2. /\ DoorPut(more, r, z) <=> z = more[3].pos
              /\ Left(more, r, k, z) = IF z = more[3].pos THEN Written(more[3])
                                       ELSE IF z = more[1].pos THEN Written(more[1]) ELSE k
          BY <2>2, <2>9, <5>1, LeftPlaced
        <5> QED  BY <4>3, <5>1, <5>2
      <4>6. v \in [DOMAIN world -> Block]
        <5>1. ASSUME NEW z \in Reached(p) PROVE v[z] \in Block
          BY <2>3, <2>4, <4>2, <4>5
        <5>2. \A z \in DOMAIN world : v[z] \in Block
          BY <4>2, <4>4, <5>1
        <5> QED  BY <5>2
      <4>7. ASSUME NEW z \in Reached(p)
            PROVE  Gone(taken'[z], v[z], DoorPut(more, r, z))
        <5>1. CASE z = y
          BY <2>7, <4>7, <5>1 DEF Gone
        <5>2. CASE z # y
          <6>1. taken'[z] = taken[z] /\ Gone(taken[z], world[z], FALSE)
            BY <1>7, <4>1, <4>2, <5>2
          <6> QED  BY <4>5, <5>2, <6>1 DEF Gone
        <5> QED  BY <5>1, <5>2
      <4>8. Whole(v, Clean)
        <5>0. /\ e.type \in Doors /\ ~IsTop(e.meta) /\ BelongTogether(e, d)
              /\ y = Move(x, 0, 1, 0) /\ x \in Positions
          <6>1. e.type = type /\ e.meta = meta /\ d.type = type /\ d.meta = meta + 8 /\ type \in Doors
            BY <3>1
          <6>2. ~IsTop(meta) /\ IsTop(meta + 8) /\ (meta + 8) % 8 = meta % 8
            BY <3>1 DEF IsTop
          <6> QED  BY <3>1, <6>1, <6>2 DEF BelongTogether
        <5>1. \A z \in Clean : z \in DOMAIN world
          BY DEF Clean
        <5>2. x \in Clean => w[x].type \notin Doors /\ v[x] = e
          BY <1>9, <4>1, <4>5, <5>1
        <5>3. y \in Clean => w[y].type \notin Doors /\ v[y] = d
          <6>1. y \in DOMAIN world => y \in Reached(p)
            BY <1>1, <1>2, <1>3, <1>12, TopReach, Deciding DEF Reached
          <6>2. BLOCK.AIR \notin Doors
            BY DoorsUsed
          <6> QED  BY <2>7, <3>1, <4>1, <4>5, <5>0, <5>1, <6>1, <6>2
        <5>4. \A z \in Clean : z \notin {x, y} => v[z] = w[z]
          BY <4>1, <4>4, <4>5, <5>1
        <5>5. Clean \in SUBSET Positions /\ Whole(w, Clean)
          BY <1>2, <4>2, <5>1
        <5> QED  BY <5>0, <5>2, <5>3, <5>4, <5>5, DoorPlaced
      <4> QED  BY <4>3, <4>4, <4>6, <4>7, <4>8
    <3> QED  BY <1>8, <1>10, <2>6, <3>2, DecideStep
  <2> QED  BY <2>8, <2>9
<1> QED  BY <1>11, <1>12

(* -------------------------- a handler begins ---------------------------- *)

Meets(r) == {q \in Players : todo[q] # <<>> /\ ReachIn(DOMAIN world, r) \cap Reached(q) # {}}

Starts(p, r) ==
  /\ r \in Requests /\ r.op \in {"dig", "place"} /\ Sendable(r)
  /\ todo[p] = <<>> /\ request'[p] = r
  /\ Len(todo'[p]) = 1 /\ todo'[p] # <<>> /\ todo'[p][1].call = r.op
  /\ \A q \in Players : q # p => todo'[q] = todo[q] /\ request'[q] = request[q]
  /\ raced' = raced \cup UNION {ReachIn(DOMAIN world, r) \cap Reached(q) : q \in Busy}
  /\ disturbed' = IF Meets(r) = {} /\ ReachIn(DOMAIN world, r) \cap disturbed = {} THEN disturbed
                  ELSE disturbed \cup ReachIn(DOMAIN world, r) \cup UNION {Reached(q) : q \in Meets(r)}

LEMMA ReceiveStarts ==
  ASSUME ShownInv, NEW p \in Players, Receive(p)
  PROVE  (\E r : Starts(p, r)) /\ UNCHANGED <<world, shown, taken>>
<1>0. TypeOK /\ todo[p] = <<>> /\ UNCHANGED <<world, shown, taken>>
  BY DEF ShownInv, Receive
<1>1. PICK r \in Requests :
        /\ r.op \in {"dig", "place"} /\ Sendable(r)
        /\ request' = [request EXCEPT ![p] = r]
        /\ todo' = [todo EXCEPT ![p] = AfterLook(r.op, r.pos, BLOCK.AIR)]
        /\ raced' = raced \cup UNION {Reach(r) \cap Reach(request[q]) : q \in Busy}
        /\ disturbed' = IF Met(r) = {} /\ Reach(r) \cap disturbed = {} THEN disturbed
                        ELSE disturbed \cup Reach(r) \cup (UNION {Reach(request[q]) : q \in Met(r)})
  BY DEF Receive
<1>2. Reach(r) = ReachIn(DOMAIN world, r) /\ \A q \in Players : Reach(request[q]) = Reached(q)
  BY ReachIsReach DEF Reached
<1>3. Met(r) = Meets(r) /\ Meets(r) \subseteq Players /\ Busy \subseteq Players
  BY <1>2 DEF Met, Meets, Busy
<1>4. /\ raced' = raced \cup UNION {ReachIn(DOMAIN world, r) \cap Reached(q) : q \in Busy}
      /\ UNION {Reach(request[q]) : q \in Met(r)} = UNION {Reached(q) : q \in Meets(r)}
  BY <1>1, <1>2, <1>3
<1>5. disturbed' = IF Meets(r) = {} /\ ReachIn(DOMAIN world, r) \cap disturbed = {} THEN disturbed
                   ELSE disturbed \cup ReachIn(DOMAIN world, r) \cup UNION {Reached(q) : q \in Meets(r)}
  BY <1>1, <1>2, <1>3, <1>4
<1>6. /\ request'[p] = r /\ todo'[p] = AfterLook(r.op, r.pos, BLOCK.AIR)
      /\ \A q \in Players : q # p => todo'[q] = todo[q] /\ request'[q] = request[q]
  BY <1>0, <1>1 DEF TypeOK
<1>7. Len(todo'[p]) = 1 /\ todo'[p] # <<>> /\ todo'[p][1].call = r.op
  BY <1>6 DEF AfterLook, Call
<1> QED  BY <1>0, <1>1, <1>4, <1>5, <1>6, <1>7 DEF Starts

(* What a new handler reaches it has for itself, or it is disturbed. *)
LEMMA StartDisturbs ==
  ASSUME TypeOK, Disturbance, NEW p \in Players, NEW r, Starts(p, r), UNCHANGED world
  PROVE  /\ disturbed \subseteq disturbed' /\ Disturbance' /\ Reached(p)' = ReachIn(DOMAIN world, r)
         /\ \A q \in Players : q # p => Reached(q)' = Reached(q)
         /\ \/ Reached(p)' \subseteq disturbed'
            \/ /\ Reached(p)' \cap disturbed' = {}
               /\ \A q \in Players : q # p /\ todo[q] # <<>> => Reached(p)' \cap Reached(q) = {}
<1> DEFINE mine == ReachIn(DOMAIN world, r)
<1>1. /\ Reached(p)' = mine /\ mine \subseteq DOMAIN world
      /\ \A q \in Players : q # p => Reached(q)' = Reached(q)
  BY DEF Reached, Starts, ReachIn
<1>2. /\ raced' = raced \cup UNION {mine \cap Reached(q) : q \in Busy}
      /\ disturbed' = IF Meets(r) = {} /\ mine \cap disturbed = {} THEN disturbed
                      ELSE disturbed \cup mine \cup UNION {Reached(q) : q \in Meets(r)}
      /\ \A q \in Players : q # p => todo'[q] = todo[q]
      /\ todo[p] = <<>>
  BY DEF Starts
<1>3. /\ Meets(r) = {q \in Players : todo[q] # <<>> /\ mine \cap Reached(q) # {}}
      /\ Busy = {q \in Players : todo[q] # <<>>}
      /\ \A q \in Players : Reached(q) \subseteq DOMAIN world
  BY DEF Meets, Busy, Reached, ReachIn
<1>4. /\ raced \subseteq disturbed /\ disturbed \subseteq DOMAIN world
      /\ \A q \in Players : todo[q] # <<>> =>
           \/ Reached(q) \subseteq disturbed
           \/ /\ Reached(q) \cap disturbed = {}
              /\ \A k \in Players : k # q /\ todo[k] # <<>> => Reached(q) \cap Reached(k) = {}
  BY DEF Disturbance
<1> HIDE DEF mine
<1>5. \/ mine \subseteq disturbed'
      \/ /\ mine \cap disturbed' = {} /\ disturbed' = disturbed
         /\ \A q \in Players : todo[q] # <<>> => mine \cap Reached(q) = {}
  BY <1>2, <1>3
<1>6. disturbed \subseteq disturbed' /\ disturbed' \subseteq DOMAIN world
  BY <1>1, <1>2, <1>3, <1>4
<1>7. raced' \subseteq disturbed'
  <2> SUFFICES ASSUME NEW q \in Players, todo[q] # <<>> PROVE mine \cap Reached(q) \subseteq disturbed'
    BY <1>2, <1>3, <1>4, <1>6
  <2> QED  BY <1>5
<1>8. ASSUME NEW q \in Players, q # p, todo[q] # <<>>
      PROVE  \/ Reached(q) \subseteq disturbed'
             \/ /\ Reached(q) \cap disturbed' = {} /\ mine \cap Reached(q) = {}
                /\ \A k \in Players : k # q /\ todo[k] # <<>> => Reached(q) \cap Reached(k) = {}
  <2>1. CASE q \in Meets(r)
    BY <1>2, <2>1
  <2>2. CASE q \notin Meets(r) /\ Reached(q) \subseteq disturbed
    BY <1>6, <2>2
  <2>3. CASE q \notin Meets(r) /\ ~(Reached(q) \subseteq disturbed)
    <3>1. /\ Reached(q) \cap disturbed = {} /\ mine \cap Reached(q) = {}
          /\ \A k \in Players : k # q /\ todo[k] # <<>> => Reached(q) \cap Reached(k) = {}
      BY <1>3, <1>4, <1>8, <2>3
    <3>2. \A k \in Meets(r) : Reached(q) \cap Reached(k) = {}
      BY <1>3, <2>3, <3>1
    <3>3. Reached(q) \cap disturbed' = {}
      BY <1>2, <3>1, <3>2
    <3> QED  BY <3>1, <3>3
  <2> QED  BY <2>1, <2>2, <2>3
<1>9. ASSUME NEW q \in Players, todo'[q] # <<>>
      PROVE  \/ Reached(q)' \subseteq disturbed'
             \/ /\ Reached(q)' \cap disturbed' = {}
                /\ \A k \in Players : k # q /\ todo'[k] # <<>> => Reached(q)' \cap Reached(k)' = {}
  <2>1. CASE q = p
    BY <1>1, <1>2, <1>5, <2>1
  <2>2. CASE q # p
    <3>1. todo[q] # <<>> /\ Reached(q)' = Reached(q)
      BY <1>1, <1>2, <1>9, <2>2
    <3>2. CASE Reached(q) \subseteq disturbed'
      BY <3>1, <3>2
    <3>3. CASE /\ Reached(q) \cap disturbed' = {} /\ mine \cap Reached(q) = {}
               /\ \A k \in Players : k # q /\ todo[k] # <<>> => Reached(q) \cap Reached(k) = {}
      <4>1. \A k \in Players : k # q /\ todo'[k] # <<>> => Reached(q) \cap Reached(k)' = {}
        BY <1>1, <1>2, <3>3
      <4> QED  BY <3>1, <3>3, <4>1
    <3> QED  BY <1>8, <2>2, <3>1, <3>2, <3>3
  <2> QED  BY <2>1, <2>2
<1>10. Disturbance'
  BY <1>6, <1>7, <1>9 DEF Disturbance
<1>11. mine = ReachIn(DOMAIN world, r)
  BY DEF mine
<1> QED  BY <1>1, <1>5, <1>6, <1>10, <1>11

(* A client knows a block nobody is at: it places nothing into a door. *)
LEMMA SeenClear ==
  ASSUME ShownInv, Disturbance, NEW p \in Players, NEW r, Starts(p, r), r.op = "place",
         Target(r) \in DOMAIN world, ReachIn(DOMAIN world, r) \cap disturbed = {},
         \A q \in Players : todo[q] # <<>> => ReachIn(DOMAIN world, r) \cap Reached(q) = {}
  PROVE  world[Target(r)].type \notin Doors \/ IsInteractable(BlockIn(world, r.pos).type)
<1>1. /\ TypeOK /\ Handlers /\ ToldSoon /\ DOMAIN world \subseteq Positions /\ raced \subseteq disturbed
      /\ shown \in [DOMAIN world -> Block]
  BY DEF ShownInv, TypeOK, Disturbance
<1>2. ASSUME NEW x \in ReachIn(DOMAIN world, r)
      PROVE  x \in DOMAIN world /\ shown[x] = world[x]
  <2>1. x \in DOMAIN world \ raced
    BY <1>1 DEF ReachIn
  <2>2. ASSUME NEW q \in Players, Announces(todo[q], x) PROVE FALSE
    <3>1. todo[q] # <<>> /\ todo[q][1].pos = x
      BY <2>2 DEF Announces
    <3>2. x \in Reached(q)
      BY <1>1, <2>1, <3>1, TopReach DEF Reached
    <3> QED  BY <3>1, <3>2
  <2> QED  BY <1>1, <2>1, <2>2 DEF ToldSoon
<1>3. /\ Target(r) \in ReachIn(DOMAIN world, r)
      /\ r.pos \in DOMAIN world => r.pos \in ReachIn(DOMAIN world, r)
  <2>1. r \in Requests
    BY DEF Starts
  <2>2. Target(r) \in TouchedIn(DOMAIN world, r) /\ r.pos \in TouchedIn(DOMAIN world, r)
    BY <1>1, <2>1, Places_
  <2> QED  BY <1>1, <2>1, <2>2, Reaches
<1>4. Sees(Target(r)) = world[Target(r)]
  BY <1>1, <1>2, <1>3 DEF Sees
<1>5. Sees(r.pos) = BlockIn(world, r.pos)
  BY <1>1, <1>2, <1>3 DEF Sees, BlockIn
<1>6. \/ Sees(Target(r)).type \in {BLOCK.AIR} \cup Water
      \/ IsInteractable(Sees(r.pos).type)
  BY DEF Starts, Sendable
<1>7. \A t \in {BLOCK.AIR} \cup Water : t \notin Doors
  BY DEF Water, Doors, BLOCK
<1> QED  BY <1>4, <1>5, <1>6, <1>7

(* What a packet has begun leaves the blocks as they were foreseen. *)
LEMMA ReceiveForeseen ==
  ASSUME ShownInv, ShownInv', NEW w, Foreseen(w), NEW p \in Players, Receive(p)
  PROVE  Foreseen(w)'
<1>0. /\ TypeOK /\ Disturbance /\ AllPrepared /\ w \in [DOMAIN world -> Block] /\ Ends(w) /\ Whole(w, Clean)
  BY DEF ShownInv, Foreseen
<1>1. PICK r : Starts(p, r)
  BY ReceiveStarts
<1>2. world' = world /\ taken' = taken
  BY ReceiveStarts
<1>3. /\ todo[p] = <<>> /\ request'[p] = r
      /\ Len(todo'[p]) = 1 /\ todo'[p] # <<>> /\ todo'[p][1].call = r.op /\ r.op \in {"dig", "place"}
      /\ \A q \in Players : q # p => todo'[q] = todo[q] /\ request'[q] = request[q]
  BY <1>1 DEF Starts
<1>4. /\ disturbed \subseteq disturbed' /\ Disturbance' /\ Reached(p)' = ReachIn(DOMAIN world, r)
      /\ \A q \in Players : q # p => Reached(q)' = Reached(q)
      /\ \/ Reached(p)' \subseteq disturbed'
         \/ /\ Reached(p)' \cap disturbed' = {}
            /\ \A q \in Players : q # p /\ todo[q] # <<>> => Reached(p)' \cap Reached(q) = {}
  BY <1>0, <1>1, <1>2, StartDisturbs
<1>5. Clean' \subseteq Clean
  BY <1>2, <1>4 DEF Clean
<1>6. AllPrepared'
  <2> SUFFICES ASSUME NEW q \in Players, todo'[q] # <<>>
               PROVE  Prepared(todo'[q], request'[q], world, disturbed')
    BY <1>2 DEF AllPrepared
  <2>1. CASE q = p
    <3> PICK s : s = todo'[p]
      OBVIOUS
    <3>1. Len(s) = 1 /\ s[1].call = r.op /\ s[1].call # "write"
      BY <1>3
    <3>2. ASSUME r.op = "place", Target(r) \in DOMAIN world \ disturbed'
          PROVE  world[Target(r)].type \notin Doors \/ IsInteractable(BlockIn(world, r.pos).type)
      <4>1. Target(r) \in ReachIn(DOMAIN world, r)
        <5>1. DOMAIN world \subseteq Positions /\ r \in Requests
          BY <1>0, <1>1 DEF TypeOK, Starts
        <5>2. Target(r) \in TouchedIn(DOMAIN world, r)
          BY <3>2, <5>1, Places_
        <5> QED  BY <3>2, <5>1, <5>2, Reaches
      <4>2. /\ ReachIn(DOMAIN world, r) \cap disturbed = {}
            /\ \A k \in Players : todo[k] # <<>> => ReachIn(DOMAIN world, r) \cap Reached(k) = {}
        BY <1>3, <1>4, <3>2, <4>1
      <4> QED  BY <1>0, <1>1, <3>2, <4>2, SeenClear
    <3>3. Prepared(s, r, world, disturbed')
      BY <1>3, <3>1, <3>2 DEF Prepared
    <3> QED  BY <1>3, <2>1, <3>3
  <2>2. CASE q # p
    <3> PICK s, k : s = todo[q] /\ k = request[q]
      OBVIOUS
    <3>1. Prepared(s, k, world, disturbed)
      BY <1>0, <1>3, <2>2 DEF AllPrepared
    <3>2. Prepared(s, k, world, disturbed')
      BY <1>4, <3>1 DEF Prepared
    <3> QED  BY <1>3, <2>2, <3>2
  <2> QED  BY <2>1, <2>2
<1>7. Ends(w)'
  <2> SUFFICES ASSUME NEW x \in Clean'
               PROVE  /\ \A q \in Players : todo'[q] # <<>> /\ x \in Reached(q)' =>
                           /\ w[x] = Left(todo'[q], request'[q], world[x], x)
                           /\ Gone(taken[x], w[x], DoorPut(todo'[q], request'[q], x))
                      /\ (\A q \in Players : todo'[q] # <<>> => x \notin Reached(q)') =>
                           w[x] = world[x] /\ Gone(taken[x], w[x], FALSE)
    BY <1>2 DEF Ends
  <2>1. x \in Clean /\ x \notin disturbed'
    BY <1>5 DEF Clean
  <2>2. (\A q \in Players : todo[q] # <<>> => x \notin Reached(q)) => w[x] = world[x] /\ Gone(taken[x], w[x], FALSE)
    BY <1>0, <2>1 DEF Ends
  <2>3. ASSUME x \in Reached(p)'
        PROVE  /\ w[x] = Left(todo'[p], request'[p], world[x], x)
               /\ Gone(taken[x], w[x], DoorPut(todo'[p], request'[p], x))
    <3>1. w[x] = world[x] /\ Gone(taken[x], w[x], FALSE)
      BY <1>3, <1>4, <2>1, <2>2, <2>3
    <3> PICK s : s = todo'[p]
      OBVIOUS
    <3>2. Len(s) = 1 /\ s[1].call \notin Changing /\ s[1].call # "put"
      BY <1>3 DEF Changing
    <3>3. Left(s, r, world[x], x) = world[x] /\ ~DoorPut(s, r, x)
      BY <3>2, LeftTop
    <3> QED  BY <1>3, <3>1, <3>3 DEF Gone
  <2>4. ASSUME NEW q \in Players, q # p, todo'[q] # <<>>, x \in Reached(q)'
        PROVE  /\ w[x] = Left(todo'[q], request'[q], world[x], x)
               /\ Gone(taken[x], w[x], DoorPut(todo'[q], request'[q], x))
    <3>1. todo[q] # <<>> /\ x \in Reached(q)
      BY <1>3, <1>4, <2>4
    <3>2. w[x] = Left(todo[q], request[q], world[x], x) /\ Gone(taken[x], w[x], DoorPut(todo[q], request[q], x))
      BY <1>0, <2>1, <3>1 DEF Ends
    <3> QED  BY <1>3, <2>4, <3>2
  <2>5. (\A q \in Players : todo'[q] # <<>> => x \notin Reached(q)') => w[x] = world[x] /\ Gone(taken[x], w[x], FALSE)
    BY <1>3, <1>4, <2>2
  <2> QED  BY <2>3, <2>4, <2>5
<1>8. Whole(w, Clean')
  BY <1>0, <1>5, WholeLess
<1> QED  BY <1>0, <1>2, <1>4, <1>6, <1>7, <1>8 DEF Foreseen

(* ---------------------------- the whole program ------------------------- *)

LEMMA StutterForeseen ==
  ASSUME NEW w, Foreseen(w), UNCHANGED <<world, todo, request, taken, raced, disturbed>>
  PROVE  Foreseen(w)'
<1>1. Clean' = Clean /\ \A p \in Players : Reached(p)' = Reached(p)
  BY DEF Reached, Clean
<1>2. world' = world /\ todo' = todo /\ request' = request /\ taken' = taken /\ raced' = raced /\ disturbed' = disturbed
  OBVIOUS
<1>3. Disturbance'
  BY <1>1, <1>2 DEF Foreseen, Disturbance
<1>4. AllPrepared'
  BY <1>2 DEF Foreseen, AllPrepared
<1>5. Ends(w)'
  <2> SUFFICES ASSUME NEW x \in Clean
               PROVE  /\ \A p \in Players : todo[p] # <<>> /\ x \in Reached(p) =>
                           /\ w[x] = Left(todo[p], request[p], world[x], x)
                           /\ Gone(taken[x], w[x], DoorPut(todo[p], request[p], x))
                      /\ (\A p \in Players : todo[p] # <<>> => x \notin Reached(p)) =>
                           w[x] = world[x] /\ Gone(taken[x], w[x], FALSE)
    BY <1>1, <1>2 DEF Ends
  <2> QED  BY DEF Foreseen, Ends
<1> QED  BY <1>1, <1>2, <1>3, <1>4, <1>5 DEF Foreseen

LEMMA WholeInitially ==
  ASSUME Init
  PROVE  WholeInv
<1>1. /\ world \in Worlds /\ raced = {} /\ disturbed = {} /\ taken = [pos \in DOMAIN world |-> 0]
      /\ \A p \in Players : todo[p] = <<>>
  BY DEF Init
<1>2. Disturbance /\ AllPrepared
  BY <1>1 DEF Disturbance, AllPrepared
<1>3. world \in [DOMAIN world -> Block] /\ Whole(world, Clean)
  BY <1>1, EditsAssumption DEF Whole, Clean
<1>4. Ends(world)
  BY <1>1 DEF Ends, Clean, Gone
<1> QED  BY <1>2, <1>3, <1>4 DEF WholeInv, Foreseen

LEMMA WholeStep ==
  ASSUME ShownInv, ShownInv', WholeInv, [Next]_vars
  PROVE  WholeInv'
<1>1. PICK w : Foreseen(w)
  BY DEF WholeInv
<1> SUFFICES \E u : Foreseen(u)'
  BY DEF WholeInv
<1>2. CASE UNCHANGED vars
  BY <1>1, <1>2, StutterForeseen DEF vars
<1>3. ASSUME NEW p \in Players, UpdateSign(p)
      PROVE  \E u : Foreseen(u)'
  BY <1>1, <1>3, StutterForeseen DEF UpdateSign
<1>4. ASSUME NEW p \in Players, ReadType(p) \/ ReadMeta(p) \/ WriteType(p) \/ LoadMeta(p)
      PROVE  \E u : Foreseen(u)'
  BY <1>1, <1>4, AccessesForeseen
<1>5. ASSUME NEW p \in Players, StoreMeta(p) \/ Tell(p) \/ Receive(p)
      PROVE  \E u : Foreseen(u)'
  BY <1>1, <1>5, StoreMetaForeseen, TellForeseen, ReceiveForeseen
<1>6. ASSUME NEW p \in Players, DigOtherHalf(p) \/ SwingOtherHalf(p)
      PROVE  \E u : Foreseen(u)'
  BY <1>1, <1>6, OtherHalfForeseen
<1>7. ASSUME NEW p \in Players, Dig(p) \/ Interact(p) \/ Place(p) \/ PlaceSecondHalf(p)
      PROVE  \E u : Foreseen(u)'
  BY <1>1, <1>7, DigForeseen, InteractForeseen, PlaceForeseen, PlaceSecondHalfForeseen
<1>8. ASSUME NEW p \in Players, Refuse(p) \/ PutBlock(p) \/ Soak(p)
      PROVE  \E u : Foreseen(u)'
  BY <1>1, <1>8, RefuseForeseen, PutForeseen, SoakForeseen
<1> QED  BY <1>2, <1>3, <1>4, <1>5, <1>6, <1>7, <1>8 DEF Next

(* However the handlers' accesses are interleaved, it can be said what the  *)
(* blocks that are not disturbed will be when the handlers have ended, and  *)
(* of these no door is half, and none was given away and stays. *)
THEOREM Foresight == Spec => [](ShownInv /\ WholeInv)
<1>1. Init => ShownInv /\ WholeInv
  BY ShownInitially, WholeInitially
<1>2. ShownInv /\ WholeInv /\ [Next]_vars => ShownInv' /\ WholeInv'
  BY ShownStep, WholeStep
<1> QED  BY <1>1, <1>2, PTL DEF Spec

(* The two halves of a door stay of one kind and one state, unless two      *)
(* players were at it at once, its placement was refused after its top was  *)
(* put, or somebody went on from what that left. *)
THEOREM HalvesStayTogether == Spec => []HalvesAgree
<1>1. ShownInv /\ WholeInv => HalvesAgree
  <2> SUFFICES ASSUME WholeInv, NEW x \in Settled \ disturbed, world[x].type \in Doors,
                      NEW y, y = OtherDoorHalf(x, world[x].meta), y \in Settled \ disturbed
               PROVE  BelongTogether(world[x], world[y])
    BY DEF HalvesAgree
  <2>1. PICK w : Foreseen(w)
    BY DEF WholeInv
  <2>2. ASSUME NEW z \in Settled \ disturbed PROVE z \in Clean /\ w[z] = world[z]
    <3>1. z \in Clean /\ \A q \in Players : todo[q] # <<>> => z \notin Reached(q)
      BY ReachIsReach DEF Settled, Clean, Reached, Busy
    <3> QED  BY <2>1, <3>1 DEF Foreseen, Ends
  <2>3. Whole(w, Clean)
    BY <2>1 DEF Foreseen
  <2> QED  BY <2>2, <2>3 DEF Whole
<1> QED  BY <1>1, Foresight, PTL

(* A block that was put once is given once, with the same exceptions: who   *)
(* has it for itself removes it after the drop. *)
THEOREM DropsOnce == Spec => []DroppedOnce
<1>1. ShownInv /\ WholeInv => DroppedOnce
  <2> SUFFICES ASSUME WholeInv, NEW x \in DOMAIN world \ disturbed PROVE taken[x] <= 1
    BY DEF DroppedOnce
  <2>1. PICK w : Foreseen(w)
    BY DEF WholeInv
  <2>2. x \in Clean
    BY DEF Clean
  <2>3. CASE \E p \in Players : todo[p] # <<>> /\ x \in Reached(p)
    <3>1. PICK p \in Players : todo[p] # <<>> /\ x \in Reached(p)
      BY <2>3
    <3>2. Gone(taken[x], w[x], DoorPut(todo[p], request[p], x))
      BY <2>1, <2>2, <3>1 DEF Foreseen, Ends
    <3> QED  BY <3>2 DEF Gone
  <2>4. CASE \A p \in Players : todo[p] # <<>> => x \notin Reached(p)
    <3>1. Gone(taken[x], w[x], FALSE)
      BY <2>1, <2>2, <2>4 DEF Foreseen, Ends
    <3> QED  BY <3>1 DEF Gone
  <2> QED  BY <2>3, <2>4
<1> QED  BY <1>1, Foresight, PTL
==============================================================================
