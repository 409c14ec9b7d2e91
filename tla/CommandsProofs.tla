----------------------------- MODULE CommandsProofs ----------------------------
(***************************************************************************)
(* That operators and the whitelist keep their names, that a player comes  *)
(* back with the slots it left with, that nothing it owns is made or lost, *)
(* and that no slot is ever overfull, for any players, threads, sizes of   *)
(* the inventory, packets, commands, saves and crashes.  What the          *)
(* operations on slots and on the file of one player do comes first.       *)
(***************************************************************************)
EXTENDS Commands, FiniteSetTheorems, SequenceTheorems, WellFoundedInduction, TLAPS

-----------------------------------------------------------------------------
(* Counting up. *)

(* Every nonempty set of naturals has a least element. *)
LEMMA LeastNumber ==
  ASSUME NEW S \in SUBSET Nat, S # {}
  PROVE  \E m \in S : \A k \in S : m <= k
<1> DEFINE R == OpToRel(<, Nat)
<1>1. IsWellFoundedOn(R, Nat)
  BY NatLessThanWellFounded
<1>2. \E m \in S : \A k \in S : ~(<<k, m>> \in R)
  <2> HIDE DEF R
  <2> QED BY <1>1, WFMin
<1>3. \A k, m \in Nat : k < m => <<k, m>> \in R
  BY DEF OpToRel
<1> HIDE DEF R
<1>4. PICK m \in S : \A k \in S : ~(<<k, m>> \in R)
  BY <1>2
<1>5. \A k \in S : ~(k < m)
  BY <1>3, <1>4
<1> QED BY <1>5

(* What holds of 0, and of a number if it does of the one before, holds of  *)
(* all up to N. *)
LEMMA UpTo ==
  ASSUME NEW N \in Nat, NEW S, 0 \in S, \A n \in 1 .. N : n - 1 \in S => n \in S
  PROVE  0 .. N \subseteq S
<1> DEFINE Bad == {n \in 0 .. N : n \notin S}
<1>1. ASSUME Bad # {} PROVE FALSE
  <2>1. Bad \in SUBSET Nat
    OBVIOUS
  <2>2. PICK m \in Bad : \A k \in Bad : m <= k
    <3> HIDE DEF Bad
    <3> QED BY <1>1, <2>1, LeastNumber
  <2>3. m \in 1 .. N /\ m - 1 \in 0 .. N /\ ~(m <= m - 1)
    BY <2>2
  <2>4. m - 1 \in S
    BY <2>2, <2>3
  <2> QED BY <2>2, <2>3, <2>4
<1> QED BY <1>1

(* A value can be computed step by step. *)
Steps(step, N, X) == step \in [1 .. N -> [X -> X]]

Iterates(g, N, X, x, step) ==
  g \in [0 .. N -> X] /\ g[0] = x /\ \A n \in 1 .. N : g[n] = step[n][g[n - 1]]

LEMMA Iteration ==
  ASSUME NEW N \in Nat, NEW X, NEW x \in X, NEW step, Steps(step, N, X)
  PROVE  \E g : Iterates(g, N, X, x, step)
<1> USE DEF Steps
<1> DEFINE Computes(g, m) == g[0] = x /\ \A n \in 1 .. m : g[n] = step[n][g[n - 1]]
           S == {m \in 0 .. N : \E g \in [0 .. m -> X] : Computes(g, m)}
<1>1. 0 \in S
  <2> DEFINE g == [n \in 0 .. 0 |-> x]
  <2>1. g \in [0 .. 0 -> X] /\ Computes(g, 0)
    OBVIOUS
  <2> HIDE DEF g
  <2> QED BY <2>1
<1>2. ASSUME NEW n \in 1 .. N, n - 1 \in S PROVE n \in S
  <2>1. PICK g \in [0 .. n - 1 -> X] : Computes(g, n - 1)
    BY <1>2
  <2>2. n \in Nat /\ n - 1 \in 0 .. n - 1 /\ g[n - 1] \in X
    OBVIOUS
  <2>3. PICK y \in X : y = step[n][g[n - 1]]
    BY <2>2
  <2> DEFINE h == [k \in 0 .. n |-> IF k = n THEN y ELSE g[k]]
  <2>4. h \in [0 .. n -> X]
    BY <2>3
  <2>5. h[0] = x
    BY <2>1
  <2>6. ASSUME NEW k \in 1 .. n PROVE h[k] = step[k][h[k - 1]]
    <3>1. k - 1 \in 0 .. n /\ k - 1 # n /\ h[k - 1] = g[k - 1]
      OBVIOUS
    <3>2. CASE k = n
      BY <2>3, <3>1, <3>2
    <3>3. CASE k # n
      BY <2>1, <3>1, <3>3
    <3> QED BY <3>2, <3>3
  <2> HIDE DEF h
  <2> QED BY <2>4, <2>5, <2>6
<1>3. N \in S
  <2> HIDE DEF S
  <2>1. 0 .. N \subseteq S
    BY <1>1, <1>2, UpTo
  <2> QED BY <2>1
<1> QED BY <1>3 DEF Iterates

LEMMA Columns == IsFiniteSet(0 .. COLS - 1) /\ Cardinality(0 .. COLS - 1) = COLS
<1>1. COLS \in Nat \ {0} /\ 0 \in Int /\ COLS - 1 \in Int /\ COLS - 1 - 0 + 1 = COLS /\ 0 <= COLS - 1
  BY PlayerAssumption
<1> QED BY <1>1, FS_Interval

-----------------------------------------------------------------------------
(* One slot. *)

(* What can be put into slots: any amount of an item, or nothing. *)
Offer == {i \in [id : Int, amount : Nat, damage : Int] : i.amount > 0 => i.id \in Nat \ {BLOCK.AIR}}

LEMMA MaxStack == \A id : GetMaxStack(id) \in 1 .. 64
BY DEF GetMaxStack

LEMMA ItemFacts ==
  ASSUME NEW slot \in Item
  PROVE  /\ slot \in [id : Int, amount : Nat, damage : Int]
         /\ slot.id = SLOT_EMPTY \/ (slot.id \in Nat \ {BLOCK.AIR} /\ slot.amount > 0 /\ slot.amount <= GetMaxStack(slot.id))
         /\ slot.id = SLOT_EMPTY => slot = NoItem /\ slot.amount = 0
BY DEF Item, NoItem, SLOT_EMPTY

LEMMA LeftFacts ==
  ASSUME NEW item \in Offer, NEW n \in 0 .. item.amount
  PROVE  /\ Left(item, n) \in Offer
         /\ Left(item, n) = [id |-> item.id, amount |-> n, damage |-> item.damage]
BY DEF Left, Offer

(* A slot takes no more than there is, and is not overfull then. *)
LEMMA AddItemFacts ==
  ASSUME NEW slot \in Item, NEW item \in Offer
  PROVE  /\ Taken(slot, item) \in 0 .. item.amount
         /\ AddItem(slot, item) \in Item
         /\ AddItem(slot, item).amount = slot.amount + Taken(slot, item)
<1>1. item.id \in Int /\ item.amount \in Nat /\ item.damage \in Int
      /\ (item.amount > 0 => item.id \in Nat \ {BLOCK.AIR})
  BY DEF Offer
<1>2. PICK top \in 1 .. 64 : top = GetMaxStack(item.id)
  BY MaxStack
<1>3. slot.id \in Int /\ slot.amount \in Nat /\ (slot.id = SLOT_EMPTY => slot.amount = 0)
  BY ItemFacts
<1>4. Taken(slot, item) \in 0 .. item.amount
  BY <1>1, <1>2, <1>3 DEF Taken, Smaller
<1>5. CASE Taken(slot, item) = 0
  <2>1. AddItem(slot, item) = slot
    BY <1>5 DEF AddItem
  <2> QED BY <1>3, <1>4, <1>5, <2>1
<1>6. CASE Taken(slot, item) # 0
  <2>1. PICK n : n = Taken(slot, item) + (IF slot.id = SLOT_EMPTY THEN 0 ELSE slot.amount)
    OBVIOUS
  <2>2. AddItem(slot, item) = [id |-> item.id, damage |-> item.damage, amount |-> n]
    BY <1>6, <2>1 DEF AddItem
  <2>3. n \in Nat \ {0} /\ n <= top /\ item.id \in Nat \ {BLOCK.AIR} /\ n = slot.amount + Taken(slot, item)
    BY <1>1, <1>2, <1>3, <1>4, <1>6, <2>1 DEF Taken, Smaller
  <2>4. AddItem(slot, item) \in Item
    BY <1>1, <1>2, <2>2, <2>3 DEF Item
  <2> QED BY <1>4, <2>2, <2>3, <2>4
<1> QED BY <1>4, <1>5, <1>6

-----------------------------------------------------------------------------
(* A row. *)

(* What is rest in front of each column, and behind the last. *)
LEMMA LeftAtFacts ==
  ASSUME NEW row \in Row, NEW item \in Offer, NEW wanted
  PROVE  /\ LeftAt(row, item, wanted) \in [0 .. COLS -> 0 .. item.amount]
         /\ LeftAt(row, item, wanted)[0] = item.amount
         /\ \A c \in 1 .. COLS :
              LeftAt(row, item, wanted)[c] =
                IF c - 1 \in wanted
                THEN LeftAt(row, item, wanted)[c - 1]
                       - Taken(row[c - 1], Left(item, LeftAt(row, item, wanted)[c - 1]))
                ELSE LeftAt(row, item, wanted)[c - 1]
<1> DEFINE next(c, n) == IF c - 1 \in wanted THEN n - Taken(row[c - 1], Left(item, n)) ELSE n
           body(g) == [c \in 0 .. COLS |-> IF c = 0 THEN item.amount ELSE next(c, g[c - 1])]
<1>1. DOMAIN row = 0 .. COLS - 1 /\ Cardinality(DOMAIN row) = COLS /\ COLS \in Nat
  BY Columns, PlayerAssumption DEF Row
<1>2. PICK top \in Nat : top = item.amount
  BY DEF Offer
<1>3. PICK X : X = 0 .. top
  OBVIOUS
<1>4. ASSUME NEW c \in 1 .. COLS, NEW n \in X PROVE next(c, n) \in X
  <2>1. row[c - 1] \in Item
    BY <1>1 DEF Row
  <2>2. Left(item, n) \in Offer /\ Left(item, n).amount = n
    BY <1>2, <1>3, LeftFacts
  <2>3. Taken(row[c - 1], Left(item, n)) \in 0 .. n
    BY <2>1, <2>2, AddItemFacts
  <2> QED BY <1>2, <1>3, <2>3
<1> HIDE DEF next
<1>5. PICK step : step = [c \in 1 .. COLS |-> [n \in X |-> next(c, n)]]
  OBVIOUS
<1>6. COLS \in Nat /\ top \in X /\ Steps(step, COLS, X)
  <2>1. \A c \in 1 .. COLS : [n \in X |-> next(c, n)] \in [X -> X]
    BY <1>4
  <2> QED BY <1>1, <1>2, <1>3, <1>5, <2>1 DEF Steps
<1>7. PICK g : g \in [0 .. COLS -> X] /\ g[0] = top /\ \A n \in 1 .. COLS : g[n] = step[n][g[n - 1]]
  <2>1. PICK g : Iterates(g, COLS, X, top, step)
    BY <1>6, Iteration
  <2> QED BY <2>1 DEF Iterates
<1>8. ASSUME NEW c \in 1 .. COLS PROVE c - 1 \in 0 .. COLS /\ g[c] = next(c, g[c - 1])
  <2>1. c - 1 \in 0 .. COLS /\ g[c - 1] \in X
    BY <1>6, <1>7
  <2> QED BY <1>5, <1>7, <2>1
<1>9. g = body(g)
  BY <1>2, <1>6, <1>7, <1>8
<1>10. PICK rest : rest = LeftAt(row, item, wanted)
  OBVIOUS
<1>11. rest = CHOOSE f : f = body(f)
  BY <1>1, <1>10 DEF LeftAt, next
<1>12. rest = body(rest)
  <2> HIDE DEF body
  <2> QED BY <1>9, <1>11
<1>13. rest[0] = top /\ \A c \in 1 .. COLS : rest[c] = next(c, rest[c - 1])
  BY <1>2, <1>6, <1>12
<1>14. \A c \in 0 .. COLS : rest[c] \in X
  <2>1. PICK S : S = {c \in 0 .. COLS : rest[c] \in X}
    OBVIOUS
  <2>2. 0 \in S
    BY <1>6, <1>13, <2>1
  <2>3. ASSUME NEW c \in 1 .. COLS, c - 1 \in S PROVE c \in S
    <3>1. rest[c] \in X
      BY <1>4, <1>13, <2>1, <2>3
    <3> QED BY <1>6, <2>1, <3>1
  <2>4. 0 .. COLS \subseteq S
    BY <1>6, <2>2, <2>3, UpTo
  <2> QED BY <2>1, <2>4
<1>15. rest \in [0 .. COLS -> X]
  <2>1. rest = [c \in 0 .. COLS |-> rest[c]]
    BY <1>12
  <2> QED BY <1>14, <2>1
<1> QED BY <1>2, <1>3, <1>10, <1>13, <1>15 DEF next

-----------------------------------------------------------------------------
(* Sums. *)

(* A sum is counted off one by one, in any order. *)
Counts(f, w, D) ==
  /\ f \in [SUBSET D -> Int]
  /\ f[{}] = 0
  /\ \A s \in SUBSET D : \A x \in s : f[s] = w[x] + f[s \ {x}]

Numbers(w, D) == \A x \in D : w[x] \in Int

SetSums(f, w, D) == Counts(f, w, D) /\ \A S \in SUBSET D : SumFunctionOnSet(w, S) = f[S]

(* How the library counts. *)
Pick(s) == CHOOSE x \in s : TRUE
Counted(f, w, s) == IF s = {} THEN 0 ELSE w[Pick(s)] + f[s \ {Pick(s)}]
CountsSo(f, w, D) == f \in [SUBSET D -> Int] /\ \A s \in SUBSET D : f[s] = Counted(f, w, s)

LEMMA Smaller1 ==
  ASSUME NEW D, IsFiniteSet(D), NEW s \in SUBSET D, NEW x \in s
  PROVE  /\ s \ {x} \in SUBSET D /\ Cardinality(s) \in Nat \ {0}
         /\ Cardinality(s \ {x}) = Cardinality(s) - 1
<1>1. IsFiniteSet(s) /\ Cardinality(s) \in Nat /\ Cardinality(s \ {x}) = Cardinality(s) - 1
  BY FS_Subset, FS_CardinalityType, FS_RemoveElement
<1>2. Cardinality(s) # 0
  BY <1>1, FS_EmptySet
<1> QED BY <1>1, <1>2

(* What holds of a set if it holds of all that have one element less holds  *)
(* of every subset of a finite set. *)
FromOneLess(D, Good) == \A s \in SUBSET D : (\A x \in s : s \ {x} \in Good) => s \in Good

LEMMA BySize ==
  ASSUME NEW D, IsFiniteSet(D), NEW Good, FromOneLess(D, Good)
  PROVE  \A s \in SUBSET D : s \in Good
<1> USE DEF FromOneLess
<1>1. PICK N \in Nat : N = Cardinality(D)
  BY FS_CardinalityType
<1>2. \A s \in SUBSET D : Cardinality(s) \in 0 .. N
  BY <1>1, FS_Subset, FS_CardinalityType
<1> DEFINE S == {n \in 0 .. N : \A s \in SUBSET D : Cardinality(s) <= n => s \in Good}
<1>3. 0 \in S
  <2> SUFFICES ASSUME NEW s \in SUBSET D, Cardinality(s) <= 0 PROVE s \in Good
    BY <1>1
  <2>1. ASSUME NEW x \in s PROVE FALSE
    <3>1. Cardinality(s) \in Nat \ {0}
      BY Smaller1
    <3> QED BY <3>1
  <2> QED BY <2>1
<1>4. ASSUME NEW n \in 1 .. N, n - 1 \in S PROVE n \in S
  <2> SUFFICES ASSUME NEW s \in SUBSET D, Cardinality(s) <= n PROVE s \in Good
    OBVIOUS
  <2>1. ASSUME NEW x \in s PROVE s \ {x} \in Good
    <3>1. s \ {x} \in SUBSET D /\ Cardinality(s \ {x}) <= n - 1
      BY <1>2, Smaller1
    <3> QED BY <1>4, <3>1
  <2> QED BY <2>1
<1>5. 0 .. N \subseteq S
  <2> HIDE DEF S
  <2> QED BY <1>3, <1>4, UpTo
<1> QED BY <1>1, <1>2, <1>5

LEMMA CountingExists ==
  ASSUME NEW D, IsFiniteSet(D), NEW w, Numbers(w, D)
  PROVE  \E f : CountsSo(f, w, D)
<1> USE DEF Numbers
<1>1. PICK N \in Nat : N = Cardinality(D)
  BY FS_CardinalityType
<1>2. \A s \in SUBSET D : s # {} => Pick(s) \in s
  BY DEF Pick
<1>3. PICK X : X = [SUBSET D -> Int]
  OBVIOUS
<1>4. ASSUME NEW f \in X PROVE [s \in SUBSET D |-> Counted(f, w, s)] \in X
  <2>1. ASSUME NEW s \in SUBSET D PROVE Counted(f, w, s) \in Int
    <3>1. CASE s = {}
      BY <3>1 DEF Counted
    <3>2. CASE s # {}
      <4>1. Pick(s) \in D /\ s \ {Pick(s)} \in SUBSET D
        BY <1>2, <3>2
      <4>2. w[Pick(s)] \in Int /\ f[s \ {Pick(s)}] \in Int
        BY <1>3, <4>1
      <4> QED BY <3>2, <4>2 DEF Counted
    <3> QED BY <3>1, <3>2
  <2> QED BY <1>3, <2>1
<1>5. PICK zero : zero = [s \in SUBSET D |-> 0] /\ zero \in X
  <2>1. [s \in SUBSET D |-> 0] \in X
    BY <1>3
  <2> QED BY <2>1
<1>6. PICK step : step = [n \in 1 .. N + 1 |-> [f \in X |-> [s \in SUBSET D |-> Counted(f, w, s)]]]
  OBVIOUS
<1>7. Steps(step, N + 1, X)
  <2>1. [f \in X |-> [s \in SUBSET D |-> Counted(f, w, s)]] \in [X -> X]
    BY <1>4
  <2> QED BY <1>6, <2>1 DEF Steps
<1>8. PICK g : /\ g \in [0 .. N + 1 -> X] /\ g[0] = zero
               /\ \A n \in 1 .. N + 1 : g[n] = step[n][g[n - 1]]
  <2>1. N + 1 \in Nat
    BY <1>1
  <2>2. PICK g : Iterates(g, N + 1, X, zero, step)
    BY <1>5, <1>7, <2>1, Iteration
  <2> QED BY <2>2 DEF Iterates
<1>9. ASSUME NEW n \in 1 .. N + 1, NEW s \in SUBSET D
      PROVE  g[n][s] = Counted(g[n - 1], w, s)
  <2>1. n - 1 \in 0 .. N + 1 /\ g[n - 1] \in X
    BY <1>1, <1>8
  <2>2. g[n] = [t \in SUBSET D |-> Counted(g[n - 1], w, t)]
    BY <1>6, <1>8, <2>1
  <2> QED BY <2>2
(* After as many steps as a set has elements, its sum stays. *)
<1> DEFINE S == {n \in 0 .. N : \A s \in SUBSET D : Cardinality(s) <= n => g[n + 1][s] = g[n][s]}
<1>10. 0 \in S
  <2> SUFFICES ASSUME NEW s \in SUBSET D, Cardinality(s) <= 0 PROVE g[0 + 1][s] = g[0][s]
    BY <1>1
  <2>1. ASSUME NEW x \in s PROVE FALSE
    <3>1. Cardinality(s) \in Nat \ {0}
      BY Smaller1
    <3> QED BY <3>1
  <2>2. s = {} /\ 0 + 1 = 1 /\ 1 - 1 = 0 /\ 1 \in 1 .. N + 1
    BY <1>1, <2>1
  <2>3. g[1][s] = 0
    BY <1>9, <2>2 DEF Counted
  <2>4. g[0][s] = 0
    BY <1>5, <1>8
  <2> QED BY <2>2, <2>3, <2>4
<1>11. ASSUME NEW n \in 1 .. N, n - 1 \in S PROVE n \in S
  <2> SUFFICES ASSUME NEW s \in SUBSET D, Cardinality(s) <= n PROVE g[n + 1][s] = g[n][s]
    OBVIOUS
  <2>1. n \in 1 .. N + 1 /\ n + 1 \in 1 .. N + 1 /\ (n + 1) - 1 = n /\ (n - 1) + 1 = n
    BY <1>1
  <2>2. g[n + 1][s] = Counted(g[n], w, s) /\ g[n][s] = Counted(g[n - 1], w, s)
    BY <1>9, <2>1
  <2>3. CASE s = {}
    BY <2>2, <2>3 DEF Counted
  <2>4. CASE s # {}
    <3>1. PICK x \in s : x = Pick(s)
      BY <1>2, <2>4
    <3>2. s \ {x} \in SUBSET D /\ Cardinality(s \ {x}) <= n - 1
      <4>1. Cardinality(s) \in Nat /\ Cardinality(s \ {x}) = Cardinality(s) - 1 /\ s \ {x} \in SUBSET D
        BY Smaller1
      <4> QED BY <4>1
    <3>3. g[n][s \ {x}] = g[n - 1][s \ {x}]
      BY <1>11, <2>1, <3>2
    <3> QED BY <2>2, <2>4, <3>1, <3>3 DEF Counted
  <2> QED BY <2>3, <2>4
<1>12. N \in S
  <2> HIDE DEF S
  <2>1. 0 .. N \subseteq S
    BY <1>10, <1>11, UpTo
  <2> QED BY <1>1, <2>1
<1>13. ASSUME NEW s \in SUBSET D PROVE g[N][s] = Counted(g[N], w, s)
  <2>1. Cardinality(s) <= N
    BY <1>1, FS_Subset
  <2>2. g[N + 1][s] = g[N][s]
    BY <1>12, <2>1
  <2>3. N + 1 \in 1 .. N + 1 /\ (N + 1) - 1 = N
    BY <1>1
  <2> QED BY <1>9, <2>2, <2>3
<1>14. g[N] \in X
  BY <1>1, <1>8
<1> QED BY <1>3, <1>13, <1>14 DEF CountsSo

(* The order does not matter, and whatever counts as the library does finds *)
(* the same. *)
LEMMA CountingFacts ==
  ASSUME NEW D, IsFiniteSet(D), NEW w, Numbers(w, D),
         NEW f, CountsSo(f, w, D)
  PROVE  /\ Counts(f, w, D)
         /\ \A S \in SUBSET D : \A g : (\A s \in SUBSET S : g[s] = Counted(g, w, s)) => g[S] = f[S]
<1> USE DEF CountsSo, Numbers
<1>1. \A s \in SUBSET D : s # {} => Pick(s) \in s
  BY DEF Pick
<1>2. f[{}] = 0
  BY DEF Counted
<1>3. \A s \in SUBSET D : \A x \in s : f[s] = w[x] + f[s \ {x}]
  <2> DEFINE Good == {s \in SUBSET D : \A x \in s : f[s] = w[x] + f[s \ {x}]}
  <2>1. ASSUME NEW s \in SUBSET D, \A x \in s : s \ {x} \in Good PROVE s \in Good
    <3> SUFFICES ASSUME NEW x \in s PROVE f[s] = w[x] + f[s \ {x}]
      OBVIOUS
    <3>1. PICK y \in s : y = Pick(s)
      BY <1>1
    <3>2. f[s] = w[y] + f[s \ {y}]
      BY <3>1 DEF Counted
    <3>3. CASE x = y
      BY <3>2, <3>3
    <3>4. CASE x # y
      <4>1. PICK u, v, r : u = s \ {x} /\ v = s \ {y} /\ r = (s \ {x}) \ {y}
        OBVIOUS
      <4>2. /\ u \in Good /\ v \in Good /\ y \in u /\ x \in v
            /\ u \ {y} = r /\ v \ {x} = r
        BY <2>1, <3>4, <4>1
      <4>3. f[u] = w[y] + f[r] /\ f[v] = w[x] + f[r]
        BY <4>2
      <4>4. w[x] \in Int /\ w[y] \in Int /\ f[r] \in Int
        BY <4>1
      <4> QED BY <3>2, <4>1, <4>3, <4>4
    <3> QED BY <3>3, <3>4
  <2>2. \A s \in SUBSET D : s \in Good
    <3> HIDE DEF Good
    <3>1. FromOneLess(D, Good)
      BY <2>1 DEF FromOneLess
    <3> QED BY <3>1, BySize
  <2> QED BY <2>2
<1>4. ASSUME NEW S \in SUBSET D, NEW g, \A s \in SUBSET S : g[s] = Counted(g, w, s)
      PROVE  g[S] = f[S]
  <2> DEFINE Good == {s \in SUBSET D : s \subseteq S => g[s] = f[s]}
  <2>1. ASSUME NEW s \in SUBSET D, \A x \in s : s \ {x} \in Good PROVE s \in Good
    <3> SUFFICES ASSUME s \subseteq S PROVE g[s] = f[s]
      OBVIOUS
    <3>1. g[s] = Counted(g, w, s) /\ f[s] = Counted(f, w, s)
      BY <1>4
    <3>2. CASE s = {}
      BY <3>1, <3>2 DEF Counted
    <3>3. CASE s # {}
      <4>1. PICK x \in s : x = Pick(s)
        BY <1>1, <3>3
      <4>2. s \ {x} \in Good /\ s \ {x} \subseteq S
        BY <2>1
      <4> QED BY <3>1, <3>3, <4>1, <4>2 DEF Counted
    <3> QED BY <3>2, <3>3
  <2>2. \A s \in SUBSET D : s \in Good
    <3> HIDE DEF Good
    <3>1. FromOneLess(D, Good)
      BY <2>1 DEF FromOneLess
    <3> QED BY <3>1, BySize
  <2> QED BY <2>2
<1> QED BY <1>2, <1>3, <1>4 DEF Counts

(* The sums of the library over the parts of a finite set. *)
LEMMA SumOnSets ==
  ASSUME NEW D, IsFiniteSet(D), NEW w, Numbers(w, D)
  PROVE  \E f : SetSums(f, w, D)
<1>1. PICK f : CountsSo(f, w, D)
  BY CountingExists
<1>2. /\ Counts(f, w, D)
      /\ \A S \in SUBSET D : \A g : (\A s \in SUBSET S : g[s] = Counted(g, w, s)) => g[S] = f[S]
  BY <1>1, CountingFacts
<1>3. ASSUME NEW S \in SUBSET D PROVE SumFunctionOnSet(w, S) = f[S]
  <2> DEFINE body(g) == [s \in SUBSET S |-> IF s = {} THEN 0
                           ELSE w[CHOOSE x \in s : TRUE] + g[s \ {CHOOSE x \in s : TRUE}]]
  <2>1. PICK g : g = CHOOSE h : h = body(h)
    OBVIOUS
  <2>2. SumFunctionOnSet(w, S) = g[S]
    BY <2>1, Zenon DEF SumFunctionOnSet, FoldFunctionOnSet, MapThenFoldSet
  <2>3. PICK h : h = [s \in SUBSET S |-> f[s]]
    OBVIOUS
  <2>4. h = body(h)
    <3>1. ASSUME NEW s \in SUBSET S
          PROVE  h[s] = IF s = {} THEN 0 ELSE w[CHOOSE x \in s : TRUE] + h[s \ {CHOOSE x \in s : TRUE}]
      <4>1. s \in SUBSET D /\ s \ {CHOOSE x \in s : TRUE} \in SUBSET S
        OBVIOUS
      <4> QED BY <1>1, <2>3, <4>1 DEF CountsSo, Counted, Pick
    <3> QED BY <2>3, <3>1
  <2>5. g = body(g)
    <3> HIDE DEF body
    <3> QED BY <2>1, <2>4
  <2>6. \A s \in SUBSET S : g[s] = Counted(g, w, s)
    BY <2>5 DEF Counted, Pick
  <2> HIDE DEF body
  <2> QED BY <1>2, <2>2, <2>6
<1> QED BY <1>2, <1>3 DEF SetSums

(* Over a run of numbers, the sums can be compared one number at a time. *)
SumsUp(p, w, lo, n) ==
  /\ p \in [0 .. n -> Int] /\ p[0] = 0
  /\ \A k \in 1 .. n : p[k] = p[k - 1] + w[lo + k - 1]

LEMMA RunningSum ==
  ASSUME NEW n \in Nat, NEW lo \in Int, NEW w, Numbers(w, lo .. lo + n - 1)
  PROVE  \E p : SumsUp(p, w, lo, n) /\ SumFunctionOnSet(w, lo .. lo + n - 1) = p[n]
<1>1. PICK D : D = lo .. lo + n - 1
  OBVIOUS
<1>2. IsFiniteSet(D) /\ Numbers(w, D)
  <2>1. lo + n - 1 \in Int
    OBVIOUS
  <2> QED BY <1>1, <2>1, FS_Interval
<1>3. PICK f : SetSums(f, w, D)
  BY <1>2, SumOnSets
<1>4. Counts(f, w, D) /\ \A S \in SUBSET D : SumFunctionOnSet(w, S) = f[S]
  BY <1>3 DEF SetSums
<1>5. PICK p : p = [k \in 0 .. n |-> f[lo .. lo + k - 1]]
  OBVIOUS
<1>6. ASSUME NEW k \in 0 .. n PROVE lo .. lo + k - 1 \in SUBSET D
  BY <1>1
<1>7. p \in [0 .. n -> Int]
  BY <1>4, <1>5, <1>6 DEF Counts
<1>8. p[0] = 0
  <2>1. lo .. lo + 0 - 1 = {}
    OBVIOUS
  <2> QED BY <1>4, <1>5, <2>1 DEF Counts
<1>9. ASSUME NEW k \in 1 .. n PROVE p[k] = p[k - 1] + w[lo + k - 1]
  <2>1. PICK s, x : s = lo .. lo + k - 1 /\ x = lo + k - 1
    OBVIOUS
  <2>2. k \in 0 .. n /\ k - 1 \in 0 .. n /\ x \in s /\ s \ {x} = lo .. lo + (k - 1) - 1 /\ x \in D
    BY <1>1, <2>1
  <2>3. s \in SUBSET D
    BY <1>6, <2>1
  <2>4. f[s] = w[x] + f[s \ {x}]
    BY <1>4, <2>2, <2>3 DEF Counts
  <2>5. p[k] = f[s] /\ p[k - 1] = f[s \ {x}]
    BY <1>5, <2>1, <2>2
  <2>6. p[k - 1] \in Int /\ w[x] \in Int
    BY <1>2, <1>7, <2>2 DEF Numbers
  <2> QED BY <2>1, <2>4, <2>5, <2>6
<1>10. SumFunctionOnSet(w, lo .. lo + n - 1) = p[n]
  <2>1. p[n] = f[D]
    BY <1>1, <1>5
  <2>2. SumFunctionOnSet(w, D) = f[D]
    BY <1>4
  <2> QED BY <1>1, <2>1, <2>2
<1> QED BY <1>7, <1>8, <1>9, <1>10 DEF SumsUp

Differ(w, v, d, lo, n) == \A k \in 1 .. n : v[lo + k - 1] = w[lo + k - 1] + d[k] - d[k - 1]

Run(D, lo, n) == D = lo .. lo + n - 1

LEMMA SumChange ==
  ASSUME NEW n \in Nat, NEW lo \in Int, NEW D, Run(D, lo, n), NEW w, NEW v, Numbers(w, D), Numbers(v, D),
         NEW d, Numbers(d, 0 .. n), d[0] = 0, Differ(w, v, d, lo, n)
  PROVE  SumFunctionOnSet(w, D) \in Int /\ SumFunctionOnSet(v, D) = SumFunctionOnSet(w, D) + d[n]
<1> USE DEF Run
<1>1. PICK p : SumsUp(p, w, lo, n) /\ SumFunctionOnSet(w, D) = p[n]
  BY RunningSum
<1>2. PICK q : SumsUp(q, v, lo, n) /\ SumFunctionOnSet(v, D) = q[n]
  BY RunningSum
<1> DEFINE S == {k \in 0 .. n : q[k] = p[k] + d[k]}
<1>3. 0 \in S
  BY <1>1, <1>2 DEF SumsUp
<1>4. ASSUME NEW k \in 1 .. n, k - 1 \in S PROVE k \in S
  <2>1. PICK x : x = lo + k - 1 /\ x \in lo .. lo + n - 1
    OBVIOUS
  <2>2. k - 1 \in 0 .. n /\ k \in 0 .. n
    OBVIOUS
  <2>3. p[k] \in Int /\ p[k - 1] \in Int /\ d[k] \in Int /\ d[k - 1] \in Int /\ w[x] \in Int
    BY <1>1, <2>1, <2>2 DEF SumsUp, Numbers
  <2>4. q[k - 1] = p[k - 1] + d[k - 1] /\ p[k] = p[k - 1] + w[x] /\ q[k] = q[k - 1] + v[x]
        /\ v[x] = w[x] + d[k] - d[k - 1]
    BY <1>1, <1>2, <1>4, <2>1 DEF SumsUp, Differ
  <2>5. q[k] = p[k] + d[k]
    BY <2>3, <2>4
  <2> QED BY <2>2, <2>5
<1>5. 0 .. n \subseteq S
  <2> HIDE DEF S
  <2> QED BY <1>3, <1>4, UpTo
<1>6. q[n] = p[n] + d[n] /\ p[n] \in Int
  BY <1>1, <1>5 DEF SumsUp
<1> QED BY <1>1, <1>2, <1>6

LEMMA AmountIs ==
  ASSUME NEW row, DOMAIN row = 0 .. COLS - 1
  PROVE  /\ Amount(row) = SumFunctionOnSet([c \in DOMAIN row |-> row[c].amount], 0 .. 0 + COLS - 1)
         /\ 0 .. 0 + COLS - 1 = 0 .. COLS - 1
<1>1. COLS \in Nat
  BY PlayerAssumption
<1>2. 0 .. 0 + COLS - 1 = 0 .. COLS - 1
  BY <1>1
<1>3. PICK w : w = [c \in DOMAIN row |-> row[c].amount] /\ DOMAIN w = DOMAIN row
  OBVIOUS
<1> QED BY <1>2, <1>3 DEF Amount, SumFunction

(* A row that changes by so much, slot by slot. *)
Changes(row, new, d) ==
  /\ Numbers(d, 0 .. COLS) /\ d[0] = 0
  /\ \A c \in 1 .. COLS : new[c - 1].amount = row[c - 1].amount + d[c] - d[c - 1]

IsRow(row) == DOMAIN row = 0 .. COLS - 1 /\ \A c \in 0 .. COLS - 1 : row[c].amount \in Int

LEMMA AmountChange ==
  ASSUME NEW row, NEW new, IsRow(row), IsRow(new), NEW d, Changes(row, new, d)
  PROVE  Amount(row) \in Int /\ Amount(new) = Amount(row) + d[COLS]
<1> USE DEF Changes, IsRow
<1>1. COLS \in Nat
  BY PlayerAssumption
<1>2. PICK w, v : w = [c \in DOMAIN row |-> row[c].amount] /\ v = [c \in DOMAIN new |-> new[c].amount]
  OBVIOUS
<1>3. PICK D : D = 0 .. 0 + COLS - 1 /\ D = 0 .. COLS - 1
  BY AmountIs
<1>4. /\ Amount(row) = SumFunctionOnSet(w, D)
      /\ Amount(new) = SumFunctionOnSet(v, D)
  BY <1>2, <1>3, AmountIs
<1>5. Numbers(w, D) /\ Numbers(v, D)
  BY <1>2, <1>3 DEF Numbers
<1>6. Differ(w, v, d, 0, COLS)
  <2> SUFFICES ASSUME NEW c \in 1 .. COLS PROVE v[0 + c - 1] = w[0 + c - 1] + d[c] - d[c - 1]
    BY DEF Differ
  <2>1. 0 + c - 1 = c - 1 /\ c - 1 \in 0 .. COLS - 1
    BY <1>1
  <2>2. v[c - 1] = new[c - 1].amount /\ w[c - 1] = row[c - 1].amount
    BY <1>2, <2>1
  <2> QED BY <2>1, <2>2
<1>7. 0 \in Int /\ Run(D, 0, COLS)
  BY <1>3 DEF Run
<1>8. SumFunctionOnSet(w, D) \in Int /\ SumFunctionOnSet(v, D) = SumFunctionOnSet(w, D) + d[COLS]
  BY <1>1, <1>3, <1>5, <1>6, <1>7, SumChange
<1> QED BY <1>4, <1>8

LEMMA RowFacts ==
  ASSUME NEW row \in Row
  PROVE  /\ DOMAIN row = 0 .. COLS - 1
         /\ \A c \in 0 .. COLS - 1 : row[c] \in Item /\ row[c].amount \in Int
         /\ row = [c \in 0 .. COLS - 1 |-> row[c]]
         /\ Amount(row) \in Int
         /\ IsRow(row)
<1>1. /\ DOMAIN row = 0 .. COLS - 1 /\ row = [c \in 0 .. COLS - 1 |-> row[c]]
      /\ \A c \in 0 .. COLS - 1 : row[c] \in Item
  BY DEF Row
<1>2. \A c \in 0 .. COLS - 1 : row[c].amount \in Int
  BY <1>1, ItemFacts
<1>3. PICK d : d = [k \in 0 .. COLS |-> 0]
  OBVIOUS
<1>4. Numbers(d, 0 .. COLS) /\ d[0] = 0 /\ \A c \in 1 .. COLS : d[c] = 0 /\ d[c - 1] = 0
  BY <1>3, PlayerAssumption DEF Numbers
<1>5. \A c \in 1 .. COLS : row[c - 1].amount = row[c - 1].amount + d[c] - d[c - 1]
  <2>1. COLS \in Nat
    BY PlayerAssumption
  <2>2. \A c \in 1 .. COLS : c - 1 \in 0 .. COLS - 1
    BY <2>1
  <2> QED BY <1>2, <1>4, <2>2
<1>6. Changes(row, row, d) /\ IsRow(row)
  BY <1>1, <1>2, <1>4, <1>5 DEF Changes, IsRow
<1>7. Amount(row) \in Int
  BY <1>6, AmountChange
<1> QED BY <1>1, <1>2, <1>6, <1>7

(* A row took some of the item. *)
Spread(result, row, item) ==
  /\ result \in [row : Row, item : Offer]
  /\ Amount(result.row) = Amount(row) + item.amount - result.item.amount

LEMMA FillFacts ==
  ASSUME NEW row \in Row, NEW item \in Offer, NEW wanted
  PROVE  Spread(Fill(row, item, wanted), row, item)
<1>1. /\ DOMAIN row = 0 .. COLS - 1 /\ Cardinality(0 .. COLS - 1) = COLS /\ COLS \in Nat \ {0} /\ IsRow(row)
      /\ \A c \in 0 .. COLS - 1 : row[c] \in Item /\ row[c].amount \in Int
  BY RowFacts, Columns, PlayerAssumption
<1>2. item.amount \in Nat
  BY DEF Offer
<1>3. PICK rest : rest = LeftAt(row, item, wanted)
  OBVIOUS
<1>4. /\ rest \in [0 .. COLS -> 0 .. item.amount] /\ rest[0] = item.amount
      /\ \A c \in 1 .. COLS :
           rest[c] = IF c - 1 \in wanted THEN rest[c - 1] - Taken(row[c - 1], Left(item, rest[c - 1]))
                     ELSE rest[c - 1]
  BY <1>3, LeftAtFacts
<1>5. PICK new : new = [c \in 0 .. COLS - 1 |->
                          IF c \in wanted THEN AddItem(row[c], Left(item, rest[c])) ELSE row[c]]
  OBVIOUS
<1>6. Fill(row, item, wanted) = [row |-> new, item |-> Left(item, rest[COLS])]
  BY <1>1, <1>3, <1>5 DEF Fill
<1>7. ASSUME NEW c \in 0 .. COLS - 1
      PROVE  /\ new[c] \in Item
             /\ c \in wanted => new[c].amount = row[c].amount + Taken(row[c], Left(item, rest[c]))
             /\ c \notin wanted => new[c].amount = row[c].amount
             /\ Taken(row[c], Left(item, rest[c])) \in Int
  <2>1. rest[c] \in 0 .. item.amount
    BY <1>1, <1>4
  <2>2. PICK some : some = Left(item, rest[c]) /\ some \in Offer
    BY <2>1, LeftFacts
  <2>3. /\ Taken(row[c], some) \in 0 .. some.amount /\ AddItem(row[c], some) \in Item
        /\ AddItem(row[c], some).amount = row[c].amount + Taken(row[c], some)
    BY <1>1, <2>2, AddItemFacts
  <2> QED BY <1>1, <1>5, <2>2, <2>3
<1>8. new \in Row /\ IsRow(new)
  <2>1. new \in Row
    BY <1>5, <1>7 DEF Row
  <2> QED BY <2>1, RowFacts
<1>9. PICK d : d = [c \in 0 .. COLS |-> item.amount - rest[c]]
  OBVIOUS
<1>10. Changes(row, new, d)
  <2>1. Numbers(d, 0 .. COLS) /\ d[0] = 0
    BY <1>1, <1>2, <1>4, <1>9 DEF Numbers
  <2>2. ASSUME NEW c \in 1 .. COLS PROVE new[c - 1].amount = row[c - 1].amount + d[c] - d[c - 1]
    <3>1. PICK b \in 0 .. COLS - 1 : b = c - 1
      BY <1>1
    <3>2. b \in 0 .. COLS /\ rest[b] \in 0 .. item.amount /\ rest[c] \in 0 .. item.amount
      BY <1>1, <1>4, <3>1
    <3>3. d[c] = item.amount - rest[c] /\ d[b] = item.amount - rest[b]
      BY <1>9, <3>2
    <3>4. row[b].amount \in Int
      BY <1>1
    <3>5. CASE b \in wanted
      <4>1. rest[c] = rest[b] - Taken(row[b], Left(item, rest[b]))
        BY <1>4, <3>1, <3>5
      <4>2. PICK taken \in Int : taken = Taken(row[b], Left(item, rest[b]))
        BY <1>7
      <4>3. new[b].amount = row[b].amount + taken
        BY <1>7, <3>5, <4>2
      <4> QED BY <1>2, <3>1, <3>2, <3>3, <3>4, <4>1, <4>2, <4>3
    <3>6. CASE b \notin wanted
      <4>1. rest[c] = rest[b] /\ new[b].amount = row[b].amount
        BY <1>4, <1>7, <3>1, <3>6
      <4> QED BY <1>2, <3>1, <3>2, <3>3, <3>4, <4>1
    <3> QED BY <3>5, <3>6
  <2> QED BY <2>1, <2>2 DEF Changes
<1>11. Amount(row) \in Int /\ Amount(new) = Amount(row) + (item.amount - rest[COLS])
  <2>1. Amount(row) \in Int /\ Amount(new) = Amount(row) + d[COLS]
    BY <1>1, <1>8, <1>10, AmountChange
  <2> QED BY <1>1, <1>9, <2>1
<1>12. rest[COLS] \in 0 .. item.amount
  BY <1>1, <1>4
<1>13. Left(item, rest[COLS]) \in Offer /\ Left(item, rest[COLS]).amount = rest[COLS]
  BY <1>12, LeftFacts
<1>14. Amount(new) = Amount(row) + item.amount - rest[COLS]
  BY <1>2, <1>11, <1>12
<1> QED BY <1>6, <1>8, <1>13, <1>14 DEF Spread

LEMMA SpreadItemFacts ==
  ASSUME NEW row \in Row, NEW item \in Offer
  PROVE  Spread(SpreadItem(row, item), row, item)
<1>1. PICK begun : begun = Fill(row, item, Stacks(row, item)) /\ Spread(begun, row, item)
  BY FillFacts
<1>2. CASE begun.item.amount <= 0
  <2>1. SpreadItem(row, item) = begun
    BY <1>1, <1>2 DEF SpreadItem
  <2> QED BY <1>1, <2>1
<1>3. CASE ~(begun.item.amount <= 0)
  <2>1. PICK full : full = Fill(begun.row, begun.item, Free(begun.row)) /\ Spread(full, begun.row, begun.item)
    BY <1>1, FillFacts DEF Spread
  <2>2. SpreadItem(row, item) = full
    BY <1>1, <1>3, <2>1 DEF SpreadItem
  <2>3. Amount(row) \in Int /\ item.amount \in Int /\ begun.item.amount \in Int /\ full.item.amount \in Int
    BY <1>1, <2>1, RowFacts DEF Spread, Offer
  <2>4. /\ Amount(begun.row) = Amount(row) + item.amount - begun.item.amount
        /\ Amount(full.row) = Amount(begun.row) + begun.item.amount - full.item.amount
        /\ full \in [row : Row, item : Offer]
    BY <1>1, <2>1 DEF Spread
  <2>5. Amount(full.row) = Amount(row) + item.amount - full.item.amount
    BY <2>3, <2>4
  <2>6. Spread(full, row, item)
    BY <2>4, <2>5 DEF Spread
  <2> QED BY <2>2, <2>6
<1> QED BY <1>2, <1>3

-----------------------------------------------------------------------------
(* The rows. *)

Rows == [1 .. ROWS -> Row]

LEMMA RowsAre ==
  ASSUME NEW inv \in Rows
  PROVE  /\ DOMAIN inv = 1 .. ROWS /\ Len(inv) = ROWS
         /\ \A r \in 1 .. ROWS : inv[r] \in Row /\ Amount(inv[r]) \in Int
<1>1. ROWS \in Nat
  BY PlayerAssumption
<1>2. inv \in [1 .. ROWS -> Row]
  BY DEF Rows
<1>3. DOMAIN inv = 1 .. ROWS /\ \A r \in 1 .. ROWS : inv[r] \in Row
  BY <1>2
<1>4. inv \in Seq(Row) /\ Len(inv) = ROWS
  BY <1>1, <1>2
<1> QED BY <1>3, <1>4, RowFacts

LEMMA StoredChange ==
  ASSUME NEW inv \in Rows, NEW new \in Rows, NEW d, Numbers(d, 0 .. ROWS), d[0] = 0,
         \A r \in 1 .. ROWS : Amount(new[r]) = Amount(inv[r]) + d[r] - d[r - 1]
  PROVE  Stored(inv) \in Int /\ Stored(new) = Stored(inv) + d[ROWS]
<1>1. ROWS \in Nat /\ 1 \in Int /\ 1 .. 1 + ROWS - 1 = 1 .. ROWS
  BY PlayerAssumption
<1>2. PICK w, v : w = [r \in 1 .. ROWS |-> Amount(inv[r])] /\ v = [r \in 1 .. ROWS |-> Amount(new[r])]
  OBVIOUS
<1>3. PICK D : D = 1 .. 1 + ROWS - 1 /\ D = 1 .. ROWS
  BY <1>1
<1>4. Stored(inv) = SumFunctionOnSet(w, D) /\ Stored(new) = SumFunctionOnSet(v, D)
  <2>1. DOMAIN w = D /\ DOMAIN v = D /\ DOMAIN inv = 1 .. ROWS /\ DOMAIN new = 1 .. ROWS
    BY <1>2, <1>3, RowsAre
  <2> QED BY <1>2, <2>1 DEF Stored, SumFunction
<1>5. Numbers(w, D) /\ Numbers(v, D)
  BY <1>2, <1>3, RowsAre DEF Numbers
<1>6. Differ(w, v, d, 1, ROWS)
  <2> SUFFICES ASSUME NEW r \in 1 .. ROWS PROVE v[1 + r - 1] = w[1 + r - 1] + d[r] - d[r - 1]
    BY DEF Differ
  <2>1. 1 + r - 1 = r
    OBVIOUS
  <2>2. v[r] = Amount(new[r]) /\ w[r] = Amount(inv[r])
    BY <1>2
  <2> QED BY <2>1, <2>2
<1>7. Run(D, 1, ROWS)
  BY <1>3 DEF Run
<1>8. SumFunctionOnSet(w, D) \in Int /\ SumFunctionOnSet(v, D) = SumFunctionOnSet(w, D) + d[ROWS]
  BY <1>1, <1>5, <1>6, <1>7, SumChange
<1> QED BY <1>4, <1>8

LEMMA SpreadItemsFacts ==
  ASSUME NEW inv \in Rows, NEW item \in Offer
  PROVE  /\ SpreadItems(inv, item).inv \in Rows
         /\ SpreadItems(inv, item).item \in Offer
         /\ Stored(SpreadItems(inv, item).inv) = Stored(inv) + item.amount - SpreadItems(inv, item).item.amount
         /\ Stored(inv) \in Int
<1>1. /\ ROWS \in Nat \ {0} /\ DOMAIN inv = 1 .. ROWS /\ Len(inv) = ROWS
      /\ \A r \in 1 .. ROWS : inv[r] \in Row /\ Amount(inv[r]) \in Int
  BY PlayerAssumption, RowsAre
<1> DEFINE body(f) == [r \in 0 .. ROWS |->
                         IF r = 0 THEN [row |-> EmptyRow(0), item |-> item]
                         ELSE SpreadItem(inv[r], f[r - 1].item)]
<1>2. PICK first : first = [row |-> EmptyRow(0), item |-> item]
  OBVIOUS
<1>3. PICK X : X = [row : Row \cup {EmptyRow(0)}, item : Offer]
  OBVIOUS
<1>4. first \in X /\ \A x \in X : x.item \in Offer
  BY <1>2, <1>3
<1>5. \A r \in 1 .. ROWS : \A x \in X : SpreadItem(inv[r], x.item) \in X
  <2> SUFFICES ASSUME NEW r \in 1 .. ROWS, NEW x \in X PROVE SpreadItem(inv[r], x.item) \in X
    OBVIOUS
  <2>1. SpreadItem(inv[r], x.item) \in [row : Row, item : Offer]
    BY <1>1, <1>4, SpreadItemFacts DEF Spread
  <2> QED BY <1>3, <2>1
<1>6. PICK step : step = [r \in 1 .. ROWS |-> [x \in X |-> SpreadItem(inv[r], x.item)]]
  OBVIOUS
<1>7. Steps(step, ROWS, X)
  <2>1. \A r \in 1 .. ROWS : [x \in X |-> SpreadItem(inv[r], x.item)] \in [X -> X]
    BY <1>5
  <2> QED BY <1>6, <2>1 DEF Steps
<1>8. PICK g : /\ g \in [0 .. ROWS -> X] /\ g[0] = first
               /\ \A r \in 1 .. ROWS : g[r] = step[r][g[r - 1]]
  <2>1. PICK g : Iterates(g, ROWS, X, first, step)
    BY <1>1, <1>4, <1>7, Iteration
  <2> QED BY <2>1 DEF Iterates
<1>9. ASSUME NEW r \in 1 .. ROWS PROVE r - 1 \in 0 .. ROWS /\ g[r] = SpreadItem(inv[r], g[r - 1].item)
  <2>1. r - 1 \in 0 .. ROWS /\ g[r - 1] \in X
    BY <1>1, <1>8
  <2> QED BY <1>6, <1>8, <2>1
<1>10. g = body(g)
  BY <1>1, <1>2, <1>8, <1>9
<1>11. PICK after : after = CHOOSE f : f = body(f)
  OBVIOUS
<1>12. after = body(after)
  <2> HIDE DEF body
  <2> QED BY <1>10, <1>11
<1>13. PICK result : result = SpreadItems(inv, item)
  OBVIOUS
<1>14. result = [inv |-> [r \in 1 .. ROWS |-> after[r].row], item |-> after[ROWS].item]
  BY <1>1, <1>11, <1>13 DEF SpreadItems
<1>15. after[0] = first /\ \A r \in 1 .. ROWS : after[r] = SpreadItem(inv[r], after[r - 1].item)
  BY <1>1, <1>2, <1>12
<1>16. \A r \in 0 .. ROWS : after[r] \in X
  <2>1. PICK S : S = {r \in 0 .. ROWS : after[r] \in X}
    OBVIOUS
  <2>2. 0 \in S
    BY <1>1, <1>4, <1>15, <2>1
  <2>3. ASSUME NEW r \in 1 .. ROWS, r - 1 \in S PROVE r \in S
    <3>1. after[r] \in X
      BY <1>5, <1>15, <2>1, <2>3
    <3> QED BY <1>1, <2>1, <3>1
  <2>4. 0 .. ROWS \subseteq S
    BY <1>1, <2>2, <2>3, UpTo
  <2> QED BY <2>1, <2>4
<1>17. ASSUME NEW r \in 1 .. ROWS
       PROVE  r - 1 \in 0 .. ROWS /\ after[r - 1].item \in Offer /\ Spread(after[r], inv[r], after[r - 1].item)
  <2>1. r - 1 \in 0 .. ROWS /\ after[r - 1].item \in Offer
    BY <1>1, <1>4, <1>16
  <2> QED BY <1>1, <1>15, <2>1, SpreadItemFacts
<1>18. PICK new : new = [r \in 1 .. ROWS |-> after[r].row] /\ new \in Rows
  <2>1. [r \in 1 .. ROWS |-> after[r].row] \in Rows
    BY <1>17 DEF Spread, Rows
  <2> QED BY <2>1
<1>19. PICK d : d = [r \in 0 .. ROWS |-> item.amount - after[r].item.amount]
  OBVIOUS
<1>20. ASSUME NEW r \in 0 .. ROWS PROVE after[r].item.amount \in Int /\ after[r].item \in Offer
  BY <1>4, <1>16 DEF Offer
<1>21. item.amount \in Int
  BY DEF Offer
<1>22. Numbers(d, 0 .. ROWS) /\ d[0] = 0
  BY <1>1, <1>2, <1>15, <1>19, <1>20, <1>21 DEF Numbers
<1>23. \A r \in 1 .. ROWS : Amount(new[r]) = Amount(inv[r]) + d[r] - d[r - 1]
  <2> SUFFICES ASSUME NEW r \in 1 .. ROWS PROVE Amount(new[r]) = Amount(inv[r]) + d[r] - d[r - 1]
    OBVIOUS
  <2>1. PICK b \in 0 .. ROWS : b = r - 1
    BY <1>17
  <2>2. Amount(after[r].row) = Amount(inv[r]) + after[b].item.amount - after[r].item.amount
    BY <1>17, <2>1 DEF Spread
  <2>3. new[r] = after[r].row /\ d[r] = item.amount - after[r].item.amount
        /\ d[b] = item.amount - after[b].item.amount
    BY <1>18, <1>19
  <2>4. after[r].item.amount \in Int /\ after[b].item.amount \in Int
    BY <1>20
  <2> QED BY <1>1, <1>21, <2>1, <2>2, <2>3, <2>4
<1>24. Stored(inv) \in Int /\ Stored(new) = Stored(inv) + d[ROWS]
  BY <1>18, <1>22, <1>23, StoredChange
<1>25. ROWS \in 0 .. ROWS /\ d[ROWS] = item.amount - after[ROWS].item.amount
  BY <1>1, <1>19
<1>26. Stored(new) = Stored(inv) + item.amount - after[ROWS].item.amount
  BY <1>20, <1>21, <1>24, <1>25
<1> QED BY <1>13, <1>14, <1>18, <1>20, <1>24, <1>25, <1>26

-----------------------------------------------------------------------------
(* All slots of a player. *)

LEMMA SlotsAre ==
  ASSUME NEW s \in Slots
  PROVE  /\ s.hotbar \in Row /\ s.inventory \in Rows /\ s.armor = [c \in 0 .. 3 |-> NoItem]
         /\ s = [hotbar |-> s.hotbar, inventory |-> s.inventory, armor |-> s.armor]
         /\ Amount(s.hotbar) \in Int /\ Stored(s.inventory) \in Int
         /\ Owned(s) = Amount(s.hotbar) + Stored(s.inventory)
<1>1. s.hotbar \in Row /\ s.inventory \in Rows /\ s.armor \in [0 .. 3 -> {NoItem}]
      /\ s = [hotbar |-> s.hotbar, inventory |-> s.inventory, armor |-> s.armor]
  BY DEF Slots, Rows
<1>2. s.armor = [c \in 0 .. 3 |-> NoItem]
  BY <1>1
<1>3. PICK none : none = [id |-> 1, amount |-> 0, damage |-> 0] /\ none \in Offer
  <2>1. 1 \in Nat \ {BLOCK.AIR}
    BY DEF BLOCK
  <2>2. [id |-> 1, amount |-> 0, damage |-> 0] \in Offer
    BY <2>1 DEF Offer
  <2> QED BY <2>2
<1>4. Stored(s.inventory) \in Int
  BY <1>1, <1>3, SpreadItemsFacts
<1> QED BY <1>1, <1>2, <1>4, RowFacts DEF Owned

LEMMA MakeSlots ==
  ASSUME NEW hotbar \in Row, NEW inv \in Rows, NEW s \in Slots
  PROVE  /\ [s EXCEPT !.hotbar = hotbar, !.inventory = inv] \in Slots
         /\ [s EXCEPT !.hotbar = hotbar] \in Slots
         /\ Owned([s EXCEPT !.hotbar = hotbar, !.inventory = inv]) = Amount(hotbar) + Stored(inv)
         /\ Owned([s EXCEPT !.hotbar = hotbar]) = Amount(hotbar) + Stored(s.inventory)
<1>1. PICK h, i, a : s = [hotbar |-> h, inventory |-> i, armor |-> a] /\ h \in Row /\ i \in Rows /\ a \in [0 .. 3 -> {NoItem}]
  BY DEF Slots, Rows
<1>2. /\ [s EXCEPT !.hotbar = hotbar, !.inventory = inv] = [hotbar |-> hotbar, inventory |-> inv, armor |-> a]
      /\ [s EXCEPT !.hotbar = hotbar] = [hotbar |-> hotbar, inventory |-> i, armor |-> a]
  <2>1. PICK u : u = [s EXCEPT !.hotbar = hotbar]
    OBVIOUS
  <2>2. u = [hotbar |-> hotbar, inventory |-> i, armor |-> a]
    BY <1>1, <2>1
  <2>3. [u EXCEPT !.inventory = inv] = [hotbar |-> hotbar, inventory |-> inv, armor |-> a]
    BY <2>2
  <2>4. [s EXCEPT !.hotbar = hotbar, !.inventory = inv] = [u EXCEPT !.inventory = inv]
    BY <2>1
  <2> QED BY <2>1, <2>2, <2>3, <2>4
<1>3. /\ [hotbar |-> hotbar, inventory |-> inv, armor |-> a] \in Slots
      /\ [hotbar |-> hotbar, inventory |-> i, armor |-> a] \in Slots
  BY <1>1 DEF Slots, Rows
<1>4. /\ Owned([hotbar |-> hotbar, inventory |-> inv, armor |-> a]) = Amount(hotbar) + Stored(inv)
      /\ Owned([hotbar |-> hotbar, inventory |-> i, armor |-> a]) = Amount(hotbar) + Stored(i)
      /\ s.inventory = i
  BY <1>1 DEF Owned
<1> QED BY <1>2, <1>3, <1>4

(* The slots took some of the item. *)
Given(result, s, item) ==
  /\ result.slots \in Slots
  /\ result.left \in Nat
  /\ Owned(result.slots) = Owned(s) + item.amount - result.left

LEMMA SpreadToSlotsFacts ==
  ASSUME NEW s \in Slots, NEW item \in Offer
  PROVE  Given(SpreadToSlots(s, item), s, item)
<1>1. /\ s.hotbar \in Row /\ s.inventory \in Rows
      /\ Amount(s.hotbar) \in Int /\ Stored(s.inventory) \in Int /\ Owned(s) = Amount(s.hotbar) + Stored(s.inventory)
  BY SlotsAre
<1>2. PICK first : first = SpreadItem(s.hotbar, item)
  OBVIOUS
<1>3. /\ first.row \in Row /\ first.item \in Offer
      /\ Amount(first.row) = Amount(s.hotbar) + item.amount - first.item.amount
  BY <1>1, <1>2, SpreadItemFacts DEF Spread
<1>4. item.amount \in Nat /\ first.item.amount \in Nat
  BY <1>3 DEF Offer
<1>5. CASE first.item.amount <= 0
  <2>1. PICK now : now = [s EXCEPT !.hotbar = first.row]
    OBVIOUS
  <2>2. SpreadToSlots(s, item) = [slots |-> now, left |-> 0]
    BY <1>2, <1>5, <2>1 DEF SpreadToSlots
  <2>3. now \in Slots /\ Owned(now) = Amount(first.row) + Stored(s.inventory)
    BY <1>1, <1>3, <2>1, MakeSlots
  <2>4. Owned(now) = Owned(s) + item.amount - 0
    BY <1>1, <1>3, <1>4, <1>5, <2>3
  <2> QED BY <2>2, <2>3, <2>4 DEF Given
<1>6. CASE ~(first.item.amount <= 0)
  <2>1. PICK rest : rest = SpreadItems(s.inventory, first.item)
    OBVIOUS
  <2>2. /\ rest.inv \in Rows /\ rest.item \in Offer
        /\ Stored(rest.inv) = Stored(s.inventory) + first.item.amount - rest.item.amount
    BY <1>1, <1>3, <2>1, SpreadItemsFacts
  <2>3. PICK now : now = [s EXCEPT !.hotbar = first.row, !.inventory = rest.inv]
    OBVIOUS
  <2>4. SpreadToSlots(s, item) = [slots |-> now, left |-> rest.item.amount]
    BY <1>2, <1>6, <2>1, <2>3 DEF SpreadToSlots
  <2>5. now \in Slots /\ Owned(now) = Amount(first.row) + Stored(rest.inv)
    BY <1>3, <2>2, <2>3, MakeSlots
  <2>6. rest.item.amount \in Nat
    BY <2>2 DEF Offer
  <2>7. Owned(now) = Owned(s) + item.amount - rest.item.amount
    BY <1>1, <1>3, <1>4, <2>2, <2>5, <2>6
  <2> QED BY <2>4, <2>5, <2>6, <2>7 DEF Given
<1> QED BY <1>5, <1>6

(* What is asked for: a full stack, if no number is given. *)
Asked(item) == IF item.amount < 0 THEN GetMaxStack(item.id) ELSE item.amount

LEMMA GiveFacts ==
  ASSUME NEW s \in Slots, NEW item \in [id : Int, amount : Int, damage : Int],
         item.amount # 0 => item.id \in Nat \ {BLOCK.AIR}
  PROVE  /\ Give(s, item).slots \in Slots
         /\ Give(s, item).left \in Nat
         /\ Owned(Give(s, item).slots) = Owned(s) + Asked(item) - Give(s, item).left
<1>1. PICK what : what = IF item.amount < 0 THEN Left(item, GetMaxStack(item.id)) ELSE item
  OBVIOUS
<1>2. GetMaxStack(item.id) \in Nat
  BY MaxStack
<1>3. what \in Offer /\ what.amount = Asked(item)
  BY <1>1, <1>2 DEF Asked, Left, Offer
<1>4. Give(s, item) = SpreadToSlots(s, what)
  BY <1>1 DEF Give
<1>5. Given(SpreadToSlots(s, what), s, what)
  BY <1>3, SpreadToSlotsFacts
<1> QED BY <1>3, <1>4, <1>5 DEF Given

LEMMA OneSlot ==
  ASSUME NEW row \in Row, NEW c \in 0 .. COLS - 1, NEW x \in Item
  PROVE  /\ [row EXCEPT ![c] = x] \in Row
         /\ Amount([row EXCEPT ![c] = x]) = Amount(row) + x.amount - row[c].amount
<1>1. /\ COLS \in Nat \ {0} /\ IsRow(row) /\ Amount(row) \in Int
      /\ \A b \in 0 .. COLS - 1 : row[b] \in Item /\ row[b].amount \in Int
  BY RowFacts, PlayerAssumption
<1>2. x.amount \in Int
  BY ItemFacts
<1>3. PICK new : new = [row EXCEPT ![c] = x]
  OBVIOUS
<1>4. new \in Row /\ \A b \in 0 .. COLS - 1 : new[b] = IF b = c THEN x ELSE row[b]
  BY <1>3 DEF Row
<1>5. PICK more \in Int : more = x.amount - row[c].amount
  BY <1>1, <1>2
<1>6. PICK d : d = [k \in 0 .. COLS |-> IF k > c THEN more ELSE 0]
  OBVIOUS
<1>7. Changes(row, new, d)
  <2>1. Numbers(d, 0 .. COLS) /\ d[0] = 0
    BY <1>1, <1>6 DEF Numbers
  <2>2. ASSUME NEW k \in 1 .. COLS PROVE new[k - 1].amount = row[k - 1].amount + d[k] - d[k - 1]
    <3>1. PICK b \in 0 .. COLS - 1 : b = k - 1
      BY <1>1
    <3>2. b \in 0 .. COLS /\ k \in 0 .. COLS
      BY <1>1
    <3>3. CASE b = c
      <4>1. d[k] = more /\ d[b] = 0
        BY <1>6, <3>1, <3>2, <3>3
      <4>2. new[b].amount = row[b].amount + more
        BY <1>1, <1>2, <1>4, <1>5, <3>3
      <4> QED BY <1>1, <3>1, <4>1, <4>2
    <3>4. CASE b # c
      <4>1. d[k] = d[b] /\ d[b] \in Int
        BY <1>6, <3>1, <3>2, <3>4
      <4>2. new[b] = row[b]
        BY <1>4, <3>4
      <4> QED BY <1>1, <3>1, <4>1, <4>2
    <3> QED BY <3>3, <3>4
  <2> QED BY <2>1, <2>2 DEF Changes
<1>8. IsRow(new)
  BY <1>4, RowFacts
<1>9. Amount(new) = Amount(row) + d[COLS]
  BY <1>1, <1>7, <1>8, AmountChange
<1>10. d[COLS] = x.amount - row[c].amount
  BY <1>1, <1>5, <1>6
<1> QED BY <1>1, <1>2, <1>3, <1>4, <1>9, <1>10

(* What is placed is used up one by one, a hoe is worn. *)
LEMMA DecrementFacts ==
  ASSUME NEW s \in Slots, NEW c \in 0 .. COLS - 1, CanDecrementHotbar(s, c)
  PROVE  /\ GetHeldItem(s, c) \in Item
         /\ DecrementHotbar(s, c) \in Slots
         /\ Owned(DecrementHotbar(s, c)) = IF IsHoe(GetHeldItem(s, c).id) THEN Owned(s) ELSE Owned(s) - 1
<1>1. /\ s.hotbar \in Row /\ Amount(s.hotbar) \in Int /\ Stored(s.inventory) \in Int
      /\ s.inventory \in Rows /\ Owned(s) = Amount(s.hotbar) + Stored(s.inventory)
  BY SlotsAre
<1>2. PICK item \in Item : item = s.hotbar[c] /\ item = GetHeldItem(s, c)
  BY <1>1, RowFacts DEF GetHeldItem, GetSlot
<1>3. item.id > BLOCK.AIR /\ item.amount > 0 /\ item # NoItem
  BY <1>2 DEF CanDecrementHotbar, NoItem
<1>4. item.id \in Nat \ {BLOCK.AIR} /\ item.amount \in Nat \ {0} /\ item.damage \in Int
      /\ item.amount <= GetMaxStack(item.id)
      /\ item = [id |-> item.id, amount |-> item.amount, damage |-> item.damage]
  BY <1>3 DEF Item
<1>5. GetMaxStack(item.id) \in Nat
  BY MaxStack
<1>6. PICK used : used = IF IsHoe(item.id) THEN [item EXCEPT !.damage = @ - 1]
                         ELSE IF item.amount <= 1 THEN NoItem ELSE Left(item, item.amount - 1)
  OBVIOUS
<1>7. used \in Item /\ used.amount = IF IsHoe(item.id) THEN item.amount ELSE item.amount - 1
  <2>1. CASE IsHoe(item.id)
    <3>1. used = [id |-> item.id, amount |-> item.amount, damage |-> item.damage - 1]
      BY <1>4, <1>6, <2>1
    <3>2. used \in Item
      BY <1>4, <3>1 DEF Item
    <3> QED BY <2>1, <3>1, <3>2
  <2>2. CASE ~IsHoe(item.id) /\ item.amount <= 1
    <3>1. used = NoItem /\ item.amount = 1
      BY <1>4, <1>6, <2>2
    <3> QED BY <2>2, <3>1 DEF Item, NoItem
  <2>3. CASE ~IsHoe(item.id) /\ ~(item.amount <= 1)
    <3>1. used = [id |-> item.id, amount |-> item.amount - 1, damage |-> item.damage]
      BY <1>4, <1>6, <2>3 DEF Left
    <3>2. used \in Item
      BY <1>4, <1>5, <2>3, <3>1 DEF Item
    <3> QED BY <2>3, <3>1, <3>2
  <2> QED BY <2>1, <2>2, <2>3
<1>8. PICK row : row = [s.hotbar EXCEPT ![c] = used] /\ row \in Row
                 /\ Amount(row) = Amount(s.hotbar) + used.amount - item.amount
  BY <1>1, <1>2, <1>7, OneSlot
<1>9. DecrementHotbar(s, c) = [s EXCEPT !.hotbar = row]
  BY <1>2, <1>6, <1>8 DEF DecrementHotbar
<1>10. DecrementHotbar(s, c) \in Slots /\ Owned(DecrementHotbar(s, c)) = Amount(row) + Stored(s.inventory)
  BY <1>1, <1>8, <1>9, MakeSlots
<1> QED BY <1>1, <1>2, <1>4, <1>7, <1>8, <1>10

LEMMA NothingAmounts == EmptyRow(COLS) \in Row /\ Amount(EmptyRow(COLS)) = 0
<1>1. PICK row : row = EmptyRow(COLS)
  OBVIOUS
<1>2. row \in Row /\ \A c \in 0 .. COLS - 1 : row[c] = NoItem
  BY <1>1 DEF EmptyRow, Row, Item
<1>3. COLS \in Nat \ {0} /\ DOMAIN row = 0 .. COLS - 1
  BY <1>2, RowFacts, PlayerAssumption
<1>4. PICK w : w = [c \in DOMAIN row |-> row[c].amount]
  OBVIOUS
<1>5. PICK D : D = 0 .. 0 + COLS - 1 /\ D = 0 .. COLS - 1
  BY AmountIs, <1>3
<1>6. Amount(row) = SumFunctionOnSet(w, D)
  BY <1>3, <1>4, <1>5, AmountIs
<1>7. \A c \in D : w[c] = 0
  BY <1>2, <1>3, <1>4, <1>5 DEF NoItem
<1>8. Numbers(w, D) /\ 0 \in Int
  BY <1>7 DEF Numbers
<1>9. PICK p : SumsUp(p, w, 0, COLS) /\ SumFunctionOnSet(w, D) = p[COLS]
  BY <1>3, <1>5, <1>8, RunningSum
<1> DEFINE S == {k \in 0 .. COLS : p[k] = 0}
<1>10. 0 \in S
  BY <1>3, <1>9 DEF SumsUp
<1>11. ASSUME NEW k \in 1 .. COLS, k - 1 \in S PROVE k \in S
  <2>1. 0 + k - 1 \in D
    BY <1>3, <1>5
  <2>2. p[k] = p[k - 1] + w[0 + k - 1]
    BY <1>9 DEF SumsUp
  <2> QED BY <1>3, <1>7, <1>11, <2>1, <2>2
<1>12. 0 .. COLS \subseteq S
  <2> HIDE DEF S
  <2> QED BY <1>3, <1>10, <1>11, UpTo
<1>13. p[COLS] = 0
  BY <1>3, <1>12
<1> QED BY <1>1, <1>2, <1>6, <1>9, <1>13

LEMMA NothingStored ==
  ASSUME NEW inv \in Rows, \A r \in 1 .. ROWS : inv[r] = EmptyRow(COLS)
  PROVE  Stored(inv) = 0
<1>1. ROWS \in Nat \ {0} /\ DOMAIN inv = 1 .. ROWS
  BY RowsAre, PlayerAssumption
<1>2. PICK w : w = [r \in DOMAIN inv |-> Amount(inv[r])]
  OBVIOUS
<1>3. PICK D : D = 1 .. 1 + ROWS - 1 /\ D = 1 .. ROWS
  BY <1>1
<1>4. Stored(inv) = SumFunctionOnSet(w, D)
  <2>1. DOMAIN w = D
    BY <1>1, <1>2, <1>3
  <2> QED BY <1>2, <2>1 DEF Stored, SumFunction
<1>5. \A r \in D : w[r] = 0
  BY <1>1, <1>2, <1>3, NothingAmounts
<1>6. Numbers(w, D) /\ 1 \in Int
  BY <1>5 DEF Numbers
<1>7. PICK p : SumsUp(p, w, 1, ROWS) /\ SumFunctionOnSet(w, D) = p[ROWS]
  BY <1>1, <1>3, <1>6, RunningSum
<1> DEFINE S == {k \in 0 .. ROWS : p[k] = 0}
<1>8. 0 \in S
  BY <1>1, <1>7 DEF SumsUp
<1>9. ASSUME NEW k \in 1 .. ROWS, k - 1 \in S PROVE k \in S
  <2>1. 1 + k - 1 \in D
    BY <1>1, <1>3
  <2>2. p[k] = p[k - 1] + w[1 + k - 1]
    BY <1>7 DEF SumsUp
  <2> QED BY <1>1, <1>5, <1>9, <2>1, <2>2
<1>10. 0 .. ROWS \subseteq S
  <2> HIDE DEF S
  <2> QED BY <1>1, <1>8, <1>9, UpTo
<1>11. p[ROWS] = 0
  BY <1>1, <1>10
<1> QED BY <1>4, <1>7, <1>11

LEMMA ClearFacts ==
  ASSUME NEW s \in Slots
  PROVE  /\ ClearInventory(s) \in Slots
         /\ Owned(ClearInventory(s)) = Owned(s) - Stored(s.inventory)
<1>1. PICK h, i, a : /\ s = [hotbar |-> h, inventory |-> i, armor |-> a]
                     /\ h \in Row /\ i \in Rows /\ a \in [0 .. 3 -> {NoItem}]
                     /\ Amount(h) \in Int /\ Stored(i) \in Int /\ Owned(s) = Amount(h) + Stored(i)
  <2>1. /\ s = [hotbar |-> s.hotbar, inventory |-> s.inventory, armor |-> s.armor]
        /\ s.armor \in [0 .. 3 -> {NoItem}]
    BY DEF Slots
  <2> QED BY <2>1, SlotsAre
<1>2. PICK i2, a2 : i2 = ClearAllSlots(i) /\ a2 = ClearSlots(a)
  OBVIOUS
<1>3. a2 \in [0 .. 3 -> {NoItem}]
  BY <1>1, <1>2 DEF ClearSlots
<1>4. i2 \in Rows /\ \A r \in 1 .. ROWS : i2[r] = EmptyRow(COLS)
  <2>1. DOMAIN i = 1 .. ROWS /\ \A r \in 1 .. ROWS : DOMAIN i[r] = 0 .. COLS - 1
    BY <1>1, RowsAre, RowFacts
  <2>2. i2 = [r \in 1 .. ROWS |-> EmptyRow(COLS)]
    BY <1>2, <2>1 DEF ClearAllSlots, ClearSlots, EmptyRow
  <2> QED BY <2>2, NothingAmounts DEF Rows
<1>5. ClearInventory(s) = [hotbar |-> h, inventory |-> i2, armor |-> a2]
  <2>1. s.armor = a /\ s.inventory = i
    BY <1>1
  <2>2. PICK u : u = [s EXCEPT !.armor = a2]
    OBVIOUS
  <2>3. u = [hotbar |-> h, inventory |-> i, armor |-> a2]
    BY <1>1, <2>2
  <2>4. [u EXCEPT !.inventory = i2] = [hotbar |-> h, inventory |-> i2, armor |-> a2]
    BY <2>3
  <2>5. ClearInventory(s) = [s EXCEPT !.armor = a2, !.inventory = i2]
    BY <1>2, <2>1 DEF ClearInventory
  <2>6. ClearInventory(s) = [u EXCEPT !.inventory = i2]
    BY <2>2, <2>5
  <2> QED BY <2>4, <2>6
<1>6. [hotbar |-> h, inventory |-> i2, armor |-> a2] \in Slots
  BY <1>1, <1>3, <1>4 DEF Slots, Rows
<1>7. Owned([hotbar |-> h, inventory |-> i2, armor |-> a2]) = Amount(h) + 0
  BY <1>4, NothingStored DEF Owned
<1>8. s.inventory = i /\ Amount(h) + 0 = Owned(s) - Stored(i)
  BY <1>1
<1> QED BY <1>5, <1>6, <1>7, <1>8

LEMMA EmptyFacts == EmptySlots \in Slots
<1>1. EmptyRow(4) \in [0 .. 3 -> {NoItem}]
  BY DEF EmptyRow
<1>2. EmptyInventory(ROWS, COLS) \in Rows
  BY NothingAmounts DEF EmptyInventory, Rows
<1> QED BY <1>1, <1>2, NothingAmounts DEF EmptySlots, Slots, Rows

LEMMA StarterFacts ==
  ASSUME NEW n \in 1 .. Len(Starters)
  PROVE  StarterItem(n) \in [id : Int, amount : Int, damage : Int] /\ StarterItem(n).id \in Nat \ {BLOCK.AIR}
<1>1. /\ BLOCK.AIR = 0 /\ BLOCK.STONE = 1 /\ BLOCK.COBBLESTONE = 4 /\ BLOCK.PLANKS = 5
      /\ ITEM.PICKAXE_DIAMOND = 278 /\ ITEM.AXE_DIAMOND = 279 /\ ITEM.SHOVEL_DIAMOND = 277
  BY DEF BLOCK, ITEM
<1>2. PICK ids : ids = Starters
  OBVIOUS
<1>3. ids = <<278, 279, 277, 1, 4, 5>>
  BY <1>1, <1>2 DEF Starters
<1>4. n \in 1 .. 6
  BY <1>2, <1>3
<1>5. ids[n] \in {278, 279, 277, 1, 4, 5}
  BY <1>3, <1>4
<1>6. ids[n] \in Nat \ {0}
  BY <1>5
<1> QED BY <1>1, <1>2, <1>6 DEF StarterItem

LEMMA EquippedFacts == Equipped \in Slots
<1>1. PICK N : N = Len(Starters) /\ N = 6
  BY DEF Starters
<1> DEFINE body(f) == [n \in 0 .. N |-> IF n = 0 THEN EmptySlots ELSE Give(f[n - 1], StarterItem(n)).slots]
<1>2. \A n \in 1 .. N : \A s \in Slots : Give(s, StarterItem(n)).slots \in Slots
  BY <1>1, StarterFacts, GiveFacts
<1>3. PICK step : step = [n \in 1 .. N |-> [s \in Slots |-> Give(s, StarterItem(n)).slots]]
  OBVIOUS
<1>4. N \in Nat /\ Steps(step, N, Slots)
  <2>1. \A n \in 1 .. N : [s \in Slots |-> Give(s, StarterItem(n)).slots] \in [Slots -> Slots]
    BY <1>2
  <2> QED BY <1>1, <1>3, <2>1 DEF Steps
<1>5. PICK g : /\ g \in [0 .. N -> Slots] /\ g[0] = EmptySlots
               /\ \A n \in 1 .. N : g[n] = step[n][g[n - 1]]
  <2>1. PICK g : Iterates(g, N, Slots, EmptySlots, step)
    BY <1>4, EmptyFacts, Iteration
  <2> QED BY <2>1 DEF Iterates
<1>6. ASSUME NEW n \in 1 .. N PROVE g[n] = Give(g[n - 1], StarterItem(n)).slots
  <2>1. n - 1 \in 0 .. N /\ g[n - 1] \in Slots
    BY <1>4, <1>5
  <2> QED BY <1>3, <1>5, <2>1
<1>7. g = body(g)
  BY <1>4, <1>5, <1>6
<1>8. PICK after : after = CHOOSE f : f = body(f)
  OBVIOUS
<1>9. after = body(after)
  <2> HIDE DEF body
  <2> QED BY <1>7, <1>8
<1>10. Equipped = after[N]
  BY <1>1, <1>8 DEF Equipped
<1>11. after[0] = EmptySlots /\ \A n \in 1 .. N : after[n] = Give(after[n - 1], StarterItem(n)).slots
  BY <1>4, <1>9
<1>12. PICK S : S = {n \in 0 .. N : after[n] \in Slots}
  OBVIOUS
<1>13. 0 \in S
  BY <1>4, <1>11, <1>12, EmptyFacts
<1>14. ASSUME NEW n \in 1 .. N, n - 1 \in S PROVE n \in S
  <2>1. after[n] \in Slots
    BY <1>2, <1>11, <1>12, <1>14
  <2> QED BY <1>4, <1>12, <2>1
<1>15. 0 .. N \subseteq S
  BY <1>4, <1>13, <1>14, UpTo
<1> QED BY <1>4, <1>10, <1>12, <1>15

(* What a broken block gives is something, or nothing at all. *)
LEMMA DropFacts ==
  ASSUME NEW type \in 0 .. BLOCK.MAX, NEW meta \in 0 .. 15
  PROVE  /\ GetDrop(type, meta) \in [id : Int, amount : Int, damage : Int]
         /\ GetDrop(type, meta).amount # 0 => GetDrop(type, meta).id \in Nat \ {BLOCK.AIR}
         /\ Asked(GetDrop(type, meta)) = GetDrop(type, meta).amount
<1>1. CASE NoDrop(type)
  BY <1>1 DEF GetDrop, NoItem, SLOT_EMPTY, Asked
<1>2. CASE ~NoDrop(type)
  <2>1. BLOCK.AIR = 0 /\ BLOCK.MAX = 97 /\ type \in Nat
    BY DEF BLOCK
  <2>2. type # BLOCK.AIR
    BY <1>2 DEF NoDrop
  <2>3. DropId(type, meta) \in Nat \ {0}
    <3>1. /\ BLOCK.COBBLESTONE = 4 /\ BLOCK.DIRT = 3 /\ BLOCK.SAPLING = 6 /\ BLOCK.REDSTONE_TORCH_ON = 76
          /\ BLOCK.REDSTONE_REPEATER_OFF = 93 /\ BLOCK.SLAB = 44
      BY DEF BLOCK
    <3>2. /\ ITEM.SEEDS_WHEAT = 295 /\ ITEM.WHEAT = 296 /\ ITEM.SUGARCANE = 338 /\ ITEM.COAL = 263
          /\ ITEM.DYE = 351 /\ ITEM.BED = 355 /\ ITEM.REDSTONE = 331 /\ ITEM.DIAMOND = 264
          /\ ITEM.SIGN = 323 /\ ITEM.DOOR_WOOD = 324 /\ ITEM.DOOR_IRON = 330 /\ ITEM.CLAY = 337
          /\ ITEM.GLOWSTONE_DUST = 348
      BY DEF ITEM
    <3> QED BY <2>1, <2>2, <3>1, <3>2 DEF DropId
  <2>4. PICK n, m : /\ n = DropAmount(type) /\ n \in Nat \ {0} /\ m \in Int
                    /\ m = IF type = BLOCK.ORE_LAPIS_LAZULI THEN 4 ELSE IF KeepDamageOnDrop(type) THEN meta ELSE 0
    BY DEF DropAmount
  <2>5. GetDrop(type, meta) = [id |-> DropId(type, meta), amount |-> n, damage |-> m]
    BY <1>2, <2>4 DEF GetDrop
  <2> QED BY <2>1, <2>3, <2>4, <2>5 DEF Asked
<1> QED BY <1>1, <1>2

-----------------------------------------------------------------------------
(* The numbering of the slots. *)

LEMMA Division ==
  ASSUME NEW w \in Nat \ {0}
  PROVE  /\ \A r \in Nat, c \in 0 .. w - 1 : (r * w + c) \div w = r /\ (r * w + c) % w = c
         /\ \A n \in Nat : \E r \in Nat, c \in 0 .. w - 1 : n = r * w + c
<1>1. ASSUME NEW r \in Nat, NEW c \in 0 .. w - 1
      PROVE  (r * w + c) \div w = r /\ (r * w + c) % w = c
  <2>1. (r * w + c) \div w = r
    OBVIOUS
  <2>2. (r * w + c) % w = c
    OBVIOUS
  <2> QED BY <2>1, <2>2
<1>2. ASSUME NEW n \in Nat PROVE \E r \in Nat, c \in 0 .. w - 1 : n = r * w + c
  <2>1. PICK r, c : r = n \div w /\ c = n % w
    OBVIOUS
  <2>2. r \in Int
    BY <2>1
  <2>3. c \in 0 .. w - 1
    BY <2>1
  <2>4. n = r * w + c
    BY <2>1
  <2>5. r >= 0
    <3> SUFFICES ASSUME r <= -1 PROVE FALSE
      BY <2>2
    <3>1. (-1 - r) * w >= 0
      BY <2>2
    <3>2. (-1 - r) * w = -w - r * w
      BY <2>2
    <3>3. r * w \in Int
      BY <2>2
    <3> QED BY <2>3, <2>4, <3>1, <3>2, <3>3
  <2> QED BY <2>2, <2>3, <2>4, <2>5
<1> QED BY <1>1, <1>2

LEMMA Rising ==
  ASSUME NEW w \in Nat \ {0}, NEW m \in Nat, NEW r \in Nat
  PROVE  /\ r * w \in Nat /\ m * w \in Nat
         /\ r < m => r * w + w <= m * w
         /\ r * w < m * w => r < m
         /\ (r + 1) * w = r * w + w
<1>1. r * w \in Nat /\ m * w \in Nat
  OBVIOUS
<1>2. ASSUME r < m PROVE r * w + w <= m * w
  <2>1. m - r - 1 \in Nat
    BY <1>2
  <2>2. (m - r - 1) * w >= 0
    BY <2>1
  <2>3. (m - r - 1) * w = m * w - r * w - w
    OBVIOUS
  <2> QED BY <1>1, <2>2, <2>3
<1>3. ASSUME r * w < m * w, r >= m PROVE FALSE
  <2>1. r - m \in Nat
    BY <1>3
  <2>2. (r - m) * w >= 0
    BY <2>1
  <2>3. (r - m) * w = r * w - m * w
    OBVIOUS
  <2> QED BY <1>1, <1>3, <2>2, <2>3
<1>4. (r + 1) * w = r * w + w
  OBVIOUS
<1> QED BY <1>1, <1>2, <1>3, <1>4

(* What is under a number of a player's file. *)
Under(nbt, n) == IF n \in DOMAIN nbt THEN nbt[n] ELSE NoItem

(* Row r of the file, of which row 0 is the hotbar. *)
FileRow(nbt, r) == [c \in 0 .. COLS - 1 |-> Under(nbt, r * COLS + c)]

FileRows(nbt) == [r \in 1 .. ROWS |-> FileRow(nbt, r)]

Numbered == 0 .. (ROWS + 1) * COLS - 1

LEMMA Sizes ==
  /\ COLS \in Nat \ {0} /\ ROWS \in Nat \ {0} /\ ROWS + 1 \in Nat
  /\ COLS * ROWS \in Nat /\ COLS * ROWS = ROWS * COLS
  /\ (ROWS + 1) * COLS \in Nat /\ (ROWS + 1) * COLS <= ARMOR_SLOT
<1>1. COLS \in Nat \ {0} /\ ROWS \in Nat \ {0} /\ COLS * (ROWS + 1) <= ARMOR_SLOT
  BY PlayerAssumption
<1>2. COLS * ROWS \in Nat /\ COLS * ROWS = ROWS * COLS /\ (ROWS + 1) * COLS = COLS * (ROWS + 1)
      /\ COLS * (ROWS + 1) \in Nat
  BY <1>1
<1> QED BY <1>1, <1>2

(* What a file is loaded as. *)
LEMMA LoadFacts ==
  ASSUME NEW nbt, nbt \in [DOMAIN nbt -> Item]
  PROVE  /\ SlotsOf(nbt) = [hotbar |-> FileRow(nbt, 0), inventory |-> FileRows(nbt),
                            armor |-> [c \in 0 .. 3 |-> NoItem]]
         /\ \A r : FileRow(nbt, r) \in Row
         /\ SlotsOf(nbt) \in Slots
<1>1. \A n : Under(nbt, n) \in Item
  BY DEF Under, Item
<1>2. COLS \in Nat \ {0} /\ ROWS \in Nat \ {0} /\ COLS * ROWS \in Nat /\ COLS * ROWS = ROWS * COLS
  BY Sizes
<1>3. \A r : FileRow(nbt, r) \in Row
  BY <1>1 DEF FileRow, Row
<1>4. PICK f : f = [n \in 0 .. COLS * ROWS - 1 |-> Under(nbt, n + COLS)]
  OBVIOUS
<1>5. SetLinearSlots(COLS, f) = FileRows(nbt)
  <2>1. Cardinality(DOMAIN f) = COLS * ROWS
    <3>1. 0 \in Int /\ COLS * ROWS - 1 \in Int
      BY <1>2
    <3>2. Cardinality(0 .. COLS * ROWS - 1) =
            IF 0 > COLS * ROWS - 1 THEN 0 ELSE (COLS * ROWS - 1) - 0 + 1
      BY <3>1, FS_Interval, Zenon
    <3> QED BY <1>2, <1>4, <3>2
  <2>2. (Cardinality(DOMAIN f) + COLS - 1) \div COLS = ROWS
    <3>1. COLS - 1 \in 0 .. COLS - 1
      BY <1>2
    <3>2. (ROWS * COLS + (COLS - 1)) \div COLS = ROWS
      BY <1>2, <3>1, Division
    <3>3. Cardinality(DOMAIN f) + COLS - 1 = ROWS * COLS + (COLS - 1)
      BY <1>2, <2>1
    <3> QED BY <3>2, <3>3
  <2>3. ASSUME NEW r \in 1 .. ROWS, NEW c \in 0 .. COLS - 1
        PROVE  GetSlot(f, (r - 1) * COLS + c) = Under(nbt, r * COLS + c)
    <3>1. r - 1 \in Nat /\ r - 1 < ROWS /\ (r - 1) + 1 = r
      BY <1>2
    <3>2. /\ (r - 1) * COLS \in Nat /\ (r - 1) * COLS + COLS <= ROWS * COLS
          /\ r * COLS = (r - 1) * COLS + COLS
      BY <1>2, <3>1, Rising
    <3>3. PICK n : n = (r - 1) * COLS + c
      OBVIOUS
    <3>4. n \in 0 .. COLS * ROWS - 1 /\ n + COLS = r * COLS + c
      BY <1>2, <3>2, <3>3
    <3> QED BY <1>4, <3>3, <3>4 DEF GetSlot
  <2> QED BY <2>2, <2>3 DEF SetLinearSlots, FileRows, FileRow
<1>6. SlotsOf(nbt) = [hotbar |-> FileRow(nbt, 0), inventory |-> FileRows(nbt),
                      armor |-> [c \in 0 .. 3 |-> NoItem]]
  <2>1. \A c \in 0 .. COLS - 1 : 0 * COLS + c = c
    BY <1>2
  <2>2. FileRow(nbt, 0) = [c \in 0 .. COLS - 1 |-> Under(nbt, c)]
    BY <2>1 DEF FileRow
  <2>3. [c \in 0 .. 3 |-> IF c >= ARMOR_SLOT THEN Under(nbt, c) ELSE NoItem] = [c \in 0 .. 3 |-> NoItem]
    BY DEF ARMOR_SLOT
  <2>4. SlotsOf(nbt) = [ hotbar |-> [c \in 0 .. COLS - 1 |-> Under(nbt, c)],
                         inventory |-> SetLinearSlots(COLS, [n \in 0 .. COLS * ROWS - 1 |-> Under(nbt, n + COLS)]),
                         armor |-> [c \in 0 .. 3 |-> IF c >= ARMOR_SLOT THEN Under(nbt, c) ELSE NoItem] ]
    BY Zenon DEF SlotsOf, Under
  <2> QED BY <1>4, <1>5, <2>2, <2>3, <2>4
<1>7. FileRows(nbt) \in Rows
  BY <1>3 DEF FileRows, Rows
<1>8. SlotsOf(nbt) \in Slots
  BY <1>3, <1>6, <1>7 DEF Slots, Rows
<1> QED BY <1>3, <1>6, <1>8

(* What is saved is what is loaded. *)
LEMMA SaveFacts ==
  ASSUME NEW s \in Slots
  PROVE  /\ NbtSlots(s) \in [DOMAIN NbtSlots(s) -> Item]
         /\ DOMAIN NbtSlots(s) \subseteq Numbered
         /\ SlotsOf(NbtSlots(s)) = s
<1>1. /\ COLS \in Nat \ {0} /\ ROWS \in Nat \ {0} /\ ROWS + 1 \in Nat
      /\ (ROWS + 1) * COLS \in Nat /\ (ROWS + 1) * COLS <= ARMOR_SLOT
  BY Sizes
<1>2. PICK h, i : /\ h = s.hotbar /\ i = s.inventory /\ h \in Row /\ i \in Rows
                  /\ s = [hotbar |-> h, inventory |-> i, armor |-> [c \in 0 .. 3 |-> NoItem]]
  BY SlotsAre
<1>3. DOMAIN i = 1 .. ROWS /\ Len(i) = ROWS /\ i \in Seq(Row) /\ \A r \in 1 .. ROWS : i[r] \in Row
  <2>1. i \in Seq(Row)
    BY <1>1, <1>2 DEF Rows
  <2> QED BY <1>2, <2>1, RowsAre
<1>4. PICK rows : rows = <<h>> \o i
  OBVIOUS
<1>5. /\ Len(rows) = ROWS + 1
      /\ rows[1] = h /\ \A r \in 1 .. ROWS : rows[r + 1] = i[r]
      /\ \A r \in 0 .. ROWS : rows[r + 1] \in Row
  <2>1. PICK one : one = <<h>> /\ one \in Seq(Row) /\ Len(one) = 1 /\ one[1] = h
    <3>1. <<h>> \in Seq(Row)
      BY <1>2
    <3>2. Len(<<h>>) = 1
      OBVIOUS
    <3>3. <<h>>[1] = h
      OBVIOUS
    <3> QED BY <3>1, <3>2, <3>3, Zenon
  <2>2. rows = one \o i
    BY <1>4, <2>1
  <2>3. Len(rows) = Len(one) + Len(i)
    BY <1>3, <2>1, <2>2, ConcatProperties
  <2>4. rows[1] = h
    BY <1>1, <1>3, <2>1, <2>2, ConcatProperties
  <2>5. ASSUME NEW r \in 1 .. ROWS PROVE rows[r + 1] = i[r]
    <3>1. r + 1 \in 1 .. Len(one) + Len(i) /\ ~(r + 1 <= Len(one)) /\ (r + 1) - Len(one) = r
      BY <1>1, <1>3, <2>1
    <3>2. rows[r + 1] = i[(r + 1) - Len(one)]
      BY <1>3, <2>1, <2>2, <3>1, ConcatProperties
    <3> QED BY <3>1, <3>2
  <2>6. ASSUME NEW r \in 0 .. ROWS PROVE rows[r + 1] \in Row
    <3>1. CASE r = 0
      <4>1. r + 1 = 1
        BY <3>1
      <4> QED BY <1>2, <2>4, <4>1
    <3>2. CASE r # 0
      <4>1. r \in 1 .. ROWS
        BY <1>1, <3>2
      <4> QED BY <1>3, <2>5, <4>1
    <3> QED BY <3>1, <3>2
  <2>7. Len(rows) = ROWS + 1
    BY <1>1, <1>3, <2>1, <2>3
  <2> QED BY <2>4, <2>5, <2>6, <2>7
<1>6. PICK main : main = GetLinearSlots(rows, COLS)
  OBVIOUS
<1>7. /\ DOMAIN main = Numbered
      /\ \A n \in Numbered : main[n] = rows[n \div COLS + 1][n % COLS]
  BY <1>5, <1>6 DEF GetLinearSlots, Numbered
<1>8. ASSUME NEW r \in 0 .. ROWS, NEW c \in 0 .. COLS - 1
      PROVE  r * COLS + c \in Numbered /\ main[r * COLS + c] = rows[r + 1][c]
  <2>1. r \in Nat /\ r < ROWS + 1
    BY <1>1
  <2>2. (r * COLS + c) \div COLS = r /\ (r * COLS + c) % COLS = c
    BY <1>1, <2>1, Division
  <2>3. r * COLS \in Nat /\ r * COLS + COLS <= (ROWS + 1) * COLS
    BY <1>1, <2>1, Rising
  <2>4. r * COLS + c \in Numbered
    BY <1>1, <2>3 DEF Numbered
  <2> QED BY <1>7, <2>2, <2>4
<1>9. ASSUME NEW n \in Numbered PROVE main[n] \in Item
  <2>1. PICK r \in Nat, c \in 0 .. COLS - 1 : n = r * COLS + c
    <3>1. n \in Nat
      BY <1>1 DEF Numbered
    <3> QED BY <1>1, <3>1, Division
  <2>2. r \in 0 .. ROWS
    <3>1. r * COLS \in Nat /\ r * COLS < (ROWS + 1) * COLS
      BY <1>1, <2>1, Rising DEF Numbered
    <3>2. r < ROWS + 1
      BY <1>1, <3>1, Rising
    <3> QED BY <1>1, <3>2
  <2>3. main[n] = rows[r + 1][c] /\ rows[r + 1] \in Row
    BY <1>5, <1>8, <2>1, <2>2
  <2> QED BY <2>3 DEF Row
<1>10. PICK nbt : nbt = NbtSlots(s)
  OBVIOUS
<1>11. /\ DOMAIN nbt = Used(main) /\ Used(main) \subseteq Numbered
       /\ \A n \in Used(main) : nbt[n] = main[n]
       /\ nbt = [n \in Used(main) |-> main[n]]
  <2>1. PICK armor : armor = [n \in ARMOR_SLOT .. ARMOR_SLOT + 3 |-> s.armor[n - ARMOR_SLOT]]
    OBVIOUS
  <2>2. \A n \in ARMOR_SLOT .. ARMOR_SLOT + 3 : armor[n] = NoItem
    BY <1>2, <2>1 DEF ARMOR_SLOT
  <2>3. Used(armor) = {}
    BY <2>1, <2>2 DEF Used, NoItem
  <2>4. Used(main) \subseteq Numbered /\ \A n \in Used(main) : n < ARMOR_SLOT
    BY <1>1, <1>7 DEF Used, Numbered, ARMOR_SLOT
  <2>5. nbt = [n \in Used(main) \cup Used(armor) |-> IF n < ARMOR_SLOT THEN main[n] ELSE armor[n]]
    BY <1>2, <1>4, <1>6, <1>10, <2>1 DEF NbtSlots
  <2>6. Used(main) \cup Used(armor) = Used(main)
    BY <2>3
  <2>7. nbt = [n \in Used(main) |-> main[n]]
    BY <2>4, <2>5, <2>6
  <2> QED BY <2>4, <2>7
<1>12. nbt \in [DOMAIN nbt -> Item]
  BY <1>9, <1>11
<1>13. \A n \in Numbered : Under(nbt, n) = main[n]
  <2> SUFFICES ASSUME NEW n \in Numbered PROVE Under(nbt, n) = main[n]
    OBVIOUS
  <2>1. CASE n \in Used(main)
    BY <1>11, <2>1 DEF Under
  <2>2. CASE n \notin Used(main)
    <3>1. main[n].id = SLOT_EMPTY
      BY <1>7, <2>2 DEF Used
    <3>2. main[n] = NoItem
      BY <1>9, <3>1, ItemFacts
    <3> QED BY <1>11, <2>2, <3>2 DEF Under
  <2> QED BY <2>1, <2>2
<1>14. ASSUME NEW r \in 0 .. ROWS PROVE FileRow(nbt, r) = rows[r + 1]
  <2>1. rows[r + 1] \in Row
    BY <1>5
  <2>2. rows[r + 1] = [c \in 0 .. COLS - 1 |-> rows[r + 1][c]]
    BY <2>1 DEF Row
  <2>3. \A c \in 0 .. COLS - 1 : Under(nbt, r * COLS + c) = rows[r + 1][c]
    BY <1>8, <1>13
  <2> QED BY <2>2, <2>3 DEF FileRow
<1>15. FileRow(nbt, 0) = h
  <2>1. 0 \in 0 .. ROWS /\ 0 + 1 = 1
    BY <1>1
  <2> QED BY <1>5, <1>14, <2>1
<1>16. FileRows(nbt) = i
  <2>1. \A r \in 1 .. ROWS : r \in 0 .. ROWS /\ FileRow(nbt, r) = i[r]
    BY <1>1, <1>5, <1>14
  <2>2. i = [r \in 1 .. ROWS |-> i[r]]
    BY <1>2 DEF Rows
  <2> QED BY <2>1, <2>2 DEF FileRows
<1>17. SlotsOf(nbt) = s
  BY <1>2, <1>12, <1>15, <1>16, LoadFacts
<1> QED BY <1>10, <1>11, <1>12, <1>17

-----------------------------------------------------------------------------
(* What a file holds is what the player has who is loaded from it. *)

LEMMA SumIs ==
  ASSUME NEW n \in Nat, NEW lo \in Int, NEW D, Run(D, lo, n), NEW w, Numbers(w, D),
         NEW p, SumsUp(p, w, lo, n)
  PROVE  SumFunctionOnSet(w, D) = p[n]
<1> USE DEF Run
<1>1. PICK q : SumsUp(q, w, lo, n) /\ SumFunctionOnSet(w, D) = q[n]
  BY RunningSum
<1> DEFINE S == {k \in 0 .. n : q[k] = p[k]}
<1>2. 0 \in S
  BY <1>1 DEF SumsUp
<1>3. ASSUME NEW k \in 1 .. n, k - 1 \in S PROVE k \in S
  BY <1>1, <1>3 DEF SumsUp
<1>4. 0 .. n \subseteq S
  <2> HIDE DEF S
  <2> QED BY <1>2, <1>3, UpTo
<1> QED BY <1>1, <1>4

Extends(v, D, w, S) == \A x \in D : v[x] = IF x \in S THEN w[x] ELSE 0

(* What counts nothing can be counted, too. *)
LEMMA SumOfSome ==
  ASSUME NEW D, IsFiniteSet(D), NEW S \in SUBSET D, NEW w, Numbers(w, S), NEW v, Extends(v, D, w, S)
  PROVE  SumFunctionOnSet(w, S) = SumFunctionOnSet(v, D)
<1>1. IsFiniteSet(S) /\ Numbers(v, D)
  BY FS_Subset DEF Numbers, Extends
<1>2. PICK f : SetSums(f, w, S)
  BY <1>1, SumOnSets
<1>3. PICK g : SetSums(g, v, D)
  BY <1>1, SumOnSets
<1>4. /\ f \in [SUBSET S -> Int] /\ f[{}] = 0
      /\ \A s \in SUBSET S : \A x \in s : f[s] = w[x] + f[s \ {x}]
      /\ SumFunctionOnSet(w, S) = f[S]
  BY <1>2 DEF SetSums, Counts
<1>5. /\ g[{}] = 0
      /\ \A s \in SUBSET D : \A x \in s : g[s] = v[x] + g[s \ {x}]
      /\ SumFunctionOnSet(v, D) = g[D]
  BY <1>3 DEF SetSums, Counts
<1> DEFINE Good == {s \in SUBSET D : g[s] = f[s \cap S]}
<1>6. ASSUME NEW s \in SUBSET D, \A x \in s : s \ {x} \in Good PROVE s \in Good
  <2>1. CASE s = {}
    BY <1>4, <1>5, <2>1
  <2>2. CASE s # {}
    <3>1. PICK x : x \in s
      BY <2>2
    <3>2. PICK t : t = s \cap S /\ t \in SUBSET S
      OBVIOUS
    <3>3. g[s] = v[x] + f[(s \ {x}) \cap S]
      BY <1>5, <1>6, <3>1
    <3>4. CASE x \in S
      <4>1. (s \ {x}) \cap S = t \ {x} /\ x \in t
        BY <3>1, <3>2, <3>4
      <4>2. v[x] = w[x]
        BY <3>1, <3>4 DEF Extends
      <4>3. f[t] = w[x] + f[t \ {x}]
        BY <1>4, <3>2, <4>1
      <4> QED BY <3>2, <3>3, <4>1, <4>2, <4>3
    <3>5. CASE x \notin S
      <4>1. (s \ {x}) \cap S = t
        BY <3>2, <3>5
      <4>2. v[x] = 0
        BY <3>1, <3>5 DEF Extends
      <4>3. f[t] \in Int
        BY <1>4, <3>2
      <4>4. g[s] = 0 + f[t]
        BY <3>3, <4>1, <4>2
      <4>5. g[s] = f[t]
        BY <4>3, <4>4
      <4> QED BY <3>2, <4>5
    <3> QED BY <3>4, <3>5
  <2> QED BY <2>1, <2>2
<1>7. D \in Good
  <2>1. FromOneLess(D, Good)
    <3> HIDE DEF Good
    <3> QED BY <1>6 DEF FromOneLess
  <2>2. D \in SUBSET D
    OBVIOUS
  <2> HIDE DEF Good
  <2> QED BY <2>1, <2>2, BySize
<1>8. D \cap S = S
  OBVIOUS
<1> QED BY <1>4, <1>5, <1>7, <1>8

(* A file a player is loaded from. *)
Loadable(nbt) ==
  /\ nbt \in [DOMAIN nbt -> Item]
  /\ DOMAIN nbt \subseteq Numbered \cup ARMOR_SLOT .. ARMOR_SLOT + 3

LEMMA LoadedAmount ==
  ASSUME NEW nbt, Loadable(nbt)
  PROVE  Owned(SlotsOf(nbt)) = Amount(Restrict(nbt, {n \in DOMAIN nbt : n < ARMOR_SLOT}))
<1>1. PICK S : S = {n \in DOMAIN nbt : n < ARMOR_SLOT}
  OBVIOUS
<1>2. PICK N : N = (ROWS + 1) * COLS /\ N \in Nat /\ N <= ARMOR_SLOT /\ Numbered = 0 .. N - 1
  BY Sizes DEF Numbered
<1>3. /\ COLS \in Nat \ {0} /\ ROWS \in Nat \ {0}
      /\ ROWS * COLS \in Nat /\ N = ROWS * COLS + COLS
  BY <1>2, Sizes, Rising
<1>4. S \in SUBSET Numbered
  BY <1>1, <1>2 DEF Loadable, ARMOR_SLOT
<1>5. PICK w : w = [n \in S |-> nbt[n].amount]
  OBVIOUS
<1>6. PICK v : v = [n \in Numbered |-> Under(nbt, n).amount]
  OBVIOUS
<1>7. \A n : Under(nbt, n) \in Item /\ Under(nbt, n).amount \in Int
  <2>1. \A n : Under(nbt, n) \in Item
    BY DEF Under, Item, Loadable
  <2> QED BY <2>1, ItemFacts
<1>8. Numbers(w, S) /\ Numbers(v, Numbered)
  <2>1. \A n \in S : w[n] = Under(nbt, n).amount
    BY <1>1, <1>5 DEF Under
  <2> QED BY <1>6, <1>7, <2>1 DEF Numbers
<1>9. Extends(v, Numbered, w, S)
  <2> SUFFICES ASSUME NEW n \in Numbered PROVE v[n] = IF n \in S THEN w[n] ELSE 0
    BY DEF Extends
  <2>1. n \in Nat /\ n < ARMOR_SLOT
    BY <1>2 DEF ARMOR_SLOT
  <2>2. n \in S <=> n \in DOMAIN nbt
    BY <1>1, <2>1
  <2>3. v[n] = Under(nbt, n).amount
    BY <1>6
  <2> QED BY <1>5, <2>2, <2>3 DEF Under, NoItem
<1>10. Amount(Restrict(nbt, S)) = SumFunctionOnSet(w, S)
  <2>1. PICK part : part = Restrict(nbt, S)
    OBVIOUS
  <2>2. DOMAIN part = S /\ \A n \in S : part[n] = nbt[n]
    BY <2>1 DEF Restrict
  <2>3. [n \in DOMAIN part |-> part[n].amount] = w /\ DOMAIN w = S
    BY <1>5, <2>2
  <2> QED BY <2>1, <2>3 DEF Amount, SumFunction
<1>11. IsFiniteSet(Numbered)
  BY <1>2, FS_Interval
<1>12. SumFunctionOnSet(w, S) = SumFunctionOnSet(v, Numbered)
  BY <1>4, <1>8, <1>9, <1>11, SumOfSome
<1>13. PICK p : SumsUp(p, v, 0, N) /\ SumFunctionOnSet(v, Numbered) = p[N]
  <2>1. PICK D : D = 0 .. 0 + N - 1 /\ D = Numbered
    BY <1>2
  <2>2. Numbers(v, 0 .. 0 + N - 1) /\ 0 \in Int
    BY <1>8, <2>1
  <2>3. \E p : SumsUp(p, v, 0, N) /\ SumFunctionOnSet(v, 0 .. 0 + N - 1) = p[N]
    BY <1>2, <2>2, RunningSum
  <2> QED BY <2>1, <2>3
<1>14. /\ p \in [0 .. N -> Int] /\ p[0] = 0
       /\ \A n \in 0 .. N - 1 : p[n + 1] = p[n] + Under(nbt, n).amount
  <2>1. p \in [0 .. N -> Int] /\ p[0] = 0 /\ \A k \in 1 .. N : p[k] = p[k - 1] + v[0 + k - 1]
    BY <1>13 DEF SumsUp
  <2>2. ASSUME NEW n \in 0 .. N - 1 PROVE p[n + 1] = p[n] + Under(nbt, n).amount
    <3>1. n + 1 \in 1 .. N /\ (n + 1) - 1 = n /\ 0 + (n + 1) - 1 = n
      BY <1>2
    <3>2. v[n] = Under(nbt, n).amount
      BY <1>2, <1>6
    <3> QED BY <2>1, <3>1, <3>2
  <2> QED BY <2>1, <2>2
<1>15. ASSUME NEW r \in 0 .. ROWS
       PROVE  /\ r * COLS \in Nat /\ r * COLS + COLS \in 0 .. N
              /\ Amount(FileRow(nbt, r)) = p[r * COLS + COLS] - p[r * COLS]
  <2>1. PICK b : b = r * COLS /\ b \in Nat /\ b + COLS <= N
    <3>1. r \in Nat /\ r < ROWS + 1
      BY <1>3
    <3> QED BY <1>2, <1>3, <3>1, Rising
  <2>2. PICK row : row = FileRow(nbt, r)
    OBVIOUS
  <2>3. DOMAIN row = 0 .. COLS - 1 /\ \A c \in 0 .. COLS - 1 : row[c] = Under(nbt, b + c)
    BY <2>1, <2>2 DEF FileRow
  <2>4. PICK u : u = [c \in DOMAIN row |-> row[c].amount]
    OBVIOUS
  <2>5. PICK D : D = 0 .. 0 + COLS - 1 /\ D = 0 .. COLS - 1 /\ Amount(row) = SumFunctionOnSet(u, D)
    BY <2>3, <2>4, AmountIs
  <2>6. PICK q : q = [k \in 0 .. COLS |-> p[b + k] - p[b]]
    OBVIOUS
  <2>7. SumsUp(q, u, 0, COLS)
    <3>1. \A k \in 0 .. COLS : b + k \in 0 .. N
      BY <1>2, <1>3, <2>1
    <3>2. q \in [0 .. COLS -> Int]
      <4>1. 0 \in 0 .. COLS /\ b + 0 = b
        BY <1>3, <2>1
      <4>2. b \in 0 .. N
        BY <3>1, <4>1
      <4> QED BY <1>14, <2>6, <3>1, <4>2
    <3>3. q[0] = 0
      <4>1. 0 \in 0 .. COLS /\ b + 0 = b /\ b \in 0 .. N
        BY <1>2, <1>3, <2>1
      <4> QED BY <1>14, <2>6, <4>1
    <3>4. ASSUME NEW k \in 1 .. COLS PROVE q[k] = q[k - 1] + u[0 + k - 1]
      <4>1. k - 1 \in 0 .. COLS - 1 /\ 0 + k - 1 = k - 1 /\ k \in 0 .. COLS /\ k - 1 \in 0 .. COLS
        BY <1>3
      <4>2. PICK n : n = b + (k - 1) /\ n \in 0 .. N - 1 /\ n + 1 = b + k
        BY <1>2, <1>3, <2>1
      <4>3. u[k - 1] = Under(nbt, n).amount
        BY <2>3, <2>4, <4>1, <4>2
      <4>4. q[k] = p[n + 1] - p[b] /\ q[k - 1] = p[n] - p[b]
        BY <2>6, <4>1, <4>2
      <4>5. p[n + 1] = p[n] + Under(nbt, n).amount
        BY <1>14, <4>2
      <4>6. p[n] \in Int /\ p[b] \in Int /\ Under(nbt, n).amount \in Int
        <5>1. n \in 0 .. N /\ b \in 0 .. N
          BY <1>2, <1>3, <2>1, <4>2
        <5> QED BY <1>7, <1>14, <5>1
      <4> QED BY <4>1, <4>3, <4>4, <4>5, <4>6
    <3> QED BY <3>2, <3>3, <3>4 DEF SumsUp
  <2>8. Numbers(u, D) /\ Run(D, 0, COLS) /\ 0 \in Int /\ COLS \in Nat
    BY <1>3, <1>7, <2>3, <2>4, <2>5 DEF Numbers, Run
  <2>9. SumFunctionOnSet(u, D) = q[COLS]
    BY <2>7, <2>8, SumIs
  <2>10. q[COLS] = p[b + COLS] - p[b]
    BY <1>3, <2>6
  <2>11. b + COLS \in 0 .. N
    BY <1>2, <1>3, <2>1
  <2> QED BY <2>1, <2>2, <2>5, <2>9, <2>10, <2>11
<1>16. PICK q : q = [r \in 0 .. ROWS |-> p[r * COLS + COLS] - p[COLS]]
  OBVIOUS
<1>17. 0 * COLS = 0 /\ 0 + COLS = COLS /\ 0 \in 0 .. ROWS /\ ROWS \in 0 .. ROWS /\ COLS \in 0 .. N /\ 0 \in 0 .. N
  BY <1>2, <1>3
<1>18. SumsUp(q, [r \in 1 .. ROWS |-> Amount(FileRow(nbt, r))], 1, ROWS)
  <2>1. q \in [0 .. ROWS -> Int]
    <3>1. \A r \in 0 .. ROWS : p[r * COLS + COLS] \in Int /\ p[COLS] \in Int
      BY <1>14, <1>15, <1>17
    <3> QED BY <1>16, <3>1
  <2>2. q[0] = 0
    <3>1. q[0] = p[COLS] - p[COLS] /\ p[COLS] \in Int
      BY <1>14, <1>16, <1>17
    <3> QED BY <3>1
  <2>3. ASSUME NEW r \in 1 .. ROWS PROVE q[r] = q[r - 1] + [s \in 1 .. ROWS |-> Amount(FileRow(nbt, s))][1 + r - 1]
    <3>1. r \in 0 .. ROWS /\ r - 1 \in 0 .. ROWS /\ 1 + r - 1 = r /\ r - 1 \in Nat /\ (r - 1) + 1 = r
      BY <1>3
    <3>2. r * COLS = (r - 1) * COLS + COLS
      BY <1>3, <3>1, Rising
    <3>3. q[r] = p[r * COLS + COLS] - p[COLS] /\ q[r - 1] = p[r * COLS] - p[COLS]
      BY <1>16, <3>1, <3>2
    <3>4. Amount(FileRow(nbt, r)) = p[r * COLS + COLS] - p[r * COLS]
      BY <1>15, <3>1
    <3>5. p[r * COLS + COLS] \in Int /\ p[r * COLS] \in Int /\ p[COLS] \in Int
      BY <1>14, <1>15, <1>17, <3>1, <3>2
    <3>6. q[r] = q[r - 1] + Amount(FileRow(nbt, r))
      BY <3>3, <3>4, <3>5
    <3> QED BY <3>1, <3>6
  <2> QED BY <2>1, <2>2, <2>3 DEF SumsUp
<1>19. Stored(FileRows(nbt)) = q[ROWS]
  <2>1. PICK x : x = [r \in 1 .. ROWS |-> Amount(FileRow(nbt, r))]
    OBVIOUS
  <2>2. PICK D : D = 1 .. ROWS /\ D = 1 .. 1 + ROWS - 1
    BY <1>3
  <2>3. PICK rows : rows = FileRows(nbt)
    OBVIOUS
  <2>4. DOMAIN rows = D /\ \A r \in D : rows[r] = FileRow(nbt, r)
    BY <2>2, <2>3 DEF FileRows
  <2>5. [r \in DOMAIN rows |-> Amount(rows[r])] = x /\ DOMAIN x = D
    BY <2>1, <2>2, <2>4
  <2>6. Stored(rows) = SumFunctionOnSet(x, D)
    BY <2>5 DEF Stored, SumFunction
  <2>7. \A r \in D : x[r] \in Int
    <3>1. ASSUME NEW r \in D PROVE x[r] \in Int
      <4>1. FileRow(nbt, r) \in Row
        BY LoadFacts DEF Loadable
      <4> QED BY <2>1, <2>2, <4>1, RowFacts
    <3> QED BY <3>1
  <2>8. Numbers(x, D) /\ Run(D, 1, ROWS) /\ ROWS \in Nat /\ 1 \in Int
    BY <1>3, <2>2, <2>7 DEF Numbers, Run
  <2>9. SumFunctionOnSet(x, D) = q[ROWS]
    BY <1>18, <2>1, <2>8, SumIs
  <2> QED BY <2>3, <2>6, <2>9
<1>20. Amount(FileRow(nbt, 0)) = p[COLS] /\ q[ROWS] = p[N] - p[COLS]
  <2>1. Amount(FileRow(nbt, 0)) = p[COLS] - p[0] /\ q[ROWS] = p[N] - p[COLS]
    BY <1>3, <1>15, <1>16, <1>17
  <2>2. p[COLS] \in Int /\ p[0] = 0
    BY <1>14, <1>17
  <2> QED BY <2>1, <2>2
<1>21. Owned(SlotsOf(nbt)) = Amount(FileRow(nbt, 0)) + Stored(FileRows(nbt))
  <2>1. SlotsOf(nbt).hotbar = FileRow(nbt, 0) /\ SlotsOf(nbt).inventory = FileRows(nbt)
    BY LoadFacts DEF Loadable
  <2> QED BY <2>1 DEF Owned
<1>22. p[COLS] \in Int /\ p[N] \in Int
  BY <1>2, <1>14, <1>17
<1>23. Owned(SlotsOf(nbt)) = p[N]
  BY <1>19, <1>20, <1>21, <1>22
<1> QED BY <1>1, <1>10, <1>12, <1>13, <1>23

-----------------------------------------------------------------------------
(* The lists of names. *)

Everybody == Names \cup Others

WorksOn(thread, kind) == Busy(thread) /\ tasks[thread].kind = kind

ListShape ==
  /\ lists \in [Kinds -> Seq(Everybody)]
  /\ \A kind \in Kinds : IsInjective(lists[kind])
  /\ listFiles \in [Kinds -> Seq(Everybody)]
  /\ granted \in [Kinds -> SUBSET Everybody]
  /\ spoiled \in [Kinds -> BOOLEAN]
  /\ tasks \in [ListThreads ->
       {Idle} \cup [at : {"read", "open", "write"}, kind : Kinds, names : Seq(Everybody)]]
  /\ booting \subseteq Kinds
  /\ online \in [Names -> {"out", "in", "leaving"}]

(* Nobody is in before main() has read the lists. *)
Closed == Serving \/ \A name \in Names : online[name] = "out" /\ tasks[name] = Idle

(* The names in memory and those a thread has still to read are the ones    *)
(* that should be listed.  Only main() reads names that are not in memory,  *)
(* and the file is as the memory is, or memory is empty and the file is     *)
(* about to be read. *)
BeingKept(kind, thread) ==
  /\ ToSet(lists[kind]) \cup ToSet(tasks[thread].names) = granted[kind]
  /\ thread # "main" => ToSet(lists[kind]) = granted[kind]
  /\ tasks[thread].at = "read" =>
       \/ listFiles[kind] = lists[kind]
       \/ lists[kind] = <<>> /\ tasks[thread].names = listFiles[kind]

Kept(kind) ==
  spoiled[kind] \/
    /\ \A t, u \in ListThreads : WorksOn(t, kind) /\ WorksOn(u, kind) => t = u
    /\ \A t \in ListThreads : WorksOn(t, kind) => kind \notin booting /\ BeingKept(kind, t)
    /\ kind \in booting => lists[kind] = <<>> /\ ToSet(listFiles[kind]) = granted[kind]
    /\ (kind \notin booting /\ \A t \in ListThreads : ~WorksOn(t, kind)) =>
         listFiles[kind] = lists[kind] /\ ToSet(lists[kind]) = granted[kind]

ListInv == ListShape /\ Closed /\ \A kind \in Kinds : Kept(kind)

LEMMA ToSetFacts ==
  ASSUME NEW S, NEW s \in Seq(S)
  PROVE  /\ ToSet(s) \subseteq S
         /\ \A x \in S : /\ Append(s, x) \in Seq(S)
                         /\ ToSet(Append(s, x)) = ToSet(s) \cup {x}
                         /\ IsInjective(s) /\ x \notin ToSet(s) => IsInjective(Append(s, x))
         /\ s # <<>> => /\ Head(s) \in S /\ Tail(s) \in Seq(S)
                        /\ ToSet(s) = {Head(s)} \cup ToSet(Tail(s))
<1>1. Len(s) \in Nat /\ DOMAIN s = 1 .. Len(s) /\ \A i \in 1 .. Len(s) : s[i] \in S
  BY LenProperties
<1>2. ToSet(s) = {s[i] : i \in 1 .. Len(s)}
  BY <1>1 DEF ToSet
<1>3. ASSUME NEW x \in S
      PROVE  /\ Append(s, x) \in Seq(S)
             /\ ToSet(Append(s, x)) = ToSet(s) \cup {x}
             /\ IsInjective(s) /\ x \notin ToSet(s) => IsInjective(Append(s, x))
  <2>1. PICK t : t = Append(s, x)
    OBVIOUS
  <2>2. /\ t \in Seq(S) /\ DOMAIN t = 1 .. Len(s) + 1
        /\ \A i \in 1 .. Len(s) : t[i] = s[i]
        /\ t[Len(s) + 1] = x
    BY <1>1, <2>1, AppendProperties
  <2>3. \A i : i \in 1 .. Len(s) + 1 <=> (i \in 1 .. Len(s) \/ i = Len(s) + 1)
    BY <1>1
  <2>4. ToSet(t) = {t[i] : i \in 1 .. Len(s) + 1}
    BY <2>2 DEF ToSet
  <2>5. ToSet(t) = ToSet(s) \cup {x}
    BY <1>2, <2>2, <2>3, <2>4
  <2>6. IsInjective(s) /\ x \notin ToSet(s) => IsInjective(t)
    BY <1>1, <1>2, <2>2, <2>3 DEF IsInjective
  <2> QED BY <2>1, <2>2, <2>5, <2>6
<1>4. ASSUME s # <<>>
      PROVE  /\ Head(s) \in S /\ Tail(s) \in Seq(S)
             /\ ToSet(s) = {Head(s)} \cup ToSet(Tail(s))
  <2>1. PICK t : t = Tail(s)
    OBVIOUS
  <2>2. Len(s) # 0 /\ Head(s) = s[1] /\ Head(s) \in S /\ t \in Seq(S) /\ Len(t) = Len(s) - 1
        /\ \A i \in 1 .. Len(s) - 1 : t[i] = s[i + 1]
    BY <1>1, <1>4, <2>1
  <2>3. ToSet(t) = {t[i] : i \in 1 .. Len(s) - 1}
    BY <2>2 DEF ToSet
  <2>4. \A i \in 1 .. Len(s) : i = 1 \/ (i - 1 \in 1 .. Len(s) - 1 /\ (i - 1) + 1 = i)
    BY <1>1
  <2>5. \A i \in 1 .. Len(s) - 1 : i + 1 \in 1 .. Len(s)
    BY <1>1
  <2>6. 1 \in 1 .. Len(s)
    BY <1>1, <2>2
  <2>7. \A x \in ToSet(s) : x = Head(s) \/ x \in ToSet(t)
    <3> SUFFICES ASSUME NEW i \in 1 .. Len(s) PROVE s[i] = Head(s) \/ s[i] \in ToSet(t)
      BY <1>2
    <3>1. CASE i = 1
      BY <2>2, <3>1
    <3>2. CASE i # 1
      <4>1. i - 1 \in 1 .. Len(s) - 1 /\ t[i - 1] = s[i]
        BY <2>2, <2>4, <3>2
      <4> QED BY <2>3, <4>1
    <3> QED BY <3>1, <3>2
  <2>8. \A x \in ToSet(t) : x \in ToSet(s)
    BY <1>2, <2>2, <2>3, <2>5
  <2>9. Head(s) \in ToSet(s)
    BY <1>2, <2>2, <2>6
  <2>10. ToSet(s) = {Head(s)} \cup ToSet(t)
    BY <2>7, <2>8, <2>9
  <2> QED BY <2>1, <2>2, <2>10
<1> QED BY <1>1, <1>2, <1>3, <1>4

LEMMA RemoveAtFacts ==
  ASSUME NEW S, NEW s \in Seq(S), NEW i \in DOMAIN s
  PROVE  /\ RemoveAt(s, i) \in Seq(S)
         /\ DOMAIN RemoveAt(s, i) = 1 .. Len(s) - 1
         /\ \A j \in 1 .. Len(s) - 1 : RemoveAt(s, i)[j] = s[IF j < i THEN j ELSE j + 1]
<1>1. Len(s) \in Nat /\ DOMAIN s = 1 .. Len(s) /\ i \in 1 .. Len(s)
  OBVIOUS
<1> DEFINE skip(j) == IF j < i THEN j ELSE j + 1
<1>2. PICK a, b :
        /\ RemoveAt(s, i) = a \o b
        /\ a \in Seq(S) /\ Len(a) = i - 1 /\ \A j \in 1 .. i - 1 : a[j] = s[j]
        /\ b \in Seq(S) /\ Len(b) = Len(s) - i /\ \A j \in 1 .. Len(s) - i : b[j] = s[i + j]
  <2> DEFINE x == SubSeq(s, 1, i - 1)
             y == SubSeq(s, i + 1, Len(s))
  <2>1. /\ x \in Seq(S) /\ Len(x) = i - 1 /\ \A j \in 1 .. i - 1 : x[j] = s[j]
        /\ y \in Seq(S) /\ Len(y) = Len(s) - i /\ \A j \in 1 .. Len(s) - i : y[j] = s[i + j]
    BY <1>1
  <2>2. RemoveAt(s, i) = x \o y
    BY DEF RemoveAt
  <2> HIDE DEF x, y
  <2> QED BY <2>1, <2>2
<1>3. PICK r : r = a \o b
  OBVIOUS
<1>4. r \in Seq(S) /\ Len(r) = Len(a) + Len(b)
  BY <1>2, <1>3, ConcatProperties
<1>5. Len(r) = Len(s) - 1
  BY <1>1, <1>2, <1>4
<1>6. ASSUME NEW j \in 1 .. Len(s) - 1
      PROVE  r[j] = s[skip(j)]
  <2>1. CASE j < i
    BY <1>1, <1>2, <1>3, <2>1, ConcatProperties
  <2>2. CASE j >= i
    <3>1. PICK k, l : k = Len(a) /\ l = Len(s) /\ l \in Nat /\ k = i - 1 /\ i \in 1 .. l /\ j \in 1 .. l - 1
      BY <1>1, <1>2
    <3>2. j - k \in 1 .. l - i /\ i + (j - k) = j + 1
      BY <2>2, <3>1
    <3>3. j \in 1 .. Len(a) + Len(b) /\ ~(j <= Len(a))
      BY <1>1, <1>2, <2>2
    <3>4. r[j] = b[j - Len(a)]
      BY <1>2, <1>3, <3>3, ConcatProperties
    <3>5. skip(j) = j + 1
      BY <1>1, <2>2
    <3>6. b[j - Len(a)] = s[j + 1]
      BY <1>2, <3>1, <3>2
    <3> HIDE DEF skip
    <3> QED BY <3>4, <3>5, <3>6
  <2> QED BY <1>1, <2>1, <2>2
<1>7. DOMAIN r = 1 .. Len(s) - 1
  <2>1. DOMAIN r = 1 .. Len(r)
    BY <1>4, LenProperties
  <2> QED BY <1>5, <2>1
<1> HIDE DEF skip
<1>8. /\ RemoveAt(s, i) \in Seq(S)
      /\ DOMAIN RemoveAt(s, i) = 1 .. Len(s) - 1
      /\ \A j \in 1 .. Len(s) - 1 : RemoveAt(s, i)[j] = s[skip(j)]
  BY <1>2, <1>3, <1>4, <1>6, <1>7
<1> QED BY <1>8 DEF skip

(* The first of equal names is taken out of a list; in one that names       *)
(* nobody twice, the name is gone. *)
LEMMA RemoveFirstFacts ==
  ASSUME NEW S, NEW s \in Seq(S), IsInjective(s), NEW x \in ToSet(s)
  PROVE  /\ RemoveFirst(s, x) \in Seq(S)
         /\ IsInjective(RemoveFirst(s, x))
         /\ ToSet(RemoveFirst(s, x)) = ToSet(s) \ {x}
<1>1. Len(s) \in Nat /\ DOMAIN s = 1 .. Len(s)
  BY LenProperties
<1>2. PICK i \in 1 .. Len(s) : s[i] = x
  BY <1>1 DEF ToSet
<1>3. \A j \in 1 .. Len(s) : s[j] = x => j = i
  BY <1>1, <1>2 DEF IsInjective
<1>4. SelectInSeq(s, LAMBDA v : v = x) = i
  <2>1. {j \in 1 .. Len(s) : s[j] = x} = {i}
    BY <1>2, <1>3
  <2>2. Min({i}) = i
    BY <1>1 DEF Min
  <2> QED BY <2>1, <2>2 DEF SelectInSeq
<1>5. RemoveFirst(s, x) = RemoveAt(s, i)
  BY <1>2, <1>4 DEF RemoveFirst
<1> DEFINE skip(j) == IF j < i THEN j ELSE j + 1
<1>6. PICK r : /\ r = RemoveAt(s, i) /\ r \in Seq(S) /\ DOMAIN r = 1 .. Len(s) - 1
               /\ \A j \in 1 .. Len(s) - 1 : r[j] = s[skip(j)]
  <2>1. i \in DOMAIN s
    BY <1>1
  <2>2. RemoveAt(s, i) \in Seq(S)
    BY <2>1, RemoveAtFacts
  <2>3. DOMAIN RemoveAt(s, i) = 1 .. Len(s) - 1
    BY <2>1, RemoveAtFacts
  <2>4. \A j \in 1 .. Len(s) - 1 : RemoveAt(s, i)[j] = s[skip(j)]
    BY <2>1, RemoveAtFacts
  <2> HIDE DEF skip
  <2> QED BY <2>2, <2>3, <2>4
<1>7. \A j \in 1 .. Len(s) - 1 : skip(j) \in 1 .. Len(s) /\ skip(j) # i
  BY <1>1
<1>8. \A j, k \in 1 .. Len(s) - 1 : skip(j) = skip(k) => j = k
  BY <1>1
<1>9. \A j \in 1 .. Len(s) : j # i => \E k \in 1 .. Len(s) - 1 : skip(k) = j
  <2> SUFFICES ASSUME NEW j \in 1 .. Len(s), j # i
               PROVE  \E k \in 1 .. Len(s) - 1 : skip(k) = j
    OBVIOUS
  <2>1. CASE j < i
    <3>1. j \in 1 .. Len(s) - 1 /\ skip(j) = j
      BY <1>1, <2>1
    <3> QED BY <3>1
  <2>2. CASE j > i
    <3>1. j - 1 \in 1 .. Len(s) - 1 /\ skip(j - 1) = j
      BY <1>1, <2>2
    <3> QED BY <3>1
  <2> QED BY <2>1, <2>2
<1> HIDE DEF skip
<1>10. IsInjective(r)
  BY <1>1, <1>6, <1>7, <1>8 DEF IsInjective
<1>11. ToSet(r) = {r[j] : j \in 1 .. Len(s) - 1} /\ ToSet(s) = {s[j] : j \in 1 .. Len(s)}
  BY <1>1, <1>6 DEF ToSet
<1>12. ToSet(r) = ToSet(s) \ {x}
  <2>1. \A y \in ToSet(r) : y \in ToSet(s) /\ y # x
    BY <1>3, <1>6, <1>7, <1>11
  <2>2. \A y \in ToSet(s) : y # x => y \in ToSet(r)
    BY <1>2, <1>6, <1>9, <1>11
  <2> QED BY <2>1, <2>2
<1> QED BY <1>5, <1>6, <1>10, <1>12

(* What does not concern a list leaves it as it is kept. *)
LEMMA Elsewhere ==
  ASSUME NEW kind \in Kinds, Kept(kind),
         lists'[kind] = lists[kind], listFiles'[kind] = listFiles[kind], granted'[kind] = granted[kind],
         spoiled'[kind] = spoiled[kind], kind \in booting' <=> kind \in booting,
         \A t \in ListThreads : WorksOn(t, kind) \/ WorksOn(t, kind)' => tasks'[t] = tasks[t]
  PROVE  Kept(kind)'
<1>1. \A t \in ListThreads : WorksOn(t, kind)' <=> WorksOn(t, kind)
  BY DEF WorksOn, Busy
<1>2. \A t \in ListThreads : WorksOn(t, kind) => (BeingKept(kind, t)' <=> BeingKept(kind, t))
  BY DEF BeingKept
<1> QED BY <1>1, <1>2 DEF Kept

LEMMA TaskFacts ==
  ASSUME ListShape, NEW t \in ListThreads, NEW kind \in Kinds, NEW at \in {"read", "open"},
         NEW names \in Seq(Everybody), Task(t, kind, at, names)
  PROVE  /\ tasks' \in [ListThreads ->
              {Idle} \cup [at : {"read", "open", "write"}, kind : Kinds, names : Seq(Everybody)]]
         /\ spoiled' \in [Kinds -> BOOLEAN]
         /\ tasks'[t] = [at |-> at, kind |-> kind, names |-> names]
         /\ \A u \in ListThreads \ {t} : tasks'[u] = tasks[u]
         /\ \A k \in Kinds \ {kind} : spoiled'[k] = spoiled[k] /\ ~WorksOn(t, k)'
         /\ WorksOn(t, kind)'
         /\ ~spoiled'[kind] => ~spoiled[kind] /\ \A u \in ListThreads \ {t} : ~WorksOn(u, kind) /\ ~WorksOn(u, kind)'
<1>1. PICK x : x = [at |-> at, kind |-> kind, names |-> names] /\ tasks' = [tasks EXCEPT ![t] = x]
  BY DEF Task
<1>2. x \in [at : {"read", "open", "write"}, kind : Kinds, names : Seq(Everybody)] /\ x.at # "idle" /\ x.kind = kind
  BY <1>1
<1>3. /\ tasks' \in [ListThreads ->
           {Idle} \cup [at : {"read", "open", "write"}, kind : Kinds, names : Seq(Everybody)]]
      /\ tasks'[t] = x /\ \A u \in ListThreads \ {t} : tasks'[u] = tasks[u]
  BY <1>1, <1>2 DEF ListShape
<1>4. PICK o \in BOOLEAN : o = Overlap(t, kind) /\ spoiled' = [spoiled EXCEPT ![kind] = @ \/ o]
  BY DEF Task, Overlap
<1>5. /\ spoiled' \in [Kinds -> BOOLEAN]
      /\ \A k \in Kinds \ {kind} : spoiled'[k] = spoiled[k]
      /\ ~spoiled'[kind] => ~spoiled[kind] /\ ~o
  BY <1>4 DEF ListShape
<1>6. \A u \in ListThreads \ {t} : WorksOn(u, kind)' <=> WorksOn(u, kind)
  BY <1>3 DEF WorksOn, Busy
<1>7. ~o => \A u \in ListThreads \ {t} : ~WorksOn(u, kind)
  BY <1>4 DEF Overlap, WorksOn
<1>8. WorksOn(t, kind)' /\ \A k \in Kinds \ {kind} : ~WorksOn(t, k)'
  BY <1>2, <1>3 DEF WorksOn, Busy
<1> QED BY <1>1, <1>3, <1>5, <1>6, <1>7, <1>8

LEMMA IdleFacts ==
  ASSUME ListShape, NEW t \in ListThreads
  PROVE  /\ ~Busy(t) <=> tasks[t] = Idle
         /\ \A kind : WorksOn(t, kind) => /\ kind \in Kinds
                                          /\ tasks[t].at \in {"read", "open", "write"}
                                          /\ tasks[t].names \in Seq(Everybody)
         /\ Busy(t) => WorksOn(t, tasks[t].kind)
<1>1. tasks[t] \in {Idle} \cup [at : {"read", "open", "write"}, kind : Kinds, names : Seq(Everybody)]
  BY DEF ListShape
<1>2. CASE tasks[t] = Idle
  BY <1>2 DEF Idle, Busy, WorksOn
<1>3. CASE tasks[t] \in [at : {"read", "open", "write"}, kind : Kinds, names : Seq(Everybody)]
  <2>1. tasks[t].at \in {"read", "open", "write"} /\ tasks[t].kind \in Kinds /\ tasks[t].names \in Seq(Everybody)
    BY <1>3
  <2>2. Busy(t) /\ tasks[t] # Idle
    BY <2>1 DEF Busy, Idle
  <2> QED BY <2>1, <2>2 DEF WorksOn
<1> QED BY <1>1, <1>2, <1>3

LEMMA ListedFacts ==
  ASSUME ListShape, NEW kind \in Kinds
  PROVE  \A name : Listed(kind, name) <=> name \in ToSet(lists[kind])
BY DEF Listed, ToSet

LEMMA WorkedOnByOne ==
  ASSUME NEW kind \in Kinds, NEW t \in ListThreads, WorksOn(t, kind)', kind \notin booting', BeingKept(kind, t)',
         \A u \in ListThreads \ {t} : ~WorksOn(u, kind)'
  PROVE  Kept(kind)'
<1>1. \A u \in ListThreads : WorksOn(u, kind)' => u = t
  OBVIOUS
<1>2. \A u \in ListThreads : WorksOn(u, kind)' => kind \notin booting' /\ BeingKept(kind, u)'
  BY <1>1
<1>3. \E u \in ListThreads : WorksOn(u, kind)'
  OBVIOUS
<1> QED BY <1>1, <1>2, <1>3 DEF Kept

(* While the game is on, memory has what should be listed. *)
LEMMA KeptWhileServing ==
  ASSUME ListInv, Serving, NEW kind \in Kinds, ~spoiled[kind]
  PROVE  ToSet(lists[kind]) = granted[kind]
<1>1. Kept(kind) /\ kind \notin booting
  BY DEF ListInv, Serving
<1>2. CASE \A t \in ListThreads : ~WorksOn(t, kind)
  BY <1>1, <1>2 DEF Kept
<1>3. CASE \E t \in ListThreads : WorksOn(t, kind)
  <2>1. PICK t \in ListThreads : WorksOn(t, kind)
    BY <1>3
  <2>2. t # "main"
    BY <2>1 DEF Serving, WorksOn
  <2> QED BY <1>1, <2>1, <2>2 DEF Kept, BeingKept
<1> QED BY <1>2, <1>3

(* A player's command finds the list as it should be. *)
LEMMA ListStays ==
  ASSUME ListInv, Serving, NEW kind \in Kinds, NEW names \in SUBSET Everybody,
         granted' = [granted EXCEPT ![kind] = names],
         ToSet(lists[kind]) = granted[kind] => names = granted[kind],
         UNCHANGED <<lists, tasks, spoiled, listFiles, booting, online>>
  PROVE  ListInv'
<1>1. /\ granted' \in [Kinds -> SUBSET Everybody] /\ granted'[kind] = names
      /\ \A k \in Kinds \ {kind} : granted'[k] = granted[k]
  BY DEF ListInv, ListShape
<1>2. ListShape' /\ Closed'
  BY <1>1 DEF ListInv, ListShape, Closed, Serving, Busy, IsInjective
<1>3. ASSUME NEW k \in Kinds PROVE Kept(k)'
  <2>1. CASE spoiled[k]
    BY <2>1 DEF Kept
  <2>2. CASE ~spoiled[k]
    <3>1. granted'[k] = granted[k]
      BY <1>1, <2>2, KeptWhileServing
    <3> QED BY <3>1, Elsewhere DEF ListInv
  <2> QED BY <2>1, <2>2
<1> QED BY <1>2, <1>3 DEF ListInv

(* A player's command changes the list, and will write its file. *)
LEMMA ListChanges ==
  ASSUME ListInv, Serving, NEW t \in Names, ~Busy(t), NEW kind \in Kinds, NEW names \in SUBSET Everybody,
         NEW list \in Seq(Everybody), IsInjective(list), ToSet(lists[kind]) = granted[kind] => ToSet(list) = names,
         lists' = [lists EXCEPT ![kind] = list], granted' = [granted EXCEPT ![kind] = names],
         Task(t, kind, "open", <<>>), UNCHANGED <<listFiles, booting, online>>
  PROVE  ListInv'
<1>1. ListShape /\ t \in ListThreads /\ t # "main" /\ "main" \in ListThreads
  BY ListAssumption DEF ListInv, ListThreads
<1>2. /\ granted' \in [Kinds -> SUBSET Everybody] /\ granted'[kind] = names
      /\ \A k \in Kinds \ {kind} : granted'[k] = granted[k]
  BY <1>1 DEF ListShape
<1>3. lists' \in [Kinds -> Seq(Everybody)] /\ lists'[kind] = list /\ \A k \in Kinds \ {kind} : lists'[k] = lists[k]
  BY <1>1 DEF ListShape
<1>4. PICK none : none = <<>> /\ none \in Seq(Everybody)
  <2>1. <<>> \in Seq(Everybody)
    OBVIOUS
  <2> QED BY <2>1
<1>5. /\ tasks' \in [ListThreads ->
            {Idle} \cup [at : {"read", "open", "write"}, kind : Kinds, names : Seq(Everybody)]]
      /\ spoiled' \in [Kinds -> BOOLEAN]
      /\ tasks'[t] = [at |-> "open", kind |-> kind, names |-> none]
      /\ \A u \in ListThreads \ {t} : tasks'[u] = tasks[u]
      /\ \A k \in Kinds \ {kind} : spoiled'[k] = spoiled[k] /\ ~WorksOn(t, k)'
      /\ WorksOn(t, kind)'
      /\ ~spoiled'[kind] => ~spoiled[kind] /\ \A u \in ListThreads \ {t} : ~WorksOn(u, kind) /\ ~WorksOn(u, kind)'
  BY <1>1, <1>4, TaskFacts
<1>6. booting = {} /\ booting' = {} /\ ~Busy("main")'
  BY <1>1, <1>5 DEF Serving, Busy
<1>7. ListShape' /\ Closed'
  <2>1. \A k \in Kinds : IsInjective(lists'[k])
    BY <1>1, <1>3 DEF ListShape
  <2> QED BY <1>1, <1>2, <1>3, <1>5, <1>6, <2>1 DEF ListShape, Closed, Serving
<1>8. ASSUME NEW k \in Kinds \ {kind} PROVE Kept(k)'
  <2>1. \A u \in ListThreads : WorksOn(u, k) \/ WorksOn(u, k)' => tasks'[u] = tasks[u]
    BY <1>5 DEF WorksOn
  <2> QED BY <1>2, <1>3, <1>5, <2>1, Elsewhere DEF ListInv
<1>9. Kept(kind)'
  <2>1. CASE spoiled'[kind]
    BY <2>1 DEF Kept
  <2>2. CASE ~spoiled'[kind]
    <3>1. ToSet(lists[kind]) = granted[kind]
      BY <1>5, <2>2, KeptWhileServing
    <3>2. ToSet(none) = {}
      BY <1>4 DEF ToSet
    <3>3. BeingKept(kind, t)'
      BY <1>2, <1>3, <1>5, <3>1, <3>2 DEF BeingKept
    <3> QED BY <1>1, <1>5, <1>6, <2>2, <3>3, WorkedOnByOne
  <2> QED BY <2>1, <2>2
<1> QED BY <1>7, <1>8, <1>9 DEF ListInv

(* /op and the like, in the thread of a player. *)
LEMMA AddStep ==
  ASSUME ListInv, NEW t \in Names, ~Busy(t), Serving, NEW kind \in Kinds, NEW name \in Everybody,
         AddGeneric(t, kind, name), UNCHANGED online
  PROVE  ListInv'
<1>1. lists[kind] \in Seq(Everybody) /\ IsInjective(lists[kind]) /\ granted[kind] \in SUBSET Everybody
  BY DEF ListInv, ListShape
<1>2. PICK names : names = granted[kind] \cup {name} /\ names \in SUBSET Everybody
  BY <1>1
<1>3. granted' = [granted EXCEPT ![kind] = names] /\ UNCHANGED <<listFiles, booting>>
  BY <1>2 DEF AddGeneric
<1>4. CASE Listed(kind, name)
  <2>1. UNCHANGED <<lists, tasks, spoiled>> /\ name \in ToSet(lists[kind])
    BY <1>4, ListedFacts DEF AddGeneric, ListInv
  <2>2. ToSet(lists[kind]) = granted[kind] => names = granted[kind]
    BY <1>2, <2>1
  <2>3. UNCHANGED <<lists, tasks, spoiled, listFiles, booting, online>>
    BY <1>3, <2>1
  <2> QED BY <1>2, <1>3, <2>2, <2>3, ListStays
<1>5. CASE ~Listed(kind, name)
  <2>1. PICK list : list = Append(lists[kind], name)
    OBVIOUS
  <2>2. /\ lists' = [lists EXCEPT ![kind] = list] /\ Task(t, kind, "open", <<>>)
        /\ name \notin ToSet(lists[kind])
    BY <1>5, <2>1, ListedFacts DEF AddGeneric, ListInv
  <2>3. list \in Seq(Everybody) /\ IsInjective(list) /\ ToSet(list) = ToSet(lists[kind]) \cup {name}
    BY <1>1, <2>1, <2>2, ToSetFacts
  <2> QED BY <1>2, <1>3, <2>2, <2>3, ListChanges
<1> QED BY <1>4, <1>5

(* /deop and the like. *)
LEMMA RemoveStep ==
  ASSUME ListInv, NEW t \in Names, ~Busy(t), Serving, NEW kind \in Kinds, NEW name \in Everybody,
         RemoveGeneric(t, kind, name), UNCHANGED online
  PROVE  ListInv'
<1>1. lists[kind] \in Seq(Everybody) /\ IsInjective(lists[kind]) /\ granted[kind] \in SUBSET Everybody
  BY DEF ListInv, ListShape
<1>2. PICK names : names = granted[kind] \ {name} /\ names \in SUBSET Everybody
  BY <1>1
<1>3. granted' = [granted EXCEPT ![kind] = names] /\ UNCHANGED <<listFiles, booting>>
  BY <1>2 DEF RemoveGeneric
<1>4. CASE ~Listed(kind, name)
  <2>1. UNCHANGED <<lists, tasks, spoiled>> /\ name \notin ToSet(lists[kind])
    BY <1>4, ListedFacts DEF RemoveGeneric, ListInv
  <2>2. ToSet(lists[kind]) = granted[kind] => names = granted[kind]
    BY <1>2, <2>1
  <2>3. UNCHANGED <<lists, tasks, spoiled, listFiles, booting, online>>
    BY <1>3, <2>1
  <2> QED BY <1>2, <1>3, <2>2, <2>3, ListStays
<1>5. CASE Listed(kind, name)
  <2>1. PICK list : list = RemoveFirst(lists[kind], name)
    OBVIOUS
  <2>2. /\ lists' = [lists EXCEPT ![kind] = list] /\ Task(t, kind, "open", <<>>)
        /\ name \in ToSet(lists[kind])
    BY <1>5, <2>1, ListedFacts DEF RemoveGeneric, ListInv
  <2>3. list \in Seq(Everybody) /\ IsInjective(list) /\ ToSet(list) = ToSet(lists[kind]) \ {name}
    BY <1>1, <2>1, <2>2, RemoveFirstFacts
  <2> QED BY <1>2, <1>3, <2>2, <2>3, ListChanges
<1> QED BY <1>4, <1>5

(* A list is read by main() before the game is on, or by a player. *)
LEMMA ReadStep ==
  ASSUME ListInv, NEW t \in ListThreads, ~Busy(t), NEW kind \in Kinds, ReadGeneric(t, kind),
         \/ t = "main" /\ kind \in booting /\ booting' = booting \ {kind}
         \/ t \in Names /\ Serving /\ booting' = booting,
         UNCHANGED online
  PROVE  ListInv'
<1>1. /\ ListShape /\ "main" \notin Names /\ Task(t, kind, "read", listFiles[kind])
      /\ listFiles[kind] \in Seq(Everybody) /\ UNCHANGED <<lists, listFiles, granted>>
  BY ListAssumption DEF ListInv, ListShape, ReadGeneric
<1>2. /\ tasks' \in [ListThreads ->
            {Idle} \cup [at : {"read", "open", "write"}, kind : Kinds, names : Seq(Everybody)]]
      /\ spoiled' \in [Kinds -> BOOLEAN]
      /\ tasks'[t] = [at |-> "read", kind |-> kind, names |-> listFiles[kind]]
      /\ \A u \in ListThreads \ {t} : tasks'[u] = tasks[u]
      /\ \A k \in Kinds \ {kind} : spoiled'[k] = spoiled[k] /\ ~WorksOn(t, k)'
      /\ WorksOn(t, kind)'
      /\ ~spoiled'[kind] => ~spoiled[kind] /\ \A u \in ListThreads \ {t} : ~WorksOn(u, kind) /\ ~WorksOn(u, kind)'
  BY <1>1, TaskFacts
<1>3. ListShape'
  BY <1>1, <1>2 DEF ListShape
<1>4. Closed'
  <2>1. CASE t = "main" /\ kind \in booting
    <3>1. \A name \in Names : online[name] = "out" /\ tasks[name] = Idle
      BY <2>1 DEF ListInv, Closed, Serving
    <3>2. \A name \in Names : tasks'[name] = tasks[name]
      BY <1>1, <1>2, <2>1 DEF ListThreads
    <3> QED BY <3>1, <3>2 DEF Closed
  <2>2. CASE t \in Names /\ Serving /\ booting' = booting
    <3>1. tasks'["main"] = tasks["main"]
      BY <1>1, <1>2, <2>2 DEF ListThreads
    <3> QED BY <2>2, <3>1 DEF Closed, Serving, Busy
  <2> QED BY <2>1, <2>2
<1>5. ASSUME NEW k \in Kinds \ {kind} PROVE Kept(k)'
  <2>1. \A u \in ListThreads : WorksOn(u, k) \/ WorksOn(u, k)' => tasks'[u] = tasks[u]
    BY <1>2 DEF WorksOn
  <2> QED BY <1>1, <1>2, <2>1, Elsewhere DEF ListInv
<1>6. Kept(kind)'
  <2>1. CASE spoiled'[kind]
    BY <2>1 DEF Kept
  <2>2. CASE ~spoiled'[kind]
    <3>1. kind \notin booting' /\ Kept(kind) /\ ~spoiled[kind]
          /\ \A u \in ListThreads : ~WorksOn(u, kind)
      BY <1>2, <2>2 DEF ListInv, Serving, WorksOn
    <3>2. CASE t = "main" /\ kind \in booting
      <4>1. lists[kind] = <<>> /\ ToSet(listFiles[kind]) = granted[kind]
        BY <3>1, <3>2 DEF Kept
      <4>2. ToSet(lists[kind]) = {}
        BY <4>1 DEF ToSet
      <4>3. BeingKept(kind, t)'
        BY <1>1, <1>2, <3>2, <4>1, <4>2 DEF BeingKept
      <4> QED BY <1>2, <2>2, <3>1, <4>3, WorkedOnByOne
    <3>3. CASE t \in Names /\ Serving
      <4>1. listFiles[kind] = lists[kind] /\ ToSet(lists[kind]) = granted[kind]
        BY <3>1, <3>3 DEF Kept, Serving
      <4>2. BeingKept(kind, t)'
        BY <1>1, <1>2, <4>1 DEF BeingKept
      <4> QED BY <1>2, <2>2, <3>1, <4>2, WorkedOnByOne
    <3> QED BY <3>2, <3>3
  <2> QED BY <2>1, <2>2
<1> QED BY <1>3, <1>4, <1>5, <1>6 DEF ListInv

(* A thread goes on with its list. *)
LEMMA GoesOn ==
  ASSUME ListInv, NEW t \in ListThreads, NEW kind \in Kinds, WorksOn(t, kind), NEW x,
         x = Idle \/ x \in [at : {"read", "open", "write"}, kind : {kind}, names : Seq(Everybody)],
         tasks' = [tasks EXCEPT ![t] = x],
         \A k \in Kinds \ {kind} :
            lists'[k] = lists[k] /\ listFiles'[k] = listFiles[k] /\ spoiled'[k] = spoiled[k],
         UNCHANGED <<granted, booting, online>>
  PROVE  /\ tasks' \in [ListThreads ->
              {Idle} \cup [at : {"read", "open", "write"}, kind : Kinds, names : Seq(Everybody)]]
         /\ tasks'[t] = x /\ \A u \in ListThreads \ {t} : tasks'[u] = tasks[u]
         /\ Closed'
         /\ \A k \in Kinds \ {kind} : Kept(k)'
<1>1. ListShape /\ "main" \notin Names
  BY ListAssumption DEF ListInv
<1>2. x \in {Idle} \cup [at : {"read", "open", "write"}, kind : Kinds, names : Seq(Everybody)]
  OBVIOUS
<1>3. /\ tasks' \in [ListThreads ->
              {Idle} \cup [at : {"read", "open", "write"}, kind : Kinds, names : Seq(Everybody)]]
      /\ tasks'[t] = x /\ \A u \in ListThreads \ {t} : tasks'[u] = tasks[u]
  BY <1>1, <1>2 DEF ListShape
<1>4. Busy(t) /\ tasks[t].kind = kind /\ tasks[t] # Idle
  BY <1>1, IdleFacts DEF WorksOn
<1>5. Closed'
  <2>1. CASE Serving
    <3>1. t # "main" /\ "main" \in ListThreads
      BY <1>4, <2>1 DEF Serving, ListThreads
    <3> QED BY <1>3, <2>1, <3>1 DEF Closed, Serving, Busy
  <2>2. CASE ~Serving
    <3>1. \A name \in Names : online[name] = "out" /\ tasks[name] = Idle
      BY <2>2 DEF ListInv, Closed
    <3>2. \A name \in Names : tasks'[name] = tasks[name]
      BY <1>3, <1>4, <3>1 DEF ListThreads
    <3> QED BY <3>1, <3>2 DEF Closed
  <2> QED BY <2>1, <2>2
<1>6. ASSUME NEW k \in Kinds \ {kind} PROVE Kept(k)'
  <2>1. ~WorksOn(t, k) /\ ~WorksOn(t, k)'
    BY <1>3, <1>4 DEF WorksOn, Busy, Idle
  <2>2. \A u \in ListThreads : WorksOn(u, k) \/ WorksOn(u, k)' => tasks'[u] = tasks[u]
    BY <1>3, <2>1
  <2> QED BY <2>2, Elsewhere DEF ListInv
<1> QED BY <1>3, <1>5, <1>6

(* Nobody else is at the list of a thread that works at it, if it is not    *)
(* spoiled. *)
LEMMA Alone ==
  ASSUME ListInv, NEW t \in ListThreads, NEW kind \in Kinds, WorksOn(t, kind), ~spoiled[kind],
         \A u \in ListThreads \ {t} : tasks'[u] = tasks[u]
  PROVE  /\ \A u \in ListThreads \ {t} : ~WorksOn(u, kind)'
         /\ kind \notin booting
         /\ BeingKept(kind, t)
<1>1. \A u \in ListThreads \ {t} : ~WorksOn(u, kind)
  BY DEF ListInv, Kept
<1>2. \A u \in ListThreads \ {t} : ~WorksOn(u, kind)'
  BY <1>1 DEF WorksOn, Busy
<1> QED BY <1>2 DEF ListInv, Kept

LEMMA ReadEndStep ==
  ASSUME ListInv, NEW t \in ListThreads, ReadEnd(t), UNCHANGED online
  PROVE  ListInv'
<1>1. ListShape /\ WorksOn(t, tasks[t].kind)
  BY IdleFacts DEF ListInv, ReadEnd, Busy
<1>2. PICK kind \in Kinds : kind = tasks[t].kind /\ WorksOn(t, kind)
  BY <1>1, IdleFacts
<1>3. /\ tasks' \in [ListThreads ->
              {Idle} \cup [at : {"read", "open", "write"}, kind : Kinds, names : Seq(Everybody)]]
      /\ tasks'[t] = Idle /\ \A u \in ListThreads \ {t} : tasks'[u] = tasks[u]
      /\ Closed'
      /\ \A k \in Kinds \ {kind} : Kept(k)'
  BY <1>2, GoesOn DEF ReadEnd
<1>4. ListShape'
  BY <1>1, <1>3 DEF ListShape, ReadEnd
<1>5. Kept(kind)'
  <2>1. CASE spoiled[kind]
    BY <2>1 DEF Kept, ReadEnd
  <2>2. CASE ~spoiled[kind]
    <3>1. /\ \A u \in ListThreads \ {t} : ~WorksOn(u, kind)'
          /\ kind \notin booting
          /\ BeingKept(kind, t)
      BY <1>2, <1>3, <2>2, Alone
    <3>2. \A u \in ListThreads : ~WorksOn(u, kind)'
      BY <1>3, <3>1 DEF WorksOn, Busy, Idle
    <3>3. tasks[t].names = <<>> /\ tasks[t].at = "read" /\ ToSet(tasks[t].names) = {}
      BY DEF ReadEnd, ToSet
    <3>4. ToSet(lists[kind]) = granted[kind] /\ listFiles[kind] = lists[kind]
      BY <3>1, <3>3 DEF BeingKept
    <3>5. UNCHANGED <<lists, listFiles, booting, granted, spoiled>>
      BY DEF ReadEnd
    <3> QED BY <2>2, <3>1, <3>2, <3>4, <3>5 DEF Kept
  <2> QED BY <2>1, <2>2
<1> QED BY <1>3, <1>4, <1>5 DEF ListInv

LEMMA OpenStep ==
  ASSUME ListInv, NEW t \in ListThreads, OpenList(t), UNCHANGED online
  PROVE  ListInv'
<1>1. ListShape /\ WorksOn(t, tasks[t].kind)
  BY IdleFacts DEF ListInv, OpenList, Busy
<1>2. PICK kind \in Kinds : kind = tasks[t].kind /\ WorksOn(t, kind)
  BY <1>1, IdleFacts
<1>3. PICK x : x = [tasks[t] EXCEPT !.at = "write"]
  OBVIOUS
<1>4. /\ x.at = "write" /\ x.names = tasks[t].names
      /\ x \in [at : {"read", "open", "write"}, kind : {kind}, names : Seq(Everybody)]
  <2>1. tasks[t] \in [at : {"read", "open", "write"}, kind : Kinds, names : Seq(Everybody)]
    BY <1>1, <1>2, IdleFacts DEF ListShape, WorksOn
  <2> QED BY <1>2, <1>3, <2>1
<1>5. tasks' = [tasks EXCEPT ![t] = x]
  BY <1>3 DEF OpenList
<1>6. PICK none : none = <<>> /\ none \in Seq(Everybody)
  <2>1. <<>> \in Seq(Everybody)
    OBVIOUS
  <2> QED BY <2>1
<1>7. /\ listFiles' \in [Kinds -> Seq(Everybody)]
      /\ \A k \in Kinds \ {kind} : listFiles'[k] = listFiles[k]
      /\ UNCHANGED <<lists, booting, granted, spoiled>>
  BY <1>1, <1>2, <1>6 DEF OpenList, ListShape
<1>8. /\ tasks' \in [ListThreads ->
              {Idle} \cup [at : {"read", "open", "write"}, kind : Kinds, names : Seq(Everybody)]]
      /\ tasks'[t] = x /\ \A u \in ListThreads \ {t} : tasks'[u] = tasks[u]
      /\ Closed'
      /\ \A k \in Kinds \ {kind} : Kept(k)'
  <2>1. \A k \in Kinds \ {kind} :
            lists'[k] = lists[k] /\ listFiles'[k] = listFiles[k] /\ spoiled'[k] = spoiled[k]
    BY <1>7
  <2>2. UNCHANGED <<granted, booting, online>>
    BY <1>7
  <2> QED BY <1>2, <1>4, <1>5, <2>1, <2>2, GoesOn
<1>9. ListShape'
  BY <1>1, <1>7, <1>8 DEF ListShape
<1>10. Kept(kind)'
  <2>1. CASE spoiled[kind]
    BY <1>7, <2>1 DEF Kept
  <2>2. CASE ~spoiled[kind]
    <3>1. /\ \A u \in ListThreads \ {t} : ~WorksOn(u, kind)'
          /\ kind \notin booting
          /\ BeingKept(kind, t)
      BY <1>2, <1>8, <2>2, Alone
    <3>2. WorksOn(t, kind)' /\ BeingKept(kind, t)'
      BY <1>4, <1>7, <1>8, <3>1 DEF WorksOn, Busy, BeingKept
    <3> QED BY <1>7, <3>1, <3>2, WorkedOnByOne
  <2> QED BY <2>1, <2>2
<1> QED BY <1>8, <1>9, <1>10 DEF ListInv

LEMMA WriteStep ==
  ASSUME ListInv, NEW t \in ListThreads, WriteList(t), UNCHANGED online
  PROVE  ListInv'
<1>1. ListShape /\ WorksOn(t, tasks[t].kind)
  BY IdleFacts DEF ListInv, WriteList, Busy
<1>2. PICK kind \in Kinds : kind = tasks[t].kind /\ WorksOn(t, kind)
  BY <1>1, IdleFacts
<1>3. PICK x : x = [tasks[t] EXCEPT !.at = "read"]
  OBVIOUS
<1>4. /\ x.at = "read" /\ x.names = tasks[t].names
      /\ x \in [at : {"read", "open", "write"}, kind : {kind}, names : Seq(Everybody)]
  <2>1. tasks[t] \in [at : {"read", "open", "write"}, kind : Kinds, names : Seq(Everybody)]
    BY <1>1, <1>2, IdleFacts DEF ListShape, WorksOn
  <2> QED BY <1>2, <1>3, <2>1
<1>5. tasks' = [tasks EXCEPT ![t] = x]
  BY <1>3 DEF WriteList
<1>6. lists[kind] \in Seq(Everybody)
  BY <1>1 DEF ListShape
<1>7. /\ listFiles' \in [Kinds -> Seq(Everybody)] /\ listFiles'[kind] = lists[kind]
      /\ \A k \in Kinds \ {kind} : listFiles'[k] = listFiles[k]
      /\ UNCHANGED <<lists, booting, granted, spoiled>>
  BY <1>1, <1>2, <1>6 DEF WriteList, ListShape
<1>8. /\ tasks' \in [ListThreads ->
              {Idle} \cup [at : {"read", "open", "write"}, kind : Kinds, names : Seq(Everybody)]]
      /\ tasks'[t] = x /\ \A u \in ListThreads \ {t} : tasks'[u] = tasks[u]
      /\ Closed'
      /\ \A k \in Kinds \ {kind} : Kept(k)'
  <2>1. \A k \in Kinds \ {kind} :
            lists'[k] = lists[k] /\ listFiles'[k] = listFiles[k] /\ spoiled'[k] = spoiled[k]
    BY <1>7
  <2>2. UNCHANGED <<granted, booting, online>>
    BY <1>7
  <2> QED BY <1>2, <1>4, <1>5, <2>1, <2>2, GoesOn
<1>9. ListShape'
  BY <1>1, <1>7, <1>8 DEF ListShape
<1>10. Kept(kind)'
  <2>1. CASE spoiled[kind]
    BY <1>7, <2>1 DEF Kept
  <2>2. CASE ~spoiled[kind]
    <3>1. /\ \A u \in ListThreads \ {t} : ~WorksOn(u, kind)'
          /\ kind \notin booting
          /\ BeingKept(kind, t)
      BY <1>2, <1>8, <2>2, Alone
    <3>2. WorksOn(t, kind)' /\ BeingKept(kind, t)'
      BY <1>4, <1>7, <1>8, <3>1 DEF WorksOn, Busy, BeingKept
    <3> QED BY <1>7, <3>1, <3>2, WorkedOnByOne
  <2> QED BY <2>1, <2>2
<1> QED BY <1>8, <1>9, <1>10 DEF ListInv

LEMMA ReadNameStep ==
  ASSUME ListInv, NEW t \in ListThreads, ReadName(t), UNCHANGED online
  PROVE  ListInv'
<1>1. ListShape /\ WorksOn(t, tasks[t].kind)
  BY IdleFacts DEF ListInv, ReadName, Busy
<1>2. PICK kind \in Kinds : kind = tasks[t].kind /\ WorksOn(t, kind)
  BY <1>1, IdleFacts
<1>3. PICK names, name, rest : names = tasks[t].names /\ name = Head(names) /\ rest = Tail(names)
  OBVIOUS
<1>4. /\ tasks[t] \in [at : {"read", "open", "write"}, kind : Kinds, names : Seq(Everybody)]
      /\ names \in Seq(Everybody) /\ names # <<>> /\ tasks[t].at = "read"
  BY <1>1, <1>2, <1>3, IdleFacts DEF ListShape, WorksOn, ReadName
<1>5. name \in Everybody /\ rest \in Seq(Everybody) /\ ToSet(names) = {name} \cup ToSet(rest)
  BY <1>3, <1>4, ToSetFacts
<1>6. lists[kind] \in Seq(Everybody) /\ IsInjective(lists[kind]) /\ UNCHANGED <<listFiles, booting, granted>>
  BY <1>1 DEF ListShape, ReadName
<1>7. CASE name \in ToSet(lists[kind])
  <2>1. PICK x : x = [tasks[t] EXCEPT !.names = rest]
    OBVIOUS
  <2>2. /\ x.at = "read" /\ x.names = rest
        /\ x \in [at : {"read", "open", "write"}, kind : {kind}, names : Seq(Everybody)]
    BY <1>2, <1>4, <1>5, <2>1
  <2>3. Listed(kind, name)
    BY <1>1, <1>7, ListedFacts
  <2>4. tasks' = [tasks EXCEPT ![t] = x] /\ UNCHANGED <<lists, spoiled>>
    BY <1>2, <1>3, <2>1, <2>3 DEF ReadName
  <2>5. /\ tasks' \in [ListThreads ->
              {Idle} \cup [at : {"read", "open", "write"}, kind : Kinds, names : Seq(Everybody)]]
        /\ tasks'[t] = x /\ \A u \in ListThreads \ {t} : tasks'[u] = tasks[u]
        /\ Closed'
        /\ \A k \in Kinds \ {kind} : Kept(k)'
    BY <1>2, <1>6, <2>2, <2>4, GoesOn
  <2>6. ListShape'
    BY <1>1, <1>6, <2>4, <2>5 DEF ListShape
  <2>7. Kept(kind)'
    <3>1. CASE spoiled[kind]
      BY <2>4, <3>1 DEF Kept
    <3>2. CASE ~spoiled[kind]
      <4>1. /\ \A u \in ListThreads \ {t} : ~WorksOn(u, kind)'
            /\ kind \notin booting
            /\ BeingKept(kind, t)
        BY <1>2, <2>5, <3>2, Alone
      <4>2. lists[kind] # <<>>
        BY <1>7 DEF ToSet
      <4>3. WorksOn(t, kind)'
        BY <2>2, <2>5 DEF WorksOn, Busy
      <4>4. listFiles[kind] = lists[kind]
        BY <1>4, <4>1, <4>2 DEF BeingKept
      <4>5. /\ ToSet(lists[kind]) \cup ToSet(rest) = granted[kind]
            /\ t # "main" => ToSet(lists[kind]) = granted[kind]
        BY <1>3, <1>5, <1>7, <4>1 DEF BeingKept
      <4>6. BeingKept(kind, t)'
        BY <1>6, <2>2, <2>4, <2>5, <4>4, <4>5 DEF BeingKept
      <4> QED BY <1>6, <4>1, <4>3, <4>6, WorkedOnByOne
    <3> QED BY <3>1, <3>2
  <2> QED BY <2>5, <2>6, <2>7 DEF ListInv
<1>8. CASE name \notin ToSet(lists[kind])
  <2>1. PICK list, x : list = Append(lists[kind], name) /\ x = [at |-> "open", kind |-> kind, names |-> rest]
    OBVIOUS
  <2>2. /\ list \in Seq(Everybody) /\ IsInjective(list) /\ ToSet(list) = ToSet(lists[kind]) \cup {name}
        /\ x \in [at : {"read", "open", "write"}, kind : {kind}, names : Seq(Everybody)]
    BY <1>5, <1>6, <1>8, <2>1, ToSetFacts
  <2>3. ~Listed(kind, name)
    BY <1>1, <1>8, ListedFacts
  <2>4. lists' = [lists EXCEPT ![kind] = list] /\ Task(t, kind, "open", rest)
    BY <1>2, <1>3, <2>1, <2>3 DEF ReadName
  <2>5. lists' \in [Kinds -> Seq(Everybody)] /\ lists'[kind] = list /\ \A k \in Kinds \ {kind} : lists'[k] = lists[k]
    BY <1>1, <2>2, <2>4 DEF ListShape
  <2>6. /\ spoiled' \in [Kinds -> BOOLEAN] /\ WorksOn(t, kind)'
        /\ \A k \in Kinds \ {kind} : spoiled'[k] = spoiled[k]
        /\ ~spoiled'[kind] => ~spoiled[kind]
    BY <1>1, <1>5, <2>4, TaskFacts
  <2>7. tasks' = [tasks EXCEPT ![t] = x]
    BY <2>1, <2>4 DEF Task
  <2>8. /\ tasks' \in [ListThreads ->
              {Idle} \cup [at : {"read", "open", "write"}, kind : Kinds, names : Seq(Everybody)]]
        /\ tasks'[t] = x /\ \A u \in ListThreads \ {t} : tasks'[u] = tasks[u]
        /\ Closed'
        /\ \A k \in Kinds \ {kind} : Kept(k)'
    BY <1>2, <1>6, <2>2, <2>5, <2>6, <2>7, GoesOn
  <2>9. ListShape'
    <3>1. \A k \in Kinds : IsInjective(lists'[k])
      BY <1>1, <2>2, <2>5 DEF ListShape
    <3> QED BY <1>1, <1>6, <2>5, <2>6, <2>8, <3>1 DEF ListShape
  <2>10. Kept(kind)'
    <3>1. CASE spoiled'[kind]
      BY <3>1 DEF Kept
    <3>2. CASE ~spoiled'[kind]
      <4>1. /\ \A u \in ListThreads \ {t} : ~WorksOn(u, kind)'
            /\ kind \notin booting
            /\ BeingKept(kind, t)
        BY <1>2, <2>6, <2>8, <3>2, Alone
      <4>2. t = "main"
        BY <1>3, <1>5, <1>8, <4>1 DEF BeingKept
      <4>3. BeingKept(kind, t)'
        BY <1>3, <1>5, <1>6, <2>1, <2>2, <2>5, <2>8, <4>1, <4>2 DEF BeingKept
      <4> QED BY <1>6, <2>6, <4>1, <4>3, WorkedOnByOne
    <3> QED BY <3>1, <3>2
  <2> QED BY <2>8, <2>9, <2>10 DEF ListInv
<1> QED BY <1>7, <1>8

(* Whatever does not concern the lists; people come and go while the game   *)
(* is on. *)
LEMMA ListsUntouched ==
  ASSUME ListInv, UNCHANGED listVars, online' \in [Names -> {"out", "in", "leaving"}],
         Serving \/ UNCHANGED online
  PROVE  ListInv'
<1>1. ListShape' /\ Closed'
  BY DEF ListInv, ListShape, Closed, Serving, Busy, listVars, IsInjective
<1>2. ASSUME NEW kind \in Kinds PROVE Kept(kind)'
  BY Elsewhere DEF ListInv, listVars
<1> QED BY <1>1, <1>2 DEF ListInv

LEMMA CommandLists ==
  ASSUME ListInv, NEW name \in Names, Command(name)
  PROVE  ListInv'
<1> USE DEF playerVars
<1>1. online \in [Names -> {"out", "in", "leaving"}]
  BY DEF ListInv, ListShape
<1>2. Kinds = {"operators", "whitelist"} /\ name \in ListThreads
  BY DEF Kinds, ListThreads
<1>3. ASSUME NEW label, Types(name, label) PROVE Serving /\ ~Busy(name)
  BY <1>3 DEF Types, In, ListInv, Closed
<1>4. ASSUME NEW target \in Names \cup Others, CommandOp(name, target) PROVE ListInv'
  BY <1>2, <1>3, <1>4, AddStep DEF CommandOp, Everybody
<1>5. ASSUME NEW target \in Names \cup Others, CommandDeop(name, target) PROVE ListInv'
  BY <1>2, <1>3, <1>5, RemoveStep DEF CommandDeop, Everybody
<1>6. ASSUME NEW target \in Names \cup Others, CommandWhitelist(name, target) PROVE ListInv'
  <2>1. Serving /\ ~Busy(name) /\ UNCHANGED online /\ target \in Everybody
    BY <1>3, <1>6 DEF CommandWhitelist, Everybody
  <2>2. CASE AddGeneric(name, "whitelist", target)
    BY <1>2, <2>1, <2>2, AddStep
  <2>3. CASE RemoveGeneric(name, "whitelist", target)
    BY <1>2, <2>1, <2>3, RemoveStep
  <2>4. CASE ReadGeneric(name, "whitelist") /\ UNCHANGED booting
    BY <1>2, <2>1, <2>4, ReadStep
  <2> QED BY <1>6, <2>2, <2>3, <2>4 DEF CommandWhitelist
<1>7. ASSUME NEW target \in Names \cup Others, CommandKill(name, target) PROVE ListInv'
  BY <1>1, <1>7, ListsUntouched DEF CommandKill
<1>8. ASSUME NEW target \in Names, CommandKick(name, target) PROVE ListInv'
  <2>1. Serving /\ online' \in [Names -> {"out", "in", "leaving"}] /\ UNCHANGED listVars
    BY <1>1, <1>3, <1>8 DEF CommandKick, Leave
  <2> QED BY <2>1, ListsUntouched
<1>9. ASSUME NEW id, NEW amount, CommandGive(name, id, amount) PROVE ListInv'
  BY <1>1, <1>9, ListsUntouched DEF CommandGive
<1>10. ASSUME NEW n, CommandHealth(name, n) PROVE ListInv'
  BY <1>1, <1>10, ListsUntouched DEF CommandHealth, SetHealth
<1>11. ASSUME CommandCreative(name) PROVE ListInv'
  BY <1>1, <1>11, ListsUntouched DEF CommandCreative
<1>12. ASSUME NEW rule, CommandGamerule(name, rule) PROVE ListInv'
  BY <1>1, <1>12, ListsUntouched DEF CommandGamerule
<1>13. ASSUME NEW type, CommandInterface(name, type) PROVE ListInv'
  BY <1>1, <1>13, ListsUntouched DEF CommandInterface
<1> QED BY <1>4, <1>5, <1>6, <1>7, <1>8, <1>9, <1>10, <1>11, <1>12, <1>13 DEF Command

LEMMA RestartLists ==
  ASSUME ListInv, Restart
  PROVE  ListInv'
<1>1. /\ online' = [n \in Names |-> "out"] /\ lists' = [k \in Kinds |-> <<>>]
      /\ tasks' = [t \in ListThreads |-> Idle] /\ booting' = Kinds /\ UNCHANGED <<listFiles, granted>>
      /\ spoiled' = [k \in Kinds |-> spoiled[k] \/ \E t \in ListThreads : WorksOn(t, k)]
  BY DEF Restart, WorksOn
<1>2. \A t \in Names : t \in ListThreads
  BY DEF ListThreads
<1>3. PICK none : none = <<>> /\ none \in Seq(Everybody) /\ IsInjective(none)
  <2>1. <<>> \in Seq(Everybody) /\ IsInjective(<<>>)
    BY DEF IsInjective
  <2> QED BY <2>1
<1>4. lists' \in [Kinds -> Seq(Everybody)] /\ \A k \in Kinds : IsInjective(lists'[k])
  BY <1>1, <1>3
<1>5. spoiled' \in [Kinds -> BOOLEAN]
  BY <1>1 DEF ListInv, ListShape
<1>6. ListShape' /\ Closed'
  BY <1>1, <1>2, <1>4, <1>5 DEF ListInv, ListShape, Closed
<1>7. ASSUME NEW kind \in Kinds PROVE Kept(kind)'
  <2>1. CASE spoiled'[kind]
    BY <2>1 DEF Kept
  <2>2. CASE ~spoiled'[kind]
    <3>1. ~spoiled[kind] /\ \A t \in ListThreads : ~WorksOn(t, kind)
      BY <1>1, <2>2
    <3>2. ToSet(listFiles[kind]) = granted[kind]
      BY <3>1 DEF ListInv, Kept
    <3>3. \A t \in ListThreads : ~WorksOn(t, kind)'
      BY <1>1 DEF WorksOn, Busy, Idle
    <3> QED BY <1>1, <3>2, <3>3 DEF Kept
  <2> QED BY <2>1, <2>2
<1> QED BY <1>6, <1>7 DEF ListInv

LEMMA InitLists == Init => ListInv
<1> SUFFICES ASSUME Init PROVE ListInv
  OBVIOUS
<1>1. /\ online = [n \in Names |-> "out"] /\ listFiles \in OldLists
      /\ lists = [k \in Kinds |-> <<>>] /\ granted = [k \in Kinds |-> ToSet(listFiles[k])]
      /\ spoiled = [k \in Kinds |-> FALSE] /\ tasks = [t \in ListThreads |-> Idle] /\ booting = Kinds
  BY DEF Init
<1>2. listFiles \in [Kinds -> Seq(Everybody)]
  BY <1>1, ListAssumption DEF Everybody
<1>3. PICK none : none = <<>> /\ none \in Seq(Everybody) /\ IsInjective(none)
  <2>1. <<>> \in Seq(Everybody) /\ IsInjective(<<>>)
    BY DEF IsInjective
  <2> QED BY <2>1
<1>4. lists \in [Kinds -> Seq(Everybody)] /\ \A k \in Kinds : IsInjective(lists[k]) /\ lists[k] = <<>>
  BY <1>1, <1>3
<1>5. granted \in [Kinds -> SUBSET Everybody]
  BY <1>1, <1>2, ToSetFacts
<1>6. \A t \in Names : t \in ListThreads
  BY DEF ListThreads
<1>7. ListShape /\ Closed
  BY <1>1, <1>2, <1>4, <1>5, <1>6 DEF ListShape, Closed
<1>8. ASSUME NEW kind \in Kinds PROVE Kept(kind)
  <2>1. \A t \in ListThreads : ~WorksOn(t, kind)
    BY <1>1 DEF WorksOn, Busy, Idle
  <2> QED BY <1>1, <1>4, <2>1 DEF Kept
<1> QED BY <1>7, <1>8 DEF ListInv

LEMMA NextLists == ListInv /\ [Next]_vars => ListInv'
<1> SUFFICES ASSUME ListInv, [Next]_vars PROVE ListInv'
  OBVIOUS
<1> USE DEF playerVars
<1>1. online \in [Names -> {"out", "in", "leaving"}]
  BY DEF ListInv, ListShape
<1>2. ASSUME NEW name \in Names, Command(name) PROVE ListInv'
  BY <1>2, CommandLists
<1>3. ASSUME NEW name \in Names, Packet(name) PROVE ListInv'
  <2>1. UNCHANGED online
    BY <1>3 DEF Packet, Handler, Dig, Place, ChangeHeldItem, Respawn, ClickBlock, CloseWindow
  <2> QED BY <1>1, <1>3, <2>1, ListsUntouched DEF Packet
<1>4. ASSUME NEW name \in Names, Session(name) PROVE ListInv'
  <2>1. online' \in [Names -> {"out", "in", "leaving"}]
    <3>1. CASE Login(name)
      <4>1. CASE file[name] = TornFile
        BY <1>1, <3>1, <4>1 DEF Login
      <4>2. CASE file[name] # TornFile
        <5>1. online' = [online EXCEPT ![name] = "in"]
          BY <3>1, <4>2 DEF Login
        <5> QED BY <1>1, <5>1
      <4> QED BY <4>1, <4>2
    <3>2. CASE Leave(name)
      BY <1>1, <3>2 DEF Leave
    <3>3. CASE Gone(name)
      BY <1>1, <3>3 DEF Gone
    <3>4. CASE ShowWindow(name)
      BY <1>1, <3>4 DEF ShowWindow
    <3> QED BY <1>4, <3>1, <3>2, <3>3, <3>4 DEF Session
  <2> QED BY <1>4, <2>1, ListsUntouched DEF Session
<1>5. ASSUME NEW name \in Names, SaveAll(name) PROVE ListInv'
  BY <1>1, <1>5, ListsUntouched DEF SaveAll
<1>6. ASSUME NEW name \in Names, NEW t \in Threads, SaveStep(name, t) PROVE ListInv'
  BY <1>1, <1>6, ListsUntouched DEF SaveStep
<1>7. ASSUME NEW thread \in ListThreads, ListStep(thread) PROVE ListInv'
  <2>1. UNCHANGED online
    BY <1>7 DEF ListStep
  <2> QED BY <1>7, <2>1, ReadNameStep, ReadEndStep, OpenStep, WriteStep DEF ListStep
<1>8. ASSUME NEW kind \in Kinds, Boot(kind) PROVE ListInv'
  BY <1>8, ReadStep DEF Boot, ListThreads
<1>9. CASE Restart
  BY <1>9, RestartLists
<1>10. CASE UNCHANGED vars
  BY <1>1, <1>10, ListsUntouched DEF vars
<1> QED BY <1>2, <1>3, <1>4, <1>5, <1>6, <1>7, <1>8, <1>9, <1>10 DEF Next

LEMMA ListsAlways == Spec => []ListInv
BY InitLists, NextLists, PTL DEF Spec

(* Whoever was made an operator or put on the whitelist, and not taken off, *)
(* is so after any commands, restarts and ends of the process, unless two   *)
(* threads were at the list at once or the process ended while one was.     *)
THEOREM RightsSurvive == Spec => []RightsKept
<1>1. ListInv => RightsKept
  <2> SUFFICES ASSUME ListInv, NEW k \in Kinds, Serving, ~spoiled[k],
                      \A t \in ListThreads : Busy(t) => tasks[t].kind # k
               PROVE  ToSet(lists[k]) = granted[k] /\ listFiles[k] = lists[k]
    BY DEF RightsKept
  <2>1. \A t \in ListThreads : ~WorksOn(t, k)
    BY DEF WorksOn
  <2> QED BY <2>1 DEF ListInv, Kept, Serving
<1> QED BY <1>1, ListsAlways, PTL

-----------------------------------------------------------------------------
(* The players. *)

(* What is on file, or on its way there. *)
FileNumbers == Numbered \cup ARMOR_SLOT .. ARMOR_SLOT + 3

Whole ==
  [state : {"whole"}, slots : UNION {[S -> Item] : S \in SUBSET FileNumbers}, health : 0 .. HEALTH_MAX]

SaveStates == {NotSaving} \cup [at : {"open", "write"}, data : Whole]

Simple ==
  /\ online \in [Names -> {"out", "in", "leaving"}]
  /\ held \in [Names -> 0 .. COLS - 1]
  /\ creative \in [Names -> BOOLEAN]
  /\ health \in [Names -> 0 .. HEALTH_MAX]
  /\ mixed \in [Names -> BOOLEAN]
  /\ ops \in 0 .. MaxOps

Windows ==
  /\ windowIndex \in [Names -> 0 .. ops]
  /\ activeWindow \in [Names -> WindowTypes]
  /\ \A n \in Names : windowIndex[n] = 0 <=> activeWindow[n] = NONE

Balanced ==
  /\ slots \in [Names -> Slots]
  /\ balance \in [Names -> Int]
  /\ \A n \in Names : online[n] = "in" => Owned(slots[n]) = balance[n]

(* The file, or what is about to be written, has the slots a player left    *)
(* with. *)
Holds(f, s) == f.state = "whole" /\ f.slots = NbtSlots(s)

Back(n) ==
  /\ online[n] # "leaving" => ~Saving(n, "own")
  /\ ~mixed[n] /\ online[n] # "in" =>
       /\ online[n] = "leaving" => slots[n] = left[n]
       /\ Saving(n, "own") => ~Saving(n, "main") /\ Holds(saves[n]["own"].data, left[n])
       /\ Saving(n, "main") => Holds(saves[n]["main"].data, left[n])
       /\ ~Saving(n, "own") => file[n] = TornFile \/ Holds(file[n], left[n])

Filed ==
  /\ file \in [Names -> {NoFile, TornFile} \cup Whole]
  /\ saves \in [Names -> [Threads -> SaveStates]]
  /\ left \in [Names -> Slots]
  /\ \A n \in Names : Back(n)

PlayerInv == Simple /\ Windows /\ Balanced /\ Filed

OpsCounted == ops' \in {ops, ops + 1} /\ ops' <= MaxOps

(* Each part stays while what it is about does. *)
LEMMA SimpleStays ==
  ASSUME Simple, UNCHANGED <<online, held, creative, health, mixed>>, OpsCounted
  PROVE  Simple'
BY ListAssumption DEF Simple, OpsCounted

LEMMA WindowsStay ==
  ASSUME Simple, Windows, UNCHANGED <<windowIndex, activeWindow>>, OpsCounted
  PROVE  Windows'
<1>1. \A n \in 0 .. ops : n \in 0 .. ops'
  BY DEF Simple, OpsCounted
<1> QED BY <1>1 DEF Windows

LEMMA BalancedStays ==
  ASSUME Balanced, UNCHANGED <<slots, balance>>, \A n \in Names : online'[n] = "in" => online[n] = "in"
  PROVE  Balanced'
BY DEF Balanced

LEMMA BackStays ==
  ASSUME NEW n, Back(n),
         online'[n] = online[n], slots'[n] = slots[n], left'[n] = left[n], file'[n] = file[n],
         saves'[n] = saves[n], mixed'[n] = mixed[n]
  PROVE  Back(n)'
BY DEF Back, Saving

(* A player who plays may change its slots. *)
LEMMA FiledStays ==
  ASSUME Filed, UNCHANGED <<online, left, file, saves, mixed>>,
         \A n \in Names : online[n] = "in" \/ slots'[n] = slots[n]
  PROVE  Filed'
<1>1. ASSUME NEW n \in Names PROVE Back(n)'
  <2>1. CASE online[n] = "in"
    BY <1>1, <2>1 DEF Filed, Back, Saving
  <2>2. CASE slots'[n] = slots[n]
    BY <2>2, BackStays DEF Filed
  <2> QED BY <2>1, <2>2
<1> QED BY <1>1 DEF Filed

Untouched ==
  /\ UNCHANGED <<online, slots, held, creative, health, windowIndex, activeWindow, balance, file, saves, left, mixed>>
  /\ OpsCounted

LEMMA PlayersUntouched ==
  ASSUME PlayerInv, Untouched
  PROVE  PlayerInv'
<1>1. /\ UNCHANGED <<online, held, creative, health, mixed>> /\ UNCHANGED <<windowIndex, activeWindow>>
      /\ UNCHANGED <<slots, balance>> /\ UNCHANGED <<online, left, file, saves, mixed>>
      /\ OpsCounted
  BY DEF Untouched
<1>2. Simple' /\ Windows' /\ Balanced' /\ Filed'
  BY <1>1, SimpleStays, WindowsStay, BalancedStays, FiledStays DEF PlayerInv
<1> QED BY <1>2 DEF PlayerInv

(* The slots of a player who plays take so much. *)
LEMMA BalancedChanges ==
  ASSUME Balanced, UNCHANGED online, NEW name \in Names, NEW s \in Slots, NEW b \in Int,
         slots' = [slots EXCEPT ![name] = s], balance' = [balance EXCEPT ![name] = b],
         Owned(slots[name]) = balance[name] => Owned(s) = b
  PROVE  Balanced' /\ \A n \in Names : n = name \/ slots'[n] = slots[n]
<1>1. slots' \in [Names -> Slots] /\ balance' \in [Names -> Int]
  BY DEF Balanced
<1>2. slots'[name] = s /\ balance'[name] = b
      /\ \A n \in Names \ {name} : slots'[n] = slots[n] /\ balance'[n] = balance[n]
  BY DEF Balanced
<1>3. ASSUME NEW n \in Names, online'[n] = "in" PROVE Owned(slots'[n]) = balance'[n]
  <2>1. online[n] = "in"
    BY <1>3
  <2>2. Owned(slots[n]) = balance[n]
    BY <2>1 DEF Balanced
  <2>3. CASE n = name
    BY <1>2, <2>2, <2>3
  <2>4. CASE n # name
    BY <1>2, <2>2, <2>4
  <2> QED BY <2>3, <2>4
<1> QED BY <1>1, <1>2, <1>3 DEF Balanced

LEMMA SlotsChange ==
  ASSUME PlayerInv, OpsCounted, NEW name \in Names, In(name), NEW s \in Slots, NEW b \in Int,
         UNCHANGED <<online, held, creative, mixed, windowIndex, activeWindow, file, saves, left>>,
         health' \in [Names -> 0 .. HEALTH_MAX],
         slots' = [slots EXCEPT ![name] = s], balance' = [balance EXCEPT ![name] = b],
         Owned(slots[name]) = balance[name] => Owned(s) = b
  PROVE  PlayerInv'
<1>1. online[name] = "in" /\ Simple /\ Windows /\ Balanced /\ Filed
  BY DEF In, PlayerInv
<1>2. Balanced' /\ \A n \in Names : n = name \/ slots'[n] = slots[n]
  BY <1>1, BalancedChanges
<1>3. Simple'
  BY <1>1, ListAssumption DEF Simple, OpsCounted
<1>4. Windows'
  BY <1>1, WindowsStay
<1>5. Filed'
  BY <1>1, <1>2, FiledStays
<1> QED BY <1>2, <1>3, <1>4, <1>5 DEF PlayerInv

LEMMA DigKeeps ==
  ASSUME PlayerInv, OpsCounted, NEW name \in Names, NEW b \in Dug, Dig(name, b[1], b[2])
  PROVE  PlayerInv'
<1>1. PICK type, meta : type = b[1] /\ meta = b[2] /\ type \in 0 .. BLOCK.MAX /\ meta \in 0 .. 15
  BY PlayerAssumption
<1>2. PICK item : /\ item = GetDrop(type, meta)
                  /\ item \in [id : Int, amount : Int, damage : Int]
                  /\ item.amount # 0 => item.id \in Nat \ {BLOCK.AIR}
                  /\ Asked(item) = item.amount
  BY <1>1, DropFacts
<1>3. PICK old : old = slots[name] /\ old \in Slots
  BY DEF PlayerInv, Balanced
<1>4. PICK s, l : s = Give(old, item).slots /\ l = Give(old, item).left
  OBVIOUS
<1>5. s \in Slots /\ l \in Nat /\ Owned(s) = Owned(old) + item.amount - l
  BY <1>2, <1>3, <1>4, GiveFacts
<1>6. balance[name] \in Int /\ item.amount \in Int
  BY <1>2 DEF PlayerInv, Balanced
<1>7. PICK c : c = balance[name] + item.amount - l /\ c \in Int
  BY <1>5, <1>6
<1>8. /\ In(name) /\ UNCHANGED <<online, held, creative, health, mixed, windowIndex, activeWindow, file, saves, left>>
      /\ slots' = [slots EXCEPT ![name] = s] /\ balance' = [balance EXCEPT ![name] = c]
  BY <1>1, <1>2, <1>3, <1>4, <1>7 DEF Dig
<1>9. Owned(old) = balance[name] => Owned(s) = c
  BY <1>5, <1>7
<1>10. health' \in [Names -> 0 .. HEALTH_MAX]
  BY <1>8 DEF PlayerInv, Simple
<1> QED BY <1>3, <1>5, <1>7, <1>8, <1>9, <1>10, SlotsChange

LEMMA GiveKeeps ==
  ASSUME PlayerInv, NEW name \in Names, NEW id \in Placeable, NEW amount \in {-1, 1}, CommandGive(name, id, amount)
  PROVE  PlayerInv'
<1>1. id \in Nat \ {BLOCK.AIR}
  BY PlayerAssumption
<1>2. PICK item : /\ item = [id |-> id, amount |-> IF amount < 0 THEN GetMaxStack(id) ELSE amount, damage |-> 0]
                  /\ item \in [id : Int, amount : Int, damage : Int]
                  /\ item.id \in Nat \ {BLOCK.AIR}
                  /\ Asked(item) = item.amount
  <2>1. PICK k : k = (IF amount < 0 THEN GetMaxStack(id) ELSE amount) /\ k \in Nat
    BY MaxStack
  <2>2. PICK item : item = [id |-> id, amount |-> k, damage |-> 0]
    OBVIOUS
  <2> QED BY <1>1, <2>1, <2>2 DEF Asked
<1>3. PICK old : old = slots[name] /\ old \in Slots
  BY DEF PlayerInv, Balanced
<1>4. PICK s, l : s = Give(old, item).slots /\ l = Give(old, item).left
  OBVIOUS
<1>5. s \in Slots /\ l \in Nat /\ Owned(s) = Owned(old) + item.amount - l
  BY <1>2, <1>3, <1>4, GiveFacts
<1>6. balance[name] \in Int /\ item.amount \in Int
  BY <1>2 DEF PlayerInv, Balanced
<1>7. PICK c : c = balance[name] + item.amount - l /\ c \in Int
  BY <1>5, <1>6
<1>8. /\ In(name) /\ ops' = ops + 1 /\ ops < MaxOps
      /\ UNCHANGED <<online, held, creative, health, mixed, windowIndex, activeWindow, file, saves, left>>
      /\ slots' = [slots EXCEPT ![name] = s] /\ balance' = [balance EXCEPT ![name] = c]
  BY <1>2, <1>3, <1>4, <1>7 DEF CommandGive, Types
<1>9. Owned(old) = balance[name] => Owned(s) = c
  BY <1>5, <1>7
<1>10. health' \in [Names -> 0 .. HEALTH_MAX] /\ OpsCounted
  BY <1>8, ListAssumption DEF PlayerInv, Simple, OpsCounted
<1> QED BY <1>3, <1>5, <1>7, <1>8, <1>9, <1>10, SlotsChange

LEMMA PlaceKeeps ==
  ASSUME PlayerInv, OpsCounted, NEW name \in Names, Place(name)
  PROVE  PlayerInv'
<1>1. PICK old, c : old = slots[name] /\ old \in Slots /\ c = held[name] /\ c \in 0 .. COLS - 1
  BY DEF PlayerInv, Balanced, Simple
<1>2. CASE creative[name]
  <2>1. Untouched
    BY <1>2 DEF Place, Untouched
  <2> QED BY <2>1, PlayersUntouched
<1>3. CASE ~creative[name]
  <2>1. PICK item, s : item = GetHeldItem(old, c) /\ s = DecrementHotbar(old, c)
    OBVIOUS
  <2>2. CanDecrementHotbar(old, c)
    BY <1>1 DEF Place
  <2>3. s \in Slots /\ Owned(s) = IF IsHoe(item.id) THEN Owned(old) ELSE Owned(old) - 1
    BY <1>1, <2>1, <2>2, DecrementFacts
  <2>4. balance[name] \in Int
    BY DEF PlayerInv, Balanced
  <2>5. PICK b : b = (IF IsHoe(item.id) THEN balance[name] ELSE balance[name] - 1) /\ b \in Int
    BY <2>4
  <2>6. /\ In(name)
        /\ UNCHANGED <<online, held, creative, health, mixed, windowIndex, activeWindow, file, saves, left>>
        /\ slots' = [slots EXCEPT ![name] = s] /\ balance' = [balance EXCEPT ![name] = b]
    BY <1>1, <1>3, <2>1, <2>5 DEF Place
  <2>7. Owned(old) = balance[name] => Owned(s) = b
    BY <2>3, <2>5
  <2>8. health' \in [Names -> 0 .. HEALTH_MAX]
    BY <2>6 DEF PlayerInv, Simple
  <2> QED BY <1>1, <2>3, <2>5, <2>6, <2>7, <2>8, SlotsChange
<1> QED BY <1>2, <1>3

LEMMA RespawnKeeps ==
  ASSUME PlayerInv, OpsCounted, NEW name \in Names, NEW keep, Respawn(name, keep)
  PROVE  PlayerInv'
<1>1. PICK old : old = slots[name] /\ old \in Slots
  BY DEF PlayerInv, Balanced
<1>2. PICK n : n = Stored(old.inventory) /\ n \in Int
  BY <1>1, SlotsAre
<1>3. Owned(old) \in Int
  BY <1>1, SlotsAre
<1>4. PICK s : s = (IF keep THEN old ELSE ClearInventory(old))
  OBVIOUS
<1>5. s \in Slots /\ Owned(s) = IF keep THEN Owned(old) ELSE Owned(old) - n
  BY <1>1, <1>2, <1>4, ClearFacts
<1>6. balance[name] \in Int
  BY DEF PlayerInv, Balanced
<1>7. PICK b : b = (IF keep THEN balance[name] ELSE balance[name] - n) /\ b \in Int
  BY <1>2, <1>6
<1>8. /\ In(name)
      /\ UNCHANGED <<online, held, creative, mixed, windowIndex, activeWindow, file, saves, left>>
      /\ slots' = [slots EXCEPT ![name] = s] /\ balance' = [balance EXCEPT ![name] = b]
      /\ health' = [health EXCEPT ![name] = HEALTH_MAX]
  BY <1>1, <1>2, <1>4, <1>7 DEF Respawn
<1>9. Owned(old) = balance[name] => Owned(s) = b
  BY <1>5, <1>7
<1>10. health' \in [Names -> 0 .. HEALTH_MAX]
  BY <1>8 DEF PlayerInv, Simple, HEALTH_MAX
<1> QED BY <1>1, <1>5, <1>7, <1>8, <1>9, <1>10, SlotsChange

(* What changes nothing that a player owns, nor its file. *)
LEMMA OwnsTheSame ==
  ASSUME PlayerInv, UNCHANGED <<online, slots, balance, left, file, saves, mixed>>, Simple', Windows'
  PROVE  PlayerInv'
BY BalancedStays, FiledStays DEF PlayerInv

LEMMA HeldKeeps ==
  ASSUME PlayerInv, OpsCounted, NEW name \in Names, NEW c \in 0 .. COLS - 1, ChangeHeldItem(name, c)
  PROVE  PlayerInv'
<1>1. Simple'
  BY ListAssumption DEF ChangeHeldItem, PlayerInv, Simple, OpsCounted
<1>2. Windows'
  BY WindowsStay DEF ChangeHeldItem, PlayerInv
<1> QED BY <1>1, <1>2, OwnsTheSame DEF ChangeHeldItem

LEMMA ClampedFits == \A n \in Int : Clamped(Int8(n)) \in 0 .. HEALTH_MAX /\ Clamped(n) \in 0 .. HEALTH_MAX
<1>1. \A n \in Int : Clamped(n) \in 0 .. HEALTH_MAX
  BY DEF Clamped, HEALTH_MAX
<1>2. \A n \in Int : Int8(n) \in Int
  BY DEF Int8
<1> QED BY <1>1, <1>2

LEMMA HealthKeeps ==
  ASSUME PlayerInv, OpsCounted, NEW name \in Names, NEW h \in 0 .. HEALTH_MAX,
         health' = [health EXCEPT ![name] = h],
         UNCHANGED <<online, slots, held, creative, windowIndex, activeWindow, balance, file, saves, left, mixed>>
  PROVE  PlayerInv'
<1>1. Simple'
  BY ListAssumption DEF PlayerInv, Simple, OpsCounted
<1>2. Windows'
  BY WindowsStay DEF PlayerInv
<1> QED BY <1>1, <1>2, OwnsTheSame

LEMMA CreativeKeeps ==
  ASSUME PlayerInv, OpsCounted, NEW name \in Names, CommandCreative(name)
  PROVE  PlayerInv'
<1>1. Simple'
  BY ListAssumption DEF CommandCreative, PlayerInv, Simple, OpsCounted
<1>2. Windows'
  BY WindowsStay DEF CommandCreative, PlayerInv
<1> QED BY <1>1, <1>2, OwnsTheSame DEF CommandCreative

LEMMA OpenKeeps ==
  ASSUME PlayerInv, OpsCounted, ops' = ops + 1, NEW name \in Names, NEW type \in Clicked, OpenWindow(name, type),
         UNCHANGED <<online, slots, held, creative, health, balance, file, saves, left, mixed>>
  PROVE  PlayerInv'
<1>1. Simple'
  BY SimpleStays DEF PlayerInv
<1>2. type \in WindowTypes /\ type # NONE
  BY PlayerAssumption DEF WindowTypes, NONE
<1>3. Windows'
  <2>1. PICK i : i = windowIndex[name] + 1 /\ i \in 0 .. ops' /\ i # 0 /\ \A n \in 0 .. ops : n \in 0 .. ops'
    BY DEF PlayerInv, Windows, Simple
  <2>2. windowIndex' = [windowIndex EXCEPT ![name] = i] /\ activeWindow' = [activeWindow EXCEPT ![name] = type]
    BY <2>1 DEF OpenWindow
  <2> QED BY <1>2, <2>1, <2>2 DEF PlayerInv, Windows
<1> QED BY <1>1, <1>3, OwnsTheSame

LEMMA CloseKeeps ==
  ASSUME PlayerInv, OpsCounted, NEW name \in Names, CloseWindow(name)
  PROVE  PlayerInv'
<1>1. Simple'
  BY SimpleStays DEF PlayerInv, CloseWindow
<1>2. Windows'
  <2>1. PICK i : i = windowIndex[name] - 1 /\ windowIndex[name] \in 0 .. ops /\ i \in Int
    BY DEF PlayerInv, Windows
  <2>2. PICK j : j = (IF i <= 0 THEN 0 ELSE i) /\ j \in 0 .. ops' /\ \A n \in 0 .. ops : n \in 0 .. ops'
    BY <2>1 DEF OpsCounted, PlayerInv, Simple
  <2>3. PICK t : /\ t = (IF i <= 0 THEN NONE ELSE activeWindow[name]) /\ t \in WindowTypes
                 /\ t = NONE <=> j = 0
    BY <2>1, <2>2 DEF PlayerInv, Windows, WindowTypes, NONE
  <2>4. windowIndex' = [windowIndex EXCEPT ![name] = j] /\ activeWindow' = [activeWindow EXCEPT ![name] = t]
    BY <2>1, <2>2, <2>3 DEF CloseWindow
  <2> QED BY <2>2, <2>3, <2>4 DEF PlayerInv, Windows
<1> QED BY <1>1, <1>2, OwnsTheSame DEF CloseWindow

-----------------------------------------------------------------------------
(* A player comes, goes and is saved. *)

(* The save of one player by one thread goes on. *)
LEMMA SavesChange ==
  ASSUME saves \in [Names -> [Threads -> SaveStates]], NEW name \in Names, NEW t \in Threads, NEW x \in SaveStates,
         saves' = [saves EXCEPT ![name][t] = x]
  PROVE  /\ saves' \in [Names -> [Threads -> SaveStates]]
         /\ saves'[name][t] = x
         /\ \A n \in Names : n # name => saves'[n] = saves[n]
         /\ \A u \in Threads : u # t => saves'[name][u] = saves[name][u]
OBVIOUS

LEMMA WholeFacts ==
  /\ \A s \in Slots, h \in 0 .. HEALTH_MAX :
       [state |-> "whole", slots |-> NbtSlots(s), health |-> h] \in Whole
  /\ \A f \in Whole : /\ f.state = "whole" /\ f.health \in 0 .. HEALTH_MAX
                      /\ Loadable(f.slots)
  /\ NoFile \notin Whole /\ TornFile \notin Whole /\ NoFile # TornFile
<1>1. ASSUME NEW s \in Slots, NEW h \in 0 .. HEALTH_MAX
      PROVE  [state |-> "whole", slots |-> NbtSlots(s), health |-> h] \in Whole
  <2>1. PICK nbt : nbt = NbtSlots(s)
    OBVIOUS
  <2>2. nbt \in [DOMAIN nbt -> Item] /\ DOMAIN nbt \in SUBSET FileNumbers
    BY <2>1, SaveFacts DEF FileNumbers
  <2>3. nbt \in UNION {[S -> Item] : S \in SUBSET FileNumbers}
    BY <2>2
  <2> QED BY <2>1, <2>3 DEF Whole
<1>2. ASSUME NEW f \in Whole
      PROVE  f.state = "whole" /\ f.health \in 0 .. HEALTH_MAX /\ Loadable(f.slots)
  <2>1. f.slots \in UNION {[S -> Item] : S \in SUBSET FileNumbers} /\ f.state = "whole" /\ f.health \in 0 .. HEALTH_MAX
    BY DEF Whole
  <2>2. PICK S \in SUBSET FileNumbers : f.slots \in [S -> Item]
    BY <2>1
  <2>3. DOMAIN f.slots = S
    BY <2>2
  <2> QED BY <2>1, <2>2, <2>3 DEF Loadable, FileNumbers
<1>3. NoFile.state = "none" /\ TornFile.state = "torn"
  BY DEF NoFile, TornFile
<1>4. NoFile \notin Whole /\ TornFile \notin Whole /\ NoFile # TornFile
  BY <1>2, <1>3
<1> QED BY <1>1, <1>2, <1>4

LEMMA SaveStateFacts ==
  ASSUME NEW n \in Names, NEW t \in Threads, saves \in [Names -> [Threads -> SaveStates]]
  PROVE  /\ saves[n][t] \in SaveStates
         /\ ~Saving(n, t) => saves[n][t] = NotSaving
         /\ Saving(n, t) => /\ saves[n][t] = [at |-> saves[n][t].at, data |-> saves[n][t].data]
                            /\ saves[n][t].at \in {"open", "write"} /\ saves[n][t].data \in Whole
BY DEF SaveStates, Saving, NotSaving

LEMMA BeginSaveFacts ==
  ASSUME PlayerInv, NEW name \in Names, NEW t \in Threads, BeginSave(name, t)
  PROVE  /\ saves' \in [Names -> [Threads -> SaveStates]]
         /\ ~Saving(name, t) /\ saves'[name][t].at = "open" /\ Holds(saves'[name][t].data, slots[name])
         /\ \A n \in Names : n # name => saves'[n] = saves[n]
         /\ \A u \in Threads : u # t => saves'[name][u] = saves[name][u]
         /\ mixed' \in [Names -> BOOLEAN]
         /\ mixed'[name] = (mixed[name] \/ \E u \in Threads \ {t} : Saving(name, u))
         /\ \A n \in Names : n # name => mixed'[n] = mixed[n]
<1>1. slots[name] \in Slots /\ health[name] \in 0 .. HEALTH_MAX
  BY DEF PlayerInv, Balanced, Simple
<1>2. PICK d : d = Data(name) /\ d \in Whole /\ Holds(d, slots[name])
  <2>1. PICK d : d = [state |-> "whole", slots |-> NbtSlots(slots[name]), health |-> health[name]]
    OBVIOUS
  <2>2. d \in Whole
    BY <1>1, <2>1, WholeFacts
  <2>3. d.state = "whole" /\ d.slots = NbtSlots(slots[name])
    BY <2>1
  <2> QED BY <2>1, <2>2, <2>3 DEF Data, Holds
<1>3. PICK x : x = [at |-> "open", data |-> d] /\ x \in SaveStates
  <2>1. PICK x : x = [at |-> "open", data |-> d]
    OBVIOUS
  <2>2. x \in [at : {"open", "write"}, data : Whole]
    BY <1>2, <2>1
  <2> QED BY <2>1, <2>2 DEF SaveStates
<1>4. saves \in [Names -> [Threads -> SaveStates]] /\ saves' = [saves EXCEPT ![name][t] = x]
  BY <1>2, <1>3 DEF PlayerInv, Filed, BeginSave
<1>5. /\ saves' \in [Names -> [Threads -> SaveStates]]
      /\ saves'[name][t] = x
      /\ \A n \in Names : n # name => saves'[n] = saves[n]
      /\ \A u \in Threads : u # t => saves'[name][u] = saves[name][u]
  BY <1>3, <1>4, SavesChange
<1>6. /\ mixed' \in [Names -> BOOLEAN]
      /\ mixed'[name] = (mixed[name] \/ \E u \in Threads \ {t} : Saving(name, u))
      /\ \A n \in Names : n # name => mixed'[n] = mixed[n]
  BY DEF BeginSave, PlayerInv, Simple
<1> QED BY <1>2, <1>3, <1>5, <1>6 DEF BeginSave

LEMMA LeaveKeeps ==
  ASSUME PlayerInv, OpsCounted, NEW name \in Names, Leave(name)
  PROVE  PlayerInv'
<1>1. /\ online[name] = "in" /\ online' = [online EXCEPT ![name] = "leaving"]
      /\ left' = [left EXCEPT ![name] = slots[name]] /\ BeginSave(name, "own")
      /\ UNCHANGED <<slots, held, creative, health, windowIndex, activeWindow, balance, file>>
  BY DEF Leave, In
<1>2. /\ saves' \in [Names -> [Threads -> SaveStates]]
      /\ saves'[name]["own"].at = "open" /\ Holds(saves'[name]["own"].data, slots[name])
      /\ \A n \in Names : n # name => saves'[n] = saves[n]
      /\ saves'[name]["main"] = saves[name]["main"]
      /\ mixed' \in [Names -> BOOLEAN]
      /\ mixed'[name] = (mixed[name] \/ Saving(name, "main"))
      /\ \A n \in Names : n # name => mixed'[n] = mixed[n]
  <2>1. "own" \in Threads /\ "main" \in Threads \ {"own"} /\ \A u \in Threads \ {"own"} : u = "main"
    BY DEF Threads
  <2> QED BY <1>1, <2>1, BeginSaveFacts
<1>3. /\ online' \in [Names -> {"out", "in", "leaving"}] /\ online'[name] = "leaving"
      /\ \A n \in Names : n # name => online'[n] = online[n]
  BY <1>1 DEF PlayerInv, Simple
<1>4. /\ left' \in [Names -> Slots] /\ left'[name] = slots[name]
      /\ \A n \in Names : n # name => left'[n] = left[n]
  BY <1>1 DEF PlayerInv, Filed, Balanced
<1>5. Simple'
  BY <1>1, <1>2, <1>3, ListAssumption DEF PlayerInv, Simple, OpsCounted
<1>6. Windows' /\ Balanced'
  BY <1>1, <1>3, WindowsStay, BalancedStays DEF PlayerInv
<1>7. ASSUME NEW n \in Names PROVE Back(n)'
  <2>1. CASE n # name
    BY <1>1, <1>2, <1>3, <1>4, <2>1, BackStays DEF PlayerInv, Filed
  <2>2. CASE n = name
    <3>1. Saving(name, "own")' /\ (~mixed'[name] => ~Saving(name, "main")')
      BY <1>2 DEF Saving
    <3> QED BY <1>1, <1>2, <1>3, <1>4, <2>2, <3>1 DEF Back
  <2> QED BY <2>1, <2>2
<1>8. Filed'
  BY <1>1, <1>2, <1>4, <1>7 DEF PlayerInv, Filed
<1> QED BY <1>5, <1>6, <1>8 DEF PlayerInv

LEMMA SaveAllKeeps ==
  ASSUME PlayerInv, NEW name \in Names, SaveAll(name)
  PROVE  PlayerInv'
<1>1. /\ online[name] # "out" /\ BeginSave(name, "main")
      /\ UNCHANGED <<online, slots, held, creative, health, windowIndex, activeWindow, balance, file, left, ops>>
  BY DEF SaveAll
<1>2. /\ saves' \in [Names -> [Threads -> SaveStates]]
      /\ saves'[name]["main"].at = "open" /\ Holds(saves'[name]["main"].data, slots[name])
      /\ \A n \in Names : n # name => saves'[n] = saves[n]
      /\ saves'[name]["own"] = saves[name]["own"]
      /\ mixed' \in [Names -> BOOLEAN]
      /\ mixed'[name] = (mixed[name] \/ Saving(name, "own"))
      /\ \A n \in Names : n # name => mixed'[n] = mixed[n]
  <2>1. "main" \in Threads /\ "own" \in Threads \ {"main"} /\ \A u \in Threads \ {"main"} : u = "own"
    BY DEF Threads
  <2> QED BY <1>1, <2>1, BeginSaveFacts
<1>3. OpsCounted
  BY <1>1, ListAssumption DEF PlayerInv, Simple, OpsCounted
<1>4. Simple' /\ Windows' /\ Balanced'
  BY <1>1, <1>2, <1>3, WindowsStay, BalancedStays DEF PlayerInv, Simple
<1>5. ASSUME NEW n \in Names PROVE Back(n)'
  <2>1. CASE n # name
    BY <1>1, <1>2, <2>1, BackStays DEF PlayerInv, Filed
  <2>2. CASE n = name
    <3>1. Back(name) /\ (Saving(name, "own")' <=> Saving(name, "own"))
      BY <1>2 DEF PlayerInv, Filed, Saving
    <3>2. online[name] \in {"in", "leaving"}
      BY <1>1 DEF PlayerInv, Simple
    <3> QED BY <1>1, <1>2, <2>2, <3>1, <3>2 DEF Back
  <2> QED BY <2>1, <2>2
<1>6. Filed'
  BY <1>1, <1>2, <1>5 DEF PlayerInv, Filed
<1> QED BY <1>4, <1>6 DEF PlayerInv

LEMMA SaveStepKeeps ==
  ASSUME PlayerInv, NEW name \in Names, NEW t \in Threads, SaveStep(name, t)
  PROVE  PlayerInv'
<1>1. /\ OpenFile(name, t) \/ WriteFile(name, t)
      /\ UNCHANGED <<online, slots, held, creative, health, windowIndex, activeWindow, balance, left, mixed, ops>>
  BY DEF SaveStep
<1>2. saves \in [Names -> [Threads -> SaveStates]] /\ file \in [Names -> {NoFile, TornFile} \cup Whole]
  BY DEF PlayerInv, Filed
<1>3. PICK d, x, f :
        /\ Saving(name, t) /\ d = saves[name][t].data /\ d \in Whole /\ x \in SaveStates
        /\ saves' = [saves EXCEPT ![name][t] = x] /\ file' = [file EXCEPT ![name] = f]
        /\ \/ x = [at |-> "write", data |-> d] /\ f = TornFile
           \/ x = NotSaving /\ f = d
  <2>1. CASE OpenFile(name, t)
    <3>1. PICK y : y = saves[name][t] /\ y.at = "open" /\ Saving(name, t)
      BY <2>1 DEF OpenFile, Saving
    <3>2. y = [at |-> "open", data |-> y.data] /\ y.data \in Whole
      BY <1>2, <3>1, SaveStateFacts
    <3>3. PICK x : x = [y EXCEPT !.at = "write"]
      OBVIOUS
    <3>4. x = [at |-> "write", data |-> y.data]
      BY <3>2, <3>3
    <3>5. x \in SaveStates
      BY <3>2, <3>4 DEF SaveStates
    <3>6. saves' = [saves EXCEPT ![name][t] = x]
      BY <1>2, <2>1, <3>1, <3>3 DEF OpenFile
    <3> QED BY <2>1, <3>1, <3>2, <3>4, <3>5, <3>6 DEF OpenFile
  <2>2. CASE WriteFile(name, t)
    <3>1. Saving(name, t)
      BY <2>2 DEF WriteFile, Saving
    <3>2. saves[name][t].data \in Whole
      BY <1>2, <3>1, SaveStateFacts
    <3> QED BY <2>2, <3>1, <3>2 DEF WriteFile, SaveStates
  <2> QED BY <1>1, <2>1, <2>2
<1>4. /\ saves' \in [Names -> [Threads -> SaveStates]]
      /\ saves'[name][t] = x
      /\ \A n \in Names : n # name => saves'[n] = saves[n]
      /\ \A u \in Threads : u # t => saves'[name][u] = saves[name][u]
  BY <1>2, <1>3, SavesChange
<1>5. /\ file' \in [Names -> {NoFile, TornFile} \cup Whole] /\ file'[name] = f
      /\ \A n \in Names : n # name => file'[n] = file[n]
  BY <1>2, <1>3
<1>6. OpsCounted
  BY <1>1, ListAssumption DEF PlayerInv, Simple, OpsCounted
<1>7. Simple' /\ Windows' /\ Balanced'
  BY <1>1, <1>6, SimpleStays, WindowsStay, BalancedStays DEF PlayerInv
<1>8. ASSUME NEW n \in Names PROVE Back(n)'
  <2>1. CASE n # name
    BY <1>1, <1>4, <1>5, <2>1, BackStays DEF PlayerInv, Filed
  <2>2. CASE n = name
    <3>1. Back(name)
      BY DEF PlayerInv, Filed
    <3>2. "own" \in Threads /\ "main" \in Threads /\ t \in {"own", "main"}
      BY DEF Threads
    <3>3. \A u \in Threads : u # t => (Saving(name, u)' <=> Saving(name, u))
      BY <1>4 DEF Saving
    <3>4. CASE x = [at |-> "write", data |-> d] /\ f = TornFile
      <4>1. Saving(name, t)' /\ saves'[name][t].data = d
        BY <1>4, <3>4 DEF Saving
      <4>2. (Saving(name, "own")' <=> Saving(name, "own")) /\ (Saving(name, "main")' <=> Saving(name, "main"))
        BY <1>3, <3>2, <3>3, <4>1
      <4>3. \A u \in Threads : saves'[name][u].data = saves[name][u].data
        BY <1>3, <1>4, <4>1
      <4> QED BY <1>1, <1>5, <2>2, <3>1, <3>2, <3>4, <4>2, <4>3 DEF Back
    <3>5. CASE x = NotSaving /\ f = d
      <4>1. ~Saving(name, t)'
        BY <1>4, <3>5 DEF Saving, NotSaving
      <4>2. CASE t = "own"
        BY <1>1, <1>3, <1>5, <2>2, <3>1, <3>2, <3>3, <3>5, <4>1, <4>2 DEF Back
      <4>3. CASE t = "main"
        <5>1. saves'[name]["own"] = saves[name]["own"] /\ (Saving(name, "own")' <=> Saving(name, "own"))
          BY <1>4, <3>2, <3>3, <4>3
        <5> QED BY <1>1, <1>3, <1>5, <2>2, <3>1, <3>5, <4>1, <4>3, <5>1 DEF Back
      <4> QED BY <3>2, <4>2, <4>3
    <3> QED BY <1>3, <3>4, <3>5
  <2> QED BY <2>1, <2>2
<1>9. Filed'
  BY <1>1, <1>4, <1>5, <1>8 DEF PlayerInv, Filed
<1> QED BY <1>7, <1>9 DEF PlayerInv

(* Whose client has gone has the slots of a new player, and windows. *)
LEMMA DestroyedFacts ==
  ASSUME Simple, Windows, Balanced, NEW names \in SUBSET Names, Destroyed(names), OpsCounted,
         online' \in [Names -> {"out", "in", "leaving"}], mixed' \in [Names -> BOOLEAN],
         \A n \in names : online'[n] = "out", \A n \in Names \ names : online'[n] = online[n]
  PROVE  /\ Simple' /\ Windows' /\ Balanced'
         /\ \A n \in Names \ names : slots'[n] = slots[n]
<1>1. /\ slots' = [n \in Names |-> IF n \in names THEN EmptySlots ELSE slots[n]]
      /\ held' = [n \in Names |-> IF n \in names THEN 0 ELSE held[n]]
      /\ creative' = [n \in Names |-> IF n \in names THEN FALSE ELSE creative[n]]
      /\ health' = [n \in Names |-> IF n \in names THEN HEALTH_MAX ELSE health[n]]
      /\ windowIndex' = [n \in Names |-> IF n \in names THEN 0 ELSE windowIndex[n]]
      /\ activeWindow' = [n \in Names |-> IF n \in names THEN NONE ELSE activeWindow[n]]
      /\ balance' = [n \in Names |-> IF n \in names THEN 0 ELSE balance[n]]
  BY DEF Destroyed
<1>2. /\ COLS \in Nat \ {0} /\ MaxOps \in Nat /\ 0 \in 0 .. COLS - 1
  BY PlayerAssumption, ListAssumption
<1>3. Simple'
  <2>1. held' \in [Names -> 0 .. COLS - 1]
    BY <1>1, <1>2 DEF Simple
  <2>2. health' \in [Names -> 0 .. HEALTH_MAX]
    <3>1. HEALTH_MAX \in 0 .. HEALTH_MAX
      BY DEF HEALTH_MAX
    <3> QED BY <1>1, <3>1 DEF Simple
  <2>3. creative' \in [Names -> BOOLEAN]
    BY <1>1 DEF Simple
  <2>4. ops' \in 0 .. MaxOps
    BY <1>2 DEF Simple, OpsCounted
  <2> QED BY <2>1, <2>2, <2>3, <2>4 DEF Simple
<1>4. Windows'
  <2>1. 0 \in 0 .. ops' /\ \A n \in 0 .. ops : n \in 0 .. ops'
    BY DEF Simple, OpsCounted
  <2>2. NONE \in WindowTypes
    BY DEF NONE, WindowTypes
  <2> QED BY <1>1, <2>1, <2>2 DEF Windows
<1>5. Balanced'
  <2>1. slots' \in [Names -> Slots] /\ balance' \in [Names -> Int]
    BY <1>1, EmptyFacts DEF Balanced
  <2>2. ASSUME NEW n \in Names, online'[n] = "in" PROVE Owned(slots'[n]) = balance'[n]
    <3>1. n \notin names /\ online[n] = "in"
      BY <2>2
    <3>2. slots'[n] = slots[n] /\ balance'[n] = balance[n]
      BY <1>1, <3>1
    <3> QED BY <3>1, <3>2 DEF Balanced
  <2> QED BY <2>1, <2>2 DEF Balanced
<1> QED BY <1>1, <1>3, <1>4, <1>5

LEMMA GoneKeeps ==
  ASSUME PlayerInv, OpsCounted, NEW name \in Names, Gone(name)
  PROVE  PlayerInv'
<1>1. /\ online[name] = "leaving" /\ ~Saving(name, "own") /\ online' = [online EXCEPT ![name] = "out"]
      /\ Destroyed({name}) /\ UNCHANGED <<file, saves, left, mixed>>
  BY DEF Gone
<1>2. /\ online' \in [Names -> {"out", "in", "leaving"}] /\ online'[name] = "out"
      /\ \A n \in Names \ {name} : online'[n] = online[n]
  BY <1>1 DEF PlayerInv, Simple
<1>3. Simple' /\ Windows' /\ Balanced' /\ \A n \in Names \ {name} : slots'[n] = slots[n]
  <2>1. mixed' \in [Names -> BOOLEAN] /\ {name} \in SUBSET Names
    BY <1>1 DEF PlayerInv, Simple
  <2> QED BY <1>1, <1>2, <2>1, DestroyedFacts DEF PlayerInv
<1>4. ASSUME NEW n \in Names PROVE Back(n)'
  <2>1. CASE n # name
    BY <1>1, <1>2, <1>3, <2>1, BackStays DEF PlayerInv, Filed
  <2>2. CASE n = name
    <3>1. Back(name)
      BY DEF PlayerInv, Filed
    <3> QED BY <1>1, <1>2, <2>2, <3>1 DEF Back, Saving
  <2> QED BY <2>1, <2>2
<1>5. Filed'
  BY <1>1, <1>4 DEF PlayerInv, Filed
<1> QED BY <1>3, <1>5 DEF PlayerInv

LEMMA RestartKeeps ==
  ASSUME PlayerInv, Restart
  PROVE  PlayerInv'
<1>1. /\ online' = [n \in Names |-> "out"]
      /\ mixed' = [n \in Names |-> mixed[n] \/ online[n] # "out" \/ \E t \in Threads : Saving(n, t)]
      /\ saves' = [n \in Names |-> [t \in Threads |-> NotSaving]]
      /\ Destroyed(Names) /\ UNCHANGED <<file, left, ops>>
  BY DEF Restart
<1>2. mixed' \in [Names -> BOOLEAN]
  BY <1>1 DEF PlayerInv, Simple
<1>3. OpsCounted
  BY <1>1, ListAssumption DEF PlayerInv, Simple, OpsCounted
<1>4. Simple' /\ Windows' /\ Balanced'
  <2>1. Names \in SUBSET Names /\ online' \in [Names -> {"out", "in", "leaving"}]
    BY <1>1
  <2> QED BY <1>1, <1>2, <1>3, <2>1, DestroyedFacts DEF PlayerInv
<1>5. ASSUME NEW n \in Names PROVE Back(n)'
  <2>1. \A t \in Threads : ~Saving(n, t)'
    BY <1>1 DEF Saving, NotSaving
  <2>2. "own" \in Threads /\ "main" \in Threads
    BY DEF Threads
  <2>3. Back(n)
    BY DEF PlayerInv, Filed
  <2>4. ~mixed'[n] => ~mixed[n] /\ online[n] = "out" /\ ~Saving(n, "own")
    BY <1>1, <2>2
  <2>5. online'[n] = "out" /\ file'[n] = file[n] /\ left'[n] = left[n]
    BY <1>1
  <2> QED BY <2>1, <2>2, <2>3, <2>4, <2>5 DEF Back
<1>6. saves' \in [Names -> [Threads -> SaveStates]]
  BY <1>1 DEF SaveStates
<1>7. Filed'
  BY <1>1, <1>5, <1>6 DEF PlayerInv, Filed
<1> QED BY <1>4, <1>7 DEF PlayerInv

(* What a player is given at login is what its balance starts from. *)
LEMMA LoginSlots ==
  ASSUME NEW f \in {NoFile, TornFile} \cup Whole, f # TornFile,
         NEW now, now = (IF f = NoFile THEN Equipped ELSE SlotsOf(f.slots)),
         NEW b, b = (IF f = NoFile THEN Owned(now)
                     ELSE Amount(Restrict(f.slots, {n \in DOMAIN f.slots : n < ARMOR_SLOT})))
  PROVE  now \in Slots /\ b \in Int /\ Owned(now) = b
<1>1. CASE f = NoFile
  BY <1>1, EquippedFacts, SlotsAre
<1>2. CASE f # NoFile
  <2>1. Loadable(f.slots)
    BY <1>2, WholeFacts
  <2>2. now \in Slots
    BY <1>2, <2>1, LoadFacts DEF Loadable
  <2>3. Owned(now) = b
    BY <1>2, <2>1, LoadedAmount
  <2> QED BY <2>2, <2>3, SlotsAre
<1> QED BY <1>1, <1>2

LEMMA LoginKeeps ==
  ASSUME PlayerInv, OpsCounted, NEW name \in Names, Login(name)
  PROVE  PlayerInv'
<1>1. /\ online[name] = "out" /\ UNCHANGED <<file, saves, left>>
      /\ mixed' = [mixed EXCEPT ![name] = \E t \in Threads : Saving(name, t)]
  BY DEF Login
<1>2. /\ mixed' \in [Names -> BOOLEAN] /\ mixed'[name] = (\E t \in Threads : Saving(name, t))
      /\ \A n \in Names : n # name => mixed'[n] = mixed[n]
  BY <1>1 DEF PlayerInv, Simple
<1>3. "own" \in Threads /\ "main" \in Threads
  BY DEF Threads
<1>4. Back(name)
  BY DEF PlayerInv, Filed
<1>5. CASE file[name] = TornFile
  <2>1. UNCHANGED <<online, slots, held, creative, health, windowIndex, activeWindow, balance>>
    BY <1>5 DEF Login
  <2>2. Simple' /\ Windows' /\ Balanced'
    BY <1>2, <2>1, ListAssumption, WindowsStay, BalancedStays DEF PlayerInv, Simple, OpsCounted
  <2>3. ASSUME NEW n \in Names PROVE Back(n)'
    <3>1. CASE n # name
      BY <1>1, <1>2, <2>1, <3>1, BackStays DEF PlayerInv, Filed
    <3>2. CASE n = name
      BY <1>1, <1>2, <1>3, <1>4, <1>5, <2>1, <3>2 DEF Back, Saving
    <3> QED BY <3>1, <3>2
  <2>4. Filed'
    BY <1>1, <2>3 DEF PlayerInv, Filed
  <2> QED BY <2>2, <2>4 DEF PlayerInv
<1>6. CASE file[name] # TornFile
  <2>1. PICK f : f = file[name] /\ f \in {NoFile, TornFile} \cup Whole /\ f # TornFile
    BY <1>6 DEF PlayerInv, Filed
  <2>2. PICK now : now = (IF f = NoFile THEN Equipped ELSE SlotsOf(f.slots))
    OBVIOUS
  <2>3. PICK b : b = (IF f = NoFile THEN Owned(now)
                      ELSE Amount(Restrict(f.slots, {n \in DOMAIN f.slots : n < ARMOR_SLOT})))
    OBVIOUS
  <2>4. now \in Slots /\ b \in Int /\ Owned(now) = b
    BY <2>1, <2>2, <2>3, LoginSlots
  <2>5. PICK h : h = (IF f = NoFile THEN HEALTH_MAX ELSE f.health) /\ h \in 0 .. HEALTH_MAX
    BY <2>1, WholeFacts DEF HEALTH_MAX
  <2>6. /\ online' = [online EXCEPT ![name] = "in"] /\ slots' = [slots EXCEPT ![name] = now]
        /\ health' = [health EXCEPT ![name] = h] /\ balance' = [balance EXCEPT ![name] = b]
        /\ held' = [held EXCEPT ![name] = 0] /\ creative' = [creative EXCEPT ![name] = FALSE]
        /\ windowIndex' = [windowIndex EXCEPT ![name] = 0] /\ activeWindow' = [activeWindow EXCEPT ![name] = NONE]
    BY <1>6, <2>1, <2>2, <2>3, <2>5 DEF Login
  <2>7. Simple'
    <3>1. 0 \in 0 .. COLS - 1
      BY PlayerAssumption
    <3>2. ops' \in 0 .. MaxOps
      BY ListAssumption DEF PlayerInv, Simple, OpsCounted
    <3> QED BY <1>2, <2>5, <2>6, <3>1, <3>2 DEF PlayerInv, Simple
  <2>8. Windows'
    <3>1. 0 \in 0 .. ops' /\ \A n \in 0 .. ops : n \in 0 .. ops'
      BY DEF PlayerInv, Simple, OpsCounted
    <3>2. NONE \in WindowTypes
      BY DEF NONE, WindowTypes
    <3> QED BY <2>6, <3>1, <3>2 DEF PlayerInv, Windows
  <2>9. online'[name] = "in" /\ \A n \in Names : n # name => online'[n] = online[n] /\ slots'[n] = slots[n]
    BY <2>6 DEF PlayerInv, Simple, Balanced
  <2>10. Balanced'
    BY <2>4, <2>6, <2>9 DEF PlayerInv, Balanced
  <2>11. ASSUME NEW n \in Names PROVE Back(n)'
    <3>1. CASE n # name
      BY <1>1, <1>2, <2>9, <3>1, BackStays DEF PlayerInv, Filed
    <3>2. CASE n = name
      BY <1>1, <1>4, <2>9, <3>2 DEF Back, Saving
    <3> QED BY <3>1, <3>2
  <2>12. Filed'
    BY <1>1, <2>11 DEF PlayerInv, Filed
  <2> QED BY <2>7, <2>8, <2>10, <2>12 DEF PlayerInv
<1> QED BY <1>5, <1>6

-----------------------------------------------------------------------------
(* All steps. *)

LEMMA CommandKeeps ==
  ASSUME PlayerInv, NEW name \in Names, Command(name)
  PROVE  PlayerInv'
<1> DEFINE typed == OpsCounted /\ ops' = ops + 1
<1>1. \A label : Types(name, label) => typed
  BY ListAssumption DEF Types, PlayerInv, Simple, OpsCounted
<1> HIDE DEF typed
<1>2. ASSUME NEW target, CommandOp(name, target) \/ CommandDeop(name, target) \/ CommandWhitelist(name, target)
      PROVE  PlayerInv'
  <2>1. typed /\ UNCHANGED playerVars
    BY <1>1, <1>2 DEF CommandOp, CommandDeop, CommandWhitelist
  <2> QED BY <2>1, PlayersUntouched DEF typed, Untouched, playerVars
<1>3. ASSUME NEW target \in Names \cup Others, CommandKill(name, target) PROVE PlayerInv'
  <2>1. typed /\ UNCHANGED <<online, slots, held, creative, windowIndex, activeWindow, balance, file, saves, left, mixed>>
    BY <1>1, <1>3 DEF CommandKill
  <2>2. CASE target \in Others \/ online[target] = "out"
    <3>1. Untouched
      BY <1>3, <2>1, <2>2 DEF CommandKill, Untouched, typed
    <3> QED BY <3>1, PlayersUntouched
  <2>3. CASE ~(target \in Others \/ online[target] = "out")
    <3>1. target \in Names /\ health' = [health EXCEPT ![target] = Clamped(0)]
      BY <1>3, <2>3 DEF CommandKill
    <3>2. Clamped(0) \in 0 .. HEALTH_MAX
      BY ClampedFits
    <3> QED BY <2>1, <3>1, <3>2, HealthKeeps DEF typed
  <2> QED BY <2>2, <2>3
<1>4. ASSUME NEW target \in Names, CommandKick(name, target) PROVE PlayerInv'
  BY <1>1, <1>4, LeaveKeeps DEF CommandKick, typed
<1>5. ASSUME NEW id \in Placeable, NEW amount \in {-1, 1}, CommandGive(name, id, amount) PROVE PlayerInv'
  BY <1>5, GiveKeeps
<1>6. ASSUME NEW n \in HealthArgs, CommandHealth(name, n) PROVE PlayerInv'
  <2>1. Clamped(Int8(n)) \in 0 .. HEALTH_MAX
    BY PlayerAssumption, ClampedFits
  <2> QED BY <1>1, <1>6, <2>1, HealthKeeps DEF CommandHealth, SetHealth, typed
<1>7. ASSUME CommandCreative(name) PROVE PlayerInv'
  BY <1>1, <1>7, CreativeKeeps DEF CommandCreative, typed
<1>8. ASSUME NEW rule, CommandGamerule(name, rule) PROVE PlayerInv'
  <2>1. typed /\ UNCHANGED playerVars
    BY <1>1, <1>8 DEF CommandGamerule
  <2> QED BY <2>1, PlayersUntouched DEF typed, Untouched, playerVars
<1>9. ASSUME NEW type \in Clicked, CommandInterface(name, type) PROVE PlayerInv'
  BY <1>1, <1>9, OpenKeeps DEF CommandInterface, typed
<1> QED BY <1>2, <1>3, <1>4, <1>5, <1>6, <1>7, <1>8, <1>9 DEF Command

LEMMA PacketKeeps ==
  ASSUME PlayerInv, NEW name \in Names, Packet(name)
  PROVE  PlayerInv'
<1>1. Handler(name) /\ OpsCounted /\ ops' = ops + 1
  BY ListAssumption DEF Packet, PlayerInv, Simple, OpsCounted
<1>2. ASSUME NEW b \in Dug, Dig(name, b[1], b[2]) PROVE PlayerInv'
  BY <1>1, <1>2, DigKeeps
<1>3. ASSUME NEW type \in Clicked, ClickBlock(name, type) PROVE PlayerInv'
  BY <1>1, <1>3, OpenKeeps DEF ClickBlock
<1> QED BY <1>1, <1>2, <1>3, PlaceKeeps, HeldKeeps, RespawnKeeps, CloseKeeps DEF Handler

LEMMA SessionKeeps ==
  ASSUME PlayerInv, NEW name \in Names, Session(name)
  PROVE  PlayerInv'
<1>1. OpsCounted
  BY ListAssumption DEF Session, PlayerInv, Simple, OpsCounted
<1>2. CASE ShowWindow(name)
  <2>1. Untouched
    BY <1>1, <1>2 DEF ShowWindow, Untouched
  <2> QED BY <2>1, PlayersUntouched
<1> QED BY <1>1, <1>2, LoginKeeps, LeaveKeeps, GoneKeeps DEF Session

LEMMA InitPlayers == Init => PlayerInv
<1> SUFFICES ASSUME Init PROVE PlayerInv
  OBVIOUS
<1>1. 0 \in 0 .. COLS - 1 /\ 0 \in 0 .. MaxOps /\ HEALTH_MAX \in 0 .. HEALTH_MAX /\ NONE \in WindowTypes
  BY PlayerAssumption, ListAssumption DEF HEALTH_MAX, NONE, WindowTypes
<1>2. Simple /\ Windows
  BY <1>1 DEF Init, Simple, Windows
<1>3. Balanced
  BY EmptyFacts DEF Init, Balanced
<1>4. ASSUME NEW f \in OldFiles PROVE f \in {NoFile, TornFile} \cup Whole
  <2>1. CASE f = NoFile
    BY <2>1
  <2>2. CASE f # NoFile
    <3>1. /\ f = [state |-> "whole", slots |-> f.slots, health |-> f.health]
          /\ f.slots \in [DOMAIN f.slots -> Item] /\ f.health \in 0 .. HEALTH_MAX
          /\ DOMAIN f.slots \subseteq 0 .. COLS * (ROWS + 1) - 1 \cup ARMOR_SLOT .. ARMOR_SLOT + 3
      BY <2>2, PlayerAssumption
    <3>2. COLS * (ROWS + 1) = (ROWS + 1) * COLS
      BY Sizes
    <3>3. PICK nbt, h : nbt = f.slots /\ h = f.health
      OBVIOUS
    <3>4. DOMAIN nbt \in SUBSET FileNumbers
      BY <3>1, <3>2, <3>3 DEF FileNumbers, Numbered
    <3>5. nbt \in UNION {[S -> Item] : S \in SUBSET FileNumbers}
      BY <3>1, <3>3, <3>4
    <3> QED BY <3>1, <3>3, <3>5 DEF Whole
  <2> QED BY <2>1, <2>2
<1>5. /\ file \in [Names -> {NoFile, TornFile} \cup Whole]
      /\ saves \in [Names -> [Threads -> SaveStates]]
      /\ left \in [Names -> Slots]
  BY <1>4, EmptyFacts DEF Init, SaveStates
<1>6. ASSUME NEW n \in Names PROVE Back(n)
  BY DEF Init, Back, Saving, NotSaving, Threads
<1> QED BY <1>2, <1>3, <1>5, <1>6 DEF PlayerInv, Filed

LEMMA NextPlayers == PlayerInv /\ [Next]_vars => PlayerInv'
<1> SUFFICES ASSUME PlayerInv, [Next]_vars PROVE PlayerInv'
  OBVIOUS
<1>1. ASSUME UNCHANGED <<playerVars, ops>> PROVE PlayerInv'
  <2>1. Untouched
    BY <1>1, ListAssumption DEF Untouched, OpsCounted, playerVars, PlayerInv, Simple
  <2> QED BY <2>1, PlayersUntouched
<1>2. ASSUME NEW thread \in ListThreads, ListStep(thread) PROVE PlayerInv'
  BY <1>1, <1>2 DEF ListStep
<1>3. ASSUME NEW kind \in Kinds, Boot(kind) PROVE PlayerInv'
  BY <1>1, <1>3 DEF Boot
<1>4. CASE UNCHANGED vars
  BY <1>1, <1>4 DEF vars
<1> QED BY <1>2, <1>3, <1>4, CommandKeeps, PacketKeeps, SessionKeeps, SaveAllKeeps, SaveStepKeeps,
           RestartKeeps DEF Next

LEMMA PlayersAlways == Spec => []PlayerInv
BY InitPlayers, NextPlayers, PTL DEF Spec

(* Every slot of every player holds nothing or a stack that is not          *)
(* overfull, health and windows keep within their bounds, and no list has a *)
(* name twice, after any packets, commands, saves and restarts.             *)
THEOREM TypesHold == Spec => []TypeOK
<1>1. ListInv /\ PlayerInv => TypeOK
  <2> SUFFICES ASSUME ListInv, PlayerInv PROVE TypeOK
    OBVIOUS
  <2>1. windowIndex \in [Names -> 0 .. MaxOps]
    BY ListAssumption DEF PlayerInv, Windows, Simple
  <2>2. \A k \in Kinds : IsInjective(lists[k]) /\ ToSet(lists[k]) \subseteq Names \cup Others
    BY ToSetFacts DEF ListInv, ListShape, Everybody
  <2> QED BY <2>1, <2>2 DEF TypeOK, PlayerInv, Simple, Windows, Balanced, ListInv, ListShape
<1> QED BY <1>1, ListsAlways, PlayersAlways, PTL

(* However a player's items are split and moved, it has what it was given   *)
(* and has not placed, less what did not fit; and what it is loaded with is *)
(* what its file holds.                                                     *)
THEOREM NothingIsLost == Spec => []Conserved
<1>1. PlayerInv => Conserved
  BY DEF PlayerInv, Balanced, Conserved
<1> QED BY <1>1, PlayersAlways, PTL

(* Nobody gets into the game but by logging in. *)
LEMMA OnlyByLogin ==
  ASSUME Simple, [Next]_vars, NEW n \in Names, online[n] = "out", online'[n] = "in"
  PROVE  Login(n)
<1>1. online \in [Names -> {"out", "in", "leaving"}]
  BY DEF Simple
<1>2. UNCHANGED online \/ (\E m \in Names : online' = [online EXCEPT ![m] = "leaving"]) => FALSE
  BY <1>1
<1>3. ASSUME NEW name \in Names, Command(name) PROVE FALSE
  <2>1. ASSUME NEW target \in Names, CommandKick(name, target) PROVE FALSE
    BY <1>2, <2>1 DEF CommandKick, Leave
  <2>2. ASSUME NEW target, CommandOp(name, target) \/ CommandDeop(name, target)
                             \/ CommandWhitelist(name, target) \/ CommandKill(name, target) PROVE FALSE
    BY <1>2, <2>2 DEF CommandOp, CommandDeop, CommandWhitelist, CommandKill, playerVars
  <2>3. ASSUME NEW id, NEW amount, CommandGive(name, id, amount) PROVE FALSE
    BY <1>2, <2>3 DEF CommandGive
  <2>4. ASSUME NEW h, CommandHealth(name, h) PROVE FALSE
    BY <1>2, <2>4 DEF CommandHealth, SetHealth
  <2>5. ASSUME NEW rule, CommandGamerule(name, rule) PROVE FALSE
    BY <1>2, <2>5 DEF CommandGamerule, playerVars
  <2>6. ASSUME NEW type, CommandInterface(name, type) PROVE FALSE
    BY <1>2, <2>6 DEF CommandInterface
  <2>7. ~CommandCreative(name)
    BY <1>2 DEF CommandCreative
  <2> QED BY <1>3, <2>1, <2>2, <2>3, <2>4, <2>5, <2>6, <2>7 DEF Command
<1>4. ASSUME NEW name \in Names, Packet(name) PROVE FALSE
  <2>1. UNCHANGED online
    BY <1>4 DEF Packet, Handler, Dig, Place, ChangeHeldItem, Respawn, ClickBlock, CloseWindow
  <2> QED BY <1>2, <2>1
<1>5. ASSUME NEW name \in Names, Session(name) PROVE Login(n)
  <2>1. CASE Login(name)
    <3>1. online[name] = "out" /\ (UNCHANGED online \/ online' = [online EXCEPT ![name] = "in"])
      BY <2>1 DEF Login
    <3>2. name = n
      BY <1>1, <1>2, <3>1
    <3> QED BY <2>1, <3>2
  <2>2. ~Leave(name)
    BY <1>2 DEF Leave
  <2>3. ~Gone(name)
    BY <1>1 DEF Gone
  <2>4. ~ShowWindow(name)
    BY <1>2 DEF ShowWindow
  <2> QED BY <1>5, <2>1, <2>2, <2>3, <2>4 DEF Session
<1>6. ASSUME NEW name \in Names, SaveAll(name) PROVE FALSE
  BY <1>2, <1>6 DEF SaveAll
<1>7. ASSUME NEW name \in Names, NEW t \in Threads, SaveStep(name, t) PROVE FALSE
  BY <1>2, <1>7 DEF SaveStep
<1>8. ASSUME NEW thread, ListStep(thread) PROVE FALSE
  BY <1>2, <1>8 DEF ListStep, playerVars
<1>9. ASSUME NEW kind, Boot(kind) PROVE FALSE
  BY <1>2, <1>9 DEF Boot, playerVars
<1>10. ~Restart
  BY DEF Restart
<1>11. ~UNCHANGED vars
  BY <1>2 DEF vars, playerVars
<1> QED BY <1>3, <1>4, <1>5, <1>6, <1>7, <1>8, <1>9, <1>10, <1>11 DEF Next

(* A player who comes back has the slots it left with, unless two threads   *)
(* saved it at once or the process ended before its file was written.       *)
THEOREM ComesBack == Spec => ComesBackWithAll
<1> DEFINE back == \A n \in Names : online[n] = "out" /\ online'[n] = "in" /\ ~mixed[n] => slots'[n] = left[n]
<1>1. PlayerInv /\ [Next]_vars => [back]_vars
  <2> SUFFICES ASSUME PlayerInv, [Next]_vars, NEW n \in Names, online[n] = "out", online'[n] = "in", ~mixed[n]
               PROVE  slots'[n] = left[n]
    OBVIOUS
  <2>1. Login(n)
    BY OnlyByLogin DEF PlayerInv
  <2>2. file[n] # TornFile
    BY <2>1 DEF Login
  <2>3. Holds(file[n], left[n]) /\ left[n] \in Slots
    BY <2>2 DEF PlayerInv, Filed, Back
  <2>4. file[n] # NoFile
    BY <2>3 DEF Holds, NoFile
  <2>5. slots' = [slots EXCEPT ![n] = SlotsOf(file[n].slots)]
    BY <2>1, <2>2, <2>4 DEF Login
  <2>6. slots'[n] = SlotsOf(NbtSlots(left[n]))
    BY <2>3, <2>5 DEF PlayerInv, Balanced, Holds
  <2> QED BY <2>3, <2>6, SaveFacts
<1>2. Spec => [][back]_vars
  BY <1>1, PlayersAlways, PTL DEF Spec
<1> QED BY <1>2 DEF ComesBackWithAll
===============================================================================
