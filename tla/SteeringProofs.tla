--------------------------- MODULE SteeringProofs ---------------------------
(***************************************************************************)
(* What holds of SnakeSim and Steering for one to eight seats, the most    *)
(* that the game seats, any arena with sides of four cells or more, any    *)
(* number of pellets and any pace.                                         *)
(*                                                                         *)
(* Bodies hold together because a head always comes from the cell behind   *)
(* it in the direction of the last move, and only that direction refuses a *)
(* turn (Sound).  A result ranks everybody because the order of deaths     *)
(* follows the ticks (Deaths), so that Outranks is a strict order of all   *)
(* seats and counting who is above gives each a place of its own.  The     *)
(* promises about one move (equal seats, bots, prediction) hold in every   *)
(* state of the invariant: they need that a move is decided against the    *)
(* world before it, and that bodies are longer than a head.                *)
(***************************************************************************)
EXTENDS Steering, FiniteSetTheorems, SequenceTheorems, WellFoundedInduction, TLAPS

-----------------------------------------------------------------------------
(***************************************************************************)
(* The arena.                                                              *)
(***************************************************************************)
LEMMA Modulo ==
  ASSUME NEW n \in Nat \ {0}, NEW x \in Int
  PROVE  /\ x % n \in 0 .. n - 1
         /\ x \in 0 .. n - 1 => x % n = x
         /\ x = n => x % n = 0
         /\ x = -1 => x % n = n - 1
OBVIOUS

\* One more or less, around a side of n cells.
LEMMA Remainders ==
  ASSUME NEW n \in Nat \ {0}
  PROVE  /\ n % n = 0 /\ (-1) % n = n - 1
         /\ \A x \in 0 .. n - 1 :
              /\ x % n = x
              /\ (x + 1) % n = IF x + 1 = n THEN 0 ELSE x + 1
              /\ (x - 1) % n = IF x = 0 THEN n - 1 ELSE x - 1
<1>1. n % n = 0 /\ (-1) % n = n - 1
  OBVIOUS
<1>2. ASSUME NEW x \in 0 .. n - 1
      PROVE  /\ x % n = x
             /\ (x + 1) % n = IF x + 1 = n THEN 0 ELSE x + 1
             /\ (x - 1) % n = IF x = 0 THEN n - 1 ELSE x - 1
  <2>1. x \in Int /\ x + 1 \in Int /\ x - 1 \in Int
    OBVIOUS
  <2>2. x + 1 # n => x + 1 \in 0 .. n - 1
    OBVIOUS
  <2>3. x # 0 => x - 1 \in 0 .. n - 1
    OBVIOUS
  <2>4. (x + 1 # n => (x + 1) % n = x + 1) /\ (x # 0 => (x - 1) % n = x - 1) /\ x % n = x
    BY <2>1, <2>2, <2>3, Modulo
  <2>5. x = 0 => x - 1 = -1
    OBVIOUS
  <2> QED
    BY <1>1, <2>4, <2>5
<1> QED
  BY <1>1, <1>2

\* The greater and the lesser of two numbers.
LEMMA TwoNumbers ==
  ASSUME NEW a \in Int, NEW b \in Int
  PROVE  /\ Max({a, b}) = IF a >= b THEN a ELSE b
         /\ Min({a, b}) = IF a <= b THEN a ELSE b
BY DEF Max, Min

LEMMA Sides ==
  /\ Width \in Nat \ {0} /\ Width >= 4 /\ Height \in Nat \ {0} /\ Height >= 4
  /\ \A p \in Cells : p \in Int \X Int
BY SimAssumption DEF Cells

\* Folding leads into the arena and leaves alone what is there.
LEMMA Folds ==
  ASSUME NEW p \in Int \X Int
  PROVE  Fold(p) \in Cells /\ (p \in Cells => Fold(p) = p)
<1>1. /\ Width \in Nat \ {0} /\ Height \in Nat \ {0} /\ p[1] \in Int /\ p[2] \in Int
      /\ p = <<p[1], p[2]>>
  BY Sides
<1>2. p[1] % Width \in 0 .. Width - 1 /\ p[2] % Height \in 0 .. Height - 1
  BY <1>1, Modulo
<1>3. p \in Cells => p[1] \in 0 .. Width - 1 /\ p[2] \in 0 .. Height - 1
  BY DEF Cells
<1>4. p \in Cells => p[1] % Width = p[1] /\ p[2] % Height = p[2]
  BY <1>1, <1>3, Modulo
<1> QED
  BY <1>1, <1>2, <1>4 DEF Fold, Cells

LEMMA Steps ==
  ASSUME NEW p \in Int \X Int, NEW d \in Directions
  PROVE  /\ Along(p, d, 1) \in Int \X Int
         /\ Opposite[d] \in Directions /\ Opposite[d] # d /\ Opposite[Opposite[d]] = d
         /\ Along(Along(p, Opposite[d], 1), d, 1) = p
BY DEF Along, Directions, Delta, Opposite

\* A cell and the one reached from it are next to each other, also across an edge.
LEMMA StepBack ==
  ASSUME NEW p \in Cells, NEW d \in Directions, NEW q \in Cells,
         q \in {Along(p, d, 1), Fold(Along(p, d, 1))}
  PROVE  Adjacent(q, p) /\ Fold(Along(p, d, 1)) = q
<1>1. p \in Int \X Int /\ q \in Int \X Int /\ Along(p, d, 1) \in Int \X Int
  BY Sides, Steps
<1>2. Fold(Along(p, d, 1)) = q
  BY <1>1, Folds
<1>3. Fold(Along(q, Opposite[d], 1)) = p
  <2>1. PICK x \in 0 .. Width - 1, y \in 0 .. Height - 1 : p = <<x, y>>
    BY DEF Cells
  <2>2. x \in Int /\ y \in Int
    BY Sides
  <2>3. /\ x % Width = x /\ y % Height = y
        /\ (x + 1) % Width = IF x + 1 = Width THEN 0 ELSE x + 1
        /\ (y + 1) % Height = IF y + 1 = Height THEN 0 ELSE y + 1
        /\ (x - 1) % Width = IF x = 0 THEN Width - 1 ELSE x - 1
        /\ (y - 1) % Height = IF y = 0 THEN Height - 1 ELSE y - 1
        /\ Width % Width = 0 /\ Height % Height = 0
        /\ (-1) % Width = Width - 1 /\ (-1) % Height = Height - 1
    <3>1. Width \in Nat \ {0} /\ Height \in Nat \ {0}
      BY Sides
    <3>2. /\ Width % Width = 0 /\ (-1) % Width = Width - 1
          /\ \A i \in 0 .. Width - 1 :
               /\ i % Width = i
               /\ (i + 1) % Width = IF i + 1 = Width THEN 0 ELSE i + 1
               /\ (i - 1) % Width = IF i = 0 THEN Width - 1 ELSE i - 1
      BY ONLY <3>1, Remainders
    <3>3. /\ Height % Height = 0 /\ (-1) % Height = Height - 1
          /\ \A i \in 0 .. Height - 1 :
               /\ i % Height = i
               /\ (i + 1) % Height = IF i + 1 = Height THEN 0 ELSE i + 1
               /\ (i - 1) % Height = IF i = 0 THEN Height - 1 ELSE i - 1
      BY ONLY <3>1, Remainders
    <3> QED
      BY <3>2, <3>3
  <2>5. CASE d = "right"
    <3>1. Along(p, d, 1) = <<x + 1, y>> /\ Opposite[d] = "left"
      BY <2>1, <2>2, <2>5 DEF Along, Delta, Opposite
    <3>2. q = <<IF x + 1 = Width THEN 0 ELSE x + 1, y>>
      BY <1>2, <2>3, <3>1 DEF Fold
    <3>3. Along(q, "left", 1) = <<IF x + 1 = Width THEN -1 ELSE x, y>>
      BY <2>2, <3>2 DEF Along, Delta
    <3> QED
      BY <2>1, <2>2, <2>3, <3>1, <3>3, Sides DEF Fold
  <2>6. CASE d = "left"
    <3>1. Along(p, d, 1) = <<x - 1, y>> /\ Opposite[d] = "right"
      BY <2>1, <2>2, <2>6 DEF Along, Delta, Opposite
    <3>2. q = <<IF x = 0 THEN Width - 1 ELSE x - 1, y>>
      BY <1>2, <2>3, <3>1 DEF Fold
    <3>3. Along(q, "right", 1) = <<IF x = 0 THEN Width ELSE x, y>>
      BY <2>2, <3>2, Sides DEF Along, Delta
    <3> QED
      BY <2>1, <2>2, <2>3, <3>1, <3>3, Sides DEF Fold
  <2>7. CASE d = "down"
    <3>1. Along(p, d, 1) = <<x, y + 1>> /\ Opposite[d] = "up"
      BY <2>1, <2>2, <2>7 DEF Along, Delta, Opposite
    <3>2. q = <<x, IF y + 1 = Height THEN 0 ELSE y + 1>>
      BY <1>2, <2>3, <3>1 DEF Fold
    <3>3. Along(q, "up", 1) = <<x, IF y + 1 = Height THEN -1 ELSE y>>
      BY <2>2, <3>2 DEF Along, Delta
    <3> QED
      BY <2>1, <2>2, <2>3, <3>1, <3>3, Sides DEF Fold
  <2>8. CASE d = "up"
    <3>1. Along(p, d, 1) = <<x, y - 1>> /\ Opposite[d] = "down"
      BY <2>1, <2>2, <2>8 DEF Along, Delta, Opposite
    <3>2. q = <<x, IF y = 0 THEN Height - 1 ELSE y - 1>>
      BY <1>2, <2>3, <3>1 DEF Fold
    <3>3. Along(q, "down", 1) = <<x, IF y = 0 THEN Height ELSE y>>
      BY <2>2, <3>2, Sides DEF Along, Delta
    <3> QED
      BY <2>1, <2>2, <2>3, <3>1, <3>3, Sides DEF Fold
  <2> QED
    BY <2>5, <2>6, <2>7, <2>8 DEF Directions
<1> QED
  BY <1>1, <1>2, <1>3, Steps DEF Adjacent
-----------------------------------------------------------------------------
(***************************************************************************)
(* Spawning.                                                               *)
(***************************************************************************)
\* A body with its heading: one chain inside the arena, longer than one cell, that is
\* straight behind the head.
Chain(body) == \A k \in 1 .. Len(body) - 1 : Adjacent(body[k], body[k + 1])
Heads(body, d) == Fold(Along(body[2], d, 1)) = body[1]
Laid(body, d) ==
  /\ body \in Seq(Cells) /\ Len(body) = StartLength
  /\ Chain(body) /\ Heads(body, d)

\* The cells behind a head.
LEMMA Trails ==
  ASSUME NEW p \in Int \X Int, NEW d \in Directions
  PROVE  /\ Trail(p, d) \in Seq(Int \X Int) /\ Len(Trail(p, d)) = 3
         /\ Trail(p, d)[1] = p
         /\ Trail(p, d)[2] = Along(p, Opposite[d], 1)
         /\ Trail(p, d)[3] = Along(p, Opposite[d], 2)
         /\ Trail(p, d)[1] = Along(Trail(p, d)[2], d, 1)
         /\ Trail(p, d)[2] = Along(Trail(p, d)[3], d, 1)
<1>1. \A k \in 1 .. 3 : Trail(p, d)[k] = Along(p, Opposite[d], k - 1)
  BY DEF Trail, StartLength
<1>2. Opposite[d] \in Directions
  BY Steps
<1>3. \A k \in 1 .. 3 : Along(p, Opposite[d], k - 1) \in Int \X Int
  <2>1. \A n \in 0 .. 2, e \in Directions : Along(p, e, n) \in Int \X Int
    BY DEF Along, Directions, Delta
  <2> QED
    BY <1>2, <2>1
<1>4. Trail(p, d) \in [1 .. 3 -> Int \X Int]
  BY <1>3 DEF Trail, StartLength
<1>5. Trail(p, d) \in Seq(Int \X Int) /\ Len(Trail(p, d)) = 3
  BY <1>4, SeqDef DEF Trail, StartLength
<1>6. Along(p, Opposite[d], 0) = p
  BY DEF Along, Directions, Delta, Opposite
<1>7. /\ Along(Along(p, Opposite[d], 1), d, 1) = p
      /\ Along(Along(p, Opposite[d], 2), d, 1) = Along(p, Opposite[d], 1)
  BY DEF Along, Directions, Delta, Opposite
<1>8. Trail(p, d)[1] = Along(p, Opposite[d], 0) /\ Trail(p, d)[2] = Along(p, Opposite[d], 1)
      /\ Trail(p, d)[3] = Along(p, Opposite[d], 2)
  BY <1>1
<1> QED
  BY <1>5, <1>6, <1>7, <1>8

\* A body is laid when all of it is inside the arena.
LEMMA TrailLaid ==
  ASSUME NEW p \in Int \X Int, NEW d \in Directions, ToSet(Trail(p, d)) \subseteq Cells
  PROVE  Laid(Trail(p, d), d)
<1> DEFINE body == Trail(p, d)
<1>1. /\ body \in Seq(Int \X Int) /\ Len(body) = 3
      /\ body[1] = Along(body[2], d, 1) /\ body[2] = Along(body[3], d, 1)
  BY Trails
<1> HIDE DEF body
<1>2. \A k \in 1 .. 3 : body[k] \in Cells
  BY <1>1 DEF ToSet, body
<1>3. body \in Seq(Cells)
  <2>1. body \in [1 .. 3 -> Cells]
    BY <1>1, <1>2
  <2>2. Seq(Cells) = UNION {[1 .. n -> Cells] : n \in Nat}
    BY SeqDef
  <2> QED
    BY <2>1, <2>2
<1>4. Adjacent(body[1], body[2]) /\ Adjacent(body[2], body[3]) /\ Fold(Along(body[2], d, 1)) = body[1]
  BY <1>1, <1>2, StepBack
<1>5. Chain(body)
  BY <1>1, <1>4 DEF Chain
<1> QED
  BY <1>1, <1>3, <1>4, <1>5 DEF Laid, Heads, StartLength, body

\* Every number that is one has a least among them.
LEMMA Least ==
  ASSUME NEW T \in SUBSET Nat, T # {}
  PROVE  \E n \in T : \A i \in T : n <= i
<1> DEFINE R == OpToRel(<, Nat)
<1>1. PICK n \in T : \A i \in T : ~ (<<i, n>> \in R)
  BY NatLessThanWellFounded, WFMin
<1>2. \A i \in T : ~ (i < n)
  BY <1>1 DEF OpToRel
<1> QED
  BY <1>2

\* Of any runs one reads first.
LEMMA FirstRun ==
  ASSUME NEW runs \in SUBSET (Nat \X Nat), runs # {}
  PROVE  \E q \in runs : \A r \in runs : ReadsFirst(q, r)
<1> DEFINE Y == {q[2] : q \in runs}
<1>1. PICK y \in Y : \A i \in Y : y <= i
  <2>1. Y \in SUBSET Nat /\ Y # {}
    OBVIOUS
  <2> QED
    BY <2>1, Least
<1> DEFINE X == {q[1] : q \in {r \in runs : r[2] = y}}
<1>2. PICK x \in X : \A i \in X : x <= i
  <2>1. X \in SUBSET Nat /\ X # {}
    BY <1>1
  <2> QED
    BY <2>1, Least
<1>3. PICK q \in runs : q[2] = y /\ q[1] = x
  BY <1>2
<1>4. \A r \in runs : r[1] \in Nat /\ r[2] \in Nat /\ y <= r[2] /\ (r[2] = y => x <= r[1])
  BY <1>1, <1>2
<1> HIDE DEF X, Y
<1>5. y \in Nat
  BY <1>3
<1> QED
  BY <1>3, <1>4, <1>5 DEF ReadsFirst

LEMMA OnCircleInside ==
  ASSUME NEW side \in Nat, side >= 4, NEW c \in Int
  PROVE  OnCircle(side, c) \in 1 .. side - 2
<1> DEFINE at == (10000000 * (side - 1) + 76 * Short * c + 10000000) \div 20000000
<1>1. at \in Int
  <2>1. Short \in Int
    BY Sides DEF Short
  <2>2. 76 * Short * c \in Int /\ 10000000 * (side - 1) \in Int
    BY <2>1
  <2>3. 10000000 * (side - 1) + 76 * Short * c + 10000000 \in Int
    BY <2>2
  <2> QED
    BY <2>3
<1> HIDE DEF at
<1>2. Min({side - 2, at}) = IF side - 2 <= at THEN side - 2 ELSE at
  BY <1>1, TwoNumbers
<1>3. Min({side - 2, at}) \in Int
  BY <1>1, <1>2
<1>4. Max({1, Min({side - 2, at})}) = IF 1 >= Min({side - 2, at}) THEN 1 ELSE Min({side - 2, at})
  BY <1>3, TwoNumbers
<1>5. Max({1, Min({side - 2, at})}) \in 1 .. side - 2
  BY <1>1, <1>2, <1>4
<1> QED
  BY <1>5 DEF OnCircle, at

\* A head off the edges has room behind it in one of two opposite directions.
LEMMA RoomBehind ==
  ASSUME NEW p \in (1 .. Width - 2) \X (1 .. Height - 2), NEW t \in Directions,
         NEW d, d = IF Along(p, Opposite[t], StartLength - 1) \in Cells THEN t ELSE Opposite[t]
  PROVE  d \in Directions /\ ToSet(Trail(p, d)) \subseteq Cells
<1>1. PICK x \in 1 .. Width - 2, y \in 1 .. Height - 2 : p = <<x, y>>
  OBVIOUS
<1>2. p \in Int \X Int /\ x \in Int /\ y \in Int
  BY <1>1, Sides
<1>3. d \in Directions
  BY Steps, <1>2
<1>4. p \in Cells /\ Along(p, Opposite[d], 1) \in Cells
  <2>1. /\ x \in 0 .. Width - 1 /\ x - 1 \in 0 .. Width - 1 /\ x + 1 \in 0 .. Width - 1
        /\ y \in 0 .. Height - 1 /\ y - 1 \in 0 .. Height - 1 /\ y + 1 \in 0 .. Height - 1
    BY <1>2, Sides
  <2>2. /\ Along(p, "up", 1) = <<x, y - 1>> /\ Along(p, "down", 1) = <<x, y + 1>>
        /\ Along(p, "left", 1) = <<x - 1, y>> /\ Along(p, "right", 1) = <<x + 1, y>>
    BY <1>1, <1>2 DEF Along, Delta
  <2>3. Opposite[d] \in {"up", "down", "left", "right"}
    BY <1>3, <1>2, Steps DEF Directions
  <2> QED
    BY <1>1, <2>1, <2>2, <2>3 DEF Cells
<1>5. Along(p, Opposite[d], 2) \in Cells
  <2>1. StartLength - 1 = 2
    BY DEF StartLength
  <2>2. CASE Along(p, Opposite[t], 2) \in Cells
    BY <2>1, <2>2
  <2>3. CASE Along(p, Opposite[t], 2) \notin Cells
    <3>1. Opposite[d] = t
      BY <1>2, <2>1, <2>3, Steps
    <3>2. Along(p, t, 2) \in Cells
      BY <1>1, <1>2, <2>3, Sides DEF Along, Cells, Directions, Delta, Opposite
    <3> QED
      BY <3>1, <3>2
  <2> QED
    BY <2>2, <2>3
<1>6. /\ DOMAIN Trail(p, d) = 1 .. 3
      /\ Trail(p, d)[1] = p /\ Trail(p, d)[2] = Along(p, Opposite[d], 1)
      /\ Trail(p, d)[3] = Along(p, Opposite[d], 2)
  BY <1>2, <1>3, Trails DEF Trail, StartLength
<1> QED
  BY <1>3, <1>4, <1>5, <1>6 DEF ToSet

\* However full the arena is when its seat is placed, a snake is laid.
LEMMA SpawnLaid ==
  ASSUME NEW k \in 1 .. NumSnakes, NEW taken
  PROVE  /\ SpawnBody(k, taken).dir \in Directions
         /\ Laid(SpawnBody(k, taken).body, SpawnBody(k, taken).dir)
<1> DEFINE p    == <<OnCircle(Width, Cosine[NumSnakes][k]), OnCircle(Height, Sine[NumSnakes][k])>>
           t    == Tangent[NumSnakes][k]
           d    == IF Along(p, Opposite[t], StartLength - 1) \in Cells THEN t ELSE Opposite[t]
           body == [j \in 1 .. StartLength |-> Fold(Trail(p, d)[j])]
           runs == ClearRuns(d, taken)
<1>1. /\ Cosine[NumSnakes][k] \in Int /\ Sine[NumSnakes][k] \in Int
      /\ t \in Directions
  <2>1. NumSnakes \in {1, 2, 3, 4, 5, 6, 7, 8}
    BY SimAssumption
  <2>2. Hair \in Int
    BY DEF Hair
  <2>3. CASE NumSnakes = 1
    BY <2>2, <2>3 DEF Cosine, Sine, Tangent, Directions
  <2>4. CASE NumSnakes = 2
    BY <2>2, <2>4 DEF Cosine, Sine, Tangent, Directions
  <2>5. CASE NumSnakes = 3
    BY <2>2, <2>5 DEF Cosine, Sine, Tangent, Directions
  <2>6. CASE NumSnakes = 4
    BY <2>2, <2>6 DEF Cosine, Sine, Tangent, Directions
  <2>7. CASE NumSnakes = 5
    BY <2>2, <2>7 DEF Cosine, Sine, Tangent, Directions
  <2>8. CASE NumSnakes = 6
    BY <2>2, <2>8 DEF Cosine, Sine, Tangent, Directions
  <2>9. CASE NumSnakes = 7
    BY <2>2, <2>9 DEF Cosine, Sine, Tangent, Directions
  <2>10. CASE NumSnakes = 8
    BY <2>2, <2>10 DEF Cosine, Sine, Tangent, Directions
  <2> QED
    BY <2>1, <2>3, <2>4, <2>5, <2>6, <2>7, <2>8, <2>9, <2>10
<1>2. p \in (1 .. Width - 2) \X (1 .. Height - 2)
  BY <1>1, OnCircleInside, Sides
<1> HIDE DEF p, t
<1>3. d \in Directions /\ ToSet(Trail(p, d)) \subseteq Cells
  BY <1>1, <1>2, RoomBehind
<1>4. p \in Int \X Int
  BY <1>2, Sides
<1> HIDE DEF d
<1>5. body = Trail(p, d)
  <2>1. \A j \in 1 .. 3 : Trail(p, d)[j] \in Cells /\ Trail(p, d)[j] \in Int \X Int
    BY <1>3, Sides DEF Trail, StartLength, ToSet
  <2>2. \A j \in 1 .. 3 : Fold(Trail(p, d)[j]) = Trail(p, d)[j]
    BY <2>1, Folds
  <2> QED
    BY <2>2 DEF Trail, StartLength
<1>6. Laid(body, d)
  BY <1>3, <1>4, <1>5, TrailLaid
<1>7. ASSUME runs # {}
      PROVE  Laid(Trail(CHOOSE q \in runs : \A r \in runs : ReadsFirst(q, r), d), d)
  <2>1. runs \in SUBSET (Nat \X Nat) /\ runs \in SUBSET (Int \X Int)
    BY Sides DEF ClearRuns
  <2>2. PICK f \in runs : f = CHOOSE q \in runs : \A r \in runs : ReadsFirst(q, r)
    BY <1>7, <2>1, FirstRun
  <2>3. ToSet(Trail(f, d)) \subseteq Cells
    BY DEF ClearRuns
  <2>4. Laid(Trail(f, d), d)
    BY <1>3, <2>1, <2>3, TrailLaid
  <2> QED
    BY <2>2, <2>4
<1>8. SpawnBody(k, taken) =
        [dir |-> d,
         body |-> IF ToSet(body) \intersect taken = {} \/ runs = {} THEN body
                  ELSE Trail(CHOOSE q \in runs : \A r \in runs : ReadsFirst(q, r), d)]
  BY DEF SpawnBody, d, t, p
<1> HIDE DEF body, runs
<1> QED
  BY <1>3, <1>6, <1>7, <1>8
-----------------------------------------------------------------------------
(***************************************************************************)
(* The invariant.                                                          *)
(***************************************************************************)
\* A snake between two moves: its body holds together, every segment is accounted
\* for, and a living head came from the cell behind it in the direction it has.
Grown(sn) ==
  /\ Len(sn.body) >= StartLength /\ Chain(sn.body)
  /\ Len(sn.body) + sn.grow = StartLength + 2 * sn.score
  /\ sn.maxLength = Len(sn.body)
Sound(sn) ==
  Grown(sn) /\ (sn.alive => Heads(sn.body, sn.dir) /\ sn.pending # Opposite[sn.dir])

\* The dead have different places in the order of deaths, later deaths later ones.
Dead(s) == Seats \ Living(s)
Deaths(s) ==
  /\ \A i \in Dead(s) : /\ s.snakes[i].died \in 0 .. s.tick
                        /\ s.deathIndex[i] < Cardinality(Dead(s))
  /\ \A i, j \in Dead(s) :
       i # j => /\ s.deathIndex[i] # s.deathIndex[j]
                /\ s.snakes[i].died > s.snakes[j].died => s.deathIndex[i] > s.deathIndex[j]

Few == IF NumSnakes > 1 THEN 1 ELSE 0

Above(a, b) == (a.alive /\ ~ b.alive) \/ (~ a.alive /\ ~ b.alive /\ a.died > b.died)
Ranked(s) ==
  /\ {s.snakes[i].place : i \in Seats} = 1 .. NumSnakes
  /\ \A i, j \in Seats :
       Above(s.snakes[i], s.snakes[j]) => s.snakes[i].place < s.snakes[j].place

Standing(s) ==
  /\ s \in Sims
  /\ Deaths(s)
  /\ IF s.over THEN Cardinality(Living(s)) <= Few /\ Ranked(s)
     ELSE \A i \in Seats : s.snakes[i].place = 0
Kept(s) == Standing(s) /\ \A i \in Seats : Sound(s.snakes[i])

IInv ==
  /\ wrap \in BOOLEAN
  /\ Kept(sim)
  /\ ~ sim.over => Cardinality(Living(sim)) > Few

LEMMA Finite ==
  /\ IsFiniteSet(Seats) /\ Cardinality(Seats) = NumSnakes
  /\ IsFiniteSet(Cells)
  /\ \A S \in SUBSET Seats : IsFiniteSet(S) /\ Cardinality(S) \in 0 .. NumSnakes
<1>1. IsFiniteSet(Seats) /\ Cardinality(Seats) = NumSnakes
  BY SimAssumption, FS_Interval DEF Seats
<1>2. IsFiniteSet(Cells)
  <2>1. /\ 0 \in Int /\ Width - 1 \in Int /\ Height - 1 \in Int
    BY Sides
  <2>2. IsFiniteSet(0 .. Width - 1) /\ IsFiniteSet(0 .. Height - 1)
    BY <2>1, FS_Interval
  <2> QED
    BY <2>2, FS_Product DEF Cells
<1>3. ASSUME NEW S \in SUBSET Seats
      PROVE  IsFiniteSet(S) /\ Cardinality(S) \in 0 .. NumSnakes
  <2>1. IsFiniteSet(S) /\ Cardinality(S) <= NumSnakes
    BY <1>1, FS_Subset
  <2>2. Cardinality(S) \in Nat
    BY <2>1, FS_CardinalityType
  <2> QED
    BY <2>1, <2>2, SimAssumption
<1> QED
  BY <1>1, <1>2, <1>3

LEMMA LivingSeats ==
  ASSUME NEW s \in Sims
  PROVE  /\ Living(s) \subseteq Seats
         /\ \A i \in Seats : i \in Living(s) <=> s.snakes[i].alive
BY DEF Sims, Living

\* What a snake is made of.
LEMMA SnakeParts ==
  ASSUME NEW sn \in Snakes
  PROVE  /\ sn.body \in Seq(Cells) /\ sn.dir \in Directions /\ sn.alive \in BOOLEAN
         /\ sn.coasting \in BOOLEAN /\ sn.grow \in Nat /\ sn.score \in Nat
         /\ sn.kills \in Nat /\ sn.maxLength \in Nat /\ sn.died \in Nat \union {NotDead}
         /\ sn.place \in 0 .. NumSnakes /\ sn.pending \in Directions \union {NoTurn}
         /\ NoTurn \notin Directions
         /\ Heading(sn) \in Directions
BY DEF Snakes, Heading, NoTurn, Directions
-----------------------------------------------------------------------------
(***************************************************************************)
(* Deaths and the result.                                                  *)
(***************************************************************************)
\* Of two sets of seats one in the other, the greater has more.
LEMMA FewerOf ==
  ASSUME NEW S, NEW T, T \subseteq Seats, S \subseteq T, S # T
  PROVE  Cardinality(S) < Cardinality(T)
<1>1. IsFiniteSet(T) /\ Cardinality(T) \in Nat
  BY Finite
<1>2. IsFiniteSet(S) /\ Cardinality(S) \in Nat
  BY Finite
<1>3. Cardinality(S) <= Cardinality(T) /\ Cardinality(S) # Cardinality(T)
  BY <1>1, FS_Subset
<1> QED
  BY <1>1, <1>2, <1>3

\* Ranking is a strict order of all seats.
LEMMA OutranksOrders ==
  ASSUME NEW s \in Sims, Deaths(s)
  PROVE  /\ \A i, j \in Seats : i # j => (Outranks(s, i, j) <=> ~ Outranks(s, j, i))
         /\ \A i, j, k \in Seats :
              i # j /\ j # k /\ i # k /\ Outranks(s, i, j) /\ Outranks(s, j, k)
                => Outranks(s, i, k)
         /\ \A i, j \in Seats :
              i # j /\ Above(s.snakes[i], s.snakes[j]) => Outranks(s, i, j)
<1> DEFINE alive(i) == s.snakes[i].alive
           at(i)    == s.deathIndex[i]
           long(i)  == s.snakes[i].maxLength
<1>1. \A i \in Seats : alive(i) \in BOOLEAN /\ at(i) \in Nat /\ long(i) \in Nat /\ i \in Int
  <2>1. /\ s.snakes \in [Seats -> Snakes] /\ s.deathIndex \in [Seats -> Nat]
    BY DEF Sims
  <2>2. \A i \in Seats : s.snakes[i] \in Snakes /\ at(i) \in Nat
    BY <2>1
  <2>3. \A i \in Seats : alive(i) \in BOOLEAN /\ long(i) \in Nat
    BY <2>2, SnakeParts
  <2>4. \A i \in Seats : i \in Int
    BY DEF Seats
  <2> QED
    BY <2>2, <2>3, <2>4
<1>2. \A i, j \in Seats : i # j /\ ~ alive(i) /\ ~ alive(j) =>
        /\ at(i) # at(j)
        /\ s.snakes[i].died > s.snakes[j].died => at(i) > at(j)
  BY LivingSeats DEF Deaths, Dead
<1>3. \A i, j \in Seats : i # j =>
        (Outranks(s, i, j) <=>
           \/ alive(i) /\ ~ alive(j)
           \/ ~ alive(i) /\ ~ alive(j) /\ at(i) > at(j)
           \/ alive(i) /\ alive(j) /\ (long(i) > long(j) \/ (long(i) = long(j) /\ i < j)))
  BY <1>1 DEF Outranks
<1>4. \A i, j \in Seats : i # j /\ Above(s.snakes[i], s.snakes[j]) => Outranks(s, i, j)
  BY <1>2, <1>3 DEF Above
<1> HIDE DEF alive, at, long
<1>5. \A i, j \in Seats : i # j => (Outranks(s, i, j) <=> ~ Outranks(s, j, i))
  BY <1>1, <1>2, <1>3
<1>6. ASSUME NEW i \in Seats, NEW j \in Seats, NEW k \in Seats, i # j, j # k, i # k,
             Outranks(s, i, j), Outranks(s, j, k)
      PROVE  Outranks(s, i, k)
  BY <1>1, <1>3, <1>6
<1> QED
  BY <1>4, <1>5, <1>6

\* Counting who is above gives every seat a place of its own.
LEMMA PlacesDiffer ==
  ASSUME NEW s \in Sims, Deaths(s),
         NEW place, place = [i \in Seats |->
                       1 + Cardinality({j \in Seats \ {i} : Outranks(s, j, i)})]
  PROVE  /\ place \in [Seats -> 1 .. NumSnakes]
         /\ \A i, j \in Seats : i # j /\ Outranks(s, i, j) => place[i] < place[j]
         /\ {place[i] : i \in Seats} = 1 .. NumSnakes
<1> DEFINE Upper(i) == {j \in Seats \ {i} : Outranks(s, j, i)}
<1>1. ASSUME NEW i \in Seats
      PROVE  Cardinality(Upper(i)) \in 0 .. NumSnakes - 1
  <2>1. Cardinality(Upper(i)) < Cardinality(Seats)
    <3>1. Upper(i) \subseteq Seats /\ Upper(i) # Seats
      OBVIOUS
    <3> QED
      BY <3>1, FewerOf
  <2>2. Cardinality(Upper(i)) \in 0 .. NumSnakes /\ Cardinality(Seats) = NumSnakes
    BY Finite
  <2> QED
    BY <2>1, <2>2, SimAssumption
<1>2. ASSUME NEW i \in Seats, NEW j \in Seats, i # j, Outranks(s, i, j)
      PROVE  Cardinality(Upper(i)) < Cardinality(Upper(j))
  <2>1. i \in Upper(j) /\ i \notin Upper(i)
    BY <1>2
  <2>2. ASSUME NEW k \in Upper(i)
        PROVE  k \in Upper(j)
    <3>1. k \in Seats /\ k # i /\ Outranks(s, k, i)
      OBVIOUS
    <3>2. k # j
      BY <1>2, <3>1, OutranksOrders
    <3>3. Outranks(s, k, j)
      BY <1>2, <3>1, <3>2, OutranksOrders
    <3> QED
      BY <3>1, <3>2, <3>3
  <2>3. Upper(i) \subseteq Upper(j) /\ Upper(i) # Upper(j) /\ Upper(j) \subseteq Seats
    BY <2>1, <2>2
  <2> QED
    BY <2>3, FewerOf
<1>3. \A i \in Seats : place[i] = 1 + Cardinality(Upper(i))
  OBVIOUS
<1> HIDE DEF Upper
<1>4. place \in [Seats -> 1 .. NumSnakes]
  <2>1. \A i \in Seats : place[i] \in 1 .. NumSnakes
    BY <1>1, <1>3, SimAssumption
  <2>2. place = [i \in Seats |-> place[i]]
    OBVIOUS
  <2> QED
    BY <2>1, <2>2
<1>5. \A i, j \in Seats : i # j /\ Outranks(s, i, j) => place[i] < place[j]
  BY <1>1, <1>2, <1>3
<1>6. place \in Injection(Seats, 1 .. NumSnakes)
  <2>1. \A i, j \in Seats : i # j => place[i] # place[j]
    <3>1. \A i \in Seats : place[i] \in Int
      BY <1>4
    <3>2. \A i, j \in Seats : i # j => Outranks(s, i, j) \/ Outranks(s, j, i)
      BY OutranksOrders
    <3> QED
      BY <3>1, <3>2, <1>5
  <2> QED
    BY <1>4, <2>1 DEF Injection, IsInjective
<1>7. place \in Surjection(Seats, 1 .. NumSnakes)
  <2>1. IsFiniteSet(1 .. NumSnakes) /\ Cardinality(1 .. NumSnakes) = NumSnakes
    <3>1. 1 \in Int /\ NumSnakes \in Int /\ NumSnakes >= 1
      BY SimAssumption
    <3> QED
      BY <3>1, FS_Interval
  <2> QED
    BY <1>6, <2>1, Finite, FS_Injection
<1>8. {place[i] : i \in Seats} = 1 .. NumSnakes
  BY <1>4, <1>7 DEF Surjection
<1> QED
  BY <1>4, <1>5, <1>8
\* A snake that is given a place, or dies.
Placed(sn, p) == [sn EXCEPT !.place = p]
Fallen(sn, t) == [sn EXCEPT !.alive = FALSE, !.died = t]

LEMMA SnakePlaced ==
  ASSUME NEW sn \in Snakes, NEW p \in 0 .. NumSnakes
  PROVE  /\ Placed(sn, p) \in Snakes
         /\ Placed(sn, p).body = sn.body /\ Placed(sn, p).dir = sn.dir
         /\ Placed(sn, p).alive = sn.alive /\ Placed(sn, p).grow = sn.grow
         /\ Placed(sn, p).score = sn.score /\ Placed(sn, p).died = sn.died
         /\ Placed(sn, p).maxLength = sn.maxLength /\ Placed(sn, p).pending = sn.pending
         /\ Placed(sn, p).place = p /\ Placed(sn, p).kills = sn.kills
BY DEF Placed, Snakes

LEMMA SnakeDead ==
  ASSUME NEW sn \in Snakes, NEW t \in Nat
  PROVE  /\ Fallen(sn, t) \in Snakes
         /\ Fallen(sn, t).body = sn.body /\ Fallen(sn, t).dir = sn.dir
         /\ Fallen(sn, t).alive = FALSE /\ Fallen(sn, t).grow = sn.grow
         /\ Fallen(sn, t).score = sn.score /\ Fallen(sn, t).died = t
         /\ Fallen(sn, t).maxLength = sn.maxLength /\ Fallen(sn, t).pending = sn.pending
         /\ Fallen(sn, t).place = sn.place /\ Fallen(sn, t).kills = sn.kills
<1>1. t \in Nat \union {NotDead}
  OBVIOUS
<1> QED
  BY <1>1 DEF Fallen, Snakes

\* Looking whether the match is over keeps the invariant and decides what it asks.
LEMMA CheckOverKeeps ==
  ASSUME NEW s, Kept(s)
  PROVE  /\ Kept(CheckOver(s))
         /\ ~ CheckOver(s).over => Cardinality(Living(CheckOver(s))) > Few
         /\ \A i \in Seats : CheckOver(s).snakes[i].kills = s.snakes[i].kills
         /\ Living(CheckOver(s)) = Living(s)
<1> DEFINE r     == CheckOver(s)
           place == [i \in Seats |-> 1 + Cardinality({j \in Seats \ {i} : Outranks(s, j, i)})]
<1>0. s \in Sims /\ Deaths(s) /\ Living(s) \subseteq Seats
  BY LivingSeats DEF Kept, Standing
<1>1. Cardinality(Living(s)) \in Nat /\ Few \in Nat
  BY <1>0, Finite DEF Few
<1>2. CASE s.over \/ Cardinality(Living(s)) > Few
  <2>1. r = s
    BY <1>2 DEF CheckOver, Few
  <2> QED
    BY <1>1, <1>2, <2>1 DEF Kept, Standing
<1>3. CASE ~ (s.over \/ Cardinality(Living(s)) > Few)
  <2>1. r = AssignPlacements([s EXCEPT !.over = TRUE])
    BY <1>3 DEF CheckOver, Few
  <2>2. \A i, j \in Seats : Outranks([s EXCEPT !.over = TRUE], i, j) <=> Outranks(s, i, j)
    BY <1>0 DEF Outranks, Sims
  <2>3. \A i \in Seats : {j \in Seats \ {i} : Outranks([s EXCEPT !.over = TRUE], j, i)}
                          = {j \in Seats \ {i} : Outranks(s, j, i)}
    BY <2>2
  <2>4. /\ r.snakes = [i \in Seats |-> [s.snakes[i] EXCEPT !.place = place[i]]]
        /\ r.over = TRUE /\ r.food = s.food /\ r.tick = s.tick /\ r.deathIndex = s.deathIndex
        /\ r = [snakes |-> r.snakes, food |-> r.food, tick |-> r.tick, over |-> r.over,
                deathIndex |-> r.deathIndex]
    <3> DEFINE o == [s EXCEPT !.over = TRUE]
    <3>1. /\ o \in Sims /\ o.snakes = s.snakes /\ o.food = s.food /\ o.tick = s.tick
          /\ o.over = TRUE /\ o.deathIndex = s.deathIndex
      BY <1>0 DEF Sims
    <3>2. \A i \in Seats :
            [o.snakes[i] EXCEPT !.place = 1 + Cardinality({j \in Seats \ {i} : Outranks(o, j, i)})]
            = [s.snakes[i] EXCEPT !.place = place[i]]
      BY <2>3, <3>1
    <3> HIDE DEF o, place
    <3>3. r = [o EXCEPT !.snakes =
                 [i \in Seats |-> [o.snakes[i] EXCEPT !.place =
                    1 + Cardinality({j \in Seats \ {i} : Outranks(o, j, i)})]]]
      BY <2>1, Zenon DEF AssignPlacements, o
    <3>4. r = [o EXCEPT !.snakes = [i \in Seats |-> [s.snakes[i] EXCEPT !.place = place[i]]]]
      BY <3>2, <3>3
    <3> HIDE DEF r
    <3> QED
      BY <3>1, <3>4 DEF Sims
  <2>5. /\ place \in [Seats -> 1 .. NumSnakes]
        /\ \A i, j \in Seats : i # j /\ Outranks(s, i, j) => place[i] < place[j]
        /\ {place[i] : i \in Seats} = 1 .. NumSnakes
    BY <1>0, PlacesDiffer
  <2> HIDE DEF r, place
  <2>6. \A i \in Seats :
          /\ r.snakes[i] \in Snakes
          /\ r.snakes[i].body = s.snakes[i].body /\ r.snakes[i].dir = s.snakes[i].dir
          /\ r.snakes[i].alive = s.snakes[i].alive /\ r.snakes[i].grow = s.snakes[i].grow
          /\ r.snakes[i].score = s.snakes[i].score /\ r.snakes[i].died = s.snakes[i].died
          /\ r.snakes[i].maxLength = s.snakes[i].maxLength
          /\ r.snakes[i].pending = s.snakes[i].pending /\ r.snakes[i].place = place[i]
          /\ r.snakes[i].kills = s.snakes[i].kills
    <3>1. \A i \in Seats : s.snakes[i] \in Snakes /\ place[i] \in 0 .. NumSnakes
      BY <1>0, <2>5 DEF Sims
    <3>2. \A i \in Seats : r.snakes[i] = Placed(s.snakes[i], place[i])
      BY <2>4 DEF Placed
    <3>3. ASSUME NEW i \in Seats
          PROVE  /\ r.snakes[i] \in Snakes
                 /\ r.snakes[i].body = s.snakes[i].body /\ r.snakes[i].dir = s.snakes[i].dir
                 /\ r.snakes[i].alive = s.snakes[i].alive /\ r.snakes[i].grow = s.snakes[i].grow
                 /\ r.snakes[i].score = s.snakes[i].score /\ r.snakes[i].died = s.snakes[i].died
                 /\ r.snakes[i].maxLength = s.snakes[i].maxLength
                 /\ r.snakes[i].pending = s.snakes[i].pending /\ r.snakes[i].place = place[i]
                 /\ r.snakes[i].kills = s.snakes[i].kills
      BY <3>1, <3>2, SnakePlaced
    <3> QED
      BY <3>3
  <2>7. r \in Sims
    BY <1>0, <2>4, <2>6 DEF Sims
  <2>8. \A i \in Seats : Sound(r.snakes[i])
    BY <2>6 DEF Kept, Standing, Sound, Grown
  <2>9. Living(r) = Living(s) /\ Dead(r) = Dead(s)
    <3>1. \A i \in Seats : i \in Living(r) <=> r.snakes[i].alive
      BY <2>7, LivingSeats
    <3>2. \A i \in Seats : i \in Living(s) <=> s.snakes[i].alive
      BY <1>0, LivingSeats
    <3>3. Living(r) \subseteq Seats /\ Living(s) \subseteq Seats
      BY <1>0, <2>7, LivingSeats
    <3> QED
      BY <2>6, <3>1, <3>2, <3>3 DEF Dead
  <2>10. Deaths(r)
    <3>1. \A i \in Dead(s) : i \in Seats
      BY DEF Dead
    <3> QED
      BY <1>0, <2>4, <2>6, <2>9, <3>1 DEF Deaths
  <2>11. Ranked(r)
    <3>1. {r.snakes[i].place : i \in Seats} = 1 .. NumSnakes
      BY <2>5, <2>6
    <3>2. ASSUME NEW i \in Seats, NEW j \in Seats, Above(r.snakes[i], r.snakes[j])
          PROVE  r.snakes[i].place < r.snakes[j].place
      <4>1. Above(s.snakes[i], s.snakes[j])
        BY <2>6, <3>2 DEF Above
      <4>2. i # j
        <5>1. s.snakes[i] \in Snakes
          BY <1>0 DEF Sims
        <5>2. s.snakes[i].died \in Int
          BY <5>1 DEF Snakes, NotDead
        <5> QED
          BY <4>1, <5>2 DEF Above
      <4>3. Outranks(s, i, j)
        BY <1>0, <4>1, <4>2, OutranksOrders
      <4> QED
        BY <2>5, <2>6, <4>2, <4>3
    <3> QED
      BY <3>1, <3>2 DEF Ranked
  <2>12. Cardinality(Living(r)) <= Few
    BY <1>1, <1>3, <2>9
  <2> QED
    BY <2>4, <2>6, <2>7, <2>8, <2>9, <2>10, <2>11, <2>12 DEF Kept, Standing, r
<1> QED
  BY <1>2, <1>3

\* The order of deaths grows by those who die, in seat order.
LEMMA KillKeeps ==
  ASSUME NEW s, Standing(s), NEW S, S \subseteq Living(s),
         \A i \in Seats : Grown(s.snakes[i]) /\ (i \notin S => Sound(s.snakes[i]))
  PROVE  Kept(Kill(s, S))
<1> DEFINE r    == Kill(s, S)
           dead == Cardinality(Dead(s))
           Earlier(i) == {j \in S : j < i}
<1>0. /\ s \in Sims /\ Deaths(s) /\ Living(s) \subseteq Seats /\ S \subseteq Seats
      /\ \A i \in Seats : i \in Living(s) <=> s.snakes[i].alive
      /\ \A i \in Seats : s.snakes[i] \in Snakes
  BY LivingSeats DEF Kept, Standing, Sims
<1>1. /\ r.snakes = [i \in Seats |-> IF i \in S THEN [s.snakes[i] EXCEPT !.alive = FALSE, !.died = s.tick]
                                     ELSE s.snakes[i]]
      /\ r.deathIndex = [i \in Seats |-> IF i \in S THEN dead + Cardinality(Earlier(i))
                                         ELSE s.deathIndex[i]]
      /\ r.over = s.over /\ r.food = s.food /\ r.tick = s.tick
      /\ r = [snakes |-> r.snakes, food |-> r.food, tick |-> r.tick, over |-> r.over,
              deathIndex |-> r.deathIndex]
  <2>1. /\ Kill(s, S) = [s EXCEPT !.snakes = [i \in Seats |->
                              IF i \in S THEN [s.snakes[i] EXCEPT !.alive = FALSE, !.died = s.tick]
                              ELSE s.snakes[i]],
                            !.deathIndex = [i \in Seats |->
                              IF i \in S THEN dead + Cardinality(Earlier(i)) ELSE s.deathIndex[i]]]
    BY DEF Kill, Dead
  <2> HIDE DEF dead, Earlier
  <2> QED
    BY <1>0, <2>1 DEF Sims
<1>2. /\ dead \in Nat /\ Cardinality(S) \in Nat
      /\ \A i \in S : Cardinality(Earlier(i)) \in Nat
      /\ \A i \in S : Cardinality(Earlier(i)) < Cardinality(S)
      /\ \A i, j \in S : i < j => Cardinality(Earlier(i)) < Cardinality(Earlier(j))
  <2>1. dead \in Nat /\ Cardinality(S) \in Nat
    BY <1>0, Finite DEF Dead
  <2>2. \A i \in S : Earlier(i) \subseteq Seats /\ Earlier(i) \subseteq S /\ i \in Int
    <3>1. \A i \in Seats : i \in Int
      BY DEF Seats
    <3> QED
      BY <1>0, <3>1
  <2>3. ASSUME NEW i \in S
        PROVE  Cardinality(Earlier(i)) \in Nat /\ Cardinality(Earlier(i)) < Cardinality(S)
    <3>1. Earlier(i) \subseteq Seats /\ Earlier(i) \subseteq S /\ i \notin Earlier(i)
      BY <2>2
    <3>2. Cardinality(Earlier(i)) \in Nat
      BY <3>1, Finite
    <3>3. Earlier(i) # S
      BY <3>1
    <3> QED
      BY <1>0, <3>1, <3>2, <3>3, FewerOf
  <2>4. ASSUME NEW i \in S, NEW j \in S, i < j
        PROVE  Cardinality(Earlier(i)) < Cardinality(Earlier(j))
    <3>1. \A k \in S : k \in Int
      BY <2>2
    <3>2. Earlier(i) \subseteq Earlier(j) /\ i \in Earlier(j) /\ i \notin Earlier(i)
      BY <2>4, <3>1
    <3>3. Earlier(j) \subseteq Seats /\ Earlier(i) # Earlier(j)
      BY <2>2, <3>2
    <3> QED
      BY <3>2, <3>3, FewerOf
  <2> QED
    BY <2>1, <2>3, <2>4
<1>3. Cardinality(Dead(s) \union S) = dead + Cardinality(S)
  <2>1. Dead(s) \subseteq Seats /\ Dead(s) \intersect S = {}
    BY DEF Dead
  <2>2. IsFiniteSet(Dead(s)) /\ IsFiniteSet(S)
    BY <1>0, <2>1, Finite
  <2>3. Cardinality(Dead(s) \union S) = Cardinality(Dead(s)) + Cardinality(S) - Cardinality({})
    BY <2>1, <2>2, FS_Union
  <2> QED
    BY <1>2, <2>3, FS_EmptySet
<1> HIDE DEF Earlier, dead, r
<1>4. /\ \A i \in Seats : i \in S => r.deathIndex[i] = dead + Cardinality(Earlier(i))
      /\ \A i \in Seats : i \notin S => r.deathIndex[i] = s.deathIndex[i]
  BY <1>1
<1>5. /\ \A i \in Seats : r.snakes[i] \in Snakes
      /\ \A i \in S : r.snakes[i].alive = FALSE /\ r.snakes[i].died = s.tick
      /\ \A i \in Seats \ S :
           r.snakes[i].alive = s.snakes[i].alive /\ r.snakes[i].died = s.snakes[i].died
      /\ \A i \in Seats :
           /\ r.snakes[i].body = s.snakes[i].body /\ r.snakes[i].dir = s.snakes[i].dir
           /\ r.snakes[i].grow = s.snakes[i].grow /\ r.snakes[i].score = s.snakes[i].score
           /\ r.snakes[i].maxLength = s.snakes[i].maxLength
           /\ r.snakes[i].pending = s.snakes[i].pending
           /\ r.snakes[i].place = s.snakes[i].place
  <2>1. s.tick \in Nat
    BY <1>0 DEF Sims
  <2>2. \A i \in S : r.snakes[i] = Fallen(s.snakes[i], s.tick)
    <3>1. \A i \in S : i \in Seats
      BY <1>0
    <3> QED
      BY <1>1, <3>1, Zenon DEF Fallen
  <2>3. \A i \in Seats \ S : r.snakes[i] = s.snakes[i]
    BY <1>1, Zenon
  <2>4. \A i \in S :
          /\ r.snakes[i] \in Snakes
          /\ r.snakes[i].alive = FALSE /\ r.snakes[i].died = s.tick
          /\ r.snakes[i].body = s.snakes[i].body /\ r.snakes[i].dir = s.snakes[i].dir
          /\ r.snakes[i].grow = s.snakes[i].grow /\ r.snakes[i].score = s.snakes[i].score
          /\ r.snakes[i].maxLength = s.snakes[i].maxLength
          /\ r.snakes[i].pending = s.snakes[i].pending
          /\ r.snakes[i].place = s.snakes[i].place
    <3>1. \A i \in S : s.snakes[i] \in Snakes
      BY <1>0
    <3>2. ASSUME NEW i \in S
          PROVE  /\ r.snakes[i] \in Snakes
                 /\ r.snakes[i].alive = FALSE /\ r.snakes[i].died = s.tick
                 /\ r.snakes[i].body = s.snakes[i].body /\ r.snakes[i].dir = s.snakes[i].dir
                 /\ r.snakes[i].grow = s.snakes[i].grow /\ r.snakes[i].score = s.snakes[i].score
                 /\ r.snakes[i].maxLength = s.snakes[i].maxLength
                 /\ r.snakes[i].pending = s.snakes[i].pending
                 /\ r.snakes[i].place = s.snakes[i].place
      <4>1. r.snakes[i] = Fallen(s.snakes[i], s.tick) /\ s.snakes[i] \in Snakes
        BY <2>2, <3>1
      <4> DEFINE sn  == s.snakes[i]
                 new == Fallen(sn, s.tick)
      <4>2. /\ new \in Snakes /\ new.alive = FALSE /\ new.died = s.tick
            /\ new.body = sn.body /\ new.dir = sn.dir /\ new.grow = sn.grow
            /\ new.score = sn.score /\ new.maxLength = sn.maxLength
            /\ new.pending = sn.pending /\ new.place = sn.place
        BY <2>1, <4>1, SnakeDead, Zenon
      <4> HIDE DEF new
      <4>3. r.snakes[i] = new
        BY <4>1 DEF new
      <4> QED
        BY <4>2, <4>3
    <3> QED
      BY <3>2
  <2> QED
    BY <1>0, <2>3, <2>4
<1>6. r \in Sims
  <2>1. r.deathIndex \in [Seats -> Nat]
    <3>1. \A i \in Seats : r.deathIndex[i] \in Nat
      BY <1>0, <1>2, <1>4 DEF Sims
    <3> QED
      BY <1>1, <3>1
  <2>2. r.snakes \in [Seats -> Snakes]
    BY <1>1, <1>5
  <2> QED
    BY <1>0, <1>1, <2>1, <2>2 DEF Sims
<1>7. /\ Living(r) = Living(s) \ S /\ Dead(r) = Dead(s) \union S
      /\ \A i \in Seats : i \in Dead(s) <=> ~ s.snakes[i].alive
  <2>1. \A i \in Seats : i \in Living(r) <=> r.snakes[i].alive
    BY <1>6, LivingSeats
  <2>2. Living(r) \subseteq Seats
    BY <1>6, LivingSeats
  <2> QED
    BY <1>0, <1>5, <2>1, <2>2 DEF Dead
<1>8. \A i \in Seats : Sound(r.snakes[i])
  <2>1. \A i \in Seats : r.snakes[i].alive => s.snakes[i].alive /\ i \notin S
    BY <1>5
  <2> QED
    BY <1>5, <2>1 DEF Kept, Standing, Sound, Grown
<1>9. \A i \in Dead(s) : /\ i \in Seats \ S /\ s.snakes[i].died \in 0 .. s.tick
                         /\ s.deathIndex[i] \in Nat /\ s.deathIndex[i] < dead
  BY <1>0, <1>7 DEF Deaths, dead, Dead, Sims
<1>10. Deaths(r)
  <2>0. s.tick \in Nat
    BY <1>0 DEF Sims
  <2>1. ASSUME NEW i \in Dead(r)
        PROVE  /\ r.snakes[i].died \in 0 .. r.tick /\ r.deathIndex[i] < Cardinality(Dead(r))
    <3>0. r.tick = s.tick /\ Cardinality(Dead(r)) = dead + Cardinality(S)
      BY <1>1, <1>3, <1>7
    <3>1. CASE i \in S
      <4>1. r.snakes[i].died = s.tick /\ r.deathIndex[i] = dead + Cardinality(Earlier(i))
        BY <1>0, <1>4, <1>5, <3>1
      <4>2. Cardinality(Earlier(i)) \in Nat /\ Cardinality(Earlier(i)) < Cardinality(S)
        BY <1>2, <3>1
      <4> QED
        BY <1>2, <2>0, <3>0, <4>1, <4>2
    <3>2. CASE i \in Dead(s)
      <4>1. r.snakes[i].died = s.snakes[i].died /\ r.deathIndex[i] = s.deathIndex[i]
        BY <1>4, <1>5, <1>9, <3>2
      <4> QED
        BY <1>2, <1>9, <3>0, <3>2, <4>1
    <3> QED
      BY <1>7, <3>1, <3>2
  <2>2. ASSUME NEW i \in Dead(r), NEW j \in Dead(r), i # j
        PROVE  /\ r.deathIndex[i] # r.deathIndex[j]
               /\ r.snakes[i].died > r.snakes[j].died => r.deathIndex[i] > r.deathIndex[j]
    <3>1. CASE i \in S /\ j \in S
      <4>1. i \in Int /\ j \in Int /\ i \in Seats /\ j \in Seats
        BY <1>0, <3>1 DEF Seats
      <4>2. Cardinality(Earlier(i)) # Cardinality(Earlier(j))
        BY <1>2, <2>2, <3>1, <4>1
      <4>3. r.snakes[i].died = s.tick /\ r.snakes[j].died = s.tick
        BY <1>5, <3>1
      <4> QED
        BY <1>2, <1>4, <2>0, <3>1, <4>1, <4>2, <4>3
    <3>2. CASE i \in S /\ j \in Dead(s)
      <4>1. r.deathIndex[i] = dead + Cardinality(Earlier(i)) /\ r.deathIndex[j] = s.deathIndex[j]
        BY <1>0, <1>4, <1>9, <3>2
      <4> QED
        BY <1>2, <1>9, <3>2, <4>1
    <3>3. CASE i \in Dead(s) /\ j \in S
      <4>1. r.deathIndex[j] = dead + Cardinality(Earlier(j)) /\ r.deathIndex[i] = s.deathIndex[i]
        BY <1>0, <1>4, <1>9, <3>3
      <4>2. r.snakes[j].died = s.tick /\ r.snakes[i].died = s.snakes[i].died
        BY <1>5, <1>9, <3>3
      <4> QED
        BY <1>2, <1>9, <2>0, <3>3, <4>1, <4>2
    <3>4. CASE i \in Dead(s) /\ j \in Dead(s)
      <4>1. i \in Seats \ S /\ j \in Seats \ S
        BY <1>9, <3>4
      <4> QED
        BY <1>0, <1>4, <1>5, <2>2, <3>4, <4>1 DEF Deaths
    <3> QED
      BY <1>7, <3>1, <3>2, <3>3, <3>4
  <2> QED
    BY <2>1, <2>2 DEF Deaths
<1>11. ASSUME s.over
       PROVE  Cardinality(Living(r)) <= Few /\ Ranked(r)
  <2>1. Cardinality(Living(s)) <= Few /\ Ranked(s) /\ Few \in Nat /\ Few <= 1
    BY <1>11 DEF Kept, Standing, Few
  <2>2. /\ Cardinality(Living(r)) <= Cardinality(Living(s))
        /\ Cardinality(Living(r)) \in Nat /\ Cardinality(Living(s)) \in Nat
    <3>1. Living(r) \subseteq Living(s) /\ Living(r) \subseteq Seats
      BY <1>0, <1>7
    <3>2. IsFiniteSet(Living(s)) /\ Cardinality(Living(r)) \in Nat /\ Cardinality(Living(s)) \in Nat
      BY <1>0, <3>1, Finite
    <3> QED
      BY <3>1, <3>2, FS_Subset
  <2>3. ASSUME NEW i \in Living(s), NEW j \in Living(s)
        PROVE  i = j
    <3>1. SUFFICES ASSUME i # j
                   PROVE  FALSE
      OBVIOUS
    <3>2. {i} \subseteq Living(s) /\ {i} # Living(s)
      BY <3>1
    <3>3. Cardinality({i}) < Cardinality(Living(s)) /\ Cardinality({i}) = 1
      BY <1>0, <3>2, FewerOf, FS_Singleton
    <3> QED
      BY <2>1, <2>2, <3>3
  <2>4. ASSUME NEW i \in Seats, NEW j \in Seats, Above(r.snakes[i], r.snakes[j])
        PROVE  Above(s.snakes[i], s.snakes[j])
    <3>0. s.tick \in Nat /\ s.snakes[i].died \in Int /\ s.snakes[j].died \in Int
      <4>1. \A k \in Seats : s.snakes[k].died \in Int
        BY <1>0 DEF Snakes, NotDead
      <4> QED
        BY <1>0, <4>1 DEF Sims
    <3>1. CASE i \notin S /\ j \notin S
      BY <1>5, <2>4, <3>1 DEF Above
    <3>2. CASE i \in S /\ j \notin S
      BY <1>0, <1>5, <2>4, <3>2 DEF Above
    <3>3. CASE i \in S /\ j \in S
      <4>1. ~ r.snakes[i].alive /\ r.snakes[i].died = r.snakes[j].died /\ r.snakes[i].died = s.tick
        BY <1>5, <3>3
      <4> QED
        BY <2>4, <3>0, <4>1 DEF Above
    <3>4. CASE i \notin S /\ j \in S
      <4>1. ~ r.snakes[j].alive /\ r.snakes[j].died = s.tick
        BY <1>5, <3>4
      <4>2. r.snakes[i].alive = s.snakes[i].alive /\ r.snakes[i].died = s.snakes[i].died
        BY <1>5, <3>4
      <4>3. s.snakes[i].alive => i \in Living(s) /\ j \in Living(s)
        BY <1>0, <3>4
      <4>4. ~ s.snakes[i].alive => s.snakes[i].died <= s.tick
        BY <1>7, <1>9, <3>0
      <4> QED
        BY <2>3, <2>4, <3>0, <3>4, <4>1, <4>2, <4>3, <4>4 DEF Above
    <3> QED
      BY <3>1, <3>2, <3>3, <3>4
  <2>5. Ranked(r)
    <3>1. {r.snakes[i].place : i \in Seats} = {s.snakes[i].place : i \in Seats}
      BY <1>5
    <3> QED
      BY <1>5, <2>1, <2>4, <3>1 DEF Ranked
  <2> QED
    BY <2>1, <2>2, <2>5
<1>12. ASSUME ~ s.over
       PROVE  \A i \in Seats : r.snakes[i].place = 0
  BY <1>5, <1>12 DEF Kept, Standing
<1> QED
  BY <1>1, <1>6, <1>8, <1>10, <1>11, <1>12 DEF Kept, Standing, r
-----------------------------------------------------------------------------
(***************************************************************************)
(* A move.                                                                 *)
(***************************************************************************)
Turn(sn) == [sn EXCEPT !.dir = Heading(sn), !.pending = NoTurn]
Credited(sn, n) == [sn EXCEPT !.kills = @ + n]

LEMMA SnakeTurned ==
  ASSUME NEW sn \in Snakes
  PROVE  /\ Turn(sn) \in Snakes
         /\ Turn(sn).body = sn.body /\ Turn(sn).dir = Heading(sn)
         /\ Turn(sn).alive = sn.alive /\ Turn(sn).grow = sn.grow
         /\ Turn(sn).score = sn.score /\ Turn(sn).died = sn.died
         /\ Turn(sn).maxLength = sn.maxLength /\ Turn(sn).pending = NoTurn
         /\ Turn(sn).place = sn.place /\ Turn(sn).kills = sn.kills
<1>1. Heading(sn) \in Directions
  BY SnakeParts
<1> QED
  BY <1>1 DEF Turn, Snakes

LEMMA SnakeCredited ==
  ASSUME NEW sn \in Snakes, NEW n \in Nat
  PROVE  /\ Credited(sn, n) \in Snakes
         /\ Credited(sn, n).body = sn.body /\ Credited(sn, n).dir = sn.dir
         /\ Credited(sn, n).alive = sn.alive /\ Credited(sn, n).grow = sn.grow
         /\ Credited(sn, n).score = sn.score /\ Credited(sn, n).died = sn.died
         /\ Credited(sn, n).maxLength = sn.maxLength /\ Credited(sn, n).pending = sn.pending
         /\ Credited(sn, n).place = sn.place /\ Credited(sn, n).kills = sn.kills + n
<1>1. PICK k \in Nat : k = sn.kills + n
  BY SnakeParts
<1>2. Credited(sn, n) = [sn EXCEPT !.kills = k]
  BY <1>1 DEF Credited
<1> QED
  BY <1>1, <1>2 DEF Snakes

\* The cell ahead is next to the head, across an edge when the edges join.
LEMMA AheadIs ==
  ASSUME NEW sn \in Snakes, Len(sn.body) >= 1, wrap \in BOOLEAN, Ahead(sn) \in Cells
  PROVE  /\ HeadOf(sn) \in Cells
         /\ Adjacent(Ahead(sn), HeadOf(sn))
         /\ Fold(Along(HeadOf(sn), Heading(sn), 1)) = Ahead(sn)
<1>1. HeadOf(sn) \in Cells
  <2>1. sn.body \in Seq(Cells)
    BY SnakeParts
  <2> QED
    BY <2>1 DEF HeadOf
<1>2. Heading(sn) \in Directions
  BY SnakeParts
<1>3. Ahead(sn) \in {Along(HeadOf(sn), Heading(sn), 1), Fold(Along(HeadOf(sn), Heading(sn), 1))}
  BY DEF Ahead
<1> QED
  BY <1>1, <1>2, <1>3, StepBack

\* A cell before a chain next to its first makes a longer chain.
LEMMA ChainGrows ==
  ASSUME NEW body \in Seq(Cells), Len(body) >= 1, Chain(body),
         NEW q \in Cells, Adjacent(q, body[1])
  PROVE  LET long == <<q>> \o body IN
         /\ long \in Seq(Cells) /\ Len(long) = Len(body) + 1 /\ Chain(long)
         /\ long[1] = q /\ \A k \in 1 .. Len(body) : long[k + 1] = body[k]
<1> DEFINE long == <<q>> \o body
<1>1. PICK n \in Nat : Len(body) = n
  OBVIOUS
<1>2. long \in Seq(Cells) /\ Len(long) = n + 1
  BY <1>1
<1>3. long[1] = q /\ \A k \in 1 .. n : long[k + 1] = body[k]
  BY <1>1
<1> HIDE DEF long
<1>4. ASSUME NEW k \in 1 .. Len(long) - 1
      PROVE  Adjacent(long[k], long[k + 1])
  <2>1. CASE k = 1
    <3>1. long[2] = body[1]
      BY <1>1, <1>3
    <3> QED
      BY <1>3, <2>1, <3>1
  <2>2. CASE k # 1
    <3>1. k - 1 \in 1 .. n - 1
      BY <1>2, <2>2
    <3>2. Adjacent(body[k - 1], body[k - 1 + 1])
      BY <1>1, <3>1 DEF Chain
    <3>3. long[k] = body[k - 1] /\ long[k + 1] = body[k]
      <4>1. k - 1 \in 1 .. n /\ k \in 1 .. n /\ k - 1 + 1 = k
        BY <3>1
      <4>2. long[k - 1 + 1] = body[k - 1] /\ long[k + 1] = body[k]
        BY <1>3, <4>1
      <4> QED
        BY <4>1, <4>2
    <3>4. k - 1 + 1 = k
      BY <3>1
    <3> QED
      BY <3>2, <3>3, <3>4
  <2> QED
    BY <2>1, <2>2
<1>5. Chain(long)
  BY <1>4 DEF Chain
<1> QED
  BY <1>1, <1>2, <1>3, <1>5 DEF long

\* A chain without its last cell is one.
LEMMA ChainCut ==
  ASSUME NEW long \in Seq(Cells), Chain(long), Len(long) >= 2
  PROVE  LET body == SubSeq(long, 1, Len(long) - 1) IN
         /\ body \in Seq(Cells) /\ Len(body) = Len(long) - 1 /\ Chain(body)
         /\ \A k \in 1 .. Len(long) - 1 : body[k] = long[k]
<1> DEFINE body == SubSeq(long, 1, Len(long) - 1)
<1>1. PICK n \in Nat : Len(long) = n
  OBVIOUS
<1>2. /\ body \in Seq(Cells) /\ Len(body) = n - 1
      /\ \A k \in 1 .. n - 1 : body[k] = long[k]
  BY <1>1
<1> HIDE DEF body
<1>3. ASSUME NEW k \in 1 .. Len(body) - 1
      PROVE  Adjacent(body[k], body[k + 1])
  <2>1. k \in 1 .. n - 1 /\ k + 1 \in 1 .. n - 1 /\ k \in 1 .. Len(long) - 1
    BY <1>1, <1>2
  <2>2. Adjacent(long[k], long[k + 1])
    BY <2>1 DEF Chain
  <2> QED
    BY <1>2, <2>1, <2>2
<1>4. Chain(body)
  BY <1>3 DEF Chain
<1> QED
  BY <1>1, <1>2, <1>4 DEF body

\* What a move makes of a snake, and that it keeps it sound.
LEMMA MoveKeeps ==
  ASSUME NEW sn \in Snakes, Len(sn.body) >= 1, wrap \in BOOLEAN, Ahead(sn) \in Cells,
         NEW eats \in BOOLEAN
  PROVE  /\ Move(sn, eats) \in Snakes
         /\ Move(sn, eats).alive = sn.alive /\ Move(sn, eats).died = sn.died
         /\ Move(sn, eats).place = sn.place /\ Move(sn, eats).kills = sn.kills
         /\ Move(sn, eats).dir = Heading(sn) /\ Move(sn, eats).pending = NoTurn
         /\ Move(sn, eats).body[1] = Ahead(sn)
         /\ Move(sn, eats).body = IF eats \/ sn.grow > 0 THEN <<Ahead(sn)>> \o sn.body
                                  ELSE SubSeq(<<Ahead(sn)>> \o sn.body, 1, Len(sn.body))
         /\ Sound(sn) => Sound(Move(sn, eats))
<1> DEFINE grow == IF eats THEN sn.grow + 2 ELSE sn.grow
           long == <<Ahead(sn)>> \o sn.body
           body == IF grow > 0 THEN long ELSE SubSeq(long, 1, Len(sn.body))
           new  == Move(sn, eats)
           most == Max({sn.maxLength, Len(body)})
<1>1. /\ sn.body \in Seq(Cells) /\ sn.grow \in Nat /\ sn.score \in Nat /\ sn.maxLength \in Nat
      /\ Heading(sn) \in Directions /\ NoTurn \notin Directions
  BY SnakeParts
<1>2. PICK n \in Nat : Len(sn.body) = n /\ n >= 1
  BY <1>1
<1>3. grow \in Nat /\ (grow > 0 <=> eats \/ sn.grow > 0)
  BY <1>1
<1>4. /\ long \in Seq(Cells) /\ Len(long) = n + 1 /\ long[1] = Ahead(sn)
      /\ long[2] = sn.body[1]
  BY <1>1, <1>2
<1>5. Chain(sn.body) => Chain(long)
  <2>1. Adjacent(Ahead(sn), sn.body[1])
    BY AheadIs DEF HeadOf
  <2> QED
    BY <1>1, <2>1, ChainGrows
<1> HIDE DEF long
<1>6. /\ body \in Seq(Cells) /\ Len(body) = IF grow > 0 THEN n + 1 ELSE n
      /\ body[1] = Ahead(sn)
      /\ n >= 2 => body[2] = sn.body[1]
      /\ Chain(sn.body) => Chain(body)
  <2>1. CASE grow > 0
    BY <1>4, <1>5, <2>1
  <2>2. CASE ~ grow > 0
    <3>1. body = SubSeq(long, 1, n)
      BY <1>2, <2>2
    <3>2. /\ body \in Seq(Cells) /\ Len(body) = n
          /\ \A k \in 1 .. n : body[k] = long[k]
      BY <1>2, <1>4, <3>1
    <3>3. Chain(sn.body) => Chain(body)
      <4>1. Len(long) - 1 = n /\ Len(long) >= 2
        BY <1>2, <1>4
      <4> QED
        BY <1>4, <1>5, <3>1, <4>1, ChainCut
    <3>4. 1 \in 1 .. n /\ (n >= 2 => 2 \in 1 .. n)
      BY <1>2
    <3> QED
      BY <1>4, <2>2, <3>2, <3>3, <3>4
  <2> QED
    BY <2>1, <2>2
<1>7. most = IF sn.maxLength >= Len(body) THEN sn.maxLength ELSE Len(body)
  <2>1. sn.maxLength \in Int /\ Len(body) \in Int
    BY <1>1, <1>6
  <2> HIDE DEF body
  <2> QED
    BY <2>1, TwoNumbers
<1>8. most \in Nat
  BY <1>1, <1>6, <1>7
<1>9. new = [sn EXCEPT !.body = body, !.dir = Heading(sn), !.pending = NoTurn,
                       !.grow = IF grow > 0 THEN grow - 1 ELSE 0,
                       !.score = IF eats THEN sn.score + 1 ELSE sn.score,
                       !.maxLength = most]
  BY DEF Move, long
<1> HIDE DEF new, body, most
<1>10. /\ new \in Snakes /\ new.alive = sn.alive /\ new.died = sn.died /\ new.place = sn.place
       /\ new.kills = sn.kills
       /\ new.body = body /\ new.dir = Heading(sn) /\ new.pending = NoTurn
       /\ new.grow = IF grow > 0 THEN grow - 1 ELSE 0
       /\ new.score = IF eats THEN sn.score + 1 ELSE sn.score
       /\ new.maxLength = most
  <2> DEFINE g == IF grow > 0 THEN grow - 1 ELSE 0
             c == IF eats THEN sn.score + 1 ELSE sn.score
  <2>1. g \in Nat /\ c \in Nat
    BY <1>1, <1>3
  <2>2. new = [sn EXCEPT !.body = body, !.dir = Heading(sn), !.pending = NoTurn,
                         !.grow = g, !.score = c, !.maxLength = most]
    BY <1>9
  <2> HIDE DEF g, c
  <2>3. /\ new \in Snakes /\ new.alive = sn.alive /\ new.died = sn.died /\ new.place = sn.place
        /\ new.kills = sn.kills
        /\ new.body = body /\ new.dir = Heading(sn) /\ new.pending = NoTurn
        /\ new.grow = g /\ new.score = c /\ new.maxLength = most
    BY <1>1, <1>6, <1>8, <2>1, <2>2 DEF Snakes
  <2> QED
    BY <2>3 DEF g, c
<1>11. ASSUME Sound(sn)
       PROVE  Sound(new)
  <2>1. /\ n >= 3 /\ Chain(sn.body) /\ n + sn.grow = 3 + 2 * sn.score /\ sn.maxLength = n
    BY <1>2, <1>11 DEF Sound, Grown, StartLength
  <2>2. Grown(new)
    <3>1. Len(body) >= 3 /\ Chain(body)
      BY <1>6, <2>1
    <3>2. Len(body) + new.grow = 3 + 2 * new.score
      <4>1. CASE eats
        <5>1. grow = sn.grow + 2 /\ new.score = sn.score + 1 /\ new.grow = sn.grow + 1
          BY <1>1, <1>10, <4>1
        <5>2. Len(body) = n + 1
          BY <1>1, <1>6, <5>1
        <5>3. n + 1 + (sn.grow + 1) = 3 + 2 * (sn.score + 1)
          <6>1. n \in Int /\ sn.grow \in Int /\ sn.score \in Int /\ n + sn.grow = 3 + 2 * sn.score
            BY <1>1, <1>2, <2>1
          <6>2. \A a, b, c \in Int : a + b = 3 + 2 * c => a + 1 + (b + 1) = 3 + 2 * (c + 1)
            OBVIOUS
          <6> QED
            BY <6>1, <6>2
        <5> QED
          BY <5>1, <5>2, <5>3
      <4>2. CASE ~ eats /\ sn.grow > 0
        <5>1. grow = sn.grow /\ new.score = sn.score /\ new.grow = sn.grow - 1
          BY <1>1, <1>10, <4>2
        <5>2. Len(body) = n + 1
          BY <1>6, <4>2, <5>1
        <5> QED
          BY <1>1, <2>1, <5>1, <5>2
      <4>3. CASE ~ eats /\ sn.grow = 0
        <5>1. grow = 0 /\ new.score = sn.score /\ new.grow = 0
          BY <1>10, <4>3
        <5>2. Len(body) = n
          BY <1>6, <5>1
        <5> QED
          BY <1>1, <2>1, <4>3, <5>1, <5>2
      <4> QED
        BY <1>1, <4>1, <4>2, <4>3
    <3>3. most = Len(body)
      BY <1>6, <1>7, <2>1
    <3> QED
      BY <1>10, <3>1, <3>2, <3>3 DEF Grown, StartLength
  <2>3. Heads(new.body, new.dir)
    <3>1. Fold(Along(HeadOf(sn), Heading(sn), 1)) = Ahead(sn)
      BY AheadIs
    <3>2. body[2] = HeadOf(sn) /\ body[1] = Ahead(sn)
      BY <1>6, <2>1 DEF HeadOf
    <3> QED
      BY <1>10, <3>1, <3>2 DEF Heads
  <2>4. new.pending # Opposite[new.dir]
    <3>1. Opposite[Heading(sn)] \in Directions
      BY <1>1 DEF Opposite, Directions
    <3> QED
      BY <1>1, <1>10, <3>1
  <2> QED
    BY <2>2, <2>3, <2>4 DEF Sound
<1>12. new.body = IF eats \/ sn.grow > 0 THEN <<Ahead(sn)>> \o sn.body
                  ELSE SubSeq(<<Ahead(sn)>> \o sn.body, 1, Len(sn.body))
  BY <1>3, <1>10 DEF body, long
<1> QED
  BY <1>6, <1>10, <1>11, <1>12 DEF new
\* The snakes on their way to the next state, before the doomed are dead: who gains
\* nothing is not told apart from who gains no kill.
Eaters(s) == {i \in Living(s) \ Doomed(s) : Ahead(s.snakes[i]) \in s.food}
Credit(s, i) == Cardinality({j \in Doomed(s) : i \in Killers(s, j)})
Going(s, i) ==
  LET sn == s.snakes[i]
  IN  IF i \in Doomed(s) THEN Turn(sn)
      ELSE IF sn.alive THEN Move(sn, i \in Eaters(s))
      ELSE sn
Gone(s) ==
  [s EXCEPT !.snakes = [i \in Seats |-> Credited(Going(s, i), Credit(s, i))],
            !.food = @ \ {Ahead(s.snakes[i]) : i \in Eaters(s)}]

LEMMA GoneIs ==
  ASSUME NEW s \in Sims
  PROVE  /\ Gone(s).snakes = [i \in Seats |-> Credited(Going(s, i), Credit(s, i))]
         /\ Gone(s).food \subseteq s.food /\ Gone(s).tick = s.tick /\ Gone(s).over = s.over
         /\ Gone(s).deathIndex = s.deathIndex
         /\ Gone(s) = [snakes |-> Gone(s).snakes, food |-> Gone(s).food, tick |-> Gone(s).tick,
                       over |-> Gone(s).over, deathIndex |-> Gone(s).deathIndex]
<1> DEFINE after == [i \in Seats |-> Credited(Going(s, i), Credit(s, i))]
           left  == s.food \ {Ahead(s.snakes[i]) : i \in Eaters(s)}
<1>1. Gone(s) = [s EXCEPT !.snakes = after, !.food = left]
  BY DEF Gone
<1>2. left \subseteq s.food
  OBVIOUS
<1> HIDE DEF after, left
<1>3. Gone(s).snakes = after /\ Gone(s).food = left
  BY <1>1 DEF Sims
<1>4. /\ Gone(s).tick = s.tick /\ Gone(s).over = s.over /\ Gone(s).deathIndex = s.deathIndex
      /\ Gone(s) = [snakes |-> Gone(s).snakes, food |-> Gone(s).food, tick |-> Gone(s).tick,
                    over |-> Gone(s).over, deathIndex |-> Gone(s).deathIndex]
  BY <1>1 DEF Sims
<1> QED
  BY <1>2, <1>3, <1>4 DEF after

LEMMA AdvanceIs ==
  ASSUME NEW s \in Sims
  PROVE  Advance(s) = Kill(Gone(s), Doomed(s))
<1> DEFINE doomed == Doomed(s)
           eaters == {i \in Living(s) \ doomed : Ahead(s.snakes[i]) \in s.food}
           moved  == [i \in Seats |->
                        LET sn == s.snakes[i]
                        IN  IF i \in doomed THEN [sn EXCEPT !.dir = Heading(sn), !.pending = NoTurn]
                            ELSE IF sn.alive THEN Move(sn, i \in eaters)
                            ELSE sn]
           credit == [i \in Seats |-> Cardinality({j \in doomed : i \in Killers(s, j)})]
<1>1. Advance(s) = Kill([s EXCEPT !.snakes = [i \in Seats |-> [moved[i] EXCEPT !.kills = @ + credit[i]]],
                                  !.food = @ \ {Ahead(s.snakes[i]) : i \in eaters}],
                        doomed)
  BY Zenon DEF Advance
<1>2. \A i \in Seats : moved[i] = Going(s, i) /\ credit[i] = Credit(s, i)
  BY Zenon DEF Going, Credit, Turn, Eaters
<1>3. \A i \in Seats : [moved[i] EXCEPT !.kills = @ + credit[i]] = Credited(Going(s, i), Credit(s, i))
  BY <1>2, Zenon DEF Credited
<1> HIDE DEF moved, credit
<1>4. [i \in Seats |-> [moved[i] EXCEPT !.kills = @ + credit[i]]]
        = [i \in Seats |-> Credited(Going(s, i), Credit(s, i))]
  BY <1>3
<1> QED
  BY <1>1, <1>4, Zenon DEF Gone, Eaters

\* A move, snake by snake.
LEMMA GoingIs ==
  ASSUME NEW s \in Sims, wrap \in BOOLEAN, NEW i \in Seats, Len(s.snakes[i].body) >= 1
  PROVE  /\ Doomed(s) \subseteq Seats /\ Doomed(s) \subseteq Living(s)
         /\ i \in Doomed(s) <=> s.snakes[i].alive /\ Dies(s, i)
         /\ i \notin Doomed(s) /\ s.snakes[i].alive =>
              /\ Ahead(s.snakes[i]) \in Cells
              /\ Going(s, i) = Move(s.snakes[i], Ahead(s.snakes[i]) \in s.food)
         /\ i \in Doomed(s) => Going(s, i) = Turn(s.snakes[i])
         /\ ~ s.snakes[i].alive => i \notin Doomed(s) /\ Going(s, i) = s.snakes[i]
         /\ Going(s, i) \in Snakes
         /\ Going(s, i).alive = s.snakes[i].alive
         /\ Going(s, i).died = s.snakes[i].died /\ Going(s, i).place = s.snakes[i].place
         /\ Going(s, i).kills = s.snakes[i].kills
         /\ Credit(s, i) \in Nat
<1> DEFINE sn == s.snakes[i]
<1>1. sn \in Snakes
  BY DEF Sims
<1>2. /\ Doomed(s) \subseteq Living(s) /\ Living(s) \subseteq Seats
      /\ i \in Living(s) <=> sn.alive
      /\ i \in Doomed(s) <=> sn.alive /\ Dies(s, i)
  BY LivingSeats DEF Doomed
<1>3. Credit(s, i) \in Nat
  <2>1. {j \in Doomed(s) : i \in Killers(s, j)} \subseteq Seats
    BY <1>2
  <2> QED
    BY <2>1, Finite DEF Credit
<1>4. CASE i \in Doomed(s)
  <2>1. Going(s, i) = Turn(sn)
    BY <1>4 DEF Going
  <2>2. sn.alive
    BY <1>2, <1>4
  <2> QED
    BY <1>1, <1>2, <1>3, <1>4, <2>1, <2>2, SnakeTurned
<1>5. CASE i \notin Doomed(s) /\ sn.alive
  <2>1. Ahead(sn) \in Cells
    BY <1>2, <1>5 DEF Dies
  <2>2. i \in Eaters(s) <=> Ahead(sn) \in s.food
    BY <1>2, <1>5 DEF Eaters
  <2>3. Going(s, i) = Move(sn, i \in Eaters(s))
    BY <1>5 DEF Going
  <2>4. (i \in Eaters(s)) = (Ahead(sn) \in s.food)
    BY <2>2
  <2>5. Going(s, i) = Move(sn, Ahead(sn) \in s.food)
    BY <2>3, <2>4, Zenon
  <2>6. (Ahead(sn) \in s.food) \in BOOLEAN
    OBVIOUS
  <2>7. /\ Move(sn, Ahead(sn) \in s.food) \in Snakes
        /\ Move(sn, Ahead(sn) \in s.food).alive = sn.alive
        /\ Move(sn, Ahead(sn) \in s.food).died = sn.died
        /\ Move(sn, Ahead(sn) \in s.food).place = sn.place
        /\ Move(sn, Ahead(sn) \in s.food).kills = sn.kills
    BY <1>1, <2>1, <2>6, MoveKeeps, Zenon
  <2> QED
    BY <1>2, <1>3, <1>5, <2>1, <2>5, <2>7
<1>6. CASE ~ sn.alive
  <2>1. i \notin Doomed(s)
    BY <1>2, <1>6
  <2>2. Going(s, i) = sn
    BY <1>6, <2>1 DEF Going
  <2> QED
    BY <1>1, <1>2, <1>3, <1>6, <2>1, <2>2
<1> QED
  BY <1>4, <1>5, <1>6

\* What a move leaves of every snake.
LEMMA AdvanceParts ==
  ASSUME NEW s \in Sims, wrap \in BOOLEAN, NEW i \in Seats, Len(s.snakes[i].body) >= 1
  PROVE  /\ Advance(s).snakes[i] \in Snakes
         /\ Advance(s).snakes[i].alive <=> s.snakes[i].alive /\ ~ Dies(s, i)
         /\ Advance(s).snakes[i].body =
              IF s.snakes[i].alive /\ ~ Dies(s, i)
              THEN Move(s.snakes[i], Ahead(s.snakes[i]) \in s.food).body ELSE s.snakes[i].body
         /\ s.snakes[i].alive => Advance(s).snakes[i].dir = Heading(s.snakes[i])
         /\ Advance(s).snakes[i].kills = s.snakes[i].kills + Credit(s, i)
<1> DEFINE sn  == s.snakes[i]
           new == Credited(Going(s, i), Credit(s, i))
<1>1. sn \in Snakes /\ s.tick \in Nat
  BY DEF Sims
<1>2. /\ i \in Doomed(s) <=> sn.alive /\ Dies(s, i)
      /\ i \notin Doomed(s) /\ sn.alive =>
           /\ Ahead(sn) \in Cells
           /\ Going(s, i) = Move(sn, Ahead(sn) \in s.food)
      /\ i \in Doomed(s) => Going(s, i) = Turn(sn)
      /\ ~ sn.alive => i \notin Doomed(s) /\ Going(s, i) = sn
      /\ Going(s, i) \in Snakes /\ Going(s, i).alive = sn.alive
      /\ Going(s, i).kills = sn.kills /\ Credit(s, i) \in Nat
  BY GoingIs
<1>3. new \in Snakes /\ new.body = Going(s, i).body /\ new.alive = sn.alive
      /\ new.dir = Going(s, i).dir /\ new.kills = sn.kills + Credit(s, i)
  <2>1. /\ new \in Snakes /\ new.body = Going(s, i).body /\ new.alive = Going(s, i).alive
        /\ new.dir = Going(s, i).dir /\ new.kills = Going(s, i).kills + Credit(s, i)
    BY <1>2, SnakeCredited
  <2> HIDE DEF new
  <2> QED
    BY <1>2, <2>1
<1>4. /\ Gone(s).snakes = [k \in Seats |-> Credited(Going(s, k), Credit(s, k))]
      /\ Gone(s).tick = s.tick
  BY DEF Gone, Sims
<1>5. Gone(s).snakes[i] = new
  BY <1>4
<1> HIDE DEF new
<1>6. Advance(s).snakes[i] = IF i \in Doomed(s) THEN Fallen(new, s.tick) ELSE new
  <2>1. Gone(s) = [snakes |-> Gone(s).snakes, food |-> Gone(s).food, tick |-> Gone(s).tick,
                   over |-> Gone(s).over, deathIndex |-> Gone(s).deathIndex]
    BY GoneIs, Zenon
  <2>2. Kill(Gone(s), Doomed(s)).snakes =
          [k \in Seats |-> IF k \in Doomed(s)
                           THEN [Gone(s).snakes[k] EXCEPT !.alive = FALSE, !.died = Gone(s).tick]
                           ELSE Gone(s).snakes[k]]
    BY <2>1 DEF Kill
  <2> QED
    BY <1>4, <1>5, <2>2, AdvanceIs, Zenon DEF Fallen
<1>7. CASE i \in Doomed(s)
  <2>1. /\ Fallen(new, s.tick).alive = FALSE /\ Fallen(new, s.tick).body = new.body
        /\ Fallen(new, s.tick).dir = new.dir /\ Fallen(new, s.tick) \in Snakes
        /\ Fallen(new, s.tick).kills = new.kills
    BY <1>1, <1>3, SnakeDead
  <2>2. Turn(sn).body = sn.body /\ Turn(sn).dir = Heading(sn)
    BY <1>1, SnakeTurned
  <2> QED
    BY <1>2, <1>3, <1>6, <1>7, <2>1, <2>2
<1>8. CASE i \notin Doomed(s) /\ sn.alive
  <2>1. (Ahead(sn) \in s.food) \in BOOLEAN
    OBVIOUS
  <2>2. Move(sn, Ahead(sn) \in s.food).dir = Heading(sn)
    BY <1>1, <1>2, <1>8, <2>1, MoveKeeps, Zenon
  <2> QED
    BY <1>2, <1>3, <1>6, <1>8, <2>2
<1>9. CASE ~ sn.alive
  BY <1>2, <1>3, <1>6, <1>9
<1> QED
  BY <1>7, <1>8, <1>9

\* A move keeps the invariant.
LEMMA AdvanceKeeps ==
  ASSUME NEW s, Kept(s), wrap \in BOOLEAN
  PROVE  /\ Kept(Advance(s))
         /\ Advance(s).tick = s.tick /\ Advance(s).over = s.over
<1> DEFINE g == Gone(s)
<1>1. /\ s \in Sims /\ Deaths(s) /\ \A i \in Seats : s.snakes[i] \in Snakes /\ Sound(s.snakes[i])
      /\ \A i \in Seats : Len(s.snakes[i].body) >= 1
  <2>1. s \in Sims /\ Deaths(s) /\ \A i \in Seats : Sound(s.snakes[i])
    BY DEF Kept, Standing
  <2>2. \A i \in Seats : s.snakes[i] \in Snakes
    BY <2>1 DEF Sims
  <2>3. \A i \in Seats : Len(s.snakes[i].body) \in Nat /\ Len(s.snakes[i].body) >= 3
    <3>1. \A i \in Seats : s.snakes[i].body \in Seq(Cells)
      BY <2>2, SnakeParts
    <3>2. \A i \in Seats : Len(s.snakes[i].body) >= 3
      BY <2>1 DEF Sound, Grown, StartLength
    <3> QED
      BY <3>1, <3>2
  <2> QED
    BY <2>1, <2>2, <2>3
<1>2. /\ g.snakes = [i \in Seats |-> Credited(Going(s, i), Credit(s, i))]
      /\ g.food \subseteq s.food /\ g.tick = s.tick /\ g.over = s.over
      /\ g.deathIndex = s.deathIndex
      /\ g = [snakes |-> g.snakes, food |-> g.food, tick |-> g.tick, over |-> g.over,
              deathIndex |-> g.deathIndex]
  BY <1>1, GoneIs, Zenon
<1> HIDE DEF g
<1>3. ASSUME NEW i \in Seats
      PROVE  /\ g.snakes[i] \in Snakes
             /\ g.snakes[i].alive = s.snakes[i].alive /\ g.snakes[i].died = s.snakes[i].died
             /\ g.snakes[i].place = s.snakes[i].place
             /\ Grown(g.snakes[i])
             /\ i \notin Doomed(s) => Sound(g.snakes[i])
  <2> DEFINE new == Going(s, i)
             n   == Credit(s, i)
             sn  == s.snakes[i]
  <2>1. g.snakes[i] = Credited(new, n)
    BY <1>2
  <2>2. /\ new \in Snakes /\ n \in Nat
        /\ new.alive = sn.alive /\ new.died = sn.died /\ new.place = sn.place
    BY <1>1, GoingIs, Zenon
  <2>3. /\ Credited(new, n) \in Snakes
        /\ Credited(new, n).body = new.body /\ Credited(new, n).dir = new.dir
        /\ Credited(new, n).alive = new.alive /\ Credited(new, n).grow = new.grow
        /\ Credited(new, n).score = new.score /\ Credited(new, n).died = new.died
        /\ Credited(new, n).maxLength = new.maxLength
        /\ Credited(new, n).pending = new.pending /\ Credited(new, n).place = new.place
    BY <2>2, SnakeCredited
  <2> DEFINE credited == Credited(new, n)
  <2> HIDE DEF credited
  <2>4. (Grown(new) => Grown(credited)) /\ (Sound(new) => Sound(credited))
    BY <2>3 DEF Grown, Sound, credited
  <2>5. Grown(new) /\ (i \notin Doomed(s) => Sound(new))
    <3>0. sn \in Snakes /\ Sound(sn) /\ Grown(sn) /\ Len(sn.body) >= 1
      BY <1>1 DEF Sound
    <3>1. CASE i \in Doomed(s)
      <4>1. new = Turn(sn)
        BY <1>1, <3>1, GoingIs
      <4>2. /\ Turn(sn).body = sn.body /\ Turn(sn).grow = sn.grow /\ Turn(sn).score = sn.score
            /\ Turn(sn).maxLength = sn.maxLength
        BY <3>0, SnakeTurned
      <4>3. Grown(Turn(sn))
        BY <3>0, <4>2 DEF Grown
      <4> QED
        BY <3>1, <4>1, <4>3, Zenon
    <3>2. CASE i \notin Doomed(s) /\ sn.alive
      <4>1. new = Move(sn, Ahead(sn) \in s.food) /\ Ahead(sn) \in Cells
        BY <1>1, <3>2, GoingIs
      <4>2. (Ahead(sn) \in s.food) \in BOOLEAN
        OBVIOUS
      <4>3. Sound(Move(sn, Ahead(sn) \in s.food))
        BY <3>0, <4>1, <4>2, MoveKeeps, Zenon
      <4> HIDE DEF new, sn
      <4>4. Sound(new)
        BY <4>1, <4>3, Zenon
      <4> QED
        BY <4>4 DEF Sound
    <3>3. CASE ~ sn.alive
      <4>1. new = sn
        BY <1>1, <3>3, GoingIs
      <4> QED
        BY <3>0, <4>1, Zenon
    <3> QED
      BY <3>1, <3>2, <3>3
  <2>6. g.snakes[i] = credited
    BY <2>1 DEF credited
  <2>7. /\ credited \in Snakes /\ credited.alive = sn.alive /\ credited.died = sn.died
        /\ credited.place = sn.place
    BY <2>2, <2>3 DEF credited
  <2> QED
    BY <2>4, <2>5, <2>6, <2>7
<1>4. g \in Sims
  <2>1. g.snakes \in [Seats -> Snakes]
    BY <1>2, <1>3
  <2> QED
    BY <1>1, <1>2, <2>1 DEF Sims
<1>5. Living(g) = Living(s) /\ Dead(g) = Dead(s) /\ Living(s) \subseteq Seats
  <2>1. \A i \in Seats : i \in Living(g) <=> g.snakes[i].alive
    BY <1>4, LivingSeats
  <2>2. \A i \in Seats : i \in Living(s) <=> s.snakes[i].alive
    BY <1>1, LivingSeats
  <2>3. Living(g) \subseteq Seats /\ Living(s) \subseteq Seats
    BY <1>1, <1>4, LivingSeats
  <2> QED
    BY <1>3, <2>1, <2>2, <2>3 DEF Dead
<1>6. Standing(g)
  <2>1. Deaths(g)
    <3>1. \A i \in Dead(s) : i \in Seats
      BY DEF Dead
    <3> QED
      BY <1>1, <1>2, <1>3, <1>5, <3>1 DEF Deaths
  <2>2. g.over => Cardinality(Living(g)) <= Few /\ Ranked(g)
    <3>1. g.over => Cardinality(Living(s)) <= Few /\ Ranked(s)
      BY <1>2 DEF Kept, Standing
    <3>2. {g.snakes[i].place : i \in Seats} = {s.snakes[i].place : i \in Seats}
      BY <1>3
    <3>3. Ranked(s) => Ranked(g)
      BY <1>3, <3>2 DEF Ranked, Above
    <3> QED
      BY <1>5, <3>1, <3>3
  <2>3. ~ g.over => \A i \in Seats : g.snakes[i].place = 0
    BY <1>2, <1>3 DEF Kept, Standing
  <2> QED
    BY <1>4, <2>1, <2>2, <2>3 DEF Standing
<1>7. Doomed(s) \subseteq Living(g)
  BY <1>5 DEF Doomed
<1>8. Kept(Kill(g, Doomed(s)))
  BY <1>3, <1>6, <1>7, KillKeeps
<1>9. Kill(g, Doomed(s)).tick = g.tick /\ Kill(g, Doomed(s)).over = g.over
  BY <1>2 DEF Kill
<1> QED
  BY <1>1, <1>2, <1>8, <1>9, AdvanceIs DEF g

LEMMA SetsOfWithin ==
  ASSUME NEW n, NEW S, NEW F \in SetsOf(n, S)
  PROVE  F \subseteq S
<1>1. PICK pick \in [1 .. n -> S] : F = {pick[k] : k \in 1 .. n}
  BY DEF SetsOf
<1>2. \A k \in 1 .. n : pick[k] \in S
  OBVIOUS
<1> QED
  BY <1>1, <1>2

\* Pellets appear inside the arena and change nothing else.
LEMMA ReplenishedKeeps ==
  ASSUME NEW s, Kept(s), NEW r \in Replenished(s)
  PROVE  /\ Kept(r)
         /\ r.snakes = s.snakes /\ r.tick = s.tick /\ r.over = s.over
<1> DEFINE free == Cells \ (Occupied(s) \union s.food)
           need == FoodCount - Cardinality(s.food)
           n    == IF need < 0 THEN 0 ELSE Min({need, Cardinality(free)})
<1>1. PICK F \in SetsOf(n, free) : r = [s EXCEPT !.food = @ \union F]
  BY DEF Replenished
<1>2. F \subseteq Cells
  BY SetsOfWithin
<1>3. s \in Sims
  BY DEF Kept, Standing
<1>4. /\ r \in Sims /\ r.snakes = s.snakes /\ r.tick = s.tick /\ r.over = s.over
      /\ r.deathIndex = s.deathIndex
  BY <1>1, <1>2, <1>3 DEF Sims
<1>5. Living(r) = Living(s) /\ Dead(r) = Dead(s)
  BY <1>4 DEF Living, Dead
<1>6. Deaths(r) /\ (r.over => Ranked(r))
  BY <1>4, <1>5 DEF Kept, Standing, Deaths, Ranked
<1> QED
  BY <1>4, <1>5, <1>6 DEF Kept, Standing
-----------------------------------------------------------------------------
(***************************************************************************)
(* The start of a match.                                                   *)
(***************************************************************************)
NewSnakes == {sn \in Snakes : Sound(sn) /\ sn.alive /\ sn.place = 0}

LEMMA NewSnakeIs ==
  ASSUME NEW k \in 1 .. NumSnakes, NEW taken
  PROVE  NewSnake(SpawnBody(k, taken)) \in NewSnakes
<1> DEFINE spawn == SpawnBody(k, taken)
           new   == NewSnake(spawn)
<1>1. spawn.dir \in Directions /\ Laid(spawn.body, spawn.dir)
  BY SpawnLaid
<1> HIDE DEF spawn
<1>2. /\ spawn.body \in Seq(Cells) /\ Len(spawn.body) = 3 /\ Chain(spawn.body)
      /\ Heads(spawn.body, spawn.dir)
  BY <1>1 DEF Laid, StartLength
<1>3. /\ new \in Snakes
      /\ new.body = spawn.body /\ new.dir = spawn.dir /\ new.alive = TRUE
      /\ new.grow = 0 /\ new.score = 0 /\ new.maxLength = 3 /\ new.pending = NoTurn
      /\ new.place = 0
  BY <1>1, <1>2, SimAssumption DEF NewSnake, Snakes, StartLength, NotDead, NoTurn
<1> HIDE DEF new
<1>4. NoTurn # Opposite[spawn.dir]
  BY <1>1 DEF NoTurn, Opposite, Directions
<1>5. Sound(new)
  <2>1. /\ Len(new.body) = 3 /\ Chain(new.body) /\ Heads(new.body, new.dir)
        /\ new.pending # Opposite[new.dir]
    BY <1>2, <1>3, <1>4
  <2>2. 3 >= 3 /\ 3 + 0 = 3 + 2 * 0
    OBVIOUS
  <2>3. Grown(new)
    BY <1>3, <2>1, <2>2 DEF Grown, StartLength
  <2> QED
    BY <2>1, <2>3 DEF Sound
<1> QED
  BY <1>3, <1>5 DEF NewSnakes, new, spawn

\* Seat k behind the seats before it.
Seated(before, k) ==
  LET taken == UNION {ToSet(before[j].body) : j \in 1 .. k - 1}
  IN  Append(before, NewSnake(SpawnBody(k, taken)))

LEMMA SeatedIs ==
  ASSUME NEW k \in 1 .. NumSnakes, NEW before \in Seq(NewSnakes), Len(before) = k - 1
  PROVE  Seated(before, k) \in Seq(NewSnakes) /\ Len(Seated(before, k)) = k
<1> DEFINE new == NewSnake(SpawnBody(k, UNION {ToSet(before[j].body) : j \in 1 .. k - 1}))
<1>1. new \in NewSnakes
  BY NewSnakeIs
<1>2. Seated(before, k) = Append(before, new)
  BY DEF Seated
<1> HIDE DEF new
<1>3. k \in Int
  BY SimAssumption
<1> QED
  BY <1>1, <1>2, <1>3

\* Seats can be placed one after the other, however many they are.
LEMMA SeatingExists ==
  ASSUME NEW n \in Nat
  PROVE  \E f : f = [k \in 0 .. n |-> IF k = 0 THEN <<>> ELSE Seated(f[k - 1], k)]
<1> DEFINE Seating(m, f) == f = [k \in 0 .. m |-> IF k = 0 THEN <<>> ELSE Seated(f[k - 1], k)]
           T == {m \in Nat : ~ \E f : Seating(m, f)}
<1>1. SUFFICES ASSUME T # {}
               PROVE  FALSE
  OBVIOUS
<1>2. PICK m \in T : \A i \in T : m <= i
  <2>1. T \in SUBSET Nat
    OBVIOUS
  <2> QED
    BY <1>1, <2>1, Least
<1>3. m # 0
  <2>1. Seating(0, [k \in 0 .. 0 |-> <<>>])
    OBVIOUS
  <2> QED
    BY <2>1
<1>4. m \in Nat /\ m - 1 \in Nat /\ m - 1 \notin T
  BY <1>2, <1>3
<1>5. PICK h : Seating(m - 1, h)
  BY <1>4
<1> DEFINE g == [k \in 0 .. m |-> IF k = m THEN Seated(h[m - 1], m) ELSE h[k]]
<1>6. ASSUME NEW k \in 0 .. m
      PROVE  g[k] = IF k = 0 THEN <<>> ELSE Seated(g[k - 1], k)
  <2>1. CASE k = m
    <3>1. m - 1 \in 0 .. m /\ m - 1 # m
      BY <1>3, <1>4
    <3> QED
      BY <1>3, <2>1, <3>1
  <2>2. CASE k # m
    <3>1. /\ k \in 0 .. m - 1 /\ k \in Nat
          /\ k # 0 => k - 1 \in 0 .. m /\ k - 1 # m
      BY <1>4, <2>2
    <3>2. g[k] = h[k] /\ (k # 0 => g[k - 1] = h[k - 1])
      BY <2>2, <3>1
    <3>3. h[k] = IF k = 0 THEN <<>> ELSE Seated(h[k - 1], k)
      BY <1>5, <3>1
    <3> QED
      BY <3>2, <3>3
  <2> QED
    BY <2>1, <2>2
<1>7. Seating(m, g)
  <2>1. g = [k \in 0 .. m |-> g[k]]
    OBVIOUS
  <2> HIDE DEF g
  <2>2. [k \in 0 .. m |-> g[k]] = [k \in 0 .. m |-> IF k = 0 THEN <<>> ELSE Seated(g[k - 1], k)]
    BY <1>6
  <2> QED
    BY <2>1, <2>2
<1> QED
  BY <1>7

\* The seats are placed in order.
LEMMA SpawnedIs ==
  Spawned \in [Seats -> NewSnakes]
<1> DEFINE F(f) == [k \in 0 .. NumSnakes |-> IF k = 0 THEN <<>> ELSE Seated(f[k - 1], k)]
           placed == CHOOSE f : f = F(f)
<1>1. Spawned = [i \in Seats |-> placed[NumSnakes][i + 1]]
  BY Zenon DEF Spawned, Seated
<1>2. NumSnakes \in Nat
  BY SimAssumption
<1>3. placed = F(placed)
  BY <1>2, SeatingExists, Zenon
<1> HIDE DEF placed
<1>4. /\ placed[0] = <<>>
      /\ \A k \in 1 .. NumSnakes : placed[k] = Seated(placed[k - 1], k)
  <2>1. \A k \in 0 .. NumSnakes : placed[k] = IF k = 0 THEN <<>> ELSE Seated(placed[k - 1], k)
    BY <1>3
  <2> QED
    BY <1>2, <2>1
<1> DEFINE Good(k) == placed[k] \in Seq(NewSnakes) /\ Len(placed[k]) = k
           Bad == {k \in 0 .. NumSnakes : ~ Good(k)}
<1>5. Good(0)
  BY <1>4
<1>6. ASSUME NEW k \in 1 .. NumSnakes, Good(k - 1)
      PROVE  Good(k)
  BY <1>4, <1>6, SeatedIs
<1> HIDE DEF Good
<1>7. Bad = {}
  <2>1. SUFFICES ASSUME Bad # {}
                 PROVE  FALSE
    OBVIOUS
  <2>2. PICK k \in Bad : \A i \in Bad : k <= i
    <3>1. Bad \in SUBSET Nat
      BY <1>2
    <3> QED
      BY <2>1, <3>1, Least
  <2>3. k \in 0 .. NumSnakes /\ ~ Good(k) /\ k # 0
    BY <1>5
  <2>4. k \in 1 .. NumSnakes /\ k - 1 \in 0 .. NumSnakes /\ ~ (k <= k - 1)
    BY <1>2, <2>3
  <2>5. k - 1 \notin Bad
    BY <2>2, <2>4
  <2> QED
    BY <1>6, <2>3, <2>4, <2>5
<1>8. Good(NumSnakes)
  BY <1>2, <1>7
<1>9. placed[NumSnakes] \in Seq(NewSnakes) /\ Len(placed[NumSnakes]) = NumSnakes
  BY <1>8 DEF Good
<1>10. \A i \in Seats : i + 1 \in 1 .. NumSnakes
  BY <1>2 DEF Seats
<1>11. \A i \in Seats : placed[NumSnakes][i + 1] \in NewSnakes
  BY <1>9, <1>10
<1> QED
  BY <1>1, <1>11

\* A match starts with every snake alive and none ranked.
LEMMA NewKeeps ==
  ASSUME NEW s \in New
  PROVE  Kept(s) /\ ~ s.over /\ Cardinality(Living(s)) > Few
<1> DEFINE o == [snakes |-> Spawned, food |-> {}, tick |-> 0, over |-> FALSE,
                 deathIndex |-> [i \in Seats |-> 0]]
<1>1. \A i \in Seats : o.snakes[i] \in Snakes /\ Sound(o.snakes[i]) /\ o.snakes[i].alive
                       /\ o.snakes[i].place = 0
  BY SpawnedIs DEF NewSnakes
<1>2. o \in Sims
  <2>1. Spawned \in [Seats -> Snakes]
    BY SpawnedIs DEF NewSnakes
  <2> QED
    BY <2>1 DEF Sims
<1>3. o.over = FALSE /\ o.snakes = Spawned
  OBVIOUS
<1> HIDE DEF o
<1>4. Living(o) = Seats /\ Dead(o) = {}
  BY <1>1, <1>2, LivingSeats DEF Dead
<1>5. Kept(o)
  BY <1>1, <1>2, <1>3, <1>4 DEF Kept, Standing, Deaths
<1>6. s \in Replenished(o)
  BY DEF New, o
<1>7. Kept(s) /\ s.over = FALSE /\ s.snakes = o.snakes
  BY <1>3, <1>5, <1>6, ReplenishedKeeps
<1>8. Living(s) = Seats
  BY <1>4, <1>7 DEF Living
<1>9. Cardinality(Seats) > Few
  BY Finite, SimAssumption DEF Few
<1> QED
  BY <1>7, <1>8, <1>9
-----------------------------------------------------------------------------
(***************************************************************************)
(* The methods.                                                            *)
(***************************************************************************)
\* A turn, or a connection that comes or goes, changes of one snake what it waits for.
LEMMA WaitingKeeps ==
  ASSUME NEW s, Kept(s), NEW i \in Seats, NEW sn \in Snakes,
         sn.body = s.snakes[i].body, sn.dir = s.snakes[i].dir,
         sn.alive = s.snakes[i].alive, sn.grow = s.snakes[i].grow,
         sn.score = s.snakes[i].score, sn.maxLength = s.snakes[i].maxLength,
         sn.died = s.snakes[i].died, sn.place = s.snakes[i].place,
         sn.alive => sn.pending # Opposite[sn.dir],
         NEW r, r \in Sims, r.snakes = [s.snakes EXCEPT ![i] = sn],
         r.tick = s.tick, r.over = s.over, r.deathIndex = s.deathIndex
  PROVE  Kept(r) /\ Living(r) = Living(s)
<1>1. s \in Sims /\ s.snakes \in [Seats -> Snakes]
  BY DEF Kept, Standing, Sims
<1>2. r.snakes[i] = sn /\ \A j \in Seats : j # i => r.snakes[j] = s.snakes[j]
  BY <1>1
<1>3. \A j \in Seats : /\ r.snakes[j].alive = s.snakes[j].alive
                       /\ r.snakes[j].died = s.snakes[j].died
                       /\ r.snakes[j].place = s.snakes[j].place
  BY <1>2
<1>4. Living(r) = Living(s) /\ Dead(r) = Dead(s)
  <2>1. \A j \in Seats : j \in Living(r) <=> r.snakes[j].alive
    BY LivingSeats
  <2>2. \A j \in Seats : j \in Living(s) <=> s.snakes[j].alive
    BY <1>1, LivingSeats
  <2>3. Living(r) \subseteq Seats /\ Living(s) \subseteq Seats
    BY <1>1, LivingSeats
  <2> QED
    BY <1>3, <2>1, <2>2, <2>3 DEF Dead
<1>5. Deaths(r)
  <2>1. \A j \in Dead(s) : j \in Seats
    BY DEF Dead
  <2> QED
    BY <1>3, <1>4, <2>1 DEF Kept, Standing, Deaths
<1>6. IF r.over THEN Cardinality(Living(r)) <= Few /\ Ranked(r)
      ELSE \A j \in Seats : r.snakes[j].place = 0
  <2>1. {r.snakes[j].place : j \in Seats} = {s.snakes[j].place : j \in Seats}
    BY <1>3
  <2>2. Ranked(s) => Ranked(r)
    BY <1>3, <2>1 DEF Ranked, Above
  <2> QED
    BY <1>3, <1>4, <2>2 DEF Kept, Standing
<1>7. ASSUME NEW j \in Seats
      PROVE  Sound(r.snakes[j])
  <2>1. CASE j = i
    <3>1. Grown(s.snakes[i])
      BY DEF Kept, Sound
    <3>2. s.snakes[i].alive => Heads(s.snakes[i].body, s.snakes[i].dir)
      BY DEF Kept, Sound
    <3>3. Grown(sn) /\ (sn.alive => Heads(sn.body, sn.dir))
      BY <3>1, <3>2 DEF Grown
    <3> QED
      BY <1>2, <2>1, <3>3 DEF Sound
  <2>2. CASE j # i
    BY <1>2, <2>2 DEF Kept
  <2> QED
    BY <2>1, <2>2
<1> QED
  BY <1>4, <1>5, <1>6, <1>7 DEF Kept, Standing

LEMMA KeptSnake ==
  ASSUME NEW s, Kept(s), NEW i \in Seats
  PROVE  /\ s \in Sims /\ s.snakes[i] \in Snakes /\ Sound(s.snakes[i])
         /\ s.snakes[i].body \in Seq(Cells) /\ Len(s.snakes[i].body) \in Nat
         /\ Len(s.snakes[i].body) >= 3
         /\ NoTurn # Opposite[s.snakes[i].dir]
<1>1. s \in Sims /\ Sound(s.snakes[i])
  BY DEF Kept, Standing
<1>2. s.snakes[i] \in Snakes
  BY <1>1 DEF Sims
<1>3. s.snakes[i].body \in Seq(Cells) /\ s.snakes[i].dir \in Directions
  BY <1>2, SnakeParts
<1>4. Len(s.snakes[i].body) >= 3
  BY <1>1 DEF Sound, Grown, StartLength
<1>5. NoTurn # Opposite[s.snakes[i].dir]
  BY <1>3 DEF NoTurn, Opposite, Directions
<1> QED
  BY <1>1, <1>2, <1>3, <1>4, <1>5

LEMMA SetDirectionKeeps ==
  ASSUME IInv, NEW i \in Seats, NEW d \in Directions, SetDirection(i, d)
  PROVE  Kept(sim') /\ Living(sim') = Living(sim) /\ sim'.over = sim.over
<1> DEFINE old == sim.snakes[i]
           sn  == [old EXCEPT !.pending = d]
<1>1. Kept(sim) /\ sim \in Sims /\ old \in Snakes /\ Len(old.body) \in Nat /\ Len(old.body) >= 3
  BY KeptSnake DEF IInv
<1>2. sim' = [sim EXCEPT !.snakes = [sim.snakes EXCEPT ![i] = sn]] /\ d # Opposite[old.dir]
  BY <1>1 DEF SetDirection
<1>3. /\ sn \in Snakes /\ sn.body = old.body /\ sn.dir = old.dir /\ sn.alive = old.alive
      /\ sn.grow = old.grow /\ sn.score = old.score /\ sn.maxLength = old.maxLength
      /\ sn.died = old.died /\ sn.place = old.place /\ sn.pending = d
  BY <1>1 DEF Snakes
<1> HIDE DEF sn
<1>4. /\ sim' \in Sims /\ sim'.snakes = [sim.snakes EXCEPT ![i] = sn]
      /\ sim'.tick = sim.tick /\ sim'.over = sim.over /\ sim'.deathIndex = sim.deathIndex
  BY <1>1, <1>2, <1>3 DEF Sims
<1>5. sn.alive => sn.pending # Opposite[sn.dir]
  BY <1>2, <1>3
<1> QED
  BY <1>1, <1>3, <1>4, <1>5, WaitingKeeps

LEMMA SetCoastingKeeps ==
  ASSUME IInv, NEW i \in Seats, NEW coasting \in BOOLEAN, SetCoasting(i, coasting)
  PROVE  Kept(sim') /\ Living(sim') = Living(sim) /\ sim'.over = sim.over
<1> DEFINE old == sim.snakes[i]
           p   == IF coasting THEN NoTurn ELSE old.pending
           sn  == [old EXCEPT !.coasting = coasting, !.pending = p]
<1>1. /\ Kept(sim) /\ sim \in Sims /\ old \in Snakes /\ Sound(old) /\ NoTurn # Opposite[old.dir]
      /\ old.pending \in Directions \union {NoTurn} /\ sim.snakes \in [Seats -> Snakes]
  BY KeptSnake, SnakeParts DEF IInv, Sims
<1>2. sim' = [sim EXCEPT !.snakes = [sim.snakes EXCEPT ![i] = sn]]
  BY <1>1 DEF SetCoasting, Sims, Snakes
<1>3. p \in Directions \union {NoTurn}
  BY <1>1
<1> HIDE DEF p
<1>4. /\ sn \in Snakes /\ sn.body = old.body /\ sn.dir = old.dir /\ sn.alive = old.alive
      /\ sn.grow = old.grow /\ sn.score = old.score /\ sn.maxLength = old.maxLength
      /\ sn.died = old.died /\ sn.place = old.place /\ sn.pending = p
  BY <1>1, <1>3 DEF Snakes
<1> HIDE DEF sn
<1>5. /\ sim' \in Sims /\ sim'.snakes = [sim.snakes EXCEPT ![i] = sn]
      /\ sim'.tick = sim.tick /\ sim'.over = sim.over /\ sim'.deathIndex = sim.deathIndex
  BY <1>1, <1>2, <1>4 DEF Sims
<1>6. sn.alive => sn.pending # Opposite[sn.dir]
  BY <1>1, <1>4 DEF p, Sound
<1> QED
  BY <1>1, <1>4, <1>5, <1>6, WaitingKeeps

LEMMA TickKeeps ==
  ASSUME NEW s, Kept(s), NEW r, r = [s EXCEPT !.tick = @ + 1]
  PROVE  Kept(r) /\ Living(r) = Living(s) /\ r.over = s.over /\ r.snakes = s.snakes
<1>1. s \in Sims /\ s.tick \in Nat
  BY DEF Kept, Standing, Sims
<1>2. /\ r \in Sims /\ r.snakes = s.snakes /\ r.tick = s.tick + 1 /\ r.over = s.over
      /\ r.deathIndex = s.deathIndex
  BY <1>1 DEF Sims
<1>3. Living(r) = Living(s) /\ Dead(r) = Dead(s)
  BY <1>2 DEF Living, Dead
<1>4. 0 .. s.tick \subseteq 0 .. r.tick
  BY <1>1, <1>2
<1>5. Deaths(r)
  BY <1>2, <1>3, <1>4 DEF Kept, Standing, Deaths
<1>6. r.over => Ranked(r)
  BY <1>2 DEF Kept, Standing, Ranked
<1> QED
  BY <1>2, <1>3, <1>5, <1>6 DEF Kept, Standing

LEMMA EliminateKeeps ==
  ASSUME IInv, NEW i \in Seats, Eliminate(i)
  PROVE  Kept(sim') /\ (~ sim'.over => Cardinality(Living(sim')) > Few)
<1>1. Kept(sim) /\ sim \in Sims /\ sim.snakes[i].alive
  BY DEF IInv, Kept, Standing, Eliminate
<1>2. {i} \subseteq Living(sim)
  BY <1>1, LivingSeats
<1>3. \A j \in Seats : Grown(sim.snakes[j]) /\ Sound(sim.snakes[j])
  BY <1>1 DEF Kept, Sound
<1>4. Kept(Kill(sim, {i}))
  BY <1>1, <1>2, <1>3, KillKeeps DEF Kept
<1> QED
  BY <1>4, CheckOverKeeps DEF Eliminate

LEMMA StepKeeps ==
  ASSUME IInv, Step
  PROVE  Kept(sim') /\ (~ sim'.over => Cardinality(Living(sim')) > Few)
<1> DEFINE ticked == [sim EXCEPT !.tick = @ + 1]
<1>1. Kept(sim) /\ wrap \in BOOLEAN /\ (~ sim.over => Cardinality(Living(sim)) > Few)
  BY DEF IInv
<1>2. Kept(ticked) /\ Living(ticked) = Living(sim) /\ ticked.over = sim.over
  BY <1>1, TickKeeps
<1>3. CASE sim' = ticked
  BY <1>1, <1>2, <1>3
<1>4. CASE \E s \in Replenished(Advance(ticked)) : sim' = CheckOver(s)
  <2>1. PICK s \in Replenished(Advance(ticked)) : sim' = CheckOver(s)
    BY <1>4
  <2> HIDE DEF ticked
  <2>2. Kept(Advance(ticked))
    BY <1>1, <1>2, AdvanceKeeps
  <2>3. Kept(s)
    BY <2>2, ReplenishedKeeps
  <2> QED
    BY <2>1, <2>3, CheckOverKeeps
<1> QED
  BY <1>3, <1>4, Zenon DEF Step

LEMMA InductiveInit == Init => IInv
BY NewKeeps DEF Init, IInv

LEMMA InductiveNext == IInv /\ [Next]_vars => IInv'
<1> SUFFICES ASSUME IInv, [Next]_vars
             PROVE  IInv'
  OBVIOUS
<1>0. Steered \subseteq Seats /\ Unsteady \subseteq Seats
  BY SimAssumption DEF Seats
<1>1. ASSUME NEW i \in Steered, NEW d \in Directions, SetDirection(i, d), wrap' = wrap
      PROVE  IInv'
  BY <1>0, <1>1, SetDirectionKeeps DEF IInv
<1>2. ASSUME NEW i \in Unsteady, NEW coasting \in BOOLEAN, SetCoasting(i, coasting), wrap' = wrap
      PROVE  IInv'
  BY <1>0, <1>2, SetCoastingKeeps DEF IInv
<1>3. ASSUME NEW i \in Unsteady, Eliminate(i), wrap' = wrap
      PROVE  IInv'
  BY <1>0, <1>3, EliminateKeeps DEF IInv
<1>4. ASSUME Step, wrap' = wrap
      PROVE  IInv'
  BY <1>4, StepKeeps DEF IInv
<1>5. CASE UNCHANGED vars
  BY <1>5 DEF vars, IInv
<1> QED
  BY <1>1, <1>2, <1>3, <1>4, <1>5 DEF Next

LEMMA Inductive == Spec => []IInv
BY InductiveInit, InductiveNext, PTL DEF Spec
-----------------------------------------------------------------------------
(***************************************************************************)
(* What the rules promise.                                                 *)
(***************************************************************************)
\* Every state is one of a match: bodies and pellets lie inside the arena.
THEOREM SimTyped == Spec => []TypeOK
<1>1. IInv => TypeOK
  BY DEF IInv, Kept, Standing, TypeOK
<1> QED
  BY <1>1, Inductive, PTL

\* No snake skips a cell or turns into its own neck, however turns are pressed: turns
\* are compared with the direction of the last move, and bodies follow their heads.
THEOREM BodiesAlwaysHold == Spec => []BodiesHold
<1>1. IInv => BodiesHold
  BY DEF IInv, Kept, Sound, Grown, Chain, Heads, BodiesHold
<1> QED
  BY <1>1, Inductive, PTL

\* Two cells grow from each pellet, none is lost on the way, and the length that is
\* recorded as the longest is the last one.
THEOREM GrowthAlwaysAccounted == Spec => []GrowthAccounted
<1>1. IInv => GrowthAccounted
  BY DEF IInv, Kept, Sound, Grown, GrowthAccounted
<1> QED
  BY <1>1, Inductive, PTL

\* A match is over as soon as one snake of several is left, also by a forfeit between
\* two ticks, and its result gives every seat a place of its own, later deaths above.
THEOREM ResultAlwaysRanks == Spec => []ResultRanks
<1>1. IInv => ResultRanks
  <2> SUFFICES ASSUME IInv
               PROVE  ResultRanks
    OBVIOUS
  <2>1. Kept(sim) /\ (~ sim.over => Cardinality(Living(sim)) > Few)
    BY DEF IInv
  <2>2. sim \in Sims /\ sim.over \in BOOLEAN
    BY <2>1 DEF Kept, Standing, Sims
  <2>3. Cardinality(Living(sim)) \in Nat /\ Few \in Nat
    BY <2>2, LivingSeats, Finite DEF Few
  <2>4. sim.over <=> Cardinality(Living(sim)) <= Few
    BY <2>1, <2>2, <2>3 DEF Kept, Standing
  <2>5. ~ sim.over => \A i \in Seats : sim.snakes[i].place = 0
    BY <2>1 DEF Kept, Standing
  <2>6. sim.over => Ranked(sim)
    BY <2>1 DEF Kept, Standing
  <2>7. Ranked(sim) =>
          /\ {sim.snakes[i].place : i \in Seats} = 1 .. NumSnakes
          /\ \A i, j \in Seats : LET a == sim.snakes[i]  b == sim.snakes[j] IN
               (a.alive /\ ~ b.alive) \/ (~ a.alive /\ ~ b.alive /\ a.died > b.died)
                 => a.place < b.place
    BY DEF Ranked, Above
  <2> QED
    BY <2>4, <2>5, <2>6, <2>7, Zenon DEF ResultRanks, Few
<1> QED
  BY <1>1, Inductive, PTL

\* Once a match is over no leaver, no turn and no tick changes its result.
THEOREM ResultStaysFinal == Spec => ResultFinal
<1> DEFINE Same == \A i \in Seats :
                     /\ sim'.snakes[i].place = sim.snakes[i].place
                     /\ sim'.snakes[i].score = sim.snakes[i].score
                     /\ sim'.snakes[i].kills = sim.snakes[i].kills
<1>1. ASSUME IInv, [Next]_vars, sim.over
      PROVE  Same
  <2>0. /\ Steered \subseteq Seats /\ Unsteady \subseteq Seats
        /\ sim \in Sims /\ sim.snakes \in [Seats -> Snakes]
    BY <1>1, SimAssumption DEF Seats, IInv, Kept, Standing, Sims
  <2>1. ASSUME NEW i \in Seats, NEW sn,
               sim'.snakes = [sim.snakes EXCEPT ![i] = sn],
               sn.place = sim.snakes[i].place, sn.score = sim.snakes[i].score,
               sn.kills = sim.snakes[i].kills
        PROVE  Same
    BY <2>0, <2>1
  <2>2. ASSUME NEW i \in Steered, NEW d \in Directions, SetDirection(i, d)
        PROVE  Same
    <3> DEFINE sn == [sim.snakes[i] EXCEPT !.pending = d]
    <3>1. sim'.snakes = [sim.snakes EXCEPT ![i] = sn]
      BY <2>0, <2>2 DEF SetDirection, Sims
    <3>2. /\ sn.place = sim.snakes[i].place /\ sn.score = sim.snakes[i].score
          /\ sn.kills = sim.snakes[i].kills
      BY <2>0 DEF Snakes
    <3> HIDE DEF sn
    <3> QED
      BY <2>0, <2>1, <3>1, <3>2
  <2>3. ASSUME NEW i \in Unsteady, NEW coasting \in BOOLEAN, SetCoasting(i, coasting)
        PROVE  Same
    <3> DEFINE sn == [sim.snakes[i] EXCEPT !.coasting = coasting,
                                           !.pending = IF coasting THEN NoTurn ELSE sim.snakes[i].pending]
    <3>0. sim.snakes[i] \in Snakes /\ i \in Seats
      BY <2>0
    <3>1. sim'.snakes = [sim.snakes EXCEPT ![i] = sn]
      BY <2>0, <2>3, <3>0 DEF SetCoasting, Sims, Snakes
    <3>2. /\ sn.place = sim.snakes[i].place /\ sn.score = sim.snakes[i].score
          /\ sn.kills = sim.snakes[i].kills
      BY <3>0 DEF Snakes
    <3> HIDE DEF sn
    <3> QED
      BY <2>1, <3>0, <3>1, <3>2
  <2>4. ASSUME NEW i \in Unsteady, Eliminate(i)
        PROVE  Same
    <3> DEFINE r == Kill(sim, {i})
    <3>1. r.over = sim.over /\
          r.snakes = [k \in Seats |-> IF k \in {i}
                                      THEN [sim.snakes[k] EXCEPT !.alive = FALSE, !.died = sim.tick]
                                      ELSE sim.snakes[k]]
      BY <2>0 DEF Kill, Sims
    <3>2. \A k \in Seats : /\ r.snakes[k].place = sim.snakes[k].place
                           /\ r.snakes[k].score = sim.snakes[k].score
                           /\ r.snakes[k].kills = sim.snakes[k].kills
      <4>1. \A sn \in Snakes : /\ Fallen(sn, sim.tick).place = sn.place
                               /\ Fallen(sn, sim.tick).score = sn.score
                               /\ Fallen(sn, sim.tick).kills = sn.kills
        BY DEF Fallen, Snakes
      <4>2. \A k \in Seats : r.snakes[k] = IF k \in {i} THEN Fallen(sim.snakes[k], sim.tick)
                                           ELSE sim.snakes[k]
        BY <3>1, Zenon DEF Fallen
      <4>3. \A k \in Seats : sim.snakes[k] \in Snakes
        BY <2>0
      <4> QED
        BY <4>1, <4>2, <4>3
    <3>3. sim' = r
      BY <1>1, <2>4, <3>1 DEF Eliminate, CheckOver
    <3> QED
      BY <3>2, <3>3
  <2>5. ASSUME Step
        PROVE  Same
    <3>1. sim' = [sim EXCEPT !.tick = @ + 1]
      BY <1>1, <2>5 DEF Step
    <3>2. sim'.snakes = sim.snakes
      BY <2>0, <3>1 DEF Sims
    <3> QED
      BY <3>2
  <2>6. CASE UNCHANGED vars
    BY <2>6 DEF vars
  <2> QED
    BY <1>1, <2>2, <2>3, <2>4, <2>5, <2>6 DEF Next
<1>2. IInv /\ [Next]_vars => [sim.over => Same]_sim
  BY <1>1
<1> QED
  BY <1>2, Inductive, PTL DEF Spec, ResultFinal

\* Of some seats one is last.
LEMMA LastSeat ==
  ASSUME NEW S \in SUBSET Seats, S # {}
  PROVE  Max(S) \in S
<1> DEFINE T == {NumSnakes - i : i \in S}
<1>1. NumSnakes \in Nat /\ \A i \in S : i \in Nat /\ NumSnakes - i \in Nat
  BY SimAssumption DEF Seats
<1>2. PICK n \in T : \A k \in T : n <= k
  <2>1. T \in SUBSET Nat /\ T # {}
    BY <1>1
  <2> QED
    BY <2>1, Least
<1>3. PICK m \in S : n = NumSnakes - m
  OBVIOUS
<1>4. \A i \in S : m >= i
  BY <1>1, <1>2, <1>3
<1> QED
  BY <1>4 DEF Max

\* Whom the deaths of a move count for: the last owner of the cell ahead, or, where the
\* snake met a head, a wall or itself, the dead snake.
Counts(s) == [j \in Doomed(s) |-> IF Killers(s, j) = {} THEN j ELSE Max(Owners(s, j))]

LEMMA CountsRight ==
  ASSUME NEW s \in Sims
  PROVE  /\ Counts(s) \in [Doomed(s) -> Living(s)]
         /\ \A j \in Doomed(s) : Counts(s)[j] # j =>
              /\ Ahead(s.snakes[j]) \in ToSet(s.snakes[Counts(s)[j]].body)
              /\ ~ HeadOn(s, j)
         /\ \A i \in Seats : Credit(s, i) = Cardinality({j \in Doomed(s) \ {i} : Counts(s)[j] = i})
<1>0. Doomed(s) \subseteq Living(s) /\ Living(s) \subseteq Seats
  BY LivingSeats DEF Doomed
<1>1. ASSUME NEW j \in Doomed(s)
      PROVE  /\ Counts(s)[j] \in Living(s)
             /\ Counts(s)[j] # j =>
                  /\ Counts(s)[j] \in Owners(s, j) /\ ~ HeadOn(s, j)
             /\ \A i \in Seats : i \in Killers(s, j) <=> i # j /\ Counts(s)[j] = i
  <2>1. CASE Killers(s, j) = {}
    <3>1. Counts(s)[j] = j
      BY <2>1 DEF Counts
    <3> QED
      BY <1>0, <2>1, <3>1
  <2>2. CASE Killers(s, j) # {}
    <3> DEFINE m == Max(Owners(s, j))
    <3>1. ~ HeadOn(s, j) /\ Owners(s, j) # {} /\ Killers(s, j) = {m} \ {j}
      BY <2>2 DEF Killers
    <3>2. Counts(s)[j] = m
      BY <2>2 DEF Counts
    <3>3. Owners(s, j) \subseteq Living(s)
      BY DEF Owners
    <3>4. m \in Owners(s, j)
      BY <1>0, <3>1, <3>3, LastSeat
    <3> HIDE DEF m
    <3> QED
      BY <2>2, <3>1, <3>2, <3>3, <3>4
  <2> QED
    BY <2>1, <2>2
<1>2. Counts(s) \in [Doomed(s) -> Living(s)]
  <2>1. \A j \in Doomed(s) : Counts(s)[j] \in Living(s)
    BY <1>1
  <2>2. Counts(s) = [j \in Doomed(s) |-> Counts(s)[j]]
    BY DEF Counts
  <2> QED
    BY <2>1, <2>2
<1>3. ASSUME NEW j \in Doomed(s), Counts(s)[j] # j
      PROVE  /\ Ahead(s.snakes[j]) \in ToSet(s.snakes[Counts(s)[j]].body)
             /\ ~ HeadOn(s, j)
  <2>1. Ahead(s.snakes[j]) \in Solid(s.snakes[Counts(s)[j]]) /\ ~ HeadOn(s, j)
    BY <1>1, <1>3 DEF Owners
  <2> QED
    BY <2>1 DEF Solid, ToSet
<1>4. ASSUME NEW i \in Seats
      PROVE  Credit(s, i) = Cardinality({j \in Doomed(s) \ {i} : Counts(s)[j] = i})
  <2>1. {j \in Doomed(s) : i \in Killers(s, j)} = {j \in Doomed(s) \ {i} : Counts(s)[j] = i}
    BY <1>1
  <2> QED
    BY <2>1 DEF Credit
<1> QED
  BY <1>2, <1>3, <1>4

\* Every kill is for another living snake that ran into the body, and for no death are
\* two counted: neither a turn nor a forfeit, only a move gives kills, one for each
\* death it decides and to the snake found in the world before it.
THEOREM KillsAlwaysEarned == Spec => KillsEarned
<1> DEFINE Earned ==
      \E by \in [Died -> Living(sim)] :
        /\ \A j \in Died : by[j] # j =>
             /\ Ahead(sim.snakes[j]) \in ToSet(sim.snakes[by[j]].body)
             /\ ~ HeadOn(sim, j)
        /\ \A i \in Seats :
             sim'.snakes[i].kills =
               sim.snakes[i].kills + Cardinality({j \in Died \ {i} : by[j] = i})
<1>1. ASSUME IInv, [Next]_vars
      PROVE  Earned
  <2>0. /\ Steered \subseteq Seats /\ Unsteady \subseteq Seats
        /\ Kept(sim) /\ sim \in Sims /\ sim.snakes \in [Seats -> Snakes] /\ wrap \in BOOLEAN
        /\ \A i \in Seats : sim.snakes[i].kills \in Nat
    <3>1. /\ Steered \subseteq Seats /\ Unsteady \subseteq Seats
          /\ Kept(sim) /\ sim \in Sims /\ sim.snakes \in [Seats -> Snakes] /\ wrap \in BOOLEAN
      BY <1>1, SimAssumption DEF Seats, IInv, Kept, Standing, Sims
    <3>2. \A i \in Seats : sim.snakes[i].kills \in Nat
      BY <3>1 DEF Snakes
    <3> QED
      BY <3>1, <3>2
  <2>1. ASSUME \A i \in Seats : sim'.snakes[i].kills = sim.snakes[i].kills
        PROVE  Earned
    <3> DEFINE by == [j \in Died |-> j]
    <3>1. by \in [Died -> Living(sim)]
      BY DEF Died
    <3>2. \A j \in Died : by[j] = j
      OBVIOUS
    <3>3. \A i \in Seats : {j \in Died \ {i} : by[j] = i} = {}
      BY <3>2
    <3>4. \A i \in Seats :
            sim'.snakes[i].kills =
              sim.snakes[i].kills + Cardinality({j \in Died \ {i} : by[j] = i})
      <4>1. ASSUME NEW i \in Seats, NEW n, n = sim.snakes[i].kills, n \in Nat
            PROVE  n = n + Cardinality({j \in Died \ {i} : by[j] = i})
        <5>1. Cardinality({j \in Died \ {i} : by[j] = i}) = 0
          BY <3>3, FS_EmptySet
        <5> QED
          BY <4>1, <5>1
      <4> QED
        BY <2>0, <2>1, <4>1, Zenon
    <3> HIDE DEF by
    <3> QED
      BY <3>1, <3>2, <3>4
  <2>2. ASSUME NEW i \in Steered, NEW d \in Directions, SetDirection(i, d)
        PROVE  Earned
    <3> DEFINE sn == [sim.snakes[i] EXCEPT !.pending = d]
    <3>1. sim'.snakes = [sim.snakes EXCEPT ![i] = sn]
      BY <2>0, <2>2 DEF SetDirection, Sims
    <3>2. sn.kills = sim.snakes[i].kills
      BY <2>0 DEF Snakes
    <3> HIDE DEF sn
    <3> QED
      BY <2>0, <2>1, <3>1, <3>2
  <2>3. ASSUME NEW i \in Unsteady, NEW coasting \in BOOLEAN, SetCoasting(i, coasting)
        PROVE  Earned
    <3> DEFINE sn == [sim.snakes[i] EXCEPT !.coasting = coasting,
                                           !.pending = IF coasting THEN NoTurn ELSE sim.snakes[i].pending]
    <3>0. sim.snakes[i] \in Snakes /\ i \in Seats
      BY <2>0
    <3>1. sim'.snakes = [sim.snakes EXCEPT ![i] = sn]
      BY <2>0, <2>3, <3>0 DEF SetCoasting, Sims, Snakes
    <3>2. sn.kills = sim.snakes[i].kills
      BY <3>0 DEF Snakes
    <3> HIDE DEF sn
    <3> QED
      BY <2>0, <2>1, <3>0, <3>1, <3>2
  <2>4. ASSUME NEW i \in Unsteady, Eliminate(i)
        PROVE  Earned
    <3> DEFINE r == Kill(sim, {i})
    <3>1. Kept(r)
      <4>1. {i} \subseteq Living(sim)
        BY <2>0, <2>4, LivingSeats DEF Eliminate
      <4> QED
        BY <2>0, <4>1, KillKeeps DEF Kept, Sound
    <3>2. r.snakes = [k \in Seats |-> IF k \in {i}
                                      THEN [sim.snakes[k] EXCEPT !.alive = FALSE, !.died = sim.tick]
                                      ELSE sim.snakes[k]]
      BY <2>0 DEF Kill, Sims
    <3>3. \A k \in Seats : r.snakes[k].kills = sim.snakes[k].kills
      <4>1. \A sn \in Snakes : Fallen(sn, sim.tick).kills = sn.kills
        BY DEF Fallen, Snakes
      <4>2. \A k \in Seats : r.snakes[k] = IF k \in {i} THEN Fallen(sim.snakes[k], sim.tick)
                                           ELSE sim.snakes[k]
        BY <3>2, Zenon DEF Fallen
      <4>3. \A k \in Seats : sim.snakes[k] \in Snakes
        BY <2>0
      <4> QED
        BY <4>1, <4>2, <4>3
    <3>4. sim' = CheckOver(r)
      BY <2>4 DEF Eliminate
    <3> HIDE DEF r
    <3>5. \A k \in Seats : sim'.snakes[k].kills = sim.snakes[k].kills
      BY <3>1, <3>3, <3>4, CheckOverKeeps
    <3> QED
      BY <2>1, <3>5
  <2>5. ASSUME Step
        PROVE  Earned
    <3> DEFINE ticked == [sim EXCEPT !.tick = @ + 1]
    <3>1. /\ Kept(ticked) /\ Living(ticked) = Living(sim) /\ ticked.snakes = sim.snakes
          /\ ticked \in Sims
      BY <2>0, TickKeeps DEF Kept, Standing
    <3>2. CASE sim' = ticked
      BY <2>1, <3>1, <3>2
    <3>3. ASSUME NEW s \in Replenished(Advance(ticked)), sim' = CheckOver(s)
          PROVE  Earned
      <4> HIDE DEF ticked
      <4>1. Kept(Advance(ticked))
        BY <2>0, <3>1, AdvanceKeeps
      <4>2. Kept(s) /\ s.snakes = Advance(ticked).snakes
        BY <4>1, ReplenishedKeeps
      <4>3. /\ \A i \in Seats : sim'.snakes[i].kills = s.snakes[i].kills
            /\ Living(sim') = Living(s)
        BY <3>3, <4>2, CheckOverKeeps
      <4>4. \A i \in Seats : Len(ticked.snakes[i].body) >= 1
        <5>1. \A i \in Seats : Len(ticked.snakes[i].body) \in Nat /\ Len(ticked.snakes[i].body) >= 3
          BY <3>1, KeptSnake
        <5> QED
          BY <5>1
      <4>5. ASSUME NEW i \in Seats
            PROVE  /\ s.snakes[i].alive <=> sim.snakes[i].alive /\ ~ Dies(ticked, i)
                   /\ s.snakes[i].kills = sim.snakes[i].kills + Credit(ticked, i)
        BY <2>0, <3>1, <4>2, <4>4, AdvanceParts
      <4>6. Died = Doomed(ticked)
        <5>1. /\ Living(s) \subseteq Seats /\ \A i \in Seats : i \in Living(s) <=> s.snakes[i].alive
              /\ Living(sim) \subseteq Seats
              /\ \A i \in Seats : i \in Living(sim) <=> sim.snakes[i].alive
          BY <2>0, <4>2, LivingSeats DEF Kept, Standing
        <5> QED
          BY <3>1, <4>3, <4>5, <5>1 DEF Died, Doomed
      <4>7. \A j : HeadOn(ticked, j) <=> HeadOn(sim, j)
        BY <3>1 DEF HeadOn
      <4>8. /\ Counts(ticked) \in [Died -> Living(sim)]
            /\ \A j \in Died : Counts(ticked)[j] # j =>
                 /\ Ahead(sim.snakes[j]) \in ToSet(sim.snakes[Counts(ticked)[j]].body)
                 /\ ~ HeadOn(sim, j)
            /\ \A i \in Seats : Credit(ticked, i) = Cardinality({j \in Died \ {i} : Counts(ticked)[j] = i})
        BY <3>1, <4>6, <4>7, CountsRight
      <4> DEFINE by == Counts(ticked)
      <4>9. \A i \in Seats :
              sim'.snakes[i].kills =
                sim.snakes[i].kills + Cardinality({j \in Died \ {i} : by[j] = i})
        BY <4>3, <4>5, <4>8
      <4>10. /\ by \in [Died -> Living(sim)]
             /\ \A j \in Died : by[j] # j =>
                  /\ Ahead(sim.snakes[j]) \in ToSet(sim.snakes[by[j]].body)
                  /\ ~ HeadOn(sim, j)
        BY <4>8
      <4> HIDE DEF by
      <4> QED
        BY <4>9, <4>10
    <3> QED
      BY <2>5, <3>2, <3>3, Zenon DEF Step
  <2>6. CASE UNCHANGED vars
    BY <2>1, <2>6 DEF vars
  <2> QED
    BY <1>1, <2>2, <2>3, <2>4, <2>5, <2>6 DEF Next
<1>2. IInv /\ [Next]_vars => [Earned]_sim
  BY <1>1
<1> QED
  BY <1>2, Inductive, PTL DEF Spec, KillsEarned

\* What a move makes of a snake, apart from where it sits: whether it dies or eats, the
\* tick and the number of its kills.
Fate(sn, dies, eats, t, n) ==
  IF dies THEN Fallen(Credited(Turn(sn), n), t)
  ELSE IF sn.alive THEN Credited(Move(sn, eats), n)
  ELSE Credited(sn, n)

LEMMA AdvanceFate ==
  ASSUME NEW s \in Sims, wrap \in BOOLEAN, NEW i \in Seats, Len(s.snakes[i].body) >= 1
  PROVE  Advance(s).snakes[i] = Fate(s.snakes[i], i \in Doomed(s), Ahead(s.snakes[i]) \in s.food,
                                     s.tick, Credit(s, i))
<1> DEFINE sn  == s.snakes[i]
           new == Credited(Going(s, i), Credit(s, i))
<1>1. /\ Gone(s).snakes = [k \in Seats |-> Credited(Going(s, k), Credit(s, k))]
      /\ Gone(s).tick = s.tick
      /\ Gone(s) = [snakes |-> Gone(s).snakes, food |-> Gone(s).food, tick |-> Gone(s).tick,
                    over |-> Gone(s).over, deathIndex |-> Gone(s).deathIndex]
  BY GoneIs, Zenon
<1>2. Gone(s).snakes[i] = new
  BY <1>1
<1> HIDE DEF new
<1>3. Kill(Gone(s), Doomed(s)).snakes =
        [k \in Seats |-> IF k \in Doomed(s)
                         THEN [Gone(s).snakes[k] EXCEPT !.alive = FALSE, !.died = Gone(s).tick]
                         ELSE Gone(s).snakes[k]]
  BY <1>1 DEF Kill
<1>4. Advance(s).snakes[i] = IF i \in Doomed(s) THEN Fallen(new, s.tick) ELSE new
  BY <1>1, <1>2, <1>3, AdvanceIs, Zenon DEF Fallen
<1>5. /\ i \notin Doomed(s) /\ sn.alive => Going(s, i) = Move(sn, Ahead(sn) \in s.food)
      /\ i \in Doomed(s) => Going(s, i) = Turn(sn)
      /\ ~ sn.alive => i \notin Doomed(s) /\ Going(s, i) = sn
  BY GoingIs
<1> QED
  BY <1>4, <1>5, Zenon DEF new, Fate

Rekilled(sn, n) == [sn EXCEPT !.kills = n]

\* Of a fate, the number of kills that are added shows in the kills alone.
LEMMA FateKills ==
  ASSUME NEW sn \in Snakes, Len(sn.body) >= 1, wrap \in BOOLEAN, NEW t \in Nat
  PROVE  \A dies, eats \in BOOLEAN, n, m \in Nat :
           (~ dies /\ sn.alive => Ahead(sn) \in Cells) =>
             Fate(sn, dies, eats, t, n)
               = Rekilled(Fate(sn, dies, eats, t, m), Fate(sn, dies, eats, t, n).kills)
<1> SUFFICES ASSUME NEW dies \in BOOLEAN, NEW eats \in BOOLEAN, NEW n \in Nat, NEW m \in Nat,
                    ~ dies /\ sn.alive => Ahead(sn) \in Cells
             PROVE  Fate(sn, dies, eats, t, n)
                      = Rekilled(Fate(sn, dies, eats, t, m), Fate(sn, dies, eats, t, n).kills)
  OBVIOUS
<1>1. \A x \in Snakes, k \in Nat : Credited(x, k) \in Snakes
  BY SnakeCredited
<1>2. ASSUME NEW x \in Snakes
      PROVE  /\ Credited(x, n) = Rekilled(Credited(x, m), Credited(x, n).kills)
             /\ Fallen(Credited(x, n), t)
                  = Rekilled(Fallen(Credited(x, m), t), Fallen(Credited(x, n), t).kills)
  <2>1. Credited(x, n) = Rekilled(Credited(x, m), Credited(x, n).kills)
    BY DEF Credited, Rekilled, Snakes
  <2>2. ASSUME NEW a \in Snakes, NEW b \in Snakes, a = Rekilled(b, a.kills)
        PROVE  Fallen(a, t) = Rekilled(Fallen(b, t), Fallen(a, t).kills)
    BY <2>2 DEF Fallen, Rekilled, Snakes
  <2> QED
    BY <1>1, <2>1, <2>2
<1>3. CASE dies
  BY <1>2, <1>3, SnakeTurned DEF Fate
<1>4. CASE ~ dies /\ sn.alive
  <2>1. Move(sn, eats) \in Snakes
    BY <1>4, MoveKeeps
  <2> QED
    BY <1>2, <1>4, <2>1, Zenon DEF Fate
<1>5. CASE ~ dies /\ ~ sn.alive
  BY <1>2, <1>5 DEF Fate
<1> QED
  BY <1>3, <1>4, <1>5

LEMMA ExchangeIs ==
  ASSUME NEW seat \in Exchanges
  PROVE  /\ seat \in [Seats -> Seats]
         /\ \A i, j \in Seats : seat[i] = seat[j] => i = j
         /\ \A j \in Seats : \E i \in Seats : seat[i] = j
BY DEF Exchanges, Bijection, Injection, Surjection, IsInjective

\* Worlds that differ in who sits where: t has in each seat the snake that s has in
\* another.
Reseated(t, s, seat) ==
  /\ t \in Sims /\ s \in Sims /\ seat \in Exchanges
  /\ t.food = s.food /\ t.tick = s.tick
  /\ \A i \in Seats : t.snakes[i] = s.snakes[seat[i]]

\* A snake sees the same arena from either seat.
LEMMA ReseatedSees ==
  ASSUME NEW t, NEW s, NEW seat, Reseated(t, s, seat), NEW i \in Seats
  PROVE  /\ seat[i] \in Seats /\ t.snakes[i] = s.snakes[seat[i]]
         /\ i \in Living(t) <=> seat[i] \in Living(s)
         /\ HeadOn(t, i) <=> HeadOn(s, seat[i])
         /\ \A j \in Seats : j \in Owners(t, i) <=> seat[j] \in Owners(s, seat[i])
         /\ Owners(t, i) = {} <=> Owners(s, seat[i]) = {}
         /\ i \in Doomed(t) <=> seat[i] \in Doomed(s)
<1>1. /\ \A k \in Seats : seat[k] \in Seats /\ t.snakes[k] = s.snakes[seat[k]]
      /\ \A k \in Seats : k # i => seat[k] # seat[i]
      /\ \A j \in Seats : \E k \in Seats : seat[k] = j
  BY ExchangeIs DEF Reseated
<1>2. /\ Living(s) \subseteq Seats /\ Living(t) \subseteq Seats
      /\ \A k \in Seats : k \in Living(s) <=> s.snakes[k].alive
      /\ \A k \in Seats : k \in Living(t) <=> t.snakes[k].alive
  BY LivingSeats DEF Reseated
<1>3. \A k \in Seats : k \in Living(t) <=> seat[k] \in Living(s)
  BY <1>1, <1>2
<1>4. HeadOn(t, i) <=> HeadOn(s, seat[i])
  <2>1. ASSUME NEW j \in Living(t) \ {i}, Ahead(t.snakes[j]) = Ahead(t.snakes[i])
        PROVE  HeadOn(s, seat[i])
    <3>1. j \in Seats /\ seat[j] \in Living(s) /\ seat[j] # seat[i]
      BY <1>1, <1>2, <1>3
    <3>2. Ahead(s.snakes[seat[j]]) = Ahead(s.snakes[seat[i]])
      BY <1>1, <2>1, <3>1
    <3> QED
      BY <3>1, <3>2 DEF HeadOn
  <2>2. ASSUME NEW j \in Living(s) \ {seat[i]}, Ahead(s.snakes[j]) = Ahead(s.snakes[seat[i]])
        PROVE  HeadOn(t, i)
    <3>1. PICK k \in Seats : seat[k] = j
      BY <1>1, <1>2
    <3>2. k \in Living(t) \ {i}
      BY <1>3, <3>1
    <3>3. Ahead(t.snakes[k]) = Ahead(t.snakes[i])
      BY <1>1, <2>2, <3>1
    <3> QED
      BY <3>2, <3>3 DEF HeadOn
  <2> QED
    BY <2>1, <2>2 DEF HeadOn
<1>5. \A j \in Seats : j \in Owners(t, i) <=> seat[j] \in Owners(s, seat[i])
  BY <1>1, <1>3 DEF Owners
<1>6. Owners(t, i) = {} <=> Owners(s, seat[i]) = {}
  <2>1. Owners(t, i) \subseteq Seats /\ Owners(s, seat[i]) \subseteq Seats
    BY <1>2 DEF Owners
  <2> QED
    BY <1>1, <1>5, <2>1
<1>7. Ahead(t.snakes[i]) = Ahead(s.snakes[seat[i]])
  BY <1>1
<1>8. i \in Doomed(t) <=> seat[i] \in Doomed(s)
  BY <1>3, <1>4, <1>6, <1>7 DEF Doomed, Dies
<1> QED
  BY <1>1, <1>3, <1>4, <1>5, <1>6, <1>8

\* Where no cell is disputed, a death counts for the same snake from either seat.
LEMMA ReseatedKillers ==
  ASSUME NEW t, NEW s, NEW seat, Reseated(t, s, seat), ~ Disputed(s),
         NEW i \in Seats, NEW j \in Doomed(t)
  PROVE  i \in Killers(t, j) <=> seat[i] \in Killers(s, seat[j])
<1>1. j \in Seats /\ t \in Sims /\ s \in Sims /\ seat \in Exchanges
  BY LivingSeats DEF Doomed, Reseated
<1>2. /\ HeadOn(t, j) <=> HeadOn(s, seat[j])
      /\ Owners(t, j) = {} <=> Owners(s, seat[j]) = {}
      /\ Ahead(t.snakes[j]) = Ahead(s.snakes[seat[j]])
      /\ seat[j] \in Doomed(s) /\ seat[j] \in Seats
      /\ \A k \in Seats : k \in Owners(t, j) <=> seat[k] \in Owners(s, seat[j])
  BY <1>1, ReseatedSees
<1>3. /\ \A k \in Seats : seat[k] \in Seats
      /\ \A k, l \in Seats : seat[k] = seat[l] => k = l
  BY <1>1, ExchangeIs
<1>4. Owners(t, j) \subseteq Seats /\ Owners(s, seat[j]) \subseteq Seats
  BY <1>1, LivingSeats DEF Owners
<1>5. ASSUME NEW a \in Owners(s, seat[j]), NEW b \in Owners(s, seat[j])
      PROVE  a = b
  <2>1. ~ (Cardinality(Owners(s, seat[j])) > 1)
    BY <1>2 DEF Disputed
  <2>2. Cardinality({a}) = 1
    BY FS_Singleton
  <2>3. SUFFICES ASSUME a # b
                 PROVE  FALSE
    OBVIOUS
  <2>4. {a} \subseteq Owners(s, seat[j]) /\ {a} # Owners(s, seat[j])
    BY <2>3
  <2>5. Cardinality({a}) < Cardinality(Owners(s, seat[j]))
    BY <1>4, <2>4, FewerOf
  <2>6. Cardinality(Owners(s, seat[j])) \in Nat
    BY <1>4, Finite
  <2> QED
    BY <2>1, <2>2, <2>5, <2>6
<1>6. CASE Ahead(t.snakes[j]) \notin Cells \/ HeadOn(t, j) \/ Owners(t, j) = {}
  BY <1>2, <1>6 DEF Killers
<1>7. CASE Ahead(t.snakes[j]) \in Cells /\ ~ HeadOn(t, j) /\ Owners(t, j) # {}
  <2> DEFINE m == Max(Owners(t, j))
             n == Max(Owners(s, seat[j]))
  <2>1. m \in Owners(t, j) /\ n \in Owners(s, seat[j])
    BY <1>2, <1>4, <1>7, LastSeat
  <2>2. Killers(t, j) = {m} \ {j} /\ Killers(s, seat[j]) = {n} \ {seat[j]}
    BY <1>2, <1>7 DEF Killers
  <2> HIDE DEF m, n
  <2>3. seat[m] = n
    BY <1>2, <1>4, <1>5, <2>1
  <2> QED
    BY <1>1, <1>3, <1>4, <2>1, <2>2, <2>3
<1> QED
  BY <1>6, <1>7

LEMMA ReseatedCredit ==
  ASSUME NEW t, NEW s, NEW seat, Reseated(t, s, seat), ~ Disputed(s), NEW i \in Seats
  PROVE  Credit(t, i) = Credit(s, seat[i])
<1> DEFINE T == {j \in Doomed(t) : i \in Killers(t, j)}
           S == {j \in Doomed(s) : seat[i] \in Killers(s, j)}
           f == [j \in T |-> seat[j]]
<1>1. Doomed(t) \subseteq Seats /\ Doomed(s) \subseteq Seats
  BY LivingSeats DEF Doomed, Reseated
<1>2. /\ \A k \in Seats : seat[k] \in Seats
      /\ \A k, l \in Seats : seat[k] = seat[l] => k = l
      /\ \A k \in Seats : \E l \in Seats : seat[l] = k
  BY ExchangeIs DEF Reseated
<1>3. \A j \in Seats : j \in Doomed(t) <=> seat[j] \in Doomed(s)
  BY ReseatedSees
<1>4. \A j \in Seats : j \in T <=> seat[j] \in S
  <2>1. \A j \in Doomed(t) : i \in Killers(t, j) <=> seat[i] \in Killers(s, seat[j])
    BY ReseatedKillers
  <2> QED
    BY <1>3, <2>1
<1>5. T \subseteq Seats /\ S \subseteq Seats
  BY <1>1
<1> HIDE DEF T, S
<1>6. f \in Bijection(T, S)
  <2>1. f \in [T -> S]
    BY <1>4, <1>5
  <2>2. \A a, b \in T : f[a] = f[b] => a = b
    BY <1>2, <1>5
  <2>3. \A b \in S : \E a \in T : f[a] = b
    BY <1>2, <1>4, <1>5
  <2> HIDE DEF f
  <2> QED
    BY <2>1, <2>2, <2>3 DEF Bijection, Injection, Surjection, IsInjective
<1>7. ExistsBijection(T, S)
  BY <1>6 DEF ExistsBijection
<1>8. IsFiniteSet(T)
  BY <1>5, Finite
<1>9. Cardinality(S) = Cardinality(T)
  BY <1>7, <1>8, FS_Bijection
<1> QED
  BY <1>9 DEF Credit, T, S

\* What a move leaves of the pellets.
LEMMA AdvanceFood ==
  ASSUME NEW s \in Sims
  PROVE  Advance(s).food = s.food \ {Ahead(s.snakes[i]) : i \in Eaters(s)}
<1>1. Gone(s) = [snakes |-> Gone(s).snakes, food |-> Gone(s).food, tick |-> Gone(s).tick,
                 over |-> Gone(s).over, deathIndex |-> Gone(s).deathIndex]
  BY GoneIs, Zenon
<1>2. Gone(s).food = s.food \ {Ahead(s.snakes[i]) : i \in Eaters(s)}
  BY DEF Gone, Sims
<1>3. Kill(Gone(s), Doomed(s)).food = Gone(s).food
  BY <1>1 DEF Kill
<1> QED
  BY <1>2, <1>3, AdvanceIs

\* What the next move makes of a snake does not depend on who sits where, and neither
\* do the pellets it leaves: bodies, headings, growth, scores, who dies, and, unless two
\* bodies lie in a cell that is driven into, kills.
THEOREM SeatsAreEqual == Spec => []NoSeatAdvantage
<1>1. ASSUME IInv
      PROVE  NoSeatAdvantage
  <2>1. Kept(sim) /\ wrap \in BOOLEAN /\ sim \in Sims
    BY <1>1 DEF IInv, Kept, Standing
  <2>2. ASSUME NEW seat \in Exchanges,
               NEW t, t = [sim EXCEPT !.snakes = [i \in Seats |-> @[seat[i]]]]
        PROVE  /\ Advance(t).food = Advance(sim).food
               /\ \A i \in Seats :
                    LET a == Advance(t).snakes[i]  b == Advance(sim).snakes[seat[i]] IN
                    /\ a = [b EXCEPT !.kills = a.kills]
                    /\ a.kills = b.kills \/ Disputed(sim)
    <3>1. \A i \in Seats : seat[i] \in Seats
      BY ExchangeIs
    <3>2. Reseated(t, sim, seat)
      BY <2>1, <2>2, <3>1 DEF Sims, Reseated
    <3>3. t \in Sims /\ t.food = sim.food /\ t.tick = sim.tick /\ sim.tick \in Nat
      BY <2>1, <3>2 DEF Reseated, Sims
    <3>4. \A i \in Seats : i \in Eaters(t) <=> seat[i] \in Eaters(sim)
      BY <3>2, <3>3, ReseatedSees DEF Eaters
    <3>5. Advance(t).food = Advance(sim).food
      <4>1. Eaters(t) \subseteq Seats /\ Eaters(sim) \subseteq Seats
        BY <2>1, <3>3, LivingSeats DEF Eaters
      <4>2. /\ \A i \in Seats : t.snakes[i] = sim.snakes[seat[i]]
            /\ \A j \in Seats : \E i \in Seats : seat[i] = j
        BY <3>2, ExchangeIs DEF Reseated
      <4>3. {Ahead(t.snakes[i]) : i \in Eaters(t)} = {Ahead(sim.snakes[i]) : i \in Eaters(sim)}
        BY <3>1, <3>4, <4>1, <4>2
      <4> QED
        BY <2>1, <3>3, <4>3, AdvanceFood
    <3>6. ASSUME NEW i \in Seats
          PROVE  LET a == Advance(t).snakes[i]  b == Advance(sim).snakes[seat[i]] IN
                 /\ a = [b EXCEPT !.kills = a.kills]
                 /\ a.kills = b.kills \/ Disputed(sim)
      <4> DEFINE k  == seat[i]
                 sn == sim.snakes[k]
      <4>1. k \in Seats /\ t.snakes[i] = sn /\ sn \in Snakes
        BY <2>1, <3>1, <3>2 DEF Reseated, Sims
      <4>2. Len(sn.body) >= 1
        <5>1. Len(sn.body) \in Nat /\ Len(sn.body) >= 3
          BY <2>1, <4>1, KeptSnake
        <5> QED
          BY <5>1
      <4> DEFINE dies == k \in Doomed(sim)
                 eats == Ahead(sn) \in sim.food
      <4>3. (i \in Doomed(t)) = dies
        BY <3>2, ReseatedSees
      <4>4. Advance(t).snakes[i] = Fate(sn, dies, eats, sim.tick, Credit(t, i))
        BY <2>1, <3>3, <4>1, <4>2, <4>3, AdvanceFate
      <4>5. Advance(sim).snakes[k] = Fate(sn, dies, eats, sim.tick, Credit(sim, k))
        BY <2>1, <4>1, <4>2, AdvanceFate
      <4>6. /\ Credit(t, i) \in Nat /\ Credit(sim, k) \in Nat
            /\ ~ dies /\ sn.alive => Ahead(sn) \in Cells
        BY <2>1, <3>3, <4>1, <4>2, GoingIs
      <4>7. ~ Disputed(sim) => Credit(t, i) = Credit(sim, k)
        BY <3>2, ReseatedCredit
      <4>8. dies \in BOOLEAN /\ eats \in BOOLEAN
        OBVIOUS
      <4> HIDE DEF k, sn, dies, eats
      <4>9. \A d, e \in BOOLEAN, n, m \in Nat :
              (~ d /\ sn.alive => Ahead(sn) \in Cells) =>
                Fate(sn, d, e, sim.tick, n)
                  = Rekilled(Fate(sn, d, e, sim.tick, m), Fate(sn, d, e, sim.tick, n).kills)
        BY <2>1, <3>3, <4>1, <4>2, FateKills
      <4>10. Advance(t).snakes[i] = Rekilled(Advance(sim).snakes[k], Advance(t).snakes[i].kills)
        BY ONLY <4>4, <4>5, <4>6, <4>8, <4>9
      <4>11. Advance(t).snakes[i].kills = Advance(sim).snakes[k].kills \/ Disputed(sim)
        BY ONLY <4>4, <4>5, <4>7
      <4> QED
        BY <4>10, <4>11 DEF k, Rekilled
    <3> QED
      BY <3>5, <3>6
  <2>3. ASSUME NEW seat \in Exchanges
        PROVE  LET there == Advance([sim EXCEPT !.snakes = [i \in Seats |-> @[seat[i]]]])
               IN  /\ there.food = Advance(sim).food
                   /\ \A i \in Seats :
                        LET a == there.snakes[i]  b == Advance(sim).snakes[seat[i]] IN
                        /\ a = [b EXCEPT !.kills = a.kills]
                        /\ a.kills = b.kills \/ Disputed(sim)
    <3> DEFINE t == [sim EXCEPT !.snakes = [i \in Seats |-> @[seat[i]]]]
    <3>1. t = [sim EXCEPT !.snakes = [i \in Seats |-> @[seat[i]]]]
      OBVIOUS
    <3> HIDE DEF t
    <3>2. /\ Advance(t).food = Advance(sim).food
          /\ \A i \in Seats :
               LET a == Advance(t).snakes[i]  b == Advance(sim).snakes[seat[i]] IN
               /\ a = [b EXCEPT !.kills = a.kills]
               /\ a.kills = b.kills \/ Disputed(sim)
      BY <2>2, <3>1
    <3> QED
      BY <3>2 DEF t
  <2> QED
    BY <2>3 DEF NoSeatAdvantage
<1> QED
  BY <1>1, Inductive, PTL
-----------------------------------------------------------------------------
(***************************************************************************)
(* What the guesses are worth.                                             *)
(***************************************************************************)
\* The state after one turn, and the way the snake is then headed.
LEMMA TurnedIs ==
  ASSUME NEW s, Kept(s), NEW i \in Seats, NEW d \in Directions,
         s.snakes[i].pending = NoTurn, ~ s.snakes[i].coasting
  PROVE  /\ Turned(s, i, d) \in Sims
         /\ Turned(s, i, d).food = s.food
         /\ \A j \in Seats : j # i => Turned(s, i, d).snakes[j] = s.snakes[j]
         /\ Turned(s, i, d).snakes[i] \in Snakes
         /\ Turned(s, i, d).snakes[i].body = s.snakes[i].body
         /\ Turned(s, i, d).snakes[i].dir = s.snakes[i].dir
         /\ Turned(s, i, d).snakes[i].alive = s.snakes[i].alive
         /\ Turned(s, i, d).snakes[i].grow = s.snakes[i].grow
         /\ Heading(Turned(s, i, d).snakes[i])
              = IF d = Opposite[s.snakes[i].dir] THEN s.snakes[i].dir ELSE d
<1> DEFINE sn == s.snakes[i]
           tn == [sn EXCEPT !.pending = d]
<1>1. s \in Sims /\ s.snakes \in [Seats -> Snakes] /\ sn \in Snakes
  BY DEF Kept, Standing, Sims
<1>2. CASE d = Opposite[sn.dir]
  <2>1. Turned(s, i, d) = s
    BY <1>2 DEF Turned
  <2>2. Heading(sn) = sn.dir
    BY DEF Heading
  <2> QED
    BY <1>1, <1>2, <2>1, <2>2
<1>3. CASE d # Opposite[sn.dir]
  <2>1. Turned(s, i, d) = [s EXCEPT !.snakes = [s.snakes EXCEPT ![i] = tn]]
    BY <1>1, <1>3 DEF Turned
  <2>2. /\ tn \in Snakes /\ tn.body = sn.body /\ tn.dir = sn.dir /\ tn.alive = sn.alive
        /\ tn.grow = sn.grow /\ tn.pending = d
    BY <1>1 DEF Snakes
  <2> HIDE DEF tn
  <2>3. /\ Turned(s, i, d) \in Sims /\ Turned(s, i, d).food = s.food
        /\ Turned(s, i, d).snakes = [s.snakes EXCEPT ![i] = tn]
    BY <1>1, <2>1, <2>2 DEF Sims
  <2>4. /\ Turned(s, i, d).snakes[i] = tn
        /\ \A j \in Seats : j # i => Turned(s, i, d).snakes[j] = s.snakes[j]
    BY <1>1, <2>3
  <2>5. Heading(tn) = d
    BY <2>2 DEF Heading, NoTurn, Directions
  <2> QED
    BY <1>3, <2>2, <2>3, <2>4, <2>5
<1> QED
  BY <1>2, <1>3

\* A body that moves on one cell, written in two ways.
LEMMA MovedOn ==
  ASSUME NEW body \in Seq(Cells), NEW n \in Nat, Len(body) = n, n >= 2, NEW q \in Cells
  PROVE  /\ SubSeq(<<q>> \o body, 1, n) = <<q>> \o SubSeq(body, 1, n - 1)
         /\ Len(<<q>> \o SubSeq(body, 1, n - 1)) = n
         /\ (<<q>> \o SubSeq(body, 1, n - 1))[1] = q
         /\ Len(<<q>> \o body) = n + 1
<1> DEFINE a == SubSeq(<<q>> \o body, 1, n)
           b == <<q>> \o SubSeq(body, 1, n - 1)
<1>1. /\ <<q>> \o body \in Seq(Cells) /\ Len(<<q>> \o body) = n + 1
      /\ (<<q>> \o body)[1] = q
      /\ \A k \in 2 .. n + 1 : (<<q>> \o body)[k] = body[k - 1]
  OBVIOUS
<1>2. a \in Seq(Cells) /\ Len(a) = n /\ \A k \in 1 .. n : a[k] = (<<q>> \o body)[k]
  BY <1>1
<1>3. /\ SubSeq(body, 1, n - 1) \in Seq(Cells) /\ Len(SubSeq(body, 1, n - 1)) = n - 1
      /\ \A k \in 1 .. n - 1 : SubSeq(body, 1, n - 1)[k] = body[k]
  OBVIOUS
<1>4. b \in Seq(Cells) /\ Len(b) = n /\ b[1] = q
      /\ \A k \in 2 .. n : b[k] = SubSeq(body, 1, n - 1)[k - 1]
  BY <1>3
<1>5. \A k \in 1 .. n : a[k] = b[k]
  <2>1. ASSUME NEW k \in 1 .. n
        PROVE  a[k] = b[k]
    <3>1. CASE k = 1
      BY <1>1, <1>2, <1>4, <3>1
    <3>2. CASE k # 1
      <4>1. k \in 2 .. n /\ k \in 2 .. n + 1 /\ k - 1 \in 1 .. n - 1
        BY <3>2
      <4>2. a[k] = body[k - 1]
        BY <1>1, <1>2, <4>1
      <4>3. b[k] = body[k - 1]
        BY <1>3, <1>4, <4>1
      <4> QED
        BY <4>2, <4>3
    <3> QED
      BY <3>1, <3>2
  <2> QED
    BY <2>1
<1> HIDE DEF a, b
<1>6. a = b
  BY <1>2, <1>4, <1>5, SeqEqual
<1> QED
  BY <1>1, <1>4, <1>6 DEF a, b

\* What a client draws before the host's answer is what the host decides, as long as
\* the snake lives and does not grow.
THEOREM PredictionAlwaysHolds == Spec => []PredictionHolds
<1>1. ASSUME IInv, Unturned, ~ sim.over, NEW i \in Living(sim), NEW d \in Directions,
             ~ sim.snakes[i].coasting, ~ Dies(Turned(sim, i, d), i)
      PROVE  LET drawn == Predict(sim, i, d)
                 moved == Advance(Turned(sim, i, d)).snakes[i]
             IN  /\ drawn.dir = moved.dir
                 /\ HeadOf(drawn) = HeadOf(moved)
                 /\ Len(drawn.body) = Len(moved.body) => drawn.body = moved.body
  <2> DEFINE sn    == sim.snakes[i]
             s     == Turned(sim, i, d)
             tn    == s.snakes[i]
             drawn == Predict(sim, i, d)
             moved == Advance(s).snakes[i]
             turn  == IF d = Opposite[sn.dir] THEN sn.dir ELSE d
             to    == Ahead(tn)
  <2>1. /\ Kept(sim) /\ wrap \in BOOLEAN /\ sim \in Sims /\ i \in Seats /\ sn.alive
        /\ sn.pending = NoTurn
    <3>1. Kept(sim) /\ wrap \in BOOLEAN /\ sim \in Sims
      BY <1>1 DEF IInv, Kept, Standing
    <3>2. i \in Seats /\ sn.alive
      BY <3>1, LivingSeats
    <3> QED
      BY <1>1, <3>1, <3>2 DEF Unturned
  <2>2. /\ s \in Sims /\ tn \in Snakes /\ tn.body = sn.body /\ tn.alive = sn.alive
        /\ tn.grow = sn.grow /\ Heading(tn) = turn
    <3>1. /\ Kept(sim) /\ i \in Seats /\ d \in Directions
          /\ sim.snakes[i].pending = NoTurn /\ ~ sim.snakes[i].coasting
      BY <1>1, <2>1
    <3> QED
      <4>1. s \in Sims /\ tn \in Snakes
        BY <3>1, TurnedIs
      <4>2. tn.body = sn.body /\ tn.grow = sn.grow
        BY <3>1, TurnedIs
      <4>3. tn.alive = sn.alive
        BY <3>1, TurnedIs
      <4>4. Heading(tn) = turn
        BY <3>1, TurnedIs
      <4> QED
        BY <4>1, <4>2, <4>3, <4>4
  <2>3. sn \in Snakes /\ sn.body \in Seq(Cells)
    BY <2>1, KeptSnake
  <2>4. PICK n \in Nat : Len(sn.body) = n /\ n >= 3
    BY <2>1, KeptSnake
  <2>5. to \in Cells
    BY <1>1 DEF Dies
  <2>6. /\ (Along(HeadOf(sn), turn, 1) = Along(HeadOf(tn), Heading(tn), 1))
        /\ to = IF wrap THEN Fold(Along(HeadOf(sn), turn, 1)) ELSE Along(HeadOf(sn), turn, 1)
    BY <2>2 DEF Ahead, HeadOf
  <2>7. drawn = [sn EXCEPT !.dir = turn, !.body = <<to>> \o SubSeq(sn.body, 1, n - 1)]
    <3>1. (Len(sn.body) > 1 /\ d = Opposite[sn.dir]) <=> d = Opposite[sn.dir]
      BY <2>4
    <3>2. turn = IF Len(sn.body) > 1 /\ d = Opposite[sn.dir] THEN sn.dir ELSE d
      BY <3>1
    <3> HIDE DEF turn, to
    <3> QED
      BY <1>1, <2>1, <2>4, <2>5, <2>6, <3>2 DEF Predict
  <2>8. <<to>> \o SubSeq(sn.body, 1, n - 1) \in Seq(Cells)
    BY <2>3, <2>4, <2>5
  <2>9. turn \in Directions
    BY <2>2, SnakeParts
  <2> DEFINE eats == to \in s.food
  <2>10. /\ s.snakes[i].alive /\ moved.dir = Heading(tn)
         /\ moved.body = Move(tn, eats).body
    <3>1. Len(s.snakes[i].body) >= 1
      BY <2>2, <2>4
    <3> QED
      BY <1>1, <2>1, <2>2, <3>1, AdvanceParts
  <2>11. /\ Move(tn, eats).body[1] = to
         /\ Move(tn, eats).body = IF eats \/ tn.grow > 0 THEN <<to>> \o tn.body
                                  ELSE SubSeq(<<to>> \o tn.body, 1, Len(tn.body))
    <3>1. Len(tn.body) >= 1 /\ eats \in BOOLEAN
      BY <2>2, <2>4
    <3> HIDE DEF eats, tn
    <3> QED
      BY <2>1, <2>2, <2>5, <3>1, MoveKeeps
  <2> HIDE DEF sn, tn, drawn, moved, turn, to, eats, s
  <2>12. drawn.dir = turn /\ drawn.body = <<to>> \o SubSeq(sn.body, 1, n - 1)
    BY <2>3, <2>7, <2>8, <2>9 DEF Snakes
  <2>13. /\ SubSeq(<<to>> \o sn.body, 1, n) = <<to>> \o SubSeq(sn.body, 1, n - 1)
         /\ Len(<<to>> \o SubSeq(sn.body, 1, n - 1)) = n
         /\ (<<to>> \o SubSeq(sn.body, 1, n - 1))[1] = to
         /\ Len(<<to>> \o sn.body) = n + 1
    BY <2>3, <2>4, <2>5, MovedOn
  <2>14. drawn.dir = moved.dir
    BY <2>2, <2>10, <2>12
  <2>15. HeadOf(drawn) = HeadOf(moved)
    BY <2>10, <2>11, <2>12, <2>13 DEF HeadOf
  <2>16. Len(drawn.body) = Len(moved.body) => drawn.body = moved.body
    <3>1. moved.body = IF eats \/ tn.grow > 0 THEN <<to>> \o sn.body
                       ELSE SubSeq(<<to>> \o sn.body, 1, n)
      BY <2>2, <2>4, <2>10, <2>11
    <3>2. Len(drawn.body) = n /\ n # n + 1
      BY <2>4, <2>12, <2>13
    <3> QED
      BY <2>12, <2>13, <3>1, <3>2
  <2> QED
    BY <2>14, <2>15, <2>16 DEF drawn, moved, s
<1>2. IInv => PredictionHolds
  BY <1>1, Zenon DEF PredictionHolds
<1> QED
  BY <1>2, Inductive, PTL
Weights == [risky : BOOLEAN, distance : Int, room : Int, rank : 0 .. 3]

\* Weights are compared by a total order.
LEMMA PreferredOrders ==
  /\ \A a, b \in Weights : Preferred(a, b) \/ Preferred(b, a)
  /\ \A a, b, c \in Weights : Preferred(a, b) /\ Preferred(b, c) => Preferred(a, c)
<1>1. \A a \in Weights : /\ a.risky \in BOOLEAN /\ a.distance \in Int /\ a.room \in Int
                         /\ a.rank \in Int
  BY DEF Weights
<1>2. ASSUME NEW a \in Weights, NEW b \in Weights
      PROVE  Preferred(a, b) \/ Preferred(b, a)
  BY <1>1 DEF Preferred
<1>3. ASSUME NEW a \in Weights, NEW b \in Weights, NEW c \in Weights,
             Preferred(a, b), Preferred(b, c)
      PROVE  Preferred(a, c)
  BY <1>1, <1>3 DEF Preferred
<1> QED
  BY <1>2, <1>3

\* So of any directions one is preferred to all others.
LEMMA BestOption ==
  ASSUME NEW D, D \subseteq Directions, D # {}, NEW w \in [D -> Weights]
  PROVE  \E d \in D : \A e \in D : Preferred(w[d], w[e])
<1> DEFINE Has(S) == S = {} \/ \E d \in S : \A e \in S : Preferred(w[d], w[e])
<1>1. \A d \in D : w[d] \in Weights
  OBVIOUS
<1>2. ASSUME NEW S \in SUBSET D, NEW x \in D, Has(S)
      PROVE  Has(S \union {x})
  <2>0. Preferred(w[x], w[x])
    BY <1>1, PreferredOrders
  <2>1. CASE S = {}
    <3>1. S \union {x} = {x}
      BY <2>1
    <3> QED
      BY <2>0, <3>1
  <2>2. CASE S # {}
    <3>1. PICK d \in S : \A e \in S : Preferred(w[d], w[e])
      BY <1>2, <2>2
    <3>2. d \in D /\ w[d] \in Weights /\ w[x] \in Weights /\ \A e \in S : w[e] \in Weights
      BY <1>1
    <3>3. CASE Preferred(w[d], w[x])
      <4>1. \A e \in S \union {x} : Preferred(w[d], w[e])
        BY <3>1, <3>3
      <4> QED
        BY <4>1
    <3>4. CASE Preferred(w[x], w[d])
      <4>1. \A e \in S : Preferred(w[x], w[e])
        BY <3>1, <3>2, <3>4, PreferredOrders
      <4>2. \A e \in S \union {x} : Preferred(w[x], w[e])
        BY <2>0, <4>1
      <4> QED
        BY <4>2
    <3> QED
      BY <3>2, <3>3, <3>4, PreferredOrders
  <2> QED
    BY <2>1, <2>2
<1> HIDE DEF Has
<1> DEFINE Among(S) == {d \in D : d \in S}
<1>3. ASSUME NEW S, NEW x, Has(Among(S))
      PROVE  Has(Among(S \union {x}))
  <2>1. CASE x \in D
    <3>1. Among(S \union {x}) = Among(S) \union {x} /\ Among(S) \in SUBSET D
      BY <2>1
    <3> HIDE DEF Among
    <3> QED
      BY <1>2, <1>3, <2>1, <3>1
  <2>2. CASE x \notin D
    <3>1. Among(S \union {x}) = Among(S)
      BY <2>2
    <3> QED
      BY <1>3, <3>1
  <2> QED
    BY <2>1, <2>2
<1>4. Has(Among({}))
  BY DEF Has
<1>5. Has(Among({} \union {"up"}))
  BY <1>3, <1>4
<1>6. Has(Among({} \union {"up"} \union {"right"}))
  BY <1>3, <1>5
<1>7. Has(Among({} \union {"up"} \union {"right"} \union {"down"}))
  BY <1>3, <1>6
<1>8. Has(Among({} \union {"up"} \union {"right"} \union {"down"} \union {"left"}))
  BY <1>3, <1>7
<1>9. Among({} \union {"up"} \union {"right"} \union {"down"} \union {"left"}) = D
  BY DEF Directions
<1> QED
  BY <1>8, <1>9 DEF Has

\* What is weighed are numbers, however far the food and however wide the room.
LEMMA DistanceIs ==
  ASSUME NEW p \in Cells, NEW q \in Cells, wrap \in BOOLEAN
  PROVE  Distance(p, q) \in Nat
<1>1. ASSUME NEW side \in Nat, NEW a \in 0 .. side - 1, NEW b \in 0 .. side - 1
      PROVE  Apart(a, b, side) \in Nat
  <2> DEFINE gap == IF a < b THEN b - a ELSE a - b
  <2>1. gap \in Nat /\ side - gap \in Nat
    OBVIOUS
  <2> HIDE DEF gap
  <2>2. Min({gap, side - gap}) \in Nat
    <3>1. gap \in Int /\ side - gap \in Int
      BY <2>1
    <3>2. Min({gap, side - gap}) = IF gap <= side - gap THEN gap ELSE side - gap
      BY <3>1, TwoNumbers
    <3> QED
      BY <2>1, <3>2
  <2> QED
    BY <2>1, <2>2 DEF Apart, gap
<1>2. /\ p[1] \in 0 .. Width - 1 /\ q[1] \in 0 .. Width - 1
      /\ p[2] \in 0 .. Height - 1 /\ q[2] \in 0 .. Height - 1
      /\ Width \in Nat /\ Height \in Nat
  BY Sides DEF Cells
<1>3. Apart(p[1], q[1], Width) \in Nat /\ Apart(p[2], q[2], Height) \in Nat
  BY <1>1, <1>2
<1> QED
  BY <1>3 DEF Distance

LEMMA NearestFoodIs ==
  ASSUME NEW s \in Sims, NEW p \in Cells, wrap \in BOOLEAN
  PROVE  NearestFood(s, p) \in Int
<1> DEFINE T == {Distance(p, f) : f \in s.food} \union {NoFood}
<1>1. NoFood \in Nat
  <2>1. IsFiniteSet(1 .. 30) /\ Cardinality(1 .. 30) = 30
    <3>1. 1 \in Int /\ 30 \in Int /\ ~ 1 > 30 /\ 30 - 1 + 1 = 30
      OBVIOUS
    <3> QED
      BY <3>1, FS_Interval
  <2>2. IsFiniteSet(SUBSET (1 .. 30)) /\ Cardinality(SUBSET (1 .. 30)) = 2 ^ Cardinality(1 .. 30)
    BY <2>1, FS_SUBSET
  <2>3. Cardinality(SUBSET (1 .. 30)) \in Nat
    BY <2>2, FS_CardinalityType
  <2> QED
    BY <2>1, <2>2, <2>3 DEF NoFood
<1>2. T \in SUBSET Nat /\ T # {}
  <2>1. s.food \subseteq Cells
    BY DEF Sims
  <2> QED
    BY <1>1, <2>1, DistanceIs
<1> HIDE DEF T
<1>3. PICK n \in T : \A m \in T : n <= m
  BY <1>2, Least
<1>4. Min(T) \in T
  BY <1>3 DEF Min
<1> QED
  BY <1>2, <1>4 DEF NearestFood, T

LEMMA OpenRoomIs ==
  ASSUME NEW p, NEW blocked
  PROVE  OpenRoom(p, blocked) \in Int
<1>1. \E X : OpenRoom(p, blocked) = Min({Budget, Cardinality(Cells \intersect X)})
  <2> DEFINE spread(S) ==
               S \union (({Neighbour(q, d) : q \in S, d \in Directions} \intersect Cells) \ blocked)
             fill[S \in SUBSET Cells] ==
               LET wider == spread(S)
               IN  IF wider = S \/ Cardinality(S) >= Budget THEN S ELSE fill[wider]
             X == fill[{p}]
  <2>1. OpenRoom(p, blocked) = Min({Budget, Cardinality(Cells \intersect X)})
    BY DEF OpenRoom
  <2> HIDE DEF X
  <2> QED
    BY <2>1
<1>2. PICK X : OpenRoom(p, blocked) = Min({Budget, Cardinality(Cells \intersect X)})
  BY <1>1
<1>3. IsFiniteSet(Cells \intersect X) /\ Cardinality(Cells \intersect X) \in Nat
  BY Finite, FS_Intersection, FS_CardinalityType
<1>4. Budget \in Int
  BY DEF Budget
<1>5. PICK c \in Int : OpenRoom(p, blocked) = Min({Budget, c})
  BY <1>2, <1>3
<1> QED
  BY ONLY <1>4, <1>5, TwoNumbers

\* A bot that has an option takes one.
LEMMA ChoosesOption ==
  ASSUME NEW s \in Sims, NEW i \in Seats, wrap \in BOOLEAN, Options(s, i) # {}
  PROVE  ChooseDirection(s, i) \in Options(s, i)
<1> DEFINE weight == [d \in Options(s, i) |-> Weigh(s, i, d)]
<1>1. Options(s, i) \subseteq Directions
  BY DEF Options
<1>2. ASSUME NEW d \in Options(s, i)
      PROVE  Weigh(s, i, d) \in Weights
  <2> DEFINE p == Neighbour(HeadOf(s.snakes[i]), d)
  <2>1. p \in Cells
    BY DEF Options
  <2> HIDE DEF p
  <2>2. NearestFood(s, p) \in Int /\ OpenRoom(p, Blocked(s)) \in Int
    BY <2>1, NearestFoodIs, OpenRoomIs
  <2>3. Rank[d] \in 0 .. 3
    BY <1>1 DEF Rank, Directions
  <2>4. (p \in Contested(s, i)) \in BOOLEAN
    OBVIOUS
  <2>5. Weigh(s, i, d) = [risky |-> p \in Contested(s, i), distance |-> NearestFood(s, p),
                          room |-> OpenRoom(p, Blocked(s)), rank |-> Rank[d]]
    BY DEF Weigh, p
  <2> QED
    BY <2>2, <2>3, <2>4, <2>5 DEF Weights
<1>3. weight \in [Options(s, i) -> Weights] /\ DOMAIN weight = Options(s, i)
  BY <1>2
<1> HIDE DEF weight
<1>4. \E d \in Options(s, i) : \A e \in Options(s, i) : Preferred(weight[d], weight[e])
  BY <1>1, <1>3, BestOption
<1>5. ChooseDirection(s, i) = CHOOSE d \in Options(s, i) :
                                \A e \in Options(s, i) : Preferred(weight[d], weight[e])
  BY <1>3, Zenon DEF ChooseDirection, weight
<1> QED
  BY <1>4, <1>5

\* A bot that keeps away from where other heads can arrive survives the move: what it
\* takes for blocked is what the simulation takes for solid.
THEOREM BotsSurvive == Spec => []BotSurvives
<1>1. ASSUME IInv, Unturned, ~ sim.over, NEW i \in Living(sim),
             ~ sim.snakes[i].coasting, Options(sim, i) # {},
             NEW d, d = ChooseDirection(sim, i),
             Neighbour(HeadOf(sim.snakes[i]), d) \notin Contested(sim, i),
             NEW s \in OthersTurned(Turned(sim, i, d), i)
      PROVE  ~ Dies(s, i)
  <2> DEFINE sn == sim.snakes[i]
             t  == Turned(sim, i, d)
             to == Neighbour(HeadOf(sn), d)
  <2>1. /\ Kept(sim) /\ wrap \in BOOLEAN /\ sim \in Sims /\ i \in Seats /\ sn.alive
        /\ sn.pending = NoTurn
    <3>1. Kept(sim) /\ wrap \in BOOLEAN /\ sim \in Sims
      BY <1>1 DEF IInv, Kept, Standing
    <3>2. i \in Seats /\ sn.alive
      BY <3>1, LivingSeats
    <3> QED
      BY <1>1, <3>1, <3>2 DEF Unturned
  <2>2. d \in Options(sim, i)
    BY <1>1, <2>1, ChoosesOption
  <2>3. d \in Directions /\ d # Opposite[sn.dir] /\ to \in Cells /\ to \notin Blocked(sim)
    <3>1. Len(sn.body) > 1
      <4>1. Len(sn.body) \in Nat /\ Len(sn.body) >= 3
        BY <2>1, KeptSnake
      <4> QED
        BY <4>1
    <3> QED
      BY <2>2, <3>1 DEF Options
  <2>4. t = [sim EXCEPT !.snakes[i].pending = d]
    BY <1>1, <2>3 DEF Turned
  <2>5. /\ Kept(sim) /\ i \in Seats /\ d \in Directions
        /\ sim.snakes[i].pending = NoTurn /\ ~ sim.snakes[i].coasting
    BY <1>1, <2>1, <2>3
  <2>6. /\ t \in Sims /\ \A j \in Seats : j # i => t.snakes[j] = sim.snakes[j]
        /\ t.snakes[i].body = sn.body /\ t.snakes[i].alive = sn.alive
        /\ t.snakes[i].grow = sn.grow /\ Heading(t.snakes[i]) = d
    <3>1. t \in Sims
      BY <2>5, TurnedIs
    <3>2. ASSUME NEW j \in Seats, j # i
          PROVE  t.snakes[j] = sim.snakes[j]
      BY <2>5, <3>2, TurnedIs
    <3>3. t.snakes[i].body = sn.body /\ t.snakes[i].grow = sn.grow
      BY <2>5, TurnedIs
    <3>4. t.snakes[i].alive = sn.alive
      BY <2>5, TurnedIs
    <3>5. Heading(t.snakes[i]) = IF d = Opposite[sn.dir] THEN sn.dir ELSE d
      BY <2>5, TurnedIs
    <3> QED
      BY <2>3, <3>1, <3>2, <3>3, <3>4, <3>5
  <2> HIDE DEF t
  <2>7. PICK turn \in [Seats -> Directions] :
          s = [t EXCEPT !.snakes = [j \in Seats |->
                 IF j = i \/ ~ t.snakes[j].alive THEN t.snakes[j]
                 ELSE [t.snakes[j] EXCEPT !.pending = turn[j]]]]
    BY <1>1 DEF OthersTurned, t
  <2>8. /\ s.snakes = [j \in Seats |->
                 IF j = i \/ ~ t.snakes[j].alive THEN t.snakes[j]
                 ELSE [t.snakes[j] EXCEPT !.pending = turn[j]]]
    BY <2>6, <2>7 DEF Sims
  <2>9. s.snakes[i] = t.snakes[i]
    BY <2>1, <2>8
  <2>10. ASSUME NEW j \in Seats
         PROVE  /\ s.snakes[j].body = sim.snakes[j].body
                /\ s.snakes[j].grow = sim.snakes[j].grow
                /\ s.snakes[j].alive <=> sim.snakes[j].alive
                /\ Heading(s.snakes[j]) \in Directions
    <3>1. CASE j = i
      BY <2>3, <2>6, <2>9, <3>1
    <3>2. CASE j # i
      <4>1. t.snakes[j] = sim.snakes[j] /\ t.snakes[j] \in Snakes
        BY <2>6, <3>2 DEF Sims
      <4> DEFINE new == [t.snakes[j] EXCEPT !.pending = turn[j]]
      <4>2. /\ new \in Snakes /\ new.body = t.snakes[j].body /\ new.grow = t.snakes[j].grow
            /\ new.alive = t.snakes[j].alive
        BY <4>1 DEF Snakes
      <4>3. s.snakes[j] = t.snakes[j] \/ s.snakes[j] = new
        BY <2>8, Zenon
      <4> HIDE DEF new
      <4>4. Heading(new) \in Directions /\ Heading(t.snakes[j]) \in Directions
        BY <4>1, <4>2, SnakeParts
      <4> QED
        BY <4>1, <4>2, <4>3, <4>4
    <3> QED
      BY <3>1, <3>2
  <2>11. Living(s) = Living(sim) /\ Living(sim) \subseteq Seats
    <3>1. DOMAIN s.snakes = Seats
      BY <2>8
    <3>2. Living(s) = {j \in Seats : s.snakes[j].alive}
      BY <3>1 DEF Living
    <3>3. Living(sim) \subseteq Seats /\ \A j \in Seats : j \in Living(sim) <=> sim.snakes[j].alive
      BY <2>1, LivingSeats
    <3> QED
      BY <2>10, <3>2, <3>3
  <2>12. Ahead(s.snakes[i]) = to
    BY <2>6, <2>9 DEF Ahead, HeadOf, Neighbour
  <2>13. ~ HeadOn(s, i)
    <3>1. SUFFICES ASSUME NEW j \in Living(s) \ {i}, Ahead(s.snakes[j]) = to
                   PROVE  FALSE
      BY <2>12 DEF HeadOn
    <3>2. j \in Living(sim) \ {i} /\ j \in Seats
      BY <2>11
    <3>3. Ahead(s.snakes[j]) = Neighbour(HeadOf(sim.snakes[j]), Heading(s.snakes[j]))
      BY <2>10, <3>2 DEF Ahead, HeadOf, Neighbour
    <3>4. Heading(s.snakes[j]) \in Directions
      BY <2>10, <3>2
    <3>5. to \in Contested(sim, i)
      BY <3>1, <3>2, <3>3, <3>4 DEF Contested
    <3> QED
      BY <1>1, <3>5
  <2>14. Owners(s, i) = {}
    <3>1. SUFFICES ASSUME NEW j \in Living(s), to \in Solid(s.snakes[j])
                   PROVE  FALSE
      BY <2>12 DEF Owners
    <3>2. j \in Living(sim) /\ j \in Seats
      BY <2>11
    <3>3. Solid(s.snakes[j]) = Solid(sim.snakes[j])
      BY <2>10, <3>2 DEF Solid
    <3>4. to \in Blocked(sim)
      BY <3>1, <3>2, <3>3 DEF Blocked
    <3> QED
      BY <2>3, <3>4
  <2> QED
    BY <2>3, <2>12, <2>13, <2>14 DEF Dies
<1>2. IInv => BotSurvives
  BY <1>1, Zenon DEF BotSurvives
<1> QED
  BY <1>2, Inductive, PTL
=============================================================================
