------------------------------ MODULE SnakeSim ------------------------------
(***************************************************************************)
(* The rules of the game, src/internal/game/sim.go, spawn.go and types.go: *)
(* the authoritative simulation of one match.                              *)
(*                                                                         *)
(* The host's goroutine is its only user, so a Sim is one value and each   *)
(* exported method one action.  Where the code draws a random cell any     *)
(* free cell may be drawn.  Per-tick events, which only animate, are left  *)
(* out, and so are player names and everything a record adds.              *)
(***************************************************************************)
EXTENDS Integers, Sequences, FiniteSets, FiniteSetsExt, SequencesExt

CONSTANTS
  Width, Height,  \* of the arena
  NumSnakes,      \* seats 0 .. NumSnakes - 1 play
  FoodCount,      \* pellets kept on the board
  TicksPerMove,
  Steered,        \* bound: seats that ask for turns, the others go straight on
  Unsteady,       \* seats whose connection may drop
  MaxTick         \* bound: ticks of a match, after which nothing is looked at

ASSUME SimAssumption ==
  /\ Width \in Nat /\ Width >= 4 /\ Height \in Nat /\ Height >= 4
  /\ NumSnakes \in 1 .. 8     \* game.MaxPlayers
  /\ FoodCount \in Nat /\ TicksPerMove \in Nat \ {0}
  /\ Steered \union Unsteady \subseteq 0 .. NumSnakes - 1
  /\ MaxTick \in Nat

Seats == 0 .. NumSnakes - 1

VARIABLES
  sim,
  wrap   \* whether the edges of the arena join: of Config, for a whole match

vars == <<sim, wrap>>
-----------------------------------------------------------------------------
(***************************************************************************)
(* Points, headings, arena.                                                *)
(***************************************************************************)
Directions == {"up", "right", "down", "left"}
NoTurn == "none"      \* hasPending is false
NotDead == -1         \* DiedAtTick of the living

Delta == [up |-> <<0, -1>>, right |-> <<1, 0>>, down |-> <<0, 1>>, left |-> <<-1, 0>>]
Opposite == [up |-> "down", right |-> "left", down |-> "up", left |-> "right"]

Cells == (0 .. Width - 1) \X (0 .. Height - 1)
Fold(p) == <<p[1] % Width, p[2] % Height>>

\* The cell n cells from p in direction d.
Along(p, d, n) == <<p[1] + n * Delta[d][1], p[2] + n * Delta[d][2]>>

StartLength == 3

\* Where the head of snake sn goes next, inside the arena or not.
HeadOf(sn) == sn.body[1]
Heading(sn) == IF sn.pending # NoTurn THEN sn.pending ELSE sn.dir
Ahead(sn) == LET p == Along(HeadOf(sn), Heading(sn), 1) IN IF wrap THEN Fold(p) ELSE p

Living(s) == {i \in DOMAIN s.snakes : s.snakes[i].alive}
Occupied(s) == UNION {ToSet(s.snakes[i].body) : i \in Living(s)}
-----------------------------------------------------------------------------
(***************************************************************************)
(* Spawning: heads on a circle around the middle, bodies behind them.      *)
(***************************************************************************)
Short == IF Width < Height THEN Width ELSE Height

\* The cosine of three right angles comes out below zero, by so little that only a
\* sum with a number that is not too great shows it.
Hair ==
  IF \A k \in 0 .. 6 : 2^(k + 1) <= Width - 1 => 100 * Short > 159 * 2^k THEN -1 ELSE 0

\* cos and sin of the k-th of n equal angles in float64, in units of 10^-5; a last
\* digit of 1 stands for a value whose last bit decides how a half is rounded.
Cosine == <<
  <<100000>>, <<100000, -100000>>, <<100000, -50000, -50001>>, <<100000, 0, -100000, Hair>>,
  <<100000, 30902, -80902, -80902, 30902>>, <<100000, 50000, -50000, -100000, -50001, 50000>>,
  <<100000, 62349, -22252, -90097, -90097, -22252, 62349>>,
  <<100000, 70711, 0, -70711, -100000, -70711, Hair, 70711>> >>
Sine == <<
  <<0>>, <<0, 0>>, <<0, 86603, -86603>>, <<0, 100000, 0, -100000>>,
  <<0, 95106, 58779, -58779, -95106>>, <<0, 86603, 86603, 0, -86603, -86603>>,
  <<0, 78183, 97493, 43388, -43388, -97493, -78183>>,
  <<0, 70711, 100000, 70711, 0, -70711, -100000, -70711>> >>

\* The cardinal direction nearest to the tangent at each of those angles.
Tangent == <<
  <<"down">>, <<"down", "up">>, <<"down", "left", "right">>, <<"down", "left", "up", "right">>,
  <<"down", "left", "up", "up", "right">>, <<"down", "left", "left", "up", "right", "right">>,
  <<"down", "left", "left", "up", "up", "right", "right">>,
  <<"down", "down", "left", "left", "up", "up", "right", "right">> >>

\* radius 0.38 of the shorter side around the middle of 0 .. side - 1,
\* rounded half up, one cell off the edge at least.
OnCircle(side, c) ==
  LET at == (10000000 * (side - 1) + 76 * Short * c + 10000000) \div 20000000
  IN  Max({1, Min({side - 2, at})})

Trail(p, d) == [k \in 1 .. StartLength |-> Along(p, Opposite[d], k - 1)]

\* The first run of free cells in reading order.
ClearRuns(d, taken) ==
  {p \in (1 .. Width - 2) \X (1 .. Height - 2) :
     ToSet(Trail(p, d)) \subseteq Cells \ taken}
ReadsFirst(p, q) == p[2] < q[2] \/ (p[2] = q[2] /\ p[1] <= q[1])

SpawnBody(k, taken) ==
  LET p    == <<OnCircle(Width, Cosine[NumSnakes][k]), OnCircle(Height, Sine[NumSnakes][k])>>
      t    == Tangent[NumSnakes][k]
      d    == IF Along(p, Opposite[t], StartLength - 1) \in Cells THEN t ELSE Opposite[t]
      body == [j \in 1 .. StartLength |-> Fold(Trail(p, d)[j])]
      runs == ClearRuns(d, taken)
  IN  [dir |-> d,
       body |-> IF ToSet(body) \intersect taken = {} \/ runs = {} THEN body
                ELSE Trail(CHOOSE q \in runs : \A r \in runs : ReadsFirst(q, r), d)]

NewSnake(spawn) ==
  [body |-> spawn.body, dir |-> spawn.dir, alive |-> TRUE, coasting |-> FALSE,
   grow |-> 0, score |-> 0, kills |-> 0, maxLength |-> StartLength,
   died |-> NotDead, place |-> 0, pending |-> NoTurn]

\* Seats are placed in order, each off the bodies already there.
Spawned ==
  LET placed[k \in 0 .. NumSnakes] ==
        IF k = 0 THEN <<>>
        ELSE LET before == placed[k - 1]
                 taken  == UNION {ToSet(before[j].body) : j \in 1 .. k - 1}
             IN  Append(before, NewSnake(SpawnBody(k, taken)))
  IN  [i \in Seats |-> placed[NumSnakes][i + 1]]
-----------------------------------------------------------------------------
(***************************************************************************)
(* The end of a match.                                                     *)
(***************************************************************************)
\* Whether seat i is ranked above seat j.
Outranks(s, i, j) ==
  LET a == s.snakes[i]  b == s.snakes[j]
  IN  CASE a.alive # b.alive -> a.alive
        [] ~ a.alive /\ ~ b.alive /\ i # j -> s.deathIndex[i] > s.deathIndex[j]
        [] OTHER -> a.maxLength > b.maxLength \/ (a.maxLength = b.maxLength /\ i < j)

AssignPlacements(s) ==
  [s EXCEPT !.snakes = [i \in Seats |->
     [@[i] EXCEPT !.place = 1 + Cardinality({j \in Seats \ {i} : Outranks(s, j, i)})]]]

\* Decided once: the last snake of several, or the death of a lone one.
CheckOver(s) ==
  IF s.over \/ Cardinality(Living(s)) > (IF NumSnakes > 1 THEN 1 ELSE 0) THEN s
  ELSE AssignPlacements([s EXCEPT !.over = TRUE])

\* The seats of S die in seat order.  The order of deaths is kept as the index that
\* each of the dead has in it, all that assignPlacements asks of it.
Kill(s, S) ==
  LET dead == Cardinality(Seats \ Living(s))
  IN  [s EXCEPT !.snakes = [i \in Seats |->
                  IF i \in S THEN [@[i] EXCEPT !.alive = FALSE, !.died = s.tick] ELSE @[i]],
                !.deathIndex = [i \in Seats |->
                  IF i \in S THEN dead + Cardinality({j \in S : j < i}) ELSE @[i]]]
-----------------------------------------------------------------------------
(***************************************************************************)
(* One movement of all living snakes, decided against the world before it. *)
(***************************************************************************)
\* The tail of a snake that is not growing is about to vacate its cell.
Solid(sn) ==
  {sn.body[k] : k \in {k \in DOMAIN sn.body : k < Len(sn.body) \/ sn.grow > 0}}

\* Fault: of two heads that meet the one in the earlier seat survives.
HeadOnForLater(s, i) == \E j \in Living(s) : j < i /\ Ahead(s.snakes[j]) = Ahead(s.snakes[i])

\* Snakes whose heads would meet in one cell.
HeadOn(s, i) == \E j \in Living(s) \ {i} : Ahead(s.snakes[j]) = Ahead(s.snakes[i])

Owners(s, i) == {j \in Living(s) : Ahead(s.snakes[i]) \in Solid(s.snakes[j])}

Dies(s, i) ==
  Ahead(s.snakes[i]) \notin Cells \/ HeadOn(s, i) \/ Owners(s, i) # {}
Doomed(s) == {i \in Living(s) : Dies(s, i)}

\* The snake whose body i ran into, unless it was its own: of several bodies in
\* a cell the last one in seat order was entered in the map.
Killers(s, i) ==
  IF Ahead(s.snakes[i]) \notin Cells \/ HeadOn(s, i) \/ Owners(s, i) = {} THEN {}
  ELSE {Max(Owners(s, i))} \ {i}

Move(sn, eats) ==
  LET grow == IF eats THEN sn.grow + 2 ELSE sn.grow
      long == <<Ahead(sn)>> \o sn.body
      body == IF grow > 0 THEN long ELSE SubSeq(long, 1, Len(sn.body))
  IN  [sn EXCEPT !.body = body, !.dir = Heading(sn), !.pending = NoTurn,
                 !.grow = IF grow > 0 THEN grow - 1 ELSE 0,
                 !.score = IF eats THEN @ + 1 ELSE @,
                 !.maxLength = Max({@, Len(body)})]

\* Survivors move and eat, the doomed turn, and killers are credited.
Advance(s) ==
  LET doomed == Doomed(s)
      eaters == {i \in Living(s) \ doomed : Ahead(s.snakes[i]) \in s.food}
      moved  == [i \in Seats |->
                   LET sn == s.snakes[i]
                   IN  IF i \in doomed THEN [sn EXCEPT !.dir = Heading(sn), !.pending = NoTurn]
                       ELSE IF sn.alive THEN Move(sn, i \in eaters)
                       ELSE sn]
      credit == [i \in Seats |-> Cardinality({j \in doomed : i \in Killers(s, j)})]
  IN  Kill([s EXCEPT !.snakes = [i \in Seats |-> [moved[i] EXCEPT !.kills = @ + credit[i]]],
                     !.food = @ \ {Ahead(s.snakes[i]) : i \in eaters}],
           doomed)

\* The sets of n elements of S.
SetsOf(n, S) ==
  {F \in {{pick[k] : k \in 1 .. n} : pick \in [1 .. n -> S]} : Cardinality(F) = n}

\* Pellets appear on free cells until the configured number lies there.
Replenished(s) ==
  LET free == Cells \ (Occupied(s) \union s.food)
      need == FoodCount - Cardinality(s.food)
      n    == IF need < 0 THEN 0 ELSE Min({need, Cardinality(free)})
  IN  {[s EXCEPT !.food = @ \union F] : F \in SetsOf(n, free)}
-----------------------------------------------------------------------------
(***************************************************************************)
(* The methods the host calls.                                             *)
(***************************************************************************)
New ==
  Replenished([snakes |-> Spawned, food |-> {}, tick |-> 0, over |-> FALSE,
               deathIndex |-> [i \in Seats |-> 0]])

Init == wrap \in BOOLEAN /\ sim \in New

\* Fault: a turn is compared with the turn queued before it.
SetDirectionAfterPending(i, d) ==
  LET sn == sim.snakes[i]
  IN  /\ sn.alive /\ ~ sn.coasting
      /\ ~ (Len(sn.body) > 1 /\ d = Opposite[Heading(sn)])
      /\ sim' = [sim EXCEPT !.snakes[i].pending = d]

\* The last turn before a move counts; a reversal is ignored.
SetDirection(i, d) ==
  LET sn == sim.snakes[i]
  IN  /\ sn.alive /\ ~ sn.coasting
      /\ ~ (Len(sn.body) > 1 /\ d = Opposite[sn.dir])
      /\ sim' = [sim EXCEPT !.snakes[i].pending = d]

SetCoasting(i, coasting) ==
  sim' = [sim EXCEPT !.snakes[i].coasting = coasting,
                     !.snakes[i].pending = IF coasting THEN NoTurn ELSE @]

\* Fault: a forfeit is not followed by a look at who is left.
EliminateOnly(i) ==
  /\ sim.snakes[i].alive
  /\ sim' = Kill(sim, {i})

Eliminate(i) ==
  /\ sim.snakes[i].alive
  /\ sim' = CheckOver(Kill(sim, {i}))

\* Most ticks only count; snakes move on every TicksPerMove-th.
Step ==
  LET ticked == [sim EXCEPT !.tick = @ + 1]
  IN  IF sim.over \/ ticked.tick % TicksPerMove # 0
      THEN sim' = ticked
      ELSE \E s \in Replenished(Advance(ticked)) : sim' = CheckOver(s)

Next ==
  /\ sim.tick < MaxTick
  /\ \/ \E i \in Steered, d \in Directions : SetDirection(i, d)
     \/ \E i \in Unsteady, coasting \in BOOLEAN : SetCoasting(i, coasting)
     \/ \E i \in Unsteady : Eliminate(i)
     \/ Step
  /\ UNCHANGED wrap

Spec == Init /\ [][Next]_vars
-----------------------------------------------------------------------------
(***************************************************************************)
(* What the rules promise.                                                 *)
(***************************************************************************)
Snakes ==
  [body : Seq(Cells), dir : Directions, alive : BOOLEAN, coasting : BOOLEAN,
   grow : Nat, score : Nat, kills : Nat, maxLength : Nat,
   died : Nat \union {NotDead}, place : 0 .. NumSnakes,
   pending : Directions \union {NoTurn}]

\* The values a Sim takes; bodies and pellets stay inside the arena.
Sims ==
  [snakes : [Seats -> Snakes], food : SUBSET Cells, tick : Nat, over : BOOLEAN,
   deathIndex : [Seats -> Nat]]
TypeOK == sim \in Sims /\ wrap \in BOOLEAN

Adjacent(p, q) == \E d \in Directions : q \in {Along(p, d, 1), Fold(Along(p, d, 1))}

\* A body stays one chain of cells that starts behind the heading, however many
\* turns were pressed between two moves: no snake skips a cell or turns back
\* into its own neck.
BodiesHold ==
  \A i \in Seats : LET sn == sim.snakes[i] IN
    /\ \A k \in 1 .. Len(sn.body) - 1 : Adjacent(sn.body[k], sn.body[k + 1])
    /\ sn.alive => /\ Fold(Along(sn.body[2], sn.dir, 1)) = sn.body[1]
                   /\ sn.pending # Opposite[sn.dir]

\* Every segment is accounted for: what a snake is long and has yet to grow is
\* its first length and two for each pellet it ate, and its longest length, which
\* the record keeps, is the length it has.
GrowthAccounted ==
  \A i \in Seats : LET sn == sim.snakes[i] IN
    /\ Len(sn.body) + sn.grow = StartLength + 2 * sn.score
    /\ sn.maxLength = Len(sn.body)

\* Which seat's snake is put into each seat.
Exchanges == Bijection(Seats, Seats)

\* Two bodies lie in the cell that a snake drives into.
Disputed(s) == \E j \in Doomed(s) : Cardinality(Owners(s, j)) > 1

\* No seat has an advantage: however the snakes are seated, the next move makes of
\* each what it makes of it here, and the same pellets are eaten.  Only whom a kill is
\* counted for may depend on the seats, where two bodies lie in one cell, and always
\* the order of deaths of one tick, which is kept beside the snakes.
NoSeatAdvantage ==
  LET here == Advance(sim) IN
  \A seat \in Exchanges :
    LET there == Advance([sim EXCEPT !.snakes = [i \in Seats |-> @[seat[i]]]])
    IN  /\ there.food = here.food
        /\ \A i \in Seats : LET a == there.snakes[i]  b == here.snakes[seat[i]] IN
             /\ a = [b EXCEPT !.kills = a.kills]
             /\ a.kills = b.kills \/ Disputed(sim)

Died == Living(sim) \ Living(sim')

\* Every kill is earned: it counts a death of another living snake, one that drove
\* into the body and met no head there, and no death is counted twice.  In by, a
\* snake whose death counts for nobody stands for itself.
KillsEarned ==
  [][\E by \in [Died -> Living(sim)] :
       /\ \A j \in Died : by[j] # j =>
            /\ Ahead(sim.snakes[j]) \in ToSet(sim.snakes[by[j]].body)
            /\ ~ HeadOn(sim, j)
       /\ \A i \in Seats :
            sim'.snakes[i].kills =
              sim.snakes[i].kills + Cardinality({j \in Died \ {i} : by[j] = i})]_sim

\* The match is over exactly when one snake of several or none is left, also
\* when the last opponent left between two ticks; and the result ranks every
\* snake, each place once, later deaths above earlier ones.
ResultRanks ==
  /\ sim.over <=> Cardinality(Living(sim)) <= IF NumSnakes > 1 THEN 1 ELSE 0
  /\ ~ sim.over => \A i \in Seats : sim.snakes[i].place = 0
  /\ sim.over =>
       /\ {sim.snakes[i].place : i \in Seats} = 1 .. NumSnakes
       /\ \A i, j \in Seats : LET a == sim.snakes[i]  b == sim.snakes[j] IN
            (a.alive /\ ~ b.alive) \/ (~ a.alive /\ ~ b.alive /\ a.died > b.died)
              => a.place < b.place

\* A result is final: a leaver, a turn or a tick after the end changes no place,
\* no score and no kill.
ResultFinal ==
  [][sim.over => \A i \in Seats :
       /\ sim'.snakes[i].place = sim.snakes[i].place
       /\ sim'.snakes[i].score = sim.snakes[i].score
       /\ sim'.snakes[i].kills = sim.snakes[i].kills]_sim

-----------------------------------------------------------------------------
(***************************************************************************)
(* What comments and README say and the code does not do.                  *)
(***************************************************************************)
\* Bodies are obstacles, and the tail of a growing snake does not vacate: so
\* living snakes never lie in one cell.
BodiesApart ==
  \A i, j \in Living(sim) :
    i # j => ToSet(sim.snakes[i].body) \intersect ToSet(sim.snakes[j].body) = {}

\* Of two snakes that die in one move the longer is ranked above the other.
TiesGoToTheLonger ==
  sim.over => \A i, j \in Seats : LET a == sim.snakes[i]  b == sim.snakes[j] IN
    ~ a.alive /\ ~ b.alive /\ a.died = b.died /\ a.maxLength > b.maxLength
      => a.place < b.place

\* Two snakes that drive into each other's heads are credited nothing.
HeadOnCreditsNobody ==
  [][\A i, j \in Living(sim) :
       /\ i # j
       /\ Ahead(sim.snakes[i]) = HeadOf(sim.snakes[j])
       /\ Ahead(sim.snakes[j]) = HeadOf(sim.snakes[i])
       /\ ~ sim'.snakes[i].alive /\ ~ sim'.snakes[j].alive
       => sim'.snakes[i].kills = sim.snakes[i].kills]_sim
=============================================================================
