------------------------------ MODULE Steering ------------------------------
(***************************************************************************)
(* Two functions that guess what SnakeSim will do: the bot's policy,       *)
(* src/internal/game/bot.go, and the prediction a client draws until the   *)
(* host's next state arrives, src/internal/game/predict.go.                *)
(*                                                                         *)
(* Both repeat rules of the simulation (vacating tails, folding edges,     *)
(* refused reversals) in code of their own; the properties hold the copies *)
(* against the original in every state of a match.                         *)
(***************************************************************************)
EXTENDS SnakeSim
-----------------------------------------------------------------------------
(***************************************************************************)
(* The bot.                                                                *)
(***************************************************************************)
\* A state carries no queued turns: they are private to the simulation.
Neighbour(p, d) == LET q == Along(p, d, 1) IN IF wrap THEN Fold(q) ELSE q

\* Fault: every tail is taken for an obstacle that stays, except one's own.
BlockedByGrowing(s) ==
  UNION {ToSet(SubSeq(s.snakes[i].body, 1, Len(s.snakes[i].body) - 1)) : i \in Living(s)}

Blocked(s) == UNION {Solid(s.snakes[i]) : i \in Living(s)}

\* Cells another head may reach in the same move.
Contested(s, i) ==
  {Neighbour(HeadOf(s.snakes[j]), d) : j \in Living(s) \ {i}, d \in Directions}

\* Directions the simulation accepts that are not fatal at once.
Options(s, i) ==
  LET sn == s.snakes[i]
  IN  {d \in Directions :
         /\ ~ (Len(sn.body) > 1 /\ d = Opposite[sn.dir])
         /\ Neighbour(HeadOf(sn), d) \in Cells \ Blocked(s)}

Apart(a, b, side) ==
  LET gap == IF a < b THEN b - a ELSE a - b
  IN  IF wrap THEN Min({gap, side - gap}) ELSE gap
Distance(p, q) == Apart(p[1], q[1], Width) + Apart(p[2], q[2], Height)

\* Further than any pellet.
NoFood == 2 ^ 30
NearestFood(s, p) == Min({Distance(p, f) : f \in s.food} \union {NoFood})

\* The cells a flood fill from p reaches; it stops counting at Budget.
Budget == 24
OpenRoom(p, blocked) ==
  LET spread(S) ==
        S \union (({Neighbour(q, d) : q \in S, d \in Directions} \intersect Cells) \ blocked)
      fill[S \in SUBSET Cells] ==
        LET wider == spread(S)
        IN  IF wider = S \/ Cardinality(S) >= Budget THEN S ELSE fill[wider]
  IN  Min({Budget, Cardinality(Cells \intersect fill[{p}])})

Rank == [up |-> 0, right |-> 1, down |-> 2, left |-> 3]

Weigh(s, i, d) ==
  LET p == Neighbour(HeadOf(s.snakes[i]), d)
  IN  [risky |-> p \in Contested(s, i), distance |-> NearestFood(s, p),
       room |-> OpenRoom(p, Blocked(s)), rank |-> Rank[d]]

\* Keep away from heads, then go for food, then for open space.
Preferred(a, b) ==
  \/ b.risky /\ ~ a.risky
  \/ /\ a.risky = b.risky
     /\ \/ a.distance < b.distance
        \/ a.distance = b.distance /\ a.room > b.room
        \/ a.distance = b.distance /\ a.room = b.room /\ a.rank <= b.rank

\* A cornered bot goes straight on.
ChooseDirection(s, i) ==
  LET weight == [d \in Options(s, i) |-> Weigh(s, i, d)]
  IN  IF DOMAIN weight = {} THEN s.snakes[i].dir
      ELSE CHOOSE d \in DOMAIN weight : \A e \in DOMAIN weight : Preferred(weight[d], weight[e])
-----------------------------------------------------------------------------
(***************************************************************************)
(* The prediction.                                                         *)
(***************************************************************************)
\* Fault: a reversal is drawn though the host will refuse it.
PredictReversing(s, i, d) ==
  LET sn   == s.snakes[i]
      head == Along(HeadOf(sn), d, 1)
      to   == IF wrap THEN Fold(head) ELSE head
  IN  IF s.over \/ ~ sn.alive \/ sn.coasting THEN sn
      ELSE IF to \notin Cells THEN [sn EXCEPT !.dir = d]
      ELSE [sn EXCEPT !.dir = d, !.body = <<to>> \o SubSeq(@, 1, Len(@) - 1)]

\* The snake one move on, if nothing is in its way; in front of a wall it only
\* turns.
Predict(s, i, d) ==
  LET sn   == s.snakes[i]
      turn == IF Len(sn.body) > 1 /\ d = Opposite[sn.dir] THEN sn.dir ELSE d
      head == Along(HeadOf(sn), turn, 1)
      to   == IF wrap THEN Fold(head) ELSE head
  IN  IF s.over \/ ~ sn.alive \/ sn.coasting THEN sn
      ELSE IF to \notin Cells THEN [sn EXCEPT !.dir = turn]
      ELSE [sn EXCEPT !.dir = turn, !.body = <<to>> \o SubSeq(@, 1, Len(@) - 1)]
-----------------------------------------------------------------------------
(***************************************************************************)
(* What the guesses are worth.                                             *)
(***************************************************************************)
\* The turns of seat i and of all others are quantified over, so the questions
\* are asked of states in which none is queued.
Unturned == \A i \in Seats : sim.snakes[i].pending = NoTurn

\* The state after seat i asked for a turn.
Turned(s, i, d) ==
  LET sn == s.snakes[i]
  IN  IF sn.coasting \/ d = Opposite[sn.dir] THEN s
      ELSE [s EXCEPT !.snakes[i].pending = d]

\* The states after everybody but seat i asked for a turn.
OthersTurned(s, i) ==
  {[s EXCEPT !.snakes = [j \in Seats |->
      IF j = i \/ ~ @[j].alive THEN @[j] ELSE [@[j] EXCEPT !.pending = turn[j]]]] :
   turn \in {t \in [Seats -> Directions] :
               \A j \in Seats : t[j] # Opposite[s.snakes[j].dir]}}

\* A bot that can go where no other head can arrive survives the move, whatever
\* the others press: neither a growing tail nor an edge surprises it.
BotSurvives ==
  Unturned /\ ~ sim.over => \A i \in Living(sim) :
    LET d == ChooseDirection(sim, i) IN
    /\ ~ sim.snakes[i].coasting
    /\ Options(sim, i) # {}
    /\ Neighbour(HeadOf(sim.snakes[i]), d) \notin Contested(sim, i)
    => \A s \in OthersTurned(Turned(sim, i, d), i) : ~ Dies(s, i)

\* What a client draws is what the host then decides, as long as the snake lives
\* and does not grow.
PredictionHolds ==
  Unturned /\ ~ sim.over => \A i \in Living(sim), d \in Directions :
    LET s     == Turned(sim, i, d)
        drawn == Predict(sim, i, d)
        moved == Advance(s).snakes[i]
    IN  ~ sim.snakes[i].coasting /\ ~ Dies(s, i) =>
          /\ drawn.dir = moved.dir
          /\ HeadOf(drawn) = HeadOf(moved)
          /\ Len(drawn.body) = Len(moved.body) => drawn.body = moved.body
=============================================================================
