---------------------------- MODULE OutboxProofs ----------------------------
(***************************************************************************)
(* What holds of Outbox for any number of clients, depth of an outbox and  *)
(* number of frames: no outbox outgrows its channel, no client sees a      *)
(* frame after a newer one, and the current roster is on its way to        *)
(* everybody when a handler is done.                                       *)
(*                                                                         *)
(* A frame passes through three places, the agenda of the handler that     *)
(* sends it, the outbox, and the client's screen.  The invariant orders    *)
(* them: Flow says that what an outbox holds lies between what the client  *)
(* saw last and the newest frame, and Due that a frame still to be sent is *)
(* that newest one, that its outbox has only older ones, that nobody is    *)
(* sent it twice, and that no board is shown before it is sent.            *)
(***************************************************************************)
EXTENDS Outbox, Functions, FiniteSetTheorems, SequenceTheorems, TLAPS

-----------------------------------------------------------------------------
(***************************************************************************)
(* The rank of a member of a finite set of numbers, how many members are   *)
(* below it, tells where it stands when the set is listed in order.        *)
(***************************************************************************)
Below(S, i) == {j \in S : j < i}
Rank(S) == [i \in S |-> Cardinality(Below(S, i))]

\* There are n numbers below n.
LEMMA CountBelow ==
  ASSUME NEW n \in Nat
  PROVE  IsFiniteSet(0 .. n - 1) /\ Cardinality(0 .. n - 1) = n
<1>1. 0 \in Int /\ n - 1 \in Int
  OBVIOUS
<1>2. /\ IsFiniteSet(0 .. n - 1)
      /\ Cardinality(0 .. n - 1) = IF 0 > n - 1 THEN 0 ELSE n - 1 - 0 + 1
  BY <1>1, FS_Interval
<1> QED
  BY <1>2

\* A member that is higher has more below it, and none has all of them.
LEMMA RanksGrow ==
  ASSUME NEW S \in SUBSET Nat, IsFiniteSet(S)
  PROVE  /\ Cardinality(S) \in Nat
         /\ \A i \in S : Rank(S)[i] \in 0 .. Cardinality(S) - 1
         /\ \A i, k \in S : i < k => Rank(S)[i] < Rank(S)[k]
<1>1. Cardinality(S) \in Nat
  BY FS_CardinalityType
<1>2. ASSUME NEW i \in S
      PROVE  /\ IsFiniteSet(Below(S, i)) /\ Cardinality(Below(S, i)) \in Nat
             /\ Cardinality(Below(S, i)) < Cardinality(S)
  <2>1. i \in Nat
    OBVIOUS
  <2>2. Below(S, i) \in SUBSET S /\ i \notin Below(S, i)
    BY <2>1 DEF Below
  <2>3. /\ IsFiniteSet(Below(S, i)) /\ Cardinality(Below(S, i)) <= Cardinality(S)
        /\ Cardinality(S) = Cardinality(Below(S, i)) => S = Below(S, i)
    BY <2>2, FS_Subset
  <2>4. Cardinality(Below(S, i)) \in Nat
    BY <2>3, FS_CardinalityType
  <2> QED
    BY <1>1, <2>2, <2>3, <2>4
<1>3. ASSUME NEW i \in S, NEW k \in S, i < k
      PROVE  Cardinality(Below(S, i)) < Cardinality(Below(S, k))
  <2>1. i < k /\ \A j \in S : j \in Nat
    BY <1>3
  <2>2. (\A j \in S : j < i => j < k) /\ ~ (i < i)
    BY <2>1
  <2>3. /\ Below(S, i) \in SUBSET Below(S, k) /\ i \in Below(S, k)
        /\ i \notin Below(S, i)
    BY <2>1, <2>2 DEF Below
  <2>4. /\ Cardinality(Below(S, i)) <= Cardinality(Below(S, k))
        /\ Cardinality(Below(S, k)) = Cardinality(Below(S, i)) => Below(S, k) = Below(S, i)
    BY <1>2, <2>3, FS_Subset
  <2> QED
    BY <1>2, <2>3, <2>4
<1> QED
  BY <1>1, <1>2, <1>3 DEF Rank

\* The ranks are the numbers below the size of the set, each taken once.
LEMMA RanksBiject ==
  ASSUME NEW S \in SUBSET Nat, IsFiniteSet(S)
  PROVE  /\ Rank(S) \in Injection(S, 0 .. Cardinality(S) - 1)
         /\ Rank(S) \in Surjection(S, 0 .. Cardinality(S) - 1)
<1>1. Rank(S) \in [S -> 0 .. Cardinality(S) - 1]
  BY RanksGrow DEF Rank
<1>2. ASSUME NEW i \in S, NEW k \in S, Rank(S)[i] = Rank(S)[k]
      PROVE  i = k
  <2>1. i \in Nat /\ k \in Nat /\ Rank(S)[i] \in Int /\ Rank(S)[k] \in Int
    BY RanksGrow
  <2>2. ~ (i < k) /\ ~ (k < i)
    BY <1>2, <2>1, RanksGrow
  <2> QED
    BY <2>1, <2>2
<1>3. Rank(S) \in Injection(S, 0 .. Cardinality(S) - 1)
  BY <1>1, <1>2 DEF Injection, IsInjective
<1>4. /\ IsFiniteSet(0 .. Cardinality(S) - 1)
      /\ Cardinality(0 .. Cardinality(S) - 1) = Cardinality(S)
  BY RanksGrow, CountBelow
<1> QED
  BY <1>3, <1>4, FS_Injection

\* A finite set of numbers can be listed in ascending order.
LEMMA CanBeListed ==
  ASSUME NEW S \in SUBSET Nat, IsFiniteSet(S)
  PROVE  \E s \in [1 .. Cardinality(S) -> S] : \A i, j \in DOMAIN s : i < j => s[i] < s[j]
<1> DEFINE list == [i \in 1 .. Cardinality(S) |-> CHOOSE e \in S : Rank(S)[e] = i - 1]
<1>1. ASSUME NEW i \in 1 .. Cardinality(S)
      PROVE  list[i] \in S /\ Rank(S)[list[i]] = i - 1
  <2>1. i - 1 \in 0 .. Cardinality(S) - 1
    BY RanksGrow
  <2>2. \E e \in S : Rank(S)[e] = i - 1
    BY <2>1, RanksBiject DEF Surjection
  <2> QED
    BY <2>2
<1>2. DOMAIN list = 1 .. Cardinality(S) /\ list \in [1 .. Cardinality(S) -> S]
  BY <1>1
<1> HIDE DEF list
<1>3. ASSUME NEW i \in 1 .. Cardinality(S), NEW j \in 1 .. Cardinality(S), i < j
      PROVE  list[i] < list[j]
  <2>1. list[i] \in Nat /\ list[j] \in Nat
    BY <1>1
  <2>2. list[i] # list[j]
    BY <1>1, <1>3
  <2>3. ~ (list[j] < list[i])
    <3>1. list[j] < list[i] => Rank(S)[list[j]] < Rank(S)[list[i]]
      BY <1>1, RanksGrow
    <3> QED
      BY <1>1, <1>3, <3>1
  <2> QED
    BY <2>1, <2>2, <2>3
<1> QED
  BY <1>2, <1>3
-----------------------------------------------------------------------------
(***************************************************************************)
(* The invariant.                                                          *)
(***************************************************************************)
\* The frames of a queue ascend, from above low to high.
Ascending(q, low, high) ==
  \A i \in 1 .. Len(q) : q[i].kind = "frame" =>
    /\ low < q[i].frame /\ q[i].frame <= high
    /\ \A j \in i + 1 .. Len(q) : q[j].kind = "frame" => q[i].frame < q[j].frame

\* The three parts below are of the outboxes o, what the clients saw last, s, and the
\* newest frame, f.
Flow(o, s, f) == \A c \in Clients : s[c] <= f /\ Ascending(o[c], s[c], f)

IsFrame(e) == e.op = "send" /\ e.msg.kind = "frame"

\* The frame that c is to be sent is newer than all it was sent.
Awaits(c, o, s, f) == s[c] < f /\ Ascending(o[c], s[c], f - 1)

Due(todo, o, s, f) ==
  /\ \A i \in 1 .. Len(todo) : IsFrame(todo[i]) =>
       todo[i].msg.frame = f /\ Awaits(todo[i].to, o, s, f)
  /\ \A i, j \in 1 .. Len(todo) : i < j /\ IsFrame(todo[j]) =>
       /\ IsFrame(todo[i]) => todo[i].to # todo[j].to
       /\ todo[i].op # "board"

\* What an entry is about.
Aimed(e) ==
  /\ e.op \in {"send", "remove", "close"} => e.to \in Clients
  /\ e.op = "each" => e.msg.kind # "frame"
Aims(todo) == \A i \in 1 .. Len(todo) : Aimed(todo[i])

IInv == TypeOK /\ Aims(agenda) /\ Flow(out, shown, frame) /\ Due(agenda, out, shown, frame)

\* Entries that are no frames, and those that also show no board.
Calm == {e \in Entries : Aimed(e) /\ ~ IsFrame(e)}
Plain == {e \in Calm : e.op # "board"}
NoFrames(todo) == \A i \in 1 .. Len(todo) : ~ IsFrame(todo[i])
-----------------------------------------------------------------------------
(***************************************************************************)
(* Queues.                                                                 *)
(***************************************************************************)
\* Frames are numbers.
LEMMA FramesAreNumbers ==
  ASSUME NEW q \in Seq(Messages)
  PROVE  /\ MaxFrames \in Nat /\ Len(q) \in Nat
         /\ \A i \in 1 .. Len(q) : q[i] \in Messages /\ q[i].frame \in 0 .. MaxFrames
<1>1. \A i \in 1 .. Len(q) : q[i] \in Messages
  OBVIOUS
<1> QED
  BY <1>1, OutboxAssumption DEF Messages

\* A client that reads its outbox: what remains is newer than what was read.
LEMMA AscendingTail ==
  ASSUME NEW q \in Seq(Messages), q # <<>>, NEW low \in Nat, NEW high \in Int,
         Ascending(q, low, high)
  PROVE  /\ Head(q) \in Messages /\ Tail(q) \in Seq(Messages) /\ Len(Tail(q)) = Len(q) - 1
         /\ Ascending(Tail(q), low, high)
         /\ Head(q).kind = "frame" => /\ low < Head(q).frame /\ Head(q).frame <= high
                                      /\ Ascending(Tail(q), Head(q).frame, high)
<1>1. /\ Head(q) = q[1] /\ Tail(q) \in Seq(Messages) /\ Len(Tail(q)) = Len(q) - 1
      /\ \A i \in 1 .. Len(Tail(q)) : Tail(q)[i] = q[i + 1]
      /\ Len(q) \in Nat \ {0}
  OBVIOUS
<1>2. \A i \in 1 .. Len(q) : q[i] \in Messages /\ q[i].frame \in Nat
  BY FramesAreNumbers
<1>3. Ascending(Tail(q), low, high)
  BY <1>1, <1>2 DEF Ascending
<1>4. ASSUME Head(q).kind = "frame"
      PROVE  /\ low < Head(q).frame /\ Head(q).frame <= high
             /\ Ascending(Tail(q), Head(q).frame, high)
  BY <1>1, <1>2, <1>4 DEF Ascending
<1> QED
  BY <1>1, <1>2, <1>3, <1>4

\* A message is queued: anything but a frame, or a frame newer than all.
LEMMA AscendingAppend ==
  ASSUME NEW q \in Seq(Messages), NEW low \in Nat, NEW high \in Nat, NEW m \in Messages,
         \/ m.kind # "frame" /\ Ascending(q, low, high)
         \/ m.kind = "frame" /\ m.frame = high /\ low < high /\ Ascending(q, low, high - 1)
  PROVE  /\ Append(q, m) \in Seq(Messages) /\ Len(Append(q, m)) = Len(q) + 1
         /\ Ascending(Append(q, m), low, high)
<1>1. /\ Append(q, m) \in Seq(Messages) /\ Len(Append(q, m)) = Len(q) + 1
      /\ \A i \in 1 .. Len(q) : Append(q, m)[i] = q[i]
      /\ Append(q, m)[Len(q) + 1] = m /\ Len(q) \in Nat
  OBVIOUS
<1>2. \A i \in 1 .. Len(q) : q[i].frame \in Nat
  BY FramesAreNumbers
<1>3. CASE m.kind # "frame" /\ Ascending(q, low, high)
  BY <1>1, <1>2, <1>3 DEF Ascending
<1>4. CASE m.kind = "frame" /\ m.frame = high /\ low < high /\ Ascending(q, low, high - 1)
  BY <1>1, <1>2, <1>4 DEF Ascending
<1> QED
  BY <1>1, <1>3, <1>4

\* A higher bound holds as well.
LEMMA AscendingWider ==
  ASSUME NEW q \in Seq(Messages), NEW low, NEW high \in Int, NEW higher \in Int,
         high <= higher, Ascending(q, low, high)
  PROVE  Ascending(q, low, higher)
<1>1. \A i \in 1 .. Len(q) : q[i].frame \in Nat
  BY FramesAreNumbers
<1> QED
  BY <1>1 DEF Ascending

\* Which rosters are current makes no difference to frames.
OutdatedQueue(q) == [i \in DOMAIN q |-> [q[i] EXCEPT !.current = FALSE]]

LEMMA AscendingOutdated ==
  ASSUME NEW q \in Seq(Messages)
  PROVE  /\ OutdatedQueue(q) \in Seq(Messages) /\ Len(OutdatedQueue(q)) = Len(q)
         /\ \A low, high : Ascending(q, low, high) => Ascending(OutdatedQueue(q), low, high)
<1> DEFINE r == OutdatedQueue(q)
<1>1. \A i \in 1 .. Len(q) : /\ [q[i] EXCEPT !.current = FALSE] \in Messages
                             /\ [q[i] EXCEPT !.current = FALSE].kind = q[i].kind
                             /\ [q[i] EXCEPT !.current = FALSE].frame = q[i].frame
  <2>1. \A i \in 1 .. Len(q) : q[i] \in Messages
    BY FramesAreNumbers
  <2> QED
    BY <2>1 DEF Messages
<1>2. r = [i \in 1 .. Len(q) |-> [q[i] EXCEPT !.current = FALSE]] /\ Len(q) \in Nat
  BY DEF OutdatedQueue
<1>3. r \in Seq(Messages) /\ Len(r) = Len(q)
  BY <1>1, <1>2
<1>4. \A i \in 1 .. Len(q) : r[i].kind = q[i].kind /\ r[i].frame = q[i].frame
  BY <1>1, <1>2
<1> HIDE DEF r
<1>5. ASSUME NEW low, NEW high, Ascending(q, low, high)
      PROVE  Ascending(r, low, high)
  BY <1>2, <1>3, <1>4, <1>5 DEF Ascending
<1> QED
  BY <1>3, <1>5 DEF r
-----------------------------------------------------------------------------
(***************************************************************************)
(* Agendas.                                                                *)
(***************************************************************************)
\* An entry is done: it may have been what the rest waited for.
LEMMA DueRest ==
  ASSUME NEW todo \in Seq(Entries), todo # <<>>, Aims(todo), NEW o, NEW s, NEW f,
         Due(todo, o, s, f)
  PROVE  /\ Head(todo) \in Entries /\ Aimed(Head(todo))
         /\ Tail(todo) \in Seq(Entries) /\ Aims(Tail(todo)) /\ Due(Tail(todo), o, s, f)
         /\ Head(todo).op = "board" => NoFrames(Tail(todo))
         /\ IsFrame(Head(todo)) =>
              /\ Head(todo).msg.frame = f /\ Awaits(Head(todo).to, o, s, f)
              /\ \A i \in 1 .. Len(Tail(todo)) :
                   IsFrame(Tail(todo)[i]) => Tail(todo)[i].to # Head(todo).to
<1>1. /\ Head(todo) = todo[1] /\ Head(todo) \in Entries
      /\ Tail(todo) \in Seq(Entries) /\ Len(Tail(todo)) = Len(todo) - 1
      /\ \A i \in 1 .. Len(Tail(todo)) : Tail(todo)[i] = todo[i + 1]
      /\ Len(todo) \in Nat \ {0}
  OBVIOUS
<1>2. \A i \in 1 .. Len(Tail(todo)) :
        i + 1 \in 1 .. Len(todo) /\ 1 < i + 1 /\ 1 \in 1 .. Len(todo)
  BY <1>1
<1>3. Aimed(Head(todo)) /\ Aims(Tail(todo))
  BY <1>1, <1>2 DEF Aims
<1>4. Due(Tail(todo), o, s, f)
  BY <1>1, <1>2 DEF Due
<1>5. Head(todo).op = "board" => NoFrames(Tail(todo))
  BY <1>1, <1>2 DEF Due, NoFrames
<1>6. IsFrame(Head(todo)) =>
        /\ Head(todo).msg.frame = f /\ Awaits(Head(todo).to, o, s, f)
        /\ \A i \in 1 .. Len(Tail(todo)) :
             IsFrame(Tail(todo)[i]) => Tail(todo)[i].to # Head(todo).to
  BY <1>1, <1>2 DEF Due
<1> QED
  BY <1>1, <1>3, <1>4, <1>5, <1>6

\* Entries that are put in front of the rest.
LEMMA DueInFront ==
  ASSUME NEW p \in Seq(Plain), NEW r \in Seq(Entries), Aims(r),
         NEW o, NEW s, NEW f, Due(r, o, s, f)
  PROVE  p \o r \in Seq(Entries) /\ Aims(p \o r) /\ Due(p \o r, o, s, f)
<1>0. p \in Seq(Entries) /\ \A i \in 1 .. Len(p) : p[i] \in Plain
  <2>1. \A i \in 1 .. Len(p) : p[i] \in Plain /\ p[i] \in Entries
    BY DEF Plain, Calm
  <2> QED
    BY <2>1
<1>1. /\ p \o r \in Seq(Entries) /\ Len(p \o r) = Len(p) + Len(r)
      /\ Len(p) \in Nat /\ Len(r) \in Nat
      /\ \A i \in 1 .. Len(p) + Len(r) :
           (p \o r)[i] = IF i <= Len(p) THEN p[i] ELSE r[i - Len(p)]
  BY <1>0, ConcatProperties
<1>2. \A i \in 1 .. Len(p) + Len(r) : IsFrame((p \o r)[i]) =>
        i > Len(p) /\ i - Len(p) \in 1 .. Len(r) /\ (p \o r)[i] = r[i - Len(p)]
  BY <1>0, <1>1 DEF Plain, Calm
<1>3. \A i \in 1 .. Len(p) + Len(r) :
        \/ i \in 1 .. Len(p) /\ (p \o r)[i] = p[i]
        \/ i > Len(p) /\ i - Len(p) \in 1 .. Len(r) /\ (p \o r)[i] = r[i - Len(p)]
  BY <1>1
<1>4. Aims(p \o r)
  BY <1>0, <1>1, <1>3 DEF Aims, Plain, Calm
<1>5. \A i \in 1 .. Len(p \o r) : IsFrame((p \o r)[i]) =>
        (p \o r)[i].msg.frame = f /\ Awaits((p \o r)[i].to, o, s, f)
  BY <1>1, <1>2 DEF Due
<1>6. ASSUME NEW i \in 1 .. Len(p \o r), NEW j \in 1 .. Len(p \o r),
             i < j, IsFrame((p \o r)[j])
      PROVE  /\ IsFrame((p \o r)[i]) => (p \o r)[i].to # (p \o r)[j].to
             /\ (p \o r)[i].op # "board"
  <2>1. /\ j > Len(p) /\ j - Len(p) \in 1 .. Len(r) /\ (p \o r)[j] = r[j - Len(p)]
    BY <1>1, <1>2, <1>6
  <2>2. CASE i \in 1 .. Len(p) /\ (p \o r)[i] = p[i]
    BY <1>0, <2>2 DEF Plain, Calm
  <2>3. CASE i > Len(p) /\ i - Len(p) \in 1 .. Len(r) /\ (p \o r)[i] = r[i - Len(p)]
    <3>1. i - Len(p) < j - Len(p)
      BY <1>1, <1>6
    <3> QED
      BY <1>6, <2>1, <2>3, <3>1 DEF Due
  <2> QED
    BY <1>1, <1>3, <2>2, <2>3
<1>7. Due(p \o r, o, s, f)
  BY <1>5, <1>6 DEF Due
<1> QED
  BY <1>1, <1>4, <1>7

\* A change of the lobby outdates rosters, which are no frames.
OutdatedEntry(e) == [e EXCEPT !.msg.current = FALSE]

LEMMA EntryOutdated ==
  ASSUME NEW e \in Entries
  PROVE  /\ OutdatedEntry(e) \in Entries
         /\ OutdatedEntry(e).op = e.op /\ OutdatedEntry(e).to = e.to
         /\ OutdatedEntry(e).msg.kind = e.msg.kind
         /\ OutdatedEntry(e).msg.frame = e.msg.frame
<1> DEFINE m == [e.msg EXCEPT !.current = FALSE]
<1>1. e.msg \in Messages
  BY DEF Entries
<1>2. m \in Messages /\ m.kind = e.msg.kind /\ m.frame = e.msg.frame
  BY <1>1 DEF Messages
<1>3. OutdatedEntry(e) = [e EXCEPT !.msg = m]
  BY DEF OutdatedEntry
<1> HIDE DEF m
<1> QED
  BY <1>2, <1>3 DEF Entries

LEMMA DueOutdated ==
  ASSUME NEW todo \in Seq(Entries), Aims(todo), NEW o, NEW s, NEW f, Due(todo, o, s, f)
  PROVE  /\ Outdated(todo) \in Seq(Entries) /\ Aims(Outdated(todo))
         /\ Due(Outdated(todo), o, s, f)
<1> DEFINE t == Outdated(todo)
<1>1. \A i \in 1 .. Len(todo) :
        /\ OutdatedEntry(todo[i]) \in Entries /\ OutdatedEntry(todo[i]).op = todo[i].op
        /\ OutdatedEntry(todo[i]).to = todo[i].to
        /\ OutdatedEntry(todo[i]).msg.kind = todo[i].msg.kind
        /\ OutdatedEntry(todo[i]).msg.frame = todo[i].msg.frame
  <2>1. \A i \in 1 .. Len(todo) : todo[i] \in Entries
    OBVIOUS
  <2> QED
    BY <2>1, EntryOutdated
<1>2. t = [i \in 1 .. Len(todo) |-> OutdatedEntry(todo[i])] /\ Len(todo) \in Nat
  BY DEF Outdated, OutdatedEntry
<1>3. t \in Seq(Entries) /\ Len(t) = Len(todo)
  BY <1>1, <1>2
<1>4. \A i \in 1 .. Len(todo) :
        /\ t[i].op = todo[i].op /\ t[i].to = todo[i].to
        /\ t[i].msg.kind = todo[i].msg.kind /\ t[i].msg.frame = todo[i].msg.frame
  BY <1>1, <1>2
<1> HIDE DEF t
<1>5. Aims(t)
  BY <1>3, <1>4 DEF Aims, Aimed
<1>6. \A i \in 1 .. Len(t) : IsFrame(t[i]) <=> IsFrame(todo[i])
  BY <1>3, <1>4 DEF IsFrame
<1>7. Due(t, o, s, f)
  BY <1>3, <1>4, <1>6 DEF Due
<1> QED
  BY <1>3, <1>5, <1>7 DEF t

\* Where outboxes have grown older or shorter, what is due stays so.
LEMMA DueKept ==
  ASSUME NEW todo, NEW o, NEW s, NEW f, Due(todo, o, s, f), NEW p, NEW t,
         \A i \in 1 .. Len(todo) :
           IsFrame(todo[i]) /\ Awaits(todo[i].to, o, s, f) => Awaits(todo[i].to, p, t, f)
  PROVE  Due(todo, p, t, f)
  BY DEF Due

\* The sends of a loop over the seats are to different clients.
LEMMA SendsToAll ==
  ASSUME NEW m \in Messages, seated \subseteq Clients
  PROVE  /\ ToAll(m) \in Seq(Entries) /\ Aims(ToAll(m))
         /\ \A i \in 1 .. Len(ToAll(m)) :
              /\ ToAll(m)[i].op = "send" /\ ToAll(m)[i].msg = m /\ ToAll(m)[i].to \in Clients
              /\ \A j \in 1 .. Len(ToAll(m)) : i < j => ToAll(m)[i].to # ToAll(m)[j].to
<1> DEFINE n == Cardinality(seated)
           list == InOrder(seated)
<1>1. Clients \in SUBSET Nat /\ IsFiniteSet(Clients)
  BY OutboxAssumption, FS_Interval DEF Clients
<1>2. seated \in SUBSET Nat /\ IsFiniteSet(seated) /\ n \in Nat
  BY <1>1, FS_Subset, FS_CardinalityType
<1>3. /\ list \in [1 .. n -> seated]
      /\ \A i, j \in DOMAIN list : i < j => list[i] < list[j]
  BY <1>2, CanBeListed DEF InOrder
<1>4. \A i, j \in 1 .. n : i < j => list[i] # list[j]
  <2>1. \A c \in seated : ~ (c < c)
    BY <1>2
  <2> QED
    BY <1>3, <2>1
<1> HIDE DEF list
<1>5. ToAll(m) = [i \in 1 .. n |-> Send(list[i], m)]
  BY DEF ToAll, list
<1> HIDE DEF n
<1>6. \A i \in 1 .. n : Send(list[i], m) \in Entries /\ list[i] \in Clients
  <2>1. \A i \in 1 .. n : list[i] \in Clients
    BY <1>3
  <2>2. \A c \in Clients : c \in 0 .. NumClients
    BY OutboxAssumption DEF Clients
  <2>3. \A c \in 0 .. NumClients : Send(c, m) \in Entries
    BY DEF Send, Entries
  <2> QED
    BY <2>1, <2>2, <2>3
<1>7. ToAll(m) \in Seq(Entries) /\ Len(ToAll(m)) = n
  BY <1>2, <1>5, <1>6
<1>8. \A i \in 1 .. n :
        ToAll(m)[i].op = "send" /\ ToAll(m)[i].msg = m /\ ToAll(m)[i].to = list[i]
  BY <1>5 DEF Send
<1> QED
  BY <1>4, <1>6, <1>7, <1>8 DEF Aims, Aimed

\* A list without frames keeps nobody waiting.
LEMMA CalmDue ==
  ASSUME NEW todo \in Seq(Calm), NEW o, NEW s, NEW f
  PROVE  todo \in Seq(Entries) /\ Aims(todo) /\ Due(todo, o, s, f)
<1>1. \A i \in 1 .. Len(todo) : todo[i] \in Calm
  OBVIOUS
<1>2. \A i \in 1 .. Len(todo) : todo[i] \in Entries /\ Aimed(todo[i]) /\ ~ IsFrame(todo[i])
  BY <1>1 DEF Calm
<1> QED
  BY <1>2 DEF Aims, Due

\* A board is sent to everybody, and nothing that waits behind it is a frame.
LEMMA BoardDue ==
  ASSUME TypeOK, NEW f \in 0 .. MaxFrames,
         NEW r \in Seq(Entries), Aims(r), NoFrames(r),
         \A c \in Clients : Awaits(c, out, shown, f)
  PROVE  /\ ToAll(FrameMsg(f)) \o r \in Seq(Entries) /\ Aims(ToAll(FrameMsg(f)) \o r)
         /\ Due(ToAll(FrameMsg(f)) \o r, out, shown, f)
<1> DEFINE p == ToAll(FrameMsg(f))
           a == p \o r
<1>1. FrameMsg(f) \in Messages /\ FrameMsg(f).frame = f
  BY DEF FrameMsg, ControlMsg, Messages
<1>2. /\ p \in Seq(Entries) /\ Aims(p)
      /\ \A i \in 1 .. Len(p) :
           /\ p[i].op = "send" /\ p[i].msg = FrameMsg(f) /\ p[i].to \in Clients
           /\ \A j \in 1 .. Len(p) : i < j => p[i].to # p[j].to
  BY <1>1, SendsToAll DEF TypeOK
<1> HIDE DEF p
<1>3. /\ a \in Seq(Entries) /\ Len(a) = Len(p) + Len(r)
      /\ Len(p) \in Nat /\ Len(r) \in Nat
      /\ \A i \in 1 .. Len(p) + Len(r) : a[i] = IF i <= Len(p) THEN p[i] ELSE r[i - Len(p)]
  BY <1>2, ConcatProperties
<1> HIDE DEF a
<1>4. \A i \in 1 .. Len(a) :
        \/ i \in 1 .. Len(p) /\ a[i] = p[i]
        \/ i > Len(p) /\ i - Len(p) \in 1 .. Len(r) /\ a[i] = r[i - Len(p)]
  BY <1>3
<1>5. Aims(a)
  BY <1>2, <1>4 DEF Aims
<1>6. \A i \in 1 .. Len(a) : IsFrame(a[i]) => i \in 1 .. Len(p) /\ a[i] = p[i]
  BY <1>4 DEF NoFrames
<1>7. \A i \in 1 .. Len(a) : IsFrame(a[i]) => a[i].msg.frame = f /\ Awaits(a[i].to, out, shown, f)
  BY <1>1, <1>2, <1>6
<1>8. ASSUME NEW i \in 1 .. Len(a), NEW j \in 1 .. Len(a), i < j, IsFrame(a[j])
      PROVE  (IsFrame(a[i]) => a[i].to # a[j].to) /\ a[i].op # "board"
  <2>1. j \in 1 .. Len(p) /\ a[j] = p[j]
    BY <1>6, <1>8
  <2>2. i \in 1 .. Len(p) /\ a[i] = p[i]
    BY <1>3, <1>4, <1>8, <2>1
  <2> QED
    BY <1>2, <1>8, <2>1, <2>2
<1>9. Due(a, out, shown, f)
  BY <1>7, <1>8 DEF Due
<1> QED
  BY <1>3, <1>5, <1>9 DEF a, p

\* The entries that handlers put on the agenda themselves.
LEMMA OwnEntries ==
  /\ Broadcast \in Plain /\ Each(ControlMsg) \in Plain /\ Each(PulseMsg) \in Plain
  /\ Entry("abort") \in Plain /\ Entry("change") \in Plain /\ Entry("end") \in Plain
  /\ Entry("board") \in Calm
  /\ \A c \in Clients : /\ Send(c, ControlMsg) \in Plain /\ Send(c, PulseMsg) \in Plain
                        /\ Remove(c) \in Plain /\ Close(c) \in Plain
<1>1. ControlMsg \in Messages /\ PulseMsg \in Messages
      /\ ControlMsg.kind = "control" /\ PulseMsg.kind = "pulse"
  <2>1. 0 \in 0 .. MaxFrames
    BY OutboxAssumption
  <2>2. ControlMsg \in Messages /\ ControlMsg.kind = "control"
    BY <2>1 DEF ControlMsg, Messages
  <2>3. PulseMsg \in Messages /\ PulseMsg.kind = "pulse"
    BY <2>1 DEF PulseMsg, ControlMsg, Messages
  <2> QED
    BY <2>2, <2>3
<1>2. 0 \in 0 .. NumClients /\ \A c \in Clients : c \in 0 .. NumClients
  BY OutboxAssumption DEF Clients
<1> HIDE DEF ControlMsg, PulseMsg
<1> QED
  BY <1>1, <1>2 DEF Broadcast, Each, Entry, Send, Remove, Close, Plain, Calm, Entries,
                    Aimed, IsFrame
-----------------------------------------------------------------------------
(***************************************************************************)
(* The steps of a handler.                                                 *)
(***************************************************************************)
\* What the entry that is done, and the rest, are known to be.
LEMMA HeadAndRest ==
  ASSUME IInv, agenda # <<>>
  PROVE  /\ Head(agenda) \in Entries /\ Aimed(Head(agenda))
         /\ Rest \in Seq(Entries) /\ Aims(Rest) /\ Due(Rest, out, shown, frame)
         /\ Head(agenda).op = "board" => NoFrames(Rest)
         /\ IsFrame(Head(agenda)) =>
              /\ Head(agenda).msg.frame = frame
              /\ Awaits(Head(agenda).to, out, shown, frame)
              /\ \A i \in 1 .. Len(Rest) : IsFrame(Rest[i]) => Rest[i].to # Head(agenda).to
<1>1. agenda \in Seq(Entries) /\ Aims(agenda) /\ Due(agenda, out, shown, frame)
  BY DEF IInv, TypeOK
<1> QED
  BY <1>1, DueRest DEF Rest

\* What the clients saw, and what lies in the outboxes, are numbers and messages.
LEMMA QueuesTyped ==
  ASSUME TypeOK, NEW c \in Clients
  PROVE  /\ out[c] \in Seq(Messages) /\ shown[c] \in Nat /\ shown[c] \in 0 .. MaxFrames
         /\ frame \in Nat /\ Len(out[c]) \in Nat /\ Len(out[c]) <= Depth
<1>1. out[c] \in Seq(Messages) /\ Len(out[c]) <= Depth
  BY DEF TypeOK
<1>2. shown[c] \in 0 .. MaxFrames /\ frame \in 0 .. MaxFrames
  BY DEF TypeOK
<1> QED
  BY <1>1, <1>2, OutboxAssumption

\* A change of the lobby outdates what lies in the outboxes and keeps its order.
LEMMA OutboxesOutdated ==
  ASSUME IInv, RostersOutdated
  PROVE  /\ out' \in [Clients -> Seq(Messages)] /\ heard' \in [Clients -> BOOLEAN]
         /\ \A c \in Clients : Len(out'[c]) <= Depth
         /\ Flow(out', shown, frame)
         /\ \A todo : Due(todo, out, shown, frame) /\ Aims(todo) => Due(todo, out', shown, frame)
<1>1. out' = [c \in Clients |-> OutdatedQueue(out[c])] /\ heard' = [c \in Clients |-> FALSE]
  BY DEF RostersOutdated, OutdatedQueue
<1>2. ASSUME NEW c \in Clients
      PROVE  /\ out'[c] \in Seq(Messages) /\ Len(out'[c]) <= Depth
             /\ \A low, high : Ascending(out[c], low, high) => Ascending(out'[c], low, high)
  <2>1. out[c] \in Seq(Messages) /\ Len(out[c]) <= Depth
    BY QueuesTyped DEF IInv
  <2>2. out'[c] = OutdatedQueue(out[c])
    BY <1>1
  <2> QED
    BY <2>1, <2>2, AscendingOutdated
<1>3. Flow(out', shown, frame)
  BY <1>2 DEF IInv, Flow
<1>4. ASSUME NEW todo, Due(todo, out, shown, frame), Aims(todo)
      PROVE  Due(todo, out', shown, frame)
  <2>1. \A i \in 1 .. Len(todo) : IsFrame(todo[i]) => todo[i].to \in Clients
    BY <1>4 DEF Aims, Aimed, IsFrame
  <2>2. \A c \in Clients : Awaits(c, out, shown, frame) => Awaits(c, out', shown, frame)
    BY <1>2 DEF Awaits
  <2> QED
    BY <1>4, <2>1, <2>2 DEF Due
<1>5. out' \in [Clients -> Seq(Messages)]
  <2>1. \A c \in Clients : OutdatedQueue(out[c]) \in Seq(Messages)
    BY <1>1, <1>2
  <2> QED
    BY <1>1, <2>1
<1> QED
  BY <1>1, <1>2, <1>3, <1>4, <1>5

\* A message is queued in what is left of an outbox.
LEMMA Enqueued ==
  ASSUME IInv, Busy("send"), NEW q \in Seq(Messages), Len(q) < Depth,
         \A low \in Nat, high \in Int :
           Ascending(out[Head(agenda).to], low, high) => Ascending(q, low, high),
         out' = [out EXCEPT ![Head(agenda).to] = Append(q, Head(agenda).msg)],
         agenda' = Rest, robbed' \subseteq Clients,
         UNCHANGED <<lobbyVars, closed, panic, clientVars, fellBehind>>
  PROVE  IInv'
<1> DEFINE c == Head(agenda).to
           msg == Head(agenda).msg
<1>0. Head(agenda) \in Entries /\ Aimed(Head(agenda)) /\ Head(agenda).op = "send"
      /\ Rest \in Seq(Entries) /\ Aims(Rest) /\ Due(Rest, out, shown, frame)
  BY HeadAndRest DEF Busy
<1>1. c \in Clients /\ msg \in Messages
  BY <1>0 DEF Aimed, Entries
<1>2. msg.kind = "frame" =>
        /\ msg.frame = frame /\ Awaits(c, out, shown, frame)
        /\ \A i \in 1 .. Len(Rest) : IsFrame(Rest[i]) => Rest[i].to # c
  BY <1>0, HeadAndRest DEF IsFrame, Busy
<1>3. /\ shown[c] \in Nat /\ frame \in Nat /\ shown[c] <= frame
      /\ Ascending(out[c], shown[c], frame)
  BY <1>1, QueuesTyped DEF IInv, Flow
<1> HIDE DEF c, msg
<1>4. out' = [out EXCEPT ![c] = Append(q, msg)]
  BY DEF c, msg
<1>5. \A low \in Nat, high \in Int : Ascending(out[c], low, high) => Ascending(q, low, high)
  BY DEF c
<1>6. /\ Append(q, msg) \in Seq(Messages) /\ Len(Append(q, msg)) <= Depth
      /\ Ascending(Append(q, msg), shown[c], frame)
  <2>1. CASE msg.kind # "frame"
    <3>1. Ascending(q, shown[c], frame)
      BY <1>3, <1>5
    <3> QED
      BY <1>1, <1>3, <2>1, <3>1, AscendingAppend, OutboxAssumption
  <2>2. CASE msg.kind = "frame"
    <3>1. shown[c] < frame /\ msg.frame = frame /\ Ascending(out[c], shown[c], frame - 1)
      BY <1>2, <2>2 DEF Awaits
    <3>2. Ascending(q, shown[c], frame - 1)
      BY <1>3, <1>5, <3>1
    <3> QED
      BY <1>1, <1>3, <2>2, <3>1, <3>2, AscendingAppend, OutboxAssumption
  <2> QED
    BY <2>1, <2>2
<1>7. /\ out' \in [Clients -> Seq(Messages)]
      /\ \A d \in Clients : out'[d] = IF d = c THEN Append(q, msg) ELSE out[d]
  BY <1>1, <1>4, <1>6 DEF IInv, TypeOK
<1>8. \A d \in Clients : Len(out'[d]) <= Depth
  BY <1>6, <1>7, QueuesTyped DEF IInv
<1>9. Flow(out', shown, frame)
  BY <1>3, <1>6, <1>7 DEF IInv, Flow
<1>10. Due(Rest, out', shown, frame)
  <2>1. ASSUME NEW i \in 1 .. Len(Rest), IsFrame(Rest[i]), Awaits(Rest[i].to, out, shown, frame)
        PROVE  Awaits(Rest[i].to, out', shown, frame)
    <3>1. Rest[i].to \in Clients
      BY <1>0, <2>1 DEF Aims, Aimed, IsFrame
    <3>2. CASE Rest[i].to # c
      BY <1>7, <2>1, <3>1, <3>2 DEF Awaits
    <3>3. CASE Rest[i].to = c
      <4>1. msg.kind # "frame"
        BY <1>2, <2>1, <3>3
      <4>2. shown[c] < frame /\ Ascending(out[c], shown[c], frame - 1)
        BY <2>1, <3>3 DEF Awaits
      <4>3. Ascending(q, shown[c], frame - 1) /\ frame - 1 \in Nat
        BY <1>3, <1>5, <4>2
      <4>4. Ascending(Append(q, msg), shown[c], frame - 1)
        BY <1>1, <1>3, <4>1, <4>3, AscendingAppend
      <4> QED
        BY <1>1, <1>7, <3>3, <4>2, <4>4 DEF Awaits
    <3> QED
      BY <3>2, <3>3
  <2> QED
    BY <1>0, <2>1, DueKept
<1>11. TypeOK'
  BY <1>0, <1>7, <1>8 DEF IInv, TypeOK, lobbyVars, clientVars, seatVars
<1> QED
  BY <1>0, <1>9, <1>10, <1>11 DEF IInv, lobbyVars, clientVars, seatVars

\* sendTo.
LEMMA SendToOK ==
  ASSUME IInv, SendTo
  PROVE  IInv'
<1> DEFINE c == Head(agenda).to
           msg == Head(agenda).msg
<1>0. Busy("send") /\ UNCHANGED <<lobbyVars, closed, clientVars>>
  BY DEF SendTo
<1>1. /\ Aimed(Head(agenda)) /\ Head(agenda).op = "send" /\ Head(agenda) \in Entries
      /\ Rest \in Seq(Entries) /\ Aims(Rest) /\ Due(Rest, out, shown, frame)
  BY <1>0, HeadAndRest DEF Busy
<1>2. c \in Clients
  BY <1>1 DEF Aimed
<1>3. /\ out[c] \in Seq(Messages) /\ Len(out[c]) \in Nat /\ Len(out[c]) <= Depth
      /\ robbed \subseteq Clients
  BY <1>2, QueuesTyped DEF IInv, TypeOK
<1> HIDE DEF c, msg
<1>4. CASE Queue
  <2>1. /\ Len(out[c]) < Depth /\ out' = [out EXCEPT ![c] = Append(out[c], msg)]
        /\ agenda' = Rest /\ UNCHANGED <<panic, robbed, fellBehind>>
    BY <1>4 DEF Queue, c, msg
  <2> QED
    BY <1>0, <1>3, <2>1, Enqueued DEF c, msg
<1>5. CASE Squeeze
  <2>1. /\ Len(out[c]) = Depth /\ out' = [out EXCEPT ![c] = Append(Tail(out[c]), msg)]
        /\ robbed' = robbed \union (IF Droppable(Head(out[c])) THEN {} ELSE {c})
        /\ agenda' = Rest /\ UNCHANGED <<panic, fellBehind>>
    BY <1>5 DEF Squeeze, c, msg
  <2>2. out[c] # <<>>
    BY <1>3, <2>1, OutboxAssumption
  <2>3. /\ Tail(out[c]) \in Seq(Messages) /\ Len(Tail(out[c])) < Depth
        /\ \A low \in Nat, high \in Int :
             Ascending(out[c], low, high) => Ascending(Tail(out[c]), low, high)
    <3>1. Tail(out[c]) \in Seq(Messages) /\ Len(Tail(out[c])) = Len(out[c]) - 1
      BY <1>3, <2>2
    <3> QED
      BY <1>3, <2>1, <2>2, <3>1, AscendingTail
  <2>4. robbed' \subseteq Clients
    BY <1>2, <1>3, <2>1
  <2> QED
    BY <1>0, <2>1, <2>3, <2>4, Enqueued DEF c, msg
<1>6. CASE GiveUp
  <2>1. /\ agenda' = <<Remove(c)>> \o Rest /\ fellBehind' = TRUE
        /\ UNCHANGED <<out, panic, robbed>>
    BY <1>6 DEF GiveUp, c
  <2>2. <<Remove(c)>> \in Seq(Plain)
    BY <1>2, OwnEntries
  <2>3. agenda' \in Seq(Entries) /\ Aims(agenda') /\ Due(agenda', out, shown, frame)
    BY <1>1, <2>1, <2>2, DueInFront
  <2> QED
    BY <1>0, <2>1, <2>3 DEF IInv, TypeOK, lobbyVars, clientVars, seatVars
<1>7. CASE SendOnClosed
  BY <1>0, <1>7 DEF SendOnClosed, IInv, TypeOK, lobbyVars, clientVars, seatVars
<1> QED
  BY <1>4, <1>5, <1>6, <1>7 DEF SendTo

\* An entry that puts others in front of the rest, without a change of the lobby.
LEMMA GoesOn ==
  ASSUME IInv, agenda # <<>>, NEW p \in Seq(Plain), agenda' = p \o Rest,
         closed' \subseteq Clients, UNCHANGED <<lobbyVars, out, panic, clientVars, robbed, fellBehind>>
  PROVE  IInv'
<1>1. Rest \in Seq(Entries) /\ Aims(Rest) /\ Due(Rest, out, shown, frame)
  BY HeadAndRest
<1>2. agenda' \in Seq(Entries) /\ Aims(agenda') /\ Due(agenda', out, shown, frame)
  BY <1>1, DueInFront
<1> QED
  BY <1>2 DEF IInv, TypeOK, lobbyVars, clientVars, seatVars

\* The same with a change of the lobby; the rest may be outdated with the outboxes.
LEMMA GoesOnChanged ==
  ASSUME IInv, agenda # <<>>, NEW p \in Seq(Plain), RostersOutdated,
         agenda' = p \o Rest \/ agenda' = p \o Outdated(Rest),
         phase' \in Phases, seated' \subseteq Clients, record' \in BOOLEAN, frame' = frame,
         closed' \subseteq Clients, UNCHANGED <<panic, seatVars, robbed, fellBehind>>
  PROVE  IInv'
<1>1. Rest \in Seq(Entries) /\ Aims(Rest) /\ Due(Rest, out, shown, frame)
  BY HeadAndRest
<1>2. agenda' \in Seq(Entries) /\ Aims(agenda') /\ Due(agenda', out, shown, frame)
  BY <1>1, DueInFront, DueOutdated
<1>3. /\ out' \in [Clients -> Seq(Messages)] /\ heard' \in [Clients -> BOOLEAN]
      /\ \A c \in Clients : Len(out'[c]) <= Depth
      /\ Flow(out', shown, frame) /\ Due(agenda', out', shown, frame)
  BY <1>2, OutboxesOutdated
<1> QED
  BY <1>2, <1>3 DEF IInv, TypeOK, seatVars

\* The loops.
LEMMA LoopOK ==
  ASSUME IInv, Loop
  PROVE  IInv'
<1>1. agenda # <<>>
  BY DEF Loop, Busy
<1>2. ASSUME NEW m \in Messages, m.kind # "frame"
      PROVE  ToAll(m) \in Seq(Plain)
  <2>1. /\ ToAll(m) \in Seq(Entries) /\ Aims(ToAll(m))
        /\ \A i \in 1 .. Len(ToAll(m)) : ToAll(m)[i].op = "send" /\ ToAll(m)[i].msg = m
    BY <1>2, SendsToAll DEF IInv, TypeOK
  <2>2. \A i \in 1 .. Len(ToAll(m)) : ToAll(m)[i] \in Plain
    BY <1>2, <2>1 DEF Plain, Calm, Aims, IsFrame
  <2> QED
    BY <2>1, <2>2
<1>3. \E m \in Messages : m.kind # "frame" /\ agenda' = ToAll(m) \o Rest
  <2>1. CASE Busy("each") /\ agenda' = ToAll(Head(agenda).msg) \o Rest
    <3>1. Head(agenda) \in Entries /\ Aimed(Head(agenda)) /\ Head(agenda).op = "each"
      BY <1>1, <2>1, HeadAndRest DEF Busy
    <3>2. Head(agenda).msg \in Messages /\ Head(agenda).msg.kind # "frame"
      BY <3>1 DEF Aimed, Entries
    <3> QED
      BY <2>1, <3>2
  <2>2. CASE Busy("broadcast") /\ agenda' = ToAll(LobbyMsg) \o Rest
    <3>1. 0 \in 0 .. MaxFrames
      BY OutboxAssumption
    <3>2. LobbyMsg \in Messages /\ LobbyMsg.kind = "lobby"
      BY <3>1 DEF LobbyMsg, ControlMsg, Messages
    <3> QED
      BY <2>2, <3>2
  <2> QED
    BY <2>1, <2>2 DEF Loop
<1>4. closed' \subseteq Clients
  BY DEF Loop, IInv, TypeOK
<1> QED
  BY <1>1, <1>2, <1>3, <1>4, GoesOn DEF Loop

\* broadcastState.
LEMMA ShowBoardOK ==
  ASSUME IInv, ShowBoard
  PROVE  IInv'
<1>1. agenda # <<>> /\ Head(agenda).op = "board"
  BY DEF ShowBoard, Busy
<1>2. Rest \in Seq(Entries) /\ Aims(Rest) /\ Due(Rest, out, shown, frame) /\ NoFrames(Rest)
  BY <1>1, HeadAndRest
<1>3. UNCHANGED <<phase, seated, record, out, closed, panic, clientVars, robbed, fellBehind>>
  BY DEF ShowBoard
<1>4. CASE frame' = frame /\ agenda' = Rest
  BY <1>2, <1>3, <1>4 DEF IInv, TypeOK, clientVars, seatVars
<1>5. CASE /\ frame < MaxFrames /\ frame' = frame + 1
           /\ agenda' = ToAll(FrameMsg(frame + 1)) \o Rest
  <2>1. frame \in Nat /\ frame + 1 \in 0 .. MaxFrames
    <3>1. frame \in 0 .. MaxFrames /\ MaxFrames \in Nat
      BY OutboxAssumption DEF IInv, TypeOK
    <3> QED
      BY <1>5, <3>1
  <2>2. ASSUME NEW c \in Clients
        PROVE  /\ Awaits(c, out, shown, frame + 1)
               /\ shown[c] <= frame + 1 /\ Ascending(out[c], shown[c], frame + 1)
    <3>1. out[c] \in Seq(Messages) /\ shown[c] \in Nat
      BY QueuesTyped DEF IInv
    <3>2. shown[c] <= frame /\ Ascending(out[c], shown[c], frame)
      BY DEF IInv, Flow
    <3>3. /\ shown[c] < frame + 1 /\ shown[c] <= frame + 1
          /\ (frame + 1) - 1 = frame /\ frame <= frame + 1
      BY <2>1, <3>1, <3>2
    <3>4. Ascending(out[c], shown[c], frame + 1)
      BY <2>1, <3>1, <3>2, <3>3, AscendingWider
    <3>5. Ascending(out[c], shown[c], (frame + 1) - 1)
      BY <3>2, <3>3
    <3>6. Awaits(c, out, shown, frame + 1)
      BY <3>3, <3>5 DEF Awaits
    <3> QED
      BY <3>3, <3>4, <3>6
  <2>3. /\ agenda' \in Seq(Entries) /\ Aims(agenda')
        /\ Due(agenda', out, shown, frame + 1)
    BY <1>2, <1>5, <2>1, <2>2, BoardDue DEF IInv
  <2>4. Flow(out, shown, frame + 1)
    BY <2>2 DEF Flow
  <2> QED
    BY <1>3, <1>5, <2>1, <2>3, <2>4 DEF IInv, TypeOK, clientVars, seatVars
<1> QED
  BY <1>4, <1>5 DEF ShowBoard

\* removeSeat, closeSeat, and the steps that change the lobby and say so.
LEMMA LobbyStepsOK ==
  ASSUME IInv, RemoveSeat \/ Reopen \/ ChangeRoster \/ CloseSeat \/ EndMatch
  PROVE  IInv'
<1> DEFINE c == Head(agenda).to
<1>0. agenda # <<>>
  BY DEF RemoveSeat, Reopen, ChangeRoster, CloseSeat, EndMatch, Busy
<1>1. /\ phase \in Phases /\ seated \subseteq Clients /\ record \in BOOLEAN
      /\ closed \subseteq Clients /\ "open" \in Phases
  BY DEF IInv, TypeOK, Phases
<1>2. Head(agenda).op \in {"remove", "close"} => c \in Clients
  BY <1>0, HeadAndRest DEF Aimed
<1>3. <<>> \in Seq(Plain) /\ <<Entry("abort")>> \in Seq(Plain) /\ <<Broadcast>> \in Seq(Plain)
      /\ <<Each(ControlMsg), Each(ControlMsg), Broadcast>> \in Seq(Plain)
  BY OwnEntries
<1>4. Rest \in Seq(Entries)
  BY <1>0, HeadAndRest
<1>5. CASE RemoveSeat
  <2>1. c \in Clients
    BY <1>2, <1>5 DEF RemoveSeat, Busy
  <2>2. /\ seated' = seated \ {c} /\ UNCHANGED <<phase, record, frame, panic, seatVars, robbed, fellBehind>>
        /\ closed' = IF c \in seated THEN closed \union {c} ELSE closed
    BY <1>5 DEF RemoveSeat
  <2>3. CASE c \in seated
    <3>1. RostersOutdated
      BY <1>5, <2>3 DEF RemoveSeat
    <3>2. \E p \in Seq(Plain) : agenda' = p \o Outdated(Rest)
      BY <1>3, <1>5, <2>3 DEF RemoveSeat
    <3>3. seated' \subseteq Clients /\ closed' \subseteq Clients
      BY <1>1, <2>1, <2>2
    <3> QED
      BY <1>0, <1>1, <2>2, <3>1, <3>2, <3>3, GoesOnChanged
  <2>4. CASE c \notin seated
    <3>1. agenda' = <<>> \o Rest /\ RostersUnchanged
      BY <1>5, <2>4 DEF RemoveSeat
    <3>2. seated' = seated /\ closed' = closed
      BY <2>2, <2>4
    <3> QED
      BY <1>0, <1>1, <1>3, <2>2, <3>1, <3>2, GoesOn
         DEF lobbyVars, clientVars, RostersUnchanged
  <2> QED
    BY <2>3, <2>4
<1>6. CASE Reopen
  BY <1>0, <1>1, <1>3, <1>6, GoesOnChanged DEF Reopen
<1>7. CASE ChangeRoster
  BY <1>0, <1>1, <1>3, <1>7, GoesOnChanged DEF ChangeRoster, lobbyVars
<1>8. CASE CloseSeat
  <2>1. c \in Clients
    BY <1>2, <1>8 DEF CloseSeat, Busy
  <2>2. agenda' = <<>> \o Rest
    BY <1>4, <1>8, ConcatEmptySeq DEF CloseSeat
  <2>3. closed' \subseteq Clients
    BY <1>1, <1>8, <2>1 DEF CloseSeat
  <2> QED
    BY <1>0, <1>3, <1>8, <2>2, <2>3, GoesOn DEF CloseSeat
<1>9. CASE EndMatch
  <2>1. record' \in BOOLEAN /\ phase' \in Phases
    BY <1>1, <1>9 DEF EndMatch
  <2> QED
    BY <1>0, <1>1, <1>3, <1>9, <2>1, GoesOnChanged DEF EndMatch
<1> QED
  BY <1>5, <1>6, <1>7, <1>8, <1>9
-----------------------------------------------------------------------------
(***************************************************************************)
(* The handlers.                                                           *)
(***************************************************************************)
\* A handler starts with no frame on its agenda.
LEMMA StartOK ==
  ASSUME IInv, NEW todo \in Seq(Calm), Start(todo), RostersUnchanged \/ RostersOutdated,
         phase' \in Phases, record' \in BOOLEAN, UNCHANGED <<seated, frame>>
  PROVE  IInv'
<1>1. /\ out' \in [Clients -> Seq(Messages)] /\ heard' \in [Clients -> BOOLEAN]
      /\ \A c \in Clients : Len(out'[c]) <= Depth
      /\ Flow(out', shown, frame)
  BY OutboxesOutdated DEF IInv, TypeOK, RostersUnchanged
<1>2. agenda' \in Seq(Entries) /\ Aims(agenda') /\ Due(agenda', out', shown, frame)
  BY CalmDue DEF Start
<1> QED
  BY <1>1, <1>2 DEF Start, IInv, TypeOK, seatVars

\* The agenda of Shutdown.
LEMMA GoodbyesCalm ==
  ASSUME TypeOK
  PROVE  [i \in 1 .. 2 * Cardinality(seated) |->
            LET c == InOrder(seated)[(i + 1) \div 2]
            IN  IF i % 2 = 1 THEN Send(c, ControlMsg) ELSE Close(c)] \in Seq(Calm)
<1> DEFINE n == Cardinality(seated)
           list == InOrder(seated)
<1>1. Clients \in SUBSET Nat /\ IsFiniteSet(Clients) /\ seated \subseteq Clients
  <2>1. Clients \in SUBSET Nat /\ IsFiniteSet(Clients)
    BY OutboxAssumption, FS_Interval DEF Clients
  <2> QED
    BY <2>1 DEF TypeOK
<1>2. seated \in SUBSET Nat /\ IsFiniteSet(seated) /\ n \in Nat
  BY <1>1, FS_Subset, FS_CardinalityType
<1>3. list \in [1 .. n -> seated]
  BY <1>2, CanBeListed DEF InOrder
<1> HIDE DEF n, list
<1>4. ASSUME NEW i \in 1 .. 2 * n
      PROVE  (IF i % 2 = 1 THEN Send(list[(i + 1) \div 2], ControlMsg)
                           ELSE Close(list[(i + 1) \div 2])) \in Calm
  <2>1. (i + 1) \div 2 \in 1 .. n
    BY <1>2
  <2>2. list[(i + 1) \div 2] \in Clients
    BY <1>1, <1>3, <2>1
  <2> QED
    BY <2>2, OwnEntries DEF Plain
<1>5. 2 * n \in Nat
  BY <1>2
<1>6. [i \in 1 .. 2 * n |-> IF i % 2 = 1 THEN Send(list[(i + 1) \div 2], ControlMsg)
                                         ELSE Close(list[(i + 1) \div 2])] \in Seq(Calm)
  BY <1>4, <1>5
<1> QED
  BY <1>6 DEF n, list

\* Every handler starts so.
LEMMA HandlerOK ==
  ASSUME IInv, Handler
  PROVE  IInv'
<1>1. /\ phase \in Phases /\ record \in BOOLEAN
      /\ {"open", "countdown", "in_game", "closed"} \subseteq Phases
  BY DEF IInv, TypeOK, Phases
<1>2. Plain \subseteq Calm
  BY DEF Plain
<1>3. /\ Broadcast \in Calm /\ Each(ControlMsg) \in Calm /\ Each(PulseMsg) \in Calm
      /\ Entry("abort") \in Calm /\ Entry("change") \in Calm /\ Entry("end") \in Calm
      /\ Entry("board") \in Calm
      /\ \A c \in Clients : /\ Send(c, ControlMsg) \in Calm /\ Send(c, PulseMsg) \in Calm
                            /\ Remove(c) \in Calm
  BY <1>2, OwnEntries
<1> USE DEF Begin, BeginChange, BeginInPhase, lobbyVars
<1>4. CASE Announce
  <2>1. <<Broadcast>> \in Seq(Calm)
    BY <1>3
  <2> QED
    BY <1>1, <1>4, <2>1, StartOK DEF Announce
<1>5. CASE BeginCountdown
  <2>1. <<Each(ControlMsg), Entry("board"), Broadcast>> \in Seq(Calm)
    BY <1>3
  <2> QED
    BY <1>1, <1>5, <2>1, StartOK DEF BeginCountdown
<1>6. CASE AbortCountdown
  <2>1. <<Entry("abort")>> \in Seq(Calm)
    BY <1>3
  <2> QED
    BY <1>1, <1>6, <2>1, StartOK DEF AbortCountdown
<1>7. CASE BeginPlay
  <2>1. <<Broadcast>> \in Seq(Calm)
    BY <1>3
  <2> QED
    BY <1>1, <1>7, <2>1, StartOK DEF BeginPlay
<1>8. CASE \E over \in BOOLEAN : Tick(over)
  <2>1. <<Entry("board"), Entry("end")>> \in Seq(Calm) /\ <<Entry("board")>> \in Seq(Calm)
    BY <1>3
  <2> QED
    BY <1>1, <1>8, <2>1, StartOK DEF Tick
<1>9. CASE FinalizeRecord
  <2>1. <<Each(ControlMsg), Entry("abort")>> \in Seq(Calm)
    BY <1>3
  <2> QED
    BY <1>1, <1>9, <2>1, StartOK DEF FinalizeRecord
<1>10. CASE Heartbeat
  <2>1. <<Each(PulseMsg)>> \in Seq(Calm)
    BY <1>3
  <2> QED
    BY <1>1, <1>10, <2>1, StartOK DEF Heartbeat
<1>11. CASE Shutdown
  BY <1>1, <1>11, GoodbyesCalm, StartOK DEF Shutdown, IInv
<1>12. ASSUME NEW c \in Clients, TimeOut(c) \/ Kick(c)
       PROVE  IInv'
  <2>1. /\ <<Remove(c), Broadcast>> \in Seq(Calm)
        /\ <<Send(c, ControlMsg), Remove(c), Broadcast>> \in Seq(Calm)
    BY <1>3
  <2> QED
    BY <1>1, <1>12, <2>1, StartOK DEF TimeOut, Kick
<1>13. ASSUME NEW c \in Clients, NEW back \in BOOLEAN,
              ClientReady(c, back) \/ ClientPing(c, back) \/ ClientLeave(c, back)
       PROVE  IInv'
  <2>1. PICK todo \in {<<Entry("change")>>, <<Send(c, PulseMsg)>>, <<Remove(c), Broadcast>>} :
          HandleClient(c, back, todo)
    BY <1>13 DEF ClientReady, ClientPing, ClientLeave
  <2>2. /\ <<Entry("change")>> \in Seq(Calm) /\ <<Send(c, PulseMsg)>> \in Seq(Calm)
        /\ <<Remove(c), Broadcast>> \in Seq(Calm) /\ <<Broadcast>> \in Seq(Calm)
    BY <1>3
  <2>3. todo \in Seq(Calm)
    BY <2>2
  <2>4. <<Broadcast>> \o todo \in Seq(Calm)
    BY <2>2, <2>3, ConcatProperties
  <2> QED
    BY <1>1, <2>1, <2>3, <2>4, StartOK DEF HandleClient
<1>14. ASSUME NEW c \in Clients, Disconnect(c)
       PROVE  IInv'
  <2>1. <<Remove(c), Broadcast>> \in Seq(Calm) /\ <<>> \in Seq(Calm)
    BY <1>3
  <2>2. agenda' \in Seq(Entries) /\ Aims(agenda') /\ Due(agenda', out, shown, frame)
    BY <1>14, <2>1, CalmDue DEF Disconnect
  <2>3. link' \in [Clients -> {"up", "down", "done"}]
    BY <1>14 DEF Disconnect, IInv, TypeOK
  <2> QED
    BY <1>14, <2>2, <2>3 DEF Disconnect, IInv, TypeOK
<1> QED
  BY <1>4, <1>5, <1>6, <1>7, <1>8, <1>9, <1>10, <1>11, <1>12, <1>13, <1>14 DEF Handler
-----------------------------------------------------------------------------
(***************************************************************************)
(* The goroutines of a seat, and the result.                               *)
(***************************************************************************)
\* The head of an outbox is taken by its writer, which may show it to the client.
LEMMA Taken ==
  ASSUME IInv, NEW c \in Clients, out[c] # <<>>, out' = [out EXCEPT ![c] = Tail(@)],
         \/ shown' = shown
         \/ Head(out[c]).kind = "frame" /\ shown' = [shown EXCEPT ![c] = Head(out[c]).frame]
  PROVE  /\ out' \in [Clients -> Seq(Messages)] /\ \A d \in Clients : Len(out'[d]) <= Depth
         /\ shown' \in [Clients -> 0 .. MaxFrames]
         /\ Flow(out', shown', frame) /\ Due(agenda, out', shown', frame)
<1> DEFINE q == out[c]
           low == IF shown' = shown THEN shown[c] ELSE Head(q).frame
<1>1. /\ q \in Seq(Messages) /\ q # <<>> /\ shown[c] \in Nat /\ frame \in Nat
      /\ Len(q) \in Nat /\ Len(q) <= Depth
  BY QueuesTyped DEF IInv
<1> HIDE DEF q
<1>2. ASSUME NEW high \in Int, Ascending(q, shown[c], high), shown[c] <= high
      PROVE  Ascending(Tail(q), low, high) /\ low <= high
  BY <1>1, <1>2, AscendingTail DEF q
<1>3. Head(q) \in Messages /\ Tail(q) \in Seq(Messages) /\ Len(Tail(q)) <= Depth
  <2>1. Len(Tail(q)) = Len(q) - 1 /\ Head(q) \in Messages /\ Tail(q) \in Seq(Messages)
    BY <1>1
  <2> QED
    BY <1>1, <2>1, OutboxAssumption
<1>4. Head(q).frame \in 0 .. MaxFrames
  BY <1>3 DEF Messages
<1>5. /\ out' \in [Clients -> Seq(Messages)]
      /\ \A d \in Clients : out'[d] = IF d = c THEN Tail(q) ELSE out[d]
  BY <1>3 DEF IInv, TypeOK, q
<1>6. /\ shown' \in [Clients -> 0 .. MaxFrames]
      /\ \A d \in Clients : shown'[d] = IF d = c THEN low ELSE shown[d]
  BY <1>4 DEF IInv, TypeOK, q
<1> HIDE DEF low
<1>7. \A d \in Clients : Len(out'[d]) <= Depth
  BY <1>3, <1>5, QueuesTyped DEF IInv
<1>8. Flow(out', shown', frame)
  BY <1>1, <1>2, <1>5, <1>6 DEF IInv, Flow, q
<1>9. \A d \in Clients : Awaits(d, out, shown, frame) => Awaits(d, out', shown', frame)
  <2> SUFFICES ASSUME NEW d \in Clients, Awaits(d, out, shown, frame)
               PROVE  Awaits(d, out', shown', frame)
    OBVIOUS
  <2>1. CASE d # c
    BY <1>5, <1>6, <2>1 DEF Awaits
  <2>2. CASE d = c
    <3>1. shown[c] < frame /\ Ascending(q, shown[c], frame - 1)
      BY <2>2 DEF Awaits, q
    <3>2. frame - 1 \in Int /\ shown[c] <= frame - 1
      BY <1>1, <3>1
    <3>3. Ascending(Tail(q), low, frame - 1) /\ low <= frame - 1
      BY <1>2, <3>1, <3>2
    <3>4. shown'[c] = low /\ out'[c] = Tail(q) /\ shown'[c] \in 0 .. MaxFrames
      BY <1>5, <1>6
    <3>5. low < frame
      BY <1>1, <3>3, <3>4
    <3> QED
      BY <2>2, <3>3, <3>4, <3>5 DEF Awaits
  <2> QED
    BY <2>1, <2>2
<1>10. Due(agenda, out', shown', frame)
  <2>1. \A i \in 1 .. Len(agenda) : IsFrame(agenda[i]) => agenda[i].to \in Clients
    BY DEF IInv, Aims, Aimed, IsFrame
  <2> QED
    BY <1>9, <2>1 DEF IInv, Due
<1> QED
  BY <1>5, <1>6, <1>7, <1>8, <1>10

\* What a seat's goroutines and the network do.
LEMMA SeatOK ==
  ASSUME IInv, NEW c \in Clients, WriterStep(c) \/ HangUp(c) \/ NetworkFails(c)
  PROVE  IInv'
<1>1. UNCHANGED <<lobbyVars, agenda, closed, panic, robbed, fellBehind>>
  BY DEF WriterStep, HangUp, NetworkFails
<1>2. /\ link' \in [Clients -> {"up", "down", "done"}]
      /\ writer' \in [Clients -> {"run", "drain", "done"}] /\ heard' \in [Clients -> BOOLEAN]
  <2>1. CASE HangUp(c) \/ NetworkFails(c)
    BY <2>1 DEF HangUp, NetworkFails, IInv, TypeOK
  <2>2. CASE Deliver(c)
    <3>1. out[c] # <<>> /\ out[c] \in Seq(Messages)
      BY <2>2, QueuesTyped DEF Deliver, IInv
    <3>2. Head(out[c]) \in Messages
      BY <3>1
    <3>3. Head(out[c]).current \in BOOLEAN
      BY <3>2 DEF Messages
    <3> QED
      BY <2>2, <3>3 DEF Deliver, IInv, TypeOK
  <2>3. CASE WriteFails(c)
    <3>1. (IF link[c] = "up" THEN "down" ELSE link[c]) \in {"up", "down", "done"}
      BY DEF IInv, TypeOK
    <3> QED
      BY <2>3, <3>1 DEF WriteFails, IInv, TypeOK
  <2>4. CASE Drain(c) \/ WriterEnds(c)
    BY <2>4 DEF Drain, WriterEnds, IInv, TypeOK
  <2> QED
    BY <2>1, <2>2, <2>3, <2>4 DEF WriterStep
<1>3. CASE out' = out /\ shown' = shown
  BY <1>1, <1>2, <1>3 DEF IInv, TypeOK, lobbyVars
<1>4. CASE /\ out[c] # <<>> /\ out' = [out EXCEPT ![c] = Tail(@)]
           /\ \/ shown' = shown
              \/ /\ Head(out[c]).kind = "frame"
                 /\ shown' = [shown EXCEPT ![c] = Head(out[c]).frame]
  <2>1. /\ out' \in [Clients -> Seq(Messages)] /\ \A d \in Clients : Len(out'[d]) <= Depth
        /\ shown' \in [Clients -> 0 .. MaxFrames]
        /\ Flow(out', shown', frame) /\ Due(agenda, out', shown', frame)
    BY <1>4, Taken
  <2> QED
    BY <1>1, <1>2, <2>1 DEF IInv, TypeOK, lobbyVars
<1>5. \/ out' = out /\ shown' = shown
      \/ /\ out[c] # <<>> /\ out' = [out EXCEPT ![c] = Tail(@)]
         /\ \/ shown' = shown
            \/ /\ Head(out[c]).kind = "frame"
               /\ shown' = [shown EXCEPT ![c] = Head(out[c]).frame]
  BY DEF WriterStep, Deliver, WriteFails, Drain, WriterEnds, HangUp, NetworkFails
<1> QED
  BY <1>3, <1>4, <1>5

\* A lobby starts with empty outboxes.
LEMMA InitOK == Init => IInv
<1> SUFFICES ASSUME Init PROVE IInv
  OBVIOUS
<1>1. /\ agenda = <<>> /\ frame = 0 /\ \A c \in Clients : out[c] = <<>> /\ shown[c] = 0
  BY DEF Init
<1>2. MaxFrames \in Nat /\ Depth \in Nat /\ 0 \in 0 .. MaxFrames
  BY OutboxAssumption
<1>3. <<>> \in Seq(Entries) /\ <<>> \in Seq(Messages) /\ Len(<<>>) = 0
  OBVIOUS
<1>4. TypeOK
  <2>1. out \in [Clients -> Seq(Messages)]
    <3>1. out = [c \in Clients |-> <<>>]
      BY DEF Init
    <3> QED
      BY ONLY <3>1, <1>3
  <2>2. \A c \in Clients : Len(out[c]) <= Depth
    BY <1>1, <1>2, <1>3
  <2>3. shown \in [Clients -> 0 .. MaxFrames] /\ frame \in 0 .. MaxFrames
    <3>1. shown = [c \in Clients |-> 0] /\ frame = 0
      BY DEF Init
    <3> QED
      BY ONLY <3>1, <1>2
  <2>4. agenda \in Seq(Entries)
    BY ONLY <1>1, <1>3
  <2>5. /\ link \in [Clients -> {"up", "down", "done"}]
        /\ writer \in [Clients -> {"run", "drain", "done"}]
        /\ heard \in [Clients -> BOOLEAN]
    BY DEF Init
  <2>6. /\ phase \in Phases /\ seated \subseteq Clients /\ record \in BOOLEAN
        /\ closed \subseteq Clients /\ robbed \subseteq Clients /\ fellBehind \in BOOLEAN
        /\ panic \in {"none", "send on closed channel"}
    BY DEF Init, Phases
  <2> QED
    BY <2>1, <2>2, <2>3, <2>4, <2>5, <2>6 DEF TypeOK
<1>5. Aims(agenda) /\ Due(agenda, out, shown, frame)
  BY <1>1 DEF Aims, Due
<1>6. Flow(out, shown, frame)
  BY <1>1, <1>2 DEF Flow, Ascending
<1> QED
  BY <1>4, <1>5, <1>6 DEF IInv

\* Every step keeps the invariant.
LEMMA StepOK == IInv /\ [Next]_vars => IInv'
<1> SUFFICES ASSUME IInv, [Next]_vars PROVE IInv'
  OBVIOUS
<1>1. CASE Handler
  BY <1>1, HandlerOK
<1>2. CASE HostStep
  BY <1>2, SendToOK, LoopOK, ShowBoardOK, LobbyStepsOK DEF HostStep
<1>3. CASE \E c \in Clients : WriterStep(c) \/ HangUp(c) \/ NetworkFails(c)
  BY <1>3, SeatOK
<1>4. CASE UNCHANGED vars
  BY <1>4 DEF vars, lobbyVars, clientVars, seatVars, IInv, TypeOK
<1> QED
  BY <1>1, <1>2, <1>3, <1>4 DEF Next

\* The invariant of agenda, outboxes and screens.
LEMMA Invariant == Spec => []IInv
  BY InitOK, StepOK, PTL DEF Spec

\* No outbox ever holds more than its channel has room for, whatever a handler sends.
THEOREM OutboxTyped == Spec => []TypeOK
<1>1. IInv => TypeOK
  BY DEF IInv
<1> QED
  BY <1>1, Invariant, PTL

\* A slow client misses frames and never sees one after a newer one, though frames
\* make room for frames.
THEOREM FramesAlwaysInOrder == Spec => []FramesInOrder
<1>1. IInv => FramesInOrder
  <2> SUFFICES ASSUME IInv, NEW c \in Clients, NEW i \in FramesIn(out[c])
               PROVE  /\ shown[c] < out[c][i].frame
                      /\ \A j \in FramesIn(out[c]) : i < j => out[c][i].frame < out[c][j].frame
    BY DEF FramesInOrder
  <2>1. Ascending(out[c], shown[c], frame) /\ out[c] \in Seq(Messages)
    BY QueuesTyped DEF IInv, Flow
  <2>2. Len(out[c]) \in Nat /\ FramesIn(out[c]) = {k \in 1 .. Len(out[c]) : out[c][k].kind = "frame"}
    BY <2>1 DEF FramesIn
  <2> QED
    BY <2>1, <2>2 DEF Ascending
<1> QED
  BY <1>1, Invariant, PTL
-----------------------------------------------------------------------------
(***************************************************************************)
(* Rosters.  As long as nobody fell behind, a seat whose client lacks the  *)
(* current roster is awaited on the agenda: by the roster itself, or by an *)
(* entry that ends in a broadcast.  The rosters of an agenda are part of   *)
(* the sends it begins with, so nothing outdates them on the way.          *)
(***************************************************************************)
IsRoster(e) == e.op = "send" /\ e.msg.kind = "lobby"
Telling == {"broadcast", "abort", "change", "end"}

Orderly(todo) ==
  \A i \in 1 .. Len(todo) :
    /\ IsRoster(todo[i]) => todo[i].msg.current /\ \A j \in 1 .. i : todo[j].op = "send"
    /\ todo[i].op = "each" => todo[i].msg.kind # "lobby"
    /\ todo[i].op = "remove" => \E j \in i + 1 .. Len(todo) : todo[j].op = "broadcast"

NoRosters(todo) == \A i \in 1 .. Len(todo) : ~ IsRoster(todo[i])
Leaving(todo) == \A i \in 1 .. Len(todo) : todo[i].op \in {"send", "close"}
Awaited(todo, c) ==
  \E i \in 1 .. Len(todo) : todo[i].op \in Telling \/ (IsRoster(todo[i]) /\ todo[i].to = c)

\* The last roster of the queue q, or h if it has none, is current.
Fresh(q, h) ==
  \/ \E i \in 1 .. Len(q) : /\ q[i].kind = "lobby" /\ q[i].current
                            /\ \A j \in i + 1 .. Len(q) : q[j].kind # "lobby"
  \/ h /\ \A i \in 1 .. Len(q) : q[i].kind # "lobby"

RInv ==
  ~ fellBehind =>
    /\ Orderly(agenda)
    /\ phase = "closed" => Leaving(agenda)
    /\ phase # "closed" => \A c \in seated \ robbed :
         writer[c] = "run" => Awaited(agenda, c) \/ Fresh(out[c], heard[c])

\* A client that reads its outbox.
LEMMA FreshTail ==
  ASSUME NEW q \in Seq(Messages), q # <<>>, NEW h, Fresh(q, h)
  PROVE  /\ Head(q).kind # "lobby" => Fresh(Tail(q), h)
         /\ Head(q).kind = "lobby" => Fresh(Tail(q), Head(q).current)
<1> DEFINE t == Tail(q)
<1>1. /\ Head(q) = q[1] /\ Len(q) \in Nat \ {0}
      /\ t \in Seq(Messages) /\ Len(t) = Len(q) - 1
      /\ \A i \in 1 .. Len(t) : t[i] = q[i + 1]
  BY HeadTailProperties, EmptySeq
<1> HIDE DEF t
<1>2. \A i \in 1 .. Len(t) : i + 1 \in 1 .. Len(q) /\ t[i] = q[i + 1]
  BY <1>1
<1>3. CASE \A i \in 1 .. Len(q) : q[i].kind # "lobby"
  <2>1. h /\ Head(q).kind # "lobby"
    BY <1>1, <1>3 DEF Fresh
  <2>2. \A i \in 1 .. Len(t) : t[i].kind # "lobby"
    BY <1>2, <1>3
  <2> QED
    BY <2>1, <2>2 DEF Fresh, t
<1>4. ASSUME NEW i \in 1 .. Len(q), q[i].kind = "lobby", q[i].current,
             \A j \in i + 1 .. Len(q) : q[j].kind # "lobby"
      PROVE  /\ Head(q).kind # "lobby" => Fresh(t, h)
             /\ Head(q).kind = "lobby" => Fresh(t, Head(q).current)
  <2>1. CASE i = 1
    <3>1. \A k \in 1 .. Len(t) : k + 1 \in 1 + 1 .. Len(q)
      BY <1>1
    <3>2. \A k \in 1 .. Len(t) : t[k].kind # "lobby"
      BY <1>2, <1>4, <2>1, <3>1
    <3> QED
      BY <1>1, <1>4, <2>1, <3>2 DEF Fresh
  <2>2. CASE i # 1
    <3>1. i - 1 \in 1 .. Len(t) /\ t[i - 1] = q[i]
      <4>1. i - 1 \in 1 .. Len(t) /\ (i - 1) + 1 = i
        BY <1>1, <2>2
      <4> QED
        BY <1>2, <4>1
    <3>2. \A k \in (i - 1) + 1 .. Len(t) : k \in 1 .. Len(t) /\ k + 1 \in i + 1 .. Len(q)
      BY <1>1, <2>2
    <3>3. \A k \in (i - 1) + 1 .. Len(t) : t[k].kind # "lobby"
      BY <1>2, <1>4, <3>2
    <3> QED
      BY <1>4, <3>1, <3>3 DEF Fresh
  <2> QED
    BY <2>1, <2>2
<1> QED
  BY <1>3, <1>4 DEF Fresh, t

\* A message joins an outbox: a roster that is current makes it fresh.
LEMMA FreshAppend ==
  ASSUME NEW q \in Seq(Messages), NEW h, NEW m \in Messages,
         \/ m.kind # "lobby" /\ Fresh(q, h)
         \/ m.kind = "lobby" /\ m.current
  PROVE  Fresh(Append(q, m), h)
<1> DEFINE a == Append(q, m)
<1>1. /\ Len(q) \in Nat /\ Len(a) = Len(q) + 1 /\ a[Len(q) + 1] = m
      /\ \A i \in 1 .. Len(q) : a[i] = q[i]
  BY AppendProperties
<1> HIDE DEF a
<1>2. /\ \A i \in 1 .. Len(a) : i \in 1 .. Len(q) \/ (i = Len(a) /\ a[i] = m)
      /\ \A i \in 1 .. Len(q) : i \in 1 .. Len(a) /\ a[i] = q[i]
      /\ Len(a) \in 1 .. Len(a) /\ a[Len(a)] = m
  BY <1>1
<1>3. CASE m.kind = "lobby" /\ m.current
  <2>1. \A j \in Len(a) + 1 .. Len(a) : FALSE
    BY <1>1
  <2> QED
    BY <1>2, <1>3, <2>1 DEF Fresh, a
<1>4. CASE m.kind # "lobby" /\ Fresh(q, h)
  <2>1. CASE h /\ \A i \in 1 .. Len(q) : q[i].kind # "lobby"
    <3>1. \A i \in 1 .. Len(a) : a[i].kind # "lobby"
      BY <1>2, <1>4, <2>1
    <3> QED
      BY <2>1, <3>1 DEF Fresh, a
  <2>2. ASSUME NEW i \in 1 .. Len(q), q[i].kind = "lobby", q[i].current,
               \A j \in i + 1 .. Len(q) : q[j].kind # "lobby"
        PROVE  Fresh(a, h)
    <3>1. \A j \in i + 1 .. Len(a) : j \in i + 1 .. Len(q) \/ a[j] = m
      BY <1>1
    <3>2. \A j \in i + 1 .. Len(q) : j \in 1 .. Len(q)
      BY <1>1
    <3>3. \A j \in i + 1 .. Len(a) : a[j].kind # "lobby"
      BY <1>2, <1>4, <2>2, <3>1, <3>2
    <3> QED
      BY <1>2, <2>2, <3>3 DEF Fresh
  <2> QED
    BY <1>4, <2>1, <2>2 DEF Fresh, a
<1> QED
  BY <1>3, <1>4

\* An entry that is done leaves an orderly agenda: without rosters unless it was a
\* send, and with a broadcast if it was a removal.
LEMMA OrderlyRest ==
  ASSUME NEW todo \in Seq(Entries), todo # <<>>, Orderly(todo)
  PROVE  /\ Tail(todo) \in Seq(Entries) /\ Orderly(Tail(todo))
         /\ Head(todo).op # "send" => NoRosters(Tail(todo))
         /\ Head(todo).op = "remove" => \A c : Awaited(Tail(todo), c)
         /\ Head(todo).op = "each" => Head(todo).msg.kind # "lobby"
         /\ IsRoster(Head(todo)) => Head(todo).msg.current
         /\ Leaving(todo) => Leaving(Tail(todo)) /\ Head(todo).op \in {"send", "close"}
         /\ \A c : Awaited(todo, c) => \/ Head(todo).op \in Telling
                                       \/ IsRoster(Head(todo)) /\ Head(todo).to = c
                                       \/ Awaited(Tail(todo), c)
<1> DEFINE t == Tail(todo)
<1>1. /\ Head(todo) = todo[1] /\ Len(todo) \in Nat \ {0}
      /\ t \in Seq(Entries) /\ Len(t) = Len(todo) - 1
      /\ \A i \in 1 .. Len(t) : t[i] = todo[i + 1]
  BY HeadTailProperties, EmptySeq
<1> HIDE DEF t
<1>2. /\ 1 \in 1 .. Len(todo)
      /\ \A i \in 1 .. Len(t) : i + 1 \in 1 .. Len(todo) /\ t[i] = todo[i + 1]
      /\ \A i \in 1 .. Len(todo) : i = 1 \/ (i - 1 \in 1 .. Len(t) /\ t[i - 1] = todo[i])
  <2>1. \A i \in 1 .. Len(todo) : i = 1 \/ (i - 1 \in 1 .. Len(t) /\ (i - 1) + 1 = i)
    BY <1>1
  <2> QED
    BY <1>1, <2>1
<1>3. \A i \in 1 .. Len(t) : 1 \in 1 .. i + 1 /\ \A j \in 1 .. i : j + 1 \in 1 .. i + 1 /\ j \in 1 .. Len(t)
  BY <1>1
<1>4. \A i \in 1 .. Len(t) : \A j \in (i + 1) + 1 .. Len(todo) :
        /\ j - 1 \in i + 1 .. Len(t) /\ j \in 1 .. Len(todo) /\ j # 1
  BY <1>1
<1>5. ASSUME NEW i \in 1 .. Len(t)
      PROVE  /\ IsRoster(t[i]) => t[i].msg.current /\ \A j \in 1 .. i : t[j].op = "send"
             /\ t[i].op = "each" => t[i].msg.kind # "lobby"
             /\ t[i].op = "remove" => \E j \in i + 1 .. Len(t) : t[j].op = "broadcast"
             /\ IsRoster(t[i]) => Head(todo).op = "send"
  <2>1. /\ IsRoster(t[i]) => t[i].msg.current /\ \A j \in 1 .. i + 1 : todo[j].op = "send"
        /\ t[i].op = "each" => t[i].msg.kind # "lobby"
        /\ t[i].op = "remove" => \E j \in (i + 1) + 1 .. Len(todo) : todo[j].op = "broadcast"
    BY <1>2 DEF Orderly
  <2>2. ASSUME IsRoster(t[i]), NEW j \in 1 .. i PROVE t[j].op = "send"
    <3>1. j + 1 \in 1 .. i + 1 /\ t[j] = todo[j + 1]
      BY <1>2, <1>3
    <3> QED
      BY <2>1, <2>2, <3>1
  <2>3. ASSUME t[i].op = "remove" PROVE \E j \in i + 1 .. Len(t) : t[j].op = "broadcast"
    <3>1. PICK j \in (i + 1) + 1 .. Len(todo) : todo[j].op = "broadcast"
      BY <2>1, <2>3
    <3>2. j - 1 \in i + 1 .. Len(t) /\ t[j - 1] = todo[j]
      BY <1>2, <1>4
    <3> QED
      BY <3>1, <3>2
  <2>4. IsRoster(t[i]) => Head(todo).op = "send"
    BY <1>1, <1>3, <2>1
  <2> QED
    BY <2>1, <2>2, <2>3, <2>4
<1>6. Orderly(t) /\ (Head(todo).op # "send" => NoRosters(t))
  BY <1>5 DEF Orderly, NoRosters
<1>7. Head(todo).op = "remove" => \A c : Awaited(t, c)
  <2> SUFFICES ASSUME Head(todo).op = "remove", NEW c PROVE Awaited(t, c)
    OBVIOUS
  <2>1. PICK j \in 1 + 1 .. Len(todo) : todo[j].op = "broadcast"
    BY <1>1, <1>2 DEF Orderly
  <2>2. j \in 1 .. Len(todo) /\ j # 1
    BY <1>1
  <2>3. j - 1 \in 1 .. Len(t) /\ t[j - 1].op = "broadcast"
    BY <1>2, <2>1, <2>2
  <2> QED
    BY <2>3 DEF Awaited, Telling
<1>8. /\ Head(todo).op = "each" => Head(todo).msg.kind # "lobby"
      /\ IsRoster(Head(todo)) => Head(todo).msg.current
  BY <1>1, <1>2 DEF Orderly
<1>9. Leaving(todo) => Leaving(t) /\ Head(todo).op \in {"send", "close"}
  BY <1>1, <1>2 DEF Leaving
<1>10. \A c : Awaited(todo, c) => \/ Head(todo).op \in Telling
                                  \/ IsRoster(Head(todo)) /\ Head(todo).to = c
                                  \/ Awaited(t, c)
  BY <1>1, <1>2 DEF Awaited
<1> QED
  BY <1>1, <1>6, <1>7, <1>8, <1>9, <1>10 DEF t

\* Entries join an agenda that has no rosters.
LEMMA OrderlyInFront ==
  ASSUME NEW p \in Seq(Entries), NEW r \in Seq(Entries), Orderly(p), Orderly(r), NoRosters(r)
  PROVE  /\ Orderly(p \o r)
         /\ \A c : Awaited(p, c) \/ Awaited(r, c) => Awaited(p \o r, c)
         /\ Leaving(p) /\ Leaving(r) => Leaving(p \o r)
<1> DEFINE a == p \o r
<1>1. /\ a \in Seq(Entries) /\ Len(a) = Len(p) + Len(r)
      /\ Len(p) \in Nat /\ Len(r) \in Nat
      /\ \A i \in 1 .. Len(p) + Len(r) : a[i] = IF i <= Len(p) THEN p[i] ELSE r[i - Len(p)]
  BY ConcatProperties
<1> HIDE DEF a
<1>2. /\ \A i \in 1 .. Len(p) : i \in 1 .. Len(a) /\ a[i] = p[i]
      /\ \A i \in 1 .. Len(r) : i + Len(p) \in 1 .. Len(a) /\ a[i + Len(p)] = r[i]
      /\ \A i \in 1 .. Len(a) : \/ i \in 1 .. Len(p) /\ a[i] = p[i]
                                \/ i - Len(p) \in 1 .. Len(r) /\ a[i] = r[i - Len(p)]
  <2>1. \A i \in 1 .. Len(p) : i \in 1 .. Len(a) /\ a[i] = p[i]
    BY <1>1
  <2>2. \A i \in 1 .. Len(a) : \/ i \in 1 .. Len(p) /\ a[i] = p[i]
                               \/ i - Len(p) \in 1 .. Len(r) /\ a[i] = r[i - Len(p)]
    BY <1>1
  <2>3. ASSUME NEW i \in 1 .. Len(r) PROVE i + Len(p) \in 1 .. Len(a) /\ a[i + Len(p)] = r[i]
    <3>1. /\ i + Len(p) \in 1 .. Len(p) + Len(r) /\ ~ (i + Len(p) <= Len(p))
          /\ (i + Len(p)) - Len(p) = i
      BY <1>1
    <3> QED
      BY <1>1, <3>1
  <2> QED
    BY <2>1, <2>2, <2>3
<1>3. ASSUME NEW i \in 1 .. Len(a)
      PROVE  /\ IsRoster(a[i]) => a[i].msg.current /\ \A j \in 1 .. i : a[j].op = "send"
             /\ a[i].op = "each" => a[i].msg.kind # "lobby"
             /\ a[i].op = "remove" => \E j \in i + 1 .. Len(a) : a[j].op = "broadcast"
  <2>1. CASE i \in 1 .. Len(p) /\ a[i] = p[i]
    <3>1. /\ IsRoster(p[i]) => p[i].msg.current /\ \A j \in 1 .. i : p[j].op = "send"
          /\ p[i].op = "each" => p[i].msg.kind # "lobby"
          /\ p[i].op = "remove" => \E j \in i + 1 .. Len(p) : p[j].op = "broadcast"
      BY <2>1 DEF Orderly
    <3>2. /\ \A j \in 1 .. i : j \in 1 .. Len(p)
          /\ \A j \in i + 1 .. Len(p) : j \in 1 .. Len(p) /\ j \in i + 1 .. Len(a)
      BY <1>1, <2>1
    <3> QED
      BY <1>2, <2>1, <3>1, <3>2
  <2>2. CASE i - Len(p) \in 1 .. Len(r) /\ a[i] = r[i - Len(p)]
    <3> DEFINE k == i - Len(p)
    <3>1. /\ ~ IsRoster(r[k])
          /\ r[k].op = "each" => r[k].msg.kind # "lobby"
          /\ r[k].op = "remove" => \E j \in k + 1 .. Len(r) : r[j].op = "broadcast"
      BY <2>2 DEF Orderly, NoRosters
    <3>2. \A j \in k + 1 .. Len(r) : j \in 1 .. Len(r) /\ j + Len(p) \in i + 1 .. Len(a)
      BY <1>1, <2>2
    <3> HIDE DEF k
    <3>3. r[k].op = "remove" => \E j \in i + 1 .. Len(a) : a[j].op = "broadcast"
      <4> SUFFICES ASSUME NEW j \in k + 1 .. Len(r), r[j].op = "broadcast"
                   PROVE  \E n \in i + 1 .. Len(a) : a[n].op = "broadcast"
        BY <3>1
      <4>1. j + Len(p) \in i + 1 .. Len(a) /\ a[j + Len(p)] = r[j]
        BY <1>2, <3>2
      <4> QED
        BY <4>1
    <3>4. a[i] = r[k]
      BY <2>2 DEF k
    <3> QED
      BY <3>1, <3>3, <3>4
  <2> QED
    BY <1>2, <2>1, <2>2
<1>4. Orderly(a)
  BY <1>3 DEF Orderly
<1>5. \A c : Awaited(p, c) \/ Awaited(r, c) => Awaited(a, c)
  <2>1. \A c : Awaited(p, c) => Awaited(a, c)
    BY <1>2 DEF Awaited
  <2>2. \A c : Awaited(r, c) => Awaited(a, c)
    BY <1>2 DEF Awaited
  <2> QED
    BY <2>1, <2>2
<1>6. Leaving(p) /\ Leaving(r) => Leaving(a)
  BY <1>2 DEF Leaving
<1> QED
  BY <1>4, <1>5, <1>6 DEF a

\* Where there are no rosters, none becomes outdated.
LEMMA OrderlyOutdated ==
  ASSUME NEW r \in Seq(Entries), Orderly(r), NoRosters(r)
  PROVE  /\ Outdated(r) \in Seq(Entries) /\ Orderly(Outdated(r)) /\ NoRosters(Outdated(r))
         /\ \A c : Awaited(r, c) => Awaited(Outdated(r), c)
         /\ Leaving(r) => Leaving(Outdated(r))
<1> DEFINE t == Outdated(r)
<1>1. t = [i \in 1 .. Len(r) |-> OutdatedEntry(r[i])] /\ Len(r) \in Nat
  BY DEF Outdated, OutdatedEntry
<1>2. \A i \in 1 .. Len(r) :
        /\ OutdatedEntry(r[i]) \in Entries /\ OutdatedEntry(r[i]).op = r[i].op
        /\ OutdatedEntry(r[i]).to = r[i].to /\ OutdatedEntry(r[i]).msg.kind = r[i].msg.kind
  <2>1. \A i \in 1 .. Len(r) : r[i] \in Entries
    OBVIOUS
  <2> QED
    BY <2>1, EntryOutdated
<1>3. t \in Seq(Entries) /\ Len(t) = Len(r)
  BY <1>1, <1>2
<1>4. \A i \in 1 .. Len(r) :
        t[i].op = r[i].op /\ t[i].to = r[i].to /\ t[i].msg.kind = r[i].msg.kind
  BY <1>1, <1>2
<1> HIDE DEF t
<1>5. NoRosters(t)
  BY <1>3, <1>4 DEF NoRosters, IsRoster
<1>6. ASSUME NEW i \in 1 .. Len(t)
      PROVE  /\ t[i].op = "each" => t[i].msg.kind # "lobby"
             /\ t[i].op = "remove" => \E j \in i + 1 .. Len(t) : t[j].op = "broadcast"
  <2>1. /\ r[i].op = "each" => r[i].msg.kind # "lobby"
        /\ r[i].op = "remove" => \E j \in i + 1 .. Len(r) : r[j].op = "broadcast"
    BY <1>3 DEF Orderly
  <2>2. \A j \in i + 1 .. Len(r) : j \in 1 .. Len(r)
    BY <1>1, <1>3
  <2> QED
    BY <1>3, <1>4, <2>1, <2>2
<1>7. Orderly(t)
  BY <1>5, <1>6 DEF Orderly, NoRosters
<1>8. /\ \A c : Awaited(r, c) => Awaited(t, c)
      /\ Leaving(r) => Leaving(t)
  BY <1>3, <1>4 DEF Awaited, IsRoster, Leaving
<1> QED
  BY <1>3, <1>5, <1>7, <1>8 DEF t

\* A loop over the seats has every one of them awaited if it sends a roster.
LEMMA AllAwaited ==
  ASSUME NEW m \in Messages, seated \subseteq Clients, m.kind = "lobby" => m.current
  PROVE  /\ ToAll(m) \in Seq(Entries) /\ Orderly(ToAll(m)) /\ Leaving(ToAll(m))
         /\ m.kind = "lobby" => \A c \in seated : Awaited(ToAll(m), c)
<1> DEFINE n == Cardinality(seated)
           list == InOrder(seated)
<1>1. /\ ToAll(m) \in Seq(Entries)
      /\ \A i \in 1 .. Len(ToAll(m)) : ToAll(m)[i].op = "send" /\ ToAll(m)[i].msg = m
  BY SendsToAll
<1>2. Orderly(ToAll(m)) /\ Leaving(ToAll(m))
  <2> DEFINE a == ToAll(m)
  <2>1. \A i \in 1 .. Len(a) : \A j \in 1 .. i : j \in 1 .. Len(a)
    BY <1>1
  <2> HIDE DEF a
  <2>2. \A i \in 1 .. Len(a) : a[i].op = "send" /\ a[i].msg = m
    BY <1>1 DEF a
  <2>3. Orderly(a) /\ Leaving(a)
    BY <2>1, <2>2 DEF Orderly, Leaving, IsRoster
  <2> QED
    BY <2>3 DEF a
<1>3. seated \in SUBSET Nat /\ IsFiniteSet(seated) /\ n \in Nat
  <2>1. Clients \in SUBSET Nat /\ IsFiniteSet(Clients)
    BY OutboxAssumption, FS_Interval DEF Clients
  <2> QED
    BY <2>1, FS_Subset, FS_CardinalityType
<1>4. /\ list \in [1 .. n -> seated]
      /\ \A i, j \in DOMAIN list : i < j => list[i] < list[j]
  BY <1>3, CanBeListed DEF InOrder
<1> HIDE DEF list
<1>5. list \in Injection(1 .. n, seated)
  <2>1. \A i, j \in 1 .. n : list[i] = list[j] => i = j
    <3> SUFFICES ASSUME NEW i \in 1 .. n, NEW j \in 1 .. n, list[i] = list[j] PROVE i = j
      OBVIOUS
    <3>1. list[i] \in Nat /\ list[j] \in Nat
      BY <1>3, <1>4
    <3>2. ~ (i < j) /\ ~ (j < i)
      BY <1>4, <3>1
    <3> QED
      BY <1>3, <3>2
  <2> QED
    BY <1>4, <2>1 DEF Injection, IsInjective
<1>6. IsFiniteSet(1 .. n) /\ Cardinality(1 .. n) = n
  BY <1>3, FS_Interval
<1>7. list \in Surjection(1 .. n, seated)
  BY <1>3, <1>5, <1>6, FS_Injection DEF n
<1>8. ASSUME NEW c \in seated, m.kind = "lobby" PROVE Awaited(ToAll(m), c)
  <2>1. PICK i \in 1 .. n : list[i] = c
    BY <1>7 DEF Surjection
  <2>2. ToAll(m) = [k \in 1 .. n |-> Send(list[k], m)]
    BY DEF ToAll, list
  <2> HIDE DEF n
  <2>3. ToAll(m)[i].to = c /\ Len(ToAll(m)) = n
    BY <1>1, <1>3, <2>1, <2>2 DEF Send
  <2> QED
    BY <1>1, <1>8, <2>3 DEF Awaited, IsRoster
<1> QED
  BY <1>1, <1>2, <1>8

\* Agendas of entries that are neither rosters nor removals.
Quiet(e) ==
  /\ e \in Entries /\ ~ IsRoster(e) /\ e.op # "remove"
  /\ e.op = "each" => e.msg.kind # "lobby"

LEMMA QuietOnes ==
  ASSUME NEW p \in Seq(Entries), \A i \in 1 .. Len(p) : Quiet(p[i])
  PROVE  Orderly(p) /\ NoRosters(p)
  BY DEF Orderly, NoRosters, Quiet

\* The agendas that handlers and their steps put together.
LEMMA OwnAgendas ==
  /\ <<>> \in Seq(Entries) /\ Orderly(<<>>) /\ Leaving(<<>>)
  /\ \A todo \in {<<Broadcast>>, <<Entry("abort")>>, <<Entry("change")>>,
                  <<Each(ControlMsg), Each(ControlMsg), Broadcast>>,
                  <<Each(ControlMsg), Entry("board"), Broadcast>>,
                  <<Entry("board"), Entry("end")>>, <<Each(ControlMsg), Entry("abort")>>} :
       todo \in Seq(Entries) /\ Orderly(todo) /\ NoRosters(todo) /\ \A c : Awaited(todo, c)
  /\ \A todo \in {<<Entry("board")>>, <<Each(PulseMsg)>>} :
       todo \in Seq(Entries) /\ Orderly(todo) /\ NoRosters(todo)
  /\ \A c \in Clients :
       /\ <<Send(c, PulseMsg)>> \in Seq(Entries) /\ Orderly(<<Send(c, PulseMsg)>>)
       /\ NoRosters(<<Send(c, PulseMsg)>>)
       /\ \A todo \in {<<Remove(c), Broadcast>>, <<Send(c, ControlMsg), Remove(c), Broadcast>>} :
            todo \in Seq(Entries) /\ Orderly(todo) /\ NoRosters(todo)
<1>1. /\ \A e \in {Broadcast, Each(ControlMsg), Each(PulseMsg), Entry("abort"),
                   Entry("change"), Entry("end"), Entry("board")} : Quiet(e)
      /\ \A c \in Clients : Quiet(Send(c, PulseMsg)) /\ Quiet(Send(c, ControlMsg))
      /\ \A c \in Clients : Remove(c) \in Entries /\ Remove(c).op = "remove"
      /\ Broadcast.op = "broadcast"
      /\ \A op \in {"abort", "change", "end"} : Entry(op).op = op
  <2>1. ControlMsg.kind = "control" /\ PulseMsg.kind = "pulse"
    BY DEF ControlMsg, PulseMsg
  <2>2. Plain \subseteq Entries /\ Calm \subseteq Entries
    BY DEF Plain, Calm
  <2>3. /\ {Broadcast, Each(ControlMsg), Each(PulseMsg), Entry("abort"), Entry("change"),
            Entry("end"), Entry("board")} \subseteq Entries
        /\ \A c \in Clients : /\ Send(c, PulseMsg) \in Entries /\ Send(c, ControlMsg) \in Entries
                              /\ Remove(c) \in Entries
    BY <2>2, OwnEntries
  <2>4. /\ Broadcast.op = "broadcast" /\ \A op : Entry(op).op = op
        /\ \A m : Each(m).op = "each" /\ Each(m).msg = m
        /\ \A c, m : Send(c, m).op = "send" /\ Send(c, m).msg = m
        /\ \A c : Remove(c).op = "remove"
    BY DEF Broadcast, Each, Entry, Send, Remove
  <2> HIDE DEF ControlMsg, PulseMsg, Broadcast, Each, Entry, Send, Remove
  <2> QED
    BY <2>1, <2>3, <2>4 DEF Quiet, IsRoster
<1> HIDE DEF Broadcast, Each, Entry, Send, Remove
<1>2. ASSUME NEW e, Quiet(e)
      PROVE  /\ <<e>> \in Seq(Entries) /\ Orderly(<<e>>) /\ NoRosters(<<e>>)
             /\ e.op \in Telling => \A c : Awaited(<<e>>, c)
  <2>1. <<e>> \in Seq(Entries) /\ \A i \in 1 .. Len(<<e>>) : Quiet(<<e>>[i])
    BY <1>2 DEF Quiet
  <2>2. 1 \in 1 .. Len(<<e>>) /\ <<e>>[1] = e
    OBVIOUS
  <2> QED
    BY <2>1, <2>2, QuietOnes DEF Awaited
<1>3. ASSUME NEW e, NEW f, Quiet(e), Quiet(f)
      PROVE  /\ <<e, f>> \in Seq(Entries) /\ Orderly(<<e, f>>) /\ NoRosters(<<e, f>>)
             /\ f.op \in Telling => \A c : Awaited(<<e, f>>, c)
  <2>1. <<e, f>> \in Seq(Entries) /\ \A i \in 1 .. Len(<<e, f>>) : Quiet(<<e, f>>[i])
    BY <1>3 DEF Quiet
  <2>2. 2 \in 1 .. Len(<<e, f>>) /\ <<e, f>>[2] = f
    OBVIOUS
  <2> QED
    BY <2>1, <2>2, QuietOnes DEF Awaited
<1>4. ASSUME NEW e, NEW f, NEW g, Quiet(e), Quiet(f), Quiet(g)
      PROVE  /\ <<e, f, g>> \in Seq(Entries) /\ Orderly(<<e, f, g>>) /\ NoRosters(<<e, f, g>>)
             /\ g.op \in Telling => \A c : Awaited(<<e, f, g>>, c)
  <2>1. /\ <<e, f, g>> \in Seq(Entries)
        /\ \A i \in 1 .. Len(<<e, f, g>>) : Quiet(<<e, f, g>>[i])
    BY <1>4 DEF Quiet
  <2>2. 3 \in 1 .. Len(<<e, f, g>>) /\ <<e, f, g>>[3] = g
    OBVIOUS
  <2> QED
    BY <2>1, <2>2, QuietOnes DEF Awaited
<1>5. ASSUME NEW c \in Clients
      PROVE  /\ <<Remove(c), Broadcast>> \in Seq(Entries)
             /\ Orderly(<<Remove(c), Broadcast>>) /\ NoRosters(<<Remove(c), Broadcast>>)
             /\ <<Send(c, ControlMsg), Remove(c), Broadcast>> \in Seq(Entries)
             /\ Orderly(<<Send(c, ControlMsg), Remove(c), Broadcast>>)
             /\ NoRosters(<<Send(c, ControlMsg), Remove(c), Broadcast>>)
  <2> DEFINE x == Send(c, ControlMsg)
             y == Remove(c)
             z == Broadcast
  <2>1. Quiet(x) /\ y \in Entries /\ y.op = "remove" /\ Quiet(z) /\ z.op = "broadcast"
    BY <1>1
  <2> HIDE DEF x, y, z
  <2>2. /\ <<y, z>> \in Seq(Entries) /\ <<x, y, z>> \in Seq(Entries)
        /\ ~ IsRoster(y)
    BY <2>1 DEF Quiet, IsRoster
  <2>3. Orderly(<<y, z>>) /\ NoRosters(<<y, z>>)
    BY <2>1, <2>2 DEF Orderly, NoRosters, Quiet
  <2>4. Orderly(<<x, y, z>>) /\ NoRosters(<<x, y, z>>)
    BY <2>1, <2>2 DEF Orderly, NoRosters, Quiet
  <2> QED
    BY <2>2, <2>3, <2>4 DEF x, y, z
<1>6. <<>> \in Seq(Entries) /\ Orderly(<<>>) /\ Leaving(<<>>)
  BY DEF Orderly, Leaving
<1> QED
  BY <1>1, <1>2, <1>3, <1>4, <1>5, <1>6 DEF Telling

\* Nothing is awaited of an agenda that is done.
LEMMA NothingAwaited == \A c : ~ Awaited(<<>>, c)
  BY DEF Awaited

\* A handler that outdates rosters has a broadcast on its agenda.
LEMMA StartTells ==
  ASSUME RInv, NEW todo \in Seq(Entries), Orderly(todo), Start(todo), seated' = seated,
         \/ RostersUnchanged /\ phase' # "closed"
         \/ phase' # "closed" /\ \A c : Awaited(todo, c)
         \/ phase' = "closed" /\ Leaving(todo)
  PROVE  RInv'
<1> SUFFICES ASSUME ~ fellBehind' PROVE RInv'
  BY DEF RInv
<1>1. /\ agenda = <<>> /\ phase # "closed" /\ agenda' = todo
      /\ writer' = writer /\ robbed' = robbed /\ ~ fellBehind
  BY DEF Start, Idle, seatVars
<1>2. \A c \in seated \ robbed : writer[c] = "run" => Fresh(out[c], heard[c])
  BY <1>1, NothingAwaited DEF RInv
<1> QED
  BY <1>1, <1>2 DEF RInv, RostersUnchanged

\* A step of a handler that puts the entries p in front of the rest.
LEMMA GoesOnTelling ==
  ASSUME IInv, RInv, agenda # <<>>, Head(agenda).op # "send",
         NEW p \in Seq(Entries), Orderly(p),
         agenda' = p \o Rest \/ agenda' = p \o Outdated(Rest),
         seated' \subseteq seated, writer' = writer, robbed' = robbed, fellBehind' = fellBehind,
         phase' = "closed" => phase = "closed" /\ (Leaving(p) \/ Head(agenda).op # "close"),
         \/ \A c \in seated' : Awaited(p, c)
         \/ Head(agenda).op = "remove"
         \/ RostersUnchanged /\ phase' = phase /\ Head(agenda).op \notin Telling
  PROVE  RInv'
<1> SUFFICES ASSUME ~ fellBehind' PROVE RInv'
  BY DEF RInv
<1>1. agenda \in Seq(Entries) /\ Orderly(agenda) /\ (phase = "closed" => Leaving(agenda))
  BY DEF RInv, IInv, TypeOK
<1>2. /\ Rest \in Seq(Entries) /\ Orderly(Rest) /\ NoRosters(Rest)
      /\ Head(agenda).op = "remove" => \A c : Awaited(Rest, c)
      /\ phase = "closed" => Leaving(Rest) /\ Head(agenda).op = "close"
      /\ \A c : Awaited(agenda, c) => Head(agenda).op \in Telling \/ Awaited(Rest, c)
  BY <1>1, OrderlyRest DEF Rest, IsRoster
<1>3. PICK r \in Seq(Entries) :
        /\ agenda' = p \o r /\ Orderly(r) /\ NoRosters(r)
        /\ \A c : Awaited(Rest, c) => Awaited(r, c)
        /\ Leaving(Rest) => Leaving(r)
  BY <1>2, OrderlyOutdated
<1>4. /\ Orderly(agenda')
      /\ \A c : Awaited(p, c) \/ Awaited(Rest, c) => Awaited(agenda', c)
      /\ phase' = "closed" => Leaving(agenda')
  BY <1>2, <1>3, OrderlyInFront
<1>5. ASSUME phase' # "closed", NEW c \in seated' \ robbed, writer[c] = "run"
      PROVE  Awaited(agenda', c) \/ Fresh(out'[c], heard'[c])
  <2>1. CASE Awaited(p, c) \/ Head(agenda).op = "remove"
    BY <1>2, <1>4, <2>1
  <2>2. CASE RostersUnchanged /\ phase' = phase /\ Head(agenda).op \notin Telling
    <3>1. Awaited(agenda, c) \/ Fresh(out[c], heard[c])
      BY <1>5, <2>2 DEF RInv
    <3> QED
      BY <1>2, <1>4, <2>2, <3>1 DEF RostersUnchanged
  <2> QED
    BY <1>5, <2>1, <2>2
<1> QED
  BY <1>4, <1>5 DEF RInv

\* The steps of a handler but for its sends.
LEMMA HostStepTells ==
  ASSUME IInv, RInv,
         Loop \/ ShowBoard \/ RemoveSeat \/ Reopen \/ ChangeRoster \/ CloseSeat \/ EndMatch
  PROVE  RInv'
<1>0. /\ agenda # <<>> /\ Rest \in Seq(Entries) /\ agenda \in Seq(Entries)
      /\ Head(agenda) \in Entries /\ seated \subseteq Clients
  <2>1. agenda # <<>>
    BY DEF Loop, ShowBoard, RemoveSeat, Reopen, ChangeRoster, CloseSeat, EndMatch, Busy
  <2> QED
    BY <2>1, HeadAndRest DEF IInv, TypeOK
<1>1. Rest = <<>> \o Rest
  BY <1>0, ConcatEmptySeq
<1>2. 0 \in 0 .. MaxFrames
  BY OutboxAssumption
<1>3. CASE Busy("each") /\ agenda' = ToAll(Head(agenda).msg) \o Rest /\ Loop
  <2>1. CASE fellBehind
    BY <1>3, <2>1 DEF Loop, RInv
  <2>2. CASE ~ fellBehind
    <3>1. Head(agenda).op = "each" /\ Head(agenda).msg \in Messages
      BY <1>0, <1>3 DEF Busy, Entries
    <3>2. Head(agenda).msg.kind # "lobby"
      BY <1>0, <2>2, <3>1, OrderlyRest DEF RInv
    <3>3. /\ ToAll(Head(agenda).msg) \in Seq(Entries) /\ Orderly(ToAll(Head(agenda).msg))
          /\ Leaving(ToAll(Head(agenda).msg))
      BY <1>0, <3>1, <3>2, AllAwaited
    <3> QED
      BY <1>0, <1>3, <3>1, <3>3, GoesOnTelling
         DEF Loop, RostersUnchanged, lobbyVars, clientVars, seatVars, Telling
  <2> QED
    BY <2>1, <2>2
<1>4. CASE Busy("broadcast") /\ agenda' = ToAll(LobbyMsg) \o Rest /\ Loop
  <2>1. LobbyMsg \in Messages /\ LobbyMsg.kind = "lobby" /\ LobbyMsg.current
    BY <1>2 DEF LobbyMsg, ControlMsg, Messages
  <2>2. /\ ToAll(LobbyMsg) \in Seq(Entries) /\ Orderly(ToAll(LobbyMsg))
        /\ Leaving(ToAll(LobbyMsg)) /\ \A c \in seated : Awaited(ToAll(LobbyMsg), c)
    BY <1>0, <2>1, AllAwaited
  <2>3. Head(agenda).op = "broadcast"
    BY <1>4 DEF Busy
  <2> QED
    BY <1>0, <1>4, <2>2, <2>3, GoesOnTelling
       DEF Loop, RostersUnchanged, lobbyVars, clientVars, seatVars, Telling
<1>5. CASE ShowBoard
  <2>1. /\ Head(agenda).op = "board" /\ seated' = seated /\ writer' = writer
        /\ phase' = phase /\ RostersUnchanged /\ robbed' = robbed /\ fellBehind' = fellBehind
    BY <1>5 DEF ShowBoard, Busy, RostersUnchanged, clientVars, seatVars
  <2>2. \E p \in Seq(Entries) : Orderly(p) /\ Leaving(p) /\ agenda' = p \o Rest
    <3>1. CASE agenda' = Rest
      BY <1>1, <3>1, OwnAgendas
    <3>2. CASE frame < MaxFrames /\ agenda' = ToAll(FrameMsg(frame + 1)) \o Rest
      <4>1. frame + 1 \in 0 .. MaxFrames
        <5>1. frame \in 0 .. MaxFrames /\ MaxFrames \in Nat
          BY OutboxAssumption DEF IInv, TypeOK
        <5> QED
          BY <3>2, <5>1
      <4>2. FrameMsg(frame + 1) \in Messages /\ FrameMsg(frame + 1).kind = "frame"
        BY <4>1 DEF FrameMsg, ControlMsg, Messages
      <4> QED
        BY <1>0, <3>2, <4>2, AllAwaited
    <3> QED
      BY <1>5, <3>1, <3>2 DEF ShowBoard
  <2> QED
    BY <1>0, <2>1, <2>2, GoesOnTelling DEF Telling
<1>6. CASE RemoveSeat
  <2>1. /\ Head(agenda).op = "remove" /\ seated' \subseteq seated /\ writer' = writer
        /\ phase' = phase /\ robbed' = robbed /\ fellBehind' = fellBehind
    BY <1>6 DEF RemoveSeat, Busy, seatVars
  <2>2. \E p \in Seq(Entries) : Orderly(p) /\ (agenda' = p \o Rest \/ agenda' = p \o Outdated(Rest))
    BY <1>6, OwnAgendas DEF RemoveSeat
  <2> QED
    BY <1>0, <2>1, <2>2, GoesOnTelling
<1>7. CASE Reopen
  <2>1. /\ Head(agenda).op = "abort" /\ agenda' = <<Broadcast>> \o Outdated(Rest)
        /\ phase' = "open" /\ seated' = seated /\ writer' = writer
        /\ robbed' = robbed /\ fellBehind' = fellBehind
    BY <1>7 DEF Reopen, Busy, seatVars
  <2> QED
    BY <1>0, <2>1, OwnAgendas, GoesOnTelling
<1>8. CASE ChangeRoster
  <2>1. /\ Head(agenda).op = "change" /\ agenda' = <<Broadcast>> \o Outdated(Rest)
        /\ phase' = phase /\ seated' = seated /\ writer' = writer
        /\ robbed' = robbed /\ fellBehind' = fellBehind
    BY <1>8 DEF ChangeRoster, Busy, seatVars, lobbyVars
  <2> QED
    BY <1>0, <2>1, OwnAgendas, GoesOnTelling
<1>9. CASE CloseSeat
  <2>1. /\ Head(agenda).op = "close" /\ agenda' = <<>> \o Rest
        /\ phase' = phase /\ seated' = seated /\ writer' = writer /\ RostersUnchanged
        /\ robbed' = robbed /\ fellBehind' = fellBehind
    BY <1>1, <1>9 DEF CloseSeat, Busy, RostersUnchanged, clientVars, seatVars, lobbyVars
  <2> QED
    BY <1>0, <2>1, OwnAgendas, GoesOnTelling DEF Telling
<1>10. CASE EndMatch
  <2>1. /\ Head(agenda).op = "end"
        /\ agenda' = <<Each(ControlMsg), Each(ControlMsg), Broadcast>> \o Rest
        /\ phase' = "open" /\ seated' = seated /\ writer' = writer
        /\ robbed' = robbed /\ fellBehind' = fellBehind
    BY <1>10 DEF EndMatch, Busy, seatVars
  <2> QED
    BY <1>0, <2>1, OwnAgendas, GoesOnTelling
<1> QED
  BY <1>3, <1>4, <1>5, <1>6, <1>7, <1>8, <1>9, <1>10 DEF Loop

\* sendTo: an outbox that had room, or has lost its oldest message, takes another.
LEMMA SendTells ==
  ASSUME IInv, RInv, SendTo
  PROVE  RInv'
<1> DEFINE c == Head(agenda).to
           msg == Head(agenda).msg
<1>0. /\ agenda # <<>> /\ agenda \in Seq(Entries) /\ Head(agenda).op = "send"
      /\ phase' = phase /\ seated' = seated /\ writer' = writer /\ heard' = heard
  BY DEF SendTo, Busy, IInv, TypeOK, lobbyVars, clientVars, seatVars
<1>1. c \in Clients /\ msg \in Messages
  BY <1>0, HeadAndRest DEF Aimed, Entries
<1>2. out[c] \in Seq(Messages) /\ out \in [Clients -> Seq(Messages)] /\ seated \subseteq Clients
      /\ (Len(out[c]) = Depth => out[c] # <<>>)
  <2>1. out[c] \in Seq(Messages) /\ out \in [Clients -> Seq(Messages)] /\ seated \subseteq Clients
    BY <1>1, QueuesTyped DEF IInv, TypeOK
  <2>2. Len(<<>>) # Depth
    BY OutboxAssumption
  <2> QED
    BY <2>1, <2>2
<1>3. CASE GiveUp
  BY <1>3 DEF GiveUp, RInv
<1>4. CASE SendOnClosed
  BY <1>0, <1>4 DEF SendOnClosed, RInv
<1>5. ASSUME NEW q \in Seq(Messages), out' = [out EXCEPT ![c] = Append(q, msg)],
             agenda' = Rest, fellBehind' = fellBehind, robbed \subseteq robbed',
             c \notin robbed' => \A h : Fresh(out[c], h) => Fresh(q, h)
      PROVE  RInv'
  <2> SUFFICES ASSUME ~ fellBehind' PROVE RInv'
    BY DEF RInv
  <2>1. Orderly(agenda) /\ (phase = "closed" => Leaving(agenda))
    BY <1>5 DEF RInv
  <2>2. /\ Orderly(Rest) /\ (phase = "closed" => Leaving(Rest))
        /\ msg.kind = "lobby" => msg.current
        /\ \A d : Awaited(agenda, d) => (msg.kind = "lobby" /\ c = d) \/ Awaited(Rest, d)
    BY <1>0, <2>1, OrderlyRest DEF Rest, IsRoster, Telling
  <2>3. ASSUME phase # "closed", NEW d \in seated \ robbed', writer[d] = "run"
        PROVE  Awaited(Rest, d) \/ Fresh(out'[d], heard[d])
    <3>1. Awaited(agenda, d) \/ Fresh(out[d], heard[d])
      BY <1>5, <2>3 DEF RInv
    <3>2. CASE d # c
      <4>1. out'[d] = out[d]
        BY <1>2, <1>5, <2>3, <3>2
      <4> QED
        BY <2>2, <3>1, <3>2, <4>1
    <3>3. CASE d = c
      <4> HIDE DEF c, msg
      <4>1. out'[d] = Append(q, msg)
        BY <1>1, <1>2, <1>5, <3>3
      <4>2. CASE msg.kind = "lobby"
        <5>1. Fresh(Append(q, msg), heard[d])
          BY <1>1, <2>2, <4>2, FreshAppend
        <5> QED
          BY <4>1, <5>1
      <4>3. CASE msg.kind # "lobby"
        <5>1. Fresh(out[d], heard[d]) => Fresh(q, heard[d])
          BY <1>5, <2>3, <3>3
        <5>2. Fresh(q, heard[d]) => Fresh(Append(q, msg), heard[d])
          BY <1>1, <4>3, FreshAppend
        <5> QED
          BY <2>2, <3>1, <4>1, <4>3, <5>1, <5>2
      <4> QED
        BY <4>2, <4>3
    <3> QED
      BY <3>2, <3>3
  <2> QED
    BY <1>0, <1>5, <2>2, <2>3 DEF RInv
<1>6. CASE Queue
  <2>1. /\ out' = [out EXCEPT ![c] = Append(out[c], msg)]
        /\ agenda' = Rest /\ UNCHANGED <<robbed, fellBehind>>
    BY <1>6 DEF Queue
  <2> QED
    BY <1>2, <1>5, <2>1
<1>7. CASE Squeeze
  <2>1. /\ Len(out[c]) = Depth /\ out' = [out EXCEPT ![c] = Append(Tail(out[c]), msg)]
        /\ robbed' = robbed \union (IF Droppable(Head(out[c])) THEN {} ELSE {c})
        /\ agenda' = Rest /\ fellBehind' = fellBehind
    BY <1>7 DEF Squeeze
  <2>2. Tail(out[c]) \in Seq(Messages)
    BY <1>2, <2>1
  <2>3. c \notin robbed' => \A h : Fresh(out[c], h) => Fresh(Tail(out[c]), h)
    <3>1. c \notin robbed' => Head(out[c]).kind # "lobby"
      BY <2>1 DEF Droppable
    <3> QED
      BY <1>2, <2>1, <3>1, FreshTail
  <2> QED
    BY <1>5, <2>1, <2>2, <2>3
<1> QED
  BY <1>3, <1>4, <1>6, <1>7 DEF SendTo

\* The agenda of Shutdown: each seat is told, and closed.
LEMMA GoodbyesLeave ==
  ASSUME TypeOK, NEW todo,
         todo = [i \in 1 .. 2 * Cardinality(seated) |->
                   LET c == InOrder(seated)[(i + 1) \div 2]
                   IN  IF i % 2 = 1 THEN Send(c, ControlMsg) ELSE Close(c)]
  PROVE  todo \in Seq(Entries) /\ Orderly(todo) /\ Leaving(todo)
<1>1. todo \in Seq(Calm)
  BY GoodbyesCalm
<1>2. todo \in Seq(Entries)
  BY <1>1, CalmDue
<1>3. ControlMsg.kind = "control"
  BY DEF ControlMsg
<1> DEFINE n == 2 * Cardinality(seated)
<1>4. todo = [i \in 1 .. n |->
                IF i % 2 = 1 THEN Send(InOrder(seated)[(i + 1) \div 2], ControlMsg)
                             ELSE Close(InOrder(seated)[(i + 1) \div 2])]
  OBVIOUS
<1> HIDE DEF n, ControlMsg
<1>5. \A i \in DOMAIN todo :
        \/ todo[i].op = "send" /\ todo[i].msg.kind = "control"
        \/ todo[i].op = "close"
  BY <1>3, <1>4 DEF Send, Close
<1>6. /\ \A i \in 1 .. Len(todo) : todo[i] \in Entries
      /\ DOMAIN todo = 1 .. Len(todo)
  BY ONLY <1>2
<1>7. Leaving(todo) /\ \A i \in 1 .. Len(todo) : Quiet(todo[i])
  BY <1>5, <1>6 DEF Leaving, Quiet, IsRoster
<1> QED
  BY <1>2, <1>7, QuietOnes

\* Every handler tells what it changes.
LEMMA HandlerTells ==
  ASSUME IInv, RInv, Handler
  PROVE  RInv'
<1> USE DEF Begin, BeginChange, BeginInPhase, lobbyVars, Idle
<1>1. CASE Announce
  BY <1>1, OwnAgendas, StartTells DEF Announce, Start
<1>2. CASE BeginCountdown
  <2>1. phase' = "countdown" /\ seated' = seated
        /\ Start(<<Each(ControlMsg), Entry("board"), Broadcast>>)
    BY <1>2 DEF BeginCountdown
  <2> QED
    BY <2>1, OwnAgendas, StartTells
<1>3. CASE AbortCountdown
  <2>1. phase' = "countdown" /\ seated' = seated /\ Start(<<Entry("abort")>>)
    BY <1>3 DEF AbortCountdown
  <2> QED
    BY <2>1, OwnAgendas, StartTells
<1>4. CASE BeginPlay
  <2>1. phase' = "in_game" /\ seated' = seated /\ Start(<<Broadcast>>)
    BY <1>4 DEF BeginPlay
  <2> QED
    BY <2>1, OwnAgendas, StartTells
<1>5. ASSUME NEW over \in BOOLEAN, Tick(over) PROVE RInv'
  <2>1. /\ phase' = "in_game" /\ seated' = seated /\ RostersUnchanged
        /\ Start(<<Entry("board"), Entry("end")>>) \/ Start(<<Entry("board")>>)
    BY <1>5 DEF Tick
  <2>2. CASE Start(<<Entry("board"), Entry("end")>>)
    BY <2>1, <2>2, OwnAgendas, StartTells
  <2>3. CASE Start(<<Entry("board")>>)
    BY <2>1, <2>3, OwnAgendas, StartTells
  <2> QED
    BY <2>1, <2>2, <2>3
<1>6. CASE FinalizeRecord
  <2>1. /\ phase' # "closed" /\ seated' = seated
        /\ Start(<<Each(ControlMsg), Entry("abort")>>)
    BY <1>6 DEF FinalizeRecord, Start
  <2> QED
    BY <2>1, OwnAgendas, StartTells
<1>7. CASE Heartbeat
  <2>1. phase' # "closed" /\ seated' = seated /\ RostersUnchanged /\ Start(<<Each(PulseMsg)>>)
    BY <1>7 DEF Heartbeat, Start
  <2> QED
    BY <2>1, OwnAgendas, StartTells
<1>8. ASSUME NEW c \in Clients, TimeOut(c) PROVE RInv'
  <2>1. /\ phase' # "closed" /\ seated' = seated /\ RostersUnchanged
        /\ Start(<<Remove(c), Broadcast>>)
    BY <1>8 DEF TimeOut, Start
  <2> QED
    BY <2>1, OwnAgendas, StartTells
<1>9. ASSUME NEW c \in Clients, Kick(c) PROVE RInv'
  <2>1. /\ phase' # "closed" /\ seated' = seated /\ RostersUnchanged
        /\ Start(<<Send(c, ControlMsg), Remove(c), Broadcast>>)
    BY <1>9 DEF Kick, Start
  <2> QED
    BY <2>1, OwnAgendas, StartTells
<1>10. ASSUME NEW c \in Clients, Disconnect(c) PROVE RInv'
  <2>1. /\ agenda = <<>> /\ phase # "closed" /\ phase' = phase
        /\ agenda' \in {<<Remove(c), Broadcast>>, <<>>} /\ Orderly(agenda')
        /\ UNCHANGED <<seated, writer, out, heard, robbed, fellBehind>>
    BY <1>10, OwnAgendas DEF Disconnect
  <2> QED
    BY <2>1, NothingAwaited DEF RInv
<1>11. ASSUME NEW c \in Clients, NEW back \in BOOLEAN,
              ClientReady(c, back) \/ ClientPing(c, back) \/ ClientLeave(c, back)
       PROVE  RInv'
  <2>1. PICK todo \in {<<Entry("change")>>, <<Send(c, PulseMsg)>>, <<Remove(c), Broadcast>>} :
          HandleClient(c, back, todo)
    BY <1>11 DEF ClientReady, ClientPing, ClientLeave
  <2>2. /\ todo \in Seq(Entries) /\ Orderly(todo) /\ NoRosters(todo)
        /\ <<Broadcast>> \in Seq(Entries) /\ Orderly(<<Broadcast>>)
        /\ \A d : Awaited(<<Broadcast>>, d)
    BY OwnAgendas
  <2>3. /\ Orderly(<<Broadcast>> \o todo) /\ <<Broadcast>> \o todo \in Seq(Entries)
        /\ \A d : Awaited(<<Broadcast>> \o todo, d)
    BY <2>2, OrderlyInFront, ConcatProperties
  <2>4. seated' = seated /\ phase' = phase
    BY <2>1 DEF HandleClient
  <2>5. CASE Start(todo) /\ RostersUnchanged
    <3>1. phase' # "closed"
      BY <2>4, <2>5 DEF Start
    <3> QED
      BY <2>2, <2>4, <2>5, <3>1, StartTells
  <2>6. CASE Start(<<Broadcast>> \o todo)
    <3>1. phase' # "closed"
      BY <2>4, <2>6 DEF Start
    <3> QED
      BY <2>3, <2>4, <2>6, <3>1, StartTells
  <2> QED
    BY <2>1, <2>5, <2>6 DEF HandleClient
<1>12. CASE Shutdown
  <2>1. PICK todo : /\ todo = [i \in 1 .. 2 * Cardinality(seated) |->
                                 LET c == InOrder(seated)[(i + 1) \div 2]
                                 IN  IF i % 2 = 1 THEN Send(c, ControlMsg) ELSE Close(c)]
                    /\ Start(todo) /\ phase' = "closed" /\ seated' = seated
    BY <1>12 DEF Shutdown
  <2>2. todo \in Seq(Entries) /\ Orderly(todo) /\ Leaving(todo)
    BY <2>1, GoodbyesLeave DEF IInv
  <2> QED
    BY ONLY RInv, <2>1, <2>2, StartTells
<1> QED
  BY <1>1, <1>2, <1>3, <1>4, <1>5, <1>6, <1>7, <1>8, <1>9, <1>10, <1>11, <1>12 DEF Handler

\* Writers and networks: what is delivered is seen.
LEMMA SeatTells ==
  ASSUME IInv, RInv, NEW c \in Clients, WriterStep(c) \/ HangUp(c) \/ NetworkFails(c)
  PROVE  RInv'
<1>1. UNCHANGED <<lobbyVars, agenda, closed, panic, robbed, fellBehind>>
  BY DEF WriterStep, HangUp, NetworkFails
<1>2. out[c] \in Seq(Messages) /\ TypeOK
  BY QueuesTyped DEF IInv
<1>3. \A d \in Clients \ {c} : out'[d] = out[d] /\ heard'[d] = heard[d] /\ writer'[d] = writer[d]
  BY <1>2 DEF WriterStep, Deliver, WriteFails, Drain, WriterEnds, HangUp, NetworkFails, TypeOK
<1>4. writer'[c] = "run" => /\ writer[c] = "run"
                            /\ \/ out'[c] = out[c] /\ heard'[c] = heard[c]
                               \/ /\ out[c] # <<>> /\ out'[c] = Tail(out[c])
                                  /\ heard'[c] = IF Head(out[c]).kind = "lobby"
                                                 THEN Head(out[c]).current ELSE heard[c]
  <2>1. CASE HangUp(c) \/ NetworkFails(c)
    BY <2>1 DEF HangUp, NetworkFails
  <2>2. CASE Deliver(c)
    BY <1>2, <2>2 DEF Deliver, TypeOK
  <2>3. CASE WriteFails(c) \/ Drain(c) \/ WriterEnds(c)
    BY <1>2, <2>3 DEF WriteFails, Drain, WriterEnds, TypeOK
  <2> QED
    BY <2>1, <2>2, <2>3 DEF WriterStep
<1>5. writer'[c] = "run" => /\ writer[c] = "run"
                            /\ Fresh(out[c], heard[c]) => Fresh(out'[c], heard'[c])
  BY <1>2, <1>4, FreshTail
<1>6. seated \subseteq Clients
  BY <1>2 DEF TypeOK
<1> QED
  BY <1>1, <1>3, <1>5, <1>6 DEF RInv, lobbyVars

\* The invariant of rosters.
LEMMA RostersInvariant == Spec => []RInv
<1>1. Init => RInv
  <2> SUFFICES ASSUME Init PROVE RInv
    OBVIOUS
  <2>1. /\ agenda = <<>> /\ Orderly(agenda) /\ phase = "open"
        /\ \A c \in Clients : out[c] = <<>> /\ heard[c] = TRUE
        /\ seated = Clients
    BY OwnAgendas DEF Init
  <2>2. Fresh(<<>>, TRUE)
    BY DEF Fresh
  <2> QED
    BY <2>1, <2>2 DEF RInv
<1>2. IInv /\ RInv /\ [Next]_vars => RInv'
  <2> SUFFICES ASSUME IInv, RInv, [Next]_vars PROVE RInv'
    OBVIOUS
  <2>1. CASE Handler
    BY <2>1, HandlerTells
  <2>2. CASE HostStep
    BY <2>2, SendTells, HostStepTells DEF HostStep
  <2>3. CASE \E c \in Clients : WriterStep(c) \/ HangUp(c) \/ NetworkFails(c)
    BY <2>3, SeatTells
  <2>4. CASE UNCHANGED vars
    BY <2>4 DEF vars, lobbyVars, clientVars, seatVars, RInv
  <2> QED
    BY <2>1, <2>2, <2>3, <2>4 DEF Next
<1> QED
  BY <1>1, <1>2, Invariant, PTL DEF Spec

\* However removals, aborts and broadcasts nest, a client that lost no roster has the
\* current one on its way whenever the host is idle, unless somebody fell behind.
THEOREM RosterAlwaysReaches == Spec => []RosterReaches
<1>1. TypeOK /\ RInv => RosterReaches
  <2> SUFFICES ASSUME TypeOK, RInv, Idle, ~ fellBehind,
                      NEW c \in seated \ robbed, writer[c] = "run"
               PROVE  UpToDate(c)
    BY DEF RosterReaches
  <2> DEFINE q == out[c]
             rosters == {i \in DOMAIN q : q[i].kind = "lobby"}
  <2>1. Fresh(q, heard[c])
    BY NothingAwaited DEF RInv, Idle
  <2>2. c \in Clients /\ q \in Seq(Messages) /\ DOMAIN q = 1 .. Len(q) /\ Len(q) \in Nat
    <3>1. c \in Clients /\ q \in Seq(Messages)
      BY DEF TypeOK
    <3> QED
      BY ONLY <3>1
  <2>3. CASE heard[c] /\ \A i \in 1 .. Len(q) : q[i].kind # "lobby"
    BY <2>2, <2>3 DEF UpToDate
  <2>4. ASSUME NEW i \in 1 .. Len(q), q[i].kind = "lobby", q[i].current,
               \A j \in i + 1 .. Len(q) : q[j].kind # "lobby"
        PROVE  UpToDate(c)
    <3>1. i \in rosters /\ \A j \in rosters : j <= i
      <4>1. \A j \in 1 .. Len(q) : j <= i \/ j \in i + 1 .. Len(q)
        BY <2>2
      <4> QED
        BY <2>2, <2>4, <4>1
    <3>2. \A k \in rosters : (\A j \in rosters : j <= k) => k = i
      BY <2>2, <3>1
    <3>3. (CHOOSE k \in rosters : \A j \in rosters : j <= k) = i
      BY <3>1, <3>2
    <3> QED
      BY <2>4, <3>1, <3>3 DEF UpToDate
  <2> QED
    BY <2>1, <2>3, <2>4 DEF Fresh
<1>2. IInv => TypeOK
  BY DEF IInv
<1> QED
  BY <1>1, <1>2, Invariant, RostersInvariant, PTL
-----------------------------------------------------------------------------
(***************************************************************************)
(* The panic.  A seat is closed by a removal or by the goodbye of the      *)
(* lobby; what is on the agenda to be sent is for seats that are open, and *)
(* that no entry before it closes.  A seat that falls behind is removed in *)
(* the middle of the loop that sends to it, and so breaks that rule.       *)
(***************************************************************************)
Ends(e) == e.op \in {"remove", "close"}

\* With the seats gone closed, every send finds its seat open.
Unspoilt(todo, gone) ==
  \A i \in 1 .. Len(todo) : todo[i].op = "send" =>
    /\ todo[i].to \notin gone
    /\ \A j \in 1 .. i : Ends(todo[j]) => todo[j].to # todo[i].to

NoSends(todo) == \A i \in 1 .. Len(todo) : todo[i].op # "send"
NoEnds(todo) == \A i \in 1 .. Len(todo) : ~ Ends(todo[i])
NoCloses(todo) == \A i \in 1 .. Len(todo) : todo[i].op # "close"

PInv ==
  ~ fellBehind =>
    /\ panic = "none"
    /\ phase # "closed" => seated \intersect closed = {} /\ NoCloses(agenda)
    /\ Unspoilt(agenda, closed)

\* An entry is done; if it closed a seat, nothing is left to be sent there.
LEMMA UnspoiltRest ==
  ASSUME NEW todo \in Seq(Entries), todo # <<>>, NEW gone, Unspoilt(todo, gone)
  PROVE  /\ Head(todo).op = "send" => Head(todo).to \notin gone
         /\ Unspoilt(Tail(todo), gone)
         /\ Ends(Head(todo)) => Unspoilt(Tail(todo), gone \union {Head(todo).to})
         /\ NoCloses(todo) => Head(todo).op # "close" /\ NoCloses(Tail(todo))
<1> DEFINE t == Tail(todo)
<1>1. /\ Head(todo) = todo[1] /\ Len(todo) \in Nat \ {0}
      /\ Len(t) = Len(todo) - 1 /\ \A i \in 1 .. Len(t) : t[i] = todo[i + 1]
  BY HeadTailProperties, EmptySeq
<1> HIDE DEF t
<1>2. /\ 1 \in 1 .. Len(todo)
      /\ \A i \in 1 .. Len(t) : i + 1 \in 1 .. Len(todo) /\ 1 \in 1 .. i + 1
      /\ \A i \in 1 .. Len(t) : \A j \in 1 .. i : j + 1 \in 1 .. i + 1 /\ j \in 1 .. Len(t)
  BY <1>1
<1>3. ASSUME NEW i \in 1 .. Len(t), t[i].op = "send"
      PROVE  /\ t[i].to \notin gone
             /\ \A j \in 1 .. i : Ends(t[j]) => t[j].to # t[i].to
             /\ Ends(Head(todo)) => Head(todo).to # t[i].to
  <2>1. i + 1 \in 1 .. Len(todo) /\ todo[i + 1] = t[i]
    BY <1>1, <1>2
  <2>2. /\ t[i].to \notin gone
        /\ \A j \in 1 .. i + 1 : Ends(todo[j]) => todo[j].to # t[i].to
    BY <1>3, <2>1 DEF Unspoilt
  <2>3. \A j \in 1 .. i : j + 1 \in 1 .. i + 1 /\ todo[j + 1] = t[j]
    BY <1>1, <1>2
  <2> QED
    BY <1>1, <1>2, <2>2, <2>3
<1>4. Head(todo).op = "send" => Head(todo).to \notin gone
  BY <1>1, <1>2 DEF Unspoilt
<1>5. Unspoilt(t, gone) /\ (Ends(Head(todo)) => Unspoilt(t, gone \union {Head(todo).to}))
  BY <1>3 DEF Unspoilt
<1>6. NoCloses(todo) => Head(todo).op # "close" /\ NoCloses(t)
  BY <1>1, <1>2 DEF NoCloses
<1> QED
  BY <1>4, <1>5, <1>6 DEF t

\* Sends to open seats, or no sends, and nothing that closes a seat, join the rest.
LEMMA UnspoiltInFront ==
  ASSUME NEW p \in Seq(Entries), NEW r \in Seq(Entries), NEW gone,
         Unspoilt(p, gone), NoEnds(p), Unspoilt(r, gone)
  PROVE  Unspoilt(p \o r, gone) /\ (NoCloses(r) => NoCloses(p \o r))
<1> DEFINE a == p \o r
<1>1. /\ Len(a) = Len(p) + Len(r) /\ Len(p) \in Nat /\ Len(r) \in Nat
      /\ \A i \in 1 .. Len(p) + Len(r) : a[i] = IF i <= Len(p) THEN p[i] ELSE r[i - Len(p)]
  BY ConcatProperties
<1> HIDE DEF a
<1>2. \A i \in 1 .. Len(a) : \/ i \in 1 .. Len(p) /\ a[i] = p[i]
                             \/ i - Len(p) \in 1 .. Len(r) /\ a[i] = r[i - Len(p)]
  BY <1>1
<1>3. ASSUME NEW i \in 1 .. Len(a), a[i].op = "send"
      PROVE  a[i].to \notin gone /\ \A j \in 1 .. i : Ends(a[j]) => a[j].to # a[i].to
  <2>0. \A j \in 1 .. i : j \in 1 .. Len(a)
    BY <1>1
  <2>1. \A j \in 1 .. i : Ends(a[j]) => j - Len(p) \in 1 .. Len(r) /\ a[j] = r[j - Len(p)]
    BY <1>2, <2>0 DEF NoEnds
  <2>2. CASE i \in 1 .. Len(p) /\ a[i] = p[i]
    <3>1. \A j \in 1 .. i : ~ (j - Len(p) \in 1 .. Len(r))
      BY <1>1, <2>2
    <3> QED
      BY <1>3, <2>1, <2>2, <3>1 DEF Unspoilt
  <2>3. CASE i - Len(p) \in 1 .. Len(r) /\ a[i] = r[i - Len(p)]
    <3> DEFINE k == i - Len(p)
    <3>1. \A j \in 1 .. i : j - Len(p) \in 1 .. Len(r) => j - Len(p) \in 1 .. k
      BY <1>1
    <3> HIDE DEF k
    <3>2. k \in 1 .. Len(r) /\ a[i] = r[k]
      BY <2>3 DEF k
    <3>3. a[i].to \notin gone /\ \A j \in 1 .. k : Ends(r[j]) => r[j].to # a[i].to
      BY <1>3, <3>2 DEF Unspoilt
    <3> QED
      BY <2>1, <3>1, <3>3
  <2> QED
    BY <1>2, <2>2, <2>3
<1>4. Unspoilt(a, gone)
  BY <1>3 DEF Unspoilt
<1>5. NoCloses(r) => NoCloses(a)
  BY <1>2 DEF NoCloses, NoEnds, Ends
<1> QED
  BY <1>4, <1>5 DEF a

\* Rosters that become outdated keep their addressees.
LEMMA UnspoiltOutdated ==
  ASSUME NEW r \in Seq(Entries), NEW gone, Unspoilt(r, gone)
  PROVE  /\ Outdated(r) \in Seq(Entries) /\ Unspoilt(Outdated(r), gone)
         /\ NoCloses(r) => NoCloses(Outdated(r))
<1> DEFINE t == Outdated(r)
<1>1. t = [i \in 1 .. Len(r) |-> OutdatedEntry(r[i])] /\ Len(r) \in Nat
  BY DEF Outdated, OutdatedEntry
<1>2. \A i \in 1 .. Len(r) :
        /\ OutdatedEntry(r[i]) \in Entries /\ OutdatedEntry(r[i]).op = r[i].op
        /\ OutdatedEntry(r[i]).to = r[i].to
  <2>1. \A i \in 1 .. Len(r) : r[i] \in Entries
    OBVIOUS
  <2> QED
    BY <2>1, EntryOutdated
<1>3. t \in Seq(Entries) /\ Len(t) = Len(r)
  BY <1>1, <1>2
<1>4. \A i \in 1 .. Len(r) : t[i].op = r[i].op /\ t[i].to = r[i].to
  BY <1>1, <1>2
<1> HIDE DEF t
<1>5. \A i \in 1 .. Len(r) : \A j \in 1 .. i : j \in 1 .. Len(r)
  BY <1>1
<1>6. Unspoilt(t, gone)
  BY <1>3, <1>4, <1>5 DEF Unspoilt, Ends
<1>7. NoCloses(r) => NoCloses(t)
  BY <1>3, <1>4 DEF NoCloses
<1> QED
  BY <1>3, <1>6, <1>7 DEF t

\* The seats are listed in order, each once.
LEMMA SeatsListed ==
  ASSUME seated \subseteq Clients
  PROVE  /\ Cardinality(seated) \in Nat
         /\ \A i \in 1 .. Cardinality(seated) : InOrder(seated)[i] \in seated
         /\ \A i, j \in 1 .. Cardinality(seated) :
              InOrder(seated)[i] = InOrder(seated)[j] => i = j
<1> DEFINE n == Cardinality(seated)
           list == InOrder(seated)
<1>1. seated \in SUBSET Nat /\ IsFiniteSet(seated) /\ n \in Nat
  <2>1. Clients \in SUBSET Nat /\ IsFiniteSet(Clients)
    BY OutboxAssumption, FS_Interval DEF Clients
  <2> QED
    BY <2>1, FS_Subset, FS_CardinalityType
<1>2. /\ list \in [1 .. n -> seated]
      /\ \A i, j \in DOMAIN list : i < j => list[i] < list[j]
  BY <1>1, CanBeListed DEF InOrder
<1> HIDE DEF list, n
<1>3. \A i \in 1 .. n : list[i] \in Nat /\ list[i] \in seated
  BY <1>1, <1>2
<1>4. ASSUME NEW i \in 1 .. n, NEW j \in 1 .. n, list[i] = list[j]
      PROVE  i = j
  <2>1. ~ (i < j) /\ ~ (j < i)
    BY <1>2, <1>3, <1>4
  <2> QED
    BY <1>1, <2>1
<1> QED
  BY <1>1, <1>3, <1>4 DEF list, n

\* A loop over the seats sends to seated clients and closes nobody.
LEMMA LoopsUnspoilt ==
  ASSUME NEW m \in Messages, seated \subseteq Clients, NEW gone, seated \intersect gone = {}
  PROVE  ToAll(m) \in Seq(Entries) /\ Unspoilt(ToAll(m), gone) /\ NoEnds(ToAll(m))
<1>1. /\ ToAll(m) \in Seq(Entries) /\ Len(ToAll(m)) \in Nat
      /\ \A i \in 1 .. Len(ToAll(m)) : ToAll(m)[i].op = "send"
  BY SendsToAll
<1>2. Len(ToAll(m)) = Cardinality(seated)
  BY SeatsListed DEF ToAll
<1>3. \A i \in 1 .. Len(ToAll(m)) : ToAll(m)[i].to \in seated
  BY <1>2, SeatsListed DEF ToAll, Send
<1>4. \A i \in 1 .. Len(ToAll(m)) : \A j \in 1 .. i : j \in 1 .. Len(ToAll(m))
  BY <1>1
<1>5. NoEnds(ToAll(m))
  BY <1>1 DEF NoEnds, Ends
<1>6. Unspoilt(ToAll(m), gone)
  BY <1>3, <1>4, <1>5 DEF Unspoilt, NoEnds
<1> QED
  BY <1>1, <1>5, <1>6

\* Shutdown says goodbye to each seat before it closes it.
LEMMA GoodbyesUnspoilt ==
  ASSUME TypeOK, seated \intersect closed = {}, NEW todo,
         todo = [i \in 1 .. 2 * Cardinality(seated) |->
                   LET c == InOrder(seated)[(i + 1) \div 2]
                   IN  IF i % 2 = 1 THEN Send(c, ControlMsg) ELSE Close(c)]
  PROVE  Unspoilt(todo, closed)
<1> DEFINE n == Cardinality(seated)
           list == InOrder(seated)
<1>1. /\ n \in Nat /\ \A k \in 1 .. n : list[k] \in seated
      /\ \A k, l \in 1 .. n : list[k] = list[l] => k = l
  BY SeatsListed DEF TypeOK
<1>2. todo = [i \in 1 .. 2 * n |-> IF i % 2 = 1 THEN Send(list[(i + 1) \div 2], ControlMsg)
                                                ELSE Close(list[(i + 1) \div 2])]
  OBVIOUS
<1> HIDE DEF n, list
<1>3. 2 * n \in Nat /\ \A i \in 1 .. 2 * n : (i + 1) \div 2 \in 1 .. n
  BY <1>1
<1>4. \A i \in 1 .. 2 * n : /\ todo[i].to = list[(i + 1) \div 2]
                            /\ todo[i].op = "send" => i % 2 = 1
                            /\ Ends(todo[i]) => i % 2 = 0
  <2>1. \A i \in 1 .. 2 * n : i % 2 = 1 \/ i % 2 = 0
    BY <1>3
  <2>2. \A c : /\ Send(c, ControlMsg).to = c /\ Send(c, ControlMsg).op = "send"
               /\ Close(c).to = c /\ Close(c).op = "close"
    BY DEF Send, Close
  <2> HIDE DEF Send, Close
  <2>3. \A i \in 1 .. 2 * n : todo[i] = IF i % 2 = 1 THEN Send(list[(i + 1) \div 2], ControlMsg)
                                                     ELSE Close(list[(i + 1) \div 2])
    BY <1>2
  <2>4. ASSUME NEW i \in 1 .. 2 * n, NEW k, k = (i + 1) \div 2
        PROVE  /\ todo[i].to = list[k]
               /\ todo[i].op = "send" => i % 2 = 1
               /\ Ends(todo[i]) => i % 2 = 0
    <3>1. CASE i % 2 = 1
      <4>1. todo[i] = Send(list[k], ControlMsg)
        BY <2>3, <2>4, <3>1
      <4> QED
        BY ONLY <2>2, <3>1, <4>1 DEF Ends
    <3>2. CASE i % 2 # 1
      <4>1. todo[i] = Close(list[k])
        BY <2>3, <2>4, <3>2
      <4> QED
        BY ONLY <2>1, <2>2, <3>2, <4>1
    <3> QED
      BY <3>1, <3>2
  <2> QED
    BY <2>4
<1>5. Len(todo) = 2 * n
  <2> DEFINE double == 2 * n
  <2>1. double \in Nat /\ DOMAIN todo = 1 .. double
    BY <1>2, <1>3
  <2>2. todo \in Seq(Entries)
    BY GoodbyesCalm, CalmDue
  <2> HIDE DEF double
  <2>3. Len(todo) \in Nat /\ DOMAIN todo = 1 .. Len(todo)
    BY ONLY <2>2, LenProperties
  <2>4. \A k : k \in 1 .. double <=> k \in 1 .. Len(todo)
    BY <2>1, <2>3
  <2>5. ~ (double < Len(todo)) /\ ~ (Len(todo) < double)
    <3>1. double < Len(todo) => Len(todo) \in 1 .. double
      BY ONLY <2>1, <2>3, <2>4
    <3>2. Len(todo) < double => double \in 1 .. Len(todo)
      BY ONLY <2>1, <2>3, <2>4
    <3> QED
      BY ONLY <2>1, <2>3, <3>1, <3>2
  <2>6. Len(todo) = double
    BY ONLY <2>1, <2>3, <2>5
  <2> QED
    BY <2>6 DEF double
<1>6. ASSUME NEW i \in 1 .. 2 * n, todo[i].op = "send"
      PROVE  todo[i].to \notin closed /\ \A j \in 1 .. i : Ends(todo[j]) => todo[j].to # todo[i].to
  <2>1. todo[i].to \in seated
    BY <1>1, <1>3, <1>4
  <2>2. ASSUME NEW j \in 1 .. i, Ends(todo[j]), todo[j].to = todo[i].to PROVE FALSE
    <3>0. j \in 1 .. 2 * n
      BY <1>3
    <3>1. i % 2 = 1 /\ j % 2 = 0
      BY <1>4, <1>6, <2>2, <3>0
    <3>2. list[(j + 1) \div 2] = list[(i + 1) \div 2]
      BY <1>4, <2>2, <3>0
    <3>3. (j + 1) \div 2 \in 1 .. n /\ (i + 1) \div 2 \in 1 .. n
      BY <1>3, <3>0
    <3>4. (j + 1) \div 2 = (i + 1) \div 2
      BY <1>1, <3>2, <3>3
    <3>5. i \in Nat /\ j \in Nat /\ j <= i
      BY <1>3
    <3> QED
      BY ONLY <3>1, <3>4, <3>5
  <2> QED
    BY <2>1, <2>2
<1> QED
  BY <1>5, <1>6 DEF Unspoilt

\* Agendas without sends, and the three that have one.
LEMMA OwnUnspoilt ==
  ASSUME NEW gone
  PROVE  /\ \A todo : NoSends(todo) => Unspoilt(todo, gone)
         /\ Unspoilt(<<>>, gone) /\ NoCloses(<<>>)
         /\ \A c : NoSends(<<Remove(c), Broadcast>>) /\ NoCloses(<<Remove(c), Broadcast>>)
         /\ \A e \in {Broadcast, Entry("abort"), Entry("change"), Entry("board"),
                      Each(PulseMsg)} : NoSends(<<e>>) /\ NoEnds(<<e>>) /\ NoCloses(<<e>>)
         /\ NoSends(<<Each(ControlMsg), Entry("board"), Broadcast>>)
         /\ NoCloses(<<Each(ControlMsg), Entry("board"), Broadcast>>)
         /\ NoSends(<<Entry("board"), Entry("end")>>)
         /\ NoCloses(<<Entry("board"), Entry("end")>>)
         /\ NoSends(<<Each(ControlMsg), Entry("abort")>>)
         /\ NoCloses(<<Each(ControlMsg), Entry("abort")>>)
         /\ NoSends(<<Each(ControlMsg), Each(ControlMsg), Broadcast>>)
         /\ NoEnds(<<Each(ControlMsg), Each(ControlMsg), Broadcast>>)
         /\ \A c : c \notin gone => /\ Unspoilt(<<Send(c, PulseMsg)>>, gone)
                                    /\ Unspoilt(<<Send(c, ControlMsg), Remove(c), Broadcast>>, gone)
         /\ \A c : /\ NoCloses(<<Send(c, PulseMsg)>>)
                   /\ NoCloses(<<Send(c, ControlMsg), Remove(c), Broadcast>>)
<1>1. /\ Broadcast.op = "broadcast" /\ \A op : Entry(op).op = op
      /\ \A m : Each(m).op = "each"
      /\ \A c, m : Send(c, m).op = "send" /\ Send(c, m).to = c
      /\ \A c : Remove(c).op = "remove"
  BY DEF Broadcast, Each, Entry, Send, Remove
<1> HIDE DEF Broadcast, Each, Entry, Send, Remove
<1>2. \A todo : NoSends(todo) => Unspoilt(todo, gone)
  BY DEF NoSends, Unspoilt
<1>3. Unspoilt(<<>>, gone) /\ NoCloses(<<>>)
  BY DEF Unspoilt, NoCloses
<1>4. ASSUME NEW e, e.op # "send"
      PROVE  NoSends(<<e>>) /\ (e.op # "remove" /\ e.op # "close" => NoEnds(<<e>>))
  BY <1>4 DEF NoSends, NoEnds, Ends
<1>5. ASSUME NEW e, NEW f, e.op # "send", f.op # "send" PROVE NoSends(<<e, f>>)
  BY <1>5 DEF NoSends
<1>6. ASSUME NEW e, NEW f, NEW g, e.op # "send", f.op # "send", g.op # "send"
      PROVE  /\ NoSends(<<e, f, g>>)
             /\ ~ Ends(e) /\ ~ Ends(f) /\ ~ Ends(g) => NoEnds(<<e, f, g>>)
  BY <1>6 DEF NoSends, NoEnds
<1>7. ASSUME NEW e, e.op = "send", e.to \notin gone PROVE Unspoilt(<<e>>, gone)
  BY <1>7 DEF Unspoilt, Ends
<1>8. ASSUME NEW e, NEW f, NEW g, e.op = "send", e.to \notin gone, f.op # "send", g.op # "send"
      PROVE  Unspoilt(<<e, f, g>>, gone)
  <2>1. ASSUME NEW i \in 1 .. 3, <<e, f, g>>[i].op = "send" PROVE i = 1
    BY <1>8, <2>1
  <2> QED
    BY <1>8, <2>1 DEF Unspoilt, Ends
<1>9. NoEnds(<<Each(ControlMsg), Each(ControlMsg), Broadcast>>)
  BY <1>1, <1>6 DEF Ends
<1>10. \A e, f, g : e.op # "close" /\ f.op # "close" /\ g.op # "close" =>
         NoCloses(<<e>>) /\ NoCloses(<<e, f>>) /\ NoCloses(<<e, f, g>>)
  BY DEF NoCloses
<1>11. \A e \in {Broadcast, Entry("abort"), Entry("change"), Entry("board"), Each(PulseMsg)} :
         NoSends(<<e>>) /\ NoEnds(<<e>>) /\ NoCloses(<<e>>)
  <2>1. \A e \in {Broadcast, Entry("abort"), Entry("change"), Entry("board"), Each(PulseMsg)} :
          e.op \in {"broadcast", "abort", "change", "board", "each"}
    BY <1>1
  <2> QED
    BY <1>4, <1>10, <2>1
<1>12. /\ \A c : NoSends(<<Remove(c), Broadcast>>) /\ NoCloses(<<Remove(c), Broadcast>>)
       /\ NoSends(<<Each(ControlMsg), Entry("board"), Broadcast>>)
       /\ NoCloses(<<Each(ControlMsg), Entry("board"), Broadcast>>)
       /\ NoSends(<<Entry("board"), Entry("end")>>) /\ NoCloses(<<Entry("board"), Entry("end")>>)
       /\ NoSends(<<Each(ControlMsg), Entry("abort")>>)
       /\ NoCloses(<<Each(ControlMsg), Entry("abort")>>)
       /\ NoSends(<<Each(ControlMsg), Each(ControlMsg), Broadcast>>)
       /\ \A c : /\ NoCloses(<<Send(c, PulseMsg)>>)
                 /\ NoCloses(<<Send(c, ControlMsg), Remove(c), Broadcast>>)
  BY <1>1, <1>5, <1>6, <1>10
<1> QED
  BY <1>1, <1>2, <1>3, <1>7, <1>8, <1>9, <1>11, <1>12

\* A handler starts on seats that are open.
LEMMA StartUnspoilt ==
  ASSUME PInv, NEW todo, Start(todo), seated' = seated,
         seated \intersect closed = {} =>
           Unspoilt(todo, closed) /\ (phase' = "closed" \/ NoCloses(todo))
  PROVE  PInv'
<1> SUFFICES ASSUME ~ fellBehind' PROVE PInv'
  BY DEF PInv
<1>1. /\ phase # "closed" /\ panic = "none" /\ agenda' = todo /\ ~ fellBehind
      /\ panic' = panic /\ closed' = closed
  BY DEF Start, Idle
<1>2. seated \intersect closed = {}
  BY <1>1 DEF PInv
<1> QED
  BY <1>1, <1>2 DEF PInv

LEMMA HandlerUnspoilt ==
  ASSUME IInv, PInv, Handler
  PROVE  PInv'
<1> USE DEF Begin, BeginChange, BeginInPhase, lobbyVars
<1>1. CASE Announce \/ BeginCountdown \/ AbortCountdown \/ BeginPlay \/ FinalizeRecord \/ Heartbeat
  <2>1. PICK todo : Start(todo) /\ NoSends(todo) /\ NoCloses(todo) /\ seated' = seated
    BY <1>1, OwnUnspoilt
       DEF Announce, BeginCountdown, AbortCountdown, BeginPlay, FinalizeRecord, Heartbeat
  <2> QED
    BY <2>1, OwnUnspoilt, StartUnspoilt
<1>2. ASSUME NEW over \in BOOLEAN, Tick(over) PROVE PInv'
  <2>1. PICK todo : Start(todo) /\ NoSends(todo) /\ NoCloses(todo) /\ seated' = seated
    BY <1>2, OwnUnspoilt DEF Tick
  <2> QED
    BY <2>1, OwnUnspoilt, StartUnspoilt
<1>3. ASSUME NEW c \in Clients, TimeOut(c) PROVE PInv'
  BY <1>3, OwnUnspoilt, StartUnspoilt DEF TimeOut
<1>4. ASSUME NEW c \in Clients, Kick(c) PROVE PInv'
  <2>1. /\ Start(<<Send(c, ControlMsg), Remove(c), Broadcast>>) /\ seated' = seated
        /\ c \in seated
    BY <1>4 DEF Kick
  <2>2. seated \intersect closed = {} =>
          Unspoilt(<<Send(c, ControlMsg), Remove(c), Broadcast>>, closed)
    BY <2>1, OwnUnspoilt
  <2>3. NoCloses(<<Send(c, ControlMsg), Remove(c), Broadcast>>)
    BY OwnUnspoilt
  <2> QED
    BY <2>1, <2>2, <2>3, StartUnspoilt
<1>5. ASSUME NEW c \in Clients, Disconnect(c) PROVE PInv'
  <2> SUFFICES ASSUME ~ fellBehind' PROVE PInv'
    BY DEF PInv
  <2>1. /\ agenda' \in {<<Remove(c), Broadcast>>, <<>>}
        /\ UNCHANGED <<phase, seated, closed, panic, fellBehind>>
    BY <1>5 DEF Disconnect
  <2>2. Unspoilt(agenda', closed) /\ NoCloses(agenda')
    BY <2>1, OwnUnspoilt
  <2> QED
    BY <2>1, <2>2 DEF PInv
<1>6. ASSUME NEW c \in Clients, NEW back \in BOOLEAN,
             ClientReady(c, back) \/ ClientPing(c, back) \/ ClientLeave(c, back)
      PROVE  PInv'
  <2>1. PICK todo \in {<<Entry("change")>>, <<Send(c, PulseMsg)>>, <<Remove(c), Broadcast>>} :
          HandleClient(c, back, todo)
    BY <1>6 DEF ClientReady, ClientPing, ClientLeave
  <2>2. c \in seated /\ seated' = seated /\ (Start(todo) \/ Start(<<Broadcast>> \o todo))
    BY <2>1 DEF HandleClient
  <2>3. todo \in Seq(Entries) /\ <<Broadcast>> \in Seq(Entries)
    BY OwnAgendas
  <2>4. (seated \intersect closed = {} => Unspoilt(todo, closed)) /\ NoCloses(todo)
    BY <2>2, OwnUnspoilt
  <2>5. Unspoilt(<<Broadcast>>, closed) /\ NoEnds(<<Broadcast>>)
    BY OwnUnspoilt
  <2>6. seated \intersect closed = {} =>
          Unspoilt(<<Broadcast>> \o todo, closed) /\ NoCloses(<<Broadcast>> \o todo)
    BY <2>3, <2>4, <2>5, UnspoiltInFront
  <2> QED
    BY <2>2, <2>4, <2>6, StartUnspoilt
<1>7. CASE Shutdown
  <2>1. PICK todo : /\ todo = [i \in 1 .. 2 * Cardinality(seated) |->
                                 LET c == InOrder(seated)[(i + 1) \div 2]
                                 IN  IF i % 2 = 1 THEN Send(c, ControlMsg) ELSE Close(c)]
                    /\ Start(todo) /\ seated' = seated /\ phase' = "closed"
    BY <1>7 DEF Shutdown
  <2>2. seated \intersect closed = {} => Unspoilt(todo, closed)
    BY <2>1, GoodbyesUnspoilt DEF IInv
  <2> QED
    BY ONLY PInv, <2>1, <2>2, StartUnspoilt
<1> QED
  BY <1>1, <1>2, <1>3, <1>4, <1>5, <1>6, <1>7 DEF Handler

\* A step of a handler that closes nobody and puts p in front of the rest.
LEMMA GoesOnUnspoilt ==
  ASSUME IInv, PInv, agenda # <<>>, NEW p \in Seq(Entries), NoEnds(p),
         ~ fellBehind => Unspoilt(p, closed),
         agenda' = p \o Rest \/ agenda' = p \o Outdated(Rest),
         UNCHANGED <<seated, closed, panic, fellBehind>>,
         phase' # "closed" => phase # "closed"
  PROVE  PInv'
<1> SUFFICES ASSUME ~ fellBehind PROVE PInv'
  BY DEF PInv
<1>1. agenda \in Seq(Entries) /\ Unspoilt(agenda, closed)
  BY DEF PInv, IInv, TypeOK
<1>2. /\ Rest \in Seq(Entries) /\ Unspoilt(Rest, closed)
      /\ NoCloses(agenda) => NoCloses(Rest)
  BY <1>1, UnspoiltRest, HeadAndRest DEF Rest
<1>3. /\ Outdated(Rest) \in Seq(Entries) /\ Unspoilt(Outdated(Rest), closed)
      /\ NoCloses(Rest) => NoCloses(Outdated(Rest))
  BY <1>2, UnspoiltOutdated
<1>4. Unspoilt(agenda', closed) /\ (NoCloses(agenda) => NoCloses(agenda'))
  <2>1. CASE agenda' = p \o Rest
    BY <1>2, <2>1, UnspoiltInFront
  <2>2. CASE agenda' = p \o Outdated(Rest)
    BY <1>2, <1>3, <2>2, UnspoiltInFront
  <2> QED
    BY <2>1, <2>2
<1> QED
  BY <1>4 DEF PInv

\* The steps of a handler: where the lobby is left, nothing but goodbyes is to be sent.
LEMMA HostStepUnspoilt ==
  ASSUME IInv, RInv, PInv, HostStep
  PROVE  PInv'
<1>0. /\ agenda # <<>> /\ Rest \in Seq(Entries) /\ agenda \in Seq(Entries)
      /\ Head(agenda) \in Entries /\ seated \subseteq Clients
  <2>1. agenda # <<>>
    BY DEF HostStep, SendTo, Loop, ShowBoard, RemoveSeat, Reopen, ChangeRoster, CloseSeat,
           EndMatch, Busy
  <2> QED
    BY <2>1, HeadAndRest DEF IInv, TypeOK
<1>1. /\ Rest = <<>> \o Rest /\ <<>> \in Seq(Entries)
      /\ NoEnds(<<>>) /\ Unspoilt(<<>>, closed)
  BY <1>0, ConcatEmptySeq, OwnUnspoilt DEF NoEnds
<1>2. ~ fellBehind => /\ phase = "closed" => Head(agenda).op \in {"send", "close"}
                      /\ phase # "closed" => /\ seated \intersect closed = {}
                                             /\ NoCloses(agenda)
                      /\ Unspoilt(agenda, closed)
  BY <1>0, OrderlyRest DEF RInv, PInv
<1>3. ASSUME NEW m \in Messages, agenda' = ToAll(m) \o Rest,
             Head(agenda).op \notin {"send", "close"},
             UNCHANGED <<phase, seated, closed, panic, fellBehind>>
      PROVE  PInv'
  <2> SUFFICES ASSUME ~ fellBehind PROVE PInv'
    BY <1>3 DEF PInv
  <2>1. ToAll(m) \in Seq(Entries) /\ Unspoilt(ToAll(m), closed) /\ NoEnds(ToAll(m))
    BY <1>0, <1>2, <1>3, LoopsUnspoilt
  <2> QED
    BY <1>0, <1>3, <2>1, GoesOnUnspoilt
<1>4. 0 \in 0 .. MaxFrames
  BY OutboxAssumption
<1>5. CASE SendTo
  <2>1. /\ Head(agenda).op = "send" /\ UNCHANGED <<phase, seated, closed>>
        /\ ~ fellBehind => Head(agenda).to \notin closed
    BY <1>0, <1>2, <1>5, UnspoiltRest DEF SendTo, Busy, lobbyVars
  <2>2. CASE Queue \/ Squeeze
    <3>1. agenda' = <<>> \o Rest /\ UNCHANGED <<panic, fellBehind>>
      BY <1>1, <2>2 DEF Queue, Squeeze
    <3> QED
      BY <1>0, <1>1, <2>1, <3>1, GoesOnUnspoilt
  <2>3. CASE GiveUp
    BY <2>3 DEF GiveUp, PInv
  <2>4. CASE SendOnClosed
    BY <2>1, <2>4 DEF SendOnClosed, PInv
  <2> QED
    BY <1>5, <2>2, <2>3, <2>4 DEF SendTo
<1>6. CASE Loop
  <2>1. LobbyMsg \in Messages
    BY <1>4 DEF LobbyMsg, ControlMsg, Messages
  <2>2. Head(agenda).msg \in Messages
    BY <1>0 DEF Entries
  <2> QED
    BY <1>3, <1>6, <2>1, <2>2 DEF Loop, Busy, lobbyVars
<1>7. CASE ShowBoard
  <2>1. /\ Head(agenda).op = "board" /\ UNCHANGED <<phase, seated, closed, panic, fellBehind>>
    BY <1>7 DEF ShowBoard, Busy
  <2>2. CASE agenda' = Rest
    BY <1>0, <1>1, <2>1, <2>2, GoesOnUnspoilt
  <2>3. CASE frame < MaxFrames /\ agenda' = ToAll(FrameMsg(frame + 1)) \o Rest
    <3>1. frame + 1 \in 0 .. MaxFrames
      <4>1. frame \in 0 .. MaxFrames /\ MaxFrames \in Nat
        BY OutboxAssumption DEF IInv, TypeOK
      <4> QED
        BY <2>3, <4>1
    <3>2. FrameMsg(frame + 1) \in Messages
      BY <3>1 DEF FrameMsg, ControlMsg, Messages
    <3> QED
      BY <1>3, <2>1, <2>3, <3>2
  <2> QED
    BY <1>7, <2>2, <2>3 DEF ShowBoard
<1>8. CASE RemoveSeat
  <2> SUFFICES ASSUME ~ fellBehind' PROVE PInv'
    BY DEF PInv
  <2> DEFINE c == Head(agenda).to
  <2>1. /\ Head(agenda).op = "remove" /\ seated' = seated \ {c} /\ phase' = phase
        /\ panic' = panic /\ ~ fellBehind
    BY <1>8 DEF RemoveSeat, Busy
  <2>2. /\ Unspoilt(Rest, closed) /\ Unspoilt(Rest, closed \union {c})
        /\ phase # "closed" => NoCloses(Rest)
    BY <1>0, <1>2, <2>1, UnspoiltRest DEF Ends, Rest
  <2>3. /\ NoEnds(<<Entry("abort")>>) /\ <<Entry("abort")>> \in Seq(Entries)
        /\ \A gone : Unspoilt(<<Entry("abort")>>, gone) /\ Unspoilt(<<>>, gone)
    BY OwnUnspoilt, OwnAgendas
  <2>4. CASE c \in seated
    <3>1. /\ closed' = closed \union {c}
          /\ \/ agenda' = <<Entry("abort")>> \o Outdated(Rest)
             \/ agenda' = <<>> \o Outdated(Rest)
      BY <1>8, <2>4 DEF RemoveSeat
    <3>2. /\ Outdated(Rest) \in Seq(Entries) /\ Unspoilt(Outdated(Rest), closed')
          /\ NoCloses(Rest) => NoCloses(Outdated(Rest))
      BY <1>0, <2>2, <3>1, UnspoiltOutdated
    <3>3. Unspoilt(agenda', closed') /\ (NoCloses(Rest) => NoCloses(agenda'))
      <4>1. CASE agenda' = <<Entry("abort")>> \o Outdated(Rest)
        BY <2>3, <3>2, <4>1, UnspoiltInFront
      <4>2. CASE agenda' = <<>> \o Outdated(Rest)
        BY <1>1, <2>3, <3>2, <4>2, UnspoiltInFront
      <4> QED
        BY <3>1, <4>1, <4>2
    <3>4. phase' # "closed" => seated' \intersect closed' = {} /\ NoCloses(agenda')
      BY <1>2, <2>1, <2>2, <3>1, <3>3
    <3> QED
      BY <2>1, <3>3, <3>4 DEF PInv
  <2>5. CASE c \notin seated
    <3>1. closed' = closed /\ agenda' = <<>> \o Rest /\ seated' = seated
      BY <1>8, <2>1, <2>5 DEF RemoveSeat
    <3>2. agenda' = Rest
      BY <1>1, <3>1
    <3> QED
      BY <2>1, <2>2, <3>1, <3>2 DEF PInv
  <2> QED
    BY <2>4, <2>5
<1>9. CASE Reopen \/ ChangeRoster
  <2>1. /\ agenda' = <<Broadcast>> \o Outdated(Rest) /\ UNCHANGED <<seated, closed, panic, fellBehind>>
        /\ Head(agenda).op \notin {"send", "close"}
    BY <1>9 DEF Reopen, ChangeRoster, Busy, lobbyVars
  <2>2. /\ <<Broadcast>> \in Seq(Entries) /\ NoEnds(<<Broadcast>>)
        /\ Unspoilt(<<Broadcast>>, closed)
    BY OwnUnspoilt, OwnAgendas
  <2>3. ~ fellBehind => phase # "closed"
    BY <1>2, <2>1
  <2>4. CASE fellBehind
    BY <2>1, <2>4 DEF PInv
  <2> QED
    BY <1>0, <2>1, <2>2, <2>3, <2>4, GoesOnUnspoilt
<1>10. CASE CloseSeat
  <2> SUFFICES ASSUME ~ fellBehind' PROVE PInv'
    BY DEF PInv
  <2> DEFINE c == Head(agenda).to
  <2>1. /\ Head(agenda).op = "close" /\ closed' = closed \union {c} /\ agenda' = Rest
        /\ UNCHANGED <<phase, seated, panic>> /\ ~ fellBehind
    BY <1>10 DEF CloseSeat, Busy, lobbyVars
  <2>2. Unspoilt(Rest, closed \union {c}) /\ phase = "closed"
    BY <1>0, <1>2, <2>1, UnspoiltRest DEF Ends, Rest
  <2> QED
    BY <2>1, <2>2 DEF PInv
<1>11. CASE EndMatch
  <2>1. /\ agenda' = <<Each(ControlMsg), Each(ControlMsg), Broadcast>> \o Rest
        /\ UNCHANGED <<seated, closed, panic, fellBehind>>
        /\ Head(agenda).op \notin {"send", "close"}
    BY <1>11 DEF EndMatch, Busy
  <2>2. /\ <<Each(ControlMsg), Each(ControlMsg), Broadcast>> \in Seq(Entries)
        /\ NoEnds(<<Each(ControlMsg), Each(ControlMsg), Broadcast>>)
        /\ Unspoilt(<<Each(ControlMsg), Each(ControlMsg), Broadcast>>, closed)
    BY OwnUnspoilt, OwnAgendas
  <2>3. CASE fellBehind
    BY <2>1, <2>3 DEF PInv
  <2> QED
    BY <1>0, <1>2, <2>1, <2>2, <2>3, GoesOnUnspoilt
<1> QED
  BY <1>5, <1>6, <1>7, <1>8, <1>9, <1>10, <1>11 DEF HostStep

\* As long as no client falls behind, nothing the host does makes it panic.
THEOREM PanicsOnlyBehindClients == Spec => []PanicsOnlyBehind
<1>1. Init => PInv
  <2> SUFFICES ASSUME Init PROVE PInv
    OBVIOUS
  <2>1. closed = {} /\ panic = "none" /\ agenda = <<>>
    BY DEF Init
  <2> QED
    BY <2>1, OwnUnspoilt DEF PInv
<1>2. IInv /\ RInv /\ PInv /\ [Next]_vars => PInv'
  <2> SUFFICES ASSUME IInv, RInv, PInv, [Next]_vars PROVE PInv'
    OBVIOUS
  <2>1. CASE Handler
    BY <2>1, HandlerUnspoilt
  <2>2. CASE HostStep
    BY <2>2, HostStepUnspoilt
  <2>3. CASE \E c \in Clients : WriterStep(c) \/ HangUp(c) \/ NetworkFails(c)
    BY <2>3 DEF WriterStep, HangUp, NetworkFails, lobbyVars, PInv
  <2>4. CASE UNCHANGED vars
    BY <2>4 DEF vars, lobbyVars, PInv
  <2> QED
    BY <2>1, <2>2, <2>3, <2>4 DEF Next
<1>3. PInv => PanicsOnlyBehind
  BY DEF PInv, PanicsOnlyBehind
<1> QED
  BY <1>1, <1>2, <1>3, Invariant, RostersInvariant, PTL DEF Spec
=============================================================================
