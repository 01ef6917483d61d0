---------------------------- MODULE GossipProofs ----------------------------
(***************************************************************************)
(* What holds of Gossip for any peers, matches, keys and batches: the two  *)
(* halves of an exchange stay in step, and no step of play, exchange,      *)
(* failure or restart makes a history worse.                               *)
(*                                                                         *)
(* A refused write leaves the store with as many signatures as before,     *)
(* though perhaps others: the lowest n of at least n keys are n keys,      *)
(* as their ranks show.                                                    *)
(***************************************************************************)
EXTENDS Gossip, Functions, FiniteSetTheorems, TLAPS

-----------------------------------------------------------------------------
(***************************************************************************)
(* The rank of a member of a finite set of numbers, how many members are   *)
(* below it, tells which are its first n.                                  *)
(***************************************************************************)
Below(S, i) == {j \in S : j < i}
Rank(S) == [i \in S |-> Cardinality(Below(S, i))]

\* There are n numbers below n.
LEMMA CountBelow ==
  ASSUME NEW n \in Nat
  PROVE  IsFiniteSet(0 .. n - 1) /\ Cardinality(0 .. n - 1) = n
<1>1. 0 \in Int /\ n - 1 \in Int
  OBVIOUS
<1>2. /\ IsFiniteSet(0 .. n - 1)
      /\ Cardinality(0 .. n - 1) = IF 0 > n - 1 THEN 0 ELSE n - 1 - 0 + 1
  BY <1>1, FS_Interval
<1> QED
  BY <1>2

\* A member that is higher has more below it, and none has all of them.
LEMMA RanksGrow ==
  ASSUME NEW S \in SUBSET Nat, IsFiniteSet(S)
  PROVE  /\ Cardinality(S) \in Nat
         /\ \A i \in S : Rank(S)[i] \in 0 .. Cardinality(S) - 1
         /\ \A i, k \in S : i < k => Rank(S)[i] < Rank(S)[k]
<1>1. Cardinality(S) \in Nat
  BY FS_CardinalityType
<1>2. ASSUME NEW i \in S
      PROVE  /\ IsFiniteSet(Below(S, i)) /\ Cardinality(Below(S, i)) \in Nat
             /\ Cardinality(Below(S, i)) < Cardinality(S)
  <2>1. i \in Nat
    OBVIOUS
  <2>2. Below(S, i) \in SUBSET S /\ i \notin Below(S, i)
    BY <2>1 DEF Below
  <2>3. /\ IsFiniteSet(Below(S, i)) /\ Cardinality(Below(S, i)) <= Cardinality(S)
        /\ Cardinality(S) = Cardinality(Below(S, i)) => S = Below(S, i)
    BY <2>2, FS_Subset
  <2>4. Cardinality(Below(S, i)) \in Nat
    BY <2>3, FS_CardinalityType
  <2> QED
    BY <1>1, <2>2, <2>3, <2>4
<1>3. ASSUME NEW i \in S, NEW k \in S, i < k
      PROVE  Cardinality(Below(S, i)) < Cardinality(Below(S, k))
  <2>1. i < k /\ \A j \in S : j \in Nat
    BY <1>3
  <2>2. (\A j \in S : j < i => j < k) /\ ~ (i < i)
    BY <2>1
  <2>3. /\ Below(S, i) \in SUBSET Below(S, k) /\ i \in Below(S, k)
        /\ i \notin Below(S, i)
    BY <2>1, <2>2 DEF Below
  <2>4. /\ Cardinality(Below(S, i)) <= Cardinality(Below(S, k))
        /\ Cardinality(Below(S, k)) = Cardinality(Below(S, i)) => Below(S, k) = Below(S, i)
    BY <1>2, <2>3, FS_Subset
  <2> QED
    BY <1>2, <2>3, <2>4
<1> QED
  BY <1>1, <1>2, <1>3 DEF Rank

\* The ranks are the numbers below the size of the set, each taken once.
LEMMA RanksBiject ==
  ASSUME NEW S \in SUBSET Nat, IsFiniteSet(S)
  PROVE  /\ Rank(S) \in Injection(S, 0 .. Cardinality(S) - 1)
         /\ Rank(S) \in Surjection(S, 0 .. Cardinality(S) - 1)
<1>1. Rank(S) \in [S -> 0 .. Cardinality(S) - 1]
  BY RanksGrow DEF Rank
<1>2. ASSUME NEW i \in S, NEW k \in S, Rank(S)[i] = Rank(S)[k]
      PROVE  i = k
  <2>1. i \in Nat /\ k \in Nat /\ Rank(S)[i] \in Int /\ Rank(S)[k] \in Int
    BY RanksGrow
  <2>2. ~ (i < k) /\ ~ (k < i)
    BY <1>2, <2>1, RanksGrow
  <2> QED
    BY <2>1, <2>2
<1>3. Rank(S) \in Injection(S, 0 .. Cardinality(S) - 1)
  BY <1>1, <1>2 DEF Injection, IsInjective
<1>4. /\ IsFiniteSet(0 .. Cardinality(S) - 1)
      /\ Cardinality(0 .. Cardinality(S) - 1) = Cardinality(S)
  BY RanksGrow, CountBelow
<1> QED
  BY <1>3, <1>4, FS_Injection

\* The members of ranks below n are n.
LEMMA FirstAreSo ==
  ASSUME NEW S \in SUBSET Nat, IsFiniteSet(S), NEW n \in Nat, n <= Cardinality(S)
  PROVE  LET first == {i \in S : Rank(S)[i] < n}
         IN  IsFiniteSet(first) /\ Cardinality(first) = n
<1> DEFINE first == {i \in S : Rank(S)[i] < n}
           ranks == [i \in first |-> Rank(S)[i]]
<1>1. first \in SUBSET S /\ IsFiniteSet(first)
  <2>1. first \in SUBSET S
    OBVIOUS
  <2> QED
    BY <2>1, FS_Subset
<1>2. \A i \in first : Rank(S)[i] \in 0 .. n - 1
  BY RanksGrow
<1>3. \A r \in 0 .. n - 1 : \E i \in first : Rank(S)[i] = r
  <2>1. \A r \in 0 .. n - 1 : r \in 0 .. Cardinality(S) - 1
    BY RanksGrow
  <2> QED
    BY <2>1, RanksBiject DEF Surjection
<1> HIDE DEF first
<1>4. ranks \in [first -> 0 .. n - 1]
  BY <1>2
<1>5. ranks \in Injection(first, 0 .. n - 1)
  <2>1. \A i, k \in first : ranks[i] = ranks[k] => i = k
    BY <1>1, RanksBiject DEF Injection, IsInjective
  <2> QED
    BY <1>4, <2>1 DEF Injection, IsInjective
<1>6. ranks \in Surjection(first, 0 .. n - 1)
  BY <1>3, <1>4 DEF Surjection
<1>7. IsFiniteSet(0 .. n - 1) /\ Cardinality(0 .. n - 1) = n
  BY CountBelow
<1>8. Cardinality(first) <= n
  BY <1>5, <1>7, FS_Injection
<1>9. n <= Cardinality(first)
  BY <1>1, <1>6, <1>7, FS_Surjection
<1>10. Cardinality(first) \in Nat
  BY <1>1, FS_CardinalityType
<1> QED
  BY <1>1, <1>8, <1>9, <1>10 DEF first

\* n of at least n numbers have fewer than n below them.
LEMMA LowestCount ==
  ASSUME NEW S \in SUBSET Nat, IsFiniteSet(S), NEW n \in Nat, n <= Cardinality(S)
  PROVE  Lowest(S, n) \subseteq S /\ Cardinality(Lowest(S, n)) = n
<1>1. Lowest(S, n) = {i \in S : Rank(S)[i] < n}
  BY DEF Lowest, Rank, Below
<1> QED
  BY <1>1, FirstAreSo
-----------------------------------------------------------------------------
(***************************************************************************)
(* The stores.                                                             *)
(***************************************************************************)
\* What is in memory is in a file, or at least as much of it.
Stores ==
  /\ recs \in [Peers -> Records] /\ disk \in [Peers -> Records]
  /\ refusals \in 0 .. MaxRefusals
  /\ refusals = 0 => disk = recs
  /\ \A p \in Peers, m \in Matches : Cardinality(recs[p][m]) <= Cardinality(disk[p][m])

\* What a step may do to a history.
NoWorse ==
  \A p \in Peers, m \in Matches :
    /\ Cardinality(recs[p][m]) <= Cardinality(recs'[p][m])
    /\ refusals' = 0 => recs[p][m] \subseteq recs'[p][m] /\ disk[p][m] \subseteq disk'[p][m]

\* More keys are more.
LEMMA MoreKeys ==
  ASSUME NEW T \in SUBSET Keys, NEW S \in SUBSET T
  PROVE  /\ IsFiniteSet(S) /\ Cardinality(S) \in Nat
         /\ Cardinality(S) <= Cardinality(T) /\ Cardinality(S) <= Cardinality(Keys)
<1>1. IsFiniteSet(T) /\ IsFiniteSet(S)
  BY GossipAssumption, FS_Subset
<1>2. Cardinality(S) <= Cardinality(T)
  BY <1>1, FS_Subset
<1>3. Cardinality(S) <= Cardinality(Keys)
  <2>1. S \in SUBSET Keys
    OBVIOUS
  <2> QED
    BY <2>1, GossipAssumption, FS_Subset
<1> QED
  BY <1>1, <1>2, <1>3, FS_CardinalityType

\* A refused write leaves as many signatures in memory as there were.
LEMMA RefusedKeepsCount ==
  ASSUME NEW held \in SUBSET Keys, NEW new \in SUBSET Keys
  PROVE  /\ Overwritten(held, new) \in SUBSET Keys
         /\ Cardinality(Overwritten(held, new)) = Cardinality(held)
<1> DEFINE fits == Lowest(new, Capacity(Cardinality(held)) - Cardinality(held))
           all == held \union fits
<1>1. fits \subseteq new
  BY DEF Lowest
<1> HIDE DEF fits
<1>2. all \in SUBSET Keys /\ held \in SUBSET all
  BY <1>1
<1> HIDE DEF all
<1>3. all \in SUBSET Nat /\ IsFiniteSet(all)
  BY <1>2, GossipAssumption, FS_Subset
<1>4. Cardinality(held) \in Nat /\ Cardinality(held) <= Cardinality(all)
  BY <1>2, MoreKeys
<1>5. /\ Lowest(all, Cardinality(held)) \subseteq all
      /\ Cardinality(Lowest(all, Cardinality(held))) = Cardinality(held)
  BY <1>3, <1>4, LowestCount
<1> QED
  BY <1>2, <1>5 DEF Overwritten, all, fits

\* Put adds signatures, or has its write refused.
LEMMA PutNoWorse ==
  ASSUME Stores, NEW p \in Peers, NEW m \in Matches, NEW sigs \in SUBSET Keys,
         Put(p, m, sigs)
  PROVE  Stores' /\ NoWorse
<1> DEFINE held == recs[p][m]
           new == sigs \ held
<1> USE DEF Stores, Records
<1>1. /\ \A r \in Peers : recs[r] \in Records /\ disk[r] \in Records
      /\ \A r \in Peers, n \in Matches : recs[r][n] \in SUBSET Keys /\ disk[r][n] \in SUBSET Keys
  OBVIOUS
<1>2. \A S \in SUBSET Keys : Cardinality(S) \in Nat
  BY MoreKeys
<1>3. CASE /\ recs' = [recs EXCEPT ![p][m] = held \union sigs]
           /\ disk' = IF new = {} THEN disk ELSE [disk EXCEPT ![p][m] = held \union sigs]
           /\ UNCHANGED refusals
  <2>1. held \in SUBSET Keys /\ held \union sigs \in SUBSET Keys
    BY <1>1
  <2>2. Cardinality(held) <= Cardinality(held \union sigs)
    BY <2>1, MoreKeys
  <2>3. new = {} => held \union sigs = held
    OBVIOUS
  <2> HIDE DEF held, new
  <2>4. /\ recs' \in [Peers -> Records]
        /\ \A r \in Peers, n \in Matches :
             recs'[r][n] = IF r = p /\ n = m THEN held \union sigs ELSE recs[r][n]
    BY <1>1, <1>3, <2>1
  <2>5. /\ disk' \in [Peers -> Records]
        /\ \A r \in Peers, n \in Matches :
             disk'[r][n] = IF r = p /\ n = m /\ new # {} THEN held \union sigs ELSE disk[r][n]
    BY <1>1, <1>3, <2>1
  <2>6. recs[p][m] = held
    BY DEF held
  <2>7. refusals' = 0 => disk' = recs'
    <3> SUFFICES ASSUME refusals' = 0 PROVE disk' = recs'
      OBVIOUS
    <3>1. disk = recs
      BY <1>3
    <3>2. CASE new = {}
      <4>1. recs' = recs
        BY <1>1, <1>3, <2>3, <2>6, <3>2
      <4> QED
        BY <1>3, <3>1, <3>2, <4>1
    <3> QED
      BY <1>3, <3>1, <3>2
  <2>8. \A r \in Peers, n \in Matches : Cardinality(recs'[r][n]) <= Cardinality(disk'[r][n])
    <3> SUFFICES ASSUME NEW r \in Peers, NEW n \in Matches
                 PROVE  Cardinality(recs'[r][n]) <= Cardinality(disk'[r][n])
      OBVIOUS
    <3>1. Cardinality(held \union sigs) \in Nat
      BY <1>2, <2>1
    <3>2. CASE r = p /\ n = m /\ new # {}
      <4>1. recs'[r][n] = held \union sigs /\ disk'[r][n] = held \union sigs
        BY <2>4, <2>5, <3>2
      <4> QED
        BY <3>1, <4>1
    <3>3. CASE ~ (r = p /\ n = m /\ new # {})
      <4>1. recs'[r][n] = recs[r][n] /\ disk'[r][n] = disk[r][n]
        BY <2>3, <2>4, <2>5, <2>6, <3>3
      <4> QED
        BY <4>1
    <3> QED
      BY <3>2, <3>3
  <2>9. NoWorse
    BY <1>1, <1>2, <1>3, <2>1, <2>2, <2>4, <2>5, <2>6 DEF NoWorse
  <2> QED
    BY <1>3, <2>4, <2>5, <2>7, <2>8, <2>9
<1>4. CASE /\ new # {} /\ refusals < MaxRefusals
           /\ refusals' = refusals + 1
           /\ recs' = [recs EXCEPT ![p][m] = Overwritten(held, new)]
           /\ UNCHANGED disk
  <2>1. held \in SUBSET Keys /\ new \in SUBSET Keys /\ recs[p][m] = held
    BY <1>1
  <2>2. /\ Overwritten(held, new) \in SUBSET Keys
        /\ Cardinality(Overwritten(held, new)) = Cardinality(held)
    BY <2>1, RefusedKeepsCount
  <2> HIDE DEF held, new
  <2>3. /\ recs' \in [Peers -> Records]
        /\ \A r \in Peers, n \in Matches :
             recs'[r][n] = IF r = p /\ n = m THEN Overwritten(held, new) ELSE recs[r][n]
    BY <1>1, <1>4, <2>2
  <2>4. refusals' \in 0 .. MaxRefusals /\ refusals' # 0
    BY <1>4, GossipAssumption
  <2>5. \A r \in Peers, n \in Matches : Cardinality(recs'[r][n]) = Cardinality(recs[r][n])
    BY <2>1, <2>2, <2>3
  <2> QED
    BY <1>1, <1>2, <1>4, <2>3, <2>4, <2>5 DEF NoWorse
<1> QED
  BY <1>3, <1>4 DEF Put

\* A peer that comes back reads its files.
LEMMA RestartNoWorse ==
  ASSUME Stores, NEW p \in Peers, Restart(p)
  PROVE  Stores' /\ NoWorse
<1> USE DEF Stores, Records
<1>1. \A r \in Peers, n \in Matches :
        /\ recs[r][n] \in SUBSET Keys /\ disk[r][n] \in SUBSET Keys
        /\ Cardinality(recs[r][n]) \in Nat /\ Cardinality(disk[r][n]) \in Nat
  BY MoreKeys
<1>2. /\ recs' \in [Peers -> Records]
      /\ \A r \in Peers : recs'[r] = IF r = p THEN disk[r] ELSE recs[r]
      /\ disk' = disk /\ refusals' = refusals
  BY DEF Restart
<1>3. refusals' = 0 => disk' = recs'
  BY DEF Restart
<1>4. \A r \in Peers, n \in Matches : Cardinality(recs'[r][n]) <= Cardinality(disk'[r][n])
  BY <1>1, <1>2
<1>5. NoWorse
  <2>1. \A r \in Peers, n \in Matches : Cardinality(recs[r][n]) <= Cardinality(recs'[r][n])
    BY <1>1, <1>2
  <2>2. refusals' = 0 => recs' = recs /\ disk' = disk
    BY <1>2, <1>3
  <2> QED
    BY <2>1, <2>2 DEF NoWorse
<1> QED
  BY <1>2, <1>3, <1>4, <1>5

\* Where no store is touched, none gets worse.
LEMMA UntouchedNoWorse ==
  ASSUME Stores, UNCHANGED <<recs, disk, refusals>>
  PROVE  Stores' /\ NoWorse
<1>1. \A r \in Peers, n \in Matches :
        recs[r][n] \in SUBSET Keys /\ Cardinality(recs[r][n]) \in Nat
  BY MoreKeys DEF Stores, Records
<1> QED
  BY <1>1 DEF Stores, NoWorse
-----------------------------------------------------------------------------
(***************************************************************************)
(* The exchanges.                                                          *)
(***************************************************************************)
HalvesInStep(e) ==
  /\ e.listener = "wanting" => e.dialer = "answered" /\ e.want # {}
  /\ e.dialer = "awaiting" => e.listener \in {"asked", "collecting"}

Running == x \in [Pairs -> Exchanges] /\ InStep

\* Each step is of one exchange, but for a restart.
LEMMA OneExchange ==
  ASSUME Running, NEW pair \in Pairs, NEW e \in Exchanges, HalvesInStep(e),
         x' = [x EXCEPT ![pair] = e]
  PROVE  Running'
  BY DEF Running, InStep, HalvesInStep

LEMMA NothingToSend == Idle \in Exchanges /\ Nothing \in Records /\ NoneHeld \in [Matches -> 0 .. Cardinality(Keys)]
<1>1. Cardinality(Keys) \in Nat
  BY GossipAssumption, FS_CardinalityType
<1>2. Nothing \in Records /\ NoneHeld \in [Matches -> 0 .. Cardinality(Keys)]
  BY <1>1 DEF Nothing, Records, NoneHeld
<1> QED
  BY <1>2 DEF Idle, Exchanges

\* What is sent is made of records that are held.
LEMMA SentTyped ==
  ASSUME Stores, NEW p \in Peers, NEW ids
  PROVE  Collect(p, ids) \in Records /\ Inventory(p) \in [Matches -> 0 .. Cardinality(Keys)]
<1>1. Cardinality(Keys) \in Nat
  BY GossipAssumption, FS_CardinalityType
<1>2. \A m \in Matches : recs[p][m] \in SUBSET Keys
  BY DEF Stores, Records
<1>3. \A m \in Matches : Cardinality(recs[p][m]) \in 0 .. Cardinality(Keys)
  BY <1>1, <1>2, MoreKeys
<1> QED
  BY <1>2, <1>3 DEF Collect, Inventory, Records

\* Dialling, comparing, answering, giving and hanging up touch no store.
LEMMA TalkInStep ==
  ASSUME Stores, Running, NEW pair \in Pairs, NEW p, NEW q, pair = <<p, q>>,
         p \in Peers, q \in Peers,
         \/ Initiate(p, q) \/ Compare(p, q) \/ Answer(p, q) \/ Give(p, q)
         \/ HangUp(p, q) \/ Cut(p, q)
  PROVE  Running' /\ UNCHANGED <<recs, disk, refusals>>
<1> DEFINE e == x[pair]
<1>0. e \in Exchanges /\ HalvesInStep(e)
  BY DEF Running, InStep, HalvesInStep
<1> HIDE DEF e
<1> USE DEF counts
<1>1. CASE Initiate(p, q)
  <2> DEFINE f == [Idle EXCEPT !.dialer = "awaiting", !.listener = "asked",
                               !.inv = Inventory(p)]
  <2>1. f \in Exchanges /\ HalvesInStep(f)
    BY NothingToSend, SentTyped DEF Exchanges, HalvesInStep
  <2>2. x' = [x EXCEPT ![pair] = f]
    BY <1>1 DEF Initiate
  <2> HIDE DEF f
  <2> QED
    BY <1>1, <2>1, <2>2, OneExchange DEF Initiate
<1>2. CASE Compare(p, q)
  <2> DEFINE mine == Inventory(q)
             f == [e EXCEPT !.listener = "collecting",
                            !.want = Lowest(Missing(mine, e.inv), Batch),
                            !.offer = Missing(e.inv, mine)]
  <2>1. /\ Lowest(Missing(mine, e.inv), Batch) \in SUBSET Matches
        /\ Missing(e.inv, mine) \in SUBSET Matches
    BY DEF Lowest, Missing
  <2>2. e.listener = "asked" /\ x' = [x EXCEPT ![pair] = f]
    BY <1>2 DEF Compare, e
  <2> HIDE DEF mine
  <2>3. f \in Exchanges /\ HalvesInStep(f)
    BY <1>0, <2>1, <2>2 DEF Exchanges, HalvesInStep
  <2> HIDE DEF f
  <2> QED
    BY <1>2, <2>2, <2>3, OneExchange DEF Compare
<1>3. CASE Answer(p, q)
  <2> DEFINE f == [e EXCEPT !.listener = IF e.want = {} THEN "idle" ELSE "wanting",
                            !.dialer = "answered", !.down = Collect(q, e.offer)]
  <2>1. Collect(q, e.offer) \in Records
    BY SentTyped
  <2>2. x' = [x EXCEPT ![pair] = f]
    BY <1>3 DEF Answer, e
  <2>3. f \in Exchanges /\ HalvesInStep(f)
    BY <1>0, <2>1 DEF Exchanges, HalvesInStep
  <2> HIDE DEF f
  <2> QED
    BY <1>3, <2>2, <2>3, OneExchange DEF Answer
<1>4. CASE Give(p, q)
  <2> DEFINE f == [e EXCEPT !.dialer = "idle"]
             g == [e EXCEPT !.dialer = "idle", !.listener = "given",
                            !.up = Collect(p, e.want)]
  <2>1. Collect(p, e.want) \in Records
    BY SentTyped
  <2>2. e.want = {} => f \in Exchanges /\ HalvesInStep(f)
    BY <1>0 DEF Exchanges, HalvesInStep
  <2>3. g \in Exchanges /\ HalvesInStep(g)
    BY <1>0, <2>1 DEF Exchanges, HalvesInStep
  <2>4. x' = [x EXCEPT ![pair] = IF e.want = {} THEN f ELSE g]
    BY <1>4 DEF Give, e
  <2> HIDE DEF f, g
  <2> QED
    BY <1>4, <2>2, <2>3, <2>4, OneExchange DEF Give
<1>5. CASE HangUp(p, q)
  <2>1. HalvesInStep(Idle)
    BY DEF HalvesInStep, Idle
  <2> QED
    BY <1>5, <2>1, NothingToSend, OneExchange DEF HangUp
<1>6. CASE Cut(p, q)
  <2>1. x' = [x EXCEPT ![pair] = CutOff(e)]
    BY <1>6 DEF Cut, e
  <2>2. CutOff(e) \in Exchanges /\ HalvesInStep(CutOff(e))
    BY <1>0 DEF CutOff, Exchanges, HalvesInStep
  <2> QED
    BY <1>6, <2>1, <2>2, OneExchange DEF Cut
<1> QED
  BY <1>1, <1>2, <1>3, <1>4, <1>5, <1>6

\* Absorbing a record puts it in a store and goes on.
LEMMA AbsorbInStep ==
  ASSUME Stores, Running, NEW pair \in Pairs, NEW p, NEW q, pair = <<p, q>>,
         p \in Peers, q \in Peers, AbsorbDown(p, q) \/ AbsorbUp(p, q)
  PROVE  Stores' /\ NoWorse /\ Running'
<1> DEFINE e == x[pair]
<1>0. e \in Exchanges /\ HalvesInStep(e)
  BY DEF Running, InStep, HalvesInStep
<1>1. e.down \in Records /\ e.up \in Records
  BY <1>0 DEF Exchanges
<1> HIDE DEF e
<1>2. CASE AbsorbDown(p, q)
  <2>1. PICK m \in Lowest({n \in Matches : e.down[n] # {}}, 1) :
          /\ Put(p, m, e.down[m])
          /\ x' = [x EXCEPT ![pair].down[m] = {}]
    BY <1>2 DEF AbsorbDown, e
  <2>2. m \in Matches /\ e.down[m] \in SUBSET Keys
    BY <1>1 DEF Lowest, Records
  <2> DEFINE f == [e EXCEPT !.down = [e.down EXCEPT ![m] = {}]]
  <2>3. f \in Exchanges /\ HalvesInStep(f)
    BY <1>0, <1>1 DEF Exchanges, HalvesInStep, Records
  <2>4. x' = [x EXCEPT ![pair] = f]
    BY <2>1 DEF e
  <2> HIDE DEF f
  <2> QED
    BY <2>1, <2>2, <2>3, <2>4, OneExchange, PutNoWorse
<1>3. CASE AbsorbUp(p, q)
  <2>1. PICK m \in Lowest({n \in Matches : e.up[n] # {}}, 1) :
          /\ Put(q, m, e.up[m])
          /\ x' = [x EXCEPT ![pair].up[m] = {}]
    BY <1>3 DEF AbsorbUp, e
  <2>2. m \in Matches /\ e.up[m] \in SUBSET Keys
    BY <1>1 DEF Lowest, Records
  <2> DEFINE f == [e EXCEPT !.up = [e.up EXCEPT ![m] = {}]]
  <2>3. f \in Exchanges /\ HalvesInStep(f)
    BY <1>0, <1>1 DEF Exchanges, HalvesInStep, Records
  <2>4. x' = [x EXCEPT ![pair] = f]
    BY <2>1 DEF e
  <2> HIDE DEF f
  <2> QED
    BY <2>1, <2>2, <2>3, <2>4, OneExchange, PutNoWorse
<1> QED
  BY <1>2, <1>3

\* What a restart leaves of the exchanges of a peer.
LEMMA RestartInStep ==
  ASSUME Running, NEW p \in Peers, Restart(p)
  PROVE  Running'
<1> DEFINE after(pair) ==
             CASE pair[1] = p -> [CutOff(x[pair]) EXCEPT !.dialer = "idle", !.down = Nothing]
               [] pair[2] = p -> [CutOff(x[pair]) EXCEPT !.listener = "idle", !.up = Nothing]
               [] OTHER -> x[pair]
<1>1. ASSUME NEW pair \in Pairs
      PROVE  after(pair) \in Exchanges /\ HalvesInStep(after(pair))
  <2> DEFINE e == x[pair]
             dials == [CutOff(e) EXCEPT !.dialer = "idle", !.down = Nothing]
             listens == [CutOff(e) EXCEPT !.listener = "idle", !.up = Nothing]
  <2>1. e \in Exchanges /\ HalvesInStep(e)
    BY DEF Running, InStep, HalvesInStep
  <2> HIDE DEF e
  <2>2. dials \in Exchanges /\ HalvesInStep(dials)
    BY <2>1, NothingToSend DEF CutOff, Exchanges, HalvesInStep
  <2>3. listens \in Exchanges /\ HalvesInStep(listens)
    BY <2>1, NothingToSend DEF CutOff, Exchanges, HalvesInStep
  <2>4. after(pair) = IF pair[1] = p THEN dials ELSE IF pair[2] = p THEN listens ELSE e
    <3>1. pair[1] # pair[2]
      BY GossipAssumption
    <3>2. CASE pair[1] = p
      BY <3>1, <3>2 DEF e
    <3>3. CASE pair[2] = p
      BY <3>1, <3>3 DEF e
    <3>4. CASE pair[1] # p /\ pair[2] # p
      BY <3>4 DEF e
    <3> QED
      BY <3>2, <3>3, <3>4
  <2> HIDE DEF dials, listens, after
  <2> QED
    BY <2>1, <2>2, <2>3, <2>4
<1>2. x' = [pair \in Pairs |-> after(pair)]
  BY DEF Restart
<1> HIDE DEF after
<1> QED
  BY <1>1, <1>2 DEF Running, InStep, HalvesInStep
-----------------------------------------------------------------------------
IInv == Stores /\ Running /\ cuts \in 0 .. MaxCuts

\* Peers start with empty stores and no exchange.
LEMMA InitOK == Init => IInv
<1> SUFFICES ASSUME Init PROVE IInv
  OBVIOUS
<1>1. MaxCuts \in Nat /\ MaxRefusals \in Nat
  BY GossipAssumption
<1>2. Cardinality({}) = 0
  BY FS_EmptySet
<1>3. \A p \in Peers, m \in Matches : recs[p][m] = {} /\ disk[p][m] = {}
  BY DEF Init, Nothing
<1>4. Stores
  BY <1>1, <1>2, <1>3, NothingToSend DEF Init, Stores
<1>5. HalvesInStep(Idle)
  BY DEF HalvesInStep, Idle
<1>6. Running
  BY <1>5, NothingToSend DEF Init, Running, InStep, HalvesInStep
<1> QED
  BY <1>1, <1>4, <1>6 DEF Init, IInv

\* No step breaks an exchange or makes a history worse.
LEMMA StepOK == IInv /\ [Next]_vars => IInv' /\ NoWorse
<1> SUFFICES ASSUME IInv, [Next]_vars PROVE IInv' /\ NoWorse
  OBVIOUS
<1> USE DEF IInv
<1>1. CASE \E pair \in Pairs : Exchange(pair[1], pair[2]) \/ Cut(pair[1], pair[2])
  <2>1. PICK pair \in Pairs : Exchange(pair[1], pair[2]) \/ Cut(pair[1], pair[2])
    BY <1>1
  <2> DEFINE p == pair[1]
             q == pair[2]
  <2>2. pair = <<p, q>> /\ p \in Peers /\ q \in Peers
    BY GossipAssumption
  <2>3. Exchange(p, q) \/ Cut(p, q)
    BY <2>1
  <2> HIDE DEF p, q
  <2>4. CASE \/ Initiate(p, q) \/ Compare(p, q) \/ Answer(p, q) \/ Give(p, q)
             \/ HangUp(p, q) \/ Cut(p, q)
    <3>1. Running' /\ UNCHANGED <<recs, disk, refusals>>
      BY <2>2, <2>4, TalkInStep
    <3>2. cuts' \in 0 .. MaxCuts
      BY <2>4, GossipAssumption DEF Initiate, Compare, Answer, Give, HangUp, Cut, counts
    <3> QED
      BY <3>1, <3>2, UntouchedNoWorse
  <2>5. CASE AbsorbDown(p, q) \/ AbsorbUp(p, q)
    <3>1. Stores' /\ NoWorse /\ Running'
      BY <2>2, <2>5, AbsorbInStep
    <3> QED
      BY <2>5, <3>1 DEF AbsorbDown, AbsorbUp
  <2> QED
    BY <2>3, <2>4, <2>5 DEF Exchange
<1>2. CASE \E p \in Peers : Restart(p)
  <2>1. PICK p \in Peers : Restart(p)
    BY <1>2
  <2>2. cuts < MaxCuts /\ cuts' = cuts + 1
    BY <2>1 DEF Restart
  <2>3. cuts' \in 0 .. MaxCuts
    BY <2>2, GossipAssumption
  <2> QED
    BY <2>1, <2>3, RestartNoWorse, RestartInStep
<1>3. CASE \E r \in Recorded : Finalize(r[1], r[2], r[3])
  <2>1. PICK r \in Recorded : Finalize(r[1], r[2], r[3])
    BY <1>3
  <2>2. r[1] \in Peers /\ r[2] \in Matches /\ r[3] \in SUBSET Keys
    BY GossipAssumption
  <2>3. Put(r[1], r[2], r[3]) /\ UNCHANGED <<x, cuts>>
    BY <2>1 DEF Finalize
  <2> QED
    BY <2>2, <2>3, PutNoWorse DEF Running, InStep
<1>4. CASE UNCHANGED vars
  BY <1>4, UntouchedNoWorse DEF vars, counts, Running, InStep
<1> QED
  BY <1>1, <1>2, <1>3, <1>4 DEF Next

\* The invariant of stores and exchanges.
LEMMA Invariant == Spec => []IInv
  BY InitOK, StepOK, PTL DEF Spec

\* The state of stores and exchanges; what is held is on disk as long as no write
\* was refused.
THEOREM GossipTyped == Spec => []TypeOK
<1>1. IInv => TypeOK
  BY DEF IInv, Stores, Running, TypeOK
<1> QED
  BY <1>1, Invariant, PTL

\* The two halves of an exchange agree on its messages, whatever is cut off and
\* whoever restarts.
THEOREM AlwaysInStep == Spec => []InStep
<1>1. IInv => InStep
  BY DEF IInv, Running
<1> QED
  BY <1>1, Invariant, PTL

\* No signature is lost until a write is refused; and, refused or not, no record is lost
\* and no inventory gets worse.
THEOREM HistoryAlwaysKept == Spec => HistoryKept
<1>1. ASSUME NoWorse
      PROVE  \A p \in Peers, m \in Matches :
               /\ Inventory(p)[m] <= Inventory(p)'[m]
               /\ refusals' = 0 => recs[p][m] \subseteq recs'[p][m]
                                   /\ disk[p][m] \subseteq disk'[p][m]
  BY <1>1 DEF NoWorse, Inventory
<1>2. IInv /\ [Next]_vars =>
        [\A p \in Peers, m \in Matches :
           /\ Inventory(p)[m] <= Inventory(p)'[m]
           /\ refusals' = 0 => recs[p][m] \subseteq recs'[p][m]
                               /\ disk[p][m] \subseteq disk'[p][m]]_vars
  BY <1>1, StepOK
<1> QED
  BY <1>2, Invariant, PTL DEF Spec, HistoryKept
=============================================================================
