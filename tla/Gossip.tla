------------------------------- MODULE Gossip -------------------------------
(***************************************************************************)
(* The store of attested records, src/internal/store/store.go, and the     *)
(* anti-entropy exchange that fills it, src/internal/gossip/gossip.go.     *)
(*                                                                         *)
(* A record is its match and the keys that signed it: the result under a   *)
(* match ID never differs between trusted peers, and a record that does    *)
(* not verify is never stored.  No signature at all means not held.        *)
(* Matches and keys are numbers because inventories, batches and signature *)
(* lists are sorted.                                                       *)
(*                                                                         *)
(* Each exchange has a dialling and a listening half that run at their own *)
(* pace, beside other exchanges and beside a match that is being recorded; *)
(* the store's lock makes each Put and each Get one step.                  *)
(***************************************************************************)
EXTENDS Integers, FiniteSets

CONSTANTS
  Peers,
  Matches, Keys,
  Pairs,           \* who dials whom: pairs of peers
  Recorded,        \* what play puts in a store: <<peer, match, signatures>>
  Batch,           \* gossip.MaxRecordsPerExchange
  MaxCuts,         \* bound: connections cut and peers restarted
  MaxRefusals      \* bound: writes a disk refuses

ASSUME GossipAssumption ==
  /\ Matches \subseteq Nat /\ IsFiniteSet(Matches)
  /\ Keys \subseteq Nat /\ IsFiniteSet(Keys)
  /\ Pairs \subseteq {pair \in Peers \X Peers : pair[1] # pair[2]}
  /\ Recorded \subseteq Peers \X Matches \X ((SUBSET Keys) \ {{}})
  /\ Batch \in Nat \ {0} /\ MaxCuts \in Nat /\ MaxRefusals \in Nat

VARIABLES
  recs,    \* Store.recs of each peer
  disk,    \* the files of each peer
  x,       \* the exchange of each pair
  cuts, refusals

counts == <<cuts, refusals>>
vars == <<recs, disk, x, counts>>
-----------------------------------------------------------------------------
(***************************************************************************)
(* The store.                                                              *)
(***************************************************************************)
Records == [Matches -> SUBSET Keys]
Nothing == [m \in Matches |-> {}]

Lowest(S, n) == {i \in S : Cardinality({j \in S : j < i}) < n}

\* append doubles a full slice, so n signatures lie in an array of this size.
Capacity(n) == CHOOSE c \in {2 ^ k : k \in 0 .. n} : c >= n /\ (c = 1 \/ c < 2 * n)

\* Put adds signatures to a copy of the record, but the copy's slice shares its
\* array: what still fits is sorted in among the signatures the stored slice
\* looks at.  Only a failed write leaves the stored slice in place.
Overwritten(held, new) ==
  Lowest(held \union Lowest(new, Capacity(Cardinality(held)) - Cardinality(held)),
         Cardinality(held))

\* Fault: signatures added to a record are not written.
PutInMemory(p, m, sigs) ==
  LET held == recs[p][m]
  IN  /\ recs' = [recs EXCEPT ![p][m] = held \union sigs]
      /\ disk' = IF held = {} THEN [disk EXCEPT ![p][m] = sigs] ELSE disk
      /\ UNCHANGED refusals

Put(p, m, sigs) ==
  LET held == recs[p][m]
      new  == sigs \ held
  IN  \/ /\ recs' = [recs EXCEPT ![p][m] = held \union sigs]
         /\ disk' = IF new = {} THEN disk ELSE [disk EXCEPT ![p][m] = held \union sigs]
         /\ UNCHANGED refusals
      \/ /\ new # {} /\ refusals < MaxRefusals
         /\ refusals' = refusals + 1
         /\ recs' = [recs EXCEPT ![p][m] = Overwritten(held, new)]
         /\ UNCHANGED disk
-----------------------------------------------------------------------------
(***************************************************************************)
(* One exchange.                                                           *)
(***************************************************************************)
Inventory(p) == [m \in Matches |-> Cardinality(recs[p][m])]

\* Fault: a record that is held is never asked for again.
MissingAbsent(mine, theirs) == {m \in Matches : mine[m] = 0 /\ theirs[m] > 0}

\* What theirs lists and mine has not, or with fewer signatures.
Missing(mine, theirs) == {m \in Matches : theirs[m] > mine[m]}

\* Fault: the batch starts one late.
CollectSkipping(p, ids) ==
  [m \in Matches |-> IF m \in Lowest(ids, Batch + 1) \ Lowest(ids, 1) THEN recs[p][m] ELSE {}]

Collect(p, ids) ==
  [m \in Matches |-> IF m \in Lowest(ids, Batch) THEN recs[p][m] ELSE {}]

NoneHeld == [m \in Matches |-> 0]
Idle == [dialer |-> "idle", listener |-> "idle", inv |-> NoneHeld,
         want |-> {}, offer |-> {}, down |-> Nothing, up |-> Nothing]

\* Initiate sends the inventory on a probe's connection.
Initiate(p, q) ==
  /\ x[<<p, q>>] = Idle
  /\ x' = [x EXCEPT ![<<p, q>>] = [Idle EXCEPT !.dialer = "awaiting",
                                              !.listener = "asked",
                                              !.inv = Inventory(p)]]
  /\ UNCHANGED <<recs, disk, counts>>

\* Respond compares the inventories ...
Compare(p, q) ==
  LET e == x[<<p, q>>]  mine == Inventory(q)
  IN  /\ e.listener = "asked"
      /\ x' = [x EXCEPT ![<<p, q>>] =
                 [e EXCEPT !.listener = "collecting",
                           !.want = Lowest(Missing(mine, e.inv), Batch),
                           !.offer = Missing(e.inv, mine)]]
      /\ UNCHANGED <<recs, disk, counts>>

\* Fault: the listener awaits a batch it did not ask for.
AnswerAndWait(p, q) ==
  LET e == x[<<p, q>>]
  IN  /\ e.listener = "collecting"
      /\ x' = [x EXCEPT ![<<p, q>>] =
                 [e EXCEPT !.listener = "wanting", !.dialer = "answered",
                           !.down = Collect(q, e.offer)]]
      /\ UNCHANGED <<recs, disk, counts>>

\* ... and answers with the records as they are by then.  If it wants nothing
\* it is done.
Answer(p, q) ==
  LET e == x[<<p, q>>]
  IN  /\ e.listener = "collecting"
      /\ x' = [x EXCEPT ![<<p, q>>] =
                 [e EXCEPT !.listener = IF e.want = {} THEN "idle" ELSE "wanting",
                           !.dialer = "answered", !.down = Collect(q, e.offer)]]
      /\ UNCHANGED <<recs, disk, counts>>

\* absorb stores one record after the other.
AbsorbDown(p, q) ==
  LET e == x[<<p, q>>]
  IN  /\ e.dialer = "answered"
      /\ \E m \in Lowest({n \in Matches : e.down[n] # {}}, 1) :
           /\ Put(p, m, e.down[m])
           /\ x' = [x EXCEPT ![<<p, q>>].down[m] = {}]
      /\ UNCHANGED cuts

\* With the answer absorbed the dialler sends what was wanted, if anything.
Give(p, q) ==
  LET e == x[<<p, q>>]
  IN  /\ e.dialer = "answered" /\ e.down = Nothing
      /\ x' = [x EXCEPT ![<<p, q>>] =
                 IF e.want = {} THEN [e EXCEPT !.dialer = "idle"]
                 ELSE [e EXCEPT !.dialer = "idle", !.listener = "given",
                                !.up = Collect(p, e.want)]]
      /\ UNCHANGED <<recs, disk, counts>>

AbsorbUp(p, q) ==
  LET e == x[<<p, q>>]
  IN  /\ e.listener = "given"
      /\ \E m \in Lowest({n \in Matches : e.up[n] # {}}, 1) :
           /\ Put(q, m, e.up[m])
           /\ x' = [x EXCEPT ![<<p, q>>].up[m] = {}]
      /\ UNCHANGED cuts

\* Both halves have returned: the next probe finds nothing left of the exchange.
HangUp(p, q) ==
  LET e == x[<<p, q>>]
  IN  /\ e # Idle /\ e.dialer = "idle"
      /\ e.listener = "idle" \/ (e.listener = "given" /\ e.up = Nothing)
      /\ x' = [x EXCEPT ![<<p, q>>] = Idle]
      /\ UNCHANGED <<recs, disk, counts>>

\* What a half has received it absorbs; waiting and sending fail.
CutOff(e) ==
  [e EXCEPT !.want = {},
            !.dialer = IF @ = "awaiting" THEN "idle" ELSE @,
            !.listener = IF @ = "given" THEN @ ELSE "idle"]

\* The connection fails, or the ten seconds of the exchange are over.
Cut(p, q) ==
  /\ cuts < MaxCuts /\ x[<<p, q>>] # Idle
  /\ cuts' = cuts + 1
  /\ x' = [x EXCEPT ![<<p, q>>] = CutOff(@)]
  /\ UNCHANGED <<recs, disk, refusals>>

\* A peer ends at any point and comes back: Open reads its files.
Restart(p) ==
  /\ cuts < MaxCuts
  /\ cuts' = cuts + 1
  /\ recs' = [recs EXCEPT ![p] = disk[p]]
  /\ x' = [pair \in Pairs |->
             CASE pair[1] = p -> [CutOff(x[pair]) EXCEPT !.dialer = "idle", !.down = Nothing]
               [] pair[2] = p -> [CutOff(x[pair]) EXCEPT !.listener = "idle", !.up = Nothing]
               [] OTHER -> x[pair]]
  /\ UNCHANGED <<disk, refusals>>

\* A match ends: the host and its clients each put the record.
Finalize(p, m, sigs) ==
  /\ <<p, m, sigs>> \in Recorded
  /\ Put(p, m, sigs)
  /\ UNCHANGED <<x, cuts>>

Init ==
  /\ recs = [p \in Peers |-> Nothing]
  /\ disk = recs
  /\ x = [pair \in Pairs |-> Idle]
  /\ cuts = 0 /\ refusals = 0

Exchange(p, q) ==
  \/ Initiate(p, q) \/ Compare(p, q) \/ Answer(p, q) \/ AbsorbDown(p, q)
  \/ Give(p, q) \/ AbsorbUp(p, q) \/ HangUp(p, q)

Next ==
  \/ \E pair \in Pairs : Exchange(pair[1], pair[2]) \/ Cut(pair[1], pair[2])
  \/ \E p \in Peers : Restart(p)
  \/ \E r \in Recorded : Finalize(r[1], r[2], r[3])

Spec == Init /\ [][Next]_vars

\* A probe falls due every 90 seconds, and both halves run or time out; nothing
\* makes anybody play, a disk accept or a connection last.
FairSpec == Spec /\ \A pair \in Pairs : WF_vars(Exchange(pair[1], pair[2]))
-----------------------------------------------------------------------------
(***************************************************************************)
(* Properties.                                                             *)
(***************************************************************************)
Exchanges ==
  [dialer : {"idle", "awaiting", "answered"},
   listener : {"idle", "asked", "collecting", "wanting", "given"},
   inv : [Matches -> 0 .. Cardinality(Keys)],
   want : SUBSET Matches, offer : SUBSET Matches, down : Records, up : Records]

\* What is held in memory is on disk, unless a write failed.
TypeOK ==
  /\ recs \in [Peers -> Records] /\ disk \in [Peers -> Records]
  /\ refusals = 0 => disk = recs
  /\ x \in [Pairs -> Exchanges] /\ cuts \in 0 .. MaxCuts /\ refusals \in 0 .. MaxRefusals

\* Whatever is exchanged, cut off or restarted, no peer loses a signature, in memory
\* or on disk, until a write is refused; and even when writes are refused and files
\* read again, no record is lost and none has fewer signatures than before: nobody
\* who has compared inventories finds less than he was told of.
HistoryKept ==
  [][\A p \in Peers, m \in Matches :
       /\ Inventory(p)[m] <= Inventory(p)'[m]
       /\ refusals' = 0 => recs[p][m] \subseteq recs'[p][m] /\ disk[p][m] \subseteq disk'[p][m]]_vars

\* Both halves agree whether there is a third message: neither waits for one
\* that is not sent, nor is one sent that is not read.
InStep ==
  \A pair \in Pairs : LET e == x[pair] IN
    /\ e.listener = "wanting" => e.dialer = "answered" /\ e.want # {}
    /\ e.dialer = "awaiting" => e.listener \in {"asked", "collecting"}

\* Nobody plays any more, no connection is cut and no write refused any more.
Quiet ==
  /\ cuts = MaxCuts /\ refusals = MaxRefusals
  /\ \A r \in Recorded : r[3] \subseteq recs[r[1]][r[2]]

Signed(m) == UNION {r[3] : r \in {s \in Recorded : s[2] = m}}

\* However small the batches, whatever is recorded anywhere reaches everybody.
HistorySpreads ==
  Quiet ~> \A p \in Peers, m \in Matches : Signed(m) # {} => recs[p][m] # {}

\* Nor does a better attested copy stay with whoever has it: a peer that holds
\* fewer signatures, or was cut off after the first of two records, catches up.
AttestationSpreads ==
  Quiet ~> \A m \in Matches :
             (\E p \in Peers : recs[p][m] = Signed(m))
                => \A p \in Peers : recs[p][m] = Signed(m)

\* A record is only ever rewritten to add signatures it was missing; a write that
\* is refused takes one out of memory that was there.
AppendOnly ==
  [][\A p \in Peers, m \in Matches : recs[p][m] \subseteq recs'[p][m]]_vars

\* Partially attested records converge: in the end all peers hold the same
\* signatures.
SignaturesConverge == Quiet ~> \A p, q \in Peers : recs[p] = recs[q]
=============================================================================
