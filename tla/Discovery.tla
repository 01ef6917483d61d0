----------------------------- MODULE Discovery ------------------------------
(***************************************************************************)
(* The prober that finds other players on the tailnet,                     *)
(* src/internal/discovery/discovery.go: it reads which nodes are online,   *)
(* handshakes with those that are due, keeps what they answered, and hands *)
(* snapshots to the lobby browser.                                         *)
(*                                                                         *)
(* One sweep runs at a time; inside it probes run side by side, while      *)
(* nodes come and go and lobbies open and close.  Times are ages in polls  *)
(* (two seconds), counted up to the largest the code tells apart.          *)
(*                                                                         *)
(* The specification has names of its own (ProberInit, ProberNext, ...),   *)
(* so that one module can extend it and HostServer.                        *)
(***************************************************************************)
EXTENDS Integers, Sequences, FiniteSets

CONSTANTS
  Nodes,            \* the nodes of the tailnet
  Silent,           \* those that never run tailsnail
  ProbeTimeout, FreshTTL, QuietTTL, MaxQuietTTL, GossipInterval,
  MaxConcurrentProbes,
  Depth,            \* of the snapshots channel
  MaxChanges,       \* bound: what happens on the tailnet
  MaxLosses,        \* bound: probes and netmap reads that fail for no reason
  MaxRefreshes      \* bound: refreshes asked for

ASSUME DiscoveryAssumption ==
  /\ IsFiniteSet(Nodes) /\ Silent \subseteq Nodes
  /\ {ProbeTimeout, FreshTTL, QuietTTL, MaxQuietTTL, GossipInterval,
      MaxConcurrentProbes, Depth} \subseteq Nat \ {0}
  /\ QuietTTL <= MaxQuietTTL
  /\ {MaxChanges, MaxLosses, MaxRefreshes} \subseteq Nat

VARIABLES
  node,       \* what each node is
  cache,      \* Prober.cache
  netmap,     \* Prober.lastNetmap
  sweeping,   \* whether sweep runs
  probe,      \* its probe of each node
  tick,       \* the ticker's channel
  refresh,    \* Prober.refresh
  snapshots,  \* Prober.snapshots
  shown,      \* browser.snapshot
  changes, losses, refreshes,
  closed      \* for the properties: how long ago each node last hosted

counts == <<changes, losses, refreshes>>
wakes == <<tick, refresh>>
proberVars == <<node, cache, netmap, sweeping, probe, wakes, snapshots, shown, counts, closed>>
-----------------------------------------------------------------------------
\* Out of the netmap; online, and running tailsnail unless Silent; or hosting.
States == {"off", "on", "hosting"}

Online == {n \in Nodes : node[n] # "off"}
Runs(n) == node[n] # "off" /\ n \notin Silent

\* The advert in its HelloOK.
Advert(n) == IF node[n] = "hosting" THEN "lobby" ELSE "none"

\* How long freshPeers believes an answer.
Trust == 3 * FreshTTL

Least(i, j) == IF i < j THEN i ELSE j

\* The entry probe makes: never probed, nothing heard, no round of gossip yet.
NewEntry == [answered |-> FALSE, quiet |-> QuietTTL, advert |-> "unheard",
             probed |-> MaxQuietTTL, seen |-> Trust, gossiped |-> GossipInterval]
Cached == DOMAIN cache

NoProbe == [phase |-> "none", age |-> 0, advert |-> "none"]
At(phases) == {n \in Nodes : probe[n].phase \in phases}
Running == At({"dialing", "asked", "syncing"})

\* Peers that answered their last probe, and not too long ago.
FreshPeers(entries) ==
  {n \in DOMAIN entries : entries[n].answered /\ entries[n].seen < Trust}

Listing(entries) ==
  [peers |-> FreshPeers(entries),
   lobbies |-> {n \in FreshPeers(entries) : entries[n].advert = "lobby"}]

\* When the browser is behind, publish drops the oldest snapshot.
Publish(entries) ==
  snapshots' = Append(IF Len(snapshots) < Depth THEN snapshots ELSE Tail(snapshots),
                      Listing(entries))
-----------------------------------------------------------------------------
(***************************************************************************)
(* The sweep.                                                              *)
(***************************************************************************)
\* Fault: entries of nodes that left stay.
PruneNone == cache

\* What is left of the cache without the nodes that left.
Prune == [n \in Cached \cap Online |-> cache[n]]

\* Fault: a node that did not answer is never asked again.
DueIfAnswered(entries, force) ==
  {n \in Online : n \in DOMAIN entries => entries[n].answered}

\* Nodes nobody knows, and those whose entry has lapsed.  A forced sweep asks
\* every node but those that are backed off.
Due(entries, force) ==
  {n \in Online : n \in DOMAIN entries =>
     LET e == entries[n]
     IN  IF force THEN e.answered \/ e.quiet <= QuietTTL
         ELSE e.probed >= IF e.answered THEN FreshTTL ELSE e.quiet}

\* Run wakes for a tick or for a refresh; with nobody due the sweep is over at once.
Sweep(asked) ==
  LET due == Due(Prune, asked \/ Online # netmap)
  IN  /\ netmap' = Online
      /\ cache' = Prune
      /\ sweeping' = (due # {})
      /\ probe' = [n \in Nodes |-> IF n \in due THEN [NoProbe EXCEPT !.phase = "waiting"]
                                   ELSE NoProbe]
      /\ Publish(Prune)

\* The netmap cannot be read.
SweepFails ==
  /\ losses < MaxLosses
  /\ Publish(cache)
  /\ UNCHANGED <<cache, netmap, sweeping, probe>>

StartSweep ==
  /\ ~sweeping
  /\ \/ tick /\ tick' = FALSE /\ Sweep(FALSE) /\ UNCHANGED <<refresh, counts>>
     \/ refresh /\ refresh' = FALSE /\ Sweep(TRUE) /\ UNCHANGED <<tick, counts>>
     \/ /\ tick /\ tick' = FALSE /\ SweepFails
        /\ losses' = losses + 1 /\ UNCHANGED <<refresh, changes, refreshes>>
     \/ /\ refresh /\ refresh' = FALSE /\ SweepFails
        /\ losses' = losses + 1 /\ UNCHANGED <<tick, changes, refreshes>>
  /\ UNCHANGED <<node, shown, closed>>

Move(n, phase) == probe' = [probe EXCEPT ![n] = [NoProbe EXCEPT !.phase = phase]]
ProbeOnly == UNCHANGED <<node, netmap, sweeping, wakes, snapshots, shown, closed>>

\* A probe has its turn among at most MaxConcurrentProbes.
DialNode(n) ==
  /\ probe[n].phase = "waiting"
  /\ Cardinality(Running) < MaxConcurrentProbes
  /\ cache' = IF n \in Cached THEN cache
              ELSE [m \in Cached \union {n} |-> IF m = n THEN NewEntry ELSE cache[m]]
  /\ Move(n, "dialing")
  /\ ProbeOnly /\ UNCHANGED counts

Connect(n) ==
  /\ probe[n].phase = "dialing" /\ Runs(n)
  /\ Move(n, "asked")
  /\ ProbeOnly /\ UNCHANGED <<cache, counts>>

\* The node answers with what it hosts by then.  If a round of gossip is due it
\* is stamped, and follows on the same connection.
Greet(n) ==
  /\ probe[n].phase = "asked" /\ Runs(n)
  /\ probe' = [probe EXCEPT ![n] = [phase |-> "syncing", age |-> 0, advert |-> Advert(n)]]
  /\ cache' = IF cache[n].gossiped < GossipInterval THEN cache
              ELSE [cache EXCEPT ![n].gossiped = 0]
  /\ ProbeOnly /\ UNCHANGED counts

\* What an answer makes of an entry, and what none does.
Heard(e, advert) ==
  [e EXCEPT !.answered = TRUE, !.quiet = QuietTTL, !.probed = 0, !.seen = 0, !.advert = advert]
Missed(e) ==
  [e EXCEPT !.answered = FALSE, !.probed = 0, !.quiet = Least(2 * @, MaxQuietTTL)]

\* Fault: an answer without an advert leaves the one before in place.
AnsweredKeepingAdvert(n) ==
  /\ n \in At({"syncing"})
  /\ Move(n, "answered")
  /\ cache' = [cache EXCEPT ![n] = Heard(@, IF probe[n].advert = "none" /\ @.advert = "lobby"
                                            THEN @.advert ELSE probe[n].advert)]
  /\ ProbeOnly /\ UNCHANGED counts

\* The round, if any, is over however it went: the answer counts.
Answered(n) ==
  /\ n \in At({"syncing"})
  /\ Move(n, "answered")
  /\ cache' = [cache EXCEPT ![n] = Heard(@, probe[n].advert)]
  /\ ProbeOnly /\ UNCHANGED counts

\* No connection, no answer in time, or one of another program.
Failed(n) ==
  /\ n \in At({"dialing", "asked"})
  /\ Runs(n) => losses < MaxLosses
  /\ losses' = IF Runs(n) THEN losses + 1 ELSE losses
  /\ Move(n, "failed")
  /\ cache' = [cache EXCEPT ![n] = Missed(@)]
  /\ ProbeOnly /\ UNCHANGED <<changes, refreshes>>

EndSweep ==
  /\ sweeping /\ At({"waiting"}) \union Running = {}
  /\ sweeping' = FALSE
  /\ Publish(cache)
  /\ UNCHANGED <<node, cache, netmap, probe, wakes, shown, counts, closed>>
-----------------------------------------------------------------------------
(***************************************************************************)
(* Around it.                                                              *)
(***************************************************************************)
\* The browser takes the next snapshot.
Show ==
  /\ snapshots # <<>>
  /\ shown' = Head(snapshots) /\ snapshots' = Tail(snapshots)
  /\ UNCHANGED <<node, cache, netmap, sweeping, probe, wakes, counts, closed>>

\* The user refreshes, or leaves a lobby.
Refresh ==
  /\ refreshes < MaxRefreshes /\ ~refresh
  /\ refresh' = TRUE /\ refreshes' = refreshes + 1
  /\ UNCHANGED <<node, cache, netmap, sweeping, probe, tick, snapshots, shown, changes, losses,
                 closed>>

\* A node comes, goes, opens a lobby or closes it.
Change(n, s) ==
  /\ changes < MaxChanges /\ node[n] # s
  /\ n \in Silent => s # "hosting"
  /\ node' = [node EXCEPT ![n] = s] /\ changes' = changes + 1
  /\ closed' = IF Advert(n) = "lobby" THEN [closed EXCEPT ![n] = 0] ELSE closed
  /\ UNCHANGED <<cache, netmap, sweeping, probe, wakes, snapshots, shown, losses, refreshes>>

Older(e) ==
  [e EXCEPT !.probed = Least(@ + 1, MaxQuietTTL), !.seen = Least(@ + 1, Trust),
            !.gossiped = Least(@ + 1, GossipInterval)]

\* Long ago, for closed.
Long == Trust + ProbeTimeout + 1

\* Time passes.  No probe outlives its timeouts, and the machine keeps up: what
\* can run without waiting for a node has run.
Elapse ==
  /\ \A n \in Running : probe[n].age < ProbeTimeout
  /\ sweeping \/ ~(tick \/ refresh)
  /\ sweeping => \/ Cardinality(Running) = MaxConcurrentProbes
                 \/ At({"waiting"}) = {} /\ Running # {}
  /\ cache' = [n \in Cached |-> Older(cache[n])]
  /\ probe' = [n \in Nodes |-> IF n \in Running THEN [probe[n] EXCEPT !.age = @ + 1]
                               ELSE probe[n]]
  /\ tick' = TRUE
  /\ closed' = [n \in Nodes |-> Least(closed[n] + 1, Long)]
  /\ UNCHANGED <<node, netmap, sweeping, refresh, snapshots, shown, counts>>

Nowhere == [peers |-> {}, lobbies |-> {}]

\* Run sweeps once before it waits for the ticker.
ProberInit ==
  /\ node \in [Nodes -> {"off", "on"}]
  /\ cache = [n \in {} |-> NewEntry]
  /\ netmap = {}
  /\ sweeping = FALSE /\ probe = [n \in Nodes |-> NoProbe]
  /\ tick = TRUE /\ refresh = FALSE
  /\ snapshots = <<>> /\ shown = Nowhere
  /\ changes = 0 /\ losses = 0 /\ refreshes = 0
  /\ closed = [n \in Nodes |-> Long]

ProbeStep(n) == DialNode(n) \/ Connect(n) \/ Greet(n) \/ Answered(n)

ProberNext ==
  \/ StartSweep \/ EndSweep \/ Show \/ Refresh \/ Elapse
  \/ \E n \in Nodes : ProbeStep(n) \/ Failed(n) \/ \E s \in States : Change(n, s)

ProberSpec == ProberInit /\ [][ProberNext]_proberVars

\* Run's loop, its probes and the browser keep up, time passes, and a node that
\* does not run is given up on.
ProberFairSpec ==
  /\ ProberSpec
  /\ WF_proberVars(StartSweep) /\ WF_proberVars(EndSweep)
  /\ WF_proberVars(Show) /\ WF_proberVars(Elapse)
  /\ \A n \in Nodes : /\ WF_proberVars(ProbeStep(n))
                     /\ WF_proberVars(~Runs(n) /\ Failed(n))
-----------------------------------------------------------------------------
(***************************************************************************)
(* Properties.                                                             *)
(***************************************************************************)
Entries ==
  [answered : BOOLEAN, quiet : QuietTTL .. MaxQuietTTL,
   advert : {"unheard", "none", "lobby"}, probed : 0 .. MaxQuietTTL,
   seen : 0 .. Trust, gossiped : 0 .. GossipInterval]

Listings == {l \in [peers : SUBSET Nodes, lobbies : SUBSET Nodes] : l.lobbies \subseteq l.peers}

Phases == {"none", "waiting", "dialing", "asked", "syncing", "answered", "failed"}

\* The cache follows the netmap as it was last read: a probe always finds the
\* entry it updates, and is made by the sweep that runs.
ProberTypeOK ==
  /\ node \in [Nodes -> States] /\ netmap \subseteq Nodes
  /\ Cached \subseteq netmap /\ \A n \in Cached : cache[n] \in Entries
  /\ probe \in [Nodes -> [phase : Phases, age : 0 .. ProbeTimeout, advert : {"none", "lobby"}]]
  /\ Running \union At({"answered", "failed"}) \subseteq Cached
  /\ At({"waiting"}) \subseteq netmap
  /\ Cardinality(Running) <= MaxConcurrentProbes
  /\ ~sweeping => At({"waiting"}) \union Running = {}
  /\ snapshots \in Seq(Listings) /\ Len(snapshots) <= Depth /\ shown \in Listings
  /\ {sweeping, tick, refresh} \subseteq BOOLEAN

Published == (tick /\ ~tick') \/ (refresh /\ ~refresh') \/ (sweeping /\ ~sweeping')
Newest == snapshots'[Len(snapshots')]

\* A lobby nobody can join any more does not linger: what a snapshot lists was
\* open not longer ago than an answer is trusted and a probe may take.
ListedWasOpen ==
  [][Published => \A n \in Newest.lobbies : node[n] = "hosting" \/ closed[n] < Long]_proberVars

\* Nodes that answer show up: the snapshot that ends a sweep lists those that
\* answered in it.
SweepListsAnswers ==
  [][sweeping /\ ~sweeping' => At({"answered"}) \subseteq Newest.peers]_proberVars

\* When nothing changes any more the browser shows who plays and who hosts, and
\* goes on to: no snapshot leaves a peer out.
BrowserSettles ==
  <>[](shown = [peers |-> {n \in Nodes : Runs(n)},
                lobbies |-> {n \in Nodes : node[n] = "hosting"}])

\* A forced sweep asks the nodes that answered before again.
ForcedAsksKnown ==
  [][refresh /\ ~refresh' /\ sweeping'
       => \A n \in DOMAIN cache' :
            cache'[n].advert # "unheard" => probe'[n].phase = "waiting"]_proberVars

\* A node that did not answer is left alone for QuietTTL at first.
BackoffStartsAtQuietTTL ==
  [][\A n \in Cached \cap DOMAIN cache' :
       cache[n].answered /\ ~cache'[n].answered => cache'[n].quiet = QuietTTL]_proberVars
=============================================================================
