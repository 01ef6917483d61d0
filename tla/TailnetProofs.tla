--------------------------- MODULE TailnetProofs ----------------------------
(***************************************************************************)
(* How peers meet on the tailnet: what holds of the listener (HostServer), *)
(* for any number of lobbies and peers, and of the prober that asks        *)
(* listeners (Discovery), for any tailnet, any timeouts and intervals, any *)
(* number of probes at a time and any depth of its channel.                *)
(***************************************************************************)
EXTENDS HostServer, Discovery, FiniteSetTheorems, SequenceTheorems, TLAPS

-----------------------------------------------------------------------------
(***************************************************************************)
(* The listener.                                                           *)
(*                                                                         *)
(* That a dead lobby is never registered does not follow from the write    *)
(* that clears the registry alone: it must be known that nobody can close  *)
(* a lobby before its own Host call has registered it.  Known says so, and *)
(* Born what a call has done for its lobby by then.                        *)
(***************************************************************************)
Registered == {"ready", "shown"}

\* What has been done for a lobby at each point of its call.
Born ==
  \A l \in Lobbies :
    /\ call[l] \in {"none", "reading", "closing", "making"} => run[l] = "unborn"
    /\ call[l] = "made" => run[l] = "running"

\* Only a lobby whose call has registered it is known to anybody else.
KnownTo(l) == l # NoLobby => call[l] \in Registered
Known ==
  /\ KnownTo(host) /\ KnownTo(session) /\ KnownTo(awaited)
  /\ \A l \in Lobbies : KnownTo(existing[l])
  /\ \A l \in cancelled : call[l] \in Registered

ServerInv == TypeOK /\ Born /\ Known /\ NoDeadLobby /\ SeatsAreServed

\* No lobby is the absent one.
LEMMA NotALobby == NoLobby \notin Lobbies
  BY SMT DEF NoLobby, Lobbies

-----------------------------------------------------------------------------
\* Init makes the invariant true.
LEMMA ServerInitOK == Init => ServerInv
<1> SUFFICES ASSUME Init PROVE ServerInv
  OBVIOUS
<1>1. TypeOK
  BY NotALobby DEF Init, TypeOK, Handshaking, Seated
<1>2. Born /\ Known
  BY NotALobby DEF Init, Born, Known, KnownTo
<1>3. NoDeadLobby /\ SeatsAreServed
  BY DEF Init, NoDeadLobby, SeatsAreServed, Seated
<1> QED
  BY <1>1, <1>2, <1>3 DEF ServerInv

-----------------------------------------------------------------------------
(***************************************************************************)
(* One lemma for each kind of step.                                        *)
(***************************************************************************)
\* The player: submitting, being shown a lobby, leaving, quitting.
LEMMA PlayerStep ==
  ASSUME ServerInv,
         \/ \E l \in Lobbies : Submit(l) \/ HandleSessionReady(l)
         \/ LeaveSession \/ HandleSessionClosed \/ Quit \/ StopHosting \/ Signal
  PROVE  ServerInv'
<1> USE NotALobby DEF ServerInv
<1>1. ASSUME NEW l \in Lobbies, Submit(l) PROVE ServerInv'
  BY <1>1 DEF Submit, TypeOK, Born, Known, KnownTo, Registered, NoDeadLobby,
              SeatsAreServed, lobbyVars, mainVars, connVars
<1>2. ASSUME NEW l \in Lobbies, HandleSessionReady(l) PROVE ServerInv'
  BY <1>2 DEF HandleSessionReady, TypeOK, Born, Known, KnownTo, Registered, NoDeadLobby,
              SeatsAreServed, lobbyVars, mainVars, connVars
<1>3. CASE LeaveSession
  BY <1>3 DEF LeaveSession, CloseLobbies, TypeOK, Born, Known, KnownTo, Registered,
              NoDeadLobby, SeatsAreServed, hostVars, mainVars, connVars
<1>4. CASE HandleSessionClosed
  BY <1>4 DEF HandleSessionClosed, TypeOK, Born, Known, KnownTo, NoDeadLobby,
              SeatsAreServed, hostVars, lobbyVars, mainVars, connVars
<1>5. CASE Quit
  BY <1>5 DEF Quit, CloseLobbies, TypeOK, Born, Known, KnownTo, Registered,
              NoDeadLobby, SeatsAreServed, hostVars, connVars
<1>6. CASE StopHosting
  BY <1>6 DEF StopHosting, CloseLobbies, TypeOK, Born, Known, KnownTo, Registered,
              NoDeadLobby, SeatsAreServed, hostVars, connVars
<1>7. CASE Signal
  BY <1>7 DEF Signal, TypeOK, Born, Known, KnownTo, NoDeadLobby, SeatsAreServed,
              hostVars, lobbyVars, connVars
<1> QED
  BY <1>1, <1>2, <1>3, <1>4, <1>5, <1>6, <1>7

\* A step of a Host call.
LEMMA HostCallStep ==
  ASSUME ServerInv, NEW l \in Lobbies, HostCall(l)
  PROVE  ServerInv'
<1> USE NotALobby DEF ServerInv
<1>1. CASE ReadCurrent(l)
  BY <1>1 DEF ReadCurrent, TypeOK, Born, Known, KnownTo, Registered, NoDeadLobby,
              SeatsAreServed, lobbyVars, mainVars, connVars
<1>2. CASE CloseExisting(l)
  BY <1>2 DEF CloseExisting, CloseLobbies, TypeOK, Born, Known, KnownTo, Registered,
              NoDeadLobby, SeatsAreServed, mainVars, connVars
<1>3. CASE NewHost(l)
  BY <1>3 DEF NewHost, TypeOK, Born, Known, KnownTo, Registered, NoDeadLobby,
              SeatsAreServed, mainVars, connVars
<1>4. CASE SetHost(l)
  BY <1>4 DEF SetHost, TypeOK, Born, Known, KnownTo, Registered, NoDeadLobby,
              SeatsAreServed, lobbyVars, mainVars, connVars
<1> QED
  BY <1>1, <1>2, <1>3, <1>4 DEF HostCall

\* A step of Shutdown.
LEMMA ShutdownStep ==
  ASSUME ServerInv, Shutdown
  PROVE  ServerInv'
<1> USE NotALobby DEF ServerInv
<1>1. CASE NothingHosted
  BY <1>1 DEF NothingHosted, TypeOK, Born, Known, KnownTo, NoDeadLobby, SeatsAreServed,
              hostVars, lobbyVars, connVars
<1>2. CASE ShutdownCloses
  BY <1>2 DEF ShutdownCloses, CloseLobbies, TypeOK, Born, Known, KnownTo, Registered,
              NoDeadLobby, SeatsAreServed, hostVars, connVars
<1>3. CASE ShutdownReturns
  BY <1>3 DEF ShutdownReturns, TypeOK, Born, Known, KnownTo, NoDeadLobby, SeatsAreServed,
              hostVars, lobbyVars, connVars
<1> QED
  BY <1>1, <1>2, <1>3 DEF Shutdown

\* A step of a lobby that ends.
LEMMA LobbyStep ==
  ASSUME ServerInv, NEW l \in Lobbies, RunStep(l)
  PROVE  ServerInv'
<1> USE NotALobby DEF ServerInv
<1>1. ASSUME ShutdownSeats(l) PROVE ServerInv'
  <2> USE <1>1 DEF ShutdownSeats
  <2>1. TypeOK'
    BY DEF TypeOK, hostVars, mainVars
  <2>2. (Born /\ Known /\ NoDeadLobby)'
    BY DEF TypeOK, Born, Known, KnownTo, Registered, NoDeadLobby, hostVars, mainVars
  <2>3. SeatsAreServed'
    BY DEF TypeOK, SeatsAreServed, Seated
  <2> QED
    BY <2>1, <2>2, <2>3
<1>2. ASSUME Unregister(l) PROVE ServerInv'
  <2> USE <1>2 DEF Unregister
  <2>1. TypeOK'
    BY DEF TypeOK, hostVars, mainVars, connVars
  <2>2. (Born /\ Known /\ NoDeadLobby)'
    BY DEF TypeOK, Born, Known, KnownTo, NoDeadLobby, hostVars, mainVars
  <2>3. SeatsAreServed'
    BY DEF TypeOK, SeatsAreServed, connVars
  <2> QED
    BY <2>1, <2>2, <2>3
<1> QED
  BY <1>1, <1>2 DEF RunStep

\* A step that moves one connection, seats it only in a lobby that is run and
\* leaves the registry and the lobbies alone.
MovesConn(c) ==
  /\ \E to \in Handshaking \union {"found", "told", "closed", "seated"} :
       /\ conn' = [conn EXCEPT ![c] = to]
       /\ to \in Seated => at' = at /\ run[at[c]] = "running"
  /\ saw' \in [Conns -> Lobbies \union {NoLobby}]
  /\ \/ at' = at
     \/ conn[c] = "welcomed" /\ host \in Lobbies /\ at' = [at EXCEPT ![c] = host]
  /\ UNCHANGED <<host, hostVars, lobbyVars, session, mainVars>>

\* A step of a connection keeps the invariant.
LEMMA ConnStep ==
  ASSUME ServerInv, NEW c \in Conns, MovesConn(c)
  PROVE  ServerInv'
<1> USE NotALobby DEF ServerInv, MovesConn
<1>1. TypeOK'
  <2> DEFINE ConnStates == {"far", "found", "closing", "told", "closed"}
                         \union Handshaking \union Seated
  <2>1. conn' \in [Conns -> ConnStates]
    <3>1. PICK to \in Handshaking \union {"found", "told", "closed", "seated"} :
            conn' = [conn EXCEPT ![c] = to]
      OBVIOUS
    <3>2. to \in ConnStates
      BY DEF Seated
    <3> QED
      BY <3>1, <3>2 DEF TypeOK
  <2>2. at' \in [Conns -> Lobbies \union {NoLobby}]
    BY DEF TypeOK
  <2> QED
    BY <2>1, <2>2 DEF TypeOK, hostVars, lobbyVars, mainVars
<1>2. (Born /\ Known /\ NoDeadLobby)'
  BY DEF Born, Known, KnownTo, NoDeadLobby, hostVars, lobbyVars, mainVars
<1>3. SeatsAreServed'
  BY DEF TypeOK, SeatsAreServed, Seated, lobbyVars
<1> QED
  BY <1>1, <1>2, <1>3

\* Every step of a connection moves it as MovesConn says.
LEMMA ConnMoves ==
  ASSUME ServerInv, NEW c \in Conns,
         \/ Probe(c) \/ Dial(c) \/ ServeStep(c) \/ RunJoin(c) \/ SeatEnds(c)
         \/ TellWhy(c) \/ HangUp(c)
  PROVE  MovesConn(c)
<1> USE NotALobby DEF ServerInv
<1>1. CASE Probe(c)
  BY <1>1 DEF Probe, MoveConn, MovesConn, TypeOK, Seated, Handshaking
<1>2. CASE ServeJoin(c)
  BY <1>2 DEF ServeJoin, MoveConn, MovesConn, TypeOK, Seated, Handshaking
<1>3. CASE AcceptReturns(c)
  <2>1. run[at[c]] = "running"
    BY <1>3 DEF AcceptReturns, MoveConn, SeatsAreServed, Seated
  <2> QED
    BY <1>3, <2>1 DEF AcceptReturns, MoveConn, MovesConn, TypeOK
<1>4. CASE RunJoin(c)
  BY <1>4 DEF RunJoin, MovesConn, TypeOK, Handshaking
<1>5. CASE Dial(c) \/ Welcome(c) \/ HandshakeFails(c) \/ ReadJoin(c) \/ QueueJoin(c)
             \/ Refuse(c) \/ AcceptGivesUp(c) \/ SeatEnds(c) \/ TellWhy(c) \/ HangUp(c)
  BY <1>5 DEF Dial, Welcome, HandshakeFails, ReadJoin, QueueJoin, Refuse, AcceptGivesUp,
              SeatEnds, TellWhy, HangUp, MoveConn, MovesConn, TypeOK, Seated, Handshaking
<1> QED
  BY <1>1, <1>2, <1>3, <1>4, <1>5 DEF ServeStep

\* The invariant survives every step.
LEMMA ServerStepOK == ServerInv /\ [Next]_vars => ServerInv'
<1> SUFFICES ASSUME ServerInv, [Next]_vars PROVE ServerInv'
  OBVIOUS
<1>1. CASE \E l \in Lobbies : HostCall(l)
  BY <1>1, HostCallStep
<1>2. CASE \E l \in Lobbies : RunStep(l)
  BY <1>2, LobbyStep
<1>3. CASE Shutdown
  BY <1>3, ShutdownStep
<1>4. CASE \E c \in Conns :
             Probe(c) \/ Dial(c) \/ ServeStep(c) \/ RunJoin(c) \/ SeatEnds(c)
               \/ TellWhy(c) \/ HangUp(c)
  BY <1>4, ConnMoves, ConnStep
<1>5. CASE \/ \E l \in Lobbies : Submit(l) \/ HandleSessionReady(l)
           \/ LeaveSession \/ HandleSessionClosed \/ Quit \/ StopHosting \/ Signal
  BY <1>5, PlayerStep
<1>6. CASE UNCHANGED vars
  BY <1>6 DEF vars, hostVars, lobbyVars, mainVars, connVars, ServerInv, TypeOK, Born, Known,
              KnownTo, NoDeadLobby, SeatsAreServed
<1> QED
  BY <1>1, <1>2, <1>3, <1>4, <1>5, <1>6 DEF Next

\* The invariant holds throughout.
LEMMA ServerInvAlways == Spec => []ServerInv
  BY ServerInitOK, ServerStepOK, PTL DEF Spec

-----------------------------------------------------------------------------
\* Types, for any number of lobbies.
THEOREM ServerTypeCorrect == Spec => []TypeOK
  BY ServerInvAlways, PTL DEF ServerInv

\* Server.host is nil or a lobby whose run has not returned, though the calls of
\* Host, the ends of lobbies and Shutdown read and write it in any order.
THEOREM RegistryCorrect == Spec => []NoDeadLobby
  BY ServerInvAlways, PTL DEF ServerInv

\* Nobody sits in a lobby that has stopped running: a join queued while it shuts
\* down is not granted afterwards, and shutdown reaches every seat.
THEOREM SeatsCorrect == Spec => []SeatsAreServed
  BY ServerInvAlways, PTL DEF ServerInv
-----------------------------------------------------------------------------
(***************************************************************************)
(* The prober.                                                             *)
(*                                                                         *)
(* An advert is as old as the way it came: taken while the node hosted, it *)
(* waits for the round of gossip, which has a timeout, and is then trusted *)
(* for a while.  WasOpen bounds how long ago the lobby was open at each of *)
(* these places (Told).                                                    *)
(***************************************************************************)
\* n hosts, or did so not longer ago than age.
WasOpen(n, age) == node[n] = "hosting" \/ closed[n] <= age

Told ==
  /\ closed \in [Nodes -> 0 .. Long]
  /\ \A n \in Cached : cache[n].advert = "lobby" /\ cache[n].seen < Trust
       => WasOpen(n, cache[n].seen + ProbeTimeout)
  /\ \A n \in At({"syncing"}) : probe[n].advert = "lobby" => WasOpen(n, probe[n].age)

ProberInv == ProberTypeOK /\ Told

-----------------------------------------------------------------------------
\* The constants are numbers, and a trusted answer is younger than Long.
LEMMA Numbers ==
  /\ {ProbeTimeout, FreshTTL, QuietTTL, MaxQuietTTL, GossipInterval,
      MaxConcurrentProbes, Depth} \subseteq Nat \ {0}
  /\ QuietTTL <= MaxQuietTTL
  /\ Trust \in Nat /\ Long \in Nat /\ Long = Trust + ProbeTimeout + 1
<1>1. ProbeTimeout \in Nat \ {0} /\ FreshTTL \in Nat \ {0}
  BY DiscoveryAssumption
<1>2. Trust \in Nat
  BY <1>1 DEF Trust
<1> HIDE DEF Trust
<1> QED
  BY <1>1, <1>2, DiscoveryAssumption DEF Long

LEMMA LeastBounds ==
  ASSUME NEW i \in Nat, NEW j \in Nat
  PROVE  /\ Least(i, j) \in Nat /\ Least(i, j) <= j
         /\ Least(i, j) < j => Least(i, j) = i
         /\ Least(i, j) <= i
         /\ \A k \in Nat : k <= i /\ k <= j => k <= Least(i, j)
BY DEF Least

\* Some of the nodes are finitely many, and so are the probes.
LEMMA RunningFinite ==
  ASSUME NEW n \in Nodes
  PROVE  /\ IsFiniteSet(Running) /\ Cardinality(Running) \in Nat
         /\ Cardinality(Running \union {n}) <= Cardinality(Running) + 1
         /\ \A smaller : smaller \subseteq Running =>
              Cardinality(smaller) <= Cardinality(Running)
<1>1. IsFiniteSet(Running)
  <2>1. Running \subseteq Nodes
    BY DEF Running, At
  <2> QED
    BY <2>1, DiscoveryAssumption, FS_Subset
<1>2. Cardinality(Running) \in Nat
  BY <1>1, FS_CardinalityType
<1>3. Cardinality(Running \union {n}) =
        IF n \in Running THEN Cardinality(Running) ELSE Cardinality(Running) + 1
  BY <1>1, FS_AddElement
<1>4. ASSUME NEW smaller, smaller \subseteq Running
      PROVE  Cardinality(smaller) <= Cardinality(Running)
  BY <1>1, <1>4, FS_Subset
<1> QED
  BY <1>1, <1>2, <1>3, <1>4

-----------------------------------------------------------------------------
(***************************************************************************)
(* Snapshots.                                                              *)
(***************************************************************************)
\* What is published is a listing, is the newest snapshot, and the channel does
\* not outgrow its depth.
LEMMA PublishAdds ==
  ASSUME ProberTypeOK, NEW entries, DOMAIN entries \subseteq Nodes, Publish(entries)
  PROVE  /\ snapshots' \in Seq(Listings) /\ Len(snapshots') <= Depth
         /\ Newest = Listing(entries)
<1> DEFINE rest == IF Len(snapshots) < Depth THEN snapshots ELSE Tail(snapshots)
<1>1. Listing(entries) \in Listings
  BY DEF Listing, FreshPeers, Listings
<1>2. snapshots \in Seq(Listings) /\ Len(snapshots) \in Nat /\ Len(snapshots) <= Depth
  BY DEF ProberTypeOK
<1>3. Depth \in Nat \ {0}
  BY Numbers
<1>4. ASSUME Len(snapshots) = Depth
      PROVE  Tail(snapshots) \in Seq(Listings) /\ Len(Tail(snapshots)) = Depth - 1
  BY <1>2, <1>3, <1>4
<1>5. rest \in Seq(Listings) /\ Len(rest) \in Nat /\ Len(rest) < Depth
  BY <1>2, <1>3, <1>4
<1>6. snapshots' = Append(rest, Listing(entries))
  BY DEF Publish
<1> HIDE DEF rest
<1>7. /\ snapshots' \in Seq(Listings) /\ Len(snapshots') = Len(rest) + 1
      /\ snapshots'[Len(rest) + 1] = Listing(entries)
  BY <1>1, <1>5, <1>6
<1> QED
  BY <1>3, <1>5, <1>7 DEF Newest

\* What a listing takes from entries that are as told was open lately.
LEMMA ListedLately ==
  ASSUME ProberInv, NEW entries, DOMAIN entries \subseteq Cached,
         \A n \in DOMAIN entries : entries[n] = cache[n],
         NEW n \in Listing(entries).lobbies
  PROVE  node[n] = "hosting" \/ closed[n] < Long
<1>1. n \in Cached /\ cache[n].seen < Trust /\ cache[n].advert = "lobby"
  BY DEF Listing, FreshPeers
<1>2. n \in Nodes /\ cache[n].seen \in Nat
  BY <1>1, Numbers DEF ProberInv, ProberTypeOK, Entries
<1>3. WasOpen(n, cache[n].seen + ProbeTimeout)
  BY <1>1 DEF ProberInv, Told
<1>4. closed[n] \in Nat
  BY <1>2 DEF ProberInv, Told
<1> QED
  BY <1>1, <1>2, <1>3, <1>4, Numbers DEF WasOpen

-----------------------------------------------------------------------------
(***************************************************************************)
(* One lemma for each kind of step.                                        *)
(***************************************************************************)
\* Run starts with an empty cache.
LEMMA ProberInitOK == ProberInit => ProberInv
<1> SUFFICES ASSUME ProberInit PROVE ProberInv
  OBVIOUS
<1> USE Numbers
<1>1. /\ Running = {} /\ At({"waiting"}) = {}
      /\ At({"answered", "failed"}) = {} /\ At({"syncing"}) = {}
  BY DEF ProberInit, NoProbe, Running, At
<1>2. Cached = {}
  BY DEF ProberInit, Cached
<1>3. Cardinality(Running) <= MaxConcurrentProbes
  BY <1>1, FS_EmptySet
<1>4. snapshots \in Seq(Listings) /\ Len(snapshots) = 0 /\ shown \in Listings
  BY DEF ProberInit, Nowhere, Listings
<1>5. node \in [Nodes -> States]
  BY DEF ProberInit, States
<1>6. probe \in [Nodes -> [phase : Phases, age : 0 .. ProbeTimeout, advert : {"none", "lobby"}]]
  BY DEF ProberInit, NoProbe, Phases
<1>7. ProberTypeOK
  <2>1. {sweeping, tick, refresh} \subseteq BOOLEAN /\ netmap \subseteq Nodes
    BY DEF ProberInit
  <2>2. Cached \subseteq netmap /\ Running \union At({"answered", "failed"}) \subseteq Cached
    BY <1>1, <1>2
  <2>3. At({"waiting"}) \subseteq netmap /\ (~ sweeping => At({"waiting"}) \union Running = {})
    BY <1>1
  <2>4. Len(snapshots) <= Depth
    BY <1>4
  <2> QED
    BY <1>2, <1>3, <1>4, <1>5, <1>6, <2>1, <2>2, <2>3, <2>4 DEF ProberTypeOK
<1>8. Told
  BY <1>1, <1>2 DEF ProberInit, Told
<1> QED
  BY <1>7, <1>8 DEF ProberInv

\* A step moves one probe and touches at most the entry of its node: the entry it
\* leaves is one, and what it claims of a lobby holds.
Moves(n, phase, entry) ==
  /\ probe[n].phase \in {"waiting", "dialing", "asked", "syncing"}
  /\ phase \in {"dialing", "asked", "syncing", "answered", "failed"}
  /\ n \notin Running => Cardinality(Running) < MaxConcurrentProbes
  /\ phase \notin {"dialing", "asked", "syncing"} => n \in Cached
  /\ \E p \in [phase : {phase}, age : {0}, advert : {"none", "lobby"}] :
       /\ probe' = [probe EXCEPT ![n] = p]
       /\ phase = "syncing" /\ p.advert = "lobby" => node[n] = "hosting"
  /\ Cached' = Cached \union {n} /\ cache'[n] = entry
  /\ \A k \in Cached \ {n} : cache'[k] = cache[k]
  /\ entry \in Entries
  /\ entry.advert = "lobby" /\ entry.seen < Trust => WasOpen(n, entry.seen + ProbeTimeout)
  /\ UNCHANGED <<node, netmap, sweeping, wakes, snapshots, shown, closed>>

LEMMA MoveStep ==
  ASSUME ProberInv, NEW n \in Nodes, NEW phase, NEW entry, Moves(n, phase, entry)
  PROVE  ProberInv' /\ snapshots' = snapshots
<1> USE Numbers
<1>1. PICK p \in [phase : {phase}, age : {0}, advert : {"none", "lobby"}] :
        /\ probe' = [probe EXCEPT ![n] = p]
        /\ phase = "syncing" /\ p.advert = "lobby" => node[n] = "hosting"
  BY DEF Moves
<1>2. /\ probe \in [Nodes -> [phase : Phases, age : 0 .. ProbeTimeout,
                              advert : {"none", "lobby"}]]
      /\ Running \union At({"answered", "failed"}) \subseteq Cached
      /\ At({"waiting"}) \subseteq netmap /\ Cached \subseteq netmap
      /\ ~ sweeping => At({"waiting"}) \union Running = {}
      /\ Cardinality(Running) <= MaxConcurrentProbes
  BY DEF ProberInv, ProberTypeOK
<1>3. /\ probe'[n] = p /\ p.phase = phase /\ p.age = 0
      /\ \A k \in Nodes \ {n} : probe'[k] = probe[k]
      /\ phase \in Phases
  BY <1>1, <1>2 DEF Moves, Phases
<1>4. probe' \in [Nodes -> [phase : Phases, age : 0 .. ProbeTimeout,
                          advert : {"none", "lobby"}]]
  BY <1>1, <1>2, <1>3
<1>5. n \in At({"waiting"}) \/ n \in Running
  BY DEF Moves, At, Running
<1>6. /\ At({"waiting"})' = At({"waiting"}) \ {n}
      /\ Running' \subseteq Running \union {n}
      /\ At({"answered", "failed"})' \subseteq At({"answered", "failed"}) \union {n}
  BY <1>3 DEF Moves, At, Running
<1>7. Cardinality(Running') <= MaxConcurrentProbes
  <2> MaxConcurrentProbes \in Nat
    OBVIOUS
  <2>1. CASE n \in Running
    <3>1. Running' \subseteq Running
      BY <1>6, <2>1
    <3>2. Cardinality(Running') <= Cardinality(Running)
      BY <3>1, RunningFinite
    <3>3. Cardinality(Running') \in Nat /\ Cardinality(Running) \in Nat
      BY <3>1, RunningFinite, FS_Subset, FS_CardinalityType
    <3> QED
      BY <1>2, <3>2, <3>3
  <2>2. CASE n \notin Running
    <3> DEFINE count == Cardinality(Running)
    <3>0. count < MaxConcurrentProbes /\ count \in Nat
      BY <2>2, RunningFinite DEF Moves
    <3> HIDE DEF count
    <3>1. count + 1 <= MaxConcurrentProbes
      BY <3>0
    <3>2. IsFiniteSet(Running \union {n})
      BY RunningFinite, FS_AddElement
    <3>3. Cardinality(Running') <= Cardinality(Running \union {n})
      BY <1>6, <3>2, FS_Subset
    <3>4. Cardinality(Running') \in Nat /\ Cardinality(Running \union {n}) \in Nat
      BY <1>6, <3>2, FS_Subset, FS_CardinalityType
    <3>5. Cardinality(Running \union {n}) <= count + 1
      BY RunningFinite DEF count
    <3> QED
      BY <3>0, <3>1, <3>3, <3>4, <3>5
  <2> QED
    BY <2>1, <2>2
<1>8. n \in netmap /\ sweeping
  BY <1>2, <1>5
<1>9. Cached' \subseteq netmap' /\ \A k \in Cached' : cache'[k] \in Entries
  BY <1>2, <1>8 DEF Moves, ProberInv, ProberTypeOK
<1>10. ProberTypeOK'
  <2>1. {sweeping', tick', refresh'} \subseteq BOOLEAN /\ netmap' \subseteq Nodes
    BY DEF Moves, wakes, ProberInv, ProberTypeOK
  <2>2. (Running \union At({"answered", "failed"}))' \subseteq Cached'
    BY <1>2, <1>6 DEF Moves
  <2>3. At({"waiting"})' \subseteq netmap' /\ sweeping'
    BY <1>2, <1>6, <1>8 DEF Moves
  <2>4. node' \in [Nodes -> States]
    BY DEF Moves, ProberInv, ProberTypeOK
  <2>5. snapshots' \in Seq(Listings) /\ Len(snapshots') <= Depth /\ shown' \in Listings
    BY DEF Moves, ProberInv, ProberTypeOK
  <2> QED
    BY <1>4, <1>7, <1>9, <2>1, <2>2, <2>3, <2>4, <2>5 DEF ProberTypeOK
<1>11. Told'
  <2>1. node' = node /\ closed' = closed /\ closed \in [Nodes -> 0 .. Long]
    BY DEF Moves, ProberInv, Told
  <2>2. ASSUME NEW k \in Cached', (cache[k].advert = "lobby" /\ cache[k].seen < Trust)'
        PROVE  WasOpen(k, cache[k].seen + ProbeTimeout)'
    <3>1. CASE k = n
      BY <2>1, <2>2, <3>1 DEF Moves, WasOpen
    <3>2. CASE k # n
      <4>1. k \in Cached /\ cache'[k] = cache[k]
        BY <3>2 DEF Moves
      <4> QED
        BY <2>1, <2>2, <4>1 DEF ProberInv, Told, WasOpen
    <3> QED
      BY <3>1, <3>2
  <2>3. ASSUME NEW k \in At({"syncing"})', probe'[k].advert = "lobby"
        PROVE  WasOpen(k, probe[k].age)'
    <3>1. CASE k = n
      <4>1. phase = "syncing"
        BY <1>3, <2>3, <3>1 DEF At
      <4> QED
        BY <1>1, <1>3, <2>1, <2>3, <3>1, <4>1 DEF WasOpen
    <3>2. CASE k # n
      <4>1. k \in At({"syncing"}) /\ probe'[k] = probe[k]
        BY <1>3, <2>3, <3>2 DEF At
      <4> QED
        BY <2>1, <2>3, <4>1 DEF ProberInv, Told, WasOpen
    <3> QED
      BY <3>1, <3>2
  <2> QED
    BY <2>1, <2>2, <2>3 DEF Told
<1> QED
  BY <1>10, <1>11 DEF ProberInv, Moves

\* What an entry is, and what a new one claims.
LEMMA EntryOf ==
  ASSUME ProberInv, NEW n \in Cached
  PROVE  n \in Nodes /\ cache[n] \in Entries
BY DEF ProberInv, ProberTypeOK

\* What the end of a probe makes of an entry is one, and claims what was heard, or
\* what it claimed before.
LEMMA ChangedEntry ==
  ASSUME NEW e \in Entries, NEW advert \in {"none", "lobby"}
  PROVE  /\ Heard(e, advert) \in Entries
         /\ Heard(e, advert).advert = advert /\ Heard(e, advert).seen = 0
         /\ Missed(e) \in Entries
         /\ Missed(e).advert = e.advert /\ Missed(e).seen = e.seen
<1> DEFINE heard(quiet, probed, seen) ==
             [e EXCEPT !.answered = TRUE, !.quiet = quiet, !.probed = probed, !.seen = seen,
                       !.advert = advert]
           missed(quiet, probed) ==
             [e EXCEPT !.answered = FALSE, !.probed = probed, !.quiet = quiet]
           twice == Least(2 * e.quiet, MaxQuietTTL)
<1>1. \A quiet \in QuietTTL .. MaxQuietTTL, probed \in 0 .. MaxQuietTTL, seen \in 0 .. Trust :
        /\ heard(quiet, probed, seen) \in Entries
        /\ heard(quiet, probed, seen).advert = advert
        /\ heard(quiet, probed, seen).seen = seen
  BY DEF Entries
<1>2. \A quiet \in QuietTTL .. MaxQuietTTL, probed \in 0 .. MaxQuietTTL :
        /\ missed(quiet, probed) \in Entries
        /\ missed(quiet, probed).advert = e.advert
        /\ missed(quiet, probed).seen = e.seen
  BY DEF Entries
<1>3. QuietTTL \in QuietTTL .. MaxQuietTTL /\ 0 \in 0 .. MaxQuietTTL /\ 0 \in 0 .. Trust
  BY Numbers
<1>4. twice \in QuietTTL .. MaxQuietTTL
  BY Numbers DEF Least, Entries
<1>5. Heard(e, advert) = heard(QuietTTL, 0, 0) /\ Missed(e) = missed(twice, 0)
  BY Zenon DEF Heard, Missed
<1> HIDE DEF heard, missed, twice
<1> QED
  BY <1>1, <1>2, <1>3, <1>4, <1>5

\* A probe that begins, connects or hears from its node, gives up or has answered.
LEMMA ProbeMoves ==
  ASSUME ProberInv, NEW n \in Nodes, ProbeStep(n) \/ Failed(n)
  PROVE  \E phase, entry : Moves(n, phase, entry)
<1> USE Numbers
<1>1. /\ probe[n] \in [phase : Phases, age : 0 .. ProbeTimeout, advert : {"none", "lobby"}]
      /\ Cardinality(Running) <= MaxConcurrentProbes
  BY DEF ProberInv, ProberTypeOK
<1>2. probe[n].phase \in {"dialing", "asked", "syncing"} => n \in Running /\ n \in Cached
  BY DEF Running, At, ProberInv, ProberTypeOK
<1>3. ASSUME NEW phase, Move(n, phase)
      PROVE  \E p \in [phase : {phase}, age : {0}, advert : {"none", "lobby"}] :
               probe' = [probe EXCEPT ![n] = p] /\ p.advert = "none"
  <2> DEFINE p == [NoProbe EXCEPT !.phase = phase]
  <2>1. p = [phase |-> phase, age |-> 0, advert |-> "none"]
    BY DEF NoProbe
  <2>2. p \in [phase : {phase}, age : {0}, advert : {"none", "lobby"}] /\ p.advert = "none"
    BY <2>1
  <2>3. probe' = [probe EXCEPT ![n] = p]
    BY <1>3 DEF Move
  <2> QED
    BY <2>2, <2>3
<1>4. ASSUME DialNode(n) PROVE \E phase, entry : Moves(n, phase, entry)
  <2> DEFINE entry == IF n \in Cached THEN cache[n] ELSE NewEntry
  <2>1. probe[n].phase = "waiting" /\ Cardinality(Running) < MaxConcurrentProbes
    BY <1>4 DEF DialNode
  <2>2. \E p \in [phase : {"dialing"}, age : {0}, advert : {"none", "lobby"}] :
          probe' = [probe EXCEPT ![n] = p] /\ p.advert = "none"
    BY <1>3, <1>4 DEF DialNode
  <2>3. /\ Cached' = Cached \union {n} /\ cache'[n] = entry
        /\ \A k \in Cached \ {n} : cache'[k] = cache[k]
    BY <1>4 DEF DialNode, Cached
  <2>4. NewEntry \in Entries /\ NewEntry.advert # "lobby"
    BY DEF NewEntry, Entries
  <2>5. entry \in Entries /\ (n \in Cached => entry = cache[n])
    BY <2>4, EntryOf
  <2>6. entry.advert = "lobby" /\ entry.seen < Trust => WasOpen(n, entry.seen + ProbeTimeout)
    BY <2>4 DEF ProberInv, Told
  <2> HIDE DEF entry
  <2>7. Moves(n, "dialing", entry)
    BY <1>4, <2>1, <2>2, <2>3, <2>5, <2>6 DEF Moves, DialNode, ProbeOnly
  <2> QED
    BY <2>7
<1>5. ASSUME Connect(n) PROVE \E phase, entry : Moves(n, phase, entry)
  <2>1. probe[n].phase = "dialing" /\ n \in Running /\ n \in Cached
    BY <1>2, <1>5 DEF Connect
  <2>2. \E p \in [phase : {"asked"}, age : {0}, advert : {"none", "lobby"}] :
          probe' = [probe EXCEPT ![n] = p] /\ p.advert = "none"
    BY <1>3, <1>5 DEF Connect
  <2>3. cache' = cache /\ Cached' = Cached \union {n}
    BY <1>5, <2>1 DEF Connect, Cached
  <2>4. /\ cache[n] \in Entries
        /\ cache[n].advert = "lobby" /\ cache[n].seen < Trust
             => WasOpen(n, cache[n].seen + ProbeTimeout)
    BY <2>1, EntryOf DEF ProberInv, Told
  <2>5. Moves(n, "asked", cache[n])
    BY <1>5, <2>1, <2>2, <2>3, <2>4 DEF Moves, Connect, ProbeOnly
  <2> QED
    BY <2>5
<1>6. ASSUME Greet(n) PROVE \E phase, entry : Moves(n, phase, entry)
  <2> DEFINE entry == IF cache[n].gossiped < GossipInterval THEN cache[n]
                      ELSE [cache[n] EXCEPT !.gossiped = 0]
  <2>1. probe[n].phase = "asked" /\ n \in Running /\ n \in Cached
    BY <1>2, <1>6 DEF Greet
  <2>2. \E p \in [phase : {"syncing"}, age : {0}, advert : {"none", "lobby"}] :
          probe' = [probe EXCEPT ![n] = p] /\ (p.advert = "lobby" => node[n] = "hosting")
    <3>1. Advert(n) \in {"none", "lobby"} /\ (Advert(n) = "lobby" => node[n] = "hosting")
      BY DEF Advert
    <3> DEFINE p == [phase |-> "syncing", age |-> 0, advert |-> Advert(n)]
    <3>2. probe' = [probe EXCEPT ![n] = p]
      BY <1>6 DEF Greet
    <3>3. /\ p \in [phase : {"syncing"}, age : {0}, advert : {"none", "lobby"}]
          /\ p.advert = "lobby" => node[n] = "hosting"
      BY <3>1
    <3> QED
      BY <3>2, <3>3
  <2>3. /\ Cached' = Cached \union {n} /\ cache'[n] = entry
        /\ \A k \in Cached \ {n} : cache'[k] = cache[k]
    BY <1>6, <2>1 DEF Greet, Cached
  <2>4. /\ cache[n] \in Entries
        /\ cache[n].advert = "lobby" /\ cache[n].seen < Trust
             => WasOpen(n, cache[n].seen + ProbeTimeout)
    BY <2>1, EntryOf DEF ProberInv, Told
  <2>5. entry \in Entries /\ entry.advert = cache[n].advert /\ entry.seen = cache[n].seen
    BY <2>4 DEF Entries
  <2> HIDE DEF entry
  <2>6. Moves(n, "syncing", entry)
    BY <1>6, <2>1, <2>2, <2>3, <2>4, <2>5 DEF Moves, Greet, ProbeOnly
  <2> QED
    BY <2>6
<1>7. ASSUME Answered(n) PROVE \E phase, entry : Moves(n, phase, entry)
  <2> DEFINE entry == Heard(cache[n], probe[n].advert)
  <2>1. probe[n].phase = "syncing" /\ n \in Running /\ n \in Cached
    BY <1>2, <1>7 DEF Answered, At
  <2>2. \E p \in [phase : {"answered"}, age : {0}, advert : {"none", "lobby"}] :
          probe' = [probe EXCEPT ![n] = p] /\ p.advert = "none"
    BY <1>3, <1>7 DEF Answered
  <2>3. /\ Cached' = Cached \union {n} /\ cache'[n] = entry
        /\ \A k \in Cached \ {n} : cache'[k] = cache[k]
    BY <1>7, <2>1 DEF Answered, Cached
  <2>4. entry \in Entries /\ entry.advert = probe[n].advert /\ entry.seen = 0
    <3>1. cache[n] \in Entries /\ probe[n].advert \in {"none", "lobby"}
      BY <1>1, <2>1, EntryOf
    <3> QED
      BY <3>1, ChangedEntry
  <2>5. probe[n].advert = "lobby" => WasOpen(n, ProbeTimeout)
    <3>1. probe[n].advert = "lobby" => WasOpen(n, probe[n].age)
      BY <1>7 DEF Answered, ProberInv, Told
    <3>2. closed[n] \in Nat /\ probe[n].age \in Nat /\ probe[n].age <= ProbeTimeout
      BY <1>1 DEF ProberInv, Told
    <3> QED
      BY <3>1, <3>2 DEF WasOpen
  <2>6. entry.advert = "lobby" => WasOpen(n, entry.seen + ProbeTimeout)
    BY <2>4, <2>5
  <2> HIDE DEF entry
  <2>7. Moves(n, "answered", entry)
    BY <1>7, <2>1, <2>2, <2>3, <2>4, <2>6 DEF Moves, Answered, ProbeOnly
  <2> QED
    BY <2>7
<1>8. ASSUME Failed(n) PROVE \E phase, entry : Moves(n, phase, entry)
  <2> DEFINE entry == Missed(cache[n])
  <2>1. probe[n].phase \in {"dialing", "asked"} /\ n \in Running /\ n \in Cached
    BY <1>2, <1>8 DEF Failed, At
  <2>2. \E p \in [phase : {"failed"}, age : {0}, advert : {"none", "lobby"}] :
          probe' = [probe EXCEPT ![n] = p] /\ p.advert = "none"
    BY <1>3, <1>8 DEF Failed
  <2>3. /\ Cached' = Cached \union {n} /\ cache'[n] = entry
        /\ \A k \in Cached \ {n} : cache'[k] = cache[k]
    <3>1. cache' = [cache EXCEPT ![n] = entry]
      BY <1>8 DEF Failed
    <3> HIDE DEF entry
    <3> QED
      BY <2>1, <3>1 DEF Cached
  <2>4. /\ cache[n] \in Entries
        /\ cache[n].advert = "lobby" /\ cache[n].seen < Trust
             => WasOpen(n, cache[n].seen + ProbeTimeout)
    BY <2>1, EntryOf DEF ProberInv, Told
  <2>5. entry \in Entries /\ entry.advert = cache[n].advert /\ entry.seen = cache[n].seen
    BY <2>4, ChangedEntry
  <2> HIDE DEF entry
  <2>6. Moves(n, "failed", entry)
    BY <1>8, <2>1, <2>2, <2>3, <2>4, <2>5 DEF Moves, Failed, ProbeOnly
  <2> QED
    BY <2>6
<1> QED
  BY <1>4, <1>5, <1>6, <1>7, <1>8 DEF ProbeStep

\* The start of a sweep, whatever the netmap says.
LEMMA StartKeeps == ProberInv /\ StartSweep => ProberInv'
<1> SUFFICES ASSUME ProberInv, StartSweep PROVE ProberInv'
  OBVIOUS
<1> USE Numbers
<1>1. node' = node /\ shown' = shown /\ closed' = closed /\ ~ sweeping
  BY DEF StartSweep
<1>2. {tick', refresh'} \subseteq BOOLEAN
  BY DEF StartSweep, ProberInv, ProberTypeOK
<1>3. Cached \subseteq Nodes /\ Online \subseteq Nodes
  BY DEF ProberInv, ProberTypeOK, Online
<1>4. ASSUME NEW asked \in BOOLEAN, Sweep(asked) PROVE ProberInv'
  <2> DEFINE due == Due(Prune, asked \/ Online # netmap)
  <2>1. /\ netmap' = Online /\ cache' = Prune /\ sweeping' = (due # {}) /\ Publish(Prune)
        /\ probe' = [n \in Nodes |-> IF n \in due THEN [NoProbe EXCEPT !.phase = "waiting"]
                                     ELSE NoProbe]
    BY <1>4 DEF Sweep
  <2>2. due \subseteq Online
    BY DEF Due
  <2> HIDE DEF due
  <2>3. /\ \A n \in Nodes : probe'[n] = IF n \in due
                                       THEN [phase |-> "waiting", age |-> 0, advert |-> "none"]
                                       ELSE [phase |-> "none", age |-> 0, advert |-> "none"]
        /\ probe' \in [Nodes -> [phase : Phases, age : 0 .. ProbeTimeout,
                                advert : {"none", "lobby"}]]
    BY <2>1 DEF NoProbe, Phases
  <2>4. /\ At({"waiting"})' = due /\ Running' = {} /\ At({"answered", "failed"})' = {}
        /\ At({"syncing"})' = {}
    BY <1>3, <2>2, <2>3 DEF At, Running
  <2>5. /\ DOMAIN Prune = Cached \intersect Online
        /\ \A n \in Cached \intersect Online : Prune[n] = cache[n]
    BY DEF Prune
  <2>6. snapshots' \in Seq(Listings) /\ Len(snapshots') <= Depth
    BY <1>3, <2>1, <2>5, PublishAdds DEF ProberInv
  <2>7. ProberTypeOK'
    <3>1. Cached' \subseteq netmap' /\ \A n \in Cached' : cache'[n] \in Entries
      BY <2>1, <2>5 DEF Cached, ProberInv, ProberTypeOK
    <3>2. /\ (Running \union At({"answered", "failed"}))' \subseteq Cached'
          /\ At({"waiting"})' \subseteq netmap'
          /\ ~ sweeping' => (At({"waiting"}) \union Running)' = {}
      BY <2>1, <2>2, <2>4
    <3>3. Cardinality(Running') <= MaxConcurrentProbes
      BY <2>4, FS_EmptySet
    <3>4. {sweeping', tick', refresh'} \subseteq BOOLEAN
      BY <1>2, <2>1
    <3>5. node' \in [Nodes -> States] /\ netmap' \subseteq Nodes /\ shown' \in Listings
      BY <1>1, <1>3, <2>1 DEF ProberInv, ProberTypeOK
    <3> QED
      BY <2>3, <2>6, <3>1, <3>2, <3>3, <3>4, <3>5 DEF ProberTypeOK
  <2>8. Told'
    BY <1>1, <2>1, <2>4, <2>5 DEF ProberInv, Told, WasOpen, Cached
  <2> QED
    BY <2>7, <2>8 DEF ProberInv
<1>5. ASSUME SweepFails PROVE ProberInv'
  <2>1. cache' = cache /\ netmap' = netmap /\ sweeping' = sweeping /\ probe' = probe
    BY <1>5 DEF SweepFails
  <2>2. snapshots' \in Seq(Listings) /\ Len(snapshots') <= Depth
    <3>1. DOMAIN cache \subseteq Nodes
      BY <1>3 DEF Cached
    <3> QED
      BY <1>5, <3>1, PublishAdds DEF ProberInv, SweepFails
  <2>3. ProberTypeOK'
    BY <1>1, <1>2, <2>1, <2>2 DEF ProberInv, ProberTypeOK, Cached, Running, At
  <2>4. Told'
    BY <1>1, <2>1 DEF ProberInv, Told, WasOpen, Cached, At
  <2> QED
    BY <2>3, <2>4 DEF ProberInv
<1> QED
  BY <1>4, <1>5 DEF StartSweep

\* The end of a sweep, the browser and refreshes.
LEMMA AroundKeeps == ProberInv /\ (EndSweep \/ Show \/ Refresh) => ProberInv'
<1> SUFFICES ASSUME ProberInv, EndSweep \/ Show \/ Refresh PROVE ProberInv'
  OBVIOUS
<1> USE Numbers
<1>1. /\ node' = node /\ cache' = cache /\ netmap' = netmap /\ probe' = probe
      /\ closed' = closed
  BY DEF EndSweep, Show, Refresh
<1>2. {sweeping', tick', refresh'} \subseteq BOOLEAN
  BY DEF EndSweep, Show, Refresh, wakes, ProberInv, ProberTypeOK
<1>3. ~ sweeping' => At({"waiting"}) \union Running = {}
  BY DEF EndSweep, Show, Refresh, ProberInv, ProberTypeOK
<1>4. snapshots' \in Seq(Listings) /\ Len(snapshots') <= Depth /\ shown' \in Listings
  <2>1. /\ snapshots \in Seq(Listings) /\ Len(snapshots) <= Depth /\ shown \in Listings
        /\ DOMAIN cache \subseteq Nodes
    BY DEF ProberInv, ProberTypeOK, Cached
  <2>2. CASE EndSweep
    BY <2>1, <2>2, PublishAdds DEF EndSweep, ProberInv
  <2>3. CASE Show
    <3>1. snapshots # <<>> /\ shown' = Head(snapshots) /\ snapshots' = Tail(snapshots)
      BY <2>3 DEF Show
    <3>2. /\ Head(snapshots) \in Listings /\ Tail(snapshots) \in Seq(Listings)
          /\ Len(Tail(snapshots)) = Len(snapshots) - 1 /\ Len(snapshots) \in Nat
      BY <2>1, <3>1
    <3> QED
      BY <2>1, <3>1, <3>2
  <2>4. CASE Refresh
    BY <2>1, <2>4 DEF Refresh
  <2> QED
    BY <2>2, <2>3, <2>4
<1>5. ProberTypeOK'
  BY <1>1, <1>2, <1>3, <1>4 DEF ProberInv, ProberTypeOK, Cached, Running, At
<1>6. Told'
  BY <1>1 DEF ProberInv, Told, WasOpen, Cached, At
<1> QED
  BY <1>5, <1>6 DEF ProberInv

\* A node that changes: if it closed its lobby it did so just now.
LEMMA ChangeKeeps ==
  ASSUME ProberInv, NEW n \in Nodes, NEW s \in States, Change(n, s)
  PROVE  ProberInv'
<1> USE Numbers
<1>1. /\ node \in [Nodes -> States] /\ closed \in [Nodes -> 0 .. Long]
      /\ node' = [node EXCEPT ![n] = s]
      /\ closed' = IF node[n] = "hosting" THEN [closed EXCEPT ![n] = 0] ELSE closed
  BY DEF Change, Advert, ProberInv, ProberTypeOK, Told
<1>2. /\ cache' = cache /\ netmap' = netmap /\ probe' = probe /\ snapshots' = snapshots
      /\ sweeping' = sweeping /\ shown' = shown /\ tick' = tick /\ refresh' = refresh
  BY DEF Change, wakes
<1>3. ProberTypeOK'
  <2>1. node' \in [Nodes -> States]
    BY <1>1
  <2> QED
    BY <1>2, <2>1 DEF ProberInv, ProberTypeOK, Cached, Running, At
<1>4. closed' \in [Nodes -> 0 .. Long]
  BY <1>1
<1>5. ASSUME NEW k \in Nodes, NEW age \in Nat, WasOpen(k, age)
      PROVE  WasOpen(k, age)'
  BY <1>1, <1>5 DEF WasOpen
<1>6. Told'
  <2>1. ASSUME NEW k \in Cached, cache[k].advert = "lobby", cache[k].seen < Trust
        PROVE  WasOpen(k, cache[k].seen + ProbeTimeout)'
    <3>1. WasOpen(k, cache[k].seen + ProbeTimeout)
      BY <2>1 DEF ProberInv, Told
    <3>2. k \in Nodes /\ cache[k].seen + ProbeTimeout \in Nat
      BY <2>1, EntryOf DEF Entries
    <3>3. (cache[k].seen + ProbeTimeout)' = cache[k].seen + ProbeTimeout
      BY <1>2
    <3> QED
      BY <1>1, <3>1, <3>2, <3>3 DEF WasOpen
  <2>2. ASSUME NEW k \in At({"syncing"}), probe[k].advert = "lobby"
        PROVE  WasOpen(k, probe[k].age)'
    <3>1. WasOpen(k, probe[k].age) /\ k \in Nodes
      BY <2>2 DEF ProberInv, Told, At
    <3>2. probe[k].age \in Nat /\ probe'[k].age = probe[k].age
      BY <1>2, <3>1 DEF ProberInv, ProberTypeOK
    <3> QED
      BY <1>1, <3>1, <3>2 DEF WasOpen
  <2> QED
    BY <1>2, <1>4, <2>1, <2>2 DEF Told, Cached, At
<1> QED
  BY <1>3, <1>6 DEF ProberInv

\* An entry that grows older is one, with the same claim.
LEMMA OlderEntry ==
  ASSUME NEW e \in Entries
  PROVE  /\ Older(e) \in Entries /\ Older(e).advert = e.advert
         /\ Older(e).seen = Least(e.seen + 1, Trust)
<1> USE Numbers
<1>1. /\ Least(e.probed + 1, MaxQuietTTL) \in 0 .. MaxQuietTTL
      /\ Least(e.seen + 1, Trust) \in 0 .. Trust
      /\ Least(e.gossiped + 1, GossipInterval) \in 0 .. GossipInterval
  BY DEF Least, Entries
<1> DEFINE older(probed, seen, gossiped) ==
             [e EXCEPT !.probed = probed, !.seen = seen, !.gossiped = gossiped]
<1>2. \A probed \in 0 .. MaxQuietTTL, seen \in 0 .. Trust, gossiped \in 0 .. GossipInterval :
        /\ older(probed, seen, gossiped) \in Entries
        /\ older(probed, seen, gossiped).advert = e.advert
        /\ older(probed, seen, gossiped).seen = seen
  BY DEF Entries
<1>3. Older(e) = older(Least(e.probed + 1, MaxQuietTTL), Least(e.seen + 1, Trust),
                       Least(e.gossiped + 1, GossipInterval))
  BY Zenon DEF Older
<1> HIDE DEF older
<1> QED
  BY <1>1, <1>2, <1>3

\* Time passes for answers, for probes and for lobbies that closed alike.
LEMMA ElapseKeeps == ProberInv /\ Elapse => ProberInv'
<1> SUFFICES ASSUME ProberInv, Elapse PROVE ProberInv'
  OBVIOUS
<1> USE Numbers
<1>1. /\ node' = node /\ netmap' = netmap /\ sweeping' = sweeping /\ refresh' = refresh
      /\ snapshots' = snapshots /\ shown' = shown /\ tick' = TRUE
      /\ Cached' = Cached /\ \A n \in Cached : cache'[n] = Older(cache[n])
      /\ \A n \in Running : probe[n].age < ProbeTimeout
  BY DEF Elapse, Cached
<1>2. /\ probe \in [Nodes -> [phase : Phases, age : 0 .. ProbeTimeout,
                              advert : {"none", "lobby"}]]
      /\ probe' = [n \in Nodes |-> IF n \in Running THEN [probe[n] EXCEPT !.age = @ + 1]
                                   ELSE probe[n]]
  BY DEF Elapse, ProberInv, ProberTypeOK
<1>3. ASSUME NEW n \in Nodes
      PROVE  /\ probe'[n] \in [phase : Phases, age : 0 .. ProbeTimeout, advert : {"none", "lobby"}]
             /\ probe'[n].phase = probe[n].phase /\ probe'[n].advert = probe[n].advert
             /\ n \in Running => probe'[n].age = probe[n].age + 1
  BY <1>1, <1>2
<1>4. /\ At({"waiting"})' = At({"waiting"}) /\ Running' = Running
      /\ At({"answered", "failed"})' = At({"answered", "failed"})
      /\ At({"syncing"})' = At({"syncing"})
  BY <1>3 DEF At, Running
<1>5. ProberTypeOK'
  <2>1. probe' \in [Nodes -> [phase : Phases, age : 0 .. ProbeTimeout, advert : {"none", "lobby"}]]
    <3> DEFINE P == [phase : Phases, age : 0 .. ProbeTimeout, advert : {"none", "lobby"}]
    <3>1. \A n \in Nodes : probe'[n] \in P
      BY <1>3
    <3> HIDE DEF P
    <3>2. probe' \in [Nodes -> P]
      BY <1>2, <3>1
    <3> QED
      BY <3>2 DEF P
  <2>2. \A n \in Cached' : cache'[n] \in Entries
    BY <1>1, EntryOf, OlderEntry
  <2>3. {sweeping', tick', refresh'} \subseteq BOOLEAN
    BY <1>1 DEF ProberInv, ProberTypeOK
  <2>4. /\ (Running \union At({"answered", "failed"}))' \subseteq Cached'
        /\ At({"waiting"})' \subseteq netmap' /\ Cached' \subseteq netmap'
        /\ ~ sweeping' => (At({"waiting"}) \union Running)' = {}
        /\ Cardinality(Running') <= MaxConcurrentProbes
    BY <1>1, <1>4 DEF ProberInv, ProberTypeOK
  <2>5. /\ node' \in [Nodes -> States] /\ netmap' \subseteq Nodes
        /\ snapshots' \in Seq(Listings) /\ Len(snapshots') <= Depth /\ shown' \in Listings
    BY <1>1 DEF ProberInv, ProberTypeOK
  <2> QED
    BY <2>1, <2>2, <2>3, <2>4, <2>5 DEF ProberTypeOK
<1>6. /\ closed \in [Nodes -> 0 .. Long]
      /\ closed' = [n \in Nodes |-> Least(closed[n] + 1, Long)]
  BY DEF Elapse, ProberInv, Told
<1>7. ASSUME NEW n \in Nodes
      PROVE  closed'[n] \in 0 .. Long /\ closed'[n] <= closed[n] + 1
  BY <1>6 DEF Least
<1>8. ASSUME NEW n \in Nodes, NEW age \in Nat, WasOpen(n, age)
      PROVE  node'[n] = "hosting" \/ closed'[n] <= age + 1
  BY <1>1, <1>6, <1>7, <1>8 DEF WasOpen
<1>9. Told'
  <2>1. closed' \in [Nodes -> 0 .. Long]
    BY <1>6, <1>7
  <2>2. ASSUME NEW n \in Cached', (cache[n].advert = "lobby" /\ cache[n].seen < Trust)'
        PROVE  WasOpen(n, cache[n].seen + ProbeTimeout)'
    <3>1. n \in Cached /\ n \in Nodes /\ cache[n] \in Entries /\ cache'[n] = Older(cache[n])
      BY <1>1, <2>2, EntryOf
    <3>2. /\ cache[n].advert = "lobby" /\ cache[n].seen \in Nat /\ cache[n].seen <= Trust
          /\ cache'[n].seen = Least(cache[n].seen + 1, Trust)
      BY <2>2, <3>1, OlderEntry DEF Entries
    <3>3. cache'[n].seen = cache[n].seen + 1 /\ cache[n].seen < Trust
      BY <2>2, <3>2 DEF Least
    <3>4. WasOpen(n, cache[n].seen + ProbeTimeout)
      BY <3>1, <3>2, <3>3 DEF ProberInv, Told
    <3>5. node'[n] = "hosting" \/ closed'[n] <= cache[n].seen + ProbeTimeout + 1
      BY <1>8, <3>1, <3>2, <3>4
    <3> QED
      BY <3>2, <3>3, <3>5 DEF WasOpen
  <2>3. ASSUME NEW n \in At({"syncing"})', probe'[n].advert = "lobby"
        PROVE  WasOpen(n, probe[n].age)'
    <3>1. n \in At({"syncing"}) /\ n \in Nodes /\ n \in Running
      BY <1>4, <2>3 DEF At, Running
    <3>2. probe[n].advert = "lobby" /\ probe[n].age \in Nat /\ probe'[n].age = probe[n].age + 1
      BY <1>2, <1>3, <2>3, <3>1
    <3>3. WasOpen(n, probe[n].age)
      BY <3>1, <3>2 DEF ProberInv, Told
    <3> QED
      BY <1>8, <3>1, <3>2, <3>3 DEF WasOpen
  <2> QED
    BY <2>1, <2>2, <2>3 DEF Told
<1> QED
  BY <1>5, <1>9 DEF ProberInv

-----------------------------------------------------------------------------
\* The invariant survives every step, and holds throughout.
LEMMA ProberStepOK == ProberInv /\ [ProberNext]_proberVars => ProberInv'
<1> SUFFICES ASSUME ProberInv, [ProberNext]_proberVars PROVE ProberInv'
  OBVIOUS
<1>1. CASE StartSweep
  BY <1>1, StartKeeps
<1>2. CASE EndSweep \/ Show \/ Refresh
  BY <1>2, AroundKeeps
<1>3. CASE Elapse
  BY <1>3, ElapseKeeps
<1>4. ASSUME NEW n \in Nodes, ProbeStep(n) \/ Failed(n) PROVE ProberInv'
  BY <1>4, ProbeMoves, MoveStep
<1>5. ASSUME NEW n \in Nodes, NEW s \in States, Change(n, s) PROVE ProberInv'
  BY <1>5, ChangeKeeps
<1>6. CASE UNCHANGED proberVars
  BY <1>6 DEF proberVars, wakes, ProberInv, ProberTypeOK, Told, WasOpen, Cached, Running, At
<1> QED
  BY <1>1, <1>2, <1>3, <1>4, <1>5, <1>6 DEF ProberNext

LEMMA ProberInvAlways == ProberSpec => []ProberInv
  BY ProberInitOK, ProberStepOK, PTL DEF ProberSpec

\* A sweep's probes stay within the limit and find their entries: an entry is not
\* pruned while its node is probed, so the check for one that was never strikes.
THEOREM ProberTyped == ProberSpec => []ProberTypeOK
  BY ProberInvAlways, PTL DEF ProberInv

\* A lobby in a snapshot is open, or closed not longer ago than an answer is trusted
\* and a probe may take.
THEOREM ListedAlwaysWasOpen == ProberSpec => ListedWasOpen
<1>1. ASSUME ProberInv, [ProberNext]_proberVars, Published, NEW n \in Newest.lobbies
      PROVE  node[n] = "hosting" \/ closed[n] < Long
  <2>1. \E entries : /\ Publish(entries) /\ DOMAIN entries \subseteq Cached
                     /\ \A k \in DOMAIN entries : entries[k] = cache[k]
    <3>1. CASE StartSweep
      <4>1. ASSUME NEW asked \in BOOLEAN, Sweep(asked)
            PROVE  Publish(Prune)
        BY <4>1 DEF Sweep
      <4>2. DOMAIN Prune \subseteq Cached /\ \A k \in DOMAIN Prune : Prune[k] = cache[k]
        BY DEF Prune
      <4>3. SweepFails => Publish(cache)
        BY DEF SweepFails
      <4> QED
        BY <3>1, <4>1, <4>2, <4>3 DEF StartSweep, Cached
    <3>2. CASE EndSweep
      BY <3>2 DEF EndSweep, Cached
    <3>3. CASE Show \/ Refresh \/ Elapse \/ UNCHANGED proberVars
      BY <1>1, <3>3 DEF Show, Refresh, Elapse, Published, proberVars, wakes
    <3>4. ASSUME NEW k \in Nodes, ProbeStep(k) \/ Failed(k) PROVE FALSE
      BY <1>1, <3>4 DEF ProbeStep, DialNode, Connect, Greet, Answered, Failed, ProbeOnly, wakes,
                        Published
    <3>5. ASSUME NEW k \in Nodes, NEW s \in States, Change(k, s) PROVE FALSE
      BY <1>1, <3>5 DEF Change, wakes, Published
    <3> QED
      BY <1>1, <3>1, <3>2, <3>3, <3>4, <3>5 DEF ProberNext
  <2>2. PICK entries : /\ Publish(entries) /\ DOMAIN entries \subseteq Cached
                       /\ \A k \in DOMAIN entries : entries[k] = cache[k]
    BY <2>1
  <2>3. ProberTypeOK /\ DOMAIN entries \subseteq Nodes
    BY <1>1, <2>2 DEF ProberInv, ProberTypeOK
  <2>4. Newest = Listing(entries)
    BY <2>2, <2>3, PublishAdds
  <2> QED
    BY <1>1, <2>2, <2>4, ListedLately
<1>2. ProberInv /\ [ProberNext]_proberVars
        => [Published => \A n \in Newest.lobbies :
                           node[n] = "hosting" \/ closed[n] < Long]_proberVars
  BY <1>1
<1> QED
  BY <1>2, ProberInvAlways, PTL DEF ProberSpec, ListedWasOpen
=============================================================================
