------------------------------ MODULE HostLobby ------------------------------
(***************************************************************************)
(* The lobby, match and attestation lifecycle of the hosting peer,         *)
(* src/internal/netplay/host.go.                                           *)
(*                                                                         *)
(* One goroutine (Host.run) owns the whole Host struct and handles one     *)
(* command, housekeeping pass or game tick at a time, so the struct is one *)
(* variable, h, and each handler is one action.  The methods a handler     *)
(* calls are operators from a Host value to a Host value, applied in the   *)
(* order of the calls.                                                     *)
(*                                                                         *)
(* A simulation is reduced to who is in it, who is alive and who coasts;   *)
(* the absence of one (a nil pointer) is a simulation without snakes.      *)
(* Time advances in units of Elapse; the four deadlines of the code keep   *)
(* their meaning and order.  Outboxes never overflow here: what a full     *)
(* outbox does to the lobby is the subject of module Outbox.               *)
(***************************************************************************)
EXTENDS Integers, FiniteSets

CONSTANTS
  Keys,           \* signing keys of the peers that may join
  HostKey,        \* the hosting install's own key
  Bot, Nobody,    \* who holds a seat that no person holds
  NumSeats,       \* game.MaxPlayers
  Configs,        \* settings the host may choose
  CountdownTicks, AttestTicks, CoastTicks, DropTicks,  \* the deadlines
  MaxGen,         \* bound: settings changes
  MaxMatches      \* bound: matches counted down

SeatId == 0 .. NumSeats - 1
Holders == Keys \union {HostKey, Bot, Nobody}
ValidConfigs ==
  {c \in [max : 2 .. NumSeats, bots : 0 .. NumSeats - 1] : c.bots <= c.max - 1}

ASSUME HostLobbyAssumption ==
  /\ NumSeats \in Nat /\ NumSeats >= 2
  /\ HostKey \notin Keys
  /\ Bot \notin Keys \union {HostKey}
  /\ Nobody \notin Keys \union {HostKey, Bot}
  /\ Configs \subseteq ValidConfigs
  /\ CountdownTicks \in Nat \ {0} /\ AttestTicks \in Nat \ {0}
  /\ CoastTicks \in Nat \ {0} /\ DropTicks \in Nat /\ DropTicks > CoastTicks
  /\ MaxGen \in Nat /\ MaxMatches \in Nat

VARIABLE h
-----------------------------------------------------------------------------
(***************************************************************************)
(* The roster.  A seat's fields are kept as functions and sets over seat   *)
(* numbers; the code keeps h.seats sorted by number.                       *)
(***************************************************************************)
Taken(s) == {i \in SeatId : s.holder[i] # Nobody}
Bots(s) == {i \in SeatId : s.holder[i] = Bot}
People(s) == Taken(s) \ Bots(s)
Remotes(s) == {i \in SeatId : s.holder[i] \in Keys}

EveryoneReady(s) == People(s) # {} /\ Taken(s) \subseteq s.ready
AllSigned(s) == People(s) \subseteq s.signed

\* The n lowest members of S: bots beyond a count leave from the back, bots
\* that join take the lowest free seats.
Lowest(S, n) == {i \in S : Cardinality({j \in S : j < i}) < n}
FreeSeat(s) == Lowest(SeatId \ Taken(s), 1)

NoSim == [snakes |-> {}, alive |-> {}, coasting |-> {}]
NewSim(S) == [snakes |-> S, alive |-> S, coasting |-> {}]
SimOver(sim) == IF Cardinality(sim.snakes) > 1 THEN Cardinality(sim.alive) <= 1
                                               ELSE sim.alive = {}
Eliminate(sim, S) == [sim EXCEPT !.alive = @ \ S]
Coast(sim, S) == [sim EXCEPT !.coasting = @ \union (S \intersect sim.snakes)]
Uncoast(sim, S) == [sim EXCEPT !.coasting = @ \ S]

NoRecord == [match |-> 0, participants |-> {}, sigs |-> {}]
Sign(record, key) == [record EXCEPT !.sigs = @ \union {key}]

LobbyState(s) ==
  [phase |-> s.phase, gen |-> s.gen, cfg |-> s.cfg, holder |-> s.holder,
   ready |-> s.ready, connected |-> Taken(s) \ s.coasting,
   countdown |-> IF s.phase = "countdown" THEN s.lastCount ELSE 0]

AdvertOf(s) == [cfg |-> s.cfg, phase |-> s.phase,
                taken |-> Taken(s), bots |-> Bots(s)]

BroadcastLobby(s) == [s EXCEPT !.view = LobbyState(s)]
RefreshAdvert(s) == [s EXCEPT !.advert = AdvertOf(s)]
ClearReady(s) == [s EXCEPT !.ready = Bots(s), !.lastCount = 0]
-----------------------------------------------------------------------------
(***************************************************************************)
(* Ending a countdown, removing seats.                                     *)
(***************************************************************************)
AbortCountdown(s) ==
  BroadcastLobby(RefreshAdvert(
    ClearReady([s EXCEPT !.sim = NoSim, !.phase = "open"])))

\* Fault: the countdown goes on without the player who left.
RemoveSeatsKeepingCountdown(s, S) ==
  LET gone == {i \in S : s.holder[i] \notin {HostKey, Nobody}}
  IN  IF gone = {} THEN s
      ELSE RefreshAdvert(
        [s EXCEPT !.holder = [i \in SeatId |-> IF i \in gone THEN Nobody ELSE @[i]],
                  !.ready = @ \ gone, !.coasting = @ \ gone, !.signed = @ \ gone,
                  !.silence = [i \in SeatId |-> IF i \in gone THEN 0 ELSE @[i]],
                  !.sim = IF s.phase = "in_game" THEN Eliminate(@, gone) ELSE @])

\* Fault: a leaver's snake is left to coast.
RemoveSeatsWithoutForfeit(s, S) ==
  LET gone == {i \in S : s.holder[i] \notin {HostKey, Nobody}}
      left == RefreshAdvert(
        [s EXCEPT !.holder = [i \in SeatId |-> IF i \in gone THEN Nobody ELSE @[i]],
                  !.ready = @ \ gone, !.coasting = @ \ gone, !.signed = @ \ gone,
                  !.silence = [i \in SeatId |-> IF i \in gone THEN 0 ELSE @[i]]])
  IN  IF gone = {} THEN s
      ELSE IF s.phase = "countdown" THEN AbortCountdown(left) ELSE left

\* Fault: whoever sits there next counts as having signed.
RemoveSeatsKeepingSigned(s, S) ==
  LET gone == {i \in S : s.holder[i] \notin {HostKey, Nobody}}
      left == RefreshAdvert(
        [s EXCEPT !.holder = [i \in SeatId |-> IF i \in gone THEN Nobody ELSE @[i]],
                  !.ready = @ \ gone, !.coasting = @ \ gone,
                  !.silence = [i \in SeatId |-> IF i \in gone THEN 0 ELSE @[i]],
                  !.sim = IF s.phase = "in_game" THEN Eliminate(@, gone) ELSE @])
  IN  IF gone = {} THEN s
      ELSE IF s.phase = "countdown" THEN AbortCountdown(left) ELSE left

\* Removing the seats of S, one after the other: the host's own seat stays.
\* The deferred abort of the first removal reopens the lobby.
RemoveSeats(s, S) ==
  LET gone == {i \in S : s.holder[i] \notin {HostKey, Nobody}}
      left == RefreshAdvert(
        [s EXCEPT !.holder = [i \in SeatId |-> IF i \in gone THEN Nobody ELSE @[i]],
                  !.ready = @ \ gone, !.coasting = @ \ gone, !.signed = @ \ gone,
                  !.silence = [i \in SeatId |-> IF i \in gone THEN 0 ELSE @[i]],
                  !.sim = IF s.phase = "in_game" THEN Eliminate(@, gone) ELSE @])
  IN  IF gone = {} THEN s
      ELSE IF s.phase = "countdown" THEN AbortCountdown(left) ELSE left

\* Seats taken by bots or freed of them so that their number is the configured
\* one, as far as there is room.
SyncBots(s) ==
  LET want == s.cfg.bots
      kept == RemoveSeats(s, Bots(s) \ Lowest(Bots(s), want))
      room == kept.cfg.max - Cardinality(Taken(kept))
      need == want - Cardinality(Bots(kept))
      new  == Lowest(SeatId \ Taken(kept), IF need < room THEN need ELSE room)
  IN  [kept EXCEPT !.holder = [i \in SeatId |-> IF i \in new THEN Bot ELSE @[i]],
                   !.ready = @ \union new]

\* Seats beyond the capacity go from the highest number down.
DropSeatsBeyondCapacity(s) == RemoveSeats(s, Taken(s) \ Lowest(Taken(s), s.cfg.max))
-----------------------------------------------------------------------------
(***************************************************************************)
(* The match: countdown, play, end, attestation.                           *)
(***************************************************************************)
\* game.New cannot fail here: the settings were validated when they were
\* chosen and the host's own seat is always taken.
BeginCountdown(s) ==
  BroadcastLobby(RefreshAdvert(
    [s EXCEPT !.sim = NewSim(Taken(s)), !.matchPlayers = s.holder,
              !.matchID = @ + 1, !.phase = "countdown",
              !.countdown = CountdownTicks, !.lastCount = CountdownTicks]))

BeginPlay(s) ==
  IF s.sim = NoSim THEN AbortCountdown(s)
  ELSE BroadcastLobby(RefreshAdvert([s EXCEPT !.phase = "in_game", !.lastCount = 0]))

ResetAfterMatch(s) ==
  BroadcastLobby(RefreshAdvert(ClearReady([s EXCEPT !.phase = "open"])))

\* The result names the people of the kickoff roster, and the host signs first.
BuildRecord(s) ==
  [match |-> s.matchID,
   participants |-> {s.matchPlayers[i] : i \in SeatId} \ {Bot, Nobody},
   sigs |-> {HostKey}]

EndMatch(s) ==
  LET open == RefreshAdvert(ClearReady([s EXCEPT !.phase = "open"]))
  IN  BroadcastLobby(
        [open EXCEPT !.record = BuildRecord(s), !.attest = AttestTicks,
                     !.signed = {i \in SeatId : s.holder[i] = HostKey},
                     !.sim = NoSim])

\* Storing may fail; the code logs that and goes on.
FinalizeRecord(s, written) ==
  ResetAfterMatch(
    [s EXCEPT !.record = NoRecord,
              !.stored = IF written THEN @ \union {s.record} ELSE @])
-----------------------------------------------------------------------------
(***************************************************************************)
(* One housekeeping pass: liveness, then the phase, then the record.       *)
(***************************************************************************)
\* Fault: a seat already marked disconnected is never dropped.
CheckLivenessOnce(s) ==
  LET silent == {i \in Remotes(s) : s.silence[i] >= CoastTicks} \ s.coasting
      gone  == {i \in silent : s.silence[i] >= DropTicks}
      left  == RemoveSeats(s, gone)
  IN  IF silent = {} THEN s
      ELSE BroadcastLobby(
             [left EXCEPT !.coasting = @ \union (silent \ gone),
                          !.sim = IF left.phase = "in_game" THEN Coast(@, silent) ELSE @])

CheckLiveness(s) ==
  LET gone  == {i \in Remotes(s) : s.silence[i] >= DropTicks}
      quiet == {i \in Remotes(s) \ gone : s.silence[i] >= CoastTicks} \ s.coasting
      left  == RemoveSeats(s, gone)
  IN  IF gone \union quiet = {} THEN s
      ELSE BroadcastLobby(
             [left EXCEPT !.coasting = @ \union quiet,
                          !.sim = IF left.phase = "in_game" THEN Coast(@, quiet) ELSE @])

\* Fault: a running countdown is not called off by an un-ready.
RunPhaseRegardless(s) ==
  CASE s.phase = "open" /\ EveryoneReady(s) -> BeginCountdown(s)
    [] s.phase = "countdown" /\ s.countdown = 0 -> BeginPlay(s)
    [] s.phase = "countdown" /\ s.countdown \notin {0, s.lastCount} ->
         BroadcastLobby([s EXCEPT !.lastCount = s.countdown])
    [] OTHER -> s

\* Fault: the last second of the countdown never ends.
RunPhaseOffByOne(s) ==
  CASE s.phase = "open" /\ EveryoneReady(s) -> BeginCountdown(s)
    [] s.phase = "countdown" /\ ~ EveryoneReady(s) -> AbortCountdown(s)
    [] s.phase = "countdown" /\ EveryoneReady(s) /\ s.countdown < 0 -> BeginPlay(s)
    [] s.phase = "countdown" /\ EveryoneReady(s) /\ s.countdown # s.lastCount ->
         BroadcastLobby([s EXCEPT !.lastCount = s.countdown])
    [] OTHER -> s

RunPhase(s) ==
  CASE s.phase = "open" /\ EveryoneReady(s) -> BeginCountdown(s)
    [] s.phase = "countdown" /\ ~ EveryoneReady(s) -> AbortCountdown(s)
    [] s.phase = "countdown" /\ EveryoneReady(s) /\ s.countdown = 0 -> BeginPlay(s)
    [] s.phase = "countdown" /\ EveryoneReady(s) /\ s.countdown \notin {0, s.lastCount} ->
         BroadcastLobby([s EXCEPT !.lastCount = s.countdown])
    [] OTHER -> s

\* Fault: a missing signature is waited for without end.
CloseAttestationWhenSigned(s, written) ==
  IF s.record # NoRecord /\ AllSigned(s) THEN FinalizeRecord(s, written) ELSE s

CloseAttestation(s, written) ==
  IF s.record # NoRecord /\ (AllSigned(s) \/ s.attest = 0)
  THEN FinalizeRecord(s, written) ELSE s
-----------------------------------------------------------------------------
(***************************************************************************)
(* What arrives from a client, once its seat has been looked up.           *)
(***************************************************************************)
\* Fault: a reconnection is not announced.
HeardSilently(s, i) ==
  [s EXCEPT !.silence[i] = 0, !.coasting = @ \ {i}, !.sim = Uncoast(@, {i})]

\* Any message proves its sender alive.
Heard(s, i) ==
  LET fresh == [s EXCEPT !.silence[i] = 0]
  IN  IF i \notin s.coasting THEN fresh
      ELSE BroadcastLobby([fresh EXCEPT !.coasting = @ \ {i},
                                        !.sim = Uncoast(@, {i})])

\* A ready under other settings than the current ones only re-sends the roster.
SetReady(s, i, ready, gen) ==
  CASE gen # s.gen -> BroadcastLobby(s)
    [] gen = s.gen /\ s.phase \in {"open", "countdown"} /\ (i \in s.ready) # ready ->
         BroadcastLobby([s EXCEPT !.ready = IF ready THEN @ \union {i} ELSE @ \ {i}])
    [] OTHER -> s

\* Fault: whoever is seated may sign.
AddAnyAttestation(s, i, match, key) ==
  IF s.record # NoRecord /\ match = s.record.match /\ key = s.holder[i]
  THEN [s EXCEPT !.record = Sign(@, key),
                 !.signed = @ \union {i}]
  ELSE s

\* A signature counts when it is for the pending record, under the seat's own
\* key, and that key played.
AddAttestation(s, i, match, key) ==
  IF /\ s.record # NoRecord /\ match = s.record.match
     /\ key = s.holder[i] /\ key \in s.record.participants
  THEN [s EXCEPT !.record = Sign(@, key),
                 !.signed = @ \union {i}]
  ELSE s

\* Fault: an install that is seated may join again.
AllocateAgain(s, key) ==
  IF \/ s.phase \in {"countdown", "in_game"}
     \/ Cardinality(Taken(s)) >= s.cfg.max
  THEN s
  ELSE BroadcastLobby(RefreshAdvert(
         [s EXCEPT !.holder = [i \in SeatId |-> IF i \in FreeSeat(s) THEN key ELSE @[i]]]))

Allocate(s, key) ==
  IF \/ s.phase \in {"countdown", "in_game"}
     \/ Cardinality(Taken(s)) >= s.cfg.max
     \/ \E i \in SeatId : s.holder[i] = key
  THEN s
  ELSE BroadcastLobby(RefreshAdvert(
         [s EXCEPT !.holder = [i \in SeatId |-> IF i \in FreeSeat(s) THEN key ELSE @[i]]]))

\* Settings change in place until play begins.  Everybody has to ready again.
ApplySettings(s, c) ==
  LET people == Cardinality(People(s))
      max    == IF c.max < people THEN people ELSE c.max
      cfg    == [max |-> max, bots |-> IF c.bots > max - 1 THEN max - 1 ELSE c.bots]
      reopened == ClearReady([s EXCEPT !.cfg = cfg, !.gen = @ + 1, !.phase = "open"])
  IN  IF s.phase \notin {"open", "countdown"} THEN BroadcastLobby(s)
      ELSE BroadcastLobby(RefreshAdvert(DropSeatsBeyondCapacity(SyncBots(reopened))))
-----------------------------------------------------------------------------
(***************************************************************************)
(* The handlers.                                                           *)
(***************************************************************************)
Running == h.phase # "closed"

\* newHost seats the host, adds the bots and publishes both.
InitHost(c) ==
  LET empty == [phase |-> "open", holder |-> [i \in SeatId |-> IF i = 0 THEN HostKey ELSE Nobody],
                ready |-> {}, coasting |-> {}, signed |-> {},
                silence |-> [i \in SeatId |-> 0], cfg |-> c, gen |-> 0,
                sim |-> NoSim, matchPlayers |-> [i \in SeatId |-> Nobody],
                matchID |-> 0, countdown |-> 0, lastCount |-> 0,
                record |-> NoRecord, attest |-> 0, stored |-> {},
                advert |-> [cfg |-> c, phase |-> "open", taken |-> {}, bots |-> {}],
                view |-> [phase |-> "open", gen |-> 0, cfg |-> c,
                          holder |-> [i \in SeatId |-> Nobody], ready |-> {},
                          connected |-> {}, countdown |-> 0]]
  IN  BroadcastLobby(RefreshAdvert(SyncBots(empty)))

Init == \E c \in Configs : h = InitHost(c)

HousekeepingPass(s, written) == CloseAttestation(RunPhase(CheckLiveness(s)), written)

Housekeeping == Running /\ \E written \in BOOLEAN : h' = HousekeepingPass(h, written)

\* A game tick, while the game ticker exists: some snakes die (the rules that
\* kill them are the simulation's), and a finished match is closed out.
Tick(dead) ==
  /\ h.phase = "in_game"
  /\ h.sim # NoSim
  /\ SimOver(h.sim) => dead = {}
  /\ LET stepped == [h EXCEPT !.sim = Eliminate(@, dead)]
     IN  h' = IF SimOver(stepped.sim) THEN EndMatch(stepped) ELSE stepped

Join(key) == Running /\ h' = Allocate(h, key)

ClientReady(i, ready, gen) ==
  /\ Running /\ i \in Remotes(h)
  /\ ready => h.matchID < MaxMatches
  /\ h' = SetReady(Heard(h, i), i, ready, gen)

ClientAttestation(i, match, key) ==
  /\ Running /\ i \in Remotes(h)
  /\ h' = AddAttestation(Heard(h, i), i, match, key)

ClientLeave(i) ==
  /\ Running /\ i \in Remotes(h)
  /\ h' = BroadcastLobby(RemoveSeats(Heard(h, i), {i}))

\* Pings, pongs and steering only prove the client alive.
ClientPing(i) ==
  /\ Running /\ i \in Remotes(h)
  /\ h' = Heard(h, i)

\* The seat's reader saw its connection end.
Disconnect(i) ==
  /\ Running /\ i \in Remotes(h)
  /\ h' = BroadcastLobby(RemoveSeats(h, {i}))

HostReady(ready) ==
  /\ Running
  /\ ready => h.matchID < MaxMatches
  /\ h' = SetReady(h, 0, ready, h.gen)

Kick(i) ==
  /\ Running /\ i # 0 /\ i \in Taken(h)
  /\ h' = BroadcastLobby(RemoveSeats(h, {i}))

Reconfigure(c) ==
  /\ Running /\ h.gen < MaxGen
  /\ h' = ApplySettings(h, c)

Shutdown ==
  /\ Running
  /\ h' = RefreshAdvert([h EXCEPT !.phase = "closed"])

\* The environment's clock: silence grows, deadlines come closer.
Elapse ==
  /\ Running
  /\ h' = [h EXCEPT
       !.silence = [i \in SeatId |-> IF i \in Remotes(h) /\ @[i] < DropTicks
                                     THEN @[i] + 1 ELSE @[i]],
       !.countdown = IF @ > 0 THEN @ - 1 ELSE @,
       !.attest = IF @ > 0 THEN @ - 1 ELSE @]

FromClient(i) ==
  \/ \E ready \in BOOLEAN, gen \in 0 .. h.gen : ClientReady(i, ready, gen)
  \/ \E match \in 1 .. h.matchID, key \in Keys : ClientAttestation(i, match, key)
  \/ ClientLeave(i)
  \/ ClientPing(i)
  \/ Disconnect(i)

FromHostPlayer ==
  \/ \E ready \in BOOLEAN : HostReady(ready)
  \/ \E i \in SeatId : Kick(i)
  \/ \E c \in Configs : Reconfigure(c)
  \/ Shutdown

Next ==
  \/ Housekeeping
  \/ \E dead \in SUBSET h.sim.alive : Tick(dead)
  \/ \E key \in Keys : Join(key)
  \/ \E i \in SeatId : FromClient(i)
  \/ FromHostPlayer
  \/ Elapse

Spec == Init /\ [][Next]_h

\* The housekeeping ticker is one of four channels a select keeps choosing from,
\* and the clock does not stop; nothing is assumed of players or of the network.
\* The first conjunct is WF_h(Housekeeping) with its ENABLED written out.
HousekeepingDue == Running /\ \E written \in BOOLEAN : HousekeepingPass(h, written) # h

FairSpec == Spec /\ (<>[]HousekeepingDue => []<><<Housekeeping>>_h) /\ WF_h(Elapse)
-----------------------------------------------------------------------------
(***************************************************************************)
(* Types.                                                                  *)
(***************************************************************************)
Phases == {"open", "countdown", "in_game", "closed"}
PlayerKeys == Keys \union {HostKey}
Sims == [snakes : SUBSET SeatId, alive : SUBSET SeatId, coasting : SUBSET SeatId]
Records == [match : Nat, participants : SUBSET PlayerKeys, sigs : SUBSET PlayerKeys]
Rosters == [SeatId -> Holders]
Views == [phase : Phases, gen : Nat, cfg : ValidConfigs, holder : Rosters,
          ready : SUBSET SeatId, connected : SUBSET SeatId, countdown : Nat]
Adverts == [cfg : ValidConfigs, phase : Phases,
            taken : SUBSET SeatId, bots : SUBSET SeatId]

\* A flag never outlives the seat it was set for, so nobody who takes a vacated
\* seat inherits a ready, a signature or a disconnection; bots stay ready.
FlagsFollowSeats ==
  /\ Bots(h) \subseteq h.ready /\ h.ready \subseteq Taken(h)
  /\ h.coasting \subseteq Remotes(h)
  /\ h.signed \subseteq People(h)

\* The type of the Host struct: in particular the clamped settings stay valid
\* and no deadline counts below zero.
Hosts ==
  [phase : Phases, holder : Rosters, ready : SUBSET SeatId,
   coasting : SUBSET SeatId, signed : SUBSET SeatId,
   silence : [SeatId -> 0 .. DropTicks], cfg : ValidConfigs, gen : Nat,
   sim : Sims, matchPlayers : Rosters, matchID : Nat,
   countdown : Nat, lastCount : Nat, record : Records, attest : Nat,
   stored : SUBSET Records, advert : Adverts, view : Views]

\* The fields have their types, and flags belong to seats.
TypeOK == h \in Hosts /\ FlagsFollowSeats
-----------------------------------------------------------------------------
(***************************************************************************)
(* The roster.                                                             *)
(***************************************************************************)
\* The host sits in seat 0 and nowhere else until the lobby closes.
HostSeated == \A i \in SeatId : h.holder[i] = HostKey <=> i = 0

\* An install holds at most one seat.
OneSeatPerKey ==
  \A i, j \in SeatId : h.holder[i] = h.holder[j] /\ h.holder[i] \in Keys => i = j

\* Whatever is kicked, resized, timed out or joined, the host keeps its seat
\* and no install is seated twice.
RosterSound == HostSeated /\ OneSeatPerKey

\* Joins, bots and resizing never leave more seats taken than the settings allow.
WithinCapacity == Cardinality(Taken(h)) <= h.cfg.max

-----------------------------------------------------------------------------
(***************************************************************************)
(* The match.                                                              *)
(***************************************************************************)
\* Throughout a countdown the board on screen, the kickoff roster and the
\* seats agree: any change to the seats aborts it.
KickoffAgreed ==
  h.phase = "countdown" =>
    /\ h.sim = NewSim(Taken(h))
    /\ h.matchPlayers = h.holder

\* In a match every living snake belongs to somebody still seated in the seat
\* they had at kickoff: a leaver's snake is dead and nobody inherits it.
LeaversForfeit ==
  h.phase = "in_game" =>
    /\ h.sim.snakes = {i \in SeatId : h.matchPlayers[i] # Nobody}
    /\ h.sim.alive \subseteq h.sim.snakes
    /\ \A i \in h.sim.alive : h.holder[i] = h.matchPlayers[i]

\* What every client and the host's own screen last heard is the lobby as it
\* is: no handler changes the roster or the phase without publishing it.
RosterPublished == Running => h.view = LobbyState(h)

\* A prober is told the settings, seats and phase that hold now.
AdvertPublished == h.advert = AdvertOf(h)

\* Players and probers are never left with a view of an earlier lobby: every
\* handler that changes roster, settings or phase publishes both.
ViewsCurrent == RosterPublished /\ AdvertPublished
-----------------------------------------------------------------------------
(***************************************************************************)
(* The record.                                                             *)
(***************************************************************************)
WellSigned(r) == HostKey \in r.sigs /\ r.sigs \subseteq r.participants

\* While a record is pending, a seat counted as having signed did sign it, and
\* not the record of an earlier match.
SignedMeansSigned ==
  h.record # NoRecord => \A i \in h.signed : h.holder[i] \in h.record.sigs

\* A match is recorded once: no second version of its record reaches the store
\* and a stored match is not open for signatures again.
OneRecordPerMatch ==
  /\ \A r, q \in h.stored : r.match = q.match => r = q
  /\ \A r \in h.stored : r.match # h.record.match

\* Every record, pending or stored, carries the host's signature and none from
\* a key that did not play, and there is one per match, even when players come
\* and go while it is open and the next match has begun.
RecordsSound ==
  /\ h.record # NoRecord => WellSigned(h.record)
  /\ \A r \in h.stored : WellSigned(r)
  /\ OneRecordPerMatch
-----------------------------------------------------------------------------
(***************************************************************************)
(* What the loop promises: the refinement of MatchCycle.                   *)
(***************************************************************************)
\* A board is what a match that is counted down or played was agreed on; the
\* kickoff roster that the code keeps longer says nothing after it.
Cycle ==
  INSTANCE MatchCycle
    WITH Seats <- SeatId, Players <- PlayerKeys, Host <- HostKey, Window <- AttestTicks,
         phase <- h.phase, seats <- h.holder, ready <- h.ready, terms <- h.cfg,
         board <- IF h.phase \in {"countdown", "in_game"} THEN h.matchPlayers
                  ELSE [i \in SeatId |-> Nobody],
         match <- h.matchID, pending <- h.record, log <- h.stored, window <- h.attest

\* Whatever commands, ticks and deadlines come in whatever order: play begins only
\* on the board that everybody was shown and is still ready for, a record is of the
\* people on that board, and it is closed early only when everybody present has
\* signed.
MatchesAsPromised == Cycle!Spec
-----------------------------------------------------------------------------
(***************************************************************************)
(* Progress.                                                               *)
(***************************************************************************)
\* When everybody seated is ready the match is played, unless somebody stops
\* being ready or the lobby closes.
ReadyLobbyPlays ==
  h.phase = "open" /\ EveryoneReady(h) ~>
    h.phase \in {"in_game", "closed"} \/ ~ EveryoneReady(h)

\* A client that falls silent is heard again or loses its seat, so nobody waits
\* for it for ever.
SilentSeatsFreed ==
  \A i \in SeatId : i \in Remotes(h) /\ h.silence[i] > 0 ~>
    i \notin Remotes(h) \/ h.silence[i] = 0 \/ ~ Running

\* A pending record is not held open for ever by a player who never signs.
RecordSettled ==
  \A m \in 1 .. MaxMatches : h.record.match = m ~> h.record.match # m \/ ~ Running
-----------------------------------------------------------------------------
(***************************************************************************)
(* What the repository says and the code does not do.                      *)
(***************************************************************************)
\* README: un-readying or leaving is what aborts a countdown.  Storing the
\* previous match's record does too: resetAfterMatch reopens the lobby.
CountdownAbortedByPlayers ==
  [][h.phase = "countdown" /\ h'.phase = "open" =>
       h'.holder # h.holder \/ h'.gen # h.gen \/ ~ EveryoneReady(h)]_h

\* A match in progress ends with its result; the same reset takes the clock
\* away from one that is being played.
MatchRunsToItsEnd ==
  [][h.phase = "in_game" /\ h'.phase = "open" => h'.record.match = h.matchID]_h

\* README: a record someone did not sign is still stored.  Closing the lobby
\* while it is pending drops it.
RecordSurvivesClose == h.phase = "closed" => h.record = NoRecord

\* The seats taken by people are a floor under the seat count: new settings do
\* not unseat anybody.
SettingsKeepPeople == [][h'.gen # h.gen => Remotes(h) \subseteq Remotes(h')]_h

\* README: a silent client's snake coasts.  One that fell silent before play
\* began is not told to.
SilentSnakesCoast ==
  h.phase = "in_game" => h.coasting \intersect h.sim.alive \subseteq h.sim.coasting
=============================================================================
