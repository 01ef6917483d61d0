-------------------------- MODULE HostLobbyProofs --------------------------
(***************************************************************************)
(* What holds of the hosting loop for every set of keys, number of seats,  *)
(* set of settings and choice of deadlines.                                *)
(*                                                                         *)
(* A handler is a composition of operators from a Host value to a Host     *)
(* value, so the invariant is stated for a value s and there is one lemma  *)
(* per operator: given a value that satisfies it, the operator returns one *)
(* that does.  Inside a handler the value passes through states the loop   *)
(* never rests in; Loose is what survives there, Good what holds when a    *)
(* handler is done.                                                        *)
(*                                                                         *)
(* Loose is stronger than the properties it gives.  To keep the record of  *)
(* a match unique it also says that a match in preparation is newer than   *)
(* every record, and to keep records signed by players only, that the host *)
(* is in the kickoff roster.                                               *)
(***************************************************************************)
EXTENDS HostLobby, FiniteSetTheorems, TLAPS

-----------------------------------------------------------------------------
\* Everything but what has been published.
SameCore(s, t) ==
  /\ s.phase = t.phase /\ s.holder = t.holder /\ s.ready = t.ready
  /\ s.coasting = t.coasting /\ s.signed = t.signed /\ s.silence = t.silence
  /\ s.cfg = t.cfg /\ s.gen = t.gen /\ s.sim = t.sim
  /\ s.matchPlayers = t.matchPlayers /\ s.matchID = t.matchID
  /\ s.countdown = t.countdown /\ s.lastCount = t.lastCount
  /\ s.record = t.record /\ s.attest = t.attest /\ s.stored = t.stored

\* Flags follow seats; the host is in seat 0; nobody is seated twice.
RosterPart(s) ==
  /\ Bots(s) \subseteq s.ready /\ s.ready \subseteq Taken(s)
  /\ s.coasting \subseteq Remotes(s)
  /\ s.signed \subseteq People(s)
  /\ \A i \in SeatId : s.holder[i] = HostKey <=> i = 0
  /\ \A i, j \in SeatId : s.holder[i] = s.holder[j] /\ s.holder[i] \in Keys => i = j

\* Records are signed by players, one per match, none of a match to come.
RecordPart(s) ==
  /\ s.record # NoRecord => WellSigned(s.record) /\ s.record.match > 0
  /\ s.record.match <= s.matchID
  /\ \A r \in s.stored : WellSigned(r) /\ 0 < r.match /\ r.match <= s.matchID
  /\ \A r, q \in s.stored : r.match = q.match => r = q
  /\ \A r \in s.stored : r.match # s.record.match
  /\ s.record # NoRecord => \A i \in s.signed : s.holder[i] \in s.record.sigs

\* The match being prepared or played has no record yet, and the host plays it.
FreshMatch(s) ==
  s.phase \in {"countdown", "in_game"} =>
    /\ s.record.match < s.matchID
    /\ \A r \in s.stored : r.match < s.matchID
    /\ s.matchPlayers[0] = HostKey

\* The board and the kickoff roster agree with the seats.
MatchPart(s) ==
  /\ s.phase = "countdown" => s.sim = NewSim(Taken(s)) /\ s.matchPlayers = s.holder
  /\ s.phase = "in_game" =>
       /\ s.sim.snakes = {i \in SeatId : s.matchPlayers[i] # Nobody}
       /\ s.sim.alive \subseteq s.sim.snakes
       /\ \A i \in s.sim.alive : s.holder[i] = s.matchPlayers[i]

\* What holds inside a handler, between handlers, and between handlers while the
\* lobby is running.
Loose(s) == s \in Hosts /\ RosterPart(s) /\ RecordPart(s) /\ FreshMatch(s)
Sound(s) == Loose(s) /\ MatchPart(s)
Advertised(s) == s.advert = AdvertOf(s)
Announced(s) == s.view = LobbyState(s)
Good(s) == Sound(s) /\ Advertised(s) /\ Announced(s)
-----------------------------------------------------------------------------
\* A field may be given any value of its type.
LEMMA FieldUpdates ==
  ASSUME NEW s \in Hosts
  PROVE
    /\ \A x \in Phases : [s EXCEPT !.phase = x] \in Hosts
    /\ \A x \in Rosters : [s EXCEPT !.holder = x] \in Hosts
    /\ \A x \in SUBSET SeatId : [s EXCEPT !.ready = x] \in Hosts
    /\ \A x \in SUBSET SeatId : [s EXCEPT !.coasting = x] \in Hosts
    /\ \A x \in SUBSET SeatId : [s EXCEPT !.signed = x] \in Hosts
    /\ \A x \in [SeatId -> 0 .. DropTicks] : [s EXCEPT !.silence = x] \in Hosts
    /\ \A x \in ValidConfigs : [s EXCEPT !.cfg = x] \in Hosts
    /\ \A x \in Nat : [s EXCEPT !.gen = x] \in Hosts
    /\ \A x \in Sims : [s EXCEPT !.sim = x] \in Hosts
    /\ \A x \in Rosters : [s EXCEPT !.matchPlayers = x] \in Hosts
    /\ \A x \in Nat : [s EXCEPT !.matchID = x] \in Hosts
    /\ \A x \in Nat : [s EXCEPT !.countdown = x] \in Hosts
    /\ \A x \in Nat : [s EXCEPT !.lastCount = x] \in Hosts
    /\ \A x \in Records : [s EXCEPT !.record = x] \in Hosts
    /\ \A x \in Nat : [s EXCEPT !.attest = x] \in Hosts
    /\ \A x \in SUBSET Records : [s EXCEPT !.stored = x] \in Hosts
<1>1. \A x \in Phases : [s EXCEPT !.phase = x] \in Hosts
  BY DEF Hosts
<1>2. \A x \in Rosters : [s EXCEPT !.holder = x] \in Hosts
  BY DEF Hosts
<1>3. \A x \in SUBSET SeatId : [s EXCEPT !.ready = x] \in Hosts
  BY DEF Hosts
<1>4. \A x \in SUBSET SeatId : [s EXCEPT !.coasting = x] \in Hosts
  BY DEF Hosts
<1>5. \A x \in SUBSET SeatId : [s EXCEPT !.signed = x] \in Hosts
  BY DEF Hosts
<1>6. \A x \in [SeatId -> 0 .. DropTicks] : [s EXCEPT !.silence = x] \in Hosts
  BY DEF Hosts
<1>7. \A x \in ValidConfigs : [s EXCEPT !.cfg = x] \in Hosts
  BY DEF Hosts
<1>8. \A x \in Nat : [s EXCEPT !.gen = x] \in Hosts
  BY DEF Hosts
<1>9. \A x \in Sims : [s EXCEPT !.sim = x] \in Hosts
  BY DEF Hosts
<1>10. \A x \in Rosters : [s EXCEPT !.matchPlayers = x] \in Hosts
  BY DEF Hosts
<1>11. \A x \in Nat : [s EXCEPT !.matchID = x] \in Hosts
  BY DEF Hosts
<1>12. \A x \in Nat : [s EXCEPT !.countdown = x] \in Hosts
  BY DEF Hosts
<1>13. \A x \in Nat : [s EXCEPT !.lastCount = x] \in Hosts
  BY DEF Hosts
<1>14. \A x \in Records : [s EXCEPT !.record = x] \in Hosts
  BY DEF Hosts
<1>15. \A x \in Nat : [s EXCEPT !.attest = x] \in Hosts
  BY DEF Hosts
<1>16. \A x \in SUBSET Records : [s EXCEPT !.stored = x] \in Hosts
  BY DEF Hosts
<1> QED BY <1>1, <1>2, <1>3, <1>4, <1>5, <1>6, <1>7, <1>8, <1>9, <1>10, <1>11, <1>12, <1>13, <1>14, <1>15, <1>16

\* The invariant and what is to be published depend on the core alone.
LEMMA CoreDecides ==
  ASSUME NEW s \in Hosts, NEW t \in Hosts, SameCore(t, s)
  PROVE  /\ RosterPart(s) => RosterPart(t)
         /\ RecordPart(s) => RecordPart(t)
         /\ FreshMatch(s) => FreshMatch(t)
         /\ MatchPart(s) => MatchPart(t)
         /\ AdvertOf(t) = AdvertOf(s)
         /\ LobbyState(t) = LobbyState(s)
<1> USE DEF SameCore, Taken, Bots, People, Remotes
<1>1. RosterPart(s) => RosterPart(t)
  BY DEF RosterPart
<1>2. RecordPart(s) => RecordPart(t)
  BY DEF RecordPart
<1>3. FreshMatch(s) => FreshMatch(t)
  BY DEF FreshMatch
<1>4. MatchPart(s) => MatchPart(t)
  BY DEF MatchPart
<1>5. AdvertOf(t) = AdvertOf(s) /\ LobbyState(t) = LobbyState(s)
  BY DEF AdvertOf, LobbyState
<1> QED BY <1>1, <1>2, <1>3, <1>4, <1>5

\* Publishing the advert changes nothing else.
LEMMA RefreshAdvertFields ==
  ASSUME NEW s \in Hosts
  PROVE  /\ RefreshAdvert(s) \in Hosts
         /\ SameCore(RefreshAdvert(s), s)
         /\ RefreshAdvert(s).view = s.view
         /\ Advertised(RefreshAdvert(s))
<1>1. AdvertOf(s) \in Adverts
  BY SMT DEF Hosts, AdvertOf, Adverts, Taken, Bots
<1>2. /\ RefreshAdvert(s) \in Hosts /\ SameCore(RefreshAdvert(s), s)
      /\ RefreshAdvert(s).view = s.view
      /\ RefreshAdvert(s).advert = AdvertOf(s)
  BY <1>1, SMT DEF Hosts, RefreshAdvert, SameCore
<1> QED BY <1>2, CoreDecides DEF Advertised

\* Publishing the roster changes nothing else.
LEMMA BroadcastLobbyFields ==
  ASSUME NEW s \in Hosts
  PROVE  /\ BroadcastLobby(s) \in Hosts
         /\ SameCore(BroadcastLobby(s), s)
         /\ Advertised(s) => Advertised(BroadcastLobby(s))
         /\ Announced(BroadcastLobby(s))
<1>1. LobbyState(s) \in Views
  BY SMT DEF Hosts, LobbyState, Views, Taken
<1>2. /\ BroadcastLobby(s) \in Hosts /\ SameCore(BroadcastLobby(s), s)
      /\ BroadcastLobby(s).advert = s.advert
      /\ BroadcastLobby(s).view = LobbyState(s)
  BY <1>1, SMT DEF Hosts, BroadcastLobby, SameCore
<1> QED BY <1>2, CoreDecides DEF Advertised, Announced

\* Publishing both makes a sound value a good one.
LEMMA Publishing ==
  ASSUME NEW s \in Hosts, Sound(s)
  PROVE  /\ Sound(RefreshAdvert(s)) /\ Advertised(RefreshAdvert(s))
         /\ Sound(BroadcastLobby(s)) /\ Announced(BroadcastLobby(s))
         /\ Advertised(s) => Good(BroadcastLobby(s))
         /\ Good(BroadcastLobby(RefreshAdvert(s)))
<1> DEFINE r == RefreshAdvert(s)
           b == BroadcastLobby(s)
           br == BroadcastLobby(r)
<1>1. s \in Hosts
  BY DEF Sound, Loose
<1>2. r \in Hosts /\ SameCore(r, s) /\ Advertised(r)
  BY <1>1, RefreshAdvertFields
<1>3. b \in Hosts /\ SameCore(b, s) /\ Announced(b) /\ (Advertised(s) => Advertised(b))
  BY <1>1, BroadcastLobbyFields
<1>4. Sound(r) /\ Sound(b)
  BY <1>1, <1>2, <1>3, CoreDecides DEF Sound, Loose
<1>5. br \in Hosts /\ SameCore(br, r) /\ Announced(br) /\ Advertised(br)
  BY <1>2, BroadcastLobbyFields
<1>6. Sound(br)
  <2> HIDE DEF r, br
  <2> QED BY <1>2, <1>4, <1>5, CoreDecides DEF Sound, Loose
<1> QED BY <1>2, <1>3, <1>4, <1>5, <1>6 DEF Good
-----------------------------------------------------------------------------
\* Going back to an open lobby repairs whatever the match part lost.
LEMMA ReopenLoose ==
  ASSUME NEW s \in Hosts, Loose(s), NEW sim \in Sims
  PROVE  /\ Sound(ClearReady([s EXCEPT !.sim = sim, !.phase = "open"]))
         /\ ClearReady([s EXCEPT !.sim = sim, !.phase = "open"]).phase = "open"
         /\ ClearReady([s EXCEPT !.sim = sim, !.phase = "open"]).holder = s.holder
<1> DEFINE o == [s EXCEPT !.sim = sim, !.phase = "open"]
           c == ClearReady(o)
<1>1. s \in Hosts
  BY DEF Loose
<1>2. o \in Hosts
  <2> DEFINE a == [s EXCEPT !.sim = sim]
  <2>1. a \in Hosts /\ "open" \in Phases
    BY <1>1, FieldUpdates DEF Phases
  <2>2. o = [a EXCEPT !.phase = "open"]
    OBVIOUS
  <2> HIDE DEF a, o
  <2> QED BY <2>1, <2>2, FieldUpdates
<1>3. /\ o.holder = s.holder /\ o.phase = "open" /\ o.record = s.record
      /\ o.stored = s.stored /\ o.signed = s.signed /\ o.coasting = s.coasting
      /\ o.matchID = s.matchID
  BY <1>1, SMT DEF Hosts
<1>4. Bots(o) = Bots(s) /\ Bots(o) \in SUBSET SeatId
  BY <1>3 DEF Bots
<1>5. /\ c \in Hosts
      /\ c.ready = Bots(s) /\ c.holder = s.holder /\ c.phase = "open"
      /\ c.record = s.record /\ c.stored = s.stored /\ c.signed = s.signed
      /\ c.coasting = s.coasting /\ c.matchID = s.matchID
  <2> HIDE DEF o
  <2> DEFINE a == [o EXCEPT !.ready = Bots(o)]
  <2>1. a \in Hosts
    BY <1>2, <1>4, FieldUpdates
  <2>2. c = [a EXCEPT !.lastCount = 0]
    BY DEF ClearReady
  <2>3. a.ready = Bots(o) /\ a.holder = o.holder /\ a.phase = o.phase
        /\ a.record = o.record /\ a.stored = o.stored /\ a.signed = o.signed
        /\ a.coasting = o.coasting /\ a.matchID = o.matchID
    BY <1>2 DEF Hosts
  <2> HIDE DEF a, c
  <2>4. c \in Hosts
    BY <2>1, <2>2, FieldUpdates
  <2> QED BY <1>3, <1>4, <2>1, <2>2, <2>3, <2>4 DEF Hosts
<1> HIDE DEF c
<1>6. RosterPart(c)
  BY <1>5, HostLobbyAssumption DEF Loose, RosterPart, Taken, Bots, People, Remotes
<1>7. RecordPart(c)
  BY <1>5 DEF Loose, RecordPart
<1> QED BY <1>5, <1>6, <1>7 DEF Sound, Loose, FreshMatch, MatchPart, c, o

\* The same with the board left in place, as resetAfterMatch does.
LEMMA ReopenKeepingSim ==
  ASSUME NEW s \in Hosts, Loose(s)
  PROVE  LET c == ClearReady([s EXCEPT !.phase = "open"])
         IN  c \in Hosts /\ Sound(c) /\ c.phase = "open" /\ c.holder = s.holder
<1> DEFINE c == ClearReady([s EXCEPT !.phase = "open"])
           d == ClearReady([s EXCEPT !.sim = s.sim, !.phase = "open"])
<1>1. s.sim \in Sims
  BY DEF Hosts
<1>2. Sound(d) /\ d.phase = "open" /\ d.holder = s.holder
  BY <1>1, ReopenLoose
<1>3. [s EXCEPT !.phase = "open"] = [s EXCEPT !.sim = s.sim, !.phase = "open"]
  BY DEF Hosts
<1>4. c = d
  BY <1>3
<1> HIDE DEF c, d
<1>5. d \in Hosts
  BY <1>2 DEF Sound, Loose
<1>6. c \in Hosts /\ Sound(c) /\ c.phase = "open" /\ c.holder = s.holder
  BY <1>2, <1>4, <1>5
<1> QED BY <1>6 DEF c

\* The absent simulation has the type of one.
LEMMA NoSimType == NoSim \in Sims
BY DEF NoSim, Sims

\* abortCountdown works from inside a handler too.
LEMMA AbortGood ==
  ASSUME NEW s \in Hosts, Loose(s)
  PROVE  /\ Good(AbortCountdown(s)) /\ AbortCountdown(s).phase = "open"
         /\ AbortCountdown(s).holder = s.holder
<1> DEFINE c == ClearReady([s EXCEPT !.sim = NoSim, !.phase = "open"])
<1>1. Sound(c) /\ c.phase = "open" /\ c.holder = s.holder /\ c \in Hosts
  BY ReopenLoose, NoSimType DEF Sound, Loose
<1> HIDE DEF c
<1>2. Good(BroadcastLobby(RefreshAdvert(c)))
  BY <1>1, Publishing
<1>3. /\ BroadcastLobby(RefreshAdvert(c)).phase = "open"
      /\ BroadcastLobby(RefreshAdvert(c)).holder = s.holder
  BY <1>1, RefreshAdvertFields, BroadcastLobbyFields DEF SameCore
<1> QED BY <1>2, <1>3 DEF AbortCountdown, c

\* removeSeat, the only way out of a seat: in a countdown the board no longer
\* fits and the abort repairs it, in a match the snake dies with the seat.
LEMMA RemoveSeatsGood ==
  ASSUME NEW s \in Hosts, Sound(s), NEW S \in SUBSET SeatId
  PROVE  /\ RemoveSeats(s, S) \in Hosts /\ Sound(RemoveSeats(s, S))
         /\ Advertised(s) => Advertised(RemoveSeats(s, S))
         /\ RemoveSeats(s, S).phase = s.phase \/ RemoveSeats(s, S).phase = "open"
         /\ RemoveSeats(s, S).holder =
              [i \in SeatId |-> IF i \in {j \in S : s.holder[j] \notin {HostKey, Nobody}}
                                THEN Nobody ELSE s.holder[i]]
<1> DEFINE gone == {i \in S : s.holder[i] \notin {HostKey, Nobody}}
           c == [s EXCEPT !.holder = [i \in SeatId |-> IF i \in gone THEN Nobody ELSE @[i]],
                  !.ready = @ \ gone, !.coasting = @ \ gone, !.signed = @ \ gone,
                  !.silence = [i \in SeatId |-> IF i \in gone THEN 0 ELSE @[i]],
                  !.sim = IF s.phase = "in_game" THEN Eliminate(@, gone) ELSE @]
           left == RefreshAdvert(c)
<1> USE HostLobbyAssumption
<1>1. s \in Hosts
  BY DEF Sound, Loose
<1>2. c \in Hosts
  <2> DEFINE holder == [i \in SeatId |-> IF i \in gone THEN Nobody ELSE s.holder[i]]
             silence == [i \in SeatId |-> IF i \in gone THEN 0 ELSE s.silence[i]]
             sim == IF s.phase = "in_game" THEN Eliminate(s.sim, gone) ELSE s.sim
  <2>1. holder \in Rosters /\ silence \in [SeatId -> 0 .. DropTicks]
    BY <1>1 DEF Hosts, Rosters, Holders
  <2>2. sim \in Sims
    BY <1>1 DEF Hosts, Sims, Eliminate
  <2>3. c = [s EXCEPT !.holder = holder, !.ready = s.ready \ gone,
               !.coasting = s.coasting \ gone, !.signed = s.signed \ gone,
               !.silence = silence, !.sim = sim]
    BY <1>1 DEF Hosts
  <2> HIDE DEF holder, silence, sim, c
  <2> DEFINE c1 == [s EXCEPT !.holder = holder]
             c2 == [c1 EXCEPT !.ready = s.ready \ gone]
             c3 == [c2 EXCEPT !.coasting = s.coasting \ gone]
             c4 == [c3 EXCEPT !.signed = s.signed \ gone]
             c5 == [c4 EXCEPT !.silence = silence]
  <2>4. /\ s.ready \ gone \in SUBSET SeatId /\ s.coasting \ gone \in SUBSET SeatId
        /\ s.signed \ gone \in SUBSET SeatId
    BY <1>1 DEF Hosts
  <2>5. c = [c5 EXCEPT !.sim = sim]
    BY <2>3
  <2>6. c1 \in Hosts
    BY <1>1, <2>1, FieldUpdates
  <2> HIDE DEF c1
  <2>7. c2 \in Hosts
    BY <2>4, <2>6, FieldUpdates
  <2> HIDE DEF c2
  <2>8. c3 \in Hosts
    BY <2>4, <2>7, FieldUpdates
  <2> HIDE DEF c3
  <2>9. c4 \in Hosts
    BY <2>4, <2>8, FieldUpdates
  <2> HIDE DEF c4
  <2>10. c5 \in Hosts
    BY <2>1, <2>9, FieldUpdates
  <2> HIDE DEF c5
  <2> QED BY <2>2, <2>5, <2>10, FieldUpdates
<1>3. /\ c.holder = [i \in SeatId |-> IF i \in gone THEN Nobody ELSE s.holder[i]]
      /\ c.ready = s.ready \ gone /\ c.coasting = s.coasting \ gone
      /\ c.signed = s.signed \ gone /\ c.record = s.record /\ c.stored = s.stored
      /\ c.matchID = s.matchID /\ c.phase = s.phase /\ c.matchPlayers = s.matchPlayers
      /\ c.sim = IF s.phase = "in_game" THEN Eliminate(s.sim, gone) ELSE s.sim
  BY <1>1, SMT DEF Hosts
<1> gone \subseteq S
  OBVIOUS
<1> HIDE DEF c
<1>4. RosterPart(c)
  BY <1>1, <1>3, SMT DEF Sound, Loose, RosterPart, Taken, Bots, People, Remotes, Hosts, Rosters, Holders
<1>5. RecordPart(c)
  BY <1>3, <1>1 DEF Sound, Loose, RecordPart, RosterPart, People, Taken, Hosts
<1>6. FreshMatch(c)
  BY <1>3 DEF Sound, Loose, FreshMatch
<1>7. s.phase = "in_game" => MatchPart(c)
  BY <1>1, <1>3, SMT DEF Sound, MatchPart, Eliminate, Hosts, Sims
<1>8. s.phase \notin {"countdown", "in_game"} => MatchPart(c)
  BY <1>3 DEF MatchPart
<1>9. Loose(c)
  BY <1>2, <1>4, <1>5, <1>6 DEF Loose
<1>10. Loose(left) /\ Advertised(left) /\ left.phase = c.phase /\ left.holder = c.holder
  BY <1>2, <1>9, RefreshAdvertFields, CoreDecides DEF Loose, SameCore
<1>11. s.phase # "countdown" => Sound(left)
  BY <1>2, <1>7, <1>8, <1>9, <1>10, RefreshAdvertFields, CoreDecides DEF Sound
<1>12. RemoveSeats(s, S) = IF gone = {} THEN s
          ELSE IF s.phase = "countdown" THEN AbortCountdown(left) ELSE left
  BY DEF RemoveSeats, c
<1>13. /\ Good(AbortCountdown(left)) /\ AbortCountdown(left).phase = "open"
       /\ AbortCountdown(left).holder = c.holder
  BY <1>10, AbortGood DEF Loose
<1>14. gone = {} => s.holder = [i \in SeatId |-> IF i \in gone THEN Nobody ELSE s.holder[i]]
  BY <1>1 DEF Hosts, Rosters
<1> HIDE DEF left
<1> QED BY <1>3, <1>10, <1>11, <1>12, <1>13, <1>14 DEF Good, Sound, Loose
-----------------------------------------------------------------------------
\* resetAfterMatch.
LEMMA ResetGood ==
  ASSUME NEW s \in Hosts, Loose(s)
  PROVE  Good(ResetAfterMatch(s))
BY ReopenKeepingSim, Publishing DEF ResetAfterMatch

\* finalizeRecord: the pending record is newer than any stored one.
LEMMA FinalizeRecordGood ==
  ASSUME NEW s \in Hosts, Sound(s), s.record # NoRecord, NEW written \in BOOLEAN
  PROVE  Good(FinalizeRecord(s, written))
<1> DEFINE stored == IF written THEN s.stored \union {s.record} ELSE s.stored
           a == [s EXCEPT !.record = NoRecord]
           c == [a EXCEPT !.stored = stored]
<1>1. s.record \in Records /\ stored \in SUBSET Records /\ NoRecord \in Records
  BY DEF Hosts, Records, NoRecord
<1>2. a \in Hosts
  BY <1>1, FieldUpdates
<1>3. /\ a.holder = s.holder /\ a.phase = s.phase /\ a.record = NoRecord
      /\ a.ready = s.ready /\ a.coasting = s.coasting /\ a.signed = s.signed
      /\ a.matchID = s.matchID /\ a.matchPlayers = s.matchPlayers
  BY DEF Hosts
<1> HIDE DEF a
<1>4. c \in Hosts
  BY <1>1, <1>2, FieldUpdates
<1>5. /\ c.holder = s.holder /\ c.phase = s.phase /\ c.record = NoRecord
      /\ c.ready = s.ready /\ c.coasting = s.coasting /\ c.signed = s.signed
      /\ c.matchID = s.matchID /\ c.matchPlayers = s.matchPlayers
      /\ c.stored = stored
  BY <1>2, <1>3 DEF Hosts
<1> HIDE DEF c
<1>6. RosterPart(c)
  BY <1>5 DEF Sound, Loose, RosterPart, Taken, Bots, People, Remotes
<1>7. \A r \in stored : WellSigned(r) /\ 0 < r.match /\ r.match <= s.matchID
  BY DEF Sound, Loose, RecordPart
<1>8. \A r, q \in stored : r.match = q.match => r = q
  BY DEF Sound, Loose, RecordPart
<1>9. s.matchID \in Nat /\ s.record.match \in Nat /\ s.record.match <= s.matchID
      /\ s.record.match > 0
  BY <1>1 DEF Hosts, Records, Sound, Loose, RecordPart
<1>10. NoRecord.match = 0
  BY DEF NoRecord
<1>11. RecordPart(c)
  BY <1>5, <1>7, <1>8, <1>9, <1>10, <1>1 DEF RecordPart, Records
<1>12. FreshMatch(c)
  <2> HIDE DEF stored
  <2>1. s.phase \in {"countdown", "in_game"} => \A r \in stored : r.match < s.matchID
    BY DEF Sound, Loose, FreshMatch, stored
  <2> QED BY <1>5, <1>9, <1>10, <2>1 DEF Sound, Loose, FreshMatch
<1>13. Good(ResetAfterMatch(c))
  BY <1>4, <1>6, <1>11, <1>12, ResetGood DEF Loose
<1>14. c = [s EXCEPT !.record = NoRecord,
               !.stored = IF written THEN @ \union {s.record} ELSE @]
  BY DEF c, a, Hosts
<1> QED BY <1>13, <1>14 DEF FinalizeRecord

\* The end of a housekeeping pass.
LEMMA CloseAttestationGood ==
  ASSUME NEW s \in Hosts, Good(s), NEW written \in BOOLEAN
  PROVE  Good(CloseAttestation(s, written))
BY FinalizeRecordGood DEF CloseAttestation, Good
-----------------------------------------------------------------------------
\* beginCountdown makes the match number one that no record has.
LEMMA BeginCountdownGood ==
  ASSUME NEW s \in Hosts, Sound(s)
  PROVE  Good(BeginCountdown(s))
<1> DEFINE c1 == [s EXCEPT !.sim = NewSim(Taken(s))]
           c2 == [c1 EXCEPT !.matchPlayers = s.holder]
           c3 == [c2 EXCEPT !.matchID = s.matchID + 1]
           c4 == [c3 EXCEPT !.phase = "countdown"]
           c5 == [c4 EXCEPT !.countdown = CountdownTicks]
           c == [c5 EXCEPT !.lastCount = CountdownTicks]
           d == [s EXCEPT !.sim = NewSim(Taken(s)), !.matchPlayers = s.holder,
                  !.matchID = @ + 1, !.phase = "countdown",
                  !.countdown = CountdownTicks, !.lastCount = CountdownTicks]
<1> USE HostLobbyAssumption
<1>1. /\ NewSim(Taken(s)) \in Sims /\ s.holder \in Rosters /\ s.matchID + 1 \in Nat
      /\ "countdown" \in Phases /\ CountdownTicks \in Nat
  BY DEF Hosts, NewSim, Sims, Taken, Phases
<1>2. d = c
  BY DEF Hosts
<1>3. /\ d.holder = s.holder /\ d.phase = "countdown" /\ d.record = s.record
      /\ d.ready = s.ready /\ d.coasting = s.coasting /\ d.signed = s.signed
      /\ d.matchID = s.matchID + 1 /\ d.matchPlayers = s.holder
      /\ d.stored = s.stored /\ d.sim = NewSim(Taken(s))
  BY DEF Hosts
<1>4. c \in Hosts
  <2>1. c1 \in Hosts
    BY <1>1, FieldUpdates
  <2> HIDE DEF c1
  <2>2. c2 \in Hosts
    BY <1>1, <2>1, FieldUpdates
  <2> HIDE DEF c2
  <2>3. c3 \in Hosts
    BY <1>1, <2>2, FieldUpdates
  <2> HIDE DEF c3
  <2>4. c4 \in Hosts
    BY <1>1, <2>3, FieldUpdates
  <2> HIDE DEF c4
  <2>5. c5 \in Hosts
    BY <1>1, <2>4, FieldUpdates
  <2> HIDE DEF c5
  <2> QED BY <1>1, <2>5, FieldUpdates
<1> HIDE DEF c, d
<1>5. RosterPart(d)
  BY <1>3 DEF Sound, Loose, RosterPart, Taken, Bots, People, Remotes
<1>6. s.matchID \in Nat /\ s.record.match \in Nat /\ \A r \in s.stored : r.match \in Nat
  BY DEF Hosts, Records
<1>7. RecordPart(d)
  BY <1>3, <1>6 DEF Sound, Loose, RecordPart
<1>8. FreshMatch(d)
  <2>1. s.holder[0] = HostKey
    BY DEF Sound, Loose, RosterPart, SeatId
  <2> QED BY <1>3, <1>6, <2>1 DEF Sound, Loose, RecordPart, FreshMatch
<1>9. MatchPart(d)
  BY <1>3 DEF MatchPart, Taken
<1>10. Sound(d) /\ d \in Hosts
  BY <1>2, <1>4, <1>5, <1>7, <1>8, <1>9 DEF Sound, Loose
<1> QED BY <1>10, Publishing DEF BeginCountdown, d

\* beginPlay starts from the agreed kickoff.
LEMMA BeginPlayGood ==
  ASSUME NEW s \in Hosts, Sound(s), s.phase = "countdown"
  PROVE  Good(BeginPlay(s))
<1> DEFINE a == [s EXCEPT !.phase = "in_game"]
           c == [s EXCEPT !.phase = "in_game", !.lastCount = 0]
<1>1. c = [a EXCEPT !.lastCount = 0]
  BY DEF Hosts
<1>2. a \in Hosts
  BY FieldUpdates DEF Phases
<1>3. c \in Hosts
  <2> HIDE DEF a, c
  <2> QED BY <1>1, <1>2, FieldUpdates
<1>4. /\ c.holder = s.holder /\ c.phase = "in_game" /\ c.record = s.record
      /\ c.ready = s.ready /\ c.coasting = s.coasting /\ c.signed = s.signed
      /\ c.matchID = s.matchID /\ c.matchPlayers = s.matchPlayers
      /\ c.stored = s.stored /\ c.sim = s.sim
  BY DEF Hosts
<1> HIDE DEF c
<1>5. RosterPart(c)
  BY <1>4 DEF Sound, Loose, RosterPart, Taken, Bots, People, Remotes
<1>6. RecordPart(c) /\ FreshMatch(c)
  BY <1>4 DEF Sound, Loose, RecordPart, FreshMatch
<1>7. MatchPart(c)
  BY <1>4 DEF Sound, MatchPart, NewSim, Taken
<1>8. Sound(c)
  BY <1>3, <1>5, <1>6, <1>7 DEF Sound, Loose
<1>9. Good(BroadcastLobby(RefreshAdvert(c)))
  BY <1>3, <1>8, Publishing
<1>10. Good(AbortCountdown(s))
  BY AbortGood DEF Sound
<1> QED BY <1>9, <1>10 DEF BeginPlay, c

\* The middle of a housekeeping pass.
LEMMA RunPhaseGood ==
  ASSUME NEW s \in Hosts, Good(s)
  PROVE  Good(RunPhase(s))
<1> DEFINE c == [s EXCEPT !.lastCount = s.countdown]
<1>1. Sound(s) /\ Loose(s)
  BY DEF Good, Sound
<1>2. c \in Hosts
  BY FieldUpdates DEF Hosts
<1>3. Good(BroadcastLobby(c))
  <2>1. /\ c.holder = s.holder /\ c.phase = s.phase /\ c.record = s.record
        /\ c.ready = s.ready /\ c.coasting = s.coasting /\ c.signed = s.signed
        /\ c.matchID = s.matchID /\ c.matchPlayers = s.matchPlayers
        /\ c.stored = s.stored /\ c.sim = s.sim /\ c.cfg = s.cfg /\ c.advert = s.advert
    BY DEF Hosts
  <2> HIDE DEF c
  <2> USE DEF Taken, Bots, People, Remotes
  <2>2. RosterPart(c) /\ RecordPart(c) /\ FreshMatch(c)
    BY <1>1, <2>1 DEF Loose, RosterPart, RecordPart, FreshMatch
  <2>3. MatchPart(c)
    BY <1>1, <2>1 DEF Sound, MatchPart
  <2>4. Advertised(c)
    BY <2>1 DEF Good, Advertised, AdvertOf
  <2> QED BY <1>2, <2>2, <2>3, <2>4, Publishing DEF Sound, Loose
<1> QED BY <1>1, <1>3, BeginCountdownGood, AbortGood, BeginPlayGood DEF RunPhase, Good

\* checkLiveness: whoever is newly quiet still has a seat after the drops.
LEMMA CheckLivenessGood ==
  ASSUME NEW s \in Hosts, Good(s)
  PROVE  Good(CheckLiveness(s)) /\ CheckLiveness(s) \in Hosts
<1> DEFINE gone == {i \in Remotes(s) : s.silence[i] >= DropTicks}
           quiet == {i \in Remotes(s) \ gone : s.silence[i] >= CoastTicks} \ s.coasting
           left == RemoveSeats(s, gone)
           sim == IF left.phase = "in_game" THEN Coast(left.sim, quiet) ELSE left.sim
           a == [left EXCEPT !.coasting = left.coasting \union quiet]
           c == [a EXCEPT !.sim = sim]
<1>1. gone \in SUBSET SeatId /\ quiet \subseteq Remotes(s) \ gone /\ quiet \in SUBSET SeatId
  BY DEF Remotes
<1>2. Sound(left) /\ Advertised(left) /\ left \in Hosts
  BY <1>1, RemoveSeatsGood DEF Good, Sound, Loose
<1>3. quiet \subseteq Remotes(left)
  <2>1. CASE gone = {}
    BY <2>1, <1>1 DEF RemoveSeats
  <2>2. CASE gone # {}
    <3>1. left.holder = [i \in SeatId |-> IF i \in {j \in gone : s.holder[j] \notin {HostKey, Nobody}}
                                          THEN Nobody ELSE s.holder[i]]
      BY <1>1, RemoveSeatsGood DEF Good
    <3> HIDE DEF left, gone, quiet
    <3> QED BY <1>1, <3>1 DEF Remotes
  <2> QED BY <2>1, <2>2
<1> HIDE DEF left, gone, quiet
<1>4. sim \in Sims /\ left.coasting \union quiet \in SUBSET SeatId
  BY <1>1, <1>2 DEF Hosts, Sims, Coast
<1>5. a \in Hosts
  BY <1>2, <1>4, FieldUpdates
<1>6. c \in Hosts
  <2> HIDE DEF a, sim
  <2> QED BY <1>4, <1>5, FieldUpdates
<1>7. /\ c.holder = left.holder /\ c.phase = left.phase /\ c.record = left.record
      /\ c.ready = left.ready /\ c.coasting = left.coasting \union quiet
      /\ c.signed = left.signed /\ c.matchID = left.matchID
      /\ c.matchPlayers = left.matchPlayers /\ c.stored = left.stored
      /\ c.sim = sim /\ c.cfg = left.cfg /\ c.advert = left.advert
  <2> HIDE DEF sim
  <2> QED BY <1>2, <1>4 DEF Hosts
<1>8. c = [left EXCEPT !.coasting = @ \union quiet,
             !.sim = IF left.phase = "in_game" THEN Coast(@, quiet) ELSE @]
  BY <1>2 DEF Hosts
<1> HIDE DEF c
<1>9. RosterPart(c)
  BY <1>2, <1>3, <1>7 DEF Sound, Loose, RosterPart, Taken, Bots, People, Remotes
<1>10. RecordPart(c) /\ FreshMatch(c)
  BY <1>2, <1>7 DEF Sound, Loose, RecordPart, FreshMatch
<1>11. MatchPart(c)
  <2>1. left.sim \in Sims
    BY <1>2 DEF Hosts
  <2>2. Coast(left.sim, quiet).snakes = left.sim.snakes
        /\ Coast(left.sim, quiet).alive = left.sim.alive
    BY <2>1 DEF Coast, Sims
  <2>3. CASE left.phase = "in_game"
    BY <1>2, <1>7, <2>2, <2>3 DEF Sound, MatchPart
  <2>4. CASE left.phase # "in_game"
    BY <1>2, <1>7, <2>4 DEF Sound, MatchPart, Taken
  <2> QED BY <2>3, <2>4
<1>12. Advertised(c)
  BY <1>2, <1>7 DEF Advertised, AdvertOf, Taken, Bots
<1>13. Good(BroadcastLobby(c)) /\ BroadcastLobby(c) \in Hosts
  BY <1>6, <1>9, <1>10, <1>11, <1>12, Publishing DEF Good, Sound, Loose
<1>14. CheckLiveness(s) = IF gone \union quiet = {} THEN s ELSE BroadcastLobby(c)
  BY <1>8 DEF CheckLiveness, left, gone, quiet
<1> QED BY <1>13, <1>14

\* A whole housekeeping pass.
LEMMA HousekeepingGood ==
  ASSUME NEW s \in Hosts, Good(s), NEW written \in BOOLEAN
  PROVE  Good(HousekeepingPass(s, written))
<1> DEFINE a == CheckLiveness(s)
           b == RunPhase(a)
<1>1. Good(a) /\ a \in Hosts
  BY CheckLivenessGood
<1> HIDE DEF a
<1>2. Good(b) /\ b \in Hosts
  BY <1>1, RunPhaseGood DEF Good, Sound, Loose
<1> HIDE DEF b
<1>3. Good(CloseAttestation(b, written))
  BY <1>2, CloseAttestationGood
<1> QED BY <1>3 DEF HousekeepingPass, a, b
-----------------------------------------------------------------------------
\* endMatch: the new record replaces whatever was pending and is signed by the
\* host, who played.
LEMMA EndMatchGood ==
  ASSUME NEW s \in Hosts, Loose(s), s.phase = "in_game", Announced(s)
  PROVE  Good(EndMatch(s))
<1> DEFINE c == ClearReady([s EXCEPT !.phase = "open"])
           open == RefreshAdvert(c)
           signed == {i \in SeatId : s.holder[i] = HostKey}
           e1 == [open EXCEPT !.record = BuildRecord(s)]
           e2 == [e1 EXCEPT !.attest = AttestTicks]
           e3 == [e2 EXCEPT !.signed = signed]
           e == [e3 EXCEPT !.sim = NoSim]
<1> USE HostLobbyAssumption
<1>1. Sound(c) /\ c \in Hosts /\ c.phase = "open"
  BY ReopenKeepingSim
<1>2. c.holder = s.holder /\ c.matchID = s.matchID /\ c.stored = s.stored
  BY DEF ClearReady, Hosts
<1> HIDE DEF c
<1>3. /\ Sound(open) /\ Advertised(open) /\ open \in Hosts
      /\ open.holder = s.holder /\ open.matchID = s.matchID /\ open.stored = s.stored
      /\ open.phase = "open"
  BY <1>1, <1>2, Publishing, RefreshAdvertFields DEF SameCore
<1> HIDE DEF open
<1>4. /\ BuildRecord(s) \in Records /\ AttestTicks \in Nat
      /\ signed \in SUBSET SeatId
  BY DEF BuildRecord, Records, PlayerKeys, Hosts, Rosters, Holders
<1>5. e \in Hosts
  <2>1. e1 \in Hosts
    BY <1>3, <1>4, FieldUpdates
  <2> HIDE DEF e1
  <2>2. e2 \in Hosts
    BY <1>4, <2>1, FieldUpdates
  <2> HIDE DEF e2
  <2>3. e3 \in Hosts
    BY <1>4, <2>2, FieldUpdates
  <2> HIDE DEF e3
  <2> QED BY <2>3, NoSimType, FieldUpdates
<1>6. /\ e.holder = s.holder /\ e.phase = "open" /\ e.record = BuildRecord(s)
      /\ e.ready = open.ready /\ e.coasting = open.coasting /\ e.signed = signed
      /\ e.matchID = s.matchID /\ e.stored = s.stored
      /\ e.advert = open.advert /\ e.cfg = open.cfg
  BY <1>3 DEF Hosts
<1>7. EndMatch(s) = BroadcastLobby(e)
  <2>1. e = [open EXCEPT !.record = BuildRecord(s), !.attest = AttestTicks,
               !.signed = {i \in SeatId : s.holder[i] = HostKey}, !.sim = NoSim]
    BY <1>3 DEF Hosts
  <2> HIDE DEF e
  <2> QED BY <2>1 DEF EndMatch, open, c
<1> HIDE DEF e
<1>8. RosterPart(e)
  BY <1>3, <1>6 DEF Sound, Loose, RosterPart, Taken, Bots, People, Remotes
<1>9. WellSigned(BuildRecord(s)) /\ BuildRecord(s).match = s.matchID
      /\ HostKey \in BuildRecord(s).sigs
  BY DEF BuildRecord, WellSigned, Loose, FreshMatch, SeatId
<1>10. s.record.match \in Nat /\ s.matchID \in Nat /\ \A r \in s.stored : r.match \in Nat
  BY DEF Hosts, Records
<1>11. RecordPart(e)
  BY <1>6, <1>9, <1>10 DEF Loose, RecordPart, FreshMatch
<1>12. FreshMatch(e) /\ MatchPart(e)
  BY <1>6 DEF FreshMatch, MatchPart
<1>13. Advertised(e)
  BY <1>3, <1>6 DEF Advertised, AdvertOf, Taken, Bots
<1> QED BY <1>5, <1>7, <1>8, <1>11, <1>12, <1>13, Publishing DEF Sound, Loose

\* A game tick.
LEMMA TickGood ==
  ASSUME NEW s \in Hosts, Good(s), s.phase = "in_game", NEW dead \in SUBSET SeatId
  PROVE  LET stepped == [s EXCEPT !.sim = Eliminate(@, dead)]
         IN  Good(IF SimOver(stepped.sim) THEN EndMatch(stepped) ELSE stepped)
<1> DEFINE c == [s EXCEPT !.sim = Eliminate(s.sim, dead)]
<1>1. c \in Hosts
  <2>1. Eliminate(s.sim, dead) \in Sims
    BY DEF Hosts, Sims, Eliminate
  <2> QED BY <2>1, FieldUpdates
<1>2. /\ c.holder = s.holder /\ c.phase = s.phase /\ c.record = s.record
      /\ c.ready = s.ready /\ c.coasting = s.coasting /\ c.signed = s.signed
      /\ c.matchID = s.matchID /\ c.matchPlayers = s.matchPlayers
      /\ c.stored = s.stored /\ c.sim = Eliminate(s.sim, dead)
      /\ c.cfg = s.cfg /\ c.advert = s.advert /\ c.view = s.view
      /\ c.gen = s.gen /\ c.lastCount = s.lastCount
  BY DEF Hosts
<1>3. c = [s EXCEPT !.sim = Eliminate(@, dead)]
  BY DEF Hosts
<1> HIDE DEF c
<1>4. RosterPart(c) /\ RecordPart(c) /\ FreshMatch(c)
  BY <1>2 DEF Good, Sound, Loose, RosterPart, RecordPart, FreshMatch, Taken, Bots, People, Remotes
<1>5. MatchPart(c)
  BY <1>2 DEF Good, Sound, MatchPart, Eliminate, Hosts, Sims
<1>6. Advertised(c) /\ Announced(c)
  BY <1>2 DEF Good, Advertised, AdvertOf, Announced, LobbyState, Taken, Bots
<1>7. Good(c)
  BY <1>1, <1>4, <1>5, <1>6 DEF Good, Sound, Loose
<1>8. Good(EndMatch(c))
  BY <1>1, <1>2, <1>4, <1>6, EndMatchGood DEF Loose
<1> QED BY <1>3, <1>7, <1>8
-----------------------------------------------------------------------------
\* A message from a seat.
LEMMA HeardGood ==
  ASSUME NEW s \in Hosts, Good(s), NEW i \in Remotes(s)
  PROVE  /\ Heard(s, i) \in Hosts /\ Good(Heard(s, i))
         /\ Heard(s, i).holder = s.holder
<1> DEFINE silence == [s.silence EXCEPT ![i] = 0]
           f == [s EXCEPT !.silence = silence]
           g == [f EXCEPT !.coasting = s.coasting \ {i}]
           k == [g EXCEPT !.sim = Uncoast(s.sim, {i})]
<1> USE HostLobbyAssumption
<1>1. /\ silence \in [SeatId -> 0 .. DropTicks] /\ Uncoast(s.sim, {i}) \in Sims
      /\ s.coasting \ {i} \in SUBSET SeatId
  <2>1. s.silence \in [SeatId -> 0 .. DropTicks] /\ 0 \in 0 .. DropTicks
    BY DEF Hosts
  <2>2. s.sim \in Sims
    BY DEF Hosts
  <2>3. Uncoast(s.sim, {i}) \in Sims
    BY <2>2 DEF Uncoast, Sims
  <2> QED BY <2>1, <2>3 DEF Hosts
<1>2. f \in Hosts
  BY <1>1, FieldUpdates
<1>3. f = [s EXCEPT !.silence[i] = 0]
  BY DEF Hosts
<1>4. /\ f.holder = s.holder /\ f.phase = s.phase /\ f.record = s.record
      /\ f.ready = s.ready /\ f.coasting = s.coasting /\ f.signed = s.signed
      /\ f.matchID = s.matchID /\ f.matchPlayers = s.matchPlayers
      /\ f.stored = s.stored /\ f.sim = s.sim /\ f.cfg = s.cfg
      /\ f.advert = s.advert /\ f.view = s.view /\ f.gen = s.gen
      /\ f.lastCount = s.lastCount
  BY DEF Hosts
<1> HIDE DEF f
<1>5. k \in Hosts
  <2>1. g \in Hosts
    BY <1>1, <1>2, FieldUpdates
  <2> HIDE DEF g
  <2> QED BY <1>1, <2>1, FieldUpdates
<1>6. k = [f EXCEPT !.coasting = @ \ {i}, !.sim = Uncoast(@, {i})]
  BY <1>2, <1>4 DEF Hosts
<1>7. /\ k.holder = s.holder /\ k.phase = s.phase /\ k.record = s.record
      /\ k.ready = s.ready /\ k.coasting = s.coasting \ {i} /\ k.signed = s.signed
      /\ k.matchID = s.matchID /\ k.matchPlayers = s.matchPlayers
      /\ k.stored = s.stored /\ k.sim = Uncoast(s.sim, {i}) /\ k.cfg = s.cfg
      /\ k.advert = s.advert
  BY <1>2, <1>4 DEF Hosts
<1> HIDE DEF k
<1> USE DEF Taken, Bots, People, Remotes
<1>8. Good(f)
  <2>1. RosterPart(f) /\ RecordPart(f) /\ FreshMatch(f)
    BY <1>4 DEF Good, Sound, Loose, RosterPart, RecordPart, FreshMatch
  <2>2. MatchPart(f)
    BY <1>4 DEF Good, Sound, MatchPart
  <2>3. Advertised(f) /\ Announced(f)
    BY <1>4 DEF Good, Advertised, AdvertOf, Announced, LobbyState
  <2> QED BY <1>2, <2>1, <2>2, <2>3 DEF Good, Sound, Loose
<1>9. Sound(k) /\ Advertised(k)
  <2>1. RosterPart(k) /\ RecordPart(k) /\ FreshMatch(k)
    BY <1>7 DEF Good, Sound, Loose, RosterPart, RecordPart, FreshMatch
  <2>2. s.sim \in Sims
    BY DEF Hosts
  <2>3. s.phase = "countdown" => Uncoast(s.sim, {i}) = s.sim
    <3> SUFFICES ASSUME s.phase = "countdown"
                 PROVE  Uncoast(s.sim, {i}) = s.sim
      OBVIOUS
    <3>1. s.sim = [snakes |-> Taken(s), alive |-> Taken(s), coasting |-> {}]
      BY DEF Good, Sound, MatchPart, NewSim
    <3>2. {} \ {i} = {}
      OBVIOUS
    <3> HIDE DEF Taken
    <3>3. Uncoast([snakes |-> Taken(s), alive |-> Taken(s), coasting |-> {}], {i})
            = [snakes |-> Taken(s), alive |-> Taken(s), coasting |-> {} \ {i}]
      BY DEF Uncoast
    <3> QED BY <3>1, <3>2, <3>3
  <2>4. Uncoast(s.sim, {i}).snakes = s.sim.snakes /\ Uncoast(s.sim, {i}).alive = s.sim.alive
    BY <2>2 DEF Uncoast, Sims
  <2>5. MatchPart(k)
    <3>1. MatchPart(s)
      BY DEF Good, Sound
    <3> QED BY ONLY <1>7, <2>3, <2>4, <3>1 DEF MatchPart, Taken
  <2>6. Advertised(k)
    BY <1>7 DEF Good, Advertised, AdvertOf
  <2> QED BY <1>5, <2>1, <2>5, <2>6 DEF Sound, Loose
<1>10. Good(BroadcastLobby(k)) /\ BroadcastLobby(k) \in Hosts
       /\ BroadcastLobby(k).holder = s.holder
  BY <1>5, <1>7, <1>9, Publishing, BroadcastLobbyFields DEF SameCore
<1>11. Heard(s, i) = IF i \notin s.coasting THEN f ELSE BroadcastLobby(k)
  BY <1>3, <1>6 DEF Heard
<1> QED BY <1>2, <1>4, <1>8, <1>10, <1>11

\* setReady, from a client or the host.
LEMMA SetReadyGood ==
  ASSUME NEW s \in Hosts, Good(s), NEW i \in People(s), NEW ready \in BOOLEAN, NEW gen
  PROVE  Good(SetReady(s, i, ready, gen))
<1> DEFINE set == IF ready THEN s.ready \union {i} ELSE s.ready \ {i}
           c == [s EXCEPT !.ready = set]
<1> USE DEF Taken, Bots, People, Remotes
<1>1. set \in SUBSET SeatId
  BY DEF Hosts
<1>2. c \in Hosts
  <2> HIDE DEF set
  <2> QED BY <1>1, FieldUpdates
<1>3. /\ c.holder = s.holder /\ c.phase = s.phase /\ c.record = s.record
      /\ c.ready = set /\ c.coasting = s.coasting /\ c.signed = s.signed
      /\ c.matchID = s.matchID /\ c.matchPlayers = s.matchPlayers
      /\ c.stored = s.stored /\ c.sim = s.sim /\ c.cfg = s.cfg
      /\ c.advert = s.advert
  <2> HIDE DEF set
  <2> QED BY DEF Hosts
<1>4. c = [s EXCEPT !.ready = IF ready THEN @ \union {i} ELSE @ \ {i}]
  BY DEF Hosts
<1> HIDE DEF c
<1>5. RosterPart(c)
  BY <1>3 DEF Good, Sound, Loose, RosterPart
<1>6. RecordPart(c) /\ FreshMatch(c)
  BY <1>3 DEF Good, Sound, Loose, RecordPart, FreshMatch
<1>7. MatchPart(c)
  BY <1>3 DEF Good, Sound, MatchPart
<1>8. Advertised(c)
  BY <1>3 DEF Good, Advertised, AdvertOf
<1>9. Good(BroadcastLobby(c))
  BY <1>2, <1>5, <1>6, <1>7, <1>8, Publishing DEF Sound, Loose
<1>10. Good(BroadcastLobby(s))
  BY Publishing DEF Good
<1> QED BY <1>4, <1>9, <1>10 DEF SetReady

\* addAttestation accepts only the seat's own key and only from a player.
LEMMA AddAttestationGood ==
  ASSUME NEW s \in Hosts, Good(s), NEW i \in Remotes(s), NEW match, NEW key \in Keys
  PROVE  Good(AddAttestation(s, i, match, key))
<1> DEFINE valid == /\ s.record # NoRecord /\ match = s.record.match
                    /\ key = s.holder[i] /\ key \in s.record.participants
           record == Sign(s.record, key)
           signed == s.signed \union {i}
           a == [s EXCEPT !.record = record]
           c == [a EXCEPT !.signed = signed]
<1> USE HostLobbyAssumption
<1>1. record \in Records /\ signed \in SUBSET SeatId
  BY DEF Hosts, Records, PlayerKeys, Remotes, Sign
<1>2. record.match = s.record.match /\ record.participants = s.record.participants
      /\ record.sigs = s.record.sigs \union {key}
  BY DEF Hosts, Records, Sign
<1>3. c \in Hosts
  <2> HIDE DEF record, signed
  <2>1. a \in Hosts
    BY <1>1, FieldUpdates
  <2> HIDE DEF a
  <2> QED BY <1>1, <2>1, FieldUpdates
<1>4. /\ c.holder = s.holder /\ c.phase = s.phase /\ c.record = record
      /\ c.ready = s.ready /\ c.coasting = s.coasting /\ c.signed = signed
      /\ c.matchID = s.matchID /\ c.matchPlayers = s.matchPlayers
      /\ c.stored = s.stored /\ c.sim = s.sim /\ c.cfg = s.cfg
      /\ c.advert = s.advert /\ c.view = s.view /\ c.gen = s.gen
      /\ c.lastCount = s.lastCount
  <2> HIDE DEF record, signed
  <2> QED BY DEF Hosts
<1>5. c = [s EXCEPT !.record = Sign(@, key), !.signed = @ \union {i}]
  BY DEF Hosts
<1> HIDE DEF c, record
<1> USE DEF Taken, Bots, People, Remotes
<1>6. RosterPart(c)
  BY <1>4 DEF Good, Sound, Loose, RosterPart
<1>7. valid => RecordPart(c)
  <2> SUFFICES ASSUME valid PROVE RecordPart(c)
    OBVIOUS
  <2>1. s.record # NoRecord => WellSigned(record) /\ record.match > 0
    BY <1>2 DEF Good, Sound, Loose, RecordPart, WellSigned
  <2>2. \A j \in signed : s.holder[j] \in record.sigs
    BY <1>2 DEF Good, Sound, Loose, RecordPart
  <2> QED BY <1>2, <1>4, <2>1, <2>2 DEF Good, Sound, Loose, RecordPart
<1>8. FreshMatch(c)
  BY <1>2, <1>4 DEF Good, Sound, Loose, FreshMatch
<1>9. MatchPart(c) /\ Advertised(c) /\ Announced(c)
  BY <1>4 DEF Good, Sound, MatchPart, Advertised, AdvertOf, Announced, LobbyState
<1>10. valid => Good(c)
  BY <1>3, <1>6, <1>7, <1>8, <1>9 DEF Good, Sound, Loose
<1>11. AddAttestation(s, i, match, key) = IF valid THEN c ELSE s
  BY <1>5 DEF AddAttestation
<1> QED BY <1>10, <1>11
\* There is at most one lowest free seat.
LEMMA LowestOne ==
  ASSUME NEW S \in SUBSET SeatId, NEW i \in Lowest(S, 1), NEW j \in Lowest(S, 1)
  PROVE  i = j
<1> USE HostLobbyAssumption
<1>1. \A k \in SeatId : {m \in S : m < k} = {} \/ ~ Cardinality({m \in S : m < k}) < 1
  <2> TAKE k \in SeatId
  <2> DEFINE T == {m \in S : m < k}
  <2>1. IsFiniteSet(T)
    <3>1. IsFiniteSet(SeatId)
      BY FS_Interval DEF SeatId
    <3>2. T \in SUBSET SeatId
      OBVIOUS
    <3> HIDE DEF T
    <3> QED BY <3>1, <3>2, FS_Subset
  <2> HIDE DEF T
  <2>2. Cardinality(T) \in Nat /\ (Cardinality(T) = 0 => T = {})
    BY <2>1, FS_CardinalityType, FS_EmptySet
  <2>3. T = {} \/ ~ Cardinality(T) < 1
    BY <2>2
  <2> QED BY <2>3 DEF T
<1>2. i \in S /\ j \in S /\ {m \in S : m < i} = {} /\ {m \in S : m < j} = {}
  BY <1>1 DEF Lowest
<1> QED BY <1>2 DEF SeatId

\* allocate refuses an install that is seated and everybody during a match.
LEMMA AllocateGood ==
  ASSUME NEW s \in Hosts, Good(s), NEW key \in Keys
  PROVE  Good(Allocate(s, key))
<1> DEFINE holder == [i \in SeatId |-> IF i \in FreeSeat(s) THEN key ELSE s.holder[i]]
           c == [s EXCEPT !.holder = holder]
           refused == \/ s.phase \in {"countdown", "in_game"}
                      \/ Cardinality(Taken(s)) >= s.cfg.max
                      \/ \E i \in SeatId : s.holder[i] = key
<1> USE HostLobbyAssumption
<1>1. holder \in Rosters
  BY DEF Hosts, Rosters, Holders
<1>2. c \in Hosts
  <2> HIDE DEF holder
  <2> QED BY <1>1, FieldUpdates
<1>3. /\ c.holder = holder /\ c.phase = s.phase /\ c.record = s.record
      /\ c.ready = s.ready /\ c.coasting = s.coasting /\ c.signed = s.signed
      /\ c.matchID = s.matchID /\ c.matchPlayers = s.matchPlayers
      /\ c.stored = s.stored /\ c.sim = s.sim
  <2> HIDE DEF holder
  <2> QED BY DEF Hosts
<1>4. FreeSeat(s) \subseteq SeatId \ Taken(s) /\ \A i, j \in FreeSeat(s) : i = j
  <2>1. SeatId \ Taken(s) \in SUBSET SeatId
    OBVIOUS
  <2> QED BY <2>1, LowestOne DEF FreeSeat, Lowest
<1>5. c = [s EXCEPT !.holder = [i \in SeatId |-> IF i \in FreeSeat(s) THEN key ELSE @[i]]]
  BY DEF Hosts
<1> HIDE DEF c
<1>6. SUFFICES ASSUME ~ refused PROVE Good(BroadcastLobby(RefreshAdvert(c)))
  BY <1>5 DEF Allocate
<1>7. RosterPart(c)
  <2>1. \A i \in SeatId : i \in FreeSeat(s) => s.holder[i] = Nobody
    BY <1>4 DEF Taken
  <2>2. \A i \in SeatId : s.holder[i] # key
    BY <1>6
  <2>3. \A i \in SeatId : c.holder[i] = IF i \in FreeSeat(s) THEN key ELSE s.holder[i]
    BY <1>3
  <2>4. \A i, j \in SeatId : c.holder[i] = c.holder[j] /\ c.holder[i] \in Keys => i = j
    BY <1>4, <2>1, <2>2, <2>3 DEF Good, Sound, Loose, RosterPart
  <2>5. \A i \in SeatId : c.holder[i] = HostKey <=> i = 0
    BY <2>1, <2>3 DEF Good, Sound, Loose, RosterPart
  <2>6. Bots(c) = Bots(s) /\ Taken(s) \subseteq Taken(c) /\ People(s) \subseteq People(c)
        /\ Remotes(s) \subseteq Remotes(c)
    BY <2>1, <2>3 DEF Bots, Taken, People, Remotes
  <2> QED BY <1>3, <2>4, <2>5, <2>6 DEF Good, Sound, Loose, RosterPart
<1>8. \A i \in s.signed : c.holder[i] = s.holder[i]
  BY <1>3, <1>4 DEF Good, Sound, Loose, RosterPart, People, Taken
<1>9. RecordPart(c)
  BY <1>3, <1>8 DEF Good, Sound, Loose, RecordPart
<1>10. FreshMatch(c) /\ MatchPart(c)
  BY <1>3, <1>6 DEF FreshMatch, MatchPart
<1> QED BY <1>2, <1>7, <1>9, <1>10, Publishing DEF Sound, Loose

\* syncBots on an open lobby.
LEMMA SyncBotsSound ==
  ASSUME NEW s \in Hosts, Sound(s), s.phase = "open"
  PROVE  /\ SyncBots(s) \in Hosts /\ Sound(SyncBots(s)) /\ SyncBots(s).phase = "open"
<1> DEFINE surplus == Bots(s) \ Lowest(Bots(s), s.cfg.bots)
           kept == RemoveSeats(s, surplus)
           need == s.cfg.bots - Cardinality(Bots(kept))
           room == kept.cfg.max - Cardinality(Taken(kept))
           new == Lowest(SeatId \ Taken(kept), IF need < room THEN need ELSE room)
           holder == [i \in SeatId |-> IF i \in new THEN Bot ELSE kept.holder[i]]
           a == [kept EXCEPT !.holder = holder]
           c == [a EXCEPT !.ready = kept.ready \union new]
<1> USE HostLobbyAssumption
<1>1. kept \in Hosts /\ Sound(kept) /\ kept.phase = "open"
  <2>1. surplus \in SUBSET SeatId
    BY DEF Bots
  <2> HIDE DEF surplus
  <2> QED BY <2>1, RemoveSeatsGood
<1>2. new \subseteq SeatId \ Taken(kept)
  BY DEF Lowest
<1>3. SyncBots(s) = [kept EXCEPT
        !.holder = [i \in SeatId |-> IF i \in new THEN Bot ELSE @[i]],
        !.ready = @ \union new]
  BY DEF SyncBots
<1> HIDE DEF kept, new
<1>4. holder \in Rosters /\ kept.ready \union new \in SUBSET SeatId
  BY <1>1, <1>2 DEF Hosts, Rosters, Holders
<1>5. SyncBots(s) = c
  BY <1>1, <1>3 DEF Hosts
<1>6. c \in Hosts
  <2> HIDE DEF holder
  <2>1. a \in Hosts
    BY <1>1, <1>4, FieldUpdates
  <2> HIDE DEF a
  <2> QED BY <1>4, <2>1, FieldUpdates
<1>7. /\ c.holder = holder /\ c.phase = "open" /\ c.record = kept.record
      /\ c.ready = kept.ready \union new /\ c.coasting = kept.coasting
      /\ c.signed = kept.signed /\ c.matchID = kept.matchID
      /\ c.stored = kept.stored
  <2> HIDE DEF holder
  <2> QED BY <1>1 DEF Hosts
<1> HIDE DEF c
<1>8. \A i \in new : kept.holder[i] = Nobody
  BY <1>2 DEF Taken
<1>9. RosterPart(c)
  BY <1>1, <1>2, <1>7, <1>8 DEF Sound, Loose, RosterPart, Taken, Bots, People, Remotes
<1>10. \A i \in kept.signed : c.holder[i] = kept.holder[i]
  BY <1>1, <1>2, <1>7 DEF Sound, Loose, RosterPart, People, Taken
<1>11. RecordPart(c)
  BY <1>1, <1>7, <1>10 DEF Sound, Loose, RecordPart
<1> QED BY <1>5, <1>6, <1>7, <1>9, <1>11 DEF Sound, Loose, FreshMatch, MatchPart
\* Reconfigure: the clamped settings are valid and the lobby ends up open.
LEMMA ApplySettingsGood ==
  ASSUME NEW s \in Hosts, Good(s), NEW c \in ValidConfigs
  PROVE  Good(ApplySettings(s, c))
<1> DEFINE people == Cardinality(People(s))
           max == IF c.max < people THEN people ELSE c.max
           cfg == [max |-> max, bots |-> IF c.bots > max - 1 THEN max - 1 ELSE c.bots]
           a == [s EXCEPT !.cfg = cfg]
           b == [a EXCEPT !.gen = s.gen + 1]
           r == ClearReady([b EXCEPT !.phase = "open"])
           k == SyncBots(r)
           d == DropSeatsBeyondCapacity(k)
<1> USE HostLobbyAssumption
<1>1. people \in 0 .. NumSeats
  <2>1. IsFiniteSet(SeatId) /\ Cardinality(SeatId) = NumSeats
    BY FS_Interval DEF SeatId
  <2>2. People(s) \in SUBSET SeatId
    BY DEF People, Taken
  <2>3. IsFiniteSet(People(s)) /\ people <= Cardinality(SeatId)
    BY <2>1, <2>2, FS_Subset
  <2>4. people \in Nat
    BY <2>3, FS_CardinalityType
  <2> HIDE DEF people
  <2> QED BY <2>1, <2>3, <2>4
<1>2. cfg \in ValidConfigs
  <2> HIDE DEF people
  <2> QED BY <1>1 DEF ValidConfigs
<1>3. a \in Hosts /\ s.gen + 1 \in Nat
  <2>1. s.gen + 1 \in Nat
    BY DEF Hosts
  <2> HIDE DEF cfg
  <2> QED BY <1>2, <2>1, FieldUpdates
<1>4. b \in Hosts
  <2> HIDE DEF a
  <2> QED BY <1>3, FieldUpdates
<1>5. /\ b.holder = s.holder /\ b.phase = s.phase /\ b.record = s.record
      /\ b.ready = s.ready /\ b.coasting = s.coasting /\ b.signed = s.signed
      /\ b.matchID = s.matchID /\ b.matchPlayers = s.matchPlayers
      /\ b.stored = s.stored /\ b.sim = s.sim
  <2> HIDE DEF cfg
  <2> QED BY DEF Hosts
<1>6. [b EXCEPT !.phase = "open"] = [s EXCEPT !.cfg = cfg, !.gen = @ + 1, !.phase = "open"]
  <2> HIDE DEF cfg
  <2> QED BY DEF Hosts
<1>7. ApplySettings(s, c) =
        IF s.phase \notin {"open", "countdown"} THEN BroadcastLobby(s)
        ELSE BroadcastLobby(RefreshAdvert(d))
  BY <1>6 DEF ApplySettings
<1> HIDE DEF b
<1>8. Loose(b)
  BY <1>4, <1>5 DEF Good, Sound, Loose, RosterPart, RecordPart, FreshMatch, Taken, Bots, People, Remotes
<1>9. r \in Hosts /\ Sound(r) /\ r.phase = "open"
  BY <1>4, <1>8, ReopenKeepingSim
<1> HIDE DEF r
<1>10. k \in Hosts /\ Sound(k)
  BY <1>9, SyncBotsSound
<1> HIDE DEF k
<1>11. d \in Hosts /\ Sound(d)
  <2>1. Taken(k) \ Lowest(Taken(k), k.cfg.max) \in SUBSET SeatId
    BY DEF Taken
  <2> QED BY <1>10, <2>1, RemoveSeatsGood DEF DropSeatsBeyondCapacity
<1> HIDE DEF d
<1>12. Good(BroadcastLobby(RefreshAdvert(d))) /\ Good(BroadcastLobby(s))
  BY <1>11, Publishing DEF Good
<1> QED BY <1>7, <1>12

\* newHost.
LEMMA InitHostGood ==
  ASSUME NEW c \in Configs
  PROVE  InitHost(c) \in Hosts /\ Good(InitHost(c))
<1> DEFINE holder == [i \in SeatId |-> IF i = 0 THEN HostKey ELSE Nobody]
           nobody == [i \in SeatId |-> Nobody]
           silence == [i \in SeatId |-> 0]
           advert == [cfg |-> c, phase |-> "open", taken |-> {}, bots |-> {}]
           view == [phase |-> "open", gen |-> 0, cfg |-> c, holder |-> nobody,
                    ready |-> {}, connected |-> {}, countdown |-> 0]
           empty == [phase |-> "open", holder |-> holder,
                ready |-> {}, coasting |-> {}, signed |-> {},
                silence |-> silence, cfg |-> c, gen |-> 0,
                sim |-> NoSim, matchPlayers |-> nobody,
                matchID |-> 0, countdown |-> 0, lastCount |-> 0,
                record |-> NoRecord, attest |-> 0, stored |-> {},
                advert |-> advert, view |-> view]
<1> USE HostLobbyAssumption
<1>1. c \in ValidConfigs
  OBVIOUS
<1>2. holder \in Rosters /\ nobody \in Rosters /\ silence \in [SeatId -> 0 .. DropTicks]
  BY DEF Rosters, Holders
<1>3. NoSim \in Sims /\ NoRecord \in Records /\ "open" \in Phases
  BY DEF NoSim, Sims, NoRecord, Records, Phases
<1>4. advert \in Adverts /\ view \in Views
  <2> HIDE DEF nobody
  <2> QED BY <1>1, <1>2, <1>3 DEF Adverts, Views
<1>5. empty \in Hosts
  <2> HIDE DEF holder, nobody, silence, advert, view
  <2> QED BY <1>1, <1>2, <1>3, <1>4 DEF Hosts
<1>6. /\ empty.holder = holder /\ empty.phase = "open" /\ empty.record = NoRecord
      /\ empty.ready = {} /\ empty.coasting = {} /\ empty.signed = {}
      /\ empty.matchID = 0 /\ empty.stored = {}
  <2> HIDE DEF holder, nobody, silence, advert, view
  <2> QED OBVIOUS
<1>7. InitHost(c) = BroadcastLobby(RefreshAdvert(SyncBots(empty)))
  BY DEF InitHost
<1> HIDE DEF empty
<1>8. RosterPart(empty)
  BY <1>6 DEF RosterPart, Taken, Bots, People, Remotes
<1>9. RecordPart(empty)
  BY <1>6 DEF RecordPart, NoRecord
<1>10. Sound(empty)
  BY <1>5, <1>6, <1>8, <1>9 DEF Sound, Loose, FreshMatch, MatchPart
<1>11. SyncBots(empty) \in Hosts /\ Sound(SyncBots(empty))
  BY <1>5, <1>6, <1>10, SyncBotsSound
<1>12. Good(BroadcastLobby(RefreshAdvert(SyncBots(empty))))
  BY <1>11, Publishing
<1> QED BY <1>7, <1>12 DEF Good, Sound, Loose
-----------------------------------------------------------------------------
\* The value a unit of time turns s into.
ElapsedFrom(s) ==
  [s EXCEPT
     !.silence = [i \in SeatId |-> IF i \in Remotes(s) /\ @[i] < DropTicks
                                   THEN @[i] + 1 ELSE @[i]],
     !.countdown = IF @ > 0 THEN @ - 1 ELSE @,
     !.attest = IF @ > 0 THEN @ - 1 ELSE @]

\* Time disturbs nothing that is published or recorded.
LEMMA ElapseGood ==
  ASSUME NEW s \in Hosts, Good(s)
  PROVE  Good(ElapsedFrom(s))
<1> DEFINE silence == [i \in SeatId |-> IF i \in Remotes(s) /\ s.silence[i] < DropTicks
                                        THEN s.silence[i] + 1 ELSE s.silence[i]]
           countdown == IF s.countdown > 0 THEN s.countdown - 1 ELSE s.countdown
           attest == IF s.attest > 0 THEN s.attest - 1 ELSE s.attest
           a == [s EXCEPT !.silence = silence]
           b == [a EXCEPT !.countdown = countdown]
           c == [b EXCEPT !.attest = attest]
<1> USE HostLobbyAssumption
<1>1. silence \in [SeatId -> 0 .. DropTicks] /\ countdown \in Nat /\ attest \in Nat
  BY DEF Hosts
<1>2. c = ElapsedFrom(s)
  BY DEF Hosts, ElapsedFrom
<1> HIDE DEF silence, countdown, attest
<1>3. /\ c.holder = s.holder /\ c.phase = s.phase /\ c.record = s.record
      /\ c.ready = s.ready /\ c.coasting = s.coasting /\ c.signed = s.signed
      /\ c.matchID = s.matchID /\ c.matchPlayers = s.matchPlayers
      /\ c.stored = s.stored /\ c.sim = s.sim /\ c.cfg = s.cfg
      /\ c.advert = s.advert /\ c.view = s.view /\ c.gen = s.gen
      /\ c.lastCount = s.lastCount
  BY DEF Hosts
<1>4. c \in Hosts
  <2>1. a \in Hosts
    BY <1>1, FieldUpdates
  <2> HIDE DEF a
  <2>2. b \in Hosts
    BY <1>1, <2>1, FieldUpdates
  <2> HIDE DEF b
  <2> QED BY <1>1, <2>2, FieldUpdates
<1> HIDE DEF c
<1> USE DEF Taken, Bots, People, Remotes
<1>5. RosterPart(c) /\ RecordPart(c) /\ FreshMatch(c)
  BY <1>3 DEF Good, Sound, Loose, RosterPart, RecordPart, FreshMatch
<1>6. MatchPart(c)
  BY <1>3 DEF Good, Sound, MatchPart
<1>7. Advertised(c) /\ Announced(c)
  BY <1>3 DEF Good, Advertised, AdvertOf, Announced, LobbyState
<1> QED BY <1>2, <1>4, <1>5, <1>6, <1>7 DEF Good, Sound, Loose

\* The shutdown publishes the closed phase to probers only.
LEMMA ShutdownSound ==
  ASSUME NEW s \in Hosts, Good(s)
  PROVE  LET c == RefreshAdvert([s EXCEPT !.phase = "closed"])
         IN  Sound(c) /\ Advertised(c) /\ c.phase = "closed"
<1> DEFINE c == [s EXCEPT !.phase = "closed"]
<1>1. c \in Hosts
  BY FieldUpdates DEF Phases
<1>2. /\ c.holder = s.holder /\ c.phase = "closed" /\ c.record = s.record
      /\ c.ready = s.ready /\ c.coasting = s.coasting /\ c.signed = s.signed
      /\ c.matchID = s.matchID /\ c.stored = s.stored
  BY DEF Hosts
<1> HIDE DEF c
<1>3. RosterPart(c) /\ RecordPart(c) /\ FreshMatch(c)
  BY <1>2 DEF Good, Sound, Loose, RosterPart, RecordPart, FreshMatch, Taken, Bots, People, Remotes
<1>4. Sound(c)
  BY <1>1, <1>2, <1>3 DEF Sound, Loose, MatchPart
<1>5. Sound(RefreshAdvert(c)) /\ Advertised(RefreshAdvert(c)) /\ RefreshAdvert(c).phase = "closed"
  BY <1>1, <1>2, <1>4, Publishing, RefreshAdvertFields DEF SameCore
<1> QED BY <1>5 DEF c
-----------------------------------------------------------------------------
\* The inductive invariant.
IInv == Sound(h) /\ Advertised(h) /\ (Running => Announced(h))

\* A new host satisfies it.
LEMMA InitIInv == Init => IInv
BY InitHostGood DEF Init, IInv, Good

\* Every handler keeps it.
LEMMA NextIInv == IInv /\ [Next]_h => IInv'
<1> USE HostLobbyAssumption
<1> SUFFICES ASSUME IInv, [Next]_h
             PROVE  IInv'
  OBVIOUS
<1>1. h \in Hosts /\ Sound(h)
  BY DEF IInv, Sound, Loose
<1>2. Running => Good(h)
  BY DEF IInv, Good
<1>3. ASSUME Good(h') PROVE IInv'
  BY <1>3 DEF IInv, Good
<1>4. CASE Housekeeping
  BY <1>1, <1>2, <1>3, <1>4, HousekeepingGood DEF Housekeeping
<1>5. ASSUME NEW dead \in SUBSET h.sim.alive, Tick(dead) PROVE IInv'
  <2>1. dead \in SUBSET SeatId
    BY <1>1 DEF Hosts, Sims
  <2>2. Good(h) /\ h.phase = "in_game"
    BY <1>2, <1>5 DEF Tick, Running
  <2> QED BY <1>1, <1>3, <1>5, <2>1, <2>2, TickGood DEF Tick
<1>6. ASSUME NEW key \in Keys, Join(key) PROVE IInv'
  BY <1>1, <1>2, <1>3, <1>6, AllocateGood DEF Join
<1>7. ASSUME NEW i \in SeatId, FromClient(i) PROVE IInv'
  <2>1. Running /\ i \in Remotes(h)
    BY <1>7 DEF FromClient, ClientReady, ClientAttestation, ClientLeave, ClientPing, Disconnect
  <2> DEFINE s == Heard(h, i)
  <2>2. Good(h) /\ Good(s) /\ s \in Hosts /\ s.holder = h.holder
    BY <1>1, <1>2, <2>1, HeardGood
  <2> HIDE DEF s
  <2>3. i \in People(h) /\ i \in Remotes(s) /\ i \in People(s)
    BY <2>1, <2>2 DEF Remotes, People, Taken, Bots
  <2>4. ASSUME NEW ready \in BOOLEAN, NEW gen \in 0 .. h.gen, ClientReady(i, ready, gen)
        PROVE  IInv'
    BY <1>3, <2>2, <2>3, <2>4, SetReadyGood DEF ClientReady, s
  <2>5. ASSUME NEW match \in 1 .. h.matchID, NEW key \in Keys, ClientAttestation(i, match, key)
        PROVE  IInv'
    BY <1>3, <2>2, <2>3, <2>5, AddAttestationGood DEF ClientAttestation, s
  <2>6. CASE ClientLeave(i)
    <3>1. Good(BroadcastLobby(RemoveSeats(s, {i})))
      BY <2>2, RemoveSeatsGood, Publishing DEF Good
    <3> QED BY <1>3, <2>6, <3>1 DEF ClientLeave, s
  <2>7. CASE ClientPing(i)
    BY <1>3, <2>2, <2>7 DEF ClientPing, s
  <2>8. CASE Disconnect(i)
    <3>1. Good(BroadcastLobby(RemoveSeats(h, {i})))
      BY <1>1, <2>2, RemoveSeatsGood, Publishing DEF Good
    <3> QED BY <1>3, <2>8, <3>1 DEF Disconnect
  <2> QED BY <1>7, <2>4, <2>5, <2>6, <2>7, <2>8 DEF FromClient
<1>8. CASE FromHostPlayer
  <2>1. ASSUME NEW ready \in BOOLEAN, HostReady(ready) PROVE IInv'
    <3>1. Good(h) /\ 0 \in People(h)
      <4>1. Running
        BY <2>1 DEF HostReady
      <4>2. 0 \in SeatId /\ h.holder[0] = HostKey
        BY <1>1 DEF Sound, Loose, RosterPart, SeatId
      <4> QED BY <1>2, <4>1, <4>2 DEF People, Taken, Bots
    <3> QED BY <1>1, <1>3, <2>1, <3>1, SetReadyGood DEF HostReady
  <2>2. ASSUME NEW i \in SeatId, Kick(i) PROVE IInv'
    <3>1. Good(h)
      BY <1>2, <2>2 DEF Kick
    <3>2. Good(BroadcastLobby(RemoveSeats(h, {i})))
      BY <1>1, <3>1, RemoveSeatsGood, Publishing DEF Good
    <3> QED BY <1>3, <2>2, <3>2 DEF Kick
  <2>3. ASSUME NEW c \in Configs, Reconfigure(c) PROVE IInv'
    BY <1>1, <1>2, <1>3, <2>3, ApplySettingsGood DEF Reconfigure
  <2>4. CASE Shutdown
    <3>1. Good(h)
      BY <1>2, <2>4 DEF Shutdown
    <3> QED BY <1>1, <2>4, <3>1, ShutdownSound DEF Shutdown, IInv, Running
  <2> QED BY <1>8, <2>1, <2>2, <2>3, <2>4 DEF FromHostPlayer
<1>9. CASE Elapse
  <2>1. Good(h) /\ h' = ElapsedFrom(h)
    BY <1>2, <1>9 DEF Elapse, ElapsedFrom
  <2> QED BY <1>1, <1>3, <2>1, ElapseGood
<1>10. CASE UNCHANGED h
  BY <1>10 DEF IInv, Running
<1> QED BY <1>4, <1>5, <1>6, <1>7, <1>8, <1>9, <1>10 DEF Next

\* So it always holds.
LEMMA Invariant == Spec => []IInv
BY InitIInv, NextIInv, PTL DEF Spec
-----------------------------------------------------------------------------
\* Every value of the Host struct the loop can reach has its type, and ready,
\* signed and disconnected flags belong to seats that are taken.
THEOREM TypeCorrect == Spec => []TypeOK
<1>1. IInv => TypeOK
  BY DEF IInv, Sound, Loose, RosterPart, TypeOK, FlagsFollowSeats
<1> QED BY <1>1, Invariant, PTL

\* Joining, kicking, resizing and timing out keep the host in seat 0 and every
\* install in at most one seat.
THEOREM RosterCorrect == Spec => []RosterSound
<1>1. IInv => RosterSound
  BY DEF IInv, Sound, Loose, RosterPart, RosterSound, HostSeated, OneSeatPerKey
<1> QED BY <1>1, Invariant, PTL

\* While the lobby counts down, nobody's seat differs from the board on screen.
THEOREM KickoffCorrect == Spec => []KickoffAgreed
<1>1. IInv => KickoffAgreed
  BY DEF IInv, Sound, MatchPart, KickoffAgreed
<1> QED BY <1>1, Invariant, PTL

\* During a match a living snake's seat is held by the player it started with.
THEOREM ForfeitCorrect == Spec => []LeaversForfeit
<1>1. IInv => LeaversForfeit
  BY DEF IInv, Sound, MatchPart, LeaversForfeit
<1> QED BY <1>1, Invariant, PTL

\* No record is stored, or held open, without the host's signature or with one
\* from a key that did not play, and the store never receives two versions of
\* one match.
THEOREM RecordsCorrect == Spec => []RecordsSound
<1>1. IInv => RecordsSound
  BY DEF IInv, Sound, Loose, RecordPart, RecordsSound, OneRecordPerMatch
<1> QED BY <1>1, Invariant, PTL

\* What closes attestation early is signatures on the pending record.
THEOREM SignaturesCorrect == Spec => []SignedMeansSigned
<1>1. IInv => SignedMeansSigned
  BY DEF IInv, Sound, Loose, RecordPart, SignedMeansSigned
<1> QED BY <1>1, Invariant, PTL

\* No handler leaves the players with a roster other than the lobby's.
THEOREM RosterAlwaysPublished == Spec => []RosterPublished
<1>1. IInv => RosterPublished
  BY DEF IInv, Announced, RosterPublished
<1> QED BY <1>1, Invariant, PTL

\* No handler leaves probers with an advert other than the lobby's.
THEOREM AdvertAlwaysPublished == Spec => []AdvertPublished
<1>1. IInv => AdvertPublished
  BY DEF IInv, Advertised, AdvertPublished
<1> QED BY <1>1, Invariant, PTL

\* Both at once: a handler that changes the lobby publishes it to everybody.
THEOREM ViewsAlwaysCurrent == Spec => []ViewsCurrent
  BY RosterAlwaysPublished, AdvertAlwaysPublished, PTL DEF ViewsCurrent
-----------------------------------------------------------------------------
(***************************************************************************)
(* The loop implements MatchCycle.                                         *)
(*                                                                         *)
(* A handler calls several operators, each of which publishes, reopens or  *)
(* clears as it goes, and is one step of the promise.  So there is again   *)
(* one lemma per operator, which says what it does to the fields that the  *)
(* promise is about; the lemmas about handlers put them together.  That a  *)
(* record closed early is signed by everybody present, and that a lobby    *)
(* just reopened cannot start counting down in the same pass, come from    *)
(* the inductive invariant.                                                *)
(***************************************************************************)
HostFields ==
  {"phase", "holder", "ready", "coasting", "signed", "silence", "cfg", "gen", "sim",
   "matchPlayers", "matchID", "countdown", "lastCount", "record", "attest", "stored",
   "advert", "view"}

\* The match on the board and the records.
SameRecords(t, s) ==
  /\ t.record = s.record /\ t.attest = s.attest /\ t.stored = s.stored
SameMatch(t, s) ==
  /\ t.matchPlayers = s.matchPlayers /\ t.matchID = s.matchID /\ SameRecords(t, s)

\* Everything the promise is about.
SamePromise(t, s) ==
  /\ t.phase = s.phase /\ t.holder = s.holder /\ t.ready = s.ready /\ t.cfg = s.cfg
  /\ SameMatch(t, s)

\* What reopening a lobby leaves alone.
Reopened(t, s) ==
  /\ t.phase = "open" /\ t.holder = s.holder /\ t.ready = Bots(s) /\ t.cfg = s.cfg
  /\ SameMatch(t, s)

Emptied(t, s) == \A i \in SeatId : t.holder[i] \in {s.holder[i], Nobody}

\* A Host struct keeps its fields.
LEMMA HasFields == ASSUME NEW s \in Hosts PROVE DOMAIN s = HostFields
BY DEF Hosts, HostFields

\* Publishing changes nothing the promise is about.
LEMMA PublishingKeeps ==
  ASSUME NEW s, DOMAIN s = HostFields
  PROVE  /\ DOMAIN RefreshAdvert(s) = HostFields /\ SamePromise(RefreshAdvert(s), s)
         /\ DOMAIN BroadcastLobby(s) = HostFields /\ SamePromise(BroadcastLobby(s), s)
BY DEF RefreshAdvert, BroadcastLobby, SamePromise, SameMatch, SameRecords, HostFields

\* abortCountdown, and resetAfterMatch, reopen the lobby.
LEMMA Reopening ==
  ASSUME NEW s, DOMAIN s = HostFields
  PROVE  /\ DOMAIN AbortCountdown(s) = HostFields /\ Reopened(AbortCountdown(s), s)
         /\ DOMAIN ResetAfterMatch(s) = HostFields /\ Reopened(ResetAfterMatch(s), s)
<1> DEFINE a == ClearReady([s EXCEPT !.sim = NoSim, !.phase = "open"])
           r == ClearReady([s EXCEPT !.phase = "open"])
<1>1. DOMAIN a = HostFields /\ Reopened(a, s)
  BY DEF ClearReady, Reopened, SameMatch, SameRecords, HostFields, Bots
<1>2. DOMAIN r = HostFields /\ Reopened(r, s)
  BY DEF ClearReady, Reopened, SameMatch, SameRecords, HostFields, Bots
<1> HIDE DEF a, r
<1>3. /\ DOMAIN BroadcastLobby(RefreshAdvert(a)) = HostFields
      /\ SamePromise(BroadcastLobby(RefreshAdvert(a)), a)
  BY <1>1, PublishingKeeps DEF SamePromise, SameMatch, SameRecords
<1>4. /\ DOMAIN BroadcastLobby(RefreshAdvert(r)) = HostFields
      /\ SamePromise(BroadcastLobby(RefreshAdvert(r)), r)
  BY <1>2, PublishingKeeps DEF SamePromise, SameMatch, SameRecords
<1> QED
  BY <1>1, <1>2, <1>3, <1>4
  DEF AbortCountdown, ResetAfterMatch, a, r, Reopened, SamePromise, SameMatch, SameRecords
\* removeSeat only empties seats, and nobody is counted down without them.
Thinned(t, s) ==
  /\ t.cfg = s.cfg /\ SameMatch(t, s) /\ Emptied(t, s)
  /\ \/ t.phase = s.phase /\ (s.phase = "countdown" => t.holder = s.holder /\ t.ready = s.ready)
     \/ s.phase = "countdown" /\ t.phase = "open" /\ t.ready = Bots(t)

LEMMA RemovingSeats ==
  ASSUME NEW s, DOMAIN s = HostFields, s.holder \in Rosters, NEW S \in SUBSET SeatId
  PROVE  DOMAIN RemoveSeats(s, S) = HostFields /\ Thinned(RemoveSeats(s, S), s)
<1> DEFINE gone == {i \in S : s.holder[i] \notin {HostKey, Nobody}}
           holder == [i \in SeatId |-> IF i \in gone THEN Nobody ELSE s.holder[i]]
           c == [s EXCEPT !.holder = [i \in SeatId |-> IF i \in gone THEN Nobody ELSE @[i]],
                  !.ready = @ \ gone, !.coasting = @ \ gone, !.signed = @ \ gone,
                  !.silence = [i \in SeatId |-> IF i \in gone THEN 0 ELSE @[i]],
                  !.sim = IF s.phase = "in_game" THEN Eliminate(@, gone) ELSE @]
           left == RefreshAdvert(c)
<1>1. DOMAIN c = HostFields /\ c.holder = holder /\ c.phase = s.phase /\ c.cfg = s.cfg
      /\ SameMatch(c, s)
  <2> HIDE DEF gone
  <2> QED BY DEF SameMatch, SameRecords, HostFields
<1> HIDE DEF c
<1>2. DOMAIN left = HostFields /\ SamePromise(left, c)
  BY <1>1, PublishingKeeps
<1> HIDE DEF left
<1>3. DOMAIN AbortCountdown(left) = HostFields /\ Reopened(AbortCountdown(left), left)
  BY <1>2, Reopening
<1>4. Bots(AbortCountdown(left)) = Bots(left)
  BY <1>3 DEF Reopened, Bots
<1>5. \A i \in SeatId : holder[i] \in {s.holder[i], Nobody}
  <2> HIDE DEF gone
  <2> QED OBVIOUS
<1>6. RemoveSeats(s, S) = IF gone = {} THEN s
          ELSE IF s.phase = "countdown" THEN AbortCountdown(left) ELSE left
  BY DEF RemoveSeats, left, c
<1>7. CASE gone = {}
  BY <1>6, <1>7 DEF Thinned, Emptied, SameMatch, SameRecords
<1>8. CASE gone # {} /\ s.phase = "countdown"
  <2> HIDE DEF gone, holder
  <2> QED BY <1>1, <1>2, <1>3, <1>4, <1>5, <1>6, <1>8
          DEF Thinned, Emptied, Reopened, SamePromise, SameMatch, SameRecords
<1>9. CASE gone # {} /\ s.phase # "countdown"
  <2> HIDE DEF gone, holder
  <2> QED BY <1>1, <1>2, <1>5, <1>6, <1>9
          DEF Thinned, Emptied, SamePromise, SameMatch, SameRecords
<1> QED BY <1>7, <1>8, <1>9

\* A message heard from a seat.
LEMMA Hearing ==
  ASSUME NEW s, DOMAIN s = HostFields, NEW i \in SeatId
  PROVE  DOMAIN Heard(s, i) = HostFields /\ SamePromise(Heard(s, i), s)
<1> DEFINE fresh == [s EXCEPT !.silence[i] = 0]
           back == [fresh EXCEPT !.coasting = @ \ {i}, !.sim = Uncoast(@, {i})]
<1>1. /\ DOMAIN fresh = HostFields /\ SamePromise(fresh, s)
      /\ DOMAIN back = HostFields /\ SamePromise(back, s)
  BY DEF SamePromise, SameMatch, SameRecords, HostFields
<1> HIDE DEF back
<1>2. DOMAIN BroadcastLobby(back) = HostFields /\ SamePromise(BroadcastLobby(back), back)
  BY <1>1, PublishingKeeps
<1>3. Heard(s, i) = IF i \notin s.coasting THEN fresh ELSE BroadcastLobby(back)
  BY DEF Heard, back
<1> HIDE DEF fresh
<1> QED BY <1>1, <1>2, <1>3 DEF SamePromise, SameMatch, SameRecords

\* A ready or its withdrawal changes nothing else, and nothing during a match.
LEMMA Readying ==
  ASSUME NEW s, DOMAIN s = HostFields, NEW i, NEW ready \in BOOLEAN, NEW gen
  PROVE  LET t == SetReady(s, i, ready, gen)
         IN  t.phase = s.phase /\ t.holder = s.holder /\ t.cfg = s.cfg /\ SameMatch(t, s)
<1> DEFINE c == [s EXCEPT !.ready = IF ready THEN @ \union {i} ELSE @ \ {i}]
<1>1. /\ DOMAIN c = HostFields /\ c.phase = s.phase /\ c.holder = s.holder /\ c.cfg = s.cfg
      /\ SameMatch(c, s)
  BY DEF SameMatch, SameRecords, HostFields
<1> HIDE DEF c
<1>2. SamePromise(BroadcastLobby(c), c) /\ SamePromise(BroadcastLobby(s), s)
  BY <1>1, PublishingKeeps
<1>3. SetReady(s, i, ready, gen) \in {s, BroadcastLobby(s), BroadcastLobby(c)}
  BY DEF SetReady, c
<1> QED BY <1>1, <1>2, <1>3 DEF SamePromise, SameMatch, SameRecords

\* A seat is taken in an open lobby only.
LEMMA Seating ==
  ASSUME NEW s, DOMAIN s = HostFields, NEW key
  PROVE  LET t == Allocate(s, key)
         IN  t = s \/ /\ s.phase \notin {"countdown", "in_game"}
                      /\ t.phase = s.phase /\ SameMatch(t, s)
<1> DEFINE c == [s EXCEPT !.holder = [i \in SeatId |-> IF i \in FreeSeat(s) THEN key ELSE @[i]]]
<1>1. DOMAIN c = HostFields /\ c.phase = s.phase /\ SameMatch(c, s)
  BY DEF SameMatch, SameRecords, HostFields
<1> HIDE DEF c
<1>2. DOMAIN RefreshAdvert(c) = HostFields /\ SamePromise(RefreshAdvert(c), c)
  BY <1>1, PublishingKeeps
<1>3. SamePromise(BroadcastLobby(RefreshAdvert(c)), RefreshAdvert(c))
  BY <1>2, PublishingKeeps
<1>4. Allocate(s, key) = s \/ /\ s.phase \notin {"countdown", "in_game"}
                              /\ Allocate(s, key) = BroadcastLobby(RefreshAdvert(c))
  BY DEF Allocate, c
<1> QED BY <1>1, <1>2, <1>3, <1>4 DEF SamePromise, SameMatch, SameRecords
\* Bots come and go in an open lobby.
LEMMA Syncing ==
  ASSUME NEW s, DOMAIN s = HostFields, s.holder \in Rosters, s.phase = "open"
  PROVE  LET k == SyncBots(s)
         IN  /\ DOMAIN k = HostFields /\ k.holder \in Rosters /\ k.phase = "open"
             /\ SameMatch(k, s)
<1> DEFINE extra == Bots(s) \ Lowest(Bots(s), s.cfg.bots)
           kept == RemoveSeats(s, extra)
           room == kept.cfg.max - Cardinality(Taken(kept))
           need == s.cfg.bots - Cardinality(Bots(kept))
           new == Lowest(SeatId \ Taken(kept), IF need < room THEN need ELSE room)
           k == [kept EXCEPT !.holder = [i \in SeatId |-> IF i \in new THEN Bot ELSE @[i]],
                             !.ready = @ \union new]
<1>1. DOMAIN kept = HostFields /\ Thinned(kept, s)
  <2>1. extra \in SUBSET SeatId
    BY DEF Bots
  <2> HIDE DEF extra
  <2> QED BY <2>1, RemovingSeats
<1>2. kept.phase = "open" /\ SameMatch(kept, s) /\ \A i \in SeatId : kept.holder[i] \in Holders
  BY <1>1 DEF Thinned, Emptied, Rosters, Holders
<1>3. SyncBots(s) = k
  BY DEF SyncBots
<1> HIDE DEF kept
<1>4. /\ DOMAIN k = HostFields /\ k.holder \in Rosters /\ k.phase = "open"
      /\ SameMatch(k, s)
  <2> HIDE DEF new
  <2> QED BY <1>1, <1>2 DEF SameMatch, SameRecords, HostFields, Rosters, Holders
<1> QED BY <1>3, <1>4

\* New settings: the lobby is open afterwards, or everything is as it was.
LEMMA Configuring ==
  ASSUME NEW s \in Hosts, NEW c \in ValidConfigs
  PROVE  LET t == ApplySettings(s, c)
         IN  \/ s.phase \notin {"open", "countdown"} /\ SamePromise(t, s)
             \/ s.phase \in {"open", "countdown"} /\ t.phase = "open" /\ SameMatch(t, s)
<1> DEFINE people == Cardinality(People(s))
           max == IF c.max < people THEN people ELSE c.max
           cfg == [max |-> max, bots |-> IF c.bots > max - 1 THEN max - 1 ELSE c.bots]
           r == ClearReady([s EXCEPT !.cfg = cfg, !.gen = @ + 1, !.phase = "open"])
           k == SyncBots(r)
           beyond == Taken(k) \ Lowest(Taken(k), k.cfg.max)
           d == RemoveSeats(k, beyond)
<1>1. DOMAIN s = HostFields /\ s.holder \in Rosters
  BY HasFields DEF Hosts
<1>2. DOMAIN r = HostFields /\ r.holder = s.holder /\ r.phase = "open" /\ SameMatch(r, s)
  <2> HIDE DEF cfg
  <2> QED BY <1>1 DEF ClearReady, SameMatch, SameRecords, HostFields, Bots
<1> HIDE DEF r
<1>3. DOMAIN k = HostFields /\ k.holder \in Rosters /\ k.phase = "open" /\ SameMatch(k, r)
  BY <1>1, <1>2, Syncing
<1> HIDE DEF k
<1>4. DOMAIN d = HostFields /\ Thinned(d, k)
  <2>1. beyond \in SUBSET SeatId
    BY DEF Taken
  <2> HIDE DEF beyond
  <2> QED BY <1>3, <2>1, RemovingSeats
<1> HIDE DEF d
<1>5. d.phase = "open" /\ SameMatch(d, s)
  BY <1>2, <1>3, <1>4 DEF Thinned, SameMatch, SameRecords
<1>6. DOMAIN RefreshAdvert(d) = HostFields /\ SamePromise(RefreshAdvert(d), d)
  BY <1>4, PublishingKeeps
<1>7. SamePromise(BroadcastLobby(RefreshAdvert(d)), RefreshAdvert(d))
  BY <1>6, PublishingKeeps
<1>8. SamePromise(BroadcastLobby(s), s)
  BY <1>1, PublishingKeeps
<1>9. ApplySettings(s, c) =
        IF s.phase \notin {"open", "countdown"} THEN BroadcastLobby(s)
        ELSE BroadcastLobby(RefreshAdvert(d))
  BY DEF ApplySettings, DropSeatsBeyondCapacity, d, k, r
<1> QED BY <1>5, <1>6, <1>7, <1>8, <1>9 DEF SamePromise, SameMatch, SameRecords
-----------------------------------------------------------------------------
\* checkLiveness only drops seats, as far as the promise goes.
LEMMA Dropping ==
  ASSUME NEW s \in Hosts
  PROVE  DOMAIN CheckLiveness(s) = HostFields /\ Thinned(CheckLiveness(s), s)
<1> DEFINE gone == {i \in Remotes(s) : s.silence[i] >= DropTicks}
           quiet == {i \in Remotes(s) \ gone : s.silence[i] >= CoastTicks} \ s.coasting
           left == RemoveSeats(s, gone)
           c == [left EXCEPT !.coasting = @ \union quiet,
                   !.sim = IF left.phase = "in_game" THEN Coast(@, quiet) ELSE @]
<1>1. DOMAIN s = HostFields /\ s.holder \in Rosters
  BY HasFields DEF Hosts
<1>2. DOMAIN left = HostFields /\ Thinned(left, s)
  <2>1. gone \in SUBSET SeatId
    BY DEF Remotes
  <2> HIDE DEF gone
  <2> QED BY <1>1, <2>1, RemovingSeats
<1> HIDE DEF left
<1>3. DOMAIN c = HostFields /\ SamePromise(c, left)
  <2> HIDE DEF quiet
  <2> QED BY <1>2 DEF SamePromise, SameMatch, SameRecords, HostFields
<1>4. CheckLiveness(s) = IF gone \union quiet = {} THEN s ELSE BroadcastLobby(c)
  BY DEF CheckLiveness, left
<1> HIDE DEF c, gone, quiet
<1>5. DOMAIN BroadcastLobby(c) = HostFields /\ SamePromise(BroadcastLobby(c), c)
  BY <1>3, PublishingKeeps
<1>6. Bots(BroadcastLobby(c)) = Bots(left)
  BY <1>3, <1>5 DEF SamePromise, Bots
<1>7. Thinned(BroadcastLobby(c), s)
  BY <1>2, <1>3, <1>5, <1>6 DEF Thinned, Emptied, SamePromise, SameMatch, SameRecords
<1>8. Thinned(s, s)
  BY DEF Thinned, Emptied, SameMatch, SameRecords
<1> QED BY <1>1, <1>4, <1>5, <1>7, <1>8

\* What a pass makes of the phase.
Counting(t, s) ==
  /\ s.phase = "open" /\ t.phase = "countdown" /\ EveryoneReady(s)
  /\ t.holder = s.holder /\ t.ready = s.ready /\ t.cfg = s.cfg
  /\ t.matchPlayers = s.holder /\ t.matchID = s.matchID + 1 /\ SameRecords(t, s)

Playing(t, s) ==
  /\ s.phase = "countdown" /\ t.phase = "in_game" /\ EveryoneReady(s)
  /\ t.holder = s.holder /\ t.ready = s.ready /\ t.cfg = s.cfg /\ SameMatch(t, s)

LEMMA Passing ==
  ASSUME NEW s, DOMAIN s = HostFields
  PROVE  LET t == RunPhase(s)
         IN  /\ DOMAIN t = HostFields
             /\ \/ SamePromise(t, s)
                \/ Counting(t, s)
                \/ Playing(t, s)
                \/ s.phase = "countdown" /\ Reopened(t, s)
<1> DEFINE b == [s EXCEPT !.sim = NewSim(Taken(s)), !.matchPlayers = s.holder,
                   !.matchID = @ + 1, !.phase = "countdown",
                   !.countdown = CountdownTicks, !.lastCount = CountdownTicks]
           p == [s EXCEPT !.phase = "in_game", !.lastCount = 0]
           n == [s EXCEPT !.lastCount = s.countdown]
<1>1. /\ DOMAIN b = HostFields /\ b.phase = "countdown" /\ b.holder = s.holder
      /\ b.ready = s.ready /\ b.cfg = s.cfg
      /\ b.matchPlayers = s.holder /\ b.matchID = s.matchID + 1 /\ SameRecords(b, s)
  BY DEF SameRecords, HostFields
<1>2. /\ DOMAIN p = HostFields /\ p.phase = "in_game" /\ p.holder = s.holder
      /\ p.ready = s.ready /\ p.cfg = s.cfg /\ SameMatch(p, s)
  BY DEF SameMatch, SameRecords, HostFields
<1>3. DOMAIN n = HostFields /\ SamePromise(n, s)
  BY DEF SamePromise, SameMatch, SameRecords, HostFields
<1> HIDE DEF b, p, n
<1>4. DOMAIN RefreshAdvert(b) = HostFields /\ SamePromise(RefreshAdvert(b), b)
  BY <1>1, PublishingKeeps
<1>5. BeginCountdown(s) = BroadcastLobby(RefreshAdvert(b))
  BY DEF BeginCountdown, b
<1>6. DOMAIN BeginCountdown(s) = HostFields /\ SamePromise(BeginCountdown(s), RefreshAdvert(b))
  BY <1>4, <1>5, PublishingKeeps
<1>7. DOMAIN RefreshAdvert(p) = HostFields /\ SamePromise(RefreshAdvert(p), p)
  BY <1>2, PublishingKeeps
<1>8. /\ DOMAIN BroadcastLobby(RefreshAdvert(p)) = HostFields
      /\ SamePromise(BroadcastLobby(RefreshAdvert(p)), RefreshAdvert(p))
  BY <1>7, PublishingKeeps
<1>9. DOMAIN AbortCountdown(s) = HostFields /\ Reopened(AbortCountdown(s), s)
  BY Reopening
<1>10. BeginPlay(s) = IF s.sim = NoSim THEN AbortCountdown(s) ELSE BroadcastLobby(RefreshAdvert(p))
  BY DEF BeginPlay, p
<1>11. DOMAIN BroadcastLobby(n) = HostFields /\ SamePromise(BroadcastLobby(n), n)
  BY <1>3, PublishingKeeps
<1>12. \/ RunPhase(s) = s
       \/ RunPhase(s) = BroadcastLobby(n)
       \/ RunPhase(s) = AbortCountdown(s) /\ s.phase = "countdown"
       \/ RunPhase(s) = BeginPlay(s) /\ s.phase = "countdown" /\ EveryoneReady(s)
       \/ RunPhase(s) = BeginCountdown(s) /\ s.phase = "open" /\ EveryoneReady(s)
  BY DEF RunPhase, n
<1>13. SamePromise(s, s)
  BY DEF SamePromise, SameMatch, SameRecords
<1> HIDE DEF b, p, n
<1>14. CASE RunPhase(s) = s
  BY <1>13, <1>14
<1>15. CASE RunPhase(s) = BroadcastLobby(n)
  BY <1>3, <1>11, <1>15 DEF SamePromise, SameMatch, SameRecords
<1>16. CASE RunPhase(s) = AbortCountdown(s) /\ s.phase = "countdown"
  BY <1>9, <1>16
<1>17. CASE RunPhase(s) = BeginPlay(s) /\ s.phase = "countdown" /\ EveryoneReady(s)
  BY <1>2, <1>7, <1>8, <1>9, <1>10, <1>17 DEF Playing, SamePromise, SameMatch, SameRecords
<1>18. CASE RunPhase(s) = BeginCountdown(s) /\ s.phase = "open" /\ EveryoneReady(s)
  BY <1>1, <1>4, <1>6, <1>18 DEF Counting, SamePromise, SameMatch, SameRecords
<1> QED BY <1>12, <1>14, <1>15, <1>16, <1>17, <1>18
\* Closing a record reopens the lobby whatever its phase.
Closed(t, s) ==
  /\ s.record # NoRecord /\ (AllSigned(s) \/ s.attest = 0)
  /\ t.phase = "open" /\ t.holder = s.holder /\ t.cfg = s.cfg
  /\ t.matchID = s.matchID /\ t.attest = s.attest
  /\ t.record = NoRecord /\ t.stored \in {s.stored, s.stored \union {s.record}}

LEMMA Closing ==
  ASSUME NEW s, DOMAIN s = HostFields, NEW written \in BOOLEAN
  PROVE  CloseAttestation(s, written) = s \/ Closed(CloseAttestation(s, written), s)
<1> DEFINE c == [s EXCEPT !.record = NoRecord,
                   !.stored = IF written THEN @ \union {s.record} ELSE @]
<1>1. /\ DOMAIN c = HostFields /\ c.holder = s.holder /\ c.cfg = s.cfg
      /\ c.matchID = s.matchID /\ c.attest = s.attest /\ c.record = NoRecord
      /\ c.stored \in {s.stored, s.stored \union {s.record}}
  BY DEF HostFields
<1>2. FinalizeRecord(s, written) = ResetAfterMatch(c)
  BY DEF FinalizeRecord
<1> HIDE DEF c
<1>3. Reopened(FinalizeRecord(s, written), c)
  BY <1>1, <1>2, Reopening
<1> QED BY <1>1, <1>3 DEF CloseAttestation, Closed, Reopened, SameMatch, SameRecords

\* A match that is over leaves its record.
LEMMA Ending ==
  ASSUME NEW s, DOMAIN s = HostFields
  PROVE  LET t == EndMatch(s)
         IN  /\ t.phase = "open" /\ t.holder = s.holder /\ t.cfg = s.cfg
             /\ t.matchID = s.matchID /\ t.stored = s.stored
             /\ t.record = BuildRecord(s) /\ t.attest = AttestTicks
<1> DEFINE c == ClearReady([s EXCEPT !.phase = "open"])
           open == RefreshAdvert(c)
           e == [open EXCEPT !.record = BuildRecord(s), !.attest = AttestTicks,
                     !.signed = {i \in SeatId : s.holder[i] = HostKey},
                     !.sim = NoSim]
<1>1. /\ DOMAIN c = HostFields /\ c.phase = "open" /\ c.holder = s.holder /\ c.cfg = s.cfg
      /\ c.matchID = s.matchID /\ c.stored = s.stored
  BY DEF ClearReady, HostFields
<1> HIDE DEF c
<1>2. DOMAIN open = HostFields /\ SamePromise(open, c)
  BY <1>1, PublishingKeeps
<1> HIDE DEF open
<1>3. /\ DOMAIN e = HostFields /\ e.phase = "open" /\ e.holder = s.holder /\ e.cfg = s.cfg
      /\ e.matchID = s.matchID /\ e.stored = s.stored
      /\ e.record = BuildRecord(s) /\ e.attest = AttestTicks
  BY <1>1, <1>2 DEF SamePromise, SameMatch, SameRecords, HostFields
<1>4. EndMatch(s) = BroadcastLobby(e)
  BY DEF EndMatch, open, c
<1> HIDE DEF e
<1>5. SamePromise(BroadcastLobby(e), e)
  BY <1>3, PublishingKeeps
<1> QED BY <1>3, <1>4, <1>5 DEF SamePromise, SameMatch, SameRecords

\* A signature is somebody's who played and is seated.
LEMMA Signing ==
  ASSUME NEW s, DOMAIN s = HostFields, NEW i, NEW match, NEW key
  PROVE  LET t == AddAttestation(s, i, match, key)
         IN  \/ t = s
             \/ /\ key = s.holder[i] /\ key \in s.record.participants
                /\ t.phase = s.phase /\ t.holder = s.holder /\ t.ready = s.ready
                /\ t.cfg = s.cfg /\ t.matchPlayers = s.matchPlayers /\ t.matchID = s.matchID
                /\ t.record = Sign(s.record, key)
                /\ t.attest = s.attest /\ t.stored = s.stored
BY DEF AddAttestation, HostFields
-----------------------------------------------------------------------------
(***************************************************************************)
(* The steps of the promise.                                               *)
(***************************************************************************)
\* Nothing happens.
LEMMA SameStep ==
  ASSUME SamePromise(h', h)
  PROVE  UNCHANGED Cycle!vars
BY DEF SamePromise, SameMatch, SameRecords, Cycle!vars, Cycle!lobby, Cycle!records

\* Seats and settings change in an open lobby.
LEMMA OpenStep ==
  ASSUME h.phase = "open", h'.phase = "open", SameMatch(h', h)
  PROVE  Cycle!Next
<1>1. Cycle!Rearrange
  BY DEF Cycle!Rearrange, Cycle!records, SameMatch, SameRecords
<1> QED BY <1>1 DEF Cycle!Next

\* A countdown is called off.
LEMMA CallOffStep ==
  ASSUME h.phase = "countdown", h'.phase = "open", SameMatch(h', h)
  PROVE  Cycle!Next
<1>1. Cycle!CallOff
  BY DEF Cycle!CallOff, Cycle!NoBoard, Cycle!records, SameMatch, SameRecords
<1> QED BY <1>1 DEF Cycle!Next

\* Somebody wavers during a countdown.
LEMMA WaverStep ==
  ASSUME h.phase = "countdown", h'.phase = "countdown", h'.holder = h.holder,
         h'.cfg = h.cfg, SameMatch(h', h)
  PROVE  Cycle!Next
<1>1. Cycle!Waver
  BY DEF Cycle!Waver, Cycle!records, SameMatch, SameRecords
<1> QED BY <1>1 DEF Cycle!Next

\* Somebody leaves a match.
LEMMA LeaveStep ==
  ASSUME h.phase = "in_game", h'.phase = "in_game", Emptied(h', h),
         h'.cfg = h.cfg, SameMatch(h', h)
  PROVE  Cycle!Next
<1>1. Cycle!Leave
  BY DEF Cycle!Leave, Cycle!OnlyLeft, Cycle!records, Emptied, SameMatch, SameRecords
<1> QED BY <1>1 DEF Cycle!Next

\* A seat is given up or dropped.
LEMMA ThinnedStep ==
  ASSUME h \in Hosts, Running, Thinned(h', h)
  PROVE  Cycle!Next
<1>1. h.phase \in {"open", "countdown", "in_game"}
  BY DEF Hosts, Phases, Running
<1>2. CASE h.phase = "open"
  BY <1>2, OpenStep DEF Thinned
<1>3. CASE h.phase = "countdown" /\ h'.phase = "open"
  BY <1>3, CallOffStep DEF Thinned
<1>4. CASE h.phase = "countdown" /\ h'.phase # "open"
  BY <1>4, WaverStep DEF Thinned
<1>5. CASE h.phase = "in_game"
  BY <1>5, LeaveStep DEF Thinned
<1> QED BY <1>1, <1>2, <1>3, <1>4, <1>5

\* Somebody is ready, or not any more.
LEMMA ReadyStep ==
  ASSUME h \in Hosts, Running, h'.phase = h.phase, h'.holder = h.holder,
         h'.cfg = h.cfg, SameMatch(h', h)
  PROVE  Cycle!Next
<1>1. h.phase \in {"open", "countdown", "in_game"}
  BY DEF Hosts, Phases, Running
<1> QED BY <1>1, OpenStep, WaverStep, LeaveStep DEF Emptied
\* A lobby that the same pass reopened waits for people to be ready again.
LEMMA NotJustReopened ==
  ASSUME NEW s, RosterPart(s), Thinned(s, h), s.phase = "open", EveryoneReady(s)
  PROVE  h.phase = "open"
<1>1. 0 \in Taken(s) /\ 0 \notin Bots(s)
  BY HostLobbyAssumption DEF RosterPart, Taken, Bots, SeatId
<1>2. s.ready # Bots(s)
  BY <1>1 DEF EveryoneReady
<1> QED BY <1>2 DEF Thinned

\* A pass that closes no record.
LEMMA PassStep ==
  ASSUME h \in Hosts, Running, NEW s, RosterPart(s), Thinned(s, h),
         \/ SamePromise(h', s)
         \/ Counting(h', s)
         \/ Playing(h', s)
         \/ s.phase = "countdown" /\ Reopened(h', s)
  PROVE  Cycle!Next
<1>1. CASE SamePromise(h', s)
  <2>1. Bots(h') = Bots(s)
    BY <1>1 DEF SamePromise, Bots
  <2>2. Thinned(h', h)
    BY <1>1, <2>1 DEF Thinned, Emptied, SamePromise, SameMatch, SameRecords
  <2> QED BY <2>2, ThinnedStep
<1>2. CASE Counting(h', s)
  <2>1. h.phase = "open"
    BY <1>2, NotJustReopened DEF Counting
  <2>2. Cycle!Occupied(h'.holder) \subseteq h'.ready
    BY <1>2 DEF Cycle!Occupied, Counting, EveryoneReady, Taken
  <2>3. Cycle!Gather
    BY <1>2, <2>1, <2>2
    DEF Cycle!Gather, Cycle!OnlyLeft, Cycle!records, Counting, Thinned, Emptied, SameMatch, SameRecords
  <2> QED BY <2>3 DEF Cycle!Next
<1>3. CASE Playing(h', s)
  <2>1. h.phase = "countdown" /\ s.holder = h.holder /\ s.ready = h.ready
    BY <1>3 DEF Playing, Thinned
  <2>2. Cycle!Occupied(h.holder) \subseteq h.ready
    BY <1>3, <2>1 DEF Cycle!Occupied, Playing, EveryoneReady, Taken
  <2>3. Cycle!Play
    BY <1>3, <2>1, <2>2
    DEF Cycle!Play, Cycle!lobby, Cycle!records, Playing, Thinned, SameMatch, SameRecords
  <2> QED BY <2>3 DEF Cycle!Next
<1>4. CASE s.phase = "countdown" /\ Reopened(h', s)
  <2>1. h.phase = "countdown" /\ h'.phase = "open" /\ SameMatch(h', h)
    BY <1>4 DEF Reopened, Thinned, SameMatch, SameRecords
  <2> QED BY <2>1, CallOffStep
<1> QED BY <1>1, <1>2, <1>3, <1>4

\* A pass that closes the record, after whatever it did to the phase.
LEMMA SettleStep ==
  ASSUME h \in Hosts, Running, NEW s, RosterPart(s), Thinned(s, h),
         NEW t \in Hosts, RecordPart(t), Closed(h', t),
         \/ SamePromise(t, s)
         \/ Counting(t, s)
         \/ Playing(t, s)
         \/ s.phase = "countdown" /\ Reopened(t, s)
  PROVE  Cycle!Next
<1>1. /\ t.holder = s.holder /\ t.cfg = s.cfg /\ SameRecords(t, s)
      /\ t.matchID = s.matchID \/ Counting(t, s)
  BY DEF SamePromise, Counting, Playing, Reopened, SameMatch
<1>2. Counting(t, s) => t.matchID = h.matchID + 1 /\ h.phase = "open"
  BY NotJustReopened DEF Counting, Thinned, SameMatch
<1>3. h'.matchID \in {h.matchID} \union (IF h.phase = "open" THEN {h.matchID + 1} ELSE {})
  BY <1>1, <1>2 DEF Closed, Thinned, SameMatch
<1>4. /\ h'.cfg = h.cfg /\ h'.attest = h.attest
      /\ h.record # NoRecord /\ h'.record = NoRecord
      /\ h'.stored \in {h.stored, h.stored \union {h.record}}
      /\ Emptied(h', h)
  BY <1>1 DEF Closed, Thinned, Emptied, SameMatch, SameRecords
<1>5. h.attest = 0 \/ Cycle!PlayersOf(h'.holder) \subseteq h.record.sigs
  <2>1. CASE t.attest = 0
    BY <1>1, <2>1 DEF Thinned, SameMatch, SameRecords
  <2>2. CASE AllSigned(t)
    <3>1. SUFFICES ASSUME NEW i \in SeatId, t.holder[i] \in PlayerKeys
                   PROVE  t.holder[i] \in t.record.sigs
      BY <1>1 DEF Cycle!PlayersOf, Closed, Thinned, SameMatch, SameRecords
    <3>2. i \in People(t)
      BY <3>1, HostLobbyAssumption DEF People, Taken, Bots, PlayerKeys
    <3>3. i \in t.signed
      BY <2>2, <3>2 DEF AllSigned
    <3> QED BY <3>3 DEF RecordPart, Closed
  <2> QED BY <2>1, <2>2 DEF Closed
<1>6. Cycle!Settle
  BY <1>3, <1>4, <1>5
  DEF Cycle!Settle, Cycle!NoBoard, Cycle!NoRecord, Cycle!OnlyLeft, NoRecord, Emptied, Closed, Running
<1> QED BY <1>6 DEF Cycle!Next

\* A whole housekeeping pass.
LEMMA HousekeepingStep ==
  ASSUME h \in Hosts, Good(h), Housekeeping
  PROVE  Cycle!Next
<1> PICK written \in BOOLEAN : h' = HousekeepingPass(h, written)
  BY DEF Housekeeping
<1> DEFINE s == CheckLiveness(h)
           t == RunPhase(s)
<1>1. DOMAIN s = HostFields /\ Thinned(s, h) /\ Good(s) /\ s \in Hosts
  BY Dropping, CheckLivenessGood
<1> HIDE DEF s
<1>2. Good(t)
  BY <1>1, RunPhaseGood
<1>3. /\ DOMAIN t = HostFields
      /\ \/ SamePromise(t, s)
         \/ Counting(t, s)
         \/ Playing(t, s)
         \/ s.phase = "countdown" /\ Reopened(t, s)
  BY <1>1, Passing
<1> HIDE DEF t
<1>4. /\ RosterPart(s) /\ RecordPart(t) /\ t \in Hosts
  BY <1>1, <1>2 DEF Good, Sound, Loose
<1>5. Running
  BY DEF Housekeeping
<1>6. h' = CloseAttestation(t, written)
  BY DEF HousekeepingPass, s, t
<1>7. CASE h' = t
  BY <1>1, <1>3, <1>4, <1>5, <1>7, PassStep
<1>8. CASE Closed(h', t)
  BY <1>1, <1>3, <1>4, <1>5, <1>8, SettleStep
<1> QED BY <1>3, <1>6, <1>7, <1>8, Closing

\* A game tick.
LEMMA TickStep ==
  ASSUME h \in Hosts, NEW dead, Tick(dead)
  PROVE  Cycle!Next \/ UNCHANGED Cycle!vars
<1> DEFINE s == [h EXCEPT !.sim = Eliminate(@, dead)]
<1>1. DOMAIN s = HostFields /\ SamePromise(s, h)
  BY HasFields DEF SamePromise, SameMatch, SameRecords, HostFields
<1>2. h.phase = "in_game" /\ h' = IF SimOver(s.sim) THEN EndMatch(s) ELSE s
  BY DEF Tick
<1> HIDE DEF s
<1>3. CASE h' = s
  BY <1>1, <1>3, SameStep
<1>4. CASE h' = EndMatch(s)
  <2>1. /\ h'.phase = "open" /\ h'.holder = h.holder /\ h'.cfg = h.cfg
        /\ h'.matchID = h.matchID /\ h'.stored = h.stored
        /\ h'.record = BuildRecord(s) /\ h'.attest = AttestTicks
    BY <1>1, <1>4, Ending DEF SamePromise, SameMatch, SameRecords
  <2>2. \A i \in SeatId : h.matchPlayers[i] \in PlayerKeys \union {Bot, Nobody}
    BY DEF Hosts, Rosters, Holders, PlayerKeys
  <2>3. {h.matchPlayers[i] : i \in SeatId} \ {Bot, Nobody} = Cycle!PlayersOf(h.matchPlayers)
    BY <2>2, HostLobbyAssumption DEF Cycle!PlayersOf, PlayerKeys
  <2>4. h'.record = [match |-> h.matchID, participants |-> Cycle!PlayersOf(h.matchPlayers),
                     sigs |-> {HostKey}]
    BY <1>1, <2>1, <2>3 DEF BuildRecord, SamePromise, SameMatch
  <2>5. Cycle!Finish
    BY <1>2, <2>1, <2>4 DEF Cycle!Finish, Cycle!NoBoard
  <2> QED BY <2>5 DEF Cycle!Next
<1> QED BY <1>2, <1>3, <1>4

\* Seats are vacated at once: a leave, a kick, the end of a connection.
LEMMA VacatingStep ==
  ASSUME h \in Hosts, Running, NEW s, DOMAIN s = HostFields, SamePromise(s, h),
         NEW i \in SeatId, h' = BroadcastLobby(RemoveSeats(s, {i}))
  PROVE  Cycle!Next
<1> DEFINE k == RemoveSeats(s, {i})
<1>1. s.holder \in Rosters
  BY DEF Hosts, SamePromise
<1>2. DOMAIN k = HostFields /\ Thinned(k, s)
  BY <1>1, RemovingSeats
<1> HIDE DEF k
<1>3. SamePromise(h', k)
  BY <1>2, PublishingKeeps DEF k
<1>4. Bots(h') = Bots(k)
  BY <1>3 DEF SamePromise, Bots
<1>5. Thinned(h', h)
  BY <1>2, <1>3, <1>4 DEF Thinned, Emptied, SamePromise, SameMatch, SameRecords
<1> QED BY <1>5, ThinnedStep

\* A message from a client, or the end of its connection.
LEMMA ClientStep ==
  ASSUME h \in Hosts, Good(h), NEW i \in SeatId, FromClient(i)
  PROVE  Cycle!Next \/ UNCHANGED Cycle!vars
<1> DEFINE s == Heard(h, i)
<1>1. Running /\ i \in Remotes(h)
  BY DEF FromClient, ClientReady, ClientAttestation, ClientLeave, ClientPing, Disconnect
<1>2. DOMAIN h = HostFields /\ h.holder \in Rosters
  BY HasFields DEF Hosts
<1>3. DOMAIN s = HostFields /\ SamePromise(s, h)
  BY <1>2, Hearing
<1> HIDE DEF s
<1>4. SamePromise(h, h)
  BY DEF SamePromise, SameMatch, SameRecords
<1>5. ASSUME NEW ready \in BOOLEAN, NEW gen, h' = SetReady(s, i, ready, gen)
      PROVE  Cycle!Next
  <2>1. /\ h'.phase = h.phase /\ h'.holder = h.holder /\ h'.cfg = h.cfg
        /\ SameMatch(h', h)
    BY <1>3, <1>5, Readying DEF SamePromise, SameMatch, SameRecords
  <2> QED BY <1>1, <2>1, ReadyStep
<1>6. ASSUME NEW match, NEW key \in Keys, h' = AddAttestation(s, i, match, key)
      PROVE  Cycle!Next \/ UNCHANGED Cycle!vars
  <2>1. CASE h' = s
    BY <1>3, <2>1, SameStep
  <2>2. CASE h' # s
    <3>1. /\ key = h.holder[i] /\ key \in h.record.participants
          /\ h'.phase = h.phase /\ h'.holder = h.holder /\ h'.ready = h.ready
          /\ h'.cfg = h.cfg /\ h'.matchPlayers = h.matchPlayers /\ h'.matchID = h.matchID
          /\ h'.record = Sign(h.record, key)
          /\ h'.attest = h.attest /\ h'.stored = h.stored
      BY <1>3, <1>6, <2>2, Signing DEF SamePromise, SameMatch, SameRecords
    <3>2. key \in h.record.participants \intersect Cycle!PlayersOf(h.holder)
      BY <3>1 DEF Cycle!PlayersOf, PlayerKeys
    <3>3. Cycle!Sign
      BY <3>1, <3>2 DEF Cycle!Sign, Cycle!lobby, Sign
    <3> QED BY <3>3 DEF Cycle!Next
  <2> QED BY <2>1, <2>2
<1>7. \/ \E ready \in BOOLEAN, gen \in 0 .. h.gen : h' = SetReady(s, i, ready, gen)
      \/ \E match \in 1 .. h.matchID, key \in Keys : h' = AddAttestation(s, i, match, key)
      \/ h' = BroadcastLobby(RemoveSeats(s, {i}))
      \/ h' = s
      \/ h' = BroadcastLobby(RemoveSeats(h, {i}))
  BY DEF FromClient, ClientReady, ClientAttestation, ClientLeave, ClientPing, Disconnect, s
<1> QED BY <1>1, <1>2, <1>3, <1>4, <1>5, <1>6, <1>7, SameStep, VacatingStep
\* What the hosting player does.
LEMMA HostPlayerStep ==
  ASSUME h \in Hosts, Good(h), FromHostPlayer
  PROVE  Cycle!Next \/ UNCHANGED Cycle!vars
<1>1. DOMAIN h = HostFields /\ SamePromise(h, h)
  BY HasFields DEF SamePromise, SameMatch, SameRecords
<1>2. ASSUME NEW ready \in BOOLEAN, HostReady(ready) PROVE Cycle!Next
  <2>1. /\ h'.phase = h.phase /\ h'.holder = h.holder /\ h'.cfg = h.cfg
        /\ SameMatch(h', h)
    BY <1>1, <1>2, Readying DEF HostReady
  <2> QED BY <1>2, <2>1, ReadyStep DEF HostReady
<1>3. ASSUME NEW i \in SeatId, Kick(i) PROVE Cycle!Next
  BY <1>1, <1>3, VacatingStep DEF Kick
<1>4. ASSUME NEW c \in Configs, Reconfigure(c) PROVE Cycle!Next \/ UNCHANGED Cycle!vars
  <2>1. c \in ValidConfigs
    BY HostLobbyAssumption
  <2>2. \/ h.phase \notin {"open", "countdown"} /\ SamePromise(h', h)
        \/ h.phase \in {"open", "countdown"} /\ h'.phase = "open" /\ SameMatch(h', h)
    BY <1>4, <2>1, Configuring DEF Reconfigure, Good
  <2> QED BY <2>2, SameStep, OpenStep, CallOffStep
<1>5. CASE Shutdown
  <2> DEFINE c == [h EXCEPT !.phase = "closed"]
  <2>1. /\ DOMAIN c = HostFields /\ c.phase = "closed" /\ c.holder = h.holder
        /\ c.ready = h.ready /\ c.cfg = h.cfg /\ SameMatch(c, h)
    BY <1>1 DEF SameMatch, SameRecords, HostFields
  <2>2. h' = RefreshAdvert(c) /\ h.phase # "closed"
    BY <1>5 DEF Shutdown, Running
  <2> HIDE DEF c
  <2>3. SamePromise(h', c)
    BY <2>1, <2>2, PublishingKeeps
  <2>4. Cycle!Close
    BY <2>1, <2>2, <2>3
    DEF Cycle!Close, Cycle!NoBoard, Cycle!lobby, Cycle!records, SamePromise, SameMatch, SameRecords
  <2> QED BY <2>4 DEF Cycle!Next
<1> QED BY <1>2, <1>3, <1>4, <1>5 DEF FromHostPlayer

\* The record's time runs.
LEMMA ElapseStep ==
  ASSUME h \in Hosts, Elapse
  PROVE  Cycle!Next \/ UNCHANGED Cycle!vars
<1>1. /\ h'.phase = h.phase /\ h'.holder = h.holder /\ h'.ready = h.ready /\ h'.cfg = h.cfg
      /\ h'.matchPlayers = h.matchPlayers /\ h'.matchID = h.matchID
      /\ h'.record = h.record /\ h'.stored = h.stored
      /\ h'.attest = IF h.attest > 0 THEN h.attest - 1 ELSE h.attest
  BY HasFields DEF Elapse, HostFields
<1>2. CASE h.attest > 0
  <2>1. Cycle!Wait
    BY <1>1, <1>2 DEF Cycle!Wait, Cycle!lobby, Elapse, Running
  <2> QED BY <2>1 DEF Cycle!Next
<1>3. CASE ~ (h.attest > 0)
  BY <1>1, <1>3, SameStep DEF SamePromise, SameMatch, SameRecords
<1> QED BY <1>2, <1>3
-----------------------------------------------------------------------------
\* A new lobby has counted down no match and holds no record.
LEMMA InitPromise == Init => Cycle!Init
<1> SUFFICES ASSUME NEW c \in Configs, h = InitHost(c)
             PROVE  Cycle!Init
  BY DEF Init
<1> DEFINE empty == [phase |-> "open", holder |-> [i \in SeatId |-> IF i = 0 THEN HostKey ELSE Nobody],
                ready |-> {}, coasting |-> {}, signed |-> {},
                silence |-> [i \in SeatId |-> 0], cfg |-> c, gen |-> 0,
                sim |-> NoSim, matchPlayers |-> [i \in SeatId |-> Nobody],
                matchID |-> 0, countdown |-> 0, lastCount |-> 0,
                record |-> NoRecord, attest |-> 0, stored |-> {},
                advert |-> [cfg |-> c, phase |-> "open", taken |-> {}, bots |-> {}],
                view |-> [phase |-> "open", gen |-> 0, cfg |-> c,
                          holder |-> [i \in SeatId |-> Nobody], ready |-> {},
                          connected |-> {}, countdown |-> 0]]
           k == SyncBots(empty)
<1>1. /\ DOMAIN empty = HostFields /\ empty.holder \in Rosters /\ empty.phase = "open"
      /\ empty.matchID = 0 /\ empty.record = NoRecord
      /\ empty.stored = {} /\ empty.attest = 0
  BY DEF HostFields, Rosters, Holders
<1>2. h = BroadcastLobby(RefreshAdvert(k))
  BY DEF InitHost
<1> HIDE DEF empty
<1>3. DOMAIN k = HostFields /\ k.phase = "open" /\ SameMatch(k, empty)
  BY <1>1, Syncing
<1> HIDE DEF k
<1>4. DOMAIN RefreshAdvert(k) = HostFields /\ SamePromise(RefreshAdvert(k), k)
  BY <1>3, PublishingKeeps
<1>5. SamePromise(h, RefreshAdvert(k))
  BY <1>2, <1>4, PublishingKeeps
<1> QED
  BY <1>1, <1>3, <1>4, <1>5
  DEF Cycle!Init, Cycle!NoBoard, Cycle!NoRecord, NoRecord, SamePromise, SameMatch, SameRecords

\* Every handler is a step of the promise or changes nothing it is about.
LEMMA NextPromise == IInv /\ [Next]_h => [Cycle!Next]_(Cycle!vars)
<1> SUFFICES ASSUME IInv, [Next]_h
             PROVE  Cycle!Next \/ UNCHANGED Cycle!vars
  OBVIOUS
<1>1. h \in Hosts /\ (Running => Good(h))
  BY DEF IInv, Good, Sound, Loose
<1>2. CASE Housekeeping
  BY <1>1, <1>2, HousekeepingStep DEF Housekeeping
<1>3. ASSUME NEW dead \in SUBSET h.sim.alive, Tick(dead)
      PROVE  Cycle!Next \/ UNCHANGED Cycle!vars
  BY <1>1, <1>3, TickStep
<1>4. ASSUME NEW key \in Keys, Join(key)
      PROVE  Cycle!Next \/ UNCHANGED Cycle!vars
  <2>1. \/ h' = h
        \/ h.phase \notin {"countdown", "in_game"} /\ h'.phase = h.phase /\ SameMatch(h', h)
    BY <1>1, <1>4, HasFields, Seating DEF Join
  <2>2. h.phase \in {"open", "countdown", "in_game"}
    BY <1>1, <1>4 DEF Join, Running, Hosts, Phases
  <2>3. CASE h' = h
    BY <2>3, SameStep DEF SamePromise, SameMatch, SameRecords
  <2> QED BY <2>1, <2>2, <2>3, OpenStep
<1>5. ASSUME NEW i \in SeatId, FromClient(i)
      PROVE  Cycle!Next \/ UNCHANGED Cycle!vars
  <2>1. Running
    BY <1>5 DEF FromClient, ClientReady, ClientAttestation, ClientLeave, ClientPing, Disconnect
  <2> QED BY <1>1, <1>5, <2>1, ClientStep
<1>6. CASE FromHostPlayer
  <2>1. Running
    BY <1>6 DEF FromHostPlayer, HostReady, Kick, Reconfigure, Shutdown
  <2> QED BY <1>1, <1>6, <2>1, HostPlayerStep
<1>7. CASE Elapse
  BY <1>1, <1>7, ElapseStep
<1>8. CASE UNCHANGED h
  BY <1>8, SameStep DEF SamePromise, SameMatch, SameRecords
<1> QED BY <1>2, <1>3, <1>4, <1>5, <1>6, <1>7, <1>8 DEF Next

\* The hosting loop keeps the promise: no sequence of commands, ticks, deadlines
\* and failed writes starts play on a board nobody agreed to, records others than
\* those on it, or closes a record early without the signatures of those present.
THEOREM PromiseKept == Spec => MatchesAsPromised
BY InitPromise, NextPromise, Invariant, PTL DEF Spec, MatchesAsPromised, Cycle!Spec
-----------------------------------------------------------------------------
(***************************************************************************)
(* Nobody is seated beyond the capacity.                                   *)
(*                                                                         *)
(* All but three operators only empty seats or leave them alone (Shrinks). *)
(* allocate and syncBots fill seats that are within the capacity, and a    *)
(* smaller capacity drops the seats beyond it: the lowest n of a set are n *)
(* at most, and the host, who is never dropped, is among them.             *)
(***************************************************************************)
Fits(s) == Cardinality(Taken(s)) <= s.cfg.max

Shrinks(t, s) == t.cfg = s.cfg /\ Emptied(t, s)

\* Sets of seats are finite.
LEMMA Seats ==
  ASSUME NEW S \in SUBSET SeatId
  PROVE  /\ IsFiniteSet(S) /\ Cardinality(S) \in Nat
         /\ \A T \in SUBSET S : Cardinality(T) <= Cardinality(S)
<1>1. IsFiniteSet(SeatId)
  BY HostLobbyAssumption, FS_Interval DEF SeatId
<1>2. IsFiniteSet(S)
  BY <1>1, FS_Subset
<1> QED
  BY <1>2, FS_Subset, FS_CardinalityType

\* Emptying seats takes nobody beyond the capacity.
LEMMA ShrinksFits ==
  ASSUME NEW s, NEW t, Shrinks(t, s), Fits(s), s.cfg.max \in Nat
  PROVE  Fits(t)
<1>1. Taken(t) \in SUBSET Taken(s) /\ Taken(s) \in SUBSET SeatId
  BY DEF Shrinks, Emptied, Taken
<1>2. /\ Cardinality(Taken(t)) <= Cardinality(Taken(s))
      /\ Cardinality(Taken(t)) \in Nat /\ Cardinality(Taken(s)) \in Nat
  BY <1>1, Seats
<1> QED
  BY <1>2 DEF Fits, Shrinks

\* One step after the other empties seats.
LEMMA ShrinksOn ==
  ASSUME NEW r, NEW s, NEW t, Shrinks(t, s), Shrinks(s, r)
  PROVE  Shrinks(t, r)
BY DEF Shrinks, Emptied

LEMMA SameShrinks ==
  ASSUME NEW s, NEW t, t.holder = s.holder, t.cfg = s.cfg
  PROVE  Shrinks(t, s)
BY DEF Shrinks, Emptied

\* The n lowest are n at most: each has another number of seats below it.
LEMMA LowestFew ==
  ASSUME NEW S \in SUBSET SeatId, NEW n \in Nat
  PROVE  Cardinality(Lowest(S, n)) <= n
<1> DEFINE below(i) == {j \in S : j < i}
           rank == [i \in Lowest(S, n) |-> Cardinality(below(i))]
<1>1. S \subseteq Int
  BY HostLobbyAssumption DEF SeatId
<1>2. ASSUME NEW i \in S
      PROVE  Cardinality(below(i)) \in Nat /\ IsFiniteSet(below(i))
  <2>1. below(i) \in SUBSET SeatId
    OBVIOUS
  <2> HIDE DEF below
  <2> QED
    BY <2>1, Seats
<1>3. ASSUME NEW i \in S, NEW k \in S, i < k
      PROVE  Cardinality(below(i)) # Cardinality(below(k))
  <2>1. i \in Int /\ k \in Int /\ \A j \in S : j \in Int
    BY <1>1
  <2>2. (\A j \in S : j < i => j < k) /\ ~ (i < i)
    BY <1>3, <2>1
  <2>3. below(i) \subseteq below(k) /\ i \in below(k) /\ i \notin below(i)
    BY <1>3, <2>2
  <2> HIDE DEF below
  <2> QED
    BY <1>2, <2>3, FS_Subset
<1>4. \A i \in Lowest(S, n) : i \in S /\ Cardinality(below(i)) < n
  BY DEF Lowest
<1> HIDE DEF below
<1>5. rank \in [Lowest(S, n) -> 0 .. n - 1]
  BY <1>2, <1>4
<1>6. ASSUME NEW i \in Lowest(S, n), NEW k \in Lowest(S, n), rank[i] = rank[k]
      PROVE  i = k
  <2>1. i \in Int /\ k \in Int /\ i \in S /\ k \in S
    BY <1>1, <1>4
  <2>2. Cardinality(below(i)) = Cardinality(below(k))
    BY <1>6
  <2>3. ~ (i < k) /\ ~ (k < i)
    BY <1>3, <2>1, <2>2
  <2> QED
    BY <2>1, <2>3
<1>7. rank \in Injection(Lowest(S, n), 0 .. n - 1)
  BY <1>5, <1>6 DEF Injection, IsInjective
<1>8. IsFiniteSet(0 .. n - 1) /\ Cardinality(0 .. n - 1) = n
  <2>1. IsFiniteSet(0 .. n - 1) /\ Cardinality(0 .. n - 1) = IF 0 > n - 1 THEN 0 ELSE n - 1 - 0 + 1
    BY FS_Interval
  <2> QED
    BY <2>1
<1> QED
  BY <1>7, <1>8, FS_Injection

\* Seats that are added to those taken.
LEMMA SeatsAdded ==
  ASSUME NEW S \in SUBSET SeatId, NEW T \in SUBSET SeatId
  PROVE  Cardinality(S \union T) <= Cardinality(S) + Cardinality(T)
<1>1. IsFiniteSet(S) /\ IsFiniteSet(T) /\ Cardinality(S \intersect T) \in Nat
  <2>1. S \intersect T \in SUBSET SeatId
    OBVIOUS
  <2> QED
    BY <2>1, Seats
<1>2. Cardinality(S \union T) = Cardinality(S) + Cardinality(T) - Cardinality(S \intersect T)
  BY <1>1, FS_Union
<1> QED
  BY <1>1, <1>2, Seats

\* allocate seats one more where fewer than the capacity are.
LEMMA AllocateFits ==
  ASSUME NEW s, DOMAIN s = HostFields, s.cfg \in ValidConfigs, Fits(s), NEW key
  PROVE  Fits(Allocate(s, key))
<1> DEFINE c == [s EXCEPT !.holder = [i \in SeatId |-> IF i \in FreeSeat(s) THEN key ELSE @[i]]]
           t == BroadcastLobby(RefreshAdvert(c))
<1>1. /\ DOMAIN c = HostFields /\ c.cfg = s.cfg
      /\ c.holder = [i \in SeatId |-> IF i \in FreeSeat(s) THEN key ELSE s.holder[i]]
  BY DEF HostFields
<1>2. c.cfg = s.cfg /\ \A i \in SeatId \ FreeSeat(s) : c.holder[i] = s.holder[i]
  BY <1>1
<1> HIDE DEF c
<1>3. DOMAIN RefreshAdvert(c) = HostFields /\ SamePromise(RefreshAdvert(c), c)
  BY <1>1, PublishingKeeps
<1>4. SamePromise(t, RefreshAdvert(c))
  BY <1>3, PublishingKeeps
<1>5. Taken(t) = Taken(c) /\ t.cfg = s.cfg
  BY <1>2, <1>3, <1>4 DEF SamePromise, Taken
<1>6. /\ Taken(s) \in SUBSET SeatId /\ FreeSeat(s) \in SUBSET SeatId
      /\ Taken(c) \in SUBSET (Taken(s) \union FreeSeat(s))
  BY <1>2 DEF Taken, FreeSeat, Lowest
<1>7. Cardinality(FreeSeat(s)) <= 1
  <2>1. SeatId \ Taken(s) \in SUBSET SeatId
    OBVIOUS
  <2> QED
    BY <2>1, LowestFew DEF FreeSeat
<1>8. Cardinality(Taken(c)) <= Cardinality(Taken(s)) + 1
  <2>1. Taken(s) \union FreeSeat(s) \in SUBSET SeatId /\ Taken(c) \in SUBSET SeatId
    BY <1>6
  <2>2. /\ Cardinality(Taken(c)) <= Cardinality(Taken(s) \union FreeSeat(s))
        /\ Cardinality(Taken(c)) \in Nat
        /\ Cardinality(Taken(s) \union FreeSeat(s)) \in Nat
        /\ Cardinality(Taken(s)) \in Nat /\ Cardinality(FreeSeat(s)) \in Nat
    BY <1>6, <2>1, Seats
  <2>3. Cardinality(Taken(s) \union FreeSeat(s)) <= Cardinality(Taken(s)) + Cardinality(FreeSeat(s))
    BY <1>6, SeatsAdded
  <2> QED
    BY <1>7, <2>2, <2>3
<1>9. s.cfg.max \in Int /\ Cardinality(Taken(s)) \in Nat /\ Cardinality(Taken(c)) \in Nat
  <2>1. Taken(c) \in SUBSET SeatId
    BY <1>6
  <2>2. s.cfg.max \in Int
    BY HostLobbyAssumption DEF ValidConfigs
  <2> QED
    BY <1>6, <2>1, <2>2, Seats
<1>10. Cardinality(Taken(s)) >= s.cfg.max \/ Fits(t)
  BY <1>5, <1>8, <1>9 DEF Fits
<1>11. Allocate(s, key) = s \/ (~ (Cardinality(Taken(s)) >= s.cfg.max) /\ Allocate(s, key) = t)
  BY DEF Allocate, c
<1> QED
  BY <1>10, <1>11

\* syncBots seats no more bots than there is room for.
LEMMA SyncBotsFits ==
  ASSUME NEW s, DOMAIN s = HostFields, s.holder \in Rosters, s.cfg \in ValidConfigs, Fits(s)
  PROVE  Fits(SyncBots(s))
<1> DEFINE extra == Bots(s) \ Lowest(Bots(s), s.cfg.bots)
           kept == RemoveSeats(s, extra)
           room == kept.cfg.max - Cardinality(Taken(kept))
           need == s.cfg.bots - Cardinality(Bots(kept))
           more == IF need < room THEN need ELSE room
           new == Lowest(SeatId \ Taken(kept), more)
           k == [kept EXCEPT !.holder = [i \in SeatId |-> IF i \in new THEN Bot ELSE @[i]],
                             !.ready = @ \union new]
<1>1. DOMAIN kept = HostFields /\ Thinned(kept, s)
  <2>1. extra \in SUBSET SeatId
    BY DEF Bots
  <2> HIDE DEF extra
  <2> QED BY <2>1, RemovingSeats
<1>2. SyncBots(s) = k
  BY DEF SyncBots
<1> HIDE DEF kept
<1>3. kept.cfg = s.cfg /\ s.cfg.max \in Nat /\ s.cfg.bots \in Nat
  <2>1. s.cfg.max \in Nat /\ s.cfg.bots \in Nat
    BY HostLobbyAssumption DEF ValidConfigs
  <2> QED
    BY <1>1, <2>1 DEF Thinned
<1>4. Fits(kept)
  <2>1. Shrinks(kept, s)
    BY <1>1 DEF Shrinks, Thinned
  <2> QED
    BY <1>3, <2>1, ShrinksFits
<1>5. k.cfg = s.cfg /\ Taken(k) \in SUBSET (Taken(kept) \union new)
  <2> HIDE DEF new
  <2>1. /\ k.cfg = kept.cfg
        /\ k.holder = [i \in SeatId |-> IF i \in new THEN Bot ELSE kept.holder[i]]
    BY <1>1 DEF HostFields
  <2> HIDE DEF k
  <2> QED
    BY <1>3, <2>1 DEF Taken
<1> HIDE DEF k
<1>6. Taken(kept) \in SUBSET SeatId /\ Bots(kept) \in SUBSET SeatId /\ SeatId \ Taken(kept) \in SUBSET SeatId
  BY DEF Taken, Bots
<1>7. new \in SUBSET SeatId /\ Taken(k) \in SUBSET SeatId
  BY <1>5, <1>6 DEF Lowest
<1>8. Cardinality(Taken(kept)) \in Nat /\ Cardinality(Bots(kept)) \in Nat
  BY <1>6, Seats
<1>9. more \in Int /\ more <= room /\ room \in Nat
  BY <1>3, <1>4, <1>8 DEF Fits
<1>10. Cardinality(new) <= room
  <2>1. CASE more \in Nat
    <3> HIDE DEF more, room
    <3>1. Cardinality(new) \in Nat
      BY <1>7, Seats
    <3>2. Cardinality(new) <= more
      BY <1>6, <2>1, LowestFew
    <3> QED
      BY <1>9, <3>1, <3>2
  <2>2. CASE more \notin Nat
    <3>1. \A i \in SeatId \ Taken(kept) :
            {j \in SeatId \ Taken(kept) : j < i} \in SUBSET SeatId
      OBVIOUS
    <3>2. \A i \in SeatId \ Taken(kept) :
            Cardinality({j \in SeatId \ Taken(kept) : j < i}) \in Nat
      BY <3>1, Seats
    <3> HIDE DEF more, room
    <3>3. more < 0
      BY <1>9, <2>2
    <3>4. \A m \in Nat : ~ (m < more)
      BY <1>9, <3>3
    <3>5. new = {}
      BY <3>2, <3>4 DEF Lowest
    <3> QED
      BY <1>9, <3>5, FS_EmptySet
  <2> QED
    BY <2>1, <2>2
<1> HIDE DEF new
<1>11. Cardinality(Taken(k)) <= Cardinality(Taken(kept)) + room
  <2>1. Taken(kept) \union new \in SUBSET SeatId
    BY <1>6, <1>7
  <2>2. /\ Cardinality(Taken(k)) <= Cardinality(Taken(kept) \union new)
        /\ Cardinality(Taken(k)) \in Nat /\ Cardinality(Taken(kept) \union new) \in Nat
        /\ Cardinality(new) \in Nat
    BY <1>5, <1>7, <2>1, Seats
  <2>3. Cardinality(Taken(kept) \union new) <= Cardinality(Taken(kept)) + Cardinality(new)
    BY <1>6, <1>7, SeatsAdded
  <2> HIDE DEF room
  <2> QED
    BY <1>8, <1>9, <1>10, <2>2, <2>3
<1>12. Cardinality(Taken(k)) <= s.cfg.max
  <2>1. Cardinality(Taken(k)) \in Nat
    BY <1>7, Seats
  <2> QED
    BY <1>3, <1>8, <1>11, <2>1
<1> QED
  BY <1>2, <1>5, <1>12 DEF Fits

\* Dropping the seats beyond the capacity leaves only seats within it.
LEMMA DropSeatsFits ==
  ASSUME NEW s \in Hosts, Sound(s)
  PROVE  Fits(DropSeatsBeyondCapacity(s))
<1> DEFINE few == Lowest(Taken(s), s.cfg.max)
           beyond == Taken(s) \ few
           d == RemoveSeats(s, beyond)
<1>1. DOMAIN s = HostFields /\ s.holder \in Rosters
  BY HasFields DEF Hosts
<1>2. s.cfg.max \in Nat /\ s.cfg.max >= 2
  <2>1. s.cfg \in ValidConfigs
    BY DEF Hosts
  <2> QED
    BY <2>1, HostLobbyAssumption DEF ValidConfigs
<1>3. Taken(s) \in SUBSET SeatId /\ beyond \in SUBSET SeatId
  BY DEF Taken
<1>4. Cardinality(few) <= s.cfg.max
  BY <1>2, <1>3, LowestFew
<1>5. 0 \in few
  <2>1. 0 \in Taken(s)
    BY HostLobbyAssumption DEF Sound, Loose, RosterPart, Taken, SeatId
  <2>2. {j \in Taken(s) : j < 0} = {}
    BY DEF Taken, SeatId
  <2>3. Cardinality({j \in Taken(s) : j < 0}) < s.cfg.max
    BY <1>2, <2>2, FS_EmptySet
  <2> QED
    BY <2>1, <2>3 DEF Lowest
<1>6. d.cfg = s.cfg
  <2> HIDE DEF beyond
  <2> QED
    BY <1>1, <1>3, RemovingSeats DEF Thinned
<1>7. d.holder = [i \in SeatId |-> IF i \in {j \in beyond : s.holder[j] \notin {HostKey, Nobody}}
                                   THEN Nobody ELSE s.holder[i]]
  <2> HIDE DEF beyond
  <2> QED
    BY <1>3, RemoveSeatsGood
<1>8. DropSeatsBeyondCapacity(s) = d
  BY DEF DropSeatsBeyondCapacity
<1> HIDE DEF d
<1>9. Taken(d) \in SUBSET few
  <2>1. SUFFICES ASSUME NEW i \in SeatId, d.holder[i] # Nobody, i \notin few
                 PROVE  FALSE
    BY DEF Taken
  <2>2. s.holder[i] # Nobody /\ i \in beyond
    BY <1>7, <2>1 DEF Taken
  <2>3. s.holder[i] = HostKey
    BY <1>7, <2>1, <2>2
  <2>4. i = 0
    BY <2>3 DEF Sound, Loose, RosterPart
  <2> QED
    BY <1>5, <2>1, <2>4
<1>10. few \in SUBSET SeatId
  BY <1>3 DEF Lowest
<1> HIDE DEF few
<1>11. /\ Cardinality(Taken(d)) <= Cardinality(few)
       /\ Cardinality(Taken(d)) \in Nat /\ Cardinality(few) \in Nat
  BY <1>9, <1>10, Seats
<1> QED
  BY <1>2, <1>4, <1>6, <1>8, <1>11 DEF Fits

\* The same, of whatever keeps the seats and the settings of t.
LEMMA SameFits ==
  ASSUME NEW t, NEW u, SamePromise(u, t), Fits(t)
  PROVE  Fits(u)
<1>1. Taken(u) = Taken(t) /\ u.cfg = t.cfg
  BY DEF SamePromise, Taken
<1> QED
  BY <1>1 DEF Fits

\* Reconfigure: a match in play keeps its settings, a lobby drops who is beyond.
LEMMA ApplySettingsFits ==
  ASSUME NEW s \in Hosts, Good(s), Fits(s), NEW c \in ValidConfigs
  PROVE  Fits(ApplySettings(s, c))
<1> DEFINE people == Cardinality(People(s))
           max == IF c.max < people THEN people ELSE c.max
           cfg == [max |-> max, bots |-> IF c.bots > max - 1 THEN max - 1 ELSE c.bots]
           a == [s EXCEPT !.cfg = cfg]
           b == [a EXCEPT !.gen = s.gen + 1]
           r == ClearReady([b EXCEPT !.phase = "open"])
           k == SyncBots(r)
           d == DropSeatsBeyondCapacity(k)
<1>1. people \in 0 .. NumSeats
  <2>1. IsFiniteSet(SeatId) /\ Cardinality(SeatId) = NumSeats
    BY HostLobbyAssumption, FS_Interval DEF SeatId
  <2>2. People(s) \in SUBSET SeatId /\ SeatId \in SUBSET SeatId
    BY DEF People, Taken
  <2>3. people \in Nat /\ people <= Cardinality(SeatId)
    BY <2>1, <2>2, Seats
  <2> HIDE DEF people
  <2> QED BY HostLobbyAssumption, <2>1, <2>3
<1>2. cfg \in ValidConfigs
  <2> HIDE DEF people
  <2> QED BY <1>1, HostLobbyAssumption DEF ValidConfigs
<1>3. a \in Hosts /\ s.gen + 1 \in Nat
  <2>1. s.gen + 1 \in Nat
    BY DEF Hosts
  <2> HIDE DEF cfg
  <2> QED BY <1>2, <2>1, FieldUpdates
<1>4. b \in Hosts
  <2> HIDE DEF a
  <2> QED BY <1>3, FieldUpdates
<1>5. /\ b.holder = s.holder /\ b.phase = s.phase /\ b.record = s.record
      /\ b.ready = s.ready /\ b.coasting = s.coasting /\ b.signed = s.signed
      /\ b.matchID = s.matchID /\ b.matchPlayers = s.matchPlayers
      /\ b.stored = s.stored /\ b.sim = s.sim
  <2> HIDE DEF cfg
  <2> QED BY DEF Hosts
<1>6. [b EXCEPT !.phase = "open"] = [s EXCEPT !.cfg = cfg, !.gen = @ + 1, !.phase = "open"]
  <2> HIDE DEF cfg
  <2> QED BY DEF Hosts
<1>7. ApplySettings(s, c) =
        IF s.phase \notin {"open", "countdown"} THEN BroadcastLobby(s)
        ELSE BroadcastLobby(RefreshAdvert(d))
  BY <1>6 DEF ApplySettings
<1> HIDE DEF b
<1>8. Loose(b)
  BY <1>4, <1>5 DEF Good, Sound, Loose, RosterPart, RecordPart, FreshMatch, Taken, Bots, People, Remotes
<1>9. r \in Hosts /\ Sound(r) /\ r.phase = "open"
  BY <1>4, <1>8, ReopenKeepingSim
<1> HIDE DEF r
<1>10. k \in Hosts /\ Sound(k)
  BY <1>9, SyncBotsSound
<1> HIDE DEF k
<1>11. d \in Hosts /\ Fits(d)
  <2>1. Taken(k) \ Lowest(Taken(k), k.cfg.max) \in SUBSET SeatId
    BY DEF Taken
  <2>2. d \in Hosts
    BY <1>10, <2>1, RemoveSeatsGood DEF DropSeatsBeyondCapacity
  <2> QED BY <1>10, <2>2, DropSeatsFits
<1> HIDE DEF d
<1>12. DOMAIN RefreshAdvert(d) = HostFields /\ SamePromise(RefreshAdvert(d), d)
  BY <1>11, HasFields, PublishingKeeps
<1>13. Fits(BroadcastLobby(RefreshAdvert(d)))
  <2>1. SamePromise(BroadcastLobby(RefreshAdvert(d)), RefreshAdvert(d))
    BY <1>12, PublishingKeeps
  <2> QED BY <1>11, <1>12, <2>1, SameFits
<1>14. Fits(BroadcastLobby(s))
  <2>1. SamePromise(BroadcastLobby(s), s)
    BY HasFields, PublishingKeeps
  <2> QED BY <2>1, SameFits
<1> QED BY <1>7, <1>13, <1>14

\* newHost: the host and as many bots as there is room for.
LEMMA InitFits == Init => Fits(h)
<1> SUFFICES ASSUME NEW c \in Configs, h = InitHost(c)
             PROVE  Fits(h)
  BY DEF Init
<1> DEFINE empty == [phase |-> "open", holder |-> [i \in SeatId |-> IF i = 0 THEN HostKey ELSE Nobody],
                ready |-> {}, coasting |-> {}, signed |-> {},
                silence |-> [i \in SeatId |-> 0], cfg |-> c, gen |-> 0,
                sim |-> NoSim, matchPlayers |-> [i \in SeatId |-> Nobody],
                matchID |-> 0, countdown |-> 0, lastCount |-> 0,
                record |-> NoRecord, attest |-> 0, stored |-> {},
                advert |-> [cfg |-> c, phase |-> "open", taken |-> {}, bots |-> {}],
                view |-> [phase |-> "open", gen |-> 0, cfg |-> c,
                          holder |-> [i \in SeatId |-> Nobody], ready |-> {},
                          connected |-> {}, countdown |-> 0]]
           k == SyncBots(empty)
<1>1. /\ DOMAIN empty = HostFields /\ empty.holder \in Rosters /\ empty.cfg = c
      /\ empty.holder = [i \in SeatId |-> IF i = 0 THEN HostKey ELSE Nobody]
  BY DEF HostFields, Rosters, Holders
<1>2. h = BroadcastLobby(RefreshAdvert(k))
  BY DEF InitHost
<1> HIDE DEF empty
<1>3. c \in ValidConfigs /\ c.max \in Nat /\ c.max >= 2
  BY HostLobbyAssumption DEF ValidConfigs
<1>4. Fits(empty)
  <2>1. Taken(empty) = {0}
    BY <1>1, HostLobbyAssumption DEF Taken, SeatId
  <2>2. Cardinality({0}) = 1
    BY FS_Singleton
  <2> QED
    BY <1>1, <1>3, <2>1, <2>2 DEF Fits
<1>5. Fits(k)
  BY <1>1, <1>3, <1>4, SyncBotsFits
<1>6. DOMAIN k = HostFields
  <2>1. empty.phase = "open"
    BY DEF empty
  <2> QED
    BY <1>1, <2>1, Syncing
<1> HIDE DEF k
<1>7. DOMAIN RefreshAdvert(k) = HostFields /\ SamePromise(RefreshAdvert(k), k)
  BY <1>6, PublishingKeeps
<1>8. SamePromise(h, RefreshAdvert(k))
  BY <1>2, <1>7, PublishingKeeps
<1> QED
  BY <1>5, <1>7, <1>8, SameFits

\* A pass, whatever it does to the phase and the record, seats nobody.
LEMMA HousekeepingFits ==
  ASSUME h \in Hosts, Fits(h), Housekeeping
  PROVE  Fits(h')
<1> PICK written \in BOOLEAN : h' = HousekeepingPass(h, written)
  BY DEF Housekeeping
<1> DEFINE s == CheckLiveness(h)
           t == RunPhase(s)
<1>1. DOMAIN s = HostFields /\ Shrinks(s, h)
  BY Dropping DEF Shrinks, Thinned
<1> HIDE DEF s
<1>2. DOMAIN t = HostFields /\ t.holder = s.holder /\ t.cfg = s.cfg
  BY <1>1, Passing DEF SamePromise, Counting, Playing, Reopened
<1> HIDE DEF t
<1>3. h' = CloseAttestation(t, written)
  BY DEF HousekeepingPass, s, t
<1>4. h'.holder = t.holder /\ h'.cfg = t.cfg
  BY <1>2, <1>3, Closing DEF Closed
<1>5. Shrinks(h', h)
  BY <1>1, <1>2, <1>4 DEF Shrinks, Emptied
<1> QED
  BY <1>5, ShrinksFits, HostLobbyAssumption DEF Hosts, ValidConfigs

\* Seats vacated one at a time.
LEMMA VacatingShrinks ==
  ASSUME NEW s, DOMAIN s = HostFields, s.holder \in Rosters, NEW i \in SeatId
  PROVE  Shrinks(BroadcastLobby(RemoveSeats(s, {i})), s)
<1> DEFINE k == RemoveSeats(s, {i})
<1>1. DOMAIN k = HostFields /\ Shrinks(k, s)
  BY RemovingSeats DEF Shrinks, Thinned
<1> HIDE DEF k
<1>2. SamePromise(BroadcastLobby(k), k)
  BY <1>1, PublishingKeeps
<1>3. Shrinks(BroadcastLobby(k), s)
  BY <1>1, <1>2 DEF Shrinks, Emptied, SamePromise
<1> QED
  BY <1>3 DEF k

\* A message from a client seats nobody.
LEMMA ClientShrinks ==
  ASSUME h \in Hosts, NEW i \in SeatId, FromClient(i)
  PROVE  Shrinks(h', h)
<1> DEFINE s == Heard(h, i)
<1>1. DOMAIN h = HostFields /\ h.holder \in Rosters
  BY HasFields DEF Hosts
<1>2. DOMAIN s = HostFields /\ s.holder = h.holder /\ s.cfg = h.cfg
  BY <1>1, Hearing DEF SamePromise
<1>3. \/ \E ready \in BOOLEAN, gen \in 0 .. h.gen : h' = SetReady(s, i, ready, gen)
      \/ \E match \in 1 .. h.matchID, key \in Keys : h' = AddAttestation(s, i, match, key)
      \/ h' = BroadcastLobby(RemoveSeats(s, {i}))
      \/ h' = s
      \/ h' = BroadcastLobby(RemoveSeats(h, {i}))
  BY DEF FromClient, ClientReady, ClientAttestation, ClientLeave, ClientPing, Disconnect, s
<1> HIDE DEF s
<1>4. Shrinks(s, h)
  BY <1>2, SameShrinks
<1>5. ASSUME NEW ready \in BOOLEAN, NEW gen, h' = SetReady(s, i, ready, gen)
      PROVE  Shrinks(h', s)
  BY <1>2, <1>5, Readying, SameShrinks
<1>6. ASSUME NEW match, NEW key, h' = AddAttestation(s, i, match, key)
      PROVE  Shrinks(h', s)
  BY <1>2, <1>6, Signing, SameShrinks
<1>7. CASE h' = BroadcastLobby(RemoveSeats(s, {i}))
  BY <1>1, <1>2, <1>4, <1>7, VacatingShrinks, ShrinksOn
<1>8. CASE h' = BroadcastLobby(RemoveSeats(h, {i}))
  BY <1>1, <1>8, VacatingShrinks
<1> QED
  BY <1>3, <1>4, <1>5, <1>6, <1>7, <1>8, ShrinksOn

\* Every handler keeps the seats within the capacity.
LEMMA NextFits == IInv /\ Fits(h) /\ [Next]_h => Fits(h')
<1> SUFFICES ASSUME IInv, Fits(h), [Next]_h
             PROVE  Fits(h')
  OBVIOUS
<1>1. h \in Hosts /\ (Running => Good(h))
  BY DEF IInv, Good, Sound, Loose
<1>2. DOMAIN h = HostFields /\ h.holder \in Rosters /\ h.cfg \in ValidConfigs /\ h.cfg.max \in Nat
  BY <1>1, HasFields, HostLobbyAssumption DEF Hosts, ValidConfigs
<1>3. ASSUME Shrinks(h', h) PROVE Fits(h')
  BY <1>2, <1>3, ShrinksFits
<1>4. CASE Housekeeping
  BY <1>1, <1>4, HousekeepingFits
<1>5. ASSUME NEW dead \in SUBSET h.sim.alive, Tick(dead) PROVE Fits(h')
  <2> DEFINE s == [h EXCEPT !.sim = Eliminate(@, dead)]
  <2>1. DOMAIN s = HostFields /\ s.holder = h.holder /\ s.cfg = h.cfg
    BY <1>2 DEF HostFields
  <2>2. h' \in {EndMatch(s), s}
    BY <1>5 DEF Tick
  <2> HIDE DEF s
  <2>3. h'.holder = h.holder /\ h'.cfg = h.cfg
    BY <2>1, <2>2, Ending
  <2> QED
    BY <1>3, <2>3, SameShrinks
<1>6. ASSUME NEW key \in Keys, Join(key) PROVE Fits(h')
  BY <1>2, <1>6, AllocateFits DEF Join
<1>7. ASSUME NEW i \in SeatId, FromClient(i) PROVE Fits(h')
  BY <1>1, <1>3, <1>7, ClientShrinks
<1>8. CASE FromHostPlayer
  <2>1. ASSUME NEW ready \in BOOLEAN, HostReady(ready) PROVE Fits(h')
    BY <1>2, <1>3, <2>1, Readying, SameShrinks DEF HostReady
  <2>2. ASSUME NEW i \in SeatId, Kick(i) PROVE Fits(h')
    BY <1>2, <1>3, <2>2, VacatingShrinks DEF Kick
  <2>3. ASSUME NEW c \in Configs, Reconfigure(c) PROVE Fits(h')
    <3>1. c \in ValidConfigs
      BY HostLobbyAssumption
    <3> QED
      BY <1>1, <2>3, <3>1, ApplySettingsFits DEF Reconfigure
  <2>4. CASE Shutdown
    <3> DEFINE c == [h EXCEPT !.phase = "closed"]
    <3>1. DOMAIN c = HostFields /\ c.holder = h.holder /\ c.cfg = h.cfg
      BY <1>2 DEF HostFields
    <3>2. h' = RefreshAdvert(c)
      BY <2>4 DEF Shutdown
    <3> HIDE DEF c
    <3>3. h'.holder = h.holder /\ h'.cfg = h.cfg
      BY <3>1, <3>2, PublishingKeeps DEF SamePromise
    <3> QED
      BY <1>3, <3>3, SameShrinks
  <2> QED BY <1>8, <2>1, <2>2, <2>3, <2>4 DEF FromHostPlayer
<1>9. CASE Elapse
  <2>1. h'.holder = h.holder /\ h'.cfg = h.cfg
    BY <1>2, <1>9 DEF Elapse, HostFields
  <2> QED
    BY <1>3, <2>1, SameShrinks
<1>10. CASE UNCHANGED h
  BY <1>10
<1> QED BY <1>4, <1>5, <1>6, <1>7, <1>8, <1>9, <1>10 DEF Next

\* Joins, bots and a capacity lowered in a full lobby never leave more seats
\* taken than the settings allow.
THEOREM CapacityKept == Spec => []WithinCapacity
<1>1. Init => Fits(h)
  BY InitFits
<1>2. IInv /\ Fits(h) /\ [Next]_h => Fits(h)'
  BY NextFits DEF Fits, Taken
<1>3. Fits(h) => WithinCapacity
  BY DEF Fits, WithinCapacity
<1> QED
  BY <1>1, <1>2, <1>3, Invariant, PTL DEF Spec
=============================================================================
