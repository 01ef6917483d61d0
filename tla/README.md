# A TLA+ model of tailsnail

tailsnail is a terminal snake game for the players of one tailnet. There is no
server in the middle: every install embeds a Tailscale node, finds the others by
probing them, hosts a lobby or joins one, and keeps a signed history of matches
that spreads between installs. This directory models the parts where goroutines,
messages, timers and bounded channels decide what a player sees, checks them
with TLC on small instances, and proves the central invariants with TLAPS for
every value of the constants.

All paths below are under `src/internal` unless they begin with `src/`.

- [Inventory](#inventory): the parts of the program
- [Modules](#modules): which module models which part, and how
- [Runs](#runs): what each run checks and shows
- [Bounds](#bounds), [fairness](#fairness)
- [Proofs](#proofs)
- [Limits](#limits): what is only model-checked, and what is not modelled
- [Plan](#plan): what comes next

## Inventory

| Part | Code | State | Operations | Talks to |
|---|---|---|---|---|
| Lobby host | `netplay/host.go` | `Host`: phase, seats, readiness, settings and their generation, countdown, simulation, kickoff roster, pending record | join, leave, kick, ready, rename, settings, bots, input, ping, attestation; housekeeping every 200 ms; game ticks; close | one command channel, served by one goroutine; seats; store; advert read by the listener |
| Seats | `netplay/host.go` | an outbox of 32 messages per remote seat; a reader, a writer and a closing timer | `sendTo`, `broadcastLobby`, `removeSeat`, `closeSeat`, `writeLoop`, `readLoop` | the hosting goroutine on one side, a TCP connection on the other |
| Server | `netplay/server.go` | the lobby being hosted | `Host`, `Shutdown`; serve a probe, a join, a gossip round | interface, lobbies, peers |
| Client session | `netplay/client.go` | generation and match last heard of, time last heard, why it closed; 256 events | `readLoop`, `pingLoop`, `emit`, `send`, `SetReady`, `Close` | the host over TCP; the interface over the event channel |
| Game rules | `game/sim.go`, `types.go`, `spawn.go` | snakes, pellets, tick, deaths | `QueueInput`, `SetCoasting`, `Eliminate`, `Step` | the host's goroutine only |
| Guesses | `game/bot.go`, `predict.go` | none | the bot's next heading; the client's next heading | the simulation's rules, repeated |
| Records | `proto/match.go` | result, signatures | hash, sign, verify, `AddSignature` | host, store, gossip |
| Store | `store/store.go` | records in memory, a file each | `Put`, `Get`, `Inventory`, load | host, gossip, history screen |
| Gossip | `gossip/gossip.go` | none beyond the exchange | dialling half, listening half | store; connections of discovery and of the server |
| Discovery | `discovery/discovery.go` | a cache entry per node: answered, back-off, stamps | `sweep`, `probe`, `prune`, `due`, `publish`, `Refresh` | netmap, peers, browser |
| Node | `tsnode/tsnode.go` | the status folded from the backend's notifications; 16 updates | `watch`, `handle`, `publish` | the Tailscale backend's bus; interface |
| Feed | `netplay/events.go`, `Host.emit`, `Client.emit` | a channel of 256 events per session | emit, drop, close; one reading command at a time | a session on one side, the interface on the other |
| Interface | `ui/` | the screen in front and where it returns to, the session attached and its generation, roster, board, browser list, onboarding, dialogs | one goroutine of messages, keys and commands | all of the above |
| Wire | `proto/proto.go`, `frame.go` | a write lock and a deadline per connection | send, receive, with or without deadline | every connection |
| Files | `store/identity.go`, `settings.go`, `paths.go` | key, name, settings | load, save | interface |
| Log | `logring/logring.go` | a ring of lines and a mirror | append, snapshot, mirror | everyone |
| Entry, build | `src/cmd/tsnail/main.go`, scripts, workflows | | start, stop | |

What is hard in it:

- **Deadlines that overlap.** A finished match keeps a four-second window for
  signatures while the lobby is already open again, and a countdown takes three
  seconds. Silence is counted beside both.
- **Bounded channels that drop.** Outboxes, event channels, status updates and
  snapshots each drop something when full, and each claims to drop only what may
  be lost. Removing a seat happens inside the broadcast that found it full.
- **Lifetimes that cross.** A lobby ends on its own goroutine after `Close` has
  returned; a join may be on its way to it; the process may be exiting; another
  lobby may have taken its place.
- **Decisions about stale state.** Ready quotes settings, a browser lists what
  was answered some time ago, a client and a bot guess what the simulation will do.
- **Copies that must converge.** Records are append-only, merged signature by
  signature, on disks that may refuse and connections that may be cut.
- **A backend that comes and goes.** Notifications are lost when the bus breaks.
- **One deadline for three senders.** The goroutines of a client set and clear the
  write deadline of one connection around writes that wait for each other.
- **Messages to a screen that has moved on.** A lobby becomes ready, ends or
  reports a match while settings, the form or another lobby are in front.

`PROJECT.json` lists every hazard at its line, with the properties aimed at it.
What makes each part correct:

- *Host*: a roster without doubles, within capacity and always published; the
  board agreed at kickoff is the board played; one record per match, signed by
  players only; nobody waits for ever.
- *Seats*: frames in order, only frames lost, every roster reaches everyone,
  each channel closed once and never sent on afterwards, goroutines end.
- *Server*: joins end in a lobby that is run, or are closed; what is shown is
  what is hosted; players are told before the process exits.
- *Client*: an end that is always explained, truly, and always shown.
- *Rules*: bodies stay chains, apart from each other; kills are earned; the seat
  number gives no advantage; the result ranks everyone and is final.
- *Store and gossip*: no record is lost, no count of signatures falls; halves stay in
  lockstep; copies converge.
- *Discovery*: what is listed was open, what answered is listed, the list settles.
- *Node*: the newest status arrives, the menu is reached, errors pass.
- *Interface*: what is shown is the lobby one is in; no open lobby is left behind
  the screen; the end of a lobby is noticed; no screen is left without its session.

## Modules

Every model module carries the code's names; `map` in `PROJECT.json` gives the
lines of each definition. An `MC` module of the same name instantiates it.

**HostLobby** is the state of the `Host` struct as one variable, `h`, because one
goroutine owns it: each command, housekeeping pass and game tick is one action.
The methods a handler calls are operators from a Host value to a Host value,
composed in the order of the calls, so that a handler that resets the lobby and
then goes on with what it computed before is modelled with that order. The
simulation is reduced to who plays, lives and coasts. Time is `silence`,
`countdown` and `attest`, moved by `Elapse`. Sends always succeed here.

**MatchCycle** is what that loop promises about matches and records, without
seats' flags, handlers or their order: nine variables and eleven actions, among
them `Gather` (everybody left is ready, and is the board), `Play`, `Finish`,
`Sign`, `Settle` and `Wait`. HostLobby instantiates it as `Cycle`, with the fields
of `h` for its variables (the board is `h.startSeats`, the window `h.attest`), and
`MatchesAsPromised` says that HostLobby implements it. Three things the loop does
are part of the promise because it does them, and are named in the module: closing
a record reopens the lobby in any phase, a match that finishes before the last
record is closed takes its place, and closing the lobby drops the pending record.

**Outbox** is the other half: how what the host says reaches seats. A handler is
an *agenda*, a list of sends still to do; one entry is done at a time, between
which writers, readers and timers run. An overflow pushes the removal of the seat
in front of the rest, as the nested call does. A roster is stale as soon as seats
or phase have changed.

**HostServer** gives `Server.host` its interleavings: each call of `Server.Host`
reads, closes and writes in steps of its own; each lobby runs, is cancelled,
drains and unregisters itself; each connection reads the registry, is handed
over, waits to be seated; quitting, signals and `Shutdown` come at any moment.

**ClientSession** has the three goroutines of a client and the screen, the event
channel with its rules for dropping, and the three steps that end a session (say
why, cancel, close), taken by whichever goroutine is first. Each of the three also
sends: a send sets the connection's deadline, waits for its turn (`Conn.wmu`),
writes, and clears the deadline after its turn, as `SendTimeout` does. The screen
is one goroutine, so it takes no event while it sends or says goodbye. A host that
vanished takes no more bytes once what lies between is full (`ConnectionStalls`).

**SnakeSim** is the simulation: `SetDirection`, `SetCoasting`, `Eliminate`, `Step`,
the spawn of one to eight snakes and the end with its ranking, in an arena that has
walls or wraps. Spawn positions are computed in integers from tables of sines and
cosines. They are those of the code's floating-point arithmetic: recomputed with the
algorithms of Go's `math` package they agree for every number of seats and all arenas of
4 x 4 to 160 x 160. One angle needs care (`Hair`): at three right angles the cosine is a
little below zero, which decides how half a cell is rounded. **Steering** extends
SnakeSim with the bot's choice and the client's prediction, and compares them with
what the simulation does.

**Gossip** is the store (memory and disk, `Put` with its merge, the array two
slices share) and the exchange, each half at its own pace, any number of pairs at
once, beside matches being recorded.

**Discovery** is the prober: one sweep at a time, its probes side by side, in a
tailnet where nodes come and go and lobbies open and close, and the browser that
takes its snapshots.

**TsNode** is `watch` and `handle` folding the backend's notifications into a
status, the dropping channel, and the interface that turns statuses into the
onboarding screen, the success beat and the menu. The backend's actions (states,
login URLs, complaints) are external, modelled from how `handle` reads them.

**Screens** is the interface around a lobby. One goroutine runs `Model.Update`, so
the `Model` is one variable, `m`: the screens (`front`, the one in front and behind
it the one it returns to), the session attached, the generation of events that are
wanted, and what roster and board are shown. Each message and each key is an
action. `feed` holds the sessions: what their lobby does next and tells, the
bounded channel that `Host.emit` never waits for and `Client.emit` does, and the
one read of it that is under way.

The proofs are in **HostLobbyProofs** (with the refinement of MatchCycle),
**OutboxProofs**, **TailnetProofs** (HostServer and Discovery), **ClientSessionProofs**,
**SteeringProofs** (SnakeSim and Steering), **GossipProofs**, **TsNodeProofs** and
**ScreensProofs**. Discovery has names of its own for its specification and type
(`ProberSpec`, `ProberTypeOK`), so that one module can extend it beside HostServer.

How they fit together: a join passes from HostServer (handed over) to HostLobby
(seated) to Outbox (served) and is a ClientSession on the other side; each module
leaves what another decides as free as that other allows. A match is a SnakeSim
under HostLobby, whose record enters Gossip through `Recorded`. Discovery reads
the advert HostLobby keeps. TsNode decides whether any of it is on the screen,
and Screens which part of it.

## Runs

Runs that pass:

| Run | Configuration | Shows |
|---|---|---|
| `host_match` | `HostLobby.cfg` | two matches in a row, two clients, a bot and one change of settings: nobody sits twice (`RosterSound`), no handler leaves roster or advert unpublished (`ViewsCurrent`), the board is the one agreed at kickoff (`KickoffAgreed`), those who left have lost (`LeaversForfeit`), there is one record per match, signed by players only (`RecordsSound`), and every handler is a step of MatchCycle (`MatchesAsPromised`): a match is played only when everybody is ready on the board and settings counted down, and a window closed early misses nobody who is still there |
| `host_live` | `HostLobby_live.cfg` | a ready lobby plays (`ReadyLobbyPlays`), a silent client's seat becomes free (`SilentSeatsFreed`), a record is not kept pending for ever (`RecordSettled`) |
| `outbox_roster` | `Outbox.cfg` | outboxes of one message and two clients as slow as they like: a roster that was broadcast is the last one each client is sent (`RosterReaches`) |
| `outbox_end` | `Outbox_end.cfg` | frames push each other out and never overtake (`FramesInOrder`); a handler finishes with no client running at all (`HandlersFinish`); the goroutines of a removed seat end if its writes and timer do (`GoroutinesEnd`) |
| `server_lobbies` | `HostServer.cfg` | what is registered is run or about to be (`NoDeadLobby`), whoever is seated is served (`SeatsAreServed`), a join is answered (`JoinsSettle`), a closed lobby lets its clients go (`ClosedLobbyLetsGo`) |
| `client_session` | `ClientSession.cfg` | the reason shown is true (`EndExplained`), the settings on the screen never go back (`ShownNeverOlder`), the end is shown however the host ends, unless a write is stuck for ever (`EndIsShown`) |
| `sim_match` | `Steering.cfg` | three snakes, one of them leaving or coasting between ticks, with walls and on a torus: bodies stay chains (`BodiesHold`), the result ranks everyone (`ResultRanks`), however the snakes are seated, the next move does the same to each (`NoSeatAdvantage`, all but the places of those who die together, and kills where two bodies lie in one cell), the bot takes a survivable cell when there is one (`BotSurvives`), the client's guess is what the host does (`PredictionHolds`) |
| `gossip_spread` | `Gossip.cfg` | a line of three peers, batches of one record, a cut or restart and a refused write anywhere: halves in lockstep (`InStep`), no signature is lost until a write is refused and, refused or not, no record is lost and none has fewer signatures than before (`HistoryKept`), records and signatures travel two hops (`HistorySpreads`, `AttestationSpreads`) |
| `discovery_settles` | `Discovery.cfg` | a player and a silent node, lost probes and a netmap that cannot be read: entries and probes agree (`ProberTypeOK`), what is listed was open lately (`ListedWasOpen`), the browser settles (`BrowserSettles`) |
| `node_status` | `TsNode.cfg` | the newest status is on screen or last in the channel (`NewestArrives`), what the backend is comes to be shown (`BackendArrives`), a node that stays connected gets its player to the menu (`ReachesMenu`) |
| `ui_session` | `Screens.cfg` | two attempts to host or join, in any order with keys, events and the loss of the node: once all is taken in, roster and board are those of the lobby one is in (`ShowsThisLobby`); only settings and the form bring a dead screen back (`StaleOnlyByReturn`); attempts made one after the other leave no lobby open behind the screen (`LobbyNotLost`); the end of a lobby is noticed though its event may be lost (`EndNoticed`) |

One run ends in a violation: it checks what the README of the repository says,
and TLC shows an execution of the code that does otherwise.

| Run | Property | What happens |
|---|---|---|
| `host_abort` (`HostLobby_abort.cfg`) | `CountdownAbortedByPlayers` | closing the attestation window of the last match calls off the next countdown |

Every property of a passing run has a mutant in `PROJECT.json`: a definition
changed as a plausible mistake would change the code, under which TLC finds the
property violated. The changed forms stand beside the definition they change,
marked `Fault:`.

`CHECK_DEADLOCK FALSE` stands where the system really stops: a lobby is closed,
a process exits, a session ends, a match is over, a handler has nothing left to
do; and where a bound ends the last action. Gossip and Discovery never stop and
are checked for deadlock.

### Stated in a module, in no run

These properties are proved, and hold in the configurations above when they are added:
`WithinCapacity` and `SignedMeansSigned` (HostLobby), `PanicsOnlyBehind` (Outbox),
`GrowthAccounted`, `KillsEarned` and `ResultFinal` (SnakeSim), `OnboardingEnds`
(TsNode) and the type invariants of the other modules.

### Where code and comments disagree

Each of these properties says what a comment of the code or the README of the
repository says, and TLC finds an execution of the code that does otherwise. Put
it in the configuration named, in place of its properties, with the constants
given, and run the `MC` module.

| Property | Configuration | What happens |
|---|---|---|
| `MatchRunsToItsEnd` | `HostLobby.cfg` | the window of the last match closes during the next match, and ends it without a result; a countdown is three seconds, the window four (`host.go:678`) |
| `RecordSurvivesClose` | `HostLobby.cfg` | a lobby closed within the window loses the record, which `README.md:379` says is stored without the missing signatures (`host.go:301`) |
| `SettingsKeepPeople` | `HostLobby.cfg`, `Configs <- MCShrinking` | lowering the seats removes a person and keeps a bot; `host.go:894` says people put a floor under the seat count |
| `SilentSnakesCoast` | `HostLobby.cfg` | a seat silent before play starts does not coast (`host.go:382`, `README.md:292`) |
| `NoSendOnClosed` | `Outbox.cfg` | a handler sends to a seat its own broadcast has just closed, which panics (`host.go:1174`); that this takes a client that fell behind, and that no channel is closed twice, is proved (`PanicsOnlyBehind`) |
| `OnlyFramesLost` | `Outbox_end.cfg` | a frame or ping displaces a message that must arrive; `host.go:1183` says the oldest queued frame is discarded |
| `RosterReachesAll` | `Outbox.cfg` | nobody is told of a seat dropped for falling behind (`host.go:1180`) |
| `ShownIsHosted` | `HostServer.cfg`, `MaxPending = 1` | the lobby left unregisters the one opened after it (`host.go:315`) |
| `OneLobbyOpen` | `HostServer.cfg` | two submissions of the form leave two lobbies open; `server.go:282` says Host replaces the one running |
| `ToldBeforeExit` | `HostServer.cfg` | the process exits with goodbyes still queued, for which `server.go:304` says Shutdown waits |
| `SeatedWhereAsked` | `HostServer.cfg` | a join for a replaced lobby is seated in the new one; `allocate` never looks at the lobby asked for (`host.go:751`) |
| `ReadySawSettings` | `ClientSession.cfg` | ready quotes settings still in the event channel; `README.md:254` says it quotes those it was decided under (`client.go:201`) |
| `OnlyFramesDropped` | `ClientSession.cfg` | a frame displaces a roster in the event channel (`client.go:461`) |
| `ReaderEnds` | `ClientSession.cfg` | with nobody left to take events, the reader waits for ever (`client.go:305`) |
| `SendsGiveUp` | `ClientSession.cfg` | one goroutine clears the deadline of another's write, which then waits for ever, be it the interface's own: it may be the goodbye inside `closeOnce`, on which the goroutine that would give up on the host then waits; `client.go:236` says a send gives up rather than block (`frame.go:142`) |
| `BodiesApart` | `Steering.cfg`, `NumSnakes = 2`, `Unsteady = {}`, `MaxTick = 8` | a head enters the tail of a snake that eats in that move (`sim.go:137`) |
| `TiesGoToTheLonger` | the same | deaths of one move are ranked by seat before length (`sim.go:366`) |
| `HeadOnCreditsNobody` | the same | two heads that swap cells each get a kill (`sim.go:191`) |
| `SignaturesConverge` | `Gossip.cfg`, `Recorded <- Diverged`, `Pairs <- Both`, `Peers = {a, b}`, no cuts or refusals | equally many, different signatures are never merged (`gossip.go:79`) |
| `AppendOnly` | `Gossip.cfg`, `Pairs <- Both`, `Peers = {a, b}`, no cuts | a refused write takes a signature out of memory, whose array the merge shares (`store.go:128`) |
| `SweepListsAnswers` | `Discovery.cfg`, `Nodes = {p, s, t, u}`, `Silent = {s, t, u}`, no changes, losses or refreshes | a sweep over many silent nodes forgets who answered at its start (`discovery.go:491`) |
| `ForcedAsksKnown` | `Discovery.cfg`, `MaxConcurrentProbes = 2` | a refresh skips a peer whose last probe failed (`discovery.go:346`) |
| `BackoffStartsAtQuietTTL` | `Discovery.cfg` | the first back-off is twice that (`discovery.go:385`) |
| `TransientErrorsPass` | `TsNode.cfg` | the error of a broken bus outlives its repair (`tsnode.go:374`) |
| `ExpiryDropsBack` | `TsNode.cfg` | a login needed during the success beat ends in the menu (`app.go:373`) |
| `LogoutExplained` | `TsNode.cfg` | a device logged out past onboarding stays where it is (`app.go:370`) |
| `ArenaNotLeftOnScreen` | `Screens.cfg` | settings opened in the arena return to it after the match (`settings.go:235`); `app.go:456` says the arena is not left on screen |
| `OnlyTicksLost` | `Screens.cfg` | with its channel full `Host.emit` loses any event; `host.go:1276` says everything else must arrive |
| `NothingLeftOpen` | `Screens.cfg` | a lobby that becomes ready while another is attached leaves that one open (`app.go:430`); quitting then leaves one lobby, where `menu.go:70` says any |
| `ReachesMenu` | `TsNode.cfg`, `Depth = 1` | the dropped status was the one that said running (`tsnode.go:510`); the code has a channel of sixteen |

## Bounds

Constants that are the program's are scaled keeping their order; constants that
only end the exploration are called bounds in the modules.

| Constant | Code | In the runs | Why that is enough |
|---|---|---|---|
| `Keys`, `NumSeats` | any peers, 8 seats | 1-2 clients, 2-3 seats | a seat has its own flags, and no handler compares more than two clients; the host, a client that acts, one that waits and a bot are all there. Clients are symmetric. |
| `CountdownTicks`, `AttestTicks` | 3 s, 4 s | 1, 2 and 2, 3 | the window outlives the countdown, as in the code |
| `CoastTicks`, `DropTicks` | 4 s, 10 s | 1, 2 | first marked, then dropped |
| `MaxGen`, `MaxMatches` | unbounded | 1 and 2 | the second match meets the record of the first; the settings change meets ready marks, countdown and record |
| `Depth` (Outbox) | 32 | 1-2 | overflow is reached from every state; two places and a writer leave frames room to overtake each other |
| `MaxFrames` (Outbox) | unbounded | 1, 3 | one more than there is room for |
| `MaxLobbies`, `MaxPending` | unbounded | 2, 2 | two calls at once and a lobby to be replaced |
| `Conns` | unbounded | 1 | connections touch no state of each other; one meets every lobby |
| `EventDepth`, `WireDepth` | 256, the network | 1, 1 | full is what matters: a frame squeezes in, a roster is given up after the end; with the one on the wire and the one the reader holds, three messages are on their way, and two can be in the wrong order |
| `MaxPresses`, `MaxGen`, `MaxTalk` (client) | unbounded | 1, 1, 1 | a ready between two rosters of different settings, a frame that finds the channel full, a request to answer beside ping and ready |
| `Width`, `Height` | at least `game.MinWidth` and `MinHeight` | 5 x 4, walled and wrapped | a smaller arena brings collisions within a few moves; heads meet in one cell only on a torus of odd width |
| `NumSnakes`, `FoodCount` | 8, as set | 3, 1 | a collision has two parties, a ranking three; the proofs go to 8 |
| `Steered`, `Unsteady` | all, all | two snakes, one | two that turn as they like meet each other and a third that goes straight, coasts or leaves |
| `TicksPerMove`, `MaxTick` | 1-10, unbounded | 1, 2 | any number of turns are pressed before a tick; bodies of three, spawned two cells apart, meet and eat within two |
| `Batch` | 48 records | 1 | the cap bites at the second record |
| `Peers`, `Matches`, `Keys` (Gossip) | unbounded | 3, 2, 4 | a record two hops away; three signatures in an array of four, which is where `append` shares |
| `MaxCuts`, `MaxRefusals` | unbounded | 1, 1 | a cut, restart or refused write anywhere; the exchange after it starts from nothing |
| `ProbeTimeout`, `FreshTTL`, `QuietTTL`, `MaxQuietTTL`, `GossipInterval` | 2.5 s, 4 s, 20 s, 2 min, 90 s | 1, 1, 2, 4, 3 polls | the unit is a poll of two seconds; the order, and one doubling of the back-off below its cap, are kept |
| `MaxConcurrentProbes` | 8 | 1 | below the number of nodes due, so that probes wait |
| `MaxChanges`, `MaxLosses`, `MaxRefreshes` | unbounded | 2, 1, 1 | a lobby that opens and closes, or opens while a probe is lost; the largest back-off is reached by the silent node |
| `Depth` (Discovery, TsNode) | 4, 16 | 1, 4 | the browser is always behind; a full status channel is met, and for every depth `NewestArrives` is proved |
| `NumSessions`, `Playing` (Screens) | unbounded | 2, the first | one session's late events meet the next session; a lobby whose matches are played and one that only gathers |
| `Depth` (Screens) | 256 | 2 | any event may find the channel full; a match's end and the roster after it fit or do not |
| `BusDepth`, `MaxChanges`, `MaxFaults` (TsNode) | unbounded | 2, 3, 2 | a login begun, lost and begun again with the bus broken in between |

## Fairness

Liveness is checked only under what the program's own scheduling gives.

- *HostLobby* (`FairSpec`): the housekeeping ticker of 200 ms goes on firing
  while the lobby is open and time passes. Nothing is assumed of players. Weak
  fairness of `Housekeeping` is written with its enabling condition spelled out,
  `HousekeepingDue`, which spares TLC from enumerating the pass twice.
- *Outbox*: `HostFairSpec` assumes only that the hosting goroutine runs, which
  makes `HandlersFinish` a statement about every slow or dead client.
  `GoroutinesEnd` has as its premise (`SeatsFair`) that writers run (each write
  has a deadline of five seconds) and that the closing timer fires.
- *HostServer*: goroutines of lobbies and connections run; handshakes have
  timeouts. The player, signals and other peers owe nothing.
- *ClientSession*: reader and closers run, the ping ticker fires, silence passes
  its limit when nothing is heard, a screen that is still attached takes events,
  and a send goes on when it has its turn and the connection or the deadline lets
  it. The ticker's two seconds are longer than it takes to get a free turn, which
  `Ping` has as a guard. That no write is stuck for ever is a premise of
  `EndIsShown`, written in it, because the code does not give it (`SendsGiveUp`).
- *Screens*: Update takes the messages that wait for it (`Messages`). Players,
  lobbies and networks owe nothing.
- *Gossip*: each pair exchanges again and again (a probe of a peer carries a
  round every 90 seconds) and its steps run or time out.
- *Discovery*: the loop of `Run`, its probes and the browser run, time passes,
  and a node that does not run is given up on. `Elapse` waits for what can run
  without waiting for another node: the machine is faster than the poll.
- *TsNode*: `watch` and the interface run. The backend owes nothing.

## Proofs

TLAPS proves for every value of the constants that satisfy the named assumption
of each module (finite where the module says so, positive depths, deadlines in
order):

| Theorem | States | Argument |
|---|---|---|
| `TypeCorrect`, `RosterCorrect`, `KickoffCorrect`, `ForfeitCorrect`, `RecordsCorrect`, `SignaturesCorrect`, `ViewsAlwaysCurrent`, `RosterAlwaysPublished`, `AdvertAlwaysPublished` (HostLobbyProofs) | the state invariants of HostLobby | one invariant of Host values, in layers |
| `CapacityKept` (HostLobbyProofs) | `WithinCapacity` | what fills a seat and what lowers the capacity |
| `PromiseKept` (HostLobbyProofs) | `MatchesAsPromised`: HostLobby implements MatchCycle | what each method of the loop changes of a Host value, and `IInv` |
| `ServerTypeCorrect`, `RegistryCorrect`, `SeatsCorrect` (TailnetProofs) | the type of HostServer, `NoDeadLobby`, `SeatsAreServed` | `Born` and `Known` |
| `ProberTyped`, `ListedAlwaysWasOpen` (TailnetProofs) | `ProberTypeOK`, `ListedWasOpen` of Discovery | `Told` |
| `OutboxTyped`, `FramesAlwaysInOrder`, `RosterAlwaysReaches`, `PanicsOnlyBehindClients` (OutboxProofs) | the type of Outbox with the bound of an outbox, `FramesInOrder`, `RosterReaches`, `PanicsOnlyBehind` | `Flow` and `Due`; `RInv`; `PInv` |
| `ReasonsCorrect`, `ShownNeverOlderAlways`, `ClientTyped` (ClientSessionProofs) | `EndExplained`, `ShownNeverOlder`, the type of ClientSession with the bound of the event channel | `Reasons`; `Flow`; `Types` |
| `SimTyped`, `BodiesAlwaysHold`, `GrowthAlwaysAccounted`, `KillsAlwaysEarned`, `ResultAlwaysRanks`, `ResultStaysFinal`, `SeatsAreEqual` (SteeringProofs) | the type of SnakeSim, `BodiesHold`, `GrowthAccounted`, `KillsEarned`, `ResultRanks`, `ResultFinal`, `NoSeatAdvantage` | `Sound` and `Deaths`; `Outranks` is a strict order |
| `BotsSurvive`, `PredictionAlwaysHolds` (SteeringProofs) | `BotSurvives`, `PredictionHolds` of Steering | what a move decides, from the same invariant |
| `GossipTyped`, `AlwaysInStep`, `HistoryAlwaysKept` (GossipProofs) | the type of Gossip, `InStep`, `HistoryKept` | `Stores` and `Running` |
| `NewestArrivesAlways`, `OnboardingEndsAlways`, `BackendArrivesAlways`, `TsNodeTyped` (TsNodeProofs) | `NewestArrives`, `OnboardingEnds`, `BackendArrives`, the type of TsNode with the bounds of its channels | `Typed` and `Bounded`; `Heard` |
| `ScreensTyped`, `AlwaysShowsThisLobby`, `LobbyNeverLost`, `StaleAlwaysByReturn` (ScreensProofs) | the type of Screens, `ShowsThisLobby`, `LobbyNotLost`, `StaleOnlyByReturn` | `Streams`, `Kept` and `Reachable` |

With these every invariant and every action property that a passing run checks is a theorem.

*HostLobbyProofs.* A handler is a composition of operators from Host to Host, so
there is one lemma for each operator. In the middle of a handler the value passes
through states the loop never rests in. `Loose` holds even there: the type,
flags that follow seats, a roster without doubles, records that are well signed,
unique and not newer than the current match. `Sound` adds what the phase says of
board and kickoff roster. `Good` adds that the published roster and advert are
those of the value, and is what a finished handler gives. `Loose` has to be
stronger than the properties: that a record is unique follows only when a match
in preparation is known to be newer than every record (`FreshMatch`), and that a
record is signed by its players only when the host is known to be among them. The
lemma `Invariant` is `Spec => []IInv`; the theorems follow from it.

*The refinement*, also in HostLobbyProofs. The mapping takes the fields of `h`, so an
initial state maps to an initial state at once. For a step, one lemma for each
operator says which fields it may change and how (`SameMatch`, `SameRecords`,
`Emptied` and `Thinned` for seats that can only become free); a handler, which
composes them, then changes what one action of MatchCycle changes, or nothing.
`Good` is needed twice: a countdown that becomes play has everybody seated ready
because the kickoff roster is the roster (`KickoffAgreed`), and a record is missing
nobody because the seats marked as signed did sign (`SignedMeansSigned`).

*The capacity.* All operators but three only empty seats or leave them alone.
`allocate` and `syncBots` fill seats within the capacity. Lower settings drop the seats
beyond it: the lowest n of a set are n at most, and the host is among them.

*TailnetProofs.* That the registry never names an ended lobby needs to know
where each lobby stands in the call that made it (`Born`) and that every lobby
named anywhere, in the registry, by a waiting call, a connection or `Shutdown`,
was made (`Known`). Of the prober, an advert is as old as the way it came: taken while
the node hosted, it waits for the round of gossip, which has a timeout, and is trusted
for a while. `Told` bounds, at each of these places, how long ago the lobby was open;
the sums give the bound of `ListedWasOpen`. That a probe under way has its entry in the
cache is part of `ProberTypeOK`: the code's check for an entry pruned in the middle of a
probe (`discovery.go:378`) never strikes.

*OutboxProofs.* A frame passes from the agenda of the handler that sends it through
an outbox to a screen, and a full outbox loses frames to make room for others.
`Flow` says that the frames of an outbox ascend from what the client saw last to the
newest frame. It survives a handler only with `Due`: a frame on the agenda is the
newest, its outbox has older ones only, no client is sent it twice, and the board
does not change before it is sent. That agendas are built client by client, in
order of seat, is where the ranks come in. `RInv` is about rosters: a seat without the
current one is awaited on the agenda, by that roster or by an entry that ends in a
broadcast, and the rosters on an agenda are among the sends it begins with. So what a
handler outdates on its way is only in outboxes, and a broadcast follows. It needs
that nobody fell behind: a seat given up in the middle of a broadcast changes the
lobby while rosters are being sent. `PInv` is about the panic: a send on the agenda is
for a seat that is open and that no entry before it closes, and until the lobby closes
the seats of the roster are open. Only the removal of a seat that fell behind comes in
front of sends to that seat.

*ClientSessionProofs.* The reason is written before the context is cancelled, and
the connection closed after it; `Reasons` keeps that order for all three closers,
so that a reader whose connection fails while the context is live may say that
the host went away. `Flow` orders the generations along the way of a roster, on the
wire, in the reader's hand, in the channel and on screen, and shows that dropping
frames from the channel disturbs none of it. `Types` is laid out by what the parts of
a session change together, so that an action is looked at only where it acts.

*SteeringProofs.* A body holds together because a head always comes from the cell
behind it in the direction of the last move, and only that direction refuses a turn
(`Sound`). A place in the result counts who is above: the living before the dead, among
the living the longer, among the dead who died later. The program appends to a list of
deaths; the model keeps the index each dead seat has in it, and `Deaths` says that the
indices are distinct and follow the ticks. So `Outranks` is a strict order of all seats,
and no place is given twice. Equal seats, earned kills, the bot's choice and the client's guess are
about a single move in a state of the invariant: it is decided against the world before
it, and a body is longer than its head. The credited kills of a move are one for each
death with somebody else's body in the cell ahead, whose last owner in seat order has
the credit (`Counts`). That no seat has an advantage is shown for every exchange of seats
(`Reseated`): what a move makes of a snake is its `Fate`, which asks whether it dies or
eats and how many kills it has, and none of these answers needs the numbers of the seats
(`ReseatedSees`), the kills as long as no cell with two bodies is driven into
(`ReseatedCredit`). Two things do depend on the seats and are left out of the property:
the kill in such a cell, which the later seat has (`sim.go:140`), and the order of those
who die in one tick (`sim.go:366`, `TiesGoToTheLonger`). The theorems are for one to
eight seats, the most the game has, because the spawn tables end there.

*GossipProofs.* `Stores` says that the files have at least as many signatures of each
record as memory has, and the same ones while no write was refused; so a restart,
which reads the files, loses nothing. `Running` gives each exchange, whatever its
place in the protocol, messages that its other half expects. A write that the disk
refuses may put other signatures into the list in memory and leaves it as long as it
was, by `LowestCount`: the lowest n of at least n keys are n keys.

*TsNodeProofs.* The newest status is the last in the channel or, the channel
empty, on the screen. It survives `publish` because a full channel loses its head,
and with a channel of one the head is also the last: the lemma `PublishEndsWith`
says that the channel ends with the new status whatever its depth. `Heard` is about
the bus while the watch is attached: the last state on it is the backend's, the last
URL that of the login in progress with no state after it, and what is not on it the
status has already. A bus that begins with the current state establishes all three.
`Bounded` is about the channels themselves: `publish` makes room before it sends.

*ScreensProofs.* As long as nothing was lost, the last event of a stream is the
roster of its lobby as it is now (`Current`), so once the stream is read the room shows
this lobby. The event that ends a session is its last (`Streams`), so a session that
ended brings up no screen. Whoever waits for an answer is in no lobby (`Reachable`), and
the form over a room is the settings of a lobby one hosts (`Kept`), so attempts made one
after the other leave none behind.

What the provers cannot do stays with TLC: liveness under fairness, `ENABLED`, and
what a recursive definition computes for every input.

## Limits

Only model-checked: every liveness property (`ReadyLobbyPlays`, `SilentSeatsFreed`,
`RecordSettled`, `HandlersFinish`, `GoroutinesEnd`, `JoinsSettle`, `ClosedLobbyLetsGo`,
`EndIsShown`, `HistorySpreads`, `AttestationSpreads`, `BrowserSettles`, `ReachesMenu`,
`EndNoticed`). They rest on fairness, which the provers cannot reason about.

Assumptions that a reader should know:

- *HostLobby*: outboxes never overflow (Outbox has that); the rules of the game
  are abstracted to who may die at a tick (SnakeSim has them); settings that do
  not validate never reach the lobby; whether `Store.Put` succeeds is open. MatchCycle
  says of a ready mark whose it is, not for which settings it was given, and lets a
  match that finishes replace a record still pending, as the code does; so no property
  here would notice a mark kept for older settings or object to that replacement.
- *Outbox*: seats are not refilled; readiness and deadlines are left open.
- *Outbox*, *ClientSession*: taking the oldest message out of a full channel and putting
  the newest in are two selects (`host.go:1173-1191`, `client.go:459-467`) and one step
  here (`Squeeze`). The reader of the channel may act in between, and then there is more
  room; as one goroutine fills the channel and a channel is first in, first out, the order
  of what is in it is the same, and what was discarded is still the oldest.
- *HostServer*: the inside of a lobby is left open; each peer connects once.
- *ClientSession*: results and records are messages like any other; a write that
  was given up delivers nothing, where the code may have sent part of a frame.
- *Screens*: text, cursors, toasts and drawing are left out; a window too small for
  its screen may come and go at any moment; the node's own screens are TsNode's.
- *SnakeSim*: random cells are any free cell; events for the interface are left
  out; headings outside the four are ignored, as the code does.
- *Steering*: the bot's search is compared in safety, not in skill.
- *Gossip*: peers agree on the result under a match ID; records that do not
  verify are never offered; an array of signatures doubles when full. A host
  assembles one version of each record today, so that equally many, different
  signatures arise only through failed writes or merging peers.
- *Discovery*: round-trip times, the order of the list and shutdown are left out;
  the age of a probe starts again in each of its phases, as each has a timeout.
- *TsNode*: health warnings, `Since` and `Close` are left out; a login URL appears
  only while a login is needed; the first notification of a bus tells the state.

Not modelled: the parts listed as such in `PROJECT.json` `components`, with the
reason. In short: wire formats, cryptography, files written as a whole, the log
ring, themes and layout, and build tooling.

## Plan

The order in which the modules were written is that of the section above: the
host first, because everything else exists for it. What would come next:

1. **LobbyNet**: HostLobby's roster and ready marks composed with two
   ClientSessions over a network, with reconnection under the same key.
2. **RecordLog**: the abstract history, a set of records that only grows by
   records and signatures, with HostLobby's `stored` and Gossip's `recs` as
   implementations.
3. Discovery with the gossip interval as a property, TsNode with `Close`.

Theorems to add: that HostLobby's `stored` and Gossip's `recs` implement RecordLog, and
the safety lemmas the liveness properties rest on, such as that a seat awaited by
`RosterReaches` is awaited by a finite agenda.
