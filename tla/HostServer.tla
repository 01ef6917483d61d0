----------------------------- MODULE HostServer -----------------------------
(***************************************************************************)
(* The peer's one listener and the lobbies it routes to:                   *)
(* src/internal/netplay/server.go, the outer life of a Host                *)
(* (src/internal/netplay/host.go newHost, run, shutdown, accept, Close),   *)
(* the player who hosts, leaves and quits (src/internal/ui/app.go,         *)
(* hostform.go) and the end of the process (src/cmd/tsnail/main.go).       *)
(*                                                                         *)
(* Server.host is one variable that four kinds of goroutine touch: a       *)
(* Server.Host call reads it, closes what it found and writes it some      *)
(* steps later; the goroutine of a lobby that ends clears it; every        *)
(* connection that wants to play reads it; Shutdown reads it to know what  *)
(* to wait for.  Each access is a step of its own here.                    *)
(*                                                                         *)
(* What happens inside a lobby is module HostLobby's: here a join is       *)
(* granted or refused, and a seat may end at any time.                     *)
(***************************************************************************)
EXTENDS Naturals, FiniteSets

CONSTANTS
  MaxLobbies,   \* bound: how often the player submits the host form
  MaxPending,   \* bound: submissions whose lobby is not on the screen yet
  Conns         \* other peers, each of which connects once

ASSUME ServerAssumption == MaxLobbies \in Nat /\ MaxPending \in Nat

Lobbies == 1 .. MaxLobbies
NoLobby == 0

VARIABLES
  host,        \* Server.host
  call,        \* where each Server.Host call is
  existing,    \* the lobby a call found
  run,         \* Host.run of each lobby
  cancelled,   \* lobbies whose context is cancelled
  session,     \* Model.session, the lobby on the screen
  main,        \* the process
  awaited,     \* the lobby Shutdown waits for
  graceOver,   \* Shutdown gave up waiting
  conn,        \* each connection, from its first message to its end
  saw,         \* the lobby in the advert the peer answered
  at           \* the lobby it was handed to

hostVars == <<call, existing>>
lobbyVars == <<run, cancelled>>
mainVars == <<main, awaited, graceOver>>
connVars == <<conn, saw, at>>
vars == <<host, hostVars, lobbyVars, session, mainVars, connVars>>

Alive == main # "exited"
Seated == {"answered", "seated"}
Handshaking == {"hello", "welcomed", "asking", "offering", "queued", "answered", "refused"}

\* Host.Close: only the first call does anything, and it does no more than this.
CloseLobbies(ls) == cancelled' = cancelled \union (ls \ {NoLobby})
-----------------------------------------------------------------------------
(***************************************************************************)
(* Server.Host, on a goroutine of its own for every submission.            *)
(***************************************************************************)
Pending == {l \in Lobbies : call[l] \notin {"none", "shown"}}

\* startHosting.  The form stays on the screen until the lobby is ready.
Submit(l) ==
  /\ main = "running" /\ session = NoLobby
  /\ call[l] = "none" /\ \A k \in 1 .. l - 1 : call[k] # "none"
  /\ Cardinality(Pending) < MaxPending
  /\ call' = [call EXCEPT ![l] = "reading"]
  /\ UNCHANGED <<host, existing, lobbyVars, session, mainVars, connVars>>

ReadCurrent(l) ==
  /\ Alive /\ call[l] = "reading"
  /\ existing' = [existing EXCEPT ![l] = host]
  /\ call' = [call EXCEPT ![l] = "closing"]
  /\ UNCHANGED <<host, lobbyVars, session, mainVars, connVars>>

CloseExisting(l) ==
  /\ Alive /\ call[l] = "closing"
  /\ CloseLobbies({existing[l]})
  /\ call' = [call EXCEPT ![l] = "making"]
  /\ UNCHANGED <<host, existing, run, session, mainVars, connVars>>

NewHost(l) ==
  /\ Alive /\ call[l] = "making"
  /\ run' = [run EXCEPT ![l] = "running"]
  /\ call' = [call EXCEPT ![l] = "made"]
  /\ UNCHANGED <<host, existing, cancelled, session, mainVars, connVars>>

SetHost(l) ==
  /\ Alive /\ call[l] = "made"
  /\ host' = l
  /\ call' = [call EXCEPT ![l] = "ready"]
  /\ UNCHANGED <<existing, lobbyVars, session, mainVars, connVars>>

HostCall(l) == ReadCurrent(l) \/ CloseExisting(l) \/ NewHost(l) \/ SetHost(l)
-----------------------------------------------------------------------------
(***************************************************************************)
(* The player.                                                             *)
(***************************************************************************)
HandleSessionReady(l) ==
  /\ main = "running" /\ call[l] = "ready"
  /\ session' = l
  /\ call' = [call EXCEPT ![l] = "shown"]
  /\ UNCHANGED <<host, existing, lobbyVars, mainVars, connVars>>

LeaveSession ==
  /\ main = "running" /\ session # NoLobby
  /\ CloseLobbies({session})
  /\ session' = NoLobby
  /\ UNCHANGED <<host, hostVars, run, mainVars, connVars>>

\* The SessionClosed event that ends the stream of a lobby.
HandleSessionClosed ==
  /\ main = "running" /\ session # NoLobby /\ run[session] = "over"
  /\ session' = NoLobby
  /\ UNCHANGED <<host, hostVars, lobbyVars, mainVars, connVars>>

\* Model.quit leaves the session, then stops whatever is hosted.
Quit ==
  /\ main = "running"
  /\ CloseLobbies({session})
  /\ session' = NoLobby
  /\ main' = "leaving"
  /\ UNCHANGED <<host, hostVars, run, awaited, graceOver, connVars>>

StopHosting ==
  /\ main = "leaving"
  /\ CloseLobbies({host})
  /\ main' = "stopped"
  /\ UNCHANGED <<host, hostVars, run, session, awaited, graceOver, connVars>>

\* A signal ends the program without the screen having a say.
Signal ==
  /\ main = "running"
  /\ main' = "stopped"
  /\ UNCHANGED <<host, hostVars, lobbyVars, session, awaited, graceOver, connVars>>
-----------------------------------------------------------------------------
(***************************************************************************)
(* Server.Shutdown, the last thing main does.                              *)
(***************************************************************************)
NothingHosted ==
  /\ main = "stopped" /\ host = NoLobby
  /\ main' = "exited"
  /\ UNCHANGED <<host, hostVars, lobbyVars, session, awaited, graceOver, connVars>>

ShutdownCloses ==
  /\ main = "stopped" /\ host # NoLobby
  /\ CloseLobbies({host})
  /\ awaited' = host
  /\ main' = "waiting"
  /\ UNCHANGED <<host, hostVars, run, session, graceOver, connVars>>

\* Host.Wait: run has returned, and so have the goroutines of its seats.
Drained(l) ==
  /\ run[l] = "over"
  /\ \A c \in Conns : at[c] = l => conn[c] \notin Seated \union {"closing", "told"}

ShutdownReturns ==
  /\ main = "waiting"
  /\ \/ Drained(awaited) /\ UNCHANGED graceOver
     \/ graceOver' = TRUE
  /\ main' = "exited"
  /\ UNCHANGED <<host, hostVars, lobbyVars, session, awaited, connVars>>

Shutdown == NothingHosted \/ ShutdownCloses \/ ShutdownReturns
-----------------------------------------------------------------------------
(***************************************************************************)
(* The goroutine of a lobby.                                               *)
(***************************************************************************)
\* Fault: the seats are left as they are.
ShutdownKeepsSeats(l) ==
  /\ Alive /\ run[l] = "running" /\ l \in cancelled
  /\ run' = [run EXCEPT ![l] = "closing"]
  /\ UNCHANGED <<host, hostVars, cancelled, session, mainVars, connVars>>

\* Host.shutdown up to its last send: every seat is told, and its outbox closed.
ShutdownSeats(l) ==
  /\ Alive /\ run[l] = "running" /\ l \in cancelled
  /\ run' = [run EXCEPT ![l] = "closing"]
  /\ conn' = [c \in Conns |->
                IF at[c] = l /\ conn[c] \in Seated THEN "closing" ELSE conn[c]]
  /\ UNCHANGED <<host, hostVars, cancelled, session, mainVars, saw, at>>

\* Fault: the lobby stays registered.
StayRegistered(l) ==
  /\ Alive /\ run[l] = "closing"
  /\ run' = [run EXCEPT ![l] = "over"]
  /\ UNCHANGED <<host, hostVars, cancelled, session, mainVars, connVars>>

\* The rest of it: setHost(nil), whichever lobby is registered, and the end.
Unregister(l) ==
  /\ Alive /\ run[l] = "closing"
  /\ host' = NoLobby
  /\ run' = [run EXCEPT ![l] = "over"]
  /\ UNCHANGED <<hostVars, cancelled, session, mainVars, connVars>>

\* Fault: the queue of a lobby that has shut down is still worked off.
RunJoinAnyTime(c) ==
  /\ Alive /\ conn[c] = "queued"
  /\ \E answer \in {"answered", "refused"} : conn' = [conn EXCEPT ![c] = answer]
  /\ UNCHANGED <<host, hostVars, lobbyVars, session, mainVars, saw, at>>

\* The command accept queued: allocate seats the peer or says why not.
RunJoin(c) ==
  /\ Alive /\ conn[c] = "queued" /\ run[at[c]] = "running"
  /\ \E answer \in {"answered", "refused"} : conn' = [conn EXCEPT ![c] = answer]
  /\ UNCHANGED <<host, hostVars, lobbyVars, session, mainVars, saw, at>>

RunStep(l) == ShutdownSeats(l) \/ Unregister(l)
-----------------------------------------------------------------------------
(***************************************************************************)
(* A connection, from Server.handle to the end of its seat.                *)
(***************************************************************************)
MoveConn(c, from, to) ==
  /\ Alive /\ conn[c] \in from
  /\ conn' = [conn EXCEPT ![c] = to]
  /\ UNCHANGED <<host, hostVars, lobbyVars, session, mainVars>>

\* The peer probes this one and keeps the advert of the answer.
Probe(c) ==
  /\ host # NoLobby
  /\ MoveConn(c, {"far"}, "found")
  /\ saw' = [saw EXCEPT ![c] = host]
  /\ UNCHANGED at

\* Its player chooses that lobby and the peer dials.
Dial(c) == MoveConn(c, {"found"}, "hello") /\ UNCHANGED <<saw, at>>

\* Its hello is read and answered.
Welcome(c) == MoveConn(c, {"hello"}, "welcomed") /\ UNCHANGED <<saw, at>>

\* A message that does not come, cannot be read or is not the one expected.
HandshakeFails(c) == MoveConn(c, {"hello", "asking"}, "closed") /\ UNCHANGED <<saw, at>>

ServeJoin(c) ==
  \/ /\ host = NoLobby
     /\ MoveConn(c, {"welcomed"}, "closed") /\ UNCHANGED <<saw, at>>
  \/ /\ host # NoLobby
     /\ MoveConn(c, {"welcomed"}, "asking")
     /\ at' = [at EXCEPT ![c] = host]
     /\ UNCHANGED saw

\* accept reads the join request, whose lobby nobody compares with this one.
ReadJoin(c) == MoveConn(c, {"asking"}, "offering") /\ UNCHANGED <<saw, at>>

QueueJoin(c) == MoveConn(c, {"offering"}, "queued") /\ UNCHANGED <<saw, at>>

AcceptReturns(c) == MoveConn(c, {"answered"}, "seated") /\ UNCHANGED <<saw, at>>

Refuse(c) == MoveConn(c, {"refused"}, "closed") /\ UNCHANGED <<saw, at>>

\* Fault: accept waits for the answer to a command that was queued.
GiveUpOffering(c) ==
  /\ at[c] \in cancelled
  /\ MoveConn(c, {"offering"}, "closed") /\ UNCHANGED <<saw, at>>

\* Either select of accept sees that the lobby is shutting down.
AcceptGivesUp(c) ==
  /\ at[c] \in cancelled
  /\ MoveConn(c, {"offering", "queued", "answered", "refused"}, "closed")
  /\ UNCHANGED <<saw, at>>

\* The peer leaves, is removed, or its connection is lost.
SeatEnds(c) == MoveConn(c, {"seated"}, "closed") /\ UNCHANGED <<saw, at>>

\* The writer sends the reason the lobby closed.
TellWhy(c) == MoveConn(c, {"closing"}, "told") /\ UNCHANGED <<saw, at>>

\* The timer of closeSeat, or a peer that has gone, ends the connection.
HangUp(c) == MoveConn(c, {"closing", "told"}, "closed") /\ UNCHANGED <<saw, at>>

ServeStep(c) ==
  \/ Welcome(c) \/ HandshakeFails(c) \/ ServeJoin(c) \/ ReadJoin(c) \/ QueueJoin(c)
  \/ AcceptReturns(c) \/ Refuse(c) \/ AcceptGivesUp(c)
-----------------------------------------------------------------------------
Init ==
  /\ host = NoLobby
  /\ call = [l \in Lobbies |-> "none"]
  /\ existing = [l \in Lobbies |-> NoLobby]
  /\ run = [l \in Lobbies |-> "unborn"]
  /\ cancelled = {}
  /\ session = NoLobby
  /\ main = "running" /\ awaited = NoLobby /\ graceOver = FALSE
  /\ conn = [c \in Conns |-> "far"]
  /\ saw = [c \in Conns |-> NoLobby]
  /\ at = [c \in Conns |-> NoLobby]

Next ==
  \/ \E l \in Lobbies : Submit(l) \/ HostCall(l) \/ HandleSessionReady(l) \/ RunStep(l)
  \/ LeaveSession \/ HandleSessionClosed
  \/ Quit \/ StopHosting \/ Signal \/ Shutdown
  \/ \E c \in Conns :
       Probe(c) \/ Dial(c) \/ ServeStep(c) \/ RunJoin(c) \/ SeatEnds(c)
         \/ TellWhy(c) \/ HangUp(c)

Spec == Init /\ [][Next]_vars

\* Goroutines that can run do; every read has its timeout, so a handshake moves
\* on whatever the peer does, and the timer of closeSeat fires.
Fairness ==
  /\ \A l \in Lobbies : WF_vars(RunStep(l))
  /\ \A c \in Conns : WF_vars(ServeStep(c)) /\ WF_vars(RunJoin(c)) /\ WF_vars(HangUp(c))

FairSpec == Spec /\ Fairness
-----------------------------------------------------------------------------
\* The states of registry, calls, lobbies, process and connections.
TypeOK ==
  /\ host \in Lobbies \union {NoLobby} /\ session \in Lobbies \union {NoLobby}
  /\ call \in [Lobbies -> {"none", "reading", "closing", "making", "made", "ready", "shown"}]
  /\ existing \in [Lobbies -> Lobbies \union {NoLobby}]
  /\ run \in [Lobbies -> {"unborn", "running", "closing", "over"}]
  /\ cancelled \subseteq Lobbies
  /\ main \in {"running", "leaving", "stopped", "waiting", "exited"}
  /\ awaited \in Lobbies \union {NoLobby} /\ graceOver \in BOOLEAN
  /\ conn \in [Conns -> {"far", "found", "closing", "told", "closed"}
                          \union Handshaking \union Seated]
  /\ saw \in [Conns -> Lobbies \union {NoLobby}]
  /\ at \in [Conns -> Lobbies \union {NoLobby}]

-----------------------------------------------------------------------------
(***************************************************************************)
(* What holds.                                                             *)
(***************************************************************************)
\* The registry never names a lobby that has ended, whatever the order in which
\* calls of Host and ending lobbies write it: a join is never handed to a lobby
\* nobody runs any more after that lobby's own end.
NoDeadLobby == host # NoLobby => run[host] \in {"running", "closing"}

\* A peer has a seat only while the lobby it sits in is run: shutdown misses no
\* seat, and none is given out behind its back.
SeatsAreServed == \A c \in Conns : conn[c] \in Seated => run[at[c]] = "running"

\* Every connection that wants to play is seated or closed in the end, also when
\* the lobby ends between any two steps of its handshake.
JoinsSettle ==
  \A c \in Conns : conn[c] \in Handshaking ~> conn[c] \in {"seated", "closed"} \/ ~ Alive

\* A lobby that was closed lets go of every connection handed to it.
ClosedLobbyLetsGo ==
  \A c \in Conns : (at[c] \in cancelled) ~> (conn[c] = "closed" \/ ~ Alive)
-----------------------------------------------------------------------------
(***************************************************************************)
(* What the comments say and the code does not do.                         *)
(***************************************************************************)
\* A lobby that is on the screen and was not closed is the one that joins and
\* probes are routed to.
ShownIsHosted == session # NoLobby /\ session \notin cancelled => host = session

\* Hosting replaces: two lobbies that were shown are never open at the same time.
OneLobbyOpen ==
  \A k, l \in {j \in Lobbies : call[j] = "shown" /\ run[j] = "running"} \ cancelled : k = l

\* Unless it has waited as long as it will, the process does not end before every
\* seated peer was told that the host quit.
ToldBeforeExit ==
  main = "exited" /\ ~ graceOver => \A c \in Conns : conn[c] \notin Seated \union {"closing"}

\* A peer is seated in the lobby it chose to join.
SeatedWhereAsked == \A c \in Conns : conn[c] = "seated" => at[c] = saw[c]
=============================================================================
