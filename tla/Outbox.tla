------------------------------- MODULE Outbox -------------------------------
(***************************************************************************)
(* How the hosting peer talks to its clients, src/internal/netplay/host.go *)
(* sendTo, broadcastLobby, removeSeat, closeSeat, writeLoop and readLoop.  *)
(*                                                                         *)
(* Every remote seat has a bounded channel, its outbox, that the hosting   *)
(* goroutine fills without ever waiting and that a writer goroutine of the *)
(* seat empties.  A handler is a list of things still to do, the agenda:   *)
(* one entry is done at a time, so that writers, readers and the network   *)
(* move between any two sends, and an entry may put others in front of the *)
(* rest, as a call does.  A loop over seats becomes its sends when it is   *)
(* reached, which fixes both whom it visits (seatsSnapshot) and what a     *)
(* roster broadcast says.  Of a roster it only matters whether it still    *)
(* describes the lobby: a change of phase or seats outdates every roster   *)
(* that is on its way.                                                     *)
(*                                                                         *)
(* What decides that a handler runs (readiness, deadlines, the rules of    *)
(* the game) is module HostLobby's; here each may run whenever its phase   *)
(* allows.  Seats are not refilled: the clients here are those of one      *)
(* connection each.                                                        *)
(***************************************************************************)
EXTENDS Integers, Sequences, FiniteSets

CONSTANTS
  NumClients,   \* remote seats
  Depth,        \* outboxDepth
  MaxFrames     \* bound: simulation states sent

ASSUME OutboxAssumption ==
  NumClients \in Nat \ {0} /\ Depth \in Nat \ {0} /\ MaxFrames \in Nat

Clients == 1 .. NumClients

VARIABLES
  phase,      \* Host.phase
  seated,     \* the remote seats of Host.seats
  record,     \* a record is waiting for signatures
  frame,      \* the last simulation state sent
  agenda,     \* what the running handler has still to do
  out,        \* the outboxes
  closed,     \* outboxes that have been closed
  panic,      \* "none", or why the process died
  link,       \* "up" while readLoop reads, "down" when its connection has ended
              \* and it has queued its last command, "done" when that was run
  writer,     \* writeLoop: "run", "drain" or "done"
  heard,      \* the roster each client received last is the current one
  shown,      \* the frame each client received last
  robbed,     \* clients that lost a queued message that may not be lost
  fellBehind  \* somebody was dropped because its outbox was full

lobbyVars == <<phase, seated, record, frame>>
seatVars == <<link, writer, shown>>
clientVars == <<seatVars, heard>>
vars == <<lobbyVars, agenda, out, closed, panic, clientVars, robbed, fellBehind>>
-----------------------------------------------------------------------------
(***************************************************************************)
(* Messages and agenda entries.                                            *)
(***************************************************************************)
ControlMsg == [kind |-> "control", current |-> FALSE, frame |-> 0]
PulseMsg == [ControlMsg EXCEPT !.kind = "pulse"]
FrameMsg(n) == [ControlMsg EXCEPT !.kind = "frame", !.frame = n]
LobbyMsg == [ControlMsg EXCEPT !.kind = "lobby", !.current = TRUE]

\* Ticks, pings and pongs are the messages sendTo is told it may drop.
Droppable(msg) == msg.kind \in {"frame", "pulse"}

Send(c, msg) == [op |-> "send", to |-> c, msg |-> msg]
Each(msg) == [op |-> "each", to |-> 0, msg |-> msg]
Entry(op) == [op |-> op, to |-> 0, msg |-> ControlMsg]
Remove(c) == [op |-> "remove", to |-> c, msg |-> ControlMsg]
Close(c) == [op |-> "close", to |-> c, msg |-> ControlMsg]
Broadcast == Entry("broadcast")

\* The seats in the order of their numbers.
InOrder(S) ==
  CHOOSE s \in [1 .. Cardinality(S) -> S] : \A i, j \in DOMAIN s : i < j => s[i] < s[j]

\* What a change of the lobby does to the rosters on their way.
Outdated(todo) == [i \in DOMAIN todo |-> [todo[i] EXCEPT !.msg.current = FALSE]]
RostersOutdated ==
  /\ out' = [c \in Clients |->
               [i \in DOMAIN out[c] |-> [out[c][i] EXCEPT !.current = FALSE]]]
  /\ heard' = [c \in Clients |-> FALSE]
RostersUnchanged == UNCHANGED <<out, heard>>

ToAll(msg) == [i \in 1 .. Cardinality(seated) |-> Send(InOrder(seated)[i], msg)]
-----------------------------------------------------------------------------
(***************************************************************************)
(* The steps of a handler.                                                 *)
(***************************************************************************)
Busy(op) == panic = "none" /\ agenda # <<>> /\ Head(agenda).op = op
Rest == Tail(agenda)

\* sendTo.  A send on a closed channel is a run-time panic.
Queue ==
  LET c == Head(agenda).to
      msg == Head(agenda).msg
  IN  /\ c \notin closed /\ Len(out[c]) < Depth
      /\ out' = [out EXCEPT ![c] = Append(@, msg)]
      /\ agenda' = Rest
      /\ UNCHANGED <<panic, robbed, fellBehind>>

\* Fault: the newest message is put where the oldest was.
SqueezeInFront ==
  LET c == Head(agenda).to
      msg == Head(agenda).msg
  IN  /\ c \notin closed /\ Len(out[c]) = Depth /\ Droppable(msg)
      /\ out' = [out EXCEPT ![c] = <<msg>> \o Tail(@)]
      /\ robbed' = robbed \union (IF Droppable(Head(out[c])) THEN {} ELSE {c})
      /\ agenda' = Rest
      /\ UNCHANGED <<panic, fellBehind>>

\* No room, and the message may be dropped: the oldest one queued goes instead.
Squeeze ==
  LET c == Head(agenda).to
      msg == Head(agenda).msg
  IN  /\ c \notin closed /\ Len(out[c]) = Depth /\ Droppable(msg)
      /\ out' = [out EXCEPT ![c] = Append(Tail(@), msg)]
      /\ robbed' = robbed \union (IF Droppable(Head(out[c])) THEN {} ELSE {c})
      /\ agenda' = Rest
      /\ UNCHANGED <<panic, fellBehind>>

\* Fault: the host waits for room.
GiveUpNever == FALSE

\* No room, and the message must arrive: the seat is given up.
GiveUp ==
  LET c == Head(agenda).to
  IN  /\ c \notin closed /\ Len(out[c]) = Depth /\ ~ Droppable(Head(agenda).msg)
      /\ agenda' = <<Remove(c)>> \o Rest
      /\ fellBehind' = TRUE
      /\ UNCHANGED <<out, panic, robbed>>

SendOnClosed ==
  /\ Head(agenda).to \in closed
  /\ panic' = "send on closed channel"
  /\ UNCHANGED <<agenda, out, robbed, fellBehind>>

SendTo ==
  /\ Busy("send")
  /\ Queue \/ Squeeze \/ GiveUp \/ SendOnClosed
  /\ UNCHANGED <<lobbyVars, closed, clientVars>>

\* The loops, and broadcastLobby with the roster as it stands.
Loop ==
  /\ \/ Busy("each") /\ agenda' = ToAll(Head(agenda).msg) \o Rest
     \/ Busy("broadcast") /\ agenda' = ToAll(LobbyMsg) \o Rest
  /\ UNCHANGED <<lobbyVars, out, closed, panic, clientVars, robbed, fellBehind>>

\* broadcastState: a countdown that was aborted has no board to show.
ShowBoard ==
  /\ Busy("board")
  /\ IF phase \in {"countdown", "in_game"} /\ frame < MaxFrames
     THEN frame' = frame + 1 /\ agenda' = ToAll(FrameMsg(frame + 1)) \o Rest
     ELSE frame' = frame /\ agenda' = Rest
  /\ UNCHANGED <<phase, seated, record, out, closed, panic, clientVars,
                 robbed, fellBehind>>

\* removeSeat, of a seat that may be gone already.
RemoveSeat ==
  LET c == Head(agenda).to
  IN  /\ Busy("remove")
      /\ seated' = seated \ {c}
      /\ closed' = IF c \in seated THEN closed \union {c} ELSE closed
      /\ agenda' = (IF c \in seated /\ phase = "countdown" THEN <<Entry("abort")>> ELSE <<>>)
                     \o (IF c \in seated THEN Outdated(Rest) ELSE Rest)
      /\ IF c \in seated THEN RostersOutdated ELSE RostersUnchanged
      /\ UNCHANGED <<phase, record, frame, panic, seatVars, robbed, fellBehind>>

\* abortCountdown and resetAfterMatch reopen the lobby and say so.
Reopen ==
  /\ Busy("abort")
  /\ phase' = "open"
  /\ agenda' = <<Broadcast>> \o Outdated(Rest)
  /\ RostersOutdated
  /\ UNCHANGED <<seated, record, frame, closed, panic, seatVars, robbed, fellBehind>>

\* setReady changes the roster and says so.
ChangeRoster ==
  /\ Busy("change")
  /\ agenda' = <<Broadcast>> \o Outdated(Rest)
  /\ RostersOutdated
  /\ UNCHANGED <<lobbyVars, closed, panic, seatVars, robbed, fellBehind>>

\* closeSeat does its work once: closing a closed channel panics too.
CloseSeat ==
  /\ Busy("close")
  /\ closed' = closed \union {Head(agenda).to}
  /\ agenda' = Rest
  /\ UNCHANGED <<lobbyVars, out, panic, clientVars, robbed, fellBehind>>

\* endMatch, after its last frame.
EndMatch ==
  /\ Busy("end")
  /\ phase' = "open" /\ record' = TRUE
  /\ agenda' = <<Each(ControlMsg), Each(ControlMsg), Broadcast>> \o Rest
  /\ RostersOutdated
  /\ UNCHANGED <<seated, frame, closed, panic, seatVars, robbed, fellBehind>>

HostStep ==
  SendTo \/ Loop \/ ShowBoard \/ RemoveSeat \/ Reopen \/ ChangeRoster \/ CloseSeat \/ EndMatch
-----------------------------------------------------------------------------
(***************************************************************************)
(* The handlers: what the loop of Host.run may take up next.               *)
(***************************************************************************)
Idle == panic = "none" /\ agenda = <<>> /\ phase # "closed"

Start(todo) ==
  /\ Idle
  /\ agenda' = todo
  /\ UNCHANGED <<closed, panic, seatVars, robbed, fellBehind>>

Begin(todo) == Start(todo) /\ RostersUnchanged
BeginChange(todo) == Start(todo) /\ RostersOutdated
BeginInPhase(p, todo) == BeginChange(todo) /\ phase' = p

\* The host readies or changes settings, or a client is marked disconnected.
Announce == BeginChange(<<Broadcast>>) /\ UNCHANGED lobbyVars

BeginCountdown ==
  /\ phase = "open"
  /\ BeginInPhase("countdown", <<Each(ControlMsg), Entry("board"), Broadcast>>)
  /\ UNCHANGED <<seated, record, frame>>

AbortCountdown == phase = "countdown" /\ Begin(<<Entry("abort")>>) /\ UNCHANGED lobbyVars

BeginPlay ==
  /\ phase = "countdown"
  /\ BeginInPhase("in_game", <<Broadcast>>)
  /\ UNCHANGED <<seated, record, frame>>

Tick(over) ==
  /\ phase = "in_game"
  /\ Begin(IF over THEN <<Entry("board"), Entry("end")>> ELSE <<Entry("board")>>)
  /\ UNCHANGED lobbyVars

FinalizeRecord ==
  /\ record /\ record' = FALSE
  /\ Begin(<<Each(ControlMsg), Entry("abort")>>)
  /\ UNCHANGED <<phase, seated, frame>>

Heartbeat == Begin(<<Each(PulseMsg)>>) /\ UNCHANGED lobbyVars

\* checkLiveness, for one seat.
TimeOut(c) ==
  c \in seated /\ Begin(<<Remove(c), Broadcast>>) /\ UNCHANGED lobbyVars

\* handleClient: if the client was marked disconnected, its return is announced
\* first.
HandleClient(c, back, todo) ==
  /\ c \in seated /\ link[c] = "up"
  /\ IF back THEN BeginChange(<<Broadcast>> \o todo) ELSE Begin(todo)
  /\ UNCHANGED lobbyVars

ClientReady(c, back) == HandleClient(c, back, <<Entry("change")>>)
ClientPing(c, back) == HandleClient(c, back, <<Send(c, PulseMsg)>>)
ClientLeave(c, back) == HandleClient(c, back, <<Remove(c), Broadcast>>)

\* Fault: the others are not told.
DisconnectSilently(c) ==
  /\ link[c] = "down"
  /\ Idle
  /\ agenda' = IF c \in seated THEN <<Remove(c)>> ELSE <<>>
  /\ link' = [link EXCEPT ![c] = "done"]
  /\ UNCHANGED <<lobbyVars, out, closed, panic, writer, heard, shown, robbed, fellBehind>>

\* What readLoop defers: its seat goes unless it has gone already.
Disconnect(c) ==
  /\ link[c] = "down"
  /\ Idle
  /\ agenda' = IF c \in seated THEN <<Remove(c), Broadcast>> ELSE <<>>
  /\ link' = [link EXCEPT ![c] = "done"]
  /\ UNCHANGED <<lobbyVars, out, closed, panic, writer, heard, shown, robbed, fellBehind>>

Kick(c) ==
  /\ c \in seated
  /\ Begin(<<Send(c, ControlMsg), Remove(c), Broadcast>>)
  /\ UNCHANGED lobbyVars

Shutdown ==
  /\ BeginInPhase("closed",
       [i \in 1 .. 2 * Cardinality(seated) |->
          LET c == InOrder(seated)[(i + 1) \div 2]
          IN  IF i % 2 = 1 THEN Send(c, ControlMsg) ELSE Close(c)])
  /\ UNCHANGED <<seated, record, frame>>

Handler ==
  \/ Announce \/ BeginCountdown \/ AbortCountdown \/ BeginPlay
  \/ (\E over \in BOOLEAN : Tick(over)) \/ FinalizeRecord \/ Heartbeat
  \/ \E c \in Clients :
       \/ TimeOut(c) \/ Kick(c) \/ Disconnect(c)
       \/ \E back \in BOOLEAN :
            ClientReady(c, back) \/ ClientPing(c, back) \/ ClientLeave(c, back)
  \/ Shutdown
-----------------------------------------------------------------------------
(***************************************************************************)
(* The goroutines of a seat and the network.                               *)
(***************************************************************************)
\* The client reads what the writer sends.
Deliver(c) ==
  LET msg == Head(out[c])
  IN  /\ writer[c] = "run" /\ out[c] # <<>> /\ link[c] = "up"
      /\ out' = [out EXCEPT ![c] = Tail(@)]
      /\ heard' = IF msg.kind = "lobby" THEN [heard EXCEPT ![c] = msg.current] ELSE heard
      /\ shown' = IF msg.kind = "frame" THEN [shown EXCEPT ![c] = msg.frame] ELSE shown
      /\ UNCHANGED <<link, writer>>

\* The connection is gone, or the deadline of the write passed.
WriteFails(c) ==
  /\ writer[c] = "run" /\ out[c] # <<>>
  /\ out' = [out EXCEPT ![c] = Tail(@)]
  /\ writer' = [writer EXCEPT ![c] = "drain"]
  /\ link' = [link EXCEPT ![c] = IF @ = "up" THEN "down" ELSE @]
  /\ UNCHANGED <<heard, shown>>

Drain(c) ==
  /\ writer[c] = "drain" /\ out[c] # <<>>
  /\ out' = [out EXCEPT ![c] = Tail(@)]
  /\ UNCHANGED <<link, writer, heard, shown>>

WriterEnds(c) ==
  /\ writer[c] \in {"run", "drain"} /\ out[c] = <<>> /\ c \in closed
  /\ writer' = [writer EXCEPT ![c] = "done"]
  /\ UNCHANGED <<out, link, heard, shown>>

WriterStep(c) ==
  /\ panic = "none"
  /\ Deliver(c) \/ WriteFails(c) \/ Drain(c) \/ WriterEnds(c)
  /\ UNCHANGED <<lobbyVars, agenda, closed, panic, robbed, fellBehind>>

\* Fault: the connection of a removed seat is left to the client.
HangUpNever(c) == FALSE

\* The timer of closeSeat ends the connection, and with it readLoop.
HangUp(c) ==
  /\ panic = "none" /\ c \in closed /\ link[c] = "up"
  /\ link' = [link EXCEPT ![c] = "down"]
  /\ UNCHANGED <<lobbyVars, agenda, out, closed, panic, writer, heard, shown,
                 robbed, fellBehind>>

NetworkFails(c) ==
  /\ panic = "none" /\ link[c] = "up"
  /\ link' = [link EXCEPT ![c] = "down"]
  /\ UNCHANGED <<lobbyVars, agenda, out, closed, panic, writer, heard, shown,
                 robbed, fellBehind>>
-----------------------------------------------------------------------------
Init ==
  /\ phase = "open" /\ seated = Clients /\ record = FALSE
  /\ frame = 0 /\ agenda = <<>> /\ out = [c \in Clients |-> <<>>]
  /\ closed = {} /\ panic = "none"
  /\ link = [c \in Clients |-> "up"] /\ writer = [c \in Clients |-> "run"]
  /\ heard = [c \in Clients |-> TRUE] /\ shown = [c \in Clients |-> 0]
  /\ robbed = {} /\ fellBehind = FALSE

Next ==
  \/ Handler
  \/ HostStep
  \/ \E c \in Clients : WriterStep(c) \/ HangUp(c) \/ NetworkFails(c)

Spec == Init /\ [][Next]_vars

\* The hosting goroutine runs; nothing is assumed of writers or networks.
HostFairSpec == Spec /\ WF_vars(HostStep)

\* Write deadlines expire and timers fire.
SeatsFair == \A c \in Clients : WF_vars(WriterStep(c)) /\ WF_vars(HangUp(c))
-----------------------------------------------------------------------------
(***************************************************************************)
(* Properties.                                                             *)
(***************************************************************************)
Phases == {"open", "countdown", "in_game", "closed"}
Messages == [kind : {"lobby", "frame", "control", "pulse"}, current : BOOLEAN,
             frame : 0 .. MaxFrames]
Entries == [op : {"send", "each", "broadcast", "board", "remove", "abort", "change", "close", "end"},
            to : 0 .. NumClients, msg : Messages]

\* Types; in particular no outbox ever holds more than it has room for.
TypeOK ==
  /\ phase \in Phases /\ seated \subseteq Clients
  /\ record \in BOOLEAN /\ frame \in 0 .. MaxFrames
  /\ agenda \in Seq(Entries)
  /\ out \in [Clients -> Seq(Messages)] /\ \A c \in Clients : Len(out[c]) <= Depth
  /\ closed \subseteq Clients
  /\ panic \in {"none", "send on closed channel"}
  /\ link \in [Clients -> {"up", "down", "done"}]
  /\ writer \in [Clients -> {"run", "drain", "done"}]
  /\ heard \in [Clients -> BOOLEAN] /\ shown \in [Clients -> 0 .. MaxFrames]
  /\ robbed \subseteq Clients /\ fellBehind \in BOOLEAN

FramesIn(s) == {i \in DOMAIN s : s[i].kind = "frame"}

\* A client may miss frames and never sees one after a newer one.
FramesInOrder ==
  \A c \in Clients : \A i \in FramesIn(out[c]) :
    /\ shown[c] < out[c][i].frame
    /\ \A j \in FramesIn(out[c]) : i < j => out[c][i].frame < out[c][j].frame

\* The roster a client ends up with once it has read its outbox is the current one.
UpToDate(c) ==
  LET rosters == {i \in DOMAIN out[c] : out[c][i].kind = "lobby"}
  IN  IF rosters = {} THEN heard[c]
      ELSE out[c][CHOOSE i \in rosters : \A j \in rosters : j <= i].current

\* As long as nobody has been dropped for falling behind, a client that lost no
\* roster has the current one on its way whenever the host is idle, however
\* removals, aborts and broadcasts nested.
RosterReaches ==
  Idle /\ ~ fellBehind =>
    \A c \in seated \ robbed : writer[c] = "run" => UpToDate(c)

\* Only a client that fell behind makes the host panic: as long as sendTo gives up no
\* seat, no handler sends to a seat that it, or an earlier one, has closed.
PanicsOnlyBehind == panic # "none" => fellBehind

\* No client, however slow, stops the host: every handler comes to its end, or to the
\* panic that NoSendOnClosed is about.
HandlersFinish == agenda # <<>> ~> agenda = <<>> \/ panic # "none"

\* The goroutines of a seat that was removed, or of a lobby that shut down, end:
\* Host.Wait returns, if its writers and timers run.
GoroutinesEnd ==
  SeatsFair => \A c \in Clients :
    c \in closed ~> panic # "none" \/ (writer[c] = "done" /\ link[c] # "up")
-----------------------------------------------------------------------------
(***************************************************************************)
(* What the repository says and the code does not do.                      *)
(***************************************************************************)
\* sendTo closes the seat of a client that cannot be told something; the
\* handler it was called from goes on sending to it.
NoSendOnClosed == panic # "send on closed channel"

\* A slow client loses tick frames; what must arrive stays queued.
OnlyFramesLost == robbed = {}

\* broadcastLobby publishes the roster to every client: those that keep up know
\* who is in the room.
RosterReachesAll ==
  Idle => \A c \in seated \ robbed : writer[c] = "run" => UpToDate(c)
=============================================================================
