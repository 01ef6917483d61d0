--------------------------- MODULE ClientSession ----------------------------
(***************************************************************************)
(* A peer in somebody else's lobby, after it was seated:                   *)
(* src/internal/netplay/client.go (readLoop, pingLoop, emit, closeStream,  *)
(* Close, shutdown, SetReady) and the screen that reads its events         *)
(* (src/internal/ui/app.go waitSession, sessionEventMsg, leaveSession).    *)
(*                                                                         *)
(* Three goroutines share the session: readLoop turns messages into events *)
(* in a bounded channel, pingLoop gives up on a silent host, and the       *)
(* screen takes events, sends the player's choices and may leave.  Each of *)
(* the three may end the session, in three steps: say why, cancel, close   *)
(* the connection.                                                         *)
(*                                                                         *)
(* All three also send.  They take turns at the connection, by its lock,   *)
(* but share its one write deadline (src/internal/proto frame.go): a send  *)
(* sets it before it waits for its turn and clears it after its turn.      *)
(*                                                                         *)
(* The host is whatever module HostLobby lets it be: it sends rosters,     *)
(* frames and other messages, accepts a ready that quotes the generation   *)
(* of its settings, and ends.                                              *)
(***************************************************************************)
EXTENDS Naturals, Sequences

CONSTANTS
  EventDepth,   \* capacity of Client.events
  WireDepth,    \* bound: messages on their way to the client
  MaxGen,       \* bound: settings changes
  MaxTalk,      \* bound: messages that are not about new settings
  MaxPresses    \* bound: times the player readies up

ASSUME ClientAssumption ==
  /\ EventDepth \in Nat \ {0} /\ WireDepth \in Nat \ {0}
  /\ MaxGen \in Nat /\ MaxTalk \in Nat /\ MaxPresses \in Nat

Reader == "reader"
Pinger == "pinger"
Screen == "screen"
Closers == {Reader, Pinger, Screen}

VARIABLES
  hostEnd,    \* "open"; "closed", and the client can tell; "vanished", and it cannot
  hostGen,    \* Host.gen
  talk,       \* messages sent that were not about new settings
  wire,       \* messages to the client
  up,         \* readies to the host
  accepted,   \* the last ready the host took
  link,       \* the client's end of the connection
  lost,       \* the connection failed or the host ended it
  quiet,      \* hostSilenceTimeout has passed since lastSeen
  reader,     \* readLoop: "recv", "emit", "closing" or "done"
  held,       \* the event it is emitting
  said,       \* the reason it put in SessionClosed
  gen,        \* Client.gen
  events,     \* Client.events
  dropped,    \* kinds of the events emit threw away
  ending,     \* how far each goroutine is with ending the session
  once,       \* who runs closeOnce
  cancelled,  \* Client.ctx is done
  reason,     \* Client.closeMsg
  ui,         \* "attached", "left", or "told" that the session ended
  waiting,    \* a waitSession command is outstanding
  shown,      \* the settings generation on the screen
  presses,    \* times the player readied up
  sending,    \* each goroutine: "no", "queued" for its turn, "writing" or "clearing"
  deadline,   \* Conn.raw has a write deadline
  draft,      \* the ready the screen is sending
  stalled     \* the connection takes no more bytes

hostVars == <<hostEnd, hostGen, talk>>
netVars == <<wire, up, accepted, link, lost>>
readVars == <<reader, held, said, gen, dropped, quiet>>
endVars == <<ending, once, cancelled, reason>>
uiVars == <<ui, waiting, shown, presses>>
sendVars == <<sending, deadline, draft, stalled>>
vars == <<hostVars, netVars, readVars, events, endVars, uiVars, sendVars>>

Msg(kind, g) == [kind |-> kind, gen |-> g]
Nothing == Msg("none", 0)
NoReady == [gen |-> 0, shown |-> 0]
-----------------------------------------------------------------------------
(***************************************************************************)
(* The host and the network.                                               *)
(***************************************************************************)
HostSends(msg) ==
  /\ hostEnd = "open" /\ Len(wire) < WireDepth
  /\ wire' = IF link = "up" THEN Append(wire, msg) ELSE wire
  /\ UNCHANGED <<up, accepted, link, lost, readVars, events, endVars, uiVars, sendVars>>

HostReconfigures ==
  /\ hostGen < MaxGen
  /\ HostSends(Msg("lobby", hostGen + 1))
  /\ hostGen' = hostGen + 1
  /\ UNCHANGED <<hostEnd, talk>>

\* A frame, a roster that changed in something else, or a ping or request to attest,
\* which want an answer.
HostTells ==
  /\ talk < MaxTalk
  /\ \E msg \in {Msg("tick", 0), Msg("request", 0), Msg("lobby", hostGen)} : HostSends(msg)
  /\ talk' = talk + 1
  /\ UNCHANGED <<hostEnd, hostGen>>

\* A kick, or the notice that the lobby closed, and then the end.
HostDismisses ==
  /\ HostSends(Msg("dismissal", 0))
  /\ hostEnd' = "closed"
  /\ UNCHANGED <<hostGen, talk>>

\* The host dies; whether its connection ends with it is the network's choice.
HostDies ==
  /\ hostEnd = "open"
  /\ hostEnd' \in {"closed", "vanished"}
  /\ UNCHANGED <<hostGen, talk, netVars, readVars, events, endVars, uiVars, sendVars>>

\* handleClient: a ready counts if it is about the current settings.
HostTakesReady ==
  /\ hostEnd = "open" /\ up # <<>>
  /\ up' = Tail(up)
  /\ accepted' = IF Head(up).gen = hostGen THEN Head(up) ELSE accepted
  /\ UNCHANGED <<hostVars, wire, link, lost, readVars, events, endVars, uiVars,
                 sendVars>>

\* What the reader has buffered is read even after the connection is gone.
Buffered(n) == n <= Len(wire) /\ wire' = SubSeq(wire, 1, n)

\* A host that vanished reads no more, and what lies between fills up.
ConnectionStalls ==
  /\ hostEnd = "vanished" /\ ~ stalled
  /\ stalled' = TRUE
  /\ UNCHANGED <<hostVars, netVars, readVars, events, endVars, uiVars, sending,
                 deadline, draft>>

ConnectionFails ==
  /\ link = "up"
  /\ \E n \in 0 .. WireDepth : Buffered(n)
  /\ link' = "down" /\ lost' = TRUE /\ up' = <<>>
  /\ UNCHANGED <<hostVars, accepted, readVars, events, endVars, uiVars, sendVars>>

\* The reader never leaves a message lying; while it waits for the screen, or for
\* a message, time passes.
SilencePasses ==
  /\ ~ quiet /\ (wire = <<>> \/ reader = "emit")
  /\ quiet' = TRUE
  /\ UNCHANGED <<hostVars, netVars, reader, held, said, gen, dropped, events, endVars,
                 uiVars, sendVars>>
-----------------------------------------------------------------------------
(***************************************************************************)
(* Sending: Conn.SendTimeout.                                              *)
(***************************************************************************)
StartSend(who) ==
  sending[who] = "no" /\ sending' = [sending EXCEPT ![who] = "queued"] /\ deadline' = TRUE

SendStarted == UNCHANGED <<hostVars, netVars, readVars, events, stalled>>

\* Conn.wmu lets one goroutine write at a time.
TakeTurn(who) ==
  /\ sending[who] = "queued" /\ \A other \in Closers : sending[other] # "writing"
  /\ sending' = [sending EXCEPT ![who] = "writing"]
  /\ UNCHANGED <<deadline, up>>

\* The write is done, was given up at the deadline, or failed with the connection.
\* Of what is sent only a ready is kept: the screen sends that, or its goodbye.
WriteReturns(who) ==
  /\ sending[who] = "writing" /\ (~ stalled \/ deadline \/ link = "down")
  /\ sending' = [sending EXCEPT ![who] = "clearing"]
  /\ up' = IF who = Screen /\ ending[Screen] = "no" /\ ~ stalled /\ link = "up"
            THEN Append(up, draft) ELSE up
  /\ UNCHANGED deadline

\* SetWriteDeadline with no time, deferred to after the turn.
ClearDeadline(who) ==
  /\ sending[who] = "clearing"
  /\ sending' = [sending EXCEPT ![who] = "no"] /\ deadline' = FALSE
  /\ UNCHANGED up

SendStep(who) ==
  /\ TakeTurn(who) \/ WriteReturns(who) \/ ClearDeadline(who)
  /\ UNCHANGED <<hostVars, wire, accepted, link, lost, readVars, events, endVars,
                 uiVars, draft, stalled>>
-----------------------------------------------------------------------------
(***************************************************************************)
(* Ending the session: setReason, then closeOnce with cancel and Close.    *)
(***************************************************************************)
\* setReason keeps the first explanation.
SetReason(why) == reason' = IF reason = "" THEN why ELSE reason

\* Fault: no reason is left behind.
SayNothing(who, why) ==
  /\ ending' = [ending EXCEPT ![who] = "said"]
  /\ UNCHANGED reason

SayWhy(who, why) ==
  /\ SetReason(why)
  /\ ending' = [ending EXCEPT ![who] = "said"]

\* Client.Close says goodbye inside closeOnce, before it cancels.
Part(who) ==
  /\ who = Screen /\ ending[who] = "said" /\ once = "nobody"
  /\ once' = who
  /\ ending' = [ending EXCEPT ![who] = "parting"]
  /\ StartSend(who)
  /\ SendStarted
  /\ UNCHANGED <<cancelled, reason, uiVars, draft>>

Cancel(who) ==
  /\ IF who = Screen THEN ending[who] = "parting" /\ sending[who] = "no"
                     ELSE ending[who] = "said" /\ once = "nobody"
  /\ once' = who /\ cancelled' = TRUE
  /\ ending' = [ending EXCEPT ![who] = "cancelled"]
  /\ UNCHANGED <<hostVars, netVars, readVars, events, reason, uiVars, sendVars>>

\* Fault: the connection is left open.
ForgetConn(who) ==
  /\ ending[who] = "cancelled"
  /\ ending' = [ending EXCEPT ![who] = "done"]
  /\ UNCHANGED <<hostVars, netVars, readVars, events, once, cancelled, reason, uiVars,
                 sendVars>>

CloseConn(who) ==
  /\ ending[who] = "cancelled"
  /\ \E n \in 0 .. WireDepth : Buffered(n)
  /\ link' = "down"
  /\ ending' = [ending EXCEPT ![who] = "done"]
  /\ UNCHANGED <<hostVars, up, accepted, lost, readVars, events, once, cancelled,
                 reason, uiVars, sendVars>>

\* closeOnce makes everybody else wait for the first to finish.
AlreadyClosed(who) ==
  /\ ending[who] = "said" /\ once # "nobody" /\ ending[once] = "done"
  /\ ending' = [ending EXCEPT ![who] = "done"]
  /\ UNCHANGED <<hostVars, netVars, readVars, events, once, cancelled, reason, uiVars,
                 sendVars>>

EndStep(who) == Part(who) \/ Cancel(who) \/ CloseConn(who) \/ AlreadyClosed(who)
-----------------------------------------------------------------------------
(***************************************************************************)
(* pingLoop.                                                               *)
(***************************************************************************)
\* The ticker leaves two seconds, in which whoever can take a turn does.
Ping ==
  /\ ending[Pinger] = "no" /\ ~ cancelled /\ ~ quiet
  /\ (\E who \in Closers : sending[who] = "queued")
       => \E who \in Closers : sending[who] = "writing"
  /\ StartSend(Pinger)
  /\ SendStarted
  /\ UNCHANGED <<endVars, uiVars, draft>>

GiveUpOnHost ==
  /\ ending[Pinger] = "no" /\ ~ cancelled /\ quiet /\ sending[Pinger] = "no"
  /\ SayWhy(Pinger, "silent")
  /\ UNCHANGED <<hostVars, netVars, readVars, events, once, cancelled, uiVars,
                 sendVars>>
-----------------------------------------------------------------------------
(***************************************************************************)
(* readLoop.                                                               *)
(***************************************************************************)
Reading ==
  reader = "recv" /\ ending[Reader] \in {"no", "done"} /\ sending[Reader] = "no"

\* Recv and handle.  A dismissal shuts the session down, a request is answered, the
\* rest becomes events; rosters stand for every event but frames.
Receive ==
  /\ Reading /\ wire # <<>>
  /\ wire' = Tail(wire) /\ quiet' = FALSE
  /\ LET msg == Head(wire)
     IN  IF msg.kind = "dismissal"
         THEN /\ SayWhy(Reader, "dismissed")
              /\ UNCHANGED <<reader, held, gen, sending, deadline>>
         ELSE IF msg.kind = "request"
         THEN /\ IF cancelled THEN UNCHANGED <<sending, deadline>> ELSE StartSend(Reader)
              /\ UNCHANGED <<reader, held, gen, ending, reason>>
         ELSE /\ gen' = IF msg.kind = "lobby" THEN msg.gen ELSE gen
              /\ reader' = "emit" /\ held' = msg
              /\ UNCHANGED <<ending, reason, sending, deadline>>
  /\ UNCHANGED <<hostVars, up, accepted, link, lost, said, dropped, events, once,
                 cancelled, uiVars, draft, stalled>>

\* Recv fails: the loop unwinds, and closeStream reads the reason.
ReceiveFails ==
  /\ Reading /\ wire = <<>> /\ (link = "down" \/ hostEnd = "closed")
  /\ IF cancelled THEN UNCHANGED reason ELSE SetReason("wentAway")
  /\ said' = reason'
  /\ lost' = (lost \/ hostEnd = "closed")
  /\ reader' = "closing"
  /\ UNCHANGED <<hostVars, wire, up, accepted, link, held, gen, dropped, quiet, events,
                 ending, once, cancelled, uiVars, sendVars>>

Emitted(queue) ==
  /\ reader = "emit" /\ reader' = "recv" /\ held' = Nothing
  /\ events' = queue
  /\ UNCHANGED <<hostVars, netVars, said, gen, quiet, endVars, uiVars, sendVars>>

\* Fault: nothing waits for room, and what comes last is taken first.
EmitInFront == Emitted(<<held>> \o events) /\ UNCHANGED dropped

Emit == Len(events) < EventDepth /\ Emitted(Append(events, held)) /\ UNCHANGED dropped

\* No room for a frame: the oldest event makes way for it.
Squeeze ==
  /\ held.kind = "tick" /\ Len(events) = EventDepth
  /\ Emitted(Append(Tail(events), held))
  /\ dropped' = dropped \union {Head(events).kind}

\* No room for anything else: it waits, unless the session is over.
Abandon ==
  /\ held.kind # "tick" /\ Len(events) = EventDepth /\ cancelled
  /\ Emitted(events) /\ UNCHANGED dropped

\* closeStream: one last event, then the end of the channel.
CloseStream ==
  /\ reader = "closing" /\ Len(events) < EventDepth
  /\ events' = Append(events, Msg("closed", 0))
  /\ reader' = "done"
  /\ UNCHANGED <<hostVars, netVars, held, said, gen, dropped, quiet, endVars, uiVars,
                 sendVars>>

ReadStep == Receive \/ ReceiveFails \/ Emit \/ Squeeze \/ Abandon \/ CloseStream
-----------------------------------------------------------------------------
(***************************************************************************)
(* The screen.                                                             *)
(***************************************************************************)
\* One goroutine handles messages and keys, and waits for each thing it does.
Free == sending[Screen] = "no" /\ ending[Screen] \in {"no", "done"}

\* One event: handled and the next asked for, or thrown away if the player left.
TakeEvent ==
  /\ waiting /\ events # <<>> /\ Free
  /\ events' = Tail(events)
  /\ LET ev == Head(events)
     IN  IF ui = "left"
         THEN waiting' = FALSE /\ UNCHANGED <<ui, shown>>
         ELSE /\ ui' = IF ev.kind = "closed" THEN "told" ELSE ui
              /\ shown' = IF ev.kind = "lobby" THEN ev.gen ELSE shown
              /\ waiting' = (ev.kind # "closed")
  /\ UNCHANGED <<hostVars, netVars, readVars, endVars, presses, sendVars>>

\* SetReady quotes the generation of the roster received last.
PressReady ==
  /\ ui = "attached" /\ presses < MaxPresses /\ Free
  /\ presses' = presses + 1
  /\ IF cancelled THEN UNCHANGED <<sending, deadline, draft>>
     ELSE StartSend(Screen) /\ draft' = [gen |-> gen, shown |-> shown]
  /\ SendStarted
  /\ UNCHANGED <<endVars, ui, waiting, shown>>

\* leaveSession: Close, and the events still queued are nobody's.
Leave ==
  /\ ui = "attached" /\ ending[Screen] = "no" /\ Free
  /\ ui' = "left"
  /\ SayWhy(Screen, "left")
  /\ UNCHANGED <<hostVars, netVars, readVars, events, once, cancelled, waiting, shown,
                 presses, sendVars>>
-----------------------------------------------------------------------------
Init ==
  /\ hostEnd = "open" /\ hostGen = 0 /\ talk = 0
  /\ wire = <<>> /\ up = <<>> /\ accepted = NoReady
  /\ link = "up" /\ lost = FALSE /\ quiet = FALSE
  /\ reader = "recv" /\ held = Nothing /\ said = "" /\ gen = 0
  /\ events = <<>> /\ dropped = {}
  /\ ending = [who \in Closers |-> "no"] /\ once = "nobody"
  /\ cancelled = FALSE /\ reason = ""
  /\ ui = "attached" /\ waiting = TRUE /\ shown = 0 /\ presses = 0
  /\ sending = [who \in Closers |-> "no"] /\ deadline = FALSE /\ draft = NoReady
  /\ stalled = FALSE

Next ==
  \/ HostReconfigures \/ HostTells \/ HostDismisses \/ HostDies \/ HostTakesReady
  \/ ConnectionStalls \/ ConnectionFails \/ SilencePasses
  \/ Ping \/ GiveUpOnHost \/ \E who \in Closers : SendStep(who) \/ EndStep(who)
  \/ ReadStep
  \/ TakeEvent \/ PressReady \/ Leave

Spec == Init /\ [][Next]_vars

\* The goroutines of the client run, its tickers fire, and the screen handles
\* the events it is given.
Fairness ==
  /\ WF_vars(ReadStep) /\ WF_vars(Ping) /\ WF_vars(GiveUpOnHost) /\ WF_vars(SilencePasses)
  /\ WF_vars(TakeEvent)
  /\ \A who \in Closers : WF_vars(SendStep(who)) /\ WF_vars(EndStep(who))

FairSpec == Spec /\ Fairness
-----------------------------------------------------------------------------
Kinds == {"none", "lobby", "tick", "request", "dismissal", "closed"}
Messages == [kind : Kinds, gen : 0 .. MaxGen]

\* The states of the three goroutines and what lies between them; in particular
\* the event channel never holds more than it has room for.
TypeOK ==
  /\ hostEnd \in {"open", "closed", "vanished"}
  /\ hostGen \in 0 .. MaxGen /\ talk \in 0 .. MaxTalk
  /\ wire \in Seq(Messages) /\ Len(wire) <= WireDepth
  /\ up \in Seq([gen : 0 .. MaxGen, shown : 0 .. MaxGen])
  /\ accepted \in [gen : 0 .. MaxGen, shown : 0 .. MaxGen]
  /\ link \in {"up", "down"} /\ lost \in BOOLEAN /\ quiet \in BOOLEAN
  /\ reader \in {"recv", "emit", "closing", "done"} /\ held \in Messages
  /\ said \in {"", "left", "silent", "dismissed", "wentAway"} /\ gen \in 0 .. MaxGen
  /\ events \in Seq(Messages) /\ Len(events) <= EventDepth
  /\ dropped \subseteq Kinds
  /\ ending \in [Closers -> {"no", "said", "parting", "cancelled", "done"}]
  /\ once \in Closers \union {"nobody"} /\ cancelled \in BOOLEAN
  /\ reason \in {"", "left", "silent", "dismissed", "wentAway"}
  /\ ui \in {"attached", "left", "told"} /\ waiting \in BOOLEAN
  /\ shown \in 0 .. MaxGen /\ presses \in 0 .. MaxPresses
  /\ sending \in [Closers -> {"no", "queued", "writing", "clearing"}] /\ deadline \in BOOLEAN
  /\ draft \in [gen : 0 .. MaxGen, shown : 0 .. MaxGen] /\ stalled \in BOOLEAN

\* The session always ends for a stated reason, and the host is said to have gone
\* away only if it, or the connection, has: no race between the goroutine that
\* ends a session and the one that notices makes the player read a false reason.
EndExplained ==
  reader \in {"closing", "done"} => said # "" /\ (said = "wentAway" => lost)

\* The settings on the screen never go back to earlier ones.
ShownNeverOlder == [][shown' >= shown]_vars

\* A write that nothing bounds: the connection takes no more bytes and the deadline
\* was cleared.
Stuck == (\E who \in Closers : sending[who] = "writing") /\ stalled /\ ~ deadline /\ link = "up"

\* A host that is gone, with or without a trace, is noticed, and the player is
\* told unless the player has left.  Only a write that is stuck for ever prevents it.
EndIsShown == ([]<>~ Stuck) => ((hostEnd # "open") ~> (ui # "attached"))
-----------------------------------------------------------------------------
(***************************************************************************)
(* What the comments say and the code does not do.                         *)
(***************************************************************************)
\* A player the host counts as ready has seen the settings that are in force.
ReadySawSettings == accepted.shown = accepted.gen

\* Only frames are thrown away to make room.
OnlyFramesDropped == dropped \subseteq {"tick"}

\* "giving up rather than blocking the UI goroutine": a send of another goroutine may
\* clear the deadline of a write that has begun.
SendsGiveUp == \A who \in Closers : sending[who] # "no" ~> sending[who] = "no"

\* readLoop of a session that was ended emits its last event and closes the channel.
ReaderEnds == cancelled ~> (reader = "done")
=============================================================================
