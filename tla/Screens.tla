------------------------------- MODULE Screens -------------------------------
(***************************************************************************)
(* The interface in and around a lobby, src/internal/ui: which screen is   *)
(* in front, which session is attached, and what of it is shown; together  *)
(* with the feed that brings a session's events to it (Host.emit,          *)
(* Client.emit and events.go in src/internal/netplay).                     *)
(*                                                                         *)
(* One goroutine runs Model.Update, so the Model is one value, m, and each *)
(* message or key is one action.  Hosting and joining run beside it and    *)
(* hand their result over as a message; so does the read of the next event *)
(* of a stream, which the message of the read before it starts again.      *)
(*                                                                         *)
(* A generation number only says whose events are still wanted: m.wanted   *)
(* is the session whose events carry the current one.  Settings, history   *)
(* and the form remember where they were opened from, and are never        *)
(* entered without it: m.front is the screen in front and, behind it, what *)
(* leaving it returns to.  Cursors, text, toasts and drawing are left out, *)
(* commands to a session are module HostLobby's, what brings the node up   *)
(* is module TsNode's.                                                     *)
(***************************************************************************)
EXTENDS Integers, Sequences

CONSTANTS
  NumSessions,  \* bound: attempts to host or join
  Playing,      \* bound: the attempts in whose lobbies matches are played
  Depth         \* capacity of a session's event channel

Sessions == 1 .. NumSessions

ASSUME ScreensAssumption ==
  NumSessions \in Nat \ {0} /\ Playing \subseteq Sessions /\ Depth \in Nat \ {0}

NoSession == 0

VARIABLES
  m,       \* the Model
  feed,    \* the sessions, and the reads of their streams
  alone    \* no attempt was begun while another was on its way

vars == <<m, feed, alone>>
-----------------------------------------------------------------------------
(***************************************************************************)
(* Events and sessions.                                                    *)
(***************************************************************************)
LobbyUpdate(phase) == [kind |-> "lobby", phase |-> phase]
Event(kind) == [kind |-> kind, phase |-> "any"]
GameStarted == Event("started")
MatchOver == Event("over")
SessionClosed == Event("closed")
StreamEnd == Event("gone")

\* What the read of the stream, which each event starts again, is doing: nothing,
\* waiting for the event that is handled next, or, once nobody wants the stream's
\* events any more, on its way with the one it got.
NotReading == Event("none")
Reading == Event("waiting")

\* An attempt, and the session it makes.  What a session was sent before Update
\* hears of it are its first events.
Unused ==
  [attempt |-> "unused", kind |-> "client", life |-> "run", phase |-> "open",
   events |-> <<>>, lost |-> FALSE, read |-> NotReading]
Made(kind) ==
  [Unused EXCEPT !.attempt = "taken", !.kind = kind, !.events = <<LobbyUpdate("open")>>]

InFlight(s) == feed[s].attempt = "dialing"

\* What may become of the event ev that is emitted.  Host.emit never waits: with the
\* channel full the event is lost.  Ticks are left out, and a channel full of them is
\* as full as any.  Client.emit waits for room.
Emitted(f, ev) ==
  {g \in {[f EXCEPT !.events = Append(@, ev)]} : Len(f.events) < Depth}
    \union {g \in {[f EXCEPT !.lost = TRUE]} : f.kind = "host"}

\* Two events of one handler.
EmittedBoth(f, first, second) == UNION {Emitted(g, second) : g \in Emitted(f, first)}
-----------------------------------------------------------------------------
(***************************************************************************)
(* The Model's methods.                                                    *)
(***************************************************************************)
Screen(u) == Head(u.front)
Show(u, screen) == [u EXCEPT !.front = <<screen>>]
Open(u, screen, returnTo) == [u EXCEPT !.front = <<screen, returnTo>>]
Return(u) == [u EXCEPT !.front = Tail(@)]

\* Fault: the events of the lobby that was left are still wanted.
LeaveKeepingEvents(u) == [u EXCEPT !.session = NoSession]

\* leaveSession, for the Model: without a session it does nothing.
Leave(u) ==
  IF u.session = NoSession THEN u
  ELSE [u EXCEPT !.session = NoSession, !.wanted = NoSession]

\* Of a session whose events are not wanted any more only the one that is already
\* on its way to Update still matters.
Unheard(f) ==
  {[Made("client") EXCEPT !.life = f.life, !.events = <<>>, !.read = ev] :
     ev \in CASE f.read # Reading -> {f.read}
              [] f.read = Reading /\ f.events # <<>> -> {Head(f.events)}
              [] OTHER -> {SessionClosed, StreamEnd}}

\* Fault: the session that is left is not closed.
LeaveOpen == UNCHANGED feed

\* The session that is left, if any, is closed.
CloseLeft ==
  IF m.session = NoSession THEN UNCHANGED feed
  ELSE \E f \in Unheard([feed[m.session] EXCEPT !.life = "ended"]) :
         feed' = [feed EXCEPT ![m.session] = f]

\* handleSessionReady, when there is a session: the one attached before, if
\* any, is neither closed nor read any more.
Attach(u, s) ==
  Show([u EXCEPT !.session = s, !.wanted = s, !.room = "none", !.board = FALSE], "room")

\* A session that ended leaves the screens that need one.
Detach(u) ==
  [u EXCEPT !.session = NoSession,
            !.front = IF Screen(u) \in {"room", "game"} THEN <<"browser">> ELSE @]

\* Fault: only the event that says so ends a session.
DetachNever(u) == u

\* sessionGoneMsg.
StreamGone(u) == Detach(u)

\* Fault: the roster of a lobby is taken in only while the room shows it.
HandleEventInRoom(u, ev) ==
  CASE ev.kind = "lobby"   -> IF Screen(u) = "room" THEN [u EXCEPT !.room = ev.phase] ELSE u
    [] ev.kind = "started" -> Show([u EXCEPT !.board = TRUE], "game")
    [] ev.kind = "over"    -> Show(u, "over")
    [] ev.kind = "closed"  -> Detach(u)

\* handleSessionEvent.
HandleEvent(u, ev) ==
  CASE ev.kind = "lobby" ->
         [u EXCEPT !.room = ev.phase,
                   !.front = IF @ = <<"game">> /\ ev.phase = "open" THEN <<"room">> ELSE @]
    [] ev.kind = "started" -> Show([u EXCEPT !.board = TRUE], "game")
    [] ev.kind = "over"    -> Show(u, "over")
    [] ev.kind = "closed"  -> Detach(u)
-----------------------------------------------------------------------------
(***************************************************************************)
(* Messages to Update.                                                     *)
(***************************************************************************)
Running == Screen(m) # "gone"

\* sessionReadyMsg: whatever is in front gives way, to the room or, when the
\* attempt failed, to the browser.
SessionReady(s) ==
  /\ Running /\ InFlight(s)
  /\ \/ /\ m' = Attach(m, s)
        /\ \E before \in IF m.wanted = NoSession THEN {Unused} ELSE Unheard(feed[m.wanted]) :
             feed' = [t \in Sessions |->
                        CASE t = s -> [Made(feed[s].kind) EXCEPT !.read = Reading]
                          [] t # s /\ t = m.wanted -> before
                          [] OTHER -> feed[t]]
     \/ /\ m' = Show(m, "browser")
        /\ feed' = [feed EXCEPT ![s] = [Made("client") EXCEPT !.life = "ended", !.events = <<>>]]
  /\ UNCHANGED alone

\* What waitSession has got from the stream of session s.
Got(s) ==
  LET f == feed[s]
  IN  CASE f.read # Reading -> {f.read} \ {NotReading}
        [] f.read = Reading /\ f.events # <<>> -> {Head(f.events)}
        [] OTHER -> {end \in {StreamEnd} : f.life = "ended"}

\* sessionEventMsg.  The next read is of the stream this event came from, as it was
\* attached before the event was handled.
SessionEvent(s) ==
  \E ev \in Got(s) \ {StreamEnd} :
    /\ Running
    /\ m' = IF m.wanted = s THEN HandleEvent(m, ev) ELSE m
    /\ feed' = [feed EXCEPT
                  ![s].events = IF feed[s].read = Reading THEN Tail(@) ELSE @,
                  ![s].read = IF m.wanted = s /\ m.session # NoSession THEN @ ELSE NotReading]
    /\ UNCHANGED alone

\* sessionGoneMsg: the channel is closed and empty.
SessionGone(s) ==
  /\ Running /\ StreamEnd \in Got(s)
  /\ m' = IF m.wanted = s THEN StreamGone(m) ELSE m
  /\ feed' = [feed EXCEPT ![s].read = NotReading]
  /\ UNCHANGED alone

\* A node key that expired, or a device that was removed.
NodeNeedsLogin ==
  /\ Running /\ Screen(m) # "onboarding"
  /\ m' = Show(Leave(m), "onboarding")
  /\ CloseLeft
  /\ UNCHANGED alone

\* tickAnimations, when the node has come up.
Onboarded ==
  /\ Screen(m) = "onboarding"
  /\ m' = Show(m, "menu")
  /\ UNCHANGED <<feed, alone>>
-----------------------------------------------------------------------------
(***************************************************************************)
(* Keys.                                                                   *)
(***************************************************************************)
\* What handleKey lets through to a screen, and what a key does that only moves
\* between screens.  A log or dialog in front swallows keys, which is as if none
\* were pressed.
Pressed(screen) == Screen(m) = screen
Go(u) == m' = u /\ UNCHANGED <<feed, alone>>

\* A key that leaves the lobby.
GoLeaving(screen) ==
  m' = Show(Leave(m), screen) /\ CloseLeft /\ UNCHANGED alone

\* quit: the program ends, and every session and attempt with it.
Quit ==
  /\ Running
  /\ m' = [Show(Leave(m), "gone") EXCEPT !.room = "none", !.board = FALSE, !.editing = FALSE]
  /\ feed' = [s \in Sessions |-> [Made("client") EXCEPT !.life = "ended", !.events = <<>>]]
  /\ UNCHANGED alone

\* In a window too small for its screen only leaving and quitting are heard.
LeaveTooSmall ==
  /\ Running /\ m.session # NoSession
  /\ GoLeaving("browser")

OpenSettings ==
  /\ Running /\ Screen(m) # "settings"
  /\ Go([m EXCEPT !.front = <<"settings">> \o @])

UpdateMenu ==
  /\ Pressed("menu")
  /\ \/ \E screen \in {"form", "history"} : Go(Open(m, screen, "menu"))
     \/ Go(Show(m, "browser"))

\* Hosting or joining begins: a command that will answer with sessionReadyMsg.
Begin(s, kind) ==
  /\ feed[s].attempt = "unused" /\ \A t \in 1 .. s - 1 : feed[t].attempt # "unused"
  /\ feed' = [feed EXCEPT ![s].attempt = "dialing", ![s].kind = kind]
  /\ alone' = (alone /\ \A t \in Sessions : ~ InFlight(t))

UpdateBrowser ==
  /\ Pressed("browser")
  /\ \/ Go(Show(m, "menu"))
     \/ Go(Open(m, "form", "browser"))
     \/ \E s \in Sessions : Begin(s, "client") /\ UNCHANGED m

\* submitForm: the form stays up while the lobby is being opened.
UpdateForm ==
  /\ Pressed("form")
  /\ \/ Go(Return([m EXCEPT !.editing = FALSE]))
     \/ /\ m.editing
        /\ LET mine == m.session # NoSession /\ feed[m.session].kind = "host"
           IN  Go(Show([m EXCEPT !.editing = FALSE], IF mine THEN "room" ELSE "menu"))
     \/ /\ ~ m.editing
        /\ \E s \in Sessions : Begin(s, "host")
        /\ UNCHANGED m

UpdateRoom ==
  /\ Pressed("room")
  /\ IF m.session = NoSession THEN Go(Show(m, "browser"))
     ELSE \/ /\ feed[m.session].kind = "host" /\ m.room # "in_game"
             /\ Go(Open([m EXCEPT !.editing = TRUE], "form", "room"))
          \/ GoLeaving("browser")

UpdateGame ==
  /\ Pressed("game")
  /\ IF m.session = NoSession THEN Go(Show(m, "browser")) ELSE GoLeaving("browser")

UpdateGameOver ==
  /\ Pressed("over")
  /\ \/ Go(Show(m, IF m.session # NoSession THEN "room" ELSE "browser"))
     \/ Go(Open(m, "history", "over"))

UpdateHistory == Pressed("history") /\ Go(Return(m))

\* Saved or discarded, settings return to where they were opened from.
UpdateSettings == Pressed("settings") /\ Go(Return(m))

HandleKey ==
  \/ Quit \/ LeaveTooSmall \/ OpenSettings
  \/ UpdateMenu \/ UpdateBrowser \/ UpdateForm \/ UpdateRoom \/ UpdateGame
  \/ UpdateGameOver \/ UpdateHistory \/ UpdateSettings
-----------------------------------------------------------------------------
(***************************************************************************)
(* What runs beside Update: the sessions.                                  *)
(***************************************************************************)
BesideUpdate(s, f) == feed' = [feed EXCEPT ![s] = f] /\ UNCHANGED <<m, alone>>

\* What a lobby does next, and the events it says so with, in the order of the
\* host's handlers; a client hears of them in the same order.
LobbyStep(s) ==
  LET f == feed[s]
      Lobby(phase, after) ==
        \E g \in after : BesideUpdate(s, [g EXCEPT !.phase = phase])
  IN  /\ m.wanted = s /\ f.life = "run"
      /\ \/ Lobby(f.phase, Emitted(f, LobbyUpdate(f.phase)))
         \/ /\ f.phase = "open" /\ s \in Playing
            /\ Lobby("countdown", EmittedBoth(f, GameStarted, LobbyUpdate("countdown")))
         \/ /\ f.phase = "countdown"
            /\ Lobby("in_game", Emitted(f, LobbyUpdate("in_game")))
         \/ /\ f.phase = "in_game"
            /\ Lobby("open", EmittedBoth(f, MatchOver, LobbyUpdate("open")))
         \/ f.phase # "open" /\ Lobby("open", Emitted(f, LobbyUpdate("open")))

\* A tick that finds no room takes the place of the oldest event, whatever it is.
TickPushesOut(s) ==
  /\ m.wanted = s /\ feed[s].phase # "open" /\ feed[s].events # <<>>
  /\ BesideUpdate(s, [feed[s] EXCEPT !.events = Tail(@), !.lost = TRUE])

\* The other side is gone, or another lobby takes this one's place: the session's
\* goroutine says that it is over and closes the channel.
SessionEnds(s) ==
  /\ m.wanted = s /\ feed[s].life = "run"
  /\ \E f \in Emitted(feed[s], SessionClosed) :
       BesideUpdate(s, [f EXCEPT !.life = "ended"])
-----------------------------------------------------------------------------
Init ==
  /\ m = [front |-> <<"onboarding">>, editing |-> FALSE, session |-> NoSession,
          wanted |-> NoSession, room |-> "none", board |-> FALSE]
  /\ feed = [s \in Sessions |-> Unused]
  /\ alone = TRUE

Update ==
  \/ \E s \in Sessions : SessionReady(s) \/ SessionEvent(s) \/ SessionGone(s)
  \/ NodeNeedsLogin \/ Onboarded \/ HandleKey

Beside(s) == LobbyStep(s) \/ TickPushesOut(s) \/ SessionEnds(s)

Next == Update \/ \E s \in Sessions : Beside(s)

Spec == Init /\ [][Next]_vars

\* Update takes the messages that wait for it.  Players, lobbies and networks owe
\* nothing.
Messages == \E s \in Sessions : SessionReady(s) \/ SessionEvent(s) \/ SessionGone(s)
FairSpec == Spec /\ WF_vars(Messages)
-----------------------------------------------------------------------------
(***************************************************************************)
(* Properties.                                                             *)
(***************************************************************************)
\* Everything the attached session has said has been shown, and nothing it said
\* was lost to a full channel.
Caught(s) ==
  /\ m.session = s /\ feed[s].life = "run" /\ ~ feed[s].lost
  /\ feed[s].events = <<>> /\ feed[s].read = Reading

\* However lobbies are left, ended and joined before, and whichever screens were in
\* front meanwhile: once all its events are taken, none of them lost, the roster
\* and the board are those of the lobby one is in.
ShowsThisLobby ==
  \A s \in Sessions : Caught(s) =>
    /\ m.room = feed[s].phase
    /\ feed[s].phase # "open" => m.board

\* A room or an arena without a session behind it, or an arena after its match.
Stale ==
  \/ Screen(m) \in {"room", "game"} /\ m.session = NoSession
  \/ Screen(m) = "game" /\ \E s \in Sessions : Caught(s) /\ feed[s].phase = "open"

\* No event, however late, brings up a lobby that was left or leaves an arena
\* without a match in front: the one way to such a screen is to return to it from
\* settings or from the form, which do not look at what has happened since.
StaleOnlyByReturn ==
  [][Stale' /\ ~ Stale => Screen(m) \in {"settings", "form"}]_vars

\* Whether keys lead from what is in front to the lobby one is in.
InFront ==
  LET front == IF Screen(m) = "settings" THEN Tail(m.front) ELSE m.front
  IN  \/ front \in {<<"room">>, <<"game">>, <<"over">>, <<"history", "over">>}
      \/ front = <<"form", "room">> /\ m.editing

\* As long as no attempt is begun before the last one was answered, no session is
\* left behind open, and the one attached can be reached from the screen.
LobbyNotLost ==
  alone =>
    /\ m.session # NoSession => InFront
    /\ \A s \in Sessions :
         feed[s].attempt = "taken" /\ feed[s].life = "run" => m.session = s

\* The end of the lobby one is in is noticed, though the event that says so may be
\* the one a full channel loses.
EndNoticed ==
  \A s \in Sessions : m.session = s /\ feed[s].life # "run" ~> m.session # s
-----------------------------------------------------------------------------
(***************************************************************************)
(* What comments say and the code does not do.                             *)
(***************************************************************************)
\* "so the arena is not left on screen": settings return to it.
ArenaNotLeftOnScreen == ~ (Screen(m) = "game" /\ Stale)

\* "everything else must arrive": with a full channel it does not.
OnlyTicksLost == \A s \in Sessions : ~ feed[s].lost

\* "leave any lobby": a second attempt leaves the first lobby open behind it.
NothingLeftOpen ==
  \A s \in Sessions : feed[s].attempt = "taken" /\ feed[s].life = "run" => m.session = s
=============================================================================
