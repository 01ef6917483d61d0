--------------------------- MODULE ScreensProofs ----------------------------
(***************************************************************************)
(* What holds of Screens for any number of attempts, any lobbies in which  *)
(* matches are played and any depth of the event channel.                  *)
(*                                                                         *)
(* That the room shows this lobby and not another follows from what is     *)
(* still on its way: as long as nothing was lost, the last event of the    *)
(* stream is the roster of the lobby as it is now (Current).  That a       *)
(* session which ended brings up no screen follows from the order of its   *)
(* last events (Streams).  That no lobby is left behind open needs to know *)
(* that whoever waits for an answer is in no lobby (Reachable), and that   *)
(* the form over a room is the settings of a lobby one hosts (Kept).       *)
(***************************************************************************)
EXTENDS Screens, SequenceTheorems, TLAPS

-----------------------------------------------------------------------------
(***************************************************************************)
(* The values of the Model and of a stream.                                *)
(***************************************************************************)
Phases == {"open", "countdown", "in_game"}
Events ==
  [kind : {"lobby", "started", "over", "closed"}, phase : Phases \union {"any"}]

Feeds ==
  [attempt : {"unused", "dialing", "taken"}, kind : {"client", "host"},
   life : {"run", "ended"}, phase : Phases, events : Seq(Events), lost : BOOLEAN,
   read : Events \union {NotReading, Reading, StreamEnd}]

\* What can be in front, but for settings, which can lie over all of it.
Alone == {"onboarding", "menu", "browser", "room", "game", "over", "gone"}
Names == Alone \union {"form", "history", "settings"}
Bases ==
  {<<screen>> : screen \in Alone}
    \union {<<"form", back>> : back \in {"menu", "browser", "room"}}
    \union {<<"history", back>> : back \in {"menu", "over"}}
Fronts == Bases \union {<<"settings">> \o base : base \in Bases}

\* What is behind settings.
Under(front) == IF Head(front) = "settings" THEN Tail(front) ELSE front

Typed ==
  /\ m \in [front : Fronts, editing : BOOLEAN, session : Sessions \union {NoSession},
            wanted : Sessions \union {NoSession}, room : Phases \union {"none", "any"},
            board : BOOLEAN]
  /\ feed \in [Sessions -> Feeds]
  /\ alone \in BOOLEAN
-----------------------------------------------------------------------------
(***************************************************************************)
(* The invariant.                                                          *)
(***************************************************************************)
\* What is shown of session s, or on its way, is what its lobby is like.
Current(s) ==
  LET f == feed[s]
  IN  f.life = "run" /\ ~ f.lost =>
        /\ IF f.events = <<>> THEN m.room = f.phase
           ELSE f.events[Len(f.events)] = LobbyUpdate(f.phase)
        /\ f.phase # "open" =>
             m.board \/ \E i \in 1 .. Len(f.events) : f.events[i] = GameStarted

\* The event that ends a session is its last, and after it only the end of the
\* stream is to come.
Streams ==
  /\ m.session \in {m.wanted, NoSession}
  /\ \A s \in Sessions : m.wanted = s =>
       LET f == feed[s]
       IN  /\ f.attempt = "taken"
           /\ \A i \in 1 .. Len(f.events) : f.events[i].kind = "closed" =>
                f.life = "ended" /\ i = Len(f.events)
           /\ m.session = s => f.read = Reading /\ Current(s)
           /\ m.session = NoSession =>
                f.life = "ended" /\ f.events = <<>> /\ f.read \in {NotReading, Reading}

\* The form opened from a room has the settings of a lobby one hosts.
Kept ==
  Under(m.front) = <<"form", "room">> =>
    m.editing /\ (m.session # NoSession => feed[m.session].kind = "host")

\* Whoever waits for an answer is in no lobby, and waits for one only.
Reachable ==
  alone =>
    /\ m.session # NoSession => InFront
    /\ \A s \in Sessions :
         feed[s].attempt = "taken" /\ feed[s].life = "run" => m.session = s
    /\ \A s \in Sessions : InFlight(s) =>
         m.session = NoSession /\ \A t \in Sessions : InFlight(t) => t = s

IInv == Typed /\ Streams /\ Kept /\ Reachable
-----------------------------------------------------------------------------
(***************************************************************************)
(* Screens over screens.                                                   *)
(***************************************************************************)
\* The screens a base is made of.
LEMMA BaseScreens ==
  ASSUME NEW b \in Bases
  PROVE  /\ b \in Seq(Names) /\ b # <<>>
         /\ Head(b) \in Alone \union {"form", "history"}
         /\ Head(b) \in Alone => b = <<Head(b)>>
         /\ Head(b) = "form" =>
              \E back \in {"menu", "browser", "room"} : b = <<"form", back>> /\ Tail(b) = <<back>>
         /\ Head(b) = "history" =>
              \E back \in {"menu", "over"} : b = <<"history", back>> /\ Tail(b) = <<back>>
<1>1. CASE b \in {<<screen>> : screen \in Alone}
  <2>1. PICK screen \in Alone : b = <<screen>>
    BY <1>1
  <2>2. Head(b) = screen /\ b # <<>> /\ b \in Seq(Names)
    BY <2>1 DEF Alone, Names
  <2> QED
    BY <2>1, <2>2 DEF Alone
<1>2. CASE b \in {<<"form", back>> : back \in {"menu", "browser", "room"}}
  <2>1. PICK back \in {"menu", "browser", "room"} : b = <<"form", back>>
    BY <1>2
  <2>2. back \in Names /\ "form" \in Names
    BY DEF Alone, Names
  <2>3. Head(b) = "form" /\ Tail(b) = <<back>> /\ b # <<>> /\ b \in Seq(Names)
    BY <2>1, <2>2
  <2> QED
    BY <2>1, <2>3 DEF Alone
<1>3. CASE b \in {<<"history", back>> : back \in {"menu", "over"}}
  <2>1. PICK back \in {"menu", "over"} : b = <<"history", back>>
    BY <1>3
  <2>2. back \in Names /\ "history" \in Names
    BY DEF Alone, Names
  <2>3. Head(b) = "history" /\ Tail(b) = <<back>> /\ b # <<>> /\ b \in Seq(Names)
    BY <2>1, <2>2
  <2> QED
    BY <2>1, <2>3 DEF Alone
<1> QED
  BY <1>1, <1>2, <1>3 DEF Bases

\* Settings over a base.
LEMMA Overlaid ==
  ASSUME NEW b \in Bases
  PROVE  /\ Head(<<"settings">> \o b) = "settings"
         /\ Tail(<<"settings">> \o b) = b
<1> DEFINE f == <<"settings">> \o b
<1>1. b \in Seq(Names) /\ Len(b) \in Nat /\ <<"settings">> \in Seq(Names)
  BY BaseScreens DEF Names
<1>2. f \in Seq(Names) /\ Len(f) = 1 + Len(b)
      /\ \A i \in 1 .. 1 + Len(b) : f[i] = IF i <= 1 THEN "settings" ELSE b[i - 1]
  BY <1>1, ConcatProperties
<1> HIDE DEF f
<1>3. f # <<>> /\ f[1] = "settings"
  BY <1>1, <1>2
<1>4. Head(f) = "settings"
  BY <1>3
<1>5. /\ Tail(f) \in Seq(Names) /\ Len(Tail(f)) = Len(b)
      /\ \A i \in 1 .. Len(b) : Tail(f)[i] = b[i]
  BY <1>1, <1>2, <1>3, HeadTailProperties
<1>6. Tail(f) = b
  BY <1>1, <1>5, SeqEqual
<1> QED
  BY <1>4, <1>6 DEF f

\* What is in front is a base, or settings over one.
LEMMA FrontScreens ==
  ASSUME NEW f \in Fronts
  PROVE  \/ f \in Bases /\ Head(f) # "settings"
         \/ Head(f) = "settings" /\ Tail(f) \in Bases
<1>1. CASE f \in Bases
  BY <1>1, BaseScreens DEF Alone, Names
<1>2. CASE f \in {<<"settings">> \o base : base \in Bases}
  BY <1>2, Overlaid
<1> QED
  BY <1>1, <1>2 DEF Fronts

\* Under settings and without them.
LEMMA UnderFront ==
  ASSUME NEW f \in Fronts
  PROVE  Under(f) \in Bases /\ (Head(f) # "settings" => f = Under(f))
BY FrontScreens DEF Under

\* A lobby is in front when keys lead to it.
Leads(front, editing) ==
  \/ Under(front) \in {<<"room">>, <<"game">>, <<"over">>, <<"history", "over">>}
  \/ Under(front) = <<"form", "room">> /\ editing

LEMMA LeadsInFront == InFront <=> Leads(m.front, m.editing)
BY DEF InFront, Leads, Under, Screen

LEMMA NoSessionIsNone == NoSession \notin Sessions
BY ScreensAssumption DEF NoSession, Sessions
-----------------------------------------------------------------------------
(***************************************************************************)
(* Streams.                                                                *)
(***************************************************************************)
LEMMA MadeTyped ==
  ASSUME NEW kind \in {"client", "host"}
  PROVE  /\ Made(kind) \in Feeds /\ Unused \in Feeds
         /\ Made(kind).attempt = "taken" /\ Made(kind).kind = kind
         /\ Made(kind).events = <<LobbyUpdate("open")>> /\ Made(kind).phase = "open"
         /\ Made(kind).read = NotReading
<1>1. LobbyUpdate("open") \in Events
  BY DEF LobbyUpdate, Events, Phases
<1>2. <<LobbyUpdate("open")>> \in Seq(Events) /\ <<>> \in Seq(Events)
  BY <1>1
<1> QED
  BY <1>2 DEF Made, Unused, Feeds, Phases

\* What is left of a stream nobody wants.
LEMMA UnheardTyped ==
  ASSUME NEW g \in Feeds, NEW f \in Unheard(g)
  PROVE  f \in Feeds /\ f.attempt = "taken" /\ f.life = g.life /\ f.events = <<>>
<1>1. PICK ev \in CASE g.read # Reading -> {g.read}
                     [] g.read = Reading /\ g.events # <<>> -> {Head(g.events)}
                     [] OTHER -> {SessionClosed, StreamEnd} :
        f = [Made("client") EXCEPT !.life = g.life, !.events = <<>>, !.read = ev]
  BY DEF Unheard
<1>2. ev \in Events \union {NotReading, Reading, StreamEnd}
  <2>1. g.read # Reading \/ g.events # <<>> \/ ev \in {SessionClosed, StreamEnd}
    BY <1>1
  <2>2. CASE g.read # Reading
    BY <1>1, <2>2 DEF Feeds
  <2>3. CASE g.read = Reading /\ g.events # <<>>
    <3>1. g.events \in Seq(Events)
      BY DEF Feeds
    <3> QED
      BY <1>1, <2>3, <3>1, HeadTailProperties
  <2>4. CASE g.read = Reading /\ g.events = <<>>
    BY <1>1, <2>4 DEF SessionClosed, Event, Events
  <2> QED
    BY <2>2, <2>3, <2>4
<1>3. <<>> \in Seq(Events)
  OBVIOUS
<1> HIDE DEF Feeds
<1> QED
  BY <1>1, <1>2, <1>3, MadeTyped DEF Feeds

\* What an emitted event does to a stream.
LEMMA EmittedTyped ==
  ASSUME NEW f \in Feeds, NEW ev \in Events, NEW g \in Emitted(f, ev)
  PROVE  /\ g \in Feeds
         /\ g.attempt = f.attempt /\ g.kind = f.kind /\ g.life = f.life
         /\ g.phase = f.phase /\ g.read = f.read
         /\ \/ g.events = Append(f.events, ev) /\ g.lost = f.lost
            \/ g.events = f.events /\ g.lost
<1>1. f.events \in Seq(Events) /\ Append(f.events, ev) \in Seq(Events)
  BY AppendProperties DEF Feeds
<1> QED
  BY <1>1 DEF Emitted, Feeds
-----------------------------------------------------------------------------
(***************************************************************************)
(* The steps preserve the invariant.                                       *)
(***************************************************************************)
\* A move between screens.
LEMMA Moves ==
  ASSUME IInv, NEW f \in Fronts, NEW e \in BOOLEAN,
         m' = [m EXCEPT !.front = f, !.editing = e], UNCHANGED <<feed, alone>>,
         Under(f) = <<"form", "room">> =>
           e /\ (m.session # NoSession => feed[m.session].kind = "host"),
         m.session # NoSession /\ Leads(m.front, m.editing) => Leads(f, e)
  PROVE  IInv'
<1>1. Typed'
  BY DEF IInv, Typed
<1>2. /\ m'.session = m.session /\ m'.wanted = m.wanted /\ m'.room = m.room
      /\ m'.board = m.board /\ m'.front = f /\ m'.editing = e
  BY DEF IInv, Typed
<1>3. Streams'
  BY <1>2 DEF IInv, Streams, Current
<1>4. Kept'
  BY <1>2 DEF IInv, Kept
<1>5. Reachable'
  <2>1. Leads(m'.front, m'.editing) <=> InFront'
    BY LeadsInFront DEF Leads, InFront, Under, Screen
  <2> QED
    BY <1>2, <2>1, LeadsInFront DEF IInv, Reachable, InFlight
<1> QED
  BY <1>1, <1>3, <1>4, <1>5 DEF IInv

\* Such a screen, alone in front.
LEMMA AloneInFront ==
  ASSUME NEW screen \in Alone
  PROVE  /\ <<screen>> \in Bases /\ <<screen>> \in Fronts
         /\ Head(<<screen>>) = screen /\ Under(<<screen>>) = <<screen>>
         /\ <<screen>> # <<"form", "room">>
BY DEF Bases, Fronts, Under, Alone

\* Leaving a lobby, or what is left of one.
LEMMA Leaves ==
  ASSUME IInv, NEW screen \in {"browser", "onboarding"},
         m' = Show(Leave(m), screen), CloseLeft, UNCHANGED alone
  PROVE  IInv'
<1>1. screen \in Alone
  BY DEF Alone
<1>2. CASE m.session = NoSession
  <2>1. m' = [m EXCEPT !.front = <<screen>>, !.editing = m.editing] /\ UNCHANGED feed
    BY <1>2 DEF Show, Leave, CloseLeft, IInv, Typed
  <2>2. <<screen>> \in Fronts /\ Under(<<screen>>) # <<"form", "room">> /\ m.editing \in BOOLEAN
    BY <1>1, AloneInFront DEF IInv, Typed
  <2> QED
    BY <1>2, <2>1, <2>2, Moves
<1>3. CASE m.session # NoSession
  <2> DEFINE s == m.session
  <2>1. s \in Sessions /\ feed[s] \in Feeds
    BY <1>3 DEF IInv, Typed
  <2>2. PICK f \in Unheard([feed[s] EXCEPT !.life = "ended"]) : feed' = [feed EXCEPT ![s] = f]
    BY <1>3 DEF CloseLeft
  <2>3. [feed[s] EXCEPT !.life = "ended"] \in Feeds
    BY <2>1 DEF Feeds
  <2>4. f \in Feeds /\ f.attempt = "taken" /\ f.life = "ended"
    BY <2>1, <2>3, UnheardTyped DEF Feeds
  <2>5. m' = [m EXCEPT !.session = NoSession, !.wanted = NoSession, !.front = <<screen>>]
    BY <1>3 DEF Show, Leave, IInv, Typed
  <2>6. /\ m'.session = NoSession /\ m'.wanted = NoSession /\ m'.front = <<screen>>
        /\ m'.editing = m.editing
    BY <2>5 DEF IInv, Typed
  <2>7. Typed'
    BY <1>1, <2>1, <2>2, <2>4, <2>5, AloneInFront DEF IInv, Typed
  <2>8. Streams'
    BY <2>6, NoSessionIsNone DEF Streams
  <2>9. Kept'
    BY <1>1, <2>6, AloneInFront DEF Kept
  <2>10. Reachable'
    <3>1. \A t \in Sessions : feed'[t] = IF t = s THEN f ELSE feed[t]
      BY <2>2 DEF IInv, Typed
    <3> QED
      BY <1>3, <2>4, <2>6, <3>1 DEF IInv, Reachable, InFlight
  <2> QED
    BY <2>7, <2>8, <2>9, <2>10 DEF IInv
<1> QED
  BY <1>2, <1>3

\* The program ends.
LEMMA Quits == ASSUME IInv, Quit PROVE IInv'
<1> DEFINE f == [Made("client") EXCEPT !.life = "ended", !.events = <<>>]
<1>1. f \in Feeds /\ f.attempt = "taken" /\ f.life = "ended" /\ f.events = <<>>
      /\ f.read = NotReading
  <2>1. <<>> \in Seq(Events)
    OBVIOUS
  <2> QED
    BY <2>1, MadeTyped DEF Feeds
<1>2. feed' = [s \in Sessions |-> f] /\ UNCHANGED alone
  BY DEF Quit
<1> HIDE DEF f
<1>3. \E wanted \in {NoSession, m.wanted} :
        m' = [m EXCEPT !.session = NoSession, !.wanted = wanted, !.front = <<"gone">>,
                       !.room = "none", !.board = FALSE, !.editing = FALSE]
  BY DEF Quit, Leave, Show, IInv, Typed
<1>4. /\ m'.session = NoSession /\ m'.front = <<"gone">> /\ m'.editing = FALSE
      /\ m'.wanted \in {NoSession, m.wanted}
  BY <1>3 DEF IInv, Typed
<1>5. "gone" \in Alone
  BY DEF Alone
<1>6. Typed'
  <2>1. feed' \in [Sessions -> Feeds]
    BY <1>1, <1>2
  <2>2. <<"gone">> \in Fronts
    BY <1>5, AloneInFront
  <2> QED
    BY <1>2, <1>3, <2>1, <2>2 DEF IInv, Typed
<1>7. Streams'
  <2>1. <<>> \in Seq(Events) /\ Len(<<>>) = 0
    OBVIOUS
  <2> QED
    BY <1>1, <1>2, <1>4, <2>1, NoSessionIsNone DEF Streams
<1>8. Kept'
  BY <1>4, <1>5, AloneInFront DEF Kept
<1>9. Reachable'
  BY <1>1, <1>2, <1>4 DEF Reachable, InFlight
<1> QED
  BY <1>6, <1>7, <1>8, <1>9 DEF IInv

\* An attempt begins on a screen that no lobby is behind.
LEMMA Begins ==
  ASSUME IInv, NEW s \in Sessions, NEW kind \in {"client", "host"}, Begin(s, kind),
         UNCHANGED m, ~ Leads(m.front, m.editing)
  PROVE  IInv'
<1>1. feed[s].attempt = "unused" /\ feed[s] \in Feeds
  BY DEF Begin, IInv, Typed
<1>2. PICK f \in Feeds : /\ feed' = [feed EXCEPT ![s] = f]
                         /\ f.attempt = "dialing" /\ f.kind = kind
  <2> DEFINE f == [feed[s] EXCEPT !.attempt = "dialing", !.kind = kind]
  <2>1. f \in Feeds /\ f.attempt = "dialing" /\ f.kind = kind
    BY <1>1 DEF Feeds
  <2>2. feed' = [feed EXCEPT ![s] = f]
    BY DEF Begin, IInv, Typed
  <2> QED
    BY <2>1, <2>2
<1>3. \A t \in Sessions : feed'[t] = IF t = s THEN f ELSE feed[t]
  BY <1>2 DEF IInv, Typed
<1>4. alone' = (alone /\ \A t \in Sessions : ~ InFlight(t))
  BY DEF Begin
<1>5. s # m.wanted /\ (m.session # NoSession => s # m.session)
  BY <1>1 DEF IInv, Streams
<1>6. Typed'
  <2>1. alone' \in BOOLEAN
    BY <1>4
  <2>2. feed' \in [Sessions -> Feeds]
    BY <1>2 DEF IInv, Typed
  <2> QED
    BY <2>1, <2>2 DEF IInv, Typed
<1>7. Streams'
  BY <1>3, <1>5 DEF IInv, Streams, Current
<1>8. Kept'
  <2>1. m.session # NoSession => m.session \in Sessions
    BY DEF IInv, Typed
  <2> QED
    BY <1>3, <1>5, <2>1 DEF IInv, Kept
<1>9. Reachable'
  <2> SUFFICES ASSUME alone' PROVE Reachable'
    BY DEF Reachable
  <2>1. m.session = NoSession /\ \A t \in Sessions : ~ InFlight(t)
    BY <1>4, LeadsInFront DEF IInv, Reachable
  <2>2. ASSUME NEW t \in Sessions, feed'[t].attempt = "taken", feed'[t].life = "run"
        PROVE  m.session = t
    <3>1. t # s /\ feed'[t] = feed[t]
      BY <1>2, <1>3, <2>2
    <3> QED
      BY <1>4, <2>2, <3>1 DEF IInv, Reachable
  <2>3. ASSUME NEW t \in Sessions, feed'[t].attempt = "dialing"
        PROVE  t = s
    BY <1>3, <2>1, <2>3 DEF InFlight
  <2> QED
    BY <2>1, <2>2, <2>3 DEF Reachable, InFlight
<1> QED
  BY <1>6, <1>7, <1>8, <1>9 DEF IInv

\* An attempt is answered.
LEMMA Answers == ASSUME IInv, NEW s \in Sessions, SessionReady(s) PROVE IInv'
<1>1. /\ feed[s].attempt = "dialing" /\ feed[s] \in Feeds /\ s # m.wanted
      /\ UNCHANGED alone /\ s # NoSession
  BY NoSessionIsNone DEF SessionReady, InFlight, IInv, Typed, Streams
<1>2. alone => /\ m.session = NoSession
               /\ \A t \in Sessions : InFlight(t) => t = s
               /\ \A t \in Sessions : ~ (feed[t].attempt = "taken" /\ feed[t].life = "run")
  BY NoSessionIsNone DEF SessionReady, IInv, Reachable
<1>3. CASE m' = Attach(m, s)
  <2>1. PICK before \in IF m.wanted = NoSession THEN {Unused} ELSE Unheard(feed[m.wanted]) :
          feed' = [t \in Sessions |->
                     CASE t = s -> [Made(feed[s].kind) EXCEPT !.read = Reading]
                       [] t # s /\ t = m.wanted -> before
                       [] OTHER -> feed[t]]
    <3>1. Attach(m, s) # Show(m, "browser")
      BY AloneInFront DEF Attach, Show, IInv, Typed
    <3> QED
      BY <1>3, <3>1 DEF SessionReady
  <2> DEFINE f == [Made(feed[s].kind) EXCEPT !.read = Reading]
  <2>2. /\ f \in Feeds /\ f.attempt = "taken" /\ f.read = Reading
        /\ f.events = <<LobbyUpdate("open")>> /\ f.phase = "open"
    <3>1. feed[s].kind \in {"client", "host"}
      BY <1>1 DEF Feeds
    <3> QED
      BY <3>1, MadeTyped DEF Feeds
  <2> HIDE DEF f
  <2>3. m.wanted \in Sessions =>
          /\ before \in Feeds /\ before.attempt = "taken"
          /\ before.life = feed[m.wanted].life
    <3>1. m.wanted \in Sessions => feed[m.wanted] \in Feeds
      BY DEF IInv, Typed
    <3> QED
      BY <2>1, <3>1, NoSessionIsNone, UnheardTyped
  <2>4. \A t \in Sessions :
          feed'[t] = IF t = s THEN f ELSE IF t = m.wanted THEN before ELSE feed[t]
    BY <2>1 DEF f
  <2>5. m' = [m EXCEPT !.session = s, !.wanted = s, !.room = "none", !.board = FALSE,
                       !.front = <<"room">>]
    BY <1>3 DEF Attach, Show, IInv, Typed
  <2>6. /\ m'.session = s /\ m'.wanted = s /\ m'.front = <<"room">>
        /\ m'.editing = m.editing
    BY <2>5 DEF IInv, Typed
  <2>7. "room" \in Alone
    BY DEF Alone
  <2>8. Typed'
    <3>1. feed' \in [Sessions -> Feeds]
      <4>1. \A t \in Sessions : feed[t] \in Feeds
        BY DEF IInv, Typed
      <4>2. \A t \in Sessions : feed'[t] \in Feeds
        BY <2>2, <2>3, <2>4, <4>1
      <4> QED
        BY <2>1, <4>2
    <3>2. <<"room">> \in Fronts
      BY <2>7, AloneInFront
    <3> QED
      BY <1>1, <2>5, <3>1, <3>2 DEF IInv, Typed
  <2>9. Streams'
    <3>1. feed'[s] = f
      BY <2>4
    <3>2. /\ Len(f.events) = 1 /\ f.events[1] = LobbyUpdate("open") /\ f.events # <<>>
          /\ LobbyUpdate("open").kind # "closed"
      BY <2>2 DEF LobbyUpdate
    <3>3. Current(s)'
      BY <2>2, <3>1, <3>2 DEF Current
    <3> HIDE DEF Current
    <3>4. \A i \in 1 .. Len(f.events) : f.events[i].kind # "closed"
      BY <3>2
    <3> QED
      BY <1>1, <2>2, <2>6, <3>1, <3>3, <3>4 DEF Streams
  <2>10. Kept'
    BY <2>6, <2>7, AloneInFront DEF Kept
  <2>11. Reachable'
    <3> SUFFICES ASSUME alone' PROVE Reachable'
      BY DEF Reachable
    <3>1. InFront'
      BY <2>6, <2>7, AloneInFront DEF InFront, Screen
    <3>2. ASSUME NEW t \in Sessions, feed'[t].attempt = "taken", feed'[t].life = "run"
          PROVE  t = s
      BY <1>1, <1>2, <2>3, <2>4, <3>2 DEF IInv, Streams
    <3>3. ASSUME NEW t \in Sessions
          PROVE  feed'[t].attempt # "dialing"
      BY <1>1, <1>2, <2>2, <2>3, <2>4 DEF InFlight
    <3> QED
      BY <2>6, <3>1, <3>2, <3>3 DEF Reachable, InFlight
  <2> QED
    BY <2>8, <2>9, <2>10, <2>11 DEF IInv
<1>4. CASE m' # Attach(m, s)
  <2> DEFINE f == [Made("client") EXCEPT !.life = "ended", !.events = <<>>]
  <2>1. m' = Show(m, "browser") /\ feed' = [feed EXCEPT ![s] = f]
    BY <1>4 DEF SessionReady
  <2>2. f \in Feeds /\ f.attempt = "taken" /\ f.life = "ended"
    <3>1. <<>> \in Seq(Events)
      OBVIOUS
    <3> QED
      BY <3>1, MadeTyped DEF Feeds
  <2> HIDE DEF f
  <2>3. \A t \in Sessions : feed'[t] = IF t = s THEN f ELSE feed[t]
    BY <2>1 DEF IInv, Typed
  <2>4. m' = [m EXCEPT !.front = <<"browser">>]
    BY <2>1 DEF Show
  <2>5. /\ m'.session = m.session /\ m'.wanted = m.wanted /\ m'.front = <<"browser">>
        /\ m'.editing = m.editing /\ m'.room = m.room /\ m'.board = m.board
    BY <2>4 DEF IInv, Typed
  <2>6. "browser" \in Alone
    BY DEF Alone
  <2>7. Typed'
    <3>1. feed' \in [Sessions -> Feeds] /\ <<"browser">> \in Fronts
      BY <2>1, <2>2, <2>6, AloneInFront DEF IInv, Typed
    <3> QED
      BY <1>1, <2>4, <3>1 DEF IInv, Typed
  <2>8. Streams'
    BY <1>1, <2>3, <2>5 DEF IInv, Streams, Current
  <2>9. Kept'
    BY <2>5, <2>6, AloneInFront DEF Kept
  <2>10. Reachable'
    BY <1>1, <1>2, <2>2, <2>3, <2>5 DEF Reachable, InFlight
  <2> QED
    BY <2>7, <2>8, <2>9, <2>10 DEF IInv
<1> QED
  BY <1>3, <1>4

\* An event of the session one is in is the first of its stream.
LEMMA EventOfSession ==
  ASSUME IInv, NEW s \in Sessions, m.wanted = s, NEW ev \in Got(s) \ {StreamEnd}
  PROVE  /\ m.session = s /\ feed[s].read = Reading
         /\ feed[s].events # <<>> /\ ev = Head(feed[s].events) /\ ev \in Events
<1> DEFINE f == feed[s]
<1>1. /\ f \in Feeds /\ m.session \in {s, NoSession} /\ f.read \in {NotReading, Reading}
      /\ m.session = NoSession => f.life = "ended" /\ f.events = <<>>
      /\ m.session = s => f.read = Reading
  BY NoSessionIsNone DEF IInv, Typed, Streams
<1>2. NotReading # Reading
  BY DEF NotReading, Reading, Event
<1>3. f.read = Reading
  BY <1>1, <1>2 DEF Got
<1>4. f.events # <<>> /\ ev = Head(f.events)
  BY <1>1, <1>3 DEF Got
<1>5. f.events \in Seq(Events)
  BY <1>1 DEF Feeds
<1>6. ev \in Events
  BY <1>4, <1>5, HeadTailProperties
<1> QED
  BY <1>1, <1>3, <1>4, <1>6

\* What an event does to the Model.
LEMMA Handled ==
  ASSUME Typed, NEW ev \in Events, NEW u, u = HandleEvent(m, ev)
  PROVE  /\ u \in [front : Fronts, editing : BOOLEAN, session : Sessions \union {NoSession},
                    wanted : Sessions \union {NoSession},
                    room : Phases \union {"none", "any"}, board : BOOLEAN]
         /\ u.wanted = m.wanted /\ u.editing = m.editing
         /\ u.session = IF ev.kind = "closed" THEN NoSession ELSE m.session
         /\ u.room = IF ev.kind = "lobby" THEN ev.phase ELSE m.room
         /\ u.board = (ev.kind = "started" \/ m.board)
         /\ u.front \in CASE ev.kind = "lobby" -> {m.front, <<"room">>}
                          [] ev.kind = "started" -> {<<"game">>}
                          [] ev.kind = "over" -> {<<"over">>}
                          [] ev.kind = "closed" -> {m.front, <<"browser">>}
<1>1. /\ ev.kind \in {"lobby", "started", "over", "closed"}
      /\ ev.phase \in Phases \union {"any"}
  BY DEF Events
<1>2. {"room", "game", "over", "browser"} \subseteq Alone
  BY DEF Alone
<1>3. /\ <<"room">> \in Fronts /\ <<"game">> \in Fronts /\ <<"over">> \in Fronts
      /\ <<"browser">> \in Fronts
  BY <1>2, AloneInFront
<1>4. CASE ev.kind = "lobby"
  BY <1>1, <1>3, <1>4 DEF HandleEvent, Typed
<1>5. CASE ev.kind = "started"
  BY <1>3, <1>5 DEF HandleEvent, Show, Typed
<1>6. CASE ev.kind = "over"
  BY <1>3, <1>6 DEF HandleEvent, Show, Typed
<1>7. CASE ev.kind = "closed"
  <2>1. u = Detach(m)
    BY <1>7 DEF HandleEvent
  <2> QED
    BY <1>3, <1>7, <2>1 DEF Detach, Typed
<1> QED
  BY <1>1, <1>4, <1>5, <1>6, <1>7

\* An event is taken.
LEMMA Takes == ASSUME IInv, NEW s \in Sessions, SessionEvent(s) PROVE IInv'
<1> DEFINE f == feed[s]
<1>1. PICK ev \in Got(s) \ {StreamEnd} :
        /\ m' = IF m.wanted = s THEN HandleEvent(m, ev) ELSE m
        /\ feed' = [feed EXCEPT
                      ![s].events = IF feed[s].read = Reading THEN Tail(@) ELSE @,
                      ![s].read = IF m.wanted = s /\ m.session # NoSession THEN @
                                  ELSE NotReading]
        /\ UNCHANGED alone
  BY DEF SessionEvent
<1>2. f \in Feeds /\ f.events \in Seq(Events)
  BY DEF IInv, Typed, Feeds
<1>3. f.read = Reading => f.events # <<>>
  BY <1>1 DEF Got
<1>4. PICK g \in Feeds :
        /\ feed' = [feed EXCEPT ![s] = g]
        /\ g.attempt = f.attempt /\ g.kind = f.kind /\ g.life = f.life /\ g.phase = f.phase
        /\ g.lost = f.lost
        /\ g.events = IF f.read = Reading THEN Tail(f.events) ELSE f.events
        /\ g.read = IF m.wanted = s /\ m.session # NoSession THEN f.read ELSE NotReading
  <2> DEFINE g == [f EXCEPT !.events = IF f.read = Reading THEN Tail(@) ELSE @,
                            !.read = IF m.wanted = s /\ m.session # NoSession THEN @
                                     ELSE NotReading]
  <2>1. f.read = Reading => Tail(f.events) \in Seq(Events)
    BY <1>2, <1>3, HeadTailProperties
  <2>2. g \in Feeds
    BY <1>2, <2>1 DEF Feeds
  <2>3. feed' = [feed EXCEPT ![s] = g]
    BY <1>1 DEF IInv, Typed
  <2> QED
    BY <1>2, <2>2, <2>3 DEF Feeds
<1>5. \A t \in Sessions : feed'[t] = IF t = s THEN g ELSE feed[t]
  BY <1>4 DEF IInv, Typed
<1>6. feed' \in [Sessions -> Feeds]
  BY <1>4 DEF IInv, Typed
<1> HIDE DEF f
<1>7. CASE m.wanted # s
  <2>1. m' = m /\ (m.session # NoSession => m.session # s)
    BY <1>1, <1>7 DEF IInv, Streams
  <2>2. Typed'
    BY <1>1, <1>6, <2>1 DEF IInv, Typed
  <2>3. Streams'
    BY <1>5, <1>7, <2>1 DEF IInv, Streams, Current
  <2>4. Kept'
    <3>1. m.session # NoSession => m.session \in Sessions
      BY DEF IInv, Typed
    <3> QED
      BY <1>5, <2>1, <3>1 DEF IInv, Kept
  <2>5. Reachable'
    <3>1. \A t \in Sessions : feed'[t].attempt = feed[t].attempt /\ feed'[t].life = feed[t].life
      BY <1>4, <1>5 DEF f
    <3>2. InFront' <=> InFront
      BY <2>1 DEF InFront, Screen
    <3> QED
      BY <1>1, <2>1, <3>1, <3>2 DEF IInv, Reachable, InFlight
  <2> QED
    BY <2>2, <2>3, <2>4, <2>5 DEF IInv
<1>8. CASE m.wanted = s
  <2>1. /\ m.session = s /\ f.read = Reading /\ f.events # <<>> /\ ev = Head(f.events)
        /\ ev \in Events /\ s # NoSession
    BY <1>8, EventOfSession, NoSessionIsNone DEF f
  <2>2. m' = HandleEvent(m, ev)
    BY <1>1, <1>8
  <2>3. Typed'
    BY <1>1, <1>6, <2>1, <2>2, Handled DEF IInv, Typed
  <2>4. /\ m'.wanted = s /\ m'.editing = m.editing
        /\ m'.session = IF ev.kind = "closed" THEN NoSession ELSE s
        /\ m'.room = IF ev.kind = "lobby" THEN ev.phase ELSE m.room
        /\ m'.board = (ev.kind = "started" \/ m.board)
        /\ ev.kind \in {"lobby", "started", "over", "closed"}
    BY <1>8, <2>1, <2>2, Handled DEF IInv, Events
  <2>5. /\ Len(f.events) \in Nat \ {0} /\ ev = f.events[1]
        /\ g.events \in Seq(Events) /\ Len(g.events) = Len(f.events) - 1
        /\ \A i \in 1 .. Len(g.events) :
             g.events[i] = f.events[i + 1] /\ i + 1 \in 1 .. Len(f.events)
    BY <1>2, <1>4, <2>1, HeadTailProperties, EmptySeq DEF f
  <2>6. /\ f.attempt = "taken" /\ Current(s)
        /\ \A i \in 1 .. Len(f.events) : f.events[i].kind = "closed" =>
             f.life = "ended" /\ i = Len(f.events)
    BY <1>8, <2>1 DEF IInv, Streams, f
  <2>7. \A i \in 1 .. Len(g.events) : g.events[i].kind = "closed" =>
          g.life = "ended" /\ i = Len(g.events)
    BY <1>4, <2>5, <2>6
  <2>8. ev.kind = "closed" => g.life = "ended" /\ g.events = <<>>
    <3> SUFFICES ASSUME ev.kind = "closed" PROVE g.life = "ended" /\ g.events = <<>>
      OBVIOUS
    <3>1. f.life = "ended" /\ Len(f.events) = 1
      <4>1. 1 \in 1 .. Len(f.events) /\ f.events[1].kind = "closed"
        BY <2>5
      <4> QED
        BY <2>6, <4>1
    <3> QED
      BY <1>4, <2>5, <3>1, EmptySeq
  <2>9. Streams'
    <3>1. g.read = Reading
      BY <1>4, <1>8, <2>1
    <3>2. ev.kind # "closed" => Current(s)'
      <4> SUFFICES ASSUME ev.kind # "closed", g.life = "run", ~ g.lost
                   PROVE  /\ IF g.events = <<>> THEN m'.room = g.phase
                             ELSE g.events[Len(g.events)] = LobbyUpdate(g.phase)
                          /\ g.phase # "open" =>
                               m'.board \/ \E i \in 1 .. Len(g.events) : g.events[i] = GameStarted
        BY <1>5 DEF Current
      <4>1. /\ f.events[Len(f.events)] = LobbyUpdate(f.phase)
            /\ f.phase # "open" =>
                 m.board \/ \E i \in 1 .. Len(f.events) : f.events[i] = GameStarted
        BY <1>4, <2>1, <2>6 DEF Current, f
      <4>2. CASE g.events = <<>>
        <5>1. Len(f.events) = 1
          BY <2>5, <4>2, EmptySeq
        <5>2. ev = LobbyUpdate(f.phase)
          BY <2>5, <4>1, <5>1
        <5>3. \A i \in 1 .. Len(f.events) : f.events[i] # GameStarted
          <6>1. \A i \in 1 .. Len(f.events) : f.events[i] = LobbyUpdate(f.phase)
            <7>1. \A i \in 1 .. Len(f.events) : i = 1
              BY <5>1
            <7> QED
              BY <2>5, <5>2, <7>1
          <6>2. LobbyUpdate(f.phase).kind = "lobby" /\ GameStarted.kind = "started"
            BY DEF LobbyUpdate, GameStarted, Event
          <6> QED
            BY <6>1, <6>2
        <5>4. m'.room = g.phase
          BY <1>4, <2>4, <5>2 DEF LobbyUpdate
        <5> QED
          BY <1>4, <2>4, <4>1, <4>2, <5>3, <5>4
      <4>3. CASE g.events # <<>>
        <5>1. PICK n \in Nat \ {0} : Len(g.events) = n /\ Len(f.events) = n + 1
          BY <2>5, <4>3, EmptySeq
        <5>2. g.events[Len(g.events)] = LobbyUpdate(g.phase)
          <6>1. n \in 1 .. n
            BY <5>1
          <6>2. g.events[n] = f.events[n + 1]
            BY <2>5, <5>1, <6>1
          <6> QED
            BY <1>4, <4>1, <5>1, <6>2
        <5>3. ASSUME NEW i \in 1 .. Len(f.events), f.events[i] = GameStarted
              PROVE  m'.board \/ \E j \in 1 .. Len(g.events) : g.events[j] = GameStarted
          <6>1. CASE i = 1
            <7>1. ev = GameStarted /\ GameStarted.kind = "started"
              BY <2>5, <5>3, <6>1 DEF GameStarted, Event
            <7> QED
              BY <2>4, <7>1
          <6>2. CASE i # 1
            <7>1. i - 1 \in 1 .. Len(g.events) /\ (i - 1) + 1 = i
              BY <2>5, <6>2
            <7> QED
              BY <2>5, <5>3, <7>1
          <6> QED
            BY <6>1, <6>2
        <5> QED
          BY <1>4, <2>4, <4>1, <4>3, <5>2, <5>3
      <4> QED
        BY <4>2, <4>3
    <3> HIDE DEF Current
    <3>3. g.attempt = "taken" /\ feed'[s] = g
      BY <1>4, <1>5, <2>6
    <3>4. m'.session = s => Current(s)'
      BY <2>1, <2>4, <3>2
    <3>5. m'.session = NoSession => g.life = "ended" /\ g.events = <<>>
      BY <2>1, <2>4, <2>8
    <3>6. m'.session \in {m'.wanted, NoSession} /\ \A t \in Sessions : m'.wanted = t => t = s
      BY <2>4
    <3> QED
      BY <2>7, <3>1, <3>3, <3>4, <3>5, <3>6 DEF Streams
  <2>10. Under(m'.front) = <<"form", "room">> => m'.front = m.front
    <3>1. {"room", "game", "over", "browser"} \subseteq Alone
      BY DEF Alone
    <3> QED
      BY <2>1, <2>2, <2>4, <3>1, Handled, AloneInFront DEF IInv
  <2>11. Kept'
    BY <1>4, <1>5, <2>1, <2>4, <2>10 DEF IInv, Kept, f
  <2>12. Reachable'
    <3> SUFFICES ASSUME alone' PROVE Reachable'
      BY DEF Reachable
    <3>1. InFront /\ \A t \in Sessions : ~ InFlight(t)
      BY <1>1, <2>1 DEF IInv, Reachable
    <3>2. m'.session # NoSession => InFront'
      <4>1. {"room", "game", "over"} \subseteq Alone
        BY DEF Alone
      <4>2. m'.session # NoSession =>
              m'.front \in {m.front, <<"room">>, <<"game">>, <<"over">>}
        BY <2>1, <2>2, <2>4, Handled DEF IInv
      <4> QED
        BY <2>4, <3>1, <4>1, <4>2, AloneInFront DEF InFront, Screen
    <3>3. \A t \in Sessions : feed'[t].attempt = feed[t].attempt /\ feed'[t].life = feed[t].life
      BY <1>4, <1>5 DEF f
    <3>4. \A t \in Sessions : feed[t].attempt = "taken" /\ feed[t].life = "run" => t = s
      BY <1>1, <2>1 DEF IInv, Reachable
    <3> QED
      BY <1>5, <2>4, <2>8, <3>1, <3>2, <3>3, <3>4 DEF Reachable, InFlight
  <2> QED
    BY <2>3, <2>9, <2>11, <2>12 DEF IInv
<1> QED
  BY <1>7, <1>8

\* The end of a stream is found.
LEMMA Ends == ASSUME IInv, NEW s \in Sessions, SessionGone(s) PROVE IInv'
<1> DEFINE f == feed[s]
           g == [f EXCEPT !.read = NotReading]
<1>1. f \in Feeds /\ g \in Feeds
  <2>1. f \in Feeds
    BY DEF IInv, Typed
  <2> QED
    BY <2>1 DEF Feeds
<1>2. /\ StreamEnd \in Got(s) /\ UNCHANGED alone
      /\ m' = IF m.wanted = s THEN StreamGone(m) ELSE m
      /\ feed' = [feed EXCEPT ![s] = g]
  BY DEF SessionGone, IInv, Typed
<1>3. \A t \in Sessions : feed'[t] = IF t = s THEN g ELSE feed[t]
  BY <1>2 DEF IInv, Typed
<1>4. /\ g.attempt = f.attempt /\ g.kind = f.kind /\ g.life = f.life /\ g.phase = f.phase
      /\ g.lost = f.lost /\ g.events = f.events /\ g.read = NotReading
  BY <1>1 DEF Feeds
<1>5. m.wanted = s => f.life = "ended" /\ f.events = <<>>
  <2>1. StreamEnd # Reading /\ StreamEnd # NotReading /\ StreamEnd \notin Events
    BY DEF StreamEnd, Reading, NotReading, Event, Events
  <2>2. m.wanted = s =>
          (m.session = s /\ f.read = Reading) \/ (f.life = "ended" /\ f.events = <<>>)
    BY DEF IInv, Streams
  <2>3. f.events # <<>> => Head(f.events) \in Events
    BY <1>1, HeadTailProperties DEF Feeds
  <2>4. f.read = Reading /\ f.events # <<>> => Got(s) = {Head(f.events)}
    BY DEF Got
  <2>5. f.read = Reading /\ f.events = <<>> /\ f.life # "ended" => Got(s) = {}
    BY DEF Got
  <2>6. f.read = Reading => f.life = "ended" /\ f.events = <<>>
    BY <1>2, <2>1, <2>3, <2>4, <2>5
  <2> QED
    BY <2>2, <2>6
<1> HIDE DEF f, g
<1>6. \/ m' = m /\ m.wanted # s
      \/ /\ m.wanted = s
         /\ \E front \in {m.front, <<"browser">>} :
              m' = [m EXCEPT !.session = NoSession, !.front = front]
  BY <1>2 DEF StreamGone, Detach, IInv, Typed
<1>7. "browser" \in Alone
  BY DEF Alone
<1>8. /\ m'.wanted = m.wanted /\ m'.room = m.room /\ m'.board = m.board
      /\ m'.editing = m.editing
      /\ m'.session = (IF m.wanted = s THEN NoSession ELSE m.session)
      /\ m'.front \in {m.front, <<"browser">>}
      /\ m.wanted # s => m'.front = m.front
  BY <1>6 DEF IInv, Typed
<1>9. Typed'
  <2>1. feed' \in [Sessions -> Feeds]
    BY <1>1, <1>2 DEF IInv, Typed
  <2>2. <<"browser">> \in Fronts
    BY <1>7, AloneInFront
  <2>3. m' = m \/ \E front \in Fronts :
                    m' = [m EXCEPT !.session = NoSession, !.front = front]
    BY <1>6, <2>2 DEF IInv, Typed
  <2> QED
    BY <1>2, <2>1, <2>3 DEF IInv, Typed
<1>10. m.session # NoSession => m.session = m.wanted /\ m.session \in Sessions
  BY DEF IInv, Streams, Typed
<1>11. Streams'
  <2>1. CASE m.wanted = s
    <3>1. /\ feed'[s] = g /\ g.attempt = "taken" /\ g.life = "ended" /\ g.events = <<>>
          /\ Len(<<>>) = 0 /\ s # NoSession
      BY <1>3, <1>4, <1>5, <2>1, EmptySeq, NoSessionIsNone DEF IInv, Streams, f
    <3> QED
      BY <1>4, <1>8, <2>1, <3>1 DEF Streams
  <2>2. CASE m.wanted # s
    BY <1>3, <1>8, <2>2 DEF IInv, Streams, Current
  <2> QED
    BY <2>1, <2>2
<1>12. Kept'
  <2>1. <<"browser">> # <<"form", "room">> /\ Under(<<"browser">>) = <<"browser">>
    BY <1>7, AloneInFront
  <2> QED
    BY <1>3, <1>4, <1>8, <1>10, <2>1 DEF IInv, Kept, f
<1>13. Reachable'
  <2> SUFFICES ASSUME alone' PROVE Reachable'
    BY DEF Reachable
  <2>1. \A t \in Sessions : feed'[t].attempt = feed[t].attempt /\ feed'[t].life = feed[t].life
    BY <1>3, <1>4 DEF f
  <2>2. m'.session # NoSession => m' = m
    BY <1>6, <1>8
  <2>3. m'.session # NoSession => InFront'
    BY <1>2, <2>2 DEF IInv, Reachable, InFront, Screen
  <2>4. ASSUME NEW t \in Sessions, feed'[t].attempt = "taken", feed'[t].life = "run"
        PROVE  m'.session = t
    BY <1>2, <1>5, <1>8, <2>1, <2>4 DEF IInv, Reachable, f, Streams
  <2>5. ASSUME NEW t \in Sessions, feed'[t].attempt = "dialing"
        PROVE  /\ m'.session = NoSession
               /\ \A r \in Sessions : feed'[r].attempt = "dialing" => r = t
    BY <1>2, <1>8, <2>1, <2>5 DEF IInv, Reachable, InFlight
  <2> QED
    BY <2>3, <2>4, <2>5 DEF Reachable, InFlight
<1> QED
  BY <1>9, <1>11, <1>12, <1>13 DEF IInv
-----------------------------------------------------------------------------
(***************************************************************************)
(* What a lobby tells.                                                     *)
(***************************************************************************)
\* A step of the session one is in: the stream has changed to g, and says the same
\* of the lobby.
LEMMA Tells ==
  ASSUME IInv, NEW s \in Sessions, m.wanted = s, feed[s].events # <<>> \/ feed[s].life = "run",
         NEW g \in Feeds, feed' = [feed EXCEPT ![s] = g], UNCHANGED <<m, alone>>,
         g.attempt = feed[s].attempt, g.kind = feed[s].kind, g.read = feed[s].read,
         g.life \in {feed[s].life, "ended"},
         \A i \in 1 .. Len(g.events) : g.events[i].kind = "closed" =>
           g.life = "ended" /\ i = Len(g.events),
         Current(s)'
  PROVE  IInv'
<1>1. \A t \in Sessions : feed'[t] = IF t = s THEN g ELSE feed[t]
  BY DEF IInv, Typed
<1>2. m.session = s /\ s # NoSession /\ feed[s].attempt = "taken" /\ feed[s].read = Reading
  BY NoSessionIsNone DEF IInv, Streams
<1>3. Typed'
  <2>1. feed' \in [Sessions -> Feeds]
    BY DEF IInv, Typed
  <2> QED
    BY <2>1 DEF IInv, Typed
<1> HIDE DEF Current
<1>4. Streams'
  BY <1>1, <1>2, NoSessionIsNone DEF IInv, Streams
<1>5. Kept'
  BY <1>1, <1>2 DEF IInv, Kept
<1>6. Reachable'
  <2>1. InFront' <=> InFront
    BY DEF InFront, Screen
  <2> QED
    BY <1>1, <1>2, <2>1 DEF IInv, Reachable, InFlight
<1> QED
  BY <1>3, <1>4, <1>5, <1>6 DEF IInv

\* The events of one that is in are read, and none says yet that it is over.
LEMMA Listening ==
  ASSUME IInv, NEW s \in Sessions, m.wanted = s, feed[s].life = "run"
  PROVE  /\ feed[s] \in Feeds /\ feed[s].events \in Seq(Events) /\ Current(s)
         /\ \A i \in 1 .. Len(feed[s].events) : feed[s].events[i].kind # "closed"
<1>1. feed[s] \in Feeds /\ feed[s].events \in Seq(Events)
  BY DEF IInv, Typed, Feeds
<1> QED
  BY <1>1, NoSessionIsNone DEF IInv, Streams

\* The lobby says what it is like now, with gs the events before that.
LEMMA Says ==
  ASSUME IInv, NEW s \in Sessions, m.wanted = s, feed[s].life = "run",
         NEW phase \in Phases, NEW e \in Feeds, NEW g \in Emitted(e, LobbyUpdate(phase)),
         feed' = [feed EXCEPT ![s] = [g EXCEPT !.phase = phase]], UNCHANGED <<m, alone>>,
         e.attempt = feed[s].attempt, e.kind = feed[s].kind, e.life = feed[s].life,
         e.read = feed[s].read,
         \A i \in 1 .. Len(e.events) : e.events[i].kind # "closed",
         phase # "open" /\ ~ e.lost =>
           m.board \/ \E i \in 1 .. Len(e.events) : e.events[i] = GameStarted
  PROVE  IInv'
<1> DEFINE h == [g EXCEPT !.phase = phase]
<1>1. LobbyUpdate(phase) \in Events /\ LobbyUpdate(phase).kind = "lobby"
  BY DEF LobbyUpdate, Events, Phases
<1>2. /\ g \in Feeds /\ g.attempt = e.attempt /\ g.kind = e.kind /\ g.life = e.life
      /\ g.read = e.read
      /\ \/ g.events = Append(e.events, LobbyUpdate(phase)) /\ g.lost = e.lost
         \/ g.events = e.events /\ g.lost
  BY <1>1, EmittedTyped
<1>3. /\ h \in Feeds /\ h.attempt = e.attempt /\ h.kind = e.kind /\ h.life = e.life
      /\ h.read = e.read /\ h.events = g.events /\ h.lost = g.lost /\ h.phase = phase
  BY <1>2 DEF Feeds
<1> HIDE DEF h
<1>4. e.events \in Seq(Events)
  BY DEF Feeds
<1>5. /\ \A i \in 1 .. Len(h.events) : h.events[i].kind # "closed"
      /\ ~ h.lost => /\ h.events # <<>> /\ h.events[Len(h.events)] = LobbyUpdate(phase)
                     /\ phase # "open" =>
                          m.board \/ \E i \in 1 .. Len(h.events) : h.events[i] = GameStarted
  <2>1. CASE g.events = e.events /\ g.lost
    BY <1>3, <2>1
  <2>2. CASE g.events = Append(e.events, LobbyUpdate(phase)) /\ g.lost = e.lost
    <3>1. PICK n \in Nat : Len(e.events) = n
      BY <1>4
    <3>2. /\ h.events # <<>> /\ Len(h.events) = n + 1 /\ h.events[n + 1] = LobbyUpdate(phase)
          /\ \A i \in 1 .. n : h.events[i] = e.events[i]
      BY <1>1, <1>3, <1>4, <2>2, <3>1, AppendProperties
    <3>3. \A i \in 1 .. n + 1 : i \in 1 .. n \/ i = n + 1
      BY <3>1
    <3>4. \A i \in 1 .. n : i \in 1 .. n + 1
      BY <3>1
    <3> QED
      BY <1>1, <1>3, <2>2, <3>1, <3>2, <3>3, <3>4
  <2> QED
    BY <1>2, <2>1, <2>2
<1>6. \A t \in Sessions : feed'[t] = IF t = s THEN h ELSE feed[t]
  BY DEF IInv, Typed, h
<1>7. Current(s)'
  BY <1>3, <1>5, <1>6 DEF Current
<1>8. feed' = [feed EXCEPT ![s] = h]
  BY DEF h
<1>9. /\ h.attempt = feed[s].attempt /\ h.kind = feed[s].kind /\ h.read = feed[s].read
      /\ h.life = feed[s].life
  BY <1>3
<1>10. \A i \in 1 .. Len(h.events) : h.events[i].kind = "closed" =>
         h.life = "ended" /\ i = Len(h.events)
  BY <1>5
<1> HIDE DEF Current
<1> QED
  BY <1>3, <1>7, <1>8, <1>9, <1>10, Tells

\* After an event that may have been lost it is said what the lobby is like.
LEMMA SaysBoth ==
  ASSUME IInv, NEW s \in Sessions, m.wanted = s, feed[s].life = "run",
         NEW phase \in Phases, NEW ev \in {GameStarted, MatchOver},
         phase # "open" => ev = GameStarted,
         NEW g \in EmittedBoth(feed[s], ev, LobbyUpdate(phase)),
         feed' = [feed EXCEPT ![s] = [g EXCEPT !.phase = phase]], UNCHANGED <<m, alone>>
  PROVE  IInv'
<1> DEFINE f == feed[s]
<1>1. f \in Feeds /\ f.events \in Seq(Events)
      /\ \A i \in 1 .. Len(f.events) : f.events[i].kind # "closed"
  BY Listening
<1>2. ev \in Events /\ ev.kind # "closed"
  BY DEF GameStarted, MatchOver, Event, Events
<1>3. PICK e \in Emitted(f, ev) : g \in Emitted(e, LobbyUpdate(phase))
  BY DEF EmittedBoth
<1>4. /\ e \in Feeds /\ e.attempt = f.attempt /\ e.kind = f.kind /\ e.life = f.life
      /\ e.read = f.read
      /\ \/ e.events = Append(f.events, ev) /\ e.lost = f.lost
         \/ e.events = f.events /\ e.lost
  BY <1>1, <1>2, <1>3, EmittedTyped
<1> HIDE DEF f
<1>5. /\ \A i \in 1 .. Len(e.events) : e.events[i].kind # "closed"
      /\ ~ e.lost => \E i \in 1 .. Len(e.events) : e.events[i] = ev
  <2>1. CASE e.events = f.events /\ e.lost
    BY <1>1, <2>1
  <2>2. CASE e.events = Append(f.events, ev)
    <3>1. PICK n \in Nat : Len(f.events) = n
      BY <1>1
    <3>2. /\ Len(e.events) = n + 1 /\ e.events[n + 1] = ev
          /\ \A i \in 1 .. n : e.events[i] = f.events[i]
      BY <1>1, <1>2, <2>2, <3>1, AppendProperties
    <3>3. n + 1 \in 1 .. n + 1 /\ \A i \in 1 .. n + 1 : i \in 1 .. n \/ i = n + 1
      BY <3>1
    <3> QED
      BY <1>1, <1>2, <3>1, <3>2, <3>3
  <2> QED
    BY <1>4, <2>1, <2>2
<1> QED
  BY <1>3, <1>4, <1>5, Says DEF f

LEMMA LobbySteps == ASSUME IInv, NEW s \in Sessions, LobbyStep(s) PROVE IInv'
<1> DEFINE f == feed[s]
<1>1. m.wanted = s /\ f.life = "run"
  BY DEF LobbyStep
<1>2. /\ f \in Feeds /\ Current(s) /\ f.phase \in Phases
      /\ \A i \in 1 .. Len(f.events) : f.events[i].kind # "closed"
  BY <1>1, Listening DEF Feeds
<1>3. f.phase # "open" /\ ~ f.lost =>
        m.board \/ \E i \in 1 .. Len(f.events) : f.events[i] = GameStarted
  BY <1>1, <1>2 DEF Current
<1>4. {"open", "countdown", "in_game"} \subseteq Phases
  BY DEF Phases
<1>5. ASSUME NEW phase \in Phases, NEW g \in Emitted(f, LobbyUpdate(phase)),
             BesideUpdate(s, [g EXCEPT !.phase = phase]), phase # "open" => f.phase # "open"
      PROVE  IInv'
  BY <1>1, <1>2, <1>3, <1>5, Says DEF BesideUpdate
<1>6. ASSUME NEW phase \in Phases, NEW ev \in {GameStarted, MatchOver},
             NEW g \in EmittedBoth(f, ev, LobbyUpdate(phase)),
             BesideUpdate(s, [g EXCEPT !.phase = phase]), phase # "open" => ev = GameStarted
      PROVE  IInv'
  BY <1>1, <1>6, SaysBoth DEF BesideUpdate
<1>7. CASE \E g \in Emitted(f, LobbyUpdate(f.phase)) :
             BesideUpdate(s, [g EXCEPT !.phase = f.phase])
  BY <1>2, <1>5, <1>7
<1>8. CASE \E g \in EmittedBoth(f, GameStarted, LobbyUpdate("countdown")) :
             BesideUpdate(s, [g EXCEPT !.phase = "countdown"])
  BY <1>4, <1>6, <1>8
<1>9. CASE f.phase = "countdown" /\ \E g \in Emitted(f, LobbyUpdate("in_game")) :
             BesideUpdate(s, [g EXCEPT !.phase = "in_game"])
  BY <1>4, <1>5, <1>9
<1>10. CASE \E g \in EmittedBoth(f, MatchOver, LobbyUpdate("open")) :
              BesideUpdate(s, [g EXCEPT !.phase = "open"])
  BY <1>4, <1>6, <1>10
<1>11. CASE \E g \in Emitted(f, LobbyUpdate("open")) :
              BesideUpdate(s, [g EXCEPT !.phase = "open"])
  BY <1>4, <1>5, <1>11
<1> QED
  BY <1>7, <1>8, <1>9, <1>10, <1>11 DEF LobbyStep

\* A tick takes the place of the oldest event.
LEMMA PushesOut == ASSUME IInv, NEW s \in Sessions, TickPushesOut(s) PROVE IInv'
<1> DEFINE f == feed[s]
           g == [f EXCEPT !.events = Tail(@), !.lost = TRUE]
<1>1. m.wanted = s /\ f.events # <<>> /\ feed' = [feed EXCEPT ![s] = g] /\ UNCHANGED <<m, alone>>
  BY DEF TickPushesOut, BesideUpdate
<1>2. f \in Feeds /\ f.events \in Seq(Events)
  BY DEF IInv, Typed, Feeds
<1>3. /\ Tail(f.events) \in Seq(Events) /\ Len(Tail(f.events)) = Len(f.events) - 1
      /\ \A i \in 1 .. Len(Tail(f.events)) : Tail(f.events)[i] = f.events[i + 1]
  BY <1>1, <1>2, HeadTailProperties
<1>4. /\ g \in Feeds /\ g.attempt = f.attempt /\ g.kind = f.kind /\ g.read = f.read
      /\ g.life = f.life /\ g.lost /\ g.events = Tail(f.events)
  BY <1>2, <1>3 DEF Feeds
<1>5. \A i \in 1 .. Len(f.events) : f.events[i].kind = "closed" =>
        f.life = "ended" /\ i = Len(f.events)
  BY <1>1, NoSessionIsNone DEF IInv, Streams
<1> HIDE DEF f, g
<1>6. \A i \in 1 .. Len(g.events) : g.events[i].kind = "closed" =>
        g.life = "ended" /\ i = Len(g.events)
  <2>1. PICK n \in Nat : Len(g.events) = n /\ Len(f.events) = n + 1
    BY <1>1, <1>2, <1>3, <1>4, EmptySeq
  <2>2. \A i \in 1 .. n : i + 1 \in 1 .. n + 1 /\ (i + 1 = n + 1 => i = n)
    BY <2>1
  <2>3. \A i \in 1 .. n : g.events[i] = f.events[i + 1]
    BY <1>3, <1>4, <2>1
  <2>4. ASSUME NEW i \in 1 .. n, g.events[i].kind = "closed"
        PROVE  g.life = "ended" /\ i = n
    <3>1. i + 1 \in 1 .. Len(f.events) /\ f.events[i + 1].kind = "closed"
      BY <2>1, <2>2, <2>3, <2>4
    <3>2. f.life = "ended" /\ i + 1 = n + 1
      BY <1>5, <2>1, <3>1
    <3> QED
      BY <1>4, <2>2, <3>2
  <2> QED
    BY <2>1, <2>4
<1>7. Current(s)'
  <2>1. feed'[s] = g
    BY <1>1 DEF IInv, Typed
  <2> QED
    BY <1>4, <2>1 DEF Current
<1> HIDE DEF Current
<1> QED
  BY <1>1, <1>4, <1>6, <1>7, Tells DEF f

\* The session ends, and says so last.
LEMMA SessionsEnd == ASSUME IInv, NEW s \in Sessions, SessionEnds(s) PROVE IInv'
<1> DEFINE f == feed[s]
<1>1. m.wanted = s /\ f.life = "run" /\ UNCHANGED <<m, alone>>
  BY DEF SessionEnds, BesideUpdate
<1>2. PICK e \in Emitted(f, SessionClosed) : feed' = [feed EXCEPT ![s] = [e EXCEPT !.life = "ended"]]
  BY DEF SessionEnds, BesideUpdate
<1>3. /\ f \in Feeds /\ f.events \in Seq(Events)
      /\ \A i \in 1 .. Len(f.events) : f.events[i].kind # "closed"
  BY <1>1, Listening
<1>4. SessionClosed \in Events
  BY DEF SessionClosed, Event, Events
<1>5. /\ e \in Feeds /\ e.attempt = f.attempt /\ e.kind = f.kind /\ e.read = f.read
      /\ e.events \in {Append(f.events, SessionClosed), f.events}
  BY <1>2, <1>3, <1>4, EmittedTyped
<1> DEFINE g == [e EXCEPT !.life = "ended"]
<1>6. /\ g \in Feeds /\ g.attempt = f.attempt /\ g.kind = f.kind /\ g.read = f.read
      /\ g.life = "ended" /\ g.events = e.events
  BY <1>5 DEF Feeds
<1>7. feed' = [feed EXCEPT ![s] = g]
  BY <1>2
<1> HIDE DEF f, g
<1>8. \A i \in 1 .. Len(g.events) : g.events[i].kind = "closed" => i = Len(g.events)
  <2>1. CASE g.events = f.events
    BY <1>3, <2>1
  <2>2. CASE g.events = Append(f.events, SessionClosed)
    <3>1. PICK n \in Nat : Len(f.events) = n
      BY <1>3
    <3>2. Len(g.events) = n + 1 /\ \A i \in 1 .. n : g.events[i] = f.events[i]
      BY <1>3, <1>4, <2>2, <3>1, AppendProperties
    <3>3. \A i \in 1 .. n + 1 : i \in 1 .. n \/ i = n + 1
      BY <3>1
    <3> QED
      BY <1>3, <3>1, <3>2, <3>3
  <2> QED
    BY <1>5, <1>6, <2>1, <2>2
<1>9. Current(s)'
  <2>1. feed'[s] = g
    BY <1>7 DEF IInv, Typed
  <2> QED
    BY <1>6, <2>1 DEF Current
<1> HIDE DEF Current
<1> QED
  BY <1>1, <1>6, <1>7, <1>8, <1>9, Tells DEF f
-----------------------------------------------------------------------------
(***************************************************************************)
(* The keys.                                                               *)
(***************************************************************************)
\* Another screen in front, and nothing else.
LEMMA Shows ==
  ASSUME IInv, NEW f \in Fronts, Go([m EXCEPT !.front = f]),
         Under(f) = <<"form", "room">> =>
           m.editing /\ (m.session # NoSession => feed[m.session].kind = "host"),
         m.session # NoSession /\ Leads(m.front, m.editing) => Leads(f, m.editing)
  PROVE  IInv'
<1>1. m.editing \in BOOLEAN /\ m' = [m EXCEPT !.front = f, !.editing = m.editing]
  BY DEF Go, IInv, Typed
<1> QED
  BY <1>1, Moves DEF Go

\* The screen in front, with nothing or one screen behind it.
LEMMA InFrontOf ==
  ASSUME IInv, Screen(m) # "settings"
  PROVE  /\ m.front \in Bases /\ Under(m.front) = m.front
         /\ Screen(m) \in Alone \union {"form", "history"}
         /\ Screen(m) \in Alone => m.front = <<Screen(m)>>
BY UnderFront, BaseScreens DEF IInv, Typed, Screen

\* Such a screen, with one behind it.
LEMMA PairInFront ==
  ASSUME NEW f \in {<<"form", back>> : back \in {"menu", "browser", "room"}}
                     \union {<<"history", back>> : back \in {"menu", "over"}}
  PROVE  f \in Bases /\ f \in Fronts /\ Under(f) = f
<1>1. f \in Bases /\ f \in Fronts
  BY DEF Bases, Fronts
<1>2. Head(f) \in Alone \union {"form", "history"}
  BY <1>1, BaseScreens
<1> QED
  BY <1>1, <1>2 DEF Under, Alone

\* Screens that lead to no lobby, alone in front.
LEMMA LeadsNowhere ==
  ASSUME NEW screen \in {"onboarding", "menu", "browser", "gone"}, NEW e \in BOOLEAN
  PROVE  ~ Leads(<<screen>>, e)
<1>1. screen \in Alone
  BY DEF Alone
<1> QED
  BY <1>1, AloneInFront DEF Leads

LEMMA SettingsOpened == ASSUME IInv, OpenSettings PROVE IInv'
<1>1. m.front \in Bases /\ Under(m.front) = m.front
  BY InFrontOf DEF OpenSettings
<1> DEFINE f == <<"settings">> \o m.front
<1>2. f \in Fronts /\ Under(f) = m.front
  BY <1>1, Overlaid DEF Fronts, Under
<1>3. Go([m EXCEPT !.front = f])
  BY DEF OpenSettings
<1> HIDE DEF f
<1>4. Leads(f, m.editing) <=> Leads(m.front, m.editing)
  BY <1>1, <1>2 DEF Leads
<1> QED
  BY <1>1, <1>2, <1>3, <1>4, Shows DEF IInv, Kept

LEMMA SettingsReturn == ASSUME IInv, UpdateSettings PROVE IInv'
<1> DEFINE f == Tail(m.front)
<1>1. Head(m.front) = "settings" /\ Go([m EXCEPT !.front = f])
  BY DEF UpdateSettings, Pressed, Screen, Return
<1>2. f \in Bases
  BY <1>1, FrontScreens DEF IInv, Typed, Alone
<1>3. Under(m.front) = f
  BY <1>1 DEF Under
<1> HIDE DEF f
<1>4. f \in Fronts /\ Under(f) = f
  <2>1. Head(f) # "settings" /\ f \in Fronts
    BY <1>2, BaseScreens DEF Fronts, Alone
  <2> QED
    BY <2>1 DEF Under
<1>5. Leads(f, m.editing) <=> Leads(m.front, m.editing)
  BY <1>3, <1>4 DEF Leads
<1> QED
  BY <1>1, <1>3, <1>4, <1>5, Shows DEF IInv, Kept

\* In front of the menu and the browser nothing leads to a lobby.
LEMMA MenuKeys == ASSUME IInv, UpdateMenu \/ Onboarded PROVE IInv'
<1>1. m.editing \in BOOLEAN
  BY DEF IInv, Typed
<1>2. Screen(m) \in {"menu", "onboarding"} /\ Screen(m) \in Alone /\ Screen(m) # "settings"
  BY DEF UpdateMenu, Onboarded, Pressed, Alone
<1>3. ~ Leads(m.front, m.editing)
  BY <1>1, <1>2, InFrontOf, LeadsNowhere
<1>4. PICK f \in {<<"form", "menu">>, <<"history", "menu">>, <<"browser">>, <<"menu">>} :
        Go([m EXCEPT !.front = f])
  BY DEF UpdateMenu, Onboarded, Open, Show, Go
<1>5. f \in Fronts /\ Under(f) = f /\ f # <<"form", "room">>
  <2>1. {"browser", "menu"} \subseteq Alone
    BY DEF Alone
  <2> QED
    BY <1>4, <2>1, AloneInFront, PairInFront
<1> QED
  BY <1>3, <1>4, <1>5, Shows

LEMMA BrowserKeys == ASSUME IInv, UpdateBrowser PROVE IInv'
<1>1. m.editing \in BOOLEAN /\ Screen(m) = "browser" /\ "browser" \in Alone
  BY DEF IInv, Typed, UpdateBrowser, Pressed, Alone
<1>2. ~ Leads(m.front, m.editing)
  BY <1>1, InFrontOf, LeadsNowhere
<1>3. CASE \E f \in {<<"menu">>, <<"form", "browser">>} : Go([m EXCEPT !.front = f])
  <2>1. PICK f \in {<<"menu">>, <<"form", "browser">>} : Go([m EXCEPT !.front = f])
    BY <1>3
  <2>2. "menu" \in Alone
    BY DEF Alone
  <2>3. f \in Fronts /\ Under(f) = f /\ f # <<"form", "room">>
    BY <2>2, AloneInFront, PairInFront
  <2> QED
    BY <1>2, <2>1, <2>3, Shows
<1>4. CASE \E s \in Sessions : Begin(s, "client") /\ UNCHANGED m
  BY <1>2, <1>4, Begins
<1> QED
  BY <1>3, <1>4 DEF UpdateBrowser, Show, Open

\* The form.
LEMMA FormKeys == ASSUME IInv, UpdateForm PROVE IInv'
<1>1. m.editing \in BOOLEAN /\ Screen(m) = "form"
  BY DEF IInv, Typed, UpdateForm, Pressed
<1>2. m.front \in Bases /\ Under(m.front) = m.front
  BY <1>1, InFrontOf
<1>3. PICK back \in {"menu", "browser", "room"} :
        m.front = <<"form", back>> /\ Tail(m.front) = <<back>>
  BY <1>1, <1>2, BaseScreens DEF Screen
<1>4. back \in Alone /\ {"room", "menu"} \subseteq Alone
  BY DEF Alone
<1>5. Leads(m.front, m.editing) => back = "room" /\ m.editing
  BY <1>2, <1>3 DEF Leads
<1>6. CASE Go(Return([m EXCEPT !.editing = FALSE]))
  <2>1. m' = [m EXCEPT !.front = <<back>>, !.editing = FALSE] /\ UNCHANGED <<feed, alone>>
    BY <1>3, <1>6 DEF Go, Return, IInv, Typed
  <2>2. <<back>> \in Fronts /\ Under(<<back>>) = <<back>> /\ <<back>> # <<"form", "room">>
    BY <1>4, AloneInFront
  <2>3. back = "room" => Leads(<<back>>, FALSE)
    BY <2>2 DEF Leads
  <2> QED
    BY <1>5, <2>1, <2>2, <2>3, Moves
<1>7. CASE /\ m.editing
           /\ LET mine == m.session # NoSession /\ feed[m.session].kind = "host"
              IN  Go(Show([m EXCEPT !.editing = FALSE], IF mine THEN "room" ELSE "menu"))
  <2> DEFINE screen == IF m.session # NoSession /\ feed[m.session].kind = "host"
                       THEN "room" ELSE "menu"
  <2>1. m' = [m EXCEPT !.front = <<screen>>, !.editing = FALSE] /\ UNCHANGED <<feed, alone>>
    BY <1>7 DEF Go, Show, IInv, Typed
  <2>2. screen \in Alone
    BY <1>4
  <2>3. m.session # NoSession /\ back = "room" => screen = "room"
    BY <1>2, <1>3 DEF IInv, Kept
  <2> HIDE DEF screen
  <2>4. /\ <<screen>> \in Fronts /\ Under(<<screen>>) = <<screen>>
        /\ <<screen>> # <<"form", "room">>
    BY <2>2, AloneInFront
  <2>5. screen = "room" => Leads(<<screen>>, FALSE)
    BY <2>4 DEF Leads
  <2> QED
    BY <1>5, <2>1, <2>3, <2>4, <2>5, Moves
<1>8. CASE ~ m.editing /\ (\E s \in Sessions : Begin(s, "host")) /\ UNCHANGED m
  BY <1>5, <1>8, Begins
<1> QED
  BY <1>6, <1>7, <1>8 DEF UpdateForm

\* The room and the arena.
LEMMA LobbyKeys == ASSUME IInv, UpdateRoom \/ UpdateGame PROVE IInv'
<1>1. /\ Screen(m) \in {"room", "game"} /\ Screen(m) \in Alone /\ Screen(m) # "settings"
      /\ "browser" \in Alone
  BY DEF UpdateRoom, UpdateGame, Pressed, Alone
<1>2. m.front = <<Screen(m)>>
  BY <1>1, InFrontOf
<1>3. CASE GoLeaving("browser")
  BY <1>3, Leaves DEF GoLeaving
<1>4. CASE m.session = NoSession /\ Go(Show(m, "browser"))
  <2>1. <<"browser">> \in Fronts /\ Under(<<"browser">>) # <<"form", "room">>
    BY <1>1, AloneInFront
  <2>2. Go([m EXCEPT !.front = <<"browser">>])
    BY <1>4 DEF Show
  <2> QED
    BY <1>4, <2>1, <2>2, Shows
<1>5. CASE /\ m.session # NoSession /\ feed[m.session].kind = "host"
           /\ Go(Open([m EXCEPT !.editing = TRUE], "form", "room"))
  <2> DEFINE f == <<"form", "room">>
  <2>1. m' = [m EXCEPT !.front = f, !.editing = TRUE] /\ UNCHANGED <<feed, alone>>
    BY <1>5 DEF Go, Open, IInv, Typed
  <2>2. f \in Fronts /\ Under(f) = f
    BY PairInFront
  <2>3. Leads(f, TRUE)
    BY <2>2 DEF Leads
  <2> QED
    BY <1>5, <2>1, <2>2, <2>3, Moves
<1> QED
  BY <1>3, <1>4, <1>5 DEF UpdateRoom, UpdateGame

LEMMA GameOverKeys == ASSUME IInv, UpdateGameOver PROVE IInv'
<1>1. {"over", "room", "browser"} \subseteq Alone
  BY DEF Alone
<1>2. PICK f \in {<<"room">>, <<"browser">>, <<"history", "over">>} :
        /\ Go([m EXCEPT !.front = f])
        /\ f = <<"browser">> => m.session = NoSession
  BY DEF UpdateGameOver, Show, Open
<1>3. f \in Fronts /\ Under(f) = f /\ f # <<"form", "room">>
  BY <1>1, AloneInFront, PairInFront
<1>4. f # <<"browser">> => Leads(f, m.editing)
  BY <1>3 DEF Leads
<1> QED
  BY <1>2, <1>3, <1>4, Shows

LEMMA HistoryKeys == ASSUME IInv, UpdateHistory PROVE IInv'
<1>1. Screen(m) = "history" /\ Go([m EXCEPT !.front = Tail(m.front)])
  BY DEF UpdateHistory, Pressed, Return
<1>2. m.front \in Bases /\ Under(m.front) = m.front
  BY <1>1, InFrontOf
<1>3. PICK back \in {"menu", "over"} :
        m.front = <<"history", back>> /\ Tail(m.front) = <<back>>
  BY <1>1, <1>2, BaseScreens DEF Screen
<1>4. back \in Alone
  BY DEF Alone
<1>5. <<back>> \in Fronts /\ Under(<<back>>) = <<back>>
  BY <1>4, AloneInFront
<1>6. Leads(m.front, m.editing) => Leads(<<back>>, m.editing)
  BY <1>2, <1>3, <1>5 DEF Leads
<1> QED
  BY <1>1, <1>3, <1>5, <1>6, Shows

\* Every key.
LEMMA Keys == ASSUME IInv, HandleKey PROVE IInv'
<1>1. CASE LeaveTooSmall
  BY <1>1, Leaves DEF LeaveTooSmall, GoLeaving
<1> QED
  BY <1>1, Quits, SettingsOpened, SettingsReturn, MenuKeys, BrowserKeys, FormKeys, LobbyKeys,
     GameOverKeys, HistoryKeys DEF HandleKey
-----------------------------------------------------------------------------
(***************************************************************************)
(* The invariant holds.                                                    *)
(***************************************************************************)
LEMMA InitHolds == Init => IInv
<1> SUFFICES ASSUME Init PROVE IInv
  OBVIOUS
<1>1. /\ m.front = <<"onboarding">> /\ m.editing = FALSE /\ m.session = NoSession
      /\ m.wanted = NoSession /\ feed = [s \in Sessions |-> Unused] /\ alone
  BY DEF Init
<1>2. "onboarding" \in Alone /\ "client" \in {"client", "host"}
  BY DEF Alone
<1>3. Typed
  <2>1. <<"onboarding">> \in Fronts /\ Unused \in Feeds
    BY <1>2, AloneInFront, MadeTyped
  <2> QED
    BY <2>1 DEF Init, Typed
<1>4. Streams
  BY <1>1, NoSessionIsNone DEF Streams
<1>5. Kept
  BY <1>1, <1>2, AloneInFront DEF Kept
<1>6. Reachable
  BY <1>1 DEF Reachable, InFlight, Unused
<1> QED
  BY <1>3, <1>4, <1>5, <1>6 DEF IInv

LEMMA StepHolds == IInv /\ [Next]_vars => IInv'
<1> SUFFICES ASSUME IInv, [Next]_vars PROVE IInv'
  OBVIOUS
<1>1. CASE \E s \in Sessions : SessionReady(s) \/ SessionEvent(s) \/ SessionGone(s)
  BY <1>1, Answers, Takes, Ends
<1>2. CASE NodeNeedsLogin
  BY <1>2, Leaves DEF NodeNeedsLogin
<1>3. CASE Onboarded
  BY <1>3, MenuKeys
<1>4. CASE HandleKey
  BY <1>4, Keys
<1>5. CASE \E s \in Sessions : Beside(s)
  BY <1>5, LobbySteps, PushesOut, SessionsEnd DEF Beside
<1>6. CASE UNCHANGED vars
  BY <1>6 DEF vars, IInv, Typed, Streams, Current, Kept, Reachable, InFront, Screen, InFlight
<1> QED
  BY <1>1, <1>2, <1>3, <1>4, <1>5, <1>6 DEF Next, Update

LEMMA Invariant == Spec => []IInv
BY InitHolds, StepHolds, PTL DEF Spec

\* Whatever happens, the Model and the streams have the values they can have.
THEOREM ScreensTyped == Spec => []Typed
<1>1. IInv => Typed
  BY DEF IInv
<1> QED
  BY <1>1, Invariant, PTL

\* Once all events of a session are taken and none of them is lost, the roster and the
\* board are those of its lobby.
THEOREM AlwaysShowsThisLobby == Spec => []ShowsThisLobby
<1>1. IInv => ShowsThisLobby
  <2> SUFFICES ASSUME IInv, NEW s \in Sessions, Caught(s)
               PROVE  m.room = feed[s].phase /\ (feed[s].phase # "open" => m.board)
    BY DEF ShowsThisLobby
  <2>1. m.wanted = s /\ Current(s)
    BY NoSessionIsNone DEF IInv, Streams, Caught
  <2>2. Len(feed[s].events) = 0
    <3>1. Len(<<>>) = 0
      OBVIOUS
    <3> QED
      BY <3>1 DEF Caught
  <2> QED
    BY <2>1, <2>2 DEF Current, Caught
<1> QED
  BY <1>1, Invariant, PTL

\* As long as no attempt is begun before the last one was answered, no session is left
\* open behind, and keys lead to the one attached.
THEOREM LobbyNeverLost == Spec => []LobbyNotLost
<1>1. IInv => LobbyNotLost
  BY DEF IInv, Reachable, LobbyNotLost
<1> QED
  BY <1>1, Invariant, PTL
-----------------------------------------------------------------------------
(***************************************************************************)
(* No event brings up a lobby that was left.                               *)
(***************************************************************************)
\* The stale screens are two, the rest only have to be told from them.
LEMMA StaleScreens == Stale => Screen(m) \in {"room", "game"}
BY DEF Stale

\* With nothing changed of the Model, only what a stream says of its lobby can make an
\* arena stale.
LEMMA StaleBeside ==
  ASSUME IInv, ~ Stale, m' = m,
         NEW s \in Sessions, m.session # s \/ ~ Caught(s)',
         \A t \in Sessions \ {s} : feed'[t] = feed[t]
  PROVE  ~ Stale'
<1>1. \A t \in Sessions : Caught(t)' => t # s /\ m.session = t
  BY DEF Caught
<1>2. \A t \in Sessions : Caught(t)' => Caught(t) /\ feed'[t] = feed[t]
  BY <1>1 DEF Caught
<1>3. Screen(m)' = Screen(m)
  BY DEF Screen
<1> QED
  BY <1>2, <1>3 DEF Stale

\* The event after which everything is shown is the roster of the lobby as it is.
LEMMA LastIsRoster ==
  ASSUME IInv, NEW s \in Sessions, m.wanted = s, SessionEvent(s), Caught(s)'
  PROVE  m' = HandleEvent(m, LobbyUpdate(feed[s].phase)) /\ feed'[s].phase = feed[s].phase
<1> DEFINE f == feed[s]
<1>1. PICK ev \in Got(s) \ {StreamEnd} :
        /\ m' = HandleEvent(m, ev)
        /\ feed' = [feed EXCEPT
                      ![s].events = IF feed[s].read = Reading THEN Tail(@) ELSE @,
                      ![s].read = IF m.wanted = s /\ m.session # NoSession THEN @
                                  ELSE NotReading]
  BY DEF SessionEvent
<1>2. /\ m.session = s /\ f.read = Reading /\ f.events # <<>> /\ ev = Head(f.events)
      /\ f \in Feeds /\ f.events \in Seq(Events) /\ Current(s)
  BY EventOfSession, NoSessionIsNone DEF IInv, Typed, Streams, Feeds
<1>3. /\ feed'[s].life = f.life /\ feed'[s].lost = f.lost /\ feed'[s].phase = f.phase
      /\ feed'[s].events = Tail(f.events)
  BY <1>1, <1>2 DEF IInv, Typed, Feeds
<1> HIDE DEF f
<1>4. f.events[Len(f.events)] = LobbyUpdate(f.phase)
  BY <1>2, <1>3 DEF Caught, Current, f
<1>5. Len(f.events) = 1 /\ ev = f.events[1]
  <2>1. /\ Len(f.events) \in Nat \ {0} /\ Len(Tail(f.events)) = Len(f.events) - 1
        /\ ev = f.events[1]
    BY <1>2, HeadTailProperties, EmptySeq
  <2>2. Len(Tail(f.events)) = 0
    <3>1. Len(<<>>) = 0
      OBVIOUS
    <3> QED
      BY <1>3, <3>1 DEF Caught
  <2> QED
    BY <2>1, <2>2
<1> QED
  BY <1>1, <1>3, <1>4, <1>5 DEF f

\* Nor does an event do so.
LEMMA StaleByEvent ==
  ASSUME IInv, ~ Stale, NEW s \in Sessions, SessionEvent(s), Screen(m) # "settings"
  PROVE  ~ Stale'
<1>1. PICK ev \in Got(s) \ {StreamEnd} :
        /\ m' = IF m.wanted = s THEN HandleEvent(m, ev) ELSE m
        /\ \A t \in Sessions \ {s} : feed'[t] = feed[t]
  BY DEF SessionEvent, IInv, Typed
<1>2. CASE m.wanted # s
  <2>1. m.session # s
    BY <1>2, NoSessionIsNone DEF IInv, Streams
  <2> QED
    BY <1>1, <1>2, <2>1, StaleBeside
<1>3. CASE m.wanted = s
  <2> SUFFICES ASSUME Stale' PROVE FALSE
    OBVIOUS
  <2>1. m.session = s /\ ev \in Events /\ m' = HandleEvent(m, ev) /\ s # NoSession
    BY <1>1, <1>3, EventOfSession, NoSessionIsNone
  <2>2. /\ m'.session = IF ev.kind = "closed" THEN NoSession ELSE s
        /\ ev.kind \in {"lobby", "started", "over", "closed"}
    BY <2>1, Handled DEF IInv, Events
  <2>3. CASE ev.kind = "closed"
    <3>1. m' = Detach(m)
      BY <2>1, <2>3 DEF HandleEvent
    <3>2. m'.front = IF Screen(m) \in {"room", "game"} THEN <<"browser">> ELSE m.front
      BY <3>1 DEF Detach, IInv, Typed
    <3>3. Head(<<"browser">>) = "browser"
      OBVIOUS
    <3> QED
      BY <3>2, <3>3, StaleScreens DEF Screen, Stale
  <2>4. CASE ev.kind # "closed"
    <3>1. Screen(m)' = "game" /\ Caught(s)' /\ feed'[s].phase = "open"
      BY <2>1, <2>2, <2>4 DEF Stale, Caught
    <3>2. m' = HandleEvent(m, LobbyUpdate(feed[s].phase)) /\ feed[s].phase = "open"
      BY <1>3, <3>1, LastIsRoster
    <3>3. m'.front = IF m.front = <<"game">> THEN <<"room">> ELSE m.front
      BY <3>2 DEF HandleEvent, LobbyUpdate, IInv, Typed
    <3>4. Head(<<"room">>) = "room"
      OBVIOUS
    <3>5. Screen(m) = "game" /\ m.front # <<"game">>
      BY <3>1, <3>3, <3>4 DEF Screen
    <3> QED
      BY <3>5, InFrontOf DEF Alone
  <2> QED
    BY <2>3, <2>4
<1> QED
  BY <1>2, <1>3

\* Nor the end of a stream.
LEMMA StaleByEnd ==
  ASSUME IInv, ~ Stale, NEW s \in Sessions, SessionGone(s)
  PROVE  ~ Stale'
<1>1. /\ m' = IF m.wanted = s THEN Detach(m) ELSE m
      /\ \A t \in Sessions \ {s} : feed'[t] = feed[t]
  BY DEF SessionGone, StreamGone, IInv, Typed
<1>2. CASE m.wanted # s
  <2>1. m.session # s
    BY <1>2, NoSessionIsNone DEF IInv, Streams
  <2> QED
    BY <1>1, <1>2, <2>1, StaleBeside
<1>3. CASE m.wanted = s
  <2>1. /\ m'.session = NoSession
        /\ m'.front = IF Screen(m) \in {"room", "game"} THEN <<"browser">> ELSE m.front
    BY <1>1, <1>3 DEF Detach, IInv, Typed
  <2>2. Head(<<"browser">>) = "browser"
    OBVIOUS
  <2> QED
    BY <2>1, <2>2, StaleScreens DEF Screen, Stale
<1> QED
  BY <1>2, <1>3

\* What a lobby tells comes after the arena, not before it.
LEMMA StaleByLobby ==
  ASSUME IInv, ~ Stale, NEW s \in Sessions, Beside(s)
  PROVE  ~ Stale'
<1>1. PICK g : BesideUpdate(s, g)
  BY DEF Beside, LobbyStep, TickPushesOut, SessionEnds
<1>2. feed[s] \in Feeds /\ feed[s].events \in Seq(Events)
  BY DEF IInv, Typed, Feeds
<1>3. ~ Caught(s)'
  <2>1. CASE LobbyStep(s)
    <3> DEFINE phases == {feed[s].phase, "open", "countdown", "in_game"}
               says(f) == \E phase \in phases : \E e \in Emitted(f, LobbyUpdate(phase)) :
                            BesideUpdate(s, [e EXCEPT !.phase = phase])
    <3>1. \/ says(feed[s])
          \/ \E ev \in {GameStarted, MatchOver}, phase \in phases :
               \E e \in EmittedBoth(feed[s], ev, LobbyUpdate(phase)) :
                 BesideUpdate(s, [e EXCEPT !.phase = phase])
      BY <2>1 DEF LobbyStep
    <3>2. ASSUME NEW ev, NEW phase \in phases,
                 NEW e \in EmittedBoth(feed[s], ev, LobbyUpdate(phase)),
                 BesideUpdate(s, [e EXCEPT !.phase = phase])
          PROVE  \E f \in Emitted(feed[s], ev) : says(f)
      BY <3>2 DEF EmittedBoth
    <3> HIDE DEF says
    <3>3. PICK f \in {feed[s]} \union Emitted(feed[s], GameStarted)
                       \union Emitted(feed[s], MatchOver) : says(f)
      BY <3>1, <3>2
    <3>4. PICK phase \in phases, e \in UNION {Emitted(f, LobbyUpdate(p)) : p \in phases} :
          /\ e \in Emitted(f, LobbyUpdate(phase))
          /\ BesideUpdate(s, [e EXCEPT !.phase = phase])
      BY <3>3 DEF says
    <3>5. GameStarted \in Events /\ MatchOver \in Events
      BY DEF GameStarted, MatchOver, Event, Events
    <3>6. f \in Feeds /\ LobbyUpdate(phase) \in Events
      BY <1>2, <3>5, EmittedTyped DEF Feeds, LobbyUpdate, Events, Phases
    <3>7. e \in Feeds /\ (e.events = Append(f.events, LobbyUpdate(phase)) \/ e.lost)
      BY <3>4, <3>6, EmittedTyped
    <3>8. feed'[s].events = e.events /\ feed'[s].lost = e.lost
      BY <3>4, <3>7 DEF BesideUpdate, IInv, Typed, Feeds
    <3>9. Append(f.events, LobbyUpdate(phase)) # <<>>
      <4>1. f.events \in Seq(Events)
        BY <3>6 DEF Feeds
      <4> QED
        BY <3>6, <4>1, AppendProperties
    <3> QED
      BY <3>7, <3>8, <3>9 DEF Caught
  <2>2. CASE TickPushesOut(s)
    <3>1. feed'[s].lost
      BY <1>2, <2>2 DEF TickPushesOut, BesideUpdate, IInv, Typed, Feeds
    <3> QED
      BY <3>1 DEF Caught
  <2>3. CASE SessionEnds(s)
    <3>1. PICK e \in Emitted(feed[s], SessionClosed) :
            BesideUpdate(s, [e EXCEPT !.life = "ended"])
      BY <2>3 DEF SessionEnds
    <3>2. e \in Feeds
      BY <1>2, EmittedTyped DEF SessionClosed, Event, Events
    <3>3. feed'[s].life = "ended"
      BY <3>1, <3>2 DEF BesideUpdate, IInv, Typed, Feeds
    <3> QED
      BY <3>3 DEF Caught
  <2> QED
    BY <2>1, <2>2, <2>3 DEF Beside
<1>4. m' = m /\ \A t \in Sessions \ {s} : feed'[t] = feed[t]
  BY <1>1 DEF BesideUpdate, IInv, Typed
<1> QED
  BY <1>3, <1>4, StaleBeside

\* Of the keys only returning leads to such a screen.
LEMMA StaleByKey ==
  ASSUME IInv, ~ Stale, HandleKey \/ NodeNeedsLogin \/ Onboarded,
         Screen(m) \notin {"settings", "form"}
  PROVE  ~ Stale'
<1> SUFFICES ASSUME Screen(m)' \in {"room", "game"} PROVE ~ Stale'
  BY StaleScreens DEF Stale
<1>1. ASSUME NEW front, m'.front = front, Head(front) \notin {"room", "game"} PROVE FALSE
  BY <1>1 DEF Screen
<1>2. ASSUME NEW screen \in {"onboarding", "menu", "browser", "gone"}, m'.front = <<screen>>
      PROVE  FALSE
  BY <1>1, <1>2
<1>3. ASSUME NEW screen \in {"form", "history"}, NEW back, m'.front = <<screen, back>>
      PROVE  FALSE
  <2>1. Head(<<screen, back>>) = screen
    OBVIOUS
  <2> QED
    BY <1>1, <1>3, <2>1
<1>4. CASE Quit \/ LeaveTooSmall \/ NodeNeedsLogin \/ Onboarded
  <2>1. \E screen \in {"onboarding", "menu", "browser", "gone"} : m'.front = <<screen>>
    BY <1>4 DEF Quit, LeaveTooSmall, GoLeaving, NodeNeedsLogin, Onboarded, Show, Go, Leave,
                IInv, Typed
  <2> QED
    BY <1>2, <2>1
<1>5. CASE OpenSettings
  <2>1. m.front \in Bases /\ m'.front = <<"settings">> \o m.front
    BY <1>5, InFrontOf DEF OpenSettings, Go, IInv, Typed
  <2> QED
    BY <1>1, <2>1, Overlaid
<1>6. CASE UpdateMenu \/ UpdateBrowser
  <2>1. \/ \E screen \in {"menu", "browser"} : m'.front = <<screen>>
        \/ \E screen \in {"form", "history"}, back \in Names : m'.front = <<screen, back>>
        \/ m' = m /\ Screen(m) = "browser"
    BY <1>6 DEF UpdateMenu, UpdateBrowser, Pressed, Go, Show, Open, IInv, Typed, Names, Alone
  <2> QED
    BY <1>2, <1>3, <2>1 DEF Screen
<1>7. CASE UpdateRoom \/ UpdateGame
  <2>1. m'.front = <<"browser">> \/ m'.front = <<"form", "room">>
    BY <1>7 DEF UpdateRoom, UpdateGame, GoLeaving, Go, Show, Open, Leave, IInv, Typed
  <2> QED
    BY <1>2, <1>3, <2>1
<1>8. CASE UpdateGameOver
  <2>1. \/ m'.front = <<"room">> /\ m.session # NoSession
        \/ m'.front = <<"browser">>
        \/ m'.front = <<"history", "over">>
    BY <1>8 DEF UpdateGameOver, Go, Show, Open, IInv, Typed
  <2>2. m'.session = m.session
    BY <1>8 DEF UpdateGameOver, Go, Show, Open, IInv, Typed
  <2> QED
    BY <1>2, <1>3, <2>1, <2>2 DEF Stale, Screen
<1>9. CASE UpdateHistory
  <2>1. Screen(m) = "history" /\ m'.front = Tail(m.front)
    BY <1>9 DEF UpdateHistory, Pressed, Go, Return, IInv, Typed
  <2>2. PICK back \in {"menu", "over"} : Tail(m.front) = <<back>>
    BY <2>1, InFrontOf, BaseScreens DEF Screen
  <2>3. Head(<<back>>) = back
    OBVIOUS
  <2> QED
    BY <1>1, <2>1, <2>2, <2>3
<1> QED
  BY <1>4, <1>5, <1>6, <1>7, <1>8, <1>9 DEF HandleKey, UpdateForm, UpdateSettings, Pressed

\* No event, however late, brings up a lobby that was left or leaves an arena without a
\* match in front: only returning from settings or the form does.
THEOREM StaleAlwaysByReturn == Spec => StaleOnlyByReturn
<1>1. IInv /\ [Next]_vars
        => [Stale' /\ ~ Stale => Screen(m) \in {"settings", "form"}]_vars
  <2> SUFFICES ASSUME IInv, Next, ~ Stale, Screen(m) \notin {"settings", "form"}
               PROVE  ~ Stale'
    OBVIOUS
  <2>1. CASE \E s \in Sessions : SessionReady(s)
    <3>1. PICK s \in Sessions : m' = Attach(m, s) \/ m' = Show(m, "browser")
      BY <2>1 DEF SessionReady
    <3>2. \/ m'.front = <<"room">> /\ m'.session # NoSession
          \/ m'.front = <<"browser">>
      BY <3>1, NoSessionIsNone DEF Attach, Show, IInv, Typed
    <3> QED
      BY <3>2 DEF Stale, Screen
  <2>2. CASE \E s \in Sessions : SessionEvent(s) \/ SessionGone(s)
    BY <2>2, StaleByEvent, StaleByEnd
  <2>3. CASE HandleKey \/ NodeNeedsLogin \/ Onboarded
    BY <2>3, StaleByKey
  <2>4. CASE \E s \in Sessions : Beside(s)
    BY <2>4, StaleByLobby
  <2> QED
    BY <2>1, <2>2, <2>3, <2>4 DEF Next, Update
<1> QED
  BY <1>1, Invariant, PTL DEF Spec, StaleOnlyByReturn
=============================================================================
